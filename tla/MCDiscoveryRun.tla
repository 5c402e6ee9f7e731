---------------------------- MODULE MCDiscoveryRun ----------------------------
(* Small instances of DiscoveryRun for TLC. *)
EXTENDS DiscoveryRun

CONSTANTS sw, dim, fb

\* Two output modules with one without registers between them.
MCModules == <<sw, fb, dim>>
=============================================================================
