---------------------------- MODULE MCRegisterScan ----------------------------
(* Small instances of RegisterScan for TLC. *)
EXTENDS RegisterScan

\* Dimmers with up to two records, one of them past a gap, switches with five
\* records in a row (two registers and one more) and with three, of which the
\* last ends in the second register; a self-sizing table.
MCTables ==
    [dimmer |-> {{}, {0}, {0, 1}, {1, 2}},
     switch |-> {0..2, 0..4},
     self   |-> {{0, 2}}]
=============================================================================
