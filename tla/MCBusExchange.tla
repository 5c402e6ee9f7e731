---------------------------- MODULE MCBusExchange ----------------------------
(* Small instances of BusExchange for TLC. *)
EXTENDS BusExchange

\* A PC-Link that relays a Feedback Module's queries, nothing lost; a bus that
\* loses frames, whatever the order of acknowledgement and answer.
MCBuses ==
    {[polls |-> 3, orders |-> {"first"}, waits |-> TRUE, lossy |-> FALSE],
     [polls |-> 0, orders |-> {"first", "last"}, waits |-> FALSE, lossy |-> TRUE]}
=============================================================================
