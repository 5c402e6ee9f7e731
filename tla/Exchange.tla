------------------------------- MODULE Exchange -------------------------------
(***************************************************************************)
(* What the command worker relies on when it puts a command on the bus     *)
(* (NikobusCommandHandler._send_command_get_answer): one command at a time *)
(* is asked, and it ends by the answer of the output group it was asked of *)
(* or by an error.  The abstract counterpart of BusExchange.               *)
(***************************************************************************)
EXTENDS Naturals

CONSTANTS Group, Nothing, Failed

VARIABLES
    asked,   \* the group the command in progress is about, or Nothing
    outcome  \* the group the last answer came from, Failed or Nothing

Init == asked = Nothing /\ outcome = Nothing

Ask(g) == asked = Nothing /\ asked' = g /\ outcome' = Nothing

Answer == asked # Nothing /\ outcome' = asked /\ asked' = Nothing

Fail == asked # Nothing /\ outcome' = Failed /\ asked' = Nothing

Next == (\E g \in Group : Ask(g)) \/ Answer \/ Fail

\* A command that was asked ends.
Spec == /\ Init /\ [][Next]_<<asked, outcome>>
        /\ WF_<<asked, outcome>>(Answer \/ Fail)
=============================================================================
