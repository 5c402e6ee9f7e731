----------------------------- MODULE BusExchange -----------------------------
(***************************************************************************)
(* One exchange on the bus in detail: the command worker's attempts        *)
(* (_wait_for_ack_and_answer, _wait_for_ack_and_answer_state in            *)
(* nikobus_connect/command.py) against the listener's dispatch of frames   *)
(* (nikobus_connect/listener.py), for the two output groups of one module. *)
(*                                                                         *)
(* A state answer names the module, not the group.  The listener guesses   *)
(* the group from the queries it saw, the worker tells its answer from     *)
(* those to a Feedback Module's queries by the acknowledgement before it.  *)
(*                                                                         *)
(* The gateway, the module and the Feedback Module are external.  They     *)
(* answer in the order of the queries on the bus; the constants say in     *)
(* which order the gateway acknowledges and forwards, whether it waits for *)
(* a quiet bus, and whether frames get lost.                               *)
(***************************************************************************)
EXTENDS Naturals, Sequences

CONSTANTS
    Nothing,     \* no frame, no group
    Failed,      \* the outcome of an exchange that raised
    Attempts,    \* MAX_ATTEMPTS
    MaxCommands, \* bound: exchanges of a run
    QueueMax,    \* maxsize of the response queue
    Buses        \* the buses considered, each a record of
                 \*   polls:  how often its Feedback Module asks (a bound),
                 \*   orders: subset of {"first", "last"}: ack before or after
                 \*           the answer,
                 \*   waits:  the gateway forwards only to a quiet bus,
                 \*   lossy:  frames may be lost or corrupted

Group == 1..2

\* ack: the gateway's acknowledgement, by function code; done: a module's
\* answer to a write; echo: a query of the Feedback Module, relayed; own: the
\* frame belongs to a command of ours.
Frame == [kind : {"ack", "done", "state", "echo"}, to : {"read", "write"},
          group : Group, own : BOOLEAN]

ASSUME BusAssumption ==
    /\ Nothing \notin Group \cup Frame /\ Failed \notin Group \cup Frame
    /\ Nothing # Failed
    /\ Attempts \in Nat \ {0} /\ QueueMax \in Nat \ {0}
    /\ MaxCommands \in Nat
    /\ \A b \in Buses : /\ b.polls \in Nat
                        /\ b.orders \subseteq {"first", "last"} /\ b.orders # {}
                        /\ b.waits \in BOOLEAN /\ b.lossy \in BOOLEAN

VARIABLES
    bus,       \* the one this exchange is on (external; never changes)
    phase,     \* "idle", or "read" or "write": the exchange in progress
    ask,       \* the group it is about
    attempt,   \* which attempt
    ackReceived,  \* ack_received
    held,      \* held_early_answer; for a write the answer received
    result,    \* the frame the last exchange returned, Failed or Nothing
    awaiting,  \* _awaiting_response
    awaitedQuery,   \* _awaited_query
    awaitedAckSeen, \* _awaited_ack_seen
    lastQueryGroup, \* _last_query_group of the module
    responseQueue,  \* response_queue
    filed,     \* the last state given to the feedback callback, with the group
    outbox,    \* commands written, not taken by the gateway yet (external)
    owed,      \* queries on the bus the module has to answer (external)
    line,      \* frames on their way to the listener (external)
    commands, polls, \* how many exchanges and queries so far
    took,      \* history: the module took the command of this exchange
    lost       \* history: a frame got lost since this exchange began

workerVars == <<phase, ask, attempt, ackReceived, held, result>>
listenVars == <<awaiting, awaitedQuery, awaitedAckSeen, lastQueryGroup, filed>>
busVars    == <<outbox, owed, line>>
histVars   == <<took, lost>>
vars == <<bus, workerVars, listenVars, responseQueue, busVars, commands, polls, histVars>>

\* A query or a write on its way to the module.
Command == [kind : {"read", "write"}, group : Group, own : BOOLEAN, ack : {"first", "last"}]

Init ==
    /\ bus \in Buses
    /\ phase = "idle" /\ ask = Nothing /\ attempt = 0
    /\ ackReceived = FALSE /\ held = Nothing /\ result = Nothing
    /\ awaiting = FALSE /\ awaitedQuery = Nothing /\ awaitedAckSeen = FALSE
    /\ lastQueryGroup = Nothing
    /\ responseQueue = <<>> /\ filed = Nothing
    /\ outbox = <<>> /\ owed = <<>> /\ line = <<>>
    /\ commands = 0 /\ polls = 0
    /\ took = FALSE /\ lost = FALSE

-----------------------------------------------------------------------------
(* The worker. *)

\* set_pending_query_group, before every attempt of a read.
Announce(kind, g) ==
    IF kind = "read"
    THEN lastQueryGroup' = g /\ awaitedQuery' = g /\ awaitedAckSeen' = FALSE
    ELSE UNCHANGED <<lastQueryGroup, awaitedQuery, awaitedAckSeen>>

\* An attempt: announce, drain the response queue, send.
Attempt(kind, g) ==
    /\ Announce(kind, g)
    /\ responseQueue' = <<>>
    /\ ackReceived' = FALSE /\ held' = Nothing
    /\ \E o \in bus.orders :
        outbox' = Append(outbox, [kind |-> kind, group |-> g, own |-> TRUE, ack |-> o])

Start(kind, g) ==
    /\ phase = "idle" /\ commands < MaxCommands
    /\ phase' = kind /\ ask' = g /\ attempt' = 1 /\ result' = Nothing
    /\ awaiting' = TRUE
    /\ Attempt(kind, g)
    /\ commands' = commands + 1 /\ took' = FALSE /\ lost' = FALSE
    /\ UNCHANGED <<filed, owed, line, polls, bus>>

\* The finally clause: the exchange ends with this result.
Finish(r) ==
    /\ result' = r
    /\ phase' = "idle" /\ attempt' = 0 /\ ackReceived' = FALSE /\ held' = Nothing
    /\ awaiting' = FALSE /\ awaitedQuery' = Nothing
    /\ UNCHANGED <<ask, awaitedAckSeen, lastQueryGroup, filed>>

\* The last query seen for the module was for its other group.
PushedForOtherGroup == lastQueryGroup # Nothing /\ lastQueryGroup # ask

\* Mutant: a state is taken whether or not the acknowledgement came before it.
TakeStateAnyTime(m) == Finish(m)

\* A state answer: after our acknowledgement it is ours; before it, it is held
\* unless it must be the answer to a query for the other group.
TakeState(m) ==
    IF ackReceived THEN Finish(m)
    ELSE /\ held' = IF PushedForOtherGroup THEN held ELSE m
         /\ UNCHANGED <<phase, ask, attempt, ackReceived, result, listenVars>>

\* Mutant: a write ends with its answer, acknowledged or not.
TakeAckOnly(m) == IF phase = "write" THEN Finish(m) ELSE
    /\ ackReceived' = TRUE
    /\ UNCHANGED <<phase, ask, attempt, held, result, listenVars>>

\* Our acknowledgement: a write whose answer came before it has ended.
TakeAck(m) ==
    IF held # Nothing /\ phase = "write" THEN Finish(held)
    ELSE /\ ackReceived' = TRUE
         /\ UNCHANGED <<phase, ask, attempt, held, result, listenVars>>

\* A module's answer to a write: together with the acknowledgement, the end.
TakeDone(m) ==
    IF ackReceived THEN Finish(m)
    ELSE /\ held' = m
         /\ UNCHANGED <<phase, ask, attempt, ackReceived, result, listenVars>>

\* The worker takes the next message: what it does not wait for is dropped.
Take ==
    /\ phase # "idle" /\ responseQueue # <<>>
    /\ responseQueue' = Tail(responseQueue)
    /\ LET m == Head(responseQueue)
           isAck == m.kind = "ack" /\ m.to = phase /\ m.group = ask
           isState == m.kind = "state" /\ phase = "read"
           isDone == m.kind = "done" /\ phase = "write"
       IN \/ isAck /\ TakeAck(m)
          \/ isState /\ TakeState(m)
          \/ isDone /\ TakeDone(m)
          \/ ~(isAck \/ isState \/ isDone) /\ UNCHANGED <<workerVars, listenVars>>
    /\ UNCHANGED <<busVars, commands, polls, histVars, bus>>

\* The timeouts outlast the bus: they fire when nothing of ours is under way.
Quiet ==
    /\ responseQueue = <<>> /\ line = <<>> /\ outbox = <<>>
    /\ \A i \in DOMAIN owed : ~owed[i].own

\* Mutant: an early answer is never used.
UsableHeldNever == FALSE

\* An early state answer stands in for the one that did not follow the ack.
UsableHeld == phase = "read" /\ ackReceived /\ held # Nothing

\* The wait timed out: the held answer, another attempt, or the error.
TimeoutHeld ==
    /\ phase # "idle" /\ Quiet
    /\ UsableHeld
    /\ Finish(held)
    /\ UNCHANGED <<responseQueue, busVars, commands, polls, histVars, bus>>

TimeoutRetry ==
    /\ phase # "idle" /\ Quiet
    /\ ~UsableHeld /\ attempt < Attempts
    /\ attempt' = attempt + 1
    /\ Attempt(phase, ask)
    /\ UNCHANGED <<phase, ask, result, awaiting, filed, owed, line, commands, polls, histVars, bus>>

TimeoutFail ==
    /\ phase # "idle" /\ Quiet
    /\ ~UsableHeld /\ attempt = Attempts
    /\ Finish(Failed)
    /\ UNCHANGED <<responseQueue, busVars, commands, polls, histVars, bus>>

-----------------------------------------------------------------------------
(* The listener. *)

\* _enqueue_response: a full queue loses its oldest message.
Enqueue(m) ==
    responseQueue' = IF Len(responseQueue) < QueueMax
                     THEN Append(responseQueue, m)
                     ELSE Append(Tail(responseQueue), m)

\* An acknowledgement.  That of a read is queued whoever waits.
HearAck(m) ==
    /\ awaitedAckSeen' = (awaitedAckSeen \/ awaiting)
    /\ IF awaiting \/ m.to = "read" THEN Enqueue(m) ELSE UNCHANGED responseQueue
    /\ UNCHANGED <<awaiting, awaitedQuery, lastQueryGroup, filed>>

HearEcho(m) ==
    /\ lastQueryGroup' = m.group
    /\ UNCHANGED <<awaiting, awaitedQuery, awaitedAckSeen, filed, responseQueue>>

\* Mutant: the group is that of the last query seen, acknowledged or not.
IsAwaitedAnswerNever == FALSE

\* _attribute_state_answer: the first state after our acknowledgement is ours.
IsAwaitedAnswer == awaiting /\ awaitedAckSeen /\ awaitedQuery # Nothing

\* _has_feedback_module: set where there is one to poll the modules.
HasFeedbackModule == bus.polls > 0

\* A state answer goes to the host under a group, and to whoever waits.
HearState(m) ==
    /\ \/ /\ ~HasFeedbackModule
          /\ UNCHANGED <<filed, awaitedQuery, lastQueryGroup>>
       \/ /\ HasFeedbackModule /\ IsAwaitedAnswer
          /\ filed' = [group |-> awaitedQuery, frame |-> m]
          /\ awaitedQuery' = Nothing
          /\ lastQueryGroup' = awaitedQuery
       \/ /\ HasFeedbackModule /\ ~IsAwaitedAnswer
          /\ filed' = [group |-> IF lastQueryGroup = Nothing THEN 1 ELSE lastQueryGroup,
                       frame |-> m]
          /\ UNCHANGED <<awaitedQuery, lastQueryGroup>>
    /\ IF awaiting THEN Enqueue(m) ELSE UNCHANGED responseQueue
    /\ UNCHANGED <<awaiting, awaitedAckSeen>>

HearDone(m) ==
    /\ IF awaiting THEN Enqueue(m) ELSE UNCHANGED responseQueue
    /\ UNCHANGED listenVars

\* _dispatch_message: the oldest frame on the line.
Dispatch ==
    /\ line # <<>>
    /\ line' = Tail(line)
    /\ LET m == Head(line) IN
        \/ m.kind = "ack" /\ HearAck(m)
        \/ m.kind = "echo" /\ HearEcho(m)
        \/ m.kind = "state" /\ HearState(m)
        \/ m.kind = "done" /\ HearDone(m)
    /\ UNCHANGED <<workerVars, outbox, owed, commands, polls, histVars, bus>>

-----------------------------------------------------------------------------
(* The gateway, the module and the Feedback Module. *)

AckOf(c) == [kind |-> "ack", to |-> c.kind, group |-> c.group, own |-> TRUE]
AnswerTo(c) == [kind |-> IF c.kind = "read" THEN "state" ELSE "done",
                to |-> c.kind, group |-> c.group, own |-> c.own]

\* The gateway puts our command on the bus, or it is lost before that.
GatewayForwards ==
    /\ outbox # <<>>
    /\ bus.waits => owed = <<>>
    /\ LET c == Head(outbox)
           acked == IF c.ack = "first" THEN Append(line, AckOf(c)) ELSE line
       IN \/ owed' = Append(owed, c) /\ line' = acked /\ UNCHANGED lost
          \/ bus.lossy /\ UNCHANGED owed /\ line' \in {line, acked} /\ lost' = TRUE
    /\ outbox' = Tail(outbox)
    /\ UNCHANGED <<workerVars, listenVars, responseQueue, commands, polls, took, bus>>

\* The module answers the oldest query on the bus; the answer may be lost.
ModuleAnswers ==
    /\ owed # <<>>
    /\ LET c == Head(owed)
           late == IF c.own /\ c.ack = "last" THEN <<AckOf(c)>> ELSE <<>>
       IN /\ \/ line' = line \o <<AnswerTo(c)>> \o late /\ UNCHANGED lost
             \/ bus.lossy /\ line' = line \o late /\ lost' = TRUE
          /\ took' = (took \/ (c.own /\ c.kind = phase /\ c.group = ask))
    /\ owed' = Tail(owed)
    /\ UNCHANGED <<workerVars, listenVars, responseQueue, outbox, commands, polls, bus>>

\* The Feedback Module asks for a group; a PC-Link relays its query.
FeedbackAsks(g) ==
    /\ polls < bus.polls /\ polls' = polls + 1
    /\ \E o \in bus.orders :
        owed' = Append(owed, [kind |-> "read", group |-> g, own |-> FALSE, ack |-> o])
    /\ line' = Append(line, [kind |-> "echo", to |-> "read", group |-> g, own |-> FALSE])
    /\ UNCHANGED <<workerVars, listenVars, responseQueue, outbox, commands, histVars, bus>>

Next ==
    \/ \E g \in Group :
        \/ \E kind \in {"read", "write"} : Start(kind, g)
        \/ FeedbackAsks(g)
    \/ Take \/ TimeoutHeld \/ TimeoutRetry \/ TimeoutFail
    \/ Dispatch \/ GatewayForwards \/ ModuleAnswers

Spec == Init /\ [][Next]_vars

\* The tasks run, the timers fire, the gateway and the module work through what
\* they were given (losing it counts); the Feedback Module need not ask.
Fairness ==
    /\ WF_vars(Take) /\ WF_vars(TimeoutHeld) /\ WF_vars(TimeoutRetry) /\ WF_vars(TimeoutFail)
    /\ WF_vars(Dispatch) /\ WF_vars(GatewayForwards) /\ WF_vars(ModuleAnswers)

FairSpec == Spec /\ Fairness

-----------------------------------------------------------------------------
(* Properties. *)

\* _send_command_get_answer implements Exchange: a command ends by an answer of
\* the group it was asked of, or by an error.
Abstract == INSTANCE Exchange WITH
    asked <- IF phase = "idle" THEN Nothing ELSE ask,
    outcome <- IF result \in {Nothing, Failed} THEN result ELSE result.group
ImplementsExchange == Abstract!Spec

\* _attribute_state_answer: a Feedback Module query for the other group "must
\* not file it under that group": our own answer is filed under its group.
OwnAnswerFiled == (filed # Nothing /\ filed.frame.own) => filed.group = filed.frame.group

\* _wait_for_ack_and_answer_state: a gateway that orders acknowledgement and
\* answer "differently still works": where no Feedback Module asks, an exchange is
\* retried or fails only if a frame got lost.
RetryMeansLoss == bus.polls = 0 /\ (result = Failed \/ attempt > 1) => lost

\* set_output_state: the future resolves "once the frame has been acknowledged":
\* an exchange of a write that ends without error is one the module took.
AckedWriteTaken == (result \notin {Nothing, Failed} /\ result.to = "write") => took
=============================================================================
