------------------------------ MODULE FeedbackKey ------------------------------
(***************************************************************************)
(* Outputs operated by pressing their feedback key                         *)
(* (nikobus_connect/api.py): one output and the toggle key whose LED a     *)
(* Feedback Module keeps.  The Feedback Module turns the LED over on every *)
(* telegram of the key it sees; a set-output never reaches it.             *)
(*                                                                         *)
(* A call reads the output, presses the key if that is needed, reads again *)
(* and sets the output itself if the press did not do.  Reads, presses and *)
(* sets go through the command queue, in order.                            *)
(***************************************************************************)
EXTENDS Integers, Sequences, FiniteSets

CONSTANTS
    Dimmable, \* the output is a dimmer's
    KeyCalls, \* the calls made
    MaxWall,  \* bound: presses of the key on the wall
    MaxMiss   \* bound: telegrams and answers lost, waits given up

ASSUME KeyAssumption ==
    /\ Dimmable \subseteq BOOLEAN /\ IsFiniteSet(KeyCalls)
    /\ {MaxWall, MaxMiss} \subseteq Nat

Off == 0
On == 1
Unread == 2
KeyOps == {"on", "off", "toggle"}

VARIABLES
    dimmer,  \* which kind the output is (never changes)
    out,     \* the output (external)
    led,     \* the key's LED (external)
    queued,  \* the command queue: [call, what]
    onBus,   \* the command the worker is on, if any
    step,    \* where each call is
    want,    \* what it wants; Unread: a toggle that does not know yet
    asked,   \* history: what the last call wanted
    wall, miss,
    excused, \* history: the LED may be off: a miss, a wall press or another call
             \* in the middle of one
    unset    \* history: a set-output was lost, or somebody else operated

keyVars == <<dimmer, out, led, queued, onBus, step, want, asked, wall, miss, excused,
             unset>>

AtRest == queued = <<>> /\ onBus = <<>> /\ \A c \in KeyCalls : step[c] \in {"new", "done"}

Queue(c, what) == Append(queued, [call |-> c, what |-> what])
SetTo(v) == IF v = On THEN "set on" ELSE "set off"

\* turn_on_switch, turn_off_switch, toggle_switch, turn_on_light, turn_off_light:
\* all begin with a read.
BeginCall(c, op) ==
    /\ step[c] = "new"
    /\ dimmer => op # "toggle"
    /\ step' = [step EXCEPT ![c] = "reading"]
    /\ want' = [want EXCEPT ![c] = CASE op = "on" -> On [] op = "off" -> Off
                                     [] OTHER -> Unread]
    /\ queued' = Queue(c, "read")
    /\ excused' = (excused \/ ~AtRest)
    /\ unset' = ~AtRest
    /\ UNCHANGED <<dimmer, out, led, onBus, asked, wall, miss>>

\* Mutant: the key is pressed whatever the output was.
PressNeededAlways(wanted, current) == TRUE
\* A press that was not needed inverts the LED.
PressNeeded(wanted, current) == wanted # current

\* What _switch_by_key does with the state it read.
SwitchByKey(c, wanted, current) ==
    /\ want' = [want EXCEPT ![c] = wanted] /\ asked' = wanted
    /\ IF PressNeeded(wanted, current)
       THEN queued' = Queue(c, "press") /\ step' = [step EXCEPT ![c] = "pressing"]
       ELSE step' = [step EXCEPT ![c] = "done"] /\ UNCHANGED queued

\* turn_on_light and turn_off_light: press when the state changes, and set the
\* brightness in any case.
DimByKey(c, wanted, current) ==
    /\ queued' = (IF PressNeeded(wanted, current) THEN Queue(c, "press") ELSE queued)
                 \o <<[call |-> c, what |-> SetTo(wanted)]>>
    /\ step' = [step EXCEPT ![c] = "done"]
    /\ asked' = wanted /\ UNCHANGED want

\* The state read before; a dimmer without one goes by the host's idea of it.
WithState(c, current) ==
    IF dimmer
    THEN DimByKey(c, want[c], current)
    ELSE SwitchByKey(c, IF want[c] = Unread THEN 1 - current ELSE want[c], current)

\* No answer: a toggle presses blind, a switch is set directly, a dimmer goes by
\* what the host last knew.
WithoutState(c) ==
    IF dimmer
    THEN \E known \in {On, Off} : DimByKey(c, want[c], known)
    ELSE /\ queued' = Queue(c, IF want[c] = Unread THEN "press" ELSE SetTo(want[c]))
         /\ step' = [step EXCEPT ![c] = "done"]
         /\ asked' = want[c] /\ UNCHANGED want

\* Mutant: an output that did not follow is left as it is.
FollowUpNever(c, after) == UNCHANGED queued
\* An output that did not move is set directly.
FollowUp(c, after) ==
    IF after = want[c] THEN UNCHANGED queued ELSE queued' = Queue(c, SetTo(want[c]))

\* The answer to a read; a call that gave up does not wait for it.
Answered(c, value) ==
    \/ step[c] = "reading" /\ value # Unread /\ WithState(c, value)
    \/ step[c] = "reading" /\ value = Unread /\ WithoutState(c)
    \/ /\ step[c] = "rereading"
       /\ FollowUp(c, value)
       /\ step' = [step EXCEPT ![c] = "done"]
       /\ UNCHANGED <<want, asked>>

Missed == miss < MaxMiss /\ miss' = miss + 1 /\ excused' = TRUE
Kept   == UNCHANGED <<miss, excused>>

\* The worker takes the next command.
Take ==
    /\ onBus = <<>> /\ queued # <<>>
    /\ onBus' = <<Head(queued)>> /\ queued' = Tail(queued)
    /\ UNCHANGED <<dimmer, out, led, step, want, asked, wall, miss, excused, unset>>

\* A read is answered, or not; a call that gave up does not hear of it.
ReadServed ==
    /\ onBus # <<>> /\ onBus[1].what = "read"
    /\ onBus' = <<>>
    /\ IF step[onBus[1].call] \in {"reading", "rereading"}
       THEN \/ Answered(onBus[1].call, out) /\ Kept
            \/ Answered(onBus[1].call, Unread) /\ Missed
       ELSE UNCHANGED <<queued, step, want, asked, miss, excused>>
    /\ UNCHANGED <<dimmer, out, led, wall, unset>>

\* A caller gives up on its read: the worker is held by another command.
ReadGivenUp(c) ==
    /\ step[c] \in {"reading", "rereading"}
    /\ \E i \in DOMAIN queued : queued[i].call = c
    /\ Answered(c, Unread) /\ Missed
    /\ UNCHANGED <<dimmer, out, led, onBus, wall, unset>>

\* The key's telegram: the module and the Feedback Module each take it, or miss
\* it.  on_wire is set.
PressServed ==
    /\ onBus # <<>> /\ onBus[1].what = "press"
    /\ onBus' = <<>>
    /\ \/ out' = 1 - out /\ led' = 1 - led /\ Kept
       \/ out' = out /\ led' = 1 - led /\ Missed
       \/ out' = 1 - out /\ led' = led /\ Missed
       \/ out' = out /\ led' = led /\ Missed
    /\ LET c == onBus[1].call IN
       step' = IF step[c] = "pressing" THEN [step EXCEPT ![c] = "settling"] ELSE step
    /\ UNCHANGED <<dimmer, queued, want, asked, wall, unset>>

\* The press was not sent in time: the call goes on without.
PressGivenUp(c) ==
    /\ step[c] = "pressing" /\ Missed
    /\ step' = [step EXCEPT ![c] = "settling"]
    /\ UNCHANGED <<dimmer, out, led, queued, onBus, want, asked, wall, unset>>

\* The settling pause is over: read again.
ReadAgain(c) ==
    /\ step[c] = "settling"
    /\ step' = [step EXCEPT ![c] = "rereading"]
    /\ queued' = Queue(c, "read")
    /\ UNCHANGED <<dimmer, out, led, onBus, want, asked, wall, miss, excused, unset>>

\* A set-output is taken, or fails after its last attempt.
SetServed ==
    /\ onBus # <<>> /\ onBus[1].what \in {"set on", "set off"}
    /\ onBus' = <<>>
    /\ \/ out' = (IF onBus[1].what = "set on" THEN On ELSE Off) /\ Kept /\ UNCHANGED unset
       \/ Missed /\ unset' = TRUE /\ UNCHANGED out
    /\ UNCHANGED <<dimmer, led, queued, step, want, asked, wall>>

\* Somebody presses the key itself.
WallPress ==
    /\ wall < MaxWall /\ wall' = wall + 1
    /\ out' = 1 - out /\ led' = 1 - led
    /\ excused' = (excused \/ ~AtRest) /\ unset' = TRUE
    /\ UNCHANGED <<dimmer, queued, onBus, step, want, asked, miss>>

KeyInit ==
    /\ dimmer \in Dimmable
    /\ out = Off /\ led = Off
    /\ queued = <<>> /\ onBus = <<>>
    /\ step = [c \in KeyCalls |-> "new"] /\ want = [c \in KeyCalls |-> Unread]
    /\ asked = Unread
    /\ wall = 0 /\ miss = 0 /\ excused = FALSE /\ unset = FALSE

KeyNext ==
    \/ \E c \in KeyCalls :
        \/ \E op \in KeyOps : BeginCall(c, op)
        \/ ReadGivenUp(c) \/ PressGivenUp(c) \/ ReadAgain(c)
    \/ Take \/ ReadServed \/ PressServed \/ SetServed \/ WallPress

KeySpec == KeyInit /\ [][KeyNext]_keyVars
-----------------------------------------------------------------------------
KeyTypeOK ==
    /\ {dimmer, excused, unset} \subseteq BOOLEAN
    /\ {out, led} \subseteq {On, Off}
    /\ Len(onBus) <= 1
    /\ step \in [KeyCalls -> {"new", "reading", "pressing", "settling",
                              "rereading", "done"}]

\* The LED shows the output once all is done, whichever way the output was
\* switched, as long as every telegram and answer arrived in time and nobody
\* interfered with a call: "a press that was not needed therefore inverts the
\* LED" (_switch_by_key).
LedFollows == AtRest /\ ~excused => led = out

\* Whatever was lost or late on the way, the output ends up as asked: it is read
\* after the press and set directly if need be, behind a press that is still
\* queued.
EndsAsAsked == AtRest /\ ~unset /\ asked # Unread => out = asked
=============================================================================
