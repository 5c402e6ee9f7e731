--------------------------- MODULE BusExchangeProofs ---------------------------
(***************************************************************************)
(* What BusExchange promises of an exchange on the bus, for every value of *)
(* its constants: a write that ends without error was taken by the module, *)
(* nothing but a lost frame makes the worker ask again, our own answer     *)
(* reaches the host under its group, and a command ends as Exchange says.  *)
(***************************************************************************)
EXTENDS BusExchange, Integers, TLAPS

-----------------------------------------------------------------------------
(* The invariant. *)

\* Types.
BusTypeOK ==
    /\ bus \in Buses
    /\ phase \in {"idle", "read", "write"} /\ ask \in Group \cup {Nothing}
    /\ phase # "idle" => ask \in Group
    /\ attempt \in Nat
    /\ held \in Frame \cup {Nothing} /\ result \in Frame \cup {Nothing, Failed}
    /\ awaitedQuery \in Group \cup {Nothing} /\ lastQueryGroup \in Group \cup {Nothing}
    /\ filed = Nothing \/ filed \in [group : Group, frame : Frame]
    /\ responseQueue \in Seq(Frame) /\ line \in Seq(Frame)
    /\ outbox \in Seq(Command) /\ owed \in Seq(Command)
    /\ commands \in Nat /\ polls \in Nat

FlagsOK ==
    /\ ackReceived \in BOOLEAN /\ awaiting \in BOOLEAN
    /\ awaitedAckSeen \in BOOLEAN /\ took \in BOOLEAN /\ lost \in BOOLEAN

\* The frame answers a command for good: it is the answer to a write, or on a
\* bus without a Feedback Module to a query of ours.
Counts(m) == m.kind = "done" \/ (m.kind = "state" /\ bus.polls = 0)

\* The command will get such an answer.
Due(c) == c.kind = "write" \/ bus.polls = 0

\* Between exchanges nothing is awaited and nothing is to be written.
IdleInv ==
    /\ awaiting = (phase # "idle")
    /\ (phase = "idle") = (attempt = 0)
    /\ phase = "idle" => outbox = <<>> /\ ~ackReceived /\ held = Nothing

\* The commands on their way and what the module owes: a command not yet on the
\* bus, a write and one whose acknowledgement is still to come are of the
\* exchange going on; the Feedback Module only reads.
CommandInv ==
    /\ Len(outbox) <= 1
    /\ \A i \in DOMAIN outbox :
          outbox[i].kind = phase /\ outbox[i].group = ask /\ outbox[i].own
          /\ outbox[i].ack \in bus.orders
    /\ \A i \in DOMAIN owed :
          /\ owed[i].own /\ (Due(owed[i]) \/ owed[i].ack = "last") =>
                owed[i].kind = phase /\ owed[i].group = ask
          /\ owed[i].own => owed[i].ack \in bus.orders
          /\ ~owed[i].own => owed[i].kind = "read" /\ bus.polls # 0

\* So are acknowledgements and answers that count; after such an answer the
\* module has taken the command.
FrameInv(s) ==
    \A i \in DOMAIN s :
        /\ s[i].kind = "ack" => s[i].to = phase /\ s[i].group = ask
        /\ s[i].kind = "state" => s[i].to = "read"
        /\ s[i].kind = "done" => s[i].to = "write"
        /\ s[i].kind = "echo" => bus.polls # 0
        /\ Counts(s[i]) => s[i].to = phase /\ s[i].group = ask /\ took

HeldInv ==
    /\ held # Nothing => held.kind = IF phase = "read" THEN "state" ELSE "done"
    /\ held # Nothing /\ Counts(held) => held.to = phase /\ held.group = ask /\ took
    /\ held # Nothing => held.to = phase

FlowInv == IdleInv /\ CommandInv /\ FrameInv(line) /\ FrameInv(responseQueue) /\ HeldInv

\* An exchange's acknowledgement is in one place at most.
AckInv ==
    /\ outbox # <<>> =>
          /\ ~ackReceived
          /\ \A i \in DOMAIN owed : owed[i].own => owed[i].ack # "last"
          /\ \A i \in DOMAIN line : line[i].kind # "ack"
          /\ \A i \in DOMAIN responseQueue : responseQueue[i].kind # "ack"
    /\ \A i \in DOMAIN owed : owed[i].own /\ owed[i].ack = "last" =>
          /\ ~ackReceived
          /\ \A j \in DOMAIN owed : owed[j].own /\ owed[j].ack = "last" => j = i
          /\ \A j \in DOMAIN line : line[j].kind # "ack"
          /\ \A j \in DOMAIN responseQueue : responseQueue[j].kind # "ack"
    /\ \A i \in DOMAIN line : line[i].kind = "ack" =>
          /\ ~ackReceived
          /\ \A j \in DOMAIN line : line[j].kind = "ack" => j = i
          /\ \A j \in DOMAIN responseQueue : responseQueue[j].kind # "ack"
    /\ \A i \in DOMAIN responseQueue : responseQueue[i].kind = "ack" =>
          /\ ~ackReceived
          /\ \A j \in DOMAIN responseQueue : responseQueue[j].kind = "ack" => j = i

\* And so is an answer that counts.
HeldCounts == held # Nothing /\ Counts(held)

AnswerInv ==
    /\ outbox # <<>> =>
          /\ ~HeldCounts
          /\ \A i \in DOMAIN owed : owed[i].own => ~Due(owed[i])
          /\ \A i \in DOMAIN line : ~Counts(line[i])
          /\ \A i \in DOMAIN responseQueue : ~Counts(responseQueue[i])
    /\ \A i \in DOMAIN owed : owed[i].own /\ Due(owed[i]) =>
          /\ ~HeldCounts
          /\ \A j \in DOMAIN owed : owed[j].own /\ Due(owed[j]) => j = i
          /\ \A j \in DOMAIN line : ~Counts(line[j])
          /\ \A j \in DOMAIN responseQueue : ~Counts(responseQueue[j])
    /\ \A i \in DOMAIN line : Counts(line[i]) =>
          /\ ~HeldCounts
          /\ \A j \in DOMAIN line : Counts(line[j]) => j = i
          /\ \A j \in DOMAIN responseQueue : ~Counts(responseQueue[j])
    /\ \A i \in DOMAIN responseQueue : Counts(responseQueue[i]) =>
          /\ ~HeldCounts
          /\ \A j \in DOMAIN responseQueue : Counts(responseQueue[j]) => j = i

\* Without a Feedback Module an exchange is owed two frames, its acknowledgement
\* and its answer: how many of them are on their way or received.
One(b) == IF b THEN 1 ELSE 0
Owing == IF owed = <<>> THEN 0 ELSE IF owed[1].ack = "last" THEN 2 ELSE 1
Load == 2 * Len(outbox) + Owing + Len(line) + Len(responseQueue)
          + One(ackReceived) + One(held # Nothing)

\* There are never more, and all of them while none is lost.
KeptInv ==
    bus.polls = 0 =>
        /\ phase = "read" => lastQueryGroup = ask
        /\ Len(owed) <= 1
        /\ Load <= 2
        /\ (phase # "idle" /\ ~lost) => Load = 2 /\ attempt = 1
        /\ result = Failed => lost
        /\ ~(phase = "write" /\ ackReceived /\ held # Nothing)

-----------------------------------------------------------------------------
(* The sequences. *)

\* What taking the first of a sequence leaves.
LEMMA TailFacts ==
    ASSUME NEW S, NEW s \in Seq(S), s # <<>>
    PROVE  /\ Tail(s) \in Seq(S) /\ Head(s) \in S /\ Head(s) = s[1]
           /\ Len(s) \in Nat \ {0} /\ Len(Tail(s)) = Len(s) - 1
           /\ DOMAIN s = 1 .. Len(s) /\ DOMAIN Tail(s) = 1 .. Len(s) - 1
           /\ \A i \in DOMAIN Tail(s) : i + 1 \in DOMAIN s /\ Tail(s)[i] = s[i + 1]
OBVIOUS

\* What appending to a sequence adds.
LEMMA AppendFacts ==
    ASSUME NEW S, NEW s \in Seq(S), NEW m \in S
    PROVE  /\ Append(s, m) \in Seq(S)
           /\ Len(s) \in Nat /\ Len(Append(s, m)) = Len(s) + 1
           /\ DOMAIN s = 1 .. Len(s) /\ DOMAIN Append(s, m) = 1 .. Len(s) + 1
           /\ Append(s, m)[Len(s) + 1] = m
           /\ \A i \in DOMAIN s : Append(s, m)[i] = s[i]
OBVIOUS

\* The empty sequence.
LEMMA EmptyFacts ==
    ASSUME NEW S
    PROVE  <<>> \in Seq(S) /\ Len(<<>>) = 0 /\ DOMAIN <<>> = {}
OBVIOUS

\* Only an empty sequence has no places.
LEMMA SeqFacts ==
    ASSUME NEW S, NEW s \in Seq(S)
    PROVE  /\ Len(s) \in Nat /\ DOMAIN s = 1 .. Len(s)
           /\ \A i \in DOMAIN s : s[i] \in S
           /\ s = <<>> <=> Len(s) = 0
           /\ s = <<>> <=> DOMAIN s = {}
           /\ s # <<>> => 1 \in DOMAIN s
OBVIOUS

\* The response queue after a message: it is last, and of those before it at
\* most the oldest is gone.
LEMMA EnqueueFacts ==
    ASSUME responseQueue \in Seq(Frame), NEW m \in Frame, Enqueue(m)
    PROVE  /\ responseQueue' \in Seq(Frame)
           /\ \E d \in {0, 1} :
                /\ Len(responseQueue') = Len(responseQueue) + 1 - d
                /\ d = 1 => Len(responseQueue) >= QueueMax
                /\ responseQueue'[Len(responseQueue')] = m
                /\ \A i \in DOMAIN responseQueue' : i # Len(responseQueue') =>
                      i + d \in DOMAIN responseQueue /\ responseQueue'[i] = responseQueue[i + d]
<1>1. CASE Len(responseQueue) < QueueMax
  <2>1. responseQueue' = Append(responseQueue, m)
    BY <1>1 DEF Enqueue
  <2> DEFINE d == 0
  <2>2. /\ Len(responseQueue') = Len(responseQueue) + 1 - d
        /\ d = 1 => Len(responseQueue) >= QueueMax
        /\ responseQueue'[Len(responseQueue')] = m
        /\ \A i \in DOMAIN responseQueue' : i # Len(responseQueue') =>
              i + d \in DOMAIN responseQueue /\ responseQueue'[i] = responseQueue[i + d]
    BY <2>1, AppendFacts
  <2> QED
    BY <2>1, <2>2, AppendFacts
<1>2. CASE ~(Len(responseQueue) < QueueMax)
  <2>1. /\ responseQueue # <<>>
        /\ responseQueue' = Append(Tail(responseQueue), m)
    BY <1>2, BusAssumption DEF Enqueue
  <2> DEFINE t == Tail(responseQueue)
  <2>2. /\ t \in Seq(Frame) /\ Len(responseQueue) \in Nat \ {0} /\ Len(t) = Len(responseQueue) - 1
        /\ \A i \in DOMAIN t : i + 1 \in DOMAIN responseQueue /\ t[i] = responseQueue[i + 1]
    BY <2>1, TailFacts
  <2>3. /\ responseQueue' \in Seq(Frame) /\ Len(responseQueue') = Len(t) + 1
        /\ DOMAIN t = 1 .. Len(t) /\ DOMAIN responseQueue' = 1 .. Len(t) + 1
        /\ responseQueue'[Len(t) + 1] = m
        /\ \A i \in DOMAIN t : responseQueue'[i] = t[i]
    BY <2>1, <2>2, AppendFacts
  <2> DEFINE d == 1
  <2>4. /\ Len(responseQueue') = Len(responseQueue) + 1 - d
        /\ d = 1 => Len(responseQueue) >= QueueMax
        /\ responseQueue'[Len(responseQueue')] = m
    BY <1>2, <2>2, <2>3, BusAssumption
  <2>5. ASSUME NEW i \in DOMAIN responseQueue', i # Len(responseQueue')
        PROVE  i + d \in DOMAIN responseQueue /\ responseQueue'[i] = responseQueue[i + d]
    <3>1. i \in DOMAIN t
      BY <2>2, <2>3, <2>5
    <3> QED
      BY <3>1, <2>2, <2>3
  <2> QED
    BY <2>3, <2>4, <2>5
<1> QED
  BY <1>1, <1>2

\* What the gateway and the module send are frames and the commands they are
\* sent for commands.
LEMMA SentFrames ==
    /\ \A c \in Command : /\ AckOf(c) \in Frame /\ AnswerTo(c) \in Frame
                          /\ AckOf(c).kind = "ack" /\ AckOf(c).to = c.kind
                          /\ AckOf(c).group = c.group /\ AckOf(c).own
                          /\ AnswerTo(c).kind = IF c.kind = "read" THEN "state" ELSE "done"
                          /\ AnswerTo(c).to = c.kind
                          /\ AnswerTo(c).group = c.group /\ AnswerTo(c).own = c.own
    /\ \A g \in Group :
          [kind |-> "echo", to |-> "read", group |-> g, own |-> FALSE] \in Frame
BY DEF Command, AckOf, AnswerTo, Frame

-----------------------------------------------------------------------------
(* The steps. *)

\* What the worker does with a message: it ends the exchange, keeps the message
\* or lets it go.
LEMMA TakeCases ==
    ASSUME responseQueue \in Seq(Frame), Take
    PROVE  /\ responseQueue # <<>> /\ phase # "idle"
           /\ responseQueue' = Tail(responseQueue)
           /\ UNCHANGED <<bus, busVars, commands, polls, histVars>>
           /\ \E m \in Frame :
                /\ m = responseQueue[1]
                /\ \/ /\ Finish(m) /\ ackReceived
                      /\ \/ phase = "read" /\ m.kind = "state"
                         \/ phase = "write" /\ m.kind = "done"
                   \/ /\ Finish(held) /\ held # Nothing /\ phase = "write"
                      /\ m.kind = "ack"
                   \/ /\ ackReceived' = TRUE /\ m.kind = "ack"
                      /\ phase = "write" => held = Nothing
                      /\ UNCHANGED <<phase, ask, attempt, held, result, listenVars>>
                   \/ /\ held' = m /\ ~ackReceived
                      /\ \/ phase = "read" /\ m.kind = "state" /\ ~PushedForOtherGroup
                         \/ phase = "write" /\ m.kind = "done"
                      /\ UNCHANGED <<phase, ask, attempt, ackReceived, result, listenVars>>
                   \/ /\ phase = "read" /\ m.kind = "state" /\ ~ackReceived
                      /\ PushedForOtherGroup
                      /\ UNCHANGED <<workerVars, listenVars>>
                   \/ /\ ~(m.kind = "ack" /\ m.to = phase /\ m.group = ask)
                      /\ phase = "read" => m.kind # "state"
                      /\ phase = "write" => m.kind # "done"
                      /\ UNCHANGED <<workerVars, listenVars>>
<1>1. /\ responseQueue # <<>> /\ phase # "idle"
      /\ responseQueue' = Tail(responseQueue)
      /\ UNCHANGED <<bus, busVars, commands, polls, histVars>>
  BY DEF Take
<1> DEFINE m == Head(responseQueue)
<1>2. m \in Frame /\ m = responseQueue[1]
  BY <1>1, TailFacts
<1>3. \/ m.kind = "ack" /\ m.to = phase /\ m.group = ask /\ TakeAck(m)
      \/ m.kind = "state" /\ phase = "read" /\ TakeState(m)
      \/ m.kind = "done" /\ phase = "write" /\ TakeDone(m)
      \/ /\ ~(m.kind = "ack" /\ m.to = phase /\ m.group = ask)
         /\ phase = "read" => m.kind # "state"
         /\ phase = "write" => m.kind # "done"
         /\ UNCHANGED <<workerVars, listenVars>>
  BY DEF Take
<1> HIDE DEF m
<1>4. CASE m.kind = "ack" /\ TakeAck(m)
  BY <1>1, <1>2, <1>4 DEF TakeAck
<1>5. CASE m.kind = "state" /\ phase = "read" /\ TakeState(m)
  <2>1. CASE ackReceived
    BY <1>1, <1>2, <1>5, <2>1 DEF TakeState
  <2>2. CASE ~ackReceived /\ PushedForOtherGroup
    BY <1>1, <1>2, <1>5, <2>2 DEF TakeState, workerVars
  <2>3. CASE ~ackReceived /\ ~PushedForOtherGroup
    BY <1>1, <1>2, <1>5, <2>3 DEF TakeState
  <2> QED
    BY <2>1, <2>2, <2>3
<1>6. CASE m.kind = "done" /\ phase = "write" /\ TakeDone(m)
  BY <1>1, <1>2, <1>6 DEF TakeDone
<1> QED
  BY <1>1, <1>2, <1>3, <1>4, <1>5, <1>6

\* The gateway takes the oldest command: it is on the bus, acknowledged at once
\* if the gateway acknowledges first, or it is lost.
LEMMA ForwardCases ==
    ASSUME outbox \in Seq(Command), GatewayForwards
    PROVE  /\ outbox # <<>> /\ outbox' = Tail(outbox)
           /\ bus.waits => owed = <<>>
           /\ UNCHANGED <<bus, workerVars, listenVars, responseQueue, commands, polls, took>>
           /\ \E c \in Command :
                /\ c = outbox[1]
                /\ \/ owed' = Append(owed, c) /\ lost' = lost
                   \/ owed' = owed /\ lost' = TRUE /\ bus.lossy
                /\ \/ line' = Append(line, AckOf(c)) /\ c.ack = "first"
                   \/ line' = line /\ (c.ack # "first" \/ owed' = owed)
<1> DEFINE c == Head(outbox)
<1>1. c \in Command /\ c = outbox[1]
  BY TailFacts DEF GatewayForwards
<1> QED
  BY <1>1 DEF GatewayForwards

\* The module works off the oldest query or write: the answer and, if the
\* gateway acknowledges last, the acknowledgement go on the line.
LEMMA AnswerCases ==
    ASSUME owed \in Seq(Command), line \in Seq(Frame), ModuleAnswers
    PROVE  /\ owed # <<>> /\ owed' = Tail(owed)
           /\ UNCHANGED <<bus, workerVars, listenVars, responseQueue, outbox, commands, polls>>
           /\ \E c \in Command, t \in Seq(Frame) :
                /\ c = owed[1]
                /\ \/ t = Append(line, AnswerTo(c)) /\ lost' = lost
                   \/ t = line /\ lost' = TRUE /\ bus.lossy
                /\ line' = IF c.own /\ c.ack = "last" THEN Append(t, AckOf(c)) ELSE t
                /\ took' = (took \/ (c.own /\ c.kind = phase /\ c.group = ask))
<1> DEFINE c == Head(owed)
<1>1. owed # <<>> /\ owed' = Tail(owed)
      /\ UNCHANGED <<bus, workerVars, listenVars, responseQueue, outbox, commands, polls>>
  BY DEF ModuleAnswers
<1>2. c \in Command /\ c = owed[1]
  BY <1>1, TailFacts
<1>3. took' = (took \/ (c.own /\ c.kind = phase /\ c.group = ask))
  BY DEF ModuleAnswers
<1> DEFINE late == IF c.own /\ c.ack = "last" THEN <<AckOf(c)>> ELSE <<>>
<1>4. \/ line' = line \o <<AnswerTo(c)>> \o late /\ lost' = lost
      \/ line' = line \o late /\ lost' = TRUE /\ bus.lossy
  BY DEF ModuleAnswers
<1> HIDE DEF c
<1>5. AnswerTo(c) \in Frame /\ AckOf(c) \in Frame
  BY <1>2, SentFrames
<1>6. ASSUME NEW t \in Seq(Frame)
      PROVE  t \o late = IF c.own /\ c.ack = "last" THEN Append(t, AckOf(c)) ELSE t
  BY <1>5
<1>7. line \o <<AnswerTo(c)>> = Append(line, AnswerTo(c)) /\ Append(line, AnswerTo(c)) \in Seq(Frame)
  BY <1>5
<1> HIDE DEF late
<1>8. CASE line' = line \o <<AnswerTo(c)>> \o late /\ lost' = lost
  <2> DEFINE t == Append(line, AnswerTo(c))
  <2>1. t \in Seq(Frame) /\ line' = t \o late
    BY <1>7, <1>8
  <2>2. line' = IF c.own /\ c.ack = "last" THEN Append(t, AckOf(c)) ELSE t
    BY <2>1, <1>6
  <2> QED
    BY <1>1, <1>2, <1>3, <1>8, <2>1, <2>2
<1>9. CASE line' = line \o late /\ lost' = TRUE /\ bus.lossy
  BY <1>1, <1>2, <1>3, <1>6, <1>9
<1> QED
  BY <1>4, <1>8, <1>9

\* The listener hears the oldest frame of the line; only acknowledgements and
\* answers go to the worker.
LEMMA DispatchCases ==
    ASSUME line \in Seq(Frame), Dispatch
    PROVE  /\ line # <<>> /\ line' = Tail(line)
           /\ UNCHANGED <<bus, workerVars, outbox, owed, commands, polls, histVars, awaiting>>
           /\ \E m \in Frame :
                /\ m = line[1]
                /\ \/ m.kind = "ack" /\ HearAck(m)
                   \/ m.kind = "echo" /\ HearEcho(m)
                   \/ m.kind = "state" /\ HearState(m)
                   \/ m.kind = "done" /\ HearDone(m)
                /\ \/ Enqueue(m) /\ m.kind # "echo"
                   \/ responseQueue' = responseQueue
                      /\ (awaiting => m.kind = "echo")
<1> DEFINE m == Head(line)
<1>1. m \in Frame /\ m = line[1]
  BY TailFacts DEF Dispatch
<1>2. \/ m.kind = "ack" /\ HearAck(m)
      \/ m.kind = "echo" /\ HearEcho(m)
      \/ m.kind = "state" /\ HearState(m)
      \/ m.kind = "done" /\ HearDone(m)
  BY DEF Dispatch
<1>3. /\ line # <<>> /\ line' = Tail(line)
      /\ UNCHANGED <<bus, workerVars, outbox, owed, commands, polls, histVars>>
  BY DEF Dispatch
<1> HIDE DEF m
<1>4. awaiting' = awaiting
      /\ \/ Enqueue(m) /\ m.kind # "echo"
         \/ responseQueue' = responseQueue /\ (awaiting => m.kind = "echo")
  BY <1>2 DEF HearAck, HearEcho, HearState, HearDone, listenVars
<1> QED
  BY <1>1, <1>2, <1>3, <1>4

\* The initial state is typed.
LEMMA InitBus ==
    Init => BusTypeOK /\ FlagsOK
<1> SUFFICES ASSUME Init PROVE BusTypeOK /\ FlagsOK
  OBVIOUS
<1>1. /\ responseQueue \in Seq(Frame) /\ line \in Seq(Frame)
      /\ outbox \in Seq(Command) /\ owed \in Seq(Command)
  BY EmptyFacts DEF Init
<1> QED
  BY <1>1 DEF Init, BusTypeOK, FlagsOK

\* Every variable keeps its type.
LEMMA StepBusType ==
    BusTypeOK /\ [Next]_vars => BusTypeOK'
<1> SUFFICES ASSUME BusTypeOK, [Next]_vars
             PROVE  BusTypeOK'
  OBVIOUS
<1> USE DEF vars, workerVars, listenVars, busVars, histVars
<1>0. bus.orders \subseteq {"first", "last"}
  BY BusAssumption DEF BusTypeOK
<1>1. ASSUME NEW kind \in {"read", "write"}, NEW g \in Group, Start(kind, g) PROVE BusTypeOK'
  <2>1. \A o \in bus.orders : Append(outbox,
           [kind |-> kind, group |-> g, own |-> TRUE, ack |-> o]) \in Seq(Command)
    BY <1>0, AppendFacts DEF BusTypeOK, Command
  <2>2. outbox' \in Seq(Command) /\ responseQueue' \in Seq(Frame)
    BY <1>1, <2>1, EmptyFacts DEF Start, Attempt
  <2> QED
    BY <1>1, <2>2 DEF Start, Attempt, Announce, BusTypeOK
<1>2. ASSUME NEW g \in Group, FeedbackAsks(g) PROVE BusTypeOK'
  <2>1. owed' \in Seq(Command)
    BY <1>0, <1>2, AppendFacts DEF FeedbackAsks, BusTypeOK, Command
  <2>2. line' \in Seq(Frame)
    BY <1>2, AppendFacts, SentFrames DEF FeedbackAsks, BusTypeOK
  <2> QED
    BY <1>2, <2>1, <2>2 DEF FeedbackAsks, BusTypeOK
<1>3. CASE Take
  <2>1. responseQueue' \in Seq(Frame)
    BY <1>3, TailFacts DEF Take, BusTypeOK
  <2>2. UNCHANGED <<bus, busVars, commands, polls, histVars>>
    BY <1>3 DEF Take
  <2>3. UNCHANGED <<workerVars, listenVars>> => BusTypeOK'
    BY <2>1, <2>2 DEF BusTypeOK
  <2>4. ASSUME NEW m \in Frame \cup {Nothing}, Finish(m) PROVE BusTypeOK'
    BY <2>1, <2>2, <2>4 DEF Finish, BusTypeOK
  <2>5. UNCHANGED <<phase, ask, attempt, held, result, listenVars>> => BusTypeOK'
    BY <2>1, <2>2 DEF BusTypeOK
  <2>6. ASSUME NEW m \in Frame, held' = m,
               UNCHANGED <<phase, ask, attempt, ackReceived, result, listenVars>>
        PROVE  BusTypeOK'
    BY <2>1, <2>2, <2>6 DEF BusTypeOK
  <2>7. held \in Frame \cup {Nothing} /\ responseQueue \in Seq(Frame)
    BY DEF BusTypeOK
  <2> QED
    BY <1>3, <2>3, <2>4, <2>5, <2>6, <2>7, TakeCases
<1>4. CASE TimeoutHeld
  BY <1>4 DEF TimeoutHeld, Finish, UsableHeld, BusTypeOK
<1>5. CASE TimeoutRetry
  <2>1. phase \in {"read", "write"} /\ ask \in Group
    BY <1>5 DEF TimeoutRetry, BusTypeOK
  <2>2. \A o \in bus.orders : Append(outbox,
           [kind |-> phase, group |-> ask, own |-> TRUE, ack |-> o]) \in Seq(Command)
    BY <1>0, <2>1, AppendFacts DEF BusTypeOK, Command
  <2>3. outbox' \in Seq(Command) /\ responseQueue' \in Seq(Frame)
    BY <1>5, <2>2, EmptyFacts DEF TimeoutRetry, Attempt
  <2> QED
    BY <1>5, <2>1, <2>3 DEF TimeoutRetry, Attempt, Announce, BusTypeOK
<1>6. CASE TimeoutFail
  BY <1>6 DEF TimeoutFail, Finish, BusTypeOK
<1>7. CASE Dispatch
  <2>1. line' \in Seq(Frame) /\ Head(line) \in Frame
    BY <1>7, TailFacts DEF Dispatch, BusTypeOK
  <2>2. PICK m \in Frame : HearAck(m) \/ HearEcho(m) \/ HearState(m) \/ HearDone(m)
    BY <1>7, <2>1 DEF Dispatch
  <2>3. responseQueue' \in Seq(Frame)
    BY <2>2, EnqueueFacts DEF HearAck, HearEcho, HearState, HearDone, BusTypeOK
  <2>4. /\ UNCHANGED <<workerVars, outbox, owed, commands, polls, histVars, bus>>
    BY <1>7 DEF Dispatch
  <2>5. CASE HearAck(m) \/ HearEcho(m) \/ HearDone(m)
    BY <2>1, <2>3, <2>4, <2>5 DEF HearAck, HearEcho, HearDone, BusTypeOK, Frame
  <2>6. CASE HearState(m)
    BY <2>1, <2>3, <2>4, <2>6 DEF HearState, IsAwaitedAnswer, BusTypeOK, Group
  <2> QED
    BY <2>2, <2>5, <2>6
<1>8. CASE GatewayForwards
  <2>1. outbox' \in Seq(Command)
    BY <1>8, TailFacts DEF GatewayForwards, BusTypeOK
  <2>2. PICK c \in Command :
          /\ owed' = Append(owed, c) \/ owed' = owed
          /\ line' = Append(line, AckOf(c)) \/ line' = line
    BY <1>8, ForwardCases DEF BusTypeOK
  <2> HIDE DEF vars, workerVars, listenVars, busVars, histVars
  <2>4. AckOf(c) \in Frame
    BY SentFrames
  <2>5. owed \in Seq(Command) /\ line \in Seq(Frame)
    BY DEF BusTypeOK
  <2>6. Append(line, AckOf(c)) \in Seq(Frame)
    BY <2>4, <2>5, AppendFacts
  <2>7. Append(owed, c) \in Seq(Command)
    BY <2>5, AppendFacts
  <2>3. owed' \in Seq(Command) /\ line' \in Seq(Frame)
    BY <2>2, <2>5, <2>6, <2>7
  <2> QED
    BY <1>8, <2>1, <2>3 DEF GatewayForwards, BusTypeOK, workerVars, listenVars
<1>9. CASE ModuleAnswers
  <2>1. owed' \in Seq(Command)
    BY <1>9, TailFacts DEF ModuleAnswers, BusTypeOK
  <2>2. PICK c \in Command, t \in Seq(Frame) :
          line' = IF c.own /\ c.ack = "last" THEN Append(t, AckOf(c)) ELSE t
    BY <1>9, AnswerCases DEF BusTypeOK
  <2>3. line' \in Seq(Frame)
    BY <2>2, SentFrames
  <2> QED
    BY <1>9, <2>1, <2>3 DEF ModuleAnswers, BusTypeOK
<1>10. CASE UNCHANGED vars
  BY <1>10 DEF BusTypeOK
<1> QED
  BY <1>1, <1>2, <1>3, <1>4, <1>5, <1>6, <1>7, <1>8, <1>9, <1>10 DEF Next

\* The flags stay flags.
LEMMA StepFlags ==
    FlagsOK /\ [Next]_vars => FlagsOK'
<1> SUFFICES ASSUME FlagsOK, [Next]_vars
             PROVE  FlagsOK'
  OBVIOUS
<1> USE DEF vars, workerVars, listenVars, busVars, histVars, FlagsOK
<1>1. ASSUME NEW kind \in {"read", "write"}, NEW g \in Group, Start(kind, g) PROVE FlagsOK'
  BY <1>1 DEF Start, Attempt, Announce
<1>2. ASSUME NEW g \in Group, FeedbackAsks(g) PROVE FlagsOK'
  BY <1>2 DEF FeedbackAsks
<1>3. CASE Take
  BY <1>3 DEF Take, TakeAck, TakeState, TakeDone, Finish
<1>4. CASE TimeoutHeld \/ TimeoutFail
  BY <1>4 DEF TimeoutHeld, TimeoutFail, Finish
<1>5. CASE TimeoutRetry
  BY <1>5 DEF TimeoutRetry, Attempt, Announce
<1>6. CASE Dispatch
  BY <1>6 DEF Dispatch, HearAck, HearEcho, HearState, HearDone
<1>7. CASE GatewayForwards
  BY <1>7 DEF GatewayForwards
<1>8. CASE ModuleAnswers
  BY <1>8 DEF ModuleAnswers
<1>9. CASE UNCHANGED vars
  BY <1>9
<1> QED
  BY <1>1, <1>2, <1>3, <1>4, <1>5, <1>6, <1>7, <1>8, <1>9 DEF Next

-----------------------------------------------------------------------------
(* The acknowledgement and the answer of the exchange going on. *)

BusInv == BusTypeOK /\ FlagsOK /\ FlowInv /\ AckInv /\ AnswerInv

\* Nothing of the exchange that ends is left on its way.
Clean(s) == \A i \in DOMAIN s : s[i].kind # "ack" /\ ~Counts(s[i])

NoneDue ==
    outbox = <<>> /\ \A i \in DOMAIN owed : owed[i].own => ~Due(owed[i]) /\ owed[i].ack # "last"

\* With the message that ends an exchange its acknowledgement and its answer
\* are used up.
LEMMA EndsClean ==
    ASSUME BusInv, responseQueue # <<>>, phase # "idle",
           NEW m, m = responseQueue[1],
           \/ ackReceived /\ \/ phase = "read" /\ m.kind = "state"
                             \/ phase = "write" /\ m.kind = "done"
           \/ held # Nothing /\ phase = "write" /\ m.kind = "ack"
    PROVE  NoneDue /\ Clean(line) /\ Clean(Tail(responseQueue))
<1> DEFINE t == Tail(responseQueue)
<1>1. /\ 1 \in DOMAIN responseQueue
      /\ \A i \in DOMAIN t : i + 1 \in DOMAIN responseQueue /\ t[i] = responseQueue[i + 1]
                              /\ i + 1 # 1
  BY TailFacts, SeqFacts DEF BusInv, BusTypeOK
<1> HIDE DEF t
<1>2. /\ outbox = <<>>
      /\ \A i \in DOMAIN owed : owed[i].own => owed[i].ack # "last"
      /\ \A i \in DOMAIN line : line[i].kind # "ack"
      /\ \A i \in DOMAIN t : t[i].kind # "ack"
  BY <1>1 DEF BusInv, AckInv, FlagsOK
<1>3. phase = "read" \/ phase = "write"
  BY DEF BusInv, BusTypeOK
<1>4. CASE phase = "write"
  <2>1. Counts(m) \/ HeldCounts
    BY <1>4 DEF BusInv, FlowInv, HeldInv, HeldCounts, Counts
  <2>2. CASE Counts(m)
    BY <1>1, <1>2, <2>2 DEF BusInv, AnswerInv, NoneDue, Clean, t
  <2>3. CASE HeldCounts
    BY <1>1, <1>2, <2>3 DEF BusInv, AnswerInv, NoneDue, Clean, t
  <2> QED
    BY <2>1, <2>2, <2>3
<1>5. CASE phase = "read" /\ bus.polls = 0
  <2>1. Counts(m)
    BY <1>5 DEF Counts
  <2> QED
    BY <1>1, <1>2, <2>1 DEF BusInv, AnswerInv, NoneDue, Clean, t
<1>6. CASE phase = "read" /\ bus.polls # 0
  <2>1. \A i \in DOMAIN owed : owed[i].own => ~Due(owed[i])
    BY <1>6 DEF BusInv, FlowInv, CommandInv, Due
  <2>2. \A i \in DOMAIN line : ~Counts(line[i])
    BY <1>6 DEF BusInv, FlowInv, FrameInv, Counts
  <2>3. \A i \in DOMAIN responseQueue : ~Counts(responseQueue[i])
    BY <1>6 DEF BusInv, FlowInv, FrameInv, Counts
  <2> QED
    BY <1>1, <1>2, <2>1, <2>2, <2>3 DEF NoneDue, Clean, t
<1> QED
  BY <1>3, <1>4, <1>5, <1>6

\* An exchange that ends leaves the invariant.
LEMMA StepFinish ==
    ASSUME BusInv, NEW r, Finish(r), UNCHANGED <<bus, busVars, commands, polls, histVars>>,
           NoneDue, Clean(line), Clean(responseQueue'),
           NEW d \in {0, 1},
           \A i \in DOMAIN responseQueue' :
              i + d \in DOMAIN responseQueue /\ responseQueue'[i] = responseQueue[i + d]
    PROVE  FlowInv' /\ AckInv' /\ AnswerInv'
<1>1. phase' = "idle" /\ attempt' = 0 /\ ackReceived' = FALSE /\ held' = Nothing /\ awaiting' = FALSE
  BY DEF Finish
<1>2. UNCHANGED <<bus, outbox, owed, line, took, lost>>
  BY DEF busVars, histVars
<1>3. \A x : Counts(x)' = Counts(x)
  BY <1>2 DEF Counts
<1>4. IdleInv' /\ HeldInv'
  BY <1>1, <1>2 DEF IdleInv, HeldInv, NoneDue
<1>5. CommandInv'
  BY <1>1, <1>2, EmptyFacts DEF CommandInv, NoneDue, Due, BusInv, FlowInv
<1>6. (FrameInv(line))'
  BY <1>1, <1>2 DEF FrameInv, Clean, Counts, BusInv, FlowInv
<1>7. (FrameInv(responseQueue))'
  BY <1>1, <1>2 DEF FrameInv, Clean, Counts, BusInv, FlowInv
<1>8. AckInv'
  BY <1>1, <1>2 DEF AckInv, NoneDue, Clean
<1>9. AnswerInv'
  BY <1>1, <1>2 DEF AnswerInv, NoneDue, Clean, HeldCounts, Counts, Due
<1> QED
  BY <1>4, <1>5, <1>6, <1>7, <1>8, <1>9 DEF FlowInv

\* The first attempt of an exchange, and the next one once the bus is quiet.
LEMMA StepAttempt ==
    ASSUME BusInv, NEW kind \in {"read", "write"}, NEW g \in Group, Attempt(kind, g),
           phase' = kind, ask' = g, attempt' # 0, awaiting' = TRUE,
           UNCHANGED <<bus, owed, line>>,
           NoneDue, Clean(line)
    PROVE  FlowInv' /\ AckInv' /\ AnswerInv'
<1>1. /\ responseQueue' = <<>> /\ DOMAIN responseQueue' = {}
      /\ ackReceived' = FALSE /\ held' = Nothing
  BY EmptyFacts DEF Attempt
<1>2. PICK c \in Command : outbox' = Append(<<>>, c) /\ c.kind = kind /\ c.group = g /\ c.own
                           /\ c.ack \in bus.orders
  <2>1. PICK o \in bus.orders :
          outbox' = Append(<<>>, [kind |-> kind, group |-> g, own |-> TRUE, ack |-> o])
    BY DEF Attempt, NoneDue
  <2>2. bus.orders \subseteq {"first", "last"}
    BY BusAssumption DEF BusInv, BusTypeOK
  <2> DEFINE c == [kind |-> kind, group |-> g, own |-> TRUE, ack |-> o]
  <2>3. c \in Command /\ c.kind = kind /\ c.group = g /\ c.own /\ c.ack = o
    BY <2>2 DEF Command
  <2> QED
    BY <2>1, <2>3
<1>3. Len(outbox') = 1 /\ DOMAIN outbox' = {1} /\ outbox'[1] = c /\ outbox' # <<>>
  BY <1>2, EmptyFacts, AppendFacts
<1>4. IdleInv' /\ HeldInv'
  BY <1>1 DEF IdleInv, HeldInv
<1>5. CommandInv'
  <2>1. \A i \in DOMAIN outbox' : outbox'[i] = c
    BY <1>3
  <2>2. /\ Len(outbox') <= 1
        /\ \A i \in DOMAIN outbox' :
             outbox'[i].kind = phase' /\ outbox'[i].group = ask' /\ outbox'[i].own
             /\ outbox'[i].ack \in bus'.orders
    BY <1>2, <1>3, <2>1
  <2> QED
    BY <2>2 DEF CommandInv, NoneDue, Due, BusInv, FlowInv
<1>6. (FrameInv(line))'
  BY DEF FrameInv, Clean, Counts, BusInv, FlowInv
<1>7. (FrameInv(responseQueue))'
  BY <1>1 DEF FrameInv
<1>8. AckInv'
  BY <1>1 DEF AckInv, NoneDue, Clean
<1>9. AnswerInv'
  BY <1>1 DEF AnswerInv, NoneDue, Clean, HeldCounts, Counts, Due
<1> QED
  BY <1>4, <1>5, <1>6, <1>7, <1>8, <1>9 DEF FlowInv

\* Between exchanges, and once the bus is quiet, nothing is on its way.
LEMMA RestClean ==
    ASSUME BusInv, phase = "idle" \/ Quiet
    PROVE  NoneDue /\ Clean(line) /\ Clean(responseQueue)
<1>1. CASE phase = "idle"
  <2>1. \A i \in DOMAIN owed : owed[i].kind # "idle"
    <3>1. \A i \in DOMAIN owed : owed[i] \in Command
      BY SeqFacts DEF BusInv, BusTypeOK
    <3> QED
      BY <3>1 DEF Command
  <2>2. NoneDue
    BY <1>1, <2>1 DEF BusInv, FlowInv, IdleInv, CommandInv, NoneDue
  <2>3. /\ \A i \in DOMAIN line : line[i].to # "idle"
        /\ \A i \in DOMAIN responseQueue : responseQueue[i].to # "idle"
    <3>1. /\ \A i \in DOMAIN line : line[i] \in Frame
          /\ \A i \in DOMAIN responseQueue : responseQueue[i] \in Frame
      BY SeqFacts DEF BusInv, BusTypeOK
    <3> QED
      BY <3>1 DEF Frame
  <2>4. Clean(line) /\ Clean(responseQueue)
    BY <1>1, <2>3 DEF BusInv, FlowInv, FrameInv, Clean
  <2> QED
    BY <2>2, <2>4
<1>2. CASE Quiet
  BY <1>2, EmptyFacts DEF Quiet, NoneDue, Clean
<1> QED
  BY <1>1, <1>2

\* The elements of the sequences are commands and frames.
LEMMA Elements ==
    ASSUME BusTypeOK
    PROVE  /\ \A i \in DOMAIN owed : owed[i] \in Command
           /\ \A i \in DOMAIN outbox : outbox[i] \in Command
           /\ \A i \in DOMAIN line : line[i] \in Frame
           /\ \A i \in DOMAIN responseQueue : responseQueue[i] \in Frame
BY SeqFacts DEF BusTypeOK

\* The worker takes a message.
LEMMA StepTake ==
    BusInv /\ Take => FlowInv' /\ AckInv' /\ AnswerInv'
<1> SUFFICES ASSUME BusInv, Take PROVE FlowInv' /\ AckInv' /\ AnswerInv'
  OBVIOUS
<1> DEFINE t == Tail(responseQueue)
<1>1. /\ responseQueue \in Seq(Frame) /\ responseQueue # <<>> /\ phase # "idle"
      /\ responseQueue' = t
      /\ UNCHANGED <<bus, busVars, commands, polls, histVars>>
  BY TakeCases DEF BusInv, BusTypeOK
<1>2. /\ 1 \in DOMAIN responseQueue
      /\ \A i \in DOMAIN t : /\ i + 1 \in DOMAIN responseQueue /\ t[i] = responseQueue[i + 1]
                             /\ i + 1 # 1
                             /\ \A j \in DOMAIN t : i + 1 = j + 1 => i = j
  BY <1>1, TailFacts, SeqFacts
<1> DEFINE m == responseQueue[1]
<1>3. m \in Frame
  BY <1>2, Elements DEF BusInv
<1>4. ASSUME NEW r, Finish(r),
             \/ ackReceived /\ \/ phase = "read" /\ m.kind = "state"
                               \/ phase = "write" /\ m.kind = "done"
             \/ held # Nothing /\ phase = "write" /\ m.kind = "ack"
      PROVE  FlowInv' /\ AckInv' /\ AnswerInv'
  <2>1. NoneDue /\ Clean(line) /\ Clean(t)
    BY <1>1, <1>4, EndsClean
  <2> HIDE DEF t, m
  <2>2. (\A i \in DOMAIN t : i + 1 \in DOMAIN responseQueue /\ t[i] = responseQueue[i + 1])
        /\ Clean(responseQueue')
    BY <1>1, <1>2, <2>1 DEF Clean, Counts
  <2> QED
    BY <1>1, <1>4, <2>1, <2>2, StepFinish
<1>5. UNCHANGED <<bus, outbox, owed, line, took, lost>>
  BY <1>1 DEF busVars, histVars
<1> HIDE DEF t, m
<1>6. ASSUME UNCHANGED <<phase, ask, attempt, awaiting>>,
             ackReceived' = ackReceived \/ (ackReceived' = TRUE /\ m.kind = "ack"),
             held' = held \/ (held' = m /\ m.kind = (IF phase = "read" THEN "state" ELSE "done"))
      PROVE  FlowInv' /\ AckInv' /\ AnswerInv'
  <2>1. phase \in {"read", "write"}
    BY <1>1 DEF BusInv, BusTypeOK
  <2>2. FrameInv(responseQueue)
    BY DEF BusInv, FlowInv
  <2>3. (FrameInv(responseQueue))'
    BY <1>1, <1>2, <1>5, <1>6, <2>2 DEF FrameInv, Counts
  <2>4. IdleInv' /\ CommandInv' /\ (FrameInv(line))'
    BY <1>5, <1>6, <1>1 DEF BusInv, FlowInv, IdleInv, CommandInv, FrameInv, Counts, Due
  <2>5. HeldInv'
    <3>1. CASE held' = held
      BY <1>5, <1>6, <3>1 DEF BusInv, FlowInv, HeldInv, Counts
    <3>2. CASE held' = m /\ m.kind = (IF phase = "read" THEN "state" ELSE "done")
      <4>1. /\ m.kind = "state" => m.to = "read"
            /\ m.kind = "done" => m.to = "write"
            /\ Counts(m) => m.to = phase /\ m.group = ask /\ took
        BY <1>2, <2>2 DEF FrameInv, m
      <4> QED
        BY <1>5, <1>6, <2>1, <3>2, <4>1 DEF HeldInv, Counts
    <3> QED
      BY <1>6, <3>1, <3>2
  <2>6. AckInv'
    <3>1. CASE ackReceived' = ackReceived
      BY <1>1, <1>2, <1>5, <3>1 DEF BusInv, AckInv
    <3>2. CASE m.kind = "ack"
      BY <1>1, <1>2, <1>5, <3>2 DEF BusInv, AckInv, m
    <3> QED
      BY <1>6, <3>1, <3>2
  <2>7. AnswerInv'
    <3>0. \A x : Counts(x)' = Counts(x) /\ Due(x)' = Due(x)
      BY <1>5 DEF Counts, Due
    <3>1. CASE held' = held
      <4>1. HeldCounts' = HeldCounts
        BY <1>5, <3>1 DEF HeldCounts, Counts
      <4> QED
        BY <1>1, <1>2, <1>5, <4>1 DEF BusInv, AnswerInv, Counts, Due
    <3>2. CASE held' = m /\ Counts(m)
      BY <1>1, <1>2, <1>5, <3>2 DEF BusInv, AnswerInv, m, Counts, Due
    <3>3. CASE held' = m /\ ~Counts(m)
      <4>1. ~HeldCounts'
        BY <1>5, <3>3 DEF HeldCounts, Counts
      <4> QED
        BY <1>1, <1>2, <1>5, <4>1 DEF BusInv, AnswerInv, Counts, Due
    <3> QED
      BY <1>6, <3>1, <3>2, <3>3
  <2> QED
    BY <2>3, <2>4, <2>5, <2>6, <2>7 DEF FlowInv
<1> QED
  BY <1>1, <1>4, <1>6, TakeCases DEF m, workerVars, listenVars

\* The Feedback Module asks.
LEMMA StepAsks ==
    ASSUME BusInv, NEW g \in Group, FeedbackAsks(g)
    PROVE  FlowInv' /\ AckInv' /\ AnswerInv'
<1> DEFINE e == [kind |-> "echo", to |-> "read", group |-> g, own |-> FALSE]
<1>1. /\ UNCHANGED <<bus, phase, ask, attempt, ackReceived, held, awaiting>>
      /\ UNCHANGED <<responseQueue, outbox, took, lost>>
      /\ line' = Append(line, e) /\ polls < bus.polls
  BY DEF FeedbackAsks, workerVars, listenVars, histVars
<1>2. PICK c \in Command : owed' = Append(owed, c) /\ ~c.own /\ c.kind = "read"
  <2>1. PICK o \in bus.orders :
          owed' = Append(owed, [kind |-> "read", group |-> g, own |-> FALSE, ack |-> o])
    BY DEF FeedbackAsks
  <2>2. bus.orders \subseteq {"first", "last"}
    BY BusAssumption DEF BusInv, BusTypeOK
  <2> DEFINE c == [kind |-> "read", group |-> g, own |-> FALSE, ack |-> o]
  <2>3. c \in Command /\ c.kind = "read" /\ ~c.own
    BY <2>2 DEF Command
  <2> QED
    BY <2>1, <2>3
<1>3. bus.polls # 0
  BY <1>1, BusAssumption DEF BusInv, BusTypeOK
<1>4. e \in Frame /\ e.kind = "echo"
  BY DEF Frame
<1> HIDE DEF e
<1>5. \A i \in DOMAIN owed' : owed'[i] = c \/ (i \in DOMAIN owed /\ owed'[i] = owed[i])
  BY <1>2, AppendFacts DEF BusInv, BusTypeOK
<1>6. \A i \in DOMAIN line' : line'[i] = e \/ (i \in DOMAIN line /\ line'[i] = line[i])
  BY <1>1, <1>4, AppendFacts DEF BusInv, BusTypeOK
<1>7. IdleInv' /\ HeldInv' /\ (FrameInv(responseQueue))'
  BY <1>1 DEF BusInv, FlowInv, IdleInv, HeldInv, FrameInv, Counts
<1>8. CommandInv'
  BY <1>1, <1>2, <1>3, <1>5 DEF BusInv, FlowInv, CommandInv, Due
<1>9. (FrameInv(line))'
  BY <1>1, <1>3, <1>4, <1>6 DEF BusInv, FlowInv, FrameInv, Counts
<1>10. AckInv'
  BY <1>1, <1>2, <1>4, <1>5, <1>6 DEF BusInv, AckInv
<1>11. AnswerInv'
  BY <1>1, <1>2, <1>4, <1>5, <1>6 DEF BusInv, AnswerInv, Counts, Due, HeldCounts
<1> QED
  BY <1>7, <1>8, <1>9, <1>10, <1>11 DEF FlowInv

\* The listener hears a frame.
LEMMA StepDispatch ==
    BusInv /\ Dispatch => FlowInv' /\ AckInv' /\ AnswerInv'
<1> SUFFICES ASSUME BusInv, Dispatch PROVE FlowInv' /\ AckInv' /\ AnswerInv'
  OBVIOUS
<1>1. /\ line # <<>> /\ line' = Tail(line)
      /\ UNCHANGED <<bus, phase, ask, attempt, ackReceived, held, awaiting>>
      /\ UNCHANGED <<outbox, owed, took, lost>>
  BY DispatchCases DEF BusInv, BusTypeOK, workerVars, histVars
<1>2. PICK m \in Frame : m = line[1] /\ (Enqueue(m) \/ responseQueue' = responseQueue)
  BY DispatchCases DEF BusInv, BusTypeOK
<1>3. /\ 1 \in DOMAIN line
      /\ \A i \in DOMAIN line' : i + 1 \in DOMAIN line /\ line'[i] = line[i + 1]
                                 /\ i + 1 # 1
                                 /\ \A j \in DOMAIN line' : i + 1 = j + 1 => i = j
  BY <1>1, TailFacts, SeqFacts DEF BusInv, BusTypeOK
<1>4. PICK d \in {0, 1}, n \in Nat :
        \A i \in DOMAIN responseQueue' :
           \/ i = n /\ responseQueue'[i] = m
           \/ /\ i + d \in DOMAIN responseQueue /\ responseQueue'[i] = responseQueue[i + d]
              /\ \A j \in DOMAIN responseQueue' : i + d = j + d => i = j
  <2>1. CASE responseQueue' = responseQueue
    <3>1. \A i \in DOMAIN responseQueue' :
             /\ i + 0 \in DOMAIN responseQueue /\ responseQueue'[i] = responseQueue[i + 0]
             /\ \A j \in DOMAIN responseQueue' : i + 0 = j + 0 => i = j
      BY <2>1, SeqFacts DEF BusInv, BusTypeOK
    <3> QED
      BY <3>1
  <2>2. CASE Enqueue(m)
    <3>1. responseQueue' \in Seq(Frame)
      BY <2>2, EnqueueFacts DEF BusInv, BusTypeOK
    <3>2. PICK d \in {0, 1} :
            /\ responseQueue'[Len(responseQueue')] = m
            /\ \A i \in DOMAIN responseQueue' : i # Len(responseQueue') =>
                  i + d \in DOMAIN responseQueue /\ responseQueue'[i] = responseQueue[i + d]
      BY <2>2, EnqueueFacts DEF BusInv, BusTypeOK
    <3>3. Len(responseQueue') \in Nat /\ DOMAIN responseQueue' = 1 .. Len(responseQueue')
      BY <3>1, SeqFacts
    <3>4. \A i, j \in DOMAIN responseQueue' : i + d = j + d => i = j
      BY <3>3
    <3> QED
      BY <3>2, <3>3, <3>4
  <2> QED
    BY <1>2, <2>1, <2>2
<1>5. FrameInv(line) /\ FrameInv(responseQueue)
  BY DEF BusInv, FlowInv
<1>6. IdleInv' /\ HeldInv' /\ CommandInv'
  BY <1>1 DEF BusInv, FlowInv, IdleInv, HeldInv, CommandInv, Counts, Due
<1>7. (FrameInv(line))'
  BY <1>1, <1>3, <1>5 DEF FrameInv, Counts
<1>8. (FrameInv(responseQueue))'
  BY <1>1, <1>2, <1>3, <1>4, <1>5 DEF FrameInv, Counts
<1>9. AckInv'
  <2>1. CASE m.kind = "ack"
    BY <1>1, <1>2, <1>3, <1>4, <2>1 DEF BusInv, AckInv
  <2>2. CASE m.kind # "ack"
    BY <1>1, <1>2, <1>3, <1>4, <2>2 DEF BusInv, AckInv
  <2> QED
    BY <2>1, <2>2
<1>10. AnswerInv'
  <2>0. HeldCounts' = HeldCounts
    BY <1>1 DEF HeldCounts, Counts
  <2>1. CASE Counts(m)
    BY <1>1, <1>2, <1>3, <1>4, <2>0, <2>1 DEF BusInv, AnswerInv, Counts, Due
  <2>2. CASE ~Counts(m)
    BY <1>1, <1>2, <1>3, <1>4, <2>0, <2>2 DEF BusInv, AnswerInv, Counts, Due
  <2> QED
    BY <2>1, <2>2
<1> QED
  BY <1>6, <1>7, <1>8, <1>9, <1>10 DEF FlowInv

\* The gateway takes a command.
LEMMA StepForwards ==
    BusInv /\ GatewayForwards => FlowInv' /\ AckInv' /\ AnswerInv'
<1> SUFFICES ASSUME BusInv, GatewayForwards PROVE FlowInv' /\ AckInv' /\ AnswerInv'
  OBVIOUS
<1>0. BusTypeOK
  BY DEF BusInv
<1>1. /\ outbox # <<>> /\ outbox' = Tail(outbox)
      /\ UNCHANGED <<bus, phase, ask, attempt, ackReceived, held, awaiting, responseQueue, took>>
  BY <1>0, ForwardCases DEF BusTypeOK, workerVars, listenVars
<1>2. PICK c \in Command :
        /\ c = outbox[1]
        /\ owed' = Append(owed, c) \/ owed' = owed
        /\ \/ line' = Append(line, AckOf(c)) /\ c.ack = "first"
           \/ line' = line
  BY <1>0, ForwardCases DEF BusTypeOK
<1>3. /\ 1 \in DOMAIN outbox /\ Len(outbox) = 1 /\ outbox' = <<>> /\ DOMAIN outbox' = {}
      /\ Len(outbox') = 0
  <2>1. outbox \in Seq(Command) /\ Len(outbox) <= 1
    BY DEF BusInv, BusTypeOK, FlowInv, CommandInv
  <2>2. /\ Len(outbox) \in Nat \ {0} /\ outbox' \in Seq(Command)
        /\ Len(outbox') = Len(outbox) - 1 /\ DOMAIN outbox = 1 .. Len(outbox)
    BY <1>1, <2>1, TailFacts
  <2>3. Len(outbox) = 1 /\ Len(outbox') = 0
    BY <2>1, <2>2
  <2> QED
    BY <2>2, <2>3, SeqFacts
<1>4. c.kind = phase /\ c.group = ask /\ c.own /\ c.ack \in bus.orders
  BY <1>2, <1>3 DEF BusInv, FlowInv, CommandInv
<1> DEFINE a == AckOf(c)
<1>5. a \in Frame /\ a.kind = "ack" /\ a.to = c.kind /\ a.group = c.group /\ a.own
  BY SentFrames
<1> HIDE DEF a
<1>6. PICK n \in Nat : \A i \in DOMAIN owed' :
        \/ i = n /\ owed'[i] = c
        \/ i \in DOMAIN owed /\ owed'[i] = owed[i]
  <2>1. CASE owed' = owed
    BY <2>1
  <2>2. CASE owed' = Append(owed, c)
    BY SMTT(30), <1>0, <2>2, AppendFacts DEF BusTypeOK
  <2> QED
    BY <1>2, <2>1, <2>2
<1>7. PICK k \in Nat : \A i \in DOMAIN line' :
        \/ i = k /\ line'[i] = a /\ c.ack = "first"
        \/ i \in DOMAIN line /\ line'[i] = line[i]
  <2>1. CASE line' = line
    BY <2>1
  <2>2. CASE line' = Append(line, a) /\ c.ack = "first"
    BY SMTT(30), <1>0, <1>5, <2>2, AppendFacts DEF BusTypeOK
  <2> QED
    BY <1>2, <2>1, <2>2 DEF a
<1>8. /\ ~ackReceived /\ ~HeldCounts
      /\ \A i \in DOMAIN owed : owed[i].own => owed[i].ack # "last" /\ ~Due(owed[i])
      /\ \A i \in DOMAIN line : line[i].kind # "ack" /\ ~Counts(line[i])
      /\ \A i \in DOMAIN responseQueue : responseQueue[i].kind # "ack" /\ ~Counts(responseQueue[i])
  BY <1>1 DEF BusInv, AckInv, AnswerInv
<1>9. IdleInv' /\ HeldInv' /\ (FrameInv(responseQueue))'
  BY <1>1, <1>3 DEF BusInv, FlowInv, IdleInv, HeldInv, FrameInv, Counts
<1>10. CommandInv'
  <2>1. \A i \in DOMAIN owed :
           /\ owed[i].own /\ (Due(owed[i]) \/ owed[i].ack = "last") =>
                owed[i].kind = phase /\ owed[i].group = ask
           /\ owed[i].own => owed[i].ack \in bus.orders
           /\ ~owed[i].own => owed[i].kind = "read" /\ bus.polls # 0
    BY DEF BusInv, FlowInv, CommandInv
  <2>2. \A i \in DOMAIN owed' :
           /\ owed'[i].own /\ (Due(owed'[i]) \/ owed'[i].ack = "last") =>
                owed'[i].kind = phase /\ owed'[i].group = ask
           /\ owed'[i].own => owed'[i].ack \in bus.orders
           /\ ~owed'[i].own => owed'[i].kind = "read" /\ bus.polls # 0
    BY <1>4, <1>6, <2>1
  <2> QED
    BY <1>1, <1>3, <2>2 DEF CommandInv, Due
<1>11. (FrameInv(line))'
  BY <1>1, <1>4, <1>5, <1>7 DEF BusInv, FlowInv, FrameInv, Counts
<1>12. AckInv'
  BY <1>1, <1>3, <1>5, <1>6, <1>7, <1>8 DEF AckInv
<1>13. AnswerInv'
  BY <1>1, <1>3, <1>5, <1>6, <1>7, <1>8 DEF AnswerInv, HeldCounts, Counts, Due
<1> QED
  BY <1>9, <1>10, <1>11, <1>12, <1>13 DEF FlowInv

\* The module answers.
LEMMA StepAnswers ==
    BusInv /\ ModuleAnswers => FlowInv' /\ AckInv' /\ AnswerInv'
<1> SUFFICES ASSUME BusInv, ModuleAnswers PROVE FlowInv' /\ AckInv' /\ AnswerInv'
  OBVIOUS
<1>0. BusTypeOK
  BY DEF BusInv
<1>1. /\ owed # <<>> /\ owed' = Tail(owed)
      /\ UNCHANGED <<bus, phase, ask, attempt, ackReceived, held, awaiting, responseQueue, outbox>>
  BY <1>0, AnswerCases DEF BusTypeOK, workerVars, listenVars
<1>2. PICK c \in Command, t \in Seq(Frame) :
        /\ c = owed[1]
        /\ t = Append(line, AnswerTo(c)) \/ t = line
        /\ line' = IF c.own /\ c.ack = "last" THEN Append(t, AckOf(c)) ELSE t
        /\ took' = (took \/ (c.own /\ c.kind = phase /\ c.group = ask))
  BY <1>0, AnswerCases DEF BusTypeOK
<1>3. /\ 1 \in DOMAIN owed
      /\ \A i \in DOMAIN owed' : i + 1 \in DOMAIN owed /\ owed'[i] = owed[i + 1]
                                 /\ i + 1 # 1
                                 /\ \A j \in DOMAIN owed' : i + 1 = j + 1 => i = j
  <2>1. owed \in Seq(Command)
    BY <1>0 DEF BusTypeOK
  <2>2. 1 \in DOMAIN owed
    BY <1>1, <2>1, SeqFacts
  <2>3. Len(owed) \in Nat /\ DOMAIN owed' = 1 .. Len(owed) - 1
        /\ \A i \in DOMAIN owed' : i + 1 \in DOMAIN owed /\ owed'[i] = owed[i + 1]
    BY <1>1, <2>1, TailFacts
  <2>4. \A i \in DOMAIN owed' : i \in Nat \ {0}
    BY <2>3
  <2> QED
    BY <2>2, <2>3, <2>4
<1> DEFINE a == AckOf(c)
           r == AnswerTo(c)
<1>4. /\ a \in Frame /\ a.kind = "ack" /\ a.to = c.kind /\ a.group = c.group
      /\ r \in Frame /\ r.kind = (IF c.kind = "read" THEN "state" ELSE "done")
      /\ r.to = c.kind /\ r.group = c.group
      /\ c.kind \in {"read", "write"}
  BY SentFrames DEF Command
<1> HIDE DEF a, r
<1>5. \E k \in Nat : \A i \in DOMAIN t :
        (i = k /\ t[i] = r) \/ (i \in DOMAIN line /\ t[i] = line[i])
  <2>1. CASE t = line
    BY <2>1
  <2>2. CASE t = Append(line, r)
    <3> DEFINE k == Len(line) + 1
    <3>1. /\ k \in Nat /\ DOMAIN t = 1 .. k /\ t[k] = r /\ DOMAIN line = 1 .. k - 1
          /\ \A i \in DOMAIN line : t[i] = line[i]
      BY <1>0, <1>4, <2>2, AppendFacts DEF BusTypeOK
    <3> HIDE DEF k
    <3>2. \A i \in DOMAIN t : (i = k /\ t[i] = r) \/ (i \in DOMAIN line /\ t[i] = line[i])
      BY <3>1
    <3> QED
      BY <3>1, <3>2
  <2> QED
    BY <1>2, <2>1, <2>2 DEF r
<1>6. \E n \in Nat : \A i \in DOMAIN line' :
        (i = n /\ line'[i] = a /\ c.own /\ c.ack = "last") \/ (i \in DOMAIN t /\ line'[i] = t[i])
  <2>1. CASE ~(c.own /\ c.ack = "last")
    BY <1>2, <2>1
  <2>2. CASE c.own /\ c.ack = "last"
    <3>1. line' = Append(t, a)
      BY <1>2, <2>2 DEF a
    <3> DEFINE n == Len(t) + 1
    <3>2. /\ n \in Nat /\ DOMAIN line' = 1 .. n /\ line'[n] = a /\ DOMAIN t = 1 .. n - 1
          /\ \A i \in DOMAIN t : line'[i] = t[i]
      BY <1>4, <3>1, AppendFacts
    <3> HIDE DEF n
    <3>3. \A i \in DOMAIN line' :
             (i = n /\ line'[i] = a /\ c.own /\ c.ack = "last")
             \/ (i \in DOMAIN t /\ line'[i] = t[i])
      BY <2>2, <3>2
    <3> QED
      BY <3>2, <3>3
  <2> QED
    BY <2>1, <2>2
<1>7. PICK k \in Nat, n \in Nat : \A i \in DOMAIN line' :
        \/ i = k /\ line'[i] = r
        \/ i = n /\ line'[i] = a /\ c.own /\ c.ack = "last"
        \/ i \in DOMAIN line /\ line'[i] = line[i]
  BY <1>5, <1>6
<1>8. /\ c.own /\ (Due(c) \/ c.ack = "last") => c.kind = phase /\ c.group = ask
      /\ ~c.own => c.kind = "read" /\ bus.polls # 0
  BY <1>2, <1>3 DEF BusInv, FlowInv, CommandInv
<1>9. /\ Counts(r) => c.own /\ Due(c)
      /\ c.own /\ Due(c) => took'
      /\ took => took'
      /\ ~Counts(a)
  BY <1>2, <1>4, <1>8 DEF Counts, Due
<1>10. IdleInv' /\ HeldInv' /\ (FrameInv(responseQueue))'
  BY <1>1, <1>9 DEF BusInv, FlowInv, IdleInv, HeldInv, FrameInv, Counts
<1>11. CommandInv'
  BY <1>1, <1>3 DEF BusInv, FlowInv, CommandInv, Due
<1>12. (FrameInv(line))'
  BY <1>1, <1>4, <1>7, <1>8, <1>9 DEF BusInv, FlowInv, FrameInv, Counts
<1>13. AckInv'
  <2>1. CASE c.own /\ c.ack = "last"
    <3>1. /\ outbox = <<>> /\ ~ackReceived
          /\ \A i \in DOMAIN owed' : owed'[i].own => owed'[i].ack # "last"
          /\ \A i \in DOMAIN line : line[i].kind # "ack"
          /\ \A i \in DOMAIN responseQueue : responseQueue[i].kind # "ack"
      BY <1>2, <1>3, <2>1 DEF BusInv, AckInv
    <3> QED
      BY <1>1, <1>4, <1>7, <3>1 DEF AckInv
  <2>2. CASE ~(c.own /\ c.ack = "last")
    <3>1. \A i \in DOMAIN line' : line'[i].kind = "ack" =>
             i \in DOMAIN line /\ line'[i] = line[i]
      BY <1>4, <1>7, <2>2
    <3> QED
      BY <1>1, <1>3, <3>1 DEF BusInv, AckInv
  <2> QED
    BY <2>1, <2>2
<1>14. AnswerInv'
  <2>0. HeldCounts' = HeldCounts
    BY <1>1 DEF HeldCounts, Counts
  <2>1. CASE c.own /\ Due(c)
    <3>1. /\ outbox = <<>> /\ ~HeldCounts
          /\ \A i \in DOMAIN owed' : owed'[i].own => ~Due(owed'[i])
          /\ \A i \in DOMAIN line : ~Counts(line[i])
          /\ \A i \in DOMAIN responseQueue : ~Counts(responseQueue[i])
      BY <1>2, <1>3, <2>1 DEF BusInv, AnswerInv
    <3>2. \A i \in DOMAIN line' : Counts(line'[i]) => i = k
      BY <1>7, <1>9, <3>1
    <3> QED
      BY <1>1, <2>0, <3>1, <3>2 DEF AnswerInv, Counts, Due
  <2>2. CASE ~(c.own /\ Due(c))
    <3>1. \A i \in DOMAIN line' : Counts(line'[i]) =>
             i \in DOMAIN line /\ line'[i] = line[i]
      BY <1>7, <1>9, <2>2
    <3> QED
      BY <1>1, <1>3, <2>0, <3>1 DEF BusInv, AnswerInv, Counts, Due
  <2> QED
    BY <2>1, <2>2
<1> QED
  BY <1>10, <1>11, <1>12, <1>13, <1>14 DEF FlowInv

\* The initial state satisfies the invariant.
LEMMA InitFlow ==
    Init => BusInv
<1> SUFFICES ASSUME Init PROVE BusInv
  OBVIOUS
<1>1. /\ DOMAIN outbox = {} /\ DOMAIN owed = {} /\ DOMAIN line = {} /\ DOMAIN responseQueue = {}
      /\ Len(outbox) = 0
  BY EmptyFacts DEF Init
<1>2. FlowInv
  <2>1. IdleInv /\ HeldInv
    BY DEF Init, IdleInv, HeldInv
  <2>2. CommandInv
    BY <1>1 DEF CommandInv
  <2>3. FrameInv(line) /\ FrameInv(responseQueue)
    BY <1>1 DEF FrameInv
  <2> QED
    BY <2>1, <2>2, <2>3 DEF FlowInv
<1>3. AckInv /\ AnswerInv
  BY <1>1 DEF Init, AckInv, AnswerInv
<1> QED
  BY <1>2, <1>3, InitBus DEF BusInv

\* Every step keeps it.
LEMMA StepBus ==
    BusInv /\ [Next]_vars => BusInv'
<1> SUFFICES ASSUME BusInv, [Next]_vars PROVE BusInv'
  OBVIOUS
<1>0. BusTypeOK' /\ FlagsOK'
  BY StepBusType, StepFlags DEF BusInv
<1> SUFFICES FlowInv' /\ AckInv' /\ AnswerInv'
  BY <1>0 DEF BusInv
<1>1. ASSUME NEW kind \in {"read", "write"}, NEW g \in Group, Start(kind, g)
      PROVE  FlowInv' /\ AckInv' /\ AnswerInv'
  <2>1. NoneDue /\ Clean(line)
    BY <1>1, RestClean DEF Start
  <2>2. /\ Attempt(kind, g) /\ phase' = kind /\ ask' = g /\ attempt' # 0 /\ awaiting' = TRUE
        /\ UNCHANGED <<bus, owed, line>>
    BY <1>1 DEF Start
  <2> QED
    BY <2>1, <2>2, StepAttempt
<1>2. ASSUME NEW g \in Group, FeedbackAsks(g) PROVE FlowInv' /\ AckInv' /\ AnswerInv'
  BY <1>2, StepAsks
<1>3. CASE Take
  BY <1>3, StepTake
<1>4. CASE TimeoutHeld \/ TimeoutFail
  <2>1. /\ Quiet /\ responseQueue' = responseQueue
        /\ UNCHANGED <<bus, busVars, commands, polls, histVars>>
    BY <1>4 DEF TimeoutHeld, TimeoutFail
  <2>2. PICK r : Finish(r)
    BY <1>4 DEF TimeoutHeld, TimeoutFail
  <2>3. NoneDue /\ Clean(line) /\ Clean(responseQueue)
    BY <2>1, RestClean
  <2>4. \A i \in DOMAIN responseQueue' :
           i + 0 \in DOMAIN responseQueue /\ responseQueue'[i] = responseQueue[i + 0]
    BY <2>1, SeqFacts DEF BusInv, BusTypeOK
  <2>5. Clean(responseQueue')
    BY <2>1, <2>3
  <2> QED
    BY <2>1, <2>2, <2>3, <2>4, <2>5, StepFinish
<1>5. CASE TimeoutRetry
  <2>1. NoneDue /\ Clean(line)
    BY <1>5, RestClean DEF TimeoutRetry
  <2>2. phase \in {"read", "write"} /\ ask \in Group /\ awaiting = TRUE
    BY <1>5 DEF TimeoutRetry, BusInv, BusTypeOK, FlowInv, IdleInv, FlagsOK
  <2>3. attempt' # 0
    BY <1>5 DEF TimeoutRetry, BusInv, BusTypeOK
  <2>4. /\ Attempt(phase, ask) /\ phase' = phase /\ ask' = ask /\ awaiting' = TRUE
        /\ UNCHANGED <<bus, owed, line>>
    BY <1>5, <2>2 DEF TimeoutRetry
  <2> QED
    BY <2>1, <2>2, <2>3, <2>4, StepAttempt
<1>6. CASE Dispatch
  BY <1>6, StepDispatch
<1>7. CASE GatewayForwards
  BY <1>7, StepForwards
<1>8. CASE ModuleAnswers
  BY <1>8, StepAnswers
<1>9. CASE UNCHANGED vars
  BY <1>9 DEF vars, workerVars, listenVars, busVars, histVars, BusInv, FlowInv, IdleInv,
     CommandInv, FrameInv, HeldInv, AckInv, AnswerInv, HeldCounts, Counts, Due
<1> QED
  BY <1>1, <1>2, <1>3, <1>4, <1>5, <1>6, <1>7, <1>8, <1>9 DEF Next

\* In every state at most one acknowledgement and one answer of the exchange
\* going on are under way, and none of an exchange that is over.
THEOREM ExchangeFlow ==
    Spec => []BusInv
<1> QED
  BY InitFlow, StepBus, PTL DEF Spec

\* An end of a write by an answer shows that the module took it.
LEMMA StepTaken ==
    BusInv /\ AckedWriteTaken /\ [Next]_vars => AckedWriteTaken'
<1> SUFFICES ASSUME BusInv, AckedWriteTaken, [Next]_vars PROVE AckedWriteTaken'
  OBVIOUS
<1> USE DEF AckedWriteTaken
<1>1. ASSUME NEW kind \in {"read", "write"}, NEW g \in Group, Start(kind, g)
      PROVE  AckedWriteTaken'
  BY <1>1 DEF Start
<1>2. CASE Take
  <2>1. responseQueue \in Seq(Frame) /\ took' = took
    BY <1>2 DEF BusInv, BusTypeOK, Take, histVars
  <2>2. ASSUME NEW m, m = responseQueue[1], Finish(m), responseQueue # <<>>,
               (phase = "read" /\ m.kind = "state") \/ (phase = "write" /\ m.kind = "done")
        PROVE  AckedWriteTaken'
    <3>1. 1 \in DOMAIN responseQueue
      BY <2>1, <2>2, SeqFacts
    <3>2. m.to = "write" => took
      BY <2>2, <3>1 DEF BusInv, FlowInv, FrameInv, Counts
    <3> QED
      BY <2>1, <2>2, <3>2 DEF Finish
  <2>3. ASSUME Finish(held), held # Nothing, phase = "write" PROVE AckedWriteTaken'
    <3>1. took
      BY <2>3 DEF BusInv, FlowInv, HeldInv, Counts
    <3> QED
      BY <2>1, <3>1
  <2>4. CASE result' = result
    BY <2>1, <2>4
  <2> QED
    BY <1>2, <2>1, <2>2, <2>3, <2>4, TakeCases DEF workerVars
<1>3. CASE TimeoutHeld
  <2>1. held.to = "read"
    BY <1>3 DEF TimeoutHeld, UsableHeld, BusInv, FlowInv, HeldInv
  <2> QED
    BY <1>3, <2>1 DEF TimeoutHeld, Finish
<1>4. CASE TimeoutFail
  BY <1>4 DEF TimeoutFail, Finish
<1>5. CASE TimeoutRetry \/ GatewayForwards \/ (\E g \in Group : FeedbackAsks(g)) \/ Dispatch
  BY <1>5 DEF TimeoutRetry, GatewayForwards, FeedbackAsks, Dispatch, histVars, workerVars
<1>6. CASE ModuleAnswers
  BY <1>6 DEF ModuleAnswers, workerVars
<1>7. CASE UNCHANGED vars
  BY <1>7 DEF vars, workerVars, histVars
<1> QED
  BY <1>1, <1>2, <1>3, <1>4, <1>5, <1>6, <1>7 DEF Next

\* set_output_state (command.py): a write whose exchange ends without error is
\* one the module took, whatever the gateway, the timing and the loss of frames.
THEOREM WriteTaken ==
    Spec => []AckedWriteTaken
<1>1. Init => AckedWriteTaken
  BY DEF Init, AckedWriteTaken
<1> QED
  BY <1>1, StepTaken, ExchangeFlow, PTL DEF Spec

-----------------------------------------------------------------------------
(* Nothing is asked twice without loss. *)

\* On a bus without a Feedback Module every command is ours and its frames count.
LEMMA AllOurs ==
    ASSUME BusInv, bus.polls = 0
    PROVE  /\ \A i \in DOMAIN owed : owed[i].own /\ Due(owed[i])
           /\ \A i \in DOMAIN line : line[i].kind = "ack" \/ Counts(line[i])
           /\ \A i \in DOMAIN responseQueue :
                responseQueue[i].kind = "ack" \/ Counts(responseQueue[i])
           /\ NoneDue => owed = <<>>
           /\ Clean(line) => line = <<>>
           /\ Clean(responseQueue) => responseQueue = <<>>
           /\ held # Nothing => HeldCounts
<1>0. BusTypeOK
  BY DEF BusInv
<1>1. \A i \in DOMAIN owed : owed[i].own /\ Due(owed[i])
  <2>1. \A i \in DOMAIN owed : owed[i].own \in BOOLEAN
    BY <1>0, Elements DEF Command
  <2> QED
    BY <2>1 DEF BusInv, FlowInv, CommandInv, Due
<1>2. \A i \in DOMAIN line : line[i].kind = "ack" \/ Counts(line[i])
  <2>1. \A i \in DOMAIN line : line[i].kind \in {"ack", "done", "state", "echo"}
    BY <1>0, Elements DEF Frame
  <2> QED
    BY <2>1 DEF BusInv, FlowInv, FrameInv, Counts
<1>3. \A i \in DOMAIN responseQueue :
         responseQueue[i].kind = "ack" \/ Counts(responseQueue[i])
  <2>1. \A i \in DOMAIN responseQueue :
           responseQueue[i].kind \in {"ack", "done", "state", "echo"}
    BY <1>0, Elements DEF Frame
  <2> QED
    BY <2>1 DEF BusInv, FlowInv, FrameInv, Counts
<1>4. held # Nothing => HeldCounts
  BY DEF BusInv, FlowInv, HeldInv, HeldCounts, Counts
<1>5. /\ NoneDue => owed = <<>>
      /\ Clean(line) => line = <<>>
      /\ Clean(responseQueue) => responseQueue = <<>>
  BY <1>0, <1>1, <1>2, <1>3, SeqFacts DEF NoneDue, Clean, BusTypeOK
<1> QED
  BY <1>1, <1>2, <1>3, <1>4, <1>5

\* An attempt without Feedback Module: its two frames are all there is.
LEMMA KeptAttempt ==
    ASSUME BusInv, bus.polls = 0, NEW kind \in {"read", "write"}, NEW g \in Group,
           Attempt(kind, g), NoneDue, Clean(line), UNCHANGED <<bus, owed, line>>
    PROVE  Load' = 2 /\ Len(owed') = 0
<1>1. /\ responseQueue' = <<>> /\ Len(responseQueue') = 0
      /\ ackReceived' = FALSE /\ held' = Nothing
  BY EmptyFacts DEF Attempt
<1>2. owed' = <<>> /\ Len(owed') = 0 /\ line' = <<>> /\ Len(line') = 0
  BY AllOurs, EmptyFacts
<1>3. Len(outbox') = 1
  <2>1. PICK o \in bus.orders :
          outbox' = Append(<<>>, [kind |-> kind, group |-> g, own |-> TRUE, ack |-> o])
    BY DEF Attempt, NoneDue
  <2> QED
    BY <2>1
<1> QED
  BY <1>1, <1>2, <1>3 DEF Load, Owing, One

\* Once the bus is quiet and nothing was lost, the exchange has both.
LEMMA QuietLoad ==
    ASSUME BusInv, KeptInv, bus.polls = 0, phase # "idle", Quiet, ~UsableHeld
    PROVE  lost
<1>1. Len(outbox) = 0 /\ owed = <<>> /\ Len(line) = 0 /\ Len(responseQueue) = 0
  BY AllOurs, RestClean, EmptyFacts DEF Quiet
<1>2. ~(ackReceived /\ held # Nothing)
  <2>1. phase = "read" \/ phase = "write"
    BY DEF BusInv, BusTypeOK
  <2> QED
    BY <2>1 DEF KeptInv, UsableHeld
<1>3. Load < 2
  BY <1>1, <1>2 DEF Load, Owing, One
<1> QED
  BY <1>3 DEF KeptInv

\* The numbers are numbers.
LEMMA LoadType ==
    ASSUME BusTypeOK
    PROVE  /\ Len(outbox) \in Nat /\ Len(owed) \in Nat /\ Len(line) \in Nat
           /\ Len(responseQueue) \in Nat
           /\ Owing \in 0 .. 2
           /\ \A b \in BOOLEAN : One(b) \in 0 .. 1
BY SeqFacts DEF BusTypeOK, Owing, One

\* A frame or a command that only moves on changes no number, one that is lost
\* lowers it.
LEMMA LoadMoves ==
    ASSUME BusTypeOK, Owing' \in Int, Len(line') \in Int,
           Len(responseQueue') = Len(responseQueue),
           One(ackReceived') = One(ackReceived), One(held' # Nothing) = One(held # Nothing)
    PROVE  /\ Load \in Int
           /\ (Len(outbox') = Len(outbox) /\ Owing' + Len(line') = Owing + Len(line))
                => Load' = Load
           /\ (Len(outbox') = Len(outbox) - 1 /\ Owing' + Len(line') = Owing + Len(line) + 2)
                => Load' = Load
           /\ (Len(outbox') = Len(outbox) /\ Owing' + Len(line') < Owing + Len(line))
                => Load' \in Int /\ Load' <= Load
           /\ (Len(outbox') = Len(outbox) - 1 /\ Owing' + Len(line') <= Owing + Len(line) + 2)
                => Load' \in Int /\ Load' <= Load
<1>1. /\ Len(outbox) \in Nat /\ Len(line) \in Nat /\ Len(responseQueue) \in Nat
      /\ Owing \in 0 .. 2
  BY LoadType
<1>2. One(ackReceived) \in 0 .. 1 /\ One(held # Nothing) \in 0 .. 1
  BY DEF One
<1>3. Load \in Int
  BY <1>1, <1>2 DEF Load
<1>4. ASSUME Len(outbox') = Len(outbox), Owing' + Len(line') = Owing + Len(line)
      PROVE  Load' = Load
  BY SMTT(30), <1>1, <1>2, <1>4 DEF Load
<1>5. ASSUME Len(outbox') = Len(outbox) - 1, Owing' + Len(line') = Owing + Len(line) + 2
      PROVE  Load' = Load
  BY SMTT(30), <1>1, <1>2, <1>5 DEF Load
<1>6. ASSUME Len(outbox') = Len(outbox), Owing' + Len(line') < Owing + Len(line)
      PROVE  Load' \in Int /\ Load' <= Load
  BY SMTT(30), <1>1, <1>2, <1>6 DEF Load
<1>7. ASSUME Len(outbox') = Len(outbox) - 1, Owing' + Len(line') <= Owing + Len(line) + 2
      PROVE  Load' \in Int /\ Load' <= Load
  BY SMTT(30), <1>1, <1>2, <1>7 DEF Load
<1> QED
  BY <1>3, <1>4, <1>5, <1>6, <1>7

\* Every step keeps the two frames of the exchange or loses one.
LEMMA StepKept ==
    ASSUME QueueMax >= 2
    PROVE  BusInv /\ KeptInv /\ [Next]_vars => KeptInv'
<1> SUFFICES ASSUME BusInv, KeptInv, [Next]_vars, bus'.polls = 0 PROVE KeptInv'
  BY DEF KeptInv
<1>0. BusTypeOK /\ FlagsOK
  BY DEF BusInv
<1>a. bus' = bus
  BY DEF Next, vars, Start, FeedbackAsks, Take, TimeoutHeld, TimeoutRetry, TimeoutFail,
     Dispatch, GatewayForwards, ModuleAnswers
<1>b. bus.polls = 0
  BY <1>a
<1>c. /\ phase = "read" => lastQueryGroup = ask
      /\ Len(owed) <= 1
      /\ Load <= 2
      /\ (phase # "idle" /\ ~lost) => Load = 2 /\ attempt = 1
      /\ result = Failed => lost
      /\ ~(phase = "write" /\ ackReceived /\ held # Nothing)
  BY <1>b DEF KeptInv
<1>d. /\ Len(outbox) \in Nat /\ Len(owed) \in Nat /\ Len(line) \in Nat
      /\ Len(responseQueue) \in Nat /\ Owing \in 0 .. 2
  BY <1>0, LoadType
<1>e. One(ackReceived) \in 0 .. 1 /\ One(held # Nothing) \in 0 .. 1
  BY DEF One
<1>f. \A x \in Frame \cup {Nothing} : x # Failed
  BY BusAssumption
<1>1. ASSUME NEW kind \in {"read", "write"}, NEW g \in Group, Start(kind, g) PROVE KeptInv'
  <2>1. NoneDue /\ Clean(line)
    BY <1>1, RestClean DEF Start
  <2>2. Load' = 2 /\ Len(owed') = 0
    BY <1>1, <1>b, <2>1, KeptAttempt DEF Start
  <2>3. /\ phase' = kind /\ ask' = g /\ attempt' = 1 /\ ackReceived' = FALSE
        /\ result' = Nothing
        /\ kind = "read" => lastQueryGroup' = g
    BY <1>1 DEF Start, Attempt, Announce
  <2> QED
    BY <2>2, <2>3, BusAssumption DEF KeptInv
<1>2. ASSUME NEW g \in Group, FeedbackAsks(g) PROVE KeptInv'
  BY <1>2, <1>b, <1>0 DEF FeedbackAsks, BusTypeOK
<1>3. CASE Take
  <2>1. /\ responseQueue # <<>> /\ phase # "idle" /\ responseQueue' = Tail(responseQueue)
        /\ UNCHANGED <<outbox, owed, line, lost>>
    BY <1>0, <1>3, TakeCases DEF BusTypeOK, busVars, histVars
  <2>2. Len(responseQueue') = Len(responseQueue) - 1 /\ 1 \in DOMAIN responseQueue
    BY <1>0, <2>1, TailFacts, SeqFacts DEF BusTypeOK
  <2>3. Owing' = Owing
    BY <2>1 DEF Owing
  <2> DEFINE m == responseQueue[1]
  <2>4. /\ m.kind = "ack" \/ Counts(m)
        /\ m.kind = "ack" => m.to = phase /\ m.group = ask
        /\ Counts(m) => m.to = phase
        /\ m.kind = "state" => m.to = "read"
        /\ m.kind = "done" => m.to = "write"
    BY <1>b, <2>2, AllOurs DEF BusInv, FlowInv, FrameInv
  <2>5. m.kind = "ack" => ~ackReceived
    BY <2>2 DEF BusInv, AckInv
  <2>6. Counts(m) => held = Nothing
    BY <1>b, <2>2, AllOurs DEF BusInv, AnswerInv
  <2>7. m \in Frame
    BY <1>0, <2>2, Elements
  <2> HIDE DEF m
  <2>8. ASSUME NEW r \in Frame \cup {Nothing}, Finish(r) PROVE KeptInv'
    <3>1. /\ phase' = "idle" /\ ackReceived' = FALSE /\ held' = Nothing /\ result' = r
      BY <2>8 DEF Finish
    <3>2. One(ackReceived') = 0 /\ One(held' # Nothing) = 0
      BY <3>1 DEF One
    <3>3. Load' <= 2
      BY <1>c, <1>d, <1>e, <2>1, <2>2, <2>3, <3>2 DEF Load
    <3> QED
      BY <1>c, <1>f, <2>1, <3>1, <3>3 DEF KeptInv
  <2>9. ASSUME ackReceived' = TRUE, m.kind = "ack", phase = "write" => held = Nothing,
               UNCHANGED <<phase, ask, attempt, held, result, lastQueryGroup>>
        PROVE  KeptInv'
    <3>1. One(ackReceived') = 1 /\ One(ackReceived) = 0 /\ One(held' # Nothing) = One(held # Nothing)
      BY <1>0, <2>5, <2>9 DEF One, FlagsOK
    <3>2. Load' = Load
      BY <1>d, <1>e, <2>1, <2>2, <2>3, <3>1 DEF Load
    <3> QED
      BY <1>c, <2>1, <2>9, <3>2 DEF KeptInv
  <2>10. ASSUME held' = m, ~ackReceived, Counts(m),
               UNCHANGED <<phase, ask, attempt, ackReceived, result, lastQueryGroup>>
        PROVE  KeptInv'
    <3>1. /\ One(held' # Nothing) = 1 /\ One(held # Nothing) = 0
          /\ One(ackReceived') = One(ackReceived)
      BY <2>6, <2>7, <2>10, BusAssumption DEF One
    <3>2. Load' = Load
      BY <1>d, <1>e, <2>1, <2>2, <2>3, <3>1 DEF Load
    <3> QED
      BY <1>c, <2>1, <2>10, <3>2 DEF KeptInv
  <2>11. ~(phase = "read" /\ PushedForOtherGroup)
    BY <1>c DEF PushedForOtherGroup
  <2>12. ~(/\ ~(m.kind = "ack" /\ m.to = phase /\ m.group = ask)
           /\ phase = "read" => m.kind # "state"
           /\ phase = "write" => m.kind # "done")
    BY <2>1, <2>4 DEF Counts
  <2>13. (m.kind = "state" \/ m.kind = "done") => Counts(m)
    BY <1>b DEF Counts
  <2>14. responseQueue \in Seq(Frame) /\ held \in Frame \cup {Nothing}
    BY <1>0 DEF BusTypeOK
  <2> QED
    BY <1>3, <2>7, <2>8, <2>9, <2>10, <2>11, <2>12, <2>13, <2>14, TakeCases DEF m, listenVars
<1>4. CASE TimeoutHeld \/ TimeoutFail
  <2>1. PICK r \in Frame \cup {Nothing, Failed} : Finish(r) /\ (r = Failed => TimeoutFail)
    BY <1>4, <1>0, <1>f DEF TimeoutHeld, TimeoutFail, UsableHeld, BusTypeOK
  <2>2. TimeoutFail => lost
    BY <1>b, QuietLoad DEF TimeoutFail
  <2>3. UNCHANGED <<outbox, owed, line, responseQueue, lost>>
    BY <1>4 DEF TimeoutHeld, TimeoutFail, busVars, histVars
  <2>4. /\ phase' = "idle" /\ ackReceived' = FALSE /\ held' = Nothing /\ result' = r
    BY <2>1 DEF Finish
  <2>5. One(ackReceived') = 0 /\ One(held' # Nothing) = 0 /\ Owing' = Owing
    BY <2>3, <2>4 DEF One, Owing
  <2>6. Load' <= 2
    BY <1>c, <1>d, <1>e, <2>3, <2>5 DEF Load
  <2> QED
    BY <1>c, <2>1, <2>2, <2>3, <2>4, <2>6 DEF KeptInv
<1>5. CASE TimeoutRetry
  <2>1. NoneDue /\ Clean(line)
    BY <1>5, RestClean DEF TimeoutRetry
  <2>2. phase \in {"read", "write"} /\ ask \in Group
    BY <1>0, <1>5 DEF TimeoutRetry, BusTypeOK
  <2>3. Load' = 2 /\ Len(owed') = 0
    BY <1>5, <1>b, <2>1, <2>2, KeptAttempt DEF TimeoutRetry
  <2>4. lost
    BY <1>5, <1>b, QuietLoad DEF TimeoutRetry
  <2>5. /\ UNCHANGED <<phase, ask, result, lost>> /\ ackReceived' = FALSE
        /\ phase = "read" => lastQueryGroup' = ask
    BY <1>5 DEF TimeoutRetry, Attempt, Announce, histVars
  <2> QED
    BY <2>3, <2>4, <2>5 DEF KeptInv
<1>6. CASE Dispatch
  <2>1. /\ line # <<>> /\ line' = Tail(line)
        /\ UNCHANGED <<phase, ask, attempt, ackReceived, held, result, outbox, owed, lost>>
    BY <1>0, <1>6, DispatchCases DEF BusTypeOK, workerVars, histVars
  <2>2. PICK m \in Frame :
          /\ m = line[1]
          /\ \/ m.kind = "ack" /\ HearAck(m)
             \/ m.kind = "echo" /\ HearEcho(m)
             \/ m.kind = "state" /\ HearState(m)
             \/ m.kind = "done" /\ HearDone(m)
          /\ Enqueue(m) \/ (responseQueue' = responseQueue /\ (awaiting => m.kind = "echo"))
    BY <1>0, <1>6, DispatchCases DEF BusTypeOK
  <2>3. Len(line) \in Nat \ {0} /\ Len(line') = Len(line) - 1 /\ 1 \in DOMAIN line
    BY <1>0, <2>1, TailFacts, SeqFacts DEF BusTypeOK
  <2>4. m.kind = "ack" \/ m.kind = "state" \/ m.kind = "done"
    BY <1>b, <2>2, <2>3, AllOurs DEF Counts
  <2>5. phase # "idle" /\ awaiting
    <3>1. phase # "idle"
      BY <1>b, <2>1, RestClean, AllOurs
    <3> QED
      BY <3>1, <1>0 DEF BusInv, FlowInv, IdleInv, FlagsOK
  <2>6. Enqueue(m)
    BY <2>2, <2>4, <2>5
  <2>7. Len(responseQueue) < QueueMax
    BY <1>c, <1>d, <1>e, <2>3, BusAssumption DEF Load
  <2>8. Len(responseQueue') = Len(responseQueue) + 1
    <3>1. responseQueue' = Append(responseQueue, m)
      BY <2>6, <2>7 DEF Enqueue
    <3> QED
      BY <1>0, <3>1, AppendFacts DEF BusTypeOK
  <2>9. lastQueryGroup' = lastQueryGroup
    BY <1>b, <2>2, <2>4 DEF HearAck, HearState, HearDone, HasFeedbackModule, listenVars
  <2>10. Owing' = Owing /\ One(ackReceived') = One(ackReceived)
         /\ One(held' # Nothing) = One(held # Nothing)
    BY <2>1 DEF Owing
  <2>11. Load' = Load
    BY <1>d, <1>e, <2>1, <2>3, <2>8, <2>10 DEF Load
  <2> QED
    BY <1>c, <2>1, <2>9, <2>11 DEF KeptInv
<1>7. CASE GatewayForwards
  <2>1. /\ outbox # <<>> /\ outbox' = Tail(outbox)
        /\ UNCHANGED <<phase, ask, attempt, ackReceived, held, result, lastQueryGroup,
                       responseQueue>>
    BY <1>0, <1>7, ForwardCases DEF BusTypeOK, workerVars, listenVars
  <2>2. PICK c \in Command :
          /\ c = outbox[1]
          /\ \/ owed' = Append(owed, c) /\ lost' = lost
             \/ owed' = owed /\ lost' = TRUE /\ bus.lossy
          /\ \/ line' = Append(line, AckOf(c)) /\ c.ack = "first"
             \/ line' = line /\ (c.ack # "first" \/ owed' = owed)
    BY <1>0, <1>7, ForwardCases DEF BusTypeOK
  <2>0. Len(responseQueue') = Len(responseQueue)
    BY <2>1
  <2>3. Len(outbox') = Len(outbox) - 1
    BY <1>0, <2>1, TailFacts DEF BusTypeOK
  <2>b. owed = <<>> /\ Owing = 0
    <3>1. NoneDue \/ \A i \in DOMAIN owed : owed[i].own => ~Due(owed[i])
      BY <2>1 DEF BusInv, AnswerInv
    <3>2. DOMAIN owed = {}
      BY <1>b, <2>1, AllOurs DEF BusInv, AnswerInv
    <3> QED
      BY <1>0, <3>2, SeqFacts DEF BusTypeOK, Owing
  <2>4. Owing = 0
    BY <2>b
  <2>5. AckOf(c) \in Frame
    BY SentFrames
  <2>6. Len(line') = IF c.ack = "first" /\ line' # line THEN Len(line) + 1 ELSE Len(line)
    <3>1. CASE line' = line
      BY <3>1
    <3>2. CASE line' = Append(line, AckOf(c)) /\ c.ack = "first"
      <4>1. Len(line') = Len(line) + 1
        BY <1>0, <2>5, <3>2, AppendFacts DEF BusTypeOK
      <4> QED
        BY <1>d, <3>2, <4>1
    <3> QED
      BY <2>2, <3>1, <3>2
  <2>7. CASE owed' = Append(owed, c) /\ lost' = lost
    <3>1. owed' # <<>> /\ owed'[1] = c /\ Len(owed') = 1
      BY <2>b, <2>7
    <3>2. Owing' + Len(line') = Len(line) + 2
      <4>1. CASE c.ack = "first"
        <5>1. line' = Append(line, AckOf(c))
          BY <2>2, <2>7, <3>1, <2>b, <4>1
        <5>2. Len(line') = Len(line) + 1
          BY <1>0, <2>5, <5>1, AppendFacts DEF BusTypeOK
        <5>3. Owing' = 1
          BY <3>1, <4>1 DEF Owing
        <5> QED
          BY <1>d, <5>2, <5>3
      <4>2. CASE c.ack # "first"
        <5>1. c.ack = "last"
          BY <4>2 DEF Command
        <5>2. Owing' = 2
          BY <3>1, <5>1 DEF Owing
        <5> QED
          BY <1>d, <2>6, <4>2, <5>2
      <4> QED
        BY <4>1, <4>2
    <3>3. One(ackReceived') = One(ackReceived) /\ One(held' # Nothing) = One(held # Nothing)
      BY <2>1
    <3>4. Owing' \in Int /\ Len(line') \in Int
      BY <1>d, <2>6, <3>1 DEF Owing
    <3>5. Load' = Load
      <4>1. Owing' + Len(line') = Owing + Len(line) + 2
        BY <1>d, <2>4, <3>2
      <4> QED
        BY <1>0, <2>0, <2>3, <3>3, <3>4, <4>1, LoadMoves
    <3> QED
      BY <1>c, <2>1, <2>7, <3>1, <3>5 DEF KeptInv
  <2>8. CASE owed' = owed /\ lost' = TRUE
    <3>1. Owing' = 0 /\ Len(owed') = 0
      BY <2>b, <2>8, EmptyFacts DEF Owing
    <3>2. One(ackReceived') = One(ackReceived) /\ One(held' # Nothing) = One(held # Nothing)
      BY <2>1
    <3>3. Owing' + Len(line') <= Owing + Len(line) + 2 /\ Owing' \in Int /\ Len(line') \in Int
      <4>1. Len(line') = Len(line) \/ Len(line') = Len(line) + 1
        BY <2>6
      <4> QED
        BY <1>d, <2>4, <3>1, <4>1
    <3>4. Load' <= Load /\ Load \in Int /\ Load' \in Int
      BY <1>0, <2>0, <2>3, <3>2, <3>3, LoadMoves
    <3> QED
      BY <1>c, <2>1, <2>8, <3>1, <3>4 DEF KeptInv
  <2> QED
    BY <2>2, <2>7, <2>8
<1>8. CASE ModuleAnswers
  <2>1. /\ owed # <<>> /\ owed' = Tail(owed)
        /\ UNCHANGED <<phase, ask, attempt, ackReceived, held, result, lastQueryGroup,
                       responseQueue, outbox>>
    BY <1>0, <1>8, AnswerCases DEF BusTypeOK, workerVars, listenVars
  <2>2. PICK c \in Command, t \in Seq(Frame) :
          /\ c = owed[1]
          /\ \/ t = Append(line, AnswerTo(c)) /\ lost' = lost
             \/ t = line /\ lost' = TRUE /\ bus.lossy
          /\ line' = IF c.own /\ c.ack = "last" THEN Append(t, AckOf(c)) ELSE t
    BY <1>0, <1>8, AnswerCases DEF BusTypeOK
  <2>0. Len(responseQueue') = Len(responseQueue) /\ Len(outbox') = Len(outbox)
    BY <2>1
  <2>b. Len(owed) = 1 /\ Len(owed') = 0 /\ owed' = <<>> /\ 1 \in DOMAIN owed
    <3>1. Len(owed) \in Nat \ {0} /\ Len(owed') = Len(owed) - 1 /\ owed' \in Seq(Command)
      BY <1>0, <2>1, TailFacts DEF BusTypeOK
    <3> QED
      BY <1>0, <1>c, <2>1, <3>1, SeqFacts DEF BusTypeOK
  <2>3. Len(owed') = 0 /\ Len(owed') <= 1 /\ 1 \in DOMAIN owed
    BY <2>b
  <2>4. c.own
    BY <1>b, <2>2, <2>3, AllOurs
  <2>5. AckOf(c) \in Frame /\ AnswerTo(c) \in Frame
    BY SentFrames
  <2>6. Owing = (IF c.ack = "last" THEN 2 ELSE 1) /\ Owing' = 0
    BY <2>1, <2>2, <2>b DEF Owing
  <2>7. Len(line') = Len(t) + (IF c.ack = "last" THEN 1 ELSE 0) /\ Len(t) \in Nat
    BY <2>2, <2>4, <2>5, AppendFacts
  <2>8. One(ackReceived') = One(ackReceived) /\ One(held' # Nothing) = One(held # Nothing)
    BY <2>1
  <2>9. CASE t = Append(line, AnswerTo(c)) /\ lost' = lost
    <3>1. Len(t) = Len(line) + 1
      BY <1>0, <2>5, <2>9, AppendFacts DEF BusTypeOK
    <3>2. Owing' + Len(line') = Owing + Len(line) /\ Owing' \in Int /\ Len(line') \in Int
      BY <1>d, <2>6, <2>7, <3>1
    <3>3. Load' = Load
      BY <1>0, <2>0, <2>8, <3>2, LoadMoves
    <3> QED
      BY <1>c, <2>1, <2>3, <2>9, <3>3 DEF KeptInv
  <2>10. CASE t = line /\ lost' = TRUE
    <3>1. Owing' + Len(line') < Owing + Len(line) /\ Owing' \in Int /\ Len(line') \in Int
      BY <1>d, <2>6, <2>7, <2>10
    <3>a. Load' <= Load /\ Load \in Int /\ Load' \in Int
      BY <1>0, <2>0, <2>8, <3>1, LoadMoves
    <3>2. Load' <= 2
      BY <1>c, <3>a
    <3>3. lost' /\ UNCHANGED <<phase, ask, ackReceived, held, lastQueryGroup>> /\ Len(owed') <= 1
      BY <2>1, <2>3, <2>10
    <3> QED
      BY <1>c, <3>2, <3>3 DEF KeptInv
  <2> QED
    BY <2>2, <2>9, <2>10
<1>9. CASE UNCHANGED vars
  BY <1>9, <1>c DEF vars, workerVars, listenVars, busVars, histVars, KeptInv, Load, Owing, One
<1> QED
  BY <1>1, <1>2, <1>3, <1>4, <1>5, <1>6, <1>7, <1>8, <1>9 DEF Next

\* _wait_for_ack_and_answer_state (command.py), "still works": where no Feedback
\* Module asks, no exchange is repeated or given up unless a frame got lost, in
\* whichever order the gateway sends acknowledgement and answer.  The response
\* queue must hold the two.
THEOREM RetriesAfterLoss ==
    ASSUME QueueMax >= 2
    PROVE  Spec => []RetryMeansLoss
<1>1. Init => KeptInv
  BY EmptyFacts, BusAssumption DEF Init, KeptInv, Load, Owing, One
<1>2. BusInv /\ KeptInv => RetryMeansLoss
  <2> SUFFICES ASSUME BusInv, KeptInv, bus.polls = 0, ~lost PROVE result # Failed /\ ~(attempt > 1)
    BY DEF RetryMeansLoss
  <2>1. phase = "idle" => attempt = 0
    BY DEF BusInv, FlowInv, IdleInv
  <2> QED
    BY <2>1 DEF KeptInv
<1> QED
  BY <1>1, <1>2, StepKept, ExchangeFlow, PTL DEF Spec

-----------------------------------------------------------------------------
(* A PC-Link keeps the order. *)

\* A PC-Link acknowledges a command when it puts it on the bus, and only puts it
\* on a quiet bus.
PcLink == bus.waits /\ bus.orders = {"first"}

OwnState(m) == m.kind = "state" /\ m.own

\* There our answer is in one place at most, and it is the exchange's.
OwnInv ==
    PcLink =>
        /\ \A i \in DOMAIN owed : owed[i].own =>
              /\ i = 1 /\ owed[i].kind = phase /\ owed[i].group = ask
              /\ outbox = <<>>
              /\ \A j \in DOMAIN line : ~OwnState(line[j])
              /\ \A j \in DOMAIN responseQueue : ~OwnState(responseQueue[j])
        /\ \A i \in DOMAIN line : OwnState(line[i]) =>
              /\ phase = "read" /\ line[i].group = ask
              /\ outbox = <<>>
              /\ \A j \in DOMAIN line : OwnState(line[j]) => j = i
              /\ \A j \in DOMAIN responseQueue : ~OwnState(responseQueue[j])
        /\ \A i \in DOMAIN responseQueue : OwnState(responseQueue[i]) =>
              /\ phase = "read" /\ responseQueue[i].group = ask
              /\ outbox = <<>>
              /\ \A j \in DOMAIN responseQueue : OwnState(responseQueue[j]) => j = i

\* Our acknowledgement reaches the listener before our answer, and no other
\* state in between; until the answer the listener waits for it.
HeardInv ==
    (PcLink /\ phase = "read") =>
        /\ outbox # <<>> => awaitedQuery = ask /\ ~awaitedAckSeen
        /\ \A i \in DOMAIN owed : owed[i].own =>
              /\ awaitedQuery = ask
              /\ awaitedAckSeen \/ \E j \in DOMAIN line : line[j].kind = "ack"
              /\ awaitedAckSeen => \A k \in DOMAIN line : line[k].kind # "state"
              /\ \A j, k \in DOMAIN line :
                    line[j].kind = "ack" /\ j < k => line[k].kind # "state"
        /\ \A i \in DOMAIN line : OwnState(line[i]) =>
              /\ awaitedQuery = ask
              /\ awaitedAckSeen \/ \E j \in DOMAIN line : line[j].kind = "ack"
              /\ awaitedAckSeen => \A k \in DOMAIN line : k < i => line[k].kind # "state"
              /\ \A j \in DOMAIN line : line[j].kind = "ack" =>
                    /\ j < i
                    /\ \A k \in DOMAIN line : j < k /\ k < i => line[k].kind # "state"

\* It reaches the worker so, too.
TakenInv ==
    (PcLink /\ phase = "read") =>
        /\ ackReceived \/ (\E j \in DOMAIN responseQueue : responseQueue[j].kind = "ack") =>
              awaitedAckSeen
        /\ ((\E i \in DOMAIN owed : owed[i].own) \/ (\E i \in DOMAIN line : OwnState(line[i]))) =>
              /\ ackReceived =>
                    \A k \in DOMAIN responseQueue : responseQueue[k].kind # "state"
              /\ \A j, k \in DOMAIN responseQueue :
                    responseQueue[j].kind = "ack" /\ j < k => responseQueue[k].kind # "state"
        /\ \A i \in DOMAIN responseQueue : OwnState(responseQueue[i]) =>
              /\ \A j \in DOMAIN line : line[j].kind # "ack"
              /\ ackReceived =>
                    \A k \in DOMAIN responseQueue : k < i => responseQueue[k].kind # "state"
              /\ \A j \in DOMAIN responseQueue : responseQueue[j].kind = "ack" =>
                    /\ j < i
                    /\ \A k \in DOMAIN responseQueue :
                          j < k /\ k < i => responseQueue[k].kind # "state"

OrderInv == OwnInv /\ HeardInv /\ TakenInv
\* The queue has a place for the next message.
RoomInQueue == Len(responseQueue) < QueueMax

\* Without loss our answer is on its way as long as the worker waits for it, and
\* our acknowledgement on its way or received.
AnswerOnWay ==
    \/ outbox # <<>>
    \/ \E i \in DOMAIN owed : owed[i].own
    \/ \E i \in DOMAIN line : OwnState(line[i])
    \/ \E i \in DOMAIN responseQueue : OwnState(responseQueue[i])

AckOnWay ==
    \/ outbox # <<>> \/ ackReceived
    \/ \E j \in DOMAIN line : line[j].kind = "ack"
    \/ \E j \in DOMAIN responseQueue : responseQueue[j].kind = "ack"

PendingInv == (PcLink /\ ~bus.lossy /\ phase = "read") => AnswerOnWay /\ AckOnWay


\* How the listener's step moves the frames.
LEMMA DispatchMoves ==
    ASSUME BusInv, Dispatch
    PROVE  /\ UNCHANGED <<bus, phase, ask, ackReceived, result, awaiting, outbox, owed>>
           /\ \A i \in DOMAIN line' : /\ i \in Nat /\ i >= 1 /\ i + 1 # 1
                                     /\ i + 1 \in DOMAIN line /\ line'[i] = line[i + 1]
           /\ \A i \in DOMAIN line : i = 1 \/ (i - 1 \in DOMAIN line' /\ line'[i - 1] = line[i])
           /\ \A i \in DOMAIN line : i \in Nat /\ i >= 1
           /\ \E m \in Frame, d \in {0, 1}, n \in Nat :
                /\ 1 \in DOMAIN line /\ m = line[1]
                /\ \/ m.kind = "ack" /\ HearAck(m)
                   \/ m.kind = "echo" /\ HearEcho(m)
                   \/ m.kind = "state" /\ HearState(m)
                   \/ m.kind = "done" /\ HearDone(m)
                /\ \A i \in DOMAIN responseQueue' :
                      /\ i \in Nat
                      /\ \/ i = n /\ responseQueue'[i] = m
                         \/ /\ i < n /\ i + d \in DOMAIN responseQueue
                            /\ responseQueue'[i] = responseQueue[i + d]
                /\ (RoomInQueue /\ awaiting /\ m.kind # "echo") =>
                      n \in DOMAIN responseQueue' /\ responseQueue'[n] = m
                /\ RoomInQueue =>
                      \A i \in DOMAIN responseQueue :
                         i \in DOMAIN responseQueue' /\ responseQueue'[i] = responseQueue[i]
<1>0. BusTypeOK
  BY DEF BusInv
<1>1. /\ line # <<>> /\ line' = Tail(line)
      /\ UNCHANGED <<bus, phase, ask, ackReceived, result, awaiting, outbox, owed>>
  BY <1>0, DispatchCases DEF BusTypeOK, workerVars
<1>2. /\ 1 \in DOMAIN line
      /\ \A i \in DOMAIN line' : /\ i \in Nat /\ i >= 1 /\ i + 1 # 1
                                /\ i + 1 \in DOMAIN line /\ line'[i] = line[i + 1]
      /\ \A i \in DOMAIN line : i \in Nat /\ i >= 1
      /\ \A i \in DOMAIN line : i = 1 \/ (i - 1 \in DOMAIN line' /\ line'[i - 1] = line[i])
  <2>1. /\ Len(line) \in Nat \ {0} /\ DOMAIN line = 1 .. Len(line)
        /\ DOMAIN line' = 1 .. Len(line) - 1
        /\ \A i \in DOMAIN line' : i + 1 \in DOMAIN line /\ line'[i] = line[i + 1]
    BY <1>0, <1>1, TailFacts DEF BusTypeOK
  <2>2. ASSUME NEW i \in DOMAIN line, i # 1
        PROVE  i - 1 \in DOMAIN line' /\ line'[i - 1] = line[i]
    <3>1. i - 1 \in DOMAIN line' /\ (i - 1) + 1 = i
      BY <2>1, <2>2
    <3> QED
      BY <2>1, <3>1
  <2> QED
    BY <2>1, <2>2
<1>3. PICK m \in Frame :
        /\ m = line[1]
        /\ \/ m.kind = "ack" /\ HearAck(m)
           \/ m.kind = "echo" /\ HearEcho(m)
           \/ m.kind = "state" /\ HearState(m)
           \/ m.kind = "done" /\ HearDone(m)
        /\ \/ Enqueue(m) /\ m.kind # "echo"
           \/ responseQueue' = responseQueue
              /\ (awaiting => m.kind = "echo")
  BY <1>0, DispatchCases DEF BusTypeOK
<1>4. /\ Len(responseQueue) \in Nat /\ DOMAIN responseQueue = 1 .. Len(responseQueue)
  BY <1>0, SeqFacts DEF BusTypeOK
<1>5. ASSUME responseQueue' = responseQueue, awaiting => m.kind = "echo"
      PROVE  \E d \in {0, 1}, n \in Nat :
               /\ \A i \in DOMAIN responseQueue' :
                     /\ i \in Nat
                     /\ \/ i = n /\ responseQueue'[i] = m
                        \/ /\ i < n /\ i + d \in DOMAIN responseQueue
                           /\ responseQueue'[i] = responseQueue[i + d]
               /\ (RoomInQueue /\ awaiting /\ m.kind # "echo") =>
                     n \in DOMAIN responseQueue' /\ responseQueue'[n] = m
               /\ RoomInQueue =>
                     \A i \in DOMAIN responseQueue :
                        i \in DOMAIN responseQueue' /\ responseQueue'[i] = responseQueue[i]
  <2> DEFINE n == Len(responseQueue) + 1
             d == 0
  <2>1. /\ n \in Nat
        /\ \A i \in DOMAIN responseQueue' :
              /\ i \in Nat
              /\ i < n /\ i + d \in DOMAIN responseQueue
              /\ responseQueue'[i] = responseQueue[i + d]
    BY <1>4, <1>5
  <2>2. RoomInQueue => \A i \in DOMAIN responseQueue :
           i \in DOMAIN responseQueue' /\ responseQueue'[i] = responseQueue[i]
    BY <1>5
  <2> HIDE DEF n
  <2> QED
    BY <1>5, <2>1, <2>2
<1>6. ASSUME Enqueue(m)
      PROVE  \E d \in {0, 1}, n \in Nat :
               /\ \A i \in DOMAIN responseQueue' :
                     /\ i \in Nat
                     /\ \/ i = n /\ responseQueue'[i] = m
                        \/ /\ i < n /\ i + d \in DOMAIN responseQueue
                           /\ responseQueue'[i] = responseQueue[i + d]
               /\ (RoomInQueue /\ awaiting /\ m.kind # "echo") =>
                     n \in DOMAIN responseQueue' /\ responseQueue'[n] = m
               /\ RoomInQueue =>
                     \A i \in DOMAIN responseQueue :
                        i \in DOMAIN responseQueue' /\ responseQueue'[i] = responseQueue[i]
  <2>1. PICK d \in {0, 1} :
          /\ Len(responseQueue') = Len(responseQueue) + 1 - d
          /\ d = 1 => Len(responseQueue) >= QueueMax
          /\ responseQueue'[Len(responseQueue')] = m
          /\ \A i \in DOMAIN responseQueue' : i # Len(responseQueue') =>
                i + d \in DOMAIN responseQueue /\ responseQueue'[i] = responseQueue[i + d]
    BY <1>0, <1>6, EnqueueFacts DEF BusTypeOK
  <2>2. responseQueue' \in Seq(Frame)
    BY <1>0, <1>6, EnqueueFacts DEF BusTypeOK
  <2> DEFINE n == Len(responseQueue')
  <2>3. n \in Nat /\ DOMAIN responseQueue' = 1 .. n
    BY <2>2, SeqFacts
  <2>4. /\ n = Len(responseQueue) + 1 - d
        /\ responseQueue'[n] = m
        /\ \A i \in DOMAIN responseQueue' : i # n =>
                i + d \in DOMAIN responseQueue /\ responseQueue'[i] = responseQueue[i + d]
    BY <2>1
  <2> HIDE DEF n
  <2>5. \A i \in DOMAIN responseQueue' :
           /\ i \in Nat
           /\ \/ i = n /\ responseQueue'[i] = m
              \/ /\ i < n /\ i + d \in DOMAIN responseQueue
                 /\ responseQueue'[i] = responseQueue[i + d]
    BY <2>3, <2>4
  <2>6. RoomInQueue => n \in DOMAIN responseQueue'
    BY <1>4, <2>1, <2>3, <2>4, BusAssumption DEF RoomInQueue
  <2>7. RoomInQueue => \A i \in DOMAIN responseQueue :
           i \in DOMAIN responseQueue' /\ responseQueue'[i] = responseQueue[i]
    <3> SUFFICES ASSUME RoomInQueue, NEW i \in DOMAIN responseQueue
                 PROVE  i \in DOMAIN responseQueue' /\ responseQueue'[i] = responseQueue[i]
      OBVIOUS
    <3>1. d = 0
      BY <1>4, <2>1, BusAssumption DEF RoomInQueue
    <3>2. i \in DOMAIN responseQueue' /\ i # n /\ i + d = i
      BY <1>4, <2>3, <2>4, <3>1
    <3> QED
      BY <2>4, <3>2
  <2>8. d \in {0, 1} /\ n \in Nat
    BY <2>3
  <2> QED
    BY <2>4, <2>5, <2>6, <2>7, <2>8
<1>7. PICK d \in {0, 1}, n \in Nat :
        /\ \A i \in DOMAIN responseQueue' :
              /\ i \in Nat
              /\ \/ i = n /\ responseQueue'[i] = m
                 \/ /\ i < n /\ i + d \in DOMAIN responseQueue
                    /\ responseQueue'[i] = responseQueue[i + d]
        /\ (RoomInQueue /\ awaiting /\ m.kind # "echo") =>
              n \in DOMAIN responseQueue' /\ responseQueue'[n] = m
        /\ RoomInQueue =>
              \A i \in DOMAIN responseQueue :
                 i \in DOMAIN responseQueue' /\ responseQueue'[i] = responseQueue[i]
  BY <1>3, <1>5, <1>6
<1>8. \E M \in Frame, D \in {0, 1}, N \in Nat :
        /\ 1 \in DOMAIN line /\ M = line[1]
        /\ \/ M.kind = "ack" /\ HearAck(M)
           \/ M.kind = "echo" /\ HearEcho(M)
           \/ M.kind = "state" /\ HearState(M)
           \/ M.kind = "done" /\ HearDone(M)
        /\ \A i \in DOMAIN responseQueue' :
              /\ i \in Nat
              /\ \/ i = N /\ responseQueue'[i] = M
                 \/ /\ i < N /\ i + D \in DOMAIN responseQueue
                    /\ responseQueue'[i] = responseQueue[i + D]
        /\ (RoomInQueue /\ awaiting /\ M.kind # "echo") =>
              N \in DOMAIN responseQueue' /\ responseQueue'[N] = M
        /\ RoomInQueue =>
              \A i \in DOMAIN responseQueue :
                 i \in DOMAIN responseQueue' /\ responseQueue'[i] = responseQueue[i]
  <2> WITNESS m \in Frame, d \in {0, 1}, n \in Nat
  <2> QED
    BY <1>2, <1>3, <1>7
<1> QED
  BY <1>1, <1>2, <1>8

\* An exchange that ends on such a bus has had its answer.
LEMMA NoOwnLeft ==
    ASSUME BusInv, OrderInv, PcLink,
           \/ phase # "read"
           \/ Quiet
           \/ /\ ackReceived /\ 1 \in DOMAIN responseQueue
              /\ responseQueue[1].kind = "state"
    PROVE  /\ phase # "write" => \A i \in DOMAIN owed : ~owed[i].own
           /\ \A i \in DOMAIN line : ~OwnState(line[i])
           /\ \A i \in DOMAIN responseQueue : i # 1 => ~OwnState(responseQueue[i])
<1>0. BusTypeOK
  BY DEF BusInv
<1>1. CASE phase # "read"
  <2>1. \A i \in DOMAIN owed : owed[i].kind \in {"read", "write"}
    BY <1>0, Elements DEF Command
  <2> QED
    BY <1>1, <2>1 DEF OrderInv, OwnInv
<1>2. CASE Quiet
  BY <1>2, EmptyFacts DEF Quiet
<1>3. CASE /\ phase = "read" /\ ackReceived /\ 1 \in DOMAIN responseQueue
           /\ responseQueue[1].kind = "state"
  <2>1. \A i \in DOMAIN responseQueue : i \in Nat /\ i >= 1
    BY <1>0, SeqFacts DEF BusTypeOK
  <2>2. \A i \in DOMAIN responseQueue : i # 1 => ~OwnState(responseQueue[i])
    BY <1>3, <2>1 DEF OrderInv, TakenInv
  <2>3. /\ \A i \in DOMAIN owed : ~owed[i].own
        /\ \A i \in DOMAIN line : ~OwnState(line[i])
    BY <1>3 DEF OrderInv, TakenInv
  <2> QED
    BY <2>2, <2>3
<1> QED
  BY <1>1, <1>2, <1>3

\* The end of an exchange keeps the order.
LEMMA OrderFinish ==
    ASSUME BusInv, OrderInv, PcLink, phase' = "idle", UNCHANGED <<bus, outbox, owed, line>>,
           NoneDue,
           phase # "write" => \A i \in DOMAIN owed : ~owed[i].own,
           \A i \in DOMAIN line : ~OwnState(line[i]),
           \A i \in DOMAIN responseQueue' : ~OwnState(responseQueue'[i])
    PROVE  OrderInv'
<1>1. \A i \in DOMAIN owed : ~owed[i].own
  BY DEF NoneDue, Due, OrderInv, OwnInv
<1>2. OwnInv'
  BY <1>1 DEF OwnInv, OwnState
<1>3. HeardInv' /\ TakenInv'
  BY DEF HeardInv, TakenInv
<1> QED
  BY <1>2, <1>3 DEF OrderInv

\* So does an attempt.
LEMMA OrderAttempt ==
    ASSUME BusInv, OrderInv, PcLink, NEW kind \in {"read", "write"}, NEW g \in Group,
           Attempt(kind, g), phase' = kind, ask' = g, UNCHANGED <<bus, owed, line>>,
           \A i \in DOMAIN owed : ~owed[i].own,
           \A i \in DOMAIN line : ~OwnState(line[i])
    PROVE  OrderInv'
<1>1. DOMAIN responseQueue' = {} /\ ackReceived' = FALSE
  BY EmptyFacts DEF Attempt
<1>2. kind = "read" => awaitedQuery' = g /\ awaitedAckSeen' = FALSE
  BY DEF Attempt, Announce
<1>3. OwnInv'
  BY <1>1 DEF OwnInv, OwnState
<1>4. HeardInv'
  BY <1>2 DEF HeardInv, OwnState
<1>5. TakenInv'
  BY <1>1 DEF TakenInv, OwnState
<1> QED
  BY <1>3, <1>4, <1>5 DEF OrderInv

\* The worker takes a message.
LEMMA OrderTake ==
    ASSUME BusInv, OrderInv, PcLink, Take
    PROVE  OrderInv'
<1>0. BusTypeOK
  BY DEF BusInv
<1>1. /\ responseQueue # <<>> /\ phase # "idle" /\ responseQueue' = Tail(responseQueue)
      /\ UNCHANGED <<bus, outbox, owed, line>>
  BY <1>0, TakeCases DEF BusTypeOK, busVars
<1>2. /\ 1 \in DOMAIN responseQueue
      /\ \A i \in DOMAIN responseQueue' :
            /\ i \in Nat /\ i >= 1
            /\ i + 1 \in DOMAIN responseQueue /\ responseQueue'[i] = responseQueue[i + 1]
            /\ i + 1 # 1
      /\ \A i \in DOMAIN responseQueue : i \in Nat /\ i >= 1
  BY <1>0, <1>1, TailFacts, SeqFacts DEF BusTypeOK
<1> DEFINE m == responseQueue[1]
<1>3. ASSUME NEW r, Finish(r),
             \/ ackReceived /\ \/ phase = "read" /\ m.kind = "state"
                               \/ phase = "write" /\ m.kind = "done"
             \/ held # Nothing /\ phase = "write" /\ m.kind = "ack"
      PROVE  OrderInv'
  <2>1. NoneDue
    BY <1>1, <1>3, EndsClean
  <2>2. /\ phase # "write" => \A i \in DOMAIN owed : ~owed[i].own
        /\ \A i \in DOMAIN line : ~OwnState(line[i])
        /\ \A i \in DOMAIN responseQueue : i # 1 => ~OwnState(responseQueue[i])
    BY <1>2, <1>3, NoOwnLeft
  <2>3. phase' = "idle"
    BY <1>3 DEF Finish
  <2>4. \A i \in DOMAIN responseQueue' : ~OwnState(responseQueue'[i])
    BY <1>2, <2>2
  <2> QED
    BY <1>1, <2>1, <2>2, <2>3, <2>4, OrderFinish
<1>4. ASSUME UNCHANGED <<phase, ask, awaitedQuery, awaitedAckSeen>>,
             ackReceived' = ackReceived \/ (ackReceived' = TRUE /\ m.kind = "ack")
      PROVE  OrderInv'
  <2>1. OwnInv'
    BY <1>1, <1>2, <1>4 DEF OrderInv, OwnInv, OwnState
  <2>2. HeardInv'
    BY <1>1, <1>4 DEF OrderInv, HeardInv, OwnState, PcLink
  <2>3. TakenInv'
    <3> SUFFICES ASSUME phase = "read" PROVE TakenInv'
      BY <1>4 DEF TakenInv
    <3>1. ackReceived \/ (\E j \in DOMAIN responseQueue : responseQueue[j].kind = "ack") =>
              awaitedAckSeen
      BY DEF OrderInv, TakenInv
    <3>2. ackReceived' \/ (\E j \in DOMAIN responseQueue' : responseQueue'[j].kind = "ack") =>
              awaitedAckSeen'
      BY <1>2, <1>4, <3>1
    <3>3. ASSUME (\E i \in DOMAIN owed : owed[i].own) \/ (\E i \in DOMAIN line : OwnState(line[i]))
          PROVE  /\ ackReceived' =>
                      \A k \in DOMAIN responseQueue' : responseQueue'[k].kind # "state"
                 /\ \A j, k \in DOMAIN responseQueue' :
                      responseQueue'[j].kind = "ack" /\ j < k => responseQueue'[k].kind # "state"
      <4>1. /\ ackReceived => \A k \in DOMAIN responseQueue : responseQueue[k].kind # "state"
            /\ \A j, k \in DOMAIN responseQueue :
                  responseQueue[j].kind = "ack" /\ j < k => responseQueue[k].kind # "state"
        BY <3>3 DEF OrderInv, TakenInv
      <4>2. ASSUME NEW j \in DOMAIN responseQueue', NEW k \in DOMAIN responseQueue',
                   responseQueue'[j].kind = "ack", j < k
            PROVE  responseQueue'[k].kind # "state"
        BY <1>2, <4>1, <4>2
      <4>3. ASSUME ackReceived', NEW k \in DOMAIN responseQueue'
            PROVE  responseQueue'[k].kind # "state"
        <5>1. ackReceived \/ responseQueue[1].kind = "ack"
          BY <1>4, <4>3 DEF BusInv, FlagsOK
        <5>2. k + 1 \in DOMAIN responseQueue /\ responseQueue'[k] = responseQueue[k + 1] /\ 1 < k + 1
          BY <1>2, <4>3
        <5> QED
          BY <1>2, <4>1, <5>1, <5>2
      <4> QED
        BY <4>2, <4>3
    <3>4. ASSUME NEW i \in DOMAIN responseQueue', OwnState(responseQueue'[i])
          PROVE  /\ \A j \in DOMAIN line : line[j].kind # "ack"
                 /\ ackReceived' => \A k \in DOMAIN responseQueue' :
                                       k < i => responseQueue'[k].kind # "state"
                 /\ \A j \in DOMAIN responseQueue' : responseQueue'[j].kind = "ack" =>
                      /\ j < i
                      /\ \A k \in DOMAIN responseQueue' :
                            j < k /\ k < i => responseQueue'[k].kind # "state"
      <4> DEFINE n == i + 1
      <4>1. /\ n \in DOMAIN responseQueue /\ OwnState(responseQueue[n]) /\ n > 1
            /\ n = i + 1
        BY <1>2, <3>4
      <4> HIDE DEF n
      <4>2. /\ \A j \in DOMAIN line : line[j].kind # "ack"
            /\ ackReceived => \A k \in DOMAIN responseQueue :
                                 k < n => responseQueue[k].kind # "state"
            /\ \A j \in DOMAIN responseQueue : responseQueue[j].kind = "ack" =>
                  /\ j < n
                  /\ \A k \in DOMAIN responseQueue :
                        j < k /\ k < n => responseQueue[k].kind # "state"
        BY <4>1 DEF OrderInv, TakenInv
      <4>3. ASSUME ackReceived', NEW k \in DOMAIN responseQueue', k < i
            PROVE  responseQueue'[k].kind # "state"
        <5>1. ackReceived \/ responseQueue[1].kind = "ack"
          BY <1>4, <4>3 DEF BusInv, FlagsOK
        <5>2. /\ k + 1 \in DOMAIN responseQueue /\ responseQueue'[k] = responseQueue[k + 1]
              /\ 1 < k + 1 /\ k + 1 < n
          BY <1>2, <4>1, <4>3
        <5> QED
          BY <1>2, <4>2, <5>1, <5>2
      <4>4. ASSUME NEW j \in DOMAIN responseQueue', responseQueue'[j].kind = "ack"
            PROVE  /\ j < i
                   /\ \A k \in DOMAIN responseQueue' :
                         j < k /\ k < i => responseQueue'[k].kind # "state"
        BY <1>2, <4>1, <4>2, <4>4
      <4> QED
        BY <4>2, <4>3, <4>4
    <3> QED
      BY <1>1, <3>2, <3>3, <3>4 DEF TakenInv, OwnState
  <2> QED
    BY <2>1, <2>2, <2>3 DEF OrderInv
<1>5. responseQueue \in Seq(Frame)
  BY <1>0 DEF BusTypeOK
<1> HIDE DEF m
<1>6. PICK M \in Frame :
        /\ M = m
        /\ \/ \E r : /\ Finish(r)
                     /\ \/ ackReceived /\ \/ phase = "read" /\ M.kind = "state"
                                          \/ phase = "write" /\ M.kind = "done"
                        \/ held # Nothing /\ phase = "write" /\ M.kind = "ack"
           \/ /\ UNCHANGED <<phase, ask, awaitedQuery, awaitedAckSeen>>
              /\ ackReceived' = ackReceived \/ (ackReceived' = TRUE /\ M.kind = "ack")
  BY <1>5, TakeCases DEF m, workerVars, listenVars
<1> QED
  BY <1>3, <1>4, <1>6

\* The Feedback Module asks.
LEMMA OrderAsks ==
    ASSUME BusInv, OrderInv, PcLink, NEW g \in Group, FeedbackAsks(g)
    PROVE  OrderInv'
<1>0. BusTypeOK
  BY DEF BusInv
<1> DEFINE e == [kind |-> "echo", to |-> "read", group |-> g, own |-> FALSE]
<1>1. /\ UNCHANGED <<bus, phase, ask, ackReceived, awaitedQuery, awaitedAckSeen>>
      /\ UNCHANGED <<responseQueue, outbox>>
      /\ line' = Append(line, e)
  BY DEF FeedbackAsks, workerVars, listenVars
<1>2. PICK c \in Command : owed' = Append(owed, c) /\ ~c.own
  <2>1. PICK o \in bus.orders :
          owed' = Append(owed, [kind |-> "read", group |-> g, own |-> FALSE, ack |-> o])
    BY DEF FeedbackAsks
  <2>2. bus.orders \subseteq {"first", "last"}
    BY BusAssumption DEF BusInv, BusTypeOK
  <2> DEFINE c == [kind |-> "read", group |-> g, own |-> FALSE, ack |-> o]
  <2>3. c \in Command /\ ~c.own
    BY <2>2 DEF Command
  <2> QED
    BY <2>1, <2>3
<1>3. e \in Frame /\ e.kind = "echo"
  BY DEF Frame
<1> HIDE DEF e
<1>4. \A i \in DOMAIN owed' : owed'[i].own => i \in DOMAIN owed /\ owed'[i] = owed[i]
  BY <1>0, <1>2, AppendFacts DEF BusTypeOK
<1>5. /\ \A i \in DOMAIN line' : line'[i].kind # "echo" =>
            i \in DOMAIN line /\ line'[i] = line[i]
      /\ \A i \in DOMAIN line : i \in DOMAIN line' /\ line'[i] = line[i]
  <2>1. /\ DOMAIN line = 1 .. Len(line) /\ DOMAIN line' = 1 .. Len(line) + 1
        /\ line'[Len(line) + 1] = e /\ Len(line) \in Nat
        /\ \A i \in DOMAIN line : line'[i] = line[i]
    BY <1>0, <1>1, <1>3, AppendFacts DEF BusTypeOK
  <2> QED
    BY <1>3, <2>1
<1>6. OwnInv'
  BY <1>1, <1>4, <1>5 DEF OrderInv, OwnInv, OwnState
<1>7. HeardInv'
  BY <1>1, <1>4, <1>5 DEF OrderInv, HeardInv, OwnState, PcLink
<1>8. TakenInv'
  BY <1>1, <1>4, <1>5 DEF OrderInv, TakenInv, OwnState, PcLink
<1> QED
  BY <1>6, <1>7, <1>8 DEF OrderInv

\* The listener hears a frame.
LEMMA OrderDispatch ==
    ASSUME BusInv, OrderInv, PcLink, Dispatch
    PROVE  OrderInv'
<1>1. UNCHANGED <<bus, phase, ask, ackReceived, awaiting, outbox, owed>>
  BY DispatchMoves
<1>2. /\ \A i \in DOMAIN line' : /\ i \in Nat /\ i >= 1 /\ i + 1 # 1
                                /\ i + 1 \in DOMAIN line /\ line'[i] = line[i + 1]
      /\ \A i \in DOMAIN line : i = 1 \/ (i - 1 \in DOMAIN line' /\ line'[i - 1] = line[i])
      /\ \A i \in DOMAIN line : i \in Nat /\ i >= 1
  BY DispatchMoves
<1>3. PICK m \in Frame, d \in {0, 1}, n \in Nat :
        /\ 1 \in DOMAIN line /\ m = line[1]
        /\ \/ m.kind = "ack" /\ HearAck(m)
           \/ m.kind = "echo" /\ HearEcho(m)
           \/ m.kind = "state" /\ HearState(m)
           \/ m.kind = "done" /\ HearDone(m)
        /\ \A i \in DOMAIN responseQueue' :
              /\ i \in Nat
              /\ \/ i = n /\ responseQueue'[i] = m
                 \/ /\ i < n /\ i + d \in DOMAIN responseQueue
                    /\ responseQueue'[i] = responseQueue[i + d]
  BY DispatchMoves
<1>4. OwnInv'
  <2>1. \A i \in DOMAIN owed : owed[i].own => ~OwnState(m)
    BY <1>3 DEF OrderInv, OwnInv
  <2>2. \A i \in DOMAIN line' : OwnState(line'[i]) => ~OwnState(m)
    BY <1>2, <1>3 DEF OrderInv, OwnInv, OwnState
  <2>3. OwnState(m) => /\ phase = "read" /\ m.group = ask /\ outbox = <<>>
                       /\ \A j \in DOMAIN responseQueue : ~OwnState(responseQueue[j])
    BY <1>3 DEF OrderInv, OwnInv
  <2>4. CASE OwnState(m)
    <3>1. \A i \in DOMAIN responseQueue' : OwnState(responseQueue'[i]) =>
             i = n /\ responseQueue'[i] = m
      BY <1>3, <2>3, <2>4 DEF OwnState
    <3> QED
      BY <1>1, <2>1, <2>2, <2>3, <2>4, <3>1 DEF OwnInv, OwnState
  <2>5. CASE ~OwnState(m)
    <3>1. \A i \in DOMAIN responseQueue' : OwnState(responseQueue'[i]) =>
             i + d \in DOMAIN responseQueue /\ responseQueue'[i] = responseQueue[i + d]
      BY <1>3, <2>5
    <3>2. \A i, j \in DOMAIN responseQueue' : i + d = j + d => i = j
      BY <1>3
    <3>3. \A i \in DOMAIN line' : i + 1 \in DOMAIN line /\ line'[i] = line[i + 1]
                                  /\ \A j \in DOMAIN line' : i + 1 = j + 1 => i = j
      BY <1>2
    <3>4. \A i \in DOMAIN owed' : owed'[i].own =>
            /\ i = 1 /\ owed'[i].kind = phase' /\ owed'[i].group = ask'
            /\ outbox' = <<>>
            /\ \A j \in DOMAIN line' : ~OwnState(line'[j])
            /\ \A j \in DOMAIN responseQueue' : ~OwnState(responseQueue'[j])
      BY <1>1, <3>1, <3>3 DEF OrderInv, OwnInv, OwnState
    <3>5. \A i \in DOMAIN line' : OwnState(line'[i]) =>
            /\ phase' = "read" /\ line'[i].group = ask'
            /\ outbox' = <<>>
            /\ \A j \in DOMAIN line' : OwnState(line'[j]) => j = i
            /\ \A j \in DOMAIN responseQueue' : ~OwnState(responseQueue'[j])
      BY <1>1, <3>1, <3>3 DEF OrderInv, OwnInv, OwnState
    <3>6. \A i \in DOMAIN responseQueue' : OwnState(responseQueue'[i]) =>
            /\ phase' = "read" /\ responseQueue'[i].group = ask'
            /\ outbox' = <<>>
            /\ \A j \in DOMAIN responseQueue' : OwnState(responseQueue'[j]) => j = i
      BY <1>1, <3>1, <3>2 DEF OrderInv, OwnInv, OwnState
    <3> QED
      BY <3>4, <3>5, <3>6 DEF OwnInv, OwnState
  <2> QED
    BY <2>4, <2>5
<1> SUFFICES ASSUME phase = "read" PROVE HeardInv' /\ TakenInv'
  BY <1>1, <1>4 DEF OrderInv, HeardInv, TakenInv
<1>5. awaiting
  BY DEF BusInv, FlowInv, IdleInv
<1>6. /\ m.kind = "ack" => awaitedAckSeen' /\ awaitedQuery' = awaitedQuery
      /\ m.kind # "ack" => awaitedAckSeen' = awaitedAckSeen
      /\ m.kind # "state" => awaitedQuery' = awaitedQuery
      /\ awaitedQuery' # awaitedQuery => awaitedAckSeen
  BY <1>3, <1>5 DEF HearAck, HearEcho, HearState, HearDone, IsAwaitedAnswer, listenVars
<1>7. m.kind = "ack" => ~ackReceived
  BY <1>3 DEF BusInv, AckInv
<1>8. m.kind = "ack" =>
        /\ \A j \in DOMAIN line' : line'[j].kind # "ack"
        /\ \A j \in DOMAIN responseQueue : responseQueue[j].kind # "ack"
        /\ outbox = <<>>
  BY <1>2, <1>3 DEF BusInv, AckInv
<1>9. HeardInv'
  <2>1. outbox' # <<>> => awaitedQuery' = ask' /\ ~awaitedAckSeen'
    BY <1>1, <1>6, <1>8 DEF OrderInv, HeardInv
  <2>2. ASSUME NEW i \in DOMAIN owed', owed'[i].own
        PROVE  /\ awaitedQuery' = ask'
               /\ awaitedAckSeen' \/ \E j \in DOMAIN line' : line'[j].kind = "ack"
               /\ awaitedAckSeen' => \A k \in DOMAIN line' : line'[k].kind # "state"
               /\ \A j, k \in DOMAIN line' :
                     line'[j].kind = "ack" /\ j < k => line'[k].kind # "state"
    <3>1. /\ awaitedQuery = ask
          /\ awaitedAckSeen \/ \E j \in DOMAIN line : line[j].kind = "ack"
          /\ awaitedAckSeen => \A k \in DOMAIN line : line[k].kind # "state"
          /\ \A j, k \in DOMAIN line :
                line[j].kind = "ack" /\ j < k => line[k].kind # "state"
      BY <1>1, <2>2 DEF OrderInv, HeardInv
    <3>2. awaitedQuery' = ask'
      BY <1>1, <1>3, <1>6, <3>1
    <3>3. awaitedAckSeen' \/ \E j \in DOMAIN line' : line'[j].kind = "ack"
      BY <1>2, <1>3, <1>6, <3>1
    <3>4. awaitedAckSeen' => \A k \in DOMAIN line' : line'[k].kind # "state"
      <4>1. ASSUME m.kind = "ack", NEW k \in DOMAIN line' PROVE line'[k].kind # "state"
        <5>1. k + 1 \in DOMAIN line /\ line'[k] = line[k + 1] /\ 1 < k + 1
          BY <1>2
        <5> QED
          BY <1>3, <3>1, <4>1, <5>1
      <4> QED
        BY <1>2, <1>6, <3>1, <4>1
    <3>5. \A j, k \in DOMAIN line' :
             line'[j].kind = "ack" /\ j < k => line'[k].kind # "state"
      BY <1>2, <3>1
    <3> QED
      BY <3>2, <3>3, <3>4, <3>5
  <2>3. ASSUME NEW i \in DOMAIN line', OwnState(line'[i])
        PROVE  /\ awaitedQuery' = ask'
               /\ awaitedAckSeen' \/ \E j \in DOMAIN line' : line'[j].kind = "ack"
               /\ awaitedAckSeen' => \A k \in DOMAIN line' : k < i => line'[k].kind # "state"
               /\ \A j \in DOMAIN line' : line'[j].kind = "ack" =>
                     /\ j < i
                     /\ \A k \in DOMAIN line' : j < k /\ k < i => line'[k].kind # "state"
    <3> DEFINE s == i + 1
    <3>0. s \in DOMAIN line /\ OwnState(line[s]) /\ s = i + 1 /\ i \in Nat /\ i >= 1
      <4>1. i \in Nat /\ i >= 1 /\ i + 1 \in DOMAIN line /\ line'[i] = line[i + 1]
        BY <1>2
      <4> QED
        BY <2>3, <4>1
    <3> HIDE DEF s
    <3>1. /\ awaitedQuery = ask
          /\ awaitedAckSeen \/ \E j \in DOMAIN line : line[j].kind = "ack"
          /\ awaitedAckSeen => \A k \in DOMAIN line : k < s => line[k].kind # "state"
          /\ \A j \in DOMAIN line : line[j].kind = "ack" =>
                /\ j < s
                /\ \A k \in DOMAIN line : j < k /\ k < s => line[k].kind # "state"
      BY <3>0 DEF OrderInv, HeardInv
    <3>2. awaitedQuery' = ask'
      <4>1. m.kind = "state" => ~awaitedAckSeen
        BY <1>3, <3>0, <3>1
      <4> QED
        BY <1>1, <1>6, <3>1, <4>1
    <3>3. awaitedAckSeen' \/ \E j \in DOMAIN line' : line'[j].kind = "ack"
      BY <1>2, <1>3, <1>6, <3>1
    <3>4. ASSUME awaitedAckSeen', NEW k \in DOMAIN line', k < i PROVE line'[k].kind # "state"
      <4>1. k + 1 \in DOMAIN line /\ line'[k] = line[k + 1] /\ 1 < k + 1 /\ k + 1 < s
        <5>1. k \in Nat /\ k >= 1 /\ k + 1 \in DOMAIN line /\ line'[k] = line[k + 1]
          BY <1>2
        <5> QED
          BY <3>0, <3>4, <5>1
      <4>2. CASE m.kind = "ack"
        BY <1>3, <3>1, <4>1, <4>2
      <4>3. CASE m.kind # "ack"
        BY <1>6, <3>1, <3>4, <4>1, <4>3
      <4> QED
        BY <4>2, <4>3
    <3>5. ASSUME NEW j \in DOMAIN line', line'[j].kind = "ack"
          PROVE  /\ j < i
                 /\ \A k \in DOMAIN line' : j < k /\ k < i => line'[k].kind # "state"
      BY <1>2, <3>0, <3>1, <3>5
    <3> QED
      BY <3>2, <3>3, <3>4, <3>5
  <2> QED
    BY <2>1, <2>2, <2>3 DEF HeardInv, OwnState
<1>10. TakenInv'
  <2>1. ackReceived' \/ (\E j \in DOMAIN responseQueue' : responseQueue'[j].kind = "ack") =>
              awaitedAckSeen'
    <3>1. ackReceived \/ (\E j \in DOMAIN responseQueue : responseQueue[j].kind = "ack") =>
              awaitedAckSeen
      BY DEF OrderInv, TakenInv
    <3> QED
      BY <1>1, <1>3, <1>6, <3>1
  <2>2. ASSUME (\E i \in DOMAIN owed' : owed'[i].own) \/ (\E i \in DOMAIN line' : OwnState(line'[i]))
        PROVE  /\ ackReceived' =>
                    \A k \in DOMAIN responseQueue' : responseQueue'[k].kind # "state"
               /\ \A j, k \in DOMAIN responseQueue' :
                    responseQueue'[j].kind = "ack" /\ j < k => responseQueue'[k].kind # "state"
    <3>1. (\E i \in DOMAIN owed : owed[i].own) \/ (\E i \in DOMAIN line : OwnState(line[i]))
      BY <1>1, <1>2, <2>2
    <3>2. /\ ackReceived => \A k \in DOMAIN responseQueue : responseQueue[k].kind # "state"
          /\ \A j, k \in DOMAIN responseQueue :
                responseQueue[j].kind = "ack" /\ j < k => responseQueue[k].kind # "state"
          /\ ackReceived \/ (\E j \in DOMAIN responseQueue : responseQueue[j].kind = "ack") =>
                awaitedAckSeen
      BY <3>1 DEF OrderInv, TakenInv
    <3>3. m.kind = "state" => ~awaitedAckSeen
      <4>1. CASE \E i \in DOMAIN owed' : owed'[i].own
        BY <1>1, <1>3, <4>1 DEF OrderInv, HeardInv
      <4>2. CASE \E i \in DOMAIN line' : OwnState(line'[i])
        <5>1. PICK i \in DOMAIN line' : OwnState(line'[i])
          BY <4>2
        <5>2. i + 1 \in DOMAIN line /\ OwnState(line[i + 1]) /\ 1 < i + 1
          BY <1>2, <5>1
        <5> QED
          BY <1>3, <5>2 DEF OrderInv, HeardInv
      <4> QED
        BY <2>2, <4>1, <4>2
    <3>4. m.kind = "state" =>
             ~ackReceived /\ \A j \in DOMAIN responseQueue : responseQueue[j].kind # "ack"
      BY <3>2, <3>3
    <3>5. ASSUME ackReceived', NEW k \in DOMAIN responseQueue'
          PROVE  responseQueue'[k].kind # "state"
      BY <1>1, <1>3, <3>2, <3>4, <3>5
    <3>6. ASSUME NEW j \in DOMAIN responseQueue', NEW k \in DOMAIN responseQueue',
                 responseQueue'[j].kind = "ack", j < k
          PROVE  responseQueue'[k].kind # "state"
      BY <1>3, <3>2, <3>4, <3>6
    <3> QED
      BY <3>5, <3>6
  <2>3. ASSUME NEW i \in DOMAIN responseQueue', OwnState(responseQueue'[i])
        PROVE  /\ \A j \in DOMAIN line' : line'[j].kind # "ack"
               /\ ackReceived' => \A k \in DOMAIN responseQueue' :
                                     k < i => responseQueue'[k].kind # "state"
               /\ \A j \in DOMAIN responseQueue' : responseQueue'[j].kind = "ack" =>
                    /\ j < i
                    /\ \A k \in DOMAIN responseQueue' :
                          j < k /\ k < i => responseQueue'[k].kind # "state"
    <3>1. CASE i = n /\ responseQueue'[i] = m
      <4>1. OwnState(m) /\ m.kind = "state"
        BY <2>3, <3>1 DEF OwnState
      <4>2. \A j \in DOMAIN line : line[j].kind # "ack"
        <5>1. \A j \in DOMAIN line : line[j].kind = "ack" => j < 1
          BY <1>3, <4>1 DEF OrderInv, HeardInv
        <5> QED
          BY <1>2, <5>1
      <4>3. \A j \in DOMAIN line' : line'[j].kind # "ack"
        BY <1>2, <4>2
      <4>4. /\ ackReceived => \A k \in DOMAIN responseQueue : responseQueue[k].kind # "state"
            /\ \A j, k \in DOMAIN responseQueue :
                  responseQueue[j].kind = "ack" /\ j < k => responseQueue[k].kind # "state"
        BY <1>3, <4>1 DEF OrderInv, TakenInv
      <4>5. ASSUME ackReceived', NEW k \in DOMAIN responseQueue', k < i
            PROVE  responseQueue'[k].kind # "state"
        BY <1>1, <1>3, <3>1, <4>4, <4>5
      <4>6. ASSUME NEW j \in DOMAIN responseQueue', responseQueue'[j].kind = "ack"
            PROVE  /\ j < i
                   /\ \A k \in DOMAIN responseQueue' :
                         j < k /\ k < i => responseQueue'[k].kind # "state"
        BY <1>3, <3>1, <4>1, <4>4, <4>6
      <4> QED
        BY <4>3, <4>5, <4>6
    <3>2. CASE /\ i < n /\ i + d \in DOMAIN responseQueue
               /\ responseQueue'[i] = responseQueue[i + d]
      <4> DEFINE s == i + d
      <4>1. s \in DOMAIN responseQueue /\ OwnState(responseQueue[s]) /\ s = i + d /\ i \in Nat
        BY <1>3, <2>3, <3>2
      <4> HIDE DEF s
      <4>2. /\ \A j \in DOMAIN line : line[j].kind # "ack"
            /\ ackReceived => \A k \in DOMAIN responseQueue :
                                 k < s => responseQueue[k].kind # "state"
            /\ \A j \in DOMAIN responseQueue : responseQueue[j].kind = "ack" =>
                  /\ j < s
                  /\ \A k \in DOMAIN responseQueue :
                        j < k /\ k < s => responseQueue[k].kind # "state"
        BY <4>1 DEF OrderInv, TakenInv
      <4>3. \A j \in DOMAIN line' : line'[j].kind # "ack"
        BY <1>2, <4>2
      <4>4. ASSUME ackReceived', NEW k \in DOMAIN responseQueue', k < i
            PROVE  responseQueue'[k].kind # "state"
        BY <1>1, <1>3, <3>2, <4>1, <4>2, <4>4
      <4>5. m.kind # "ack"
        BY <1>3, <4>2
      <4>6. ASSUME NEW j \in DOMAIN responseQueue', responseQueue'[j].kind = "ack"
            PROVE  /\ j < i
                   /\ \A k \in DOMAIN responseQueue' :
                         j < k /\ k < i => responseQueue'[k].kind # "state"
        BY <1>3, <3>2, <4>1, <4>2, <4>5, <4>6
      <4> QED
        BY <4>3, <4>4, <4>6
    <3> QED
      BY <1>3, <3>1, <3>2
  <2> QED
    BY <2>1, <2>2, <2>3 DEF TakenInv, OwnState
<1> QED
  BY <1>9, <1>10

\* The gateway takes a command.
LEMMA OrderForwards ==
    ASSUME BusInv, OrderInv, PcLink, GatewayForwards
    PROVE  OrderInv'
<1>0. BusTypeOK
  BY DEF BusInv
<1>1. /\ outbox # <<>> /\ outbox' = Tail(outbox) /\ owed = <<>>
      /\ UNCHANGED <<bus, phase, ask, ackReceived, responseQueue>>
      /\ UNCHANGED <<awaitedQuery, awaitedAckSeen>>
  BY <1>0, ForwardCases DEF BusTypeOK, PcLink, workerVars, listenVars
<1>2. PICK c \in Command :
        /\ c = outbox[1]
        /\ owed' = Append(owed, c) \/ owed' = owed
        /\ \/ line' = Append(line, AckOf(c)) /\ c.ack = "first"
           \/ line' = line /\ (c.ack # "first" \/ owed' = owed)
  BY <1>0, ForwardCases DEF BusTypeOK
<1>3. /\ 1 \in DOMAIN outbox /\ Len(outbox) \in Nat \ {0} /\ outbox' \in Seq(Command)
      /\ Len(outbox') = Len(outbox) - 1
  BY <1>0, <1>1, TailFacts, SeqFacts DEF BusTypeOK
<1>4. outbox' = <<>>
  <2>1. Len(outbox) <= 1
    BY DEF BusInv, FlowInv, CommandInv
  <2>2. Len(outbox') = 0
    BY <1>3, <2>1
  <2> QED
    BY <1>3, <2>2, SeqFacts
<1>5. c.kind = phase /\ c.group = ask /\ c.own /\ c.ack = "first"
  BY <1>2, <1>3 DEF BusInv, FlowInv, CommandInv, PcLink
<1> DEFINE a == AckOf(c)
<1>6. a \in Frame /\ a.kind = "ack"
  BY SentFrames
<1> HIDE DEF a
<1>7. \A i \in DOMAIN owed' : i = 1 /\ owed'[i] = c
  <2>1. CASE owed' = owed
    BY <1>0, <1>1, <2>1, SeqFacts DEF BusTypeOK
  <2>2. CASE owed' = Append(owed, c)
    BY <1>1, <2>2
  <2> QED
    BY <1>2, <2>1, <2>2
<1>8. /\ \A i \in DOMAIN line' : line'[i].kind = "ack" \/ (i \in DOMAIN line /\ line'[i] = line[i])
      /\ \A i \in DOMAIN line : i \in DOMAIN line' /\ line'[i] = line[i]
      /\ DOMAIN owed' # {} => \E j \in DOMAIN line' : line'[j].kind = "ack"
      /\ \A j, k \in DOMAIN line' : line'[j].kind = "ack" /\ j < k => line'[k].kind # "state"
  <2>1. /\ DOMAIN line = 1 .. Len(line) /\ Len(line) \in Nat
    BY <1>0, SeqFacts DEF BusTypeOK
  <2>2. \A j \in DOMAIN line : line[j].kind # "ack"
    BY <1>1 DEF BusInv, AckInv
  <2>3. CASE line' = line /\ owed' = owed
    BY <1>0, <1>1, <2>2, <2>3, SeqFacts DEF BusTypeOK
  <2>4. CASE line' = Append(line, a)
    <3> DEFINE n == Len(line) + 1
    <3>1. /\ n \in Nat \ {0} /\ DOMAIN line = 1 .. n - 1 /\ DOMAIN line' = 1 .. n
          /\ line'[n] = a
          /\ \A i \in DOMAIN line : line'[i] = line[i]
      BY <1>0, <1>6, <2>1, <2>4, AppendFacts DEF BusTypeOK
    <3> HIDE DEF n
    <3>2. \A i \in DOMAIN line' : i = n \/ (i \in DOMAIN line /\ line'[i] = line[i])
      BY <3>1
    <3>3. \A j \in DOMAIN line' : line'[j].kind = "ack" => j = n
      BY <2>2, <3>2
    <3>4. \A j, k \in DOMAIN line' : line'[j].kind = "ack" /\ j < k => line'[k].kind # "state"
      BY <3>1, <3>3
    <3>5. \A i \in DOMAIN line' : line'[i].kind = "ack" \/ (i \in DOMAIN line /\ line'[i] = line[i])
      BY <1>6, <3>1, <3>2
    <3>6. \A i \in DOMAIN line : i \in DOMAIN line' /\ line'[i] = line[i]
      BY <3>1
    <3>7. n \in DOMAIN line' /\ line'[n].kind = "ack"
      BY <1>6, <3>1
    <3> QED
      BY <3>4, <3>5, <3>6, <3>7
  <2> QED
    BY <1>2, <1>5, <2>3, <2>4 DEF a
<1>9. /\ \A i \in DOMAIN line : ~OwnState(line[i])
      /\ \A i \in DOMAIN responseQueue : ~OwnState(responseQueue[i])
  BY <1>1 DEF OrderInv, OwnInv
<1>10. \A i \in DOMAIN line' : ~OwnState(line'[i])
  BY <1>8, <1>9 DEF OwnState
<1>11. OwnInv'
  BY <1>1, <1>4, <1>5, <1>7, <1>9, <1>10 DEF OwnInv, OwnState
<1>12. HeardInv'
  <2> SUFFICES ASSUME phase = "read" PROVE HeardInv'
    BY <1>1 DEF HeardInv
  <2>1. awaitedQuery = ask /\ ~awaitedAckSeen
    BY <1>1 DEF OrderInv, HeardInv
  <2> QED
    BY <1>1, <1>4, <1>8, <1>10, <2>1 DEF HeardInv, OwnState
<1>13. TakenInv'
  <2>1. ~ackReceived /\ \A j \in DOMAIN responseQueue : responseQueue[j].kind # "ack"
    BY <1>1 DEF BusInv, AckInv
  <2> QED
    BY <1>1, <1>9, <2>1 DEF TakenInv, OwnState
<1> QED
  BY <1>11, <1>12, <1>13 DEF OrderInv

\* The module answers.
LEMMA OrderAnswers ==
    ASSUME BusInv, OrderInv, PcLink, ModuleAnswers
    PROVE  OrderInv'
<1>0. BusTypeOK
  BY DEF BusInv
<1>1. /\ owed # <<>> /\ owed' = Tail(owed)
      /\ UNCHANGED <<bus, phase, ask, ackReceived, responseQueue, outbox>>
      /\ UNCHANGED <<awaitedQuery, awaitedAckSeen>>
  BY <1>0, AnswerCases DEF BusTypeOK, workerVars, listenVars
<1>2. PICK c \in Command, t \in Seq(Frame) :
        /\ c = owed[1]
        /\ t = Append(line, AnswerTo(c)) \/ t = line
        /\ line' = IF c.own /\ c.ack = "last" THEN Append(t, AckOf(c)) ELSE t
  BY <1>0, AnswerCases DEF BusTypeOK
<1>3. /\ 1 \in DOMAIN owed
      /\ \A i \in DOMAIN owed' : i + 1 \in DOMAIN owed /\ owed'[i] = owed[i + 1] /\ i + 1 # 1
  BY <1>0, <1>1, TailFacts, SeqFacts DEF BusTypeOK
<1>4. \A i \in DOMAIN owed' : ~owed'[i].own
  BY <1>3 DEF OrderInv, OwnInv
<1> DEFINE r == AnswerTo(c)
<1>5. /\ r \in Frame /\ r.kind = (IF c.kind = "read" THEN "state" ELSE "done")
      /\ r.group = c.group /\ r.own = c.own
  BY SentFrames
<1> HIDE DEF r
<1>6. line' = t
  <2>1. c.own => c.ack \in bus.orders
    BY <1>2, <1>3 DEF BusInv, FlowInv, CommandInv
  <2> QED
    BY <1>2, <2>1 DEF PcLink
<1>7. c.own => c.kind = phase /\ c.group = ask /\ outbox = <<>>
               /\ (\A j \in DOMAIN line : ~OwnState(line[j]))
               /\ (\A j \in DOMAIN responseQueue : ~OwnState(responseQueue[j]))
  BY <1>2, <1>3 DEF OrderInv, OwnInv
<1>8. PICK n \in Nat :
        /\ \A i \in DOMAIN line : i < n /\ i \in DOMAIN line' /\ line'[i] = line[i]
        /\ \A i \in DOMAIN line' : \/ i = n /\ line'[i] = r
                                   \/ i \in DOMAIN line /\ line'[i] = line[i]
  <2>1. /\ DOMAIN line = 1 .. Len(line) /\ Len(line) \in Nat
    BY <1>0, SeqFacts DEF BusTypeOK
  <2> DEFINE n == Len(line) + 1
  <2>2. CASE t = line
    <3>1. n \in Nat /\ \A i \in DOMAIN line : i < n
      BY <2>1
    <3> QED
      BY <1>6, <2>2, <3>1
  <2>3. CASE t = Append(line, r)
    <3>1. /\ n \in Nat /\ DOMAIN line = 1 .. n - 1 /\ DOMAIN line' = 1 .. n /\ line'[n] = r
          /\ \A i \in DOMAIN line : line'[i] = line[i]
      BY <1>0, <1>5, <1>6, <2>1, <2>3, AppendFacts DEF BusTypeOK
    <3> HIDE DEF n
    <3>2. /\ \A i \in DOMAIN line : i < n /\ i \in DOMAIN line' /\ line'[i] = line[i]
          /\ \A i \in DOMAIN line' : \/ i = n /\ line'[i] = r
                                     \/ i \in DOMAIN line /\ line'[i] = line[i]
      BY <3>1
    <3> QED
      BY <3>1, <3>2
  <2> QED
    BY <1>2, <2>2, <2>3 DEF r
<1>9. OwnState(r) => c.own /\ phase = "read" /\ r.group = ask /\ outbox = <<>>
  BY <1>5, <1>7 DEF OwnState
<1>10. OwnInv'
  <2>1. CASE OwnState(r)
    <3>1. \A i \in DOMAIN line' : OwnState(line'[i]) => i = n /\ line'[i] = r
      BY <1>7, <1>8, <1>9, <2>1
    <3> QED
      BY <1>1, <1>4, <1>7, <1>9, <2>1, <3>1 DEF OwnInv, OwnState
  <2>2. CASE ~OwnState(r)
    <3>1. \A i \in DOMAIN line' : OwnState(line'[i]) => i \in DOMAIN line /\ line'[i] = line[i]
      BY <1>8, <2>2
    <3> QED
      BY <1>1, <1>4, <3>1 DEF OrderInv, OwnInv, OwnState
  <2> QED
    BY <2>1, <2>2
<1>11. r.kind # "ack"
  BY <1>5
<1>12. HeardInv'
  <2> SUFFICES ASSUME phase = "read" PROVE HeardInv'
    BY <1>1 DEF HeardInv
  <2>1. outbox' # <<>> => awaitedQuery' = ask' /\ ~awaitedAckSeen'
    BY <1>1 DEF OrderInv, HeardInv
  <2>2. ASSUME NEW i \in DOMAIN line', OwnState(line'[i])
        PROVE  /\ awaitedQuery = ask
               /\ awaitedAckSeen \/ \E j \in DOMAIN line' : line'[j].kind = "ack"
               /\ awaitedAckSeen => \A k \in DOMAIN line' : k < i => line'[k].kind # "state"
               /\ \A j \in DOMAIN line' : line'[j].kind = "ack" =>
                     /\ j < i
                     /\ \A k \in DOMAIN line' : j < k /\ k < i => line'[k].kind # "state"
    <3>1. CASE i \in DOMAIN line /\ line'[i] = line[i]
      <4>1. /\ awaitedQuery = ask
            /\ awaitedAckSeen \/ \E j \in DOMAIN line : line[j].kind = "ack"
            /\ awaitedAckSeen => \A k \in DOMAIN line : k < i => line[k].kind # "state"
            /\ \A j \in DOMAIN line : line[j].kind = "ack" =>
                  /\ j < i
                  /\ \A k \in DOMAIN line : j < k /\ k < i => line[k].kind # "state"
        BY <2>2, <3>1 DEF OrderInv, HeardInv
      <4>2. \A k \in DOMAIN line' : k < i => k \in DOMAIN line /\ line'[k] = line[k]
        <5>1. i < n /\ i \in Nat
          BY <1>0, <1>8, <3>1, SeqFacts DEF BusTypeOK
        <5>2. ~(n < i)
          BY <5>1
        <5> QED
          BY <1>8, <5>2
      <4> QED
        BY <1>8, <1>11, <4>1, <4>2
    <3>2. CASE i = n /\ line'[i] = r
      <4>1. c.own
        BY <1>9, <2>2, <3>2
      <4>2. /\ awaitedQuery = ask
            /\ awaitedAckSeen \/ \E j \in DOMAIN line : line[j].kind = "ack"
            /\ awaitedAckSeen => \A k \in DOMAIN line : line[k].kind # "state"
            /\ \A j, k \in DOMAIN line : line[j].kind = "ack" /\ j < k => line[k].kind # "state"
        BY <1>2, <1>3, <4>1 DEF OrderInv, HeardInv
      <4>3. \A k \in DOMAIN line' : k < i => k \in DOMAIN line /\ line'[k] = line[k]
        BY <1>8, <3>2
      <4> QED
        BY <1>8, <1>11, <3>2, <4>2, <4>3
    <3> QED
      BY <1>8, <3>1, <3>2
  <2> QED
    BY <1>1, <1>4, <2>1, <2>2 DEF HeardInv, OwnState
<1>13. TakenInv'
  <2> SUFFICES ASSUME phase = "read" PROVE TakenInv'
    BY <1>1 DEF TakenInv
  <2>1. (\E i \in DOMAIN line' : OwnState(line'[i])) =>
           \/ \E i \in DOMAIN owed : owed[i].own
           \/ \E i \in DOMAIN line : OwnState(line[i])
    BY <1>2, <1>3, <1>8, <1>9
  <2>2. (\A j \in DOMAIN line : line[j].kind # "ack") => \A j \in DOMAIN line' : line'[j].kind # "ack"
    BY <1>8, <1>11
  <2>3. /\ ackReceived \/ (\E j \in DOMAIN responseQueue : responseQueue[j].kind = "ack") =>
              awaitedAckSeen
        /\ (\E i \in DOMAIN line' : OwnState(line'[i])) =>
              /\ ackReceived =>
                    \A k \in DOMAIN responseQueue : responseQueue[k].kind # "state"
              /\ \A j, k \in DOMAIN responseQueue :
                    responseQueue[j].kind = "ack" /\ j < k => responseQueue[k].kind # "state"
        /\ \A i \in DOMAIN responseQueue : OwnState(responseQueue[i]) =>
              /\ \A j \in DOMAIN line' : line'[j].kind # "ack"
              /\ ackReceived =>
                    \A k \in DOMAIN responseQueue : k < i => responseQueue[k].kind # "state"
              /\ \A j \in DOMAIN responseQueue : responseQueue[j].kind = "ack" =>
                    /\ j < i
                    /\ \A k \in DOMAIN responseQueue :
                          j < k /\ k < i => responseQueue[k].kind # "state"
    BY <2>1, <2>2 DEF OrderInv, TakenInv
  <2> QED
    BY <1>1, <1>4, <2>3 DEF TakenInv, OwnState
<1> QED
  BY <1>10, <1>12, <1>13 DEF OrderInv

\* Every step keeps the order on a PC-Link's bus.
LEMMA StepOrder ==
    BusInv /\ OrderInv /\ [Next]_vars => OrderInv'
<1> SUFFICES ASSUME BusInv, OrderInv, [Next]_vars PROVE OrderInv'
  OBVIOUS
<1>a. bus' = bus
  BY DEF Next, vars, Start, FeedbackAsks, Take, TimeoutHeld, TimeoutRetry, TimeoutFail,
     Dispatch, GatewayForwards, ModuleAnswers
<1>b. CASE ~PcLink
  BY <1>a, <1>b DEF PcLink, OrderInv, OwnInv, HeardInv, TakenInv
<1> SUFFICES ASSUME PcLink PROVE OrderInv'
  BY <1>b
<1>1. ASSUME NEW kind \in {"read", "write"}, NEW g \in Group, Start(kind, g) PROVE OrderInv'
  <2>1. NoneDue /\ phase = "idle"
    BY <1>1, RestClean DEF Start
  <2>2. (\A i \in DOMAIN owed : ~owed[i].own) /\ (\A i \in DOMAIN line : ~OwnState(line[i]))
    BY <2>1, NoOwnLeft
  <2>3. /\ Attempt(kind, g) /\ phase' = kind /\ ask' = g /\ UNCHANGED <<bus, owed, line>>
    BY <1>1 DEF Start
  <2> QED
    BY <2>2, <2>3, OrderAttempt
<1>2. ASSUME NEW g \in Group, FeedbackAsks(g) PROVE OrderInv'
  BY <1>2, OrderAsks
<1>3. CASE Take
  BY <1>3, OrderTake
<1>4. CASE TimeoutHeld \/ TimeoutFail
  <2>1. Quiet /\ UNCHANGED <<bus, outbox, owed, line, responseQueue>> /\ phase' = "idle"
    BY <1>4 DEF TimeoutHeld, TimeoutFail, Finish, busVars
  <2>2. NoneDue
    BY <2>1, RestClean
  <2>3. /\ \A i \in DOMAIN owed : ~owed[i].own
        /\ \A i \in DOMAIN line : ~OwnState(line[i])
        /\ \A i \in DOMAIN responseQueue : ~OwnState(responseQueue[i])
    BY <2>1, EmptyFacts DEF Quiet
  <2>4. \A i \in DOMAIN responseQueue' : ~OwnState(responseQueue'[i])
    BY <2>1, <2>3
  <2> QED
    BY <2>1, <2>2, <2>3, <2>4, OrderFinish
<1>5. CASE TimeoutRetry
  <2>1. Quiet /\ phase \in {"read", "write"} /\ ask \in Group
    BY <1>5 DEF TimeoutRetry, BusInv, BusTypeOK
  <2>2. (\A i \in DOMAIN owed : ~owed[i].own) /\ (\A i \in DOMAIN line : ~OwnState(line[i]))
    BY <2>1, EmptyFacts DEF Quiet
  <2>3. /\ Attempt(phase, ask) /\ phase' = phase /\ ask' = ask /\ UNCHANGED <<bus, owed, line>>
    BY <1>5 DEF TimeoutRetry
  <2> QED
    BY <2>1, <2>2, <2>3, OrderAttempt
<1>6. CASE Dispatch
  BY <1>6, OrderDispatch
<1>7. CASE GatewayForwards
  BY <1>7, OrderForwards
<1>8. CASE ModuleAnswers
  BY <1>8, OrderAnswers
<1>9. CASE UNCHANGED vars
  BY <1>9 DEF vars, workerVars, listenVars, busVars, OrderInv, OwnInv, HeardInv, TakenInv,
     OwnState, PcLink
<1> QED
  BY <1>1, <1>2, <1>3, <1>4, <1>5, <1>6, <1>7, <1>8, <1>9 DEF Next

\* The initial state keeps it.
LEMMA InitOrder ==
    Init => OrderInv
<1> SUFFICES ASSUME Init PROVE OrderInv
  OBVIOUS
<1>1. DOMAIN owed = {} /\ DOMAIN line = {} /\ DOMAIN responseQueue = {} /\ phase = "idle"
  BY EmptyFacts DEF Init
<1> QED
  BY <1>1 DEF OrderInv, OwnInv, HeardInv, TakenInv

\* A bus whose Feedback Module's queries are relayed by a PC-Link, or without
\* one.
LinkBus(b) == b.polls = 0 \/ (b.waits /\ b.orders = {"first"})

\* The listener files our own answer under our group.
LEMMA StepFiled ==
    ASSUME \A b \in Buses : LinkBus(b)
    PROVE  BusInv /\ OrderInv /\ OwnAnswerFiled /\ [Next]_vars => OwnAnswerFiled'
<1> SUFFICES ASSUME BusInv, OrderInv, OwnAnswerFiled, [Next]_vars PROVE OwnAnswerFiled'
  OBVIOUS
<1>1. CASE Dispatch
  <2>1. PICK m \in Frame : /\ 1 \in DOMAIN line /\ m = line[1]
                           /\ \/ m.kind = "ack" /\ HearAck(m)
                              \/ m.kind = "echo" /\ HearEcho(m)
                              \/ m.kind = "state" /\ HearState(m)
                              \/ m.kind = "done" /\ HearDone(m)
    BY <1>1, DispatchMoves
  <2>2. CASE filed' = filed
    BY <2>2 DEF OwnAnswerFiled
  <2>3. CASE m.kind = "state" /\ HearState(m) /\ filed' # filed
    <3>1. bus.polls > 0
      BY <2>3 DEF HearState, HasFeedbackModule
    <3>2. PcLink
      BY <3>1 DEF LinkBus, PcLink, BusInv, BusTypeOK
    <3>3. CASE ~m.own
      BY <2>3, <3>3 DEF HearState, OwnAnswerFiled
    <3>4. CASE m.own
      <4>1. OwnState(m) /\ phase = "read" /\ m.group = ask
        BY <2>1, <2>3, <3>2, <3>4 DEF OwnState, OrderInv, OwnInv
      <4>2. \A j \in DOMAIN line : line[j].kind = "ack" => j < 1
        BY <2>1, <3>2, <4>1 DEF OrderInv, HeardInv
      <4>3. awaitedQuery = ask /\ awaitedAckSeen
        <5>1. awaitedQuery = ask
              /\ (awaitedAckSeen \/ \E j \in DOMAIN line : line[j].kind = "ack")
          BY <2>1, <3>2, <4>1 DEF OrderInv, HeardInv
        <5>2. \A j \in DOMAIN line : j \in Nat /\ j >= 1
          BY <1>1, DispatchMoves
        <5> QED
          BY <4>2, <5>1, <5>2
      <4>4. ask # Nothing /\ awaiting
        BY <4>1, BusAssumption DEF BusInv, BusTypeOK, FlowInv, IdleInv
      <4>5. filed' = [group |-> ask, frame |-> m]
        BY <2>3, <4>3, <4>4 DEF HearState, IsAwaitedAnswer
      <4> QED
        BY <4>1, <4>5 DEF OwnAnswerFiled
    <3> QED
      BY <3>3, <3>4
  <2> QED
    BY <2>1, <2>2, <2>3 DEF HearAck, HearEcho, HearDone, listenVars
<1>2. CASE ~Dispatch
  <2>1. filed' = filed
    BY <1>2 DEF Next, vars, Start, FeedbackAsks, Take, TakeAck, TakeState, TakeDone, Finish,
       TimeoutHeld, TimeoutRetry, TimeoutFail, GatewayForwards, ModuleAnswers, listenVars
  <2> QED
    BY <2>1 DEF OwnAnswerFiled
<1> QED
  BY <1>1, <1>2

\* _attribute_state_answer (listener.py): behind a PC-Link the answer to our own
\* query reaches the host under the group it was asked of, whatever the Feedback
\* Module asks meanwhile and even if frames get lost.
THEOREM OwnAnswersFiled ==
    ASSUME \A b \in Buses : LinkBus(b)
    PROVE  Spec => []OwnAnswerFiled
<1>1. Init => OwnAnswerFiled
  BY DEF Init, OwnAnswerFiled
<1> QED
  BY <1>1, InitOrder, StepOrder, StepFiled, ExchangeFlow, PTL DEF Spec

-----------------------------------------------------------------------------
(* The refinement. *)

\* The worker takes a message: an answer of ours taken before its
\* acknowledgement would have nothing to be acknowledged by.
LEMMA PendingTake ==
    ASSUME BusInv, OrderInv, PcLink, phase' = "read", AnswerOnWay, AckOnWay, Take
    PROVE  AnswerOnWay' /\ AckOnWay'
<1>0. BusTypeOK
  BY DEF BusInv
<1>1. /\ responseQueue # <<>> /\ responseQueue' = Tail(responseQueue)
      /\ UNCHANGED <<outbox, owed, line>>
  BY <1>0, TakeCases DEF BusTypeOK, busVars
<1> DEFINE m == responseQueue[1]
<1>2. /\ 1 \in DOMAIN responseQueue
      /\ \A i \in DOMAIN responseQueue : i \in Nat /\ i >= 1
      /\ \A i \in DOMAIN responseQueue :
            i = 1 \/ (i - 1 \in DOMAIN responseQueue' /\ responseQueue'[i - 1] = responseQueue[i])
  <2>1. /\ Len(responseQueue) \in Nat \ {0} /\ DOMAIN responseQueue = 1 .. Len(responseQueue)
        /\ DOMAIN responseQueue' = 1 .. Len(responseQueue) - 1
        /\ \A i \in DOMAIN responseQueue' :
              i + 1 \in DOMAIN responseQueue /\ responseQueue'[i] = responseQueue[i + 1]
    BY <1>0, <1>1, TailFacts DEF BusTypeOK
  <2>2. ASSUME NEW i \in DOMAIN responseQueue, i # 1
        PROVE  i - 1 \in DOMAIN responseQueue' /\ responseQueue'[i - 1] = responseQueue[i]
    <3>1. i - 1 \in DOMAIN responseQueue' /\ (i - 1) + 1 = i
      BY <2>1, <2>2
    <3> QED
      BY <2>1, <3>1
  <2> QED
    BY <2>1, <2>2
<1>3. responseQueue \in Seq(Frame)
  BY <1>0 DEF BusTypeOK
<1>4. PICK M \in Frame :
        /\ M = m
        /\ \/ phase' = "idle"
           \/ /\ ackReceived' = TRUE /\ M.kind = "ack" /\ phase' = phase
           \/ /\ ackReceived' = ackReceived /\ phase' = phase
              /\ M.kind = "state" => ~ackReceived
              /\ ~(M.kind = "ack" /\ M.to = phase /\ M.group = ask)
  BY <1>3, TakeCases DEF Finish, m, workerVars
<1>5. M.kind = "ack" => M.to = phase /\ M.group = ask
  BY <1>2, <1>4 DEF BusInv, FlowInv, FrameInv, m
<1>6. phase = "read" /\ (ackReceived => ackReceived')
  BY <1>4
<1>7. OwnState(m) => FALSE
  <2> SUFFICES ASSUME OwnState(m) PROVE FALSE
    OBVIOUS
  <2>1. outbox = <<>> /\ \A j \in DOMAIN line : line[j].kind # "ack"
    BY <1>2, <1>6 DEF OrderInv, OwnInv, TakenInv, m
  <2>2. \A j \in DOMAIN responseQueue : responseQueue[j].kind # "ack"
    <3>1. \A j \in DOMAIN responseQueue : responseQueue[j].kind = "ack" => j < 1
      BY <1>2, <1>6 DEF OrderInv, TakenInv, m
    <3> QED
      BY <1>2, <3>1
  <2>3. ackReceived
    BY <2>1, <2>2 DEF AckOnWay
  <2> QED
    BY <1>4, <2>3 DEF OwnState
<1>8. AnswerOnWay'
  <2>1. ASSUME NEW i \in DOMAIN responseQueue, OwnState(responseQueue[i])
        PROVE  \E j \in DOMAIN responseQueue' : OwnState(responseQueue'[j])
    <3>1. i # 1
      BY <1>7, <2>1 DEF m
    <3> QED
      BY <1>2, <2>1, <3>1
  <2> QED
    BY <1>1, <2>1 DEF AnswerOnWay, OwnState
<1>9. AckOnWay'
  <2>1. ASSUME NEW j \in DOMAIN responseQueue, responseQueue[j].kind = "ack"
        PROVE  ackReceived' \/ \E k \in DOMAIN responseQueue' : responseQueue'[k].kind = "ack"
    <3>1. CASE j = 1
      BY <1>4, <1>5, <2>1, <3>1 DEF m
    <3>2. CASE j # 1
      BY <1>2, <2>1, <3>2
    <3> QED
      BY <3>1, <3>2
  <2> QED
    BY <1>1, <1>6, <2>1 DEF AckOnWay
<1> QED
  BY <1>8, <1>9

\* The listener hears a frame: what is ours goes to the worker.
LEMMA PendingDispatch ==
    ASSUME BusInv, phase = "read", AnswerOnWay, AckOnWay, RoomInQueue, Dispatch
    PROVE  AnswerOnWay' /\ AckOnWay'
<1>1. UNCHANGED <<ackReceived, outbox, owed>>
  BY DispatchMoves
<1>2. \A i \in DOMAIN line : i = 1 \/ (i - 1 \in DOMAIN line' /\ line'[i - 1] = line[i])
  BY DispatchMoves
<1>3. awaiting
  BY DEF BusInv, FlowInv, IdleInv
<1>4. PICK m \in Frame, n \in Nat :
        /\ m = line[1]
        /\ m.kind # "echo" => n \in DOMAIN responseQueue' /\ responseQueue'[n] = m
        /\ \A i \in DOMAIN responseQueue :
              i \in DOMAIN responseQueue' /\ responseQueue'[i] = responseQueue[i]
  <2>1. PICK m \in Frame, d \in {0, 1}, n \in Nat :
          /\ m = line[1]
          /\ (RoomInQueue /\ awaiting /\ m.kind # "echo") =>
                n \in DOMAIN responseQueue' /\ responseQueue'[n] = m
          /\ RoomInQueue =>
                \A i \in DOMAIN responseQueue :
                   i \in DOMAIN responseQueue' /\ responseQueue'[i] = responseQueue[i]
    BY DispatchMoves
  <2> QED
    BY <1>3, <2>1
<1>5. AnswerOnWay'
  <2>1. ASSUME NEW i \in DOMAIN line, OwnState(line[i])
        PROVE  \/ \E j \in DOMAIN line' : OwnState(line'[j])
               \/ \E j \in DOMAIN responseQueue' : OwnState(responseQueue'[j])
    BY <1>2, <1>4, <2>1 DEF OwnState
  <2> QED
    BY <1>1, <1>4, <2>1 DEF AnswerOnWay, OwnState
<1>6. AckOnWay'
  <2>1. ASSUME NEW i \in DOMAIN line, line[i].kind = "ack"
        PROVE  \/ \E j \in DOMAIN line' : line'[j].kind = "ack"
               \/ \E j \in DOMAIN responseQueue' : responseQueue'[j].kind = "ack"
    BY <1>2, <1>4, <2>1
  <2> QED
    BY <1>1, <1>4, <2>1 DEF AckOnWay
<1> QED
  BY <1>5, <1>6

\* The gateway puts the command on the bus and acknowledges it.
LEMMA PendingForwards ==
    ASSUME BusInv, PcLink, ~bus.lossy, GatewayForwards
    PROVE  AnswerOnWay' /\ AckOnWay'
<1>0. BusTypeOK
  BY DEF BusInv
<1>1. outbox # <<>> /\ owed = <<>> /\ outbox \in Seq(Command) /\ line \in Seq(Frame)
  BY <1>0, ForwardCases DEF BusTypeOK, PcLink
<1>2. PICK c \in Command :
        /\ c = outbox[1]
        /\ \/ owed' = Append(owed, c)
           \/ owed' = owed /\ bus.lossy
        /\ \/ line' = Append(line, AckOf(c)) /\ c.ack = "first"
           \/ line' = line /\ (c.ack # "first" \/ owed' = owed)
  BY <1>0, ForwardCases DEF BusTypeOK
<1>3. owed' = Append(owed, c)
  BY <1>2
<1>4. c.own /\ c.ack = "first"
  BY <1>1, <1>2, SeqFacts DEF BusInv, FlowInv, CommandInv, PcLink
<1>5. 1 \in DOMAIN owed' /\ owed'[1] = c
  BY <1>1, <1>3
<1>6. owed' # owed
  BY <1>1, <1>3
<1>7. line' = Append(line, AckOf(c))
  BY <1>2, <1>4, <1>6
<1>8. \E j \in DOMAIN line' : line'[j].kind = "ack"
  <2> DEFINE a == AckOf(c)
             n == Len(line) + 1
  <2>1. a \in Frame /\ a.kind = "ack"
    BY SentFrames
  <2> HIDE DEF a
  <2>2. Len(line) \in Nat /\ DOMAIN line' = 1 .. n /\ line'[n] = a
    BY <1>1, <1>7, <2>1, AppendFacts DEF a
  <2>3. n \in DOMAIN line'
    BY <2>2
  <2> QED
    BY <2>1, <2>2, <2>3
<1> QED
  BY <1>4, <1>5, <1>8 DEF AnswerOnWay, AckOnWay

\* The module answers.
LEMMA PendingAnswers ==
    ASSUME BusInv, OrderInv, PcLink, ~bus.lossy, phase = "read",
           AnswerOnWay, AckOnWay, ModuleAnswers
    PROVE  AnswerOnWay' /\ AckOnWay'
<1>0. BusTypeOK
  BY DEF BusInv
<1>1. UNCHANGED <<ackReceived, responseQueue, outbox>>
  BY <1>0, AnswerCases DEF BusTypeOK, workerVars
<1>2. PICK c \in Command, t \in Seq(Frame) :
        /\ c = owed[1]
        /\ t = Append(line, AnswerTo(c)) \/ (t = line /\ bus.lossy)
        /\ line' = IF c.own /\ c.ack = "last" THEN Append(t, AckOf(c)) ELSE t
  BY <1>0, AnswerCases DEF BusTypeOK
<1>3. owed # <<>> /\ 1 \in DOMAIN owed
  BY <1>0, AnswerCases, SeqFacts DEF BusTypeOK
<1>4. c.own => c.ack = "first" /\ c.kind = "read"
  BY <1>2, <1>3 DEF OrderInv, OwnInv, BusInv, FlowInv, CommandInv, PcLink
<1> DEFINE r == AnswerTo(c)
           n == Len(line) + 1
<1>5. r \in Frame /\ (c.own => OwnState(r))
  BY <1>4, SentFrames DEF OwnState
<1>6. line' = Append(line, r)
  BY <1>2, <1>4
<1> HIDE DEF r
<1>7. /\ n \in DOMAIN line' /\ line'[n] = r
      /\ \A i \in DOMAIN line : i \in DOMAIN line' /\ line'[i] = line[i]
  <2>1. /\ Len(line) \in Nat /\ DOMAIN line = 1 .. Len(line) /\ DOMAIN line' = 1 .. n
        /\ line'[n] = r /\ \A i \in DOMAIN line : line'[i] = line[i]
    BY <1>0, <1>5, <1>6, AppendFacts DEF BusTypeOK
  <2> QED
    BY <2>1
<1> HIDE DEF n
<1>8. (\E i \in DOMAIN owed : owed[i].own) => \E i \in DOMAIN line' : OwnState(line'[i])
  <2> SUFFICES ASSUME NEW i \in DOMAIN owed, owed[i].own
               PROVE  \E j \in DOMAIN line' : OwnState(line'[j])
    OBVIOUS
  <2>1. i = 1
    BY DEF OrderInv, OwnInv
  <2> QED
    BY <1>2, <1>5, <1>7, <2>1
<1>9. AnswerOnWay'
  BY <1>1, <1>7, <1>8 DEF AnswerOnWay, OwnState
<1>10. AckOnWay'
  BY <1>1, <1>7 DEF AckOnWay
<1> QED
  BY <1>9, <1>10

\* An attempt puts the command in the outbox, where both are still to come.
LEMMA PendingAttempt ==
    ASSUME BusTypeOK, NEW kind, NEW g, Attempt(kind, g)
    PROVE  AnswerOnWay' /\ AckOnWay'
<1>1. PICK o \in bus.orders :
        outbox' = Append(outbox, [kind |-> kind, group |-> g, own |-> TRUE, ack |-> o])
  BY DEF Attempt
<1> DEFINE c == [kind |-> kind, group |-> g, own |-> TRUE, ack |-> o]
<1> HIDE DEF c
<1>2. outbox' = Append(outbox, c)
  BY <1>1 DEF c
<1>3. outbox' # <<>>
  BY <1>2 DEF BusTypeOK
<1> QED
  BY <1>3 DEF AnswerOnWay, AckOnWay

\* The Feedback Module asks.
LEMMA PendingAsks ==
    ASSUME BusTypeOK, NEW g \in Group, FeedbackAsks(g), AnswerOnWay, AckOnWay
    PROVE  AnswerOnWay' /\ AckOnWay'
<1> DEFINE e == [kind |-> "echo", to |-> "read", group |-> g, own |-> FALSE]
<1>1. /\ UNCHANGED <<ackReceived, responseQueue, outbox>>
      /\ line' = Append(line, e)
  BY DEF FeedbackAsks, workerVars
<1>2. PICK o \in bus.orders :
        owed' = Append(owed, [kind |-> "read", group |-> g, own |-> FALSE, ack |-> o])
  BY DEF FeedbackAsks
<1>3. \A i \in DOMAIN line : i \in DOMAIN line' /\ line'[i] = line[i]
  BY <1>1 DEF BusTypeOK
<1>4. \A i \in DOMAIN owed : i \in DOMAIN owed' /\ owed'[i] = owed[i]
  BY <1>2 DEF BusTypeOK
<1> QED
  BY <1>1, <1>3, <1>4 DEF AnswerOnWay, AckOnWay, OwnState

\* As long as the response queue has room, nothing of ours goes missing.
LEMMA StepPending ==
    BusInv /\ OrderInv /\ PendingInv /\ RoomInQueue /\ [Next]_vars => PendingInv'
<1> SUFFICES ASSUME BusInv, OrderInv, PendingInv, RoomInQueue, [Next]_vars,
                    PcLink', ~bus'.lossy, phase' = "read"
             PROVE  AnswerOnWay' /\ AckOnWay'
  BY DEF PendingInv
<1>1. bus' = bus
  BY DEF Next, vars, Start, FeedbackAsks, Take, TimeoutHeld, TimeoutRetry, TimeoutFail,
     Dispatch, GatewayForwards, ModuleAnswers
<1>2. PcLink /\ ~bus.lossy /\ BusTypeOK
  BY <1>1 DEF PcLink, BusInv
<1>3. ASSUME NEW kind \in {"read", "write"}, NEW g \in Group, Start(kind, g)
      PROVE  AnswerOnWay' /\ AckOnWay'
  BY <1>2, <1>3, PendingAttempt DEF Start
<1>4. ASSUME NEW g \in Group, FeedbackAsks(g) PROVE AnswerOnWay' /\ AckOnWay'
  <2>1. phase = "read"
    BY <1>4 DEF FeedbackAsks, workerVars
  <2> QED
    BY <1>2, <1>4, <2>1, PendingAsks DEF PendingInv
<1>5. CASE Take
  <2>1. phase = "read"
    BY <1>2, <1>5, TakeCases DEF BusTypeOK, Finish, workerVars
  <2> QED
    BY <1>2, <1>5, <2>1, PendingTake DEF PendingInv
<1>6. CASE TimeoutHeld \/ TimeoutFail
  BY <1>6 DEF TimeoutHeld, TimeoutFail, Finish
<1>7. CASE TimeoutRetry
  BY <1>2, <1>7, PendingAttempt DEF TimeoutRetry
<1>8. CASE Dispatch
  <2>1. phase = "read"
    BY <1>8, DispatchMoves
  <2> QED
    BY <1>2, <1>8, <2>1, PendingDispatch DEF PendingInv
<1>9. CASE GatewayForwards
  BY <1>2, <1>9, PendingForwards
<1>10. CASE ModuleAnswers
  <2>1. phase = "read"
    BY <1>10 DEF ModuleAnswers, workerVars
  <2> QED
    BY <1>2, <1>10, <2>1, PendingAnswers DEF PendingInv
<1>11. CASE UNCHANGED vars
  <2>1. phase = "read"
    BY <1>11 DEF vars, workerVars
  <2> QED
    BY <1>2, <1>11, <2>1 DEF vars, workerVars, busVars, PendingInv, AnswerOnWay, AckOnWay, OwnState
<1> QED
  BY <1>3, <1>4, <1>5, <1>6, <1>7, <1>8, <1>9, <1>10, <1>11 DEF Next

\* The answer an exchange ends with is from the group it is about.
LEMMA OwnAnswerTaken ==
    ASSUME BusInv, OrderInv, PcLink, AnswerOnWay, phase = "read", ackReceived,
           1 \in DOMAIN responseQueue, responseQueue[1].kind = "state"
    PROVE  responseQueue[1].group = ask
<1>1. outbox = <<>>
  BY DEF BusInv, AckInv
<1>2. /\ ~ \E i \in DOMAIN owed : owed[i].own
      /\ ~ \E i \in DOMAIN line : OwnState(line[i])
  BY DEF OrderInv, TakenInv
<1>3. PICK i \in DOMAIN responseQueue : OwnState(responseQueue[i])
  BY <1>1, <1>2 DEF AnswerOnWay
<1>4. ~(1 < i)
  BY <1>3 DEF OrderInv, TakenInv
<1>5. i = 1
  BY <1>4, SeqFacts DEF BusInv, BusTypeOK
<1> QED
  BY <1>3, <1>5 DEF OrderInv, OwnInv

\* What the exchange looks like from outside.
asked == IF phase = "idle" THEN Nothing ELSE ask
outcome == IF result \in {Nothing, Failed} THEN result ELSE result.group

\* An exchange that ends by a frame of the group it is about answers.
LEMMA AnswerMaps ==
    ASSUME BusInv, phase # "idle", NEW r \in Frame, r.group = ask, Finish(r)
    PROVE  Abstract!Answer
<1>1. ask # Nothing
  BY BusAssumption DEF BusInv, BusTypeOK
<1>2. r \notin {Nothing, Failed}
  BY BusAssumption
<1>3. result' = r /\ phase' = "idle"
  BY DEF Finish
<1> QED
  BY <1>1, <1>2, <1>3 DEF Abstract!Answer

\* The worker's message ends the exchange so, or nothing is seen of it.
LEMMA TakeMaps ==
    ASSUME BusInv, OrderInv, PendingInv, Take,
           bus.polls = 0 \/ (PcLink /\ ~bus.lossy)
    PROVE  Abstract!Answer \/ UNCHANGED <<phase, ask, result>>
<1>1. BusTypeOK
  BY DEF BusInv
<1>2. /\ phase # "idle" /\ 1 \in DOMAIN responseQueue
      /\ responseQueue \in Seq(Frame)
  BY <1>1, TakeCases, SeqFacts DEF BusTypeOK
<1>3. PICK m \in Frame :
        /\ m = responseQueue[1]
        /\ \/ /\ Finish(m) /\ ackReceived
              /\ \/ phase = "read" /\ m.kind = "state"
                 \/ phase = "write" /\ m.kind = "done"
           \/ Finish(held) /\ held # Nothing /\ phase = "write"
           \/ UNCHANGED <<phase, ask, result>>
  BY <1>2, TakeCases DEF workerVars
<1>4. CASE Finish(m) /\ Counts(m)
  <2>1. m.group = ask
    BY <1>2, <1>3, <1>4 DEF BusInv, FlowInv, FrameInv
  <2> QED
    BY <1>2, <1>4, <2>1, AnswerMaps
<1>5. CASE Finish(m) /\ ackReceived /\ phase = "read" /\ m.kind = "state" /\ ~Counts(m)
  <2>1. PcLink /\ ~bus.lossy
    BY <1>5 DEF Counts
  <2>2. m.group = ask
    BY <1>2, <1>3, <1>5, <2>1, OwnAnswerTaken DEF PendingInv
  <2> QED
    BY <1>2, <1>5, <2>2, AnswerMaps
<1>6. CASE Finish(held) /\ held # Nothing /\ phase = "write"
  <2>1. held \in Frame /\ held.group = ask
    BY <1>1, <1>6, BusAssumption DEF BusTypeOK, BusInv, FlowInv, HeldInv, Counts
  <2> QED
    BY <1>2, <1>6, <2>1, AnswerMaps
<1> QED
  BY <1>3, <1>4, <1>5, <1>6 DEF Counts

\* A held answer the timeout falls back on is of the group, too: behind a
\* PC-Link, with nothing lost, there is none.
LEMMA HeldMaps ==
    ASSUME BusInv, OrderInv, PendingInv, TimeoutHeld,
           bus.polls = 0 \/ (PcLink /\ ~bus.lossy)
    PROVE  Abstract!Answer
<1>1. phase = "read" /\ held # Nothing /\ Quiet /\ Finish(held)
  BY DEF TimeoutHeld, UsableHeld
<1>2. bus.polls = 0
  <2> SUFFICES ASSUME PcLink, ~bus.lossy PROVE FALSE
    OBVIOUS
  <2>1. AnswerOnWay
    BY <1>1 DEF PendingInv
  <2> QED
    BY <1>1, <2>1, EmptyFacts DEF AnswerOnWay, Quiet
<1>3. held \in Frame /\ held.kind = "state"
  BY <1>1, BusAssumption DEF BusInv, BusTypeOK, FlowInv, HeldInv
<1>4. held.group = ask
  BY <1>1, <1>2, <1>3 DEF BusInv, FlowInv, HeldInv, Counts
<1> QED
  BY <1>1, <1>3, <1>4, AnswerMaps

\* Every step is one of Exchange, or changes nothing it sees.
LEMMA StepMaps ==
    ASSUME \A b \in Buses : b.polls = 0 \/ (LinkBus(b) /\ ~b.lossy)
    PROVE  BusInv /\ OrderInv /\ PendingInv /\ [Next]_vars =>
              [Abstract!Next]_<<asked, outcome>>
<1> SUFFICES ASSUME BusInv, OrderInv, PendingInv, [Next]_vars
             PROVE  [Abstract!Next]_<<asked, outcome>>
  OBVIOUS
<1>1. bus.polls = 0 \/ (PcLink /\ ~bus.lossy)
  BY DEF BusInv, BusTypeOK, LinkBus, PcLink
<1>2. ASSUME UNCHANGED <<phase, ask, result>> PROVE UNCHANGED <<asked, outcome>>
  BY <1>2 DEF asked, outcome
<1>3. ASSUME NEW kind \in {"read", "write"}, NEW g \in Group, Start(kind, g)
      PROVE  Abstract!Next
  <2>1. Abstract!Ask(g)
    BY <1>3 DEF Start, Abstract!Ask
  <2> QED
    BY <2>1 DEF Abstract!Next
<1>4. CASE Take
  BY <1>1, <1>2, <1>4, TakeMaps DEF Abstract!Next
<1>5. CASE TimeoutHeld
  BY <1>1, <1>5, HeldMaps DEF Abstract!Next
<1>6. CASE TimeoutFail
  <2>1. phase # "idle" /\ result' = Failed /\ phase' = "idle" /\ ask # Nothing
    BY <1>6, BusAssumption DEF TimeoutFail, Finish, BusInv, BusTypeOK
  <2>2. Abstract!Fail
    BY <2>1 DEF Abstract!Fail
  <2> QED
    BY <2>2 DEF Abstract!Next
<1>7. ASSUME \/ \E g \in Group : FeedbackAsks(g)
             \/ TimeoutRetry \/ Dispatch \/ GatewayForwards \/ ModuleAnswers
             \/ UNCHANGED vars
      PROVE  UNCHANGED <<phase, ask, result>>
  BY <1>7 DEF FeedbackAsks, TimeoutRetry, Dispatch, GatewayForwards, ModuleAnswers, vars,
     workerVars
<1> QED
  BY <1>2, <1>3, <1>4, <1>5, <1>6, <1>7 DEF Next

\* _send_command_get_answer (command.py) implements Exchange: where no Feedback
\* Module asks, or a PC-Link relays what it asks and loses nothing, a command ends
\* by an answer of the group it was asked of or by an error, and the next is asked
\* after that.  Behind a PC-Link this is as long as the response queue does not
\* fill (listener.py: it has 200 places, and an attempt empties it).
THEOREM ExchangeRefined ==
    ASSUME \A b \in Buses : b.polls = 0 \/ (LinkBus(b) /\ ~b.lossy)
    PROVE  Spec /\ []RoomInQueue => Abstract!Init /\ [][Abstract!Next]_<<asked, outcome>>
<1>1. Init => Abstract!Init
  BY DEF Init, Abstract!Init
<1>2. Init => PendingInv
  BY DEF Init, PendingInv
<1> QED
  BY <1>1, <1>2, InitOrder, StepOrder, StepPending, StepMaps, ExchangeFlow, PTL DEF Spec
=============================================================================
