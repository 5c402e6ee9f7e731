-------------------------- MODULE RegisterScanProofs --------------------------
(***************************************************************************)
(* What RegisterScan promises of a scan, for every value of its constants: *)
(* its state stays well formed, whatever the module answers; a decoder     *)
(* that is told which register the next frame answers is told right; a     *)
(* rebuild replaces a module's links by all the records of its table; and  *)
(* a scan that nothing goes wrong with does rebuild them.                  *)
(***************************************************************************)
EXTENDS RegisterScan, FiniteSetTheorems, SequenceTheorems, TLAPS

-----------------------------------------------------------------------------
(* The invariant. *)

\* What a unit of memory holds: a part of a record, or nothing.
Cell == (table \X Nat) \cup {FF}

\* A frame that answers a register.
Answer == [kind : {"ack", "data", "trailer"}, reg : Nat]

\* The module and the bus.
WorldOK ==
    /\ kind \in Kinds /\ table \subseteq Nat /\ IsFiniteSet(table)
    /\ shift \in {0, 1} /\ late \in BOOLEAN /\ lost \in 0..MaxLost
    /\ wire \in Seq(Answer)

\* Where the scan task is, and the flags that say so.
PhaseOK ==
    /\ pc \in {"plan", "pass", "loop", "send", "ack", "data", "gaveup", "done"}
    /\ awaiting \in BOOLEAN /\ active \in BOOLEAN
    /\ awaiting <=> pc \in {"ack", "data"}
    /\ active <=> pc \in {"loop", "send", "ack", "data", "gaveup"}
    /\ event \in BOOLEAN /\ trailer \in BOOLEAN /\ reread \in BOOLEAN /\ astray \in BOOLEAN

\* A register is read at most RetryLimit + 1 times.
AttemptOK ==
    /\ attempt \in 0..(RetryLimit + 1)
    /\ pc = "send" => attempt <= RetryLimit

\* A read is of the first register left, which the decoder was told; between
\* the passes none is left.
ReadOK ==
    /\ regs \in Seq(Nat)
    /\ pc \in {"plan", "pass"} => regs = <<>>
    /\ pc \in {"send", "ack", "data", "gaveup"} => regs # <<>> /\ block = Head(regs)

\* The registers left are within the total announced, those without an answer
\* among those read.
PlanOK ==
    /\ passes \in Seq(Seq(Nat)) /\ Len(passes) <= 1
    /\ sent \in Nat /\ total \in Nat /\ missed \in 0..sent
    /\ sent + Len(regs) + Planned(passes) <= total
    /\ giveUps \in 0..GiveUpLimit
    /\ active => giveUps < GiveUpLimit
    /\ rounds \in 0..Rounds
    /\ expected \in Nat \cup {NoCount}

\* What was made of the frames.
DecodedOK ==
    /\ streak \in Nat /\ decoded \in Nat /\ phantoms \in BOOLEAN
    /\ buffer \in Seq(Cell) /\ Len(buffer) < RecLen
    /\ aligned \in {"open", "yes", "no"}
    /\ filed \subseteq table /\ stored \subseteq table \cup {Old}

ScanOK == WorldOK /\ PhaseOK /\ AttemptOK /\ ReadOK /\ PlanOK /\ DecodedOK

\* While answers come in time the frames on their way are the answer to the read
\* that is waited for: nothing outlasts it, and the frame that wakes the scan is
\* the last one.
AnswerInv ==
    ~late =>
        /\ wire # <<>> => pc \in {"ack", "data"} /\ ~event
        /\ Len(wire) <= 2
        /\ Len(wire) = 2 => wire[1].kind = "ack"
        /\ \A i \in DOMAIN wire : wire[i].reg = block
        /\ ~astray

-----------------------------------------------------------------------------
(* The operators.                                                          *)

\* A record is one unit or three, a register one unit or eight.
LEMMA Lengths == /\ kind = "switch" => RecLen = 3 /\ RegLen = 8
                 /\ kind # "switch" => RecLen = 1 /\ RegLen = 1
BY DEF RecLen, RegLen

\* The constants of ScanAssumption.
LEMMA Bounds ==
    /\ FixedBand \in Nat /\ GiveUpLimit \in Nat /\ GiveUpLimit > 0
    /\ RetryLimit \in Nat /\ Rounds \in Nat /\ MaxLost \in Nat
BY ScanAssumption

\* A register holds cells.
LEMMA ContentCells ==
    ASSUME WorldOK, NEW r \in Nat
    PROVE  Content(r) \in Seq(Cell) /\ Len(Content(r)) = RegLen
<1>1. ASSUME NEW a \in Int PROVE Unit(a) \in Cell
  <2> DEFINE at == a - shift
  <2>1. at \in Int
    BY DEF WorldOK
  <2>2. at % RecLen \in Nat
    BY <2>1, Lengths
  <2> QED
    BY <2>1, <2>2 DEF Unit, Cell
<1>2. RegLen \in Nat
  BY Lengths
<1>3. ASSUME NEW i \in 1..RegLen PROVE r * RegLen + i - 1 \in Int
  BY Lengths
<1> QED
  BY <1>1, <1>2, <1>3 DEF Content

\* What is left of a stream after its records is less than a record.
LEMMA RemainderShort ==
    ASSUME NEW S, NEW s \in Seq(S)
    PROVE  Remainder(s) \in Seq(S) /\ Len(Remainder(s)) < RecLen
<1> DEFINE n == Len(s)
           m == (n \div RecLen) * RecLen
<1>1. n \in Nat /\ m \in Nat /\ m <= n /\ n - m < RecLen
  BY Lengths
<1>2. Remainder(s) = [i \in 1..(n - m) |-> s[m + i]]
  BY <1>1 DEF Remainder
<1>3. \A i \in 1..(n - m) : s[m + i] \in S
  BY <1>1
<1> HIDE DEF m
<1>4. n - m \in Nat
  BY <1>1
<1>5. [i \in 1..(n - m) |-> s[m + i]] \in Seq(S)
  BY <1>3, <1>4
<1>6. Len([i \in 1..(n - m) |-> s[m + i]]) = n - m
  BY <1>4
<1> QED
  BY <1>1, <1>2, <1>5, <1>6

\* A chunk of cells that is a record names a slot of the table.
LEMMA ChunkSlot ==
    ASSUME WorldOK, NEW s \in Seq(Cell), NEW i \in DOMAIN Chunks(s), Whole(Chunks(s)[i])
    PROVE  Chunks(s)[i][1][1] \in table
<1> DEFINE at == (i - 1) * RecLen + 1
<1>1. Len(s) \in Nat /\ i \in 1..(Len(s) \div RecLen)
  BY DEF Chunks
<1>2. at \in 1..Len(s) /\ i * RecLen \in Nat /\ at <= i * RecLen /\ i * RecLen <= Len(s)
  BY <1>1, Lengths
<1>3. Chunks(s)[i] = SubSeq(s, at, i * RecLen)
  BY DEF Chunks
<1>4. Chunks(s)[i][1] = s[at]
  BY <1>2, <1>3
<1>5. s[at] \in Cell /\ s[at] # FF
  BY <1>2, <1>4 DEF Whole
<1> QED
  BY <1>4, <1>5 DEF Cell

\* The numbers below n.
LEMMA RangeNumbers ==
    ASSUME NEW n \in Nat
    PROVE  Range0(n) \in Seq(Nat) /\ Len(Range0(n)) = n
BY DEF Range0

\* What joining two sequences gives has nothing but their elements.
LEMMA Joined ==
    ASSUME NEW S, NEW a \in Seq(S), NEW b \in Seq(S)
    PROVE  /\ a \o b \in Seq(S) /\ Len(a) \in Nat /\ Len(b) \in Nat
           /\ Len(a \o b) = Len(a) + Len(b)
           /\ \A j \in DOMAIN (a \o b) :
                 \/ \E k \in DOMAIN a : (a \o b)[j] = a[k]
                 \/ \E k \in DOMAIN b : (a \o b)[j] = b[k]
<1>1. /\ Len(a) \in Nat /\ Len(b) \in Nat
      /\ DOMAIN a = 1..Len(a) /\ DOMAIN b = 1..Len(b)
  OBVIOUS
<1>2. /\ a \o b \in Seq(S) /\ Len(a \o b) = Len(a) + Len(b)
      /\ \A j \in 1..(Len(a) + Len(b)) :
            (a \o b)[j] = IF j <= Len(a) THEN a[j] ELSE b[j - Len(a)]
  BY ConcatProperties
<1>3. DOMAIN (a \o b) = 1..(Len(a) + Len(b))
  BY <1>1, <1>2
<1>4. ASSUME NEW j \in 1..(Len(a) + Len(b))
      PROVE  \/ \E k \in DOMAIN a : (a \o b)[j] = a[k]
             \/ \E k \in DOMAIN b : (a \o b)[j] = b[k]
  <2>1. CASE j <= Len(a)
    <3>1. j \in DOMAIN a /\ (a \o b)[j] = a[j]
      BY <1>1, <1>2, <2>1
    <3> QED
      BY <3>1
  <2>2. CASE ~(j <= Len(a))
    <3>1. j - Len(a) \in DOMAIN b /\ (a \o b)[j] = b[j - Len(a)]
      BY <1>1, <1>2, <2>2
    <3> QED
      BY <3>1
  <2> QED
    BY <2>1, <2>2
<1> QED
  BY <1>1, <1>2, <1>3, <1>4

\* Of a sequence that loses one element the others are left.
LEMMA OneRemoved ==
    ASSUME NEW S, NEW s \in Seq(S), NEW i \in DOMAIN s
    PROVE  LET u == SubSeq(s, 1, i - 1) \o SubSeq(s, i + 1, Len(s))
           IN /\ u \in Seq(S) /\ Len(u) = Len(s) - 1
              /\ \A j \in DOMAIN u : \E k \in DOMAIN s : u[j] = s[k]
<1> DEFINE a == SubSeq(s, 1, i - 1)
           b == SubSeq(s, i + 1, Len(s))
<1>1. Len(s) \in Nat /\ i \in 1..Len(s) /\ DOMAIN s = 1..Len(s)
  OBVIOUS
<1>2. /\ a \in Seq(S) /\ Len(a) = i - 1 /\ DOMAIN a = 1..(i - 1)
      /\ \A k \in 1..(i - 1) : a[k] = s[k]
  BY <1>1
<1>3. /\ b \in Seq(S) /\ Len(b) = Len(s) - i /\ DOMAIN b = 1..(Len(s) - i)
      /\ \A k \in 1..(Len(s) - i) : b[k] = s[i + k]
  BY <1>1
<1>4. \A k \in DOMAIN a : \E m \in DOMAIN s : a[k] = s[m]
  <2>1. \A k \in DOMAIN a : k \in DOMAIN s /\ a[k] = s[k]
    BY <1>1, <1>2
  <2> QED
    BY <2>1
<1>5. \A k \in DOMAIN b : \E m \in DOMAIN s : b[k] = s[m]
  <2>1. \A k \in DOMAIN b : i + k \in DOMAIN s /\ b[k] = s[i + k]
    BY <1>1, <1>3
  <2> QED
    BY <2>1
<1> HIDE DEF a, b
<1>6. /\ a \o b \in Seq(S) /\ Len(a \o b) = Len(s) - 1
      /\ \A j \in DOMAIN (a \o b) :
            \/ \E k \in DOMAIN a : (a \o b)[j] = a[k]
            \/ \E k \in DOMAIN b : (a \o b)[j] = b[k]
  <2>1. a \in Seq(S) /\ b \in Seq(S)
    BY <1>2, <1>3
  <2> HIDE <1>1, <1>2, <1>3, <1>4, <1>5
  <2>2. /\ a \o b \in Seq(S) /\ Len(a \o b) = Len(a) + Len(b)
        /\ \A j \in DOMAIN (a \o b) :
              \/ \E k \in DOMAIN a : (a \o b)[j] = a[k]
              \/ \E k \in DOMAIN b : (a \o b)[j] = b[k]
    BY <2>1, Joined
  <2>3. Len(a) + Len(b) = Len(s) - 1
    BY <1>1, <1>2, <1>3
  <2> QED
    BY <2>2, <2>3
<1>7. \A j \in DOMAIN (a \o b) : \E m \in DOMAIN s : (a \o b)[j] = s[m]
  <2> SUFFICES ASSUME NEW j \in DOMAIN (a \o b) PROVE \E m \in DOMAIN s : (a \o b)[j] = s[m]
    OBVIOUS
  <2>1. CASE \E k \in DOMAIN a : (a \o b)[j] = a[k]
    BY <1>4, <2>1
  <2>2. CASE \E k \in DOMAIN b : (a \o b)[j] = b[k]
    BY <1>5, <2>2
  <2> QED
    BY <1>6, <2>1, <2>2
<1> QED
  BY <1>6, <1>7 DEF a, b

\* What a module answers, and what the bus leaves of it: frames of the register
\* asked, two at most, the first of two an acknowledgement.
LEMMA AnswerFrames ==
    ASSUME NEW r \in Nat, NEW a \in Answers(r), NEW f \in Thinned(a)
    PROVE  /\ f[1] \in Seq(Answer) /\ f[2] \in {0, 1}
           /\ Len(f[1]) <= 2
           /\ Len(f[1]) = 2 => f[1][1].kind = "ack"
           /\ \A i \in DOMAIN f[1] : f[1][i].reg = r
<1> DEFINE ack == [kind |-> "ack", reg |-> r]
           data == [kind |-> "data", reg |-> r]
           end == [kind |-> "trailer", reg |-> r]
<1>1. ack \in Answer /\ data \in Answer /\ end \in Answer
  BY DEF Answer
<1>2. a \in {<<>>, <<ack>>, <<ack, data>>, <<ack, end>>}
  BY DEF Answers
<1>3. ack.kind = "ack" /\ ack.reg = r /\ data.reg = r /\ end.reg = r
  OBVIOUS
<1> HIDE DEF ack, data, end
<1>4. /\ a \in Seq(Answer) /\ Len(a) <= 2 /\ Len(a) \in Nat
      /\ Len(a) = 2 => a[1].kind = "ack"
      /\ \A i \in DOMAIN a : a[i].reg = r
  <2>1. CASE a = <<>>
    BY <2>1
  <2>2. CASE a = <<ack>>
    BY <1>1, <1>3, <2>2
  <2>3. CASE a = <<ack, data>>
    BY <1>1, <1>3, <2>3
  <2>4. CASE a = <<ack, end>>
    BY <1>1, <1>3, <2>4
  <2> QED
    BY <1>2, <2>1, <2>2, <2>3, <2>4
<1>5. \/ f = <<a, 0>>
      \/ \E i \in DOMAIN a : f = <<SubSeq(a, 1, i - 1) \o SubSeq(a, i + 1, Len(a)), 1>>
  BY DEF Thinned
<1>6. CASE f = <<a, 0>>
  BY <1>4, <1>6
<1>7. CASE \E i \in DOMAIN a :
             f = <<SubSeq(a, 1, i - 1) \o SubSeq(a, i + 1, Len(a)), 1>>
  <2> PICK i \in DOMAIN a : f = <<SubSeq(a, 1, i - 1) \o SubSeq(a, i + 1, Len(a)), 1>>
    BY <1>7
  <2> DEFINE u == SubSeq(a, 1, i - 1) \o SubSeq(a, i + 1, Len(a))
  <2>1. /\ u \in Seq(Answer) /\ Len(u) = Len(a) - 1
        /\ \A j \in DOMAIN u : \E k \in DOMAIN a : u[j] = a[k]
    BY <1>4, OneRemoved
  <2> HIDE DEF u
  <2>2. f[1] = u /\ f[2] = 1
    BY DEF u
  <2>3. Len(u) < 2
    BY <1>4, <2>1
  <2>4. \A j \in DOMAIN u : u[j].reg = r
    BY <1>4, <2>1
  <2> QED
    BY <2>1, <2>2, <2>3, <2>4
<1> QED
  BY <1>5, <1>6, <1>7
\* The sequences of frames: what the listener takes and what a send adds.
LEMMA WireTail ==
    ASSUME NEW S, NEW s \in Seq(S), s # <<>>
    PROVE  /\ Tail(s) \in Seq(S) /\ Head(s) \in S /\ Head(s) = s[1]
           /\ Len(s) \in Nat \ {0} /\ Len(Tail(s)) = Len(s) - 1
           /\ DOMAIN s = 1..Len(s) /\ DOMAIN Tail(s) = 1..(Len(s) - 1)
           /\ \A i \in DOMAIN Tail(s) : i + 1 \in DOMAIN s /\ Tail(s)[i] = s[i + 1]
OBVIOUS

-----------------------------------------------------------------------------
(* Initially. *)

LEMMA InitScan == Init => ScanOK /\ AnswerInv
<1> SUFFICES ASSUME Init PROVE ScanOK /\ AnswerInv
  OBVIOUS
<1>1. kind \in Kinds /\ table \subseteq Nat /\ IsFiniteSet(table)
  BY ScanAssumption DEF Init
<1>2. WorldOK
  BY <1>1, Bounds DEF Init, WorldOK
<1>3. PhaseOK
  BY DEF Init, PhaseOK
<1>7. AttemptOK /\ ReadOK
  BY Bounds DEF Init, AttemptOK, ReadOK
<1>4. PlanOK
  BY Bounds DEF Init, PlanOK, Planned, NoCount
<1>5. DecodedOK
  <2>1. Len(<<>>) = 0 /\ RecLen > 0 /\ RecLen \in Nat
    BY Lengths
  <2>2. buffer \in Seq(Cell) /\ Len(buffer) < RecLen
    BY <2>1 DEF Init
  <2> QED
    BY <2>2 DEF Init, DecodedOK
<1>6. AnswerInv
  BY DEF Init, AnswerInv
<1> QED
  BY <1>2, <1>3, <1>4, <1>5, <1>6, <1>7 DEF ScanOK

-----------------------------------------------------------------------------
(* The module and the bus: only a send and the listener touch them.        *)

LEMMA StepWorld == ScanOK /\ [Next]_vars => WorldOK'
<1> SUFFICES ASSUME ScanOK, [Next]_vars PROVE WorldOK'
  OBVIOUS
<1> USE DEF worldVars, faultVars
<1>0. WorldOK /\ ReadOK
  BY DEF ScanOK
<1>1. CASE UNCHANGED <<worldVars, wire, lost>>
  BY <1>0, <1>1 DEF WorldOK
<1>2. CASE Send
  <2>1. UNCHANGED worldVars /\ Head(regs) \in Nat
    BY <1>0, <1>2 DEF Send, ReadOK
  <2>2. lost' \in 0..MaxLost /\ wire' \in Seq(Answer)
    <3>1. CASE \E a \in Answers(Head(regs)) : \E f \in Thinned(a) :
                  lost + f[2] <= MaxLost /\ lost' = lost + f[2] /\ wire' = wire \o f[1]
      <4> PICK a \in Answers(Head(regs)) : \E f \in Thinned(a) :
                  lost + f[2] <= MaxLost /\ lost' = lost + f[2] /\ wire' = wire \o f[1]
        BY <3>1
      <4> PICK f \in Thinned(a) :
                  lost + f[2] <= MaxLost /\ lost' = lost + f[2] /\ wire' = wire \o f[1]
        OBVIOUS
      <4>1. f[1] \in Seq(Answer) /\ f[2] \in {0, 1}
        BY <2>1, AnswerFrames
      <4>2. wire \in Seq(Answer) /\ lost \in 0..MaxLost
        BY <1>0 DEF WorldOK
      <4>3. wire' \in Seq(Answer)
        BY <4>1, <4>2
      <4> QED
        BY <4>1, <4>2, <4>3, Bounds
    <3>2. CASE lost < MaxLost /\ lost' = lost + 1 /\ wire' = wire
      BY <1>0, <3>2, Bounds DEF WorldOK
    <3> QED
      BY <1>2, <3>1, <3>2 DEF Send
  <2> QED
    BY <1>0, <2>1, <2>2 DEF WorldOK
<1>3. CASE Deliver
  BY <1>0, <1>3, WireTail DEF Deliver, WorldOK
<1>4. CASE Plan
  BY <1>1, <1>4 DEF Plan
<1>5. CASE StartPass
  BY <1>1, <1>5 DEF StartPass
<1>6. CASE PassDone
  BY <1>1, <1>6 DEF PassDone
<1>7. CASE PassCut
  BY <1>1, <1>7 DEF PassCut
<1>8. CASE NextRegister
  BY <1>1, <1>8 DEF NextRegister
<1>9. CASE TakeAck
  BY <1>1, <1>9 DEF TakeAck
<1>10. CASE AckTimeout
  BY <1>1, <1>10 DEF AckTimeout
<1>11. CASE DataWaitOver
  BY <1>1, <1>11 DEF DataWaitOver
<1>12. CASE GiveUp
  BY <1>1, <1>12 DEF GiveUp
<1>13. CASE Extend
  BY <1>1, <1>13 DEF Extend
<1>14. CASE Finish
  BY <1>1, <1>14 DEF Finish
<1>15. CASE UNCHANGED vars
  BY <1>1, <1>15 DEF vars
<1> QED
  BY <1>2, <1>3, <1>4, <1>5, <1>6, <1>7, <1>8, <1>9, <1>10, <1>11, <1>12, <1>13, <1>14, <1>15
     DEF Next, Scan

-----------------------------------------------------------------------------
(* Where the task is: each action says where it goes on.                   *)

LEMMA StepPhase == ScanOK /\ [Next]_vars => PhaseOK'
<1> SUFFICES ASSUME ScanOK, [Next]_vars PROVE PhaseOK'
  OBVIOUS
<1> USE DEF worldVars, faultVars, progVars, parseVars, planVars
<1>0. PhaseOK
  BY DEF ScanOK
<1> USE <1>0 DEF PhaseOK
<1>2. CASE Send
  <2>1. CASE awaiting' = TRUE /\ pc' = "ack"
    BY <1>2, <2>1 DEF Send
  <2>2. CASE AttemptFailed(attempt + 1)
    BY <1>2, <2>2 DEF Send, AttemptFailed
  <2> QED
    BY <1>2, <2>1, <2>2 DEF Send
<1>3. CASE Deliver
  <2>1. UNCHANGED <<pc, awaiting, active, reread>>
    BY <1>3 DEF Deliver
  <2>2. event' \in BOOLEAN /\ trailer' \in BOOLEAN /\ astray' \in BOOLEAN
    <3>1. CASE UNCHANGED <<event, trailer, parseVars>>
      BY <3>1
    <3>2. CASE event' = (event \/ active) /\ trailer' = (trailer \/ active) /\ UNCHANGED parseVars
      BY <3>2
    <3>3. ASSUME NEW c, event' = (event \/ active), Parse(c),
                 astray' = (astray \/ (kind = "self" /\ Head(wire).reg # block))
          PROVE  event' \in BOOLEAN /\ trailer' \in BOOLEAN /\ astray' \in BOOLEAN
      <4>1. trailer' \in BOOLEAN
        BY <3>3 DEF Parse, CountErased
      <4> QED
        BY <3>3, <4>1
    <3> QED
      BY <1>3, <3>1, <3>2, <3>3 DEF Deliver
  <2> QED
    BY <2>1, <2>2
<1>4. CASE Plan
  BY <1>4 DEF Plan
<1>5. CASE StartPass
  BY <1>5 DEF StartPass
<1>6. CASE PassDone
  BY <1>6 DEF PassDone, EndPass
<1>7. CASE PassCut
  BY <1>7 DEF PassCut, EndPass
<1>8. CASE NextRegister
  BY <1>8 DEF NextRegister
<1>9. CASE TakeAck
  BY <1>9 DEF TakeAck
<1>10. CASE AckTimeout
  BY <1>10 DEF AckTimeout, AttemptFailed
<1>11. CASE DataWaitOver
  BY <1>11 DEF DataWaitOver, AfterRead
<1>12. CASE GiveUp
  BY <1>12 DEF GiveUp, AfterRead, EndPass
<1>13. CASE Extend
  BY <1>13 DEF Extend
<1>14. CASE Finish
  BY <1>14 DEF Finish
<1>15. CASE UNCHANGED vars
  BY <1>15 DEF vars
<1> QED
  BY <1>2, <1>3, <1>4, <1>5, <1>6, <1>7, <1>8, <1>9, <1>10, <1>11, <1>12, <1>13, <1>14, <1>15
     DEF Next, Scan

\* A send counts an attempt and a failure ends them at the limit.
LEMMA StepAttempt == ScanOK /\ [Next]_vars => AttemptOK'
<1> SUFFICES ASSUME ScanOK, [Next]_vars PROVE AttemptOK'
  OBVIOUS
<1>0. AttemptOK /\ RetryLimit \in Nat
  BY Bounds DEF ScanOK
<1> USE <1>0 DEF AttemptOK
<1>1. CASE attempt' = attempt /\ (pc' = "send" => pc = "send")
  BY <1>1
<1>2. CASE Send
  BY <1>2 DEF Send, AttemptFailed
<1>3. CASE Deliver
  BY <1>1, <1>3 DEF Deliver
<1>4. CASE Plan
  BY <1>1, <1>4 DEF Plan
<1>5. CASE StartPass
  BY <1>1, <1>5 DEF StartPass
<1>6. CASE PassDone
  BY <1>1, <1>6 DEF PassDone, EndPass
<1>7. CASE PassCut
  BY <1>1, <1>7 DEF PassCut, EndPass
<1>8. CASE NextRegister
  BY <1>8 DEF NextRegister
<1>9. CASE TakeAck
  BY <1>1, <1>9 DEF TakeAck
<1>10. CASE AckTimeout
  BY <1>10 DEF AckTimeout, AttemptFailed
<1>11. CASE DataWaitOver
  BY <1>1, <1>11 DEF DataWaitOver, AfterRead
<1>12. CASE GiveUp
  BY <1>1, <1>12 DEF GiveUp, AfterRead, EndPass
<1>13. CASE Extend
  BY <1>1, <1>13 DEF Extend
<1>14. CASE Finish
  BY <1>1, <1>14 DEF Finish
<1>15. CASE UNCHANGED vars
  BY <1>1, <1>15 DEF vars
<1> QED
  BY <1>2, <1>3, <1>4, <1>5, <1>6, <1>7, <1>8, <1>9, <1>10, <1>11, <1>12, <1>13, <1>14, <1>15
     DEF Next, Scan

-----------------------------------------------------------------------------
(* The register read: the first of those left, told to the decoder.        *)

\* The registers of a plan.
LEMMA PlanShape ==
    ASSUME NEW n \in Nat
    PROVE  /\ CountPasses(n) \in Seq(Seq(Nat)) /\ Len(CountPasses(n)) = 1
           /\ <<Range0(n)>> \in Seq(Seq(Nat)) /\ Len(<<Range0(n)>>) = 1
<1>1. ASSUME NEW m \in Nat
      PROVE  <<Range0(m)>> \in Seq(Seq(Nat)) /\ Len(<<Range0(m)>>) = 1
  <2>1. Range0(m) \in Seq(Nat)
    BY RangeNumbers
  <2> HIDE DEF Range0
  <2> QED
    BY <2>1
<1>2. ((n * RecLen + RegLen - 1) \div RegLen) + 1 \in Nat
  BY Lengths
<1>3. Most(n, 1) \in Nat
  BY DEF Most
<1> QED
  BY <1>1, <1>2, <1>3 DEF CountPasses

\* A register is taken off the pass once it was read.
LEMMA StepRead == ScanOK /\ [Next]_vars => ReadOK'
<1> SUFFICES ASSUME ScanOK, [Next]_vars PROVE ReadOK'
  OBVIOUS
<1> USE DEF worldVars, faultVars, progVars, parseVars, planVars
<1>0. ReadOK /\ PhaseOK /\ passes \in Seq(Seq(Nat))
  BY DEF ScanOK, PlanOK
<1> USE <1>0 DEF ReadOK
<1>1. \A s \in Seq(Nat) : s # <<>> => Tail(s) \in Seq(Nat)
  OBVIOUS
<1>2. CASE Send
  BY <1>2 DEF Send, AttemptFailed
<1>3. CASE Deliver
  BY <1>3 DEF Deliver
<1>4. CASE Plan
  BY <1>4 DEF Plan
<1>5. CASE StartPass
  BY <1>5 DEF StartPass
<1>6. CASE PassDone
  BY <1>6 DEF PassDone, EndPass
<1>7. CASE PassCut
  BY <1>7 DEF PassCut, EndPass
<1>8. CASE NextRegister
  BY <1>8 DEF NextRegister
<1>9. CASE TakeAck
  BY <1>9 DEF TakeAck
<1>10. CASE AckTimeout
  BY <1>10 DEF AckTimeout, AttemptFailed
<1>11. CASE DataWaitOver
  BY <1>1, <1>11 DEF DataWaitOver, AfterRead
<1>12. CASE GiveUp
  <2>1. regs' = <<>> \/ regs' = Tail(regs)
    BY <1>12 DEF GiveUp, AfterRead, EndPass
  <2>2. (pc' = "pass" /\ regs' = <<>>) \/ pc' = "loop"
    BY <1>12 DEF GiveUp, AfterRead, EndPass
  <2>3. regs' \in Seq(Nat)
    <3>1. regs # <<>>
      BY <1>12 DEF GiveUp
    <3>2. <<>> \in Seq(Nat) /\ Tail(regs) \in Seq(Nat)
      BY <1>1, <3>1
    <3> QED
      BY <2>1, <3>2
  <2> QED
    BY <2>2, <2>3
<1>13. CASE Extend
  BY <1>13 DEF Extend
<1>14. CASE Finish
  BY <1>14 DEF Finish
<1>15. CASE UNCHANGED vars
  BY <1>15 DEF vars
<1> QED
  BY <1>2, <1>3, <1>4, <1>5, <1>6, <1>7, <1>8, <1>9, <1>10, <1>11, <1>12, <1>13, <1>14, <1>15
     DEF Next, Scan

-----------------------------------------------------------------------------
(* The plan: what is left of it and what was read make up the total.       *)

\* A sequence of one.
LEMMA OneElement ==
    ASSUME NEW S, NEW s \in Seq(S), Len(s) <= 1, s # <<>>
    PROVE  Len(s) = 1 /\ s[1] = Head(s) /\ Head(s) \in S /\ Tail(s) = <<>>
<1>1. Len(s) = 1 /\ s[1] = Head(s) /\ Head(s) \in S
  OBVIOUS
<1>2. Tail(s) \in Seq(S) /\ Len(Tail(s)) = 0
  BY <1>1
<1> QED
  BY <1>1, <1>2, EmptySeq

\* A plan of one pass at most.
LEMMA PlannedOne ==
    ASSUME NEW ps \in Seq(Seq(Nat)), Len(ps) <= 1
    PROVE  /\ ps = <<>> => Planned(ps) = 0
           /\ ps # <<>> => /\ Planned(ps) = Len(Head(ps)) /\ Head(ps) \in Seq(Nat)
                          /\ Tail(ps) = <<>>
           /\ Planned(ps) \in Nat
<1>1. CASE ps = <<>>
  BY <1>1 DEF Planned
<1>2. CASE ps # <<>>
  <2>1. Len(ps) = 1 /\ ps[1] = Head(ps) /\ Head(ps) \in Seq(Nat) /\ Tail(ps) = <<>>
    BY <1>2, OneElement
  <2> QED
    BY <1>2, <2>1 DEF Planned
<1> QED
  BY <1>1, <1>2

\* What a register taken off the pass leaves.
LEMMA RegsTail ==
    ASSUME regs \in Seq(Nat)
    PROVE  /\ Len(regs) \in Nat
           /\ regs # <<>> => /\ Len(regs) >= 1 /\ Tail(regs) \in Seq(Nat)
                            /\ Len(Tail(regs)) = Len(regs) - 1
OBVIOUS

\* What is read moves from the registers left to those sent.
LEMMA StepPlan == ScanOK /\ [Next]_vars => PlanOK'
<1> SUFFICES ASSUME ScanOK, [Next]_vars PROVE PlanOK'
  OBVIOUS
<1> USE DEF worldVars, faultVars, progVars, parseVars, planVars
<1>0. PlanOK /\ ReadOK /\ PhaseOK /\ regs \in Seq(Nat)
  BY DEF ScanOK, ReadOK
<1>1. /\ passes \in Seq(Seq(Nat)) /\ Len(passes) <= 1
      /\ sent \in Nat /\ total \in Nat /\ missed \in 0..sent
      /\ Planned(passes) \in Nat /\ Len(regs) \in Nat
      /\ sent + Len(regs) + Planned(passes) <= total
  BY <1>0, PlannedOne, RegsTail DEF PlanOK
<1> USE Bounds DEF PlanOK
<1>2. CASE UNCHANGED <<passes, sent, total, missed, regs, giveUps, rounds, expected>>
           /\ (active' => active)
  BY <1>0, <1>2
<1>3. CASE Send
  BY <1>2, <1>3 DEF Send
<1>4. CASE Deliver
  BY <1>2, <1>4 DEF Deliver
<1>5. CASE Plan
  <2>1. PICK n \in Nat : passes' = CountPasses(n) \/ passes' = <<Range0(n)>>
    <3>1. Cardinality(table) \in Nat
      BY FS_CardinalityType DEF ScanOK, WorldOK
    <3> QED
      BY <1>5, <3>1 DEF Plan
  <2>2. passes' \in Seq(Seq(Nat)) /\ Len(passes') = 1
    <3>1. /\ CountPasses(n) \in Seq(Seq(Nat)) /\ Len(CountPasses(n)) = 1
          /\ <<Range0(n)>> \in Seq(Seq(Nat)) /\ Len(<<Range0(n)>>) = 1
      BY PlanShape
    <3>2. CASE passes' = CountPasses(n)
      BY <3>1, <3>2, Zenon
    <3>3. CASE passes' = <<Range0(n)>>
      BY <3>1, <3>3
    <3> QED
      BY <2>1, <3>2, <3>3
  <2>3. Planned(passes') \in Nat
    <3>1. Len(passes') <= 1
      BY <2>2
    <3> QED
      BY <2>2, <3>1, PlannedOne
  <2>4. expected' \in Nat \cup {NoCount}
    BY <1>5, FS_CardinalityType DEF Plan, ScanOK, WorldOK
  <2>5. sent' = 0 /\ missed' = 0 /\ total' = Planned(passes') /\ pc = "plan"
        /\ UNCHANGED <<regs, giveUps, rounds, active>>
    BY <1>5 DEF Plan
  <2>6. Len(regs') = 0
    BY <1>0, <2>5 DEF ReadOK
  <2>7. sent' + Len(regs') + Planned(passes') <= total'
    BY <2>3, <2>5, <2>6
  <2> HIDE DEF Planned, CountPasses, Range0
  <2> QED
    BY <1>0, <2>2, <2>3, <2>4, <2>5, <2>7
<1>6. CASE StartPass
  <2>1. /\ regs' = Head(passes) /\ passes' = Tail(passes) /\ giveUps' = 0
        /\ passes # <<>> /\ UNCHANGED <<sent, total, missed, rounds, expected>>
    BY <1>6 DEF StartPass
  <2>2. Planned(passes) = Len(regs') /\ passes' = <<>>
    BY <1>1, <2>1, PlannedOne
  <2>3. Planned(passes') = 0
    BY <2>2 DEF Planned
  <2>4. passes' \in Seq(Seq(Nat)) /\ Len(passes') <= 1
    BY <2>2
  <2>5. sent' + Len(regs') + Planned(passes') <= total'
    <3>1. /\ Planned(passes) = Len(regs') /\ Planned(passes') = 0
          /\ sent' = sent /\ total' = total /\ Len(regs') \in Nat
      BY <1>1, <2>1, <2>2, <2>3
    <3> QED
      BY <1>1, <3>1
  <2> QED
    BY <1>0, <2>1, <2>4, <2>5
<1>7. CASE PassDone
  BY <1>0, <1>1, <1>7 DEF PassDone, EndPass
<1>8. CASE PassCut
  BY <1>0, <1>1, <1>8 DEF PassCut, EndPass, Shrink, Most
<1>9. CASE NextRegister
  BY <1>2, <1>9 DEF NextRegister
<1>10. CASE TakeAck
  BY <1>2, <1>10 DEF TakeAck
<1>11. CASE AckTimeout
  BY <1>2, <1>11 DEF AckTimeout, AttemptFailed
<1>12. CASE DataWaitOver
  BY <1>0, <1>1, <1>12, RegsTail DEF DataWaitOver, AfterRead, ReadOK
<1>13. CASE GiveUp
  <2>1. /\ regs # <<>> /\ UNCHANGED <<passes, rounds, expected>>
        /\ sent' = sent + 1 /\ missed' = missed + 1 /\ giveUps' = giveUps + 1
        /\ giveUps < GiveUpLimit
    BY <1>0, <1>13 DEF GiveUp, AfterRead, ReadOK, PhaseOK
  <2>2. Len(regs) >= 1
    BY <1>0, <2>1, RegsTail
  <2>3. giveUps' \in 0..GiveUpLimit /\ missed' \in 0..sent' /\ sent' \in Nat
    BY <1>0, <1>1, <2>1
  <2>4. CASE giveUps' >= GiveUpLimit
    <3>1. /\ ~active' /\ regs' = <<>>
          /\ total' = Most(sent', total - (Len(regs) - 1))
      BY <1>13, <2>4 DEF GiveUp, AfterRead, EndPass, Shrink
    <3>2. total' \in Nat /\ sent' + Len(regs') + Planned(passes') <= total'
      BY <1>1, <2>1, <2>2, <3>1 DEF Most
    <3> QED
      BY <1>0, <2>1, <2>3, <3>1, <3>2
  <2>5. CASE ~(giveUps' >= GiveUpLimit)
    <3>1. regs' = Tail(regs) /\ total' = total
      BY <1>13, <2>5 DEF GiveUp, AfterRead
    <3>2. Len(regs') = Len(regs) - 1
      BY <1>0, <2>1, <3>1, RegsTail
    <3>3. sent' + Len(regs') + Planned(passes') <= total'
      BY <1>1, <2>1, <3>1, <3>2
    <3> QED
      BY <1>0, <1>1, <2>1, <2>3, <2>5, <3>1, <3>3
  <2> QED
    BY <2>4, <2>5
<1>14. CASE Extend
  <2>1. PICK n \in 1..2 :
          /\ passes' = <<[i \in 1..n |-> FixedBand + 2 * rounds + i - 1]>>
          /\ total' = total + n
    BY <1>14 DEF Extend
  <2> DEFINE more == [i \in 1..n |-> FixedBand + 2 * rounds + i - 1]
  <2>2. more \in Seq(Nat) /\ Len(more) = n
    BY <1>0
  <2> HIDE DEF more
  <2>3. passes' = <<more>>
    BY <2>1 DEF more
  <2>4. passes' \in Seq(Seq(Nat)) /\ Len(passes') = 1 /\ Planned(passes') = n
    BY <2>2, <2>3 DEF Planned
  <2>5. /\ UNCHANGED <<sent, missed, regs, giveUps, expected, active>>
        /\ rounds' = rounds + 1 /\ rounds < Rounds
    BY <1>14 DEF Extend
  <2>6. total' \in Nat /\ sent' + Len(regs') + Planned(passes') <= total'
    <3>1. Planned(passes) = 0
      BY <1>14 DEF Extend, Planned
    <3>2. Len(regs') = Len(regs) /\ n \in 1..2
      BY <2>5
    <3> QED
      BY <1>1, <2>1, <2>4, <2>5, <3>1, <3>2
  <2>7. rounds' \in 0..Rounds
    BY <1>0, <2>5
  <2> QED
    BY <1>0, <2>4, <2>5, <2>6, <2>7
<1>15. CASE Finish
  BY <1>2, <1>15 DEF Finish
<1>16. CASE UNCHANGED vars
  BY <1>2, <1>16 DEF vars
<1> QED
  BY <1>3, <1>4, <1>5, <1>6, <1>7, <1>8, <1>9, <1>10, <1>11, <1>12, <1>13, <1>14, <1>15, <1>16
     DEF Next, Scan

-----------------------------------------------------------------------------
(* What is made of the frames.                                             *)

\* What parsing the content of a register leaves: less than a record in the
\* buffer, and slots of the table filed.
LEMMA ParseOK ==
    ASSUME WorldOK, DecodedOK, NEW r \in Nat, Parse(Content(r))
    PROVE  /\ buffer' \in Seq(Cell) /\ Len(buffer') < RecLen
           /\ aligned' \in {"open", "yes", "no"}
           /\ decoded' \in Nat /\ streak' \in Nat /\ phantoms' \in BOOLEAN
           /\ filed' \subseteq table
<1> DEFINE s       == Content(r)
           stream  == buffer \o s
           verdict == IF aligned # "open" \/ buffer # <<>> THEN aligned
                      ELSE IF LooksMisaligned(stream) THEN "no" ELSE "yes"
           cs      == IF verdict = "no" THEN <<>> ELSE Chunks(stream)
           genuine == {i \in DOMAIN cs : Whole(cs[i])}
           garbage == {i \in DOMAIN cs : MayDecode(cs[i])}
<1>1. s \in Seq(Cell)
  BY ContentCells
<1>2. stream \in Seq(Cell) /\ Len(stream) \in Nat
  <2> HIDE DEF s
  <2> QED
    BY <1>1, ConcatProperties DEF DecodedOK
<1>3. /\ aligned' = verdict
      /\ buffer' = IF verdict = "no" THEN <<>> ELSE Remainder(stream)
      /\ filed' = filed \cup {cs[i][1][1] : i \in genuine}
  BY DEF Parse
<1>4. PICK junk \in 0..Cardinality(garbage) :
        /\ decoded' = decoded + Cardinality(genuine) + junk
        /\ phantoms' = (phantoms \/ junk > 0)
        /\ CountErased(s, Cardinality(genuine) + junk)
  BY DEF Parse
<1>5. verdict \in {"open", "yes", "no"}
  BY DEF DecodedOK
<1> HIDE DEF s, stream, verdict
<1>6. Cardinality(genuine) \in Nat /\ Cardinality(garbage) \in Nat
  <2>1. \E n \in Nat : DOMAIN cs = 1..n
    <3>1. CASE verdict = "no"
      <4>1. DOMAIN cs = 1..0
        BY <3>1
      <4> QED
        BY <4>1
    <3>2. CASE verdict # "no"
      <4>1. DOMAIN cs = 1..(Len(stream) \div RecLen)
        BY <3>2 DEF Chunks
      <4>2. Len(stream) \div RecLen \in Nat
        BY <1>2, Lengths
      <4> QED
        BY <4>1, <4>2
    <3> QED
      BY <3>1, <3>2
  <2>2. IsFiniteSet(DOMAIN cs)
    BY <2>1, FS_Interval
  <2>3. genuine \subseteq DOMAIN cs /\ garbage \subseteq DOMAIN cs
    OBVIOUS
  <2> HIDE DEF cs, genuine, garbage
  <2> QED
    BY <2>2, <2>3, FS_Subset, FS_CardinalityType
<1>7. buffer' \in Seq(Cell) /\ Len(buffer') < RecLen
  <2>1. Remainder(stream) \in Seq(Cell) /\ Len(Remainder(stream)) < RecLen
    BY <1>2, RemainderShort
  <2>2. <<>> \in Seq(Cell) /\ Len(<<>>) < RecLen
    BY Lengths
  <2> QED
    BY <1>3, <2>1, <2>2
<1>8. filed' \subseteq table
  <2>1. ASSUME NEW i \in genuine PROVE cs[i][1][1] \in table
    <3>1. i \in DOMAIN cs /\ Whole(cs[i])
      BY <2>1
    <3>2. cs = Chunks(stream)
      BY <3>1
    <3> HIDE DEF cs
    <3> QED
      BY <1>2, <3>1, <3>2, ChunkSlot
  <2> QED
    BY <1>3, <2>1 DEF DecodedOK
<1> HIDE DEF cs, genuine, garbage
<1>9. decoded' \in Nat /\ junk \in Nat
  BY <1>4, <1>6 DEF DecodedOK
<1>10. phantoms' \in BOOLEAN
  BY <1>4 DEF DecodedOK
<1>11. streak' \in Nat
  BY <1>4 DEF DecodedOK, CountErased
<1> QED
  BY <1>3, <1>5, <1>7, <1>8, <1>9, <1>10, <1>11

\* Only the listener's parsing decodes, and only records of the table.
LEMMA StepDecoded == ScanOK /\ [Next]_vars => DecodedOK'
<1> SUFFICES ASSUME ScanOK, [Next]_vars PROVE DecodedOK'
  OBVIOUS
<1> USE DEF worldVars, faultVars, progVars, parseVars, planVars
<1>0. DecodedOK /\ WorldOK
  BY DEF ScanOK
<1>1. UNCHANGED worldVars
  BY DEF Next, Scan, vars, Plan, StartPass, PassDone, PassCut, NextRegister, Send, TakeAck,
         AckTimeout, DataWaitOver, GiveUp, Extend, Finish, Deliver
<1>2. RecLen' = RecLen /\ Cell' = Cell
  BY <1>1 DEF RecLen, Cell
<1>3. Len(<<>>) < RecLen /\ <<>> \in Seq(Cell)
  BY Lengths
\* All but the listener's parsing and the end of the scan.
<1>4. CASE /\ streak' \in {streak, 0} /\ decoded' \in {decoded, 0} /\ phantoms' = phantoms
           /\ buffer' \in {buffer, <<>>} /\ aligned' = aligned
           /\ filed' = filed /\ stored' = stored
  <2>1. buffer' \in Seq(Cell) /\ Len(buffer') < RecLen
    BY <1>0, <1>3, <1>4 DEF DecodedOK
  <2> QED
    BY <1>0, <1>1, <1>2, <1>4, <2>1 DEF DecodedOK
<1>5. CASE Plan
  BY <1>4, <1>5 DEF Plan
<1>6. CASE StartPass
  BY <1>4, <1>6 DEF StartPass
<1>7. CASE PassDone
  BY <1>4, <1>7 DEF PassDone, EndPass
<1>8. CASE PassCut
  BY <1>4, <1>8 DEF PassCut, EndPass
<1>9. CASE NextRegister
  BY <1>4, <1>9 DEF NextRegister
<1>10. CASE Send
  BY <1>4, <1>10 DEF Send, AttemptFailed
<1>11. CASE TakeAck
  BY <1>4, <1>11 DEF TakeAck
<1>12. CASE AckTimeout
  BY <1>4, <1>12 DEF AckTimeout, AttemptFailed
<1>13. CASE DataWaitOver
  BY <1>4, <1>13 DEF DataWaitOver, AfterRead
<1>14. CASE GiveUp
  BY <1>4, <1>14 DEF GiveUp, AfterRead, EndPass
<1>15. CASE Extend
  BY <1>4, <1>15 DEF Extend
<1>16. CASE Finish
  <2>1. UNCHANGED parseVars /\ buffer' = buffer
    BY <1>16 DEF Finish
  <2>2. stored' \subseteq table \cup {Old}
    BY <1>0, <1>16 DEF Finish, DecodedOK
  <2> QED
    BY <1>0, <1>1, <1>2, <2>1, <2>2 DEF DecodedOK
<1>17. CASE Deliver
  <2>1. CASE UNCHANGED <<parseVars, stored>>
    BY <1>4, <2>1
  <2>2. CASE wire # <<>> /\ Parse(Content(Head(wire).reg)) /\ stored' = stored
    <3>1. Head(wire).reg \in Nat
      <4>1. wire \in Seq(Answer) /\ wire # <<>>
        BY <1>0, <2>2 DEF WorldOK
      <4>2. Head(wire) \in Answer
        BY <4>1, WireTail
      <4> QED
        BY <4>2 DEF Answer
    <3>2. /\ buffer' \in Seq(Cell) /\ Len(buffer') < RecLen
          /\ aligned' \in {"open", "yes", "no"}
          /\ decoded' \in Nat /\ streak' \in Nat /\ phantoms' \in BOOLEAN
          /\ filed' \subseteq table
      BY <1>0, <2>2, <3>1, ParseOK
    <3> QED
      BY <1>0, <1>1, <1>2, <2>2, <3>2 DEF DecodedOK
  <2> QED
    BY <1>17, <2>1, <2>2 DEF Deliver
<1>18. CASE UNCHANGED vars
  BY <1>4, <1>18 DEF vars
<1> QED
  BY <1>5, <1>6, <1>7, <1>8, <1>9, <1>10, <1>11, <1>12, <1>13, <1>14, <1>15, <1>16, <1>17, <1>18
     DEF Next, Scan

-----------------------------------------------------------------------------
(* The frames on their way are the answer that is waited for.              *)

LEMMA StepAnswer == ScanOK /\ AnswerInv /\ [Next]_vars => AnswerInv'
<1> SUFFICES ASSUME ScanOK, AnswerInv, [Next]_vars, ~late' PROVE AnswerInv'
  BY DEF AnswerInv
<1> USE DEF worldVars, faultVars, progVars, parseVars, planVars
<1>0. WorldOK /\ PhaseOK /\ ReadOK
  BY DEF ScanOK
<1>1. late' = late
  BY DEF Next, Scan, vars, Plan, StartPass, PassDone, PassCut, NextRegister, Send, TakeAck,
         AckTimeout, DataWaitOver, GiveUp, Extend, Finish, Deliver
<1>2. /\ wire # <<>> => pc \in {"ack", "data"} /\ ~event
      /\ Len(wire) <= 2
      /\ Len(wire) = 2 => wire[1].kind = "ack"
      /\ \A i \in DOMAIN wire : wire[i].reg = block
      /\ ~astray
  BY <1>1 DEF AnswerInv
\* The bus is quiet before and after.
<1>3. CASE wire = <<>> /\ wire' = wire /\ astray' = astray
  BY <1>2, <1>3 DEF AnswerInv
\* The scan goes on waiting.
<1>4. CASE UNCHANGED <<wire, event, block, astray>> /\ pc' \in {"ack", "data"}
  BY <1>2, <1>4 DEF AnswerInv
<1>5. CASE UNCHANGED <<wire, pc, event, block, astray>>
  BY <1>2, <1>5 DEF AnswerInv
<1>6. CASE Send
  <2>1. wire = <<>> /\ ~event' /\ UNCHANGED <<block, astray>>
    BY <1>2, <1>6 DEF Send
  <2>2. CASE wire' = wire
    BY <1>3, <2>1, <2>2
  <2>3. CASE /\ pc' = "ack"
             /\ \E a \in Answers(Head(regs)) : \E f \in Thinned(a) : wire' = wire \o f[1]
    <3> PICK a \in Answers(Head(regs)) : \E f \in Thinned(a) : wire' = wire \o f[1]
      BY <2>3
    <3> PICK f \in Thinned(a) : wire' = wire \o f[1]
      OBVIOUS
    <3>1. Head(regs) \in Nat /\ Head(regs) = block
      BY <1>0, <1>6 DEF ReadOK, Send
    <3>2. /\ f[1] \in Seq(Answer)
          /\ Len(f[1]) <= 2
          /\ Len(f[1]) = 2 => f[1][1].kind = "ack"
          /\ \A i \in DOMAIN f[1] : f[1][i].reg = block
      BY <3>1, AnswerFrames
    <3>3. wire' = f[1]
      BY <2>1, <3>2, ConcatEmptySeq
    <3> QED
      BY <1>2, <2>1, <2>3, <3>2, <3>3 DEF AnswerInv
  <2> QED
    BY <1>6, <2>2, <2>3 DEF Send
<1>7. CASE Deliver
  <2>1. /\ wire \in Seq(Answer) /\ wire # <<>> /\ wire' = Tail(wire)
        /\ UNCHANGED <<pc, block, active>>
    BY <1>0, <1>7 DEF Deliver, WorldOK
  <2>2. /\ Head(wire) = wire[1] /\ Len(wire) \in Nat \ {0} /\ Len(wire') = Len(wire) - 1
        /\ 1 \in DOMAIN wire /\ DOMAIN wire = 1..Len(wire) /\ DOMAIN wire' = 1..(Len(wire) - 1)
        /\ \A i \in DOMAIN wire' : i + 1 \in DOMAIN wire /\ wire'[i] = wire[i + 1]
        /\ wire' \in Seq(Answer)
    BY <2>1, WireTail
  <2>3. \A i \in DOMAIN wire' : wire'[i].reg = block'
    BY <1>2, <2>1, <2>2
  <2>4. pc' \in {"ack", "data"} /\ active /\ ~event
    BY <1>0, <1>2, <2>1 DEF PhaseOK
  <2>5. Len(wire') <= 2 /\ (Len(wire') = 2 => wire'[1].kind = "ack")
    BY <1>2, <2>2
  <2>6. CASE Head(wire).kind = "ack"
    <3>1. UNCHANGED <<event, astray>>
      BY <1>7, <2>6 DEF Deliver
    <3> QED
      BY <1>2, <2>3, <2>4, <2>5, <3>1 DEF AnswerInv
  <2>7. CASE Head(wire).kind # "ack"
    <3>1. Len(wire') = 0
      BY <1>2, <2>2, <2>7
    <3>2. wire' = <<>>
      BY <2>2, <3>1
    <3>3. Head(wire).reg = block
      BY <1>2, <2>2
    <3>4. ~astray'
      BY <1>2, <1>7, <2>7, <3>3 DEF Deliver
    <3> QED
      BY <2>3, <2>5, <3>2, <3>4 DEF AnswerInv
  <2> QED
    BY <2>6, <2>7
<1>8. CASE Plan
  BY <1>2, <1>3, <1>8 DEF Plan
<1>9. CASE StartPass
  BY <1>2, <1>3, <1>9 DEF StartPass
<1>10. CASE PassDone
  BY <1>2, <1>3, <1>10 DEF PassDone
<1>11. CASE PassCut
  BY <1>2, <1>3, <1>11 DEF PassCut
<1>12. CASE NextRegister
  BY <1>2, <1>3, <1>12 DEF NextRegister
<1>13. CASE TakeAck
  BY <1>4, <1>13 DEF TakeAck
<1>14. CASE AckTimeout
  BY <1>1, <1>3, <1>14 DEF AckTimeout, AckWaitOver
<1>15. CASE DataWaitOver
  BY <1>1, <1>2, <1>3, <1>15 DEF DataWaitOver, DataCame
<1>16. CASE GiveUp
  BY <1>2, <1>3, <1>16 DEF GiveUp
<1>17. CASE Extend
  BY <1>2, <1>3, <1>17 DEF Extend
<1>18. CASE Finish
  BY <1>2, <1>3, <1>18 DEF Finish
<1>19. CASE UNCHANGED vars
  BY <1>5, <1>19 DEF vars
<1> QED
  BY <1>6, <1>7, <1>8, <1>9, <1>10, <1>11, <1>12, <1>13, <1>14, <1>15, <1>16, <1>17, <1>18, <1>19
     DEF Next, Scan

-----------------------------------------------------------------------------
(* The theorems. *)

LEMMA StepScan == ScanOK /\ [Next]_vars => ScanOK'
BY StepWorld, StepPhase, StepAttempt, StepRead, StepPlan, StepDecoded DEF ScanOK

\* The scan's invariant holds throughout.
LEMMA ScanInductive == Spec => [](ScanOK /\ AnswerInv)
<1>1. ScanOK /\ AnswerInv /\ [Next]_vars => (ScanOK /\ AnswerInv)'
  BY StepScan, StepAnswer
<1> QED
  BY InitScan, <1>1, PTL DEF Spec

\* Whatever the module answers, and however late: the task, its flags and the
\* listener's agree, a read is tried a bounded number of times, the registers
\* counted stay within the total announced, the buffer never holds a whole
\* record, and only slots of the module's table are filed.
THEOREM ScanCorrect == Spec => []TypeOK
<1>1. ScanOK => TypeOK
  <2> SUFFICES ASSUME ScanOK PROVE TypeOK
    OBVIOUS
  <2>0. WorldOK /\ PhaseOK /\ AttemptOK /\ PlanOK /\ DecodedOK /\ regs \in Seq(Nat)
    BY DEF ScanOK, ReadOK
  <2>1. awaiting = (pc \in {"ack", "data"})
    BY <2>0 DEF PhaseOK
  <2>2. active = (pc \in {"loop", "send", "ack", "data", "gaveup"})
    BY <2>0 DEF PhaseOK
  <2>3. sent \in 0..total
    <3>1. Planned(passes) \in Nat /\ Len(regs) \in Nat
      BY <2>0, PlannedOne DEF PlanOK
    <3> QED
      BY <2>0, <3>1 DEF PlanOK
  <2>4. \A i \in DOMAIN wire : wire[i].kind \in {"ack", "data", "trailer"}
    <3>1. \A i \in DOMAIN wire : wire[i] \in Answer
      BY <2>0 DEF WorldOK
    <3> QED
      BY <3>1 DEF Answer
  <2>5. {event, trailer, phantoms, astray, reread} \subseteq BOOLEAN
    BY <2>0 DEF PhaseOK, DecodedOK
  <2>6. /\ kind \in Kinds /\ shift \in {0, 1} /\ late \in BOOLEAN /\ lost \in 0..MaxLost
        /\ pc \in {"plan", "pass", "loop", "send", "ack", "data", "gaveup", "done"}
    BY <2>0 DEF WorldOK, PhaseOK
  <2>7. /\ attempt \in 0..(RetryLimit + 1) /\ giveUps \in 0..GiveUpLimit
        /\ missed \in 0..sent /\ expected \in Nat \cup {NoCount} /\ rounds \in 0..Rounds
    BY <2>0 DEF AttemptOK, PlanOK
  <2> QED
    BY <2>0, <2>1, <2>2, <2>3, <2>4, <2>5, <2>6, <2>7 DEF TypeOK, DecodedOK
<1> QED
  BY ScanInductive, <1>1, PTL

\* The decoder of a self-sizing table reads the register's number into what it
\* decodes: retries, lost frames and refused sends included, a frame is read as
\* the answer of the register it answers, while answers come within the waits.
THEOREM BlockTrue == Spec => []FrameOfItsBlock
<1>1. AnswerInv => FrameOfItsBlock
  BY DEF AnswerInv, FrameOfItsBlock
<1> QED
  BY ScanInductive, <1>1, PTL

-----------------------------------------------------------------------------
(* The table and what was read of it. *)

Records == Cardinality(table)

\* A scan whose count means something: the module said how many records it has,
\* they follow each other, and no register's data was decoded twice.
Counting ==
    /\ expected # NoCount /\ shift = 0 /\ Contiguous
    /\ ~late /\ ~reread /\ aligned # "no"

\* The units of the table that lie in a register or behind it.
Left(r) == LET units == Records * RecLen - r * RegLen
           IN IF units > 0 THEN units ELSE 0

\* The registers before r were read: what was decoded, what waits in the buffer
\* (p units, then erased ones) and what is left are no more than the table; and
\* if they are the table, nothing was skipped and every record so far is filed.
Taken(buf, dec, fil, r) ==
    \E p \in 0..Len(buf) :
       /\ \A i \in 1..Len(buf) : buf[i] # FF <=> i <= p
       /\ p < Len(buf) => Left(r) = 0
       /\ dec * RecLen + p + Left(r) <= Records * RecLen
       /\ dec * RecLen + p + Left(r) = Records * RecLen =>
             /\ fil = 0..(dec - 1)
             /\ \/ dec = Records
                \/ /\ Len(buf) = r * RegLen - dec * RecLen
                   /\ \A i \in 1..Len(buf) : buf[i] = Unit(dec * RecLen + i - 1)
TakenUpTo(r) == Taken(buffer, decoded, filed, r)

\* A table without gaps is an interval.
LEMMA TableInterval ==
    ASSUME WorldOK, Contiguous
    PROVE  Records \in Nat /\ table = 0..(Records - 1)
<1>1. Records \in Nat
  BY FS_CardinalityType DEF WorldOK, Records
<1>2. table \subseteq 0..(Records - 1)
  BY <1>1 DEF WorldOK, Contiguous, Records
<1>3. IsFiniteSet(0..(Records - 1)) /\ Cardinality(0..(Records - 1)) = Records
  BY <1>1, FS_Interval
<1> QED
  BY <1>1, <1>2, <1>3, FS_Subset DEF Records

\* The unit at an offset of a slot, in a sound table.
LEMMA SlotUnit ==
    ASSUME WorldOK, Contiguous, shift = 0, NEW d \in Nat, NEW j \in 0..(RecLen - 1)
    PROVE  Unit(d * RecLen + j) = IF d < Records THEN <<d, j>> ELSE FF
<1>1. Records \in Nat /\ table = 0..(Records - 1)
  BY TableInterval
<1> DEFINE a == d * RecLen + j
<1>2. a \in Nat /\ a \div RecLen = d /\ a % RecLen = j
  <2>1. CASE kind = "switch"
    BY <2>1, Lengths
  <2>2. CASE kind # "switch"
    BY <2>2, Lengths
  <2> QED
    BY <2>1, <2>2
<1> HIDE DEF a
<1>3. Unit(a) = IF d \in table THEN <<d, j>> ELSE FF
  BY <1>2 DEF Unit
<1> QED
  BY <1>1, <1>3 DEF a

\* A unit is erased from the end of the table on.
LEMMA UnitErased ==
    ASSUME WorldOK, Contiguous, shift = 0, NEW a \in Nat
    PROVE  Unit(a) # FF <=> a < Records * RecLen
<1>1. PICK d \in Nat, j \in 0..(RecLen - 1) : a = d * RecLen + j
  <2>1. CASE kind = "switch"
    <3>1. a \div 3 \in Nat /\ a - (a \div 3) * 3 \in 0..2
      OBVIOUS
    <3>2. RecLen = 3
      BY <2>1, Lengths
    <3>3. a = (a \div 3) * 3 + (a - (a \div 3) * 3)
      BY <3>1
    <3> QED
      BY <3>1, <3>2, <3>3
  <2>2. CASE kind # "switch"
    <3>1. RecLen = 1 /\ a = a * 1 + 0
      BY <2>2, Lengths
    <3> QED
      BY <3>1
  <2> QED
    BY <2>1, <2>2
<1>2. Unit(a) = IF d < Records THEN <<d, j>> ELSE FF
  BY <1>1, SlotUnit
<1>3. <<d, j>> # FF
  BY DEF FF
<1>4. Records \in Nat
  BY TableInterval
<1>5. a < Records * RecLen <=> d < Records
  <2>1. CASE kind = "switch"
    BY <1>1, <1>4, <2>1, Lengths
  <2>2. CASE kind # "switch"
    BY <1>1, <1>4, <2>2, Lengths
  <2> QED
    BY <2>1, <2>2
<1> QED
  BY <1>2, <1>3, <1>5

\* What a register holds of the table comes first in it.
LEMMA ContentUnits ==
    ASSUME WorldOK, Contiguous, shift = 0, NEW r \in Nat
    PROVE  /\ Left(r) \in Nat /\ Left(r + 1) \in Nat
           /\ Left(r) - Left(r + 1) \in 0..RegLen
           /\ Left(r) - Left(r + 1) < RegLen => Left(r + 1) = 0
           /\ Left(r) = 0 => Left(r + 1) = 0
           /\ \A i \in 1..RegLen :
                 /\ Content(r)[i] = Unit(r * RegLen + i - 1)
                 /\ Content(r)[i] # FF <=> i <= Left(r) - Left(r + 1)
<1>1. Records \in Nat
  BY TableInterval
<1>2. \A i \in 1..RegLen : Content(r)[i] = Unit(r * RegLen + i - 1)
  BY DEF Content
<1>3. \A i \in 1..RegLen : r * RegLen + i - 1 \in Nat
  BY Lengths
<1>4. \A i \in 1..RegLen :
         Unit(r * RegLen + i - 1) # FF <=> r * RegLen + i - 1 < Records * RecLen
  BY <1>3, UnitErased
<1> DEFINE t == Records * RecLen
           b == r * RegLen
<1>5. t \in Nat /\ b \in Nat /\ (r + 1) * RegLen = b + RegLen /\ RegLen \in {1, 8}
  BY <1>1, Lengths
<1>6. /\ Left(r) = IF t - b > 0 THEN t - b ELSE 0
      /\ Left(r + 1) = IF t - (b + RegLen) > 0 THEN t - (b + RegLen) ELSE 0
  BY <1>5 DEF Left
<1>7. \A i \in 1..RegLen : Content(r)[i] # FF <=> b + i - 1 < t
  BY <1>2, <1>4
<1> HIDE DEF t, b
<1>8. /\ Left(r) \in Nat /\ Left(r + 1) \in Nat
      /\ Left(r) - Left(r + 1) \in 0..RegLen
      /\ Left(r) - Left(r + 1) < RegLen => Left(r + 1) = 0
      /\ Left(r) = 0 => Left(r + 1) = 0
      /\ \A i \in 1..RegLen : b + i - 1 < t <=> i <= Left(r) - Left(r + 1)
  BY <1>5, <1>6
<1> QED
  BY <1>2, <1>7, <1>8

\* How a stream is cut.
LEMMA Cut ==
    ASSUME NEW S, NEW s \in Seq(S)
    PROVE  LET k == Len(s) \div RecLen IN
           /\ k \in Nat /\ k * RecLen \in 0..Len(s) /\ Len(s) - k * RecLen < RecLen
           /\ Len(s) \in Nat
           /\ DOMAIN Chunks(s) = 1..k
           /\ \A i \in 1..k :
                 /\ Len(Chunks(s)[i]) = RecLen /\ DOMAIN Chunks(s)[i] = 1..RecLen
                 /\ \A j \in 1..RecLen : Chunks(s)[i][j] = s[(i - 1) * RecLen + j]
           /\ Len(Remainder(s)) = Len(s) - k * RecLen
           /\ \A j \in 1..(Len(s) - k * RecLen) : Remainder(s)[j] = s[k * RecLen + j]
<1> DEFINE n == Len(s)
           k == n \div RecLen
           m == k * RecLen
<1>1. n \in Nat /\ k \in Nat /\ m \in 0..n /\ n - m < RecLen /\ RecLen \in {1, 3}
  BY Lengths
<1>2. Remainder(s) = [i \in 1..(n - m) |-> s[m + i]]
  BY <1>1 DEF Remainder
<1>3. /\ Len(Remainder(s)) = n - m
      /\ \A j \in 1..(n - m) : Remainder(s)[j] = s[m + j]
  <2> HIDE DEF m
  <2> QED
    BY <1>1, <1>2
<1>4. DOMAIN Chunks(s) = 1..k
  BY DEF Chunks
<1>5. ASSUME NEW i \in 1..k
      PROVE  /\ Len(Chunks(s)[i]) = RecLen /\ DOMAIN Chunks(s)[i] = 1..RecLen
             /\ \A j \in 1..RecLen : Chunks(s)[i][j] = s[(i - 1) * RecLen + j]
  <2> DEFINE a == (i - 1) * RecLen + 1
             z == i * RecLen
  <2>1. Chunks(s)[i] = SubSeq(s, a, z)
    BY DEF Chunks
  <2>2. a \in 1..n /\ z \in 1..n /\ z - a + 1 = RecLen /\ a - 1 = (i - 1) * RecLen
    <3>1. CASE RecLen = 1
      BY <1>1, <3>1
    <3>2. CASE RecLen = 3
      BY <1>1, <3>2
    <3> QED
      BY <1>1, <3>1, <3>2
  <2> HIDE DEF a, z
  <2>3. SubSeq(s, a, z) = [j \in 1..(z - a + 1) |-> s[a + j - 1]]
    BY <2>2
  <2>4. \A j \in 1..RecLen : a + j - 1 = (i - 1) * RecLen + j
    BY <1>1, <2>2
  <2>5. Chunks(s)[i] = [j \in 1..RecLen |-> s[a + j - 1]]
    BY <2>1, <2>2, <2>3
  <2>6. Len(Chunks(s)[i]) = RecLen /\ DOMAIN Chunks(s)[i] = 1..RecLen
    BY <1>1, <2>5
  <2> QED
    BY <2>4, <2>5, <2>6
<1> HIDE DEF m, k
<1> QED
  BY <1>1, <1>3, <1>4, <1>5 DEF k, m

\* A chunk that counts ends in a unit that is not erased.
LEMMA CountedEnd ==
    ASSUME NEW c, DOMAIN c = 1..RecLen, Len(c) = RecLen, Whole(c) \/ MayDecode(c)
    PROVE  c[RecLen] # FF
<1>1. RecLen \in Nat \ {0}
  BY Lengths
<1>2. CASE Whole(c)
  <2>1. c[RecLen] = <<c[1][1], RecLen - 1>>
    BY <1>1, <1>2 DEF Whole
  <2> QED
    BY <1>1, <2>1 DEF FF
<1> QED
  BY <1>2 DEF MayDecode

\* The buffer and a register's content: units of the table, then erased ones.
LEMMA StreamUnits ==
    ASSUME WorldOK, Contiguous, shift = 0, NEW r \in Nat,
           NEW b \in Seq(Cell), NEW p \in 0..Len(b),
           \A i \in 1..Len(b) : b[i] # FF <=> i <= p,
           p < Len(b) => Left(r) = 0
    PROVE  LET s == b \o Content(r)
               q == p + (Left(r) - Left(r + 1)) IN
           /\ s \in Seq(Cell) /\ Len(s) \in Nat /\ Len(s) = Len(b) + RegLen /\ q \in 0..Len(s)
           /\ \A i \in 1..Len(b) : s[i] = b[i]
           /\ \A i \in 1..RegLen : s[Len(b) + i] = Content(r)[i]
           /\ \A i \in 1..Len(s) : s[i] # FF <=> i <= q
           /\ q < Len(s) => Left(r + 1) = 0
<1> DEFINE c == Content(r)
           s == b \o c
           m == Len(b)
           x == Left(r) - Left(r + 1)
           q == p + x
<1>1. c \in Seq(Cell) /\ Len(c) = RegLen /\ RegLen \in Nat
  BY ContentCells, Lengths
<1>2. /\ x \in 0..RegLen /\ (x < RegLen => Left(r + 1) = 0)
      /\ Left(r) = 0 => Left(r + 1) = 0 /\ x = 0
      /\ \A i \in 1..RegLen : c[i] # FF <=> i <= x
  <2>1. /\ Left(r) \in Nat /\ Left(r + 1) \in Nat
        /\ x \in 0..RegLen /\ (x < RegLen => Left(r + 1) = 0)
        /\ Left(r) = 0 => Left(r + 1) = 0
        /\ \A i \in 1..RegLen : c[i] # FF <=> i <= x
    BY ContentUnits, Zenon
  <2>2. Left(r) = 0 => x = 0
    BY <2>1
  <2> QED
    BY <2>1, <2>2
<1>3. m \in Nat /\ p \in 0..m
  OBVIOUS
<1> HIDE DEF c, x
<1>4. /\ s \in Seq(Cell) /\ Len(s) = m + RegLen
      /\ \A i \in 1..m : s[i] = b[i]
      /\ \A i \in 1..RegLen : s[m + i] = c[i]
  BY <1>1
<1> HIDE DEF s, m
<1>5. q \in 0..Len(s) /\ (q < Len(s) => Left(r + 1) = 0)
  BY <1>1, <1>2, <1>3, <1>4 DEF m
<1>6. ASSUME NEW i \in 1..Len(s) PROVE s[i] # FF <=> i <= q
  <2>1. CASE i <= m
    <3>1. s[i] # FF <=> i <= p
      BY <1>3, <1>4, <2>1 DEF m
    <3>2. p < m => x = 0
      BY <1>2 DEF m
    <3> QED
      BY <1>2, <1>3, <2>1, <3>1, <3>2
  <2>2. CASE i > m
    <3>1. i - m \in 1..RegLen /\ i = m + (i - m)
      BY <1>1, <1>3, <1>4, <2>2
    <3>2. s[i] # FF <=> i - m <= x
      BY <1>2, <1>4, <3>1
    <3>3. p < m => x = 0
      BY <1>2 DEF m
    <3> QED
      BY <1>2, <1>3, <2>2, <3>1, <3>2, <3>3
  <2> QED
    BY <1>1, <1>3, <1>4, <2>1, <2>2
<1> QED
  BY <1>1, <1>3, <1>4, <1>5, <1>6 DEF c, s, m, x

\* What counts is whole in the units that are not erased.
LEMMA ChunksCounted ==
    ASSUME NEW S, NEW s \in Seq(S), NEW q \in 0..Len(s),
           \A i \in 1..Len(s) : s[i] # FF <=> i <= q
    PROVE  LET k == Len(s) \div RecLen
               gen == {i \in DOMAIN Chunks(s) : Whole(Chunks(s)[i])}
               gar == {i \in DOMAIN Chunks(s) : MayDecode(Chunks(s)[i])} IN
           /\ Cardinality(gen) \in Nat /\ Cardinality(gar) \in Nat
           /\ \A junk \in 0..Cardinality(gar) :
                 /\ Cardinality(gen) + junk \in 0..k
                 /\ (Cardinality(gen) + junk) * RecLen <= q
           /\ \A i \in gen : i * RecLen <= q
<1> DEFINE k == Len(s) \div RecLen
           m == q \div RecLen
           gen == {i \in DOMAIN Chunks(s) : Whole(Chunks(s)[i])}
           gar == {i \in DOMAIN Chunks(s) : MayDecode(Chunks(s)[i])}
<1>0. Len(s) \in Nat /\ RecLen \in {1, 3}
  BY Lengths
<1>1. m \in Nat /\ m <= k /\ k \in Nat /\ (\A i \in Nat : i * RecLen <= q <=> i <= m)
  <2>1. CASE RecLen = 1
    BY <1>0, <2>1
  <2>2. CASE RecLen = 3
    BY <1>0, <2>2
  <2> QED
    BY <1>0, <2>1, <2>2
<1>2. ASSUME NEW i \in DOMAIN Chunks(s), Whole(Chunks(s)[i]) \/ MayDecode(Chunks(s)[i])
      PROVE  i \in 1..m
  <2>1. /\ i \in 1..k /\ Len(Chunks(s)[i]) = RecLen /\ DOMAIN Chunks(s)[i] = 1..RecLen
        /\ Chunks(s)[i][RecLen] = s[(i - 1) * RecLen + RecLen]
    BY <1>0, Cut
  <2>2. (i - 1) * RecLen + RecLen = i * RecLen /\ i * RecLen \in 1..Len(s)
    <3>1. CASE RecLen = 1
      BY <1>0, <2>1, <3>1
    <3>2. CASE RecLen = 3
      BY <1>0, <2>1, <3>2
    <3> QED
      BY <1>0, <3>1, <3>2
  <2>3. Chunks(s)[i][RecLen] # FF
    BY <1>2, <2>1, CountedEnd
  <2>4. i * RecLen <= q
    BY <2>1, <2>2, <2>3
  <2> QED
    BY <1>1, <2>1, <2>4
<1>3. gen \subseteq 1..m /\ gar \subseteq 1..m /\ gen \cap gar = {}
  BY <1>2 DEF MayDecode
<1> HIDE DEF m, gen, gar
<1>4. IsFiniteSet(1..m) /\ Cardinality(1..m) = m
  BY <1>1, FS_Interval
<1>5. IsFiniteSet(gen) /\ IsFiniteSet(gar)
  BY <1>3, <1>4, FS_Subset
<1>6. Cardinality(gen) \in Nat /\ Cardinality(gar) \in Nat
  BY <1>5, FS_CardinalityType
<1>7. Cardinality(gen) + Cardinality(gar) <= m
  <2>1. Cardinality(gen \cup gar) = Cardinality(gen) + Cardinality(gar) - Cardinality(gen \cap gar)
    BY <1>5, FS_Union
  <2>2. Cardinality(gen \cap gar) = 0
    BY <1>3, FS_EmptySet
  <2>3. gen \cup gar \in SUBSET (1..m)
    BY <1>3
  <2>4. Cardinality(gen \cup gar) <= m
    BY <1>4, <2>3, FS_Subset
  <2> QED
    BY <1>6, <2>1, <2>2, <2>4
<1>8. ASSUME NEW junk \in 0..Cardinality(gar)
      PROVE  /\ Cardinality(gen) + junk \in 0..k
             /\ (Cardinality(gen) + junk) * RecLen <= q
  <2>1. Cardinality(gen) + junk \in Nat /\ Cardinality(gen) + junk <= m
    BY <1>1, <1>6, <1>7
  <2> HIDE DEF k
  <2> QED
    BY <1>1, <2>1
<1>9. \A i \in gen : i * RecLen <= q
  BY <1>1, <1>3
<1> QED
  BY <1>6, <1>8, <1>9 DEF gen, gar

\* Cut in phase, the chunks are the records from d on.
LEMMA InPhase ==
    ASSUME WorldOK, Contiguous, shift = 0, NEW d \in 0..Records,
           NEW s \in Seq(Cell),
           \A i \in 1..Len(s) : s[i] = Unit(d * RecLen + i - 1)
    PROVE  LET k == Len(s) \div RecLen
               gen == {i \in DOMAIN Chunks(s) : Whole(Chunks(s)[i])}
               gar == {i \in DOMAIN Chunks(s) : MayDecode(Chunks(s)[i])}
               c == IF k < Records - d THEN k ELSE Records - d IN
           /\ gar = {} /\ Cardinality(gen) = c /\ c \in Nat
           /\ {Chunks(s)[i][1][1] : i \in gen} = d..(d + c - 1)
           /\ \A j \in 1..(Len(s) - k * RecLen) :
                 Remainder(s)[j] = Unit((d + k) * RecLen + j - 1)
<1> DEFINE k == Len(s) \div RecLen
           gen == {i \in DOMAIN Chunks(s) : Whole(Chunks(s)[i])}
           gar == {i \in DOMAIN Chunks(s) : MayDecode(Chunks(s)[i])}
           c == IF k < Records - d THEN k ELSE Records - d
<1>0. Len(s) \in Nat /\ RecLen \in {1, 3} /\ k \in Nat /\ Records \in Nat
      /\ k * RecLen \in 0..Len(s)
  BY Lengths, Cut, TableInterval
<1> HIDE DEF k
<1>1. DOMAIN Chunks(s) = 1..k
  BY Cut DEF k
<1>2. ASSUME NEW i \in 1..k
      PROVE  /\ DOMAIN Chunks(s)[i] = 1..RecLen /\ Len(Chunks(s)[i]) = RecLen
             /\ \A j \in 1..RecLen :
                   Chunks(s)[i][j] = IF d + i - 1 < Records THEN <<d + i - 1, j - 1>> ELSE FF
  <2>1. /\ DOMAIN Chunks(s)[i] = 1..RecLen /\ Len(Chunks(s)[i]) = RecLen
        /\ \A j \in 1..RecLen : Chunks(s)[i][j] = s[(i - 1) * RecLen + j]
    BY Cut DEF k
  <2>2. ASSUME NEW j \in 1..RecLen
        PROVE  Chunks(s)[i][j] = IF d + i - 1 < Records THEN <<d + i - 1, j - 1>> ELSE FF
    <3>1. /\ (i - 1) * RecLen + j \in 1..Len(s)
          /\ d * RecLen + ((i - 1) * RecLen + j) - 1 = (d + i - 1) * RecLen + (j - 1)
          /\ d + i - 1 \in Nat /\ j - 1 \in 0..(RecLen - 1)
      <4>1. CASE RecLen = 1
        BY <1>0, <4>1
      <4>2. CASE RecLen = 3
        BY <1>0, <4>2
      <4> QED
        BY <1>0, <4>1, <4>2
    <3>2. Chunks(s)[i][j] = Unit((d + i - 1) * RecLen + (j - 1))
      BY <2>1, <3>1
    <3> QED
      BY <3>1, <3>2, SlotUnit
  <2> QED
    BY <2>1, <2>2
<1>3. ASSUME NEW i \in 1..k
      PROVE  /\ Whole(Chunks(s)[i]) <=> d + i - 1 < Records
             /\ ~MayDecode(Chunks(s)[i])
             /\ d + i - 1 < Records => Chunks(s)[i][1][1] = d + i - 1
  <2>1. 1 \in 1..RecLen /\ RecLen \in 1..RecLen
    BY <1>0
  <2>2. CASE d + i - 1 < Records
    <3>1. \A j \in 1..RecLen : Chunks(s)[i][j] = <<d + i - 1, j - 1>>
      BY <1>2, <2>2
    <3>2. Chunks(s)[i][1] = <<d + i - 1, 0>> /\ d + i - 1 \in Nat
      BY <1>0, <2>1, <3>1
    <3>3. Chunks(s)[i][1] # FF
      BY <3>2 DEF FF
    <3>4. \A j \in DOMAIN Chunks(s)[i] : Chunks(s)[i][j] = <<Chunks(s)[i][1][1], j - 1>>
      <4>1. DOMAIN Chunks(s)[i] = 1..RecLen
        BY <1>2
      <4>2. Chunks(s)[i][1][1] = d + i - 1
        BY <3>2
      <4> QED
        BY <3>1, <4>1, <4>2
    <3>5. Chunks(s)[i][1][2] = 0 /\ Chunks(s)[i][1][1] = d + i - 1
      BY <3>2
    <3>6. Whole(Chunks(s)[i])
      BY <3>3, <3>4, <3>5 DEF Whole
    <3> QED
      BY <2>2, <3>5, <3>6 DEF MayDecode
  <2>3. CASE ~(d + i - 1 < Records)
    <3>1. Chunks(s)[i][1] = FF /\ Chunks(s)[i][RecLen] = FF
      BY <1>2, <2>1, <2>3
    <3> QED
      BY <1>2, <2>3, <3>1 DEF Whole, MayDecode
  <2> QED
    BY <2>2, <2>3
<1>4. c \in Nat /\ c <= k /\ (\A i \in 1..k : d + i - 1 < Records <=> i <= c)
  BY <1>0
<1>5. gar = {} /\ gen = 1..c
  <2>1. gar = {}
    BY <1>1, <1>3
  <2> HIDE DEF c
  <2>2. 1..c \subseteq 1..k
    BY <1>0, <1>4
  <2>3. \A i \in 1..k : i \in gen <=> i \in 1..c
    <3> SUFFICES ASSUME NEW i \in 1..k PROVE i \in gen <=> i \in 1..c
      OBVIOUS
    <3>1. i \in gen <=> Whole(Chunks(s)[i])
      BY <1>1
    <3>2. i \in 1..c <=> d + i - 1 < Records
      <4>1. d + i - 1 < Records <=> i <= c
        BY <1>4
      <4>2. i \in Nat /\ i >= 1 /\ c \in Nat
        BY <1>0, <1>4
      <4>3. i \in 1..c <=> i <= c
        BY <4>2
      <4> QED
        BY <4>1, <4>3
    <3> QED
      BY <1>3, <3>1, <3>2
  <2>4. gen \subseteq 1..k
    BY <1>1
  <2> HIDE DEF gen
  <2> QED
    BY <2>1, <2>2, <2>3, <2>4
<1>6. Cardinality(gen) = c
  <2> HIDE DEF c, gen
  <2> QED
    BY <1>4, <1>5, FS_Interval
<1>7. {Chunks(s)[i][1][1] : i \in gen} = d..(d + c - 1)
  <2> HIDE DEF c, gen
  <2>1. \A i \in gen : i \in 1..c /\ Chunks(s)[i][1][1] = d + i - 1
    <3> SUFFICES ASSUME NEW i \in gen PROVE i \in 1..c /\ Chunks(s)[i][1][1] = d + i - 1
      OBVIOUS
    <3>1. i \in 1..c /\ i \in 1..k
      BY <1>0, <1>4, <1>5
    <3>2. d + i - 1 < Records
      BY <1>4, <3>1
    <3> QED
      BY <1>3, <3>1, <3>2
  <2>2. \A x \in d..(d + c - 1) : x - d + 1 \in gen /\ Chunks(s)[x - d + 1][1][1] = x
    <3> TAKE x \in d..(d + c - 1)
    <3>1. x - d + 1 \in 1..c /\ d + (x - d + 1) - 1 = x
      BY <1>4
    <3> QED
      BY <1>5, <2>1, <3>1
  <2>3. \A i \in 1..c : d + i - 1 \in d..(d + c - 1)
    BY <1>4
  <2>4. {Chunks(s)[i][1][1] : i \in gen} \subseteq d..(d + c - 1)
    BY <2>1, <2>3
  <2>5. d..(d + c - 1) \subseteq {Chunks(s)[i][1][1] : i \in gen}
    BY <2>2
  <2> QED
    BY <2>4, <2>5
<1>8. ASSUME NEW j \in 1..(Len(s) - k * RecLen)
      PROVE  Remainder(s)[j] = Unit((d + k) * RecLen + j - 1)
  <2>1. Remainder(s)[j] = s[k * RecLen + j]
    BY Cut DEF k
  <2>2. /\ k * RecLen + j \in 1..Len(s)
        /\ d * RecLen + (k * RecLen + j) - 1 = (d + k) * RecLen + j - 1
    <3>1. CASE RecLen = 1
      BY <1>0, <3>1
    <3>2. CASE RecLen = 3
      BY <1>0, <3>2
    <3> QED
      BY <1>0, <3>1, <3>2
  <2> QED
    BY <2>1, <2>2
<1> QED
  BY <1>4, <1>5, <1>6, <1>7, <1>8 DEF k

\* Lengths in units add up.
LEMMA UnitSums ==
    ASSUME NEW a \in Int, NEW b \in Int
    PROVE  /\ a * RecLen \in Int /\ (a + b) * RecLen = a * RecLen + b * RecLen
           /\ a * RegLen \in Int /\ (a + 1) * RegLen = a * RegLen + RegLen
           /\ a <= b <=> a * RecLen <= b * RecLen
           /\ a = b <=> a * RecLen = b * RecLen
<1>1. CASE kind = "switch"
  <2>1. RecLen = 3 /\ RegLen = 8
    BY <1>1, Lengths
  <2> QED
    BY <2>1
<1>2. CASE kind # "switch"
  <2>1. RecLen = 1 /\ RegLen = 1
    BY <1>2, Lengths
  <2> QED
    BY <2>1
<1> QED
  BY <1>1, <1>2

\* What Parse does with a stream that is not given up.
LEMMA ParseCuts ==
    ASSUME NEW r \in Nat, Parse(Content(r)), aligned' # "no"
    PROVE  LET s == buffer \o Content(r)
               gen == {i \in DOMAIN Chunks(s) : Whole(Chunks(s)[i])}
               gar == {i \in DOMAIN Chunks(s) : MayDecode(Chunks(s)[i])} IN
           /\ buffer' = Remainder(s)
           /\ filed' = filed \cup {Chunks(s)[i][1][1] : i \in gen}
           /\ \E junk \in 0..Cardinality(gar) :
                 decoded' = decoded + Cardinality(gen) + junk
<1> DEFINE s == buffer \o Content(r)
           verdict == IF aligned # "open" \/ buffer # <<>> THEN aligned
                      ELSE IF LooksMisaligned(s) THEN "no" ELSE "yes"
           cs == IF verdict = "no" THEN <<>> ELSE Chunks(s)
           genuine == {i \in DOMAIN cs : Whole(cs[i])}
           garbage == {i \in DOMAIN cs : MayDecode(cs[i])}
<1>1. /\ aligned' = verdict
      /\ buffer' = IF verdict = "no" THEN <<>> ELSE Remainder(s)
      /\ filed' = filed \cup {cs[i][1][1] : i \in genuine}
      /\ \E junk \in 0..Cardinality(garbage) :
            decoded' = decoded + Cardinality(genuine) + junk
  BY DEF Parse
<1> HIDE DEF verdict
<1>2. cs = Chunks(s)
  BY <1>1
<1> HIDE DEF cs
<1> QED
  BY <1>1, <1>2

\* A register whose data is parsed takes its units from what is left.
LEMMA ParseTaken ==
    ASSUME WorldOK, DecodedOK, Contiguous, shift = 0, NEW r \in Nat,
           TakenUpTo(r), Parse(Content(r)), aligned' # "no"
    PROVE  Taken(buffer', decoded', filed', r + 1)
<1> DEFINE s == buffer \o Content(r)
           k == Len(s) \div RecLen
           gen == {i \in DOMAIN Chunks(s) : Whole(Chunks(s)[i])}
           gar == {i \in DOMAIN Chunks(s) : MayDecode(Chunks(s)[i])}
           left == Left(r + 1)
           T == Records * RecLen
           D == decoded * RecLen
           K == k * RecLen
<1>1. PICK p \in 0..Len(buffer) :
        /\ \A i \in 1..Len(buffer) : buffer[i] # FF <=> i <= p
        /\ p < Len(buffer) => Left(r) = 0
        /\ decoded * RecLen + p + Left(r) <= Records * RecLen
        /\ decoded * RecLen + p + Left(r) = Records * RecLen =>
             /\ filed = 0..(decoded - 1)
             /\ \/ decoded = Records
                \/ /\ Len(buffer) = r * RegLen - decoded * RecLen
                   /\ \A i \in 1..Len(buffer) : buffer[i] = Unit(decoded * RecLen + i - 1)
  BY Zenon DEF TakenUpTo, Taken
<1> DEFINE q == p + (Left(r) - Left(r + 1))
<1>2. /\ decoded \in Nat /\ buffer \in Seq(Cell) /\ Len(buffer) \in Nat /\ Records \in Nat
      /\ RecLen \in {1, 3} /\ RegLen \in {1, 8}
  BY TableInterval, Lengths DEF DecodedOK
<1>3. /\ s \in Seq(Cell) /\ Len(s) \in Nat /\ Len(s) = Len(buffer) + RegLen /\ q \in 0..Len(s)
      /\ \A i \in 1..Len(buffer) : s[i] = buffer[i]
      /\ \A i \in 1..RegLen : s[Len(buffer) + i] = Content(r)[i]
      /\ \A i \in 1..Len(s) : s[i] # FF <=> i <= q
      /\ q < Len(s) => left = 0
  BY <1>1, <1>2, StreamUnits, Zenon
<1>4. /\ Left(r) \in Nat /\ left \in Nat /\ Left(r) - left \in Nat
      /\ \A i \in 1..RegLen : Content(r)[i] = Unit(r * RegLen + i - 1)
  BY ContentUnits
<1>5. PICK junk \in 0..Cardinality(gar) :
        /\ decoded' = decoded + Cardinality(gen) + junk
        /\ buffer' = Remainder(s)
        /\ filed' = filed \cup {Chunks(s)[i][1][1] : i \in gen}
  BY ParseCuts, Zenon
<1> HIDE DEF s
<1>6. /\ k \in Nat /\ K \in 0..Len(s) /\ Len(s) - K < RecLen
      /\ Len(Remainder(s)) = Len(s) - K
      /\ \A j \in 1..(Len(s) - K) : Remainder(s)[j] = s[K + j]
      /\ DOMAIN Chunks(s) = 1..k
  BY <1>3, Cut
<1> HIDE DEF q
<1>7. /\ Cardinality(gen) \in Nat /\ Cardinality(gar) \in Nat
      /\ Cardinality(gen) + junk \in 0..k
      /\ (Cardinality(gen) + junk) * RecLen <= q
      /\ \A i \in gen : i * RecLen <= q
  BY <1>3, ChunksCounted
<1> DEFINE n == Cardinality(gen) + junk
           pp == IF q > K THEN q - K ELSE 0
<1> HIDE DEF k, gen, gar
<1>8. /\ n \in 0..k /\ decoded' = decoded + n /\ n * RecLen \in Nat /\ n * RecLen <= q
      /\ n * RecLen <= K /\ decoded' * RecLen = D + n * RecLen /\ D \in Nat /\ T \in Nat
  <2>1. n \in 0..k /\ n \in Int /\ decoded' = decoded + n /\ n * RecLen <= q
    BY <1>2, <1>5, <1>6, <1>7
  <2> HIDE DEF n
  <2>2. n * RecLen <= k * RecLen /\ (decoded + n) * RecLen = decoded * RecLen + n * RecLen
    <3>1. k \in Int /\ n \in Int /\ decoded \in Int /\ n <= k
      BY <1>2, <1>6, <2>1
    <3> QED
      BY <3>1, UnitSums
  <2>3. n * RecLen \in Nat /\ decoded * RecLen \in Nat /\ Records * RecLen \in Nat
    BY <1>2, <2>1
  <2> QED
    BY <2>1, <2>2, <2>3
<1> HIDE DEF n, K, D, T, left
<1>9. /\ pp \in 0..Len(buffer') /\ Len(buffer') = Len(s) - K
      /\ pp < Len(buffer') => left = 0
      /\ \A i \in 1..Len(buffer') : buffer'[i] # FF <=> i <= pp
  <2>1. Len(buffer') = Len(s) - K /\ \A j \in 1..(Len(s) - K) : buffer'[j] = s[K + j]
    BY <1>5, <1>6
  <2>2. pp \in 0..(Len(s) - K) /\ (pp < Len(s) - K => q < Len(s))
    BY <1>3, <1>6
  <2>3. \A j \in 1..(Len(s) - K) : K + j \in 1..Len(s) /\ (K + j <= q <=> j <= pp)
    BY <1>3, <1>6
  <2> QED
    BY <1>3, <2>1, <2>2, <2>3
<1> DEFINE N == n * RecLen
           E == decoded' * RecLen
           here == Left(r)
<1>10. /\ N \in Nat /\ N <= q /\ N <= K /\ E = D + N /\ D \in Nat /\ T \in Nat
       /\ here \in Nat /\ left \in Nat /\ q \in Nat /\ K \in Nat /\ p \in Nat
       /\ q = p + (here - left) /\ D + p + here <= T
       /\ pp = IF q > K THEN q - K ELSE 0
  <2>1. p \in Nat /\ q \in Nat /\ K \in Nat
    BY <1>2, <1>3, <1>6
  <2>2. q = p + (here - left)
    BY DEF q, left
  <2>3. D + p + here <= T
    BY <1>1 DEF D, T
  <2> QED
    BY <1>4, <1>8, <2>1, <2>2, <2>3
<1> HIDE DEF N, E, here, pp
<1>11. E + pp + left <= T /\ (E + pp + left = T => D + p + here = T /\ N + pp = q)
  BY <1>10
<1>12. ASSUME E + pp + left = T
       PROVE  /\ filed' = 0..(decoded' - 1)
              /\ \/ decoded' = Records
                 \/ /\ Len(buffer') = (r + 1) * RegLen - decoded' * RecLen
                    /\ \A i \in 1..Len(buffer') : buffer'[i] = Unit(decoded' * RecLen + i - 1)
  <2>1. D + p + here = T /\ N + pp = q
    BY <1>11, <1>12
  <2>2. filed = 0..(decoded - 1)
    BY <1>1, <2>1 DEF D, T, here
  <2>3. CASE decoded = Records
    <3>1. D = T
      BY <2>3 DEF D, T
    <3>2. q = 0
      BY <1>10, <2>1, <3>1
    <3>3. n = 0
      BY <1>2, <1>6, <1>8, <3>2
    <3>4. gen = {}
      <4> SUFFICES ASSUME NEW i \in gen PROVE FALSE
        OBVIOUS
      <4>1. i \in Nat /\ i >= 1
        BY <1>6 DEF gen
      <4>2. i * RecLen >= 1 /\ i * RecLen \in Nat
        BY <1>2, <4>1
      <4>3. i * RecLen <= 0
        BY <1>7, <3>2
      <4> QED
        BY <4>2, <4>3
    <3> QED
      BY <1>2, <1>5, <1>8, <2>2, <2>3, <3>3, <3>4
  <2>4. CASE /\ Len(buffer) = r * RegLen - decoded * RecLen
             /\ \A i \in 1..Len(buffer) : buffer[i] = Unit(decoded * RecLen + i - 1)
    <3> DEFINE c == IF k < Records - decoded THEN k ELSE Records - decoded
    <3>1. decoded \in 0..Records
      <4>1. decoded * RecLen <= Records * RecLen
        <5>1. D <= T
          BY <1>10, <2>1
        <5> QED
          BY <5>1 DEF D, T
      <4> QED
        BY <1>2, <4>1, UnitSums
    <3>2. \A i \in 1..Len(s) : s[i] = Unit(decoded * RecLen + i - 1)
      <4> SUFFICES ASSUME NEW i \in 1..Len(s) PROVE s[i] = Unit(D + i - 1)
        BY DEF D
      <4>1. CASE i <= Len(buffer)
        <5>1. i \in 1..Len(buffer)
          BY <1>2, <4>1
        <5>2. s[i] = buffer[i]
          BY <1>3, <5>1
        <5>3. buffer[i] = Unit(D + i - 1)
          BY <2>4, <5>1, Zenon DEF D
        <5> QED
          BY <5>2, <5>3
      <4>2. CASE i > Len(buffer)
        <5> DEFINE j == i - Len(buffer)
                   b == r * RegLen
        <5>1. j \in 1..RegLen /\ i = Len(buffer) + j
          BY <1>2, <1>3, <4>2
        <5>2. b \in Nat /\ Len(buffer) = b - D
          BY <1>2, <2>4 DEF D
        <5> HIDE DEF j
        <5>3. s[i] = Unit(b + j - 1)
          BY <1>3, <1>4, <5>1
        <5> HIDE DEF b
        <5>4. b + j - 1 = D + i - 1
          BY <1>2, <1>8, <5>1, <5>2
        <5> QED
          BY <5>3, <5>4
      <4> QED
        BY <1>2, <4>1, <4>2
    <3>3. /\ gar = {} /\ Cardinality(gen) = c /\ c \in Nat
          /\ {Chunks(s)[i][1][1] : i \in gen} = decoded..(decoded + c - 1)
          /\ \A j \in 1..(Len(s) - k * RecLen) :
                Remainder(s)[j] = Unit((decoded + k) * RecLen + j - 1)
      <4>1. s \in Seq(Cell)
        BY <1>3
      <4>2. LET kk == Len(s) \div RecLen
                g == {i \in DOMAIN Chunks(s) : Whole(Chunks(s)[i])}
                h == {i \in DOMAIN Chunks(s) : MayDecode(Chunks(s)[i])}
                cc == IF kk < Records - decoded THEN kk ELSE Records - decoded IN
            /\ h = {} /\ Cardinality(g) = cc /\ cc \in Nat
            /\ {Chunks(s)[i][1][1] : i \in g} = decoded..(decoded + cc - 1)
            /\ \A j \in 1..(Len(s) - kk * RecLen) :
                  Remainder(s)[j] = Unit((decoded + kk) * RecLen + j - 1)
        BY <3>1, <3>2, <4>1, InPhase, Zenon
      <4> QED
        BY <4>2, Zenon DEF k, gen, gar, c
    <3>4. junk = 0 /\ n = c
      <4>1. Cardinality(gar) = 0
        BY <3>3, FS_EmptySet
      <4> QED
        BY <3>3, <4>1 DEF n
    <3>5. filed' = 0..(decoded' - 1)
      <4>1. filed' = filed \cup decoded..(decoded + c - 1)
        BY <1>5, <3>3
      <4> HIDE DEF c
      <4>2. decoded' = decoded + c /\ c \in Nat
        BY <1>8, <3>3, <3>4
      <4>3. 0..(decoded + c - 1) = (0..(decoded - 1)) \cup (decoded..(decoded + c - 1))
        BY <1>2, <4>2
      <4>4. decoded' - 1 = decoded + c - 1
        BY <1>2, <4>2
      <4> QED
        BY <2>2, <4>1, <4>3, <4>4
    <3>6. CASE c = Records - decoded
      BY <1>2, <1>8, <3>4, <3>5, <3>6
    <3>7. CASE c = k
      <4>1. decoded' = decoded + k /\ decoded' * RecLen = D + K
        BY <1>8, <3>4, <3>7 DEF K
      <4>2. Len(buffer') = (r + 1) * RegLen - decoded' * RecLen
        <5>1. (r + 1) * RegLen = r * RegLen + RegLen /\ r * RegLen \in Int
          BY UnitSums
        <5>2. Len(buffer) = r * RegLen - D
          BY <2>4 DEF D
        <5> DEFINE b == r * RegLen
        <5>3. /\ Len(buffer') = Len(buffer) + RegLen - K /\ Len(buffer) = b - D
              /\ decoded' * RecLen = D + K /\ (r + 1) * RegLen = b + RegLen /\ b \in Int
          <6>1. Len(buffer') = Len(buffer) + RegLen - K
            BY <1>2, <1>3, <1>6, <1>9
          <6> QED
            BY <4>1, <5>1, <5>2, <6>1
        <5>4. K \in Int /\ RegLen \in Int /\ D \in Int
          BY <1>2, <1>6, <1>8
        <5> HIDE DEF b
        <5> QED
          BY <5>3, <5>4
      <4>3. \A i \in 1..Len(buffer') : buffer'[i] = Unit(decoded' * RecLen + i - 1)
        BY <1>5, <1>9, <3>3, <4>1 DEF K
      <4> QED
        BY <3>5, <4>2, <4>3
    <3> QED
      BY <3>6, <3>7
  <2> QED
    BY <1>1, <2>1, <2>3, <2>4 DEF D, T, here
<1> QED
  BY <1>9, <1>11, <1>12 DEF Taken, left, T, E

\* A register without data read, or passed over: what it held is missing from
\* what was taken, or it held nothing and the records are all decoded.
LEMMA SkipTaken ==
    ASSUME WorldOK, DecodedOK, Contiguous, shift = 0, NEW r \in Nat, TakenUpTo(r)
    PROVE  TakenUpTo(r + 1)
<1> DEFINE here == Left(r)
           left == Left(r + 1)
           T == Records * RecLen
           D == decoded * RecLen
<1>1. PICK p \in 0..Len(buffer) :
        /\ \A i \in 1..Len(buffer) : buffer[i] # FF <=> i <= p
        /\ p < Len(buffer) => here = 0
        /\ D + p + here <= T
        /\ D + p + here = T =>
             /\ filed = 0..(decoded - 1)
             /\ \/ decoded = Records
                \/ /\ Len(buffer) = r * RegLen - decoded * RecLen
                   /\ \A i \in 1..Len(buffer) : buffer[i] = Unit(decoded * RecLen + i - 1)
  BY Zenon DEF TakenUpTo, Taken
<1>2. /\ decoded \in Nat /\ Len(buffer) \in Nat /\ Len(buffer) < RecLen /\ Records \in Nat
      /\ RecLen \in {1, 3} /\ RegLen \in {1, 8} /\ D \in Nat /\ T \in Nat
  BY TableInterval, Lengths DEF DecodedOK
<1>3. /\ here \in Nat /\ left \in Nat /\ here - left \in 0..RegLen
      /\ here - left < RegLen => left = 0
      /\ here = 0 => left = 0
  BY ContentUnits, Zenon
<1> HIDE DEF here, left
<1>4. /\ left <= here
      /\ here > 0 => left < here
  BY <1>2, <1>3
<1> HIDE DEF D, T
<1>5. p < Len(buffer) => left = 0
  BY <1>1, <1>3
<1>6. D + p + left <= T /\ (D + p + left = T => here = 0 /\ D + p + here = T)
  BY <1>1, <1>2, <1>3, <1>4
<1>7. D + p + left = T => filed = 0..(decoded - 1) /\ decoded = Records
  <2> SUFFICES ASSUME D + p + left = T PROVE filed = 0..(decoded - 1) /\ decoded = Records
    OBVIOUS
  <2>1. D + p = T
    BY <1>2, <1>6
  <2>2. T - D < RecLen
    BY <1>2, <2>1
  <2>3. decoded = Records
    <3>1. CASE RecLen = 1
      BY <1>2, <2>1, <2>2, <3>1 DEF D, T
    <3>2. CASE RecLen = 3
      BY <1>2, <2>1, <2>2, <3>2 DEF D, T
    <3> QED
      BY <1>2, <3>1, <3>2
  <2> QED
    BY <1>1, <1>6, <2>3
<1> QED
  BY <1>1, <1>5, <1>6, <1>7 DEF TakenUpTo, Taken, left, D, T

\* The buffer flushed: a unit in it is missing from what was taken.
LEMMA ClearTaken ==
    ASSUME WorldOK, DecodedOK, Contiguous, shift = 0, NEW r \in Nat, TakenUpTo(r)
    PROVE  Taken(<<>>, decoded, filed, r)
<1> DEFINE here == Left(r)
           T == Records * RecLen
           D == decoded * RecLen
           b == r * RegLen
<1>1. PICK p \in 0..Len(buffer) :
        /\ p < Len(buffer) => here = 0
        /\ D + p + here <= T
        /\ D + p + here = T =>
             /\ filed = 0..(decoded - 1)
             /\ decoded = Records \/ Len(buffer) = b - D
  BY Zenon DEF TakenUpTo, Taken
<1>2. /\ decoded \in Nat /\ Len(buffer) \in Nat /\ Records \in Nat
      /\ RecLen \in {1, 3} /\ RegLen \in {1, 8} /\ D \in Nat /\ T \in Nat /\ here \in Nat
      /\ b \in Nat
  <2>1. /\ decoded \in Nat /\ Len(buffer) \in Nat /\ RecLen \in {1, 3} /\ RegLen \in {1, 8}
        /\ Records \in Nat
    BY TableInterval, Lengths DEF DecodedOK
  <2>2. Left(r) \in Nat
    BY ContentUnits, Zenon
  <2> QED
    BY <2>1, <2>2
<1>3. D = T => decoded = Records
  BY <1>2, UnitSums
<1> HIDE DEF here, D, T, b
<1>4. D + here <= T
  BY <1>1, <1>2
<1>5. D + here = T => filed = 0..(decoded - 1) /\ (decoded = Records \/ 0 = b - D)
  <2> SUFFICES ASSUME D + here = T
               PROVE  filed = 0..(decoded - 1) /\ (decoded = Records \/ 0 = b - D)
    OBVIOUS
  <2>1. p = 0 /\ D + p + here = T
    BY <1>1, <1>2
  <2>2. CASE Len(buffer) = 0
    BY <1>1, <2>1, <2>2
  <2>3. CASE Len(buffer) # 0
    <3>1. here = 0
      BY <1>1, <1>2, <2>1, <2>3
    <3>2. D = T
      BY <1>2, <3>1
    <3> QED
      BY <1>1, <1>3, <2>1, <3>2
  <2> QED
    BY <2>2, <2>3
<1>6. /\ Len(<<>>) = 0 /\ 0 \in 0..Len(<<>>)
      /\ D + 0 + here = D + here
  BY <1>2
<1> DEFINE none == <<>>
<1>7. \A i \in 1..Len(none) : FALSE
  BY <1>6
<1> HIDE DEF none
<1>8. /\ \A i \in 1..Len(none) : none[i] # FF <=> i <= 0
      /\ \A i \in 1..Len(none) : none[i] = Unit(decoded * RecLen + i - 1)
      /\ Len(none) = 0 /\ 0 \in 0..Len(none) /\ ~(0 < Len(none))
  BY <1>6, <1>7 DEF none
<1>9. Taken(none, decoded, filed, r)
  <2>1. /\ D + 0 + here <= T
        /\ D + 0 + here = T =>
             /\ filed = 0..(decoded - 1)
             /\ decoded = Records \/ Len(none) = b - D
    BY <1>4, <1>5, <1>6, <1>8
  <2> QED
    BY <1>8, <2>1, Zenon DEF Taken, here, D, T, b
<1> QED
  BY <1>9 DEF none

\* Nothing read: the whole table is left.
LEMMA StartTaken ==
    ASSUME WorldOK, Contiguous
    PROVE  Taken(<<>>, 0, {}, 0)
<1>1. Records \in Nat /\ RecLen \in {1, 3} /\ RegLen \in {1, 8}
  BY TableInterval, Lengths
<1>2. Left(0) = Records * RecLen /\ Records * RecLen \in Nat
  BY <1>1 DEF Left
<1>3. Len(<<>>) = 0 /\ 0..(0 - 1) = {} /\ 0 * RegLen - 0 * RecLen = 0
  BY <1>1
<1> DEFINE T == Records * RecLen
<1>4. 0 * RecLen + 0 + Left(0) <= T
  BY <1>1, <1>2
<1> HIDE DEF T
<1> DEFINE none == <<>>
<1>5. /\ \A i \in 1..Len(none) : FALSE
      /\ 0 \in 0..Len(none) /\ ~(0 < Len(none)) /\ Len(none) = 0 * RegLen - 0 * RecLen
  BY <1>3
<1> HIDE DEF none
<1>6. /\ \A i \in 1..Len(none) : none[i] # FF <=> i <= 0
      /\ \A i \in 1..Len(none) : none[i] = Unit(0 * RecLen + i - 1)
  BY <1>5
<1>7. Taken(none, 0, {}, 0)
  BY <1>3, <1>4, <1>5, <1>6, Zenon DEF Taken, T
<1> QED
  BY <1>7 DEF none

\* The table does not change under a scan.
LEMMA SameTaken ==
    ASSUME UNCHANGED worldVars, NEW r \in Nat, Taken(buffer', decoded', filed', r)
    PROVE  TakenUpTo(r)'
BY DEF TakenUpTo, Taken, Unit, RecLen, RegLen, Left, Records, worldVars

\* The record count reached: every record is filed.
LEMMA TakenWhole ==
    ASSUME WorldOK, DecodedOK, Contiguous, shift = 0, NEW r \in Nat, TakenUpTo(r),
           decoded >= Records
    PROVE  filed = table
<1> DEFINE here == Left(r)
           T == Records * RecLen
           D == decoded * RecLen
<1>1. PICK p \in 0..Len(buffer) :
        /\ D + p + here <= T
        /\ D + p + here = T => filed = 0..(decoded - 1)
  BY Zenon DEF TakenUpTo, Taken
<1>2. /\ decoded \in Nat /\ Len(buffer) \in Nat /\ Records \in Nat /\ table = 0..(Records - 1)
      /\ RecLen \in {1, 3} /\ D \in Nat /\ T \in Nat /\ here \in Nat
  <2>1. /\ decoded \in Nat /\ Len(buffer) \in Nat /\ RecLen \in {1, 3} /\ RegLen \in {1, 8}
        /\ Records \in Nat
    BY TableInterval, Lengths DEF DecodedOK
  <2>2. Left(r) \in Nat
    BY ContentUnits, Zenon
  <2> QED
    BY <2>1, <2>2, TableInterval
<1>3. T <= D
  BY <1>2, UnitSums
<1>4. D = T => decoded = Records
  BY <1>2, UnitSums
<1> HIDE DEF here, D, T
<1>5. D + p + here = T /\ D = T
  BY <1>1, <1>2, <1>3
<1> QED
  BY <1>1, <1>2, <1>4, <1>5

-----------------------------------------------------------------------------
(* The invariant of a counted scan. *)

\* Registers that follow each other.
InOrder(s) == \A i \in DOMAIN s : s[i] = s[1] + i - 1

\* A scan has one plan; a counted one reads from the first register on, one
\* after the other.  Nothing is written before the end.
PlannedInv ==
    /\ pc # "done" => stored = table \cup {Old}
    /\ pc = "plan" => expected = NoCount /\ buffer = <<>> /\ filed = {} /\ wire = <<>>
    /\ pc \notin {"plan", "pass", "done"} => passes = <<>>
    /\ pc \in {"ack", "data", "gaveup"} => attempt # 0
    /\ expected # NoCount =>
         /\ kind # "self" /\ expected = Records
         /\ InOrder(regs)
         /\ passes # <<>> => /\ InOrder(Head(passes))
                             /\ Head(passes) # <<>> => Head(Head(passes)) = 0

\* The data of the register being read may have been taken.
DataIn == pc = "gaveup" \/ (event /\ ~(pc = "send" /\ attempt = 0))

\* r is the register whose data is to be taken next.
At(r) ==
    /\ pc = "pass" /\ passes # <<>> => r = 0
    /\ pc = "loop" /\ regs # <<>> => r = Head(regs)
    /\ pc \in {"send", "ack", "data", "gaveup"} =>
          r = Head(regs) \/ (r = Head(regs) + 1 /\ DataIn)

TakenInv == Counting => \E r \in Nat : At(r) /\ TakenUpTo(r)

\* The registers in order stay so, and the next one follows.
LEMMA InOrderTail ==
    ASSUME NEW s \in Seq(Nat), s # <<>>, InOrder(s)
    PROVE  /\ InOrder(Tail(s)) /\ Head(s) \in Nat
           /\ Tail(s) # <<>> => Head(Tail(s)) = Head(s) + 1
<1>1. /\ Len(s) \in Nat \ {0} /\ Tail(s) \in Seq(Nat) /\ Len(Tail(s)) = Len(s) - 1
      /\ DOMAIN s = 1..Len(s) /\ DOMAIN Tail(s) = 1..(Len(s) - 1)
      /\ Head(s) = s[1] /\ s[1] \in Nat
      /\ \A i \in DOMAIN Tail(s) : i + 1 \in DOMAIN s /\ Tail(s)[i] = s[i + 1]
  BY WireTail
<1>2. \A i \in DOMAIN Tail(s) : Tail(s)[i] = s[1] + i
  <2> SUFFICES ASSUME NEW i \in DOMAIN Tail(s) PROVE Tail(s)[i] = s[1] + i
    OBVIOUS
  <2>1. i \in Nat /\ i + 1 \in DOMAIN s /\ Tail(s)[i] = s[i + 1]
    BY <1>1
  <2>2. s[i + 1] = s[1] + (i + 1) - 1
    BY <2>1 DEF InOrder
  <2> QED
    BY <1>1, <2>1, <2>2
<1>3. ASSUME Tail(s) # <<>> PROVE 1 \in DOMAIN Tail(s) /\ Head(Tail(s)) = Tail(s)[1]
  BY <1>1, <1>3, WireTail
<1>4. InOrder(Tail(s))
  <2> SUFFICES ASSUME NEW i \in DOMAIN Tail(s) PROVE Tail(s)[i] = Tail(s)[1] + i - 1
    BY DEF InOrder
  <2>1. i \in Nat /\ 1 \in DOMAIN Tail(s)
    BY <1>1
  <2>2. Tail(s)[i] = s[1] + i /\ Tail(s)[1] = s[1] + 1 /\ s[1] \in Nat
    BY <1>1, <1>2, <2>1
  <2> QED
    BY <2>1, <2>2
<1> QED
  BY <1>1, <1>2, <1>3, <1>4

\* A counted plan reads the registers in order.
LEMMA PlanInOrder ==
    ASSUME NEW n \in Nat
    PROVE  /\ InOrder(Head(CountPasses(n)))
           /\ Head(CountPasses(n)) # <<>> => Head(Head(CountPasses(n))) = 0
<1>1. ASSUME NEW m \in Nat
      PROVE  InOrder(Range0(m)) /\ (Range0(m) # <<>> => Head(Range0(m)) = 0)
  <2>1. /\ Range0(m) \in Seq(Nat) /\ DOMAIN Range0(m) = 1..m
        /\ \A i \in 1..m : Range0(m)[i] = i - 1
    BY RangeNumbers DEF Range0
  <2> HIDE DEF Range0
  <2>2. InOrder(Range0(m))
    BY <2>1 DEF InOrder
  <2>3. Range0(m) # <<>> => Head(Range0(m)) = 0
    BY <2>1
  <2> QED
    BY <2>2, <2>3
<1>2. PICK m \in Nat : CountPasses(n) = <<Range0(m)>>
  <2>1. ((n * RecLen + RegLen - 1) \div RegLen) + 1 \in Nat /\ Most(n, 1) \in Nat
    BY Lengths DEF Most
  <2> QED
    BY <2>1, Zenon DEF CountPasses
<1>3. Head(CountPasses(n)) = Range0(m)
  BY <1>2
<1> QED
  BY <1>1, <1>3

\* Before the plan nothing is counted.
LEMMA InitCounted == Init => PlannedInv /\ TakenInv
<1> SUFFICES ASSUME Init PROVE PlannedInv /\ TakenInv
  OBVIOUS
<1>1. PlannedInv
  BY DEF Init, PlannedInv
<1>2. TakenInv
  BY DEF Init, TakenInv, Counting
<1> QED
  BY <1>1, <1>2

\* Each action keeps the plan in order.
LEMMA StepPlanned == ScanOK /\ PlannedInv /\ [Next]_vars => PlannedInv'
<1> SUFFICES ASSUME ScanOK, PlannedInv, [Next]_vars PROVE PlannedInv'
  OBVIOUS
<1> USE DEF worldVars, faultVars, progVars, parseVars, planVars
<1>0. WorldOK /\ ReadOK /\ PlanOK /\ AttemptOK
  BY DEF ScanOK
<1>1. UNCHANGED worldVars
  BY DEF Next, Scan, vars, Plan, StartPass, PassDone, PassCut, NextRegister, Send, TakeAck,
         AckTimeout, DataWaitOver, GiveUp, Extend, Finish, Deliver
<1>2. Records' = Records
  BY <1>1 DEF Records
<1> USE DEF PlannedInv
\* The plan stays as it is.
<1>3. CASE /\ UNCHANGED <<stored, passes, expected>> /\ pc # "plan" /\ pc' # "plan"
           /\ (pc' \in {"plan", "pass", "done"} \/ pc \notin {"plan", "pass", "done"})
           /\ (pc' # "done" => pc # "done")
           /\ (pc' \in {"ack", "data", "gaveup"} => attempt' # 0)
           /\ (expected # NoCount => InOrder(regs'))
  BY <1>1, <1>2, <1>3
<1>4. InOrder(<<>>)
  BY DEF InOrder
<1>5. ASSUME regs # <<>>, expected # NoCount PROVE InOrder(Tail(regs))
  BY <1>0, <1>5, InOrderTail DEF ReadOK
<1>6. CASE Plan
  <2>1. /\ pc' = "pass" /\ UNCHANGED <<stored, regs, attempt>> /\ pc = "plan"
        /\ expected' # NoCount => /\ kind # "self" /\ expected' = Records
                                  /\ passes' = CountPasses(Records)
    BY <1>6 DEF Plan, Records
  <2>2. regs' = <<>>
    BY <1>0, <2>1 DEF ReadOK
  <2>3. Records \in Nat
    BY <1>0, FS_CardinalityType DEF WorldOK, Records
  <2>4. /\ InOrder(Head(CountPasses(Records)))
        /\ Head(CountPasses(Records)) # <<>> => Head(Head(CountPasses(Records))) = 0
    BY <2>3, PlanInOrder
  <2>5. InOrder(regs')
    BY <1>4, <2>2
  <2> HIDE DEF InOrder, CountPasses
  <2>6. /\ stored' = table' \cup {Old} /\ kind' = kind
    BY <1>1, <2>1
  <2> QED
    BY <1>2, <2>1, <2>4, <2>5, <2>6
<1>7. CASE StartPass
  <2>1. /\ pc = "pass" /\ pc' = "loop" /\ passes # <<>> /\ passes' = Tail(passes)
        /\ regs' = Head(passes) /\ UNCHANGED <<stored, expected>>
    BY <1>7 DEF StartPass
  <2>2. passes' = <<>>
    BY <1>0, <2>1, OneElement DEF PlanOK
  <2>3. expected # NoCount => kind # "self" /\ expected = Records /\ InOrder(regs')
    BY <2>1
  <2>4. stored' = table' \cup {Old}
    BY <1>1, <2>1
  <2> QED
    BY <1>1, <1>2, <2>1, <2>2, <2>3, <2>4
<1>8. CASE PassDone
  BY <1>3, <1>4, <1>8 DEF PassDone, EndPass
<1>9. CASE PassCut
  BY <1>3, <1>4, <1>9 DEF PassCut, EndPass
<1>10. CASE NextRegister
  BY <1>3, <1>10 DEF NextRegister
<1>11. CASE Send
  BY <1>0, <1>3, <1>11 DEF Send, AttemptFailed, AttemptOK
<1>12. CASE TakeAck
  BY <1>3, <1>12 DEF TakeAck
<1>13. CASE AckTimeout
  BY <1>3, <1>13 DEF AckTimeout, AttemptFailed
<1>14. CASE DataWaitOver
  <2>1. regs # <<>> /\ regs' = Tail(regs)
    BY <1>0, <1>14 DEF DataWaitOver, AfterRead, ReadOK
  <2> QED
    BY <1>3, <1>5, <1>14, <2>1 DEF DataWaitOver, AfterRead
<1>15. CASE GiveUp
  <2>1. regs # <<>> /\ regs' \in {Tail(regs), <<>>}
    BY <1>0, <1>15 DEF GiveUp, AfterRead, EndPass, ReadOK
  <2>2. expected # NoCount => InOrder(regs')
    BY <1>4, <1>5, <2>1
  <2> QED
    BY <1>3, <1>15, <2>2 DEF GiveUp, AfterRead, EndPass
<1>16. CASE Extend
  <2>1. kind = "self" /\ pc = "pass" /\ UNCHANGED <<pc, stored, expected, attempt>>
    BY <1>16 DEF Extend
  <2> QED
    BY <1>1, <2>1
<1>17. CASE Finish
  <2>1. pc' = "done" /\ UNCHANGED <<regs, passes, expected>>
    BY <1>17 DEF Finish
  <2> QED
    BY <1>1, <1>2, <2>1
<1>18. CASE Deliver
  BY <1>3, <1>18 DEF Deliver
<1>19. CASE UNCHANGED vars
  <2>1. UNCHANGED <<stored, pc, expected, buffer, filed, wire, passes, attempt, regs, kind, table>>
    BY <1>19 DEF vars
  <2> QED
    BY <1>2, <2>1 DEF InOrder
<1> QED
  BY <1>6, <1>7, <1>8, <1>9, <1>10, <1>11, <1>12, <1>13, <1>14, <1>15, <1>16, <1>17, <1>18, <1>19
     DEF Next, Scan

\* Each action that goes on to another register has taken the data of the last
\* one or passes it over; the listener takes the data of the one being read.
LEMMA StepTaken == ScanOK /\ AnswerInv /\ PlannedInv /\ TakenInv /\ [Next]_vars => TakenInv'
<1> SUFFICES ASSUME ScanOK, AnswerInv, PlannedInv, TakenInv, [Next]_vars, Counting'
             PROVE  \E r \in Nat : At(r)' /\ TakenUpTo(r)'
  BY DEF TakenInv
<1> USE DEF worldVars, faultVars, progVars, parseVars, planVars
<1>0. WorldOK /\ ReadOK /\ PlanOK /\ AttemptOK /\ DecodedOK /\ PhaseOK
  BY DEF ScanOK
<1>1. UNCHANGED worldVars
  BY DEF Next, Scan, vars, Plan, StartPass, PassDone, PassCut, NextRegister, Send, TakeAck,
         AckTimeout, DataWaitOver, GiveUp, Extend, Finish, Deliver
<1>2. Contiguous /\ shift = 0 /\ ~late
  BY <1>1 DEF Counting, Contiguous
\* The data taken stays as it is, or the buffer is flushed.
<1>3. ASSUME NEW r \in Nat, TakenUpTo(r), UNCHANGED <<decoded, filed>>,
             buffer' = buffer \/ buffer' = <<>>
      PROVE  TakenUpTo(r)'
  <2>1. Taken(buffer', decoded', filed', r)
    <3>1. CASE buffer' = buffer
      BY <1>3, <3>1 DEF TakenUpTo
    <3>2. CASE buffer' = <<>>
      <4>1. Taken(<<>>, decoded, filed, r)
        BY <1>0, <1>2, <1>3, ClearTaken
      <4> QED
        BY <1>3, <3>2, <4>1
    <3> QED
      BY <1>3, <3>1, <3>2
  <2> QED
    BY <1>1, <2>1, SameTaken
\* Nothing is taken, and where the task goes on the same register is next.
<1>4. ASSUME UNCHANGED <<decoded, filed>>, buffer' = buffer \/ buffer' = <<>>, Counting,
             \A r \in Nat : At(r) => At(r)'
      PROVE  \E r \in Nat : At(r)' /\ TakenUpTo(r)'
  <2> PICK r \in Nat : At(r) /\ TakenUpTo(r)
    BY <1>4 DEF TakenInv
  <2> QED
    BY <1>3, <1>4
<1>5. ASSUME UNCHANGED <<expected, aligned>>, reread' = reread PROVE Counting
  BY <1>1, <1>5 DEF Counting, Contiguous
\* The register is behind: what it held was taken, or is passed over.
<1>6. ASSUME UNCHANGED <<decoded, filed, buffer, expected, aligned, reread>>,
             pc \in {"data", "gaveup"}, pc' \in {"loop", "pass"},
             pc' = "pass" => passes' = <<>>, regs' \in {Tail(regs), <<>>}
      PROVE  \E r \in Nat : At(r)' /\ TakenUpTo(r)'
  <2> PICK r \in Nat : At(r) /\ TakenUpTo(r)
    BY <1>5, <1>6 DEF TakenInv
  <2>1. regs # <<>> /\ regs \in Seq(Nat) /\ InOrder(regs)
    BY <1>0, <1>5, <1>6 DEF ReadOK, PlannedInv, Counting
  <2>2. PICK next \in Nat :
          next = Head(regs) + 1 /\ (Tail(regs) # <<>> => Head(Tail(regs)) = next)
    <3>1. Head(regs) \in Nat /\ (Tail(regs) # <<>> => Head(Tail(regs)) = Head(regs) + 1)
      BY <2>1, InOrderTail
    <3> QED
      BY <3>1
  <2>3. TakenUpTo(next)
    <3>1. r = Head(regs) \/ r = next
      BY <1>6, <2>2 DEF At
    <3>2. TakenUpTo(r + 1)
      BY <1>0, <1>2, SkipTaken
    <3> QED
      BY <2>2, <3>1, <3>2
  <2>4. At(next)'
    BY <1>6, <2>2 DEF At
  <2>5. TakenUpTo(next)'
    BY <1>3, <1>6, <2>2, <2>3
  <2> QED
    BY <2>2, <2>4, <2>5
<1>7. CASE Plan
  <2>1. /\ pc' = "pass" /\ decoded' = 0 /\ UNCHANGED <<buffer, filed>>
        /\ buffer = <<>> /\ filed = {}
    BY <1>7 DEF Plan, PlannedInv
  <2>2. Taken(buffer', decoded', filed', 0)
    <3>1. Taken(<<>>, 0, {}, 0)
      BY <1>0, <1>2, StartTaken
    <3> QED
      BY <2>1, <3>1
  <2>3. TakenUpTo(0)'
    BY <1>1, <2>2, SameTaken
  <2>4. At(0)'
    BY <2>1 DEF At
  <2> QED
    BY <2>3, <2>4
<1>8. CASE StartPass
  <2>1. /\ pc = "pass" /\ pc' = "loop" /\ passes # <<>> /\ regs' = Head(passes)
        /\ UNCHANGED <<decoded, filed, buffer, expected, aligned, reread>>
    BY <1>8 DEF StartPass
  <2>2. Counting /\ (Head(passes) # <<>> => Head(Head(passes)) = 0)
    <3>1. Counting
      BY <1>5, <2>1
    <3>2. expected # NoCount
      BY <3>1 DEF Counting
    <3> QED
      BY <2>1, <3>1, <3>2 DEF PlannedInv
  <2>3. \A r \in Nat : At(r) => At(r)'
    BY <2>1, <2>2 DEF At
  <2> QED
    BY <1>4, <2>1, <2>2, <2>3
<1>9. CASE PassDone
  <2>1. /\ pc' = "pass" /\ passes' = <<>>
        /\ UNCHANGED <<decoded, filed, buffer, expected, aligned, reread>>
    BY <1>9 DEF PassDone, EndPass, PlannedInv
  <2> QED
    BY <1>4, <1>5, <2>1 DEF At
<1>10. CASE PassCut
  <2>1. /\ pc' = "pass" /\ passes' = <<>>
        /\ UNCHANGED <<decoded, filed, buffer, expected, aligned, reread>>
    BY <1>10 DEF PassCut, EndPass, PlannedInv
  <2> QED
    BY <1>4, <1>5, <2>1 DEF At
<1>11. CASE NextRegister
  <2>1. /\ pc = "loop" /\ regs # <<>> /\ pc' = "send" /\ regs' = regs
        /\ UNCHANGED <<decoded, filed, buffer, expected, aligned, reread>>
    BY <1>11 DEF NextRegister
  <2> QED
    BY <1>4, <1>5, <2>1 DEF At
<1>12. CASE Send
  <2>1. /\ pc = "send" /\ pc' \in {"send", "ack", "gaveup"} /\ UNCHANGED regs
        /\ UNCHANGED <<decoded, filed, expected, aligned>>
        /\ buffer' = buffer \/ buffer' = <<>>
    BY <1>12 DEF Send, AttemptFailed
  <2>2. ~reread /\ ~(attempt > 0 /\ event)
    <3>1. reread' = (reread \/ (attempt > 0 /\ event)) /\ ~reread'
      BY <1>12 DEF Send, Counting
    <3> QED
      BY <3>1
  <2>3. Counting
    BY <1>1, <2>1, <2>2 DEF Counting, Contiguous
  <2>4. ~DataIn
    BY <1>0, <2>1, <2>2 DEF DataIn, AttemptOK
  <2> QED
    BY <1>4, <2>1, <2>3, <2>4 DEF At
<1>13. CASE TakeAck
  <2>1. /\ pc = "ack" /\ pc' = "data" /\ UNCHANGED <<regs, event>>
        /\ UNCHANGED <<decoded, filed, buffer, expected, aligned, reread>>
    BY <1>13 DEF TakeAck
  <2> QED
    BY <1>4, <1>5, <2>1 DEF At, DataIn
<1>14. CASE AckTimeout
  <2>1. /\ pc = "ack" /\ pc' \in {"send", "gaveup"} /\ UNCHANGED <<regs, event, attempt>>
        /\ UNCHANGED <<decoded, filed, expected, aligned, reread>>
        /\ buffer' = buffer \/ buffer' = <<>>
        /\ attempt # 0
    BY <1>14 DEF AckTimeout, AttemptFailed, PlannedInv
  <2> QED
    BY <1>4, <1>5, <2>1 DEF At, DataIn
<1>15. CASE DataWaitOver
  BY <1>6, <1>15 DEF DataWaitOver, AfterRead
<1>16. CASE GiveUp
  <2>1. passes' = <<>>
    BY <1>16 DEF GiveUp, AfterRead, PlannedInv
  <2> QED
    BY <1>6, <1>16, <2>1 DEF GiveUp, AfterRead, EndPass
<1>17. CASE Extend
  BY <1>1, <1>17 DEF Extend, Counting, PlannedInv
<1>18. CASE Finish
  <2>1. /\ pc' = "done" /\ UNCHANGED <<decoded, filed, buffer, expected, aligned, reread>>
    BY <1>18 DEF Finish
  <2> QED
    BY <1>4, <1>5, <2>1 DEF At
<1>19. CASE Deliver
  <2>1. UNCHANGED <<pc, passes, regs, attempt, expected, reread>> /\ wire # <<>>
        /\ (event => event')
    BY <1>0, <1>19 DEF Deliver, PhaseOK
  <2>2. CASE UNCHANGED parseVars
    BY <1>4, <1>5, <2>1, <2>2 DEF At, DataIn
  <2>3. CASE /\ event' = (event \/ active) /\ Parse(Content(Head(wire).reg))
    <3>1. aligned # "no"
      <4>1. aligned' # "no"
        BY DEF Counting
      <4> QED
        BY <2>3, <4>1 DEF Parse
    <3>2. Counting
      BY <1>1, <2>1, <3>1 DEF Counting, Contiguous
    <3> PICK r \in Nat : At(r) /\ TakenUpTo(r)
      BY <3>2 DEF TakenInv
    <3>3. /\ pc \in {"ack", "data"} /\ ~event
          /\ \A i \in DOMAIN wire : wire[i].reg = block
      BY <1>2, <2>1 DEF AnswerInv
    <3>4. active /\ event'
      BY <1>0, <2>3, <3>3 DEF PhaseOK
    <3>5. r = Head(regs) /\ block = Head(regs)
      BY <1>0, <3>3 DEF At, DataIn, ReadOK
    <3>6. Head(wire).reg = r
      <4>1. Head(wire) = wire[1] /\ 1 \in DOMAIN wire
        BY <1>0, <2>1 DEF WorldOK
      <4> QED
        BY <3>3, <3>5, <4>1
    <3>7. Taken(buffer', decoded', filed', r + 1)
      <4>1. aligned' # "no" /\ Parse(Content(r))
        BY <2>3, <3>6 DEF Counting
      <4> QED
        BY <1>0, <1>2, <4>1, ParseTaken
    <3>8. TakenUpTo(r + 1)'
      BY <1>1, <3>7, SameTaken
    <3>9. At(r + 1)'
      BY <2>1, <3>3, <3>4, <3>5 DEF At, DataIn
    <3> QED
      BY <3>8, <3>9
  <2> QED
    BY <1>19, <2>2, <2>3 DEF Deliver
<1>20. CASE UNCHANGED vars
  <2>1. UNCHANGED <<pc, passes, regs, attempt, event, expected, reread, decoded, filed, buffer, aligned>>
    BY <1>20 DEF vars
  <2> QED
    BY <1>4, <1>5, <2>1 DEF At, DataIn
<1> QED
  BY <1>7, <1>8, <1>9, <1>10, <1>11, <1>12, <1>13, <1>14, <1>15, <1>16, <1>17, <1>18, <1>19, <1>20
     DEF Next, Scan

\* A scan whose answers came in time, of a sound table without gaps, with no
\* register's data read twice, leaves every record of the table stored: no bound
\* on the frames lost.
RebuildKeeps ==
    ~late /\ shift = 0 /\ Contiguous /\ ~reread => table \subseteq stored

\* Only the end of a scan writes, and a counted one has every record filed.
LEMMA StepWhole ==
    ScanOK /\ PlannedInv /\ TakenInv /\ RebuildKeeps /\ [Next]_vars => RebuildKeeps'
<1> SUFFICES ASSUME ScanOK, PlannedInv, TakenInv, RebuildKeeps, [Next]_vars,
                    ~late', shift' = 0, Contiguous', ~reread'
             PROVE  table' \subseteq stored'
  BY DEF RebuildKeeps
<1>0. WorldOK /\ DecodedOK
  BY DEF ScanOK
<1>1. UNCHANGED worldVars
  BY DEF Next, Scan, vars, worldVars, Plan, StartPass, PassDone, PassCut, NextRegister, Send,
         TakeAck, AckTimeout, DataWaitOver, GiveUp, Extend, Finish, Deliver
<1>2. Contiguous /\ shift = 0 /\ ~late /\ table' = table
  BY <1>1 DEF Contiguous, worldVars
<1>3. ~Finish => pc = "done" \/ stored' = stored
  BY DEF Next, Scan, vars, progVars, Plan, StartPass, PassDone, PassCut, NextRegister, Send,
         TakeAck, AckTimeout, DataWaitOver, GiveUp, Extend, Deliver
<1>4. pc = "done" => UNCHANGED vars
  BY DEF Next, Scan, Plan, StartPass, PassDone, PassCut, NextRegister, Send, TakeAck,
         AckTimeout, DataWaitOver, GiveUp, Extend, Finish, Deliver
<1>5. CASE Finish
  <2>1. CASE LinkTableComplete /\ kind # "self"
    <3>1. Counting
      <4>1. reread' = reread
        BY <1>5 DEF Finish, faultVars
      <4> QED
        BY <1>2, <2>1, <4>1 DEF Counting, LinkTableComplete
    <3> PICK r \in Nat : TakenUpTo(r)
      BY <3>1 DEF TakenInv
    <3>2. decoded >= Records
      BY <2>1 DEF LinkTableComplete, PlannedInv
    <3>3. filed = table
      BY <1>0, <1>2, <3>2, TakenWhole
    <3> QED
      BY <1>2, <1>5, <2>1, <3>3 DEF Finish
  <2>2. CASE ~(LinkTableComplete /\ kind # "self")
    <3>1. stored' = stored \cup filed /\ table \subseteq stored
      BY <1>5, <2>2 DEF Finish, PlannedInv
    <3> QED
      BY <1>2, <3>1
  <2> QED
    BY <2>1, <2>2
<1>6. CASE pc = "done"
  <2>1. UNCHANGED <<stored, reread, lost>>
    BY <1>4, <1>6 DEF vars, faultVars
  <2> QED
    BY <1>2, <2>1 DEF RebuildKeeps
<1>7. CASE ~Finish /\ pc # "done"
  BY <1>2, <1>3, <1>7 DEF PlannedInv
<1> QED
  BY <1>5, <1>6, <1>7

\* A rebuild takes no programmed link away, however many frames are lost: a scan
\* that read no register's data twice and decoded as many records as the module
\* counts decoded exactly those, because what is decoded, buffered and still
\* unread never exceeds the table, and is as much as the table only while the
\* stream is cut where the records begin.
THEOREM RebuildsWhole == Spec => []RebuildKeeps
<1>1. Init => RebuildKeeps
  BY DEF Init, RebuildKeeps
<1>2. ScanOK /\ AnswerInv /\ PlannedInv /\ TakenInv /\ RebuildKeeps /\ [Next]_vars
        => (ScanOK /\ AnswerInv /\ PlannedInv /\ TakenInv /\ RebuildKeeps)'
  BY StepScan, StepAnswer, StepPlanned, StepTaken, StepWhole
<1> QED
  BY InitScan, InitCounted, <1>1, <1>2, PTL DEF Spec

\* The property the run checks, where one frame is lost at most.
THEOREM RebuildTrue == Spec => []RebuildSound
<1>1. RebuildKeeps => RebuildSound
  BY DEF RebuildKeeps, RebuildSound, OneFault
<1> QED
  BY RebuildsWhole, <1>1, PTL

-----------------------------------------------------------------------------
(* A scan nothing goes wrong with. *)

\* A counted scan of a sound table without gaps that lost nothing and that the
\* module answers.
Clear ==
    /\ expected # NoCount /\ shift = 0 /\ Contiguous
    /\ ~late /\ lost = 0 /\ deaf > 1

\* The registers before r were read, and of them every record is filed: the
\* buffer goes on where they end, unless what followed was erased.
Gathered(buf, dec, fil, r) ==
    /\ dec \in 0..Records /\ fil = 0..(dec - 1)
    /\ \A i \in 1..Len(buf) : buf[i] = Unit(dec * RecLen + i - 1)
    /\ \/ Len(buf) = r * RegLen - dec * RecLen
       \/ dec = Records /\ Left(r) = 0
GatheredUpTo(r) == Gathered(buffer, decoded, filed, r)

\* Registers that the module answers, up to the end of the table.
Covers(s) ==
    /\ \A i \in DOMAIN s : s[i] < deaf
    /\ s # <<>> => Left(s[Len(s)] + 1) = 0

\* What register r holds is on its way if it is waited for; nothing is left of
\* the table where the scan stops.
Ahead(r) ==
    /\ pc \in {"ack", "data"} /\ r = Head(regs) =>
          Left(r) = 0 \/ \E i \in DOMAIN wire : wire[i].kind = "data"
    /\ trailer \/ (regs = <<>> /\ pc # "pass") \/ (pc = "pass" /\ passes = <<>>)
          => Left(r) = 0

\* Nothing troubles such a scan.
CleanInv ==
    Clear =>
        /\ pc \notin {"plan", "gaveup"} /\ (pc = "send" => attempt = 0)
        /\ pc = "ack" => queue # <<>> \/ (wire # <<>> /\ wire[1].kind = "ack")
        /\ missed = 0 /\ ~phantoms /\ aligned # "no"
        /\ Covers(regs) /\ \A i \in DOMAIN passes : Covers(passes[i]) /\ passes[i] # <<>>
        /\ \E r \in Nat : At(r) /\ GatheredUpTo(r) /\ Ahead(r)
        /\ pc = "done" => stored = table

\* The module's answers and its table are within what a byte counts; before the
\* plan nothing was decoded.
ByteInv ==
    /\ deaf \in {0, 1, Registers} /\ Records < Registers
    /\ pc = "plan" => ~phantoms /\ aligned = "open" /\ ~trailer

\* The buffer and the content of the next register go on where the decoded
\* records end.
LEMMA StreamInPhase ==
    ASSUME WorldOK, DecodedOK, Contiguous, shift = 0, NEW r \in Nat, GatheredUpTo(r)
    PROVE  LET s == buffer \o Content(r) IN
           /\ s \in Seq(Cell) /\ Len(buffer) \in Nat /\ Len(s) = Len(buffer) + RegLen
           /\ \A i \in 1..Len(s) : s[i] = Unit(decoded * RecLen + i - 1)
<1> DEFINE s == buffer \o Content(r)
           d == decoded * RecLen
           b == r * RegLen
<1>1. /\ decoded \in 0..Records
      /\ \A i \in 1..Len(buffer) : buffer[i] = Unit(d + i - 1)
      /\ \/ Len(buffer) = b - d
         \/ decoded = Records /\ Left(r) = 0
  BY DEF GatheredUpTo, Gathered
<1>2. /\ buffer \in Seq(Cell) /\ Len(buffer) \in Nat /\ Records \in Nat /\ decoded \in Nat
      /\ RecLen \in {1, 3} /\ RegLen \in {1, 8} /\ d \in Nat /\ b \in Nat
      /\ Records * RecLen \in Nat
  <2>1. buffer \in Seq(Cell) /\ Len(buffer) \in Nat /\ decoded \in Nat /\ Records \in Nat
        /\ RecLen \in {1, 3} /\ RegLen \in {1, 8}
    BY TableInterval, Lengths DEF DecodedOK
  <2> QED
    BY <2>1
<1>3. /\ Content(r) \in Seq(Cell) /\ Len(Content(r)) = RegLen
      /\ \A i \in 1..RegLen : Content(r)[i] = Unit(b + i - 1)
  BY ContentCells, ContentUnits
<1>4. /\ s \in Seq(Cell) /\ Len(s) = Len(buffer) + RegLen
      /\ \A i \in 1..Len(buffer) : s[i] = buffer[i]
      /\ \A i \in 1..RegLen : s[Len(buffer) + i] = Content(r)[i]
  BY <1>2, <1>3
<1> HIDE DEF s
<1>5. ASSUME NEW i \in 1..Len(s) PROVE s[i] = Unit(d + i - 1)
  <2>1. CASE i <= Len(buffer)
    BY <1>1, <1>2, <1>4, <1>5, <2>1
  <2>2. CASE i > Len(buffer)
    <3> DEFINE j == i - Len(buffer)
    <3>1. j \in 1..RegLen /\ i = Len(buffer) + j
      BY <1>2, <1>4, <1>5, <2>2
    <3>2. s[i] = Unit(b + j - 1)
      BY <1>3, <1>4, <3>1
    <3>3. CASE Len(buffer) = b - d
      <4>1. b + j - 1 = d + i - 1
        BY <1>2, <3>1, <3>3
      <4> QED
        BY <3>2, <4>1
    <3>4. CASE decoded = Records /\ Left(r) = 0
      <4> HIDE DEF j, b, d
      <4>1. b >= Records * RecLen
        BY <1>2, <3>4 DEF Left, b
      <4>2. d = Records * RecLen
        BY <3>4 DEF d
      <4>3. b + j - 1 \in Nat /\ ~(b + j - 1 < Records * RecLen)
        BY <1>2, <3>1, <4>1
      <4>4. d + i - 1 \in Nat /\ ~(d + i - 1 < Records * RecLen)
        BY <1>2, <3>1, <4>2
      <4>5. Unit(b + j - 1) = FF /\ Unit(d + i - 1) = FF
        BY <4>3, <4>4, UnitErased
      <4> QED
        BY <3>2, <4>5
    <3> QED
      BY <1>1, <3>3, <3>4
  <2> QED
    BY <1>2, <1>4, <1>5, <2>1, <2>2
<1> QED
  BY <1>2, <1>4, <1>5 DEF s

\* A stream that begins where a record does shows no buttons in another phase.
LEMMA NeverMisaligned ==
    ASSUME WorldOK, Contiguous, shift = 0, NEW d \in Nat, NEW s \in Seq(Cell),
           \A i \in 1..Len(s) : s[i] = Unit(d * RecLen + i - 1)
    PROVE  ~LooksMisaligned(s)
<1> SUFFICES ASSUME kind = "switch", NEW off \in 1..(RecLen - 1), Hits(s, off) >= 2
             PROVE  FALSE
  BY DEF LooksMisaligned
<1>1. RecLen = 3 /\ Len(s) \in Nat /\ off \in {1, 2}
  BY Lengths
<1> DEFINE m == (Len(s) - off) \div RecLen
           chunk(i) == SubSeq(s, off + (i - 1) * RecLen + 1, off + i * RecLen)
<1>2. ASSUME NEW i \in 1..m PROVE ~Whole(chunk(i))
  <2>1. m \in Int /\ m * 3 <= Len(s) - off
    BY <1>1
  <2> HIDE DEF m
  <2> DEFINE a == off + (i - 1) * RecLen + 1
             z == off + i * RecLen
  <2>2. a \in 1..Len(s) /\ z \in 1..Len(s) /\ z = a + 2
    BY <1>1, <2>1
  <2>3. d * RecLen + a - 1 = (d + i - 1) * RecLen + off /\ d + i - 1 \in Nat
        /\ off \in 0..(RecLen - 1)
    BY <1>1, <2>1
  <2>4. s[a] = Unit((d + i - 1) * RecLen + off)
    BY <2>2, <2>3
  <2> HIDE DEF a, z
  <2>5. SubSeq(s, a, z)[1] = s[a]
    BY <1>1, <2>2
  <2>6. s[a] = FF \/ s[a] = <<d + i - 1, off>>
    BY <2>3, <2>4, SlotUnit
  <2>7. ~Whole(SubSeq(s, a, z))
    BY <1>1, <2>5, <2>6 DEF Whole
  <2> QED
    BY <2>7 DEF a, z
<1>3. {i \in 1..m : Whole(chunk(i))} = {}
  BY <1>2
<1>4. Hits(s, off) = Cardinality({i \in 1..m : Whole(chunk(i))})
  BY DEF Hits
<1> HIDE DEF m, chunk
<1>5. Hits(s, off) = 0
  BY <1>3, <1>4, FS_EmptySet
<1> QED
  BY <1>5

\* Parsed, a register whose stream is in phase adds its records and nothing
\* else, and ends the pass only where the table does.
LEMMA ParseGathered ==
    ASSUME WorldOK, DecodedOK, Contiguous, shift = 0, NEW r \in Nat, GatheredUpTo(r),
           aligned # "no", Parse(Content(r))
    PROVE  /\ Gathered(buffer', decoded', filed', r + 1)
           /\ aligned' # "no" /\ phantoms' = phantoms
           /\ trailer' => trailer \/ Left(r + 1) = 0
<1> DEFINE s == buffer \o Content(r)
           k == Len(s) \div RecLen
           gen == {i \in DOMAIN Chunks(s) : Whole(Chunks(s)[i])}
           gar == {i \in DOMAIN Chunks(s) : MayDecode(Chunks(s)[i])}
           c == IF k < Records - decoded THEN k ELSE Records - decoded
           verdict == IF aligned # "open" \/ buffer # <<>> THEN aligned
                      ELSE IF LooksMisaligned(s) THEN "no" ELSE "yes"
           cs == IF verdict = "no" THEN <<>> ELSE Chunks(s)
           genuine == {i \in DOMAIN cs : Whole(cs[i])}
           garbage == {i \in DOMAIN cs : MayDecode(cs[i])}
<1>1. /\ s \in Seq(Cell) /\ Len(buffer) \in Nat /\ Len(s) = Len(buffer) + RegLen
      /\ \A i \in 1..Len(s) : s[i] = Unit(decoded * RecLen + i - 1)
  BY StreamInPhase
<1>2. /\ decoded \in 0..Records /\ filed = 0..(decoded - 1)
      /\ \/ Len(buffer) = r * RegLen - decoded * RecLen
         \/ decoded = Records /\ Left(r) = 0
  BY DEF GatheredUpTo, Gathered
<1>3. decoded \in Nat /\ Records \in Nat /\ RecLen \in {1, 3} /\ RegLen \in {1, 8}
  BY <1>2, TableInterval, Lengths
<1>4. Parse(Content(r))
  OBVIOUS
<1>5. /\ aligned' = verdict
      /\ buffer' = IF verdict = "no" THEN <<>> ELSE Remainder(s)
      /\ \E junk \in 0..Cardinality(garbage) :
            /\ decoded' = decoded + Cardinality(genuine) + junk
            /\ phantoms' = (phantoms \/ junk > 0)
            /\ CountErased(Content(r), Cardinality(genuine) + junk)
      /\ filed' = filed \cup {cs[i][1][1] : i \in genuine}
  BY <1>4 DEF Parse
<1> HIDE DEF s
<1>6. verdict # "no" /\ cs = Chunks(s)
  BY <1>1, <1>3, NeverMisaligned
<1> HIDE DEF verdict, cs
<1>7. genuine = gen /\ garbage = gar
  BY <1>6
<1>8. /\ gar = {} /\ Cardinality(gen) = c /\ c \in Nat
      /\ {Chunks(s)[i][1][1] : i \in gen} = decoded..(decoded + c - 1)
      /\ \A j \in 1..(Len(s) - k * RecLen) :
            Remainder(s)[j] = Unit((decoded + k) * RecLen + j - 1)
  BY <1>1, <1>2, InPhase
<1>9. /\ aligned' # "no" /\ buffer' = Remainder(s)
      /\ filed' = filed \cup decoded..(decoded + c - 1)
      /\ decoded' = decoded + c /\ phantoms' = (phantoms \/ FALSE)
      /\ \E hits \in Nat : CountErased(Content(r), hits)
  <2> HIDE DEF gen, gar, c, genuine, garbage
  <2>1. Cardinality(garbage) = 0
    BY <1>7, <1>8, FS_EmptySet
  <2>2. PICK junk \in 0..0 :
            /\ decoded' = decoded + Cardinality(gen) + junk
            /\ phantoms' = (phantoms \/ junk > 0)
            /\ CountErased(Content(r), Cardinality(gen) + junk)
    BY <1>5, <1>7, <2>1
  <2>3. junk = 0 /\ ~(junk > 0) /\ Cardinality(gen) + junk \in Nat /\ decoded + c + junk = decoded + c
    BY <1>3, <1>8, <2>2
  <2>4. filed' = filed \cup {Chunks(s)[i][1][1] : i \in gen}
    BY <1>5, <1>6, <1>7 DEF genuine, gen
  <2> QED
    BY <1>5, <1>6, <1>8, <2>2, <2>3, <2>4
<1>10. /\ k \in Nat /\ k * RecLen \in 0..Len(s) /\ Len(s) - k * RecLen < RecLen /\ Len(s) \in Nat
       /\ Len(Remainder(s)) = Len(s) - k * RecLen
  BY <1>1, Cut
<1> HIDE DEF k, gen, gar
<1>11. Gathered(buffer', decoded', filed', r + 1)
  <2>1. decoded' \in 0..Records /\ filed' = 0..(decoded' - 1)
    BY <1>2, <1>3, <1>8, <1>9, <1>10
  <2>2. CASE c = k
    <3>1. decoded' = decoded + k
      BY <1>9, <2>2
    <3>2. \A i \in 1..Len(buffer') : buffer'[i] = Unit(decoded' * RecLen + i - 1)
      BY <1>8, <1>9, <1>10, <3>1
    <3>3. \/ Len(buffer') = (r + 1) * RegLen - decoded' * RecLen
          \/ decoded' = Records /\ Left(r + 1) = 0
      <4>1. CASE Len(buffer) = r * RegLen - decoded * RecLen
        <5>1. (decoded + k) * RecLen = decoded * RecLen + k * RecLen
              /\ (r + 1) * RegLen = r * RegLen + RegLen
          BY <1>3, <1>10
        <5>2. r * RegLen \in Nat /\ decoded * RecLen \in Nat /\ k * RecLen \in Nat
          BY <1>3, <1>10
        <5> QED
          BY <1>1, <1>3, <1>9, <1>10, <3>1, <4>1, <5>1, <5>2
      <4>2. CASE decoded = Records /\ Left(r) = 0
        <5>1. Left(r + 1) = 0
          BY <4>2, ContentUnits
        <5>2. decoded' = Records
          BY <1>3, <1>8, <1>9, <4>2
        <5> QED
          BY <5>1, <5>2
      <4> QED
        BY <1>2, <4>1, <4>2
    <3> QED
      BY <2>1, <3>2, <3>3 DEF Gathered
  <2>3. CASE c # k
    <3>1. c = Records - decoded /\ decoded' = Records /\ decoded + k >= Records
      BY <1>3, <1>8, <1>9, <1>10, <2>3
    <3> HIDE DEF c
    <3>2. (decoded + k) * RecLen >= Records * RecLen /\ (decoded + k) * RecLen \in Nat
          /\ Records * RecLen \in Nat /\ (decoded + k) * RecLen = decoded * RecLen + k * RecLen
      BY <1>3, <1>10, <3>1
    <3>3. ASSUME NEW i \in 1..Len(buffer')
          PROVE  buffer'[i] = Unit(decoded' * RecLen + i - 1)
      <4>1. buffer'[i] = Unit((decoded + k) * RecLen + i - 1)
        BY <1>8, <1>9, <1>10
      <4>2. i \in Nat /\ i >= 1
        BY <1>9, <1>10
      <4> DEFINE a == (decoded + k) * RecLen + i - 1
                 z == Records * RecLen + i - 1
      <4>3. a \in Nat /\ z \in Nat /\ ~(a < Records * RecLen) /\ ~(z < Records * RecLen)
        BY <3>2, <4>2
      <4>4. Unit(a) = FF /\ Unit(z) = FF
        BY <4>3, UnitErased
      <4> QED
        BY <3>1, <4>1, <4>4
    <3>4. Left(r + 1) = 0
      <4>1. CASE Len(buffer) = r * RegLen - decoded * RecLen
        <5>1. (r + 1) * RegLen = r * RegLen + RegLen /\ r * RegLen \in Nat
              /\ decoded * RecLen \in Nat /\ k * RecLen \in Nat
          BY <1>3, <1>10
        <5>2. (r + 1) * RegLen >= Records * RecLen /\ (r + 1) * RegLen \in Nat
          BY <1>1, <1>3, <1>10, <3>2, <4>1, <5>1
        <5> QED
          BY <3>2, <5>2 DEF Left
      <4>2. CASE decoded = Records /\ Left(r) = 0
        BY <4>2, ContentUnits
      <4> QED
        BY <1>2, <4>1, <4>2
    <3> QED
      BY <2>1, <3>1, <3>3, <3>4 DEF Gathered
  <2> QED
    BY <2>2, <2>3
<1>12. trailer' => trailer \/ Left(r + 1) = 0
  <2> SUFFICES ASSUME Left(r + 1) # 0 PROVE trailer' => trailer
    OBVIOUS
  <2>1. Content(r)[RegLen] # FF
    <3>1. /\ Left(r) \in Nat /\ Left(r + 1) \in Nat /\ Left(r) - Left(r + 1) \in 0..RegLen
          /\ Left(r) - Left(r + 1) < RegLen => Left(r + 1) = 0
          /\ \A i \in 1..RegLen : Content(r)[i] # FF <=> i <= Left(r) - Left(r + 1)
      BY ContentUnits
    <3>2. RegLen <= Left(r) - Left(r + 1) /\ RegLen \in 1..RegLen
      BY <1>3, <3>1
    <3> QED
      BY <3>1, <3>2
  <2>2. Len(Content(r)) = RegLen
    BY ContentCells
  <2>3. ~(\A i \in (Len(Content(r)) - RecLen + 1)..Len(Content(r)) : Content(r)[i] = FF)
    BY <1>3, <2>1, <2>2
  <2> PICK hits \in Nat : CountErased(Content(r), hits)
    BY <1>9
  <2> DEFINE empty == hits = 0 /\ \A i \in (Len(Content(r)) - RecLen + 1)..Len(Content(r)) :
                                     Content(r)[i] = FF
  <2>4. trailer' = (trailer \/ (empty /\ streak + 1 >= StreakLimit))
    BY DEF CountErased
  <2>5. ~empty
    BY <2>3
  <2> HIDE DEF empty
  <2> QED
    BY <2>4, <2>5
<1>13. phantoms' = phantoms
  BY <1>9 DEF DecodedOK
<1> QED
  BY <1>9, <1>11, <1>12, <1>13

\* What a module answers within its memory, with nothing lost: an
\* acknowledgement first, and the data unless the register is erased.
LEMMA AnswerDue ==
    ASSUME NEW r \in Nat, deaf \in Nat, r < deaf, NEW a \in Answers(r)
    PROVE  /\ a # <<>> /\ a[1].kind = "ack"
           /\ Erased(Content(r)) \/ \E i \in DOMAIN a : a[i].kind = "data"
<1> DEFINE ack == [kind |-> "ack", reg |-> r]
           data == [kind |-> "data", reg |-> r]
           last == [kind |-> "trailer", reg |-> r]
<1>1. \/ a = <<ack, data>>
      \/ Erased(Content(r)) /\ a \in {<<ack>>, <<ack, last>>}
  <2>1. ~(r >= deaf)
    OBVIOUS
  <2> QED
    BY <2>1 DEF Answers
<1>2. ack.kind = "ack" /\ data.kind = "data"
  OBVIOUS
<1> HIDE DEF ack, data, last
<1>3. CASE a = <<ack, data>>
  <2>1. a[1] = ack /\ a[2] = data /\ 2 \in DOMAIN a
    BY <1>3
  <2> QED
    BY <1>2, <1>3, <2>1
<1>4. CASE Erased(Content(r)) /\ a \in {<<ack>>, <<ack, last>>}
  <2>1. a # <<>> /\ a[1] = ack
    BY <1>4
  <2> QED
    BY <1>2, <1>4, <2>1
<1> QED
  BY <1>1, <1>3, <1>4

\* An erased register is behind the table.
LEMMA ErasedLeft ==
    ASSUME WorldOK, Contiguous, shift = 0, NEW r \in Nat, Erased(Content(r))
    PROVE  Left(r) = 0
<1>1. /\ Left(r) \in Nat /\ Left(r + 1) \in Nat
      /\ Left(r) - Left(r + 1) < RegLen => Left(r + 1) = 0
      /\ \A i \in 1..RegLen : Content(r)[i] # FF <=> i <= Left(r) - Left(r + 1)
  BY ContentUnits
<1>2. 1 \in 1..RegLen /\ RegLen \in Nat
  BY Lengths
<1>3. Content(r)[1] = FF
  <2>1. 1 \in DOMAIN Content(r)
    BY <1>2 DEF Content
  <2> QED
    BY <2>1 DEF Erased
<1> QED
  BY <1>1, <1>2, <1>3

\* A counted plan covers the table.
LEMMA PlanCovers ==
    ASSUME WorldOK, Contiguous, kind # "self", deaf \in {0, 1, Registers}, deaf > 1,
           Records < Registers
    PROVE  \A i \in DOMAIN CountPasses(Records) :
              Covers(CountPasses(Records)[i]) /\ CountPasses(Records)[i] # <<>>
<1> DEFINE m == IF kind = "switch" THEN ((Records * RecLen + RegLen - 1) \div RegLen) + 1
                                   ELSE Most(Records, 1)
<1>1. deaf = 256 /\ Records \in 0..255
  <2>1. Registers = 256
    BY DEF Registers
  <2>2. Records \in Nat
    BY TableInterval
  <2> QED
    BY <2>1, <2>2
<1>2. /\ m \in 1..256 /\ m * RegLen >= Records * RecLen /\ m * RegLen \in Nat
  <2>1. CASE kind = "switch"
    <3>1. RecLen = 3 /\ RegLen = 8
      BY <2>1, Lengths
    <3> QED
      BY <1>1, <2>1, <3>1
  <2>2. CASE kind # "switch"
    <3>1. RecLen = 1 /\ RegLen = 1
      BY <2>2, Lengths
    <3> QED
      BY <1>1, <2>2, <3>1 DEF Most
  <2> QED
    BY <2>1, <2>2
<1>3. CountPasses(Records) = <<Range0(m)>>
  BY DEF CountPasses
<1> HIDE DEF m
<1>4. /\ Range0(m) # <<>> /\ Len(Range0(m)) = m /\ DOMAIN Range0(m) = 1..m
      /\ \A i \in 1..m : Range0(m)[i] = i - 1
  BY <1>2 DEF Range0
<1>5. Covers(Range0(m))
  <2>1. \A i \in DOMAIN Range0(m) : Range0(m)[i] < deaf
    <3>1. \A i \in 1..m : i - 1 < 256
      BY <1>2
    <3> QED
      BY <1>1, <1>4, <3>1
  <2>2. Range0(m)[Len(Range0(m))] + 1 = m
    BY <1>2, <1>4
  <2>3. Left(m) = 0
    <3>1. Records * RecLen \in Nat
      BY <1>1, Lengths
    <3> QED
      BY <1>2, <3>1 DEF Left
  <2> QED
    BY <2>1, <2>2, <2>3 DEF Covers
<1> QED
  BY <1>3, <1>4, <1>5

\* The registers left after one of them.
LEMMA CoversTail ==
    ASSUME regs \in Seq(Nat), regs # <<>>, Covers(regs)
    PROVE  /\ Head(regs) \in Nat /\ Head(regs) < deaf /\ Covers(Tail(regs))
           /\ Tail(regs) = <<>> => Left(Head(regs) + 1) = 0
<1>1. /\ Len(regs) \in Nat \ {0} /\ Tail(regs) \in Seq(Nat)
      /\ Head(regs) = regs[1] /\ 1 \in DOMAIN regs /\ Head(regs) \in Nat
      /\ Len(Tail(regs)) = Len(regs) - 1 /\ DOMAIN Tail(regs) = 1..(Len(regs) - 1)
      /\ \A i \in DOMAIN Tail(regs) : i + 1 \in DOMAIN regs /\ Tail(regs)[i] = regs[i + 1]
  BY WireTail
<1>2. Left(regs[Len(regs)] + 1) = 0 /\ \A i \in DOMAIN regs : regs[i] < deaf
  BY DEF Covers
<1>3. Tail(regs) # <<>> => Tail(regs)[Len(Tail(regs))] = regs[Len(regs)]
  <2> SUFFICES ASSUME Tail(regs) # <<>> PROVE Tail(regs)[Len(Tail(regs))] = regs[Len(regs)]
    OBVIOUS
  <2>1. Len(Tail(regs)) # 0
    BY <1>1
  <2>2. Len(Tail(regs)) \in DOMAIN Tail(regs) /\ Len(Tail(regs)) + 1 = Len(regs)
    BY <1>1, <2>1
  <2> QED
    BY <1>1, <2>2
<1>4. Covers(Tail(regs))
  BY <1>1, <1>2, <1>3 DEF Covers
<1>5. Tail(regs) = <<>> => Len(regs) = 1
  BY <1>1
<1> QED
  BY <1>1, <1>2, <1>4, <1>5

\* The end of the table reached: every record is filed.
LEMMA AllGathered ==
    ASSUME WorldOK, DecodedOK, Contiguous, NEW r \in Nat, GatheredUpTo(r), Left(r) = 0
    PROVE  decoded = Records /\ filed = table
<1>1. /\ decoded \in 0..Records /\ filed = 0..(decoded - 1)
      /\ \/ Len(buffer) = r * RegLen - decoded * RecLen
         \/ decoded = Records
  BY DEF GatheredUpTo, Gathered
<1>2. Records \in Nat /\ table = 0..(Records - 1)
  BY TableInterval
<1>3. decoded = Records
  <2> SUFFICES ASSUME Len(buffer) = r * RegLen - decoded * RecLen PROVE decoded = Records
    BY <1>1
  <2>1. Len(buffer) \in Nat /\ Len(buffer) < RecLen
    BY DEF DecodedOK
  <2>2. CASE kind = "switch"
    <3>1. RecLen = 3 /\ RegLen = 8
      BY <2>2, Lengths
    <3>2. r * 8 >= Records * 3
      BY <1>2, <3>1 DEF Left
    <3> QED
      BY <1>1, <1>2, <2>1, <3>1, <3>2
  <2>3. CASE kind # "switch"
    <3>1. RecLen = 1 /\ RegLen = 1
      BY <2>3, Lengths
    <3>2. r >= Records
      BY <1>2, <3>1 DEF Left
    <3> QED
      BY <1>1, <1>2, <2>1, <3>1, <3>2
  <2> QED
    BY <2>2, <2>3
<1> QED
  BY <1>1, <1>2, <1>3

\* A register behind the table may be passed over.
LEMMA SkipGathered ==
    ASSUME WorldOK, DecodedOK, Contiguous, shift = 0, NEW r \in Nat, GatheredUpTo(r), Left(r) = 0
    PROVE  GatheredUpTo(r + 1)
<1>1. decoded = Records
  BY AllGathered
<1>2. Left(r + 1) = 0
  BY ContentUnits
<1> QED
  BY <1>1, <1>2 DEF GatheredUpTo, Gathered

\* Initially no plan counts.
LEMMA InitClean == Init => CleanInv /\ ByteInv
<1> SUFFICES ASSUME Init PROVE CleanInv /\ ByteInv
  OBVIOUS
<1>1. expected = NoCount /\ deaf \in {0, 1, Registers} /\ ~phantoms /\ aligned = "open" /\ ~trailer
  BY DEF Init
<1>2. Records < Registers
  BY ScanAssumption DEF Init, Records
<1> QED
  BY <1>1, <1>2 DEF CleanInv, Clear, ByteInv

\* The module and its table stay as they are.
LEMMA StepByte == ScanOK /\ PlannedInv /\ ByteInv /\ [Next]_vars => ByteInv'
<1> SUFFICES ASSUME ScanOK, PlannedInv, ByteInv, [Next]_vars PROVE ByteInv'
  OBVIOUS
<1>1. UNCHANGED worldVars
  BY DEF Next, Scan, vars, worldVars, Plan, StartPass, PassDone, PassCut, NextRegister, Send,
         TakeAck, AckTimeout, DataWaitOver, GiveUp, Extend, Finish, Deliver
<1>2. deaf' \in {0, 1, Registers} /\ Records' < Registers
  BY <1>1 DEF ByteInv, Records, worldVars
<1>3. ASSUME pc' = "plan" PROVE ~phantoms' /\ aligned' = "open" /\ ~trailer'
  <2>1. UNCHANGED vars
    <3>1. CASE Deliver
      BY <1>3, <3>1 DEF Deliver, PlannedInv
    <3>2. CASE Scan
      BY <1>3, <3>2 DEF ScanOK, PhaseOK, Scan, Plan, StartPass, PassDone, PassCut, NextRegister,
         Send, TakeAck, AckTimeout, DataWaitOver, GiveUp, Extend, Finish, EndPass, AttemptFailed,
         AfterRead
    <3> QED
      BY <3>1, <3>2 DEF Next
  <2> QED
    BY <1>3, <2>1 DEF vars, parseVars, ByteInv
<1> QED
  BY <1>2, <1>3 DEF ByteInv

\* Each action leaves a scan that nothing troubled untroubled.
LEMMA StepClean ==
    ScanOK /\ AnswerInv /\ PlannedInv /\ ByteInv /\ CleanInv /\ [Next]_vars => CleanInv'
<1> SUFFICES ASSUME ScanOK, AnswerInv, PlannedInv, ByteInv, CleanInv, [Next]_vars, Clear'
             PROVE  /\ pc' \notin {"plan", "gaveup"} /\ (pc' = "send" => attempt' = 0)
                    /\ pc' = "ack" => queue' # <<>> \/ (wire' # <<>> /\ wire'[1].kind = "ack")
                    /\ missed' = 0 /\ ~phantoms' /\ aligned' # "no"
                    /\ Covers(regs)'
                    /\ \A i \in DOMAIN passes' : Covers(passes[i])' /\ passes'[i] # <<>>
                    /\ \E r \in Nat : At(r)' /\ GatheredUpTo(r)' /\ Ahead(r)'
                    /\ pc' = "done" => stored' = table'
  BY DEF CleanInv
<1> USE DEF worldVars, faultVars, progVars, parseVars, planVars
<1>0. WorldOK /\ ReadOK /\ PlanOK /\ AttemptOK /\ DecodedOK /\ PhaseOK
  BY DEF ScanOK
<1>1. UNCHANGED worldVars
  BY DEF Next, Scan, vars, Plan, StartPass, PassDone, PassCut, NextRegister, Send, TakeAck,
         AckTimeout, DataWaitOver, GiveUp, Extend, Finish, Deliver
<1>2. Contiguous /\ shift = 0 /\ ~late /\ deaf > 1 /\ deaf \in Nat
  <2>1. deaf \in Nat
    BY DEF ByteInv, Registers
  <2> QED
    BY <1>1, <2>1 DEF Clear, Contiguous
<1>3. lost = 0 /\ lost' = 0
  <2>1. lost \in Nat /\ lost' = 0
    BY <1>0, Bounds DEF WorldOK, Clear
  <2>2. CASE Send
    <3>1. lost' = lost + 1 \/ \E a \in Answers(Head(regs)) : \E f \in Thinned(a) : lost' = lost + f[2]
      BY <2>2 DEF Send
    <3>2. Thinned(<<>>) = Thinned(<<>>)
      OBVIOUS
    <3>3. \A a : \A f \in Thinned(a) : f[2] \in {0, 1}
      BY DEF Thinned
    <3> QED
      BY <2>1, <3>1, <3>3
  <2>3. CASE ~Send
    BY <2>1, <2>3 DEF Next, Scan, vars, Plan, StartPass, PassDone, PassCut, NextRegister, TakeAck,
         AckTimeout, DataWaitOver, GiveUp, Extend, Finish, Deliver
  <2> QED
    BY <2>1, <2>2, <2>3
\* The operators on an unchanged world.
<1>4. /\ Covers(regs)' <=> Covers(regs')
      /\ \A i : Covers(passes[i])' <=> Covers(passes'[i])
      /\ \A r : Left(r)' = Left(r)
      /\ Records' = Records
  BY <1>1 DEF Covers, Left, Records, RecLen, RegLen
<1>5. ASSUME NEW r \in Nat, Gathered(buffer', decoded', filed', r) PROVE GatheredUpTo(r)'
  BY <1>1, <1>5 DEF GatheredUpTo, Gathered, Left, Records, RecLen, RegLen, Unit
<1>6. ASSUME NEW r \in Nat, GatheredUpTo(r), UNCHANGED <<buffer, decoded, filed>>
      PROVE  GatheredUpTo(r)'
  <2>1. Gathered(buffer', decoded', filed', r)
    BY <1>6 DEF GatheredUpTo
  <2> QED
    BY <1>5, <2>1
\* But for the plan, a scan that is clear was so before.
<1>7. ASSUME expected' = expected
      PROVE  /\ Clear /\ kind # "self" /\ expected = Records
             /\ pc \notin {"plan", "gaveup"} /\ (pc = "send" => attempt = 0)
             /\ pc = "ack" => queue # <<>> \/ (wire # <<>> /\ wire[1].kind = "ack")
             /\ missed = 0 /\ ~phantoms /\ aligned # "no"
             /\ Covers(regs) /\ (\A i \in DOMAIN passes : Covers(passes[i]) /\ passes[i] # <<>>)
             /\ \E r \in Nat : At(r) /\ GatheredUpTo(r) /\ Ahead(r)
             /\ pc = "done" => stored = table
  <2>1. Clear
    BY <1>1, <1>2, <1>3, <1>7 DEF Clear
  <2>2. kind # "self" /\ expected = Records
    BY <2>1 DEF Clear, PlannedInv
  <2> QED
    BY <2>1, <2>2 DEF CleanInv
\* The task goes on, and what it goes by is found where it was.
<1>8. ASSUME UNCHANGED <<expected, missed, phantoms, aligned, passes, buffer, decoded, filed>>,
             pc' \notin {"plan", "gaveup", "done"}, pc # "done",
             pc' = "send" => attempt' = 0,
             pc' = "ack" => queue' # <<>> \/ (wire' # <<>> /\ wire'[1].kind = "ack"),
             Covers(regs'),
             \A r \in Nat : At(r) /\ GatheredUpTo(r) /\ Ahead(r) =>
                \E q \in Nat : At(q)' /\ GatheredUpTo(q) /\ Ahead(q)'
      PROVE  /\ pc' \notin {"plan", "gaveup"} /\ (pc' = "send" => attempt' = 0)
             /\ pc' = "ack" => queue' # <<>> \/ (wire' # <<>> /\ wire'[1].kind = "ack")
             /\ missed' = 0 /\ ~phantoms' /\ aligned' # "no"
             /\ Covers(regs)'
             /\ \A i \in DOMAIN passes' : Covers(passes[i])' /\ passes'[i] # <<>>
             /\ \E r \in Nat : At(r)' /\ GatheredUpTo(r)' /\ Ahead(r)'
             /\ pc' = "done" => stored' = table'
  <2>1. /\ missed = 0 /\ ~phantoms /\ aligned # "no"
        /\ \A i \in DOMAIN passes : Covers(passes[i]) /\ passes[i] # <<>>
    BY <1>7, <1>8
  <2> PICK r \in Nat : At(r) /\ GatheredUpTo(r) /\ Ahead(r)
    BY <1>7, <1>8
  <2> PICK q \in Nat : At(q)' /\ GatheredUpTo(q) /\ Ahead(q)'
    BY <1>8
  <2>2. GatheredUpTo(q)'
    BY <1>6, <1>8
  <2>3. Covers(regs)' /\ \A i \in DOMAIN passes' : Covers(passes[i])' /\ passes'[i] # <<>>
    <3>1. passes' = passes /\ Covers(regs')
      BY <1>8
    <3> QED
      BY <1>4, <2>1, <3>1
  <2> QED
    BY <1>8, <2>1, <2>2, <2>3
<1>9. CASE Plan
  <2>1. /\ pc = "plan" /\ pc' = "pass" /\ decoded' = 0 /\ missed' = 0
        /\ UNCHANGED <<buffer, filed, phantoms, aligned, trailer, regs>>
    BY <1>9 DEF Plan
  <2>2. kind # "self" /\ passes' = CountPasses(Records)
    <3> PICK answered \in BOOLEAN :
          LET n == Cardinality(table)
              counted == answered /\ kind # "self"
              ps == IF counted THEN CountPasses(n) ELSE <<Range0(FixedBand)>>
          IN expected' = (IF counted THEN n ELSE NoCount) /\ passes' = ps
      BY <1>9 DEF Plan
    <3>1. answered /\ kind # "self"
      BY DEF Clear
    <3> QED
      BY <3>1 DEF Records
  <2>3. buffer = <<>> /\ filed = {} /\ regs = <<>> /\ ~phantoms /\ aligned # "no" /\ ~trailer
    BY <1>0, <2>1 DEF PlannedInv, ReadOK, ByteInv
  <2>4. \A i \in DOMAIN passes' : Covers(passes'[i]) /\ passes'[i] # <<>>
    BY <1>0, <1>2, <2>2, PlanCovers DEF ByteInv
  <2>5. passes' # <<>>
    <3>1. Len(passes') = 1 /\ Records \in Nat
      BY <1>0, <1>2, <2>2, TableInterval, PlanShape
    <3> QED
      BY <3>1
  <2>6. Gathered(buffer', decoded', filed', 0)
    <3>1. Records \in Nat /\ RecLen \in Nat /\ RegLen \in Nat
      BY <1>0, <1>2, TableInterval, Lengths
    <3>2. Len(<<>>) = 0 /\ 0 * RecLen = 0 /\ 0 * RegLen = 0
      BY <3>1
    <3>3. 0 \in 0..Records /\ {} = 0..(0 - 1) /\ 1..0 = {}
      BY <3>1
    <3> QED
      BY <2>1, <2>3, <3>2, <3>3 DEF Gathered
  <2>7. At(0)' /\ Ahead(0)'
    BY <2>1, <2>3, <2>5 DEF At, Ahead
  <2>8. GatheredUpTo(0)'
    BY <1>5, <2>6
  <2>9. Covers(regs)'
    BY <1>4, <2>1, <2>3 DEF Covers
  <2> QED
    BY <1>4, <2>1, <2>3, <2>4, <2>7, <2>8, <2>9
<1>10. CASE StartPass
  <2>1. /\ pc = "pass" /\ pc' = "loop" /\ passes # <<>> /\ ~trailer'
        /\ regs' = Head(passes) /\ passes' = Tail(passes)
        /\ UNCHANGED <<expected, missed, phantoms, aligned, buffer, decoded, filed>>
    BY <1>10 DEF StartPass
  <2>2. passes[1] = Head(passes) /\ 1 \in DOMAIN passes /\ passes' = <<>>
    BY <1>0, <2>1, OneElement DEF PlanOK
  <2>3. Covers(regs') /\ regs' # <<>> /\ Head(regs') = 0
    BY <1>7, <2>1, <2>2 DEF PlannedInv, Clear
  <2> PICK r \in Nat : At(r) /\ GatheredUpTo(r) /\ Ahead(r)
    BY <1>7, <2>1
  <2>4. r = 0
    BY <2>1 DEF At
  <2>5. At(r)' /\ Ahead(r)'
    BY <2>1, <2>3, <2>4 DEF At, Ahead
  <2>6. GatheredUpTo(r)'
    BY <1>6, <2>1
  <2> QED
    BY <1>4, <1>7, <2>1, <2>2, <2>3, <2>5, <2>6
<1>11. CASE PassDone
  <2>1. /\ pc = "loop" /\ regs = <<>> /\ pc' = "pass" /\ ~trailer' /\ regs' = <<>>
        /\ UNCHANGED <<expected, missed, phantoms, aligned, passes, buffer, decoded, filed>>
    BY <1>11 DEF PassDone, EndPass
  <2>2. passes = <<>>
    BY <2>1 DEF PlannedInv
  <2>3. \A r \in Nat : Ahead(r) => At(r)' /\ Ahead(r)'
    BY <1>4, <2>1, <2>2 DEF At, Ahead
  <2>4. Covers(regs')
    BY <2>1 DEF Covers
  <2> QED
    BY <1>8, <2>1, <2>3, <2>4
<1>12. CASE PassCut
  <2>1. /\ pc = "loop" /\ trailer /\ pc' = "pass" /\ ~trailer' /\ regs' = <<>>
        /\ UNCHANGED <<expected, missed, phantoms, aligned, passes, buffer, decoded, filed>>
    BY <1>12 DEF PassCut, EndPass
  <2>2. passes = <<>>
    BY <2>1 DEF PlannedInv
  <2>3. \A r \in Nat : Ahead(r) => At(r)' /\ Ahead(r)'
    BY <1>4, <2>1, <2>2 DEF At, Ahead
  <2>4. Covers(regs')
    BY <2>1 DEF Covers
  <2> QED
    BY <1>8, <2>1, <2>3, <2>4
<1>13. CASE NextRegister
  <2>1. /\ pc = "loop" /\ regs # <<>> /\ ~trailer /\ pc' = "send" /\ attempt' = 0
        /\ UNCHANGED <<regs, trailer>>
        /\ UNCHANGED <<expected, missed, phantoms, aligned, passes, buffer, decoded, filed>>
    BY <1>13 DEF NextRegister
  <2>2. \A r \in Nat : At(r) => At(r)' /\ Ahead(r)'
    BY <2>1 DEF At, Ahead
  <2>3. Covers(regs')
    BY <1>7, <2>1
  <2> QED
    BY <1>8, <2>1, <2>2, <2>3
<1>14. CASE Send
  <2>1. /\ pc = "send" /\ attempt' = attempt + 1 /\ UNCHANGED <<regs, trailer>>
        /\ UNCHANGED <<expected, missed, phantoms, aligned, passes, decoded, filed>>
        /\ \/ /\ \E a \in Answers(Head(regs)) : \E f \in Thinned(a) :
                    lost' = lost + f[2] /\ wire' = wire \o f[1]
              /\ pc' = "ack" /\ UNCHANGED buffer
           \/ lost' = lost + 1
    BY <1>14 DEF Send
  <2>2. /\ regs # <<>> /\ Head(regs) \in Nat /\ Head(regs) < deaf /\ Covers(regs')
        /\ wire = <<>> /\ attempt = 0
    <3>1. regs # <<>> /\ regs \in Seq(Nat)
      BY <1>0, <2>1 DEF ReadOK
    <3>2. Covers(regs) /\ attempt = 0
      BY <1>7, <2>1
    <3>3. Head(regs) \in Nat /\ Head(regs) < deaf
      BY <3>1, <3>2, CoversTail
    <3>4. wire = <<>>
      BY <1>2, <2>1 DEF AnswerInv
    <3> QED
      BY <2>1, <3>1, <3>2, <3>3, <3>4
  <2>3. PICK a \in Answers(Head(regs)) : wire' = a /\ pc' = "ack" /\ UNCHANGED buffer
    <3>1. /\ pc' = "ack" /\ UNCHANGED buffer
          /\ \E a \in Answers(Head(regs)) : \E f \in Thinned(a) :
                lost' = lost + f[2] /\ wire' = wire \o f[1]
      BY <1>3, <2>1
    <3> PICK a \in Answers(Head(regs)) : \E f \in Thinned(a) :
                lost' = lost + f[2] /\ wire' = wire \o f[1]
      BY <3>1
    <3> PICK f \in Thinned(a) : lost' = lost + f[2] /\ wire' = wire \o f[1]
      OBVIOUS
    <3>2. f[2] \in {0, 1} /\ f[1] \in Seq(Answer)
      BY <2>2, AnswerFrames
    <3>3. f[2] = 0
      BY <1>3, <3>2
    <3>4. f[1] = a
      BY <3>3 DEF Thinned
    <3>5. wire' = a
      BY <2>2, <3>2, <3>4
    <3> QED
      BY <3>1, <3>5
  <2>4. /\ wire' # <<>> /\ wire'[1].kind = "ack"
        /\ Left(Head(regs)) = 0 \/ \E i \in DOMAIN wire' : wire'[i].kind = "data"
    <3>1. /\ a # <<>> /\ a[1].kind = "ack"
          /\ Erased(Content(Head(regs))) \/ \E i \in DOMAIN a : a[i].kind = "data"
      BY <1>2, <2>2, AnswerDue
    <3>2. Erased(Content(Head(regs))) => Left(Head(regs)) = 0
      BY <1>0, <1>2, <2>2, ErasedLeft
    <3> QED
      BY <2>3, <3>1, <3>2
  <2>5. \A r \in Nat : At(r) /\ Ahead(r) => At(r)' /\ Ahead(r)'
    <3> SUFFICES ASSUME NEW r \in Nat, At(r), Ahead(r) PROVE At(r)' /\ Ahead(r)'
      OBVIOUS
    <3>1. r = Head(regs)
      BY <2>1, <2>2 DEF At, DataIn
    <3> QED
      BY <1>4, <2>1, <2>2, <2>3, <2>4, <3>1 DEF At, Ahead
  <2> QED
    BY <1>8, <2>1, <2>2, <2>3, <2>4, <2>5
<1>15. CASE TakeAck
  <2>1. /\ pc = "ack" /\ pc' = "data" /\ UNCHANGED <<regs, trailer, event, wire, attempt>>
        /\ UNCHANGED <<expected, missed, phantoms, aligned, passes, buffer, decoded, filed>>
    BY <1>15 DEF TakeAck
  <2>2. \A r \in Nat : At(r) /\ Ahead(r) => At(r)' /\ Ahead(r)'
    BY <1>4, <2>1 DEF At, Ahead, DataIn
  <2>3. Covers(regs')
    BY <1>7, <2>1
  <2> QED
    BY <1>8, <2>1, <2>2, <2>3
<1>16. CASE AckTimeout
  <2>1. expected' = expected /\ pc = "ack" /\ queue = <<>> /\ (wire = <<>> \/ late)
    BY <1>16 DEF AckTimeout, AckWaitOver
  <2> QED
    BY <1>2, <1>7, <2>1
<1>17. CASE DataWaitOver
  <2>1. /\ pc = "data" /\ pc' = "loop" /\ regs' = Tail(regs) /\ UNCHANGED trailer
        /\ UNCHANGED <<expected, missed, phantoms, aligned, passes, buffer, decoded, filed>>
        /\ event \/ wire = <<>> \/ late
    BY <1>17 DEF DataWaitOver, DataCame, AfterRead
  <2>2. wire = <<>>
    BY <1>2, <2>1 DEF AnswerInv
  <2>3. regs # <<>> /\ regs \in Seq(Nat) /\ Covers(regs) /\ InOrder(regs)
    BY <1>0, <1>7, <2>1 DEF ReadOK, PlannedInv, Clear
  <2>4. /\ Head(regs) \in Nat /\ Covers(regs')
        /\ Tail(regs) = <<>> => Left(Head(regs) + 1) = 0
        /\ Tail(regs) # <<>> => Head(Tail(regs)) = Head(regs) + 1
    BY <2>1, <2>3, CoversTail, InOrderTail
  <2>5. ASSUME NEW r \in Nat, At(r), GatheredUpTo(r), Ahead(r)
        PROVE  \E q \in Nat : At(q)' /\ GatheredUpTo(q) /\ Ahead(q)'
    <3>1. PICK q \in Nat : q = Head(regs) + 1
      BY <2>4
    <3>2. r = Head(regs) \/ r = q
      BY <2>1, <2>5, <3>1 DEF At
    <3>3. trailer => Left(r) = 0
      BY <2>5 DEF Ahead
    <3>4. r = Head(regs) => Left(r) = 0 /\ GatheredUpTo(q) /\ Left(q) = 0
      <4> SUFFICES ASSUME r = Head(regs) PROVE Left(r) = 0 /\ GatheredUpTo(q) /\ Left(q) = 0
        OBVIOUS
      <4>1. Left(r) = 0
        BY <2>1, <2>2, <2>5 DEF Ahead
      <4>2. Left(r + 1) = 0
        BY <1>0, <1>2, <4>1, ContentUnits
      <4>3. GatheredUpTo(r + 1)
        BY <1>0, <1>2, <2>5, <4>1, SkipGathered
      <4> QED
        BY <3>1, <4>1, <4>2, <4>3
    <3>5. GatheredUpTo(q) /\ (trailer => Left(q) = 0) /\ (Tail(regs) = <<>> => Left(q) = 0)
      BY <2>4, <2>5, <3>1, <3>2, <3>3, <3>4
    <3>6. At(q)' /\ Ahead(q)'
      BY <1>4, <2>1, <2>4, <3>1, <3>5 DEF At, Ahead
    <3> QED
      BY <3>1, <3>5, <3>6
  <2> QED
    BY <1>8, <2>1, <2>4, <2>5
<1>18. CASE GiveUp
  <2>1. expected' = expected /\ pc = "gaveup"
    BY <1>18 DEF GiveUp
  <2> QED
    BY <1>7, <2>1
<1>19. CASE Extend
  <2>1. expected' = expected /\ kind = "self"
    BY <1>19 DEF Extend
  <2> QED
    BY <1>7, <2>1
<1>20. CASE Finish
  <2>1. /\ pc = "pass" /\ passes = <<>> /\ pc' = "done" /\ UNCHANGED <<regs, trailer>>
        /\ UNCHANGED <<expected, missed, phantoms, aligned, passes, buffer, decoded, filed>>
        /\ stored' = IF kind # "self" /\ LinkTableComplete THEN filed ELSE stored \cup filed
    BY <1>20 DEF Finish
  <2> PICK r \in Nat : At(r) /\ GatheredUpTo(r) /\ Ahead(r)
    BY <1>7, <2>1
  <2>2. Left(r) = 0
    BY <2>1 DEF Ahead
  <2>3. decoded = Records /\ filed = table
    BY <1>0, <1>2, <2>2, AllGathered
  <2>4. /\ kind # "self" /\ expected = Records /\ expected # NoCount
        /\ missed = 0 /\ ~phantoms /\ aligned # "no" /\ Covers(regs)
    BY <1>7, <2>1 DEF Clear
  <2>5. LinkTableComplete
    <3>1. Records \in Nat
      BY <1>0, <1>2, TableInterval
    <3> QED
      BY <2>3, <2>4, <3>1 DEF LinkTableComplete
  <2>6. stored' = table'
    BY <1>1, <2>1, <2>3, <2>4, <2>5
  <2>7. At(r)' /\ Ahead(r)'
    BY <1>4, <2>1, <2>2 DEF At, Ahead
  <2>8. GatheredUpTo(r)'
    BY <1>6, <2>1
  <2>9. Covers(regs)'
    BY <1>4, <2>1, <2>4
  <2> QED
    BY <1>4, <2>1, <2>4, <2>6, <2>7, <2>8, <2>9
<1>21. CASE UNCHANGED vars
  <2>1. /\ UNCHANGED <<pc, regs, attempt, wire, queue, event, trailer, stored>>
        /\ UNCHANGED <<expected, missed, phantoms, aligned, passes, buffer, decoded, filed>>
    BY <1>21 DEF vars
  <2> PICK r \in Nat : At(r) /\ GatheredUpTo(r) /\ Ahead(r)
    BY <1>7, <2>1
  <2>2. At(r)' /\ Ahead(r)'
    BY <1>4, <2>1 DEF At, Ahead, DataIn
  <2>3. GatheredUpTo(r)'
    BY <1>6, <2>1
  <2> QED
    BY <1>1, <1>4, <1>7, <2>1, <2>2, <2>3
<1>22. CASE Deliver
  <2>1. /\ wire # <<>> /\ pc # "done" /\ wire' = Tail(wire)
        /\ UNCHANGED <<pc, regs, attempt, awaiting, active, expected, missed, passes, stored>>
        /\ \/ /\ wire[1].kind = "ack" /\ UNCHANGED <<event, trailer>> /\ UNCHANGED parseVars
              /\ queue' = IF awaiting THEN Append(queue, wire[1].reg) ELSE queue
           \/ /\ wire[1].kind = "trailer" /\ event' = (event \/ active)
              /\ trailer' = (trailer \/ active) /\ UNCHANGED queue /\ UNCHANGED parseVars
           \/ /\ wire[1].kind = "data" /\ event' = (event \/ active) /\ UNCHANGED queue
              /\ Parse(Content(wire[1].reg))
    BY <1>22 DEF Deliver
  <2>2. /\ wire \in Seq(Answer) /\ 1 \in DOMAIN wire /\ Len(wire) \in {1, 2}
        /\ DOMAIN wire = 1..Len(wire) /\ DOMAIN Tail(wire) = 1..(Len(wire) - 1)
        /\ \A i \in DOMAIN Tail(wire) : i + 1 \in DOMAIN wire /\ Tail(wire)[i] = wire[i + 1]
        /\ pc \in {"ack", "data"} /\ ~event /\ wire[1].reg = block
        /\ wire[1].kind # "ack" => Len(wire) = 1
    <3>1. /\ wire \in Seq(Answer) /\ Len(wire) <= 2 /\ (Len(wire) = 2 => wire[1].kind = "ack")
          /\ pc \in {"ack", "data"} /\ ~event /\ \A i \in DOMAIN wire : wire[i].reg = block
      BY <1>0, <1>2, <2>1 DEF AnswerInv, WorldOK
    <3>2. /\ Len(wire) \in Nat \ {0} /\ DOMAIN wire = 1..Len(wire)
          /\ DOMAIN Tail(wire) = 1..(Len(wire) - 1)
          /\ \A i \in DOMAIN Tail(wire) : i + 1 \in DOMAIN wire /\ Tail(wire)[i] = wire[i + 1]
      <4> HIDE DEF Answer
      <4> QED
        BY <2>1, <3>1, WireTail
    <3>3. Len(wire) \in {1, 2} /\ 1 \in DOMAIN wire
      BY <3>1, <3>2
    <3> QED
      BY <3>1, <3>2, <3>3
  <2>3. active /\ awaiting /\ regs # <<>> /\ regs \in Seq(Nat) /\ Head(regs) \in Nat
        /\ block = Head(regs)
    <3>1. active /\ awaiting /\ regs # <<>> /\ regs \in Seq(Nat) /\ block = Head(regs)
      BY <1>0, <2>2 DEF PhaseOK, ReadOK
    <3> QED
      BY <3>1
  <2>4. \A r \in Nat : At(r) => r = Head(regs)
    BY <2>2 DEF At, DataIn
  <2>5. Covers(regs')
    BY <1>7, <2>1
  <2>6. CASE wire[1].kind = "ack"
    <3>1. /\ UNCHANGED <<event, trailer, phantoms, aligned, buffer, decoded, filed>>
          /\ queue' = Append(queue, wire[1].reg)
      BY <2>1, <2>3, <2>6
    <3>2. queue' # <<>>
      <4>1. \A q, x : Append(q, x) # <<>>
        OBVIOUS
      <4> QED
        BY <3>1, <4>1
    <3>3. \A r \in Nat : At(r) /\ Ahead(r) => At(r)' /\ Ahead(r)'
      <4> SUFFICES ASSUME NEW r \in Nat, At(r), Ahead(r) PROVE At(r)' /\ Ahead(r)'
        OBVIOUS
      <4>1. At(r)'
        BY <2>1, <2>2, <3>1 DEF At, DataIn
      <4>2. ASSUME NEW i \in DOMAIN wire, wire[i].kind = "data"
            PROVE  \E j \in DOMAIN wire' : wire'[j].kind = "data"
        <5>1. i # 1 /\ i - 1 \in DOMAIN Tail(wire) /\ (i - 1) + 1 = i
          BY <2>2, <2>6, <4>2
        <5> QED
          BY <2>1, <2>2, <4>2, <5>1
      <4>3. Ahead(r)'
        BY <1>4, <2>1, <2>2, <3>1, <4>2 DEF Ahead
      <4> QED
        BY <4>1, <4>3
    <3> QED
      BY <1>8, <2>1, <2>2, <2>5, <3>1, <3>2, <3>3
  <2>7. CASE wire[1].kind = "trailer"
    <3>1. UNCHANGED <<phantoms, aligned, buffer, decoded, filed, queue>>
      BY <2>1, <2>7
    <3>2. pc' = "ack" => queue' # <<>>
      BY <1>7, <2>1, <2>7, <3>1
    <3>3. \A i \in DOMAIN wire : i = 1
      BY <2>2, <2>7
    <3>4. \A r \in Nat : At(r) /\ Ahead(r) => At(r)' /\ Ahead(r)'
      <4> SUFFICES ASSUME NEW r \in Nat, At(r), Ahead(r) PROVE At(r)' /\ Ahead(r)'
        OBVIOUS
      <4>1. r = Head(regs) /\ Left(r) = 0
        BY <2>2, <2>4, <2>7, <3>3 DEF Ahead
      <4> QED
        BY <1>4, <2>1, <2>2, <4>1 DEF At, Ahead
    <3> QED
      BY <1>8, <2>1, <2>2, <2>5, <3>1, <3>2, <3>4
  <2>8. CASE wire[1].kind = "data"
    <3>1. event' /\ UNCHANGED queue /\ Parse(Content(Head(regs)))
      BY <2>1, <2>2, <2>3, <2>8
    <3>2. /\ ~phantoms /\ aligned # "no" /\ missed = 0
          /\ \A i \in DOMAIN passes : Covers(passes[i]) /\ passes[i] # <<>>
          /\ pc = "ack" => queue # <<>>
      BY <1>7, <2>1, <2>8
    <3> PICK r \in Nat : At(r) /\ GatheredUpTo(r) /\ Ahead(r)
      BY <1>7, <2>1
    <3>3. r = Head(regs)
      BY <2>4
    <3>4. /\ Gathered(buffer', decoded', filed', r + 1)
          /\ aligned' # "no" /\ phantoms' = phantoms
          /\ trailer' => trailer \/ Left(r + 1) = 0
      BY <1>0, <1>2, <3>1, <3>2, <3>3, ParseGathered
    <3>5. PICK q \in Nat : q = r + 1
      OBVIOUS
    <3>6. trailer => Left(q) = 0
      <4> SUFFICES ASSUME trailer PROVE Left(q) = 0
        OBVIOUS
      <4>1. Left(r) = 0
        BY DEF Ahead
      <4> QED
        BY <1>0, <1>2, <3>5, <4>1, ContentUnits
    <3>7. At(q)'
      BY <2>1, <2>2, <3>1, <3>3, <3>5 DEF At, DataIn
    <3>8. Ahead(q)'
      <4>1. q # Head(regs')
        BY <2>1, <2>3, <3>3, <3>5
      <4> QED
        BY <1>4, <2>1, <2>2, <2>3, <3>4, <3>5, <3>6, <4>1 DEF Ahead
    <3>9. GatheredUpTo(q)'
      BY <1>5, <3>4, <3>5
    <3>10. pc' \in {"ack", "data"} /\ (pc' = "ack" => queue' # <<>>) /\ missed' = 0
      BY <2>1, <2>2, <3>1, <3>2
    <3>11. \A i \in DOMAIN passes' : Covers(passes[i])' /\ passes'[i] # <<>>
      BY <1>4, <2>1, <3>2
    <3> QED
      BY <1>4, <2>5, <3>2, <3>4, <3>7, <3>8, <3>9, <3>10, <3>11
  <2> QED
    BY <2>1, <2>6, <2>7, <2>8
<1> QED
  BY <1>9, <1>10, <1>11, <1>12, <1>13, <1>14, <1>15, <1>16, <1>17, <1>18, <1>19, <1>20, <1>21,
     <1>22 DEF Next, Scan

\* A scan that loses nothing, of a module whose table has no gaps, that answers
\* in time and says how many records it has, rebuilds the module's links, and
\* from nothing but the table: whatever the table's length, the plan reaches its
\* end, neither the trailer nor a run of erased registers cuts it off, no chunk
\* straddles two records and none is taken for a sign of corruption.
THEOREM CleanRebuilds == Spec => []CleanScanRebuilds
<1> DEFINE Inv == ScanOK /\ AnswerInv /\ PlannedInv /\ ByteInv /\ CleanInv
<1>1. Init => Inv
  BY InitScan, InitCounted, InitClean
<1>2. Inv /\ [Next]_vars => Inv'
  BY StepScan, StepAnswer, StepPlanned, StepByte, StepClean
<1>3. Inv => CleanScanRebuilds
  <2> SUFFICES ASSUME Inv, pc = "done", expected # NoCount, OneFault, lost = 0, deaf > 1
               PROVE  stored = table /\ ~phantoms
    BY DEF CleanScanRebuilds
  <2>1. Clear
    BY DEF Clear, OneFault
  <2> QED
    BY <2>1 DEF CleanInv
<1> QED
  BY <1>1, <1>2, <1>3, PTL DEF Spec
=============================================================================
