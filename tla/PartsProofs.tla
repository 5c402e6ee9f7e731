------------------------------ MODULE PartsProofs ------------------------------
(***************************************************************************)
(* What holds of the parts that share nothing, each of its own             *)
(* specification: PressTracker, FeedbackKey, Residue, SizedTable and       *)
(* PcLinkCopies for every value of their constants, Travel for the travel  *)
(* times whose ticks are whole hundredths (WholeSteps).                    *)
(***************************************************************************)
EXTENDS PressTracker, FeedbackKey, Travel, Residue, SizedTable, PcLinkCopies,
        SequenceTheorems, WellFoundedInduction, NaturalsInduction, TLAPS

-----------------------------------------------------------------------------
(* PressTracker                                                            *)

(* The inductive invariant. *)

PressIn(ids, counts) == [id : ids, count : counts, gaps : Seq(Nat),
                         patience : Release..MaxRelease]
Press == PressIn(1..begun, 1..frames)

\* What a key's press is made of.
PressType ==
    /\ begun \in 0..MaxPresses /\ frames \in 0..MaxFrames /\ silence \in Nat
    /\ \/ press = NoPress
       \/ press \in Press /\ Len(press.gaps) <= GapWindow
    /\ watcher \in [Presses -> {"none", "sleep", "release", "gone"}]
    /\ claimed \in [Presses -> 0..MaxPresses]

\* The press held is the last one begun and its watcher has not ended; watchers
\* start with their press; what each ended was its own.
WatcherInv ==
    /\ Holding => press.id = begun /\ watcher[begun] \in {"sleep", "release"}
    /\ \A w \in Presses : w > begun => watcher[w] = "none"
    /\ \A w \in Presses : claimed[w] \in {0, w}

PressInv == PressType /\ WatcherInv

-----------------------------------------------------------------------------
(* The operators on a press. *)

\* A press in progress is not NoPress, and has the fields of one.
LEMMA HeldPress ==
    ASSUME PressType
    PROVE  Holding <=> (press \in Press /\ Len(press.gaps) <= GapWindow)
BY DEF PressType, Holding, NoPress, Press, PressIn

\* The deque of gaps keeps at most GapWindow of them.
LEMMA RecentBound ==
    ASSUME NEW gaps \in Seq(Nat), Len(gaps) <= GapWindow + 1
    PROVE  Recent(gaps) \in Seq(Nat) /\ Len(Recent(gaps)) <= GapWindow
BY PressAssumption DEF Recent

\* update_release_threshold changes the patience only, and keeps it between the
\* configured threshold and its extension.
LEMMA PatientBound ==
    ASSUME NEW ids, NEW counts, counts \subseteq Nat,
           NEW p \in PressIn(ids, counts)
    PROVE  /\ Patient(p) \in PressIn(ids, counts)
           /\ Patient(p).id = p.id
           /\ Patient(p).gaps = p.gaps
<1> USE DEF PressIn
<1> DEFINE longer == IF p.patience > Duration(p) THEN p.patience ELSE Duration(p)
           capped == IF longer > MaxRelease THEN MaxRelease ELSE longer
<1>1. Duration(p) \in Nat
  <2>1. p.count \in Nat /\ Cadence \in Nat
    BY PressAssumption
  <2> QED
    BY <2>1 DEF Duration
<1>2. capped \in Release..MaxRelease
  BY <1>1, PressAssumption
<1>3. Release \in Release..MaxRelease
  BY PressAssumption
<1>4. \/ Patient(p) = [p EXCEPT !.patience = capped]
      \/ Patient(p) = [p EXCEPT !.patience = Release]
      \/ Patient(p) = p
  BY DEF Patient
<1> HIDE DEF capped
<1> QED
  BY <1>2, <1>3, <1>4

-----------------------------------------------------------------------------
(* The steps. *)

\* No key is held at first.
LEMMA InitPress == PressInit => PressInv
BY PressAssumption DEF PressInit, PressInv, PressType, WatcherInv, Holding, NoPress, Presses

\* A watcher ends the press it was started for, however late it wakes.
LEMMA StepPress == PressInv /\ [PressNext]_pressVars => PressInv'
<1> SUFFICES ASSUME PressInv, [PressNext]_pressVars PROVE PressInv'
  OBVIOUS
<1> USE PressAssumption DEF PressInv
<1>1. CASE FirstFrame
  <2> DEFINE p == [id |-> begun + 1, count |-> 1, gaps |-> <<>>, patience |-> Release]
  <2>1. /\ begun' = begun + 1 /\ begun' \in 1..MaxPresses
        /\ frames' = frames + 1 /\ frames' \in 1..MaxFrames
        /\ silence' = 0
    BY <1>1 DEF FirstFrame, PressType
  <2>2. press' = p /\ p \in Press' /\ Len(p.gaps) <= GapWindow
    BY <1>1, <2>1 DEF FirstFrame, Press, PressIn
  <2>3. /\ watcher' = [watcher EXCEPT ![begun + 1] = "sleep"]
        /\ claimed' = claimed
    BY <1>1 DEF FirstFrame
  <2>4. PressType'
    BY <2>1, <2>2, <2>3 DEF PressType, Presses
  <2>5. WatcherInv'
    BY <2>1, <2>2, <2>3 DEF PressType, WatcherInv, Presses
  <2> QED
    BY <2>4, <2>5
<1>2. CASE NextFrame
  <2> DEFINE q == [press EXCEPT !.gaps = Recent(Append(@, silence)), !.count = @ + 1]
  <2>1. /\ Holding /\ press \in Press /\ Len(press.gaps) <= GapWindow
        /\ frames' = frames + 1 /\ frames' \in 1..MaxFrames /\ silence' = 0
        /\ press' = Patient(q)
        /\ UNCHANGED <<watcher, claimed, begun>>
    BY <1>2, HeldPress DEF NextFrame, PressType
  <2>2. /\ Append(press.gaps, silence) \in Seq(Nat)
        /\ Len(Append(press.gaps, silence)) <= GapWindow + 1
    BY <2>1 DEF Press, PressIn, PressType
  <2>3. /\ Recent(Append(press.gaps, silence)) \in Seq(Nat)
        /\ Len(Recent(Append(press.gaps, silence))) <= GapWindow
    BY <2>2, RecentBound
  <2>4. /\ q \in PressIn(1..begun, 1..frames') /\ q.id = press.id
        /\ q.gaps = Recent(Append(press.gaps, silence))
    <3>1. /\ press.count \in 1..frames /\ frames \in Nat /\ frames' = frames + 1
          /\ press.patience \in Release..MaxRelease
          /\ press.id \in 1..begun
      BY <2>1 DEF Press, PressIn, PressType
    <3>2. press.count + 1 \in 1..frames'
      BY <3>1
    <3>3. q = [id |-> press.id, count |-> press.count + 1,
               gaps |-> Recent(Append(press.gaps, silence)),
               patience |-> press.patience]
      <4> DEFINE g == Recent(Append(press.gaps, silence))
      <4>1. q = [press EXCEPT !.gaps = g, !.count = @ + 1]
        OBVIOUS
      <4> HIDE DEF g, q
      <4>2. q = [id |-> press.id, count |-> press.count + 1, gaps |-> g,
                 patience |-> press.patience]
        BY <2>1, <4>1 DEF Press, PressIn
      <4> QED
        BY <4>2 DEF g
    <3> HIDE DEF q
    <3> QED
      BY <2>3, <3>1, <3>2, <3>3 DEF PressIn
  <2>5. /\ press' \in Press' /\ press'.id = press.id
        /\ Len(press'.gaps) <= GapWindow
    <3>1. 1..frames' \subseteq Nat
      BY <2>1
    <3> HIDE DEF q
    <3>2. /\ Patient(q) \in PressIn(1..begun, 1..frames')
          /\ Patient(q).id = q.id /\ Patient(q).gaps = q.gaps
      BY <2>4, <3>1, PatientBound
    <3> QED
      BY <2>1, <2>3, <2>4, <3>2 DEF Press
  <2>6. PressType'
    BY <2>1, <2>5 DEF PressType
  <2>7. WatcherInv'
    BY <2>1, <2>5 DEF WatcherInv, Holding
  <2> QED
    BY <2>6, <2>7
<1>3. CASE Wait
  BY <1>3 DEF Wait, PressType, WatcherInv, Press, PressIn, Holding
<1>4. CASE Clear
  BY <1>4 DEF Clear, PressType, WatcherInv, Holding
<1>5. ASSUME NEW w \in Presses, Wake(w) PROVE PressInv'
  <2>1. UNCHANGED <<press, silence, claimed, begun, frames>>
    BY <1>5 DEF Wake
  <2>2. /\ watcher[w] = "sleep"
        /\ \/ watcher' = [watcher EXCEPT ![w] = "release"]
           \/ ~Names(w) /\ watcher' = [watcher EXCEPT ![w] = "gone"]
    BY <1>5 DEF Wake
  <2>3. PressType'
    BY <2>1, <2>2 DEF PressType, Press, PressIn
  <2>4. WatcherInv'
    <3>0. watcher \in [Presses -> {"none", "sleep", "release", "gone"}]
      BY DEF PressInv, PressType
    <3>1. \A v \in Presses : v # w => watcher'[v] = watcher[v]
      BY <2>2, <3>0
    <3>2. watcher'[w] = "release" \/ (~Names(w) /\ watcher'[w] = "gone")
      <4>1. CASE watcher' = [watcher EXCEPT ![w] = "release"]
        <5>1. watcher'[w] = "release"
          BY <3>0, <4>1
        <5> QED
          BY <5>1
      <4>2. CASE ~Names(w) /\ watcher' = [watcher EXCEPT ![w] = "gone"]
        <5>1. watcher'[w] = "gone"
          BY <3>0, <4>2
        <5> QED
          BY <4>2, <5>1
      <4> QED
        BY <2>2, <4>1, <4>2
    <3>3. Holding' => press'.id = begun' /\ watcher'[begun'] \in {"sleep", "release"}
      <4>1. begun \in Presses \/ ~Holding
        BY DEF PressInv, PressType, Press, PressIn, Holding, Presses
      <4>2. CASE begun = w
        BY <2>1, <3>2, <4>2 DEF PressInv, WatcherInv, Names, Holding
      <4>3. CASE begun # w
        BY <2>1, <3>1, <4>1, <4>3 DEF PressInv, WatcherInv, Holding
      <4> QED
        BY <4>2, <4>3
    <3>4. ~(w > begun)
      BY <2>2 DEF PressInv, WatcherInv
    <3>5. \A v \in Presses : v > begun' => watcher'[v] = "none"
      BY <2>1, <3>1, <3>4 DEF PressInv, WatcherInv
    <3> QED
      BY <2>1, <3>3, <3>5 DEF PressInv, WatcherInv
  <2> QED
    BY <2>3, <2>4
<1>6. ASSUME NEW w \in Presses, End(w) PROVE PressInv'
  <2>1. /\ watcher[w] = "release" /\ watcher' = [watcher EXCEPT ![w] = "gone"]
        /\ UNCHANGED <<begun, frames>>
    BY <1>6 DEF End
  <2>2. CASE Names(w)
    <3>1. /\ press.id = w /\ claimed' = [claimed EXCEPT ![w] = w]
          /\ press' = NoPress /\ silence' = 0
      BY <1>6, <2>2 DEF End, Names
    <3>2. PressType'
      BY <2>1, <3>1 DEF PressType, Presses
    <3>3. WatcherInv'
      BY <2>1, <3>1 DEF PressType, WatcherInv, Holding, Presses
    <3> QED
      BY <3>2, <3>3
  <2>3. CASE ~Names(w)
    <3>1. UNCHANGED <<claimed, press, silence>>
      BY <1>6, <2>3 DEF End
    <3> QED
      BY <2>1, <2>3, <3>1 DEF PressType, WatcherInv, Names, Holding, Press, PressIn, Presses
  <2> QED
    BY <2>2, <2>3
<1>7. CASE UNCHANGED pressVars
  BY <1>7 DEF pressVars, PressType, WatcherInv, Press, PressIn, Holding
<1> QED
  BY <1>1, <1>2, <1>3, <1>4, <1>5, <1>6, <1>7 DEF PressNext

\* The tracker's state and the watchers' are of their types, the patience within
\* its bounds, whatever the bridge makes of the frames.
THEOREM PressCorrect == PressSpec => []PressTypeOK
<1>1. PressInv => PressTypeOK
  <2> SUFFICES ASSUME PressInv PROVE PressTypeOK
    OBVIOUS
  <2>1. Holding => press \in Press /\ Len(press.gaps) <= GapWindow
    BY HeldPress DEF PressInv
  <2>2. begun \in 0..MaxPresses /\ frames \in 0..MaxFrames /\ silence \in Nat
    BY DEF PressInv, PressType
  <2>3. Holding => /\ press.id \in 1..begun /\ press.count \in 1..frames
                   /\ press.patience \in Release..MaxRelease
    BY <2>1 DEF Press, PressIn
  <2>4. 1..frames \subseteq 1..MaxFrames
    BY <2>2, PressAssumption
  <2>5. \A w \in Presses : watcher[w] \in {"none", "sleep", "release", "gone"}
    BY DEF PressInv, PressType
  <2> QED
    BY <2>1, <2>2, <2>3, <2>4, <2>5 DEF PressTypeOK
<1> QED
  BY <1>1, InitPress, StepPress, PTL DEF PressSpec

\* release_due and end: a watcher ends its own press and no other, and a press
\* that is held has its watcher, however frames, wake-ups, releases and clear
\* interleave and however many presses there are.
THEOREM PressEnded == PressSpec => []EndsOwnPress
<1>1. PressInv => EndsOwnPress
  BY DEF PressInv, WatcherInv, EndsOwnPress
<1> QED
  BY <1>1, InitPress, StepPress, PTL DEF PressSpec

-----------------------------------------------------------------------------
(* FeedbackKey                                                             *)

\* A command, as the queue and the worker hold it.
KeyCmds == [call : KeyCalls, what : {"read", "press", "set on", "set off"}]
Cmd(c, what) == [call |-> c, what |-> what]

\* The commands not served yet, in the order they are.
Pipe == onBus \o queued

KeyType ==
    /\ dimmer \in BOOLEAN /\ excused \in BOOLEAN /\ unset \in BOOLEAN
    /\ out \in {On, Off} /\ led \in {On, Off}
    /\ onBus \in Seq(KeyCmds) /\ Len(onBus) <= 1 /\ queued \in Seq(KeyCmds)
    /\ step \in [KeyCalls -> {"new", "reading", "pressing", "settling",
                              "rereading", "done"}]
    /\ want \in [KeyCalls -> {On, Off, Unread}] /\ asked \in {On, Off, Unread}

\* The calls under way.
UnderWay == {c \in KeyCalls : step[c] \notin {"new", "done"}}

\* What a call under way may still have to be served, and at the end whether the
\* output is as asked or about to be set.
EndOK ==
    /\ \A c, d \in UnderWay : c = d
    /\ \A c \in KeyCalls :
         /\ step[c] = "reading"   => Pipe = <<Cmd(c, "read")>>
         /\ step[c] = "pressing"  => Pipe = <<Cmd(c, "press")>> /\ want[c] = asked
         /\ step[c] = "settling"  => /\ Pipe \in {<<>>, <<Cmd(c, "press")>>}
                                     /\ want[c] = asked
         /\ step[c] = "rereading" =>
               /\ Pipe \in {<<Cmd(c, "read")>>, <<Cmd(c, "press"), Cmd(c, "read")>>}
               /\ want[c] = asked
    /\ UnderWay = {} =>
         \/ asked = Unread
         \/ Pipe = <<>> /\ out = asked
         \/ Pipe # <<>> /\ Pipe[Len(Pipe)].what = SetTo(asked)
EndInv == ~unset => EndOK

\* The same for the LED: what is still to be served leaves it as the output.
LedOK ==
    /\ led = out
    /\ \A c, d \in UnderWay : c = d
    /\ \A c \in KeyCalls :
         /\ step[c] = "reading"   => /\ Pipe = <<Cmd(c, "read")>>
                                     /\ dimmer => want[c] # Unread
         /\ step[c] = "pressing"  => Pipe = <<Cmd(c, "press")>> /\ want[c] = 1 - out
         /\ step[c] = "settling"  => Pipe = <<>> /\ want[c] = out
         /\ step[c] = "rereading" => Pipe = <<Cmd(c, "read")>> /\ want[c] = out
    /\ UnderWay = {} =>
         \/ Pipe = <<>>
         \/ \E c \in KeyCalls : Pipe = <<Cmd(c, SetTo(out))>>
         \/ \E c \in KeyCalls : Pipe = <<Cmd(c, "press"), Cmd(c, SetTo(1 - out))>>
LedInv == ~excused => LedOK

-----------------------------------------------------------------------------
(* The commands of a call.                                                 *)

\* A sequence of one.
LEMMA OnlyElement ==
    ASSUME NEW S, NEW s \in Seq(S), Len(s) <= 1, s # <<>>
    PROVE  Len(s) = 1 /\ s[1] \in S /\ s = <<s[1]>>
<1>1. Len(s) = 1 /\ s[1] \in S
  OBVIOUS
<1>2. <<s[1]>> \in Seq(S) /\ Len(<<s[1]>>) = 1 /\ \A i \in 1..1 : s[i] = <<s[1]>>[i]
  BY <1>1
<1> QED
  BY <1>1, <1>2, SeqEqual

\* The command being served is the first; those in the queue are the rest.
LEMMA Serving ==
    ASSUME KeyType, onBus # <<>>
    PROVE  /\ onBus[1] \in KeyCmds /\ Pipe = <<onBus[1]>> \o queued
           /\ Pipe # <<>> /\ Pipe[1] = onBus[1] /\ queued = Tail(Pipe)
<1>1. onBus = <<onBus[1]>> /\ onBus[1] \in KeyCmds
  BY OnlyElement DEF KeyType
<1>2. queued \in Seq(KeyCmds)
  BY DEF KeyType
<1> DEFINE m == onBus[1]
<1> HIDE DEF m
<1>3. m \in KeyCmds /\ Pipe = <<m>> \o queued
  BY <1>1 DEF m, Pipe
<1>4. /\ <<m>> \o queued # <<>> /\ (<<m>> \o queued)[1] = m
      /\ Tail(<<m>> \o queued) = queued
  BY <1>2, <1>3
<1> QED
  BY <1>3, <1>4 DEF m

\* Taking a command changes nothing of what is still to be served.
LEMMA Taking ==
    ASSUME KeyType, Take
    PROVE  Pipe' = Pipe /\ onBus' \in Seq(KeyCmds) /\ Len(onBus') <= 1
           /\ queued' \in Seq(KeyCmds)
<1>1. queued \in Seq(KeyCmds) /\ queued # <<>>
  BY DEF KeyType, Take
<1>2. <<Head(queued)>> \o Tail(queued) = queued /\ <<>> \o queued = queued
  BY <1>1
<1>3. Head(queued) \in KeyCmds /\ Tail(queued) \in Seq(KeyCmds)
  BY <1>1
<1> QED
  BY <1>2, <1>3 DEF Take, Pipe

\* What a call asks for goes behind what there is.
LEMMA Adding ==
    ASSUME KeyType, NEW m \in KeyCmds
    PROVE  /\ onBus \o Append(queued, m) = Append(Pipe, m)
           /\ Append(queued, m) \in Seq(KeyCmds)
<1>1. onBus \in Seq(KeyCmds) /\ queued \in Seq(KeyCmds)
  BY DEF KeyType
<1> QED
  BY <1>1 DEF Pipe

\* The commands waited for are commands, and none of a call that is done.
LEMMA PipeType ==
    ASSUME KeyType
    PROVE  /\ Pipe \in Seq(KeyCmds)
           /\ AtRest => Pipe = <<>> /\ UnderWay = {}
           /\ UnderWay = {} /\ Pipe = <<>> => AtRest
<1>1. onBus \in Seq(KeyCmds) /\ queued \in Seq(KeyCmds)
  BY DEF KeyType
<1>2. Pipe = <<>> <=> onBus = <<>> /\ queued = <<>>
  BY <1>1 DEF Pipe
<1>3. Pipe \in Seq(KeyCmds)
  BY <1>1 DEF Pipe
<1> QED
  BY <1>2, <1>3 DEF AtRest, UnderWay

\* The commands are commands.
LEMMA CmdType ==
    ASSUME NEW c \in KeyCalls
    PROVE  /\ Cmd(c, "read") \in KeyCmds /\ Cmd(c, "press") \in KeyCmds
           /\ \A v : Cmd(c, SetTo(v)) \in KeyCmds /\ Cmd(c, SetTo(v)).what = SetTo(v)
           /\ Cmd(c, "press").what = "press" /\ Cmd(c, "read").what = "read"
BY DEF Cmd, KeyCmds, SetTo

\* What becomes of a call that hears of its read, or gives it up.
LEMMA AnsweredCases ==
    ASSUME KeyType, NEW c \in KeyCalls, NEW value \in {On, Off, Unread},
           step[c] \in {"reading", "rereading"}, Answered(c, value)
    PROVE  \/ /\ step[c] = "reading" /\ ~dimmer /\ value # Unread
              /\ asked' \in {On, Off} /\ asked' # value
              /\ queued' = Append(queued, Cmd(c, "press"))
              /\ step' = [step EXCEPT ![c] = "pressing"]
              /\ want' = [want EXCEPT ![c] = asked']
           \/ /\ step[c] = "reading" /\ ~dimmer /\ value # Unread
              /\ asked' = value /\ queued' = queued
              /\ step' = [step EXCEPT ![c] = "done"]
              /\ want' = [want EXCEPT ![c] = asked']
           \/ /\ step[c] = "reading" /\ dimmer
              /\ asked' = want[c]
              /\ \/ /\ queued' = Append(queued, Cmd(c, SetTo(asked')))
                    /\ value # Unread => value = asked'
                 \/ /\ queued' = Append(Append(queued, Cmd(c, "press")), Cmd(c, SetTo(asked')))
                    /\ value # Unread => value # asked'
              /\ step' = [step EXCEPT ![c] = "done"] /\ want' = want
           \/ /\ step[c] = "reading" /\ ~dimmer /\ value = Unread
              /\ asked' = want[c]
              /\ \/ asked' = Unread /\ queued' = Append(queued, Cmd(c, "press"))
                 \/ queued' = Append(queued, Cmd(c, SetTo(asked')))
              /\ step' = [step EXCEPT ![c] = "done"] /\ want' = want
           \/ /\ step[c] = "rereading" /\ asked' = asked
              /\ \/ value = want[c] /\ queued' = queued
                 \/ value # want[c] /\ queued' = Append(queued, Cmd(c, SetTo(want[c])))
              /\ step' = [step EXCEPT ![c] = "done"] /\ want' = want
<1> USE DEF Off, On, Unread
<1>0. want[c] \in {On, Off, Unread} /\ queued \in Seq(KeyCmds)
  BY DEF KeyType
<1>1. CASE step[c] = "rereading"
  <2>1. FollowUp(c, value) /\ step' = [step EXCEPT ![c] = "done"] /\ UNCHANGED <<want, asked>>
    BY <1>1 DEF Answered
  <2> QED
    BY <1>1, <2>1 DEF FollowUp, Queue, Cmd
<1>2. CASE step[c] = "reading" /\ dimmer
  <2>1. PICK current \in {On, Off} :
          DimByKey(c, want[c], current) /\ (value # Unread => value = current)
    <3>1. CASE value # Unread
      <4>1. WithState(c, value)
        BY <1>2, <3>1 DEF Answered
      <4>2. DimByKey(c, want[c], value)
        BY <1>2, <4>1 DEF WithState
      <4> QED
        BY <3>1, <4>2
    <3>2. CASE value = Unread
      BY <1>2, <3>2 DEF Answered, WithoutState
    <3> QED
      BY <3>1, <3>2
  <2>2. /\ step' = [step EXCEPT ![c] = "done"] /\ want' = want /\ asked' = want[c]
        /\ queued' = (IF want[c] # current THEN Append(queued, Cmd(c, "press")) ELSE queued)
                     \o <<Cmd(c, SetTo(want[c]))>>
    BY <2>1 DEF DimByKey, PressNeeded, Queue, Cmd
  <2>3. Cmd(c, "press") \in KeyCmds /\ Cmd(c, SetTo(want[c])) \in KeyCmds
    BY CmdType
  <2>4. CASE want[c] # current
    <3>1. queued' = Append(queued, Cmd(c, "press")) \o <<Cmd(c, SetTo(want[c]))>>
      BY <2>2, <2>4
    <3>2. Append(queued, Cmd(c, "press")) \in Seq(KeyCmds)
      BY <1>0, <2>3
    <3>3. queued' = Append(Append(queued, Cmd(c, "press")), Cmd(c, SetTo(want[c])))
      BY <2>3, <3>1, <3>2, AppendIsConcat
    <3> QED
      BY <1>2, <2>1, <2>2, <2>4, <3>3
  <2>5. CASE want[c] = current
    <3>1. queued' = Append(queued, Cmd(c, SetTo(want[c])))
      BY <1>0, <2>2, <2>3, <2>5, AppendIsConcat
    <3> QED
      BY <1>2, <2>1, <2>2, <2>5, <3>1
  <2> QED
    BY <2>4, <2>5
<1>3. CASE step[c] = "reading" /\ ~dimmer /\ value # Unread
  <2> DEFINE wanted == IF want[c] = Unread THEN 1 - value ELSE want[c]
  <2>1. SwitchByKey(c, wanted, value)
    <3>1. WithState(c, value)
      BY <1>3 DEF Answered
    <3> QED
      BY <1>3, <3>1 DEF WithState
  <2>2. wanted \in {On, Off}
    BY <1>0, <1>3
  <2>3. asked' = wanted /\ want' = [want EXCEPT ![c] = wanted]
    BY <2>1 DEF SwitchByKey
  <2> HIDE DEF wanted
  <2> QED
    BY <1>3, <2>1, <2>2, <2>3 DEF SwitchByKey, PressNeeded, Queue, Cmd
<1>4. CASE step[c] = "reading" /\ ~dimmer /\ value = Unread
  <2>1. WithoutState(c)
    BY <1>4 DEF Answered
  <2> QED
    BY <1>4, <2>1 DEF WithoutState, Queue, Cmd
<1> QED
  BY <1>1, <1>2, <1>3, <1>4

-----------------------------------------------------------------------------
(* Initially. *)

\* Nothing is asked and nothing waits at first.
LEMMA InitKey == KeyInit => KeyType /\ EndInv /\ LedInv
<1> SUFFICES ASSUME KeyInit PROVE KeyType /\ EndInv /\ LedInv
  OBVIOUS
<1>1. KeyType
  <2>1. dimmer \in BOOLEAN
    BY KeyAssumption DEF KeyInit
  <2>2. /\ onBus \in Seq(KeyCmds) /\ Len(onBus) <= 1 /\ queued \in Seq(KeyCmds)
        /\ out \in {On, Off} /\ led \in {On, Off} /\ asked \in {On, Off, Unread}
    BY DEF KeyInit
  <2>3. excused \in BOOLEAN /\ unset \in BOOLEAN
    BY DEF KeyInit
  <2>4. /\ step \in [KeyCalls -> {"new", "reading", "pressing", "settling", "rereading", "done"}]
        /\ want \in [KeyCalls -> {On, Off, Unread}]
    BY DEF KeyInit
  <2> QED
    BY <2>1, <2>2, <2>3, <2>4 DEF KeyType
<1>2. UnderWay = {} /\ Pipe = <<>>
  BY DEF KeyInit, UnderWay, Pipe
<1>3. \A c \in KeyCalls : step[c] = "new"
  BY DEF KeyInit
<1> QED
  BY <1>1, <1>2, <1>3 DEF KeyInit, EndInv, LedInv, EndOK, LedOK

-----------------------------------------------------------------------------
(* The steps. *)

\* Every step keeps the types.
LEMMA StepKeyType == KeyType /\ [KeyNext]_keyVars => KeyType'
<1> SUFFICES ASSUME KeyType, [KeyNext]_keyVars PROVE KeyType'
  OBVIOUS
<1> USE DEF On, Off, Unread
<1>1. ASSUME NEW c \in KeyCalls, NEW op \in KeyOps, BeginCall(c, op) PROVE KeyType'
  <2>1. queued' \in Seq(KeyCmds)
    BY <1>1, Adding, CmdType DEF BeginCall, Queue, Cmd
  <2>2. step' \in [KeyCalls -> {"new", "reading", "pressing", "settling", "rereading", "done"}]
    BY <1>1 DEF BeginCall, KeyType
  <2>3. want' \in [KeyCalls -> {On, Off, Unread}]
    BY <1>1 DEF BeginCall, KeyType
  <2>4. excused' \in BOOLEAN /\ unset' \in BOOLEAN
    BY <1>1 DEF BeginCall, KeyType
  <2> QED
    BY <1>1, <2>1, <2>2, <2>3, <2>4 DEF BeginCall, KeyType
<1>2. ASSUME NEW c \in KeyCalls, NEW value \in {On, Off, Unread},
             step[c] \in {"reading", "rereading"}, Answered(c, value),
             UNCHANGED <<dimmer, out, led, unset>>, excused' \in BOOLEAN,
             onBus' \in Seq(KeyCmds), Len(onBus') <= 1
      PROVE  KeyType'
  <2>0. queued \in Seq(KeyCmds) /\ want[c] \in {On, Off, Unread}
    BY DEF KeyType
  <2>1. Cmd(c, "press") \in KeyCmds /\ \A v : Cmd(c, SetTo(v)) \in KeyCmds
    BY CmdType
  <2>2. \A q \in Seq(KeyCmds), m \in KeyCmds : Append(q, m) \in Seq(KeyCmds)
    OBVIOUS
  <2>3. queued' \in Seq(KeyCmds)
    <3>1. \/ queued' = queued
          \/ queued' = Append(queued, Cmd(c, "press"))
          \/ \E v : queued' = Append(queued, Cmd(c, SetTo(v)))
          \/ \E v : queued' = Append(Append(queued, Cmd(c, "press")), Cmd(c, SetTo(v)))
      BY <1>2, AnsweredCases
    <3> QED
      BY <2>0, <2>1, <2>2, <3>1
  <2>4. /\ asked' \in {On, Off, Unread} /\ (want' = want \/ want' = [want EXCEPT ![c] = asked'])
        /\ \/ step' = [step EXCEPT ![c] = "done"] \/ step' = [step EXCEPT ![c] = "pressing"]
    BY <1>2, <2>0, AnsweredCases DEF KeyType
  <2>5. want' \in [KeyCalls -> {On, Off, Unread}]
    BY <2>4 DEF KeyType
  <2>6. step' \in [KeyCalls -> {"new", "reading", "pressing", "settling", "rereading", "done"}]
    BY <2>4 DEF KeyType
  <2> QED
    BY <1>2, <2>3, <2>4, <2>5, <2>6 DEF KeyType
<1>3. ASSUME NEW c \in KeyCalls, ReadGivenUp(c) PROVE KeyType'
  BY <1>2, <1>3 DEF ReadGivenUp, Missed, KeyType
<1>4. ASSUME NEW c \in KeyCalls, PressGivenUp(c) PROVE KeyType'
  BY <1>4 DEF PressGivenUp, Missed, KeyType
<1>5. ASSUME NEW c \in KeyCalls, ReadAgain(c) PROVE KeyType'
  <2>1. queued' \in Seq(KeyCmds)
    BY <1>5, Adding, CmdType DEF ReadAgain, Queue, Cmd
  <2> QED
    BY <1>5, <2>1 DEF ReadAgain, KeyType
<1>6. CASE Take
  BY <1>6, Taking DEF Take, KeyType
<1>7. CASE ReadServed
  <2>1. onBus[1].call \in KeyCalls
    BY <1>7, Serving DEF ReadServed, KeyCmds
  <2>2. CASE step[onBus[1].call] \in {"reading", "rereading"}
    <3>1. PICK value \in {On, Off, Unread} :
            Answered(onBus[1].call, value) /\ (Kept \/ Missed)
      BY <1>7, <2>2 DEF ReadServed, KeyType
    <3>2. excused' \in BOOLEAN
      BY <3>1 DEF Missed, Kept, KeyType
    <3>3. UNCHANGED <<dimmer, out, led, unset>> /\ onBus' = <<>>
      BY <1>7 DEF ReadServed
    <3>4. onBus' \in Seq(KeyCmds) /\ Len(onBus') <= 1
      BY <3>3
    <3> QED
      BY <1>2, <2>1, <2>2, <3>1, <3>2, <3>3, <3>4
  <2>3. CASE step[onBus[1].call] \notin {"reading", "rereading"}
    BY <1>7, <2>3 DEF ReadServed, KeyType
  <2> QED
    BY <2>2, <2>3
<1>8. CASE PressServed
  <2>1. out' \in {On, Off} /\ led' \in {On, Off}
    BY <1>8 DEF PressServed, KeyType
  <2>3. excused' \in BOOLEAN
    BY <1>8 DEF PressServed, Missed, Kept, KeyType
  <2>2. step' \in [KeyCalls -> {"new", "reading", "pressing", "settling", "rereading", "done"}]
    BY <1>8 DEF PressServed, KeyType
  <2> QED
    BY <1>8, <2>1, <2>2, <2>3 DEF PressServed, KeyType
<1>9. CASE SetServed
  <2>1. out' \in {On, Off}
    BY <1>9 DEF SetServed, KeyType
  <2>2. excused' \in BOOLEAN /\ unset' \in BOOLEAN
    BY <1>9 DEF SetServed, Missed, Kept, KeyType
  <2> QED
    <3>1. onBus' = <<>> /\ UNCHANGED <<dimmer, led, queued, step, want, asked>>
      BY <1>9 DEF SetServed
    <3>2. onBus' \in Seq(KeyCmds) /\ Len(onBus') <= 1
      BY <3>1
    <3> QED
      BY <2>1, <2>2, <3>1, <3>2 DEF KeyType
<1>10. CASE WallPress
  <2>1. out' \in {On, Off} /\ led' \in {On, Off}
    BY <1>10 DEF WallPress, KeyType
  <2>2. excused' \in BOOLEAN /\ unset' \in BOOLEAN
    BY <1>10 DEF WallPress, KeyType
  <2> QED
    BY <1>10, <2>1, <2>2 DEF WallPress, KeyType
<1>11. CASE UNCHANGED keyVars
  BY <1>11 DEF keyVars, KeyType
<1> QED
  BY <1>1, <1>3, <1>4, <1>5, <1>6, <1>7, <1>8, <1>9, <1>10, <1>11 DEF KeyNext
-----------------------------------------------------------------------------
\* The last of a sequence that loses its first or gains one.
LEMMA Last ==
    ASSUME NEW S, NEW s \in Seq(S)
    PROVE  /\ s # <<>> => /\ Len(s) \in Nat \ {0} /\ Tail(s) \in Seq(S)
                          /\ Tail(s) = <<>> => s[Len(s)] = s[1]
                          /\ Tail(s) # <<>> => Tail(s)[Len(Tail(s))] = s[Len(s)]
           /\ \A m \in S : Append(s, m) # <<>> /\ Append(s, m)[Len(Append(s, m))] = m
<1>1. ASSUME s # <<>>
      PROVE  /\ Len(s) \in Nat \ {0} /\ Tail(s) \in Seq(S) /\ Len(Tail(s)) = Len(s) - 1
             /\ Tail(s) = <<>> <=> Len(Tail(s)) = 0
             /\ \A i \in 1..(Len(s) - 1) : Tail(s)[i] = s[i + 1]
  <2>1. /\ Len(s) \in Nat \ {0} /\ Tail(s) \in Seq(S) /\ Len(Tail(s)) = Len(s) - 1
        /\ \A i \in 1..(Len(s) - 1) : Tail(s)[i] = s[i + 1]
    BY <1>1
  <2>2. Tail(s) = <<>> <=> Len(Tail(s)) = 0
    BY <2>1, EmptySeq
  <2> QED
    BY <2>1, <2>2
<1>2. \A m \in S : Append(s, m) # <<>> /\ Append(s, m)[Len(Append(s, m))] = m
  OBVIOUS
<1> QED
  BY <1>1, <1>2

\* Sequences of two.
LEMMA Short ==
    ASSUME NEW S, NEW p \in S, NEW r \in S
    PROVE  /\ Append(<<>>, r) = <<r>> /\ Append(<<p>>, r) = <<p, r>>
           /\ Tail(<<p>>) = <<>> /\ Tail(<<p, r>>) = <<r>>
<1>1. Append(<<>>, r) = <<r>> /\ Tail(<<p>>) = <<>>
  OBVIOUS
<1>2. /\ Append(<<p>>, r) \in Seq(S) /\ Len(Append(<<p>>, r)) = 2
      /\ <<p, r>> \in Seq(S) /\ Len(<<p, r>>) = 2
      /\ \A i \in 1..2 : Append(<<p>>, r)[i] = <<p, r>>[i]
  OBVIOUS
<1>3. /\ Tail(<<p, r>>) \in Seq(S) /\ Len(Tail(<<p, r>>)) = 1
      /\ <<r>> \in Seq(S) /\ Len(<<r>>) = 1
      /\ \A i \in 1..1 : Tail(<<p, r>>)[i] = <<r>>[i]
  OBVIOUS
<1>4. Append(<<p>>, r) = <<p, r>>
  BY <1>2, SeqEqual
<1>5. Tail(<<p, r>>) = <<r>>
  BY <1>3, SeqEqual
<1> QED
  BY <1>1, <1>4, <1>5

\* A call that alone is under way moves on.
LEMMA Alone ==
    ASSUME KeyType, NEW c \in KeyCalls, UnderWay \subseteq {c},
           NEW at \in {"reading", "pressing", "settling", "rereading", "done"},
           step' = [step EXCEPT ![c] = at]
    PROVE  /\ step'[c] = at /\ UnderWay' \subseteq {c}
           /\ \A d \in KeyCalls : d # c => step'[d] \in {"new", "done"}
           /\ at # "done" => UnderWay' # {}
           /\ at = "done" => UnderWay' = {}
<1>1. step \in [KeyCalls -> {"new", "reading", "pressing", "settling", "rereading", "done"}]
  BY DEF KeyType
<1>2. \A d \in KeyCalls : step'[d] = IF d = c THEN at ELSE step[d]
  BY <1>1
<1>3. \A d \in KeyCalls : d # c => step[d] \in {"new", "done"}
  BY DEF UnderWay
<1> QED
  BY <1>2, <1>3 DEF UnderWay

\* What is under way while the first command to be served is a certain one.
LEMMA FirstServed ==
    ASSUME KeyType, EndOK, Pipe # <<>>
    PROVE  /\ Pipe[1].what = "read" /\ step[Pipe[1].call] \notin {"reading", "rereading"}
              => UnderWay = {}
           /\ Pipe[1].what \in {"set on", "set off"} => UnderWay = {}
<1>1. \A d \in KeyCalls :
        /\ Cmd(d, "read").what = "read" /\ Cmd(d, "read").call = d
        /\ Cmd(d, "press").what = "press" /\ Cmd(d, "press").call = d
  BY DEF Cmd
<1>2. ASSUME NEW d \in UnderWay
      PROVE  /\ Pipe[1].what \in {"read", "press"}
             /\ Pipe[1].what = "read" => Pipe[1].call = d /\ step[d] \in {"reading", "rereading"}
  <2>1. d \in KeyCalls /\ step[d] \in {"reading", "pressing", "settling", "rereading"}
    BY DEF UnderWay, KeyType
  <2>2. \/ Pipe = <<Cmd(d, "read")>> /\ step[d] \in {"reading", "rereading"}
        \/ Pipe = <<Cmd(d, "press")>>
        \/ Pipe = <<Cmd(d, "press"), Cmd(d, "read")>>
    BY <2>1 DEF EndOK
  <2>3. \/ Pipe[1] = Cmd(d, "read") /\ step[d] \in {"reading", "rereading"}
        \/ Pipe[1] = Cmd(d, "press")
    BY <2>2
  <2> QED
    BY <1>1, <2>1, <2>3
<1> QED
  BY <1>2

\* Every step keeps what the calls lead to, one answer at a time.
LEMMA StepEnd == KeyType /\ EndInv /\ [KeyNext]_keyVars => EndInv'
<1> SUFFICES ASSUME KeyType, EndInv, [KeyNext]_keyVars, ~unset' PROVE EndOK'
  BY DEF EndInv
<1> USE DEF On, Off, Unread
<1>0. /\ Pipe \in Seq(KeyCmds) /\ queued \in Seq(KeyCmds)
      /\ out \in {On, Off} /\ asked \in {On, Off, Unread}
      /\ \A c \in KeyCalls : want[c] \in {On, Off, Unread}
      /\ want \in [KeyCalls -> {On, Off, Unread}]
  BY PipeType DEF KeyType
<1>1. \A c \in KeyCalls :
        /\ Cmd(c, "read") \in KeyCmds /\ Cmd(c, "press") \in KeyCmds
        /\ \A v : Cmd(c, SetTo(v)) \in KeyCmds /\ Cmd(c, SetTo(v)).what = SetTo(v)
  BY CmdType
\* The only call under way ends.
<1>2. ASSUME NEW c \in KeyCalls, UnderWay \subseteq {c}, step' = [step EXCEPT ![c] = "done"],
             \/ asked' = Unread
             \/ Pipe' = <<>> /\ out' = asked'
             \/ Pipe' # <<>> /\ Pipe'[Len(Pipe')].what = SetTo(asked')
      PROVE  EndOK'
  <2>1. UnderWay' = {} /\ \A d \in KeyCalls : step'[d] \in {"new", "done"}
    BY <1>2, Alone
  <2> QED
    BY <1>2, <2>1 DEF EndOK
\* It goes on.
<1>3. ASSUME NEW c \in KeyCalls, UnderWay \subseteq {c},
             NEW at \in {"reading", "pressing", "settling", "rereading"},
             step' = [step EXCEPT ![c] = at],
             \/ at = "reading" /\ Pipe' = <<Cmd(c, "read")>>
             \/ at = "pressing" /\ Pipe' = <<Cmd(c, "press")>> /\ want'[c] = asked'
             \/ at = "settling" /\ Pipe' \in {<<>>, <<Cmd(c, "press")>>} /\ want'[c] = asked'
             \/ /\ at = "rereading" /\ want'[c] = asked'
                /\ Pipe' \in {<<Cmd(c, "read")>>, <<Cmd(c, "press"), Cmd(c, "read")>>}
      PROVE  EndOK'
  <2>1. /\ step'[c] = at /\ UnderWay' \subseteq {c} /\ UnderWay' # {}
        /\ \A d \in KeyCalls : d # c => step'[d] \in {"new", "done"}
    BY <1>3, Alone
  <2> QED
    BY <1>3, <2>1 DEF EndOK
<1>4. ASSUME NEW c \in KeyCalls, NEW op \in KeyOps, BeginCall(c, op) PROVE EndOK'
  <2>1. /\ AtRest /\ onBus' = onBus /\ queued' = Append(queued, Cmd(c, "read"))
        /\ step' = [step EXCEPT ![c] = "reading"]
    BY <1>4 DEF BeginCall, Queue, Cmd
  <2>2. UnderWay = {} /\ Pipe = <<>>
    BY <2>1, PipeType
  <2>3. Pipe' = Append(Pipe, Cmd(c, "read"))
    BY <1>1, <2>1, Adding DEF Pipe
  <2>4. Pipe' = <<Cmd(c, "read")>>
    BY <2>2, <2>3
  <2> QED
    BY <1>3, <2>1, <2>2, <2>4
\* A call whose read is answered, or that gives it up.
<1>5. ASSUME EndOK, NEW c \in KeyCalls, NEW value \in {On, Off, Unread},
             step[c] \in {"reading", "rereading"}, Answered(c, value), out' = out,
             \/ onBus' = onBus /\ value = Unread
             \/ queued = <<>> /\ onBus' = <<>> /\ value \in {out, Unread}
      PROVE  EndOK'
  <2>1. UnderWay \subseteq {c}
    BY <1>5 DEF EndOK, UnderWay
  <2>2. step[c] = "rereading" => want[c] = asked
    BY <1>5 DEF EndOK
  \* Whatever goes behind is the last of all.
  <2>3. ASSUME NEW q \in Seq(KeyCmds), NEW m \in KeyCmds, queued' = Append(q, m)
        PROVE  Pipe' # <<>> /\ Pipe'[Len(Pipe')] = m
    <3>1. onBus' \in Seq(KeyCmds)
      BY <1>5 DEF KeyType
    <3>2. onBus' \o Append(q, m) = Append(onBus' \o q, m) /\ onBus' \o q \in Seq(KeyCmds)
      BY <2>3, <3>1
    <3> QED
      BY <2>3, <3>2, Last DEF Pipe
  <2>4. Append(queued, Cmd(c, "press")) \in Seq(KeyCmds)
    BY <1>0, <1>1
  <2>5. value # Unread => queued = <<>> /\ onBus' = <<>> /\ value = out
    BY <1>5
  <2>6. CASE /\ step' = [step EXCEPT ![c] = "pressing"] /\ queued' = Append(queued, Cmd(c, "press"))
             /\ value # Unread /\ want' = [want EXCEPT ![c] = asked']
    <3>1. Pipe' = <<Cmd(c, "press")>>
      BY <2>5, <2>6 DEF Pipe
    <3>2. want'[c] = asked'
      BY <1>0, <2>6
    <3> QED
      BY <1>3, <2>1, <2>6, <3>1, <3>2
  <2>7. CASE /\ step' = [step EXCEPT ![c] = "done"] /\ queued' = queued
             /\ asked' = value
    <3>1. asked' # Unread => Pipe' = <<>> /\ out' = asked'
      BY <1>5, <2>5, <2>7 DEF Pipe
    <3> QED
      BY <1>2, <2>1, <2>7, <3>1
  <2>8. CASE /\ step' = [step EXCEPT ![c] = "done"]
             /\ \E q \in Seq(KeyCmds) : queued' = Append(q, Cmd(c, SetTo(asked')))
    <3> PICK q \in Seq(KeyCmds) : queued' = Append(q, Cmd(c, SetTo(asked')))
      BY <2>8
    <3>1. Cmd(c, SetTo(asked')) \in KeyCmds /\ Cmd(c, SetTo(asked')).what = SetTo(asked')
      BY <1>1
    <3>2. Pipe' # <<>> /\ Pipe'[Len(Pipe')] = Cmd(c, SetTo(asked'))
      BY <2>3, <3>1
    <3> QED
      BY <1>2, <2>1, <2>8, <3>1, <3>2
  <2>9. CASE step' = [step EXCEPT ![c] = "done"] /\ asked' = Unread
    BY <1>2, <2>1, <2>9
  <2> QED
    <3> DEFINE Pressed == /\ ~dimmer /\ value # Unread /\ queued' = Append(queued, Cmd(c, "press"))
                          /\ step' = [step EXCEPT ![c] = "pressing"]
                          /\ want' = [want EXCEPT ![c] = asked']
               AsRead == asked' = value /\ queued' = queued /\ step' = [step EXCEPT ![c] = "done"]
               Driven == /\ step' = [step EXCEPT ![c] = "done"]
                         /\ \/ queued' = Append(queued, Cmd(c, SetTo(asked')))
                            \/ queued' = Append(Append(queued, Cmd(c, "press")), Cmd(c, SetTo(asked')))
               Unknown == step' = [step EXCEPT ![c] = "done"] /\ asked' = Unread
    <3>1. queued \in Seq(KeyCmds)
      BY <1>0
    <3>2. CASE Pressed
      BY <2>6, <3>2
    <3>3. CASE AsRead
      BY <2>7, <3>3
    <3>4. CASE Driven
      BY <2>4, <2>8, <3>1, <3>4
    <3>5. CASE Unknown
      BY <2>9, <3>5
    <3>6. Pressed \/ AsRead \/ Driven \/ Unknown
      BY <1>0, <1>5, <2>2, AnsweredCases
    <3> QED
      BY <3>2, <3>3, <3>4, <3>5, <3>6
<1>6. ASSUME NEW c \in KeyCalls, ReadGivenUp(c) PROVE EndOK'
  <2>1. EndOK
    BY <1>6 DEF ReadGivenUp, EndInv
  <2> QED
    BY <1>5, <1>6, <2>1 DEF ReadGivenUp
<1>7. ASSUME NEW c \in KeyCalls, PressGivenUp(c) PROVE EndOK'
  <2>1. EndOK /\ step[c] = "pressing" /\ step' = [step EXCEPT ![c] = "settling"]
        /\ UNCHANGED <<onBus, queued, want, asked>>
    BY <1>7 DEF PressGivenUp, EndInv
  <2>2. UnderWay \subseteq {c} /\ Pipe = <<Cmd(c, "press")>> /\ want[c] = asked /\ Pipe' = Pipe
    BY <2>1 DEF EndOK, UnderWay, Pipe
  <2> QED
    BY <1>3, <2>1, <2>2
<1>8. ASSUME NEW c \in KeyCalls, ReadAgain(c) PROVE EndOK'
  <2>1. EndOK /\ step[c] = "settling" /\ step' = [step EXCEPT ![c] = "rereading"]
        /\ onBus' = onBus /\ queued' = Append(queued, Cmd(c, "read")) /\ UNCHANGED <<want, asked>>
    BY <1>8 DEF ReadAgain, EndInv, Queue, Cmd
  <2>2. UnderWay \subseteq {c} /\ Pipe \in {<<>>, <<Cmd(c, "press")>>} /\ want[c] = asked
    BY <2>1 DEF EndOK, UnderWay
  <2>3. Pipe' = Append(Pipe, Cmd(c, "read"))
    BY <1>1, <2>1, Adding DEF Pipe
  <2>4. Pipe' \in {<<Cmd(c, "read")>>, <<Cmd(c, "press"), Cmd(c, "read")>>}
    <3>1. /\ Append(<<>>, Cmd(c, "read")) = <<Cmd(c, "read")>>
          /\ Append(<<Cmd(c, "press")>>, Cmd(c, "read")) = <<Cmd(c, "press"), Cmd(c, "read")>>
      BY <1>1, Short
    <3> QED
      BY <2>2, <2>3, <3>1
  <2> QED
    BY <1>3, <2>1, <2>2, <2>4
\* Nothing changes but that the first command is served, while no call is under way.
<1>9. ASSUME EndOK, onBus # <<>>, onBus' = <<>>, UnderWay = {}, UNCHANGED <<queued, step, asked>>,
             Pipe'  = <<>> => asked = Unread \/ Pipe[1].what # SetTo(asked) \/ out' = asked
      PROVE  EndOK'
  <2>1. Pipe # <<>> /\ queued = Tail(Pipe) /\ Pipe' = Tail(Pipe)
    <3>1. queued' = queued /\ <<>> \o queued = queued
      BY <1>0, <1>9
    <3> QED
      BY <1>9, <3>1, Serving DEF Pipe
  <2>2. UnderWay' = {} /\ \A d \in KeyCalls : step'[d] \in {"new", "done"}
    BY <1>9 DEF UnderWay
  <2>3. asked = Unread \/ Pipe[Len(Pipe)].what = SetTo(asked)
    BY <1>9, <2>1 DEF EndOK
  <2>4. CASE Pipe' = <<>>
    <3>1. Pipe[Len(Pipe)] = Pipe[1]
      BY <1>0, <2>1, <2>4, Last
    <3> QED
      BY <1>9, <2>2, <2>3, <2>4, <3>1 DEF EndOK
  <2>5. CASE Pipe' # <<>>
    <3>1. Pipe'[Len(Pipe')] = Pipe[Len(Pipe)]
      BY <1>0, <2>1, <2>5, Last
    <3> QED
      BY <1>9, <2>2, <2>3, <2>5, <3>1 DEF EndOK
  <2> QED
    BY <2>4, <2>5
<1>10. CASE Take
  <2>1. EndOK /\ Pipe' = Pipe /\ UNCHANGED <<step, want, asked, out>>
    BY <1>10, Taking DEF Take, EndInv
  <2> QED
    BY <2>1 DEF EndOK, UnderWay
<1>11. CASE ReadServed
  <2> DEFINE c == onBus[1].call
  <2>1. /\ EndOK /\ onBus # <<>> /\ onBus' = <<>> /\ out' = out /\ onBus[1].what = "read"
    BY <1>11 DEF ReadServed, EndInv
  <2>2. /\ onBus[1] \in KeyCmds /\ c \in KeyCalls
        /\ Pipe # <<>> /\ Pipe[1] = onBus[1] /\ queued = Tail(Pipe)
    BY <2>1, Serving DEF KeyCmds
  <2> HIDE DEF c
  <2>3. CASE step[c] \in {"reading", "rereading"}
    <3>1. PICK value \in {out, Unread} : Answered(c, value)
      BY <1>11, <2>3 DEF ReadServed, c
    <3>2. Cmd(c, "press").what = "press"
      BY DEF Cmd
    <3>3. Pipe = <<Cmd(c, "read")>>
      <4>1. Pipe \in {<<Cmd(c, "read")>>, <<Cmd(c, "press"), Cmd(c, "read")>>}
        BY <2>1, <2>2, <2>3 DEF EndOK
      <4>2. Pipe # <<Cmd(c, "press"), Cmd(c, "read")>>
        BY <2>1, <2>2, <3>2
      <4> QED
        BY <4>1, <4>2
    <3>4. queued = <<>>
      BY <2>2, <3>3
    <3>5. value \in {On, Off, Unread}
      BY <1>0
    <3> QED
      BY <1>5, <2>1, <2>2, <2>3, <3>1, <3>4, <3>5
  <2>4. CASE step[c] \notin {"reading", "rereading"}
    <3>1. UNCHANGED <<queued, step, asked>>
      BY <1>11, <2>4 DEF ReadServed, c
    <3>2. UnderWay = {}
      BY <2>1, <2>2, <2>4, FirstServed DEF c
    <3>3. Pipe[1].what # SetTo(asked)
      BY <2>1, <2>2 DEF SetTo
    <3> QED
      BY <1>9, <2>1, <3>1, <3>2, <3>3
  <2> QED
    BY <2>3, <2>4
<1>12. CASE PressServed
  <2> DEFINE c == onBus[1].call
  <2>1. /\ EndOK /\ onBus # <<>> /\ onBus' = <<>> /\ onBus[1].what = "press"
        /\ UNCHANGED <<queued, want, asked>>
    BY <1>12 DEF PressServed, EndInv
  <2>2. /\ onBus[1] \in KeyCmds /\ c \in KeyCalls
        /\ Pipe # <<>> /\ Pipe[1] = onBus[1] /\ queued = Tail(Pipe)
    BY <2>1, Serving DEF KeyCmds
  <2>3. step' = IF step[c] = "pressing" THEN [step EXCEPT ![c] = "settling"] ELSE step
    BY <1>12 DEF PressServed
  <2> HIDE DEF c
  <2>4. Pipe' = Tail(Pipe)
    <3>1. queued' = queued /\ <<>> \o queued = queued
      BY <1>0, <2>1
    <3> QED
      BY <2>1, <2>2, <3>1 DEF Pipe
  <2>5. CASE step[c] = "pressing"
    <3>1. UnderWay \subseteq {c} /\ Pipe = <<Cmd(c, "press")>> /\ want[c] = asked
      BY <2>1, <2>2, <2>5 DEF EndOK, UnderWay
    <3>2. Pipe' = <<>>
      BY <2>4, <3>1
    <3> QED
      BY <1>3, <2>1, <2>2, <2>3, <2>5, <3>1, <3>2
  <2>6. CASE step[c] # "pressing" /\ UnderWay = {}
    <3>1. step' = step
      BY <2>3, <2>6
    <3>2. Pipe[1].what # SetTo(asked)
      BY <2>1, <2>2 DEF SetTo
    <3> QED
      BY <1>9, <2>1, <2>6, <3>1, <3>2
  <2>7. CASE step[c] # "pressing" /\ UnderWay # {}
    <3> PICK d \in UnderWay : TRUE
      BY <2>7
    <3>0. UnderWay \subseteq {d} /\ d \in KeyCalls /\ step' = step
      BY <2>1, <2>3, <2>7 DEF EndOK, UnderWay
    <3>1. Cmd(d, "read").what = "read" /\ Cmd(d, "press").call = d
      BY DEF Cmd
    <3>2. step[d] \in {"reading", "pressing", "settling", "rereading"}
      BY DEF UnderWay, KeyType
    <3>3. Pipe # <<Cmd(d, "read")>>
      BY <2>1, <2>2, <3>1
    <3>4. step[d] # "reading"
      BY <2>1, <3>0, <3>3 DEF EndOK
    <3>5. step[d] # "pressing"
      <4>1. Pipe = <<Cmd(d, "press")>> => c = d
        BY <2>2, <3>1 DEF c
      <4> QED
        BY <2>1, <2>7, <3>0, <4>1 DEF EndOK
    <3>6. step = [step EXCEPT ![d] = step[d]]
      BY DEF KeyType
    <3>7. CASE step[d] = "settling"
      <4>1. Pipe = <<Cmd(d, "press")>> /\ want[d] = asked
        BY <2>1, <2>2, <3>0, <3>7 DEF EndOK
      <4>2. Pipe' = <<>>
        BY <2>4, <4>1
      <4> QED
        BY <1>3, <2>1, <3>0, <3>6, <3>7, <4>1, <4>2
    <3>8. CASE step[d] = "rereading"
      <4>1. Pipe = <<Cmd(d, "press"), Cmd(d, "read")>> /\ want[d] = asked
        BY <2>1, <3>0, <3>3, <3>8 DEF EndOK
      <4>2. Pipe' = <<Cmd(d, "read")>>
        BY <2>4, <4>1
      <4> QED
        BY <1>3, <2>1, <3>0, <3>6, <3>8, <4>1, <4>2
    <3> QED
      BY <3>2, <3>4, <3>5, <3>7, <3>8
  <2> QED
    BY <2>5, <2>6, <2>7
<1>13. CASE SetServed
  <2>1. /\ EndOK /\ onBus # <<>> /\ onBus' = <<>> /\ onBus[1].what \in {"set on", "set off"}
        /\ UNCHANGED <<queued, step, asked>>
        /\ out' = (IF onBus[1].what = "set on" THEN On ELSE Off)
    <3>1. out' = (IF onBus[1].what = "set on" THEN On ELSE Off) /\ unset' = unset
      BY <1>13 DEF SetServed
    <3> QED
      BY <1>13, <3>1 DEF SetServed, EndInv
  <2>2. Pipe # <<>> /\ Pipe[1] = onBus[1]
    BY <2>1, Serving
  <2>3. UnderWay = {}
    BY <2>1, <2>2, FirstServed
  <2>4. asked = Unread \/ Pipe[1].what # SetTo(asked) \/ out' = asked
    BY <1>0, <2>1, <2>2 DEF SetTo
  <2> QED
    BY <1>9, <2>1, <2>3, <2>4
<1>14. CASE WallPress
  BY <1>14 DEF WallPress
<1>15. CASE UNCHANGED keyVars
  <2>1. EndOK /\ UNCHANGED <<onBus, queued, step, want, asked, out>>
    BY <1>15 DEF keyVars, EndInv
  <2> QED
    BY <2>1 DEF EndOK, UnderWay, Pipe
<1> QED
  BY <1>4, <1>6, <1>7, <1>8, <1>10, <1>11, <1>12, <1>13, <1>14, <1>15 DEF KeyNext

\* Every step keeps the LED with the output.
LEMMA StepLed == KeyType /\ LedInv /\ [KeyNext]_keyVars => LedInv'
<1> SUFFICES ASSUME KeyType, LedInv, [KeyNext]_keyVars, ~excused' PROVE LedOK'
  BY DEF LedInv
<1> USE DEF On, Off, Unread
<1>0. /\ Pipe \in Seq(KeyCmds) /\ queued \in Seq(KeyCmds)
      /\ out \in {On, Off} /\ asked \in {On, Off, Unread}
      /\ \A c \in KeyCalls : want[c] \in {On, Off, Unread}
      /\ want \in [KeyCalls -> {On, Off, Unread}]
  BY PipeType DEF KeyType
<1>1. \A c \in KeyCalls :
        /\ Cmd(c, "read") \in KeyCmds /\ Cmd(c, "press") \in KeyCmds
        /\ \A v : Cmd(c, SetTo(v)) \in KeyCmds /\ Cmd(c, SetTo(v)).what = SetTo(v)
        /\ Cmd(c, "press").what = "press" /\ Cmd(c, "read").what = "read"
        /\ Cmd(c, "press").call = c /\ Cmd(c, "read").call = c
  BY CmdType DEF Cmd
\* The only call under way ends.
<1>2. ASSUME NEW c \in KeyCalls, UnderWay \subseteq {c}, step' = [step EXCEPT ![c] = "done"],
             led' = out',
             \/ Pipe' = <<>>
             \/ Pipe' = <<Cmd(c, SetTo(out'))>>
             \/ Pipe' = <<Cmd(c, "press"), Cmd(c, SetTo(1 - out'))>>
      PROVE  LedOK'
  <2>1. UnderWay' = {} /\ \A d \in KeyCalls : step'[d] \in {"new", "done"}
    BY <1>2, Alone
  <2> QED
    BY <1>2, <2>1 DEF LedOK
\* It goes on.
<1>3. ASSUME NEW c \in KeyCalls, UnderWay \subseteq {c}, led' = out',
             NEW at \in {"reading", "pressing", "settling", "rereading"},
             step' = [step EXCEPT ![c] = at],
             \/ /\ at = "reading" /\ Pipe' = <<Cmd(c, "read")>>
                /\ dimmer' => want'[c] # Unread
             \/ at = "pressing" /\ Pipe' = <<Cmd(c, "press")>> /\ want'[c] = 1 - out'
             \/ at = "settling" /\ Pipe' = <<>> /\ want'[c] = out'
             \/ at = "rereading" /\ Pipe' = <<Cmd(c, "read")>> /\ want'[c] = out'
      PROVE  LedOK'
  <2>1. /\ step'[c] = at /\ UnderWay' \subseteq {c} /\ UnderWay' # {}
        /\ \A d \in KeyCalls : d # c => step'[d] \in {"new", "done"}
    BY <1>3, Alone
  <2> QED
    BY <1>3, <2>1 DEF LedOK
<1>4. ASSUME NEW c \in KeyCalls, NEW op \in KeyOps, BeginCall(c, op) PROVE LedOK'
  <2>1. /\ AtRest /\ onBus' = onBus /\ queued' = Append(queued, Cmd(c, "read"))
        /\ step' = [step EXCEPT ![c] = "reading"] /\ UNCHANGED <<dimmer, out, led>>
    BY <1>4 DEF BeginCall, Queue, Cmd
  <2>2. UnderWay = {} /\ Pipe = <<>> /\ LedOK
    BY <1>4, <2>1, PipeType DEF BeginCall, LedInv
  <2>3. Pipe' = Append(Pipe, Cmd(c, "read"))
    BY <1>1, <2>1, Adding DEF Pipe
  <2>4. Pipe' = <<Cmd(c, "read")>>
    BY <1>1, <2>2, <2>3, Short
  <2>5. dimmer' => want'[c] # Unread
    <3>1. want' = [want EXCEPT ![c] = CASE op = "on" -> On [] op = "off" -> Off [] OTHER -> Unread]
          /\ (dimmer => op # "toggle") /\ op \in {"on", "off", "toggle"}
      BY <1>4 DEF BeginCall, KeyOps
    <3> QED
      BY <1>0, <2>1, <3>1
  <2> QED
    BY <1>3, <2>1, <2>2, <2>4, <2>5 DEF LedOK
<1>5. ASSUME NEW c \in KeyCalls, ReadGivenUp(c) PROVE FALSE
  BY <1>5 DEF ReadGivenUp, Missed
<1>6. ASSUME NEW c \in KeyCalls, PressGivenUp(c) PROVE FALSE
  BY <1>6 DEF PressGivenUp, Missed
<1>7. ASSUME NEW c \in KeyCalls, ReadAgain(c) PROVE LedOK'
  <2>1. LedOK /\ step[c] = "settling" /\ step' = [step EXCEPT ![c] = "rereading"]
        /\ onBus' = onBus /\ queued' = Append(queued, Cmd(c, "read")) /\ UNCHANGED <<want, out, led>>
    BY <1>7 DEF ReadAgain, LedInv, Queue, Cmd
  <2>2. UnderWay \subseteq {c} /\ Pipe = <<>> /\ want[c] = out /\ led = out
    BY <2>1 DEF LedOK, UnderWay
  <2>3. Pipe' = Append(Pipe, Cmd(c, "read"))
    BY <1>1, <2>1, Adding DEF Pipe
  <2>4. Pipe' = <<Cmd(c, "read")>>
    BY <1>1, <2>2, <2>3, Short
  <2> QED
    BY <1>3, <2>1, <2>2, <2>4
<1>8. CASE Take
  <2>1. LedOK /\ Pipe' = Pipe /\ UNCHANGED <<dimmer, step, want, out, led>>
    BY <1>8, Taking DEF Take, LedInv
  <2> QED
    BY <2>1 DEF LedOK, UnderWay
\* The first command is served.
<1>9. ASSUME onBus # <<>>, onBus' = <<>>
      PROVE  /\ onBus[1] \in KeyCmds /\ onBus[1].call \in KeyCalls
             /\ Pipe # <<>> /\ Pipe[1] = onBus[1] /\ queued = Tail(Pipe)
             /\ Pipe' = queued'
  <2>1. Pipe' = <<>> \o queued'
    BY <1>9 DEF Pipe
  <2>2. queued' \in Seq(KeyCmds)
    BY StepKeyType DEF KeyType
  <2>3. <<>> \o queued' = queued'
    BY <2>2
  <2> QED
    BY <1>9, <2>1, <2>3, Serving DEF KeyCmds
\* While a call is under way, that is its own.
<1>10. ASSUME LedOK, Pipe # <<>>, NEW d \in UnderWay
       PROVE  /\ d \in KeyCalls /\ UnderWay \subseteq {d} /\ Pipe[1].call = d
              /\ \/ /\ Pipe = <<Cmd(d, "read")>> /\ Pipe[1].what = "read"
                    /\ step[d] \in {"reading", "rereading"}
                 \/ Pipe = <<Cmd(d, "press")>> /\ Pipe[1].what = "press" /\ step[d] = "pressing"
  <2>1. d \in KeyCalls /\ step[d] \in {"reading", "pressing", "settling", "rereading"}
    BY <1>10 DEF UnderWay, KeyType
  <2>2. \/ Pipe = <<Cmd(d, "read")>> /\ step[d] \in {"reading", "rereading"}
        \/ Pipe = <<Cmd(d, "press")>> /\ step[d] = "pressing"
    BY <1>10, <2>1 DEF LedOK
  <2>3. \/ Pipe[1] = Cmd(d, "read") /\ Pipe = <<Cmd(d, "read")>> /\ step[d] \in {"reading", "rereading"}
        \/ Pipe[1] = Cmd(d, "press") /\ Pipe = <<Cmd(d, "press")>> /\ step[d] = "pressing"
    BY <2>2
  <2>4. UnderWay \subseteq {d}
    BY <1>10 DEF LedOK
  <2> QED
    BY <1>1, <2>1, <2>3, <2>4
\* While none is, it is a press of the key or a set-output.
<1>11. ASSUME LedOK, Pipe # <<>>, UnderWay = {}
       PROVE  \E c \in KeyCalls :
                \/ Pipe = <<Cmd(c, SetTo(out))>> /\ Pipe[1].what = SetTo(out)
                \/ Pipe = <<Cmd(c, "press"), Cmd(c, SetTo(1 - out))>> /\ Pipe[1].what = "press"
  <2> PICK c \in KeyCalls : \/ Pipe = <<Cmd(c, SetTo(out))>>
                            \/ Pipe = <<Cmd(c, "press"), Cmd(c, SetTo(1 - out))>>
    BY <1>11 DEF LedOK
  <2>1. \/ Pipe = <<Cmd(c, SetTo(out))>> /\ Pipe[1] = Cmd(c, SetTo(out))
        \/ Pipe = <<Cmd(c, "press"), Cmd(c, SetTo(1 - out))>> /\ Pipe[1] = Cmd(c, "press")
    OBVIOUS
  <2> QED
    BY <1>1, <2>1
<1>12. CASE ReadServed
  <2> DEFINE c == onBus[1].call
  <2>1. /\ onBus # <<>> /\ onBus' = <<>> /\ onBus[1].what = "read"
        /\ UNCHANGED <<dimmer, out, led>>
    BY <1>12 DEF ReadServed
  <2>2. LedOK
    BY <1>12 DEF ReadServed, Missed, Kept, LedInv
  <2>3. UnderWay # {}
    <3>1. SetTo(out) # "read"
      BY DEF SetTo
    <3> QED
      BY <1>9, <1>11, <2>1, <2>2, <3>1
  <2> PICK d \in UnderWay : TRUE
    BY <2>3
  <2>4. /\ d \in KeyCalls /\ UnderWay \subseteq {d} /\ c = d
        /\ Pipe = <<Cmd(d, "read")>> /\ step[d] \in {"reading", "rereading"}
    BY <1>9, <1>10, <2>1, <2>2
  <2>5. queued = <<>> /\ Pipe' = queued'
    BY <1>1, <1>9, <2>1, <2>4, Short
  <2>6. Answered(d, out)
    BY <1>12, <2>4 DEF ReadServed, Missed
  <2>7. /\ step[d] = "rereading" => want[d] = out
        /\ step[d] = "reading" /\ dimmer => want[d] # Unread
        /\ led = out
    BY <2>2, <2>4 DEF LedOK
  <2>8. /\ Append(<<>>, Cmd(d, "press")) = <<Cmd(d, "press")>>
        /\ \A v : /\ Append(<<>>, Cmd(d, SetTo(v))) = <<Cmd(d, SetTo(v))>>
                  /\ Append(<<Cmd(d, "press")>>, Cmd(d, SetTo(v)))
                       = <<Cmd(d, "press"), Cmd(d, SetTo(v))>>
    <3>1. ASSUME NEW v
          PROVE  /\ Append(<<>>, Cmd(d, SetTo(v))) = <<Cmd(d, SetTo(v))>>
                 /\ Append(<<Cmd(d, "press")>>, Cmd(d, SetTo(v)))
                      = <<Cmd(d, "press"), Cmd(d, SetTo(v))>>
      <4>1. Cmd(d, SetTo(v)) \in KeyCmds /\ Cmd(d, "press") \in KeyCmds
        BY <1>1, <2>4
      <4> HIDE <1>1
      <4> QED
        BY <4>1, Short
    <3>2. Append(<<>>, Cmd(d, "press")) = <<Cmd(d, "press")>>
      BY <1>1, <2>4, Short
    <3> QED
      BY <3>1, <3>2
  <2>9. CASE /\ step' = [step EXCEPT ![d] = "pressing"] /\ queued' = Append(queued, Cmd(d, "press"))
             /\ want' = [want EXCEPT ![d] = asked'] /\ asked' \in {On, Off} /\ asked' # out
    <3>1. Pipe' = <<Cmd(d, "press")>> /\ want'[d] = 1 - out'
      BY <1>0, <2>1, <2>4, <2>5, <2>8, <2>9
    <3> QED
      BY <1>3, <2>1, <2>4, <2>7, <2>9, <3>1
  <2>10. CASE step' = [step EXCEPT ![d] = "done"] /\ queued' = queued
    BY <1>2, <2>1, <2>4, <2>5, <2>7, <2>10
  <2>11. CASE /\ step' = [step EXCEPT ![d] = "done"] /\ asked' = out
              /\ queued' = Append(queued, Cmd(d, SetTo(asked')))
    <3>1. Pipe' = <<Cmd(d, SetTo(out'))>>
      BY <2>1, <2>5, <2>8, <2>11
    <3> QED
      BY <1>2, <2>1, <2>4, <2>7, <2>11, <3>1
  <2>12. CASE /\ step' = [step EXCEPT ![d] = "done"] /\ asked' \in {On, Off} /\ asked' # out
              /\ queued' = Append(Append(queued, Cmd(d, "press")), Cmd(d, SetTo(asked')))
    <3>1. asked' = 1 - out'
      BY <1>0, <2>1, <2>12
    <3>2. Pipe' = <<Cmd(d, "press"), Cmd(d, SetTo(1 - out'))>>
      BY <2>5, <2>8, <2>12, <3>1
    <3> QED
      BY <1>2, <2>1, <2>4, <2>7, <2>12, <3>2
  <2> QED
    BY <1>0, <2>4, <2>6, <2>7, <2>9, <2>10, <2>11, <2>12, AnsweredCases
<1>13. CASE PressServed
  <2> DEFINE c == onBus[1].call
  <2>1. /\ onBus # <<>> /\ onBus' = <<>> /\ onBus[1].what = "press"
        /\ UNCHANGED <<queued, want>>
        /\ step' = IF step[c] = "pressing" THEN [step EXCEPT ![c] = "settling"] ELSE step
    BY <1>13 DEF PressServed
  <2>2. out' = 1 - out /\ led' = 1 - led /\ LedOK
    BY <1>13 DEF PressServed, Missed, Kept, LedInv
  <2>3. led' = out'
    BY <2>2 DEF LedOK
  <2>4. CASE UnderWay # {}
    <3> PICK d \in UnderWay : TRUE
      BY <2>4
    <3>1. /\ d \in KeyCalls /\ UnderWay \subseteq {d} /\ c = d
          /\ Pipe = <<Cmd(d, "press")>> /\ step[d] = "pressing"
      BY <1>9, <1>10, <2>1, <2>2
    <3>2. Pipe' = <<>>
      BY <1>1, <1>9, <2>1, <3>1, Short
    <3>3. want[d] = 1 - out
      BY <2>2, <3>1 DEF LedOK
    <3> QED
      BY <1>3, <2>1, <2>2, <2>3, <3>1, <3>2, <3>3
  <2>5. CASE UnderWay = {}
    <3>0. SetTo(out) # "press"
      BY DEF SetTo
    <3>1. PICK d \in KeyCalls : Pipe = <<Cmd(d, "press"), Cmd(d, SetTo(1 - out))>>
      BY <1>9, <1>11, <2>1, <2>2, <2>5, <3>0
    <3>2. Pipe' = <<Cmd(d, SetTo(out'))>>
      BY <1>1, <1>9, <2>1, <2>2, <3>1, Short
    <3>3. step' = step
      BY <1>9, <2>1, <2>5 DEF UnderWay
    <3>4. UnderWay' = {} /\ \A e \in KeyCalls : step'[e] \in {"new", "done"}
      BY <2>5, <3>3 DEF UnderWay
    <3> QED
      BY <2>3, <3>2, <3>4 DEF LedOK
  <2> QED
    BY <2>4, <2>5
<1>14. CASE SetServed
  <2>1. /\ onBus # <<>> /\ onBus' = <<>> /\ onBus[1].what \in {"set on", "set off"}
        /\ UNCHANGED <<queued, step, led>>
    BY <1>14 DEF SetServed
  <2>2. LedOK /\ out' = (IF onBus[1].what = "set on" THEN On ELSE Off)
    <3>1. out' = (IF onBus[1].what = "set on" THEN On ELSE Off) /\ Kept
      BY <1>14 DEF SetServed, Missed
    <3> QED
      BY <3>1 DEF Kept, LedInv
  <2>3. UnderWay = {}
    BY <1>9, <1>10, <2>1, <2>2
  <2>4. PICK c \in KeyCalls : Pipe = <<Cmd(c, SetTo(out))>> /\ Pipe[1].what = SetTo(out)
    BY <1>9, <1>11, <2>1, <2>2, <2>3
  <2>5. out' = out
    BY <1>0, <1>9, <2>1, <2>2, <2>4 DEF SetTo
  <2>6. Pipe' = <<>>
    <3>1. Cmd(c, SetTo(out)) \in KeyCmds
      BY <1>1
    <3>2. Tail(Pipe) = <<>>
      BY <2>4, <3>1, Short
    <3> QED
      BY <1>9, <2>1, <3>2
  <2>7. UnderWay' = {} /\ \A e \in KeyCalls : step'[e] \in {"new", "done"}
    BY <2>1, <2>3 DEF UnderWay
  <2> QED
    BY <2>1, <2>2, <2>5, <2>6, <2>7 DEF LedOK
<1>15. CASE WallPress
  <2>1. AtRest /\ LedOK /\ out' = 1 - out /\ led' = 1 - led /\ UNCHANGED <<onBus, queued, step>>
    BY <1>15 DEF WallPress, LedInv
  <2>2. UnderWay = {} /\ Pipe = <<>> /\ Pipe' = Pipe
    BY <2>1, PipeType DEF Pipe
  <2>3. UnderWay' = {} /\ \A e \in KeyCalls : step'[e] \in {"new", "done"}
    BY <2>1, <2>2 DEF UnderWay
  <2> QED
    BY <2>1, <2>2, <2>3 DEF LedOK
<1>16. CASE UNCHANGED keyVars
  <2>1. LedOK /\ UNCHANGED <<dimmer, onBus, queued, step, want, out, led>>
    BY <1>16 DEF keyVars, LedInv
  <2> QED
    BY <2>1 DEF LedOK, UnderWay, Pipe
<1> QED
  BY <1>4, <1>5, <1>6, <1>7, <1>8, <1>12, <1>13, <1>14, <1>15, <1>16 DEF KeyNext

-----------------------------------------------------------------------------
(* The theorems. *)

\* The invariant of all of them.
LEMMA KeyInductive == KeySpec => [](KeyType /\ EndInv /\ LedInv)
<1>1. KeyType /\ EndInv /\ LedInv /\ [KeyNext]_keyVars => (KeyType /\ EndInv /\ LedInv)'
  BY StepKeyType, StepEnd, StepLed
<1> QED
  BY InitKey, <1>1, PTL DEF KeySpec

\* The key's output, LED, commands and calls are of their types, and one command
\* at a time is on the bus.
THEOREM KeyCorrect == KeySpec => []KeyTypeOK
<1>1. KeyType => KeyTypeOK
  BY DEF KeyType, KeyTypeOK
<1> QED
  BY KeyInductive, <1>1, PTL

\* turn_on_switch, turn_off_switch and the others: however many calls, misses
\* and answers that come late, the output is as the last asked once all is
\* done, unless a set-output was lost or somebody else operated it.
THEOREM EndsAsked == KeySpec => []EndsAsAsked
<1>1. KeyType /\ EndInv => EndsAsAsked
  BY PipeType DEF EndInv, EndOK, EndsAsAsked
<1> QED
  BY KeyInductive, <1>1, PTL

\* _switch_by_key and the two that dim: calls one after the other, and presses
\* on the wall between them, leave the LED as the output.
THEOREM LedTrue == KeySpec => []LedFollows
<1>1. KeyType /\ LedInv => LedFollows
  BY PipeType DEF LedInv, LedOK, LedFollows
<1> QED
  BY KeyInductive, <1>1, PTL

-----------------------------------------------------------------------------
(* Travel                                                                  *)

\* The travel times a tick of which is a whole number of hundredths.
Divisors == {1, 2, 4, 5, 10, 20, 25, 50, 100}
WholeSteps == TimeUp \in Divisors /\ TimeDown \in Divisors

\* Hundredths a shutter moves in a tick, and in n of them.
Pace(dir) == 100 \div ActiveTime(dir)
Way(dir, n) == n * Pace(dir)

\* n ticks up or down from a position.
MovedBy(dir, from, n) ==
    IF dir = Up THEN Clamped(from + Way(dir, n)) ELSE Clamped(from - Way(dir, n))

TravelType ==
    /\ position \in 0..100 /\ startPos \in 0..100 /\ real \in 0..100
    /\ direction \in {Up, Down, Still} /\ motion \in {Up, Down, Still}
    /\ now \in 0..MaxTime /\ startTime \in 0..now
    /\ since \in 0..MaxLatency /\ since <= now
    /\ anchored \in BOOLEAN

\* What the host has noticed reads right; a move it has not noticed yet, from
\* standstill, has brought the shutter as far as the ticks since.
TravelInv ==
    /\ motion = direction => since = 0
    /\ anchored /\ since = 0 => CurrentPosition = real
    /\ anchored /\ motion # direction /\ direction = Still
         => real = MovedBy(motion, position, since)

\* A tick more is a step more.
LEMMA WayNext ==
    ASSUME WholeSteps, NEW dir \in {Up, Down}
    PROVE  /\ Pace(dir) \in Nat
           /\ Way(dir, 0) = 0
           /\ \A n \in Nat : Way(dir, n) \in Nat /\ Way(dir, n + 1) = Way(dir, n) + Pace(dir)
<1> DEFINE t == ActiveTime(dir)
<1>1. t \in Divisors
  BY DEF WholeSteps, ActiveTime
<1>2. 100 \div t \in {1, 2, 4, 5, 10, 20, 25, 50, 100}
  BY <1>1 DEF Divisors
<1> HIDE DEF t
<1> DEFINE k == 100 \div t
<1>3. k \in {1, 2, 4, 5, 10, 20, 25, 50, 100}
  BY <1>2
<1> HIDE DEF k
<1>4. \A n \in Nat : n * k \in Nat /\ (n + 1) * k = n * k + k
  BY <1>3
<1>5. 0 * k = 0
  BY <1>3
<1>6. Pace(dir) = k
  BY DEF Pace, k, t
<1> QED
  BY <1>3, <1>4, <1>5, <1>6 DEF Way

\* The share of the run time, for the times WholeSteps allows.
LEMMA ShareIsWay ==
    ASSUME WholeSteps, NEW dir \in {Up, Down}, NEW n \in Nat
    PROVE  ActiveTime(dir) # 0 /\ (n * 100) \div ActiveTime(dir) = Way(dir, n)
<1> DEFINE t == ActiveTime(dir)
<1>1. t \in Divisors
  BY DEF WholeSteps, ActiveTime
<1>2. Way(dir, n) = n * (100 \div t)
  BY DEF Way, Pace
<1> HIDE DEF t
<1>3. t # 0 /\ (n * 100) \div t = n * (100 \div t)
  BY <1>1 DEF Divisors
<1> QED
  BY <1>2, <1>3 DEF t

\* What current_position makes of a run of n ticks.
Shown(dir, from, n) ==
    LET progress == (n * 100) \div ActiveTime(dir)
    IN  IF dir = Up
        THEN IF from + progress > 100 THEN 100 ELSE from + progress
        ELSE IF from - progress < 0 THEN 0 ELSE from - progress

\* The bounds current_position puts are those of the travel.
LEMMA ShownMoved ==
    ASSUME WholeSteps, NEW dir \in {Up, Down}, NEW from \in 0..100, NEW n \in Nat
    PROVE  ActiveTime(dir) # 0 /\ Shown(dir, from, n) = MovedBy(dir, from, n)
<1> DEFINE w == Way(dir, n)
<1>1. ActiveTime(dir) # 0 /\ (n * 100) \div ActiveTime(dir) = w
  BY ShareIsWay
<1>2. w \in Nat
  BY WayNext
<1> HIDE DEF w
<1>3. Shown(dir, from, n) = IF dir = Up
                            THEN IF from + w > 100 THEN 100 ELSE from + w
                            ELSE IF from - w < 0 THEN 0 ELSE from - w
  BY <1>1 DEF Shown
<1>4. MovedBy(dir, from, n) = IF dir = Up THEN Clamped(from + w) ELSE Clamped(from - w)
  BY DEF MovedBy, w
<1> QED
  BY <1>1, <1>2, <1>3, <1>4 DEF Clamped

\* current_position, of a calculator that is moving, and after a step.
LEMMA PositionNow ==
    ASSUME WholeSteps, direction \in {Up, Down}, startPos \in 0..100,
           NEW n \in Nat, n = now - startTime
    PROVE  CurrentPosition = MovedBy(direction, startPos, n)
<1>1. ActiveTime(direction) # 0 /\ direction # Still
  BY ShownMoved DEF Still, Up, Down
<1>2. CurrentPosition = Shown(direction, startPos, n)
  BY <1>1 DEF CurrentPosition, Shown
<1> QED
  BY <1>2, ShownMoved

\* current_position as a step leaves it.
LEMMA PositionNext ==
    ASSUME WholeSteps, NEW dir \in {Up, Down}, NEW from \in 0..100, NEW n \in Nat,
           direction' = dir, startPos' = from, n = now' - startTime'
    PROVE  CurrentPosition' = MovedBy(dir, from, n)
<1>1. ActiveTime(dir) # 0 /\ dir # Still
  BY ShownMoved DEF Still, Up, Down
<1>2. CurrentPosition' = Shown(dir, from, n)
  BY <1>1 DEF CurrentPosition, Shown, ActiveTime
<1> QED
  BY <1>2, ShownMoved

\* One tick more, from where n have brought it; none leaves it.
LEMMA MovedNext ==
    ASSUME WholeSteps, NEW dir \in {Up, Down}, NEW from \in 0..100, NEW n \in Nat
    PROVE  /\ MovedBy(dir, from, n + 1) = Clamped(MovedBy(dir, from, n) + dir * Pace(dir))
           /\ MovedBy(dir, from, 0) = from
           /\ MovedBy(dir, from, n) \in 0..100
<1> DEFINE w == Way(dir, n)
           k == Pace(dir)
<1>1. w \in Nat /\ k \in Nat /\ Way(dir, n + 1) = w + k /\ Way(dir, 0) = 0
  BY WayNext
<1>2. /\ MovedBy(dir, from, n + 1) = IF dir = Up THEN Clamped(from + (w + k)) ELSE Clamped(from - (w + k))
      /\ MovedBy(dir, from, n) = IF dir = Up THEN Clamped(from + w) ELSE Clamped(from - w)
      /\ MovedBy(dir, from, 0) = IF dir = Up THEN Clamped(from + 0) ELSE Clamped(from - 0)
  BY <1>1 DEF MovedBy
<1> HIDE DEF w, k
<1>3. dir * k = IF dir = Up THEN k ELSE -k
  BY <1>1 DEF Up, Down
<1>4. Clamped(MovedBy(dir, from, n) + dir * k) = MovedBy(dir, from, n + 1)
  <2>1. CASE dir = Up
    BY <1>1, <1>2, <1>3, <2>1 DEF Clamped
  <2>2. CASE dir # Up
    BY <1>1, <1>2, <1>3, <2>2 DEF Clamped
  <2> QED
    BY <2>1, <2>2
<1>5. MovedBy(dir, from, 0) = from /\ MovedBy(dir, from, n) \in 0..100
  BY <1>1, <1>2 DEF Clamped
<1> QED
  BY <1>4, <1>5 DEF k

\* The shutter rests open, and the calculator says so.
LEMMA InitTravel == TravelInit => TravelType /\ TravelInv
BY TravelAssumption DEF TravelInit, TravelType, TravelInv, CurrentPosition, Still

\* The position read is always one.
LEMMA PositionType ==
    ASSUME WholeSteps, TravelType
    PROVE  CurrentPosition \in 0..100 /\ (direction = Still => CurrentPosition = position)
<1>1. CASE direction = Still
  BY <1>1 DEF CurrentPosition, TravelType
<1>2. CASE direction # Still
  <2> DEFINE n == now - startTime
  <2>1. direction \in {Up, Down} /\ startPos \in 0..100 /\ n \in Nat
    BY <1>2 DEF TravelType
  <2>2. CurrentPosition = MovedBy(direction, startPos, n)
    BY <2>1, PositionNow
  <2> QED
    BY <1>2, <2>1, <2>2, MovedNext
<1> QED
  BY <1>1, <1>2

\* Every step of the shutter and of the calculator keeps the invariant.
LEMMA StepTravel ==
    ASSUME WholeSteps
    PROVE  TravelType /\ TravelInv /\ [TravelNext]_travelVars => (TravelType /\ TravelInv)'
<1> SUFFICES ASSUME TravelType, TravelInv, [TravelNext]_travelVars
             PROVE  TravelType' /\ TravelInv'
  OBVIOUS
<1>1. CurrentPosition \in 0..100
  BY PositionType
<1>2. \A x \in 0..100 : Clamped(x) = x
  BY DEF Clamped
<1>3. Still \notin {Up, Down}
  BY DEF Still, Up, Down
<1>4. CASE Tick
  <2>1. UNCHANGED <<position, direction, startPos, startTime, motion, anchored>>
        /\ now' = now + 1 /\ now < MaxTime /\ since < MaxLatency
        /\ since' = IF motion = direction THEN 0 ELSE since + 1
    BY <1>4 DEF Tick
  <2>2. motion = Still => real' = real
    BY <1>4 DEF Tick
  <2>3. motion # Still => real' = Clamped(real + motion * Pace(motion))
    BY <1>4 DEF Tick, Pace
  <2>4. real' \in 0..100
    <3>1. CASE motion = Still
      BY <2>2, <3>1 DEF TravelType
    <3>2. CASE motion # Still
      <4>1. motion * Pace(motion) \in Int
        <5>1. motion \in {Up, Down} /\ Pace(motion) \in Nat
          BY <3>2, WayNext DEF TravelType
        <5> QED
          BY <5>1 DEF Up, Down
      <4> QED
        BY <2>3, <3>2, <4>1 DEF TravelType, Clamped
    <3> QED
      BY <3>1, <3>2
  <2>5. TravelType'
    BY <2>1, <2>4, TravelAssumption DEF TravelType
  <2>6. ASSUME anchored, motion = direction PROVE CurrentPosition' = real'
    <3>1. CurrentPosition = real
      BY <2>6 DEF TravelInv
    <3>2. CASE motion = Still
      <4>1. CurrentPosition = position /\ CurrentPosition' = position
        BY <2>1, <2>6, <3>2 DEF CurrentPosition
      <4> QED
        BY <2>2, <3>1, <3>2, <4>1
    <3>3. CASE motion # Still
      <4> DEFINE n == now - startTime
      <4>0. n \in Nat /\ motion \in {Up, Down} /\ startPos \in 0..100
            /\ now' - startTime' = n + 1 /\ n + 1 \in Nat
        BY <2>1, <2>6, <3>3 DEF TravelType
      <4>1. CurrentPosition = MovedBy(motion, startPos, n)
        BY <2>6, <4>0, PositionNow
      <4> HIDE DEF n
      <4>2. MovedBy(motion, startPos, n + 1) = Clamped(real + motion * Pace(motion))
        <5>1. MovedBy(motion, startPos, n) = real
          BY <3>1, <4>1
        <5>2. MovedBy(motion, startPos, n + 1)
                = Clamped(MovedBy(motion, startPos, n) + motion * Pace(motion))
          <6>1. motion \in {Up, Down} /\ startPos \in 0..100 /\ n \in Nat
            BY <4>0
          <6> QED
            BY <6>1, MovedNext
        <5> QED
          BY <5>1, <5>2
      <4>3. CurrentPosition' = MovedBy(motion, startPos, n + 1)
        BY <2>1, <2>6, <4>0, PositionNext
      <4> QED
        BY <2>3, <3>3, <4>2, <4>3
    <3> QED
      BY <3>2, <3>3
  <2>7. ASSUME anchored, motion # direction, direction = Still
        PROVE  real' = MovedBy(motion, position, since + 1)
    <3>1. motion \in {Up, Down} /\ real = MovedBy(motion, position, since) /\ since \in Nat
      BY <2>7, TravelAssumption DEF TravelInv, TravelType
    <3>2. MovedBy(motion, position, since + 1)
            = Clamped(MovedBy(motion, position, since) + motion * Pace(motion))
      BY <3>1, MovedNext DEF TravelType
    <3> QED
      BY <1>3, <2>3, <3>1, <3>2
  <2>8. motion # direction => since' # 0
    BY <2>1 DEF TravelType
  <2>9. MovedBy(motion, position, since + 1) = MovedBy(motion', position', since + 1)
    BY <2>1
  <2> QED
    BY <2>1, <2>5, <2>6, <2>7, <2>8, <2>9 DEF TravelInv, MovedBy, Way, Pace, ActiveTime
<1>5. CASE Operate
  <2>1. /\ since = 0 /\ motion = direction /\ motion' \in {Up, Down, Still} /\ motion' # motion
        /\ UNCHANGED <<position, direction, startPos, startTime, now, real, since, anchored>>
    BY <1>5 DEF Operate
  <2>2. CurrentPosition' = CurrentPosition
    BY <2>1 DEF CurrentPosition, ActiveTime
  <2>3. TravelType'
    BY <2>1 DEF TravelType
  <2>4. ASSUME direction = Still, anchored PROVE real = MovedBy(motion', position, 0)
    <3>1. motion' \in {Up, Down} /\ position = real
      BY <2>1, <2>4 DEF TravelInv, CurrentPosition
    <3> QED
      BY <3>1, MovedNext DEF TravelType
  <2>5. MovedBy(motion', position, 0) = MovedBy(motion', position', since')
    BY <2>1
  <2> QED
    BY <2>1, <2>2, <2>3, <2>4, <2>5
       DEF TravelInv, MovedBy, Way, Pace, ActiveTime
<1>6. CASE StartTravel
  <2>1. /\ motion \in {Up, Down} /\ position' = CurrentPosition /\ startPos' = CurrentPosition
        /\ startTime' = now - since /\ direction' = motion /\ since' = 0
        /\ anchored' = (anchored /\ (since = 0 \/ direction = Still))
        /\ UNCHANGED <<now, real, motion>>
    BY <1>6 DEF StartTravel, Anchor, TravelType
  <2>2. now - since \in 0..now /\ since \in Nat /\ since = now' - startTime'
    BY <2>1, TravelAssumption DEF TravelType
  <2>3. TravelType'
    BY <1>1, <2>1, <2>2, TravelAssumption DEF TravelType
  <2>4. CurrentPosition' = MovedBy(motion, CurrentPosition, since)
    BY <1>1, <2>1, <2>2, PositionNext
  <2>5. ASSUME anchored' PROVE CurrentPosition' = real'
    <3>1. anchored
      BY <2>1, <2>5 DEF TravelType
    <3>2. CASE since = 0
      BY <1>1, <2>1, <2>4, <3>1, <3>2, MovedNext DEF TravelInv
    <3>3. CASE direction = Still
      BY <1>3, <2>1, <2>4, <3>1, <3>3, PositionType DEF TravelInv
    <3> QED
      BY <2>1, <2>5, <3>2, <3>3 DEF TravelType
  <2> QED
    BY <2>1, <2>3, <2>5 DEF TravelInv
<1>7. CASE StopTravel
  <2>1. /\ motion = Still /\ position' = CurrentPosition /\ direction' = Still /\ since' = 0
        /\ anchored' = (anchored /\ since = 0)
        /\ UNCHANGED <<startPos, startTime, now, real, motion>>
    BY <1>7 DEF StopTravel
  <2>2. TravelType'
    BY <1>1, <2>1, TravelAssumption DEF TravelType
  <2>3. CurrentPosition' = position'
    BY <2>1 DEF CurrentPosition
  <2>4. anchored' => anchored /\ since = 0
    BY <2>1 DEF TravelType
  <2> QED
    BY <2>1, <2>2, <2>3, <2>4 DEF TravelInv
<1>8. CASE SetPosition
  <2>1. /\ motion = Still /\ direction = Still /\ position' = real /\ anchored' = TRUE
        /\ UNCHANGED <<direction, startPos, startTime, now, real, motion, since>>
    BY <1>2, <1>8 DEF SetPosition, TravelType
  <2>2. TravelType'
    BY <2>1 DEF TravelType
  <2>3. CurrentPosition' = position'
    BY <2>1 DEF CurrentPosition
  <2> QED
    BY <2>1, <2>2, <2>3 DEF TravelInv
<1>9. CASE UNCHANGED travelVars
  <2>1. CurrentPosition' = CurrentPosition
    BY <1>9 DEF travelVars, CurrentPosition, ActiveTime
  <2> QED
    BY <1>9, <2>1
       DEF travelVars, TravelType, TravelInv, MovedBy, Way, Pace, ActiveTime
<1> QED
  BY <1>4, <1>5, <1>6, <1>7, <1>8, <1>9 DEF TravelNext

\* When a tick is a whole number of hundredths, the position read is the
\* shutter's at any moment of any run of moves, reversals, re-targets and stops,
\* unless a move was noticed late and not from standstill.
THEOREM PositionRead ==
    ASSUME WholeSteps
    PROVE  TravelSpec => [](PositionTrue /\ TravelTypeOK)
<1>1. TravelType /\ TravelInv => PositionTrue /\ TravelTypeOK
  <2> SUFFICES ASSUME TravelType, TravelInv PROVE PositionTrue /\ TravelTypeOK
    OBVIOUS
  <2>1. CurrentPosition \in 0..100
    BY PositionType
  <2>2. now \in 0..MaxTime /\ startTime \in -MaxLatency..MaxTime
    BY TravelAssumption DEF TravelType
  <2> QED
    BY <2>1, <2>2 DEF TravelType, TravelInv, PositionTrue, TravelTypeOK
<1>2. TravelType /\ TravelInv /\ [TravelNext]_travelVars => (TravelType /\ TravelInv)'
  BY StepTravel
<1> QED
  BY <1>1, <1>2, InitTravel, PTL DEF TravelSpec

-----------------------------------------------------------------------------
(* Residue                                                                  *)

\* What answered is present; while a pass is under way a module that has not
\* answered failed in every pass before, and in this one once it is asked.
ProbeInv ==
    /\ checked \subseteq Outputs /\ present \subseteq checked /\ present = answered
    /\ asking \subseteq checked \ present
    /\ silent \in [Outputs -> Nat] /\ outer \in 1..Passes
    /\ probe \in {"idle", "asking", "told"}
    /\ probe = "asking" =>
         \A m \in Absent : silent[m] = IF m \in asking THEN outer - 1 ELSE outer
    /\ probe = "told" => \A m \in Absent : silent[m] = Passes

\* As long as nobody touched the stores, the manifest is about what they hold.
ManifestInv ==
    /\ steady /\ probe # "idle" => checked = inStore \cap Outputs
    /\ steady /\ probe = "told" => orphaned = OrphanedBy(Absent)

\* The stores hold records of modules, and users keep buttons.
StoreType ==
    /\ inStore \subseteq StoreModules /\ keep \subseteq Buttons /\ steady \in BOOLEAN
    /\ drives \in [Buttons -> SUBSET [mod : StoreModules, source : {"table", "registry"}]]

ResidueInv == ProbeInv /\ ManifestInv /\ StoreType

\* Nothing was asked yet.
LEMMA InitResidue == ResidueInit => ResidueInv
BY ResidueAssumption
   DEF ResidueInit, ResidueInv, ProbeInv, ManifestInv, StoreType, Absent, StoreModules

\* Nothing but what the installation does to the stores leaves the probe alone.
LEMMA TurnResidue == ResidueInv /\ Turn => ResidueInv'
<1> SUFFICES ASSUME ResidueInv, Turn PROVE ResidueInv'
  OBVIOUS
<1>1. UNCHANGED <<probe, outer, asking, checked, present, orphaned, silent, answered>>
  BY DEF Turn, probeVars
<1>2. ProbeInv'
  BY <1>1 DEF ResidueInv, ProbeInv, Absent
<1>3. \/ UNCHANGED <<inStore, drives, steady>> /\ keep' \subseteq Buttons
      \/ /\ steady' = FALSE /\ keep' = keep
         /\ inStore' \subseteq StoreModules
         /\ drives' \in [Buttons -> SUBSET [mod : StoreModules, source : {"table", "registry"}]]
  <2>1. ASSUME NEW b \in Buttons, KeptByUser(b)
        PROVE  UNCHANGED <<inStore, drives, steady>> /\ keep' \subseteq Buttons
    BY <2>1 DEF KeptByUser, ResidueInv, StoreType
  <2>2. ASSUME NEW b \in Buttons, NEW m \in StoreModules, NEW src \in {"table", "registry"},
               LET o == [mod |-> m, source |-> src] IN LinkFiled(b, o) \/ LinkGone(b, o)
        PROVE  /\ steady' = FALSE /\ keep' = keep /\ inStore' = inStore
               /\ drives' \in [Buttons -> SUBSET [mod : StoreModules, source : {"table", "registry"}]]
    <3> DEFINE o == [mod |-> m, source |-> src]
               Recs == [mod : StoreModules, source : {"table", "registry"}]
    <3>1. o \in Recs
      OBVIOUS
    <3>2. drives \in [Buttons -> SUBSET Recs]
      BY DEF ResidueInv, StoreType
    <3>3. /\ steady' = FALSE /\ keep' = keep /\ inStore' = inStore
          /\ \/ drives' = [drives EXCEPT ![b] = @ \cup {o}]
             \/ drives' = [drives EXCEPT ![b] = @ \ {o}]
      BY <2>2 DEF LinkFiled, LinkGone
    <3> HIDE DEF o, Recs
    <3>4. drives' \in [Buttons -> SUBSET Recs]
      BY <3>1, <3>2, <3>3
    <3> QED
      BY <3>3, <3>4 DEF Recs
  <2>3. ASSUME NEW m \in StoreModules, Inventoried(m)
        PROVE  steady' = FALSE /\ UNCHANGED <<keep, drives>> /\ inStore' = inStore \cup {m}
    BY <2>3 DEF Inventoried
  <2>4. ASSUME NEW m \in Outputs, PowerTurned(m)
        PROVE  UNCHANGED <<inStore, drives, steady, keep>>
    BY <2>4 DEF PowerTurned, storesVars
  <2>5. \/ \E b \in Buttons : KeptByUser(b)
        \/ \E b \in Buttons, m \in StoreModules, src \in {"table", "registry"} :
             LET o == [mod |-> m, source |-> src] IN LinkFiled(b, o) \/ LinkGone(b, o)
        \/ \E m \in StoreModules : Inventoried(m)
        \/ \E m \in Outputs : PowerTurned(m)
    BY DEF Turn
  <2> QED
    BY <2>1, <2>2, <2>3, <2>4, <2>5 DEF ResidueInv, StoreType
<1>4. StoreType'
  BY <1>3 DEF ResidueInv, StoreType
<1>5. ManifestInv'
  BY <1>1, <1>3 DEF ResidueInv, ManifestInv, OrphanedBy, LinkedModules, Absent
<1> QED
  BY <1>2, <1>4, <1>5 DEF ResidueInv

\* Every step of the probe, of the host and of the installation.
LEMMA StepResidue == ResidueInv /\ [ResidueNext]_residueVars => ResidueInv'
<1> SUFFICES ASSUME ResidueInv, [ResidueNext]_residueVars PROVE ResidueInv'
  OBVIOUS
<1> USE DEF ResidueInv, storesVars
<1>1. CASE ProbeBegin
  <2>1. ProbeInv'
    BY <1>1, ResidueAssumption DEF ProbeBegin, ProbeInv, Absent
  <2> QED
    BY <1>1, <2>1 DEF ProbeBegin, ManifestInv, StoreType
<1>2. ASSUME NEW m \in Outputs, ProbeAnswered(m) PROVE ResidueInv'
  <2>1. ProbeInv'
    BY <1>2 DEF ProbeAnswered, ProbeInv, Absent
  <2> QED
    BY <1>2, <2>1 DEF ProbeAnswered, ManifestInv, StoreType
<1>3. ASSUME NEW m \in Outputs, ProbeFailed(m) PROVE ResidueInv'
  <2>1. /\ probe = "asking" /\ m \in asking /\ asking' = asking \ {m}
        /\ silent' = [silent EXCEPT ![m] = @ + 1]
        /\ UNCHANGED <<probe, outer, checked, present, answered>>
    BY <1>3 DEF ProbeFailed
  <2>2. silent' \in [Outputs -> Nat] /\ silent[m] = outer - 1 /\ silent'[m] = outer
        /\ \A n \in Outputs \ {m} : silent'[n] = silent[n]
    BY <2>1 DEF ProbeInv, Absent
  <2>3. ProbeInv'
    BY <2>1, <2>2 DEF ProbeInv, Absent
  <2> QED
    BY <1>3, <2>3 DEF ProbeFailed, ManifestInv, StoreType
<1>4. CASE PassEnd
  <2>1. ProbeInv'
    BY <1>4, ResidueAssumption DEF PassEnd, ProbeInv, Absent
  <2>2. ManifestInv'
    BY <1>4 DEF PassEnd, ManifestInv, OrphanedBy, LinkedModules, Absent
  <2> QED
    BY <1>4, <2>1, <2>2 DEF PassEnd, StoreType
<1>5. CASE ProbeCancelled
  <2>1. ProbeInv'
    BY <1>5 DEF ProbeCancelled, ProbeInv
  <2> QED
    BY <1>5, <2>1 DEF ProbeCancelled, ManifestInv, StoreType
<1>6. ASSUME NEW evict \in BOOLEAN, Reconcile(evict) PROVE ResidueInv'
  <2>1. ProbeInv'
    BY <1>6 DEF Reconcile, ProbeInv
  <2> QED
    BY <1>6, <2>1 DEF Reconcile, ManifestInv, StoreType
<1>7. CASE Turn
  BY <1>7, TurnResidue
<1>8. CASE UNCHANGED residueVars
  BY <1>8 DEF residueVars, probeVars, ProbeInv, ManifestInv, StoreType, Absent,
              OrphanedBy, LinkedModules
<1> QED
  BY <1>1, <1>2, <1>3, <1>4, <1>5, <1>6, <1>7, <1>8 DEF ResidueNext

\* What a full sweep's settlement makes of a plain button: an orphan where all
\* it drives was absent, active where a module that answered lists it.
LEMMA StatusSettled ==
    ASSUME ResidueInv, Reconcile(TRUE), steady, NEW b \in Buttons, Sort[b] = "plain"
    PROVE  /\ b \in orphaned => status'[b] = STATUS_LEGACY_ORPHAN
           /\ (\E o \in drives[b] : o.source = "table" /\ o.mod \in answered)
                => status'[b] = STATUS_ACTIVE
<1>1. /\ probe = "told" /\ inStore' = inStore \ Absent
      /\ status'[b] = ClassifyStatus(b, inStore')
  BY DEF Reconcile
<1>2. checked = inStore \cap Outputs /\ orphaned = OrphanedBy(Absent)
  BY <1>1 DEF ResidueInv, ManifestInv
<1>3. ClassifyStatus(b, inStore') =
        IF drives[b] = {} THEN STATUS_LEGACY_UNDECODED
        ELSE IF \/ RegistryOnly(b) /\ ~HasLogic(inStore')
                \/ LinkedModules(b) \cap inStore' = {}
             THEN STATUS_LEGACY_ORPHAN ELSE STATUS_ACTIVE
  BY DEF ClassifyStatus
<1>4. ASSUME b \in orphaned PROVE status'[b] = STATUS_LEGACY_ORPHAN
  <2>1. LinkedModules(b) # {} /\ LinkedModules(b) \subseteq Absent
    BY <1>2, <1>4 DEF OrphanedBy
  <2>2. drives[b] # {} /\ LinkedModules(b) \cap inStore' = {}
    BY <1>1, <2>1 DEF LinkedModules
  <2> QED
    BY <1>1, <1>3, <2>2
<1>5. ASSUME NEW o \in drives[b], o.source = "table", o.mod \in answered
      PROVE  status'[b] = STATUS_ACTIVE
  <2>1. drives[b] # {} /\ ~RegistryOnly(b)
    BY <1>5 DEF RegistryOnly
  <2>2. o.mod \in LinkedModules(b) /\ o.mod \in inStore'
    BY <1>1, <1>2, <1>5 DEF LinkedModules, ResidueInv, ProbeInv, Absent
  <2> QED
    BY <1>1, <1>3, <2>1, <2>2
<1> QED
  BY <1>4, <1>5

\* reconcile_inventory: a module leaves the store only after every pass failed to
\* reach it; the buttons of the manifest are filed as it says unless something
\* changed the stores meanwhile; what the user keeps stays flagged while legacy.
THEOREM ResidueTold == ResidueSpec => ResidueSound
<1> DEFINE Sound ==
      /\ \A m \in inStore \ inStore' : m \notin answered /\ silent[m] = Passes
      /\ \A b \in Buttons :
           /\ status' # status /\ steady /\ inStore' # inStore /\ Sort[b] = "plain"
              => /\ b \in orphaned => status'[b] = STATUS_LEGACY_ORPHAN
                 /\ (\E o \in drives[b] : o.source = "table" /\ o.mod \in answered)
                    => status'[b] = STATUS_ACTIVE
           /\ b \in keep \ keep' => status'[b] \notin LEGACY_STATUSES
<1>1. ASSUME ResidueInv, ResidueNext PROVE Sound
  <2>1. ASSUME NEW evict \in BOOLEAN, Reconcile(evict) PROVE Sound
    <3>1. /\ probe = "told" /\ inStore' = IF evict THEN inStore \ Absent ELSE inStore
          /\ keep' = {b \in keep : status'[b] \in LEGACY_STATUSES}
      BY <2>1 DEF Reconcile
    <3>2. \A m \in inStore \ inStore' : m \notin answered /\ silent[m] = Passes
      BY <1>1, <3>1 DEF ResidueInv, ProbeInv, Absent
    <3>3. \A b \in Buttons : b \in keep \ keep' => status'[b] \notin LEGACY_STATUSES
      BY <3>1
    <3>4. ASSUME NEW b \in Buttons, steady, inStore' # inStore, Sort[b] = "plain"
          PROVE  /\ b \in orphaned => status'[b] = STATUS_LEGACY_ORPHAN
                 /\ (\E o \in drives[b] : o.source = "table" /\ o.mod \in answered)
                      => status'[b] = STATUS_ACTIVE
      <4>1. evict = TRUE
        BY <3>1, <3>4
      <4> QED
        BY <1>1, <2>1, <3>4, <4>1, StatusSettled
    <3> QED
      BY <3>2, <3>3, <3>4
  <2>2. ASSUME ~\E evict \in BOOLEAN : Reconcile(evict)
        PROVE  inStore \subseteq inStore' /\ keep \subseteq keep'
               /\ (status' = status \/ inStore' = inStore)
    <3>1. CASE Turn
      <4>1. \/ \E b \in Buttons : KeptByUser(b)
            \/ \E b \in Buttons, m \in StoreModules, src \in {"table", "registry"} :
                 LET o == [mod |-> m, source |-> src] IN LinkFiled(b, o) \/ LinkGone(b, o)
            \/ \E m \in StoreModules : Inventoried(m)
            \/ \E m \in Outputs : PowerTurned(m)
        BY <3>1 DEF Turn
      <4> QED
        BY <4>1 DEF KeptByUser, LinkFiled, LinkGone, Inventoried, PowerTurned, storesVars
    <3>2. CASE ProbeBegin \/ PassEnd \/ ProbeCancelled
                 \/ \E m \in Outputs : ProbeAnswered(m) \/ ProbeFailed(m)
      BY <3>2 DEF ProbeBegin, PassEnd, ProbeCancelled, ProbeAnswered, ProbeFailed, storesVars
    <3> QED
      BY <1>1, <2>2, <3>1, <3>2 DEF ResidueNext
  <2> QED
    BY <2>1, <2>2
<1>2. ResidueInv /\ [ResidueNext]_residueVars => [Sound]_residueVars
  BY <1>1
<1> QED
  BY <1>2, InitResidue, StepResidue, PTL DEF ResidueSpec, ResidueSound

-----------------------------------------------------------------------------
(* SizedTable: the PC-Logic's inputs.                                      *)

\* What a unit of the table is, as the decoder gets it.
Parcel == {Blank} \cup ({"count"} \X Nat) \cup ({"rec"} \X Nat \X Nat)

\* The PC-Logic's decoder holds the table from its first unit on, a number of
\* blocks, and a count that is none but the table's or a shorter one.
Knows(d) ==
    /\ d \in [stream : Seq(Parcel), count : Int, left : Int, last : Int, kept : Int,
              from : Int, broken : BOOLEAN, links : Seq(Seq(Parcel)), filed : {{}},
              gave : BOOLEAN]
    /\ \A i \in DOMAIN d.stream : d.stream[i] = UnitAt(i - 1)
    /\ \E m \in Nat : Len(d.stream) = BlockLen * m
    /\ d.count # NotYet => d.count \in 0..Greater(programmed.count, 0)
    /\ Begins(d.links)

SizedInv ==
    /\ reader \in {"audio", "logic"}
    /\ programmed.count \in Int /\ programmed.count >= -1 /\ programmed.slots \subseteq Nat
    /\ reader = "logic" => Knows(dec) /\ Begins(published)

\* A set of numbers has a least one.
LEMMA LeastOf ==
    ASSUME NEW T, T \subseteq Nat, T # {}
    PROVE  Sets!Min(T) \in T /\ \A y \in T : Sets!Min(T) <= y
<1> DEFINE R == {ss \in Nat \X Nat : ss[1] < ss[2]}
<1>1. IsWellFoundedOn(R, Nat)
  BY NatLessThanWellFounded, Zenon DEF OpToRel
<1>2. \E x \in T : \A y \in T : ~(<<y, x>> \in R)
  <2> HIDE DEF R
  <2> QED
    BY <1>1, WFMin, Zenon
<1>3. \A x, y \in T : y < x => <<y, x>> \in R
  OBVIOUS
<1>4. \E x \in T : \A y \in T : x <= y
  <2>1. PICK x \in T : \A y \in T : ~(<<y, x>> \in R)
    BY <1>2
  <2> HIDE DEF R
  <2>2. \A y \in T : ~(y < x)
    BY <1>3, <2>1
  <2>3. \A y \in T : x <= y
    BY <2>2
  <2> QED
    BY <2>3
<1> QED
  BY <1>4 DEF Sets!Min

\* The units of the table: the count, then the records.
LEMMA Units ==
    ASSUME SizedInv, NEW a \in Nat
    PROVE  /\ UnitAt(a) \in Parcel
           /\ a = 3 => UnitAt(a) = IF programmed.count # NotYet
                                   THEN <<"count", programmed.count>> ELSE Blank
           /\ \A k \in Nat, j \in 1..3 : a = 3 + 3 * k + j =>
                 UnitAt(a) = IF k \in programmed.slots THEN <<"rec", k, j - 1>> ELSE Blank
<1>1. HeadLen = 4 /\ RecordLen = 3 /\ NotYet = -1
  BY DEF HeadLen, RecordLen, NotYet
<1>2. programmed.count # NotYet => programmed.count \in Nat
  BY <1>1 DEF SizedInv
<1>3. CASE a = 3
  <2>1. UnitAt(a) = IF programmed.count # NotYet THEN <<"count", programmed.count>> ELSE Blank
    BY <1>1, <1>3 DEF UnitAt
  <2>2. UnitAt(a) \in Parcel
    BY <1>2, <2>1 DEF Parcel
  <2>3. \A k \in Nat, j \in 1..3 : a # 3 + 3 * k + j
    BY <1>3
  <2> QED
    BY <1>3, <2>1, <2>2, <2>3
<1>4. CASE a < 3
  <2>1. UnitAt(a) = Blank
    BY <1>1, <1>4 DEF UnitAt
  <2>2. \A k \in Nat, j \in 1..3 : a # 3 + 3 * k + j
    BY <1>4
  <2> QED
    BY <1>4, <2>1, <2>2 DEF Parcel
<1>5. CASE a > 3
  <2> DEFINE slot == (a - 4) \div 3
  <2>1. slot \in Nat /\ (a - 4) % 3 \in Nat /\ (a - 4) % 3 = a - 4 - 3 * slot
    BY <1>5
  <2>2. UnitAt(a) = IF slot \in programmed.slots THEN <<"rec", slot, (a - 4) % 3>> ELSE Blank
    BY <1>1, <1>5 DEF UnitAt
  <2>3. UnitAt(a) \in Parcel
    BY <2>1, <2>2 DEF Parcel
  <2>4. \A k \in Nat, j \in 1..3 : a = 3 + 3 * k + j => slot = k /\ (a - 4) % 3 = j - 1
    BY <1>5
  <2> HIDE DEF slot
  <2>5. \A k \in Nat, j \in 1..3 : a = 3 + 3 * k + j =>
           UnitAt(a) = IF k \in programmed.slots THEN <<"rec", k, j - 1>> ELSE Blank
    <3> SUFFICES ASSUME NEW k \in Nat, NEW j \in 1..3, a = 3 + 3 * k + j
                 PROVE  UnitAt(a) = IF k \in programmed.slots THEN <<"rec", k, j - 1>> ELSE Blank
      OBVIOUS
    <3>1. slot = k /\ (a - 4) % 3 = j - 1
      BY <2>4
    <3> QED
      BY <2>2, <3>1
  <2>6. a # 3
    BY <1>5
  <2> QED
    BY <2>3, <2>5, <2>6
<1> QED
  BY <1>3, <1>4, <1>5

\* The record cut at its place is the one programmed there, or it is blank.
LEMMA RecordCut ==
    ASSUME SizedInv, NEW s \in Seq(Parcel), \A i \in DOMAIN s : s[i] = UnitAt(i - 1),
           NEW k \in Nat, HeadLen + (k + 1) * RecordLen <= Len(s)
    PROVE  LET c == SubSeq(s, HeadLen + k * RecordLen + 1, HeadLen + (k + 1) * RecordLen) IN
           (c = RecordOf(k) /\ k \in programmed.slots) \/ AllBlank(c)
<1>1. HeadLen = 4 /\ RecordLen = 3
  BY DEF HeadLen, RecordLen
<1> DEFINE a == 4 + k * 3 + 1
           z == 4 + (k + 1) * 3
           c == SubSeq(s, a, z)
<1>2. a \in 1..Len(s) /\ z \in 1..Len(s) /\ z = a + 2 /\ Len(s) \in Nat
  BY <1>1
<1>3. /\ DOMAIN c = 1..3 /\ \A j \in 1..3 : c[j] = s[a + j - 1]
      /\ c = [j \in 1..3 |-> c[j]]
  <2> HIDE DEF a, z
  <2>1. a \in Nat /\ z \in Nat /\ z - a + 1 = 3 /\ a..z \subseteq 1..Len(s)
    BY <1>2
  <2>2. c = [i \in 1..(z - a + 1) |-> s[a + i - 1]]
    BY <2>1
  <2>3. c = [i \in 1..3 |-> s[a + i - 1]]
    BY <2>1, <2>2
  <2> HIDE DEF c
  <2> QED
    BY <2>3
<1>4. \A j \in 1..3 : c[j] = IF k \in programmed.slots THEN <<"rec", k, j - 1>> ELSE Blank
  <2> TAKE j \in 1..3
  <2>1. a + j - 1 \in DOMAIN s /\ a + j - 2 = 3 + 3 * k + j /\ a + j - 2 \in Nat
        /\ (a + j - 1) - 1 = a + j - 2
    BY <1>2
  <2>2. c[j] = UnitAt(a + j - 2)
    BY <1>3, <2>1
  <2> HIDE DEF a, c
  <2> QED
    BY <2>1, <2>2, Units
<1> HIDE DEF c
<1>5. CASE k \in programmed.slots
  <2>1. RecordOf(k) = [j \in 1..3 |-> <<"rec", k, j - 1>>]
    BY <1>1 DEF RecordOf
  <2>2. c = RecordOf(k)
    BY <1>3, <1>4, <1>5, <2>1
  <2> QED
    BY <1>1, <1>5, <2>2 DEF c
<1>6. CASE k \notin programmed.slots
  <2>1. AllBlank(c)
    BY <1>3, <1>4, <1>6 DEF AllBlank
  <2> QED
    BY <1>1, <2>1 DEF c
<1> QED
  BY <1>5, <1>6

\* Told what the stream holds, the decoder's links are the table's beginning.
LEMMA InputsKnow ==
    ASSUME SizedInv, NEW d, Knows(d), Len(d.stream) >= HeadLen
    PROVE  Knows(Inputs(d))
<1> DEFINE s == d.stream
           old == d.links
           n == IF d.count # NotYet THEN d.count
                ELSE LET u == s[HeadLen] IN IF u[1] = "count" THEN u[2] ELSE 0
           whole == Lesser(n, (Len(s) - HeadLen) \div RecordLen)
           rec(k) == SubSeq(s, HeadLen + k * RecordLen + 1, HeadLen + (k + 1) * RecordLen)
           empty == {k \in Len(old)..(whole - 1) : AllBlank(rec(k))}
           upTo == IF empty = {} THEN whole ELSE Sets!Min(empty)
           size == Greater(upTo, Len(old))
           new == [k \in 1..size |-> IF k <= Len(old) THEN old[k] ELSE rec(k - 1)]
           most == Greater(programmed.count, 0)
<1>1. Inputs(d) = [d EXCEPT !.count = IF empty = {} THEN n ELSE upTo, !.links = new]
  BY DEF Inputs
<1>2. HeadLen = 4 /\ RecordLen = 3 /\ NotYet = -1
  BY DEF HeadLen, RecordLen, NotYet
<1>3. /\ s \in Seq(Parcel) /\ old \in Seq(Seq(Parcel)) /\ Len(s) \in Nat /\ Len(old) \in Nat
      /\ Len(s) >= 4 /\ \A i \in DOMAIN s : s[i] = UnitAt(i - 1)
      /\ d.count # NotYet => d.count \in 0..most
      /\ Begins(old)
  BY <1>2 DEF Knows
<1>4. most \in Nat /\ (programmed.count \in Nat => most = programmed.count)
      /\ programmed.count \in Int
  BY DEF SizedInv, Greater
<1>5. n \in 0..most
  <2>1. CASE d.count # NotYet
    BY <1>3, <2>1
  <2>2. CASE d.count = NotYet
    <3> DEFINE u == s[4]
    <3>1. 4 \in DOMAIN s /\ u = UnitAt(3)
      BY <1>3
    <3>2. u = IF programmed.count # NotYet THEN <<"count", programmed.count>> ELSE Blank
      BY <3>1, Units
    <3> HIDE DEF u
    <3>3. n = IF u[1] = "count" THEN u[2] ELSE 0
      BY <1>2, <2>2 DEF u
    <3>4. CASE programmed.count = NotYet
      <4>1. u = <<"FF">> /\ u[1] = "FF"
        BY <3>2, <3>4 DEF Blank
      <4> QED
        BY <1>4, <3>3, <4>1
    <3>5. CASE programmed.count # NotYet
      <4>1. programmed.count \in Nat
        BY <1>2, <3>5 DEF SizedInv
      <4>2. u[1] = "count" /\ u[2] = programmed.count
        BY <3>2, <3>5
      <4> QED
        BY <1>4, <3>3, <4>1, <4>2
    <3> QED
      BY <3>4, <3>5
  <2> QED
    BY <2>1, <2>2
<1> HIDE DEF n, most
<1>6. whole \in 0..n /\ 4 + whole * 3 <= Len(s)
  <2> DEFINE l == Len(s)
             m == (l - 4) \div 3
  <2>1. l \in Nat /\ l >= 4
    BY <1>3
  <2>2. whole = Lesser(n, m)
    BY <1>2
  <2> HIDE DEF l
  <2>3. m \in Nat /\ 4 + m * 3 <= l
    BY <2>1
  <2> HIDE DEF m, whole
  <2>4. n \in Nat
    BY <1>4, <1>5
  <2>5. whole \in 0..n /\ whole \in 0..m
    BY <2>2, <2>3, <2>4 DEF Lesser
  <2> QED
    BY <2>1, <2>3, <2>5 DEF l
<1> HIDE DEF whole
<1>7. upTo \in 0..whole /\ \A k \in Len(old)..(upTo - 1) : ~AllBlank(rec(k))
  <2>1. CASE empty = {}
    <3>1. \A k \in Len(old)..(whole - 1) : ~AllBlank(rec(k))
      BY <2>1
    <3> HIDE DEF empty
    <3> QED
      BY <1>6, <2>1, <3>1
  <2>2. CASE empty # {}
    <3>1. empty \subseteq Nat
      BY <1>3, <1>5, <1>6
    <3>2. upTo \in empty /\ \A y \in empty : upTo <= y
      BY <2>2, <3>1, LeastOf
    <3>3. upTo \in Len(old)..(whole - 1)
      BY <3>2
    <3> HIDE DEF upTo, rec
    <3>4. ASSUME NEW k \in Len(old)..(upTo - 1) PROVE ~AllBlank(rec(k))
      <4>1. k \in Len(old)..(whole - 1) /\ ~(upTo <= k)
        BY <1>3, <1>6, <3>3
      <4> QED
        BY <3>2, <4>1
    <3> QED
      BY <1>3, <1>6, <3>3, <3>4
  <2> QED
    BY <2>1, <2>2
<1> HIDE DEF empty, upTo
<1>8. ASSUME NEW k \in Len(old)..(upTo - 1)
      PROVE  rec(k) = RecordOf(k) /\ k \in Inside /\ k \in Nat
  <2>1. k \in Nat /\ k < whole /\ HeadLen + (k + 1) * RecordLen <= Len(s)
    BY <1>2, <1>3, <1>5, <1>6, <1>7
  <2>2. (rec(k) = RecordOf(k) /\ k \in programmed.slots) \/ AllBlank(rec(k))
    BY <1>3, <2>1, RecordCut
  <2>3. rec(k) = RecordOf(k) /\ k \in programmed.slots
    BY <1>7, <2>2
  <2>4. k \in 0..(programmed.count - 1)
    BY <1>4, <1>5, <1>6, <2>1 DEF most, Greater
  <2> QED
    BY <2>1, <2>3, <2>4 DEF Inside
<1> HIDE DEF rec
<1>9. \A i \in 1..Len(old) : i - 1 \in Leading /\ old[i] = RecordOf(i - 1)
  BY <1>3 DEF Begins
<1>10. \A j \in 0..(Len(old) - 1) : j \in Inside
  <2> TAKE j \in 0..(Len(old) - 1)
  <2>1. j + 1 \in 1..Len(old) /\ (j + 1) - 1 = j
    BY <1>3
  <2> QED
    BY <1>9, <2>1 DEF Leading
<1>11. \A k \in Len(old)..(upTo - 1) : k \in Leading
  <2> TAKE k \in Len(old)..(upTo - 1)
  <2>1. \A j \in 0..k : j \in 0..(Len(old) - 1) \/ j \in Len(old)..(upTo - 1)
    BY <1>3, <1>7
  <2>2. 0..k \subseteq Inside
    BY <1>8, <1>10, <2>1
  <2> QED
    BY <1>8, <2>2 DEF Leading
<1>12. size \in Nat /\ size >= Len(old) /\ (size > Len(old) => size = upTo)
  BY <1>3, <1>6, <1>7 DEF Greater
<1> HIDE DEF size
<1>13. \A i \in 1..size : i - 1 \in Leading /\ new[i] = RecordOf(i - 1)
  <2> TAKE i \in 1..size
  <2>1. CASE i <= Len(old)
    BY <1>3, <1>9, <1>12, <2>1
  <2>2. CASE ~(i <= Len(old))
    <3>1. i - 1 \in Len(old)..(upTo - 1)
      BY <1>3, <1>12, <2>2
    <3> QED
      BY <1>8, <1>11, <2>2, <3>1
  <2> QED
    BY <2>1, <2>2
<1>14. new \in Seq(Seq(Parcel)) /\ DOMAIN new = 1..size
  <2>1. \A i \in 1..size : new[i] \in Seq(Parcel)
    <3> TAKE i \in 1..size
    <3> DEFINE k == i - 1
    <3>1. k \in Nat /\ new[i] = RecordOf(k)
      BY <1>12, <1>13
    <3> HIDE DEF k, new
    <3>2. RecordOf(k) = [j \in 1..3 |-> <<"rec", k, j - 1>>]
      BY <1>2 DEF RecordOf
    <3>3. \A j \in 1..3 : <<"rec", k, j - 1>> \in Parcel
      BY <3>1 DEF Parcel
    <3>4. [j \in 1..3 |-> <<"rec", k, j - 1>>] \in Seq(Parcel)
      BY <3>3
    <3> QED
      BY <3>1, <3>2, <3>4
  <2>2. DOMAIN new = 1..size
    OBVIOUS
  <2> QED
    BY <1>12, <2>1, <2>2
<1>15. Begins(new)
  BY <1>13, <1>14 DEF Begins
<1> HIDE DEF new
<1> DEFINE number == IF empty = {} THEN n ELSE upTo
<1>16. number \in 0..most /\ number \in Int
  BY <1>4, <1>5, <1>6, <1>7
<1> HIDE DEF number
<1> DEFINE e == [d EXCEPT !.count = number, !.links = new]
<1>17. /\ e \in [stream : Seq(Parcel), count : Int, left : Int, last : Int, kept : Int,
                 from : Int, broken : BOOLEAN, links : Seq(Seq(Parcel)), filed : {{}},
                 gave : BOOLEAN]
       /\ e.stream = s /\ e.count = number /\ e.links = new
  BY <1>14, <1>16 DEF Knows
<1>18. Knows(e)
  <2> HIDE DEF e
  <2> QED
    BY <1>3, <1>15, <1>16, <1>17 DEF Knows, most
<1> QED
  BY <1>1, <1>18 DEF number

\* What follows the first sequence is the second.
LEMMA JoinedAt ==
    ASSUME NEW S, NEW a \in Seq(S), NEW b \in Seq(S)
    PROVE  /\ a \o b \in Seq(S) /\ Len(a \o b) = Len(a) + Len(b) /\ Len(a) \in Nat /\ Len(b) \in Nat
           /\ DOMAIN (a \o b) = 1..(Len(a) + Len(b)) /\ DOMAIN a = 1..Len(a)
           /\ \A i \in 1..(Len(a) + Len(b)) :
                 (a \o b)[i] = IF i <= Len(a) THEN a[i] ELSE b[i - Len(a)]
OBVIOUS

\* A block taken in is the next one of the table.
LEMMA BlockKnown ==
    ASSUME SizedInv, NEW d, Knows(d), NEW b, b >= 0
    PROVE  /\ Knows(InputBlock(d, b))
           /\ ~InputBlock(d, b).broken => Len(InputBlock(d, b).stream) >= HeadLen
<1> DEFINE s == d.stream
           t == s \o BlockAt(b)
<1>1. /\ d \in [stream : Seq(Parcel), count : Int, left : Int, last : Int, kept : Int,
                from : Int, broken : BOOLEAN, links : Seq(Seq(Parcel)), filed : {{}},
                gave : BOOLEAN]
      /\ s \in Seq(Parcel) /\ Len(s) \in Nat
      /\ \A i \in DOMAIN s : s[i] = UnitAt(i - 1)
  BY DEF Knows
<1>2. PICK m \in Nat : Len(s) = 8 * m
  BY DEF Knows, BlockLen
<1>3. Len(s) \div BlockLen = m
  BY <1>2 DEF BlockLen
<1>4. CASE b # m
  <2>1. InputBlock(d, b) = [d EXCEPT !.broken = TRUE]
    BY <1>3, <1>4 DEF InputBlock
  <2> DEFINE e == [d EXCEPT !.broken = TRUE]
  <2>2. /\ e \in [stream : Seq(Parcel), count : Int, left : Int, last : Int, kept : Int,
                  from : Int, broken : BOOLEAN, links : Seq(Seq(Parcel)), filed : {{}},
                  gave : BOOLEAN]
        /\ e.stream = d.stream /\ e.count = d.count /\ e.links = d.links /\ e.broken
    BY <1>1
  <2>3. Knows(e)
    <3> HIDE DEF e
    <3> QED
      BY <2>2 DEF Knows
  <2> QED
    BY <2>1, <2>2, <2>3
<1>5. CASE b = m
  <2>1. InputBlock(d, b) = [d EXCEPT !.stream = t]
    BY <1>3, <1>5 DEF InputBlock
  <2>2. BlockAt(b) = [i \in 1..8 |-> UnitAt(b * 8 + i - 1)] /\ b \in Nat
    BY <1>5 DEF BlockAt, BlockLen
  <2>3. BlockAt(b) \in Seq(Parcel) /\ Len(BlockAt(b)) = 8
    <3>1. \A i \in 1..8 : UnitAt(b * 8 + i - 1) \in Parcel
      <4> TAKE i \in 1..8
      <4>1. b * 8 + i - 1 \in Nat
        BY <2>2
      <4> QED
        BY <4>1, Units
    <3> QED
      BY <2>2, <3>1
  <2>4. /\ t \in Seq(Parcel) /\ Len(t) = Len(s) + 8
        /\ DOMAIN t = 1..(Len(s) + 8) /\ DOMAIN s = 1..Len(s)
        /\ \A i \in DOMAIN t : t[i] = IF i <= Len(s) THEN s[i] ELSE BlockAt(b)[i - Len(s)]
    <3> HIDE DEF s
    <3>0. s \in Seq(Parcel) /\ BlockAt(b) \in Seq(Parcel) /\ t = s \o BlockAt(b)
      BY <1>1, <2>3
    <3> HIDE DEF t
    <3>1. /\ t \in Seq(Parcel) /\ Len(t) = Len(s) + Len(BlockAt(b))
          /\ DOMAIN t = 1..(Len(s) + Len(BlockAt(b))) /\ DOMAIN s = 1..Len(s)
          /\ \A i \in 1..(Len(s) + Len(BlockAt(b))) :
                t[i] = IF i <= Len(s) THEN s[i] ELSE BlockAt(b)[i - Len(s)]
      <4> DEFINE c == BlockAt(b)
      <4> HIDE DEF c
      <4>1. s \in Seq(Parcel) /\ c \in Seq(Parcel) /\ t = s \o c
        BY <3>0 DEF c
      <4>2. /\ t \in Seq(Parcel) /\ Len(t) = Len(s) + Len(c)
            /\ DOMAIN t = 1..(Len(s) + Len(c)) /\ DOMAIN s = 1..Len(s)
            /\ \A i \in 1..(Len(s) + Len(c)) : t[i] = IF i <= Len(s) THEN s[i] ELSE c[i - Len(s)]
        BY <4>1, JoinedAt
      <4> QED
        BY <4>2 DEF c
    <3> QED
      BY <2>3, <3>1
  <2> HIDE DEF t
  <2>5. ASSUME NEW i \in DOMAIN t PROVE t[i] = UnitAt(i - 1)
    <3> DEFINE l == Len(s)
    <3>1. i \in 1..(l + 8) /\ l \in Nat /\ l = 8 * m
      BY <1>1, <1>2, <2>4, <2>5
    <3> HIDE DEF l, s
    <3>2. CASE i <= Len(s)
      <4>1. i \in DOMAIN s
        BY <2>4, <3>1, <3>2 DEF l
      <4>2. t[i] = s[i]
        BY <2>4, <2>5, <3>2
      <4> QED
        BY <1>1, <4>1, <4>2
    <3>3. CASE ~(i <= Len(s))
      <4>1. i - l \in 1..8 /\ b * 8 + (i - l) - 1 = i - 1
        <5>1. ~(i <= l)
          BY <3>3 DEF l
        <5> QED
          BY <1>5, <3>1, <5>1
      <4>2. BlockAt(b)[i - l] = UnitAt(b * 8 + (i - l) - 1)
        BY <2>2, <4>1
      <4>3. t[i] = BlockAt(b)[i - l]
        BY <2>4, <2>5, <3>3 DEF l
      <4> QED
        BY <4>1, <4>2, <4>3
    <3> QED
      BY <3>2, <3>3
  <2> DEFINE e == [d EXCEPT !.stream = t]
  <2>6. /\ e \in [stream : Seq(Parcel), count : Int, left : Int, last : Int, kept : Int,
                  from : Int, broken : BOOLEAN, links : Seq(Seq(Parcel)), filed : {{}},
                  gave : BOOLEAN]
        /\ e.stream = t /\ e.count = d.count /\ e.links = d.links
    BY <1>1, <2>4
  <2>7. m + 1 \in Nat /\ Len(t) = BlockLen * (m + 1) /\ Len(t) >= HeadLen
    BY <1>1, <1>2, <2>4 DEF BlockLen, HeadLen
  <2>8. Knows(e)
    <3> HIDE DEF e
    <3>1. \A i \in DOMAIN e.stream : e.stream[i] = UnitAt(i - 1)
      BY <2>5, <2>6
    <3>2. \E l \in Nat : Len(e.stream) = BlockLen * l
      BY <2>6, <2>7
    <3>3. (e.count # NotYet => e.count \in 0..Greater(programmed.count, 0)) /\ Begins(e.links)
      BY <2>6 DEF Knows
    <3> QED
      BY <2>6, <3>1, <3>2, <3>3 DEF Knows
  <2> QED
    BY <2>1, <2>6, <2>7, <2>8
<1> QED
  BY <1>4, <1>5

\* Whatever block a frame answers, the decoder keeps to the table's beginning.
LEMMA FrameKnown ==
    ASSUME SizedInv, NEW d, Knows(d), NEW b
    PROVE  Knows(InputFrame(d, b))
<1> DEFINE e == InputBlock(d, b)
<1>1. CASE ~(0 <= b /\ b <= LastInputBlock(d.count)) \/ d.broken
  BY <1>1 DEF InputFrame
<1>2. CASE ~(~(0 <= b /\ b <= LastInputBlock(d.count)) \/ d.broken)
  <2>1. InputFrame(d, b) = IF e.broken THEN e ELSE Inputs(e)
    BY <1>2 DEF InputFrame
  <2>2. 0 <= b
    BY <1>2
  <2>3. b >= 0
    BY <2>2
  <2>4. Knows(e) /\ (~e.broken => Len(e.stream) >= HeadLen)
    BY <2>3, BlockKnown
  <2>5. ~e.broken => Knows(Inputs(e))
    <3> HIDE DEF e
    <3> QED
      BY <2>4, InputsKnow
  <2> QED
    BY <2>1, <2>4, <2>5
<1> QED
  BY <1>1, <1>2

\* A read's frames, none to two of them.
LEMMA FramesKnown ==
    ASSUME SizedInv, reader = "logic", NEW b, NEW o \in Outcomes(b),
           NEW d \in Frames(dec, b, o.frames)
    PROVE  Knows(d)
<1>1. Knows(dec)
  BY DEF SizedInv
<1>2. o.frames \in 0..2
  <2>1. InOrder.frames = 1 /\ Silence.frames = 0
        /\ [Silence EXCEPT !.acked = FALSE].frames = 0
        /\ [Silence EXCEPT !.trailer = TRUE].frames = 0
        /\ [InOrder EXCEPT !.frames = 2].frames = 2
    BY DEF InOrder, Silence
  <2>2. \/ o \in {InOrder, Silence, [Silence EXCEPT !.acked = FALSE],
                  [Silence EXCEPT !.trailer = TRUE], [InOrder EXCEPT !.frames = 2]}
        \/ o \in [frames : 0..1, acked : {FALSE}, trailer : {FALSE}]
    BY DEF Outcomes
  <2>3. CASE o \in [frames : 0..1, acked : {FALSE}, trailer : {FALSE}]
    <3>1. o.frames \in 0..1
      BY <2>3
    <3> QED
      BY <3>1
  <2>4. CASE o \in {InOrder, Silence, [Silence EXCEPT !.acked = FALSE],
                    [Silence EXCEPT !.trailer = TRUE], [InOrder EXCEPT !.frames = 2]}
    <3>1. o.frames \in {0, 1, 2}
      BY <2>1, <2>4
    <3> QED
      BY <3>1
  <2> QED
    BY <2>2, <2>3, <2>4
<1>3. \A e : Frame(e, b) = {InputFrame(e, b)}
  BY DEF Frame
<1>4. CASE o.frames = 0
  BY <1>1, <1>4 DEF Frames
<1>5. CASE o.frames = 1
  <2>1. d = InputFrame(dec, b)
    BY <1>3, <1>5 DEF Frames
  <2> QED
    BY <1>1, <2>1, FrameKnown
<1>6. CASE o.frames = 2
  <2>1. d = InputFrame(InputFrame(dec, b), b)
    BY <1>3, <1>6 DEF Frames
  <2>2. Knows(InputFrame(dec, b))
    BY <1>1, FrameKnown
  <2> QED
    BY <2>1, <2>2, FrameKnown
<1> QED
  BY <1>2, <1>4, <1>5, <1>6

\* A scan begins with nothing decoded, and ends so.
LEMMA FreshKnows ==
    /\ Knows([Fresh EXCEPT !.filed = {}]) /\ Fresh = [Fresh EXCEPT !.filed = {}]
    /\ Begins(<<>>)
<1> DEFINE e == [Fresh EXCEPT !.filed = {}]
<1>1. /\ e.stream = <<>> /\ e.links = <<>> /\ e.count = NotYet /\ Fresh = e
      /\ e \in [stream : {<<>>}, count : Int, left : Int, last : Int, kept : Int,
                from : Int, broken : BOOLEAN, links : {<<>>}, filed : {{}},
                gave : BOOLEAN]
  <2> DEFINE t == <<>>
             f == [stream |-> t, count |-> -1, left |-> 0, last |-> -1, kept |-> 0,
                   from |-> -1, broken |-> FALSE, links |-> t, filed |-> {}, gave |-> FALSE]
  <2>1. Fresh = f
    BY DEF Fresh, NotYet
  <2> HIDE DEF t
  <2>2. /\ f.stream = t /\ f.links = t /\ f.count = -1 /\ f.filed = {}
        /\ f \in [stream : {t}, count : Int, left : Int, last : Int, kept : Int,
                  from : Int, broken : BOOLEAN, links : {t}, filed : {{}}, gave : BOOLEAN]
    OBVIOUS
  <2> HIDE DEF f
  <2>3. [f EXCEPT !.filed = {}] = f
    BY <2>2
  <2>4. e = f
    BY <2>1, <2>3
  <2> HIDE DEF e, f
  <2> QED
    BY <2>1, <2>2, <2>4 DEF t, NotYet
<1>2. <<>> \in Seq(Parcel) /\ <<>> \in Seq(Seq(Parcel)) /\ Len(<<>>) = 0 /\ DOMAIN <<>> = {}
  OBVIOUS
<1>3. Begins(<<>>)
  BY <1>2 DEF Begins
<1> HIDE DEF e
<1>4. e \in [stream : Seq(Parcel), count : Int, left : Int, last : Int, kept : Int,
             from : Int, broken : BOOLEAN, links : Seq(Seq(Parcel)), filed : {{}},
             gave : BOOLEAN]
  BY <1>1, <1>2
<1>5. \E m \in Nat : Len(e.stream) = BlockLen * m
  <2>1. Len(e.stream) = BlockLen * 0
    BY <1>1, <1>2 DEF BlockLen
  <2> QED
    BY <2>1
<1>6. Knows(e)
  BY <1>1, <1>2, <1>3, <1>4, <1>5 DEF Knows
<1> QED
  BY <1>1, <1>3, <1>6 DEF e

\* Initially nothing is told.
LEMMA InitSized == SizedInit => SizedInv
<1> SUFFICES ASSUME SizedInit PROVE SizedInv
  OBVIOUS
<1>2. Knows(dec) /\ Begins(published)
  BY FreshKnows DEF SizedInit
<1>3. programmed.count \in Int /\ programmed.count >= -1 /\ programmed.slots \subseteq Nat
  BY SizedAssumption DEF SizedInit
<1> QED
  BY <1>2, <1>3 DEF SizedInv, SizedInit

\* The decoder is what it was, or was told of a block, or says where it goes on.
LEMMA StepSized == SizedInv /\ [SizedNext]_sizedVars => SizedInv'
<1> SUFFICES ASSUME SizedInv, [SizedNext]_sizedVars PROVE SizedInv'
  OBVIOUS
<1>1. reader' = reader /\ programmed' = programmed
  BY DEF SizedNext, sizedVars, NextPass, ReadBlock, CutPass, ExtendTable, TableOver, SwitchedOff
<1>2. ASSUME reader = "logic" => Knows(dec') /\ Begins(published')
      PROVE  SizedInv'
  <2>1. reader = "logic" => Knows(dec)' /\ Begins(published)'
    BY <1>1, <1>2 DEF Knows, Begins, Inside, Leading, UnitAt
  <2> QED
    BY <1>1, <2>1 DEF SizedInv
<1> SUFFICES ASSUME reader = "logic" PROVE Knows(dec') /\ Begins(published')
  BY <1>2
<1>3. Knows(dec) /\ Begins(published)
  BY DEF SizedInv
<1>4. CASE UNCHANGED <<dec, published>>
  BY <1>3, <1>4
<1>5. CASE ReadBlock
  <2>1. PICK b : \E o \in Outcomes(b) : \E d \in Frames(dec, b, o.frames) :
                    dec' = IF o.acked \/ reader = "logic" THEN d ELSE [d EXCEPT !.stream = <<>>]
    BY <1>5 DEF ReadBlock
  <2>2. \E o \in Outcomes(b) : \E d \in Frames(dec, b, o.frames) : dec' = d
    BY <2>1
  <2>3. Knows(dec')
    BY <2>2, FramesKnown
  <2> QED
    BY <1>3, <1>5, <2>3 DEF ReadBlock
<1>6. CASE ExtendTable
  <2>1. dec' = [dec EXCEPT !.from = More[1]] /\ More # <<>> /\ UNCHANGED published
    BY <1>6 DEF ExtendTable, MayExtend
  <2>2. More[1] = Len(dec.stream) \div BlockLen
    BY <2>1 DEF More, InputMore
  <2>3. More[1] \in Int
    <3>1. Len(dec.stream) \in Nat
      BY <1>3 DEF Knows
    <3> QED
      BY <2>2, <3>1 DEF BlockLen
  <2>4. /\ dec' \in [stream : Seq(Parcel), count : Int, left : Int, last : Int, kept : Int,
                     from : Int, broken : BOOLEAN, links : Seq(Seq(Parcel)), filed : {{}},
                     gave : BOOLEAN]
        /\ dec'.stream = dec.stream /\ dec'.count = dec.count /\ dec'.links = dec.links
    BY <1>3, <2>1, <2>3 DEF Knows
  <2>5. Knows(dec')
    BY <1>3, <2>4 DEF Knows
  <2> QED
    BY <1>3, <2>1, <2>5
<1>7. CASE TableOver
  <2>1. /\ dec' = [Fresh EXCEPT !.filed = dec.filed]
        /\ published' = IF dec.count # NotYet THEN dec.links ELSE published
    BY <1>7 DEF TableOver
  <2>2. dec.filed = {}
    BY <1>3 DEF Knows
  <2>3. Knows(dec')
    BY <2>1, <2>2, FreshKnows
  <2>4. Begins(published')
    BY <1>3, <2>1 DEF Knows
  <2> QED
    BY <2>3, <2>4
<1> QED
  BY <1>4, <1>5, <1>6, <1>7
     DEF SizedNext, sizedVars, NextPass, CutPass, SwitchedOff

\* Whatever reads fail, repeat or are cut short, and whatever the table's length,
\* the inputs told of a PC-Logic are the first ones of its table, each in its place.
THEOREM InputsAreTheTable == SizedSpec => []InputsBegin
<1>1. SizedInv => InputsBegin
  BY DEF SizedInv, InputsBegin, Knows
<1> QED
  BY <1>1, InitSized, StepSized, PTL DEF SizedSpec

-----------------------------------------------------------------------------
(* PcLinkCopies                                                             *)

\* What holds of 0, and of the successor of a number it holds of, holds of all
\* numbers up to n.
LEMMA Upwards ==
    ASSUME NEW n \in Nat, NEW T, 0 \in T, \A i \in 0..(n - 1) : i \in T => i + 1 \in T
    PROVE  0..n \subseteq T
<1> DEFINE U == (0..n) \ T
           R == {ss \in Nat \X Nat : ss[1] < ss[2]}
<1> SUFFICES ASSUME U # {} PROVE FALSE
  OBVIOUS
<1>1. IsWellFoundedOn(R, Nat)
  BY NatLessThanWellFounded, Zenon DEF OpToRel
<1>2. U \subseteq Nat
  OBVIOUS
<1>3. PICK x \in U : \A y \in U : ~(<<y, x>> \in R)
  <2> HIDE DEF R, U
  <2> QED
    BY <1>1, <1>2, WFMin, Zenon
<1>4. \A y \in U : ~(y < x)
  BY <1>2, <1>3
<1>5. x # 0 /\ x \in 0..n /\ x \notin T
  OBVIOUS
<1>6. x - 1 \in 0..(n - 1) /\ x - 1 < x /\ (x - 1) + 1 = x
  BY <1>5
<1>7. x - 1 \in T
  BY <1>4, <1>6
<1> QED
  BY <1>5, <1>6, <1>7

\* g is what sizes z come to, one after the other.
Sums(g, z, n) ==
    /\ g \in [0..n -> Nat] /\ g[0] = 0
    /\ \A i \in 1..n : g[i] = g[i - 1] + z[i]

\* Sizes can be summed.
LEMMA SumsExist ==
    ASSUME NEW N \in Nat, NEW z \in [1..N -> Nat]
    PROVE  \E f : /\ f = [i \in 0..N |-> IF i = 0 THEN 0 ELSE f[i - 1] + z[i]]
                  /\ Sums(f, z, N)
<1> DEFINE B(f, n) == [i \in 0..n |-> IF i = 0 THEN 0 ELSE f[i - 1] + z[i]]
           T == {n \in 0..N : \E f \in [0..n -> Nat] : f = B(f, n)}
<1>1. 0 \in T
  <2> DEFINE f == [i \in 0..0 |-> 0]
  <2>1. f = B(f, 0) /\ f \in [0..0 -> Nat]
    OBVIOUS
  <2> HIDE DEF f
  <2> QED
    BY <2>1
<1>2. ASSUME NEW n \in 0..(N - 1), n \in T PROVE n + 1 \in T
  <2>1. PICK f \in [0..n -> Nat] : f = B(f, n)
    BY <1>2
  <2> DEFINE e == f[n] + z[n + 1]
             g == [i \in 0..(n + 1) |-> IF i = n + 1 THEN e ELSE f[i]]
  <2>2. \A i \in 0..n : f[i] = IF i = 0 THEN 0 ELSE f[i - 1] + z[i]
    BY <2>1
  <2>3. g \in [0..(n + 1) -> Nat]
    <3>1. e \in Nat
      OBVIOUS
    <3> HIDE DEF e
    <3> QED
      BY <3>1
  <2>4. ASSUME NEW i \in 0..(n + 1)
        PROVE  g[i] = IF i = 0 THEN 0 ELSE g[i - 1] + z[i]
    <3>1. CASE i = n + 1
      <4>1. g[i] = e /\ g[i - 1] = f[n] /\ i # 0
        BY <3>1
      <4> QED
        BY <3>1, <4>1
    <3>2. CASE i # n + 1 /\ i # 0
      <4>1. i \in 0..n /\ g[i] = f[i] /\ g[i - 1] = f[i - 1]
        BY <3>2
      <4> HIDE DEF g
      <4> QED
        BY <2>2, <3>2, <4>1
    <3>3. CASE i = 0
      <4>1. i \in 0..n /\ g[i] = f[i]
        BY <3>3
      <4> HIDE DEF g
      <4> QED
        BY <2>2, <3>3, <4>1
    <3> QED
      BY <3>1, <3>2, <3>3
  <2>5. g = B(g, n + 1)
    <3>1. g = [i \in 0..(n + 1) |-> g[i]]
      OBVIOUS
    <3> HIDE DEF g
    <3> QED
      BY <2>4, <3>1
  <2>6. n + 1 \in 0..N
    OBVIOUS
  <2> HIDE DEF g
  <2> QED
    BY <2>3, <2>5, <2>6
<1>3. N \in T
  <2> HIDE DEF T
  <2>1. 0..N \subseteq T
    BY <1>1, <1>2, Upwards
  <2> QED
    BY <2>1
<1>4. PICK f \in [0..N -> Nat] : f = B(f, N)
  BY <1>3
<1>5. \A i \in 0..N : f[i] = IF i = 0 THEN 0 ELSE f[i - 1] + z[i]
  BY <1>4
<1>6. Sums(f, z, N)
  BY <1>5 DEF Sums
<1> QED
  BY <1>4, <1>6

\* Sums grow.
LEMMA SumsGrow ==
    ASSUME NEW N \in Nat, NEW z \in [1..N -> Nat], NEW g, Sums(g, z, N),
           NEW i \in 0..N, NEW j \in 0..N, i <= j
    PROVE  g[i] <= g[j]
<1> DEFINE T == {d \in Nat : i + d <= N => g[i] <= g[i + d]}
<1>1. 0 \in T
  BY DEF Sums
<1>2. ASSUME NEW d \in 0..(N - 1), d \in T PROVE d + 1 \in T
  <2> SUFFICES ASSUME i + (d + 1) <= N PROVE g[i] <= g[i + (d + 1)]
    OBVIOUS
  <2>1. i + d \in 0..N /\ i + (d + 1) \in 1..N /\ (i + (d + 1)) - 1 = i + d
    OBVIOUS
  <2>2. g[i + (d + 1)] = g[i + d] + z[i + (d + 1)]
    BY <2>1 DEF Sums
  <2>3. g[i] \in Nat /\ g[i + d] \in Nat /\ z[i + (d + 1)] \in Nat
    BY <2>1 DEF Sums
  <2>4. g[i] <= g[i + d]
    BY <1>2
  <2> QED
    BY <2>2, <2>3, <2>4
<1>3. 0..N \subseteq T
  <2> HIDE DEF T
  <2> QED
    BY <1>1, <1>2, Upwards
<1>4. j - i \in 0..N /\ i + (j - i) = j
  OBVIOUS
<1> QED
  BY <1>3, <1>4

\* Every number below the sum falls into one of the sizes.
LEMMA SumsCover ==
    ASSUME NEW N \in Nat, NEW z \in [1..N -> Nat], NEW g, Sums(g, z, N),
           NEW x \in Nat, x < g[N]
    PROVE  \E i \in 1..N : g[i - 1] <= x /\ x < g[i]
<1> SUFFICES ASSUME \A i \in 1..N : ~(g[i - 1] <= x /\ x < g[i]) PROVE FALSE
  OBVIOUS
<1> DEFINE T == {i \in 0..N : g[i] <= x}
<1>1. 0 \in T
  BY DEF Sums
<1>2. ASSUME NEW i \in 0..(N - 1), i \in T PROVE i + 1 \in T
  <2>1. i + 1 \in 1..N /\ (i + 1) - 1 = i
    OBVIOUS
  <2>2. ~(x < g[i + 1])
    BY <1>2, <2>1
  <2>3. g[i + 1] \in Nat
    BY <2>1 DEF Sums
  <2> QED
    BY <2>1, <2>2, <2>3
<1>3. N \in T
  <2> HIDE DEF T
  <2>1. 0..N \subseteq T
    BY <1>1, <1>2, Upwards
  <2> QED
    BY <2>1
<1>4. g[N] \in Nat
  BY DEF Sums
<1> QED
  BY <1>3, <1>4

\* The outputs counted up to a chunk of the memory are those counted before and its own.
Counted(m) == Sums(OutputsTo(m), [i \in 1..Len(m) |-> OutputsOf(m[i])], Len(m))

\* They are, in every memory.
LEMMA OutputsCounted ==
    ASSUME NEW m, MemoryOK(m)
    PROVE  /\ Counted(m)
           /\ \A i \in DOMAIN m : OutputsOf(m[i]) \in Nat
<1>1. Len(m) \in Nat /\ DOMAIN m = 1..Len(m)
  BY DEF MemoryOK
<1>2. \A i \in 1..Len(m) : OutputsOf(m[i]) \in Nat
  BY <1>1, CopiesAssumption DEF OutputsOf, OutputBearing, ModuleTypes
<1> DEFINE N == Len(m)
           z == [i \in 1..N |-> OutputsOf(m[i])]
           F == [i \in 0..N |-> 0]
<1>3. z \in [1..N -> Nat]
  BY <1>2
<1>4. PICK f : /\ f = [i \in 0..N |-> IF i = 0 THEN 0 ELSE f[i - 1] + z[i]]
               /\ Sums(f, z, N)
  <2> HIDE DEF z, N
  <2>1. N \in Nat
    BY <1>1 DEF N
  <2> QED
    BY <1>3, <2>1, SumsExist
<1>5. \A i \in 0..N : i # 0 => z[i] = OutputsOf(m[i])
  OBVIOUS
<1>6. f = [i \in 0..N |-> IF i = 0 THEN 0 ELSE f[i - 1] + OutputsOf(m[i])]
  <2> HIDE DEF z, N
  <2> QED
    BY <1>4, <1>5
<1> DEFINE P(h) == h = [i \in 0..N |-> IF i = 0 THEN 0 ELSE h[i - 1] + OutputsOf(m[i])]
           h == CHOOSE x : P(x)
<1>7. P(h)
  <2>1. P(f)
    BY <1>6
  <2> HIDE DEF P
  <2> QED
    BY <2>1, Zenon
<1>8. OutputsTo(m) = h
  BY Zenon DEF OutputsTo
<1>9. Sums(h, z, N)
  <2> HIDE DEF h
  <2>1. \A i \in 0..N : h[i] = IF i = 0 THEN 0 ELSE h[i - 1] + OutputsOf(m[i])
    BY <1>7
  <2> DEFINE T == {i \in 0..N : h[i] \in Nat}
  <2>2. 0 \in T
    BY <1>1, <2>1
  <2>3. ASSUME NEW i \in 0..(N - 1), i \in T PROVE i + 1 \in T
    <3>1. i + 1 \in 1..N /\ (i + 1) - 1 = i /\ i + 1 \in 0..N /\ i + 1 # 0
      BY <1>1
    <3>2. h[i + 1] = h[i] + OutputsOf(m[i + 1])
      BY <2>1, <3>1
    <3>3. h[i + 1] \in Nat
      BY <1>2, <2>3, <3>1, <3>2
    <3> QED
      BY <3>1, <3>3
  <2>4. 0..N \subseteq T
    <3> HIDE DEF T
    <3>1. N \in Nat
      BY <1>1
    <3> QED
      BY <2>2, <2>3, <3>1, Upwards
  <2>5. h \in [0..N -> Nat]
    <3>1. h = [i \in 0..N |-> h[i]]
      BY <1>7
    <3>2. \A i \in 0..N : h[i] \in Nat
      BY <2>4
    <3> QED
      BY <3>1, <3>2
  <2>6. \A i \in 1..N : h[i] = h[i - 1] + z[i]
    BY <1>1, <2>1
  <2> QED
    BY <1>1, <2>1, <2>5, <2>6 DEF Sums
<1> QED
  BY <1>1, <1>2, <1>8, <1>9 DEF Counted

\* One sequence after the other: where each of their items is in the whole.
LEMMA FlatPlaces ==
    ASSUME NEW T, NEW s \in Seq(Seq(T)), NEW g,
           Sums(g, [i \in 1..Len(s) |-> Len(s[i])], Len(s))
    PROVE  /\ Seqs!FlattenSeq(s) \in Seq(T) /\ Len(Seqs!FlattenSeq(s)) = g[Len(s)]
           /\ \A i \in 1..Len(s) : \A x \in 1..Len(s[i]) :
                Seqs!FlattenSeq(s)[g[i - 1] + x] = s[i][x]
<1>1. Len(s) \in Nat /\ \A i \in 1..Len(s) : s[i] \in Seq(T) /\ Len(s[i]) \in Nat
  OBVIOUS
<1>2. /\ g \in [0..Len(s) -> Nat] /\ g[0] = 0
      /\ \A i \in 1..Len(s) : g[i] = g[i - 1] + Len(s[i])
  <2>1. \A i \in 1..Len(s) : [j \in 1..Len(s) |-> Len(s[j])][i] = Len(s[i])
    OBVIOUS
  <2> QED
    BY <2>1 DEF Sums
<1>3. CASE Len(s) = 0
  <2>1. Seqs!FlattenSeq(s) = s
    BY <1>3 DEF Seqs!FlattenSeq
  <2>2. s = <<>>
    BY <1>3
  <2> QED
    BY <1>2, <1>3, <2>1, <2>2
<1>4. CASE Len(s) # 0
  <2> DEFINE N == Len(s)
             B(f, n) == [i \in 1..n |-> IF i = 1 THEN s[i] ELSE f[i - 1] \o s[i]]
             K == {n \in 0..N : \E f : f = B(f, n)}
  <2>1. 0 \in K
    <3> DEFINE f == [i \in 1..0 |-> 0]
    <3>1. f = B(f, 0)
      OBVIOUS
    <3> HIDE DEF f
    <3>2. \E x : x = B(x, 0)
      BY <3>1
    <3> HIDE DEF B
    <3>3. 0 \in 0..N
      BY <1>1
    <3> QED
      BY <3>2, <3>3
  <2>2. ASSUME NEW n \in 0..(N - 1), n \in K PROVE n + 1 \in K
    <3>1. PICK f : f = B(f, n)
      BY <2>2
    <3> DEFINE e == IF n = 0 THEN s[n + 1] ELSE f[n] \o s[n + 1]
               h == [i \in 1..(n + 1) |-> IF i = n + 1 THEN e ELSE f[i]]
    <3>2. \A i \in 1..n : f[i] = IF i = 1 THEN s[i] ELSE f[i - 1] \o s[i]
      BY <3>1
    <3>3. ASSUME NEW i \in 1..(n + 1)
          PROVE  h[i] = IF i = 1 THEN s[i] ELSE h[i - 1] \o s[i]
      <4>1. CASE i = n + 1 /\ n # 0
        <5>1. h[i] = f[n] \o s[n + 1] /\ h[i - 1] = f[n] /\ i # 1
          <6>1. e = f[n] \o s[n + 1]
            BY <4>1
          <6> HIDE DEF e
          <6>2. h[i] = e /\ h[i - 1] = f[n] /\ i # 1
            BY <4>1
          <6> QED
            BY <6>1, <6>2
        <5> HIDE DEF h
        <5> QED
          BY <4>1, <5>1
      <4>2. CASE i = n + 1 /\ n = 0
        <5>1. h[i] = s[n + 1] /\ i = 1
          BY <4>2
        <5> HIDE DEF h
        <5> QED
          BY <4>2, <5>1
      <4>3. CASE i # n + 1 /\ i # 1
        <5>1. i \in 1..n /\ h[i] = f[i] /\ h[i - 1] = f[i - 1]
          BY <4>3
        <5> HIDE DEF h
        <5> QED
          BY <3>2, <4>3, <5>1
      <4>4. CASE i # n + 1 /\ i = 1
        <5>1. i \in 1..n /\ h[i] = f[i]
          BY <4>4
        <5> HIDE DEF h
        <5> QED
          BY <3>2, <4>4, <5>1
      <4> QED
        BY <4>1, <4>2, <4>3, <4>4
    <3>4. h = B(h, n + 1)
      <4>1. h = [i \in 1..(n + 1) |-> h[i]]
        OBVIOUS
      <4> HIDE DEF h
      <4> QED
        BY <3>3, <4>1
    <3>5. n + 1 \in 0..N
      BY <1>1
    <3> HIDE DEF h
    <3> QED
      BY <3>4, <3>5
  <2>3. N \in K
    <3>1. N \in Nat
      BY <1>1
    <3> HIDE DEF K, N
    <3>2. 0..N \subseteq K
      BY <2>1, <2>2, <3>1, Upwards
    <3> QED
      BY <3>1, <3>2
  <2> DEFINE P(x) == x = [i \in 1..Len(s) |-> IF i = 1 THEN s[i] ELSE x[i - 1] \o s[i]]
             F == CHOOSE x : P(x)
  <2>4. P(F)
    <3>1. \E x : P(x)
      BY <2>3
    <3> HIDE DEF P
    <3> QED
      BY <3>1, Zenon
  <2>5. Seqs!FlattenSeq(s) = F[Len(s)]
    BY <1>4 DEF Seqs!FlattenSeq
  <2> HIDE DEF F
  <2>6. \A i \in 1..N : F[i] = IF i = 1 THEN s[i] ELSE F[i - 1] \o s[i]
    BY <2>4
  <2> DEFINE Good(n) == /\ F[n] \in Seq(T) /\ Len(F[n]) = g[n]
                        /\ \A i \in 1..n : \A x \in 1..Len(s[i]) : F[n][g[i - 1] + x] = s[i][x]
             W == {n \in 0..N : n # 0 => Good(n)}
  <2>7. 0 \in W
    BY <1>1
  <2>8. ASSUME NEW n \in 0..(N - 1), n \in W PROVE n + 1 \in W
    <3>1. /\ n + 1 \in 1..N /\ n + 1 \in 0..N /\ (n + 1) - 1 = n /\ n \in Nat
          /\ s[n + 1] \in Seq(T) /\ g[n + 1] = g[n] + Len(s[n + 1])
      BY <1>1, <1>2
    <3>2. CASE n = 0
      <4>1. F[1] = s[1] /\ g[1] = Len(s[1]) /\ g[0] = 0
        BY <1>1, <1>2, <2>6, <3>1, <3>2
      <4>2. Good(1)
        BY <1>1, <3>1, <3>2, <4>1
      <4> QED
        BY <3>1, <3>2, <4>2
    <3>3. CASE n # 0
      <4>1. Good(n) /\ F[n + 1] = F[n] \o s[n + 1]
        <5>1. Good(n)
          BY <2>8, <3>3
        <5>2. n + 1 # 1
          BY <3>1, <3>3
        <5>3. F[n + 1] = F[(n + 1) - 1] \o s[n + 1]
          <6> HIDE DEF Good
          <6> QED
            BY <2>6, <3>1, <5>2
        <5> HIDE DEF Good
        <5> QED
          BY <3>1, <5>1, <5>3
      <4>2. F[n + 1] \in Seq(T) /\ Len(F[n + 1]) = g[n + 1]
        <5>1. F[n] \in Seq(T) /\ Len(F[n]) = g[n]
          BY <4>1
        <5>2. F[n] \o s[n + 1] \in Seq(T)
          BY <3>1, <5>1, ConcatProperties
        <5>3. Len(F[n] \o s[n + 1]) = Len(F[n]) + Len(s[n + 1])
          BY <3>1, <5>1, ConcatProperties
        <5> HIDE DEF Good
        <5> QED
          BY <3>1, <4>1, <5>1, <5>2, <5>3
      <4>3. ASSUME NEW i \in 1..(n + 1), NEW x \in 1..Len(s[i])
            PROVE  F[n + 1][g[i - 1] + x] = s[i][x]
        <5>1. CASE i = n + 1
          <6>1. /\ g[i - 1] + x = Len(F[n]) + x /\ i - 1 = n
                /\ x \in 1..Len(s[n + 1]) /\ s[i] = s[n + 1]
            BY <3>1, <4>1, <5>1
          <6>2. (F[n] \o s[n + 1])[Len(F[n]) + x] = s[n + 1][x]
            <7>1. F[n] \in Seq(T)
              BY <4>1
            <7> HIDE DEF Good
            <7> DEFINE u == Len(F[n])
                       v == Len(s[n + 1])
            <7>3. u \in Nat /\ v \in Nat /\ x \in 1..v
              BY <3>1, <6>1, <7>1, LenProperties
            <7>2. u \in Nat /\ u + x \in 1..(u + v) /\ ~(u + x <= u) /\ u + x - u = x
              <8> HIDE DEF u, v
              <8> QED
                BY <7>3
            <7> QED
              BY <3>1, <7>1, <7>2, ConcatProperties
          <6> QED
            BY <4>1, <6>1, <6>2
        <5>2. CASE i # n + 1
          <6>1. i \in 1..n /\ F[n][g[i - 1] + x] = s[i][x] /\ i \in 1..Len(s)
                /\ i \in 0..Len(s) /\ i - 1 \in 0..Len(s) /\ i <= n /\ n \in 0..Len(s)
            <7>1. i \in 1..n /\ n \in 0..Len(s)
              BY <1>1, <3>1, <5>2
            <7>2. F[n][g[i - 1] + x] = s[i][x]
              BY <4>1, <7>1
            <7> HIDE DEF Good
            <7> QED
              BY <1>1, <7>1, <7>2
          <6>2. g[i] = g[i - 1] + Len(s[i]) /\ g[i - 1] \in Nat /\ g[i] \in Nat /\ g[n] \in Nat
            BY <1>2, <6>1
          <6>3. g[i] <= g[n]
            <7>1. [j \in 1..Len(s) |-> Len(s[j])] \in [1..Len(s) -> Nat]
              BY <1>1
            <7> QED
              BY <1>1, <6>1, <7>1, SumsGrow
          <6>4. g[i - 1] + x \in 1..Len(F[n])
            <7>1. Len(F[n]) = g[n]
              BY <4>1
            <7> HIDE DEF Good
            <7>2. Len(s[i]) \in Nat
              BY <1>1, <6>1
            <7> DEFINE v == Len(s[i])
                       a == g[i - 1]
                       u == Len(F[n])
            <7>3. v \in Nat /\ a \in Nat /\ u \in Nat /\ a + v <= u /\ x \in 1..v
              BY <6>2, <6>3, <7>1, <7>2
            <7> HIDE DEF a, u, v
            <7>4. a + x \in 1..u
              BY <7>3
            <7> QED
              BY <7>4 DEF a, u
          <6>5. (F[n] \o s[n + 1])[g[i - 1] + x] = F[n][g[i - 1] + x]
            <7>1. F[n] \in Seq(T)
              BY <4>1
            <7> HIDE DEF Good
            <7> DEFINE u == Len(F[n])
                       v == Len(s[n + 1])
                       y == g[i - 1] + x
            <7>2. u \in Nat /\ v \in Nat /\ y \in 1..u
              BY <3>1, <6>4, <7>1, LenProperties
            <7>3. y \in 1..(u + v) /\ y <= u
              <8> HIDE DEF u, v, y
              <8> QED
                BY <7>2
            <7>4. (F[n] \o s[n + 1])[y] = IF y <= u THEN F[n][y] ELSE s[n + 1][y - u]
              <8> HIDE DEF y
              <8> QED
                BY <3>1, <7>1, <7>3, ConcatProperties
            <7> QED
              BY <7>3, <7>4
          <6> QED
            BY <4>1, <6>1, <6>5
        <5> QED
          BY <5>1, <5>2
      <4> QED
        BY <3>1, <4>2, <4>3
    <3> QED
      BY <3>2, <3>3
  <2>9. Good(N)
    <3>1. N \in Nat
      BY <1>1
    <3>2. N # 0
      BY <1>4
    <3>3. 0..N \subseteq W
      <4> HIDE DEF W, N
      <4> QED
        BY <2>7, <2>8, <3>1, Upwards
    <3>4. N \in W
      <4> HIDE DEF W, N
      <4> QED
        BY <3>1, <3>3
    <3> QED
      <4> HIDE DEF Good, N
      <4> QED
        BY <3>2, <3>4
  <2> QED
    BY <2>5, <2>9
<1> QED
  BY <1>3, <1>4

\* Addresses the decoder can come across.
Addresses == Installed \cup {LowBytes[s] : s \in Senders}

\* What the list of units has for a unit of the memory.
UnitOf(j) == <<DeviceType[memory[j].ref], memory[j].ref>>

\* The registry, once the first k chunks were heard: units of the memory, each at
\* the place in the flat map where its outputs are counted from; those with
\* outputs all of them; and a chunk mistaken for a unit only behind them.
Fits(n, p, g, k) ==
    LET before == OutputsTo(memory) IN
      /\ g[0] = 0 /\ g[n] = before[k]
      /\ \A i \in 1..n : /\ registry[i] = UnitOf(p[i]) /\ p[i] \in Listed(memory)
                         /\ g[i - 1] = before[p[i] - 1] /\ g[i] = before[p[i]]
      /\ \A j \in 1..k : OutputsOf(memory[j]) > 0 => \E i \in 1..n : p[i] = j
      /\ n = Len(registry) \/ \A j \in k..Len(memory) : j \notin Listed(memory)
MapOK(k) ==
    \E n \in 0..Len(registry) : \E p \in [1..n -> 1..k] : \E g \in [0..n -> Nat] :
      Fits(n, p, g, k)

CopiesType ==
    /\ MemoryOK(memory) /\ cursor \in 0..(Len(memory) + 1)
    /\ registry \in Seq((0..255) \X Addresses)
    /\ \A i, j \in DOMAIN registry : registry[i][2] = registry[j][2] => i = j
    /\ known \subseteq Installed /\ sized \subseteq Installed

CopiesInv ==
    /\ CopiesType /\ CopiesTrue
    /\ cursor > 0 /\ ~unlisted => MapOK(cursor - 1)

\* A unit of the memory has a record, its own type and, if it has outputs, a
\* device type with as many; no other chunk has outputs.
LEMMA ListedFacts ==
    ASSUME NEW m, MemoryOK(m), NEW i \in DOMAIN m
    PROVE  /\ m[i] \in Chunk /\ OutputsOf(m[i]) \in Nat
           /\ i \in Listed(m) => /\ ~Dropped(m[i]) /\ m[i].b4 = DeviceType[m[i].ref]
                                 /\ m[i].ref \in Installed /\ m[i].b4 \in ModuleTypes
                                 /\ AddressIn(m[i]) = m[i].ref /\ m[i].ref \notin Senders
           /\ i \in Listed(m) /\ m[i].b4 \in OutputBearing
                => OutputsOf(m[i]) = Channels[m[i].b4]
           /\ OutputsOf(m[i]) > 0 => i \in Listed(m) /\ m[i].b4 \in OutputBearing
<1>1. m[i] \in Chunk
  BY DEF MemoryOK
<1>2. OutputsOf(m[i]) \in Nat
  BY OutputsCounted
<1>3. ASSUME i \in Listed(m)
      PROVE  /\ ~Dropped(m[i]) /\ m[i].b4 = DeviceType[m[i].ref]
             /\ m[i].ref \in Installed /\ m[i].b4 \in ModuleTypes
             /\ AddressIn(m[i]) = m[i].ref /\ m[i].ref \notin Senders
  <2>1. m[i].shape = "record" /\ m[i].b4 = DeviceType[m[i].ref]
    BY <1>3 DEF MemoryOK
  <2>2. m[i].ref \in Installed
    BY <1>3 DEF Listed
  <2>3. m[i].ref \notin Senders /\ DeviceType[m[i].ref] \in ModuleTypes
    BY <2>2, CopiesAssumption
  <2> QED
    BY <2>1, <2>2, <2>3 DEF Dropped, AddressIn
<1>4. i \in Listed(m) /\ m[i].b4 \in OutputBearing => OutputsOf(m[i]) = Channels[m[i].b4]
  BY DEF OutputsOf, Listed
<1>5. OutputsOf(m[i]) > 0 => i \in Listed(m) /\ m[i].b4 \in OutputBearing
  BY DEF OutputsOf, Listed
<1> QED
  BY <1>1, <1>2, <1>3, <1>4, <1>5

\* A link record of the memory is behind the list of units.
LEMMA LinksBehind ==
    ASSUME NEW m, MemoryOK(m), NEW i \in DOMAIN m, i \notin Listed(m), ~Dropped(m[i])
    PROVE  \A j \in i..Len(m) : j \notin Listed(m)
BY DEF MemoryOK, Listed

\* What a unit takes in the flat map.
LEMMA SizeType ==
    ASSUME CopiesType, NEW u \in (0..255) \X Addresses
    PROVE  /\ Size(u) \in Nat
           /\ u[2] \in Installed /\ u[1] = DeviceType[u[2]]
                => Size(u) = IF u[1] \in OutputBearing THEN Channels[u[1]] ELSE 0
<1>1. OutputBearing \subseteq ModuleTypes
  BY DEF OutputBearing, ModuleTypes
<1>2. u[2] \in sized => DeviceType[u[2]] \in ModuleTypes
  BY CopiesAssumption DEF CopiesType
<1>3. CASE u[1] \notin OutputBearing
  BY <1>3 DEF Size
<1>4. CASE u[1] \in OutputBearing /\ u[2] \in sized
  <2>1. Size(u) = Channels[DeviceType[u[2]]]
    BY <1>4 DEF Size
  <2> QED
    BY <1>2, <1>4, <2>1, CopiesAssumption
<1>5. CASE u[1] \in OutputBearing /\ u[2] \notin sized
  <2>1. Size(u) = Channels[u[1]]
    BY <1>5 DEF Size
  <2> QED
    BY <1>1, <1>5, <2>1, CopiesAssumption
<1> QED
  BY <1>3, <1>4, <1>5

\* The flat map has the outputs of each unit of the registry where they are counted from.
LEMMA MapPlaces ==
    ASSUME CopiesType
    PROVE  LET flat == FlatMap(registry)
               z == [i \in 1..Len(registry) |-> Size(registry[i])] IN
           \E g : /\ Sums(g, z, Len(registry)) /\ z \in [1..Len(registry) -> Nat]
                  /\ DOMAIN flat = 1..g[Len(registry)]
                  /\ \A i \in 1..Len(registry) : \A x \in 1..Size(registry[i]) :
                       flat[g[i - 1] + x] = <<registry[i][2], x>>
<1> DEFINE N == Len(registry)
           z == [i \in 1..N |-> Size(registry[i])]
           Own(i) == [x \in 1..Size(registry[i]) |-> <<registry[i][2], x>>]
           s == [i \in 1..N |-> Own(i)]
           T == Addresses \X Nat
<1>1. N \in Nat /\ \A i \in 1..N : registry[i] \in (0..255) \X Addresses
  BY DEF CopiesType
<1>2. \A i \in 1..N : Size(registry[i]) \in Nat /\ registry[i][2] \in Addresses
  BY <1>1, SizeType
<1>3. z \in [1..N -> Nat]
  BY <1>2
<1>4. PICK g : Sums(g, z, N)
  <2> HIDE DEF z, N
  <2> QED
    BY <1>1, <1>3, SumsExist
<1>5. \A i \in 1..N : Own(i) \in Seq(T) /\ Len(Own(i)) = Size(registry[i])
  <2> TAKE i \in 1..N
  <2> DEFINE a == registry[i][2]
             d == Size(registry[i])
  <2>1. a \in Addresses /\ d \in Nat
    BY <1>2
  <2> HIDE DEF a, d
  <2>2. [x \in 1..d |-> <<a, x>>] \in [1..d -> T]
    BY <2>1
  <2>3. [x \in 1..d |-> <<a, x>>] \in Seq(T) /\ Len([x \in 1..d |-> <<a, x>>]) = d
    BY <2>1, <2>2
  <2> QED
    BY <2>3 DEF a, d
<1>6. s \in Seq(Seq(T)) /\ Len(s) = N
  <2> HIDE DEF Own, N, T
  <2>1. s \in [1..N -> Seq(T)]
    BY <1>5
  <2> QED
    BY <1>1, <2>1
<1>7. [i \in 1..Len(s) |-> Len(s[i])] = z
  <2>1. \A i \in 1..N : Len(s[i]) = z[i]
    <3> HIDE DEF Own
    <3> QED
      BY <1>5
  <2> HIDE DEF s, z
  <2>2. z = [i \in 1..N |-> z[i]]
    BY DEF z
  <2> QED
    BY <1>6, <2>1, <2>2
<1>8. FlatMap(registry) = Seqs!FlattenSeq(s)
  BY DEF FlatMap
<1>9. /\ Seqs!FlattenSeq(s) \in Seq(T) /\ Len(Seqs!FlattenSeq(s)) = g[N]
      /\ \A i \in 1..N : \A x \in 1..Len(s[i]) : Seqs!FlattenSeq(s)[g[i - 1] + x] = s[i][x]
  <2> HIDE DEF s, z, T, N
  <2>1. Sums(g, [i \in 1..Len(s) |-> Len(s[i])], Len(s))
    BY <1>4, <1>6, <1>7
  <2>2. \A q : q \in Seq(Seq(T)) /\ Sums(g, [i \in 1..Len(q) |-> Len(q[i])], Len(q))
          => /\ Seqs!FlattenSeq(q) \in Seq(T) /\ Len(Seqs!FlattenSeq(q)) = g[Len(q)]
             /\ \A i \in 1..Len(q) : \A x \in 1..Len(q[i]) :
                  Seqs!FlattenSeq(q)[g[i - 1] + x] = q[i][x]
    BY FlatPlaces
  <2>3. s \in Seq(Seq(T))
    BY <1>6
  <2>4. /\ Seqs!FlattenSeq(s) \in Seq(T) /\ Len(Seqs!FlattenSeq(s)) = g[Len(s)]
        /\ \A i \in 1..Len(s) : \A x \in 1..Len(s[i]) :
             Seqs!FlattenSeq(s)[g[i - 1] + x] = s[i][x]
    BY <2>1, <2>2, <2>3, Zenon
  <2>5. Len(s) = N
    BY <1>6
  <2> QED
    BY <2>4, <2>5, Zenon
<1>10. \A i \in 1..N : \A x \in 1..Size(registry[i]) :
          FlatMap(registry)[g[i - 1] + x] = <<registry[i][2], x>>
  <2> TAKE i \in 1..N
  <2> TAKE x \in 1..Size(registry[i])
  <2>1. s[i] = Own(i)
    <3> HIDE DEF Own
    <3> QED
      OBVIOUS
  <2>2. Own(i)[x] = <<registry[i][2], x>>
    OBVIOUS
  <2>3. x \in 1..Len(s[i])
    <3> HIDE DEF Own, s
    <3> QED
      BY <1>5, <2>1
  <2> HIDE DEF s, Own
  <2> QED
    BY <1>8, <1>9, <2>1, <2>2, <2>3
<1>11. DOMAIN FlatMap(registry) = 1..g[N]
  <2> HIDE DEF s, T, N
  <2> QED
    BY <1>8, <1>9
<1> HIDE DEF s, Own, T
<1> QED
  BY <1>3, <1>4, <1>10, <1>11

\* Sums stay where nothing is added.
LEMMA SumsStay ==
    ASSUME NEW N \in Nat, NEW z \in [1..N -> Nat], NEW g, Sums(g, z, N), NEW k \in 0..N,
           \A i \in (k + 1)..N : z[i] = 0
    PROVE  g[N] = g[k]
<1> DEFINE T == {d \in Nat : k + d <= N => g[k + d] = g[k]}
<1>1. 0 \in T
  OBVIOUS
<1>2. ASSUME NEW d \in 0..(N - 1), d \in T PROVE d + 1 \in T
  <2> SUFFICES ASSUME k + (d + 1) <= N PROVE g[k + (d + 1)] = g[k]
    OBVIOUS
  <2>1. k + d \in 0..N /\ k + (d + 1) \in 1..N /\ (k + (d + 1)) - 1 = k + d
        /\ k + (d + 1) \in (k + 1)..N
    OBVIOUS
  <2>2. g[k + (d + 1)] = g[k + d] + z[k + (d + 1)] /\ z[k + (d + 1)] = 0 /\ g[k + d] \in Nat
    BY <2>1 DEF Sums
  <2> QED
    BY <1>2, <2>2
<1>3. 0..N \subseteq T
  <2> HIDE DEF T
  <2> QED
    BY <1>1, <1>2, Upwards
<1>4. N - k \in 0..N /\ k + (N - k) = N
  OBVIOUS
<1> QED
  BY <1>3, <1>4

\* While every unit of the memory was heard that has outputs, an index that means
\* an output reaches it, and one that means none no output of the memory.
LEMMA LinkReaches ==
    ASSUME CopiesType, NEW k \in 0..Len(memory), MapOK(k),
           \A j \in (k + 1)..Len(memory) : j \notin Listed(memory), NEW index \in Nat
    PROVE  /\ \A t \in Means(index) :
                /\ Target(registry, index) = {t}
                /\ DeviceType[t[1]] \in TypeOf(registry, t[1]) \cap OutputBearing
           /\ Means(index) = {} =>
                \A t \in Target(registry, index) : \A i \in DOMAIN memory :
                  memory[i].ref = t[1] => OutputsOf(memory[i]) = 0
<1> DEFINE before == OutputsTo(memory)
           N == Len(memory)
           M == Len(registry)
           flat == FlatMap(registry)
           zm == [i \in 1..N |-> OutputsOf(memory[i])]
           zr == [i \in 1..M |-> Size(registry[i])]
<1>1. /\ MemoryOK(memory) /\ N \in Nat /\ DOMAIN memory = 1..N
      /\ M \in Nat /\ DOMAIN registry = 1..M
      /\ \A i \in 1..M : registry[i] \in (0..255) \X Addresses
      /\ \A i, j \in 1..M : registry[i][2] = registry[j][2] => i = j
  BY DEF CopiesType, MemoryOK
<1>2. /\ Sums(before, zm, N) /\ zm \in [1..N -> Nat]
      /\ \A i \in 1..N : zm[i] = OutputsOf(memory[i])
  <2>1. Counted(memory) /\ \A i \in 1..N : OutputsOf(memory[i]) \in Nat
    BY <1>1, OutputsCounted
  <2> QED
    BY <2>1 DEF Counted
<1>3. PICK G : /\ Sums(G, zr, M) /\ zr \in [1..M -> Nat]
               /\ DOMAIN flat = 1..G[M]
               /\ \A i \in 1..M : \A x \in 1..Size(registry[i]) :
                    flat[G[i - 1] + x] = <<registry[i][2], x>>
  BY MapPlaces
<1>4. \A i \in 1..M : zr[i] = Size(registry[i])
  OBVIOUS
<1>14. PICK n \in 0..M : \E p \in [1..n -> 1..k] : \E g \in [0..n -> Nat] : Fits(n, p, g, k)
  BY Zenon DEF MapOK
<1>5. PICK p \in [1..n -> 1..k], g \in [0..n -> Nat] : Fits(n, p, g, k)
  BY <1>14, Zenon
<1>13. /\ g[0] = 0 /\ g[n] = before[k]
       /\ \A i \in 1..n : /\ registry[i] = UnitOf(p[i]) /\ p[i] \in Listed(memory)
                          /\ g[i - 1] = before[p[i] - 1] /\ g[i] = before[p[i]]
       /\ \A j \in 1..k : OutputsOf(memory[j]) > 0 => \E i \in 1..n : p[i] = j
  BY <1>5 DEF Fits
<1> HIDE DEF before, N, M, flat, zm, zr
<1>6. k \in Nat /\ k <= N /\ n \in Nat /\ n <= M /\ N \in Nat /\ M \in Nat
  BY <1>1 DEF N
<1>7. \A j \in 1..N : OutputsOf(memory[j]) > 0 =>
         j \in Listed(memory) /\ j <= k /\ memory[j].b4 \in OutputBearing
  <2> SUFFICES ASSUME NEW j \in 1..N, OutputsOf(memory[j]) > 0
               PROVE  j \in Listed(memory) /\ j <= k /\ memory[j].b4 \in OutputBearing
    OBVIOUS
  <2>1. j \in Listed(memory) /\ memory[j].b4 \in OutputBearing
    BY <1>1, ListedFacts
  <2>2. ~(j \in (k + 1)..N)
    BY <2>1 DEF N
  <2> QED
    BY <1>1, <1>6, <2>1, <2>2
<1>8. before[N] = before[k]
  <2>1. \A i \in (k + 1)..N : zm[i] = 0
    <3> TAKE i \in (k + 1)..N
    <3>1. i \in 1..N /\ ~(i <= k)
      BY <1>1, <1>6
    <3>2. zm[i] \in Nat /\ ~(zm[i] > 0)
      BY <1>2, <1>7, <3>1
    <3> QED
      BY <3>2
  <2>2. k \in 0..N
    BY <1>1, <1>6
  <2> QED
    <3>1. \A z \in [1..N -> Nat] : \A h :
             Sums(h, z, N) /\ (\A i \in (k + 1)..N : z[i] = 0) => h[N] = h[k]
      BY <1>6, <2>2, SumsStay
    <3> QED
      BY <1>2, <2>1, <3>1
<1>9. \A i \in 1..n : /\ Size(registry[i]) = OutputsOf(memory[p[i]])
                      /\ registry[i][2] = memory[p[i]].ref /\ p[i] \in 1..N
                      /\ registry[i][1] = DeviceType[memory[p[i]].ref]
  <2> TAKE i \in 1..n
  <2>1. i \in 1..M /\ registry[i] \in (0..255) \X Addresses
    BY <1>1, <1>6
  <2>2. registry[i] = UnitOf(p[i]) /\ p[i] \in Listed(memory) /\ p[i] \in 1..N
    BY <1>1, <1>13, <1>6
  <2>3. registry[i][1] = DeviceType[memory[p[i]].ref] /\ registry[i][2] = memory[p[i]].ref
    BY <2>2 DEF UnitOf
  <2>4. /\ memory[p[i]].b4 = DeviceType[memory[p[i]].ref] /\ memory[p[i]].ref \in Installed
    BY <1>1, <2>2, ListedFacts
  <2>5. Size(registry[i]) = IF registry[i][1] \in OutputBearing
                            THEN Channels[registry[i][1]] ELSE 0
    BY <2>1, <2>3, <2>4, SizeType
  <2>6. OutputsOf(memory[p[i]]) = IF memory[p[i]].b4 \in OutputBearing
                                  THEN Channels[memory[p[i]].b4] ELSE 0
    BY <2>4 DEF OutputsOf
  <2> QED
    BY <2>2, <2>3, <2>4, <2>5, <2>6
<1>10. \A i \in 0..n : G[i] = g[i]
  <2> DEFINE T == {i \in 0..n : G[i] = g[i]}
  <2>1. 0 \in T
    BY <1>3, <1>13, <1>6 DEF Sums
  <2>2. ASSUME NEW i \in 0..(n - 1), i \in T PROVE i + 1 \in T
    <3>1. i + 1 \in 1..n /\ (i + 1) - 1 = i /\ i + 1 \in 1..M /\ i + 1 \in 0..n
      BY <1>6
    <3>2. G[i + 1] = G[i] + Size(registry[i + 1])
      BY <1>3, <1>4, <3>1 DEF Sums
    <3>3. g[i] = before[p[i + 1] - 1] /\ g[i + 1] = before[p[i + 1]] /\ p[i + 1] \in 1..N
      BY <1>13, <1>9, <3>1
    <3>4. before[p[i + 1]] = before[p[i + 1] - 1] + OutputsOf(memory[p[i + 1]])
      BY <1>2, <3>3 DEF Sums
    <3>5. Size(registry[i + 1]) = OutputsOf(memory[p[i + 1]])
      BY <1>9, <3>1
    <3> QED
      BY <2>2, <3>1, <3>2, <3>3, <3>4, <3>5
  <2>3. 0..n \subseteq T
    <3> HIDE DEF T
    <3> QED
      BY <1>6, <2>1, <2>2, Upwards
  <2> QED
    BY <2>3
<1>11. ASSUME NEW t \in Means(index)
       PROVE  /\ Target(registry, index) = {t}
              /\ DeviceType[t[1]] \in TypeOf(registry, t[1]) \cap OutputBearing
  <2>1. PICK j \in 1..N : /\ before[j - 1] <= index /\ index < before[j]
                          /\ t = <<memory[j].ref, index - before[j - 1] + 1>>
    BY <1>1 DEF Means, before
  <2>2. /\ before[j] = before[j - 1] + OutputsOf(memory[j])
        /\ before[j - 1] \in Nat /\ before[j] \in Nat /\ OutputsOf(memory[j]) \in Nat
    <3>1. j \in 0..N /\ j - 1 \in 0..N
      BY <1>1
    <3> QED
      BY <1>2, <3>1 DEF Sums
  <2>3. OutputsOf(memory[j]) > 0
    BY <2>1, <2>2
  <2>4. j \in Listed(memory) /\ j \in 1..k /\ memory[j].b4 \in OutputBearing
    BY <1>6, <1>7, <2>3
  <2>5. PICK i \in 1..n : p[i] = j
    BY <1>13, <2>3, <2>4
  <2> DEFINE x == index - before[j - 1] + 1
  <2>6. /\ G[i - 1] = before[j - 1] /\ G[i] = before[j] /\ i \in 1..M
        /\ x \in 1..Size(registry[i]) /\ G[i - 1] + x = index + 1
    <3>1. i \in 0..n /\ i - 1 \in 0..n /\ i \in 1..M
      BY <1>6
    <3>2. G[i - 1] = g[i - 1] /\ G[i] = g[i]
      BY <1>10, <3>1
    <3>3. g[i - 1] = before[j - 1] /\ g[i] = before[j]
      BY <1>13, <2>5
    <3>4. Size(registry[i]) = OutputsOf(memory[j])
      BY <1>9, <2>5
    <3> DEFINE u == before[j - 1]
               v == OutputsOf(memory[j])
    <3>5. u \in Nat /\ v \in Nat /\ u <= index /\ index < u + v
      BY <2>1, <2>2
    <3>6. index - u + 1 \in 1..v /\ u + (index - u + 1) = index + 1
      <4> HIDE DEF u, v
      <4> QED
        BY <3>5
    <3> QED
      BY <3>1, <3>2, <3>3, <3>4, <3>6
  <2>7. flat[index + 1] = t
    <3>1. flat[G[i - 1] + x] = <<registry[i][2], x>>
      <4> HIDE DEF x
      <4> QED
        BY <1>3, <2>6
    <3>2. registry[i][2] = memory[j].ref
      BY <1>9, <2>5
    <3> QED
      BY <2>1, <2>6, <3>1, <3>2
  <2>8. index + 1 \in DOMAIN flat
    <3>1. i \in 0..M /\ M \in 0..M /\ i <= M
      BY <1>1, <2>6
    <3>2. G[i] <= G[M] /\ G[M] \in Nat
      <4>1. G[i] <= G[M]
        BY <1>1, <1>3, <3>1, SumsGrow
      <4> QED
        BY <1>3, <3>1, <4>1 DEF Sums
    <3>3. index < G[M]
      <4>1. index < G[i] /\ G[i] \in Nat
        <5> HIDE DEF x
        <5> QED
          BY <2>1, <2>2, <2>6
      <4> QED
        BY <3>2, <4>1
    <3> QED
      BY <1>3, <3>2, <3>3
  <2>9. Target(registry, index) = {t}
    BY <2>7, <2>8 DEF Target, flat
  <2>10. DeviceType[t[1]] \in TypeOf(registry, t[1]) \cap OutputBearing
    <3>1. t[1] = memory[j].ref /\ registry[i][2] = t[1] /\ registry[i][1] = DeviceType[t[1]]
      BY <1>9, <2>1, <2>5
    <3>2. DeviceType[t[1]] \in OutputBearing
      <4>1. memory[j].b4 = DeviceType[memory[j].ref]
        BY <1>1, <2>4, ListedFacts
      <4> QED
        BY <2>4, <3>1, <4>1
    <3>3. i \in DOMAIN registry
      BY <1>1, <2>6
    <3> QED
      BY <3>1, <3>2, <3>3 DEF TypeOf
  <2> QED
    BY <2>9, <2>10
<1>12. ASSUME Means(index) = {}, NEW t \in Target(registry, index), NEW j \in DOMAIN memory,
              memory[j].ref = t[1]
       PROVE  OutputsOf(memory[j]) = 0
  <2> SUFFICES ASSUME OutputsOf(memory[j]) # 0 PROVE FALSE
    OBVIOUS
  <2>1. j \in 1..N /\ OutputsOf(memory[j]) \in Nat
    BY <1>1, OutputsCounted
  <2>2. j \in Listed(memory) /\ j \in 1..k
    BY <1>6, <1>7, <2>1
  <2>3. PICK i \in 1..n : p[i] = j
    BY <1>13, <2>1, <2>2
  <2>4. ~(index < before[N])
    <3> SUFFICES ASSUME index < before[N] PROVE FALSE
      OBVIOUS
    <3>1. PICK q \in 1..N : before[q - 1] <= index /\ index < before[q]
      BY <1>1, <1>2, SumsCover
    <3>2. <<memory[q].ref, index - before[q - 1] + 1>> \in Means(index)
      BY <1>1, <3>1 DEF Means, before
    <3> QED
      BY <1>12, <3>2
  <2>5. index + 1 \in 1..G[M] /\ t = flat[index + 1]
    BY <1>3 DEF Target, flat
  <2>6. G[M] \in Nat /\ G[n] \in Nat /\ G[n] = before[N]
    <3>1. n \in 0..n /\ M \in 0..M /\ n \in 0..M
      BY <1>1, <1>6
    <3>2. G[n] = before[N]
      BY <1>13, <1>8, <1>10, <3>1
    <3>3. G \in [0..M -> Nat]
      BY <1>3 DEF Sums
    <3>4. G[M] \in Nat /\ G[n] \in Nat
      BY <3>1, <3>3
    <3> QED
      BY <3>2, <3>4
  <2>7. PICK q \in 1..M : G[q - 1] <= index /\ index < G[q]
    <3>1. index < G[M]
      BY <2>5, <2>6
    <3> QED
      BY <1>1, <1>3, <3>1, SumsCover
  <2>8. G[q] = G[q - 1] + Size(registry[q]) /\ G[q - 1] \in Nat /\ Size(registry[q]) \in Nat
    <3>1. q \in 0..M /\ q - 1 \in 0..M
      BY <1>1
    <3>2. G \in [0..M -> Nat]
      BY <1>3 DEF Sums
    <3>3. G[q - 1] \in Nat
      BY <3>1, <3>2
    <3>4. G[q] = G[q - 1] + zr[q]
      BY <1>3 DEF Sums
    <3>5. zr[q] = Size(registry[q]) /\ zr[q] \in Nat
      BY <1>3, <1>4
    <3> QED
      BY <3>3, <3>4, <3>5
  <2>9. t[1] = registry[q][2]
    <3> DEFINE x == index - G[q - 1] + 1
    <3>1. x \in 1..Size(registry[q]) /\ G[q - 1] + x = index + 1
      <4> DEFINE u == G[q - 1]
                 v == Size(registry[q])
      <4>1. u \in Nat /\ v \in Nat /\ u <= index /\ index < u + v
        BY <2>7, <2>8
      <4>2. index - u + 1 \in 1..v /\ u + (index - u + 1) = index + 1
        <5> HIDE DEF u, v
        <5> QED
          BY <4>1
      <4> QED
        BY <4>2
    <3> HIDE DEF x
    <3>2. flat[G[q - 1] + x] = <<registry[q][2], x>>
      BY <1>3, <3>1
    <3> QED
      BY <2>5, <3>1, <3>2
  <2>10. ~(q <= n)
    <3> SUFFICES ASSUME q <= n PROVE FALSE
      OBVIOUS
    <3>1. q \in 0..M /\ n \in 0..M
      BY <1>1, <1>6
    <3>2. G[q] <= G[n] /\ before[N] \in Nat
      BY <1>1, <1>3, <2>6, <3>1, SumsGrow
    <3>3. G[q] \in Nat
      BY <2>8
    <3> QED
      BY <2>4, <2>6, <2>7, <3>2, <3>3
  <2>11. registry[i][2] = memory[j].ref /\ i \in 1..M /\ i <= n
    <3>1. i \in 1..M /\ i <= n
      BY <1>6
    <3> QED
      BY <1>9, <2>3, <3>1
  <2>12. i = q
    BY <1>1, <1>12, <2>9, <2>11
  <2> QED
    BY <2>10, <2>11, <2>12
<1> QED
  BY <1>11, <1>12

\* The outputs counted up to a chunk are those before it and its own.
LEMMA CountedNext ==
    ASSUME CopiesType, NEW k \in 1..Len(memory)
    PROVE  /\ OutputsTo(memory)[k] = OutputsTo(memory)[k - 1] + OutputsOf(memory[k])
           /\ OutputsTo(memory)[k] \in Nat /\ OutputsTo(memory)[k - 1] \in Nat
           /\ OutputsOf(memory[k]) \in Nat /\ OutputsTo(memory)[0] = 0
<1>1. /\ Counted(memory) /\ Len(memory) \in Nat /\ k \in DOMAIN memory
      /\ OutputsOf(memory[k]) \in Nat
  BY OutputsCounted DEF CopiesType, MemoryOK
<1>2. k \in 0..Len(memory) /\ k - 1 \in 0..Len(memory)
  BY <1>1
<1> QED
  BY <1>1, <1>2 DEF Counted, Sums

\* A chunk without outputs changes nothing in the flat map's beginning.
LEMMA MapStays ==
    ASSUME CopiesType, NEW k \in 0..Len(memory), MapOK(k), NEW q \in {k, k + 1} \cap DOMAIN memory,
           memory' = memory, q = k \/ OutputsOf(memory[q]) = 0,
           \/ registry' = registry
           \/ /\ \E u \in (0..255) \X Addresses : registry' = Append(registry, u)
              /\ \A j \in q..Len(memory) : j \notin Listed(memory)
    PROVE  MapOK(q)'
<1>1. /\ Len(memory) \in Nat /\ DOMAIN memory = 1..Len(memory) /\ q \in 1..Len(memory)
      /\ k \in Nat /\ Len(registry) \in Nat
  BY DEF CopiesType, MemoryOK
<1>2. PICK n \in 0..Len(registry) :
        \E p \in [1..n -> 1..k] : \E g \in [0..n -> Nat] : Fits(n, p, g, k)
  BY Zenon DEF MapOK
<1>3. PICK p \in [1..n -> 1..k], g \in [0..n -> Nat] : Fits(n, p, g, k)
  BY <1>2, Zenon
<1> DEFINE before == OutputsTo(memory)
<1>4. /\ g[0] = 0 /\ g[n] = before[k]
      /\ \A i \in 1..n : /\ registry[i] = UnitOf(p[i]) /\ p[i] \in Listed(memory)
                         /\ g[i - 1] = before[p[i] - 1] /\ g[i] = before[p[i]]
      /\ \A j \in 1..k : OutputsOf(memory[j]) > 0 => \E i \in 1..n : p[i] = j
      /\ n = Len(registry) \/ \A j \in k..Len(memory) : j \notin Listed(memory)
  BY <1>3 DEF Fits
<1>5. before[q] = before[k] /\ k <= q
  <2>1. CASE q = k
    BY <1>1, <2>1
  <2>2. CASE q = k + 1 /\ q # k
    <3>1. /\ before[q] = before[q - 1] + OutputsOf(memory[q]) /\ before[q - 1] \in Nat
      BY <1>1, CountedNext
    <3>2. OutputsOf(memory[q]) = 0 /\ q - 1 = k
      BY <1>1, <2>2
    <3> QED
      BY <1>1, <2>2, <3>1, <3>2
  <2> QED
    BY <2>1, <2>2
<1> HIDE DEF before
<1>6. p \in [1..n -> 1..q]
  BY <1>1, <1>5
<1>7. \A j \in 1..q : OutputsOf(memory[j]) > 0 => \E i \in 1..n : p[i] = j
  <2> TAKE j \in 1..q
  <2> HAVE OutputsOf(memory[j]) > 0
  <2>1. j \in 1..k
    BY <1>1
  <2> QED
    BY <1>4, <2>1
<1>8. /\ n \in 0..Len(registry') /\ \A i \in 1..n : registry'[i] = registry[i]
      /\ n = Len(registry') \/ \A j \in q..Len(memory) : j \notin Listed(memory)
  <2>1. CASE registry' = registry
    <3>1. \A j \in q..Len(memory) : j \in k..Len(memory)
      BY <1>1, <1>5
    <3> QED
      BY <1>4, <2>1, <3>1
  <2>2. CASE /\ \E u \in (0..255) \X Addresses : registry' = Append(registry, u)
             /\ \A j \in q..Len(memory) : j \notin Listed(memory)
    <3>1. PICK u \in (0..255) \X Addresses : registry' = Append(registry, u)
      BY <2>2
    <3>2. registry \in Seq((0..255) \X Addresses)
      BY DEF CopiesType
    <3>3. Len(registry') = Len(registry) + 1 /\ \A i \in 1..Len(registry) : registry'[i] = registry[i]
      BY <3>1, <3>2
    <3>4. n \in 0..Len(registry') /\ \A i \in 1..n : i \in 1..Len(registry)
      BY <1>1, <3>3
    <3> QED
      BY <2>2, <3>3, <3>4
  <2> QED
    BY <2>1, <2>2
<1>9. Fits(n, p, g, q)'
  <2>1. \A i \in 1..n : /\ registry'[i] = UnitOf(p[i])' /\ p[i] \in Listed(memory')
                        /\ g[i - 1] = OutputsTo(memory')[p[i] - 1]
                        /\ g[i] = OutputsTo(memory')[p[i]]
    BY <1>4, <1>8 DEF UnitOf, before
  <2>2. g[0] = 0 /\ g[n] = OutputsTo(memory')[q]
    BY <1>4, <1>5 DEF before
  <2> QED
    BY <1>7, <1>8, <2>1, <2>2 DEF Fits
<1> QED
  BY <1>6, <1>8, <1>9, Zenon DEF MapOK

\* A unit heard for the first time goes behind those before it.
LEMMA MapAdds ==
    ASSUME CopiesType, NEW k \in 0..Len(memory), MapOK(k), NEW q \in {k, k + 1} \cap Listed(memory),
           memory' = memory, registry' = Append(registry, UnitOf(q)),
           \A i \in DOMAIN registry : registry[i][2] # memory[q].ref
    PROVE  MapOK(q)'
<1>1. /\ Len(memory) \in Nat /\ DOMAIN memory = 1..Len(memory) /\ q \in 1..Len(memory)
      /\ k \in Nat /\ Len(registry) \in Nat /\ DOMAIN registry = 1..Len(registry)
      /\ registry \in Seq((0..255) \X Addresses)
      /\ q \in Listed(memory) /\ q \in k..Len(memory)
  BY DEF CopiesType, MemoryOK, Listed
<1>2. PICK n \in 0..Len(registry) :
        \E p \in [1..n -> 1..k] : \E g \in [0..n -> Nat] : Fits(n, p, g, k)
  BY Zenon DEF MapOK
<1>3. PICK p \in [1..n -> 1..k], g \in [0..n -> Nat] : Fits(n, p, g, k)
  BY <1>2, Zenon
<1> DEFINE before == OutputsTo(memory)
           pn == [i \in 1..(n + 1) |-> IF i = n + 1 THEN q ELSE p[i]]
           gn == [i \in 0..(n + 1) |-> IF i = n + 1 THEN before[q] ELSE g[i]]
<1>4. /\ g[0] = 0 /\ g[n] = before[k]
      /\ \A i \in 1..n : /\ registry[i] = UnitOf(p[i]) /\ p[i] \in Listed(memory)
                         /\ g[i - 1] = before[p[i] - 1] /\ g[i] = before[p[i]]
      /\ \A j \in 1..k : OutputsOf(memory[j]) > 0 => \E i \in 1..n : p[i] = j
      /\ n = Len(registry) \/ \A j \in k..Len(memory) : j \notin Listed(memory)
  BY <1>3 DEF Fits
<1>5. n = Len(registry)
  BY <1>1, <1>4
<1>6. q = k => OutputsOf(memory[k]) = 0
  <2> SUFFICES ASSUME q = k, OutputsOf(memory[k]) # 0 PROVE FALSE
    OBVIOUS
  <2>1. OutputsOf(memory[k]) \in Nat /\ k \in 1..k
    BY <1>1, CountedNext
  <2>2. PICK i \in 1..n : p[i] = k
    BY <1>4, <2>1
  <2>3. registry[i] = UnitOf(k)
    BY <1>4, <2>2
  <2>4. registry[i][2] = memory[q].ref
    BY <2>3 DEF UnitOf
  <2>5. i \in DOMAIN registry
    BY <1>1, <1>5
  <2> QED
    BY <2>4, <2>5
<1>7. before[q - 1] = before[k] /\ before[q] \in Nat /\ k <= q
  <2>1. /\ before[q] = before[q - 1] + OutputsOf(memory[q])
        /\ before[q - 1] \in Nat /\ before[q] \in Nat
    BY <1>1, CountedNext
  <2>2. CASE q = k
    BY <1>1, <1>6, <2>1, <2>2
  <2>3. CASE q = k + 1
    <3>1. q - 1 = k
      BY <1>1, <2>3
    <3> QED
      BY <1>1, <2>1, <2>3, <3>1
  <2> QED
    BY <2>2, <2>3
<1> HIDE DEF before
<1>8. n \in Nat /\ n + 1 = Len(registry') /\ n + 1 \in 0..Len(registry')
      /\ registry'[n + 1] = UnitOf(q) /\ \A i \in 1..n : registry'[i] = registry[i]
  <2>1. UnitOf(q) \in (0..255) \X Addresses
    <3>1. memory[q].ref \in Installed /\ memory[q].b4 = DeviceType[memory[q].ref]
          /\ memory[q] \in Chunk
      BY <1>1, ListedFacts DEF CopiesType
    <3>2. memory[q].b4 \in 0..255
      BY <3>1 DEF Chunk
    <3> QED
      BY <3>1, <3>2 DEF UnitOf, Addresses
  <2> DEFINE u == UnitOf(q)
  <2> HIDE DEF u
  <2>2. /\ Len(Append(registry, u)) = Len(registry) + 1
        /\ Append(registry, u)[Len(registry) + 1] = u
        /\ \A i \in 1..Len(registry) : Append(registry, u)[i] = registry[i]
    BY <1>1, <2>1 DEF u
  <2> QED
    BY <1>1, <1>5, <2>2 DEF u
<1>9. pn \in [1..(n + 1) -> 1..q] /\ gn \in [0..(n + 1) -> Nat]
  <2>1. \A i \in 1..(n + 1) : i # n + 1 => i \in 1..n
    BY <1>8
  <2>2. \A i \in 0..(n + 1) : i # n + 1 => i \in 0..n
    BY <1>8
  <2>3. \A i \in 1..n : p[i] \in 1..q
    <3> TAKE i \in 1..n
    <3>1. p[i] \in 1..k
      OBVIOUS
    <3>2. 1..k \subseteq 1..q
      BY <1>1, <1>7
    <3> QED
      BY <3>1, <3>2
  <2>4. q \in 1..q
    BY <1>1
  <2> QED
    BY <1>7, <2>1, <2>2, <2>3, <2>4
<1>10. /\ \A i \in 1..n : pn[i] = p[i] /\ gn[i] = g[i] /\ gn[i - 1] = g[i - 1]
       /\ pn[n + 1] = q /\ gn[n + 1] = before[q] /\ gn[(n + 1) - 1] = before[q - 1] /\ gn[0] = 0
  <2>1. \A i \in 1..n : /\ i \in 1..(n + 1) /\ i \in 0..(n + 1) /\ i - 1 \in 0..(n + 1)
                        /\ i # n + 1 /\ i - 1 # n + 1
    BY <1>8
  <2>2. n + 1 \in 1..(n + 1) /\ n + 1 \in 0..(n + 1) /\ (n + 1) - 1 = n /\ n # n + 1
        /\ n \in 0..(n + 1) /\ 0 \in 0..(n + 1) /\ 0 # n + 1
    BY <1>8
  <2>3. gn[n] = before[q - 1]
    BY <1>4, <1>7, <2>2
  <2> QED
    BY <1>4, <2>1, <2>2, <2>3
<1>14. \E P \in [1..(n + 1) -> 1..q] : \E G \in [0..(n + 1) -> Nat] : P = pn /\ G = gn
  <2> HIDE DEF pn, gn
  <2> QED
    BY <1>9
<1>15. PICK P \in [1..(n + 1) -> 1..q], G \in [0..(n + 1) -> Nat] : P = pn /\ G = gn
  BY <1>14
<1> HIDE DEF pn, gn
<1>16. /\ \A i \in 1..n : P[i] = p[i] /\ G[i] = g[i] /\ G[i - 1] = g[i - 1]
       /\ P[n + 1] = q /\ G[n + 1] = before[q] /\ G[(n + 1) - 1] = before[q - 1] /\ G[0] = 0
  BY <1>10, <1>15
<1>11. \A i \in 1..(n + 1) :
          /\ registry'[i] = UnitOf(P[i])' /\ P[i] \in Listed(memory')
          /\ G[i - 1] = OutputsTo(memory')[P[i] - 1] /\ G[i] = OutputsTo(memory')[P[i]]
  <2> TAKE i \in 1..(n + 1)
  <2>1. CASE i = n + 1
    BY <1>8, <1>16, <2>1 DEF UnitOf, before
  <2>2. CASE i # n + 1
    <3>1. i \in 1..n
      BY <1>8, <2>2
    <3>2. registry'[i] = UnitOf(p[i]) /\ P[i] = p[i] /\ G[i - 1] = g[i - 1] /\ G[i] = g[i]
          /\ p[i] \in Listed(memory) /\ g[i - 1] = before[p[i] - 1] /\ g[i] = before[p[i]]
      BY <1>4, <1>8, <1>16, <3>1
    <3> QED
      BY <3>2 DEF UnitOf, before
  <2> QED
    BY <2>1, <2>2
<1>12. \A j \in 1..q : OutputsOf(memory'[j]) > 0 => \E i \in 1..(n + 1) : P[i] = j
  <2> TAKE j \in 1..q
  <2> HAVE OutputsOf(memory'[j]) > 0
  <2>1. CASE j = q
    <3>1. n + 1 \in 1..(n + 1)
      BY <1>8
    <3> QED
      BY <1>16, <2>1, <3>1
  <2>2. CASE j # q
    <3>1. j \in 1..k
      <4>1. k \in Nat /\ (q = k \/ q = k + 1) /\ j \in 1..q /\ j # q
        BY <1>1, <2>2
      <4>2. CASE q = k
        BY <4>1, <4>2
      <4>3. CASE q = k + 1
        BY <4>1, <4>3
      <4> QED
        BY <4>1, <4>2, <4>3
    <3>2. PICK i \in 1..n : p[i] = j
      BY <1>4, <3>1
    <3>3. i \in 1..(n + 1)
      BY <1>8
    <3> QED
      BY <1>16, <3>2, <3>3
  <2> QED
    BY <2>1, <2>2
<1>13. Fits(n + 1, P, G, q)'
  <2>1. G[0] = 0 /\ G[n + 1] = OutputsTo(memory')[q]
    BY <1>16 DEF before
  <2> QED
    BY <1>8, <1>11, <1>12, <2>1 DEF Fits
<1> QED
  BY <1>8, <1>13, Zenon DEF MapOK

\* Whatever a chunk is taken for, what is read so far stays right unless a unit
\* with outputs went unrecognised.
LEMMA MapHeard ==
    ASSUME CopiesType, NEW k \in 0..Len(memory), MapOK(k), NEW q \in {k, k + 1} \cap DOMAIN memory,
           memory' = memory, Hear(memory[q]), ~unlisted'
    PROVE  MapOK(q)'
<1> DEFINE c == memory[q]
<1>1. /\ MemoryOK(memory) /\ c \in Chunk /\ OutputsOf(c) \in Nat
      /\ DOMAIN registry = 1..Len(registry) /\ Len(registry) \in Nat
      /\ Len(memory) \in Nat /\ DOMAIN memory = 1..Len(memory) /\ k \in Nat
  BY ListedFacts DEF CopiesType, MemoryOK
<1>2. q \notin Listed(memory) => OutputsOf(c) = 0
  BY <1>1, ListedFacts
<1>3. CASE Dropped(c)
  <2>1. registry' = registry
    BY <1>3 DEF Hear
  <2>2. q \notin Listed(memory)
    BY <1>1, <1>3, ListedFacts
  <2> QED
    BY <1>2, <2>1, <2>2, MapStays
<1>4. CASE ~Dropped(c) /\ IsUnit(c) /\ q \in Listed(memory)
  <2>1. registry' = Added(registry, AsUnit(c))
    BY <1>4 DEF Hear
  <2>2. AsUnit(c) = UnitOf(q) /\ UnitOf(q)[2] = c.ref
    BY <1>1, <1>4, ListedFacts DEF AsUnit, UnitOf
  <2>3. CASE \E i \in DOMAIN registry : registry[i][2] = c.ref
    <3>1. registry' = registry
      BY <2>1, <2>2, <2>3 DEF Added
    <3>2. q = k
      <4>1. PICK j \in DOMAIN registry : registry[j][2] = c.ref
        BY <2>3
      <4>2. PICK n \in 0..Len(registry) :
              \E p \in [1..n -> 1..k] : \E g \in [0..n -> Nat] : Fits(n, p, g, k)
        BY Zenon DEF MapOK
      <4>3. PICK p \in [1..n -> 1..k], g \in [0..n -> Nat] : Fits(n, p, g, k)
        BY <4>2, Zenon
      <4>4. q \in k..Len(memory)
        BY <1>1
      <4>5. n = Len(registry) /\ \A i \in 1..n : registry[i] = UnitOf(p[i]) /\ p[i] \in Listed(memory)
        BY <1>4, <4>3, <4>4 DEF Fits
      <4>6. registry[j] = UnitOf(p[j]) /\ p[j] \in Listed(memory) /\ p[j] \in 1..k
        BY <1>1, <4>1, <4>5
      <4>7. memory[p[j]].ref = c.ref
        BY <4>1, <4>6 DEF UnitOf
      <4>8. p[j] = q
        BY <1>1, <1>4, <4>6, <4>7 DEF MemoryOK
      <4> QED
        BY <1>1, <4>6, <4>8
    <3> QED
      BY <3>1, <3>2, MapStays
  <2>4. CASE \A i \in DOMAIN registry : registry[i][2] # c.ref
    <3>1. registry' = Append(registry, UnitOf(q))
      BY <2>1, <2>2, <2>4 DEF Added
    <3> QED
      BY <1>4, <2>4, <3>1, MapAdds
  <2> QED
    BY <2>3, <2>4
<1>5. CASE ~Dropped(c) /\ IsUnit(c) /\ q \notin Listed(memory)
  <2>1. registry' = Added(registry, AsUnit(c))
    BY <1>5 DEF Hear
  <2>2. AsUnit(c) \in (0..255) \X Addresses
    <3>1. c.b4 \in 0..255 /\ c.ref \in Installed \cup Senders
      BY <1>1 DEF Chunk
    <3>2. AddressIn(c) \in Addresses
      BY <3>1 DEF AddressIn, Addresses
    <3> QED
      BY <3>1, <3>2 DEF AsUnit
  <2>3. \A j \in q..Len(memory) : j \notin Listed(memory)
    BY <1>1, <1>5, LinksBehind
  <2>4. registry' = registry \/ registry' = Append(registry, AsUnit(c))
    BY <2>1 DEF Added
  <2>5. \/ registry' = registry
        \/ /\ \E u \in (0..255) \X Addresses : registry' = Append(registry, u)
           /\ \A j \in q..Len(memory) : j \notin Listed(memory)
    BY <2>2, <2>3, <2>4
  <2> QED
    BY <1>2, <1>5, <2>5, MapStays
<1>6. CASE ~Dropped(c) /\ ~IsUnit(c)
  <2>1. registry' = registry /\ unlisted' = (unlisted \/ OutputsOf(c) > 0)
    BY <1>6 DEF Hear, HearLink
  <2>2. ~(OutputsOf(c) > 0)
    BY <2>1, Zenon
  <2>3. OutputsOf(c) = 0
    BY <1>1, <2>2
  <2> QED
    BY <2>1, <2>3, MapStays
<1> QED
  BY <1>3, <1>4, <1>5, <1>6

\* What a chunk adds to the copies is what its link means.
LEMMA CopiesHeard ==
    ASSUME CopiesType, CopiesTrue, NEW k \in 0..Len(memory), ~unlisted => MapOK(k),
           NEW q \in {k, k + 1} \cap DOMAIN memory, memory' = memory, Hear(memory[q])
    PROVE  CopiesTrue'
<1> DEFINE c == memory[q]
<1> SUFFICES ASSUME ~unlisted'
             PROVE  CopiesTrue'
  BY DEF CopiesTrue
<1>1. ~unlisted
  BY DEF Hear, HearLink
<1>2. /\ MemoryOK(memory) /\ c \in Chunk /\ Len(memory) \in Nat /\ k \in Nat
      /\ DOMAIN memory = 1..Len(memory)
  BY ListedFacts DEF CopiesType, MemoryOK
<1>3. \A index : Means(index)' = Means(index)
  BY DEF Means
<1>4. CASE UNCHANGED <<copies, linksRead>>
  BY <1>1, <1>3, <1>4 DEF CopiesTrue, Heard
<1>5. CASE ~UNCHANGED <<copies, linksRead>>
  <2>1. /\ ~Dropped(c) /\ copies' = copies \cup Decoded(registry, AsLink(c))
        /\ linksRead' = linksRead \cup {c}
    BY <1>5 DEF Hear, HearLink
  <2>2. CASE c.ref \notin Senders
    <3>1. Decoded(registry, AsLink(c)) = {}
      BY <2>2 DEF Decoded, AsLink
    <3>2. copies' = copies /\ Heard' = Heard
      BY <2>1, <2>2, <3>1 DEF Heard
    <3> QED
      BY <1>1, <1>3, <3>2 DEF CopiesTrue
  <2>3. CASE c.ref \in Senders
    <3>1. q \notin Listed(memory) /\ c.b0 \in Nat
      <4>1. q \notin Listed(memory)
        BY <1>2, <2>3, ListedFacts
      <4>2. c.b0 \in 0..255
        BY <1>2 DEF Chunk
      <4>3. c.b0 \in Nat
        <5>1. \A x \in 0..255 : x \in Nat
          OBVIOUS
        <5> QED
          BY <4>2, <5>1, Zenon
      <4> QED
        BY <4>1, <4>3
    <3>2. \A j \in (k + 1)..Len(memory) : j \notin Listed(memory)
      <4>1. \A j \in q..Len(memory) : j \notin Listed(memory)
        BY <1>2, <2>1, <3>1, LinksBehind
      <4>2. \A j \in (k + 1)..Len(memory) : j \in q..Len(memory)
        BY <1>2
      <4> QED
        BY <4>1, <4>2
    <3>3. /\ \A t \in Means(c.b0) :
               /\ Target(registry, c.b0) = {t}
               /\ DeviceType[t[1]] \in TypeOf(registry, t[1]) \cap OutputBearing
          /\ Means(c.b0) = {} =>
               \A t \in Target(registry, c.b0) : \A i \in DOMAIN memory :
                 memory[i].ref = t[1] => OutputsOf(memory[i]) = 0
      BY <1>1, <3>1, <3>2, LinkReaches
    <3>4. Heard' = Heard \cup {c} /\ copies \subseteq copies'
      BY <2>1, <2>3 DEF Heard
    <3>5. /\ AsLink(c).index = c.b0 /\ AsLink(c).sender = c.ref /\ AsLink(c).mode = c.b4 % 16
          /\ AsLink(c).flag = c.flag
      BY DEF AsLink
    <3>6. ASSUME NEW t \in Means(c.b0), c.b4 % 16 \in ModesOf[DeviceType[t[1]]], KeysOf(c) # {}
          PROVE  \E l \in copies' : CopyOf(l, c) /\ <<l.unit, l.chan>> = t
      <4>1. PICK key \in KeysOf(c) : TRUE
        BY <3>6
      <4> DEFINE l == [unit |-> t[1], chan |-> t[2], mode |-> c.b4 % 16, sender |-> c.ref, key |-> key]
      <4>2. t \in {x \in Target(registry, c.b0) :
                     \E d \in TypeOf(registry, x[1]) \cap OutputBearing : c.b4 % 16 \in ModesOf[d]}
        BY <3>3, <3>6
      <4>3. key \in KeyRaw(c.flag, SenderKeys[c.ref])
        BY <4>1 DEF KeysOf
      <4>4. l \in Decoded(registry, AsLink(c))
        <5> DEFINE k2 == AsLink(c)
        <5>1. key \in IF k2.sender \in Senders THEN KeyRaw(k2.flag, SenderKeys[k2.sender]) ELSE {}
          BY <2>3, <3>5, <4>3
        <5>2. t \in {x \in Target(registry, k2.index) :
                      \E d \in TypeOf(registry, x[1]) \cap OutputBearing : k2.mode \in ModesOf[d]}
          BY <3>5, <4>2
        <5>3. l = [unit |-> t[1], chan |-> t[2], mode |-> k2.mode, sender |-> k2.sender, key |-> key]
          BY <3>5
        <5> DEFINE A == {x \in Target(registry, k2.index) :
                      \E d \in TypeOf(registry, x[1]) \cap OutputBearing : k2.mode \in ModesOf[d]}
                   B == IF k2.sender \in Senders THEN KeyRaw(k2.flag, SenderKeys[k2.sender]) ELSE {}
                   L(x, y) == [unit |-> x[1], chan |-> x[2], mode |-> k2.mode, sender |-> k2.sender, key |-> y]
        <5>4. Decoded(registry, k2) = {L(x, y) : x \in A, y \in B}
          BY DEF Decoded
        <5>5. t \in A /\ key \in B /\ l = L(t, key)
          BY <5>1, <5>2, <5>3
        <5> HIDE DEF k2, l, A, B, L
        <5>6. l \in Decoded(registry, k2)
          BY <5>4, <5>5
        <5> QED
          BY <5>6 DEF k2
      <4>5. CopyOf(l, c)
        BY <4>1 DEF CopyOf
      <4>6. <<l.unit, l.chan>> = t
        <5>1. \E u, x : t = <<u, x>>
          BY DEF Means
        <5> QED
          BY <5>1
      <4>7. l \in copies'
        BY <2>1, <4>4
      <4> QED
        BY <4>5, <4>6, <4>7
    <3>7. ASSUME NEW l \in Decoded(registry, AsLink(c))
          PROVE  /\ CopyOf(l, c)
                 /\ Means(c.b0) # {} => <<l.unit, l.chan>> \in Means(c.b0)
                 /\ Means(c.b0) = {} =>
                      \A i \in DOMAIN memory : memory[i].ref = l.unit => OutputsOf(memory[i]) = 0
      <4>1. PICK t \in Target(registry, c.b0), key \in KeyRaw(c.flag, SenderKeys[c.ref]) :
              l = [unit |-> t[1], chan |-> t[2], mode |-> c.b4 % 16, sender |-> c.ref, key |-> key]
        BY <2>3, <3>5 DEF Decoded
      <4>2. CopyOf(l, c)
        BY <4>1 DEF CopyOf, KeysOf
      <4>3. ASSUME Means(c.b0) # {} PROVE <<l.unit, l.chan>> \in Means(c.b0)
        <5>1. PICK s \in Means(c.b0) : TRUE
          BY <4>3
        <5>2. s = t
          BY <3>3, <4>1
        <5>3. \E u, x : s = <<u, x>>
          BY DEF Means
        <5>4. <<l.unit, l.chan>> = s
          BY <4>1, <5>2, <5>3
        <5> QED
          BY <5>4
      <4>4. ASSUME Means(c.b0) = {}
            PROVE  \A i \in DOMAIN memory : memory[i].ref = l.unit => OutputsOf(memory[i]) = 0
        BY <3>3, <4>1, <4>4
      <4> QED
        BY <4>2, <4>3, <4>4
    <3>8. ASSUME NEW d \in Heard', NEW t \in Means(d.b0),
                 d.b4 % 16 \in ModesOf[DeviceType[t[1]]], KeysOf(d) # {}
          PROVE  \E l \in copies' : CopyOf(l, d) /\ <<l.unit, l.chan>> = t
      <4>1. CASE d \in Heard
        BY <1>1, <3>4, <3>8, <4>1 DEF CopiesTrue
      <4>2. CASE d = c
        BY <3>6, <3>8, <4>2
      <4> QED
        BY <3>4, <4>1, <4>2
    <3>9. ASSUME NEW l \in copies'
          PROVE  \E d \in Heard' :
                   /\ CopyOf(l, d)
                   /\ Means(d.b0) # {} => <<l.unit, l.chan>> \in Means(d.b0)
                   /\ Means(d.b0) = {} =>
                        \A i \in DOMAIN memory : memory[i].ref = l.unit => OutputsOf(memory[i]) = 0
      <4>1. CASE l \in copies
        BY <1>1, <3>4, <4>1 DEF CopiesTrue
      <4>2. CASE l \in Decoded(registry, AsLink(c))
        <5>1. c \in Heard'
          BY <3>4
        <5> QED
          BY <3>7, <4>2, <5>1
      <4> QED
        BY <2>1, <4>1, <4>2
    <3> QED
      BY <1>3, <3>8, <3>9 DEF CopiesTrue
  <2> QED
    BY <2>2, <2>3
<1> QED
  BY <1>4, <1>5

\* Before anything was read nothing is claimed.
LEMMA InitCopies == CopiesInit => CopiesInv
<1> SUFFICES ASSUME CopiesInit PROVE CopiesInv
  OBVIOUS
<1>1. MemoryOK(<<>>)
  BY DEF MemoryOK, Listed
<1>2. CopiesType
  BY <1>1 DEF CopiesInit, CopiesType
<1>3. CopiesTrue
  BY DEF CopiesInit, CopiesTrue, Heard
<1> QED
  BY <1>2, <1>3 DEF CopiesInv, CopiesInit

\* A registry stays one, whatever is added.
LEMMA RegistryType ==
    ASSUME CopiesType, NEW q \in DOMAIN memory, Hear(memory[q])
    PROVE  /\ registry' \in Seq((0..255) \X Addresses)
           /\ \A i, j \in DOMAIN registry' : registry'[i][2] = registry'[j][2] => i = j
<1> DEFINE c == memory[q]
           u == AsUnit(c)
<1>1. c \in Chunk
  BY DEF CopiesType, MemoryOK
<1>2. u \in (0..255) \X Addresses
  <2>1. c.b4 \in 0..255 /\ c.ref \in Installed \cup Senders
    BY <1>1 DEF Chunk
  <2>2. AddressIn(c) \in Addresses
    BY <2>1 DEF AddressIn, Addresses
  <2> QED
    BY <2>1, <2>2 DEF AsUnit
<1>3. /\ registry \in Seq((0..255) \X Addresses)
      /\ \A i, j \in DOMAIN registry : registry[i][2] = registry[j][2] => i = j
  BY DEF CopiesType
<1>4. \/ registry' = registry
      \/ /\ registry' = Append(registry, u) /\ \A i \in DOMAIN registry : registry[i][2] # u[2]
  BY DEF Hear, HearLink, Added
<1> HIDE DEF u
<1>5. CASE registry' = registry
  BY <1>3, <1>5
<1>6. CASE registry' = Append(registry, u) /\ \A i \in DOMAIN registry : registry[i][2] # u[2]
  <2>1. /\ registry' \in Seq((0..255) \X Addresses) /\ Len(registry) \in Nat
        /\ DOMAIN registry' = 1..(Len(registry) + 1) /\ DOMAIN registry = 1..Len(registry)
        /\ registry'[Len(registry) + 1] = u
        /\ \A i \in 1..Len(registry) : registry'[i] = registry[i]
    BY <1>2, <1>3, <1>6
  <2>2. \A i \in DOMAIN registry' : i \in DOMAIN registry \/ i = Len(registry) + 1
    BY <2>1
  <2>3. \A i, j \in DOMAIN registry' : registry'[i][2] = registry'[j][2] => i = j
    <3> TAKE i, j \in DOMAIN registry'
    <3> HAVE registry'[i][2] = registry'[j][2]
    <3>1. CASE i \in DOMAIN registry /\ j \in DOMAIN registry
      BY <1>3, <2>1, <3>1
    <3>2. CASE i \in DOMAIN registry /\ j \notin DOMAIN registry
      BY <1>6, <2>1, <2>2, <3>2
    <3>3. CASE i \notin DOMAIN registry /\ j \in DOMAIN registry
      BY <1>6, <2>1, <2>2, <3>3
    <3>4. CASE i \notin DOMAIN registry /\ j \notin DOMAIN registry
      BY <2>2, <3>4
    <3> QED
      BY <3>1, <3>2, <3>3, <3>4
  <2> QED
    BY <2>1, <2>3
<1> QED
  BY <1>4, <1>5, <1>6

\* What was heard is as true as before while nothing is heard or lost.
LEMMA TrueStays ==
    ASSUME CopiesTrue, UNCHANGED <<memory, copies, linksRead>>, ~unlisted' => ~unlisted
    PROVE  CopiesTrue'
<1> SUFFICES ASSUME ~unlisted'
             PROVE  CopiesTrue'
  BY DEF CopiesTrue
<1>1. ~unlisted
  OBVIOUS
<1>2. \A index : Means(index)' = Means(index)
  BY DEF Means
<1>3. Heard' = Heard
  BY DEF Heard
<1> QED
  BY <1>1, <1>2, <1>3 DEF CopiesTrue

\* And so is the registry's map.
LEMMA MapSame ==
    ASSUME NEW k, MapOK(k), memory' = memory, registry' = registry
    PROVE  MapOK(k)'
<1>1. PICK n \in 0..Len(registry) :
        \E p \in [1..n -> 1..k] : \E g \in [0..n -> Nat] : Fits(n, p, g, k)
  BY Zenon DEF MapOK
<1>2. PICK p \in [1..n -> 1..k], g \in [0..n -> Nat] : Fits(n, p, g, k)
  BY <1>1, Zenon
<1>3. Fits(n, p, g, k)'
  BY <1>2 DEF Fits, UnitOf
<1>4. n \in 0..Len(registry')
  OBVIOUS
<1> QED
  BY <1>3, <1>4, Zenon DEF MapOK

\* One chunk of the memory heard, lost or passed over at a time: a step keeps
\* what the copies stand for and where the registry's units are.
LEMMA StepCopies == CopiesInv /\ [CopiesNext]_copyVars => CopiesInv'
<1> SUFFICES ASSUME CopiesInv, [CopiesNext]_copyVars PROVE CopiesInv'
  OBVIOUS
<1>1. /\ CopiesType /\ CopiesTrue /\ (cursor > 0 /\ ~unlisted => MapOK(cursor - 1))
      /\ MemoryOK(memory) /\ cursor \in 0..(Len(memory) + 1) /\ Len(memory) \in Nat
      /\ DOMAIN memory = 1..Len(memory)
  BY DEF CopiesInv, CopiesType, MemoryOK
<1>2. CASE ReadBegin
  <2>1. /\ memory' \in Memories /\ cursor' = 1 /\ registry' = <<>> /\ copies' = {}
        /\ linksRead' = {} /\ UNCHANGED <<sized, known>>
    BY <1>2 DEF ReadBegin
  <2>2. MemoryOK(memory')
    BY <2>1, MemoriesAssumption
  <2>3. Len(memory') \in Nat
    BY <2>2 DEF MemoryOK
  <2>4. CopiesType'
    BY <1>1, <2>1, <2>2, <2>3 DEF CopiesType
  <2>5. CopiesTrue'
    BY <2>1 DEF CopiesTrue, Heard
  <2>6. MapOK(0)'
    <3> DEFINE p == [i \in 1..0 |-> 0]
               g == [i \in 0..0 |-> 0]
    <3>1. p \in [1..0 -> 1..0] /\ g \in [0..0 -> Nat] /\ g[0] = 0
      OBVIOUS
    <3>2. OutputsTo(memory')[0] = 0
      <4>1. Counted(memory')
        BY <2>2, OutputsCounted
      <4> QED
        BY <4>1 DEF Counted, Sums
    <3>3. Len(registry') = 0 /\ 0 \in 0..Len(registry')
      BY <2>1
    <3> HIDE DEF p, g
    <3>4. Fits(0, p, g, 0)'
      BY <3>1, <3>2, <3>3 DEF Fits, p, g
    <3> QED
      BY <3>1, <3>3, <3>4, Zenon DEF MapOK
  <2> QED
    BY <2>1, <2>4, <2>5, <2>6 DEF CopiesInv
<1>3. ASSUME NEW k \in 0..Len(memory), ~unlisted => MapOK(k), NEW q \in {k, k + 1} \cap DOMAIN memory,
             Hear(memory[q]), cursor' = q + 1, UNCHANGED <<memory, sized, known>>
      PROVE  CopiesInv'
  <2>1. CopiesTrue'
    BY <1>1, <1>3, CopiesHeard
  <2>2. ~unlisted' => MapOK(q)'
    <3> SUFFICES ASSUME ~unlisted' PROVE MapOK(q)'
      OBVIOUS
    <3>1. ~unlisted
      BY <1>3 DEF Hear, HearLink
    <3> QED
      BY <1>1, <1>3, <3>1, MapHeard
  <2>3. CopiesType'
    <3>1. cursor' \in 0..(Len(memory') + 1)
      BY <1>1, <1>3
    <3>2. /\ registry' \in Seq((0..255) \X Addresses)
          /\ \A i, j \in DOMAIN registry' : registry'[i][2] = registry'[j][2] => i = j
      BY <1>1, <1>3, RegistryType
    <3> QED
      BY <1>1, <1>3, <3>1, <3>2 DEF CopiesType
  <2>4. cursor' - 1 = q
    BY <1>1, <1>3
  <2> QED
    BY <2>1, <2>2, <2>3, <2>4 DEF CopiesInv
<1>4. CASE ReadNext
  <2>1. cursor \in 1..Len(memory) /\ cursor - 1 \in 0..Len(memory) /\ cursor = (cursor - 1) + 1
        /\ cursor > 0
    BY <1>1, <1>4 DEF ReadNext
  <2>2. /\ Hear(memory[cursor]) /\ cursor' = cursor + 1 /\ UNCHANGED <<memory, sized, known>>
    BY <1>4 DEF ReadNext
  <2>3. ~unlisted => MapOK(cursor - 1)
    BY <1>1, <2>1
  <2> QED
    BY <1>1, <1>3, <2>1, <2>2, <2>3
<1>5. CASE AnsweredAgain
  <2>1. cursor - 1 \in 0..Len(memory) /\ cursor - 1 \in 1..Len(memory) /\ cursor > 0
        /\ (cursor - 1) + 1 = cursor
    BY <1>1, <1>5 DEF AnsweredAgain
  <2>2. /\ Hear(memory[cursor - 1]) /\ cursor' = cursor /\ UNCHANGED <<memory, sized, known>>
    BY <1>5 DEF AnsweredAgain
  <2>3. ~unlisted => MapOK(cursor - 1)
    BY <1>1, <2>1
  <2> QED
    BY <1>1, <1>3, <2>1, <2>2, <2>3
<1>6. CASE ReadGone
  <2>1. /\ cursor \in 1..Len(memory) /\ cursor - 1 \in 0..Len(memory) /\ cursor = (cursor - 1) + 1
        /\ cursor > 0 /\ cursor' = cursor + 1
        /\ unlisted' = (unlisted \/ OutputsOf(memory[cursor]) > 0)
        /\ UNCHANGED <<memory, registry, sized, known, copies, linksRead>>
    BY <1>1, <1>6 DEF ReadGone
  <2>2. CopiesType'
    BY <1>1, <2>1 DEF CopiesType
  <2>3. ~unlisted' => ~unlisted /\ ~(OutputsOf(memory[cursor]) > 0)
    BY <2>1, Zenon
  <2>4. CopiesTrue'
    BY <1>1, <2>1, <2>3, TrueStays
  <2>5. PICK k \in 0..Len(memory) : k = cursor - 1
    BY <2>1
  <2>6. PICK q \in {k, k + 1} \cap DOMAIN memory : q = cursor
    BY <1>1, <2>1, <2>5
  <2>7. ~unlisted' => MapOK(q)'
    <3> SUFFICES ASSUME ~unlisted' PROVE MapOK(q)'
      OBVIOUS
    <3>1. OutputsOf(memory[q]) \in Nat
      BY <1>1, ListedFacts
    <3>2. MapOK(k) /\ OutputsOf(memory[q]) = 0
      BY <1>1, <2>1, <2>3, <2>5, <2>6, <3>1
    <3> QED
      BY <1>1, <2>1, <3>2, MapStays
  <2>8. cursor' - 1 = q
    BY <1>1, <2>1, <2>6
  <2> QED
    BY <2>2, <2>4, <2>7, <2>8 DEF CopiesInv
<1>7. CASE ReadEnd
  <2>1. cursor' = 0 /\ UNCHANGED <<memory, registry, sized, known, copies, unlisted, linksRead>>
    BY <1>7 DEF ReadEnd
  <2>2. CopiesType'
    BY <1>1, <2>1 DEF CopiesType
  <2>3. CopiesTrue'
    BY <1>1, <2>1, TrueStays
  <2> QED
    BY <2>1, <2>2, <2>3 DEF CopiesInv
<1>8. CASE \E u \in Installed : Learn(u)
  <2>1. /\ known' \subseteq Installed /\ sized' \subseteq Installed
        /\ UNCHANGED <<memory, cursor, registry, copies, unlisted, linksRead>>
    BY <1>1, <1>8 DEF Learn, CopiesType
  <2>2. CopiesType'
    BY <1>1, <2>1 DEF CopiesType
  <2>3. CopiesTrue'
    BY <1>1, <2>1, TrueStays
  <2>4. \A k : MapOK(k) => MapOK(k)'
    BY <2>1, MapSame
  <2> QED
    BY <1>1, <2>1, <2>2, <2>3, <2>4 DEF CopiesInv
<1>9. CASE UNCHANGED copyVars
  <2>1. UNCHANGED <<memory, cursor, registry, sized, known, copies, unlisted, linksRead>>
    BY <1>9 DEF copyVars
  <2>2. CopiesType'
    BY <1>1, <2>1 DEF CopiesType
  <2>3. CopiesTrue'
    BY <1>1, <2>1, TrueStays
  <2>4. \A k : MapOK(k) => MapOK(k)'
    BY <2>1, MapSame
  <2> QED
    BY <1>1, <2>1, <2>2, <2>3, <2>4 DEF CopiesInv
<1> QED
  BY <1>2, <1>4, <1>5, <1>6, <1>7, <1>8, <1>9 DEF CopiesNext

\* Every link read of a PC-Link stands for the output its index means, whatever
\* the host knows of the units and however often a register is answered.
THEOREM CopiesAreTrue == CopiesSpec => []CopiesTrue
<1>1. CopiesInv => CopiesTrue
  BY DEF CopiesInv
<1> QED
  BY <1>1, InitCopies, StepCopies, PTL DEF CopiesSpec
=============================================================================
