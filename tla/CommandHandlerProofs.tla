------------------------ MODULE CommandHandlerProofs ------------------------
(***************************************************************************)
(* What holds of CommandHandler for every value of its constants.          *)
(***************************************************************************)
EXTENDS CommandHandler, TLAPS

-----------------------------------------------------------------------------
(* The inductive invariant. *)

\* What is known of a call from what it asked for; who waits on a group.
CallInv ==
    \A c \in Call :
        /\ op[c] \in {"get", "set", "query"} <=> key[c] \in Key
        /\ caller[c] = "idle" <=> op[c] = "none"
        /\ op[c] = "none" => loc[c] = "none" /\ fut[c] = "none"
        /\ (op[c] = "get" /\ fut[c] = "pending") => c \in pendingGetFutures[key[c]]
        /\ \A k \in Key : c \in pendingGetFutures[k] => op[c] = "get" /\ key[c] = k

\* The queue holds each item located there, once.
QueueInv ==
    /\ \A i \in DOMAIN commandQueue : loc[commandQueue[i]] = "queue"
    /\ \A i, j \in DOMAIN commandQueue : commandQueue[i] = commandQueue[j] => i = j
    /\ \A c \in Call : loc[c] = "queue" => InQueue(c)

\* The worker holds an item exactly when it is past the queue's get.
WorkerInv ==
    /\ wpc \in {"off", "idle"} <=> cur = NoCall
    /\ \A c \in Call : loc[c] = "worker" <=> cur = c
    /\ cur # NoCall => op[cur] # "none"
    /\ wpc \in {"window", "rlock", "read"} => op[cur] = "set"
    /\ (wpc \in {"lock", "exch"} /\ op[cur] = "set") => frame \in Image

\* A dedup key is owned by a read of its group that is still to be popped.
KeyInv ==
    \A k \in Key : queuedGetKeys[k] # NoCall =>
        /\ op[queuedGetKeys[k]] = "get"
        /\ key[queuedGetKeys[k]] = k
        /\ loc[queuedGetKeys[k]] \in {"queue", "put"}

IInv == TypeOK /\ CallInv /\ QueueInv /\ WorkerInv /\ KeyInv

-----------------------------------------------------------------------------
(* The operators on images, futures and keys. *)

\* Writes laid over an image give an image.
LEMMA OverlayType ==
    ASSUME NEW image \in Image, NEW w \in Writes
    PROVE  Overlay(image, w) \in Image
BY DEF Overlay, Image, Writes

\* The writes waiting for their frame are writes, for a group without an item too.
LEMMA PendingWritesType ==
    ASSUME TypeOK, NEW k \in Key
    PROVE  PendingWrites(k) \in Writes
BY CommandAssumption DEF PendingWrites, TypeOK, NoWrites, Writes

\* apply_group_state stores an image.
LEMMA ApplyGroupStateType ==
    ASSUME TypeOK, NEW k \in Key, NEW image \in Image
    PROVE  ApplyGroupState(k, image) \in Image
<1>1. PendingWrites(k) \in Writes
  BY PendingWritesType
<1>2. writingSets[k] \in Writes
  BY DEF TypeOK
<1> QED
  BY <1>1, <1>2, OverlayType DEF ApplyGroupState

\* Settling futures leaves futures.
LEMMA SettleType ==
    ASSUME TypeOK, NEW S, NEW outcome \in Settled
    PROVE  Settle(S, outcome) \in [Call -> {"none", "pending"} \cup Settled]
BY DEF Settle, TypeOK

\* What the history records of a report.
LEMMA ReportType ==
    ASSUME TypeOK, NEW k \in Key, NEW image \in Image
    PROVE  Report(k, image) \in [Key -> Writes]
<1> DEFINE told == [ch \in Chan |->
              IF PendingWrites(k)[ch] = NoVal /\ writingSets[k][ch] = NoVal
              THEN image[ch] ELSE NoVal]
<1>1. told \in Writes
  BY DEF Image, Writes
<1>2. Report(k, image) = [reported EXCEPT ![k] = told]
  BY DEF Report
<1> QED
  BY <1>1, <1>2 DEF TypeOK

\* The oldest item is a call and taking it leaves a shorter queue.
LEMMA PopType ==
    ASSUME TypeOK, commandQueue # <<>>
    PROVE  /\ Head(commandQueue) \in Call
           /\ Tail(commandQueue) \in Seq(Call)
           /\ Len(Tail(commandQueue)) = Len(commandQueue) - 1
           /\ Len(Tail(commandQueue)) <= QueueMax
<1>1. commandQueue \in Seq(Call) /\ Len(commandQueue) <= QueueMax
  BY DEF TypeOK
<1> QED
  BY <1>1, CommandAssumption

\* put leaves a queue of calls within its maxsize and a place for the item.
LEMMA PutType ==
    ASSUME TypeOK, NEW c \in Call, Put(c)
    PROVE  /\ commandQueue' \in Seq(Call)
           /\ Len(commandQueue') <= QueueMax
           /\ loc' \in [Call -> {"none", "put", "queue", "worker", "gone"}]
<1>1. /\ commandQueue \in Seq(Call) /\ Len(commandQueue) <= QueueMax
      /\ Len(commandQueue) \in Nat
      /\ loc \in [Call -> {"none", "put", "queue", "worker", "gone"}]
  BY DEF TypeOK
<1>2. /\ Append(commandQueue, c) \in Seq(Call)
      /\ Len(Append(commandQueue, c)) = Len(commandQueue) + 1
  BY <1>1
<1>3. CASE Len(commandQueue) < QueueMax
  BY <1>1, <1>2, <1>3, CommandAssumption DEF Put
<1>4. CASE ~(Len(commandQueue) < QueueMax)
  BY <1>1, <1>4 DEF Put
<1> QED
  BY <1>3, <1>4

\* put places its item and no other.
LEMMA PutPlace ==
    ASSUME TypeOK, NEW c \in Call, Put(c)
    PROVE  /\ loc'[c] \in {"queue", "put"}
           /\ \A d \in Call \ {c} : loc'[d] = loc[d]
BY DEF Put, TypeOK

\* The frame the worker builds from an image is an image, in the buffer too.
LEMMA BuildFrameType ==
    ASSUME TypeOK, cur \in Call, key[cur] \in Key, NEW buffer \in Image,
           BuildFrame(buffer)
    PROVE  /\ moduleStates' \in [Key -> Image]
           /\ frame' \in Image
           /\ wpc' = "lock"
<1>1. chans[cur] \in Writes /\ moduleStates \in [Key -> Image]
  BY DEF TypeOK
<1>2. Overlay(buffer, chans[cur]) \in Image
  BY <1>1, OverlayType
<1> QED
  BY <1>1, <1>2 DEF BuildFrame

\* A frame put on the line, or taken off it, leaves a line.
LEMMA LineType ==
    ASSUME TypeOK
    PROVE  /\ \A m \in Frames : Append(line, m) \in Seq(Frames)
           /\ line # <<>> => /\ Tail(line) \in Seq(Frames)
                             /\ Head(line).kind \in {"push", "state", "done"}
                             /\ Head(line).key \in Key \cup {NoKey}
                             /\ Head(line).img \in Image
<1>1. line \in Seq(Frames)
  BY DEF TypeOK
<1>2. line # <<>> => Head(line) \in Frames
  BY <1>1
<1> QED
  BY <1>1, <1>2 DEF Frames

-----------------------------------------------------------------------------
(* Type correctness. *)

\* The initial values have their types.
LEMMA InitType == Init => TypeOK
<1> SUFFICES ASSUME Init PROVE TypeOK
  OBVIOUS
<1>1. NoWrites \in Writes
  BY DEF NoWrites, Writes
<1>2. [ch \in Chan |-> Off] \in Image
  BY CommandAssumption DEF Image
<1>3. commandQueue \in Seq(Call) /\ Len(commandQueue) <= QueueMax /\ line \in Seq(Frames)
  BY CommandAssumption DEF Init
<1> QED
  BY <1>1, <1>2, <1>3 DEF Init, TypeOK, Ops, Writing, Settled

\* No step takes a variable out of its type.
LEMMA StepType == IInv /\ [Next]_vars => TypeOK'
<1> SUFFICES ASSUME IInv, [Next]_vars PROVE TypeOK'
  OBVIOUS
<1> USE DEF vars, callVars, getVars, setVars, bufVars, workVars, extVars, histVars
<1> TypeOK
  BY DEF IInv
<1> USE CommandAssumption
<1>1. ASSUME NEW c \in Call, NEW k \in Key, GetCall(c, k) PROVE TypeOK'
  <2>1. pendingGetFutures' \in [Key -> SUBSET Call]
    <3>1. pendingGetFutures[k] \cup {c} \in SUBSET Call
      BY DEF TypeOK
    <3> QED
      BY <1>1, <3>1 DEF GetCall, TypeOK
  <2>3. queuedGetKeys' \in [Key -> Call \cup {NoCall}]
    <3>1. queuedGetKeys \in [Key -> Call \cup {NoCall}]
      BY DEF TypeOK
    <3>2. queuedGetKeys' = queuedGetKeys \/ queuedGetKeys' = [queuedGetKeys EXCEPT ![k] = c]
      BY <1>1 DEF GetCall
    <3> QED
      BY <3>1, <3>2
  <2>2. /\ commandQueue' \in Seq(Call) /\ Len(commandQueue') <= QueueMax
        /\ loc' \in [Call -> {"none", "put", "queue", "worker", "gone"}]
    BY <1>1, PutType DEF GetCall, TypeOK
  <2> QED
    BY <1>1, <2>1, <2>2, <2>3 DEF GetCall, MakeCall, Ops, TypeOK
<1>2. ASSUME NEW c \in Call, NEW k \in Key, QueryCall(c, k) PROVE TypeOK'
  <2>1. /\ commandQueue' \in Seq(Call) /\ Len(commandQueue') <= QueueMax
        /\ loc' \in [Call -> {"none", "put", "queue", "worker", "gone"}]
    BY <1>2, PutType DEF QueryCall
  <2> QED
    BY <1>2, <2>1 DEF QueryCall, MakeCall, Ops, TypeOK
<1>3. ASSUME NEW c \in Call, NEW k \in Key, NEW ch \in Chan, NEW v \in Val, SetCall(c, k, ch, v)
      PROVE TypeOK'
  <2> DEFINE item == IF pendingSetGroups[k] = NoCall THEN c ELSE pendingSetGroups[k]
  <2>1. item \in Call
    BY DEF TypeOK
  <2>2. /\ commandQueue' \in Seq(Call) /\ Len(commandQueue') <= QueueMax
        /\ loc' \in [Call -> {"none", "put", "queue", "worker", "gone"}]
    BY <1>3, PutType DEF SetCall, TypeOK
  <2>3. chans' \in [Call -> Writes]
    BY <1>3, <2>1 DEF SetCall, TypeOK, Writes
  <2>4. moduleStates' \in [Key -> Image]
    BY <1>3 DEF SetCall, TypeOK, Image
  <2>5. lastSet' \in [Key -> [Chan -> Call \cup {NoCall}]] /\ joins' \in [Call -> Call \cup {NoCall}]
    BY <1>3, <2>1 DEF SetCall, TypeOK
  <2>6. fut' \in [Call -> {"none", "pending"} \cup Settled]
    BY <1>3 DEF SetCall, TypeOK
  <2>8. reported' \in [Key -> Writes]
    BY <1>3 DEF SetCall, TypeOK, Writes
  <2>7. pendingSetGroups' \in [Key -> Call \cup {NoCall}]
    <3>1. pendingSetGroups \in [Key -> Call \cup {NoCall}]
      BY DEF TypeOK
    <3>2. pendingSetGroups' = pendingSetGroups \/ pendingSetGroups' = [pendingSetGroups EXCEPT ![k] = c]
      BY <1>3 DEF SetCall
    <3> QED
      BY <3>1, <3>2
  <2> QED
    BY <1>3, <2>2, <2>3, <2>4, <2>5, <2>6, <2>7, <2>8 DEF SetCall, MakeCall, Ops, TypeOK
<1>4. ASSUME NEW c \in Call, PressCall(c) PROVE TypeOK'
  <2>1. /\ commandQueue' \in Seq(Call) /\ Len(commandQueue') <= QueueMax
        /\ loc' \in [Call -> {"none", "put", "queue", "worker", "gone"}]
    BY <1>4, PutType DEF PressCall
  <2> QED
    BY <1>4, <2>1 DEF PressCall, MakeCall, Ops, TypeOK
<1>5. ASSUME NEW c \in Call, Unblock(c) PROVE TypeOK'
  <2>1. /\ commandQueue' \in Seq(Call) /\ Len(commandQueue') <= QueueMax
        /\ loc' \in [Call -> {"none", "put", "queue", "worker", "gone"}]
    BY <1>5, PutType DEF Unblock
  <2> QED
    BY <1>5, <2>1 DEF Unblock, TypeOK
<1>6. ASSUME NEW c \in Call, GetAbandon(c) PROVE TypeOK'
  BY <1>6 DEF GetAbandon, LeaveGet, ReleaseGetKey, Settle, Settled, TypeOK
<1>7. ASSUME NEW c \in Call, GetCancelBlocked(c) PROVE TypeOK'
  BY <1>7 DEF GetCancelBlocked, LeaveGet, ReleaseGetKey, Settle, Settled, TypeOK
<1>8. ASSUME NEW c \in Call, GetReturn(c) PROVE TypeOK'
  BY <1>8 DEF GetReturn, LeaveGet, ReleaseGetKey, TypeOK
<1>9. ASSUME NEW c \in Call, QueryAbandon(c) PROVE TypeOK'
  BY <1>9 DEF QueryAbandon, Settle, Settled, TypeOK
<1>10. ASSUME NEW c \in Call, SetAbandon(c) PROVE TypeOK'
  BY <1>10 DEF SetAbandon, TypeOK
<1>11. ASSUME NEW c \in Call, CancelBlocked(c) PROVE TypeOK'
  BY <1>11 DEF CancelBlocked, TypeOK
<1>12. ASSUME PopSkip PROVE TypeOK'
  BY <1>12, PopType DEF PopSkip, ReleaseGetKey, ReleaseSetGroup, TypeOK
<1>13. ASSUME PopTake PROVE TypeOK'
  BY <1>13, PopType DEF PopTake, ReleaseGetKey, TypeOK, Writing
<1>14. ASSUME WindowEnd PROVE TypeOK'
  <2>1. cur \in Call /\ key[cur] \in Key
    BY <1>14 DEF WindowEnd, IInv, WorkerInv, CallInv, TypeOK
  <2>2. moduleStates[key[cur]] \in Image
    BY <2>1 DEF TypeOK
  <2>3. /\ moduleStates' \in [Key -> Image] /\ frame' \in Image \cup {NoImage}
        /\ wpc' \in Writing
    BY <1>14, <2>1, <2>2, BuildFrameType DEF WindowEnd, TypeOK, Writing
  <2> QED
    BY <1>14, <2>1, <2>3 DEF WindowEnd, ReleaseSetGroup, TypeOK
<1>15. ASSUME Acquire PROVE TypeOK'
  BY <1>15 DEF Acquire, Writing, TypeOK
<1>16. ASSUME ReadDone PROVE TypeOK'
  <2>1. cur \in Call /\ key[cur] \in Key /\ reply \in Image
    BY <1>16 DEF ReadDone, IInv, WorkerInv, CallInv, TypeOK
  <2>2. ApplyGroupState(key[cur], reply) \in Image
    BY <2>1, ApplyGroupStateType
  <2>3. /\ moduleStates' \in [Key -> Image] /\ frame' \in Image /\ wpc' = "lock"
    BY <1>16, <2>1, <2>2, BuildFrameType DEF ReadDone
  <2>4. fut' \in [Call -> {"none", "pending"} \cup Settled]
    BY <1>16, SettleType DEF ReadDone, Settled
  <2> QED
    BY <1>16, <2>1, <2>3, <2>4 DEF ReadDone, ReleaseBus, Writing, TypeOK
<1>17. ASSUME ReadFail PROVE TypeOK'
  <2>1. cur \in Call /\ key[cur] \in Key
    BY <1>17 DEF ReadFail, IInv, WorkerInv, CallInv, TypeOK
  <2>2. moduleStates[key[cur]] \in Image
    BY <2>1 DEF TypeOK
  <2>3. /\ moduleStates' \in [Key -> Image] /\ frame' \in Image /\ wpc' = "lock"
    BY <1>17, <2>1, <2>2, BuildFrameType DEF ReadFail
  <2> QED
    BY <1>17, <2>3 DEF ReadFail, ReleaseBus, Writing, TypeOK
<1>18. ASSUME GetAnswered PROVE TypeOK'
  <2>1. cur \in Call /\ key[cur] \in Key /\ reply \in Image
    BY <1>18 DEF GetAnswered, IInv, WorkerInv, CallInv, TypeOK
  <2>2. ApplyGroupState(key[cur], reply) \in Image
    BY <2>1, ApplyGroupStateType
  <2>3. moduleStates' \in [Key -> Image]
    BY <1>18, <2>1, <2>2 DEF GetAnswered, TypeOK
  <2>4. fut' \in [Call -> {"none", "pending"} \cup Settled]
    BY <1>18, SettleType DEF GetAnswered, Settled
  <2> QED
    BY <1>18, <2>1, <2>3, <2>4 DEF GetAnswered, ReleaseBus, Writing, TypeOK
<1>19. ASSUME OtherAnswered PROVE TypeOK'
  <2>1. fut' \in [Call -> {"none", "pending"} \cup Settled]
    BY <1>19, SettleType DEF OtherAnswered, Settled
  <2> QED
    BY <1>19, <2>1 DEF OtherAnswered, ReleaseBus, Writing, TypeOK
<1>20. ASSUME ExchangeFails PROVE TypeOK'
  <2>1. fut' \in [Call -> {"none", "pending"} \cup Settled]
    BY <1>20, SettleType DEF ExchangeFails, Settled
  <2> QED
    BY <1>20, <2>1 DEF ExchangeFails, ReleaseBus, Writing, TypeOK
<1>21. ASSUME PressSent PROVE TypeOK'
  BY <1>21 DEF PressSent, ReleaseBus, Writing, TypeOK
<1>22. ASSUME PostDone PROVE TypeOK'
  BY <1>22 DEF PostDone, ClearWriting, NoWrites, Writes, TypeOK
<1>23. ASSUME Start PROVE TypeOK'
  BY <1>23 DEF Start, TypeOK
<1>24. ASSUME StopBegin PROVE TypeOK'
  <2>1. fut' \in [Call -> {"none", "pending"} \cup Settled]
    BY <1>24, SettleType DEF StopBegin, Settled
  <2> QED
    BY <1>24, <2>1 DEF StopBegin, ClearGetKeys, TypeOK
<1>25. ASSUME WorkerCancelled PROVE TypeOK'
  <2>1. fut' \in [Call -> {"none", "pending"} \cup Settled]
    BY <1>25, SettleType DEF WorkerCancelled, Settled
  <2>2. writingSets' \in [Key -> Writes]
    BY <1>25 DEF WorkerCancelled, ClearWriting, NoWrites, Writes, TypeOK
  <2> QED
    BY <1>25, <2>1, <2>2 DEF WorkerCancelled, TypeOK
<1>26. ASSUME StopFinish PROVE TypeOK'
  <2>1. fut' \in [Call -> {"none", "pending"} \cup Settled]
    BY <1>26, SettleType DEF StopFinish, DrainQueue, Settled
  <2>2. commandQueue' \in Seq(Call) /\ Len(commandQueue') <= QueueMax
    BY <1>26 DEF StopFinish, DrainQueue
  <2>3. writingSets' \in [Key -> Writes]
    BY <1>26 DEF StopFinish, NoWrites, Writes
  <2>4. loc' \in [Call -> {"none", "put", "queue", "worker", "gone"}]
    BY <1>26 DEF StopFinish, DrainQueue, TypeOK
  <2> QED
    BY <1>26, <2>1, <2>2, <2>3, <2>4 DEF StopFinish, ClearSetGroups, TypeOK
<1>27. ASSUME Reset PROVE TypeOK'
  <2>1. fut' \in [Call -> {"none", "pending"} \cup Settled]
    BY <1>27, SettleType DEF Reset, DrainQueue, Settled
  <2>2. commandQueue' \in Seq(Call) /\ Len(commandQueue') <= QueueMax
    BY <1>27 DEF Reset, DrainQueue
  <2>3. loc' \in [Call -> {"none", "put", "queue", "worker", "gone"}]
    BY <1>27 DEF Reset, DrainQueue, TypeOK
  <2> QED
    BY <1>27, <2>1, <2>2, <2>3 DEF Reset, ClearGetKeys, ClearSetGroups, TypeOK
<1>28. ASSUME ScanAcquire PROVE TypeOK'
  BY <1>28 DEF ScanAcquire, TypeOK
<1>29. ASSUME ScanRelease PROVE TypeOK'
  BY <1>29 DEF ScanRelease, TypeOK
<1>30. ASSUME DeviceTakes PROVE TypeOK'
  <2>1. cur \in Call /\ key[cur] \in Key \cup {NoKey}
    BY <1>30 DEF DeviceTakes, IInv, WorkerInv, TypeOK
  <2>2. key[cur] \in Key
    BY <1>30, <2>1 DEF DeviceTakes, IInv, WorkerInv, CallInv, TypeOK, Ops
  <2>3. StateFrame("state", cur, key[cur]) \in Frames
    BY <2>1, <2>2 DEF StateFrame, Frames, TypeOK
  <2>4. DoneFrame(cur, key[cur]) \in Frames
    BY <2>1, <2>2 DEF DoneFrame, Frames, Image
  <2>5. line' \in Seq(Frames)
    <3>1. /\ line \in Seq(Frames)
          /\ Append(line, StateFrame("state", cur, key[cur])) \in Seq(Frames)
          /\ Append(line, DoneFrame(cur, key[cur])) \in Seq(Frames)
      BY <2>3, <2>4, LineType DEF TypeOK
    <3> QED
      BY <1>30, <3>1 DEF DeviceTakes
  <2>6. op[cur] = "set" /\ wpc = "exch" => frame \in Image
    BY DEF IInv, WorkerInv
  <2>7. dev' \in [Key -> Image]
    BY <1>30, <2>2, <2>6 DEF DeviceTakes, TypeOK
  <2> QED
    BY <1>30, <2>5, <2>7 DEF DeviceTakes, TypeOK
<1>31. ASSUME Deliver PROVE TypeOK'
  <2> DEFINE m == Head(line)
  <2>1. /\ line' \in Seq(Frames) /\ m.key \in Key \cup {NoKey} /\ m.img \in Image
    BY <1>31, LineType DEF Deliver
  <2>2. fut' \in [Call -> {"none", "pending"} \cup Settled]
    BY <1>31, SettleType DEF Deliver, TypeOK, Settled
  <2>3. moduleStates' \in [Key -> Image]
    <3>1. m.key \in Key => ApplyGroupState(m.key, m.img) \in Image
      BY <2>1, ApplyGroupStateType
    <3> QED
      BY <1>31, <2>1, <3>1 DEF Deliver, TypeOK
  <2>4. recent' \in [Key -> BOOLEAN]
    BY <1>31 DEF Deliver, TypeOK
  <2>5. reply' \in Image \cup {NoImage}
    BY <1>31, <2>1 DEF Deliver, TypeOK
  <2>6. reported' \in [Key -> Writes]
    <3>1. m.key \in Key => Report(m.key, m.img) \in [Key -> Writes]
      BY <2>1, ReportType
    <3>2. CASE m.key \in Key
      BY <1>31, <3>1, <3>2 DEF Deliver, TypeOK
    <3>3. CASE m.key = NoKey
      <4>1. Report(m.key, m.img) = reported
        BY <3>3 DEF Report, TypeOK <4> QED
        BY <1>31, <4>1 DEF Deliver, TypeOK
    <3> QED
      BY <2>1, <3>2, <3>3
  <2> QED
    BY <1>31, <2>1, <2>2, <2>3, <2>4, <2>5, <2>6 DEF Deliver, TypeOK
<1>32. ASSUME NEW k \in Key, FeedbackPush(k) PROVE TypeOK'
  <2>1. StateFrame("push", NoCall, k) \in Frames
    BY DEF StateFrame, Frames, TypeOK
  <2>2. line' \in Seq(Frames)
    BY <1>32, <2>1, LineType DEF FeedbackPush
  <2> QED
    BY <1>32, <2>2 DEF FeedbackPush, TypeOK
<1>33. ASSUME NEW k \in Key, Age(k) PROVE TypeOK'
  BY <1>33 DEF Age, TypeOK
<1>34. ASSUME NEW k \in Key, NEW ch \in Chan, NEW v \in Val, Wall(k, ch, v)
       PROVE TypeOK'
  BY <1>34 DEF Wall, Image, TypeOK
<1>35. CASE UNCHANGED vars
  BY <1>35 DEF TypeOK
<1> QED
  BY <1>1, <1>2, <1>3, <1>4, <1>5, <1>6, <1>7, <1>8, <1>9, <1>10, <1>11, <1>12,
     <1>13, <1>14, <1>15, <1>16, <1>17, <1>18, <1>19, <1>20, <1>21, <1>22, <1>23,
     <1>24, <1>25, <1>26, <1>27, <1>28, <1>29, <1>30, <1>31, <1>32, <1>33, <1>34,
     <1>35 DEF Next, CallStep, WorkerStep, LifecycleStep, EnvStep

-----------------------------------------------------------------------------
(* The other parts of the invariant. *)

\* The invariant holds initially.
LEMMA InitInv == Init => IInv
<1> SUFFICES ASSUME Init PROVE IInv
  OBVIOUS
<1>1. CallInv /\ QueueInv /\ WorkerInv /\ KeyInv
  BY CommandAssumption DEF Init, CallInv, QueueInv, WorkerInv, KeyInv, InQueue
<1> QED
  BY <1>1, InitType DEF IInv

\* The item the worker pops is one that is queued.
LEMMA PopItem ==
    ASSUME IInv, commandQueue # <<>>
    PROVE  /\ Head(commandQueue) \in Call
           /\ loc[Head(commandQueue)] = "queue"
           /\ op[Head(commandQueue)] # "none"
           /\ Head(commandQueue) # cur
<1>1. Head(commandQueue) \in Call
  BY PopType DEF IInv
<1>2. 1 \in DOMAIN commandQueue /\ Head(commandQueue) = commandQueue[1]
  BY DEF IInv, TypeOK
<1>3. loc[Head(commandQueue)] = "queue"
  BY <1>2 DEF IInv, QueueInv
<1> QED
  BY <1>1, <1>3 DEF IInv, CallInv, WorkerInv

\* put keeps the queue and the places of the items in agreement.
LEMMA PutQueue ==
    ASSUME IInv, NEW c \in Call, loc[c] # "queue", Put(c)
    PROVE  QueueInv'
<1>1. commandQueue \in Seq(Call) /\ loc \in [Call -> {"none", "put", "queue", "worker", "gone"}]
  BY DEF IInv, TypeOK
<1>2. CASE commandQueue' = commandQueue /\ loc' = [loc EXCEPT ![c] = "put"]
  BY <1>1, <1>2 DEF IInv, QueueInv, InQueue
<1>3. CASE commandQueue' = Append(commandQueue, c) /\ loc' = [loc EXCEPT ![c] = "queue"]
  <2> DEFINE n == Len(commandQueue)
  <2>1. /\ n \in Nat /\ DOMAIN commandQueue = 1 .. n /\ DOMAIN commandQueue' = 1 .. (n + 1)
        /\ commandQueue'[n + 1] = c
        /\ \A i \in 1 .. n : commandQueue'[i] = commandQueue[i] /\ commandQueue[i] \in Call
    BY <1>1, <1>3
  <2>2. \A i \in 1 .. n : loc[commandQueue[i]] = "queue" /\ commandQueue[i] # c
    BY <2>1 DEF IInv, QueueInv
  <2>3. \A i \in DOMAIN commandQueue' : loc'[commandQueue'[i]] = "queue"
    BY <1>1, <1>3, <2>1, <2>2
  <2>4. \A i, j \in DOMAIN commandQueue' : commandQueue'[i] = commandQueue'[j] => i = j
    BY <2>1, <2>2 DEF IInv, QueueInv
  <2>5. \A d \in Call : loc'[d] = "queue" => InQueue(d)'
    BY <1>1, <1>3, <2>1 DEF IInv, QueueInv, InQueue
  <2> QED
    BY <2>3, <2>4, <2>5 DEF QueueInv
<1> QED
  BY <1>2, <1>3 DEF Put

\* So does taking the oldest item off the queue.
LEMMA PopQueue ==
    ASSUME IInv, commandQueue # <<>>, commandQueue' = Tail(commandQueue),
           NEW place, place # "queue",
           loc' = [loc EXCEPT ![Head(commandQueue)] = place]
    PROVE  QueueInv'
<1> DEFINE n == Len(commandQueue)
<1>1. commandQueue \in Seq(Call) /\ loc \in [Call -> {"none", "put", "queue", "worker", "gone"}]
  BY DEF IInv, TypeOK
<1>2. /\ n \in Nat \ {0} /\ DOMAIN commandQueue = 1 .. n /\ DOMAIN commandQueue' = 1 .. (n - 1)
      /\ Head(commandQueue) = commandQueue[1]
      /\ \A i \in 1 .. n : commandQueue[i] \in Call
      /\ \A i \in 1 .. (n - 1) : commandQueue'[i] = commandQueue[i + 1]
  BY <1>1
<1>3. \A i, j \in 1 .. n : commandQueue[i] = commandQueue[j] => i = j
  BY <1>2 DEF IInv, QueueInv
<1>4. \A i \in 1 .. (n - 1) : commandQueue'[i] # commandQueue[1]
  BY <1>2, <1>3
<1>5. \A i \in DOMAIN commandQueue' : loc'[commandQueue'[i]] = "queue"
  BY <1>1, <1>2, <1>4 DEF IInv, QueueInv
<1>6. \A i, j \in DOMAIN commandQueue' : commandQueue'[i] = commandQueue'[j] => i = j
  BY <1>2, <1>3
<1>7. \A d \in Call : loc'[d] = "queue" => InQueue(d)'
  <2> SUFFICES ASSUME NEW d \in Call, loc'[d] = "queue" PROVE InQueue(d)'
    OBVIOUS
  <2>1. d # commandQueue[1] /\ loc[d] = "queue"
    BY <1>1, <1>2
  <2>2. PICK i \in 1 .. n : commandQueue[i] = d
    BY <1>2, <2>1 DEF IInv, QueueInv, InQueue
  <2>3. i - 1 \in 1 .. (n - 1) /\ commandQueue'[i - 1] = d
    BY <1>2, <2>1, <2>2
  <2> QED
    BY <1>2, <2>3 DEF InQueue
<1> QED
  BY <1>5, <1>6, <1>7 DEF QueueInv

\* Every step keeps calls, futures and waiters in agreement.
LEMMA StepCall == IInv /\ [Next]_vars => CallInv'
<1> SUFFICES ASSUME IInv, [Next]_vars PROVE CallInv'
  OBVIOUS
<1> USE DEF vars, callVars, getVars, setVars, bufVars, workVars, extVars, histVars
<1>1. ASSUME NEW c \in Call, NEW k \in Key, GetCall(c, k) PROVE CallInv'
  BY <1>1, CommandAssumption DEF GetCall, MakeCall, Put, IInv, TypeOK, CallInv
<1>2. ASSUME NEW c \in Call, NEW k \in Key, QueryCall(c, k) PROVE CallInv'
  BY <1>2, CommandAssumption DEF QueryCall, MakeCall, Put, IInv, TypeOK, CallInv
<1>3. ASSUME NEW c \in Call, NEW k \in Key, NEW ch \in Chan, NEW v \in Val, SetCall(c, k, ch, v)
      PROVE CallInv'
  BY <1>3, CommandAssumption DEF SetCall, MakeCall, Put, IInv, TypeOK, CallInv
<1>4. ASSUME NEW c \in Call, PressCall(c) PROVE CallInv'
  BY <1>4, CommandAssumption DEF PressCall, MakeCall, Put, IInv, TypeOK, CallInv
<1>5. ASSUME NEW c \in Call, Unblock(c) PROVE CallInv'
  BY <1>5, CommandAssumption DEF Unblock, Put, IInv, TypeOK, CallInv
<1>6. ASSUME NEW c \in Call, GetAbandon(c) PROVE CallInv'
  BY <1>6, CommandAssumption DEF GetAbandon, LeaveGet, ReleaseGetKey, Settle,
     Settled, IInv, TypeOK, CallInv
<1>7. ASSUME NEW c \in Call, GetCancelBlocked(c) PROVE CallInv'
  BY <1>7, CommandAssumption DEF GetCancelBlocked, LeaveGet, ReleaseGetKey, Settle,
     Settled, IInv, TypeOK, CallInv
<1>8. ASSUME NEW c \in Call, GetReturn(c) PROVE CallInv'
  BY <1>8, CommandAssumption DEF GetReturn, LeaveGet, ReleaseGetKey, Done, Settled,
     IInv, TypeOK, CallInv
<1>9. ASSUME NEW c \in Call, QueryAbandon(c) PROVE CallInv'
  BY <1>9, CommandAssumption DEF QueryAbandon, Settle, Settled, IInv, TypeOK, CallInv
<1>10. ASSUME NEW c \in Call, SetAbandon(c) PROVE CallInv'
  BY <1>10, CommandAssumption DEF SetAbandon, IInv, TypeOK, CallInv
<1>11. ASSUME NEW c \in Call, CancelBlocked(c) PROVE CallInv'
  BY <1>11, CommandAssumption DEF CancelBlocked, IInv, TypeOK, CallInv
<1>12. ASSUME PopSkip PROVE CallInv'
  BY <1>12, PopItem DEF PopSkip, IInv, TypeOK, CallInv
<1>13. ASSUME PopTake PROVE CallInv'
  BY <1>13, PopItem DEF PopTake, IInv, TypeOK, CallInv
<1>14. ASSUME ReadDone PROVE CallInv'
  BY <1>14, CommandAssumption DEF ReadDone, ReleaseBus, Settle, Settled, IInv,
     TypeOK, CallInv
<1>15. ASSUME GetAnswered PROVE CallInv'
  BY <1>15, CommandAssumption DEF GetAnswered, ReleaseBus, Settle, Settled, IInv,
     TypeOK, CallInv
<1>16. ASSUME OtherAnswered PROVE CallInv'
  BY <1>16, CommandAssumption DEF OtherAnswered, ReleaseBus, Settle, Settled, IInv,
     TypeOK, CallInv
<1>17. ASSUME ExchangeFails PROVE CallInv'
  BY <1>17, CommandAssumption DEF ExchangeFails, ReleaseBus, Settle, Settled, IInv,
     TypeOK, CallInv
<1>18. ASSUME PostDone PROVE CallInv'
  <2>1. cur \in Call /\ op[cur] # "none"
    BY <1>18 DEF PostDone, IInv, TypeOK, WorkerInv
  <2> QED
    BY <1>18, <2>1 DEF PostDone, IInv, TypeOK, CallInv
<1>19. ASSUME StopBegin PROVE CallInv'
  BY <1>19, CommandAssumption DEF StopBegin, ClearGetKeys, Settle, Settled, IInv,
     TypeOK, CallInv
<1>20. ASSUME WorkerCancelled PROVE CallInv'
  <2>1. cur # NoCall => cur \in Call /\ op[cur] # "none"
    BY DEF IInv, TypeOK, WorkerInv
  <2>2. \A d \in Call : fut'[d] = fut[d] \/ (d = cur /\ fut'[d] = "cancelled")
    BY <1>20, CommandAssumption DEF WorkerCancelled, CancelledByStop, Settle, IInv,
       TypeOK
  <2>3. \A d \in Call : loc'[d] = loc[d] \/ d = cur
    BY <1>20, <2>1 DEF WorkerCancelled, IInv, TypeOK
  <2> QED
    BY <1>20, <2>1, <2>2, <2>3, CommandAssumption DEF WorkerCancelled, IInv, TypeOK,
       CallInv
<1>21. ASSUME StopFinish PROVE CallInv'
  BY <1>21, CommandAssumption DEF StopFinish, DrainQueue, ClearSetGroups, Settle,
     Settled, IInv, TypeOK, CallInv
<1>22. ASSUME Reset PROVE CallInv'
  BY <1>22, CommandAssumption DEF Reset, DrainQueue, ClearGetKeys, ClearSetGroups,
     Settle, Settled, IInv, TypeOK, CallInv
<1>23. ASSUME Deliver PROVE CallInv'
  BY <1>23, CommandAssumption DEF Deliver, Settle, Settled, IInv, TypeOK, CallInv
<1>24. ASSUME WindowEnd \/ Acquire \/ ReadFail \/ PressSent \/ Start \/ ScanAcquire
             \/ ScanRelease \/ DeviceTakes
      PROVE  CallInv'
  BY <1>24 DEF WindowEnd, Acquire, ReadFail, PressSent, Start, ScanAcquire,
     ScanRelease, DeviceTakes, IInv, TypeOK, CallInv
<1>25. ASSUME NEW k \in Key,
             FeedbackPush(k) \/ Age(k)
      PROVE  CallInv'
  BY <1>25 DEF FeedbackPush, Age, IInv, TypeOK, CallInv
<1>26. ASSUME NEW k \in Key, NEW ch \in Chan, NEW v \in Val,
             Wall(k, ch, v)
      PROVE  CallInv'
  BY <1>26 DEF Wall, IInv, TypeOK, CallInv
<1>27. CASE UNCHANGED vars
  BY <1>27 DEF IInv, TypeOK, CallInv
<1> QED
  BY <1>1, <1>2, <1>3, <1>4, <1>5, <1>6, <1>7, <1>8, <1>9, <1>10, <1>11, <1>12,
     <1>13, <1>14, <1>15, <1>16, <1>17, <1>18, <1>19, <1>20, <1>21, <1>22, <1>23,
     <1>24, <1>25, <1>26, <1>27 DEF Next, CallStep, WorkerStep, LifecycleStep,
     EnvStep

\* Every step keeps the worker's place and the item it holds in agreement.
LEMMA StepWorker == IInv /\ [Next]_vars => WorkerInv'
<1> SUFFICES ASSUME IInv, [Next]_vars PROVE WorkerInv'
  OBVIOUS
<1> USE DEF vars, callVars, getVars, setVars, bufVars, workVars, extVars, histVars
<1>1. ASSUME NEW c \in Call, NEW k \in Key, GetCall(c, k) PROVE WorkerInv'
  BY <1>1, CommandAssumption DEF GetCall, MakeCall, Put, IInv, TypeOK, CallInv,
     QueueInv, WorkerInv
<1>2. ASSUME NEW c \in Call, NEW k \in Key, QueryCall(c, k) PROVE WorkerInv'
  BY <1>2, CommandAssumption DEF QueryCall, MakeCall, Put, IInv, TypeOK, CallInv,
     QueueInv, WorkerInv
<1>3. ASSUME NEW c \in Call, NEW k \in Key, NEW ch \in Chan, NEW v \in Val, SetCall(c, k, ch, v)
      PROVE WorkerInv'
  BY <1>3, CommandAssumption DEF SetCall, MakeCall, Put, IInv, TypeOK, CallInv,
     QueueInv, WorkerInv
<1>4. ASSUME NEW c \in Call, PressCall(c) PROVE WorkerInv'
  BY <1>4, CommandAssumption DEF PressCall, MakeCall, Put, IInv, TypeOK, CallInv,
     QueueInv, WorkerInv
<1>5. ASSUME NEW c \in Call, Unblock(c) PROVE WorkerInv'
  BY <1>5, CommandAssumption DEF Unblock, Put, IInv, TypeOK, CallInv, QueueInv,
     WorkerInv
<1>6. ASSUME NEW c \in Call, GetCancelBlocked(c) PROVE WorkerInv'
  BY <1>6, CommandAssumption DEF GetCancelBlocked, LeaveGet, ReleaseGetKey, IInv,
     TypeOK, CallInv, QueueInv, WorkerInv
<1>7. ASSUME NEW c \in Call, CancelBlocked(c) PROVE WorkerInv'
  BY <1>7, CommandAssumption DEF CancelBlocked, IInv, TypeOK, CallInv, QueueInv,
     WorkerInv
<1>8. ASSUME PopSkip PROVE WorkerInv'
  BY <1>8, CommandAssumption DEF PopSkip, ReleaseGetKey, ReleaseSetGroup, IInv,
     TypeOK, CallInv, QueueInv, WorkerInv
<1>9. ASSUME PopTake PROVE WorkerInv'
  BY <1>9, CommandAssumption DEF PopTake, ReleaseGetKey, IInv, TypeOK, CallInv,
     QueueInv, WorkerInv
<1>10. ASSUME WindowEnd PROVE WorkerInv'
  <2>1. cur \in Call /\ key[cur] \in Key /\ op[cur] = "set"
    BY <1>10 DEF WindowEnd, IInv, TypeOK, CallInv, WorkerInv
  <2>2. moduleStates[key[cur]] \in Image
    BY <2>1 DEF IInv, TypeOK
  <2>3. recent[key[cur]] => frame' \in Image /\ wpc' = "lock"
    BY <1>10, <2>1, <2>2, BuildFrameType DEF WindowEnd, IInv
  <2> QED
    BY <1>10, <2>1, <2>3 DEF WindowEnd, IInv, TypeOK, WorkerInv
<1>11. ASSUME Acquire PROVE WorkerInv'
  BY <1>11, CommandAssumption DEF Acquire, IInv, TypeOK, CallInv, QueueInv, WorkerInv
<1>12. ASSUME ReadDone PROVE WorkerInv'
  <2>1. cur \in Call /\ key[cur] \in Key /\ op[cur] = "set"
    BY <1>12 DEF ReadDone, IInv, TypeOK, CallInv, WorkerInv
  <2>2. ApplyGroupState(key[cur], reply) \in Image
    BY <1>12, <2>1, ApplyGroupStateType DEF ReadDone, IInv, TypeOK
  <2>3. frame' \in Image /\ wpc' = "lock"
    BY <1>12, <2>1, <2>2, BuildFrameType DEF ReadDone, IInv
  <2> QED
    BY <1>12, <2>1, <2>3 DEF ReadDone, IInv, TypeOK, WorkerInv
<1>13. ASSUME ReadFail PROVE WorkerInv'
  <2>1. cur \in Call /\ key[cur] \in Key /\ op[cur] = "set"
    BY <1>13 DEF ReadFail, IInv, TypeOK, CallInv, WorkerInv
  <2>2. moduleStates[key[cur]] \in Image
    BY <2>1 DEF IInv, TypeOK
  <2>3. frame' \in Image /\ wpc' = "lock"
    BY <1>13, <2>1, <2>2, BuildFrameType DEF ReadFail, IInv
  <2> QED
    BY <1>13, <2>1, <2>3 DEF ReadFail, IInv, TypeOK, WorkerInv
<1>14. ASSUME GetAnswered PROVE WorkerInv'
  BY <1>14, CommandAssumption DEF GetAnswered, ReleaseBus, IInv, TypeOK, CallInv,
     QueueInv, WorkerInv
<1>15. ASSUME OtherAnswered PROVE WorkerInv'
  BY <1>15, CommandAssumption DEF OtherAnswered, ReleaseBus, IInv, TypeOK, CallInv,
     QueueInv, WorkerInv
<1>16. ASSUME ExchangeFails PROVE WorkerInv'
  BY <1>16, CommandAssumption DEF ExchangeFails, ReleaseBus, IInv, TypeOK, CallInv,
     QueueInv, WorkerInv
<1>17. ASSUME PressSent PROVE WorkerInv'
  BY <1>17, CommandAssumption DEF PressSent, ReleaseBus, IInv, TypeOK, CallInv,
     QueueInv, WorkerInv
<1>18. ASSUME PostDone PROVE WorkerInv'
  BY <1>18, CommandAssumption DEF PostDone, ClearWriting, IInv, TypeOK, CallInv,
     QueueInv, WorkerInv
<1>19. ASSUME Start PROVE WorkerInv'
  BY <1>19, CommandAssumption DEF Start, IInv, TypeOK, CallInv, QueueInv, WorkerInv
<1>20. ASSUME WorkerCancelled PROVE WorkerInv'
  BY <1>20, CommandAssumption DEF WorkerCancelled, ClearWriting, IInv, TypeOK,
     CallInv, QueueInv, WorkerInv
<1>21. ASSUME StopFinish PROVE WorkerInv'
  BY <1>21, CommandAssumption DEF StopFinish, DrainQueue, ClearSetGroups, IInv,
     TypeOK, CallInv, QueueInv, WorkerInv
<1>22. ASSUME Reset PROVE WorkerInv'
  BY <1>22, CommandAssumption DEF Reset, DrainQueue, ClearGetKeys, ClearSetGroups,
     IInv, TypeOK, CallInv, QueueInv, WorkerInv
<1>23. ASSUME StopBegin \/ ScanAcquire \/ ScanRelease \/ DeviceTakes \/ Deliver
      PROVE  WorkerInv'
  BY <1>23 DEF StopBegin, ScanAcquire, ScanRelease, DeviceTakes, Deliver, IInv,
     TypeOK, CallInv, QueueInv, WorkerInv
<1>24. ASSUME NEW c \in Call,
             GetAbandon(c) \/ GetReturn(c) \/ QueryAbandon(c) \/ SetAbandon(c)
      PROVE  WorkerInv'
  BY <1>24 DEF GetAbandon, LeaveGet, GetReturn, QueryAbandon, SetAbandon, IInv,
     TypeOK, CallInv, QueueInv, WorkerInv
<1>25. ASSUME NEW k \in Key,
             FeedbackPush(k) \/ Age(k)
      PROVE  WorkerInv'
  BY <1>25 DEF FeedbackPush, Age, IInv, TypeOK, CallInv, QueueInv, WorkerInv
<1>26. ASSUME NEW k \in Key, NEW ch \in Chan, NEW v \in Val,
             Wall(k, ch, v)
      PROVE  WorkerInv'
  BY <1>26 DEF Wall, IInv, TypeOK, CallInv, QueueInv, WorkerInv
<1>27. CASE UNCHANGED vars
  BY <1>27 DEF IInv, TypeOK, CallInv, QueueInv, WorkerInv
<1> QED
  BY <1>1, <1>2, <1>3, <1>4, <1>5, <1>6, <1>7, <1>8, <1>9, <1>10, <1>11, <1>12,
     <1>13, <1>14, <1>15, <1>16, <1>17, <1>18, <1>19, <1>20, <1>21, <1>22, <1>23,
     <1>24, <1>25, <1>26, <1>27 DEF Next, CallStep, WorkerStep, LifecycleStep,
     EnvStep

\* No step leaves a dedup key with a read that is no longer coming.
LEMMA StepKey == IInv /\ [Next]_vars => KeyInv'
<1> SUFFICES ASSUME IInv, [Next]_vars PROVE KeyInv'
  OBVIOUS
<1> USE DEF vars, callVars, getVars, setVars, bufVars, workVars, extVars, histVars
<1>1. ASSUME NEW c \in Call, NEW k \in Key, GetCall(c, k) PROVE KeyInv'
  <2>1. op[c] = "none" /\ op'[c] = "get" /\ key'[c] = k
    BY <1>1 DEF GetCall, MakeCall, IInv, TypeOK, CallInv
  <2>2. \A d \in Call \ {c} : op'[d] = op[d] /\ key'[d] = key[d] /\ loc'[d] = loc[d]
    BY <1>1 DEF GetCall, MakeCall, Put, IInv, TypeOK
  <2>3. \A j \in Key : queuedGetKeys[j] # NoCall => queuedGetKeys[j] \in Call \ {c}
    BY <2>1 DEF IInv, TypeOK, KeyInv
  <2>4. CASE queuedGetKeys[k] # NoCall
    BY <1>1, <2>2, <2>3, <2>4 DEF GetCall, IInv, KeyInv
  <2>5. CASE queuedGetKeys[k] = NoCall
    <3>1. queuedGetKeys' = [queuedGetKeys EXCEPT ![k] = c] /\ loc'[c] \in {"queue", "put"}
      BY <1>1, <2>5 DEF GetCall, Put, IInv, TypeOK
    <3> QED
      BY <2>1, <2>2, <2>3, <3>1 DEF IInv, TypeOK, KeyInv
  <2> QED
    BY <2>4, <2>5
<1>2. ASSUME NEW c \in Call, NEW k \in Key, QueryCall(c, k) PROVE KeyInv'
  BY <1>2, CommandAssumption DEF QueryCall, MakeCall, Put, IInv, TypeOK, CallInv,
     QueueInv, WorkerInv, KeyInv
<1>3. ASSUME NEW c \in Call, NEW k \in Key, NEW ch \in Chan, NEW v \in Val, SetCall(c, k, ch, v)
      PROVE KeyInv'
  BY <1>3, CommandAssumption DEF SetCall, MakeCall, Put, IInv, TypeOK, CallInv,
     QueueInv, WorkerInv, KeyInv
<1>4. ASSUME NEW c \in Call, PressCall(c) PROVE KeyInv'
  BY <1>4, CommandAssumption DEF PressCall, MakeCall, Put, IInv, TypeOK, CallInv,
     QueueInv, WorkerInv, KeyInv
<1>5. ASSUME NEW c \in Call, Unblock(c) PROVE KeyInv'
  BY <1>5, CommandAssumption DEF Unblock, Put, IInv, TypeOK, CallInv, QueueInv,
     WorkerInv, KeyInv
<1>6. ASSUME NEW c \in Call, GetAbandon(c) PROVE KeyInv'
  BY <1>6, CommandAssumption DEF GetAbandon, LeaveGet, ReleaseGetKey, IInv, TypeOK,
     CallInv, QueueInv, WorkerInv, KeyInv
<1>7. ASSUME NEW c \in Call, GetCancelBlocked(c) PROVE KeyInv'
  BY <1>7, CommandAssumption DEF GetCancelBlocked, LeaveGet, ReleaseGetKey, IInv,
     TypeOK, CallInv, QueueInv, WorkerInv, KeyInv
<1>8. ASSUME NEW c \in Call, GetReturn(c) PROVE KeyInv'
  BY <1>8, CommandAssumption DEF GetReturn, LeaveGet, ReleaseGetKey, IInv, TypeOK,
     CallInv, QueueInv, WorkerInv, KeyInv
<1>9. ASSUME NEW c \in Call, CancelBlocked(c) PROVE KeyInv'
  BY <1>9, CommandAssumption DEF CancelBlocked, IInv, TypeOK, CallInv, QueueInv,
     WorkerInv, KeyInv
<1>10. ASSUME PopSkip PROVE KeyInv'
  BY <1>10, CommandAssumption DEF PopSkip, ReleaseGetKey, ReleaseSetGroup, IInv,
     TypeOK, CallInv, QueueInv, WorkerInv, KeyInv
<1>11. ASSUME PopTake PROVE KeyInv'
  BY <1>11, CommandAssumption DEF PopTake, ReleaseGetKey, IInv, TypeOK, CallInv,
     QueueInv, WorkerInv, KeyInv
<1>12. ASSUME PostDone PROVE KeyInv'
  BY <1>12, CommandAssumption DEF PostDone, ClearWriting, IInv, TypeOK, CallInv,
     QueueInv, WorkerInv, KeyInv
<1>13. ASSUME StopBegin PROVE KeyInv'
  BY <1>13, CommandAssumption DEF StopBegin, ClearGetKeys, IInv, TypeOK, CallInv,
     QueueInv, WorkerInv, KeyInv
<1>14. ASSUME WorkerCancelled PROVE KeyInv'
  BY <1>14, CommandAssumption DEF WorkerCancelled, ClearWriting, IInv, TypeOK,
     CallInv, QueueInv, WorkerInv, KeyInv
<1>15. ASSUME StopFinish PROVE KeyInv'
  BY <1>15, CommandAssumption DEF StopFinish, DrainQueue, ClearSetGroups, IInv,
     TypeOK, CallInv, QueueInv, WorkerInv, KeyInv
<1>16. ASSUME Reset PROVE KeyInv'
  BY <1>16, CommandAssumption DEF Reset, DrainQueue, ClearGetKeys, ClearSetGroups,
     IInv, TypeOK, CallInv, QueueInv, WorkerInv, KeyInv
<1>17. ASSUME WindowEnd \/ Acquire \/ ReadDone \/ ReadFail \/ GetAnswered \/
             OtherAnswered \/ ExchangeFails \/ PressSent \/ Start \/ ScanAcquire \/
             ScanRelease \/ DeviceTakes \/ Deliver
      PROVE  KeyInv'
  BY <1>17 DEF WindowEnd, Acquire, ReadDone, ReadFail, GetAnswered, OtherAnswered,
     ExchangeFails, PressSent, Start, ScanAcquire, ScanRelease, DeviceTakes,
     Deliver, IInv, TypeOK, CallInv, QueueInv, WorkerInv, KeyInv
<1>18. ASSUME NEW c \in Call,
             QueryAbandon(c) \/ SetAbandon(c)
      PROVE  KeyInv'
  BY <1>18 DEF QueryAbandon, SetAbandon, IInv, TypeOK, CallInv, QueueInv, WorkerInv,
     KeyInv
<1>19. ASSUME NEW k \in Key,
             FeedbackPush(k) \/ Age(k)
      PROVE  KeyInv'
  BY <1>19 DEF FeedbackPush, Age, IInv, TypeOK, CallInv, QueueInv, WorkerInv, KeyInv
<1>20. ASSUME NEW k \in Key, NEW ch \in Chan, NEW v \in Val,
             Wall(k, ch, v)
      PROVE  KeyInv'
  BY <1>20 DEF Wall, IInv, TypeOK, CallInv, QueueInv, WorkerInv, KeyInv
<1>21. CASE UNCHANGED vars
  BY <1>21 DEF IInv, TypeOK, CallInv, QueueInv, WorkerInv, KeyInv
<1> QED
  BY <1>1, <1>2, <1>3, <1>4, <1>5, <1>6, <1>7, <1>8, <1>9, <1>10, <1>11, <1>12,
     <1>13, <1>14, <1>15, <1>16, <1>17, <1>18, <1>19, <1>20, <1>21 DEF Next,
     CallStep, WorkerStep, LifecycleStep, EnvStep

\* No step loses a queued item, or queues one twice.
LEMMA StepQueue == IInv /\ [Next]_vars => QueueInv'
<1> SUFFICES ASSUME IInv, [Next]_vars PROVE QueueInv'
  OBVIOUS
<1> USE DEF vars, callVars, getVars, setVars, bufVars, workVars, extVars, histVars
<1>1. ASSUME NEW c \in Call, NEW k \in Key, GetCall(c, k) PROVE QueueInv'
  <2>1. loc[c] # "queue"
    BY <1>1 DEF GetCall, MakeCall, IInv, CallInv
  <2>2. CASE Put(c)
    BY <2>1, <2>2, PutQueue
  <2>3. CASE UNCHANGED <<commandQueue, loc>>
    BY <2>3 DEF IInv, QueueInv, InQueue
  <2> QED
    BY <1>1, <2>2, <2>3 DEF GetCall
<1>2. ASSUME NEW c \in Call, NEW k \in Key, QueryCall(c, k) PROVE QueueInv'
  BY <1>2, PutQueue DEF QueryCall, MakeCall, IInv, TypeOK, CallInv, QueueInv, InQueue
<1>3. ASSUME NEW c \in Call, NEW k \in Key, NEW ch \in Chan, NEW v \in Val, SetCall(c, k, ch, v)
      PROVE QueueInv'
  <2>1. loc[c] # "queue"
    BY <1>3 DEF SetCall, MakeCall, IInv, CallInv
  <2>2. CASE Put(c)
    BY <2>1, <2>2, PutQueue
  <2>3. CASE UNCHANGED <<commandQueue, loc>>
    BY <2>3 DEF IInv, QueueInv, InQueue
  <2> QED
    BY <1>3, <2>2, <2>3 DEF SetCall
<1>4. ASSUME NEW c \in Call, PressCall(c) PROVE QueueInv'
  BY <1>4, PutQueue DEF PressCall, MakeCall, IInv, TypeOK, CallInv, QueueInv, InQueue
<1>5. ASSUME NEW c \in Call, Unblock(c) PROVE QueueInv'
  BY <1>5, PutQueue DEF Unblock, IInv, TypeOK, CallInv, QueueInv, InQueue
<1>6. ASSUME NEW c \in Call, GetCancelBlocked(c) PROVE QueueInv'
  BY <1>6, CommandAssumption DEF GetCancelBlocked, LeaveGet, ReleaseGetKey, IInv,
     TypeOK, CallInv, QueueInv, WorkerInv, InQueue
<1>7. ASSUME NEW c \in Call, CancelBlocked(c) PROVE QueueInv'
  BY <1>7, CommandAssumption DEF CancelBlocked, IInv, TypeOK, CallInv, QueueInv,
     WorkerInv, InQueue
<1>8. ASSUME PopSkip PROVE QueueInv'
  BY <1>8, PopQueue DEF PopSkip
<1>9. ASSUME PopTake PROVE QueueInv'
  BY <1>9, PopQueue DEF PopTake
<1>10. ASSUME PostDone PROVE QueueInv'
  BY <1>10, CommandAssumption DEF PostDone, ClearWriting, IInv, TypeOK, CallInv,
     QueueInv, WorkerInv, InQueue
<1>11. ASSUME WorkerCancelled PROVE QueueInv'
  BY <1>11, CommandAssumption DEF WorkerCancelled, ClearWriting, IInv, TypeOK,
     CallInv, QueueInv, WorkerInv, InQueue
<1>12. ASSUME StopFinish PROVE QueueInv'
  BY <1>12, CommandAssumption DEF StopFinish, DrainQueue, ClearSetGroups, IInv,
     TypeOK, CallInv, QueueInv, WorkerInv, InQueue
<1>13. ASSUME Reset PROVE QueueInv'
  BY <1>13, CommandAssumption DEF Reset, DrainQueue, ClearGetKeys, ClearSetGroups,
     IInv, TypeOK, CallInv, QueueInv, WorkerInv, InQueue
<1>14. ASSUME WindowEnd \/ Acquire \/ ReadDone \/ ReadFail \/ GetAnswered \/
             OtherAnswered \/ ExchangeFails \/ PressSent \/ Start \/ StopBegin \/
             ScanAcquire \/ ScanRelease \/ DeviceTakes \/ Deliver
      PROVE  QueueInv'
  BY <1>14 DEF WindowEnd, Acquire, ReadDone, ReadFail, GetAnswered, OtherAnswered,
     ExchangeFails, PressSent, Start, StopBegin, ScanAcquire, ScanRelease,
     DeviceTakes, Deliver, IInv, TypeOK, CallInv, QueueInv, WorkerInv, InQueue
<1>15. ASSUME NEW c \in Call,
             GetAbandon(c) \/ GetReturn(c) \/ QueryAbandon(c) \/ SetAbandon(c)
      PROVE  QueueInv'
  BY <1>15 DEF GetAbandon, LeaveGet, GetReturn, QueryAbandon, SetAbandon, IInv,
     TypeOK, CallInv, QueueInv, WorkerInv, InQueue
<1>16. ASSUME NEW k \in Key,
             FeedbackPush(k) \/ Age(k)
      PROVE  QueueInv'
  BY <1>16 DEF FeedbackPush, Age, IInv, TypeOK, CallInv, QueueInv, WorkerInv, InQueue
<1>17. ASSUME NEW k \in Key, NEW ch \in Chan, NEW v \in Val,
             Wall(k, ch, v)
      PROVE  QueueInv'
  BY <1>17 DEF Wall, IInv, TypeOK, CallInv, QueueInv, WorkerInv, InQueue
<1>18. CASE UNCHANGED vars
  BY <1>18 DEF IInv, TypeOK, CallInv, QueueInv, WorkerInv, InQueue
<1> QED
  BY <1>1, <1>2, <1>3, <1>4, <1>5, <1>6, <1>7, <1>8, <1>9, <1>10, <1>11, <1>12,
     <1>13, <1>14, <1>15, <1>16, <1>17, <1>18 DEF Next, CallStep, WorkerStep,
     LifecycleStep, EnvStep

-----------------------------------------------------------------------------
(* The theorems. *)

\* The invariant holds in every reachable state.
THEOREM Inductive == Spec => []IInv
<1>1. Init => IInv
  BY InitInv
<1>2. IInv /\ [Next]_vars => IInv'
  BY StepType, StepCall, StepQueue, StepWorker, StepKey DEF IInv
<1> QED
  BY <1>1, <1>2, PTL DEF Spec

\* Every variable of the command handler has its type; the command queue never
\* exceeds its maxsize.
THEOREM TypeCorrect == Spec => []TypeOK
<1>1. IInv => TypeOK
  BY DEF IInv
<1> QED
  BY <1>1, Inductive, PTL

\* _queued_get_keys: whatever callers, worker, stop, reset and cancellations do,
\* the dedup key of a group is held only by a read still to be popped.
THEOREM GetKeyOwner == Spec => []GetKeyOwnerQueued
<1>1. IInv => GetKeyOwnerQueued
  <2> SUFFICES ASSUME IInv, NEW k \in Key, queuedGetKeys[k] # NoCall
               PROVE  LET c == queuedGetKeys[k]
                      IN  op[c] = "get" /\ key[c] = k /\ Coming(c)
    BY DEF GetKeyOwnerQueued
  <2>1. queuedGetKeys[k] \in Call
    BY DEF IInv, TypeOK
  <2>2. loc[queuedGetKeys[k]] \in {"queue", "put"}
    BY DEF IInv, KeyInv
  <2> QED
    BY <2>1, <2>2 DEF IInv, KeyInv, QueueInv, Coming
<1> QED
  BY <1>1, Inductive, PTL

-----------------------------------------------------------------------------
(* One live read of a group, when the host never resets the handler. *)

\* A read that is still to be popped and whose caller waits owns the dedup key.
LiveInv ==
    \A c \in Call :
        (op[c] = "get" /\ loc[c] \in {"queue", "put"} /\ fut[c] = "pending") =>
            queuedGetKeys[key[c]] = c

\* No step takes the dedup key from a live read.
LEMMA StepLive == IInv /\ LiveInv /\ "reset" \notin HostOps /\ [Next]_vars => LiveInv'
<1> SUFFICES ASSUME IInv /\ LiveInv /\ "reset" \notin HostOps, [Next]_vars PROVE LiveInv'
  OBVIOUS
<1> USE DEF vars, callVars, getVars, setVars, bufVars, workVars, extVars, histVars
<1>1. ASSUME NEW c \in Call, NEW k \in Key, GetCall(c, k) PROVE LiveInv'
  BY <1>1, CommandAssumption DEF GetCall, MakeCall, Put, IInv, TypeOK, CallInv,
     QueueInv, WorkerInv, KeyInv, LiveInv
<1>2. ASSUME NEW c \in Call, NEW k \in Key, QueryCall(c, k) PROVE LiveInv'
  BY <1>2, CommandAssumption DEF QueryCall, MakeCall, Put, IInv, TypeOK, CallInv,
     QueueInv, WorkerInv, KeyInv, LiveInv
<1>3. ASSUME NEW c \in Call, NEW k \in Key, NEW ch \in Chan, NEW v \in Val, SetCall(c, k, ch, v)
      PROVE LiveInv'
  BY <1>3, CommandAssumption DEF SetCall, MakeCall, Put, IInv, TypeOK, CallInv,
     QueueInv, WorkerInv, KeyInv, LiveInv
<1>4. ASSUME NEW c \in Call, PressCall(c) PROVE LiveInv'
  BY <1>4, CommandAssumption DEF PressCall, MakeCall, Put, IInv, TypeOK, CallInv,
     QueueInv, WorkerInv, KeyInv, LiveInv
<1>5. ASSUME NEW c \in Call, Unblock(c) PROVE LiveInv'
  BY <1>5, CommandAssumption DEF Unblock, Put, IInv, TypeOK, CallInv, QueueInv,
     WorkerInv, KeyInv, LiveInv
<1>6. ASSUME NEW c \in Call, GetAbandon(c) PROVE LiveInv'
  BY <1>6, CommandAssumption DEF GetAbandon, LeaveGet, ReleaseGetKey, Settle,
     Settled, IInv, TypeOK, CallInv, QueueInv, WorkerInv, KeyInv, LiveInv
<1>7. ASSUME NEW c \in Call, GetCancelBlocked(c) PROVE LiveInv'
  BY <1>7, CommandAssumption DEF GetCancelBlocked, LeaveGet, ReleaseGetKey, Settle,
     Settled, IInv, TypeOK, CallInv, QueueInv, WorkerInv, KeyInv, LiveInv
<1>8. ASSUME NEW c \in Call, GetReturn(c) PROVE LiveInv'
  BY <1>8, CommandAssumption DEF GetReturn, LeaveGet, ReleaseGetKey, Done, Settled,
     IInv, TypeOK, CallInv, QueueInv, WorkerInv, KeyInv, LiveInv
<1>9. ASSUME NEW c \in Call, QueryAbandon(c) PROVE LiveInv'
  BY <1>9, CommandAssumption DEF QueryAbandon, Settle, Settled, IInv, TypeOK,
     CallInv, QueueInv, WorkerInv, KeyInv, LiveInv
<1>10. ASSUME NEW c \in Call, CancelBlocked(c) PROVE LiveInv'
  BY <1>10, CommandAssumption DEF CancelBlocked, IInv, TypeOK, CallInv, QueueInv,
     WorkerInv, KeyInv, LiveInv
<1>11. ASSUME PopSkip PROVE LiveInv'
  BY <1>11, CommandAssumption DEF PopSkip, ReleaseGetKey, ReleaseSetGroup, IInv,
     TypeOK, CallInv, QueueInv, WorkerInv, KeyInv, LiveInv
<1>12. ASSUME PopTake PROVE LiveInv'
  BY <1>12, CommandAssumption DEF PopTake, ReleaseGetKey, IInv, TypeOK, CallInv,
     QueueInv, WorkerInv, KeyInv, LiveInv
<1>13. ASSUME ReadDone PROVE LiveInv'
  BY <1>13, CommandAssumption DEF ReadDone, ReleaseBus, Settle, Settled, IInv,
     TypeOK, CallInv, QueueInv, WorkerInv, KeyInv, LiveInv
<1>14. ASSUME GetAnswered PROVE LiveInv'
  BY <1>14, CommandAssumption DEF GetAnswered, ReleaseBus, Settle, Settled, IInv,
     TypeOK, CallInv, QueueInv, WorkerInv, KeyInv, LiveInv
<1>15. ASSUME OtherAnswered PROVE LiveInv'
  BY <1>15, CommandAssumption DEF OtherAnswered, ReleaseBus, Settle, Settled, IInv,
     TypeOK, CallInv, QueueInv, WorkerInv, KeyInv, LiveInv
<1>16. ASSUME ExchangeFails PROVE LiveInv'
  BY <1>16, CommandAssumption DEF ExchangeFails, ReleaseBus, Settle, Settled, IInv,
     TypeOK, CallInv, QueueInv, WorkerInv, KeyInv, LiveInv
<1>17. ASSUME PostDone PROVE LiveInv'
  BY <1>17, CommandAssumption DEF PostDone, ClearWriting, IInv, TypeOK, CallInv,
     QueueInv, WorkerInv, KeyInv, LiveInv
<1>18. ASSUME StopBegin PROVE LiveInv'
  BY <1>18, CommandAssumption DEF StopBegin, ClearGetKeys, Settle, Settled, IInv,
     TypeOK, CallInv, QueueInv, WorkerInv, KeyInv, LiveInv
<1>19. ASSUME WorkerCancelled PROVE LiveInv'
  BY <1>19, CommandAssumption DEF WorkerCancelled, ClearWriting, Settle, Settled,
     IInv, TypeOK, CallInv, QueueInv, WorkerInv, KeyInv, LiveInv
<1>20. ASSUME StopFinish PROVE LiveInv'
  BY <1>20, CommandAssumption DEF StopFinish, DrainQueue, ClearSetGroups, Settle,
     Settled, IInv, TypeOK, CallInv, QueueInv, WorkerInv, KeyInv, LiveInv
<1>21. ASSUME Reset PROVE LiveInv'
  BY <1>21 DEF Reset
<1>22. ASSUME Deliver PROVE LiveInv'
  BY <1>22, CommandAssumption DEF Deliver, Settle, Settled, IInv, TypeOK, CallInv,
     QueueInv, WorkerInv, KeyInv, LiveInv
<1>23. ASSUME WindowEnd \/ Acquire \/ ReadFail \/ PressSent \/ Start \/ ScanAcquire
             \/ ScanRelease \/ DeviceTakes
      PROVE  LiveInv'
  BY <1>23 DEF WindowEnd, Acquire, ReadFail, PressSent, Start, ScanAcquire,
     ScanRelease, DeviceTakes, IInv, TypeOK, CallInv, QueueInv, WorkerInv, KeyInv,
     LiveInv
<1>24. ASSUME NEW c \in Call,
             SetAbandon(c)
      PROVE  LiveInv'
  BY <1>24 DEF SetAbandon, IInv, TypeOK, CallInv, QueueInv, WorkerInv, KeyInv, LiveInv
<1>25. ASSUME NEW k \in Key,
             FeedbackPush(k) \/ Age(k)
      PROVE  LiveInv'
  BY <1>25 DEF FeedbackPush, Age, IInv, TypeOK, CallInv, QueueInv, WorkerInv,
     KeyInv, LiveInv
<1>26. ASSUME NEW k \in Key, NEW ch \in Chan, NEW v \in Val,
             Wall(k, ch, v)
      PROVE  LiveInv'
  BY <1>26 DEF Wall, IInv, TypeOK, CallInv, QueueInv, WorkerInv, KeyInv, LiveInv
<1>27. CASE UNCHANGED vars
  BY <1>27 DEF IInv, TypeOK, CallInv, QueueInv, WorkerInv, KeyInv, LiveInv
<1> QED
  BY <1>1, <1>2, <1>3, <1>4, <1>5, <1>6, <1>7, <1>8, <1>9, <1>10, <1>11, <1>12,
     <1>13, <1>14, <1>15, <1>16, <1>17, <1>18, <1>19, <1>20, <1>21, <1>22, <1>23,
     <1>24, <1>25, <1>26, <1>27 DEF Next, CallStep, WorkerStep, LifecycleStep,
     EnvStep

\* queue_command: of the reads of one group still to be popped, at most one has
\* a caller waiting on it, as long as reset is not called.  (Reset clears the keys
\* of callers suspended in put too, whose items still come.)
THEOREM OneRead ==
    ASSUME "reset" \notin HostOps
    PROVE  Spec => []OneLiveRead
<1>1. Init => LiveInv
  BY DEF Init, LiveInv
<1>2. IInv /\ LiveInv /\ [Next]_vars => LiveInv'
  BY StepLive
<1>3. IInv /\ LiveInv => OneLiveRead
  <2> SUFFICES ASSUME IInv, LiveInv, NEW c \in Call, NEW d \in Call,
                      op[c] = "get", op[d] = "get", key[c] = key[d],
                      Coming(c), Coming(d), fut[c] = "pending", fut[d] = "pending"
               PROVE  c = d
    BY DEF OneLiveRead
  <2>1. \A e \in Call : Coming(e) => loc[e] \in {"queue", "put"}
    BY DEF IInv, QueueInv, Coming, InQueue
  <2>2. queuedGetKeys[key[c]] = c /\ queuedGetKeys[key[d]] = d
    BY <2>1 DEF LiveInv
  <2> QED
    BY <2>2
<1> QED
  BY <1>1, <1>2, <1>3, Inductive, PTL DEF Spec

-----------------------------------------------------------------------------
(* A joinable write is never lost, when no caller is cancelled in put. *)

\* The item that takes joiners is queued, about to be, or in its window.
JoinInv ==
    \A k \in Key : pendingSetGroups[k] # NoCall =>
        LET c == pendingSetGroups[k] IN
        /\ op[c] = "set" /\ key[c] = k
        /\ \/ loc[c] \in {"queue", "put"}
           \/ cur = c /\ wpc = "window"
           \/ stopping

\* No step leaves a joinable item that will not be popped.
LEMMA StepJoin == IInv /\ JoinInv /\ "cancelput" \notin HostOps /\ [Next]_vars => JoinInv'
<1> SUFFICES ASSUME IInv /\ JoinInv /\ "cancelput" \notin HostOps, [Next]_vars
             PROVE JoinInv'
  OBVIOUS
<1> USE DEF vars, callVars, getVars, setVars, bufVars, workVars, extVars, histVars
<1>1. ASSUME NEW c \in Call, NEW k \in Key, GetCall(c, k) PROVE JoinInv'
  BY <1>1, CommandAssumption DEF GetCall, MakeCall, Put, IInv, TypeOK, CallInv,
     QueueInv, WorkerInv, JoinInv
<1>2. ASSUME NEW c \in Call, NEW k \in Key, QueryCall(c, k) PROVE JoinInv'
  BY <1>2, CommandAssumption DEF QueryCall, MakeCall, Put, IInv, TypeOK, CallInv,
     QueueInv, WorkerInv, JoinInv
<1>3. ASSUME NEW c \in Call, NEW k \in Key, NEW ch \in Chan, NEW v \in Val, SetCall(c, k, ch, v)
      PROVE JoinInv'
  <2>1. op[c] = "none" /\ loc[c] = "none" /\ op'[c] = "set" /\ key'[c] = k
    BY <1>3 DEF SetCall, MakeCall, IInv, TypeOK, CallInv
  <2>2. \A d \in Call \ {c} : op'[d] = op[d] /\ key'[d] = key[d] /\ loc'[d] = loc[d]
    BY <1>3 DEF SetCall, MakeCall, Put, IInv, TypeOK
  <2>3. \A j \in Key : pendingSetGroups[j] # NoCall => pendingSetGroups[j] \in Call \ {c}
    BY <2>1 DEF IInv, TypeOK, JoinInv
  <2>4. UNCHANGED <<cur, wpc, stopping>>
    BY <1>3 DEF SetCall, workVars
  <2>5. CASE pendingSetGroups[k] # NoCall
    BY <1>3, <2>2, <2>3, <2>4, <2>5 DEF SetCall, JoinInv
  <2>6. CASE pendingSetGroups[k] = NoCall
    <3>1. pendingSetGroups' = [pendingSetGroups EXCEPT ![k] = c] /\ loc'[c] \in {"queue", "put"}
      BY <1>3, <2>6 DEF SetCall, Put, IInv, TypeOK
    <3> QED
      BY <2>1, <2>2, <2>3, <2>4, <3>1 DEF IInv, TypeOK, JoinInv
  <2> QED
    BY <2>5, <2>6
<1>4. ASSUME NEW c \in Call, PressCall(c) PROVE JoinInv'
  BY <1>4, CommandAssumption DEF PressCall, MakeCall, Put, IInv, TypeOK, CallInv,
     QueueInv, WorkerInv, JoinInv
<1>5. ASSUME NEW c \in Call, Unblock(c) PROVE JoinInv'
  <2>1. \A d \in Call : loc[d] \in {"queue", "put"} => loc'[d] \in {"queue", "put"}
    BY <1>5, PutPlace DEF Unblock, IInv
  <2>2. UNCHANGED <<op, key, pendingSetGroups, cur, wpc, stopping>>
    BY <1>5 DEF Unblock, setVars, workVars
  <2>3. pendingSetGroups \in [Key -> Call \cup {NoCall}]
    BY DEF IInv, TypeOK
  <2> QED
    BY <2>1, <2>2, <2>3 DEF JoinInv
<1>6. ASSUME NEW c \in Call, GetCancelBlocked(c) PROVE JoinInv'
  BY <1>6 DEF GetCancelBlocked
<1>7. ASSUME NEW c \in Call, CancelBlocked(c) PROVE JoinInv'
  BY <1>7 DEF CancelBlocked
<1>8. ASSUME PopSkip PROVE JoinInv'
  BY <1>8, CommandAssumption DEF PopSkip, ReleaseGetKey, ReleaseSetGroup, IInv,
     TypeOK, CallInv, QueueInv, WorkerInv, JoinInv
<1>9. ASSUME PopTake PROVE JoinInv'
  BY <1>9, CommandAssumption DEF PopTake, ReleaseGetKey, IInv, TypeOK, CallInv,
     QueueInv, WorkerInv, JoinInv
<1>10. ASSUME WindowEnd PROVE JoinInv'
  BY <1>10, CommandAssumption DEF WindowEnd, ReleaseSetGroup, BuildFrame, IInv,
     TypeOK, CallInv, QueueInv, WorkerInv, JoinInv
<1>11. ASSUME Acquire PROVE JoinInv'
  BY <1>11, CommandAssumption DEF Acquire, IInv, TypeOK, CallInv, QueueInv,
     WorkerInv, JoinInv
<1>12. ASSUME ReadDone PROVE JoinInv'
  BY <1>12, CommandAssumption DEF ReadDone, ReleaseBus, BuildFrame, IInv, TypeOK,
     CallInv, QueueInv, WorkerInv, JoinInv
<1>13. ASSUME ReadFail PROVE JoinInv'
  BY <1>13, CommandAssumption DEF ReadFail, ReleaseBus, BuildFrame, IInv, TypeOK,
     CallInv, QueueInv, WorkerInv, JoinInv
<1>14. ASSUME GetAnswered PROVE JoinInv'
  BY <1>14, CommandAssumption DEF GetAnswered, ReleaseBus, IInv, TypeOK, CallInv,
     QueueInv, WorkerInv, JoinInv
<1>15. ASSUME OtherAnswered PROVE JoinInv'
  BY <1>15, CommandAssumption DEF OtherAnswered, ReleaseBus, IInv, TypeOK, CallInv,
     QueueInv, WorkerInv, JoinInv
<1>16. ASSUME ExchangeFails PROVE JoinInv'
  BY <1>16, CommandAssumption DEF ExchangeFails, ReleaseBus, IInv, TypeOK, CallInv,
     QueueInv, WorkerInv, JoinInv
<1>17. ASSUME PressSent PROVE JoinInv'
  BY <1>17, CommandAssumption DEF PressSent, ReleaseBus, IInv, TypeOK, CallInv,
     QueueInv, WorkerInv, JoinInv
<1>18. ASSUME PostDone PROVE JoinInv'
  BY <1>18, CommandAssumption DEF PostDone, ClearWriting, IInv, TypeOK, CallInv,
     QueueInv, WorkerInv, JoinInv
<1>19. ASSUME Start PROVE JoinInv'
  BY <1>19, CommandAssumption DEF Start, IInv, TypeOK, CallInv, QueueInv, WorkerInv,
     JoinInv
<1>20. ASSUME StopBegin PROVE JoinInv'
  BY <1>20, CommandAssumption DEF StopBegin, ClearGetKeys, IInv, TypeOK, CallInv,
     QueueInv, WorkerInv, JoinInv
<1>21. ASSUME WorkerCancelled PROVE JoinInv'
  BY <1>21, CommandAssumption DEF WorkerCancelled, ClearWriting, IInv, TypeOK,
     CallInv, QueueInv, WorkerInv, JoinInv
<1>22. ASSUME StopFinish PROVE JoinInv'
  BY <1>22, CommandAssumption DEF StopFinish, DrainQueue, ClearSetGroups, IInv,
     TypeOK, CallInv, QueueInv, WorkerInv, JoinInv
<1>23. ASSUME Reset PROVE JoinInv'
  BY <1>23, CommandAssumption DEF Reset, DrainQueue, ClearGetKeys, ClearSetGroups,
     IInv, TypeOK, CallInv, QueueInv, WorkerInv, JoinInv
<1>24. ASSUME ScanAcquire \/ ScanRelease \/ DeviceTakes \/ Deliver
      PROVE  JoinInv'
  BY <1>24 DEF ScanAcquire, ScanRelease, DeviceTakes, Deliver, IInv, TypeOK,
     CallInv, QueueInv, WorkerInv, JoinInv
<1>25. ASSUME NEW c \in Call,
             GetAbandon(c) \/ GetReturn(c) \/ QueryAbandon(c) \/ SetAbandon(c)
      PROVE  JoinInv'
  BY <1>25 DEF GetAbandon, LeaveGet, GetReturn, QueryAbandon, SetAbandon, IInv,
     TypeOK, CallInv, QueueInv, WorkerInv, JoinInv
<1>26. ASSUME NEW k \in Key,
             FeedbackPush(k) \/ Age(k)
      PROVE  JoinInv'
  BY <1>26 DEF FeedbackPush, Age, IInv, TypeOK, CallInv, QueueInv, WorkerInv, JoinInv
<1>27. ASSUME NEW k \in Key, NEW ch \in Chan, NEW v \in Val,
             Wall(k, ch, v)
      PROVE  JoinInv'
  BY <1>27 DEF Wall, IInv, TypeOK, CallInv, QueueInv, WorkerInv, JoinInv
<1>28. CASE UNCHANGED vars
  BY <1>28 DEF IInv, TypeOK, CallInv, QueueInv, WorkerInv, JoinInv
<1> QED
  BY <1>1, <1>2, <1>3, <1>4, <1>5, <1>6, <1>7, <1>8, <1>9, <1>10, <1>11, <1>12,
     <1>13, <1>14, <1>15, <1>16, <1>17, <1>18, <1>19, <1>20, <1>21, <1>22, <1>23,
     <1>24, <1>25, <1>26, <1>27, <1>28 DEF Next, CallStep, WorkerStep,
     LifecycleStep, EnvStep

\* _pending_set_groups: no request joins a write that will never be sent, as long
\* as no caller is cancelled while it is suspended in put.
THEOREM NoLostJoin ==
    ASSUME "cancelput" \notin HostOps
    PROVE  Spec => []JoinableItemComing
<1>1. Init => JoinInv
  BY DEF Init, JoinInv
<1>2. IInv /\ JoinInv /\ [Next]_vars => JoinInv'
  BY StepJoin
<1>3. IInv /\ JoinInv => JoinableItemComing
  <2> SUFFICES ASSUME IInv, JoinInv, NEW k \in Key, pendingSetGroups[k] # NoCall
               PROVE  LET c == pendingSetGroups[k] IN
                      /\ op[c] = "set" /\ key[c] = k
                      /\ Coming(c) \/ (cur = c /\ wpc = "window") \/ stopping
    BY DEF JoinableItemComing
  <2>1. pendingSetGroups[k] \in Call
    BY DEF IInv, TypeOK
  <2> QED
    BY <2>1 DEF IInv, QueueInv, JoinInv, Coming
<1> QED
  BY <1>1, <1>2, <1>3, Inductive, PTL DEF Spec

-----------------------------------------------------------------------------
(* Every folded caller is served, when nothing drops queued reads. *)

\* While a caller waits on a group, a read of it is queued or on the wire; and
\* nobody stops the handler.
ServedInv ==
    /\ ~stopping
    /\ \A k \in Key : \A w \in pendingGetFutures[k] : fut[w] = "pending" =>
        \E c \in Call :
            /\ op[c] = "get" /\ key[c] = k
            /\ loc[c] \in {"queue", "put"} \/ (cur = c /\ wpc \in {"lock", "exch"})

\* No step leaves a waiting caller without a read of its group.
LEMMA StepServed ==
    IInv /\ ServedInv /\ HostOps \cap {"stop", "reset", "cancelput"} = {} /\ [Next]_vars => ServedInv'
<1> SUFFICES ASSUME IInv /\ ServedInv /\ HostOps \cap {"stop", "reset", "cancelput"} = {}, [Next]_vars
             PROVE ServedInv'
  OBVIOUS
<1> USE DEF vars, callVars, getVars, setVars, bufVars, workVars, extVars, histVars
<1>1. ASSUME NEW c \in Call, NEW k \in Key, GetCall(c, k) PROVE ServedInv'
  <2>1. op[c] = "none" /\ loc[c] = "none" /\ op'[c] = "get" /\ key'[c] = k
    BY <1>1 DEF GetCall, MakeCall, IInv, TypeOK, CallInv
  <2>2. \A d \in Call \ {c} : /\ op'[d] = op[d] /\ key'[d] = key[d]
                             /\ loc'[d] = loc[d] /\ fut'[d] = fut[d]
    BY <1>1 DEF GetCall, MakeCall, Put, IInv, TypeOK
  <2>3. UNCHANGED <<cur, wpc, stopping>>
    BY <1>1 DEF GetCall, workVars
  <2>4. /\ pendingGetFutures'[k] = pendingGetFutures[k] \cup {c}
        /\ \A j \in Key \ {k} : pendingGetFutures'[j] = pendingGetFutures[j]
        /\ \A j \in Key : c \notin pendingGetFutures[j] /\ pendingGetFutures[j] \subseteq Call
    BY <1>1, <2>1 DEF GetCall, IInv, TypeOK, CallInv
  <2>5. \E d \in Call : op'[d] = "get" /\ key'[d] = k /\ loc'[d] \in {"queue", "put"}
    <3>1. CASE queuedGetKeys[k] # NoCall
      <4>1. queuedGetKeys[k] \in Call \ {c}
        BY <2>1, <3>1 DEF IInv, TypeOK, KeyInv <4>2. /\ op[queuedGetKeys[k]] = "get"
           /\ key[queuedGetKeys[k]] = k
            /\ loc[queuedGetKeys[k]] \in {"queue", "put"}
        BY <3>1 DEF IInv, KeyInv <4> QED
        BY <2>2, <4>1, <4>2
    <3>2. CASE queuedGetKeys[k] = NoCall
      BY <1>1, <2>1, <3>2 DEF GetCall, Put, IInv, TypeOK
    <3> QED
      BY <3>1, <3>2
  <2>6. \A j \in Key \ {k} : \A w \in pendingGetFutures[j] : fut'[w] = "pending" =>
          \E d \in Call :
            /\ op'[d] = "get" /\ key'[d] = j
            /\ loc'[d] \in {"queue", "put"} \/ (cur' = d /\ wpc' \in {"lock", "exch"})
    BY <2>1, <2>2, <2>3, <2>4 DEF ServedInv
  <2> QED
    BY <2>3, <2>4, <2>5, <2>6 DEF ServedInv
<1>2. ASSUME NEW c \in Call, NEW k \in Key, QueryCall(c, k) PROVE ServedInv'
  <2>1. op[c] = "none"
    BY <1>2 DEF QueryCall, MakeCall, IInv, CallInv
  <2>2. \A d \in Call \ {c} : op'[d] = op[d] /\ key'[d] = key[d] /\ loc'[d] = loc[d]
    BY <1>2, PutPlace DEF QueryCall, MakeCall, IInv, TypeOK
  <2>3. UNCHANGED <<pendingGetFutures, cur, wpc, stopping>>
    BY <1>2 DEF QueryCall, workVars, getVars
  <2>4. \A j \in Key : \A w \in pendingGetFutures[j] : w \in Call \ {c} /\ fut'[w] = fut[w]
    BY <1>2, <2>1 DEF QueryCall, IInv, TypeOK, CallInv
  <2> QED
    BY <2>1, <2>2, <2>3, <2>4 DEF ServedInv
<1>3. ASSUME NEW c \in Call, NEW k \in Key, NEW ch \in Chan, NEW v \in Val, SetCall(c, k, ch, v)
      PROVE ServedInv'
  <2>1. op[c] = "none"
    BY <1>3 DEF SetCall, MakeCall, IInv, CallInv
  <2>2. \A d \in Call \ {c} : op'[d] = op[d] /\ key'[d] = key[d] /\ loc'[d] = loc[d]
    BY <1>3, PutPlace DEF SetCall, MakeCall, IInv, TypeOK
  <2>3. UNCHANGED <<pendingGetFutures, cur, wpc, stopping>>
    BY <1>3 DEF SetCall, workVars, getVars
  <2>4. \A j \in Key : \A w \in pendingGetFutures[j] : w \in Call \ {c} /\ fut'[w] = fut[w]
    BY <1>3, <2>1 DEF SetCall, IInv, TypeOK, CallInv
  <2> QED
    BY <2>1, <2>2, <2>3, <2>4 DEF ServedInv
<1>4. ASSUME NEW c \in Call, PressCall(c) PROVE ServedInv'
  <2>1. op[c] = "none" /\ loc[c] = "none"
    BY <1>4 DEF PressCall, MakeCall, IInv, TypeOK, CallInv
  <2>2. \A d \in Call \ {c} : op'[d] = op[d] /\ key'[d] = key[d] /\ loc'[d] = loc[d]
    BY <1>4 DEF PressCall, MakeCall, Put, IInv, TypeOK
  <2>3. UNCHANGED <<fut, pendingGetFutures, cur, wpc, stopping>>
    BY <1>4 DEF PressCall, workVars, getVars
  <2> QED
    BY <2>1, <2>2, <2>3 DEF ServedInv
<1>5. ASSUME NEW c \in Call, Unblock(c) PROVE ServedInv'
  <2>1. \A d \in Call : loc[d] \in {"queue", "put"} => loc'[d] \in {"queue", "put"}
    BY <1>5, PutPlace DEF Unblock, IInv
  <2>2. UNCHANGED <<op, key, fut, pendingGetFutures, cur, wpc, stopping>>
    BY <1>5 DEF Unblock, getVars, workVars
  <2> QED
    BY <2>1, <2>2 DEF ServedInv
<1>6. ASSUME NEW c \in Call, GetAbandon(c) PROVE ServedInv'
  BY <1>6, CommandAssumption DEF GetAbandon, LeaveGet, ReleaseGetKey, Settle,
     Settled, IInv, TypeOK, CallInv, QueueInv, WorkerInv, KeyInv, ServedInv
<1>7. ASSUME NEW c \in Call, GetCancelBlocked(c) PROVE ServedInv'
  BY <1>7 DEF GetCancelBlocked
<1>8. ASSUME NEW c \in Call, GetReturn(c) PROVE ServedInv'
  BY <1>8, CommandAssumption DEF GetReturn, LeaveGet, ReleaseGetKey, Done, Settled,
     IInv, TypeOK, CallInv, QueueInv, WorkerInv, KeyInv, ServedInv
<1>9. ASSUME NEW c \in Call, QueryAbandon(c) PROVE ServedInv'
  BY <1>9, CommandAssumption DEF QueryAbandon, Settle, Settled, IInv, TypeOK,
     CallInv, QueueInv, WorkerInv, KeyInv, ServedInv
<1>10. ASSUME NEW c \in Call, CancelBlocked(c) PROVE ServedInv'
  BY <1>10 DEF CancelBlocked
<1>11. ASSUME PopSkip PROVE ServedInv'
  <2> DEFINE h == Head(commandQueue)
  <2>1. h \in Call /\ h # cur
    BY <1>11, PopItem DEF PopSkip
  <2>2. op[h] = "get" => \A w \in pendingGetFutures[key[h]] : fut[w] # "pending"
    BY <1>11 DEF PopSkip, Stale, FoldedInto, Done, Settled
  <2>3. \A d \in Call \ {h} : loc'[d] = loc[d]
    BY <1>11 DEF PopSkip, IInv, TypeOK
  <2>4. UNCHANGED <<op, key, fut, pendingGetFutures, cur, wpc, stopping>>
    BY <1>11 DEF PopSkip, workVars
  <2> QED
    BY <2>1, <2>2, <2>3, <2>4 DEF ServedInv
<1>12. ASSUME PopTake PROVE ServedInv'
  BY <1>12, CommandAssumption DEF PopTake, ReleaseGetKey, IInv, TypeOK, CallInv,
     QueueInv, WorkerInv, KeyInv, ServedInv
<1>13. ASSUME WindowEnd PROVE ServedInv'
  BY <1>13, CommandAssumption DEF WindowEnd, ReleaseSetGroup, BuildFrame, IInv,
     TypeOK, CallInv, QueueInv, WorkerInv, KeyInv, ServedInv
<1>14. ASSUME Acquire PROVE ServedInv'
  BY <1>14, CommandAssumption DEF Acquire, IInv, TypeOK, CallInv, QueueInv,
     WorkerInv, KeyInv, ServedInv
<1>15. ASSUME ReadDone PROVE ServedInv'
  BY <1>15, CommandAssumption DEF ReadDone, ReleaseBus, Settle, Settled, BuildFrame,
     IInv, TypeOK, CallInv, QueueInv, WorkerInv, KeyInv, ServedInv
<1>16. ASSUME ReadFail PROVE ServedInv'
  BY <1>16, CommandAssumption DEF ReadFail, ReleaseBus, BuildFrame, IInv, TypeOK,
     CallInv, QueueInv, WorkerInv, KeyInv, ServedInv
<1>17. ASSUME GetAnswered PROVE ServedInv'
  BY <1>17, CommandAssumption DEF GetAnswered, ReleaseBus, Settle, Settled,
     FoldedInto, IInv, TypeOK, CallInv, QueueInv, WorkerInv, KeyInv, ServedInv
<1>18. ASSUME OtherAnswered PROVE ServedInv'
  BY <1>18, CommandAssumption DEF OtherAnswered, ReleaseBus, Settle, Settled, IInv,
     TypeOK, CallInv, QueueInv, WorkerInv, KeyInv, ServedInv
<1>19. ASSUME ExchangeFails PROVE ServedInv'
  BY <1>19, CommandAssumption DEF ExchangeFails, ReleaseBus, Settle, Settled,
     FoldedInto, IInv, TypeOK, CallInv, QueueInv, WorkerInv, KeyInv, ServedInv
<1>20. ASSUME PressSent PROVE ServedInv'
  BY <1>20, CommandAssumption DEF PressSent, ReleaseBus, IInv, TypeOK, CallInv,
     QueueInv, WorkerInv, KeyInv, ServedInv
<1>21. ASSUME PostDone PROVE ServedInv'
  <2>1. cur \in Call /\ loc[cur] = "worker"
    BY <1>21 DEF PostDone, IInv, TypeOK, WorkerInv
  <2>2. \A d \in Call \ {cur} : loc'[d] = loc[d]
    BY <1>21 DEF PostDone, IInv, TypeOK
  <2>3. UNCHANGED <<op, key, fut, pendingGetFutures, stopping>>
    BY <1>21 DEF PostDone, getVars
  <2> QED
    BY <1>21, <2>1, <2>2, <2>3 DEF PostDone, ServedInv
<1>22. ASSUME Start PROVE ServedInv'
  BY <1>22, CommandAssumption DEF Start, IInv, TypeOK, CallInv, QueueInv, WorkerInv,
     KeyInv, ServedInv
<1>23. ASSUME StopBegin PROVE ServedInv'
  BY <1>23 DEF StopBegin
<1>24. ASSUME WorkerCancelled PROVE ServedInv'
  BY <1>24 DEF WorkerCancelled, ServedInv
<1>25. ASSUME StopFinish PROVE ServedInv'
  BY <1>25 DEF StopFinish, ServedInv
<1>26. ASSUME Reset PROVE ServedInv'
  BY <1>26 DEF Reset
<1>27. ASSUME Deliver PROVE ServedInv'
  BY <1>27, CommandAssumption DEF Deliver, Settle, Settled, IInv, TypeOK, CallInv,
     QueueInv, WorkerInv, KeyInv, ServedInv
<1>28. ASSUME ScanAcquire \/ ScanRelease \/ DeviceTakes
      PROVE  ServedInv'
  BY <1>28 DEF ScanAcquire, ScanRelease, DeviceTakes, IInv, TypeOK, CallInv,
     QueueInv, WorkerInv, KeyInv, ServedInv
<1>29. ASSUME NEW c \in Call,
             SetAbandon(c)
      PROVE  ServedInv'
  BY <1>29 DEF SetAbandon, IInv, TypeOK, CallInv, QueueInv, WorkerInv, KeyInv, ServedInv
<1>30. ASSUME NEW k \in Key,
             FeedbackPush(k) \/ Age(k)
      PROVE  ServedInv'
  BY <1>30 DEF FeedbackPush, Age, IInv, TypeOK, CallInv, QueueInv, WorkerInv,
     KeyInv, ServedInv
<1>31. ASSUME NEW k \in Key, NEW ch \in Chan, NEW v \in Val,
             Wall(k, ch, v)
      PROVE  ServedInv'
  BY <1>31 DEF Wall, IInv, TypeOK, CallInv, QueueInv, WorkerInv, KeyInv, ServedInv
<1>32. CASE UNCHANGED vars
  BY <1>32 DEF IInv, TypeOK, CallInv, QueueInv, WorkerInv, KeyInv, ServedInv
<1> QED
  BY <1>1, <1>2, <1>3, <1>4, <1>5, <1>6, <1>7, <1>8, <1>9, <1>10, <1>11, <1>12,
     <1>13, <1>14, <1>15, <1>16, <1>17, <1>18, <1>19, <1>20, <1>21, <1>22, <1>23,
     <1>24, <1>25, <1>26, <1>27, <1>28, <1>29, <1>30, <1>31, <1>32 DEF Next,
     CallStep, WorkerStep, LifecycleStep, EnvStep

\* get_output_state: a caller whose read was folded into another's never waits
\* without a read of its group queued or on the wire, as long as nothing drops
\* queued reads (stop, reset) and no caller is cancelled while suspended in put.
THEOREM FoldedServed ==
    ASSUME HostOps \cap {"stop", "reset", "cancelput"} = {}
    PROVE  Spec => []FoldedCallerServed
<1>1. Init => ServedInv
  BY DEF Init, ServedInv
<1>2. IInv /\ ServedInv /\ [Next]_vars => ServedInv'
  BY StepServed
<1>3. IInv /\ ServedInv => FoldedCallerServed
  BY DEF IInv, QueueInv, ServedInv, FoldedCallerServed, Coming
<1> QED
  BY <1>1, <1>2, <1>3, Inductive, PTL DEF Spec

-----------------------------------------------------------------------------
(* A write is never cancelled, when the handler is neither stopped nor reset. *)

\* No write is cancelled and nobody stops the handler.
WriteInv == ~stopping /\ WriteNotCancelled

\* No step of callers or worker cancels a write.
LEMMA StepWrite ==
    IInv /\ WriteInv /\ HostOps \cap {"stop", "reset"} = {} /\ [Next]_vars => WriteInv'
<1> SUFFICES ASSUME IInv /\ WriteInv /\ HostOps \cap {"stop", "reset"} = {}, [Next]_vars
             PROVE WriteInv'
  OBVIOUS
<1> USE DEF vars, callVars, getVars, setVars, bufVars, workVars, extVars, histVars
<1>1. ASSUME NEW c \in Call, NEW k \in Key, GetCall(c, k) PROVE WriteInv'
  BY <1>1, CommandAssumption DEF GetCall, MakeCall, Put, IInv, TypeOK, CallInv,
     WriteInv, WriteNotCancelled
<1>2. ASSUME NEW c \in Call, NEW k \in Key, QueryCall(c, k) PROVE WriteInv'
  BY <1>2, CommandAssumption DEF QueryCall, MakeCall, Put, IInv, TypeOK, CallInv,
     WriteInv, WriteNotCancelled
<1>3. ASSUME NEW c \in Call, NEW k \in Key, NEW ch \in Chan, NEW v \in Val, SetCall(c, k, ch, v)
      PROVE WriteInv'
  BY <1>3, CommandAssumption DEF SetCall, MakeCall, Put, IInv, TypeOK, CallInv,
     WriteInv, WriteNotCancelled
<1>4. ASSUME NEW c \in Call, PressCall(c) PROVE WriteInv'
  BY <1>4, CommandAssumption DEF PressCall, MakeCall, Put, IInv, TypeOK, CallInv,
     WriteInv, WriteNotCancelled
<1>5. ASSUME NEW c \in Call, GetAbandon(c) PROVE WriteInv'
  BY <1>5, CommandAssumption DEF GetAbandon, LeaveGet, ReleaseGetKey, Settle,
     Settled, IInv, TypeOK, CallInv, WriteInv, WriteNotCancelled
<1>6. ASSUME NEW c \in Call, GetCancelBlocked(c) PROVE WriteInv'
  BY <1>6, CommandAssumption DEF GetCancelBlocked, LeaveGet, ReleaseGetKey, Settle,
     Settled, IInv, TypeOK, CallInv, WriteInv, WriteNotCancelled
<1>7. ASSUME NEW c \in Call, QueryAbandon(c) PROVE WriteInv'
  BY <1>7, CommandAssumption DEF QueryAbandon, Settle, Settled, IInv, TypeOK,
     CallInv, WriteInv, WriteNotCancelled
<1>8. ASSUME ReadDone PROVE WriteInv'
  BY <1>8, CommandAssumption DEF ReadDone, ReleaseBus, Settle, Settled, IInv,
     TypeOK, CallInv, WriteInv, WriteNotCancelled
<1>9. ASSUME GetAnswered PROVE WriteInv'
  BY <1>9, CommandAssumption DEF GetAnswered, ReleaseBus, Settle, Settled, IInv,
     TypeOK, CallInv, WriteInv, WriteNotCancelled
<1>10. ASSUME OtherAnswered PROVE WriteInv'
  BY <1>10, CommandAssumption DEF OtherAnswered, ReleaseBus, Settle, Settled, IInv,
     TypeOK, CallInv, WriteInv, WriteNotCancelled
<1>11. ASSUME ExchangeFails PROVE WriteInv'
  BY <1>11, CommandAssumption DEF ExchangeFails, ReleaseBus, Settle, Settled, IInv,
     TypeOK, CallInv, WriteInv, WriteNotCancelled
<1>12. ASSUME StopBegin PROVE WriteInv'
  BY <1>12 DEF StopBegin
<1>13. ASSUME WorkerCancelled PROVE WriteInv'
  BY <1>13 DEF WorkerCancelled, WriteInv
<1>14. ASSUME StopFinish PROVE WriteInv'
  BY <1>14 DEF StopFinish, WriteInv
<1>15. ASSUME Reset PROVE WriteInv'
  BY <1>15 DEF Reset
<1>16. ASSUME Deliver PROVE WriteInv'
  BY <1>16, CommandAssumption DEF Deliver, Settle, Settled, IInv, TypeOK, CallInv,
     WriteInv, WriteNotCancelled
<1>17. ASSUME PopSkip \/ PopTake \/ WindowEnd \/ Acquire \/ ReadFail \/ PressSent \/
             PostDone \/ Start \/ ScanAcquire \/ ScanRelease \/ DeviceTakes
      PROVE  WriteInv'
  BY <1>17 DEF PopSkip, PopTake, WindowEnd, Acquire, ReadFail, PressSent, PostDone,
     Start, ScanAcquire, ScanRelease, DeviceTakes, IInv, TypeOK, CallInv, WriteInv,
     WriteNotCancelled
<1>18. ASSUME NEW c \in Call,
             Unblock(c) \/ GetReturn(c) \/ SetAbandon(c) \/ CancelBlocked(c)
      PROVE  WriteInv'
  BY <1>18 DEF Unblock, GetReturn, LeaveGet, SetAbandon, CancelBlocked, IInv,
     TypeOK, CallInv, WriteInv, WriteNotCancelled
<1>19. ASSUME NEW k \in Key,
             FeedbackPush(k) \/ Age(k)
      PROVE  WriteInv'
  BY <1>19 DEF FeedbackPush, Age, IInv, TypeOK, CallInv, WriteInv, WriteNotCancelled
<1>20. ASSUME NEW k \in Key, NEW ch \in Chan, NEW v \in Val,
             Wall(k, ch, v)
      PROVE  WriteInv'
  BY <1>20 DEF Wall, IInv, TypeOK, CallInv, WriteInv, WriteNotCancelled
<1>21. CASE UNCHANGED vars
  BY <1>21 DEF IInv, TypeOK, CallInv, WriteInv, WriteNotCancelled
<1> QED
  BY <1>1, <1>2, <1>3, <1>4, <1>5, <1>6, <1>7, <1>8, <1>9, <1>10, <1>11, <1>12,
     <1>13, <1>14, <1>15, <1>16, <1>17, <1>18, <1>19, <1>20, <1>21 DEF Next,
     CallStep, WorkerStep, LifecycleStep, EnvStep

\* _derived_future: a caller that gives up never cancels the write it shares with
\* others; only stop and reset cancel one.
THEOREM NoWriteCancelled ==
    ASSUME HostOps \cap {"stop", "reset"} = {}
    PROVE  Spec => []WriteNotCancelled
<1>1. Init => WriteInv
  BY DEF Init, WriteInv, WriteNotCancelled
<1>2. IInv /\ WriteInv /\ [Next]_vars => WriteInv'
  BY StepWrite
<1>3. WriteInv => WriteNotCancelled
  BY DEF WriteInv
<1> QED
  BY <1>1, <1>2, <1>3, Inductive, PTL DEF Spec

-----------------------------------------------------------------------------
(* Nothing that was queued when stop was called is sent after it. *)

\* What was called before the last stop is not waiting for a place in the
\* queue and, once stop has returned, neither queued nor in the worker's hands.
StaleInv ==
    \A c \in old :
        /\ op[c] # "none"
        /\ loc[c] # "put"
        /\ ~stopping => loc[c] \notin {"queue", "worker"}

\* No step puts an item of before the last stop back into play.
LEMMA StepStale ==
    IInv /\ StaleInv /\ [Next]_vars => StaleInv'
<1> SUFFICES ASSUME IInv /\ StaleInv, [Next]_vars
             PROVE  StaleInv'
  OBVIOUS
<1> USE DEF vars, callVars, getVars, setVars, bufVars, workVars, extVars, histVars
<1>1. ASSUME NEW c \in Call, NEW k \in Key, GetCall(c, k) PROVE StaleInv'
  BY <1>1 DEF GetCall, MakeCall, Put, IInv, TypeOK, CallInv, WorkerInv, StaleInv
<1>2. ASSUME NEW c \in Call, NEW k \in Key, QueryCall(c, k) PROVE StaleInv'
  BY <1>2 DEF QueryCall, MakeCall, Put, IInv, TypeOK, CallInv, WorkerInv, StaleInv
<1>3. ASSUME NEW c \in Call, NEW k \in Key, NEW ch \in Chan, NEW v \in Val, SetCall(c, k, ch, v)
      PROVE  StaleInv'
  BY <1>3 DEF SetCall, MakeCall, Put, IInv, TypeOK, CallInv, WorkerInv, StaleInv
<1>4. ASSUME NEW c \in Call, PressCall(c) PROVE StaleInv'
  BY <1>4 DEF PressCall, MakeCall, Put, IInv, TypeOK, CallInv, WorkerInv, StaleInv
<1>5. ASSUME NEW c \in Call, Unblock(c) PROVE StaleInv'
  BY <1>5 DEF Unblock, Put, IInv, TypeOK, CallInv, WorkerInv, StaleInv
<1>6. ASSUME NEW c \in Call, GetCancelBlocked(c) PROVE StaleInv'
  BY <1>6 DEF GetCancelBlocked, LeaveGet, Settle, IInv, TypeOK, CallInv, WorkerInv,
     StaleInv
<1>7. ASSUME NEW c \in Call, CancelBlocked(c) PROVE StaleInv'
  BY <1>7 DEF CancelBlocked, IInv, TypeOK, CallInv, WorkerInv, StaleInv
<1>8. ASSUME PopSkip PROVE StaleInv'
  BY <1>8, PopItem DEF PopSkip, ReleaseGetKey, ReleaseSetGroup, IInv, TypeOK, CallInv,
     WorkerInv, StaleInv
<1>9. ASSUME PopTake PROVE StaleInv'
  BY <1>9, PopItem DEF PopTake, ReleaseGetKey, IInv, TypeOK, CallInv, WorkerInv,
     StaleInv
<1>10. ASSUME PostDone PROVE StaleInv'
  BY <1>10 DEF PostDone, ClearWriting, IInv, TypeOK, CallInv, WorkerInv, StaleInv
<1>11. ASSUME StopBegin PROVE StaleInv'
  BY <1>11 DEF StopBegin, ClearGetKeys, Settle, Placed, IInv, TypeOK, CallInv,
     WorkerInv, StaleInv
<1>12. ASSUME WorkerCancelled PROVE StaleInv'
  BY <1>12 DEF WorkerCancelled, ClearWriting, CancelledByStop, Settle, IInv, TypeOK,
     CallInv, WorkerInv, StaleInv
<1>13. ASSUME StopFinish PROVE StaleInv'
  <2>1. \A c \in Call : loc[c] # "worker"
    BY <1>13, CommandAssumption DEF StopFinish, IInv, WorkerInv
  <2>2. \A c \in Call : loc'[c] = IF loc[c] = "queue" THEN "gone" ELSE loc[c]
    BY <1>13 DEF StopFinish, DrainQueue
  <2>3. old' = old /\ op' = op /\ old \subseteq Call
    BY <1>13 DEF StopFinish, IInv, TypeOK
  <2> QED
    BY <2>1, <2>2, <2>3 DEF StaleInv
<1>14. ASSUME Reset PROVE StaleInv'
  BY <1>14 DEF Reset, DrainQueue, ClearGetKeys, ClearSetGroups, Settle, IInv, TypeOK,
     CallInv, WorkerInv, StaleInv
<1>15. ASSUME NEW k \in Key, NEW ch \in Chan, NEW v \in Val, Wall(k, ch, v) PROVE StaleInv'
  BY <1>15 DEF Wall, IInv, TypeOK, CallInv, WorkerInv, StaleInv
<1>16. ASSUME ScanAcquire \/ ScanRelease \/ DeviceTakes \/ Deliver \/ Acquire \/ WindowEnd
             \/ ReadDone \/ ReadFail \/ GetAnswered \/ OtherAnswered \/ ExchangeFails \/ PressSent
             \/ Start
      PROVE  StaleInv'
  BY <1>16 DEF ScanAcquire, ScanRelease, DeviceTakes, Deliver, Acquire, WindowEnd,
     ReadDone, ReadFail, GetAnswered, OtherAnswered, ExchangeFails, PressSent, Start,
     IInv, TypeOK, CallInv, WorkerInv, StaleInv
<1>17. ASSUME NEW c \in Call, GetAbandon(c) \/ GetReturn(c) \/ QueryAbandon(c) \/
             SetAbandon(c)
      PROVE  StaleInv'
  BY <1>17 DEF GetAbandon, LeaveGet, GetReturn, QueryAbandon, SetAbandon, IInv, TypeOK,
     CallInv, WorkerInv, StaleInv
<1>18. ASSUME NEW k \in Key, FeedbackPush(k) \/ Age(k)
      PROVE  StaleInv'
  BY <1>18 DEF FeedbackPush, Age, IInv, TypeOK, CallInv, WorkerInv, StaleInv
<1>19. CASE UNCHANGED vars
  BY <1>19 DEF IInv, TypeOK, CallInv, WorkerInv, StaleInv
<1> QED
  BY <1>1, <1>2, <1>3, <1>4, <1>5, <1>6, <1>7, <1>8, <1>9, <1>10, <1>11, <1>12, <1>13,
     <1>14, <1>15, <1>16, <1>17, <1>18, <1>19 DEF Next, CallStep, WorkerStep,
     LifecycleStep, EnvStep

\* stop: "Nothing queued survives a stop": the worker never puts on the wire
\* what was queued, or in its hands, when stop was last called.
THEOREM NothingStale == Spec => []NothingStaleSent
<1>1. Init => StaleInv
  BY DEF Init, StaleInv
<1>2. IInv /\ StaleInv /\ [Next]_vars => StaleInv'
  BY StepStale
<1>3. IInv /\ StaleInv => NothingStaleSent
  BY DEF IInv, TypeOK, WorkerInv, StaleInv, NothingStaleSent
<1> QED
  BY <1>1, <1>2, <1>3, Inductive, PTL DEF Spec

-----------------------------------------------------------------------------
(* Every waiter is released by stop. *)

\* What becomes of a future that nobody settles: its item is still to be sent.
FateInv ==
    /\ \A c \in Call :
        /\ loc[c] = "gone" => fut[c] # "pending"
        /\ (loc[c] = "none" /\ op[c] # "get") => fut[c] # "pending"
        /\ op[c] = "press" => fut[c] = "none"
        /\ joins[c] # NoCall => op[c] = "set" /\ op[joins[c]] = "set"
    /\ wpc = "post" => fut[cur] # "pending"

\* No step forgets an item whose future is pending.
LEMMA StepFate ==
    IInv /\ JoinInv /\ FateInv /\ "cancelput" \notin HostOps /\ [Next]_vars => FateInv'
<1> SUFFICES ASSUME IInv /\ JoinInv /\ FateInv /\ "cancelput" \notin HostOps, [Next]_vars
             PROVE  FateInv'
  OBVIOUS
<1> USE DEF vars, callVars, getVars, setVars, bufVars, workVars, extVars, histVars
<1>1. ASSUME NEW c \in Call, NEW k \in Key, GetCall(c, k) PROVE FateInv'
  BY <1>1, CommandAssumption DEF GetCall, MakeCall, Put, IInv, TypeOK, CallInv,
     WorkerInv, FateInv
<1>2. ASSUME NEW c \in Call, NEW k \in Key, QueryCall(c, k) PROVE FateInv'
  BY <1>2, CommandAssumption DEF QueryCall, MakeCall, Put, IInv, TypeOK, CallInv,
     WorkerInv, FateInv
<1>3. ASSUME NEW c \in Call, NEW k \in Key, NEW ch \in Chan, NEW v \in Val, SetCall(c, k, ch, v)
      PROVE  FateInv'
  BY <1>3, CommandAssumption DEF SetCall, MakeCall, Put, JoinInv, IInv, TypeOK, CallInv,
     WorkerInv, FateInv
<1>4. ASSUME NEW c \in Call, PressCall(c) PROVE FateInv'
  BY <1>4, CommandAssumption DEF PressCall, MakeCall, Put, IInv, TypeOK, CallInv,
     WorkerInv, FateInv
<1>5. ASSUME NEW c \in Call, Unblock(c) PROVE FateInv'
  BY <1>5, CommandAssumption DEF Unblock, Put, IInv, TypeOK, CallInv, WorkerInv, FateInv
<1>6. ASSUME NEW c \in Call, GetCancelBlocked(c) PROVE FateInv'
  BY <1>6 DEF GetCancelBlocked, LeaveGet, Settle, FateInv
<1>7. ASSUME NEW c \in Call, CancelBlocked(c) PROVE FateInv'
  BY <1>7 DEF CancelBlocked, FateInv
<1>8. ASSUME PopSkip PROVE FateInv'
  BY <1>8, PopItem, CommandAssumption DEF PopSkip, ReleaseGetKey, ReleaseSetGroup,
     Stale, Done, Settled, IInv, TypeOK, CallInv, WorkerInv, FateInv
<1>9. ASSUME PopTake PROVE FateInv'
  BY <1>9, PopItem, CommandAssumption DEF PopTake, ReleaseGetKey, IInv, TypeOK, CallInv,
     WorkerInv, FateInv
<1>10. ASSUME WindowEnd PROVE FateInv'
  BY <1>10, CommandAssumption DEF WindowEnd, ReleaseSetGroup, BuildFrame, IInv, TypeOK,
     CallInv, WorkerInv, FateInv
<1>11. ASSUME ReadDone PROVE FateInv'
  BY <1>11, CommandAssumption DEF ReadDone, ReleaseBus, BuildFrame, Settle, IInv,
     TypeOK, CallInv, WorkerInv, FateInv
<1>12. ASSUME ReadFail PROVE FateInv'
  BY <1>12, CommandAssumption DEF ReadFail, ReleaseBus, BuildFrame, IInv, TypeOK,
     CallInv, WorkerInv, FateInv
<1>13. ASSUME GetAnswered PROVE FateInv'
  BY <1>13, CommandAssumption DEF GetAnswered, ReleaseBus, Settle, IInv, TypeOK,
     CallInv, WorkerInv, FateInv
<1>14. ASSUME OtherAnswered PROVE FateInv'
  BY <1>14, CommandAssumption DEF OtherAnswered, ReleaseBus, Settle, IInv, TypeOK,
     CallInv, WorkerInv, FateInv
<1>15. ASSUME ExchangeFails PROVE FateInv'
  BY <1>15, CommandAssumption DEF ExchangeFails, ReleaseBus, Settle, IInv, TypeOK,
     CallInv, WorkerInv, FateInv
<1>16. ASSUME PressSent PROVE FateInv'
  BY <1>16, CommandAssumption DEF PressSent, ReleaseBus, IInv, TypeOK, CallInv,
     WorkerInv, FateInv
<1>17. ASSUME PostDone PROVE FateInv'
  BY <1>17, CommandAssumption DEF PostDone, ClearWriting, IInv, TypeOK, CallInv,
     WorkerInv, FateInv
<1>18. ASSUME StopBegin PROVE FateInv'
  BY <1>18, CommandAssumption DEF StopBegin, ClearGetKeys, Settle, IInv, TypeOK,
     CallInv, WorkerInv, FateInv
<1>19. ASSUME WorkerCancelled PROVE FateInv'
  BY <1>19, CommandAssumption DEF WorkerCancelled, ClearWriting, CancelledByStop,
     Settle, IInv, TypeOK, CallInv, WorkerInv, FateInv
<1>20. ASSUME StopFinish PROVE FateInv'
  BY <1>20, CommandAssumption DEF StopFinish, DrainQueue, ClearSetGroups, Settle, IInv,
     TypeOK, CallInv, WorkerInv, FateInv
<1>21. ASSUME Reset PROVE FateInv'
  BY <1>21, CommandAssumption DEF Reset, DrainQueue, ClearGetKeys, ClearSetGroups,
     Settle, IInv, TypeOK, CallInv, WorkerInv, FateInv
<1>22. ASSUME Deliver PROVE FateInv'
  BY <1>22, CommandAssumption DEF Deliver, Settle, IInv, TypeOK, CallInv, WorkerInv,
     FateInv
<1>23. ASSUME NEW k \in Key, NEW ch \in Chan, NEW v \in Val, Wall(k, ch, v) PROVE FateInv'
  BY <1>23, CommandAssumption DEF Wall, IInv, TypeOK, CallInv, WorkerInv, FateInv
<1>24. ASSUME ScanAcquire \/ ScanRelease \/ DeviceTakes \/ Acquire \/ Start
      PROVE  FateInv'
  BY <1>24, CommandAssumption DEF ScanAcquire, ScanRelease, DeviceTakes, Acquire, Start,
     IInv, TypeOK, CallInv, WorkerInv, FateInv
<1>25. ASSUME NEW c \in Call, GetAbandon(c) \/ GetReturn(c) \/ QueryAbandon(c) \/
             SetAbandon(c)
      PROVE  FateInv'
  BY <1>25, CommandAssumption DEF GetAbandon, LeaveGet, Settle, GetReturn, QueryAbandon,
     SetAbandon, IInv, TypeOK, CallInv, WorkerInv, FateInv
<1>26. ASSUME NEW k \in Key, FeedbackPush(k) \/ Age(k)
      PROVE  FateInv'
  BY <1>26, CommandAssumption DEF FeedbackPush, Age, IInv, TypeOK, CallInv, WorkerInv,
     FateInv
<1>27. CASE UNCHANGED vars
  BY <1>27 DEF IInv, TypeOK, CallInv, WorkerInv, FateInv
<1> QED
  BY <1>1, <1>2, <1>3, <1>4, <1>5, <1>6, <1>7, <1>8, <1>9, <1>10, <1>11, <1>12, <1>13,
     <1>14, <1>15, <1>16, <1>17, <1>18, <1>19, <1>20, <1>21, <1>22, <1>23, <1>24, <1>25,
     <1>26, <1>27 DEF Next, CallStep, WorkerStep, LifecycleStep, EnvStep

\* The future is settled, or stop is about to settle it with the item's.
Released(d) ==
    fut[d] = "pending" => op[d] # "get" /\ stopping /\ loc[d] \in {"queue", "worker"}

\* Nobody who called before the last stop waits, but while that stop goes on.
ReleaseInv ==
    \A c \in old :
        /\ op[c] # "none"
        /\ Released(c)
        /\ joins[c] # NoCall => Released(joins[c])

\* No step leaves a call of before the last stop waiting.
LEMMA StepRelease ==
    IInv /\ FateInv /\ ReleaseInv /\ "cancelput" \notin HostOps /\ [Next]_vars => ReleaseInv'
<1> SUFFICES ASSUME IInv /\ FateInv /\ ReleaseInv /\ "cancelput" \notin HostOps, [Next]_vars
             PROVE  ReleaseInv'
  OBVIOUS
<1> USE DEF vars, callVars, getVars, setVars, bufVars, workVars, extVars, histVars
<1>1. ASSUME NEW c \in Call, NEW k \in Key, GetCall(c, k) PROVE ReleaseInv'
  BY <1>1, CommandAssumption DEF GetCall, MakeCall, Put, IInv, TypeOK, CallInv,
     WorkerInv, FateInv, ReleaseInv, Released
<1>2. ASSUME NEW c \in Call, NEW k \in Key, QueryCall(c, k) PROVE ReleaseInv'
  BY <1>2, CommandAssumption DEF QueryCall, MakeCall, Put, IInv, TypeOK, CallInv,
     WorkerInv, FateInv, ReleaseInv, Released
<1>3. ASSUME NEW c \in Call, NEW k \in Key, NEW ch \in Chan, NEW v \in Val, SetCall(c, k, ch, v)
      PROVE  ReleaseInv'
  <2>1. op[c] = "none" /\ old' = old /\ old \subseteq Call /\ stopping' = stopping
    BY <1>3 DEF SetCall, MakeCall, IInv, TypeOK, CallInv
  <2>2. \A d \in Call \ {c} :
           op'[d] = op[d] /\ loc'[d] = loc[d] /\ fut'[d] = fut[d] /\ joins'[d] = joins[d]
    BY <1>3 DEF SetCall, MakeCall, Put, IInv, TypeOK
  <2>3. \A d \in old : d # c /\ joins[d] # c
    BY <2>1, CommandAssumption DEF IInv, FateInv, ReleaseInv
  <2>4. \A d \in Call : joins[d] # NoCall => joins[d] \in Call
    BY DEF IInv, TypeOK
  <2> QED
    BY <2>1, <2>2, <2>3, <2>4 DEF ReleaseInv, Released
<1>4. ASSUME NEW c \in Call, PressCall(c) PROVE ReleaseInv'
  <2>1. op[c] = "none" /\ old' = old /\ old \subseteq Call /\ stopping' = stopping
    BY <1>4 DEF PressCall, MakeCall, IInv, TypeOK, CallInv
  <2>2. \A d \in Call \ {c} :
           op'[d] = op[d] /\ loc'[d] = loc[d] /\ fut'[d] = fut[d] /\ joins'[d] = joins[d]
    BY <1>4 DEF PressCall, MakeCall, Put, IInv, TypeOK
  <2>3. \A d \in old : d # c /\ joins[d] # c
    BY <2>1, CommandAssumption DEF IInv, FateInv, ReleaseInv
  <2>4. \A d \in Call : joins[d] # NoCall => joins[d] \in Call
    BY DEF IInv, TypeOK
  <2> QED
    BY <2>1, <2>2, <2>3, <2>4 DEF ReleaseInv, Released
<1>5. ASSUME NEW c \in Call, Unblock(c) PROVE ReleaseInv'
  <2>1. UNCHANGED <<op, fut, joins, stopping, old>> /\ old \subseteq Call
    BY <1>5 DEF Unblock, IInv, TypeOK
  <2>2. loc[c] = "put" /\ \A d \in Call \ {c} : loc'[d] = loc[d]
    BY <1>5, PutPlace DEF Unblock, IInv
  <2>3. \A d \in Call : Released(d) => Released(d)'
    BY <2>1, <2>2 DEF Released
  <2>4. \A d \in Call : joins[d] # NoCall => joins[d] \in Call
    BY DEF IInv, TypeOK
  <2> QED
    BY <2>1, <2>3, <2>4 DEF ReleaseInv
<1>6. ASSUME NEW c \in Call, GetCancelBlocked(c) PROVE ReleaseInv'
  BY <1>6 DEF GetCancelBlocked, LeaveGet, Settle, ReleaseInv
<1>7. ASSUME NEW c \in Call, CancelBlocked(c) PROVE ReleaseInv'
  BY <1>7 DEF CancelBlocked, ReleaseInv
<1>8. ASSUME PopSkip PROVE ReleaseInv'
  BY <1>8, PopItem, CommandAssumption DEF PopSkip, ReleaseGetKey, ReleaseSetGroup, IInv,
     TypeOK, CallInv, WorkerInv, FateInv, ReleaseInv, Released
<1>9. ASSUME PopTake PROVE ReleaseInv'
  BY <1>9, PopItem, CommandAssumption DEF PopTake, ReleaseGetKey, IInv, TypeOK, CallInv,
     WorkerInv, FateInv, ReleaseInv, Released
<1>10. ASSUME WindowEnd PROVE ReleaseInv'
  BY <1>10, CommandAssumption DEF WindowEnd, ReleaseSetGroup, BuildFrame, IInv, TypeOK,
     CallInv, WorkerInv, FateInv, ReleaseInv, Released
<1>11. ASSUME ReadDone PROVE ReleaseInv'
  BY <1>11, CommandAssumption DEF ReadDone, ReleaseBus, BuildFrame, Settle, IInv,
     TypeOK, CallInv, WorkerInv, FateInv, ReleaseInv, Released
<1>12. ASSUME ReadFail PROVE ReleaseInv'
  BY <1>12, CommandAssumption DEF ReadFail, ReleaseBus, BuildFrame, IInv, TypeOK,
     CallInv, WorkerInv, FateInv, ReleaseInv, Released
<1>13. ASSUME GetAnswered PROVE ReleaseInv'
  BY <1>13, CommandAssumption DEF GetAnswered, ReleaseBus, Settle, IInv, TypeOK,
     CallInv, WorkerInv, FateInv, ReleaseInv, Released
<1>14. ASSUME OtherAnswered PROVE ReleaseInv'
  BY <1>14, CommandAssumption DEF OtherAnswered, ReleaseBus, Settle, IInv, TypeOK,
     CallInv, WorkerInv, FateInv, ReleaseInv, Released
<1>15. ASSUME ExchangeFails PROVE ReleaseInv'
  BY <1>15, CommandAssumption DEF ExchangeFails, ReleaseBus, Settle, IInv, TypeOK,
     CallInv, WorkerInv, FateInv, ReleaseInv, Released
<1>16. ASSUME PressSent PROVE ReleaseInv'
  BY <1>16, CommandAssumption DEF PressSent, ReleaseBus, IInv, TypeOK, CallInv,
     WorkerInv, FateInv, ReleaseInv, Released
<1>17. ASSUME PostDone PROVE ReleaseInv'
  BY <1>17, CommandAssumption DEF PostDone, ClearWriting, IInv, TypeOK, CallInv,
     WorkerInv, FateInv, ReleaseInv, Released
<1>18. ASSUME StopBegin PROVE ReleaseInv'
  <2>1. old' = {c \in Call : caller[c] # "idle" /\ Placed(c)} /\ stopping'
    BY <1>18 DEF StopBegin
  <2>2. UNCHANGED <<op, loc, joins>>
    BY <1>18 DEF StopBegin
  <2>3. \A d \in Call : fut'[d] = "pending" =>
          fut[d] = "pending" /\ \A k \in Key : d \notin pendingGetFutures[k]
    BY <1>18, CommandAssumption DEF StopBegin, Settle, IInv, TypeOK
  <2>4. ASSUME NEW d \in Call, loc[d] # "put" PROVE Released(d)'
    BY <2>1, <2>2, <2>3, <2>4 DEF Released, IInv, TypeOK, CallInv, FateInv, Ops
  <2>5. \A c \in Call : joins[c] # NoCall => joins[c] \in Call
    BY DEF IInv, TypeOK
  <2> QED
    BY <2>1, <2>2, <2>4, <2>5 DEF ReleaseInv, Placed, IInv, CallInv
<1>19. ASSUME WorkerCancelled PROVE ReleaseInv'
  <2>1. UNCHANGED <<op, joins, stopping, old>> /\ stopping /\ old \subseteq Call
    BY <1>19 DEF WorkerCancelled, IInv, TypeOK
  <2>2. \A d \in Call : d # cur => fut'[d] = fut[d] /\ loc'[d] = loc[d]
    BY <1>19, CommandAssumption DEF WorkerCancelled, CancelledByStop, Settle, IInv, TypeOK
  <2>3. cur \in Call => fut'[cur] # "pending"
    BY <1>19 DEF WorkerCancelled, CancelledByStop, Settle, IInv, TypeOK
  <2>4. \A d \in Call : Released(d) => Released(d)'
    BY <2>1, <2>2, <2>3 DEF Released
  <2>5. \A c \in Call : joins[c] # NoCall => joins[c] \in Call
    BY DEF IInv, TypeOK
  <2> QED
    BY <2>1, <2>4, <2>5 DEF ReleaseInv
<1>20. ASSUME StopFinish PROVE ReleaseInv'
  <2>1. UNCHANGED <<op, joins, old>> /\ old \subseteq Call
    BY <1>20 DEF StopFinish, IInv, TypeOK
  <2>2. \A d \in Call : loc[d] # "worker"
    BY <1>20, CommandAssumption DEF StopFinish, IInv, WorkerInv
  <2>3. \A d \in Call : fut'[d] = "pending" => fut[d] = "pending" /\ loc[d] # "queue"
    BY <1>20 DEF StopFinish, DrainQueue, Settle, IInv, TypeOK
  <2>4. \A d \in Call : Released(d) => Released(d)'
    BY <2>2, <2>3 DEF Released
  <2>5. \A c \in Call : joins[c] # NoCall => joins[c] \in Call
    BY DEF IInv, TypeOK
  <2> QED
    BY <2>1, <2>4, <2>5 DEF ReleaseInv
<1>21. ASSUME Reset PROVE ReleaseInv'
  BY <1>21, CommandAssumption DEF Reset, DrainQueue, ClearGetKeys, ClearSetGroups,
     Settle, IInv, TypeOK, CallInv, WorkerInv, FateInv, ReleaseInv, Released
<1>22. ASSUME Deliver PROVE ReleaseInv'
  BY <1>22, CommandAssumption DEF Deliver, Settle, IInv, TypeOK, CallInv, WorkerInv,
     FateInv, ReleaseInv, Released
<1>23. ASSUME NEW k \in Key, NEW ch \in Chan, NEW v \in Val, Wall(k, ch, v)
      PROVE  ReleaseInv'
  BY <1>23, CommandAssumption DEF Wall, IInv, TypeOK, CallInv, WorkerInv, FateInv,
     ReleaseInv, Released
<1>24. ASSUME ScanAcquire \/ ScanRelease \/ DeviceTakes \/ Acquire \/ Start
      PROVE  ReleaseInv'
  BY <1>24, CommandAssumption DEF ScanAcquire, ScanRelease, DeviceTakes, Acquire, Start,
     IInv, TypeOK, CallInv, WorkerInv, FateInv, ReleaseInv, Released
<1>25. ASSUME NEW c \in Call, GetAbandon(c) \/ GetReturn(c) \/ QueryAbandon(c) \/
             SetAbandon(c)
      PROVE  ReleaseInv'
  BY <1>25, CommandAssumption DEF GetAbandon, LeaveGet, Settle, GetReturn, QueryAbandon,
     SetAbandon, IInv, TypeOK, CallInv, WorkerInv, FateInv, ReleaseInv, Released
<1>26. ASSUME NEW k \in Key, FeedbackPush(k) \/ Age(k)
      PROVE  ReleaseInv'
  BY <1>26, CommandAssumption DEF FeedbackPush, Age, IInv, TypeOK, CallInv, WorkerInv,
     FateInv, ReleaseInv, Released
<1>27. CASE UNCHANGED vars
  BY <1>27 DEF IInv, TypeOK, CallInv, WorkerInv, FateInv, ReleaseInv, Released
<1> QED
  BY <1>1, <1>2, <1>3, <1>4, <1>5, <1>6, <1>7, <1>8, <1>9, <1>10, <1>11, <1>12, <1>13,
     <1>14, <1>15, <1>16, <1>17, <1>18, <1>19, <1>20, <1>21, <1>22, <1>23, <1>24, <1>25,
     <1>26, <1>27 DEF Next, CallStep, WorkerStep, LifecycleStep, EnvStep

\* stop: "every waiter is released now": no call that had its place in the queue
\* when stop was called still waits when it has returned, as long as no caller is
\* cancelled while suspended in put.
THEOREM WaitersReleased ==
    ASSUME "cancelput" \notin HostOps
    PROVE  Spec => []StopReleasesWaiters
<1>1. Init => JoinInv /\ FateInv /\ ReleaseInv
  BY DEF Init, JoinInv, FateInv, ReleaseInv
<1>2. IInv /\ JoinInv /\ FateInv /\ ReleaseInv /\ [Next]_vars
        => JoinInv' /\ FateInv' /\ ReleaseInv'
  BY StepJoin, StepFate, StepRelease
<1>3. ReleaseInv => StopReleasesWaiters
  BY DEF ReleaseInv, Released, StopReleasesWaiters
<1> QED
  BY <1>1, <1>2, <1>3, Inductive, PTL DEF Spec
=============================================================================
