--------------------------- MODULE GroupWriteProofs ---------------------------
(***************************************************************************)
(* What CommandHandler promises of a group write, for every value of its   *)
(* constants: what the buffer shows while its frame is on its way, what    *)
(* the outputs show once it is acknowledged, and what the frame carries of *)
(* the outputs nobody asked to change.                                     *)
(***************************************************************************)
EXTENDS CommandHandlerProofs

-----------------------------------------------------------------------------
(* The invariant. *)

\* The item that takes a group's joiners is a write of the group, not yet past
\* its window.
PendInv ==
    \A k \in Key : pendingSetGroups[k] # NoCall =>
        LET c == pendingSetGroups[k] IN
        /\ op[c] = "set" /\ key[c] = k
        /\ cur = c => wpc = "window"

\* The writes being sent are those of the worker's item, from the end of its
\* window until the worker lets go of it.
SendInv ==
    \A k \in Key : writingSets[k] =
        IF wpc \in Writing /\ op[cur] = "set" /\ key[cur] = k THEN chans[cur] ELSE NoWrites

\* An item with writes takes joiners, is being sent, or is done with; one still
\* to be sent takes joiners, and until the module's answer nobody settles it.
RegInv ==
    /\ ~stopping
    /\ \A c \in Call : chans[c] # NoWrites =>
          /\ op[c] = "set"
          /\ \/ loc[c] = "gone"
             \/ pendingSetGroups[key[c]] = c
             \/ cur = c /\ wpc \in Writing
    /\ \A c \in Call :
          op[c] = "set" /\ (loc[c] \in {"put", "queue"} \/ (cur = c /\ wpc = "window"))
             => pendingSetGroups[key[c]] = c
    /\ \A k \in Key : pendingSetGroups[k] # NoCall => fut[pendingSetGroups[k]] = "pending"
    /\ (wpc \in {"window", "rlock", "read", "lock", "exch"} /\ op[cur] = "set")
          => fut[cur] = "pending"

\* No item but the one with the last write of an output is still to write it,
\* except for the one being sent, and then the last write is not acknowledged.
LastInv ==
    \A k \in Key, ch \in Chan :
        LET c == lastSet[k][ch] IN
        /\ PendingWrites(k)[ch] # NoVal => c \in {pendingSetGroups[k], NoCall}
        /\ c # NoCall =>
             /\ op[c] = "set" /\ key[c] = k /\ chans[c][ch] # NoVal
             /\ \A d \in Call \ {c} : (key[d] = k /\ chans[d][ch] # NoVal) =>
                  \/ loc[d] = "gone"
                  \/ cur = d /\ wpc \in Writing /\ fut[c] # "result"

\* Whose the frames on the line are: an answer to a command is of the exchange
\* going on or of one that is over, a state is of its caller's group.
LineInv ==
    \A i \in DOMAIN line :
        /\ line[i].kind = "done" =>
             /\ line[i].who \in Call /\ op[line[i].who] \in {"set", "query"}
             /\ \/ loc[line[i].who] = "gone"
                \/ cur = line[i].who /\ wpc \in {"exch", "post"}
        /\ line[i].kind # "done" => line[i].key \in Key
        /\ line[i].kind = "state" =>
             line[i].who \in Call /\ line[i].key = key[line[i].who]

\* Every state frame of the group from place n of the line on shows v.
LineShows(n, k, ch, v) ==
    \A i \in DOMAIN line :
        (i >= n /\ line[i].kind # "done" /\ line[i].key = k) => line[i].img[ch] = v

\* The frame carries the item's writes.  From the moment the module has taken
\* it, as the answer on its way or received shows, the output shows the item's
\* write and so do the states sent after that answer.
WireInv ==
    (wpc \in {"lock", "exch"} /\ op[cur] = "set") =>
        /\ \A ch \in Chan : chans[cur][ch] # NoVal => frame[ch] = chans[cur][ch]
        /\ \A ch \in Chan : lastSet[key[cur]][ch] = cur =>
             LET v == chans[cur][ch] IN
             /\ (wpc = "exch" /\ reply # NoImage) =>
                   dev[key[cur]][ch] = v /\ LineShows(1, key[cur], ch, v)
             /\ \A i \in DOMAIN line : (line[i].kind = "done" /\ line[i].who = cur) =>
                   dev[key[cur]][ch] = v /\ LineShows(i, key[cur], ch, v)

\* The last write of an output is acknowledged.
Acked(k, ch) == lastSet[k][ch] # NoCall /\ fut[lastSet[k][ch]] = "result"

\* The value it asked for.
Asked(k, ch) == chans[lastSet[k][ch]][ch]

\* The worker awaits a state of its item's group.
Reading == wpc = "read" \/ (wpc = "exch" /\ op[cur] = "get")

\* An acknowledged last write is in effect in the output, the buffer, the states
\* on their way, the answer read and the frame to be sent.
EffectInv ==
    \A k \in Key, ch \in Chan : Acked(k, ch) =>
        /\ dev[k][ch] = Asked(k, ch)
        /\ moduleStates[k][ch] = Asked(k, ch)
        /\ LineShows(1, k, ch, Asked(k, ch))
        /\ (op[cur] = "set" /\ wpc \in {"lock", "exch"} /\ key[cur] = k) =>
              frame[ch] = Asked(k, ch)
        /\ (Reading /\ reply # NoImage /\ key[cur] = k) => reply[ch] = Asked(k, ch)
-----------------------------------------------------------------------------
(* Each step keeps each part. *)

\* Past the queue's get the worker has an item, and a group if it needs one.
LEMMA WritingItem ==
    IInv => /\ wpc \in Writing \cup {"window"} => cur \in Call /\ op[cur] # "none"
            /\ wpc \in {"idle", "off"} => cur = NoCall /\ wpc \notin Writing
            /\ (cur \in Call /\ op[cur] \in {"get", "set", "query"}) => key[cur] \in Key
            /\ wpc \in {"window", "rlock", "read"} => op[cur] = "set"
<1> USE CommandAssumption
<1>1. IInv => (wpc \in Writing \cup {"window"} => cur \in Call /\ op[cur] # "none")
  BY DEF IInv, TypeOK, WorkerInv, Writing
<1>2. wpc \in {"idle", "off"} => wpc \notin Writing
  BY DEF Writing
<1> QED
  BY <1>1, <1>2 DEF IInv, WorkerInv, CallInv

\* A write is registered when it is queued and no longer once its window is
\* over.
LEMMA StepPend ==
    IInv /\ PendInv /\ [Next]_vars => PendInv'
<1> SUFFICES ASSUME IInv /\ PendInv, [Next]_vars
             PROVE  PendInv'
  OBVIOUS
<1> USE DEF vars, callVars, getVars, setVars, bufVars, workVars, extVars, histVars
<1>1. ASSUME NEW c \in Call, NEW k \in Key, GetCall(c, k) PROVE PendInv'
  BY <1>1, CommandAssumption DEF GetCall, MakeCall, Put, IInv, TypeOK, CallInv,
     WorkerInv, PendInv
<1>2. ASSUME NEW c \in Call, NEW k \in Key, QueryCall(c, k) PROVE PendInv'
  BY <1>2, CommandAssumption DEF QueryCall, MakeCall, Put, IInv, TypeOK, CallInv,
     WorkerInv, PendInv
<1>3. ASSUME NEW c \in Call, NEW k \in Key, NEW ch \in Chan, NEW v \in Val, SetCall(c, k, ch, v)
      PROVE  PendInv'
  <2>1. op[c] = "none" /\ cur # c /\ op'[c] = "set" /\ key'[c] = k
    BY <1>3 DEF SetCall, MakeCall, IInv, TypeOK, CallInv, WorkerInv
  <2>2. \A d \in Call \ {c} : op'[d] = op[d] /\ key'[d] = key[d]
    BY <1>3 DEF SetCall, MakeCall, IInv, TypeOK
  <2>3. \A j \in Key :
           /\ pendingSetGroups[j] \in Call \cup {NoCall}
           /\ \/ pendingSetGroups'[j] = pendingSetGroups[j]
              \/ j = k /\ pendingSetGroups'[j] = c
    BY <1>3 DEF SetCall, IInv, TypeOK
  <2>4. \A j \in Key : pendingSetGroups[j] # NoCall => pendingSetGroups[j] # c
    BY <2>1 DEF PendInv
  <2>5. UNCHANGED <<cur, wpc>>
    BY <1>3 DEF SetCall
  <2> QED
    BY <2>1, <2>2, <2>3, <2>4, <2>5 DEF PendInv
<1>4. ASSUME NEW c \in Call, PressCall(c) PROVE PendInv'
  BY <1>4, CommandAssumption DEF PressCall, MakeCall, Put, IInv, TypeOK, CallInv,
     WorkerInv, PendInv
<1>5. ASSUME PopSkip PROVE PendInv'
  <2>1. UNCHANGED <<op, key, cur, wpc>>
    BY <1>5 DEF PopSkip
  <2>2. \A k \in Key : pendingSetGroups'[k] \in {pendingSetGroups[k], NoCall}
    BY <1>5 DEF PopSkip, ReleaseSetGroup
  <2> QED
    BY <2>1, <2>2 DEF PendInv
<1>6. ASSUME PopTake PROVE PendInv'
  BY <1>6, PopItem, CommandAssumption DEF PopTake, ReleaseGetKey, IInv, TypeOK, CallInv,
     WorkerInv, PendInv
<1>7. ASSUME WindowEnd PROVE PendInv'
  BY <1>7, CommandAssumption DEF WindowEnd, ReleaseSetGroup, BuildFrame, IInv, TypeOK,
     CallInv, WorkerInv, PendInv
<1>8. ASSUME Acquire PROVE PendInv'
  BY <1>8, CommandAssumption DEF Acquire, IInv, TypeOK, CallInv, WorkerInv, PendInv
<1>9. ASSUME ReadDone PROVE PendInv'
  BY <1>9, CommandAssumption DEF ReadDone, ReleaseBus, BuildFrame, Settle, IInv, TypeOK,
     CallInv, WorkerInv, PendInv
<1>10. ASSUME ReadFail PROVE PendInv'
  BY <1>10, CommandAssumption DEF ReadFail, ReleaseBus, BuildFrame, IInv, TypeOK,
     CallInv, WorkerInv, PendInv
<1>11. ASSUME GetAnswered PROVE PendInv'
  BY <1>11, CommandAssumption DEF GetAnswered, ReleaseBus, Settle, IInv, TypeOK,
     CallInv, WorkerInv, PendInv
<1>12. ASSUME OtherAnswered PROVE PendInv'
  BY <1>12, CommandAssumption DEF OtherAnswered, ReleaseBus, Settle, IInv, TypeOK,
     CallInv, WorkerInv, PendInv
<1>13. ASSUME ExchangeFails PROVE PendInv'
  BY <1>13, CommandAssumption DEF ExchangeFails, ReleaseBus, Settle, IInv, TypeOK,
     CallInv, WorkerInv, PendInv
<1>14. ASSUME PressSent PROVE PendInv'
  BY <1>14, CommandAssumption DEF PressSent, ReleaseBus, IInv, TypeOK, CallInv,
     WorkerInv, PendInv
<1>15. ASSUME PostDone PROVE PendInv'
  BY <1>15, CommandAssumption DEF PostDone, ClearWriting, IInv, TypeOK, CallInv,
     WorkerInv, PendInv
<1>16. ASSUME WorkerCancelled PROVE PendInv'
  BY <1>16, CommandAssumption DEF WorkerCancelled, ClearWriting, CancelledByStop,
     Settle, IInv, TypeOK, CallInv, WorkerInv, PendInv
<1>17. ASSUME StopFinish PROVE PendInv'
  BY <1>17, CommandAssumption DEF StopFinish, DrainQueue, ClearSetGroups, Settle, IInv,
     TypeOK, CallInv, WorkerInv, PendInv
<1>18. ASSUME Reset PROVE PendInv'
  BY <1>18, CommandAssumption DEF Reset, DrainQueue, ClearGetKeys, ClearSetGroups,
     Settle, IInv, TypeOK, CallInv, WorkerInv, PendInv
<1>19. ASSUME NEW k \in Key, NEW ch \in Chan, NEW v \in Val, Wall(k, ch, v) PROVE PendInv'
  BY <1>19, CommandAssumption DEF Wall, IInv, TypeOK, CallInv, WorkerInv, PendInv
<1>20. ASSUME ScanAcquire \/ ScanRelease \/ DeviceTakes \/ Deliver \/ Start \/ StopBegin
      PROVE  PendInv'
  BY <1>20, CommandAssumption DEF ScanAcquire, ScanRelease, DeviceTakes, Deliver, Start,
     StopBegin, ClearGetKeys, IInv, TypeOK, CallInv, WorkerInv, PendInv
<1>21. ASSUME NEW c \in Call, GetAbandon(c) \/ GetReturn(c) \/ QueryAbandon(c) \/
             SetAbandon(c) \/ Unblock(c) \/ GetCancelBlocked(c) \/ CancelBlocked(c)
      PROVE  PendInv'
  BY <1>21, CommandAssumption DEF GetAbandon, LeaveGet, GetReturn, QueryAbandon,
     SetAbandon, Unblock, Put, GetCancelBlocked, CancelBlocked, IInv, TypeOK, CallInv,
     WorkerInv, PendInv
<1>22. ASSUME NEW k \in Key, FeedbackPush(k) \/ Age(k)
      PROVE  PendInv'
  BY <1>22, CommandAssumption DEF FeedbackPush, Age, IInv, TypeOK, CallInv, WorkerInv,
     PendInv
<1>23. CASE UNCHANGED vars
  BY <1>23 DEF IInv, TypeOK, CallInv, WorkerInv, PendInv
<1> QED
  BY <1>1, <1>2, <1>3, <1>4, <1>5, <1>6, <1>7, <1>8, <1>9, <1>10, <1>11, <1>12, <1>13,
     <1>14, <1>15, <1>16, <1>17, <1>18, <1>19, <1>20, <1>21, <1>22, <1>23 DEF Next,
     CallStep, WorkerStep, LifecycleStep, EnvStep

\* The writes being sent appear with the end of the window and go with the
\* frame.
LEMMA StepSend ==
    IInv /\ PendInv /\ SendInv /\ [Next]_vars => SendInv'
<1> SUFFICES ASSUME IInv /\ PendInv /\ SendInv, [Next]_vars
             PROVE  SendInv'
  OBVIOUS
<1> USE DEF vars, callVars, getVars, setVars, bufVars, workVars, extVars, histVars
<1>1. ASSUME NEW c \in Call, NEW k \in Key, GetCall(c, k) PROVE SendInv'
  <2>1. op[c] = "none" /\ UNCHANGED <<writingSets, chans, cur, wpc>>
    BY <1>1 DEF GetCall, MakeCall, IInv, CallInv
  <2>2. \A d \in Call \ {c} : op'[d] = op[d] /\ key'[d] = key[d]
    BY <1>1 DEF GetCall, MakeCall, IInv, TypeOK
  <2> QED
    BY <2>1, <2>2, WritingItem DEF SendInv
<1>2. ASSUME NEW c \in Call, NEW k \in Key, QueryCall(c, k) PROVE SendInv'
  <2>1. op[c] = "none" /\ UNCHANGED <<writingSets, chans, cur, wpc>>
    BY <1>2 DEF QueryCall, MakeCall, IInv, CallInv
  <2>2. \A d \in Call \ {c} : op'[d] = op[d] /\ key'[d] = key[d]
    BY <1>2 DEF QueryCall, MakeCall, IInv, TypeOK
  <2> QED
    BY <2>1, <2>2, WritingItem DEF SendInv
<1>3. ASSUME NEW c \in Call, NEW k \in Key, NEW ch \in Chan, NEW v \in Val, SetCall(c, k, ch, v)
      PROVE  SendInv'
  <2>1. op[c] = "none" /\ UNCHANGED <<writingSets, cur, wpc>>
    BY <1>3 DEF SetCall, MakeCall, IInv, CallInv
  <2>2. \A d \in Call \ {c} : op'[d] = op[d] /\ key'[d] = key[d]
    BY <1>3 DEF SetCall, MakeCall, IInv, TypeOK
  <2>3. wpc \in Writing => cur # c /\ pendingSetGroups[k] # cur
    BY <2>1, CommandAssumption, WritingItem DEF PendInv, Writing
  <2>4. wpc \in Writing => chans'[cur] = chans[cur]
    BY <1>3, <2>3, WritingItem DEF SetCall, IInv, TypeOK
  <2> QED
    BY <2>1, <2>2, <2>4, WritingItem DEF SendInv
<1>4. ASSUME NEW c \in Call, PressCall(c) PROVE SendInv'
  <2>1. op[c] = "none" /\ UNCHANGED <<writingSets, chans, cur, wpc>>
    BY <1>4 DEF PressCall, MakeCall, IInv, CallInv
  <2>2. \A d \in Call \ {c} : op'[d] = op[d] /\ key'[d] = key[d]
    BY <1>4 DEF PressCall, MakeCall, IInv, TypeOK
  <2> QED
    BY <2>1, <2>2, WritingItem DEF SendInv
<1>5. ASSUME NEW c \in Call, GetAbandon(c) PROVE SendInv'
  BY <1>5 DEF GetAbandon, LeaveGet, SendInv
<1>6. ASSUME NEW c \in Call, GetCancelBlocked(c) PROVE SendInv'
  BY <1>6 DEF GetCancelBlocked, LeaveGet, SendInv
<1>7. ASSUME NEW c \in Call, GetReturn(c) PROVE SendInv'
  BY <1>7 DEF GetReturn, LeaveGet, SendInv
<1>8. ASSUME PopSkip PROVE SendInv'
  <2>1. UNCHANGED <<writingSets, chans, op, key, cur, wpc>>
    BY <1>8 DEF PopSkip
  <2> QED
    BY <2>1 DEF SendInv
<1>9. ASSUME PopTake PROVE SendInv'
  <2>1. wpc = "idle" /\ UNCHANGED <<writingSets, chans, op, key>>
    BY <1>9 DEF PopTake
  <2>2. wpc' \in Writing => op[cur'] # "set"
    BY <1>9 DEF PopTake, Writing
  <2> QED
    BY <2>1, <2>2, WritingItem DEF SendInv
<1>10. ASSUME WindowEnd PROVE SendInv'
  <2>1. cur \in Call /\ key[cur] \in Key /\ op[cur] = "set"
    BY <1>10, WritingItem DEF WindowEnd
  <2>2. \A k \in Key : writingSets[k] = NoWrites
    BY <1>10 DEF WindowEnd, Writing, SendInv
  <2>3. writingSets' = [writingSets EXCEPT ![key[cur]] = chans[cur]]
    BY <1>10 DEF WindowEnd
  <2>4. UNCHANGED <<chans, op, key, cur>> /\ wpc' \in Writing
    BY <1>10 DEF WindowEnd, BuildFrame, Writing
  <2>5. writingSets \in [Key -> Writes]
    BY DEF IInv, TypeOK
  <2> QED
    BY <2>1, <2>2, <2>3, <2>4, <2>5 DEF SendInv
<1>11. ASSUME Acquire PROVE SendInv'
  <2>1. UNCHANGED <<writingSets, chans, op, key, cur>> /\ wpc \in Writing /\ wpc' \in Writing
    BY <1>11 DEF Acquire, BuildFrame, Writing
  <2> QED
    BY <2>1 DEF SendInv
<1>12. ASSUME ReadDone PROVE SendInv'
  <2>1. UNCHANGED <<writingSets, chans, op, key, cur>> /\ wpc \in Writing /\ wpc' \in Writing
    BY <1>12 DEF ReadDone, BuildFrame, Writing
  <2> QED
    BY <2>1 DEF SendInv
<1>13. ASSUME ReadFail PROVE SendInv'
  <2>1. UNCHANGED <<writingSets, chans, op, key, cur>> /\ wpc \in Writing /\ wpc' \in Writing
    BY <1>13 DEF ReadFail, BuildFrame, Writing
  <2> QED
    BY <2>1 DEF SendInv
<1>14. ASSUME GetAnswered PROVE SendInv'
  <2>1. UNCHANGED <<writingSets, chans, op, key, cur>> /\ wpc \in Writing /\ wpc' \in Writing
    BY <1>14 DEF GetAnswered, BuildFrame, Writing
  <2> QED
    BY <2>1 DEF SendInv
<1>15. ASSUME OtherAnswered PROVE SendInv'
  <2>1. UNCHANGED <<writingSets, chans, op, key, cur>> /\ wpc \in Writing /\ wpc' \in Writing
    BY <1>15 DEF OtherAnswered, BuildFrame, Writing
  <2> QED
    BY <2>1 DEF SendInv
<1>16. ASSUME ExchangeFails PROVE SendInv'
  <2>1. UNCHANGED <<writingSets, chans, op, key, cur>> /\ wpc \in Writing /\ wpc' \in Writing
    BY <1>16 DEF ExchangeFails, BuildFrame, Writing
  <2> QED
    BY <2>1 DEF SendInv
<1>17. ASSUME PressSent PROVE SendInv'
  <2>1. UNCHANGED <<writingSets, chans, op, key, cur>> /\ wpc \in Writing /\ wpc' \in Writing
    BY <1>17 DEF PressSent, BuildFrame, Writing
  <2> QED
    BY <2>1 DEF SendInv
<1>18. ASSUME PostDone PROVE SendInv'
  <2>1. wpc' \notin Writing
    BY <1>18 DEF PostDone, Writing
  <2>2. \A k \in Key : writingSets'[k] = NoWrites
    BY <1>18, CommandAssumption, WritingItem DEF PostDone, ClearWriting, SendInv, IInv, TypeOK, Writing
  <2> QED
    BY <2>1, <2>2 DEF SendInv
<1>19. ASSUME Start PROVE SendInv'
  <2>1. wpc \notin Writing /\ wpc' \notin Writing /\ UNCHANGED writingSets
    BY <1>19 DEF Start, Writing
  <2> QED
    BY <2>1 DEF SendInv
<1>20. ASSUME WorkerCancelled PROVE SendInv'
  <2>1. wpc' \notin Writing
    BY <1>20 DEF WorkerCancelled, Writing
  <2>2. \A k \in Key : writingSets'[k] = NoWrites
    BY <1>20, CommandAssumption, WritingItem DEF WorkerCancelled, ClearWriting, SendInv, IInv, TypeOK, Writing
  <2> QED
    BY <2>1, <2>2 DEF SendInv
<1>21. ASSUME StopFinish PROVE SendInv'
  <2>1. wpc' \notin Writing
    BY <1>21 DEF StopFinish, Writing
  <2> QED
    BY <1>21, <2>1 DEF StopFinish, SendInv
<1>22. ASSUME Reset PROVE SendInv'
  <2>1. UNCHANGED <<writingSets, chans, op, key, cur, wpc>>
    BY <1>22 DEF Reset
  <2> QED
    BY <2>1 DEF SendInv
<1>23. ASSUME NEW k \in Key, NEW ch \in Chan, NEW v \in Val, Wall(k, ch, v) PROVE SendInv'
  BY <1>23 DEF Wall, SendInv
<1>24. ASSUME ScanAcquire \/ ScanRelease \/ DeviceTakes \/ Deliver \/ StopBegin
      PROVE  SendInv'
  BY <1>24 DEF ScanAcquire, ScanRelease, DeviceTakes, Deliver, StopBegin, SendInv
<1>25. ASSUME NEW c \in Call, QueryAbandon(c) \/ SetAbandon(c) \/ Unblock(c) \/
             CancelBlocked(c)
      PROVE  SendInv'
  BY <1>25 DEF QueryAbandon, SetAbandon, Unblock, CancelBlocked, SendInv
<1>26. ASSUME NEW k \in Key, FeedbackPush(k) \/ Age(k)
      PROVE  SendInv'
  BY <1>26 DEF FeedbackPush, Age, SendInv
<1>27. CASE UNCHANGED vars
  BY <1>27 DEF SendInv
<1> QED
  BY <1>1, <1>2, <1>3, <1>4, <1>5, <1>6, <1>7, <1>8, <1>9, <1>10, <1>11, <1>12, <1>13,
     <1>14, <1>15, <1>16, <1>17, <1>18, <1>19, <1>20, <1>21, <1>22, <1>23, <1>24, <1>25,
     <1>26, <1>27 DEF Next, CallStep, WorkerStep, LifecycleStep, EnvStep
\* No step hides a write being sent from the buffer, but for a write that
\* waits.
LEMMA StepShows ==
    IInv /\ PendInv /\ SendInv /\ BufferShowsSent /\ "reset" \notin HostOps /\ [Next]_vars => BufferShowsSent'
<1> SUFFICES ASSUME IInv /\ PendInv /\ SendInv /\ BufferShowsSent /\ "reset" \notin HostOps, [Next]_vars
             PROVE  BufferShowsSent'
  OBVIOUS
<1> USE DEF vars, callVars, getVars, setVars, bufVars, workVars, extVars, histVars
<1>0. \A k \in Key : writingSets[k] \in Writes /\ PendingWrites(k) \in Writes
  BY PendingWritesType DEF IInv, TypeOK
<1>1. ASSUME NEW c \in Call, NEW k \in Key, GetCall(c, k) PROVE BufferShowsSent'
  <2>1. UNCHANGED <<writingSets, pendingSetGroups, chans, moduleStates>>
    BY <1>1 DEF GetCall, LeaveGet
  <2>2. wpc' \in {"lock", "exch", "post"} => wpc \in {"lock", "exch", "post"}
    BY <1>1 DEF GetCall, LeaveGet
  <2> QED
    BY <2>1, <2>2 DEF BufferShowsSent, PendingWrites
<1>2. ASSUME NEW c \in Call, NEW k \in Key, QueryCall(c, k) PROVE BufferShowsSent'
  <2>1. UNCHANGED <<writingSets, pendingSetGroups, chans, moduleStates>>
    BY <1>2 DEF QueryCall, LeaveGet
  <2>2. wpc' \in {"lock", "exch", "post"} => wpc \in {"lock", "exch", "post"}
    BY <1>2 DEF QueryCall, LeaveGet
  <2> QED
    BY <2>1, <2>2 DEF BufferShowsSent, PendingWrites
<1>3. ASSUME NEW c \in Call, NEW k \in Key, NEW ch \in Chan, NEW v \in Val, SetCall(c, k, ch, v)
      PROVE  BufferShowsSent'
  <2>1. op[c] = "none" /\ UNCHANGED <<writingSets, wpc>>
    BY <1>3 DEF SetCall, MakeCall, IInv, CallInv
  <2> DEFINE item == IF pendingSetGroups[k] = NoCall THEN c ELSE pendingSetGroups[k]
  <2>2. item \in Call /\ pendingSetGroups'[k] = item /\ chans'[item][ch] = v
    BY <1>3 DEF SetCall, IInv, TypeOK, Writes
  <2>3. v # NoVal /\ item # NoCall
    BY <2>2, CommandAssumption
  <2>4. PendingWrites(k)'[ch] # NoVal
    BY <2>2, <2>3 DEF PendingWrites
  <2>5. \A j \in Key \ {k} : moduleStates'[j] = moduleStates[j] /\ PendingWrites(j)' = PendingWrites(j)
    <3>1. \A j \in Key \ {k} : pendingSetGroups'[j] = pendingSetGroups[j] /\ pendingSetGroups[j] # item
      BY <1>3, <2>1, CommandAssumption DEF SetCall, IInv, TypeOK, PendInv
    <3>2. \A d \in Call \ {item} : chans'[d] = chans[d]
      BY <1>3 DEF SetCall, IInv, TypeOK
    <3> QED
      BY <1>3, <3>1, <3>2 DEF SetCall, PendingWrites, IInv, TypeOK
  <2>6. \A x \in Chan \ {ch} : /\ moduleStates'[k][x] = moduleStates[k][x]
                               /\ PendingWrites(k)'[x] = NoVal => PendingWrites(k)[x] = NoVal
    <3>1. \A x \in Chan \ {ch} : moduleStates'[k][x] = moduleStates[k][x] /\ chans'[item][x] = chans[item][x]
      BY <1>3 DEF SetCall, IInv, TypeOK, Image, Writes
    <3> QED
      BY <2>2, <2>3, <3>1 DEF PendingWrites, NoWrites
  <2> QED
    BY <2>1, <2>4, <2>5, <2>6 DEF BufferShowsSent
<1>4. ASSUME NEW c \in Call, PressCall(c) PROVE BufferShowsSent'
  <2>1. UNCHANGED <<writingSets, pendingSetGroups, chans, moduleStates>>
    BY <1>4 DEF PressCall, LeaveGet
  <2>2. wpc' \in {"lock", "exch", "post"} => wpc \in {"lock", "exch", "post"}
    BY <1>4 DEF PressCall, LeaveGet
  <2> QED
    BY <2>1, <2>2 DEF BufferShowsSent, PendingWrites
<1>5. ASSUME NEW c \in Call, GetAbandon(c) PROVE BufferShowsSent'
  <2>1. UNCHANGED <<writingSets, pendingSetGroups, chans, moduleStates>>
    BY <1>5 DEF GetAbandon, LeaveGet
  <2>2. wpc' \in {"lock", "exch", "post"} => wpc \in {"lock", "exch", "post"}
    BY <1>5 DEF GetAbandon, LeaveGet
  <2> QED
    BY <2>1, <2>2 DEF BufferShowsSent, PendingWrites
<1>6. ASSUME NEW c \in Call, GetCancelBlocked(c) PROVE BufferShowsSent'
  <2>1. UNCHANGED <<writingSets, pendingSetGroups, chans, moduleStates>>
    BY <1>6 DEF GetCancelBlocked, LeaveGet
  <2>2. wpc' \in {"lock", "exch", "post"} => wpc \in {"lock", "exch", "post"}
    BY <1>6 DEF GetCancelBlocked, LeaveGet
  <2> QED
    BY <2>1, <2>2 DEF BufferShowsSent, PendingWrites
<1>7. ASSUME NEW c \in Call, GetReturn(c) PROVE BufferShowsSent'
  <2>1. UNCHANGED <<writingSets, pendingSetGroups, chans, moduleStates>>
    BY <1>7 DEF GetReturn, LeaveGet
  <2>2. wpc' \in {"lock", "exch", "post"} => wpc \in {"lock", "exch", "post"}
    BY <1>7 DEF GetReturn, LeaveGet
  <2> QED
    BY <2>1, <2>2 DEF BufferShowsSent, PendingWrites
<1>8. ASSUME PopSkip PROVE BufferShowsSent'
  <2>1. wpc' \notin {"lock", "exch", "post"}
    BY <1>8 DEF PopSkip
  <2> QED
    BY <2>1 DEF BufferShowsSent
<1>9. ASSUME PopTake PROVE BufferShowsSent'
  <2>1. \A k \in Key : writingSets'[k] = NoWrites
    BY <1>9 DEF PopTake, SendInv, Writing
  <2> QED
    BY <2>1 DEF BufferShowsSent, NoWrites
<1>10. ASSUME WindowEnd PROVE BufferShowsSent'
  <2>1. cur \in Call /\ key[cur] \in Key /\ op[cur] = "set" /\ chans[cur] \in Writes
    BY <1>10, WritingItem DEF WindowEnd, IInv, TypeOK
  <2>2. wpc' # "rlock" => /\ recent[key[cur]]
                          /\ BuildFrame(moduleStates[key[cur]])
    BY <1>10 DEF WindowEnd
  <2>3. \A k \in Key : writingSets'[k] = IF key[cur] = k THEN chans[cur] ELSE NoWrites
    BY <1>10, <2>1 DEF WindowEnd, SendInv, Writing, IInv, TypeOK
  <2>4. wpc' # "rlock" =>
           \A ch \in Chan : chans[cur][ch] # NoVal => moduleStates'[key[cur]][ch] = chans[cur][ch]
    BY <2>1, <2>2 DEF BuildFrame, Overlay, IInv, TypeOK
  <2> QED
    BY <2>1, <2>3, <2>4 DEF BufferShowsSent, NoWrites
<1>11. ASSUME Acquire PROVE BufferShowsSent'
  <2>1. UNCHANGED <<writingSets, pendingSetGroups, chans, moduleStates>>
    BY <1>11 DEF Acquire, LeaveGet
  <2>2. wpc' \in {"lock", "exch", "post"} => wpc \in {"lock", "exch", "post"}
    BY <1>11 DEF Acquire, LeaveGet
  <2> QED
    BY <2>1, <2>2 DEF BufferShowsSent, PendingWrites
<1>12. ASSUME ReadDone PROVE BufferShowsSent'
  <2>1. cur \in Call /\ key[cur] \in Key /\ op[cur] = "set" /\ chans[cur] \in Writes
    BY <1>12, WritingItem DEF ReadDone, IInv, TypeOK, Writing
  <2>2. UNCHANGED <<writingSets, chans>> /\ \A k \in Key : PendingWrites(k)' = PendingWrites(k)
    BY <1>12 DEF ReadDone, PendingWrites
  <2>3. \A k \in Key : writingSets[k] = IF key[cur] = k THEN chans[cur] ELSE NoWrites
    BY <1>12, <2>1 DEF ReadDone, SendInv, Writing
  <2>4. \A ch \in Chan : chans[cur][ch] # NoVal => moduleStates'[key[cur]][ch] = chans[cur][ch]
    BY <1>12, <2>1 DEF ReadDone, BuildFrame, Overlay, IInv, TypeOK
  <2> QED
    BY <2>1, <2>2, <2>3, <2>4 DEF BufferShowsSent, NoWrites
<1>13. ASSUME ReadFail PROVE BufferShowsSent'
  <2>1. cur \in Call /\ key[cur] \in Key /\ op[cur] = "set" /\ chans[cur] \in Writes
    BY <1>13, WritingItem DEF ReadFail, IInv, TypeOK, Writing
  <2>2. UNCHANGED <<writingSets, chans>> /\ \A k \in Key : PendingWrites(k)' = PendingWrites(k)
    BY <1>13 DEF ReadFail, PendingWrites
  <2>3. \A k \in Key : writingSets[k] = IF key[cur] = k THEN chans[cur] ELSE NoWrites
    BY <1>13, <2>1 DEF ReadFail, SendInv, Writing
  <2>4. \A ch \in Chan : chans[cur][ch] # NoVal => moduleStates'[key[cur]][ch] = chans[cur][ch]
    BY <1>13, <2>1 DEF ReadFail, BuildFrame, Overlay, IInv, TypeOK
  <2> QED
    BY <2>1, <2>2, <2>3, <2>4 DEF BufferShowsSent, NoWrites
<1>14. ASSUME GetAnswered PROVE BufferShowsSent'
  <2>1. wpc = "exch" /\ op[cur] = "get" /\ UNCHANGED writingSets
    BY <1>14 DEF GetAnswered
  <2>2. \A k \in Key : writingSets[k] = NoWrites
    BY <2>1 DEF SendInv
  <2> QED
    BY <2>1, <2>2 DEF BufferShowsSent, NoWrites
<1>15. ASSUME OtherAnswered PROVE BufferShowsSent'
  <2>1. UNCHANGED <<writingSets, pendingSetGroups, chans, moduleStates>>
    BY <1>15 DEF OtherAnswered, LeaveGet
  <2>2. wpc' \in {"lock", "exch", "post"} => wpc \in {"lock", "exch", "post"}
    BY <1>15 DEF OtherAnswered, LeaveGet
  <2> QED
    BY <2>1, <2>2 DEF BufferShowsSent, PendingWrites
<1>16. ASSUME ExchangeFails PROVE BufferShowsSent'
  <2>1. UNCHANGED <<writingSets, pendingSetGroups, chans, moduleStates>>
    BY <1>16 DEF ExchangeFails, LeaveGet
  <2>2. wpc' \in {"lock", "exch", "post"} => wpc \in {"lock", "exch", "post"}
    BY <1>16 DEF ExchangeFails, LeaveGet
  <2> QED
    BY <2>1, <2>2 DEF BufferShowsSent, PendingWrites
<1>17. ASSUME PressSent PROVE BufferShowsSent'
  <2>1. UNCHANGED <<writingSets, pendingSetGroups, chans, moduleStates>>
    BY <1>17 DEF PressSent, LeaveGet
  <2>2. wpc' \in {"lock", "exch", "post"} => wpc \in {"lock", "exch", "post"}
    BY <1>17 DEF PressSent, LeaveGet
  <2> QED
    BY <2>1, <2>2 DEF BufferShowsSent, PendingWrites
<1>18. ASSUME PostDone PROVE BufferShowsSent'
  <2>1. wpc' \notin {"lock", "exch", "post"}
    BY <1>18 DEF PostDone
  <2> QED
    BY <2>1 DEF BufferShowsSent
<1>19. ASSUME Start PROVE BufferShowsSent'
  <2>1. wpc' \notin {"lock", "exch", "post"}
    BY <1>19 DEF Start
  <2> QED
    BY <2>1 DEF BufferShowsSent
<1>20. ASSUME WorkerCancelled PROVE BufferShowsSent'
  <2>1. wpc' \notin {"lock", "exch", "post"}
    BY <1>20 DEF WorkerCancelled
  <2> QED
    BY <2>1 DEF BufferShowsSent
<1>21. ASSUME StopFinish PROVE BufferShowsSent'
  <2>1. wpc' \notin {"lock", "exch", "post"}
    BY <1>21 DEF StopFinish
  <2> QED
    BY <2>1 DEF BufferShowsSent
<1>22. ASSUME Reset PROVE BufferShowsSent'
  BY <1>22 DEF Reset
<1>23. ASSUME Deliver PROVE BufferShowsSent'
  <2> DEFINE m == Head(line)
  <2>1. UNCHANGED <<writingSets, wpc>> /\ \A k \in Key : PendingWrites(k)' = PendingWrites(k)
    BY <1>23 DEF Deliver, PendingWrites
  <2>2. \/ UNCHANGED moduleStates
        \/ moduleStates' = [moduleStates EXCEPT ![m.key] = ApplyGroupState(m.key, m.img)]
    BY <1>23 DEF Deliver
  <2>3. ASSUME NEW k \in Key, NEW ch \in Chan, writingSets[k][ch] # NoVal
        PROVE  ApplyGroupState(k, m.img)[ch] = writingSets[k][ch]
    BY <2>3 DEF ApplyGroupState, Overlay
  <2> HIDE DEF m
  <2>4. ASSUME NEW k \in Key, NEW ch \in Chan, writingSets[k][ch] # NoVal
        PROVE  moduleStates'[k][ch] \in {moduleStates[k][ch], writingSets[k][ch]}
    <3>1. CASE UNCHANGED moduleStates
      BY <3>1
    <3>2. CASE moduleStates' = [moduleStates EXCEPT ![m.key] = ApplyGroupState(m.key, m.img)]
      <4>1. DOMAIN moduleStates = Key
        BY DEF IInv, TypeOK
      <4>2. moduleStates'[k] = IF k = m.key THEN ApplyGroupState(k, m.img) ELSE moduleStates[k]
        BY <3>2, <4>1
      <4>3. ApplyGroupState(k, m.img)[ch] = writingSets[k][ch]
        BY <2>3, <2>4
      <4> QED
        BY <4>2, <4>3
    <3> QED
      BY <2>2, <3>1, <3>2
  <2> QED
    BY <2>1, <2>4 DEF BufferShowsSent
<1>24. ASSUME NEW k \in Key, NEW ch \in Chan, NEW v \in Val, Wall(k, ch, v)
      PROVE  BufferShowsSent'
  BY <1>24 DEF Wall, BufferShowsSent, PendingWrites
<1>25. ASSUME ScanAcquire \/ ScanRelease \/ DeviceTakes \/ StopBegin
      PROVE  BufferShowsSent'
  BY <1>25 DEF ScanAcquire, ScanRelease, DeviceTakes, StopBegin, ClearGetKeys, Settle,
     BufferShowsSent, PendingWrites
<1>26. ASSUME NEW c \in Call, QueryAbandon(c) \/ SetAbandon(c) \/ Unblock(c) \/
             CancelBlocked(c)
      PROVE  BufferShowsSent'
  BY <1>26 DEF QueryAbandon, Settle, SetAbandon, Unblock, CancelBlocked,
     BufferShowsSent, PendingWrites
<1>27. ASSUME NEW k \in Key, FeedbackPush(k) \/ Age(k)
      PROVE  BufferShowsSent'
  BY <1>27 DEF FeedbackPush, Age, BufferShowsSent, PendingWrites
<1>28. CASE UNCHANGED vars
  BY <1>28 DEF BufferShowsSent, PendingWrites
<1> QED
  BY <1>1, <1>2, <1>3, <1>4, <1>5, <1>6, <1>7, <1>8, <1>9, <1>10, <1>11, <1>12, <1>13,
     <1>14, <1>15, <1>16, <1>17, <1>18, <1>19, <1>20, <1>21, <1>22, <1>23, <1>24, <1>25,
     <1>26, <1>27, <1>28 DEF Next, CallStep, WorkerStep, LifecycleStep, EnvStep

\* apply_group_state: from the frame's building to its outcome the buffer shows
\* the writes being sent, whatever is reported meanwhile, as long as nothing
\* drops the writes waiting behind them (reset).
THEOREM SentShown ==
    ASSUME "reset" \notin HostOps
    PROVE  Spec => []BufferShowsSent
<1>1. Init => PendInv /\ SendInv /\ BufferShowsSent
  BY DEF Init, PendInv, SendInv, BufferShowsSent, Writing
<1>2. IInv /\ PendInv /\ SendInv /\ BufferShowsSent /\ [Next]_vars
        => PendInv' /\ SendInv' /\ BufferShowsSent'
  BY StepPend, StepSend, StepShows
<1> QED
  BY <1>1, <1>2, Inductive, PTL DEF Spec


\* What is known of the oldest frame on the line.
LEMMA HeadFrame ==
    ASSUME IInv, LineInv, line # <<>>
    PROVE  /\ Head(line) \in Frames /\ Head(line).img \in Image
           /\ Head(line).kind # "done" => Head(line).key \in Key
           /\ Head(line).kind = "state" =>
                Head(line).who \in Call /\ Head(line).key = key[Head(line).who]
           /\ Head(line).kind = "done" => op[Head(line).who] \in {"set", "query"}
<1>1. line \in Seq(Frames)
  BY DEF IInv, TypeOK
<1>2. 1 \in DOMAIN line /\ Head(line) = line[1] /\ Head(line) \in Frames
  BY <1>1
<1> QED
  BY <1>2 DEF LineInv, Frames

\* The places on the line count from one.
LEMMA LineNat == IInv => DOMAIN line \subseteq Nat \ {0}
<1> SUFFICES ASSUME IInv PROVE DOMAIN line \subseteq Nat \ {0}
  OBVIOUS
<1>1. line \in Seq(Frames)
  BY DEF IInv, TypeOK
<1> QED
  BY <1>1

\* A frame put on the line keeps its place behind the others.
LEMMA LineAppend ==
    ASSUME IInv, NEW m \in Frames, line' = Append(line, m)
    PROVE  /\ Len(line) \in Nat /\ DOMAIN line = 1 .. Len(line)
           /\ DOMAIN line' = 1 .. (Len(line) + 1)
           /\ line'[Len(line) + 1] = m
           /\ \A i \in 1 .. Len(line) : line'[i] = line[i]
<1>1. line \in Seq(Frames)
  BY DEF IInv, TypeOK
<1> QED
  BY <1>1

\* Taking the oldest frame moves the others up.
LEMMA LineTail ==
    ASSUME IInv, line # <<>>, line' = Tail(line)
    PROVE  /\ Len(line) \in Nat \ {0} /\ DOMAIN line = 1 .. Len(line)
           /\ DOMAIN line' = 1 .. (Len(line) - 1)
           /\ Head(line) = line[1]
           /\ \A i \in DOMAIN line' : i + 1 \in DOMAIN line /\ line'[i] = line[i + 1]
<1>1. line \in Seq(Frames)
  BY DEF IInv, TypeOK
<1> QED
  BY <1>1

\* A frame the module or the Feedback Module sends is a frame.
LEMMA SentFrame ==
    ASSUME IInv, NEW k \in Key, NEW c \in Call \cup {NoCall}
    PROVE  /\ StateFrame("state", c, k) \in Frames /\ StateFrame("push", c, k) \in Frames
           /\ DoneFrame(c, k) \in Frames
BY CommandAssumption DEF StateFrame, DoneFrame, Frames, Image, IInv, TypeOK

\* The frames on the line stay those of the groups and of the exchange.
LEMMA StepLine ==
    IInv /\ LineInv /\ [Next]_vars => LineInv'
<1> SUFFICES ASSUME IInv /\ LineInv, [Next]_vars
             PROVE  LineInv'
  OBVIOUS
<1> USE DEF vars, callVars, getVars, setVars, bufVars, workVars, extVars, histVars
<1>1. ASSUME NEW c \in Call, NEW k \in Key, GetCall(c, k) PROVE LineInv'
  <2>1. op[c] = "none" /\ loc[c] = "none"
    BY <1>1 DEF GetCall, MakeCall, IInv, TypeOK, CallInv
  <2>2. \A d \in Call \ {c} : op'[d] = op[d] /\ key'[d] = key[d] /\ loc'[d] = loc[d]
    BY <1>1 DEF GetCall, MakeCall, Put, IInv, TypeOK
  <2>3. UNCHANGED <<line, cur, wpc>>
    BY <1>1 DEF GetCall
  <2>4. key[c] \notin Key
    BY <2>1 DEF IInv, CallInv
  <2> QED
    BY <2>1, <2>2, <2>3, <2>4 DEF LineInv
<1>2. ASSUME NEW c \in Call, NEW k \in Key, QueryCall(c, k) PROVE LineInv'
  <2>1. op[c] = "none" /\ loc[c] = "none"
    BY <1>2 DEF QueryCall, MakeCall, IInv, TypeOK, CallInv
  <2>2. \A d \in Call \ {c} : op'[d] = op[d] /\ key'[d] = key[d] /\ loc'[d] = loc[d]
    BY <1>2 DEF QueryCall, MakeCall, Put, IInv, TypeOK
  <2>3. UNCHANGED <<line, cur, wpc>>
    BY <1>2 DEF QueryCall
  <2>4. key[c] \notin Key
    BY <2>1 DEF IInv, CallInv
  <2> QED
    BY <2>1, <2>2, <2>3, <2>4 DEF LineInv
<1>3. ASSUME NEW c \in Call, NEW k \in Key, NEW ch \in Chan, NEW v \in Val, SetCall(c, k, ch, v)
      PROVE  LineInv'
  <2>1. op[c] = "none" /\ loc[c] = "none"
    BY <1>3 DEF SetCall, MakeCall, IInv, TypeOK, CallInv
  <2>2. \A d \in Call \ {c} : op'[d] = op[d] /\ key'[d] = key[d] /\ loc'[d] = loc[d]
    BY <1>3 DEF SetCall, MakeCall, Put, IInv, TypeOK
  <2>3. UNCHANGED <<line, cur, wpc>>
    BY <1>3 DEF SetCall
  <2>4. key[c] \notin Key
    BY <2>1 DEF IInv, CallInv
  <2> QED
    BY <2>1, <2>2, <2>3, <2>4 DEF LineInv
<1>4. ASSUME NEW c \in Call, PressCall(c) PROVE LineInv'
  <2>1. op[c] = "none" /\ loc[c] = "none"
    BY <1>4 DEF PressCall, MakeCall, IInv, TypeOK, CallInv
  <2>2. \A d \in Call \ {c} : op'[d] = op[d] /\ key'[d] = key[d] /\ loc'[d] = loc[d]
    BY <1>4 DEF PressCall, MakeCall, Put, IInv, TypeOK
  <2>3. UNCHANGED <<line, cur, wpc>>
    BY <1>4 DEF PressCall
  <2>4. key[c] \notin Key
    BY <2>1 DEF IInv, CallInv
  <2> QED
    BY <2>1, <2>2, <2>3, <2>4 DEF LineInv
<1>5. ASSUME NEW c \in Call, Unblock(c) PROVE LineInv'
  <2>1. UNCHANGED <<op, key, line>> /\ \A d \in Call : loc[d] = "gone" => loc'[d] = "gone"
    BY <1>5, CommandAssumption DEF Unblock, Put, LeaveGet, DrainQueue, IInv, TypeOK
  <2>2. cur' = cur /\ (wpc \in {"exch", "post"} => wpc' \in {"exch", "post"})
    BY <1>5 DEF Unblock, LeaveGet, BuildFrame
  <2> QED
    BY <2>1, <2>2 DEF LineInv
<1>6. ASSUME NEW c \in Call, GetAbandon(c) PROVE LineInv'
  <2>1. UNCHANGED <<op, key, line>> /\ \A d \in Call : loc[d] = "gone" => loc'[d] = "gone"
    BY <1>6, CommandAssumption DEF GetAbandon, Put, LeaveGet, DrainQueue, IInv, TypeOK
  <2>2. cur' = cur /\ (wpc \in {"exch", "post"} => wpc' \in {"exch", "post"})
    BY <1>6 DEF GetAbandon, LeaveGet, BuildFrame
  <2> QED
    BY <2>1, <2>2 DEF LineInv
<1>7. ASSUME NEW c \in Call, GetCancelBlocked(c) PROVE LineInv'
  <2>1. UNCHANGED <<op, key, line>> /\ \A d \in Call : loc[d] = "gone" => loc'[d] = "gone"
    BY <1>7, CommandAssumption DEF GetCancelBlocked, Put, LeaveGet, DrainQueue, IInv, TypeOK
  <2>2. cur' = cur /\ (wpc \in {"exch", "post"} => wpc' \in {"exch", "post"})
    BY <1>7 DEF GetCancelBlocked, LeaveGet, BuildFrame
  <2> QED
    BY <2>1, <2>2 DEF LineInv
<1>8. ASSUME NEW c \in Call, GetReturn(c) PROVE LineInv'
  <2>1. UNCHANGED <<op, key, line>> /\ \A d \in Call : loc[d] = "gone" => loc'[d] = "gone"
    BY <1>8, CommandAssumption DEF GetReturn, Put, LeaveGet, DrainQueue, IInv, TypeOK
  <2>2. cur' = cur /\ (wpc \in {"exch", "post"} => wpc' \in {"exch", "post"})
    BY <1>8 DEF GetReturn, LeaveGet, BuildFrame
  <2> QED
    BY <2>1, <2>2 DEF LineInv
<1>9. ASSUME NEW c \in Call, QueryAbandon(c) PROVE LineInv'
  <2>1. UNCHANGED <<op, key, line>> /\ \A d \in Call : loc[d] = "gone" => loc'[d] = "gone"
    BY <1>9, CommandAssumption DEF QueryAbandon, Put, LeaveGet, DrainQueue, IInv, TypeOK
  <2>2. cur' = cur /\ (wpc \in {"exch", "post"} => wpc' \in {"exch", "post"})
    BY <1>9 DEF QueryAbandon, LeaveGet, BuildFrame
  <2> QED
    BY <2>1, <2>2 DEF LineInv
<1>10. ASSUME NEW c \in Call, SetAbandon(c) PROVE LineInv'
  <2>1. UNCHANGED <<op, key, line>> /\ \A d \in Call : loc[d] = "gone" => loc'[d] = "gone"
    BY <1>10, CommandAssumption DEF SetAbandon, Put, LeaveGet, DrainQueue, IInv, TypeOK
  <2>2. cur' = cur /\ (wpc \in {"exch", "post"} => wpc' \in {"exch", "post"})
    BY <1>10 DEF SetAbandon, LeaveGet, BuildFrame
  <2> QED
    BY <2>1, <2>2 DEF LineInv
<1>11. ASSUME NEW c \in Call, CancelBlocked(c) PROVE LineInv'
  <2>1. UNCHANGED <<op, key, line>> /\ \A d \in Call : loc[d] = "gone" => loc'[d] = "gone"
    BY <1>11, CommandAssumption DEF CancelBlocked, Put, LeaveGet, DrainQueue, IInv, TypeOK
  <2>2. cur' = cur /\ (wpc \in {"exch", "post"} => wpc' \in {"exch", "post"})
    BY <1>11 DEF CancelBlocked, LeaveGet, BuildFrame
  <2> QED
    BY <2>1, <2>2 DEF LineInv
<1>12. ASSUME PopSkip PROVE LineInv'
  <2>1. UNCHANGED <<op, key, line>> /\ \A d \in Call : loc[d] = "gone" => loc'[d] = "gone"
    BY <1>12, CommandAssumption DEF PopSkip, Put, LeaveGet, DrainQueue, IInv, TypeOK
  <2>2. cur' = cur /\ (wpc \in {"exch", "post"} => wpc' \in {"exch", "post"})
    BY <1>12 DEF PopSkip, LeaveGet, BuildFrame
  <2> QED
    BY <2>1, <2>2 DEF LineInv
<1>13. ASSUME PopTake PROVE LineInv'
  <2>1. UNCHANGED <<op, key, line>> /\ \A d \in Call : loc[d] = "gone" => loc'[d] = "gone"
    BY <1>13, PopItem DEF PopTake, IInv, TypeOK
  <2>2. cur = NoCall
    BY <1>13, WritingItem DEF PopTake
  <2> QED
    BY <2>1, <2>2, CommandAssumption DEF LineInv
<1>14. ASSUME WindowEnd PROVE LineInv'
  <2>1. UNCHANGED <<op, key, line>> /\ \A d \in Call : loc[d] = "gone" => loc'[d] = "gone"
    BY <1>14, CommandAssumption DEF WindowEnd, Put, LeaveGet, DrainQueue, IInv, TypeOK
  <2>2. cur' = cur /\ (wpc \in {"exch", "post"} => wpc' \in {"exch", "post"})
    BY <1>14 DEF WindowEnd, LeaveGet, BuildFrame
  <2> QED
    BY <2>1, <2>2 DEF LineInv
<1>15. ASSUME Acquire PROVE LineInv'
  <2>1. UNCHANGED <<op, key, line>> /\ \A d \in Call : loc[d] = "gone" => loc'[d] = "gone"
    BY <1>15, CommandAssumption DEF Acquire, Put, LeaveGet, DrainQueue, IInv, TypeOK
  <2>2. cur' = cur /\ (wpc \in {"exch", "post"} => wpc' \in {"exch", "post"})
    BY <1>15 DEF Acquire, LeaveGet, BuildFrame
  <2> QED
    BY <2>1, <2>2 DEF LineInv
<1>16. ASSUME ReadDone PROVE LineInv'
  <2>1. UNCHANGED <<op, key, line>> /\ \A d \in Call : loc[d] = "gone" => loc'[d] = "gone"
    BY <1>16, CommandAssumption DEF ReadDone, Put, LeaveGet, DrainQueue, IInv, TypeOK
  <2>2. cur' = cur /\ (wpc \in {"exch", "post"} => wpc' \in {"exch", "post"})
    BY <1>16 DEF ReadDone, LeaveGet, BuildFrame
  <2> QED
    BY <2>1, <2>2 DEF LineInv
<1>17. ASSUME ReadFail PROVE LineInv'
  <2>1. UNCHANGED <<op, key, line>> /\ \A d \in Call : loc[d] = "gone" => loc'[d] = "gone"
    BY <1>17, CommandAssumption DEF ReadFail, Put, LeaveGet, DrainQueue, IInv, TypeOK
  <2>2. cur' = cur /\ (wpc \in {"exch", "post"} => wpc' \in {"exch", "post"})
    BY <1>17 DEF ReadFail, LeaveGet, BuildFrame
  <2> QED
    BY <2>1, <2>2 DEF LineInv
<1>18. ASSUME GetAnswered PROVE LineInv'
  <2>1. UNCHANGED <<op, key, line>> /\ \A d \in Call : loc[d] = "gone" => loc'[d] = "gone"
    BY <1>18, CommandAssumption DEF GetAnswered, Put, LeaveGet, DrainQueue, IInv, TypeOK
  <2>2. cur' = cur /\ (wpc \in {"exch", "post"} => wpc' \in {"exch", "post"})
    BY <1>18 DEF GetAnswered, LeaveGet, BuildFrame
  <2> QED
    BY <2>1, <2>2 DEF LineInv
<1>19. ASSUME OtherAnswered PROVE LineInv'
  <2>1. UNCHANGED <<op, key, line>> /\ \A d \in Call : loc[d] = "gone" => loc'[d] = "gone"
    BY <1>19, CommandAssumption DEF OtherAnswered, Put, LeaveGet, DrainQueue, IInv, TypeOK
  <2>2. cur' = cur /\ (wpc \in {"exch", "post"} => wpc' \in {"exch", "post"})
    BY <1>19 DEF OtherAnswered, LeaveGet, BuildFrame
  <2> QED
    BY <2>1, <2>2 DEF LineInv
<1>20. ASSUME ExchangeFails PROVE LineInv'
  <2>1. UNCHANGED <<op, key, line>> /\ \A d \in Call : loc[d] = "gone" => loc'[d] = "gone"
    BY <1>20, CommandAssumption DEF ExchangeFails, Put, LeaveGet, DrainQueue, IInv, TypeOK
  <2>2. cur' = cur /\ (wpc \in {"exch", "post"} => wpc' \in {"exch", "post"})
    BY <1>20 DEF ExchangeFails, LeaveGet, BuildFrame
  <2> QED
    BY <2>1, <2>2 DEF LineInv
<1>21. ASSUME PressSent PROVE LineInv'
  <2>1. UNCHANGED <<op, key, line>> /\ \A d \in Call : loc[d] = "gone" => loc'[d] = "gone"
    BY <1>21, CommandAssumption DEF PressSent, Put, LeaveGet, DrainQueue, IInv, TypeOK
  <2>2. cur' = cur /\ (wpc \in {"exch", "post"} => wpc' \in {"exch", "post"})
    BY <1>21 DEF PressSent, LeaveGet, BuildFrame
  <2> QED
    BY <2>1, <2>2 DEF LineInv
<1>22. ASSUME PostDone PROVE LineInv'
  <2>1. UNCHANGED <<op, key, line>> /\ \A d \in Call : loc[d] = "gone" \/ d = cur => loc'[d] = "gone"
    BY <1>22, CommandAssumption, WritingItem DEF PostDone, IInv, TypeOK, Writing
  <2> QED
    BY <2>1 DEF LineInv
<1>23. ASSUME Start PROVE LineInv'
  <2>1. UNCHANGED <<op, key, line>> /\ \A d \in Call : loc[d] = "gone" => loc'[d] = "gone"
    BY <1>23, CommandAssumption DEF Start, Put, LeaveGet, DrainQueue, IInv, TypeOK
  <2>2. cur' = cur /\ (wpc \in {"exch", "post"} => wpc' \in {"exch", "post"})
    BY <1>23 DEF Start, LeaveGet, BuildFrame
  <2> QED
    BY <2>1, <2>2 DEF LineInv
<1>24. ASSUME WorkerCancelled PROVE LineInv'
  <2>1. UNCHANGED <<op, key, line>> /\ \A d \in Call : loc[d] = "gone" \/ d = cur => loc'[d] = "gone"
    BY <1>24, CommandAssumption, WritingItem DEF WorkerCancelled, IInv, TypeOK, Writing
  <2> QED
    BY <2>1 DEF LineInv
<1>25. ASSUME StopFinish PROVE LineInv'
  <2>1. UNCHANGED <<op, key, line>> /\ \A d \in Call : loc[d] = "gone" => loc'[d] = "gone"
    BY <1>25, CommandAssumption DEF StopFinish, Put, LeaveGet, DrainQueue, IInv, TypeOK
  <2>2. cur' = cur /\ (wpc \in {"exch", "post"} => wpc' \in {"exch", "post"})
    BY <1>25 DEF StopFinish, LeaveGet, BuildFrame
  <2> QED
    BY <2>1, <2>2 DEF LineInv
<1>26. ASSUME Reset PROVE LineInv'
  <2>1. UNCHANGED <<op, key, line>> /\ \A d \in Call : loc[d] = "gone" => loc'[d] = "gone"
    BY <1>26, CommandAssumption DEF Reset, Put, LeaveGet, DrainQueue, IInv, TypeOK
  <2>2. cur' = cur /\ (wpc \in {"exch", "post"} => wpc' \in {"exch", "post"})
    BY <1>26 DEF Reset, LeaveGet, BuildFrame
  <2> QED
    BY <2>1, <2>2 DEF LineInv
<1>27. ASSUME DeviceTakes PROVE LineInv'
  <2>1. cur \in Call /\ key[cur] \in Key /\ wpc \in {"read", "exch"}
    BY <1>27, WritingItem DEF DeviceTakes, Writing, IInv, CallInv, Ops, TypeOK
  <2>2. UNCHANGED <<op, key, loc, cur, wpc>>
    BY <1>27 DEF DeviceTakes
  <2>3. CASE UNCHANGED line
    BY <2>2, <2>3 DEF LineInv
  <2>4. CASE line' = Append(line, StateFrame("state", cur, key[cur]))
    BY <2>1, <2>2, <2>4, SentFrame, LineAppend DEF LineInv, StateFrame
  <2>5. CASE /\ wpc = "exch" /\ op[cur] \in {"set", "query"}
             /\ line' = Append(line, DoneFrame(cur, key[cur]))
    BY <2>1, <2>2, <2>5, SentFrame, LineAppend DEF LineInv, DoneFrame
  <2>6. op[cur] \in Ops \ {"none"}
    BY <2>1, WritingItem DEF IInv, TypeOK, Writing
  <2> QED
    BY <1>27, <2>3, <2>4, <2>5, <2>6 DEF DeviceTakes, Ops
<1>28. ASSUME Deliver PROVE LineInv'
  <2>1. UNCHANGED <<op, key, loc, cur, wpc>> /\ line # <<>> /\ line' = Tail(line)
    BY <1>28 DEF Deliver
  <2>2. \A i \in DOMAIN line' : \E j \in DOMAIN line : line'[i] = line[j]
    BY <2>1, LineTail
  <2> QED
    BY <2>1, <2>2 DEF LineInv
<1>29. ASSUME NEW k \in Key, FeedbackPush(k) PROVE LineInv'
  <2>1. UNCHANGED <<op, key, loc, cur, wpc>> /\ line' = Append(line, StateFrame("push", NoCall, k))
    BY <1>29 DEF FeedbackPush
  <2> QED
    BY <2>1, SentFrame, LineAppend DEF LineInv, StateFrame
<1>30. ASSUME NEW k \in Key, NEW ch \in Chan, NEW v \in Val, Wall(k, ch, v) PROVE LineInv'
  BY <1>30 DEF Wall, LineInv
<1>31. ASSUME ScanAcquire \/ ScanRelease \/ StopBegin
      PROVE  LineInv'
  BY <1>31 DEF ScanAcquire, ScanRelease, StopBegin, ClearGetKeys, Settle, LineInv
<1>32. ASSUME NEW k \in Key, Age(k)
      PROVE  LineInv'
  BY <1>32 DEF Age, LineInv
<1>33. CASE UNCHANGED vars
  BY <1>33 DEF LineInv
<1> QED
  BY <1>1, <1>2, <1>3, <1>4, <1>5, <1>6, <1>7, <1>8, <1>9, <1>10, <1>11, <1>12, <1>13,
     <1>14, <1>15, <1>16, <1>17, <1>18, <1>19, <1>20, <1>21, <1>22, <1>23, <1>24, <1>25,
     <1>26, <1>27, <1>28, <1>29, <1>30, <1>31, <1>32, <1>33 DEF Next, CallStep,
     WorkerStep, LifecycleStep, EnvStep
\* Nobody waits on a group for a write.
LEMMA ReadersOnly ==
    ASSUME IInv, NEW k \in Key, NEW c \in Call, op[c] # "get"
    PROVE  c \notin pendingGetFutures[k]
BY DEF IInv, CallInv

\* A frame off the line settles reads only.
LEMMA DeliverReads ==
    ASSUME IInv, LineInv, Deliver, NEW c \in Call, op[c] # "get"
    PROVE  fut'[c] = fut[c]
<1>1. CASE UNCHANGED fut
  BY <1>1
<1>2. CASE /\ HasFeedback /\ Head(line).kind # "done"
           /\ fut' = Settle(pendingGetFutures[Head(line).key], "result")
  <2>1. Head(line).key \in Key
    BY <1>2, HeadFrame DEF Deliver
  <2> QED
    BY <1>2, <2>1, ReadersOnly DEF Settle, IInv, TypeOK
<1> QED
  BY <1>1, <1>2 DEF Deliver

\* The worker settles its item and reads, nothing else.
LEMMA WorkerReads ==
    ASSUME IInv, ReadDone \/ GetAnswered \/ OtherAnswered \/ ExchangeFails,
           NEW c \in Call, op[c] # "get", c # cur
    PROVE  fut'[c] = fut[c]
BY ReadersOnly, WritingItem DEF ReadDone, GetAnswered, OtherAnswered, ExchangeFails, FoldedInto,
   Settle, IInv, TypeOK, Writing

\* No step loses an item with writes or settles it before its exchange.
LEMMA StepReg ==
    IInv /\ LineInv /\ PendInv /\ RegInv /\ HostOps \cap {"stop", "reset"} = {} /\ [Next]_vars => RegInv'
<1> SUFFICES ASSUME IInv /\ LineInv /\ PendInv /\ RegInv /\ HostOps \cap {"stop", "reset"} = {}, [Next]_vars
             PROVE  RegInv'
  OBVIOUS
<1> USE DEF vars, callVars, getVars, setVars, bufVars, workVars, extVars, histVars
<1>1. ASSUME NEW c \in Call, NEW k \in Key, GetCall(c, k) PROVE RegInv'
  BY <1>1, CommandAssumption DEF GetCall, MakeCall, Put, IInv, TypeOK, CallInv,
     WorkerInv, PendInv, RegInv, Writing
<1>2. ASSUME NEW c \in Call, NEW k \in Key, QueryCall(c, k) PROVE RegInv'
  BY <1>2, CommandAssumption DEF QueryCall, MakeCall, Put, IInv, TypeOK, CallInv,
     WorkerInv, PendInv, RegInv, Writing
<1>3. ASSUME NEW c \in Call, NEW k \in Key, NEW ch \in Chan, NEW v \in Val, SetCall(c, k, ch, v)
      PROVE  RegInv'
  <2> DEFINE item == IF pendingSetGroups[k] = NoCall THEN c ELSE pendingSetGroups[k]
  <2>1. op[c] = "none" /\ loc[c] = "none" /\ cur # c /\ op'[c] = "set" /\ key'[c] = k
    BY <1>3 DEF SetCall, MakeCall, IInv, TypeOK, CallInv, WorkerInv
  <2>2. \A d \in Call \ {c} : op'[d] = op[d] /\ key'[d] = key[d] /\ loc'[d] = loc[d]
    BY <1>3 DEF SetCall, MakeCall, Put, IInv, TypeOK
  <2>3. item \in Call /\ pendingSetGroups' = [pendingSetGroups EXCEPT ![k] = item]
    BY <1>3 DEF SetCall, IInv, TypeOK
  <2>4. op'[item] = "set" /\ key'[item] = k
    BY <2>1, <2>2, <2>3 DEF PendInv
  <2>5. \A d \in Call \ {item} : chans'[d] = chans[d]
    BY <1>3 DEF SetCall, IInv, TypeOK
  <2>6. \A d \in Call : fut'[d] = IF item = c /\ d = c THEN "pending" ELSE fut[d]
    <3>1. pendingSetGroups[k] # NoCall => pendingSetGroups[k] # c
      BY <2>1 DEF PendInv
    <3> QED
      BY <1>3, <3>1, CommandAssumption DEF SetCall, IInv, TypeOK
  <2>7. UNCHANGED <<cur, wpc, stopping>>
    BY <1>3 DEF SetCall
  <2>8. \A j \in Key \ {k} : pendingSetGroups'[j] = pendingSetGroups[j]
    BY <2>3 DEF IInv, TypeOK
  <2>9. pendingSetGroups'[k] = item /\ (pendingSetGroups[k] # NoCall => item = pendingSetGroups[k] /\ item # c)
    BY <2>1, <2>3 DEF IInv, TypeOK, PendInv
  <2>10. item # c => loc'[c] = "none"
    BY <1>3, <2>1, <2>9, CommandAssumption DEF SetCall
  <2>11. chans[c] = NoWrites
    BY <2>1 DEF RegInv
  <2> HIDE DEF item
  <2>12. \A d \in Call : chans'[d] # NoWrites =>
           /\ op'[d] = "set"
           /\ loc'[d] = "gone" \/ pendingSetGroups'[key'[d]] = d \/ (cur = d /\ wpc \in Writing)
    <3> SUFFICES ASSUME NEW d \in Call, chans'[d] # NoWrites
                 PROVE  /\ op'[d] = "set"
                        /\ \/ loc'[d] = "gone" \/ pendingSetGroups'[key'[d]] = d
                           \/ cur = d /\ wpc \in Writing
      OBVIOUS
    <3>1. CASE d = item
      BY <3>1, <2>4, <2>9
    <3>2. CASE d # item
      <4>1. d # c /\ chans[d] # NoWrites
        BY <3>2, <2>5, <2>11
      <4>2. op[d] = "set" /\ key[d] \in Key
        BY <4>1 DEF RegInv, IInv, CallInv
      <4>3. pendingSetGroups[key[d]] = d => key[d] # k
        BY <3>2, <2>9, CommandAssumption
      <4> QED
        BY <4>1, <4>2, <4>3, <2>2, <2>8 DEF RegInv
    <3> QED
      BY <3>1, <3>2
  <2>13. \A d \in Call :
            op'[d] = "set" /\ (loc'[d] \in {"put", "queue"} \/ (cur = d /\ wpc = "window"))
              => pendingSetGroups'[key'[d]] = d
    <3> SUFFICES ASSUME NEW d \in Call, op'[d] = "set",
                        loc'[d] \in {"put", "queue"} \/ (cur = d /\ wpc = "window")
                 PROVE  pendingSetGroups'[key'[d]] = d
      OBVIOUS
    <3>1. CASE d = c
      BY <3>1, <2>1, <2>4, <2>9, <2>10
    <3>2. CASE d # c
      <4>1. op[d] = "set" /\ key[d] \in Key /\ pendingSetGroups[key[d]] = d
        BY <3>2, <2>2 DEF RegInv, IInv, CallInv
      <4> QED
        BY <3>2, <4>1, <2>2, <2>8, <2>9, CommandAssumption
    <3> QED
      BY <3>1, <3>2
  <2>14. \A j \in Key : pendingSetGroups'[j] # NoCall => fut'[pendingSetGroups'[j]] = "pending"
    <3>1. \A j \in Key : pendingSetGroups[j] # NoCall => pendingSetGroups[j] \in Call /\ pendingSetGroups[j] # c
      BY <2>1 DEF IInv, TypeOK, PendInv
    <3> QED
      BY <3>1, <2>3, <2>6, <2>8, <2>9 DEF RegInv, item
  <2>15. (wpc \in {"window", "rlock", "read", "lock", "exch"} /\ op'[cur] = "set") => fut'[cur] = "pending"
    BY <2>1, <2>2, <2>6, WritingItem DEF RegInv, Writing
  <2> QED
    BY <2>7, <2>12, <2>13, <2>14, <2>15 DEF RegInv
<1>4. ASSUME NEW c \in Call, PressCall(c) PROVE RegInv'
  BY <1>4, CommandAssumption DEF PressCall, MakeCall, Put, IInv, TypeOK, CallInv,
     WorkerInv, PendInv, RegInv, Writing
<1>5. ASSUME NEW c \in Call, Unblock(c) PROVE RegInv'
  BY <1>5, CommandAssumption DEF Unblock, Put, IInv, TypeOK, CallInv, WorkerInv,
     PendInv, RegInv, Writing
<1>6. ASSUME NEW c \in Call, GetAbandon(c) PROVE RegInv'
  BY <1>6, CommandAssumption DEF GetAbandon, LeaveGet, Settle, IInv, TypeOK, CallInv,
     WorkerInv, PendInv, RegInv, Writing
<1>7. ASSUME NEW c \in Call, GetCancelBlocked(c) PROVE RegInv'
  BY <1>7, CommandAssumption DEF GetCancelBlocked, LeaveGet, Settle, IInv, TypeOK,
     CallInv, WorkerInv, PendInv, RegInv, Writing
<1>8. ASSUME NEW c \in Call, GetReturn(c) PROVE RegInv'
  BY <1>8, CommandAssumption DEF GetReturn, LeaveGet, IInv, TypeOK, CallInv, WorkerInv,
     PendInv, RegInv, Writing
<1>9. ASSUME NEW c \in Call, QueryAbandon(c) PROVE RegInv'
  BY <1>9, CommandAssumption DEF QueryAbandon, Settle, IInv, TypeOK, CallInv, WorkerInv,
     PendInv, RegInv, Writing
<1>10. ASSUME NEW c \in Call, SetAbandon(c) PROVE RegInv'
  BY <1>10, CommandAssumption DEF SetAbandon, IInv, TypeOK, CallInv, WorkerInv, PendInv,
     RegInv, Writing
<1>11. ASSUME NEW c \in Call, CancelBlocked(c) PROVE RegInv'
  BY <1>11, CommandAssumption DEF CancelBlocked, IInv, TypeOK, CallInv, WorkerInv,
     PendInv, RegInv, Writing
<1>12. ASSUME PopSkip PROVE RegInv'
  BY <1>12, CommandAssumption DEF PopSkip, ReleaseGetKey, ReleaseSetGroup, IInv, TypeOK,
     CallInv, WorkerInv, PendInv, RegInv, Writing
<1>13. ASSUME PopTake PROVE RegInv'
  <2> DEFINE c == Head(commandQueue)
  <2>1. c \in Call /\ loc[c] = "queue" /\ cur = NoCall /\ wpc = "idle"
    BY <1>13, PopItem, WritingItem DEF PopTake
  <2>2. /\ UNCHANGED <<op, key, fut, chans, pendingSetGroups, stopping>>
        /\ cur' = c /\ wpc' = (IF op[c] = "set" THEN "window" ELSE "lock")
        /\ loc' = [loc EXCEPT ![c] = "worker"]
    BY <1>13 DEF PopTake
  <2>3. op[c] = "set" => key[c] \in Key /\ pendingSetGroups[key[c]] = c /\ fut[c] = "pending"
    BY <2>1, CommandAssumption DEF RegInv, IInv, CallInv
  <2>4. \A d \in Call \ {c} : loc'[d] = loc[d]
    BY <2>2 DEF IInv, TypeOK
  <2> HIDE DEF c
  <2> QED
    BY <2>1, <2>2, <2>3, <2>4, CommandAssumption DEF RegInv, Writing
<1>14. ASSUME WindowEnd PROVE RegInv'
  BY <1>14, CommandAssumption DEF WindowEnd, ReleaseSetGroup, BuildFrame, IInv, TypeOK,
     CallInv, WorkerInv, PendInv, RegInv, Writing
<1>15. ASSUME Acquire PROVE RegInv'
  BY <1>15, CommandAssumption DEF Acquire, IInv, TypeOK, CallInv, WorkerInv, PendInv,
     RegInv, Writing
<1>16. ASSUME ReadDone PROVE RegInv'
  BY <1>16, CommandAssumption DEF ReadDone, ReleaseBus, BuildFrame, Settle, IInv,
     TypeOK, CallInv, WorkerInv, PendInv, RegInv, Writing
<1>17. ASSUME ReadFail PROVE RegInv'
  BY <1>17, CommandAssumption DEF ReadFail, ReleaseBus, BuildFrame, IInv, TypeOK,
     CallInv, WorkerInv, PendInv, RegInv, Writing
<1>18. ASSUME GetAnswered PROVE RegInv'
  <2>1. UNCHANGED <<op, key, loc, chans, pendingSetGroups, cur, stopping>>
    BY <1>18 DEF GetAnswered
  <2>2. wpc \in Writing /\ wpc' \in Writing /\ wpc # "post"
    BY <1>18 DEF GetAnswered, BuildFrame, Writing
  <2>3. \A d \in Call : (op[d] = "set" /\ fut[d] = "pending") =>
           fut'[d] = "pending" \/ (d = cur /\ wpc' = "post")
    BY <1>18, ReadersOnly, WritingItem DEF GetAnswered, Settle, FoldedInto, IInv, TypeOK, Writing
  <2>4. \A k \in Key : pendingSetGroups[k] # NoCall =>
           pendingSetGroups[k] \in Call /\ op[pendingSetGroups[k]] = "set" /\ pendingSetGroups[k] # cur
    BY <2>2, WritingItem DEF PendInv, IInv, TypeOK, Writing
  <2> QED
    BY <2>1, <2>2, <2>3, <2>4, WritingItem DEF RegInv, Writing
<1>19. ASSUME OtherAnswered PROVE RegInv'
  <2>1. UNCHANGED <<op, key, loc, chans, pendingSetGroups, cur, stopping>>
    BY <1>19 DEF OtherAnswered
  <2>2. wpc \in Writing /\ wpc' \in Writing /\ wpc # "post"
    BY <1>19 DEF OtherAnswered, BuildFrame, Writing
  <2>3. \A d \in Call : (op[d] = "set" /\ fut[d] = "pending") =>
           fut'[d] = "pending" \/ (d = cur /\ wpc' = "post")
    BY <1>19, ReadersOnly, WritingItem DEF OtherAnswered, Settle, FoldedInto, IInv, TypeOK, Writing
  <2>4. \A k \in Key : pendingSetGroups[k] # NoCall =>
           pendingSetGroups[k] \in Call /\ op[pendingSetGroups[k]] = "set" /\ pendingSetGroups[k] # cur
    BY <2>2, WritingItem DEF PendInv, IInv, TypeOK, Writing
  <2> QED
    BY <2>1, <2>2, <2>3, <2>4, WritingItem DEF RegInv, Writing
<1>20. ASSUME ExchangeFails PROVE RegInv'
  <2>1. UNCHANGED <<op, key, loc, chans, pendingSetGroups, cur, stopping>>
    BY <1>20 DEF ExchangeFails
  <2>2. wpc \in Writing /\ wpc' \in Writing /\ wpc # "post"
    BY <1>20 DEF ExchangeFails, BuildFrame, Writing
  <2>3. \A d \in Call : (op[d] = "set" /\ fut[d] = "pending") =>
           fut'[d] = "pending" \/ (d = cur /\ wpc' = "post")
    BY <1>20, ReadersOnly, WritingItem DEF ExchangeFails, Settle, FoldedInto, IInv, TypeOK, Writing
  <2>4. \A k \in Key : pendingSetGroups[k] # NoCall =>
           pendingSetGroups[k] \in Call /\ op[pendingSetGroups[k]] = "set" /\ pendingSetGroups[k] # cur
    BY <2>2, WritingItem DEF PendInv, IInv, TypeOK, Writing
  <2> QED
    BY <2>1, <2>2, <2>3, <2>4, WritingItem DEF RegInv, Writing
<1>21. ASSUME PressSent PROVE RegInv'
  BY <1>21, CommandAssumption DEF PressSent, ReleaseBus, IInv, TypeOK, CallInv,
     WorkerInv, PendInv, RegInv, Writing
<1>22. ASSUME PostDone PROVE RegInv'
  BY <1>22, CommandAssumption DEF PostDone, ClearWriting, IInv, TypeOK, CallInv,
     WorkerInv, PendInv, RegInv, Writing
<1>23. ASSUME Start PROVE RegInv'
  BY <1>23, CommandAssumption DEF Start, IInv, TypeOK, CallInv, WorkerInv, PendInv,
     RegInv, Writing
<1>24. ASSUME StopBegin PROVE RegInv'
  BY <1>24 DEF StopBegin
<1>25. ASSUME WorkerCancelled PROVE RegInv'
  BY <1>25 DEF WorkerCancelled, RegInv
<1>26. ASSUME StopFinish PROVE RegInv'
  BY <1>26 DEF StopFinish, RegInv
<1>27. ASSUME Reset PROVE RegInv'
  BY <1>27 DEF Reset
<1>28. ASSUME Deliver PROVE RegInv'
  <2>1. UNCHANGED <<op, key, loc, chans, pendingSetGroups, cur, wpc, stopping>>
    BY <1>28 DEF Deliver
  <2>2. \A d \in Call : op[d] = "set" => fut'[d] = fut[d]
    BY <1>28, DeliverReads
  <2>3. \A k \in Key : pendingSetGroups[k] # NoCall =>
           pendingSetGroups[k] \in Call /\ op[pendingSetGroups[k]] = "set"
    BY DEF PendInv, IInv, TypeOK
  <2>4. wpc \in {"window", "rlock", "read", "lock", "exch"} => cur \in Call
    BY WritingItem DEF Writing
  <2> QED
    BY <2>1, <2>2, <2>3, <2>4 DEF RegInv
<1>29. ASSUME NEW k \in Key, NEW ch \in Chan, NEW v \in Val, Wall(k, ch, v) PROVE RegInv'
  BY <1>29, CommandAssumption DEF Wall, IInv, TypeOK, CallInv, WorkerInv, PendInv,
     RegInv, Writing
<1>30. ASSUME ScanAcquire \/ ScanRelease \/ DeviceTakes
      PROVE  RegInv'
  BY <1>30, CommandAssumption DEF ScanAcquire, ScanRelease, DeviceTakes, IInv, TypeOK,
     CallInv, WorkerInv, PendInv, RegInv, Writing
<1>31. ASSUME NEW k \in Key, FeedbackPush(k) \/ Age(k)
      PROVE  RegInv'
  BY <1>31, CommandAssumption DEF FeedbackPush, Age, IInv, TypeOK, CallInv, WorkerInv,
     PendInv, RegInv, Writing
<1>32. CASE UNCHANGED vars
  BY <1>32 DEF IInv, TypeOK, CallInv, WorkerInv, PendInv, RegInv, Writing
<1> QED
  BY <1>1, <1>2, <1>3, <1>4, <1>5, <1>6, <1>7, <1>8, <1>9, <1>10, <1>11, <1>12, <1>13,
     <1>14, <1>15, <1>16, <1>17, <1>18, <1>19, <1>20, <1>21, <1>22, <1>23, <1>24, <1>25,
     <1>26, <1>27, <1>28, <1>29, <1>30, <1>31, <1>32 DEF Next, CallStep, WorkerStep,
     LifecycleStep, EnvStep
\* No step leaves two items that could write one output after the last
\* request's.
LEMMA StepLast ==
    IInv /\ LineInv /\ PendInv /\ RegInv /\ LastInv /\ HostOps \cap {"stop", "reset"} = {} /\ [Next]_vars => LastInv'
<1> SUFFICES ASSUME IInv /\ LineInv /\ PendInv /\ RegInv /\ LastInv /\ HostOps \cap {"stop", "reset"} = {}, [Next]_vars
             PROVE  LastInv'
  OBVIOUS
<1> USE DEF vars, callVars, getVars, setVars, bufVars, workVars, extVars, histVars
<1>1. ASSUME NEW c \in Call, NEW k \in Key, GetCall(c, k) PROVE LastInv'
  <2>1. op[c] = "none" /\ chans[c] = NoWrites
    BY <1>1 DEF GetCall, MakeCall, RegInv, IInv, TypeOK, CallInv
  <2>2. \A d \in Call \ {c} : /\ op'[d] = op[d] /\ key'[d] = key[d] /\ loc'[d] = loc[d]
                              /\ fut'[d] = fut[d]
    BY <1>1 DEF GetCall, MakeCall, Put, IInv, TypeOK
  <2>3. UNCHANGED <<chans, pendingSetGroups, lastSet, cur, wpc>>
    BY <1>1 DEF GetCall
  <2>4. \A j \in Key, x \in Chan : lastSet[j][x] \in Call \cup {NoCall} /\ lastSet[j][x] # c
    BY <2>1, CommandAssumption DEF LastInv, IInv, TypeOK
  <2>5. \A x \in Chan : chans[c][x] = NoVal
    BY <2>1 DEF NoWrites
  <2> QED
    BY <2>2, <2>3, <2>4, <2>5 DEF LastInv, PendingWrites
<1>2. ASSUME NEW c \in Call, NEW k \in Key, QueryCall(c, k) PROVE LastInv'
  <2>1. op[c] = "none" /\ chans[c] = NoWrites
    BY <1>2 DEF QueryCall, MakeCall, RegInv, IInv, TypeOK, CallInv
  <2>2. \A d \in Call \ {c} : /\ op'[d] = op[d] /\ key'[d] = key[d] /\ loc'[d] = loc[d]
                              /\ fut'[d] = fut[d]
    BY <1>2 DEF QueryCall, MakeCall, Put, IInv, TypeOK
  <2>3. UNCHANGED <<chans, pendingSetGroups, lastSet, cur, wpc>>
    BY <1>2 DEF QueryCall
  <2>4. \A j \in Key, x \in Chan : lastSet[j][x] \in Call \cup {NoCall} /\ lastSet[j][x] # c
    BY <2>1, CommandAssumption DEF LastInv, IInv, TypeOK
  <2>5. \A x \in Chan : chans[c][x] = NoVal
    BY <2>1 DEF NoWrites
  <2> QED
    BY <2>2, <2>3, <2>4, <2>5 DEF LastInv, PendingWrites
<1>3. ASSUME NEW c \in Call, NEW k \in Key, NEW ch \in Chan, NEW v \in Val, SetCall(c, k, ch, v)
      PROVE  LastInv'
  <2> DEFINE item == IF pendingSetGroups[k] = NoCall THEN c ELSE pendingSetGroups[k]
  <2>1. op[c] = "none" /\ chans[c] = NoWrites /\ op'[c] = "set" /\ key'[c] = k
    BY <1>3 DEF SetCall, MakeCall, RegInv, IInv, TypeOK, CallInv
  <2>2. \A d \in Call \ {c} : op'[d] = op[d] /\ key'[d] = key[d] /\ loc'[d] = loc[d]
    BY <1>3 DEF SetCall, MakeCall, Put, IInv, TypeOK
  <2>3. item \in Call /\ pendingSetGroups' = [pendingSetGroups EXCEPT ![k] = item]
    BY <1>3 DEF SetCall, IInv, TypeOK
  <2>4. /\ \A d \in Call \ {item} : chans'[d] = chans[d]
        /\ chans'[item][ch] = v
        /\ \A x \in Chan \ {ch} : chans'[item][x] = chans[item][x]
    BY <1>3, <2>3 DEF SetCall, IInv, TypeOK, Writes
  <2>5. /\ \A j \in Key \ {k} : lastSet'[j] = lastSet[j] /\ pendingSetGroups'[j] = pendingSetGroups[j]
        /\ lastSet'[k][ch] = item /\ pendingSetGroups'[k] = item
        /\ \A x \in Chan \ {ch} : lastSet'[k][x] = lastSet[k][x]
    BY <1>3, <2>3 DEF SetCall, IInv, TypeOK
  <2>6. /\ op'[item] = "set" /\ key'[item] = k /\ fut'[item] = "pending"
        /\ pendingSetGroups[k] = NoCall => item = c
        /\ pendingSetGroups[k] # NoCall => item = pendingSetGroups[k] /\ item # c
    BY <1>3, <2>1, <2>2, <2>3 DEF SetCall, PendInv, RegInv, IInv, TypeOK
  <2>7. UNCHANGED <<cur, wpc>> /\ v # NoVal /\ item # NoCall
    BY <1>3, <2>3, CommandAssumption DEF SetCall
  <2>8. \A d \in Call \ {item} : fut'[d] = fut[d]
    BY <1>3, <2>6 DEF SetCall, IInv, TypeOK
  <2>9. \A j \in Key : pendingSetGroups[j] \in Call \cup {NoCall} /\ pendingSetGroups[j] # c
    BY <2>1, CommandAssumption DEF PendInv, IInv, TypeOK
  <2>10. \A j \in Key, x \in Chan : lastSet[j][x] \in Call \cup {NoCall} /\ lastSet[j][x] # c
    BY <2>1, CommandAssumption DEF LastInv, IInv, TypeOK
  <2> HIDE DEF item
  <2>11. ASSUME NEW d \in Call \ {item}, NEW x \in Chan, key'[d] = k, chans'[d][x] # NoVal
         PROVE  loc'[d] = "gone" \/ (cur = d /\ wpc \in Writing)
    <3>1. d # c
      BY <2>1, <2>4, <2>11 DEF NoWrites
    <3>2. chans[d] # NoWrites /\ key[d] = k
      BY <2>2, <2>4, <2>11, <3>1 DEF NoWrites
    <3>3. pendingSetGroups[k] # d
      BY <2>6, <2>11, CommandAssumption
    <3> QED
      BY <2>2, <3>1, <3>2, <3>3 DEF RegInv
  <2>12. ASSUME NEW j \in Key, NEW x \in Chan, PendingWrites(j)'[x] # NoVal
         PROVE  lastSet'[j][x] \in {pendingSetGroups'[j], NoCall}
    <3>1. CASE j = k /\ x = ch
      BY <2>5, <3>1
    <3>2. CASE j = k /\ x # ch
      <4>1. chans[item][x] # NoVal /\ pendingSetGroups[k] # NoCall
        BY <2>1, <2>4, <2>5, <2>6, <2>7, <2>12, <3>2 DEF PendingWrites, NoWrites
      <4> QED
        BY <2>5, <2>6, <3>2, <4>1 DEF LastInv, PendingWrites
    <3>3. CASE j # k
      <4>1. pendingSetGroups[j] # item
        BY <2>2, <2>6, <2>7, <2>9, <3>3 DEF PendInv
      <4>2. PendingWrites(j)' = PendingWrites(j)
        BY <2>4, <2>5, <2>9, <3>3, <4>1 DEF PendingWrites
      <4> QED
        BY <2>5, <2>12, <3>3, <4>2 DEF LastInv
    <3> QED
      BY <3>1, <3>2, <3>3
  <2>13. ASSUME NEW j \in Key, NEW x \in Chan, lastSet'[j][x] # NoCall
         PROVE  LET e == lastSet'[j][x] IN
                /\ op'[e] = "set" /\ key'[e] = j /\ chans'[e][x] # NoVal
                /\ \A d \in Call \ {e} : (key'[d] = j /\ chans'[d][x] # NoVal) =>
                     loc'[d] = "gone" \/ (cur = d /\ wpc \in Writing /\ fut'[e] # "result")
    <3>1. CASE j = k /\ x = ch
      BY <2>4, <2>5, <2>6, <2>7, <2>11, <3>1
    <3>2. CASE j # k \/ x # ch
      <4> DEFINE e == lastSet[j][x]
      <4>1. lastSet'[j][x] = e /\ e \in Call \ {c}
        BY <2>5, <2>10, <2>13, <3>2
      <4>2. op'[e] = "set" /\ key'[e] = j /\ chans[e][x] # NoVal
        BY <2>2, <2>13, <4>1 DEF LastInv
      <4>3. chans'[e][x] # NoVal
        BY <2>2, <2>4, <2>6, <3>2, <4>1, <4>2
      <4>4. fut[e] # "result" => fut'[e] # "result"
        BY <2>6, <2>8, <4>1
      <4>5. ASSUME NEW d \in Call \ {e}, key'[d] = j, chans'[d][x] # NoVal
            PROVE  loc'[d] = "gone" \/ (cur = d /\ wpc \in Writing /\ fut'[e] # "result")
        <5>1. CASE d = c
          <6>1. d = item => j = k /\ x # ch
            BY <2>6, <3>2, <4>5
          <6> QED
            BY <2>1, <2>4, <4>5, <5>1, <6>1 DEF NoWrites
        <5>2. CASE d # c
          <6>1. chans[d][x] # NoVal
            BY <2>2, <2>4, <2>6, <3>2, <4>5, <5>2
          <6> QED
            BY <2>2, <2>13, <4>1, <4>4, <4>5, <5>2, <6>1 DEF LastInv
        <5> QED
          BY <5>1, <5>2
      <4> QED
        BY <4>1, <4>2, <4>3, <4>5
    <3> QED
      BY <3>1, <3>2
  <2> QED
    BY <2>7, <2>12, <2>13 DEF LastInv
<1>4. ASSUME NEW c \in Call, PressCall(c) PROVE LastInv'
  <2>1. op[c] = "none" /\ chans[c] = NoWrites
    BY <1>4 DEF PressCall, MakeCall, RegInv, IInv, TypeOK, CallInv
  <2>2. \A d \in Call \ {c} : /\ op'[d] = op[d] /\ key'[d] = key[d] /\ loc'[d] = loc[d]
                              /\ fut'[d] = fut[d]
    BY <1>4 DEF PressCall, MakeCall, Put, IInv, TypeOK
  <2>3. UNCHANGED <<chans, pendingSetGroups, lastSet, cur, wpc>>
    BY <1>4 DEF PressCall
  <2>4. \A j \in Key, x \in Chan : lastSet[j][x] \in Call \cup {NoCall} /\ lastSet[j][x] # c
    BY <2>1, CommandAssumption DEF LastInv, IInv, TypeOK
  <2>5. \A x \in Chan : chans[c][x] = NoVal
    BY <2>1 DEF NoWrites
  <2> QED
    BY <2>2, <2>3, <2>4, <2>5 DEF LastInv, PendingWrites
<1>5. ASSUME NEW c \in Call, Unblock(c) PROVE LastInv'
  <2>1. UNCHANGED <<op, key, chans, pendingSetGroups, lastSet>>
    BY <1>5 DEF Unblock, LeaveGet
  <2>2. \A d \in Call : loc[d] = "gone" => loc'[d] = "gone"
    BY <1>5, PopItem DEF Unblock, LeaveGet, Put, IInv, TypeOK
  <2>3. \A d \in Call : cur = d /\ wpc \in Writing => (cur' = d /\ wpc' \in Writing) \/ loc'[d] = "gone"
    BY <1>5 DEF Unblock, LeaveGet, BuildFrame, Writing, IInv, TypeOK
  <2>4. \A d \in Call : op[d] = "set" /\ d # cur /\ fut[d] # "result" => fut'[d] # "result"
    BY <1>5, WorkerReads, DeliverReads DEF Unblock, LeaveGet, Settle, IInv, TypeOK
  <2> QED
    BY <2>1, <2>2, <2>3, <2>4 DEF LastInv, PendingWrites, IInv, TypeOK
<1>6. ASSUME NEW c \in Call, GetAbandon(c) PROVE LastInv'
  <2>1. UNCHANGED <<op, key, chans, pendingSetGroups, lastSet>>
    BY <1>6 DEF GetAbandon, LeaveGet
  <2>2. \A d \in Call : loc[d] = "gone" => loc'[d] = "gone"
    BY <1>6, PopItem DEF GetAbandon, LeaveGet, Put, IInv, TypeOK
  <2>3. \A d \in Call : cur = d /\ wpc \in Writing => (cur' = d /\ wpc' \in Writing) \/ loc'[d] = "gone"
    BY <1>6 DEF GetAbandon, LeaveGet, BuildFrame, Writing, IInv, TypeOK
  <2>4. \A d \in Call : op[d] = "set" /\ d # cur /\ fut[d] # "result" => fut'[d] # "result"
    BY <1>6, WorkerReads, DeliverReads DEF GetAbandon, LeaveGet, Settle, IInv, TypeOK
  <2> QED
    BY <2>1, <2>2, <2>3, <2>4 DEF LastInv, PendingWrites, IInv, TypeOK
<1>7. ASSUME NEW c \in Call, GetCancelBlocked(c) PROVE LastInv'
  <2>1. UNCHANGED <<op, key, chans, pendingSetGroups, lastSet>>
    BY <1>7 DEF GetCancelBlocked, LeaveGet
  <2>2. \A d \in Call : loc[d] = "gone" => loc'[d] = "gone"
    BY <1>7, PopItem DEF GetCancelBlocked, LeaveGet, Put, IInv, TypeOK
  <2>3. \A d \in Call : cur = d /\ wpc \in Writing => (cur' = d /\ wpc' \in Writing) \/ loc'[d] = "gone"
    BY <1>7 DEF GetCancelBlocked, LeaveGet, BuildFrame, Writing, IInv, TypeOK
  <2>4. \A d \in Call : op[d] = "set" /\ d # cur /\ fut[d] # "result" => fut'[d] # "result"
    BY <1>7, WorkerReads, DeliverReads DEF GetCancelBlocked, LeaveGet, Settle, IInv, TypeOK
  <2> QED
    BY <2>1, <2>2, <2>3, <2>4 DEF LastInv, PendingWrites, IInv, TypeOK
<1>8. ASSUME NEW c \in Call, GetReturn(c) PROVE LastInv'
  <2>1. UNCHANGED <<op, key, chans, pendingSetGroups, lastSet>>
    BY <1>8 DEF GetReturn, LeaveGet
  <2>2. \A d \in Call : loc[d] = "gone" => loc'[d] = "gone"
    BY <1>8, PopItem DEF GetReturn, LeaveGet, Put, IInv, TypeOK
  <2>3. \A d \in Call : cur = d /\ wpc \in Writing => (cur' = d /\ wpc' \in Writing) \/ loc'[d] = "gone"
    BY <1>8 DEF GetReturn, LeaveGet, BuildFrame, Writing, IInv, TypeOK
  <2>4. \A d \in Call : op[d] = "set" /\ d # cur /\ fut[d] # "result" => fut'[d] # "result"
    BY <1>8, WorkerReads, DeliverReads DEF GetReturn, LeaveGet, Settle, IInv, TypeOK
  <2> QED
    BY <2>1, <2>2, <2>3, <2>4 DEF LastInv, PendingWrites, IInv, TypeOK
<1>9. ASSUME NEW c \in Call, QueryAbandon(c) PROVE LastInv'
  <2>1. UNCHANGED <<op, key, chans, pendingSetGroups, lastSet>>
    BY <1>9 DEF QueryAbandon, LeaveGet
  <2>2. \A d \in Call : loc[d] = "gone" => loc'[d] = "gone"
    BY <1>9, PopItem DEF QueryAbandon, LeaveGet, Put, IInv, TypeOK
  <2>3. \A d \in Call : cur = d /\ wpc \in Writing => (cur' = d /\ wpc' \in Writing) \/ loc'[d] = "gone"
    BY <1>9 DEF QueryAbandon, LeaveGet, BuildFrame, Writing, IInv, TypeOK
  <2>4. \A d \in Call : op[d] = "set" /\ d # cur /\ fut[d] # "result" => fut'[d] # "result"
    BY <1>9, WorkerReads, DeliverReads DEF QueryAbandon, LeaveGet, Settle, IInv, TypeOK
  <2> QED
    BY <2>1, <2>2, <2>3, <2>4 DEF LastInv, PendingWrites, IInv, TypeOK
<1>10. ASSUME NEW c \in Call, SetAbandon(c) PROVE LastInv'
  <2>1. UNCHANGED <<op, key, chans, pendingSetGroups, lastSet>>
    BY <1>10 DEF SetAbandon, LeaveGet
  <2>2. \A d \in Call : loc[d] = "gone" => loc'[d] = "gone"
    BY <1>10, PopItem DEF SetAbandon, LeaveGet, Put, IInv, TypeOK
  <2>3. \A d \in Call : cur = d /\ wpc \in Writing => (cur' = d /\ wpc' \in Writing) \/ loc'[d] = "gone"
    BY <1>10 DEF SetAbandon, LeaveGet, BuildFrame, Writing, IInv, TypeOK
  <2>4. \A d \in Call : op[d] = "set" /\ d # cur /\ fut[d] # "result" => fut'[d] # "result"
    BY <1>10, WorkerReads, DeliverReads DEF SetAbandon, LeaveGet, Settle, IInv, TypeOK
  <2> QED
    BY <2>1, <2>2, <2>3, <2>4 DEF LastInv, PendingWrites, IInv, TypeOK
<1>11. ASSUME NEW c \in Call, CancelBlocked(c) PROVE LastInv'
  <2>1. UNCHANGED <<op, key, chans, pendingSetGroups, lastSet>>
    BY <1>11 DEF CancelBlocked, LeaveGet
  <2>2. \A d \in Call : loc[d] = "gone" => loc'[d] = "gone"
    BY <1>11, PopItem DEF CancelBlocked, LeaveGet, Put, IInv, TypeOK
  <2>3. \A d \in Call : cur = d /\ wpc \in Writing => (cur' = d /\ wpc' \in Writing) \/ loc'[d] = "gone"
    BY <1>11 DEF CancelBlocked, LeaveGet, BuildFrame, Writing, IInv, TypeOK
  <2>4. \A d \in Call : op[d] = "set" /\ d # cur /\ fut[d] # "result" => fut'[d] # "result"
    BY <1>11, WorkerReads, DeliverReads DEF CancelBlocked, LeaveGet, Settle, IInv, TypeOK
  <2> QED
    BY <2>1, <2>2, <2>3, <2>4 DEF LastInv, PendingWrites, IInv, TypeOK
<1>12. ASSUME PopSkip PROVE LastInv'
  <2>1. UNCHANGED <<op, key, chans, lastSet, fut, cur, wpc>>
    BY <1>12 DEF PopSkip
  <2>2. \A d \in Call : loc[d] = "gone" => loc'[d] = "gone"
    BY <1>12 DEF PopSkip, IInv, TypeOK
  <2>3. \A k \in Key : pendingSetGroups'[k] \in {pendingSetGroups[k], NoCall}
    BY <1>12 DEF PopSkip, ReleaseSetGroup
  <2> QED
    BY <2>1, <2>2, <2>3 DEF LastInv, PendingWrites, NoWrites
<1>13. ASSUME PopTake PROVE LastInv'
  <2>1. UNCHANGED <<op, key, chans, pendingSetGroups, lastSet>>
    BY <1>13 DEF PopTake, LeaveGet
  <2>2. \A d \in Call : loc[d] = "gone" => loc'[d] = "gone"
    BY <1>13, PopItem DEF PopTake, LeaveGet, Put, IInv, TypeOK
  <2>3. \A d \in Call : cur = d /\ wpc \in Writing => (cur' = d /\ wpc' \in Writing) \/ loc'[d] = "gone"
    BY <1>13 DEF PopTake, LeaveGet, BuildFrame, Writing, IInv, TypeOK
  <2>4. \A d \in Call : op[d] = "set" /\ d # cur /\ fut[d] # "result" => fut'[d] # "result"
    BY <1>13, WorkerReads, DeliverReads DEF PopTake, LeaveGet, Settle, IInv, TypeOK
  <2> QED
    BY <2>1, <2>2, <2>3, <2>4 DEF LastInv, PendingWrites, IInv, TypeOK
<1>14. ASSUME WindowEnd PROVE LastInv'
  <2>1. cur \in Call /\ key[cur] \in Key /\ op[cur] = "set" /\ wpc = "window" /\ cur # NoCall
    BY <1>14, WritingItem, CommandAssumption DEF WindowEnd
  <2>2. UNCHANGED <<op, key, chans, lastSet, fut, cur, loc>> /\ wpc' \in Writing
    BY <1>14 DEF WindowEnd, BuildFrame, Writing
  <2>3. \A k \in Key : pendingSetGroups'[k] \in {pendingSetGroups[k], NoCall}
    BY <1>14 DEF WindowEnd, ReleaseSetGroup
  <2>4. pendingSetGroups[key[cur]] = cur /\ wpc \notin Writing
    BY <2>1 DEF RegInv, Writing
  <2>5. \A ch \in Chan : chans[cur][ch] # NoVal => lastSet[key[cur]][ch] \in {cur, NoCall}
    BY <2>1, <2>4 DEF LastInv, PendingWrites
  <2> QED
    BY <2>1, <2>2, <2>3, <2>4, <2>5 DEF LastInv, PendingWrites, NoWrites
<1>15. ASSUME Acquire PROVE LastInv'
  <2>1. UNCHANGED <<op, key, chans, pendingSetGroups, lastSet>>
    BY <1>15 DEF Acquire, LeaveGet
  <2>2. \A d \in Call : loc[d] = "gone" => loc'[d] = "gone"
    BY <1>15, PopItem DEF Acquire, LeaveGet, Put, IInv, TypeOK
  <2>3. \A d \in Call : cur = d /\ wpc \in Writing => (cur' = d /\ wpc' \in Writing) \/ loc'[d] = "gone"
    BY <1>15 DEF Acquire, LeaveGet, BuildFrame, Writing, IInv, TypeOK
  <2>4. \A d \in Call : op[d] = "set" /\ d # cur /\ fut[d] # "result" => fut'[d] # "result"
    BY <1>15, WorkerReads, DeliverReads DEF Acquire, LeaveGet, Settle, IInv, TypeOK
  <2> QED
    BY <2>1, <2>2, <2>3, <2>4 DEF LastInv, PendingWrites, IInv, TypeOK
<1>16. ASSUME ReadDone PROVE LastInv'
  <2>1. UNCHANGED <<op, key, chans, pendingSetGroups, lastSet>>
    BY <1>16 DEF ReadDone, LeaveGet
  <2>2. \A d \in Call : loc[d] = "gone" => loc'[d] = "gone"
    BY <1>16, PopItem DEF ReadDone, LeaveGet, Put, IInv, TypeOK
  <2>3. \A d \in Call : cur = d /\ wpc \in Writing => (cur' = d /\ wpc' \in Writing) \/ loc'[d] = "gone"
    BY <1>16 DEF ReadDone, LeaveGet, BuildFrame, Writing, IInv, TypeOK
  <2>4. \A d \in Call : op[d] = "set" /\ d # cur /\ fut[d] # "result" => fut'[d] # "result"
    BY <1>16, WorkerReads, DeliverReads DEF ReadDone, LeaveGet, Settle, IInv, TypeOK
  <2> QED
    BY <2>1, <2>2, <2>3, <2>4 DEF LastInv, PendingWrites, IInv, TypeOK
<1>17. ASSUME ReadFail PROVE LastInv'
  <2>1. UNCHANGED <<op, key, chans, pendingSetGroups, lastSet>>
    BY <1>17 DEF ReadFail, LeaveGet
  <2>2. \A d \in Call : loc[d] = "gone" => loc'[d] = "gone"
    BY <1>17, PopItem DEF ReadFail, LeaveGet, Put, IInv, TypeOK
  <2>3. \A d \in Call : cur = d /\ wpc \in Writing => (cur' = d /\ wpc' \in Writing) \/ loc'[d] = "gone"
    BY <1>17 DEF ReadFail, LeaveGet, BuildFrame, Writing, IInv, TypeOK
  <2>4. \A d \in Call : op[d] = "set" /\ d # cur /\ fut[d] # "result" => fut'[d] # "result"
    BY <1>17, WorkerReads, DeliverReads DEF ReadFail, LeaveGet, Settle, IInv, TypeOK
  <2> QED
    BY <2>1, <2>2, <2>3, <2>4 DEF LastInv, PendingWrites, IInv, TypeOK
<1>18. ASSUME GetAnswered PROVE LastInv'
  <2>1. UNCHANGED <<op, key, chans, pendingSetGroups, lastSet>>
    BY <1>18 DEF GetAnswered, LeaveGet
  <2>2. \A d \in Call : loc[d] = "gone" => loc'[d] = "gone"
    BY <1>18, PopItem DEF GetAnswered, LeaveGet, Put, IInv, TypeOK
  <2>3. \A d \in Call : cur = d /\ wpc \in Writing => (cur' = d /\ wpc' \in Writing) \/ loc'[d] = "gone"
    BY <1>18 DEF GetAnswered, LeaveGet, BuildFrame, Writing, IInv, TypeOK
  <2>4. \A d \in Call : op[d] = "set" /\ d # cur /\ fut[d] # "result" => fut'[d] # "result"
    BY <1>18, WorkerReads, DeliverReads DEF GetAnswered, LeaveGet, Settle, IInv, TypeOK
  <2> QED
    BY <2>1, <2>2, <2>3, <2>4 DEF LastInv, PendingWrites, IInv, TypeOK
<1>19. ASSUME OtherAnswered PROVE LastInv'
  <2>1. UNCHANGED <<op, key, chans, pendingSetGroups, lastSet>>
    BY <1>19 DEF OtherAnswered, LeaveGet
  <2>2. \A d \in Call : loc[d] = "gone" => loc'[d] = "gone"
    BY <1>19, PopItem DEF OtherAnswered, LeaveGet, Put, IInv, TypeOK
  <2>3. \A d \in Call : cur = d /\ wpc \in Writing => (cur' = d /\ wpc' \in Writing) \/ loc'[d] = "gone"
    BY <1>19 DEF OtherAnswered, LeaveGet, BuildFrame, Writing, IInv, TypeOK
  <2>4. \A d \in Call : op[d] = "set" /\ d # cur /\ fut[d] # "result" => fut'[d] # "result"
    BY <1>19, WorkerReads, DeliverReads DEF OtherAnswered, LeaveGet, Settle, IInv, TypeOK
  <2> QED
    BY <2>1, <2>2, <2>3, <2>4 DEF LastInv, PendingWrites, IInv, TypeOK
<1>20. ASSUME ExchangeFails PROVE LastInv'
  <2>1. UNCHANGED <<op, key, chans, pendingSetGroups, lastSet>>
    BY <1>20 DEF ExchangeFails, LeaveGet
  <2>2. \A d \in Call : loc[d] = "gone" => loc'[d] = "gone"
    BY <1>20, PopItem DEF ExchangeFails, LeaveGet, Put, IInv, TypeOK
  <2>3. \A d \in Call : cur = d /\ wpc \in Writing => (cur' = d /\ wpc' \in Writing) \/ loc'[d] = "gone"
    BY <1>20 DEF ExchangeFails, LeaveGet, BuildFrame, Writing, IInv, TypeOK
  <2>4. \A d \in Call : op[d] = "set" /\ d # cur /\ fut[d] # "result" => fut'[d] # "result"
    BY <1>20, WorkerReads, DeliverReads DEF ExchangeFails, LeaveGet, Settle, IInv, TypeOK
  <2> QED
    BY <2>1, <2>2, <2>3, <2>4 DEF LastInv, PendingWrites, IInv, TypeOK
<1>21. ASSUME PressSent PROVE LastInv'
  <2>1. UNCHANGED <<op, key, chans, pendingSetGroups, lastSet>>
    BY <1>21 DEF PressSent, LeaveGet
  <2>2. \A d \in Call : loc[d] = "gone" => loc'[d] = "gone"
    BY <1>21, PopItem DEF PressSent, LeaveGet, Put, IInv, TypeOK
  <2>3. \A d \in Call : cur = d /\ wpc \in Writing => (cur' = d /\ wpc' \in Writing) \/ loc'[d] = "gone"
    BY <1>21 DEF PressSent, LeaveGet, BuildFrame, Writing, IInv, TypeOK
  <2>4. \A d \in Call : op[d] = "set" /\ d # cur /\ fut[d] # "result" => fut'[d] # "result"
    BY <1>21, WorkerReads, DeliverReads DEF PressSent, LeaveGet, Settle, IInv, TypeOK
  <2> QED
    BY <2>1, <2>2, <2>3, <2>4 DEF LastInv, PendingWrites, IInv, TypeOK
<1>22. ASSUME PostDone PROVE LastInv'
  <2>1. UNCHANGED <<op, key, chans, pendingSetGroups, lastSet>>
    BY <1>22 DEF PostDone, LeaveGet
  <2>2. \A d \in Call : loc[d] = "gone" => loc'[d] = "gone"
    BY <1>22, PopItem DEF PostDone, LeaveGet, Put, IInv, TypeOK
  <2>3. \A d \in Call : cur = d /\ wpc \in Writing => (cur' = d /\ wpc' \in Writing) \/ loc'[d] = "gone"
    BY <1>22 DEF PostDone, LeaveGet, BuildFrame, Writing, IInv, TypeOK
  <2>4. \A d \in Call : op[d] = "set" /\ d # cur /\ fut[d] # "result" => fut'[d] # "result"
    BY <1>22, WorkerReads, DeliverReads DEF PostDone, LeaveGet, Settle, IInv, TypeOK
  <2> QED
    BY <2>1, <2>2, <2>3, <2>4 DEF LastInv, PendingWrites, IInv, TypeOK
<1>23. ASSUME Start PROVE LastInv'
  <2>1. UNCHANGED <<op, key, chans, pendingSetGroups, lastSet>>
    BY <1>23 DEF Start, LeaveGet
  <2>2. \A d \in Call : loc[d] = "gone" => loc'[d] = "gone"
    BY <1>23, PopItem DEF Start, LeaveGet, Put, IInv, TypeOK
  <2>3. \A d \in Call : cur = d /\ wpc \in Writing => (cur' = d /\ wpc' \in Writing) \/ loc'[d] = "gone"
    BY <1>23 DEF Start, LeaveGet, BuildFrame, Writing, IInv, TypeOK
  <2>4. \A d \in Call : op[d] = "set" /\ d # cur /\ fut[d] # "result" => fut'[d] # "result"
    BY <1>23, WorkerReads, DeliverReads DEF Start, LeaveGet, Settle, IInv, TypeOK
  <2> QED
    BY <2>1, <2>2, <2>3, <2>4 DEF LastInv, PendingWrites, IInv, TypeOK
<1>24. ASSUME StopBegin PROVE LastInv'
  BY <1>24 DEF StopBegin, RegInv
<1>25. ASSUME WorkerCancelled PROVE LastInv'
  BY <1>25 DEF WorkerCancelled, RegInv
<1>26. ASSUME StopFinish PROVE LastInv'
  BY <1>26 DEF StopFinish, RegInv
<1>27. ASSUME Reset PROVE LastInv'
  BY <1>27 DEF Reset, RegInv
<1>28. ASSUME Deliver PROVE LastInv'
  <2>1. UNCHANGED <<op, key, chans, pendingSetGroups, lastSet>>
    BY <1>28 DEF Deliver, LeaveGet
  <2>2. \A d \in Call : loc[d] = "gone" => loc'[d] = "gone"
    BY <1>28, PopItem DEF Deliver, LeaveGet, Put, IInv, TypeOK
  <2>3. \A d \in Call : cur = d /\ wpc \in Writing => (cur' = d /\ wpc' \in Writing) \/ loc'[d] = "gone"
    BY <1>28 DEF Deliver, LeaveGet, BuildFrame, Writing, IInv, TypeOK
  <2>4. \A d \in Call : op[d] = "set" /\ d # cur /\ fut[d] # "result" => fut'[d] # "result"
    BY <1>28, WorkerReads, DeliverReads DEF Deliver, LeaveGet, Settle, IInv, TypeOK
  <2> QED
    BY <2>1, <2>2, <2>3, <2>4 DEF LastInv, PendingWrites, IInv, TypeOK
<1>29. ASSUME NEW k \in Key, NEW ch \in Chan, NEW v \in Val, Wall(k, ch, v) PROVE LastInv'
  <2>1. UNCHANGED <<op, key, loc, chans, pendingSetGroups, fut, cur, wpc>>
    BY <1>29 DEF Wall
  <2>2. \A j \in Key, x \in Chan : lastSet'[j][x] \in {lastSet[j][x], NoCall}
    BY <1>29 DEF Wall, IInv, TypeOK
  <2> QED
    BY <2>1, <2>2 DEF LastInv, PendingWrites
<1>30. ASSUME ScanAcquire \/ ScanRelease \/ DeviceTakes
      PROVE  LastInv'
  BY <1>30 DEF ScanAcquire, ScanRelease, DeviceTakes, LastInv, PendingWrites
<1>31. ASSUME NEW k \in Key, FeedbackPush(k) \/ Age(k)
      PROVE  LastInv'
  BY <1>31 DEF FeedbackPush, Age, LastInv, PendingWrites
<1>32. CASE UNCHANGED vars
  BY <1>32 DEF LastInv, PendingWrites
<1> QED
  BY <1>1, <1>2, <1>3, <1>4, <1>5, <1>6, <1>7, <1>8, <1>9, <1>10, <1>11, <1>12, <1>13,
     <1>14, <1>15, <1>16, <1>17, <1>18, <1>19, <1>20, <1>21, <1>22, <1>23, <1>24, <1>25,
     <1>26, <1>27, <1>28, <1>29, <1>30, <1>31, <1>32 DEF Next, CallStep, WorkerStep,
     LifecycleStep, EnvStep
\* No step makes an answer on its way, or received, say more than the output
\* shows.
LEMMA StepWire ==
    IInv /\ LineInv /\ PendInv /\ RegInv /\ LastInv /\ WireInv /\ HostOps \cap {"stop", "reset"} = {} /\ [Next]_vars => WireInv'
<1> SUFFICES ASSUME IInv /\ LineInv /\ PendInv /\ RegInv /\ LastInv /\ WireInv /\ HostOps \cap {"stop", "reset"} = {}, [Next]_vars
             PROVE  WireInv'
  OBVIOUS
<1> USE DEF vars, callVars, getVars, setVars, bufVars, workVars, extVars, histVars
<1>1. ASSUME NEW c \in Call, NEW k \in Key, GetCall(c, k) PROVE WireInv'
  <2>1. UNCHANGED <<cur, wpc, frame, chans, lastSet, reply, dev, line>>
    BY <1>1 DEF GetCall
  <2>2. wpc \in {"lock", "exch"} => op'[cur] = op[cur] /\ key'[cur] = key[cur]
    BY <1>1, WritingItem DEF GetCall, MakeCall, IInv, TypeOK, CallInv, Writing
  <2> QED
    BY <2>1, <2>2 DEF WireInv, LineShows
<1>2. ASSUME NEW c \in Call, NEW k \in Key, QueryCall(c, k) PROVE WireInv'
  <2>1. UNCHANGED <<cur, wpc, frame, chans, lastSet, reply, dev, line>>
    BY <1>2 DEF QueryCall
  <2>2. wpc \in {"lock", "exch"} => op'[cur] = op[cur] /\ key'[cur] = key[cur]
    BY <1>2, WritingItem DEF QueryCall, MakeCall, IInv, TypeOK, CallInv, Writing
  <2> QED
    BY <2>1, <2>2 DEF WireInv, LineShows
<1>3. ASSUME NEW c \in Call, NEW k \in Key, NEW ch \in Chan, NEW v \in Val, SetCall(c, k, ch, v)
      PROVE  WireInv'
  <2>1. UNCHANGED <<cur, wpc, frame, reply, dev, line>>
    BY <1>3 DEF SetCall
  <2>2. wpc \in {"lock", "exch"} => /\ cur \in Call /\ cur # c /\ cur # pendingSetGroups[k]
                                    /\ op'[cur] = op[cur] /\ key'[cur] = key[cur]
    BY <1>3, WritingItem, CommandAssumption DEF SetCall, MakeCall, IInv, TypeOK, CallInv, PendInv, Writing
  <2> DEFINE item == IF pendingSetGroups[k] = NoCall THEN c ELSE pendingSetGroups[k]
  <2>3. item \in Call /\ (wpc \in {"lock", "exch"} => cur # item)
    BY <2>2 DEF IInv, TypeOK
  <2>4. wpc \in {"lock", "exch"} => chans'[cur] = chans[cur]
    BY <1>3, <2>2, <2>3 DEF SetCall, IInv, TypeOK
  <2>5. \A j \in Key, x \in Chan : lastSet'[j][x] \in {lastSet[j][x], item}
    BY <1>3, <2>3 DEF SetCall, IInv, TypeOK
  <2>6. (wpc \in {"lock", "exch"} /\ op[cur] = "set") => key[cur] \in Key
    BY <2>2 DEF IInv, CallInv
  <2> HIDE DEF item
  <2> QED
    BY <2>1, <2>2, <2>3, <2>4, <2>5, <2>6 DEF WireInv, LineShows
<1>4. ASSUME NEW c \in Call, PressCall(c) PROVE WireInv'
  <2>1. UNCHANGED <<cur, wpc, frame, chans, lastSet, reply, dev, line>>
    BY <1>4 DEF PressCall
  <2>2. wpc \in {"lock", "exch"} => op'[cur] = op[cur] /\ key'[cur] = key[cur]
    BY <1>4, WritingItem DEF PressCall, MakeCall, IInv, TypeOK, CallInv, Writing
  <2> QED
    BY <2>1, <2>2 DEF WireInv, LineShows
<1>5. ASSUME NEW c \in Call, Unblock(c) PROVE WireInv'
  <2>1. UNCHANGED <<op, key, cur, wpc, frame, chans, lastSet, reply, dev, line>>
    BY <1>5 DEF Unblock, LeaveGet
  <2> QED
    BY <2>1 DEF WireInv, LineShows
<1>6. ASSUME NEW c \in Call, GetAbandon(c) PROVE WireInv'
  <2>1. UNCHANGED <<op, key, cur, wpc, frame, chans, lastSet, reply, dev, line>>
    BY <1>6 DEF GetAbandon, LeaveGet
  <2> QED
    BY <2>1 DEF WireInv, LineShows
<1>7. ASSUME NEW c \in Call, GetCancelBlocked(c) PROVE WireInv'
  <2>1. UNCHANGED <<op, key, cur, wpc, frame, chans, lastSet, reply, dev, line>>
    BY <1>7 DEF GetCancelBlocked, LeaveGet
  <2> QED
    BY <2>1 DEF WireInv, LineShows
<1>8. ASSUME NEW c \in Call, GetReturn(c) PROVE WireInv'
  <2>1. UNCHANGED <<op, key, cur, wpc, frame, chans, lastSet, reply, dev, line>>
    BY <1>8 DEF GetReturn, LeaveGet
  <2> QED
    BY <2>1 DEF WireInv, LineShows
<1>9. ASSUME NEW c \in Call, QueryAbandon(c) PROVE WireInv'
  <2>1. UNCHANGED <<op, key, cur, wpc, frame, chans, lastSet, reply, dev, line>>
    BY <1>9 DEF QueryAbandon, LeaveGet
  <2> QED
    BY <2>1 DEF WireInv, LineShows
<1>10. ASSUME NEW c \in Call, SetAbandon(c) PROVE WireInv'
  <2>1. UNCHANGED <<op, key, cur, wpc, frame, chans, lastSet, reply, dev, line>>
    BY <1>10 DEF SetAbandon, LeaveGet
  <2> QED
    BY <2>1 DEF WireInv, LineShows
<1>11. ASSUME NEW c \in Call, CancelBlocked(c) PROVE WireInv'
  <2>1. UNCHANGED <<op, key, cur, wpc, frame, chans, lastSet, reply, dev, line>>
    BY <1>11 DEF CancelBlocked, LeaveGet
  <2> QED
    BY <2>1 DEF WireInv, LineShows
<1>12. ASSUME PopSkip PROVE WireInv'
  <2>1. ~(wpc' \in {"lock", "exch"} /\ op'[cur'] = "set")
    BY <1>12 DEF PopSkip
  <2> QED
    BY <2>1 DEF WireInv
<1>13. ASSUME PopTake PROVE WireInv'
  <2>1. ~(wpc' \in {"lock", "exch"} /\ op'[cur'] = "set")
    BY <1>13 DEF PopTake
  <2> QED
    BY <2>1 DEF WireInv
<1>14. ASSUME WindowEnd PROVE WireInv'
  <2>1. /\ cur \in Call /\ loc[cur] = "worker" /\ wpc \notin {"exch", "post"}
        /\ chans[cur] \in Writes
    BY <1>14, WritingItem DEF WindowEnd, Writing, IInv, WorkerInv, TypeOK
  <2>2. UNCHANGED <<op, key, cur, chans, line>> /\ wpc' \in {"rlock", "lock"}
    BY <1>14 DEF WindowEnd, BuildFrame
  <2>3. wpc' = "lock" =>
           \A ch \in Chan : chans[cur][ch] # NoVal => frame'[ch] = chans[cur][ch]
    BY <1>14 DEF WindowEnd, BuildFrame, Overlay
  <2>4. \A i \in DOMAIN line : ~(line[i].kind = "done" /\ line[i].who = cur)
    BY <2>1 DEF LineInv
  <2> QED
    BY <2>2, <2>3, <2>4 DEF WireInv
<1>15. ASSUME Acquire PROVE WireInv'
  <2>1. UNCHANGED <<op, key, cur, frame, chans, lastSet, dev, line>> /\ reply' = NoImage
    BY <1>15 DEF Acquire
  <2>2. wpc' \in {"lock", "exch"} => wpc = "lock"
    BY <1>15 DEF Acquire
  <2> QED
    BY <2>1, <2>2 DEF WireInv, LineShows
<1>16. ASSUME ReadDone PROVE WireInv'
  <2>1. /\ cur \in Call /\ loc[cur] = "worker" /\ wpc \notin {"exch", "post"}
        /\ chans[cur] \in Writes
    BY <1>16, WritingItem DEF ReadDone, Writing, IInv, WorkerInv, TypeOK
  <2>2. UNCHANGED <<op, key, cur, chans, line>> /\ wpc' \in {"rlock", "lock"}
    BY <1>16 DEF ReadDone, BuildFrame
  <2>3. wpc' = "lock" =>
           \A ch \in Chan : chans[cur][ch] # NoVal => frame'[ch] = chans[cur][ch]
    BY <1>16 DEF ReadDone, BuildFrame, Overlay
  <2>4. \A i \in DOMAIN line : ~(line[i].kind = "done" /\ line[i].who = cur)
    BY <2>1 DEF LineInv
  <2> QED
    BY <2>2, <2>3, <2>4 DEF WireInv
<1>17. ASSUME ReadFail PROVE WireInv'
  <2>1. /\ cur \in Call /\ loc[cur] = "worker" /\ wpc \notin {"exch", "post"}
        /\ chans[cur] \in Writes
    BY <1>17, WritingItem DEF ReadFail, Writing, IInv, WorkerInv, TypeOK
  <2>2. UNCHANGED <<op, key, cur, chans, line>> /\ wpc' \in {"rlock", "lock"}
    BY <1>17 DEF ReadFail, BuildFrame
  <2>3. wpc' = "lock" =>
           \A ch \in Chan : chans[cur][ch] # NoVal => frame'[ch] = chans[cur][ch]
    BY <1>17 DEF ReadFail, BuildFrame, Overlay
  <2>4. \A i \in DOMAIN line : ~(line[i].kind = "done" /\ line[i].who = cur)
    BY <2>1 DEF LineInv
  <2> QED
    BY <2>2, <2>3, <2>4 DEF WireInv
<1>18. ASSUME GetAnswered PROVE WireInv'
  <2>1. ~(wpc' \in {"lock", "exch"} /\ op'[cur'] = "set")
    BY <1>18 DEF GetAnswered
  <2> QED
    BY <2>1 DEF WireInv
<1>19. ASSUME OtherAnswered PROVE WireInv'
  <2>1. ~(wpc' \in {"lock", "exch"} /\ op'[cur'] = "set")
    BY <1>19 DEF OtherAnswered
  <2> QED
    BY <2>1 DEF WireInv
<1>20. ASSUME ExchangeFails PROVE WireInv'
  <2>1. ~(wpc' \in {"lock", "exch"} /\ op'[cur'] = "set")
    BY <1>20 DEF ExchangeFails
  <2> QED
    BY <2>1 DEF WireInv
<1>21. ASSUME PressSent PROVE WireInv'
  <2>1. ~(wpc' \in {"lock", "exch"} /\ op'[cur'] = "set")
    BY <1>21 DEF PressSent
  <2> QED
    BY <2>1 DEF WireInv
<1>22. ASSUME PostDone PROVE WireInv'
  <2>1. ~(wpc' \in {"lock", "exch"} /\ op'[cur'] = "set")
    BY <1>22 DEF PostDone
  <2> QED
    BY <2>1 DEF WireInv
<1>23. ASSUME Start PROVE WireInv'
  <2>1. ~(wpc' \in {"lock", "exch"} /\ op'[cur'] = "set")
    BY <1>23 DEF Start
  <2> QED
    BY <2>1 DEF WireInv
<1>24. ASSUME StopBegin PROVE WireInv'
  BY <1>24 DEF StopBegin, RegInv
<1>25. ASSUME WorkerCancelled PROVE WireInv'
  BY <1>25 DEF WorkerCancelled, RegInv
<1>26. ASSUME StopFinish PROVE WireInv'
  BY <1>26 DEF StopFinish, RegInv
<1>27. ASSUME Reset PROVE WireInv'
  BY <1>27 DEF Reset, RegInv
<1>28. ASSUME DeviceTakes PROVE WireInv'
  <2> DEFINE k == key[cur]
  <2>1. UNCHANGED <<op, key, cur, wpc, frame, chans, lastSet, reply>> /\ reply = NoImage
    BY <1>28 DEF DeviceTakes
  <2> SUFFICES ASSUME wpc \in {"lock", "exch"}, op[cur] = "set" PROVE WireInv'
    BY <2>1 DEF WireInv
  <2>2. cur \in Call /\ k \in Key /\ cur # NoCall /\ wpc = "exch"
    BY <1>28, WritingItem, CommandAssumption DEF DeviceTakes, Writing
  <2>3. dev' = [dev EXCEPT ![k] = frame] /\ (line' = Append(line, DoneFrame(cur, k)) \/ UNCHANGED line)
    BY <1>28, <2>2 DEF DeviceTakes
  <2>4. \A ch \in Chan : lastSet[k][ch] = cur => dev'[k][ch] = chans[cur][ch]
    BY <2>2, <2>3 DEF LastInv, WireInv, IInv, TypeOK
  <2> HIDE DEF k
  <2>5. CASE UNCHANGED line
    BY <2>1, <2>2, <2>4, <2>5 DEF WireInv, LineShows, k
  <2>6. CASE line' = Append(line, DoneFrame(cur, k))
    <3> DEFINE n == Len(line)
    <3>1. /\ n \in Nat /\ DOMAIN line = 1 .. n /\ DOMAIN line' = 1 .. (n + 1)
          /\ line'[n + 1] = DoneFrame(cur, k)
          /\ \A i \in 1 .. n : line'[i] = line[i]
      BY <2>2, <2>6, SentFrame, LineAppend
    <3>2. line'[n + 1].kind = "done"
      BY <3>1 DEF DoneFrame
    <3>3. ASSUME NEW ch \in Chan, lastSet[k][ch] = cur, NEW i \in DOMAIN line',
                 line'[i].kind = "done", line'[i].who = cur
          PROVE  LineShows(i, k, ch, chans[cur][ch])'
      <4>1. CASE i = n + 1
        BY <2>1, <3>1, <3>2, <4>1 DEF LineShows
      <4>2. CASE i # n + 1
        <5>1. i \in 1 .. n /\ line[i].kind = "done" /\ line[i].who = cur
          BY <3>1, <3>3, <4>2
        <5>2. LineShows(i, k, ch, chans[cur][ch])
          BY <2>2, <3>1, <3>3, <5>1 DEF WireInv, k
        <5>3. ASSUME NEW x \in DOMAIN line', x >= i, line'[x].kind # "done", line'[x].key = k
              PROVE  line'[x].img[ch] = chans[cur][ch]
          <6>1. x \in 1 .. n /\ line'[x] = line[x]
            BY <3>1, <3>2, <5>3
          <6> QED
            BY <3>1, <5>2, <5>3, <6>1 DEF LineShows
        <5> QED
          BY <5>3, <2>1 DEF LineShows, k
      <4> QED
        BY <4>1, <4>2
    <3> QED
      BY <2>1, <2>2, <2>4, <3>3 DEF WireInv, k
  <2> QED
    BY <2>3, <2>5, <2>6
<1>29. ASSUME Deliver PROVE WireInv'
  <2> DEFINE k == key[cur]
  <2>1. UNCHANGED <<op, key, cur, wpc, frame, chans, lastSet, dev>> /\ line # <<>> /\ line' = Tail(line)
    BY <1>29 DEF Deliver
  <2> SUFFICES ASSUME wpc \in {"lock", "exch"}, op[cur] = "set" PROVE WireInv'
    BY <2>1 DEF WireInv
  <2>2. cur \in Call /\ k \in Key
    BY WritingItem DEF Writing
  <2>3. /\ Len(line) \in Nat \ {0} /\ DOMAIN line = 1 .. Len(line)
        /\ DOMAIN line' = 1 .. (Len(line) - 1) /\ Head(line) = line[1]
        /\ \A i \in DOMAIN line' : i + 1 \in DOMAIN line /\ line'[i] = line[i + 1]
    BY <2>1, LineTail
  <2>4. reply' # reply => line[1].kind = "done" /\ line[1].who = cur
    BY <1>29, <2>3 DEF Deliver, Awaited
  <2> HIDE DEF k
  <2>5. ASSUME NEW x \in DOMAIN line'
        PROVE  x \in Nat /\ x + 1 \in DOMAIN line /\ line'[x] = line[x + 1]
    BY <2>3
  <2>6. ASSUME NEW ch \in Chan, lastSet[k][ch] = cur, wpc = "exch", reply' # NoImage
        PROVE  dev[k][ch] = chans[cur][ch] /\ LineShows(1, k, ch, chans[cur][ch])
    <3>1. CASE reply' # reply
      BY <2>2, <2>3, <2>4, <2>6, <3>1 DEF WireInv, k
    <3>2. CASE reply' = reply
      BY <2>6, <3>2 DEF WireInv, k
    <3> QED
      BY <3>1, <3>2
  <2>7. ASSUME NEW ch \in Chan, lastSet[k][ch] = cur, NEW i \in DOMAIN line',
               line'[i].kind = "done", line'[i].who = cur
        PROVE  dev[k][ch] = chans[cur][ch] /\ LineShows(i + 1, k, ch, chans[cur][ch])
    BY <2>3, <2>7 DEF WireInv, k
  <2>8. ASSUME NEW ch \in Chan, lastSet[k][ch] = cur, wpc = "exch", reply' # NoImage
        PROVE  \A x \in DOMAIN line' : (x >= 1 /\ line'[x].kind # "done" /\ line'[x].key = k)
                                          => line'[x].img[ch] = chans[cur][ch]
    <3>1. LineShows(1, k, ch, chans[cur][ch])
      BY <2>6, <2>8
    <3>2. ASSUME NEW x \in DOMAIN line', line'[x].kind # "done", line'[x].key = k
          PROVE  line'[x].img[ch] = chans[cur][ch]
      <4>1. x + 1 >= 1
        BY <2>5
      <4> QED
        BY <2>5, <3>1, <3>2, <4>1 DEF LineShows
    <3> QED
      BY <3>2
  <2>9. ASSUME NEW ch \in Chan, lastSet[k][ch] = cur, NEW i \in DOMAIN line',
               line'[i].kind = "done", line'[i].who = cur
        PROVE  \A x \in DOMAIN line' : (x >= i /\ line'[x].kind # "done" /\ line'[x].key = k)
                                          => line'[x].img[ch] = chans[cur][ch]
    <3>1. LineShows(i + 1, k, ch, chans[cur][ch]) /\ i \in Nat /\ i + 1 \in Nat
      BY <2>3, <2>7, <2>9
    <3>2. ASSUME NEW x \in DOMAIN line', x >= i, line'[x].kind # "done", line'[x].key = k
          PROVE  line'[x].img[ch] = chans[cur][ch]
      <4>1. x + 1 >= i + 1
        BY <2>5, <3>1, <3>2
      <4> QED
        BY <2>5, <3>1, <3>2, <4>1 DEF LineShows
    <3> QED
      BY <3>2
  <2> QED
    BY <2>1, <2>6, <2>7, <2>8, <2>9 DEF WireInv, LineShows, k
<1>30. ASSUME NEW k \in Key, FeedbackPush(k) PROVE WireInv'
  <2> DEFINE n == Len(line)
  <2> DEFINE m == StateFrame("push", NoCall, k)
  <2>1. /\ UNCHANGED <<op, key, cur, wpc, frame, chans, lastSet, reply, dev>>
        /\ line' = Append(line, m)
    BY <1>30 DEF FeedbackPush
  <2>2. /\ n \in Nat /\ DOMAIN line = 1 .. n /\ DOMAIN line' = 1 .. (n + 1)
        /\ line'[n + 1] = m /\ \A i \in 1 .. n : line'[i] = line[i]
    BY <2>1, SentFrame, LineAppend
  <2>3. m.kind = "push" /\ m.key = k /\ m.img = dev[k]
    BY DEF StateFrame
  <2> HIDE DEF m, n
  <2>4. ASSUME NEW i \in Nat, NEW j, NEW ch \in Chan, NEW v, LineShows(i, j, ch, v), dev[j][ch] = v
        PROVE  \A x \in DOMAIN line' : (x >= i /\ line'[x].kind # "done" /\ line'[x].key = j)
                                          => line'[x].img[ch] = v
    BY <2>2, <2>3, <2>4 DEF LineShows
  <2>5. \A i \in DOMAIN line' : line'[i].kind = "done" => i \in DOMAIN line /\ line'[i] = line[i]
    BY <2>2, <2>3
  <2>6. DOMAIN line' \subseteq Nat
    BY <2>2
  <2> QED
    BY <2>1, <2>4, <2>5, <2>6 DEF WireInv, LineShows
<1>31. ASSUME NEW k \in Key, NEW ch \in Chan, NEW v \in Val, Wall(k, ch, v) PROVE WireInv'
  <2>1. UNCHANGED <<op, key, cur, wpc, frame, chans, reply, line>>
    BY <1>31 DEF Wall
  <2>2. \A j \in Key, x \in Chan : \/ lastSet'[j][x] = NoCall
                                   \/ lastSet'[j][x] = lastSet[j][x] /\ dev'[j][x] = dev[j][x]
    BY <1>31 DEF Wall, IInv, TypeOK, Image
  <2>3. wpc \in {"lock", "exch"} /\ op[cur] = "set" => cur \in Call /\ cur # NoCall /\ key[cur] \in Key
    BY WritingItem, CommandAssumption DEF Writing
  <2> QED
    BY <2>1, <2>2, <2>3 DEF WireInv, LineShows
<1>32. ASSUME ScanAcquire \/ ScanRelease
      PROVE  WireInv'
  BY <1>32 DEF ScanAcquire, ScanRelease, WireInv, LineShows
<1>33. ASSUME NEW k \in Key, Age(k)
      PROVE  WireInv'
  BY <1>33 DEF Age, WireInv, LineShows
<1>34. CASE UNCHANGED vars
  BY <1>34 DEF WireInv, LineShows
<1> QED
  BY <1>1, <1>2, <1>3, <1>4, <1>5, <1>6, <1>7, <1>8, <1>9, <1>10, <1>11, <1>12, <1>13,
     <1>14, <1>15, <1>16, <1>17, <1>18, <1>19, <1>20, <1>21, <1>22, <1>23, <1>24, <1>25,
     <1>26, <1>27, <1>28, <1>29, <1>30, <1>31, <1>32, <1>33, <1>34 DEF Next, CallStep,
     WorkerStep, LifecycleStep, EnvStep
\* An acknowledged write is over: no other write of the output is waiting, and
\* the one being sent, if it writes the output, is this one.
LEMMA AckedAlone ==
    ASSUME IInv, PendInv, SendInv, RegInv, LastInv, NEW k \in Key, NEW ch \in Chan, Acked(k, ch)
    PROVE  /\ lastSet[k][ch] \in Call /\ op[lastSet[k][ch]] = "set" /\ key[lastSet[k][ch]] = k
           /\ Asked(k, ch) # NoVal
           /\ PendingWrites(k)[ch] = NoVal
           /\ writingSets[k][ch] \in {NoVal, Asked(k, ch)}
           /\ (cur # NoCall /\ op[cur] = "set" /\ key[cur] = k
                 /\ wpc \in {"window", "rlock", "read", "lock", "exch"}) => chans[cur][ch] = NoVal
<1> DEFINE c == lastSet[k][ch]
<1>1. c \in Call /\ fut[c] = "result" /\ op[c] = "set" /\ key[c] = k /\ chans[c][ch] # NoVal
  BY DEF Acked, LastInv, IInv, TypeOK
<1>2. PendingWrites(k)[ch] = NoVal
  BY <1>1 DEF Acked, LastInv, RegInv
<1>3. ASSUME cur # NoCall, op[cur] = "set", key[cur] = k, chans[cur][ch] # NoVal,
             wpc \in Writing \cup {"window"}
      PROVE  cur = c /\ wpc = "post"
  <2>1. cur \in Call /\ loc[cur] # "gone"
    BY <1>3 DEF IInv, TypeOK, WorkerInv
  <2>2. cur = c
    BY <1>1, <1>3, <2>1 DEF Acked, LastInv
  <2> QED
    BY <1>1, <1>3, <2>2 DEF RegInv, Writing
<1>4. writingSets[k][ch] \in {NoVal, chans[c][ch]}
  BY <1>3, WritingItem, CommandAssumption DEF SendInv, NoWrites
<1> QED
  BY <1>1, <1>2, <1>3, <1>4 DEF Asked, Writing

\* What is stored of a report shows an acknowledged write if the report does.
LEMMA AckedStored ==
    ASSUME IInv, PendInv, SendInv, RegInv, LastInv, NEW k \in Key, NEW ch \in Chan, Acked(k, ch),
           NEW image, image[ch] = Asked(k, ch)
    PROVE  ApplyGroupState(k, image)[ch] = Asked(k, ch)
BY AckedAlone DEF ApplyGroupState, Overlay

\* No step undoes an acknowledged write that is still an output's last.
LEMMA StepEffect ==
    IInv /\ LineInv /\ PendInv /\ SendInv /\ RegInv /\ LastInv /\ WireInv /\ BufferShowsSent /\ EffectInv /\ HostOps \cap {"stop", "reset"} = {} /\ [Next]_vars => EffectInv'
<1> SUFFICES ASSUME IInv /\ LineInv /\ PendInv /\ SendInv /\ RegInv /\ LastInv /\ WireInv /\ BufferShowsSent /\ EffectInv /\ HostOps \cap {"stop", "reset"} = {}, [Next]_vars
             PROVE  EffectInv'
  OBVIOUS
<1> USE DEF vars, callVars, getVars, setVars, bufVars, workVars, extVars, histVars
<1>1. ASSUME NEW c \in Call, NEW k \in Key, GetCall(c, k) PROVE EffectInv'
  <2>1. UNCHANGED <<chans, lastSet, moduleStates, dev, line, cur, wpc, frame, reply>>
    BY <1>1 DEF GetCall
  <2>2. \A d \in Call \ {c} : op'[d] = op[d] /\ key'[d] = key[d] /\ fut'[d] = fut[d]
    BY <1>1 DEF GetCall, MakeCall, IInv, TypeOK
  <2>3. op[c] = "none"
    BY <1>1 DEF GetCall, MakeCall, IInv, CallInv
  <2>4. \A j \in Key, x \in Chan : lastSet[j][x] \in Call \cup {NoCall} /\ lastSet[j][x] # c
    BY <2>3, CommandAssumption DEF LastInv, IInv, TypeOK
  <2>5. wpc \in {"lock", "read", "exch"} => op'[cur] = op[cur] /\ key'[cur] = key[cur]
    BY <2>2, <2>3, WritingItem DEF Writing
  <2> QED
    BY <2>1, <2>2, <2>4, <2>5 DEF EffectInv, Acked, Asked, Reading, LineShows
<1>2. ASSUME NEW c \in Call, NEW k \in Key, QueryCall(c, k) PROVE EffectInv'
  <2>1. UNCHANGED <<chans, lastSet, moduleStates, dev, line, cur, wpc, frame, reply>>
    BY <1>2 DEF QueryCall
  <2>2. \A d \in Call \ {c} : op'[d] = op[d] /\ key'[d] = key[d] /\ fut'[d] = fut[d]
    BY <1>2 DEF QueryCall, MakeCall, IInv, TypeOK
  <2>3. op[c] = "none"
    BY <1>2 DEF QueryCall, MakeCall, IInv, CallInv
  <2>4. \A j \in Key, x \in Chan : lastSet[j][x] \in Call \cup {NoCall} /\ lastSet[j][x] # c
    BY <2>3, CommandAssumption DEF LastInv, IInv, TypeOK
  <2>5. wpc \in {"lock", "read", "exch"} => op'[cur] = op[cur] /\ key'[cur] = key[cur]
    BY <2>2, <2>3, WritingItem DEF Writing
  <2> QED
    BY <2>1, <2>2, <2>4, <2>5 DEF EffectInv, Acked, Asked, Reading, LineShows
<1>3. ASSUME NEW c \in Call, NEW k \in Key, NEW ch \in Chan, NEW v \in Val, SetCall(c, k, ch, v)
      PROVE  EffectInv'
  <2> DEFINE item == IF pendingSetGroups[k] = NoCall THEN c ELSE pendingSetGroups[k]
  <2>1. op[c] = "none" /\ UNCHANGED <<dev, line, cur, wpc, frame, reply>>
    BY <1>3 DEF SetCall, MakeCall, IInv, CallInv
  <2>2. item \in Call /\ fut'[item] = "pending"
    BY <1>3 DEF SetCall, RegInv, IInv, TypeOK
  <2>3. \A d \in Call \ {item} : chans'[d] = chans[d] /\ fut'[d] = fut[d]
    BY <1>3 DEF SetCall, IInv, TypeOK
  <2>4. \A j \in Key, x \in Chan :
           \/ lastSet'[j][x] = item
           \/ lastSet'[j][x] = lastSet[j][x] /\ moduleStates'[j][x] = moduleStates[j][x]
    BY <1>3, <2>2 DEF SetCall, IInv, TypeOK, Image
  <2>5. wpc \in {"lock", "read", "exch"} => op'[cur] = op[cur] /\ key'[cur] = key[cur]
    BY <1>3, <2>1, WritingItem DEF SetCall, MakeCall, IInv, TypeOK, Writing
  <2>6. \A j \in Key, x \in Chan : lastSet[j][x] \in Call \cup {NoCall}
    BY DEF IInv, TypeOK
  <2> HIDE DEF item
  <2>7. ASSUME NEW j \in Key, NEW x \in Chan, Acked(j, x)'
        PROVE  /\ Acked(j, x) /\ lastSet'[j][x] = lastSet[j][x] /\ Asked(j, x)' = Asked(j, x)
               /\ moduleStates'[j][x] = moduleStates[j][x]
    BY <2>2, <2>3, <2>4, <2>6, <2>7 DEF Acked, Asked
  <2> QED
    BY <2>1, <2>5, <2>7 DEF EffectInv, Reading, LineShows
<1>4. ASSUME NEW c \in Call, PressCall(c) PROVE EffectInv'
  <2>1. UNCHANGED <<chans, lastSet, moduleStates, dev, line, cur, wpc, frame, reply>>
    BY <1>4 DEF PressCall
  <2>2. \A d \in Call \ {c} : op'[d] = op[d] /\ key'[d] = key[d] /\ fut'[d] = fut[d]
    BY <1>4 DEF PressCall, MakeCall, IInv, TypeOK
  <2>3. op[c] = "none"
    BY <1>4 DEF PressCall, MakeCall, IInv, CallInv
  <2>4. \A j \in Key, x \in Chan : lastSet[j][x] \in Call \cup {NoCall} /\ lastSet[j][x] # c
    BY <2>3, CommandAssumption DEF LastInv, IInv, TypeOK
  <2>5. wpc \in {"lock", "read", "exch"} => op'[cur] = op[cur] /\ key'[cur] = key[cur]
    BY <2>2, <2>3, WritingItem DEF Writing
  <2> QED
    BY <2>1, <2>2, <2>4, <2>5 DEF EffectInv, Acked, Asked, Reading, LineShows
<1>5. ASSUME NEW c \in Call, Unblock(c) PROVE EffectInv'
  <2>1. UNCHANGED <<op, key, chans, lastSet, moduleStates, dev, line>>
    BY <1>5 DEF Unblock, LeaveGet
  <2>2. \A d \in Call : op[d] = "set" /\ fut'[d] = "result" => fut[d] = "result"
    BY <1>5, WorkerReads DEF Unblock, LeaveGet, Settle, IInv, TypeOK
  <2>3. \A j \in Key, x \in Chan : lastSet[j][x] # NoCall => lastSet[j][x] \in Call /\ op[lastSet[j][x]] = "set"
    BY DEF LastInv, IInv, TypeOK
  <2>4. (op'[cur'] = "set" /\ wpc' \in {"lock", "exch"}) =>
           /\ op[cur] = "set" /\ wpc \in {"lock", "exch"}
           /\ cur' = cur /\ frame' = frame
    BY <1>5 DEF Unblock, LeaveGet
  <2>5. (Reading' /\ reply' # NoImage) => Reading /\ cur' = cur /\ reply' = reply
    BY <1>5 DEF Unblock, LeaveGet, Reading
  <2> QED
    BY <2>1, <2>2, <2>3, <2>4, <2>5 DEF EffectInv, Acked, Asked, LineShows
<1>6. ASSUME NEW c \in Call, GetAbandon(c) PROVE EffectInv'
  <2>1. UNCHANGED <<op, key, chans, lastSet, moduleStates, dev, line>>
    BY <1>6 DEF GetAbandon, LeaveGet
  <2>2. \A d \in Call : op[d] = "set" /\ fut'[d] = "result" => fut[d] = "result"
    BY <1>6, WorkerReads DEF GetAbandon, LeaveGet, Settle, IInv, TypeOK
  <2>3. \A j \in Key, x \in Chan : lastSet[j][x] # NoCall => lastSet[j][x] \in Call /\ op[lastSet[j][x]] = "set"
    BY DEF LastInv, IInv, TypeOK
  <2>4. (op'[cur'] = "set" /\ wpc' \in {"lock", "exch"}) =>
           /\ op[cur] = "set" /\ wpc \in {"lock", "exch"}
           /\ cur' = cur /\ frame' = frame
    BY <1>6 DEF GetAbandon, LeaveGet
  <2>5. (Reading' /\ reply' # NoImage) => Reading /\ cur' = cur /\ reply' = reply
    BY <1>6 DEF GetAbandon, LeaveGet, Reading
  <2> QED
    BY <2>1, <2>2, <2>3, <2>4, <2>5 DEF EffectInv, Acked, Asked, LineShows
<1>7. ASSUME NEW c \in Call, GetCancelBlocked(c) PROVE EffectInv'
  <2>1. UNCHANGED <<op, key, chans, lastSet, moduleStates, dev, line>>
    BY <1>7 DEF GetCancelBlocked, LeaveGet
  <2>2. \A d \in Call : op[d] = "set" /\ fut'[d] = "result" => fut[d] = "result"
    BY <1>7, WorkerReads DEF GetCancelBlocked, LeaveGet, Settle, IInv, TypeOK
  <2>3. \A j \in Key, x \in Chan : lastSet[j][x] # NoCall => lastSet[j][x] \in Call /\ op[lastSet[j][x]] = "set"
    BY DEF LastInv, IInv, TypeOK
  <2>4. (op'[cur'] = "set" /\ wpc' \in {"lock", "exch"}) =>
           /\ op[cur] = "set" /\ wpc \in {"lock", "exch"}
           /\ cur' = cur /\ frame' = frame
    BY <1>7 DEF GetCancelBlocked, LeaveGet
  <2>5. (Reading' /\ reply' # NoImage) => Reading /\ cur' = cur /\ reply' = reply
    BY <1>7 DEF GetCancelBlocked, LeaveGet, Reading
  <2> QED
    BY <2>1, <2>2, <2>3, <2>4, <2>5 DEF EffectInv, Acked, Asked, LineShows
<1>8. ASSUME NEW c \in Call, GetReturn(c) PROVE EffectInv'
  <2>1. UNCHANGED <<op, key, chans, lastSet, moduleStates, dev, line>>
    BY <1>8 DEF GetReturn, LeaveGet
  <2>2. \A d \in Call : op[d] = "set" /\ fut'[d] = "result" => fut[d] = "result"
    BY <1>8, WorkerReads DEF GetReturn, LeaveGet, Settle, IInv, TypeOK
  <2>3. \A j \in Key, x \in Chan : lastSet[j][x] # NoCall => lastSet[j][x] \in Call /\ op[lastSet[j][x]] = "set"
    BY DEF LastInv, IInv, TypeOK
  <2>4. (op'[cur'] = "set" /\ wpc' \in {"lock", "exch"}) =>
           /\ op[cur] = "set" /\ wpc \in {"lock", "exch"}
           /\ cur' = cur /\ frame' = frame
    BY <1>8 DEF GetReturn, LeaveGet
  <2>5. (Reading' /\ reply' # NoImage) => Reading /\ cur' = cur /\ reply' = reply
    BY <1>8 DEF GetReturn, LeaveGet, Reading
  <2> QED
    BY <2>1, <2>2, <2>3, <2>4, <2>5 DEF EffectInv, Acked, Asked, LineShows
<1>9. ASSUME NEW c \in Call, QueryAbandon(c) PROVE EffectInv'
  <2>1. UNCHANGED <<op, key, chans, lastSet, moduleStates, dev, line>>
    BY <1>9 DEF QueryAbandon, LeaveGet
  <2>2. \A d \in Call : op[d] = "set" /\ fut'[d] = "result" => fut[d] = "result"
    BY <1>9, WorkerReads DEF QueryAbandon, LeaveGet, Settle, IInv, TypeOK
  <2>3. \A j \in Key, x \in Chan : lastSet[j][x] # NoCall => lastSet[j][x] \in Call /\ op[lastSet[j][x]] = "set"
    BY DEF LastInv, IInv, TypeOK
  <2>4. (op'[cur'] = "set" /\ wpc' \in {"lock", "exch"}) =>
           /\ op[cur] = "set" /\ wpc \in {"lock", "exch"}
           /\ cur' = cur /\ frame' = frame
    BY <1>9 DEF QueryAbandon, LeaveGet
  <2>5. (Reading' /\ reply' # NoImage) => Reading /\ cur' = cur /\ reply' = reply
    BY <1>9 DEF QueryAbandon, LeaveGet, Reading
  <2> QED
    BY <2>1, <2>2, <2>3, <2>4, <2>5 DEF EffectInv, Acked, Asked, LineShows
<1>10. ASSUME NEW c \in Call, SetAbandon(c) PROVE EffectInv'
  <2>1. UNCHANGED <<op, key, chans, lastSet, moduleStates, dev, line>>
    BY <1>10 DEF SetAbandon, LeaveGet
  <2>2. \A d \in Call : op[d] = "set" /\ fut'[d] = "result" => fut[d] = "result"
    BY <1>10, WorkerReads DEF SetAbandon, LeaveGet, Settle, IInv, TypeOK
  <2>3. \A j \in Key, x \in Chan : lastSet[j][x] # NoCall => lastSet[j][x] \in Call /\ op[lastSet[j][x]] = "set"
    BY DEF LastInv, IInv, TypeOK
  <2>4. (op'[cur'] = "set" /\ wpc' \in {"lock", "exch"}) =>
           /\ op[cur] = "set" /\ wpc \in {"lock", "exch"}
           /\ cur' = cur /\ frame' = frame
    BY <1>10 DEF SetAbandon, LeaveGet
  <2>5. (Reading' /\ reply' # NoImage) => Reading /\ cur' = cur /\ reply' = reply
    BY <1>10 DEF SetAbandon, LeaveGet, Reading
  <2> QED
    BY <2>1, <2>2, <2>3, <2>4, <2>5 DEF EffectInv, Acked, Asked, LineShows
<1>11. ASSUME NEW c \in Call, CancelBlocked(c) PROVE EffectInv'
  <2>1. UNCHANGED <<op, key, chans, lastSet, moduleStates, dev, line>>
    BY <1>11 DEF CancelBlocked, LeaveGet
  <2>2. \A d \in Call : op[d] = "set" /\ fut'[d] = "result" => fut[d] = "result"
    BY <1>11, WorkerReads DEF CancelBlocked, LeaveGet, Settle, IInv, TypeOK
  <2>3. \A j \in Key, x \in Chan : lastSet[j][x] # NoCall => lastSet[j][x] \in Call /\ op[lastSet[j][x]] = "set"
    BY DEF LastInv, IInv, TypeOK
  <2>4. (op'[cur'] = "set" /\ wpc' \in {"lock", "exch"}) =>
           /\ op[cur] = "set" /\ wpc \in {"lock", "exch"}
           /\ cur' = cur /\ frame' = frame
    BY <1>11 DEF CancelBlocked, LeaveGet
  <2>5. (Reading' /\ reply' # NoImage) => Reading /\ cur' = cur /\ reply' = reply
    BY <1>11 DEF CancelBlocked, LeaveGet, Reading
  <2> QED
    BY <2>1, <2>2, <2>3, <2>4, <2>5 DEF EffectInv, Acked, Asked, LineShows
<1>12. ASSUME PopSkip PROVE EffectInv'
  <2>1. UNCHANGED <<op, key, chans, lastSet, moduleStates, dev, line>>
    BY <1>12 DEF PopSkip, LeaveGet
  <2>2. \A d \in Call : op[d] = "set" /\ fut'[d] = "result" => fut[d] = "result"
    BY <1>12, WorkerReads DEF PopSkip, LeaveGet, Settle, IInv, TypeOK
  <2>3. \A j \in Key, x \in Chan : lastSet[j][x] # NoCall => lastSet[j][x] \in Call /\ op[lastSet[j][x]] = "set"
    BY DEF LastInv, IInv, TypeOK
  <2>4. (op'[cur'] = "set" /\ wpc' \in {"lock", "exch"}) =>
           /\ op[cur] = "set" /\ wpc \in {"lock", "exch"}
           /\ cur' = cur /\ frame' = frame
    BY <1>12 DEF PopSkip, LeaveGet
  <2>5. (Reading' /\ reply' # NoImage) => Reading /\ cur' = cur /\ reply' = reply
    BY <1>12 DEF PopSkip, LeaveGet, Reading
  <2> QED
    BY <2>1, <2>2, <2>3, <2>4, <2>5 DEF EffectInv, Acked, Asked, LineShows
<1>13. ASSUME PopTake PROVE EffectInv'
  <2>1. UNCHANGED <<op, key, chans, lastSet, moduleStates, dev, line>>
    BY <1>13 DEF PopTake, LeaveGet
  <2>2. \A d \in Call : op[d] = "set" /\ fut'[d] = "result" => fut[d] = "result"
    BY <1>13, WorkerReads DEF PopTake, LeaveGet, Settle, IInv, TypeOK
  <2>3. \A j \in Key, x \in Chan : lastSet[j][x] # NoCall => lastSet[j][x] \in Call /\ op[lastSet[j][x]] = "set"
    BY DEF LastInv, IInv, TypeOK
  <2>4. (op'[cur'] = "set" /\ wpc' \in {"lock", "exch"}) =>
           /\ op[cur] = "set" /\ wpc \in {"lock", "exch"}
           /\ cur' = cur /\ frame' = frame
    BY <1>13 DEF PopTake, LeaveGet
  <2>5. (Reading' /\ reply' # NoImage) => Reading /\ cur' = cur /\ reply' = reply
    BY <1>13 DEF PopTake, LeaveGet, Reading
  <2> QED
    BY <2>1, <2>2, <2>3, <2>4, <2>5 DEF EffectInv, Acked, Asked, LineShows
<1>14. ASSUME WindowEnd PROVE EffectInv'
  <2>1. UNCHANGED <<op, key, fut, chans, lastSet, dev, line, cur, reply>>
    BY <1>14 DEF WindowEnd
  <2>2. cur \in Call /\ key[cur] \in Key /\ op[cur] = "set" /\ wpc = "window" /\ cur # NoCall
    BY <1>14, WritingItem, CommandAssumption DEF WindowEnd
  <2>3. ~Reading'
    BY <1>14, <2>2 DEF WindowEnd, BuildFrame, Reading
  <2>4. ASSUME NEW k \in Key, NEW ch \in Chan, Acked(k, ch)
        PROVE  /\ moduleStates'[k][ch] = Asked(k, ch)
               /\ (wpc' \in {"lock", "exch"} /\ key[cur] = k) => frame'[ch] = Asked(k, ch)
    <3>1. moduleStates[k][ch] = Asked(k, ch) /\ (key[cur] = k => chans[cur][ch] = NoVal)
      BY <2>2, <2>4, AckedAlone DEF EffectInv
    <3> QED
      BY <1>14, <2>2, <3>1 DEF WindowEnd, BuildFrame, Overlay, IInv, TypeOK
  <2> QED
    BY <2>1, <2>2, <2>3, <2>4 DEF EffectInv, Acked, Asked, LineShows
<1>15. ASSUME Acquire PROVE EffectInv'
  <2>1. UNCHANGED <<op, key, chans, lastSet, moduleStates, dev, line>>
    BY <1>15 DEF Acquire, LeaveGet
  <2>2. \A d \in Call : op[d] = "set" /\ fut'[d] = "result" => fut[d] = "result"
    BY <1>15, WorkerReads DEF Acquire, LeaveGet, Settle, IInv, TypeOK
  <2>3. \A j \in Key, x \in Chan : lastSet[j][x] # NoCall => lastSet[j][x] \in Call /\ op[lastSet[j][x]] = "set"
    BY DEF LastInv, IInv, TypeOK
  <2>4. (op'[cur'] = "set" /\ wpc' \in {"lock", "exch"}) =>
           /\ op[cur] = "set" /\ wpc \in {"lock", "exch"}
           /\ cur' = cur /\ frame' = frame
    BY <1>15 DEF Acquire, LeaveGet
  <2>5. (Reading' /\ reply' # NoImage) => Reading /\ cur' = cur /\ reply' = reply
    BY <1>15 DEF Acquire, LeaveGet, Reading
  <2> QED
    BY <2>1, <2>2, <2>3, <2>4, <2>5 DEF EffectInv, Acked, Asked, LineShows
<1>16. ASSUME ReadDone PROVE EffectInv'
  <2>1. UNCHANGED <<op, key, chans, lastSet, dev, line, cur>> /\ wpc' = "lock" /\ wpc = "read"
    BY <1>16 DEF ReadDone, BuildFrame
  <2>2. cur \in Call /\ key[cur] \in Key /\ op[cur] = "set" /\ cur # NoCall
    BY <1>16, WritingItem, CommandAssumption DEF ReadDone, Writing
  <2>3. ~Reading'
    BY <2>1 DEF Reading
  <2>4. ASSUME NEW k \in Key, NEW ch \in Chan, Acked(k, ch)
        PROVE  /\ moduleStates'[k][ch] = Asked(k, ch)
               /\ key[cur] = k => frame'[ch] = Asked(k, ch)
    <3>1. moduleStates[k][ch] = Asked(k, ch) /\ (key[cur] = k => chans[cur][ch] = NoVal)
      BY <2>1, <2>2, <2>4, AckedAlone DEF EffectInv
    <3>2. key[cur] = k => ApplyGroupState(k, reply)[ch] = Asked(k, ch)
      BY <1>16, <2>1, <2>4, AckedStored DEF ReadDone, EffectInv, Reading
    <3> QED
      BY <1>16, <2>2, <3>1, <3>2 DEF ReadDone, BuildFrame, Overlay, IInv, TypeOK
  <2>5. \A d \in Call : op[d] = "set" /\ fut'[d] = "result" => fut[d] = "result"
    BY <1>16, ReadersOnly, <2>2 DEF ReadDone, Settle, IInv, TypeOK
  <2>6. \A j \in Key, x \in Chan : lastSet[j][x] # NoCall => lastSet[j][x] \in Call /\ op[lastSet[j][x]] = "set"
    BY DEF LastInv, IInv, TypeOK
  <2> QED
    BY <2>1, <2>3, <2>4, <2>5, <2>6 DEF EffectInv, Acked, Asked, LineShows
<1>17. ASSUME ReadFail PROVE EffectInv'
  <2>1. UNCHANGED <<op, key, fut, chans, lastSet, dev, line, cur>> /\ wpc' = "lock" /\ wpc = "read"
    BY <1>17 DEF ReadFail, BuildFrame
  <2>2. cur \in Call /\ key[cur] \in Key /\ op[cur] = "set" /\ cur # NoCall
    BY <1>17, WritingItem, CommandAssumption DEF ReadFail, Writing
  <2>3. ~Reading'
    BY <2>1 DEF Reading
  <2>4. ASSUME NEW k \in Key, NEW ch \in Chan, Acked(k, ch)
        PROVE  /\ moduleStates'[k][ch] = Asked(k, ch)
               /\ key[cur] = k => frame'[ch] = Asked(k, ch)
    <3>1. moduleStates[k][ch] = Asked(k, ch) /\ (key[cur] = k => chans[cur][ch] = NoVal)
      BY <2>1, <2>2, <2>4, AckedAlone DEF EffectInv
    <3> QED
      BY <1>17, <2>2, <3>1 DEF ReadFail, BuildFrame, Overlay, IInv, TypeOK
  <2> QED
    BY <2>1, <2>3, <2>4 DEF EffectInv, Acked, Asked, LineShows
<1>18. ASSUME GetAnswered PROVE EffectInv'
  <2>1. /\ UNCHANGED <<op, key, chans, lastSet, dev, line, cur>> /\ wpc' = "post"
        /\ Reading /\ reply # NoImage
    BY <1>18 DEF GetAnswered, Reading
  <2>2. ~Reading'
    BY <2>1 DEF Reading
  <2>3. ASSUME NEW k \in Key, NEW ch \in Chan, Acked(k, ch)
        PROVE  moduleStates'[k][ch] = Asked(k, ch)
    <3>1. moduleStates[k][ch] = Asked(k, ch)
      BY <2>3 DEF EffectInv
    <3>2. key[cur] = k => ApplyGroupState(k, reply)[ch] = Asked(k, ch)
      BY <2>1, <2>3, AckedStored DEF EffectInv
    <3> QED
      BY <1>18, <3>1, <3>2 DEF GetAnswered, IInv, TypeOK
  <2>4. \A d \in Call : op[d] = "set" /\ fut'[d] = "result" => fut[d] = "result"
    BY <1>18, WorkerReads DEF GetAnswered
  <2>5. \A j \in Key, x \in Chan : lastSet[j][x] # NoCall => lastSet[j][x] \in Call /\ op[lastSet[j][x]] = "set"
    BY DEF LastInv, IInv, TypeOK
  <2> QED
    BY <2>1, <2>2, <2>3, <2>4, <2>5 DEF EffectInv, Acked, Asked, LineShows
<1>19. ASSUME OtherAnswered PROVE EffectInv'
  <2>1. /\ UNCHANGED <<op, key, chans, lastSet, moduleStates, dev, line, cur>> /\ wpc' = "post"
        /\ wpc = "exch" /\ reply # NoImage /\ cur \in Call
    BY <1>19, WritingItem DEF OtherAnswered, Writing
  <2>2. ~Reading'
    BY <2>1 DEF Reading
  <2>3. ASSUME NEW k \in Key, NEW ch \in Chan, Acked(k, ch)'
        PROVE  /\ dev[k][ch] = Asked(k, ch) /\ moduleStates[k][ch] = Asked(k, ch)
               /\ LineShows(1, k, ch, Asked(k, ch))
    <3>1. /\ lastSet[k][ch] \in Call /\ op[lastSet[k][ch]] = "set" /\ key[lastSet[k][ch]] = k
          /\ chans[lastSet[k][ch]][ch] # NoVal
      BY <2>1, <2>3 DEF Acked, LastInv, IInv, TypeOK
    <3>2. CASE lastSet[k][ch] # cur
      <4>1. Acked(k, ch)
        BY <1>19, <2>1, <2>3, <3>1, <3>2, WorkerReads DEF Acked
      <4> QED
        BY <4>1 DEF EffectInv
    <3>3. CASE lastSet[k][ch] = cur
      <4>1. dev[k][ch] = chans[cur][ch] /\ LineShows(1, k, ch, chans[cur][ch])
        BY <2>1, <3>1, <3>3 DEF WireInv
      <4>2. writingSets[k] = chans[cur]
        BY <2>1, <3>1, <3>3 DEF SendInv, Writing
      <4>3. PendingWrites(k)[ch] = NoVal
        BY <2>1, <3>1, <3>3, CommandAssumption DEF LastInv, PendInv
      <4>4. moduleStates[k][ch] = chans[cur][ch]
        BY <2>1, <3>1, <3>3, <4>2, <4>3 DEF BufferShowsSent
      <4> QED
        BY <3>3, <4>1, <4>4 DEF Asked
    <3> QED
      BY <3>2, <3>3
  <2> QED
    BY <2>1, <2>2, <2>3 DEF EffectInv, Asked, LineShows
<1>20. ASSUME ExchangeFails PROVE EffectInv'
  <2>1. UNCHANGED <<op, key, chans, lastSet, moduleStates, dev, line>>
    BY <1>20 DEF ExchangeFails, LeaveGet
  <2>2. \A d \in Call : op[d] = "set" /\ fut'[d] = "result" => fut[d] = "result"
    BY <1>20, WorkerReads DEF ExchangeFails, LeaveGet, Settle, IInv, TypeOK
  <2>3. \A j \in Key, x \in Chan : lastSet[j][x] # NoCall => lastSet[j][x] \in Call /\ op[lastSet[j][x]] = "set"
    BY DEF LastInv, IInv, TypeOK
  <2>4. (op'[cur'] = "set" /\ wpc' \in {"lock", "exch"}) =>
           /\ op[cur] = "set" /\ wpc \in {"lock", "exch"}
           /\ cur' = cur /\ frame' = frame
    BY <1>20 DEF ExchangeFails, LeaveGet
  <2>5. (Reading' /\ reply' # NoImage) => Reading /\ cur' = cur /\ reply' = reply
    BY <1>20 DEF ExchangeFails, LeaveGet, Reading
  <2> QED
    BY <2>1, <2>2, <2>3, <2>4, <2>5 DEF EffectInv, Acked, Asked, LineShows
<1>21. ASSUME PressSent PROVE EffectInv'
  <2>1. UNCHANGED <<op, key, chans, lastSet, moduleStates, dev, line>>
    BY <1>21 DEF PressSent, LeaveGet
  <2>2. \A d \in Call : op[d] = "set" /\ fut'[d] = "result" => fut[d] = "result"
    BY <1>21, WorkerReads DEF PressSent, LeaveGet, Settle, IInv, TypeOK
  <2>3. \A j \in Key, x \in Chan : lastSet[j][x] # NoCall => lastSet[j][x] \in Call /\ op[lastSet[j][x]] = "set"
    BY DEF LastInv, IInv, TypeOK
  <2>4. (op'[cur'] = "set" /\ wpc' \in {"lock", "exch"}) =>
           /\ op[cur] = "set" /\ wpc \in {"lock", "exch"}
           /\ cur' = cur /\ frame' = frame
    BY <1>21 DEF PressSent, LeaveGet
  <2>5. (Reading' /\ reply' # NoImage) => Reading /\ cur' = cur /\ reply' = reply
    BY <1>21 DEF PressSent, LeaveGet, Reading
  <2> QED
    BY <2>1, <2>2, <2>3, <2>4, <2>5 DEF EffectInv, Acked, Asked, LineShows
<1>22. ASSUME PostDone PROVE EffectInv'
  <2>1. UNCHANGED <<op, key, chans, lastSet, moduleStates, dev, line>>
    BY <1>22 DEF PostDone, LeaveGet
  <2>2. \A d \in Call : op[d] = "set" /\ fut'[d] = "result" => fut[d] = "result"
    BY <1>22, WorkerReads DEF PostDone, LeaveGet, Settle, IInv, TypeOK
  <2>3. \A j \in Key, x \in Chan : lastSet[j][x] # NoCall => lastSet[j][x] \in Call /\ op[lastSet[j][x]] = "set"
    BY DEF LastInv, IInv, TypeOK
  <2>4. (op'[cur'] = "set" /\ wpc' \in {"lock", "exch"}) =>
           /\ op[cur] = "set" /\ wpc \in {"lock", "exch"}
           /\ cur' = cur /\ frame' = frame
    BY <1>22 DEF PostDone, LeaveGet
  <2>5. (Reading' /\ reply' # NoImage) => Reading /\ cur' = cur /\ reply' = reply
    BY <1>22 DEF PostDone, LeaveGet, Reading
  <2> QED
    BY <2>1, <2>2, <2>3, <2>4, <2>5 DEF EffectInv, Acked, Asked, LineShows
<1>23. ASSUME Start PROVE EffectInv'
  <2>1. UNCHANGED <<op, key, chans, lastSet, moduleStates, dev, line>>
    BY <1>23 DEF Start, LeaveGet
  <2>2. \A d \in Call : op[d] = "set" /\ fut'[d] = "result" => fut[d] = "result"
    BY <1>23, WorkerReads DEF Start, LeaveGet, Settle, IInv, TypeOK
  <2>3. \A j \in Key, x \in Chan : lastSet[j][x] # NoCall => lastSet[j][x] \in Call /\ op[lastSet[j][x]] = "set"
    BY DEF LastInv, IInv, TypeOK
  <2>4. (op'[cur'] = "set" /\ wpc' \in {"lock", "exch"}) =>
           /\ op[cur] = "set" /\ wpc \in {"lock", "exch"}
           /\ cur' = cur /\ frame' = frame
    BY <1>23 DEF Start, LeaveGet
  <2>5. (Reading' /\ reply' # NoImage) => Reading /\ cur' = cur /\ reply' = reply
    BY <1>23 DEF Start, LeaveGet, Reading
  <2> QED
    BY <2>1, <2>2, <2>3, <2>4, <2>5 DEF EffectInv, Acked, Asked, LineShows
<1>24. ASSUME StopBegin PROVE EffectInv'
  BY <1>24 DEF StopBegin, RegInv
<1>25. ASSUME WorkerCancelled PROVE EffectInv'
  BY <1>25 DEF WorkerCancelled, RegInv
<1>26. ASSUME StopFinish PROVE EffectInv'
  BY <1>26 DEF StopFinish, RegInv
<1>27. ASSUME Reset PROVE EffectInv'
  BY <1>27 DEF Reset, RegInv
<1>28. ASSUME DeviceTakes PROVE EffectInv'
  <2>1. /\ UNCHANGED <<op, key, fut, chans, lastSet, moduleStates, cur, wpc, frame, reply>>
        /\ reply = NoImage
    BY <1>28 DEF DeviceTakes
  <2>2. cur \in Call /\ cur # NoCall /\ wpc \in {"read", "exch"}
        /\ op[cur] \in {"get", "set", "query"} /\ key[cur] \in Key
    BY <1>28, WritingItem, CommandAssumption DEF DeviceTakes, Writing, IInv, TypeOK, Ops
  <2>3. ASSUME NEW k \in Key, NEW ch \in Chan, Acked(k, ch)
        PROVE  dev'[k][ch] = Asked(k, ch)
    <3>1. dev[k][ch] = Asked(k, ch)
          /\ (op[cur] = "set" /\ wpc = "exch" /\ key[cur] = k => frame[ch] = Asked(k, ch))
      BY <2>2, <2>3 DEF EffectInv
    <3> QED
      BY <1>28, <2>2, <3>1 DEF DeviceTakes, IInv, TypeOK
  <2>4. ASSUME NEW k \in Key, NEW ch \in Chan, Acked(k, ch)
        PROVE  \A x \in DOMAIN line' : (line'[x].kind # "done" /\ line'[x].key = k)
                                          => line'[x].img[ch] = Asked(k, ch)
    <3>1. \A x \in DOMAIN line : (line[x].kind # "done" /\ line[x].key = k)
                                          => line[x].img[ch] = Asked(k, ch)
      BY <2>4, LineNat DEF EffectInv, LineShows
    <3>2. dev[k][ch] = Asked(k, ch)
      BY <2>4 DEF EffectInv
    <3>3. CASE line' = line
      BY <3>1, <3>3
    <3>4. CASE line' = Append(line, StateFrame("state", cur, key[cur]))
      BY <2>2, <3>1, <3>2, <3>4, SentFrame, LineAppend DEF StateFrame
    <3>5. CASE line' = Append(line, DoneFrame(cur, key[cur]))
      BY <2>2, <3>1, <3>5, SentFrame, LineAppend DEF DoneFrame
    <3> QED
      BY <1>28, <3>3, <3>4, <3>5 DEF DeviceTakes
  <2> QED
    BY <2>1, <2>3, <2>4 DEF EffectInv, Acked, Asked, Reading, LineShows
<1>29. ASSUME Deliver PROVE EffectInv'
  <2> DEFINE m == Head(line)
  <2>1. /\ UNCHANGED <<op, key, chans, lastSet, dev, cur, wpc, frame>>
        /\ line # <<>> /\ line' = Tail(line)
    BY <1>29 DEF Deliver
  <2>2. /\ Len(line) \in Nat \ {0} /\ DOMAIN line = 1 .. Len(line)
        /\ DOMAIN line' = 1 .. (Len(line) - 1) /\ m = line[1]
        /\ \A i \in DOMAIN line' : i + 1 \in DOMAIN line /\ line'[i] = line[i + 1]
    BY <2>1, LineTail
  <2>3. /\ m.kind # "done" => m.key \in Key
        /\ m.kind = "state" => m.key = key[m.who]
        /\ m.kind = "done" => op[m.who] \in {"set", "query"}
    BY <2>1, HeadFrame
  <2>4. \/ UNCHANGED moduleStates
        \/ /\ m.kind # "done"
           /\ moduleStates' = [moduleStates EXCEPT ![m.key] = ApplyGroupState(m.key, m.img)]
    BY <1>29 DEF Deliver
  <2>5. reply' = IF Awaited(m) THEN m.img ELSE reply
    BY <1>29 DEF Deliver
  <2> HIDE DEF m
  <2>6. (Reading /\ Awaited(m)) => m.kind = "state" /\ m.key = key[cur]
    <3>1. wpc = "read" => op[cur] = "set"
      BY WritingItem
    <3> QED
      BY <2>3 DEF Reading, Awaited
  <2>7. \A d \in Call : op[d] = "set" => fut'[d] = fut[d]
    BY <1>29, DeliverReads
  <2>8. ASSUME NEW k \in Key, NEW ch \in Chan, Acked(k, ch)'
        PROVE  Acked(k, ch) /\ Asked(k, ch)' = Asked(k, ch)
    <3>1. lastSet[k][ch] \in Call /\ op[lastSet[k][ch]] = "set"
      BY <2>1, <2>8 DEF Acked, LastInv, IInv, TypeOK
    <3> QED
      BY <2>1, <2>7, <2>8, <3>1 DEF Acked, Asked
  <2>9. ASSUME NEW k \in Key, NEW ch \in Chan, Acked(k, ch)
        PROVE  /\ moduleStates'[k][ch] = Asked(k, ch)
               /\ (Reading /\ reply' # NoImage /\ key[cur] = k) => reply'[ch] = Asked(k, ch)
               /\ \A x \in DOMAIN line' : (line'[x].kind # "done" /\ line'[x].key = k)
                                             => line'[x].img[ch] = Asked(k, ch)
    <3>1. \A x \in DOMAIN line : (line[x].kind # "done" /\ line[x].key = k)
                                          => line[x].img[ch] = Asked(k, ch)
      BY <2>9, LineNat DEF EffectInv, LineShows
    <3>2. (m.kind # "done" /\ m.key = k) => m.img[ch] = Asked(k, ch)
      BY <2>2, <3>1
    <3>3. (m.kind # "done" /\ m.key = k) => ApplyGroupState(k, m.img)[ch] = Asked(k, ch)
      BY <2>9, <3>2, AckedStored
    <3>4. moduleStates[k][ch] = Asked(k, ch)
      BY <2>9 DEF EffectInv
    <3>5. moduleStates'[k][ch] = Asked(k, ch)
      BY <2>4, <3>3, <3>4 DEF IInv, TypeOK
    <3>6. (Reading /\ reply' # NoImage /\ key[cur] = k) => reply'[ch] = Asked(k, ch)
      BY <2>5, <2>6, <2>9, <3>2 DEF EffectInv
    <3> QED
      BY <2>2, <3>1, <3>5, <3>6
  <2> QED
    BY <2>1, <2>8, <2>9 DEF EffectInv, Reading, LineShows
<1>30. ASSUME NEW k \in Key, FeedbackPush(k) PROVE EffectInv'
  <2>1. /\ UNCHANGED <<op, key, fut, chans, lastSet, moduleStates, dev, cur, wpc, frame, reply>>
        /\ line' = Append(line, StateFrame("push", NoCall, k))
    BY <1>30 DEF FeedbackPush
  <2>2. ASSUME NEW j \in Key, NEW ch \in Chan, Acked(j, ch)
        PROVE  \A x \in DOMAIN line' : (line'[x].kind # "done" /\ line'[x].key = j)
                                          => line'[x].img[ch] = Asked(j, ch)
    <3>1. \A x \in DOMAIN line : (line[x].kind # "done" /\ line[x].key = j)
                                          => line[x].img[ch] = Asked(j, ch)
      BY <2>2, LineNat DEF EffectInv, LineShows
    <3>2. dev[j][ch] = Asked(j, ch)
      BY <2>2 DEF EffectInv
    <3> QED
      BY <2>1, <3>1, <3>2, SentFrame, LineAppend DEF StateFrame
  <2> QED
    BY <2>1, <2>2 DEF EffectInv, Acked, Asked, Reading, LineShows
<1>31. ASSUME NEW k \in Key, NEW ch \in Chan, NEW v \in Val, Wall(k, ch, v) PROVE EffectInv'
  <2>1. UNCHANGED <<op, key, fut, chans, moduleStates, line, cur, wpc, frame, reply>>
    BY <1>31 DEF Wall
  <2>2. \A j \in Key, x \in Chan : \/ lastSet'[j][x] = NoCall
                                   \/ lastSet'[j][x] = lastSet[j][x] /\ dev'[j][x] = dev[j][x]
    BY <1>31 DEF Wall, IInv, TypeOK, Image
  <2> QED
    BY <2>1, <2>2 DEF EffectInv, Acked, Asked, Reading, LineShows
<1>32. ASSUME ScanAcquire \/ ScanRelease
      PROVE  EffectInv'
  BY <1>32 DEF ScanAcquire, ScanRelease, EffectInv, Acked, Asked, Reading, LineShows
<1>33. ASSUME NEW k \in Key, Age(k)
      PROVE  EffectInv'
  BY <1>33 DEF Age, EffectInv, Acked, Asked, Reading, LineShows
<1>34. CASE UNCHANGED vars
  BY <1>34 DEF EffectInv, Acked, Asked, Reading, LineShows
<1> QED
  BY <1>1, <1>2, <1>3, <1>4, <1>5, <1>6, <1>7, <1>8, <1>9, <1>10, <1>11, <1>12, <1>13,
     <1>14, <1>15, <1>16, <1>17, <1>18, <1>19, <1>20, <1>21, <1>22, <1>23, <1>24, <1>25,
     <1>26, <1>27, <1>28, <1>29, <1>30, <1>31, <1>32, <1>33, <1>34 DEF Next, CallStep,
     WorkerStep, LifecycleStep, EnvStep

\* _process_commands: an acknowledged write that nothing later asked to change
\* (no newer request, nobody at the wall) is what the output shows, as long as
\* the backlog is never dropped (stop, reset).
THEOREM AckedInEffect ==
    ASSUME HostOps \cap {"stop", "reset"} = {}
    PROVE  Spec => []AckedWriteInEffect
<1> DEFINE WInv == /\ LineInv /\ PendInv /\ SendInv /\ RegInv /\ LastInv /\ WireInv
                   /\ BufferShowsSent /\ EffectInv
<1>1. Init => WInv
  <2> SUFFICES ASSUME Init PROVE WInv
    OBVIOUS
  <2>1. line = <<>> /\ \A k \in Key, ch \in Chan : lastSet[k][ch] = NoCall
    BY DEF Init
  <2>2. LineInv
    BY <2>1 DEF LineInv
  <2>3. PendInv /\ SendInv /\ RegInv /\ BufferShowsSent /\ WireInv
    BY CommandAssumption DEF Init, PendInv, SendInv, RegInv, BufferShowsSent, WireInv, Writing
  <2>4. LastInv
    BY <2>1 DEF Init, LastInv, PendingWrites, NoWrites
  <2>5. EffectInv
    BY <2>1 DEF EffectInv, Acked
  <2> QED
    BY <2>2, <2>3, <2>4, <2>5
<1>2. IInv /\ WInv /\ [Next]_vars => WInv'
  BY StepLine, StepPend, StepSend, StepReg, StepLast, StepWire, StepShows, StepEffect
<1>3. WInv => AckedWriteInEffect
  BY DEF EffectInv, Acked, Asked, AckedWriteInEffect
<1> QED
  BY <1>1, <1>2, <1>3, Inductive, PTL DEF Spec

-----------------------------------------------------------------------------
(* What a write keeps of the outputs nobody asked to change. *)

\* The worker was handed an answer it has not stored yet.
Unstored(k) == Reading /\ reply # NoImage /\ key[cur] = k

\* What is reported of an output no write is about to change is what the buffer
\* shows, or will show once the worker stores the answer it was handed.
NewsInv ==
    \A k \in Key, ch \in Chan : reported[k][ch] # NoVal =>
        /\ PendingWrites(k)[ch] = NoVal /\ writingSets[k][ch] = NoVal
        /\ Unstored(k) => reply[ch] = reported[k][ch]
        /\ HasFeedback \/ ~Unstored(k) => moduleStates[k][ch] = reported[k][ch]

\* Where nobody else asks, the line holds what callers asked for, in the order
\* the worker served them: behind an answer to it nothing older comes.
OrderInv ==
    /\ \A i \in DOMAIN line :
          /\ line[i].kind # "push"
          /\ line[i].kind = "state" =>
                \/ loc[line[i].who] = "gone"
                \/ cur = line[i].who /\ wpc \in {"read", "lock", "exch", "post"}
    /\ cur \in Call => \A i, j \in DOMAIN line : i < j /\ line[i].who = cur => line[j].who = cur
    /\ Reading /\ reply # NoImage => \A i \in DOMAIN line : line[i].who = cur

\* A read still to be popped owns its group's dedup key and was not given up.
OwnerInv ==
    \A c \in Call : op[c] = "get" /\ loc[c] \in {"put", "queue"} =>
        queuedGetKeys[key[c]] = c /\ fut[c] # "cancelled"

\* Every read has a future; without a Feedback Module one on the wire has a
\* caller past the put waiting, for whom its answer is stored.
ReaderInv ==
    /\ \A c \in Call : op[c] = "get" => fut[c] # "none"
    /\ ~HasFeedback => OwnerInv
    /\ ~HasFeedback /\ wpc \in {"lock", "exch"} /\ op[cur] = "get" =>
          \E c \in {cur} \cup pendingGetFutures[key[cur]] : fut[c] = "pending" /\ loc[c] # "put"

\* What the environment must not do: drop the backlog, or make modules report
\* what nobody asked for; and without a Feedback Module callers wait to the end,
\* unless they are cancelled while suspended in put.
Undisturbed ==
    /\ HostOps \cap {"stop", "reset", "push"} = {}
    /\ HasFeedback \/ "abandon" \notin HostOps

\* Steps that touch neither the line nor the worker keep the line's order.
LEMMA OrderKept ==
    ASSUME IInv, LineInv, OrderInv, line' = line, cur' = cur,
           \A d \in Call : loc[d] = "gone" => loc'[d] = "gone",
           wpc \in {"read", "lock", "exch", "post"} => wpc' \in {"read", "lock", "exch", "post"},
           Reading' /\ reply' # NoImage => Reading /\ reply # NoImage
    PROVE  OrderInv'
<1>1. \A i \in DOMAIN line : line[i].kind = "state" => line[i].who \in Call
  BY DEF LineInv
<1>2. \A i \in DOMAIN line' :
         /\ line'[i].kind # "push"
         /\ line'[i].kind = "state" =>
               \/ loc'[line'[i].who] = "gone"
               \/ cur' = line'[i].who /\ wpc' \in {"read", "lock", "exch", "post"}
  BY <1>1 DEF OrderInv
<1>3. cur' \in Call => \A i, j \in DOMAIN line' : i < j /\ line'[i].who = cur' => line'[j].who = cur'
  BY DEF OrderInv
<1>4. Reading' /\ reply' # NoImage => \A i \in DOMAIN line' : line'[i].who = cur'
  BY DEF OrderInv
<1> QED
  BY <1>2, <1>3, <1>4 DEF OrderInv

\* A call whose group is known keeps it, and what it asked for.
LEMMA CallsKept ==
    ASSUME IInv, [Next]_vars, NEW c \in Call, op[c] # "none"
    PROVE  op'[c] = op[c] /\ key'[c] = key[c]
<1> USE DEF vars, callVars, getVars, setVars, bufVars, workVars, extVars, histVars
<1>1. caller[c] # "idle"
  BY DEF IInv, CallInv
<1>2. ASSUME NEW d \in Call, NEW what, NEW k, MakeCall(d, what, k)
      PROVE  op'[c] = op[c] /\ key'[c] = key[c]
  BY <1>1, <1>2 DEF MakeCall, IInv, TypeOK
<1>3. CASE CallStep
  <2>1. ASSUME NEW d \in Call, NEW k \in Key,
               GetCall(d, k) \/ QueryCall(d, k) \/ \E ch \in Chan, v \in Val : SetCall(d, k, ch, v)
        PROVE  op'[c] = op[c] /\ key'[c] = key[c]
    BY <1>2, <2>1 DEF GetCall, QueryCall, SetCall
  <2>2. ASSUME NEW d \in Call, PressCall(d)
        PROVE  op'[c] = op[c] /\ key'[c] = key[c]
    BY <1>2, <2>2 DEF PressCall
  <2>3. ASSUME NEW d \in Call,
               \/ Unblock(d) \/ GetAbandon(d) \/ GetCancelBlocked(d) \/ GetReturn(d)
               \/ QueryAbandon(d) \/ SetAbandon(d) \/ CancelBlocked(d)
        PROVE  op'[c] = op[c] /\ key'[c] = key[c]
    BY <2>3 DEF Unblock, GetAbandon, GetCancelBlocked, GetReturn, QueryAbandon, SetAbandon,
       CancelBlocked, LeaveGet
  <2> QED
    BY <1>3, <2>1, <2>2, <2>3 DEF CallStep
<1>4. CASE WorkerStep
  BY <1>4 DEF WorkerStep, PopSkip, PopTake, WindowEnd, Acquire, ReadDone, ReadFail, GetAnswered,
     OtherAnswered, ExchangeFails, PressSent, PostDone
<1>5. CASE LifecycleStep
  BY <1>5 DEF LifecycleStep, Start, StopBegin, WorkerCancelled, StopFinish, Reset
<1>6. CASE EnvStep
  BY <1>6 DEF EnvStep, ScanAcquire, ScanRelease, DeviceTakes, Deliver, FeedbackPush, Age, Wall
<1>7. CASE UNCHANGED vars
  BY <1>7
<1> QED
  BY <1>3, <1>4, <1>5, <1>6, <1>7 DEF Next

\* The line's order is kept where nobody else asks.
LEMMA StepOrder ==
    IInv /\ LineInv /\ RegInv /\ OrderInv /\ Undisturbed /\ [Next]_vars => OrderInv'
<1> SUFFICES ASSUME IInv /\ LineInv /\ RegInv /\ OrderInv /\ Undisturbed, [Next]_vars
             PROVE  OrderInv'
  OBVIOUS
<1> USE DEF vars, callVars, getVars, setVars, bufVars, workVars, extVars, histVars
<1> DEFINE W == {"read", "lock", "exch", "post"}
<1>1. /\ \A c \in Call : op[c] # "none" => op'[c] = op[c] /\ key'[c] = key[c]
      /\ wpc \in Writing => cur \in Call /\ op[cur] # "none"
      /\ \A c \in Call : op[c] = "none" => loc[c] = "none"
  BY CallsKept, WritingItem DEF IInv, CallInv
<1>2. Reading => cur \in Call /\ op'[cur] = op[cur]
  BY <1>1 DEF Reading, Writing
<1>3. ASSUME UNCHANGED <<line, cur, wpc, reply>>, \A d \in Call : loc[d] = "gone" => loc'[d] = "gone"
      PROVE  OrderInv'
  <2>1. Reading' => Reading
    <3>1. CASE wpc = "read"
      BY <3>1 DEF Reading
    <3>2. CASE wpc = "exch"
      BY <1>1, <1>3, <3>2 DEF Reading, Writing
    <3> QED
      BY <1>3, <3>1, <3>2 DEF Reading
  <2> QED
    BY <1>3, <2>1, OrderKept
<1>4. CASE CallStep
  <2>1. UNCHANGED <<line, cur, wpc, reply>>
    <3>1. ASSUME NEW c \in Call, NEW k \in Key,
                 GetCall(c, k) \/ QueryCall(c, k) \/ \E ch \in Chan, v \in Val : SetCall(c, k, ch, v)
          PROVE  UNCHANGED <<line, cur, wpc, reply>>
      BY <3>1 DEF GetCall, QueryCall, SetCall
    <3>2. ASSUME NEW c \in Call,
                 \/ PressCall(c) \/ Unblock(c) \/ GetAbandon(c) \/ GetCancelBlocked(c)
                 \/ GetReturn(c) \/ QueryAbandon(c) \/ SetAbandon(c) \/ CancelBlocked(c)
          PROVE  UNCHANGED <<line, cur, wpc, reply>>
      BY <3>2 DEF PressCall, Unblock, GetAbandon, GetCancelBlocked, GetReturn, QueryAbandon,
         SetAbandon, CancelBlocked, LeaveGet
    <3> QED
      BY <1>4, <3>1, <3>2 DEF CallStep
  <2>2. ASSUME NEW c \in Call, Put(c), loc[c] # "gone"
        PROVE  \A d \in Call : loc[d] = "gone" => loc'[d] = "gone"
    BY <2>2 DEF Put, IInv, TypeOK
  <2>3. ASSUME NEW c \in Call, NEW what, NEW k, MakeCall(c, what, k)
        PROVE  loc[c] # "gone"
    BY <2>3 DEF MakeCall, IInv, CallInv
  <2>4. \A d \in Call : loc[d] = "gone" => loc'[d] = "gone"
    <3>1. ASSUME NEW c \in Call, NEW k \in Key,
                 GetCall(c, k) \/ QueryCall(c, k) \/ \E ch \in Chan, v \in Val : SetCall(c, k, ch, v)
          PROVE  \A d \in Call : loc[d] = "gone" => loc'[d] = "gone"
      <4>1. loc' = loc \/ (Put(c) /\ loc[c] # "gone")
        BY <2>3, <3>1 DEF GetCall, QueryCall, SetCall
      <4> QED
        BY <2>2, <4>1
    <3>2. ASSUME NEW c \in Call, PressCall(c) \/ Unblock(c)
          PROVE  \A d \in Call : loc[d] = "gone" => loc'[d] = "gone"
      <4>1. Put(c) /\ loc[c] # "gone"
        BY <2>3, <3>2 DEF PressCall, Unblock
      <4> QED
        BY <2>2, <4>1
    <3>3. ASSUME NEW c \in Call,
                 \/ GetAbandon(c) \/ GetCancelBlocked(c) \/ GetReturn(c)
                 \/ QueryAbandon(c) \/ SetAbandon(c) \/ CancelBlocked(c)
          PROVE  \A d \in Call : loc[d] = "gone" => loc'[d] = "gone"
      BY <3>3 DEF GetAbandon, GetCancelBlocked, GetReturn, QueryAbandon, SetAbandon,
         CancelBlocked, IInv, TypeOK
    <3> QED
      BY <1>4, <3>1, <3>2, <3>3 DEF CallStep
  <2> QED
    BY <1>3, <2>1, <2>4
<1>5. ASSUME PopSkip PROVE OrderInv'
  <2>1. UNCHANGED <<line, cur, wpc, reply>>
    BY <1>5 DEF PopSkip
  <2>2. \A d \in Call : loc[d] = "gone" => loc'[d] = "gone"
    BY <1>5 DEF PopSkip, IInv, TypeOK
  <2> QED
    BY <1>3, <2>1, <2>2
<1>6. ASSUME PopTake PROVE OrderInv'
  <2> DEFINE c == Head(commandQueue)
  <2>1. c \in Call /\ loc[c] = "queue" /\ cur = NoCall /\ wpc = "idle"
    BY <1>6, PopItem, WritingItem DEF PopTake
  <2>2. /\ line' = line /\ cur' = c /\ wpc' \in {"window", "lock"}
        /\ loc' = [loc EXCEPT ![c] = "worker"]
    BY <1>6 DEF PopTake
  <2>3. ~Reading'
    BY <2>2 DEF Reading
  <2>4. \A i \in DOMAIN line : line[i].who # c /\
           (line[i].kind = "state" => line[i].who \in Call /\ loc'[line[i].who] = "gone")
    <3> TAKE i \in DOMAIN line
    <3>1. line[i].kind \in {"state", "done"}
      <4>1. line[i] \in Frames
        BY DEF IInv, TypeOK
      <4> QED
        BY <4>1 DEF OrderInv, Frames
    <3>2. line[i].who \in Call /\ loc[line[i].who] = "gone"
      BY <2>1, <3>1, CommandAssumption DEF LineInv, OrderInv
    <3> HIDE DEF c
    <3> QED
      BY <2>1, <2>2, <3>2 DEF IInv, TypeOK
  <2> HIDE DEF c
  <2> QED
    BY <2>2, <2>3, <2>4 DEF OrderInv
<1>7. ASSUME WindowEnd \/ Acquire \/ ReadDone \/ ReadFail \/ GetAnswered \/ OtherAnswered
             \/ ExchangeFails \/ PressSent \/ Start
      PROVE  OrderInv'
  <2>1. line' = line /\ cur' = cur /\ loc' = loc
    BY <1>7 DEF WindowEnd, Acquire, ReadDone, ReadFail, GetAnswered, OtherAnswered,
       ExchangeFails, PressSent, Start
  <2>2. wpc \in W => wpc' \in W
    BY <1>7 DEF WindowEnd, Acquire, ReadDone, ReadFail, GetAnswered, OtherAnswered,
       ExchangeFails, PressSent, Start, BuildFrame
  <2>3. ~(Reading' /\ reply' # NoImage)
    BY <1>7 DEF WindowEnd, Acquire, ReadDone, ReadFail, GetAnswered, OtherAnswered,
       ExchangeFails, PressSent, Start, BuildFrame, Reading
  <2> QED
    BY <2>1, <2>2, <2>3, OrderKept
<1>8. ASSUME PostDone PROVE OrderInv'
  <2>1. /\ line' = line /\ cur' = NoCall /\ wpc' = "idle" /\ loc' = [loc EXCEPT ![cur] = "gone"]
        /\ wpc = "post"
    BY <1>8 DEF PostDone
  <2>2. \A d \in Call : loc[d] = "gone" \/ d = cur => loc'[d] = "gone"
    BY <2>1 DEF IInv, TypeOK
  <2>3. \A i \in DOMAIN line : line[i].kind = "state" => loc'[line[i].who] = "gone"
    BY <2>2 DEF OrderInv, LineInv
  <2>4. ~Reading'
    BY <2>1 DEF Reading
  <2> QED
    BY <2>1, <2>3, <2>4, CommandAssumption DEF OrderInv
<1>9. ASSUME StopBegin \/ WorkerCancelled \/ StopFinish \/ Reset
      PROVE  FALSE
  BY <1>9 DEF StopBegin, WorkerCancelled, StopFinish, Reset, RegInv, Undisturbed
<1>10. ASSUME ScanAcquire \/ ScanRelease PROVE OrderInv'
  BY <1>3, <1>10 DEF ScanAcquire, ScanRelease
<1>11. ASSUME DeviceTakes PROVE OrderInv'
  <2>1. /\ UNCHANGED <<op, key, loc, cur, wpc, reply>> /\ reply = NoImage
        /\ wpc \in {"read", "exch"} /\ cur \in Call /\ key[cur] \in Key
    <3>1. /\ UNCHANGED <<op, key, loc, cur, wpc, reply>> /\ reply = NoImage
          /\ wpc \in {"read", "exch"} /\ op[cur] # "press"
      BY <1>11 DEF DeviceTakes
    <3> QED
      BY <3>1, WritingItem DEF Writing, IInv, CallInv, Ops, TypeOK
  <2>2. CASE line' = line
    BY <1>3, <2>1, <2>2
  <2>3. ASSUME NEW m \in Frames, line' = Append(line, m), m.who = cur, m.kind # "push"
        PROVE  OrderInv'
    <3>1. /\ Len(line) \in Nat /\ DOMAIN line = 1..Len(line) /\ DOMAIN line' = 1..(Len(line) + 1)
          /\ line'[Len(line) + 1] = m
          /\ \A i \in 1..Len(line) : line'[i] = line[i]
      BY <2>3, LineAppend
    <3>2. \A i \in DOMAIN line' : i \in DOMAIN line \/ (i = Len(line) + 1 /\ line'[i] = m)
      BY <3>1
    <3>3. \A i \in DOMAIN line' :
             /\ line'[i].kind # "push"
             /\ line'[i].kind = "state" =>
                   \/ loc[line'[i].who] = "gone"
                   \/ cur = line'[i].who /\ wpc \in {"read", "lock", "exch", "post"}
      <4> TAKE i \in DOMAIN line'
      <4>1. CASE i \in DOMAIN line
        BY <3>1, <4>1 DEF OrderInv
      <4>2. CASE line'[i] = m
        BY <2>1, <2>3, <4>2
      <4> QED
        BY <3>2, <4>1, <4>2
    <3>4. \A i, j \in DOMAIN line' : i < j /\ line'[i].who = cur => line'[j].who = cur
      <4> TAKE i, j \in DOMAIN line'
      <4> HAVE i < j /\ line'[i].who = cur
      <4>1. i \in DOMAIN line
        BY <3>1
      <4>2. CASE j \in DOMAIN line
        BY <2>1, <3>1, <4>1, <4>2 DEF OrderInv
      <4>3. CASE j \notin DOMAIN line
        BY <2>3, <3>2, <4>3
      <4> QED
        BY <4>2, <4>3
    <3> QED
      BY <2>1, <3>3, <3>4 DEF OrderInv
  <2>4. \/ line' = line \/ line' = Append(line, StateFrame("state", cur, key[cur]))
        \/ line' = Append(line, DoneFrame(cur, key[cur]))
    BY <1>11 DEF DeviceTakes
  <2>5. /\ StateFrame("state", cur, key[cur]) \in Frames /\ DoneFrame(cur, key[cur]) \in Frames
    BY <2>1, SentFrame
  <2>6. /\ StateFrame("state", cur, key[cur]).who = cur
        /\ StateFrame("state", cur, key[cur]).kind # "push"
        /\ DoneFrame(cur, key[cur]).who = cur /\ DoneFrame(cur, key[cur]).kind # "push"
    BY DEF StateFrame, DoneFrame
  <2> QED
    BY <2>2, <2>3, <2>4, <2>5, <2>6
<1>12. ASSUME Deliver PROVE OrderInv'
  <2> DEFINE m == Head(line)
  <2>1. /\ UNCHANGED <<op, key, loc, cur, wpc>> /\ line # <<>> /\ line' = Tail(line)
        /\ reply' = IF Awaited(m) THEN m.img ELSE reply
    BY <1>12 DEF Deliver
  <2>2. /\ Len(line) \in Nat \ {0} /\ DOMAIN line = 1..Len(line) /\ DOMAIN line' = 1..(Len(line) - 1)
        /\ m = line[1]
        /\ \A i \in DOMAIN line' : i + 1 \in DOMAIN line /\ line'[i] = line[i + 1]
    BY <2>1, LineTail
  <2>3. Reading' <=> Reading
    BY <2>1 DEF Reading
  <2>4. \A i, j \in DOMAIN line' : i < j => i + 1 < j + 1
    BY <2>2
  <2>5. ASSUME Reading', reply' # NoImage
        PROVE  \A i \in DOMAIN line' : line'[i].who = cur
    <3>1. CASE reply # NoImage
      BY <2>2, <2>3, <2>5, <3>1 DEF OrderInv
    <3>2. CASE reply = NoImage
      <4>1. Awaited(m) /\ m.who = cur /\ cur \in Call
        BY <1>2, <2>1, <2>3, <2>5, <3>2 DEF Awaited
      <4>2. 1 \in DOMAIN line /\ \A i \in DOMAIN line' : 1 < i + 1
        BY <2>2
      <4> QED
        BY <2>2, <4>1, <4>2 DEF OrderInv
    <3> QED
      BY <3>1, <3>2
  <2>6. \A i \in DOMAIN line' :
           /\ line'[i].kind # "push"
           /\ line'[i].kind = "state" =>
                 \/ loc[line'[i].who] = "gone"
                 \/ cur = line'[i].who /\ wpc \in {"read", "lock", "exch", "post"}
    BY <2>2 DEF OrderInv
  <2>7. cur \in Call =>
           \A i, j \in DOMAIN line' : i < j /\ line'[i].who = cur => line'[j].who = cur
    BY <2>2, <2>4 DEF OrderInv
  <2> HIDE DEF m
  <2> QED
    BY <2>1, <2>5, <2>6, <2>7 DEF OrderInv
<1>13. ASSUME NEW k \in Key, FeedbackPush(k) PROVE FALSE
  BY <1>13 DEF FeedbackPush, Undisturbed
<1>14. ASSUME NEW k \in Key, Age(k) \/ \E ch \in Chan, v \in Val : Wall(k, ch, v) PROVE OrderInv'
  BY <1>3, <1>14 DEF Age, Wall
<1>15. CASE UNCHANGED vars
  BY <1>3, <1>15
<1> QED
  BY <1>4, <1>5, <1>6, <1>7, <1>8, <1>9, <1>10, <1>11, <1>12, <1>13, <1>14, <1>15
     DEF Next, WorkerStep, LifecycleStep, EnvStep

\* No step takes a future away, and a read is made with one.
LEMMA StepFutures ==
    ASSUME IInv, [Next]_vars, \A c \in Call : op[c] = "get" => fut[c] # "none"
    PROVE  \A c \in Call : op'[c] = "get" => fut'[c] # "none"
<1> USE DEF vars, callVars, getVars, setVars, bufVars, workVars, extVars, histVars
<1> DEFINE Kept == \A c \in Call : op'[c] = "get" => fut'[c] # "none"
<1>1. ASSUME NEW S, NEW outcome \in Settled, op' = op, fut' = Settle(S, outcome)
      PROVE  Kept
  BY <1>1 DEF Settle, Settled, IInv, TypeOK
<1>2. ASSUME UNCHANGED <<op, fut>>
      PROVE  Kept
  BY <1>2
<1>3. ASSUME CallStep PROVE Kept
  <2>1. ASSUME NEW c \in Call, NEW k \in Key, GetCall(c, k)
        PROVE  Kept
    BY <2>1 DEF GetCall, MakeCall, IInv, TypeOK
  <2>2. ASSUME NEW c \in Call, NEW k \in Key,
               QueryCall(c, k) \/ \E ch \in Chan, v \in Val : SetCall(c, k, ch, v)
        PROVE  Kept
    <3>1. op' = [op EXCEPT ![c] = op'[c]] /\ op'[c] # "get"
      BY <2>2 DEF QueryCall, SetCall, MakeCall, IInv, TypeOK
    <3>2. fut' = fut \/ fut' = [fut EXCEPT ![c] = "pending"]
      BY <2>2 DEF QueryCall, SetCall
    <3> QED
      BY <3>1, <3>2 DEF IInv, TypeOK
  <2>3. ASSUME NEW c \in Call, PressCall(c)
        PROVE  Kept
    BY <2>3 DEF PressCall, MakeCall, IInv, TypeOK
  <2>4. ASSUME NEW c \in Call, Unblock(c) \/ GetReturn(c) \/ SetAbandon(c) \/ CancelBlocked(c)
        PROVE  Kept
    BY <2>4, <1>2 DEF Unblock, GetReturn, SetAbandon, CancelBlocked, LeaveGet
  <2>5. ASSUME NEW c \in Call, GetAbandon(c) \/ GetCancelBlocked(c) \/ QueryAbandon(c)
        PROVE  Kept
    <3>1. op' = op /\ fut' = Settle({c}, "cancelled") /\ "cancelled" \in Settled
      BY <2>5 DEF GetAbandon, GetCancelBlocked, QueryAbandon, LeaveGet, Settled
    <3> QED
      BY <1>1, <3>1
  <2> HIDE DEF Kept
  <2> QED
    BY <1>3, <2>1, <2>2, <2>3, <2>4, <2>5 DEF CallStep
<1>4. ASSUME WorkerStep PROVE Kept
  <2>1. \/ UNCHANGED <<op, fut>>
        \/ op' = op /\ \E S \in SUBSET Call, outcome \in Settled : fut' = Settle(S, outcome)
    <3>1. CASE ReadDone
      <4>1. pendingGetFutures[key[cur]] \in SUBSET Call /\ "result" \in Settled
        BY <3>1, WritingItem DEF ReadDone, Writing, IInv, TypeOK, Settled
      <4> QED
        BY <3>1, <4>1 DEF ReadDone
    <3>2. CASE GetAnswered \/ ExchangeFails
      <4>1. {cur} \cup FoldedInto(cur) \in SUBSET Call /\ {"result", "error"} \subseteq Settled
        BY <3>2, WritingItem DEF GetAnswered, ExchangeFails, Writing, IInv, TypeOK, FoldedInto, Settled
      <4> QED
        BY <3>2, <4>1 DEF GetAnswered, ExchangeFails
    <3>3. CASE OtherAnswered
      <4>1. {cur} \in SUBSET Call /\ "result" \in Settled
        BY <3>3, WritingItem DEF OtherAnswered, Writing, Settled
      <4> QED
        BY <3>3, <4>1 DEF OtherAnswered
    <3> QED
      BY <1>4, <3>1, <3>2, <3>3 DEF WorkerStep, PopSkip, PopTake, WindowEnd, Acquire,
         ReadFail, PressSent, PostDone
  <2> HIDE DEF Kept
  <2> QED
    BY <1>1, <1>2, <2>1
<1>5. ASSUME LifecycleStep PROVE Kept
  <2>1. /\ op' = op
        /\ fut' = fut \/ \E S : fut' = Settle(S, "cancelled")
    BY <1>5 DEF LifecycleStep, Start, StopBegin, WorkerCancelled, StopFinish, Reset, DrainQueue
  <2>2. "cancelled" \in Settled
    BY DEF Settled
  <2> HIDE DEF Kept
  <2> QED
    BY <1>1, <1>2, <2>1, <2>2
<1>6. ASSUME EnvStep PROVE Kept
  <2>1. /\ op' = op
        /\ fut' = fut \/ \E S : fut' = Settle(S, "result")
    BY <1>6 DEF EnvStep, ScanAcquire, ScanRelease, DeviceTakes, Deliver, FeedbackPush, Age, Wall
  <2>2. "result" \in Settled
    BY DEF Settled
  <2> HIDE DEF Kept
  <2> QED
    BY <1>1, <1>2, <2>1, <2>2
<1>7. ASSUME UNCHANGED vars PROVE Kept
  BY <1>2, <1>7
<1> HIDE DEF Kept
<1>8. Kept
  BY <1>3, <1>4, <1>5, <1>6, <1>7 DEF Next
<1> QED
  BY <1>8 DEF Kept

\* Where nobody gives up, a read keeps its group's dedup key until it is popped.
LEMMA StepOwner ==
    ASSUME IInv, ~stopping, OwnerInv, HostOps \cap {"stop", "reset", "abandon"} = {}, [Next]_vars
    PROVE  OwnerInv'
<1> USE DEF vars, callVars, getVars, setVars, bufVars, workVars, extVars, histVars
<1> DEFINE Q == {"put", "queue"}
           Waits(d) == op'[d] = "get" /\ loc'[d] \in Q
<1>1. ASSUME \A d \in Call : Waits(d) =>
                /\ op[d] = "get" /\ loc[d] \in Q /\ key'[d] = key[d]
                /\ fut'[d] = fut[d] \/ fut'[d] # "cancelled"
                /\ queuedGetKeys[key[d]] = d => queuedGetKeys'[key[d]] = d
      PROVE  OwnerInv'
  BY <1>1 DEF OwnerInv
<1>2. /\ op \in [Call -> Ops] /\ key \in [Call -> Key \cup {NoKey}]
      /\ loc \in [Call -> {"none", "put", "queue", "worker", "gone"}]
      /\ fut \in [Call -> {"none", "pending"} \cup Settled]
      /\ queuedGetKeys \in [Key -> Call \cup {NoCall}]
      /\ \A d \in Call : op[d] = "get" => key[d] \in Key
  BY DEF IInv, TypeOK, CallInv
<1>3. ASSUME NEW c \in Call, queuedGetKeys' = ReleaseGetKey(c), c \notin {d \in Call : Waits(d)}
      PROVE  \A d \in Call : Waits(d) /\ op[d] = "get" =>
                (queuedGetKeys[key[d]] = d => queuedGetKeys'[key[d]] = d)
  BY <1>2, <1>3 DEF ReleaseGetKey
<1>4. ASSUME NEW c \in Call, NEW what, NEW k, MakeCall(c, what, k)
      PROVE  /\ op[c] = "none" /\ loc[c] = "none"
             /\ op'[c] = what /\ key'[c] = k
             /\ \A d \in Call \ {c} : op'[d] = op[d] /\ key'[d] = key[d]
  BY <1>2, <1>4 DEF MakeCall, IInv, CallInv
<1>5. ASSUME NEW c \in Call, loc' = loc \/ Put(c)
      PROVE  \A d \in Call \ {c} : loc'[d] = loc[d]
  BY <1>5, PutPlace DEF IInv
<1>6. ASSUME NEW c \in Call, NEW k \in Key, GetCall(c, k) PROVE OwnerInv'
  <2>1. /\ op[c] = "none" /\ loc[c] = "none" /\ key'[c] = k
        /\ \A d \in Call \ {c} : op'[d] = op[d] /\ key'[d] = key[d] /\ loc'[d] = loc[d]
    BY <1>4, <1>5, <1>6 DEF GetCall
  <2>2. fut'[c] = "pending" /\ \A d \in Call \ {c} : fut'[d] = fut[d]
    BY <1>2, <1>6 DEF GetCall
  <2>3. CASE queuedGetKeys[k] # NoCall
    <3>1. loc' = loc /\ queuedGetKeys' = queuedGetKeys
      BY <1>6, <2>3 DEF GetCall
    <3> QED
      BY <1>1, <2>1, <2>2, <3>1
  <2>4. CASE queuedGetKeys[k] = NoCall
    <3>1. queuedGetKeys' = [queuedGetKeys EXCEPT ![k] = c]
      BY <1>6, <2>4 DEF GetCall
    <3>2. ASSUME NEW d \in Call \ {c}, Waits(d)
          PROVE  key'[d] = key[d] /\ key[d] \in Key /\ key[d] # k /\ queuedGetKeys[key[d]] = d
                 /\ fut[d] # "cancelled"
      <4>1. op[d] = "get" /\ loc[d] \in Q
        BY <2>1, <3>2
      <4> QED
        BY <1>2, <2>1, <2>4, <4>1, CommandAssumption DEF OwnerInv
    <3> QED
      BY <1>2, <2>1, <2>2, <3>1, <3>2 DEF OwnerInv
  <2> QED
    BY <2>3, <2>4
<1>7. ASSUME NEW c \in Call,
             \/ PressCall(c)
             \/ \E k \in Key : QueryCall(c, k) \/ \E ch \in Chan, v \in Val : SetCall(c, k, ch, v)
      PROVE  OwnerInv'
  <2>1. \E what \in {"query", "press", "set"}, j \in Key \cup {NoKey} : MakeCall(c, what, j)
    BY <1>7 DEF QueryCall, PressCall, SetCall
  <2>2. /\ loc' = loc \/ Put(c)
        /\ queuedGetKeys' = queuedGetKeys /\ (fut' = fut \/ fut' = [fut EXCEPT ![c] = "pending"])
    BY <1>7 DEF QueryCall, PressCall, SetCall
  <2>3. op'[c] # "get" /\ \A d \in Call \ {c} : op'[d] = op[d] /\ key'[d] = key[d]
    BY <1>4, <2>1
  <2>4. \A d \in Call \ {c} : loc'[d] = loc[d] /\ fut'[d] = fut[d]
    BY <1>2, <1>5, <2>2
  <2> QED
    BY <1>1, <2>2, <2>3, <2>4
<1>8. ASSUME NEW c \in Call, Unblock(c) \/ CancelBlocked(c) PROVE OwnerInv'
  <2>1. /\ UNCHANGED <<op, key, fut, queuedGetKeys>> /\ loc[c] = "put"
        /\ Put(c) \/ loc' = [loc EXCEPT ![c] = "gone"]
    BY <1>8 DEF Unblock, CancelBlocked
  <2>2. \A d \in Call : loc'[d] \in Q => loc[d] \in Q
    BY <1>2, <1>5, <2>1
  <2> QED
    BY <1>1, <2>1, <2>2
<1>9. ASSUME NEW c \in Call, GetAbandon(c) \/ QueryAbandon(c) \/ SetAbandon(c) PROVE FALSE
  BY <1>9 DEF GetAbandon, QueryAbandon, SetAbandon
<1>10. ASSUME NEW c \in Call, GetCancelBlocked(c) PROVE OwnerInv'
  <2>1. /\ UNCHANGED <<op, key>> /\ loc' = [loc EXCEPT ![c] = "gone"]
        /\ fut' = Settle({c}, "cancelled") /\ queuedGetKeys' = ReleaseGetKey(c)
    BY <1>10 DEF GetCancelBlocked, LeaveGet
  <2>2. ~Waits(c) /\ \A d \in Call \ {c} : loc'[d] = loc[d] /\ fut'[d] = fut[d]
    BY <1>2, <2>1 DEF Settle
  <2> HIDE DEF Waits
  <2>3. \A d \in Call : Waits(d) /\ op[d] = "get" =>
           (queuedGetKeys[key[d]] = d => queuedGetKeys'[key[d]] = d)
    BY <1>3, <2>1, <2>2
  <2> USE DEF Waits
  <2> QED
    BY <1>1, <2>1, <2>2, <2>3
<1>11. ASSUME NEW c \in Call, GetReturn(c) PROVE OwnerInv'
  <2>1. /\ UNCHANGED <<op, key, loc, fut>> /\ op[c] = "get"
        /\ queuedGetKeys' = IF fut[c] = "cancelled" THEN ReleaseGetKey(c) ELSE queuedGetKeys
    BY <1>11 DEF GetReturn, LeaveGet
  <2>2. fut[c] = "cancelled" => ~Waits(c)
    BY <2>1 DEF OwnerInv
  <2> HIDE DEF Waits
  <2>3. \A d \in Call : Waits(d) /\ op[d] = "get" =>
           (queuedGetKeys[key[d]] = d => queuedGetKeys'[key[d]] = d)
    BY <1>3, <2>1, <2>2
  <2> USE DEF Waits
  <2> QED
    BY <1>1, <2>1, <2>3
<1>12. ASSUME PopSkip \/ PopTake PROVE OwnerInv'
  <2> DEFINE c == Head(commandQueue)
  <2>1. c \in Call
    BY <1>12, PopItem DEF PopSkip, PopTake
  <2>2. /\ UNCHANGED <<op, key, fut>> /\ queuedGetKeys' = ReleaseGetKey(c)
        /\ \E p \in {"gone", "worker"} : loc' = [loc EXCEPT ![c] = p]
    BY <1>12 DEF PopSkip, PopTake
  <2> HIDE DEF c
  <2>3. ~Waits(c) /\ \A d \in Call \ {c} : loc'[d] = loc[d]
    BY <1>2, <2>1, <2>2
  <2> HIDE DEF Waits
  <2>4. \A d \in Call : Waits(d) /\ op[d] = "get" =>
           (queuedGetKeys[key[d]] = d => queuedGetKeys'[key[d]] = d)
    BY <1>3, <2>1, <2>2, <2>3
  <2> USE DEF Waits
  <2> QED
    BY <1>1, <2>2, <2>3, <2>4
<1>13. ASSUME \/ WindowEnd \/ Acquire \/ ReadDone \/ ReadFail \/ GetAnswered \/ OtherAnswered
              \/ ExchangeFails \/ PressSent \/ PostDone \/ Start \/ EnvStep \/ UNCHANGED vars
       PROVE  OwnerInv'
  <2>1. UNCHANGED <<op, key, queuedGetKeys>>
    BY <1>13 DEF WindowEnd, Acquire, ReadDone, ReadFail, GetAnswered, OtherAnswered,
       ExchangeFails, PressSent, PostDone, Start, EnvStep, ScanAcquire, ScanRelease, DeviceTakes,
       Deliver, FeedbackPush, Age, Wall
  <2>2. fut' = fut \/ \E S : fut' = Settle(S, "result") \/ fut' = Settle(S, "error")
    BY <1>13 DEF WindowEnd, Acquire, ReadDone, ReadFail, GetAnswered, OtherAnswered,
       ExchangeFails, PressSent, PostDone, Start, EnvStep, ScanAcquire, ScanRelease, DeviceTakes,
       Deliver, FeedbackPush, Age, Wall
  <2>3. loc' = loc \/ loc' = [loc EXCEPT ![cur] = "gone"]
    BY <1>13 DEF WindowEnd, Acquire, ReadDone, ReadFail, GetAnswered, OtherAnswered,
       ExchangeFails, PressSent, PostDone, Start, EnvStep, ScanAcquire, ScanRelease, DeviceTakes,
       Deliver, FeedbackPush, Age, Wall
  <2>4. \A d \in Call : fut'[d] = fut[d] \/ fut'[d] # "cancelled"
    BY <2>2 DEF Settle
  <2>5. \A d \in Call : loc'[d] \in Q => loc[d] \in Q
    BY <1>2, <2>3
  <2> QED
    BY <1>1, <2>1, <2>4, <2>5
<1>14. ASSUME StopBegin \/ WorkerCancelled \/ StopFinish \/ Reset PROVE FALSE
  BY <1>14 DEF StopBegin, WorkerCancelled, StopFinish, Reset
<1> QED
  BY <1>6, <1>7, <1>8, <1>9, <1>10, <1>11, <1>12, <1>13, <1>14 DEF Next, CallStep, WorkerStep,
     LifecycleStep

\* A read with a waiting caller keeps one until its exchange ends.
LEMMA StepReader ==
    IInv /\ RegInv /\ ReaderInv /\ Undisturbed /\ [Next]_vars => ReaderInv'
<1> SUFFICES ASSUME IInv /\ RegInv /\ ReaderInv /\ Undisturbed, [Next]_vars
             PROVE  ReaderInv'
  OBVIOUS
<1>0. ASSUME ~HasFeedback PROVE OwnerInv'
  <2>1. ~stopping /\ OwnerInv /\ HostOps \cap {"stop", "reset", "abandon"} = {}
    BY <1>0 DEF ReaderInv, RegInv, Undisturbed
  <2> QED
    BY <2>1, StepOwner
<1> SUFFICES ASSUME ~HasFeedback, wpc' \in {"lock", "exch"}, op'[cur'] = "get"
             PROVE  \E c \in {cur'} \cup pendingGetFutures'[key'[cur']] :
                       fut'[c] = "pending" /\ loc'[c] # "put"
  BY <1>0, StepFutures DEF ReaderInv
<1> USE DEF vars, callVars, getVars, setVars, bufVars, workVars, extVars, histVars
<1> DEFINE Waited == \E c \in {cur'} \cup pendingGetFutures'[key'[cur']] :
                        fut'[c] = "pending" /\ loc'[c] # "put"
<1>1. /\ \A c \in Call : op[c] # "none" => op'[c] = op[c] /\ key'[c] = key[c]
      /\ wpc \in Writing \cup {"window"} => cur \in Call /\ op[cur] # "none"
      /\ {"lock", "exch", "read"} \subseteq Writing
      /\ pendingGetFutures \in [Key -> SUBSET Call]
  BY CallsKept, WritingItem DEF IInv, TypeOK, Writing
<1>2. ASSUME cur' = cur, wpc \in {"lock", "exch"},
             \A c \in Call : fut[c] = "pending" /\ loc[c] # "put" =>
                fut'[c] = "pending" /\ loc'[c] # "put",
             \A k \in Key : \A c \in pendingGetFutures[k] :
                fut[c] = "pending" /\ loc[c] # "put" => c \in pendingGetFutures'[k]
      PROVE  Waited
  <2>1. cur \in Call /\ op[cur] = "get" /\ key'[cur] = key[cur] /\ key[cur] \in Key
    BY <1>1, <1>2, WritingItem
  <2>2. PICK c \in {cur} \cup pendingGetFutures[key[cur]] : fut[c] = "pending" /\ loc[c] # "put"
    BY <1>2, <2>1 DEF ReaderInv
  <2>3. c \in Call /\ c \in {cur} \cup pendingGetFutures'[key[cur]]
    BY <1>1, <1>2, <2>1, <2>2
  <2> QED
    BY <1>2, <2>1, <2>2, <2>3
<1>3. ASSUME cur' = cur, wpc \in {"lock", "exch"}, UNCHANGED <<fut, loc, pendingGetFutures>>
      PROVE  Waited
  <2> HIDE DEF Waited
  <2> QED
    BY <1>2, <1>3
<1>4. ASSUME CallStep PROVE Waited
  <2>1. cur' = cur /\ wpc' = wpc
    <3>1. ASSUME NEW c \in Call, NEW k \in Key,
                 GetCall(c, k) \/ QueryCall(c, k) \/ \E ch \in Chan, v \in Val : SetCall(c, k, ch, v)
          PROVE  cur' = cur /\ wpc' = wpc
      BY <3>1 DEF GetCall, QueryCall, SetCall
    <3>2. ASSUME NEW c \in Call,
                 \/ PressCall(c) \/ Unblock(c) \/ GetAbandon(c) \/ GetCancelBlocked(c)
                 \/ GetReturn(c) \/ QueryAbandon(c) \/ SetAbandon(c) \/ CancelBlocked(c)
          PROVE  cur' = cur /\ wpc' = wpc
      BY <3>2 DEF PressCall, Unblock, GetAbandon, GetCancelBlocked, GetReturn, QueryAbandon,
         SetAbandon, CancelBlocked, LeaveGet
    <3> QED
      BY <1>4, <3>1, <3>2 DEF CallStep
  <2> DEFINE Waits == /\ \A c \in Call : fut[c] = "pending" /\ loc[c] # "put" =>
                           fut'[c] = "pending" /\ loc'[c] # "put"
                      /\ \A k \in Key : \A c \in pendingGetFutures[k] :
                           fut[c] = "pending" /\ loc[c] # "put" => c \in pendingGetFutures'[k]
  <2>2. ASSUME NEW c \in Call, loc' = loc \/ Put(c)
        PROVE  \A d \in Call : loc[d] # "put" => loc'[d] # "put" \/ (d = c /\ loc[c] # loc'[c])
    BY <2>2, PutPlace DEF IInv
  <2>3. ASSUME NEW c \in Call,
               \/ PressCall(c)
               \/ \E k \in Key : \/ GetCall(c, k) \/ QueryCall(c, k)
                                \/ \E ch \in Chan, v \in Val : SetCall(c, k, ch, v)
        PROVE  Waits
    <3>1. /\ fut' = fut \/ fut' = [fut EXCEPT ![c] = "pending"]
          /\ loc' = loc \/ Put(c)
          /\ caller[c] = "idle"
      BY <2>3 DEF GetCall, QueryCall, SetCall, PressCall, MakeCall
    <3>2. \/ pendingGetFutures' = pendingGetFutures
          \/ \E k \in Key : pendingGetFutures' = [pendingGetFutures EXCEPT ![k] = @ \cup {c}]
      BY <2>3 DEF GetCall, QueryCall, SetCall, PressCall
    <3>3. \A d \in Call : fut[d] = "pending" => fut'[d] = "pending" /\ d # c
      BY <3>1 DEF IInv, TypeOK, CallInv
    <3>4. \A j \in Key : pendingGetFutures[j] \subseteq pendingGetFutures'[j]
      BY <3>2 DEF IInv, TypeOK
    <3> QED
      BY <2>2, <3>1, <3>3, <3>4
  <2>4. ASSUME NEW c \in Call,
               Unblock(c) \/ GetCancelBlocked(c) \/ GetReturn(c) \/ CancelBlocked(c)
        PROVE  Waits
    <3>1. CASE Unblock(c) \/ CancelBlocked(c)
      <4>1. UNCHANGED <<fut, pendingGetFutures>> /\ loc[c] = "put"
            /\ loc' \in {[loc EXCEPT ![c] = "gone"], [loc EXCEPT ![c] = "queue"]}
        BY <3>1 DEF Unblock, CancelBlocked, Put
      <4> QED
        BY <4>1 DEF IInv, TypeOK
    <3>2. CASE GetCancelBlocked(c)
      BY <3>2 DEF GetCancelBlocked, LeaveGet, Settle, IInv, TypeOK
    <3>3. CASE GetReturn(c)
      BY <3>3 DEF GetReturn, LeaveGet, Done, Settled, IInv, TypeOK
    <3> QED
      BY <2>4, <3>1, <3>2, <3>3
  <2>7. ASSUME NEW c \in Call, GetAbandon(c) \/ QueryAbandon(c) \/ SetAbandon(c)
        PROVE  FALSE
    BY <2>7 DEF GetAbandon, QueryAbandon, SetAbandon, Undisturbed
  <2>5. Waits
    <3> HIDE DEF Waits
    <3> QED
      BY <1>4, <2>3, <2>4, <2>7 DEF CallStep
  <2> HIDE DEF Waited
  <2> QED
    BY <1>2, <2>1, <2>5
<1>5. ASSUME PopTake PROVE Waited
  <2> DEFINE c == Head(commandQueue)
  <2>1. /\ c \in Call /\ cur' = c /\ UNCHANGED <<op, key, fut, pendingGetFutures>> /\ ~Stale(c)
        /\ loc[c] = "queue" /\ loc' = [loc EXCEPT ![c] = "worker"]
    BY <1>5, PopItem DEF PopTake
  <2> HIDE DEF c
  <2>2. op[c] = "get" /\ key[c] \in Key
    BY <2>1 DEF IInv, CallInv
  <2>3. \A w \in Call : op[w] = "get" /\ ~Done(w) => fut[w] = "pending"
    BY DEF Done, ReaderInv, IInv, TypeOK
  <2>4. \A w \in pendingGetFutures[key[c]] : w \in Call /\ op[w] = "get" /\ key[w] = key[c]
    BY <1>1, <2>2 DEF IInv, CallInv
  <2>5. ~Done(c) \/ \E w \in pendingGetFutures[key[c]] : ~Done(w)
    BY <2>1, <2>2 DEF Stale, FoldedInto
  <2>6. \A w \in {c} \cup pendingGetFutures[key[c]] : loc'[w] # "put"
    <3>1. \A w \in Call : op[w] = "get" /\ key[w] = key[c] /\ loc[w] = "put" => w = c
      BY <2>1, <2>2 DEF ReaderInv, OwnerInv
    <3> QED
      BY <2>1, <2>4, <3>1 DEF IInv, TypeOK
  <2> QED
    BY <2>1, <2>2, <2>3, <2>4, <2>5, <2>6
<1>6. ASSUME Acquire PROVE Waited
  <2>1. wpc = "lock" /\ UNCHANGED <<cur, fut, loc, pendingGetFutures>>
    <3>1. wpc = "rlock" => wpc' = "read"
      BY <1>6 DEF Acquire
    <3> QED
      BY <1>6, <3>1 DEF Acquire
  <2> HIDE DEF Waited
  <2> QED
    BY <1>3, <2>1
<1>7. ASSUME WindowEnd \/ ReadDone \/ ReadFail PROVE FALSE
  <2>1. wpc \in {"window", "read"} /\ UNCHANGED <<op, cur>>
    BY <1>7 DEF WindowEnd, ReadDone, ReadFail
  <2> QED
    BY <2>1, WritingItem
<1>8. ASSUME PopSkip \/ GetAnswered \/ OtherAnswered \/ ExchangeFails \/ PressSent \/ PostDone
             \/ Start
      PROVE  FALSE
  BY <1>8 DEF PopSkip, GetAnswered, OtherAnswered, ExchangeFails, PressSent, PostDone, Start
<1>9. ASSUME StopBegin \/ WorkerCancelled \/ StopFinish \/ Reset
      PROVE  FALSE
  BY <1>9 DEF StopBegin, WorkerCancelled, StopFinish, Reset, RegInv, Undisturbed
<1>10. ASSUME EnvStep PROVE Waited
  <2>1. UNCHANGED <<cur, wpc, pendingGetFutures, fut, loc>>
    BY <1>10 DEF EnvStep, ScanAcquire, ScanRelease, DeviceTakes, Deliver, FeedbackPush, Age, Wall
  <2> HIDE DEF Waited
  <2> QED
    BY <1>3, <2>1
<1>11. ASSUME UNCHANGED vars PROVE Waited
  <2> HIDE DEF Waited
  <2> QED
    BY <1>3, <1>11
<1> HIDE DEF Waited
<1>12. Waited
  BY <1>4, <1>5, <1>6, <1>7, <1>8, <1>9, <1>10, <1>11 DEF Next, WorkerStep, LifecycleStep
<1> QED
  BY <1>12 DEF Waited

\* A report is stored as it is for an output no write is about to change.
LEMMA Stored ==
    ASSUME NEW k \in Key, NEW ch \in Chan, NEW image,
           PendingWrites(k)[ch] = NoVal, writingSets[k][ch] = NoVal
    PROVE  ApplyGroupState(k, image)[ch] = image[ch]
BY DEF ApplyGroupState, Overlay

\* A step that reports nothing and takes no new write keeps what is known, where
\* the buffer and the answer to be stored stay.
LEMMA NewsKept ==
    ASSUME NewsInv, reported' = reported, moduleStates' = moduleStates,
           \A k \in Key, ch \in Chan : PendingWrites(k)[ch] = NoVal => PendingWrites(k)'[ch] = NoVal,
           \A k \in Key, ch \in Chan : writingSets[k][ch] = NoVal => writingSets'[k][ch] = NoVal,
           reply' = reply,
           \A k \in Key : Unstored(k)' <=> Unstored(k)
    PROVE  NewsInv'
BY DEF NewsInv

\* Every step keeps what is known of an output nobody asked to change.
LEMMA StepNews ==
    IInv /\ LineInv /\ PendInv /\ SendInv /\ RegInv /\ OrderInv /\ ReaderInv /\ NewsInv
      /\ Undisturbed /\ [Next]_vars => NewsInv'
<1> SUFFICES ASSUME IInv /\ LineInv /\ PendInv /\ SendInv /\ RegInv /\ OrderInv /\ ReaderInv
                      /\ NewsInv /\ Undisturbed,
                    [Next]_vars
             PROVE  NewsInv'
  OBVIOUS
<1> USE DEF vars, callVars, getVars, setVars, bufVars, workVars, extVars, histVars
<1>1. /\ \A c \in Call : op[c] # "none" => op'[c] = op[c] /\ key'[c] = key[c]
      /\ wpc \in Writing \cup {"window"} => cur \in Call /\ op[cur] # "none"
      /\ {"rlock", "read", "lock", "exch", "post"} = Writing
  BY CallsKept, WritingItem DEF Writing
<1>2. Reading => cur \in Call /\ op'[cur] = op[cur] /\ key'[cur] = key[cur] /\ key[cur] \in Key
  BY <1>1, WritingItem DEF Reading
<1>3. ASSUME UNCHANGED <<cur, wpc, reply>>
      PROVE  \A k \in Key : Unstored(k)' <=> Unstored(k)
  <2>1. wpc \in {"read", "exch"} => op'[cur] = op[cur] /\ key'[cur] = key[cur]
    BY <1>1
  <2> QED
    BY <1>3, <2>1 DEF Unstored, Reading
<1>4. ASSUME UNCHANGED <<cur, wpc, reply, reported, moduleStates, pendingSetGroups, chans, writingSets>>
      PROVE  NewsInv'
  <2>1. \A k \in Key : PendingWrites(k)' = PendingWrites(k)
    BY <1>4 DEF PendingWrites
  <2> QED
    BY <1>3, <1>4, <2>1, NewsKept
<1>5. ASSUME NEW c \in Call, NEW k \in Key, GetCall(c, k) \/ QueryCall(c, k) PROVE NewsInv'
  BY <1>4, <1>5 DEF GetCall, QueryCall
<1>6. ASSUME NEW c \in Call, NEW k \in Key, NEW ch \in Chan, NEW v \in Val, SetCall(c, k, ch, v)
      PROVE  NewsInv'
  <2> DEFINE item == IF pendingSetGroups[k] = NoCall THEN c ELSE pendingSetGroups[k]
  <2>1. /\ UNCHANGED <<cur, wpc, reply, writingSets>>
        /\ moduleStates' = [moduleStates EXCEPT ![k][ch] = v]
        /\ chans' = [chans EXCEPT ![item][ch] = v]
        /\ reported' = [reported EXCEPT ![k][ch] = NoVal]
        /\ op[c] = "none"
        /\ pendingSetGroups' = [pendingSetGroups EXCEPT ![k] = item]
    BY <1>6 DEF SetCall, MakeCall, IInv, TypeOK, CallInv
  <2>2. /\ item \in Call
        /\ pendingSetGroups[k] # NoCall => item = pendingSetGroups[k]
        /\ pendingSetGroups[k] = NoCall => chans[item] = NoWrites
    BY <2>1 DEF IInv, TypeOK, RegInv
  <2>3. \A j \in Key : j # k /\ pendingSetGroups[j] # NoCall =>
           pendingSetGroups[j] \in Call /\ pendingSetGroups[j] # item
    BY <2>1 DEF PendInv, IInv, TypeOK
  <2> HIDE DEF item
  <2>4. \A j \in Key, x \in Chan : reported'[j][x] # NoVal =>
           /\ ~(j = k /\ x = ch) /\ reported'[j][x] = reported[j][x]
           /\ moduleStates'[j][x] = moduleStates[j][x]
    <3>1. moduleStates \in [Key -> [Chan -> Val]] /\ reported \in [Key -> [Chan -> Val \cup {NoVal}]]
      BY DEF IInv, TypeOK, Image, Writes
    <3> QED
      BY <2>1, <3>1
  <2>5. \A j \in Key, x \in Chan : ~(j = k /\ x = ch) => PendingWrites(j)'[x] = PendingWrites(j)[x]
    <3> SUFFICES ASSUME NEW j \in Key, NEW x \in Chan, ~(j = k /\ x = ch)
                 PROVE  PendingWrites(j)'[x] = PendingWrites(j)[x]
      OBVIOUS
    <3>1. chans \in [Call -> [Chan -> Val \cup {NoVal}]] /\ pendingSetGroups \in [Key -> Call \cup {NoCall}]
      BY DEF IInv, TypeOK, Writes
    <3>2. CASE j # k
      <4>1. pendingSetGroups'[j] = pendingSetGroups[j]
        BY <2>1, <3>1, <3>2
      <4>2. pendingSetGroups[j] # NoCall => chans'[pendingSetGroups[j]] = chans[pendingSetGroups[j]]
        BY <2>1, <2>3, <3>1, <3>2
      <4> QED
        BY <4>1, <4>2 DEF PendingWrites
    <3>3. CASE j = k
      <4>1. pendingSetGroups'[k] = item /\ item # NoCall /\ chans'[item][x] = chans[item][x]
        BY <2>1, <2>2, <3>1, <3>3, CommandAssumption
      <4>2. pendingSetGroups[k] = NoCall => chans[item][x] = NoVal
        BY <2>2 DEF NoWrites
      <4> QED
        BY <2>2, <3>3, <4>1, <4>2 DEF PendingWrites, NoWrites
    <3> QED
      BY <3>2, <3>3
  <2>6. \A j \in Key : Unstored(j)' <=> Unstored(j)
    BY <1>3, <2>1
  <2> QED
    BY <2>1, <2>4, <2>5, <2>6 DEF NewsInv
<1>7. ASSUME NEW c \in Call,
             \/ PressCall(c) \/ Unblock(c) \/ GetAbandon(c) \/ GetCancelBlocked(c)
             \/ GetReturn(c) \/ QueryAbandon(c) \/ SetAbandon(c) \/ CancelBlocked(c)
      PROVE  NewsInv'
  BY <1>4, <1>7 DEF PressCall, Unblock, GetAbandon, GetCancelBlocked, GetReturn, QueryAbandon,
     SetAbandon, CancelBlocked, LeaveGet
<1>8. ASSUME PopSkip PROVE NewsInv'
  <2> DEFINE c == Head(commandQueue)
  <2>1. /\ UNCHANGED <<cur, wpc, reply, reported, moduleStates, chans, writingSets>>
        /\ pendingSetGroups' = ReleaseSetGroup(c)
    BY <1>8 DEF PopSkip
  <2> HIDE DEF c
  <2>2. \A k \in Key : PendingWrites(k)' \in {PendingWrites(k), NoWrites}
    BY <2>1 DEF PendingWrites, ReleaseSetGroup
  <2>3. \A k \in Key, ch \in Chan : PendingWrites(k)[ch] = NoVal => PendingWrites(k)'[ch] = NoVal
    BY <2>2 DEF NoWrites
  <2> QED
    BY <1>3, <2>1, <2>3, NewsKept
<1>9. ASSUME PopTake PROVE NewsInv'
  <2>1. /\ UNCHANGED <<reply, reported, moduleStates, pendingSetGroups, chans, writingSets>>
        /\ wpc = "idle" /\ wpc' \in {"window", "lock"}
    BY <1>9 DEF PopTake
  <2>2. ~Reading /\ ~Reading'
    BY <2>1 DEF Reading
  <2>3. \A k \in Key : PendingWrites(k)' = PendingWrites(k)
    BY <2>1 DEF PendingWrites
  <2> QED
    BY <2>1, <2>2, <2>3, NewsKept DEF Unstored
<1>10. ASSUME WindowEnd PROVE NewsInv'
  <2> DEFINE k == key[cur]
  <2>1. cur \in Call /\ k \in Key /\ op[cur] = "set" /\ wpc = "window"
    BY <1>10, WritingItem DEF WindowEnd
  <2>2. /\ reported' = reported /\ wpc' \in {"rlock", "lock"} /\ chans' = chans
        /\ pendingSetGroups' = ReleaseSetGroup(cur)
        /\ writingSets' = [writingSets EXCEPT ![k] = chans[cur]]
        /\ \/ moduleStates' = moduleStates
           \/ moduleStates' = [moduleStates EXCEPT ![k] = Overlay(moduleStates[k], chans[cur])]
    BY <1>10 DEF WindowEnd, BuildFrame
  <2>3. ~Reading /\ ~Reading'
    BY <2>1, <2>2 DEF Reading
  <2>4. pendingSetGroups[k] = cur /\ cur # NoCall
    BY <2>1, CommandAssumption DEF RegInv
  <2> HIDE DEF k
  <2>5. ASSUME NEW j \in Key, NEW x \in Chan, reported[j][x] # NoVal
        PROVE  /\ PendingWrites(j)'[x] = NoVal /\ writingSets'[j][x] = NoVal
               /\ HasFeedback \/ ~Unstored(j) => moduleStates'[j][x] = reported[j][x]
    <3>1. /\ PendingWrites(j)[x] = NoVal /\ writingSets[j][x] = NoVal
          /\ moduleStates[j][x] = reported[j][x]
      BY <2>3, <2>5 DEF NewsInv, Unstored
    <3>2. PendingWrites(j)' \in {PendingWrites(j), NoWrites}
      BY <2>2 DEF PendingWrites, ReleaseSetGroup
    <3>3. j = k => chans[cur][x] = NoVal
      BY <2>4, <3>1 DEF PendingWrites
    <3>4. moduleStates \in [Key -> Image] /\ writingSets \in [Key -> Writes]
      BY DEF IInv, TypeOK
    <3>5. writingSets'[j][x] = NoVal
      BY <2>1, <2>2, <3>1, <3>3, <3>4
    <3>6. moduleStates'[j][x] = moduleStates[j][x]
      BY <2>1, <2>2, <3>3, <3>4 DEF Overlay
    <3> QED
      BY <3>1, <3>2, <3>5, <3>6 DEF NoWrites
  <2> QED
    BY <2>2, <2>3, <2>5 DEF NewsInv, Unstored
<1>11. ASSUME Acquire PROVE NewsInv'
  <2>1. /\ UNCHANGED <<op, cur, reported, moduleStates, pendingSetGroups, chans, writingSets>>
        /\ wpc \in {"rlock", "lock"} /\ reply' = NoImage
    BY <1>11 DEF Acquire
  <2>2. \A k \in Key : PendingWrites(k)' = PendingWrites(k)
    BY <2>1 DEF PendingWrites
  <2> QED
    BY <2>1, <2>2 DEF NewsInv, Unstored, Reading
<1>12. ASSUME ReadDone \/ ReadFail PROVE NewsInv'
  <2> DEFINE k == key[cur]
  <2>1. cur \in Call /\ k \in Key /\ op[cur] = "set" /\ wpc = "read"
    BY <1>12, WritingItem DEF ReadDone, ReadFail, Writing
  <2>2. /\ UNCHANGED <<reported, pendingSetGroups, chans, writingSets>> /\ wpc' = "lock"
        /\ \E buffer \in {moduleStates[k], ApplyGroupState(k, reply)} :
              /\ buffer = IF reply = NoImage THEN moduleStates[k] ELSE ApplyGroupState(k, reply)
              /\ moduleStates' = [moduleStates EXCEPT ![k] = Overlay(buffer, chans[cur])]
    BY <1>12 DEF ReadDone, ReadFail, BuildFrame
  <2>3. ~Reading' /\ Reading /\ (Unstored(k) <=> reply # NoImage)
    BY <2>1, <2>2 DEF Reading, Unstored
  <2>4. writingSets[k] = chans[cur] /\ \A j \in Key : PendingWrites(j)' = PendingWrites(j)
    BY <2>1, <2>2 DEF SendInv, Writing, PendingWrites
  <2>5. \A j \in Key \ {k} : ~Unstored(j)
    BY DEF Unstored
  <2> HIDE DEF k
  <2>6. ASSUME NEW j \in Key, NEW x \in Chan, reported[j][x] # NoVal
        PROVE  moduleStates'[j][x] = reported[j][x]
    <3>1. moduleStates \in [Key -> Image]
      BY DEF IInv, TypeOK
    <3>2. CASE j # k
      BY <2>1, <2>2, <2>5, <2>6, <3>1, <3>2 DEF NewsInv
    <3>3. CASE j = k
      <4>1. /\ PendingWrites(k)[x] = NoVal /\ writingSets[k][x] = NoVal /\ chans[cur][x] = NoVal
            /\ reply # NoImage => reply[x] = reported[k][x]
            /\ reply = NoImage => moduleStates[k][x] = reported[k][x]
        BY <2>3, <2>4, <2>6, <3>3 DEF NewsInv
      <4>2. reply # NoImage => ApplyGroupState(k, reply)[x] = reported[k][x]
        BY <2>1, <4>1, Stored
      <4>3. \A buffer : Overlay(buffer, chans[cur])[x] = buffer[x]
        BY <4>1 DEF Overlay
      <4> QED
        BY <2>1, <2>2, <3>1, <3>3, <4>1, <4>2, <4>3
    <3> QED
      BY <3>2, <3>3
  <2> QED
    BY <2>2, <2>3, <2>4, <2>6 DEF NewsInv, Unstored
<1>13. ASSUME GetAnswered PROVE NewsInv'
  <2> DEFINE k == key[cur]
  <2>1. cur \in Call /\ k \in Key /\ op[cur] = "get" /\ wpc = "exch" /\ reply # NoImage
    BY <1>13, WritingItem DEF GetAnswered, Writing
  <2>2. UNCHANGED <<reported, pendingSetGroups, chans, writingSets>> /\ wpc' = "post"
    BY <1>13 DEF GetAnswered
  <2>3. \/ moduleStates' = [moduleStates EXCEPT ![k] = ApplyGroupState(k, reply)]
        \/ HasFeedback /\ moduleStates' = moduleStates
    BY <1>13, <2>1 DEF GetAnswered, ReaderInv, FoldedInto
  <2>4. ~Reading' /\ Unstored(k) /\ \A j \in Key \ {k} : ~Unstored(j)
    BY <2>1, <2>2 DEF Reading, Unstored
  <2>5. \A j \in Key : PendingWrites(j)' = PendingWrites(j)
    BY <2>2 DEF PendingWrites
  <2> HIDE DEF k
  <2>6. ASSUME NEW j \in Key, NEW x \in Chan, reported[j][x] # NoVal
        PROVE  moduleStates'[j][x] = reported[j][x]
    <3>1. moduleStates \in [Key -> Image]
      BY DEF IInv, TypeOK
    <3>2. CASE j # k
      BY <2>1, <2>3, <2>4, <2>6, <3>1, <3>2 DEF NewsInv
    <3>3. CASE j = k
      <4>1. /\ PendingWrites(k)[x] = NoVal /\ writingSets[k][x] = NoVal
            /\ reply[x] = reported[k][x]
            /\ HasFeedback => moduleStates[k][x] = reported[k][x]
        BY <2>1, <2>4, <2>6, <3>3 DEF NewsInv
      <4>2. ApplyGroupState(k, reply)[x] = reported[k][x]
        BY <2>1, <4>1, Stored
      <4> QED
        BY <2>1, <2>3, <3>1, <3>3, <4>1, <4>2
    <3> QED
      BY <3>2, <3>3
  <2> QED
    BY <2>2, <2>4, <2>5, <2>6 DEF NewsInv, Unstored
<1>14. ASSUME OtherAnswered \/ ExchangeFails \/ PressSent \/ Start PROVE NewsInv'
  <2>1. UNCHANGED <<reported, moduleStates, pendingSetGroups, chans, writingSets>>
    BY <1>14 DEF OtherAnswered, ExchangeFails, PressSent, Start
  <2>2. wpc' \in {"post", "idle"} /\ (Reading => reply = NoImage)
    BY <1>14 DEF OtherAnswered, ExchangeFails, PressSent, Start, Reading
  <2>3. \A k \in Key : PendingWrites(k)' = PendingWrites(k)
    BY <2>1 DEF PendingWrites
  <2> QED
    BY <2>1, <2>2, <2>3 DEF NewsInv, Unstored, Reading
<1>15. ASSUME PostDone PROVE NewsInv'
  <2>1. UNCHANGED <<reported, moduleStates, pendingSetGroups, chans>> /\ wpc = "post" /\ wpc' = "idle"
    BY <1>15 DEF PostDone
  <2>2. \A k \in Key : writingSets'[k] \in {writingSets[k], NoWrites}
    BY <1>15 DEF PostDone, ClearWriting, IInv, TypeOK
  <2>3. \A k \in Key, ch \in Chan : writingSets[k][ch] = NoVal => writingSets'[k][ch] = NoVal
    BY <2>2 DEF NoWrites
  <2>4. \A k \in Key : PendingWrites(k)' = PendingWrites(k)
    BY <2>1 DEF PendingWrites
  <2> QED
    BY <2>1, <2>3, <2>4 DEF NewsInv, Unstored, Reading
<1>16. ASSUME StopBegin \/ WorkerCancelled \/ StopFinish \/ Reset
       PROVE  FALSE
  BY <1>16 DEF StopBegin, WorkerCancelled, StopFinish, Reset, RegInv, Undisturbed
<1>17. ASSUME ScanAcquire \/ ScanRelease \/ DeviceTakes PROVE NewsInv'
  BY <1>4, <1>17 DEF ScanAcquire, ScanRelease, DeviceTakes
<1>18. ASSUME Deliver PROVE NewsInv'
  <2> DEFINE m == Head(line)
             told == m.kind = "state" /\ (HasFeedback \/ Awaited(m))
  <2>1. /\ UNCHANGED <<op, key, cur, wpc, pendingSetGroups, chans, writingSets>>
        /\ line # <<>> /\ reply' = IF Awaited(m) THEN m.img ELSE reply
    BY <1>18 DEF Deliver
  <2>2. /\ m \in Frames /\ m.img \in Image /\ m.img # NoImage
        /\ m.kind = "state" => m.key \in Key /\ m.key = key[m.who]
        /\ m.kind = "done" => op[m.who] \in {"set", "query"}
    BY <2>1, HeadFrame, CommandAssumption DEF Image
  <2>3. m.kind \in {"state", "done"} /\ (Reading /\ reply # NoImage => m.who = cur)
    <3>1. 1 \in DOMAIN line /\ m = line[1]
      BY <2>1 DEF IInv, TypeOK
    <3> QED
      BY <2>2, <3>1 DEF OrderInv, Frames
  <2>4. /\ reported' = IF told THEN Report(m.key, m.img) ELSE reported
        /\ moduleStates' = IF m.kind = "state" /\ HasFeedback
                           THEN [moduleStates EXCEPT ![m.key] = ApplyGroupState(m.key, m.img)]
                           ELSE moduleStates
    BY <1>18, <2>3 DEF Deliver
  <2>5. \A k \in Key : PendingWrites(k)' = PendingWrites(k)
    BY <2>1 DEF PendingWrites
  <2>6. Reading' <=> Reading
    BY <2>1 DEF Reading
  <2> HIDE DEF m
  <2>7. Awaited(m) /\ Reading => m.kind = "state" /\ m.key = key[cur]
    <3>1. wpc = "read" => op[cur] = "set"
      BY WritingItem
    <3> QED
      BY <2>2, <3>1 DEF Awaited, Reading
  <2>8. Awaited(m) /\ m.kind = "state" => Reading /\ m.key = key[cur]
    BY <2>2 DEF Awaited, Reading
  <2>9. m.kind = "state" /\ Reading /\ reply # NoImage => Awaited(m)
    BY <2>3 DEF Awaited, Reading
  <2>10. CASE ~told
    <3>1. reported' = reported /\ moduleStates' = moduleStates
      BY <2>4, <2>10
    <3>2. Reading => reply' = reply
      BY <2>1, <2>7, <2>10
    <3> QED
      BY <2>1, <2>5, <2>6, <3>1, <3>2 DEF NewsInv, Unstored
  <2>11. CASE told
    <3>0. PICK k \in Key : k = m.key
      BY <2>2, <2>11
    <3>1. k = m.key /\ m.kind = "state" /\ m.img \in Image
      BY <2>2, <2>11, <3>0
    <3>2. reported \in [Key -> Writes] /\ moduleStates \in [Key -> Image]
      BY DEF IInv, TypeOK
    <3>3. /\ \A j \in Key \ {k} : reported'[j] = reported[j] /\ moduleStates'[j] = moduleStates[j]
          /\ \A j \in Key \ {k} : Reading /\ key[cur] = j => reply' = reply
      <4>1. \A j \in Key \ {k} : reported'[j] = reported[j] /\ moduleStates'[j] = moduleStates[j]
        BY <2>4, <3>1, <3>2 DEF Report
      <4>2. ASSUME NEW j \in Key \ {k}, Reading, key[cur] = j PROVE reply' = reply
        BY <2>1, <2>7, <3>1, <4>2
      <4> QED
        BY <4>1, <4>2
    <3>4. ASSUME NEW x \in Chan, reported'[k][x] # NoVal
          PROVE  /\ PendingWrites(k)[x] = NoVal /\ writingSets[k][x] = NoVal
                 /\ reported'[k][x] = m.img[x]
      BY <2>4, <2>11, <3>1, <3>2, <3>4 DEF Report
    <3>5. Unstored(k)' => reply' = m.img
      BY <2>1, <2>6, <2>9, <3>1 DEF Unstored
    <3>6. HasFeedback \/ Unstored(k)'
      <4>1. ~HasFeedback => Awaited(m)
        BY <2>11
      <4>2. Awaited(m) => Reading' /\ key[cur] = k
        BY <2>6, <2>8, <3>1
      <4>3. Awaited(m) => reply' # NoImage
        BY <2>1, <2>2
      <4> QED
        BY <2>1, <4>1, <4>2, <4>3 DEF Unstored
    <3>7. ASSUME NEW x \in Chan, reported'[k][x] # NoVal, HasFeedback
          PROVE  moduleStates'[k][x] = m.img[x]
      <4>1. ApplyGroupState(k, m.img)[x] = m.img[x]
        BY <3>1, <3>4, <3>7, Stored
      <4> QED
        BY <2>4, <3>1, <3>2, <3>7, <4>1
    <3>8. ASSUME NEW j \in Key, NEW x \in Chan, reported'[j][x] # NoVal
          PROVE  /\ PendingWrites(j)[x] = NoVal /\ writingSets[j][x] = NoVal
                 /\ Unstored(j)' => reply'[x] = reported'[j][x]
                 /\ HasFeedback \/ ~Unstored(j)' => moduleStates'[j][x] = reported'[j][x]
      <4>1. CASE j = k
        BY <3>4, <3>5, <3>6, <3>7, <3>8, <4>1 DEF Unstored
      <4>2. CASE j # k
        <5>1. /\ reported'[j] = reported[j] /\ moduleStates'[j] = moduleStates[j]
              /\ Unstored(j)' <=> Unstored(j)
              /\ Unstored(j) => reply' = reply
          BY <2>1, <2>6, <3>3, <4>2 DEF Unstored
        <5>2. /\ PendingWrites(j)[x] = NoVal /\ writingSets[j][x] = NoVal
              /\ Unstored(j) => reply[x] = reported[j][x]
              /\ HasFeedback \/ ~Unstored(j) => moduleStates[j][x] = reported[j][x]
          BY <3>8, <5>1 DEF NewsInv
        <5> QED
          BY <5>1, <5>2
      <4> QED
        BY <4>1, <4>2
    <3> QED
      BY <2>1, <2>5, <3>8 DEF NewsInv
  <2> QED
    BY <2>10, <2>11
<1>19. ASSUME NEW k \in Key, FeedbackPush(k) PROVE FALSE
  BY <1>19 DEF FeedbackPush, Undisturbed
<1>20. ASSUME NEW k \in Key, NEW ch \in Chan, NEW v \in Val, Wall(k, ch, v) PROVE NewsInv'
  BY <1>4, <1>20 DEF Wall
<1>21. ASSUME NEW k \in Key, Age(k) PROVE NewsInv'
  BY <1>4, <1>21 DEF Age
<1>22. CASE UNCHANGED vars
  BY <1>4, <1>22
<1> QED
  BY <1>5, <1>6, <1>7, <1>8, <1>9, <1>10, <1>11, <1>12, <1>13, <1>14, <1>15, <1>16, <1>17,
     <1>18, <1>19, <1>20, <1>21, <1>22 DEF Next, CallStep, WorkerStep, LifecycleStep, EnvStep

\* The frame the worker builds carries what is known.
LEMMA FrameKeeps ==
    ASSUME IInv, PendInv, SendInv, RegInv, NewsInv, [Next]_vars,
           wpc \in {"window", "read"}, wpc' = "lock",
           NEW ch \in Chan, reported'[key[cur]][ch] # NoVal
    PROVE  frame'[ch] = reported'[key[cur]][ch]
<1> USE DEF vars, callVars, getVars, setVars, bufVars, workVars, extVars, histVars
<1> DEFINE k == key[cur]
<1>1. cur \in Call /\ k \in Key /\ op[cur] = "set"
  BY WritingItem DEF Writing
<1>2. WindowEnd \/ ReadDone \/ ReadFail
  <2>1. ~CallStep
    <3>1. ASSUME NEW c \in Call, NEW j \in Key,
                 GetCall(c, j) \/ QueryCall(c, j) \/ \E x \in Chan, v \in Val : SetCall(c, j, x, v)
          PROVE  FALSE
      BY <3>1 DEF GetCall, QueryCall, SetCall
    <3>2. ASSUME NEW c \in Call,
                 \/ PressCall(c) \/ Unblock(c) \/ GetAbandon(c) \/ GetCancelBlocked(c)
                 \/ GetReturn(c) \/ QueryAbandon(c) \/ SetAbandon(c) \/ CancelBlocked(c)
          PROVE  FALSE
      BY <3>2 DEF PressCall, Unblock, GetAbandon, GetCancelBlocked, GetReturn, QueryAbandon,
         SetAbandon, CancelBlocked, LeaveGet
    <3> QED
      BY <3>1, <3>2 DEF CallStep
  <2>2. ~LifecycleStep /\ ~UNCHANGED vars
    BY DEF LifecycleStep, Start, StopBegin, WorkerCancelled, StopFinish, Reset
  <2>3. ~EnvStep
    BY DEF EnvStep, ScanAcquire, ScanRelease, DeviceTakes, Deliver, FeedbackPush, Age, Wall
  <2>4. WorkerStep => WindowEnd \/ ReadDone \/ ReadFail
    BY DEF WorkerStep, PopSkip, PopTake, Acquire, GetAnswered, OtherAnswered, ExchangeFails,
       PressSent, PostDone
  <2> QED
    BY <2>1, <2>2, <2>3, <2>4 DEF Next
<1>3. reported' = reported
  BY <1>2 DEF WindowEnd, ReadDone, ReadFail
<1>4. PendingWrites(k)[ch] = NoVal /\ writingSets[k][ch] = NoVal
  BY <1>1, <1>3 DEF NewsInv
<1>5. CASE WindowEnd
  <2>1. /\ wpc = "window"
        /\ frame' = Overlay(moduleStates[k], chans[cur])
    BY <1>5 DEF WindowEnd, BuildFrame
  <2>2. pendingSetGroups[k] = cur /\ cur # NoCall
    BY <1>1, <2>1, CommandAssumption DEF RegInv
  <2>3. chans[cur][ch] = NoVal
    BY <1>4, <2>2 DEF PendingWrites
  <2>4. moduleStates[k][ch] = reported[k][ch]
    <3>1. ~Unstored(k)
      BY <2>1 DEF Unstored, Reading
    <3> QED
      BY <1>1, <1>3, <3>1 DEF NewsInv
  <2> QED
    BY <1>3, <2>1, <2>3, <2>4 DEF Overlay
<1>6. CASE ReadDone \/ ReadFail
  <2>1. wpc = "read" /\ (reply = NoImage \/ Unstored(k))
    BY <1>6 DEF ReadDone, ReadFail, Unstored, Reading
  <2>2. frame' = Overlay(IF reply = NoImage THEN moduleStates[k] ELSE ApplyGroupState(k, reply), chans[cur])
    BY <1>6 DEF ReadDone, ReadFail, BuildFrame
  <2>3. chans[cur][ch] = NoVal
    BY <1>1, <1>4, <2>1 DEF SendInv, Writing
  <2>4. CASE reply = NoImage
    <3>1. ~Unstored(k)
      BY <2>4 DEF Unstored
    <3>2. moduleStates[k][ch] = reported[k][ch]
      BY <1>1, <1>3, <3>1 DEF NewsInv
    <3> QED
      BY <1>3, <2>2, <2>3, <2>4, <3>2 DEF Overlay
  <2>5. CASE reply # NoImage
    <3>1. reply[ch] = reported[k][ch]
      BY <1>1, <1>3, <2>1, <2>5 DEF NewsInv
    <3>2. ApplyGroupState(k, reply)[ch] = reply[ch]
      BY <1>1, <1>4, Stored
    <3> QED
      BY <1>3, <2>2, <2>3, <2>5, <3>1, <3>2 DEF Overlay
  <2> QED
    BY <2>4, <2>5
<1> QED
  BY <1>2, <1>5, <1>6

\* _refresh_stale_group: a group frame carries, for an output nobody asked to
\* change since the module last reported it, the value it reported, as long as
\* the environment is as Undisturbed says.
THEOREM KeepsReported ==
    ASSUME Undisturbed
    PROVE  Spec => WriteKeepsReported
<1> DEFINE KInv == LineInv /\ PendInv /\ SendInv /\ RegInv /\ OrderInv /\ ReaderInv /\ NewsInv
           Keeps == (wpc \in {"window", "read"} /\ wpc' = "lock") =>
                      \A ch \in Chan : reported'[key[cur]][ch] # NoVal =>
                          frame'[ch] = reported'[key[cur]][ch]
<1>1. Init => KInv
  <2> SUFFICES ASSUME Init PROVE KInv
    OBVIOUS
  <2>1. line = <<>> /\ cur = NoCall /\ wpc = "off"
    BY DEF Init
  <2>2. LineInv /\ OrderInv
    BY <2>1, CommandAssumption DEF LineInv, OrderInv, Reading
  <2>3. PendInv /\ SendInv /\ RegInv
    BY CommandAssumption DEF Init, PendInv, SendInv, RegInv, Writing
  <2>4. ReaderInv /\ NewsInv
    BY DEF Init, ReaderInv, OwnerInv, NewsInv, NoWrites
  <2> QED
    BY <2>2, <2>3, <2>4
<1>2. IInv /\ KInv /\ [Next]_vars => KInv'
  <2>1. HostOps \cap {"stop", "reset"} = {}
    BY DEF Undisturbed
  <2> QED
    BY <2>1, StepLine, StepPend, StepSend, StepReg, StepOrder, StepReader, StepNews
<1>3. IInv /\ KInv /\ [Next]_vars => Keeps
  BY FrameKeeps
<1>4. IInv /\ KInv /\ [Next]_vars => [Keeps]_vars
  BY <1>3
<1> QED
  BY <1>1, <1>2, <1>4, Inductive, PTL DEF Spec, WriteKeepsReported
=============================================================================
