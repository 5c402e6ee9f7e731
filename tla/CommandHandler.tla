---------------------------- MODULE CommandHandler ----------------------------
(***************************************************************************)
(* NikobusCommandHandler (nikobus_connect/command.py): the queue of        *)
(* commands for the Nikobus bus, the single worker that takes them off it, *)
(* the callers that wait for their outcome and the state buffer they all   *)
(* share.                                                                  *)
(*                                                                         *)
(* One step is one stretch of code between two awaits: everything asyncio  *)
(* cannot interrupt.  A call is one invocation of the handler's API and    *)
(* doubles as the identity of the queue item that invocation makes.  A key *)
(* is one output group of one module ("ADDR_group"); a channel is an       *)
(* output of that group.  Time is abstracted: a state is recent or not, a  *)
(* timer may fire at any moment after it was set.                          *)
(*                                                                         *)
(* The modules on the bus, the wall switches, the Feedback Module and the  *)
(* host are external and act whenever they like; HostOps names the ones an *)
(* instance has.  The wire exchange is abstracted to its outcome: the      *)
(* module takes the frame any number of times, its answer comes through or *)
(* is lost, the worker sees it or gives up.                                *)
(***************************************************************************)
EXTENDS Naturals, Sequences

CONSTANTS
    Call,         \* invocations of the handler's API, each made at most once
    Key,          \* output groups of modules
    Chan,         \* outputs of a group
    Val,          \* values of an output
    Off,          \* the value a buffer that was never read holds
    NoCall, NoKey, NoVal, NoImage,
    QueueMax,     \* maxsize of the command queue
    LineMax,      \* bound: state frames and answers in flight to the listener
    HasFeedback,  \* whether the installation has a Feedback Module
    ApiOps,       \* the operations the callers of this instance use
    HostOps       \* what the environment of this instance may do

\* Everything the environment may do besides calling the API.
AllHostOps ==
    {"stop", "reset", "abandon", "cancelput", "wall", "push", "scan", "age"}

ASSUME CommandAssumption ==
    /\ Off \in Val /\ NoVal \notin Val
    /\ NoCall \notin Call /\ NoKey \notin Key
    /\ NoImage \notin [Chan -> Val]
    /\ QueueMax \in Nat \ {0} /\ LineMax \in Nat \ {0}
    /\ HasFeedback \in BOOLEAN
    /\ HostOps \subseteq AllHostOps
    /\ ApiOps \subseteq {"get", "set", "query", "press"}

VARIABLES
    op,      \* op[c]: what the call asked for, "none" before it is made
    key,     \* key[c]: the group it is about
    caller,  \* caller[c]: where the calling coroutine is
    loc,     \* loc[c]: where the call's queue item is
    fut,     \* fut[c]: the item's future ("none": the item has none)
    joins,   \* joins[c]: the item whose future a set call follows
    chans,   \* chans[c]: the channel writes the item carries
    commandQueue,       \* _command_queue
    pendingGetFutures,  \* _pending_get_futures: the calls waiting on a group
    queuedGetKeys,      \* _queued_get_keys: the item that owns the dedup key
    pendingSetGroups,   \* _pending_set_groups: the item that takes joiners
    writingSets,        \* _writing_sets: the writes of the frame being sent
    moduleStates,       \* _module_states: the shared buffer
    recent,  \* recent[k]: _group_known_at is within SET_READ_BEFORE_WRITE_S
    wpc,     \* where the worker task is
    cur,     \* the item it works on
    frame,   \* the group frame it built
    reply,   \* the awaited answer, once the listener queued it
    stopping,  \* stop() waits for the worker task to end
    busLock,   \* bus_lock
    dev,     \* the outputs as they are (external)
    line,    \* frames on their way to the listener, oldest first
    lastSet, \* history: the item that carries the last write of an output
    old,     \* history: the calls made before the last stop(), but for those
             \* whose item was still waiting for a place in the queue
    reported \* history: what the module last said of an output nobody here
             \* asked to change since ("not known": NoVal)

callVars  == <<op, key, caller, loc, fut, joins, chans>>
getVars   == <<pendingGetFutures, queuedGetKeys>>
setVars   == <<pendingSetGroups, writingSets>>
bufVars   == <<moduleStates, recent>>
workVars  == <<wpc, cur, frame, reply, stopping>>
extVars   == <<dev, line>>
histVars  == <<lastSet, old, reported>>
vars == <<callVars, commandQueue, getVars, setVars, bufVars, workVars,
          busLock, extVars, histVars>>

Image    == [Chan -> Val]
Writes   == [Chan -> Val \cup {NoVal}]
NoWrites == [ch \in Chan |-> NoVal]

Ops     == {"none", "get", "set", "query", "press"}
Settled == {"result", "error", "cancelled"}

\* The worker has taken the group's frame off the joinable items.
Writing == {"rlock", "read", "lock", "exch", "post"}

\* A frame on the line: a pushed state, a state answer or another answer.
Frames == [kind : {"push", "state", "done"}, who : Call \cup {NoCall},
           key : Key \cup {NoKey}, img : Image]

TypeOK ==
    /\ op \in [Call -> Ops]
    /\ key \in [Call -> Key \cup {NoKey}]
    /\ caller \in [Call -> {"idle", "calling", "returned"}]
    /\ loc \in [Call -> {"none", "put", "queue", "worker", "gone"}]
    /\ fut \in [Call -> {"none", "pending"} \cup Settled]
    /\ joins \in [Call -> Call \cup {NoCall}]
    /\ chans \in [Call -> Writes]
    /\ commandQueue \in Seq(Call)
    /\ Len(commandQueue) <= QueueMax
    /\ pendingGetFutures \in [Key -> SUBSET Call]
    /\ queuedGetKeys \in [Key -> Call \cup {NoCall}]
    /\ pendingSetGroups \in [Key -> Call \cup {NoCall}]
    /\ writingSets \in [Key -> Writes]
    /\ moduleStates \in [Key -> Image]
    /\ recent \in [Key -> BOOLEAN]
    /\ wpc \in {"off", "idle", "window"} \cup Writing
    /\ cur \in Call \cup {NoCall}
    /\ frame \in Image \cup {NoImage}
    /\ reply \in Image \cup {NoImage}
    /\ stopping \in BOOLEAN
    /\ busLock \in {"free", "worker", "scan"}
    /\ dev \in [Key -> Image]
    /\ line \in Seq(Frames)
    /\ lastSet \in [Key -> [Chan -> Call \cup {NoCall}]]
    /\ old \subseteq Call
    /\ reported \in [Key -> Writes]

Init ==
    /\ op = [c \in Call |-> "none"]
    /\ key = [c \in Call |-> NoKey]
    /\ caller = [c \in Call |-> "idle"]
    /\ loc = [c \in Call |-> "none"]
    /\ fut = [c \in Call |-> "none"]
    /\ joins = [c \in Call |-> NoCall]
    /\ chans = [c \in Call |-> NoWrites]
    /\ commandQueue = <<>>
    /\ pendingGetFutures = [k \in Key |-> {}]
    /\ queuedGetKeys = [k \in Key |-> NoCall]
    /\ pendingSetGroups = [k \in Key |-> NoCall]
    /\ writingSets = [k \in Key |-> NoWrites]
    /\ moduleStates = [k \in Key |-> [ch \in Chan |-> Off]]
    /\ recent = [k \in Key |-> FALSE]
    /\ wpc = "off" /\ cur = NoCall /\ frame = NoImage /\ reply = NoImage
    /\ stopping = FALSE
    /\ busLock = "free"
    /\ dev \in [Key -> Image]
    /\ line = <<>>
    /\ lastSet = [k \in Key |-> [ch \in Chan |-> NoCall]]
    /\ old = {}
    /\ reported = [k \in Key |-> NoWrites]

-----------------------------------------------------------------------------
(* Futures, keys and the buffer. *)

Done(c) == fut[c] \in Settled

\* set_result, set_exception or cancel on every future of S not done yet.
Settle(S, outcome) ==
    [c \in Call |-> IF c \in S /\ fut[c] = "pending" THEN outcome ELSE fut[c]]

\* Mutants: any read popped frees its group's key; or none does.
ReleaseGetKeyUnowned(c) ==
    [k \in Key |-> IF op[c] = "get" /\ key[c] = k THEN NoCall ELSE queuedGetKeys[k]]
ReleaseGetKeyNever(c) == queuedGetKeys

\* _release_get_key: only the item that owns the dedup key frees it.
ReleaseGetKey(c) ==
    [k \in Key |-> IF queuedGetKeys[k] = c THEN NoCall ELSE queuedGetKeys[k]]

\* clear() of the dedup keys and of the joinable items.
ClearGetKeys == [k \in Key |-> NoCall]
ClearSetGroups == [k \in Key |-> NoCall]

\* Mutant: the item stays joinable while its frame is sent.
ReleaseSetGroupNever(c) == pendingSetGroups

\* Unregister a set item, so that a later request queues anew.
ReleaseSetGroup(c) ==
    [k \in Key |-> IF pendingSetGroups[k] = c THEN NoCall ELSE pendingSetGroups[k]]

\* The writes w laid over the image.
Overlay(image, w) ==
    [ch \in Chan |-> IF w[ch] = NoVal THEN image[ch] ELSE w[ch]]

PendingWrites(k) ==
    IF pendingSetGroups[k] = NoCall THEN NoWrites ELSE chans[pendingSetGroups[k]]

\* Mutant: the writes being sent are not laid on top again.
ApplyGroupStatePendingOnly(k, image) == Overlay(image, PendingWrites(k))

\* apply_group_state: the reported image, the writes still waiting for their
\* frame on top of it, the writes being sent on top of those.
ApplyGroupState(k, image) ==
    Overlay(Overlay(image, PendingWrites(k)), writingSets[k])

\* The history of a report the listener hands to the host or to the worker.
Report(k, image) ==
    [reported EXCEPT ![k] = [ch \in Chan |->
        IF PendingWrites(k)[ch] = NoVal /\ writingSets[k][ch] = NoVal
        THEN image[ch] ELSE NoVal]]

\* Mutant: one item more than maxsize.
PutOffByOne(c) ==
    IF Len(commandQueue) <= QueueMax
    THEN /\ commandQueue' = Append(commandQueue, c)
         /\ loc' = [loc EXCEPT ![c] = "queue"]
    ELSE /\ loc' = [loc EXCEPT ![c] = "put"]
         /\ UNCHANGED commandQueue

\* _command_queue.put: suspends the caller while the queue is full.
Put(c) ==
    IF Len(commandQueue) < QueueMax
    THEN /\ commandQueue' = Append(commandQueue, c)
         /\ loc' = [loc EXCEPT ![c] = "queue"]
    ELSE /\ loc' = [loc EXCEPT ![c] = "put"]
         /\ UNCHANGED commandQueue

-----------------------------------------------------------------------------
(* The API. *)

MakeCall(c, what, k) ==
    /\ what \in ApiOps
    /\ caller[c] = "idle"
    /\ op' = [op EXCEPT ![c] = what]
    /\ key' = [key EXCEPT ![c] = k]
    /\ caller' = [caller EXCEPT ![c] = "calling"]

\* get_output_state up to its first suspension: join the group's waiters, then
\* queue a read unless the dedup key shows that one is queued already.
GetCall(c, k) ==
    /\ MakeCall(c, "get", k)
    /\ fut' = [fut EXCEPT ![c] = "pending"]
    /\ pendingGetFutures' = [pendingGetFutures EXCEPT ![k] = @ \cup {c}]
    /\ IF queuedGetKeys[k] # NoCall
       THEN UNCHANGED <<queuedGetKeys, commandQueue, loc>>
       ELSE /\ queuedGetKeys' = [queuedGetKeys EXCEPT ![k] = c]
            /\ Put(c)
    /\ UNCHANGED <<joins, chans, setVars, bufVars, workVars, busLock, extVars, histVars>>

\* set_output_state: the buffer is written now; the write joins the group's
\* waiting item or makes, registers and queues one.
SetCall(c, k, ch, v) ==
    LET pending == pendingSetGroups[k]
        item    == IF pending = NoCall THEN c ELSE pending
    IN
    /\ MakeCall(c, "set", k)
    /\ moduleStates' = [moduleStates EXCEPT ![k][ch] = v]
    /\ joins' = [joins EXCEPT ![c] = item]
    /\ chans' = [chans EXCEPT ![item][ch] = v]
    /\ lastSet' = [lastSet EXCEPT ![k][ch] = item]
    /\ reported' = [reported EXCEPT ![k][ch] = NoVal]
    /\ IF pending # NoCall
       THEN UNCHANGED <<fut, pendingSetGroups, commandQueue, loc>>
       ELSE /\ fut' = [fut EXCEPT ![c] = "pending"]
            /\ pendingSetGroups' = [pendingSetGroups EXCEPT ![k] = c]
            /\ Put(c)
    /\ UNCHANGED <<getVars, writingSets, recent, workVars, busLock, extVars, old>>

\* query: a read of the module's registers, never deduplicated.
QueryCall(c, k) ==
    /\ MakeCall(c, "query", k)
    /\ fut' = [fut EXCEPT ![c] = "pending"]
    /\ Put(c)
    /\ UNCHANGED <<joins, chans, getVars, setVars, bufVars, workVars, busLock,
                   extVars, histVars>>

\* queue_command without an address: a button press, sent and not answered.
PressCall(c) ==
    /\ MakeCall(c, "press", NoKey)
    /\ Put(c)
    /\ UNCHANGED <<fut, joins, chans, getVars, setVars, bufVars, workVars, busLock,
                   extVars, histVars>>

\* A caller suspended in put resumes once the queue has room.
Unblock(c) ==
    /\ loc[c] = "put"
    /\ Len(commandQueue) < QueueMax
    /\ Put(c)
    /\ UNCHANGED <<op, key, caller, fut, joins, chans, getVars, setVars, bufVars,
                   workVars, busLock, extVars, histVars>>

\* The exit of get_output_state: leave the waiters; on a timeout or a
\* cancellation also free the dedup key if this call's item owns it.
LeaveGet(c, freeKey) ==
    /\ caller' = [caller EXCEPT ![c] = "returned"]
    /\ pendingGetFutures' = [k \in Key |-> pendingGetFutures[k] \ {c}]
    /\ queuedGetKeys' = IF freeKey THEN ReleaseGetKey(c) ELSE queuedGetKeys
    /\ UNCHANGED <<op, key, joins, chans, commandQueue, setVars, bufVars, workVars,
                   busLock, extVars, histVars>>

\* The caller gives up: COMMAND_ACK_WAIT_TIMEOUT, or its task is cancelled.
GetAbandon(c) ==
    /\ "abandon" \in HostOps
    /\ op[c] = "get" /\ caller[c] = "calling" /\ loc[c] # "put"
    /\ fut[c] = "pending"
    /\ fut' = Settle({c}, "cancelled")
    /\ LeaveGet(c, TRUE)
    /\ UNCHANGED loc

\* The same while the caller is suspended in put: the item is never queued.
GetCancelBlocked(c) ==
    /\ "cancelput" \in HostOps
    /\ op[c] = "get" /\ caller[c] = "calling" /\ loc[c] = "put"
    /\ fut' = Settle({c}, "cancelled")
    /\ loc' = [loc EXCEPT ![c] = "gone"]
    /\ LeaveGet(c, TRUE)

\* The future was answered, failed or cancelled by someone else.
GetReturn(c) ==
    /\ op[c] = "get" /\ caller[c] = "calling" /\ loc[c] # "put"
    /\ Done(c)
    /\ LeaveGet(c, fut[c] = "cancelled")
    /\ UNCHANGED <<fut, loc>>

\* wait_for in query times out and cancels the item's own future.
QueryAbandon(c) ==
    /\ "abandon" \in HostOps
    /\ op[c] = "query" /\ caller[c] = "calling" /\ loc[c] # "put"
    /\ fut[c] = "pending"
    /\ fut' = Settle({c}, "cancelled")
    /\ caller' = [caller EXCEPT ![c] = "returned"]
    /\ UNCHANGED <<op, key, loc, joins, chans, commandQueue, getVars, setVars, bufVars,
                   workVars, busLock, extVars, histVars>>

\* Mutant: the caller is handed the shared future itself.
SetAbandonShared(c) ==
    /\ "abandon" \in HostOps
    /\ op[c] = "set" /\ caller[c] = "calling" /\ loc[c] # "put"
    /\ fut[joins[c]] = "pending"
    /\ fut' = Settle({joins[c]}, "cancelled")
    /\ caller' = [caller EXCEPT ![c] = "returned"]
    /\ UNCHANGED <<op, key, loc, joins, chans, commandQueue, getVars, setVars,
                   bufVars, workVars, busLock, extVars, histVars>>

\* A set caller gives up on the future it got from _derived_future: its own
\* view is cancelled, the item's future is not.
SetAbandon(c) ==
    /\ "abandon" \in HostOps
    /\ op[c] = "set" /\ caller[c] = "calling" /\ loc[c] # "put"
    /\ fut[joins[c]] = "pending"
    /\ caller' = [caller EXCEPT ![c] = "returned"]
    /\ UNCHANGED <<op, key, loc, fut, joins, chans, commandQueue, getVars, setVars,
                   bufVars, workVars, busLock, extVars, histVars>>

\* A set, query or press cancelled while suspended in put: the exception
\* leaves the coroutine at the put, nothing is undone.
CancelBlocked(c) ==
    /\ "cancelput" \in HostOps
    /\ op[c] # "get" /\ loc[c] = "put"
    /\ loc' = [loc EXCEPT ![c] = "gone"]
    /\ caller' = [caller EXCEPT ![c] = "returned"]
    /\ UNCHANGED <<op, key, fut, joins, chans, commandQueue, getVars, setVars, bufVars,
                   workVars, busLock, extVars, histVars>>

-----------------------------------------------------------------------------
(* The worker: _process_commands. *)

\* The callers an exchange answers or fails besides its item's own.
FoldedInto(c) == IF op[c] = "get" THEN pendingGetFutures[key[c]] ELSE {}

\* Mutant: the lock taken for the read before a write is kept.
ReleaseBusNotAfterRead == busLock' = IF wpc = "read" THEN busLock ELSE "free"

\* The worker leaves the lock's async with block.
ReleaseBus == busLock' = "free"

\* Mutant: an answered item is skipped whoever else waits on it.
StaleOwnerOnly(c) == Done(c)

\* The item's caller is served or gone, and nobody else waits on its read.
Stale(c) ==
    /\ Done(c)
    /\ \A w \in FoldedInto(c) : Done(w)

PopSkip ==
    /\ wpc = "idle" /\ ~stopping /\ commandQueue # <<>>
    /\ LET c == Head(commandQueue) IN
        /\ Stale(c)
        /\ queuedGetKeys' = ReleaseGetKey(c)
        /\ pendingSetGroups' = ReleaseSetGroup(c)
        /\ loc' = [loc EXCEPT ![c] = "gone"]
    /\ commandQueue' = Tail(commandQueue)
    /\ UNCHANGED <<op, key, caller, fut, joins, chans, pendingGetFutures, writingSets,
                   bufVars, workVars, busLock, extVars, histVars>>

PopTake ==
    /\ wpc = "idle" /\ ~stopping /\ commandQueue # <<>>
    /\ LET c == Head(commandQueue) IN
        /\ ~Stale(c)
        /\ queuedGetKeys' = ReleaseGetKey(c)
        /\ loc' = [loc EXCEPT ![c] = "worker"]
        /\ cur' = c
        /\ wpc' = IF op[c] = "set" THEN "window" ELSE "lock"
    /\ commandQueue' = Tail(commandQueue)
    /\ UNCHANGED <<op, key, caller, fut, joins, chans, pendingGetFutures, setVars,
                   bufVars, frame, reply, stopping, busLock, extVars, histVars>>

\* Mutants: the frame is taken from the buffer as it stands; or it carries the
\* request's own outputs only.
BuildFrameRequestOnly(buffer) ==
    LET image == Overlay([ch \in Chan |-> Off], chans[cur]) IN
    /\ moduleStates' = [moduleStates EXCEPT ![key[cur]] = Overlay(buffer, chans[cur])]
    /\ frame' = image
    /\ wpc' = "lock"

BuildFrameNoReapply(buffer) ==
    /\ moduleStates' = [moduleStates EXCEPT ![key[cur]] = buffer]
    /\ frame' = buffer
    /\ wpc' = "lock"

\* The item's writes are applied again and the frame is taken from the buffer.
BuildFrame(buffer) ==
    LET image == Overlay(buffer, chans[cur]) IN
    /\ moduleStates' = [moduleStates EXCEPT ![key[cur]] = image]
    /\ frame' = image
    /\ wpc' = "lock"

\* The coalescing window is over: no more joiners, and unless the group's
\* state is recent it is read before the frame is built.
WindowEnd ==
    /\ wpc = "window" /\ ~stopping
    /\ pendingSetGroups' = ReleaseSetGroup(cur)
    /\ writingSets' = [writingSets EXCEPT ![key[cur]] = chans[cur]]
    /\ IF recent[key[cur]]
       THEN BuildFrame(moduleStates[key[cur]])
       ELSE wpc' = "rlock" /\ UNCHANGED <<moduleStates, frame>>
    /\ UNCHANGED <<callVars, commandQueue, getVars, recent, cur, reply, stopping,
                   busLock, extVars, histVars>>

\* async with bus_lock, for the read before the write and for the exchange.
Acquire ==
    /\ wpc \in {"rlock", "lock"} /\ ~stopping
    /\ busLock = "free"
    /\ busLock' = "worker"
    /\ wpc' = IF wpc = "rlock" THEN "read" ELSE "exch"
    /\ reply' = NoImage
    /\ UNCHANGED <<callVars, commandQueue, getVars, setVars, bufVars, cur, frame,
                   stopping, extVars, histVars>>

\* _refresh_stale_group got its answer: stored, and handed to waiting reads.
ReadDone ==
    LET k == key[cur] IN
    /\ wpc = "read" /\ ~stopping /\ reply # NoImage
    /\ BuildFrame(ApplyGroupState(k, reply))
    /\ recent' = [recent EXCEPT ![k] = TRUE]
    /\ fut' = Settle(pendingGetFutures[k], "result")
    /\ ReleaseBus /\ reply' = NoImage
    /\ UNCHANGED <<op, key, caller, loc, joins, chans, commandQueue, getVars, setVars,
                   cur, stopping, extVars, histVars>>

\* It got none: the write goes ahead from the buffer as it is.
ReadFail ==
    /\ wpc = "read" /\ ~stopping /\ reply = NoImage
    /\ BuildFrame(moduleStates[key[cur]])
    /\ ReleaseBus
    /\ UNCHANGED <<callVars, commandQueue, getVars, setVars, recent, cur, reply,
                   stopping, extVars, histVars>>

\* The exchange of a state read answered: its own future, then every caller
\* folded into it.  The host stores the answer it is given.
GetAnswered ==
    LET k == key[cur]
        S == {cur} \cup FoldedInto(cur)
    IN
    /\ wpc = "exch" /\ ~stopping /\ op[cur] = "get" /\ reply # NoImage
    /\ fut' = Settle(S, "result")
    /\ recent' = [recent EXCEPT ![k] = TRUE]
    /\ moduleStates' = IF \E c \in S : fut[c] = "pending"
                       THEN [moduleStates EXCEPT ![k] = ApplyGroupState(k, reply)]
                       ELSE moduleStates
    /\ ReleaseBus /\ reply' = NoImage
    /\ wpc' = "post"
    /\ UNCHANGED <<op, key, caller, loc, joins, chans, commandQueue, getVars, setVars,
                   cur, frame, stopping, extVars, histVars>>

\* A group write or a query answered.  After a write the module holds the frame.
OtherAnswered ==
    /\ wpc = "exch" /\ ~stopping /\ op[cur] \in {"set", "query"} /\ reply # NoImage
    /\ fut' = Settle({cur}, "result")
    /\ recent' = IF op[cur] = "set" THEN [recent EXCEPT ![key[cur]] = TRUE] ELSE recent
    /\ ReleaseBus /\ reply' = NoImage
    /\ wpc' = "post"
    /\ UNCHANGED <<op, key, caller, loc, joins, chans, commandQueue, getVars, setVars,
                   moduleStates, cur, frame, stopping, extVars, histVars>>

\* Every attempt failed: the item's future, and for a read every folded caller.
ExchangeFails ==
    /\ wpc = "exch" /\ ~stopping /\ op[cur] # "press" /\ reply = NoImage
    /\ fut' = Settle({cur} \cup FoldedInto(cur), "error")
    /\ ReleaseBus
    /\ wpc' = "post"
    /\ UNCHANGED <<op, key, caller, loc, joins, chans, commandQueue, getVars, setVars,
                   bufVars, cur, frame, reply, stopping, extVars, histVars>>

\* A press is written on the connection; a send error changes nothing here.
PressSent ==
    /\ wpc = "exch" /\ ~stopping /\ op[cur] = "press"
    /\ ReleaseBus
    /\ wpc' = "post"
    /\ UNCHANGED <<callVars, commandQueue, getVars, setVars, bufVars, cur, frame, reply,
                   stopping, extVars, histVars>>

ClearWriting ==
    writingSets' = IF cur # NoCall /\ op[cur] = "set"
                   THEN [writingSets EXCEPT ![key[cur]] = NoWrites] ELSE writingSets

\* The completion or failure handlers have run; the finally block.
PostDone ==
    /\ wpc = "post" /\ ~stopping
    /\ ClearWriting
    /\ loc' = [loc EXCEPT ![cur] = "gone"]
    /\ wpc' = "idle" /\ cur' = NoCall /\ frame' = NoImage /\ reply' = NoImage
    /\ UNCHANGED <<op, key, caller, fut, joins, chans, commandQueue, getVars,
                   pendingSetGroups, bufVars, stopping, busLock, extVars, histVars>>

-----------------------------------------------------------------------------
(* Lifecycle: start, stop, reset. *)

Start ==
    /\ wpc = "off" /\ ~stopping
    /\ wpc' = "idle"
    /\ UNCHANGED <<callVars, commandQueue, getVars, setVars, bufVars, cur, frame, reply,
                   stopping, busLock, extVars, histVars>>

\* The call's item, its own or the one it joined, is past the put.
Placed(c) == loc[c] # "put" /\ (joins[c] # NoCall => loc[joins[c]] # "put")

\* stop up to its await: waiting reads are cancelled, the worker is told to end.
StopBegin ==
    /\ "stop" \in HostOps
    /\ wpc # "off" /\ ~stopping
    /\ stopping' = TRUE
    /\ fut' = Settle(UNION {pendingGetFutures[k] : k \in Key}, "cancelled")
    /\ pendingGetFutures' = [k \in Key |-> {}]
    /\ queuedGetKeys' = ClearGetKeys
    /\ old' = {c \in Call : caller[c] # "idle" /\ Placed(c)}
    /\ UNCHANGED <<op, key, caller, loc, joins, chans, commandQueue, setVars, bufVars,
                   wpc, cur, frame, reply, busLock, extVars, lastSet, reported>>

\* Mutant: only a call on the wire is released, not one in its coalescing
\* window or waiting for the lock.
CancelledByStopOnWire == IF wpc = "exch" THEN {cur} ELSE {}

\* The futures the worker's own except clause cancels.
CancelledByStop == {cur}

\* CancelledError reaches the worker wherever it is suspended.
WorkerCancelled ==
    /\ stopping /\ wpc # "off"
    /\ wpc' = "off" /\ cur' = NoCall /\ frame' = NoImage /\ reply' = NoImage
    /\ fut' = Settle(CancelledByStop, "cancelled")
    /\ loc' = IF cur # NoCall THEN [loc EXCEPT ![cur] = "gone"] ELSE loc
    /\ ClearWriting
    /\ busLock' = IF busLock = "worker" THEN "free" ELSE busLock
    /\ UNCHANGED <<op, key, caller, joins, chans, commandQueue, getVars,
                   pendingSetGroups, bufVars, stopping, extVars, histVars>>

\* Mutant: the futures are cancelled, the items stay queued.
DrainQueueFuturesOnly ==
    /\ fut' = Settle({c \in Call : loc[c] = "queue"}, "cancelled")
    /\ UNCHANGED <<commandQueue, loc>>

\* drain_queue: every queued item is dropped and its future cancelled.
DrainQueue ==
    /\ commandQueue' = <<>>
    /\ fut' = Settle({c \in Call : loc[c] = "queue"}, "cancelled")
    /\ loc' = [c \in Call |-> IF loc[c] = "queue" THEN "gone" ELSE loc[c]]

\* The rest of stop.
StopFinish ==
    /\ stopping /\ wpc = "off"
    /\ stopping' = FALSE
    /\ DrainQueue
    /\ queuedGetKeys' = [k \in Key |-> IF queuedGetKeys[k] # NoCall
                                          /\ loc[queuedGetKeys[k]] = "queue"
                                       THEN NoCall ELSE queuedGetKeys[k]]
    /\ pendingSetGroups' = ClearSetGroups
    /\ writingSets' = [k \in Key |-> NoWrites]
    /\ UNCHANGED <<op, key, caller, joins, chans, pendingGetFutures, bufVars, wpc, cur,
                   frame, reply, busLock, extVars, histVars>>

\* reset: the backlog is dropped after a reconnect, the worker keeps running.
\* The host calls it on a handler it has started and is not stopping.
Reset ==
    /\ "reset" \in HostOps
    /\ wpc # "off" /\ ~stopping
    /\ DrainQueue
    /\ queuedGetKeys' = ClearGetKeys
    /\ pendingSetGroups' = ClearSetGroups
    /\ UNCHANGED <<op, key, caller, joins, chans, pendingGetFutures, writingSets,
                   bufVars, workVars, busLock, extVars, histVars>>

-----------------------------------------------------------------------------
(* The environment. *)

\* The register scan of a discovery takes bus_lock for one register.
ScanAcquire ==
    /\ "scan" \in HostOps
    /\ busLock = "free" /\ busLock' = "scan"
    /\ UNCHANGED <<callVars, commandQueue, getVars, setVars, bufVars, workVars, extVars,
                   histVars>>

ScanRelease ==
    /\ busLock = "scan" /\ busLock' = "free"
    /\ UNCHANGED <<callVars, commandQueue, getVars, setVars, bufVars, workVars, extVars,
                   histVars>>

StateFrame(kind, who, k) ==
    [kind |-> kind, who |-> who, key |-> k, img |-> dev[k]]

\* An acknowledgement or a query's reply: carries no output state.
DoneFrame(who, k) ==
    [kind |-> "done", who |-> who, key |-> k, img |-> [ch \in Chan |-> Off]]

\* The module takes a command on an attempt of the exchange; its answer is put
\* on the line, or lost.
DeviceTakes ==
    LET k == key[cur] IN
    /\ wpc \in {"read", "exch"} /\ ~stopping /\ op[cur] # "press" /\ reply = NoImage
    /\ Len(line) < LineMax
    /\ IF wpc = "read" \/ op[cur] = "get"
       THEN line' = Append(line, StateFrame("state", cur, k)) /\ UNCHANGED dev
       ELSE /\ dev' = IF op[cur] = "set" THEN [dev EXCEPT ![k] = frame] ELSE dev
            /\ \/ line' = Append(line, DoneFrame(cur, k))
               \/ UNCHANGED line
    /\ UNCHANGED <<callVars, commandQueue, getVars, setVars, bufVars, workVars, busLock,
                   histVars>>

\* The Feedback Module makes a module report a group nobody here asked for.
FeedbackPush(k) ==
    /\ "push" \in HostOps /\ HasFeedback
    /\ Len(line) < LineMax
    /\ line' = Append(line, StateFrame("push", NoCall, k))
    /\ UNCHANGED <<callVars, commandQueue, getVars, setVars, bufVars, workVars, busLock,
                   dev, histVars>>

\* The worker is in the exchange the frame answers.
Awaited(m) ==
    /\ m.who = cur
    /\ \/ m.kind = "state" /\ (wpc = "read" \/ (wpc = "exch" /\ op[cur] = "get"))
       \/ m.kind = "done" /\ wpc = "exch"

\* The listener takes the oldest frame off the line.  With a Feedback Module
\* every state frame goes to the host, which stores it and resolves waiting
\* reads (the fast path); the awaited answer goes to the worker too.
Deliver ==
    /\ line # <<>>
    /\ LET m == Head(line)
           toHost == HasFeedback /\ m.kind # "done"
       IN
        /\ fut' = IF toHost THEN Settle(pendingGetFutures[m.key], "result") ELSE fut
        /\ moduleStates' = IF toHost
                           THEN [moduleStates EXCEPT ![m.key] = ApplyGroupState(m.key, m.img)]
                           ELSE moduleStates
        /\ reported' = IF toHost \/ (m.kind = "state" /\ Awaited(m))
                       THEN Report(m.key, m.img) ELSE reported
        /\ recent' = IF toHost THEN [recent EXCEPT ![m.key] = TRUE] ELSE recent
        /\ reply' = IF Awaited(m) THEN m.img ELSE reply
    /\ line' = Tail(line)
    /\ UNCHANGED <<op, key, caller, loc, joins, chans, commandQueue, getVars, setVars,
                   wpc, cur, frame, stopping, busLock, dev, lastSet, old>>

\* Someone operates an output at the wall.
Wall(k, ch, v) ==
    /\ "wall" \in HostOps
    /\ dev[k][ch] # v
    /\ dev' = [dev EXCEPT ![k][ch] = v]
    /\ lastSet' = [lastSet EXCEPT ![k][ch] = NoCall]
    /\ UNCHANGED <<callVars, commandQueue, getVars, setVars, bufVars, workVars, busLock,
                   line, old, reported>>

\* SET_READ_BEFORE_WRITE_S passes without news of the group.
Age(k) ==
    /\ "age" \in HostOps
    /\ recent[k]
    /\ recent' = [recent EXCEPT ![k] = FALSE]
    /\ UNCHANGED <<callVars, commandQueue, getVars, setVars, moduleStates, workVars,
                   busLock, extVars, histVars>>

CallStep ==
    \/ \E c \in Call :
        \/ \E k \in Key :
            \/ GetCall(c, k)
            \/ QueryCall(c, k)
            \/ \E ch \in Chan, v \in Val : SetCall(c, k, ch, v)
        \/ PressCall(c)
        \/ Unblock(c)
        \/ GetAbandon(c)
        \/ GetCancelBlocked(c)
        \/ GetReturn(c)
        \/ QueryAbandon(c)
        \/ SetAbandon(c)
        \/ CancelBlocked(c)

WorkerStep ==
    \/ PopSkip \/ PopTake \/ WindowEnd \/ Acquire \/ ReadDone \/ ReadFail
    \/ GetAnswered \/ OtherAnswered \/ ExchangeFails \/ PressSent \/ PostDone

LifecycleStep ==
    \/ Start \/ StopBegin \/ WorkerCancelled \/ StopFinish \/ Reset

EnvStep ==
    \/ ScanAcquire \/ ScanRelease \/ DeviceTakes \/ Deliver
    \/ \E k \in Key :
        \/ FeedbackPush(k)
        \/ Age(k)
        \/ \E ch \in Chan, v \in Val : Wall(k, ch, v)

Next == CallStep \/ WorkerStep \/ LifecycleStep \/ EnvStep

Spec == Init /\ [][Next]_vars

\* What asyncio and the timers grant: a coroutine that can resume does, the
\* exchange ends by its answer or its timeouts, asyncio.Lock is first come
\* first served (a lock that is free again and again is got), the scan gives
\* the lock back, a caller suspended in put resumes.  Nothing is assumed of
\* the modules, of the callers' own timeouts or of the environment.
Fairness ==
    /\ WF_vars(Start)
    /\ WF_vars(PopSkip) /\ WF_vars(PopTake) /\ WF_vars(WindowEnd)
    /\ SF_vars(Acquire)
    /\ WF_vars(ReadDone) /\ WF_vars(ReadFail)
    /\ WF_vars(GetAnswered) /\ WF_vars(OtherAnswered) /\ WF_vars(ExchangeFails)
    /\ WF_vars(PressSent) /\ WF_vars(PostDone)
    /\ WF_vars(ScanRelease)
    /\ \A c \in Call : WF_vars(Unblock(c))

FairSpec == Spec /\ Fairness

-----------------------------------------------------------------------------
(* Properties. *)

InQueue(c) == \E i \in DOMAIN commandQueue : commandQueue[i] = c

\* Queued, or about to be once the queue has room.
Coming(c) == InQueue(c) \/ loc[c] = "put"

\* _queued_get_keys: "Only the owner releases the key": the dedup key of a
\* group is held only by a read that is still to be popped.  A key left
\* behind by a read that was popped, dropped or abandoned would fold every
\* later read of the group into nothing.
GetKeyOwnerQueued ==
    \A k \in Key : queuedGetKeys[k] # NoCall =>
        LET c == queuedGetKeys[k] IN op[c] = "get" /\ key[c] = k /\ Coming(c)

\* The dedup key's purpose (queue_command): of the reads of one group that
\* are still to be popped, at most one has a caller waiting on its own future.
OneLiveRead ==
    \A c, d \in Call :
        (/\ op[c] = "get" /\ op[d] = "get" /\ key[c] = key[d]
         /\ Coming(c) /\ Coming(d)
         /\ fut[c] = "pending" /\ fut[d] = "pending") => c = d

\* get_output_state: a caller whose command was deduplicated "does not wait out
\* the timeout": as long as it waits, a read of its group is queued or on the
\* wire.
FoldedCallerServed ==
    \A k \in Key : \A w \in pendingGetFutures[k] : fut[w] = "pending" =>
        \E c \in Call :
            /\ op[c] = "get" /\ key[c] = k
            /\ Coming(c) \/ (cur = c /\ wpc \in {"lock", "exch"})

\* _derived_future: no request joins "a frame that would never be sent": the
\* item registered as a group's pending write is still to be popped or in its
\* coalescing window (or stop is about to clear the registration).
JoinableItemComing ==
    \A k \in Key : pendingSetGroups[k] # NoCall =>
        LET c == pendingSetGroups[k] IN
        /\ op[c] = "set" /\ key[c] = k
        /\ Coming(c) \/ (cur = c /\ wpc = "window") \/ stopping

\* set_output_state: a caller that gives up leaves "the shared future, the
\* queued frame and the other callers untouched": without a stop or a reset
\* a write is acknowledged or fails, it is never cancelled.
WriteNotCancelled ==
    \A c \in Call : op[c] = "set" => fut[c] # "cancelled"

\* _process_commands: an acknowledged write that nothing later asked to change
\* (no newer request, nobody at the wall) is what the output shows, whatever
\* reads, pushes, retries and writes of the group's other outputs happened since.
AckedWriteInEffect ==
    \A k \in Key, ch \in Chan :
        LET c == lastSet[k][ch] IN
        (c # NoCall /\ fut[c] = "result") => dev[k][ch] = chans[c][ch]

\* _refresh_stale_group: only an output switched at the wall "since the last
\* read would be switched back": a group frame carries, for an output nobody
\* asked to change since the module last reported it, the value it reported.
WriteKeepsReported ==
    [][(wpc \in {"window", "read"} /\ wpc' = "lock") =>
          \A ch \in Chan : reported'[key[cur]][ch] # NoVal =>
              frame'[ch] = reported'[key[cur]][ch]]_vars

\* apply_group_state: the buffer "never shows the old value of a channel about to
\* change": where no newer request waits, it shows the writes "being sent right
\* now", whatever reads and pushes land while the frame waits for the bus or for
\* its acknowledgement.
BufferShowsSent ==
    wpc \in {"lock", "exch", "post"} =>
        \A k \in Key, ch \in Chan :
            (writingSets[k][ch] # NoVal /\ PendingWrites(k)[ch] = NoVal) =>
                moduleStates[k][ch] = writingSets[k][ch]

\* stop: "every waiter is released now rather than at its own timeout": once
\* stop has returned, no call made before it still waits on a pending future,
\* unless its item was still waiting for a place in the queue.
StopReleasesWaiters ==
    ~stopping => \A c \in old :
        /\ fut[c] # "pending"
        /\ joins[c] # NoCall => fut[joins[c]] # "pending"

\* stop: "Nothing queued survives a stop": what the worker puts on the wire
\* was asked for after the last stop, or was not queued by then.
NothingStaleSent == (wpc = "exch" /\ ~stopping) => cur \notin old

\* Every caller's future settles, whatever the modules answer: a read's without
\* the help of its own timeout (get_output_state), a write's with the
\* acknowledgement or with the error of the last attempt (set_output_state).
EveryReadSettles ==
    \A c \in Call : (op[c] = "get" /\ fut[c] = "pending") ~> Done(c)
EveryWriteSettles ==
    \A c \in Call :
        (op[c] = "set" /\ ~Done(joins[c])) ~> (op[c] = "set" /\ Done(joins[c]))
EveryCallSettles == EveryReadSettles /\ EveryWriteSettles
=============================================================================
