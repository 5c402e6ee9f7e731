----------------------------- MODULE DiscoveryRun -----------------------------
(***************************************************************************)
(* A discovery run (nikobus_connect/discovery/discovery.py): what starts   *)
(* it, what moves it on and what ends it.  A run is either the inventory   *)
(* of the PC-Link (ask for its address, queue its registry reads, stop     *)
(* when the announced records are in) or the register scan of one module   *)
(* or of all of them, one after the other.                                 *)
(*                                                                         *)
(* Nobody owns a run: the caller's task, the listener's task and two timer *)
(* tasks all call _finalize_discovery or _complete_discovery_run, and the  *)
(* coordinator's flags are what they know of each other.  A task that is   *)
(* on such a call is at one of its awaits ("pc").  The scan of a module's  *)
(* registers is RegisterScan's; here it begins and ends.                   *)
(***************************************************************************)
EXTENDS Integers, Sequences, FiniteSets, SequencesExt

CONSTANTS
    Modules,    \* the modules the host knows, in the order of its store
    NonOutput,  \* those of a type without registers to scan
    Gateways,   \* those whose status reply has a PC-Link's signature
    Records,    \* records in the PC-Link's registry
    Filler,     \* registers the identity sweep reads past them
    QueueSize,  \* places in the command queue
    Users,      \* bound: commands the user gives during the runs
    MaxRuns,    \* bound: runs started
    MaxLost,    \* bound: frames lost on the bus
    Failures,   \* whether a save, a scan or the host's callback may raise
    Cancels,    \* whether the host may cancel a run
    MaxForeign  \* bound: data frames that nobody is waiting for

ASSUME RunAssumption ==
    /\ Modules \in Seq(ToSet(Modules)) /\ IsInjective(Modules)
    /\ NonOutput \subseteq ToSet(Modules) /\ Gateways \subseteq ToSet(Modules)
    /\ {Records, QueueSize} \subseteq Nat \ {0}
    /\ {Filler, Users, MaxRuns, MaxLost, MaxForeign} \subseteq Nat
    /\ {Failures, Cancels} \subseteq BOOLEAN

Tasks == {"host", "listener", "timer", "inventory"}
None  == "none"
Idle  == [pc |-> "idle", mod |-> None]
At(where, m) == [pc |-> where, mod |-> m]

Header    == 0
Registers == 0..(Records + Filler)   \* the sweep: header, records, filler
Enquiry   == -1                      \* #A
UserFrame == -2

VARIABLES
    running,   \* coordinator.discovery_running
    module,    \* coordinator.discovery_module
    query,     \* coordinator.inventory_query_type
    stage,     \* discovery_stage
    regq,      \* _register_scan_queue
    context,   \* the module whose type and decoder are set up
    lock,      \* the task that scans (_scan_lock, _scan_active)
    timer,     \* whether _timeout_task is armed
    window,    \* whether _inventory_timeout_task is armed
    task,      \* where each task is
    known,     \* whether the PC-Link's address is in _inventory_addresses
    asked,     \* ... and in _inventory_identity_queued
    busy,      \* whether the worker is on a user's command
    putting,   \* registry reads the identity task has yet to queue
    cmdq,      \* the command queue
    wire,      \* answers on their way to the listener
    limit,     \* _registry_record_limit; 0: no header seen
    seen,      \* _registry_records_seen
    found,     \* discovered_devices: the registers whose record was filed
    kind,      \* history: what the current run is
    runs,      \* history: runs started
    notes,     \* history: finished callbacks since the last start
    raised,    \* history: the caller of the run got an exception
    spoilt,    \* history: the host's callback itself raised
    scanned,   \* history: modules scanned to the end, in order
    report,    \* history: what the last callback was told
    crossed,   \* history: an answer came that no run was waiting for, or a run
               \* was begun from another's callback
    hurried,   \* history: a window elapsed with the enquiry still queued
    foreign,   \* history: data frames nobody waited for
    lost,      \* history: frames lost
    reads,     \* history: how often each register was put on the bus
    users      \* history: user commands queued and sent

flagVars  == <<running, module, query>>
timerVars == <<timer, window>>
sweepVars == <<known, asked, limit, seen>>
busVars   == <<busy, putting, cmdq, wire, lost, reads, users>>
histVars  == <<kind, runs, raised, spoilt, crossed, hurried, foreign>>
vars == <<flagVars, stage, regq, context, lock, timerVars, task, sweepVars,
          busVars, found, histVars, notes, scanned, report>>

AllIdle == \A p \in Tasks : task[p].pc = "idle"

Goes(p, where, m) == task' = [task EXCEPT ![p] = At(where, m)]
Returns(p)        == task' = [task EXCEPT ![p] = Idle]

\* A queue without some of its items, the rest in order.
Without(q, items) ==
    LET keep[i \in 0..Len(q)] ==
            IF i = 0 THEN <<>>
            ELSE IF q[i] \in items THEN keep[i - 1] ELSE Append(keep[i - 1], q[i])
    IN  keep[Len(q)]

-----------------------------------------------------------------------------
(* Ending a run.                                                           *)

\* Mutant: the inventory window stays armed.
ResetStateKeepsWindow ==
    /\ timer' = FALSE /\ UNCHANGED window
    /\ context' = None /\ regq' = <<>> /\ stage' = None
    /\ known' = FALSE /\ asked' = FALSE /\ limit' = 0 /\ seen' = 0
\* reset_state, the flags apart.
ResetState ==
    /\ timer' = FALSE /\ window' = FALSE
    /\ context' = None /\ regq' = <<>> /\ stage' = None
    /\ known' = FALSE /\ asked' = FALSE /\ limit' = 0 /\ seen' = 0

\* Mutant: the kind of query is left behind.
ClearFlagsKeepsQuery == running' = FALSE /\ module' = FALSE /\ UNCHANGED query
\* The flags a run is known by.
ClearFlags == running' = FALSE /\ module' = FALSE /\ query' = None

\* Mutant: the scan lock stays held.
AbortKeepsLock(p) ==
    /\ ResetState /\ ClearFlags
    /\ UNCHANGED lock
    /\ raised' = (raised \/ p = "host")
    /\ Returns(p)
\* An exception leaves a scan: every level on the way out resets the state
\* (_abort_discovery_run).  The caller gets it; a timer's or the listener's
\* goes to the log.
Abort(p) ==
    /\ ResetState /\ ClearFlags
    /\ lock' = IF lock = p THEN None ELSE lock
    /\ raised' = (raised \/ p = "host")
    /\ Returns(p)

\* Mutant: the last module of the queue is forgotten.
FinalizeOneShort(p) ==
    /\ timer' = FALSE
    /\ module' = FALSE /\ context' = None
    /\ IF stage = "register_scan" /\ Len(regq) > 1
       THEN Goes(p, "pause", None) /\ UNCHANGED window
       ELSE Goes(p, "finishing", None) /\ window' = FALSE
\* _finalize_discovery and _complete_discovery_run, up to the first await: on
\* to the next module after a pause, or finish.
Finalize(p) ==
    /\ timer' = FALSE
    /\ module' = FALSE /\ context' = None
    /\ IF stage = "register_scan" /\ regq # <<>>
       THEN Goes(p, "pause", None) /\ UNCHANGED window
       ELSE Goes(p, "finishing", None) /\ window' = FALSE

\* The flags drop before the callback, so that the host may start over.
Notify(p) ==
    /\ task[p].pc = "finishing"
    /\ running' = FALSE /\ module' = FALSE
    /\ notes' = notes + 1
    /\ report' = found
    /\ Goes(p, "callback", None)
    /\ UNCHANGED <<query, stage, regq, context, lock, timerVars, sweepVars,
                   busVars, found, histVars, scanned>>

\* The callback returns; what is left of the run is cleared.
Notified(p) ==
    /\ task[p].pc = "callback"
    /\ found' = {} /\ query' = None
    /\ ResetState
    /\ Returns(p)
    /\ UNCHANGED <<running, module, lock, busVars, histVars, notes, scanned,
                   report>>

\* The callback raises: the state is cleared all the same.  The inventory
\* timer calls it once more (_abort_run_with_notification), anyone else passes
\* the exception on.
CallbackRaises(p) ==
    /\ Failures
    /\ task[p].pc = "callback"
    /\ found' = {} /\ spoilt' = TRUE
    /\ ResetState /\ ClearFlags
    /\ Returns(p)
    /\ IF p = "inventory"
       THEN notes' = notes + 1 /\ report' = {} /\ UNCHANGED raised
       ELSE raised' = (raised \/ p = "host") /\ UNCHANGED <<notes, report>>
    /\ UNCHANGED <<lock, busVars, kind, runs, crossed, hurried, foreign, scanned>>

-----------------------------------------------------------------------------
(* Register scans.                                                         *)

\* The caller may begin a run: nothing of another shows in the flags.  (Bound:
\* none after one that was crossed.)
Begins(k) ==
    /\ runs < MaxRuns /\ ~crossed
    /\ task["host"].pc = "idle" /\ ~running
    /\ runs' = runs + 1 /\ kind' = k
    /\ notes' = 0 /\ raised' = FALSE /\ spoilt' = FALSE /\ scanned' = <<>>
    /\ report' = {}
    /\ crossed' = (crossed \/ ~AllIdle)
    /\ UNCHANGED <<hurried, foreign>>

\* query_module_inventory of one module, up to the status query.  A module
\* without registers ends the run at once.
ScanOne(m) ==
    /\ Begins("one")
    /\ stage' = IF stage = None THEN "register_scan" ELSE stage
    /\ query' = "module" /\ running' = (running \/ ~module)
    /\ IF m \in NonOutput
       THEN /\ module' = FALSE /\ context' = None /\ timer' = FALSE
            /\ window' = FALSE
            /\ Goes("host", "finishing", None)
       ELSE /\ module' = TRUE
            /\ context' = IF context = None THEN m ELSE context
            /\ Goes("host", "count", m)
            /\ UNCHANGED timerVars
    /\ UNCHANGED <<regq, lock, sweepVars, busVars, found>>

\* _start_next_register_scan: the next module of the queue, afresh.
StartNext(p, queue) ==
    /\ regq' = Tail(queue)
    /\ running' = TRUE /\ module' = TRUE /\ query' = "module"
    /\ context' = Head(queue)
    /\ Goes(p, "count", Head(queue))

Scannable == Without(Modules, NonOutput)

\* The whole queue; nothing to scan is still the end of a run.
ScanAll ==
    /\ Begins("all")
    /\ IF Scannable = <<>>
       THEN /\ regq' = <<>> /\ window' = FALSE
            /\ Goes("host", "finishing", None)
            /\ UNCHANGED <<flagVars, stage, context>>
       ELSE /\ stage' = "register_scan"
            /\ StartNext("host", Scannable)
            /\ UNCHANGED window
    /\ UNCHANGED <<lock, timer, sweepVars, busVars, found>>

\* The second between two modules is over.
PauseOver(p) ==
    /\ task[p].pc = "pause"
    /\ IF regq = <<>>
       THEN /\ window' = FALSE /\ Goes(p, "finishing", None)
            /\ UNCHANGED <<flagVars, regq, context>>
       ELSE StartNext(p, regq) /\ UNCHANGED window
    /\ UNCHANGED <<stage, lock, timer, sweepVars, busVars, found, histVars,
                   notes, scanned, report>>

\* handle_device_address_inventory looks at the family byte of a $18 frame.
SignedByLink(m) == m \in Gateways

\* _count_bounded_passes: the module's status reply sizes the plan; the
\* listener hands the $18 frame to the host too, whatever it answers.
Count(p) ==
    /\ task[p].pc = "count"
    /\ Goes(p, "lock", task[p].mod)
    /\ \/ /\ SignedByLink(task[p].mod)
          /\ known' = TRUE /\ window' = TRUE /\ crossed' = TRUE
       \/ ~SignedByLink(task[p].mod) /\ UNCHANGED <<known, window, crossed>>
    /\ UNCHANGED <<flagVars, stage, regq, context, lock, timer, asked, limit,
                   seen, busVars, found, kind, runs, raised, spoilt, hurried,
                   foreign, notes, scanned, report>>

\* A pass takes the scan lock and cancels the inactivity timer.
ScanBegins(p) ==
    /\ task[p].pc = "lock" /\ lock = None
    /\ lock' = p
    /\ timer' = FALSE
    /\ Goes(p, "scan", task[p].mod)
    /\ UNCHANGED <<flagVars, stage, regq, context, window, sweepVars, busVars,
                   found, histVars, notes, scanned, report>>

ScanEnds(p) ==
    /\ task[p].pc = "scan"
    /\ lock' = None
    /\ scanned' = Append(scanned, task[p].mod)
    /\ Goes(p, "save", task[p].mod)
    /\ UNCHANGED <<flagVars, stage, regq, context, timerVars, sweepVars,
                   busVars, found, histVars, notes, report>>

\* The rebuilt links are saved, and the module is done.
Saved(p) ==
    /\ task[p].pc = "save"
    /\ Finalize(p)
    /\ UNCHANGED <<running, query, stage, regq, lock, sweepVars, busVars,
                   found, histVars, notes, scanned, report>>

\* The connection is gone, or a save raises.
ScanFails(p) ==
    /\ Failures
    /\ task[p].pc \in {"lock", "save"}
    /\ Abort(p)
    /\ UNCHANGED <<busVars, found, kind, runs, spoilt, crossed, hurried, foreign,
                   notes,
                   scanned, report>>

\* The host cancels the task that awaits the scan.
CancelScan ==
    /\ Cancels
    /\ task["host"].pc \in {"count", "lock", "scan", "save", "pause"}
    /\ Abort("host")
    /\ UNCHANGED <<busVars, found, kind, runs, spoilt, crossed, hurried, foreign,
                   notes,
                   scanned, report>>

\* _timeout_after: a scan in progress owns the module; otherwise it is over.
TimerFires ==
    /\ timer
    /\ IF lock # None
       THEN timer' = FALSE /\ UNCHANGED <<module, context, task, window>>
       ELSE task["timer"].pc = "idle" /\ Finalize("timer")
    /\ UNCHANGED <<running, query, stage, regq, lock, sweepVars, busVars,
                   found, histVars, notes, scanned, report>>

\* A data frame for parse_module_inventory_response while a module is scanned
\* wakes the scan; between scans it arms the timer, outside one it finalizes.
ModuleFrame ==
    IF ~module
    THEN task["listener"].pc = "idle" /\ Finalize("listener")
    ELSE /\ timer' = (timer \/ lock = None)
         /\ UNCHANGED <<module, context, task, window>>

\* A data frame after its wait, or the answer to somebody's memory read.
\* (Bound: during or after the first run.)
ForeignFrame ==
    /\ foreign < MaxForeign /\ runs <= 1 /\ query # "pc_link"
    /\ foreign' = foreign + 1 /\ crossed' = TRUE
    /\ ModuleFrame
    /\ UNCHANGED <<running, query, stage, regq, lock, sweepVars, busVars,
                   found, kind, runs, raised, spoilt, hurried, notes, scanned,
                   report>>

-----------------------------------------------------------------------------
(* The inventory.                                                          *)

Outstanding == putting # <<>> \/ wire # <<>> \/ \E i \in DOMAIN cmdq :
                   cmdq[i] # UserFrame

\* start_inventory_discovery (not while reads of a cancelled one are on their
\* way).
StartInventory ==
    /\ Begins("inventory")
    /\ Len(cmdq) < QueueSize /\ ~Outstanding
    /\ context' = None /\ regq' = <<>> /\ timer' = FALSE
    /\ known' = FALSE /\ asked' = FALSE /\ limit' = 0 /\ seen' = 0
    /\ found' = {} /\ stage' = "inventory_addresses"
    /\ module' = FALSE /\ running' = TRUE /\ query' = "pc_link"
    /\ cmdq' = Append(cmdq, Enquiry)
    /\ window' = TRUE
    /\ reads' = [r \in Registers |-> 0]
    /\ UNCHANGED <<lock, task, busy, putting, wire, lost, users>>

InInventory == stage \in {"inventory_addresses", "inventory_identity"}

\* _identity_read_sent: the window measures silence after the last read.
Rearms == InInventory

\* The worker puts the next command on the bus; the PC-Link answers, or the
\* answer is lost.
Send ==
    /\ cmdq # <<>> /\ ~busy
    /\ cmdq' = Tail(cmdq)
    /\ LET c == Head(cmdq) IN
       \/ /\ c = UserFrame
          /\ users' = [users EXCEPT !.sent = @ + 1] /\ busy' = TRUE
          /\ UNCHANGED <<wire, lost, reads, window>>
       \/ /\ c # UserFrame
          /\ \/ wire' = Append(wire, c) /\ UNCHANGED lost
             \/ lost < MaxLost /\ lost' = lost + 1 /\ UNCHANGED wire
          /\ IF c = Enquiry
             THEN UNCHANGED <<reads, window>>
             ELSE /\ reads' = [reads EXCEPT ![c] = @ + 1]
                  /\ window' = (window \/ Rearms)
          /\ UNCHANGED <<busy, users>>
    /\ UNCHANGED <<flagVars, stage, regq, context, lock, timer, task,
                   sweepVars, putting, found, histVars, notes, scanned,
                   report>>

\* ... and a user's command holds it for seconds: an absent module.
CommandDone ==
    /\ busy /\ busy' = FALSE
    /\ UNCHANGED <<flagVars, stage, regq, context, lock, timerVars, task,
                   sweepVars, putting, cmdq, wire, lost, reads, users, found,
                   histVars, notes, scanned, report>>

\* The user operates something while an inventory is on: the command goes
\* behind the reads.
UserCommands ==
    /\ kind = "inventory" /\ users.queued < Users /\ Len(cmdq) < QueueSize
    /\ cmdq' = Append(cmdq, UserFrame)
    /\ users' = [users EXCEPT !.queued = @ + 1]
    /\ UNCHANGED <<flagVars, stage, regq, context, lock, timerVars, task,
                   sweepVars, busy, putting, wire, lost, reads, found, histVars,
                   notes, scanned, report>>

\* The identity task queues the sweep, waiting while the queue is full.
PutRead ==
    /\ putting # <<>> /\ Len(cmdq) < QueueSize
    /\ cmdq' = Append(cmdq, Head(putting))
    /\ putting' = Tail(putting)
    /\ UNCHANGED <<flagVars, stage, regq, context, lock, timerVars, task,
                   sweepVars, busy, wire, lost, reads, users, found, histVars,
                   notes, scanned, report>>

Sweep == [i \in 1..(Records + Filler + 1) |-> i - 1]

\* handle_device_address_inventory queues the reads of an address it has not
\* seen, once.
NewAddress == ~known /\ ~asked

\* The gateway's address arrives.
HearAddress ==
    /\ wire # <<>> /\ Head(wire) = Enquiry
    /\ wire' = Tail(wire)
    /\ known' = TRUE /\ window' = TRUE
    /\ crossed' = (crossed \/ query # "pc_link")
    /\ IF stage = "inventory_addresses" /\ NewAddress
       THEN asked' = TRUE /\ putting' = putting \o Sweep
       ELSE UNCHANGED <<asked, putting>>
    /\ UNCHANGED <<flagVars, stage, regq, context, lock, timer, task, limit,
                   seen, busy, cmdq, lost, reads, users, found, kind, runs,
                   raised, spoilt, hurried, foreign, notes, scanned, report>>

\* Another PC-Link query answered at the same time repeats the address.
Repeated ==
    /\ wire # <<>> /\ Head(wire) = Enquiry /\ lost < MaxLost
    /\ wire' = <<Enquiry>> \o wire /\ lost' = lost + 1
    /\ UNCHANGED <<flagVars, stage, regq, context, lock, timerVars, task,
                   sweepVars, busy, putting, cmdq, reads, users, found, histVars,
                   notes, scanned, report>>

\* Mutant: one record short of what the header announces.
LastRecordEarly(n) == limit > 0 /\ n + 1 >= limit
\* The frame that carries the last announced record.
LastRecord(n) == limit > 0 /\ n >= limit

\* Mutant: everything queued is dropped with the reads.
DrainReadsAll(q) == <<>>
\* drain_queue(prefix): the PC-Link's own reads only.
DrainReads(q) == Without(q, Registers)

\* parse_inventory_response: skip what lies past the announced end, learn the
\* count from the header page, file a record; the last one ends the sweep.
HearRegister ==
    /\ wire # <<>> /\ Head(wire) \in Registers
    /\ query = "pc_link"
    /\ wire' = Tail(wire)
    /\ window' = TRUE
    /\ LET r == Head(wire) IN
       IF LastRecord(seen) \/ r > Records
       THEN UNCHANGED <<limit, seen, found, cmdq>>
       ELSE IF r = Header
       THEN limit' = Records /\ seen' = 0 /\ UNCHANGED <<found, cmdq>>
       ELSE /\ seen' = seen + 1
            /\ found' = found \cup {r}
            /\ cmdq' = IF LastRecord(seen + 1) THEN DrainReads(cmdq) ELSE cmdq
            /\ UNCHANGED limit
    /\ UNCHANGED <<flagVars, stage, regq, context, lock, timer, task, known,
                   asked, busy, putting, lost, reads, users, histVars, notes,
                   scanned, report>>

\* Once the run is over its answers are a module's data frames.
HearStraggler ==
    /\ wire # <<>> /\ Head(wire) \in Registers
    /\ query # "pc_link"
    /\ wire' = Tail(wire)
    /\ crossed' = TRUE
    /\ ModuleFrame
    /\ UNCHANGED <<running, query, stage, regq, lock, sweepVars, busy,
                   putting, cmdq, lost, reads, users, found, kind, runs,
                   raised, spoilt, hurried, foreign, notes, scanned, report>>

\* _queued_identity_reads.
ReadsQueued == \E i \in DOMAIN cmdq : cmdq[i] \in Registers

\* The inventory window elapses: nothing is on its way by then, and the worker
\* has nothing to send or is held up.  Wait for the reads still queued, else synthesise, merge and save.  The branch that asks
\* addresses nobody asked is not reached: they are asked as they arrive.
WindowElapses ==
    /\ window /\ wire = <<>> /\ task["inventory"].pc = "idle"
    /\ putting = <<>> \/ Len(cmdq) = QueueSize
    /\ cmdq = <<>> \/ busy
    /\ IF InInventory /\ ReadsQueued
       THEN UNCHANGED <<window, task, stage, hurried>>
       ELSE /\ window' = FALSE
            /\ hurried' = (hurried \/ \E i \in DOMAIN cmdq : cmdq[i] = Enquiry)
            /\ stage' = IF stage = "inventory_addresses" /\ known
                        THEN "inventory_identity" ELSE stage
            /\ Goes("inventory", "saving", None)
    /\ UNCHANGED <<flagVars, regq, context, lock, timer, sweepVars, busVars,
                   found, kind, runs, raised, spoilt, crossed, foreign, notes,
                   scanned, report>>

InventorySaved ==
    /\ task["inventory"].pc = "saving"
    /\ window' = FALSE
    /\ Goes("inventory", "finishing", None)
    /\ UNCHANGED <<flagVars, stage, regq, context, lock, timer, sweepVars,
                   busVars, found, histVars, notes, scanned, report>>

\* Mutant: the state is reset, the host is not told.
TellsSilently(n) == n
\* _abort_run_with_notification tells the host what was found.
Tells(n) == n + 1

\* A merge or a save raises: _abort_run_with_notification.
InventoryFails ==
    /\ Failures
    /\ task["inventory"].pc = "saving"
    /\ ResetState /\ ClearFlags
    /\ notes' = Tells(notes) /\ report' = found
    /\ Returns("inventory")
    /\ UNCHANGED <<lock, busVars, found, histVars, scanned>>

\* The host gives the inventory up: reset_state.
CancelInventory ==
    /\ Cancels
    /\ kind = "inventory" /\ running
    /\ \A p \in Tasks : task[p].pc = "idle"
    /\ ResetState /\ ClearFlags
    /\ raised' = TRUE
    /\ UNCHANGED <<lock, task, busVars, found, kind, runs, spoilt, crossed,
                   hurried, foreign, notes, scanned, report>>

-----------------------------------------------------------------------------
Init ==
    /\ running = FALSE /\ module = FALSE /\ query = None
    /\ stage = None /\ regq = <<>> /\ context = None /\ lock = None
    /\ timer = FALSE /\ window = FALSE
    /\ task = [p \in Tasks |-> Idle]
    /\ known = FALSE /\ asked = FALSE /\ limit = 0 /\ seen = 0
    /\ putting = <<>> /\ cmdq = <<>> /\ wire = <<>>
    /\ found = {} /\ report = {}
    /\ kind = None /\ runs = 0 /\ notes = 0
    /\ raised = FALSE /\ spoilt = FALSE /\ scanned = <<>>
    /\ crossed = FALSE /\ hurried = FALSE /\ foreign = 0
    /\ busy = FALSE
    /\ lost = 0 /\ reads = [r \in Registers |-> 0]
    /\ users = [queued |-> 0, sent |-> 0]

Begin == \/ \E m \in ToSet(Modules) : ScanOne(m)
         \/ ScanAll \/ StartInventory

Chain(p) ==
    \/ Notify(p) \/ Notified(p) \/ CallbackRaises(p) \/ PauseOver(p)
    \/ Count(p) \/ ScanBegins(p) \/ ScanEnds(p) \/ Saved(p) \/ ScanFails(p)

Inventory ==
    \/ Send \/ CommandDone \/ PutRead \/ HearAddress \/ HearRegister \/ HearStraggler
    \/ WindowElapses \/ InventorySaved \/ InventoryFails

System == (\E p \in Tasks : Chain(p)) \/ Inventory \/ TimerFires

Next == \/ Begin \/ System \/ UserCommands \/ Repeated
        \/ CancelScan \/ CancelInventory \/ ForeignFrame

Spec == Init /\ [][Next]_vars

\* The event loop runs its tasks and timers; nobody has to start a run.
FairSpec == Spec /\ WF_vars(System)
-----------------------------------------------------------------------------
(* What a run promises.                                                    *)

Told == notes > 0
Over == Told \/ raised \/ runs = 0

TypeOK ==
    /\ {running, module, timer, window, known, asked, raised, spoilt, crossed,
        hurried, busy} \subseteq BOOLEAN
    /\ query \in {None, "module", "pc_link"}
    /\ stage \in {None, "register_scan", "inventory_addresses",
                  "inventory_identity"}
    /\ ToSet(regq) \subseteq ToSet(Modules)
    /\ context \in ToSet(Modules) \cup {None}
    /\ lock \in Tasks \cup {None}
    /\ \A p \in Tasks : (lock = p) = (task[p].pc = "scan")
    /\ Len(cmdq) <= QueueSize
    /\ limit \in {0, Records} /\ seen \in Nat
    /\ found \subseteq 1..Records /\ report \subseteq 1..Records
    /\ runs \in 0..MaxRuns /\ notes \in Nat

\* The host learns of the end of a run once: by the callback or by an
\* exception out of the call it awaits, never twice, as long as no frame comes
\* that no run is waiting for and the callback itself does not raise.
ToldOnce == ~crossed /\ ~spoilt => notes + (IF raised THEN 1 ELSE 0) <= 1

\* A run over the whole queue that ends without an exception has scanned every
\* output module, once, in order; a module is scanned with its own type and
\* fresh decoders, whatever ended the run before.
QueueScanned ==
    ~crossed =>
        /\ kind = "all" /\ Told /\ ~raised => scanned = Scannable
        /\ \A p \in Tasks : task[p].pc = "scan" => context = task[p].mod

\* The same of a run begun from another's finished callback: the flags drop
\* before it "so that consumer re-entry into the library is unguarded".
ReentrySafe == kind = "all" /\ Told /\ ~raised => scanned = Scannable

\* An inventory nothing was lost in reports every record of the registry,
\* though its sweep is cut short and the user's commands delay it, once its
\* enquiry went out; and no register is read twice for it, however often the
\* address is heard and the window elapses.
Undisturbed == ~raised /\ ~spoilt /\ ~crossed /\ lost = 0
RegistryWhole ==
    /\ kind = "inventory" /\ Told /\ Undisturbed /\ ~hurried
       => report = 1..Records
    /\ \A r \in Registers : reads[r] <= 1

\* What the user queued during a sweep is sent or still queued.
UserKept ==
    users.queued = users.sent +
        Cardinality({i \in DOMAIN cmdq : cmdq[i] = UserFrame})

\* After a run nothing of it is left: no flag that would refuse the next one,
\* no timer that would end it, no queue.
CleanAfterwards ==
    ~crossed /\ Over /\ AllIdle =>
        /\ ~running /\ ~module /\ query = None /\ stage = None
        /\ ~timer /\ ~window /\ regq = <<>> /\ context = None

\* Every run ends, whatever is lost, fails or is cancelled.
EveryRunEnds == (~Over /\ ~crossed) ~> (Over \/ crossed)
=============================================================================
