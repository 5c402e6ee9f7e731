# nikobus-connect in TLA+

Specifications of `nikobus_connect`, the asyncio library that drives a Nikobus
home-automation installation through a PC-Link (or another serial gateway):
what its components keep as state, which steps they take between two awaits,
what those steps promise, and the machine-checked evidence for it.

Line numbers refer to the source as it stands beside this directory; paths are
relative to `src/nikobus_connect/` unless they say otherwise.

## The system

```
 host (Home Assistant, ...)
   |  get_output_state / set_output_state / query / press   ^ futures, callbacks
   v                                                        |
 api.py ---> command.py: queue --> worker --(bus_lock)--> connection.py --> gateway --> bus
                 ^  shared state buffer                        |
                 |                                             v
             discovery.py: register scan (bus_lock)       listener.py
                 ^____________ frames, acknowledgements ______|
```

Everything runs in one asyncio event loop: nothing interrupts a stretch of code
between two awaits, and anything may happen at an await.  The hard behaviours
are all of that kind: a caller that gives up while its item is queued or on the
wire, an answer that lands while a write waits, a stop or a reconnect at any
await, a full queue, two users of one serial line.

| component | state it keeps | operations | interacts with |
|---|---|---|---|
| Command queue and worker (`command.py`) | `_command_queue` (100), `_queued_get_keys`, `_pending_get_futures`, `_pending_set_groups`, `_writing_sets`, `_group_known_at`, `_module_states`, `bus_lock` | `get_output_state`, `set_output_state(s)`, `query`, `queue_command`, `drain_queue`, `apply_group_state`, `resolve_pending_get`, `start`, `stop`, `reset` | host (futures, handlers, the shared buffer), exchange, scan (`bus_lock`) |
| Wire exchange (`command.py` 695-950, `listener.py`) | response queue (200), `_awaiting_response`, `_awaited_answer`, `_awaited_query`, `_awaited_ack_seen`, `_last_query_group` | send and match acknowledgement and answer, attempts; dispatch and attribute frames | worker, connection, Feedback Module, host callbacks |
| Register scan (`discovery/discovery.py` 1233-1541) | `_scan_lock`, `_scan_active`, trailer and give-up counters, `_scan_event`, payload buffer | read one register, retry, stop at the trailer | `bus_lock`, listener, decoders |
| Discovery run (`discovery/discovery.py`, `progress.py`) | stage, two timers, module queue, discovered devices | inventory, per-module scans, finalize, abort, finished callback | command queue, scan, stores, host |
| Connection (`connection.py`) | reader, writer, `is_connected`, `device_answered` | connect, handshake, probe, send, read, disconnect, reconnect | listener loop, worker, host |
| High-level API (`api.py`, `rgb.py`) | module data | lights, switches, covers, feedback keys, memory reads | command handler |
| Press tracker (`press.py`) | one `PressState` per held key | frame, release due, end, clear | listener (button frames), host watchers |
| Travel calculator (`travel.py`) | position, direction, start of the move | start, stop, set, read the position | host |
| Protocol codec (`protocol.py`) | none | CRCs, frames, addresses | everyone |
| Link-table decoders (`discovery/*_decoder.py`, `pc_record_parser.py`) | remainder between frames | bytes to link records | discovery |
| Stores (`discovery/store.py`, `fileio.py`) | module and button data | merge, migrate, save | discovery, host |
| NKB import (`nkb/`) | none | project file to configuration | host |
| Simulator (`src/simulator`) | modules' memory and outputs | a gateway for tests | tests |

What makes each correct, in one line: the **queue** neither loses a request nor
sends one it should not, and the buffer and the frames built from it never undo
somebody else's change; the **exchange** takes as its answer what answers it;
the **scan** attributes every data frame to its register and shares the line;
the **discovery run** ends exactly once, with its callback; the **connection**
has at most one live transport and the listener never outlives it; the **press
tracker** counts every press once and never lets an old watcher end a new press;
the **travel calculator** stays within 0..100 and never jumps; the **decoders**
are independent of how frames were cut; the **stores** keep what users edited.

## What is modelled

| module | what it is | run |
|---|---|---|
| `CommandHandler` | the queue, its worker, its callers, the buffer; the environment around them | `Reads`, `Writes`, `Lifecycle`, `Settles`, `CancelledPut` |
| `CommandHandlerProofs` | proofs about it: the inductive invariant, reads, joins and cancellations, what `stop` promises | |
| `GroupWriteProofs` | proofs that extend them: what the buffer and the outputs show of a write, what its frame keeps | |
| `Exchange` | what an exchange promises: a command that was asked ends, by an answer of its own group or an error | |
| `BusExchange` | the exchange in detail: attempts, acknowledgements, answers, the listener's attribution; implements `Exchange` | `Exchange` |
| `BusExchangeProofs` | proofs about it, and that its steps are steps of `Exchange` | |
| `RegisterScan` | the scan of one module's link table, from the plan to the decision to rebuild | `RegisterScan`, `RebuildPartial` |
| `RegisterScanProofs` | proofs about it: the scan's state, which read a frame answers, what a rebuild keeps, that a clean scan rebuilds | |
| `DiscoveryRun` | inventories and scans as runs: who starts, moves on and ends them | `Discovery`, `CallbackReentry` |
| `DiscoveryRunProofs` | proofs about it: who is on a run, what of it is left, what the sweep reads | |
| `Stores` | what a discovery makes of the module store and the button store | `Stores` |
| `StoresProofs` | proofs about it: where links end up, whose word counts, what users keep | |
| `Residue` | the probe for modules that are gone, the statuses and evictions that follow | `Parts` |
| `PcLinkCopies` | the PC-Link's memory, decoded for its copies of links | `Parts` |
| `SizedTable` | tables that say how long they are: the audio module's links, the PC-Logic's inputs | `Parts` |
| `Connection` | the transport, opened, broken and closed by three tasks | `Parts` |
| `ConnectionProofs` | proofs about it | |
| `FeedbackKey` | an output operated by pressing its feedback key | `Parts` |
| `PressTracker` | key presses inferred from repeated frames | `Parts` |
| `Travel` | a shutter's position beside the shutter | `Parts` |
| `PartsProofs` | proofs about the last three, `Residue`, `PcLinkCopies` and `SizedTable`, each on its own | |
| `MC...` | small instances for TLC: constants that a configuration cannot write, symmetry; `MCParts` composes the seven parts that share nothing | |

`PROJECT.json` maps every definition to the lines it stands for, and lists the
hazards of the code with the properties that would catch each of them.

How they fit together: each module stands for its neighbours by what they
promise.  `CommandHandler` sees an exchange as `Exchange` describes it, which
`BusExchange` implements, and a scan as somebody else who holds `bus_lock`.
`DiscoveryRun` sees a register scan as a step that begins, ends or fails;
`RegisterScan` is that step (`ScanEnds` is what lets it be one), and its
decision to rebuild is where `Stores` takes over with its `ScanDone` and
`Rebuild`.  `PcLinkCopies` yields the copies that `Stores` takes as its constant
`Copies`.  `FeedbackKey` and `Residue` sit on the command queue as a queue that
answers in order or not at all.

### CommandHandler

A **call** is one invocation of the API and also names the queue item that
invocation makes; `loc[c]` says where that item is (suspended in `put`, queued,
with the worker, gone), `fut[c]` is its future, `caller[c]` the coroutine that
made it.  A **key** is one output group of one module, the unit of
deduplication, of joining and of a write; a **channel** an output of it.

| in the model | in the code |
|---|---|
| `commandQueue`, `QueueMax`, `Put`, `Unblock` | `asyncio.Queue(maxsize=100)`, `put` suspending on a full queue |
| `queuedGetKeys`, `ReleaseGetKey` | `_queued_get_keys`, `_release_get_key` |
| `pendingGetFutures` | `_pending_get_futures` |
| `pendingSetGroups`, `chans[c]` | `_pending_set_groups`, the item's `channels` |
| `writingSets` | `_writing_sets` |
| `moduleStates`, `recent` | `_module_states`, `_group_known_at` within `SET_READ_BEFORE_WRITE_S` |
| `wpc`, `cur`, `frame`, `reply` | where `_process_commands` is suspended, on which item |
| `joins[c]` | the shared future behind the one `_derived_future` hands out |
| `busLock` | `bus_lock`, held by nobody, the worker or a register scan |
| `GetCall`, `SetCall`, `QueryCall`, `PressCall` | the API up to its first suspension |
| `GetReturn`, `GetAbandon`, `GetCancelBlocked`, `QueryAbandon`, `SetAbandon`, `CancelBlocked` | the ways a caller leaves: answered, timed out, cancelled, cancelled in `put` |
| `PopSkip`, `PopTake` | the worker pops an item and skips or takes it |
| `WindowEnd`, `Acquire`, `ReadDone`, `ReadFail` | the coalescing window, the read before a write, the frame built from the buffer |
| `GetAnswered`, `OtherAnswered`, `ExchangeFails`, `PressSent`, `PostDone` | the exchange's outcome, the handlers, the `finally` block |
| `Start`, `StopBegin`, `WorkerCancelled`, `StopFinish`, `Reset` | `start`; `stop` up to its await, the worker's cancellation, the rest; `reset` |

External, modelled from how the code uses it: asyncio's futures, the modules
(`dev`, `DeviceTakes`), the line to the listener (`line`), the wall switches
(`Wall`), the Feedback Module (`FeedbackPush`), the host.  The host does what
the library asks of it: it stores an answer or a push through
`apply_group_state` and resolves waiting reads from its feedback callback
(`Deliver`, which is the listener's dispatch of a frame followed by that
callback).  `HostOps` names what an instance's environment may do, `ApiOps` the
operations its callers use, so that a run can concentrate on one question.

Abstractions.  Time: a group's state is recent or not and ages at any moment, a
caller's timeout fires at any moment while it waits.  The exchange: between
`Acquire` and its outcome the module takes the frame any number of times (one
per attempt, or per late attempt), each answer arrives or is lost, and the
worker sees one or gives up; matching acknowledgements and attributing answers
to groups belongs to the exchange and is left to its own module.  Three history
variables (`lastSet`, `old`, `reported`) exist only so that properties can
speak of the past; no guard reads them.

Bounds, all constants: the number of calls (each is made once, so a run is a
finite story of that many calls, with any number of environment steps),
`QueueMax` for 100, `LineMax` for frames in flight to the listener, one or two
groups, one or two outputs with one or two values.

### BusExchange

One module with two output groups.  A state answer names the module and not the
group; worker and listener both have to work out whose it is.

| in the model | in the code |
|---|---|
| `Start`, `Attempt`, `Announce` | `_send_command_get_answer`, one pass of the attempts' loop, `set_pending_query_group` |
| `Take`, `TakeAck`, `TakeState`, `TakeDone` | one message from the response queue in `_wait_for_ack_and_answer_state` |
| `held`, `UsableHeld`, `TimeoutHeld` | `held_early_answer` and its use when nothing followed the acknowledgement |
| `TimeoutRetry`, `TimeoutFail`, `Finish` | the next attempt, the error after the last, the `finally` clause |
| `Dispatch`, `HearAck`, `HearEcho`, `HearState`, `HearDone` | `_dispatch_message` by kind of frame |
| `IsAwaitedAnswer`, `lastQueryGroup`, `filed` | `_attribute_state_answer`, `_last_query_group`, what the feedback callback was last given |
| `responseQueue`, `Enqueue` | the response queue, which drops its oldest message when full |

External: the gateway and the bus (`outbox`, `owed`, `line`), the module, which
answers in the order of the queries, and the Feedback Module, whose queries a
PC-Link relays.  A frame carries whose it is (`own`) and its real group, which
the code never looks at: they serve `Take`'s acknowledgement signal and the
properties.  A frame that fails its CRC is a lost one, a send that raises is a
command the gateway never forwards.
`orders` (a field of the bus an instance is given, `bus \in Buses`) says whether
the gateway acknowledges before or after the answer, `waits` whether it forwards
a command only once the module owes no answer.

Two assumptions matter.  `Quiet`: the timeouts outlast the bus, so an answer to
one attempt does not arrive in the next; late answers are planned.  `waits`:
where a gateway acknowledges a read while the module still owes the Feedback
Module an answer, that answer follows our acknowledgement and is taken for ours,
which is also what the loss in a remark below leads to.

### RegisterScan

One scan of one module.  A frame carries no register number, so everything the
scan believes of a frame comes from when it arrives.

| in the model | in the code |
|---|---|
| `Plan`, `CountPasses` | `_count_bounded_passes` on the module's record count, `_count_driven_passes`; the fixed band without a count |
| `StartPass`, `PassDone`, `PassCut` | `_scan_module_registers` under `_scan_lock`, its `finally` clause, the break on `_scan_trailer_seen` |
| `NextRegister`, `Send`, `TakeAck`, `AckTimeout`, `DataWaitOver`, `GiveUp` | the register loop and the attempts of one register |
| `queue`, `awaiting`, `event` | the response queue, `_awaiting_response`, `_scan_event` |
| `Deliver`, `Parse`, `CountErased` | dispatch, `parse_module_inventory_response`, `_handle_decoded_commands`, the run of erased registers |
| `buffer`, `Chunks`, `Remainder`, `LooksMisaligned` | `_payload_buffer`, `analyze_frame_payload`, the decoder's misalignment check |
| `Extend` | `_run_extension_passes` |
| `LinkTableComplete`, `Finish` | `_link_table_incomplete`, `_rebuild_module_links` or a merge that only adds |

The kinds of table differ in how records lie in registers: a dimmer has one
record to a register, a switch or roller module records of six bytes across
registers of sixteen (3 and 8 units here), and a self-sizing decoder is told the
register its next frame answers.  A unit of memory is the slot and offset it
belongs to, so the model knows whether a chunk is one whole record of the table.
Any other chunk may decode or not (`MayDecode`), except one that ends in erased
memory: its channel would be 16, which no module has.
External: the module (its table, of fewer records than a table has registers,
whether it is shifted by a unit, the register from which it is silent), the bus, which may lose a frame, refuse a send or, for
the kinds in `LateKinds`, deliver answers after the wait for them is over.

### DiscoveryRun

Nobody owns a run: the caller's task, the listener's task and two timer tasks
all call `_finalize_discovery` or `_complete_discovery_run`, and the
coordinator's flags are all they know of each other.  `task[p]` is the await such
a call is suspended at.

| in the model | in the code |
|---|---|
| `ScanOne`, `ScanAll`, `StartNext`, `PauseOver` | `query_module_inventory`, `_start_next_register_scan`, the pause between two modules |
| `Count`, `ScanBegins`, `ScanEnds`, `Saved` | the status query before a scan, the scan lock, the rebuild's save |
| `Finalize`, `Notify`, `Notified`, `CallbackRaises` | `_finalize_discovery`, `_complete_discovery_run` with its reset in two halves |
| `Abort`, `ScanFails`, `CancelScan`, `CancelInventory` | `_abort_discovery_run`, an exception or cancellation on the way, `reset_state` |
| `TimerFires`, `WindowElapses`, `Rearms` | `_timeout_after`, the inventory window and its rearming after each read |
| `StartInventory`, `HearAddress`, `PutRead`, `Send`, `HearRegister` | `start_inventory_discovery`, `handle_device_address_inventory`, the sweep through the command queue, `parse_inventory_response` |
| `LastRecord`, `DrainReads` | the end of the announced records, `drain_queue(prefix)` |
| `HearStraggler`, `ForeignFrame`, `ModuleFrame` | `parse_module_inventory_response` outside the scan it belongs to |
| `InventoryFails`, `Tells` | `_abort_run_with_notification` |

External: the worker and the queue (of `QueueSize` places, holding commands of the
user too), the PC-Link's answers, the host and its callback.  Two histories
delimit the promises: `crossed`, once a frame arrived that no run was waiting
for or a run was begun out of another's callback; `hurried`, once the window
elapsed before the enquiry was sent.  Both are disagreements below, or remarks.

### Stores

A link record names a plate, a key index of that plate and an output.  Which key
of the store that is depends on the plate's layout, which is learnt from other
records; whether it may be filed at all depends on which tables were read in
full; and some plates exist only because records name them.

| in the model | in the code |
|---|---|
| `Inventory`, `MergedPlates`, `MergedModules`, `Pad` | `merge_discovered_buttons`, `merge_discovered_modules`, `_pad_channels`, `_refresh_discovered_info` |
| `Named`, `Resolve` | `get_push_button_address`, `_resolve_operation_point` |
| `Settle` | `_settle_two_button_layouts` |
| `Ruled`, `Authoritative` | `_authoritative_link_modules` and the merge that skips copies |
| `File`, `Mirror`, `Peers`, `Merge` | `merge_linked_modules`, `_mirror_paired_keys`, `_peers_for_mirror` |
| `Batch`, `DataLost`, `ScanDone`, `Rebuild`, `Strip` | `_handle_decoded_commands`, a lost register, `_rebuild_module_links`, `strip_module_links` |
| `Virtual`, `Central`, `Remote`, `MadeUp`, `Complete` | `_synthesize_virtual_buttons_from_unmatched`, central functions, remotes, `_complete_discovery_run` |
| `Abort`, `Restart`, `Evict`, `Edit`, `Reprogram` | a run given up, a restart from the saved files, the host's eviction, the user's edits, the installer |

`Restart` keeps the four store variables and drops the session's: that is what
the files hold.  A save is atomic (`_write_json_atomic` replaces the file), and
`ScanDone` and `Rebuild` are two actions because the flag `links_read_at` is saved before
the links are.

### Residue, PcLinkCopies, SizedTable, Connection, FeedbackKey, PressTracker, Travel

* `Residue`: `ProbeBegin` to `PassEnd` are `detect_stale_inventory`, one
  `get_output_state` per module and pass; `Reconcile` is `reconcile_inventory`
  with `classify_button_status` (`ClassifyStatus`); `Turn` is what happens
  meanwhile: links filed and gone, modules listed, powered, buttons the user keeps.
* `PcLinkCopies`: `Hear` is the decoding of one chunk: dropped, an entry of the
  list of units (`IsUnit`, `Added`) or a link (`AsLink`, `Decoded`).  `FlatMap`
  and `Target` are `build_flat_channel_map` and `resolve_link_target`.  `Learn` is
  the host getting to know a unit or its channels in the middle of a scan.
  `MemoriesAssumption` is what a PC-Link holds: each unit of the installation once,
  with its type, and its links behind the units.
* `SizedTable`: `dec` is the decoder's state (`_records_left`, `_last_data_block`,
  `_partial_bytes`, `_extension_from`, `_input_stream`, `_input_count`,
  `_input_broken`) with the payload buffer; `AudioFrame`, `InputFrame` are the two
  `analyze_frame_payload`, `AudioMore`, `InputMore` the two `extension_passes`,
  `Sections` is `blocks_to_sections`.  `ReadBlock` is one read of a register with
  all it may come to, which is what `RegisterScan` details.
* `Connection`: `writer`, `isConnected` and `sendLock` are the fields; `at` and
  `on` say where the host, the listener's loop and the worker are suspended and
  about which transport.  Each of them closes whatever transport there is by
  then, and `wait_closed` is an await: that is the hazard.  `BackedOff` is
  `reconnect_with_backoff`, `OnLost` the host's answer to `on_connection_lost`.
* `FeedbackKey`: `BeginCall` to `SetServed` are the calls of `api.py` 234-345 with
  their read, press, read-back and follow-up; the LED is the Feedback
  Module's, which turns it over on each telegram of the key it sees.
* `PressTracker`: `FirstFrame`, `NextFrame` are `frame`, `Wake` a watcher asking
  `release_due`, `End` is `end`, `Clear` is `clear`; time is the silence
  since the last frame.
* `Travel`: `StartTravel`, `StopTravel`, `SetPosition`, `CurrentPosition` are the
  calculator; `real`, `motion` and `since` the shutter and how long its last
  change has gone unnoticed.

`ConnTypeOK`, `PressTypeOK`, `TravelTypeOK` and `KeyTypeOK` type the variables of their
parts; `ConnSpec`, `PressSpec`, `TravelSpec`, `KeySpec`, `ResidueSpec`, `SizedSpec` and
`CopiesSpec` are the parts on their own: they are there to be proved about.

### Properties

Every one is stated beside the model, most of them with the sentence of the
source they come from.

* `GetKeyOwnerQueued`: a dedup key is held only by a read still to be popped.
* `OneLiveRead`: at most one read of a group waits with a live caller.
* `FoldedCallerServed`: a caller folded into another's read always has a read of its group ahead of it.
* `JoinableItemComing`: the item that takes joiners is one whose frame will still be built.
* `WriteNotCancelled`: one caller's timeout never cancels a shared write.
* `AckedWriteInEffect`: after an acknowledged write nothing but a newer request or a person changes the output.
* `BufferShowsSent`: nothing that lands during a write hides what is being sent.
* `WriteKeepsReported` (action property): a group frame carries, for outputs nobody asked to change, what the module last reported.
* `StopReleasesWaiters`, `NothingStaleSent`: what `stop` promises.
* `EveryCallSettles` (liveness): the future of a read or a write settles without its caller's timeout.
* `ImplementsExchange` (refinement, with liveness): an exchange ends, by an answer of the group it asked or an error.
* `OwnAnswerFiled`: our own answer reaches the host under its group, whatever the Feedback Module asks meanwhile.
* `AckedWriteTaken`: a write exchange that ends without error is one the module took.
* `RetryMeansLoss`: either order of acknowledgement and answer works; without a Feedback Module nothing is retried unless a frame got lost.
* `RebuildSound`: a scan that lost at most one frame of a sound table, and read no register again after its data had come, drops no programmed link.
* `CleanScanRebuilds`: a scan nothing went wrong with does replace the module's links, and by the table's records alone.
* `FrameOfItsBlock`: a decoder that is told which register the next frame answers is told right, through retries and losses.
* `ScanEnds` (liveness): a scan ends whatever the module answers.
* `ToldOnce`: the host hears of the end of a run once, by the callback or by an exception.
* `QueueScanned`: a run over all modules that ends well has scanned each output module once, in order, with its own decoder.
* `RegistryWhole`: an undisturbed inventory reports every record and reads no register twice.
* `UserKept`: cutting the sweep short drops no command of the user.
* `CleanAfterwards`: no flag, timer or queue of a run is left when it is over.
* `EveryRunEnds` (liveness): every run ends, whatever is lost, fails or is cancelled.
* `LinksPlaced`: after a run every link the tables told of is on the key whose frame the module listens for, or a central function.
* `TablesRule`: a module read in full has no link its own table did not tell of.
* `EditsKept`: what the user named stays named through inventories, scans and restarts.
* `OneTransport`: no transport is open but the one in use.
* `ComesBack` (liveness): a line that broke is opened again and listened to.
* `EndsOwnPress`: a press is ended by its own watcher, which is there as long as the press is.
* `PositionTrue`: the position read is the shutter's, through re-targets, reversals and late notice.
* `LedFollows`: the LED shows the output after every call nothing interfered with.
* `EndsAsAsked`: whatever got lost, the output ends up as asked.
* `CopiesTrue`: a copied link names the output its index means, whatever the host knows of the units and however often a register is answered; none that can be told is left out, and one past the last output reaches no output of the list.
* `SizedTablesTrue`: a table that says its own length is told in full when every block of it arrived, and of the PC-Logic's never anything but its beginning.
* `ResidueSound` (action property): only a module that never answered is evicted, statuses follow the probe, and what the user keeps is kept.

### Runs

| run | instance | shows |
|---|---|---|
| `Reads` | 4 calls, 1 group, queue 2; giving up, cancelled in `put`, pushes, scan | type invariant, `OneLiveRead`, `GetKeyOwnerQueued`, `WriteNotCancelled` |
| `Writes` | 3 reads and writes of 1 group of 2 outputs, 2 values; wall, aging | `JoinableItemComing`, `AckedWriteInEffect`, `BufferShowsSent`, `WriteKeepsReported` |
| `Lifecycle` | 3 calls, 2 groups, queue 2, all operations; stop, start, reset anywhere | `StopReleasesWaiters`, `NothingStaleSent` |
| `Settles` | 3 calls, queue 1; giving up, scan; `FairSpec` | `FoldedCallerServed`, `EveryCallSettles` |
| `Exchange` | 3 exchanges of 3 attempts, on a lossless bus with 3 Feedback Module queries and on a lossy one without; `FairSpec` | `ImplementsExchange`, `OwnAnswerFiled`, `AckedWriteTaken`, `RetryMeansLoss` |
| `RegisterScan` | dimmer, switch and self-sizing tables, 1 fault, 1 retry; `FairSpec` | type invariant, `RebuildSound`, `CleanScanRebuilds`, `FrameOfItsBlock`, `ScanEnds` |
| `Discovery` | 3 modules (1 without registers), 2 registry records and 1 filler, queue 2, 1 user command, 1 lost and 1 foreign frame, 2 runs, failures and cancellations; `FairSpec` | type invariant, `ToldOnce`, `QueueScanned`, `RegistryWhole`, `UserKept`, `CleanAfterwards`, `EveryRunEnds` |
| `Stores` | 2 modules of 2 tables each, 6 plates of every class, 2 scan runs, 1 lost register, 3 other events | `LinksPlaced`, `TablesRule`, `EditsKept` |
| `Parts` | the seven parts, one in each behaviour (below) | `OneTransport`, `ComesBack`, `EndsOwnPress`, `PositionTrue`, `LedFollows`, `EndsAsAsked`, `CopiesTrue`, `SizedTablesTrue`, `ResidueSound` |
| `CancelledPut`, `RebuildPartial`, `CallbackReentry` | small | the disagreements below |

Why the bounds are enough.

*Queue and exchange.*  Four calls give an owner of a dedup key, a caller
folded into it, a retry after the owner gave up and one more folded into the
retry; three give a write on the wire, one pending and one that joins, or a read beside
them; a queue of one or two is full with a call suspended in `put`.  A second
group matters only to show that keys do not interfere (`Lifecycle`), a second
output only where a frame carries an output nobody asked for (`Writes`).
In `Exchange` three exchanges follow each other with a query of the other group
before, inside and after each; its response queue never fills, as the real one
of 200 does not while the worker reads it (one short enough to overflow can lose
the answer, and the exchange is retried).  `Lifecycle` has a queue of two, so
that `stop` finds callers suspended in `put`, whose commands are queued behind its
back (the first remark below) and must not spoil what it promises the others.  A run whose
`HostOps` lacks `reset`, `cancelput`, `abandon` or `push` shows what holds while
that does not happen; the theorems state the same conditions.

*Register scan.*  Two registers make a fixed band that ends inside a table; five
switch records are 15 units over two registers, so that records straddle, and
the plan has one register more; three end in a register that a straddling record
begins, so that a stream out of phase has a chunk with an erased end; a dimmer's tables have a gap before and behind a
record; one retry and a give-up limit of two reach every way out of the attempt
loop; one fault is what the code's own safeguards promise to survive, and
`RebuildPartial` shows what a second one, on a register read again, does.

*Discovery.*  Two output modules make a queue that is moved on once; a queue of
two places keeps the sweep of four reads waiting and puts a user's command in the
middle of it; two runs are one and the one that would trip over its leavings.  The
user's commands are fewer than the queue's places: with more, the sweep's reads can
all be suspended in `put` behind them, the queue holds no read, and the window that
looks for one there (`discovery.py:2434-2437`) lets the run end early.  `RegistryRead`
makes the bound its hypothesis; the real queue has 100 places.

*Stores.*  Both layouts of a two-button plate, a record that mirrors to a pair
and one that mirrors to a group, a plate of a PC-Logic output, of the banks, and
two codes that make a remote at the threshold; a PC-Link whose copies are stale
and whose place in the store's order is before the modules.  Two runs with three events between are an
inventory, a scan, a restart, an eviction or reprogramming, and a scan again.

*Parts.*  Three breaks and five transports are enough for a reconnect that breaks
while another task is still closing; six frames and two presses for burst
patience and a watcher that outlives its press; nine ticks for a travel past the
end and back; two calls of a key with one wall press and two losses; four units
with and without outputs, under both list markers seen in installations, with
links that look like list entries and modes or keys nobody knows; tables of
0 to 30 records in blocks of two and two thirds, with a band of two blocks, records
left over behind the count, gaps long enough to end a pass and a run of blocks cut at a
sub-byte, with two faults; two passes
over two output modules with a PC-Logic, one failure of a live module and three
changes of the installation.

Deadlock is not checked in any run: calls, runs and presses are finite in
number, and a system whose work is done may rest.

Fairness.  `CommandHandler!Fairness` is what asyncio and the timers give: a
worker that can step does; an exchange ends, by its answer or after its last
attempt; the scan gives back the lock after each register; `asyncio.Lock` is
first come first served, so a worker that finds it free again and again gets it
(strong fairness of `Acquire`); a caller suspended in `put` resumes when there
is room.  Nothing is assumed of modules (answers may be lost for ever), of a
caller's own timeout, or of the environment.  In `BusExchange` the tasks run, the
timers fire, and gateway and module work through what they were given, where
losing a frame counts as working; the Feedback Module need not ask anything.  In
`RegisterScan` weak fairness of `Next` says that the event loop does not stop:
every step is one of the scan task, of the listener, or of a timer.
In `DiscoveryRun` only `System` is fair, the library's tasks and timers and the
worker; nobody has to begin a run, operate anything or cancel.  In `Connection`
`ConnSystem` is fair: its three tasks and the host's answer to
`on_connection_lost`; breaking, failing to open and sending are not, and the
bounds on them (`MaxDrops`, `MaxOpens`) are what "once it stays" means.

### Where the code and its documentation disagree

* `CancelledPut`: a write cancelled while it is suspended in `put` on a full
  queue stays registered; every later request for the group joins a frame that
  is never sent, until a stop or a reset clears the registration.
* `RebuildPartial`: an acknowledgement is lost and its data frame arrives; the
  register is read again and its records count twice, so that a table that
  lacks another record passes for whole and loses that record's link.
* `CallbackReentry`: a discovery begun from the finished callback is wiped by the
  second half of the reset that runs after the callback; only the module under
  way is scanned.

The rest are remarks without a run of their own.

Command queue and exchange.

* Draining the queue in `stop` wakes callers suspended in `put`; their commands
  are queued after the drain and go out after the next start.
* An answer that nobody was left to store marks its group's state as known; the
  next write of the group skips its read and switches back an output that was
  operated at the wall.
* The answer of the read before a write is stored when the worker runs again; a
  newer state dispatched in between is overwritten by it, and the frame switches
  that output back.
* When the module's answer to us is lost, the answer to a Feedback Module's query
  for the other group follows our acknowledgement and is returned as the state we
  asked for.
* Announcing our query overwrites the group of the Feedback Module's last one
  before its answer arrives; the answer is filed under ours.
* A reset cancels the read that was queued but not the callers folded into it,
  who wait out their timeout.
* With an older write of an output on the wire and a newer one pending, an
  arriving state shows the older (`Overlay`), although `apply_group_state` says
  it "never shows the old value of a channel about to change"; the newer frame is
  still right.

Discovery.

* The inventory window elapses while the enquiry is still queued behind a user's
  command (`discovery.py:2434-2437` looks at register reads only), against
  `CHANGELOG.md:55`; `hurried` excuses it.
* A scan of all modules with a PC-Link among them hears that PC-Link's `$18`
  reply as an address (`discovery.py:3132`), which arms the inventory window and
  ends the scan; `Gateways` is empty in the runs.
* A data frame outside a scan finalizes in the listener's task
  (`discovery.py:4118-4119`), a second time if a run is being finalized already.
* A finished callback that raises in an inventory run is called again
  (`discovery.py:1644-1663`).
* Somebody else's data frame between two register reads goes into the payload
  buffer (`discovery.py:3981-4015`).

Stores.

* Layouts settle batch by batch, although "records of both families leave it as
  it is" (`fileio.py:1651-1655`): a batch rarely has both.
* After a restart an inventory drops `logic_outputs` (`fileio.py:337-351`), against
  the comment above it, and the PC-Logic's virtual buttons are not made up again.
* `links_read_at` is saved before the links are rebuilt (`discovery.py:3583-3610`):
  a crash between leaves a table marked as read with its old links (`torn`).
* `_write_json_atomic` serialises the live dictionary in another thread
  (`fileio.py:108-121`); a change at that moment is in the file by half or raises.
* A mirrored copy keeps the registry as its source when the record it was copied
  from turns out to be the table's (`fileio.py:1943-1967`, `2221`).
* Scenes are classified before virtual and remote buttons are made up
  (`discovery.py:2690`, `2741`).
* A code of a remote whose record has key index 1 is named by a frame on the next
  scan and no longer resolves; a rebuild then files none (exempt in `LinksPlaced`).

The parts.

* A send that waited for the lock while the holder's write failed finds no writer
  and raises `AttributeError`, not the connection error (`connection.py:340-344`).
* A reversal noticed late is anchored on the position now, not on that at the
  time of the reversal (`travel.py:62-64`); `anchored` says so.
* Overlapping calls of one key, and a wall press in the middle of a call, leave the LED
  inverted; `excused` says so.
* A link whose index is 3, the marker of the list, is read as a unit; a unit the
  host does not know, under the other marker, is read as a link and shifts every
  later one; a lost register of the list shifts them unnoticed (`unlisted`).
* A block of an audio table that is lost or answered twice shifts every later record:
  the decoder is told the block (`audio_decoder.py:317`) and does not compare it
  with the one it expects, as the PC-Logic's does.  So does a run of erased blocks that
  ends the first piece of an extension cut at a sub-byte: the rest of the piece is
  left out, and the next extension begins after the last block that answered.
* An audio module that falls silent is asked for the blocks after its last answer twice,
  although the extension "cannot be asked for the same blocks twice"
  (`audio_decoder.py:300-302`): the band and the first extension overlap there.
* Any failure of a read counts as absence, so a connection that is down during the
  whole probe makes every module absent.

## What is proved

Eight modules hold theorems, which TLAPS checks for any calls, groups, modules,
buses, transports and bounds that the named assumptions of the modules allow.
Most of those say only that reserved values are reserved, that addresses of
modules and plates are distinct, that bounds are numbers (positive where the
code's are), that switches are drawn from their sets and that no module is listed
twice.  Three say what the installation is like:

* a plate with two keys sends on the keys of one pair, whichever modules listen for
  it (`PairsAssumption` of `Stores`; `_settle_two_button_layouts` decides by one pair);
* a module counts its records in one byte, and fewer than it has registers (`RegisterScan`);
* a PC-Link lists each unit once, before its links (`MemoriesAssumption` of
  `PcLinkCopies`; "the link table is preceded by a registry section").

Where a theorem needs more, the table says so.

| theorem | property | condition |
|---|---|---|
| `CommandHandlerProofs`: `Inductive` | `IInv`, the inductive invariant | |
| `TypeCorrect` | `TypeOK` | |
| `GetKeyOwner` | `GetKeyOwnerQueued` | |
| `OneRead` | `OneLiveRead` | no `reset` |
| `NoLostJoin` | `JoinableItemComing` | no `cancelput` |
| `FoldedServed` | `FoldedCallerServed` | no `stop`, `reset`, `cancelput` |
| `NoWriteCancelled` | `WriteNotCancelled` | no `stop`, `reset` |
| `NothingStale` | `NothingStaleSent` | |
| `WaitersReleased` | `StopReleasesWaiters` | no `cancelput` |
| `GroupWriteProofs`: `SentShown` | `BufferShowsSent` | no `reset` |
| `AckedInEffect` | `AckedWriteInEffect` | no `stop`, `reset` |
| `KeepsReported` | `WriteKeepsReported` | no `stop`, `reset`, `push`; a Feedback Module or no `abandon` |
| `BusExchangeProofs`: `ExchangeFlow` | `BusInv`, the inductive invariant | |
| `WriteTaken` | `AckedWriteTaken` | |
| `RetriesAfterLoss` | `RetryMeansLoss` | `QueueMax >= 2` |
| `OwnAnswersFiled` | `OwnAnswerFiled` | no Feedback Module, or a PC-Link |
| `ExchangeRefined` | the steps of `ImplementsExchange` | no Feedback Module, or a PC-Link that loses nothing; room in the response queue |
| `DiscoveryRunProofs`: `OneRun` | `RunInv`, the inductive invariant | |
| `HostToldOnce` | `ToldOnce` | |
| `EveryModuleScanned` | `QueueScanned` | |
| `NothingLeft` | `CleanAfterwards` | |
| `StateWellFormed` | `TypeOK` | |
| `UserCommandsKept` | `UserKept` | |
| `RegistryRead` | `RegistryWhole` | `Users <= QueueSize` |
| `ConnectionProofs`: `ConnInductive` | `ConnInv`, the inductive invariant | |
| `NoTransportLost` | `OneTransport` | |
| `OneWriter` | `LockInv`: who holds `_lock` is writing, and no other is | |
| `ConnCorrect` | `ConnTypeOK` | |
| `RegisterScanProofs`: `ScanCorrect` | `TypeOK` | |
| `BlockTrue` | `FrameOfItsBlock` | |
| `RebuildsWhole` | `RebuildKeeps`: the next one without its bound on losses | |
| `RebuildTrue` | `RebuildSound` | |
| `CleanRebuilds` | `CleanScanRebuilds` | |
| `StoresProofs`: `StoresInductive` | `StoresInv`, the inductive invariant | |
| `LinksArePlaced` | `LinksPlaced` | |
| `TablesRuleLinks` | `TablesRule` | |
| `EditsAreKept` | `EditsKept` | |
| `PartsProofs`: `PressCorrect` | `PressTypeOK` | |
| `PressEnded` | `EndsOwnPress` | |
| `KeyCorrect` | `KeyTypeOK` | |
| `EndsAsked` | `EndsAsAsked` | |
| `LedTrue` | `LedFollows` | |
| `ResidueTold` | `ResidueSound` | |
| `PositionRead` | `PositionTrue`, `TravelTypeOK` | `WholeSteps`: travel times of 1, 2, 4, 5, 10, 20, 25, 50 or 100 ticks |
| `InputsAreTheTable` | `InputsBegin`, the first half of `SizedTablesTrue` | |
| `CopiesAreTrue` | `CopiesTrue` | |

TLC checks every strengthening cheaply before it is proved.  The proof that a
step keeps an invariant has one step per action.  The theorems about `Connection`,
`PressTracker`, `FeedbackKey`, `Travel`, `Residue`, `SizedTable` and `PcLinkCopies`
are about the specifications of their own (`ConnSpec`, `PressSpec`, `KeySpec`,
`TravelSpec`, `ResidueSpec`, `SizedSpec`, `CopiesSpec`), which `MCParts` runs with the
other parts.

*Commands.*  None of the properties is inductive alone.  `IInv` strengthens the
type invariant with what ties the pieces of state together: `CallInv` (what an
operation's item and future can be at each place), `QueueInv` (the queue holds
exactly the items located there, each once), `WorkerInv` (the worker holds
exactly the item located with it, and is busy only with one), `KeyInv` (a dedup
key is owned by a read of that group that is queued or suspended in `put`).
Each further theorem adds one invariant that is inductive relative to `IInv`:
`LiveInv` (a pending read that does not own its group's key is not waiting to be
popped), `JoinInv` (a registered item is a write of that group that is still
where its frame can be built), `ServedInv` (a pending folded caller implies a
read of its group in the queue or on the wire), `WriteInv` (who may settle a
write's future and how), `StaleInv` (what was queued before the last stop is not
in play again), `FateInv` and `ReleaseInv` (an item that is gone has settled its
future, and so has what a stopped caller joined).  They rest on three lemmas about
adding to and taking from the queue (`PutQueue`, `PopQueue`, `PopItem`).

*Writes.*  `SentShown` follows from which item takes joiners (`PendInv`) and
whose writes `_writing_sets` holds (`SendInv`).  `AckedInEffect` needs the way of
a write through the wire: `RegInv` and `LastInv` say where the last write asked
of an output can be, `LineInv` whose the frames on the line are, `WireInv` that
once the module has taken the frame the output and every state sent after it show
the write, and `EffectInv` that an acknowledged last write shows in the output,
in the buffer, in every state on its way, in an answer read but not stored and
in a frame built but not sent.  The conditions are needed: a reset drops a write
the buffer still shows, and after a stop or a reset an item that was suspended
in `put` can be sent behind a newer, acknowledged one.

`KeepsReported` is about the outputs of a group nobody asked to change.  `NewsInv`
says where the last report of such an output is: in the buffer, or in the answer the
worker was handed and has not stored (`Unstored`); with a Feedback Module in
both, since the listener gave it to the host too.  It rests on two more invariants.
`OrderInv`: behind an answer of the read going on nothing older is on the line, so
that what is stored last was reported last.  `ReaderInv`: without a Feedback Module a
read on the wire has a caller waiting, so that its answer is stored; a caller
cancelled while suspended in `put` is never that one, because a read still to be
popped owns its group's dedup key (`OwnerInv`) and so is the only one queued.  A frame built
at any of the three places (`WindowEnd`, `ReadDone`, `ReadFail`) then carries the
report (`FrameKeeps`).  All conditions but one are needed; without them TLC
finds the property violated with a single group and two calls: an unasked report is overwritten by
the answer of a read that was sent before it, a reset drops a write the buffer still shows,
and a caller that gives up leaves its answer unstored (two remarks above).  A stop
breaks the property in no such instance; excluding it there is what `RegInv` asks.

*The exchange.*  `BusInv` says which frames of an exchange can be where: while
nothing is lost and no Feedback Module asks, two frames' worth of command,
acknowledgement and answer are always somewhere between outbox and worker
(`KeptInv`, with `Load` their number), which is why a second attempt
means a loss.  Behind a PC-Link, which acknowledges a command when it puts it on
a quiet bus, our answer is in one place at most (`OwnInv`) and both listener
(`HeardInv`) and worker (`TakenInv`) see the acknowledgement, then the answer,
and no other state in between: the answer is attributed right even where frames
get lost.  A loss can still make the worker *return* another's answer (a
remark above), so `ExchangeRefined` excludes it there, and needs `PendingInv`,
that without loss our answer stays on its way.  `RoomInQueue` is assumed at every step:
the response queue has 200 places, is emptied before each attempt and receives a
handful of frames in one; one that overflows would drop its oldest message.

*Discovery.*  `RunInv` says that a run nothing crossed is at one of four places:
at rest with nothing of it left, scanning in the caller's task, sweeping the
PC-Link's registers with nobody waiting, or calling the host back.  In each it says which
task may be suspended where, which flags are set and how much of the queue of modules is
left (`Left`, `Begun`).  That the callers' task, the listener's and two timers
cannot tell the host twice is the statement that these places exclude each other.
`RegistryRead` has an invariant of its own, `WholeInv`: the reads on the wire, in
the command queue and suspended in `put`, in this order and without the user's
commands, are the registers `k`, `k + 1`, ... up to the last (`Pipeline` and `From`), where the
records before `k` are those found.  `ReadsOnce` counts the reads of a register.
What `drain_queue` leaves is a recursive function (`Without`); its facts
(`WithoutFacts`, `WithoutAppend`, `WithoutTail`) are proved by induction on the
length of the queue, itself derived from the library's theorem that the order of
the natural numbers is well founded (`LeastNumber`, `Induct`).

*Register scan.*  `ScanOK` ties the scan's task to its flags and counts: who awaits
what (`PhaseOK`), how often a register was tried (`AttemptOK`), that the register read is
the first of those left (`ReadOK`) and that what is read, left and planned stays within
the total announced (`PlanOK`).  A type invariant alone is not inductive here: that the
registers without an answer are among those read, and that a register is in hand whenever
one is taken off, come from where the task is.  `FrameOfItsBlock` needs `AnswerInv`: until
an answer is late, the frames on the wire are those of the register waited for, an
acknowledgement first if there are two, and none is left once the scan is woken, so
that the next register cannot meet an earlier one's frame.

`RebuildSound` is about counting: a rebuild is allowed when as many records decoded as the
module counts, whichever they are.  `TakenInv` makes that enough.  With `r` the register
whose data comes next, the units decoded, those in the buffer and those left in the
table from `r` on are never more than the table (`Taken`); they are fewer as soon as a
register's data is lost, a chunk is dropped or the buffer is flushed with something in it,
and can never become more again while no register is read twice.  As long as they are the table, the
stream is cut where the records begin (`InPhase`) and every record before `r` is filed.  So a
count that is reached is reached by the records themselves.  The argument needs no bound on
the frames lost.  It does need `MayDecode`: were a chunk with an erased end allowed
to decode, a table that ends in a straddling record could make up for a lost one.  What
it rests on are the lemmas on how a stream is cut (`Cut`, `ChunksCounted`, `StreamUnits`) and
on what one register adds or a skipped one takes away (`ParseTaken`, `SkipTaken`, `ClearTaken`).

`CleanScanRebuilds` is the other direction: where nothing goes wrong, nothing is lost by
the scan itself.  `CleanInv` keeps an equality where `TakenInv` keeps a bound.  Every
record before the register read is filed and nothing else, and the buffer goes on
where the records end (`Gathered`); the data of a register waited for is on its way,
and wherever the scan stops, nothing of the table is left (`Ahead`); the passes
planned from the count go to the end of the table (`Covers`, `PlanCovers`).  So no
decoder of such a stream is given up as misaligned (`NeverMisaligned`), and an erased
register is met only behind the table (`ErasedLeft`).

*Stores.*  Which key a record belongs to depends on a layout that other records settle,
maybe later and in another run.  `SettleShows` is the reason this works out: a record
of a plate with two keys has that plate's layout settled in its favour before it is
filed, and since the records of all tables agree on the pair (`Agree`,
`PairsAssumption`) no later one moves it (`SettledStays`).  `Resolves` says that the key
a record resolves to sends the frame it was decoded from, `MergeLinks` what a merge
changes, record by record of a fold.  With these, `DecodedInv` holds during a run: each record
decoded from a table is filed, or its plate has no entry yet and it is kept for the run's
end, where the plates made up by then take it (`CompletePlaces`).  `PlacedInv` is what is
left of that between runs, through evictions, restarts and edits.  `TablesRule` needs in
addition only that what is filed as a table's word was told by that table since it was
programmed.

*Feedback keys.*  Both properties are about the commands not served yet in their
order, `Pipe` (`onBus` and what is queued behind it).  `EndOK` says what a call that is
under way has in it and that, once no call is, the last command sets what was asked last
or the output is so already; `LedOK` that the commands that are left will
turn the LED and the output the same way.  Each is kept while nothing has happened
that the property excuses (`unset`, `excused`).

*Shutters.*  `TravelInv` says that while the host has noticed everything it reads the
shutter's position, and that a move it has not noticed has brought the shutter from
the position read as far as the ticks since (`MovedBy`).  The model counts in hundredths:
for other travel times a tick's share is rounded once a tick in the shutter and once a move in
the calculator, which differ, where the program's floats do not.  `WholeSteps` is
the condition that neither is rounded; the instance TLC checks is one of them.

*Residue.*  `ProbeInv` says that what answered is present and that a module that has not
answered failed in every pass before, and in this one once it was asked, so that at the
end what is absent was silent in all of them; `ManifestInv` that while nobody touched the stores
the manifest is about what they hold.

*Tables that say their length.*  `Knows` says of a PC-Logic's decoder that, whatever
blocks were lost, repeated, refused or cut, its stream is whole blocks of the table from
the first on; its count is the table's, or less where the table is short; and its
records are the table's first ones.  A block that does not follow on the last one breaks the
stream for good, which is what keeps it a beginning (`BlockKnown`, `FrameKnown`).

*Copies of links.*  A link means the n-th of all outputs, so all depends on the
list of units having each unit in its place.  `MapOK` says it has: units of the memory
come first, each where the outputs before it in the memory end, those with outputs all of
them; a button mistaken for a unit can stand only behind them (`Fits`).  That it survives
every chunk is `MapStays` and `MapAdds`; that a link then reaches what its index means,
and one past the last output at most such a mistaken unit, is `LinkReaches`.  Where an
output is in the flat map is a matter of sums (`SumsExist`, `SumsGrow`,
`SumsCover`) and of `FlattenSeq`, which is a recursive function: `FlatPlaces` is proved by
induction on the number of units.

*Connection and presses.*  `OneTransport` needs that nothing is open while a task is
suspended in a close or the host is about to open (`CloseInv`), which rests on
`Settled`: the waits on a closed transport end in the same turn of the event loop,
an open takes a round trip.
`EndsOwnPress` needs that the press held is the last one begun and that its watcher
has not ended (`WatcherInv`): `NextFrame` and `Wake` tell presses apart by their number alone.

Only model-checked:

* the second half of `SizedTablesTrue`, that a table is told in full when every
  block of it arrived: it is about the passes, the cut at the page's end and the extension
  rounds together, which `ReadBlock` only ever sees one block of;
* everything about liveness: `EveryCallSettles`, `ScanEnds`, `EveryRunEnds`,
  `ComesBack` and the liveness half of `ImplementsExchange`.  Fairness and ENABLED
  are beyond the installed provers.

## What is not modelled, and the plan

Next, in the order of importance.

1. Proofs.  That a sized table is told in full; `KeepsReported` with `stop`; for `Travel`, a bound on what rounding can make of other
   travel times.
2. `CommandHandler`: `set_output_states`, whose frames are snapshot when queued;
   completion and failure handlers that raise.
3. `BusExchange`: timeouts shorter than the bus, the raw queries; `BusAccess` (one
   exchange at a time, each with its own answer), which the worker and the scan
   together implement through `bus_lock`.
4. `Stores`: IR receivers, 8-key and 52-key plates, scenes
   (`_classify_cf_scenes_from_command_mapping`), migrations of older files.
5. Covers and memory reads of `api.py`, whole-module writes, RGB conversion;
   `Connection`'s ping.

Left out for good: the codec (`protocol.py`: CRCs, frames and addresses are pure
functions on bytes that the tests compare with recorded frames, and nothing in
them depends on order or time); the meaning of the bytes of a module's record
(`mapping.py` and the decoders' tables are data); calendars, which only add
fields to the stores; the NKB import and its vendored database reader (file
parsing, no long-lived state); formatting, logging and progress events; the
simulator (a test double; it informs the external modules).
