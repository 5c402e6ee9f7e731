----------------------------- MODULE RegisterScan -----------------------------
(***************************************************************************)
(* The register scan of one module (nikobus_connect/discovery/discovery.py *)
(* with chunk_decoder.py): plan the passes from the record count the       *)
(* module reports, read register after register under the bus lock, put    *)
(* the records back together from the data frames, and at the end decide   *)
(* whether the whole link table was read, so that it may replace what the  *)
(* store holds of the module.                                              *)
(*                                                                         *)
(* A frame carries no register number: an acknowledgement names a function *)
(* ($0510), a data frame a module.  Memory is counted in units; a record   *)
(* takes RecLen of them, a register holds RegLen (switch and roller: 3 and *)
(* 8 units of two bytes; dimmer and the self-sizing tables: one record to  *)
(* one register).  What a register holds is its content, so what the scan  *)
(* makes of a frame can be told from what the module said.                 *)
(***************************************************************************)
EXTENDS Integers, Sequences, FiniteSets

CONSTANTS
    Tables,       \* Tables[kind]: the sets of programmed record slots
    FixedBand,    \* registers of the fixed band, used without a record count
    RetryLimit,   \* MODULE_SCAN_RETRY_LIMIT
    GiveUpLimit,  \* MODULE_SCAN_CONSECUTIVE_GIVE_UP_LIMIT
    StreakLimit,  \* MODULE_SCAN_FF_TERMINATOR_STREAK_LIMIT
    Rounds,       \* _EXTENSION_ROUNDS_LIMIT
    LateKinds,    \* bound: the kinds whose answers may outlast the waits
    MaxLost       \* bound: frames lost, or sends that fail, in one scan

Kinds == {"dimmer", "switch", "self"}

\* A register is named by one byte, and a module counts its records in one.
Registers == 256

ASSUME ScanAssumption ==
    /\ DOMAIN Tables \subseteq Kinds /\ LateKinds \subseteq Kinds
    /\ \A k \in DOMAIN Tables : \A t \in Tables[k] :
          t \subseteq Nat /\ IsFiniteSet(t) /\ Cardinality(t) < Registers
    /\ FixedBand \in Nat \ {0} /\ GiveUpLimit \in Nat \ {0}
    /\ StreakLimit \in Nat \ {0}
    /\ RetryLimit \in Nat /\ Rounds \in Nat /\ MaxLost \in Nat

VARIABLES
    kind,      \* how the module's decoder lays its table out
    table,     \* the slots that hold a record (external)
    shift,     \* units the table is off its place by: 1 in a corrupt table
    deaf,      \* the first register the module does not answer (external)
    late,      \* answers may outlast the waits (external)
    lost,      \* frames lost so far
    wire,      \* frames on their way to the listener, oldest first
    pc,        \* where the scan task is
    passes,    \* the passes still to scan
    regs,      \* registers of this pass still to read
    attempt,   \* attempts made on the first of them
    queue,     \* acknowledgements in the response queue
    awaiting,  \* listener._awaiting_response
    event,     \* _scan_event
    active,    \* _scan_active
    trailer,   \* _scan_trailer_seen
    streak,    \* _scan_ff_terminator_streak
    giveUps,   \* consecutive_give_ups
    missed,    \* _scan_missed_acks
    expected,  \* _scan_expected_records, NoCount without a count-driven plan
    decoded,   \* _scan_decoded_records
    buffer,    \* _payload_buffer: units
    aligned,   \* the decoder's verdict: "open", "yes", "no" (corrupt)
    filed,     \* slots whose own record this session decoded
    phantoms,  \* whether a chunk decoded that is not a record of the table
    block,     \* the register the decoder was told the next frame answers
    astray,    \* history: a data frame was read as another register's
    reread,    \* history: a register was read again after its data had come
    sent,      \* _progress_module_registers_sent
    total,     \* _progress_module_register_total
    rounds,    \* extension rounds made
    stored     \* slots the store holds a link of; Old: a link no longer there

worldVars == <<kind, table, shift, deaf, late>>
faultVars == <<lost, reread>>
progVars  == <<sent, total>>
parseVars == <<streak, decoded, buffer, aligned, filed, phantoms, astray>>
planVars  == <<passes, expected, rounds>>
vars == <<worldVars, faultVars, wire, pc, passes, regs, attempt, queue, awaiting,
          event, active, trailer, streak, giveUps, missed, expected, decoded,
          buffer, aligned, filed, phantoms, block, astray, progVars, rounds,
          stored>>

Old     == -1
NoCount == -1
NoReg   == -1
FF      == <<-1, -1>>   \* a unit of erased memory

RecLen == IF kind = "switch" THEN 3 ELSE 1
RegLen == IF kind = "switch" THEN 8 ELSE 1

Most(a, b)  == IF a > b THEN a ELSE b

\* The unit at an address: part of a record, named by slot and offset, or
\* erased.
Unit(a) ==
    LET at == a - shift
    IN IF at >= 0 /\ at \div RecLen \in table
       THEN <<at \div RecLen, at % RecLen>> ELSE FF

\* What a register holds, in order.
Content(r) == [i \in 1..RegLen |-> Unit(r * RegLen + i - 1)]
Erased(s) == \A i \in DOMAIN s : s[i] = FF

\* A chunk that is one whole record, whatever slot.
Whole(c) ==
    /\ c[1] # FF /\ c[1][2] = 0
    /\ \A i \in DOMAIN c : c[i] = <<c[1][1], i - 1>>

\* Any other chunk may decode or not, but none whose last unit, which names the
\* channel, is erased: no module has that many.
MayDecode(c) == ~Whole(c) /\ c[Len(c)] # FF

\* analyze_frame_payload cuts the buffered stream into full records and
\* keeps the rest for the next frame.
Chunks(s) == [i \in 1..(Len(s) \div RecLen) |->
                 SubSeq(s, (i - 1) * RecLen + 1, i * RecLen)]
\* Mutant: the stream is kept whole.
RemainderWhole(s) == s
Remainder(s) == SubSeq(s, (Len(s) \div RecLen) * RecLen + 1, Len(s))

\* _looks_misaligned: another phase of the stream shows at least two buttons
\* the host knows, more than phase 0, and is the only best one.
Hits(s, off) ==
    Cardinality({i \in 1..((Len(s) - off) \div RecLen) :
        Whole(SubSeq(s, off + (i - 1) * RecLen + 1, off + i * RecLen))})
LooksMisaligned(s) ==
    /\ kind = "switch"
    /\ \E off \in 1..(RecLen - 1) :
          /\ Hits(s, off) >= 2
          /\ \A o \in (0..(RecLen - 1)) \ {off} : Hits(s, o) < Hits(s, off)

-----------------------------------------------------------------------------
(* The plan.                                                               *)

Range0(n) == [i \in 1..n |-> i - 1]

\* Mutant: the blocks rounded down, and none for a record that straddles.
CountPassesFloor(n) ==
    IF kind = "switch"
    THEN <<Range0((n * RecLen) \div RegLen)>>
    ELSE <<Range0(Most(n, 1))>>

\* _count_driven_passes: the blocks the announced records fill, and one more
\* for a record that straddles the last boundary; a dimmer's bank exactly.
CountPasses(n) ==
    IF kind = "switch"
    THEN <<Range0(((n * RecLen + RegLen - 1) \div RegLen) + 1)>>
    ELSE <<Range0(Most(n, 1))>>

Planned(ps) == IF ps = <<>> THEN 0
               ELSE Len(ps[1]) + (IF Len(ps) > 1 THEN Len(ps[2]) ELSE 0)

\* The module reports its record counts (function 0x11) and the plan is sized
\* by them, or it does not and the fixed band is read.  A self-sizing table
\* has no count-driven plan.
Plan ==
    /\ pc = "plan"
    /\ \E answered \in BOOLEAN :
          LET n == Cardinality(table)
              counted == answered /\ kind # "self"
              ps == IF counted THEN CountPasses(n) ELSE <<Range0(FixedBand)>>
          IN /\ expected' = IF counted THEN n ELSE NoCount
             /\ passes' = ps
             /\ total' = Planned(ps)
    /\ sent' = 0 /\ decoded' = 0 /\ missed' = 0
    /\ pc' = "pass"
    /\ UNCHANGED <<worldVars, faultVars, wire, regs, attempt, queue, awaiting,
                   event, active, trailer, streak, giveUps, buffer, aligned,
                   filed, phantoms, block, astray, rounds, stored>>

-----------------------------------------------------------------------------
(* The scan loop.                                                          *)

\* _scan_module_registers takes the scan lock and starts a pass.
StartPass ==
    /\ pc = "pass" /\ passes # <<>>
    /\ regs' = Head(passes) /\ passes' = Tail(passes)
    /\ active' = TRUE /\ trailer' = FALSE /\ streak' = 0 /\ event' = FALSE
    /\ giveUps' = 0
    /\ pc' = "loop"
    /\ UNCHANGED <<worldVars, faultVars, wire, attempt, queue, awaiting,
                   missed, expected, decoded, buffer, aligned, filed,
                   phantoms, block, astray, sent, total, rounds, stored>>

\* The finally clause of a pass.
EndPass ==
    /\ active' = FALSE /\ trailer' = FALSE /\ streak' = 0
    /\ regs' = <<>>
    /\ pc' = "pass"

\* A pass that stops early takes its unread registers off the total.
Shrink(unread, done) == total' = Most(done, total - unread)

PassDone ==
    /\ pc = "loop" /\ regs = <<>>
    /\ EndPass
    /\ UNCHANGED <<worldVars, faultVars, wire, attempt, queue, awaiting,
                   event, giveUps, missed, planVars, decoded, buffer, aligned,
                   filed, phantoms, block, astray, progVars, stored>>

\* The trailer (or a run of erased registers) ends this pass only.
PassCut ==
    /\ pc = "loop" /\ regs # <<>> /\ trailer
    /\ EndPass
    /\ Shrink(Len(regs), sent)
    /\ UNCHANGED <<worldVars, faultVars, wire, attempt, queue, awaiting,
                   event, giveUps, missed, planVars, decoded, buffer, aligned,
                   filed, phantoms, block, astray, sent, stored>>

\* The decoder is told the block; the bus lock is taken for this one read.
NextRegister ==
    /\ pc = "loop" /\ regs # <<>> /\ ~trailer
    /\ block' = Head(regs)
    /\ attempt' = 0
    /\ pc' = "send"
    /\ UNCHANGED <<worldVars, faultVars, wire, regs, queue, awaiting, event,
                   active, trailer, giveUps, missed, planVars, parseVars,
                   progVars, stored>>

\* What the module may answer to a read: an acknowledgement and its content;
\* an erased register may be silent after the acknowledgement, or past the end
\* of the table be answered by the end-of-memory trailer.
Answers(r) ==
    LET ack == [kind |-> "ack", reg |-> r]
    IN IF r >= deaf THEN {<<>>}
       ELSE {<<ack, [kind |-> "data", reg |-> r]>>}
            \cup IF Erased(Content(r))
                 THEN {<<ack>>, <<ack, [kind |-> "trailer", reg |-> r]>>}
                 ELSE {}

\* Frames of an answer the bus or a checksum swallows.
Thinned(s) == {<<s, 0>>} \cup
    {<<SubSeq(s, 1, i - 1) \o SubSeq(s, i + 1, Len(s)), 1>> : i \in DOMAIN s}

\* An attempt fails: try again, or give up and flush what a late answer might
\* have left behind.
AttemptFailed(made) ==
    /\ awaiting' = FALSE
    /\ IF made <= RetryLimit
       THEN pc' = "send" /\ UNCHANGED buffer
       ELSE pc' = "gaveup" /\ buffer' = <<>>

\* One attempt: drain the response queue, clear the event, send.
Send ==
    /\ pc = "send"
    /\ queue' = <<>> /\ event' = FALSE
    /\ attempt' = attempt + 1
    /\ reread' = (reread \/ (attempt > 0 /\ event))
    /\ \/ /\ \E a \in Answers(Head(regs)) : \E f \in Thinned(a) :
                /\ lost + f[2] <= MaxLost
                /\ lost' = lost + f[2]
                /\ wire' = wire \o f[1]
          /\ awaiting' = TRUE /\ pc' = "ack"
          /\ UNCHANGED buffer
       \/ /\ lost < MaxLost /\ lost' = lost + 1   \* the connection refused it
          /\ AttemptFailed(attempt + 1)
          /\ UNCHANGED wire
    /\ UNCHANGED <<worldVars, regs, active, trailer, giveUps, missed,
                   planVars, streak, decoded, aligned, filed, phantoms,
                   astray, block, progVars, stored>>

\* The first queued acknowledgement of the function is taken for this read's.
TakeAck ==
    /\ pc = "ack" /\ queue # <<>>
    /\ queue' = Tail(queue)
    /\ pc' = "data"
    /\ UNCHANGED <<worldVars, faultVars, wire, regs, attempt, awaiting, event,
                   active, trailer, giveUps, missed, planVars, parseVars,
                   block, progVars, stored>>

\* Mutant: the wait has no deadline.
AckWaitOverNever == FALSE
\* MODULE_SCAN_ACK_TIMEOUT.  Nothing is on its way when it elapses, unless
\* answers may be late.
AckWaitOver == wire = <<>> \/ late

AckTimeout ==
    /\ pc = "ack" /\ queue = <<>>
    /\ AckWaitOver
    /\ AttemptFailed(attempt)
    /\ UNCHANGED <<worldVars, faultVars, wire, regs, attempt, queue, event,
                   active, trailer, giveUps, missed, planVars, streak,
                   decoded, aligned, filed, phantoms, astray, block, progVars,
                   stored>>

\* After a read: count it, and after too many unanswered in a row drop the
\* rest of the pass.
AfterRead(acked) ==
    /\ sent' = sent + 1
    /\ awaiting' = FALSE
    /\ IF acked
       THEN /\ giveUps' = 0 /\ regs' = Tail(regs) /\ pc' = "loop"
            /\ UNCHANGED <<missed, active, trailer, streak, total>>
       ELSE /\ giveUps' = giveUps + 1 /\ missed' = missed + 1
            /\ IF giveUps' >= GiveUpLimit
               THEN EndPass /\ Shrink(Len(regs) - 1, sent')
               ELSE /\ regs' = Tail(regs) /\ pc' = "loop"
                    /\ UNCHANGED <<active, trailer, streak, total>>

\* Mutant: the scan goes on with the acknowledgement alone.
DataCameUnawaited == TRUE
\* The data frame woke the scan, or MODULE_SCAN_DATA_TIMEOUT elapsed: silence
\* is an empty register's answer.
DataCame == event \/ wire = <<>> \/ late

DataWaitOver ==
    /\ pc = "data"
    /\ DataCame
    /\ AfterRead(TRUE)
    /\ UNCHANGED <<worldVars, faultVars, wire, attempt, queue, event,
                   planVars, decoded, buffer, aligned, filed, phantoms, block,
                   astray, stored>>

GiveUp ==
    /\ pc = "gaveup"
    /\ AfterRead(FALSE)
    /\ queue' = <<>>
    /\ UNCHANGED <<worldVars, faultVars, wire, attempt, event, planVars,
                   decoded, buffer, aligned, filed, phantoms, block, astray,
                   stored>>

-----------------------------------------------------------------------------
(* The listener and the parser.                                            *)

\* A run of registers without a record that end in FFs ends the pass; one
\* that is not empty restarts the run.
CountErased(s, hits) ==
    LET empty == hits = 0 /\ \A i \in (Len(s) - RecLen + 1)..Len(s) : s[i] = FF
    IN /\ streak' = IF empty THEN streak + 1 ELSE 0
       /\ trailer' = (trailer \/ (empty /\ streak + 1 >= StreakLimit))

\* parse_module_inventory_response and _handle_decoded_commands: decide once,
\* on the first frame, whether the table is corrupt; else cut the stream into
\* chunks, file every record that decodes.
Parse(s) ==
    LET stream  == buffer \o s
        verdict == IF aligned # "open" \/ buffer # <<>> THEN aligned
                   ELSE IF LooksMisaligned(stream) THEN "no" ELSE "yes"
        cs      == IF verdict = "no" THEN <<>> ELSE Chunks(stream)
        genuine == {i \in DOMAIN cs : Whole(cs[i])}
        garbage == {i \in DOMAIN cs : MayDecode(cs[i])}
    IN /\ aligned' = verdict
       /\ buffer' = IF verdict = "no" THEN <<>> ELSE Remainder(stream)
       /\ \E junk \in 0..Cardinality(garbage) :
             /\ decoded' = decoded + Cardinality(genuine) + junk
             /\ phantoms' = (phantoms \/ junk > 0)
             /\ CountErased(s, Cardinality(genuine) + junk)
       /\ filed' = filed \cup {cs[i][1][1] : i \in genuine}

\* The next frame reaches the listener.  Acknowledgements are queued only
\* while somebody waits; a data frame or the trailer wakes the scan (the wait
\* for an acknowledgement skips their copies in the response queue).  Frames
\* that arrive after the end are DiscoveryRun's.
Deliver ==
    /\ wire # <<>> /\ pc # "done"
    /\ LET f == Head(wire) IN
       /\ wire' = Tail(wire)
       /\ \/ /\ f.kind = "ack"
             /\ queue' = IF awaiting THEN Append(queue, f.reg) ELSE queue
             /\ UNCHANGED <<event, trailer, parseVars>>
          \/ /\ f.kind = "trailer"
             /\ event' = (event \/ active) /\ trailer' = (trailer \/ active)
             /\ UNCHANGED <<queue, parseVars>>
          \/ /\ f.kind = "data"
             /\ event' = (event \/ active)
             /\ Parse(Content(f.reg))
             /\ astray' = (astray \/ (kind = "self" /\ f.reg # block))
             /\ UNCHANGED queue
    /\ UNCHANGED <<worldVars, faultVars, pc, regs, attempt, awaiting, active,
                   giveUps, missed, planVars, block, progVars, stored>>

-----------------------------------------------------------------------------
(* After the passes.                                                       *)

\* _run_extension_passes: a decoder that sizes its own table asks for more,
\* a bounded number of times.
Extend ==
    /\ pc = "pass" /\ passes = <<>>
    /\ kind = "self" /\ rounds < Rounds
    /\ \E n \in 1..2 :
          /\ passes' = <<[i \in 1..n |-> FixedBand + 2 * rounds + i - 1]>>
          /\ total' = total + n
    /\ rounds' = rounds + 1
    /\ UNCHANGED <<worldVars, faultVars, wire, pc, regs, attempt, queue,
                   awaiting, event, active, trailer, giveUps, missed,
                   expected, parseVars, block, sent, stored>>

\* Mutant: the records are not counted.
LinkTableCompleteUncounted ==
    /\ expected # NoCount
    /\ missed = 0
    /\ aligned # "no"

\* _link_table_incomplete: nothing says that part of the table is missing.
LinkTableComplete ==
    /\ expected # NoCount
    /\ missed = 0
    /\ aligned # "no"
    /\ decoded >= expected

\* A table read in full replaces what the store holds of the module
\* (_rebuild_module_links); any other scan only adds.
Finish ==
    /\ pc = "pass" /\ passes = <<>>
    /\ stored' = IF kind # "self" /\ LinkTableComplete
                 THEN filed ELSE stored \cup filed
    /\ pc' = "done"
    /\ UNCHANGED <<worldVars, faultVars, wire, regs, attempt, queue, awaiting,
                   event, active, trailer, giveUps, missed, planVars,
                   parseVars, block, progVars>>

-----------------------------------------------------------------------------
Init ==
    /\ kind \in DOMAIN Tables
    /\ table \in Tables[kind]
    /\ shift \in (IF kind = "switch" THEN {0, 1} ELSE {0})
    /\ deaf \in {0, 1, Registers}
    /\ late \in BOOLEAN /\ (late => kind \in LateKinds)
    /\ lost = 0 /\ wire = <<>>
    /\ pc = "plan" /\ passes = <<>> /\ regs = <<>> /\ attempt = 0
    /\ queue = <<>> /\ awaiting = FALSE /\ event = FALSE
    /\ active = FALSE /\ trailer = FALSE /\ streak = 0
    /\ giveUps = 0 /\ missed = 0 /\ expected = NoCount /\ decoded = 0
    /\ buffer = <<>> /\ aligned = "open" /\ filed = {} /\ phantoms = FALSE
    /\ block = NoReg /\ astray = FALSE /\ reread = FALSE
    /\ sent = 0 /\ total = 0 /\ rounds = 0
    /\ stored = table \cup {Old}

Scan == \/ Plan \/ StartPass \/ PassDone \/ PassCut \/ NextRegister \/ Send
        \/ TakeAck \/ AckTimeout \/ DataWaitOver \/ GiveUp \/ Extend \/ Finish

Next == Scan \/ Deliver

Spec == Init /\ [][Next]_vars

\* The event loop runs the scan task and the listener, and its timers fire.
FairSpec == Spec /\ WF_vars(Next)
-----------------------------------------------------------------------------
(* What the scan promises.                                                 *)

TypeOK ==
    /\ kind \in Kinds /\ shift \in {0, 1} /\ late \in BOOLEAN
    /\ lost \in 0..MaxLost
    /\ \A i \in DOMAIN wire : wire[i].kind \in {"ack", "data", "trailer"}
    /\ pc \in {"plan", "pass", "loop", "send", "ack", "data", "gaveup", "done"}
    /\ attempt \in 0..(RetryLimit + 1)
    /\ awaiting = (pc \in {"ack", "data"})
    /\ active = (pc \in {"loop", "send", "ack", "data", "gaveup"})
    /\ {event, trailer, phantoms, astray, reread} \subseteq BOOLEAN
    /\ streak \in Nat /\ giveUps \in 0..GiveUpLimit
    /\ sent \in 0..total /\ missed \in 0..sent /\ decoded \in Nat /\ expected \in Nat \cup {NoCount}
    /\ Len(buffer) < RecLen
    /\ aligned \in {"open", "yes", "no"}
    /\ filed \subseteq table /\ stored \subseteq table \cup {Old}
    /\ rounds \in 0..Rounds

Contiguous == table = {i \in table : i < Cardinality(table)}

\* A scan that lost at most one frame, of a sound table without gaps, whose
\* answers came in time, and that read no register again after its data had
\* come, rebuilds the module's links only when every record of the table was
\* filed: no programmed link leaves the store.
OneFault == ~late /\ lost <= 1 /\ shift = 0 /\ Contiguous
RebuildSound == OneFault /\ ~reread => table \subseteq stored

\* A scan nothing went wrong with does rebuild, and from nothing but the table:
\* the plan reaches the last record, the empty-run terminator does not cut it
\* off, every record counts and no chunk straddles two of them.
CleanScanRebuilds ==
    (/\ pc = "done" /\ kind # "self" /\ expected # NoCount
     /\ OneFault /\ lost = 0 /\ deaf > 1)
    => stored = table /\ ~phantoms

\* A decoder that is told which register the next frame answers is told right,
\* retries and lost frames included, as long as answers come within the waits.
FrameOfItsBlock == ~late => ~astray

\* Every scan ends, whatever the module answers or does not.
ScanEnds == <>(pc = "done")

\* The docstring of _link_table_incomplete (discovery.py:3533): "A rebuild
\* replaces every stored link of the module, so it needs the whole table".
RebuildNeedsWholeTable == table \subseteq stored
=============================================================================
