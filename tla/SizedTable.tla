------------------------------ MODULE SizedTable ------------------------------
(***************************************************************************)
(* Tables that say themselves how long they are: the audio module's links   *)
(* (discovery/audio_decoder.py) and the PC-Logic's inputs                   *)
(* (discovery/pc_logic_decoder.py).                                         *)
(*                                                                          *)
(* The plan reads a fixed band.  It holds the count and the first records;  *)
(* the decoder then asks for the blocks of the rest, a bounded number of    *)
(* times.  A block is eight units of two bytes, the count is one unit in    *)
(* block 0, a record takes three.  RegisterScan is what happens within one  *)
(* read; here a read is one step with all it may come to.                   *)
(***************************************************************************)
EXTENDS Integers, Sequences
Sets == INSTANCE FiniteSetsExt

CONSTANTS
    SizedTables, \* [count, slots]: the count in memory, -1 when erased, and the
                 \* slots that hold a record
    Capacity,    \* AUDIO_MAX_RECORDS, PC_LOGIC_INPUT_MAX_RECORDS
    AudioBand,   \* blocks of the audio module's fixed band
    Before,      \* erased registers of the PC-Logic before its table
    Page,        \* blocks of one sub-byte
    ErasedRun,   \* MODULE_SCAN_FF_TERMINATOR_STREAK_LIMIT
    GivenUp,     \* MODULE_SCAN_CONSECUTIVE_GIVE_UP_LIMIT
    ExtensionRounds, \* _EXTENSION_ROUNDS_LIMIT
    MaxFaults    \* bound: reads that go wrong

ASSUME SizedAssumption ==
    /\ {Capacity, AudioBand, Page, ErasedRun, GivenUp} \subseteq Nat \ {0}
    /\ {Before, ExtensionRounds, MaxFaults} \subseteq Nat
    /\ \A t \in SizedTables : t.count \in -1..Capacity /\ t.slots \subseteq 0..Capacity

VARIABLES
    reader,      \* whose table: "audio" or "logic"
    programmed,  \* the table in the module's memory (external)
    passesLeft,  \* passes still to read
    blocksLeft,  \* blocks left of this one
    erased,      \* _scan_ff_terminator_streak
    cut,         \* _scan_trailer_seen
    unanswered,  \* consecutive_give_ups
    dec,         \* what the decoder knows, see Fresh
    extended,    \* extensions made
    published,   \* input_links_by_module, for this module
    readerDone,  \* the module's scan is over
    off,         \* the module stopped answering for good (external)
    disturbed,   \* history: a block of the table was left out, or did not
                 \* arrive just once
    faults

sizedVars == <<reader, programmed, passesLeft, blocksLeft, erased, cut, unanswered,
               dec, extended, published, readerDone, off, disturbed, faults>>

BlockLen == 8
RecordLen == 3
HeadLen == 4              \* units up to and with the count
NotYet == -1
Blank == <<"FF">>

\* Two numbers in order.
Lesser(a, b) == IF a < b THEN a ELSE b
Greater(a, b) == IF a > b THEN a ELSE b

\* The unit at an address of the table, block 0 starting at 0.
UnitAt(a) ==
    LET slot == (a - HeadLen) \div RecordLen
    IN CASE a = HeadLen - 1 /\ programmed.count # NotYet
                            -> <<"count", programmed.count>>
         [] a >= HeadLen /\ slot \in programmed.slots
                            -> <<"rec", slot, (a - HeadLen) % RecordLen>>
         [] OTHER           -> Blank
BlockAt(b) == [i \in 1..BlockLen |-> IF b < 0 THEN Blank ELSE UnitAt(b * BlockLen + i - 1)]
AllBlank(s) == \A i \in DOMAIN s : s[i] = Blank
RecordOf(slot) == [i \in 1..RecordLen |-> <<"rec", slot, i - 1>>]

\* The last block that n records reach.
Reach(n) == (HeadLen + n * RecordLen - 1) \div BlockLen
\* _input_table_last_block.
LastInputBlock(n) ==
    CASE n = NotYet -> 1
      [] n = 0      -> 0
      [] OTHER      -> Lesser(Reach(n), Reach(Capacity))

\* reset_scan_buffers, and the payload buffer with it: bytes between frames,
\* the count, records still to come, the last block that answered, units of a
\* record kept, where the last extension began, whether a block was missed, the
\* PC-Logic's links, the audio module's, whether the last frame gave one.
Fresh == [stream |-> <<>>, count |-> NotYet, left |-> 0, last |-> NotYet, kept |-> 0,
          from |-> NotYet, broken |-> FALSE, links |-> <<>>, filed |-> {}, gave |-> FALSE]

-----------------------------------------------------------------------------
(* The audio module.                                                        *)

\* _count_header: what a unit gives when it is read as the count.  Any unit
\* but the real one and the erased one may look like a count, the smallest or
\* the largest, or like none.
CountsIn(u) ==
    CASE u = Blank      -> {NotYet}
      [] u[1] = "count" -> {IF u[2] \in 1..Capacity THEN u[2] ELSE NotYet}
      [] OTHER          -> {NotYet, 1, Capacity}

\* _header_index: the places the count is looked for, the fixed one first and
\* else behind the filler; none when there is nothing but filler.
HeaderAt(s) ==
    LET full == {i \in DOMAIN s : s[i] # Blank}
    IN IF full = {} THEN 0 ELSE Sets!Min(full)

\* decode: a record counts when its last byte says so.  The last unit of a
\* record does; another unit in that place may happen to (in a frame, all such
\* chunks do or none).
Valid(c) ==
    CASE c[RecordLen] = Blank                                  -> {FALSE}
      [] c[RecordLen][1] = "rec" /\ c[RecordLen][3] = RecordLen - 1 -> {TRUE}
      [] OTHER                                                 -> BOOLEAN

\* What is filed of a valid chunk: a record's link, or one nobody programmed.
LinkOf(c) == IF \E slot \in programmed.slots : c = RecordOf(slot) THEN c ELSE <<"wrong">>

\* The records cut from s while some are to come.
CutRecords(d, s) ==
    LET n  == Lesser(d.left, Len(s) \div RecordLen)
        cs == [i \in 1..n |-> SubSeq(s, (i - 1) * RecordLen + 1, i * RecordLen)]
        rest == IF d.left > n THEN SubSeq(s, n * RecordLen + 1, Len(s)) ELSE <<>>
        sure  == {i \in 1..n : Valid(cs[i]) = {TRUE}}
        maybe == {i \in 1..n : Valid(cs[i]) = BOOLEAN}
    IN {[d EXCEPT !.left = @ - n, !.stream = rest, !.kept = Len(rest),
                  !.filed = @ \cup {LinkOf(cs[i]) : i \in sure \cup some},
                  !.gave = sure \cup some # {}]
          : some \in {{}, maybe}}

\* AudioDecoder.analyze_frame_payload, for a frame that answers block b.
AudioFrame(d, b) ==
    LET s == d.stream \o BlockAt(b)
        e == [d EXCEPT !.last = b, !.gave = FALSE]
        h == HeaderAt(s)
    IN IF d.count # NotYet THEN CutRecords(e, s)
       ELSE IF h = 0 THEN {[e EXCEPT !.stream = s]}
       ELSE UNION {IF n = NotYet THEN {[e EXCEPT !.stream = <<>>]}
                   ELSE CutRecords([e EXCEPT !.count = n, !.left = n], SubSeq(s, h + 1, Len(s)))
                     : n \in CountsIn(s[h])}

\* AudioDecoder.extension_passes: from the block after the last that answered,
\* with one of slack; nothing when that is where the last extension began.
AudioMore(d) ==
    LET first  == d.last + 1
        units  == Greater(d.left * RecordLen - d.kept, 1)
        blocks == (units + BlockLen - 1) \div BlockLen + 1
    IN IF d.left = 0 \/ d.last = NotYet \/ (d.from # NotYet /\ first <= d.from)
       THEN <<>>
       ELSE <<first, Lesser(first + blocks - 1, Reach(Capacity))>>

-----------------------------------------------------------------------------
(* The PC-Logic.                                                            *)

\* _absorb_input_block, the order of blocks: one that is not the next ends the
\* reading of the table.
InputBlock(d, b) ==
    IF b = Len(d.stream) \div BlockLen
    THEN [d EXCEPT !.stream = @ \o BlockAt(b)] ELSE [d EXCEPT !.broken = TRUE]

\* _absorb_input_block, the rest: the count, then every complete record; an
\* erased slot means that the table is shorter than its count.
Inputs(d) ==
    LET n     == IF d.count # NotYet THEN d.count
                 ELSE LET u == d.stream[HeadLen] IN IF u[1] = "count" THEN u[2] ELSE 0
        whole == Lesser(n, (Len(d.stream) - HeadLen) \div RecordLen)
        rec(k) == SubSeq(d.stream, HeadLen + k * RecordLen + 1, HeadLen + (k + 1) * RecordLen)
        empty == {k \in Len(d.links)..(whole - 1) : AllBlank(rec(k))}
        upTo  == IF empty = {} THEN whole ELSE Sets!Min(empty)
    IN [d EXCEPT !.count = IF empty = {} THEN n ELSE upTo,
                 !.links = [k \in 1..Greater(upTo, Len(@)) |->
                               IF k <= Len(@) THEN @[k] ELSE rec(k - 1)]]

\* PcLogicDecoder.analyze_frame_payload; other blocks are the registry's.
InputFrame(d, b) ==
    IF ~(0 <= b /\ b <= LastInputBlock(d.count)) \/ d.broken THEN d
    ELSE LET e == InputBlock(d, b) IN IF e.broken THEN e ELSE Inputs(e)

\* PcLogicDecoder.extension_passes.
InputMore(d) ==
    LET first == Len(d.stream) \div BlockLen
        final == LastInputBlock(d.count)
    IN IF \/ d.count = NotYet \/ d.broken \/ Len(d.links) >= d.count
          \/ d.from # NotYet /\ first <= d.from
          \/ final < first
       THEN <<>> ELSE <<first, final>>

-----------------------------------------------------------------------------
(* The scan.                                                                *)

Span(a, b) == [i \in 1..(b - a + 1) |-> a + i - 1]

\* Mutant: the table's blocks read in one pass with what lies before them.
PlannedTogether ==
    IF reader = "audio" THEN <<Span(0, AudioBand - 1)>> ELSE <<Span(-Before, 1)>>
\* _MODULE_SCAN_PROFILES: the PC-Logic's two blocks are a pass of their own,
\* because the erased registers before them end theirs.
PlannedPasses ==
    IF reader = "audio" THEN <<Span(0, AudioBand - 1)>>
    ELSE <<Span(-Before, -1), Span(0, 1)>>

\* blocks_to_sections: a run of blocks cut where the sub-byte changes.
Sections(a, b) ==
    [i \in 1..(b \div Page - a \div Page + 1) |->
        LET p == a \div Page + i - 1
        IN Span(Greater(a, p * Page), Lesser(b, (p + 1) * Page - 1))]

\* What comes of reading block b: how often its data arrive, whether a read
\* was acknowledged in the end, whether the trailer came.  A register in order
\* answers once, an erased one may be silent or answer by the trailer, and a
\* fault loses the data, has them arrive twice or loses every acknowledgement.
InOrder == [frames |-> 1, acked |-> TRUE, trailer |-> FALSE]
Silence == [InOrder EXCEPT !.frames = 0]
Outcomes(b) ==
    IF off THEN {[Silence EXCEPT !.acked = FALSE]}
    ELSE {InOrder}
         \cup (IF AllBlank(BlockAt(b)) THEN {Silence, [Silence EXCEPT !.trailer = TRUE]} ELSE {})
         \cup (IF faults < MaxFaults
               THEN {Silence, [InOrder EXCEPT !.frames = 2]}
                    \cup [frames : 0..1, acked : {FALSE}, trailer : {FALSE}]
               ELSE {})

Frame(d, b) == IF reader = "audio" THEN AudioFrame(d, b) ELSE {InputFrame(d, b)}
Frames(d, b, n) ==
    CASE n = 0 -> {d}
      [] n = 1 -> Frame(d, b)
      [] n = 2 -> UNION {Frame(e, b) : e \in Frame(d, b)}

\* The blocks of the table.
InTable(b) == 0 <= b /\ b <= Reach(programmed.count)

\* The next pass begins.
NextPass ==
    /\ ~readerDone /\ blocksLeft = <<>> /\ passesLeft # <<>>
    /\ blocksLeft' = Head(passesLeft) /\ passesLeft' = Tail(passesLeft)
    /\ erased' = 0 /\ cut' = FALSE /\ unanswered' = 0
    /\ UNCHANGED <<reader, programmed, dec, extended, published, readerDone, off, disturbed, faults>>

\* The run of registers that end erased and gave no link.
CountRun(b, n, gave) ==
    LET blank == ~gave /\ AllBlank(SubSeq(BlockAt(b), BlockLen - RecordLen + 1, BlockLen))
    IN IF blank THEN erased + n ELSE IF n = 0 THEN erased ELSE 0

\* One register of the pass; a read given up flushes the payload buffer.
ReadBlock ==
    /\ ~readerDone /\ blocksLeft # <<>> /\ ~cut
    /\ LET b == Head(blocksLeft) IN
       \E o \in Outcomes(b) : \E d \in Frames(dec, b, o.frames) :
          LET normal == o \in {InOrder} \cup
                  (IF AllBlank(BlockAt(b)) THEN {Silence, [Silence EXCEPT !.trailer = TRUE]} ELSE {})
          IN /\ dec' = IF o.acked \/ reader = "logic" THEN d ELSE [d EXCEPT !.stream = <<>>]
             /\ erased' = CountRun(b, o.frames, d.gave)
             /\ cut' = (o.trailer \/ (o.frames > 0 /\ erased' >= ErasedRun))
             /\ unanswered' = IF o.acked THEN 0 ELSE unanswered + 1
             /\ blocksLeft' = IF unanswered' >= GivenUp THEN <<>> ELSE Tail(blocksLeft)
             /\ faults' = IF off \/ normal THEN faults ELSE faults + 1
             /\ disturbed' = (disturbed \/ (InTable(b) /\ o # InOrder))
    /\ UNCHANGED <<reader, programmed, passesLeft, extended, published, readerDone, off>>

\* The trailer, or the run, ends this pass.  If it was a piece of a run of
\* blocks, the decoder is not told that the rest of the piece was left out.
CutPass ==
    /\ ~readerDone /\ cut /\ blocksLeft # <<>>
    /\ blocksLeft' = <<>>
    /\ disturbed' = (disturbed \/ (passesLeft # <<>> /\ InTable(Head(blocksLeft))))
    /\ UNCHANGED <<reader, programmed, passesLeft, erased, cut, unanswered, dec,
                   extended, published, readerDone, off, faults>>

PassesOver == ~readerDone /\ blocksLeft = <<>> /\ passesLeft = <<>>
More == IF reader = "audio" THEN AudioMore(dec) ELSE InputMore(dec)
MayExtend == extended < ExtensionRounds /\ More # <<>> /\ More[1] <= More[2]

\* _run_extension_passes, one round.
ExtendTable ==
    /\ PassesOver /\ MayExtend
    /\ passesLeft' = Sections(More[1], More[2])
    /\ dec' = [dec EXCEPT !.from = More[1]]
    /\ extended' = extended + 1
    /\ UNCHANGED <<reader, programmed, blocksLeft, erased, cut, unanswered,
                   published, readerDone, off, disturbed, faults>>

\* The scan ends and the decoder is reset: the inputs are published if their
\* count was read; the audio module's links were filed as they came.
TableOver ==
    /\ PassesOver /\ ~MayExtend
    /\ readerDone' = TRUE
    /\ published' = IF reader = "logic" /\ dec.count # NotYet THEN dec.links ELSE published
    /\ dec' = [Fresh EXCEPT !.filed = dec.filed]
    /\ UNCHANGED <<reader, programmed, passesLeft, blocksLeft, erased, cut, unanswered,
                   extended, off, disturbed, faults>>

\* The module is switched off (external).
SwitchedOff ==
    /\ ~readerDone /\ ~off /\ faults < MaxFaults
    /\ off' = TRUE /\ faults' = faults + 1
    /\ UNCHANGED <<reader, programmed, passesLeft, blocksLeft, erased, cut, unanswered,
                   dec, extended, published, readerDone, disturbed>>

SizedInit ==
    /\ reader \in {"audio", "logic"} /\ programmed \in SizedTables
    /\ passesLeft = PlannedPasses /\ blocksLeft = <<>>
    /\ erased = 0 /\ cut = FALSE /\ unanswered = 0 /\ dec = Fresh
    /\ extended = 0 /\ published = <<>> /\ readerDone = FALSE
    /\ off = FALSE /\ disturbed = FALSE /\ faults = 0

SizedNext == NextPass \/ ReadBlock \/ CutPass \/ ExtendTable \/ TableOver \/ SwitchedOff

SizedSpec == SizedInit /\ [][SizedNext]_sizedVars
-----------------------------------------------------------------------------
\* The slots of the table that hold a record, and those without a gap before them.
Inside == {s \in 0..(programmed.count - 1) : s \in programmed.slots}
Leading == {s \in Inside : 0..s \subseteq Inside}

\* Whatever is lost, repeated or cut short, and whatever erased memory lies within
\* the table, what is told of the PC-Logic's inputs is the table's own beginning.
Begins(told) == \A i \in DOMAIN told : i - 1 \in Leading /\ told[i] = RecordOf(i - 1)
InputsBegin == reader = "logic" => Begins(dec.links) /\ Begins(published)

\* And a table of which every block arrived is told in full and nothing besides,
\* by both decoders, however far it runs past the band.
SizedTablesTrue ==
    LET due  == IF reader = "audio" THEN Inside ELSE Leading
        told == dec.filed \cup {published[i] : i \in DOMAIN published}
    IN /\ InputsBegin
       /\ readerDone /\ ~disturbed => told = {RecordOf(s) : s \in due}
=============================================================================
