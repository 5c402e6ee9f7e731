----------------------------- MODULE PcLinkCopies -----------------------------
(***************************************************************************)
(* How a PC-Link's memory is read for copies of links                       *)
(* (discovery/pc_link_decoder.py and pc_record_parser.py).                  *)
(*                                                                          *)
(* The memory lists the units of the installation, then the links.  A link  *)
(* names its output by one index into all outputs, unit after unit in the   *)
(* order of that list, so the decoder must come to the same list: from      *)
(* records told apart by their shape, registers answered twice, and units   *)
(* the host cannot size yet.                                                *)
(***************************************************************************)
EXTENDS Naturals, FiniteSets, Sequences
Seqs == INSTANCE SequencesExt

CONSTANTS
    Installed,  \* units of the installation
    DeviceType, \* the device type of each
    Channels,   \* outputs of a device type in the catalogue
    Senders,    \* buttons the links name
    SenderKeys, \* the host's channel count of each, 0 when unknown
    LowBytes,   \* the two bytes of a button's address where a unit's stands
    Memories,   \* what the PC-Link may hold: sequences of 16-byte chunks
    MaxReads,   \* bound: scans of the PC-Link
    MaxRepeats, \* bound: registers answered twice
    MaxGone     \* bound: registers lost

\* Device types of modules, and those with outputs
\* (_MODULE_DEVICE_TYPE_CODES, OUTPUT_BEARING_DEVICE_TYPES).
ModuleTypes == {1, 2, 3, 8, 10}
OutputBearing == {1, 2, 3}
REGISTRY_MARKER == 3

ASSUME CopiesAssumption ==
    /\ DeviceType \in [Installed -> ModuleTypes]
    /\ Channels \in [ModuleTypes -> Nat] /\ SenderKeys \in [Senders -> Nat]
    /\ Installed \cap Senders = {} /\ DOMAIN LowBytes = Senders
    /\ {MaxReads, MaxRepeats, MaxGone} \subseteq Nat

VARIABLES
    memory,   \* the PC-Link's memory
    cursor,   \* the chunk to be read next, 0 when no scan is going on
    registry, \* RegistryBuffer: <<device type, address>> in encounter order
    sized,    \* units whose channels the host knows
    known,    \* units in dict_module_data
    copies,   \* links emitted for the merge in this scan
    unlisted, \* history: a unit with outputs went unrecognised in this scan
    linksRead,\* history: chunks of links read in this scan
    reads, repeats, gone \* bounds

copyVars == <<memory, cursor, registry, sized, known, copies, unlisted, linksRead,
              reads, repeats, gone>>

\* Chunks that are dropped before they are parsed: empty, a counter dump or a
\* fragment (bytes 1 to 3 are not zero), a grid of central functions.
Dropped(c) == c.shape \in {"empty", "noise", "grid"}

\* The address a chunk holds at bytes 8 and 9.
AddressIn(c) == IF c.ref \in Senders THEN LowBytes[c.ref] ELSE c.ref

\* parse_pc_record: an entry of the list by its marker, or by a device type and
\* the address of a unit the host has (_looks_like_registry_shape).
IsUnit(c) ==
    \/ c.b0 = REGISTRY_MARKER
    \/ c.b4 \in ModuleTypes /\ AddressIn(c) \in known
AsUnit(c) == <<c.b4, AddressIn(c)>>

\* RegistryBuffer.add: the first record of an address counts.
Added(R, u) == IF \E i \in DOMAIN R : R[i][2] = u[2] THEN R ELSE Append(R, u)

\* Mutant: a unit the host cannot size takes no place.
KnownSize(u) == IF u[2] \in sized THEN Channels[u[1]] ELSE 0
\* The catalogue stands in for a unit the host cannot size.
Size(u) ==
    IF u[1] \notin OutputBearing THEN 0
    ELSE Channels[IF u[2] \in sized THEN DeviceType[u[2]] ELSE u[1]]

\* build_flat_channel_map.
FlatMap(R) == Seqs!FlattenSeq([i \in 1..Len(R) |-> [n \in 1..Size(R[i]) |-> <<R[i][2], n>>]])

\* resolve_link_target, for an index that counts from 0.
Target(R, index) == LET flat == FlatMap(R) IN {flat[i] : i \in {index + 1} \cap DOMAIN flat}

\* _device_type_for_address, and the modes of that type (the mode's low nibble).
TypeOf(R, a) == {R[i][1] : i \in {j \in DOMAIN R : R[j][2] = a}}
ModesOf == [t \in OutputBearing |-> CASE t = 1 -> 0..12 [] t = 2 -> 0..6 [] OTHER -> 0..11]

\* _key_raw_from_flag_byte: the key whose nibble the flag carries.
KeyNibble == [n \in {1, 2, 4, 8} |->
    IF n = 1 THEN [k \in {1} |-> 8]
    ELSE [k \in 0..(IF n = 8 THEN 7 ELSE 3) |->
            <<0, 8, 4, 12, 2, 10, 6, 14>>[k + 1]]]
KeyRaw(flag, n) ==
    IF n \notin DOMAIN KeyNibble THEN {}
    ELSE {k \in DOMAIN KeyNibble[n] : KeyNibble[n][k] = flag}

\* _parse_link_record.
AsLink(c) == [index |-> c.b0, mode |-> c.b4 % 16, sender |-> c.ref, flag |-> c.flag]

\* link_record_to_decoded_metadata: the link a record stands for, if each of its
\* parts can be resolved.
Decoded(R, l) ==
    {[unit |-> t[1], chan |-> t[2], mode |-> l.mode, sender |-> l.sender, key |-> k] :
        t \in {x \in Target(R, l.index) :
                 \E d \in TypeOf(R, x[1]) \cap OutputBearing : l.mode \in ModesOf[d]},
        k \in IF l.sender \in Senders THEN KeyRaw(l.flag, SenderKeys[l.sender]) ELSE {}}

\* The outputs of a unit the memory lists.
OutputsOf(c) ==
    IF c.ref \in Installed /\ c.b4 \in OutputBearing THEN Channels[c.b4] ELSE 0

\* _decode_and_log.
HearLink(c) ==
    /\ copies' = copies \cup Decoded(registry, AsLink(c))
    /\ linksRead' = linksRead \cup {c}
    /\ unlisted' = (unlisted \/ OutputsOf(c) > 0) /\ UNCHANGED registry
Hear(c) ==
    IF Dropped(c) THEN UNCHANGED <<registry, copies, unlisted, linksRead>>
    ELSE IF IsUnit(c)
    THEN /\ registry' = Added(registry, AsUnit(c))
         /\ UNCHANGED <<copies, unlisted, linksRead>>
    ELSE HearLink(c)

\* A scan begins on an empty registry (reset_scan_buffers), maybe after the
\* installer wrote the memory anew.
ReadBegin ==
    /\ cursor = 0 /\ reads < MaxReads
    /\ memory' \in Memories /\ cursor' = 1 /\ registry' = <<>>
    /\ copies' = {} /\ linksRead' = {} /\ unlisted' = FALSE /\ reads' = reads + 1
    /\ UNCHANGED <<sized, known, repeats, gone>>

ReadNext ==
    /\ cursor \in DOMAIN memory /\ Hear(memory[cursor]) /\ cursor' = cursor + 1
    /\ UNCHANGED <<memory, sized, known, reads, repeats, gone>>

\* The register read last is answered once more.
AnsweredAgain ==
    /\ cursor > 1 /\ repeats < MaxRepeats /\ Hear(memory[cursor - 1])
    /\ repeats' = repeats + 1 /\ UNCHANGED <<memory, cursor, sized, known, reads, gone>>

ReadGone ==
    /\ cursor \in DOMAIN memory /\ gone < MaxGone
    /\ gone' = gone + 1 /\ cursor' = cursor + 1
    /\ unlisted' = (unlisted \/ OutputsOf(memory[cursor]) > 0)
    /\ UNCHANGED <<memory, registry, sized, known, copies, linksRead, reads, repeats>>

ReadEnd ==
    /\ cursor = Len(memory) + 1 /\ cursor' = 0
    /\ UNCHANGED <<memory, registry, sized, known, copies, unlisted, linksRead,
                   reads, repeats, gone>>

\* The host's store gains a unit, or its channels.
Learn(u) ==
    /\ \/ u \notin known /\ known' = known \cup {u} /\ UNCHANGED sized
       \/ u \in known \ sized /\ sized' = sized \cup {u} /\ UNCHANGED known
    /\ UNCHANGED <<memory, cursor, registry, copies, unlisted, linksRead,
                   reads, repeats, gone>>

CopiesInit ==
    /\ memory = <<>> /\ cursor = 0 /\ registry = <<>> /\ copies = {}
    /\ sized = {} /\ known \in SUBSET Installed
    /\ unlisted = FALSE /\ linksRead = {} /\ reads = 0 /\ repeats = 0 /\ gone = 0

CopiesNext ==
    \/ ReadBegin \/ ReadNext \/ AnsweredAgain \/ ReadGone \/ ReadEnd
    \/ \E u \in Installed : Learn(u)

CopiesSpec == CopiesInit /\ [][CopiesNext]_copyVars
-----------------------------------------------------------------------------
\* The outputs of all units up to one of a memory's chunks, counted.
OutputsTo(m) ==
    LET upTo[i \in 0..Len(m)] == IF i = 0 THEN 0 ELSE upTo[i - 1] + OutputsOf(m[i])
    IN  upTo
\* The output an index means: the outputs of the units listed before, in the
\* order of the memory, and then one of the unit's own.
Means(index) ==
    LET before == OutputsTo(memory)
    IN  {<<memory[i].ref, index - before[i - 1] + 1>> : i \in {j \in DOMAIN memory :
            before[j - 1] <= index /\ index < before[j]}}

\* What a PC-Link holds: "the link table is preceded by a registry section"
\* (RegistryBuffer), which has a record of its shape for each unit.
Listed(m) == {i \in DOMAIN m : m[i].ref \in Installed}
Chunk == [shape : {"record", "empty", "noise", "grid"}, b0 : 0..255, b4 : 0..255,
          ref : Installed \cup Senders, flag : 0..15]
MemoryOK(m) ==
    /\ m \in Seq(Chunk)
    /\ \A i \in Listed(m) : m[i].shape = "record" /\ m[i].b4 = DeviceType[m[i].ref]
    /\ \A i, j \in Listed(m) : m[i].ref = m[j].ref => i = j
    /\ \A i \in DOMAIN m \ Listed(m), j \in Listed(m) : Dropped(m[i]) \/ j < i
ASSUME MemoriesAssumption == \A m \in Memories : MemoryOK(m)

\* The keys a link names, and whether a copy stands for it but for the output.
KeysOf(c) == KeyRaw(c.flag, SenderKeys[c.ref])
CopyOf(l, c) == l.sender = c.ref /\ l.mode = c.b4 % 16 /\ l.key \in KeysOf(c)
Heard == {c \in linksRead : c.ref \in Senders}

\* "it still occupies its channels in the flat map; skipping it would shift every
\* later link onto the wrong module" (build_flat_channel_map): once the list of
\* units was read whole, every link read stands for the output its index means,
\* whichever units the host knows or sizes, and however often a register was
\* answered; none with a mode and a key that can be told is left out; and one
\* whose index is past the last output reaches no output of the list.
CopiesTrue ==
    ~unlisted =>
        /\ \A c \in Heard : \A t \in Means(c.b0) :
             c.b4 % 16 \in ModesOf[DeviceType[t[1]]] /\ KeysOf(c) # {}
               => \E l \in copies : CopyOf(l, c) /\ <<l.unit, l.chan>> = t
        /\ \A l \in copies : \E c \in Heard :
             /\ CopyOf(l, c)
             /\ Means(c.b0) # {} => <<l.unit, l.chan>> \in Means(c.b0)
             /\ Means(c.b0) = {} =>
                  \A i \in DOMAIN memory : memory[i].ref = l.unit => OutputsOf(memory[i]) = 0
=============================================================================
