-------------------------------- MODULE Stores --------------------------------
(***************************************************************************)
(* What a discovery makes of the two stores the host keeps: the modules     *)
(* with their channels, and the buttons with, for every key, the outputs    *)
(* linked to it (discovery/fileio.py, and the parts of discovery.py that    *)
(* feed it: batches of decoded records, the rebuild of a module that was    *)
(* read in full, and the buttons made up at the end of a run).              *)
(*                                                                          *)
(* A link record names a plate, a key index of it and an output.  A plate   *)
(* is of a class: a "four" or "two" button plate at the wall, an output of  *)
(* a PC-Logic ("logic"), a key of the software's banks ("bank"), or a code  *)
(* of a remote ("code").  The key index stands for the frame the key sends. *)
(* Channels, names and the bytes of records are abstracted, IR receivers,   *)
(* audio, calendars, 8-key and 52-key plates left out.                      *)
(***************************************************************************)
EXTENDS Naturals, FiniteSets, Sequences

CONSTANTS
    Mods,       \* output modules
    Plates,     \* addresses that link records name
    Class,      \* what is at each address
    Tables,     \* for each module, the link tables it may be programmed with
    Copies,     \* the PC-Link's copies of links, as it sends them, kept or left over
    Listed,     \* logic outputs in the PC-Logic's own table
    Found,      \* the plates an inventory may find
    Counts,     \* the channel counts it may report for the modules
    Editable,   \* names the user may edit: <<module or plate, channel or 0>>
    Order,      \* the units of the store in its order: modules, "pc_link", "pc_logic"
    Threshold,  \* codes that make a remote (REMOTE_TRANSMITTER_CLUSTER_THRESHOLD)
    MaxRuns,    \* bound: runs of the register scan
    MaxLost,    \* bound: registers whose data is lost
    MaxEvents   \* bound: inventories, restarts, edits, evictions, reprogrammings

Wall == {p \in Plates : Class[p] \in {"four", "two"}}
Codes == {p \in Plates : Class[p] = "code"}
Units == {Order[i] : i \in DOMAIN Order}
NoUnit == "none"

\* A record of a module's table: the plate and the key index it listens for, the
\* channel, the mode.
Record ==
    [plate : Plates, key : 0..3, chan : Nat, mode : {"single", "pair", "group"}]

\* A module's address is of four digits, a plate's of six.
ASSUME StoresAssumption ==
    /\ Class \in [Plates -> {"four", "two", "logic", "bank", "code"}]
    /\ IsFiniteSet(Plates) /\ Mods \cap (Plates \cup {"pc_link", "pc_logic"}) = {}
    /\ {MaxRuns, MaxLost, MaxEvents} \subseteq Nat /\ Threshold \in Nat \ {0}
    /\ \A m \in Mods : Tables[m] # {} /\ Tables[m] \subseteq Seq(Record)
    /\ Units = Mods \cup {"pc_link", "pc_logic"}
    /\ Found \subseteq SUBSET Wall /\ Counts \subseteq [Mods -> Nat]

\* The pair a key index belongs to, of a plate with two keys.
PairOf(key) == IF key \in {0, 2} THEN "right" ELSE "generic"
\* Such a plate sends on the keys of one pair, whichever modules listen for it.
ASSUME PairsAssumption ==
    \A m, n \in Mods : \A t \in Tables[m], s \in Tables[n] :
        \A i \in DOMAIN t, j \in DOMAIN s :
            /\ m = n => t = s
            /\ t[i].plate = s[j].plate /\ Class[t[i].plate] = "two"
            => PairOf(t[i].key) = PairOf(s[j].key)

VARIABLES
    plates,     \* button store: plate -> [layout, named]
    links,      \* its linked_modules: place -> record_source
    modules,    \* module store: module -> [named, channels, readAt]
    kept,       \* the module store holds the PC-Logic's logic_outputs
    logicRead,  \* pc_logic_logic_outputs of this session
    complete,   \* _complete_link_tables
    accumulated,\* _accumulated_command_mapping
    unmatched,  \* _accumulated_unmatched
    broadcasts, \* discovered_cf_broadcasts
    pc, unit,   \* where the run is, on which unit
    todo,       \* units the run has still to scan
    rest,       \* records the unit has still to send
    missed,     \* something of this scan was lost
    table,      \* what each module is programmed with
    runs, lost, events, \* bounds
    told,       \* history: what each table has told since it was last read in full
    torn,       \* history: modules whose rebuild a crash cut in two
    last, owed, \* history: records and plates of the last run that completed
    mine        \* history: what the user named

storeVars == <<plates, links, modules, kept>>
sessionVars == <<logicRead, complete, accumulated, unmatched, broadcasts>>
runVars == <<pc, unit, todo, rest, missed, runs>>
histVars == <<told, torn, last, owed, mine>>
vars == <<storeVars, sessionVars, runVars, lost, events, table, histVars>>

\* The keys of a plate: label -> key index.  A code has one key and no index.
NoIndex == 4
Keys == [four    |-> [A |-> 1, B |-> 3, C |-> 0, D |-> 2],
         generic |-> [A |-> 1, B |-> 3],
         right   |-> [A |-> 0, B |-> 2],
         remote  |-> [A |-> NoIndex]]

With(layout, key) == {l \in DOMAIN Keys[layout] : Keys[layout][l] = key}

\* The label a record is filed under, if any (_resolve_operation_point): by its
\* frame, then by the channel count's table, where a pair set to the right
\* still answers to the generic indices; a code by its own address.
Resolve(S, r) ==
    IF r.plate \notin DOMAIN S THEN {}
    ELSE LET layout == S[r.plate].layout
             exact  == With(layout, r.key)
         IN  IF r.byFrame \/ exact # {} THEN exact
             ELSE CASE layout = "right"  -> With("generic", r.key)
                    [] layout = "remote" -> {"A"}
                    [] OTHER             -> {}

\* A record as the decoder names it (get_push_button_address): a module's own
\* by the key's frame once the plate's channel count knows the key, a copy
\* from the PC-Link by the plate.
Named(r, m, source) ==
    [plate |-> r.plate, key |-> r.key, chan |-> r.chan, mode |-> r.mode,
     mod |-> m, source |-> source,
     byFrame |-> /\ source = "table" /\ r.plate \in DOMAIN plates
                 /\ plates[r.plate].layout = "remote" => r.key = 1]

Place(p, label, r) ==
    [plate |-> p, label |-> label, mod |-> r.mod, chan |-> r.chan, mode |-> r.mode]
Places(S, r) == {Place(r.plate, l, r) : l \in Resolve(S, r)}

\* The layout a batch's own records show (_settle_two_button_layouts).
Settle(S, R) ==
    LET Seen(p) == {r.key : r \in {x \in R : x.plate = p /\ x.source = "table"}}
    IN  [p \in DOMAIN S |->
            IF S[p].layout \notin {"generic", "right"} \/ Seen(p) = {} THEN S[p]
            ELSE CASE Seen(p) \subseteq {0, 2} -> [S[p] EXCEPT !.layout = "right"]
                   [] Seen(p) \subseteq {1, 3} -> [S[p] EXCEPT !.layout = "generic"]
                   [] OTHER                    -> S[p]]

\* Modules whose own table was read in full, in this session or before.
Authoritative == complete \cup {m \in DOMAIN modules : modules[m].readAt}
\* Mutant: only what this session read counts.
RuledSessionOnly(R) == {r \in R : ~(r.source = "registry" /\ r.mod \in complete)}
Ruled(R) == {r \in R : ~(r.source = "registry" /\ r.mod \in Authoritative)}

\* Mutant: a record found again keeps the source it was first seen with.
FileKeepsSource(L, S, R) ==
    LET at(q) == {r \in R : q \in Places(S, r)} IN
    [q \in DOMAIN L \cup UNION {Places(S, r) : r \in R} |->
        IF q \in DOMAIN L THEN L[q]
        ELSE IF \E r \in at(q) : r.source = "table" THEN "table" ELSE "registry"]
\* A record is filed once; its source becomes the module's table when that is
\* where it is read.
File(L, S, R) ==
    LET at(q) == {r \in R : q \in Places(S, r)} IN
    [q \in DOMAIN L \cup UNION {Places(S, r) : r \in R} |->
        IF \E r \in at(q) : r.source = "table" THEN "table"
        ELSE IF q \in DOMAIN L THEN L[q] ELSE "registry"]

\* The keys one record serves beside its own (_peers_for_mirror).
Peers(q) ==
    CASE q.mode = "pair"  -> {[A |-> "B", B |-> "A", C |-> "D", D |-> "C"][q.label]}
      [] q.mode = "group" -> IF q.label = "A" THEN {"B", "C", "D"} ELSE {}
      [] OTHER            -> {}
Mirror(L, S) ==
    LET Copy(q) == {[q EXCEPT !.label = l] : l \in
                        Peers(q) \cap DOMAIN Keys[S[q.plate].layout]}
        Source(c) == CHOOSE q \in DOMAIN L : c \in Copy(q)
    IN  [c \in DOMAIN L \cup UNION {Copy(q) : q \in DOMAIN L} |->
            IF c \in DOMAIN L THEN L[c] ELSE L[Source(c)]]

\* merge_linked_modules: settle the layouts, drop what a table overrules, file,
\* mirror.
Merge(L, S, R) == LET T == Settle(S, R) IN Mirror(File(L, T, Ruled(R)), T)
Residue(S, R) ==
    {r.plate : r \in {x \in Ruled(R) : ~x.byFrame /\ Resolve(Settle(S, R), x) = {}}}

\* strip_module_links.
Strip(L, m) == [q \in {x \in DOMAIN L : x.mod # m} |-> L[q]]

(***************************************************************************)
(* The inventory.                                                           *)
(***************************************************************************)
\* Mutant: the list of channels is written afresh.
PadAfresh(channels, n) == [i \in 1..n |-> FALSE]
\* _pad_channels: every existing channel is kept, missing ones are appended,
\* none is removed.
Pad(channels, n) ==
    [i \in 1..(IF n > Len(channels) THEN n ELSE Len(channels)) |->
        IF i <= Len(channels) THEN channels[i] ELSE FALSE]

\* The layout a plate is merged with: the right pair once its links showed it.
KnownLayout(p) ==
    IF Class[p] = "four" THEN "four"
    ELSE IF p \in DOMAIN plates /\ plates[p].layout = "right" THEN "right" ELSE "generic"

\* merge_discovered_buttons: plates found are added or refreshed, names stay.
MergedPlates(found) ==
    [p \in DOMAIN plates \cup found |->
        [layout |-> IF p \in found THEN KnownLayout(p) ELSE plates[p].layout,
         named  |-> p \in DOMAIN plates /\ plates[p].named]]

\* merge_discovered_modules, with n channels reported for each.
MergedModules(n) ==
    [m \in Mods |->
        IF m \in DOMAIN modules
        THEN [modules[m] EXCEPT !.channels = IF n[m] > 0 THEN Pad(@, n[m]) ELSE @]
        ELSE [named |-> FALSE, readAt |-> FALSE, channels |-> Pad(<<>>, n[m])]]

\* The end of an inventory.  The PC-Logic's entry takes the table this session
\* has read, or loses the one it had (_refresh_discovered_info).
Inventory ==
    /\ pc = "idle"
    /\ \E found \in Found : plates' = MergedPlates(found)
    /\ \E n \in Counts : modules' = MergedModules(n)
    /\ kept' = logicRead
    /\ UNCHANGED <<links, sessionVars, runVars, table, histVars>>

(***************************************************************************)
(* A run of register scans.                                                 *)
(***************************************************************************)
\* Of one unit or of all.
RunBegin ==
    /\ pc = "idle" /\ runs < MaxRuns /\ DOMAIN modules # {}
    /\ LET all == SelectSeq(Order, LAMBDA u : u \in Mods => u \in DOMAIN modules)
       IN  todo' = all \/ \E i \in DOMAIN all : todo' = <<all[i]>>
    /\ pc' = "next" /\ runs' = runs + 1
    /\ last' = {} /\ owed' = {}
    /\ UNCHANGED <<storeVars, sessionVars, unit, rest, missed, table, told, torn, mine>>

\* A unit's scan begins.
ScanBegin ==
    /\ pc = "next" /\ todo # <<>>
    /\ unit' = Head(todo) /\ todo' = Tail(todo) /\ pc' = "scan" /\ missed' = FALSE
    /\ rest' = CASE unit' \in Mods -> table[unit'] [] unit' = "pc_link" -> Copies
                 [] OTHER -> <<>>
    /\ UNCHANGED <<storeVars, sessionVars, runs, table, histVars>>

\* The records of one register are decoded and merged (_handle_decoded_commands),
\* or its data was lost.
Batch(n) ==
    /\ pc = "scan" /\ n <= Len(rest)
    /\ LET own == unit \in Mods
           R   == {IF own THEN Named(rest[i], unit, "table")
                   ELSE Named(rest[i], rest[i].mod, "registry") : i \in 1..n}
       IN  /\ plates' = Settle(plates, R)
           /\ links' = Merge(links, plates, R)
           /\ accumulated' = accumulated \cup R
           /\ unmatched' = unmatched \cup Residue(plates, R)
           /\ told' = IF own THEN [told EXCEPT ![unit] = @ \cup R] ELSE told
    /\ rest' = SubSeq(rest, n + 1, Len(rest))
    /\ UNCHANGED <<modules, kept, logicRead, complete, broadcasts, pc, unit, todo,
                   missed, runs, table, torn, last, owed, mine>>

DataLost(n) ==
    /\ pc = "scan" /\ n <= Len(rest)
    /\ missed' = TRUE /\ rest' = SubSeq(rest, n + 1, Len(rest))
    /\ UNCHANGED <<storeVars, sessionVars, pc, unit, todo, runs, table, histVars>>

\* A scan ends; a PC-Logic's yields its table of outputs, if that came through.
\* A module read in full is marked and saved as such before its links are filed
\* again (_rebuild_module_links, up to its first await).
ScanDone ==
    /\ pc = "scan" /\ rest = <<>>
    /\ IF unit \in Mods /\ ~missed
       THEN /\ pc' = "rebuild" /\ complete' = complete \cup {unit}
            /\ modules' = [modules EXCEPT ![unit].readAt = TRUE] /\ UNCHANGED unit
       ELSE /\ pc' = "next" /\ unit' = NoUnit /\ UNCHANGED <<complete, modules>>
    /\ logicRead' \in (IF unit = "pc_logic" THEN {logicRead, TRUE} ELSE {logicRead})
    /\ missed' = FALSE
    /\ UNCHANGED <<plates, links, kept, accumulated, unmatched, broadcasts,
                   todo, rest, runs, table, histVars>>

\* The rest of _rebuild_module_links.
Rebuild ==
    /\ pc = "rebuild"
    /\ LET own == {r \in accumulated : r.mod = unit /\ r.source = "table"}
       IN  /\ plates' = Settle(plates, own)
           /\ links' = Merge(Strip(links, unit), plates, own)
           /\ told' = [told EXCEPT ![unit] = own]
    /\ torn' = torn \ {unit} /\ pc' = "next" /\ unit' = NoUnit
    /\ UNCHANGED <<modules, kept, sessionVars, todo, rest, missed, runs, table,
                   last, owed, mine>>

\* Buttons that exist only in programming, for addresses an output module's
\* table names (_synthesize_virtual_buttons_from_unmatched): the banks' keys,
\* and the PC-Logic's outputs where its table is known.
FromTable == {r.plate : r \in {x \in accumulated : ~x.byFrame /\ x.source = "table"}}
Virtual ==
    {p \in unmatched \cap FromTable :
        \/ Class[p] = "bank"
        \/ Class[p] = "logic" /\ p \in Listed /\ (logicRead \/ kept)}
\* The other addresses of that class are central functions.
Central == {p \in unmatched \ Virtual : Class[p] = "logic"}
\* Codes that share their suffix, if there are enough of them.
Remote == LET C == unmatched \cap Codes IN IF Cardinality(C) >= Threshold THEN C ELSE {}

\* The entry made up for one of them, a plate of four keys or a remote's code.
MadeUp(p) == [layout |-> IF Class[p] = "code" THEN "remote" ELSE "four", named |-> FALSE]

\* The end of a run (_complete_discovery_run and the reset behind it): buttons
\* are made up for what no button claimed and everything decoded is merged once
\* more.
Complete ==
    /\ pc = "next" /\ todo = <<>>
    /\ LET new  == (Virtual \cup Remote) \ DOMAIN plates
           S    == [p \in DOMAIN plates \cup new |->
                      IF p \in new THEN MadeUp(p) ELSE plates[p]]
       IN  /\ plates' = IF new = {} THEN plates ELSE Settle(S, accumulated)
           /\ links' = IF new = {} THEN links ELSE Merge(links, S, accumulated)
           /\ owed' = DOMAIN S
    /\ broadcasts' = Central
    /\ last' = {r \in accumulated : r.source = "table"}
    /\ accumulated' = {} /\ unmatched' = {} /\ pc' = "idle"
    /\ UNCHANGED <<modules, kept, logicRead, complete, unit, todo, rest, missed, runs,
                   table, told, torn, mine>>

\* abort, or a crash and a restart from the saved stores.
Cut ==
    /\ pc' = "idle" /\ unit' = NoUnit /\ todo' = <<>> /\ rest' = <<>> /\ missed' = FALSE
    /\ accumulated' = {} /\ unmatched' = {} /\ broadcasts' = {}
    /\ torn' = IF pc = "rebuild" THEN torn \cup {unit} ELSE torn
    /\ UNCHANGED <<storeVars, runs, table, told, mine>>
Abort == pc # "idle" /\ Cut /\ UNCHANGED <<logicRead, complete, last, owed>>
Restart ==
    /\ Cut /\ logicRead' = FALSE /\ complete' = {}
    /\ last' = {} /\ owed' = {}

(***************************************************************************)
(* The host and its user.                                                   *)
(***************************************************************************)
\* A module the residue probe found silent leaves the store (reconcile_inventory).
Evict(m) ==
    /\ pc = "idle" /\ m \in DOMAIN modules
    /\ modules' = [x \in DOMAIN modules \ {m} |-> modules[x]]
    /\ mine' = {e \in mine : e[1] # m}
    /\ UNCHANGED <<plates, links, kept, sessionVars, runVars, table, told, torn, last, owed>>

Edit(e) ==
    /\ pc = "idle" /\ e \notin mine
    /\ \/ /\ e[1] \in DOMAIN plates /\ e[2] = 0
          /\ plates' = [plates EXCEPT ![e[1]].named = TRUE] /\ UNCHANGED modules
       \/ /\ e[1] \in DOMAIN modules /\ e[2] \in 0..Len(modules[e[1]].channels)
          /\ modules' = IF e[2] = 0 THEN [modules EXCEPT ![e[1]].named = TRUE]
                        ELSE [modules EXCEPT ![e[1]].channels[e[2]] = TRUE]
          /\ UNCHANGED plates
    /\ mine' = mine \cup {e}
    /\ UNCHANGED <<links, kept, sessionVars, runVars, table, told, torn, last, owed>>

\* The installer programs a module anew.
Reprogram(m) ==
    /\ pc = "idle" /\ \E t \in Tables[m] : t # table[m] /\ table' = [table EXCEPT ![m] = t]
    /\ UNCHANGED <<storeVars, sessionVars, runVars, histVars>>

Init ==
    /\ plates = <<>> /\ links = <<>> /\ modules = <<>> /\ kept = FALSE
    /\ logicRead = FALSE /\ complete = {} /\ accumulated = {} /\ unmatched = {}
    /\ broadcasts = {}
    /\ pc = "idle" /\ unit = NoUnit /\ todo = <<>> /\ rest = <<>> /\ missed = FALSE
    /\ runs = 0 /\ lost = 0 /\ events = 0 /\ table \in [Mods -> UNION {Tables[m] : m \in Mods}]
    /\ \A m \in Mods : table[m] \in Tables[m]
    /\ told = [m \in Mods |-> {}] /\ torn = {} /\ last = {} /\ owed = {} /\ mine = {}

Run ==
    \/ RunBegin \/ ScanBegin \/ ScanDone \/ Rebuild \/ Complete \/ Abort
    \/ \E n \in 1..2 : Batch(n)
Event ==
    \/ Inventory \/ Restart
    \/ \E m \in Mods : Evict(m) \/ Reprogram(m)
    \/ \E e \in Editable : Edit(e)

Next ==
    \/ Run /\ UNCHANGED <<lost, events>>
    \/ lost < MaxLost /\ (\E n \in 1..2 : DataLost(n)) /\ lost' = lost + 1 /\ UNCHANGED events
    \/ events < MaxEvents /\ Event /\ events' = events + 1 /\ UNCHANGED lost

Spec == Init /\ [][Next]_vars
(***************************************************************************)
(* Properties.                                                              *)
(***************************************************************************)
\* After a run, every link the output modules' tables told of is found where the
\* host looks for it: on the key whose frame the module listens for, as read
\* from a module's table, whatever an older layout, the PC-Link's copies, lost
\* frames and earlier runs had put there; or as a central function.  A plate the
\* store did not know is owed nothing, unless it exists only in programming; a
\* code of a remote read again under a frame it never sends is left out.
Sends(p, l, key) ==
    LET k == Keys[plates[p].layout] IN l \in DOMAIN k /\ k[l] \in {key, NoIndex}
LinksPlaced ==
    pc = "idle" =>
        /\ \A r \in last :
             \/ r.plate \notin owed /\ Class[r.plate] \notin {"logic", "bank"}
             \/ r.byFrame /\ plates[r.plate].layout = "remote"
             \/ Class[r.plate] = "logic" /\ r.plate \in broadcasts
             \/ \E q \in DOMAIN links :
                  /\ q.plate = r.plate /\ q.mod = r.mod /\ q.chan = r.chan
                  /\ q.mode = r.mode /\ links[q] = "table" /\ Sends(q.plate, q.label, r.key)
        /\ Cardinality({r.plate : r \in last} \cap (Codes \ owed)) < Threshold

\* A module marked as read in full (links_read_at) has no link its own table did
\* not tell of since: "Their table is what they execute, so a copy of their links
\* from a controller's memory is not merged" (_authoritative_link_modules),
\* nor one of an earlier programming, across restarts, unless a crash fell
\* between the mark and the rebuild.
TablesRule ==
    \A q \in DOMAIN links :
        q.mod \in DOMAIN modules /\ modules[q.mod].readAt /\ q.mod \notin torn
        /\ ~(pc = "rebuild" /\ unit = q.mod)
        => \E r \in told[q.mod] : /\ r.plate = q.plate /\ r.chan = q.chan
                                   /\ r.mode = q.mode

\* What the user named keeps its name: "User-owned fields ... are preserved
\* verbatim" (merge_discovered_modules), through inventories that report fewer
\* channels, layouts that move keys, runs and restarts.
EditsKept ==
    \A e \in mine :
        IF e[1] \in Plates THEN e[1] \in DOMAIN plates /\ plates[e[1]].named
        ELSE /\ e[1] \in DOMAIN modules
             /\ IF e[2] = 0 THEN modules[e[1]].named
                ELSE /\ e[2] \in DOMAIN modules[e[1]].channels
                     /\ modules[e[1]].channels[e[2]]
=============================================================================
