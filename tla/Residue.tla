-------------------------------- MODULE Residue --------------------------------
(***************************************************************************)
(* Telling what a previous owner left in the stores                         *)
(* (discovery.detect_stale_inventory and discovery/store.py): every output  *)
(* module of the store is asked for its state, in one or more passes; a     *)
(* module that never answers is absent, a button that drives only absent    *)
(* modules an orphan.  The host then settles the stores: after a full sweep *)
(* it evicts the absent modules, and files every button under a status.     *)
(***************************************************************************)
EXTENDS Naturals, FiniteSets

CONSTANTS
    Outputs,      \* output modules (_BUS_PROBE_MODULE_TYPES)
    Logics,       \* PC-Logics
    Buttons,      \* buttons of the store
    Sort,         \* what each is: "plain", "input" (emits only), "child" (made up)
    Passes,       \* outer_attempts
    MaxJams,      \* bound: probes of a live module that fail
    MaxTurns      \* bound: changes of the installation, the stores and the flags

StoreModules == Outputs \cup Logics
STATUS_ACTIVE == "active"
STATUS_LEGACY_ORPHAN == "legacy_orphan"
STATUS_LEGACY_UNDECODED == "legacy_undecoded"
LEGACY_STATUSES == {STATUS_LEGACY_ORPHAN, STATUS_LEGACY_UNDECODED}

ASSUME ResidueAssumption ==
    /\ Sort \in [Buttons -> {"plain", "input", "child"}]
    /\ Outputs \cap Logics = {}
    /\ Passes \in Nat \ {0} /\ {MaxJams, MaxTurns} \subseteq Nat

VARIABLES
    inStore,    \* modules in the store
    powered,    \* modules that answer on the bus
    drives,     \* per button, its records: [mod, source]
    status,     \* per button
    keep,       \* buttons flagged legacy_keep by the user
    probe,      \* "idle", "asking" or "told" (a manifest is at hand)
    outer,      \* the pass
    asking,     \* modules still to be asked in it
    checked, present, orphaned, \* the manifest
    silent,     \* history: how often each module failed to answer in this probe
    answered,   \* history: modules that answered in this probe
    steady,     \* history: links and store are as the manifest saw them
    jams, turns \* bounds

storesVars == <<inStore, drives, status, keep>>
probeVars == <<probe, outer, asking, checked, present, orphaned>>
residueVars == <<storesVars, powered, probeVars, silent, answered, steady, jams, turns>>

\* collect_button_linked_modules, all_outputs_registry_sourced.
LinkedModules(b) == {o.mod : o \in drives[b]}
RegistryOnly(b) == drives[b] # {} /\ \A o \in drives[b] : o.source = "registry"

\* has_pc_logic_module: with a PC-Logic a registry's copy may be a scene's trigger.
HasLogic(remaining) == remaining \cap Logics # {}

\* classify_button_status, against the modules that remain.
ClassifyStatus(b, remaining) ==
    CASE Sort[b] = "child" -> "synthesized_input"
      [] Sort[b] = "input" -> "input_only"
      [] OTHER ->
           IF drives[b] = {} THEN STATUS_LEGACY_UNDECODED
           ELSE IF \/ RegistryOnly(b) /\ ~HasLogic(remaining)
                   \/ LinkedModules(b) \cap remaining = {}
                THEN STATUS_LEGACY_ORPHAN
           ELSE STATUS_ACTIVE

\* Mutant: the failure of an earlier pass is not forgotten.
EverSilent == {m \in checked : silent[m] > 0}
\* A module that answered in any pass is present.
Absent == checked \ present
\* The buttons that drive only absent modules.
OrphanedBy(absent) ==
    {b \in Buttons : LinkedModules(b) # {} /\ LinkedModules(b) \subseteq absent}

ProbeBegin ==
    /\ probe = "idle" /\ probe' = "asking" /\ outer' = 1
    /\ checked' = inStore \cap Outputs /\ asking' = checked'
    /\ present' = {} /\ orphaned' = {}
    /\ silent' = [m \in Outputs |-> 0] /\ answered' = {} /\ steady' = TRUE
    /\ UNCHANGED <<storesVars, powered, jams, turns>>

\* One get_output_state, with the retries of the command queue behind it.
ProbeAnswered(m) ==
    /\ probe = "asking" /\ m \in asking /\ m \in powered
    /\ present' = present \cup {m} /\ asking' = asking \ {m} /\ answered' = answered \cup {m}
    /\ UNCHANGED <<storesVars, powered, probe, outer, checked, orphaned, silent,
                   steady, jams, turns>>
ProbeFailed(m) ==
    /\ probe = "asking" /\ m \in asking
    /\ \/ m \notin powered /\ UNCHANGED jams
       \/ m \in powered /\ jams < MaxJams /\ jams' = jams + 1
    /\ silent' = [silent EXCEPT ![m] = @ + 1] /\ asking' = asking \ {m}
    /\ UNCHANGED <<storesVars, powered, probe, outer, checked, present, orphaned,
                   answered, steady, turns>>

\* The end of a pass: what has not answered is asked again, if a pass is left.
PassEnd ==
    /\ probe = "asking" /\ asking = {}
    /\ IF outer < Passes /\ Absent # {}
       THEN /\ outer' = outer + 1 /\ asking' = Absent
            /\ UNCHANGED <<probe, orphaned>>
       ELSE /\ probe' = "told" /\ orphaned' = OrphanedBy(Absent)
            /\ UNCHANGED <<outer, asking>>
    /\ UNCHANGED <<storesVars, powered, checked, present, silent, answered, steady,
                   jams, turns>>

\* The caller's task is cancelled: no manifest.
ProbeCancelled ==
    /\ probe = "asking" /\ probe' = "idle" /\ asking' = {}
    /\ UNCHANGED <<storesVars, powered, outer, checked, present, orphaned, silent,
                   answered, steady, jams, turns>>

\* reconcile_inventory with the manifest of the probe, evicting after a full
\* sweep only.
Reconcile(evict) ==
    /\ probe = "told" /\ probe' = "idle"
    /\ inStore' = IF evict THEN inStore \ Absent ELSE inStore
    /\ status' = [b \in Buttons |-> ClassifyStatus(b, inStore')]
    /\ keep' = {b \in keep : status'[b] \in LEGACY_STATUSES}
    /\ UNCHANGED <<powered, drives, outer, asking, checked, present, orphaned,
                   silent, answered, steady, jams, turns>>

\* A register scan files a record, or rebuilds a module without it.
LinkFiled(b, o) ==
    /\ Sort[b] = "plain" /\ o.mod \in inStore /\ o \notin drives[b]
    /\ drives' = [drives EXCEPT ![b] = @ \cup {o}] /\ steady' = FALSE
    /\ UNCHANGED <<inStore, powered, status, keep>>
LinkGone(b, o) ==
    /\ o \in drives[b] /\ drives' = [drives EXCEPT ![b] = @ \ {o}] /\ steady' = FALSE
    /\ UNCHANGED <<inStore, powered, status, keep>>
\* An inventory lists a module, residue of an earlier installation included.
Inventoried(m) ==
    /\ m \notin inStore /\ inStore' = inStore \cup {m} /\ steady' = FALSE
    /\ UNCHANGED <<powered, drives, status, keep>>
PowerTurned(m) ==
    /\ powered' = IF m \in powered THEN powered \ {m} ELSE powered \cup {m}
    /\ UNCHANGED <<storesVars, steady>>
\* The user keeps a button the host asked about.
KeptByUser(b) ==
    /\ status[b] \in LEGACY_STATUSES /\ b \notin keep /\ keep' = keep \cup {b}
    /\ UNCHANGED <<inStore, powered, drives, status, steady>>

Turn ==
    /\ turns < MaxTurns /\ turns' = turns + 1
    /\ \/ \E b \in Buttons : KeptByUser(b)
       \/ \E b \in Buttons, m \in StoreModules, src \in {"table", "registry"} :
            LET o == [mod |-> m, source |-> src] IN
            /\ m \in Logics => src = "registry"
            /\ LinkFiled(b, o) \/ LinkGone(b, o)
       \/ \E m \in StoreModules : Inventoried(m)
       \/ \E m \in Outputs : PowerTurned(m)
    /\ UNCHANGED <<probeVars, silent, answered, jams>>

ResidueInit ==
    /\ inStore \in SUBSET StoreModules /\ powered \in SUBSET Outputs
    /\ drives = [b \in Buttons |-> {}]
    /\ status = [b \in Buttons |-> "none"] /\ keep = {}
    /\ probe = "idle" /\ outer = 1 /\ asking = {} /\ checked = {} /\ present = {}
    /\ orphaned = {} /\ silent = [m \in Outputs |-> 0] /\ answered = {} /\ steady = TRUE
    /\ jams = 0 /\ turns = 0

ResidueNext ==
    \/ ProbeBegin \/ PassEnd \/ ProbeCancelled \/ Turn
    \/ \E m \in Outputs : ProbeAnswered(m) \/ ProbeFailed(m)
    \/ \E evict \in BOOLEAN : Reconcile(evict)

ResidueSpec == ResidueInit /\ [][ResidueNext]_residueVars
-----------------------------------------------------------------------------
\* A module leaves the store only if it was asked in every pass and answered in
\* none ("modules that ACK'd on an earlier pass are skipped"); the buttons the
\* probe called orphans are filed as legacy when the stores are settled on its
\* word, and none other that a live module still lists; and what the user chose
\* to keep is kept while it is legacy ("so a later scan does not raise it again").
ResidueSound ==
    [][ /\ \A m \in inStore \ inStore' : m \notin answered /\ silent[m] = Passes
        /\ \A b \in Buttons :
             /\ status' # status /\ steady /\ inStore' # inStore /\ Sort[b] = "plain"
                => /\ b \in orphaned => status'[b] = STATUS_LEGACY_ORPHAN
                   /\ (\E o \in drives[b] : o.source = "table" /\ o.mod \in answered)
                      => status'[b] = STATUS_ACTIVE
             /\ b \in keep \ keep' => status'[b] \notin LEGACY_STATUSES
      ]_residueVars
=============================================================================
