----------------------------- MODULE PressTracker -----------------------------
(***************************************************************************)
(* Key presses inferred from repeated frames (nikobus_connect/press.py),   *)
(* for one key address, with a host that runs a watcher task per press: it *)
(* sleeps, asks release_due, awaits its own release handling, and ends the *)
(* press.  Time is counted in ticks; a frame is Cadence of held time.      *)
(***************************************************************************)
EXTENDS Integers, Sequences, FiniteSets

CONSTANTS
    Cadence,    \* FRAME_CADENCE_S
    Release,    \* RELEASE_THRESHOLD_MS
    MaxRelease, \* MAX_EXTENDED_RELEASE_MS
    BurstGap,   \* BURST_GAP_THRESHOLD_S: a shorter gap is a burst's
    GapWindow,  \* BURST_RECENT_GAPS_WINDOW
    BurstCount, \* BURST_DETECT_GAP_COUNT
    Gaps,       \* how long silences may last, until the next frame or check
    MaxFrames,  \* bound: frames
    MaxPresses  \* bound: presses begun

ASSUME PressAssumption ==
    /\ {Cadence, Release, MaxRelease, BurstGap, GapWindow, BurstCount,
        MaxFrames, MaxPresses} \subseteq Nat \ {0}
    /\ Release <= MaxRelease /\ BurstCount <= GapWindow
    /\ Gaps \subseteq Nat

NoPress == [id |-> 0]
Presses == 1..MaxPresses

VARIABLES
    press,   \* the state of the key; NoPress: none
    silence, \* ticks since its last frame
    watcher, \* what the watcher of each press is about to do
    claimed, \* history: the press each watcher ended; 0: none yet
    begun,   \* presses begun (the source of press ids)
    frames   \* bound

pressVars == <<press, silence, watcher, claimed, begun, frames>>

Holding == press # NoPress
Duration(p) == p.count * Cadence

\* update_release_threshold: patience for a stalling bridge, back to normal on a
\* full window of ordinary gaps.
Patient(p) ==
    LET bursts == Cardinality({i \in DOMAIN p.gaps : p.gaps[i] < BurstGap}) IN
    CASE bursts >= BurstCount ->
            LET longer == IF p.patience > Duration(p) THEN p.patience ELSE Duration(p)
            IN  [p EXCEPT !.patience = IF longer > MaxRelease THEN MaxRelease ELSE longer]
      [] bursts = 0 /\ Len(p.gaps) >= GapWindow -> [p EXCEPT !.patience = Release]
      [] OTHER -> p

\* The deque keeps the last gaps.
Recent(gaps) == IF Len(gaps) > GapWindow THEN Tail(gaps) ELSE gaps

\* frame, of a key not held: a press begins, and the host starts its watcher.
FirstFrame ==
    /\ ~Holding /\ begun < MaxPresses /\ frames < MaxFrames
    /\ LET p == [id |-> begun + 1, count |-> 1, gaps |-> <<>>,
                 patience |-> Release]
       IN  /\ press' = p
           /\ watcher' = [watcher EXCEPT ![p.id] = "sleep"]
    /\ begun' = begun + 1 /\ frames' = frames + 1 /\ silence' = 0
    /\ UNCHANGED claimed

\* frame, of the key being held.
NextFrame ==
    /\ Holding /\ frames < MaxFrames
    /\ press' = Patient([press EXCEPT !.gaps = Recent(Append(@, silence)),
                                      !.count = @ + 1])
    /\ frames' = frames + 1 /\ silence' = 0
    /\ UNCHANGED <<watcher, claimed, begun>>

\* Time passes.
Wait ==
    /\ Holding
    /\ \E g \in Gaps : g > silence /\ silence' = g
    /\ UNCHANGED <<press, watcher, claimed, begun, frames>>

\* Mutant: whatever press the key has now.
NamesAny(w) == Holding
\* release_due and end with a press_id: that press only.
Names(w) == Holding /\ press.id = w

Due == silence >= press.patience

\* A watcher wakes: its press is due, or it sleeps on, or its press is gone.
Wake(w) ==
    /\ watcher[w] = "sleep"
    /\ \/ /\ Names(w) /\ Due
          /\ watcher' = [watcher EXCEPT ![w] = "release"]
       \/ /\ ~Names(w)
          /\ watcher' = [watcher EXCEPT ![w] = "gone"]
    /\ UNCHANGED <<press, silence, claimed, begun, frames>>

\* Its release handling is done: end the press.  A frame that came meanwhile was
\* counted to it.
End(w) ==
    /\ watcher[w] = "release"
    /\ watcher' = [watcher EXCEPT ![w] = "gone"]
    /\ IF Names(w)
       THEN /\ claimed' = [claimed EXCEPT ![w] = press.id]
            /\ press' = NoPress /\ silence' = 0
       ELSE UNCHANGED <<claimed, press, silence>>
    /\ UNCHANGED <<begun, frames>>

\* clear: the host forgets every press; watchers find out.
Clear ==
    /\ Holding /\ press' = NoPress /\ silence' = 0
    /\ UNCHANGED <<watcher, claimed, begun, frames>>

PressInit ==
    /\ press = NoPress /\ silence = 0 /\ begun = 0 /\ frames = 0
    /\ watcher = [w \in Presses |-> "none"]
    /\ claimed = [w \in Presses |-> 0]

PressNext == \/ FirstFrame \/ NextFrame \/ Wait \/ Clear
             \/ \E w \in Presses : Wake(w) \/ End(w)

PressSpec == PressInit /\ [][PressNext]_pressVars

-----------------------------------------------------------------------------
PressTypeOK ==
    /\ Holding => /\ press.id \in 1..begun /\ press.count \in 1..MaxFrames
                  /\ Len(press.gaps) <= GapWindow
                  /\ press.patience \in Release..MaxRelease
    /\ begun \in 0..MaxPresses /\ silence \in Nat
    /\ \A w \in Presses : watcher[w] \in {"none", "sleep", "release", "gone"}

\* "a watcher of an ended press never claims its successor" (release_due): a
\* press is ended by the watcher that was started for it, and while it is held
\* that watcher is still there to end it.
EndsOwnPress ==
    /\ \A w \in Presses : claimed[w] \in {0, w}
    /\ Holding => watcher[press.id] \in {"sleep", "release"}
=============================================================================
