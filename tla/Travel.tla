-------------------------------- MODULE Travel --------------------------------
(***************************************************************************)
(* Where a shutter is, from how long it has been moving                    *)
(* (nikobus_connect/travel.py), beside the shutter itself.  The host tells *)
(* the calculator of a move when it hears of it, latency ticks late.       *)
(***************************************************************************)
EXTENDS Integers

CONSTANTS
    TimeUp, TimeDown, \* ticks of a full travel
    MaxLatency,       \* bound: how late a move is noticed
    MaxTime           \* bound: ticks

ASSUME TravelAssumption ==
    {TimeUp, TimeDown, MaxLatency, MaxTime} \subseteq Nat

Up == 1
Down == -1
Still == 0

VARIABLES
    position,  \* position
    direction, \* _direction; Still: None
    startPos,  \* _start_pos
    startTime, \* _start_time
    now,       \* the clock
    real,      \* the shutter's position (external)
    motion,    \* ... and motion
    since,     \* ticks since the motion last changed, not noticed yet
    anchored   \* history: every move was noticed at once, or from standstill

travelVars == <<position, direction, startPos, startTime, now, real, motion,
                since, anchored>>

Clamped(x) == IF x < 0 THEN 0 ELSE IF x > 100 THEN 100 ELSE x

ActiveTime(dir) == IF dir = Up THEN TimeUp ELSE TimeDown

\* current_position: the elapsed share of the run time, as far as it goes.
CurrentPosition ==
    IF direction = Still \/ ActiveTime(direction) = 0
    THEN position
    ELSE LET progress == ((now - startTime) * 100) \div ActiveTime(direction)
         IN  IF direction = Up
             THEN IF startPos + progress > 100 THEN 100 ELSE startPos + progress
             ELSE IF startPos - progress < 0 THEN 0 ELSE startPos - progress

\* A tick: the motor runs to the end of its travel.
Tick ==
    /\ now < MaxTime /\ since < MaxLatency
    /\ now' = now + 1
    /\ real' = IF motion = Still THEN real
               ELSE Clamped(real + motion * (100 \div ActiveTime(motion)))
    /\ since' = IF motion = direction THEN 0 ELSE since + 1
    /\ UNCHANGED <<position, direction, startPos, startTime, motion, anchored>>

\* Someone operates the shutter: a wall key or the host.
Operate ==
    /\ since = 0 /\ motion = direction
    /\ \E d \in {Up, Down, Still} : d # motion /\ motion' = d
    /\ UNCHANGED <<position, direction, startPos, startTime, now, real, since,
                   anchored>>

\* Mutant: the move starts from the last committed position.
AnchorCommitted == position
\* start_travel anchors on the position in flight.
Anchor == CurrentPosition

\* start_travel, as late as the move is noticed; or once more in the same
\* direction (a re-target).
StartTravel ==
    /\ motion # Still
    /\ position' = Anchor /\ startPos' = Anchor
    /\ startTime' = now - since
    /\ direction' = motion
    /\ anchored' = (anchored /\ (since = 0 \/ direction = Still))
    /\ since' = 0
    /\ UNCHANGED <<now, real, motion>>

\* stop commits the position reached.  A stop noticed late cannot be backdated.
StopTravel ==
    /\ motion = Still /\ direction # Still
    /\ position' = CurrentPosition
    /\ direction' = Still
    /\ anchored' = (anchored /\ since = 0)
    /\ since' = 0
    /\ UNCHANGED <<startPos, startTime, now, real, motion>>

\* set_position: a host restores what it knows, before anything moves.
SetPosition ==
    /\ motion = Still /\ direction = Still
    /\ position' = Clamped(real)
    /\ anchored' = TRUE
    /\ UNCHANGED <<direction, startPos, startTime, now, real, motion, since>>

TravelInit ==
    /\ position = 100 /\ direction = Still /\ startPos = 100 /\ startTime = 0
    /\ now = 0 /\ real = 100 /\ motion = Still /\ since = 0 /\ anchored = TRUE

TravelNext == Tick \/ Operate \/ StartTravel \/ StopTravel \/ SetPosition

TravelSpec == TravelInit /\ [][TravelNext]_travelVars

-----------------------------------------------------------------------------
TravelTypeOK ==
    /\ {position, startPos, real, CurrentPosition} \subseteq 0..100
    /\ {direction, motion} \subseteq {Up, Down, Still}
    /\ now \in 0..MaxTime /\ startTime \in -MaxLatency..MaxTime
    /\ since \in 0..MaxLatency /\ anchored \in BOOLEAN

\* The position read is the shutter's, through re-targets, reversals and moves
\* past the end, whenever each move was noticed at once or started from
\* standstill: "a move noticed late ... reads the right position at once" and
\* "re-targeting in the same direction must not snap the shutter back".
PositionTrue == anchored /\ motion = direction => CurrentPosition = real
=============================================================================
