-------------------------------- MODULE MCParts --------------------------------
(***************************************************************************)
(* The components that share nothing with each other, one at a time: an    *)
(* instance runs the part it chose at the start.                           *)
(***************************************************************************)
EXTENDS Connection, PressTracker, Travel, FeedbackKey, PcLinkCopies, Residue,
        SizedTable

CONSTANTS u1, u2, u3, lg, s1, s2, b1, b2, o1, o2, l1

MCDeviceType == [u \in {u1, u2, u3, lg} |->
    CASE u = u1 -> 1 [] u = u2 -> 2 [] u = u3 -> 3 [] OTHER -> 8]
MCChannels == [t \in {1, 2, 3, 8, 10} |->
    CASE t = 2 -> 1 [] t = 8 -> 6 [] t = 10 -> 0 [] OTHER -> 2]
MCSenderKeys == [s \in {s1, s2} |-> IF s = s1 THEN 4 ELSE 0]
MCLowBytes == [s \in {s1, s2} |-> IF s = s1 THEN "stray" ELSE u1]
Unit(marker, u) ==
    [shape |-> "record", b0 |-> marker, b4 |-> DeviceType[u], ref |-> u, flag |-> 0]
Link(index, mode, s, flag) ==
    [shape |-> "record", b0 |-> index, b4 |-> mode, ref |-> s, flag |-> flag]
Noise == [shape |-> "noise", b0 |-> 0, b4 |-> 1, ref |-> s1, flag |-> 0]
\* Both markers seen in installations; a link whose index is the marker, one
\* past the last output, one whose button looks like a unit, a mode or a key nobody knows.
MCMemories ==
    {<<Unit(3, lg), Unit(3, u1), Unit(3, u2), Unit(3, u3),
       Link(2, 5, s1, 8), Link(4, 0, s1, 4), Link(3, 1, s1, 0), Link(5, 1, s1, 12)>>,
     <<Unit(4, u3), Noise, Unit(4, lg), Unit(4, u1),
       Link(2, 7, s1, 12), Link(1, 12, s1, 8), Link(0, 1, s2, 0)>>,
     <<Unit(4, u2), Unit(4, u1), Link(0, 4, s1, 0), Link(1, 12, s1, 2), Link(2, 0, s1, 0)>>}
MCSort == [b \in {b1, b2} |-> IF b = b1 THEN "plain" ELSE "input"]

\* No table, an empty one, one within the band, one past it whose records
\* straddle blocks, one with records left over behind it, gaps of a record and
\* of five blocks in the second sub-byte.
MCSizedTables ==
    {[count |-> -1, slots |-> {}], [count |-> 0, slots |-> {}], [count |-> 2, slots |-> 0..1],
     [count |-> 9, slots |-> 0..8], [count |-> 3, slots |-> 0..6],
     [count |-> 7, slots |-> {0, 1, 2, 4, 5, 6}], [count |-> 30, slots |-> 0..13 \cup {29}]}

VARIABLE part

Parts == {"connection", "press", "travel", "key", "copies", "residue", "sized"}
allVars == <<linkVars, pressVars, travelVars, keyVars, copyVars, residueVars,
             sizedVars>>

Init ==
    /\ part \in Parts
    /\ ConnInit /\ PressInit /\ TravelInit
    /\ KeyInit /\ (part # "key" => ~dimmer)
    /\ CopiesInit /\ (part # "copies" => known = {})
    /\ ResidueInit
    /\ part # "residue" => inStore = {} /\ powered = {}
    /\ SizedInit
    /\ part # "sized" => reader = "audio" /\ programmed.count = 0

Next ==
    /\ UNCHANGED part
    /\ \/ /\ part = "connection" /\ ConnNext
          /\ UNCHANGED <<pressVars, travelVars, keyVars, copyVars, residueVars,
                         sizedVars>>
       \/ /\ part = "press" /\ PressNext
          /\ UNCHANGED <<linkVars, travelVars, keyVars, copyVars, residueVars,
                         sizedVars>>
       \/ /\ part = "travel" /\ TravelNext
          /\ UNCHANGED <<linkVars, pressVars, keyVars, copyVars, residueVars,
                         sizedVars>>
       \/ /\ part = "key" /\ KeyNext
          /\ UNCHANGED <<linkVars, pressVars, travelVars, copyVars, residueVars,
                         sizedVars>>
       \/ /\ part = "copies" /\ CopiesNext
          /\ UNCHANGED <<linkVars, pressVars, travelVars, keyVars, residueVars,
                         sizedVars>>
       \/ /\ part = "residue" /\ ResidueNext
          /\ UNCHANGED <<linkVars, pressVars, travelVars, keyVars, copyVars, sizedVars>>
       \/ /\ part = "sized" /\ SizedNext
          /\ UNCHANGED <<linkVars, pressVars, travelVars, keyVars, copyVars, residueVars>>

Spec ==
    /\ Init /\ [][Next]_<<part, allVars>>
    /\ WF_linkVars(part = "connection" /\ ConnSystem)
=============================================================================
