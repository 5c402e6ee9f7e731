--------------------------- MODULE ConnectionProofs ---------------------------
(***************************************************************************)
(* What holds of Connection for every value of its constants.              *)
(***************************************************************************)
EXTENDS Connection, TLAPS

-----------------------------------------------------------------------------
(* The inductive invariant. *)

\* Suspended in writer.wait_closed, of disconnect.
Closing == {"closing", "sendclosing", "failclosing"}
\* Between the acquisition of _lock and its release.
Writing == {"drain", "shake", "sendclosing"}

\* The type invariant in two parts: transports and the lock, flags and verdict.
LinkType ==
    /\ writer \in 0..opened /\ opened \in 0..MaxOpens
    /\ open \subseteq 1..opened /\ alive \subseteq 1..opened
    /\ sendLock \in LinkTasks \cup {Nobody}
    /\ on \in [LinkTasks -> 0..opened]

FlagType ==
    /\ isConnected \in BOOLEAN /\ listening \in BOOLEAN /\ lost \in BOOLEAN
    /\ verdict \in {"unknown", "answered", "silent"}

\* Where each task can be.
Places ==
    /\ at = [p \in LinkTasks |-> at[p]]
    /\ at["worker"] \in {"idle", "lock", "drain", "sendclosing"}
    /\ at["listener"] \in {"off", "loop", "read", "dispatch", "closing"}

\* Nothing is open while a task waits for a close, nor when the host opens; a task
\* that is resumed forgets "the" transport without losing one.
CloseInv ==
    /\ open \subseteq {writer}
    /\ \A p \in LinkTasks : at[p] \in Closing => open = {}
    /\ at["host"] = "opening" => open = {}

\* _lock is held by the task that writes, and by no other.
LockInv == \A p \in LinkTasks : sendLock = p <=> at[p] \in Writing

ConnInv == LinkType /\ FlagType /\ Places /\ CloseInv /\ LockInv

-----------------------------------------------------------------------------
(* The steps the tasks share. *)

\* Nothing is open and every task is idle at first.
LEMMA InitConn == ConnInit => ConnInv
<1> SUFFICES ASSUME ConnInit PROVE ConnInv
  OBVIOUS
<1> USE DEF ConnInit, LinkTasks, Nobody
<1>1. LinkType
  BY ConnectionAssumption DEF LinkType
<1>4. FlagType
  BY DEF FlagType
<1>2. Places
  BY DEF Places
<1>3. CloseInv /\ LockInv
  BY DEF CloseInv, LockInv, Closing, Writing
<1> QED
  BY <1>1, <1>2, <1>3, <1>4 DEF ConnInv

\* No step takes a variable out of its type.
LEMMA StepLink == ConnInv /\ [ConnNext]_linkVars => LinkType'
<1> SUFFICES ASSUME ConnInv, [ConnNext]_linkVars PROVE LinkType'
  OBVIOUS
<1> USE ConnectionAssumption DEF ConnInv, LinkType, Places, LinkTasks, Nobody
<1>1. CASE HostReconnects
  BY <1>1 DEF HostReconnects, StopListener
<1>2. CASE Connect
  BY <1>2 DEF Connect, ConnectFindsOpen, Close, Goto
<1>3. CASE ConnectClosed
  BY <1>3 DEF ConnectClosed, Forget, Goto
<1>4. CASE Opened
  BY <1>4 DEF Opened, Settled, Goto
<1>5. CASE OpenFails
  BY <1>5 DEF OpenFails, Goto
<1>6. CASE BackedOff
  BY <1>6 DEF BackedOff, Goto
<1>7. CASE Greet
  BY <1>7 DEF Greet, Goto
<1>8. CASE Greeted
  BY <1>8 DEF Greeted, Goto
<1>9. CASE ConnectFails
  BY <1>9 DEF ConnectFails, Forget, Close, Goto
<1>10. CASE FailClosed
  BY <1>10 DEF FailClosed, Forget, Goto
<1>11. CASE Probed
  BY <1>11 DEF Probed
<1>12. CASE SendBegins
  BY <1>12 DEF SendBegins, Goto
<1>13. CASE SendWrites
  BY <1>13 DEF SendWrites, Goto
<1>14. CASE SendDone
  BY <1>14 DEF SendDone, Goto
<1>15. ASSUME NEW p \in {"host", "worker"}, WriteFails(p) PROVE LinkType'
  BY <1>15 DEF WriteFails, Close, Forget, Goto
<1>16. ASSUME NEW p \in {"host", "worker"}, SendClosed(p) PROVE LinkType'
  BY <1>16 DEF SendClosed, Forget, Goto
<1>17. CASE ReadBegins
  <2>1. \/ on' = [on EXCEPT !["listener"] = 0]
        \/ on' = [on EXCEPT !["listener"] = writer]
    BY <1>17 DEF ReadBegins, LoopFails, Goto
  <2>2. UNCHANGED <<writer, opened, open, alive, sendLock>>
    BY <1>17 DEF ReadBegins
  <2> QED
    BY <2>1, <2>2
<1>18. CASE FrameRead
  BY <1>18 DEF FrameRead, Goto
<1>19. CASE Dispatched
  BY <1>19 DEF Dispatched, Goto
<1>20. CASE ReadFails
  BY <1>20 DEF ReadFails, LoopFails, TellsHost, Forget, Close, Goto
<1>21. CASE ReadClosed
  BY <1>21 DEF ReadClosed, LoopFails, TellsHost, Forget, Goto
<1>22. CASE CloseTimesOut
  BY <1>22 DEF CloseTimesOut, Goto
<1>23. CASE Breaks
  BY <1>23 DEF Breaks
<1>24. CASE UNCHANGED linkVars
  BY <1>24 DEF linkVars
<1> QED
  BY <1>1, <1>2, <1>3, <1>4, <1>5, <1>6, <1>7, <1>8, <1>9, <1>10, <1>11, <1>12, <1>13,
     <1>14, <1>15, <1>16, <1>17, <1>18, <1>19, <1>20, <1>21, <1>22, <1>23, <1>24
     DEF ConnNext, ConnSystem, OnLost, OnSilent

\* The flags stay flags.
LEMMA StepFlag == ConnInv /\ [ConnNext]_linkVars => FlagType'
<1> SUFFICES ASSUME ConnInv, [ConnNext]_linkVars PROVE FlagType'
  OBVIOUS
<1> USE ConnectionAssumption DEF ConnInv, FlagType
<1>1. CASE HostReconnects
  BY <1>1 DEF HostReconnects, StopListener
<1>2. CASE Connect
  BY <1>2 DEF Connect, ConnectFindsOpen, Close, Goto
<1>3. CASE ConnectClosed
  BY <1>3 DEF ConnectClosed, Forget, Goto
<1>4. CASE Opened
  BY <1>4 DEF Opened, Settled, Goto
<1>5. CASE OpenFails
  BY <1>5 DEF OpenFails, Goto
<1>6. CASE BackedOff
  BY <1>6 DEF BackedOff, Goto
<1>7. CASE Greet
  BY <1>7 DEF Greet, Goto
<1>8. CASE Greeted
  BY <1>8 DEF Greeted, Goto
<1>9. CASE ConnectFails
  BY <1>9 DEF ConnectFails, Forget, Close, Goto
<1>10. CASE FailClosed
  BY <1>10 DEF FailClosed, Forget, Goto
<1>11. CASE Probed
  BY <1>11 DEF Probed
<1>12. CASE SendBegins
  BY <1>12 DEF SendBegins, Goto
<1>13. CASE SendWrites
  BY <1>13 DEF SendWrites, Goto
<1>14. CASE SendDone
  BY <1>14 DEF SendDone, Goto
<1>15. ASSUME NEW p \in {"host", "worker"}, WriteFails(p) PROVE FlagType'
  BY <1>15 DEF WriteFails, Close, Forget, Goto
<1>16. ASSUME NEW p \in {"host", "worker"}, SendClosed(p) PROVE FlagType'
  BY <1>16 DEF SendClosed, Forget, Goto
<1>17. CASE ReadBegins
  BY <1>17 DEF ReadBegins, LoopFails, TellsHost, Goto
<1>18. CASE FrameRead
  BY <1>18 DEF FrameRead, Goto
<1>19. CASE Dispatched
  BY <1>19 DEF Dispatched, Goto
<1>20. CASE ReadFails
  BY <1>20 DEF ReadFails, LoopFails, TellsHost, Forget, Close, Goto
<1>21. CASE ReadClosed
  BY <1>21 DEF ReadClosed, LoopFails, TellsHost, Forget, Goto
<1>22. CASE CloseTimesOut
  BY <1>22 DEF CloseTimesOut, Goto
<1>23. CASE Breaks
  BY <1>23 DEF Breaks
<1>24. CASE UNCHANGED linkVars
  BY <1>24 DEF linkVars
<1> QED
  BY <1>1, <1>2, <1>3, <1>4, <1>5, <1>6, <1>7, <1>8, <1>9, <1>10, <1>11, <1>12, <1>13,
     <1>14, <1>15, <1>16, <1>17, <1>18, <1>19, <1>20, <1>21, <1>22, <1>23, <1>24
     DEF ConnNext, ConnSystem, OnLost, OnSilent

\* No task gets where its code is not.
LEMMA StepPlaces == ConnInv /\ [ConnNext]_linkVars => Places'
<1> SUFFICES ASSUME ConnInv, [ConnNext]_linkVars PROVE Places'
  OBVIOUS
<1> USE ConnectionAssumption DEF ConnInv, Places, LinkTasks
<1>1. CASE HostReconnects
  BY <1>1 DEF HostReconnects, StopListener
<1>2. CASE Connect
  BY <1>2 DEF Connect, ConnectFindsOpen, Close, Goto
<1>3. CASE ConnectClosed
  BY <1>3 DEF ConnectClosed, Forget, Goto
<1>4. CASE Opened
  BY <1>4 DEF Opened, Settled, Goto
<1>5. CASE OpenFails
  BY <1>5 DEF OpenFails, Goto
<1>6. CASE BackedOff
  BY <1>6 DEF BackedOff, Goto
<1>7. CASE Greet
  BY <1>7 DEF Greet, Goto
<1>8. CASE Greeted
  BY <1>8 DEF Greeted, Goto
<1>9. CASE ConnectFails
  BY <1>9 DEF ConnectFails, Forget, Close, Goto
<1>10. CASE FailClosed
  BY <1>10 DEF FailClosed, Forget, Goto
<1>11. CASE Probed
  BY <1>11 DEF Probed
<1>12. CASE SendBegins
  BY <1>12 DEF SendBegins, Goto
<1>13. CASE SendWrites
  BY <1>13 DEF SendWrites, Goto
<1>14. CASE SendDone
  BY <1>14 DEF SendDone, Goto
<1>15. ASSUME NEW p \in {"host", "worker"}, WriteFails(p) PROVE Places'
  BY <1>15 DEF WriteFails, Close, Forget, Goto
<1>16. ASSUME NEW p \in {"host", "worker"}, SendClosed(p) PROVE Places'
  BY <1>16 DEF SendClosed, Forget, Goto
<1>17. CASE ReadBegins
  BY <1>17 DEF ReadBegins, LoopFails, TellsHost, Goto
<1>18. CASE FrameRead
  BY <1>18 DEF FrameRead, Goto
<1>19. CASE Dispatched
  BY <1>19 DEF Dispatched, Goto
<1>20. CASE ReadFails
  BY <1>20 DEF ReadFails, LoopFails, TellsHost, Forget, Close, Goto
<1>21. CASE ReadClosed
  BY <1>21 DEF ReadClosed, LoopFails, TellsHost, Forget, Goto
<1>22. CASE CloseTimesOut
  BY <1>22 DEF CloseTimesOut, Goto
<1>23. CASE Breaks
  BY <1>23 DEF Breaks
<1>24. CASE UNCHANGED linkVars
  BY <1>24 DEF linkVars
<1> QED
  BY <1>1, <1>2, <1>3, <1>4, <1>5, <1>6, <1>7, <1>8, <1>9, <1>10, <1>11, <1>12, <1>13,
     <1>14, <1>15, <1>16, <1>17, <1>18, <1>19, <1>20, <1>21, <1>22, <1>23, <1>24
     DEF ConnNext, ConnSystem, OnLost, OnSilent

\* No transport is left open, or forgotten, by a task that is resumed.
LEMMA StepClose == ConnInv /\ [ConnNext]_linkVars => CloseInv'
<1> SUFFICES ASSUME ConnInv, [ConnNext]_linkVars PROVE CloseInv'
  OBVIOUS
<1> USE ConnectionAssumption DEF ConnInv, LinkType, Places, CloseInv, LinkTasks, Closing
<1>1. CASE HostReconnects
  BY <1>1 DEF HostReconnects, StopListener
<1>2. CASE Connect
  BY <1>2 DEF Connect, ConnectFindsOpen, Close, Goto
<1>3. CASE ConnectClosed
  BY <1>3 DEF ConnectClosed, Forget, Goto
<1>4. CASE Opened
  BY <1>4 DEF Opened, Settled, Goto
<1>5. CASE OpenFails
  BY <1>5 DEF OpenFails, Goto
<1>6. CASE BackedOff
  BY <1>6 DEF BackedOff, Goto
<1>7. CASE Greet
  BY <1>7 DEF Greet, Goto
<1>8. CASE Greeted
  BY <1>8 DEF Greeted, Goto
<1>9. CASE ConnectFails
  BY <1>9 DEF ConnectFails, Forget, Close, Goto
<1>10. CASE FailClosed
  BY <1>10 DEF FailClosed, Forget, Goto
<1>11. CASE Probed
  BY <1>11 DEF Probed
<1>12. CASE SendBegins
  BY <1>12 DEF SendBegins, Goto
<1>13. CASE SendWrites
  BY <1>13 DEF SendWrites, Goto
<1>14. CASE SendDone
  BY <1>14 DEF SendDone, Goto
<1>15. ASSUME NEW p \in {"host", "worker"}, WriteFails(p) PROVE CloseInv'
  BY <1>15 DEF WriteFails, Close, Forget, Goto
<1>16. ASSUME NEW p \in {"host", "worker"}, SendClosed(p) PROVE CloseInv'
  BY <1>16 DEF SendClosed, Forget, Goto
<1>17. CASE ReadBegins
  BY <1>17 DEF ReadBegins, LoopFails, TellsHost, Goto
<1>18. CASE FrameRead
  BY <1>18 DEF FrameRead, Goto
<1>19. CASE Dispatched
  BY <1>19 DEF Dispatched, Goto
<1>20. CASE ReadFails
  BY <1>20 DEF ReadFails, LoopFails, TellsHost, Forget, Close, Goto
<1>21. CASE ReadClosed
  BY <1>21 DEF ReadClosed, LoopFails, TellsHost, Forget, Goto
<1>22. CASE CloseTimesOut
  BY <1>22 DEF CloseTimesOut, Goto
<1>23. CASE Breaks
  BY <1>23 DEF Breaks
<1>24. CASE UNCHANGED linkVars
  BY <1>24 DEF linkVars
<1> QED
  BY <1>1, <1>2, <1>3, <1>4, <1>5, <1>6, <1>7, <1>8, <1>9, <1>10, <1>11, <1>12, <1>13,
     <1>14, <1>15, <1>16, <1>17, <1>18, <1>19, <1>20, <1>21, <1>22, <1>23, <1>24
     DEF ConnNext, ConnSystem, OnLost, OnSilent

\* _lock is given to one task and freed by it.
LEMMA StepLock == ConnInv /\ [ConnNext]_linkVars => LockInv'
<1> SUFFICES ASSUME ConnInv, [ConnNext]_linkVars PROVE LockInv'
  OBVIOUS
<1> USE ConnectionAssumption DEF ConnInv, LinkType, Places, LockInv, LinkTasks, Writing, Nobody
<1>1. CASE HostReconnects
  BY <1>1 DEF HostReconnects, StopListener
<1>2. CASE Connect
  BY <1>2 DEF Connect, ConnectFindsOpen, Close, Goto
<1>3. CASE ConnectClosed
  BY <1>3 DEF ConnectClosed, Forget, Goto
<1>4. CASE Opened
  BY <1>4 DEF Opened, Settled, Goto
<1>5. CASE OpenFails
  BY <1>5 DEF OpenFails, Goto
<1>6. CASE BackedOff
  BY <1>6 DEF BackedOff, Goto
<1>7. CASE Greet
  BY <1>7 DEF Greet, Goto
<1>8. CASE Greeted
  BY <1>8 DEF Greeted, Goto
<1>9. CASE ConnectFails
  BY <1>9 DEF ConnectFails, Forget, Close, Goto
<1>10. CASE FailClosed
  BY <1>10 DEF FailClosed, Forget, Goto
<1>11. CASE Probed
  BY <1>11 DEF Probed
<1>12. CASE SendBegins
  BY <1>12 DEF SendBegins, Goto
<1>13. CASE SendWrites
  BY <1>13 DEF SendWrites, Goto
<1>14. CASE SendDone
  BY <1>14 DEF SendDone, Goto
<1>15. ASSUME NEW p \in {"host", "worker"}, WriteFails(p) PROVE LockInv'
  BY <1>15 DEF WriteFails, Close, Forget, Goto
<1>16. ASSUME NEW p \in {"host", "worker"}, SendClosed(p) PROVE LockInv'
  BY <1>16 DEF SendClosed, Forget, Goto
<1>17. CASE ReadBegins
  BY <1>17 DEF ReadBegins, LoopFails, TellsHost, Goto
<1>18. CASE FrameRead
  BY <1>18 DEF FrameRead, Goto
<1>19. CASE Dispatched
  BY <1>19 DEF Dispatched, Goto
<1>20. CASE ReadFails
  BY <1>20 DEF ReadFails, LoopFails, TellsHost, Forget, Close, Goto
<1>21. CASE ReadClosed
  BY <1>21 DEF ReadClosed, LoopFails, TellsHost, Forget, Goto
<1>22. CASE CloseTimesOut
  BY <1>22 DEF CloseTimesOut, Goto
<1>23. CASE Breaks
  BY <1>23 DEF Breaks
<1>24. CASE UNCHANGED linkVars
  BY <1>24 DEF linkVars
<1> QED
  BY <1>1, <1>2, <1>3, <1>4, <1>5, <1>6, <1>7, <1>8, <1>9, <1>10, <1>11, <1>12, <1>13,
     <1>14, <1>15, <1>16, <1>17, <1>18, <1>19, <1>20, <1>21, <1>22, <1>23, <1>24
     DEF ConnNext, ConnSystem, OnLost, OnSilent

-----------------------------------------------------------------------------
(* The theorems. *)

\* The invariant is inductive.
THEOREM ConnInductive == ConnSpec => []ConnInv
<1>1. ConnInv /\ [ConnNext]_linkVars => ConnInv'
  BY StepLink, StepFlag, StepPlaces, StepClose, StepLock DEF ConnInv
<1> QED
  BY <1>1, InitConn, PTL DEF ConnSpec

\* The transport's state and that of the tasks that share it are of their types.
THEOREM ConnCorrect == ConnSpec => []ConnTypeOK
<1>1. ConnInv => ConnTypeOK
  BY DEF ConnInv, LinkType, FlagType, ConnTypeOK
<1> QED
  BY <1>1, ConnInductive, PTL

\* connect and disconnect: at no time is a transport open but the one in use,
\* however often the line breaks, opens fail, closes are cut off and whichever of
\* the host, the listener and the worker closes it, and however many transports
\* there are.
THEOREM NoTransportLost == ConnSpec => []OneTransport
<1>1. ConnInv => OneTransport
  BY DEF ConnInv, CloseInv, OneTransport
<1> QED
  BY <1>1, ConnInductive, PTL

\* send: the lock is held by the one task between its write and the end of that
\* write or of the close after it; no two tasks write at once and none leaves
\* with the lock.
THEOREM OneWriter == ConnSpec => []LockInv
<1>1. ConnInv => LockInv
  BY DEF ConnInv
<1> QED
  BY <1>1, ConnInductive, PTL
=============================================================================
