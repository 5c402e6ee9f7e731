------------------------------ MODULE Connection ------------------------------
(***************************************************************************)
(* The transport to the gateway (nikobus_connect/connection.py) and the    *)
(* tasks that share it: the listener's loop reads from it, the command     *)
(* worker writes to it, the host opens it and opens it again.  Any of them *)
(* may find it broken and close it, and all of them close "the" transport, *)
(* whichever that is by then.                                              *)
(*                                                                         *)
(* Transports are numbered as they are opened.  The listener's dispatch    *)
(* awaits the host's callbacks; what it dispatches is BusExchange's.       *)
(***************************************************************************)
EXTENDS Integers, FiniteSets

CONSTANTS
    MaxDrops, \* bound: transports that break, opens and handshakes that fail
    MaxOpens, \* bound: transports opened
    MaxSends, \* bound: commands the worker writes
    Patience  \* bound: how often the listener gives up on a slow close

ASSUME ConnectionAssumption ==
    {MaxDrops, MaxOpens, MaxSends, Patience} \subseteq Nat

LinkTasks == {"host", "listener", "worker"}
Nobody == "nobody"

VARIABLES
    writer,      \* the transport of _reader and _writer; 0: None
    isConnected, \* _is_connected
    opened,      \* how many transports were opened
    open,        \* those not closed on our side
    alive,       \* those whose other end is still there (external)
    sendLock,    \* the task that holds _lock
    at,          \* where each task is
    on,          \* the transport its read, write or close is about
    listening,   \* the listener's _running
    verdict,     \* device_answered
    lost,        \* whether on_connection_lost was called since the start
    drops, sends, slow

linkVars == <<writer, isConnected, opened, open, alive, sendLock, at, on,
              listening, verdict, lost, drops, sends, slow>>

Goto(p, where, t) ==
    /\ at' = [at EXCEPT ![p] = where]
    /\ on' = [on EXCEPT ![p] = t]

\* disconnect up to its await: close whatever transport there is now.
Close(p, then) ==
    /\ open' = open \ {writer}
    /\ Goto(p, then, writer)
    /\ UNCHANGED <<writer, isConnected>>

\* ... and after it.
Forget == writer' = 0 /\ isConnected' = FALSE

\* Every wait on a transport that was closed ends in the same turn of the event
\* loop; opening another takes a round trip.
Settled ==
    /\ \A p \in LinkTasks : at[p] \in {"read", "drain", "shake", "closing", "sendclosing"}
                              => on[p] \in open
    /\ ~(at["worker"] = "lock" /\ sendLock = Nobody)

-----------------------------------------------------------------------------
(* The host: open, handshake, probe, start the listener; again when told.  *)

\* Listener.stop: the loop is cancelled wherever it waits.
StopListener ==
    /\ listening' = FALSE
    /\ at' = [at EXCEPT !["listener"] = "off", !["host"] = "connect"]
    /\ on' = [on EXCEPT !["listener"] = 0]

\* The host connects: the first time and on on_connection_lost, or, while all
\* seems well, because the bus went silent.
HostReconnects ==
    /\ at["host"] = "idle"
    /\ StopListener
    /\ UNCHANGED <<writer, isConnected, opened, open, alive, sendLock, verdict,
                   lost, sends, slow>>

OnLost   == lost /\ HostReconnects /\ UNCHANGED drops
OnSilent == ~lost /\ drops < MaxDrops /\ HostReconnects /\ drops' = drops + 1

\* Mutant: it is not looked for.
ConnectFindsNothing == FALSE
\* connect: is there a transport of before?
ConnectFindsOpen == writer # 0

\* connect closes the transport of before; nothing to close is no await.
Connect ==
    /\ at["host"] = "connect"
    /\ IF ConnectFindsOpen
       THEN Close("host", "closing")
       ELSE Goto("host", "opening", 0) /\ UNCHANGED <<writer, isConnected, open>>
    /\ UNCHANGED <<opened, alive, sendLock, listening, verdict, lost, drops,
                   sends, slow>>

ConnectClosed ==
    /\ at["host"] = "closing"
    /\ Forget
    /\ Goto("host", "opening", 0)
    /\ UNCHANGED <<opened, open, alive, sendLock, listening, verdict, lost,
                   drops, sends, slow>>

Opened ==
    /\ at["host"] = "opening" /\ Settled /\ opened < MaxOpens
    /\ opened' = opened + 1
    /\ writer' = opened + 1 /\ isConnected' = TRUE
    /\ open' = open \cup {opened + 1} /\ alive' = alive \cup {opened + 1}
    /\ Goto("host", "hello", opened + 1)
    /\ UNCHANGED <<sendLock, listening, verdict, lost, drops, sends, slow>>

OpenFails ==
    /\ at["host"] = "opening" /\ drops < MaxDrops
    /\ drops' = drops + 1 /\ isConnected' = FALSE
    /\ Goto("host", "backoff", 0)
    /\ UNCHANGED <<writer, opened, open, alive, sendLock, listening, verdict,
                   lost, sends, slow>>

\* reconnect_with_backoff sleeps and tries again, for ever.
BackedOff ==
    /\ at["host"] = "backoff"
    /\ Goto("host", "connect", 0)
    /\ UNCHANGED <<writer, isConnected, opened, open, alive, sendLock, listening,
                   verdict, lost, drops, sends, slow>>

\* _handshake writes its commands through send, one lock each.
Greet ==
    /\ at["host"] = "hello"
    /\ IF ~isConnected \/ writer = 0
       THEN Goto("host", "failed", 0) /\ UNCHANGED sendLock
       ELSE /\ sendLock = Nobody
            /\ sendLock' = "host"
            /\ Goto("host", "shake", writer)
    /\ UNCHANGED <<writer, isConnected, opened, open, alive, listening, verdict,
                   lost, drops, sends, slow>>

Greeted ==
    /\ at["host"] = "shake" /\ on["host"] \in open \cap alive
    /\ sendLock' = Nobody
    /\ Goto("host", "probe", writer)
    /\ UNCHANGED <<writer, isConnected, opened, open, alive, listening, verdict,
                   lost, drops, sends, slow>>

\* Any exception on the way: disconnect, and out of connect.
ConnectFails ==
    /\ at["host"] = "failed"
    /\ IF writer # 0
       THEN Close("host", "failclosing")
       ELSE Forget /\ Goto("host", "backoff", 0) /\ UNCHANGED open
    /\ UNCHANGED <<opened, alive, sendLock, listening, verdict, lost, drops,
                   sends, slow>>

FailClosed ==
    /\ at["host"] = "failclosing"
    /\ Forget
    /\ Goto("host", "backoff", 0)
    /\ UNCHANGED <<opened, open, alive, sendLock, listening, verdict, lost,
                   drops, sends, slow>>

\* _probe: an answer, silence or the end of the stream; connect succeeds, and the
\* host resets and starts the listener.
Probed ==
    /\ at["host"] = "probe"
    /\ \/ on["host"] \in open \cap alive /\ verdict' = "answered"
       \/ verdict' = "silent"
    /\ at' = [at EXCEPT !["host"] = "idle", !["listener"] = "loop"]
    /\ on' = [on EXCEPT !["host"] = 0]
    /\ listening' = TRUE /\ lost' = FALSE
    /\ UNCHANGED <<writer, isConnected, opened, open, alive, sendLock, drops,
                   sends, slow>>

-----------------------------------------------------------------------------
(* Writing.                                                                *)

\* send checks the connection before it waits for the lock.
SendBegins ==
    /\ at["worker"] = "idle" /\ sends < MaxSends
    /\ sends' = sends + 1
    /\ IF ~isConnected \/ writer = 0
       THEN UNCHANGED <<at, on>>
       ELSE Goto("worker", "lock", 0)
    /\ UNCHANGED <<writer, isConnected, opened, open, alive, sendLock, listening,
                   verdict, lost, drops, slow>>

\* With the lock: write to the transport of now.  If it is gone meanwhile that
\* is an AttributeError, and the lock is free again.
SendWrites ==
    /\ at["worker"] = "lock" /\ sendLock = Nobody
    /\ IF writer = 0
       THEN Goto("worker", "idle", 0) /\ UNCHANGED sendLock
       ELSE sendLock' = "worker" /\ Goto("worker", "drain", writer)
    /\ UNCHANGED <<writer, isConnected, opened, open, alive, listening, verdict,
                   lost, drops, sends, slow>>

SendDone ==
    /\ at["worker"] = "drain" /\ on["worker"] \in open \cap alive
    /\ sendLock' = Nobody
    /\ Goto("worker", "idle", 0)
    /\ UNCHANGED <<writer, isConnected, opened, open, alive, listening, verdict,
                   lost, drops, sends, slow>>

\* A write fails: disconnect, still under the lock.
WriteFails(p) ==
    /\ at[p] \in {"drain", "shake"} /\ on[p] \notin open \cap alive
    /\ IF writer # 0
       THEN Close(p, "sendclosing")
       ELSE Forget /\ UNCHANGED open /\ Goto(p, "sendclosing", 0)
    /\ UNCHANGED <<opened, alive, sendLock, listening, verdict, lost, drops,
                   sends, slow>>

SendClosed(p) ==
    /\ at[p] = "sendclosing"
    /\ Forget /\ sendLock' = Nobody
    /\ Goto(p, IF p = "host" THEN "failed" ELSE "idle", 0)
    /\ UNCHANGED <<opened, open, alive, listening, verdict, lost, drops, sends,
                   slow>>

-----------------------------------------------------------------------------
(* The listener's loop.                                                    *)

\* Mutant: the loop ends without telling the host when somebody else closed.
ExitsSilently == lost' = lost
\* on_connection_lost is invoked.
TellsHost == lost' = TRUE

\* An exception in the loop: with the connection gone the loop ends and tells
\* the host, else it sleeps a second.
LoopFails ==
    IF ~isConnected'
    THEN /\ listening' = FALSE /\ TellsHost
         /\ Goto("listener", "off", 0)
    ELSE /\ Goto("listener", "loop", 0)
         /\ UNCHANGED <<listening, lost>>

\* read: refused, or waiting for a frame.
ReadBegins ==
    /\ at["listener"] = "loop" /\ listening
    /\ UNCHANGED <<writer, isConnected>>
    /\ IF ~isConnected \/ writer = 0
       THEN LoopFails
       ELSE Goto("listener", "read", writer) /\ UNCHANGED <<listening, lost>>
    /\ UNCHANGED <<opened, open, alive, sendLock, verdict, drops, sends, slow>>

\* A frame: one that proves a device overturns a silent probe, and the frame is
\* dispatched.
FrameRead ==
    /\ at["listener"] = "read" /\ on["listener"] \in open \cap alive
    /\ verdict' \in {verdict, "answered"}
    /\ Goto("listener", "dispatch", 0)
    /\ UNCHANGED <<writer, isConnected, opened, open, alive, sendLock, listening,
                   lost, drops, sends, slow>>

\* The host's callback returns.
Dispatched ==
    /\ at["listener"] = "dispatch"
    /\ Goto("listener", "loop", 0)
    /\ UNCHANGED <<writer, isConnected, opened, open, alive, sendLock, listening,
                   verdict, lost, drops, sends, slow>>

\* The stream ends or fails under the read: disconnect.
ReadFails ==
    /\ at["listener"] = "read" /\ on["listener"] \notin open \cap alive
    /\ IF writer # 0
       THEN Close("listener", "closing") /\ UNCHANGED <<listening, lost>>
       ELSE Forget /\ UNCHANGED open /\ LoopFails
    /\ UNCHANGED <<opened, alive, sendLock, verdict, drops, sends, slow>>

ReadClosed ==
    /\ at["listener"] = "closing"
    /\ Forget
    /\ LoopFails
    /\ UNCHANGED <<opened, open, alive, sendLock, verdict, drops, sends, slow>>

\* The ten seconds of a read elapse while it closes: the close is cancelled and
\* nothing forgotten.
CloseTimesOut ==
    /\ at["listener"] = "closing" /\ slow < Patience
    /\ slow' = slow + 1
    /\ Goto("listener", "loop", 0)
    /\ UNCHANGED <<writer, isConnected, opened, open, alive, sendLock, listening,
                   verdict, lost, drops, sends>>

-----------------------------------------------------------------------------
\* The other end goes away.
Breaks ==
    /\ drops < MaxDrops /\ drops' = drops + 1
    /\ \E t \in alive : alive' = alive \ {t}
    /\ UNCHANGED <<writer, isConnected, opened, open, sendLock, at, on, listening,
                   verdict, lost, sends, slow>>

ConnInit ==
    /\ writer = 0 /\ isConnected = FALSE /\ opened = 0
    /\ open = {} /\ alive = {} /\ sendLock = Nobody
    /\ at = [p \in LinkTasks |-> IF p = "listener" THEN "off" ELSE "idle"]
    /\ on = [p \in LinkTasks |-> 0]
    /\ listening = FALSE /\ verdict = "unknown" /\ lost = TRUE
    /\ drops = 0 /\ sends = 0 /\ slow = 0

ConnSystem ==
    \/ Connect \/ ConnectClosed \/ Opened \/ BackedOff \/ Greet \/ Greeted
    \/ ConnectFails \/ FailClosed \/ Probed
    \/ SendWrites \/ SendDone
    \/ \E p \in {"host", "worker"} : WriteFails(p) \/ SendClosed(p)
    \/ ReadBegins \/ ReadFails \/ ReadClosed \/ Dispatched
    \/ OnLost

ConnNext == ConnSystem \/ OnSilent \/ OpenFails \/ SendBegins
            \/ FrameRead \/ CloseTimesOut \/ Breaks

ConnSpec == ConnInit /\ [][ConnNext]_linkVars /\ WF_linkVars(ConnSystem)

-----------------------------------------------------------------------------
ConnTypeOK ==
    /\ writer \in 0..opened /\ opened \in 0..MaxOpens
    /\ {isConnected, listening, lost} \subseteq BOOLEAN
    /\ open \subseteq 1..opened /\ alive \subseteq 1..opened
    /\ sendLock \in LinkTasks \cup {Nobody}
    /\ on \in [LinkTasks -> 0..opened]
    /\ verdict \in {"unknown", "answered", "silent"}

\* However often the line breaks and whoever closes it, no transport is open but
\* the one in use: "the old socket stays open on the bridge (a one-client bridge
\* then refuses the new one)" (connect).
OneTransport == open \subseteq {writer}

\* A line that broke is opened again, and listened to, once it stays: the worker
\* or the listener may have found out first, and a close may have been cut off.
Works == writer \in open \cap alive /\ isConnected /\ at["host"] = "idle" /\ at["listener"] # "off"
ComesBack == (opened > 0 /\ ~Works) ~> Works
=============================================================================
