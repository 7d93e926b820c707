------------------------ MODULE PinpointClientHandler ------------------------
(***************************************************************************)
(* The agent's end of a connection: DefaultPinpointClientHandler with its  *)
(* PinpointClientHandlerState, PinpointClientHandshaker and ConnectFuture. *)
(* Four threads meet here: the Netty worker (channelConnected,             *)
(* messageReceived, channelClosed), the handler's HashedWheelTimer         *)
(* (HandshakeJob, PingTask), the thread that opened the connection, and    *)
(* any thread that calls close().  A thread's read of the state and the    *)
(* step that uses what it read are two actions wherever another thread may *)
(* come between.                                                           *)
(***************************************************************************)
EXTENDS SocketStateCode, RpcChannel, Naturals

CONSTANTS
    HandshakeBound,     \* bound: handshake packets the client sends
    PingBound           \* bound: pings the client sends

ASSUME ClientBounds == HandshakeBound \in Nat \ {0} /\ PingBound \in Nat

VARIABLES
    mode,               \* who opened the channel: "connect" (PinpointClientFactory.connect)
                        \* or "reconnect" (ConnectEvent.run)
    cState,             \* PinpointClientHandlerState.state
    cIo,                \* the worker: "opening" until channelConnected, "toRun" inside it,
                        \* "open", "closing" inside channelClosed, "done" after it
    cSeen,              \* what channelClosed read: [state, released]
    hs,                 \* PinpointClientHandshaker.state
    hsJob,              \* a HandshakeJob waits in the timer
    hsSent,             \* handshakeCount
    pingTask,           \* a PingTask waits in the timer
    pings,              \* pingIdGenerator
    tPc,                \* the timer's thread: "idle", or between reading and writing in
                        \* HandshakeJob.run ("handshake") or writePing ("ping",
                        \* then "pingWrite")
    tPing,              \* the state code writePing read
    cTimer,             \* channelTimer: "run" or "stopped"
    connectFuture,      \* ConnectFuture.result: "null", "SUCCESS", "FAIL"
    hasClient,          \* setPinpointClient was called
    published,          \* a PinpointClient refers to the handler: close() may be called
    uPc,                \* the closing thread: "idle", "toBeingClose", "sendClose",
                        \* "closeChannel", "toClosed", "abort", "stopTimer"
    closeCalled,        \* close() was called
    factoryReleased,    \* PinpointClientFactory.released
    reconnects          \* calls of clientFactory.reconnect that scheduled a ConnectEvent

clientVars ==
    <<mode, cState, cIo, cSeen, hs, hsJob, hsSent, pingTask, pings, tPc, tPing, cTimer,
      connectFuture, hasClient, published, uPc, closeCalled, factoryReleased, reconnects>>

lifeVars == <<mode, hasClient, published, factoryReleased>>
timerVars == <<hsJob, hsSent, pingTask, pings, tPc, tPing>>
closeVars == <<uPc, closeCalled>>

ClientTypeOK ==
    /\ mode \in {"connect", "reconnect"}
    /\ cState \in SocketStateCodes
    /\ cIo \in {"opening", "toRun", "open", "closing", "done"}
    /\ cSeen \in [state : SocketStateCodes, released : BOOLEAN]
    /\ hs \in {"INIT", "STARTED", "FINISHED"}
    /\ hsJob \in BOOLEAN
    /\ hsSent \in 0..HandshakeBound
    /\ pingTask \in BOOLEAN
    /\ pings \in 0..PingBound
    /\ tPc \in {"idle", "handshake", "ping", "pingWrite"}
    /\ tPing \in SocketStateCodes
    /\ cTimer \in {"run", "stopped"}
    /\ connectFuture \in {"null", "SUCCESS", "FAIL"}
    /\ hasClient \in BOOLEAN
    /\ published \in BOOLEAN
    /\ uPc \in {"idle", "toBeingClose", "sendClose", "closeChannel", "toClosed",
                "abort", "stopTimer"}
    /\ closeCalled \in BOOLEAN
    /\ factoryReleased \in BOOLEAN
    /\ reconnects \in 0..1

ClientInit ==
    /\ mode \in {"connect", "reconnect"}
    /\ cState = IF mode = "reconnect" THEN "BEING_CONNECT" ELSE "NONE"
    /\ cIo = "opening"
    /\ cSeen = [state |-> "NONE", released |-> FALSE]
    /\ hs = "INIT"
    /\ hsJob = FALSE
    /\ hsSent = 0
    /\ pingTask = FALSE
    /\ pings = 0
    /\ tPc = "idle"
    /\ tPing = "NONE"
    /\ cTimer = "run"
    /\ connectFuture = "null"
    /\ hasClient = FALSE
    /\ published = FALSE
    /\ uPc = "idle"
    /\ closeCalled = FALSE
    /\ factoryReleased = FALSE
    /\ reconnects = 0

-----------------------------------------------------------------------------
(* The thread that opens the connection.                                   *)

\* connect(): waits for the ConnectFuture, then the PinpointClient's constructor takes
\* the handler and calls setPinpointClient.
Connect ==
    /\ mode = "connect"
    /\ connectFuture = "SUCCESS"
    /\ ~published
    /\ published' = TRUE
    /\ hasClient' = TRUE
    /\ UNCHANGED <<mode, cState, cIo, cSeen, hs, timerVars, cTimer, connectFuture,
                   closeVars, factoryReleased, reconnects, channelVars>>

\* ConnectEvent.run, after it started the connect: setPinpointClient.
SetPinpointClient ==
    /\ mode = "reconnect"
    /\ ~hasClient
    /\ hasClient' = TRUE
    /\ UNCHANGED <<mode, cState, cIo, cSeen, hs, timerVars, cTimer, connectFuture,
                   published, closeVars, factoryReleased, reconnects, channelVars>>

\* The listener of the connect's ChannelFuture hands the handler to the PinpointClient
\* (or closes it, if the PinpointClient is closed already).  Nothing orders it against
\* channelConnected.
ConnectSucceeded ==
    /\ mode = "reconnect"
    /\ hasClient
    /\ ~published
    /\ cChan = "connected"
    /\ published' = TRUE
    /\ UNCHANGED <<mode, cState, cIo, cSeen, hs, timerVars, cTimer, connectFuture,
                   hasClient, closeVars, factoryReleased, reconnects, channelVars>>

\* PinpointClientFactory.release: the flag first, then the bootstrap closes the channels.
Release ==
    /\ ~factoryReleased
    /\ factoryReleased' = TRUE
    /\ UNCHANGED <<mode, cState, cIo, cSeen, hs, timerVars, cTimer, connectFuture,
                   hasClient, published, closeVars, reconnects, channelVars>>

ReleaseChannel ==
    /\ factoryReleased
    /\ cChan = "connecting" \/ (cChan = "connected" /\ cIo = "open")
    /\ ClientCloses
    /\ UNCHANGED <<clientVars, sChan, link, c2s>>

-----------------------------------------------------------------------------
(* The Netty worker.                                                       *)

\* channelConnected, to the first state change; the listeners run before the second.
ToConnected ==
    /\ cIo = "opening"
    /\ cChan = "connected"
    /\ cState' = To(cState, "CONNECTED")
    /\ cIo' = IF CanChangeState(cState, "CONNECTED") THEN "toRun" ELSE "open"
    /\ UNCHANGED <<lifeVars, cSeen, hs, timerVars, cTimer, connectFuture, closeVars,
                   reconnects, channelVars>>

\* handshakeStart, on a connected channel: only the first call counts; it writes and
\* schedules the retry.
HandshakeStart ==
    IF hs = "INIT" /\ cChan = "connected"
    THEN /\ hs' = "STARTED"
         /\ hsSent' = 1
         /\ hsJob' = TRUE
         /\ ClientWrite(Handshake)
    ELSE UNCHANGED <<hs, hsSent, hsJob, c2s>>

\* The rest of channelConnected.  A refused change, or a timer that is stopped already
\* (registerPing throws), ends it there.
ToRunWithoutHandshake ==
    /\ cIo = "toRun"
    /\ cIo' = "open"
    /\ cState' = To(cState, "RUN_WITHOUT_HANDSHAKE")
    /\ IF CanChangeState(cState, "RUN_WITHOUT_HANDSHAKE") /\ cTimer = "run"
       THEN /\ pingTask' = TRUE
            /\ HandshakeStart
            /\ connectFuture' = IF connectFuture = "null" THEN "SUCCESS" ELSE connectFuture
       ELSE UNCHANGED <<pingTask, hs, hsSent, hsJob, c2s, connectFuture>>
    /\ UNCHANGED <<lifeVars, cSeen, pings, tPc, tPing, cTimer, closeVars, reconnects,
                   cChan, sChan, link, s2c>>

\* Mutant of RunStateOf: the handshaker forgets the simplex codes.
RunStateOfNoSimplex(code) ==
    IF code \in {"DUPLEX_COMMUNICATION", "ALREADY_DUPLEX_COMMUNICATION"}
    THEN "RUN_DUPLEX" ELSE "NONE"

\* The run state a handshake response code stands for, NONE for an error code.
RunStateOf(code) ==
    CASE code \in {"SUCCESS", "ALREADY_KNOWN", "SIMPLEX_COMMUNICATION",
                   "ALREADY_SIMPLEX_COMMUNICATION"} -> "RUN_SIMPLEX"
      [] code \in {"DUPLEX_COMMUNICATION", "ALREADY_DUPLEX_COMMUNICATION"} -> "RUN_DUPLEX"
      [] OTHER -> "NONE"

ReceiveServerClose ==
    /\ cIo = "open"
    /\ cChan = "connected"
    /\ s2c # <<>>
    /\ Head(s2c) = ServerClose
    /\ s2c' = Tail(s2c)
    /\ cState' = To(cState, "BEING_CLOSE_BY_SERVER")
    /\ UNCHANGED <<lifeVars, cIo, cSeen, hs, timerVars, cTimer, connectFuture, closeVars,
                   reconnects, cChan, sChan, link, c2s>>

\* handleHandshakePacket: only the response that finds the handshaker STARTED counts.
ReceiveHandshakeResponse ==
    /\ cIo = "open"
    /\ cChan = "connected"
    /\ s2c # <<>>
    /\ Head(s2c).type = "CONTROL_HANDSHAKE_RESPONSE"
    /\ s2c' = Tail(s2c)
    /\ hs' = "FINISHED"
    /\ cState' = IF hs = "STARTED" /\ RunStateOf(Head(s2c).code) # "NONE"
                 THEN To(cState, RunStateOf(Head(s2c).code))
                 ELSE cState
    /\ UNCHANGED <<lifeVars, cIo, cSeen, timerVars, cTimer, connectFuture, closeVars,
                   reconnects, cChan, sChan, link, c2s>>

\* channelClosed reads the factory's flag and the state ...
ChannelClosed ==
    /\ cChan = "closed"
    /\ cIo \in {"opening", "open"}
    /\ cIo' = "closing"
    /\ cSeen' = [state |-> cState, released |-> factoryReleased]
    /\ UNCHANGED <<lifeVars, cState, hs, timerVars, cTimer, connectFuture, closeVars,
                   reconnects, channelVars>>

\* Mutant of ClosedTarget: both closing states end in the client's closed state.
ClosedTargetByClient(seen) ==
    CASE OnClose(seen.state) -> "CLOSED_BY_CLIENT"
      [] IsRun(seen.state) -> "UNEXPECTED_CLOSE_BY_SERVER"
      [] IsBeforeConnected(seen.state) -> "CONNECT_FAILED"
      [] OTHER -> "ERROR_UNKNOWN"

\* ... and changes the state according to what it read.
ClosedTarget(seen) ==
    CASE seen.state = "BEING_CLOSE_BY_CLIENT" -> "CLOSED_BY_CLIENT"
      [] seen.state = "BEING_CLOSE_BY_SERVER" -> "CLOSED_BY_SERVER"
      [] IsRun(seen.state) /\ seen.released -> "UNEXPECTED_CLOSE_BY_CLIENT"
      [] IsRun(seen.state) /\ ~seen.released -> "UNEXPECTED_CLOSE_BY_SERVER"
      [] IsBeforeConnected(seen.state) -> "CONNECT_FAILED"
      [] OTHER -> "ERROR_UNKNOWN"

\* Mutant of NeedReconnect: only an announced close is followed by a reconnect.
NeedReconnectIfAnnounced(seen) ==
    /\ ClosedTarget(seen) = "CLOSED_BY_SERVER"
    /\ CanChangeState(cState, ClosedTarget(seen))

\* A reconnect is asked for when the server went away and the change was accepted.
NeedReconnect(seen) ==
    /\ ClosedTarget(seen) \in {"CLOSED_BY_SERVER", "UNEXPECTED_CLOSE_BY_SERVER"}
    /\ CanChangeState(cState, ClosedTarget(seen))

\* Mutant of FinishChannelClosed: the handshake is not aborted.
FinishChannelClosedNoAbort ==
    /\ cIo = "closing"
    /\ cIo' = "done"
    /\ cState' = To(cState, ClosedTarget(cSeen))
    /\ reconnects' = IF NeedReconnect(cSeen) /\ hasClient THEN reconnects + 1 ELSE reconnects
    /\ cTimer' = "stopped"
    /\ connectFuture' = IF connectFuture = "null" THEN "FAIL" ELSE connectFuture
    /\ UNCHANGED <<lifeVars, cSeen, hs, timerVars, closeVars, channelVars>>

\* clientFactory.reconnect throws on a null PinpointClient; the finally block runs either way.
FinishChannelClosed ==
    /\ cIo = "closing"
    /\ cIo' = "done"
    /\ cState' = To(cState, ClosedTarget(cSeen))
    /\ reconnects' = IF NeedReconnect(cSeen) /\ hasClient THEN reconnects + 1 ELSE reconnects
    /\ hs' = "FINISHED"
    /\ cTimer' = "stopped"
    /\ connectFuture' = IF connectFuture = "null" THEN "FAIL" ELSE connectFuture
    /\ UNCHANGED <<lifeVars, cSeen, timerVars, closeVars, channelVars>>

-----------------------------------------------------------------------------
(* The handler's timer.                                                    *)

\* HandshakeJob.run reads the handshaker's state; it is not scheduled again unless STARTED.
HandshakeJobRead ==
    /\ tPc = "idle"
    /\ cTimer = "run"
    /\ hsJob
    /\ hsSent < HandshakeBound
    /\ hsJob' = FALSE
    /\ tPc' = IF hs = "STARTED" THEN "handshake" ELSE "idle"
    /\ UNCHANGED <<lifeVars, cState, cIo, cSeen, hs, hsSent, pingTask, pings, tPing, cTimer,
                   connectFuture, closeVars, reconnects, channelVars>>

\* Then it writes the packet again and schedules itself, if the timer still runs.
HandshakeJobWrite ==
    /\ tPc = "handshake"
    /\ tPc' = "idle"
    /\ hsSent' = hsSent + 1
    /\ hsJob' = (cTimer = "run")
    /\ ClientWrite(Handshake)
    /\ UNCHANGED <<lifeVars, cState, cIo, cSeen, hs, pingTask, pings, tPing, cTimer,
                   connectFuture, closeVars, reconnects, cChan, sChan, link, s2c>>

\* PingTask.run: writePing first asks whether the handler runs ...
PingCheck ==
    /\ tPc = "idle"
    /\ cTimer = "run"
    /\ pingTask
    /\ pings < PingBound
    /\ IsRun(cState)
    /\ tPc' = "ping"
    /\ UNCHANGED <<lifeVars, cState, cIo, cSeen, hs, hsJob, hsSent, pingTask, pings, tPing,
                   cTimer, connectFuture, closeVars, reconnects, channelVars>>

\* ... then reads the state again, for the packet ...
PingRead ==
    /\ tPc = "ping"
    /\ tPc' = "pingWrite"
    /\ pings' = pings + 1
    /\ tPing' = cState
    /\ UNCHANGED <<lifeVars, cState, cIo, cSeen, hs, hsJob, hsSent, pingTask, cTimer,
                   connectFuture, closeVars, reconnects, channelVars>>

\* ... and writes it; the task schedules itself if the timer still runs.
PingWrite ==
    /\ tPc = "pingWrite"
    /\ tPc' = "idle"
    /\ tPing' = "NONE"
    /\ pingTask' = (cTimer = "run")
    /\ ClientWrite(Ping(tPing))
    /\ UNCHANGED <<lifeVars, cState, cIo, cSeen, hs, hsJob, hsSent, pings, cTimer,
                   connectFuture, closeVars, reconnects, cChan, sChan, link, s2c>>

-----------------------------------------------------------------------------
(* close(), from any thread that has the handler.                          *)

\* It reads the state and goes one of three ways; a closing, closed or CONNECTED handler
\* is left alone.  Its callers, PinpointClient.close (once only) and the reconnect that
\* finds the PinpointClient closed, exclude each other.
CloseRead ==
    /\ published
    /\ ~closeCalled
    /\ closeCalled' = TRUE
    /\ uPc' = IF IsRun(cState) THEN "toBeingClose"
              ELSE IF IsBeforeConnected(cState) THEN "toClosed" ELSE "idle"
    /\ UNCHANGED <<lifeVars, cState, cIo, cSeen, hs, timerVars, cTimer, connectFuture,
                   reconnects, channelVars>>

\* The result of the change is not looked at.
CloseToBeingClose ==
    /\ uPc = "toBeingClose"
    /\ uPc' = "sendClose"
    /\ cState' = To(cState, "BEING_CLOSE_BY_CLIENT")
    /\ UNCHANGED <<lifeVars, cIo, cSeen, hs, timerVars, cTimer, connectFuture, closeCalled,
                   reconnects, channelVars>>

SendClosedPacket ==
    /\ uPc = "sendClose"
    /\ uPc' = "closeChannel"
    /\ ClientWrite(ClientClose)
    /\ UNCHANGED <<lifeVars, cState, cIo, cSeen, hs, timerVars, cTimer, connectFuture,
                   closeCalled, reconnects, cChan, sChan, link, s2c>>

\* Mutant of CloseChannel: the channel is left for the server to close.
CloseChannelKept ==
    /\ uPc = "closeChannel"
    /\ uPc' = "idle"
    /\ UNCHANGED <<lifeVars, cState, cIo, cSeen, hs, timerVars, cTimer, connectFuture,
                   closeCalled, reconnects, channelVars>>

CloseChannel ==
    /\ uPc = "closeChannel"
    /\ uPc' = "idle"
    /\ ClientCloses
    /\ UNCHANGED <<lifeVars, cState, cIo, cSeen, hs, timerVars, cTimer, connectFuture,
                   closeCalled, reconnects, sChan, link, c2s>>

\* Before the connection is up, only the resources are closed; the channel is not.
CloseToClosed ==
    /\ uPc = "toClosed"
    /\ uPc' = "abort"
    /\ cState' = To(cState, "CLOSED_BY_CLIENT")
    /\ UNCHANGED <<lifeVars, cIo, cSeen, hs, timerVars, cTimer, connectFuture, closeCalled,
                   reconnects, channelVars>>

HandshakeAbort ==
    /\ uPc = "abort"
    /\ uPc' = "stopTimer"
    /\ hs' = "FINISHED"
    /\ UNCHANGED <<lifeVars, cState, cIo, cSeen, timerVars, cTimer, connectFuture,
                   closeCalled, reconnects, channelVars>>

StopTimer ==
    /\ uPc = "stopTimer"
    /\ uPc' = "idle"
    /\ cTimer' = "stopped"
    /\ UNCHANGED <<lifeVars, cState, cIo, cSeen, hs, timerVars, connectFuture, closeCalled,
                   reconnects, channelVars>>

=============================================================================
