------------------------ MODULE PinpointClientReconnect ------------------------
(***************************************************************************)
(* A PinpointClient and the succession of channels it lives on:            *)
(* PinpointClient, the ConnectEvent of PinpointClientFactory, and what     *)
(* DefaultPinpointClientHandler contributes to a reconnect.  The user's    *)
(* thread connects and closes, the factory's timer opens channels, and     *)
(* each channel has a Netty worker.  A handler's own close() and           *)
(* channelClosed are single steps here; PinpointConnection interleaves     *)
(* them.  The factory is not released.                                     *)
(***************************************************************************)
EXTENDS SocketStateCode, Naturals, FiniteSets

CONSTANT
    Attempts        \* bound: the channels that are opened

ASSUME AttemptsAssumption == Attempts \in Nat \ {0}

Channels == 1..Attempts

VARIABLES
    gen,            \* the channel opened last, 0 before the first
    hState,         \* PinpointClientHandlerState.state of each channel's handler
    chan,           \* each channel: "none", "connecting", "open", "closed"
    connected,      \* its ChannelFuture: "pending", "success", "failure"
    io,             \* its worker: "none", "connecting", "listening" while it runs the
                    \* future's listener, "fire" before channelConnected, "open", "done"
    listener,       \* operationComplete waits for the future
    op,             \* operationComplete: "none", "run", "publish", "force", then
                    \* "published", "forced", "failed"
    hasClient,      \* setPinpointClient was called
    channelTimer,   \* the handler's timer: "run" or "stopped"
    connectFuture,  \* ConnectFuture.result of channel 1, if connect() waits for it
    created,        \* the PinpointClient exists
    current,        \* PinpointClient.pinpointClientHandler, 0: ReconnectStateClientHandler
    closed,         \* PinpointClient.closed
    uPc,            \* the closing thread: "idle", "closeHandler"
    tasks,          \* ConnectEvents in the factory's timer
    tPc,            \* the timer's thread inside ConnectEvent.run: "idle", "connect",
                    \* "setPinpointClient", "addListener", "listening"
    lost            \* history: a reconnect was asked for with no PinpointClient to give

handlerVars == <<hState, hasClient, channelTimer, connectFuture>>
channelVars == <<chan, connected, io, listener>>
clientVars == <<created, current, closed, uPc>>
timerVars == <<gen, tasks, tPc>>
vars == <<handlerVars, channelVars, clientVars, timerVars, op, lost>>

TypeOK ==
    /\ gen \in 0..Attempts
    /\ hState \in [Channels -> SocketStateCodes]
    /\ chan \in [Channels -> {"none", "connecting", "open", "closed"}]
    /\ connected \in [Channels -> {"pending", "success", "failure"}]
    /\ io \in [Channels -> {"none", "connecting", "listening", "fire", "open", "done"}]
    /\ listener \in [Channels -> BOOLEAN]
    /\ op \in [Channels -> {"none", "run", "publish", "force", "published", "forced", "failed"}]
    /\ hasClient \in [Channels -> BOOLEAN]
    /\ channelTimer \in [Channels -> {"run", "stopped"}]
    /\ connectFuture \in {"null", "SUCCESS", "FAIL"}
    /\ created \in BOOLEAN
    /\ current \in 0..gen
    /\ closed \in BOOLEAN
    /\ uPc \in {"idle", "closeHandler"}
    /\ tasks \in 0..1
    /\ tPc \in {"idle", "connect", "setPinpointClient", "addListener", "listening"}
    /\ lost \in BOOLEAN

\* connect() has just started to connect the first channel, or scheduledConnect has just
\* scheduled a ConnectEvent.
Init ==
    /\ created \in BOOLEAN
    /\ gen = (IF created THEN 0 ELSE 1)
    /\ tasks = (IF created THEN 1 ELSE 0)
    /\ hState = [g \in Channels |-> "NONE"]
    /\ chan = [g \in Channels |-> IF g <= gen THEN "connecting" ELSE "none"]
    /\ connected = [g \in Channels |-> "pending"]
    /\ io = [g \in Channels |-> IF g <= gen THEN "connecting" ELSE "none"]
    /\ listener = [g \in Channels |-> FALSE]
    /\ op = [g \in Channels |-> "none"]
    /\ hasClient = [g \in Channels |-> FALSE]
    /\ channelTimer = [g \in Channels |-> "run"]
    /\ connectFuture = "null"
    /\ current = 0
    /\ closed = FALSE
    /\ uPc = "idle"
    /\ tPc = "idle"
    /\ lost = FALSE

-----------------------------------------------------------------------------
(* The handler.                                                            *)

\* close(): a running handler closes its channel; before it is connected only its
\* resources are closed, and its state stays unless it was NONE.
HandlerClose(g) ==
    /\ hState' = [hState EXCEPT ![g] =
            IF IsRun(hState[g]) THEN "BEING_CLOSE_BY_CLIENT"
            ELSE IF IsBeforeConnected(hState[g]) THEN To(hState[g], "CLOSED_BY_CLIENT")
            ELSE hState[g]]
    /\ chan' = [chan EXCEPT ![g] = IF IsRun(hState[g]) THEN "closed" ELSE chan[g]]
    /\ channelTimer' = [channelTimer EXCEPT ![g] =
            IF IsBeforeConnected(hState[g]) THEN "stopped" ELSE channelTimer[g]]

Announce(result) ==
    connectFuture' = IF connectFuture = "null" THEN result ELSE connectFuture

\* A refused change, or a timer that is stopped already, ends channelConnected with an
\* exception; the channel stays as it is.
ChannelConnected(g) ==
    /\ connected[g] = "success"
    /\ io[g] = "fire" \/ (io[g] = "listening" /\ op[g] \in {"published", "forced"})
    /\ io' = [io EXCEPT ![g] = "open"]
    /\ IF CanChangeState(hState[g], "CONNECTED")
       THEN /\ hState' = [hState EXCEPT ![g] = "RUN_WITHOUT_HANDSHAKE"]
            /\ IF g = 1 /\ channelTimer[g] = "run"
               THEN Announce("SUCCESS") ELSE UNCHANGED connectFuture
       ELSE UNCHANGED <<hState, connectFuture>>
    /\ UNCHANGED <<hasClient, channelTimer, chan, connected, listener, clientVars, timerVars,
                   op, lost>>

ClosedTarget(code) ==
    CASE code = "BEING_CLOSE_BY_CLIENT" -> "CLOSED_BY_CLIENT"
      [] code = "BEING_CLOSE_BY_SERVER" -> "CLOSED_BY_SERVER"
      [] IsRun(code) -> "UNEXPECTED_CLOSE_BY_SERVER"
      [] IsBeforeConnected(code) -> "CONNECT_FAILED"
      [] OTHER -> "ERROR_UNKNOWN"

\* Mutant of NeedReconnect: a connect that failed asks for a reconnect, too.
NeedReconnectFailed(code) ==
    ClosedTarget(code) \in
        {"CLOSED_BY_SERVER", "UNEXPECTED_CLOSE_BY_SERVER", "CONNECT_FAILED"}

\* Mutant of NeedReconnect: only a close that was announced asks for a reconnect.
NeedReconnectAnnounced(code) == ClosedTarget(code) = "CLOSED_BY_SERVER"

NeedReconnect(code) ==
    ClosedTarget(code) \in {"CLOSED_BY_SERVER", "UNEXPECTED_CLOSE_BY_SERVER"}

\* channelClosed, after the events that come before it.  ConnectEvent's constructor throws
\* on a null PinpointClient; the resources are closed either way.
ChannelClosed(g) ==
    /\ chan[g] = "closed"
    /\ \/ io[g] = "open"
       \/ /\ connected[g] = "failure"
          /\ io[g] = "fire" \/ (io[g] = "listening" /\ op[g] = "failed")
    /\ io' = [io EXCEPT ![g] = "done"]
    /\ hState' = [hState EXCEPT ![g] = To(hState[g], ClosedTarget(hState[g]))]
    /\ IF NeedReconnect(hState[g])
       THEN IF hasClient[g] THEN tasks' = tasks + 1 /\ UNCHANGED lost
                            ELSE lost' = TRUE /\ UNCHANGED tasks
       ELSE UNCHANGED <<tasks, lost>>
    /\ channelTimer' = [channelTimer EXCEPT ![g] = "stopped"]
    /\ IF g = 1 THEN Announce("FAIL") ELSE UNCHANGED connectFuture
    /\ UNCHANGED <<hasClient, chan, connected, listener, clientVars, gen, tPc, op>>

\* CONTROL_SERVER_CLOSE.
ServerClosePacket(g) ==
    /\ io[g] = "open"
    /\ chan[g] = "open"
    /\ IsRun(hState[g])
    /\ hState' = [hState EXCEPT ![g] = "BEING_CLOSE_BY_SERVER"]
    /\ UNCHANGED <<hasClient, channelTimer, connectFuture, channelVars, clientVars, timerVars,
                   op, lost>>

-----------------------------------------------------------------------------
(* Netty: the connect ends, in the worker that runs the listener if there is *)
(* one by then; the peer goes away.                                          *)

Settle(g, result) ==
    /\ chan[g] = "connecting"
    /\ connected' = [connected EXCEPT ![g] = result]
    /\ IF listener[g]
       THEN io' = [io EXCEPT ![g] = "listening"] /\ op' = [op EXCEPT ![g] = "run"]
       ELSE io' = [io EXCEPT ![g] = "fire"] /\ UNCHANGED op
    /\ UNCHANGED <<listener, handlerVars, clientVars, timerVars, lost>>

Establish(g) == Settle(g, "success") /\ chan' = [chan EXCEPT ![g] = "open"]

ConnectFails(g) == Settle(g, "failure") /\ chan' = [chan EXCEPT ![g] = "closed"]

PeerCloses(g) ==
    /\ io[g] = "open"
    /\ chan[g] = "open"
    /\ chan' = [chan EXCEPT ![g] = "closed"]
    /\ UNCHANGED <<connected, io, listener, handlerVars, clientVars, timerVars, op, lost>>

-----------------------------------------------------------------------------
(* The user's thread.                                                      *)

\* connect() returns: the PinpointClient's constructor takes the handler.  It throws when
\* the ConnectFuture failed, and there is no PinpointClient.
Connect ==
    /\ ~created
    /\ connectFuture = "SUCCESS"
    /\ created' = TRUE
    /\ current' = 1
    /\ hasClient' = [hasClient EXCEPT ![1] = TRUE]
    /\ UNCHANGED <<hState, channelTimer, connectFuture, channelVars, closed, uPc, timerVars,
                   op, lost>>

\* PinpointClient.close: the flag, under the lock, then the handler there is.
Close ==
    /\ created
    /\ ~closed
    /\ closed' = TRUE
    /\ uPc' = "closeHandler"
    /\ UNCHANGED <<created, current, handlerVars, channelVars, timerVars, op, lost>>

CloseHandler ==
    /\ uPc = "closeHandler"
    /\ uPc' = "idle"
    /\ IF current = 0
       THEN UNCHANGED <<hState, chan, channelTimer>>
       ELSE HandlerClose(current)
    /\ UNCHANGED <<hasClient, connectFuture, connected, io, listener, created, current, closed,
                   timerVars, op, lost>>

-----------------------------------------------------------------------------
(* The factory's timer: ConnectEvent.run.                                  *)

\* The thread is free again when operationComplete returned.
TimerFree ==
    tPc = "idle" \/ (tPc = "listening" /\ op[gen] \in {"published", "forced", "failed"})

\* Mutant of RunConnectEvent: an event that finds the client closed puts itself off.
RunConnectEventPutOff ==
    /\ TimerFree
    /\ tasks > 0
    /\ closed \/ gen < Attempts
    /\ tasks' = IF closed THEN tasks ELSE tasks - 1
    /\ tPc' = IF closed THEN "idle" ELSE "connect"
    /\ UNCHANGED <<gen, handlerVars, channelVars, clientVars, op, lost>>

\* An event that finds the client closed does nothing more.
RunConnectEvent ==
    /\ TimerFree
    /\ tasks > 0
    /\ closed \/ gen < Attempts
    /\ tasks' = tasks - 1
    /\ tPc' = IF closed THEN "idle" ELSE "connect"
    /\ UNCHANGED <<gen, handlerVars, channelVars, clientVars, op, lost>>

\* reconnect(remoteAddress): a new pipeline, initReconnect, and an asynchronous connect.
Reconnect ==
    /\ tPc = "connect"
    /\ tPc' = "setPinpointClient"
    /\ gen' = gen + 1
    /\ hState' = [hState EXCEPT ![gen'] = "BEING_CONNECT"]
    /\ chan' = [chan EXCEPT ![gen'] = "connecting"]
    /\ io' = [io EXCEPT ![gen'] = "connecting"]
    /\ UNCHANGED <<hasClient, channelTimer, connectFuture, connected, listener, clientVars,
                   tasks, op, lost>>

SetPinpointClient ==
    /\ tPc = "setPinpointClient"
    /\ tPc' = "addListener"
    /\ hasClient' = [hasClient EXCEPT ![gen] = TRUE]
    /\ UNCHANGED <<gen, tasks, hState, channelTimer, connectFuture, channelVars, clientVars,
                   op, lost>>

\* Mutant of AddListener: the listener runs in a thread of its own.
AddListenerElsewhere ==
    /\ tPc = "addListener"
    /\ tPc' = "idle"
    /\ IF connected[gen] = "pending"
       THEN listener' = [listener EXCEPT ![gen] = TRUE] /\ UNCHANGED op
       ELSE op' = [op EXCEPT ![gen] = "run"] /\ UNCHANGED listener
    /\ UNCHANGED <<gen, tasks, handlerVars, chan, connected, io, clientVars, lost>>

\* A listener that comes after the result runs in the timer's thread.
AddListener ==
    /\ tPc = "addListener"
    /\ IF connected[gen] = "pending"
       THEN /\ tPc' = "idle"
            /\ listener' = [listener EXCEPT ![gen] = TRUE]
            /\ UNCHANGED op
       ELSE /\ tPc' = "listening"
            /\ op' = [op EXCEPT ![gen] = "run"]
            /\ UNCHANGED listener
    /\ UNCHANGED <<gen, tasks, handlerVars, chan, connected, io, clientVars, lost>>

-----------------------------------------------------------------------------
(* operationComplete, in either thread, and reconnectSocketHandler.        *)

\* The PinpointClient is asked whether it is closed ...
OperationComplete(g) ==
    /\ op[g] = "run"
    /\ IF connected[g] = "success"
       THEN /\ op' = [op EXCEPT ![g] = IF closed THEN "force" ELSE "publish"]
            /\ UNCHANGED tasks
       ELSE /\ op' = [op EXCEPT ![g] = "failed"]
            /\ tasks' = IF closed THEN tasks ELSE tasks + 1
    /\ UNCHANGED <<gen, tPc, handlerVars, channelVars, clientVars, lost>>

\* ... and then takes the handler, ...
Publish(g) ==
    /\ op[g] = "publish"
    /\ op' = [op EXCEPT ![g] = "published"]
    /\ current' = g
    /\ UNCHANGED <<created, closed, uPc, handlerVars, channelVars, timerVars, lost>>

\* ... or closes it by force.
ForceClose(g) ==
    /\ op[g] = "force"
    /\ op' = [op EXCEPT ![g] = "forced"]
    /\ HandlerClose(g)
    /\ UNCHANGED <<hasClient, connectFuture, connected, io, listener, clientVars, timerVars,
                   lost>>

-----------------------------------------------------------------------------

ThreadStep ==
    \/ \E g \in Channels :
        \/ ChannelConnected(g)
        \/ ChannelClosed(g)
        \/ OperationComplete(g)
        \/ Publish(g)
        \/ ForceClose(g)
    \/ Connect \/ CloseHandler
    \/ RunConnectEvent \/ Reconnect \/ SetPinpointClient \/ AddListener

NetworkStep == \E g \in Channels : Establish(g) \/ ConnectFails(g)

OptionalStep ==
    \/ \E g \in Channels : ServerClosePacket(g) \/ PeerCloses(g)
    \/ Close

Next == ThreadStep \/ NetworkStep \/ OptionalStep

Spec == Init /\ [][Next]_vars

\* Threads are scheduled and a connect ends; servers and users owe nothing.
FairSpec == Spec /\ WF_vars(ThreadStep \/ NetworkStep)

-----------------------------------------------------------------------------

\* A channel that may still be used or lead to another one.
InHand(g) ==
    CASE connected[g] = "failure" ->
            op[g] = "run" \/ (op[g] = "none" /\ tPc # "idle")
      [] connected[g] = "success" -> io[g] # "done"
      [] OTHER -> chan[g] = "connecting"

\* A client is on one channel at a time: it never connects while it is connected, nor
\* twice at once.  Every way a channel can end asks for one reconnect at most.
OneChannelAtATime ==
    tasks + (IF tPc = "connect" THEN 1 ELSE 0) + Cardinality({g \in Channels : InHand(g)}) <= 1

\* A client that is not closed is on a channel or on its way to one, except when its
\* channel was closed before its handler knew the client.
NeverForgotten ==
    created /\ ~closed /\ ~lost =>
        tasks > 0 \/ tPc = "connect" \/ \E g \in Channels : InHand(g)

\* A handler that was replaced does not come back, though a handler is published by the
\* timer's thread or by a worker, and may be dead by then.
PublishedInOrder == [][current' >= current]_vars

\* A client that is closed stops to reconnect.
ClosedStopsReconnecting ==
    closed ~> [](tasks = 0 /\ tPc # "connect" /\ \A g \in Channels : chan[g] # "connecting")

\* The handler that connects after the client was closed is closed by force, says
\* reconnectSocketHandler; so its channel, too, is closed when its events are through.  It
\* is not: the listener comes before channelConnected, and close() of a handler that is
\* not connected leaves the channel open.
ForceCloseCloses ==
    \A g \in Channels : op[g] = "forced" /\ io[g] = "open" => chan[g] = "closed"

=============================================================================
