-------------------------- MODULE PinpointConnection --------------------------
(***************************************************************************)
(* One agent-collector connection: the client handler, the TCP channel and *)
(* the server socket composed, from the opening of the channel to the end  *)
(* of both handlers.                                                       *)
(***************************************************************************)
EXTENDS PinpointClientHandler, PinpointServer

VARIABLE
    recent      \* history: for each ping the server handled, did its code match?
                \* the last StateCheckCapacity ones, the oldest first

vars == <<channelVars, clientVars, serverVars, recent>>

ClientPackets == {Handshake, ClientClose} \cup {Ping(code) : code \in SocketStateCodes}

ServerPackets ==
    {ServerClose} \cup {HandshakeResponse(ResponseCode(code, first)) :
                          code \in HandshakeCodes, first \in BOOLEAN}

ChannelTypeOK ==
    /\ cChan \in {"connecting", "connected", "closed"}
    /\ sChan \in {"none", "connected", "closed"}
    /\ link \in {"up", "down"}
    /\ c2s \in Seq(ClientPackets)
    /\ s2c \in Seq(ServerPackets)

TypeOK ==
    /\ ChannelTypeOK
    /\ ClientTypeOK
    /\ ServerTypeOK
    /\ recent \in Seq(BOOLEAN)

Init ==
    /\ ChannelInit
    /\ ClientInit
    /\ ServerInit
    /\ recent = <<>>

-----------------------------------------------------------------------------

\* The frame conditions of the composition.
ClientMoves == UNCHANGED <<serverVars, recent>>
ServerMoves == UNCHANGED <<clientVars, recent>>
ChannelMoves == UNCHANGED <<clientVars, serverVars, recent>>

\* A ping's verdict enters the history when the server handles it.
Remember(matched) ==
    recent' = Append(IF Len(recent) = StateCheckCapacity THEN Tail(recent) ELSE recent,
                     matched)

OpenerStep ==
    \/ Connect /\ ClientMoves
    \/ SetPinpointClient /\ ClientMoves
    \/ ConnectSucceeded /\ ClientMoves

\* A closed server channel accepts no connection; an end notices a close between two events.
NetworkStep ==
    \/ Establish /\ aPc # "done" /\ ChannelMoves
    \/ ConnectFails /\ ChannelMoves
    \/ ClientSeesPeerClosed /\ cIo = "open" /\ ChannelMoves
    \/ ServerSeesPeerClosed /\ sIo = "open" /\ ChannelMoves

ClientWorkerStep ==
    \/ ToConnected /\ ClientMoves
    \/ ToRunWithoutHandshake /\ ClientMoves
    \/ ReceiveServerClose /\ ClientMoves
    \/ ReceiveHandshakeResponse /\ ClientMoves
    \/ ChannelClosed /\ ClientMoves
    \/ FinishChannelClosed /\ ClientMoves

ClientTimerStep ==
    \/ HandshakeJobRead /\ ClientMoves
    \/ HandshakeJobWrite /\ ClientMoves
    \/ PingCheck /\ ClientMoves
    \/ PingRead /\ ClientMoves
    \/ PingWrite /\ ClientMoves

ClosingStep ==
    \/ CloseToBeingClose /\ ClientMoves
    \/ SendClosedPacket /\ ClientMoves
    \/ CloseChannel /\ ClientMoves
    \/ CloseToClosed /\ ClientMoves
    \/ HandshakeAbort /\ ClientMoves
    \/ StopTimer /\ ClientMoves

ServerWorkerStep ==
    \/ Accept /\ ServerMoves
    \/ Register /\ ServerMoves
    \/ Start /\ ServerMoves
    \/ MessageReceived /\ ServerMoves
    \/ HandleHandshake /\ ServerMoves
    \/ HandleClosePacket /\ ServerMoves
    \/ HandlePingPacket /\ Remember(sMsg.state = sState) /\ UNCHANGED clientVars
    \/ ChannelDisconnected /\ ServerMoves
    \/ StopRead /\ ServerMoves
    \/ StopApply /\ ServerMoves

AcceptorStep ==
    \/ AcceptorSendClose /\ ServerMoves
    \/ AcceptorWriteClose /\ ServerMoves
    \/ AcceptorShutdown /\ ServerMoves

\* What nobody is obliged to do: calling close, releasing the factory, stopping the
\* collector, losing the network.
OptionalStep ==
    \/ CloseRead /\ ClientMoves
    \/ Release /\ ClientMoves
    \/ ReleaseChannel /\ ClientMoves
    \/ AcceptorClose /\ ServerMoves
    \/ LinkBreaks /\ ChannelMoves

\* What some thread does as soon as it is scheduled, and the network sooner or later.
ObligedStep ==
    \/ OpenerStep
    \/ NetworkStep
    \/ ClientWorkerStep
    \/ ClientTimerStep
    \/ ClosingStep
    \/ ServerWorkerStep
    \/ AcceptorStep

Next == ObligedStep \/ OptionalStep

Spec == Init /\ [][Next]_vars

\* As long as some thread has a step to take, some thread takes one.  Each obliged step
\* uses up a packet, a bound or a program counter, so none is put off for ever.
Fairness == WF_vars(ObligedStep)

FairSpec == Spec /\ Fairness

-----------------------------------------------------------------------------
(* Safety.                                                                 *)

\* Once the client's handshake is over and both ends still run, they agree on what they
\* may do: a client that believes in duplex talks to a server that does, and the other way
\* round, whatever was repeated, late or refused on the way.  (A close() that meets the
\* handler before channelConnected aborts the handshake without ending the connection.)
HandshakeAgreement ==
    hs = "FINISHED" /\ ~closeCalled /\ IsRun(cState) /\ IsRun(sState) => cState = sState

\* The client never enters a run state on a guess: as long as it runs duplex or simplex
\* and the server runs, the server was there first.
ServerGrantsFirst ==
    cState \in {"RUN_SIMPLEX", "RUN_DUPLEX"} /\ IsRun(sState) => sState = cState

\* The server gives up a session over its state only when each of the last
\* StateCheckCapacity pings disagreed with it: the ring of bits is that window.
CheckerIsWindow ==
    CheckCondition(data) <=>
        /\ Len(recent) = StateCheckCapacity
        /\ \A i \in 1..Len(recent) : ~recent[i]

\* A closing state names the end that began it: no end believes its peer is closing
\* unless the peer's owner asked for that.
CloseHasAnAuthor ==
    /\ cState \in {"BEING_CLOSE_BY_SERVER", "CLOSED_BY_SERVER"} => released
    /\ sState \in {"BEING_CLOSE_BY_CLIENT", "CLOSED_BY_CLIENT"} => closeCalled
    /\ sState \in {"BEING_CLOSE_BY_SERVER", "CLOSED_BY_SERVER"} => released
    /\ cState \in {"BEING_CLOSE_BY_CLIENT", "CLOSED_BY_CLIENT"} => closeCalled

\* When channelClosed is over and nobody called close, the handler's state says closed
\* or failed (NONE for a first connect that failed): no other end of the story is left.
ClientEndsClosed ==
    cIo = "done" /\ ~closeCalled =>
        IsClosed(cState) \/ cState = "CONNECT_FAILED" \/ (mode = "connect" /\ cState = "NONE")

\* A close() that ran to its end, on a handler whose channel is gone, leaves the handler in
\* a closed state (PinpointClientStateTest closes handlers and asserts CLOSED_BY_CLIENT).
\* The code breaks it: close() that comes between channelClosed's read of the state and
\* its change makes the change illegal, and BEING_CLOSE_BY_CLIENT stays for ever.
ClosedHandlerIsClosed ==
    closeCalled /\ uPc = "idle" /\ cIo = "done" => IsClosed(cState)

\* A server socket whose channel is gone is in a closed state, unless the acceptor is
\* being closed at the same time.
ServerEndsClosed ==
    sIo = "done" /\ ~released => IsClosed(sState)

\* A closed state is final: no late packet, ping, close or second stop leads out of it,
\* though the table lets every closed state but ERROR_UNKNOWN turn into an error.
ClosedIsFinal ==
    [][ /\ IsClosed(cState) => cState' = cState
        /\ IsClosed(sState) => sState' = sState ]_vars

\* An agent that lost its server asks for a reconnect: when channelClosed ends for a
\* handler that was running, or was told that the server is closing, that nobody called
\* close on, of a factory not released, and that knows its PinpointClient.
LostServerIsReconnected ==
    [][ /\ cIo = "closing" /\ cIo' = "done"
        /\ IsRun(cState) \/ cState = "BEING_CLOSE_BY_SERVER"
        /\ ~closeCalled /\ ~factoryReleased /\ hasClient
        => reconnects' = 1 ]_vars

-----------------------------------------------------------------------------
(* Liveness, under FairSpec.                                               *)

\* A handshake that started ends: by the server's answer or with the connection.
HandshakeEnds == hs = "STARTED" ~> hs = "FINISHED"

\* close() on a running handler takes both ends down.
CloseTakesBothEndsDown ==
    uPc = "toBeingClose" ~> cIo = "done" /\ sIo \in {"done", "refused"}

\* A collector that stops leaves no agent connected to it.
AcceptorCloseReachesClient ==
    released /\ cChan = "connected" ~> cIo = "done"

=============================================================================
