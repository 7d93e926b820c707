---------------------------- MODULE PinpointServer ----------------------------
(***************************************************************************)
(* The collector's end of a connection: DefaultPinpointServer with its     *)
(* DefaultPinpointServerState and CyclicStateChecker, and the part of      *)
(* PinpointServerAcceptor that accepts the channel, dispatches its events  *)
(* and closes it when the collector stops.  Two threads meet here: the     *)
(* Netty worker of the channel and the thread that closes the acceptor.    *)
(***************************************************************************)
EXTENDS SocketStateCode, RpcChannel, Naturals

CONSTANTS
    HandshakeCodes,         \* what ServerMessageListener.handleHandshake may answer
    StateCheckCapacity      \* capacity of the CyclicStateChecker, 5 in the code

ASSUME HandshakeCodesAssumption ==
    HandshakeCodes \subseteq
        {"SUCCESS", "SIMPLEX_COMMUNICATION", "DUPLEX_COMMUNICATION", "PROPERTY_ERROR"}
ASSUME StateCheckCapacityAssumption == StateCheckCapacity \in 1..8

VARIABLES
    answer,         \* what the listener answers to this client's handshake data
    sState,         \* DefaultPinpointServerState.state
    sIo,            \* the worker: "opening" until channelConnected, "register" and "start"
                    \* inside it, "open", "handle" inside messageReceived, "stop" and
                    \* "stopping" inside stop, "done"; "refused" by a released acceptor
    sMsg,           \* the packet being handled
    sStop,          \* why stop runs: [serverStop, last]; last: the channel is disconnected
    sSeen,          \* the state code stop read
    properties,     \* DefaultPinpointServer.properties is set
    data,           \* CyclicStateChecker.data, a bit per slot of the ring
    index,          \* CyclicStateChecker.index
    sGroup,         \* the channel is in the acceptor's channelGroup
    released,       \* PinpointServerAcceptor.released
    aPc             \* PinpointServerAcceptor.close: "idle", "iterate", "write",
                    \* "shutdown", "done"

serverVars ==
    <<answer, sState, sIo, sMsg, sStop, sSeen, properties, data, index, sGroup, released, aPc>>

checkerVars == <<data, index>>
acceptorVars == <<sGroup, released, aPc>>

NoPacket == [type |-> "UNKNOWN"]
NoStop == [serverStop |-> FALSE, last |-> FALSE]

Slots == 0..(StateCheckCapacity - 1)

ServerTypeOK ==
    /\ answer \in HandshakeCodes
    /\ sState \in SocketStateCodes
    /\ sIo \in {"opening", "register", "start", "open", "handle", "stop", "stopping",
                "done", "refused"}
    /\ sMsg \in {NoPacket, Handshake, ClientClose} \cup {Ping(code) : code \in SocketStateCodes}
    /\ sStop \in [serverStop : BOOLEAN, last : BOOLEAN]
    /\ sSeen \in SocketStateCodes
    /\ properties \in BOOLEAN
    /\ data \in [Slots -> BOOLEAN]
    /\ index \in Slots
    /\ sGroup \in BOOLEAN
    /\ released \in BOOLEAN
    /\ aPc \in {"idle", "iterate", "write", "shutdown", "done"}

ServerInit ==
    /\ answer \in HandshakeCodes
    /\ sState = "NONE"
    /\ sIo = "opening"
    /\ sMsg = NoPacket
    /\ sStop = NoStop
    /\ sSeen = "NONE"
    /\ properties = FALSE
    /\ data = [s \in Slots |-> FALSE]
    /\ index = 0
    /\ sGroup = FALSE
    /\ released = FALSE
    /\ aPc = "idle"

-----------------------------------------------------------------------------
(* The Netty worker: PinpointServerChannelHandler.channelConnected.        *)

\* A released acceptor tells the client and closes the channel.
Accept ==
    /\ sIo = "opening"
    /\ sChan = "connected"
    /\ IF released
       THEN /\ sIo' = "refused"
            /\ ServerWrite(ServerClose)
            /\ ServerCloses
       ELSE /\ sIo' = "register"
            /\ UNCHANGED <<sChan, c2s, s2c>>
    /\ UNCHANGED <<answer, sState, sMsg, sStop, sSeen, properties, checkerVars, acceptorVars,
                   cChan, link>>

\* Otherwise the channel gets its DefaultPinpointServer and joins the group ...
Register ==
    /\ sIo = "register"
    /\ sIo' = "start"
    /\ sGroup' = TRUE
    /\ UNCHANGED <<answer, sState, sMsg, sStop, sSeen, properties, checkerVars, released, aPc,
                   channelVars>>

\* ... and only then starts.
Start ==
    /\ sIo = "start"
    /\ sIo' = "open"
    /\ sState' = To(To(sState, "CONNECTED"), "RUN_WITHOUT_HANDSHAKE")
    /\ UNCHANGED <<answer, sMsg, sStop, sSeen, properties, checkerVars, acceptorVars,
                   channelVars>>

-----------------------------------------------------------------------------
(* The Netty worker: messageReceived.                                      *)

\* Packets that find the socket not running are dropped.
MessageReceived ==
    /\ sIo = "open"
    /\ sChan = "connected"
    /\ c2s # <<>>
    /\ c2s' = Tail(c2s)
    /\ IF IsRun(sState)
       THEN sIo' = "handle" /\ sMsg' = Head(c2s)
       ELSE UNCHANGED <<sIo, sMsg>>
    /\ UNCHANGED <<answer, sState, sStop, sSeen, properties, checkerVars, acceptorVars,
                   cChan, sChan, link, s2c>>

\* createHandshakeResponse: a repeated handshake is told so, if it was accepted before.
ResponseCode(code, isFirst) ==
    CASE ~isFirst /\ code = "DUPLEX_COMMUNICATION" -> "ALREADY_DUPLEX_COMMUNICATION"
      [] ~isFirst /\ code = "SIMPLEX_COMMUNICATION" -> "ALREADY_SIMPLEX_COMMUNICATION"
      [] OTHER -> code

\* Mutant of Granted: the answer SIMPLEX_COMMUNICATION is left out.
GrantedNoSimplex(code) ==
    CASE code = "DUPLEX_COMMUNICATION" -> "RUN_DUPLEX"
      [] code = "SUCCESS" -> "RUN_SIMPLEX"
      [] OTHER -> "NONE"

\* The state the first handshake asks for.
Granted(code) ==
    CASE code = "DUPLEX_COMMUNICATION" -> "RUN_DUPLEX"
      [] code \in {"SIMPLEX_COMMUNICATION", "SUCCESS"} -> "RUN_SIMPLEX"
      [] OTHER -> "NONE"

\* handleHandshake: the first one sets the properties and the state; every one is answered.
HandleHandshake ==
    /\ sIo = "handle"
    /\ sMsg = Handshake
    /\ sIo' = "open"
    /\ sMsg' = NoPacket
    /\ properties' = TRUE
    /\ sState' = IF ~properties /\ Granted(answer) # "NONE"
                 THEN To(sState, Granted(answer)) ELSE sState
    /\ ServerWrite(HandshakeResponse(ResponseCode(answer, ~properties)))
    /\ UNCHANGED <<answer, sStop, sSeen, checkerVars, acceptorVars, cChan, sChan, link, c2s>>

\* Mutant of HandleClosePacket: the wrong end is named.
HandleClosePacketSwapped ==
    /\ sIo = "handle"
    /\ sMsg = ClientClose
    /\ sIo' = "open"
    /\ sMsg' = NoPacket
    /\ sState' = To(sState, "BEING_CLOSE_BY_SERVER")
    /\ UNCHANGED <<answer, sStop, sSeen, properties, checkerVars, acceptorVars, channelVars>>

HandleClosePacket ==
    /\ sIo = "handle"
    /\ sMsg = ClientClose
    /\ sIo' = "open"
    /\ sMsg' = NoPacket
    /\ sState' = To(sState, "BEING_CLOSE_BY_CLIENT")
    /\ UNCHANGED <<answer, sStop, sSeen, properties, checkerVars, acceptorVars, channelVars>>

\* Mutant of NextIndex: the ring has one slot too many.
NextIndexOffByOne == (index + 1) % (StateCheckCapacity + 1)

NextIndex == (index + 1) % StateCheckCapacity

\* Mutant of Unmark: a matching ping moves on, but leaves the old mark.
UnmarkKeepsMark == index' = NextIndex /\ UNCHANGED data

\* CyclicStateChecker.unmark and mark: each call moves on by one slot.
Unmark == index' = NextIndex /\ data' = [data EXCEPT ![NextIndex] = FALSE]
Mark == index' = NextIndex /\ data' = [data EXCEPT ![NextIndex] = TRUE]

\* markAndCheckCondition, after Mark: every slot is marked.
CheckCondition(bits) == \A s \in Slots : bits[s]

\* handlePingPacket: a ping with the server's own state code is answered (by a pong the
\* client ignores); one too many with another code stops the socket.
HandlePingPacket ==
    /\ sIo = "handle"
    /\ sMsg.type = "CONTROL_PING"
    /\ sMsg' = NoPacket
    /\ IF sMsg.state = sState
       THEN Unmark /\ sIo' = "open" /\ UNCHANGED <<sState, sStop>>
       ELSE /\ Mark
            /\ IF CheckCondition(data')
               THEN /\ sState' = To(sState, "ERROR_SYNC_STATE_SESSION")
                    /\ sIo' = "stop"
                    /\ sStop' = NoStop
               ELSE sIo' = "open" /\ UNCHANGED <<sState, sStop>>
    /\ UNCHANGED <<answer, sSeen, properties, acceptorVars, channelVars>>

-----------------------------------------------------------------------------
(* The Netty worker: channelDisconnected, and stop.                        *)

ChannelDisconnected ==
    /\ sIo = "open"
    /\ sChan = "closed"
    /\ sIo' = "stop"
    /\ sStop' = [serverStop |-> released, last |-> TRUE]
    /\ UNCHANGED <<answer, sState, sMsg, sSeen, properties, checkerVars, acceptorVars,
                   channelVars>>

StopRead ==
    /\ sIo = "stop"
    /\ sIo' = "stopping"
    /\ sSeen' = sState
    /\ UNCHANGED <<answer, sState, sMsg, sStop, properties, checkerVars, acceptorVars,
                   channelVars>>

\* Mutant of StopTarget: both closing states end in the server's closed state.
StopTargetOwn(code, serverStop) ==
    CASE OnClose(code) -> "CLOSED_BY_SERVER"
      [] IsRun(code) -> "UNEXPECTED_CLOSE_BY_CLIENT"
      [] OTHER -> "ERROR_UNKNOWN"

\* A socket that is closed already keeps its state.
StopTarget(code, serverStop) ==
    CASE code = "BEING_CLOSE_BY_SERVER" -> "CLOSED_BY_SERVER"
      [] code = "BEING_CLOSE_BY_CLIENT" -> "CLOSED_BY_CLIENT"
      [] IsRun(code) /\ serverStop -> "UNEXPECTED_CLOSE_BY_SERVER"
      [] IsRun(code) /\ ~serverStop -> "UNEXPECTED_CLOSE_BY_CLIENT"
      [] IsClosed(code) -> code
      [] OTHER -> "ERROR_UNKNOWN"

\* Mutant of StopApply: the second stop does not ask whether the socket is closed.
StopApplyTwice ==
    /\ sIo = "stopping"
    /\ sState' = To(sState, IF IsClosed(sSeen) THEN "ERROR_UNKNOWN"
                            ELSE StopTarget(sSeen, sStop.serverStop))
    /\ sSeen' = "NONE"
    /\ sStop' = NoStop
    /\ ServerCloses
    /\ sIo' = IF sStop.last THEN "done" ELSE "open"
    /\ sGroup' = IF sStop.last THEN FALSE ELSE sGroup
    /\ UNCHANGED <<answer, sMsg, properties, checkerVars, released, aPc, cChan, link, s2c>>

\* stop also closes the channel; a stop that a ping caused is followed by the channel's
\* own channelDisconnected, which stops again.
StopApply ==
    /\ sIo = "stopping"
    /\ sState' = IF IsClosed(sSeen) THEN sState
                 ELSE To(sState, StopTarget(sSeen, sStop.serverStop))
    /\ sSeen' = "NONE"
    /\ sStop' = NoStop
    /\ ServerCloses
    /\ sIo' = IF sStop.last THEN "done" ELSE "open"
    /\ sGroup' = IF sStop.last THEN FALSE ELSE sGroup
    /\ UNCHANGED <<answer, sMsg, properties, checkerVars, released, aPc, cChan, link, s2c>>

-----------------------------------------------------------------------------
(* The thread that closes the acceptor: PinpointServerAcceptor.close.      *)

AcceptorClose ==
    /\ ~released
    /\ released' = TRUE
    /\ aPc' = "iterate"
    /\ UNCHANGED <<answer, sState, sIo, sMsg, sStop, sSeen, properties, checkerVars, sGroup,
                   channelVars>>

\* closePinpointServer, sendClosePacket: the packet is written only if the change was
\* accepted.
AcceptorSendClose ==
    /\ aPc = "iterate"
    /\ IF sGroup /\ CanChangeState(sState, "BEING_CLOSE_BY_SERVER")
       THEN sState' = "BEING_CLOSE_BY_SERVER" /\ aPc' = "write"
       ELSE aPc' = "shutdown" /\ UNCHANGED sState
    /\ UNCHANGED <<answer, sIo, sMsg, sStop, sSeen, properties, checkerVars, sGroup, released,
                   channelVars>>

AcceptorWriteClose ==
    /\ aPc = "write"
    /\ aPc' = "shutdown"
    /\ ServerWrite(ServerClose)
    /\ UNCHANGED <<answer, sState, sIo, sMsg, sStop, sSeen, properties, checkerVars, sGroup,
                   released, cChan, sChan, link, c2s>>

\* Mutant of AcceptorShutdown: the channels that are still open are not closed.
AcceptorShutdownLeaves ==
    /\ aPc = "shutdown"
    /\ aPc' = "done"
    /\ UNCHANGED <<answer, sState, sIo, sMsg, sStop, sSeen, properties, checkerVars, sGroup,
                   released, channelVars>>

\* releaseExternalResources closes what is still open, between two events of its worker.
AcceptorShutdown ==
    /\ aPc = "shutdown"
    /\ sIo \in {"open", "done", "refused"} \/ sChan = "none"
    /\ aPc' = "done"
    /\ IF sChan = "connected" THEN ServerCloses ELSE UNCHANGED <<sChan, c2s>>
    /\ UNCHANGED <<answer, sState, sIo, sMsg, sStop, sSeen, properties, checkerVars, sGroup,
                   released, cChan, link, s2c>>

=============================================================================
