------------------------ MODULE PinpointConnection_types ------------------------
(***************************************************************************)
(* Type correctness of PinpointConnection, for every set of handshake      *)
(* codes, every capacity of the state checker and every bound.  The other  *)
(* proofs about the connection start from it.                              *)
(***************************************************************************)
EXTENDS PinpointConnection, SequenceTheorems, TLAPS

(***************************************************************************)
(* The operators the actions are built from.                               *)
(***************************************************************************)

\* A guarded change leads to a code (SocketState.to).
LEMMA ToType ==
    ASSUME NEW code \in SocketStateCodes, NEW next \in SocketStateCodes
    PROVE  To(code, next) \in SocketStateCodes
BY DEF To

\* Writing a packet of the client leaves the client's queue well typed.
LEMMA ClientWriteType ==
    ASSUME NEW packet \in ClientPackets, c2s \in Seq(ClientPackets),
           ClientWrite(packet)
    PROVE  c2s' \in Seq(ClientPackets)
BY AppendProperties DEF ClientWrite

\* Writing a packet of the server leaves the server's queue well typed.
LEMMA ServerWriteType ==
    ASSUME NEW packet \in ServerPackets, s2c \in Seq(ServerPackets),
           ServerWrite(packet)
    PROVE  s2c' \in Seq(ServerPackets)
BY AppendProperties DEF ServerWrite

\* A queue without its first packet.
LEMMA TailType ==
    ASSUME NEW S, NEW q \in Seq(S), q # <<>>
    PROVE  Head(q) \in S /\ Tail(q) \in Seq(S)
BY HeadTailProperties

\* An empty queue.
LEMMA EmptyType == ASSUME NEW S PROVE <<>> \in Seq(S)
BY EmptySeq

\* An answer of the listener becomes a packet of the server.
LEMMA ResponseType ==
    ASSUME NEW code \in HandshakeCodes, NEW first \in BOOLEAN
    PROVE  HandshakeResponse(ResponseCode(code, first)) \in ServerPackets
BY DEF ServerPackets

\* The history keeps its type.
LEMMA RememberType ==
    ASSUME recent \in Seq(BOOLEAN), NEW matched \in BOOLEAN, Remember(matched)
    PROVE  recent' \in Seq(BOOLEAN)
<1>1. Len(recent) = StateCheckCapacity => recent # <<>>
  BY StateCheckCapacityAssumption
<1>2. (IF Len(recent) = StateCheckCapacity THEN Tail(recent) ELSE recent) \in Seq(BOOLEAN)
  BY <1>1, TailType
<1>. QED  BY <1>2, AppendProperties DEF Remember

(***************************************************************************)
(* What the frame conditions of the composition keep.                      *)
(***************************************************************************)

\* TypeOK alone is not inductive: a counter that is about to move must have room.
RoomInv ==
    /\ tPc = "handshake" => hs # "INIT" /\ hsSent < HandshakeBound
    /\ tPc = "ping" => pings < PingBound
    /\ cIo # "done" => reconnects = 0

\* A step of the client need only be checked on the client and the channel.
LEMMA ClientFrame ==
    ASSUME TypeOK, ClientMoves, ClientTypeOK', ChannelTypeOK'
    PROVE  TypeOK'
BY DEF TypeOK, ClientMoves, ServerTypeOK, serverVars

\* A step of the server need only be checked on the server and the channel.
LEMMA ServerFrame ==
    ASSUME TypeOK, ServerMoves, ServerTypeOK', ChannelTypeOK'
    PROVE  TypeOK'
BY DEF TypeOK, ServerMoves, ClientTypeOK, clientVars

\* A step of the network need only be checked on the channel.
LEMMA ChannelFrame ==
    ASSUME TypeOK, ChannelMoves, ChannelTypeOK'
    PROVE  TypeOK'
BY DEF TypeOK, ChannelMoves, ClientTypeOK, ServerTypeOK, clientVars, serverVars

(***************************************************************************)
(* Each step keeps the types: one lemma per actor, one step per action.    *)
(***************************************************************************)

\* The steps of the thread that opens the connection.
LEMMA OpenerTyped == TypeOK /\ RoomInv /\ OpenerStep => TypeOK'
<1>. SUFFICES ASSUME TypeOK, RoomInv, OpenerStep PROVE TypeOK'
  OBVIOUS
<1>1. CASE Connect /\ ClientMoves
  <2>1. ClientTypeOK'
    BY <1>1 DEF TypeOK, ClientTypeOK, Connect, lifeVars, timerVars, closeVars
  <2>2. ChannelTypeOK'
    BY <1>1 DEF TypeOK, ChannelTypeOK, Connect, channelVars
  <2>. QED  BY <1>1, <2>1, <2>2, ClientFrame
<1>2. CASE SetPinpointClient /\ ClientMoves
  <2>1. ClientTypeOK'
    BY <1>2 DEF TypeOK, ClientTypeOK, SetPinpointClient, lifeVars, timerVars, closeVars
  <2>2. ChannelTypeOK'
    BY <1>2 DEF TypeOK, ChannelTypeOK, SetPinpointClient, channelVars
  <2>. QED  BY <1>2, <2>1, <2>2, ClientFrame
<1>3. CASE ConnectSucceeded /\ ClientMoves
  <2>1. ClientTypeOK'
    BY <1>3 DEF TypeOK, ClientTypeOK, ConnectSucceeded, lifeVars, timerVars, closeVars
  <2>2. ChannelTypeOK'
    BY <1>3 DEF TypeOK, ChannelTypeOK, ConnectSucceeded, channelVars
  <2>. QED  BY <1>3, <2>1, <2>2, ClientFrame
<1>. QED  BY <1>1, <1>2, <1>3 DEF OpenerStep

\* The steps of the client's Netty worker.
LEMMA ClientWorkerTyped == TypeOK /\ RoomInv /\ ClientWorkerStep => TypeOK'
<1>. SUFFICES ASSUME TypeOK, RoomInv, ClientWorkerStep PROVE TypeOK'
  OBVIOUS
<1>1. CASE ToConnected /\ ClientMoves
  <2>1. cState' \in SocketStateCodes
    BY <1>1
    DEF TypeOK, ClientTypeOK, ToConnected, To, SocketStateCodes, RunCodes,
        ClosingCodes, ClosedCodes, ErrorCodes
  <2>2. ClientTypeOK'
    BY <1>1, <2>1 DEF TypeOK, ClientTypeOK, ToConnected, lifeVars, timerVars, closeVars
  <2>3. ChannelTypeOK'
    BY <1>1 DEF TypeOK, ChannelTypeOK, ToConnected, channelVars
  <2>. QED  BY <1>1, <2>2, <2>3, ClientFrame
<1>2. CASE ToRunWithoutHandshake /\ ClientMoves
  <2>1. cState' \in SocketStateCodes
    BY <1>2
    DEF TypeOK, ClientTypeOK, ToRunWithoutHandshake, To, SocketStateCodes, RunCodes,
        ClosingCodes, ClosedCodes, ErrorCodes
  <2>2. hs' \in {"INIT", "STARTED", "FINISHED"} /\ hsSent' \in 0..HandshakeBound
    BY <1>2, ClientBounds, SMT
    DEF TypeOK, ClientTypeOK, ToRunWithoutHandshake, HandshakeStart, ClientWrite
  <2>3. /\ hsJob' \in BOOLEAN /\ pingTask' \in BOOLEAN
        /\ connectFuture' \in {"null", "SUCCESS", "FAIL"}
    BY <1>2 DEF TypeOK, ClientTypeOK, ToRunWithoutHandshake, HandshakeStart, ClientWrite
  <2>4. c2s' \in Seq(ClientPackets)
    BY <1>2, ClientWriteType
    DEF TypeOK, ChannelTypeOK, ToRunWithoutHandshake, HandshakeStart, ClientPackets
  <2>5. ClientTypeOK'
    BY <1>2, <2>1, <2>2, <2>3
    DEF TypeOK, ClientTypeOK, ToRunWithoutHandshake, lifeVars, timerVars, closeVars
  <2>6. ChannelTypeOK'
    BY <1>2, <2>4 DEF TypeOK, ChannelTypeOK, ToRunWithoutHandshake, channelVars
  <2>. QED  BY <1>2, <2>5, <2>6, ClientFrame
<1>3. CASE ReceiveServerClose /\ ClientMoves
  <2>1. cState' \in SocketStateCodes
    BY <1>3
    DEF TypeOK, ClientTypeOK, ReceiveServerClose, To, SocketStateCodes, RunCodes,
        ClosingCodes, ClosedCodes, ErrorCodes
  <2>2. s2c' \in Seq(ServerPackets)
    BY <1>3, TailType DEF TypeOK, ChannelTypeOK, ReceiveServerClose
  <2>3. ClientTypeOK'
    BY <1>3, <2>1
    DEF TypeOK, ClientTypeOK, ReceiveServerClose, lifeVars, timerVars, closeVars
  <2>4. ChannelTypeOK'
    BY <1>3, <2>2
    DEF TypeOK, ChannelTypeOK, ReceiveServerClose, channelVars, ClientCloses
  <2>. QED  BY <1>3, <2>3, <2>4, ClientFrame
<1>4. CASE ReceiveHandshakeResponse /\ ClientMoves
  <2>1. cState' \in SocketStateCodes
    BY <1>4
    DEF TypeOK, ClientTypeOK, ReceiveHandshakeResponse, RunStateOf, To,
        SocketStateCodes, RunCodes, ClosingCodes, ClosedCodes, ErrorCodes
  <2>2. s2c' \in Seq(ServerPackets)
    BY <1>4, TailType DEF TypeOK, ChannelTypeOK, ReceiveHandshakeResponse
  <2>3. ClientTypeOK'
    BY <1>4, <2>1
    DEF TypeOK, ClientTypeOK, ReceiveHandshakeResponse, lifeVars, timerVars, closeVars
  <2>4. ChannelTypeOK'
    BY <1>4, <2>2 DEF TypeOK, ChannelTypeOK, ReceiveHandshakeResponse, channelVars
  <2>. QED  BY <1>4, <2>3, <2>4, ClientFrame
<1>5. CASE ChannelClosed /\ ClientMoves
  <2>1. ClientTypeOK'
    BY <1>5 DEF TypeOK, ClientTypeOK, ChannelClosed, lifeVars, timerVars, closeVars
  <2>2. ChannelTypeOK'
    BY <1>5 DEF TypeOK, ChannelTypeOK, ChannelClosed, channelVars
  <2>. QED  BY <1>5, <2>1, <2>2, ClientFrame
<1>6. CASE FinishChannelClosed /\ ClientMoves
  <2>1. ClosedTarget(cSeen) \in SocketStateCodes
    BY DEF ClosedTarget, SocketStateCodes, RunCodes, ClosingCodes, ClosedCodes, ErrorCodes
  <2>2. cState' \in SocketStateCodes
    BY <1>6, <2>1, ToType DEF TypeOK, ClientTypeOK, FinishChannelClosed
  <2>3. reconnects' \in 0..1
    BY <1>6 DEF TypeOK, ClientTypeOK, RoomInv, FinishChannelClosed
  <2>4. ClientTypeOK'
    BY <1>6, <2>1, <2>2, <2>3
    DEF TypeOK, ClientTypeOK, FinishChannelClosed, lifeVars, timerVars, closeVars
  <2>5. ChannelTypeOK'
    BY <1>6 DEF TypeOK, ChannelTypeOK, FinishChannelClosed, channelVars
  <2>. QED  BY <1>6, <2>4, <2>5, ClientFrame
<1>. QED  BY <1>1, <1>2, <1>3, <1>4, <1>5, <1>6 DEF ClientWorkerStep

\* The steps of the client handler's timer.
LEMMA ClientTimerTyped == TypeOK /\ RoomInv /\ ClientTimerStep => TypeOK'
<1>. SUFFICES ASSUME TypeOK, RoomInv, ClientTimerStep PROVE TypeOK'
  OBVIOUS
<1>1. CASE HandshakeJobRead /\ ClientMoves
  <2>1. hsJob' = FALSE /\ tPc' \in {"idle", "handshake"}
    BY <1>1 DEF HandshakeJobRead
  <2>2. UNCHANGED <<lifeVars, cState, cIo, cSeen, hs, hsSent, pingTask, pings, tPing, cTimer,
                   connectFuture, closeVars, reconnects>>
    BY <1>1 DEF HandshakeJobRead
  <2>3. ClientTypeOK'
    BY <1>1, <2>1, <2>2
    DEF TypeOK, ClientTypeOK, HandshakeJobRead, lifeVars, timerVars, closeVars
  <2>4. ChannelTypeOK'
    BY <1>1 DEF TypeOK, ChannelTypeOK, HandshakeJobRead, channelVars
  <2>. QED  BY <1>1, <2>3, <2>4, ClientFrame
<1>2. CASE HandshakeJobWrite /\ ClientMoves
  <2>1. c2s' \in Seq(ClientPackets)
    BY <1>2, ClientWriteType DEF TypeOK, ChannelTypeOK, HandshakeJobWrite, ClientPackets
  <2>2. hsSent' \in 0..HandshakeBound
    BY <1>2, ClientBounds DEF TypeOK, ClientTypeOK, RoomInv, HandshakeJobWrite
  <2>3. ClientTypeOK'
    BY <1>2, <2>2
    DEF TypeOK, ClientTypeOK, HandshakeJobWrite, lifeVars, timerVars, closeVars
  <2>4. ChannelTypeOK'
    BY <1>2, <2>1 DEF TypeOK, ChannelTypeOK, HandshakeJobWrite, channelVars
  <2>. QED  BY <1>2, <2>3, <2>4, ClientFrame
<1>3. CASE PingCheck /\ ClientMoves
  <2>1. ClientTypeOK'
    BY <1>3 DEF TypeOK, ClientTypeOK, PingCheck, lifeVars, timerVars, closeVars
  <2>2. ChannelTypeOK'
    BY <1>3 DEF TypeOK, ChannelTypeOK, PingCheck, channelVars
  <2>. QED  BY <1>3, <2>1, <2>2, ClientFrame
<1>4. CASE PingRead /\ ClientMoves
  <2>1. pings' \in 0..PingBound
    BY <1>4, ClientBounds DEF TypeOK, ClientTypeOK, RoomInv, PingRead
  <2>2. ClientTypeOK'
    BY <1>4, <2>1 DEF TypeOK, ClientTypeOK, PingRead, lifeVars, timerVars, closeVars
  <2>3. ChannelTypeOK'
    BY <1>4 DEF TypeOK, ChannelTypeOK, PingRead, channelVars
  <2>. QED  BY <1>4, <2>2, <2>3, ClientFrame
<1>5. CASE PingWrite /\ ClientMoves
  <2>1. Ping(tPing) \in ClientPackets
    BY DEF TypeOK, ClientTypeOK, ClientPackets
  <2>2. c2s' \in Seq(ClientPackets)
    BY <1>5, <2>1, ClientWriteType DEF TypeOK, ChannelTypeOK, PingWrite
  <2>3. ClientTypeOK'
    BY <1>5
    DEF TypeOK, ClientTypeOK, PingWrite, lifeVars, timerVars, closeVars,
        SocketStateCodes
  <2>4. ChannelTypeOK'
    BY <1>5, <2>1, <2>2 DEF TypeOK, ChannelTypeOK, PingWrite, channelVars
  <2>. QED  BY <1>5, <2>3, <2>4, ClientFrame
<1>. QED  BY <1>1, <1>2, <1>3, <1>4, <1>5 DEF ClientTimerStep

\* The steps of the thread that closes the client.
LEMMA ClosingTyped == TypeOK /\ RoomInv /\ ClosingStep => TypeOK'
<1>. SUFFICES ASSUME TypeOK, RoomInv, ClosingStep PROVE TypeOK'
  OBVIOUS
<1>1. CASE CloseToBeingClose /\ ClientMoves
  <2>1. cState' \in SocketStateCodes
    BY <1>1
    DEF TypeOK, ClientTypeOK, CloseToBeingClose, To, SocketStateCodes, RunCodes,
        ClosingCodes, ClosedCodes, ErrorCodes
  <2>2. ClientTypeOK'
    BY <1>1, <2>1
    DEF TypeOK, ClientTypeOK, CloseToBeingClose, lifeVars, timerVars, closeVars
  <2>3. ChannelTypeOK'
    BY <1>1 DEF TypeOK, ChannelTypeOK, CloseToBeingClose, channelVars
  <2>. QED  BY <1>1, <2>2, <2>3, ClientFrame
<1>2. CASE SendClosedPacket /\ ClientMoves
  <2>1. c2s' \in Seq(ClientPackets)
    BY <1>2, ClientWriteType DEF TypeOK, ChannelTypeOK, SendClosedPacket, ClientPackets
  <2>2. ClientTypeOK'
    BY <1>2 DEF TypeOK, ClientTypeOK, SendClosedPacket, lifeVars, timerVars, closeVars
  <2>3. ChannelTypeOK'
    BY <1>2, <2>1 DEF TypeOK, ChannelTypeOK, SendClosedPacket, channelVars, ClientCloses
  <2>. QED  BY <1>2, <2>2, <2>3, ClientFrame
<1>3. CASE CloseChannel /\ ClientMoves
  <2>1. s2c' \in Seq(ServerPackets)
    BY <1>3, EmptyType DEF CloseChannel, ClientCloses
  <2>2. ClientTypeOK'
    BY <1>3
    DEF TypeOK, ClientTypeOK, CloseChannel, lifeVars, timerVars, closeVars,
        ClientCloses
  <2>3. ChannelTypeOK'
    BY <1>3, <2>1 DEF TypeOK, ChannelTypeOK, CloseChannel, channelVars, ClientCloses
  <2>. QED  BY <1>3, <2>2, <2>3, ClientFrame
<1>4. CASE CloseToClosed /\ ClientMoves
  <2>1. cState' \in SocketStateCodes
    BY <1>4
    DEF TypeOK, ClientTypeOK, CloseToClosed, To, SocketStateCodes, RunCodes,
        ClosingCodes, ClosedCodes, ErrorCodes
  <2>2. ClientTypeOK'
    BY <1>4, <2>1
    DEF TypeOK, ClientTypeOK, CloseToClosed, lifeVars, timerVars, closeVars
  <2>3. ChannelTypeOK'
    BY <1>4 DEF TypeOK, ChannelTypeOK, CloseToClosed, channelVars
  <2>. QED  BY <1>4, <2>2, <2>3, ClientFrame
<1>5. CASE HandshakeAbort /\ ClientMoves
  <2>1. ClientTypeOK'
    BY <1>5 DEF TypeOK, ClientTypeOK, HandshakeAbort, lifeVars, timerVars, closeVars
  <2>2. ChannelTypeOK'
    BY <1>5 DEF TypeOK, ChannelTypeOK, HandshakeAbort, channelVars
  <2>. QED  BY <1>5, <2>1, <2>2, ClientFrame
<1>6. CASE StopTimer /\ ClientMoves
  <2>1. ClientTypeOK'
    BY <1>6 DEF TypeOK, ClientTypeOK, StopTimer, lifeVars, timerVars, closeVars
  <2>2. ChannelTypeOK'
    BY <1>6 DEF TypeOK, ChannelTypeOK, StopTimer, channelVars
  <2>. QED  BY <1>6, <2>1, <2>2, ClientFrame
<1>. QED  BY <1>1, <1>2, <1>3, <1>4, <1>5, <1>6 DEF ClosingStep

\* The steps of the server's Netty worker.
LEMMA ServerWorkerTyped == TypeOK /\ RoomInv /\ ServerWorkerStep => TypeOK'
<1>. SUFFICES ASSUME TypeOK, RoomInv, ServerWorkerStep PROVE TypeOK'
  OBVIOUS
<1>1. CASE Accept /\ ServerMoves
  <2>1. c2s' \in Seq(ClientPackets)
    BY <1>1, EmptyType DEF TypeOK, ChannelTypeOK, Accept, ServerCloses
  <2>2. s2c' \in Seq(ServerPackets)
    BY <1>1, ServerWriteType DEF TypeOK, ChannelTypeOK, Accept, ServerPackets
  <2>3. sChan' \in {"none", "connected", "closed"}
    BY <1>1 DEF TypeOK, ChannelTypeOK, Accept, ServerCloses
  <2>4. sIo' \in {"register", "refused"}
    BY <1>1 DEF Accept
  <2>5. ServerTypeOK'
    BY <1>1, <2>4 DEF TypeOK, ServerTypeOK, Accept, checkerVars, acceptorVars
  <2>6. ChannelTypeOK'
    BY <1>1, <2>1, <2>2, <2>3 DEF TypeOK, ChannelTypeOK, Accept, channelVars
  <2>. QED  BY <1>1, <2>5, <2>6, ServerFrame
<1>2. CASE Register /\ ServerMoves
  <2>1. ServerTypeOK'
    BY <1>2 DEF TypeOK, ServerTypeOK, Register, checkerVars, acceptorVars
  <2>2. ChannelTypeOK'
    BY <1>2 DEF TypeOK, ChannelTypeOK, Register, channelVars
  <2>. QED  BY <1>2, <2>1, <2>2, ServerFrame
<1>3. CASE Start /\ ServerMoves
  <2>1. sState' \in SocketStateCodes
    BY <1>3, ToType
    DEF TypeOK, ServerTypeOK, Start, SocketStateCodes, RunCodes, ClosingCodes,
        ClosedCodes, ErrorCodes
  <2>2. ServerTypeOK'
    BY <1>3, <2>1 DEF TypeOK, ServerTypeOK, Start, checkerVars, acceptorVars
  <2>3. ChannelTypeOK'
    BY <1>3 DEF TypeOK, ChannelTypeOK, Start, channelVars
  <2>. QED  BY <1>3, <2>2, <2>3, ServerFrame
<1>4. CASE MessageReceived /\ ServerMoves
  <2>1. Head(c2s) \in ClientPackets /\ c2s' \in Seq(ClientPackets)
    BY <1>4, TailType DEF TypeOK, ChannelTypeOK, MessageReceived
  <2>2. sMsg' \in {NoPacket} \cup ClientPackets /\ sIo' \in {"open", "handle"}
    BY <1>4, <2>1 DEF TypeOK, ServerTypeOK, MessageReceived, ClientPackets
  <2>3. ServerTypeOK'
    BY <1>4, <2>2
    DEF TypeOK, ServerTypeOK, MessageReceived, checkerVars, acceptorVars,
        ClientPackets
  <2>4. ChannelTypeOK'
    BY <1>4, <2>1 DEF TypeOK, ChannelTypeOK, MessageReceived, channelVars
  <2>. QED  BY <1>4, <2>3, <2>4, ServerFrame
<1>5. CASE HandleHandshake /\ ServerMoves
  <2>1. sState' \in SocketStateCodes
    BY <1>5
    DEF TypeOK, ServerTypeOK, HandleHandshake, Granted, To, SocketStateCodes,
        RunCodes, ClosingCodes, ClosedCodes, ErrorCodes
  <2>2. answer \in HandshakeCodes /\ (~properties) \in BOOLEAN
    BY DEF TypeOK, ServerTypeOK
  <2>3. HandshakeResponse(ResponseCode(answer, ~properties)) \in ServerPackets
    BY <2>2, ResponseType
  <2>4. s2c' \in Seq(ServerPackets)
    BY <1>5, <2>3, ServerWriteType DEF TypeOK, ChannelTypeOK, HandleHandshake
  <2>5. ServerTypeOK'
    BY <1>5, <2>1 DEF TypeOK, ServerTypeOK, HandleHandshake, checkerVars, acceptorVars
  <2>6. ChannelTypeOK'
    BY <1>5, <2>2, <2>3, <2>4 DEF TypeOK, ChannelTypeOK, HandleHandshake, channelVars
  <2>. QED  BY <1>5, <2>5, <2>6, ServerFrame
<1>6. CASE HandleClosePacket /\ ServerMoves
  <2>1. sState' \in SocketStateCodes
    BY <1>6
    DEF TypeOK, ServerTypeOK, HandleClosePacket, To, SocketStateCodes, RunCodes,
        ClosingCodes, ClosedCodes, ErrorCodes
  <2>2. ServerTypeOK'
    BY <1>6, <2>1 DEF TypeOK, ServerTypeOK, HandleClosePacket, checkerVars, acceptorVars
  <2>3. ChannelTypeOK'
    BY <1>6 DEF TypeOK, ChannelTypeOK, HandleClosePacket, channelVars
  <2>. QED  BY <1>6, <2>2, <2>3, ServerFrame
<1>7. CASE HandlePingPacket /\ Remember(sMsg.state = sState) /\ UNCHANGED clientVars
  <2>1. sState' \in SocketStateCodes
    BY <1>7
    DEF TypeOK, ServerTypeOK, HandlePingPacket, To, SocketStateCodes, RunCodes,
        ClosingCodes, ClosedCodes, ErrorCodes
  <2>2. NextIndex \in Slots
    BY StateCheckCapacityAssumption DEF TypeOK, ServerTypeOK, NextIndex, Slots
  <2>3. data' \in [Slots -> BOOLEAN] /\ index' \in Slots
    BY <1>7, <2>2 DEF TypeOK, ServerTypeOK, HandlePingPacket, Mark, Unmark
  <2>4. sIo' \in {"open", "stop"} /\ sStop' \in {sStop, NoStop}
    BY <1>7 DEF HandlePingPacket, Mark, Unmark
  <2>5. sMsg' = NoPacket /\ UNCHANGED <<answer, sSeen, properties, acceptorVars>>
    BY <1>7 DEF HandlePingPacket
  <2>6. sStop' \in [serverStop : BOOLEAN, last : BOOLEAN]
    <3>1. NoStop \in [serverStop : BOOLEAN, last : BOOLEAN]
      BY DEF NoStop
    <3>2. sStop \in [serverStop : BOOLEAN, last : BOOLEAN]
      BY DEF TypeOK, ServerTypeOK
    <3>. QED  BY <2>4, <3>1, <3>2
  <2>7. aPc' = aPc /\ sGroup' = sGroup /\ released' = released
    BY <2>5 DEF acceptorVars
  <2>8. ServerTypeOK'
    BY <2>1, <2>3, <2>4, <2>5, <2>6, <2>7 DEF TypeOK, ServerTypeOK
  <2>9. ChannelTypeOK'
    BY <1>7 DEF TypeOK, ChannelTypeOK, HandlePingPacket, channelVars
  <2>10. recent' \in Seq(BOOLEAN)
    BY <1>7, RememberType DEF TypeOK
  <2>11. ClientTypeOK'
    BY <1>7 DEF TypeOK, ClientTypeOK, clientVars
  <2>. QED  BY <2>8, <2>9, <2>10, <2>11 DEF TypeOK
<1>8. CASE ChannelDisconnected /\ ServerMoves
  <2>1. ServerTypeOK'
    BY <1>8 DEF TypeOK, ServerTypeOK, ChannelDisconnected, checkerVars, acceptorVars
  <2>2. ChannelTypeOK'
    BY <1>8 DEF TypeOK, ChannelTypeOK, ChannelDisconnected, channelVars
  <2>. QED  BY <1>8, <2>1, <2>2, ServerFrame
<1>9. CASE StopRead /\ ServerMoves
  <2>1. ServerTypeOK'
    BY <1>9 DEF TypeOK, ServerTypeOK, StopRead, checkerVars, acceptorVars
  <2>2. ChannelTypeOK'
    BY <1>9 DEF TypeOK, ChannelTypeOK, StopRead, channelVars
  <2>. QED  BY <1>9, <2>1, <2>2, ServerFrame
<1>10. CASE StopApply /\ ServerMoves
  <2>1. StopTarget(sSeen, sStop.serverStop) \in SocketStateCodes
    BY DEF TypeOK, ServerTypeOK, StopTarget, SocketStateCodes, RunCodes, ClosingCodes,
           ClosedCodes, ErrorCodes
  <2>2. sState' \in SocketStateCodes
    BY <1>10, <2>1, ToType DEF TypeOK, ServerTypeOK, StopApply
  <2>3. c2s' \in Seq(ClientPackets)
    BY <1>10, EmptyType DEF StopApply, ServerCloses
  <2>4. ServerTypeOK'
    BY <1>10, <2>1, <2>2
    DEF TypeOK, ServerTypeOK, StopApply, checkerVars, acceptorVars, NoStop,
        SocketStateCodes
  <2>5. ChannelTypeOK'
    BY <1>10, <2>3 DEF TypeOK, ChannelTypeOK, StopApply, channelVars, ServerCloses
  <2>. QED  BY <1>10, <2>4, <2>5, ServerFrame
<1>. QED  BY <1>1, <1>2, <1>3, <1>4, <1>5, <1>6, <1>7, <1>8, <1>9, <1>10 DEF ServerWorkerStep

\* The steps of the thread that closes the acceptor.
LEMMA AcceptorTyped == TypeOK /\ RoomInv /\ AcceptorStep => TypeOK'
<1>. SUFFICES ASSUME TypeOK, RoomInv, AcceptorStep PROVE TypeOK'
  OBVIOUS
<1>1. CASE AcceptorSendClose /\ ServerMoves
  <2>1. sState' \in SocketStateCodes
    BY <1>1
    DEF TypeOK, ServerTypeOK, AcceptorSendClose, To, SocketStateCodes, RunCodes,
        ClosingCodes, ClosedCodes, ErrorCodes
  <2>2. ServerTypeOK'
    BY <1>1, <2>1 DEF TypeOK, ServerTypeOK, AcceptorSendClose, checkerVars, acceptorVars
  <2>3. ChannelTypeOK'
    BY <1>1 DEF TypeOK, ChannelTypeOK, AcceptorSendClose, channelVars
  <2>. QED  BY <1>1, <2>2, <2>3, ServerFrame
<1>2. CASE AcceptorWriteClose /\ ServerMoves
  <2>1. s2c' \in Seq(ServerPackets)
    BY <1>2, ServerWriteType
    DEF TypeOK, ChannelTypeOK, AcceptorWriteClose, ServerPackets
  <2>2. ServerTypeOK'
    BY <1>2 DEF TypeOK, ServerTypeOK, AcceptorWriteClose, checkerVars, acceptorVars
  <2>3. ChannelTypeOK'
    BY <1>2, <2>1 DEF TypeOK, ChannelTypeOK, AcceptorWriteClose, channelVars
  <2>. QED  BY <1>2, <2>2, <2>3, ServerFrame
<1>3. CASE AcceptorShutdown /\ ServerMoves
  <2>1. c2s' \in Seq(ClientPackets)
    BY <1>3, EmptyType DEF TypeOK, ChannelTypeOK, AcceptorShutdown, ServerCloses
  <2>2. ServerTypeOK'
    BY <1>3 DEF TypeOK, ServerTypeOK, AcceptorShutdown, checkerVars, acceptorVars
  <2>3. ChannelTypeOK'
    BY <1>3, <2>1 DEF TypeOK, ChannelTypeOK, AcceptorShutdown, channelVars, ServerCloses
  <2>. QED  BY <1>3, <2>2, <2>3, ServerFrame
<1>. QED  BY <1>1, <1>2, <1>3 DEF AcceptorStep

\* The steps of whoever closes, releases or breaks something.
LEMMA OptionalTyped == TypeOK /\ RoomInv /\ OptionalStep => TypeOK'
<1>. SUFFICES ASSUME TypeOK, RoomInv, OptionalStep PROVE TypeOK'
  OBVIOUS
<1>1. CASE CloseRead /\ ClientMoves
  <2>1. ClientTypeOK'
    BY <1>1 DEF TypeOK, ClientTypeOK, CloseRead, lifeVars, timerVars, closeVars
  <2>2. ChannelTypeOK'
    BY <1>1 DEF TypeOK, ChannelTypeOK, CloseRead, channelVars
  <2>. QED  BY <1>1, <2>1, <2>2, ClientFrame
<1>2. CASE Release /\ ClientMoves
  <2>1. ClientTypeOK'
    BY <1>2 DEF TypeOK, ClientTypeOK, Release, lifeVars, timerVars, closeVars
  <2>2. ChannelTypeOK'
    BY <1>2 DEF TypeOK, ChannelTypeOK, Release, channelVars
  <2>. QED  BY <1>2, <2>1, <2>2, ClientFrame
<1>3. CASE ReleaseChannel /\ ClientMoves
  <2>1. s2c' \in Seq(ServerPackets)
    BY <1>3, EmptyType DEF ReleaseChannel, ClientCloses
  <2>2. ClientTypeOK'
    BY <1>3
    DEF TypeOK, ClientTypeOK, ReleaseChannel, lifeVars, timerVars, closeVars,
        ClientCloses, clientVars
  <2>3. ChannelTypeOK'
    BY <1>3, <2>1 DEF TypeOK, ChannelTypeOK, ReleaseChannel, channelVars, ClientCloses
  <2>. QED  BY <1>3, <2>2, <2>3, ClientFrame
<1>4. CASE AcceptorClose /\ ServerMoves
  <2>1. ServerTypeOK'
    BY <1>4 DEF TypeOK, ServerTypeOK, AcceptorClose, checkerVars, acceptorVars
  <2>2. ChannelTypeOK'
    BY <1>4 DEF TypeOK, ChannelTypeOK, AcceptorClose, channelVars
  <2>. QED  BY <1>4, <2>1, <2>2, ServerFrame
<1>5. CASE LinkBreaks /\ ChannelMoves
  BY <1>5, ChannelFrame DEF TypeOK, ChannelTypeOK, LinkBreaks
<1>. QED  BY <1>1, <1>2, <1>3, <1>4, <1>5 DEF OptionalStep

\* The steps of the network.
LEMMA NetworkTyped == TypeOK /\ RoomInv /\ NetworkStep => TypeOK'
<1>. SUFFICES ASSUME TypeOK, RoomInv, NetworkStep PROVE TypeOK'
  OBVIOUS
<1>1. CASE Establish /\ aPc # "done" /\ ChannelMoves
  BY <1>1, ChannelFrame DEF TypeOK, ChannelTypeOK, Establish
<1>2. CASE ConnectFails /\ ChannelMoves
  <2>1. ChannelTypeOK'
    BY <1>2, EmptyType DEF TypeOK, ChannelTypeOK, ConnectFails, ClientCloses
  <2>. QED  BY <1>2, <2>1, ChannelFrame
<1>3. CASE ClientSeesPeerClosed /\ cIo = "open" /\ ChannelMoves
  <2>1. ChannelTypeOK'
    BY <1>3, EmptyType DEF TypeOK, ChannelTypeOK, ClientSeesPeerClosed, ClientCloses
  <2>. QED  BY <1>3, <2>1, ChannelFrame
<1>4. CASE ServerSeesPeerClosed /\ sIo = "open" /\ ChannelMoves
  <2>1. ChannelTypeOK'
    BY <1>4, EmptyType DEF TypeOK, ChannelTypeOK, ServerSeesPeerClosed, ServerCloses
  <2>. QED  BY <1>4, <2>1, ChannelFrame
<1>. QED  BY <1>1, <1>2, <1>3, <1>4 DEF NetworkStep

(***************************************************************************)
(* The theorem.                                                            *)
(***************************************************************************)

\* The initial states are well typed.
LEMMA InitTyped == Init => TypeOK
<1>. SUFFICES ASSUME Init PROVE TypeOK
  OBVIOUS
<1>1. ChannelTypeOK
  BY EmptyType DEF Init, ChannelInit, ChannelTypeOK
<1>2. ClientTypeOK
  <2>1. cState \in SocketStateCodes /\ tPing \in SocketStateCodes
    BY DEF Init, ClientInit, SocketStateCodes
  <2>2. cSeen \in [state : SocketStateCodes, released : BOOLEAN]
    BY DEF Init, ClientInit, SocketStateCodes
  <2>3. hsSent \in 0..HandshakeBound /\ pings \in 0..PingBound /\ reconnects \in 0..1
    BY ClientBounds DEF Init, ClientInit
  <2>. QED  BY <2>1, <2>2, <2>3 DEF Init, ClientInit, ClientTypeOK
<1>3. ServerTypeOK
  BY StateCheckCapacityAssumption
  DEF Init, ServerInit, ServerTypeOK, SocketStateCodes, NoStop, Slots
<1>4. recent \in Seq(BOOLEAN)
  BY EmptyType DEF Init
<1>. QED  BY <1>1, <1>2, <1>3, <1>4 DEF TypeOK

\* The counters keep their room.
LEMMA NextRoom == TypeOK /\ RoomInv /\ [Next]_vars => RoomInv'
<1>. SUFFICES ASSUME TypeOK, RoomInv, [Next]_vars PROVE RoomInv'
  OBVIOUS
<1>. USE DEF RoomInv
<1>1. CASE UNCHANGED <<tPc, hsSent, pings, cIo, reconnects>> /\ hs' \in {hs, "FINISHED"}
  BY <1>1
<1>2. CASE HandshakeJobRead
  BY <1>2 DEF HandshakeJobRead, lifeVars
<1>3. CASE HandshakeJobWrite
  BY <1>3 DEF HandshakeJobWrite
<1>4. CASE PingCheck
  BY <1>4 DEF PingCheck
<1>5. CASE PingRead
  BY <1>5 DEF PingRead
<1>6. CASE PingWrite
  BY <1>6 DEF PingWrite
<1>7. CASE ToConnected \/ ToRunWithoutHandshake \/ ChannelClosed \/ FinishChannelClosed
  <2>1. CASE ToConnected
    BY <2>1 DEF ToConnected, timerVars
  <2>2. CASE ToRunWithoutHandshake
    BY <2>2 DEF ToRunWithoutHandshake, HandshakeStart
  <2>3. CASE ChannelClosed
    BY <2>3 DEF ChannelClosed, timerVars
  <2>4. CASE FinishChannelClosed
    BY <2>4 DEF FinishChannelClosed, timerVars
  <2>. QED  BY <1>7, <2>1, <2>2, <2>3, <2>4
<1>8. CASE \/ UNCHANGED clientVars
           \/ Connect \/ SetPinpointClient \/ ConnectSucceeded
           \/ Release \/ ReleaseChannel \/ CloseRead
           \/ ReceiveServerClose \/ ReceiveHandshakeResponse
           \/ CloseToBeingClose \/ SendClosedPacket \/ CloseChannel \/ CloseToClosed
           \/ HandshakeAbort \/ StopTimer
  <2>1. UNCHANGED <<tPc, hsSent, pings, cIo, reconnects>> /\ hs' \in {hs, "FINISHED"}
    BY <1>8 DEF Connect, SetPinpointClient, ConnectSucceeded, Release, ReleaseChannel,
                CloseRead, ReceiveServerClose, ReceiveHandshakeResponse, CloseToBeingClose,
                SendClosedPacket, CloseChannel, CloseToClosed, HandshakeAbort, StopTimer,
                clientVars, timerVars
  <2>. QED  BY <2>1, <1>1
<1>. QED
  BY <1>2, <1>3, <1>4, <1>5, <1>6, <1>7, <1>8
  DEF Next, ObligedStep, OpenerStep, NetworkStep, ClientWorkerStep, ClientTimerStep,
      ClosingStep, ServerWorkerStep, AcceptorStep, OptionalStep, ServerMoves, ChannelMoves,
      vars

\* Every step, and a stuttering one, keeps the types.
LEMMA NextTyped == TypeOK /\ RoomInv /\ [Next]_vars => TypeOK'
<1>. SUFFICES ASSUME TypeOK, RoomInv, [Next]_vars PROVE TypeOK'
  OBVIOUS
<1>1. CASE UNCHANGED vars
  BY <1>1 DEF vars, TypeOK, ChannelTypeOK, ClientTypeOK, ServerTypeOK,
              channelVars, clientVars, serverVars
<1>2. CASE Next
  BY <1>2, OpenerTyped, NetworkTyped, ClientWorkerTyped, ClientTimerTyped, ClosingTyped,
     ServerWorkerTyped, AcceptorTyped, OptionalTyped DEF Next, ObligedStep
<1>. QED  BY <1>1, <1>2

\* Every variable of the handler, the server socket and the channel stays in its type,
\* whatever the listener answers, however large the checker's ring and the bounds are.
THEOREM TypeCorrect == Spec => []TypeOK
<1>1. Init => TypeOK /\ RoomInv
  BY InitTyped DEF Init, ClientInit, RoomInv
<1>2. TypeOK /\ RoomInv /\ [Next]_vars => (TypeOK /\ RoomInv)'
  BY NextTyped, NextRoom
<1>. QED  BY <1>1, <1>2, PTL DEF Spec

=============================================================================
