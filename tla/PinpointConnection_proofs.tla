----------------------- MODULE PinpointConnection_proofs -----------------------
(***************************************************************************)
(* Proofs about PinpointConnection, for every set of handshake codes,      *)
(* every capacity of the state checker and every bound.  The handshake:    *)
(* the server grants a run state first, the two ends agree, a closed state *)
(* is final.  The end: a close the peer performs was asked for, with the   *)
(* channel gone both ends end closed, and a client whose server has gone   *)
(* away reconnects.  The state checker's ring of marks is the window of    *)
(* the latest pings.                                                       *)
(***************************************************************************)
EXTENDS PinpointConnection_types

(***************************************************************************)
(* The inductive invariants.                                               *)
(***************************************************************************)

\* Where the handshake leads when the listener's answer is code: an error code leaves
\* both ends where they are.
Outcome(code) == IF Granted(code) = "NONE" THEN "RUN_WITHOUT_HANDSHAKE" ELSE Granted(code)

Responses == {HandshakeResponse(ResponseCode(answer, first)) : first \in BOOLEAN}

\* Before the server handled a handshake no response is under way; all responses stand
\* for the same answer.
ResponsesInv ==
    /\ s2c \in Seq({ServerClose} \cup Responses)
    /\ ~properties => s2c \in Seq({ServerClose})

\* A server that runs is where the handshake put it, or has not seen one.
ServerRunInv ==
    /\ sIo \in {"opening", "register", "start"} => sState = "NONE" /\ ~properties
    /\ IsRun(sState) =>
           sState = IF properties THEN Outcome(answer) ELSE "RUN_WITHOUT_HANDSHAKE"

\* A client in a run state of a handshake got there by the server's answer.
ClientRunInv ==
    cState \in {"RUN_SIMPLEX", "RUN_DUPLEX"} => properties /\ cState = Granted(answer)

\* As long as nobody called close, the worker alone moves the client's state, and a
\* handshake that is over left it where the answer leads.
AgreementInv ==
    /\ uPc # "idle" => closeCalled
    /\ cIo = "closing" /\ ~closeCalled => cSeen.state = cState
    /\ cIo = "done" /\ ~closeCalled => ~IsRun(cState)
    /\ cIo \in {"opening", "toRun"} => ~IsRun(cState)
    /\ hs = "INIT" /\ ~closeCalled => ~IsRun(cState)
    /\ hs = "STARTED" /\ IsRun(cState) => cState = "RUN_WITHOUT_HANDSHAKE"
    /\ hs = "FINISHED" /\ ~closeCalled /\ cIo # "done" =>
           /\ cIo # "opening" /\ cIo # "toRun"
           /\ properties
           /\ IsRun(cState) => cState = Outcome(answer)
    /\ cTimer = "stopped" => closeCalled \/ cIo = "done"

\* Unless close() came before, the channel stays connected while channelConnected runs.
ConnectedInv == cIo = "toRun" /\ ~closeCalled => cChan = "connected"

\* The client's state is closed only after channelClosed; a closer that found the handler
\* not connected never finds a state that its toClosed() may leave.
ClientClosedInv ==
    /\ cState = "NONE" => mode = "connect" /\ connectFuture # "SUCCESS" /\ ~published
    /\ uPc # "idle" => published
    /\ uPc = "toClosed" => cState \notin {"BEING_CLOSE_BY_CLIENT", "NONE"}
    /\ IsClosed(cState) => cIo = "done"

\* While stop runs, only the acceptor's close may have changed the state since it was read.
ServerClosedInv ==
    /\ sIo \in {"opening", "register", "start"} => sState = "NONE"
    /\ sIo = "stopping" /\ ~IsClosed(sSeen) => ~IsClosed(sState)

(***************************************************************************)
(* The operators the steps are built from.                                 *)
(***************************************************************************)

\* The client reads the same run state out of a response, first or repeated, as the server
\* entered when it made it.
LEMMA SameState ==
    ASSUME NEW code \in HandshakeCodes, NEW first \in BOOLEAN
    PROVE  RunStateOf(ResponseCode(code, first)) = Granted(code)
BY HandshakeCodesAssumption DEF RunStateOf, ResponseCode, Granted

\* The first handshake asks for a run state, or for nothing.
LEMMA GrantedRuns ==
    ASSUME NEW code
    PROVE  Granted(code) \in {"NONE", "RUN_SIMPLEX", "RUN_DUPLEX"}
BY DEF Granted

\* Which codes run.
LEMMA RunCodesOnly ==
    /\ IsRun("RUN_WITHOUT_HANDSHAKE") /\ IsRun("RUN_SIMPLEX") /\ IsRun("RUN_DUPLEX")
    /\ ~IsRun("NONE") /\ ~IsRun("CONNECTED") /\ ~IsRun("BEING_CONNECT")
BY DEF IsRun, RunCodes

\* A change that leads into a run state comes from the state the table names.
LEMMA ToRun ==
    ASSUME NEW code, NEW next, IsRun(To(code, next)), To(code, next) # code
    PROVE  \/ next = "RUN_WITHOUT_HANDSHAKE" /\ code = "CONNECTED"
           \/ next \in {"RUN_SIMPLEX", "RUN_DUPLEX"} /\ code = "RUN_WITHOUT_HANDSHAKE"
BY DEF To, CanChangeState, ValidBefore, IsRun, RunCodes, IsError, ClosingCodes

\* A socket without a handshake takes the run state the handshake asks for.
LEMMA ToGranted ==
    ASSUME NEW next \in {"RUN_SIMPLEX", "RUN_DUPLEX"}
    PROVE  To("RUN_WITHOUT_HANDSHAKE", next) = next
BY DEF To, CanChangeState, ValidBefore, IsRun, RunCodes, IsError, ClosingCodes

\* The four things a step may do to the packets on their way to the client.
LEMMA ServerQueueStep ==
    ASSUME Next
    PROVE  \/ UNCHANGED <<answer, properties, s2c>>
           \/ s2c' = <<>> /\ UNCHANGED <<answer, properties>>
           \/ s2c # <<>> /\ s2c' = Tail(s2c) /\ UNCHANGED <<answer, properties>>
           \/ ServerWrite(ServerClose) /\ UNCHANGED <<answer, properties>>
           \/ HandleHandshake
<1>1. CASE OpenerStep
  BY <1>1 DEF OpenerStep, Connect, SetPinpointClient, ConnectSucceeded, ClientMoves,
              channelVars, serverVars
<1>2. CASE NetworkStep
  BY <1>2 DEF NetworkStep, Establish, ConnectFails, ClientSeesPeerClosed,
              ServerSeesPeerClosed, ClientCloses, ChannelMoves, serverVars
<1>3. CASE ClientWorkerStep
  BY <1>3 DEF ClientWorkerStep, ToConnected, ToRunWithoutHandshake, ReceiveServerClose,
              ReceiveHandshakeResponse, ChannelClosed, FinishChannelClosed, ClientMoves,
              channelVars, serverVars
<1>4. CASE ClientTimerStep
  BY <1>4 DEF ClientTimerStep, HandshakeJobRead, HandshakeJobWrite, PingCheck, PingRead,
              PingWrite, ClientMoves, channelVars, serverVars
<1>5. CASE ClosingStep
  BY <1>5 DEF ClosingStep, CloseToBeingClose, SendClosedPacket, CloseChannel, CloseToClosed,
              HandshakeAbort, StopTimer, ClientCloses, ClientMoves, channelVars, serverVars
<1>6. CASE ServerWorkerStep
  BY <1>6 DEF ServerWorkerStep, Accept, Register, Start, MessageReceived, HandleClosePacket,
              HandlePingPacket, ChannelDisconnected, StopRead, StopApply, channelVars
<1>7. CASE AcceptorStep
  BY <1>7 DEF AcceptorStep, AcceptorSendClose, AcceptorWriteClose, AcceptorShutdown,
              channelVars
<1>8. CASE OptionalStep
  BY <1>8 DEF OptionalStep, CloseRead, Release, ReleaseChannel, AcceptorClose, LinkBreaks,
              ClientCloses, ClientMoves, ChannelMoves, channelVars, serverVars
<1>. QED  BY <1>1, <1>2, <1>3, <1>4, <1>5, <1>6, <1>7, <1>8 DEF Next, ObligedStep

\* The packets to the client stay what the answer makes them.
LEMMA ResponsesStep == TypeOK /\ ResponsesInv /\ [Next]_vars => ResponsesInv'
<1>. SUFFICES ASSUME TypeOK, ResponsesInv, [Next]_vars PROVE ResponsesInv'
  OBVIOUS
<1>1. CASE UNCHANGED <<answer, properties, s2c>>
  BY <1>1 DEF ResponsesInv, Responses
<1>2. CASE s2c' = <<>> /\ UNCHANGED <<answer, properties>>
  BY <1>2, EmptyType DEF ResponsesInv
<1>3. CASE s2c # <<>> /\ s2c' = Tail(s2c) /\ UNCHANGED <<answer, properties>>
  BY <1>3, TailType DEF ResponsesInv, Responses
<1>4. CASE ServerWrite(ServerClose) /\ UNCHANGED <<answer, properties>>
  <2>1. s2c' \in Seq({ServerClose} \cup Responses)
    BY <1>4, AppendProperties DEF ResponsesInv, ServerWrite
  <2>2. ~properties => s2c' \in Seq({ServerClose})
    BY <1>4, AppendProperties DEF ResponsesInv, ServerWrite
  <2>. QED  BY <1>4, <2>1, <2>2 DEF ResponsesInv, Responses
<1>5. CASE HandleHandshake
  <2>1. properties' = TRUE /\ answer' = answer
    BY <1>5 DEF HandleHandshake
  <2>2. (~properties) \in BOOLEAN
    BY DEF TypeOK, ServerTypeOK
  <2>3. HandshakeResponse(ResponseCode(answer, ~properties)) \in Responses
    BY <2>2 DEF Responses
  <2>4. s2c' \in Seq({ServerClose} \cup Responses)
    BY <1>5, <2>3, AppendProperties DEF ResponsesInv, HandleHandshake, ServerWrite
  <2>. QED  BY <2>1, <2>4 DEF ResponsesInv, Responses
<1>. QED  BY <1>1, <1>2, <1>3, <1>4, <1>5, ServerQueueStep DEF vars, channelVars, serverVars


\* Only the first handshake moves a running server to another run state.
LEMMA ServerRunStep == TypeOK /\ ServerRunInv /\ [Next]_vars => ServerRunInv'
<1>. SUFFICES ASSUME TypeOK, ServerRunInv, [Next]_vars PROVE ServerRunInv'
  OBVIOUS
<1>. USE RunCodesOnly DEF ServerRunInv
<1>1. CASE UNCHANGED <<sIo, sState, properties, answer>>
  BY <1>1
<1>2. CASE Accept
  BY <1>2 DEF Accept
<1>3. CASE Register
  BY <1>3 DEF Register
<1>4. CASE Start
  <2>1. sState = "NONE" /\ ~properties /\ properties' = properties /\ answer' = answer
    BY <1>4 DEF Start
  <2>2. sState' = To(To(sState, "CONNECTED"), "RUN_WITHOUT_HANDSHAKE") /\ sIo' = "open"
    BY <1>4 DEF Start
  <2>3. To("NONE", "CONNECTED") = "CONNECTED"
    BY DEF To, CanChangeState, ValidBefore, IsError, RunCodes, ClosingCodes
  <2>4. To("CONNECTED", "RUN_WITHOUT_HANDSHAKE") = "RUN_WITHOUT_HANDSHAKE"
    BY DEF To, CanChangeState, ValidBefore, IsError, RunCodes, ClosingCodes
  <2>. QED  BY <2>1, <2>2, <2>3, <2>4
<1>5. CASE HandleHandshake
  <2>1. properties' = TRUE /\ answer' = answer /\ sIo' = "open"
    BY <1>5 DEF HandleHandshake
  <2>2. SUFFICES ASSUME IsRun(sState') PROVE sState' = Outcome(answer)
    BY <2>1
  <2>3. CASE properties \/ Granted(answer) = "NONE"
    BY <1>5, <2>2, <2>3 DEF HandleHandshake, Outcome
  <2>4. CASE ~properties /\ Granted(answer) # "NONE"
    <3>1. sState' = To(sState, Granted(answer))
      BY <1>5, <2>4 DEF HandleHandshake
    <3>2. Granted(answer) \in {"RUN_SIMPLEX", "RUN_DUPLEX"}
      BY <2>4, GrantedRuns
    <3>3. CASE IsRun(sState)
      BY <3>1, <3>2, <3>3, <2>4, ToGranted DEF Outcome
    <3>4. CASE ~IsRun(sState)
      BY <3>1, <3>2, <3>4, <2>2, <2>4, ToRun DEF Outcome
    <3>. QED  BY <3>3, <3>4
  <2>. QED  BY <2>3, <2>4
<1>6. CASE \/ HandleClosePacket \/ HandlePingPacket \/ StopApply \/ AcceptorSendClose
  <2>1. UNCHANGED <<properties, answer>>
    BY <1>6 DEF HandleClosePacket, HandlePingPacket, StopApply, AcceptorSendClose
  <2>2. sIo' \in {"opening", "register", "start"} =>
            sIo' = sIo /\ AcceptorSendClose
    BY <1>6 DEF HandleClosePacket, HandlePingPacket, StopApply, AcceptorSendClose
  <2>3. AcceptorSendClose /\ sState = "NONE" => sState' = sState
    BY DEF AcceptorSendClose, CanChangeState, ValidBefore, IsError, ClosingCodes, RunCodes
  <2>4. \/ sState' = sState
        \/ \E next : sState' = To(sState, next) /\ next \notin RunCodes
    <3>1. CASE HandleClosePacket
      BY <3>1 DEF HandleClosePacket, RunCodes
    <3>2. CASE HandlePingPacket
      BY <3>2 DEF HandlePingPacket, RunCodes
    <3>3. CASE StopApply
      <4>1. StopTarget(sSeen, sStop.serverStop) \notin RunCodes \/ IsClosed(sSeen)
        BY DEF StopTarget, RunCodes
      <4>. QED  BY <3>3, <4>1 DEF StopApply
    <3>4. CASE AcceptorSendClose
      BY <3>4 DEF AcceptorSendClose, To, RunCodes
    <3>. QED  BY <1>6, <3>1, <3>2, <3>3, <3>4
  <2>5. IsRun(sState') => sState' = sState
    BY <2>4, ToRun DEF RunCodes
  <2>. QED  BY <2>1, <2>2, <2>3, <2>5
<1>7. CASE MessageReceived \/ ChannelDisconnected \/ StopRead
  BY <1>7 DEF MessageReceived, ChannelDisconnected, StopRead
<1>8. CASE \/ UNCHANGED serverVars
           \/ AcceptorWriteClose \/ AcceptorShutdown \/ AcceptorClose
  BY <1>8, <1>1 DEF serverVars, AcceptorWriteClose, AcceptorShutdown, AcceptorClose
<1>. QED
  BY <1>2, <1>3, <1>4, <1>5, <1>6, <1>7, <1>8
  DEF Next, ObligedStep, OpenerStep, NetworkStep, ClientWorkerStep, ClientTimerStep,
      ClosingStep, ServerWorkerStep, AcceptorStep, OptionalStep, ClientMoves, ChannelMoves,
      vars

\* The answer is fixed, and properties are never taken back.
LEMMA PropertiesStay ==
    ASSUME [Next]_vars
    PROVE  answer' = answer /\ (properties => properties')
<1>1. CASE Next
  <2>1. CASE HandleHandshake
    BY <2>1 DEF HandleHandshake
  <2>2. CASE answer' = answer /\ properties' = properties
    BY <2>2
  <2>. QED  BY <1>1, <2>1, <2>2, ServerQueueStep
<1>2. CASE UNCHANGED vars
  BY <1>2 DEF vars, serverVars
<1>. QED  BY <1>1, <1>2

\* A response can only be received after the server handled a handshake.
LEMMA ResponseSays ==
    ASSUME TypeOK, ResponsesInv, ReceiveHandshakeResponse
    PROVE  properties /\ RunStateOf(Head(s2c).code) = Granted(answer)
<1>1. Head(s2c) \in {ServerClose} \cup Responses /\ (~properties => Head(s2c) = ServerClose)
  BY TailType DEF ResponsesInv, ReceiveHandshakeResponse
<1>2. Head(s2c) # ServerClose
  BY DEF ReceiveHandshakeResponse, ServerClose
<1>3. PICK first \in BOOLEAN : Head(s2c) = HandshakeResponse(ResponseCode(answer, first))
  BY <1>1, <1>2 DEF Responses
<1>. QED  BY <1>1, <1>2, <1>3, SameState DEF HandshakeResponse, TypeOK, ServerTypeOK

\* Only a response of the server moves the client to RUN_SIMPLEX or RUN_DUPLEX.
LEMMA ClientRunStep ==
    TypeOK /\ ResponsesInv /\ ClientRunInv /\ [Next]_vars => ClientRunInv'
<1>. SUFFICES ASSUME TypeOK, ResponsesInv, ClientRunInv, [Next]_vars PROVE ClientRunInv'
  OBVIOUS
<1>1. answer' = answer /\ (properties => properties')
  BY PropertiesStay
<1>2. CASE UNCHANGED cState
  BY <1>1, <1>2 DEF ClientRunInv
<1>3. CASE \E next \in SocketStateCodes \ {"RUN_SIMPLEX", "RUN_DUPLEX"} :
              cState' = To(cState, next)
  BY <1>1, <1>3 DEF ClientRunInv, To
<1>4. CASE ReceiveHandshakeResponse
  <2>1. properties /\ RunStateOf(Head(s2c).code) = Granted(answer)
    BY <1>4, ResponseSays
  <2>. QED  BY <1>1, <1>4, <2>1 DEF ReceiveHandshakeResponse, ClientRunInv, To
<1>5. CASE ToConnected \/ ToRunWithoutHandshake \/ ReceiveServerClose \/ CloseToBeingClose
           \/ CloseToClosed
  BY <1>5, <1>3 DEF ToConnected, ToRunWithoutHandshake, ReceiveServerClose,
      CloseToBeingClose, CloseToClosed, SocketStateCodes, ClosingCodes, ClosedCodes, RunCodes
<1>6. CASE FinishChannelClosed
  <2>1. ClosedTarget(cSeen) \in SocketStateCodes \ {"RUN_SIMPLEX", "RUN_DUPLEX"}
    BY DEF ClosedTarget, SocketStateCodes, ClosedCodes, ErrorCodes
  <2>. QED  BY <1>3, <1>6, <2>1 DEF FinishChannelClosed
<1>7. CASE \/ UNCHANGED clientVars
           \/ OpenerStep \/ ClientTimerStep \/ SendClosedPacket \/ CloseChannel
           \/ HandshakeAbort \/ StopTimer \/ ChannelClosed
           \/ Release \/ ReleaseChannel \/ CloseRead
  BY <1>7, <1>2
  DEF clientVars, OpenerStep, Connect, SetPinpointClient, ConnectSucceeded,
      ClientTimerStep, HandshakeJobRead, HandshakeJobWrite, PingCheck, PingRead, PingWrite,
      SendClosedPacket, CloseChannel, HandshakeAbort, StopTimer, ChannelClosed, Release,
      ReleaseChannel, CloseRead
<1>. QED
  BY <1>4, <1>5, <1>6, <1>7
  DEF Next, ObligedStep, NetworkStep, ClientWorkerStep, ClosingStep, ServerWorkerStep,
      AcceptorStep, OptionalStep, ServerMoves, ChannelMoves, vars

\* The server enters the granted run state before the client does (handleHandshake sets
\* the state before it answers), and a repeated handshake moves neither.
THEOREM ServerGrants == Spec => []ServerGrantsFirst
<1>1. Init => ResponsesInv /\ ServerRunInv /\ ClientRunInv
  BY EmptyType, RunCodesOnly DEF Init, ChannelInit, ClientInit, ServerInit, ResponsesInv,
     ServerRunInv, ClientRunInv
<1>2. /\ TypeOK /\ ResponsesInv /\ ServerRunInv /\ ClientRunInv
      /\ [Next]_vars
      => (ResponsesInv /\ ServerRunInv /\ ClientRunInv)'
  BY ResponsesStep, ServerRunStep, ClientRunStep
<1>3. ServerRunInv /\ ClientRunInv => ServerGrantsFirst
  BY GrantedRuns DEF ServerRunInv, ClientRunInv, ServerGrantsFirst, Outcome
<1>. QED  BY <1>1, <1>2, <1>3, TypeCorrect, PTL DEF Spec

\* A change that changes something was legal.
LEMMA ToEnters ==
    ASSUME NEW code, NEW next, To(code, next) # code
    PROVE  /\ To(code, next) = next
           /\ ~IsError(code)
           /\ code \in ValidBefore(next) \/ IsError(next)
BY DEF To, CanChangeState

\* No closed code precedes another one in the table, but for the errors.
LEMMA ClosedIsLast ==
    ASSUME NEW code, NEW next, IsClosed(code), To(code, next) # code
    PROVE  IsError(next)
BY ToEnters DEF ValidBefore, IsClosed, ClosedCodes, ErrorCodes, RunCodes, ClosingCodes

\* The client's half of ClosedIsFinal, with its invariant.
LEMMA ClientClosedStep ==
    TypeOK /\ ClientClosedInv /\ [Next]_vars
      => ClientClosedInv' /\ (IsClosed(cState) => cState' = cState)
<1>. SUFFICES ASSUME TypeOK, ClientClosedInv, [Next]_vars
              PROVE  ClientClosedInv' /\ (IsClosed(cState) => cState' = cState)
  OBVIOUS
<1>. USE DEF ClientClosedInv
<1>1. CASE UNCHANGED <<cState, mode, connectFuture, published, uPc, cIo>>
  BY <1>1
<1>2. CASE Connect \/ ConnectSucceeded
  BY <1>2 DEF Connect, ConnectSucceeded, closeVars
<1>3. CASE ToConnected
  BY <1>3, ToEnters, ClosedIsLast
  DEF ToConnected, lifeVars, closeVars, IsClosed, ClosedCodes, ErrorCodes, IsError
<1>4. CASE ToRunWithoutHandshake
  <2>1. cState' # "NONE" \/ UNCHANGED <<cState, connectFuture>>
    BY <1>4 DEF ToRunWithoutHandshake, To
  <2>. QED
    BY <1>4, <2>1, ToEnters, ClosedIsLast
    DEF ToRunWithoutHandshake, lifeVars, closeVars, IsClosed, ClosedCodes, ErrorCodes, IsError
<1>5. CASE ReceiveServerClose
  BY <1>5, ToEnters, ClosedIsLast
  DEF ReceiveServerClose, lifeVars, closeVars, IsClosed, ClosedCodes, ErrorCodes, IsError
<1>6. CASE ReceiveHandshakeResponse
  <2>1. RunStateOf(Head(s2c).code) \in {"NONE", "RUN_SIMPLEX", "RUN_DUPLEX"}
    BY DEF RunStateOf
  <2>. QED
    BY <1>6, <2>1, ToEnters, ClosedIsLast
    DEF ReceiveHandshakeResponse, lifeVars, closeVars, IsClosed, ClosedCodes, ErrorCodes,
        IsError
<1>7. CASE ChannelClosed
  BY <1>7 DEF ChannelClosed, lifeVars, closeVars
<1>8. CASE FinishChannelClosed
  <2>1. ClosedTarget(cSeen) \notin {"NONE", "BEING_CLOSE_BY_CLIENT"}
    BY DEF ClosedTarget
  <2>2. connectFuture' = "SUCCESS" => connectFuture = "SUCCESS"
    BY <1>8 DEF FinishChannelClosed
  <2>. QED
    BY <1>8, <2>1, <2>2, ToEnters DEF FinishChannelClosed, lifeVars, closeVars
<1>9. CASE CloseRead
  BY <1>9 DEF CloseRead, lifeVars, IsBeforeConnected, IsRun
<1>10. CASE CloseToBeingClose
  BY <1>10, ToEnters, ClosedIsLast
  DEF CloseToBeingClose, lifeVars, IsClosed, ClosedCodes, ErrorCodes, IsError
<1>11. CASE CloseToClosed
  <2>1. To(cState, "CLOSED_BY_CLIENT") = cState
    BY <1>11, ToEnters DEF CloseToClosed, ValidBefore, IsError, RunCodes, ClosingCodes
  <2>. QED  BY <1>11, <2>1 DEF CloseToClosed, lifeVars
<1>12. CASE SendClosedPacket \/ CloseChannel \/ HandshakeAbort \/ StopTimer
  BY <1>12 DEF SendClosedPacket, CloseChannel, HandshakeAbort, StopTimer, lifeVars
<1>13. CASE UNCHANGED clientVars \/ SetPinpointClient \/ ClientTimerStep \/ Release
            \/ ReleaseChannel
  BY <1>13, <1>1
  DEF clientVars, SetPinpointClient, ClientTimerStep, HandshakeJobRead, HandshakeJobWrite,
      PingCheck, PingRead, PingWrite, Release, ReleaseChannel, lifeVars, closeVars
<1>. QED
  BY <1>2, <1>3, <1>4, <1>5, <1>6, <1>7, <1>8, <1>9, <1>10, <1>11, <1>12, <1>13
  DEF Next, ObligedStep, OpenerStep, NetworkStep, ClientWorkerStep, ClosingStep,
      ServerWorkerStep, AcceptorStep, OptionalStep, ServerMoves, ChannelMoves, vars

\* The server's half of ClosedIsFinal, with its invariant.
LEMMA ServerClosedStep ==
    TypeOK /\ ServerClosedInv /\ [Next]_vars
      => ServerClosedInv' /\ (IsClosed(sState) => sState' = sState)
<1>. SUFFICES ASSUME TypeOK, ServerClosedInv, [Next]_vars
              PROVE  ServerClosedInv' /\ (IsClosed(sState) => sState' = sState)
  OBVIOUS
<1>. USE DEF ServerClosedInv
<1>1. CASE UNCHANGED <<sIo, sState, sSeen>>
  BY <1>1
<1>2. CASE Accept \/ Register \/ MessageReceived \/ ChannelDisconnected
  BY <1>2 DEF Accept, Register, MessageReceived, ChannelDisconnected
<1>3. CASE Start
  BY <1>3, ClosedIsLast DEF Start, IsClosed, ClosedCodes, ErrorCodes
<1>4. CASE HandleHandshake
  <2>1. Granted(answer) \in {"NONE", "RUN_SIMPLEX", "RUN_DUPLEX"}
    BY DEF Granted
  <2>. QED  BY <1>4, <2>1, ClosedIsLast DEF HandleHandshake, IsError
<1>5. CASE HandleClosePacket
  BY <1>5, ClosedIsLast DEF HandleClosePacket, IsError
<1>6. CASE HandlePingPacket
  <2>1. sIo' \in {"open", "stop"}
    BY <1>6 DEF HandlePingPacket, Mark, Unmark
  <2>2. sState' \in {sState, To(sState, "ERROR_SYNC_STATE_SESSION")}
    BY <1>6 DEF HandlePingPacket, Mark, Unmark
  <2>. QED  BY <2>1, <2>2, ClosedIsLast DEF IsError
<1>7. CASE StopRead
  BY <1>7 DEF StopRead
<1>8. CASE StopApply
  <2>1. sIo' \in {"open", "done"}
    BY <1>8 DEF StopApply
  <2>2. IsClosed(sState) => sState' = sState
    BY <1>8 DEF StopApply
  <2>. QED  BY <2>1, <2>2
<1>9. CASE AcceptorSendClose
  <2>1. sIo' = sIo /\ sSeen' = sSeen
    BY <1>9 DEF AcceptorSendClose
  <2>2. sState' = sState \/ sState' = "BEING_CLOSE_BY_SERVER"
    BY <1>9 DEF AcceptorSendClose
  <2>3. IsClosed(sState) \/ sState = "NONE" => sState' = sState
    BY <1>9, ClosedIsLast
    DEF AcceptorSendClose, To, CanChangeState, ValidBefore, IsError, IsClosed, ClosedCodes,
        ErrorCodes, RunCodes, ClosingCodes
  <2>. QED  BY <2>1, <2>2, <2>3 DEF IsClosed, ClosedCodes, ErrorCodes
<1>10. CASE UNCHANGED serverVars \/ AcceptorWriteClose \/ AcceptorShutdown \/ AcceptorClose
  BY <1>10, <1>1 DEF serverVars, AcceptorWriteClose, AcceptorShutdown, AcceptorClose
<1>. QED
  BY <1>2, <1>3, <1>4, <1>5, <1>6, <1>7, <1>8, <1>9, <1>10
  DEF Next, ObligedStep, OpenerStep, NetworkStep, ClientWorkerStep, ClientTimerStep,
      ClosingStep, ServerWorkerStep, AcceptorStep, OptionalStep, ClientMoves, ChannelMoves,
      vars

\* No late packet, ping, close or second stop leads either end out of a closed state.
THEOREM ClosedForEver == Spec => ClosedIsFinal
<1>1. Init => ClientClosedInv /\ ServerClosedInv
  BY DEF Init, ClientInit, ServerInit, ClientClosedInv, ServerClosedInv, IsClosed,
     ClosedCodes, ErrorCodes
<1>2. TypeOK /\ ClientClosedInv /\ ServerClosedInv /\ [Next]_vars
        => (ClientClosedInv /\ ServerClosedInv)'
  BY ClientClosedStep, ServerClosedStep
<1>3. TypeOK /\ ClientClosedInv /\ ServerClosedInv /\ [Next]_vars
        => [ /\ IsClosed(cState) => cState' = cState
             /\ IsClosed(sState) => sState' = sState ]_vars
  BY ClientClosedStep, ServerClosedStep
<1>. QED  BY <1>1, <1>2, <1>3, TypeCorrect, PTL DEF Spec, ClosedIsFinal

\* The worker, busy with channelConnected, does not see the channel closed by anybody but
\* a closer.
LEMMA ConnectedStep == AgreementInv /\ ConnectedInv /\ [Next]_vars => ConnectedInv'
<1>. SUFFICES ASSUME AgreementInv, ConnectedInv, [Next]_vars PROVE ConnectedInv'
  OBVIOUS
<1>. USE DEF ConnectedInv
<1>1. CASE UNCHANGED <<cIo, closeCalled, cChan>>
  BY <1>1
<1>2. CASE UNCHANGED closeVars /\ UNCHANGED cChan
           /\ (ToConnected \/ cIo' \in {"open", "closing", "done"})
  BY <1>2 DEF ToConnected, closeVars
<1>4. CASE ReleaseChannel
  BY <1>4 DEF ReleaseChannel, ClientCloses, clientVars, closeVars
<1>5. CASE CloseRead \/ CloseChannel
  BY <1>5 DEF CloseRead, CloseChannel, AgreementInv
<1>6. CASE ClientWorkerStep
  BY <1>6, <1>1, <1>2
  DEF ClientWorkerStep, ToConnected, ToRunWithoutHandshake, ReceiveServerClose,
      ReceiveHandshakeResponse, ChannelClosed, FinishChannelClosed, channelVars, closeVars
<1>7. CASE \/ OpenerStep \/ ClientTimerStep \/ Release
           \/ CloseToBeingClose \/ SendClosedPacket \/ CloseToClosed \/ HandshakeAbort
           \/ StopTimer
  BY <1>7, <1>1
  DEF OpenerStep, Connect, SetPinpointClient, ConnectSucceeded, ClientTimerStep,
      HandshakeJobRead, HandshakeJobWrite, PingCheck, PingRead, PingWrite, Release,
      CloseToBeingClose, SendClosedPacket, CloseToClosed, HandshakeAbort, StopTimer,
      closeVars, channelVars
<1>8. CASE UNCHANGED clientVars /\ UNCHANGED cChan
  BY <1>8, <1>1 DEF clientVars
<1>9. CASE ServerWorkerStep
  BY <1>9, <1>8
  DEF ServerWorkerStep, ServerMoves, Accept, Register, Start, MessageReceived,
      HandleHandshake, HandleClosePacket, HandlePingPacket, ChannelDisconnected, StopRead,
      StopApply, ServerCloses, channelVars
<1>10. CASE \/ AcceptorStep
            \/ AcceptorClose /\ ServerMoves
            \/ LinkBreaks /\ ChannelMoves
            \/ ServerSeesPeerClosed /\ ChannelMoves
            \/ UNCHANGED vars
  BY <1>10, <1>8
  DEF AcceptorStep, ServerMoves, ChannelMoves, AcceptorSendClose, AcceptorWriteClose,
      AcceptorShutdown, AcceptorClose, ServerCloses, LinkBreaks, ServerSeesPeerClosed,
      channelVars, vars
<1>11. CASE NetworkStep
  <2>1. CASE Establish /\ ChannelMoves
    BY <2>1 DEF Establish, ChannelMoves, clientVars
  <2>2. CASE ConnectFails /\ ChannelMoves
    BY <2>2 DEF ConnectFails, ClientCloses, ChannelMoves, clientVars
  <2>3. CASE ClientSeesPeerClosed /\ cIo = "open" /\ ChannelMoves
    BY <2>3 DEF ClientSeesPeerClosed, ClientCloses, ChannelMoves, clientVars
  <2>. QED  BY <1>11, <1>10, <2>1, <2>2, <2>3 DEF NetworkStep
<1>12. CASE OptionalStep
  BY <1>12, <1>4, <1>5, <1>7, <1>10 DEF OptionalStep
<1>13. CASE ClosingStep
  BY <1>13, <1>5, <1>7 DEF ClosingStep
<1>. QED
  BY <1>6, <1>7, <1>9, <1>10, <1>11, <1>12, <1>13 DEF Next, ObligedStep

\* The handshake's bookkeeping and the client's state stay in step.
LEMMA AgreementStep ==
    TypeOK /\ ResponsesInv /\ AgreementInv /\ ConnectedInv /\ [Next]_vars => AgreementInv'
<1>. SUFFICES ASSUME TypeOK, ResponsesInv, AgreementInv, ConnectedInv, [Next]_vars
              PROVE  AgreementInv'
  OBVIOUS
<1>. USE RunCodesOnly DEF AgreementInv
<1>0. answer' = answer /\ (properties => properties')
  BY PropertiesStay
<1>1. CASE UNCHANGED <<uPc, closeCalled, cIo, cSeen, cState, hs, cTimer>>
  BY <1>0, <1>1
<1>2. CASE ToConnected
  <2>1. ~IsRun(cState')
    BY <1>2, ToRun DEF ToConnected
  <2>. QED  BY <1>0, <1>2, <2>1 DEF ToConnected, closeVars
<1>3. CASE ToRunWithoutHandshake
  <2>1. IsRun(cState') => /\ cState' = "RUN_WITHOUT_HANDSHAKE"
                          /\ CanChangeState(cState, "RUN_WITHOUT_HANDSHAKE")
    BY <1>3 DEF ToRunWithoutHandshake, To
  <2>2. /\ IsRun(cState') /\ ~closeCalled => cTimer = "run"
        /\ closeCalled' = closeCalled /\ uPc' = uPc /\ cTimer' = cTimer /\ cSeen' = cSeen
        /\ cIo = "toRun" /\ cIo' = "open"
    BY <1>3 DEF ToRunWithoutHandshake, closeVars, TypeOK, ClientTypeOK
  <2>3. \/ hs' = hs
        \/ hs = "INIT" /\ hs' = "STARTED"
    BY <1>3 DEF ToRunWithoutHandshake, HandshakeStart
  <2>4. IsRun(cState') /\ ~closeCalled => hs' # "INIT"
    BY <1>3, <2>1, <2>2 DEF ToRunWithoutHandshake, HandshakeStart, ConnectedInv
  <2>5. ~closeCalled => hs # "FINISHED"
    BY <1>3 DEF ToRunWithoutHandshake
  <2>. QED  BY <1>0, <2>1, <2>2, <2>3, <2>4, <2>5
<1>4. CASE ReceiveServerClose
  <2>1. cState' = cState \/ ~IsRun(cState')
    BY <1>4, ToRun DEF ReceiveServerClose
  <2>. QED  BY <1>0, <1>4, <2>1 DEF ReceiveServerClose, closeVars
<1>5. CASE ReceiveHandshakeResponse
  <2>1. properties /\ RunStateOf(Head(s2c).code) = Granted(answer)
    BY <1>5, ResponseSays
  <2>2. /\ cIo = "open" /\ cIo' = "open" /\ hs' = "FINISHED"
        /\ UNCHANGED <<uPc, closeCalled, cTimer>>
    BY <1>5 DEF ReceiveHandshakeResponse, closeVars
  <2>3. SUFFICES ASSUME ~closeCalled, IsRun(cState') PROVE cState' = Outcome(answer)
    BY <1>0, <2>1, <2>2
  <2>4. CASE hs = "STARTED" /\ Granted(answer) # "NONE"
    <3>1. cState' = To(cState, Granted(answer))
      BY <1>5, <2>1, <2>4 DEF ReceiveHandshakeResponse
    <3>2. cState = "RUN_WITHOUT_HANDSHAKE"
      BY <2>3, <2>4, <3>1, ToRun, GrantedRuns
    <3>. QED  BY <2>4, <3>1, <3>2, ToGranted, GrantedRuns DEF Outcome
  <2>5. CASE hs # "STARTED" \/ Granted(answer) = "NONE"
    <3>1. cState' = cState
      BY <1>5, <2>1, <2>5 DEF ReceiveHandshakeResponse
    <3>2. hs \in {"INIT", "STARTED", "FINISHED"}
      BY DEF TypeOK, ClientTypeOK
    <3>. QED  BY <2>2, <2>3, <2>5, <3>1, <3>2 DEF Outcome
  <2>. QED  BY <2>4, <2>5
<1>6. CASE ChannelClosed
  BY <1>0, <1>6 DEF ChannelClosed, closeVars
<1>7. CASE FinishChannelClosed
  <2>1. ~closeCalled => ~IsRun(cState')
    <3>1. SUFFICES ASSUME ~closeCalled PROVE ~IsRun(To(cState, ClosedTarget(cSeen)))
      BY <1>7 DEF FinishChannelClosed
    <3>2. cSeen.state = cState
      BY <1>7, <3>1 DEF FinishChannelClosed
    <3>3. ~IsRun(ClosedTarget(cSeen))
      BY DEF ClosedTarget, IsRun, RunCodes
    <3>4. CASE IsRun(cState)
      BY <3>2, <3>3, <3>4
      DEF ClosedTarget, To, CanChangeState, ValidBefore, IsError, IsRun, RunCodes,
          ClosingCodes, IsBeforeConnected, TypeOK, ClientTypeOK
    <3>5. CASE ~IsRun(cState)
      BY <3>3, <3>5 DEF To
    <3>. QED  BY <3>4, <3>5
  <2>. QED  BY <1>0, <1>7, <2>1 DEF FinishChannelClosed, closeVars
<1>8. CASE CloseRead
  BY <1>0, <1>8 DEF CloseRead
<1>9. CASE CloseToBeingClose \/ CloseToClosed
  <2>1. cState' = cState \/ ~IsRun(cState')
    BY <1>9, ToRun DEF CloseToBeingClose, CloseToClosed
  <2>. QED  BY <1>0, <1>9, <2>1 DEF CloseToBeingClose, CloseToClosed
<1>10. CASE SendClosedPacket \/ CloseChannel \/ HandshakeAbort \/ StopTimer
  BY <1>0, <1>10 DEF SendClosedPacket, CloseChannel, HandshakeAbort, StopTimer
<1>11. CASE \/ UNCHANGED clientVars
            \/ OpenerStep \/ ClientTimerStep \/ Release \/ ReleaseChannel
  BY <1>11, <1>1
  DEF clientVars, OpenerStep, Connect, SetPinpointClient, ConnectSucceeded,
      ClientTimerStep, HandshakeJobRead, HandshakeJobWrite, PingCheck, PingRead, PingWrite,
      Release, ReleaseChannel, closeVars
<1>. QED
  BY <1>2, <1>3, <1>4, <1>5, <1>6, <1>7, <1>8, <1>9, <1>10, <1>11
  DEF Next, ObligedStep, NetworkStep, ClientWorkerStep, ClosingStep,
      ServerWorkerStep, AcceptorStep, OptionalStep, ServerMoves, ChannelMoves, vars

\* Once the handshake is over, and as long as nobody closed the client, both ends that run
\* are in the same run state, whatever was repeated, late or refused.
THEOREM Agreement == Spec => []HandshakeAgreement
<1>1. Init => ResponsesInv /\ ServerRunInv /\ AgreementInv /\ ConnectedInv
  BY EmptyType, RunCodesOnly
  DEF Init, ChannelInit, ClientInit, ServerInit, ResponsesInv, ServerRunInv, AgreementInv,
      ConnectedInv
<1>2. TypeOK /\ ResponsesInv /\ ServerRunInv /\ AgreementInv /\ ConnectedInv /\ [Next]_vars
        => (ResponsesInv /\ ServerRunInv /\ AgreementInv /\ ConnectedInv)'
  BY ResponsesStep, ServerRunStep, AgreementStep, ConnectedStep
<1>3. TypeOK /\ ServerRunInv /\ AgreementInv => HandshakeAgreement
  BY RunCodesOnly DEF ServerRunInv, AgreementInv, HandshakeAgreement
<1>. QED  BY <1>1, <1>2, <1>3, TypeCorrect, PTL DEF Spec

(***************************************************************************)
(* Who closes: a closing state names the end that began it.                *)
(***************************************************************************)

\* As long as nobody called close(), nothing says that the client is closing: no packet, no
\* state of either end, nothing that was read for later.
ClientQuiet ==
    /\ uPc = "idle"
    /\ cState \notin {"BEING_CLOSE_BY_CLIENT", "CLOSED_BY_CLIENT"}
    /\ cSeen.state # "BEING_CLOSE_BY_CLIENT"
    /\ c2s \in Seq(ClientPackets \ {ClientClose})
    /\ sMsg # ClientClose
    /\ sState \notin {"BEING_CLOSE_BY_CLIENT", "CLOSED_BY_CLIENT"}
    /\ sSeen # "BEING_CLOSE_BY_CLIENT"

\* The same of the server, as long as the acceptor is not released.
ServerQuiet ==
    /\ aPc = "idle"
    /\ sState \notin {"BEING_CLOSE_BY_SERVER", "CLOSED_BY_SERVER"}
    /\ sSeen # "BEING_CLOSE_BY_SERVER"
    /\ s2c \in Seq(ServerPackets \ {ServerClose})
    /\ cState \notin {"BEING_CLOSE_BY_SERVER", "CLOSED_BY_SERVER"}
    /\ cSeen.state # "BEING_CLOSE_BY_SERVER"

ByClientInv == ~closeCalled => ClientQuiet

ByServerInv == ~released => ServerQuiet

\* channelClosed names the end whose closing it read.
LEMMA ClosedTargetNames ==
    ASSUME NEW seen
    PROVE  /\ ClosedTarget(seen) = "CLOSED_BY_CLIENT" => seen.state = "BEING_CLOSE_BY_CLIENT"
           /\ ClosedTarget(seen) = "CLOSED_BY_SERVER" => seen.state = "BEING_CLOSE_BY_SERVER"
           /\ ClosedTarget(seen) \notin {"BEING_CLOSE_BY_CLIENT", "BEING_CLOSE_BY_SERVER"}
BY DEF ClosedTarget

\* stop, too.
LEMMA StopTargetNames ==
    ASSUME NEW code, NEW serverStop, ~IsClosed(code)
    PROVE  /\ StopTarget(code, serverStop) = "CLOSED_BY_CLIENT" =>
                 code = "BEING_CLOSE_BY_CLIENT"
           /\ StopTarget(code, serverStop) = "CLOSED_BY_SERVER" =>
                 code = "BEING_CLOSE_BY_SERVER"
           /\ StopTarget(code, serverStop) \notin
                 {"BEING_CLOSE_BY_CLIENT", "BEING_CLOSE_BY_SERVER"}
BY DEF StopTarget

\* A packet that is written, or not, leaves the queue within the packets it may hold.
LEMMA ClientWriteWithin ==
    ASSUME NEW S, c2s \in Seq(S), NEW packet \in S, ClientWrite(packet)
    PROVE  c2s' \in Seq(S)
BY AppendProperties DEF ClientWrite

\* The same in the other direction.
LEMMA ServerWriteWithin ==
    ASSUME NEW S, s2c \in Seq(S), NEW packet \in S, ServerWrite(packet)
    PROVE  s2c' \in Seq(S)
BY AppendProperties DEF ServerWrite

\* A closer that was called, and an acceptor that is released, stay so.
LEMMA CallsStay ==
    ASSUME [Next]_vars
    PROVE  (closeCalled => closeCalled') /\ (released => released')
<1>1. CASE UNCHANGED <<closeCalled, released>>
  BY <1>1
<1>2. CASE CloseRead /\ ClientMoves
  BY <1>2 DEF CloseRead, ClientMoves, lifeVars, timerVars, closeVars, checkerVars,
     acceptorVars, channelVars, clientVars, serverVars
<1>3. CASE AcceptorClose /\ ServerMoves
  BY <1>3 DEF AcceptorClose, ServerMoves, lifeVars, timerVars, closeVars, checkerVars,
     acceptorVars, channelVars, clientVars, serverVars
<1>4. CASE (Connect \/ SetPinpointClient \/ ConnectSucceeded) /\ ClientMoves
  BY <1>1, <1>4 DEF Connect, SetPinpointClient, ConnectSucceeded, ClientMoves, lifeVars,
     timerVars, closeVars, checkerVars, acceptorVars, channelVars, clientVars, serverVars
<1>5. CASE (Establish \/ ConnectFails \/ ClientSeesPeerClosed \/ ServerSeesPeerClosed) /\
             ChannelMoves
  BY <1>1, <1>5 DEF Establish, ConnectFails, ClientSeesPeerClosed, ServerSeesPeerClosed,
     ClientCloses, ServerCloses, ChannelMoves, lifeVars, timerVars, closeVars, checkerVars,
     acceptorVars, channelVars, clientVars, serverVars
<1>6. CASE (ToConnected \/ ToRunWithoutHandshake \/ ReceiveServerClose \/
             ReceiveHandshakeResponse \/ ChannelClosed \/ FinishChannelClosed) /\
             ClientMoves
  BY <1>1, <1>6 DEF ToConnected, ToRunWithoutHandshake, ReceiveServerClose,
     ReceiveHandshakeResponse, ChannelClosed, FinishChannelClosed, ClientWrite,
     HandshakeStart, ClientMoves, lifeVars, timerVars, closeVars, checkerVars, acceptorVars,
     channelVars, clientVars, serverVars
<1>7. CASE (HandshakeJobRead \/ HandshakeJobWrite \/ PingCheck \/ PingRead \/ PingWrite) /\
             ClientMoves
  BY <1>1, <1>7 DEF HandshakeJobRead, HandshakeJobWrite, PingCheck, PingRead, PingWrite,
     ClientWrite, ClientMoves, lifeVars, timerVars, closeVars, checkerVars, acceptorVars,
     channelVars, clientVars, serverVars
<1>8. CASE (CloseToBeingClose \/ SendClosedPacket \/ CloseChannel \/ CloseToClosed \/
             HandshakeAbort \/ StopTimer) /\ ClientMoves
  BY <1>1, <1>8 DEF CloseToBeingClose, SendClosedPacket, CloseChannel, CloseToClosed,
     HandshakeAbort, StopTimer, ClientCloses, ClientWrite, ClientMoves, lifeVars, timerVars,
     closeVars, checkerVars, acceptorVars, channelVars, clientVars, serverVars
<1>9. CASE \/ (Accept \/ Register \/ Start \/ MessageReceived \/ HandleHandshake \/
               HandleClosePacket \/ ChannelDisconnected \/ StopRead \/ StopApply) /\
               ServerMoves
           \/ HandlePingPacket /\ UNCHANGED clientVars
  BY <1>1, <1>9 DEF Accept, Register, Start, MessageReceived, HandleHandshake,
     HandleClosePacket, HandlePingPacket, ChannelDisconnected, StopRead, StopApply, Mark,
     ServerCloses, ServerWrite, Unmark, ServerMoves, lifeVars, timerVars, closeVars,
     checkerVars, acceptorVars, channelVars, clientVars, serverVars
<1>10. CASE (AcceptorSendClose \/ AcceptorWriteClose \/ AcceptorShutdown) /\ ServerMoves
  BY <1>1, <1>10 DEF AcceptorSendClose, AcceptorWriteClose, AcceptorShutdown, ServerCloses,
     ServerWrite, ServerMoves, lifeVars, timerVars, closeVars, checkerVars, acceptorVars,
     channelVars, clientVars, serverVars
<1>11. CASE \/ (Release \/ ReleaseChannel) /\ ClientMoves
            \/ LinkBreaks /\ ChannelMoves
  BY <1>1, <1>11 DEF Release, ReleaseChannel, LinkBreaks, ClientCloses, ChannelMoves,
     ClientMoves, lifeVars, timerVars, closeVars, checkerVars, acceptorVars, channelVars,
     clientVars, serverVars
<1>12. CASE UNCHANGED vars
  BY <1>1, <1>12 DEF vars, lifeVars, timerVars, closeVars, checkerVars, acceptorVars,
     channelVars, clientVars, serverVars
<1>. QED
  BY <1>2, <1>3, <1>4, <1>5, <1>6, <1>7, <1>8, <1>9, <1>10, <1>11, <1>12
  DEF Next, ObligedStep, OpenerStep, NetworkStep, ClientWorkerStep, ClientTimerStep,
      ClosingStep, ServerWorkerStep, AcceptorStep, OptionalStep

\* Every step keeps the client quiet until somebody calls close().
LEMMA ByClientStep ==
    ASSUME TypeOK, ByClientInv, [Next]_vars
    PROVE  ByClientInv'
<1>. SUFFICES ASSUME ~closeCalled'
              PROVE  ClientQuiet'
  BY DEF ByClientInv
<1>0. ClientQuiet
  BY CallsStay DEF ByClientInv
<1>. USE <1>0 DEF ClientQuiet, To
<1>1. CASE UNCHANGED <<closeCalled, uPc, cState, cSeen, c2s, sMsg, sState, sSeen>>
  BY <1>1
<1>2. CASE ServerSeesPeerClosed /\ ChannelMoves
  <2>1. c2s' \in Seq(ClientPackets \ {ClientClose})
    BY <1>2, EmptyType DEF ServerSeesPeerClosed, ServerCloses
  <2>2. UNCHANGED <<closeCalled, uPc, cState, cSeen, sMsg, sState, sSeen>>
    BY <1>2 DEF ServerSeesPeerClosed, ChannelMoves, ServerCloses, lifeVars, timerVars,
       closeVars, checkerVars, acceptorVars, channelVars, clientVars, serverVars
  <2>. QED  BY <2>1, <2>2
<1>3. CASE ToConnected /\ ClientMoves
  BY <1>3 DEF ToConnected, ClientMoves, lifeVars, timerVars, closeVars, checkerVars,
     acceptorVars, channelVars, clientVars, serverVars
<1>4. CASE ToRunWithoutHandshake /\ ClientMoves
  <2>1. Handshake \in ClientPackets \ {ClientClose}
    BY DEF ClientPackets, Handshake, ClientClose
  <2>2. c2s' \in Seq(ClientPackets \ {ClientClose})
    BY <1>4, <2>1, ClientWriteWithin DEF ToRunWithoutHandshake, HandshakeStart
  <2>3. cState' \in {cState, "RUN_WITHOUT_HANDSHAKE"}
    BY <1>4 DEF ToRunWithoutHandshake
  <2>4. UNCHANGED <<closeCalled, uPc, cSeen, sMsg, sState, sSeen>>
    BY <1>4 DEF ToRunWithoutHandshake, ClientMoves, HandshakeStart, ClientWrite, lifeVars,
       timerVars, closeVars, checkerVars, acceptorVars, channelVars, clientVars, serverVars
  <2>. QED  BY <2>1, <2>2, <2>3, <2>4
<1>5. CASE ReceiveServerClose /\ ClientMoves
  BY <1>5 DEF ReceiveServerClose, ClientMoves, lifeVars, timerVars, closeVars, checkerVars,
     acceptorVars, channelVars, clientVars, serverVars
<1>6. CASE ReceiveHandshakeResponse /\ ClientMoves
  <2>1. RunStateOf(Head(s2c).code) \in {"NONE", "RUN_SIMPLEX", "RUN_DUPLEX"}
    BY DEF RunStateOf
  <2>. QED  BY <1>6, <2>1 DEF ReceiveHandshakeResponse, ClientMoves, lifeVars, timerVars,
          closeVars, checkerVars, acceptorVars, channelVars, clientVars, serverVars
<1>7. CASE ChannelClosed /\ ClientMoves
  <2>1. cSeen'.state = cState
    BY <1>7 DEF ChannelClosed
  <2>2. UNCHANGED <<closeCalled, uPc, cState, c2s, sMsg, sState, sSeen>>
    BY <1>7 DEF ChannelClosed, ClientMoves, lifeVars, timerVars, closeVars, checkerVars,
       acceptorVars, channelVars, clientVars, serverVars
  <2>. QED  BY <2>1, <2>2
<1>8. CASE FinishChannelClosed /\ ClientMoves
  BY <1>8, ClosedTargetNames DEF FinishChannelClosed, ClientMoves, lifeVars, timerVars,
     closeVars, checkerVars, acceptorVars, channelVars, clientVars, serverVars
<1>9. CASE HandshakeJobWrite /\ ClientMoves
  <2>1. Handshake \in ClientPackets \ {ClientClose}
    BY DEF TypeOK, ClientTypeOK, ClientPackets, Handshake, ClientClose
  <2>2. c2s' \in Seq(ClientPackets \ {ClientClose})
    BY <1>9, <2>1, ClientWriteWithin DEF HandshakeJobWrite
  <2>3. UNCHANGED <<closeCalled, uPc, cState, cSeen, sMsg, sState, sSeen>>
    BY <1>9 DEF HandshakeJobWrite, ClientMoves, ClientWrite, lifeVars, timerVars, closeVars,
       checkerVars, acceptorVars, channelVars, clientVars, serverVars
  <2>. QED  BY <2>1, <2>2, <2>3
<1>10. CASE PingWrite /\ ClientMoves
  <2>1. Ping(tPing) \in ClientPackets \ {ClientClose}
    BY DEF TypeOK, ClientTypeOK, ClientPackets, Ping, ClientClose
  <2>2. c2s' \in Seq(ClientPackets \ {ClientClose})
    BY <1>10, <2>1, ClientWriteWithin DEF PingWrite
  <2>3. UNCHANGED <<closeCalled, uPc, cState, cSeen, sMsg, sState, sSeen>>
    BY <1>10 DEF PingWrite, ClientMoves, ClientWrite, lifeVars, timerVars, closeVars,
       checkerVars, acceptorVars, channelVars, clientVars, serverVars
  <2>. QED  BY <2>1, <2>2, <2>3
<1>11. CASE CloseToBeingClose /\ ClientMoves
  BY <1>0, <1>11 DEF CloseToBeingClose
<1>12. CASE SendClosedPacket /\ ClientMoves
  BY <1>0, <1>12 DEF SendClosedPacket
<1>13. CASE CloseChannel /\ ClientMoves
  BY <1>0, <1>13 DEF CloseChannel
<1>14. CASE CloseToClosed /\ ClientMoves
  BY <1>0, <1>14 DEF CloseToClosed
<1>15. CASE HandshakeAbort /\ ClientMoves
  BY <1>0, <1>15 DEF HandshakeAbort
<1>16. CASE StopTimer /\ ClientMoves
  BY <1>0, <1>16 DEF StopTimer
<1>17. CASE Accept /\ ServerMoves
  <2>1. c2s' \in Seq(ClientPackets \ {ClientClose})
    BY <1>17, EmptyType DEF Accept, ServerCloses
  <2>2. UNCHANGED <<closeCalled, uPc, cState, cSeen, sMsg, sState, sSeen>>
    BY <1>17 DEF Accept, ServerMoves, ServerCloses, ServerWrite, lifeVars, timerVars,
       closeVars, checkerVars, acceptorVars, channelVars, clientVars, serverVars
  <2>. QED  BY <2>1, <2>2
<1>18. CASE Start /\ ServerMoves
  BY <1>18 DEF Start, ServerMoves, lifeVars, timerVars, closeVars, checkerVars,
     acceptorVars, channelVars, clientVars, serverVars
<1>19. CASE MessageReceived /\ ServerMoves
  <2>1. c2s # <<>> /\ c2s' = Tail(c2s) /\ sMsg' \in {sMsg, Head(c2s)}
    BY <1>19 DEF MessageReceived
  <2>2. Head(c2s) # ClientClose /\ c2s' \in Seq(ClientPackets \ {ClientClose})
    BY <2>1, TailType
  <2>3. UNCHANGED <<closeCalled, uPc, cState, cSeen, sState, sSeen>>
    BY <1>19 DEF MessageReceived, ServerMoves, lifeVars, timerVars, closeVars, checkerVars,
       acceptorVars, channelVars, clientVars, serverVars
  <2>. QED  BY <2>1, <2>2, <2>3
<1>20. CASE HandleHandshake /\ ServerMoves
  <2>1. Granted(answer) \in {"NONE", "RUN_SIMPLEX", "RUN_DUPLEX"}
    BY GrantedRuns
  <2>2. sMsg' # ClientClose
    BY <1>20 DEF HandleHandshake, NoPacket, ClientClose
  <2>3. sState' \in {sState, "RUN_SIMPLEX", "RUN_DUPLEX"}
    BY <1>20, <2>1 DEF HandleHandshake
  <2>4. UNCHANGED <<closeCalled, uPc, cState, cSeen, c2s, sSeen>>
    BY <1>20 DEF HandleHandshake, ServerMoves, ServerWrite, lifeVars, timerVars, closeVars,
       checkerVars, acceptorVars, channelVars, clientVars, serverVars
  <2>. QED  BY <2>1, <2>2, <2>3, <2>4
<1>21. CASE HandleClosePacket /\ ServerMoves
  BY <1>0, <1>21 DEF HandleClosePacket
<1>22. CASE HandlePingPacket /\ UNCHANGED clientVars
  <2>1. sState' \in {sState, "ERROR_SYNC_STATE_SESSION"}
    BY <1>22 DEF HandlePingPacket
  <2>2. sMsg' # ClientClose
    BY <1>22 DEF HandlePingPacket, NoPacket, ClientClose
  <2>3. UNCHANGED <<closeCalled, uPc, cState, cSeen, c2s, sSeen>>
    BY <1>22 DEF HandlePingPacket, clientVars, Mark, Unmark, lifeVars, timerVars, closeVars,
       checkerVars, acceptorVars, channelVars, serverVars
  <2>. QED  BY <2>1, <2>2, <2>3
<1>23. CASE StopRead /\ ServerMoves
  BY <1>23 DEF StopRead, ServerMoves, lifeVars, timerVars, closeVars, checkerVars,
     acceptorVars, channelVars, clientVars, serverVars
<1>24. CASE StopApply /\ ServerMoves
  <2>1. c2s' \in Seq(ClientPackets \ {ClientClose})
    BY <1>24, EmptyType DEF StopApply, ServerCloses
  <2>2. sState' \notin {"BEING_CLOSE_BY_CLIENT", "CLOSED_BY_CLIENT"}
    BY <1>24, StopTargetNames DEF StopApply
  <2>3. sSeen' # "BEING_CLOSE_BY_CLIENT"
    BY <1>24 DEF StopApply
  <2>4. UNCHANGED <<closeCalled, uPc, cState, cSeen, sMsg>>
    BY <1>24 DEF StopApply, ServerMoves, ServerCloses, lifeVars, timerVars, closeVars,
       checkerVars, acceptorVars, channelVars, clientVars, serverVars
  <2>. QED  BY <2>1, <2>2, <2>3, <2>4
<1>25. CASE AcceptorSendClose /\ ServerMoves
  BY <1>25 DEF AcceptorSendClose, ServerMoves, lifeVars, timerVars, closeVars, checkerVars,
     acceptorVars, channelVars, clientVars, serverVars
<1>26. CASE AcceptorShutdown /\ ServerMoves
  <2>1. c2s' \in Seq(ClientPackets \ {ClientClose})
    BY <1>26, EmptyType DEF AcceptorShutdown, ServerCloses
  <2>2. UNCHANGED <<closeCalled, uPc, cState, cSeen, sMsg, sState, sSeen>>
    BY <1>26 DEF AcceptorShutdown, ServerMoves, ServerCloses, lifeVars, timerVars, closeVars,
       checkerVars, acceptorVars, channelVars, clientVars, serverVars
  <2>. QED  BY <2>1, <2>2
<1>27. CASE CloseRead /\ ClientMoves
  BY <1>0, <1>27 DEF CloseRead
<1>28. CASE (Connect \/ SetPinpointClient \/ ConnectSucceeded) /\ ClientMoves
  BY <1>1, <1>28 DEF Connect, SetPinpointClient, ConnectSucceeded, ClientMoves, lifeVars,
     timerVars, closeVars, checkerVars, acceptorVars, channelVars, clientVars, serverVars
<1>29. CASE (Establish \/ ConnectFails \/ ClientSeesPeerClosed) /\ ChannelMoves
  BY <1>1, <1>29 DEF Establish, ConnectFails, ClientSeesPeerClosed, ClientCloses,
     ChannelMoves, lifeVars, timerVars, closeVars, checkerVars, acceptorVars, channelVars,
     clientVars, serverVars
<1>30. CASE (HandshakeJobRead \/ PingCheck \/ PingRead) /\ ClientMoves
  BY <1>1, <1>30 DEF HandshakeJobRead, PingCheck, PingRead, ClientMoves, lifeVars,
     timerVars, closeVars, checkerVars, acceptorVars, channelVars, clientVars, serverVars
<1>31. CASE (Register \/ ChannelDisconnected) /\ ServerMoves
  BY <1>1, <1>31 DEF Register, ChannelDisconnected, ServerMoves, lifeVars, timerVars,
     closeVars, checkerVars, acceptorVars, channelVars, clientVars, serverVars
<1>32. CASE AcceptorWriteClose /\ ServerMoves
  BY <1>1, <1>32 DEF AcceptorWriteClose, ServerWrite, ServerMoves, lifeVars, timerVars,
     closeVars, checkerVars, acceptorVars, channelVars, clientVars, serverVars
<1>33. CASE \/ (Release \/ ReleaseChannel) /\ ClientMoves
            \/ AcceptorClose /\ ServerMoves
            \/ LinkBreaks /\ ChannelMoves
  BY <1>1, <1>33 DEF Release, ReleaseChannel, AcceptorClose, LinkBreaks, ClientCloses,
     ChannelMoves, ClientMoves, ServerMoves, lifeVars, timerVars, closeVars, checkerVars,
     acceptorVars, channelVars, clientVars, serverVars
<1>34. CASE UNCHANGED vars
  BY <1>1, <1>34 DEF vars, lifeVars, timerVars, closeVars, checkerVars, acceptorVars,
     channelVars, clientVars, serverVars
<1>. QED
  BY <1>2, <1>3, <1>4, <1>5, <1>6, <1>7, <1>8, <1>9, <1>10, <1>11, <1>12, <1>13, <1>14,
     <1>15, <1>16, <1>17, <1>18, <1>19, <1>20, <1>21, <1>22, <1>23, <1>24, <1>25, <1>26,
     <1>27, <1>28, <1>29, <1>30, <1>31, <1>32, <1>33, <1>34
  DEF Next, ObligedStep, OpenerStep, NetworkStep, ClientWorkerStep, ClientTimerStep,
      ClosingStep, ServerWorkerStep, AcceptorStep, OptionalStep

\* Every step keeps the server quiet until the acceptor is released.
LEMMA ByServerStep ==
    ASSUME TypeOK, ByServerInv, [Next]_vars
    PROVE  ByServerInv'
<1>. SUFFICES ASSUME ~released'
              PROVE  ServerQuiet'
  BY DEF ByServerInv
<1>0. ServerQuiet /\ ~released
  BY CallsStay DEF ByServerInv
<1>. USE <1>0 DEF ServerQuiet, To
<1>1. CASE UNCHANGED <<released, aPc, sState, sSeen, s2c, cState, cSeen>>
  BY <1>1
<1>2. CASE ConnectFails /\ ChannelMoves
  <2>1. s2c' \in Seq(ServerPackets \ {ServerClose})
    BY <1>2, EmptyType DEF ConnectFails, ClientCloses
  <2>2. UNCHANGED <<released, aPc, sState, sSeen, cState, cSeen>>
    BY <1>2 DEF ConnectFails, ChannelMoves, ClientCloses, lifeVars, timerVars, closeVars,
       checkerVars, acceptorVars, channelVars, clientVars, serverVars
  <2>. QED  BY <2>1, <2>2
<1>3. CASE ClientSeesPeerClosed /\ ChannelMoves
  <2>1. s2c' \in Seq(ServerPackets \ {ServerClose})
    BY <1>3, EmptyType DEF ClientSeesPeerClosed, ClientCloses
  <2>2. UNCHANGED <<released, aPc, sState, sSeen, cState, cSeen>>
    BY <1>3 DEF ClientSeesPeerClosed, ChannelMoves, ClientCloses, lifeVars, timerVars,
       closeVars, checkerVars, acceptorVars, channelVars, clientVars, serverVars
  <2>. QED  BY <2>1, <2>2
<1>4. CASE ToConnected /\ ClientMoves
  BY <1>4 DEF ToConnected, ClientMoves, lifeVars, timerVars, closeVars, checkerVars,
     acceptorVars, channelVars, clientVars, serverVars
<1>5. CASE ToRunWithoutHandshake /\ ClientMoves
  BY <1>5 DEF ToRunWithoutHandshake, HandshakeStart, ClientWrite, ClientMoves, lifeVars,
     timerVars, closeVars, checkerVars, acceptorVars, channelVars, clientVars, serverVars
<1>6. CASE ReceiveServerClose /\ ClientMoves
  <2>1. Head(s2c) # ServerClose
    BY <1>6, TailType DEF ReceiveServerClose
  <2>. QED  BY <1>6, <2>1 DEF ReceiveServerClose, ClientMoves, lifeVars, timerVars, closeVars,
          checkerVars, acceptorVars, channelVars, clientVars, serverVars
<1>7. CASE ReceiveHandshakeResponse /\ ClientMoves
  <2>1. s2c' \in Seq(ServerPackets \ {ServerClose})
    BY <1>7, TailType DEF ReceiveHandshakeResponse
  <2>2. RunStateOf(Head(s2c).code) \in {"NONE", "RUN_SIMPLEX", "RUN_DUPLEX"}
    BY DEF RunStateOf
  <2>3. cState' \in {cState, "RUN_SIMPLEX", "RUN_DUPLEX"}
    BY <1>7, <2>2 DEF ReceiveHandshakeResponse
  <2>4. UNCHANGED <<released, aPc, sState, sSeen, cSeen>>
    BY <1>7 DEF ReceiveHandshakeResponse, ClientMoves, lifeVars, timerVars, closeVars,
       checkerVars, acceptorVars, channelVars, clientVars, serverVars
  <2>. QED  BY <2>1, <2>2, <2>3, <2>4
<1>8. CASE ChannelClosed /\ ClientMoves
  <2>1. cSeen'.state = cState
    BY <1>8 DEF ChannelClosed
  <2>2. UNCHANGED <<released, aPc, sState, sSeen, s2c, cState>>
    BY <1>8 DEF ChannelClosed, ClientMoves, lifeVars, timerVars, closeVars, checkerVars,
       acceptorVars, channelVars, clientVars, serverVars
  <2>. QED  BY <2>1, <2>2
<1>9. CASE FinishChannelClosed /\ ClientMoves
  BY <1>9, ClosedTargetNames DEF FinishChannelClosed, ClientMoves, lifeVars, timerVars,
     closeVars, checkerVars, acceptorVars, channelVars, clientVars, serverVars
<1>10. CASE CloseToBeingClose /\ ClientMoves
  BY <1>10 DEF CloseToBeingClose, ClientMoves, lifeVars, timerVars, closeVars, checkerVars,
     acceptorVars, channelVars, clientVars, serverVars
<1>11. CASE CloseChannel /\ ClientMoves
  <2>1. s2c' \in Seq(ServerPackets \ {ServerClose})
    BY <1>11, EmptyType DEF CloseChannel, ClientCloses
  <2>2. UNCHANGED <<released, aPc, sState, sSeen, cState, cSeen>>
    BY <1>11 DEF CloseChannel, ClientMoves, ClientCloses, lifeVars, timerVars, closeVars,
       checkerVars, acceptorVars, channelVars, clientVars, serverVars
  <2>. QED  BY <2>1, <2>2
<1>12. CASE CloseToClosed /\ ClientMoves
  BY <1>12 DEF CloseToClosed, ClientMoves, lifeVars, timerVars, closeVars, checkerVars,
     acceptorVars, channelVars, clientVars, serverVars
<1>13. CASE Start /\ ServerMoves
  BY <1>13 DEF Start, ServerMoves, lifeVars, timerVars, closeVars, checkerVars,
     acceptorVars, channelVars, clientVars, serverVars
<1>14. CASE HandleHandshake /\ ServerMoves
  <2>1. Granted(answer) \in {"NONE", "RUN_SIMPLEX", "RUN_DUPLEX"}
    BY GrantedRuns
  <2>2. answer \in HandshakeCodes /\ (~properties) \in BOOLEAN
    BY DEF TypeOK, ServerTypeOK
  <2>3. HandshakeResponse(ResponseCode(answer, ~properties)) \in ServerPackets \ {ServerClose}
    BY <2>2, ResponseType DEF HandshakeResponse, ServerClose
  <2>4. s2c' \in Seq(ServerPackets \ {ServerClose})
    BY <1>14, <2>3, ServerWriteWithin DEF HandleHandshake
  <2>5. sState' \in {sState, "RUN_SIMPLEX", "RUN_DUPLEX"}
    BY <1>14, <2>1 DEF HandleHandshake
  <2>6. UNCHANGED <<released, aPc, sSeen, cState, cSeen>>
    BY <1>14 DEF HandleHandshake, ServerMoves, ServerWrite, lifeVars, timerVars, closeVars,
       checkerVars, acceptorVars, channelVars, clientVars, serverVars
  <2>. QED  BY <2>1, <2>2, <2>3, <2>4, <2>5, <2>6
<1>15. CASE HandleClosePacket /\ ServerMoves
  BY <1>15 DEF HandleClosePacket, ServerMoves, lifeVars, timerVars, closeVars, checkerVars,
     acceptorVars, channelVars, clientVars, serverVars
<1>16. CASE HandlePingPacket /\ UNCHANGED clientVars
  <2>1. sState' \in {sState, "ERROR_SYNC_STATE_SESSION"}
    BY <1>16 DEF HandlePingPacket
  <2>2. UNCHANGED <<released, aPc, sSeen, s2c, cState, cSeen>>
    BY <1>16 DEF HandlePingPacket, clientVars, Mark, Unmark, lifeVars, timerVars, closeVars,
       checkerVars, acceptorVars, channelVars, serverVars
  <2>. QED  BY <2>1, <2>2
<1>17. CASE StopRead /\ ServerMoves
  BY <1>17 DEF StopRead, ServerMoves, lifeVars, timerVars, closeVars, checkerVars,
     acceptorVars, channelVars, clientVars, serverVars
<1>18. CASE StopApply /\ ServerMoves
  <2>1. sState' \notin {"BEING_CLOSE_BY_SERVER", "CLOSED_BY_SERVER"}
    BY <1>18, StopTargetNames DEF StopApply
  <2>2. sSeen' # "BEING_CLOSE_BY_SERVER"
    BY <1>18 DEF StopApply
  <2>3. UNCHANGED <<released, aPc, s2c, cState, cSeen>>
    BY <1>18 DEF StopApply, ServerMoves, ServerCloses, lifeVars, timerVars, closeVars,
       checkerVars, acceptorVars, channelVars, clientVars, serverVars
  <2>. QED  BY <2>1, <2>2, <2>3
<1>19. CASE AcceptorSendClose /\ ServerMoves
  BY <1>0, <1>19 DEF AcceptorSendClose
<1>20. CASE AcceptorWriteClose /\ ServerMoves
  BY <1>0, <1>20 DEF AcceptorWriteClose
<1>21. CASE AcceptorShutdown /\ ServerMoves
  BY <1>0, <1>21 DEF AcceptorShutdown
<1>22. CASE ReleaseChannel /\ ClientMoves
  <2>1. s2c' \in Seq(ServerPackets \ {ServerClose})
    BY <1>22, EmptyType DEF ReleaseChannel, ClientCloses
  <2>2. UNCHANGED <<released, aPc, sState, sSeen, cState, cSeen>>
    BY <1>22 DEF ReleaseChannel, ClientMoves, ClientCloses, lifeVars, timerVars, closeVars,
       checkerVars, acceptorVars, channelVars, clientVars, serverVars
  <2>. QED  BY <2>1, <2>2
<1>23. CASE AcceptorClose /\ ServerMoves
  BY <1>0, <1>23 DEF AcceptorClose
<1>24. CASE (Connect \/ SetPinpointClient \/ ConnectSucceeded) /\ ClientMoves
  BY <1>1, <1>24 DEF Connect, SetPinpointClient, ConnectSucceeded, ClientMoves, lifeVars,
     timerVars, closeVars, checkerVars, acceptorVars, channelVars, clientVars, serverVars
<1>25. CASE (Establish \/ ServerSeesPeerClosed) /\ ChannelMoves
  BY <1>1, <1>25 DEF Establish, ServerSeesPeerClosed, ServerCloses, ChannelMoves, lifeVars,
     timerVars, closeVars, checkerVars, acceptorVars, channelVars, clientVars, serverVars
<1>26. CASE (HandshakeJobRead \/ HandshakeJobWrite \/ PingCheck \/ PingRead \/ PingWrite) /\
              ClientMoves
  BY <1>1, <1>26 DEF HandshakeJobRead, HandshakeJobWrite, PingCheck, PingRead, PingWrite,
     ClientWrite, ClientMoves, lifeVars, timerVars, closeVars, checkerVars, acceptorVars,
     channelVars, clientVars, serverVars
<1>27. CASE (SendClosedPacket \/ HandshakeAbort \/ StopTimer) /\ ClientMoves
  BY <1>1, <1>27 DEF SendClosedPacket, HandshakeAbort, StopTimer, ClientWrite, ClientMoves,
     lifeVars, timerVars, closeVars, checkerVars, acceptorVars, channelVars, clientVars,
     serverVars
<1>28. CASE (Accept \/ Register \/ MessageReceived \/ ChannelDisconnected) /\ ServerMoves
  BY <1>1, <1>28 DEF Accept, Register, MessageReceived, ChannelDisconnected, ServerCloses,
     ServerWrite, ServerMoves, lifeVars, timerVars, closeVars, checkerVars, acceptorVars,
     channelVars, clientVars, serverVars
<1>29. CASE \/ (CloseRead \/ Release) /\ ClientMoves
            \/ LinkBreaks /\ ChannelMoves
  BY <1>1, <1>29 DEF CloseRead, Release, LinkBreaks, ChannelMoves, ClientMoves, lifeVars,
     timerVars, closeVars, checkerVars, acceptorVars, channelVars, clientVars, serverVars
<1>30. CASE UNCHANGED vars
  BY <1>1, <1>30 DEF vars, lifeVars, timerVars, closeVars, checkerVars, acceptorVars,
     channelVars, clientVars, serverVars
<1>. QED
  BY <1>2, <1>3, <1>4, <1>5, <1>6, <1>7, <1>8, <1>9, <1>10, <1>11, <1>12, <1>13, <1>14,
     <1>15, <1>16, <1>17, <1>18, <1>19, <1>20, <1>21, <1>22, <1>23, <1>24, <1>25, <1>26,
     <1>27, <1>28, <1>29, <1>30
  DEF Next, ObligedStep, OpenerStep, NetworkStep, ClientWorkerStep, ClientTimerStep,
      ClosingStep, ServerWorkerStep, AcceptorStep, OptionalStep

\* A closing state names the end that began it: no end believes that its peer is closing, and
\* none says so of itself, unless the owner of that end asked for it.
THEOREM ClosesHaveAuthors == Spec => []CloseHasAnAuthor
<1>1. Init => ByClientInv /\ ByServerInv
  BY EmptyType
  DEF Init, ChannelInit, ClientInit, ServerInit, ByClientInv, ByServerInv, ClientQuiet,
      ServerQuiet, NoPacket, ClientClose
<1>2. TypeOK /\ ByClientInv /\ ByServerInv /\ [Next]_vars => (ByClientInv /\ ByServerInv)'
  BY ByClientStep, ByServerStep
<1>3. ByClientInv /\ ByServerInv => CloseHasAnAuthor
  BY DEF ByClientInv, ByServerInv, ClientQuiet, ServerQuiet, CloseHasAnAuthor
<1>. QED  BY <1>1, <1>2, <1>3, TypeCorrect, PTL DEF Spec

(***************************************************************************)
(* How an end ends: its last event leaves it closed.                       *)
(***************************************************************************)

\* As long as nobody called close(), the client's state is the one its worker's place in the
\* life of the channel allows.
ClientEndInv ==
    ~closeCalled =>
        /\ cIo = "opening" => IsBeforeConnected(cState)
        /\ cIo = "toRun" => cState = "CONNECTED"
        /\ cIo = "open" => IsRun(cState) \/ cState = "BEING_CLOSE_BY_SERVER"
        /\ cIo = "closing" =>
              /\ cSeen.state = cState
              /\ \/ IsBeforeConnected(cState)
                 \/ IsRun(cState)
                 \/ cState = "BEING_CLOSE_BY_SERVER"
        /\ cIo = "done" => IsClosed(cState) \/ cState \in {"CONNECT_FAILED", "NONE"}

\* Only connect() begins without a state; channelClosed saw the factory released only if it is.
SeenInv ==
    /\ cState = "NONE" => mode = "connect"
    /\ cSeen.released => factoryReleased

\* As long as the acceptor is not released, the same of the server.
ServerEndInv ==
    ~released =>
        /\ sIo \in {"opening", "register", "start"} => sState = "NONE"
        /\ sIo = "handle" => IsRun(sState)
        /\ sIo \in {"open", "stop", "stopping"} =>
              IsRun(sState) \/ sState = "BEING_CLOSE_BY_CLIENT" \/ IsClosed(sState)
        /\ sIo = "stopping" => sSeen = sState
        /\ sIo = "done" => IsClosed(sState)

\* Which codes are run codes, which are closed, and which come before the connection.
LEMMA CodeKinds ==
    ASSUME NEW code
    PROVE  /\ IsRun(code) <=> code \in {"RUN_WITHOUT_HANDSHAKE", "RUN_SIMPLEX", "RUN_DUPLEX"}
           /\ IsBeforeConnected(code) <=> code \in {"NONE", "BEING_CONNECT"}
           /\ IsClosed(code) <=>
                 code \in {"CLOSED_BY_CLIENT", "UNEXPECTED_CLOSE_BY_CLIENT", "CLOSED_BY_SERVER",
                           "UNEXPECTED_CLOSE_BY_SERVER", "ERROR_UNKNOWN",
                           "ERROR_ILLEGAL_STATE_CHANGE", "ERROR_SYNC_STATE_SESSION"}
BY DEF IsRun, RunCodes, IsBeforeConnected, IsClosed, ClosedCodes, ErrorCodes

\* The changes a connection makes from its opening to its end are legal.
LEMMA LifeChanges ==
    /\ CanChangeState("NONE", "CONNECTED") /\ CanChangeState("BEING_CONNECT", "CONNECTED")
    /\ CanChangeState("CONNECTED", "RUN_WITHOUT_HANDSHAKE")
    /\ CanChangeState("BEING_CONNECT", "CONNECT_FAILED")
    /\ ~CanChangeState("NONE", "CONNECT_FAILED")
    /\ CanChangeState("BEING_CLOSE_BY_SERVER", "CLOSED_BY_SERVER")
    /\ CanChangeState("BEING_CLOSE_BY_CLIENT", "CLOSED_BY_CLIENT")
    /\ \A code : IsRun(code) => /\ CanChangeState(code, "UNEXPECTED_CLOSE_BY_CLIENT")
                                /\ CanChangeState(code, "UNEXPECTED_CLOSE_BY_SERVER")
BY DEF CanChangeState, ValidBefore, IsError, IsRun, RunCodes, ClosingCodes

\* A packet that is refused leaves the state; one that is not leads where it says.
LEMMA ToOneOf == ASSUME NEW code, NEW next PROVE To(code, next) \in {code, next}
BY DEF To

\* channelClosed ends a handler nobody closed in a closed state, or lets a connect fail.
LEMMA ClosedTargetEnds ==
    ASSUME NEW seen \in [state : SocketStateCodes, released : BOOLEAN],
           \/ IsBeforeConnected(seen.state)
           \/ IsRun(seen.state)
           \/ seen.state = "BEING_CLOSE_BY_SERVER"
    PROVE  LET next == To(seen.state, ClosedTarget(seen))
           IN  IsClosed(next) \/ next \in {"CONNECT_FAILED", "NONE"}
<1>1. CASE IsBeforeConnected(seen.state)
  <2>1. ClosedTarget(seen) = "CONNECT_FAILED"
    BY <1>1, CodeKinds DEF ClosedTarget
  <2>. QED  BY <1>1, <2>1, LifeChanges, CodeKinds DEF To
<1>2. CASE IsRun(seen.state)
  <2>1. ClosedTarget(seen) \in {"UNEXPECTED_CLOSE_BY_CLIENT", "UNEXPECTED_CLOSE_BY_SERVER"}
    BY <1>2, CodeKinds DEF ClosedTarget
  <2>. QED  BY <1>2, <2>1, LifeChanges, CodeKinds DEF To
<1>3. CASE seen.state = "BEING_CLOSE_BY_SERVER"
  <2>1. ClosedTarget(seen) = "CLOSED_BY_SERVER"
    BY <1>3, CodeKinds DEF ClosedTarget
  <2>. QED  BY <1>3, <2>1, LifeChanges, CodeKinds DEF To
<1>. QED  BY <1>1, <1>2, <1>3

\* stop ends a socket that runs, or whose client is closing, in a closed state.
LEMMA StopTargetEnds ==
    ASSUME NEW code \in SocketStateCodes, NEW serverStop \in BOOLEAN,
           IsRun(code) \/ code = "BEING_CLOSE_BY_CLIENT"
    PROVE  IsClosed(To(code, StopTarget(code, serverStop)))
<1>1. CASE IsRun(code)
  <2>1. StopTarget(code, serverStop) \in
            {"UNEXPECTED_CLOSE_BY_CLIENT", "UNEXPECTED_CLOSE_BY_SERVER"}
    BY <1>1, CodeKinds DEF StopTarget
  <2>. QED  BY <1>1, <2>1, LifeChanges, CodeKinds DEF To
<1>2. CASE code = "BEING_CLOSE_BY_CLIENT"
  <2>1. StopTarget(code, serverStop) = "CLOSED_BY_CLIENT"
    BY <1>2, CodeKinds DEF StopTarget
  <2>. QED  BY <1>2, <2>1, LifeChanges, CodeKinds DEF To
<1>. QED  BY <1>1, <1>2

\* Every step keeps what channelClosed saw.
LEMMA SeenStep ==
    ASSUME SeenInv, [Next]_vars
    PROVE  SeenInv'
<1>. USE DEF SeenInv, To
<1>1. CASE UNCHANGED <<cState, mode, cSeen, factoryReleased>>
  BY <1>1
<1>2. CASE ToConnected /\ ClientMoves
  BY <1>2 DEF ToConnected, ClientMoves, lifeVars, timerVars, closeVars, checkerVars,
     acceptorVars, channelVars, clientVars, serverVars
<1>3. CASE ToRunWithoutHandshake /\ ClientMoves
  BY <1>3 DEF ToRunWithoutHandshake, HandshakeStart, ClientWrite, ClientMoves, lifeVars,
     timerVars, closeVars, checkerVars, acceptorVars, channelVars, clientVars, serverVars
<1>4. CASE ReceiveServerClose /\ ClientMoves
  BY <1>4 DEF ReceiveServerClose, ClientMoves, lifeVars, timerVars, closeVars, checkerVars,
     acceptorVars, channelVars, clientVars, serverVars
<1>5. CASE ReceiveHandshakeResponse /\ ClientMoves
  <2>1. RunStateOf(Head(s2c).code) \in {"NONE", "RUN_SIMPLEX", "RUN_DUPLEX"}
    BY DEF RunStateOf
  <2>2. cState' # "NONE" \/ cState' = cState
    BY <1>5, <2>1 DEF ReceiveHandshakeResponse
  <2>3. UNCHANGED <<mode, cSeen, factoryReleased>>
    BY <1>5 DEF ReceiveHandshakeResponse, ClientMoves, lifeVars, timerVars, closeVars,
       checkerVars, acceptorVars, channelVars, clientVars, serverVars
  <2>. QED  BY <2>1, <2>2, <2>3
<1>6. CASE ChannelClosed /\ ClientMoves
  BY <1>6 DEF ChannelClosed, ClientMoves, lifeVars, timerVars, closeVars, checkerVars,
     acceptorVars, channelVars, clientVars, serverVars
<1>7. CASE FinishChannelClosed /\ ClientMoves
  <2>1. ClosedTarget(cSeen) # "NONE"
    BY DEF ClosedTarget
  <2>. QED  BY <1>7, <2>1 DEF FinishChannelClosed, ClientMoves, lifeVars, timerVars,
          closeVars, checkerVars, acceptorVars, channelVars, clientVars, serverVars
<1>8. CASE CloseToBeingClose /\ ClientMoves
  BY <1>8 DEF CloseToBeingClose, ClientMoves, lifeVars, timerVars, closeVars, checkerVars,
     acceptorVars, channelVars, clientVars, serverVars
<1>9. CASE CloseToClosed /\ ClientMoves
  BY <1>9 DEF CloseToClosed, ClientMoves, lifeVars, timerVars, closeVars, checkerVars,
     acceptorVars, channelVars, clientVars, serverVars
<1>10. CASE Release /\ ClientMoves
  BY <1>10 DEF Release, ClientMoves, lifeVars, timerVars, closeVars, checkerVars,
     acceptorVars, channelVars, clientVars, serverVars
<1>11. CASE (Connect \/ SetPinpointClient \/ ConnectSucceeded) /\ ClientMoves
  BY <1>1, <1>11 DEF Connect, SetPinpointClient, ConnectSucceeded, ClientMoves, lifeVars,
     timerVars, closeVars, checkerVars, acceptorVars, channelVars, clientVars, serverVars
<1>12. CASE (Establish \/ ConnectFails \/ ClientSeesPeerClosed \/ ServerSeesPeerClosed) /\
              ChannelMoves
  BY <1>1, <1>12 DEF Establish, ConnectFails, ClientSeesPeerClosed, ServerSeesPeerClosed,
     ClientCloses, ServerCloses, ChannelMoves, lifeVars, timerVars, closeVars, checkerVars,
     acceptorVars, channelVars, clientVars, serverVars
<1>13. CASE (HandshakeJobRead \/ HandshakeJobWrite \/ PingCheck \/ PingRead \/ PingWrite) /\
              ClientMoves
  BY <1>1, <1>13 DEF HandshakeJobRead, HandshakeJobWrite, PingCheck, PingRead, PingWrite,
     ClientWrite, ClientMoves, lifeVars, timerVars, closeVars, checkerVars, acceptorVars,
     channelVars, clientVars, serverVars
<1>14. CASE (SendClosedPacket \/ CloseChannel \/ HandshakeAbort \/ StopTimer) /\ ClientMoves
  BY <1>1, <1>14 DEF SendClosedPacket, CloseChannel, HandshakeAbort, StopTimer,
     ClientCloses, ClientWrite, ClientMoves, lifeVars, timerVars, closeVars, checkerVars,
     acceptorVars, channelVars, clientVars, serverVars
<1>15. CASE \/ (Accept \/ Register \/ Start \/ MessageReceived \/ HandleHandshake \/
                HandleClosePacket \/ ChannelDisconnected \/ StopRead \/ StopApply) /\
                ServerMoves
            \/ HandlePingPacket /\ UNCHANGED clientVars
  BY <1>1, <1>15 DEF Accept, Register, Start, MessageReceived, HandleHandshake,
     HandleClosePacket, HandlePingPacket, ChannelDisconnected, StopRead, StopApply, Mark,
     ServerCloses, ServerWrite, Unmark, ServerMoves, lifeVars, timerVars, closeVars,
     checkerVars, acceptorVars, channelVars, clientVars, serverVars
<1>16. CASE (AcceptorSendClose \/ AcceptorWriteClose \/ AcceptorShutdown) /\ ServerMoves
  BY <1>1, <1>16 DEF AcceptorSendClose, AcceptorWriteClose, AcceptorShutdown, ServerCloses,
     ServerWrite, ServerMoves, lifeVars, timerVars, closeVars, checkerVars, acceptorVars,
     channelVars, clientVars, serverVars
<1>17. CASE \/ (CloseRead \/ ReleaseChannel) /\ ClientMoves
            \/ AcceptorClose /\ ServerMoves
            \/ LinkBreaks /\ ChannelMoves
  BY <1>1, <1>17 DEF CloseRead, ReleaseChannel, AcceptorClose, LinkBreaks, ClientCloses,
     ChannelMoves, ClientMoves, ServerMoves, lifeVars, timerVars, closeVars, checkerVars,
     acceptorVars, channelVars, clientVars, serverVars
<1>18. CASE UNCHANGED vars
  BY <1>1, <1>18 DEF vars, lifeVars, timerVars, closeVars, checkerVars, acceptorVars,
     channelVars, clientVars, serverVars
<1>. QED
  BY <1>2, <1>3, <1>4, <1>5, <1>6, <1>7, <1>8, <1>9, <1>10, <1>11, <1>12, <1>13, <1>14,
     <1>15, <1>16, <1>17, <1>18
  DEF Next, ObligedStep, OpenerStep, NetworkStep, ClientWorkerStep, ClientTimerStep,
      ClosingStep, ServerWorkerStep, AcceptorStep, OptionalStep

\* Every step of a client nobody closed leads on from the state its place allows.
LEMMA ClientEndStep ==
    ASSUME TypeOK, ByClientInv, ClientEndInv, [Next]_vars
    PROVE  ClientEndInv'
<1>. SUFFICES ASSUME ~closeCalled'
              PROVE  ClientEndInv'
  BY DEF ClientEndInv
<1>0. ~closeCalled /\ uPc = "idle"
  BY CallsStay DEF ByClientInv, ClientQuiet
<1>. USE <1>0 DEF ClientEndInv
<1>1. CASE UNCHANGED <<cState, cSeen, cIo, closeCalled>>
  BY <1>1
<1>2. CASE ToConnected /\ ClientMoves
  <2>1. cIo = "opening" /\ cState \in {"NONE", "BEING_CONNECT"}
    BY <1>0, <1>2, CodeKinds DEF ToConnected
  <2>2. cState' = "CONNECTED" /\ cIo' = "toRun"
    BY <1>2, <2>1, LifeChanges DEF ToConnected, To
  <2>3. UNCHANGED <<cSeen>>
    BY <1>2 DEF ToConnected, ClientMoves, lifeVars, timerVars, closeVars, checkerVars,
       acceptorVars, channelVars, clientVars, serverVars
  <2>. QED  BY <2>1, <2>2, <2>3
<1>3. CASE ToRunWithoutHandshake /\ ClientMoves
  <2>1. cState' = "RUN_WITHOUT_HANDSHAKE" /\ cIo' = "open"
    BY <1>3, LifeChanges DEF ToRunWithoutHandshake, To
  <2>2. IsRun(cState')
    BY <2>1, CodeKinds
  <2>3. UNCHANGED <<cSeen>>
    BY <1>3 DEF ToRunWithoutHandshake, ClientMoves, HandshakeStart, ClientWrite, lifeVars,
       timerVars, closeVars, checkerVars, acceptorVars, channelVars, clientVars, serverVars
  <2>. QED  BY <2>1, <2>2, <2>3
<1>4. CASE ReceiveServerClose /\ ClientMoves
  <2>1. cState' = cState \/ cState' = "BEING_CLOSE_BY_SERVER"
    BY <1>4, ToOneOf DEF ReceiveServerClose
  <2>2. cIo = "open" /\ cIo' = "open"
    BY <1>4 DEF ReceiveServerClose
  <2>3. UNCHANGED <<cSeen>>
    BY <1>4 DEF ReceiveServerClose, ClientMoves, lifeVars, timerVars, closeVars, checkerVars,
       acceptorVars, channelVars, clientVars, serverVars
  <2>. QED  BY <2>1, <2>2, <2>3
<1>5. CASE ReceiveHandshakeResponse /\ ClientMoves
  <2>1. RunStateOf(Head(s2c).code) \in {"NONE", "RUN_SIMPLEX", "RUN_DUPLEX"}
    BY DEF RunStateOf
  <2>2. cState' = cState \/ IsRun(cState')
    BY <1>5, <2>1, ToOneOf, CodeKinds DEF ReceiveHandshakeResponse
  <2>3. cIo = "open" /\ cIo' = "open"
    BY <1>5 DEF ReceiveHandshakeResponse
  <2>4. UNCHANGED <<cSeen>>
    BY <1>5 DEF ReceiveHandshakeResponse, ClientMoves, lifeVars, timerVars, closeVars,
       checkerVars, acceptorVars, channelVars, clientVars, serverVars
  <2>. QED  BY <2>1, <2>2, <2>3, <2>4
<1>6. CASE ChannelClosed /\ ClientMoves
  <2>1. cIo \in {"opening", "open"} /\ cIo' = "closing" /\ cSeen'.state = cState
    BY <1>6 DEF ChannelClosed
  <2>2. UNCHANGED <<cState>>
    BY <1>6 DEF ChannelClosed, ClientMoves, lifeVars, timerVars, closeVars, checkerVars,
       acceptorVars, channelVars, clientVars, serverVars
  <2>. QED  BY <2>1, <2>2
<1>7. CASE FinishChannelClosed /\ ClientMoves
  <2>1. cIo = "closing" /\ cIo' = "done" /\ cState' = To(cState, ClosedTarget(cSeen))
    BY <1>7 DEF FinishChannelClosed
  <2>2. /\ cSeen \in [state : SocketStateCodes, released : BOOLEAN]
        /\ cSeen.state = cState
        /\ IsBeforeConnected(cState) \/ IsRun(cState) \/ cState = "BEING_CLOSE_BY_SERVER"
    BY <2>1 DEF TypeOK, ClientTypeOK
  <2>3. IsClosed(cState') \/ cState' \in {"CONNECT_FAILED", "NONE"}
    BY <2>1, <2>2, ClosedTargetEnds
  <2>. QED  BY <2>1, <2>3
<1>8. CASE CloseToBeingClose /\ ClientMoves
  BY <1>0, <1>8 DEF CloseToBeingClose
<1>9. CASE CloseToClosed /\ ClientMoves
  BY <1>0, <1>9 DEF CloseToClosed
<1>10. CASE CloseRead /\ ClientMoves
  BY <1>0, <1>10 DEF CloseRead
<1>11. CASE (Connect \/ SetPinpointClient \/ ConnectSucceeded) /\ ClientMoves
  BY <1>1, <1>11 DEF Connect, SetPinpointClient, ConnectSucceeded, ClientMoves, lifeVars,
     timerVars, closeVars, checkerVars, acceptorVars, channelVars, clientVars, serverVars
<1>12. CASE (Establish \/ ConnectFails \/ ClientSeesPeerClosed \/ ServerSeesPeerClosed) /\
              ChannelMoves
  BY <1>1, <1>12 DEF Establish, ConnectFails, ClientSeesPeerClosed, ServerSeesPeerClosed,
     ClientCloses, ServerCloses, ChannelMoves, lifeVars, timerVars, closeVars, checkerVars,
     acceptorVars, channelVars, clientVars, serverVars
<1>13. CASE (HandshakeJobRead \/ HandshakeJobWrite \/ PingCheck \/ PingRead \/ PingWrite) /\
              ClientMoves
  BY <1>1, <1>13 DEF HandshakeJobRead, HandshakeJobWrite, PingCheck, PingRead, PingWrite,
     ClientWrite, ClientMoves, lifeVars, timerVars, closeVars, checkerVars, acceptorVars,
     channelVars, clientVars, serverVars
<1>14. CASE (SendClosedPacket \/ CloseChannel \/ HandshakeAbort \/ StopTimer) /\ ClientMoves
  BY <1>1, <1>14 DEF SendClosedPacket, CloseChannel, HandshakeAbort, StopTimer,
     ClientCloses, ClientWrite, ClientMoves, lifeVars, timerVars, closeVars, checkerVars,
     acceptorVars, channelVars, clientVars, serverVars
<1>15. CASE \/ (Accept \/ Register \/ Start \/ MessageReceived \/ HandleHandshake \/
                HandleClosePacket \/ ChannelDisconnected \/ StopRead \/ StopApply) /\
                ServerMoves
            \/ HandlePingPacket /\ UNCHANGED clientVars
  BY <1>1, <1>15 DEF Accept, Register, Start, MessageReceived, HandleHandshake,
     HandleClosePacket, HandlePingPacket, ChannelDisconnected, StopRead, StopApply, Mark,
     ServerCloses, ServerWrite, Unmark, ServerMoves, lifeVars, timerVars, closeVars,
     checkerVars, acceptorVars, channelVars, clientVars, serverVars
<1>16. CASE (AcceptorSendClose \/ AcceptorWriteClose \/ AcceptorShutdown) /\ ServerMoves
  BY <1>1, <1>16 DEF AcceptorSendClose, AcceptorWriteClose, AcceptorShutdown, ServerCloses,
     ServerWrite, ServerMoves, lifeVars, timerVars, closeVars, checkerVars, acceptorVars,
     channelVars, clientVars, serverVars
<1>17. CASE \/ (Release \/ ReleaseChannel) /\ ClientMoves
            \/ AcceptorClose /\ ServerMoves
            \/ LinkBreaks /\ ChannelMoves
  BY <1>1, <1>17 DEF Release, ReleaseChannel, AcceptorClose, LinkBreaks, ClientCloses,
     ChannelMoves, ClientMoves, ServerMoves, lifeVars, timerVars, closeVars, checkerVars,
     acceptorVars, channelVars, clientVars, serverVars
<1>18. CASE UNCHANGED vars
  BY <1>1, <1>18 DEF vars, lifeVars, timerVars, closeVars, checkerVars, acceptorVars,
     channelVars, clientVars, serverVars
<1>. QED
  BY <1>2, <1>3, <1>4, <1>5, <1>6, <1>7, <1>8, <1>9, <1>10, <1>11, <1>12, <1>13, <1>14,
     <1>15, <1>16, <1>17, <1>18
  DEF Next, ObligedStep, OpenerStep, NetworkStep, ClientWorkerStep, ClientTimerStep,
      ClosingStep, ServerWorkerStep, AcceptorStep, OptionalStep

\* The same of the server.
LEMMA ServerEndStep ==
    ASSUME TypeOK, ByServerInv, ServerEndInv, [Next]_vars
    PROVE  ServerEndInv'
<1>. SUFFICES ASSUME ~released'
              PROVE  ServerEndInv'
  BY DEF ServerEndInv
<1>0. ~released /\ aPc = "idle"
  BY CallsStay DEF ByServerInv, ServerQuiet
<1>. USE <1>0 DEF ServerEndInv
<1>1. CASE UNCHANGED <<sState, sSeen, sIo, released>>
  BY <1>1
<1>2. CASE Accept /\ ServerMoves
  BY <1>0, <1>2 DEF Accept
<1>3. CASE Register /\ ServerMoves
  BY <1>3 DEF Register, ServerMoves, lifeVars, timerVars, closeVars, checkerVars,
     acceptorVars, channelVars, clientVars, serverVars
<1>4. CASE Start /\ ServerMoves
  <2>1. sState = "NONE" /\ sState' = To(To(sState, "CONNECTED"), "RUN_WITHOUT_HANDSHAKE")
    BY <1>4 DEF Start
  <2>2. sState' = "RUN_WITHOUT_HANDSHAKE" /\ IsRun(sState')
    BY <2>1, LifeChanges, RunCodesOnly DEF To
  <2>. QED  BY <1>4, <2>1, <2>2 DEF Start, ServerMoves, lifeVars, timerVars, closeVars,
          checkerVars, acceptorVars, channelVars, clientVars, serverVars
<1>5. CASE MessageReceived /\ ServerMoves
  BY <1>5 DEF MessageReceived, ServerMoves, lifeVars, timerVars, closeVars, checkerVars,
     acceptorVars, channelVars, clientVars, serverVars
<1>6. CASE HandleHandshake /\ ServerMoves
  <2>1. Granted(answer) \in {"NONE", "RUN_SIMPLEX", "RUN_DUPLEX"}
    BY GrantedRuns
  <2>2. sState' = sState \/ IsRun(sState')
    BY <1>6, <2>1, ToOneOf, RunCodesOnly DEF HandleHandshake
  <2>3. sIo = "handle" /\ sIo' = "open"
    BY <1>6 DEF HandleHandshake
  <2>4. UNCHANGED <<sSeen>>
    BY <1>6 DEF HandleHandshake, ServerMoves, ServerWrite, lifeVars, timerVars, closeVars,
       checkerVars, acceptorVars, channelVars, clientVars, serverVars
  <2>. QED  BY <2>1, <2>2, <2>3, <2>4
<1>7. CASE HandleClosePacket /\ ServerMoves
  <2>1. sState' = sState \/ sState' = "BEING_CLOSE_BY_CLIENT"
    BY <1>7, ToOneOf DEF HandleClosePacket
  <2>2. sIo = "handle" /\ sIo' = "open"
    BY <1>7 DEF HandleClosePacket
  <2>3. UNCHANGED <<sSeen>>
    BY <1>7 DEF HandleClosePacket, ServerMoves, lifeVars, timerVars, closeVars, checkerVars,
       acceptorVars, channelVars, clientVars, serverVars
  <2>. QED  BY <2>1, <2>2, <2>3
<1>8. CASE HandlePingPacket /\ UNCHANGED clientVars
  <2>1. sState' \in {sState, "ERROR_SYNC_STATE_SESSION"}
    BY <1>8, ToOneOf DEF HandlePingPacket
  <2>2. sIo = "handle" /\ sIo' \in {"open", "stop"} /\ sSeen' = sSeen
    BY <1>8 DEF HandlePingPacket
  <2>3. IsClosed("ERROR_SYNC_STATE_SESSION")
    BY CodeKinds
  <2>. QED  BY <2>1, <2>2, <2>3
<1>9. CASE ChannelDisconnected /\ ServerMoves
  BY <1>9 DEF ChannelDisconnected, ServerMoves, lifeVars, timerVars, closeVars, checkerVars,
     acceptorVars, channelVars, clientVars, serverVars
<1>10. CASE StopRead /\ ServerMoves
  BY <1>10 DEF StopRead, ServerMoves, lifeVars, timerVars, closeVars, checkerVars,
     acceptorVars, channelVars, clientVars, serverVars
<1>11. CASE StopApply /\ ServerMoves
  <2>1. /\ sIo = "stopping" /\ sIo' \in {"open", "done"} /\ sSeen = sState
        /\ sState' = IF IsClosed(sState) THEN sState
                     ELSE To(sState, StopTarget(sState, sStop.serverStop))
    BY <1>11 DEF StopApply
  <2>2. sState \in SocketStateCodes /\ sStop.serverStop \in BOOLEAN
    BY DEF TypeOK, ServerTypeOK
  <2>3. IsClosed(sState')
    BY <2>1, <2>2, StopTargetEnds
  <2>. QED  BY <2>1, <2>3
<1>12. CASE AcceptorSendClose /\ ServerMoves
  BY <1>0, <1>12 DEF AcceptorSendClose
<1>13. CASE AcceptorClose /\ ServerMoves
  BY <1>0, <1>13 DEF AcceptorClose
<1>14. CASE (Connect \/ SetPinpointClient \/ ConnectSucceeded) /\ ClientMoves
  BY <1>1, <1>14 DEF Connect, SetPinpointClient, ConnectSucceeded, ClientMoves, lifeVars,
     timerVars, closeVars, checkerVars, acceptorVars, channelVars, clientVars, serverVars
<1>15. CASE (Establish \/ ConnectFails \/ ClientSeesPeerClosed \/ ServerSeesPeerClosed) /\
              ChannelMoves
  BY <1>1, <1>15 DEF Establish, ConnectFails, ClientSeesPeerClosed, ServerSeesPeerClosed,
     ClientCloses, ServerCloses, ChannelMoves, lifeVars, timerVars, closeVars, checkerVars,
     acceptorVars, channelVars, clientVars, serverVars
<1>16. CASE (ToConnected \/ ToRunWithoutHandshake \/ ReceiveServerClose \/
              ReceiveHandshakeResponse \/ ChannelClosed \/ FinishChannelClosed) /\
              ClientMoves
  BY <1>1, <1>16 DEF ToConnected, ToRunWithoutHandshake, ReceiveServerClose,
     ReceiveHandshakeResponse, ChannelClosed, FinishChannelClosed, ClientWrite,
     HandshakeStart, ClientMoves, lifeVars, timerVars, closeVars, checkerVars, acceptorVars,
     channelVars, clientVars, serverVars
<1>17. CASE (HandshakeJobRead \/ HandshakeJobWrite \/ PingCheck \/ PingRead \/ PingWrite) /\
              ClientMoves
  BY <1>1, <1>17 DEF HandshakeJobRead, HandshakeJobWrite, PingCheck, PingRead, PingWrite,
     ClientWrite, ClientMoves, lifeVars, timerVars, closeVars, checkerVars, acceptorVars,
     channelVars, clientVars, serverVars
<1>18. CASE (CloseToBeingClose \/ SendClosedPacket \/ CloseChannel \/ CloseToClosed \/
              HandshakeAbort \/ StopTimer) /\ ClientMoves
  BY <1>1, <1>18 DEF CloseToBeingClose, SendClosedPacket, CloseChannel, CloseToClosed,
     HandshakeAbort, StopTimer, ClientCloses, ClientWrite, ClientMoves, lifeVars, timerVars,
     closeVars, checkerVars, acceptorVars, channelVars, clientVars, serverVars
<1>19. CASE (AcceptorWriteClose \/ AcceptorShutdown) /\ ServerMoves
  BY <1>1, <1>19 DEF AcceptorWriteClose, AcceptorShutdown, ServerCloses, ServerWrite,
     ServerMoves, lifeVars, timerVars, closeVars, checkerVars, acceptorVars, channelVars,
     clientVars, serverVars
<1>20. CASE \/ (CloseRead \/ Release \/ ReleaseChannel) /\ ClientMoves
            \/ LinkBreaks /\ ChannelMoves
  BY <1>1, <1>20 DEF CloseRead, Release, ReleaseChannel, LinkBreaks, ClientCloses,
     ChannelMoves, ClientMoves, lifeVars, timerVars, closeVars, checkerVars, acceptorVars,
     channelVars, clientVars, serverVars
<1>21. CASE UNCHANGED vars
  BY <1>1, <1>21 DEF vars, lifeVars, timerVars, closeVars, checkerVars, acceptorVars,
     channelVars, clientVars, serverVars
<1>. QED
  BY <1>2, <1>3, <1>4, <1>5, <1>6, <1>7, <1>8, <1>9, <1>10, <1>11, <1>12, <1>13, <1>14,
     <1>15, <1>16, <1>17, <1>18, <1>19, <1>20, <1>21
  DEF Next, ObligedStep, OpenerStep, NetworkStep, ClientWorkerStep, ClientTimerStep,
      ClosingStep, ServerWorkerStep, AcceptorStep, OptionalStep

\* The client's last event is the end of channelClosed.
LEMMA EndsInFinish ==
    ASSUME [Next]_vars
    PROVE  cIo' = cIo \/ cIo' # "done" \/ FinishChannelClosed
<1>1. CASE UNCHANGED <<cIo>>
  BY <1>1
<1>2. CASE ToConnected /\ ClientMoves
  BY <1>2 DEF ToConnected, ClientMoves, lifeVars, timerVars, closeVars, checkerVars,
     acceptorVars, channelVars, clientVars, serverVars
<1>3. CASE ToRunWithoutHandshake /\ ClientMoves
  BY <1>3 DEF ToRunWithoutHandshake, HandshakeStart, ClientWrite, ClientMoves, lifeVars,
     timerVars, closeVars, checkerVars, acceptorVars, channelVars, clientVars, serverVars
<1>4. CASE ChannelClosed /\ ClientMoves
  BY <1>4 DEF ChannelClosed, ClientMoves, lifeVars, timerVars, closeVars, checkerVars,
     acceptorVars, channelVars, clientVars, serverVars
<1>5. CASE FinishChannelClosed /\ ClientMoves
  BY <1>5 DEF FinishChannelClosed, ClientMoves, lifeVars, timerVars, closeVars, checkerVars,
     acceptorVars, channelVars, clientVars, serverVars
<1>6. CASE (Connect \/ SetPinpointClient \/ ConnectSucceeded) /\ ClientMoves
  BY <1>1, <1>6 DEF Connect, SetPinpointClient, ConnectSucceeded, ClientMoves, lifeVars,
     timerVars, closeVars, checkerVars, acceptorVars, channelVars, clientVars, serverVars
<1>7. CASE (Establish \/ ConnectFails \/ ClientSeesPeerClosed \/ ServerSeesPeerClosed) /\
             ChannelMoves
  BY <1>1, <1>7 DEF Establish, ConnectFails, ClientSeesPeerClosed, ServerSeesPeerClosed,
     ClientCloses, ServerCloses, ChannelMoves, lifeVars, timerVars, closeVars, checkerVars,
     acceptorVars, channelVars, clientVars, serverVars
<1>8. CASE (ReceiveServerClose \/ ReceiveHandshakeResponse) /\ ClientMoves
  BY <1>1, <1>8 DEF ReceiveServerClose, ReceiveHandshakeResponse, ClientMoves, lifeVars,
     timerVars, closeVars, checkerVars, acceptorVars, channelVars, clientVars, serverVars
<1>9. CASE (HandshakeJobRead \/ HandshakeJobWrite \/ PingCheck \/ PingRead \/ PingWrite) /\
             ClientMoves
  BY <1>1, <1>9 DEF HandshakeJobRead, HandshakeJobWrite, PingCheck, PingRead, PingWrite,
     ClientWrite, ClientMoves, lifeVars, timerVars, closeVars, checkerVars, acceptorVars,
     channelVars, clientVars, serverVars
<1>10. CASE (CloseToBeingClose \/ SendClosedPacket \/ CloseChannel \/ CloseToClosed \/
              HandshakeAbort \/ StopTimer) /\ ClientMoves
  BY <1>1, <1>10 DEF CloseToBeingClose, SendClosedPacket, CloseChannel, CloseToClosed,
     HandshakeAbort, StopTimer, ClientCloses, ClientWrite, ClientMoves, lifeVars, timerVars,
     closeVars, checkerVars, acceptorVars, channelVars, clientVars, serverVars
<1>11. CASE \/ (Accept \/ Register \/ Start \/ MessageReceived \/ HandleHandshake \/
                HandleClosePacket \/ ChannelDisconnected \/ StopRead \/ StopApply) /\
                ServerMoves
            \/ HandlePingPacket /\ UNCHANGED clientVars
  BY <1>1, <1>11 DEF Accept, Register, Start, MessageReceived, HandleHandshake,
     HandleClosePacket, HandlePingPacket, ChannelDisconnected, StopRead, StopApply, Mark,
     ServerCloses, ServerWrite, Unmark, ServerMoves, lifeVars, timerVars, closeVars,
     checkerVars, acceptorVars, channelVars, clientVars, serverVars
<1>12. CASE (AcceptorSendClose \/ AcceptorWriteClose \/ AcceptorShutdown) /\ ServerMoves
  BY <1>1, <1>12 DEF AcceptorSendClose, AcceptorWriteClose, AcceptorShutdown, ServerCloses,
     ServerWrite, ServerMoves, lifeVars, timerVars, closeVars, checkerVars, acceptorVars,
     channelVars, clientVars, serverVars
<1>13. CASE \/ (CloseRead \/ Release \/ ReleaseChannel) /\ ClientMoves
            \/ AcceptorClose /\ ServerMoves
            \/ LinkBreaks /\ ChannelMoves
  BY <1>1, <1>13 DEF CloseRead, Release, ReleaseChannel, AcceptorClose, LinkBreaks,
     ClientCloses, ChannelMoves, ClientMoves, ServerMoves, lifeVars, timerVars, closeVars,
     checkerVars, acceptorVars, channelVars, clientVars, serverVars
<1>14. CASE UNCHANGED vars
  BY <1>1, <1>14 DEF vars, lifeVars, timerVars, closeVars, checkerVars, acceptorVars,
     channelVars, clientVars, serverVars
<1>. QED
  BY <1>2, <1>3, <1>4, <1>5, <1>6, <1>7, <1>8, <1>9, <1>10, <1>11, <1>12, <1>13, <1>14
  DEF Next, ObligedStep, OpenerStep, NetworkStep, ClientWorkerStep, ClientTimerStep,
      ClosingStep, ServerWorkerStep, AcceptorStep, OptionalStep

\* The initial states of both ends.
LEMMA InitEnds == Init => ByClientInv /\ ByServerInv /\ ClientEndInv /\ ServerEndInv /\ SeenInv
BY EmptyType
DEF Init, ChannelInit, ClientInit, ServerInit, ByClientInv, ByServerInv, ClientQuiet,
    ServerQuiet, NoPacket, ClientClose, ClientEndInv, ServerEndInv, SeenInv, IsBeforeConnected

\* When channelClosed is over and nobody called close, the handler's state says closed, or
\* that the connect failed: no packet, retry or lost channel leaves it anywhere else.
THEOREM ClientEnds == Spec => []ClientEndsClosed
<1>1. TypeOK /\ ByClientInv /\ ClientEndInv /\ SeenInv /\ [Next]_vars
        => (ByClientInv /\ ClientEndInv /\ SeenInv)'
  BY ByClientStep, ClientEndStep, SeenStep
<1>2. ClientEndInv /\ SeenInv => ClientEndsClosed
  BY DEF ClientEndInv, SeenInv, ClientEndsClosed
<1>. QED  BY InitEnds, <1>1, <1>2, TypeCorrect, PTL DEF Spec

\* A server socket whose channel is gone is in a closed state, unless the acceptor is being
\* closed at the same time: also after a stop that a ping caused and the one that follows it.
THEOREM ServerEnds == Spec => []ServerEndsClosed
<1>1. TypeOK /\ ByServerInv /\ ServerEndInv /\ [Next]_vars => (ByServerInv /\ ServerEndInv)'
  BY ByServerStep, ServerEndStep
<1>2. ServerEndInv => ServerEndsClosed
  BY DEF ServerEndInv, ServerEndsClosed
<1>. QED  BY InitEnds, <1>1, <1>2, TypeCorrect, PTL DEF Spec

\* An agent that lost its server asks for a reconnect, whether the server announced its end
\* or not.
THEOREM LostIsReconnected == Spec => LostServerIsReconnected
<1>. DEFINE IInv == TypeOK /\ RoomInv /\ ByClientInv /\ ClientEndInv /\ SeenInv
<1>1. Init => IInv
  BY InitTyped, InitEnds DEF RoomInv, Init, ClientInit
<1>2. IInv /\ [Next]_vars => IInv'
  BY NextTyped, NextRoom, ByClientStep, ClientEndStep, SeenStep
<1>3. IInv /\ [Next]_vars
        => [ /\ cIo = "closing" /\ cIo' = "done"
             /\ IsRun(cState) \/ cState = "BEING_CLOSE_BY_SERVER"
             /\ ~closeCalled /\ ~factoryReleased /\ hasClient
             => reconnects' = 1 ]_vars
  <2>. SUFFICES ASSUME IInv, [Next]_vars, cIo = "closing", cIo' = "done",
                       IsRun(cState) \/ cState = "BEING_CLOSE_BY_SERVER",
                       ~closeCalled, ~factoryReleased, hasClient
                PROVE  reconnects' = 1
    OBVIOUS
  <2>1. FinishChannelClosed
    BY EndsInFinish
  <2>2. cSeen.state = cState /\ ~cSeen.released /\ reconnects = 0
    BY DEF ClientEndInv, SeenInv, RoomInv
  <2>3. \/ IsRun(cState) /\ ClosedTarget(cSeen) = "UNEXPECTED_CLOSE_BY_SERVER"
        \/ cState = "BEING_CLOSE_BY_SERVER" /\ ClosedTarget(cSeen) = "CLOSED_BY_SERVER"
    BY <2>2, CodeKinds DEF ClosedTarget
  <2>4. NeedReconnect(cSeen)
    BY <2>3, LifeChanges DEF NeedReconnect
  <2>. QED  BY <2>1, <2>2, <2>4 DEF FinishChannelClosed
<1>. QED  BY <1>1, <1>2, <1>3, PTL DEF Spec, LostServerIsReconnected

(***************************************************************************)
(* The state checker: the ring of bits is the window of the last pings.    *)
(***************************************************************************)

\* How many pings ago a slot of the ring was written.
Age(s) == IF s <= index THEN index - s ELSE index + StateCheckCapacity - s

\* A slot is marked if and only if the ping that wrote it did not match.
RingInv ==
    /\ Len(recent) <= StateCheckCapacity
    /\ \A s \in Slots : data[s] <=> Age(s) < Len(recent) /\ ~recent[Len(recent) - Age(s)]

\* The ring moves on by one slot, and from its last slot to the first.
LEMMA NextIndexIs ==
    ASSUME index \in Slots
    PROVE  /\ NextIndex = IF index + 1 = StateCheckCapacity THEN 0 ELSE index + 1
           /\ NextIndex \in Slots
BY StateCheckCapacityAssumption DEF NextIndex, Slots

\* The slot that is written has age zero, and all others are one ping older.
LEMMA AgesMoveOn ==
    ASSUME index \in Slots, index' = NextIndex, NEW s \in Slots
    PROVE  /\ Age(s) \in 0..(StateCheckCapacity - 1)
           /\ Age(s)' = IF s = NextIndex THEN 0 ELSE Age(s) + 1
           /\ s # NextIndex => Age(s) + 1 < StateCheckCapacity
BY NextIndexIs, StateCheckCapacityAssumption DEF Age, Slots

\* Every age below the capacity is the age of a slot.
LEMMA AgeOfSlot ==
    ASSUME index \in Slots, NEW a \in 0..(StateCheckCapacity - 1)
    PROVE  \E s \in Slots : Age(s) = a
<1>1. CASE a <= index
  <2>1. index - a \in Slots /\ Age(index - a) = a
    BY <1>1, StateCheckCapacityAssumption DEF Age, Slots
  <2>. QED  BY <2>1
<1>2. CASE a > index
  <2>1. index + StateCheckCapacity - a \in Slots /\ Age(index + StateCheckCapacity - a) = a
    BY <1>2, StateCheckCapacityAssumption DEF Age, Slots
  <2>. QED  BY <2>1
<1>. QED  BY <1>1, <1>2, StateCheckCapacityAssumption DEF Slots

\* The history is a window: it grows at its end, up to the capacity, and loses its oldest.
LEMMA WindowMovesOn ==
    ASSUME recent \in Seq(BOOLEAN), Len(recent) <= StateCheckCapacity,
           NEW m \in BOOLEAN, Remember(m)
    PROVE  /\ Len(recent') = IF Len(recent) = StateCheckCapacity THEN Len(recent)
                             ELSE Len(recent) + 1
           /\ recent'[Len(recent')] = m
           /\ \A a \in 0..(Len(recent') - 2) :
                 recent'[Len(recent') - (a + 1)] = recent[Len(recent) - a]
<1>. DEFINE old == IF Len(recent) = StateCheckCapacity THEN Tail(recent) ELSE recent
<1>1. Len(recent) \in Nat /\ StateCheckCapacity \in Nat \ {0}
  BY StateCheckCapacityAssumption
<1>2. /\ old \in Seq(BOOLEAN)
      /\ Len(old) = IF Len(recent) = StateCheckCapacity THEN Len(recent) - 1 ELSE Len(recent)
      /\ \A a \in 0..(Len(old) - 1) : old[Len(old) - a] = recent[Len(recent) - a]
  <2>1. CASE Len(recent) = StateCheckCapacity
    <3>1. recent # <<>>
      BY <1>1, <2>1
    <3>2. /\ Tail(recent) \in Seq(BOOLEAN) /\ Len(Tail(recent)) = Len(recent) - 1
          /\ \A i \in 1..(Len(recent) - 1) : Tail(recent)[i] = recent[i + 1]
      BY <3>1, HeadTailProperties
    <3>3. \A a \in 0..(Len(recent) - 2) :
             Tail(recent)[(Len(recent) - 1) - a] = recent[Len(recent) - a]
      BY <1>1, <3>2
    <3>4. old = Tail(recent)
      BY <2>1
    <3>. HIDE DEF old
    <3>. QED  BY <1>1, <2>1, <3>2, <3>3, <3>4
  <2>2. CASE Len(recent) # StateCheckCapacity
    BY <2>2
  <2>. QED  BY <2>1, <2>2
<1>3. recent' = Append(old, m)
  BY DEF Remember
<1>. HIDE DEF old
<1>4. /\ Len(recent') = Len(old) + 1
      /\ recent'[Len(old) + 1] = m
      /\ \A i \in 1..Len(old) : recent'[i] = old[i]
  BY <1>2, <1>3, AppendProperties
<1>5. Len(old) \in Nat
  BY <1>2
<1>6. \A a \in 0..(Len(old) - 1) : recent'[Len(old) - a] = recent[Len(recent) - a]
  BY <1>2, <1>4, <1>5
<1>7. \A a \in 0..(Len(recent') - 2) :
         recent'[Len(recent') - (a + 1)] = recent[Len(recent) - a]
  <2>. TAKE a \in 0..(Len(recent') - 2)
  <2>1. a \in 0..(Len(old) - 1) /\ Len(recent') - (a + 1) = Len(old) - a
    BY <1>4, <1>5
  <2>. QED  BY <2>1, <1>6
<1>. QED  BY <1>1, <1>2, <1>4, <1>7

\* A ping writes one slot and one verdict, and they agree.
LEMMA PingKeepsRing ==
    ASSUME TypeOK, RingInv, HandlePingPacket, Remember(sMsg.state = sState)
    PROVE  RingInv'
<1>. DEFINE m == sMsg.state = sState
<1>1. /\ index \in Slots /\ data \in [Slots -> BOOLEAN] /\ recent \in Seq(BOOLEAN)
      /\ Len(recent) \in Nat /\ StateCheckCapacity \in 1..8
  BY StateCheckCapacityAssumption DEF TypeOK, ServerTypeOK
<1>2. index' = NextIndex /\ data' = [data EXCEPT ![NextIndex] = ~m]
  BY DEF HandlePingPacket, Mark, Unmark
<1>3. m \in BOOLEAN /\ Remember(m)
  OBVIOUS
<1>. HIDE DEF m
<1>4. /\ Len(recent') = IF Len(recent) = StateCheckCapacity THEN Len(recent)
                        ELSE Len(recent) + 1
      /\ recent'[Len(recent')] = m
      /\ \A a \in 0..(Len(recent') - 2) :
            recent'[Len(recent') - (a + 1)] = recent[Len(recent) - a]
  BY <1>1, <1>3, WindowMovesOn DEF RingInv
<1>5. Len(recent') \in Nat /\ Len(recent') <= StateCheckCapacity
  BY <1>1, <1>4 DEF RingInv
<1>6. ASSUME NEW s \in Slots
      PROVE  data'[s] <=> Age(s)' < Len(recent') /\ ~recent'[Len(recent') - Age(s)']
  <2>1. CASE s = NextIndex
    <3>1. Age(s)' = 0 /\ data'[s] = ~m /\ Len(recent') > 0
      BY <1>1, <1>2, <1>4, <2>1, AgesMoveOn, NextIndexIs
    <3>2. Len(recent') - Age(s)' = Len(recent')
      BY <1>5, <3>1
    <3>. QED  BY <1>4, <1>5, <3>1, <3>2
  <2>2. CASE s # NextIndex
    <3>1. /\ Age(s) \in Nat /\ Age(s)' = Age(s) + 1 /\ Age(s) + 1 < StateCheckCapacity
          /\ data'[s] = data[s]
      BY <1>1, <1>2, <2>2, AgesMoveOn
    <3>2. Age(s)' < Len(recent') <=> Age(s) < Len(recent)
      BY <1>1, <1>4, <1>5, <3>1 DEF RingInv
    <3>3. Age(s)' < Len(recent') =>
             recent'[Len(recent') - Age(s)'] = recent[Len(recent) - Age(s)]
      BY <1>4, <1>5, <3>1
    <3>4. data[s] <=> Age(s) < Len(recent) /\ ~recent[Len(recent) - Age(s)]
      BY DEF RingInv
    <3>. QED  BY <3>1, <3>2, <3>3, <3>4
  <2>. QED  BY <2>1, <2>2
<1>. QED  BY <1>5, <1>6 DEF RingInv

\* Only a ping moves the ring, and the history with it.
LEMMA RingStep ==
    ASSUME TypeOK, RingInv, [Next]_vars
    PROVE  RingInv'
<1>. USE DEF RingInv, Age
<1>1. CASE UNCHANGED <<index, data, recent>>
  BY <1>1
<1>2. CASE HandlePingPacket /\ Remember(sMsg.state = sState)
  BY <1>2, PingKeepsRing
<1>3. CASE (Connect \/ SetPinpointClient \/ ConnectSucceeded) /\ ClientMoves
  BY <1>1, <1>3 DEF Connect, SetPinpointClient, ConnectSucceeded, ClientMoves, lifeVars,
     timerVars, closeVars, checkerVars, acceptorVars, channelVars, clientVars, serverVars
<1>4. CASE (Establish \/ ConnectFails \/ ClientSeesPeerClosed \/ ServerSeesPeerClosed) /\
             ChannelMoves
  BY <1>1, <1>4 DEF Establish, ConnectFails, ClientSeesPeerClosed, ServerSeesPeerClosed,
     ClientCloses, ServerCloses, ChannelMoves, lifeVars, timerVars, closeVars, checkerVars,
     acceptorVars, channelVars, clientVars, serverVars
<1>5. CASE (ToConnected \/ ToRunWithoutHandshake \/ ReceiveServerClose \/
             ReceiveHandshakeResponse \/ ChannelClosed \/ FinishChannelClosed) /\
             ClientMoves
  BY <1>1, <1>5 DEF ToConnected, ToRunWithoutHandshake, ReceiveServerClose,
     ReceiveHandshakeResponse, ChannelClosed, FinishChannelClosed, ClientWrite,
     HandshakeStart, ClientMoves, lifeVars, timerVars, closeVars, checkerVars, acceptorVars,
     channelVars, clientVars, serverVars
<1>6. CASE (HandshakeJobRead \/ HandshakeJobWrite \/ PingCheck \/ PingRead \/ PingWrite) /\
             ClientMoves
  BY <1>1, <1>6 DEF HandshakeJobRead, HandshakeJobWrite, PingCheck, PingRead, PingWrite,
     ClientWrite, ClientMoves, lifeVars, timerVars, closeVars, checkerVars, acceptorVars,
     channelVars, clientVars, serverVars
<1>7. CASE (CloseToBeingClose \/ SendClosedPacket \/ CloseChannel \/ CloseToClosed \/
             HandshakeAbort \/ StopTimer) /\ ClientMoves
  BY <1>1, <1>7 DEF CloseToBeingClose, SendClosedPacket, CloseChannel, CloseToClosed,
     HandshakeAbort, StopTimer, ClientCloses, ClientWrite, ClientMoves, lifeVars, timerVars,
     closeVars, checkerVars, acceptorVars, channelVars, clientVars, serverVars
<1>8. CASE (Accept \/ Register \/ Start \/ MessageReceived \/ HandleHandshake \/
             HandleClosePacket \/ ChannelDisconnected \/ StopRead \/ StopApply) /\
             ServerMoves
  BY <1>1, <1>8 DEF Accept, Register, Start, MessageReceived, HandleHandshake,
     HandleClosePacket, ChannelDisconnected, StopRead, StopApply, ServerCloses, ServerWrite,
     ServerMoves, lifeVars, timerVars, closeVars, checkerVars, acceptorVars, channelVars,
     clientVars, serverVars
<1>9. CASE (AcceptorSendClose \/ AcceptorWriteClose \/ AcceptorShutdown) /\ ServerMoves
  BY <1>1, <1>9 DEF AcceptorSendClose, AcceptorWriteClose, AcceptorShutdown, ServerCloses,
     ServerWrite, ServerMoves, lifeVars, timerVars, closeVars, checkerVars, acceptorVars,
     channelVars, clientVars, serverVars
<1>10. CASE \/ (CloseRead \/ Release \/ ReleaseChannel) /\ ClientMoves
            \/ AcceptorClose /\ ServerMoves
            \/ LinkBreaks /\ ChannelMoves
  BY <1>1, <1>10 DEF CloseRead, Release, ReleaseChannel, AcceptorClose, LinkBreaks,
     ClientCloses, ChannelMoves, ClientMoves, ServerMoves, lifeVars, timerVars, closeVars,
     checkerVars, acceptorVars, channelVars, clientVars, serverVars
<1>11. CASE UNCHANGED vars
  BY <1>1, <1>11 DEF vars, lifeVars, timerVars, closeVars, checkerVars, acceptorVars,
     channelVars, clientVars, serverVars
<1>. QED
  BY <1>2, <1>3, <1>4, <1>5, <1>6, <1>7, <1>8, <1>9, <1>10, <1>11
  DEF Next, ObligedStep, OpenerStep, NetworkStep, ClientWorkerStep, ClientTimerStep,
      ClosingStep, ServerWorkerStep, AcceptorStep, OptionalStep

\* The server gives up a session over its state if and only if each of the last
\* StateCheckCapacity pings disagreed with it: the ring, its index and its marks are that
\* window.
THEOREM CheckerKeepsWindow == Spec => []CheckerIsWindow
<1>1. Init => RingInv
  <2>. SUFFICES ASSUME Init PROVE RingInv
    OBVIOUS
  <2>1. /\ recent = <<>> /\ index = 0 /\ data = [s \in Slots |-> FALSE]
        /\ StateCheckCapacity \in 1..8 /\ Len(recent) = 0
    BY StateCheckCapacityAssumption DEF Init, ServerInit
  <2>2. \A s \in Slots : ~(Age(s) < 0)
    BY <2>1 DEF Age, Slots
  <2>. QED  BY <2>1, <2>2 DEF RingInv
<1>2. TypeOK /\ RingInv => CheckerIsWindow
  <2>. SUFFICES ASSUME TypeOK, RingInv PROVE CheckerIsWindow
    OBVIOUS
  <2>. DEFINE C == StateCheckCapacity
              window == Len(recent) = C /\ \A i \in 1..Len(recent) : ~recent[i]
  <2>1. index \in Slots /\ Len(recent) \in Nat /\ C \in 1..8 /\ Len(recent) <= C
    BY StateCheckCapacityAssumption DEF TypeOK, ServerTypeOK, RingInv
  <2>2. \A s \in Slots : Age(s) \in 0..(C - 1)
    BY <2>1 DEF Age, Slots
  <2>3. ASSUME window, NEW s \in Slots PROVE data[s]
    <3>1. Age(s) < Len(recent) /\ Len(recent) - Age(s) \in 1..Len(recent)
      BY <2>1, <2>2, <2>3
    <3>. QED  BY <2>3, <3>1 DEF RingInv
  <2>4. ASSUME \A s \in Slots : data[s] PROVE window
    <3>1. \A s \in Slots : Age(s) < Len(recent) /\ ~recent[Len(recent) - Age(s)]
      BY <2>4 DEF RingInv
    <3>2. PICK s \in Slots : Age(s) = C - 1
      BY <2>1, AgeOfSlot
    <3>3. Len(recent) = C
      BY <2>1, <3>1, <3>2
    <3>4. ASSUME NEW i \in 1..Len(recent) PROVE ~recent[i]
      <4>1. C - i \in 0..(C - 1)
        BY <2>1, <3>3, <3>4
      <4>2. PICK t \in Slots : Age(t) = C - i
        BY <2>1, <4>1, AgeOfSlot
      <4>3. Len(recent) - Age(t) = i
        BY <2>1, <3>3, <4>2
      <4>. QED  BY <3>1, <4>3
    <3>. QED  BY <3>3, <3>4
  <2>. QED  BY <2>3, <2>4 DEF CheckerIsWindow, CheckCondition
<1>3. TypeOK /\ RingInv /\ [Next]_vars => RingInv'
  BY RingStep
<1>. QED  BY <1>1, <1>2, <1>3, TypeCorrect, PTL DEF Spec

=============================================================================
