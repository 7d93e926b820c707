---------------------- MODULE PinpointClientReconnect_proofs ----------------------
(***************************************************************************)
(* Proofs about PinpointClientReconnect, for any number of channels: the   *)
(* types, that the client is on one channel at a time, that it is never    *)
(* forgotten while it is open, and that handlers are published in order.   *)
(***************************************************************************)
EXTENDS PinpointClientReconnect, FiniteSetTheorems, TLAPS

Completing == {"run", "publish", "force"}

\* The timer's thread has opened a channel and did not yet hand it to a listener.
Opening == tPc \in {"setPinpointClient", "addListener"}

(***************************************************************************)
(* The inductive invariant.                                                *)
(***************************************************************************)

\* A channel, its future and its worker agree; a handler that runs was connected.
ChannelInv ==
    \A g \in Channels :
        /\ g > gen <=> chan[g] = "none"
        /\ g > gen <=> io[g] = "none"
        /\ g > gen => connected[g] = "pending"
        /\ g <= gen => (connected[g] = "pending" <=> chan[g] = "connecting")
        /\ g <= gen => (connected[g] = "pending" <=> io[g] = "connecting")
        /\ IsRun(hState[g]) \/ hState[g] = "BEING_CLOSE_BY_SERVER" =>
              connected[g] = "success" /\ io[g] \in {"open", "done"}

\* operationComplete runs for the latest channel only, in the thread of the timer or in the
\* channel's worker, after the channel's future has a result.
OpInv ==
    \A g \in Channels :
        /\ op[g] \in Completing => g = gen /\ (tPc = "listening" \/ io[g] = "listening")
        /\ op[g] # "none" => connected[g] # "pending"
        /\ op[g] \in {"publish", "published", "force", "forced"} => connected[g] = "success"
        /\ op[g] = "failed" => connected[g] = "failure"
        /\ listener[g] => g <= gen
        /\ io[g] = "listening" => listener[g]

\* What the timer's thread has in its hands is the latest channel.
TimerInv ==
    /\ tPc \in {"setPinpointClient", "addListener", "listening"} => gen > 0
    /\ Opening => op[gen] = "none" /\ ~listener[gen]
    /\ tPc = "connect" => gen < Attempts
    /\ tPc = "listening" => op[gen] # "none" /\ io[gen] # "listening"

\* Before connect() returns there is one channel, and nobody to reconnect; after that a
\* channel whose connect is not over has a listener, or will get one.
CreateInv ==
    /\ ~created =>
          /\ gen = 1 /\ tasks = 0 /\ tPc = "idle" /\ current = 0 /\ ~closed
          /\ op[1] = "none" /\ ~listener[1] /\ ~hasClient[1]
    /\ connectFuture = "SUCCESS" => connected[1] = "success"
    /\ \A g \in Channels :
          /\ connected[g] = "failure" /\ op[g] = "none" => g = gen /\ (created => Opening)
          /\ chan[g] = "connecting" /\ created => Opening \/ listener[g]

\* There is one token: an event, the thread that runs it, or the channel in hand.
TokenInv ==
    /\ \A g \in Channels : InHand(g) => g = gen /\ tasks = 0 /\ tPc # "connect"
    /\ tPc = "connect" => tasks = 0

\* Only a client that is closed closes a handler: of a client that is open, a handler whose
\* channel is open runs, and one that is not yet connected will.
OpenInv ==
    /\ uPc = "closeHandler" => closed
    /\ ~closed =>
          \A g \in Channels :
              /\ op[g] \notin {"force", "forced"}
              /\ \/ connected[g] = "pending"
                 \/ connected[g] = "success" /\ io[g] \in {"listening", "fire"}
                 => hState[g] \in {"NONE", "BEING_CONNECT"}
              /\ connected[g] = "success" /\ io[g] = "open" =>
                    IsRun(hState[g]) \/ hState[g] = "BEING_CLOSE_BY_SERVER"

\* NeverForgotten, from the moment connect() is about to return.
KeptInv ==
    (created \/ connectFuture = "SUCCESS") /\ ~closed /\ ~lost =>
        tasks > 0 \/ tPc = "connect" \/ \E g \in Channels : InHand(g)

(***************************************************************************)
(* The operators.                                                          *)
(***************************************************************************)

\* The codes a change may set are codes.
LEMMA ToType ==
    ASSUME NEW code \in SocketStateCodes, NEW next \in SocketStateCodes
    PROVE  To(code, next) \in SocketStateCodes
BY DEF To

\* The code of a channel that is closed is a code, and none that runs or is being closed.
LEMMA ClosedTargetType ==
    ASSUME NEW code \in SocketStateCodes
    PROVE  /\ ClosedTarget(code) \in SocketStateCodes
           /\ ~IsRun(ClosedTarget(code)) /\ ClosedTarget(code) # "BEING_CLOSE_BY_SERVER"
BY DEF ClosedTarget, IsRun, IsBeforeConnected, SocketStateCodes, RunCodes, ClosingCodes,
       ClosedCodes, ErrorCodes

\* A handler that runs, or that the server is closing, asks for a reconnect when its channel
\* is closed; one that never ran does not.
LEMMA ReconnectsWhenLost ==
    ASSUME NEW code \in SocketStateCodes
    PROVE  NeedReconnect(code) <=> IsRun(code) \/ code = "BEING_CLOSE_BY_SERVER"
BY DEF NeedReconnect, ClosedTarget, IsRun, IsBeforeConnected, SocketStateCodes, RunCodes,
       ClosingCodes, ClosedCodes, ErrorCodes

\* A handler that runs, or that the server is closing, runs or was so before: close() and
\* channelClosed set no such code.
LEMMA NotRevived ==
    ASSUME NEW code \in SocketStateCodes, NEW next \in SocketStateCodes,
           ~IsRun(next), next # "BEING_CLOSE_BY_SERVER",
           IsRun(To(code, next)) \/ To(code, next) = "BEING_CLOSE_BY_SERVER"
    PROVE  IsRun(code) \/ code = "BEING_CLOSE_BY_SERVER"
BY DEF To

\* A handler that is not connected yet may be.
LEMMA Connects ==
    CanChangeState("NONE", "CONNECTED") /\ CanChangeState("BEING_CONNECT", "CONNECTED")
BY DEF CanChangeState, IsError, ValidBefore, ClosingCodes

\* close() of a handler closes its channel only if it runs, and never makes it run.
LEMMA ClosesWhatRuns ==
    ASSUME TypeOK, NEW g \in Channels, HandlerClose(g), NEW x \in Channels
    PROVE  /\ chan'[x] = chan[x] \/ (IsRun(hState[x]) /\ chan'[x] = "closed")
           /\ IsRun(hState'[x]) \/ hState'[x] = "BEING_CLOSE_BY_SERVER" =>
                 IsRun(hState[x]) \/ hState[x] = "BEING_CLOSE_BY_SERVER"
BY DEF HandlerClose, TypeOK, To, IsRun, RunCodes

\* Every step keeps the types; there is never a second event.
LEMMA TypeStep ==
    ASSUME TypeOK, ChannelInv, TimerInv, CreateInv, TokenInv, OpInv, [Next]_vars
    PROVE  TypeOK'
<1>. USE AttemptsAssumption DEF TypeOK, Channels, handlerVars, channelVars, clientVars,
         timerVars
<1>1. CASE UNCHANGED vars
  BY <1>1 DEF vars
<1>2. CASE \E g \in Channels : ChannelConnected(g)
  <2>. PICK g \in Channels : ChannelConnected(g)
    BY <1>2 DEF Channels
  <2>1. hState' \in [Channels -> SocketStateCodes]
    BY DEF ChannelConnected, SocketStateCodes, RunCodes, ClosingCodes, ClosedCodes, ErrorCodes
  <2>2. io' \in [Channels -> {"none", "connecting", "listening", "fire", "open", "done"}]
    BY DEF ChannelConnected
  <2>3. connectFuture' \in {"null", "SUCCESS", "FAIL"}
    BY DEF ChannelConnected, Announce
  <2>. QED  BY <2>1, <2>2, <2>3 DEF ChannelConnected
<1>3. CASE \E g \in Channels : ChannelClosed(g)
  <2>. PICK g \in Channels : ChannelClosed(g)
    BY <1>3 DEF Channels
  <2>1. To(hState[g], ClosedTarget(hState[g])) \in SocketStateCodes
    BY ToType, ClosedTargetType
  <2>2. hState' \in [Channels -> SocketStateCodes]
    BY <2>1 DEF ChannelClosed
  <2>3. NeedReconnect(hState[g]) => InHand(g)
    BY ReconnectsWhenLost DEF ChannelClosed, ChannelInv, InHand
  <2>4. tasks' \in 0..1
    BY <2>3 DEF ChannelClosed, TokenInv
  <2>5. io' \in [Channels -> {"none", "connecting", "listening", "fire", "open", "done"}]
    BY DEF ChannelClosed
  <2>6. /\ connectFuture' \in {"null", "SUCCESS", "FAIL"}
        /\ channelTimer' \in [Channels -> {"run", "stopped"}]
        /\ lost' \in BOOLEAN
    BY DEF ChannelClosed, Announce
  <2>. QED  BY <2>2, <2>4, <2>5, <2>6 DEF ChannelClosed
<1>4. CASE \E g \in Channels : OperationComplete(g)
  <2>. PICK g \in Channels : OperationComplete(g)
    BY <1>4 DEF Channels
  <2>1. op' \in [Channels -> {"none", "run", "publish", "force", "published", "forced",
                             "failed"}]
    BY DEF OperationComplete
  <2>2. connected[g] # "success" => connected[g] = "failure"
    BY DEF OperationComplete, OpInv
  <2>3. connected[g] # "success" => InHand(g)
    BY <2>2 DEF OperationComplete, InHand
  <2>4. tasks' \in 0..1
    BY <2>3 DEF OperationComplete, TokenInv
  <2>. QED  BY <2>1, <2>4 DEF OperationComplete
<1>5. CASE \E g \in Channels : Publish(g)
  <2>. PICK g \in Channels : Publish(g)
    BY <1>5 DEF Channels
  <2>1. op' \in [Channels -> {"none", "run", "publish", "force", "published", "forced",
                             "failed"}]
    BY DEF Publish
  <2>2. g = gen
    BY DEF Publish, OpInv, Completing
  <2>3. current' \in 0..gen'
    BY <2>2 DEF Publish
  <2>. QED  BY <2>1, <2>3 DEF Publish
<1>6. CASE \E g \in Channels : ForceClose(g)
  <2>. PICK g \in Channels : ForceClose(g)
    BY <1>6 DEF Channels
  <2>1. "BEING_CLOSE_BY_CLIENT" \in SocketStateCodes /\ "CLOSED_BY_CLIENT" \in SocketStateCodes
    BY DEF SocketStateCodes, RunCodes, ClosingCodes, ClosedCodes, ErrorCodes
  <2>2. HandlerClose(g) /\ g \in Channels =>
             /\ hState' \in [Channels -> SocketStateCodes]
             /\ chan' \in [Channels -> {"none", "connecting", "open", "closed"}]
             /\ channelTimer' \in [Channels -> {"run", "stopped"}]
    BY <2>1, ToType DEF HandlerClose
  <2>3. op' \in [Channels -> {"none", "run", "publish", "force", "published", "forced",
                             "failed"}]
    BY DEF ForceClose
  <2>. QED  BY <2>2, <2>3 DEF ForceClose
<1>7. CASE \E g \in Channels : Establish(g)
  <2>. PICK g \in Channels : Establish(g)
    BY <1>7 DEF Channels
  <2>1. op' \in [Channels -> {"none", "run", "publish", "force", "published", "forced",
                             "failed"}]
    BY DEF Establish, Settle
  <2>2. io' \in [Channels -> {"none", "connecting", "listening", "fire", "open", "done"}]
    BY DEF Establish, Settle
  <2>3. /\ connected' \in [Channels -> {"pending", "success", "failure"}]
        /\ chan' \in [Channels -> {"none", "connecting", "open", "closed"}]
    BY DEF Establish, Settle
  <2>. QED  BY <2>1, <2>2, <2>3 DEF Establish, Settle
<1>8. CASE \E g \in Channels : ConnectFails(g)
  <2>. PICK g \in Channels : ConnectFails(g)
    BY <1>8 DEF Channels
  <2>1. op' \in [Channels -> {"none", "run", "publish", "force", "published", "forced",
                             "failed"}]
    BY DEF ConnectFails, Settle
  <2>2. io' \in [Channels -> {"none", "connecting", "listening", "fire", "open", "done"}]
    BY DEF ConnectFails, Settle
  <2>3. /\ connected' \in [Channels -> {"pending", "success", "failure"}]
        /\ chan' \in [Channels -> {"none", "connecting", "open", "closed"}]
    BY DEF ConnectFails, Settle
  <2>. QED  BY <2>1, <2>2, <2>3 DEF ConnectFails, Settle
<1>9. CASE \E g \in Channels : ServerClosePacket(g)
  <2>. PICK g \in Channels : ServerClosePacket(g)
    BY <1>9 DEF Channels
  <2>1. hState' \in [Channels -> SocketStateCodes]
    BY DEF ServerClosePacket, SocketStateCodes, RunCodes, ClosingCodes, ClosedCodes, ErrorCodes
  <2>. QED  BY <2>1 DEF ServerClosePacket
<1>10. CASE \E g \in Channels : PeerCloses(g)
  BY <1>10 DEF PeerCloses
<1>11. CASE Connect
  <2>1. 1 \in Channels /\ gen = 1
    BY <1>11 DEF Connect, CreateInv
  <2>2. current' \in 0..gen'
    BY <1>11, <2>1 DEF Connect
  <2>3. hasClient' \in [Channels -> BOOLEAN]
    BY <1>11 DEF Connect
  <2>. QED  BY <1>11, <2>2, <2>3 DEF Connect
<1>12. CASE CloseHandler
  <2>1. "BEING_CLOSE_BY_CLIENT" \in SocketStateCodes /\ "CLOSED_BY_CLIENT" \in SocketStateCodes
    BY DEF SocketStateCodes, RunCodes, ClosingCodes, ClosedCodes, ErrorCodes
  <2>2. HandlerClose(current) /\ current \in Channels =>
             /\ hState' \in [Channels -> SocketStateCodes]
             /\ chan' \in [Channels -> {"none", "connecting", "open", "closed"}]
             /\ channelTimer' \in [Channels -> {"run", "stopped"}]
    BY <2>1, ToType DEF HandlerClose
  <2>3. current # 0 => current \in Channels
    OBVIOUS
  <2>. QED  BY <1>12, <2>2, <2>3 DEF CloseHandler
<1>13. CASE RunConnectEvent
  <2>1. tasks' \in 0..1
    BY <1>13 DEF RunConnectEvent
  <2>2. tPc' \in {"idle", "connect"}
    BY <1>13 DEF RunConnectEvent
  <2>. QED  BY <1>13, <2>1, <2>2 DEF RunConnectEvent
<1>14. CASE Reconnect
  <2>1. gen' = gen + 1 /\ gen' \in 0..Attempts /\ current' \in 0..gen'
    BY <1>14 DEF Reconnect, TimerInv
  <2>2. hState' \in [Channels -> SocketStateCodes]
    BY <1>14 DEF Reconnect, SocketStateCodes, RunCodes, ClosingCodes, ClosedCodes, ErrorCodes
  <2>3. /\ chan' \in [Channels -> {"none", "connecting", "open", "closed"}]
        /\ io' \in [Channels -> {"none", "connecting", "listening", "fire", "open", "done"}]
    BY <1>14 DEF Reconnect
  <2>. QED  BY <1>14, <2>1, <2>2, <2>3 DEF Reconnect
<1>15. CASE SetPinpointClient
  <2>1. hasClient' \in [Channels -> BOOLEAN]
    BY <1>15 DEF SetPinpointClient
  <2>. QED  BY <1>15, <2>1 DEF SetPinpointClient
<1>16. CASE AddListener
  <2>1. op' \in [Channels -> {"none", "run", "publish", "force", "published", "forced",
                             "failed"}]
    BY <1>16 DEF AddListener
  <2>2. listener' \in [Channels -> BOOLEAN]
    BY <1>16 DEF AddListener
  <2>. QED  BY <1>16, <2>1, <2>2 DEF AddListener
<1>17. CASE Close
  BY <1>17 DEF Close
<1>. QED
  BY <1>1, <1>2, <1>3, <1>4, <1>5, <1>6, <1>7, <1>8, <1>9, <1>10, <1>11, <1>12, <1>13,
     <1>14, <1>15, <1>16, <1>17
  DEF Next, ThreadStep, NetworkStep, OptionalStep

\* Every step keeps a channel, its future, its worker and its handler in agreement.
LEMMA ChannelStep ==
    ASSUME TypeOK, ChannelInv, TimerInv, OpInv, [Next]_vars
    PROVE  ChannelInv'
<1>. USE AttemptsAssumption DEF TypeOK, Channels, ChannelInv, TimerInv, OpInv, handlerVars,
         channelVars, clientVars, timerVars
<1>1. CASE UNCHANGED vars
  BY <1>1 DEF vars
<1>2. CASE \E g \in Channels : ChannelConnected(g)
  BY <1>2 DEF ChannelConnected, Announce
<1>3. CASE \E g \in Channels : ChannelClosed(g)
  <2>. PICK g \in Channels : ChannelClosed(g)
    BY <1>3
  <2>. DEFINE next == ClosedTarget(hState[g])
  <2>1. /\ next \in SocketStateCodes
        /\ ~IsRun(next) /\ next # "BEING_CLOSE_BY_SERVER"
    BY ClosedTargetType
  <2>2. IsRun(To(hState[g], next)) \/ To(hState[g], next) = "BEING_CLOSE_BY_SERVER" =>
            IsRun(hState[g]) \/ hState[g] = "BEING_CLOSE_BY_SERVER"
    BY <2>1, NotRevived
  <2>3. hState' = [hState EXCEPT ![g] = To(hState[g], next)]
    BY DEF ChannelClosed
  <2>4. io' = [io EXCEPT ![g] = "done"] /\ UNCHANGED <<gen, chan, connected>>
    BY DEF ChannelClosed
  <2>5. io[g] # "connecting" /\ io[g] # "none"
    BY DEF ChannelClosed
  <2>. HIDE DEF next
  <2>. QED  BY <2>2, <2>3, <2>4, <2>5
<1>4. CASE \E g \in Channels : OperationComplete(g)
  BY <1>4 DEF OperationComplete
<1>5. CASE \E g \in Channels : Publish(g)
  BY <1>5 DEF Publish
<1>6. CASE \E g \in Channels : ForceClose(g)
  <2>1. \A x \in Channels :
            /\ chan'[x] = chan[x] \/ (IsRun(hState[x]) /\ chan'[x] = "closed")
            /\ IsRun(hState'[x]) \/ hState'[x] = "BEING_CLOSE_BY_SERVER" =>
                  IsRun(hState[x]) \/ hState[x] = "BEING_CLOSE_BY_SERVER"
    BY <1>6, ClosesWhatRuns DEF ForceClose
  <2>2. UNCHANGED <<gen, connected, io>>
    BY <1>6 DEF ForceClose
  <2>. QED  BY <2>1, <2>2
<1>7. CASE \E g \in Channels : Establish(g)
  BY <1>7 DEF Establish, Settle
<1>8. CASE \E g \in Channels : ConnectFails(g)
  BY <1>8 DEF ConnectFails, Settle
<1>9. CASE \E g \in Channels : ServerClosePacket(g)
  BY <1>9 DEF ServerClosePacket
<1>10. CASE \E g \in Channels : PeerCloses(g)
  BY <1>10 DEF PeerCloses
<1>11. CASE Connect
  BY <1>11 DEF Connect
<1>12. CASE CloseHandler
  <2>0. CASE current = 0
    BY <1>12, <2>0 DEF CloseHandler
  <2>. SUFFICES ASSUME current # 0 PROVE ChannelInv'
    BY <2>0
  <2>1. \A x \in Channels :
            /\ chan'[x] = chan[x] \/ (IsRun(hState[x]) /\ chan'[x] = "closed")
            /\ IsRun(hState'[x]) \/ hState'[x] = "BEING_CLOSE_BY_SERVER" =>
                  IsRun(hState[x]) \/ hState[x] = "BEING_CLOSE_BY_SERVER"
    BY <1>12, ClosesWhatRuns DEF CloseHandler
  <2>2. UNCHANGED <<gen, connected, io>>
    BY <1>12 DEF CloseHandler
  <2>. QED  BY <2>1, <2>2
<1>13. CASE RunConnectEvent
  BY <1>13 DEF RunConnectEvent, TimerFree
<1>14. CASE Reconnect
  <2>1. gen + 1 \in Channels /\ gen' = gen + 1
    BY <1>14 DEF Reconnect
  <2>2. /\ hState' = [hState EXCEPT ![gen + 1] = "BEING_CONNECT"]
        /\ chan' = [chan EXCEPT ![gen + 1] = "connecting"]
        /\ io' = [io EXCEPT ![gen + 1] = "connecting"]
        /\ connected' = connected
    BY <1>14 DEF Reconnect
  <2>3. ~IsRun("BEING_CONNECT")
    BY DEF IsRun, RunCodes
  <2>4. connected[gen + 1] = "pending"
    BY <2>1
  <2>5. \A g \in Channels : g > gen + 1 <=> g > gen /\ g # gen + 1
    OBVIOUS
  <2>. QED  BY <2>1, <2>2, <2>3, <2>4, <2>5
<1>15. CASE SetPinpointClient
  BY <1>15 DEF SetPinpointClient
<1>16. CASE AddListener
  BY <1>16 DEF AddListener
<1>17. CASE Close
  BY <1>17 DEF Close
<1>. QED
  BY <1>1, <1>2, <1>3, <1>4, <1>5, <1>6, <1>7, <1>8, <1>9, <1>10, <1>11, <1>12, <1>13,
     <1>14, <1>15, <1>16, <1>17
  DEF Next, ThreadStep, NetworkStep, OptionalStep

\* Every step keeps operationComplete in one thread, with the latest channel.
LEMMA OpStep ==
    ASSUME TypeOK, ChannelInv, OpInv, TimerInv, CreateInv, TokenInv, [Next]_vars
    PROVE  OpInv'
<1>. USE AttemptsAssumption DEF TypeOK, Channels, ChannelInv, OpInv, TimerInv, CreateInv,
         TokenInv, Completing, Opening, InHand, handlerVars, channelVars, clientVars,
         timerVars
<1>1. CASE UNCHANGED vars
  BY <1>1 DEF vars
<1>2. CASE \E g \in Channels : ChannelConnected(g)
  BY <1>2 DEF ChannelConnected, Announce
<1>3. CASE \E g \in Channels : ChannelClosed(g)
  BY <1>3 DEF ChannelClosed, Announce
<1>4. CASE \E g \in Channels : OperationComplete(g)
  BY <1>4 DEF OperationComplete
<1>5. CASE \E g \in Channels : Publish(g)
  BY <1>5 DEF Publish
<1>6. CASE \E g \in Channels : ForceClose(g)
  BY <1>6 DEF ForceClose, HandlerClose
<1>7. CASE \E g \in Channels : Establish(g)
  BY <1>7 DEF Establish, Settle
<1>8. CASE \E g \in Channels : ConnectFails(g)
  BY <1>8 DEF ConnectFails, Settle
<1>9. CASE \E g \in Channels : ServerClosePacket(g)
  BY <1>9 DEF ServerClosePacket
<1>10. CASE \E g \in Channels : PeerCloses(g)
  BY <1>10 DEF PeerCloses
<1>11. CASE Connect
  BY <1>11 DEF Connect
<1>12. CASE CloseHandler
  BY <1>12 DEF CloseHandler, HandlerClose
<1>13. CASE RunConnectEvent
  BY <1>13 DEF RunConnectEvent, TimerFree
<1>14. CASE Reconnect
  BY <1>14 DEF Reconnect
<1>15. CASE SetPinpointClient
  BY <1>15 DEF SetPinpointClient
<1>16. CASE AddListener
  BY <1>16 DEF AddListener
<1>17. CASE Close
  BY <1>17 DEF Close
<1>. QED
  BY <1>1, <1>2, <1>3, <1>4, <1>5, <1>6, <1>7, <1>8, <1>9, <1>10, <1>11, <1>12, <1>13,
     <1>14, <1>15, <1>16, <1>17
  DEF Next, ThreadStep, NetworkStep, OptionalStep

\* Every step keeps the timer's thread with the latest channel.
LEMMA TimerStep ==
    ASSUME TypeOK, ChannelInv, OpInv, TimerInv, [Next]_vars
    PROVE  TimerInv'
<1>. USE AttemptsAssumption DEF TypeOK, Channels, ChannelInv, OpInv, TimerInv, Completing,
         Opening, handlerVars, channelVars, clientVars, timerVars
<1>1. CASE UNCHANGED vars
  BY <1>1 DEF vars
<1>2. CASE \E g \in Channels : ChannelConnected(g)
  BY <1>2 DEF ChannelConnected, Announce
<1>3. CASE \E g \in Channels : ChannelClosed(g)
  BY <1>3 DEF ChannelClosed, Announce
<1>4. CASE \E g \in Channels : OperationComplete(g)
  BY <1>4 DEF OperationComplete
<1>5. CASE \E g \in Channels : Publish(g)
  BY <1>5 DEF Publish
<1>6. CASE \E g \in Channels : ForceClose(g)
  BY <1>6 DEF ForceClose, HandlerClose
<1>7. CASE \E g \in Channels : Establish(g)
  BY <1>7 DEF Establish, Settle
<1>8. CASE \E g \in Channels : ConnectFails(g)
  BY <1>8 DEF ConnectFails, Settle
<1>9. CASE \E g \in Channels : ServerClosePacket(g)
  BY <1>9 DEF ServerClosePacket
<1>10. CASE \E g \in Channels : PeerCloses(g)
  BY <1>10 DEF PeerCloses
<1>11. CASE Connect
  BY <1>11 DEF Connect
<1>12. CASE CloseHandler
  BY <1>12 DEF CloseHandler, HandlerClose
<1>13. CASE RunConnectEvent
  BY <1>13 DEF RunConnectEvent, TimerFree
<1>14. CASE Reconnect
  BY <1>14 DEF Reconnect
<1>15. CASE SetPinpointClient
  BY <1>15 DEF SetPinpointClient
<1>16. CASE AddListener
  BY <1>16 DEF AddListener
<1>17. CASE Close
  BY <1>17 DEF Close
<1>. QED
  BY <1>1, <1>2, <1>3, <1>4, <1>5, <1>6, <1>7, <1>8, <1>9, <1>10, <1>11, <1>12, <1>13,
     <1>14, <1>15, <1>16, <1>17
  DEF Next, ThreadStep, NetworkStep, OptionalStep

\* Every step keeps the first channel alone until connect() returns.
LEMMA CreateStep ==
    ASSUME TypeOK, ChannelInv, OpInv, TimerInv, CreateInv, TokenInv, [Next]_vars
    PROVE  CreateInv'
<1>. USE AttemptsAssumption DEF TypeOK, Channels, ChannelInv, OpInv, TimerInv, CreateInv,
         TokenInv, Completing, Opening, InHand, handlerVars, channelVars, clientVars,
         timerVars
<1>1. CASE UNCHANGED vars
  BY <1>1 DEF vars
<1>2. CASE \E g \in Channels : ChannelConnected(g)
  BY <1>2 DEF ChannelConnected, Announce
<1>3. CASE \E g \in Channels : ChannelClosed(g)
  BY <1>3 DEF ChannelClosed, Announce
<1>4. CASE \E g \in Channels : OperationComplete(g)
  BY <1>4 DEF OperationComplete
<1>5. CASE \E g \in Channels : Publish(g)
  BY <1>5 DEF Publish
<1>6. CASE \E g \in Channels : ForceClose(g)
  BY <1>6 DEF ForceClose, HandlerClose
<1>7. CASE \E g \in Channels : Establish(g)
  BY <1>7 DEF Establish, Settle
<1>8. CASE \E g \in Channels : ConnectFails(g)
  BY <1>8 DEF ConnectFails, Settle
<1>9. CASE \E g \in Channels : ServerClosePacket(g)
  BY <1>9 DEF ServerClosePacket
<1>10. CASE \E g \in Channels : PeerCloses(g)
  BY <1>10 DEF PeerCloses
<1>11. CASE Connect
  BY <1>11 DEF Connect
<1>12. CASE CloseHandler
  BY <1>12 DEF CloseHandler, HandlerClose
<1>13. CASE RunConnectEvent
  BY <1>13 DEF RunConnectEvent, TimerFree
<1>14. CASE Reconnect
  BY <1>14 DEF Reconnect
<1>15. CASE SetPinpointClient
  BY <1>15 DEF SetPinpointClient
<1>16. CASE AddListener
  BY <1>16 DEF AddListener
<1>17. CASE Close
  BY <1>17 DEF Close
<1>. QED
  BY <1>1, <1>2, <1>3, <1>4, <1>5, <1>6, <1>7, <1>8, <1>9, <1>10, <1>11, <1>12, <1>13,
     <1>14, <1>15, <1>16, <1>17
  DEF Next, ThreadStep, NetworkStep, OptionalStep

\* Every step keeps the token one.
LEMMA TokenStep ==
    ASSUME TypeOK, ChannelInv, OpInv, TimerInv, CreateInv, TokenInv, [Next]_vars
    PROVE  TokenInv'
<1>. USE AttemptsAssumption DEF TypeOK, Channels, ChannelInv, OpInv, TimerInv, CreateInv,
         TokenInv, Completing, Opening, InHand, handlerVars, channelVars, clientVars,
         timerVars
<1>1. CASE UNCHANGED vars
  BY <1>1 DEF vars
<1>2. CASE \E g \in Channels : ChannelConnected(g)
  BY <1>2 DEF ChannelConnected, Announce
<1>3. CASE \E g \in Channels : ChannelClosed(g)
  <2>. PICK g \in Channels : ChannelClosed(g)
    BY <1>3
  <2>1. NeedReconnect(hState[g]) => connected[g] = "success" /\ io[g] = "open"
    BY ReconnectsWhenLost DEF ChannelClosed
  <2>2. NeedReconnect(hState[g]) => InHand(g)
    BY <2>1
  <2>3. /\ tasks' = tasks \/ NeedReconnect(hState[g])
        /\ io' = [io EXCEPT ![g] = "done"]
        /\ UNCHANGED <<gen, tPc, connected, chan, op>>
    BY DEF ChannelClosed
  <2>4. \A x \in Channels : InHand(x)' => InHand(x)
    BY <2>3
  <2>5. NeedReconnect(hState[g]) => \A x \in Channels : ~InHand(x)'
    BY <2>1, <2>2, <2>3
  <2>. HIDE DEF InHand
  <2>. QED  BY <2>2, <2>3, <2>4, <2>5
<1>4. CASE \E g \in Channels : OperationComplete(g)
  BY <1>4 DEF OperationComplete
<1>5. CASE \E g \in Channels : Publish(g)
  BY <1>5 DEF Publish
<1>6. CASE \E g \in Channels : ForceClose(g)
  BY <1>6 DEF ForceClose, HandlerClose
<1>7. CASE \E g \in Channels : Establish(g)
  BY <1>7 DEF Establish, Settle
<1>8. CASE \E g \in Channels : ConnectFails(g)
  BY <1>8 DEF ConnectFails, Settle
<1>9. CASE \E g \in Channels : ServerClosePacket(g)
  BY <1>9 DEF ServerClosePacket
<1>10. CASE \E g \in Channels : PeerCloses(g)
  BY <1>10 DEF PeerCloses
<1>11. CASE Connect
  BY <1>11 DEF Connect
<1>12. CASE CloseHandler
  BY <1>12 DEF CloseHandler, HandlerClose
<1>13. CASE RunConnectEvent
  BY <1>13 DEF RunConnectEvent, TimerFree
<1>14. CASE Reconnect
  BY <1>14 DEF Reconnect
<1>15. CASE SetPinpointClient
  BY <1>15 DEF SetPinpointClient
<1>16. CASE AddListener
  BY <1>16 DEF AddListener
<1>17. CASE Close
  BY <1>17 DEF Close
<1>. QED
  BY <1>1, <1>2, <1>3, <1>4, <1>5, <1>6, <1>7, <1>8, <1>9, <1>10, <1>11, <1>12, <1>13,
     <1>14, <1>15, <1>16, <1>17
  DEF Next, ThreadStep, NetworkStep, OptionalStep

\* Every step keeps the handlers of an open client as they are.
LEMMA OpenStep ==
    ASSUME TypeOK, ChannelInv, OpInv, TimerInv, OpenInv, [Next]_vars
    PROVE  OpenInv'
<1>. USE AttemptsAssumption DEF TypeOK, Channels, ChannelInv, OpInv, TimerInv, OpenInv,
         handlerVars, channelVars, clientVars, timerVars
<1>1. CASE UNCHANGED vars
  BY <1>1 DEF vars
<1>2. CASE \E g \in Channels : ChannelConnected(g)
  <2>. PICK g \in Channels : ChannelConnected(g)
    BY <1>2
  <2>1. /\ io' = [io EXCEPT ![g] = "open"]
        /\ connected[g] = "success"
        /\ UNCHANGED <<connected, op, closed, uPc>>
    BY DEF ChannelConnected
  <2>2. ~closed => hState[g] \in {"NONE", "BEING_CONNECT"}
    BY DEF ChannelConnected
  <2>3. ~closed => hState' = [hState EXCEPT ![g] = "RUN_WITHOUT_HANDSHAKE"]
    BY <2>2, Connects DEF ChannelConnected
  <2>4. IsRun("RUN_WITHOUT_HANDSHAKE")
    BY DEF IsRun, RunCodes
  <2>. QED  BY <2>1, <2>3, <2>4
<1>3. CASE \E g \in Channels : ChannelClosed(g)
  <2>. PICK g \in Channels : ChannelClosed(g)
    BY <1>3
  <2>1. /\ io' = [io EXCEPT ![g] = "done"]
        /\ UNCHANGED <<connected, op, closed, uPc>>
    BY DEF ChannelClosed
  <2>2. connected[g] # "pending"
    BY DEF ChannelClosed
  <2>3. \A x \in Channels : hState'[x] = hState[x] \/ x = g
    BY DEF ChannelClosed
  <2>. QED  BY <2>1, <2>2, <2>3
<1>4. CASE \E g \in Channels : OperationComplete(g)
  BY <1>4 DEF OperationComplete
<1>5. CASE \E g \in Channels : Publish(g)
  BY <1>5 DEF Publish
<1>6. CASE \E g \in Channels : ForceClose(g)
  BY <1>6 DEF ForceClose, HandlerClose
<1>7. CASE \E g \in Channels : Establish(g)
  BY <1>7 DEF Establish, Settle
<1>8. CASE \E g \in Channels : ConnectFails(g)
  BY <1>8 DEF ConnectFails, Settle
<1>9. CASE \E g \in Channels : ServerClosePacket(g)
  BY <1>9 DEF ServerClosePacket
<1>10. CASE \E g \in Channels : PeerCloses(g)
  BY <1>10 DEF PeerCloses
<1>11. CASE Connect
  BY <1>11 DEF Connect
<1>12. CASE CloseHandler
  BY <1>12 DEF CloseHandler, HandlerClose
<1>13. CASE RunConnectEvent
  BY <1>13 DEF RunConnectEvent, TimerFree
<1>14. CASE Reconnect
  BY <1>14 DEF Reconnect
<1>15. CASE SetPinpointClient
  BY <1>15 DEF SetPinpointClient
<1>16. CASE AddListener
  BY <1>16 DEF AddListener
<1>17. CASE Close
  BY <1>17 DEF Close
<1>. QED
  BY <1>1, <1>2, <1>3, <1>4, <1>5, <1>6, <1>7, <1>8, <1>9, <1>10, <1>11, <1>12, <1>13,
     <1>14, <1>15, <1>16, <1>17
  DEF Next, ThreadStep, NetworkStep, OptionalStep

\* Every step hands the token on, unless the client is closed or nobody was there to take it.
LEMMA KeptStep ==
    ASSUME TypeOK, ChannelInv, OpInv, TimerInv, CreateInv, TokenInv, OpenInv, KeptInv,
           [Next]_vars
    PROVE  KeptInv'
<1>. USE AttemptsAssumption DEF TypeOK, Channels, ChannelInv, OpInv, TimerInv, CreateInv,
         TokenInv, OpenInv, KeptInv, Completing, Opening, InHand, handlerVars, channelVars,
         clientVars, timerVars
<1>1. CASE UNCHANGED vars
  BY <1>1 DEF vars
<1>2. CASE \E g \in Channels : ChannelConnected(g)
  BY <1>2 DEF ChannelConnected, Announce
<1>3. CASE \E g \in Channels : ChannelClosed(g)
  <2>. PICK g \in Channels : ChannelClosed(g)
    BY <1>3
  <2>. SUFFICES ASSUME (created \/ connectFuture' = "SUCCESS"), ~closed, ~lost'
                PROVE  tasks' > 0 \/ tPc' = "connect" \/ \E x \in Channels : InHand(x)'
    BY DEF ChannelClosed
  <2>1. /\ io' = [io EXCEPT ![g] = "done"]
        /\ UNCHANGED <<gen, tPc, connected, chan, op, created, closed>>
    BY DEF ChannelClosed
  <2>2. connectFuture' = "SUCCESS" => connectFuture = "SUCCESS"
    BY DEF ChannelClosed, Announce
  <2>3. ~lost
    BY DEF ChannelClosed
  <2>4. CASE io[g] = "open" /\ connected[g] = "success"
    <3>1. NeedReconnect(hState[g])
      BY <2>4, ReconnectsWhenLost
    <3>2. tasks' = tasks + 1
      BY <3>1 DEF ChannelClosed
    <3>. QED  BY <3>2
  <2>5. CASE ~(io[g] = "open" /\ connected[g] = "success")
    <3>1. connected[g] = "failure"
      BY <2>5 DEF ChannelClosed
    <3>2. \A x \in Channels : InHand(x) => InHand(x)'
      BY <2>1, <3>1
    <3>3. tasks' = tasks \/ tasks' > 0
      BY DEF ChannelClosed
    <3>. HIDE DEF InHand
    <3>. QED  BY <2>1, <2>2, <2>3, <3>2, <3>3
  <2>. QED  BY <2>4, <2>5
<1>4. CASE \E g \in Channels : OperationComplete(g)
  BY <1>4 DEF OperationComplete
<1>5. CASE \E g \in Channels : Publish(g)
  BY <1>5 DEF Publish
<1>6. CASE \E g \in Channels : ForceClose(g)
  BY <1>6 DEF ForceClose, HandlerClose
<1>7. CASE \E g \in Channels : Establish(g)
  BY <1>7 DEF Establish, Settle
<1>8. CASE \E g \in Channels : ConnectFails(g)
  BY <1>8 DEF ConnectFails, Settle
<1>9. CASE \E g \in Channels : ServerClosePacket(g)
  BY <1>9 DEF ServerClosePacket
<1>10. CASE \E g \in Channels : PeerCloses(g)
  BY <1>10 DEF PeerCloses
<1>11. CASE Connect
  BY <1>11 DEF Connect
<1>12. CASE CloseHandler
  BY <1>12 DEF CloseHandler, HandlerClose
<1>13. CASE RunConnectEvent
  BY <1>13 DEF RunConnectEvent, TimerFree
<1>14. CASE Reconnect
  BY <1>14 DEF Reconnect
<1>15. CASE SetPinpointClient
  BY <1>15 DEF SetPinpointClient
<1>16. CASE AddListener
  BY <1>16 DEF AddListener
<1>17. CASE Close
  BY <1>17 DEF Close
<1>. QED
  BY <1>1, <1>2, <1>3, <1>4, <1>5, <1>6, <1>7, <1>8, <1>9, <1>10, <1>11, <1>12, <1>13,
     <1>14, <1>15, <1>16, <1>17
  DEF Next, ThreadStep, NetworkStep, OptionalStep

(***************************************************************************)
(* The theorems.                                                           *)
(***************************************************************************)

IInv ==
    /\ TypeOK /\ ChannelInv /\ OpInv /\ TimerInv /\ CreateInv
    /\ TokenInv /\ OpenInv /\ KeptInv

\* Initially one channel connects, or one event is waiting.
LEMMA InitHolds == Init => IInv
<1>. SUFFICES ASSUME Init PROVE IInv
  OBVIOUS
<1>. USE AttemptsAssumption DEF Init, Channels
<1>1. TypeOK
  <2>1. hState \in [Channels -> SocketStateCodes]
    BY DEF SocketStateCodes
  <2>2. created \in BOOLEAN /\ gen \in 0..Attempts /\ tasks \in 0..1 /\ current \in 0..gen
    OBVIOUS
  <2>3. /\ chan \in [Channels -> {"none", "connecting", "open", "closed"}]
        /\ io \in [Channels -> {"none", "connecting", "listening", "fire", "open", "done"}]
    OBVIOUS
  <2>. QED  BY <2>1, <2>2, <2>3 DEF TypeOK
<1>2. ChannelInv
  BY DEF ChannelInv, IsRun, RunCodes
<1>3. OpInv /\ TimerInv /\ CreateInv /\ OpenInv
  BY DEF OpInv, TimerInv, CreateInv, OpenInv, Completing, Opening
<1>4. \A g \in Channels : InHand(g) <=> g = gen
  BY DEF InHand
<1>5. TokenInv /\ KeptInv
  BY <1>4 DEF TokenInv, KeptInv
<1>. QED  BY <1>1, <1>2, <1>3, <1>5 DEF IInv

\* Every step keeps the invariant.
LEMMA Inductive == IInv /\ [Next]_vars => IInv'
<1>. SUFFICES ASSUME IInv, [Next]_vars PROVE IInv'
  OBVIOUS
<1>1. TypeOK' /\ ChannelInv' /\ OpInv' /\ TimerInv'
  BY TypeStep, ChannelStep, OpStep, TimerStep DEF IInv
<1>2. CreateInv' /\ TokenInv' /\ OpenInv' /\ KeptInv'
  BY CreateStep, TokenStep, OpenStep, KeptStep DEF IInv
<1>. QED  BY <1>1, <1>2 DEF IInv

\* The types of the client, its channels and the factory's timer, for any number of channels;
\* there is never a second event.
THEOREM ReconnectTypes == Spec => []TypeOK
<1>1. IInv => TypeOK
  BY DEF IInv
<1>. QED  BY InitHolds, Inductive, <1>1, PTL DEF Spec

\* A client is on one channel at a time: an event, the thread that runs it and the channel in
\* hand exclude each other, and only the latest channel is in hand.
THEOREM OneAtATime == Spec => []OneChannelAtATime
<1>1. ASSUME IInv PROVE OneChannelAtATime
  <2>. DEFINE held == {g \in Channels : InHand(g)}
  <2>. USE <1>1 DEF IInv, TypeOK, TokenInv
  <2>1. CASE held = {}
    <3>1. Cardinality(held) = 0
      BY <2>1, FS_EmptySet
    <3>. QED  BY <3>1 DEF OneChannelAtATime
  <2>2. CASE held # {}
    <3>1. held = {gen} /\ tasks = 0 /\ tPc # "connect"
      BY <2>2
    <3>2. Cardinality(held) = 1
      BY <3>1, FS_Singleton
    <3>. QED  BY <3>1, <3>2 DEF OneChannelAtATime
  <2>. QED  BY <2>1, <2>2
<1>. QED  BY InitHolds, Inductive, <1>1, PTL DEF Spec

\* A client that is not closed is on a channel or on its way to one, whatever ended its last
\* channel, unless that was closed before its handler knew the client.
THEOREM NeverLost == Spec => []NeverForgotten
<1>1. IInv => NeverForgotten
  BY DEF IInv, KeptInv, NeverForgotten
<1>. QED  BY InitHolds, Inductive, <1>1, PTL DEF Spec

\* Handlers are published in the order of their channels, in whatever thread.
THEOREM InOrder == Spec => PublishedInOrder
<1>1. IInv /\ [Next]_vars => [current' >= current]_vars
  <2>. SUFFICES ASSUME IInv, [Next]_vars, ~UNCHANGED vars PROVE current' >= current
    OBVIOUS
  <2>. USE DEF IInv, TypeOK
  <2>1. CASE \E g \in Channels : Publish(g)
    BY <2>1 DEF Publish, OpInv, Completing, Channels
  <2>2. CASE Connect
    BY <2>2 DEF Connect, CreateInv
  <2>3. CASE UNCHANGED current
    BY <2>3
  <2>4. CASE \E g \in Channels :
              \/ ChannelConnected(g) \/ ChannelClosed(g) \/ OperationComplete(g)
              \/ ForceClose(g) \/ Establish(g) \/ ConnectFails(g) \/ ServerClosePacket(g)
              \/ PeerCloses(g)
    BY <2>3, <2>4
    DEF ChannelConnected, ChannelClosed, OperationComplete, ForceClose, Establish,
        ConnectFails, Settle, ServerClosePacket, PeerCloses, clientVars
  <2>5. CASE \/ CloseHandler \/ RunConnectEvent \/ Reconnect \/ SetPinpointClient
             \/ AddListener \/ Close
    BY <2>3, <2>5
    DEF CloseHandler, RunConnectEvent, Reconnect, SetPinpointClient, AddListener, Close,
        clientVars
  <2>. QED
    BY <2>1, <2>2, <2>4, <2>5 DEF Next, ThreadStep, NetworkStep, OptionalStep
<1>. QED  BY InitHolds, Inductive, <1>1, PTL DEF Spec, PublishedInOrder

================================================================================
