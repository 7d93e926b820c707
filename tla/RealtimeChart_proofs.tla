------------------------- MODULE RealtimeChart_proofs -------------------------
(***************************************************************************)
(* Proofs about RealtimeChart and its handler, for any set of sockets, any *)
(* applications and any bound: the types; the timers run while there are   *)
(* sessions; a session that is bound is served; the application on the     *)
(* screen is the one subscribed to; the user is told when nothing arrives. *)
(***************************************************************************)
EXTENDS RealtimeChart, TLAPS

(***************************************************************************)
(* The wires.                                                              *)
(***************************************************************************)

\* The messages that are made are messages.
LEMMA MessageTypes ==
    /\ \A type \in {"CONNECT", "ACCEPT", "PONG", "PING", "CLOSE"} : Msg(type) \in Messages
    /\ \A app \in Names : /\ Ask(app) \in Messages
                          /\ [type |-> "RESPONSE", app |-> app] \in Messages
    /\ "" \in Names
BY DEF Msg, Ask, Messages, Names

\* Writing one message.
LEMMA SentType ==
    ASSUME NEW wire \in [Sockets -> Seq(Messages)], NEW s \in Sockets, NEW m \in Messages
    PROVE  Sent(wire, s, m) \in [Sockets -> Seq(Messages)]
BY DEF Sent

\* Sending through the reference.
LEMMA ThroughType ==
    ASSUME TypeOK, NEW messages \in Seq(Messages)
    PROVE  Through(messages) \in [Sockets -> Seq(Messages)]
<1>1. websocket # 0 => websocket \in Sockets
  BY DEF TypeOK
<1>2. ASSUME NEW s \in Sockets PROVE toServer[s] \o messages \in Seq(Messages)
  BY DEF TypeOK, HandlerTypeOK
<1> QED BY <1>1, <1>2 DEF Through, TypeOK, HandlerTypeOK

\* Taking a message from the browser's or the server's socket.
LEMMA TailType ==
    ASSUME NEW wire \in [Sockets -> Seq(Messages)], NEW s \in Sockets, wire[s] # <<>>
    PROVE  /\ [wire EXCEPT ![s] = Tail(@)] \in [Sockets -> Seq(Messages)]
           /\ Head(wire[s]) \in Messages
<1>1. Tail(wire[s]) \in Seq(Messages) /\ Head(wire[s]) \in Messages
  OBVIOUS
<1> QED BY <1>1

(***************************************************************************)
(* Types.                                                                  *)
(***************************************************************************)

\* The handler's steps keep the handler's types.
LEMMA HandleType ==
    ASSUME TypeOK, NEW s \in Sockets, Handle(s)
    PROVE  HandlerTypeOK'
<1> USE DEF TypeOK, HandlerTypeOK
<1>1. ASSUME NEW type, Receive(s, type)
      PROVE  /\ toServer' \in [Sockets -> Seq(Messages)]
             /\ Head(toServer[s]) \in Messages
             /\ link' = link
  BY <1>1, TailType DEF Receive
<1>2. ASSUME CloseSession(s)
      PROVE  /\ open' \in [Sockets -> BOOLEAN]
             /\ toBrowser' \in [Sockets -> Seq(Messages)]
  BY <1>2, SentType, MessageTypes DEF CloseSession
<1>3. /\ MembersWithout(s) \in [Applications -> SUBSET Sockets]
      /\ AggregatorsWithout(s) \subseteq Applications
  BY DEF MembersWithout, AggregatorsWithout
<1>4. CASE AfterConnectionEstablished(s)
  <2>1. toBrowser' \in [Sockets -> Seq(Messages)]
    BY <1>4, SentType, MessageTypes DEF AfterConnectionEstablished
  <2>2. flushes' \in Nat /\ checks' \in Nat
    BY <1>4 DEF AfterConnectionEstablished
  <2>3. onTimerTask' \in BOOLEAN /\ pinging' \in BOOLEAN
    BY <1>4, Zenon DEF AfterConnectionEstablished
  <2>4. toServer' \in [Sockets -> Seq(Messages)] /\ link' \in [Sockets -> BOOLEAN]
    BY <1>1, <1>4 DEF AfterConnectionEstablished
  <2>5. open' \in [Sockets -> BOOLEAN] /\ sessions' \subseteq Sockets
    BY <1>4 DEF AfterConnectionEstablished
  <2>6. application' \in [Sockets -> Names] /\ request' \in [Sockets -> Names \cup {"none"}]
        /\ aggregators' \subseteq Applications /\ members' \in [Applications -> SUBSET Sockets]
        /\ unanswered' \in [Sockets -> BOOLEAN]
    BY <1>4 DEF AfterConnectionEstablished
  <2> QED BY <2>1, <2>2, <2>3, <2>4, <2>5, <2>6
<1>5. CASE AfterConnectionClosed(s)
  <2>1. onTimerTask' \in BOOLEAN
    BY <1>5 DEF AfterConnectionClosed, KeepTimers
  <2> QED BY <1>3, <1>5, <2>1 DEF AfterConnectionClosed, wires
<1>6. CASE ReceiveRequest(s)
  <2>1. Head(toServer[s]).app \in Names
    BY <1>1, <1>6 DEF ReceiveRequest, Messages
  <2> QED BY <1>1, <1>6, <2>1 DEF ReceiveRequest
<1>7. CASE HandleRequest(s)
  <2> DEFINE app == request[s]
  <2>1. app \in Names /\ request' \in [Sockets -> Names \cup {"none"}]
    BY <1>7 DEF HandleRequest
  <2>2. application' \in [Sockets -> Names] /\ aggregators' \subseteq Applications
    BY <1>3, <1>7, <2>1 DEF HandleRequest, AggregatorOf, Names
  <2>3. members' \in [Applications -> SUBSET Sockets]
    <3>1. CASE members' = [a \in Applications |->
                 IF a = request[s] THEN members[a] \cup {s} ELSE MembersWithout(s)[a]]
      <4>1. ASSUME NEW a \in Applications
            PROVE  members[a] \cup {s} \subseteq Sockets /\ MembersWithout(s)[a] \subseteq Sockets
        BY <1>3
      <4> QED BY <3>1, <4>1
    <3>2. CASE members' = members \/ members' = MembersWithout(s)
      BY <1>3, <3>2
    <3> QED BY <1>7, <3>1, <3>2 DEF HandleRequest
  <2>5. open' \in [Sockets -> BOOLEAN] /\ toBrowser' \in [Sockets -> Seq(Messages)]
    BY <1>2, <1>7 DEF HandleRequest
  <2>4. UNCHANGED <<link, toServer, sessions, unanswered, onTimerTask, flushes, checks, pinging>>
    BY <1>7 DEF HandleRequest
  <2> QED BY <2>1, <2>2, <2>3, <2>4, <2>5
<1>8. CASE HandlePong(s)
  BY <1>1, <1>8 DEF HandlePong
<1>9. CASE ReceiveClose(s)
  BY <1>1, <1>9 DEF ReceiveClose
<1>10. CASE ReceiveLate(s)
  BY <1>1, <1>10 DEF ReceiveLate, handlerVars
<1> QED BY <1>4, <1>5, <1>6, <1>7, <1>8, <1>9, <1>10 DEF Handle

\* So do the timers'.
LEMMA TimerType ==
    ASSUME TypeOK, Flush \/ HealthTimer
    PROVE  HandlerTypeOK'
<1>0. HandlerTypeOK
  BY DEF TypeOK
<1>m. ASSUME NEW s \in Sockets, NEW m \in Messages
      PROVE  Append(toBrowser[s], m) \in Seq(Messages) /\ toBrowser[s] \in Seq(Messages)
  BY <1>0 DEF HandlerTypeOK
<1>n. ASSUME NEW s \in Sockets
      PROVE  /\ [type |-> "RESPONSE", app |-> application[s]] \in Messages
             /\ Msg("PING") \in Messages /\ Msg("CLOSE") \in Messages
  BY <1>0, MessageTypes DEF HandlerTypeOK
<1>1. CASE Flush
  <2>1. toBrowser' \in [Sockets -> Seq(Messages)]
    BY <1>1, <1>m, <1>n DEF Flush
  <2>2. flushes' \in Nat
    BY <1>0, <1>1 DEF Flush, HandlerTypeOK
  <2> QED BY <1>0, <1>1, <2>1, <2>2 DEF Flush, HandlerTypeOK
<1>2. CASE HealthCheck
  <2>1. toBrowser' \in [Sockets -> Seq(Messages)]
    BY <1>2, <1>m, <1>n DEF HealthCheck
  <2>2. checks' \in Nat /\ open' \in [Sockets -> BOOLEAN]
    BY <1>0, <1>2 DEF HealthCheck, HandlerTypeOK
  <2> QED BY <1>0, <1>2, <2>1, <2>2 DEF HealthCheck, HandlerTypeOK
<1>3. CASE Ping
  <2>1. PICK pinged \in SUBSET {s \in sessions : open[s]} :
            /\ unanswered' = [s \in Sockets |-> unanswered[s] \/ s \in pinged]
            /\ toBrowser' = [s \in Sockets |->
                 IF s \in pinged /\ link[s] THEN Append(toBrowser[s], Msg("PING"))
                                            ELSE toBrowser[s]]
    BY <1>3 DEF Ping
  <2>2. toBrowser' \in [Sockets -> Seq(Messages)]
    BY <1>m, <1>n, <2>1
  <2>3. unanswered' \in [Sockets -> BOOLEAN]
    BY <2>1
  <2>4. checks' \in Nat
    BY <1>0, <1>3 DEF Ping, HandlerTypeOK
  <2> QED BY <1>0, <1>3, <2>2, <2>3, <2>4 DEF Ping, HandlerTypeOK
<1> QED BY <1>1, <1>2, <1>3 DEF HealthTimer

\* Every step, and a stuttering one, keeps the types.
LEMMA TypeStep == TypeOK /\ [Next]_vars => TypeOK'
<1> SUFFICES ASSUME TypeOK, [Next]_vars PROVE TypeOK'
  OBVIOUS
<1>0. HandlerTypeOK
  BY DEF TypeOK
<1>m. /\ \A app \in Names : <<Ask(app)>> \in Seq(Messages) /\ Reselect(app) \in Seq(Messages)
      /\ <<Msg("PONG")>> \in Seq(Messages) /\ <<Msg("CONNECT")>> \in Seq(Messages)
  <2>1. ASSUME NEW m \in Messages, NEW n \in Messages
        PROVE  <<m>> \in Seq(Messages) /\ <<m, n>> \in Seq(Messages)
    OBVIOUS
  <2> QED BY <2>1, MessageTypes DEF Reselect
<1>n. Applications \subseteq Names /\ "" \in Names
  BY DEF Names
<1>i. ASSUME NEW messages \in Seq(Messages), InitReceive(messages)
      PROVE  /\ toServer' \in [Sockets -> Seq(Messages)]
             /\ link' \in [Sockets -> BOOLEAN]
             /\ websocket' \in Sockets \cup {0}
             /\ ready' \in [Sockets -> {"none", "connecting", "open", "closing", "closed"}]
  <2>1. CASE \E s \in Sockets : Open(s)
    BY <1>0, <1>m, <2>1 DEF Open, TypeOK, HandlerTypeOK
  <2>2. CASE toServer' = Through(messages) /\ UNCHANGED <<link, websocket, ready>>
    BY <1>0, <2>2, ThroughType DEF TypeOK, HandlerTypeOK
  <2> QED BY <1>i, <2>1, <2>2 DEF InitReceive
<1>a. ASSUME NEW s \in Sockets, NEW type, Arrives(s, type)
      PROVE  toBrowser' \in [Sockets -> Seq(Messages)]
  BY <1>0, <1>a, TailType DEF Arrives, HandlerTypeOK
<1>1. ASSUME NEW app \in Applications, Initialize(app) PROVE TypeOK'
  <2>1. CASE shown /\ ~Connecting /\ popup' = TRUE /\ StopReceive /\ warning' = "waiting"
             /\ InitReceive(Reselect(app)) /\ UNCHANGED shown
    BY <1>0, <1>1, <1>i, <1>m, <1>n, <2>1
    DEF Initialize, StopReceive, StopTimeoutChecker, TypeOK, HandlerTypeOK, handlerVars
  <2>2. CASE UNCHANGED <<wires, ready, websocket, lastReceive, refInterval, lostInterval, warning>>
    BY <1>0, <1>1, <1>n, <2>2 DEF Initialize, TypeOK, HandlerTypeOK, handlerVars, wires
  <2> QED BY <1>1, <2>1, <2>2 DEF Initialize
<1>2. CASE InitializeOther
  BY <1>0, <1>2, <1>n DEF InitializeOther, TypeOK, HandlerTypeOK, handlerVars, wires
<1>3. CASE RetryConnection
  BY <1>0, <1>3, <1>i, <1>m DEF RetryConnection, TypeOK, HandlerTypeOK, handlerVars
<1>4. CASE Hide
  BY <1>0, <1>4, <1>m, <1>n, ThroughType
  DEF Hide, StopReceive, StopTimeoutChecker, TypeOK, HandlerTypeOK, handlerVars
<1>5. CASE Show
  BY <1>0, <1>5, <1>i, <1>m DEF Show, TypeOK, HandlerTypeOK, handlerVars
<1>6. CASE CloseChart
  BY <1>0, <1>6, <1>m, <1>n, ThroughType
  DEF CloseChart, StopReceive, StopTimeoutChecker, TypeOK, HandlerTypeOK, handlerVars
<1>7. CASE Server
  <2>1. HandlerTypeOK'
    BY <1>7, HandleType, TimerType DEF Server
  <2> QED BY <1>7, <2>1 DEF Server, TypeOK, chartVars
<1>8. CASE OnDelay
  <2>1. toServer' \in [Sockets -> Seq(Messages)]
    BY <1>0, <1>8, SentType, MessageTypes DEF OnDelay, TypeOK, HandlerTypeOK
  <2> QED BY <1>0, <1>8, <2>1 DEF OnDelay, TypeOK, HandlerTypeOK, handlerVars
<1>9. ASSUME NEW s \in Sockets, OnOpen(s) PROVE TypeOK'
  <2>1. toServer' \in [Sockets -> Seq(Messages)]
    BY <1>0, <1>9, <1>m, SentType, MessageTypes, ThroughType DEF OnOpen, TypeOK, HandlerTypeOK
  <2> QED BY <1>0, <1>9, <1>a, <2>1
          DEF OnOpen, StartTimeoutChecker, TypeOK, HandlerTypeOK, handlerVars
<1>10. ASSUME NEW s \in Sockets, OnMessage(s) PROVE TypeOK'
  <2>1. toServer' \in [Sockets -> Seq(Messages)]
    BY <1>0, <1>10, <1>m, <1>n, ThroughType DEF OnMessage, TypeOK, HandlerTypeOK
  <2> QED BY <1>0, <1>10, <1>a, <2>1 DEF OnMessage, TypeOK, HandlerTypeOK, handlerVars
<1>11. ASSUME NEW s \in Sockets, DropMessage(s) PROVE TypeOK'
  BY <1>0, <1>11, <1>a DEF DropMessage, TypeOK, HandlerTypeOK, handlerVars, chartVars
<1>12. ASSUME NEW s \in Sockets, OnClose(s) PROVE TypeOK'
  <2>1. toBrowser' \in [Sockets -> Seq(Messages)]
    BY <1>0, <1>12 DEF OnClose, HandlerTypeOK
  <2> QED BY <1>0, <1>12, <2>1
  DEF OnClose, StopTimeoutChecker, DisconnectedConnection, TypeOK, HandlerTypeOK, handlerVars
<1>13. ASSUME NEW s \in Sockets, Cut(s) PROVE TypeOK'
  BY <1>0, <1>13 DEF Cut, TypeOK, HandlerTypeOK, handlerVars, chartVars
<1>14. CASE UNCHANGED vars
  BY <1>0, <1>14 DEF vars, wires, handlerVars, chartVars, TypeOK, HandlerTypeOK
<1> QED BY <1>1, <1>2, <1>3, <1>4, <1>5, <1>6, <1>7, <1>8, <1>9, <1>10, <1>11, <1>12, <1>13,
           <1>14 DEF Next, User, UserActs, Callback

\* Sessions, messages and the chart's fields keep their types, for any number of web
\* sockets and messages.
THEOREM ChartTypes == Spec => []TypeOK
<1>1. Init => TypeOK
  <2> SUFFICES ASSUME Init PROVE TypeOK
    OBVIOUS
  <2>1. "" \in Names
    BY DEF Names
  <2>2. [s \in Sockets |-> <<>>] \in [Sockets -> Seq(Messages)]
    OBVIOUS
  <2>3. HandlerTypeOK
    BY <2>1, <2>2 DEF Init, HandlerInit, HandlerTypeOK
  <2> QED BY <2>1, <2>3 DEF Init, TypeOK
<1> QED BY <1>1, TypeStep, PTL DEF Spec

(***************************************************************************)
(* The timers.                                                             *)
(***************************************************************************)

\* The timers are on while there are sessions, and have a task while they are on.
TimersInv ==
    /\ sessions # {} => onTimerTask
    /\ onTimerTask => flushes > 0 /\ (checks > 0 \/ pinging)

\* What the browser does leaves the handler alone.
LEMMA ChartKeepsHandler ==
    ASSUME [Next]_vars, ~Server
    PROVE  UNCHANGED handlerVars
BY DEF Next, User, UserActs, Initialize, InitializeOther, RetryConnection, Hide, Show, CloseChart,
       OnDelay, Callback, OnOpen, OnMessage, DropMessage, OnClose, Cut, vars

\* A task that finds the flag on goes on, one that finds it off leaves the next session to
\* start another.
LEMMA TimersStep == TypeOK /\ TimersInv /\ [Next]_vars => TimersInv'
<1> SUFFICES ASSUME TypeOK, TimersInv, [Next]_vars PROVE TimersInv'
  OBVIOUS
<1>0. flushes \in Nat /\ checks \in Nat /\ sessions \subseteq Sockets /\ onTimerTask \in BOOLEAN
  BY DEF TypeOK, HandlerTypeOK
<1>1. CASE Flush
  BY <1>0, <1>1 DEF Flush, TimersInv
<1>2. CASE HealthCheck
  BY <1>0, <1>2 DEF HealthCheck, TimersInv
<1>3. CASE Ping
  BY <1>0, <1>3 DEF Ping, TimersInv
<1>4. ASSUME NEW s \in Sockets, Handle(s) PROVE TimersInv'
  <2>1. CASE AfterConnectionEstablished(s)
    BY <1>0, <2>1 DEF AfterConnectionEstablished, TimersInv
  <2>2. CASE AfterConnectionClosed(s)
    BY <1>0, <2>2 DEF AfterConnectionClosed, KeepTimers, TimersInv
  <2>3. CASE ReceiveRequest(s) \/ HandleRequest(s) \/ HandlePong(s) \/ ReceiveClose(s) \/ ReceiveLate(s)
    <3>1. UNCHANGED <<sessions, onTimerTask, flushes, checks, pinging>>
      BY <2>3 DEF ReceiveRequest, HandleRequest, HandlePong, ReceiveClose, ReceiveLate, handlerVars
    <3> QED BY <3>1 DEF TimersInv
  <2> QED BY <1>4, <2>1, <2>2, <2>3 DEF Handle
<1>5. CASE UNCHANGED handlerVars
  BY <1>5 DEF handlerVars, TimersInv
<1> QED BY <1>1, <1>2, <1>3, <1>4, <1>5, ChartKeepsHandler DEF Server, HealthTimer

\* While the handler has a session, a flush and a health check will come, for any number
\* of sessions that come and go.
THEOREM TimersAlwaysRun == Spec => []TimersRun
<1>1. Init => TimersInv
  BY DEF Init, HandlerInit, TimersInv
<1>2. TimersInv => TimersRun
  BY DEF TimersInv, TimersRun
<1> QED BY <1>1, <1>2, ChartTypes, TimersStep, PTL DEF Spec

(***************************************************************************)
(* The aggregators.                                                        *)
(***************************************************************************)

\* The server hears of a socket once, before any request: until then the session is bound
\* to nothing.
Fresh(s) ==
    /\ ready[s] = "none" => toServer[s] = <<>> /\ application[s] = "" /\ request[s] = "none"
    /\ \A i \in 1 .. Len(toServer[s]) :
           toServer[s][i].type = "CONNECT" => i = 1 /\ application[s] = "" /\ request[s] = "none"
FreshInv == \A s \in Sockets : Fresh(s)

\* No socket is heard of again.
Quiet(messages) == \A i \in 1 .. Len(messages) : messages[i].type # "CONNECT"

\* More messages behind the ones on their way keep the first one first.
LEMMA FreshAppend ==
    ASSUME NEW old \in Seq(Messages), NEW new \in Seq(Messages), Quiet(new),
           NEW P, \A i \in 1 .. Len(old) : old[i].type = "CONNECT" => i = 1 /\ P
    PROVE  \A i \in 1 .. Len(old \o new) : (old \o new)[i].type = "CONNECT" => i = 1 /\ P
<1> SUFFICES ASSUME NEW i \in 1 .. Len(old \o new), (old \o new)[i].type = "CONNECT"
             PROVE  i = 1 /\ P
  OBVIOUS
<1>1. CASE i <= Len(old)
  BY <1>1
<1>2. CASE i > Len(old)
  <2>1. i - Len(old) \in 1 .. Len(new) /\ (old \o new)[i] = new[i - Len(old)]
    BY <1>2
  <2> QED BY <2>1 DEF Quiet
<1> QED BY <1>1, <1>2

\* What one event of the browser may do to the wire of a socket.
Grows(s, new) ==
    \/ toServer'[s] = toServer[s]
    \/ toServer'[s] = <<>>
    \/ toServer'[s] = <<Msg("CONNECT")>> /\ ready[s] = "none" /\ ready'[s] # "none"
    \/ toServer'[s] = toServer[s] \o new /\ ready[s] # "none"

\* The browser's events keep a fresh socket fresh.
LEMMA FreshWires ==
    ASSUME TypeOK, FreshInv, UNCHANGED <<application, request>>,
           NEW s \in Sockets, NEW new \in Seq(Messages), Quiet(new), Grows(s, new),
           ready'[s] = "none" => ready[s] = "none"
    PROVE  Fresh(s)'
<1> USE DEF Fresh
<1>0. toServer[s] \in Seq(Messages)
  BY DEF TypeOK, HandlerTypeOK
<1>1. CASE toServer'[s] = toServer[s]
  BY <1>1 DEF FreshInv
<1>2. CASE toServer'[s] = <<>>
  <2>1. 1 .. Len(toServer'[s]) = {}
    <3>1. Len(toServer'[s]) = 0
      BY <1>2
    <3> QED BY <3>1
  <2>2. ready'[s] = "none" => application'[s] = "" /\ request'[s] = "none"
    BY DEF FreshInv
  <2> QED BY <1>2, <2>1, <2>2
<1>3. CASE toServer'[s] = <<Msg("CONNECT")>> /\ ready[s] = "none" /\ ready'[s] # "none"
  <2>1. 1 .. Len(toServer'[s]) = {1}
    <3>1. Len(toServer'[s]) = 1
      BY <1>3
    <3> QED BY <3>1
  <2>2. application'[s] = "" /\ request'[s] = "none"
    BY <1>3 DEF FreshInv
  <2> QED BY <1>3, <2>1, <2>2
<1>4. CASE toServer'[s] = toServer[s] \o new /\ ready[s] # "none"
  BY <1>0, <1>4, FreshAppend DEF FreshInv
<1> QED BY <1>1, <1>2, <1>3, <1>4 DEF Grows

\* What the browser sends is no CONNECT.
LEMMA QuietMessages ==
    /\ \A app \in Names : /\ <<Ask(app)>> \in Seq(Messages) /\ Quiet(<<Ask(app)>>)
                          /\ Reselect(app) \in Seq(Messages) /\ Quiet(Reselect(app))
    /\ <<Msg("PONG")>> \in Seq(Messages) /\ Quiet(<<Msg("PONG")>>)
    /\ <<Msg("CLOSE")>> \in Seq(Messages) /\ Quiet(<<Msg("CLOSE")>>)
    /\ "" \in Names /\ Applications \subseteq Names
<1>1. ASSUME NEW m \in Messages, NEW n \in Messages
      PROVE  /\ <<m>> \in Seq(Messages) /\ <<m, n>> \in Seq(Messages)
             /\ m.type # "CONNECT" => Quiet(<<m>>)
             /\ m.type # "CONNECT" /\ n.type # "CONNECT" => Quiet(<<m, n>>)
  BY DEF Quiet
<1>2. /\ \A app \in Names : Ask(app).type # "CONNECT"
      /\ Msg("PONG").type # "CONNECT" /\ Msg("CLOSE").type # "CONNECT"
  BY DEF Ask, Msg
<1> QED BY <1>1, <1>2, MessageTypes DEF Reselect, Names

\* Where Through and Sent write.
LEMMA ThroughGrows ==
    ASSUME TypeOK, NEW new \in Seq(Messages), toServer' = Through(new), NEW s \in Sockets
    PROVE  Grows(s, new)
BY DEF TypeOK, HandlerTypeOK, Through, Grows

\* A message that is sent is on its own socket.
LEMMA SentGrows ==
    ASSUME TypeOK, NEW m \in Messages, NEW t \in Sockets, toServer' = Sent(toServer, t, m),
           ready[t] # "none", NEW s \in Sockets
    PROVE  Grows(s, <<m>>)
BY DEF TypeOK, HandlerTypeOK, Sent, Grows

\* A new socket has nothing on it yet.
LEMMA OpenGrows ==
    ASSUME TypeOK, NEW t \in Sockets, Open(t), NEW s \in Sockets, NEW new
    PROVE  Grows(s, new) /\ (ready'[s] = "none" => ready[s] = "none")
BY DEF TypeOK, HandlerTypeOK, Open, NewSocket, Grows

\* The server takes the first message: no CONNECT is left.
LEMMA TailGrows ==
    ASSUME TypeOK, FreshInv, NEW t \in Sockets, NEW type, Receive(t, type)
    PROVE  /\ ready[t] # "none"
           /\ \A i \in 1 .. Len(toServer'[t]) : toServer'[t][i].type # "CONNECT"
           /\ \A s \in Sockets \ {t} : toServer'[s] = toServer[s]
<1>0. toServer[t] \in Seq(Messages) /\ toServer[t] # <<>> /\ toServer'[t] = Tail(toServer[t])
      /\ \A s \in Sockets \ {t} : toServer'[s] = toServer[s]
  BY DEF TypeOK, HandlerTypeOK, Receive
<1>1. Fresh(t)
  BY DEF FreshInv
<1>2. ASSUME NEW i \in 1 .. Len(toServer'[t]) PROVE toServer'[t][i].type # "CONNECT"
  <2>1. i + 1 \in 1 .. Len(toServer[t]) /\ toServer'[t][i] = toServer[t][i + 1] /\ i + 1 # 1
    BY <1>0
  <2> QED BY <1>1, <2>1 DEF Fresh
<1> QED BY <1>0, <1>1, <1>2 DEF Fresh

\* The reference is a socket that has been opened.
RefInv == websocket # 0 => ready[websocket] # "none"

\* The reference only ever names such a socket.
LEMMA RefStep == TypeOK /\ RefInv /\ [Next]_vars => RefInv'
<1> SUFFICES ASSUME TypeOK, RefInv, [Next]_vars PROVE RefInv'
  OBVIOUS
<1>0. /\ ready \in [Sockets -> {"none", "connecting", "open", "closing", "closed"}]
      /\ websocket # 0 => websocket \in Sockets
  BY DEF TypeOK
<1>1. ASSUME NEW s \in Sockets, Open(s) PROVE RefInv'
  BY <1>0, <1>1 DEF Open, RefInv
<1>2. ASSUME UNCHANGED <<websocket, ready>> PROVE RefInv'
  BY <1>2 DEF RefInv
<1>3. ASSUME NEW requests, InitReceive(requests) PROVE RefInv'
  BY <1>1, <1>2, <1>3 DEF InitReceive
<1>4. ASSUME NEW s \in Sockets, OnOpen(s) PROVE RefInv'
  BY <1>0, <1>4 DEF OnOpen, RefInv
<1>5. CASE OnDelay \/ \E s \in Sockets : OnClose(s)
  BY <1>5 DEF OnDelay, OnClose, RefInv
<1>6. CASE User
  BY <1>2, <1>3, <1>6 DEF User, UserActs, Initialize, InitializeOther, RetryConnection, Hide, Show,
                          CloseChart
<1> QED BY <1>2, <1>4, <1>5, <1>6
        DEF Next, Callback, Server, OnMessage, DropMessage, Cut, vars, chartVars

\* What the browser's events do to the wire of a socket.
BrowserWrites(s) == /\ ready'[s] = "none" => ready[s] = "none"
                    /\ \E new \in Seq(Messages) : Quiet(new) /\ Grows(s, new)

\* The browser never sends a CONNECT, and a socket once made stays made.
LEMMA ChartWrites ==
    ASSUME TypeOK, RefInv, [Next]_vars, ~Server, NEW s \in Sockets
    PROVE  BrowserWrites(s)
<1>g. ASSUME NEW new \in Seq(Messages), Quiet(new), Grows(s, new),
             ready'[s] = "none" => ready[s] = "none"
      PROVE  BrowserWrites(s)
  BY <1>g DEF BrowserWrites
<1>u. ASSUME UNCHANGED <<toServer, ready>> PROVE BrowserWrites(s)
  BY <1>g, <1>u, QuietMessages DEF Grows
<1>i. ASSUME NEW new \in Seq(Messages), Quiet(new), InitReceive(new) PROVE BrowserWrites(s)
  <2>1. CASE \E t \in Sockets : Open(t)
    BY <1>g, <1>i, <2>1, OpenGrows
  <2>2. CASE toServer' = Through(new) /\ UNCHANGED <<link, websocket, ready>>
    BY <1>g, <1>i, <2>2, ThroughGrows
  <2> QED BY <1>i, <2>1, <2>2 DEF InitReceive
<1>t. ASSUME NEW new \in Seq(Messages), Quiet(new), toServer' = Through(new),
             ready'[s] = "none" => ready[s] = "none"
      PROVE  BrowserWrites(s)
  BY <1>g, <1>t, ThroughGrows
<1>m. /\ \A app \in Names : /\ <<Ask(app)>> \in Seq(Messages) /\ Quiet(<<Ask(app)>>)
                            /\ Reselect(app) \in Seq(Messages) /\ Quiet(Reselect(app))
      /\ <<Msg("PONG")>> \in Seq(Messages) /\ Quiet(<<Msg("PONG")>>)
      /\ <<Msg("CLOSE")>> \in Seq(Messages) /\ Quiet(<<Msg("CLOSE")>>)
      /\ "" \in Names /\ Applications \subseteq Names
  BY QuietMessages
<1>c. current \in Names /\ ready \in [Sockets -> {"none", "connecting", "open", "closing", "closed"}]
      /\ (websocket # 0 => websocket \in Sockets)
  BY DEF TypeOK
<1>1. ASSUME NEW app \in Applications, Initialize(app) PROVE BrowserWrites(s)
  BY <1>u, <1>1, <1>i, <1>m DEF Initialize, wires
<1>2. CASE InitializeOther
  BY <1>u, <1>2 DEF InitializeOther, wires
<1>3. CASE RetryConnection
  BY <1>3, <1>i, <1>m, <1>c DEF RetryConnection
<1>4. CASE Hide
  BY <1>u, <1>4, <1>t, <1>m DEF Hide
<1>5. CASE Show
  BY <1>u, <1>5, <1>i, <1>m, <1>c DEF Show
<1>6. CASE CloseChart
  BY <1>u, <1>6, <1>t, <1>m DEF CloseChart
<1>7. CASE OnDelay
  <2>1. ready[websocket] # "none" /\ (ready'[s] = "none" => ready[s] = "none")
    BY <1>7, <1>c DEF OnDelay, RefInv
  <2> QED BY <1>7, <1>g, <1>m, <1>c, <2>1, SentGrows, MessageTypes DEF OnDelay
<1>8. ASSUME NEW t \in Sockets, OnOpen(t) PROVE BrowserWrites(s)
  <2>1. ready[t] # "none" /\ (ready'[s] = "none" => ready[s] = "none")
    BY <1>8, <1>c DEF OnOpen
  <2>2. CASE toServer' = Through(<<Ask(current)>>)
    BY <1>t, <1>m, <1>c, <2>1, <2>2
  <2>3. CASE toServer' = Sent(toServer, t, Ask(current))
    BY <1>g, <1>m, <1>c, <2>1, <2>3, SentGrows, MessageTypes
  <2> QED BY <1>8, <2>2, <2>3 DEF OnOpen
<1>9. ASSUME NEW t \in Sockets, OnMessage(t) PROVE BrowserWrites(s)
  BY <1>u, <1>9, <1>t, <1>m DEF OnMessage
<1>10. ASSUME NEW t \in Sockets, DropMessage(t) PROVE BrowserWrites(s)
  BY <1>u, <1>10 DEF DropMessage, chartVars
<1>11. ASSUME NEW t \in Sockets, OnClose(t) PROVE BrowserWrites(s)
  <2>1. ready'[s] = "none" => ready[s] = "none"
    BY <1>11, <1>c DEF OnClose
  <2> QED BY <1>11, <1>g, <1>m, <2>1 DEF OnClose, Grows
<1>12. ASSUME NEW t \in Sockets, Cut(t) PROVE BrowserWrites(s)
  <2>1. Grows(s, <<Msg("PONG")>>)
    BY <1>12 DEF Cut, Grows, TypeOK, HandlerTypeOK
  <2> QED BY <1>12, <1>g, <1>m, <2>1 DEF Cut, chartVars
<1>13. CASE UNCHANGED vars
  BY <1>u, <1>13 DEF vars, wires, handlerVars, chartVars
<1> QED BY <1>1, <1>2, <1>3, <1>4, <1>5, <1>6, <1>7, <1>8, <1>9, <1>10, <1>11, <1>12,
           <1>13 DEF Next, User, UserActs, Callback

\* Sockets stay fresh until the server has heard of them.
LEMMA FreshStep == TypeOK /\ RefInv /\ FreshInv /\ [Next]_vars => FreshInv'
<1> SUFFICES ASSUME TypeOK, RefInv, FreshInv, [Next]_vars PROVE FreshInv'
  OBVIOUS
<1> SUFFICES ASSUME NEW s \in Sockets PROVE Fresh(s)'
  BY DEF FreshInv
<1>0. Fresh(s)
  BY DEF FreshInv
<1>u. ASSUME UNCHANGED <<toServer, ready, application, request>> PROVE Fresh(s)'
  BY <1>0, <1>u DEF Fresh
<1>1. ASSUME NEW t \in Sockets, Handle(t), UNCHANGED ready PROVE Fresh(s)'
  <2>1. CASE t # s
    <3>1. toServer'[s] = toServer[s] /\ application'[s] = application[s]
          /\ request'[s] = request[s]
      BY <1>1, <2>1 DEF Handle, AfterConnectionEstablished, AfterConnectionClosed, ReceiveRequest,
           HandleRequest, HandlePong, ReceiveClose, ReceiveLate, Receive, wires, handlerVars,
           TypeOK, HandlerTypeOK
    <3> QED BY <1>0, <1>1, <3>1 DEF Fresh
  <2>2. CASE t = s /\ \E type : Receive(s, type)
    BY <1>1, <2>2, TailGrows DEF Fresh
  <2>3. CASE t = s /\ AfterConnectionClosed(s)
    BY <1>1, <1>u, <2>3 DEF AfterConnectionClosed, wires
  <2>4. CASE t = s /\ HandleRequest(s)
    <3>1. request[s] # "none" /\ toServer' = toServer
      BY <2>4 DEF HandleRequest
    <3> QED BY <1>0, <1>1, <3>1 DEF Fresh
  <2> QED BY <1>1, <2>1, <2>2, <2>3, <2>4
          DEF Handle, AfterConnectionEstablished, ReceiveRequest, HandlePong, ReceiveClose,
              ReceiveLate
<1>2. CASE (Flush \/ HealthTimer) /\ UNCHANGED chartVars
  BY <1>2, <1>u DEF Flush, HealthTimer, HealthCheck, Ping, chartVars
<1>3. CASE ~Server
  <2>1. UNCHANGED <<application, request>>
    BY <1>3, ChartKeepsHandler DEF handlerVars
  <2> QED BY <1>3, <2>1, ChartWrites, FreshWires DEF BrowserWrites
<1> QED BY <1>1, <1>2, <1>3 DEF Server, chartVars

\* A session that is fresh or bound to nothing need not be served, any other one is.
LEMMA ServedStep == TypeOK /\ FreshInv /\ BoundIsServed /\ [Next]_vars => BoundIsServed'
<1> SUFFICES ASSUME TypeOK, FreshInv, BoundIsServed, [Next]_vars PROVE BoundIsServed'
  OBVIOUS
<1>0. /\ open \in [Sockets -> BOOLEAN] /\ application \in [Sockets -> Names]
      /\ request \in [Sockets -> Names \cup {"none"}]
      /\ sessions \subseteq Sockets /\ members \in [Applications -> SUBSET Sockets]
      /\ toServer \in [Sockets -> Seq(Messages)]
  BY DEF TypeOK, HandlerTypeOK
<1>n. Names = Applications \cup {""}
  BY DEF Names
<1>1. ASSUME NEW s \in Sockets, AfterConnectionEstablished(s) PROVE BoundIsServed'
  <2>1. application[s] = ""
    <3>1. 1 \in 1 .. Len(toServer[s]) /\ toServer[s][1].type = "CONNECT"
      BY <1>0, <1>1 DEF AfterConnectionEstablished, Receive
    <3> QED BY <3>1 DEF FreshInv, Fresh
  <2> QED BY <1>0, <1>1, <2>1 DEF AfterConnectionEstablished, BoundIsServed, Served
<1>2. ASSUME NEW s \in Sockets, AfterConnectionClosed(s) PROVE BoundIsServed'
  <2> SUFFICES ASSUME NEW t \in sessions, t # s, open[t], application[t] # "" PROVE Served(t)'
    BY <1>2 DEF AfterConnectionClosed, BoundIsServed
  <2>1. Served(t) /\ application[t] \in Applications
    BY <1>0, <1>n DEF BoundIsServed
  <2>2. application[t] \in AggregatorsWithout(s) /\ t \in MembersWithout(s)[application[t]]
    BY <1>0, <2>1 DEF AggregatorsWithout, MembersWithout, Served
  <2> QED BY <1>2, <2>1, <2>2 DEF AfterConnectionClosed, Served
<1>3. ASSUME NEW s \in Sockets, HandleRequest(s) PROVE BoundIsServed'
  <2> DEFINE app == request[s]
  <2>1. app \in Names
    BY <1>0, <1>3 DEF HandleRequest
  <2>2. SUFFICES ASSUME NEW t \in sessions, open'[t], application'[t] # ""
                 PROVE  Served(t)'
    BY <1>3 DEF HandleRequest, BoundIsServed
  <2>3. open[t]
    BY <1>0, <1>3, <2>2 DEF HandleRequest, CloseSession
  <2>4. CASE UNCHANGED <<application, aggregators, members>>
    BY <2>2, <2>3, <2>4 DEF BoundIsServed, Served
  <2>5. CASE /\ app # application[s]
             /\ application' = [application EXCEPT ![s] = app]
             /\ aggregators' = AggregatorsWithout(s) \cup AggregatorOf(app)
    <3>1. CASE t # s
      <4>1. application'[t] = application[t] /\ Served(t) /\ application[t] \in Applications
        BY <1>0, <1>n, <2>2, <2>3, <2>5, <3>1 DEF BoundIsServed
      <4>2. application[t] \in AggregatorsWithout(s) /\ t \in MembersWithout(s)[application[t]]
        BY <1>0, <3>1, <4>1 DEF AggregatorsWithout, MembersWithout, Served
      <4>3. t \in members'[application[t]]
        BY <1>0, <1>3, <2>5, <4>1, <4>2 DEF HandleRequest, Served
      <4> QED BY <2>5, <4>1, <4>2, <4>3 DEF Served
    <3>2. CASE t = s
      <4>1. application'[s] = app /\ app \in Applications /\ app \in aggregators'
        BY <1>0, <1>n, <2>1, <2>2, <2>5, <3>2 DEF AggregatorOf
      <4>2. ~CloseSession(s)
        BY <1>0, <2>2, <3>2 DEF CloseSession
      <4>3. members' = [a \in Applications |->
                         IF a = app THEN members[a] \cup {s} ELSE MembersWithout(s)[a]]
        BY <1>3, <2>5, <4>2 DEF HandleRequest
      <4>4. members'[app] = members[app] \cup {s}
        BY <4>1, <4>3
      <4> QED BY <3>2, <4>1, <4>4 DEF Served
    <3> QED BY <3>1, <3>2
  <2> QED BY <1>3, <2>4, <2>5 DEF HandleRequest
<1>4. ASSUME UNCHANGED <<application, aggregators, members, sessions>>,
             \A s \in Sockets : open'[s] => open[s]
      PROVE  BoundIsServed'
  BY <1>0, <1>4 DEF BoundIsServed, Served
<1>5. CASE (\E s \in Sockets : ReceiveRequest(s) \/ HandlePong(s) \/ ReceiveClose(s) \/ ReceiveLate(s))
  BY <1>0, <1>4, <1>5 DEF ReceiveRequest, HandlePong, ReceiveClose, ReceiveLate, handlerVars
<1>6. CASE Flush \/ HealthTimer
  BY <1>0, <1>4, <1>6 DEF Flush, HealthTimer, HealthCheck, Ping
<1>7. CASE UNCHANGED handlerVars
  BY <1>4, <1>7 DEF handlerVars
<1> QED BY <1>1, <1>2, <1>3, <1>5, <1>6, <1>7, ChartKeepsHandler DEF Server, Handle

\* Every socket is fresh until the server has heard of it.
LEMMA FreshAlways == Spec => [](RefInv /\ FreshInv)
<1>1. Init => RefInv /\ FreshInv
  <2> SUFFICES ASSUME Init PROVE RefInv /\ FreshInv
    OBVIOUS
  <2>1. RefInv
    BY DEF Init, RefInv
  <2>2. ASSUME NEW s \in Sockets PROVE Fresh(s)
    <3>1. toServer[s] = <<>> /\ application[s] = "" /\ request[s] = "none"
      BY DEF Init, HandlerInit
    <3>2. Len(<<>>) = 0 /\ 1 .. 0 = {}
      OBVIOUS
    <3>3. 1 .. Len(toServer[s]) = {}
      BY <3>1, <3>2
    <3> QED BY <3>1, <3>3 DEF Fresh
  <2> QED BY <2>1, <2>2 DEF FreshInv
<1> QED BY <1>1, ChartTypes, RefStep, FreshStep, PTL DEF Spec

\* Every open session with an application is among the members of an aggregator that is
\* flushed, for any number of sessions and applications.
THEOREM BoundAlwaysServed == Spec => []BoundIsServed
<1>1. Init => BoundIsServed
  BY DEF Init, HandlerInit, BoundIsServed
<1> QED BY <1>1, ChartTypes, FreshAlways, ServedStep, PTL DEF Spec

(***************************************************************************)
(* The chart.                                                              *)
(***************************************************************************)

\* A chart that is put on the screen gets a message with it, and a message that is taken
\* away came through an open socket.
LEMMA ToldStep == TypeOK /\ ToldWhenClosed /\ [Next]_vars => ToldWhenClosed'
<1> SUFFICES ASSUME TypeOK, ToldWhenClosed, [Next]_vars PROVE ToldWhenClosed'
  OBVIOUS
<1>0. /\ ready \in [Sockets -> {"none", "connecting", "open", "closing", "closed"}]
      /\ websocket # 0 => websocket \in Sockets
  BY DEF TypeOK
<1>1. ASSUME warning' # "none" PROVE ToldWhenClosed'
  BY <1>1 DEF ToldWhenClosed
<1>2. ASSUME UNCHANGED <<popup, shown, ready, warning>> PROVE ToldWhenClosed'
  BY <1>2 DEF ToldWhenClosed
<1>3. ASSUME ~popup' \/ ~shown' PROVE ToldWhenClosed'
  BY <1>3 DEF ToldWhenClosed
<1>4. ASSUME NEW s \in Sockets, ready'[s] \notin {"none", "closed"} PROVE ToldWhenClosed'
  BY <1>4 DEF ToldWhenClosed
<1>5. CASE User
  <2>1. ASSUME NEW app \in Applications, Initialize(app) PROVE ToldWhenClosed'
    BY <1>1, <1>2, <1>3, <2>1 DEF Initialize
  <2>2. CASE InitializeOther
    BY <2>2 DEF InitializeOther, ToldWhenClosed
  <2>3. CASE RetryConnection \/ Hide \/ Show
    BY <1>1, <1>3, <2>3 DEF RetryConnection, Hide, Show
  <2>4. CASE CloseChart
    BY <1>3, <2>4 DEF CloseChart
  <2> QED BY <1>5, <2>1, <2>2, <2>3, <2>4 DEF User, UserActs
<1>6. CASE Server
  BY <1>2, <1>6 DEF Server, chartVars
<1>7. CASE OnDelay
  BY <1>0, <1>4, <1>7 DEF OnDelay
<1>8. ASSUME NEW s \in Sockets, OnOpen(s) \/ OnMessage(s) PROVE ToldWhenClosed'
  BY <1>0, <1>4, <1>8 DEF OnOpen, OnMessage
<1>9. ASSUME NEW s \in Sockets, OnClose(s) PROVE ToldWhenClosed'
  BY <1>1, <1>9 DEF OnClose, DisconnectedConnection
<1>10. ASSUME NEW s \in Sockets, DropMessage(s) \/ Cut(s) PROVE ToldWhenClosed'
  BY <1>2, <1>10 DEF DropMessage, Cut, chartVars
<1>11. CASE UNCHANGED vars
  BY <1>2, <1>11 DEF vars, chartVars
<1> QED BY <1>5, <1>6, <1>7, <1>8, <1>9, <1>10, <1>11 DEF Next, Callback

\* Whoever looks at a chart without a socket reads why, for any number of sockets.
THEOREM AlwaysTold == Spec => []ToldWhenClosed
<1>1. Init => ToldWhenClosed
  BY DEF Init, ToldWhenClosed
<1> QED BY <1>1, ChartTypes, ToldStep, PTL DEF Spec

(***************************************************************************)
(* The subscription.                                                       *)
(***************************************************************************)

\* The server has not heard of the socket.
Unheard(s) ==
    ready[s] = "none" \/ \E i \in 1 .. Len(toServer[s]) : toServer[s][i].type = "CONNECT"
HeardInv ==
    \A s \in Sockets : Unheard(s) => ~open[s] /\ toBrowser[s] = <<>> /\ ready[s] # "open"

\* A socket the server has heard of stays so, except that the browser makes a new one.
LEMMA HeardStays ==
    ASSUME TypeOK, RefInv, FreshInv, [Next]_vars, NEW s \in Sockets, Unheard(s)'
    PROVE  Unheard(s)
<1>0. toServer[s] \in Seq(Messages)
  BY DEF TypeOK, HandlerTypeOK
<1>1. CASE ~Server
  <2>1. PICK new \in Seq(Messages) : Quiet(new) /\ Grows(s, new)
    BY <1>1, ChartWrites DEF BrowserWrites
  <2>2. ready'[s] = "none" => ready[s] = "none"
    BY <1>1, ChartWrites DEF BrowserWrites
  <2>3. SUFFICES ASSUME NEW i \in 1 .. Len(toServer'[s]), toServer'[s][i].type = "CONNECT",
                        ready[s] # "none"
                 PROVE  Unheard(s)
    BY <2>2 DEF Unheard
  <2>4. CASE toServer'[s] = toServer[s]
    BY <2>3, <2>4 DEF Unheard
  <2>5. CASE toServer'[s] = <<>>
    <3>1. Len(<<>>) = 0 /\ 1 .. 0 = {}
      OBVIOUS
    <3> QED BY <2>3, <2>5, <3>1
  <2>6. CASE toServer'[s] = toServer[s] \o new
    <3>1. CASE i <= Len(toServer[s])
      BY <1>0, <2>3, <2>6, <3>1 DEF Unheard
    <3>2. CASE i > Len(toServer[s])
      <4>1. i - Len(toServer[s]) \in 1 .. Len(new)
            /\ toServer'[s][i] = new[i - Len(toServer[s])]
        BY <1>0, <2>3, <2>6, <3>2
      <4> QED BY <2>1, <2>3, <4>1 DEF Quiet
    <3> QED BY <1>0, <2>6, <3>1, <3>2
  <2> QED BY <2>1, <2>3, <2>4, <2>5, <2>6 DEF Grows
<1>2. ASSUME NEW t \in Sockets, Handle(t), UNCHANGED ready PROVE Unheard(s)
  <2>1. CASE toServer'[s] = toServer[s]
    BY <1>2, <2>1 DEF Unheard
  <2>2. CASE \E type : Receive(t, type)
    BY <1>2, <2>1, <2>2, TailGrows DEF Unheard
  <2>3. CASE AfterConnectionClosed(t) \/ HandleRequest(t)
    BY <2>1, <2>3 DEF AfterConnectionClosed, HandleRequest, wires
  <2> QED BY <1>2, <2>2, <2>3
          DEF Handle, AfterConnectionEstablished, ReceiveRequest, HandlePong, ReceiveClose,
              ReceiveLate
<1>3. CASE (Flush \/ HealthTimer) /\ UNCHANGED chartVars
  BY <1>3 DEF Flush, HealthTimer, HealthCheck, Ping, chartVars, Unheard
<1> QED BY <1>1, <1>2, <1>3 DEF Server, chartVars

\* Nothing comes from a server that has not heard of the socket.
LEMMA HeardStep == TypeOK /\ RefInv /\ FreshInv /\ HeardInv /\ [Next]_vars => HeardInv'
<1> SUFFICES ASSUME TypeOK, RefInv, FreshInv, HeardInv, [Next]_vars PROVE HeardInv'
  OBVIOUS
<1> SUFFICES ASSUME NEW s \in Sockets, Unheard(s)'
             PROVE  ~open'[s] /\ toBrowser'[s] = <<>> /\ ready'[s] # "open"
  BY DEF HeardInv
<1>0. /\ ready \in [Sockets -> {"none", "connecting", "open", "closing", "closed"}]
      /\ open \in [Sockets -> BOOLEAN] /\ toBrowser \in [Sockets -> Seq(Messages)]
      /\ toServer \in [Sockets -> Seq(Messages)]
  BY DEF TypeOK, HandlerTypeOK
<1>1. Unheard(s) /\ ~open[s] /\ toBrowser[s] = <<>> /\ ready[s] # "open"
  BY HeardStays DEF HeardInv
<1>2. ASSUME UNCHANGED <<open, toBrowser, ready>>
      PROVE  ~open'[s] /\ toBrowser'[s] = <<>> /\ ready'[s] # "open"
  BY <1>1, <1>2
<1>3. ASSUME NEW t \in Sockets, Handle(t), UNCHANGED ready
      PROVE  ~open'[s] /\ toBrowser'[s] = <<>> /\ ready'[s] # "open"
  <2>1. CASE AfterConnectionEstablished(t)
    <3>1. t # s
      BY <1>3, <2>1, TailGrows DEF AfterConnectionEstablished, Unheard
    <3> QED BY <1>0, <1>1, <1>3, <2>1, <3>1 DEF AfterConnectionEstablished, Sent
  <2>2. CASE HandleRequest(t)
    BY <1>0, <1>1, <1>3, <2>2 DEF HandleRequest, CloseSession, Sent
  <2>3. CASE AfterConnectionClosed(t) \/ ReceiveRequest(t) \/ HandlePong(t) \/ ReceiveClose(t)
             \/ ReceiveLate(t)
    BY <1>0, <1>1, <1>3, <2>3 DEF AfterConnectionClosed, ReceiveRequest, HandlePong, ReceiveClose,
                                  ReceiveLate, wires, handlerVars
  <2> QED BY <1>3, <2>1, <2>2, <2>3 DEF Handle
<1>4. CASE (Flush \/ HealthTimer) /\ UNCHANGED chartVars
  BY <1>0, <1>1, <1>4 DEF Flush, HealthTimer, HealthCheck, Ping, chartVars
<1>5. CASE ~Server
  <2>0. ~open'[s]
    BY <1>1, <1>5, ChartKeepsHandler DEF handlerVars
  <2>1. ASSUME NEW messages, InitReceive(messages) PROVE ready'[s] # "open"
    BY <1>0, <1>1, <2>1 DEF InitReceive, Open
  <2>2. CASE User
    BY <1>1, <2>0, <2>1, <2>2 DEF User, UserActs, Initialize, InitializeOther, RetryConnection,
                                  Hide, Show, CloseChart, wires
  <2>3. CASE OnDelay
    BY <1>0, <1>1, <2>0, <2>3 DEF OnDelay, TypeOK
  <2>4. ASSUME NEW t \in Sockets, OnOpen(t) \/ OnMessage(t) \/ DropMessage(t)
        PROVE  toBrowser'[s] = <<>> /\ ready'[s] # "open"
    <3>1. PICK type \in {"ACCEPT", "PING", "RESPONSE"} : Arrives(t, type)
      BY <2>4 DEF OnOpen, OnMessage, DropMessage
    <3>2. t # s /\ toBrowser'[s] = toBrowser[s]
      BY <1>0, <1>1, <3>1 DEF Arrives
    <3> QED BY <1>0, <1>1, <2>4, <3>2 DEF OnOpen, OnMessage, DropMessage, chartVars
  <2>5. ASSUME NEW t \in Sockets, OnClose(t) \/ Cut(t)
        PROVE  toBrowser'[s] = <<>> /\ ready'[s] # "open"
    BY <1>0, <1>1, <2>5 DEF OnClose, Cut, chartVars
  <2>6. CASE UNCHANGED vars
    BY <1>2, <2>6 DEF vars, wires, handlerVars, chartVars
  <2> QED BY <1>5, <2>0, <2>2, <2>3, <2>4, <2>5, <2>6 DEF Next, Callback
<1> QED BY <1>3, <1>4, <1>5 DEF Server, chartVars

\* The requests among messages, and the one that decides.
Asks(messages) == {i \in 1 .. Len(messages) : messages[i].type = "REQUEST"}
Last(messages, app) ==
    \A i \in Asks(messages) : (\A j \in Asks(messages) : j <= i) => messages[i].app = app

\* The server will serve the socket with this application: it is the last one on its way,
\* or else the one about to be bound, or else the one bound.
Subscribed(s, app) ==
    IF Asks(toServer[s]) # {} THEN Last(toServer[s], app)
    ELSE IF request[s] # "none" THEN request[s] = app ELSE application[s] = app

\* The socket of the chart on the screen is subscribed to the application on the screen.
SubInv ==
    popup /\ shown /\ websocket # 0 =>
        (ready[websocket] = "open" /\ link[websocket] /\ open[websocket]
            => Subscribed(websocket, current))

\* A request behind all others decides.
LEMMA AskDecides ==
    ASSUME NEW old \in Seq(Messages), NEW app \in Names
    PROVE  /\ Asks(old \o <<Ask(app)>>) # {} /\ Last(old \o <<Ask(app)>>, app)
           /\ Asks(old \o Reselect(app)) # {} /\ Last(old \o Reselect(app), app)
<1>1. ASSUME NEW new \in Seq(Messages), Len(new) > 0, new[Len(new)] = Ask(app)
      PROVE  Asks(old \o new) # {} /\ Last(old \o new, app)
  <2> DEFINE all == old \o new
             n == Len(old) + Len(new)
  <2>1. Len(all) = n /\ n \in 1 .. n /\ all[n] = Ask(app) /\ n \in Nat
    BY <1>1
  <2>2. n \in Asks(all) /\ \A i \in Asks(all) : i <= n /\ i \in Nat
    BY <2>1 DEF Asks, Ask
  <2>3. ASSUME NEW i \in Asks(all), \A j \in Asks(all) : j <= i PROVE all[i].app = app
    <3>1. i = n
      BY <2>1, <2>2, <2>3
    <3> QED BY <2>1, <3>1 DEF Ask
  <2> QED BY <2>2, <2>3 DEF Last
<1>2. Ask(app) \in Messages /\ Ask("") \in Messages
  BY MessageTypes
<1>3. ASSUME NEW m \in Messages, NEW n \in Messages
      PROVE  /\ <<m>> \in Seq(Messages) /\ Len(<<m>>) = 1 /\ <<m>>[1] = m
             /\ <<n, m>> \in Seq(Messages) /\ Len(<<n, m>>) = 2 /\ <<n, m>>[2] = m
  OBVIOUS
<1>5. Asks(old \o <<Ask(app)>>) # {} /\ Last(old \o <<Ask(app)>>, app)
  <2> DEFINE new == <<Ask(app)>>
  <2>1. new \in Seq(Messages) /\ Len(new) = 1 /\ new[1] = Ask(app)
    BY <1>2, <1>3
  <2> HIDE DEF new
  <2>2. new[Len(new)] = Ask(app) /\ Len(new) > 0
    BY <2>1
  <2>3. Asks(old \o new) # {} /\ Last(old \o new, app)
    BY <1>1, <2>1, <2>2
  <2> QED BY <2>3 DEF new
<1>6. Asks(old \o Reselect(app)) # {} /\ Last(old \o Reselect(app), app)
  <2> DEFINE new == <<Ask(""), Ask(app)>>
  <2>1. new \in Seq(Messages) /\ Len(new) = 2 /\ new[2] = Ask(app)
    BY <1>2, <1>3
  <2> HIDE DEF new
  <2>2. new[Len(new)] = Ask(app) /\ Len(new) > 0
    BY <2>1
  <2>3. Asks(old \o new) # {} /\ Last(old \o new, app)
    BY <1>1, <2>1, <2>2
  <2> QED BY <2>3 DEF new, Reselect
<1> QED BY <1>5, <1>6

\* A PONG decides nothing.
LEMMA PongDecidesNothing ==
    ASSUME NEW old \in Seq(Messages)
    PROVE  /\ Asks(old \o <<Msg("PONG")>>) = Asks(old)
           /\ \A i \in Asks(old) : (old \o <<Msg("PONG")>>)[i] = old[i]
<1>1. Msg("PONG") \in Messages /\ Msg("PONG").type = "PONG"
  BY MessageTypes DEF Msg
<1>2. <<Msg("PONG")>> \in Seq(Messages)
  BY <1>1
<1> DEFINE all == old \o <<Msg("PONG")>>
<1>3. /\ Len(all) = Len(old) + 1 /\ all[Len(old) + 1] = Msg("PONG")
      /\ \A i \in 1 .. Len(old) : all[i] = old[i]
  BY <1>1
<1> QED BY <1>1, <1>3 DEF Asks

\* Taking the first message shifts the requests.
LEMMA TailAsks ==
    ASSUME NEW old \in Seq(Messages), old # <<>>, NEW app,
           Asks(old) # {} => Last(old, app)
    PROVE  /\ Asks(Tail(old)) # {} => Asks(old) # {} /\ Last(Tail(old), app)
           /\ Asks(Tail(old)) = {} /\ Head(old).type = "REQUEST" => Head(old).app = app
           /\ Asks(Tail(old)) = {} /\ Head(old).type # "REQUEST" => Asks(old) = {}
<1>1. /\ Len(Tail(old)) = Len(old) - 1 /\ Len(old) \in Nat \ {0} /\ Head(old) = old[1]
      /\ \A i \in 1 .. Len(Tail(old)) : Tail(old)[i] = old[i + 1]
  OBVIOUS
<1>2. \A i \in Asks(Tail(old)) : i \in Nat /\ i + 1 \in Asks(old) /\ Tail(old)[i] = old[i + 1]
  BY <1>1 DEF Asks
<1>3. \A i \in Asks(old) : i \in Nat /\ (i # 1 => i - 1 \in Asks(Tail(old)))
  BY <1>1 DEF Asks
<1>4. ASSUME NEW i \in Asks(Tail(old)), \A j \in Asks(Tail(old)) : j <= i
      PROVE  Tail(old)[i].app = app
  <2>1. ASSUME NEW j \in Asks(old) PROVE j <= i + 1
    BY <1>2, <1>3, <1>4
  <2> QED BY <1>2, <2>1 DEF Last
<1>5. ASSUME Asks(Tail(old)) = {} PROVE Asks(old) \subseteq {1}
  BY <1>3, <1>5
<1>6. ASSUME Asks(Tail(old)) = {}, Head(old).type = "REQUEST" PROVE Head(old).app = app
  <2>1. 1 \in Asks(old)
    BY <1>1, <1>6 DEF Asks
  <2> QED BY <1>1, <1>5, <1>6, <2>1 DEF Last
<1>7. ASSUME Asks(Tail(old)) = {}, Head(old).type # "REQUEST" PROVE Asks(old) = {}
  BY <1>1, <1>5, <1>7 DEF Asks
<1> QED BY <1>2, <1>4, <1>6, <1>7 DEF Last

\* The server keeps a subscription on its way.
LEMMA ServerSubscribed ==
    ASSUME TypeOK, NEW s \in Sockets, NEW t \in Sockets, Handle(t), open[s], open'[s],
           NEW app, Subscribed(s, app)
    PROVE  Subscribed(s, app)'
<1>0. /\ toServer \in [Sockets -> Seq(Messages)]
      /\ request \in [Sockets -> Names \cup {"none"}] /\ application \in [Sockets -> Names]
      /\ "none" \notin Names
  BY ApplicationsAssumption DEF TypeOK, HandlerTypeOK, Names
<1>1. CASE toServer'[s] = toServer[s] /\ application'[s] = application[s] /\ request'[s] = request[s]
  BY <1>1 DEF Subscribed
<1>2. CASE t # s
  BY <1>0, <1>1, <1>2
  DEF Handle, AfterConnectionEstablished, AfterConnectionClosed, ReceiveRequest, HandleRequest,
      HandlePong, ReceiveClose, ReceiveLate, Receive, wires, handlerVars
<1>3. ASSUME NEW type, Receive(s, type)
      PROVE  /\ toServer[s] \in Seq(Messages) /\ toServer[s] # <<>> /\ toServer'[s] = Tail(toServer[s])
             /\ Head(toServer[s]).type = type /\ request[s] = "none"
             /\ Asks(toServer[s]) # {} => Last(toServer[s], app)
  BY <1>0, <1>3 DEF Receive, Subscribed
<1>4. CASE t = s /\ ReceiveRequest(s)
  <2>1. request'[s] = Head(toServer[s]).app
    BY <1>0, <1>4 DEF ReceiveRequest
  <2>2. Head(toServer[s]) \in Messages
    BY <1>0, <1>4, TailType DEF ReceiveRequest, Receive
  <2>3. request'[s] # "none"
    BY <1>0, <2>1, <2>2 DEF Messages
  <2>4. /\ Asks(toServer'[s]) # {} => Last(toServer'[s], app)
        /\ Asks(toServer'[s]) = {} => request'[s] = app
    BY <1>3, <1>4, <2>1, TailAsks DEF ReceiveRequest
  <2> QED BY <2>3, <2>4 DEF Subscribed
<1>5. CASE t = s /\ (AfterConnectionEstablished(s) \/ HandlePong(s) \/ ReceiveClose(s) \/ ReceiveLate(s))
  <2>1. PICK type \in {"CONNECT", "PONG", "CLOSE"} : Receive(s, type)
    BY <1>5 DEF AfterConnectionEstablished, HandlePong, ReceiveClose, ReceiveLate
  <2>2. request'[s] = request[s] /\ application'[s] = application[s]
    BY <1>5 DEF AfterConnectionEstablished, HandlePong, ReceiveClose, ReceiveLate, handlerVars
  <2>3. /\ Asks(toServer'[s]) # {} => Last(toServer'[s], app)
        /\ Asks(toServer'[s]) = {} => Asks(toServer[s]) = {}
    BY <1>3, <2>1, TailAsks
  <2> QED BY <2>2, <2>3 DEF Subscribed
<1>6. CASE t = s /\ HandleRequest(s)
  <2>1. toServer' = toServer /\ request[s] # "none" /\ request'[s] = "none"
        /\ application'[s] = request[s]
    BY <1>0, <1>6 DEF HandleRequest
  <2> QED BY <2>1 DEF Subscribed
<1>7. CASE t = s /\ AfterConnectionClosed(s)
  BY <1>1, <1>7 DEF AfterConnectionClosed, wires
<1> QED BY <1>2, <1>4, <1>5, <1>6, <1>7 DEF Handle

\* What the chart sends through the reference subscribes it.
LEMMA ThroughSubscribes ==
    ASSUME TypeOK, NEW app \in Names, websocket # 0, link[websocket],
           toServer' = Through(<<Ask(app)>>) \/ toServer' = Through(Reselect(app)),
           ready[websocket] = "open", NEW s, s = websocket
    PROVE  Subscribed(s, app)'
<1>1. websocket \in Sockets /\ toServer[websocket] \in Seq(Messages)
      /\ toServer \in [Sockets -> Seq(Messages)]
  BY DEF TypeOK, HandlerTypeOK
<1>2. \/ toServer'[websocket] = toServer[websocket] \o <<Ask(app)>>
      \/ toServer'[websocket] = toServer[websocket] \o Reselect(app)
  BY <1>1 DEF Through
<1> QED BY <1>1, <1>2, AskDecides DEF Subscribed

\* What the chart sends instead of a request leaves the subscription.
LEMMA PongSubscribed ==
    ASSUME TypeOK, websocket # 0, toServer' = Through(<<Msg("PONG")>>),
           UNCHANGED <<request, application>>, NEW app, Subscribed(websocket, app)
    PROVE  \A s : s = websocket => Subscribed(s, app)'
<1>1. websocket \in Sockets /\ toServer[websocket] \in Seq(Messages)
      /\ toServer \in [Sockets -> Seq(Messages)]
  BY DEF TypeOK, HandlerTypeOK
<1>2. \/ toServer'[websocket] = toServer[websocket]
      \/ toServer'[websocket] = toServer[websocket] \o <<Msg("PONG")>>
  BY <1>1 DEF Through
<1>3. Asks(toServer'[websocket]) = Asks(toServer[websocket])
      /\ \A i \in Asks(toServer[websocket]) : toServer'[websocket][i] = toServer[websocket][i]
  BY <1>1, <1>2, PongDecidesNothing
<1> QED BY <1>3 DEF Subscribed, Last

\* The user's choices, the callbacks and the server keep it.
LEMMA SubStep == TypeOK /\ RefInv /\ HeardInv /\ SubInv /\ [Next]_vars => SubInv'
<1> SUFFICES ASSUME TypeOK, RefInv, HeardInv, SubInv, [Next]_vars PROVE SubInv'
  OBVIOUS
<1> SUFFICES ASSUME NEW s, NEW app, s = websocket', app = current',
                    popup', shown', websocket' # 0, ready'[s] = "open", link'[s], open'[s]
             PROVE  Subscribed(s, app)'
  BY DEF SubInv, Subscribed
<1>0. /\ ready \in [Sockets -> {"none", "connecting", "open", "closing", "closed"}]
      /\ websocket # 0 => websocket \in Sockets
      /\ open \in [Sockets -> BOOLEAN] /\ link \in [Sockets -> BOOLEAN]
      /\ toServer \in [Sockets -> Seq(Messages)]
      /\ current \in Names /\ Applications \subseteq Names
  BY DEF TypeOK, HandlerTypeOK, Names
<1>p. s = websocket' /\ ready'[s] = "open" /\ link'[s] /\ open'[s]
      /\ popup' /\ shown' /\ websocket' # 0
  OBVIOUS
<1>q. app = current'
  OBVIOUS
<1>k. ASSUME popup, shown, websocket = s, ready[s] = "open", link[s], open[s], current = app
      PROVE  Subscribed(s, app)
  BY <1>k, <1>p DEF SubInv
<1>1. ASSUME NEW t \in Sockets, Handle(t), UNCHANGED chartVars PROVE Subscribed(s, app)'
  <2>1. popup /\ shown /\ websocket = s /\ ready[s] = "open" /\ current = app /\ s \in Sockets
    BY <1>0, <1>1, <1>p, <1>q DEF chartVars
  <2>2. UNCHANGED link
    BY <1>1 DEF Handle, AfterConnectionEstablished, AfterConnectionClosed, ReceiveRequest,
         HandleRequest, HandlePong, ReceiveClose, ReceiveLate, Receive, wires
  <2>3. open[s]
    <3>1. CASE AfterConnectionEstablished(t)
      <4>1. 1 \in 1 .. Len(toServer[t]) /\ toServer[t][1].type = "CONNECT"
        BY <1>0, <3>1 DEF AfterConnectionEstablished, Receive
      <4>2. t # s
        BY <2>1, <4>1 DEF HeardInv, Unheard
      <4> QED BY <1>0, <1>p, <2>1, <3>1, <4>2 DEF AfterConnectionEstablished
    <3>2. CASE ~AfterConnectionEstablished(t)
      BY <1>0, <1>1, <1>p, <2>1, <3>2
      DEF Handle, AfterConnectionClosed, ReceiveRequest, HandleRequest, CloseSession, HandlePong,
          ReceiveClose, ReceiveLate, handlerVars
    <3> QED BY <3>1, <3>2
  <2>4. Subscribed(s, app) /\ open'[s]
    BY <1>k, <1>p, <2>1, <2>2, <2>3
  <2> QED BY <1>1, <2>1, <2>3, <2>4, ServerSubscribed
<1>u. ASSUME UNCHANGED <<popup, shown, websocket, current, ready, application, request>>,
             websocket # 0 => toServer'[websocket] = toServer[websocket],
             link'[s] => link[s], open'[s] => open[s]
      PROVE  Subscribed(s, app)'
  <2>1. Subscribed(s, app) /\ toServer'[s] = toServer[s]
    BY <1>k, <1>u, <1>p, <1>q
  <2> QED BY <1>u, <2>1 DEF Subscribed
<1>2. CASE (Flush \/ HealthTimer) /\ UNCHANGED chartVars
  <2>1. websocket # 0 /\ s \in Sockets
    BY <1>0, <1>2, <1>p DEF chartVars
  <2> QED BY <1>0, <1>2, <1>u, <2>1 DEF Flush, HealthTimer, HealthCheck, Ping, chartVars
<1>3. CASE ~Server
  <2>0. UNCHANGED <<open, application, request>>
    BY <1>3, ChartKeepsHandler DEF handlerVars
  <2>i. ASSUME NEW new, InitReceive(new),
               new = <<Ask(app)>> \/ new = Reselect(app), app \in Names
        PROVE  Subscribed(s, app)'
    <3>1. CASE \E t \in Sockets : Open(t)
      BY <1>0, <1>p, <3>1 DEF Open
    <3>2. CASE /\ websocket # 0 /\ ~Connecting
               /\ toServer' = Through(new)
               /\ UNCHANGED <<link, websocket, ready>>
      BY <1>0, <1>p, <2>i, <3>2, ThroughSubscribes
    <3> QED BY <2>i, <3>1, <3>2 DEF InitReceive
  <2>1. ASSUME NEW a \in Applications, Initialize(a) PROVE Subscribed(s, app)'
    <3>1. app = a /\ app \in Names /\ popup' /\ shown'
      BY <1>0, <1>q, <2>1 DEF Initialize
    <3>2. InitReceive(Reselect(app)) \/ shown' = FALSE \/ ~shown
      BY <2>1, <3>1 DEF Initialize
    <3>3. shown
      BY <2>1, <3>1 DEF Initialize
    <3> QED BY <2>i, <3>1, <3>2, <3>3
  <2>2. CASE InitializeOther
    BY <2>2 DEF InitializeOther
  <2>3. CASE RetryConnection
    BY <1>0, <1>q, <2>3, <2>i DEF RetryConnection
  <2>4. CASE Hide \/ CloseChart
    BY <2>4 DEF Hide, CloseChart
  <2>5. CASE Show
    BY <1>0, <1>q, <2>5, <2>i DEF Show
  <2>6. CASE OnDelay \/ \E t \in Sockets : OnClose(t)
    BY <2>6 DEF OnDelay, OnClose
  <2>7. ASSUME NEW t \in Sockets, OnOpen(t) PROVE Subscribed(s, app)'
    <3>1. current = app /\ websocket = s /\ s \in Sockets /\ websocket # 0 /\ link[s] /\ app \in Names
      BY <1>0, <1>p, <1>q, <2>7 DEF OnOpen
    <3>2. CASE s = t
      <4>1. toServer'[s] = toServer[s] \o <<Ask(app)>>
        BY <1>0, <2>7, <3>1, <3>2 DEF OnOpen, Sent
      <4>2. toServer[s] \in Seq(Messages)
        BY <1>0, <3>1
      <4>3. Asks(toServer'[s]) # {} /\ Last(toServer'[s], app)
        BY <3>1, <4>1, <4>2, AskDecides
      <4> QED BY <4>3 DEF Subscribed
    <3>3. CASE s # t
      <4>1. ready[s] = "open"
        BY <1>0, <1>p, <2>7, <3>1, <3>3 DEF OnOpen
      <4>2. toServer' = Through(<<Ask(app)>>)
        BY <2>7, <3>1, <3>3 DEF OnOpen
      <4> QED BY <3>1, <4>1, <4>2, ThroughSubscribes
    <3> QED BY <3>2, <3>3
  <2>8. ASSUME NEW t \in Sockets, OnMessage(t) PROVE Subscribed(s, app)'
    <3>1. UNCHANGED <<popup, shown, websocket, current, ready, link>>
      BY <2>8 DEF OnMessage
    <3>2. CASE UNCHANGED toServer
      BY <1>u, <2>0, <3>1, <3>2
    <3>3. CASE toServer' = Through(<<Msg("PONG")>>)
      BY <1>k, <1>p, <1>q, <2>0, <3>1, <3>3, PongSubscribed
    <3> QED BY <2>8, <3>2, <3>3 DEF OnMessage
  <2>9. ASSUME NEW t \in Sockets, DropMessage(t) PROVE Subscribed(s, app)'
    BY <1>u, <2>0, <2>9 DEF DropMessage, chartVars
  <2>10. ASSUME NEW t \in Sockets, Cut(t) PROVE Subscribed(s, app)'
    <3>1. UNCHANGED <<popup, shown, websocket, current, ready>>
      BY <2>10 DEF Cut, chartVars
    <3>2. t # s /\ toServer'[s] = toServer[s] /\ link'[s] = link[s]
      BY <1>0, <1>p, <2>10, <3>1 DEF Cut
    <3> QED BY <1>p, <1>u, <2>0, <3>1, <3>2
  <2>11. CASE UNCHANGED vars
    BY <1>u, <2>11 DEF vars, wires, handlerVars, chartVars
  <2> QED BY <1>3, <2>1, <2>2, <2>3, <2>4, <2>5, <2>6, <2>7, <2>8, <2>9, <2>10, <2>11
          DEF Next, User, UserActs, Callback
<1> QED BY <1>1, <1>2, <1>3 DEF Server

\* When all has arrived the server serves the chart with the application on the screen,
\* for any number of sockets, applications and messages on their way.
THEOREM ShownAlwaysSubscribed == Spec => []ShownIsSubscribed
<1>1. Init => HeardInv /\ RefInv /\ SubInv
  <2> SUFFICES ASSUME Init PROVE HeardInv /\ RefInv /\ SubInv
    OBVIOUS
  <2>1. RefInv /\ SubInv
    BY DEF Init, RefInv, SubInv
  <2>2. ASSUME NEW s \in Sockets PROVE ~open[s] /\ toBrowser[s] = <<>> /\ ready[s] # "open"
    BY DEF Init, HandlerInit
  <2> QED BY <2>1, <2>2 DEF HeardInv
<1>2. SubInv => ShownIsSubscribed
  <2>1. ASSUME NEW s, Settled(s), Subscribed(s, current) PROVE application[s] = current
    <3>1. Len(<<>>) = 0 /\ 1 .. 0 = {}
      OBVIOUS
    <3>2. Asks(toServer[s]) = {}
      BY <2>1, <3>1 DEF Settled, Asks
    <3> QED BY <2>1, <3>2 DEF Settled, Subscribed
  <2> QED BY <2>1 DEF SubInv, ShownIsSubscribed, Settled
<1>3. Spec => []FreshInv
  BY FreshAlways
<1> QED BY <1>1, <1>2, <1>3, ChartTypes, RefStep, HeardStep, SubStep, PTL DEF Spec
=============================================================================
