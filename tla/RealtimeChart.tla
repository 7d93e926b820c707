--------------------------- MODULE RealtimeChart ---------------------------
(***************************************************************************)
(* The browser's realtime chart over the server's handler:                 *)
(* realtime-chart.controller.js and realtime-websocket.service.js.  The    *)
(* browser runs one event handler at a time.  The service has a reference  *)
(* to one web socket, a socket's callbacks work on whatever the reference  *)
(* is by then.                                                             *)
(*                                                                         *)
(* send() throws while a socket is connecting and does nothing once it is  *)
(* closing; an exception ends the event's handler where it stands.  The    *)
(* pin only makes the controller ignore a choice of the user; drawing, the *)
(* size of the popup and useRealTime (on) are left out.                    *)
(***************************************************************************)
EXTENDS ActiveThreadCountHandler

CONSTANT MaxSent   \* bound: the user waits while more messages are on their way to the server

ASSUME MaxSentAssumption == MaxSent \in Nat

VARIABLES
    ready,           \* readyState of the browser's sockets
    websocket,       \* the service's reference, 0 for null
    lastReceive,     \* lastReceiveTime is not null
    refInterval,     \* the interval of the timeout checker runs
    lostInterval,    \* an interval runs whose handle was overwritten
    shown,           \* bShowRealtimeChart
    popup,           \* the popup is on the screen
    bIsWas,
    current,         \* currentApplicationName
    warning          \* hasCriticalError and what the message says

chartVars == <<ready, websocket, lastReceive, refInterval, lostInterval, shown, popup,
               bIsWas, current, warning>>
vars == <<wires, handlerVars, chartVars>>

\* The type invariant.
TypeOK ==
    /\ HandlerTypeOK
    /\ ready \in [Sockets -> {"none", "connecting", "open", "closing", "closed"}]
    /\ websocket \in Sockets \cup {0}
    /\ lastReceive \in BOOLEAN /\ refInterval \in BOOLEAN /\ lostInterval \in BOOLEAN
    /\ shown \in BOOLEAN /\ popup \in BOOLEAN /\ bIsWas \in BOOLEAN
    /\ current \in Names
    /\ warning \in {"none", "waiting", "closed"}

Init ==
    /\ HandlerInit
    /\ ready = [s \in Sockets |-> "none"]
    /\ websocket = 0
    /\ lastReceive = FALSE
    /\ refInterval = FALSE /\ lostInterval = FALSE
    /\ shown = TRUE /\ popup = FALSE /\ bIsWas = FALSE
    /\ current = ""
    /\ warning = "none"

-----------------------------------------------------------------------------
(* RealtimeWebsocketService.                                               *)

Connecting == websocket # 0 /\ ready[websocket] = "connecting"

\* send: nothing without a socket, nothing through a closed one or a dead link.
Through(messages) ==
    IF websocket # 0 /\ ready[websocket] = "open" /\ link[websocket]
    THEN [toServer EXCEPT ![websocket] = @ \o messages] ELSE toServer

Ask(app) == [type |-> "REQUEST", app |-> app]

NewSocket(s) == /\ ready[s] = "none"
                /\ \A other \in Sockets : other < s => ready[other] # "none"

\* open: the reference is the new socket.
Open(s) ==
    /\ NewSocket(s)
    /\ websocket' = s
    /\ ready' = [ready EXCEPT ![s] = "connecting"]
    /\ link' = [link EXCEPT ![s] = TRUE]
    /\ toServer' = [toServer EXCEPT ![s] = <<Msg("CONNECT")>>]

StartTimeoutChecker == /\ refInterval' = TRUE
                       /\ lostInterval' = (lostInterval \/ refInterval)
StopTimeoutChecker  == /\ lastReceive' = FALSE
                       /\ refInterval' = FALSE
                       /\ UNCHANGED lostInterval

-----------------------------------------------------------------------------
(* RealtimeChartCtrl: what the user does.                                  *)

\* stopReceive, which sets bShowRealtimeChart before it sends.
StopReceive == StopTimeoutChecker

\* initReceive: a new socket, or requests through the one there is.
InitReceive(requests) ==
    \/ /\ websocket = 0
       /\ \E s \in Sockets : Open(s)
    \/ /\ websocket # 0 /\ ~Connecting
       /\ toServer' = Through(requests)
       /\ UNCHANGED <<link, websocket, ready>>

\* Mutant: the request for nothing goes last.
ReselectSwapped(app) == <<Ask(app), Ask("")>>
Reselect(app) == <<Ask(""), Ask(app)>>

\* 'realtimeChartController.initialize': the user has selected a node.
Initialize(app) ==
    /\ bIsWas' = TRUE
    /\ current' = app
    /\ \/ /\ shown /\ ~Connecting
          /\ popup' = TRUE
          /\ StopReceive
          /\ warning' = "waiting"
          /\ InitReceive(Reselect(app))
          /\ UNCHANGED shown
       \/ /\ shown /\ Connecting
          /\ popup' = TRUE /\ shown' = FALSE
          /\ UNCHANGED <<wires, ready, websocket, lastReceive, refInterval, lostInterval, warning>>
       \/ /\ ~shown
          /\ UNCHANGED <<wires, ready, websocket, lastReceive, refInterval, lostInterval, shown,
                         popup, warning>>
    /\ UNCHANGED <<toBrowser, handlerVars>>

\* The node has no active threads to show.
InitializeOther ==
    /\ bIsWas' = FALSE
    /\ \E app \in Applications : current' = app
    /\ popup' = (popup /\ ~shown)
    /\ UNCHANGED <<wires, handlerVars, ready, websocket, lastReceive, refInterval, lostInterval,
                   shown, warning>>

\* The button under "Closed connection".
RetryConnection ==
    /\ popup /\ warning = "closed" /\ ~Connecting
    /\ warning' = "waiting"
    /\ shown' = TRUE
    /\ InitReceive(<<Ask(current)>>)
    /\ UNCHANGED <<toBrowser, handlerVars, lastReceive, refInterval, lostInterval, popup, bIsWas,
                   current>>

Hide ==
    /\ bIsWas /\ shown
    /\ popup' = FALSE /\ shown' = FALSE
    /\ IF Connecting
       THEN UNCHANGED <<toServer, lastReceive, refInterval, lostInterval>>
       ELSE StopReceive /\ toServer' = Through(<<Ask("")>>)
    /\ UNCHANGED <<link, toBrowser, handlerVars, ready, websocket, bIsWas, current, warning>>

Show ==
    /\ bIsWas /\ ~shown
    /\ popup' = TRUE
    /\ warning' = "waiting"
    /\ \/ shown' = TRUE /\ InitReceive(<<Ask(current)>>)
       \/ Connecting /\ UNCHANGED <<shown, link, toServer, ready, websocket>>
    /\ UNCHANGED <<toBrowser, handlerVars, lastReceive, refInterval, lostInterval, bIsWas, current>>

\* 'realtimeChartController.close': another application is loaded.
CloseChart ==
    /\ popup' = FALSE
    /\ IF Connecting
       THEN /\ shown' = FALSE
            /\ UNCHANGED <<toServer, lastReceive, refInterval, lostInterval, current, warning>>
       ELSE /\ StopReceive
            /\ toServer' = Through(<<Ask("")>>)
            /\ current' = ""
            /\ warning' = "none"
            /\ UNCHANGED shown
    /\ UNCHANGED <<link, toBrowser, handlerVars, ready, websocket, bIsWas>>

-----------------------------------------------------------------------------
(* The sockets' callbacks and the timeout checker.                         *)

Arrives(s, type) ==
    /\ toBrowser[s] # <<>> /\ Head(toBrowser[s]).type = type
    /\ toBrowser' = [toBrowser EXCEPT ![s] = Tail(@)]

\* onopen: the request goes through the reference.
OnOpen(s) ==
    /\ ready[s] = "connecting" /\ Arrives(s, "ACCEPT")
    /\ ready' = [ready EXCEPT ![s] = "open"]
    /\ lastReceive' = TRUE
    /\ StartTimeoutChecker
    /\ toServer' = IF websocket = s THEN Sent(toServer, s, Ask(current))
                                    ELSE Through(<<Ask(current)>>)
    /\ UNCHANGED <<link, handlerVars, websocket, shown, popup, bIsWas, current, warning>>

\* onmessage: a response is drawn when it is about the current application.
OnMessage(s) ==
    /\ ready[s] = "open"
    /\ lastReceive' = TRUE
    /\ warning' = "none"
    /\ \/ Arrives(s, "PING") /\ toServer' = Through(<<Msg("PONG")>>)
       \/ Arrives(s, "RESPONSE") /\ UNCHANGED toServer
    /\ UNCHANGED <<link, handlerVars, ready, websocket, refInterval, lostInterval, shown, popup,
                   bIsWas, current>>

\* A closing socket delivers nothing more.
DropMessage(s) ==
    /\ ready[s] = "closing"
    /\ Arrives(s, "PING") \/ Arrives(s, "RESPONSE") \/ Arrives(s, "ACCEPT")
    /\ UNCHANGED <<link, toServer, handlerVars, chartVars>>

\* Mutant: the end of a socket the service has forgotten is not told.
DisconnectedReference(s) == warning' = IF websocket = s THEN "closed" ELSE warning
DisconnectedConnection(s) == warning' = "closed"

\* onclose, for the server's close, the end of the socket's own close, or a network
\* failure that the browser notices.
OnClose(s) ==
    /\ ready[s] \in {"connecting", "open", "closing"}
    /\ \/ toBrowser[s] # <<>> /\ Head(toBrowser[s]).type = "CLOSE"
       \/ ready[s] = "closing" \/ ~link[s]
    /\ toBrowser' = [toBrowser EXCEPT ![s] = <<>>]
    /\ link' = [link EXCEPT ![s] = FALSE]
    /\ ready' = [ready EXCEPT ![s] = "closed"]
    /\ websocket' = 0
    /\ StopTimeoutChecker
    /\ DisconnectedConnection(s)
    /\ UNCHANGED <<toServer, handlerVars, shown, popup, bIsWas, current>>

\* ondelay, ten seconds after the last message: at any time.  It closes the socket and
\* forgets it.
OnDelay ==
    /\ (refInterval \/ lostInterval) /\ lastReceive /\ websocket # 0
    /\ ready' = [ready EXCEPT ![websocket] = "closing"]
    /\ toServer' = Sent(toServer, websocket, Msg("CLOSE"))
    /\ websocket' = 0
    /\ UNCHANGED <<link, toBrowser, handlerVars, lastReceive, refInterval, lostInterval, shown,
                   popup, bIsWas, current, warning>>

\* The link of a socket fails without a word.
Cut(s) ==
    /\ link[s]
    /\ link' = [link EXCEPT ![s] = FALSE]
    /\ toServer' = [toServer EXCEPT ![s] = <<>>]
    /\ toBrowser' = [toBrowser EXCEPT ![s] = <<>>]
    /\ UNCHANGED <<handlerVars, chartVars>>

-----------------------------------------------------------------------------
\* Bound: the user waits until the server has taken what was sent.
Patient == \A s \in Sockets : Len(toServer[s]) <= MaxSent /\ request[s] = "none"

UserActs == \/ \E app \in Applications : Initialize(app)
        \/ InitializeOther \/ RetryConnection \/ Hide \/ Show \/ CloseChart

User == Patient /\ UserActs

Callback(s) == OnOpen(s) \/ OnMessage(s) \/ DropMessage(s) \/ OnClose(s)

Server == (Flush \/ HealthTimer \/ \E s \in Sockets : Handle(s)) /\ UNCHANGED chartVars

Next == \/ User \/ Server \/ OnDelay
        \/ \E s \in Sockets : Callback(s) \/ Cut(s)

Spec == Init /\ [][Next]_vars

-----------------------------------------------------------------------------
(* Properties.                                                             *)

\* While the handler has a session each of its timers has a task: sessions that come
\* and go between a task's look at onTimerTask and the next connection never leave a
\* browser without flushes and without a health check.
TimersRun == sessions # {} => flushes > 0 /\ (checks > 0 \/ pinging)

\* An open session that has been bound to an application is among the members of an
\* aggregator the flush goes through, whoever joins, leaves or is closed meanwhile and
\* whatever session takes its aggregator along.
BoundIsServed ==
    \A s \in sessions : open[s] /\ application[s] # "" => Served(s)

\* Nothing is on its way between the browser and the server.
Settled(s) == toServer[s] = <<>> /\ toBrowser[s] = <<>> /\ request[s] = "none" /\ link[s]

\* When all has arrived, the server serves the socket the chart uses with the very
\* application that is on the screen, after any sequence of choices, hiding, showing
\* and lost sockets: the requests that stop and start a chart cannot end the wrong way.
ShownIsSubscribed ==
    popup /\ shown /\ websocket # 0 =>
        (ready[websocket] = "open" /\ Settled(websocket) /\ open[websocket]
            => application[websocket] = current)

\* A chart on the screen without any socket carries the "Closed connection" or the
\* "Waiting Connection" message: the user is never left with a picture that stands
\* still, in whatever order the sockets' callbacks and the user's choices come.
ToldWhenClosed ==
    popup /\ shown /\ (\A s \in Sockets : ready[s] \in {"none", "closed"}) => warning # "none"
=============================================================================
