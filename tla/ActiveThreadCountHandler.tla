---------------------- MODULE ActiveThreadCountHandler ----------------------
(***************************************************************************)
(* The web socket of the web server through which browsers follow the      *)
(* active threads of an application: ActiveThreadCountHandler and the      *)
(* sessions of its ActiveThreadCountResponseAggregators.  An aggregator    *)
(* serves one application to the sessions that asked for it; two timers    *)
(* flush the aggregators and check the sessions' health.  The handler's    *)
(* lock makes each of its three entries one step; a message is taken off   *)
(* the wire before its thread gets the lock.                               *)
(*                                                                         *)
(* The aggregator's workers are in ActiveThreadCountWorker; what the       *)
(* handler's stop does at the end of the process is left out.              *)
(***************************************************************************)
EXTENDS Naturals, Sequences

CONSTANTS Sockets,       \* the web sockets, in the order the browser makes them
          Applications   \* the applications one can ask for

ASSUME SocketsAssumption == Sockets \subseteq Nat \ {0}
ASSUME ApplicationsAssumption == "" \notin Applications /\ "none" \notin Applications

Names == Applications \cup {""}

VARIABLES
    link,         \* whether what is written to a socket still arrives
    toServer, toBrowser,
    open,         \* WebSocketSession.isOpen
    sessions,     \* sessionRepository
    application,  \* the session's applicationName attribute
    request,      \* the application a thread of the session is about to bind
    aggregators,  \* the keys of aggregatorRepository
    members,      \* webSocketSessions of each aggregator
    unanswered,   \* the session's healthCheck.wait attribute
    onTimerTask,
    flushes, checks,   \* timeouts the flush and the health check timer hold
    pinging       \* the health check timer's thread is between its two loops

wires == <<link, toServer, toBrowser>>
handlerVars == <<open, sessions, application, request, aggregators, members, unanswered,
                 onTimerTask, flushes, checks, pinging>>

Messages == [type : {"CONNECT", "ACCEPT", "REQUEST", "PONG", "PING", "RESPONSE", "CLOSE"},
             app : Names]
Msg(type) == [type |-> type, app |-> ""]

HandlerTypeOK ==
    /\ link \in [Sockets -> BOOLEAN]
    /\ toServer \in [Sockets -> Seq(Messages)]
    /\ toBrowser \in [Sockets -> Seq(Messages)]
    /\ open \in [Sockets -> BOOLEAN]
    /\ sessions \subseteq Sockets
    /\ application \in [Sockets -> Names]
    /\ request \in [Sockets -> Names \cup {"none"}]
    /\ aggregators \subseteq Applications
    /\ members \in [Applications -> SUBSET Sockets]
    /\ unanswered \in [Sockets -> BOOLEAN]
    /\ onTimerTask \in BOOLEAN
    /\ flushes \in Nat /\ checks \in Nat
    /\ pinging \in BOOLEAN

HandlerInit ==
    /\ link = [s \in Sockets |-> FALSE]
    /\ toServer = [s \in Sockets |-> <<>>]
    /\ toBrowser = [s \in Sockets |-> <<>>]
    /\ open = [s \in Sockets |-> FALSE]
    /\ sessions = {}
    /\ application = [s \in Sockets |-> ""]
    /\ request = [s \in Sockets |-> "none"]
    /\ aggregators = {}
    /\ members = [a \in Applications |-> {}]
    /\ unanswered = [s \in Sockets |-> FALSE]
    /\ onTimerTask = FALSE
    /\ flushes = 0 /\ checks = 0
    /\ pinging = FALSE

\* What is written to a socket whose link is down is lost.
Sent(wire, s, m) == IF link[s] THEN [wire EXCEPT ![s] = Append(@, m)] ELSE wire

Receive(s, type) ==
    /\ toServer[s] # <<>> /\ Head(toServer[s]).type = type
    /\ request[s] = "none"
    /\ toServer' = [toServer EXCEPT ![s] = Tail(@)]
    /\ UNCHANGED link

\* session.close(): the container reports the closed session in a later step.
CloseSession(s) ==
    /\ open' = [open EXCEPT ![s] = FALSE]
    /\ toBrowser' = IF open[s] THEN Sent(toBrowser, s, Msg("CLOSE")) ELSE toBrowser

-----------------------------------------------------------------------------
AfterConnectionEstablished(s) ==
    /\ Receive(s, "CONNECT")
    /\ open' = [open EXCEPT ![s] = TRUE]
    /\ toBrowser' = Sent(toBrowser, s, Msg("ACCEPT"))
    /\ sessions' = sessions \cup {s}
    /\ onTimerTask' = TRUE
    /\ flushes' = IF onTimerTask THEN flushes ELSE flushes + 1
    /\ checks' = IF onTimerTask THEN checks ELSE checks + 1
    /\ UNCHANGED <<application, request, aggregators, members, unanswered, pinging>>

\* unbindingResponseAggregator: what is left when the session has left its aggregator.
\* The last one out takes the aggregator along.
MembersWithout(s) ==
    IF application[s] \in aggregators
    THEN [members EXCEPT ![application[s]] = @ \ {s}] ELSE members

\* Mutant: whoever leaves takes the aggregator along.
AggregatorsWithoutAny(s) ==
    IF application[s] \in aggregators THEN aggregators \ {application[s]} ELSE aggregators
AggregatorsWithout(s) ==
    IF application[s] \in aggregators /\ members[application[s]] = {s}
    THEN aggregators \ {application[s]} ELSE aggregators

\* Mutant: the timers are turned off by any session that leaves.
KeepTimersNever(rest) == FALSE
KeepTimers(rest) == rest # {}

\* A session that is out of the repository is never checked again: its healthCheck.wait
\* attribute goes with it.
AfterConnectionClosed(s) ==
    /\ s \in sessions /\ ~open[s]
    /\ members' = MembersWithout(s)
    /\ aggregators' = AggregatorsWithout(s)
    /\ sessions' = sessions \ {s}
    /\ unanswered' = [unanswered EXCEPT ![s] = FALSE]
    /\ onTimerTask' = (onTimerTask /\ KeepTimers(sessions'))
    /\ UNCHANGED <<wires, open, application, request, flushes, checks, pinging>>

ReceiveRequest(s) ==
    /\ open[s] /\ Receive(s, "REQUEST")
    /\ request' = [request EXCEPT ![s] = Head(toServer[s]).app]
    /\ UNCHANGED <<toBrowser, open, sessions, application, aggregators, members, unanswered,
                   onTimerTask, flushes, checks, pinging>>

\* Mutant: the empty name gets an aggregator.
AggregatorOfAny(app) == {app}
AggregatorOf(app) == {app} \ {""}

\* handleRequestMessage0 under the lock.  The session leaves the application it had
\* and joins the one it asks for, whose agents are read from the database in between:
\* when that fails the container closes the session.
HandleRequest(s) ==
    LET app == request[s] IN
    /\ app # "none"
    /\ request' = [request EXCEPT ![s] = "none"]
    /\ \/ /\ app = application[s]
          /\ UNCHANGED <<application, aggregators, members, open, toBrowser>>
       \/ /\ app # application[s]
          /\ application' = [application EXCEPT ![s] = app]
          /\ aggregators' = AggregatorsWithout(s) \cup AggregatorOf(app)
          /\ \/ /\ members' = [a \in Applications |->
                                 IF a = app THEN members[a] \cup {s} ELSE MembersWithout(s)[a]]
                /\ UNCHANGED <<open, toBrowser>>
             \/ /\ app # ""
                /\ members' = MembersWithout(s)
                /\ CloseSession(s)
    /\ UNCHANGED <<link, toServer, sessions, unanswered, onTimerTask, flushes, checks,
                   pinging>>

HandlePong(s) ==
    /\ open[s] /\ Receive(s, "PONG")
    /\ unanswered' = [unanswered EXCEPT ![s] = FALSE]
    /\ UNCHANGED <<toBrowser, open, sessions, application, request, aggregators, members,
                   onTimerTask, flushes, checks, pinging>>

\* The browser closes its socket, or what it has sent comes after the session's end.
ReceiveClose(s) ==
    /\ Receive(s, "CLOSE")
    /\ open' = [open EXCEPT ![s] = FALSE]
    /\ UNCHANGED <<toBrowser, sessions, application, request, aggregators, members, unanswered,
                   onTimerTask, flushes, checks, pinging>>

ReceiveLate(s) ==
    /\ ~open[s] /\ (Receive(s, "REQUEST") \/ Receive(s, "PONG"))
    /\ UNCHANGED <<toBrowser, handlerVars>>

-----------------------------------------------------------------------------
(* The flush timer and the health check timer, a thread each.              *)

Served(s) == application[s] \in aggregators /\ s \in members[application[s]]

\* Bound: no second flush or ping before the browser has seen the first.
Unseen(type) == \E s \in Sockets : \E i \in 1 .. Len(toBrowser[s]) : toBrowser[s][i].type = type

\* ActiveThreadTimerTask: the flush, then the next timeout while the handler has sessions.
Flush ==
    /\ flushes > 0 /\ ~Unseen("RESPONSE")
    /\ flushes' = IF onTimerTask THEN flushes ELSE flushes - 1
    /\ toBrowser' = [s \in Sockets |->
          IF open[s] /\ link[s] /\ Served(s)
          THEN Append(toBrowser[s], [type |-> "RESPONSE", app |-> application[s]])
          ELSE toBrowser[s]]
    /\ UNCHANGED <<link, toServer, open, sessions, application, request, aggregators, members,
                   unanswered, onTimerTask, checks, pinging>>

\* HealthCheckTimerTask closes the sessions that have not answered the ping before.
HealthCheck ==
    LET silent == {s \in sessions : open[s] /\ unanswered[s]} IN
    /\ checks > 0 /\ ~pinging /\ ~Unseen("PING")
    /\ checks' = checks - 1
    /\ pinging' = TRUE
    /\ open' = [s \in Sockets |-> open[s] /\ s \notin silent]
    /\ toBrowser' = [s \in Sockets |->
          IF s \in silent /\ link[s] THEN Append(toBrowser[s], Msg("CLOSE")) ELSE toBrowser[s]]
    /\ UNCHANGED <<link, toServer, sessions, application, request, aggregators, members,
                   unanswered, onTimerTask, flushes>>

\* It goes on to ping the open ones.  A write that fails leaves the loop: the sessions
\* behind it get no ping this time.
Ping ==
    LET alive == {s \in sessions : open[s]} IN
    /\ pinging
    /\ pinging' = FALSE
    /\ checks' = IF onTimerTask THEN checks + 1 ELSE checks
    /\ \E pinged \in SUBSET alive :
          /\ pinged = alive \/ \E s \in pinged : ~link[s]
          /\ unanswered' = [s \in Sockets |-> unanswered[s] \/ s \in pinged]
          /\ toBrowser' = [s \in Sockets |->
                IF s \in pinged /\ link[s] THEN Append(toBrowser[s], Msg("PING")) ELSE toBrowser[s]]
    /\ UNCHANGED <<link, toServer, open, sessions, application, request, aggregators, members,
                   onTimerTask, flushes>>

-----------------------------------------------------------------------------
Handle(s) == \/ AfterConnectionEstablished(s) \/ AfterConnectionClosed(s)
             \/ ReceiveRequest(s) \/ HandleRequest(s) \/ HandlePong(s)
             \/ ReceiveClose(s) \/ ReceiveLate(s)

HealthTimer == HealthCheck \/ Ping
=============================================================================
