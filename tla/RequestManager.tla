---------------------------- MODULE RequestManager ----------------------------
(***************************************************************************)
(* Requests and their futures: RequestManager, DefaultFuture and           *)
(* ChannelWriteFailListenableFuture, with the threads that meet in them:   *)
(* the caller of request(), one per request; the channel's Netty worker,   *)
(* which receives responses, reports failed writes and closes the manager; *)
(* and the timer, which times requests out.  Any of them may complete a    *)
(* future, and the first one wins.  The client closes its manager and then *)
(* stops its timer when the channel is closed; the server only stops the   *)
(* timer, when the acceptor closes.                                        *)
(***************************************************************************)
EXTENDS Naturals

CONSTANT
    Requests        \* the requests; request ids are distinct, so they name the futures

ASSUME RequestsAssumption == Requests \cap {"worker", "timer", "nobody"} = {}

VARIABLES
    side,           \* whose manager it is, "client" or "server"; never changes
    pc,             \* the caller: "idle", then inside register "put", "handler",
                    \* "newTimeout", "setTimeout", then "write", "listen", "done";
                    \* "rejected" when the state refused it
    requestMap,     \* the ids in RequestManager.requestMap
    outcome,        \* DefaultFuture.ready with result or cause
    by,             \* the thread that completed the future and still has to notify
    released,       \* that thread has run cancelTimeout and notifyFailureHandle
    handler,        \* DefaultFuture.failureEventHandler is set
    timeoutField,   \* DefaultFuture.timeout is set
    listener,       \* DefaultFuture.listener is set
    told,           \* calls of FutureListener.onComplete
    tasks,          \* the futures in the timer's wheel
    timer,          \* "run" or "stopped"
    enabled,        \* the state allows requests
    chan,           \* the channel: "open" or "closed"
    sent,           \* the request packet: "no", "queued", "flushed", "answered", "failed"
    replies,        \* response packets not yet received
    wPc,            \* the worker: "open"; "close", "iterate", "stopTimer" inside
                    \* channelClosed; "done"
    must            \* what close() has still to visit of what it found in the map

futureVars == <<outcome, by, released, handler, timeoutField, listener, told>>
managerVars == <<requestMap, wPc, must, enabled>>
timerVars == <<tasks, timer>>
channelVars == <<chan, sent, replies>>
vars == <<side, pc, futureVars, managerVars, timerVars, channelVars>>

Threads == Requests \cup {"worker", "timer"}

TypeOK ==
    /\ side \in {"client", "server"}
    /\ pc \in [Requests -> {"idle", "put", "handler", "newTimeout", "setTimeout", "write",
                            "listen", "done", "rejected"}]
    /\ requestMap \in SUBSET Requests
    /\ outcome \in [Requests -> {"none", "result", "failure", "timeout"}]
    /\ by \in [Requests -> Threads \cup {"nobody"}]
    /\ released \in [Requests -> BOOLEAN]
    /\ handler \in [Requests -> BOOLEAN]
    /\ timeoutField \in [Requests -> BOOLEAN]
    /\ listener \in [Requests -> BOOLEAN]
    /\ told \in [Requests -> 0..1]
    /\ tasks \in SUBSET Requests
    /\ timer \in {"run", "stopped"}
    /\ enabled \in BOOLEAN
    /\ chan \in {"open", "closed"}
    /\ sent \in [Requests -> {"no", "queued", "flushed", "answered", "failed"}]
    /\ replies \in SUBSET Requests
    /\ wPc \in {"open", "close", "iterate", "stopTimer", "done"}
    /\ must \in SUBSET Requests

Init ==
    /\ side \in {"client", "server"}
    /\ pc = [r \in Requests |-> "idle"]
    /\ requestMap = {}
    /\ outcome = [r \in Requests |-> "none"]
    /\ by = [r \in Requests |-> "nobody"]
    /\ released = [r \in Requests |-> FALSE]
    /\ handler = [r \in Requests |-> FALSE]
    /\ timeoutField = [r \in Requests |-> FALSE]
    /\ listener = [r \in Requests |-> FALSE]
    /\ told = [r \in Requests |-> 0]
    /\ tasks = {}
    /\ timer = "run"
    /\ enabled = TRUE
    /\ chan = "open"
    /\ sent = [r \in Requests |-> "no"]
    /\ replies = {}
    /\ wPc = "open"
    /\ must = {}

-----------------------------------------------------------------------------
(* DefaultFuture: setResult, setFailure and fireTimeout share one shape.  A *)
(* synchronized block claims the future if it is not ready; the thread that *)
(* claimed it then notifies, outside the block.                             *)

Free(t) == \A r \in Requests : by[r] # t

\* Mutant of SetReady: the future does not ask whether it is ready.
SetReadyAlways(r, t, o) ==
    outcome' = [outcome EXCEPT ![r] = o] /\ by' = [by EXCEPT ![r] = t]

\* The synchronized block.  Losing the race changes nothing.
SetReady(r, t, o) ==
    IF outcome[r] = "none"
    THEN outcome' = [outcome EXCEPT ![r] = o] /\ by' = [by EXCEPT ![r] = t]
    ELSE UNCHANGED <<outcome, by>>

\* cancelTimeout (but for a timeout) and notifyFailureHandle (but for a result).
Release(r) ==
    /\ by[r] # "nobody"
    /\ ~released[r]
    /\ released' = [released EXCEPT ![r] = TRUE]
    /\ IF outcome[r] # "timeout" /\ timeoutField[r]
       THEN tasks' = tasks \ {r} /\ timeoutField' = [timeoutField EXCEPT ![r] = FALSE]
       ELSE UNCHANGED <<tasks, timeoutField>>
    /\ IF outcome[r] # "result" /\ handler[r]
       THEN requestMap' = requestMap \ {r} /\ handler' = [handler EXCEPT ![r] = FALSE]
       ELSE UNCHANGED <<requestMap, handler>>
    /\ UNCHANGED <<side, pc, outcome, by, listener, told, wPc, must, enabled, timer,
                   channelVars>>

NotifyListener(r) ==
    /\ by[r] # "nobody"
    /\ released[r]
    /\ by' = [by EXCEPT ![r] = "nobody"]
    /\ IF listener[r]
       THEN /\ told' = [told EXCEPT ![r] = told[r] + 1]
            /\ listener' = [listener EXCEPT ![r] = FALSE]
       ELSE UNCHANGED <<told, listener>>
    /\ UNCHANGED <<side, pc, outcome, released, handler, timeoutField, managerVars, timerVars,
                   channelVars>>

-----------------------------------------------------------------------------
(* The caller: request() and RequestManager.register.                      *)

Request(r) ==
    /\ pc[r] = "idle"
    /\ pc' = [pc EXCEPT ![r] = IF enabled THEN "put" ELSE "rejected"]
    /\ UNCHANGED <<side, futureVars, managerVars, timerVars, channelVars>>

Put(r) ==
    /\ pc[r] = "put"
    /\ pc' = [pc EXCEPT ![r] = "handler"]
    /\ requestMap' = requestMap \cup {r}
    /\ UNCHANGED <<side, futureVars, wPc, must, enabled, timerVars, channelVars>>

\* Mutant of SetFailureEventHandler: register forgets the handler.
SetFailureEventHandlerNot(r) ==
    /\ pc[r] = "handler"
    /\ pc' = [pc EXCEPT ![r] = "newTimeout"]
    /\ UNCHANGED <<side, futureVars, managerVars, timerVars, channelVars>>

SetFailureEventHandler(r) ==
    /\ pc[r] = "handler"
    /\ pc' = [pc EXCEPT ![r] = "newTimeout"]
    /\ handler' = [handler EXCEPT ![r] = TRUE]
    /\ UNCHANGED <<side, outcome, by, released, timeoutField, listener, told, managerVars,
                   timerVars, channelVars>>

\* A stopped timer throws, and the future fails on the spot.
NewTimeout(r) ==
    /\ pc[r] = "newTimeout"
    /\ IF timer = "run"
       THEN /\ tasks' = tasks \cup {r}
            /\ pc' = [pc EXCEPT ![r] = "setTimeout"]
            /\ UNCHANGED <<outcome, by>>
       ELSE /\ SetReady(r, r, "failure")
            /\ pc' = [pc EXCEPT ![r] = "write"]
            /\ UNCHANGED tasks
    /\ UNCHANGED <<side, released, handler, timeoutField, listener, told, managerVars, timer,
                   channelVars>>

SetTimeout(r) ==
    /\ pc[r] = "setTimeout"
    /\ pc' = [pc EXCEPT ![r] = "write"]
    /\ timeoutField' = [timeoutField EXCEPT ![r] = TRUE]
    /\ UNCHANGED <<side, outcome, by, released, handler, listener, told, managerVars, timerVars,
                   channelVars>>

\* Mutant of Write: nobody listens to the write.
WriteUnheard(r) ==
    /\ pc[r] = "write"
    /\ Free(r)
    /\ pc' = [pc EXCEPT ![r] = "listen"]
    /\ sent' = [sent EXCEPT ![r] = IF chan = "open" THEN "queued" ELSE "failed"]
    /\ UNCHANGED <<side, futureVars, managerVars, timerVars, chan, replies>>

\* write0 with the future as listener: a write on a closed channel fails at once, in the
\* caller's thread.
Write(r) ==
    /\ pc[r] = "write"
    /\ Free(r)
    /\ pc' = [pc EXCEPT ![r] = "listen"]
    /\ IF chan = "open"
       THEN sent' = [sent EXCEPT ![r] = "queued"] /\ UNCHANGED <<outcome, by>>
       ELSE sent' = [sent EXCEPT ![r] = "failed"] /\ SetReady(r, r, "failure")
    /\ UNCHANGED <<side, released, handler, timeoutField, listener, told, managerVars,
                   timerVars, chan, replies>>

\* Mutant of SetListener: the listener is stored without asking whether the future is ready.
SetListenerUnchecked(r) ==
    /\ pc[r] = "listen"
    /\ Free(r)
    /\ pc' = [pc EXCEPT ![r] = "done"]
    /\ listener' = [listener EXCEPT ![r] = TRUE]
    /\ UNCHANGED <<side, outcome, by, released, handler, timeoutField, told, managerVars,
                   timerVars, channelVars>>

\* Mutant of SetListener: the listener is stored and, if the future is ready, called.
SetListenerTwice(r) ==
    /\ pc[r] = "listen"
    /\ Free(r)
    /\ pc' = [pc EXCEPT ![r] = "done"]
    /\ listener' = [listener EXCEPT ![r] = TRUE]
    /\ told' = [told EXCEPT ![r] = IF outcome[r] = "none" THEN 0 ELSE told[r] + 1]
    /\ UNCHANGED <<side, outcome, by, released, handler, timeoutField, managerVars, timerVars,
                   channelVars>>

\* setListener, by whoever got the future: the listener is stored under the future's lock
\* while it is not ready, or called by the caller itself.
SetListener(r) ==
    /\ pc[r] = "listen"
    /\ Free(r)
    /\ pc' = [pc EXCEPT ![r] = "done"]
    /\ IF outcome[r] = "none"
       THEN listener' = [listener EXCEPT ![r] = TRUE] /\ UNCHANGED told
       ELSE told' = [told EXCEPT ![r] = told[r] + 1] /\ UNCHANGED listener
    /\ UNCHANGED <<side, outcome, by, released, handler, timeoutField, managerVars, timerVars,
                   channelVars>>

-----------------------------------------------------------------------------
(* The channel and the peer, outside the repository.                       *)

Flush(r) ==
    /\ sent[r] = "queued"
    /\ chan = "open"
    /\ sent' = [sent EXCEPT ![r] = "flushed"]
    /\ UNCHANGED <<side, pc, futureVars, managerVars, timerVars, chan, replies>>

Reply(r) ==
    /\ sent[r] = "flushed"
    /\ chan = "open"
    /\ sent' = [sent EXCEPT ![r] = "answered"]
    /\ replies' = replies \cup {r}
    /\ UNCHANGED <<side, pc, futureVars, managerVars, timerVars, chan>>

\* Responses that were not received by then are lost.
ChannelCloses ==
    /\ chan = "open"
    /\ chan' = "closed"
    /\ replies' = {}
    /\ UNCHANGED <<side, pc, futureVars, managerVars, timerVars, sent>>

-----------------------------------------------------------------------------
(* The worker.                                                             *)

\* messageReceived(ResponsePacket): remove, then setResult.  A timeout that comes between
\* the two might as well have come before them.
MessageReceived(r) ==
    /\ wPc = "open"
    /\ Free("worker")
    /\ r \in replies
    /\ replies' = replies \ {r}
    /\ requestMap' = requestMap \ {r}
    /\ IF r \in requestMap THEN SetReady(r, "worker", "result") ELSE UNCHANGED <<outcome, by>>
    /\ UNCHANGED <<side, pc, released, handler, timeoutField, listener, told, wPc, must,
                   enabled, timerVars, chan, sent>>

\* operationComplete of a write that was still queued when the channel closed.
WriteFails(r) ==
    /\ chan = "closed"
    /\ Free("worker")
    /\ sent[r] = "queued"
    /\ sent' = [sent EXCEPT ![r] = "failed"]
    /\ SetReady(r, "worker", "failure")
    /\ UNCHANGED <<side, pc, released, handler, timeoutField, listener, told, managerVars,
                   timerVars, chan, replies>>

\* channelClosed (client) or channelDisconnected (server), to the change of the state.
\* The server's manager is left as it is.
ChannelClosed ==
    /\ wPc = "open"
    /\ chan = "closed"
    /\ Free("worker")
    /\ enabled' = FALSE
    /\ wPc' = IF side = "client" THEN "close" ELSE "done"
    /\ UNCHANGED <<side, pc, futureVars, requestMap, must, timerVars, channelVars>>

\* close(): the iteration is weakly consistent.  It visits what was in the map when it
\* began, and may or may not visit what is put in the map meanwhile.
CloseBegin ==
    /\ wPc = "close"
    /\ wPc' = "iterate"
    /\ must' = requestMap
    /\ UNCHANGED <<side, pc, futureVars, requestMap, enabled, timerVars, channelVars>>

\* Mutant of CloseVisit: close() passes over the futures without failing them.
CloseVisitSilent(r) ==
    /\ wPc = "iterate"
    /\ Free("worker")
    /\ r \in must
    /\ must' = must \ {r}
    /\ UNCHANGED <<side, pc, futureVars, requestMap, wPc, enabled, timerVars, channelVars>>

CloseVisit(r) ==
    /\ wPc = "iterate"
    /\ Free("worker")
    /\ r \in must \/ (r \in requestMap /\ outcome[r] = "none")
    /\ must' = must \ {r}
    /\ SetReady(r, "worker", "failure")
    /\ UNCHANGED <<side, pc, released, handler, timeoutField, listener, told, requestMap, wPc,
                   enabled, timerVars, channelVars>>

CloseClear ==
    /\ wPc = "iterate"
    /\ Free("worker")
    /\ must = {}
    /\ requestMap' = {}
    /\ wPc' = "stopTimer"
    /\ UNCHANGED <<side, pc, futureVars, must, enabled, timerVars, channelVars>>

-----------------------------------------------------------------------------
(* The timer.                                                              *)

\* DefaultFuture.run: the task leaves the wheel and fires.
FireTimeout(r) ==
    /\ timer = "run"
    /\ Free("timer")
    /\ r \in tasks
    /\ tasks' = tasks \ {r}
    /\ SetReady(r, "timer", "timeout")
    /\ UNCHANGED <<side, pc, released, handler, timeoutField, listener, told, managerVars,
                   timer, channelVars>>

\* channelTimer.stop() at the end of the client's closeResources, requestManagerTimer.stop()
\* at the end of PinpointServerAcceptor.close: both wait for the timer's thread.
StopTimer ==
    /\ timer = "run"
    /\ wPc = IF side = "client" THEN "stopTimer" ELSE "done"
    /\ Free("worker")
    /\ Free("timer")
    /\ timer' = "stopped"
    /\ tasks' = {}
    /\ wPc' = "done"
    /\ UNCHANGED <<side, pc, futureVars, requestMap, must, enabled, channelVars>>

-----------------------------------------------------------------------------

\* What a thread does as soon as it is scheduled; a timeout elapses sooner or later.
Progress ==
    \/ \E r \in Requests :
        \/ Release(r) \/ NotifyListener(r)
        \/ Put(r) \/ SetFailureEventHandler(r) \/ NewTimeout(r) \/ SetTimeout(r)
        \/ Write(r) \/ SetListener(r)
        \/ MessageReceived(r) \/ WriteFails(r) \/ CloseVisit(r) \/ FireTimeout(r)
    \/ ChannelClosed \/ CloseBegin \/ CloseClear
    \/ side = "client" /\ StopTimer

\* What may happen or not: a request, the peer's answer, the end of the channel, and the
\* end of the acceptor.
Environment ==
    \/ \E r \in Requests : Request(r) \/ Flush(r) \/ Reply(r)
    \/ ChannelCloses
    \/ side = "server" /\ StopTimer

Next == Progress \/ Environment

Spec == Init /\ [][Next]_vars

\* Every step of Progress uses up a program counter, a packet, a task or a visit: none of
\* them can be put off for ever by the others.
FairSpec == Spec /\ WF_vars(Progress)

-----------------------------------------------------------------------------

\* What a caller is promised, whatever the threads do.
Promise == INSTANCE RequestPromise WITH
    asked <- {r \in Requests : pc[r] \notin {"idle", "rejected"}},
    answered <- {r \in Requests : sent[r] = "answered"}

KeepsPromise == Promise!PromiseSpec

\* A listener is called exactly once, though the future may become ready while it is set:
\* when the caller is through and nobody still notifies, it was called if and only if the
\* future is ready.
ListenerOnce ==
    \A r \in Requests :
        pc[r] = "done" /\ by[r] = "nobody" =>
            told[r] = (IF outcome[r] = "none" THEN 0 ELSE 1)

\* The map holds pending requests only: once the caller wrote its request and nobody
\* notifies, a future that is ready is not in the map, whoever completed it and when.  (A
\* close() that meets a future before it has its failureEventHandler clears the map after.)
NothingLeaks ==
    wPc # "iterate" =>
        \A r \in Requests :
            pc[r] \in {"listen", "done"} /\ by[r] = "nobody" /\ outcome[r] # "none" =>
                r \notin requestMap

NobodyForgotten ==
    \A r \in Requests : pc[r] = "done" /\ sent[r] # "queued" => outcome[r] # "none"

\* The client's timer that stopped has left no request behind that nobody will complete:
\* requests that were put in the map too late for close() and whose timeout was dropped
\* fail by their write.
StopLeavesNoRequest == side = "client" /\ timer = "stopped" => NobodyForgotten

\* The same of the server, where PinpointServerAcceptor.close says that it clears the
\* requests before it removes their timer.  It does not: no server closes its manager.
ServerClearsRequests == side = "server" /\ timer = "stopped" => NobodyForgotten

\* Every registered request is answered, fails or times out, and its listener hears of it,
\* unless the acceptor stops the server's timer first.
RequestCompletes ==
    \A r \in Requests :
        pc[r] = "put" ~> told[r] = 1 \/ (side = "server" /\ timer = "stopped")

=============================================================================
