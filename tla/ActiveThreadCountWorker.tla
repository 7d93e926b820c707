---------------------- MODULE ActiveThreadCountWorker ----------------------
(***************************************************************************)
(* The web's worker that keeps one agent's active-thread stream open, and  *)
(* the timer that makes it try again: ActiveThreadCountWorker and          *)
(* WorkerActiveManager over the streams of StreamChannelManager.  The      *)
(* worker's own lock is held through openStream, so there is one caller at *)
(* a time; the listeners of the stream run in the thread that changes its  *)
(* state and take no lock of the worker.                                   *)
(*                                                                         *)
(* The collector that relays a stream has a stream of the same kind on     *)
(* either side and is left out; the agent's entry in the database is       *)
(* always found.                                                           *)
(***************************************************************************)
EXTENDS StreamChannelManager

VARIABLES started, active, stopped,  \* the worker's volatile fields
          kept,         \* the worker is in activeThreadCountWorkerRepository
          dropped,      \* the streams of workers that never got there
          stream,       \* streamChannel, 0 when there is none
          reactive,     \* the agent is in reactiveWorkerRepository
          timerOn,      \* onReconnectTimerTask
          tasks,        \* ReactiveTimerTasks the timer holds
          due,          \* a task has taken the agent and not yet called the worker
          managerStopped

workerVars == <<started, active, stopped, kept, dropped, stream, reactive, timerOn, tasks, due,
                managerStopped>>
vars == <<streamVars, workerVars>>

\* The type invariant.
TypeOK ==
    /\ StreamTypeOK
    /\ started \in BOOLEAN /\ active \in BOOLEAN /\ stopped \in BOOLEAN /\ kept \in BOOLEAN
    /\ reactive \in BOOLEAN /\ timerOn \in BOOLEAN /\ due \in BOOLEAN
    /\ managerStopped \in BOOLEAN
    /\ dropped \subseteq Streams
    /\ stream \in Streams \cup {0}
    /\ tasks \in Nat

Init ==
    /\ StreamInit
    /\ started = FALSE /\ active = FALSE /\ stopped = FALSE
    /\ kept = FALSE /\ dropped = {} /\ stream = 0
    /\ reactive = FALSE /\ timerOn = FALSE /\ tasks = 0 /\ due = FALSE
    /\ managerStopped = FALSE

IsTurnOn == started /\ ~stopped

\* addReactiveWorker: a task is started unless one is on its way.
AddReactiveWorker ==
    IF managerStopped
    THEN UNCHANGED <<reactive, timerOn, tasks>>
    ELSE /\ reactive' = TRUE
         /\ timerOn' = TRUE
         /\ tasks' = IF timerOn THEN tasks ELSE tasks + 1

-----------------------------------------------------------------------------
\* active0 up to openStream: without a connection there is nothing to open and
\* the agent is put down for the timer.
Active0 ==
    \/ /\ ~connected
       /\ AddReactiveWorker
       /\ active' = FALSE
       /\ kept' = TRUE
       /\ UNCHANGED streamVars
    \/ /\ connected
       /\ \E id \in Streams : OpenStart(id)
       /\ UNCHANGED <<active, kept, reactive, timerOn, tasks>>

Start ==
    /\ At("caller") = "idle" /\ ~started /\ ~stopped
    /\ started' = TRUE
    /\ Active0
    /\ UNCHANGED <<stopped, dropped, stream, due, managerStopped>>

\* Mutants: the worker's reactive forgets isTurnOn, or that there is a stream.
MayReactivateStopped == ~active
MayReactivateTwice == IsTurnOn
MayReactivate == IsTurnOn /\ ~active

\* Another session of the application, or the check of its agents, calls the worker.
Reactive ==
    /\ At("caller") = "idle" /\ started /\ MayReactivate
    /\ Active0
    /\ UNCHANGED <<started, stopped, dropped, stream, due, managerStopped>>

\* ReactiveTimerTask takes the agents that wait and lets the next one start a task.
\* Mutant: onReconnectTimerTask stays set.
RunTaskOnce ==
    /\ tasks > 0 /\ ~due
    /\ tasks' = tasks - 1
    /\ due' = reactive
    /\ reactive' = FALSE
    /\ UNCHANGED <<streamVars, timerOn, started, active, stopped, kept, dropped, stream,
                   managerStopped>>
RunTask ==
    /\ tasks > 0 /\ ~due
    /\ tasks' = tasks - 1
    /\ due' = reactive
    /\ reactive' = FALSE
    /\ timerOn' = FALSE
    /\ UNCHANGED <<streamVars, started, active, stopped, kept, dropped, stream, managerStopped>>

TaskCallsWorker ==
    /\ due /\ At("caller") = "idle"
    /\ due' = FALSE
    /\ \/ started /\ MayReactivate /\ Active0 /\ UNCHANGED started
       \/ (stopped \/ active) /\ UNCHANGED <<streamVars, started, active, kept, reactive, timerOn, tasks>>
       \/ ~started /\ ~stopped /\ started' = TRUE /\ Active0
    /\ UNCHANGED <<stopped, dropped, stream, managerStopped>>

\* What the caller does with the outcome of openStream.  The stream is stored
\* first, active is assigned when active0 has returned.
Opened ==
    /\ At("caller") = "opened"
    /\ stream' = On("caller")
    /\ Goto("caller", "activate", On("caller"))
    /\ UNCHANGED <<state, known, wire, connected, todo, swept,
                   started, active, stopped, kept, dropped, reactive, timerOn, tasks, due,
                   managerStopped>>

Activate ==
    /\ At("caller") \in {"activate", "failed"}
    /\ active' = (At("caller") = "activate")
    /\ kept' = TRUE
    /\ Goto("caller", "idle", On("caller"))
    /\ UNCHANGED <<state, known, wire, connected, todo, swept,
                   started, stopped, dropped, stream, reactive, timerOn, tasks, due, managerStopped>>

\* The exception leaves start as well: its worker is not put in the repository, and the
\* next call makes another one.
Thrown ==
    /\ At("caller") = "thrown"
    /\ started' = kept
    /\ dropped' = IF kept THEN dropped ELSE dropped \cup {On("caller")}
    /\ Goto("caller", "idle", On("caller"))
    /\ UNCHANGED <<state, known, wire, connected, todo, swept,
                   active, stopped, kept, stream, reactive, timerOn, tasks, due, managerStopped>>

\* Mutant: the stream is closed without a look at whether there is one.
CloseAnyStream == CloseStream("caller", stream)
CloseHeldStream == IF stream # 0 THEN CloseStream("caller", stream) ELSE UNCHANGED streamVars

\* The last session leaves the application: stop closes the stream.
Stop ==
    /\ At("caller") = "idle" /\ IsTurnOn
    /\ stopped' = TRUE
    /\ CloseHeldStream
    /\ UNCHANGED <<started, active, kept, dropped, stream, reactive, timerOn, tasks, due,
                   managerStopped>>

\* WorkerActiveManager.close, after the workers have stopped.
ManagerClose ==
    /\ stopped /\ ~managerStopped /\ At("caller") = "idle"
    /\ managerStopped' = TRUE
    /\ reactive' = FALSE
    /\ timerOn' = FALSE
    /\ UNCHANGED <<streamVars, started, active, stopped, kept, dropped, stream, tasks, due>>

\* The worker's StateChangeListener, for CLOSED and ILLEGAL_STATE.
\* A worker that was never kept is never stopped.
EventPerformed(t) ==
    /\ At(t) = "notify"
    /\ active' = (active /\ ~(IsTurnOn /\ On(t) \notin dropped))
    /\ IF IsTurnOn \/ On(t) \in dropped
       THEN thread' = [thread EXCEPT ![t].at = "addReactive"]
       ELSE Goto(t, thread[t].then, On(t))
    /\ UNCHANGED <<state, known, wire, connected, todo, swept, started, stopped, kept, dropped,
                   stream, reactive, timerOn, tasks, due, managerStopped>>

AddReactive(t) ==
    /\ At(t) = "addReactive"
    /\ AddReactiveWorker
    /\ Goto(t, thread[t].then, On(t))
    /\ UNCHANGED <<state, known, wire, connected, todo, swept,
                   started, active, stopped, kept, dropped, stream, due, managerStopped>>

-----------------------------------------------------------------------------
WorkerStep ==
    \/ RunTask \/ TaskCallsWorker \/ Opened \/ Activate \/ Thrown \/ ManagerClose
    \/ \E t \in Threads : EventPerformed(t) \/ AddReactive(t)

StreamStep ==
    /\ \/ OpenerStep \/ AcceptorStep \/ Disconnect
       \/ \E t \in Threads : ThreadStep(t)
       \/ \E id \in Streams : SendData(id) \/ AppClose(id)
    /\ UNCHANGED workerVars

Next == Start \/ Reactive \/ Stop \/ WorkerStep \/ StreamStep

Spec == Init /\ [][Next]_vars

-----------------------------------------------------------------------------
(* Properties.                                                             *)

\* No thread is in the middle of something.
Calm  == \A t \in Threads : At(t) = "idle"
Quiet == Calm /\ \A e \in Ends : wire[e] = <<>>

\* A stream that has ended never comes back, although its state is read and set in two
\* steps by up to three threads of an end: a late create-success cannot revive it.
NeverRevived ==
    [][\A e \in Ends, id \in Streams : state[e][id] \in Ended => state'[e][id] \in Ended]_vars

\* Once the worker has been stopped and the calls in progress are over, none of its
\* streams is open: neither the timer's task nor a listener opens another one behind stop.
NoStreamAfterStop ==
    stopped /\ Calm => \A id \in Streams : state["opener"][id] \in Ended \cup {"NEW"}

\* The opener's map has no context of a stream that has ended: a packet for such a
\* stream is answered by CLOSE, which is how the agent's end of it is ever closed.
ContextsAreLive ==
    Calm => \A id \in known["opener"] : state["opener"][id] \notin Ended

\* The worker never holds two live streams to its agent, whether it is started, called
\* again by another session, or called by the timer.
OneLiveStream ==
    Calm => Cardinality({id \in Streams : state["opener"][id] \notin Ended \cup {"NEW"}}) <= 1

\* A worker that is on, or was lost by an exception, and has no stream is waiting for
\* the timer, and the timer has a task for it: between the listener's two assignments,
\* the task's swap of the waiting agents and a failed openStream no wake-up is lost.
InactiveIsRetried ==
    (started \/ dropped # {}) /\ ~stopped /\ ~active /\ Calm
        => due \/ (reactive /\ timerOn /\ tasks > 0)

\* When nothing is on its way, a stream that is connected for the web is connected for
\* the agent.
ConnectedInPairs ==
    Quiet /\ connected =>
        \A id \in Streams : state["opener"][id] = "CONNECTED" => state["acceptor"][id] = "CONNECTED"
=============================================================================
