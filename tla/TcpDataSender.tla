--------------------------- MODULE TcpDataSender ---------------------------
(***************************************************************************)
(* The profiler's sender of requests to the collector: TcpDataSender over  *)
(* AsyncQueueingExecutor, with RetryQueue and the timer task that asks     *)
(* again.  An answer or a failure is heard in the network's thread, in the *)
(* request timer's, or, when the client has no connection, at once in the  *)
(* thread that asks.  What hears a failure adds the message to the retry   *)
(* queue and starts the task unless one is on its way.                     *)
(*                                                                         *)
(* Requests with a listener of their own are those of AgentInfoSender;     *)
(* plain sends have no outcome.  The interface takes any retry count; the  *)
(* profiler asks with 3, the maximum of its RetryQueue, which is as much   *)
(* as to say that a request that fails is not asked again.                 *)
(***************************************************************************)
EXTENDS AsyncQueueingExecutor, FiniteSets, Functions

CONSTANTS RetryCount,          \* the retryCount each request is made with
          Capacity, MaxRetry,  \* of the RetryQueue
          Nothing

ASSUME RetryAssumption == /\ RetryCount \in [Data -> Nat]
                          /\ Capacity \in Nat \ {0} /\ MaxRetry \in Nat
                          /\ Nothing \notin Data

VARIABLES count,       \* the retryCount a request's listener or message carries
          flying,      \* requests whose outcome has not been heard
          retryQueue,
          fireState,
          tasks,       \* timeouts the timer holds
          timerOn,
          thread       \* what each thread that may hear an outcome does

senderVars == <<count, flying, retryQueue, fireState, tasks, timerOn, thread>>
vars == <<executorVars, senderVars>>

Threads == {"worker", "task", "network", "timeout"}
Steps   == {"idle", "add", "offer", "fire", "schedule", "get", "complete"}
Idle    == [at |-> "idle", on |-> Nothing]
HalfCapacity == Capacity \div 2

\* The type invariant: in particular no message is tried more often than MaxRetry allows.
TypeOK ==
    /\ ExecutorTypeOK
    /\ count \in [Data -> Nat]
    /\ \A d \in Data : count[d] <= MaxRetry \/ count[d] = RetryCount[d]
    /\ flying \subseteq Data
    /\ retryQueue \in Seq(Data)
    /\ fireState \in BOOLEAN
    /\ tasks \in Nat
    /\ timerOn \in BOOLEAN
    /\ thread \in [Threads -> [at : Steps, on : Data \cup {Nothing}]]

Init ==
    /\ ExecutorInit
    /\ count = RetryCount
    /\ flying = {}
    /\ retryQueue = <<>>
    /\ fireState = FALSE
    /\ tasks = 0
    /\ timerOn = TRUE
    /\ thread = [t \in Threads |-> Idle]

Goto(t, step, d) == thread' = [thread EXCEPT ![t] = [at |-> step, on |-> d]]

\* The task goes on with its loop when it has heard, the others are done.
Heard(t) == IF t = "task" THEN Goto(t, "get", Nothing) ELSE Goto(t, "idle", Nothing)

-----------------------------------------------------------------------------
\* client.request: written, or failed at once and heard in this thread.
Ask(t, d) ==
    \/ flying' = flying \cup {d} /\ Heard(t)
    \/ Goto(t, "add", d) /\ UNCHANGED flying

SendPacket ==
    /\ batch # <<>> /\ thread["worker"].at = "idle"
    /\ batch' = Tail(batch)
    /\ Ask("worker", Head(batch))
    /\ UNCHANGED <<isRun, caller, queue, loop, count, retryQueue, fireState, tasks, timerOn>>

\* An answer that is no failure, or that cannot be read, ends the request.
Answered(d) ==
    /\ d \in flying /\ thread["network"].at = "idle"
    /\ flying' = flying \ {d}
    /\ UNCHANGED <<executorVars, count, retryQueue, fireState, tasks, timerOn, thread>>

RequestFailed(t, d) ==
    /\ d \in flying /\ thread[t].at = "idle"
    /\ flying' = flying \ {d}
    /\ Goto(t, "add", d)
    /\ UNCHANGED <<executorVars, count, retryQueue, fireState, tasks, timerOn>>

-----------------------------------------------------------------------------
\* RetryQueue.add looks at the counts and the size, and offers later.
\* Mutant: the bound is missed by one.
DiscardsLate(d) == \/ count[d] > MaxRetry
                   \/ Len(retryQueue) >= Capacity
                   \/ Len(retryQueue) >= HalfCapacity /\ count[d] >= 1
Discards(d) == \/ count[d] >= MaxRetry
               \/ Len(retryQueue) >= Capacity
               \/ Len(retryQueue) >= HalfCapacity /\ count[d] >= 1

AddRetry(t) ==
    LET d == thread[t].on IN
    /\ thread[t].at = "add"
    /\ Goto(t, IF Discards(d) THEN "fire" ELSE "offer", d)
    /\ UNCHANGED <<executorVars, count, flying, retryQueue, fireState, tasks, timerOn>>

OfferRetry(t) ==
    LET d == thread[t].on IN
    /\ thread[t].at = "offer"
    /\ retryQueue' = Append(retryQueue, d)
    /\ Goto(t, "fire", d)
    /\ UNCHANGED <<executorVars, count, flying, fireState, tasks, timerOn>>

\* Mutant: the task's state is looked at and not taken.
FireTimeoutUnset(t) ==
    /\ thread[t].at = "fire"
    /\ IF fireState THEN Heard(t) ELSE Goto(t, "schedule", thread[t].on)
    /\ UNCHANGED <<executorVars, count, flying, retryQueue, fireState, tasks, timerOn>>
FireTimeout(t) ==
    /\ thread[t].at = "fire"
    /\ fireState' = TRUE
    /\ IF fireState THEN Heard(t) ELSE Goto(t, "schedule", thread[t].on)
    /\ UNCHANGED <<executorVars, count, flying, retryQueue, tasks, timerOn>>

\* A timer that has been stopped throws, which ends the listener.
NewTimeout(t) ==
    /\ thread[t].at = "schedule"
    /\ tasks' = IF timerOn THEN tasks + 1 ELSE tasks
    /\ Heard(t)
    /\ UNCHANGED <<executorVars, count, flying, retryQueue, fireState, timerOn>>

-----------------------------------------------------------------------------
RunTask ==
    /\ tasks > 0 /\ timerOn /\ thread["task"].at = "idle"
    /\ tasks' = tasks - 1
    /\ Goto("task", "get", Nothing)
    /\ UNCHANGED <<executorVars, count, flying, retryQueue, fireState, timerOn>>

\* Mutant: the task asks for one message only.
GetOneRetry ==
    /\ thread["task"].at = "get"
    /\ \/ /\ retryQueue = <<>>
          /\ Goto("task", "complete", Nothing)
          /\ UNCHANGED <<count, flying, retryQueue>>
       \/ /\ retryQueue # <<>>
          /\ retryQueue' = Tail(retryQueue)
          /\ count' = [count EXCEPT ![Head(retryQueue)] = @ + 1]
          /\ flying' = flying \cup {Head(retryQueue)}
          /\ Goto("task", "complete", Nothing)
    /\ UNCHANGED <<executorVars, fireState, tasks, timerOn>>
GetRetry ==
    /\ thread["task"].at = "get"
    /\ \/ /\ retryQueue = <<>>
          /\ Goto("task", "complete", Nothing)
          /\ UNCHANGED <<count, flying, retryQueue>>
       \/ /\ retryQueue # <<>>
          /\ retryQueue' = Tail(retryQueue)
          /\ count' = [count EXCEPT ![Head(retryQueue)] = @ + 1]
          /\ Ask("task", Head(retryQueue))
    /\ UNCHANGED <<executorVars, fireState, tasks, timerOn>>

FireComplete ==
    /\ thread["task"].at = "complete"
    /\ fireState' = FALSE
    /\ Goto("task", "idle", Nothing)
    /\ UNCHANGED <<executorVars, count, flying, retryQueue, tasks, timerOn>>

\* stop: the executor first, for up to five seconds; the timer waits for its task.
Stop == StopExecutor /\ UNCHANGED senderVars

StopTimer ==
    /\ ~isRun /\ timerOn /\ thread["task"].at = "idle"
    /\ timerOn' = FALSE
    /\ tasks' = 0
    /\ UNCHANGED <<executorVars, count, flying, retryQueue, fireState, thread>>

-----------------------------------------------------------------------------
Worker == \/ SendPacket
          \/ thread["worker"].at = "idle" /\ ExecuteThread /\ UNCHANGED senderVars
Hear(t) == AddRetry(t) \/ OfferRetry(t) \/ FireTimeout(t) \/ NewTimeout(t)
Task == RunTask \/ GetRetry \/ FireComplete

Next ==
    \/ \E d \in Data : (Execute(d) \/ Offer(d)) /\ UNCHANGED senderVars
    \/ Worker \/ Task \/ Stop \/ StopTimer
    \/ \E d \in Data : Answered(d) \/ RequestFailed("network", d) \/ RequestFailed("timeout", d)
    \/ \E t \in Threads : Hear(t)

\* A thread that has something to do goes on.
Fairness == WF_vars(Worker) /\ WF_vars(Task) /\ \A t \in Threads : WF_vars(Hear(t))

Spec == Init /\ [][Next]_vars /\ Fairness

-----------------------------------------------------------------------------
(* Properties.                                                             *)

\* While the timer runs, the flag says whether there is a task, and there is never a
\* second one: whoever hears of failures at the same time, one of them starts the task.
FireStateIsTask ==
    timerOn =>
        LET starting == {t \in Threads : thread[t].at = "schedule"}
            running  == IF thread["task"].at = "idle" THEN 0 ELSE 1 IN
        IF fireState THEN tasks + running + Cardinality(starting) = 1
                     ELSE tasks + running + Cardinality(starting) = 0

\* What is in the queue while the executor runs is taken by its thread, even if stop
\* comes between: the flush after the loop leaves nothing that was there before.
QueuedIsSent ==
    \A d \in Data : isRun /\ d \in Range(queue) ~> d \notin Range(queue)

\* A message in the retry queue that a task is to come for is asked again, or the sender
\* has been stopped: one task works off everything that waits.  (A message that is added
\* after the task has found the queue empty waits for the next failure.)
WaitingIsRetried ==
    \A d \in Data : d \in Range(retryQueue) /\ tasks > 0 ~> d \notin Range(retryQueue) \/ ~timerOn
=============================================================================
