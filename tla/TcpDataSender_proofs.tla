----------------------- MODULE TcpDataSender_proofs ------------------------
(***************************************************************************)
(* Proofs about TcpDataSender, for any data, retry counts and sizes of the *)
(* queues: the retry task is never there twice and never missing, and no   *)
(* message is tried more often than the RetryQueue allows.                 *)
(***************************************************************************)
EXTENDS TcpDataSender, FiniteSetTheorems, TLAPS

starting == {t \in Threads : thread[t].at = "schedule"}
NoTask   == tasks = 0 /\ thread["task"].at = "idle" /\ starting = {}

\* A thread is busy with a request, or is idle or in the task's loop without one.
ThreadStates == [at : {"idle", "get", "complete"}, on : {Nothing}]
                    \cup [at : {"add", "offer", "fire", "schedule"}, on : Data]

\* What the threads and the task are, without what the queues hold.
TaskTypes ==
    /\ fireState \in BOOLEAN /\ timerOn \in BOOLEAN
    /\ tasks \in Nat
    /\ thread \in [Threads -> ThreadStates]
    /\ queue \in Seq(Data) /\ batch \in Seq(Data) /\ retryQueue \in Seq(Data)

\* The flag stands for one task that a thread is about to start, or the timer holds, or
\* its thread runs.
TaskInv ==
    timerOn =>
        IF fireState
        THEN \/ tasks = 0 /\ thread["task"].at = "idle" /\ \E t \in Threads : starting = {t}
             \/ tasks = 1 /\ thread["task"].at = "idle" /\ starting = {}
             \/ tasks = 0 /\ thread["task"].at # "idle" /\ starting = {}
        ELSE NoTask

-----------------------------------------------------------------------------
\* Taking data out of the executor's queue.
LEMMA TakeNType ==
    ASSUME queue \in Seq(Data), NEW n \in Nat, TakeN(n)
    PROVE  queue' \in Seq(Data) /\ batch' \in Seq(Data)
<1> DEFINE k == IF Len(queue) < n THEN Len(queue) ELSE n
<1>1. k \in Nat /\ k <= Len(queue)
  OBVIOUS
<1>2. SubSeq(queue, 1, k) \in Seq(Data) /\ SubSeq(queue, k + 1, Len(queue)) \in Seq(Data)
  BY <1>1
<1> QED BY <1>2 DEF TakeN

\* The steps of the executor alone keep the types.
LEMMA ExecutorTypes ==
    ASSUME TaskTypes, UNCHANGED senderVars,
           (\E d \in Data : Execute(d) \/ Offer(d)) \/ ExecuteThread \/ StopExecutor
    PROVE  TaskTypes'
<1> USE DEF TaskTypes, senderVars
<1>1. ASSUME NEW d \in Data, Execute(d) \/ Offer(d) PROVE TaskTypes'
  <2>1. Append(queue, d) \in Seq(Data)
    OBVIOUS
  <2> QED BY <1>1, <2>1 DEF Execute, Offer
<1>2. CASE CheckRun \/ StopExecutor
  BY <1>2 DEF CheckRun, StopExecutor
<1>3. CASE Drain \/ Poll \/ FlushQueue
  <2>1. \E n \in Nat : TakeN(n)
    BY <1>3, SizesAssumption DEF Drain, Poll, FlushQueue
  <2>2. queue' \in Seq(Data) /\ batch' \in Seq(Data)
    BY <2>1, TakeNType
  <2> QED BY <2>2
<1> QED BY <1>1, <1>2, <1>3 DEF ExecuteThread

\* Where a thread goes.
LEMMA GotoType ==
    ASSUME TaskTypes, NEW t \in Threads, NEW step, NEW d,
           [at |-> step, on |-> d] \in ThreadStates, Goto(t, step, d)
    PROVE  /\ thread' \in [Threads -> ThreadStates]
           /\ thread'[t].at = step
           /\ \A u \in Threads \ {t} : thread'[u] = thread[u]
BY DEF TaskTypes, Goto

\* A thread that has heard is idle, the task goes on with its loop.
LEMMA HeardType ==
    ASSUME TaskTypes, NEW t \in Threads, Heard(t)
    PROVE  /\ thread' \in [Threads -> ThreadStates]
           /\ thread'[t].at = IF t = "task" THEN "get" ELSE "idle"
           /\ \A u \in Threads \ {t} : thread'[u] = thread[u]
BY GotoType DEF Heard, ThreadStates

\* A thread that asks has heard, or hears of the failure at once.
LEMMA AskType ==
    ASSUME TaskTypes, NEW t \in Threads, NEW d \in Data, Ask(t, d)
    PROVE  /\ thread' \in [Threads -> ThreadStates]
           /\ thread'[t].at \in {"add", IF t = "task" THEN "get" ELSE "idle"}
           /\ \A u \in Threads \ {t} : thread'[u] = thread[u]
BY GotoType, HeardType DEF Ask, ThreadStates

-----------------------------------------------------------------------------
\* A thread that goes between steps other than "schedule" and, if it is the task's, other
\* than "idle", leaves the invariant alone.
LEMMA KeptElsewhere ==
    ASSUME TaskTypes, TaskInv, NEW t \in Threads,
           UNCHANGED <<fireState, tasks, timerOn>>,
           thread[t].at # "schedule", thread'[t].at # "schedule",
           t = "task" => (thread[t].at = "idle") = (thread'[t].at = "idle"),
           \A u \in Threads \ {t} : thread'[u] = thread[u]
    PROVE  TaskInv'
<1>1. starting' = starting
  BY DEF starting
<1>2. (thread["task"].at = "idle") = (thread["task"].at = "idle")'
  BY DEF Threads
<1> QED BY <1>1, <1>2 DEF TaskInv, NoTask

\* What a thread hears.
LEMMA HearKeeps ==
    ASSUME TaskTypes, TaskInv, NEW t \in Threads, Hear(t)
    PROVE  TaskTypes' /\ TaskInv'
<1>d. thread[t].at \in {"add", "offer", "fire", "schedule"} => thread[t].on \in Data
  BY DEF TaskTypes, ThreadStates
<1>1. CASE AddRetry(t)
  <2>1. \E step \in {"fire", "offer"} : Goto(t, step, thread[t].on)
    BY <1>1 DEF AddRetry
  <2>2. /\ thread' \in [Threads -> ThreadStates]
        /\ thread'[t].at \in {"fire", "offer"}
        /\ \A u \in Threads \ {t} : thread'[u] = thread[u]
    BY <1>1, <2>1, <1>d, GotoType DEF AddRetry, ThreadStates
  <2>3. TaskTypes'
    BY <1>1, <2>2 DEF AddRetry, TaskTypes, executorVars
  <2> QED BY <1>1, <2>2, <2>3, KeptElsewhere DEF AddRetry
<1>2. CASE OfferRetry(t)
  <2>1. /\ thread' \in [Threads -> ThreadStates]
        /\ thread'[t].at = "fire"
        /\ \A u \in Threads \ {t} : thread'[u] = thread[u]
    BY <1>2, <1>d, GotoType DEF OfferRetry, ThreadStates
  <2>2. TaskTypes'
    BY <1>2, <2>1, <1>d DEF OfferRetry, TaskTypes, executorVars
  <2> QED BY <1>2, <2>1, <2>2, KeptElsewhere DEF OfferRetry
<1>3. CASE FireTimeout(t) /\ fireState
  <2>1. /\ thread' \in [Threads -> ThreadStates]
        /\ thread'[t].at = IF t = "task" THEN "get" ELSE "idle"
        /\ \A u \in Threads \ {t} : thread'[u] = thread[u]
    BY <1>3, HeardType DEF FireTimeout
  <2>2. TaskTypes'
    BY <1>3, <2>1 DEF FireTimeout, TaskTypes, executorVars
  <2> QED BY <1>3, <2>1, <2>2, KeptElsewhere DEF FireTimeout
<1>4. CASE FireTimeout(t) /\ ~fireState
  <2>1. /\ thread' \in [Threads -> ThreadStates]
        /\ thread'[t].at = "schedule"
        /\ \A u \in Threads \ {t} : thread'[u] = thread[u]
    BY <1>4, <1>d, GotoType DEF FireTimeout, ThreadStates
  <2>2. TaskTypes'
    BY <1>4, <2>1 DEF FireTimeout, TaskTypes, executorVars
  <2>3. ASSUME timerOn PROVE TaskInv'
    <3>1. NoTask /\ t # "task"
      BY <1>4, <2>3 DEF TaskInv, NoTask, FireTimeout
    <3>2. starting' = {t}
      BY <3>1, <2>1 DEF NoTask, starting
    <3> QED BY <1>4, <2>1, <3>1, <3>2 DEF TaskInv, NoTask, FireTimeout, Threads
  <2> QED BY <1>4, <2>2, <2>3 DEF TaskInv, FireTimeout
<1>5. CASE NewTimeout(t)
  <2>1. /\ thread' \in [Threads -> ThreadStates]
        /\ thread'[t].at = IF t = "task" THEN "get" ELSE "idle"
        /\ \A u \in Threads \ {t} : thread'[u] = thread[u]
    BY <1>5, HeardType DEF NewTimeout
  <2>2. TaskTypes'
    BY <1>5, <2>1 DEF NewTimeout, TaskTypes, executorVars
  <2>3. ASSUME timerOn PROVE TaskInv'
    <3>1. t \in starting
      BY <1>5 DEF NewTimeout, starting
    <3>2. /\ fireState /\ tasks = 0 /\ thread["task"].at = "idle"
          /\ starting = {t} /\ t # "task"
      BY <2>3, <3>1 DEF TaskInv, NoTask, starting
    <3>3. starting' = {}
      BY <3>2, <2>1 DEF starting
    <3> QED BY <1>5, <2>1, <2>3, <3>2, <3>3 DEF TaskInv, NewTimeout, Threads
  <2> QED BY <1>5, <2>2, <2>3 DEF TaskInv, NewTimeout
<1> QED BY <1>1, <1>2, <1>3, <1>4, <1>5 DEF Hear

\* The worker hands requests to the network.
LEMMA SendKeeps ==
    ASSUME TaskTypes, TaskInv, SendPacket
    PROVE  TaskTypes' /\ TaskInv'
<1>1. Head(batch) \in Data /\ Tail(batch) \in Seq(Data)
  BY DEF SendPacket, TaskTypes
<1>2. /\ thread' \in [Threads -> ThreadStates]
      /\ thread'["worker"].at \in {"add", "idle"}
      /\ \A u \in Threads \ {"worker"} : thread'[u] = thread[u]
  BY <1>1, AskType DEF SendPacket, Threads
<1>3. TaskTypes'
  BY <1>1, <1>2 DEF SendPacket, TaskTypes
<1> QED BY <1>2, <1>3, KeptElsewhere DEF SendPacket, Threads

\* The task.
LEMMA TaskKeeps ==
    ASSUME TaskTypes, TaskInv, Task
    PROVE  TaskTypes' /\ TaskInv'
<1>t. "task" \in Threads
  BY DEF Threads
<1>1. CASE RunTask
  <2>1. /\ thread' \in [Threads -> ThreadStates]
        /\ thread'["task"].at = "get"
        /\ \A u \in Threads \ {"task"} : thread'[u] = thread[u]
    BY <1>1, <1>t, GotoType DEF RunTask, ThreadStates
  <2>2. TaskTypes'
    BY <1>1, <2>1 DEF RunTask, TaskTypes, executorVars
  <2>3. fireState /\ tasks = 1 /\ starting = {}
    BY <1>1 DEF RunTask, TaskInv, NoTask
  <2>4. starting' = {}
    BY <2>1, <2>3 DEF starting
  <2> QED BY <1>1, <2>1, <2>2, <2>3, <2>4 DEF RunTask, TaskInv
<1>2. CASE GetRetry
  <2>1. CASE retryQueue = <<>>
    <3>1. /\ thread' \in [Threads -> ThreadStates]
          /\ thread'["task"].at = "complete"
          /\ \A u \in Threads \ {"task"} : thread'[u] = thread[u]
      BY <1>2, <2>1, <1>t, GotoType DEF GetRetry, ThreadStates
    <3>2. TaskTypes'
      BY <1>2, <2>1, <3>1 DEF GetRetry, TaskTypes, executorVars
    <3> QED BY <1>2, <3>1, <3>2, <1>t, KeptElsewhere DEF GetRetry
  <2>2. CASE retryQueue # <<>>
    <3>1. Head(retryQueue) \in Data /\ Tail(retryQueue) \in Seq(Data)
      BY <2>2 DEF TaskTypes
    <3>2. /\ thread' \in [Threads -> ThreadStates]
          /\ thread'["task"].at \in {"add", "get"}
          /\ \A u \in Threads \ {"task"} : thread'[u] = thread[u]
      BY <1>2, <2>2, <3>1, <1>t, AskType DEF GetRetry
    <3>3. TaskTypes'
      BY <1>2, <2>2, <3>1, <3>2 DEF GetRetry, TaskTypes, executorVars
    <3> QED BY <1>2, <3>2, <3>3, <1>t, KeptElsewhere DEF GetRetry
  <2> QED BY <2>1, <2>2
<1>3. CASE FireComplete
  <2>1. /\ thread' \in [Threads -> ThreadStates]
        /\ thread'["task"].at = "idle"
        /\ \A u \in Threads \ {"task"} : thread'[u] = thread[u]
    BY <1>3, <1>t, GotoType DEF FireComplete, ThreadStates
  <2>2. TaskTypes'
    BY <1>3, <2>1 DEF FireComplete, TaskTypes, executorVars
  <2>3. starting' \subseteq starting
    BY <2>1 DEF starting
  <2>4. ASSUME timerOn PROVE tasks = 0 /\ starting = {}
    BY <1>3, <2>4 DEF FireComplete, TaskInv, NoTask
  <2> QED BY <1>3, <2>1, <2>2, <2>3, <2>4 DEF FireComplete, TaskInv, NoTask
<1> QED BY <1>1, <1>2, <1>3 DEF Task

\* Every step keeps the types and the invariant.
LEMMA NextKeeps ==
    ASSUME TaskTypes, TaskInv, [Next]_vars
    PROVE  TaskTypes' /\ TaskInv'
<1>1. ASSUME UNCHANGED senderVars PROVE TaskInv'
  BY <1>1 DEF senderVars, TaskInv, NoTask, starting
<1>2. ASSUME NEW d \in Data, (Execute(d) \/ Offer(d)) /\ UNCHANGED senderVars
      PROVE  TaskTypes' /\ TaskInv'
  BY <1>1, <1>2, ExecutorTypes
<1>3. CASE Worker
  BY <1>1, <1>3, SendKeeps, ExecutorTypes DEF Worker
<1>4. CASE Task
  BY <1>4, TaskKeeps
<1>5. CASE Stop
  BY <1>1, <1>5, ExecutorTypes DEF Stop
<1>6. CASE StopTimer
  BY <1>6 DEF StopTimer, TaskTypes, TaskInv, executorVars
<1>7. ASSUME NEW d \in Data, Answered(d) PROVE TaskTypes' /\ TaskInv'
  BY <1>7 DEF Answered, TaskTypes, TaskInv, NoTask, starting, executorVars
<1>8. ASSUME NEW d \in Data, NEW t \in {"network", "timeout"}, RequestFailed(t, d)
      PROVE  TaskTypes' /\ TaskInv'
  <2>1. /\ thread' \in [Threads -> ThreadStates]
        /\ thread'[t].at = "add"
        /\ \A u \in Threads \ {t} : thread'[u] = thread[u]
    BY <1>8, GotoType DEF RequestFailed, Threads, ThreadStates
  <2>2. TaskTypes'
    BY <1>8, <2>1 DEF RequestFailed, TaskTypes, executorVars
  <2> QED BY <1>8, <2>1, <2>2, KeptElsewhere DEF RequestFailed, Threads
<1>9. ASSUME NEW t \in Threads, Hear(t) PROVE TaskTypes' /\ TaskInv'
  BY <1>9, HearKeeps
<1>10. CASE UNCHANGED vars
  BY <1>1, <1>10 DEF vars, executorVars, senderVars, TaskTypes
<1> QED BY <1>2, <1>3, <1>4, <1>5, <1>6, <1>7, <1>8, <1>9, <1>10 DEF Next

\* The initial states.
LEMMA InitTask == Init => TaskTypes /\ TaskInv
<1> SUFFICES ASSUME Init PROVE TaskTypes /\ TaskInv
  OBVIOUS
<1>1. Idle \in ThreadStates /\ Idle.at = "idle"
  BY DEF Idle, ThreadStates
<1>2. TaskTypes
  <2>1. [t \in Threads |-> Idle] \in [Threads -> ThreadStates]
    BY <1>1
  <2>2. <<>> \in Seq(Data)
    OBVIOUS
  <2> QED BY <2>1, <2>2 DEF Init, ExecutorInit, TaskTypes
<1>3. \A t \in Threads : thread[t].at = "idle"
  BY <1>1 DEF Init
<1>4. NoTask /\ ~fireState
  BY <1>3 DEF Init, NoTask, starting, Threads
<1> QED BY <1>2, <1>4 DEF TaskInv

\* There is never a second retry task, nor a flag without one: for any data, retry counts
\* and sizes.
THEOREM OneTask == Spec => []FireStateIsTask
<1>1. TaskTypes /\ TaskInv /\ [Next]_vars => (TaskTypes /\ TaskInv)'
  BY NextKeeps
<1>2. ASSUME TaskTypes, TaskInv PROVE FireStateIsTask
  <2>1. Cardinality({}) = 0 /\ \A t \in Threads : Cardinality({t}) = 1
    BY FS_EmptySet, FS_Singleton
  <2>2. fireState \in BOOLEAN
    BY <1>2 DEF TaskTypes
  <2> QED BY <1>2, <2>1, <2>2 DEF FireStateIsTask, TaskInv, NoTask, starting
<1> QED BY InitTask, <1>1, <1>2, PTL DEF Spec

(***************************************************************************)
(* The types and the retry counts.                                         *)
(***************************************************************************)

\* Where a piece of data can be: with its caller, in one of the queues, in the batch, on the
\* network, or in the hands of a thread that has heard of a failure.
Placed(p, d) ==
    \/ p = "caller" /\ caller[d] \in {"new", "running"}
    \/ p = "queue" /\ d \in Range(queue)
    \/ p = "batch" /\ d \in Range(batch)
    \/ p = "flying" /\ d \in flying
    \/ p = "retry" /\ d \in Range(retryQueue)
    \/ p \in Threads /\ thread[p].at \in {"add", "offer"} /\ thread[p].on = d

OneEach(s) == \A i, j \in 1 .. Len(s) : s[i] = s[j] => i = j

\* It is in one place at a time, and there once.
PlaceInv ==
    /\ OneEach(queue) /\ OneEach(batch) /\ OneEach(retryQueue)
    /\ \A d \in Data : \A p, q : Placed(p, d) /\ Placed(q, d) => p = q

Retried(d) == d \in Range(retryQueue) \/ \E t \in Threads : thread[t] = [at |-> "offer", on |-> d]

\* What has passed RetryQueue's look at the count can be counted once more.
CountInv ==
    \A d \in Data : /\ count[d] \in Nat
                    /\ count[d] <= MaxRetry \/ count[d] = RetryCount[d]
                    /\ Retried(d) => count[d] < MaxRetry

\* The types that TaskTypes leaves out.
OtherTypes ==
    /\ isRun \in BOOLEAN /\ caller \in [Data -> CallerSteps] /\ loop \in LoopSteps
    /\ flying \subseteq Data
    /\ count \in [Data -> Nat]

-----------------------------------------------------------------------------
\* Appending what is not there, and taking from either end, keeps each element single.
LEMMA SingleLists ==
    ASSUME NEW s \in Seq(Data), OneEach(s)
    PROVE  /\ \A d \in Data : /\ Range(Append(s, d)) = Range(s) \cup {d}
                              /\ d \notin Range(s) => OneEach(Append(s, d))
           /\ s # <<>> => /\ Head(s) \in Range(s) /\ Range(Tail(s)) = Range(s) \ {Head(s)}
                          /\ OneEach(Tail(s))
<1>. USE DEF Range, OneEach
<1>1. ASSUME NEW d \in Data
      PROVE  /\ Range(Append(s, d)) = Range(s) \cup {d}
             /\ d \notin Range(s) => OneEach(Append(s, d))
  <2>1. /\ Len(Append(s, d)) = Len(s) + 1 /\ Append(s, d)[Len(s) + 1] = d
        /\ \A i \in 1 .. Len(s) : Append(s, d)[i] = s[i]
        /\ DOMAIN Append(s, d) = 1 .. (Len(s) + 1) /\ DOMAIN s = 1 .. Len(s) /\ Len(s) \in Nat
    OBVIOUS
  <2>2. 1 .. (Len(s) + 1) = (1 .. Len(s)) \cup {Len(s) + 1}
    BY <2>1
  <2>3. Range(Append(s, d)) = Range(s) \cup {d}
    BY <2>1, <2>2
  <2>4. ASSUME d \notin Range(s), NEW i \in 1 .. (Len(s) + 1), NEW j \in 1 .. (Len(s) + 1),
               Append(s, d)[i] = Append(s, d)[j]
        PROVE  i = j
    BY <2>1, <2>2, <2>4
  <2>. QED  BY <2>1, <2>3, <2>4
<1>2. ASSUME s # <<>>
      PROVE  /\ Head(s) \in Range(s) /\ Range(Tail(s)) = Range(s) \ {Head(s)}
             /\ OneEach(Tail(s))
  <2>1. /\ Len(Tail(s)) = Len(s) - 1 /\ Len(s) \in Nat \ {0} /\ Head(s) = s[1]
        /\ \A i \in 1 .. (Len(s) - 1) : Tail(s)[i] = s[i + 1]
        /\ DOMAIN Tail(s) = 1 .. (Len(s) - 1) /\ DOMAIN s = 1 .. Len(s)
    BY <1>2
  <2>2. \A i \in 1 .. Len(s) : i = 1 \/ i - 1 \in 1 .. (Len(s) - 1)
    BY <2>1
  <2>3. \A i \in 1 .. (Len(s) - 1) : i + 1 \in 1 .. Len(s) /\ i + 1 # 1
    BY <2>1
  <2>4. ASSUME NEW d PROVE d \in Range(Tail(s)) <=> d \in Range(s) \ {Head(s)}
    <3>1. ASSUME NEW i \in 1 .. (Len(s) - 1), d = Tail(s)[i] PROVE d \in Range(s) \ {Head(s)}
      BY <2>1, <2>3, <3>1
    <3>2. ASSUME NEW i \in 1 .. Len(s), d = s[i], d # Head(s) PROVE d \in Range(Tail(s))
      <4>1. i # 1 /\ i - 1 \in 1 .. (Len(s) - 1) /\ (i - 1) + 1 = i
        BY <2>1, <2>2, <3>2
      <4>2. Tail(s)[i - 1] = d
        BY <2>1, <3>2, <4>1
      <4>. QED  BY <2>1, <4>1, <4>2
    <3>. QED  BY <2>1, <3>1, <3>2
  <2>5. OneEach(Tail(s))
    BY <2>1, <2>3
  <2>. QED  BY <2>1, <2>4, <2>5
<1>. QED  BY <1>1, <1>2

\* drainTo cuts the queue in two.
LEMMA TakeNParts ==
    ASSUME queue \in Seq(Data), OneEach(queue), NEW n \in Nat, TakeN(n)
    PROVE  /\ OneEach(queue') /\ OneEach(batch')
           /\ Range(queue') \subseteq Range(queue) /\ Range(batch') \subseteq Range(queue)
           /\ Range(queue') \cap Range(batch') = {}
<1>. DEFINE k == IF Len(queue) < n THEN Len(queue) ELSE n
<1>1. k \in Nat /\ k <= Len(queue) /\ Len(queue) \in Nat
  OBVIOUS
<1>2. batch' = SubSeq(queue, 1, k) /\ queue' = SubSeq(queue, k + 1, Len(queue))
  BY DEF TakeN
<1>. HIDE DEF k
<1>3. /\ Len(batch') = k /\ DOMAIN batch' = 1 .. k
      /\ \A i \in 1 .. k : batch'[i] = queue[i] /\ i \in 1 .. Len(queue)
  BY <1>1, <1>2
<1>4. /\ Len(queue') = Len(queue) - k /\ DOMAIN queue' = 1 .. (Len(queue) - k)
      /\ \A i \in 1 .. (Len(queue) - k) :
            queue'[i] = queue[k + i] /\ k + i \in 1 .. Len(queue) /\ k + i \notin 1 .. k
  BY <1>1, <1>2
<1>5. DOMAIN queue = 1 .. Len(queue)
  OBVIOUS
<1>6. OneEach(batch')
  BY <1>3 DEF OneEach
<1>7. OneEach(queue')
  <2>1. ASSUME NEW i \in 1 .. (Len(queue) - k), NEW j \in 1 .. (Len(queue) - k),
               queue'[i] = queue'[j]
        PROVE  i = j
    <3>1. k + i = k + j
      BY <1>4, <2>1 DEF OneEach
    <3>. QED  BY <1>1, <3>1
  <2>. QED  BY <1>4, <2>1 DEF OneEach
<1>8. \A d \in Range(batch') : \E i \in 1 .. k : d = queue[i] /\ i \in 1 .. Len(queue)
  BY <1>3 DEF Range
<1>9. \A d \in Range(queue') : \E i \in 1 .. Len(queue) : d = queue[i] /\ i \notin 1 .. k
  BY <1>4 DEF Range
<1>10. Range(queue') \cap Range(batch') = {}
  <2>1. ASSUME NEW d \in Range(queue'), d \in Range(batch') PROVE FALSE
    BY <1>8, <1>9, <2>1 DEF OneEach
  <2>. QED  BY <2>1
<1>. QED  BY <1>5, <1>6, <1>7, <1>8, <1>9, <1>10 DEF Range

-----------------------------------------------------------------------------
\* One piece of data moves, from the place it is in.
Moves(c, from, to) ==
    /\ Placed(from, c)
    /\ \A p : Placed(p, c)' => p = to \/ (p # from /\ Placed(p, c))
    /\ \A d \in Data \ {c} : \A p : Placed(p, d)' => Placed(p, d)

\* It is in one place then, and no other piece is in more places than before.
LEMMA MovesKeep ==
    ASSUME PlaceInv, NEW c \in Data, NEW from, NEW to, Moves(c, from, to)
    PROVE  \A d \in Data : \A p, q : Placed(p, d)' /\ Placed(q, d)' => p = q
BY DEF PlaceInv, Moves

\* A step that puts nothing anywhere.
LEMMA StaysKeep ==
    ASSUME PlaceInv, UNCHANGED <<queue, batch, retryQueue>>,
           \A d \in Data : \A p : Placed(p, d)' => Placed(p, d)
    PROVE  PlaceInv'
BY DEF PlaceInv, OneEach

\* Where a thread goes, in so far as it holds data.
LEMMA GotoPlace ==
    ASSUME TaskTypes, NEW t \in Threads, NEW step, NEW c, Goto(t, step, c)
    PROVE  /\ thread'[t] = [at |-> step, on |-> c]
           /\ thread'[t].at = step /\ thread'[t].on = c
           /\ \A u \in Threads \ {t} : thread'[u] = thread[u]
BY DEF TaskTypes, Goto

\* A thread that has heard holds none.
LEMMA HeardPlace ==
    ASSUME TaskTypes, NEW t \in Threads, Heard(t)
    PROVE  /\ thread'[t].at \in {"get", "idle"}
           /\ \A u \in Threads \ {t} : thread'[u] = thread[u]
BY DEF TaskTypes, Goto, Heard

\* A request that is asked leaves its place for the network, or for its thread if it fails
\* at once.
LEMMA AskMoves ==
    ASSUME TaskTypes, NEW t \in Threads, NEW c \in Data, Ask(t, c), NEW from,
           thread[t].at \notin {"add", "offer"}, UNCHANGED caller,
           from \in {"batch", "retry"}, Placed(from, c),
           \/ /\ from = "batch" /\ Range(batch') = Range(batch) \ {c}
              /\ UNCHANGED <<queue, retryQueue>>
           \/ /\ from = "retry" /\ Range(retryQueue') = Range(retryQueue) \ {c}
              /\ UNCHANGED <<queue, batch>>
    PROVE  \E to : Moves(c, from, to)
<1>1. CASE flying' = flying \cup {c} /\ Heard(t)
  <2>1. thread'[t].at \notin {"add", "offer"} /\ \A u \in Threads \ {t} : thread'[u] = thread[u]
    BY <1>1, HeardPlace
  <2>2. Moves(c, from, "flying")
    BY <1>1, <2>1 DEF Moves, Placed, Threads
  <2>. QED  BY <2>2
<1>2. CASE Goto(t, "add", c) /\ UNCHANGED flying
  <2>1. /\ thread'[t] = [at |-> "add", on |-> c]
        /\ \A u \in Threads \ {t} : thread'[u] = thread[u]
    BY <1>2, GotoPlace
  <2>2. Moves(c, from, t)
    BY <1>2, <2>1 DEF Moves, Placed, Threads
  <2>. QED  BY <2>2
<1>. QED  BY <1>1, <1>2 DEF Ask

\* Data moves from place to place and is never doubled.
LEMMA PlaceStep ==
    ASSUME TaskTypes, OtherTypes, PlaceInv, [Next]_vars
    PROVE  PlaceInv'
<1>0. /\ queue \in Seq(Data) /\ batch \in Seq(Data) /\ retryQueue \in Seq(Data)
      /\ caller \in [Data -> CallerSteps]
      /\ OneEach(queue) /\ OneEach(batch) /\ OneEach(retryQueue)
  BY DEF TaskTypes, OtherTypes, PlaceInv
<1>1. ASSUME NEW d \in Data, Execute(d), UNCHANGED senderVars PROVE PlaceInv'
  <2>1. \A c \in Data : \A p : Placed(p, c)' => Placed(p, c)
    BY <1>0, <1>1 DEF Execute, Placed, senderVars
  <2>. QED  BY <1>1, <2>1, StaysKeep DEF Execute, senderVars
<1>2. ASSUME NEW d \in Data, Offer(d), UNCHANGED senderVars PROVE PlaceInv'
  <2>0. Placed("caller", d)
    BY <1>2 DEF Offer, Placed
  <2>1. CASE Len(queue) < QueueSize
    <3>1. queue' = Append(queue, d) /\ caller' = [caller EXCEPT ![d] = "accepted"]
      BY <1>2, <2>1 DEF Offer
    <3>2. d \notin Range(queue)
      BY <2>0 DEF PlaceInv, Placed
    <3>3. Range(queue') = Range(queue) \cup {d} /\ OneEach(queue')
      BY <1>0, <3>1, <3>2, SingleLists
    <3>4. Moves(d, "caller", "queue")
      BY <1>0, <1>2, <2>0, <3>1, <3>3 DEF Offer, Moves, Placed, senderVars, Threads
    <3>. QED  BY <1>0, <1>2, <3>3, <3>4, MovesKeep DEF Offer, PlaceInv, senderVars, OneEach
  <2>2. CASE ~(Len(queue) < QueueSize)
    <3>1. \A c \in Data : \A p : Placed(p, c)' => Placed(p, c)
      BY <1>0, <1>2, <2>2 DEF Offer, Placed, senderVars
    <3>. QED  BY <1>2, <2>2, <3>1, StaysKeep DEF Offer, senderVars
  <2>. QED  BY <2>1, <2>2
<1>3. CASE (CheckRun /\ UNCHANGED senderVars) \/ Stop \/ UNCHANGED vars
  <2>1. UNCHANGED <<caller, queue, batch, senderVars>>
    BY <1>3 DEF CheckRun, Stop, StopExecutor, vars, executorVars
  <2>2. \A c \in Data : \A p : Placed(p, c)' => Placed(p, c)
    BY <2>1 DEF Placed, senderVars
  <2>. QED  BY <2>1, <2>2, StaysKeep DEF senderVars
<1>4. ASSUME NEW n \in Nat, TakeN(n), UNCHANGED <<caller, senderVars>> PROVE PlaceInv'
  <2>1. /\ OneEach(queue') /\ OneEach(batch')
        /\ Range(queue') \subseteq Range(queue) /\ Range(batch') \subseteq Range(queue)
        /\ Range(queue') \cap Range(batch') = {}
    BY <1>0, <1>4, TakeNParts
  <2>2. ASSUME NEW d \in Data, NEW p, Placed(p, d)'
        PROVE  \/ Placed(p, d) /\ p # "batch"
               \/ p = "batch" /\ Placed("queue", d) /\ ~Placed("queue", d)'
    BY <1>4, <2>1, <2>2 DEF Placed, senderVars, Threads
  <2>3. ASSUME NEW d \in Data, NEW p, NEW q, Placed(p, d)', Placed(q, d)' PROVE p = q
    BY <2>2, <2>3 DEF PlaceInv
  <2>. QED  BY <1>0, <1>4, <2>1, <2>3 DEF PlaceInv, senderVars, OneEach
<1>5. CASE (Drain \/ Poll \/ FlushQueue) /\ UNCHANGED senderVars
  BY <1>4, <1>5, SizesAssumption DEF Drain, Poll, FlushQueue
<1>6. CASE SendPacket
  <2>0. PICK c \in Data : c = Head(batch)
    BY <1>0, <1>6 DEF SendPacket
  <2>1. c \in Range(batch) /\ Range(batch') = Range(batch) \ {c} /\ OneEach(batch')
    BY <1>0, <1>6, <2>0, SingleLists DEF SendPacket
  <2>2. \E to : Moves(c, "batch", to)
    BY <1>6, <2>0, <2>1, AskMoves DEF SendPacket, Placed, Threads
  <2>. QED  BY <1>0, <1>6, <2>1, <2>2, MovesKeep DEF SendPacket, PlaceInv, OneEach
<1>7. CASE GetRetry
  <2>1. CASE retryQueue = <<>>
    <3>1. thread'["task"].at = "complete" /\ \A u \in Threads \ {"task"} : thread'[u] = thread[u]
      BY <1>7, <2>1 DEF GetRetry, Goto, TaskTypes, Threads
    <3>2. \A c \in Data : \A p : Placed(p, c)' => Placed(p, c)
      BY <1>7, <2>1, <3>1 DEF GetRetry, Placed, executorVars
    <3>. QED  BY <1>7, <2>1, <3>2, StaysKeep DEF GetRetry, executorVars
  <2>2. CASE retryQueue # <<>>
    <3>0. PICK c \in Data : c = Head(retryQueue)
      BY <1>0, <2>2
    <3>1. retryQueue' = Tail(retryQueue) /\ Ask("task", c)
      BY <1>7, <2>2, <3>0 DEF GetRetry
    <3>2. /\ c \in Range(retryQueue) /\ Range(retryQueue') = Range(retryQueue) \ {c}
          /\ OneEach(retryQueue')
      BY <1>0, <2>2, <3>0, <3>1, SingleLists
    <3>3. \E to : Moves(c, "retry", to)
      BY <1>7, <3>1, <3>2, AskMoves DEF GetRetry, Placed, Threads, executorVars
    <3>. QED  BY <1>0, <1>7, <3>2, <3>3, MovesKeep DEF GetRetry, PlaceInv, OneEach, executorVars
  <2>. QED  BY <2>1, <2>2
<1>8. CASE RunTask \/ FireComplete
  <2>1. /\ thread'["task"].at \notin {"add", "offer"}
        /\ \A u \in Threads \ {"task"} : thread'[u] = thread[u]
    BY <1>8 DEF RunTask, FireComplete, Goto, TaskTypes, Threads
  <2>2. \A c \in Data : \A p : Placed(p, c)' => Placed(p, c)
    BY <1>8, <2>1 DEF RunTask, FireComplete, Placed, executorVars
  <2>. QED  BY <1>8, <2>2, StaysKeep DEF RunTask, FireComplete, executorVars
<1>9. CASE StopTimer \/ \E d \in Data : Answered(d)
  <2>1. \A c \in Data : \A p : Placed(p, c)' => Placed(p, c)
    BY <1>9 DEF StopTimer, Answered, Placed, executorVars
  <2>. QED  BY <1>9, <2>1, StaysKeep DEF StopTimer, Answered, executorVars
<1>10. ASSUME NEW d \in Data, NEW t \in {"network", "timeout"}, RequestFailed(t, d)
       PROVE  PlaceInv'
  <2>1. /\ thread'[t] = [at |-> "add", on |-> d] /\ t \in Threads
        /\ \A u \in Threads \ {t} : thread'[u] = thread[u]
    BY <1>10, GotoPlace DEF RequestFailed, Threads
  <2>2. Moves(d, "flying", t)
    BY <1>10, <2>1 DEF RequestFailed, Moves, Placed, executorVars, Threads
  <2>. QED  BY <1>0, <1>10, <2>2, MovesKeep DEF RequestFailed, PlaceInv, OneEach, executorVars
<1>11. ASSUME NEW t \in Threads, AddRetry(t) PROVE PlaceInv'
  <2>1. /\ thread'[t].at \in {"fire", "offer"} /\ thread'[t].on = thread[t].on
        /\ \A u \in Threads \ {t} : thread'[u] = thread[u]
    BY <1>11 DEF AddRetry, Goto, TaskTypes
  <2>2. \A c \in Data : \A p : Placed(p, c)' => Placed(p, c)
    BY <1>11, <2>1 DEF AddRetry, Placed, executorVars
  <2>. QED  BY <1>11, <2>2, StaysKeep DEF AddRetry, executorVars
<1>12. ASSUME NEW t \in Threads, OfferRetry(t) PROVE PlaceInv'
  <2>0. PICK d \in Data : d = thread[t].on
    BY <1>12 DEF OfferRetry, TaskTypes, ThreadStates
  <2>1. thread'[t].at = "fire" /\ \A u \in Threads \ {t} : thread'[u] = thread[u]
    BY <1>12, GotoPlace DEF OfferRetry
  <2>2. Placed(t, d) /\ d \notin Range(retryQueue)
    BY <1>12, <2>0 DEF OfferRetry, Placed, PlaceInv, Threads
  <2>3. Range(retryQueue') = Range(retryQueue) \cup {d} /\ OneEach(retryQueue')
    BY <1>0, <1>12, <2>0, <2>2, SingleLists DEF OfferRetry
  <2>4. UNCHANGED <<caller, queue, batch, flying>>
    BY <1>12 DEF OfferRetry, executorVars
  <2>5. ASSUME NEW c, NEW p, Placed(p, c)'
        PROVE  (p = "retry" /\ c = d) \/ (p # t /\ Placed(p, c))
    BY <2>1, <2>3, <2>4, <2>5 DEF Placed, Threads
  <2>6. \A p : Placed(p, d)' => p = "retry" \/ (p # t /\ Placed(p, d))
    BY <2>5
  <2>7. \A c \in Data \ {d} : \A p : Placed(p, c)' => Placed(p, c)
    BY <2>5
  <2>8. Moves(d, t, "retry")
    BY <2>2, <2>6, <2>7 DEF Moves
  <2>. QED  BY <1>0, <1>12, <2>1, <2>3, <2>8, MovesKeep
            DEF OfferRetry, PlaceInv, OneEach, executorVars
<1>13. ASSUME NEW t \in Threads, FireTimeout(t) \/ NewTimeout(t) PROVE PlaceInv'
  <2>1. /\ thread'[t].at \notin {"add", "offer"}
        /\ \A u \in Threads \ {t} : thread'[u] = thread[u]
    BY <1>13, HeardPlace DEF FireTimeout, NewTimeout, Goto, TaskTypes
  <2>2. \A c \in Data : \A p : Placed(p, c)' => Placed(p, c)
    BY <1>13, <2>1 DEF FireTimeout, NewTimeout, Placed, executorVars
  <2>. QED  BY <1>13, <2>2, StaysKeep DEF FireTimeout, NewTimeout, executorVars
<1>. QED
  BY <1>1, <1>2, <1>3, <1>5, <1>6, <1>7, <1>8, <1>9, <1>10, <1>11, <1>12, <1>13
  DEF Next, Worker, ExecuteThread, Task, Hear

-----------------------------------------------------------------------------
\* The steps of the executor alone.
LEMMA ExecutorOthers ==
    ASSUME OtherTypes, UNCHANGED senderVars,
           (\E d \in Data : Execute(d) \/ Offer(d)) \/ ExecuteThread \/ StopExecutor
    PROVE  OtherTypes'
<1>. USE DEF OtherTypes, senderVars, CallerSteps, LoopSteps
<1>1. ASSUME NEW d \in Data, Execute(d) \/ Offer(d) PROVE OtherTypes'
  BY <1>1 DEF Execute, Offer
<1>2. CASE ExecuteThread \/ StopExecutor
  BY <1>2 DEF ExecuteThread, CheckRun, Drain, Poll, FlushQueue, StopExecutor
<1>. QED  BY <1>1, <1>2

\* Every step keeps the other types.
LEMMA OthersStep ==
    ASSUME TaskTypes, OtherTypes, [Next]_vars
    PROVE  OtherTypes'
<1>1. ASSUME NEW t \in Threads, NEW d \in Data, Ask(t, d) PROVE flying' \subseteq Data
  BY <1>1 DEF Ask, OtherTypes
<1>2. CASE SendPacket
  <2>1. Head(batch) \in Data
    BY <1>2 DEF SendPacket, TaskTypes
  <2>. QED  BY <1>1, <1>2, <2>1 DEF SendPacket, OtherTypes, Threads
<1>3. CASE GetRetry
  <2>1. CASE retryQueue = <<>>
    BY <1>3, <2>1 DEF GetRetry, OtherTypes, executorVars
  <2>2. CASE retryQueue # <<>>
    <3>1. Head(retryQueue) \in Data
      BY <2>2 DEF TaskTypes
    <3>2. count' \in [Data -> Nat]
      BY <1>3, <2>2, <3>1 DEF GetRetry, OtherTypes
    <3>. QED  BY <1>1, <1>3, <2>2, <3>1, <3>2 DEF GetRetry, OtherTypes, executorVars, Threads
  <2>. QED  BY <2>1, <2>2
<1>4. CASE \E d \in Data : (Execute(d) \/ Offer(d)) /\ UNCHANGED senderVars
  BY <1>4, ExecutorOthers
<1>5. CASE (ExecuteThread /\ UNCHANGED senderVars) \/ Stop
  BY <1>5, ExecutorOthers DEF Stop
<1>6. CASE RunTask \/ FireComplete \/ StopTimer \/ \E t \in Threads : Hear(t)
  BY <1>6 DEF RunTask, FireComplete, StopTimer, Hear, AddRetry, OfferRetry, FireTimeout,
              NewTimeout, OtherTypes, executorVars
<1>7. CASE \E d \in Data : Answered(d) \/ RequestFailed("network", d) \/ RequestFailed("timeout", d)
  BY <1>7 DEF Answered, RequestFailed, OtherTypes, executorVars
<1>8. CASE UNCHANGED vars
  BY <1>8 DEF vars, executorVars, senderVars, OtherTypes
<1>. QED  BY <1>2, <1>3, <1>4, <1>5, <1>6, <1>7, <1>8 DEF Next, Worker, Task

-----------------------------------------------------------------------------
\* A step that counts nothing and passes nothing on to be offered.
LEMMA CountStays ==
    ASSUME CountInv, UNCHANGED count, \A d \in Data : Retried(d)' => Retried(d)
    PROVE  CountInv'
BY DEF CountInv

\* Only a message that passed RetryQueue's look at its count is counted again, and, being
\* in one place, only once.
LEMMA CountStep ==
    ASSUME TaskTypes, OtherTypes, PlaceInv, CountInv, [Next]_vars
    PROVE  CountInv'
<1>0. retryQueue \in Seq(Data) /\ OneEach(retryQueue) /\ count \in [Data -> Nat]
  BY DEF TaskTypes, OtherTypes, PlaceInv
<1>1. ASSUME UNCHANGED <<count, retryQueue>>,
             \A t \in Threads : thread'[t].at = "offer" => thread'[t] = thread[t]
      PROVE  CountInv'
  <2>1. \A d \in Data : Retried(d)' => Retried(d)
    BY <1>1 DEF Retried
  <2>. QED  BY <1>1, <2>1, CountStays
<1>2. ASSUME UNCHANGED senderVars PROVE CountInv'
  BY <1>1, <1>2 DEF senderVars
<1>3. ASSUME NEW t \in Threads, NEW d \in Data, Ask(t, d) PROVE
        \A u \in Threads : thread'[u].at = "offer" => thread'[u] = thread[u]
  <2>1. thread'[t].at # "offer" /\ \A u \in Threads \ {t} : thread'[u] = thread[u]
    BY <1>3, HeardPlace DEF Ask, Goto, TaskTypes
  <2>. QED  BY <2>1
<1>4. CASE SendPacket
  <2>1. Head(batch) \in Data
    BY <1>4 DEF SendPacket, TaskTypes
  <2>. QED  BY <1>1, <1>3, <1>4, <2>1 DEF SendPacket, Threads
<1>5. CASE GetRetry
  <2>1. CASE retryQueue = <<>>
    <3>1. \A u \in Threads : thread'[u].at = "offer" => thread'[u] = thread[u]
      BY <1>5, <2>1 DEF GetRetry, Goto, TaskTypes
    <3>. QED  BY <1>1, <1>5, <2>1, <3>1 DEF GetRetry
  <2>2. CASE retryQueue # <<>>
    <3>0. PICK c \in Data : c = Head(retryQueue)
      BY <1>0, <2>2
    <3>1. /\ c \in Range(retryQueue)
          /\ retryQueue' = Tail(retryQueue) /\ count' = [count EXCEPT ![c] = @ + 1]
          /\ Ask("task", c) /\ "task" \in Threads
      BY <1>0, <1>5, <2>2, <3>0, SingleLists DEF GetRetry, Threads
    <3>2. Range(retryQueue') = Range(retryQueue) \ {c}
      BY <1>0, <2>2, <3>0, <3>1, SingleLists
    <3>3. \A u \in Threads : thread'[u].at = "offer" => thread'[u] = thread[u]
      BY <1>3, <3>1
    <3>4. \A u \in Threads : thread[u] # [at |-> "offer", on |-> c]
      <4>1. Placed("retry", c) /\ "retry" \notin Threads
        BY <3>1 DEF Placed, Threads
      <4>2. ASSUME NEW u \in Threads, thread[u] = [at |-> "offer", on |-> c] PROVE FALSE
        <5>1. Placed(u, c)
          BY <4>2 DEF Placed
        <5>. QED  BY <3>1, <4>1, <5>1 DEF PlaceInv
      <4>. QED  BY <4>2
    <3>5. \A u \in Threads : [at |-> "offer", on |-> c] # thread'[u]
      BY <3>3, <3>4
    <3>6. ~Retried(c)'
      BY <3>2, <3>5 DEF Retried
    <3>7. ASSUME NEW d \in Data, Retried(d)' PROVE Retried(d)
      <4>1. CASE d \in Range(retryQueue')
        BY <3>2, <4>1 DEF Retried
      <4>2. ASSUME NEW u \in Threads, thread'[u] = [at |-> "offer", on |-> d]
            PROVE  thread[u] = [at |-> "offer", on |-> d]
        BY <3>3, <4>2
      <4>. QED  BY <3>7, <4>1, <4>2 DEF Retried
    <3>8. Retried(c)
      BY <3>1 DEF Retried
    <3>9. count'[c] = count[c] + 1 /\ \A d \in Data \ {c} : count'[d] = count[d]
      BY <1>0, <3>1
    <3>10. count[c] < MaxRetry /\ count[c] \in Nat /\ count'[c] \in Nat /\ count'[c] <= MaxRetry
      BY <3>1, <3>8, <3>9, RetryAssumption DEF CountInv
    <3>11. ASSUME NEW d \in Data, d # c
           PROVE  /\ count'[d] \in Nat /\ (count'[d] <= MaxRetry \/ count'[d] = RetryCount[d])
                  /\ Retried(d)' => count'[d] < MaxRetry
      BY <3>9, <3>7, <3>11 DEF CountInv
    <3>. QED  BY <3>6, <3>10, <3>11 DEF CountInv
  <2>. QED  BY <2>1, <2>2
<1>6. CASE RunTask \/ FireComplete
  <2>1. \A u \in Threads : thread'[u].at = "offer" => thread'[u] = thread[u]
    BY <1>6 DEF RunTask, FireComplete, Goto, TaskTypes
  <2>. QED  BY <1>1, <1>6, <2>1 DEF RunTask, FireComplete
<1>7. CASE StopTimer \/ \E d \in Data : Answered(d)
  BY <1>1, <1>7 DEF StopTimer, Answered
<1>8. ASSUME NEW d \in Data, NEW t \in {"network", "timeout"}, RequestFailed(t, d)
      PROVE  CountInv'
  <2>1. \A u \in Threads : thread'[u].at = "offer" => thread'[u] = thread[u]
    BY <1>8 DEF RequestFailed, Goto, TaskTypes
  <2>. QED  BY <1>1, <1>8, <2>1 DEF RequestFailed
<1>9. ASSUME NEW t \in Threads, AddRetry(t) PROVE CountInv'
  <2>. DEFINE c == thread[t].on
  <2>1. /\ thread'[t] = [at |-> IF Discards(c) THEN "fire" ELSE "offer", on |-> c]
        /\ \A u \in Threads \ {t} : thread'[u] = thread[u]
        /\ UNCHANGED <<count, retryQueue>>
    BY <1>9 DEF AddRetry, Goto, TaskTypes
  <2>2. CASE Discards(c)
    BY <1>1, <2>1, <2>2
  <2>3. CASE ~Discards(c)
    <3>1. c \in Data
      BY <1>9 DEF AddRetry, TaskTypes, ThreadStates
    <3>2. count[c] < MaxRetry
      BY <1>0, <2>3, <3>1, RetryAssumption DEF Discards
    <3>3. ASSUME NEW d \in Data, Retried(d)' PROVE Retried(d) \/ d = c
      BY <2>1, <3>3 DEF Retried
    <3>. HIDE DEF c
    <3>. QED  BY <2>1, <3>2, <3>3 DEF CountInv
  <2>. QED  BY <2>2, <2>3
<1>10. ASSUME NEW t \in Threads, OfferRetry(t) PROVE CountInv'
  <2>0. PICK c \in Data : c = thread[t].on
    BY <1>10 DEF OfferRetry, TaskTypes, ThreadStates
  <2>1. /\ thread'[t].at = "fire"
        /\ \A u \in Threads \ {t} : thread'[u] = thread[u]
        /\ UNCHANGED count /\ retryQueue' = Append(retryQueue, c)
    BY <1>10, <2>0 DEF OfferRetry, Goto, TaskTypes
  <2>2. Range(retryQueue') = Range(retryQueue) \cup {c}
    BY <1>0, <2>1, SingleLists
  <2>3. thread[t] = [at |-> "offer", on |-> c]
    BY <1>10, <2>0 DEF OfferRetry, TaskTypes, ThreadStates
  <2>4. Retried(c)
    BY <2>3 DEF Retried
  <2>5. \A d \in Data : Retried(d)' => Retried(d)
    <3>1. ASSUME NEW d \in Data, NEW u \in Threads, thread'[u] = [at |-> "offer", on |-> d]
          PROVE  thread[u] = [at |-> "offer", on |-> d]
      BY <2>1, <3>1
    <3>. QED  BY <2>2, <2>4, <3>1 DEF Retried
  <2>. QED  BY <2>1, <2>5, CountStays
<1>11. ASSUME NEW t \in Threads, FireTimeout(t) \/ NewTimeout(t) PROVE CountInv'
  <2>1. \A u \in Threads : thread'[u].at = "offer" => thread'[u] = thread[u]
    BY <1>11, HeardPlace DEF FireTimeout, NewTimeout, Goto, TaskTypes
  <2>. QED  BY <1>1, <1>11, <2>1 DEF FireTimeout, NewTimeout
<1>12. CASE UNCHANGED vars
  BY <1>2, <1>12 DEF vars
<1>. QED
  BY <1>2, <1>4, <1>5, <1>6, <1>7, <1>8, <1>9, <1>10, <1>11, <1>12
  DEF Next, Worker, Task, Stop, Hear

-----------------------------------------------------------------------------
\* The sender is type correct, and no request is tried more often than MaxRetry allows,
\* unless it was made with a higher count: for any requests, counts and sizes.
THEOREM SenderTypes == Spec => []TypeOK
<1>1. Init => OtherTypes /\ PlaceInv /\ CountInv
  <2>. SUFFICES ASSUME Init PROVE OtherTypes /\ PlaceInv /\ CountInv
    OBVIOUS
  <2>1. Range(<<>>) = {} /\ OneEach(<<>>)
    BY DEF Range, OneEach
  <2>2. \A t \in Threads : thread[t].at = "idle"
    BY DEF Init, Idle
  <2>3. OtherTypes
    BY RetryAssumption DEF Init, ExecutorInit, OtherTypes, CallerSteps, LoopSteps
  <2>4. \A d \in Data : \A p : Placed(p, d) => p = "caller"
    BY <2>1, <2>2 DEF Init, ExecutorInit, Placed
  <2>5. \A d \in Data : ~Retried(d)
    BY <2>1, <2>2 DEF Init, Retried
  <2>. QED  BY <2>1, <2>3, <2>4, <2>5, RetryAssumption
            DEF Init, ExecutorInit, PlaceInv, CountInv
<1>2. TaskTypes /\ TaskInv /\ OtherTypes /\ PlaceInv /\ CountInv /\ [Next]_vars
        => (TaskTypes /\ TaskInv /\ OtherTypes /\ PlaceInv /\ CountInv)'
  BY NextKeeps, OthersStep, PlaceStep, CountStep
<1>3. ASSUME TaskTypes, OtherTypes, CountInv PROVE TypeOK
  <2>1. ThreadStates \subseteq [at : Steps, on : Data \cup {Nothing}]
    BY DEF ThreadStates, Steps
  <2>. QED  BY <1>3, <2>1 DEF TaskTypes, OtherTypes, CountInv, TypeOK, ExecutorTypeOK
<1>. QED  BY <1>1, <1>2, <1>3, InitTask, PTL DEF Spec
=============================================================================
