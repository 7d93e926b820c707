---------------------- MODULE ActiveThreadCountWorker_proofs ----------------------
(***************************************************************************)
(* Proofs about the streams of a connection and the worker that keeps one  *)
(* open, for any identifiers and any amount of data.  First the types, and *)
(* that a stream that has ended never comes back.  Then every step of the  *)
(* specification is restated by what it changes (Step), and for the opener *)
(* alone (OpenerMove); the invariant WorkerInv is kept part by part, and   *)
(* gives the properties of the worker and of the two ends of a stream.     *)
(***************************************************************************)
EXTENDS ActiveThreadCountWorker, FiniteSetTheorems, TLAPS

(***************************************************************************)
(* Types.                                                                  *)
(***************************************************************************)

\* A busy thread is about a stream.
ThreadsOK == /\ thread \in [Threads -> ThreadStates]
             /\ \A t \in Threads : At(t) # "idle" => On(t) \in Streams

\* Where a thread's records come from.
LEMMA ThreadRecords ==
    /\ \A step \in Steps, id \in Streams :
          /\ StepOn(step, id) \in ThreadStates
          /\ StepOn(step, id).at = step /\ (step # "idle" => StepOn(step, id).id = id)
          /\ StepOn(step, id).then = "idle"
    /\ Idle \in ThreadStates /\ Idle.at = "idle" /\ Idle.then = "idle"
<1>1. Idle \in ThreadStates /\ Idle.at = "idle" /\ Idle.then = "idle"
  BY DEF Idle, ThreadStates, Steps, StateCodes
<1>2. ASSUME NEW step \in Steps, NEW id \in Streams
      PROVE  /\ StepOn(step, id) \in ThreadStates
             /\ StepOn(step, id).at = step /\ (step # "idle" => StepOn(step, id).id = id)
             /\ StepOn(step, id).then = "idle"
  <2>1. CASE step = "idle"
    BY <1>1, <2>1 DEF StepOn
  <2>2. CASE step # "idle"
    <3> DEFINE r == [at |-> step, id |-> id, next |-> "NEW", seen |-> "NEW", then |-> "idle"]
    <3>1. StepOn(step, id) = r
      BY <2>2 DEF StepOn, Idle
    <3>2. r \in ThreadStates
      BY DEF ThreadStates, Steps, StateCodes
    <3> QED BY <3>1, <3>2
  <2> QED BY <2>1, <2>2
<1> QED BY <1>1, <1>2

\* The steps that move a thread leave it on a stream.
LEMMA GotoType ==
    ASSUME ThreadsOK, NEW t \in Threads, NEW step \in Steps, NEW id \in Streams,
           Goto(t, step, id)
    PROVE  ThreadsOK'
<1>1. thread' \in [Threads -> ThreadStates]
  BY ThreadRecords DEF Goto, ThreadsOK
<1>2. ASSUME NEW u \in Threads, thread'[u].at # "idle" PROVE thread'[u].id \in Streams
  BY <1>2, ThreadRecords DEF Goto, ThreadsOK, At, On
<1> QED BY <1>1, <1>2 DEF ThreadsOK, At, On

\* The start of a change keeps the thread on its stream.
LEMMA BeginChangeType ==
    ASSUME ThreadsOK, StreamTypeOK, NEW t \in Threads, NEW id \in Streams,
           NEW next \in StateCodes, NEW then \in Steps, BeginChange(t, id, next, then)
    PROVE  ThreadsOK'
<1>0. state[End(t)][id] \in StateCodes
  BY DEF StreamTypeOK, End, Ends
<1>1. [at |-> "change", id |-> id, next |-> next, seen |-> state[End(t)][id], then |-> then]
        \in ThreadStates
  BY <1>0 DEF ThreadStates, Steps
<1>2. thread' \in [Threads -> ThreadStates]
  BY <1>1 DEF BeginChange, ThreadsOK
<1>3. ASSUME NEW u \in Threads, thread'[u].at # "idle" PROVE thread'[u].id \in Streams
  BY <1>3 DEF BeginChange, ThreadsOK, At, On
<1> QED BY <1>2, <1>3 DEF ThreadsOK, At, On

\* So does the start of a close.
LEMMA BeginCloseType ==
    ASSUME ThreadsOK, StreamTypeOK, NEW t \in Threads, NEW id \in Streams, NEW then \in Steps,
           BeginClose(t, id, then)
    PROVE  ThreadsOK'
BY GotoType, BeginChangeType DEF BeginClose, StateCodes

\* Clearing a context keeps the thread and the map well typed.
LEMMA ClearResourceType ==
    ASSUME ThreadsOK, StreamTypeOK, NEW t \in Threads, NEW id \in Streams, NEW then \in Steps,
           ClearResource(t, id, then)
    PROVE  ThreadsOK' /\ known' \in [Ends -> SUBSET Streams]
<1>1. known' \in [Ends -> SUBSET Streams]
  BY DEF ClearResource, StreamTypeOK, End, Ends
<1> QED BY <1>1, GotoType, BeginCloseType DEF ClearResource

\* Packets are written to and taken from a wire.
LEMMA WriteType ==
    ASSUME StreamTypeOK, NEW e \in Ends, NEW type \in PacketTypes, NEW id \in Streams,
           Write(e, type, id)
    PROVE  wire' \in [Ends -> Seq(Packets)]
<1>1. [type |-> type, id |-> id] \in Packets
  BY DEF Packets
<1>2. wire \in [Ends -> Seq(Packets)]
  BY DEF StreamTypeOK
<1>3. \A d \in Ends : Append(wire[d], [type |-> type, id |-> id]) \in Seq(Packets)
  BY <1>1, <1>2
<1> QED BY <1>2, <1>3 DEF Write

\* A packet that is taken from a wire is about a stream.
LEMMA ReceiveType ==
    ASSUME StreamTypeOK, NEW e \in Ends, NEW t, NEW m \in Arriving(e), Receive(e, t, m)
    PROVE  wire' \in [Ends -> Seq(Packets)] /\ m \in Packets /\ m.id \in Streams
<1>1. wire[e] \in Seq(Packets) /\ wire[e] # <<>>
  BY DEF Arriving, StreamTypeOK
<1>2. Tail(wire[e]) \in Seq(Packets) /\ Head(wire[e]) \in Packets
  BY <1>1
<1> QED BY <1>2 DEF Receive, StreamTypeOK, Packets

\* A compare-and-set.
LEMMA CompareAndSetType ==
    ASSUME ThreadsOK, StreamTypeOK, NEW t \in Threads, CompareAndSet(t)
    PROVE  ThreadsOK' /\ StreamTypeOK'
<1>0. /\ On(t) \in Streams /\ thread[t] \in ThreadStates /\ End(t) \in Ends
      /\ thread[t].id = On(t) /\ thread[t].then \in Steps /\ thread[t].next \in StateCodes
      /\ thread \in [Threads -> ThreadStates]
  BY DEF CompareAndSet, ThreadsOK, At, On, ThreadStates, End, Ends
<1>1. state' \in [Ends -> [Streams -> StateCodes]]
  <2>1. state \in [Ends -> [Streams -> StateCodes]]
    BY DEF StreamTypeOK
  <2>2. \/ state' = state
        \/ state' = [state EXCEPT ![End(t)][thread[t].id] = thread[t].next]
    BY DEF CompareAndSet
  <2> QED BY <1>0, <2>1, <2>2
<1>2. CASE Goto(t, thread[t].then, thread[t].id)
  <2>1. ThreadsOK'
    BY <1>0, <1>2, GotoType
  <2> QED BY <1>1, <2>1 DEF CompareAndSet, StreamTypeOK, ThreadsOK
<1>3. CASE thread' = [thread EXCEPT ![t] = [StepOn("notify", thread[t].id) EXCEPT !.then = thread[t].then]]
  <2> DEFINE r == [StepOn("notify", thread[t].id) EXCEPT !.then = thread[t].then]
  <2>1. r \in ThreadStates /\ r.id = On(t)
    <3>0. StepOn("notify", thread[t].id)
             = [at |-> "notify", id |-> thread[t].id, next |-> "NEW", seen |-> "NEW", then |-> "idle"]
      BY DEF StepOn, Idle
    <3>1. r = [at |-> "notify", id |-> thread[t].id, next |-> "NEW", seen |-> "NEW",
               then |-> thread[t].then]
      BY <3>0
    <3>2. [at |-> "notify", id |-> thread[t].id, next |-> "NEW", seen |-> "NEW",
           then |-> thread[t].then] \in ThreadStates
      BY <1>0 DEF ThreadStates, Steps, StateCodes
    <3> QED BY <1>0, <3>1, <3>2
  <2> HIDE DEF r
  <2>2. thread' = [thread EXCEPT ![t] = r]
    BY <1>3 DEF r
  <2>3. thread' \in [Threads -> ThreadStates]
    BY <1>0, <2>1, <2>2
  <2>4. ASSUME NEW u \in Threads, thread'[u].at # "idle" PROVE thread'[u].id \in Streams
    BY <1>0, <2>1, <2>2, <2>4 DEF ThreadsOK, At, On
  <2>5. ThreadsOK'
    BY <2>3, <2>4 DEF ThreadsOK, At, On
  <2> QED BY <1>1, <2>3, <2>5 DEF CompareAndSet, StreamTypeOK
<1>4. CASE thread' = [thread EXCEPT ![t].next = "ILLEGAL_STATE", ![t].seen = state[End(t)][thread[t].id]]
  <2> DEFINE r == [thread[t] EXCEPT !.next = "ILLEGAL_STATE", !.seen = state[End(t)][thread[t].id]]
  <2>0. state[End(t)][thread[t].id] \in StateCodes
    BY <1>0 DEF StreamTypeOK
  <2>1. r \in ThreadStates /\ r.id = On(t) /\ r.at = thread[t].at
    BY <1>0, <2>0 DEF ThreadStates, StateCodes
  <2>2. thread' = [thread EXCEPT ![t] = r]
    BY <1>0, <1>4
  <2> HIDE DEF r
  <2>3. thread' \in [Threads -> ThreadStates]
    BY <1>0, <2>1, <2>2
  <2>4. ASSUME NEW u \in Threads, thread'[u].at # "idle" PROVE thread'[u].id \in Streams
    BY <1>0, <2>1, <2>2, <2>4 DEF ThreadsOK, At, On
  <2>5. ThreadsOK'
    BY <2>3, <2>4 DEF ThreadsOK, At, On
  <2> QED BY <1>1, <2>3, <2>5 DEF CompareAndSet, StreamTypeOK
<1> QED BY <1>2, <1>3, <1>4 DEF CompareAndSet

\* What the steps of the streams change keeps its type.
LEMMA StreamTypes ==
    ASSUME ThreadsOK, StreamTypeOK, StreamStep
    PROVE  ThreadsOK' /\ StreamTypeOK'
<1>0. /\ Threads = {"caller", "io", "stop", "sio", "app"} /\ Ends = {"opener", "acceptor"}
      /\ \A t \in Threads : At(t) # "idle" => On(t) \in Streams
  BY DEF Threads, Ends, ThreadsOK
<1>k. ASSUME ThreadsOK', UNCHANGED <<state, connected, todo, swept>>,
             known' = known \/ known' \in [Ends -> SUBSET Streams],
             wire' = wire \/ wire' \in [Ends -> Seq(Packets)]
      PROVE  ThreadsOK' /\ StreamTypeOK'
  BY <1>k DEF StreamTypeOK, ThreadsOK
<1>u. ASSUME UNCHANGED thread PROVE ThreadsOK'
  BY <1>u DEF ThreadsOK, At, On
<1>s. Steps = {"idle", "change", "notify", "addReactive", "sendClose", "await", "create",
          "waiting", "forget", "opened", "activate", "failed", "thrown",
          "listener", "success", "sendFail"}
      /\ StateCodes = {"NEW", "OPEN", "CONNECT_AWAIT", "CONNECT_ARRIVED", "CONNECTED",
               "CLOSED", "ILLEGAL_STATE"}
      /\ PacketTypes = {"CREATE", "SUCCESS", "FAIL", "RESPONSE", "CLOSE"}
  BY DEF Steps, StateCodes, PacketTypes
<1>1. CASE OpenAwait
  BY <1>0, <1>1, <1>k, <1>s, BeginChangeType DEF OpenAwait
<1>2. CASE OpenCreate
  <2>1. ThreadsOK'
    BY <1>0, <1>2, <1>s, GotoType DEF OpenCreate
  <2>2. wire' = wire \/ wire' \in [Ends -> Seq(Packets)]
    BY <1>0, <1>2, <1>s, WriteType DEF OpenCreate
  <2> QED BY <1>2, <1>k, <2>1, <2>2 DEF OpenCreate
<1>3. CASE OpenCheck
  <2>1. ThreadsOK'
    BY <1>0, <1>3, <1>s, GotoType, BeginCloseType DEF OpenCheck
  <2> QED BY <1>3, <1>k, <2>1 DEF OpenCheck
<1>4. CASE OpenForget
  <2>1. ThreadsOK'
    BY <1>0, <1>4, <1>s, GotoType DEF OpenForget
  <2>2. known' \in [Ends -> SUBSET Streams]
    BY <1>4 DEF OpenForget, StreamTypeOK
  <2> QED BY <1>4, <1>k, <2>1, <2>2 DEF OpenForget
<1>5. ASSUME NEW m \in Arriving("opener"), ReceiveUnknown(m) PROVE ThreadsOK' /\ StreamTypeOK'
  <2>1. wire' \in [Ends -> Seq(Packets)] /\ m.id \in Streams
    BY <1>0, <1>5, ReceiveType DEF ReceiveUnknown
  <2>2. ThreadsOK'
    BY <1>0, <1>5, <1>s, <2>1, GotoType DEF ReceiveUnknown
  <2> QED BY <1>5, <1>k, <2>1, <2>2 DEF ReceiveUnknown, Receive
<1>6. ASSUME NEW m \in Arriving("opener"), HandleCreateSuccess(m) PROVE ThreadsOK' /\ StreamTypeOK'
  <2>1. wire' \in [Ends -> Seq(Packets)] /\ m.id \in Streams
    BY <1>0, <1>6, ReceiveType DEF HandleCreateSuccess
  <2>2. ThreadsOK'
    BY <1>0, <1>6, <1>s, <2>1, BeginChangeType DEF HandleCreateSuccess
  <2> QED BY <1>6, <1>k, <2>1, <2>2 DEF HandleCreateSuccess, Receive
<1>7. ASSUME NEW m \in Arriving("opener"), HandleCreateFail(m) PROVE ThreadsOK' /\ StreamTypeOK'
  <2>1. wire' \in [Ends -> Seq(Packets)] /\ m.id \in Streams
    BY <1>0, <1>7, ReceiveType DEF HandleCreateFail
  <2>2. ThreadsOK' /\ known' \in [Ends -> SUBSET Streams]
    BY <1>0, <1>7, <1>s, <2>1, ClearResourceType DEF HandleCreateFail
  <2> QED BY <1>7, <1>k, <2>1, <2>2 DEF HandleCreateFail, Receive
<1>8. ASSUME NEW m \in Arriving("opener"), HandleStreamResponse(m) PROVE ThreadsOK' /\ StreamTypeOK'
  <2>1. wire' \in [Ends -> Seq(Packets)] /\ m.id \in Streams
    BY <1>0, <1>8, ReceiveType DEF HandleStreamResponse
  <2>2. ThreadsOK' /\ (known' = known \/ known' \in [Ends -> SUBSET Streams])
    BY <1>0, <1>8, <1>s, <1>u, <2>1, ClearResourceType DEF HandleStreamResponse
  <2> QED BY <1>8, <1>k, <2>1, <2>2 DEF HandleStreamResponse, Receive
<1>9. ASSUME NEW e \in Ends, NEW t \in Threads, NEW m \in Arriving(e), HandleStreamClose(e, t, m)
      PROVE  ThreadsOK' /\ StreamTypeOK'
  <2>1. wire' \in [Ends -> Seq(Packets)] /\ m.id \in Streams
    BY <1>0, <1>9, ReceiveType DEF HandleStreamClose
  <2>2. ThreadsOK' /\ known' \in [Ends -> SUBSET Streams]
    BY <1>0, <1>9, <1>s, <2>1, ClearResourceType DEF HandleStreamClose
  <2> QED BY <1>9, <1>k, <2>1, <2>2 DEF HandleStreamClose, Receive
<1>10. ASSUME NEW t \in Threads, CloseAll(t) PROVE ThreadsOK' /\ StreamTypeOK'
  BY <1>10, <1>u DEF CloseAll, StreamTypeOK, End, Ends
<1>11. ASSUME NEW t \in Threads, NEW id \in Streams, CloseAllNext(t, id)
       PROVE  ThreadsOK' /\ StreamTypeOK'
  <2>1. ThreadsOK' /\ known' \in [Ends -> SUBSET Streams]
    BY <1>0, <1>11, <1>s, ClearResourceType DEF CloseAllNext
  <2>2. todo' \in [Ends -> SUBSET Streams]
    BY <1>11 DEF CloseAllNext, StreamTypeOK, End, Ends
  <2> QED BY <1>11, <2>1, <2>2 DEF CloseAllNext, StreamTypeOK, ThreadsOK
<1>12. ASSUME NEW m \in Arriving("acceptor"), HandleCreate(m) PROVE ThreadsOK' /\ StreamTypeOK'
  <2>1. wire' \in [Ends -> Seq(Packets)] /\ m.id \in Streams
    BY <1>0, <1>12, ReceiveType DEF HandleCreate
  <2>2. ThreadsOK'
    BY <1>0, <1>12, <1>s, <2>1, GotoType DEF HandleCreate
  <2>3. state' \in [Ends -> [Streams -> StateCodes]] /\ known' \in [Ends -> SUBSET Streams]
    BY <1>0, <1>12, <1>s, <2>1 DEF HandleCreate, StreamTypeOK
  <2> QED BY <1>12, <2>1, <2>2, <2>3 DEF HandleCreate, Receive, StreamTypeOK, ThreadsOK
<1>13. ASSUME NEW m \in Arriving("acceptor"), IgnoreClose(m) PROVE ThreadsOK' /\ StreamTypeOK'
  <2>1. wire' \in [Ends -> Seq(Packets)]
    BY <1>0, <1>13, ReceiveType DEF IgnoreClose
  <2> QED BY <1>13, <1>k, <1>u, <2>1 DEF IgnoreClose, Receive
<1>14. ASSUME NEW ok \in BOOLEAN, HandleStreamCreate(ok) PROVE ThreadsOK' /\ StreamTypeOK'
  <2>1. ThreadsOK' /\ (known' = known \/ known' \in [Ends -> SUBSET Streams])
    BY <1>0, <1>14, <1>s, BeginChangeType, ClearResourceType DEF HandleStreamCreate
  <2> QED BY <1>14, <1>k, <2>1 DEF HandleStreamCreate
<1>15. CASE SendCreateSuccess
  <2>1. ThreadsOK'
    BY <1>0, <1>15, <1>s, GotoType DEF SendCreateSuccess
  <2>2. wire' = wire \/ wire' \in [Ends -> Seq(Packets)]
    BY <1>0, <1>15, <1>s, WriteType DEF SendCreateSuccess
  <2> QED BY <1>15, <1>k, <2>1, <2>2 DEF SendCreateSuccess
<1>16. CASE SendCreateFail
  <2>1. ThreadsOK'
    BY <1>0, <1>16, <1>s, GotoType DEF SendCreateFail
  <2>2. wire' \in [Ends -> Seq(Packets)]
    BY <1>0, <1>16, <1>s, WriteType DEF SendCreateFail
  <2> QED BY <1>16, <1>k, <2>1, <2>2 DEF SendCreateFail
<1>17. CASE Disconnect
  <2>1. [e \in Ends |-> <<>>] \in [Ends -> Seq(Packets)]
    OBVIOUS
  <2> QED BY <1>17, <1>u, <2>1 DEF Disconnect, StreamTypeOK
<1>18. ASSUME NEW t \in Threads, SendClose(t) PROVE ThreadsOK' /\ StreamTypeOK'
  <2>1. ThreadsOK'
    BY <1>0, <1>18, <1>s, GotoType DEF SendClose
  <2>2. wire' \in [Ends -> Seq(Packets)]
    BY <1>0, <1>18, <1>s, WriteType DEF SendClose, End
  <2> QED BY <1>18, <1>k, <2>1, <2>2 DEF SendClose
<1>19. ASSUME NEW id \in Streams, SendData(id) PROVE ThreadsOK' /\ StreamTypeOK'
  <2>1. wire' \in [Ends -> Seq(Packets)]
    BY <1>0, <1>19, <1>s, WriteType DEF SendData
  <2> QED BY <1>19, <1>k, <1>u, <2>1 DEF SendData
<1>20. ASSUME NEW id \in Streams, AppClose(id) PROVE ThreadsOK' /\ StreamTypeOK'
  <2>1. ThreadsOK' /\ known' \in [Ends -> SUBSET Streams]
    BY <1>0, <1>20, <1>s, ClearResourceType DEF AppClose, CloseStream
  <2> QED BY <1>20, <1>k, <2>1 DEF AppClose, CloseStream
<1>21. CASE OpenerStep
  BY <1>0, <1>1, <1>2, <1>3, <1>4, <1>5, <1>6, <1>7, <1>8, <1>9, <1>10, <1>11, <1>21 DEF OpenerStep
<1>22. CASE AcceptorStep
  BY <1>0, <1>9, <1>10, <1>11, <1>12, <1>13, <1>14, <1>15, <1>16, <1>22 DEF AcceptorStep
<1>23. ASSUME NEW t \in Threads, ThreadStep(t) PROVE ThreadsOK' /\ StreamTypeOK'
  BY <1>18, <1>23, CompareAndSetType DEF ThreadStep
<1> QED BY <1>17, <1>19, <1>20, <1>21, <1>22, <1>23 DEF StreamStep

\* The worker's and the timer's fields keep their types.
LEMMA TypeStep == TypeOK /\ ThreadsOK /\ [Next]_vars => TypeOK' /\ ThreadsOK'
<1> SUFFICES ASSUME TypeOK, ThreadsOK, [Next]_vars PROVE TypeOK' /\ ThreadsOK'
  OBVIOUS
<1>0. /\ StreamTypeOK /\ Threads = {"caller", "io", "stop", "sio", "app"}
      /\ \A t \in Threads : At(t) # "idle" => On(t) \in Streams
  BY DEF TypeOK, Threads, ThreadsOK
<1>s. Steps = {"idle", "change", "notify", "addReactive", "sendClose", "await", "create",
          "waiting", "forget", "opened", "activate", "failed", "thrown",
          "listener", "success", "sendFail"}
  BY DEF Steps
<1>u. ASSUME UNCHANGED streamVars PROVE StreamTypeOK' /\ ThreadsOK'
  BY <1>0, <1>u DEF streamVars, StreamTypeOK, ThreadsOK, At, On
<1>g. ASSUME ThreadsOK', UNCHANGED <<state, known, wire, connected, todo, swept>>
      PROVE  StreamTypeOK' /\ ThreadsOK'
  BY <1>0, <1>g DEF StreamTypeOK, ThreadsOK
<1>w. ASSUME StreamTypeOK', UNCHANGED workerVars PROVE TypeOK'
  BY <1>w DEF workerVars, TypeOK
<1>r. ASSUME AddReactiveWorker
      PROVE  reactive' \in BOOLEAN /\ timerOn' \in BOOLEAN /\ tasks' \in Nat
  <2>1. tasks' \in Nat
    BY <1>r DEF AddReactiveWorker, TypeOK
  <2>2. reactive' \in BOOLEAN /\ timerOn' \in BOOLEAN
    BY <1>r, Zenon DEF AddReactiveWorker, TypeOK
  <2> QED BY <2>1, <2>2
<1>o. ASSUME NEW id \in Streams, OpenStart(id) PROVE StreamTypeOK' /\ ThreadsOK'
  <2>1. ThreadsOK'
    BY <1>0, <1>o, <1>s, GotoType DEF OpenStart
  <2>2. state' \in [Ends -> [Streams -> StateCodes]] /\ known' \in [Ends -> SUBSET Streams]
    BY <1>0, <1>o DEF OpenStart, StreamTypeOK, StateCodes, Ends
  <2> QED BY <1>0, <1>o, <2>1, <2>2 DEF OpenStart, StreamTypeOK, ThreadsOK
<1>a. ASSUME Active0
      PROVE  /\ StreamTypeOK' /\ ThreadsOK' /\ active' \in BOOLEAN /\ kept' \in BOOLEAN
             /\ reactive' \in BOOLEAN /\ timerOn' \in BOOLEAN /\ tasks' \in Nat
  <2>1. CASE (\E id \in Streams : OpenStart(id)) /\ UNCHANGED <<active, kept, reactive, timerOn, tasks>>
    BY <1>o, <2>1 DEF TypeOK
  <2>2. CASE AddReactiveWorker /\ active' = FALSE /\ kept' = TRUE /\ UNCHANGED streamVars
    BY <1>r, <1>u, <2>2
  <2> QED BY <1>a, <2>1, <2>2 DEF Active0
<1>1. CASE Start
  BY <1>1, <1>a DEF Start, TypeOK
<1>2. CASE Reactive
  BY <1>2, <1>a DEF Reactive, TypeOK
<1>3. CASE Stop
  <2>1. StreamTypeOK' /\ ThreadsOK'
    <3>1. CASE stream # 0
      <4>1. stream \in Streams
        BY <3>1 DEF TypeOK
      <4>2. ThreadsOK' /\ known' \in [Ends -> SUBSET Streams]
        BY <1>0, <1>3, <1>s, <3>1, <4>1, ClearResourceType DEF Stop, CloseHeldStream, CloseStream
      <4> QED BY <1>0, <1>3, <3>1, <4>2 DEF Stop, CloseHeldStream, CloseStream, StreamTypeOK, ThreadsOK
    <3>2. CASE stream = 0
      BY <1>3, <1>u, <3>2 DEF Stop, CloseHeldStream
    <3> QED BY <3>1, <3>2
  <2> QED BY <1>3, <2>1 DEF Stop, TypeOK
<1>4. CASE RunTask
  <2>1. tasks' \in Nat
    BY <1>4 DEF RunTask, TypeOK
  <2> QED BY <1>4, <1>u, <2>1 DEF RunTask, TypeOK
<1>5. CASE TaskCallsWorker
  <2>1. /\ StreamTypeOK' /\ ThreadsOK' /\ active' \in BOOLEAN /\ kept' \in BOOLEAN
        /\ reactive' \in BOOLEAN /\ timerOn' \in BOOLEAN /\ tasks' \in Nat
    <3>1. CASE Active0
      BY <1>a, <3>1
    <3>2. CASE UNCHANGED <<streamVars, started, active, kept, reactive, timerOn, tasks>>
      BY <1>u, <3>2 DEF TypeOK
    <3> QED BY <1>5, <3>1, <3>2 DEF TaskCallsWorker
  <2>2. started' \in BOOLEAN
    BY <1>5 DEF TaskCallsWorker, TypeOK
  <2> QED BY <1>5, <2>1, <2>2 DEF TaskCallsWorker, TypeOK
<1>6. CASE Opened
  <2>1. ThreadsOK' /\ On("caller") \in Streams
    BY <1>0, <1>6, <1>s, GotoType DEF Opened
  <2> QED BY <1>6, <1>g, <2>1 DEF Opened, TypeOK
<1>7. CASE Activate
  <2>1. ThreadsOK'
    BY <1>0, <1>7, <1>s, GotoType DEF Activate
  <2> QED BY <1>7, <1>g, <2>1 DEF Activate, TypeOK
<1>8. CASE Thrown
  <2>1. ThreadsOK' /\ On("caller") \in Streams
    BY <1>0, <1>8, <1>s, GotoType DEF Thrown
  <2> QED BY <1>8, <1>g, <2>1 DEF Thrown, TypeOK
<1>9. CASE ManagerClose
  BY <1>9, <1>u DEF ManagerClose, TypeOK
<1>10. ASSUME NEW t \in Threads, EventPerformed(t) PROVE TypeOK' /\ ThreadsOK'
  <2>0. /\ thread[t] \in ThreadStates /\ thread[t].then \in Steps /\ thread[t].id = On(t)
        /\ On(t) \in Streams /\ thread \in [Threads -> ThreadStates]
    BY <1>0, <1>10 DEF EventPerformed, ThreadsOK, ThreadStates, On
  <2>1. ThreadsOK'
    <3>1. CASE thread' = [thread EXCEPT ![t].at = "addReactive"]
      <4> DEFINE r == [thread[t] EXCEPT !.at = "addReactive"]
      <4>1. r \in ThreadStates /\ r.id = On(t)
        BY <1>s, <2>0 DEF ThreadStates
      <4>2. thread' = [thread EXCEPT ![t] = r]
        BY <2>0, <3>1
      <4> HIDE DEF r
      <4>3. thread' \in [Threads -> ThreadStates]
        BY <2>0, <4>1, <4>2
      <4>4. ASSUME NEW u \in Threads, thread'[u].at # "idle" PROVE thread'[u].id \in Streams
        BY <2>0, <4>1, <4>2, <4>4 DEF ThreadsOK, At, On
      <4> QED BY <4>3, <4>4 DEF ThreadsOK, At, On
    <3>2. CASE Goto(t, thread[t].then, On(t))
      BY <2>0, <3>2, GotoType
    <3> QED BY <1>10, <3>1, <3>2 DEF EventPerformed
  <2> QED BY <1>10, <1>g, <2>1 DEF EventPerformed, TypeOK
<1>11. ASSUME NEW t \in Threads, AddReactive(t) PROVE TypeOK' /\ ThreadsOK'
  <2>0. thread[t].then \in Steps /\ On(t) \in Streams
    BY <1>0, <1>11 DEF AddReactive, ThreadsOK, ThreadStates
  <2>1. ThreadsOK'
    BY <1>11, <2>0, GotoType DEF AddReactive
  <2> QED BY <1>11, <1>g, <1>r, <2>1 DEF AddReactive, TypeOK
<1>12. CASE StreamStep
  BY <1>0, <1>12, <1>w, StreamTypes DEF StreamStep
<1>13. CASE UNCHANGED vars
  BY <1>13, <1>u, <1>w DEF vars
<1> QED BY <1>1, <1>2, <1>3, <1>4, <1>5, <1>6, <1>7, <1>8, <1>9, <1>10, <1>11, <1>12, <1>13
        DEF Next, WorkerStep

\* Where everything starts.
LEMMA InitTypes == Init => TypeOK /\ ThreadsOK
<1> SUFFICES ASSUME Init PROVE TypeOK /\ ThreadsOK
  OBVIOUS
<1>1. ThreadsOK
  BY ThreadRecords DEF Init, StreamInit, ThreadsOK, At
<1>2. [e \in Ends |-> <<>>] \in [Ends -> Seq(Packets)]
  OBVIOUS
<1>3. StreamTypeOK
  BY <1>1, <1>2 DEF Init, StreamInit, StreamTypeOK, StateCodes, ThreadsOK
<1> QED BY <1>1, <1>3 DEF Init, TypeOK

\* Every thread, stream and field keeps its type, for any identifiers and any amount of
\* data on the wires.
THEOREM WorkerTypes == Spec => []TypeOK
BY InitTypes, TypeStep, PTL DEF Spec

(***************************************************************************)
(* A stream that has ended never comes back.                               *)
(***************************************************************************)

\* openStream has not written the CREATE of this stream.
Unsent(id) ==
    \/ state["opener"][id] = "NEW"
    \/ /\ thread["caller"].id = id
       /\ {thread["caller"].at, thread["caller"].then} \cap {"await", "create"} # {}

CreatesIn(packets, id) ==
    {i \in 1 .. Len(packets) : packets[i].type = "CREATE" /\ packets[i].id = id}
Creates(id) == CreatesIn(wire["acceptor"], id)

\* A stream is created once: its CREATE is written once, and until it is received the
\* acceptor's end is NEW.  The acceptor's threads are about streams that are not.
CreateInv ==
    /\ \A id \in Streams :
          /\ \A i, j \in Creates(id) : i = j
          /\ Creates(id) # {} => ~Unsent(id) /\ state["acceptor"][id] = "NEW"
          /\ Unsent(id) => state["acceptor"][id] = "NEW"
          /\ id \in known["acceptor"] \/ id \in todo["acceptor"] => state["acceptor"][id] # "NEW"
    /\ \A t \in {"sio", "app"} : At(t) # "idle" => state["acceptor"][On(t)] # "NEW"

\* Packets that leave the wire, or are no CREATE, make no new one.
NoNewCreate(old, new) ==
    \A id \in Streams :
        /\ CreatesIn(new, id) # {} => CreatesIn(old, id) # {}
        /\ (\A i, j \in CreatesIn(old, id) : i = j) => (\A i, j \in CreatesIn(new, id) : i = j)

\* Packets that leave a wire, and written ones of another type, make no new CREATE.
LEMMA WireShrinks ==
    ASSUME NEW old \in Seq(Packets)
    PROVE  /\ NoNewCreate(old, old) /\ NoNewCreate(old, <<>>)
           /\ \A p \in Packets : p.type # "CREATE" => NoNewCreate(old, Append(old, p))
           /\ old # <<>> => NoNewCreate(old, Tail(old))
<1>1. NoNewCreate(old, old)
  BY DEF NoNewCreate
<1>2. NoNewCreate(old, <<>>)
  <2>1. Len(<<>>) = 0 /\ 1 .. 0 = {}
    OBVIOUS
  <2> QED BY <2>1 DEF NoNewCreate, CreatesIn
<1>3. ASSUME NEW p \in Packets, p.type # "CREATE" PROVE NoNewCreate(old, Append(old, p))
  <2>1. \A id : CreatesIn(Append(old, p), id) = CreatesIn(old, id)
    BY <1>3 DEF CreatesIn
  <2> QED BY <2>1 DEF NoNewCreate
<1>4. ASSUME old # <<>> PROVE NoNewCreate(old, Tail(old))
  <2>1. /\ Len(Tail(old)) = Len(old) - 1 /\ Len(old) \in Nat
        /\ \A i \in 1 .. Len(Tail(old)) : Tail(old)[i] = old[i + 1]
    BY <1>4
  <2>2. ASSUME NEW id, NEW i \in CreatesIn(Tail(old), id)
        PROVE  i + 1 \in CreatesIn(old, id) /\ i \in Nat
    BY <2>1 DEF CreatesIn
  <2>3. ASSUME NEW id \in Streams, \A i, j \in CreatesIn(old, id) : i = j,
               NEW i \in CreatesIn(Tail(old), id), NEW j \in CreatesIn(Tail(old), id)
        PROVE  i = j
    <3>1. i + 1 = j + 1 /\ i \in Nat /\ j \in Nat
      BY <2>2, <2>3
    <3> QED BY <3>1
  <2>4. \A id \in Streams : CreatesIn(Tail(old), id) # {} => CreatesIn(old, id) # {}
    BY <2>2
  <2> QED BY <2>3, <2>4 DEF NoNewCreate
<1> QED BY <1>1, <1>2, <1>3, <1>4

\* The first packet, when it is a CREATE, is the only one of its stream.
LEMMA HeadCreate ==
    ASSUME NEW old \in Seq(Packets), old # <<>>, Head(old).type = "CREATE",
           NEW id, id = Head(old).id, \A i, j \in CreatesIn(old, id) : i = j
    PROVE  CreatesIn(old, id) # {} /\ CreatesIn(Tail(old), id) = {}
<1>1. /\ Len(Tail(old)) = Len(old) - 1 /\ Len(old) \in Nat \ {0} /\ Head(old) = old[1]
      /\ \A i \in 1 .. Len(Tail(old)) : Tail(old)[i] = old[i + 1]
  OBVIOUS
<1>2. 1 \in CreatesIn(old, id)
  BY <1>1 DEF CreatesIn
<1>3. ASSUME NEW i \in CreatesIn(Tail(old), id) PROVE FALSE
  <2>1. i + 1 \in CreatesIn(old, id) /\ i \in 1 .. Len(Tail(old))
    BY <1>1 DEF CreatesIn
  <2> QED BY <1>1, <1>2, <2>1
<1> QED BY <1>2, <1>3

\* A CREATE that is written to a wire without one is the only one.
LEMMA NewCreate ==
    ASSUME NEW old \in Seq(Packets), NEW p \in Packets, p.type = "CREATE"
    PROVE  /\ CreatesIn(old, p.id) = {} =>
                  \A i, j \in CreatesIn(Append(old, p), p.id) : i = j
           /\ \A id : id # p.id => CreatesIn(Append(old, p), id) = CreatesIn(old, id)
<1>1. \A i \in CreatesIn(Append(old, p), p.id) : i \in CreatesIn(old, p.id) \/ i = Len(old) + 1
  BY DEF CreatesIn
<1>2. \A id : id # p.id => CreatesIn(Append(old, p), id) = CreatesIn(old, id)
  BY DEF CreatesIn
<1> QED BY <1>1, <1>2

(***************************************************************************)
(* One thread moves at a time.                                             *)
(***************************************************************************)

\* The thread is about this stream, with this step before it or to come back to.
Lands(t, id, step) ==
    /\ \A u \in Threads \ {t} : thread'[u] = thread[u]
    /\ thread'[t].at # "idle" => thread'[t].id = id
    /\ thread'[t].at \in {step, "change", "notify", "addReactive"}
    /\ thread'[t].then \in {"idle", step}

\* What a move leaves a thread with.
LEMMA Landing ==
    ASSUME ThreadsOK, NEW t \in Threads, NEW id, NEW step
    PROVE  /\ Goto(t, step, id) => Lands(t, id, step)
           /\ \A next : BeginChange(t, id, next, step) => Lands(t, id, step)
           /\ BeginClose(t, id, step) => Lands(t, id, step)
           /\ ClearResource(t, id, step) => Lands(t, id, step)
<1>1. ASSUME Goto(t, step, id) PROVE Lands(t, id, step)
  <2>1. thread'[t] = StepOn(step, id) /\ \A u \in Threads \ {t} : thread'[u] = thread[u]
    BY <1>1 DEF Goto, ThreadsOK
  <2>2. CASE step = "idle"
    BY <2>1, <2>2 DEF StepOn, Idle, Lands
  <2>3. CASE step # "idle"
    <3>1. thread'[t] = [at |-> step, id |-> id, next |-> "NEW", seen |-> "NEW", then |-> "idle"]
      BY <2>1, <2>3 DEF StepOn, Idle
    <3> QED BY <2>1, <3>1 DEF Lands
  <2> QED BY <2>2, <2>3
<1>2. ASSUME NEW next, BeginChange(t, id, next, step) PROVE Lands(t, id, step)
  BY <1>2 DEF BeginChange, ThreadsOK, Lands
<1>3. BeginClose(t, id, step) => Lands(t, id, step)
  BY <1>1, <1>2 DEF BeginClose
<1>4. ClearResource(t, id, step) => Lands(t, id, step)
  BY <1>1, <1>3 DEF ClearResource
<1> QED BY <1>1, <1>2, <1>3, <1>4

\* A compare-and-set and the listener that follows it stay with the stream of the change.
LEMMA ThreadLands ==
    ASSUME ThreadsOK, NEW t \in Threads,
           CompareAndSet(t) \/ EventPerformed(t) \/ AddReactive(t)
    PROVE  Lands(t, thread[t].id, thread[t].then) /\ thread[t].id \in Streams /\ At(t) # "idle"
<1>1. thread \in [Threads -> ThreadStates] /\ thread[t].id \in Streams /\ At(t) # "idle"
  BY DEF ThreadsOK, CompareAndSet, EventPerformed, AddReactive, At, On
<1>2. thread[t] \in ThreadStates
  BY <1>1
<1>3. CASE Goto(t, thread[t].then, thread[t].id)
  BY <1>1, <1>3, Landing
<1>4. CASE thread' = [thread EXCEPT ![t] = [StepOn("notify", thread[t].id) EXCEPT !.then = thread[t].then]]
  <2>1. StepOn("notify", thread[t].id)
           = [at |-> "notify", id |-> thread[t].id, next |-> "NEW", seen |-> "NEW", then |-> "idle"]
    BY DEF StepOn, Idle
  <2>2. [StepOn("notify", thread[t].id) EXCEPT !.then = thread[t].then]
           = [at |-> "notify", id |-> thread[t].id, next |-> "NEW", seen |-> "NEW",
              then |-> thread[t].then]
    BY <2>1
  <2> QED BY <1>1, <1>4, <2>2 DEF Lands
<1>5. CASE thread' = [thread EXCEPT ![t].next = "ILLEGAL_STATE", ![t].seen = state[End(t)][thread[t].id]]
           /\ At(t) = "change"
  <2> DEFINE r == [thread[t] EXCEPT !.next = "ILLEGAL_STATE", !.seen = state[End(t)][thread[t].id]]
  <2>1. r.id = thread[t].id /\ r.at = "change" /\ r.then = thread[t].then
    BY <1>2, <1>5 DEF ThreadStates, At
  <2>2. thread' = [thread EXCEPT ![t] = r]
    BY <1>1, <1>5
  <2> HIDE DEF r
  <2> QED BY <1>1, <2>1, <2>2 DEF Lands
<1>6. CASE thread' = [thread EXCEPT ![t].at = "addReactive"]
  <2> DEFINE r == [thread[t] EXCEPT !.at = "addReactive"]
  <2>1. r.id = thread[t].id /\ r.at = "addReactive" /\ r.then = thread[t].then
    BY <1>2 DEF ThreadStates
  <2>2. thread' = [thread EXCEPT ![t] = r]
    BY <1>1, <1>6
  <2> HIDE DEF r
  <2> QED BY <1>1, <2>1, <2>2 DEF Lands
<1>7. Lands(t, thread[t].id, thread[t].then)
  <2>1. CASE CompareAndSet(t)
    BY <1>3, <1>4, <1>5, <2>1 DEF CompareAndSet
  <2>2. CASE EventPerformed(t)
    BY <1>3, <1>6, <2>2 DEF EventPerformed, On
  <2>3. CASE AddReactive(t)
    BY <1>3, <2>3 DEF AddReactive, On
  <2> QED BY <2>1, <2>2, <2>3
<1> QED BY <1>1, <1>7

\* What most steps do to the invariant.
Moves ==
    /\ NoNewCreate(wire["acceptor"], wire'["acceptor"])
    /\ \A id \in Streams :
          /\ Unsent(id)' => Unsent(id)
          /\ state'["acceptor"][id] = "NEW" <=> state["acceptor"][id] = "NEW"
          /\ id \in known'["acceptor"] \/ id \in todo'["acceptor"]
                => id \in known["acceptor"] \/ id \in todo["acceptor"]
    /\ \A t \in {"sio", "app"} :
          thread'[t].at # "idle" => thread'[t].id \in Streams /\ state["acceptor"][thread'[t].id] # "NEW"

\* Such a step keeps the invariant.
LEMMA MovesKeep ==
    ASSUME CreateInv, Moves
    PROVE  CreateInv'
BY DEF CreateInv, Moves, NoNewCreate, Creates, At, On

\* A stream becomes NEW at neither end.
LEMMA NewOnce ==
    ASSUME ThreadsOK, StreamTypeOK, NEW t \in Threads, CompareAndSet(t), NEW e \in Ends, NEW id \in Streams
    PROVE  /\ state'[e][id] = "NEW" => state[e][id] = "NEW"
           /\ e # End(t) \/ id # thread[t].id => state'[e][id] = state[e][id]
<1>1. \/ state' = state
      \/ /\ CanChange(thread[t].seen, thread[t].next)
         /\ state' = [state EXCEPT ![End(t)][thread[t].id] = thread[t].next]
  BY DEF CompareAndSet, Swaps
<1>2. thread[t].next # "NEW" \/ ~CanChange(thread[t].seen, thread[t].next)
  BY DEF CanChange, ValidBefore
<1>3. state \in [Ends -> [Streams -> StateCodes]]
  BY DEF StreamTypeOK
<1> QED BY <1>1, <1>2, <1>3

\* The acceptor's end as the opener's threads leave it.
AcceptorStill == /\ state'["acceptor"] = state["acceptor"]
                 /\ known'["acceptor"] = known["acceptor"]
                 /\ todo'["acceptor"] = todo["acceptor"]

\* A step of the opener's threads.
LEMMA OpenerMoves ==
    ASSUME ThreadsOK, CreateInv, NEW t \in {"caller", "io", "stop"}, NEW id \in Streams, NEW step,
           Lands(t, id, step), AcceptorStill,
           NoNewCreate(wire["acceptor"], wire'["acceptor"]),
           \A i \in Streams : state'["opener"][i] = "NEW" => state["opener"][i] = "NEW",
           t = "caller" /\ step \in {"await", "create"} => Unsent(id)
    PROVE  Moves
<1>1. /\ thread'["sio"] = thread["sio"] /\ thread'["app"] = thread["app"]
      /\ t # "caller" => thread'["caller"] = thread["caller"]
  BY DEF Lands, Threads
<1>2. ASSUME NEW i \in Streams, Unsent(i)' PROVE Unsent(i)
  <2>1. CASE state'["opener"][i] = "NEW"
    BY <2>1 DEF Unsent
  <2>2. CASE t # "caller"
    BY <1>1, <1>2, <2>2 DEF Unsent
  <2>3. CASE t = "caller" /\ state'["opener"][i] # "NEW"
    <3>1. thread'[t].id = i /\ {thread'[t].at, thread'[t].then} \cap {"await", "create"} # {}
      BY <1>2, <2>3 DEF Unsent
    <3>2. (step \in {"await", "create"} /\ thread'[t].at # "idle") \/ thread'[t].at = "idle"
      BY <3>1 DEF Lands
    <3>3. step \in {"await", "create"} /\ thread'[t].at # "idle"
      BY <3>1, <3>2 DEF Lands
    <3> QED BY <2>3, <3>1, <3>3 DEF Lands
  <2> QED BY <2>1, <2>2, <2>3
<1>3. \A u \in {"sio", "app"} : thread[u].at # "idle" =>
            thread[u].id \in Streams /\ state["acceptor"][thread[u].id] # "NEW"
  BY DEF CreateInv, ThreadsOK, At, On, Threads
<1> QED BY <1>1, <1>2, <1>3 DEF Moves, AcceptorStill

\* A step of the acceptor's threads.
LEMMA AcceptorMoves ==
    ASSUME ThreadsOK, CreateInv, NEW t \in {"sio", "app"}, NEW id \in Streams, NEW step,
           Lands(t, id, step), state'["opener"] = state["opener"],
           state["acceptor"][id] # "NEW",
           NoNewCreate(wire["acceptor"], wire'["acceptor"]),
           \A i \in Streams :
               /\ state'["acceptor"][i] = "NEW" <=> state["acceptor"][i] = "NEW"
               /\ i \in known'["acceptor"] \/ i \in todo'["acceptor"]
                     => i \in known["acceptor"] \/ i \in todo["acceptor"]
    PROVE  Moves
<1>1. /\ \A u \in {"sio", "app"} \ {t} : thread'[u] = thread[u]
      /\ thread'["caller"] = thread["caller"]
      /\ thread'[t].at # "idle" => thread'[t].id = id
  BY DEF Lands, Threads
<1>2. \A i \in Streams : Unsent(i)' => Unsent(i)
  BY <1>1 DEF Unsent
<1>3. \A u \in {"sio", "app"} : thread[u].at # "idle" =>
            thread[u].id \in Streams /\ state["acceptor"][thread[u].id] # "NEW"
  BY DEF CreateInv, ThreadsOK, At, On, Threads
<1> QED BY <1>1, <1>2, <1>3 DEF Moves

\* A step that moves no thread.
LEMMA StillMoves ==
    ASSUME ThreadsOK, CreateInv, UNCHANGED <<thread, state>>,
           NoNewCreate(wire["acceptor"], wire'["acceptor"]),
           \A i \in Streams :
               i \in known'["acceptor"] \/ i \in todo'["acceptor"]
                   => i \in known["acceptor"] \/ i \in todo["acceptor"]
    PROVE  Moves
<1>1. \A i \in Streams : Unsent(i)' => Unsent(i)
  BY DEF Unsent
<1>2. \A u \in {"sio", "app"} : thread[u].at # "idle" =>
            thread[u].id \in Streams /\ state["acceptor"][thread[u].id] # "NEW"
  BY DEF CreateInv, ThreadsOK, At, On, Threads
<1> QED BY <1>1, <1>2 DEF Moves

\* What the acceptor has to read after a step.
LEMMA WireMoves ==
    ASSUME StreamTypeOK
    PROVE  /\ UNCHANGED wire => NoNewCreate(wire["acceptor"], wire'["acceptor"])
           /\ \A id \in Streams : Write("opener", "CLOSE", id)
                 => NoNewCreate(wire["acceptor"], wire'["acceptor"])
           /\ \A type, id : Write("acceptor", type, id)
                 => NoNewCreate(wire["acceptor"], wire'["acceptor"])
           /\ \A t, m : Receive("opener", t, m)
                 => NoNewCreate(wire["acceptor"], wire'["acceptor"])
           /\ \A t : \A m \in Arriving("acceptor") : Receive("acceptor", t, m)
                 => NoNewCreate(wire["acceptor"], wire'["acceptor"])
<1>0. /\ wire \in [Ends -> Seq(Packets)] /\ wire["acceptor"] \in Seq(Packets)
      /\ Ends = {"opener", "acceptor"}
  BY DEF StreamTypeOK, Ends
<1>1. NoNewCreate(wire["acceptor"], wire["acceptor"])
  BY <1>0, WireShrinks
<1>2. UNCHANGED wire => NoNewCreate(wire["acceptor"], wire'["acceptor"])
  BY <1>1
<1>3. ASSUME NEW id \in Streams, Write("opener", "CLOSE", id)
      PROVE  NoNewCreate(wire["acceptor"], wire'["acceptor"])
  <2> DEFINE p == [type |-> "CLOSE", id |-> id]
  <2>1. p \in Packets /\ p.type # "CREATE"
    BY DEF Packets, PacketTypes
  <2>2. CASE connected
    <3>1. wire'["acceptor"] = Append(wire["acceptor"], p)
      BY <1>0, <1>3, <2>2 DEF Write, Peer
    <3> QED BY <1>0, <2>1, <3>1, WireShrinks
  <2>3. CASE ~connected
    BY <1>1, <1>3, <2>3 DEF Write
  <2> QED BY <2>2, <2>3
<1>4. ASSUME NEW type, NEW id, Write("acceptor", type, id)
      PROVE  NoNewCreate(wire["acceptor"], wire'["acceptor"])
  BY <1>0, <1>1, <1>4 DEF Write, Peer
<1>5. ASSUME NEW t, NEW m, Receive("opener", t, m)
      PROVE  NoNewCreate(wire["acceptor"], wire'["acceptor"])
  BY <1>0, <1>1, <1>5 DEF Receive
<1>6. ASSUME NEW t, NEW m \in Arriving("acceptor"), Receive("acceptor", t, m)
      PROVE  NoNewCreate(wire["acceptor"], wire'["acceptor"])
  <2>1. wire["acceptor"] # <<>> /\ wire'["acceptor"] = Tail(wire["acceptor"])
    BY <1>0, <1>6 DEF Receive, Arriving
  <2> QED BY <1>0, <2>1, WireShrinks
<1> QED BY <1>2, <1>3, <1>4, <1>5, <1>6

\* A step of the worker's caller that starts a stream, and the other steps of the opener.
LEMMA OpenerKeeps ==
    ASSUME ThreadsOK, StreamTypeOK, CreateInv, OpenerStep, ~OpenCreate
    PROVE  Moves
<1>0. /\ \A t \in Threads : At(t) # "idle" => On(t) \in Streams
      /\ Threads = {"caller", "io", "stop", "sio", "app"} /\ Ends = {"opener", "acceptor"}
      /\ End("caller") = "opener" /\ End("io") = "opener" /\ End("stop") = "opener"
  BY DEF ThreadsOK, Threads, Ends, End
<1>a. ASSUME UNCHANGED <<state, todo>>,
             \/ UNCHANGED known
             \/ \E id : known' = [known EXCEPT !["opener"] = @ \ {id}]
      PROVE  AcceptorStill /\ \A i \in Streams : state'["opener"][i] = "NEW" => state["opener"][i] = "NEW"
  BY <1>0, <1>a DEF AcceptorStill, StreamTypeOK
<1>c. \A t \in {"caller", "io", "stop"} : \A id, step :
         ClearResource(t, id, step) => \E i : known' = [known EXCEPT !["opener"] = @ \ {i}]
  BY <1>0 DEF ClearResource
<1>1. CASE OpenAwait
  <2>1. On("caller") \in Streams /\ Lands("caller", On("caller"), "create")
    BY <1>0, <1>1, Landing DEF OpenAwait
  <2>2. Unsent(On("caller"))
    BY <1>1 DEF OpenAwait, Unsent, At, On
  <2> QED BY <1>1, <1>a, <2>1, <2>2, OpenerMoves, WireMoves DEF OpenAwait
<1>3. CASE OpenCheck
  <2>1. PICK step \in {"opened", "forget"} : Lands("caller", On("caller"), step)
    BY <1>0, <1>3, Landing DEF OpenCheck
  <2>2. On("caller") \in Streams
    BY <1>0, <1>3 DEF OpenCheck
  <2> QED BY <1>3, <1>a, <2>1, <2>2, OpenerMoves, WireMoves DEF OpenCheck
<1>4. CASE OpenForget
  <2>1. On("caller") \in Streams /\ Lands("caller", On("caller"), "failed")
    BY <1>0, <1>4, Landing DEF OpenForget
  <2> QED BY <1>4, <1>a, <2>1, OpenerMoves, WireMoves DEF OpenForget
<1>5. ASSUME NEW m \in Arriving("opener"),
             \/ ReceiveUnknown(m) \/ HandleCreateSuccess(m) \/ HandleCreateFail(m)
             \/ HandleStreamResponse(m) \/ HandleStreamClose("opener", "io", m)
      PROVE  Moves
  <2>1. \E t : Receive("opener", t, m)
    BY <1>5 DEF ReceiveUnknown, HandleCreateSuccess, HandleCreateFail, HandleStreamResponse,
                HandleStreamClose
  <2>2. m.id \in Streams /\ NoNewCreate(wire["acceptor"], wire'["acceptor"]) /\ UNCHANGED todo
    BY <1>0, <2>1, ReceiveType, WireMoves DEF Receive
  <2>3. UNCHANGED thread \/ \E step : Lands("io", m.id, step)
    BY <1>0, <1>5, <2>2, Landing
       DEF ReceiveUnknown, HandleCreateSuccess, HandleCreateFail, HandleStreamResponse,
           HandleStreamClose
  <2>4. UNCHANGED state /\ (UNCHANGED known \/ \E i : known' = [known EXCEPT !["opener"] = @ \ {i}])
    BY <1>5, <1>c DEF ReceiveUnknown, HandleCreateSuccess, HandleCreateFail,
                      HandleStreamResponse, HandleStreamClose
  <2>5. AcceptorStill /\ \A i \in Streams : state'["opener"][i] = "NEW" => state["opener"][i] = "NEW"
    BY <1>a, <2>2, <2>4
  <2> QED BY <2>2, <2>3, <2>4, <2>5, OpenerMoves, StillMoves DEF AcceptorStill
<1>10. CASE CloseAll("stop")
  <2>1. AcceptorStill /\ UNCHANGED <<thread, wire, state>>
    BY <1>0, <1>10 DEF CloseAll, AcceptorStill, StreamTypeOK
  <2> QED BY <2>1, StillMoves, WireMoves DEF AcceptorStill
<1>11. ASSUME NEW id \in Streams, CloseAllNext("stop", id) PROVE Moves
  <2>1. AcceptorStill /\ UNCHANGED <<wire, state>>
    BY <1>0, <1>11 DEF CloseAllNext, ClearResource, AcceptorStill, StreamTypeOK
  <2>2. Lands("stop", id, "sendClose")
    BY <1>0, <1>11, Landing DEF CloseAllNext
  <2> QED BY <2>1, <2>2, OpenerMoves, WireMoves
<1> QED BY <1>1, <1>3, <1>4, <1>5, <1>10, <1>11 DEF OpenerStep

\* The steps of the acceptor, but for the CREATE it takes from the wire.
LEMMA AcceptorKeeps ==
    ASSUME ThreadsOK, StreamTypeOK, CreateInv,
           \/ AcceptorStep /\ ~(\E m \in Arriving("acceptor") : HandleCreate(m))
           \/ \E id \in Streams : SendData(id) \/ AppClose(id)
           \/ Disconnect
    PROVE  Moves
<1>0. /\ \A t \in Threads : At(t) # "idle" => On(t) \in Streams
      /\ Threads = {"caller", "io", "stop", "sio", "app"} /\ Ends = {"opener", "acceptor"}
      /\ End("sio") = "acceptor" /\ End("app") = "acceptor"
  BY DEF ThreadsOK, Threads, Ends, End
<1>n. /\ \A t \in {"sio", "app"} : At(t) # "idle" => state["acceptor"][On(t)] # "NEW"
      /\ \A id \in Streams : id \in known["acceptor"] \/ id \in todo["acceptor"]
             => state["acceptor"][id] # "NEW"
  BY DEF CreateInv
<1>a. ASSUME UNCHANGED <<state>>,
             UNCHANGED todo \/ \E id : todo' = [todo EXCEPT !["acceptor"] = @ \ {id}],
             \/ UNCHANGED known
             \/ \E id : known' = [known EXCEPT !["acceptor"] = @ \ {id}]
      PROVE  /\ state'["opener"] = state["opener"]
             /\ \A i \in Streams :
                  /\ state'["acceptor"][i] = "NEW" <=> state["acceptor"][i] = "NEW"
                  /\ i \in known'["acceptor"] \/ i \in todo'["acceptor"]
                        => i \in known["acceptor"] \/ i \in todo["acceptor"]
  BY <1>0, <1>a DEF StreamTypeOK
<1>c. \A t \in {"sio", "app"} : \A id, step :
         ClearResource(t, id, step) => \E i : known' = [known EXCEPT !["acceptor"] = @ \ {i}]
  BY <1>0 DEF ClearResource
<1>1. ASSUME NEW m \in Arriving("acceptor"), IgnoreClose(m) PROVE Moves
  BY <1>1, StillMoves, WireMoves DEF IgnoreClose, Receive
<1>2. ASSUME NEW m \in Arriving("acceptor"), HandleStreamClose("acceptor", "sio", m) PROVE Moves
  <2>1. m.id \in Streams /\ NoNewCreate(wire["acceptor"], wire'["acceptor"])
    BY <1>0, <1>2, ReceiveType, WireMoves DEF HandleStreamClose
  <2>2. Lands("sio", m.id, "idle") /\ state["acceptor"][m.id] # "NEW"
    BY <1>0, <1>2, <1>n, <2>1, Landing DEF HandleStreamClose
  <2>3. UNCHANGED <<state, todo>> /\ \E i : known' = [known EXCEPT !["acceptor"] = @ \ {i}]
    BY <1>2, <1>c DEF HandleStreamClose, Receive
  <2> QED BY <1>a, <2>1, <2>2, <2>3, AcceptorMoves
<1>3. ASSUME NEW ok \in BOOLEAN, HandleStreamCreate(ok) PROVE Moves
  <2>1. On("sio") \in Streams /\ state["acceptor"][On("sio")] # "NEW"
    BY <1>0, <1>3, <1>n DEF HandleStreamCreate
  <2>2. \E step : Lands("sio", On("sio"), step)
    BY <1>0, <1>3, Landing DEF HandleStreamCreate
  <2>3. /\ UNCHANGED <<state, todo, wire>>
        /\ UNCHANGED known \/ \E i : known' = [known EXCEPT !["acceptor"] = @ \ {i}]
    BY <1>3, <1>c DEF HandleStreamCreate
  <2> QED BY <1>a, <2>1, <2>2, <2>3, AcceptorMoves, WireMoves
<1>4. CASE SendCreateSuccess \/ SendCreateFail
  <2>1. On("sio") \in Streams /\ state["acceptor"][On("sio")] # "NEW"
    BY <1>0, <1>4, <1>n DEF SendCreateSuccess, SendCreateFail
  <2>2. Lands("sio", On("sio"), "idle")
    BY <1>0, <1>4, Landing DEF SendCreateSuccess, SendCreateFail
  <2>3. UNCHANGED <<state, todo, known>> /\ NoNewCreate(wire["acceptor"], wire'["acceptor"])
    BY <1>4, WireMoves DEF SendCreateSuccess, SendCreateFail
  <2> QED BY <1>a, <2>1, <2>2, <2>3, AcceptorMoves
<1>5. CASE CloseAll("sio")
  <2>1. /\ UNCHANGED <<thread, wire, state, known>>
        /\ todo'["acceptor"] = known["acceptor"]
    BY <1>0, <1>5 DEF CloseAll, StreamTypeOK
  <2> QED BY <2>1, StillMoves, WireMoves
<1>6. ASSUME NEW id \in Streams, CloseAllNext("sio", id) PROVE Moves
  <2>1. Lands("sio", id, "sendClose") /\ state["acceptor"][id] # "NEW"
    BY <1>0, <1>6, <1>n, Landing DEF CloseAllNext
  <2>2. /\ UNCHANGED <<state, wire>> /\ \E i : todo' = [todo EXCEPT !["acceptor"] = @ \ {i}]
        /\ \E i : known' = [known EXCEPT !["acceptor"] = @ \ {i}]
    BY <1>0, <1>6, <1>c DEF CloseAllNext
  <2> QED BY <1>a, <2>1, <2>2, AcceptorMoves, WireMoves
<1>7. ASSUME NEW id \in Streams, SendData(id) PROVE Moves
  BY <1>7, StillMoves, WireMoves DEF SendData
<1>8. ASSUME NEW id \in Streams, AppClose(id) PROVE Moves
  <2>1. Lands("app", id, "sendClose") /\ state["acceptor"][id] # "NEW"
    BY <1>0, <1>8, <1>n, Landing DEF AppClose, CloseStream
  <2>2. UNCHANGED <<state, todo, wire>> /\ \E i : known' = [known EXCEPT !["acceptor"] = @ \ {i}]
    BY <1>8, <1>c DEF AppClose, CloseStream
  <2> QED BY <1>a, <2>1, <2>2, AcceptorMoves, WireMoves
<1>9. CASE Disconnect
  <2>1. wire'["acceptor"] = <<>> /\ wire["acceptor"] \in Seq(Packets)
    BY <1>0, <1>9 DEF Disconnect, StreamTypeOK
  <2>2. NoNewCreate(wire["acceptor"], wire'["acceptor"])
    BY <2>1, WireShrinks
  <2> QED BY <1>9, <2>2, StillMoves DEF Disconnect
<1> QED BY <1>1, <1>2, <1>3, <1>4, <1>5, <1>6, <1>7, <1>8, <1>9 DEF AcceptorStep

\* A thread's change, its listener and the packet after it.
LEMMA ThreadKeeps ==
    ASSUME ThreadsOK, StreamTypeOK, CreateInv, NEW t \in Threads,
           \/ CompareAndSet(t) \/ SendClose(t)
           \/ (EventPerformed(t) \/ AddReactive(t))
    PROVE  Moves
<1>0. /\ On(t) \in Streams /\ On(t) = thread[t].id /\ Ends = {"opener", "acceptor"}
      /\ \/ t \in {"caller", "io", "stop"} /\ End(t) = "opener"
         \/ t \in {"sio", "app"} /\ End(t) = "acceptor" /\ state["acceptor"][On(t)] # "NEW"
  <2>1. At(t) # "idle"
    BY DEF CompareAndSet, SendClose, EventPerformed, AddReactive
  <2>2. On(t) \in Streams /\ On(t) = thread[t].id /\ Ends = {"opener", "acceptor"}
    BY <2>1 DEF ThreadsOK, On, Ends
  <2>3. t \in {"sio", "app"} => state["acceptor"][On(t)] # "NEW"
    BY <2>1 DEF CreateInv
  <2> QED BY <2>2, <2>3 DEF Threads, End
<1>1. \E step : Lands(t, On(t), step) /\ (step \in {thread[t].then, "idle"})
  BY <1>0, ThreadLands, Landing DEF SendClose
<1>2. t = "caller" /\ thread[t].then \in {"await", "create"} => Unsent(On(t))
  BY <1>0 DEF Unsent
<1>3. UNCHANGED <<known, todo>> /\ NoNewCreate(wire["acceptor"], wire'["acceptor"])
  <2>1. CASE SendClose(t)
    BY <1>0, <2>1, WireMoves DEF SendClose
  <2> QED BY <2>1, WireMoves DEF CompareAndSet, EventPerformed, AddReactive, SendClose
<1>4. /\ \A e \in Ends, id \in Streams : state'[e][id] = "NEW" => state[e][id] = "NEW"
      /\ \A e \in Ends : e # End(t) => state'[e] = state[e]
      /\ \A id \in Streams : t \in {"sio", "app"} =>
            (state'["acceptor"][id] = "NEW" <=> state["acceptor"][id] = "NEW")
  <2>1. CASE CompareAndSet(t)
    <3>1. \A e \in Ends : e # End(t) => state'[e] = state[e]
      BY <2>1 DEF CompareAndSet, StreamTypeOK
    <3> QED BY <1>0, <2>1, <3>1, NewOnce
  <2>2. CASE UNCHANGED state
    BY <2>2
  <2> QED BY <2>1, <2>2 DEF SendClose, EventPerformed, AddReactive
<1>5. CASE t \in {"caller", "io", "stop"}
  BY <1>0, <1>1, <1>2, <1>3, <1>4, <1>5, OpenerMoves DEF AcceptorStill
<1>6. CASE t \in {"sio", "app"}
  BY <1>0, <1>1, <1>3, <1>4, <1>6, AcceptorMoves
<1> QED BY <1>5, <1>6 DEF Threads

\* The CREATE of a stream is written when it was not before.
LEMMA CreateIsWritten ==
    ASSUME ThreadsOK, StreamTypeOK, CreateInv, OpenCreate
    PROVE  CreateInv'
<1>p. PICK id \in Streams : id = On("caller")
  BY DEF OpenCreate, ThreadsOK, Threads
<1> DEFINE p == [type |-> "CREATE", id |-> id]
<1>0. /\ id = On("caller") /\ "caller" \in Threads /\ AcceptorStill /\ UNCHANGED state
      /\ wire \in [Ends -> Seq(Packets)] /\ Ends = {"opener", "acceptor"}
  BY <1>p DEF OpenCreate, StreamTypeOK, Threads, Ends, AcceptorStill
<1>1. CASE UNCHANGED wire
  <2>1. \E step : Lands("caller", id, step) /\ step \in {"waiting", "thrown"}
    BY <1>0, Landing DEF OpenCreate
  <2> QED BY <1>0, <1>1, <2>1, OpenerMoves, WireMoves, MovesKeep
<1>2. CASE wire' # wire
  <2>1. /\ wire'["acceptor"] = Append(wire["acceptor"], p) /\ state["opener"][id] = "CONNECT_AWAIT"
        /\ Goto("caller", "waiting", id)
    BY <1>0, <1>2 DEF OpenCreate, Write, Peer
  <2>2. p \in Packets /\ p.type = "CREATE" /\ p.id = id /\ wire["acceptor"] \in Seq(Packets)
    BY <1>0 DEF Packets, PacketTypes
  <2>3. Unsent(id)
    BY <1>0 DEF OpenCreate, Unsent, At, On
  <2>4. Creates(id) = {} /\ state["acceptor"][id] = "NEW"
    BY <1>0, <2>3 DEF CreateInv
  <2>5. Lands("caller", id, "waiting")
    BY <1>0, <2>1, Landing
  <2>6. \A i \in Streams : Unsent(i)' => Unsent(i) /\ i # id
    BY <1>0, <2>1, <2>5 DEF Unsent, Lands
  <2>7. /\ \A i, j \in Creates(id)' : i = j
        /\ \A i \in Streams : i # id => Creates(i)' = Creates(i)
    <3> HIDE DEF p
    <3>1. \A i : Creates(i) = CreatesIn(wire["acceptor"], i)
                /\ Creates(i)' = CreatesIn(Append(wire["acceptor"], p), i)
      BY <2>1 DEF Creates
    <3>2. CreatesIn(wire["acceptor"], p.id) = {}
      BY <2>2, <2>4, <3>1
    <3>3. /\ \A i, j \in CreatesIn(Append(wire["acceptor"], p), p.id) : i = j
          /\ \A i : i # p.id => CreatesIn(Append(wire["acceptor"], p), i) = CreatesIn(wire["acceptor"], i)
      BY <2>2, <3>2, NewCreate
    <3> QED BY <2>2, <3>1, <3>3
  <2>8. thread'["sio"] = thread["sio"] /\ thread'["app"] = thread["app"]
    BY <2>5 DEF Lands, Threads
  <2> HIDE DEF p
  <2>9. ASSUME NEW i \in Streams
        PROVE  /\ \A j, k \in Creates(i)' : j = k
               /\ Creates(i)' # {} => ~Unsent(i)' /\ state'["acceptor"][i] = "NEW"
               /\ Unsent(i)' => state'["acceptor"][i] = "NEW"
               /\ i \in known'["acceptor"] \/ i \in todo'["acceptor"] => state'["acceptor"][i] # "NEW"
    BY <1>0, <2>4, <2>6, <2>7 DEF CreateInv, AcceptorStill
  <2>10. \A t \in {"sio", "app"} : At(t)' # "idle" => state'["acceptor"][On(t)'] # "NEW"
    BY <1>0, <2>8 DEF CreateInv, At, On
  <2> QED BY <2>9, <2>10 DEF CreateInv
<1> QED BY <1>1, <1>2

\* The acceptor makes the stream when it takes its only CREATE.
LEMMA CreateIsTaken ==
    ASSUME ThreadsOK, StreamTypeOK, CreateInv, NEW m \in Arriving("acceptor"), HandleCreate(m)
    PROVE  CreateInv' /\ state["acceptor"][m.id] = "NEW" /\ m.id \in Streams
<1>0. /\ wire \in [Ends -> Seq(Packets)] /\ Ends = {"opener", "acceptor"} /\ wire["acceptor"] # <<>>
      /\ wire["acceptor"] \in Seq(Packets) /\ m = Head(wire["acceptor"]) /\ m.type = "CREATE"
      /\ wire'["acceptor"] = Tail(wire["acceptor"])
  BY DEF HandleCreate, Receive, Arriving, StreamTypeOK, Ends
<1>1. m.id \in Streams /\ NoNewCreate(wire["acceptor"], wire'["acceptor"])
  BY <1>0, ReceiveType, WireMoves DEF HandleCreate
<1>2. Creates(m.id) # {} /\ Creates(m.id)' = {}
  BY <1>0, <1>1, HeadCreate DEF CreateInv, Creates
<1>3. state["acceptor"][m.id] = "NEW" /\ ~Unsent(m.id)
  BY <1>1, <1>2 DEF CreateInv
<1>4. /\ state'["opener"] = state["opener"] /\ state'["acceptor"][m.id] = "CONNECT_ARRIVED"
      /\ \A i \in Streams \ {m.id} : state'["acceptor"][i] = state["acceptor"][i]
      /\ known'["acceptor"] = known["acceptor"] \cup {m.id} /\ todo' = todo
  BY <1>0, <1>1 DEF HandleCreate, Receive, StreamTypeOK
<1>5. Lands("sio", m.id, "listener")
  BY Landing DEF HandleCreate, Threads
<1>6. \A i \in Streams : Unsent(i)' <=> Unsent(i)
  BY <1>4, <1>5 DEF Unsent, Lands, Threads
<1>7. ASSUME NEW i \in Streams
      PROVE  /\ \A j, k \in Creates(i)' : j = k
             /\ Creates(i)' # {} => ~Unsent(i)' /\ state'["acceptor"][i] = "NEW"
             /\ Unsent(i)' => state'["acceptor"][i] = "NEW"
             /\ i \in known'["acceptor"] \/ i \in todo'["acceptor"] => state'["acceptor"][i] # "NEW"
  <2>1. CASE i = m.id
    BY <1>2, <1>3, <1>4, <1>6, <2>1
  <2>2. CASE i # m.id
    BY <1>1, <1>4, <1>6, <2>2 DEF CreateInv, NoNewCreate, Creates
  <2> QED BY <2>1, <2>2
<1>8. \A t \in {"sio", "app"} : At(t)' # "idle" => state'["acceptor"][On(t)'] # "NEW"
  <2>1. At("sio")' # "idle" => On("sio")' = m.id
    BY <1>5 DEF Lands, At, On
  <2>2. thread'["app"] = thread["app"]
    BY <1>5 DEF Lands, Threads
  <2>3. thread["app"].at # "idle" => thread["app"].id \in Streams /\ state["acceptor"][thread["app"].id] # "NEW"
    BY DEF CreateInv, ThreadsOK, At, On, Threads
  <2> QED BY <1>4, <2>1, <2>2, <2>3 DEF At, On
<1> QED BY <1>1, <1>3, <1>7, <1>8 DEF CreateInv

\* What the worker and its timer do.
LEMMA WorkerKeeps ==
    ASSUME ThreadsOK, TypeOK, CreateInv, Start \/ Reactive \/ Stop \/ WorkerStep
    PROVE  Moves
<1>0. /\ \A t \in Threads : At(t) # "idle" => On(t) \in Streams
      /\ "caller" \in Threads /\ Ends = {"opener", "acceptor"} /\ End("caller") = "opener"
      /\ StreamTypeOK
  BY DEF ThreadsOK, Threads, Ends, End, TypeOK
<1>s. ASSUME UNCHANGED streamVars PROVE Moves
  BY <1>0, <1>s, StillMoves, WireMoves DEF streamVars
<1>1. ASSUME NEW id \in Streams, OpenStart(id) PROVE Moves
  <2>1. Lands("caller", id, "await") /\ Unsent(id)
    BY <1>0, <1>1, Landing DEF OpenStart, NextId, Unsent
  <2>2. AcceptorStill /\ NoNewCreate(wire["acceptor"], wire'["acceptor"])
    BY <1>0, <1>1, WireMoves DEF OpenStart, AcceptorStill, StreamTypeOK
  <2>3. \A i \in Streams : state'["opener"][i] = "NEW" => state["opener"][i] = "NEW"
    BY <1>0, <1>1 DEF OpenStart, StreamTypeOK
  <2> QED BY <2>1, <2>2, <2>3, OpenerMoves
<1>2. ASSUME Active0 PROVE Moves
  BY <1>1, <1>2, <1>s DEF Active0
<1>3. CASE Stop
  <2>1. CASE stream # 0
    <3>1. stream \in Streams /\ Lands("caller", stream, "sendClose")
      BY <1>0, <1>3, <2>1, Landing DEF Stop, CloseHeldStream, CloseStream, TypeOK
    <3>2. AcceptorStill /\ UNCHANGED <<wire, state>>
      BY <1>0, <1>3, <2>1 DEF Stop, CloseHeldStream, CloseStream, ClearResource, AcceptorStill,
                              StreamTypeOK
    <3> QED BY <1>0, <3>1, <3>2, OpenerMoves, WireMoves
  <2>2. CASE stream = 0
    BY <1>3, <1>s, <2>2 DEF Stop, CloseHeldStream
  <2> QED BY <2>1, <2>2
<1>4. CASE RunTask \/ ManagerClose
  BY <1>4, <1>s DEF RunTask, ManagerClose
<1>5. CASE TaskCallsWorker
  BY <1>2, <1>5, <1>s DEF TaskCallsWorker
<1>6. CASE Opened \/ Activate \/ Thrown
  <2>1. /\ AcceptorStill /\ NoNewCreate(wire["acceptor"], wire'["acceptor"]) /\ UNCHANGED state
        /\ On("caller") \in Streams
    BY <1>0, <1>6, WireMoves DEF Opened, Activate, Thrown, AcceptorStill
  <2>2. \E step \in {"activate", "idle"} : Lands("caller", On("caller"), step)
    BY <1>0, <1>6, Landing DEF Opened, Activate, Thrown
  <2> QED BY <2>1, <2>2, OpenerMoves
<1>7. ASSUME NEW t \in Threads, EventPerformed(t) \/ AddReactive(t) PROVE Moves
  BY <1>0, <1>7, ThreadKeeps
<1> QED BY <1>2, <1>3, <1>4, <1>5, <1>6, <1>7 DEF WorkerStep, Start, Reactive

\* A stream is created once, whatever the threads do.
LEMMA CreateStep ==
    ASSUME ThreadsOK, TypeOK, CreateInv, [Next]_vars
    PROVE  CreateInv'
<1>0. StreamTypeOK
  BY DEF TypeOK
<1>1. CASE Start \/ Reactive \/ Stop \/ WorkerStep
  BY <1>1, WorkerKeeps, MovesKeep
<1>2. CASE OpenCreate
  BY <1>0, <1>2, CreateIsWritten
<1>3. CASE OpenerStep /\ ~OpenCreate
  BY <1>0, <1>3, OpenerKeeps, MovesKeep
<1>4. ASSUME NEW m \in Arriving("acceptor"), HandleCreate(m) PROVE CreateInv'
  BY <1>0, <1>4, CreateIsTaken
<1>5. CASE AcceptorStep /\ ~(\E m \in Arriving("acceptor") : HandleCreate(m))
  BY <1>0, <1>5, AcceptorKeeps, MovesKeep
<1>6. CASE Disconnect \/ \E id \in Streams : SendData(id) \/ AppClose(id)
  BY <1>0, <1>6, AcceptorKeeps, MovesKeep
<1>7. ASSUME NEW t \in Threads, ThreadStep(t) PROVE CreateInv'
  BY <1>0, <1>7, ThreadKeeps, MovesKeep DEF ThreadStep
<1>8. CASE UNCHANGED vars
  BY <1>0, <1>8, StillMoves, WireMoves, MovesKeep DEF vars, streamVars
<1> QED BY <1>1, <1>2, <1>3, <1>4, <1>5, <1>6, <1>7, <1>8 DEF Next, StreamStep

(***************************************************************************)
(* What has ended stays so.                                                *)
(***************************************************************************)

NoRevival == \A e \in Ends, id \in Streams : state[e][id] \in Ended => state'[e][id] \in Ended

\* The states from which a change is accepted are never left behind: a change out of an
\* ended state leads to ILLEGAL_STATE only.
LEMMA EndedStays ==
    ASSUME ThreadsOK, TypeOK, CreateInv, [Next]_vars
    PROVE  NoRevival
<1>0. /\ state \in [Ends -> [Streams -> StateCodes]] /\ Ends = {"opener", "acceptor"}
      /\ "ILLEGAL_STATE" \in Ended /\ "NEW" \notin Ended
  BY DEF TypeOK, StreamTypeOK, Ends, Ended
<1>u. ASSUME UNCHANGED state PROVE NoRevival
  BY <1>u DEF NoRevival
<1>1. ASSUME NEW t \in Threads, CompareAndSet(t) PROVE NoRevival
  <2>1. \/ UNCHANGED state
        \/ /\ state' = [state EXCEPT ![End(t)][thread[t].id] = thread[t].next]
           /\ CanChange(thread[t].seen, thread[t].next)
           /\ state[End(t)][thread[t].id] = thread[t].seen
    BY <1>1 DEF CompareAndSet, Swaps
  <2>2. \A seen \in Ended : \A next : CanChange(seen, next) => next \in Ended
    BY DEF CanChange, ValidBefore, Ended
  <2> QED BY <1>0, <2>1, <2>2 DEF NoRevival
<1>2. ASSUME NEW id \in Streams, OpenStart(id) PROVE NoRevival
  BY <1>0, <1>2 DEF OpenStart, NextId, NoRevival
<1>3. ASSUME NEW m \in Arriving("acceptor"), HandleCreate(m) PROVE NoRevival
  <2>1. state["acceptor"][m.id] = "NEW"
    BY <1>3, CreateIsTaken DEF TypeOK
  <2> QED BY <1>0, <1>3, <2>1 DEF HandleCreate, NoRevival
<1>4. ASSUME Active0 PROVE NoRevival
  BY <1>2, <1>4, <1>u DEF Active0, streamVars
<1>5. CASE Start \/ Reactive \/ Stop
  BY <1>4, <1>5, <1>u DEF Start, Reactive, Stop, CloseHeldStream, CloseStream, streamVars
<1>6. CASE WorkerStep
  BY <1>4, <1>6, <1>u DEF WorkerStep, RunTask, TaskCallsWorker, Opened, Activate, Thrown,
       ManagerClose, EventPerformed, AddReactive, streamVars
<1>7. CASE OpenerStep
  BY <1>7, <1>u DEF OpenerStep, OpenAwait, OpenCreate, OpenCheck, OpenForget, ReceiveUnknown,
       HandleCreateSuccess, HandleCreateFail, HandleStreamResponse, HandleStreamClose, CloseAll,
       CloseAllNext
<1>8. CASE AcceptorStep
  BY <1>3, <1>8, <1>u DEF AcceptorStep, IgnoreClose, HandleStreamClose, HandleStreamCreate,
       SendCreateSuccess, SendCreateFail, CloseAll, CloseAllNext
<1>9. ASSUME NEW t \in Threads, ThreadStep(t) PROVE NoRevival
  BY <1>1, <1>9, <1>u DEF ThreadStep, SendClose
<1>10. CASE Disconnect \/ (\E id \in Streams : SendData(id) \/ AppClose(id)) \/ UNCHANGED vars
  BY <1>10, <1>u DEF Disconnect, SendData, AppClose, CloseStream, vars, streamVars
<1> QED BY <1>5, <1>6, <1>7, <1>8, <1>9, <1>10 DEF Next, StreamStep

\* At first no stream has been created.
LEMMA InitCreates ==
    ASSUME Init
    PROVE  TypeOK /\ ThreadsOK /\ CreateInv
<1>1. ThreadsOK /\ TypeOK
  BY InitTypes
<1>2. Len(<<>>) = 0 /\ 1 .. 0 = {}
  OBVIOUS
<1>3. /\ \A id : Creates(id) = {}
      /\ \A id \in Streams : /\ state["acceptor"][id] = "NEW"
                              /\ id \notin known["acceptor"] /\ id \notin todo["acceptor"]
      /\ \A t \in {"sio", "app"} : At(t) = "idle"
  BY <1>2 DEF Init, StreamInit, Creates, CreatesIn, Ends, Threads, At, Idle
<1>. QED  BY <1>1, <1>3 DEF CreateInv

\* A stream that has ended never comes back, at either end, for any number of streams and
\* any amount of data: neither a change that was begun before the end, nor a late
\* create-success, nor a second CREATE can revive it.
THEOREM StreamsStayEnded == Spec => NeverRevived
<1>1. Init => TypeOK /\ ThreadsOK /\ CreateInv
  BY InitCreates
<1>2. TypeOK /\ ThreadsOK /\ CreateInv /\ [Next]_vars => (TypeOK /\ ThreadsOK /\ CreateInv)'
  BY TypeStep, CreateStep
<1>3. TypeOK /\ ThreadsOK /\ CreateInv /\ [Next]_vars
        => [\A e \in Ends, id \in Streams : state[e][id] \in Ended => state'[e][id] \in Ended]_vars
  BY EndedStays DEF NoRevival
<1>. QED  BY <1>1, <1>2, <1>3, PTL DEF Spec, NeverRevived

(***************************************************************************)
(* The opener's end: what its threads are about, and what becomes of its   *)
(* streams.                                                                *)
(***************************************************************************)

OpenerThreads == {"caller", "io", "stop"}
Doing(t) == {thread[t].at, thread[t].then}
Changes(t) == At(t) \in {"change", "notify", "addReactive"}
Status(id) == state["opener"][id]
Alive(id)  == Status(id) \notin Ended \cup {"NEW"}

\* The caller is in openStream, or on its way back from it.
Opens(id) == At("caller") # "idle" /\ ~stopped /\ On("caller") = id
\* The caller has given the stream up and takes its context out of the map.
Forgets(id) == On("caller") = id /\ "forget" \in Doing("caller")
\* The stream ends with the compare-and-set of this thread.
ClosesIt(t, id) == At(t) = "change" /\ On(t) = id /\ thread[t].next \in Ended
Closing(id) == \E t \in OpenerThreads : ClosesIt(t, id)

\* What each thread may be in the middle of.
CallerInv ==
    /\ At("caller") \in {"idle", "await", "change", "notify", "addReactive", "create", "waiting",
                         "forget", "opened", "activate", "failed", "thrown", "sendClose"}
    /\ stopped /\ At("caller") # "idle" =>
           /\ At("caller") = "sendClose" \/ (Changes("caller") /\ thread["caller"].then = "sendClose")
           /\ At("caller") = "change" => thread["caller"].next \in Ended
    /\ ~stopped /\ At("caller") # "idle" =>
           /\ started /\ ~active
           /\ At("caller") # "sendClose"
           /\ Changes("caller") => thread["caller"].then \in {"create", "forget"}
           /\ At("caller") = "change" => \/ thread["caller"].next \in Ended
                                         \/ thread["caller"].next = "CONNECT_AWAIT"
                                            /\ thread["caller"].then = "create"
    /\ Changes("caller") \/ thread["caller"].then = "idle"
    /\ active => started
NetworkInv ==
    /\ At("io") \in {"idle", "change", "notify", "addReactive", "sendClose"}
    /\ thread["io"].then \in {"idle", "sendClose"}
    /\ At("io") = "change" => \/ thread["io"].next \in Ended
                              \/ thread["io"].next = "CONNECTED" /\ thread["io"].then = "idle"
    /\ Changes("io") \/ thread["io"].then = "idle"
    /\ At("stop") \in {"idle", "change", "notify", "addReactive", "sendClose"}
    /\ At("stop") # "idle" => ~connected
    /\ Changes("stop") => thread["stop"].then = "sendClose"
    /\ At("stop") = "change" => thread["stop"].next \in Ended
    /\ Changes("stop") \/ thread["stop"].then = "idle"
    /\ todo["opener"] # {} => ~connected

\* How far the stream is that the caller opens, and the one it has opened.
StatusInv ==
    LET c == thread["caller"]  s == Status(On("caller")) IN
    /\ \A t \in OpenerThreads : At(t) \in {"notify", "addReactive"} => Status(On(t)) \in Ended
    /\ At("caller") = "await" => s \in Ended \cup {"OPEN"}
    /\ At("caller") = "change" /\ c.then = "create" =>
           s \in Ended \/ (c.next = "CONNECT_AWAIT" /\ c.seen = "OPEN" /\ s = "OPEN")
    /\ At("caller") = "create" => s \in Ended \cup {"CONNECT_AWAIT"}
    /\ At("caller") = "waiting" => s \notin {"NEW", "OPEN"}
    /\ At("caller") = "change" /\ c.then = "forget" => s \notin {"NEW", "OPEN"}
    /\ At("caller") \in {"opened", "activate"} => s \in Ended \cup {"CONNECTED"}
    /\ At("caller") = "activate" => stream = On("caller")
    /\ At("caller") \in {"forget", "failed", "thrown"} => s \in Ended
    /\ stream # 0 => Status(stream) \in Ended \cup {"CONNECTED"}
    /\ \A id \in Streams : Status(id) # "CONNECT_ARRIVED"
    /\ \A id \in Streams : Status(id) = "OPEN" =>
           /\ Opens(id)
           /\ At("caller") = "await" \/ (At("caller") = "change" /\ c.next = "CONNECT_AWAIT")

\* Where the packets of a stream are on a wire.
PositionsOf(packets, type, id) ==
    {i \in 1 .. Len(packets) : packets[i].type = type /\ packets[i].id = id}
PacketsOf(e, type, id) == PositionsOf(wire[e], type, id)

\* A packet and the thread that handles it are about a stream the acceptor knows.
PacketsInv ==
    /\ \A type \in PacketTypes, id \in Streams :
          PacketsOf("opener", type, id) # {} => state["acceptor"][id] # "NEW"
    /\ At("io") # "idle" => state["acceptor"][On("io")] # "NEW"

\* A context is in the map as long as its stream is open, or until the caller forgets it.
KnownInv ==
    /\ \A id \in known["opener"] \cup todo["opener"] : Status(id) # "NEW"
    /\ \A id \in known["opener"] : Status(id) \in Ended \/ Closing(id) => Forgets(id)

\* A create-success finds its stream waiting, unless it is being closed.
SuccessInv ==
    At("io") = "change" /\ thread["io"].next = "CONNECTED" =>
        \/ thread["io"].seen = "CONNECT_AWAIT" /\ Status(On("io")) = "CONNECT_AWAIT"
        \/ On("io") \notin known["opener"]
        \/ Forgets(On("io"))

\* A stream that has not ended is being opened, is the one the worker holds, or is being
\* closed; no thread is about to tell the end of another one to the worker that holds it.
Spared(t, id) == At(t) \in {"change", "notify"} /\ On(t) # id =>
                     Closing(id) \/ (t = "io" /\ Status(id) # "CONNECTED")
Kept(id) == /\ Opens(id) \/ (stream = id /\ active /\ ~stopped) \/ Closing(id)
            /\ id \in known["opener"] \/ Closing(id)
            /\ Spared("io", id) /\ Spared("stop", id)
AliveInv == \A id \in Streams : Alive(id) => Kept(id)

\* One task for the timer while an agent waits.
TimerInv ==
    ~stopped => /\ ~managerStopped
                /\ tasks = IF timerOn THEN 1 ELSE 0
                /\ reactive => timerOn

\* Somebody will put the agent down for the timer.
WillAdd(t) == At(t) \in {"notify", "addReactive"}

\* A worker without a stream is being opened, or waits, or will be made to wait.
RetryInv ==
    ~stopped =>
        /\ At("caller") # "idle" /\ Status(On("caller")) \in Ended =>
               due \/ reactive \/ \E t \in OpenerThreads : WillAdd(t) /\ On(t) = On("caller")
        /\ (started \/ dropped # {}) /\ ~active /\ At("caller") = "idle" =>
               due \/ reactive \/ \E t \in OpenerThreads : WillAdd(t) /\ (started \/ On(t) \in dropped)

(***************************************************************************)
(* Both ends.                                                              *)
(***************************************************************************)

AcceptorInv ==
    /\ At("sio") \in {"idle", "change", "sendClose", "listener", "success", "sendFail"}
    /\ At("sio") = "change" =>
           \/ thread["sio"].then = "success" /\ thread["sio"].next \in {"CONNECTED", "ILLEGAL_STATE"}
           \/ thread["sio"].then \in {"idle", "sendFail", "sendClose"} /\ thread["sio"].next \in Ended
    /\ "sendClose" \in Doing("sio") => ~connected
    /\ At("app") \in {"idle", "change", "sendClose"}
    /\ At("app") = "change" => thread["app"].then = "sendClose" /\ thread["app"].next \in Ended
    /\ \A t \in {"sio", "app"} : At(t) = "change" \/ thread[t].then = "idle"
    /\ todo["acceptor"] # {} => ~connected

\* How far the create of a stream has come: it is in one place.  (At first it is Unsent.)
InCreate(id)  == PacketsOf("acceptor", "CREATE", id) # {}
InSio(id)     == On("sio") = id /\ Doing("sio") \cap {"listener", "success", "sendFail"} # {}
InSuccess(id) == PacketsOf("opener", "SUCCESS", id) # {}
InIo(id)      == At("io") = "change" /\ thread["io"].next = "CONNECTED" /\ On("io") = id
InState(id)   == Status(id) = "CONNECTED"

TokenInv ==
    \A id \in Streams :
        /\ Unsent(id)    => ~InCreate(id) /\ ~InSio(id) /\ ~InSuccess(id) /\ ~InIo(id) /\ ~InState(id)
        /\ InCreate(id)  => ~InSio(id) /\ ~InSuccess(id) /\ ~InIo(id) /\ ~InState(id)
        /\ InSio(id)     => ~InSuccess(id) /\ ~InIo(id) /\ ~InState(id)
        /\ InSuccess(id) => ~InIo(id) /\ ~InState(id)
        /\ InIo(id)      => ~InState(id)
        /\ \A i, j \in PacketsOf("opener", "SUCCESS", id) : i = j

Ending(id) == Status(id) \in Ended \/ Closing(id)

\* CLOSE goes to the acceptor for a stream that ends, and makes it end there.
CloseInv ==
    /\ \A t \in OpenerThreads : "sendClose" \in Doing(t) => Ending(On(t))
    /\ \A id \in Streams : PacketsOf("acceptor", "CLOSE", id) # {} => Ending(id)
    /\ At("sio") = "change" /\ thread["sio"].then = "idle" => Ending(On("sio"))

\* A stream the opener has, or is about to have, connected is connected for the acceptor,
\* or its end is under way.
PairInv ==
    \A id \in Streams :
        connected /\ (InSuccess(id) \/ InIo(id) \/ InState(id)) =>
            \/ state["acceptor"][id] = "CONNECTED"
            \/ Ending(id)
            \/ PacketsOf("opener", "CLOSE", id) # {}
            \/ On("app") = id /\ "sendClose" \in Doing("app")


(***************************************************************************)
(* What a step does to the threads and to the opener's end.                *)
(***************************************************************************)

\* The thread goes on to a step, all others stay where they are.
Goes(t, step, id) ==
    /\ \A u \in Threads \ {t} : thread'[u] = thread[u]
    /\ thread'[t].at = step /\ thread'[t].then = "idle"
    /\ step # "idle" => thread'[t].id = id

\* The thread has read the state and will set it.
Begins(t, id, next, then) ==
    /\ \A u \in Threads \ {t} : thread'[u] = thread[u]
    /\ thread'[t].at = "change" /\ thread'[t].id = id /\ thread'[t].next = next
    /\ thread'[t].seen = state[End(t)][id] /\ thread'[t].then = then

\* The thread has taken the context out of the map, and closes the stream if it was there.
Clears(t, id, then) ==
    /\ known'[End(t)] = known[End(t)] \ {id}
    /\ known'[Peer(End(t))] = known[Peer(End(t))]
    /\ \/ Goes(t, then, id) /\ (id \notin known[End(t)] \/ state[End(t)][id] = "CLOSED")
       \/ Begins(t, id, "CLOSED", then) /\ id \in known[End(t)]

\* A compare-and-set by thread t, on this end.
Swapped(t) ==
    LET e == End(t)  c == thread[t] IN
    /\ At(t) = "change"
    /\ \A u \in Threads \ {t} : thread'[u] = thread[u]
    /\ state'[Peer(e)] = state[Peer(e)]
    /\ \/ /\ CanChange(c.seen, c.next) /\ state[e][c.id] = c.seen
          /\ state'[e] = [state[e] EXCEPT ![c.id] = c.next]
          /\ IF e = "opener" /\ c.next \in Ended
             THEN thread'[t].at = "notify" /\ thread'[t].id = c.id /\ thread'[t].then = c.then
             ELSE Goes(t, c.then, c.id)
       \/ /\ ~(CanChange(c.seen, c.next) /\ state[e][c.id] = c.seen)
          /\ state[e][c.id] # "ILLEGAL_STATE" /\ state'[e] = state[e]
          /\ thread'[t].at = "change" /\ thread'[t].id = c.id /\ thread'[t].then = c.then
          /\ thread'[t].next = "ILLEGAL_STATE" /\ thread'[t].seen = state[e][c.id]
       \/ /\ state[e][c.id] = "ILLEGAL_STATE" /\ state'[e] = state[e]
          /\ ~(CanChange(c.seen, c.next) /\ state[e][c.id] = c.seen)
          /\ Goes(t, c.then, c.id)

\* Where Goto, changeStateTo and clearResource leave a thread.
LEMMA GotoGoes ==
    ASSUME ThreadsOK, NEW t \in Threads, NEW step \in Steps, NEW id \in Streams,
           Goto(t, step, id)
    PROVE  Goes(t, step, id)
<1>1. thread'[t] = StepOn(step, id) /\ \A u \in Threads \ {t} : thread'[u] = thread[u]
  BY DEF Goto, ThreadsOK
<1>. QED  BY <1>1, ThreadRecords DEF Goes

\* The start of a change.
LEMMA BeginBegins ==
    ASSUME ThreadsOK, NEW t \in Threads, NEW id \in Streams, NEW next, NEW then,
           BeginChange(t, id, next, then)
    PROVE  Begins(t, id, next, then)
BY DEF BeginChange, ThreadsOK, Begins

\* The context is cleared.
LEMMA ClearClears ==
    ASSUME ThreadsOK, StreamTypeOK, NEW t \in Threads, NEW then \in Steps, NEW id \in Streams,
           ClearResource(t, id, then)
    PROVE  Clears(t, id, then)
<1>1. /\ known'[End(t)] = known[End(t)] \ {id}
      /\ known'[Peer(End(t))] = known[Peer(End(t))]
  BY DEF ClearResource, StreamTypeOK, End, Peer, Ends
<1>2. Goto(t, then, id) => Goes(t, then, id)
  BY GotoGoes
<1>3. BeginChange(t, id, "CLOSED", then) => Begins(t, id, "CLOSED", then)
  BY BeginBegins
<1>. QED  BY <1>1, <1>2, <1>3 DEF ClearResource, BeginClose, Clears

\* The compare-and-set.
LEMMA SetSwaps ==
    ASSUME ThreadsOK, StreamTypeOK, NEW t \in Threads, CompareAndSet(t)
    PROVE  Swapped(t)
<1>0. /\ thread \in [Threads -> ThreadStates] /\ thread[t] \in ThreadStates
      /\ thread[t].id \in Streams /\ thread[t].then \in Steps
      /\ End(t) \in Ends /\ Ends = {"opener", "acceptor"}
      /\ Peer(End(t)) \in Ends \ {End(t)}
      /\ state \in [Ends -> [Streams -> StateCodes]] /\ At(t) = "change"
  BY DEF ThreadsOK, StreamTypeOK, CompareAndSet, At, On, ThreadStates, End, Ends, Peer
<1>1. Goto(t, thread[t].then, thread[t].id) => Goes(t, thread[t].then, thread[t].id)
  BY <1>0, GotoGoes
<1>2. ASSUME thread' = [thread EXCEPT
                          ![t] = [StepOn("notify", thread[t].id) EXCEPT !.then = thread[t].then]]
      PROVE  /\ \A u \in Threads \ {t} : thread'[u] = thread[u]
             /\ thread'[t].at = "notify" /\ thread'[t].id = thread[t].id
             /\ thread'[t].then = thread[t].then
  <2>1. StepOn("notify", thread[t].id)
           = [at |-> "notify", id |-> thread[t].id, next |-> "NEW", seen |-> "NEW",
              then |-> "idle"]
    BY DEF StepOn, Idle
  <2>2. [StepOn("notify", thread[t].id) EXCEPT !.then = thread[t].then]
           = [at |-> "notify", id |-> thread[t].id, next |-> "NEW", seen |-> "NEW",
              then |-> thread[t].then]
    BY <2>1
  <2>. QED  BY <1>0, <1>2, <2>2
<1>3. ASSUME thread' = [thread EXCEPT ![t].next = "ILLEGAL_STATE",
                                      ![t].seen = state[End(t)][thread[t].id]]
      PROVE  /\ \A u \in Threads \ {t} : thread'[u] = thread[u]
             /\ thread'[t].at = "change" /\ thread'[t].id = thread[t].id
             /\ thread'[t].then = thread[t].then
             /\ thread'[t].next = "ILLEGAL_STATE"
             /\ thread'[t].seen = state[End(t)][thread[t].id]
  <2>. DEFINE r == [thread[t] EXCEPT !.next = "ILLEGAL_STATE",
                                     !.seen = state[End(t)][thread[t].id]]
  <2>1. /\ r.at = "change" /\ r.id = thread[t].id /\ r.then = thread[t].then
        /\ r.next = "ILLEGAL_STATE" /\ r.seen = state[End(t)][thread[t].id]
    BY <1>0 DEF ThreadStates, At
  <2>2. thread' = [thread EXCEPT ![t] = r]
    BY <1>0, <1>3
  <2>. HIDE DEF r
  <2>. QED  BY <1>0, <2>1, <2>2
<1>4. CASE Swaps(thread[t].seen, thread[t].next, state[End(t)][thread[t].id])
  <2>1. state'[End(t)] = [state[End(t)] EXCEPT ![thread[t].id] = thread[t].next]
        /\ state'[Peer(End(t))] = state[Peer(End(t))]
    BY <1>0, <1>4 DEF CompareAndSet
  <2>. QED  BY <1>0, <1>1, <1>2, <1>4, <2>1 DEF CompareAndSet, Swaps, Swapped, Goes
<1>5. CASE ~Swaps(thread[t].seen, thread[t].next, state[End(t)][thread[t].id])
  <2>1. state' = state
    BY <1>5 DEF CompareAndSet
  <2>. QED  BY <1>0, <1>1, <1>3, <1>5, <2>1 DEF CompareAndSet, Swaps, Swapped, Goes
<1>. QED  BY <1>4, <1>5

SameThreads == \A u \in Threads : thread'[u] = thread[u]
SameState(e) == state'[e] = state[e]
SameKnown(e) == known'[e] = known[e]

\* Nothing of the streams changes.
StreamsRest == /\ SameThreads /\ \A e \in Ends : SameState(e) /\ SameKnown(e)
               /\ UNCHANGED <<wire, connected, todo>>

\* The caller, when it is idle, starts the worker or calls its reactive.
WorkerIsCalled ==
    /\ At("caller") = "idle" /\ ~stopped /\ ~active /\ started'
    /\ due' \in {due, FALSE}
    /\ UNCHANGED <<stopped, dropped, stream, managerStopped>>

CallOpens(id) ==
    /\ WorkerIsCalled /\ connected
    /\ Status(id) = "NEW"
    /\ Goes("caller", "await", id)
    /\ state'["opener"] = [state["opener"] EXCEPT ![id] = "OPEN"] /\ SameState("acceptor")
    /\ known'["opener"] = known["opener"] \cup {id} /\ SameKnown("acceptor")
    /\ UNCHANGED <<wire, connected, todo, active, kept, reactive, timerOn, tasks>>

CallWaits ==
    /\ WorkerIsCalled /\ StreamsRest
    /\ AddReactiveWorker
    /\ ~active' /\ kept'

TaskSkips == /\ due /\ ~due' /\ (stopped \/ active)
             /\ StreamsRest
             /\ UNCHANGED <<started, active, stopped, kept, dropped, stream, reactive, timerOn,
                            tasks, managerStopped>>

\* The caller goes on with openStream.
OpenGoesOn ==
    LET id == On("caller") IN
    /\ SameState("opener") /\ SameState("acceptor") /\ SameKnown("acceptor")
    /\ UNCHANGED <<connected, todo, workerVars>>
    /\ \/ /\ At("caller") = "await" /\ Begins("caller", id, "CONNECT_AWAIT", "create")
          /\ SameKnown("opener") /\ UNCHANGED wire
       \/ /\ At("caller") = "create" /\ Status(id) # "CONNECT_AWAIT"
          /\ Goes("caller", "thrown", id) /\ SameKnown("opener") /\ UNCHANGED wire
       \/ /\ At("caller") = "create" /\ Status(id) = "CONNECT_AWAIT"
          /\ Goes("caller", "waiting", id) /\ SameKnown("opener") /\ Write("opener", "CREATE", id)
       \/ /\ At("caller") = "waiting" /\ Status(id) = "CONNECTED"
          /\ Goes("caller", "opened", id) /\ SameKnown("opener") /\ UNCHANGED wire
       \/ /\ At("caller") = "waiting" /\ Status(id) # "CONNECTED"
          /\ \/ Goes("caller", "forget", id) /\ Status(id) = "CLOSED"
             \/ Begins("caller", id, "CLOSED", "forget")
          /\ SameKnown("opener") /\ UNCHANGED wire
       \/ /\ At("caller") = "forget" /\ Goes("caller", "failed", id)
          /\ known'["opener"] = known["opener"] \ {id} /\ UNCHANGED wire

\* The outcome of openStream.
OpenReturns ==
    LET id == On("caller") IN
    /\ \A e \in Ends : SameState(e) /\ SameKnown(e)
    /\ UNCHANGED <<wire, connected, todo, stopped, reactive, timerOn, tasks, due, managerStopped>>
    /\ \/ /\ At("caller") = "opened" /\ Goes("caller", "activate", id)
          /\ stream' = id /\ UNCHANGED <<started, active, kept, dropped>>
       \/ /\ At("caller") = "activate" /\ Goes("caller", "idle", id)
          /\ active' /\ kept' /\ UNCHANGED <<started, dropped, stream>>
       \/ /\ At("caller") = "failed" /\ Goes("caller", "idle", id)
          /\ ~active' /\ kept' /\ UNCHANGED <<started, dropped, stream>>
       \/ /\ At("caller") = "thrown" /\ Goes("caller", "idle", id)
          /\ started' = kept
          /\ dropped' = IF kept THEN dropped ELSE dropped \cup {id}
          /\ UNCHANGED <<active, kept, stream>>

StopCloses ==
    /\ At("caller") = "idle" /\ IsTurnOn /\ stopped'
    /\ \A e \in Ends : SameState(e)
    /\ UNCHANGED <<wire, connected, todo, started, active, kept, dropped, stream, reactive,
                   timerOn, tasks, due, managerStopped>>
    /\ \/ stream \in Streams /\ Clears("caller", stream, "sendClose")
       \/ stream = 0 /\ SameThreads /\ \A e \in Ends : SameKnown(e)

\* The listener of the worker.
Notified(t) ==
    /\ At(t) = "notify"
    /\ \A e \in Ends : SameState(e) /\ SameKnown(e)
    /\ \A u \in Threads \ {t} : thread'[u] = thread[u]
    /\ active' = (active /\ ~(IsTurnOn /\ On(t) \notin dropped))
    /\ \/ /\ IsTurnOn \/ On(t) \in dropped
          /\ thread'[t].at = "addReactive" /\ thread'[t].id = On(t)
          /\ thread'[t].then = thread[t].then
       \/ ~(IsTurnOn \/ On(t) \in dropped) /\ Goes(t, thread[t].then, On(t))
    /\ UNCHANGED <<wire, connected, todo, started, stopped, kept, dropped, stream, reactive,
                   timerOn, tasks, due, managerStopped>>

Added(t) ==
    /\ At(t) = "addReactive"
    /\ AddReactiveWorker
    /\ \A e \in Ends : SameState(e) /\ SameKnown(e)
    /\ Goes(t, thread[t].then, On(t))
    /\ UNCHANGED <<wire, connected, todo, started, active, stopped, kept, dropped, stream, due,
                   managerStopped>>

ChangeIsSet(t) ==
    /\ Swapped(t)
    /\ \A e \in Ends : SameKnown(e)
    /\ UNCHANGED <<wire, connected, todo, workerVars>>

CloseIsSent(t) ==
    /\ At(t) = "sendClose" /\ Goes(t, "idle", On(t)) /\ Write(End(t), "CLOSE", On(t))
    /\ \A e \in Ends : SameState(e) /\ SameKnown(e)
    /\ UNCHANGED <<connected, todo, workerVars>>

\* A thread takes the first packet of its wire.
Takes(e, m) ==
    /\ m \in Packets /\ wire[e] # <<>> /\ m = Head(wire[e])
    /\ wire'[e] = Tail(wire[e]) /\ wire'[Peer(e)] = wire[Peer(e)]
    /\ UNCHANGED <<connected, todo, workerVars>>

\* The opener's network thread.
OpenerReceives(m) ==
    /\ Takes("opener", m) /\ At("io") = "idle"
    /\ SameState("opener") /\ SameState("acceptor") /\ SameKnown("acceptor")
    /\ \/ /\ m.id \notin known["opener"] /\ SameKnown("opener")
          /\ Goes("io", IF m.type = "CLOSE" THEN "idle" ELSE "sendClose", m.id)
       \/ /\ m.type = "SUCCESS" /\ m.id \in known["opener"] /\ SameKnown("opener")
          /\ Begins("io", m.id, "CONNECTED", "idle")
       \/ /\ m.type \in {"FAIL", "RESPONSE", "CLOSE"} /\ m.id \in known["opener"]
          /\ \E then \in {"idle", "sendClose"} : Clears("io", m.id, then)
       \/ m.type = "RESPONSE" /\ SameKnown("opener") /\ SameThreads

\* The managers' close.
ManagerVisits(t, id) ==
    /\ t \in {"stop", "sio"} /\ At(t) = "idle" /\ id \in todo[End(t)]
    /\ Clears(t, id, "sendClose")
    /\ \A e \in Ends : SameState(e) /\ todo'[e] \subseteq todo[e]
    /\ UNCHANGED <<wire, connected, workerVars>>

ManagerStarts(t) ==
    /\ t \in {"stop", "sio"} /\ ~connected
    /\ SameThreads /\ \A e \in Ends : SameState(e) /\ SameKnown(e)
    /\ \A e \in Ends : todo'[e] \subseteq todo[e] \cup known[e]
    /\ UNCHANGED <<wire, connected, workerVars>>

\* The acceptor's threads.
CreateArrives(m) ==
    /\ Takes("acceptor", m) /\ At("sio") = "idle" /\ m.type = "CREATE"
    /\ state'["acceptor"] = [state["acceptor"] EXCEPT ![m.id] = "CONNECT_ARRIVED"]
    /\ SameState("opener") /\ SameKnown("opener")
    /\ Goes("sio", "listener", m.id)

CloseArrives(m) ==
    /\ Takes("acceptor", m) /\ At("sio") = "idle" /\ m.type = "CLOSE"
    /\ SameState("opener") /\ SameState("acceptor") /\ SameKnown("opener")
    /\ Clears("sio", m.id, "idle") \/ SameThreads

AcceptorAnswers ==
    LET id == On("sio") IN
    /\ SameState("opener") /\ SameState("acceptor") /\ SameKnown("opener")
    /\ UNCHANGED <<connected, todo, workerVars>>
    /\ \/ /\ At("sio") = "listener" /\ UNCHANGED wire
          /\ Begins("sio", id, "CONNECTED", "success") \/ Clears("sio", id, "sendFail")
       \/ /\ At("sio") = "success" /\ state["acceptor"][id] = "CONNECTED"
          /\ Write("acceptor", "SUCCESS", id) /\ Goes("sio", "idle", id)
       \/ /\ At("sio") = "success" /\ UNCHANGED wire /\ Goes("sio", "idle", id)
       \/ /\ At("sio") = "sendFail"
          /\ Write("acceptor", "FAIL", id) /\ Goes("sio", "idle", id)

AppUses(id) ==
    /\ SameState("opener") /\ SameState("acceptor") /\ SameKnown("opener")
    /\ UNCHANGED <<connected, todo, workerVars>>
    /\ \/ SameThreads /\ state["acceptor"][id] = "CONNECTED" /\ Write("acceptor", "RESPONSE", id)
       \/ At("app") = "idle" /\ Clears("app", id, "sendClose") /\ UNCHANGED wire

WireIsCut ==
    /\ connected /\ ~connected'
    /\ \A e \in Ends : wire'[e] = <<>> /\ SameState(e) /\ SameKnown(e)
    /\ SameThreads /\ UNCHANGED <<todo, workerVars>>

\* Every step is one of these.
Step ==
    \/ \E id \in Streams : CallOpens(id)
    \/ CallWaits \/ TaskSkips
    \/ RunTask /\ StreamsRest
    \/ ManagerClose /\ StreamsRest
    \/ UNCHANGED workerVars /\ StreamsRest
    \/ OpenGoesOn \/ OpenReturns \/ StopCloses
    \/ \E t \in Threads : Notified(t) \/ Added(t) \/ ChangeIsSet(t) \/ CloseIsSent(t)
    \/ \E m \in Packets : OpenerReceives(m) \/ CreateArrives(m) \/ CloseArrives(m)
    \/ \E t \in Threads, id \in Streams : ManagerVisits(t, id)
    \/ \E t \in Threads : ManagerStarts(t)
    \/ AcceptorAnswers
    \/ \E id \in Streams : AppUses(id)
    \/ WireIsCut

\* The worker's and the timer's calls.
LEMMA CallsAreSteps ==
    ASSUME ThreadsOK, TypeOK, active => started, Start \/ Reactive \/ TaskCallsWorker
    PROVE  Step
<1>0. /\ StreamTypeOK /\ "caller" \in Threads /\ Ends = {"opener", "acceptor"}
      /\ "await" \in Steps
  BY DEF TypeOK, Threads, Ends, Steps
<1>1. ASSUME NEW id \in Streams, OpenStart(id)
      PROVE  /\ Status(id) = "NEW"
             /\ Goes("caller", "await", id)
             /\ state'["opener"] = [state["opener"] EXCEPT ![id] = "OPEN"]
             /\ SameState("acceptor")
             /\ known'["opener"] = known["opener"] \cup {id} /\ SameKnown("acceptor")
             /\ UNCHANGED <<wire, connected, todo>>
  BY <1>0, <1>1, GotoGoes DEF OpenStart, NextId, StreamTypeOK, Status, SameState, SameKnown
<1>2. ASSUME UNCHANGED streamVars PROVE StreamsRest
  BY <1>2 DEF streamVars, StreamsRest, SameThreads, SameState, SameKnown
<1>3. ASSUME WorkerIsCalled, Active0 PROVE Step
  <2>1. CASE ~connected
    BY <1>2, <1>3, <2>1 DEF Active0, CallWaits, Step
  <2>2. CASE connected
    BY <1>1, <1>3, <2>2 DEF Active0, CallOpens, Step
  <2>. QED  BY <2>1, <2>2
<1>4. CASE Start \/ Reactive
  <2>1. WorkerIsCalled /\ Active0
    BY <1>4 DEF Start, Reactive, MayReactivate, IsTurnOn, WorkerIsCalled, TypeOK
  <2>. QED  BY <1>3, <2>1
<1>5. CASE TaskCallsWorker
  <2>1. CASE (started /\ MayReactivate /\ Active0 /\ UNCHANGED started)
             \/ (~started /\ ~stopped /\ started' = TRUE /\ Active0)
    <3>1. ~stopped /\ ~active /\ started' /\ Active0
      BY <2>1 DEF MayReactivate, IsTurnOn
    <3>2. due' = FALSE /\ At("caller") = "idle" /\ UNCHANGED <<stopped, dropped, stream, managerStopped>>
      BY <1>5 DEF TaskCallsWorker
    <3>. QED  BY <1>3, <3>1, <3>2 DEF WorkerIsCalled
  <2>2. CASE (stopped \/ active)
             /\ UNCHANGED <<streamVars, started, active, kept, reactive, timerOn, tasks>>
    BY <1>2, <1>5, <2>2 DEF TaskCallsWorker, TaskSkips, Step
  <2>. QED  BY <1>5, <2>1, <2>2 DEF TaskCallsWorker
<1>. QED  BY <1>4, <1>5

\* The caller's own steps.
LEMMA CallerIsStep ==
    ASSUME ThreadsOK, TypeOK,
           \/ (OpenAwait \/ OpenCreate \/ OpenCheck \/ OpenForget) /\ UNCHANGED workerVars
           \/ Opened \/ Activate \/ Thrown \/ Stop
    PROVE  Step
<1>0. /\ StreamTypeOK /\ "caller" \in Threads /\ Ends = {"opener", "acceptor"}
      /\ End("caller") = "opener"
      /\ {"create", "waiting", "thrown", "opened", "forget", "failed", "activate", "idle",
          "sendClose"} \subseteq Steps
  BY DEF TypeOK, Threads, Ends, Steps, End
<1>d. At("caller") # "idle" => On("caller") \in Streams
  BY <1>0 DEF ThreadsOK
<1>s. ASSUME UNCHANGED <<state, known>> PROVE \A e \in Ends : SameState(e) /\ SameKnown(e)
  BY <1>s DEF SameState, SameKnown
<1>g. ASSUME NEW step \in Steps, On("caller") \in Streams, Goto("caller", step, On("caller"))
      PROVE  Goes("caller", step, On("caller"))
  BY <1>0, <1>g, GotoGoes
<1>1. CASE OpenAwait /\ UNCHANGED workerVars
  <2>1. Begins("caller", On("caller"), "CONNECT_AWAIT", "create")
    BY <1>0, <1>1, <1>d, BeginBegins DEF OpenAwait
  <2>. QED  BY <1>0, <1>1, <1>s, <2>1 DEF OpenAwait, OpenGoesOn, Step
<1>2. CASE OpenCreate /\ UNCHANGED workerVars
  BY <1>0, <1>2, <1>d, <1>s, <1>g DEF OpenCreate, OpenGoesOn, Step, Status
<1>3. CASE OpenCheck /\ UNCHANGED workerVars
  <2>1. BeginChange("caller", On("caller"), "CLOSED", "forget")
          => Begins("caller", On("caller"), "CLOSED", "forget")
    BY <1>0, <1>3, <1>d, BeginBegins DEF OpenCheck
  <2>. QED  BY <1>0, <1>3, <1>d, <1>s, <1>g, <2>1
            DEF OpenCheck, BeginClose, OpenGoesOn, Step, Status
<1>4. CASE OpenForget /\ UNCHANGED workerVars
  <2>1. known'["opener"] = known["opener"] \ {On("caller")} /\ known'["acceptor"] = known["acceptor"]
    BY <1>0, <1>4 DEF OpenForget, StreamTypeOK
  <2>. QED  BY <1>0, <1>4, <1>d, <1>s, <1>g, <2>1
            DEF OpenForget, OpenGoesOn, Step, SameState, SameKnown
<1>5. CASE Opened \/ Activate \/ Thrown
  BY <1>0, <1>5, <1>d, <1>s, <1>g DEF Opened, Activate, Thrown, OpenReturns, Step
<1>6. CASE Stop
  <2>1. CASE stream # 0
    <3>1. stream \in Streams /\ Clears("caller", stream, "sendClose")
      BY <1>0, <1>6, <2>1, ClearClears DEF Stop, CloseHeldStream, CloseStream, TypeOK
    <3>. QED  BY <1>6, <2>1, <3>1
              DEF Stop, CloseHeldStream, CloseStream, StopCloses, SameState, Step
  <2>2. CASE stream = 0
    BY <1>6, <2>2 DEF Stop, CloseHeldStream, StopCloses, streamVars, SameState, SameKnown,
                      SameThreads, Step
  <2>. QED  BY <2>1, <2>2
<1>. QED  BY <1>1, <1>2, <1>3, <1>4, <1>5, <1>6

\* What any thread may do.
LEMMA ThreadIsStep ==
    ASSUME ThreadsOK, TypeOK, NEW t \in Threads,
           \/ ThreadStep(t) /\ UNCHANGED workerVars
           \/ EventPerformed(t) \/ AddReactive(t)
    PROVE  Step
<1>0. /\ StreamTypeOK /\ thread \in [Threads -> ThreadStates] /\ thread[t] \in ThreadStates
      /\ At(t) # "idle" => On(t) \in Streams
      /\ thread[t].then \in Steps /\ "idle" \in Steps
  BY DEF TypeOK, ThreadsOK, ThreadStates, Steps
<1>s. ASSUME UNCHANGED <<state, known>> PROVE \A e \in Ends : SameState(e) /\ SameKnown(e)
  BY <1>s DEF SameState, SameKnown
<1>1. CASE CompareAndSet(t) /\ UNCHANGED workerVars
  BY <1>0, <1>1, SetSwaps DEF CompareAndSet, ChangeIsSet, SameKnown, Step
<1>2. CASE SendClose(t) /\ UNCHANGED workerVars
  <2>1. Goes(t, "idle", On(t))
    BY <1>0, <1>2, GotoGoes DEF SendClose
  <2>. QED  BY <1>2, <1>s, <2>1 DEF SendClose, CloseIsSent, Step
<1>3. CASE EventPerformed(t)
  <2>1. CASE IsTurnOn \/ On(t) \in dropped
    <3>. DEFINE r == [thread[t] EXCEPT !.at = "addReactive"]
    <3>1. r.at = "addReactive" /\ r.id = thread[t].id /\ r.then = thread[t].then
      BY <1>0 DEF ThreadStates
    <3>2. thread' = [thread EXCEPT ![t] = r]
      BY <1>0, <1>3, <2>1 DEF EventPerformed
    <3>. HIDE DEF r
    <3>3. /\ thread'[t].at = "addReactive" /\ thread'[t].id = On(t)
          /\ thread'[t].then = thread[t].then
          /\ \A u \in Threads \ {t} : thread'[u] = thread[u]
      BY <1>0, <3>1, <3>2 DEF On
    <3>. QED  BY <1>3, <1>s, <2>1, <3>3 DEF EventPerformed, Notified, Step
  <2>2. CASE ~(IsTurnOn \/ On(t) \in dropped)
    <3>1. Goes(t, thread[t].then, On(t))
      BY <1>0, <1>3, <2>2, GotoGoes DEF EventPerformed
    <3>. QED  BY <1>3, <1>s, <2>2, <3>1 DEF EventPerformed, Notified, Step, Goes
  <2>. QED  BY <2>1, <2>2
<1>4. CASE AddReactive(t)
  <2>1. Goes(t, thread[t].then, On(t))
    BY <1>0, <1>4, GotoGoes DEF AddReactive
  <2>. QED  BY <1>4, <1>s, <2>1 DEF AddReactive, Added, Step
<1>. QED  BY <1>1, <1>2, <1>3, <1>4 DEF ThreadStep

\* What the opener's network thread and its socket's stop do.
LEMMA OpenerIsStep ==
    ASSUME ThreadsOK, TypeOK, UNCHANGED workerVars,
           \/ \E m \in Arriving("opener") : \/ ReceiveUnknown(m) \/ HandleCreateSuccess(m)
                                           \/ HandleCreateFail(m) \/ HandleStreamResponse(m)
                                           \/ HandleStreamClose("opener", "io", m)
           \/ CloseAll("stop") \/ \E id \in Streams : CloseAllNext("stop", id)
    PROVE  Step
<1>0. /\ StreamTypeOK /\ {"io", "stop"} \subseteq Threads /\ Ends = {"opener", "acceptor"}
      /\ End("io") = "opener" /\ End("stop") = "opener" /\ Peer("opener") = "acceptor"
      /\ {"idle", "sendClose"} \subseteq Steps
  BY DEF TypeOK, Threads, Ends, Steps, End, Peer
<1>1. ASSUME NEW m \in Arriving("opener"), Receive("opener", "io", m)
      PROVE  /\ Takes("opener", m) /\ At("io") = "idle" /\ m.id \in Streams
             /\ m.type \in PacketTypes
  <2>1. m \in Packets /\ m.id \in Streams /\ m.type \in PacketTypes
    BY <1>0, <1>1, ReceiveType DEF Packets
  <2>2. wire[("opener")] # <<>> /\ wire'["opener"] = Tail(wire["opener"])
        /\ wire'["acceptor"] = wire["acceptor"]
    BY <1>0, <1>1 DEF Arriving, Receive, StreamTypeOK
  <2>. QED  BY <1>0, <1>1, <2>1, <2>2 DEF Receive, Takes
<1>c. ASSUME NEW t \in {"io", "stop"}, NEW id \in Streams, NEW then \in {"idle", "sendClose"},
             ClearResource(t, id, then)
      PROVE  Clears(t, id, then) /\ SameKnown("acceptor")
  <2>1. Clears(t, id, then)
    BY <1>0, <1>c, ClearClears
  <2>. QED  BY <1>0, <2>1 DEF Clears, SameKnown
<1>2. ASSUME NEW m \in Arriving("opener"), ReceiveUnknown(m) PROVE Step
  <2>1. Receive("opener", "io", m) /\ m.id \notin known["opener"] /\ UNCHANGED <<state, known>>
        /\ Goto("io", IF m.type = "CLOSE" THEN "idle" ELSE "sendClose", m.id)
    BY <1>2 DEF ReceiveUnknown
  <2>2. Takes("opener", m) /\ At("io") = "idle" /\ m.id \in Streams
    BY <1>1, <2>1
  <2>3. Goes("io", IF m.type = "CLOSE" THEN "idle" ELSE "sendClose", m.id)
    BY <1>0, <2>1, <2>2, GotoGoes
  <2>4. OpenerReceives(m)
    BY <2>1, <2>2, <2>3 DEF OpenerReceives, SameState, SameKnown
  <2>. QED  BY <2>2, <2>4 DEF Step, Takes
<1>3. ASSUME NEW m \in Arriving("opener"), HandleCreateSuccess(m) PROVE Step
  <2>1. Takes("opener", m) /\ At("io") = "idle" /\ m.id \in Streams
    BY <1>1, <1>3 DEF HandleCreateSuccess
  <2>2. Begins("io", m.id, "CONNECTED", "idle")
    BY <1>0, <1>3, <2>1, BeginBegins DEF HandleCreateSuccess
  <2>3. OpenerReceives(m)
    BY <1>3, <2>1, <2>2 DEF HandleCreateSuccess, OpenerReceives, SameState, SameKnown
  <2>. QED  BY <2>1, <2>3 DEF Step, Takes
<1>4. ASSUME NEW m \in Arriving("opener"), NEW then \in {"idle", "sendClose"},
             Receive("opener", "io", m), m.id \in known["opener"],
             m.type \in {"FAIL", "RESPONSE", "CLOSE"},
             ClearResource("io", m.id, then), UNCHANGED state
      PROVE  Step
  <2>1. Takes("opener", m) /\ At("io") = "idle" /\ m.id \in Streams
    BY <1>1, <1>4
  <2>2. Clears("io", m.id, then) /\ SameKnown("acceptor")
    BY <1>4, <1>c, <2>1
  <2>3. OpenerReceives(m)
    BY <1>4, <2>1, <2>2 DEF OpenerReceives, SameState
  <2>. QED  BY <2>1, <2>3 DEF Step, Takes
<1>5. ASSUME NEW m \in Arriving("opener"), HandleCreateFail(m) PROVE Step
  BY <1>4, <1>5 DEF HandleCreateFail
<1>6. ASSUME NEW m \in Arriving("opener"), HandleStreamClose("opener", "io", m) PROVE Step
  BY <1>4, <1>6 DEF HandleStreamClose
<1>7. ASSUME NEW m \in Arriving("opener"), HandleStreamResponse(m) PROVE Step
  <2>1. CASE UNCHANGED <<known, thread>>
    <3>1. Takes("opener", m) /\ At("io") = "idle" /\ m.id \in Streams
      BY <1>1, <1>7 DEF HandleStreamResponse
    <3>2. OpenerReceives(m)
      BY <1>7, <2>1, <3>1 DEF HandleStreamResponse, OpenerReceives, SameState, SameKnown,
                              SameThreads
    <3>. QED  BY <3>1, <3>2 DEF Step, Takes
  <2>2. CASE ClearResource("io", m.id, "sendClose")
    BY <1>4, <1>7, <2>2 DEF HandleStreamResponse
  <2>. QED  BY <1>7, <2>1, <2>2 DEF HandleStreamResponse
<1>8. CASE CloseAll("stop")
  BY <1>0, <1>8 DEF CloseAll, ManagerStarts, SameThreads, SameState, SameKnown, Step, StreamTypeOK
<1>9. ASSUME NEW id \in Streams, CloseAllNext("stop", id) PROVE Step
  <2>1. Clears("stop", id, "sendClose")
    BY <1>9, <1>c DEF CloseAllNext
  <2>2. \A e \in Ends : todo'[e] \subseteq todo[e]
    BY <1>0, <1>9 DEF CloseAllNext, StreamTypeOK
  <2>3. ManagerVisits("stop", id)
    BY <1>0, <1>9, <2>1, <2>2 DEF CloseAllNext, ManagerVisits, SameState
  <2>. QED  BY <1>0, <2>3 DEF Step
<1>. QED  BY <1>2, <1>3, <1>5, <1>6, <1>7, <1>8, <1>9

\* What the acceptor's threads and the application do.
LEMMA AcceptorIsStep ==
    ASSUME ThreadsOK, TypeOK, UNCHANGED workerVars,
           AcceptorStep \/ \E id \in Streams : SendData(id) \/ AppClose(id)
    PROVE  Step
<1>0. /\ StreamTypeOK /\ {"sio", "app"} \subseteq Threads /\ Ends = {"opener", "acceptor"}
      /\ End("sio") = "acceptor" /\ End("app") = "acceptor" /\ Peer("acceptor") = "opener"
      /\ {"idle", "sendClose", "listener", "sendFail", "success"} \subseteq Steps
      /\ At("sio") # "idle" => On("sio") \in Streams
  BY DEF TypeOK, Threads, Ends, Steps, End, Peer, ThreadsOK
<1>1. ASSUME NEW m \in Arriving("acceptor"), Receive("acceptor", "sio", m)
      PROVE  Takes("acceptor", m) /\ At("sio") = "idle" /\ m.id \in Streams
  <2>1. m \in Packets /\ m.id \in Streams
    BY <1>0, <1>1, ReceiveType
  <2>2. wire["acceptor"] # <<>> /\ wire'["acceptor"] = Tail(wire["acceptor"])
        /\ wire'["opener"] = wire["opener"]
    BY <1>0, <1>1 DEF Arriving, Receive, StreamTypeOK
  <2>. QED  BY <1>0, <1>1, <2>1, <2>2 DEF Receive, Takes
<1>c. ASSUME NEW t \in {"sio", "app"}, NEW id \in Streams,
             NEW then \in {"idle", "sendClose", "sendFail"}, ClearResource(t, id, then)
      PROVE  Clears(t, id, then) /\ SameKnown("opener")
  <2>1. Clears(t, id, then)
    BY <1>0, <1>c, ClearClears
  <2>. QED  BY <1>0, <2>1 DEF Clears, SameKnown
<1>2. ASSUME NEW m \in Arriving("acceptor"), HandleCreate(m) PROVE Step
  <2>1. Takes("acceptor", m) /\ At("sio") = "idle" /\ m.id \in Streams
    BY <1>1, <1>2 DEF HandleCreate
  <2>2. Goes("sio", "listener", m.id)
    BY <1>0, <1>2, <2>1, GotoGoes DEF HandleCreate
  <2>3. CreateArrives(m)
    BY <1>0, <1>2, <2>1, <2>2 DEF HandleCreate, CreateArrives, SameState, SameKnown, StreamTypeOK
  <2>. QED  BY <2>1, <2>3 DEF Step, Takes
<1>3. ASSUME NEW m \in Arriving("acceptor"), IgnoreClose(m) PROVE Step
  <2>1. Takes("acceptor", m) /\ At("sio") = "idle"
    BY <1>1, <1>3 DEF IgnoreClose
  <2>2. CloseArrives(m)
    BY <1>3, <2>1 DEF IgnoreClose, CloseArrives, SameState, SameKnown, SameThreads
  <2>. QED  BY <2>1, <2>2 DEF Step, Takes
<1>4. ASSUME NEW m \in Arriving("acceptor"), HandleStreamClose("acceptor", "sio", m) PROVE Step
  <2>1. Takes("acceptor", m) /\ At("sio") = "idle" /\ m.id \in Streams
    BY <1>1, <1>4 DEF HandleStreamClose
  <2>2. Clears("sio", m.id, "idle") /\ SameKnown("opener")
    BY <1>4, <1>c, <2>1 DEF HandleStreamClose
  <2>3. CloseArrives(m)
    BY <1>4, <2>1, <2>2 DEF HandleStreamClose, CloseArrives, SameState
  <2>. QED  BY <2>1, <2>3 DEF Step, Takes
<1>5. ASSUME NEW ok \in BOOLEAN, HandleStreamCreate(ok) PROVE Step
  <2>1. On("sio") \in Streams
    BY <1>0, <1>5 DEF HandleStreamCreate
  <2>2. CASE ok
    <3>1. Begins("sio", On("sio"), "CONNECTED", "success")
      BY <1>0, <1>5, <2>1, <2>2, BeginBegins DEF HandleStreamCreate
    <3>. QED  BY <1>5, <2>2, <3>1
              DEF HandleStreamCreate, AcceptorAnswers, SameState, SameKnown, Step
  <2>3. CASE ~ok
    <3>1. Clears("sio", On("sio"), "sendFail") /\ SameKnown("opener")
      BY <1>5, <1>c, <2>1, <2>3 DEF HandleStreamCreate
    <3>. QED  BY <1>5, <2>3, <3>1 DEF HandleStreamCreate, AcceptorAnswers, SameState, Step
  <2>. QED  BY <2>2, <2>3
<1>6. CASE SendCreateSuccess \/ SendCreateFail
  <2>1. Goes("sio", "idle", On("sio"))
    BY <1>0, <1>6, GotoGoes DEF SendCreateSuccess, SendCreateFail
  <2>2. SameState("opener") /\ SameState("acceptor") /\ SameKnown("opener")
    BY <1>6 DEF SendCreateSuccess, SendCreateFail, SameState, SameKnown
  <2>. QED  BY <1>6, <2>1, <2>2 DEF SendCreateSuccess, SendCreateFail, AcceptorAnswers, Step
<1>7. CASE CloseAll("sio")
  BY <1>0, <1>7 DEF CloseAll, ManagerStarts, SameThreads, SameState, SameKnown, Step, StreamTypeOK
<1>8. ASSUME NEW id \in Streams, CloseAllNext("sio", id) PROVE Step
  <2>1. Clears("sio", id, "sendClose")
    BY <1>8, <1>c DEF CloseAllNext
  <2>2. \A e \in Ends : todo'[e] \subseteq todo[e]
    BY <1>0, <1>8 DEF CloseAllNext, StreamTypeOK
  <2>3. ManagerVisits("sio", id)
    BY <1>0, <1>8, <2>1, <2>2 DEF CloseAllNext, ManagerVisits, SameState
  <2>. QED  BY <1>0, <2>3 DEF Step
<1>9. ASSUME NEW id \in Streams, SendData(id) PROVE Step
  BY <1>9 DEF SendData, AppUses, SameState, SameKnown, SameThreads, Step
<1>10. ASSUME NEW id \in Streams, AppClose(id) PROVE Step
  <2>1. Clears("app", id, "sendClose") /\ SameKnown("opener")
    BY <1>10, <1>c DEF AppClose, CloseStream
  <2>. QED  BY <1>10, <2>1 DEF AppClose, CloseStream, AppUses, SameState, Step
<1>. QED  BY <1>2, <1>3, <1>4, <1>5, <1>6, <1>7, <1>8, <1>9, <1>10 DEF AcceptorStep

\* Every step of the specification.
LEMMA NextIsStep ==
    ASSUME ThreadsOK, TypeOK, active => started, [Next]_vars
    PROVE  Step
<1>1. CASE Start \/ Reactive \/ TaskCallsWorker
  BY <1>1, CallsAreSteps
<1>2. CASE Stop \/ Opened \/ Activate \/ Thrown
  BY <1>2, CallerIsStep
<1>3. CASE RunTask \/ ManagerClose
  <2>1. StreamsRest
    BY <1>3 DEF RunTask, ManagerClose, streamVars, StreamsRest, SameThreads, SameState, SameKnown
  <2>. QED  BY <1>3, <2>1 DEF Step
<1>4. ASSUME NEW t \in Threads, EventPerformed(t) \/ AddReactive(t) PROVE Step
  BY <1>4, ThreadIsStep
<1>5. CASE OpenerStep /\ UNCHANGED workerVars
  BY <1>5, CallerIsStep, OpenerIsStep DEF OpenerStep
<1>6. CASE (AcceptorStep \/ \E id \in Streams : SendData(id) \/ AppClose(id))
           /\ UNCHANGED workerVars
  BY <1>6, AcceptorIsStep
<1>7. CASE Disconnect /\ UNCHANGED workerVars
  BY <1>7 DEF Disconnect, WireIsCut, SameThreads, SameState, SameKnown, Step, TypeOK, StreamTypeOK
<1>8. ASSUME NEW t \in Threads, ThreadStep(t), UNCHANGED workerVars PROVE Step
  BY <1>8, ThreadIsStep
<1>9. CASE UNCHANGED vars
  BY <1>9 DEF vars, streamVars, StreamsRest, SameThreads, SameState, SameKnown, Step
<1>. QED  BY <1>1, <1>2, <1>3, <1>4, <1>5, <1>6, <1>7, <1>8, <1>9
          DEF Next, WorkerStep, StreamStep

(***************************************************************************)
(* What the threads are in the middle of.                                  *)
(***************************************************************************)

\* The acceptor's threads keep to their steps.
LEMMA AcceptorStays ==
    ASSUME ThreadsOK, TypeOK, AcceptorInv, Step
    PROVE  AcceptorInv'
<1>. DEFINE Still == /\ thread'["sio"] = thread["sio"] /\ thread'["app"] = thread["app"]
                     /\ todo'["acceptor"] \subseteq todo["acceptor"] /\ (connected' => connected)
<1>0. /\ Threads = {"caller", "io", "stop", "sio", "app"} /\ Ends = {"opener", "acceptor"}
      /\ thread \in [Threads -> ThreadStates]
      /\ End("sio") = "acceptor" /\ End("app") = "acceptor"
      /\ End("caller") = "opener" /\ End("io") = "opener" /\ End("stop") = "opener"
  BY DEF Threads, Ends, ThreadsOK, End
<1>s. ASSUME Still PROVE AcceptorInv'
  BY <1>s DEF AcceptorInv, At, Doing
<1>1. CASE (\E id \in Streams : CallOpens(id)) \/ OpenGoesOn \/ OpenReturns \/ StopCloses
  <2>1. CASE \E id \in Streams : CallOpens(id)
    BY <1>0, <1>s, <2>1 DEF CallOpens, Goes
  <2>2. CASE OpenGoesOn
    BY <1>0, <1>s, <2>2 DEF OpenGoesOn, Goes, Begins
  <2>3. CASE OpenReturns
    BY <1>0, <1>s, <2>3 DEF OpenReturns, Goes
  <2>4. CASE StopCloses
    BY <1>0, <1>s, <2>4 DEF StopCloses, Goes, Begins, Clears, SameThreads
  <2>. QED  BY <1>1, <2>1, <2>2, <2>3, <2>4
<1>2. CASE CallWaits \/ TaskSkips \/ StreamsRest
  <2>1. Still
    BY <1>0, <1>2 DEF CallWaits, TaskSkips, StreamsRest, SameThreads
  <2>. QED  BY <1>s, <2>1
<1>3. ASSUME NEW t \in Threads, Notified(t) \/ Added(t) PROVE AcceptorInv'
  <2>1. t \notin {"sio", "app"}
    BY <1>3 DEF AcceptorInv, Notified, Added, At
  <2>2. Still
    BY <1>0, <1>3, <2>1 DEF Notified, Added, Goes
  <2>. QED  BY <1>s, <2>2
<1>4. ASSUME NEW t \in Threads, ChangeIsSet(t) PROVE AcceptorInv'
  <2>1. CASE t \notin {"sio", "app"}
    <3>1. Still
      BY <1>0, <1>4, <2>1 DEF ChangeIsSet, Swapped, Goes
    <3>. QED  BY <1>s, <3>1
  <2>2. CASE t \in {"sio", "app"}
    BY <1>0, <1>4, <2>2 DEF ChangeIsSet, Swapped, Goes, AcceptorInv, At, Doing, Ended
  <2>. QED  BY <2>1, <2>2
<1>5. ASSUME NEW t \in Threads, CloseIsSent(t) PROVE AcceptorInv'
  BY <1>0, <1>5 DEF CloseIsSent, Goes, AcceptorInv, At, Doing
<1>6. ASSUME NEW m \in Packets, OpenerReceives(m) PROVE AcceptorInv'
  <2>1. Still
    BY <1>0, <1>6 DEF OpenerReceives, Takes, Goes, Begins, Clears, SameThreads
  <2>. QED  BY <1>s, <2>1
<1>7. ASSUME NEW m \in Packets, CreateArrives(m) \/ CloseArrives(m) PROVE AcceptorInv'
  BY <1>0, <1>7 DEF CreateArrives, CloseArrives, Takes, Goes, Begins, Clears, SameThreads,
                    AcceptorInv, At, Doing, Ended
<1>8. ASSUME NEW t \in Threads, NEW id \in Streams, ManagerVisits(t, id) PROVE AcceptorInv'
  BY <1>0, <1>8 DEF ManagerVisits, Goes, Begins, Clears, AcceptorInv, At, Doing, Ended
<1>9. ASSUME NEW t \in Threads, ManagerStarts(t) PROVE AcceptorInv'
  BY <1>0, <1>9 DEF ManagerStarts, SameThreads, AcceptorInv, At, Doing
<1>10. CASE AcceptorAnswers
  BY <1>0, <1>10 DEF AcceptorAnswers, Goes, Begins, Clears, AcceptorInv, At, Doing, Ended
<1>11. ASSUME NEW id \in Streams, AppUses(id) PROVE AcceptorInv'
  BY <1>0, <1>11 DEF AppUses, SameThreads, Goes, Begins, Clears, AcceptorInv, At, Doing, Ended
<1>12. CASE WireIsCut
  <2>1. Still
    BY <1>0, <1>12 DEF WireIsCut, SameThreads
  <2>. QED  BY <1>s, <2>1
<1>. QED  BY <1>1, <1>2, <1>3, <1>4, <1>5, <1>6, <1>7, <1>8, <1>9, <1>10, <1>11, <1>12 DEF Step

\* The opener's end stays as it is; the connection may be lost.
OpenerRests ==
    /\ \A u \in OpenerThreads : thread'[u] = thread[u]
    /\ SameState("opener") /\ SameKnown("opener")
    /\ todo'["opener"] = todo["opener"] \/ ~connected
    /\ todo'["opener"] \subseteq todo["opener"] \cup known["opener"]
    /\ connected' => connected
    /\ UNCHANGED workerVars

OpenerMove ==
    \/ \E id \in Streams : CallOpens(id)
    \/ CallWaits \/ TaskSkips
    \/ RunTask /\ StreamsRest
    \/ ManagerClose /\ StreamsRest
    \/ OpenGoesOn \/ OpenReturns \/ StopCloses
    \/ \E t \in OpenerThreads : Notified(t) \/ Added(t) \/ ChangeIsSet(t) \/ CloseIsSent(t)
    \/ \E m \in Packets : OpenerReceives(m)
    \/ \E id \in Streams : ManagerVisits("stop", id)
    \/ OpenerRests

\* The steps, as the opener's end sees them.
LEMMA OpenerSees ==
    ASSUME ThreadsOK, TypeOK, AcceptorInv, Step
    PROVE  OpenerMove
<1>0. /\ Threads = {"caller", "io", "stop", "sio", "app"} /\ Ends = {"opener", "acceptor"}
      /\ OpenerThreads = {"caller", "io", "stop"}
      /\ End("sio") = "acceptor" /\ End("app") = "acceptor"
      /\ Peer("acceptor") = "opener"
  BY DEF Threads, Ends, OpenerThreads, End, Peer
<1>1. ASSUME NEW t \in Threads, Notified(t) \/ Added(t) \/ ChangeIsSet(t) \/ CloseIsSent(t)
      PROVE  OpenerMove
  <2>1. CASE t \in OpenerThreads
    BY <1>1, <2>1 DEF OpenerMove
  <2>2. CASE t \in {"sio", "app"}
    <3>1. ~Notified(t) /\ ~Added(t)
      BY <2>2 DEF AcceptorInv, Notified, Added, At
    <3>2. OpenerRests
      BY <1>0, <1>1, <2>2, <3>1 DEF ChangeIsSet, Swapped, CloseIsSent, Goes, OpenerRests,
                                    SameState, SameKnown
    <3>. QED  BY <3>2 DEF OpenerMove
  <2>. QED  BY <1>0, <2>1, <2>2
<1>2. ASSUME NEW t \in Threads, NEW id \in Streams, ManagerVisits(t, id) PROVE OpenerMove
  <2>1. CASE t = "stop"
    BY <1>2, <2>1 DEF OpenerMove
  <2>2. CASE t = "sio"
    <3>0. connected' = connected
      BY <1>2 DEF ManagerVisits
    <3>1. ~connected
      BY <1>0, <1>2, <2>2 DEF ManagerVisits, AcceptorInv
    <3>2. OpenerRests
      BY <1>0, <1>2, <2>2, <3>0, <3>1 DEF ManagerVisits, Clears, Goes, Begins, OpenerRests,
                                    SameState, SameKnown
    <3>. QED  BY <3>2 DEF OpenerMove
  <2>. QED  BY <1>2, <2>1, <2>2 DEF ManagerVisits
<1>3. ASSUME NEW t \in Threads, ManagerStarts(t) PROVE OpenerMove
  <2>1. OpenerRests
    BY <1>0, <1>3 DEF ManagerStarts, SameThreads, OpenerRests
  <2>. QED  BY <2>1 DEF OpenerMove
<1>4. ASSUME NEW m \in Packets, CreateArrives(m) \/ CloseArrives(m) PROVE OpenerMove
  <2>1. OpenerRests
    BY <1>0, <1>4 DEF CreateArrives, CloseArrives, Takes, Goes, Begins, Clears, SameThreads,
                      OpenerRests
  <2>. QED  BY <2>1 DEF OpenerMove
<1>5. CASE AcceptorAnswers \/ WireIsCut \/ (\E id \in Streams : AppUses(id))
           \/ (UNCHANGED workerVars /\ StreamsRest)
  <2>1. OpenerRests
    BY <1>0, <1>5 DEF AcceptorAnswers, WireIsCut, AppUses, StreamsRest, Goes, Begins, Clears,
                      SameThreads, OpenerRests
  <2>. QED  BY <2>1 DEF OpenerMove
<1>. QED  BY <1>1, <1>2, <1>3, <1>4, <1>5 DEF Step, OpenerMove

\* The caller keeps to its steps.
LEMMA CallerStays ==
    ASSUME ThreadsOK, TypeOK, CallerInv, OpenerMove
    PROVE  CallerInv'
<1>0. /\ Threads = {"caller", "io", "stop", "sio", "app"} /\ Ends = {"opener", "acceptor"}
      /\ OpenerThreads = {"caller", "io", "stop"} /\ End("caller") = "opener"
      /\ active \in BOOLEAN /\ started \in BOOLEAN /\ stopped \in BOOLEAN /\ kept \in BOOLEAN
  BY DEF Threads, Ends, OpenerThreads, End, TypeOK
<1>. USE DEF CallerInv, At, Changes, Ended
<1>1. ASSUME NEW id \in Streams, CallOpens(id) PROVE CallerInv'
  BY <1>0, <1>1 DEF CallOpens, WorkerIsCalled, Goes
<1>2. CASE CallWaits
  BY <1>0, <1>2 DEF CallWaits, WorkerIsCalled, StreamsRest, SameThreads
<1>3. CASE TaskSkips
  BY <1>0, <1>3 DEF TaskSkips, StreamsRest, SameThreads
<1>4. CASE (RunTask \/ ManagerClose) /\ StreamsRest
  BY <1>0, <1>4 DEF RunTask, ManagerClose, StreamsRest, SameThreads
<1>5. CASE OpenGoesOn
  BY <1>0, <1>5 DEF OpenGoesOn, Goes, Begins, workerVars
<1>6. CASE OpenReturns
  BY <1>0, <1>6 DEF OpenReturns, Goes
<1>7. CASE StopCloses
  BY <1>0, <1>7 DEF StopCloses, Clears, Goes, Begins, SameThreads
<1>8. ASSUME NEW t \in OpenerThreads, Notified(t) PROVE CallerInv'
  BY <1>0, <1>8 DEF Notified, Goes
<1>9. ASSUME NEW t \in OpenerThreads, Added(t) PROVE CallerInv'
  BY <1>0, <1>9 DEF Added, Goes
<1>10. ASSUME NEW t \in OpenerThreads, ChangeIsSet(t) PROVE CallerInv'
  BY <1>0, <1>10 DEF ChangeIsSet, Swapped, Goes, workerVars
<1>11. ASSUME NEW t \in OpenerThreads, CloseIsSent(t) PROVE CallerInv'
  BY <1>0, <1>11 DEF CloseIsSent, Goes, workerVars
<1>12. ASSUME NEW m \in Packets, OpenerReceives(m) PROVE CallerInv'
  BY <1>0, <1>12 DEF OpenerReceives, Takes, Clears, Goes, Begins, SameThreads, workerVars
<1>13. ASSUME NEW id \in Streams, ManagerVisits("stop", id) PROVE CallerInv'
  BY <1>0, <1>13 DEF ManagerVisits, Clears, Goes, Begins, workerVars
<1>14. CASE OpenerRests
  BY <1>0, <1>14 DEF OpenerRests, workerVars
<1>. QED  BY <1>1, <1>2, <1>3, <1>4, <1>5, <1>6, <1>7, <1>8, <1>9, <1>10, <1>11, <1>12, <1>13,
             <1>14 DEF OpenerMove

\* The network thread and the one that stops the socket keep to their steps.
LEMMA NetworkStays ==
    ASSUME ThreadsOK, TypeOK, NetworkInv, OpenerMove
    PROVE  NetworkInv'
<1>0. /\ Threads = {"caller", "io", "stop", "sio", "app"} /\ Ends = {"opener", "acceptor"}
      /\ OpenerThreads = {"caller", "io", "stop"}
      /\ \A t \in OpenerThreads : End(t) = "opener"
      /\ active \in BOOLEAN /\ started \in BOOLEAN /\ stopped \in BOOLEAN /\ kept \in BOOLEAN
      /\ Peer("opener") = "acceptor"
  BY DEF Threads, Ends, OpenerThreads, End, Peer, TypeOK
<1>. USE DEF NetworkInv, At, Changes, Ended
<1>1. ASSUME NEW id \in Streams, CallOpens(id) PROVE NetworkInv'
  BY <1>0, <1>1 DEF CallOpens, WorkerIsCalled, Goes
<1>2. CASE CallWaits
  BY <1>0, <1>2 DEF CallWaits, WorkerIsCalled, StreamsRest, SameThreads
<1>3. CASE TaskSkips
  BY <1>0, <1>3 DEF TaskSkips, StreamsRest, SameThreads
<1>4. CASE RunTask /\ StreamsRest
  BY <1>0, <1>4 DEF RunTask, StreamsRest, SameThreads
<1>5. CASE ManagerClose /\ StreamsRest
  BY <1>0, <1>5 DEF ManagerClose, StreamsRest, SameThreads
<1>6. CASE OpenGoesOn
  BY <1>0, <1>6 DEF OpenGoesOn, Goes, Begins, workerVars
<1>7. CASE OpenReturns
  BY <1>0, <1>7 DEF OpenReturns, Goes
<1>8. CASE StopCloses
  BY <1>0, <1>8 DEF StopCloses, Clears, Goes, Begins, SameThreads
<1>9. ASSUME NEW t \in OpenerThreads, Notified(t) PROVE NetworkInv'
  BY <1>0, <1>9 DEF Notified, Goes
<1>10. ASSUME NEW t \in OpenerThreads, Added(t) PROVE NetworkInv'
  BY <1>0, <1>10 DEF Added, Goes
<1>11. ASSUME NEW t \in OpenerThreads, ChangeIsSet(t) PROVE NetworkInv'
  BY <1>0, <1>11 DEF ChangeIsSet, Swapped, Goes, workerVars
<1>12. ASSUME NEW t \in OpenerThreads, CloseIsSent(t) PROVE NetworkInv'
  BY <1>0, <1>12 DEF CloseIsSent, Goes, workerVars
<1>13. ASSUME NEW m \in Packets, OpenerReceives(m) PROVE NetworkInv'
  BY <1>0, <1>13 DEF OpenerReceives, Takes, Clears, Goes, Begins, SameThreads, workerVars
<1>14. ASSUME NEW id \in Streams, ManagerVisits("stop", id) PROVE NetworkInv'
  BY <1>0, <1>14 DEF ManagerVisits, Clears, Goes, Begins, workerVars
<1>15. CASE OpenerRests
  BY <1>0, <1>15 DEF OpenerRests, workerVars
<1>. QED  BY <1>1, <1>2, <1>3, <1>4, <1>5, <1>6, <1>7, <1>8, <1>9, <1>10, <1>11, <1>12, <1>13, <1>14,
     <1>15 DEF OpenerMove

(***************************************************************************)
(* Packets.                                                                *)
(***************************************************************************)

Single(set) == \A i, j \in set : i = j

\* A packet that is taken was at the front; of a kind there is only one of, none is left.
LEMMA PositionsOfTail ==
    ASSUME NEW old \in Seq(Packets), old # <<>>, NEW type, NEW id
    PROVE  /\ PositionsOf(Tail(old), type, id) # {} => PositionsOf(old, type, id) # {}
           /\ Single(PositionsOf(old, type, id)) => Single(PositionsOf(Tail(old), type, id))
           /\ Head(old).type = type /\ Head(old).id = id /\ Single(PositionsOf(old, type, id))
                 => PositionsOf(Tail(old), type, id) = {}
           /\ Head(old).type = type /\ Head(old).id = id => PositionsOf(old, type, id) # {}
<1>1. /\ Len(old) \in Nat \ {0} /\ Len(Tail(old)) = Len(old) - 1 /\ Head(old) = old[1]
      /\ \A i \in 1 .. Len(Tail(old)) : Tail(old)[i] = old[i + 1]
  OBVIOUS
<1>2. \A i \in PositionsOf(Tail(old), type, id) : i \in Nat \ {0} /\ i + 1 \in PositionsOf(old, type, id)
  BY <1>1 DEF PositionsOf
<1>3. Head(old).type = type /\ Head(old).id = id => 1 \in PositionsOf(old, type, id)
  BY <1>1 DEF PositionsOf
<1>4. ASSUME NEW i \in PositionsOf(Tail(old), type, id), NEW j \in PositionsOf(Tail(old), type, id),
             Single(PositionsOf(old, type, id))
      PROVE  i = j
  <2>1. i + 1 = j + 1
    BY <1>2, <1>4 DEF Single
  <2>. QED  BY <1>2, <2>1
<1>5. ASSUME NEW i \in PositionsOf(Tail(old), type, id), Single(PositionsOf(old, type, id)),
             Head(old).type = type /\ Head(old).id = id
      PROVE  FALSE
  <2>1. i + 1 = 1
    BY <1>2, <1>3, <1>5 DEF Single
  <2>. QED  BY <1>2, <2>1
<1>. QED  BY <1>2, <1>3, <1>4, <1>5 DEF Single

\* A packet that is written is the last one.
LEMMA PositionsOfAppend ==
    ASSUME NEW old \in Seq(Packets), NEW p \in Packets, NEW type, NEW id
    PROVE  PositionsOf(Append(old, p), type, id)
             = PositionsOf(old, type, id)
                 \cup (IF p.type = type /\ p.id = id THEN {Len(old) + 1} ELSE {})
<1>1. /\ Len(old) \in Nat /\ Len(Append(old, p)) = Len(old) + 1
      /\ Append(old, p)[Len(old) + 1] = p
      /\ \A i \in 1 .. Len(old) : Append(old, p)[i] = old[i]
  OBVIOUS
<1>2. 1 .. Len(old) + 1 = (1 .. Len(old)) \cup {Len(old) + 1}
  BY <1>1
<1>3. Len(old) + 1 \notin 1 .. Len(old)
  BY <1>1
<1>. QED  BY <1>1, <1>2, <1>3 DEF PositionsOf

\* The packets that this step sends to an end.
Sends(e, type, id) ==
    /\ connected /\ connected'
    /\ \/ /\ type = "CREATE" /\ e = "acceptor"
          /\ At("caller") = "create" /\ On("caller") = id /\ ~Unsent(id)'
       \/ type = "CLOSE" /\ \E t \in Threads : Peer(End(t)) = e /\ At(t) = "sendClose" /\ On(t) = id
       \/ /\ type = "SUCCESS" /\ e = "opener" /\ At("sio") = "success" /\ On("sio") = id
          /\ state["acceptor"][id] = "CONNECTED" /\ ~InSio(id)'
       \/ type = "FAIL" /\ e = "opener" /\ At("sio") = "sendFail" /\ On("sio") = id
       \/ type = "RESPONSE" /\ e = "opener" /\ state["acceptor"][id] = "CONNECTED"

WireStep(e) ==
    \/ wire'[e] = wire[e]
    \/ WireIsCut /\ wire'[e] = <<>>
    \/ \E m \in Packets : Takes(e, m) /\ (e = "opener" => OpenerReceives(m))
    \/ \E p \in Packets : wire'[e] = Append(wire[e], p) /\ Sends(e, p.type, p.id)

\* What a write does to the wires.
LEMMA Written ==
    ASSUME TypeOK, NEW e \in Ends, NEW to \in Ends, NEW type \in PacketTypes, NEW id \in Streams,
           Write(e, type, id)
    PROVE  \/ wire'[to] = wire[to]
           \/ /\ connected /\ to = Peer(e)
              /\ \E p \in Packets : /\ wire'[to] = Append(wire[to], p)
                                    /\ p.type = type /\ p.id = id
<1>1. wire \in [Ends -> Seq(Packets)]
  BY DEF TypeOK, StreamTypeOK
<1>2. [type |-> type, id |-> id] \in Packets
  BY DEF Packets
<1>. QED  BY <1>1, <1>2 DEF Write

\* What every step does to them.
LEMMA WiresMove ==
    ASSUME ThreadsOK, TypeOK, Step, NEW e \in Ends
    PROVE  WireStep(e)
<1>0. /\ Threads = {"caller", "io", "stop", "sio", "app"} /\ Ends = {"opener", "acceptor"}
      /\ \A d \in Ends : Peer(d) \in Ends /\ (e # d => e = Peer(d))
      /\ \A t \in Threads : End(t) \in Ends /\ (At(t) # "idle" => On(t) \in Streams)
      /\ End("caller") = "opener" /\ End("sio") = "acceptor" /\ Peer("opener") = "acceptor"
      /\ Peer("acceptor") = "opener"
      /\ PacketTypes = {"CREATE", "SUCCESS", "FAIL", "RESPONSE", "CLOSE"}
  BY DEF Threads, Ends, Peer, End, ThreadsOK, PacketTypes
<1>u. ASSUME UNCHANGED wire PROVE WireStep(e)
  BY <1>u DEF WireStep
<1>1. CASE OpenGoesOn
  <2>1. UNCHANGED wire \/ /\ At("caller") = "create" /\ Write("opener", "CREATE", On("caller"))
                          /\ Goes("caller", "waiting", On("caller"))
                          /\ Status(On("caller")) = "CONNECT_AWAIT" /\ SameState("opener")
                          /\ connected' = connected
    BY <1>1 DEF OpenGoesOn
  <2>2. ASSUME /\ At("caller") = "create" /\ Write("opener", "CREATE", On("caller"))
               /\ Goes("caller", "waiting", On("caller"))
               /\ Status(On("caller")) = "CONNECT_AWAIT" /\ SameState("opener")
               /\ connected' = connected
        PROVE  WireStep(e)
    <3>2. PICK id \in Streams : id = On("caller")
      BY <1>0, <2>2
    <3>1. ~Unsent(id)'
      BY <1>0, <2>2, <3>2 DEF Goes, Unsent, Status, SameState, At, On
    <3>3. \/ wire'[e] = wire[e]
          \/ /\ connected /\ e = Peer("opener")
             /\ \E p \in Packets : /\ wire'[e] = Append(wire[e], p)
                                   /\ p.type = "CREATE" /\ p.id = On("caller")
      BY <1>0, <2>2, <3>2, Written
    <3>. QED  BY <1>0, <2>2, <3>1, <3>2, <3>3 DEF WireStep, Sends
  <2>. QED  BY <1>u, <2>1, <2>2
<1>2. ASSUME NEW t \in Threads, CloseIsSent(t) PROVE WireStep(e)
  <2>1. \/ wire'[e] = wire[e]
        \/ /\ connected /\ e = Peer(End(t))
           /\ \E p \in Packets : wire'[e] = Append(wire[e], p) /\ p.type = "CLOSE" /\ p.id = On(t)
    BY <1>0, <1>2, Written DEF CloseIsSent
  <2>. QED  BY <1>0, <1>2, <2>1 DEF CloseIsSent, WireStep, Sends
<1>3. ASSUME NEW m \in Packets, OpenerReceives(m) PROVE WireStep(e)
  <2>1. Takes("opener", m)
    BY <1>3 DEF OpenerReceives
  <2>2. e = "acceptor" => wire'[e] = wire[e]
    BY <1>0, <2>1 DEF Takes
  <2>. QED  BY <1>0, <1>3, <2>1, <2>2 DEF WireStep
<1>4. ASSUME NEW m \in Packets, CreateArrives(m) \/ CloseArrives(m) PROVE WireStep(e)
  <2>1. Takes("acceptor", m)
    BY <1>4 DEF CreateArrives, CloseArrives
  <2>2. e = "opener" => wire'[e] = wire[e]
    BY <1>0, <2>1 DEF Takes
  <2>. QED  BY <1>0, <2>1, <2>2 DEF WireStep
<1>5. CASE AcceptorAnswers
  <2>1. CASE UNCHANGED wire
    BY <1>u, <2>1
  <2>2. CASE /\ At("sio") = "success" /\ state["acceptor"][On("sio")] = "CONNECTED"
             /\ Write("acceptor", "SUCCESS", On("sio")) /\ Goes("sio", "idle", On("sio"))
    <3>0. PICK id \in Streams : id = On("sio")
      BY <1>0, <2>2
    <3>1. ~InSio(id)'
      BY <1>0, <2>2, <3>0 DEF Goes, InSio, Doing
    <3>2. \/ wire'[e] = wire[e]
          \/ /\ connected /\ e = Peer("acceptor")
             /\ \E p \in Packets : /\ wire'[e] = Append(wire[e], p)
                                   /\ p.type = "SUCCESS" /\ p.id = On("sio")
      BY <1>0, <2>2, Written
    <3>. QED  BY <1>0, <1>5, <2>2, <3>0, <3>1, <3>2 DEF AcceptorAnswers, WireStep, Sends
  <2>3. CASE At("sio") = "sendFail" /\ Write("acceptor", "FAIL", On("sio"))
    <3>1. \/ wire'[e] = wire[e]
          \/ /\ connected /\ e = Peer("acceptor")
             /\ \E p \in Packets : /\ wire'[e] = Append(wire[e], p)
                                   /\ p.type = "FAIL" /\ p.id = On("sio")
      BY <1>0, <2>3, Written
    <3>. QED  BY <1>0, <1>5, <2>3, <3>1 DEF AcceptorAnswers, WireStep, Sends
  <2>. QED  BY <1>5, <2>1, <2>2, <2>3 DEF AcceptorAnswers
<1>6. ASSUME NEW id \in Streams, AppUses(id) PROVE WireStep(e)
  <2>1. CASE UNCHANGED wire
    BY <1>u, <2>1
  <2>2. CASE state["acceptor"][id] = "CONNECTED" /\ Write("acceptor", "RESPONSE", id)
    <3>1. \/ wire'[e] = wire[e]
          \/ /\ connected /\ e = Peer("acceptor")
             /\ \E p \in Packets : /\ wire'[e] = Append(wire[e], p)
                                   /\ p.type = "RESPONSE" /\ p.id = id
      BY <1>0, <2>2, Written
    <3>. QED  BY <1>0, <1>6, <2>2, <3>1 DEF AppUses, WireStep, Sends
  <2>. QED  BY <1>6, <2>1, <2>2 DEF AppUses
<1>7. CASE WireIsCut
  BY <1>7 DEF WireIsCut, WireStep
<1>8. ASSUME NEW t \in Threads, Notified(t) \/ Added(t) \/ ChangeIsSet(t) PROVE UNCHANGED wire
  BY <1>8 DEF Notified, Added, ChangeIsSet
<1>9. ASSUME NEW t \in Threads, ManagerStarts(t) \/ \E id \in Streams : ManagerVisits(t, id)
      PROVE  UNCHANGED wire
  BY <1>9 DEF ManagerStarts, ManagerVisits
<1>10. CASE CallWaits \/ TaskSkips \/ OpenReturns \/ StopCloses \/ StreamsRest
            \/ \E id \in Streams : CallOpens(id)
  BY <1>10, <1>u DEF CallWaits, TaskSkips, OpenReturns, StopCloses, StreamsRest, CallOpens
<1>. QED  BY <1>1, <1>2, <1>3, <1>4, <1>5, <1>6, <1>7, <1>8, <1>9, <1>10, <1>u DEF Step

\* A packet on a wire was there or is sent by this step; one of a kind stays one.
LEMMA PacketsMove ==
    ASSUME TypeOK, NEW e \in Ends, WireStep(e), NEW type, NEW id
    PROVE  /\ PacketsOf(e, type, id)' # {} => PacketsOf(e, type, id) # {} \/ Sends(e, type, id)
           /\ Single(PacketsOf(e, type, id)) /\ (Sends(e, type, id) => PacketsOf(e, type, id) = {})
                 => Single(PacketsOf(e, type, id)')
<1>0. wire[e] \in Seq(Packets)
  BY DEF TypeOK, StreamTypeOK
<1>1. CASE wire'[e] = wire[e]
  BY <1>1 DEF PacketsOf
<1>2. CASE wire'[e] = <<>>
  BY <1>2 DEF PacketsOf, PositionsOf, Single
<1>3. CASE \E m \in Packets : Takes(e, m)
  BY <1>0, <1>3, PositionsOfTail DEF Takes, PacketsOf
<1>4. ASSUME NEW p \in Packets, wire'[e] = Append(wire[e], p), Sends(e, p.type, p.id)
      PROVE  /\ PacketsOf(e, type, id)' # {} => PacketsOf(e, type, id) # {} \/ Sends(e, type, id)
             /\ Single(PacketsOf(e, type, id)) /\ (Sends(e, type, id) => PacketsOf(e, type, id) = {})
                   => Single(PacketsOf(e, type, id)')
  <2>1. PacketsOf(e, type, id)'
          = PacketsOf(e, type, id)
              \cup (IF p.type = type /\ p.id = id THEN {Len(wire[e]) + 1} ELSE {})
    BY <1>0, <1>4, PositionsOfAppend DEF PacketsOf
  <2>2. CASE p.type = type /\ p.id = id
    BY <1>4, <2>1, <2>2 DEF Single
  <2>3. CASE ~(p.type = type /\ p.id = id)
    BY <2>1, <2>3
  <2>. QED  BY <2>2, <2>3
<1>. QED  BY <1>1, <1>2, <1>3, <1>4 DEF WireStep

\* A stream that the acceptor knows it has known, or it comes with a CREATE.
LEMMA AcceptorKnows ==
    ASSUME ThreadsOK, TypeOK, AcceptorInv, Step, NEW id \in Streams,
           state'["acceptor"][id] = "NEW"
    PROVE  state["acceptor"][id] = "NEW"
<1>0. /\ Threads = {"caller", "io", "stop", "sio", "app"} /\ Ends = {"opener", "acceptor"}
      /\ \A t \in Threads : End(t) \in Ends
      /\ state["acceptor"] \in [Streams -> StateCodes]
      /\ Peer("opener") = "acceptor" /\ Peer("acceptor") = "opener"
  BY DEF Threads, Ends, End, TypeOK, StreamTypeOK, Peer
<1>1. ASSUME NEW t \in Threads, ChangeIsSet(t) PROVE state["acceptor"][id] = "NEW"
  <2>1. CASE End(t) = "opener"
    BY <1>0, <1>1, <2>1 DEF ChangeIsSet, Swapped
  <2>2. CASE End(t) = "acceptor"
    <3>1. thread[t].next # "NEW"
      BY <1>1, <2>2 DEF AcceptorInv, ChangeIsSet, Swapped, At, Ended, End
    <3>. QED  BY <1>0, <1>1, <2>2, <3>1 DEF ChangeIsSet, Swapped
  <2>. QED  BY <1>0, <2>1, <2>2
<1>2. ASSUME NEW m \in Packets, CreateArrives(m) PROVE state["acceptor"][id] = "NEW"
  BY <1>0, <1>2 DEF CreateArrives
<1>3. ASSUME SameState("acceptor") PROVE state["acceptor"][id] = "NEW"
  BY <1>3 DEF SameState
<1>4. CASE (\E i \in Streams : CallOpens(i)) \/ CallWaits \/ TaskSkips \/ StreamsRest
  BY <1>0, <1>3, <1>4 DEF CallOpens, CallWaits, TaskSkips, StreamsRest
<1>5. CASE OpenGoesOn \/ OpenReturns \/ StopCloses \/ AcceptorAnswers \/ WireIsCut
  BY <1>0, <1>3, <1>5 DEF OpenGoesOn, OpenReturns, StopCloses, AcceptorAnswers, WireIsCut
<1>6. ASSUME NEW t \in Threads, \/ Notified(t) \/ Added(t) \/ CloseIsSent(t) \/ ManagerStarts(t)
                                \/ \E i \in Streams : ManagerVisits(t, i)
      PROVE  state["acceptor"][id] = "NEW"
  BY <1>0, <1>3, <1>6 DEF Notified, Added, CloseIsSent, ManagerStarts, ManagerVisits
<1>7. ASSUME NEW m \in Packets, OpenerReceives(m) \/ CloseArrives(m)
      PROVE  state["acceptor"][id] = "NEW"
  BY <1>3, <1>7 DEF OpenerReceives, CloseArrives
<1>8. ASSUME NEW i \in Streams, AppUses(i) PROVE state["acceptor"][id] = "NEW"
  BY <1>3, <1>8 DEF AppUses
<1>. QED  BY <1>1, <1>2, <1>4, <1>5, <1>6, <1>7, <1>8 DEF Step

\* What arrives at the opener is about streams the acceptor knows.
LEMMA PacketsStay ==
    ASSUME ThreadsOK, TypeOK, CreateInv, AcceptorInv, NetworkInv, PacketsInv, Step, ThreadsOK'
    PROVE  PacketsInv'
<1>0. /\ Threads = {"caller", "io", "stop", "sio", "app"} /\ Ends = {"opener", "acceptor"}
      /\ OpenerThreads = {"caller", "io", "stop"} /\ Peer("acceptor") = "opener"
      /\ \A t \in Threads : At(t) # "idle" => On(t) \in Streams
      /\ \A t \in Threads : Peer(End(t)) = "opener" => t \in {"sio", "app"}
      /\ wire["opener"] \in Seq(Packets)
  BY DEF Threads, Ends, OpenerThreads, End, Peer, ThreadsOK, TypeOK, StreamTypeOK
<1>1. ASSUME NEW type \in PacketTypes, NEW id \in Streams, PacketsOf("opener", type, id)' # {}
      PROVE  state'["acceptor"][id] # "NEW"
  <2>1. PacketsOf("opener", type, id) # {} \/ Sends("opener", type, id)
    BY <1>0, <1>1, WiresMove, PacketsMove
  <2>2. state["acceptor"][id] # "NEW"
    BY <1>0, <1>1, <2>1 DEF PacketsInv, Sends, CreateInv
  <2>. QED  BY <2>2, AcceptorKnows
<1>2. ASSUME NEW id \in Streams, thread'["io"].at # "idle", thread'["io"].id = id
      PROVE  state["acceptor"][id] # "NEW"
  <2>1. CASE thread["io"].at # "idle" /\ thread["io"].id = id
    BY <2>1 DEF PacketsInv, At, On
  <2>2. ASSUME NEW m \in Packets, OpenerReceives(m) PROVE state["acceptor"][id] # "NEW"
    <3>1. m.type \in PacketTypes /\ m.id \in Streams /\ wire["opener"] # <<>> /\ m = Head(wire["opener"])
      BY <2>2 DEF OpenerReceives, Takes, Packets
    <3>2. PacketsOf("opener", m.type, m.id) # {}
      BY <1>0, <3>1, PositionsOfTail DEF PacketsOf
    <3>3. state["acceptor"][m.id] # "NEW"
      BY <3>1, <3>2 DEF PacketsInv
    <3>4. m.id = id
      BY <1>0, <1>2, <2>2 DEF OpenerReceives, Takes, Goes, Begins, Clears, SameThreads, At
    <3>. QED  BY <3>3, <3>4
  <2>3. OpenerMove
    BY OpenerSees
  <2>4. ASSUME NEW t \in OpenerThreads, Notified(t) \/ Added(t) \/ ChangeIsSet(t) \/ CloseIsSent(t)
        PROVE  thread["io"].at # "idle" /\ thread["io"].id = id
    <3>1. CASE t = "io"
      BY <1>0, <1>2, <2>4, <3>1
         DEF Notified, Added, ChangeIsSet, Swapped, CloseIsSent, Goes, At, On
    <3>2. CASE t # "io"
      BY <1>0, <1>2, <2>4, <3>2
         DEF Notified, Added, ChangeIsSet, Swapped, CloseIsSent, Goes
    <3>. QED  BY <3>1, <3>2
  <2>5. CASE (\E i \in Streams : CallOpens(i) \/ ManagerVisits("stop", i)) \/ OpenGoesOn
             \/ OpenReturns \/ StopCloses
    BY <1>0, <1>2, <2>1, <2>5 DEF CallOpens, ManagerVisits, OpenGoesOn, OpenReturns, StopCloses,
                                  Goes, Begins, Clears, SameThreads
  <2>6. CASE CallWaits \/ TaskSkips \/ StreamsRest \/ OpenerRests
    BY <1>0, <1>2, <2>1, <2>6 DEF CallWaits, TaskSkips, StreamsRest, SameThreads, OpenerRests
  <2>. QED  BY <2>1, <2>2, <2>3, <2>4, <2>5, <2>6 DEF OpenerMove
<1>3. At("io")' # "idle" => state'["acceptor"][On("io")'] # "NEW"
  <2>. SUFFICES ASSUME thread'["io"].at # "idle" PROVE state'["acceptor"][thread'["io"].id] # "NEW"
    BY DEF At, On
  <2>2. PICK id \in Streams : id = thread'["io"].id
    BY <1>0 DEF ThreadsOK, At, On
  <2>. QED  BY <1>2, <2>2, AcceptorKnows
<1>. QED  BY <1>1, <1>3 DEF PacketsInv, At, On

(***************************************************************************)
(* The create of a stream.                                                 *)
(***************************************************************************)

\* A stream's create goes from one place to the next, and leaves the one it was in.
Forward(id) ==
    /\ Unsent(id)'    => Unsent(id)
    /\ InCreate(id)'  => InCreate(id) \/ (Unsent(id) /\ ~Unsent(id)')
    /\ InSio(id)'     => InSio(id) \/ (InCreate(id) /\ ~InCreate(id)')
    /\ InSuccess(id)' => InSuccess(id) \/ (InSio(id) /\ ~InSio(id)')
    /\ InIo(id)'      => InIo(id) \/ (InSuccess(id) /\ ~InSuccess(id)')
    /\ InState(id)'   => InState(id) \/ (InIo(id) /\ ~InIo(id)')

\* On its wires.
LEMMA WiresForward ==
    ASSUME ThreadsOK, TypeOK, CreateInv, Step, NEW id \in Streams
    PROVE  /\ InCreate(id)' => InCreate(id) \/ (Unsent(id) /\ ~Unsent(id)')
           /\ InSuccess(id)' => InSuccess(id) \/ (InSio(id) /\ ~InSio(id)')
           /\ Single(PacketsOf("opener", "SUCCESS", id)) /\ (InSio(id) => ~InSuccess(id))
                 => Single(PacketsOf("opener", "SUCCESS", id)')
<1>0. "opener" \in Ends /\ "acceptor" \in Ends
  BY DEF Ends
<1>1. Sends("acceptor", "CREATE", id) => Unsent(id) /\ ~Unsent(id)'
  BY DEF Sends, Unsent, At, On
<1>2. Sends("opener", "SUCCESS", id) => InSio(id) /\ ~InSio(id)'
  BY DEF Sends, InSio, Doing, At, On
<1>3. InCreate(id)' => InCreate(id) \/ Sends("acceptor", "CREATE", id)
  BY <1>0, WiresMove, PacketsMove DEF InCreate
<1>4. InSuccess(id)' => InSuccess(id) \/ Sends("opener", "SUCCESS", id)
  BY <1>0, WiresMove, PacketsMove DEF InSuccess
<1>5. Single(PacketsOf("opener", "SUCCESS", id)) /\ (InSio(id) => ~InSuccess(id))
         => Single(PacketsOf("opener", "SUCCESS", id)')
  <2>1. WireStep("opener")
    BY <1>0, WiresMove
  <2>2. Single(PacketsOf("opener", "SUCCESS", id))
          /\ (Sends("opener", "SUCCESS", id) => PacketsOf("opener", "SUCCESS", id) = {})
          => Single(PacketsOf("opener", "SUCCESS", id)')
    BY <1>0, <2>1, PacketsMove
  <2>. QED  BY <1>2, <2>2 DEF InSuccess
<1>. QED  BY <1>1, <1>2, <1>3, <1>4, <1>5

\* The only packet of its kind is taken.
LEMMA TakenIsLast ==
    ASSUME TypeOK, NEW e \in Ends, NEW m \in Packets, Takes(e, m)
    PROVE  /\ PacketsOf(e, m.type, m.id) # {}
           /\ Single(PacketsOf(e, m.type, m.id)) => PacketsOf(e, m.type, m.id)' = {}
<1>1. /\ wire[e] \in Seq(Packets) /\ wire[e] # <<>> /\ m = Head(wire[e])
      /\ wire'[e] = Tail(wire[e])
  BY DEF TypeOK, StreamTypeOK, Takes
<1>2. /\ PositionsOf(wire[e], m.type, m.id) # {}
      /\ Single(PositionsOf(wire[e], m.type, m.id))
            => PositionsOf(Tail(wire[e]), m.type, m.id) = {}
  <2>. DEFINE old == wire[e]  type == m.type  id == m.id
  <2>1. old \in Seq(Packets) /\ old # <<>> /\ Head(old).type = type /\ Head(old).id = id
    BY <1>1
  <2>. HIDE DEF old, type, id
  <2>2. /\ PositionsOf(old, type, id) # {}
        /\ Single(PositionsOf(old, type, id)) => PositionsOf(Tail(old), type, id) = {}
    BY <2>1, PositionsOfTail
  <2>. QED  BY <2>2 DEF old, type, id
<1>. QED  BY <1>1, <1>2 DEF PacketsOf

\* At the opener's threads and in its state.
LEMMA OpenerForward ==
    ASSUME ThreadsOK, TypeOK, AcceptorInv, CallerInv, NetworkInv, TokenInv, OpenerMove,
           NEW id \in Streams
    PROVE  /\ Unsent(id)' => Unsent(id)
           /\ InIo(id)' => InIo(id) \/ (InSuccess(id) /\ ~InSuccess(id)')
           /\ InState(id)' => InState(id) \/ (InIo(id) /\ ~InIo(id)')
<1>. DEFINE P == /\ Unsent(id)' => Unsent(id)
                 /\ InIo(id)' => InIo(id) \/ (InSuccess(id) /\ ~InSuccess(id)')
                 /\ InState(id)' => InState(id) \/ (InIo(id) /\ ~InIo(id)')
<1>0. /\ Threads = {"caller", "io", "stop", "sio", "app"} /\ Ends = {"opener", "acceptor"}
      /\ OpenerThreads = {"caller", "io", "stop"} /\ Peer("opener") = "acceptor"
      /\ \A t \in OpenerThreads : End(t) = "opener"
      /\ state["opener"] \in [Streams -> StateCodes]
      /\ wire["opener"] \in Seq(Packets)
  BY DEF Threads, Ends, OpenerThreads, End, Peer, TypeOK, StreamTypeOK
<1>a. ASSUME SameState("opener"), thread'["caller"] = thread["caller"],
             thread'["io"] = thread["io"]
      PROVE  P
  BY <1>a DEF SameState, Unsent, InIo, InState, Status, At, On
<1>1. ASSUME NEW i \in Streams, CallOpens(i) PROVE P
  BY <1>0, <1>1 DEF CallOpens, Goes, SameState, Unsent, InIo, InState, Status, At, On
<1>2. CASE CallWaits \/ TaskSkips \/ StreamsRest \/ OpenerRests
  BY <1>0, <1>2, <1>a DEF CallWaits, TaskSkips, StreamsRest, OpenerRests, SameThreads
<1>3. CASE OpenGoesOn
  BY <1>0, <1>3 DEF OpenGoesOn, Goes, Begins, SameState, Unsent, InIo, InState, Status, At, On
<1>4. CASE OpenReturns
  BY <1>0, <1>4 DEF OpenReturns, Goes, SameState, Unsent, InIo, InState, Status, At, On
<1>5. CASE StopCloses
  BY <1>0, <1>5 DEF StopCloses, Clears, Goes, Begins, SameThreads, SameState, Unsent, InIo,
                    InState, Status, At, On
<1>6. ASSUME NEW t \in OpenerThreads, Notified(t) \/ Added(t) \/ CloseIsSent(t) PROVE P
  <2>1. SameState("opener")
    BY <1>0, <1>6 DEF Notified, Added, CloseIsSent
  <2>2. /\ \A u \in Threads \ {t} : thread'[u] = thread[u]
        /\ thread'[t].at \in {thread[t].then, "addReactive", "idle"}
        /\ thread'[t].then \in {thread[t].then, "idle"}
        /\ thread'[t].at # "idle" => thread'[t].id = On(t)
        /\ thread[t].then # "change" => thread'[t].at # "change"
    BY <1>0, <1>6 DEF Notified, Added, CloseIsSent, Goes
  <2>3. thread["io"].then # "change"
    BY DEF NetworkInv
  <2>4. thread'["caller"].at = "idle" => thread'["caller"].then = "idle"
    BY <1>0, <1>6 DEF Notified, Added, CloseIsSent, Goes, CallerInv, Changes, At
  <2>. QED  BY <1>0, <2>1, <2>2, <2>3, <2>4 DEF SameState, Unsent, InIo, InState, Status, At, On
<1>7. ASSUME NEW t \in OpenerThreads, ChangeIsSet(t) PROVE P
  <2>1. CASE t = "io"
    BY <1>0, <1>7, <2>1 DEF ChangeIsSet, Swapped, Goes, NetworkInv, Ended, Unsent, InIo, InState,
                            Status, At, On
  <2>2. CASE t = "caller"
    BY <1>0, <1>7, <2>2 DEF ChangeIsSet, Swapped, Goes, CallerInv, Ended, Unsent, InIo, InState,
                            Status, At, On
  <2>3. CASE t = "stop"
    BY <1>0, <1>7, <2>3 DEF ChangeIsSet, Swapped, Goes, NetworkInv, Ended, Unsent, InIo, InState,
                            Status, At, On
  <2>. QED  BY <1>0, <2>1, <2>2, <2>3
<1>8. ASSUME NEW m \in Packets, OpenerReceives(m) PROVE P
  <2>1. thread'["caller"] = thread["caller"] /\ SameState("opener")
    BY <1>0, <1>8 DEF OpenerReceives, Goes, Begins, Clears, SameThreads
  <2>2. ASSUME InIo(id)' PROVE m.type = "SUCCESS" /\ m.id = id
    BY <1>0, <1>8, <2>2 DEF OpenerReceives, Goes, Begins, Clears, SameThreads, InIo, At, On
  <2>3. ASSUME m.type = "SUCCESS", m.id = id PROVE InSuccess(id) /\ ~InSuccess(id)'
    <3>1. Takes("opener", m)
      BY <1>8 DEF OpenerReceives
    <3>2. Single(PacketsOf("opener", "SUCCESS", id))
      BY DEF TokenInv, Single
    <3>. QED  BY <1>0, <2>3, <3>1, <3>2, TakenIsLast DEF InSuccess
  <2>. QED  BY <2>1, <2>2, <2>3 DEF SameState, Unsent, InState, Status, At, On
<1>9. ASSUME NEW i \in Streams, ManagerVisits("stop", i) PROVE P
  BY <1>0, <1>9, <1>a DEF ManagerVisits, Goes, Begins, Clears
<1>. QED  BY <1>1, <1>2, <1>3, <1>4, <1>5, <1>6, <1>7, <1>8, <1>9 DEF OpenerMove

\* At the acceptor's network thread.
LEMMA AcceptorForward ==
    ASSUME ThreadsOK, TypeOK, AcceptorInv, CreateInv, Step, NEW id \in Streams
    PROVE  InSio(id)' => InSio(id) \/ (InCreate(id) /\ ~InCreate(id)')
<1>0. /\ Threads = {"caller", "io", "stop", "sio", "app"} /\ Ends = {"opener", "acceptor"}
      /\ wire["acceptor"] \in Seq(Packets)
  BY DEF Threads, Ends, TypeOK, StreamTypeOK
<1>. SUFFICES ASSUME InSio(id)', ~InSio(id) PROVE InCreate(id) /\ ~InCreate(id)'
  OBVIOUS
<1>s. ASSUME thread'["sio"] = thread["sio"] PROVE FALSE
  BY <1>s DEF InSio, Doing, On
<1>1. CASE (\E i \in Streams : CallOpens(i)) \/ OpenGoesOn \/ OpenReturns \/ StopCloses
  BY <1>0, <1>1, <1>s DEF CallOpens, OpenGoesOn, OpenReturns, StopCloses, Goes, Begins, Clears,
                          SameThreads
<1>2. CASE CallWaits \/ TaskSkips \/ StreamsRest \/ WireIsCut
  BY <1>0, <1>2, <1>s DEF CallWaits, TaskSkips, StreamsRest, WireIsCut, SameThreads
<1>3. ASSUME NEW t \in Threads, Notified(t) \/ Added(t) PROVE FALSE
  <2>1. t # "sio"
    BY <1>3 DEF AcceptorInv, Notified, Added, At
  <2>. QED  BY <1>0, <1>3, <1>s, <2>1 DEF Notified, Added, Goes
<1>4. ASSUME NEW t \in Threads, ChangeIsSet(t) PROVE FALSE
  <2>1. CASE t # "sio"
    BY <1>0, <1>4, <1>s, <2>1 DEF ChangeIsSet, Swapped, Goes
  <2>2. CASE t = "sio"
    BY <1>0, <1>4, <2>2 DEF ChangeIsSet, Swapped, Goes, InSio, Doing, End, On, At
  <2>. QED  BY <2>1, <2>2
<1>5. ASSUME NEW t \in Threads, CloseIsSent(t) PROVE FALSE
  BY <1>0, <1>5, <1>s DEF CloseIsSent, Goes, InSio, Doing, At, On
<1>6. ASSUME NEW m \in Packets, OpenerReceives(m) PROVE FALSE
  BY <1>0, <1>6, <1>s DEF OpenerReceives, Goes, Begins, Clears, SameThreads
<1>7. ASSUME NEW m \in Packets, CloseArrives(m) PROVE FALSE
  BY <1>0, <1>7, <1>s DEF CloseArrives, Goes, Begins, Clears, SameThreads, InSio, Doing, On, At
<1>8. ASSUME NEW t \in Threads, ManagerStarts(t) \/ \E i \in Streams : ManagerVisits(t, i)
      PROVE  FALSE
  BY <1>0, <1>8, <1>s DEF ManagerStarts, ManagerVisits, Goes, Begins, Clears, SameThreads, InSio,
                          Doing, On, At
<1>9. CASE AcceptorAnswers
  BY <1>0, <1>9 DEF AcceptorAnswers, Goes, Begins, Clears, InSio, Doing, On, At
<1>10. ASSUME NEW i \in Streams, AppUses(i) PROVE FALSE
  BY <1>0, <1>10, <1>s DEF AppUses, Goes, Begins, Clears, SameThreads
<1>11. ASSUME NEW m \in Packets, CreateArrives(m) PROVE InCreate(id) /\ ~InCreate(id)'
  <2>1. m.id = id /\ m.type = "CREATE" /\ Takes("acceptor", m)
    BY <1>11 DEF CreateArrives, Goes, InSio, Doing, On, At
  <2>2. Single(PacketsOf("acceptor", "CREATE", id))
    BY DEF CreateInv, Creates, CreatesIn, PacketsOf, PositionsOf, Single
  <2>. QED  BY <1>0, <2>1, <2>2, TakenIsLast DEF InCreate
<1>. QED  BY <1>1, <1>2, <1>3, <1>4, <1>5, <1>6, <1>7, <1>8, <1>9, <1>10, <1>11 DEF Step

\* The create of a stream is in one place.
LEMMA TokenStays ==
    ASSUME ThreadsOK, TypeOK, AcceptorInv, CallerInv, NetworkInv, CreateInv, TokenInv, Step
    PROVE  TokenInv'
<1>1. ASSUME NEW id \in Streams PROVE Forward(id)
  BY WiresForward, OpenerForward, AcceptorForward, OpenerSees DEF Forward
<1>2. ASSUME NEW id \in Streams PROVE Single(PacketsOf("opener", "SUCCESS", id)')
  BY WiresForward DEF TokenInv, Single
<1>3. ASSUME NEW id \in Streams
      PROVE  /\ Unsent(id)' => /\ ~InCreate(id)' /\ ~InSio(id)' /\ ~InSuccess(id)' /\ ~InIo(id)'
                               /\ ~InState(id)'
             /\ InCreate(id)'  => ~InSio(id)' /\ ~InSuccess(id)' /\ ~InIo(id)' /\ ~InState(id)'
             /\ InSio(id)'     => ~InSuccess(id)' /\ ~InIo(id)' /\ ~InState(id)'
             /\ InSuccess(id)' => ~InIo(id)' /\ ~InState(id)'
             /\ InIo(id)'      => ~InState(id)'
  BY <1>1 DEF Forward, TokenInv
<1>. QED  BY <1>2, <1>3 DEF TokenInv, Single

(***************************************************************************)
(* What the opener's threads are doing, and how far its streams are.       *)
(***************************************************************************)

\* A stream the acceptor knows has been created by the opener.
LEMMA KnownIsSent ==
    ASSUME CreateInv, NEW id \in Streams, state["acceptor"][id] # "NEW"
    PROVE  ~Unsent(id)
BY DEF CreateInv

\* A stream is where its caller has taken it, or has ended.
LEMMA StatusStays ==
    ASSUME ThreadsOK, TypeOK, CallerInv, NetworkInv, CreateInv, PacketsInv, StatusInv,
           NoRevival, OpenerMove
    PROVE  StatusInv'
<1>0. /\ Threads = {"caller", "io", "stop", "sio", "app"} /\ Ends = {"opener", "acceptor"}
      /\ OpenerThreads = {"caller", "io", "stop"}
      /\ \A t \in OpenerThreads : End(t) = "opener"
      /\ active \in BOOLEAN /\ started \in BOOLEAN /\ stopped \in BOOLEAN /\ kept \in BOOLEAN
      /\ Peer("opener") = "acceptor"
      /\ \A t \in OpenerThreads : At(t) # "idle" => On(t) \in Streams
      /\ state["opener"] \in [Streams -> StateCodes] /\ stream \in Streams \cup {0}
      /\ 0 \notin Streams
      /\ known["opener"] \in SUBSET Streams /\ todo["opener"] \in SUBSET Streams
  BY StreamsAssumption
     DEF Threads, Ends, OpenerThreads, End, Peer, TypeOK, StreamTypeOK, ThreadsOK
<1>. USE DEF StatusInv, CallerInv, At, On, Status, Opens, Changes, Ended, SameState
<1>1. ASSUME NEW id \in Streams, CallOpens(id) PROVE StatusInv'
  BY <1>0, <1>1 DEF CallOpens, WorkerIsCalled, Goes
<1>2. CASE CallWaits
  BY <1>0, <1>2 DEF CallWaits, WorkerIsCalled, StreamsRest, SameThreads
<1>3. CASE TaskSkips
  BY <1>0, <1>3 DEF TaskSkips, StreamsRest, SameThreads
<1>4. CASE RunTask /\ StreamsRest
  BY <1>0, <1>4 DEF RunTask, StreamsRest, SameThreads
<1>5. CASE ManagerClose /\ StreamsRest
  BY <1>0, <1>5 DEF ManagerClose, StreamsRest, SameThreads
<1>6. CASE OpenGoesOn
  BY <1>0, <1>6 DEF OpenGoesOn, Goes, Begins, workerVars
<1>7. CASE OpenReturns
  BY <1>0, <1>7 DEF OpenReturns, Goes
<1>8. CASE StopCloses
  BY <1>0, <1>8 DEF StopCloses, Clears, Goes, Begins, SameThreads
<1>9. ASSUME NEW t \in OpenerThreads, Notified(t) PROVE StatusInv'
  BY <1>0, <1>9 DEF Notified, Goes
<1>10. ASSUME NEW t \in OpenerThreads, Added(t) PROVE StatusInv'
  BY <1>0, <1>10 DEF Added, Goes
<1>11. ASSUME NEW t \in OpenerThreads, ChangeIsSet(t) PROVE StatusInv'
  <2>0. On(t) \in Streams /\ At(t) = "change" /\ UNCHANGED workerVars
    BY <1>0, <1>11 DEF ChangeIsSet, Swapped
  <2>1. CASE t = "caller"
    BY <1>0, <1>11, <2>0, <2>1 DEF ChangeIsSet, Swapped, Goes, workerVars, CanChange, ValidBefore
  <2>2. CASE t = "stop"
    BY <1>0, <1>11, <2>0, <2>2 DEF ChangeIsSet, Swapped, Goes, workerVars, NetworkInv
  <2>3. CASE t = "io"
    <3>1. ~Unsent(On("io"))
      BY <1>0, <2>0, <2>3, KnownIsSent DEF PacketsInv
    <3>2. /\ thread'["caller"] = thread["caller"] /\ thread'["stop"] = thread["stop"]
          /\ \A i \in Streams \ {On("io")} : state'["opener"][i] = state["opener"][i]
          /\ \/ state'["opener"][thread["io"].id] = state["opener"][thread["io"].id]
             \/ state'["opener"][thread["io"].id] \in Ended \cup {"CONNECTED"}
          /\ thread'["io"].at \in {"notify", "addReactive"}
                => state'["opener"][thread'["io"].id] \in Ended
      BY <1>0, <1>11, <2>0, <2>3 DEF ChangeIsSet, Swapped, Goes, NetworkInv
    <3>3. \A i \in Streams : /\ state["opener"][i] \in Ended => state'["opener"][i] \in Ended
                             /\ \/ state'["opener"][i] = state["opener"][i]
                                \/ state'["opener"][i] \in Ended \cup {"CONNECTED"} /\ ~Unsent(i)
      BY <1>0, <2>0, <2>3, <3>1, <3>2 DEF NoRevival
    <3>4. At("caller") # "idle" =>
             LET i == thread["caller"].id IN
             /\ i \in Streams
             /\ state["opener"][i] \in Ended => state'["opener"][i] \in Ended
             /\ \/ state'["opener"][i] = state["opener"][i]
                \/ state'["opener"][i] \in Ended \cup {"CONNECTED"} /\ ~Unsent(i)
      BY <1>0, <3>3
    <3>5. \A u \in OpenerThreads :
             thread'[u].at \in {"notify", "addReactive"} => state'["opener"][thread'[u].id] \in Ended
      BY <1>0, <3>2, <3>3
    <3>6. stream' = stream /\ (stream # 0 => Status(stream)' \in Ended \cup {"CONNECTED"})
      BY <1>0, <2>0, <3>3 DEF workerVars
    <3>7. \A i \in Streams : /\ state'["opener"][i] = "OPEN" => state["opener"][i] = "OPEN"
                             /\ state'["opener"][i] # "CONNECT_ARRIVED"
      BY <3>3
    <3>8. thread'["caller"] = thread["caller"] /\ UNCHANGED <<stopped, stream>>
      BY <2>0, <3>2 DEF workerVars
    <3>9. LET c == thread["caller"]  s == state'["opener"][thread["caller"].id] IN
          /\ At("caller") = "await" => s \in Ended \cup {"OPEN"}
          /\ At("caller") = "change" /\ c.then = "create" =>
                 s \in Ended \/ (c.next = "CONNECT_AWAIT" /\ c.seen = "OPEN" /\ s = "OPEN")
          /\ At("caller") = "create" => s \in Ended \cup {"CONNECT_AWAIT"}
          /\ At("caller") = "waiting" => s \notin {"NEW", "OPEN"}
          /\ At("caller") = "change" /\ c.then = "forget" => s \notin {"NEW", "OPEN"}
          /\ At("caller") \in {"opened", "activate"} => s \in Ended \cup {"CONNECTED"}
          /\ At("caller") \in {"forget", "failed", "thrown"} => s \in Ended
      BY <3>4 DEF Unsent
    <3>. QED  BY <3>5, <3>6, <3>7, <3>8, <3>9
  <2>. QED  BY <1>0, <2>1, <2>2, <2>3
<1>12. ASSUME NEW t \in OpenerThreads, CloseIsSent(t) PROVE StatusInv'
  BY <1>0, <1>12 DEF CloseIsSent, Goes, workerVars
<1>13. ASSUME NEW m \in Packets, OpenerReceives(m) PROVE StatusInv'
  BY <1>0, <1>13 DEF OpenerReceives, Takes, Clears, Goes, Begins, SameThreads, workerVars
<1>14. ASSUME NEW id \in Streams, ManagerVisits("stop", id) PROVE StatusInv'
  BY <1>0, <1>14 DEF ManagerVisits, Clears, Goes, Begins, workerVars
<1>15. CASE OpenerRests
  BY <1>0, <1>15 DEF OpenerRests, workerVars
<1>. QED  BY <1>1, <1>2, <1>3, <1>4, <1>5, <1>6, <1>7, <1>8, <1>9, <1>10, <1>11, <1>12, <1>13, <1>14,
     <1>15 DEF OpenerMove

\* What arrives is about a stream that has been opened and sent for.
LEMMA ArrivesLate ==
    ASSUME TypeOK, CreateInv, PacketsInv, StatusInv, CallerInv, NEW m \in Packets,
           OpenerReceives(m)
    PROVE  m.id \in Streams /\ Status(m.id) \notin {"NEW", "OPEN"}
<1>1. "opener" \in Ends /\ m.type \in PacketTypes /\ m.id \in Streams
  BY DEF Ends, Packets
<1>2. PacketsOf("opener", m.type, m.id) # {}
  BY <1>1, TakenIsLast DEF OpenerReceives
<1>3. ~Unsent(m.id)
  BY <1>1, <1>2, KnownIsSent DEF PacketsInv
<1>. QED  BY <1>1, <1>3 DEF StatusInv, CallerInv, Unsent, Status, Opens, Changes, At, On

\* So is the stream the network thread is busy with.
LEMMA BusyLate ==
    ASSUME ThreadsOK, CreateInv, PacketsInv, StatusInv, CallerInv, At("io") # "idle"
    PROVE  On("io") \in Streams /\ ~Unsent(On("io")) /\ Status(On("io")) \notin {"NEW", "OPEN"}
<1>1. On("io") \in Streams
  BY DEF ThreadsOK, Threads
<1>2. ~Unsent(On("io"))
  BY <1>1, KnownIsSent DEF PacketsInv
<1>. QED  BY <1>1, <1>2 DEF StatusInv, CallerInv, Unsent, Status, Opens, Changes, At, On

\* The outcome of a compare-and-set at the opener.
SetOn(t, step, then) == /\ thread'[t].at = step /\ thread'[t].then = then
                        /\ step # "idle" => thread'[t].id = thread[t].id
SetsEnd(t) == /\ thread[t].next \in Ended /\ state'["opener"][thread[t].id] \in Ended
              /\ SetOn(t, "notify", thread[t].then)
SetsState(t) == /\ state'["opener"][thread[t].id] = thread[t].next
                /\ state["opener"][thread[t].id] \notin Ended \cup {"NEW"}
                /\ SetOn(t, thread[t].then, "idle")
                /\ \/ t = "io" /\ thread[t].next = "CONNECTED" /\ thread[t].then = "idle"
                   \/ t = "caller" /\ thread[t].next = "CONNECT_AWAIT"
                      /\ thread[t].then = "create"
SetsNothing(t) == /\ state'["opener"] = state["opener"]
                  /\ SetOn(t, "change", thread[t].then) /\ thread'[t].next = "ILLEGAL_STATE"
                  /\ \/ thread[t].next \in Ended
                     \/ On(t) \notin known["opener"]
                     \/ Forgets(On(t))
SetsNoMore(t) == /\ state'["opener"] = state["opener"] /\ Status(On(t)) \in Ended
                 /\ SetOn(t, thread[t].then, "idle")
OpenerSets(t) ==
    /\ On(t) \in Streams /\ At(t) = "change" /\ thread[t].then \notin {"change", "notify"}
    /\ \A u \in Threads \ {t} : thread'[u] = thread[u]
    /\ known'["opener"] = known["opener"]
    /\ UNCHANGED <<wire, connected, todo, workerVars>>
    /\ \A i \in Streams \ {On(t)} : state'["opener"][i] = state["opener"][i]
    /\ SetsEnd(t) \/ SetsState(t) \/ SetsNothing(t) \/ SetsNoMore(t)

\* A change that is refused, and does not end its stream, is one of a stream that has left
\* the map or that its caller forgets.
LEMMA ChangeSets ==
    ASSUME ThreadsOK, TypeOK, CallerInv, NetworkInv, StatusInv, KnownInv, SuccessInv,
           NEW t \in OpenerThreads, ChangeIsSet(t)
    PROVE  OpenerSets(t)
<1>. DEFINE c == thread[t]  s == state["opener"][thread[t].id]
<1>0. /\ Threads = {"caller", "io", "stop", "sio", "app"} /\ OpenerThreads \subseteq Threads
      /\ End(t) = "opener" /\ On(t) \in Streams /\ At(t) = "change" /\ c.at = "change"
      /\ c.id \in Streams /\ c.id = On(t) /\ s = Status(On(t))
      /\ state["opener"] \in [Streams -> StateCodes]
      /\ "opener" \in Ends /\ c.then \notin {"change", "notify"}
  BY DEF CallerInv, NetworkInv, Changes, Threads, OpenerThreads, End, Ends, TypeOK, StreamTypeOK,
     ThreadsOK, ChangeIsSet, Swapped, At, On, Status
<1>1. /\ \A u \in Threads \ {t} : thread'[u] = thread[u]
      /\ known'["opener"] = known["opener"] /\ UNCHANGED <<wire, connected, todo, workerVars>>
      /\ \A i \in Streams \ {On(t)} : state'["opener"][i] = state["opener"][i]
  BY <1>0 DEF ChangeIsSet, Swapped, SameKnown, On
<1>2. \/ c.next \in Ended
      \/ t = "io" /\ c.next = "CONNECTED" /\ c.then = "idle"
      \/ t = "caller" /\ c.next = "CONNECT_AWAIT" /\ c.then = "create"
  BY <1>0 DEF CallerInv, NetworkInv, OpenerThreads, At
<1>3. CASE CanChange(c.seen, c.next) /\ s = c.seen
  <2>1. state'["opener"] = [state["opener"] EXCEPT ![c.id] = c.next]
        /\ state'["opener"][c.id] = c.next
    BY <1>0, <1>3 DEF ChangeIsSet, Swapped
  <2>2. CASE c.next \in Ended
    BY <1>0, <1>1, <1>3, <2>1, <2>2 DEF ChangeIsSet, Swapped, SetsEnd, SetOn, OpenerSets
  <2>3. CASE c.next \notin Ended
    <3>1. s \notin Ended \cup {"NEW"}
      BY <1>2, <1>3, <2>3 DEF CanChange, ValidBefore, Ended
    <3>2. SetOn(t, c.then, "idle")
      BY <1>0, <1>3, <2>3 DEF ChangeIsSet, Swapped, Goes, SetOn
    <3>. QED  BY <1>0, <1>1, <1>2, <2>1, <2>3, <3>1, <3>2 DEF SetsState, OpenerSets
  <2>. QED  BY <2>2, <2>3
<1>4. CASE ~(CanChange(c.seen, c.next) /\ s = c.seen)
  <2>1. state'["opener"] = state["opener"]
    BY <1>0, <1>4 DEF ChangeIsSet, Swapped
  <2>2. c.next \in Ended \/ On(t) \notin known["opener"] \/ Forgets(On(t))
    <3>1. CASE t = "io" /\ c.next = "CONNECTED"
      <4>1. CanChange("CONNECT_AWAIT", "CONNECTED")
        BY DEF CanChange, ValidBefore
      <4>. QED  BY <1>0, <1>4, <3>1, <4>1 DEF SuccessInv, At
    <3>2. CASE t = "caller" /\ c.next = "CONNECT_AWAIT" /\ c.then = "create"
      <4>1. CanChange("OPEN", "CONNECT_AWAIT")
        BY DEF CanChange, ValidBefore
      <4>2. s \in Ended
        BY <1>0, <1>4, <3>2, <4>1 DEF StatusInv, Ended
      <4>. QED  BY <1>0, <4>2 DEF KnownInv
    <3>. QED  BY <1>2, <3>1, <3>2
  <2>3. CASE s # "ILLEGAL_STATE"
    BY <1>0, <1>1, <1>4, <2>1, <2>2, <2>3 DEF ChangeIsSet, Swapped, SetsNothing, SetOn, OpenerSets
  <2>4. CASE s = "ILLEGAL_STATE"
    BY <1>0, <1>1, <1>4, <2>1, <2>4 DEF ChangeIsSet, Swapped, SetsNoMore, SetOn, Goes, OpenerSets,
                                        Ended
  <2>. QED  BY <2>3, <2>4
<1>. QED  BY <1>3, <1>4

\* What such a change does to the ends of the streams.
LEMMA SetsKeep ==
    ASSUME NEW t \in OpenerThreads, OpenerSets(t), NoRevival, NEW j \in Streams
    PROVE  /\ Forgets(j) => Forgets(j)'
           /\ Closing(j)' => Closing(j) \/ (SetsNothing(t) /\ j = On(t))
           /\ Ending(j) => Ending(j)'
           /\ thread[t].next \in Ended => Closing(On(t))
<1>0. /\ Threads = {"caller", "io", "stop", "sio", "app"}
      /\ OpenerThreads = {"caller", "io", "stop"} /\ Ended = {"CLOSED", "ILLEGAL_STATE"}
      /\ state["opener"][j] \in Ended => state'["opener"][j] \in Ended
      /\ At(t) = "change" /\ \A u \in Threads \ {t} : thread'[u] = thread[u]
      /\ j # On(t) => state'["opener"][j] = state["opener"][j]
  BY DEF Threads, OpenerThreads, Ended, NoRevival, Ends, OpenerSets
<1>1. CASE SetsEnd(t)
  BY <1>0, <1>1 DEF SetsEnd, SetOn, Forgets, Closing, ClosesIt, Ending, Status, Doing, At, On
<1>2. CASE SetsState(t)
  BY <1>0, <1>2 DEF SetsState, SetOn, Forgets, Closing, ClosesIt, Ending, Status, Doing, At, On
<1>3. CASE SetsNothing(t)
  <2>1. /\ thread'[t].at = "change" /\ thread'[t].id = thread[t].id
        /\ thread'[t].next = "ILLEGAL_STATE" /\ thread'[t].then = thread[t].then
        /\ state'["opener"] = state["opener"] /\ thread[t].at = "change"
    BY <1>0, <1>3 DEF SetsNothing, SetOn, At
  <2>2. \A u \in OpenerThreads : ClosesIt(u, j) => ClosesIt(u, j)'
    BY <1>0, <2>1 DEF ClosesIt, At, On
  <2>3. \A u \in OpenerThreads : ClosesIt(u, j)' => ClosesIt(u, j) \/ (u = t /\ j = On(t))
    BY <1>0, <2>1 DEF ClosesIt, At, On
  <2>4. Forgets(j) => Forgets(j)'
    BY <1>0, <2>1 DEF Forgets, Doing, On
  <2>5. thread[t].next \in Ended => Closing(On(t))
    BY <1>0, <2>1 DEF Closing, ClosesIt, At, On
  <2>. QED  BY <1>3, <2>1, <2>2, <2>3, <2>4, <2>5 DEF Closing, Ending, Status
<1>4. CASE SetsNoMore(t)
  <2>1. /\ thread'[t].at = thread[t].then /\ thread'[t].then = "idle"
        /\ thread'[t].at # "idle" => thread'[t].id = thread[t].id
        /\ state'["opener"] = state["opener"] /\ state["opener"][thread[t].id] \in Ended
        /\ thread[t].at = "change" /\ thread[t].then # "change"
    BY <1>0, <1>4 DEF SetsNoMore, SetOn, OpenerSets, Status, On, At
  <2>2. \A u \in OpenerThreads : ClosesIt(u, j) => ClosesIt(u, j)' \/ state["opener"][j] \in Ended
    BY <1>0, <2>1 DEF ClosesIt, At, On
  <2>3. \A u \in OpenerThreads : ClosesIt(u, j)' => ClosesIt(u, j)
    BY <1>0, <2>1 DEF ClosesIt, At, On
  <2>4. Forgets(j) => Forgets(j)'
    BY <1>0, <2>1 DEF Forgets, Doing, On
  <2>5. thread[t].next \in Ended => Closing(On(t))
    BY <1>0, <2>1 DEF Closing, ClosesIt, At, On
  <2>. QED  BY <1>4, <2>1, <2>2, <2>3, <2>4, <2>5 DEF Closing, Ending, Status
<1>. QED  BY <1>1, <1>2, <1>3, <1>4 DEF OpenerSets

\* A context that is in the map is one of a stream that is open, or forgotten by its caller.
LEMMA KnownStays ==
    ASSUME ThreadsOK, TypeOK, CallerInv, NetworkInv, CreateInv, PacketsInv, StatusInv, KnownInv,
           SuccessInv, NoRevival, OpenerMove
    PROVE  KnownInv'
<1>0. /\ Threads = {"caller", "io", "stop", "sio", "app"} /\ Ends = {"opener", "acceptor"}
      /\ OpenerThreads = {"caller", "io", "stop"}
      /\ \A t \in OpenerThreads : End(t) = "opener"
      /\ active \in BOOLEAN /\ started \in BOOLEAN /\ stopped \in BOOLEAN /\ kept \in BOOLEAN
      /\ Peer("opener") = "acceptor"
      /\ \A t \in OpenerThreads : At(t) # "idle" => On(t) \in Streams
      /\ state["opener"] \in [Streams -> StateCodes] /\ stream \in Streams \cup {0}
      /\ 0 \notin Streams
      /\ known["opener"] \in SUBSET Streams /\ todo["opener"] \in SUBSET Streams
  BY StreamsAssumption
     DEF Threads, Ends, OpenerThreads, End, Peer, TypeOK, StreamTypeOK, ThreadsOK
<1>. USE DEF KnownInv, CallerInv, NetworkInv, At, On, Status, Closing, ClosesIt, Forgets, Doing,
             Changes, Ended, SameState, SameKnown
<1>1. ASSUME NEW id \in Streams, CallOpens(id) PROVE KnownInv'
  BY <1>0, <1>1, BusyLate DEF CallOpens, WorkerIsCalled, Goes, Unsent
<1>2. CASE CallWaits
  BY <1>0, <1>2 DEF CallWaits, WorkerIsCalled, StreamsRest, SameThreads
<1>3. CASE TaskSkips
  BY <1>0, <1>3 DEF TaskSkips, StreamsRest, SameThreads
<1>4. CASE RunTask /\ StreamsRest
  BY <1>0, <1>4 DEF RunTask, StreamsRest, SameThreads
<1>5. CASE ManagerClose /\ StreamsRest
  BY <1>0, <1>5 DEF ManagerClose, StreamsRest, SameThreads
<1>6. CASE OpenGoesOn
  BY <1>0, <1>6 DEF OpenGoesOn, Goes, Begins, workerVars
<1>7. CASE OpenReturns
  BY <1>0, <1>7 DEF OpenReturns, Goes
<1>8. CASE StopCloses
  BY <1>0, <1>8 DEF StopCloses, Clears, Goes, Begins, SameThreads
<1>9. ASSUME NEW t \in OpenerThreads, Notified(t) PROVE KnownInv'
  BY <1>0, <1>9 DEF Notified, Goes
<1>10. ASSUME NEW t \in OpenerThreads, Added(t) PROVE KnownInv'
  BY <1>0, <1>10 DEF Added, Goes
<1>11. ASSUME NEW t \in OpenerThreads, ChangeIsSet(t) PROVE KnownInv'
  <2>0. OpenerSets(t)
    BY <1>0, <1>11, ChangeSets
  <2>1. UNCHANGED todo /\ known'["opener"] = known["opener"]
    BY <2>0 DEF OpenerSets
  <2>2. ASSUME NEW i \in known["opener"], Closing(i)' \/ Status(i)' \in Ended PROVE Forgets(i)'
    <3>1. i \in Streams
      BY <1>0, <2>2
    <3>2. Status(i) \in Ended \/ Closing(i) => Forgets(i)'
      BY <1>0, <2>0, <2>2, <3>1, SetsKeep
    <3>3. SetsNothing(t) /\ i = On(t) => Forgets(i)' \/ Closing(i)
      BY <1>0, <2>0, <2>2, <3>1, SetsKeep DEF SetsNothing
    <3>4. ASSUME state'["opener"][i] \in Ended, state["opener"][i] \notin Ended PROVE Closing(i)
      <4>1. i = On(t)
        BY <2>0, <3>1, <3>4 DEF OpenerSets
      <4>2. thread[t].next \in Ended
        BY <2>0, <3>4, <4>1 DEF OpenerSets, SetsEnd, SetsState, SetsNothing, SetsNoMore
      <4>. QED  BY <1>0, <2>0, <3>1, <4>1, <4>2, SetsKeep
    <3>. QED  BY <1>0, <2>0, <2>2, <3>1, <3>2, <3>3, <3>4, SetsKeep
  <2>3. ASSUME NEW i \in Streams, state'["opener"][i] = "NEW" PROVE state["opener"][i] = "NEW"
    <3>1. CASE i # On(t)
      BY <2>0, <2>3, <3>1 DEF OpenerSets
    <3>2. CASE i = On(t)
      BY <2>0, <2>3, <3>2 DEF OpenerSets, SetsEnd, SetsState, SetsNothing, SetsNoMore
    <3>. QED  BY <3>1, <3>2
  <2>. QED  BY <1>0, <2>1, <2>2, <2>3
<1>12. ASSUME NEW t \in OpenerThreads, CloseIsSent(t) PROVE KnownInv'
  BY <1>0, <1>12 DEF CloseIsSent, Goes, workerVars
<1>13. ASSUME NEW m \in Packets, OpenerReceives(m) PROVE KnownInv'
  BY <1>0, <1>13 DEF OpenerReceives, Takes, Clears, Goes, Begins, SameThreads, workerVars
<1>14. ASSUME NEW id \in Streams, ManagerVisits("stop", id) PROVE KnownInv'
  BY <1>0, <1>14 DEF ManagerVisits, Clears, Goes, Begins, workerVars
<1>15. CASE OpenerRests
  BY <1>0, <1>15 DEF OpenerRests, workerVars
<1>. QED  BY <1>1, <1>2, <1>3, <1>4, <1>5, <1>6, <1>7, <1>8, <1>9, <1>10, <1>11, <1>12, <1>13, <1>14,
     <1>15 DEF OpenerMove

\* A create-success finds its stream waiting, or closed by its caller.
LEMMA SuccessStays ==
    ASSUME ThreadsOK, TypeOK, CallerInv, NetworkInv, CreateInv, PacketsInv, StatusInv, KnownInv,
           SuccessInv, TokenInv, NoRevival, OpenerMove
    PROVE  SuccessInv'
<1>0. /\ Threads = {"caller", "io", "stop", "sio", "app"} /\ Ends = {"opener", "acceptor"}
      /\ OpenerThreads = {"caller", "io", "stop"}
      /\ \A t \in OpenerThreads : End(t) = "opener"
      /\ active \in BOOLEAN /\ started \in BOOLEAN /\ stopped \in BOOLEAN /\ kept \in BOOLEAN
      /\ Peer("opener") = "acceptor"
      /\ \A t \in OpenerThreads : At(t) # "idle" => On(t) \in Streams
      /\ state["opener"] \in [Streams -> StateCodes] /\ stream \in Streams \cup {0}
      /\ 0 \notin Streams
      /\ known["opener"] \in SUBSET Streams /\ todo["opener"] \in SUBSET Streams
  BY StreamsAssumption
     DEF Threads, Ends, OpenerThreads, End, Peer, TypeOK, StreamTypeOK, ThreadsOK
<1>. USE DEF SuccessInv, CallerInv, NetworkInv, At, On, Status, Forgets, Doing, Changes, Ended,
             SameState, SameKnown
<1>1. ASSUME NEW id \in Streams, CallOpens(id) PROVE SuccessInv'
  BY <1>0, <1>1, BusyLate DEF CallOpens, WorkerIsCalled, Goes, Unsent
<1>2. CASE CallWaits
  BY <1>0, <1>2 DEF CallWaits, WorkerIsCalled, StreamsRest, SameThreads
<1>3. CASE TaskSkips
  BY <1>0, <1>3 DEF TaskSkips, StreamsRest, SameThreads
<1>4. CASE RunTask /\ StreamsRest
  BY <1>0, <1>4 DEF RunTask, StreamsRest, SameThreads
<1>5. CASE ManagerClose /\ StreamsRest
  BY <1>0, <1>5 DEF ManagerClose, StreamsRest, SameThreads
<1>6. CASE OpenGoesOn
  BY <1>0, <1>6 DEF OpenGoesOn, Goes, Begins, workerVars
<1>7. CASE OpenReturns
  BY <1>0, <1>7 DEF OpenReturns, Goes
<1>8. CASE StopCloses
  BY <1>0, <1>8 DEF StopCloses, Clears, Goes, Begins, SameThreads
<1>9. ASSUME NEW t \in OpenerThreads, Notified(t) PROVE SuccessInv'
  BY <1>0, <1>9 DEF Notified, Goes
<1>10. ASSUME NEW t \in OpenerThreads, Added(t) PROVE SuccessInv'
  BY <1>0, <1>10 DEF Added, Goes
<1>11. ASSUME NEW t \in OpenerThreads, ChangeIsSet(t) PROVE SuccessInv'
  <2>0. OpenerSets(t) /\ known'["opener"] = known["opener"]
    BY <1>0, <1>11, ChangeSets DEF OpenerSets
  <2>1. CASE t = "io"
    BY <1>0, <2>0, <2>1 DEF OpenerSets, SetsEnd, SetsState, SetsNothing, SetsNoMore, SetOn
  <2>2. ASSUME t # "io", At("io") = "change", thread["io"].next = "CONNECTED" PROVE SuccessInv'
    <3>0. PICK i \in Streams : i = On("io")
      BY <1>0, <2>2
    <3>1. thread'["io"] = thread["io"]
      BY <1>0, <2>0, <2>2 DEF OpenerSets
    <3>2. CASE i \notin known["opener"] \/ Forgets(i)
      <4>1. i \notin known'["opener"] \/ Forgets(i)'
        BY <1>0, <2>0, <3>2, SetsKeep
      <4>. QED  BY <3>0, <3>1, <4>1
    <3>3. CASE i \in known["opener"] /\ ~Forgets(i)
      <4>1. thread["io"].seen = "CONNECT_AWAIT" /\ state["opener"][i] = "CONNECT_AWAIT"
        BY <2>2, <3>0, <3>3
      <4>2. i = On(t) => thread[t].next \notin Ended
        BY <1>0, <2>0, <3>3, SetsKeep DEF KnownInv
      <4>3. i = On(t) /\ t = "caller" => thread[t].then # "create"
        BY <1>0, <2>0, <2>2, <3>0, <4>1, <4>2 DEF StatusInv, OpenerSets
      <4>4. state'["opener"][i] = "CONNECT_AWAIT"
        BY <1>0, <2>0, <2>2, <4>1, <4>2, <4>3
           DEF OpenerSets, SetsEnd, SetsState, SetsNothing, SetsNoMore
      <4>. QED  BY <3>0, <3>1, <4>1, <4>4
    <3>. QED  BY <3>2, <3>3
  <2>3. ASSUME t # "io", ~(At("io") = "change" /\ thread["io"].next = "CONNECTED") PROVE SuccessInv'
    <3>1. thread'["io"] = thread["io"]
      BY <1>0, <2>0, <2>3 DEF OpenerSets
    <3>. QED  BY <2>3, <3>1
  <2>. QED  BY <2>1, <2>2, <2>3
<1>12. ASSUME NEW t \in OpenerThreads, CloseIsSent(t) PROVE SuccessInv'
  BY <1>0, <1>12 DEF CloseIsSent, Goes, workerVars
<1>13. ASSUME NEW m \in Packets, OpenerReceives(m) PROVE SuccessInv'
  <2>1. m.id \in Streams /\ Status(m.id) \notin {"NEW", "OPEN"}
    BY <1>0, <1>13, ArrivesLate
  <2>2. CASE m.type = "SUCCESS" /\ Begins("io", m.id, "CONNECTED", "idle")
    <3>1. InSuccess(m.id)
      BY <1>0, <1>13, <2>2, TakenIsLast DEF OpenerReceives, InSuccess
    <3>2. Status(m.id) # "CONNECTED"
      BY <2>1, <3>1 DEF TokenInv, InState
    <3>3. m.id \in known["opener"] => Status(m.id) = "CONNECT_AWAIT" \/ Forgets(m.id)
      BY <1>0, <2>1, <3>2 DEF KnownInv, StatusInv, StateCodes
    <3>. QED  BY <1>0, <1>13, <2>1, <2>2, <3>3 DEF OpenerReceives, Begins
  <2>3. CASE ~(m.type = "SUCCESS" /\ Begins("io", m.id, "CONNECTED", "idle"))
    BY <1>0, <1>13, <2>3 DEF OpenerReceives, Takes, Clears, Goes, Begins, SameThreads, workerVars
  <2>. QED  BY <2>2, <2>3
<1>14. ASSUME NEW id \in Streams, ManagerVisits("stop", id) PROVE SuccessInv'
  BY <1>0, <1>14 DEF ManagerVisits, Clears, Goes, Begins, workerVars
<1>15. CASE OpenerRests
  BY <1>0, <1>15 DEF OpenerRests, workerVars
<1>. QED  BY <1>1, <1>2, <1>3, <1>4, <1>5, <1>6, <1>7, <1>8, <1>9, <1>10, <1>11, <1>12, <1>13, <1>14,
     <1>15 DEF OpenerMove

\* A stream that is open and not being closed is the only one in the map.
LEMMA OnlyOne ==
    ASSUME KnownInv, AliveInv, CallerInv, NEW id \in Streams, Alive(id), ~Closing(id),
           NEW j \in Streams, j \in known["opener"]
    PROVE  j = id
<1>1. Opens(id) \/ (stream = id /\ active /\ ~stopped)
  BY DEF AliveInv, Kept
<1>2. Forgets(j) => At("caller") # "idle"
  BY DEF Forgets, Doing, CallerInv, Changes, At
<1>3. CASE Closing(j) \/ Status(j) \in Ended
  <2>1. Forgets(j)
    BY <1>3 DEF KnownInv
  <2>. QED  BY <1>1, <1>2, <2>1 DEF CallerInv, Opens, Forgets
<1>4. CASE ~Closing(j) /\ Status(j) \notin Ended
  <2>1. Alive(j)
    BY <1>4 DEF KnownInv, Alive
  <2>2. Opens(j) \/ (stream = j /\ active /\ ~stopped)
    BY <1>4, <2>1 DEF AliveInv, Kept
  <2>. QED  BY <1>1, <2>2 DEF CallerInv, Opens
<1>. QED  BY <1>3, <1>4

\* A stream that has not ended is opened, held or being closed.
LEMMA AliveStays ==
    ASSUME ThreadsOK, TypeOK, CallerInv, NetworkInv, CreateInv, PacketsInv, StatusInv, KnownInv,
           SuccessInv, AliveInv, NoRevival, OpenerMove, NEW k \in Streams, Alive(k)'
    PROVE  Kept(k)'
<1>0. /\ Threads = {"caller", "io", "stop", "sio", "app"} /\ Ends = {"opener", "acceptor"}
      /\ OpenerThreads = {"caller", "io", "stop"}
      /\ \A t \in OpenerThreads : End(t) = "opener"
      /\ active \in BOOLEAN /\ started \in BOOLEAN /\ stopped \in BOOLEAN /\ kept \in BOOLEAN
      /\ Peer("opener") = "acceptor"
      /\ \A t \in OpenerThreads : At(t) # "idle" => On(t) \in Streams
      /\ state["opener"] \in [Streams -> StateCodes] /\ stream \in Streams \cup {0}
      /\ 0 \notin Streams
      /\ known["opener"] \in SUBSET Streams /\ todo["opener"] \in SUBSET Streams
      /\ Alive(k) => Kept(k)
      /\ \A j \in Streams : j \in known["opener"] /\ Alive(k) => j = k \/ Closing(k)
      /\ Alive(k) \/ Status(k) = "NEW"
  BY StreamsAssumption, OnlyOne
     DEF Threads, Ends, OpenerThreads, End, Peer, TypeOK, StreamTypeOK, ThreadsOK, AliveInv,
         NoRevival, Alive, Status
<1>. USE DEF CallerInv, NetworkInv, At, On, Status, Closing, ClosesIt, Alive, Kept, Spared, Opens,
             Changes, Ended, SameState, SameKnown
<1>a. /\ At("caller") \in {"forget", "failed", "thrown"} => Status(On("caller")) \in Ended
      /\ At("caller") = "activate" => stream = On("caller")
      /\ At("caller") = "create" => Status(On("caller")) \in Ended \cup {"CONNECT_AWAIT"}
      /\ \A t \in OpenerThreads : At(t) = "notify" => Status(On(t)) \in Ended
      /\ stream \in Streams => Status(stream) \in Ended \cup {"CONNECTED"}
  BY <1>0 DEF StatusInv
<1>1. ASSUME NEW id \in Streams, CallOpens(id) PROVE Kept(k)'
  BY <1>0, <1>1 DEF CallOpens, WorkerIsCalled, Goes
<1>2. CASE CallWaits
  BY <1>0, <1>2 DEF CallWaits, WorkerIsCalled, StreamsRest, SameThreads
<1>3. CASE TaskSkips
  BY <1>0, <1>3 DEF TaskSkips, StreamsRest, SameThreads
<1>4. CASE RunTask /\ StreamsRest
  BY <1>0, <1>4 DEF RunTask, StreamsRest, SameThreads
<1>5. CASE ManagerClose /\ StreamsRest
  BY <1>0, <1>5 DEF ManagerClose, StreamsRest, SameThreads
<1>6. CASE OpenGoesOn
  <2>0. UNCHANGED workerVars /\ state'["opener"] = state["opener"] /\ Alive(k)
        /\ thread'["io"] = thread["io"] /\ thread'["stop"] = thread["stop"]
    BY <1>0, <1>6 DEF OpenGoesOn, Goes, Begins
  <2>1. Closing(k) => Closing(k)'
    BY <1>0, <1>a, <1>6, <2>0 DEF OpenGoesOn
  <2>2. k \in known["opener"] => k \in known'["opener"]
    BY <1>0, <1>a, <1>6, <2>0 DEF OpenGoesOn
  <2>3. Opens(k) => Opens(k)'
    BY <1>0, <1>6, <2>0 DEF OpenGoesOn, Goes, Begins, workerVars
  <2>. QED  BY <1>0, <2>0, <2>1, <2>2, <2>3 DEF workerVars
<1>7. CASE OpenReturns
  <2>0. /\ state'["opener"] = state["opener"] /\ known'["opener"] = known["opener"] /\ Alive(k)
        /\ thread'["io"] = thread["io"] /\ thread'["stop"] = thread["stop"]
        /\ thread'["caller"].at # "change" /\ thread["caller"].at # "change"
        /\ stopped' = stopped
    BY <1>0, <1>7 DEF OpenReturns, Goes
  <2>1. Closing(k) => Closing(k)'
    BY <1>0, <2>0
  <2>2. At("caller") # "idle" /\ ~stopped => ~active
    BY <1>0
  <2>3. Opens(k) \/ (stream = k /\ active /\ ~stopped)
           => (Opens(k) \/ (stream = k /\ active /\ ~stopped))'
    BY <1>0, <1>a, <1>7, <2>0, <2>2 DEF OpenReturns, Goes
  <2>. QED  BY <1>0, <2>0, <2>1, <2>3
<1>8. CASE StopCloses
  BY <1>0, <1>8 DEF StopCloses, Clears, Goes, Begins, SameThreads
<1>9. ASSUME NEW t \in OpenerThreads, Notified(t) PROVE Kept(k)'
  <2>0. /\ state'["opener"] = state["opener"] /\ known'["opener"] = known["opener"] /\ Alive(k)
        /\ thread'[t].at # "change" /\ thread[t].at = "notify"
        /\ \A u \in OpenerThreads \ {t} : thread'[u] = thread[u]
        /\ thread'[t].at # "notify" /\ UNCHANGED <<stopped, stream>>
        /\ thread'[t].at # "idle" => thread'[t].id = thread[t].id
    BY <1>0, <1>9 DEF Notified, Goes
  <2>1. Closing(k) => Closing(k)'
    BY <1>0, <2>0
  <2>2. On(t) # k
    BY <1>0, <1>a, <2>0
  <2>3. Opens(k) => Opens(k)'
    BY <1>0, <2>0, <1>9 DEF Notified, Goes
  <2>4. stream = k /\ active /\ ~stopped /\ ~Closing(k) => active'
    <3>1. CASE t = "caller"
      BY <1>0, <2>0, <3>1
    <3>2. CASE t # "caller"
      BY <1>0, <1>a, <2>0, <2>2, <3>2
    <3>. QED  BY <3>1, <3>2
  <2>. QED  BY <1>0, <2>0, <2>1, <2>3, <2>4
<1>10. ASSUME NEW t \in OpenerThreads, Added(t) PROVE Kept(k)'
  BY <1>0, <1>10 DEF Added, Goes
<1>11. ASSUME NEW t \in OpenerThreads, ChangeIsSet(t) PROVE Kept(k)'
  <2>0. OpenerSets(t) /\ known'["opener"] = known["opener"] /\ UNCHANGED workerVars
    BY <1>0, <1>11, ChangeSets DEF OpenerSets
  <2>1. Alive(k)
    <3>1. CASE k # On(t)
      BY <2>0, <3>1 DEF OpenerSets
    <3>2. CASE k = On(t)
      BY <1>0, <2>0, <3>2 DEF OpenerSets, SetsEnd, SetsState, SetsNothing, SetsNoMore
    <3>. QED  BY <3>1, <3>2
  <2>2. Closing(k) => Closing(k)'
    <3>1. Ending(k) => Ending(k)'
      BY <1>0, <2>0, SetsKeep
    <3>. QED  BY <3>1 DEF Ending
  <2>3. Opens(k) => Opens(k)'
    BY <1>0, <2>0, <2>1 DEF OpenerSets, SetsEnd, SetsState, SetsNothing, SetsNoMore, SetOn, workerVars
  <2>4. Spared("stop", k) => Spared("stop", k)'
    BY <1>0, <2>0, <2>2 DEF OpenerSets, SetsEnd, SetsState, SetsNothing, SetsNoMore, SetOn
  <2>5. Spared("io", k) => Spared("io", k)'
    <3>1. CASE t = "io"
      BY <1>0, <2>0, <2>2, <3>1 DEF OpenerSets, SetsEnd, SetsState, SetsNothing, SetsNoMore, SetOn
    <3>2. CASE t # "io"
      BY <1>0, <2>0, <2>2, <3>2 DEF OpenerSets, SetsEnd, SetsState, SetsNothing, SetsNoMore, SetOn
    <3>. QED  BY <3>1, <3>2
  <2>. QED  BY <1>0, <2>0, <2>1, <2>2, <2>3, <2>4, <2>5 DEF workerVars
<1>12. ASSUME NEW t \in OpenerThreads, CloseIsSent(t) PROVE Kept(k)'
  BY <1>0, <1>12 DEF CloseIsSent, Goes, workerVars
<1>13. ASSUME NEW m \in Packets, OpenerReceives(m) PROVE Kept(k)'
  BY <1>0, <1>13 DEF OpenerReceives, Takes, Clears, Goes, Begins, SameThreads, workerVars
<1>14. ASSUME NEW id \in Streams, ManagerVisits("stop", id) PROVE Kept(k)'
  BY <1>0, <1>14 DEF ManagerVisits, Clears, Goes, Begins, workerVars
<1>15. CASE OpenerRests
  BY <1>0, <1>15 DEF OpenerRests, workerVars
<1>. QED  BY <1>1, <1>2, <1>3, <1>4, <1>5, <1>6, <1>7, <1>8, <1>9, <1>10, <1>11, <1>12, <1>13, <1>14,
     <1>15 DEF OpenerMove

\* The timer has its one task as long as an agent waits.
LEMMA TimerStays ==
    ASSUME TypeOK, TimerInv, OpenerMove
    PROVE  TimerInv'
<1>0. /\ Threads = {"caller", "io", "stop", "sio", "app"} /\ Ends = {"opener", "acceptor"}
      /\ OpenerThreads = {"caller", "io", "stop"}
      /\ \A t \in OpenerThreads : End(t) = "opener"
      /\ active \in BOOLEAN /\ started \in BOOLEAN /\ stopped \in BOOLEAN /\ kept \in BOOLEAN
      /\ Peer("opener") = "acceptor"
      /\ tasks \in Nat /\ stopped \in BOOLEAN /\ due \in BOOLEAN
  BY DEF Threads, Ends, OpenerThreads, End, Peer, TypeOK
<1>. USE DEF TimerInv, AddReactiveWorker
<1>1. ASSUME NEW id \in Streams, CallOpens(id) PROVE TimerInv'
  BY <1>0, <1>1 DEF CallOpens, WorkerIsCalled, Goes
<1>2. CASE CallWaits
  BY <1>0, <1>2 DEF CallWaits, WorkerIsCalled, StreamsRest, SameThreads
<1>3. CASE TaskSkips
  BY <1>0, <1>3 DEF TaskSkips, StreamsRest, SameThreads
<1>4. CASE RunTask /\ StreamsRest
  BY <1>0, <1>4 DEF RunTask, StreamsRest, SameThreads
<1>5. CASE ManagerClose /\ StreamsRest
  BY <1>0, <1>5 DEF ManagerClose, StreamsRest, SameThreads
<1>6. CASE OpenGoesOn
  BY <1>0, <1>6 DEF OpenGoesOn, Goes, Begins, workerVars
<1>7. CASE OpenReturns
  BY <1>0, <1>7 DEF OpenReturns, Goes
<1>8. CASE StopCloses
  BY <1>0, <1>8 DEF StopCloses, Clears, Goes, Begins, SameThreads
<1>9. ASSUME NEW t \in OpenerThreads, Notified(t) PROVE TimerInv'
  BY <1>0, <1>9 DEF Notified, Goes
<1>10. ASSUME NEW t \in OpenerThreads, Added(t) PROVE TimerInv'
  BY <1>0, <1>10 DEF Added, Goes
<1>11. ASSUME NEW t \in OpenerThreads, ChangeIsSet(t) PROVE TimerInv'
  <2>1. UNCHANGED workerVars
    BY <1>11 DEF ChangeIsSet
  <2>. QED  BY <2>1 DEF workerVars
<1>12. ASSUME NEW t \in OpenerThreads, CloseIsSent(t) PROVE TimerInv'
  BY <1>0, <1>12 DEF CloseIsSent, Goes, workerVars
<1>13. ASSUME NEW m \in Packets, OpenerReceives(m) PROVE TimerInv'
  BY <1>0, <1>13 DEF OpenerReceives, Takes, Clears, Goes, Begins, SameThreads, workerVars
<1>14. ASSUME NEW id \in Streams, ManagerVisits("stop", id) PROVE TimerInv'
  BY <1>0, <1>14 DEF ManagerVisits, Clears, Goes, Begins, workerVars
<1>15. CASE OpenerRests
  BY <1>0, <1>15 DEF OpenerRests, workerVars
<1>. QED  BY <1>1, <1>2, <1>3, <1>4, <1>5, <1>6, <1>7, <1>8, <1>9, <1>10, <1>11, <1>12, <1>13, <1>14,
     <1>15 DEF OpenerMove

\* A worker without a stream is being opened, or waits, or will be made to wait.
LEMMA RetryStays ==
    ASSUME ThreadsOK, TypeOK, CallerInv, NetworkInv, StatusInv, KnownInv, SuccessInv, TimerInv,
           RetryInv, NoRevival, OpenerMove
    PROVE  RetryInv'
<1>0. /\ Threads = {"caller", "io", "stop", "sio", "app"} /\ Ends = {"opener", "acceptor"}
      /\ OpenerThreads = {"caller", "io", "stop"}
      /\ \A t \in OpenerThreads : End(t) = "opener"
      /\ active \in BOOLEAN /\ started \in BOOLEAN /\ stopped \in BOOLEAN /\ kept \in BOOLEAN
      /\ Peer("opener") = "acceptor"
      /\ \A t \in OpenerThreads : At(t) # "idle" => On(t) \in Streams
      /\ state["opener"] \in [Streams -> StateCodes] /\ stream \in Streams \cup {0}
      /\ 0 \notin Streams
      /\ known["opener"] \in SUBSET Streams /\ todo["opener"] \in SUBSET Streams
  BY StreamsAssumption
     DEF Threads, Ends, OpenerThreads, End, Peer, TypeOK, StreamTypeOK, ThreadsOK
<1>. USE DEF RetryInv, TimerInv, CallerInv, NetworkInv, WillAdd, At, On, Status, Changes, Ended,
             AddReactiveWorker, SameState
<1>a. /\ At("caller") \in {"forget", "failed", "thrown"} => Status(On("caller")) \in Ended
      /\ \A t \in OpenerThreads : At(t) \in {"notify", "addReactive"} => Status(On(t)) \in Ended
  BY <1>0 DEF StatusInv
<1>1. ASSUME NEW id \in Streams, CallOpens(id) PROVE RetryInv'
  BY <1>0, <1>1 DEF CallOpens, WorkerIsCalled, Goes
<1>2. CASE CallWaits
  BY <1>0, <1>2 DEF CallWaits, WorkerIsCalled, StreamsRest, SameThreads
<1>3. CASE TaskSkips
  BY <1>0, <1>3 DEF TaskSkips, StreamsRest, SameThreads
<1>4. CASE RunTask /\ StreamsRest
  BY <1>0, <1>4 DEF RunTask, StreamsRest, SameThreads
<1>5. CASE ManagerClose /\ StreamsRest
  BY <1>0, <1>5 DEF ManagerClose, StreamsRest, SameThreads
<1>6. CASE OpenGoesOn
  <2>1. /\ UNCHANGED workerVars /\ state'["opener"] = state["opener"]
        /\ thread'["io"] = thread["io"] /\ thread'["stop"] = thread["stop"]
        /\ thread'["caller"].at # "idle" /\ thread'["caller"].id = thread["caller"].id
        /\ At("caller") \notin {"idle", "notify", "addReactive"}
    BY <1>0, <1>6 DEF OpenGoesOn, Goes, Begins
  <2>. QED  BY <1>0, <2>1 DEF workerVars
<1>7. CASE OpenReturns
  <2>0. /\ thread'["io"] = thread["io"] /\ thread'["stop"] = thread["stop"]
        /\ state'["opener"] = state["opener"] /\ UNCHANGED <<stopped, reactive, due>>
        /\ At("caller") \notin {"idle", "notify", "addReactive"}
    BY <1>0, <1>7 DEF OpenReturns, Goes
  <2>1. CASE At("caller") = "opened"
    BY <1>0, <1>7, <2>0, <2>1 DEF OpenReturns, Goes
  <2>2. CASE At("caller") = "activate"
    BY <1>0, <1>7, <2>0, <2>2 DEF OpenReturns, Goes
  <2>3. CASE At("caller") = "failed"
    BY <1>0, <1>a, <1>7, <2>0, <2>3 DEF OpenReturns, Goes
  <2>4. CASE At("caller") = "thrown"
    BY <1>0, <1>a, <1>7, <2>0, <2>4 DEF OpenReturns, Goes
  <2>. QED  BY <1>7, <2>1, <2>2, <2>3, <2>4 DEF OpenReturns
<1>8. CASE StopCloses
  BY <1>0, <1>8 DEF StopCloses, Clears, Goes, Begins, SameThreads
<1>9. ASSUME NEW t \in OpenerThreads, Notified(t) PROVE RetryInv'
  <2>0. /\ state'["opener"] = state["opener"] /\ UNCHANGED <<started, stopped, dropped, reactive, due>>
        /\ thread[t].at = "notify" /\ On(t) \in Streams
        /\ \A u \in OpenerThreads \ {t} : thread'[u] = thread[u]
        /\ active' => active
    BY <1>0, <1>9 DEF Notified
  <2>1. CASE (started /\ ~stopped) \/ On(t) \in dropped
    <3>1. thread'[t].at = "addReactive" /\ thread'[t].id = thread[t].id
      BY <1>0, <1>9, <2>1 DEF Notified, IsTurnOn
    <3>2. WillAdd(t)' /\ (started \/ thread'[t].id \in dropped)
      BY <2>1, <3>1
    <3>3. thread'["caller"].at # "idle" => thread["caller"].at # "idle"
           /\ thread'["caller"].id = thread["caller"].id
      BY <1>0, <2>0, <3>1
    <3>. QED  BY <1>0, <2>0, <3>1, <3>2, <3>3
  <2>2. CASE ~((started /\ ~stopped) \/ On(t) \in dropped) /\ ~stopped
    <3>1. active' = active /\ ~started /\ At("caller") = "idle" /\ t # "caller"
      BY <1>0, <1>9, <2>0, <2>2 DEF Notified, IsTurnOn
    <3>. QED  BY <1>0, <2>0, <2>2, <3>1
  <2>3. CASE stopped
    BY <2>0, <2>3
  <2>. QED  BY <2>1, <2>2, <2>3
<1>10. ASSUME NEW t \in OpenerThreads, Added(t) PROVE RetryInv'
  BY <1>0, <1>10 DEF Added, Goes
<1>11. ASSUME NEW t \in OpenerThreads, ChangeIsSet(t) PROVE RetryInv'
  <2>0. /\ OpenerSets(t) /\ UNCHANGED workerVars
        /\ \A u \in OpenerThreads \ {t} : thread'[u] = thread[u]
        /\ thread[t].at = "change"
    BY <1>0, <1>11, ChangeSets DEF OpenerSets
  <2>1. ~stopped /\ t = "caller" => thread'["caller"].at # "idle" /\ thread'["caller"].id = thread["caller"].id
    BY <1>0, <2>0 DEF OpenerSets, SetsEnd, SetsState, SetsNothing, SetsNoMore, SetOn
  <2>2. \A i \in Streams : state'["opener"][i] \in Ended =>
            state["opener"][i] \in Ended \/ (i = thread[t].id /\ thread'[t].at = "notify"
                                               /\ thread'[t].id = thread[t].id)
    BY <1>0, <2>0 DEF OpenerSets, SetsEnd, SetsState, SetsNothing, SetsNoMore, SetOn
  <2>. QED  BY <1>0, <2>0, <2>1, <2>2 DEF workerVars
<1>12. ASSUME NEW t \in OpenerThreads, CloseIsSent(t) PROVE RetryInv'
  BY <1>0, <1>12 DEF CloseIsSent, Goes, workerVars
<1>13. ASSUME NEW m \in Packets, OpenerReceives(m) PROVE RetryInv'
  BY <1>0, <1>13 DEF OpenerReceives, Takes, Clears, Goes, Begins, SameThreads, workerVars
<1>14. ASSUME NEW id \in Streams, ManagerVisits("stop", id) PROVE RetryInv'
  BY <1>0, <1>14 DEF ManagerVisits, Clears, Goes, Begins, workerVars
<1>15. CASE OpenerRests
  BY <1>0, <1>15 DEF OpenerRests, workerVars
<1>. QED  BY <1>1, <1>2, <1>3, <1>4, <1>5, <1>6, <1>7, <1>8, <1>9, <1>10, <1>11, <1>12, <1>13, <1>14,
     <1>15 DEF OpenerMove

(***************************************************************************)
(* How the end of a stream reaches the acceptor.                           *)
(***************************************************************************)

\* A stream that has left the map ends.
LEMMA GoneIsEnding ==
    ASSUME AliveInv, NEW id \in Streams, id \notin known["opener"], Status(id) # "NEW"
    PROVE  Ending(id)
BY DEF AliveInv, Kept, Alive, Ending

\* What ends goes on ending.
LEMMA EndingStays ==
    ASSUME ThreadsOK, TypeOK, CallerInv, NetworkInv, StatusInv, KnownInv, SuccessInv, NoRevival,
           OpenerMove, NEW k \in Streams, Ending(k)
    PROVE  Ending(k)'
<1>0. /\ Threads = {"caller", "io", "stop", "sio", "app"} /\ Ends = {"opener", "acceptor"}
      /\ OpenerThreads = {"caller", "io", "stop"}
      /\ \A t \in OpenerThreads : End(t) = "opener"
      /\ active \in BOOLEAN /\ started \in BOOLEAN /\ stopped \in BOOLEAN /\ kept \in BOOLEAN
      /\ Peer("opener") = "acceptor"
      /\ \A t \in OpenerThreads : At(t) # "idle" => On(t) \in Streams
      /\ state["opener"] \in [Streams -> StateCodes] /\ stream \in Streams \cup {0}
      /\ 0 \notin Streams
      /\ known["opener"] \in SUBSET Streams /\ todo["opener"] \in SUBSET Streams
      /\ Status(k) \in Ended => Status(k)' \in Ended
  BY StreamsAssumption
     DEF Threads, Ends, OpenerThreads, End, Peer, TypeOK, StreamTypeOK, ThreadsOK, NoRevival, Status
<1>. USE DEF Ending, CallerInv, NetworkInv, At, On, Status, Closing, ClosesIt, Changes, Ended
<1>1. ASSUME NEW id \in Streams, CallOpens(id) PROVE Ending(k)'
  BY <1>0, <1>1 DEF CallOpens, WorkerIsCalled, Goes
<1>2. CASE CallWaits
  BY <1>0, <1>2 DEF CallWaits, WorkerIsCalled, StreamsRest, SameThreads
<1>3. CASE TaskSkips
  BY <1>0, <1>3 DEF TaskSkips, StreamsRest, SameThreads
<1>4. CASE RunTask /\ StreamsRest
  BY <1>0, <1>4 DEF RunTask, StreamsRest, SameThreads
<1>5. CASE ManagerClose /\ StreamsRest
  BY <1>0, <1>5 DEF ManagerClose, StreamsRest, SameThreads
<1>6. CASE OpenGoesOn
  BY <1>0, <1>6 DEF OpenGoesOn, Goes, Begins, workerVars
<1>7. CASE OpenReturns
  BY <1>0, <1>7 DEF OpenReturns, Goes
<1>8. CASE StopCloses
  BY <1>0, <1>8 DEF StopCloses, Clears, Goes, Begins, SameThreads
<1>9. ASSUME NEW t \in OpenerThreads, Notified(t) PROVE Ending(k)'
  BY <1>0, <1>9 DEF Notified, Goes, NetworkInv
<1>10. ASSUME NEW t \in OpenerThreads, Added(t) PROVE Ending(k)'
  BY <1>0, <1>10 DEF Added, Goes
<1>11. ASSUME NEW t \in OpenerThreads, ChangeIsSet(t) PROVE Ending(k)'
  <2>1. OpenerSets(t)
    BY <1>0, <1>11, ChangeSets
  <2>. QED  BY <1>0, <2>1, SetsKeep
<1>12. ASSUME NEW t \in OpenerThreads, CloseIsSent(t) PROVE Ending(k)'
  BY <1>0, <1>12 DEF CloseIsSent, Goes, workerVars
<1>13. ASSUME NEW m \in Packets, OpenerReceives(m) PROVE Ending(k)'
  BY <1>0, <1>13 DEF OpenerReceives, Takes, Clears, Goes, Begins, SameThreads, workerVars
<1>14. ASSUME NEW id \in Streams, ManagerVisits("stop", id) PROVE Ending(k)'
  BY <1>0, <1>14 DEF ManagerVisits, Clears, Goes, Begins, workerVars
<1>15. CASE OpenerRests
  BY <1>0, <1>15 DEF OpenerRests, workerVars
<1>. QED  BY <1>1, <1>2, <1>3, <1>4, <1>5, <1>6, <1>7, <1>8, <1>9, <1>10, <1>11, <1>12, <1>13, <1>14,
     <1>15 DEF OpenerMove

\* Who is about to send CLOSE is ending the stream.
LEMMA CloserEnds ==
    ASSUME ThreadsOK, TypeOK, CallerInv, NetworkInv, CreateInv, PacketsInv, StatusInv, KnownInv,
           SuccessInv, AliveInv, CloseInv, NoRevival, OpenerMove,
           NEW u \in OpenerThreads, NEW k \in Streams, thread'[u].id = k,
           "sendClose" \in {thread'[u].at, thread'[u].then}
    PROVE  Ending(k) \/ Ending(k)'
<1>0. /\ Threads = {"caller", "io", "stop", "sio", "app"} /\ Ends = {"opener", "acceptor"}
      /\ OpenerThreads = {"caller", "io", "stop"}
      /\ \A t \in OpenerThreads : End(t) = "opener"
      /\ active \in BOOLEAN /\ started \in BOOLEAN /\ stopped \in BOOLEAN /\ kept \in BOOLEAN
      /\ Peer("opener") = "acceptor"
      /\ \A t \in OpenerThreads : At(t) # "idle" => On(t) \in Streams
      /\ state["opener"] \in [Streams -> StateCodes] /\ stream \in Streams \cup {0}
      /\ 0 \notin Streams
      /\ known["opener"] \in SUBSET Streams /\ todo["opener"] \in SUBSET Streams
  BY StreamsAssumption
     DEF Threads, Ends, OpenerThreads, End, Peer, TypeOK, StreamTypeOK, ThreadsOK
<1>. USE DEF CallerInv, NetworkInv, Ending, At, On, Status, Closing, ClosesIt, Changes, Ended
<1>a. \A t \in OpenerThreads : "sendClose" \in {thread[t].at, thread[t].then} => Ending(thread[t].id)
  BY <1>0 DEF CloseInv, Doing, At, On
<1>1. ASSUME NEW id \in Streams, CallOpens(id) PROVE Ending(k) \/ Ending(k)'
  BY <1>0, <1>a, <1>1 DEF CallOpens, WorkerIsCalled, Goes
<1>2. CASE CallWaits
  BY <1>0, <1>a, <1>2 DEF CallWaits, WorkerIsCalled, StreamsRest, SameThreads
<1>3. CASE TaskSkips
  BY <1>0, <1>a, <1>3 DEF TaskSkips, StreamsRest, SameThreads
<1>4. CASE RunTask /\ StreamsRest
  BY <1>0, <1>a, <1>4 DEF RunTask, StreamsRest, SameThreads
<1>5. CASE ManagerClose /\ StreamsRest
  BY <1>0, <1>a, <1>5 DEF ManagerClose, StreamsRest, SameThreads
<1>6. CASE OpenGoesOn
  BY <1>0, <1>a, <1>6 DEF OpenGoesOn, Goes, Begins, workerVars
<1>7. CASE OpenReturns
  BY <1>0, <1>a, <1>7 DEF OpenReturns, Goes
<1>8. CASE StopCloses
  <2>1. stream \in Streams => Status(stream) # "NEW"
    BY <1>0 DEF StatusInv
  <2>2. stream \in Streams /\ stream \notin known["opener"] => Ending(stream)
    BY <1>0, <2>1, GoneIsEnding
  <2>. QED  BY <1>0, <1>a, <1>8, <2>1, <2>2 DEF StopCloses, Clears, Goes, Begins, SameThreads
<1>9. ASSUME NEW t \in OpenerThreads, Notified(t) PROVE Ending(k) \/ Ending(k)'
  BY <1>0, <1>a, <1>9 DEF Notified, Goes
<1>10. ASSUME NEW t \in OpenerThreads, Added(t) PROVE Ending(k) \/ Ending(k)'
  BY <1>0, <1>a, <1>10 DEF Added, Goes
<1>11. ASSUME NEW t \in OpenerThreads, ChangeIsSet(t) PROVE Ending(k) \/ Ending(k)'
  <2>1. OpenerSets(t)
    BY <1>0, <1>a, <1>11, ChangeSets
  <2>. QED  BY <1>0, <1>a, <2>1 DEF OpenerSets, SetsEnd, SetsState, SetsNothing, SetsNoMore, SetOn
<1>12. ASSUME NEW t \in OpenerThreads, CloseIsSent(t) PROVE Ending(k) \/ Ending(k)'
  BY <1>0, <1>a, <1>12 DEF CloseIsSent, Goes, workerVars
<1>13. ASSUME NEW m \in Packets, OpenerReceives(m) PROVE Ending(k) \/ Ending(k)'
  <2>1. m.id \in Streams /\ Status(m.id) # "NEW"
    BY <1>0, <1>a, <1>13, ArrivesLate
  <2>2. m.id \notin known["opener"] => Ending(m.id)
    BY <1>0, <2>1, GoneIsEnding
  <2>. QED  BY <1>0, <1>a, <1>13, <2>1, <2>2
            DEF OpenerReceives, Takes, Clears, Goes, Begins, SameThreads, SameState
<1>14. ASSUME NEW id \in Streams, ManagerVisits("stop", id) PROVE Ending(k) \/ Ending(k)'
  <2>1. Status(id) # "NEW"
    BY <1>0, <1>a, <1>14 DEF KnownInv, ManagerVisits
  <2>2. id \notin known["opener"] => Ending(id)
    BY <1>0, <2>1, GoneIsEnding
  <2>. QED  BY <1>0, <1>a, <1>14, <2>1, <2>2 DEF ManagerVisits, Clears, Goes, Begins
<1>15. CASE OpenerRests
  BY <1>0, <1>a, <1>15 DEF OpenerRests, workerVars
<1>. QED  BY <1>1, <1>2, <1>3, <1>4, <1>5, <1>6, <1>7, <1>8, <1>9, <1>10, <1>11, <1>12, <1>13, <1>14,
     <1>15 DEF OpenerMove

\* What the acceptor's network thread ends because of a CLOSE.
LEMMA ToldToEnd ==
    ASSUME ThreadsOK, TypeOK, AcceptorInv, CloseInv, Step,
           thread'["sio"].at = "change", thread'["sio"].then = "idle"
    PROVE  Ending(thread'["sio"].id)
<1>. DEFINE P == thread["sio"].at = "change" /\ thread["sio"].then = "idle"
                 /\ thread'["sio"].id = thread["sio"].id
<1>0. /\ Threads = {"caller", "io", "stop", "sio", "app"} /\ Ends = {"opener", "acceptor"}
      /\ P => Ending(thread'["sio"].id)
  BY DEF Threads, Ends, CloseInv, At, On
<1>s. ASSUME thread'["sio"] = thread["sio"] PROVE P
  BY <1>s
<1>1. CASE (\E i \in Streams : CallOpens(i)) \/ OpenGoesOn \/ OpenReturns \/ StopCloses
  BY <1>0, <1>1, <1>s DEF CallOpens, OpenGoesOn, OpenReturns, StopCloses, Goes, Begins, Clears,
                          SameThreads
<1>2. CASE CallWaits \/ TaskSkips \/ StreamsRest \/ WireIsCut
  BY <1>0, <1>2, <1>s DEF CallWaits, TaskSkips, StreamsRest, WireIsCut, SameThreads
<1>3. ASSUME NEW t \in Threads, Notified(t) \/ Added(t) PROVE P
  <2>1. t # "sio"
    BY <1>3 DEF AcceptorInv, Notified, Added, At
  <2>. QED  BY <1>0, <1>3, <1>s, <2>1 DEF Notified, Added, Goes
<1>4. ASSUME NEW t \in Threads, ChangeIsSet(t) PROVE P
  <2>1. CASE t # "sio"
    BY <1>0, <1>4, <1>s, <2>1 DEF ChangeIsSet, Swapped, Goes
  <2>2. CASE t = "sio"
    BY <1>0, <1>4, <2>2 DEF ChangeIsSet, Swapped, Goes, End, At, AcceptorInv
  <2>. QED  BY <2>1, <2>2
<1>5. ASSUME NEW t \in Threads, CloseIsSent(t) PROVE P
  BY <1>0, <1>5, <1>s DEF CloseIsSent, Goes
<1>6. ASSUME NEW m \in Packets, OpenerReceives(m) PROVE P
  BY <1>0, <1>6, <1>s DEF OpenerReceives, Goes, Begins, Clears, SameThreads
<1>7. ASSUME NEW m \in Packets, CreateArrives(m) PROVE P
  BY <1>0, <1>7, <1>s DEF CreateArrives, Goes
<1>8. ASSUME NEW t \in Threads, ManagerStarts(t) \/ \E i \in Streams : ManagerVisits(t, i)
      PROVE  P
  BY <1>0, <1>8, <1>s DEF ManagerStarts, ManagerVisits, Goes, Begins, Clears, SameThreads
<1>9. CASE AcceptorAnswers
  BY <1>0, <1>9 DEF AcceptorAnswers, Goes, Begins, Clears
<1>10. ASSUME NEW i \in Streams, AppUses(i) PROVE P
  BY <1>0, <1>10, <1>s DEF AppUses, Goes, Begins, Clears, SameThreads
<1>11. ASSUME NEW m \in Packets, CloseArrives(m) PROVE P \/ Ending(thread'["sio"].id)
  <2>1. m.type = "CLOSE" /\ m.id \in Streams /\ Takes("acceptor", m)
    BY <1>11 DEF CloseArrives, Packets
  <2>2. PacketsOf("acceptor", "CLOSE", m.id) # {}
    BY <1>0, <2>1, TakenIsLast
  <2>3. Ending(m.id)
    BY <2>1, <2>2 DEF CloseInv
  <2>4. CASE SameThreads
    BY <1>0, <1>s, <2>4 DEF SameThreads
  <2>5. CASE Clears("sio", m.id, "idle")
    <3>1. thread'["sio"].id = m.id
      BY <2>5 DEF Clears, Goes, Begins
    <3>. QED  BY <2>3, <3>1
  <2>. QED  BY <1>11, <2>4, <2>5 DEF CloseArrives
<1>. QED  BY <1>0, <1>1, <1>2, <1>3, <1>4, <1>5, <1>6, <1>7, <1>8, <1>9, <1>10, <1>11 DEF Step

\* CLOSE is sent for a stream that ends.
LEMMA CloseStays ==
    ASSUME ThreadsOK, TypeOK, CallerInv, NetworkInv, AcceptorInv, CreateInv, PacketsInv,
           StatusInv, KnownInv, SuccessInv, AliveInv, CloseInv, NoRevival, Step,
           ThreadsOK', CallerInv', NetworkInv'
    PROVE  CloseInv'
<1>0. /\ Threads = {"caller", "io", "stop", "sio", "app"} /\ Ends = {"opener", "acceptor"}
      /\ OpenerThreads = {"caller", "io", "stop"}
      /\ \A t \in Threads : Peer(End(t)) = "acceptor" => t \in OpenerThreads
      /\ \A t \in Threads : thread'[t].at # "idle" => thread'[t].id \in Streams
  BY DEF Threads, Ends, OpenerThreads, Peer, End, ThreadsOK, At, On
<1>1. OpenerMove
  BY OpenerSees
<1>2. ASSUME NEW k \in Streams, Ending(k) PROVE Ending(k)'
  BY <1>1, <1>2, EndingStays
<1>3. ASSUME NEW u \in OpenerThreads, "sendClose" \in {thread'[u].at, thread'[u].then}
      PROVE  Ending(On(u))'
  <2>1. thread'[u].at # "idle"
    BY <1>0, <1>3 DEF CallerInv, NetworkInv, Changes, At
  <2>2. PICK k \in Streams : k = thread'[u].id
    BY <1>0, <2>1
  <2>3. Ending(k) \/ Ending(k)'
    BY <1>1, <1>3, <2>2, CloserEnds
  <2>4. Ending(k)'
    BY <1>2, <2>3
  <2>. QED  BY <2>2, <2>4 DEF Ending, Closing, ClosesIt, Status, At, On
<1>4. ASSUME NEW id \in Streams, PacketsOf("acceptor", "CLOSE", id)' # {} PROVE Ending(id)'
  <2>1. PacketsOf("acceptor", "CLOSE", id) # {} \/ Sends("acceptor", "CLOSE", id)
    BY <1>0, <1>4, WiresMove, PacketsMove
  <2>2. Sends("acceptor", "CLOSE", id) => Ending(id)
    BY <1>0 DEF Sends, CloseInv, Doing, At
  <2>. QED  BY <1>2, <2>1, <2>2 DEF CloseInv
<1>5. ASSUME thread'["sio"].at = "change", thread'["sio"].then = "idle" PROVE Ending(On("sio"))'
  <2>1. PICK k \in Streams : k = thread'["sio"].id
    BY <1>0, <1>5
  <2>2. Ending(k)
    BY <1>5, <2>1, ToldToEnd
  <2>3. Ending(k)'
    BY <1>2, <2>2
  <2>. QED  BY <2>1, <2>3 DEF Ending, Closing, ClosesIt, Status, At, On
<1>. QED  BY <1>3, <1>4, <1>5 DEF CloseInv, Doing, At

\* A packet stays on its wire until it is taken.
LEMMA PacketsWait ==
    ASSUME TypeOK, WireStep("opener"), connected', NEW type, NEW id,
           PacketsOf("opener", type, id) # {}
    PROVE  \/ PacketsOf("opener", type, id)' # {}
           \/ \E m \in Packets : m.type = type /\ m.id = id /\ OpenerReceives(m)
<1>0. wire["opener"] \in Seq(Packets)
  BY DEF TypeOK, StreamTypeOK, Ends
<1>1. CASE wire'["opener"] = wire["opener"]
  BY <1>1 DEF PacketsOf
<1>2. CASE WireIsCut
  BY <1>2 DEF WireIsCut
<1>3. ASSUME NEW m \in Packets, Takes("opener", m), OpenerReceives(m), ~(m.type = type /\ m.id = id)
      PROVE  PacketsOf("opener", type, id)' # {}
  <2>1. /\ wire["opener"] # <<>> /\ m = Head(wire["opener"]) /\ wire'["opener"] = Tail(wire["opener"])
    BY <1>3 DEF Takes
  <2>2. PICK i \in PositionsOf(wire["opener"], type, id) : TRUE
    BY DEF PacketsOf
  <2>3. /\ i \in 1 .. Len(wire["opener"])
        /\ wire["opener"][i].type = type /\ wire["opener"][i].id = id
    BY <2>2 DEF PositionsOf
  <2>4. i # 1
    BY <1>0, <1>3, <2>1, <2>3
  <2>5. /\ i - 1 \in 1 .. Len(Tail(wire["opener"]))
        /\ Tail(wire["opener"])[i - 1] = wire["opener"][i]
    BY <1>0, <2>1, <2>3, <2>4
  <2>6. i - 1 \in PositionsOf(Tail(wire["opener"]), type, id)
    BY <2>3, <2>5 DEF PositionsOf
  <2>. QED  BY <2>1, <2>6 DEF PacketsOf
<1>4. ASSUME NEW p \in Packets, wire'["opener"] = Append(wire["opener"], p)
      PROVE  PacketsOf("opener", type, id)' # {}
  <2>1. PositionsOf(wire["opener"], type, id) # {}
    BY DEF PacketsOf
  <2>2. PositionsOf(Append(wire["opener"], p), type, id) # {}
    BY <1>0, <2>1, PositionsOfAppend
  <2>. QED  BY <1>4, <2>2 DEF PacketsOf
<1>. QED  BY <1>1, <1>2, <1>3, <1>4 DEF WireStep

(***************************************************************************)
(* The two ends of a stream.                                               *)
(***************************************************************************)

\* What the application is about to tell the opener.
AppEnds(id) == On("app") = id /\ "sendClose" \in Doing("app")

\* The acceptor's end of a stream whose create-success has been sent stops being connected
\* by the application, or because of a CLOSE.
LEMMA LeavesConnected ==
    ASSUME ThreadsOK, TypeOK, AcceptorInv, CreateInv, CloseInv, Step, NEW id \in Streams,
           state["acceptor"][id] = "CONNECTED", state'["acceptor"][id] # "CONNECTED",
           connected', ~InSio(id)'
    PROVE  Ending(id) \/ AppEnds(id)'
<1>0. /\ Threads = {"caller", "io", "stop", "sio", "app"} /\ Ends = {"opener", "acceptor"}
      /\ End("sio") = "acceptor" /\ End("app") = "acceptor"
      /\ End("caller") = "opener" /\ End("io") = "opener" /\ End("stop") = "opener"
      /\ Peer("opener") = "acceptor" /\ state["acceptor"] \in [Streams -> StateCodes]
      /\ \A t \in Threads : At(t) # "idle" => On(t) \in Streams
  BY DEF Threads, Ends, End, Peer, TypeOK, StreamTypeOK, ThreadsOK
<1>s. ~SameState("acceptor")
  BY DEF SameState
<1>1. ASSUME NEW t \in Threads, ChangeIsSet(t) PROVE Ending(id) \/ AppEnds(id)'
  <2>1. CASE t \notin {"sio", "app"}
    BY <1>0, <1>1, <1>s, <2>1 DEF ChangeIsSet, Swapped, SameState
  <2>2. CASE t \in {"sio", "app"}
    <3>1. /\ thread[t].at = "change" /\ thread[t].id = id
          /\ thread[t].next # "CONNECTED" /\ Goes(t, thread[t].then, id)
      BY <1>0, <1>1, <2>2 DEF ChangeIsSet, Swapped, At, On
    <3>2. CASE t = "app"
      BY <3>1, <3>2 DEF AcceptorInv, At, Goes, AppEnds, Doing, On
    <3>3. CASE t = "sio"
      <4>1. thread["sio"].then \notin {"success", "sendFail"}
        BY <3>1, <3>3 DEF InSio, Doing, At, On, Goes
      <4>2. connected
        BY <1>1 DEF ChangeIsSet
      <4>3. thread["sio"].then = "idle"
        BY <3>1, <3>3, <4>1, <4>2 DEF AcceptorInv, At, Doing
      <4>. QED  BY <3>1, <3>3, <4>3 DEF CloseInv, At, On
    <3>. QED  BY <2>2, <3>2, <3>3
  <2>. QED  BY <2>1, <2>2
<1>2. ASSUME NEW m \in Packets, CreateArrives(m) PROVE FALSE
  <2>1. m.id = id /\ m.type = "CREATE" /\ Takes("acceptor", m)
    BY <1>0, <1>2 DEF CreateArrives, Packets
  <2>2. PacketsOf("acceptor", "CREATE", id) # {}
    BY <1>0, <2>1, TakenIsLast
  <2>. QED  BY <2>2 DEF CreateInv, Creates, CreatesIn, PacketsOf, PositionsOf
<1>3. ASSUME NEW t \in Threads, Notified(t) \/ Added(t) \/ CloseIsSent(t) PROVE FALSE
  BY <1>0, <1>3, <1>s DEF Notified, Added, CloseIsSent
<1>4. ASSUME NEW m \in Packets, OpenerReceives(m) \/ CloseArrives(m) PROVE FALSE
  BY <1>4, <1>s DEF OpenerReceives, CloseArrives
<1>5. ASSUME NEW t \in Threads, ManagerStarts(t) \/ \E i \in Streams : ManagerVisits(t, i)
      PROVE  FALSE
  BY <1>0, <1>5, <1>s DEF ManagerStarts, ManagerVisits
<1>6. CASE (\E i \in Streams : CallOpens(i)) \/ OpenGoesOn \/ OpenReturns \/ StopCloses
           \/ AcceptorAnswers \/ \E i \in Streams : AppUses(i)
  BY <1>0, <1>6, <1>s DEF CallOpens, OpenGoesOn, OpenReturns, StopCloses, AcceptorAnswers, AppUses
<1>7. CASE CallWaits \/ TaskSkips \/ StreamsRest \/ WireIsCut
  BY <1>0, <1>7, <1>s DEF CallWaits, TaskSkips, StreamsRest, WireIsCut
<1>. QED  BY <1>1, <1>2, <1>3, <1>4, <1>5, <1>6, <1>7 DEF Step

\* The application that closes a stream sends its CLOSE.
LEMMA AppTells ==
    ASSUME ThreadsOK, TypeOK, AcceptorInv, Step, NEW id \in Streams, connected', AppEnds(id)
    PROVE  AppEnds(id)' \/ PacketsOf("opener", "CLOSE", id)' # {}
<1>0. /\ Threads = {"caller", "io", "stop", "sio", "app"} /\ Ends = {"opener", "acceptor"}
      /\ End("app") = "acceptor" /\ Peer("acceptor") = "opener"
      /\ At("app") \in {"change", "sendClose"} /\ thread["app"].id = id
      /\ At("app") = "change" => thread["app"].then = "sendClose"
  BY DEF Threads, Ends, End, Peer, AcceptorInv, AppEnds, Doing, At, On
<1>s. ASSUME thread'["app"] = thread["app"] PROVE AppEnds(id)'
  BY <1>s DEF AppEnds, Doing, On
<1>1. CASE (\E i \in Streams : CallOpens(i)) \/ OpenGoesOn \/ OpenReturns \/ StopCloses
  BY <1>0, <1>1, <1>s DEF CallOpens, OpenGoesOn, OpenReturns, StopCloses, Goes, Begins, Clears,
                          SameThreads
<1>2. CASE CallWaits \/ TaskSkips \/ StreamsRest \/ WireIsCut
  BY <1>0, <1>2, <1>s DEF CallWaits, TaskSkips, StreamsRest, WireIsCut, SameThreads
<1>3. ASSUME NEW t \in Threads, Notified(t) \/ Added(t) PROVE AppEnds(id)'
  <2>1. t # "app"
    BY <1>0, <1>3 DEF Notified, Added, At
  <2>. QED  BY <1>0, <1>3, <1>s, <2>1 DEF Notified, Added, Goes
<1>4. ASSUME NEW t \in Threads, ChangeIsSet(t) PROVE AppEnds(id)'
  <2>1. CASE t # "app"
    BY <1>0, <1>4, <1>s, <2>1 DEF ChangeIsSet, Swapped, Goes
  <2>2. CASE t = "app"
    BY <1>0, <1>4, <2>2 DEF ChangeIsSet, Swapped, Goes, AppEnds, Doing, At, On
  <2>. QED  BY <2>1, <2>2
<1>5. ASSUME NEW t \in Threads, CloseIsSent(t)
      PROVE  AppEnds(id)' \/ PacketsOf("opener", "CLOSE", id)' # {}
  <2>1. CASE t # "app"
    BY <1>0, <1>5, <1>s, <2>1 DEF CloseIsSent, Goes
  <2>2. CASE t = "app"
    <3>. DEFINE p == [type |-> "CLOSE", id |-> id]
    <3>1. wire["opener"] \in Seq(Packets) /\ wire \in [Ends -> Seq(Packets)] /\ p \in Packets
      BY <1>0 DEF TypeOK, StreamTypeOK, Packets, PacketTypes
    <3>2. wire'["opener"] = Append(wire["opener"], p)
      BY <1>0, <1>5, <2>2, <3>1 DEF CloseIsSent, Write, On
    <3>3. p.type = "CLOSE" /\ p.id = id
      OBVIOUS
    <3>4. PositionsOf(Append(wire["opener"], p), "CLOSE", id) # {}
      <4>. HIDE DEF p
      <4>. QED  BY <3>1, <3>3, PositionsOfAppend
    <3>. QED  BY <3>2, <3>4 DEF PacketsOf
  <2>. QED  BY <2>1, <2>2
<1>6. ASSUME NEW m \in Packets, OpenerReceives(m) \/ CreateArrives(m) \/ CloseArrives(m)
      PROVE  AppEnds(id)'
  BY <1>0, <1>6, <1>s DEF OpenerReceives, CreateArrives, CloseArrives, Goes, Begins, Clears,
                          SameThreads
<1>7. ASSUME NEW t \in Threads, ManagerStarts(t) \/ \E i \in Streams : ManagerVisits(t, i)
      PROVE  AppEnds(id)'
  BY <1>0, <1>7, <1>s DEF ManagerStarts, ManagerVisits, Goes, Begins, Clears, SameThreads
<1>8. CASE AcceptorAnswers
  BY <1>0, <1>8, <1>s DEF AcceptorAnswers, Goes, Begins, Clears
<1>9. ASSUME NEW i \in Streams, AppUses(i) PROVE AppEnds(id)'
  BY <1>0, <1>9, <1>s DEF AppUses, SameThreads, At
<1>. QED  BY <1>1, <1>2, <1>3, <1>4, <1>5, <1>6, <1>7, <1>8, <1>9 DEF Step

\* A CLOSE that is received ends its stream.
LEMMA CloseIsHeard ==
    ASSUME TypeOK, CreateInv, PacketsInv, StatusInv, CallerInv, AliveInv, NEW m \in Packets,
           OpenerReceives(m), m.type = "CLOSE", NEW id \in Streams, m.id = id
    PROVE  Ending(id) \/ Ending(id)'
<1>0. "io" \in OpenerThreads /\ End("io") = "opener" /\ "CLOSED" \in Ended
  BY DEF OpenerThreads, End, Ended
<1>1. CASE id \notin known["opener"]
  <2>1. Status(id) # "NEW"
    BY ArrivesLate
  <2>. QED  BY <1>1, <2>1, GoneIsEnding
<1>2. CASE id \in known["opener"]
  <2>1. \E then \in {"idle", "sendClose"} : Clears("io", id, then)
    BY <1>2 DEF OpenerReceives
  <2>2. \/ state["opener"][id] = "CLOSED"
        \/ thread'["io"].at = "change" /\ thread'["io"].id = id /\ thread'["io"].next = "CLOSED"
    BY <1>0, <1>2, <2>1 DEF Clears, Begins
  <2>. QED  BY <1>0, <2>2 DEF Ending, Status, Closing, ClosesIt, At, On
<1>. QED  BY <1>1, <1>2

\* The ends agree, or the end of the stream is under way.
LEMMA PairStays ==
    ASSUME ThreadsOK, TypeOK, CallerInv, NetworkInv, AcceptorInv, CreateInv, PacketsInv,
           StatusInv, KnownInv, SuccessInv, AliveInv, TokenInv, CloseInv, PairInv, NoRevival,
           Step, TokenInv'
    PROVE  PairInv'
<1>1. OpenerMove /\ WireStep("opener")
  BY OpenerSees, WiresMove DEF Ends
<1>2. SUFFICES ASSUME NEW id \in Streams, connected',
                      InSuccess(id)' \/ InIo(id)' \/ InState(id)', ~Ending(id)'
               PROVE  \/ state'["acceptor"][id] = "CONNECTED"
                      \/ PacketsOf("opener", "CLOSE", id)' # {}
                      \/ AppEnds(id)'
  BY DEF PairInv, AppEnds
<1>3. ~Ending(id)
  BY <1>1, <1>2, EndingStays
<1>4. connected
  BY <1>2 DEF WireStep, Step, CallOpens, CallWaits, TaskSkips, StreamsRest, OpenGoesOn,
              OpenReturns, StopCloses, Notified, Added, ChangeIsSet, CloseIsSent, Takes,
              OpenerReceives, CreateArrives, CloseArrives, ManagerVisits, ManagerStarts,
              AcceptorAnswers, AppUses, WireIsCut
<1>5. \/ state["acceptor"][id] = "CONNECTED"
      \/ PacketsOf("opener", "CLOSE", id) # {}
      \/ AppEnds(id)
  <2>1. CASE InSuccess(id) \/ InIo(id) \/ InState(id)
    BY <1>3, <1>4, <2>1 DEF PairInv, AppEnds
  <2>2. CASE ~(InSuccess(id) \/ InIo(id) \/ InState(id))
    <3>1. InSuccess(id)'
      BY <1>1, <1>2, <2>2, OpenerForward
    <3>2. Sends("opener", "SUCCESS", id)
      BY <1>1, <2>2, <3>1, PacketsMove DEF InSuccess, Ends
    <3>. QED  BY <3>2 DEF Sends
  <2>. QED  BY <2>1, <2>2
<1>6. CASE state["acceptor"][id] = "CONNECTED"
  <2>1. ~InSio(id)'
    BY <1>2 DEF TokenInv
  <2>. QED  BY <1>2, <1>3, <1>6, <2>1, LeavesConnected
<1>7. CASE PacketsOf("opener", "CLOSE", id) # {}
  <2>1. ~\E m \in Packets : m.type = "CLOSE" /\ m.id = id /\ OpenerReceives(m)
    BY <1>2, <1>3, CloseIsHeard
  <2>. QED  BY <1>1, <1>2, <1>7, <2>1, PacketsWait
<1>8. CASE AppEnds(id)
  BY <1>2, <1>8, AppTells
<1>. QED  BY <1>5, <1>6, <1>7, <1>8

(***************************************************************************)
(* The invariant of the worker and its streams.                            *)
(***************************************************************************)

OpenerInv == /\ CallerInv /\ NetworkInv /\ StatusInv /\ KnownInv /\ SuccessInv /\ AliveInv
             /\ TimerInv /\ RetryInv
BothInv   == PacketsInv /\ AcceptorInv /\ TokenInv /\ CloseInv /\ PairInv
WorkerInv == TypeOK /\ ThreadsOK /\ CreateInv /\ OpenerInv /\ BothInv

\* At first nothing is opened and nothing is on its way.
LEMMA WorkerInvInit ==
    ASSUME Init
    PROVE  WorkerInv
<1>1. TypeOK /\ ThreadsOK /\ CreateInv
  BY InitCreates
<1>2. /\ Threads = {"caller", "io", "stop", "sio", "app"} /\ Ends = {"opener", "acceptor"}
      /\ OpenerThreads = {"caller", "io", "stop"} /\ Ended = {"CLOSED", "ILLEGAL_STATE"}
  BY DEF Threads, Ends, OpenerThreads, Ended
<1>3. /\ \A t \in Threads : At(t) = "idle" /\ thread[t].then = "idle" /\ thread[t].next = "NEW"
      /\ \A id \in Streams : Status(id) = "NEW"
      /\ \A e \in Ends : known[e] = {} /\ todo[e] = {}
  BY <1>2 DEF Init, StreamInit, Idle, At, Status
<1>4. \A e \in Ends : \A type, id : PacketsOf(e, type, id) = {}
  <2>1. Len(<<>>) = 0 /\ 1 .. 0 = {}
    OBVIOUS
  <2>. QED  BY <2>1 DEF Init, StreamInit, PacketsOf, PositionsOf
<1>5. CallerInv /\ NetworkInv
  BY <1>2, <1>3 DEF CallerInv, NetworkInv, Changes, Init
<1>6. StatusInv /\ KnownInv /\ SuccessInv /\ AliveInv
  BY <1>2, <1>3 DEF StatusInv, KnownInv, SuccessInv, AliveInv, Alive, Init
<1>7. TimerInv /\ RetryInv
  BY <1>2, <1>3 DEF TimerInv, RetryInv, Init
<1>8. PacketsInv /\ AcceptorInv
  BY <1>2, <1>3, <1>4 DEF PacketsInv, AcceptorInv, Doing, At
<1>9. TokenInv /\ CloseInv /\ PairInv
  BY <1>2, <1>3, <1>4 DEF TokenInv, CloseInv, PairInv, InCreate, InSio, InSuccess, InIo, InState,
                          Doing, At
<1>. QED  BY <1>1, <1>5, <1>6, <1>7, <1>8, <1>9 DEF WorkerInv, OpenerInv, BothInv

\* Every step keeps it.
LEMMA WorkerInvStep ==
    ASSUME WorkerInv, [Next]_vars
    PROVE  WorkerInv'
<1>. USE DEF WorkerInv, OpenerInv, BothInv
<1>1. TypeOK' /\ ThreadsOK' /\ CreateInv' /\ NoRevival
  BY TypeStep, CreateStep, EndedStays
<1>2. Step
  BY NextIsStep DEF CallerInv
<1>3. OpenerMove
  BY <1>2, OpenerSees
<1>4. CallerInv' /\ NetworkInv' /\ AcceptorInv'
  BY <1>2, <1>3, CallerStays, NetworkStays, AcceptorStays
<1>5. PacketsInv' /\ TokenInv'
  BY <1>1, <1>2, PacketsStay, TokenStays
<1>6. StatusInv' /\ KnownInv' /\ SuccessInv'
  BY <1>1, <1>3, StatusStays, KnownStays, SuccessStays
<1>7. AliveInv'
  BY <1>1, <1>3, AliveStays DEF AliveInv
<1>8. TimerInv' /\ RetryInv'
  BY <1>1, <1>3, TimerStays, RetryStays
<1>9. CloseInv'
  BY <1>1, <1>2, <1>4, CloseStays
<1>10. PairInv'
  BY <1>1, <1>2, <1>5, PairStays
<1>. QED  BY <1>1, <1>4, <1>5, <1>6, <1>7, <1>8, <1>9, <1>10

\* So it holds of every state.
LEMMA WorkerInvHolds == Spec => []WorkerInv
<1>1. Init => WorkerInv
  BY WorkerInvInit
<1>2. WorkerInv /\ [Next]_vars => WorkerInv'
  BY WorkerInvStep
<1>. QED  BY <1>1, <1>2, PTL DEF Spec

\* When no thread is in the middle of something, no stream is being opened or closed.
LEMMA CalmThreads ==
    ASSUME WorkerInv, Calm, NEW id \in Streams
    PROVE  ~Opens(id) /\ ~Closing(id) /\ ~Forgets(id) /\ ~AppEnds(id)
BY DEF WorkerInv, OpenerInv, BothInv, Calm, Opens, Closing, ClosesIt, Forgets, AppEnds, Doing,
       Changes, CallerInv, AcceptorInv, Threads, OpenerThreads, At

\* No stream of the worker outlives its stop: whoever opens one, or is about to, when it is
\* stopped closes it, and no timer's task, reactive call or listener opens another.
THEOREM StopEndsStreams == Spec => []NoStreamAfterStop
<1>1. WorkerInv => NoStreamAfterStop
  <2> SUFFICES ASSUME WorkerInv, stopped, Calm, NEW id \in Streams, Alive(id) PROVE FALSE
    BY DEF NoStreamAfterStop, Alive, Status
  <2>1. Kept(id)
    BY DEF WorkerInv, OpenerInv, AliveInv
  <2>. QED  BY <2>1, CalmThreads DEF Kept
<1>. QED  BY <1>1, WorkerInvHolds, PTL

\* The worker never has two live streams to its agent, however it is called and whatever
\* becomes of the streams it has had.
THEOREM LiveStreamIsOne == Spec => []OneLiveStream
<1>1. WorkerInv => OneLiveStream
  <2> SUFFICES ASSUME WorkerInv, Calm
               PROVE  Cardinality({id \in Streams : Alive(id)}) <= 1
    BY DEF OneLiveStream, Alive, Status
  <2>. DEFINE live == {id \in Streams : Alive(id)}
  <2>1. ASSUME NEW id \in live PROVE id = stream
    <3>1. Kept(id) /\ id \in Streams
      BY DEF WorkerInv, OpenerInv, AliveInv
    <3>. QED  BY <3>1, CalmThreads DEF Kept
  <2>2. live \in SUBSET {stream}
    BY <2>1
  <2>3. Cardinality({stream}) = 1 /\ IsFiniteSet({stream})
    BY FS_Singleton
  <2>4. Cardinality(live) <= Cardinality({stream})
    BY <2>2, <2>3, FS_Subset
  <2>. QED  BY <2>3, <2>4
<1>. QED  BY <1>1, WorkerInvHolds, PTL

\* The opener's map loses the context of every stream that ends, by whichever thread, so
\* that a packet that still comes for it is answered by CLOSE.
THEOREM MapHasLiveStreams == Spec => []ContextsAreLive
<1>1. WorkerInv => ContextsAreLive
  <2> SUFFICES ASSUME WorkerInv, Calm, NEW id \in known["opener"], Status(id) \in Ended
               PROVE  FALSE
    BY DEF ContextsAreLive, Status
  <2>1. id \in Streams
    BY DEF WorkerInv, TypeOK, StreamTypeOK, Ends
  <2>2. Forgets(id)
    BY DEF WorkerInv, OpenerInv, KnownInv
  <2>. QED  BY <2>1, <2>2, CalmThreads
<1>. QED  BY <1>1, WorkerInvHolds, PTL

\* No wake-up is lost: a worker without a stream waits for the timer, and the timer has a
\* task for it, whichever thread's listener put it down and whenever a task took it.
THEOREM InactiveWaits == Spec => []InactiveIsRetried
<1>1. WorkerInv => InactiveIsRetried
  <2> SUFFICES ASSUME WorkerInv, started \/ dropped # {}, ~stopped, ~active, Calm, ~due
               PROVE  reactive /\ timerOn /\ tasks > 0
    BY DEF InactiveIsRetried
  <2>1. \A t \in OpenerThreads : ~WillAdd(t)
    BY DEF Calm, Threads, OpenerThreads, WillAdd
  <2>2. At("caller") = "idle"
    BY DEF Calm, Threads
  <2>3. reactive
    BY <2>1, <2>2 DEF WorkerInv, OpenerInv, RetryInv
  <2>. QED  BY <2>3 DEF WorkerInv, OpenerInv, TimerInv
<1>. QED  BY <1>1, WorkerInvHolds, PTL

\* The ends of a stream agree: what is connected for the web is connected for the agent,
\* once nothing is on its way, although either end is closed without the other's consent.
THEOREM EndsAgree == Spec => []ConnectedInPairs
<1>1. WorkerInv => ConnectedInPairs
  <2> SUFFICES ASSUME WorkerInv, Quiet, connected, NEW id \in Streams, InState(id)
               PROVE  state["acceptor"][id] = "CONNECTED"
    BY DEF ConnectedInPairs, InState, Status
  <2>1. ~Ending(id) /\ ~AppEnds(id)
    BY CalmThreads DEF Quiet, Ending, InState, Ended
  <2>2. PacketsOf("opener", "CLOSE", id) = {}
    <3>1. Len(<<>>) = 0 /\ 1 .. 0 = {}
      OBVIOUS
    <3>. QED  BY <3>1 DEF Quiet, Ends, PacketsOf, PositionsOf
  <2>. QED  BY <2>1, <2>2 DEF WorkerInv, BothInv, PairInv, AppEnds
<1>. QED  BY <1>1, WorkerInvHolds, PTL
=============================================================================
