------------------------- MODULE RequestManager_proofs -------------------------
(***************************************************************************)
(* Proofs about RequestManager, for every set of requests and both sides:  *)
(* the types, that it implements RequestPromise, and that a listener is    *)
(* heard once, a ready future leaves the map and a client's timer that     *)
(* stops leaves no request behind.                                         *)
(***************************************************************************)
EXTENDS RequestManager, TLAPS

Asked == {r \in Requests : pc[r] \notin {"idle", "rejected"}}
Answered == {r \in Requests : sent[r] = "answered"}
Results == {"result", "failure", "timeout"}
Unregistered == {"idle", "put", "rejected"}
Scheduled == {"setTimeout", "write", "listen", "done"}

(***************************************************************************)
(* The inductive invariants.                                               *)
(***************************************************************************)

\* A listener that is still set was not called; it is not set, and nobody was told, before
\* the caller is through.
ToldInv ==
    \A r \in Requests :
        /\ listener[r] => told[r] = 0
        /\ pc[r] # "done" => told[r] = 0 /\ ~listener[r]
        /\ told[r] = 1 => outcome[r] # "none"
        /\ by[r] # "nobody" => outcome[r] # "none"

\* Whatever can complete a future belongs to a request that was registered, a packet to one
\* that was written, and a response that arrives to one that was answered.
AskedInv ==
    /\ requestMap \cup tasks \cup must \subseteq Asked
    /\ \A r \in Requests : sent[r] # "no" => pc[r] \in {"listen", "done"}
    /\ replies \subseteq Answered

\* A caller that is through was told, or its listener waits for an outcome, or for the thread
\* that notifies.
HeardInv ==
    \A r \in Requests :
        pc[r] = "done" =>
            told[r] = 1 \/ (listener[r] /\ (outcome[r] = "none" \/ by[r] # "nobody"))

\* What is known of a future from where its caller is inside register: nothing completes it
\* before it is in the map, and its timeout finds it with a failureEventHandler.
RegisterInv ==
    \A r \in Requests :
        /\ released[r] => outcome[r] # "none"
        /\ pc[r] \in Unregistered => outcome[r] = "none" /\ r \notin requestMap \cup must
        /\ r \in tasks => pc[r] \in Scheduled
        /\ pc[r] \in Scheduled \cup {"newTimeout"} /\ ~released[r] => handler[r]

\* A future that is ready and still in the map is about to be taken out of it: by close(), or
\* by the thread that completed it, which has yet to call its failureEventHandler.
MapInv ==
    \A r \in requestMap :
        outcome[r] # "none" =>
            \/ wPc = "iterate"
            \/ by[r] # "nobody" /\ ~released[r] /\ handler[r] /\ outcome[r] # "result"

\* The worker closes the manager after its channel is closed, and a failed write has failed
\* its future.
ChannelInv ==
    /\ wPc # "open" => chan = "closed"
    /\ \A r \in Requests :
          /\ sent[r] = "failed" => outcome[r] # "none"
          /\ pc[r] \in {"listen", "done"} <=> sent[r] # "no"

\* A pending request of a client is one that close() will find or is still to visit, or one
\* that is not written yet and whose write will fail.
PendingInv ==
    side = "client" =>
        /\ timer = "stopped" => wPc = "done"
        /\ \A r \in Requests : outcome[r] = "none" /\ pc[r] \notin Unregistered =>
              /\ wPc \in {"open", "close"} => r \in requestMap
              /\ wPc = "iterate" => r \in must \/ sent[r] = "no"
              /\ wPc \in {"stopTimer", "done"} => sent[r] = "no"

(***************************************************************************)
(* SetReady, the only way to an outcome.                                   *)
(***************************************************************************)

\* The synchronized block keeps the types.
LEMMA SetReadyType ==
    ASSUME TypeOK, NEW r \in Requests, NEW t \in Threads,
           NEW o \in {"result", "failure", "timeout"}, SetReady(r, t, o)
    PROVE  /\ outcome' \in [Requests -> {"none", "result", "failure", "timeout"}]
           /\ by' \in [Requests -> Threads \cup {"nobody"}]
BY DEF TypeOK, SetReady

\* The synchronized block keeps an outcome, and sets none but the one it was called with.
LEMMA SetReadyOnce ==
    ASSUME TypeOK, NEW r \in Requests, NEW t \in Threads,
           NEW o \in {"result", "failure", "timeout"}, SetReady(r, t, o)
    PROVE  /\ \/ UNCHANGED <<outcome, by>>
              \/ outcome[r] = "none" /\ outcome' = [outcome EXCEPT ![r] = o]
           /\ \A x \in Requests :
                /\ outcome[x] # "none" => outcome'[x] # "none"
                /\ by'[x] # "nobody" => by[x] # "nobody" \/ outcome'[x] # "none"
BY DEF TypeOK, SetReady

(***************************************************************************)
(* Types.                                                                  *)
(***************************************************************************)

\* Every step, and a stuttering one, keeps the types.
LEMMA TypeStep == TypeOK /\ ToldInv /\ [Next]_vars => TypeOK'
<1>. SUFFICES ASSUME TypeOK, ToldInv, [Next]_vars PROVE TypeOK'
  OBVIOUS
<1>. USE DEF TypeOK, Threads, futureVars, managerVars, timerVars, channelVars
<1>1. CASE UNCHANGED vars
  BY <1>1 DEF vars
<1>2. CASE \E r \in Requests : Release(r)
  <2>. PICK r \in Requests : Release(r)
    BY <1>2
  <2>1. tasks' \in SUBSET Requests /\ timeoutField' \in [Requests -> BOOLEAN]
    BY DEF Release
  <2>2. requestMap' \in SUBSET Requests /\ handler' \in [Requests -> BOOLEAN]
    BY DEF Release
  <2>. QED  BY <2>1, <2>2 DEF Release
<1>3. CASE \E r \in Requests : NotifyListener(r)
  <2>. PICK r \in Requests : NotifyListener(r)
    BY <1>3
  <2>0. listener[r] => told[r] + 1 = 1
    BY DEF ToldInv
  <2>1. told' \in [Requests -> 0..1]
    BY <2>0 DEF NotifyListener
  <2>2. listener' \in [Requests -> BOOLEAN]
    BY DEF NotifyListener
  <2>3. by' \in [Requests -> Threads \cup {"nobody"}]
    BY DEF NotifyListener
  <2>. QED  BY <2>1, <2>2, <2>3 DEF NotifyListener
<1>4. CASE \E r \in Requests : Request(r)
  BY <1>4 DEF Request
<1>5. CASE \E r \in Requests : Put(r)
  BY <1>5 DEF Put
<1>6. CASE \E r \in Requests : SetFailureEventHandler(r)
  BY <1>6 DEF SetFailureEventHandler
<1>7. CASE \E r \in Requests : NewTimeout(r)
  BY <1>7, SetReadyType DEF NewTimeout
<1>8. CASE \E r \in Requests : SetTimeout(r)
  BY <1>8 DEF SetTimeout
<1>9. CASE \E r \in Requests : Write(r)
  BY <1>9, SetReadyType DEF Write
<1>10. CASE \E r \in Requests : SetListener(r)
  <2>. PICK r \in Requests : SetListener(r)
    BY <1>10
  <2>0. told[r] + 1 = 1
    BY DEF SetListener, ToldInv
  <2>1. told' \in [Requests -> 0..1]
    BY <2>0 DEF SetListener
  <2>2. listener' \in [Requests -> BOOLEAN]
    BY DEF SetListener
  <2>. QED  BY <2>1, <2>2 DEF SetListener
<1>11. CASE \E r \in Requests : Flush(r) \/ Reply(r)
  BY <1>11 DEF Flush, Reply
<1>12. CASE \E r \in Requests : MessageReceived(r)
  BY <1>12, SetReadyType DEF MessageReceived
<1>13. CASE \E r \in Requests : WriteFails(r)
  BY <1>13, SetReadyType DEF WriteFails
<1>14. CASE \E r \in Requests : CloseVisit(r)
  BY <1>14, SetReadyType DEF CloseVisit
<1>15. CASE \E r \in Requests : FireTimeout(r)
  BY <1>15, SetReadyType DEF FireTimeout
<1>16. CASE ChannelCloses \/ ChannelClosed \/ CloseBegin \/ CloseClear \/ StopTimer
  BY <1>16 DEF ChannelCloses, ChannelClosed, CloseBegin, CloseClear, StopTimer
<1>. QED
  BY <1>1, <1>2, <1>3, <1>4, <1>5, <1>6, <1>7, <1>8, <1>9, <1>10, <1>11, <1>12, <1>13,
     <1>14, <1>15, <1>16
  DEF Next, Progress, Environment

\* A listener is called at most once, and never before the outcome.
LEMMA ToldStep == TypeOK /\ ToldInv /\ [Next]_vars => ToldInv'
<1>. SUFFICES ASSUME TypeOK, ToldInv, [Next]_vars PROVE ToldInv'
  OBVIOUS
<1>. USE DEF TypeOK, ToldInv, futureVars
<1>1. CASE UNCHANGED <<pc, outcome, by, listener, told>>
  BY <1>1
<1>2. CASE UNCHANGED <<outcome, by, listener, told>>
           /\ \A r \in Requests : pc[r] = "done" => pc'[r] = "done"
  BY <1>2
<1>3. CASE /\ UNCHANGED <<listener, told>>
           /\ \A r \in Requests : pc[r] = "done" => pc'[r] = "done"
           /\ \E r \in Requests, t \in Threads, o \in {"result", "failure", "timeout"} :
                 SetReady(r, t, o)
  BY <1>3, SetReadyOnce
<1>4. CASE \E r \in Requests : NotifyListener(r)
  BY <1>4 DEF NotifyListener
<1>5. CASE \E r \in Requests : SetListener(r)
  BY <1>5 DEF SetListener
<1>6. CASE \E r \in Requests : Release(r) \/ Flush(r) \/ Reply(r)
  BY <1>6, <1>1 DEF Release, Flush, Reply
<1>7. CASE \E r \in Requests :
              Request(r) \/ Put(r) \/ SetFailureEventHandler(r) \/ SetTimeout(r)
  BY <1>7, <1>2 DEF Request, Put, SetFailureEventHandler, SetTimeout
<1>8. CASE \E r \in Requests : NewTimeout(r)
  BY <1>8, <1>2, <1>3 DEF NewTimeout, Threads
<1>9. CASE \E r \in Requests : Write(r)
  BY <1>9, <1>2, <1>3 DEF Write, Threads
<1>10. CASE \E r \in Requests : MessageReceived(r)
  BY <1>10, <1>1, <1>3 DEF MessageReceived, Threads
<1>11. CASE \E r \in Requests : WriteFails(r) \/ CloseVisit(r) \/ FireTimeout(r)
  BY <1>11, <1>3 DEF WriteFails, CloseVisit, FireTimeout, Threads
<1>12. CASE ChannelCloses \/ ChannelClosed \/ CloseBegin \/ CloseClear \/ StopTimer
            \/ UNCHANGED vars
  BY <1>12, <1>1 DEF ChannelCloses, ChannelClosed, CloseBegin, CloseClear, StopTimer, vars
<1>. QED
  BY <1>4, <1>5, <1>6, <1>7, <1>8, <1>9, <1>10, <1>11, <1>12
  DEF Next, Progress, Environment

\* The initial states are well typed and nobody was told anything.
LEMMA InitTyped == Init => TypeOK /\ ToldInv
BY DEF Init, TypeOK, ToldInv, Threads

\* The types of RequestManager, for every set of requests; told stays below two, whoever
\* completes a future and whenever its listener is set.
THEOREM RequestTypes == Spec => []TypeOK
<1>1. TypeOK /\ ToldInv /\ [Next]_vars => (TypeOK /\ ToldInv)'
  BY TypeStep, ToldStep
<1>. QED  BY InitTyped, <1>1, PTL DEF Spec

(***************************************************************************)
(* What completes a future was registered.                                 *)
(***************************************************************************)

\* Every step keeps what can complete a future within the requests that were registered.
LEMMA AskedStep == TypeOK /\ AskedInv /\ [Next]_vars => AskedInv'
<1>. SUFFICES ASSUME TypeOK, AskedInv, [Next]_vars PROVE AskedInv'
  OBVIOUS
<1>. USE DEF TypeOK, AskedInv, Asked, Answered, futureVars, managerVars, timerVars,
             channelVars
<1>1. CASE UNCHANGED vars
  BY <1>1 DEF vars
<1>2. CASE \E r \in Requests : Release(r)
  BY <1>2 DEF Release
<1>3. CASE \E r \in Requests : NotifyListener(r)
  BY <1>3 DEF NotifyListener
<1>4. CASE \E r \in Requests : Request(r)
  BY <1>4 DEF Request
<1>5. CASE \E r \in Requests : Put(r)
  BY <1>5 DEF Put
<1>6. CASE \E r \in Requests : SetFailureEventHandler(r)
  BY <1>6 DEF SetFailureEventHandler
<1>7. CASE \E r \in Requests : NewTimeout(r)
  BY <1>7 DEF NewTimeout
<1>8. CASE \E r \in Requests : SetTimeout(r)
  BY <1>8 DEF SetTimeout
<1>9. CASE \E r \in Requests : Write(r)
  BY <1>9 DEF Write
<1>10. CASE \E r \in Requests : SetListener(r)
  BY <1>10 DEF SetListener
<1>11. CASE \E r \in Requests : Flush(r) \/ Reply(r)
  BY <1>11 DEF Flush, Reply
<1>12. CASE \E r \in Requests : MessageReceived(r)
  BY <1>12 DEF MessageReceived
<1>13. CASE \E r \in Requests : WriteFails(r)
  BY <1>13 DEF WriteFails
<1>14. CASE \E r \in Requests : CloseVisit(r)
  BY <1>14 DEF CloseVisit
<1>15. CASE \E r \in Requests : FireTimeout(r)
  BY <1>15 DEF FireTimeout
<1>16. CASE ChannelCloses \/ ChannelClosed \/ CloseBegin \/ CloseClear \/ StopTimer
  BY <1>16 DEF ChannelCloses, ChannelClosed, CloseBegin, CloseClear, StopTimer
<1>. QED
  BY <1>1, <1>2, <1>3, <1>4, <1>5, <1>6, <1>7, <1>8, <1>9, <1>10, <1>11, <1>12, <1>13,
     <1>14, <1>15, <1>16
  DEF Next, Progress, Environment

(***************************************************************************)
(* RequestManager implements RequestPromise.                               *)
(***************************************************************************)

\* A step that leaves what the promise speaks of alone is a stutter.
LEMMA Stutters ==
    ASSUME UNCHANGED <<outcome, told>>, Asked' = Asked, Answered' = Answered
    PROVE  UNCHANGED Promise!promiseVars
BY DEF Promise!promiseVars, Asked, Answered

\* The synchronized block completes a request, or leaves it as it is.
LEMMA Completes ==
    ASSUME TypeOK, NEW r \in Asked, NEW t \in Threads, NEW o \in Results,
           o = "result" => r \in Answered, SetReady(r, t, o),
           told' = told, Asked' = Asked, Answered' = Answered
    PROVE  [Promise!PromiseNext]_(Promise!promiseVars)
<1>. r \in Requests
  BY DEF Asked
<1>1. CASE UNCHANGED outcome
  BY <1>1, Stutters
<1>2. CASE outcome[r] = "none" /\ outcome' = [outcome EXCEPT ![r] = o]
  <2>1. Promise!Complete(r, o)
    BY <1>2 DEF Promise!Complete, Asked, Answered
  <2>. QED  BY <2>1 DEF Promise!PromiseNext, Promise!Outcomes, Results
<1>. QED  BY <1>1, <1>2, SetReadyOnce DEF Results

\* The initial states of the manager are the initial state of the promise.
LEMMA InitPromise == Init => Promise!PromiseInit /\ AskedInv
BY DEF Init, Promise!PromiseInit, AskedInv, Asked, Answered

\* Every step of a thread asks, answers, completes, tells, or does not show.
LEMMA PromiseStep ==
    TypeOK /\ ToldInv /\ AskedInv /\ [Next]_vars => [Promise!PromiseNext]_(Promise!promiseVars)
<1>. SUFFICES ASSUME TypeOK, ToldInv, AskedInv, [Next]_vars
              PROVE  [Promise!PromiseNext]_(Promise!promiseVars)
  OBVIOUS
<1>. USE DEF futureVars, channelVars
<1>1. CASE UNCHANGED <<outcome, told, pc, sent>>
  BY <1>1, Stutters DEF Asked, Answered
<1>2. CASE \E r \in Requests : Release(r)
  BY <1>2, <1>1 DEF Release
<1>3. CASE \E r \in Requests : NotifyListener(r)
  <2>. PICK r \in Requests : NotifyListener(r)
    BY <1>3
  <2>1. CASE ~listener[r]
    BY <2>1, <1>1 DEF NotifyListener
  <2>2. CASE listener[r]
    <3>1. told[r] = 0 /\ outcome[r] # "none" /\ told[r] + 1 = 1
      BY <2>2 DEF NotifyListener, ToldInv
    <3>2. Promise!Tell(r)
      BY <2>2, <3>1 DEF NotifyListener, Promise!Tell
    <3>. QED  BY <3>2 DEF Promise!PromiseNext
  <2>. QED  BY <2>1, <2>2
<1>4. CASE \E r \in Requests : Request(r)
  <2>. PICK r \in Requests : Request(r)
    BY <1>4
  <2>1. CASE enabled
    <3>1. Promise!Ask(r)
      BY <2>1 DEF Request, Promise!Ask, TypeOK
    <3>. QED  BY <3>1 DEF Promise!PromiseNext
  <2>2. CASE ~enabled
    BY <2>2, Stutters DEF Request, Asked, Answered, TypeOK
  <2>. QED  BY <2>1, <2>2
<1>5. CASE \E r \in Requests : Put(r) \/ SetFailureEventHandler(r) \/ SetTimeout(r)
  BY <1>5, Stutters DEF Put, SetFailureEventHandler, SetTimeout, Asked, Answered, TypeOK
<1>6. CASE \E r \in Requests : NewTimeout(r)
  <2>. PICK r \in Requests : NewTimeout(r)
    BY <1>6
  <2>1. r \in Asked /\ told' = told /\ Asked' = Asked /\ Answered' = Answered
    BY DEF NewTimeout, Asked, Answered, TypeOK
  <2>2. UNCHANGED outcome \/ SetReady(r, r, "failure")
    BY DEF NewTimeout
  <2>. QED  BY <2>1, <2>2, Stutters, Completes DEF Threads, Results
<1>7. CASE \E r \in Requests : Write(r)
  <2>. PICK r \in Requests : Write(r)
    BY <1>7
  <2>1. r \in Asked /\ told' = told /\ Asked' = Asked
    BY DEF Write, Asked, TypeOK
  <2>2. Answered' = Answered
    BY DEF Write, Answered, AskedInv, TypeOK
  <2>3. UNCHANGED outcome \/ SetReady(r, r, "failure")
    BY DEF Write
  <2>. QED  BY <2>1, <2>2, <2>3, Stutters, Completes DEF Threads, Results
<1>8. CASE \E r \in Requests : SetListener(r)
  <2>. PICK r \in Requests : SetListener(r)
    BY <1>8
  <2>1. Asked' = Asked /\ Answered' = Answered
    BY DEF SetListener, Asked, Answered, TypeOK
  <2>2. CASE outcome[r] = "none"
    BY <2>1, <2>2, Stutters DEF SetListener
  <2>3. CASE outcome[r] # "none"
    <3>1. told[r] = 0 /\ told[r] + 1 = 1
      BY DEF SetListener, ToldInv
    <3>2. Promise!Tell(r)
      BY <2>1, <2>3, <3>1 DEF SetListener, Promise!Tell, Asked, Answered
    <3>. QED  BY <3>2 DEF Promise!PromiseNext
  <2>. QED  BY <2>2, <2>3
<1>9. CASE \E r \in Requests : Flush(r)
  BY <1>9, Stutters DEF Flush, Asked, Answered, TypeOK
<1>10. CASE \E r \in Requests : Reply(r)
  <2>. PICK r \in Requests : Reply(r)
    BY <1>10
  <2>1. r \in Asked \ Answered
    BY DEF Reply, AskedInv, Asked, Answered
  <2>2. Promise!Answer(r)
    BY <2>1 DEF Reply, Promise!Answer, Asked, Answered, TypeOK
  <2>. QED  BY <2>2 DEF Promise!PromiseNext
<1>11. CASE \E r \in Requests : MessageReceived(r)
  <2>. PICK r \in Requests : MessageReceived(r)
    BY <1>11
  <2>1. told' = told /\ Asked' = Asked /\ Answered' = Answered
    BY DEF MessageReceived, Asked, Answered
  <2>2. UNCHANGED outcome \/ (r \in requestMap /\ SetReady(r, "worker", "result"))
    BY DEF MessageReceived
  <2>3. r \in requestMap => r \in Asked
    BY DEF AskedInv
  <2>4. r \in Answered
    BY DEF MessageReceived, AskedInv
  <2>. QED  BY <2>1, <2>2, <2>3, <2>4, Stutters, Completes DEF Threads, Results
<1>12. CASE \E r \in Requests : WriteFails(r)
  <2>. PICK r \in Requests : WriteFails(r)
    BY <1>12
  <2>1. told' = told /\ Asked' = Asked /\ SetReady(r, "worker", "failure")
    BY DEF WriteFails, Asked
  <2>2. Answered' = Answered /\ r \in Asked
    BY DEF WriteFails, Asked, Answered, AskedInv, TypeOK
  <2>. QED  BY <2>1, <2>2, Completes DEF Threads, Results
<1>13. CASE \E r \in Requests : CloseVisit(r)
  <2>. PICK r \in Requests : CloseVisit(r)
    BY <1>13
  <2>1. told' = told /\ Asked' = Asked /\ Answered' = Answered
    BY DEF CloseVisit, Asked, Answered
  <2>2. r \in Asked /\ SetReady(r, "worker", "failure")
    BY DEF CloseVisit, AskedInv
  <2>. QED  BY <2>1, <2>2, Completes DEF Threads, Results
<1>14. CASE \E r \in Requests : FireTimeout(r)
  <2>. PICK r \in Requests : FireTimeout(r)
    BY <1>14
  <2>1. told' = told /\ Asked' = Asked /\ Answered' = Answered
    BY DEF FireTimeout, Asked, Answered
  <2>2. r \in Asked /\ SetReady(r, "timer", "timeout")
    BY DEF FireTimeout, AskedInv
  <2>. QED  BY <2>1, <2>2, Completes DEF Threads, Results
<1>15. CASE ChannelCloses \/ ChannelClosed \/ CloseBegin \/ CloseClear \/ StopTimer
            \/ UNCHANGED vars
  BY <1>15, <1>1 DEF ChannelCloses, ChannelClosed, CloseBegin, CloseClear, StopTimer, vars
<1>. QED
  BY <1>2, <1>3, <1>4, <1>5, <1>6, <1>7, <1>8, <1>9, <1>10, <1>11, <1>12, <1>13, <1>14, <1>15
  DEF Next, Progress, Environment

\* The manager and its futures keep the promise request() makes: whoever wins the race for
\* a future, it gets one outcome for ever, a result only if the peer answered, and its
\* listener hears of it once, after the outcome.
THEOREM Implements == Spec => KeepsPromise
<1>1. TypeOK /\ ToldInv /\ AskedInv /\ [Next]_vars => (TypeOK /\ ToldInv /\ AskedInv)'
  BY TypeStep, ToldStep, AskedStep
<1>. QED
  BY InitTyped, InitPromise, <1>1, PromiseStep, PTL DEF Spec, KeepsPromise, Promise!PromiseSpec


(***************************************************************************)
(* Listeners, the map and the end of the client's timer.                   *)
(***************************************************************************)

\* Every step keeps the listener heard of: setListener meets the future before its outcome or
\* after it, and the notifying thread finds the listener that was stored.
LEMMA HeardStep == TypeOK /\ ToldInv /\ HeardInv /\ [Next]_vars => HeardInv'
<1>. SUFFICES ASSUME TypeOK, ToldInv, HeardInv, [Next]_vars PROVE HeardInv'
  OBVIOUS
<1>. USE DEF TypeOK, ToldInv, HeardInv, Threads, futureVars, managerVars, timerVars,
             channelVars
<1>1. CASE UNCHANGED vars
  BY <1>1 DEF vars
<1>2. CASE \E r \in Requests : Release(r)
  BY <1>2 DEF Release
<1>3. CASE \E r \in Requests : NotifyListener(r)
  BY <1>3 DEF NotifyListener
<1>4. CASE \E r \in Requests : Request(r)
  BY <1>4 DEF Request
<1>5. CASE \E r \in Requests : Put(r)
  BY <1>5 DEF Put
<1>6. CASE \E r \in Requests : SetFailureEventHandler(r)
  BY <1>6 DEF SetFailureEventHandler
<1>7. CASE \E r \in Requests : NewTimeout(r)
  BY <1>7, RequestsAssumption DEF NewTimeout, SetReady
<1>8. CASE \E r \in Requests : SetTimeout(r)
  BY <1>8 DEF SetTimeout
<1>9. CASE \E r \in Requests : Write(r)
  BY <1>9, RequestsAssumption DEF Write, SetReady
<1>10. CASE \E r \in Requests : SetListener(r)
  BY <1>10 DEF SetListener
<1>11. CASE \E r \in Requests : Flush(r)
  BY <1>11 DEF Flush
<1>12. CASE \E r \in Requests : Reply(r)
  BY <1>12 DEF Reply
<1>13. CASE \E r \in Requests : MessageReceived(r)
  BY <1>13, RequestsAssumption DEF MessageReceived, SetReady
<1>14. CASE \E r \in Requests : WriteFails(r)
  BY <1>14, RequestsAssumption DEF WriteFails, SetReady
<1>15. CASE \E r \in Requests : CloseVisit(r)
  BY <1>15, RequestsAssumption DEF CloseVisit, SetReady
<1>16. CASE \E r \in Requests : FireTimeout(r)
  BY <1>16, RequestsAssumption DEF FireTimeout, SetReady
<1>17. CASE ChannelCloses
  BY <1>17 DEF ChannelCloses
<1>18. CASE ChannelClosed
  BY <1>18 DEF ChannelClosed
<1>19. CASE CloseBegin
  BY <1>19 DEF CloseBegin
<1>20. CASE CloseClear
  BY <1>20 DEF CloseClear
<1>21. CASE StopTimer
  BY <1>21 DEF StopTimer
<1>. QED
  BY <1>1, <1>2, <1>3, <1>4, <1>5, <1>6, <1>7, <1>8, <1>9, <1>10, <1>11, <1>12, <1>13,
     <1>14, <1>15, <1>16, <1>17, <1>18, <1>19, <1>20, <1>21
  DEF Next, Progress, Environment

\* Every step keeps what is known of a future inside register.
LEMMA RegisterStep ==
    TypeOK /\ ToldInv /\ AskedInv /\ RegisterInv /\ [Next]_vars => RegisterInv'
<1>. SUFFICES ASSUME TypeOK, ToldInv, AskedInv, RegisterInv, [Next]_vars PROVE RegisterInv'
  OBVIOUS
<1>. USE DEF TypeOK, ToldInv, AskedInv, RegisterInv, Asked, Answered, Unregistered, Scheduled,
             futureVars, managerVars, timerVars, channelVars
<1>1. CASE UNCHANGED vars
  BY <1>1 DEF vars
<1>2. CASE \E r \in Requests : Release(r)
  BY <1>2 DEF Release
<1>3. CASE \E r \in Requests : NotifyListener(r)
  BY <1>3 DEF NotifyListener
<1>4. CASE \E r \in Requests : Request(r)
  BY <1>4 DEF Request
<1>5. CASE \E r \in Requests : Put(r)
  BY <1>5 DEF Put
<1>6. CASE \E r \in Requests : SetFailureEventHandler(r)
  BY <1>6 DEF SetFailureEventHandler
<1>7. CASE \E r \in Requests : NewTimeout(r)
  BY <1>7, RequestsAssumption DEF NewTimeout, SetReady
<1>8. CASE \E r \in Requests : SetTimeout(r)
  BY <1>8 DEF SetTimeout
<1>9. CASE \E r \in Requests : Write(r)
  BY <1>9, RequestsAssumption DEF Write, SetReady
<1>10. CASE \E r \in Requests : SetListener(r)
  BY <1>10 DEF SetListener
<1>11. CASE \E r \in Requests : Flush(r)
  BY <1>11 DEF Flush
<1>12. CASE \E r \in Requests : Reply(r)
  BY <1>12 DEF Reply
<1>13. CASE \E r \in Requests : MessageReceived(r)
  BY <1>13, RequestsAssumption DEF MessageReceived, SetReady
<1>14. CASE \E r \in Requests : WriteFails(r)
  <2>. PICK r \in Requests : WriteFails(r)
    BY <1>14
  <2>1. pc[r] \in {"listen", "done"}
    BY DEF WriteFails
  <2>2. UNCHANGED <<pc, requestMap, must, tasks, released, handler>>
    BY DEF WriteFails
  <2>3. \A x \in Requests : outcome'[x] = outcome[x] \/ (x = r /\ outcome'[x] # "none")
    BY DEF WriteFails, SetReady
  <2>4. ASSUME NEW x \in Requests
        PROVE  /\ released'[x] => outcome'[x] # "none"
               /\ pc'[x] \in Unregistered => outcome'[x] = "none"
    BY <2>1, <2>2, <2>3, <2>4
  <2>. QED  BY <2>2, <2>4
<1>15. CASE \E r \in Requests : CloseVisit(r)
  BY <1>15, RequestsAssumption DEF CloseVisit, SetReady
<1>16. CASE \E r \in Requests : FireTimeout(r)
  BY <1>16, RequestsAssumption DEF FireTimeout, SetReady
<1>17. CASE ChannelCloses
  BY <1>17 DEF ChannelCloses
<1>18. CASE ChannelClosed
  BY <1>18 DEF ChannelClosed
<1>19. CASE CloseBegin
  BY <1>19 DEF CloseBegin
<1>20. CASE CloseClear
  BY <1>20 DEF CloseClear
<1>21. CASE StopTimer
  BY <1>21 DEF StopTimer
<1>. QED
  BY <1>1, <1>2, <1>3, <1>4, <1>5, <1>6, <1>7, <1>8, <1>9, <1>10, <1>11, <1>12, <1>13,
     <1>14, <1>15, <1>16, <1>17, <1>18, <1>19, <1>20, <1>21
  DEF Next, Progress, Environment

\* Every step keeps the ready futures on their way out of the map.
LEMMA MapStep ==
    TypeOK /\ ToldInv /\ AskedInv /\ RegisterInv /\ MapInv /\ [Next]_vars => MapInv'
<1>. SUFFICES ASSUME TypeOK, ToldInv, AskedInv, RegisterInv, MapInv, [Next]_vars PROVE MapInv'
  OBVIOUS
<1>. USE DEF TypeOK, ToldInv, AskedInv, Asked, RegisterInv, MapInv, Unregistered, Scheduled,
             Threads, Free, futureVars, managerVars, timerVars, channelVars
<1>1. CASE UNCHANGED vars
  BY <1>1 DEF vars
<1>2. CASE \E r \in Requests : Release(r)
  BY <1>2 DEF Release
<1>3. CASE \E r \in Requests : NotifyListener(r)
  BY <1>3 DEF NotifyListener
<1>4. CASE \E r \in Requests : Request(r)
  BY <1>4 DEF Request
<1>5. CASE \E r \in Requests : Put(r)
  BY <1>5 DEF Put
<1>6. CASE \E r \in Requests : SetFailureEventHandler(r)
  BY <1>6 DEF SetFailureEventHandler
<1>7. CASE \E r \in Requests : NewTimeout(r)
  BY <1>7, RequestsAssumption DEF NewTimeout, SetReady
<1>8. CASE \E r \in Requests : SetTimeout(r)
  BY <1>8 DEF SetTimeout
<1>9. CASE \E r \in Requests : Write(r)
  BY <1>9, RequestsAssumption DEF Write, SetReady
<1>10. CASE \E r \in Requests : SetListener(r)
  BY <1>10 DEF SetListener
<1>11. CASE \E r \in Requests : Flush(r)
  BY <1>11 DEF Flush
<1>12. CASE \E r \in Requests : Reply(r)
  BY <1>12 DEF Reply
<1>13. CASE \E r \in Requests : MessageReceived(r)
  BY <1>13, RequestsAssumption DEF MessageReceived, SetReady
<1>14. CASE \E r \in Requests : WriteFails(r)
  BY <1>14, RequestsAssumption DEF WriteFails, SetReady
<1>15. CASE \E r \in Requests : CloseVisit(r)
  BY <1>15, RequestsAssumption DEF CloseVisit, SetReady
<1>16. CASE \E r \in Requests : FireTimeout(r)
  BY <1>16, RequestsAssumption DEF FireTimeout, SetReady
<1>17. CASE ChannelCloses
  BY <1>17 DEF ChannelCloses
<1>18. CASE ChannelClosed
  BY <1>18 DEF ChannelClosed
<1>19. CASE CloseBegin
  BY <1>19 DEF CloseBegin
<1>20. CASE CloseClear
  BY <1>20 DEF CloseClear
<1>21. CASE StopTimer
  BY <1>21 DEF StopTimer
<1>. QED
  BY <1>1, <1>2, <1>3, <1>4, <1>5, <1>6, <1>7, <1>8, <1>9, <1>10, <1>11, <1>12, <1>13,
     <1>14, <1>15, <1>16, <1>17, <1>18, <1>19, <1>20, <1>21
  DEF Next, Progress, Environment

\* Every step keeps the writes and the channel together.
LEMMA ChannelStep == TypeOK /\ ChannelInv /\ [Next]_vars => ChannelInv'
<1>. SUFFICES ASSUME TypeOK, ChannelInv, [Next]_vars PROVE ChannelInv'
  OBVIOUS
<1>. USE DEF TypeOK, ChannelInv, futureVars, managerVars, timerVars, channelVars
<1>1. CASE UNCHANGED vars
  BY <1>1 DEF vars
<1>2. CASE \E r \in Requests : Release(r)
  BY <1>2 DEF Release
<1>3. CASE \E r \in Requests : NotifyListener(r)
  BY <1>3 DEF NotifyListener
<1>4. CASE \E r \in Requests : Request(r)
  BY <1>4 DEF Request
<1>5. CASE \E r \in Requests : Put(r)
  BY <1>5 DEF Put
<1>6. CASE \E r \in Requests : SetFailureEventHandler(r)
  BY <1>6 DEF SetFailureEventHandler
<1>7. CASE \E r \in Requests : NewTimeout(r)
  BY <1>7, RequestsAssumption DEF NewTimeout, SetReady
<1>8. CASE \E r \in Requests : SetTimeout(r)
  BY <1>8 DEF SetTimeout
<1>9. CASE \E r \in Requests : Write(r)
  BY <1>9, RequestsAssumption DEF Write, SetReady
<1>10. CASE \E r \in Requests : SetListener(r)
  BY <1>10 DEF SetListener
<1>11. CASE \E r \in Requests : Flush(r)
  BY <1>11 DEF Flush
<1>12. CASE \E r \in Requests : Reply(r)
  BY <1>12 DEF Reply
<1>13. CASE \E r \in Requests : MessageReceived(r)
  BY <1>13, RequestsAssumption DEF MessageReceived, SetReady
<1>14. CASE \E r \in Requests : WriteFails(r)
  BY <1>14, RequestsAssumption DEF WriteFails, SetReady
<1>15. CASE \E r \in Requests : CloseVisit(r)
  BY <1>15, RequestsAssumption DEF CloseVisit, SetReady
<1>16. CASE \E r \in Requests : FireTimeout(r)
  BY <1>16, RequestsAssumption DEF FireTimeout, SetReady
<1>17. CASE ChannelCloses
  BY <1>17 DEF ChannelCloses
<1>18. CASE ChannelClosed
  BY <1>18 DEF ChannelClosed
<1>19. CASE CloseBegin
  BY <1>19 DEF CloseBegin
<1>20. CASE CloseClear
  BY <1>20 DEF CloseClear
<1>21. CASE StopTimer
  BY <1>21 DEF StopTimer
<1>. QED
  BY <1>1, <1>2, <1>3, <1>4, <1>5, <1>6, <1>7, <1>8, <1>9, <1>10, <1>11, <1>12, <1>13,
     <1>14, <1>15, <1>16, <1>17, <1>18, <1>19, <1>20, <1>21
  DEF Next, Progress, Environment

\* Every step keeps the pending requests of a client within reach of close() or of a write
\* that fails.
LEMMA PendingStep ==
    TypeOK /\ ToldInv /\ ChannelInv /\ RegisterInv /\ PendingInv /\ [Next]_vars => PendingInv'
<1>. SUFFICES ASSUME TypeOK, ToldInv, ChannelInv, RegisterInv, PendingInv, [Next]_vars
              PROVE  PendingInv'
  OBVIOUS
<1>. USE DEF TypeOK, ToldInv, ChannelInv, RegisterInv, PendingInv, Unregistered, Scheduled,
             futureVars, managerVars, timerVars, channelVars
<1>1. CASE UNCHANGED vars
  BY <1>1 DEF vars
<1>2. CASE \E r \in Requests : Release(r)
  BY <1>2 DEF Release
<1>3. CASE \E r \in Requests : NotifyListener(r)
  BY <1>3 DEF NotifyListener
<1>4. CASE \E r \in Requests : Request(r)
  BY <1>4 DEF Request
<1>5. CASE \E r \in Requests : Put(r)
  BY <1>5 DEF Put
<1>6. CASE \E r \in Requests : SetFailureEventHandler(r)
  BY <1>6 DEF SetFailureEventHandler
<1>7. CASE \E r \in Requests : NewTimeout(r)
  BY <1>7, RequestsAssumption DEF NewTimeout, SetReady
<1>8. CASE \E r \in Requests : SetTimeout(r)
  BY <1>8 DEF SetTimeout
<1>9. CASE \E r \in Requests : Write(r)
  BY <1>9, RequestsAssumption DEF Write, SetReady
<1>10. CASE \E r \in Requests : SetListener(r)
  BY <1>10 DEF SetListener
<1>11. CASE \E r \in Requests : Flush(r)
  BY <1>11 DEF Flush
<1>12. CASE \E r \in Requests : Reply(r)
  BY <1>12 DEF Reply
<1>13. CASE \E r \in Requests : MessageReceived(r)
  BY <1>13, RequestsAssumption DEF MessageReceived, SetReady
<1>14. CASE \E r \in Requests : WriteFails(r)
  BY <1>14, RequestsAssumption DEF WriteFails, SetReady
<1>15. CASE \E r \in Requests : CloseVisit(r)
  BY <1>15, RequestsAssumption DEF CloseVisit, SetReady
<1>16. CASE \E r \in Requests : FireTimeout(r)
  BY <1>16, RequestsAssumption DEF FireTimeout, SetReady
<1>17. CASE ChannelCloses
  BY <1>17 DEF ChannelCloses
<1>18. CASE ChannelClosed
  BY <1>18 DEF ChannelClosed
<1>19. CASE CloseBegin
  BY <1>19 DEF CloseBegin
<1>20. CASE CloseClear
  BY <1>20 DEF CloseClear
<1>21. CASE StopTimer
  BY <1>21 DEF StopTimer
<1>. QED
  BY <1>1, <1>2, <1>3, <1>4, <1>5, <1>6, <1>7, <1>8, <1>9, <1>10, <1>11, <1>12, <1>13,
     <1>14, <1>15, <1>16, <1>17, <1>18, <1>19, <1>20, <1>21
  DEF Next, Progress, Environment

\* The initial states: nothing is registered, and the channel is open.
LEMMA InitHeld == Init => HeardInv /\ RegisterInv /\ MapInv /\ ChannelInv /\ PendingInv
BY DEF Init, HeardInv, RegisterInv, MapInv, ChannelInv, PendingInv, Unregistered, Scheduled

\* A listener is called exactly once: when the caller is through and nobody still notifies, it
\* was called if and only if the future is ready, wherever setListener and the thread that
\* completes the future met.
THEOREM HeardOnce == Spec => []ListenerOnce
<1>1. TypeOK /\ ToldInv /\ HeardInv /\ [Next]_vars => (TypeOK /\ ToldInv /\ HeardInv)'
  BY TypeStep, ToldStep, HeardStep
<1>2. TypeOK /\ ToldInv /\ HeardInv => ListenerOnce
  BY DEF TypeOK, ToldInv, HeardInv, ListenerOnce
<1>. QED  BY InitTyped, InitHeld, <1>1, <1>2, PTL DEF Spec

\* The map of requests holds pending requests only: whoever completes a future, and wherever
\* its caller is then, it leaves the map before its last thread is through with it.
THEOREM MapDoesNotLeak == Spec => []NothingLeaks
<1>. DEFINE IInv == TypeOK /\ ToldInv /\ AskedInv /\ RegisterInv /\ MapInv
<1>1. IInv /\ [Next]_vars => IInv'
  BY TypeStep, ToldStep, AskedStep, RegisterStep, MapStep
<1>2. IInv => NothingLeaks
  BY DEF MapInv, NothingLeaks
<1>3. Init => IInv
  BY InitTyped, InitPromise, InitHeld
<1>. QED  BY <1>1, <1>2, <1>3, PTL DEF Spec

\* A client's timer that stopped has left no request behind, though requests are put in the
\* map while close() iterates over it and after close() cleared it.
THEOREM StopIsSafe == Spec => []StopLeavesNoRequest
<1>. DEFINE IInv == TypeOK /\ ToldInv /\ AskedInv /\ RegisterInv /\ ChannelInv /\ PendingInv
<1>1. IInv /\ [Next]_vars => IInv'
  BY TypeStep, ToldStep, AskedStep, RegisterStep, ChannelStep, PendingStep
<1>2. IInv => StopLeavesNoRequest
  BY DEF ChannelInv, PendingInv, StopLeavesNoRequest, NobodyForgotten, Unregistered
<1>3. Init => IInv
  BY InitTyped, InitPromise, InitHeld
<1>. QED  BY <1>1, <1>2, <1>3, PTL DEF Spec

=============================================================================
