------------------------ MODULE StreamChannelManager ------------------------
(***************************************************************************)
(* The streams of one connection: rpc/stream.  The "opener" end calls      *)
(* openStream (the collector towards an agent, the web towards a           *)
(* collector: both are a DefaultPinpointServer), the "acceptor" end is the *)
(* client handler's manager.  A stream's state is changed by compare-and-  *)
(* set from several threads: reading the state and setting it are two      *)
(* steps.  The threads: the caller of openStream and close, the opener's   *)
(* network thread ("io") and the thread that stops its socket ("stop");    *)
(* the acceptor's network thread ("sio") and the application that was      *)
(* given the stream ("app").                                               *)
(*                                                                         *)
(* The ping of a stream has no caller outside the tests and is left out.   *)
(* The identifiers of one end never repeat, so ID_DUPLICATED cannot occur. *)
(***************************************************************************)
EXTENDS Naturals, Sequences, FiniteSets

CONSTANTS Streams,   \* the identifiers the generator hands out, in order
          MaxData    \* bound: no data is sent while so many packets are on the wires

ASSUME StreamsAssumption == Streams \subseteq Nat \ {0}
ASSUME MaxDataAssumption == MaxData \in Nat

VARIABLES state,      \* state[e][id]: the state of end e's StreamChannel
          known,      \* known[e]: the keys of end e's channelMap
          wire,       \* wire[e]: the packets on their way to end e
          connected,  \* the connection is up
          thread,     \* each thread's next step and the change it is about
          todo, swept \* the keys StreamChannelManager.close has yet to visit

streamVars == <<state, known, wire, connected, thread, todo, swept>>

Ends    == {"opener", "acceptor"}
Threads == {"caller", "io", "stop", "sio", "app"}
End(t)  == IF t \in {"sio", "app"} THEN "acceptor" ELSE "opener"
Peer(e) == IF e = "opener" THEN "acceptor" ELSE "opener"

StateCodes == {"NEW", "OPEN", "CONNECT_AWAIT", "CONNECT_ARRIVED", "CONNECTED",
               "CLOSED", "ILLEGAL_STATE"}
Ended      == {"CLOSED", "ILLEGAL_STATE"}

\* The states a state may be entered from.
ValidBefore(next) ==
    CASE next = "OPEN"            -> {"NEW"}
      [] next = "CONNECT_AWAIT"   -> {"OPEN"}
      [] next = "CONNECT_ARRIVED" -> {"OPEN"}
      [] next = "CONNECTED"       -> {"CONNECT_AWAIT", "CONNECT_ARRIVED"}
      [] next = "CLOSED"          -> {"CONNECT_AWAIT", "CONNECT_ARRIVED", "CONNECTED"}
      [] next = "ILLEGAL_STATE"   -> StateCodes \ {"ILLEGAL_STATE"}
      [] OTHER                    -> {}

CanChange(current, next) == current \in ValidBefore(next)

PacketTypes == {"CREATE", "SUCCESS", "FAIL", "RESPONSE", "CLOSE"}
Packets     == [type : PacketTypes, id : Streams]

Steps == {"idle", "change", "notify", "addReactive", "sendClose", "await", "create",
          "waiting", "forget", "opened", "activate", "failed", "thrown",
          "listener", "success", "sendFail"}

Idle == [at |-> "idle", id |-> 0, next |-> "NEW", seen |-> "NEW", then |-> "idle"]
ThreadStates ==
    [at : Steps, id : Streams \cup {0}, next : StateCodes, seen : StateCodes, then : Steps]

StreamTypeOK ==
    /\ state \in [Ends -> [Streams -> StateCodes]]
    /\ known \in [Ends -> SUBSET Streams]
    /\ wire \in [Ends -> Seq(Packets)]
    /\ connected \in BOOLEAN
    /\ thread \in [Threads -> ThreadStates]
    /\ todo \in [Ends -> SUBSET Streams]
    /\ swept \in [Ends -> BOOLEAN]

StreamInit ==
    /\ state = [e \in Ends |-> [id \in Streams |-> "NEW"]]
    /\ known = [e \in Ends |-> {}]
    /\ wire = [e \in Ends |-> <<>>]
    /\ connected = TRUE
    /\ thread = [t \in Threads |-> Idle]
    /\ todo = [e \in Ends |-> {}]
    /\ swept = [e \in Ends |-> FALSE]

-----------------------------------------------------------------------------
(* What the threads' steps are made of.                                    *)

At(t) == thread[t].at
On(t) == thread[t].id
StepOn(step, id) == IF step = "idle" THEN Idle ELSE [Idle EXCEPT !.at = step, !.id = id]

\* The thread goes on to a step about a stream; an idle thread remembers none.
Goto(t, step, id) == thread' = [thread EXCEPT ![t] = StepOn(step, id)]

\* A packet written to a connection that has ended is lost.
Write(e, type, id) ==
    wire' = IF connected
            THEN [wire EXCEPT ![Peer(e)] = Append(@, [type |-> type, id |-> id])]
            ELSE wire

\* The start of changeStateTo: the current state is read.
BeginChange(t, id, next, then) ==
    thread' = [thread EXCEPT ![t] = [at |-> "change", id |-> id, next |-> next,
                                     seen |-> state[End(t)][id], then |-> then]]

\* changeStateClose does nothing to a stream that is closed already.
BeginClose(t, id, then) ==
    IF state[End(t)][id] = "CLOSED" THEN Goto(t, then, id)
                                    ELSE BeginChange(t, id, "CLOSED", then)

\* The thread that takes the context out of the map closes the stream.
ClearResource(t, id, then) ==
    /\ known' = [known EXCEPT ![End(t)] = @ \ {id}]
    /\ IF id \in known[End(t)] THEN BeginClose(t, id, then) ELSE Goto(t, then, id)

\* Mutant: the state is set without the comparison.
SwapsAlways(seen, next, current) == CanChange(seen, next)
Swaps(seen, next, current) == CanChange(seen, next) /\ current = seen

\* The compare-and-set: a refused change turns the stream into ILLEGAL_STATE.
\* Only the opener's streams have a listener that acts on their end.
CompareAndSet(t) ==
    LET e == End(t)  c == thread[t]  current == state[e][c.id]
        changed == Swaps(c.seen, c.next, current) IN
    /\ At(t) = "change"
    /\ \/ /\ changed
          /\ state' = [state EXCEPT ![e][c.id] = c.next]
          /\ IF e = "opener" /\ c.next \in Ended
             THEN thread' = [thread EXCEPT ![t] = [StepOn("notify", c.id) EXCEPT !.then = c.then]]
             ELSE Goto(t, c.then, c.id)
       \/ /\ ~changed /\ current # "ILLEGAL_STATE"
          /\ thread' = [thread EXCEPT ![t].next = "ILLEGAL_STATE", ![t].seen = current]
          /\ UNCHANGED state
       \/ /\ ~changed /\ current = "ILLEGAL_STATE"
          /\ Goto(t, c.then, c.id)
          /\ UNCHANGED state
    /\ UNCHANGED <<known, wire, connected, todo, swept>>

SendClose(t) ==
    /\ At(t) = "sendClose"
    /\ Write(End(t), "CLOSE", On(t))
    /\ Goto(t, "idle", On(t))
    /\ UNCHANGED <<state, known, connected, todo, swept>>

-----------------------------------------------------------------------------
(* openStream, in the caller's thread.                                     *)

NextId(id) == /\ state["opener"][id] = "NEW"
              /\ \A other \in Streams : other < id => state["opener"][other] # "NEW"

OpenStart(id) ==
    /\ NextId(id)
    /\ state' = [state EXCEPT !["opener"][id] = "OPEN"]
    /\ known' = [known EXCEPT !["opener"] = @ \cup {id}]
    /\ Goto("caller", "await", id)
    /\ UNCHANGED <<wire, connected, todo, swept>>

OpenAwait ==
    /\ At("caller") = "await"
    /\ BeginChange("caller", On("caller"), "CONNECT_AWAIT", "create")
    /\ UNCHANGED <<state, known, wire, connected, todo, swept>>

\* sendCreate asserts the state: the exception leaves openStream.
OpenCreate ==
    LET id == On("caller") IN
    /\ At("caller") = "create"
    /\ IF state["opener"][id] = "CONNECT_AWAIT"
       THEN Write("opener", "CREATE", id) /\ Goto("caller", "waiting", id)
       ELSE Goto("caller", "thrown", id) /\ UNCHANGED wire
    /\ UNCHANGED <<state, known, connected, todo, swept>>

\* awaitOpen ends when the latch is counted down or after three seconds: at any time.
OpenCheck ==
    LET id == On("caller") IN
    /\ At("caller") = "waiting"
    /\ IF state["opener"][id] = "CONNECTED"
       THEN Goto("caller", "opened", id)
       ELSE BeginClose("caller", id, "forget")
    /\ UNCHANGED <<state, known, wire, connected, todo, swept>>

\* Mutant: the context of a stream that could not be opened stays in the map.
OpenForgetKept ==
    /\ At("caller") = "forget"
    /\ Goto("caller", "failed", On("caller"))
    /\ UNCHANGED <<state, known, wire, connected, todo, swept>>
OpenForget ==
    LET id == On("caller") IN
    /\ At("caller") = "forget"
    /\ known' = [known EXCEPT !["opener"] = @ \ {id}]
    /\ Goto("caller", "failed", id)
    /\ UNCHANGED <<state, wire, connected, todo, swept>>

-----------------------------------------------------------------------------
(* messageReceived, in the opener's network thread.                        *)

Arriving(e) == IF wire[e] = <<>> THEN {} ELSE {Head(wire[e])}

Receive(e, t, m) ==
    /\ At(t) = "idle"
    /\ m = Head(wire[e])
    /\ wire' = [wire EXCEPT ![e] = Tail(@)]
    /\ UNCHANGED <<connected, todo, swept>>

\* A packet other than CLOSE of a stream that is not in the map is answered by CLOSE.
ReceiveUnknown(m) ==
    /\ Receive("opener", "io", m)
    /\ m.id \notin known["opener"]
    /\ Goto("io", IF m.type = "CLOSE" THEN "idle" ELSE "sendClose", m.id)
    /\ UNCHANGED <<state, known>>

HandleCreateSuccess(m) ==
    /\ Receive("opener", "io", m)
    /\ m.type = "SUCCESS" /\ m.id \in known["opener"]
    /\ BeginChange("io", m.id, "CONNECTED", "idle")
    /\ UNCHANGED <<state, known>>

HandleCreateFail(m) ==
    /\ Receive("opener", "io", m)
    /\ m.type = "FAIL" /\ m.id \in known["opener"]
    /\ ClearResource("io", m.id, "idle")
    /\ UNCHANGED state

\* Data of a connected stream goes to the listener, data that comes before the
\* create-success is dropped, any other is answered by CLOSE.
HandleStreamResponse(m) ==
    LET current == state["opener"][m.id] IN
    /\ Receive("opener", "io", m)
    /\ m.type = "RESPONSE" /\ m.id \in known["opener"]
    /\ IF current \in {"CONNECTED", "CONNECT_AWAIT"}
       THEN UNCHANGED <<known, thread>>
       ELSE ClearResource("io", m.id, "sendClose")
    /\ UNCHANGED state

\* The end that receives CLOSE clears its context and answers nothing.
HandleStreamClose(e, t, m) ==
    /\ Receive(e, t, m)
    /\ m.type = "CLOSE" /\ m.id \in known[e]
    /\ ClearResource(t, m.id, "idle")
    /\ UNCHANGED state

-----------------------------------------------------------------------------
(* The acceptor's network thread and application.                          *)

\* registerStreamChannel: nobody else knows the stream before it has ARRIVED.
HandleCreate(m) ==
    /\ Receive("acceptor", "sio", m)
    /\ m.type = "CREATE"
    /\ state' = [state EXCEPT !["acceptor"][m.id] = "CONNECT_ARRIVED"]
    /\ known' = [known EXCEPT !["acceptor"] = @ \cup {m.id}]
    /\ Goto("sio", "listener", m.id)

\* The listener accepts the stream or names a code, which is sent in the create-fail.
HandleStreamCreate(ok) ==
    LET id == On("sio") IN
    /\ At("sio") = "listener"
    /\ IF ok
       THEN BeginChange("sio", id, "CONNECTED", "success") /\ UNCHANGED known
       ELSE ClearResource("sio", id, "sendFail")
    /\ UNCHANGED <<state, wire, connected, todo, swept>>

\* sendCreateSuccess asserts the state: an exception ends the handler.
SendCreateSuccess ==
    LET id == On("sio") IN
    /\ At("sio") = "success"
    /\ IF state["acceptor"][id] = "CONNECTED" THEN Write("acceptor", "SUCCESS", id)
                                              ELSE UNCHANGED wire
    /\ Goto("sio", "idle", id)
    /\ UNCHANGED <<state, known, connected, todo, swept>>

SendCreateFail ==
    /\ At("sio") = "sendFail"
    /\ Write("acceptor", "FAIL", On("sio"))
    /\ Goto("sio", "idle", On("sio"))
    /\ UNCHANGED <<state, known, connected, todo, swept>>

\* A CLOSE for a stream that is not in the acceptor's map is ignored.
IgnoreClose(m) ==
    /\ Receive("acceptor", "sio", m)
    /\ m.type = "CLOSE" /\ m.id \notin known["acceptor"]
    /\ UNCHANGED <<state, known, thread>>

\* sendData asserts the state.
SendData(id) ==
    /\ At("app") = "idle"
    /\ state["acceptor"][id] = "CONNECTED"
    /\ Len(wire["opener"]) + Len(wire["acceptor"]) < MaxData
    /\ Write("acceptor", "RESPONSE", id)
    /\ UNCHANGED <<state, known, connected, thread, todo, swept>>

\* Mutant: the peer is not told.
CloseStreamSilently(t, id) ==
    /\ ClearResource(t, id, "idle")
    /\ UNCHANGED <<state, wire, connected, todo, swept>>
\* close() of a stream, by whoever holds it.
CloseStream(t, id) ==
    /\ ClearResource(t, id, "sendClose")
    /\ UNCHANGED <<state, wire, connected, todo, swept>>

\* The application has a stream as soon as the listener has accepted it.
AppClose(id) ==
    /\ id \in known["acceptor"] /\ At("app") = "idle"
    /\ ~(At("sio") = "listener" /\ On("sio") = id)
    /\ CloseStream("app", id)

-----------------------------------------------------------------------------
(* The connection ends: what is on the wire is lost, and each end's        *)
(* manager closes the streams of its map.                                  *)

Disconnect ==
    /\ connected
    /\ connected' = FALSE
    /\ wire' = [e \in Ends |-> <<>>]
    /\ UNCHANGED <<state, known, thread, todo, swept>>

CloseAll(t) ==
    LET e == End(t) IN
    /\ ~connected /\ ~swept[e] /\ At(t) = "idle"
    /\ swept' = [swept EXCEPT ![e] = TRUE]
    /\ todo' = [todo EXCEPT ![e] = known[e]]
    /\ UNCHANGED <<state, known, wire, connected, thread>>

CloseAllNext(t, id) ==
    LET e == End(t) IN
    /\ id \in todo[e] /\ At(t) = "idle"
    /\ todo' = [todo EXCEPT ![e] = @ \ {id}]
    /\ ClearResource(t, id, "sendClose")
    /\ UNCHANGED <<state, wire, connected, swept>>

-----------------------------------------------------------------------------
OpenerStep ==
    \/ OpenAwait \/ OpenCreate \/ OpenCheck \/ OpenForget
    \/ \E m \in Arriving("opener") : \/ ReceiveUnknown(m) \/ HandleCreateSuccess(m)
                                    \/ HandleCreateFail(m) \/ HandleStreamResponse(m)
                                    \/ HandleStreamClose("opener", "io", m)
    \/ CloseAll("stop")
    \/ \E id \in Streams : CloseAllNext("stop", id)

AcceptorStep ==
    \/ \E m \in Arriving("acceptor") : \/ HandleCreate(m) \/ IgnoreClose(m)
                                      \/ HandleStreamClose("acceptor", "sio", m)
    \/ \E ok \in BOOLEAN : HandleStreamCreate(ok)
    \/ SendCreateSuccess \/ SendCreateFail
    \/ CloseAll("sio")
    \/ \E id \in Streams : CloseAllNext("sio", id)

ThreadStep(t) == CompareAndSet(t) \/ SendClose(t)
=============================================================================
