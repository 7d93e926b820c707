# Pinpoint: specifications, model checks and proofs

Pinpoint is an application performance monitor. An **agent** (bootstrap, profiler, plugins)
lives in the monitored JVM and keeps long-lived TCP connections to a **collector**; the
collector writes what it receives to HBase and publishes in ZooKeeper which agents are
connected to it; the **web** module reads HBase, reaches the agents through the collectors,
and serves the browser. What is concurrent and long-lived about the system is in the `rpc`
module, in the collector's cluster registration, in the profiler's senders, and in the
realtime view of active threads, which runs from the agent to the browser. That is what this
project models.

File names are relative to their module's source root; `rpc/...` is
`src/rpc/src/main/java/com/navercorp/pinpoint/rpc/`.

## 1. Inventory

| Component | State it keeps | Operations | Talks to | What is hard |
|---|---|---|---|---|
| Socket states (`rpc/common/SocketStateCode`, `SocketState`) | one code per end | `to...()`: a change is made if the table allows it, else refused | used by both ends | refusals that nobody looks at |
| Client handler (`rpc/client/DefaultPinpointClientHandler`, `PinpointClientHandshaker`, `ConnectFuture`) | state code, handshake state, timer, connect future | Netty events, handshake and its retry, ping, `close` | channel, factory, request manager, streams | four threads: worker, timer, opener, closer; state read, then used |
| Server socket and acceptor (`rpc/server/DefaultPinpointServer`, `PinpointServerAcceptor`, `rpc/common/CyclicStateChecker`) | state code, properties, ring of ping verdicts, channel group, `released` | accept, `start`, handshake, ping check, close packets, `stop`, acceptor `close` | channel, collector's listener | worker against the thread that closes the acceptor |
| Reconnect (`rpc/client/PinpointClient`, `PinpointClientFactory.ConnectEvent`) | the current handler, `closed`, timer tasks | `connect`, `scheduledConnect`, `reconnect`, `close` | handlers, Netty's connect futures | a listener that runs in the timer or in the worker; check-then-act on `closed` |
| Requests (`rpc/client/RequestManager`, `DefaultFuture`, `ChannelWriteFailListenableFuture`) | map of futures, timeouts | `register`, response, failed write, timeout, `close`, `setListener` | channel, timer | five threads may complete one future; `close` without a lock |
| Streams (`rpc/stream/*`) | map of stream channels with a state each, at both ends | open, create success/fail, data, close, `close` of the manager | channel, the opener's listener | a time limit against a late answer; state by compare-and-set from five threads |
| Codec and packets (`rpc/codec`, `packet`, `control`) | none | encode, decode | | an encoding |
| Cluster registration (`collector/cluster/zookeeper`) | latest job per socket, known sockets, leaked jobs, a ZooKeeper node's contents, cluster points | state events, update, delete, retry, leak detection, the watcher's pass | server sockets' state changes, ZooKeeper | old and new socket of one agent; a timeout that may have been done; lost sessions |
| Cluster connection and route (`collector/cluster`, `.../route`) | sockets to web servers | connect, route a command, relay a stream | registration, streams | rests on the parts above |
| Collector receivers, DAO, life cycle | HBase rows | decode, write | server sockets | events of one agent out of order |
| Profiler senders (`profiler/sender`) | bounded queue and its thread, retry queue and its task | send, request, retry, stop | `PinpointClient` | stop against late items; failures heard in four threads |
| `AgentInfoSender` | scheduled wrappers | submit, daily refresh | `TcpDataSender` | repeats of different moments overtake each other |
| Profiler context, storage, sampler, metadata | per-thread traces, caches | begin/end trace | senders | mostly sequential |
| Active threads, workers (`web/websocket/ActiveThreadCountWorker`, `WorkerActiveManager`) | `started`, `active`, `stopped`, the stream, waiting agents, timer tasks | `start`, `reactive`, `stop`, stream events, timer task | streams | listeners without the worker's lock |
| Active threads, handler (`web/websocket/ActiveThreadCountHandler`, `...ResponseAggregator`) | sessions, aggregators, members, two timers | connect, request, pong, close, flush, health check | browsers, workers | timers that go on by a flag; sessions that move between aggregators |
| Realtime chart (`web/.../realtime-chart.controller.js`, `realtime-websocket.service.js`) | reference to one web socket, timeout checker, what is shown | choose a node, hide, show, retry, close, socket callbacks | handler | callbacks of an old socket work on the new one |
| Web queries, pages, commons, plugins, thrift, packaging | | | | libraries, queries, UI, generated code |

What makes each component right: both ends of a connection agree on the session; whoever
closes, both ends go down and say who did it; a lost server leads to exactly one reconnect;
a request gets exactly one outcome and leaves nothing behind; a stream that has ended stays
ended and its opener opens another one, once; the collector's node lists the agents that are
connected; what a sender has queued is sent, what waits is asked again by one task; the
chart shows what the server sends and says so when nobody sends. `PROJECT.json` lists the
components with their status and, under "hazards", where each of these could go wrong.

## 2. Modules

| Module | Models | Built on |
|---|---|---|
| `SocketStateCode` | the state table and the guarded assignment | |
| `RpcChannel` | a TCP connection as Netty shows it (external) | Sequences |
| `PinpointClientHandler` | the agent's end | both above |
| `PinpointServer` | the collector's end and its acceptor | both above |
| `PinpointConnection` | the two ends and the channel composed; properties, fairness | the two ends |
| `PinpointConnection_types`, `PinpointConnection_proofs` | theorems about the connection | `PinpointConnection` |
| `RequestPromise` | abstract: what `request()` promises its caller | |
| `RequestManager`, `RequestManager_proofs` | the manager, its futures and the threads that meet there; refines `RequestPromise` | `RequestPromise` |
| `PinpointClientReconnect`, `PinpointClientReconnect_proofs` | a client, the sequence of its channels, `ConnectEvent` | `SocketStateCode` |
| `StreamChannelManager` | the streams of one connection, both ends | Sequences |
| `ActiveThreadCountWorker`, `ActiveThreadCountWorker_proofs` | the web's worker and its reactivation timer over those streams | `StreamChannelManager` |
| `ZookeeperLatestJobWorker`, `ZookeeperLatestJobWorker_proofs` | which agents a collector publishes | |
| `ActiveThreadCountHandler` | the web server's handler of the browsers' sessions | Sequences |
| `RealtimeChart`, `RealtimeChart_proofs` | the browser's chart composed with the handler | `ActiveThreadCountHandler` |
| `AsyncQueueingExecutor` | the queue in front of every sender | Sequences |
| `TcpDataSender`, `TcpDataSender_proofs` | requests to the collector and their retries | `AsyncQueueingExecutor` |
| `MC*` | the instances TLC checks, where the module itself does not serve | |

### How the connection corresponds to the code

* `cState` and `sState` are the two `SocketState`s; every change goes through `To`, so a
  change that the table refuses is a no-op, as in the code.
* A thread has a program counter where another thread may come between its read of the state
  and the step that uses what it read: `close()` (`uPc`: `CloseRead`, `CloseToBeingClose`,
  `SendClosedPacket`, `CloseChannel`, or `CloseToClosed`, `HandshakeAbort`, `StopTimer`),
  `channelClosed` (`ChannelClosed` reads, `FinishChannelClosed` acts), `HandshakeJob.run`
  and `writePing` (`tPc`), the server's `stop` (`StopRead`, `StopApply`) and the acceptor's
  `close` (`aPc`). What only the thread itself can observe is one step.
* The Netty worker handles one event of a channel at a time (`cIo`, `sIo`), in the order
  connected, messages, closed. The server's `channelDisconnected` and `channelClosed` are
  one event here.
* The answer of the collector's `ServerMessageListener` to a handshake is a constant set; the
  listener may answer anything in it, but the same answer each time to the same client.
* `HandshakeBound` and `PingBound` bound what the client sends. In the code the limit on
  handshakes is `Integer.MAX_VALUE`, so the abort at the limit never happens and is left out.
* History variables: `recent` (the verdicts of the last pings), `reconnects` (calls of
  `clientFactory.reconnect` that got through), `closeCalled`.
* Left out: the addresses an acceptor ignores, pongs (the client ignores them), the pings
  of the acceptor's health check, and requests and streams (requests have their own module).

### How the requests correspond to the code

One caller per request; its `pc` walks through `request()` and `register` (`Put`,
`SetFailureEventHandler`, `NewTimeout`, `SetTimeout`, `Write`, `SetListener`). The first to
find a future not ready claims it (`SetReady`, the `synchronized` blocks of `setResult`,
`setFailure` and `fireTimeout`) and must then `Release` it (cancel the timeout, remove it
from the map) and `NotifyListener`, each a step of its own. `side` says whose manager it is:
a client's is closed by `channelClosed`, then its timer is stopped; a server's is never
closed, only the shared timer is stopped. `close()` iterates over a concurrent map: it
visits all that was there when it began, and may visit what is added meanwhile. The worker
closes the map in the thread that reads responses, so these do not interleave. The plain
fields `timeout` and `failureEventHandler` are modelled as if written in program order and
seen at once; `close()` clears the map afterwards, so a handler seen too late leaks nothing.
A client's manager is closed here only by `channelClosed`: the other caller of
`closeResources` is a `close()` before the channel is connected, when no request is accepted.

### How the reconnect corresponds to the code

Channels are numbered in the order they are opened, at most `Attempts`. For each: the
handler's state, whether it knows its client, its timer, Netty's channel, the connect
future's result and listener, and the worker's place in the events. `Settle` ends a connect:
Netty runs the future's listeners before it fires `channelConnected`; a listener added
afterwards runs in the thread that adds it, the factory's timer, concurrently with the
worker. `close()` and `channelClosed` of a handler are single steps here, as
`PinpointConnection` already interleaves them; the factory is not released.

### How the streams and the web's worker correspond to the code

`StreamChannelManager` has both ends of one connection: the opener (a `DefaultPinpointServer`,
whose `openStream` the web calls) and the acceptor (the client handler). `changeStateTo`
reads the state, then compares and sets: `BeginChange` and `CompareAndSet`, with any step of
another thread between them; a refused change goes on to `ILLEGAL_STATE`, as in the code.
Five threads: the caller of `openStream`, the opener's network thread and the thread that
stops its socket, the acceptor's network thread, and the application that was given the
stream. `openStream`'s three seconds may end at any time (`OpenCheck`). `Disconnect` loses
what is on the wires; each end then closes the streams of its map (`CloseAll`,
`CloseAllNext`). A stream's ping is left out: only tests send it.

`ActiveThreadCountWorker` adds the web's worker. Its lock is held through `openStream`, so
`start`, `reactive`, `stop` and the timer's call share the thread "caller", one at a time;
the listener (`EventPerformed`, `AddReactive`) runs in whatever thread changed the stream's
state and takes no lock. The stream is stored in one step and `active` assigned in a later
one (`Opened`, `Activate`). An exception out of `openStream` (`Thrown`) leaves a worker that
is not in the repository; `dropped` keeps its stream. The worker's life is followed once,
over one connection: an agent that comes back is a new `PinpointServer` with streams of its own.
`Active0` looks up the socket and begins the open in one step: a connection lost in between is
one lost right after the open began.

### How the cluster registration corresponds to the code

A socket is a `PinpointServer` whose state is first changed and then reported: `ChangeStatus`
and, in the socket's thread, `EventJob` (the job) and `EventPoint` (the cluster point). The
latest job of a socket replaces the one before it. The worker takes a job (`GetJob`), reads
the node (`ReadNode`) and writes it (`WriteNode`) in separate steps, since sockets, watcher
and session go on between them; an `UpdateJob` of a closed socket becomes a `DeleteJob`
(`UpdateOfClosed`). `OperationTimeout` may or may not have done the operation; the retry is
counted, gives way to a newer job, and the last one of an update is left to `LeakDetector`.
`ZkDisconnect`, `ZkExpire` and `ZkReconnect` are the session (external in what ZooKeeper does
with an ephemeral node; the reactions are the code's); `Resync` is the watcher's pass, which
reads a socket's state and performs the event with what it has read. `ConnectionLost`, an
operation that fails for another reason than a timeout, wants the session disconnected: the
code gives such an operation up, and the watcher's pass after the reconnect makes up for it.

### How the realtime chart corresponds to the code

`ActiveThreadCountHandler` takes each of the handler's three entries as one step, since they
hold its lock; what is read before the lock (the message, `ReceiveRequest`) is a step before.
Leaving and joining an aggregator, with its removal by the last one out, is part of
`HandleRequest` and `AfterConnectionClosed`. `HealthCheckTimerTask`'s two loops are
`HealthCheck` and `Ping`; both timers look at `onTimerTask` when they are done. `Cut` is a
link that fails in silence; a message written to it is lost. Left out: a container that
notices a dead link by itself, a `close()` of a session that throws and so ends this
round of the health check before its pings, and a write in `flush0` that throws something else
than an `IOException` (a session that is just sending), after which the sessions behind it in
the aggregator get nothing this time. No property rests on these.

`RealtimeChart` is the browser: one event handler at a time, each an action. The callbacks
work on `websocket`, the service's one reference, as in the code, whichever socket they
belong to. `send()` on a connecting socket throws: the branches with `Connecting` do what the
handler had done before it got there, and no more. `lostInterval` is the timeout checker's
interval whose handle a second one has overwritten.

### How the senders correspond to the code

`AsyncQueueingExecutor`: `execute` looks at the flag (`Execute`) and offers later (`Offer`);
the thread's loop is `CheckRun`, `Drain`, `Poll` and, after stop, `FlushQueue`, its steps
named by `loop`. `TcpDataSender` adds the requests. An outcome is heard in the network's
thread, the request timer's, the thread that asks when there is no connection, or the retry
task's for the same reason; each then goes through `add` (`AddRetry` reads the size,
`OfferRetry` adds), `fire` (`FireTimeout`, the compare-and-set) and `schedule`
(`NewTimeout`). The task works off the queue (`GetRetry`) until it is empty and then
resets the flag (`FireComplete`). `stop` is `Stop`, then `StopTimer`.

## 3. Runs

| Run | Instance | States | Shows |
|---|---|---|---|
| `connection` | simplex, 2 handshakes, no pings, fair | 0.29 M | the ends agree, the server grants first, closing states have authors, both ends end closed, a lost server leads to a reconnect; a handshake ends, `close()` and the acceptor's close take both ends down |
| `connection_pings` | duplex or an error, 1 handshake, 4 pings, ring of 2, constraint `QuietNetwork` | 0.59 M | types, the ring is the window of the last verdicts, a closed state is final |
| `connection_close` | 1 handshake | violation | `close()` between read and change of `channelClosed` leaves `BEING_CLOSE_BY_CLIENT` for ever |
| `requests` | 2 requests, either side, fair | 65 k | refinement of `RequestPromise`, listener called exactly once when set, no leak, every request completes on a client |
| `requests_server` | 2 requests | violation | the acceptor's close leaves requests without outcome |
| `reconnect` | 3 channels, fair | 28 k | one channel in hand at most, never forgotten, published in order, a closed client stops |
| `reconnect_force` | 1 channel | violation | the forced close of a late reconnect leaves its channel open |
| `active_threads` | 2 streams, 1 packet of data | 2.5 M | ended streams stay ended, no stream after stop, one live stream, no lost wake-up, ends connected in pairs |
| `cluster` | 2 sockets of one agent, 1 retry, 2 timeouts, 1 lost session, fair | 0.79 M | connected agents are registered, known and routable; gone agents leave the node for good |
| `cluster_run` | as `cluster` | violation | the old socket's deletion takes a reconnected agent out of the node |
| `realtime` | 2 sockets, 1 application and none | 1.8 M | timers run, sessions are served, the shown chart is the subscribed one, the user is told |
| `tcp_sender` | 2 requests (retried twice and once), queue 2, drain 1, retry queue 2, fair | 42 k | tries are bounded, one retry task, the queue is flushed, what waits is asked again |

Why the bounds are enough.

* *Connection.* Two handshakes are one retry: the second packet meets every state of the
  first one's answer, and a third meets the same states as the second, since the server
  distinguishes only first and later and the client only STARTED and FINISHED. The listener's
  answer is chosen once and constant, so behaviours with different answers do not mix, and
  instances with one answer each are together the instance with all; simplex and duplex stand
  in the same places of the table, and the error answer and duplex are in `connection_pings`.
  Four pings go round a ring of two twice: the second round meets marks and gaps of the first.
  To afford them, `connection_pings` keeps the link up and the factory unreleased
  (`QuietNetwork`, a state constraint; either end may still close at any time); no other run
  has a constraint, and `TypeOK` and `ClosedIsFinal` are also proved.
* *Requests, reconnect.* Two requests exhibit a race between any two threads over one request
  while another one is in any state; they share only the map and the timer. Three channels are
  a channel, its replacement, and the replacement of that: one handler publishes while another
  still ends.
* *Streams.* Two streams are one that ends and the one the worker opens next: the thread that
  reports the end of the first must also deliver what comes for the second. `MaxData` holds
  data back while a packet is under way, so data meets each state of its stream, alone.
* *Cluster.* Two sockets of one agent are the case in which jobs of different sockets touch
  the same entry; sockets of different agents share only the worker. One retry and two
  timeouts reach the last retry and the leak detector; after one lost session the next starts
  from a node and jobs that the first could start from too.
* *Chart.* Two sockets are one and its successor, the only pair whose callbacks meet in the
  one reference. One application and "none" are what hiding and showing switch between, and
  `Initialize` asks for both in turn; the proofs cover any number of either. `Patient` makes
  the user wait until the server has taken what was sent, and a second flush or ping waits
  until the browser has seen the first.
* *Sender.* Two requests fill the retry queue, pass its half and its end, and take two of the
  four threads through `add` and `fire` at once while the task ends.

Deadlock is not checked: a closed connection, a completed request, a client out of attempts,
a stopped worker or sender, sockets that have all closed stop.

The four violated properties restate what the repository says of the program (findings in
`PROJECT.json`): `PinpointClientStateTest` and the comment on `close()`, the comment in
`PinpointServerAcceptor.close`, the message of `PinpointClient.reconnectSocketHandler`, and
the comment "register on RUN, remove on FINISHED" of `ZookeeperProfilerClusterManager`.

### Fairness

Weak fairness of everything a scheduled thread does and of what the network does sooner or
later. In the connection, the requests and the reconnect it is taken together
(`ObligedStep`, `Progress`, `ThreadStep \/ NetworkStep`): while there is such a step, some
such step happens. Every obliged step uses up a packet, a bound or a program counter, so
that suffices. In the cluster each socket's thread, the watcher, the worker, the leak detector
(the worker's own time limit on waiting) and ZooKeeper's reconnect are fair one by one, and in
the sender the executor's thread, the retry task and each thread that hears an outcome. That is
what a JVM's scheduler and Netty's event loop give. It says nothing about users, the
collector or a sender being stopped, links breaking, answers, timeouts of operations or peers
closing, which may or may not happen. The streams and the chart are checked for safety only:
their recovery hangs on timers and people.

### Hypotheses in the properties

Where a property says less than one would wish, the missing case is a hazard of the code. In
`PROJECT.json` such a hazard names no property and has a note instead, or a note beside the
properties that look at the rest of it:

* `ServerEndsClosed` excludes the acceptor's own close (its `toBeingClose` can come between
  `stop`'s read and change), `ClientEndsClosed` and `HandshakeAgreement` exclude a handler on
  which `close()` was called (see `connection_close`; a `close()` that overtakes
  `channelConnected` aborts the handshake and leaves the connection up, see `reconnect_force`),
  and `NeverForgotten` and `LostServerIsReconnected` exclude a channel that ends before its
  handler was given its `PinpointClient`, which is set after the connect was started.
* `ClosedStopsReconnecting` and `PublishedInOrder` say nothing of the handler that
  `reconnectSocketHandler` publishes after `close()` has closed the one before it: nobody closes
  it. `ServerEndsClosed` accepts any closed state, also where `ERROR_SYNC_STATE_SESSION` was meant.
* `RunRegistered` excludes an agent one of whose older sockets has closed: see `cluster_run`.
* `InactiveIsRetried` speaks of a worker that knows it has no stream: `active` is assigned
  TRUE after the stream was opened and may overwrite the FALSE of a stream that has ended by
  then, whereupon nobody opens another one. `ConnectedInPairs` starts from the opener:
  an acceptor's stream may stay connected when its create-success is lost in the
  three-second limit, since `openStream` that gives up sends no CLOSE.
* `WaitingIsRetried` speaks of messages a task is still to come for: one that is added after
  the task has found the queue empty, and before it resets the flag, waits for the next failure.
  `QueuedIsSent` speaks of data in the queue while the executor runs: a caller that looked
  at the flag before `stop` may still offer after the last flush.
* `ShownIsSubscribed` and `ToldWhenClosed` say nothing of sockets the chart has forgotten: the
  `onclose` of an old socket sets the reference to the new one to null, and the new one lives on
  until the health check closes it. Nor of a socket that has gone silent while `stopReceive` has
  stopped the timeout checker. `BoundIsServed` speaks of open sessions.

### Facts about the code no property states

Seen while modelling; each follows from the lines named under the hazards. `stopReceive`
stops the timeout checker, and a request through the same socket does not start it again. A
second socket's interval overwrites the handle of the first, which nothing stops. A node
without active threads hides the popup and leaves the subscription. A session that comes
between the departure of the last one and the next look at `onTimerTask` starts a second chain
of flushes and health checks (the agent's own active-thread service uses the same pattern). A
request that waits for the handler's lock while its session closes binds the closed session for
good. `ReactiveTimerTask` forgets the waiting agents before it asks the database for them. The
watcher can add the cluster point of a socket that has closed since it looked. `RetryQueue.add`
looks at the size before it offers. The profiler's requests start with the retry count at the
retry queue's maximum, so one that fails is never asked again.

## 4. Proofs

TLAPS proves, for every value of the constants:

* **Connection.** `TypeCorrect`: `Spec => []TypeOK`. It needs `RoomInv`: a handshake about to
  be repeated, or a ping about to be written, is still within its bound, and at most one
  reconnect is asked for, because `FinishChannelClosed` runs once. `ServerGrants`:
  `ResponsesInv` ties every handshake response under way to the server's state (one that grants
  a run state is written after the server is there, or was refused, which happens only when it
  no longer runs), and `ServerRunInv` says that the server enters a run state only by what its
  listener answered. `Agreement`: `HandshakeAgreement`, from the above with `ClientRunInv`,
  `ConnectedInv` and `AgreementInv`. `ClosedForEver`: the table alone does not give it, as it
  lets all closed codes but two turn into errors; `ClientClosedInv` and `ServerClosedInv` say
  where each thread can be once an end is closed.
  How a connection ends: `ClosesHaveAuthors` (`CloseHasAnAuthor`) from `ByClientInv` and
  `ByServerInv`: until somebody asks for a close there is no trace of one, neither in a state,
  nor in what a thread has read, nor in a packet. `ClientEnds` (`ClientEndsClosed`), `ServerEnds`
  (`ServerEndsClosed`) and `LostIsReconnected` (`LostServerIsReconnected`) from `ClientEndInv`,
  `ServerEndInv` and `SeenInv`, which say for each place of an end's worker which states it may
  find, what `channelClosed` may have read before, and that only the release of the factory or
  of the acceptor comes in between. `CheckerKeepsWindow` (`CheckerIsWindow`): `RingInv` gives each
  slot of the ring an age; the check forgets nothing younger than the capacity, because the slot
  the next ping writes is the oldest one.
* **Requests.** `RequestTypes`: that `told` stays below two is not a matter of types; `ToldInv`
  relates it to the claim on the future and to the listener. `Implements`: the refinement
  `KeepsPromise`, each step a step of `RequestPromise` or a stutter, with `AskedInv` (what may be
  answered was asked) and `ToldInv`. `HeardOnce` (`ListenerOnce`) needs `HeardInv`: who is not told
  yet has a listener that some thread will find. `MapDoesNotLeak` (`NothingLeaks`) needs
  `RegisterInv`, that a future cannot complete before its failure handler is set, and `MapInv`, that
  a ready future in the map has a thread that will take it out. `StopIsSafe`
  (`StopLeavesNoRequest`) needs `ChannelInv` and `PendingInv`: a request that `close()` has
  missed is not yet written, and its write will fail, since the channel closed first.
* **Reconnect.** `ReconnectTypes`. `OneAtATime` (`OneChannelAtATime`) from `TokenInv`: the
  event, the thread that runs it and the channel in hand are one token, which is passed on and
  never copied. `NeverLost` (`NeverForgotten`) from `KeptInv` and `OpenInv` (only a closed
  client closes a handler, so an open channel of an open client runs, or will). `InOrder`
  (`PublishedInOrder`): `OpInv` and `TimerInv` say that the thread that publishes is about the
  latest channel; `CreateInv` covers the first connect, when nobody reconnects yet.
* **Chart.** `ChartTypes`. `TimersAlwaysRun`: `TimersInv` passes through `onTimerTask`, which is
  set while there are sessions and has a task of each timer while it is set.
  `BoundAlwaysServed` needs `RefInv` and `FreshInv`: a socket whose connection the server has
  not heard of has no application and asks for none, so the session it becomes is bound to
  nothing. `ShownAlwaysSubscribed` needs `HeardInv` and `SubInv`: the last request on the wire of
  the socket in use, or else the one about to be bound, or else what the session is bound to,
  is what the screen shows. `AlwaysTold`: every action that takes the message away does so over an
  open socket, and every one that shows the popup puts a message there.
* **Cluster.** `ClusterTypes`; `AlwaysKept`; `AlwaysRegistered`. Their invariant is `IInv`: the
  types; what the events say of their sockets (`EventsInv`); deletions are about closed
  sockets (`JobsInv`); `KeptInv`; what the worker has read of the node is what it will change,
  or the node has expired since (`NodeInv`); and `RegisterInv`: while the session is up, an
  agent that runs and is not in the node has an update in its event, its job, the leaked jobs,
  the worker's hand or the watcher's pass.
* **Streams and worker.** `WorkerTypes`; `StreamsStayEnded` (`NeverRevived`) from `TypeOK`,
  `ThreadsOK` (a busy thread is about a stream) and `CreateInv` (a stream's CREATE is
  written once, and the acceptor's end is NEW until it has been received, so the one plain
  assignment among the compare-and-sets overwrites nothing). The other five theorems share
  the invariant `WorkerInv`. To reason about some forty actions at once the proof first restates
  every step by what it changes (`Step`, lemma `NextIsStep`), and then for the opener alone
  (`OpenerMove`, where every step of the acceptor is `OpenerRests`). The parts of `WorkerInv`:
  - `CallerInv`, `NetworkInv`, `AcceptorInv`: what each thread may be in the middle of;
  - `StatusInv`, `PacketsInv`, `KnownInv`, `SuccessInv`: how far a stream is while its caller
    opens it, that what arrives is about a stream the acceptor has seen, and that a context
    leaves the map when its stream ends or the caller gives it up, so that a create-success
    is refused only for a stream that is already being closed;
  - `AliveInv`: a stream that has not ended is the one the caller is opening, or the one an
    active worker holds, or has a thread with an ending change in its hands. `StopEndsStreams`
    (`NoStreamAfterStop`) and `LiveStreamIsOne` (`OneLiveStream`) follow. Its difficult case is
    the listener, which turns `active` off for whatever stream has ended: `Spared` says that no
    network thread is about to report an older stream while a newer one is connected and held;
  - `KnownInv` again gives `MapHasLiveStreams` (`ContextsAreLive`);
  - `TimerInv` and `RetryInv` give `InactiveWaits` (`InactiveIsRetried`): one task while
    the flag is set, and for a worker without a stream somebody who has put it down or will;
  - `TokenInv`, `CloseInv` and `PairInv` give `EndsAgree` (`ConnectedInPairs`). The create of a
    stream is in one place at a time: not sent, on the wire, in the acceptor's handler, on
    the wire back, in the opener's thread, in the opener's state. A CLOSE under way to the
    acceptor is about a stream that is ending, so the acceptor leaves CONNECTED only when the
    opener's end is ending too, or when its application has a CLOSE to send, or has sent it.
* **Sender.** `OneTask` (`FireStateIsTask`) from `TaskTypes` and `TaskInv`: the thread that took
  the flag, the timer's task and the running one are never two. `SenderTypes` (`TypeOK`, which
  bounds how often a request is tried): `PlaceInv`, that a message is in one place and there
  once, since otherwise the look at its count would be stale when it is counted, and `CountInv`.

Assumed are only the named `ASSUME`s, all of which TLC evaluates: `ClientBounds`,
`HandshakeCodesAssumption`, `StateCheckCapacityAssumption` (1 to 8, as the constructor checks),
`AttemptsAssumption` (at least one channel), `RequestsAssumption` (requests are not thread
names), `StreamsAssumption` (identifiers are positive), `MaxDataAssumption`, `KeysAssumption`,
`NoServerAssumption`, `RetryAssumption` (of the cluster and of the sender), `SocketsAssumption`,
`ApplicationsAssumption` (no application has the empty name), `MaxSentAssumption` and
`SizesAssumption`.

With these, every invariant and every safety action property of a passing run is a
theorem. Each inductive invariant was first checked by TLC on the instance of its run.

Only model-checked is what the prover cannot reach: the liveness properties
(`HandshakeEnds`, `CloseTakesBothEndsDown`, `AcceptorCloseReachesClient`, `RequestCompletes`,
`ClosedStopsReconnecting`, `GoneIsRemoved`, `QueuedIsSent`, `WaitingIsRetried`), and the
violations, which are counterexamples. `TypeOK` of `RequestManager`, `PinpointClientReconnect`
and `RealtimeChart` is proved and not run.

## 5. Not modelled, and the plan

Not modelled, and why:

* the collector's command routing and the relay of a stream between two others: what it rests
  on is in `RequestManager`, `StreamChannelManager` and `ZookeeperLatestJobWorker`; a relay is two
  instances of the second, which is past what TLC can go through with both ends of each;
* `AgentInfoSender`, whose wrappers are small loops of their own, and plain sends and the UDP
  senders, which have no outcome and no retry;
* the codec (an encoding), HBase access and the collector's receivers (decoding and a database's
  semantics), instrumentation and plugins (byte code), trace context and storage (per thread);
* the web's queries and the other pages of the browser, which keep nothing beyond a request or a
  screen, and the JavaScript libraries kept in the repository (angular, jquery, d3 and others),
  which are third-party code and nearly all of its JavaScript;
* generated Thrift code, packaging, test data.

What is left, in this order:

1. An abstract register of connected agents that `ZookeeperLatestJobWorker` implements once the
   entry of the node tells sockets apart.
2. The scatter chart's realtime loading in the browser, whose answers may come after another
   application was chosen.
