----------------------- MODULE ZookeeperLatestJobWorker -----------------------
(***************************************************************************)
(* How a collector publishes in Zookeeper which agents are connected to    *)
(* it: ZookeeperProfilerClusterManager (the state events of the agents'    *)
(* sockets), ZookeeperLatestJobWorker (one thread, the latest job of each  *)
(* socket, retries and the leak detector) and the watcher of               *)
(* ZookeeperClusterService (which goes through the registered sockets when *)
(* the session comes back).  An entry of the node names an agent process   *)
(* (application, agent, start time), so two sockets of one process have    *)
(* the same entry.                                                         *)
(***************************************************************************)
EXTENDS Naturals, FiniteSets

CONSTANTS Servers,        \* the agents' sockets (PinpointServer)
          Keys,           \* the entries of the node
          KeyOf,          \* createProfilerContents of a socket
          NoServer,
          MaxRetry,       \* AbstractJob's maxCount
          MaxTimeouts,    \* bound: operations that time out
          MaxDisconnects  \* bound: times the session is lost

ASSUME KeysAssumption == KeyOf \in [Servers -> Keys]
ASSUME RetryAssumption == {MaxRetry, MaxTimeouts, MaxDisconnects} \subseteq Nat
ASSUME NoServerAssumption == NoServer \notin Servers /\ "watcher" \notin Servers

VARIABLES
    status,       \* what getCurrentStateCode says of a socket
    events,       \* eventPerformed in progress, in each socket's thread and the watcher's
    jobs,         \* latestJobRepository
    repository,   \* pinpointServerRepository
    leaked,       \* the sockets whose UpdateJob is in leakJobQueue
    worker,       \* the worker thread: its step and the job in hand
    node,         \* the collector's node
    zkConnected,  \* the watcher's connected flag
    resync,       \* the registered sockets the watcher has still to go through
    points,       \* the cluster points requests are routed to
    timeouts, disconnects

vars == <<status, events, jobs, repository, leaked, worker, node, zkConnected, resync,
          points, timeouts, disconnects>>

Callers == Servers \cup {"watcher"}
Statuses == {"none", "duplex", "closed"}

NoJob == [kind |-> "none", retry |-> 0, max |-> 0]
UpdateJob(max) == [kind |-> "update", retry |-> 0, max |-> max]
DeleteJob == [kind |-> "delete", retry |-> 0, max |-> MaxRetry]
Jobs == {job \in [kind : {"none", "update", "delete"}, retry : Nat, max : Nat] :
            job.retry <= job.max}

NoEvent == [at |-> "idle", server |-> NoServer, code |-> "none"]
Event(s) == [at |-> "job", server |-> s, code |-> status'[s]]
Events == [at : {"idle", "job", "point"}, server : Servers \cup {NoServer}, code : Statuses]

Absent == [exists |-> FALSE, keys |-> {}]
Present(keys) == [exists |-> TRUE, keys |-> keys]
Nodes == [exists : BOOLEAN, keys : SUBSET Keys]

Waiting == [at |-> "wait", server |-> NoServer, job |-> NoJob, seen |-> Absent]
WorkerStates == [at : {"wait", "run", "write"}, server : Servers \cup {NoServer},
                 job : Jobs, seen : Nodes]

\* The type invariant; no job is tried more often than it may be.
TypeOK ==
    /\ status \in [Servers -> Statuses]
    /\ events \in [Callers -> Events]
    /\ jobs \in [Servers -> Jobs]
    /\ repository \subseteq Servers
    /\ leaked \subseteq Servers
    /\ worker \in WorkerStates
    /\ node \in Nodes
    /\ zkConnected \in BOOLEAN
    /\ resync \subseteq Servers
    /\ points \subseteq Servers
    /\ timeouts \in 0 .. MaxTimeouts
    /\ disconnects \in 0 .. MaxDisconnects

Init ==
    /\ status = [s \in Servers |-> "none"]
    /\ events = [c \in Callers |-> NoEvent]
    /\ jobs = [s \in Servers |-> NoJob]
    /\ repository = {}
    /\ leaked = {}
    /\ worker = Waiting
    /\ node = Absent
    /\ zkConnected = TRUE
    /\ resync = {}
    /\ points = {}
    /\ timeouts = 0
    /\ disconnects = 0

-----------------------------------------------------------------------------
(* The sockets and their events.                                           *)

\* The state changes first, then the socket's thread performs the event.
ChangeStatus(s, from, to) ==
    /\ status[s] = from /\ events[s] = NoEvent
    /\ status' = [status EXCEPT ![s] = to]
    /\ events' = [events EXCEPT ![s] = Event(s)]
    /\ UNCHANGED <<jobs, repository, leaked, worker, node, zkConnected, resync, points,
                   timeouts, disconnects>>

RunDuplex(s) == ChangeStatus(s, "none", "duplex")
Close(s)     == ChangeStatus(s, "duplex", "closed")

\* The latest job of a socket replaces the one before it.
PutJob(s, job) == /\ repository' = repository \cup {s}
                  /\ jobs' = [jobs EXCEPT ![s] = job]

EventJob(c) ==
    LET e == events[c] IN
    /\ e.at = "job"
    /\ PutJob(e.server, IF e.code = "duplex" THEN UpdateJob(MaxRetry) ELSE DeleteJob)
    /\ events' = [events EXCEPT ![c].at = "point"]
    /\ UNCHANGED <<status, leaked, worker, node, zkConnected, resync, points, timeouts,
                   disconnects>>

EventPoint(c) ==
    LET e == events[c] IN
    /\ e.at = "point"
    /\ points' = IF e.code = "duplex" THEN points \cup {e.server} ELSE points \ {e.server}
    /\ events' = [events EXCEPT ![c] = NoEvent]
    /\ UNCHANGED <<status, jobs, repository, leaked, worker, node, zkConnected, resync,
                   timeouts, disconnects>>

-----------------------------------------------------------------------------
(* The worker's thread.                                                    *)

GetJob(s) ==
    /\ worker.at = "wait" /\ jobs[s] # NoJob
    /\ worker' = [Waiting EXCEPT !.at = "run", !.server = s, !.job = jobs[s]]
    /\ jobs' = [jobs EXCEPT ![s] = NoJob]
    /\ UNCHANGED <<status, events, repository, leaked, node, zkConnected, resync, points,
                   timeouts, disconnects>>

\* Mutant: an update that has succeeded does as well.
JobDoneForgets == worker' = Waiting /\ repository' = repository \ {worker.server}
\* A deletion that has succeeded takes the socket out of the repository.
JobDone ==
    /\ worker' = Waiting
    /\ repository' = IF worker.job.kind = "delete" THEN repository \ {worker.server}
                                                   ELSE repository

\* handleUpdate turns into a deletion when the socket has closed meanwhile.
Outdated == worker.job.kind = "update" /\ status[worker.server] = "closed"

UpdateOfClosed ==
    /\ worker.at = "run" /\ Outdated
    /\ PutJob(worker.server, DeleteJob)
    /\ worker' = Waiting
    /\ UNCHANGED <<status, events, leaked, node, zkConnected, resync, points, timeouts,
                   disconnects>>

\* The node is read here and written in a later step.
ReadNode ==
    /\ worker.at = "run" /\ ~Outdated /\ zkConnected
    /\ IF worker.job.kind = "delete" /\ ~node.exists
       THEN JobDone
       ELSE /\ worker' = [worker EXCEPT !.at = "write", !.seen = node]
            /\ UNCHANGED repository
    /\ UNCHANGED <<status, events, jobs, leaked, node, zkConnected, resync, points,
                   timeouts, disconnects>>

\* setData does nothing when the node has gone, createNode when it has come.
Written ==
    LET key == KeyOf[worker.server] IN
    CASE worker.seen.exists /\ node.exists ->
            Present(IF worker.job.kind = "update" THEN worker.seen.keys \cup {key}
                                                  ELSE worker.seen.keys \ {key})
      [] ~worker.seen.exists /\ ~node.exists -> Present({key})
      [] OTHER -> node

WriteNode ==
    /\ worker.at = "write" /\ zkConnected
    /\ node' = Written
    /\ JobDone
    /\ UNCHANGED <<status, events, jobs, leaked, zkConnected, resync, points, timeouts,
                   disconnects>>

\* Mutant: the retries are not counted against the maximum.
RetryJobForever(s, job) ==
    /\ jobs' = IF jobs[s] = NoJob THEN [jobs EXCEPT ![s] = [job EXCEPT !.retry = @ + 1]] ELSE jobs
    /\ UNCHANGED leaked
\* putRetryJob: a newer job of the socket goes first; the last retry leaves an
\* UpdateJob to the leak detector, which drops the others.
RetryJob(s, job) ==
    IF job.retry + 1 > job.max
    THEN /\ leaked' = IF job.kind = "update" THEN leaked \cup {s} ELSE leaked
         /\ UNCHANGED jobs
    ELSE /\ jobs' = IF jobs[s] = NoJob
                    THEN [jobs EXCEPT ![s] = [job EXCEPT !.retry = @ + 1]] ELSE jobs
         /\ UNCHANGED leaked

\* An operation that times out, or whose connection is lost, may have been done.
Failed ==
    /\ worker.at = "write" \/ (worker.at = "run" /\ ~Outdated)
    /\ node' \in {node} \cup (IF worker.at = "write" THEN {Written} ELSE {})
    /\ worker' = Waiting

OperationTimeout ==
    /\ timeouts < MaxTimeouts /\ zkConnected
    /\ Failed
    /\ timeouts' = timeouts + 1
    /\ RetryJob(worker.server, worker.job)
    /\ UNCHANGED <<status, events, repository, zkConnected, resync, points, disconnects>>

\* Only a timeout is tried again: the watcher sees to the rest.
ConnectionLost ==
    /\ ~zkConnected
    /\ Failed
    /\ UNCHANGED <<status, events, jobs, repository, leaked, zkConnected, resync, points,
                   timeouts, disconnects>>

\* Mutant: the leak detector looks at the leaked updates only.
LeakedJobUpdates(s) ==
    IF s \in leaked /\ jobs[s] = NoJob THEN [UpdateJob(1) EXCEPT !.retry = 1] ELSE jobs[s]
\* The leak detector, when the worker has waited long enough: a job may just have come.
LeakedJob(s) ==
    CASE s \in repository /\ status[s] = "closed" -> DeleteJob
      [] ~(s \in repository /\ status[s] = "closed") /\ s \in leaked /\ jobs[s] = NoJob ->
            [UpdateJob(1) EXCEPT !.retry = 1]
      [] OTHER -> jobs[s]

LeakDetector ==
    /\ worker.at = "wait"
    /\ jobs' = [s \in Servers |-> LeakedJob(s)]
    /\ leaked' = {}
    /\ UNCHANGED <<status, events, repository, worker, node, zkConnected, resync, points,
                   timeouts, disconnects>>

-----------------------------------------------------------------------------
(* The session and its watcher.                                            *)

ZkDisconnect ==
    /\ zkConnected /\ disconnects < MaxDisconnects
    /\ zkConnected' = FALSE
    /\ disconnects' = disconnects + 1
    /\ UNCHANGED <<status, events, jobs, repository, leaked, worker, node, resync, points,
                   timeouts>>

\* The node is ephemeral.
ZkExpire ==
    /\ ~zkConnected /\ node.exists
    /\ node' = Absent
    /\ UNCHANGED <<status, events, jobs, repository, leaked, worker, zkConnected, resync,
                   points, timeouts, disconnects>>

\* The one thread that delivers the session's events is done with the last one.
WatcherIdle == resync = {} /\ events["watcher"] = NoEvent

\* Mutant: the session comes back without a look at the registered sockets.
ZkReconnectOnly ==
    /\ ~zkConnected /\ WatcherIdle
    /\ zkConnected' = TRUE
    /\ UNCHANGED <<status, events, jobs, repository, leaked, worker, node, resync, points,
                   timeouts, disconnects>>
ZkReconnect ==
    /\ ~zkConnected /\ WatcherIdle
    /\ zkConnected' = TRUE
    /\ resync' = repository
    /\ UNCHANGED <<status, events, jobs, repository, leaked, worker, node, points, timeouts,
                   disconnects>>

\* The watcher reads the state, then performs the event with what it has read.
Resync(s) ==
    /\ s \in resync /\ events["watcher"] = NoEvent
    /\ resync' = resync \ {s}
    /\ events' = [events EXCEPT !["watcher"] = [at |-> "job", server |-> s, code |-> status[s]]]
    /\ UNCHANGED <<status, jobs, repository, leaked, worker, node, zkConnected, points,
                   timeouts, disconnects>>

-----------------------------------------------------------------------------
WorkerNext == \/ \E s \in Servers : GetJob(s)
              \/ UpdateOfClosed \/ ReadNode \/ WriteNode \/ ConnectionLost

Performed(c) == EventJob(c) \/ EventPoint(c)

Next ==
    \/ \E s \in Servers : RunDuplex(s) \/ Close(s) \/ Resync(s)
    \/ \E c \in Callers : Performed(c)
    \/ WorkerNext \/ OperationTimeout \/ LeakDetector
    \/ ZkDisconnect \/ ZkExpire \/ ZkReconnect

Fairness == /\ \A c \in Callers : WF_vars(Performed(c))
            /\ \A s \in Servers : WF_vars(Resync(s))
            /\ WF_vars(WorkerNext)
            /\ WF_vars(LeakDetector)
            /\ WF_vars(ZkReconnect)

Spec == Init /\ [][Next]_vars /\ Fairness

-----------------------------------------------------------------------------
(* Properties.                                                             *)

\* Nothing is under way.
Quiet == /\ \A c \in Callers : events[c] = NoEvent
         /\ \A s \in Servers : jobs[s] = NoJob
         /\ worker = Waiting /\ leaked = {} /\ resync = {} /\ zkConnected

Others(s) == {o \in Servers \ {s} : KeyOf[o] = KeyOf[s]}

\* At rest the collector's node has every agent that is connected, also after timeouts
\* of operations, lost connections and an expired session, whose node is gone; except
\* an agent one of whose older sockets has closed, see RegisteredOnRun.
RunRegistered ==
    Quiet => \A s \in Servers :
                status[s] = "duplex" /\ (\A o \in Others(s) : status[o] # "closed")
                    => KeyOf[s] \in node.keys

AllGone(k) == \A s \in Servers : KeyOf[s] = k => status[s] = "closed"

\* An agent all of whose sockets have closed is removed from the node for good: no late
\* update, retry, leaked job or pass of the watcher keeps it or brings it back.  (Closed
\* sockets stay closed, so AllGone(k) ~> [](k \notin node.keys) says the same.)
GoneIsRemoved == \A k \in Keys : <>[](AllGone(k) => k \notin node.keys)

\* A connected socket stays known to the worker and routable: the deletions and the
\* watcher's passes of this or another socket never take it out.
RepositoryKept ==
    \A s \in Servers : status[s] = "duplex" /\ events[s] = NoEvent => s \in repository /\ s \in points

\* "register on RUN": at rest every connected agent is in the node.  The code breaks it
\* when an agent reconnects before its old socket's deletion has been carried out.
RegisteredOnRun ==
    Quiet => \A s \in Servers : status[s] = "duplex" => KeyOf[s] \in node.keys
=============================================================================
