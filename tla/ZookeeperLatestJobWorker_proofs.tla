--------------------- MODULE ZookeeperLatestJobWorker_proofs ---------------------
(***************************************************************************)
(* Proofs about ZookeeperLatestJobWorker, for any sockets, any entries and *)
(* any number of timeouts and lost connections: the types, in particular   *)
(* that no job is tried more often than it may be; a connected socket      *)
(* stays known and routable; at rest a connected agent is in the node.     *)
(***************************************************************************)
EXTENDS ZookeeperLatestJobWorker, TLAPS

(***************************************************************************)
(* The inductive invariant.                                                *)
(***************************************************************************)

\* What an event says of a socket was true when it was read: a closed socket is closed
\* for ever.  A socket's own event says what the socket is.
EventsInv ==
    /\ \A c \in Callers : events[c].at # "idle" =>
           /\ events[c].server \in Servers
           /\ \/ events[c].code = "duplex" /\ status[events[c].server] # "none"
              \/ events[c].code = "closed" /\ status[events[c].server] = "closed"
    /\ \A s \in Servers : events[s].at # "idle" => events[s].server = s /\ events[s].code = status[s]

\* Deletions are about closed sockets.
JobsInv ==
    /\ \A s \in Servers : /\ jobs[s].kind = "none" => jobs[s] = NoJob
                          /\ jobs[s].kind = "delete" => status[s] = "closed"
    /\ worker.at # "wait" =>
           /\ worker.server \in Servers
           /\ worker.job.kind # "none"
           /\ worker.job.kind = "delete" => status[worker.server] = "closed"

\* Who is known to the worker has been connected, and who is connected is known once its
\* event has put the job.
KeptInv ==
    \A s \in Servers :
        /\ s \in repository \/ s \in resync => status[s] # "none"
        /\ status[s] = "duplex" => /\ events[s].at = "job" \/ s \in repository
                                   /\ events[s].at # "idle" \/ s \in points

\* What the worker has read is what it will change, or the node has expired since.
NodeInv ==
    /\ ~node.exists => node.keys = {}
    /\ worker.at = "write" /\ node.exists => worker.seen = node

\* An update of the socket's entry is still to be carried out.
Pending(s) ==
    \/ jobs[s].kind = "update" \/ s \in leaked \/ s \in resync
    \/ \E c \in Callers :
          events[c].at = "job" /\ events[c].server = s /\ events[c].code = "duplex"
    \/ /\ worker.server = s /\ worker.job.kind = "update"
       /\ worker.at = "run" \/ (worker.at = "write" /\ worker.seen.exists = node.exists)

Running(s) == status[s] = "duplex" /\ \A o \in Others(s) : status[o] # "closed"

\* A connected agent is in the node or will be.
RegisterInv ==
    zkConnected => \A s \in Servers : Running(s) => KeyOf[s] \in node.keys \/ Pending(s)

IInv == TypeOK /\ EventsInv /\ JobsInv /\ KeptInv /\ NodeInv /\ RegisterInv

(***************************************************************************)
(* Types.                                                                  *)
(***************************************************************************)

\* The jobs and events that are made.
LEMMA MadeTypes ==
    /\ NoJob \in Jobs /\ DeleteJob \in Jobs /\ UpdateJob(MaxRetry) \in Jobs
    /\ [UpdateJob(1) EXCEPT !.retry = 1] \in Jobs
    /\ NoEvent \in Events /\ Waiting \in WorkerStates /\ Absent \in Nodes
BY RetryAssumption DEF Jobs, NoJob, DeleteJob, UpdateJob, NoEvent, Events, Statuses, Waiting,
                       WorkerStates, Absent, Nodes

\* A node that is written is a node.
LEMMA WrittenType ==
    ASSUME TypeOK, JobsInv, worker.at = "write"
    PROVE  Written \in Nodes
<1>1. /\ worker.seen \in Nodes /\ node \in Nodes /\ KeyOf[worker.server] \in Keys
  BY KeysAssumption DEF TypeOK, WorkerStates, JobsInv
<1> QED BY <1>1 DEF Written, Present, Nodes

\* A retry is a job that may still be tried.
LEMMA RetryType ==
    ASSUME TypeOK, NEW s \in Servers, NEW job \in Jobs, RetryJob(s, job)
    PROVE  jobs' \in [Servers -> Jobs] /\ leaked' \subseteq Servers
<1>1. CASE job.retry + 1 > job.max
  BY <1>1 DEF RetryJob, TypeOK
<1>2. CASE ~(job.retry + 1 > job.max)
  <2>1. [job EXCEPT !.retry = @ + 1] \in Jobs
    BY <1>2 DEF Jobs
  <2> QED BY <1>2, <2>1 DEF RetryJob, TypeOK
<1> QED BY <1>1, <1>2

\* Every step keeps the types.
LEMMA TypeStep == TypeOK /\ EventsInv /\ JobsInv /\ [Next]_vars => TypeOK'
<1> SUFFICES ASSUME TypeOK, EventsInv, JobsInv, [Next]_vars PROVE TypeOK'
  OBVIOUS
<1>j. ASSUME NEW s \in Servers, NEW job \in Jobs, PutJob(s, job)
      PROVE  repository' \subseteq Servers /\ jobs' \in [Servers -> Jobs]
  BY <1>j DEF PutJob, TypeOK
<1>w. ASSUME worker.at # "wait"
      PROVE  worker.server \in Servers /\ worker.job \in Jobs /\ worker \in WorkerStates
  BY <1>w DEF JobsInv, TypeOK, WorkerStates
<1>1. ASSUME NEW s \in Servers, NEW from, NEW to \in Statuses, ChangeStatus(s, from, to)
      PROVE  TypeOK'
  <2>1. status' \in [Servers -> Statuses] /\ status'[s] \in Statuses
    BY <1>1 DEF ChangeStatus, TypeOK
  <2>2. Event(s) \in Events
    BY <2>1 DEF Event, Events
  <2>3. events' \in [Callers -> Events]
    BY <1>1, <2>2 DEF ChangeStatus, TypeOK, Callers
  <2> QED BY <1>1, <2>1, <2>3 DEF ChangeStatus, TypeOK
<1>2. ASSUME NEW c \in Callers, EventJob(c) PROVE TypeOK'
  <2>1. events[c].server \in Servers /\ events[c] \in Events
    BY <1>2 DEF EventJob, EventsInv, TypeOK
  <2>2. repository' \subseteq Servers /\ jobs' \in [Servers -> Jobs]
    BY <1>2, <1>j, <2>1, MadeTypes DEF EventJob
  <2>3. events' \in [Callers -> Events]
    <3>1. [events[c] EXCEPT !.at = "point"] \in Events
      BY <2>1 DEF Events
    <3> QED BY <1>2, <3>1 DEF EventJob, TypeOK
  <2> QED BY <1>2, <2>2, <2>3 DEF EventJob, TypeOK
<1>3. ASSUME NEW c \in Callers, EventPoint(c) PROVE TypeOK'
  <2>1. events[c].server \in Servers
    BY <1>3 DEF EventPoint, EventsInv, TypeOK
  <2>2. events' \in [Callers -> Events]
    BY <1>3, MadeTypes DEF EventPoint, TypeOK
  <2>3. points' \subseteq Servers
    BY <1>3, <2>1 DEF EventPoint, TypeOK
  <2> QED BY <1>3, <2>2, <2>3 DEF EventPoint, TypeOK
<1>4. ASSUME NEW s \in Servers, GetJob(s) PROVE TypeOK'
  <2>1. jobs' \in [Servers -> Jobs] /\ jobs[s] \in Jobs
    BY <1>4, MadeTypes DEF GetJob, TypeOK
  <2>2. worker' \in WorkerStates
    BY <1>4, <2>1, MadeTypes DEF GetJob, Waiting, WorkerStates
  <2> QED BY <1>4, <2>1, <2>2 DEF GetJob, TypeOK
<1>5. CASE UpdateOfClosed
  <2>1. repository' \subseteq Servers /\ jobs' \in [Servers -> Jobs]
    BY <1>5, <1>j, <1>w, MadeTypes DEF UpdateOfClosed
  <2> QED BY <1>5, <2>1, MadeTypes DEF UpdateOfClosed, TypeOK
<1>6. CASE ReadNode
  <2>1. worker' \in WorkerStates
    <3>1. [worker EXCEPT !.at = "write", !.seen = node] \in WorkerStates
      BY <1>6, <1>w DEF ReadNode, WorkerStates, TypeOK
    <3> QED BY <1>6, <3>1, MadeTypes DEF ReadNode, JobDone
  <2>2. repository' \subseteq Servers
    BY <1>6 DEF ReadNode, JobDone, TypeOK
  <2> QED BY <1>6, <2>1, <2>2 DEF ReadNode, TypeOK
<1>7. CASE WriteNode
  <2>1. repository' \subseteq Servers /\ worker' \in WorkerStates
    BY <1>7, MadeTypes DEF WriteNode, JobDone, TypeOK
  <2> QED BY <1>7, <2>1, WrittenType DEF WriteNode, TypeOK
<1>8. ASSUME Failed PROVE node' \in Nodes /\ worker' \in WorkerStates
  BY <1>8, WrittenType, MadeTypes DEF Failed, TypeOK
<1>9. CASE OperationTimeout
  <2>1. worker.at # "wait"
    BY <1>9 DEF OperationTimeout, Failed
  <2>2. jobs' \in [Servers -> Jobs] /\ leaked' \subseteq Servers
    BY <1>9, <1>w, <2>1, RetryType DEF OperationTimeout
  <2>3. timeouts' \in 0 .. MaxTimeouts
    BY <1>9, RetryAssumption DEF OperationTimeout, TypeOK
  <2>4. node' \in Nodes /\ worker' \in WorkerStates
    BY <1>8, <1>9 DEF OperationTimeout
  <2> QED BY <1>9, <2>2, <2>3, <2>4 DEF OperationTimeout, TypeOK
<1>10. CASE ConnectionLost
  BY <1>8, <1>10 DEF ConnectionLost, TypeOK
<1>11. CASE LeakDetector
  <2>1. \A s \in Servers : LeakedJob(s) \in Jobs
    BY MadeTypes DEF LeakedJob, TypeOK
  <2> QED BY <1>11, <2>1 DEF LeakDetector, TypeOK
<1>12. CASE ZkDisconnect
  <2>1. disconnects' \in 0 .. MaxDisconnects
    BY <1>12, RetryAssumption DEF ZkDisconnect, TypeOK
  <2> QED BY <1>12, <2>1 DEF ZkDisconnect, TypeOK
<1>13. CASE ZkExpire
  BY <1>13, MadeTypes DEF ZkExpire, TypeOK
<1>14. CASE ZkReconnect
  BY <1>14 DEF ZkReconnect, TypeOK
<1>15. ASSUME NEW s \in Servers, Resync(s) PROVE TypeOK'
  <2>1. [at |-> "job", server |-> s, code |-> status[s]] \in Events
    BY DEF TypeOK, Events
  <2>2. events' \in [Callers -> Events]
    BY <1>15, <2>1 DEF Resync, TypeOK
  <2> QED BY <1>15, <2>2 DEF Resync, TypeOK
<1>16. CASE UNCHANGED vars
  BY <1>16 DEF vars, TypeOK
<1>17. "duplex" \in Statuses /\ "closed" \in Statuses
  BY DEF Statuses
<1> QED BY <1>1, <1>2, <1>3, <1>4, <1>5, <1>6, <1>7, <1>9, <1>10, <1>11, <1>12, <1>13, <1>14,
           <1>15, <1>16, <1>17 DEF Next, WorkerNext, Performed, RunDuplex, Close

(***************************************************************************)
(* Events and jobs.                                                        *)
(***************************************************************************)

\* A status only moves from none to duplex to closed, and only in ChangeStatus.
LEMMA StatusStep ==
    ASSUME TypeOK, [Next]_vars
    PROVE  \/ UNCHANGED status
           \/ \E s \in Servers : ChangeStatus(s, "none", "duplex") \/ ChangeStatus(s, "duplex", "closed")
BY DEF Next, WorkerNext, Performed, RunDuplex, Close, EventJob, EventPoint, GetJob, UpdateOfClosed,
       ReadNode, WriteNode, ConnectionLost, OperationTimeout, LeakDetector, ZkDisconnect, ZkExpire,
       ZkReconnect, Resync, vars

\* A closed socket is closed for ever, one that has been connected stays so or closes.
LEMMA StatusMoves ==
    ASSUME TypeOK, [Next]_vars, NEW s \in Servers
    PROVE  /\ status[s] = "closed" => status'[s] = "closed"
           /\ status[s] # "none" => status'[s] # "none"
           /\ status'[s] = "duplex" => \/ status[s] = "duplex"
                                       \/ ChangeStatus(s, "none", "duplex")
BY StatusStep DEF ChangeStatus, TypeOK

\* Events, jobs and the repository keep to what has happened.
LEMMA EventsStep == TypeOK /\ EventsInv /\ KeptInv /\ [Next]_vars => EventsInv'
<1> SUFFICES ASSUME TypeOK, EventsInv, KeptInv, [Next]_vars PROVE EventsInv'
  OBVIOUS
<1>0. events \in [Callers -> Events] /\ status \in [Servers -> Statuses]
      /\ Servers \subseteq Callers /\ "watcher" \in Callers /\ "watcher" \notin Servers
      /\ repository \subseteq Servers /\ resync \subseteq Servers
  BY NoServerAssumption DEF TypeOK, Callers
<1>1. ASSUME NEW s \in Servers,
             ChangeStatus(s, "none", "duplex") \/ ChangeStatus(s, "duplex", "closed")
      PROVE  EventsInv'
  <2>1. /\ events'[s] = [at |-> "job", server |-> s, code |-> status'[s]]
        /\ status'[s] \in {"duplex", "closed"}
        /\ \A c \in Callers \ {s} : events'[c] = events[c]
        /\ \A t \in Servers \ {s} : status'[t] = status[t]
    BY <1>0, <1>1 DEF ChangeStatus, Event
  <2>2. ASSUME NEW c \in Callers, events'[c].at # "idle"
        PROVE  /\ events'[c].server \in Servers
               /\ \/ events'[c].code = "duplex" /\ status'[events'[c].server] # "none"
                  \/ events'[c].code = "closed" /\ status'[events'[c].server] = "closed"
    <3>1. CASE c = s
      BY <2>1, <3>1
    <3>2. CASE c # s
      BY <2>1, <2>2, <3>2, StatusMoves DEF EventsInv
    <3> QED BY <3>1, <3>2
  <2>3. ASSUME NEW t \in Servers, events'[t].at # "idle"
        PROVE  events'[t].server = t /\ events'[t].code = status'[t]
    BY <1>0, <2>1, <2>3 DEF EventsInv
  <2> QED BY <2>2, <2>3 DEF EventsInv
<1>2. ASSUME UNCHANGED status,
             \A c \in Callers : \/ events'[c] = events[c]
                                \/ events'[c] = [events[c] EXCEPT !.at = "point"] /\ events[c].at = "job"
                                \/ events'[c] = NoEvent
      PROVE  EventsInv'
  <2>1. ASSUME NEW c \in Callers, events'[c].at # "idle"
        PROVE  /\ events[c].at # "idle" /\ events'[c].server = events[c].server
               /\ events'[c].code = events[c].code
    <3>1. CASE events'[c] = events[c]
      BY <2>1, <3>1
    <3>2. CASE events'[c] = [events[c] EXCEPT !.at = "point"] /\ events[c].at = "job"
      <4>1. events[c] \in Events
        BY <1>0
      <4> QED BY <3>2, <4>1 DEF Events
    <3>3. CASE events'[c] = NoEvent
      BY <2>1, <3>3 DEF NoEvent
    <3> QED BY <1>2, <3>1, <3>2, <3>3
  <2> QED BY <1>0, <1>2, <2>1 DEF EventsInv
<1>3. ASSUME NEW s \in Servers, Resync(s) PROVE EventsInv'
  <2>1. /\ events'["watcher"] = [at |-> "job", server |-> s, code |-> status[s]]
        /\ \A c \in Callers \ {"watcher"} : events'[c] = events[c]
        /\ status[s] \in {"duplex", "closed"} /\ status' = status
    BY <1>0, <1>3 DEF Resync, KeptInv, Statuses
  <2> QED BY <1>0, <2>1 DEF EventsInv
<1>4. ASSUME NEW c \in Callers, Performed(c) PROVE EventsInv'
  BY <1>0, <1>2, <1>4 DEF Performed, EventJob, EventPoint
<1>5. CASE UNCHANGED <<status, events>>
  BY <1>2, <1>5
<1>6. CASE WorkerNext \/ OperationTimeout \/ LeakDetector \/ ZkDisconnect \/ ZkExpire \/ ZkReconnect
           \/ UNCHANGED vars
  BY <1>5, <1>6 DEF WorkerNext, GetJob, UpdateOfClosed, ReadNode, WriteNode, ConnectionLost,
       OperationTimeout, LeakDetector, ZkDisconnect, ZkExpire, ZkReconnect, vars
<1> QED BY <1>1, <1>3, <1>4, <1>6 DEF Next, RunDuplex, Close

\* Deletions stay about closed sockets, step by step.
LEMMA JobsStep == TypeOK /\ EventsInv /\ JobsInv /\ [Next]_vars => JobsInv'
<1> SUFFICES ASSUME TypeOK, EventsInv, JobsInv, [Next]_vars PROVE JobsInv'
  OBVIOUS
<1>0. jobs \in [Servers -> Jobs] /\ worker \in WorkerStates
  BY DEF TypeOK
<1>m. /\ DeleteJob.kind = "delete" /\ UpdateJob(MaxRetry).kind = "update" /\ NoJob.kind = "none"
      /\ [UpdateJob(1) EXCEPT !.retry = 1].kind = "update" /\ Waiting.at = "wait"
  BY DEF DeleteJob, UpdateJob, NoJob, Waiting
<1>w. ASSUME worker' = Waiting \/ worker' = worker,
             NEW t \in Servers, \A s \in Servers \ {t} : jobs'[s] = jobs[s],
             jobs'[t] = jobs[t] \/ jobs'[t].kind = "update" \/ jobs'[t] = NoJob
               \/ (jobs'[t].kind = "delete" /\ status[t] = "closed")
      PROVE  JobsInv'
  <2>1. ASSUME NEW s \in Servers
        PROVE  /\ jobs'[s].kind = "none" => jobs'[s] = NoJob
               /\ jobs'[s].kind = "delete" => status'[s] = "closed"
    BY <1>m, <1>w, StatusMoves DEF JobsInv
  <2>2. ASSUME worker'.at # "wait"
        PROVE  /\ worker'.server \in Servers /\ worker'.job.kind # "none"
               /\ worker'.job.kind = "delete" => status'[worker'.server] = "closed"
    BY <1>m, <1>w, <2>2, StatusMoves DEF JobsInv
  <2> QED BY <2>1, <2>2 DEF JobsInv
<1>1. ASSUME NEW c \in Callers, EventJob(c) PROVE JobsInv'
  BY <1>0, <1>1, <1>m, <1>w DEF EventJob, PutJob, EventsInv
<1>2. ASSUME NEW s \in Servers, GetJob(s) PROVE JobsInv'
  <2>1. jobs[s].kind # "none" /\ (jobs[s].kind = "delete" => status[s] = "closed")
    BY <1>2 DEF GetJob, JobsInv
  <2>2. worker'.server = s /\ worker'.job = jobs[s]
    BY <1>2 DEF GetJob, Waiting
  <2>3. UNCHANGED status /\ jobs'[s] = NoJob /\ \A t \in Servers \ {s} : jobs'[t] = jobs[t]
    BY <1>0, <1>2 DEF GetJob
  <2> QED BY <1>m, <2>1, <2>2, <2>3 DEF JobsInv
<1>3. CASE UpdateOfClosed
  <2>1. worker.server \in Servers /\ status[worker.server] = "closed"
    BY <1>3 DEF UpdateOfClosed, Outdated, JobsInv
  <2> QED BY <1>0, <1>3, <1>m, <1>w, <2>1 DEF UpdateOfClosed, PutJob
<1>4. ASSUME UNCHANGED jobs, worker' = Waiting PROVE JobsInv'
  <2>1. ASSUME NEW s \in Servers
        PROVE  /\ jobs'[s].kind = "none" => jobs'[s] = NoJob
               /\ jobs'[s].kind = "delete" => status'[s] = "closed"
    BY <1>4, StatusMoves DEF JobsInv
  <2> QED BY <1>4, <1>m, <2>1 DEF JobsInv
<1>5. ASSUME UNCHANGED jobs, worker.at # "wait", worker'.server = worker.server,
             worker'.job = worker.job
      PROVE  JobsInv'
  <2>1. ASSUME NEW s \in Servers
        PROVE  /\ jobs'[s].kind = "none" => jobs'[s] = NoJob
               /\ jobs'[s].kind = "delete" => status'[s] = "closed"
    BY <1>5, StatusMoves DEF JobsInv
  <2> QED BY <1>5, <2>1, StatusMoves DEF JobsInv
<1>6. ASSUME UNCHANGED <<jobs, worker>> PROVE JobsInv'
  <2>1. ASSUME NEW s \in Servers
        PROVE  /\ jobs'[s].kind = "none" => jobs'[s] = NoJob
               /\ jobs'[s].kind = "delete" => status'[s] = "closed"
    BY <1>6, StatusMoves DEF JobsInv
  <2> QED BY <1>5, <1>6, <2>1 DEF JobsInv
<1>7. CASE ReadNode
  BY <1>0, <1>4, <1>5, <1>7 DEF ReadNode, JobDone, WorkerStates
<1>8. CASE WriteNode \/ ConnectionLost
  BY <1>4, <1>8 DEF WriteNode, ConnectionLost, JobDone, Failed
<1>9. CASE OperationTimeout
  <2> DEFINE t == worker.server
  <2>1. t \in Servers /\ worker.job.kind # "none" /\ (worker.job.kind = "delete" => status[t] = "closed")
        /\ worker.job \in Jobs /\ worker' = Waiting
    BY <1>0, <1>9 DEF OperationTimeout, Failed, JobsInv, WorkerStates
  <2>2. \/ jobs'[t] = jobs[t]
        \/ jobs'[t].kind = worker.job.kind
    BY <1>0, <1>9, <2>1 DEF OperationTimeout, RetryJob, Jobs
  <2>3. \A s \in Servers \ {t} : jobs'[s] = jobs[s]
    BY <1>0, <1>9, <2>1 DEF OperationTimeout, RetryJob
  <2>4. worker.job.kind \in {"update", "delete"}
    BY <2>1 DEF Jobs
  <2> QED BY <1>w, <2>1, <2>2, <2>3, <2>4
<1>10. CASE LeakDetector
  <2>1. ASSUME NEW s \in Servers
        PROVE  /\ jobs'[s].kind = "none" => jobs'[s] = NoJob
               /\ jobs'[s].kind = "delete" => status[s] = "closed"
    BY <1>10, <1>m DEF LeakDetector, LeakedJob, JobsInv
  <2> QED BY <1>10, <2>1 DEF LeakDetector, JobsInv
<1>11. CASE ZkDisconnect \/ ZkExpire \/ ZkReconnect \/ UNCHANGED vars
            \/ (\E c \in Callers : EventPoint(c))
            \/ (\E s \in Servers : Resync(s) \/ RunDuplex(s) \/ Close(s))
  BY <1>6, <1>11 DEF ZkDisconnect, ZkExpire, ZkReconnect, vars, EventPoint, Resync, RunDuplex, Close,
                     ChangeStatus
<1> QED BY <1>1, <1>2, <1>3, <1>7, <1>8, <1>9, <1>10, <1>11 DEF Next, WorkerNext, Performed

\* What the repository and the watcher's list hold, and what a duplex socket is in, step by step.
LEMMA KeptStep == TypeOK /\ EventsInv /\ JobsInv /\ KeptInv /\ [Next]_vars => KeptInv'
<1> SUFFICES ASSUME TypeOK, EventsInv, JobsInv, KeptInv, [Next]_vars PROVE KeptInv'
  OBVIOUS
<1> SUFFICES ASSUME NEW s \in Servers
             PROVE  /\ s \in repository' \/ s \in resync' => status'[s] # "none"
                    /\ status'[s] = "duplex" => /\ events'[s].at = "job" \/ s \in repository'
                                                /\ events'[s].at # "idle" \/ s \in points'
  BY DEF KeptInv
<1>0. /\ events \in [Callers -> Events] /\ status \in [Servers -> Statuses]
      /\ Servers \subseteq Callers /\ "watcher" \notin Servers
      /\ events[s].at \in {"idle", "job", "point"}
  BY NoServerAssumption DEF TypeOK, Callers, Events
<1>k. /\ s \in repository \/ s \in resync => status[s] # "none"
      /\ status[s] = "duplex" => /\ events[s].at = "job" \/ s \in repository
                                 /\ events[s].at # "idle" \/ s \in points
      /\ status[s] # "none" => status'[s] # "none"
      /\ status[s] = "closed" => status'[s] = "closed"
  BY StatusMoves DEF KeptInv
<1>1. ASSUME NEW t \in Servers, NEW from, NEW to, ChangeStatus(t, from, to), to # "none"
      PROVE  /\ s \in repository' \/ s \in resync' => status'[s] # "none"
             /\ status'[s] = "duplex" => /\ events'[s].at = "job" \/ s \in repository'
                                         /\ events'[s].at # "idle" \/ s \in points'
  BY <1>0, <1>1, <1>k DEF ChangeStatus, Event
<1>2. ASSUME NEW c \in Callers, EventJob(c)
      PROVE  /\ s \in repository' \/ s \in resync' => status'[s] # "none"
             /\ status'[s] = "duplex" => /\ events'[s].at = "job" \/ s \in repository'
                                         /\ events'[s].at # "idle" \/ s \in points'
  <2>1. /\ events[c].server \in Servers /\ status[events[c].server] # "none"
        /\ repository' = repository \cup {events[c].server}
        /\ UNCHANGED <<resync, points, status>>
    BY <1>2 DEF EventJob, PutJob, EventsInv
  <2>2. CASE c = s
    <3>1. events'[s].at = "point" /\ events[s].server = s
      BY <1>0, <1>2, <2>2 DEF EventJob, EventsInv, Events
    <3> QED BY <1>k, <2>1, <2>2, <3>1
  <2>3. CASE c # s
    <3>1. events'[s] = events[s]
      BY <1>0, <1>2, <2>3 DEF EventJob
    <3> QED BY <1>k, <2>1, <3>1
  <2> QED BY <2>2, <2>3
<1>3. ASSUME NEW c \in Callers, EventPoint(c)
      PROVE  /\ s \in repository' \/ s \in resync' => status'[s] # "none"
             /\ status'[s] = "duplex" => /\ events'[s].at = "job" \/ s \in repository'
                                         /\ events'[s].at # "idle" \/ s \in points'
  <2>1. UNCHANGED <<repository, resync, status>>
    BY <1>3 DEF EventPoint
  <2>2. status[s] = "duplex" /\ s \in points => s \in points'
    BY <1>3 DEF EventPoint, EventsInv
  <2>3. CASE c = s
    <3>1. status[s] = "duplex" => s \in repository /\ s \in points'
      BY <1>3, <1>k, <2>3 DEF EventPoint, EventsInv
    <3> QED BY <1>k, <2>1, <3>1
  <2>4. CASE c # s
    <3>1. events'[s] = events[s]
      BY <1>0, <1>3, <2>4 DEF EventPoint
    <3> QED BY <1>k, <2>1, <2>2, <3>1
  <2> QED BY <2>3, <2>4
<1>4. CASE UpdateOfClosed
  <2>1. status[worker.server] = "closed"
    BY <1>4 DEF UpdateOfClosed, Outdated
  <2> QED BY <1>4, <1>k, <2>1 DEF UpdateOfClosed, PutJob
<1>5. CASE ReadNode \/ WriteNode
  <2>1. worker.at # "wait" /\ UNCHANGED <<status, events, resync, points>>
    BY <1>5 DEF ReadNode, WriteNode
  <2>2. repository' \subseteq repository /\ (s \notin repository' => s \notin repository \/ status[s] = "closed")
    BY <1>5, <2>1 DEF ReadNode, WriteNode, JobDone, JobsInv
  <2> QED BY <1>k, <2>1, <2>2
<1>6. CASE ZkReconnect
  BY <1>6, <1>k DEF ZkReconnect
<1>7. ASSUME NEW t \in Servers, Resync(t)
      PROVE  /\ s \in repository' \/ s \in resync' => status'[s] # "none"
             /\ status'[s] = "duplex" => /\ events'[s].at = "job" \/ s \in repository'
                                         /\ events'[s].at # "idle" \/ s \in points'
  BY <1>0, <1>7, <1>k DEF Resync
<1>8. CASE UNCHANGED <<status, events, repository, resync, points>>
  BY <1>8, <1>k
<1>9. CASE (\E t \in Servers : GetJob(t)) \/ ConnectionLost \/ OperationTimeout \/ LeakDetector
           \/ ZkDisconnect \/ ZkExpire \/ UNCHANGED vars
  BY <1>8, <1>9 DEF GetJob, ConnectionLost, OperationTimeout, LeakDetector, ZkDisconnect, ZkExpire, vars
<1> QED BY <1>1, <1>2, <1>3, <1>4, <1>5, <1>6, <1>7, <1>9
        DEF Next, WorkerNext, Performed, RunDuplex, Close

(***************************************************************************)
(* The node.                                                               *)
(***************************************************************************)

\* Only the worker and the end of the session change the node.
LEMMA NodeStep == TypeOK /\ JobsInv /\ NodeInv /\ [Next]_vars => NodeInv'
<1> SUFFICES ASSUME TypeOK, JobsInv, NodeInv, [Next]_vars PROVE NodeInv'
  OBVIOUS
<1>0. worker \in WorkerStates /\ node \in Nodes
  BY DEF TypeOK
<1>1. ASSUME worker' = Waiting, node' \in {node, Written} PROVE NodeInv'
  <2>1. ~node'.exists => node'.keys = {}
    BY <1>0, <1>1 DEF Written, Present, NodeInv
  <2> QED BY <1>1, <2>1 DEF Waiting, NodeInv
<1>2. ASSUME UNCHANGED <<node, worker>> PROVE NodeInv'
  BY <1>2 DEF NodeInv
<1>3. ASSUME NEW s \in Servers, GetJob(s) PROVE NodeInv'
  BY <1>3 DEF GetJob, Waiting, NodeInv
<1>4. CASE ReadNode
  <2>1. CASE worker' = Waiting
    BY <1>1, <1>4, <2>1 DEF ReadNode
  <2>2. CASE worker' = [worker EXCEPT !.at = "write", !.seen = node]
    <3>1. worker'.seen = node
      BY <1>0, <2>2 DEF WorkerStates
    <3> QED BY <1>4, <3>1 DEF ReadNode, NodeInv
  <2> QED BY <1>4, <2>1, <2>2 DEF ReadNode, JobDone
<1>5. CASE UpdateOfClosed \/ WriteNode \/ ConnectionLost \/ OperationTimeout
  BY <1>1, <1>5 DEF UpdateOfClosed, WriteNode, ConnectionLost, OperationTimeout, JobDone, Failed
<1>6. CASE ZkExpire
  BY <1>6 DEF ZkExpire, Absent, NodeInv
<1> QED BY <1>2, <1>3, <1>4, <1>5, <1>6
        DEF Next, WorkerNext, Performed, RunDuplex, Close, ChangeStatus, Resync, EventJob, EventPoint,
            LeakDetector, ZkDisconnect, ZkReconnect, vars

\* The worker's write leaves the entries of running sockets, and makes the one it is for.
LEMMA WrittenKeeps ==
    ASSUME TypeOK, JobsInv, NodeInv, NEW s \in Servers, Running(s), worker.at = "write"
    PROVE  /\ KeyOf[s] \in node.keys => KeyOf[s] \in Written.keys
           /\ Pending(s) /\ worker.server = s /\ worker.job.kind = "update"
                /\ worker.seen.exists = node.exists => KeyOf[s] \in Written.keys
<1>0. /\ worker \in WorkerStates /\ node \in Nodes /\ worker.seen \in Nodes
      /\ worker.job.kind \in {"update", "delete"} /\ worker.server \in Servers
  BY DEF TypeOK, WorkerStates, JobsInv, Jobs
<1>1. worker.job.kind = "delete" => KeyOf[worker.server] # KeyOf[s]
  <2>1. worker.job.kind = "delete" => status[worker.server] = "closed"
    BY DEF JobsInv
  <2> QED BY <1>0, <2>1 DEF Running, Others
<1>2. node.exists => worker.seen = node
  BY DEF NodeInv
<1>3. ~node.exists => node.keys = {}
  BY DEF NodeInv
<1> QED BY <1>0, <1>1, <1>2, <1>3 DEF Written, Present

\* A socket that is running was running before or has just been connected.
LEMMA RunningBefore ==
    ASSUME TypeOK, [Next]_vars, NEW s \in Servers, Running(s)'
    PROVE  Running(s) \/ ChangeStatus(s, "none", "duplex")
<1>1. \A o \in Others(s) : status[o] # "closed"
  BY StatusMoves DEF Running, Others
<1>2. status'[s] = "duplex"
  BY DEF Running
<1> QED BY <1>1, <1>2, StatusMoves DEF Running

\* Whatever takes an update away has carried it out, or leaves another one.
LEMMA RegisterStep == IInv /\ [Next]_vars => RegisterInv'
<1> SUFFICES ASSUME IInv, [Next]_vars, zkConnected',
                    NEW s \in Servers, Running(s)', KeyOf[s] \notin node'.keys
             PROVE  Pending(s)'
  BY DEF RegisterInv
<1>0. /\ TypeOK /\ EventsInv /\ JobsInv /\ KeptInv /\ NodeInv
      /\ jobs \in [Servers -> Jobs] /\ events \in [Callers -> Events] /\ worker \in WorkerStates
      /\ s \in Callers /\ "watcher" \in Callers /\ leaked \subseteq Servers
  BY DEF IInv, TypeOK, Callers
<1>m. UpdateJob(MaxRetry).kind = "update" /\ [UpdateJob(1) EXCEPT !.retry = 1].kind = "update"
  BY DEF UpdateJob
<1>1. CASE ChangeStatus(s, "none", "duplex")
  <2>1. events'[s] = [at |-> "job", server |-> s, code |-> "duplex"]
    BY <1>0, <1>1 DEF ChangeStatus, Event, TypeOK
  <2> QED BY <1>0, <2>1 DEF Pending
<1> SUFFICES ASSUME Running(s) PROVE Pending(s)'
  BY <1>0, <1>1, RunningBefore
<1>s. status[s] = "duplex"
  BY DEF Running
<1>2. CASE ZkReconnect
  <2>1. CASE events[s].at = "job"
    BY <1>0, <1>2, <1>s, <2>1 DEF ZkReconnect, Pending, EventsInv
  <2>2. CASE s \in repository
    BY <1>2, <2>2 DEF ZkReconnect, Pending
  <2> QED BY <1>0, <1>s, <2>1, <2>2 DEF KeptInv
<1>k. ASSUME UNCHANGED zkConnected, KeyOf[s] \in node.keys => KeyOf[s] \in node'.keys
      PROVE  Pending(s)
  BY <1>k DEF IInv, RegisterInv
<1>3. ASSUME NEW t \in Servers, NEW from, NEW to, ChangeStatus(t, from, to) PROVE Pending(s)'
  <2>1. Pending(s) /\ t \in Callers
    BY <1>3, <1>k DEF ChangeStatus, Callers
  <2>2. ASSUME NEW c \in Callers, events[c].at = "job" PROVE events'[c] = events[c]
    BY <1>0, <1>3, <2>2 DEF ChangeStatus, NoEvent
  <2> QED BY <1>3, <2>1, <2>2 DEF ChangeStatus, Pending
<1>4. ASSUME NEW t \in Servers, Resync(t) PROVE Pending(s)'
  <2>1. Pending(s)
    BY <1>4, <1>k DEF Resync
  <2>2. CASE t = s
    <3>1. events'["watcher"] = [at |-> "job", server |-> s, code |-> "duplex"]
      BY <1>0, <1>4, <1>s, <2>2 DEF Resync
    <3> QED BY <1>0, <3>1 DEF Pending
  <2>3. CASE t # s
    <3>1. ASSUME NEW c \in Callers, events[c].at = "job" PROVE events'[c] = events[c]
      BY <1>0, <1>4, <3>1 DEF Resync, NoEvent
    <3> QED BY <1>4, <2>1, <2>3, <3>1 DEF Resync, Pending
  <2> QED BY <2>2, <2>3
<1>5. ASSUME NEW c \in Callers, EventJob(c) PROVE Pending(s)'
  <2>1. Pending(s)
    BY <1>5, <1>k DEF EventJob
  <2>2. CASE events[c].server = s
    <3>1. events[c].code = "duplex"
      BY <1>0, <1>5, <1>s, <2>2 DEF EventJob, EventsInv
    <3>2. jobs'[s].kind = "update"
      BY <1>0, <1>5, <1>m, <2>2, <3>1 DEF EventJob, PutJob
    <3> QED BY <3>2 DEF Pending
  <2>3. CASE events[c].server # s
    <3>1. jobs'[s] = jobs[s]
      BY <1>0, <1>5, <2>3 DEF EventJob, PutJob
    <3>2. ASSUME NEW d \in Callers, events[d].server = s PROVE events'[d] = events[d]
      BY <1>0, <1>5, <2>3, <3>2 DEF EventJob
    <3> QED BY <1>5, <2>1, <3>1, <3>2 DEF EventJob, Pending
  <2> QED BY <2>2, <2>3
<1>6. ASSUME NEW c \in Callers, EventPoint(c) PROVE Pending(s)'
  <2>1. Pending(s)
    BY <1>6, <1>k DEF EventPoint
  <2>2. ASSUME NEW d \in Callers, events[d].at = "job" PROVE events'[d] = events[d]
    BY <1>0, <1>6, <2>2 DEF EventPoint
  <2> QED BY <1>6, <2>1, <2>2 DEF EventPoint, Pending
<1>7. ASSUME NEW t \in Servers, GetJob(t) PROVE Pending(s)'
  <2>1. Pending(s) /\ worker.at = "wait"
    BY <1>7, <1>k DEF GetJob
  <2>2. CASE t = s
    <3>1. worker'.at = "run" /\ worker'.server = s /\ worker'.job = jobs[s]
      BY <1>7, <2>2 DEF GetJob, Waiting
    <3> QED BY <1>7, <2>1, <3>1 DEF GetJob, Pending
  <2>3. CASE t # s
    <3>1. jobs'[s] = jobs[s]
      BY <1>0, <1>7, <2>3 DEF GetJob
    <3> QED BY <1>7, <2>1, <3>1 DEF GetJob, Pending
  <2> QED BY <2>2, <2>3
<1>8. CASE UpdateOfClosed
  <2>1. Pending(s) /\ worker.server # s
    BY <1>8, <1>k, <1>s DEF UpdateOfClosed, Outdated
  <2>2. jobs'[s] = jobs[s]
    BY <1>0, <1>8, <2>1 DEF UpdateOfClosed, PutJob
  <2> QED BY <1>8, <2>1, <2>2 DEF UpdateOfClosed, Pending
<1>9. CASE ReadNode
  <2>1. Pending(s)
    BY <1>9, <1>k DEF ReadNode
  <2>2. CASE worker' = [worker EXCEPT !.at = "write", !.seen = node]
    <3>1. worker'.at = "write" /\ worker'.server = worker.server /\ worker'.job = worker.job
          /\ worker'.seen = node
      BY <1>0, <2>2 DEF WorkerStates
    <3> QED BY <1>9, <2>1, <3>1 DEF ReadNode, Pending
  <2>3. CASE worker.job.kind = "delete"
    BY <1>9, <2>1, <2>3 DEF ReadNode, Pending
  <2> QED BY <1>9, <2>2, <2>3 DEF ReadNode
<1>10. ASSUME worker.at = "write", node' = Written, UNCHANGED zkConnected
       PROVE  Pending(s) /\ ~(worker.server = s /\ worker.job.kind = "update"
                                /\ worker.seen.exists = node.exists)
  <2>1. Pending(s)
    BY <1>0, <1>k, <1>10, WrittenKeeps
  <2> QED BY <1>0, <1>10, <2>1, WrittenKeeps
<1>11. CASE WriteNode
  <2>1. /\ Pending(s) /\ worker.at = "write"
        /\ ~(worker.server = s /\ worker.job.kind = "update" /\ worker.seen.exists = node.exists)
    BY <1>10, <1>11 DEF WriteNode
  <2> QED BY <1>11, <2>1 DEF WriteNode, Pending
<1>12. CASE OperationTimeout
  <2> DEFINE job == worker.job
  <2>0. job \in Jobs /\ worker.server \in Servers /\ worker.at # "wait"
    BY <1>0, <1>12 DEF OperationTimeout, Failed, JobsInv, WorkerStates
  <2>1. Pending(s)
    BY <1>10, <1>12, <1>k DEF OperationTimeout, Failed
  <2>2. CASE worker.server = s /\ job.kind = "update"
    <3>1. jobs[s] # NoJob => jobs[s].kind = "update"
      BY <1>0, <1>s DEF JobsInv, Jobs
    <3>2. [job EXCEPT !.retry = @ + 1].kind = "update"
      BY <2>0, <2>2 DEF Jobs
    <3>3. jobs'[s].kind = "update" \/ s \in leaked'
      BY <1>0, <1>12, <2>2, <3>1, <3>2 DEF OperationTimeout, RetryJob
    <3> QED BY <3>3 DEF Pending
  <2>3. CASE ~(worker.server = s /\ job.kind = "update")
    <3>1. ASSUME jobs[s] # NoJob \/ worker.server # s PROVE jobs'[s] = jobs[s]
      BY <1>0, <1>12, <2>0, <3>1 DEF OperationTimeout, RetryJob
    <3>2. jobs[s].kind = "update" => jobs'[s].kind = "update"
      BY <3>1 DEF NoJob
    <3>3. leaked \subseteq leaked'
      BY <1>12 DEF OperationTimeout, RetryJob
    <3> QED BY <1>12, <2>1, <2>3, <3>2, <3>3 DEF OperationTimeout, Pending
  <2> QED BY <2>2, <2>3
<1>13. CASE LeakDetector
  <2>1. Pending(s) /\ worker.at = "wait"
    BY <1>13, <1>k DEF LeakDetector
  <2>2. jobs'[s] = LeakedJob(s)
    BY <1>13 DEF LeakDetector
  <2>3. CASE s \in leaked /\ jobs[s] = NoJob
    <3>1. jobs'[s].kind = "update"
      BY <1>m, <1>s, <2>2, <2>3 DEF LeakedJob
    <3> QED BY <3>1 DEF Pending
  <2>4. CASE ~(s \in leaked /\ jobs[s] = NoJob)
    <3>1. jobs'[s] = jobs[s]
      BY <1>s, <2>2, <2>4 DEF LeakedJob
    <3>2. s \in leaked => jobs[s].kind = "update"
      BY <1>0, <1>s, <2>4 DEF JobsInv, Jobs
    <3> QED BY <1>13, <2>1, <3>1, <3>2 DEF LeakDetector, Pending
  <2> QED BY <2>3, <2>4
<1>14. CASE ConnectionLost \/ ZkDisconnect \/ ZkExpire
  BY <1>14 DEF ConnectionLost, ZkDisconnect, ZkExpire
<1>15. CASE UNCHANGED vars
  BY <1>15, <1>k DEF vars, Pending
<1> QED BY <1>2, <1>3, <1>4, <1>5, <1>6, <1>7, <1>8, <1>9, <1>11, <1>12, <1>13, <1>14, <1>15
        DEF IInv, Next, WorkerNext, Performed, RunDuplex, Close

(***************************************************************************)
(* The theorems.                                                           *)
(***************************************************************************)

\* The conjunction holds for ever.
LEMMA Inductive == Spec => []IInv
<1>1. Init => IInv
  <2> SUFFICES ASSUME Init PROVE IInv
    OBVIOUS
  <2>1. TypeOK
    BY MadeTypes, RetryAssumption DEF Init, TypeOK, Statuses
  <2>2. EventsInv /\ JobsInv /\ KeptInv
    BY DEF Init, EventsInv, JobsInv, KeptInv, NoEvent, NoJob, Waiting, Callers
  <2>3. NodeInv /\ RegisterInv
    BY DEF Init, NodeInv, RegisterInv, Running, Waiting, Absent
  <2> QED BY <2>1, <2>2, <2>3 DEF IInv
<1>2. IInv /\ [Next]_vars => IInv'
  BY TypeStep, EventsStep, JobsStep, KeptStep, NodeStep, RegisterStep DEF IInv
<1> QED BY <1>1, <1>2, PTL DEF Spec

\* The state of the worker and of the node keeps its type, in particular no job is tried
\* more often than it may be, for any number of sockets and failures.
THEOREM ClusterTypes == Spec => []TypeOK
BY Inductive, PTL DEF IInv

\* A connected socket stays known to the worker and routable, for any number of sockets,
\* of the same agent or others.
THEOREM AlwaysKept == Spec => []RepositoryKept
<1>1. IInv => RepositoryKept
  BY DEF IInv, KeptInv, RepositoryKept, NoEvent
<1> QED BY <1>1, Inductive, PTL

\* At rest a connected agent none of whose sockets has closed is in the node, after any
\* number of timeouts, lost connections and expired sessions.
THEOREM AlwaysRegistered == Spec => []RunRegistered
<1>1. IInv => RunRegistered
  <2> SUFFICES ASSUME IInv, Quiet, NEW s \in Servers, Running(s) PROVE KeyOf[s] \in node.keys
    BY DEF RunRegistered, Running
  <2>1. ~Pending(s)
    BY DEF Quiet, Pending, NoEvent, NoJob, Waiting
  <2> QED BY <2>1 DEF IInv, RegisterInv, Quiet
<1> QED BY <1>1, Inductive, PTL
=============================================================================
