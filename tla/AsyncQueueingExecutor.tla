----------------------- MODULE AsyncQueueingExecutor -----------------------
(***************************************************************************)
(* The bounded queue in front of every data sender of the profiler and the *)
(* thread that empties it.  Callers put data in without a lock; stop makes *)
(* the thread leave its loop and send what is still there.                 *)
(***************************************************************************)
EXTENDS Naturals, Sequences

CONSTANTS Data,      \* what callers hand over, each once
          QueueSize,
          MaxDrain   \* maxDrainSize

ASSUME SizesAssumption == QueueSize \in Nat \ {0} /\ MaxDrain \in Nat \ {0}

VARIABLES isRun,
          caller,   \* where the call of execute for this data is
          queue,
          loop,     \* the next step of executeThread
          batch     \* what it has taken and not yet sent

executorVars == <<isRun, caller, queue, loop, batch>>

CallerSteps == {"new", "running", "accepted", "refused"}
LoopSteps   == {"check", "drain", "recheck", "poll", "flush", "ended"}

ExecutorTypeOK ==
    /\ isRun \in BOOLEAN
    /\ caller \in [Data -> CallerSteps]
    /\ queue \in Seq(Data)
    /\ loop \in LoopSteps
    /\ batch \in Seq(Data)

ExecutorInit ==
    /\ isRun = TRUE
    /\ caller = [d \in Data |-> "new"]
    /\ queue = <<>>
    /\ loop = "check"
    /\ batch = <<>>

-----------------------------------------------------------------------------
\* execute looks at the flag first and offers the data later.
Execute(d) ==
    /\ caller[d] = "new"
    /\ caller' = [caller EXCEPT ![d] = IF isRun THEN "running" ELSE "refused"]
    /\ UNCHANGED <<isRun, queue, loop, batch>>

Offer(d) ==
    /\ caller[d] = "running"
    /\ IF Len(queue) < QueueSize
       THEN queue' = Append(queue, d) /\ caller' = [caller EXCEPT ![d] = "accepted"]
       ELSE UNCHANGED queue /\ caller' = [caller EXCEPT ![d] = "refused"]
    /\ UNCHANGED <<isRun, loop, batch>>

\* doExecute: isRun before drainTo, and again before each poll.
CheckRun ==
    /\ batch = <<>>
    /\ \/ loop = "check" /\ loop' = IF isRun THEN "drain" ELSE "flush"
       \/ loop = "recheck" /\ loop' = IF isRun THEN "poll" ELSE "flush"
    /\ UNCHANGED <<isRun, caller, queue, batch>>

\* drainTo
TakeN(n) == LET k == IF Len(queue) < n THEN Len(queue) ELSE n IN
            /\ batch' = SubSeq(queue, 1, k)
            /\ queue' = SubSeq(queue, k + 1, Len(queue))

Drain ==
    /\ loop = "drain" /\ batch = <<>>
    /\ TakeN(MaxDrain)
    /\ loop' = IF queue = <<>> THEN "recheck" ELSE "check"
    /\ UNCHANGED <<isRun, caller>>

\* poll returns without data when its time is up, or by stop's interrupt.
Poll ==
    /\ loop = "poll"
    /\ TakeN(1)
    /\ loop' = IF queue = <<>> THEN "recheck" ELSE "check"
    /\ UNCHANGED <<isRun, caller>>

\* Mutant: one batch is flushed instead of all.
FlushOnce ==
    /\ loop = "flush" /\ batch = <<>>
    /\ TakeN(MaxDrain)
    /\ loop' = "ended"
    /\ UNCHANGED <<isRun, caller>>
FlushQueue ==
    /\ loop = "flush" /\ batch = <<>>
    /\ TakeN(MaxDrain)
    /\ loop' = IF queue = <<>> THEN "ended" ELSE "flush"
    /\ UNCHANGED <<isRun, caller>>

StopExecutor ==
    /\ isRun
    /\ isRun' = FALSE
    /\ UNCHANGED <<caller, queue, loop, batch>>

\* A step of executeThread between two data.
ExecuteThread == CheckRun \/ Drain \/ Poll \/ FlushQueue
=============================================================================
