------------------------------ MODULE JobQueue ------------------------------
(***************************************************************************)
(* The production queue as queue/index.ts configures BullMQ: one job per   *)
(* id, an add with a known id is a no-op, a completed job is removed       *)
(* (removeOnComplete), a failed one is kept (removeOnFail: the last 5000)  *)
(* and nobody retries it (attempts is left at 1).  A worker owns a job     *)
(* while it renews the job's lock; a job whose lock ran out has stalled    *)
(* and is given to another worker once, and failed the second time.        *)
(*                                                                         *)
(* The module has operators only: the components that use the queue say    *)
(* when they happen.                                                       *)
(***************************************************************************)
EXTENDS Naturals

CONSTANT JobIds

VARIABLES
    jobs,   \* what the queue knows of each id
    stalls  \* how often its present job has stalled

JobStates == {"unknown", "delayed", "waiting", "active", "failed"}

QueueTypes ==
    /\ jobs \in [JobIds -> JobStates]
    /\ stalls \in [JobIds -> {0, 1}]

QueueInit ==
    /\ jobs = [j \in JobIds |-> "unknown"]
    /\ stalls = [j \in JobIds |-> 0]

Known(j) == jobs[j] # "unknown"

Put(j, s) == jobs' = [jobs EXCEPT ![j] = s] /\ UNCHANGED stalls

Add(j)        == IF Known(j) THEN UNCHANGED <<jobs, stalls>> ELSE Put(j, "waiting")
AddDelayed(j) == IF Known(j) THEN UNCHANGED <<jobs, stalls>> ELSE Put(j, "delayed")

Promote(j) == jobs[j] = "delayed" /\ Put(j, "waiting")
Take(j)    == jobs[j] = "waiting" /\ Put(j, "active")

\* The job is forgotten: completed, evicted from the failed tail, or lost.
Forget(j) ==
    /\ jobs' = [jobs EXCEPT ![j] = "unknown"]
    /\ stalls' = [stalls EXCEPT ![j] = 0]

Complete(j) == jobs[j] = "active" /\ Forget(j)
Fail(j)     == jobs[j] = "active" /\ Put(j, "failed")
Evict(j)    == jobs[j] = "failed" /\ Forget(j)
Lose(j)     == jobs[j] \in {"delayed", "waiting"} /\ Forget(j)

Stall(j) ==
    /\ jobs[j] = "active"
    /\ IF stalls[j] = 0
       THEN /\ jobs' = [jobs EXCEPT ![j] = "waiting"]
            /\ stalls' = [stalls EXCEPT ![j] = 1]
       ELSE Put(j, "failed")

=============================================================================
