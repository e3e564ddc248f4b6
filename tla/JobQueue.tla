------------------------------ MODULE JobQueue ------------------------------
(***************************************************************************)
(* BullMQ as the workers use it (packages/queue/src/queues.ts and the      *)
(* Worker options of the services).  A job has a deterministic id, waits,  *)
(* is handed to one worker together with a lock, and ends completed or     *)
(* failed.  The lock of a dead or frozen worker expires: the job stalls,   *)
(* goes to another worker, and whatever the first one does afterwards no   *)
(* longer counts for the queue.                                            *)
(***************************************************************************)
EXTENDS Naturals

CONSTANTS
  Jobs,         \* job ids
  Workers,      \* worker slots, over all pods
  None,
  MaxAttempts,  \* job attempts before BullMQ fails the job
  MaxStalls     \* stalls a job survives (maxStalledCount)

VARIABLE
  job           \* state, lock holder, attempts, stalls, deliveries of every job

JobRecord == [ state : {"absent", "waiting", "active", "done", "failed"},
               holder : Workers \cup {None},
               attempts : Nat, stalls : Nat, deliveries : Nat ]

\* A job as the relay's d-th delivery adds it, or one never added.
NewJob(s, d) ==
  [state |-> s, holder |-> None, attempts |-> 0, stalls |-> 0, deliveries |-> d]

\* A worker is handed a waiting job and its lock.
JobTaken(w, k) ==
  /\ job[k].state = "waiting"
  /\ job' = [job EXCEPT ![k] = [@ EXCEPT !.state = "active", !.holder = w]]

\* The handler returned: BullMQ completes the job, if this worker still holds it.
JobCompletes(w) ==
  job' = [k \in Jobs |-> IF job[k].holder = w
                           THEN [job[k] EXCEPT !.state = "done", !.holder = None]
                           ELSE job[k]]

RetryState(attempts) == IF attempts < MaxAttempts THEN "waiting" ELSE "failed"

\* The handler threw: BullMQ counts the attempt and reschedules or fails the job.
JobRetries(w) ==
  job' = [k \in Jobs |-> IF job[k].holder = w
                           THEN [job[k] EXCEPT !.state = RetryState(job[k].attempts + 1),
                                               !.attempts = @ + 1, !.holder = None]
                           ELSE job[k]]

\* The handler never returned: the job stays active, without a live holder.
JobOrphaned(w) ==
  job' = [k \in Jobs |-> IF job[k].holder = w THEN [job[k] EXCEPT !.holder = None] ELSE job[k]]

\* The lock of an active job expired, because its holder died or froze.
JobStalls(k) ==
  /\ job[k].state = "active"
  /\ job' = [job EXCEPT ![k].state = IF job[k].stalls < MaxStalls THEN "waiting" ELSE "failed",
                        ![k].holder = None, ![k].stalls = @ + 1]

\* At-least-once delivery: a job that completed and was removed is added again.  While
\* a job with its id exists, completed or failed, BullMQ ignores another add.
JobAddedAgain(k) ==
  /\ job[k].state = "done"
  /\ job' = [job EXCEPT ![k] = NewJob("waiting", job[k].deliveries + 1)]
=============================================================================
