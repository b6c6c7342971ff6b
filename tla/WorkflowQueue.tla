--------------------------- MODULE WorkflowQueue ---------------------------
(***************************************************************************)
(* The due-queue of the workflow worker: table payflow_workflow_jobs, the  *)
(* sweep of each worker process (reclaim stale locks, claim due rows, hand *)
(* them to a thread pool) and the thread that runs one claimed job.        *)
(*                                                                         *)
(* A step is one database transaction, or one step of a pool thread.  The  *)
(* claimed ids live only in the memory of the process that claimed them    *)
(* (`claims'), so a crash loses them while the rows stay `running'.        *)
(*                                                                         *)
(* Time is relative: due[j] counts the ticks left until scheduled_at and   *)
(* lockAge[j] the ticks since locked_at, saturated one past StaleTicks, so *)
(* no clock grows without bound.                                           *)
(***************************************************************************)
EXTENDS Integers, FiniteSets

CONSTANTS
  Jobs,          \* ids of the rows of payflow_workflow_jobs
  Workers,       \* worker processes
  Runs,          \* workflow runs that own jobs
  RunOf,         \* RunOf[j]: run_id of job j
  Prio,          \* Prio[j]: priority of job j, the lower the sooner
  MaxAttempts,   \* column max_attempts (5)
  StaleTicks,    \* WORKFLOW_WORKER_STALE_SECONDS
  BackoffTicks,  \* the 60 seconds of mark_job_failed
  MaxDelay,      \* bound: the furthest scheduled_at an enqueue asks for
  Batch,         \* WORKFLOW_WORKER_BATCH_SIZE
  Concurrency,   \* threads of one worker's pool
  Overrun,       \* may a claimed job outlive the stale window?
  MaxClaims,     \* bound: claims of one job
  MaxFaults      \* bound: crashes, stops and database errors altogether

ASSUME QueueAssumption ==
  /\ RunOf \in [Jobs -> Runs]
  /\ Prio \in [Jobs -> Nat]
  /\ MaxAttempts \in Nat \ {0}
  /\ StaleTicks \in Nat \ {0}
  /\ BackoffTicks \in Nat
  /\ MaxDelay \in Nat
  /\ Batch \in Nat \ {0}
  /\ Concurrency \in Nat \ {0}
  /\ Overrun \in BOOLEAN
  /\ MaxClaims \in Nat \ {0}
  /\ MaxFaults \in Nat

VARIABLES
  status,     \* status[j]: column status, "none" before the insert
  attempts,   \* attempts[j]: column attempts
  due,        \* due[j]: ticks until scheduled_at
  lockedBy,   \* lockedBy[j]: column locked_by
  lockAge,    \* lockAge[j]: ticks since locked_at of a running row
  claims,     \* claimed job ids held in the memory of the workers
  loop,       \* loop[w]: where the sweep of worker w is
  cancelling, \* cancelling[r]: rows an open transaction read to cancel
  faults,     \* crashes, stops and database errors so far
  effects,    \* history: attempts at j that committed something of their own
  torn,       \* history: attempts at j that raised after such a commit
  reclaims,   \* history: times j was reclaimed
  markErrors, \* history: times mark_job_done of j raised
  overran     \* history: did a claim of j outlive the stale window?

row     == <<status, attempts, due, lockedBy, lockAge>>
history == <<effects, torn, reclaims, markErrors, overran>>
vars    == <<row, claims, loop, cancelling, faults, history>>

Status   == {"none", "pending", "running", "done", "failed", "cancelled"}
Finished == {"done", "failed", "cancelled"}
NoWorker == "nobody"

(* queued: submitted, no thread yet; running: process_job is in the        *)
(* handler; partway: in the handler, which has committed a transaction;    *)
(* returned: the handler ran to its end; raised: in process_job's except   *)
(* branch.                                                                 *)
Phase == {"queued", "running", "partway", "returned", "raised"}
InHandler == {"running", "partway"}
Claim == [job: Jobs, attempt: 1..MaxClaims, worker: Workers, phase: Phase]

TypeOK ==
  /\ status \in [Jobs -> Status]
  /\ attempts \in [Jobs -> 0..MaxClaims]
  /\ due \in [Jobs -> Nat]
  /\ lockedBy \in [Jobs -> Workers \cup {NoWorker}]
  /\ lockAge \in [Jobs -> 0..(StaleTicks + 1)]
  /\ claims \in SUBSET Claim
  /\ loop \in [Workers -> {"sweep", "claim", "stopped"}]
  /\ cancelling \in [Runs -> SUBSET Jobs]
  /\ faults \in 0..MaxFaults
  /\ effects \in [Jobs -> Nat]
  /\ torn \in [Jobs -> Nat]
  /\ reclaims \in [Jobs -> Nat]
  /\ markErrors \in [Jobs -> Nat]
  /\ overran \in [Jobs -> BOOLEAN]

Init ==
  /\ status = [j \in Jobs |-> "none"]
  /\ attempts = [j \in Jobs |-> 0]
  /\ due = [j \in Jobs |-> 0]
  /\ lockedBy = [j \in Jobs |-> NoWorker]
  /\ lockAge = [j \in Jobs |-> 0]
  /\ claims = {}
  /\ loop = [w \in Workers |-> "sweep"]
  /\ cancelling = [r \in Runs |-> {}]
  /\ faults = 0
  /\ effects = [j \in Jobs |-> 0]
  /\ torn = [j \in Jobs |-> 0]
  /\ reclaims = [j \in Jobs |-> 0]
  /\ markErrors = [j \in Jobs |-> 0]
  /\ overran = [j \in Jobs |-> FALSE]

-----------------------------------------------------------------------------
(* Producers *)

(* A request or a handler inserts a pending row, now or in the future.     *)
EnqueueJob(j, delay) ==
  /\ status[j] = "none"
  /\ status' = [status EXCEPT ![j] = "pending"]
  /\ due' = [due EXCEPT ![j] = delay]
  /\ UNCHANGED <<attempts, lockedBy, lockAge, claims, loop, cancelling, faults,
                 history>>

(* cancel_pending_jobs_for_run reads the pending rows of a run ...         *)
CancelRead(r) ==
  LET pending == {j \in Jobs : RunOf[j] = r /\ status[j] = "pending"}
  IN  /\ cancelling[r] = {}
      /\ pending # {}
      /\ cancelling' = [cancelling EXCEPT ![r] = pending]
      /\ UNCHANGED <<row, claims, loop, faults, history>>

(* ... and its caller commits later: UPDATE ... WHERE id, whatever the row *)
(* has become meanwhile.                                                   *)
CancelCommit(r) ==
  /\ cancelling[r] # {}
  /\ status' = [j \in Jobs |-> IF j \in cancelling[r] THEN "cancelled"
                                                      ELSE status[j]]
  /\ cancelling' = [cancelling EXCEPT ![r] = {}]
  /\ UNCHANGED <<attempts, due, lockedBy, lockAge, claims, loop, faults, history>>

-----------------------------------------------------------------------------
(* The sweep of a worker: _drain_due *)

LockedFor(n) == {j \in Jobs : status[j] = "running" /\ lockAge[j] > n}

\* mutants: the cutoff comes one tick early, or never
StaleTooEarly == LockedFor(StaleTicks - 1)
StaleNever    == LockedFor(StaleTicks + 1)

Stale == LockedFor(StaleTicks)

ReclaimStaleRunningJobs(w) ==
  /\ loop[w] = "sweep"
  /\ loop' = [loop EXCEPT ![w] = "claim"]
  /\ status' = [j \in Jobs |-> IF j \in Stale THEN "pending" ELSE status[j]]
  /\ lockedBy' = [j \in Jobs |-> IF j \in Stale THEN NoWorker ELSE lockedBy[j]]
  /\ due' = [j \in Jobs |-> IF j \in Stale THEN 0 ELSE due[j]]
  /\ reclaims' = [j \in Jobs |-> IF j \in Stale THEN reclaims[j] + 1
                                                ELSE reclaims[j]]
  /\ lockAge' = [j \in Jobs |-> IF j \in Stale THEN 0 ELSE lockAge[j]]
  /\ UNCHANGED <<attempts, claims, cancelling, faults, effects, torn,
                 markErrors, overran>>

DueIn(S) == {j \in Jobs : /\ status[j] \in S
                          /\ due[j] = 0
                          /\ attempts[j] < MaxClaims}

\* mutant: the claim forgets to filter on the status
DueOrRunning == DueIn({"pending", "running"})

Due == DueIn({"pending"})

(* The batch: as many due rows as fit, none passed over for one with a     *)
(* larger priority number.                                                 *)
IsBatch(S) ==
  /\ S \subseteq Due
  /\ \/ S = Due
     \/ Cardinality(S) = Batch
  /\ Cardinality(S) <= Batch
  /\ \A j \in S, k \in Due \ S : Prio[j] <= Prio[k]

NewClaim(j, w) ==
  [job |-> j, attempt |-> attempts[j] + 1, worker |-> w, phase |-> "queued"]

ClaimDueJobs(w, S) ==
  /\ loop[w] = "claim"
  /\ IsBatch(S)
  /\ loop' = [loop EXCEPT ![w] = "sweep"]
  /\ status' = [j \in Jobs |-> IF j \in S THEN "running" ELSE status[j]]
  /\ lockedBy' = [j \in Jobs |-> IF j \in S THEN w ELSE lockedBy[j]]
  /\ lockAge' = [j \in Jobs |-> IF j \in S THEN 0 ELSE lockAge[j]]
  /\ attempts' = [j \in Jobs |-> IF j \in S THEN attempts[j] + 1
                                            ELSE attempts[j]]
  /\ claims' = claims \cup {NewClaim(j, w) : j \in S}
  /\ UNCHANGED <<due, cancelling, faults, history>>

-----------------------------------------------------------------------------
(* A thread of the pool: process_job *)

Busy(w) == {c \in claims : c.worker = w /\ c.phase # "queued"}

Advance(c, phase) == claims' = (claims \ {c}) \cup {[c EXCEPT !.phase = phase]}

PoolStart(c) ==
  /\ c.phase = "queued"
  /\ Cardinality(Busy(c.worker)) < Concurrency
  /\ Advance(c, "running")
  /\ UNCHANGED <<row, loop, cancelling, faults, history>>

(* A handler commits several transactions of its own before mark_job_done: *)
(* an enrollment commits its runs and then its log line, notify commits in *)
(* the middle of a step.  The first of them is the attempt's effect.       *)
HandlerCommit(c) ==
  /\ c.phase = "running"
  /\ Advance(c, "partway")
  /\ effects' = [effects EXCEPT ![c.job] = @ + 1]
  /\ UNCHANGED <<row, loop, cancelling, faults, torn, reclaims, markErrors,
                 overran>>

(* It returns having committed all, or having found nothing to do.         *)
HandlerReturn(c) ==
  /\ c.phase \in InHandler
  /\ Advance(c, "returned")
  /\ UNCHANGED <<row, loop, cancelling, faults, history>>

(* It raises before its first commit or after any: what is committed stays *)
(* and the retry does it again.                                            *)
HandlerRaise(c) ==
  /\ c.phase \in InHandler
  /\ Advance(c, "raised")
  /\ torn' = IF c.phase = "partway" THEN [torn EXCEPT ![c.job] = @ + 1] ELSE torn
  /\ UNCHANGED <<row, loop, cancelling, faults, effects, reclaims, markErrors,
                 overran>>

(* Neither mark checks that the row is still running or still this         *)
(* worker's.                                                               *)
\* mutant: the mark raises after its commit
MarkJobDoneRaises(c) ==
  /\ c.phase = "returned"
  /\ Advance(c, "raised")
  /\ status' = [status EXCEPT ![c.job] = "done"]
  /\ lockedBy' = [lockedBy EXCEPT ![c.job] = NoWorker]
  /\ UNCHANGED <<attempts, due, lockAge, loop, cancelling, faults, history>>

MarkJobDone(c) ==
  /\ c.phase = "returned"
  /\ claims' = claims \ {c}
  /\ status' = [status EXCEPT ![c.job] = "done"]
  /\ lockedBy' = [lockedBy EXCEPT ![c.job] = NoWorker]
  /\ UNCHANGED <<attempts, due, lockAge, loop, cancelling, faults, history>>

(* mark_job_done raises: process_job falls into its except branch although *)
(* the handler's work is committed.                                        *)
MarkJobDoneError(c) ==
  /\ c.phase = "returned"
  /\ faults < MaxFaults
  /\ faults' = faults + 1
  /\ Advance(c, "raised")
  /\ markErrors' = [markErrors EXCEPT ![c.job] = @ + 1]
  /\ UNCHANGED <<row, loop, cancelling, effects, torn, reclaims, overran>>

FailOrRetry(c, giveUp, delay) ==
  /\ c.phase = "raised"
  /\ claims' = claims \ {c}
  /\ lockedBy' = [lockedBy EXCEPT ![c.job] = NoWorker]
  /\ \/ /\ giveUp
        /\ status' = [status EXCEPT ![c.job] = "failed"]
        /\ UNCHANGED due
     \/ /\ ~giveUp
        /\ status' = [status EXCEPT ![c.job] = "pending"]
        /\ due' = [due EXCEPT ![c.job] = delay]
  /\ UNCHANGED <<attempts, lockAge, loop, cancelling, faults, history>>

\* mutants: one attempt too many; a backoff that shrinks instead of growing
MarkJobFailedLate(c) ==
  FailOrRetry(c, attempts[c.job] > MaxAttempts, BackoffTicks * attempts[c.job])
MarkJobFailedShrinking(c) ==
  FailOrRetry(c, attempts[c.job] >= MaxAttempts,
              BackoffTicks * (attempts[c.job] - MaxAttempts))

MarkJobFailed(c) ==
  FailOrRetry(c, attempts[c.job] >= MaxAttempts, BackoffTicks * attempts[c.job])

(* mark_job_failed raises too and the exception is swallowed: the thread   *)
(* ends and the row stays locked.                                          *)
MarkJobFailedError(c) ==
  /\ c.phase = "raised"
  /\ faults < MaxFaults
  /\ faults' = faults + 1
  /\ claims' = claims \ {c}
  /\ UNCHANGED <<row, loop, cancelling, history>>

-----------------------------------------------------------------------------
(* Life and death of a worker process, and time *)

(* The process dies and is started again: its claimed ids are gone.        *)
Crash(w) ==
  /\ faults < MaxFaults
  /\ faults' = faults + 1
  /\ claims' = {c \in claims : c.worker # w}
  /\ loop' = [loop EXCEPT ![w] = "sweep"]
  /\ UNCHANGED <<row, cancelling, history>>

(* SIGTERM between two sweeps: no further claim, but every thread and the  *)
(* pool's queue are drained before the process ends.                       *)
Stop(w) ==
  /\ loop[w] = "sweep"
  /\ faults < MaxFaults
  /\ faults' = faults + 1
  /\ loop' = [loop EXCEPT ![w] = "stopped"]
  /\ UNCHANGED <<row, claims, cancelling, history>>

Restart(w) ==
  /\ loop[w] = "stopped"
  /\ \A c \in claims : c.worker # w
  /\ loop' = [loop EXCEPT ![w] = "sweep"]
  /\ UNCHANGED <<row, claims, cancelling, faults, history>>

Ageing(j) == status[j] = "running" /\ lockAge[j] <= StaleTicks

(* The next tick would age the lock of j past the window under a live claim. *)
Outlives(j) ==
  /\ status[j] = "running"
  /\ lockAge[j] = StaleTicks
  /\ \E c \in claims : c.job = j

Tick ==
  /\ \E j \in Jobs : due[j] > 0 \/ Ageing(j)
  /\ Overrun \/ \A j \in Jobs : ~Outlives(j)
  /\ due' = [j \in Jobs |-> IF due[j] > 0 THEN due[j] - 1 ELSE 0]
  /\ lockAge' = [j \in Jobs |-> IF Ageing(j) THEN lockAge[j] + 1 ELSE lockAge[j]]
  /\ overran' = [j \in Jobs |-> overran[j] \/ Outlives(j)]
  /\ UNCHANGED <<status, attempts, lockedBy, claims, loop, cancelling, faults,
                 effects, torn, reclaims, markErrors>>

-----------------------------------------------------------------------------
Sweep(w) ==
  \/ ReclaimStaleRunningJobs(w)
  \/ \E S \in SUBSET Jobs : ClaimDueJobs(w, S)

Thread(c) ==
  \/ PoolStart(c)
  \/ HandlerCommit(c)
  \/ HandlerReturn(c)
  \/ HandlerRaise(c)
  \/ MarkJobDone(c)
  \/ MarkJobFailed(c)

Fault ==
  \/ \E c \in claims : MarkJobDoneError(c) \/ MarkJobFailedError(c)
  \/ \E w \in Workers : Crash(w) \/ Stop(w)

Next ==
  \/ \E j \in Jobs, delay \in 0..MaxDelay : EnqueueJob(j, delay)
  \/ \E r \in Runs : CancelRead(r) \/ CancelCommit(r)
  \/ \E w \in Workers : Sweep(w) \/ Restart(w)
  \/ \E c \in claims : Thread(c)
  \/ Fault
  \/ Tick

Spec == Init /\ [][Next]_vars

(* Every sweep takes both its steps, the pool keeps serving its queue,     *)
(* supervision restarts a stopped worker and time passes.  Nothing is      *)
(* assumed of producers, cancellations or faults.                          *)
Fairness ==
  /\ \A w \in Workers : WF_vars(Sweep(w)) /\ WF_vars(Restart(w))
  /\ WF_vars(\E c \in claims : Thread(c))
  /\ WF_vars(Tick)

FairSpec == Spec /\ Fairness

-----------------------------------------------------------------------------
(* Properties *)

(* While no claim of a job has outlived the stale window, at most one      *)
(* thread of one worker holds the job: the reclaim of dead workers' rows   *)
(* and SKIP LOCKED together give mutual exclusion.                         *)
LeaseExclusive ==
  \A c, d \in claims : (c.job = d.job /\ ~overran[c.job]) => c = d

(* Each attempt past max_attempts is paid for by a reclaim: claim_due_jobs *)
(* and reclaim never look at the bound, only mark_job_failed does.         *)
AttemptBudget == \A j \in Jobs : attempts[j] <= MaxAttempts + reclaims[j]

(* What the handler of a job has committed is committed by a second        *)
(* attempt only with a cause: a reclaim, a failed mark_job_done, or a      *)
(* handler that raised after it had committed a part.                      *)
EffectOnceWithoutFault ==
  \A j \in Jobs : effects[j] <= 1 + reclaims[j] + markErrors[j] + torn[j]

(* A job that ran to its end is not put back in the queue, unless a claim  *)
(* of it outlived the stale window: neither a late mark_job_failed nor a   *)
(* retry revives it.                                                       *)
NoRevival ==
  [][\A j \in Jobs :
       (status[j] \in {"done", "failed"} /\ ~overran[j]) => status'[j] # "pending"]_vars

(* Every inserted job ends done, failed or cancelled, whatever crashes,    *)
(* stops and database errors happen on the way.                            *)
EventuallyFinished ==
  \A j \in Jobs : (status[j] = "pending") ~> (status[j] \in Finished)
=============================================================================
