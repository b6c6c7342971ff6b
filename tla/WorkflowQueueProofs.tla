------------------------ MODULE WorkflowQueueProofs ------------------------
(***************************************************************************)
(* Theorems about WorkflowQueue, for every number of jobs, workers, runs,  *)
(* threads, attempts and faults.                                           *)
(***************************************************************************)
EXTENDS WorkflowQueue, FiniteSetTheorems, TLAPS

USE QueueAssumption DEF row, history

(* The type invariant: no handler, sweep, crash or mark leaves a row       *)
(* outside its columns' ranges, and no claim names an attempt past the     *)
(* bound.                                                                  *)
LEMMA TypeStep == TypeOK /\ [Next]_vars => TypeOK'
<1> SUFFICES ASSUME TypeOK, [Next]_vars PROVE TypeOK'
  OBVIOUS
<1> USE DEF TypeOK, Status, Claim, Phase, InHandler, NoWorker
<1>1. ASSUME NEW j \in Jobs, NEW delay \in 0..MaxDelay, EnqueueJob(j, delay)
      PROVE  TypeOK'
  BY <1>1 DEF EnqueueJob
<1>2. ASSUME NEW r \in Runs, CancelRead(r) PROVE TypeOK'
  BY <1>2 DEF CancelRead
<1>3. ASSUME NEW r \in Runs, CancelCommit(r) PROVE TypeOK'
  BY <1>3 DEF CancelCommit
<1>4. ASSUME NEW w \in Workers, ReclaimStaleRunningJobs(w) PROVE TypeOK'
  BY <1>4 DEF ReclaimStaleRunningJobs
<1>5. ASSUME NEW w \in Workers, NEW S \in SUBSET Jobs, ClaimDueJobs(w, S)
      PROVE  TypeOK'
  <2>1. S \subseteq Due
    BY <1>5 DEF ClaimDueJobs, IsBatch
  <2>2. \A j \in S : attempts[j] + 1 \in 1..MaxClaims
    BY <2>1 DEF Due, DueIn
  <2>3. \A j \in S : NewClaim(j, w) \in Claim
    BY <2>2 DEF NewClaim
  <2>4. claims' \subseteq Claim
    BY <1>5, <2>3 DEF ClaimDueJobs
  <2>5. attempts' \in [Jobs -> 0..MaxClaims]
    BY <1>5, <2>2 DEF ClaimDueJobs
  <2>6. lockAge' \in [Jobs -> 0..(StaleTicks + 1)]
    BY <1>5 DEF ClaimDueJobs
  <2> QED
    BY <1>5, <2>4, <2>5, <2>6 DEF ClaimDueJobs
<1>6. ASSUME NEW c \in claims, NEW phase \in Phase, Advance(c, phase)
      PROVE  claims' \in SUBSET Claim
  BY <1>6 DEF Advance
<1>7. ASSUME NEW c \in claims, PoolStart(c) PROVE TypeOK'
  BY <1>6, <1>7 DEF PoolStart
<1>8. ASSUME NEW c \in claims, HandlerCommit(c) PROVE TypeOK'
  BY <1>6, <1>8 DEF HandlerCommit
<1>9. ASSUME NEW c \in claims, HandlerReturn(c) \/ HandlerRaise(c) PROVE TypeOK'
  BY <1>6, <1>9 DEF HandlerReturn, HandlerRaise
<1>10. ASSUME NEW c \in claims, MarkJobDone(c) PROVE TypeOK'
  BY <1>10 DEF MarkJobDone
<1>11. ASSUME NEW c \in claims, MarkJobFailed(c) PROVE TypeOK'
  <2>1. BackoffTicks * attempts[c.job] \in Nat
    OBVIOUS
  <2> QED
    BY <1>11, <2>1 DEF MarkJobFailed, FailOrRetry
<1>12. ASSUME NEW c \in claims, MarkJobDoneError(c) PROVE TypeOK'
  BY <1>6, <1>12 DEF MarkJobDoneError
<1>13. ASSUME NEW c \in claims, MarkJobFailedError(c) PROVE TypeOK'
  BY <1>13 DEF MarkJobFailedError
<1>14. ASSUME NEW w \in Workers, Crash(w) \/ Stop(w) \/ Restart(w)
       PROVE  TypeOK'
  BY <1>14 DEF Crash, Stop, Restart
<1>15. CASE Tick
  BY <1>15 DEF Tick, Ageing
<1>16. CASE UNCHANGED vars
  BY <1>16 DEF vars
<1> QED
  BY <1>1, <1>2, <1>3, <1>4, <1>5, <1>7, <1>8, <1>9, <1>10, <1>11, <1>12,
     <1>13, <1>14, <1>15, <1>16 DEF Next, Sweep, Thread, Fault

THEOREM TypeCorrect == Spec => []TypeOK
<1>1. Init => TypeOK
  BY DEF Init, TypeOK, Status, NoWorker
<1> QED
  BY <1>1, TypeStep, PTL DEF Spec

-----------------------------------------------------------------------------
(* The inductive strengthenings.                                           *)

(* Why LeaseExclusive holds: a live claim within the window keeps its row   *)
(* out of the sets that reclaim and claim pick from.                       *)
ClaimShieldsRow ==
  \A c \in claims : ~overran[c.job] =>
    /\ status[c.job] \in {"running", "cancelled"}
    /\ status[c.job] = "running" => lockAge[c.job] <= StaleTicks

(* Why AttemptBudget holds: a pending row still has a claim to spend.      *)
PendingHasBudget ==
  \A j \in Jobs :
    /\ status[j] = "none" => attempts[j] = 0
    /\ status[j] = "pending" => attempts[j] < MaxAttempts + reclaims[j]

(* Why EffectOnceWithoutFault holds: what the attempts have committed, the *)
(* claims that may still commit something and the row's chance of another  *)
(* claim share one allowance, and every cause of a repetition adds one.    *)
Wrote == {"partway", "returned"}

Open(j)      == {c \in claims : c.job = j /\ c.phase \notin Wrote}
Causes(j)    == reclaims[j] + markErrors[j] + torn[j]
Claimable(j) == IF status[j] \in {"none", "pending"} THEN 1 ELSE 0

Allowance ==
  \A j \in Jobs :
    effects[j] + Cardinality(Open(j)) + Claimable(j) <= 1 + Causes(j)

-----------------------------------------------------------------------------
(* Mutual exclusion within the lease. *)

LeaseInv == LeaseExclusive /\ ClaimShieldsRow

(* Moving one claim to another phase keeps the lease invariant when the    *)
(* rows and the clock stay put.                                            *)
LEMMA AdvanceKeepsLease ==
  ASSUME TypeOK, LeaseInv, NEW c \in claims, NEW phase \in Phase,
         Advance(c, phase), UNCHANGED <<status, lockAge, overran>>
  PROVE  LeaseInv'
<1>1. \A d \in claims' : d \in claims \ {c} \/ d = [c EXCEPT !.phase = phase]
  BY DEF Advance
<1>2. [c EXCEPT !.phase = phase].job = c.job
  BY DEF TypeOK, Claim
<1>3. LeaseExclusive'
  BY <1>1, <1>2 DEF LeaseInv, LeaseExclusive
<1>4. ClaimShieldsRow'
  BY <1>1, <1>2 DEF LeaseInv, ClaimShieldsRow
<1> QED
  BY <1>3, <1>4 DEF LeaseInv

(* Dropping claims keeps the lease invariant when every row whose claims   *)
(* remain is untouched.                                                    *)
LEMMA DropKeepsLease ==
  ASSUME TypeOK, LeaseInv, claims' \subseteq claims, UNCHANGED overran,
         \A d \in claims' : ~overran[d.job] =>
            status'[d.job] = status[d.job] /\ lockAge'[d.job] = lockAge[d.job]
  PROVE  LeaseInv'
BY DEF LeaseInv, LeaseExclusive, ClaimShieldsRow

LEMMA LeaseStep == TypeOK /\ LeaseInv /\ [Next]_vars => LeaseInv'
<1> SUFFICES ASSUME TypeOK, LeaseInv, [Next]_vars PROVE LeaseInv'
  OBVIOUS
<1> USE DEF LeaseInv, LeaseExclusive, ClaimShieldsRow
<1>0. \A c \in claims : c.job \in Jobs
  BY DEF TypeOK, Claim
<1>1. ASSUME NEW j \in Jobs, NEW delay \in 0..MaxDelay, EnqueueJob(j, delay)
      PROVE  LeaseInv'
  BY <1>0, <1>1 DEF EnqueueJob, TypeOK
<1>2. ASSUME NEW r \in Runs, CancelRead(r) PROVE LeaseInv'
  BY <1>2 DEF CancelRead
<1>3. ASSUME NEW r \in Runs, CancelCommit(r) PROVE LeaseInv'
  BY <1>0, <1>3 DEF CancelCommit, TypeOK
<1>4. ASSUME NEW w \in Workers, ReclaimStaleRunningJobs(w) PROVE LeaseInv'
  <2>1. \A c \in claims : ~overran[c.job] => c.job \notin Stale
    BY <1>0 DEF Stale, LockedFor, TypeOK
  <2> QED
    BY <1>0, <1>4, <2>1 DEF ReclaimStaleRunningJobs, TypeOK
<1>5. ASSUME NEW w \in Workers, NEW S \in SUBSET Jobs, ClaimDueJobs(w, S)
      PROVE  LeaseInv'
  <2>1. \A j \in S : status[j] = "pending"
    BY <1>5 DEF ClaimDueJobs, IsBatch, Due, DueIn
  <2>2. \A c \in claims : ~overran[c.job] => c.job \notin S
    BY <2>1
  <2>3. \A c \in claims' : c \in claims \/ \E j \in S : c = NewClaim(j, w)
    BY <1>5 DEF ClaimDueJobs
  <2>4. \A j \in Jobs : NewClaim(j, w).job = j
    BY DEF NewClaim
  <2>5. \A j \in S : status'[j] = "running" /\ lockAge'[j] = 0
    BY <1>5 DEF ClaimDueJobs
  <2>6. \A j \in Jobs \ S : status'[j] = status[j] /\ lockAge'[j] = lockAge[j]
    BY <1>5 DEF ClaimDueJobs
  <2>7. overran' = overran
    BY <1>5 DEF ClaimDueJobs
  <2>8. LeaseExclusive'
    BY <2>2, <2>3, <2>4, <2>7
  <2>9. ClaimShieldsRow'
    BY <1>0, <2>2, <2>3, <2>4, <2>5, <2>6, <2>7
  <2> QED
    BY <2>8, <2>9
<1>6. ASSUME NEW c \in claims,
             \/ PoolStart(c) \/ HandlerCommit(c) \/ HandlerReturn(c)
             \/ HandlerRaise(c) \/ MarkJobDoneError(c)
      PROVE  LeaseInv'
  BY <1>6, AdvanceKeepsLease
     DEF PoolStart, HandlerCommit, HandlerReturn, HandlerRaise, MarkJobDoneError,
         Phase
<1>7. ASSUME NEW c \in claims, NEW s \in Status, claims' = claims \ {c},
             status' = [status EXCEPT ![c.job] = s], UNCHANGED <<lockAge, overran>>
      PROVE  LeaseInv'
  <2>1. \A d \in claims' : ~overran[d.job] => d.job # c.job
    BY <1>7
  <2>2. \A d \in claims' : ~overran[d.job] => status'[d.job] = status[d.job]
    BY <1>0, <1>7, <2>1 DEF TypeOK
  <2> QED
    BY <1>7, <2>2, DropKeepsLease
<1>8. ASSUME NEW c \in claims, MarkJobDone(c) PROVE LeaseInv'
  BY <1>7, <1>8 DEF MarkJobDone, Status
<1>9. ASSUME NEW c \in claims, MarkJobFailed(c) PROVE LeaseInv'
  BY <1>7, <1>9 DEF MarkJobFailed, FailOrRetry, Status
<1>10. ASSUME NEW c \in claims, MarkJobFailedError(c) PROVE LeaseInv'
  BY <1>10, DropKeepsLease DEF MarkJobFailedError
<1>11. ASSUME NEW w \in Workers, Crash(w) \/ Stop(w) \/ Restart(w)
       PROVE  LeaseInv'
  BY <1>11, DropKeepsLease DEF Crash, Stop, Restart
<1>12. CASE Tick
  <2>1. claims' = claims /\ status' = status
    BY <1>12 DEF Tick
  <2>2. \A j \in Jobs : ~overran'[j] => ~overran[j] /\ ~Outlives(j)
    BY <1>12 DEF Tick
  <2>3. \A j \in Jobs :
          lockAge'[j] = IF Ageing(j) THEN lockAge[j] + 1 ELSE lockAge[j]
    BY <1>12 DEF Tick
  <2>4. LeaseExclusive'
    BY <1>0, <2>1, <2>2
  <2>5. ASSUME NEW c \in claims, ~overran'[c.job], status[c.job] = "running"
        PROVE  lockAge'[c.job] <= StaleTicks
    <3>1. lockAge[c.job] \in 0..StaleTicks /\ lockAge[c.job] # StaleTicks
      BY <1>0, <2>2, <2>5 DEF Outlives, TypeOK
    <3> QED
      BY <1>0, <2>3, <2>5, <3>1 DEF Ageing
  <2>6. ClaimShieldsRow'
    BY <1>0, <2>1, <2>2, <2>5
  <2> QED
    BY <2>4, <2>6
<1>13. CASE UNCHANGED vars
  BY <1>13 DEF vars
<1> QED
  BY <1>1, <1>2, <1>3, <1>4, <1>5, <1>6, <1>8, <1>9, <1>10, <1>11, <1>12,
     <1>13 DEF Next, Sweep, Thread, Fault

(* Mutual exclusion of the due-queue: two claims of one job exist at once  *)
(* only after a claim of it outlived the stale window.                     *)
THEOREM LeaseIsExclusive == Spec => []LeaseExclusive
<1>1. Init => TypeOK /\ LeaseInv
  BY DEF Init, TypeOK, Status, NoWorker, LeaseInv, LeaseExclusive, ClaimShieldsRow
<1>2. TypeOK /\ LeaseInv /\ [Next]_vars => TypeOK' /\ LeaseInv'
  BY TypeStep, LeaseStep
<1>3. LeaseInv => LeaseExclusive
  BY DEF LeaseInv
<1> QED
  BY <1>1, <1>2, <1>3, PTL DEF Spec

(* A done or failed row is not queued again unless a claim of its job      *)
(* outlived the stale window: the late mark of a shielded claim never      *)
(* meets a finished row.                                                   *)
THEOREM NeverRevived == Spec => NoRevival
<1> DEFINE Kept == \A j \in Jobs : (status[j] \in {"done", "failed"} /\ ~overran[j])
                                      => status'[j] # "pending"
<1>1. Init => TypeOK /\ LeaseInv
  BY DEF Init, TypeOK, Status, NoWorker, LeaseInv, LeaseExclusive, ClaimShieldsRow
<1>2. TypeOK /\ LeaseInv /\ [Next]_vars => TypeOK' /\ LeaseInv'
  BY TypeStep, LeaseStep
<1>3. TypeOK /\ LeaseInv /\ [Next]_vars => [Kept]_vars
  <2> SUFFICES ASSUME TypeOK, LeaseInv, Next, NEW j \in Jobs,
                      status[j] \in {"done", "failed"}, ~overran[j]
               PROVE  status'[j] # "pending"
    OBVIOUS
  <2>1. \A c \in claims : c.job # j /\ c.job \in Jobs
    BY DEF LeaseInv, ClaimShieldsRow, TypeOK, Claim
  <2>2. ASSUME NEW k \in Jobs, NEW delay \in 0..MaxDelay, EnqueueJob(k, delay)
        PROVE  status'[j] = status[j]
    BY <2>2 DEF EnqueueJob, TypeOK
  <2>3. ASSUME NEW r \in Runs, CancelRead(r) \/ CancelCommit(r)
        PROVE  status'[j] # "pending"
    BY <2>3 DEF CancelRead, CancelCommit
  <2>4. ASSUME NEW w \in Workers, Sweep(w) \/ Restart(w)
        PROVE  status'[j] # "pending"
    BY <2>4 DEF Sweep, Restart, ReclaimStaleRunningJobs, Stale, LockedFor,
                ClaimDueJobs
  <2>5. ASSUME NEW c \in claims, Thread(c) PROVE status'[j] = status[j]
    BY <2>1, <2>5 DEF Thread, PoolStart, HandlerCommit, HandlerReturn,
                      HandlerRaise, MarkJobDone, MarkJobFailed, FailOrRetry, TypeOK
  <2>6. CASE Fault
    BY <2>6 DEF Fault, MarkJobDoneError, MarkJobFailedError, Crash, Stop
  <2>7. CASE Tick
    BY <2>7 DEF Tick
  <2> QED
    BY <2>2, <2>3, <2>4, <2>5, <2>6, <2>7 DEF Next
<1> QED
  BY <1>1, <1>2, <1>3, PTL DEF Spec, NoRevival

-----------------------------------------------------------------------------
(* The attempt budget. *)

BudgetInv == AttemptBudget /\ PendingHasBudget

LEMMA BudgetStep == TypeOK /\ BudgetInv /\ [Next]_vars => BudgetInv'
<1> SUFFICES ASSUME TypeOK, BudgetInv, [Next]_vars PROVE BudgetInv'
  OBVIOUS
<1> USE DEF BudgetInv, AttemptBudget, PendingHasBudget
<1>0. \A c \in claims : c.job \in Jobs
  BY DEF TypeOK, Claim
<1>1. ASSUME NEW j \in Jobs, NEW delay \in 0..MaxDelay, EnqueueJob(j, delay)
      PROVE  BudgetInv'
  BY <1>1 DEF EnqueueJob, TypeOK
<1>2. ASSUME NEW r \in Runs, CancelCommit(r) PROVE BudgetInv'
  BY <1>2 DEF CancelCommit, TypeOK
<1>3. ASSUME NEW w \in Workers, ReclaimStaleRunningJobs(w) PROVE BudgetInv'
  BY <1>3 DEF ReclaimStaleRunningJobs, Stale, LockedFor, TypeOK
<1>4. ASSUME NEW w \in Workers, NEW S \in SUBSET Jobs, ClaimDueJobs(w, S)
      PROVE  BudgetInv'
  BY <1>4 DEF ClaimDueJobs, IsBatch, Due, DueIn, TypeOK
<1>5. ASSUME NEW c \in claims, MarkJobDone(c) PROVE BudgetInv'
  BY <1>0, <1>5 DEF MarkJobDone, TypeOK
<1>6. ASSUME NEW c \in claims, MarkJobFailed(c) PROVE BudgetInv'
  BY <1>0, <1>6 DEF MarkJobFailed, FailOrRetry, TypeOK
<1>7. ASSUME UNCHANGED <<status, attempts, reclaims>> PROVE BudgetInv'
  BY <1>7
<1>8. ASSUME NEW r \in Runs, CancelRead(r) PROVE BudgetInv'
  BY <1>7, <1>8 DEF CancelRead
<1>9. ASSUME NEW c \in claims,
             \/ PoolStart(c) \/ HandlerCommit(c) \/ HandlerReturn(c)
             \/ HandlerRaise(c) \/ MarkJobDoneError(c) \/ MarkJobFailedError(c)
      PROVE  BudgetInv'
  BY <1>7, <1>9 DEF PoolStart, HandlerCommit, HandlerReturn, HandlerRaise,
                    MarkJobDoneError, MarkJobFailedError
<1>10. ASSUME NEW w \in Workers, Crash(w) \/ Stop(w) \/ Restart(w)
       PROVE  BudgetInv'
  BY <1>7, <1>10 DEF Crash, Stop, Restart
<1>11. CASE Tick \/ UNCHANGED vars
  BY <1>7, <1>11 DEF Tick, vars
<1> QED
  BY <1>1, <1>2, <1>3, <1>4, <1>5, <1>6, <1>8, <1>9, <1>10, <1>11
     DEF Next, Sweep, Thread, Fault

(* The attempts of a job never exceed max_attempts by more than the number *)
(* of times it was reclaimed.                                              *)
THEOREM AttemptsWithinBudget == Spec => []AttemptBudget
<1>1. Init => TypeOK /\ BudgetInv
  BY DEF Init, TypeOK, Status, NoWorker, BudgetInv, AttemptBudget, PendingHasBudget
<1>2. TypeOK /\ BudgetInv /\ [Next]_vars => TypeOK' /\ BudgetInv'
  BY TypeStep, BudgetStep
<1>3. BudgetInv => AttemptBudget
  BY DEF BudgetInv
<1> QED
  BY <1>1, <1>2, <1>3, PTL DEF Spec

-----------------------------------------------------------------------------
(* Effects: how often the work of a job is committed. *)

(* What adding, replacing or dropping one element does to a cardinality.   *)
LEMMA CardinalityOfChange ==
  ASSUME NEW S, IsFiniteSet(S), NEW T, NEW x
  PROVE  /\ Cardinality(S) \in Nat
         /\ T \subseteq S => /\ IsFiniteSet(T)
                             /\ Cardinality(T) \in Nat
                             /\ Cardinality(T) <= Cardinality(S)
         /\ T \subseteq S \cup {x} => /\ IsFiniteSet(T)
                                      /\ Cardinality(T) \in Nat
                                      /\ Cardinality(T) <= Cardinality(S) + 1
<1>1. Cardinality(S) \in Nat
  BY FS_CardinalityType
<1>2. /\ IsFiniteSet(S \cup {x})
      /\ Cardinality(S \cup {x}) \in Nat
      /\ Cardinality(S \cup {x}) <= Cardinality(S) + 1
  <2>1. /\ IsFiniteSet(S \cup {x})
        /\ Cardinality(S \cup {x})
             = IF x \in S THEN Cardinality(S) ELSE Cardinality(S) + 1
    BY FS_AddElement
  <2> QED
    BY <1>1, <2>1
<1>3. ASSUME NEW R, IsFiniteSet(R), T \subseteq R
      PROVE  IsFiniteSet(T) /\ Cardinality(T) \in Nat /\ Cardinality(T) <= Cardinality(R)
  <2>1. T \in SUBSET R
    BY <1>3
  <2>2. IsFiniteSet(T) /\ Cardinality(T) <= Cardinality(R)
    BY <1>3, <2>1, FS_Subset
  <2> QED
    BY <2>2, FS_CardinalityType
<1>4. ASSUME T \subseteq S \cup {x}
      PROVE  IsFiniteSet(T) /\ Cardinality(T) \in Nat /\ Cardinality(T) <= Cardinality(S) + 1
  <2>1. IsFiniteSet(T) /\ Cardinality(T) \in Nat /\ Cardinality(T) <= Cardinality(S \cup {x})
    BY <1>2, <1>3, <1>4
  <2> QED
    BY <1>1, <1>2, <2>1
<1> QED
  BY <1>1, <1>3, <1>4

LEMMA CardinalityOfSwap ==
  ASSUME NEW S, IsFiniteSet(S), NEW T, NEW x, NEW y \in S
  PROVE  /\ T \subseteq S \ {y} => Cardinality(T) <= Cardinality(S) - 1
         /\ T \subseteq (S \ {y}) \cup {x} =>
              IsFiniteSet(T) /\ Cardinality(T) \in Nat
                /\ Cardinality(T) <= Cardinality(S)
<1>1. IsFiniteSet(S \ {y}) /\ Cardinality(S \ {y}) = Cardinality(S) - 1
  BY FS_RemoveElement
<1>2. Cardinality(S) \in Nat
  BY FS_CardinalityType
<1>3. ASSUME T \subseteq S \ {y} PROVE Cardinality(T) <= Cardinality(S) - 1
  BY <1>1, <1>3, CardinalityOfChange
<1>4. ASSUME T \subseteq (S \ {y}) \cup {x}
      PROVE  IsFiniteSet(T) /\ Cardinality(T) \in Nat /\ Cardinality(T) <= Cardinality(S)
  <2>1. /\ IsFiniteSet(T) /\ Cardinality(T) \in Nat
        /\ Cardinality(T) <= Cardinality(S \ {y}) + 1
    BY <1>1, <1>4, CardinalityOfChange
  <2> QED
    BY <1>1, <1>2, <2>1
<1> QED
  BY <1>3, <1>4

EffectInv ==
  /\ Allowance
  /\ \A j \in Jobs : IsFiniteSet(Open(j))

(* The allowance of one job survives a step that neither grows what may    *)
(* still be done nor spends without a cause.                               *)
LEMMA AllowanceKept ==
  ASSUME NEW j \in Jobs, TypeOK, TypeOK', EffectInv,
         IsFiniteSet(Open(j)'),
         effects'[j] + Cardinality(Open(j)') + Claimable(j)' - Causes(j)'
         <= effects[j] + Cardinality(Open(j)) + Claimable(j) - Causes(j)
  PROVE  effects'[j] + Cardinality(Open(j)') + Claimable(j)' <= 1 + Causes(j)'
<1>1. Cardinality(Open(j)) \in Nat /\ Cardinality(Open(j)') \in Nat
  BY FS_CardinalityType DEF EffectInv
<1>2. /\ effects[j] \in Nat /\ effects'[j] \in Nat
      /\ Causes(j) \in Nat /\ Causes(j)' \in Nat
  BY DEF TypeOK, Causes
<1>3. Claimable(j) \in 0..1 /\ Claimable(j)' \in 0..1
  BY DEF Claimable
<1>4. effects[j] + Cardinality(Open(j)) + Claimable(j) <= 1 + Causes(j)
  BY DEF EffectInv, Allowance
<1> QED
  BY <1>1, <1>2, <1>3, <1>4

LEMMA EffectStep == TypeOK /\ TypeOK' /\ EffectInv /\ [Next]_vars => EffectInv'
<1> SUFFICES ASSUME TypeOK, TypeOK', EffectInv, [Next]_vars,
                    NEW j \in Jobs
             PROVE  /\ IsFiniteSet(Open(j)')
                    /\ effects'[j] + Cardinality(Open(j)') + Claimable(j)'
                         <= 1 + Causes(j)'
  BY DEF EffectInv, Allowance
<1> DEFINE U == Open(j)
           n == Cardinality(U)
           U1 == U'
           n1 == Cardinality(U1)
           Goal == /\ IsFiniteSet(U1)
                   /\ effects'[j] + n1 + Claimable(j)' <= 1 + Causes(j)'
           Kept == effects'[j] + n1 + Claimable(j)' - Causes(j)'
                   <= effects[j] + n + Claimable(j) - Causes(j)
<1>a. IsFiniteSet(U) /\ n \in Nat
  BY FS_CardinalityType DEF EffectInv
<1>b. /\ effects[j] \in Nat /\ effects'[j] \in Nat
      /\ Causes(j) \in Nat /\ Causes(j)' \in Nat
      /\ Claimable(j) \in 0..1 /\ Claimable(j)' \in 0..1
  BY DEF TypeOK, Claimable, Causes
<1>c. ASSUME IsFiniteSet(U1), Kept PROVE Goal
  BY <1>c, AllowanceKept
<1>d. \A c \in claims : c.job \in Jobs
  BY DEF TypeOK, Claim
<1>s. \A c \in claims : c.phase \in Wrote <=> c.phase \notin {"queued", "running", "raised"}
  BY DEF Wrote, TypeOK, Claim, Phase
(* What a step may do to the open claims, and what it must then leave alone. *)
<1>e. ASSUME U1 \subseteq U, Claimable(j)' <= Claimable(j),
             effects'[j] = effects[j], Causes(j)' = Causes(j)
      PROVE  Goal
  <2> HIDE DEF U, U1
  <2>1. IsFiniteSet(U1) /\ n1 \in Nat /\ n1 <= n
    BY <1>a, <1>e, CardinalityOfChange
  <2> HIDE DEF n, n1
  <2>2. Kept
    BY <1>a, <1>b, <1>e, <2>1
  <2> QED
    BY <1>c, <2>1, <2>2
<1>f. ASSUME NEW c \in U, NEW d, U1 \subseteq (U \ {c}) \cup {d},
             Claimable(j)' = Claimable(j), effects'[j] = effects[j],
             Causes(j)' = Causes(j)
      PROVE  Goal
  <2> HIDE DEF U, U1
  <2>1. IsFiniteSet(U1) /\ n1 \in Nat /\ n1 <= n
    BY <1>a, <1>f, CardinalityOfSwap
  <2> HIDE DEF n, n1
  <2>2. Kept
    BY <1>a, <1>b, <1>f, <2>1
  <2> QED
    BY <1>c, <2>1, <2>2
<1>g. ASSUME NEW c \in U, U1 \subseteq U \ {c},
             \/ Claimable(j)' = Claimable(j) /\ effects'[j] = effects[j] + 1
             \/ effects'[j] = effects[j],
             Causes(j)' = Causes(j)
      PROVE  Goal
  <2> HIDE DEF U, U1
  <2>1. IsFiniteSet(U1) /\ n1 \in Nat /\ n1 <= n - 1
    <3>1. U1 \subseteq U
      BY <1>g
    <3> QED
      BY <1>a, <1>g, <3>1, CardinalityOfChange, CardinalityOfSwap
  <2> HIDE DEF n, n1
  <2>2. Kept
    BY <1>a, <1>b, <1>g, <2>1
  <2> QED
    BY <1>c, <2>1, <2>2
<1>h. ASSUME NEW d, U1 \subseteq U \cup {d}, effects'[j] = effects[j],
             \/ Claimable(j)' = Claimable(j) /\ Causes(j)' = Causes(j) + 1
             \/ /\ Claimable(j) = 1 /\ Claimable(j)' = 0
                /\ Causes(j)' = Causes(j)
      PROVE  Goal
  <2> HIDE DEF U, U1
  <2>1. IsFiniteSet(U1) /\ n1 \in Nat /\ n1 <= n + 1
    BY <1>a, <1>h, CardinalityOfChange
  <2> HIDE DEF n, n1
  <2>2. Kept
    BY <1>a, <1>b, <1>h, <2>1
  <2> QED
    BY <1>c, <2>1, <2>2
(* A claim moves on: from a phase in which its work is open or not, to one  *)
(* in which it is or not.                                                   *)
<1>i. ASSUME NEW c \in claims, NEW phase \in Phase, Advance(c, phase),
             UNCHANGED status,
             c.job # j => effects'[j] = effects[j] /\ Causes(j)' = Causes(j),
             c.job = j /\ c.phase \notin Wrote /\ phase \notin Wrote
               => effects'[j] = effects[j] /\ Causes(j)' = Causes(j),
             c.job = j /\ c.phase \notin Wrote /\ phase \in Wrote
               => /\ effects'[j] = effects[j] + 1 \/ effects'[j] = effects[j]
                  /\ Causes(j)' = Causes(j),
             c.job = j /\ c.phase \in Wrote /\ phase \notin Wrote
               => effects'[j] = effects[j] /\ Causes(j)' = Causes(j) + 1,
             c.job = j /\ c.phase \in Wrote /\ phase \in Wrote
               => effects'[j] = effects[j] /\ Causes(j)' = Causes(j)
      PROVE  Goal
  <2> DEFINE d == [c EXCEPT !.phase = phase]
  <2>1. d.job = c.job /\ d.phase = phase
    BY DEF TypeOK, Claim
  <2>2. Claimable(j)' = Claimable(j)
    BY <1>i DEF Claimable
  <2>3. /\ U1 \subseteq (U \ {c}) \cup {d}
        /\ c.job # j \/ phase \in Wrote => U1 \subseteq U \ {c}
        /\ c \in U <=> (c.job = j /\ c.phase \notin Wrote)
    BY <1>i, <2>1 DEF Advance, Open
  <2> HIDE DEF U, U1, d
  <2>4. CASE c.job # j
    <3>1. U1 \subseteq U
      BY <2>3, <2>4
    <3> QED
      BY <1>b, <1>e, <1>i, <2>2, <2>4, <3>1
  <2>5. CASE c.job = j /\ c.phase \notin Wrote /\ phase \notin Wrote
    <3>1. c \in U
      BY <2>3, <2>5
    <3> QED
      BY <1>f, <1>i, <2>2, <2>3, <2>5, <3>1
  <2>6. CASE c.job = j /\ c.phase \notin Wrote /\ phase \in Wrote
    <3>1. c \in U /\ U1 \subseteq U \ {c}
      BY <2>3, <2>6
    <3> QED
      BY <1>g, <1>i, <2>2, <2>6, <3>1
  <2>7. CASE c.job = j /\ c.phase \in Wrote /\ phase \notin Wrote
    <3>1. U1 \subseteq U \cup {d}
      BY <2>3
    <3> QED
      BY <1>h, <1>i, <2>2, <2>7, <3>1
  <2>8. CASE c.job = j /\ c.phase \in Wrote /\ phase \in Wrote
    <3>1. U1 \subseteq U
      BY <2>3, <2>8
    <3> QED
      BY <1>b, <1>e, <1>i, <2>2, <2>8, <3>1
  <2> QED
    BY <2>4, <2>5, <2>6, <2>7, <2>8
(* A claim is dropped. *)
<1>k. ASSUME claims' \subseteq claims, Claimable(j)' <= Claimable(j),
             UNCHANGED history
      PROVE  Goal
  <2>1. U1 \subseteq U /\ effects'[j] = effects[j] /\ Causes(j)' = Causes(j)
    BY <1>k DEF Open, Causes
  <2> QED
    BY <1>e, <1>k, <2>1
<1>1. ASSUME NEW k \in Jobs, NEW delay \in 0..MaxDelay, EnqueueJob(k, delay)
      PROVE  Goal
  <2>1. Claimable(j)' <= Claimable(j)
    BY <1>1 DEF EnqueueJob, TypeOK, Claimable
  <2> QED
    BY <1>1, <1>k, <2>1 DEF EnqueueJob
<1>2. ASSUME NEW r \in Runs, CancelRead(r) \/ CancelCommit(r) PROVE Goal
  <2>1. Claimable(j)' <= Claimable(j)
    BY <1>2 DEF CancelRead, CancelCommit, TypeOK, Claimable
  <2> QED
    BY <1>2, <1>k, <2>1 DEF CancelRead, CancelCommit
<1>4. ASSUME NEW w \in Workers, ReclaimStaleRunningJobs(w) PROVE Goal
  <2>1. U1 = U /\ effects'[j] = effects[j]
    BY <1>4 DEF ReclaimStaleRunningJobs, Open
  <2>2. CASE j \in Stale
    <3>1. Claimable(j) = 0 /\ Claimable(j)' = 1
      BY <1>4, <2>2 DEF ReclaimStaleRunningJobs, Stale, LockedFor, Claimable
    <3>2. Causes(j)' = Causes(j) + 1
      BY <1>4, <2>2 DEF ReclaimStaleRunningJobs, Causes, TypeOK
    <3>3. IsFiniteSet(U1) /\ n1 = n
      BY <1>a, <2>1
    <3> HIDE DEF n, n1
    <3>4. Kept
      BY <1>a, <1>b, <2>1, <3>1, <3>2, <3>3
    <3> QED
      BY <1>c, <3>3, <3>4
  <2>3. CASE j \notin Stale
    <3>1. Claimable(j)' = Claimable(j) /\ Causes(j)' = Causes(j)
      BY <1>4, <2>3 DEF ReclaimStaleRunningJobs, Claimable, Causes
    <3> QED
      BY <1>b, <1>e, <2>1, <3>1
  <2> QED
    BY <2>2, <2>3
<1>5. ASSUME NEW w \in Workers, NEW T \in SUBSET Jobs, ClaimDueJobs(w, T)
      PROVE  Goal
  <2>1. effects'[j] = effects[j] /\ Causes(j)' = Causes(j)
    BY <1>5 DEF ClaimDueJobs, Causes, history
  <2>2. \A c \in U1 : c \in U \/ (j \in T /\ c = NewClaim(j, w))
    <3>1. \A k \in T : NewClaim(k, w).job = k
      BY DEF NewClaim
    <3> QED
      BY <1>5, <3>1 DEF ClaimDueJobs, Open
  <2>3. CASE j \in T
    <3>1. Claimable(j) = 1 /\ Claimable(j)' = 0
      BY <1>5, <2>3 DEF ClaimDueJobs, IsBatch, Due, DueIn, Claimable
    <3>2. U1 \subseteq U \cup {NewClaim(j, w)}
      BY <2>2
    <3> QED
      BY <1>h, <2>1, <3>1, <3>2
  <2>4. CASE j \notin T
    <3>1. Claimable(j)' = Claimable(j)
      BY <1>5, <2>4 DEF ClaimDueJobs, Claimable
    <3>2. U1 \subseteq U
      BY <2>2, <2>4
    <3> QED
      BY <1>b, <1>e, <2>1, <3>1, <3>2
  <2> QED
    BY <2>3, <2>4
<1>7. ASSUME NEW c \in claims, PoolStart(c) PROVE Goal
  <2>1. effects'[j] = effects[j] /\ Causes(j)' = Causes(j)
    BY <1>7 DEF PoolStart, Causes, history
  <2> HIDE DEF Goal
  <2> QED
    BY <1>7, <1>i, <2>1 DEF Wrote, PoolStart, Phase, row
<1>8. ASSUME NEW c \in claims, HandlerCommit(c) PROVE Goal
  <2>1. /\ Causes(j)' = Causes(j)
        /\ effects'[j] = IF c.job = j THEN effects[j] + 1 ELSE effects[j]
    BY <1>8, <1>d DEF HandlerCommit, Causes, TypeOK
  <2> HIDE DEF Goal
  <2> QED
    BY <1>8, <1>i, <2>1 DEF Wrote, HandlerCommit, Phase, row
<1>9. ASSUME NEW c \in claims, HandlerReturn(c) PROVE Goal
  <2>1. Causes(j)' = Causes(j) /\ effects'[j] = effects[j]
    BY <1>9 DEF HandlerReturn, Causes, history
  <2> HIDE DEF Goal
  <2> QED
    BY <1>9, <1>i, <2>1 DEF HandlerReturn, Phase, row, Wrote
<1>10. ASSUME NEW c \in claims, HandlerRaise(c) PROVE Goal
  <2>1. effects'[j] = effects[j]
    BY <1>10 DEF HandlerRaise
  <2>2. Causes(j)' = IF c.job = j /\ c.phase = "partway" THEN Causes(j) + 1
                                                         ELSE Causes(j)
    BY <1>10, <1>d DEF HandlerRaise, Causes, TypeOK
  <2>3. c.phase \in Wrote <=> c.phase = "partway"
    BY <1>10 DEF HandlerRaise, InHandler, Wrote
  <2> HIDE DEF Goal
  <2> QED
    BY <1>10, <1>i, <2>1, <2>2, <2>3 DEF HandlerRaise, Phase, row, Wrote
<1>11. ASSUME NEW c \in claims, MarkJobDone(c) PROVE Goal
  <2>1. Claimable(j)' <= Claimable(j)
    BY <1>11, <1>d DEF MarkJobDone, TypeOK, Claimable
  <2> QED
    BY <1>11, <1>k, <2>1 DEF MarkJobDone
<1>12. ASSUME NEW c \in claims, MarkJobFailed(c) PROVE Goal
  <2>1. c.phase = "raised" /\ claims' = claims \ {c} /\ UNCHANGED history
    BY <1>12 DEF MarkJobFailed, FailOrRetry
  <2>2. CASE c.job = j
    <3>1. c \in U /\ U1 \subseteq U \ {c}
      BY <1>s, <2>1, <2>2 DEF Open
    <3>2. effects'[j] = effects[j] /\ Causes(j)' = Causes(j)
      BY <2>1 DEF Causes
    <3> QED
      BY <1>g, <3>1, <3>2
  <2>3. CASE c.job # j
    <3>1. Claimable(j)' <= Claimable(j)
      BY <1>12, <1>d, <2>3 DEF MarkJobFailed, FailOrRetry, TypeOK, Claimable
    <3> QED
      BY <1>k, <2>1, <3>1
  <2> QED
    BY <2>2, <2>3
<1>13. ASSUME NEW c \in claims, MarkJobDoneError(c) PROVE Goal
  <2>1. /\ effects'[j] = effects[j]
        /\ Causes(j)' = IF c.job = j THEN Causes(j) + 1 ELSE Causes(j)
    BY <1>13, <1>d DEF MarkJobDoneError, Causes, TypeOK
  <2> HIDE DEF Goal
  <2> QED
    BY <1>13, <1>i, <2>1 DEF Wrote, MarkJobDoneError, Phase, row
<1>14. ASSUME claims' \subseteq claims, UNCHANGED <<status, history>> PROVE Goal
  <2>1. Claimable(j)' <= Claimable(j)
    BY <1>14 DEF Claimable
  <2> QED
    BY <1>14, <1>k, <2>1
<1>15. ASSUME NEW c \in claims, MarkJobFailedError(c) PROVE Goal
  BY <1>14, <1>15 DEF MarkJobFailedError
<1>16. ASSUME NEW w \in Workers, Crash(w) \/ Stop(w) \/ Restart(w) PROVE Goal
  BY <1>14, <1>16 DEF Crash, Stop, Restart
<1>17. CASE Tick
  <2>1. U1 = U /\ Claimable(j)' = Claimable(j)
    BY <1>17 DEF Tick, Open, Claimable
  <2>2. effects'[j] = effects[j] /\ Causes(j)' = Causes(j)
    BY <1>17 DEF Tick, Causes
  <2> QED
    BY <1>b, <1>e, <2>1, <2>2
<1>18. CASE UNCHANGED vars
  BY <1>14, <1>18 DEF vars
<1> QED
  BY <1>1, <1>2, <1>4, <1>5, <1>7, <1>8, <1>9, <1>10, <1>11, <1>12, <1>13,
     <1>15, <1>16, <1>17, <1>18 DEF Next, Sweep, Thread, Fault

(* The handler of a job commits something in at most one attempt, plus one *)
(* for each reclaim, each failed mark_job_done and each attempt that       *)
(* raised after a commit.                                                  *)
THEOREM EffectsBounded == Spec => []EffectOnceWithoutFault
<1>1. Init => TypeOK
  BY DEF Init, TypeOK, Status, NoWorker
<1>2. Init => EffectInv
  <2> SUFFICES ASSUME Init, NEW j \in Jobs
               PROVE  /\ IsFiniteSet(Open(j))
                      /\ effects[j] + Cardinality(Open(j)) + Claimable(j)
                           <= 1 + Causes(j)
    BY DEF EffectInv, Allowance
  <2>1. Open(j) = {}
    BY DEF Init, Open
  <2> QED
    BY <2>1, FS_EmptySet DEF Init, Claimable, Causes
<1>3. TypeOK /\ EffectInv /\ [Next]_vars => TypeOK' /\ EffectInv'
  BY TypeStep, EffectStep
<1>4. TypeOK /\ EffectInv => EffectOnceWithoutFault
  <2> SUFFICES ASSUME TypeOK, EffectInv, NEW j \in Jobs
               PROVE  effects[j] <= 1 + reclaims[j] + markErrors[j] + torn[j]
    BY DEF EffectOnceWithoutFault
  <2>1. Cardinality(Open(j)) \in Nat /\ Claimable(j) \in 0..1
    BY FS_CardinalityType DEF EffectInv, Claimable
  <2>2. /\ effects[j] \in Nat /\ reclaims[j] \in Nat
        /\ markErrors[j] \in Nat /\ torn[j] \in Nat
    BY DEF TypeOK
  <2>3. effects[j] + Cardinality(Open(j)) + Claimable(j) <= 1 + Causes(j)
    BY DEF EffectInv, Allowance
  <2> QED
    BY <2>1, <2>2, <2>3 DEF Causes
<1> QED
  BY <1>1, <1>2, <1>3, <1>4, PTL DEF Spec
=============================================================================
