------------------------- MODULE WorkflowRunProofs -------------------------
(***************************************************************************)
(* Theorems about WorkflowRun, for every strategy graph, every set of      *)
(* rules and every bound.                                                  *)
(***************************************************************************)
EXTENDS WorkflowRun, FiniteSetTheorems, TLAPS

USE RunAssumption DEF runRow, work, account, counts, ledger, history

-----------------------------------------------------------------------------
(* What the helpers return. *)

(* A job is only ever enqueued for a step a job can name.                  *)
LEMMA PutType ==
  ASSUME NEW js \in SUBSET Job, NEW type \in {"execute", "resume"},
         NEW s \in Steps \cup {NoStep}, NEW after \in BOOLEAN,
         NEW wait \in Steps \cup {NoStep}
  PROVE  Put(js, type, s, after, wait) \in SUBSET Job
BY DEF Put, AddRow, Job

LEMMA EnqueueType ==
  ASSUME NEW js \in SUBSET Job, NEW s \in Steps \cup {NoStep}
  PROVE  /\ EnqueueExecute(js, s) \in SUBSET Job
         /\ EnqueueResume(js, s) \in SUBSET Job
BY PutType DEF EnqueueExecute, EnqueueResume

LEMMA CloseWaitsType ==
  ASSUME outcome \in [Steps -> Outcome], NEW s \in Steps
  PROVE  CloseWaits(s) \in [Steps -> Outcome]
BY DEF CloseWaits, Outcome, StepDone

LEMMA WrittenType ==
  ASSUME status \in Status, NEW e \in Exec, NEW new \in Status
  PROVE  Written(e, new) \in Status
BY DEF Written

LEMMA GateType ==
  ASSUME TypeOK, NEW review \in Review \cup {NoReview, Strayed}
  PROVE  Gate(review) \in Review \cup {NoReview, Strayed}
BY DEF Gate

RunRow == [status: Status, jobs: SUBSET Job]

LEMMA AdvanceType ==
  ASSUME current \in Steps, NEW run \in RunRow, NEW event, NEW yes \in BOOLEAN
  PROVE  Advance(run, event, yes) \in RunRow
<1>1. \A s \in Steps : EnqueueExecute(run.jobs, s) \in SUBSET Job
  BY EnqueueType DEF RunRow
<1>2. EnqueueResume(run.jobs, current) \in SUBSET Job
  BY EnqueueType DEF RunRow
<1>3. /\ YesOf[current] \in Steps \cup {NoStep}
      /\ NoOf[current] \in Steps \cup {NoStep}
      /\ NextOf[current] \in Steps \cup {NoStep}
  OBVIOUS
<1> QED
  BY <1>1, <1>2, <1>3 DEF Advance, AdvanceFrom, RunRow, Status, Runnable

LEMMA CaseStatusChangedType ==
  ASSUME current \in Steps, NEW run \in RunRow, NEW old, NEW new,
         NEW yes \in BOOLEAN
  PROVE  CaseStatusChanged(run, old, new, yes) \in RunRow
<1>1. EnqueueResume(run.jobs, current) \in SUBSET Job
  BY EnqueueType DEF RunRow
<1> QED
  BY <1>1, AdvanceType
     DEF CaseStatusChanged, FollowCase, RunRow, Status, Runnable, Terminal

LEMMA AddDecision ==
  ASSUME TypeOK, NEW r \in Review, NEW continue \in BOOLEAN
  PROVE  callbacks \cup {[review |-> r, continue |-> continue]}
           \in SUBSET [review: Review, continue: BOOLEAN]
BY DEF TypeOK

-----------------------------------------------------------------------------
(* The type invariant, action by action. *)

(* An execution that ends in one transaction, whatever it decides.         *)
LEMMA ConcludeType ==
  ASSUME TypeOK, NEW e \in execs, NEW new \in Status, NEW result \in Outcome,
         NEW js \in SUBSET Job, Conclude(e, new, result, js)
  PROVE  /\ status' \in Status
         /\ current' \in Steps
         /\ jobs' \in SUBSET Job
         /\ orphans' \in SUBSET Job
         /\ execs' \in SUBSET Exec
         /\ outcome' \in [Steps -> Outcome]
         /\ elapsed' \in SUBSET Steps
         /\ inputs' \in 0..MaxInputs
         /\ faults' \in 0..MaxFaults
         /\ sends' \in [Steps -> Nat]
         /\ unsaved' \in [Steps -> Nat]
         /\ dropped' \in BOOLEAN
         /\ leapt' \in SUBSET Steps
<1>1. e \in Exec /\ Step(e) \in Steps
  BY DEF TypeOK, Exec, Job, Step
<1>2. status' \in Status
  BY <1>1, WrittenType DEF Conclude, TypeOK
<1>3. CloseWaits(Step(e)) \in [Steps -> Outcome]
  BY <1>1, CloseWaitsType DEF TypeOK
<1>4. outcome' \in [Steps -> Outcome]
  BY <1>3 DEF Conclude
<1> QED
  BY <1>1, <1>2, <1>4 DEF Conclude, Leave, TypeOK

LEMMA CaseBlocksType ==
  ASSUME TypeOK, NEW e \in execs, NEW bs \in SUBSET Block
  PROVE  CaseBlocks(e, bs) \in SUBSET Block
<1>1. Step(e) \in Steps
  BY DEF TypeOK, Exec, Job, Step
<1> QED
  BY <1>1 DEF CaseBlocks

AccountOK ==
  /\ blocks \in SUBSET Block
  /\ reviews \in [Review -> {"none", "approved", "rejected"} \cup OpenReview]
  /\ callbacks \in SUBSET [review: Review, continue: BOOLEAN]

LEMMA ReassessType ==
  ASSUME TypeOK, NEW e \in execs, Reassess(e) \/ RuleReassess(e)
  PROVE  AccountOK'
<1>1. \A bs \in SUBSET Block : CaseBlocks(e, bs) \in SUBSET Block
  BY CaseBlocksType
<1>2. blocks \in SUBSET Block /\ blocks \cap {"provincial"} \in SUBSET Block
  BY DEF TypeOK, Block
<1>3. Reassess(e) => AccountOK'
  BY <1>1, <1>2 DEF Reassess, FreshReview, AccountOK, TypeOK, OpenReview
<1>4. CASE ~Reassess(e)
  <2>1. blocks' = CaseBlocks(e, blocks) /\ UNCHANGED <<reviews, callbacks>>
    BY <1>4 DEF RuleReassess
  <2> QED
    BY <1>1, <1>2, <2>1 DEF AccountOK, TypeOK
<1> QED
  BY <1>3, <1>4

(* Everything but the account, of an execution that goes on to a next      *)
(* step or stops.                                                          *)
LEMMA PlainType ==
  ASSUME TypeOK, NEW e \in execs,
         \/ ExecutePlain(e) \/ ExecuteWait(e) \/ ExecuteCondition(e)
         \/ ExecuteReassessment(e) \/ ExecuteOutcome(e)
  PROVE  TypeOK'
<1>0. Step(e) \in Steps
  BY DEF TypeOK, Exec, Job, Step
<1>1. \A s \in Steps \cup {NoStep} : EnqueueExecute(jobs, s) \in SUBSET Job
  BY EnqueueType DEF TypeOK
<1>2. Put(jobs, "execute", NextOf[Step(e)], FALSE, Step(e)) \in SUBSET Job
  BY <1>0, PutType DEF TypeOK
<1>3. PICK new \in Status, result \in Outcome, js \in SUBSET Job :
        Conclude(e, new, result, js)
  <2>1. CASE ExecutePlain(e)
    BY <1>0, <1>1, <2>1
       DEF ExecutePlain, Status, Runnable, Outcome, StepDone
  <2>2. CASE ExecuteWait(e)
    BY <1>2, <2>2 DEF ExecuteWait, Status, Runnable, Outcome
  <2>3. CASE ExecuteCondition(e)
    BY <1>0, <1>1, <2>3
       DEF ExecuteCondition, Status, Runnable, Outcome, StepDone
  <2>4. CASE ExecuteReassessment(e)
    BY <1>0, <1>1, <2>4
       DEF ExecuteReassessment, Status, Runnable, Outcome, StepDone
  <2>5. CASE ExecuteOutcome(e)
    BY <2>5 DEF ExecuteOutcome, Status, Terminal, Outcome, StepDone, TypeOK
  <2> QED
    BY <2>1, <2>2, <2>3, <2>4, <2>5
<1>4. AccountOK'
  <2>1. Reassess(e) \/ RuleReassess(e)
    BY DEF ExecutePlain, ExecuteWait, ExecuteCondition, ExecuteReassessment,
           ExecuteOutcome
  <2> QED
    BY <2>1, ReassessType
<1>5. awaits' = awaits /\ gate' = Gate(gate)
  BY DEF ExecutePlain, ExecuteWait, ExecuteCondition, ExecuteReassessment,
         ExecuteOutcome
<1> QED
  BY <1>3, <1>4, <1>5, ConcludeType, GateType DEF TypeOK, AccountOK

LEMMA CommunicationType ==
  ASSUME TypeOK, NEW e \in execs,
         Send(e) \/ NotifySent(e) \/ ExecuteCommunication(e)
  PROVE  TypeOK'
<1>0. e \in Exec /\ Step(e) \in Steps
  BY DEF TypeOK, Exec, Job, Step
<1>1. EnqueueExecute(jobs, NextOf[Step(e)]) \in SUBSET Job
  BY <1>0, EnqueueType DEF TypeOK
<1>2. CloseWaits(Step(e)) \in [Steps -> Outcome]
  BY <1>0, CloseWaitsType DEF TypeOK
<1>3. Written(e, "Active") \in Status
  BY <1>0, WrittenType DEF TypeOK, Status, Runnable
<1>4. \A phase \in {"sent", "notified"} :
        [e EXCEPT !.phase = phase] \in Exec
  BY <1>0 DEF Exec
<1>5. CASE Send(e)
  <2>1. sends' \in [Steps -> Nat]
    BY <1>0, <1>5 DEF Send, TypeOK
  <2>2. execs' \in SUBSET Exec
    BY <1>4, <1>5 DEF Send, Move, TypeOK
  <2> QED
    BY <1>5, <2>1, <2>2 DEF Send, TypeOK
<1>6. CASE NotifySent(e)
  BY <1>0, <1>2, <1>3, <1>4, <1>6, GateType DEF NotifySent, Move, TypeOK
<1>7. CASE ExecuteCommunication(e)
  <2>1. AccountOK'
    BY <1>7, ReassessType DEF ExecuteCommunication
  <2>2. outcome' \in [Steps -> Outcome]
    BY <1>2, <1>7 DEF ExecuteCommunication, Outcome, StepDone
  <2>3. status' \in Status /\ current' \in Steps
    BY <1>0, <1>3, <1>7 DEF ExecuteCommunication, TypeOK, Status, Runnable
  <2> QED
    BY <1>1, <1>7, <2>1, <2>2, <2>3, GateType
       DEF ExecuteCommunication, Leave, TypeOK, AccountOK
<1> QED
  BY <1>5, <1>6, <1>7

LEMMA RuleType ==
  ASSUME TypeOK, NEW e \in execs,
         \/ PreventCommunication(e) \/ NotifyPrevented(e)
         \/ EnqueueAfterPrevented(e) \/ HoldAction(e) \/ ChangeWorkflow(e)
         \/ PauseForHumanReview(e)
  PROVE  TypeOK'
<1> USE DEF Status, Runnable, Terminal, Outcome, StepDone
<1>0. e \in Exec /\ Step(e) \in Steps
  BY DEF TypeOK, Exec, Job, Step
<1>1. EnqueueExecute(jobs, NextOf[Step(e)]) \in SUBSET Job
  BY <1>0, EnqueueType DEF TypeOK
<1>2. jobs \in SUBSET Job /\ {} \in SUBSET Job
  BY DEF TypeOK
<1>3. CASE PreventCommunication(e)
  BY <1>1, <1>3, ConcludeType, GateType DEF PreventCommunication, TypeOK
<1>4. CASE NotifyPrevented(e)
  <2>1. CloseWaits(Step(e)) \in [Steps -> Outcome]
    BY <1>0, CloseWaitsType DEF TypeOK
  <2>2. Written(e, "Active") \in Status
    BY <1>0, WrittenType DEF TypeOK
  <2>3. [e EXCEPT !.phase = "prevented"] \in Exec
    BY <1>0 DEF Exec
  <2> QED
    BY <1>0, <1>4, <2>1, <2>2, <2>3, GateType DEF NotifyPrevented, Move, TypeOK
<1>5. CASE EnqueueAfterPrevented(e)
  BY <1>1, <1>5 DEF EnqueueAfterPrevented, Leave, TypeOK
<1>6. CASE HoldAction(e)
  BY <1>2, <1>6, ConcludeType, GateType DEF HoldAction, TypeOK
<1>7. CASE ChangeWorkflow(e)
  BY <1>2, <1>7, ConcludeType, GateType DEF ChangeWorkflow, TypeOK
<1>8. CASE PauseForHumanReview(e)
  <2>1. Conclude(e, "Paused", "paused", jobs)
    BY <1>8 DEF PauseForHumanReview
  <2>2. AccountOK' /\ awaits' \in Review
    BY <1>8 DEF PauseForHumanReview, FreshReview, AccountOK, TypeOK, OpenReview, Block
  <2>3. gate' \in Review \cup {NoReview, Strayed}
    BY <1>8, GateType DEF PauseForHumanReview, TypeOK
  <2> QED
    BY <1>2, <2>1, <2>2, <2>3, ConcludeType DEF TypeOK, AccountOK
<1> QED
  BY <1>3, <1>4, <1>5, <1>6, <1>7, <1>8

(* The transactions of a worker that are one step.                         *)
LEMMA HandleJobType ==
  ASSUME TypeOK, NEW j \in jobs, NEW left \in Left(j), HandleJob(j, left)
  PROVE  TypeOK'
<1> USE DEF Status, Runnable, Terminal, Outcome, StepDone
<1>0. j \in Job /\ j.step \in Steps
  BY DEF TypeOK, Job
<1>1. left \in SUBSET Job
  BY DEF Left, TypeOK
<1>2. CloseWaits(j.step) \in [Steps -> Outcome]
  BY <1>0, CloseWaitsType DEF TypeOK
<1>3. CASE SkipStep(j, left)
  BY <1>1, <1>3 DEF SkipStep, TypeOK
<1>4. CASE SkipDuplicate(j, left)
  BY <1>1, <1>2, <1>4 DEF SkipDuplicate, TypeOK
<1>5. CASE BlockedStep(j, left)
  <2>1. CancelPending(left, j) \in SUBSET Job
    BY <1>1 DEF CancelPending
  <2>2. outcome' \in [Steps -> Outcome]
    BY <1>2, <1>5 DEF BlockedStep
  <2> QED
    BY <1>1, <1>5, <2>1, <2>2 DEF BlockedStep, TypeOK
<1>6. CASE UnknownStep(j, left)
  BY <1>1, <1>2, <1>6 DEF UnknownStep, TypeOK
<1>7. CASE Begin(j, left)
  <2>1. [job |-> j, seen |-> status, phase |-> "begun"] \in Exec
    BY <1>0, <1>7 DEF Begin, Exec
  <2> QED
    BY <1>1, <1>7, <2>1 DEF Begin, TypeOK
<1>8. CASE IgnoreResume(j, left)
  BY <1>1, <1>8 DEF IgnoreResume, TypeOK
<1>9. CASE ResumeRun(j, left)
  <2> DEFINE again == j.after /\ Kind[j.step] # "Human Review"
             target == IF again THEN j.step ELSE Past(j.step)
  <2>1. target \in Steps /\ again \in BOOLEAN
    BY <1>0 DEF Past, Job
  <2>2. Put(left, "execute", target, again, NoStep) \in SUBSET Job
    BY <1>1, <2>1, PutType
  <2>3. outcome' \in [Steps -> Outcome]
    BY <1>9 DEF ResumeRun, TypeOK
  <2>4. jobs' \in SUBSET Job
    BY <1>9, <2>2 DEF ResumeRun
  <2> QED
    BY <1>9, <2>3, <2>4 DEF ResumeRun, TypeOK
<1> QED
  BY <1>3, <1>4, <1>5, <1>6, <1>7, <1>8, <1>9 DEF HandleJob

LEMMA FaultType == ASSUME TypeOK, Fault PROVE TypeOK'
<1> USE DEF Status, Runnable, Outcome
<1>0. ASSUME NEW e \in execs, Unsave(e) PROVE unsaved' \in [Steps -> Nat]
  <2>1. Step(e) \in Steps
    BY DEF TypeOK, Exec, Job, Step
  <2> QED
    BY <1>0, <2>1 DEF Unsave, TypeOK
<1>1. ASSUME NEW e \in execs, NEW retry \in BOOLEAN, StepRaises(e, retry)
      PROVE  TypeOK'
  <2>1. e \in Exec /\ e.job \in Job /\ Step(e) \in Steps
    BY DEF TypeOK, Exec, Job, Step
  <2>2. status' \in Status /\ current' \in Steps
    BY <1>1, <2>1, WrittenType DEF StepRaises, TypeOK
  <2>3. CloseWaits(Step(e)) \in [Steps -> Outcome]
    BY <2>1, CloseWaitsType DEF TypeOK
  <2>4. outcome' \in [Steps -> Outcome]
    BY <1>1, <2>3 DEF StepRaises
  <2>5. faults' \in 0..MaxFaults
    BY <1>1 DEF StepRaises, TypeOK
  <2>6. unsaved' \in [Steps -> Nat]
    BY <1>0, <1>1 DEF StepRaises
  <2>7. jobs' \in SUBSET Job /\ execs' \in SUBSET Exec /\ dropped' \in BOOLEAN
    BY <1>1, <2>1 DEF StepRaises, Leave, TypeOK
  <2> QED
    BY <1>1, <2>2, <2>4, <2>5, <2>6, <2>7, GateType DEF StepRaises, TypeOK
<1>2. ASSUME NEW e \in execs, WorkerDies(e) PROVE TypeOK'
  <2>1. e.job \in Job
    BY DEF TypeOK, Exec
  <2>2. faults' \in 0..MaxFaults
    BY <1>2 DEF WorkerDies, TypeOK
  <2>3. unsaved' \in [Steps -> Nat]
    BY <1>0, <1>2 DEF WorkerDies
  <2> QED
    BY <1>2, <2>1, <2>2, <2>3 DEF WorkerDies, Leave, TypeOK
<1>3. ASSUME NEW c \in callbacks, LoseCallback(c) PROVE TypeOK'
  <2>1. faults' \in 0..MaxFaults
    BY <1>3 DEF LoseCallback, TypeOK
  <2> QED
    BY <1>3, <2>1 DEF LoseCallback, TypeOK
<1> QED
  BY <1>1, <1>2, <1>3 DEF Fault

LEMMA OutsideType == ASSUME TypeOK, Outside PROVE TypeOK'
<1>0. ASSUME NEW kind, Happens(kind) PROVE inputs' \in 0..MaxInputs
  BY <1>0 DEF Happens, TypeOK
<1>1. Run \in RunRow /\ current \in Steps
  BY DEF Run, RunRow, TypeOK
<1>2. ASSUME NEW run \in RunRow, Store(run)
      PROVE  status' \in Status /\ jobs' \in SUBSET Job
  BY <1>2 DEF RunRow, Store
<1>3. ASSUME NEW new \in SUBSET Block, NEW yes \in BOOLEAN,
             OnPaymentEvent(new, yes)
      PROVE  TypeOK'
  <2>1. Advance(Run, "payment", yes) \in RunRow
    BY <1>1, AdvanceType
  <2> QED
    BY <1>0, <1>2, <1>3, <2>1 DEF OnPaymentEvent, TypeOK
<1>4. ASSUME NEW new \in SUBSET Block, NEW paid \in BOOLEAN, NEW yes \in BOOLEAN,
             OnAccountImportChanged(new, paid, yes)
      PROVE  TypeOK'
  <2> DEFINE seen == IF paid THEN Advance(Run, "payment", yes) ELSE Run
  <2>1. seen \in RunRow
    BY <1>1, AdvanceType
  <2>2. CaseStatusChanged(seen, blocks, new, yes) \in RunRow
    BY <1>1, <2>1, CaseStatusChangedType
  <2>3. Store(CaseStatusChanged(seen, blocks, new, yes))
    BY <1>4 DEF OnAccountImportChanged
  <2>4. status' \in Status /\ jobs' \in SUBSET Job
    BY <1>2, <2>2, <2>3
  <2> QED
    BY <1>0, <1>4, <2>4 DEF OnAccountImportChanged, TypeOK
<1>5. ASSUME NEW yes \in BOOLEAN, OnCommunicationEvent(yes) PROVE TypeOK'
  <2>1. Advance(Run, "communication", yes) \in RunRow
    BY <1>1, AdvanceType
  <2> QED
    BY <1>0, <1>2, <1>5, <2>1 DEF OnCommunicationEvent, TypeOK
<1>6. CASE OnStrategyDeactivated
  BY <1>0, <1>6 DEF OnStrategyDeactivated, Close, TypeOK, Status, Terminal
<1>7. ASSUME NEW closeReview \in BOOLEAN, Supersede(closeReview) PROVE TypeOK'
  BY <1>0, <1>7 DEF Supersede, Close, TypeOK, Status, Terminal
<1>8. ASSUME NEW r \in Review, OpenGovernanceReview(r) \/ HoldOrRelease(r)
      PROVE  TypeOK'
  BY <1>0, <1>8 DEF OpenGovernanceReview, HoldOrRelease, TypeOK, OpenReview
<1> QED
  BY <1>3, <1>4, <1>5, <1>6, <1>7, <1>8 DEF Outside

LEMMA DecisionType == ASSUME TypeOK, Reviewer \/ Hook PROVE TypeOK'
<1>1. ASSUME NEW r \in Review, NEW continue \in BOOLEAN, Decide(r, continue)
      PROVE  TypeOK'
  BY <1>1, AddDecision DEF Decide, TypeOK
<1>2. ASSUME NEW c \in callbacks, OnHumanReviewDecided(c) PROVE TypeOK'
  <2>1. Put(jobs, "resume", current, TRUE, NoStep) \in SUBSET Job
    BY PutType DEF TypeOK
  <2>2. status' \in Status
    BY <1>2 DEF OnHumanReviewDecided, TypeOK, Status, Terminal
  <2>3. jobs' \in SUBSET Job
    BY <1>2, <2>1 DEF OnHumanReviewDecided, TypeOK
  <2> QED
    BY <1>2, <2>2, <2>3 DEF OnHumanReviewDecided, TypeOK
<1> QED
  BY <1>1, <1>2 DEF Reviewer, Hook

LEMMA TypeStep == TypeOK /\ [Next]_vars => TypeOK'
<1> SUFFICES ASSUME TypeOK, [Next]_vars PROVE TypeOK'
  OBVIOUS
<1>1. ASSUME NEW e \in execs, Proceed(e) PROVE TypeOK'
  BY <1>1, PlainType, CommunicationType, RuleType DEF Proceed
<1>2. ASSUME NEW j \in orphans, Reclaim(j) PROVE TypeOK'
  BY <1>2 DEF Reclaim, TypeOK
<1>3. CASE Worker
  BY <1>1, <1>2, <1>3, HandleJobType DEF Worker
<1>4. CASE Clock
  BY <1>4 DEF Clock, WaitElapses, TypeOK
<1>5. CASE UNCHANGED vars
  BY <1>5 DEF vars, TypeOK
<1> QED
  BY <1>3, <1>4, <1>5, FaultType, OutsideType, DecisionType DEF Next

LEMMA TypeInit == Init => TypeOK
<1> SUFFICES ASSUME Init PROVE TypeOK
  OBVIOUS
<1>1. EnqueueExecute({}, Entry) \in SUBSET Job
  BY EnqueueType
<1>2. /\ status \in Status
      /\ outcome \in [Steps -> Outcome]
      /\ reviews \in [Review -> {"none", "approved", "rejected"} \cup OpenReview]
  BY DEF Init, Status, Runnable, Outcome
<1>3. /\ inputs \in 0..MaxInputs
      /\ faults \in 0..MaxFaults
      /\ sends \in [Steps -> Nat]
      /\ unsaved \in [Steps -> Nat]
  BY DEF Init
<1> QED
  BY <1>1, <1>2, <1>3 DEF Init, TypeOK

(* The type invariant: whatever order jobs, events, reviews and faults     *)
(* come in, the run keeps a known status and a job never names a step the  *)
(* strategy could not have named.                                          *)
THEOREM TypeCorrect == Spec => []TypeOK
BY TypeInit, TypeStep, PTL DEF Spec

-----------------------------------------------------------------------------
(* One thread: at most one execution of the run is in flight. *)

Sole == execs = {} \/ \E e \in Exec : execs = {e}

LEMMA DeliverIdle ==
  ASSUME MaxExecs = 1, Sole, NEW j, NEW type, Deliver(j, type)
  PROVE  execs = {}
<1>1. \A e \in Exec : Cardinality({e}) = 1
  BY FS_Singleton
<1> QED
  BY <1>1 DEF Sole, Deliver

LEMMA HandleIdle ==
  ASSUME MaxExecs = 1, Sole, NEW j, NEW left, HandleJob(j, left)
  PROVE  execs = {}
BY DeliverIdle DEF HandleJob, SkipStep, SkipDuplicate, BlockedStep, UnknownStep,
                   Begin, IgnoreResume, ResumeRun

(* An execution in flight leaves or changes its phase; it never starts     *)
(* another.                                                                *)
LEMMA ProceedAlone ==
  ASSUME TypeOK, Sole, NEW e \in execs, Proceed(e)
  PROVE  /\ execs = {e}
         /\ \/ execs' = {}
            \/ /\ execs' = {[e EXCEPT !.phase = "sent"]}
               /\ Send(e)
            \/ /\ execs' = {[e EXCEPT !.phase = "notified"]}
               /\ NotifySent(e)
            \/ /\ execs' = {[e EXCEPT !.phase = "prevented"]}
               /\ NotifyPrevented(e)
<1>1. execs = {e}
  BY DEF Sole
<1>2. CASE Send(e)
  BY <1>1, <1>2 DEF Send, Move
<1>3. CASE NotifySent(e)
  BY <1>1, <1>3 DEF NotifySent, Move
<1>4. CASE NotifyPrevented(e)
  BY <1>1, <1>4 DEF NotifyPrevented, Move
<1>5. ASSUME ~Send(e), ~NotifySent(e), ~NotifyPrevented(e) PROVE execs' = {}
  <2>1. Leave(e)
    BY <1>5 DEF Proceed, ExecutePlain, ExecuteWait, ExecuteCondition,
                ExecuteReassessment, ExecuteOutcome, ExecuteCommunication,
                PreventCommunication, EnqueueAfterPrevented, HoldAction,
                ChangeWorkflow, PauseForHumanReview, Conclude
  <2> QED
    BY <1>1, <2>1 DEF Leave
<1> QED
  BY <1>1, <1>2, <1>3, <1>4, <1>5

(* The steps that start, move or end no execution.                         *)
LEMMA ElsewhereIdle ==
  ASSUME Outside \/ Reviewer \/ Hook \/ Clock \/ (\E j \in orphans : Reclaim(j))
           \/ (\E c \in callbacks : LoseCallback(c))
  PROVE  execs' = execs
BY DEF Outside, OnPaymentEvent, OnAccountImportChanged, OnCommunicationEvent,
       OnStrategyDeactivated, Supersede, Close, OpenGovernanceReview,
       HoldOrRelease, Reviewer, Decide, Hook, OnHumanReviewDecided, Clock,
       WaitElapses, Reclaim, LoseCallback

LEMMA SoleStep ==
  ASSUME MaxExecs = 1, TypeOK, Sole, [Next]_vars PROVE Sole'
<1>1. ASSUME NEW j \in jobs, NEW left \in Left(j), HandleJob(j, left) PROVE Sole'
  <2>1. execs = {}
    BY <1>1, HandleIdle
  <2>2. CASE Begin(j, left)
    <3>1. [job |-> j, seen |-> status, phase |-> "begun"] \in Exec
      BY <2>2 DEF Begin, Exec, TypeOK
    <3> QED
      BY <2>1, <2>2, <3>1 DEF Begin, Sole
  <2>3. CASE ~Begin(j, left)
    BY <1>1, <2>1, <2>3 DEF HandleJob, SkipStep, SkipDuplicate, BlockedStep,
                            UnknownStep, IgnoreResume, ResumeRun, Sole
  <2> QED
    BY <2>2, <2>3
<1>2. ASSUME NEW e \in execs, Proceed(e) PROVE Sole'
  <2>1. \A phase \in {"sent", "notified", "prevented"} :
          [e EXCEPT !.phase = phase] \in Exec
    BY DEF TypeOK, Exec
  <2> QED
    BY <1>2, <2>1, ProceedAlone DEF Sole
<1>3. ASSUME NEW e \in execs, (\E retry \in BOOLEAN : StepRaises(e, retry)) \/ WorkerDies(e)
      PROVE  Sole'
  BY <1>3 DEF StepRaises, WorkerDies, Leave, Sole
<1>4. ASSUME execs' = execs PROVE Sole'
  BY <1>4 DEF Sole
<1>5. CASE UNCHANGED vars
  BY <1>4, <1>5 DEF vars
<1> QED
  BY <1>1, <1>2, <1>3, <1>4, <1>5, ElsewhereIdle DEF Next, Worker, Fault

-----------------------------------------------------------------------------
(* A finished run stays finished. *)

(* Why: an execution that holds the row lock is the only one that does,    *)
(* and the run is Waiting until it commits ...                             *)
HolderWaits ==
  \A e, f \in execs : Holds(e) => status = "Waiting" /\ (Holds(f) => f = e)

LEMMA HandleJobHolds ==
  ASSUME TypeOK, HolderWaits,
         NEW j \in jobs, NEW left \in Left(j), HandleJob(j, left)
  PROVE  HolderWaits'
<1>1. \A e \in execs : ~Holds(e)
  BY DEF HandleJob, SkipStep, SkipDuplicate, BlockedStep, UnknownStep, Begin,
         IgnoreResume, ResumeRun, Deliver, Locked
<1>2. CASE Begin(j, left)
  <2> DEFINE new == [job |-> j, seen |-> status, phase |-> "begun"]
  <2>1. execs' = execs \cup {new} /\ status' = status
    BY <1>2 DEF Begin
  <2>2. \A e \in execs' : Holds(e) => e = new
    BY <1>1, <2>1
  <2>3. Holds(new) => status' = "Waiting"
    BY <2>1 DEF Holds
  <2> HIDE DEF new
  <2> QED
    BY <2>2, <2>3 DEF HolderWaits, Holds
<1>3. CASE ~Begin(j, left)
  <2>1. execs' = execs
    BY <1>3 DEF HandleJob, SkipStep, SkipDuplicate, BlockedStep, UnknownStep,
                IgnoreResume, ResumeRun
  <2> QED
    BY <1>1, <2>1 DEF HolderWaits, Holds
<1> QED
  BY <1>2, <1>3

(* ... and another that writes the row waits for it.                       *)
Moved(e) ==
  \/ Leave(e)
  \/ \E phase \in {"notified", "prevented"} : Move(e, phase)

LEMMA MovedHolds ==
  ASSUME TypeOK, HolderWaits, NEW e \in execs, Moved(e),
         \/ RowFree(e)
         \/ status' = status
  PROVE  HolderWaits'
<1>0. \A phase \in {"notified", "prevented"} : ~Holds([e EXCEPT !.phase = phase])
  BY DEF TypeOK, Exec, Holds
<1>1. \A f \in execs' : Holds(f) => f \in execs \ {e}
  <2>1. CASE Leave(e)
    BY <2>1 DEF Leave
  <2>2. ASSUME NEW phase \in {"notified", "prevented"}, Move(e, phase)
        PROVE  \A f \in execs' : Holds(f) => f \in execs \ {e}
    <3> DEFINE new == [e EXCEPT !.phase = phase]
    <3>1. ~Holds(new) /\ execs' = (execs \ {e}) \cup {new}
      BY <1>0, <2>2 DEF Move
    <3> HIDE DEF new
    <3> QED
      BY <3>1
  <2> QED
    BY <2>1, <2>2 DEF Moved
<1>2. ASSUME NEW f \in execs', Holds(f) PROVE status' = "Waiting"
  <2>1. f \in execs /\ f # e /\ status = "Waiting"
    BY <1>1, <1>2 DEF HolderWaits
  <2>2. Locked /\ ~Holds(e)
    BY <1>2, <2>1 DEF Locked, HolderWaits
  <2> QED
    BY <2>1, <2>2 DEF RowFree
<1> QED
  BY <1>1, <1>2 DEF HolderWaits, Holds

LEMMA ProceedHolds ==
  ASSUME TypeOK, HolderWaits, NEW e \in execs, Proceed(e)
  PROVE  HolderWaits'
<1>1. CASE Send(e)
  <2> DEFINE new == [e EXCEPT !.phase = "sent"]
  <2>1. execs' = (execs \ {e}) \cup {new} /\ status' = status
    BY <1>1 DEF Send, Move
  <2>2. Holds(new) <=> Holds(e)
    BY <1>1 DEF Send, Holds, TypeOK, Exec
  <2> HIDE DEF new
  <2>3. \A f \in execs \ {e} : Holds(e) => ~Holds(f)
    BY DEF HolderWaits
  <2>4. \A f \in execs' : Holds(f) => status' = "Waiting"
    BY <2>1, <2>2 DEF HolderWaits
  <2>5. \A f, g \in execs' : Holds(f) /\ Holds(g) => f = g
    BY <2>1, <2>2, <2>3 DEF HolderWaits
  <2> QED
    BY <2>4, <2>5 DEF HolderWaits, Holds
<1>2. CASE NotifySent(e) \/ NotifyPrevented(e)
  <2>1. Moved(e) /\ RowFree(e)
    BY <1>2 DEF NotifySent, NotifyPrevented, Moved
  <2> QED
    BY <2>1, MovedHolds
<1>3. CASE EnqueueAfterPrevented(e)
  <2>1. Moved(e) /\ status' = status
    BY <1>3 DEF EnqueueAfterPrevented, Moved
  <2> QED
    BY <2>1, MovedHolds
<1>4. CASE ~Send(e) /\ ~NotifySent(e) /\ ~NotifyPrevented(e)
           /\ ~EnqueueAfterPrevented(e)
  <2>1. Leave(e) /\ RowFree(e)
    BY <1>4 DEF Proceed, ExecutePlain, ExecuteWait, ExecuteCondition,
                ExecuteReassessment, ExecuteOutcome, ExecuteCommunication,
                PreventCommunication, HoldAction, ChangeWorkflow,
                PauseForHumanReview, Conclude
  <2> QED
    BY <2>1, MovedHolds DEF Moved
<1> QED
  BY <1>1, <1>2, <1>3, <1>4

(* Nobody else writes the row while it is locked.                          *)
LEMMA ElsewhereHolds ==
  ASSUME Outside \/ Reviewer \/ Hook \/ Clock \/ (\E j \in orphans : Reclaim(j))
           \/ (\E c \in callbacks : LoseCallback(c))
  PROVE  ~Locked \/ status' = status
BY DEF Outside, OnPaymentEvent, OnAccountImportChanged, OnCommunicationEvent,
       OnStrategyDeactivated, Supersede, OpenGovernanceReview,
       HoldOrRelease, Happens, Reviewer, Decide, Hook, OnHumanReviewDecided, Clock,
       WaitElapses, Reclaim, LoseCallback

LEMMA HolderStep ==
  ASSUME TypeOK, HolderWaits, [Next]_vars PROVE HolderWaits'
<1>1. ASSUME execs' = execs, ~Locked \/ status' = status PROVE HolderWaits'
  BY <1>1 DEF HolderWaits, Locked, Holds
<1>2. ASSUME NEW e \in execs, NEW retry \in BOOLEAN, StepRaises(e, retry)
      PROVE  HolderWaits'
  <2>1. Leave(e) /\ RowFree(e)
    BY <1>2 DEF StepRaises
  <2> QED
    BY <2>1, MovedHolds DEF Moved
<1>3. ASSUME NEW e \in execs, WorkerDies(e) PROVE HolderWaits'
  <2>1. Leave(e) /\ status' = status
    BY <1>3 DEF WorkerDies
  <2> QED
    BY <2>1, MovedHolds DEF Moved
<1>4. CASE UNCHANGED vars
  BY <1>1, <1>4 DEF vars
<1> QED
  BY <1>1, <1>2, <1>3, <1>4, ElsewhereIdle, ElsewhereHolds, HandleJobHolds,
     ProceedHolds DEF Next, Worker, Fault

(* What TerminalIsFinal asks of one step.                                  *)
NoneBegins == \A e \in execs' \ execs : e.phase # "begun"
WrittenLate ==
  \E e \in execs \ execs' : (status' = "Active") => e.phase = "notified"
Final == (status \in Terminal) => NoneBegins /\ (status' = status \/ WrittenLate)

LEMMA HandleJobFinal ==
  ASSUME NEW j \in jobs, NEW left \in Left(j), HandleJob(j, left)
  PROVE  Final
<1> USE DEF Final, NoneBegins
<1>1. Runnable \cap Terminal = {}
  BY DEF Runnable, Terminal
<1>2. CASE SkipStep(j, left) \/ IgnoreResume(j, left)
  BY <1>2 DEF SkipStep, IgnoreResume
<1>3. CASE \/ SkipDuplicate(j, left) \/ BlockedStep(j, left)
           \/ UnknownStep(j, left) \/ Begin(j, left) \/ ResumeRun(j, left)
  BY <1>1, <1>3 DEF SkipDuplicate, BlockedStep, UnknownStep, Begin, ResumeRun
<1> QED
  BY <1>2, <1>3 DEF HandleJob

LEMMA ProceedFinal ==
  ASSUME TypeOK, HolderWaits, NEW e \in execs, Proceed(e), status \in Terminal
  PROVE  Final
<1>1. ~Holds(e)
  BY DEF HolderWaits, Terminal
<1>2. e \in Exec
  BY DEF TypeOK
<1>3. e.phase \in {"begun", "sent"} => Written(e, "Active") = status
  BY <1>1, <1>2 DEF Holds, Written, Exec, Runnable
<1>4. CASE Send(e) \/ NotifySent(e) \/ NotifyPrevented(e)
  <2>1. \A phase \in {"sent", "notified", "prevented"} :
          [e EXCEPT !.phase = phase].phase = phase
    BY <1>2 DEF Exec
  <2>2. PICK phase \in {"sent", "notified", "prevented"} : Move(e, phase)
    BY <1>4 DEF Send, NotifySent, NotifyPrevented
  <2>3. NoneBegins
    BY <2>1, <2>2 DEF Move, NoneBegins
  <2>4. status' = status
    BY <1>3, <1>4 DEF Send, NotifySent, NotifyPrevented
  <2> QED
    BY <2>3, <2>4 DEF Final
<1>5. CASE Leave(e)
  <2>1. NoneBegins /\ e \in execs \ execs'
    BY <1>5 DEF Leave, NoneBegins
  <2>2. status' = status \/ status' # "Active" \/ e.phase = "notified"
    <3>1. ASSUME NEW new, NEW result, NEW js, Conclude(e, new, result, js)
          PROVE  status' = status \/ status' # "Active"
      BY <1>1, <1>2, <3>1 DEF Conclude, Holds, Written, Exec, Runnable
    <3>2. CASE ExecuteCommunication(e)
      BY <1>3, <3>2 DEF ExecuteCommunication
    <3>3. CASE EnqueueAfterPrevented(e)
      BY <3>3 DEF EnqueueAfterPrevented
    <3>4. CASE Send(e) \/ NotifySent(e) \/ NotifyPrevented(e)
      BY <1>3, <3>4 DEF Send, NotifySent, NotifyPrevented
    <3> QED
      BY <3>1, <3>2, <3>3, <3>4
         DEF Proceed, ExecutePlain, ExecuteWait, ExecuteCondition,
             ExecuteReassessment, ExecuteOutcome, PreventCommunication,
             HoldAction, ChangeWorkflow, PauseForHumanReview
  <2> QED
    BY <2>1, <2>2 DEF Final, WrittenLate
<1>6. ~(Send(e) \/ NotifySent(e) \/ NotifyPrevented(e)) => Leave(e)
  BY DEF Proceed, ExecutePlain, ExecuteWait, ExecuteCondition,
         ExecuteReassessment, ExecuteOutcome, ExecuteCommunication,
         PreventCommunication, EnqueueAfterPrevented, HoldAction,
         ChangeWorkflow, PauseForHumanReview, Conclude
<1> QED
  BY <1>4, <1>5, <1>6

(* The outside hooks look at the status before they write it.              *)
LEMMA OutsideFinal ==
  ASSUME Outside, status \in Terminal PROVE status' = status
<1>1. \A run, event, yes : run.status \in Terminal => Advance(run, event, yes) = run
  BY DEF Advance, AdvanceFrom, Runnable, Terminal
<1>2. Run.status = status
  BY DEF Run
<1>3. ASSUME NEW new \in SUBSET Block, NEW yes \in BOOLEAN,
             OnPaymentEvent(new, yes)
      PROVE  status' = status
  BY <1>1, <1>2, <1>3 DEF OnPaymentEvent, Store
<1>4. ASSUME NEW new \in SUBSET Block, NEW paid \in BOOLEAN, NEW yes \in BOOLEAN,
             OnAccountImportChanged(new, paid, yes)
      PROVE  status' = status
  <2>1. CaseStatusChanged(IF paid THEN Advance(Run, "payment", yes) ELSE Run,
                          blocks, new, yes) = Run
    BY <1>1, <1>2 DEF CaseStatusChanged
  <2> QED
    BY <1>2, <1>4, <2>1 DEF OnAccountImportChanged, Store
<1>5. ASSUME NEW yes \in BOOLEAN, OnCommunicationEvent(yes) PROVE status' = status
  BY <1>1, <1>2, <1>5 DEF OnCommunicationEvent, Store
<1>6. CASE OnStrategyDeactivated \/ \E closeReview \in BOOLEAN : Supersede(closeReview)
  BY <1>6 DEF OnStrategyDeactivated, Supersede, Close
<1>7. ASSUME NEW r \in Review, OpenGovernanceReview(r) \/ HoldOrRelease(r)
      PROVE  status' = status
  BY <1>7 DEF OpenGovernanceReview, HoldOrRelease
<1> QED
  BY <1>3, <1>4, <1>5, <1>6, <1>7 DEF Outside

LEMMA FinalStep == ASSUME TypeOK, HolderWaits, Next PROVE Final
<1>1. ASSUME UNCHANGED <<status, execs>> PROVE Final
  BY <1>1 DEF Final, NoneBegins
<1>2. CASE Worker
  BY <1>1, <1>2, HandleJobFinal, ProceedFinal DEF Worker, Reclaim, Final
<1>3. CASE Outside
  BY <1>3, OutsideFinal, ElsewhereIdle DEF Final, NoneBegins
<1>4. CASE Reviewer \/ Clock
  BY <1>1, <1>4 DEF Reviewer, Decide, Clock, WaitElapses
<1>5. CASE Hook
  <2>1. status \in Terminal => status' = status
    BY <1>5 DEF Hook, OnHumanReviewDecided, AwaitsDecision, Terminal
  <2> QED
    BY <1>5, <2>1, ElsewhereIdle DEF Final, NoneBegins
<1>6. ASSUME NEW e \in execs, NEW retry \in BOOLEAN, StepRaises(e, retry)
      PROVE  Final
  <2>1. NoneBegins
    BY <1>6 DEF StepRaises, Leave, NoneBegins
  <2>2. status \in Terminal => status' = status
    <3>1. e \in Exec /\ (status \in Terminal => ~Holds(e))
      BY DEF TypeOK, HolderWaits, Terminal
    <3> QED
      BY <1>6, <3>1 DEF StepRaises, Holds, Written, Exec, Runnable
  <2> QED
    BY <2>1, <2>2 DEF Final
<1>7. ASSUME NEW e \in execs, WorkerDies(e) PROVE Final
  BY <1>7 DEF WorkerDies, Leave, Final, NoneBegins
<1>8. ASSUME NEW c \in callbacks, LoseCallback(c) PROVE Final
  BY <1>1, <1>8 DEF LoseCallback
<1> QED
  BY <1>2, <1>3, <1>4, <1>5, <1>6, <1>7, <1>8 DEF Next, Fault

(* Whatever is delivered again, however many executions are in flight and  *)
(* whatever is committed inside one, no step of a finished run begins, and *)
(* only an execution that was in flight writes its status once more.       *)
THEOREM FinishedStaysFinished == Spec => TerminalIsFinal
<1>1. Init => TypeOK /\ HolderWaits
  BY TypeInit DEF Init, HolderWaits
<1>2. TypeOK /\ HolderWaits /\ [Next]_vars => TypeOK' /\ HolderWaits'
  BY TypeStep, HolderStep
<1>3. TypeOK /\ HolderWaits /\ [Next]_vars => [Final]_vars
  BY FinalStep
<1>4. [Final]_vars =>
        [(status \in Terminal) =>
           /\ \A e \in execs' \ execs : e.phase # "begun"
           /\ (status' # status) =>
                \E e \in execs \ execs' :
                  (status' = "Active") => e.phase = "notified"]_vars
  BY DEF Final, NoneBegins, WrittenLate
<1> QED
  BY <1>1, <1>2, <1>3, <1>4, PTL DEF Spec, TerminalIsFinal

-----------------------------------------------------------------------------
(* A message leaves once. *)

(* Why: the one send a step is allowed is accounted for, by its done row   *)
(* or by the execution that made it ...                                    *)
Sent(s) ==
  \/ outcome[s] = "done"
  \/ \E e \in execs : Step(e) = s /\ e.phase \in {"sent", "notified"}

SendAccounted ==
  \A s \in Steps : sends[s] <= unsaved[s] + (IF Sent(s) THEN 1 ELSE 0)

(* ... and an execution that may still send runs a step that is not done.  *)
InFlightNotDone ==
  \A e \in execs : e.phase \in {"begun", "prevented"} => outcome[Step(e)] # "done"

SendInv == SendAccounted /\ InFlightNotDone

(* Enough to keep the account: nothing is sent, and what was sent stays    *)
(* accounted for.                                                          *)
LEMMA AccountKept ==
  ASSUME TypeOK, SendAccounted, UNCHANGED <<sends, unsaved>>,
         \A s \in Steps : Sent(s) => Sent(s)'
  PROVE  SendAccounted'
BY DEF SendAccounted, TypeOK

LEMMA HandleJobSend ==
  ASSUME MaxExecs = 1, TypeOK, Sole, SendInv,
         NEW j \in jobs, NEW left \in Left(j), HandleJob(j, left)
  PROVE  SendInv'
<1>0. execs = {} /\ j.step \in Steps
  BY HandleIdle DEF TypeOK, Job
<1>1. UNCHANGED <<sends, unsaved>>
  BY DEF HandleJob, SkipStep, SkipDuplicate, BlockedStep, UnknownStep, Begin,
         IgnoreResume, ResumeRun
<1>2. \A s \in Steps : outcome[s] = "done" => outcome'[s] = "done"
  <2>1. CASE SkipStep(j, left) \/ IgnoreResume(j, left) \/ Begin(j, left)
    BY <2>1 DEF SkipStep, IgnoreResume, Begin
  <2>2. CASE SkipDuplicate(j, left) \/ UnknownStep(j, left)
    BY <2>2 DEF SkipDuplicate, UnknownStep, CloseWaits
  <2>3. CASE BlockedStep(j, left)
    <3>1. outcome[j.step] # "done"
      BY <2>3 DEF BlockedStep, IsDuplicate, StepDone
    <3>2. /\ DOMAIN CloseWaits(j.step) = Steps
          /\ \A s \in Steps : outcome[s] = "done" => CloseWaits(j.step)[s] = "done"
      BY DEF CloseWaits
    <3>3. \/ outcome' = CloseWaits(j.step)
          \/ outcome' = [CloseWaits(j.step) EXCEPT ![j.step] = "blocked"]
      BY <2>3 DEF BlockedStep
    <3> QED
      BY <3>1, <3>2, <3>3
  <2>4. CASE ResumeRun(j, left)
    BY <2>4 DEF ResumeRun, TypeOK
  <2> QED
    BY <2>1, <2>2, <2>3, <2>4 DEF HandleJob
<1>3. SendAccounted'
  BY <1>0, <1>1, <1>2, AccountKept DEF SendInv, Sent
<1>4. InFlightNotDone'
  <2>1. CASE Begin(j, left)
    <3>1. outcome'[j.step] # "done"
      BY <2>1 DEF Begin, IsDuplicate, StepDone
    <3>2. \A e \in execs' : Step(e)' = j.step
      BY <1>0, <2>1 DEF Begin, Step
    <3> QED
      BY <3>1, <3>2 DEF InFlightNotDone
  <2>2. CASE ~Begin(j, left)
    <3>1. execs' = {}
      BY <1>0, <2>2 DEF HandleJob, SkipStep, SkipDuplicate, BlockedStep,
                        UnknownStep, IgnoreResume, ResumeRun
    <3> QED
      BY <3>1 DEF InFlightNotDone
  <2> QED
    BY <2>1, <2>2
<1> QED
  BY <1>3, <1>4 DEF SendInv

(* An execution that ends keeps the account: what it sent is done now, and *)
(* the rows of the other steps at most become done.                        *)
LEMMA EndSend ==
  ASSUME TypeOK, SendInv, NEW e \in execs, execs = {e}, execs' = {},
         UNCHANGED <<sends, unsaved>>,
         \A s \in Steps \ {Step(e)} : outcome[s] = "done" => outcome'[s] = "done",
         Sent(Step(e)) => outcome'[Step(e)] = "done"
  PROVE  SendInv'
<1>1. \A s \in Steps : Sent(s) => Sent(s)'
  BY DEF Sent
<1>2. SendAccounted'
  BY <1>1, AccountKept DEF SendInv
<1> QED
  BY <1>2 DEF SendInv, InFlightNotDone

LEMMA ProceedSend ==
  ASSUME MaxExecs = 1, TypeOK, Sole, SendInv, NEW e \in execs, Proceed(e)
  PROVE  SendInv'
<1>0. Step(e) \in Steps /\ execs = {e}
  BY ProceedAlone DEF TypeOK, Exec, Job, Step
<1>1. \A s \in Steps : outcome[s] = "done" => CloseWaits(Step(e))[s] = "done"
  BY DEF CloseWaits
<1>2. \A phase \in {"sent", "notified", "prevented"} :
         /\ [e EXCEPT !.phase = phase].phase = phase
         /\ Step([e EXCEPT !.phase = phase]) = Step(e)
  BY DEF TypeOK, Exec, Step
<1>3. e.phase \in {"begun", "prevented"} => ~Sent(Step(e))
  BY <1>0 DEF SendInv, InFlightNotDone, Sent
<1>4. CASE Send(e)
  <2>1. execs' = {[e EXCEPT !.phase = "sent"]}
    BY <1>0, <1>4 DEF Send, Move
  <2>2. ~Sent(Step(e)) /\ Sent(Step(e))'
    BY <1>2, <1>3, <1>4, <2>1 DEF Send, Sent, Step
  <2>3. \A s \in Steps : Sent(s) => Sent(s)'
    BY <1>0, <1>4, <2>2 DEF Send, Sent
  <2>4. SendAccounted'
    BY <1>0, <1>4, <2>2, <2>3 DEF Send, SendInv, SendAccounted, TypeOK
  <2>5. InFlightNotDone'
    BY <1>2, <2>1 DEF InFlightNotDone
  <2> QED
    BY <2>4, <2>5 DEF SendInv
<1>5. CASE NotifySent(e)
  <2>1. execs' = {[e EXCEPT !.phase = "notified"]}
    BY <1>0, <1>5 DEF NotifySent, Move
  <2>2. \A s \in Steps : Sent(s) => Sent(s)'
    BY <1>0, <1>1, <1>2, <1>5, <2>1 DEF NotifySent, Sent, Step
  <2>3. SendAccounted'
    BY <1>5, <2>2, AccountKept DEF NotifySent, SendInv
  <2>4. InFlightNotDone'
    BY <1>2, <2>1 DEF InFlightNotDone
  <2> QED
    BY <2>3, <2>4 DEF SendInv
<1>6. CASE NotifyPrevented(e)
  <2>1. execs' = {[e EXCEPT !.phase = "prevented"]}
    BY <1>0, <1>6 DEF NotifyPrevented, Move
  <2>2. outcome'[Step(e)] = "blocked"
    BY <1>0, <1>6 DEF NotifyPrevented, CloseWaits
  <2>3. ~Sent(Step(e))
    BY <1>3, <1>6 DEF NotifyPrevented
  <2>4. \A s \in Steps : Sent(s) => Sent(s)'
    BY <1>0, <1>1, <1>6, <2>3 DEF NotifyPrevented, Sent, CloseWaits
  <2>5. SendAccounted'
    BY <1>6, <2>4, AccountKept DEF NotifyPrevented, SendInv
  <2>6. InFlightNotDone'
    BY <1>2, <2>1, <2>2 DEF InFlightNotDone, Step
  <2> QED
    BY <2>5, <2>6 DEF SendInv
<1>7. ASSUME NEW new, NEW result, NEW js, Conclude(e, new, result, js) PROVE SendInv'
  <2>1. outcome' = [CloseWaits(Step(e)) EXCEPT ![Step(e)] = result]
    BY <1>7 DEF Conclude
  <2>2. \A s \in Steps \ {Step(e)} : outcome[s] = "done" => outcome'[s] = "done"
    BY <1>1, <2>1 DEF CloseWaits
  <2>3. ~Sent(Step(e)) /\ execs' = {} /\ UNCHANGED <<sends, unsaved>>
    BY <1>0, <1>3, <1>7 DEF Conclude, Leave
  <2> QED
    BY <1>0, <2>2, <2>3, EndSend
<1>8. CASE ExecuteCommunication(e)
  <2>1. \A s \in Steps \ {Step(e)} : outcome[s] = "done" => outcome'[s] = "done"
    BY <1>1, <1>8 DEF ExecuteCommunication, CloseWaits
  <2>2. outcome'[Step(e)] = "done"
    BY <1>0, <1>8 DEF ExecuteCommunication, CloseWaits
  <2>3. execs' = {} /\ UNCHANGED <<sends, unsaved>>
    BY <1>0, <1>8 DEF ExecuteCommunication, Leave
  <2> QED
    BY <1>0, <2>1, <2>2, <2>3, EndSend
<1>9. CASE EnqueueAfterPrevented(e)
  <2>1. ~Sent(Step(e)) /\ execs' = {} /\ UNCHANGED <<sends, unsaved, outcome>>
    BY <1>0, <1>3, <1>9 DEF EnqueueAfterPrevented, Leave
  <2> QED
    BY <1>0, <2>1, EndSend
<1>10. ASSUME \/ ExecutePlain(e) \/ ExecuteWait(e) \/ ExecuteCondition(e)
              \/ ExecuteReassessment(e) \/ ExecuteOutcome(e)
              \/ PreventCommunication(e) \/ HoldAction(e) \/ ChangeWorkflow(e)
              \/ PauseForHumanReview(e)
       PROVE  SendInv'
  BY <1>7, <1>10
     DEF ExecutePlain, ExecuteWait, ExecuteCondition, ExecuteReassessment,
         ExecuteOutcome, PreventCommunication, HoldAction, ChangeWorkflow,
         PauseForHumanReview
<1> QED
  BY <1>4, <1>5, <1>6, <1>8, <1>9, <1>10 DEF Proceed

(* An execution that fails after its send is counted in `unsaved'.         *)
LEMMA FailureSend ==
  ASSUME MaxExecs = 1, TypeOK, Sole, SendInv, NEW e \in execs,
         (\E retry \in BOOLEAN : StepRaises(e, retry)) \/ WorkerDies(e)
  PROVE  SendInv'
<1>0. Step(e) \in Steps /\ execs = {e} /\ execs' = {} /\ sends' = sends
  BY DEF TypeOK, Exec, Job, Step, Sole, StepRaises, WorkerDies, Leave
<1>1. \A s \in Steps : outcome[s] = "done" => outcome'[s] = "done"
  <2>1. CASE WorkerDies(e)
    BY <2>1 DEF WorkerDies
  <2>2. ASSUME NEW retry \in BOOLEAN, StepRaises(e, retry),
               NEW s \in Steps, outcome[s] = "done"
        PROVE  outcome'[s] = "done"
    BY <2>2 DEF StepRaises, CloseWaits, SendInv, InFlightNotDone
  <2> QED
    BY <2>1, <2>2
<1>2. Unsave(e)
  BY DEF StepRaises, WorkerDies
<1>3. ASSUME NEW s \in Steps
      PROVE  sends'[s] <= unsaved'[s] + (IF Sent(s)' THEN 1 ELSE 0)
  <2>1. sends[s] \in Nat /\ unsaved[s] \in Nat
    BY DEF TypeOK
  <2>2. sends[s] <= unsaved[s] + (IF Sent(s) THEN 1 ELSE 0)
    BY DEF SendInv, SendAccounted
  <2>3. CASE s = Step(e) /\ e.phase \in {"sent", "notified"}
    <3>1. unsaved'[s] = unsaved[s] + 1
      BY <1>2, <2>3 DEF Unsave, TypeOK
    <3> QED
      BY <1>0, <2>1, <2>2, <3>1
  <2>4. CASE ~(s = Step(e) /\ e.phase \in {"sent", "notified"})
    <3>1. unsaved'[s] = unsaved[s]
      BY <1>2, <2>4 DEF Unsave, TypeOK
    <3>2. Sent(s) => Sent(s)'
      BY <1>0, <1>1, <2>4 DEF Sent
    <3> QED
      BY <1>0, <2>1, <2>2, <3>1, <3>2
  <2> QED
    BY <2>3, <2>4
<1> QED
  BY <1>0, <1>3 DEF SendInv, SendAccounted, InFlightNotDone

LEMMA SendStep ==
  ASSUME MaxExecs = 1, TypeOK, Sole, SendInv, [Next]_vars PROVE SendInv'
<1>1. ASSUME UNCHANGED <<execs, outcome, sends, unsaved>> PROVE SendInv'
  BY <1>1 DEF SendInv, SendAccounted, InFlightNotDone, Sent
<1>2. CASE Worker
  BY <1>1, <1>2, HandleJobSend, ProceedSend DEF Worker, Reclaim
<1>3. CASE Outside
  BY <1>1, <1>3
     DEF Outside, OnPaymentEvent, OnAccountImportChanged, OnCommunicationEvent,
         OnStrategyDeactivated, Supersede, Close, OpenGovernanceReview,
         HoldOrRelease
<1>4. CASE Reviewer \/ Hook \/ Clock
  BY <1>1, <1>4
     DEF Reviewer, Decide, Hook, OnHumanReviewDecided, Clock, WaitElapses
<1>5. CASE Fault
  BY <1>1, <1>5, FailureSend DEF Fault, LoseCallback
<1>6. CASE UNCHANGED vars
  BY <1>1, <1>6 DEF vars
<1> QED
  BY <1>2, <1>3, <1>4, <1>5, <1>6 DEF Next

(* With one thread a message leaves once, and once more only for an        *)
(* execution that died or failed after its send: whatever jobs are         *)
(* redelivered, whatever events advance the run, inside an execution or    *)
(* between two, and however often the run is paused and resumed.           *)
THEOREM MessageLeavesOnce == ASSUME MaxExecs = 1 PROVE Spec => []SendOnce
<1>1. Init => TypeOK /\ Sole /\ SendInv
  <2>1. Init => SendInv
    BY DEF Init, SendInv, SendAccounted, InFlightNotDone, Sent
  <2> QED
    BY <2>1, TypeInit DEF Init, Sole
<1>2. TypeOK /\ Sole /\ SendInv /\ [Next]_vars => TypeOK' /\ Sole' /\ SendInv'
  BY TypeStep, SoleStep, SendStep
<1>3. TypeOK /\ SendInv => SendOnce
  BY DEF SendInv, SendAccounted, SendOnce, TypeOK
<1> QED
  BY <1>1, <1>2, <1>3, PTL DEF Spec

=============================================================================
