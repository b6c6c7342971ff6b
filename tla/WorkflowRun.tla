---------------------------- MODULE WorkflowRun ----------------------------
(***************************************************************************)
(* One workflow run of one account: the handlers execute_step and          *)
(* resume_run of WorkflowExecutionService, the outside events that advance *)
(* or stop the run (payments, communication webhooks, file imports, human  *)
(* reviews, deactivation, supersession) and the account and review rows    *)
(* they share.                                                             *)
(*                                                                         *)
(* A job is delivered by the queue at least once (module WorkflowQueue).   *)
(* An execution of a step is several transactions and an outside call, so  *)
(* it is kept in `execs' between its first read of the run and its last    *)
(* commit; every other handler is one transaction and one step.  The       *)
(* notification service commits the caller's transaction: a sent message   *)
(* (phase "notified") and a prevented one (phase "prevented") are visible  *)
(* before the execution has enqueued what follows.                         *)
(***************************************************************************)
EXTENDS Integers, FiniteSets

CONSTANTS
  Steps,       \* ids a job can name: the steps of the strategy, dangling ones too
  Kind,        \* Kind[s]: kind of step s, "missing" if strategy.steps lacks s
  NextOf,      \* NextOf[s]: its "next", or NoStep
  YesOf, NoOf, \* branches of a Condition
  WaitFor,     \* WaitFor[s]: the event its wait_for names, or "nothing"
  CaseEffect,  \* CaseEffect[s]: [add, drop], the blocks a Case Action sets and lifts
  Entry,       \* strategy.entry_node_id
  Rules,       \* governance actions some rule of the client may demand
  Inputs,      \* kinds of outside events that may happen
  Redeliver,   \* may the queue deliver a job again?
  Races,       \* may an outside event fall inside an execution?
  MaxExecs,    \* bound: executions in flight, threads of the pools
  MaxCopies,   \* bound: identical pending jobs told apart
  MaxReviews,  \* bound: review rows of the account
  MaxInputs,   \* bound: outside events
  MaxFaults    \* bound: crashes, exceptions and lost callbacks

NoStep == "no step"
NoReview == 0
Strayed == MaxReviews + 1

StepKind == {"Trigger", "Wait", "Communication", "Condition", "Human Review",
             "Case Action", "AI Reassessment", "Outcome", "missing"}
Block == {"resolved", "on hold", "provincial"}
RuleAction == {"Prevent Communication", "Hold Action", "Require Human Review",
               "Request Reassessment", "Change Workflow"}
Input == {"payment", "communication", "import", "review", "deactivate",
          "supersede"}

ASSUME RunAssumption ==
  /\ NoStep \notin Steps
  /\ Kind \in [Steps -> StepKind]
  /\ NextOf \in [Steps -> Steps \cup {NoStep}]
  /\ YesOf \in [Steps -> Steps \cup {NoStep}]
  /\ NoOf \in [Steps -> Steps \cup {NoStep}]
  /\ WaitFor \in [Steps -> {"nothing", "payment", "communication"}]
  /\ CaseEffect \in [Steps -> [add: SUBSET Block, drop: SUBSET Block]]
  /\ Entry \in Steps
  /\ Rules \subseteq RuleAction
  /\ Inputs \subseteq Input
  /\ Redeliver \in BOOLEAN
  /\ Races \in BOOLEAN
  /\ MaxExecs \in Nat \ {0}
  /\ MaxCopies \in Nat \ {0}
  /\ MaxReviews \in Nat
  /\ MaxInputs \in Nat
  /\ MaxFaults \in Nat

VARIABLES
  status,    \* run.status
  current,   \* run.current_step_id
  awaits,    \* run.human_review_id
  jobs,      \* pending jobs of the run
  orphans,   \* running jobs whose worker died, until the queue reclaims them
  execs,     \* executions of a step in flight
  outcome,   \* outcome[s]: what the committed step-run rows of s amount to
  elapsed,   \* Wait steps whose wait_until has passed
  blocks,    \* what _account_execution_block_reason finds on the account
  reviews,   \* reviews[r]: status of review row r
  callbacks, \* decided reviews whose on_human_review_decided is still to run
  inputs,    \* outside events so far
  faults,    \* crashes, exceptions and lost callbacks so far
  sends,     \* history: messages of step s handed to the provider
  unsaved,   \* history: ... by an execution that did not reach its end
  dropped,   \* history: work given up for good (a job, a callback)
  gate,      \* history: the review the run was last paused for, or Strayed
             \*   once something other than a review took it out of a pause
  leapt      \* history: Wait steps at which an import lifted a hold

runRow  == <<status, current, awaits>>
work    == <<jobs, orphans, execs>>
account == <<blocks, reviews, callbacks>>
counts  == <<inputs, faults>>
ledger  == <<sends, unsaved, dropped>>
history == <<ledger, gate, leapt>>
vars    == <<runRow, work, outcome, elapsed, account, counts, history>>

Terminal == {"Completed", "Cancelled", "Failed", "Superseded"}
Runnable == {"Active", "Waiting"}
Status   == Runnable \cup {"Paused"} \cup Terminal

(* What the rows of one step amount to; the values of StepDone make a      *)
(* further job for the step a duplicate.                                   *)
StepDone == {"done", "blocked", "cancelled", "paused"}
Outcome  == {"none", "waiting"} \cup StepDone

Review     == 1..MaxReviews
OpenReview == {"awaiting", "on hold"}

(* wait names the Wait step that scheduled the job, if one did.            *)
Job == [type: {"execute", "resume"}, step: Steps, after: BOOLEAN,
        wait: Steps \cup {NoStep}, copy: 1..MaxCopies]
Exec == [job: Job, seen: Runnable,
         phase: {"begun", "sent", "notified", "prevented"}]

TypeOK ==
  /\ status \in Status
  /\ current \in Steps
  /\ awaits \in Review \cup {NoReview}
  /\ jobs \in SUBSET Job
  /\ orphans \in SUBSET Job
  /\ execs \in SUBSET Exec
  /\ outcome \in [Steps -> Outcome]
  /\ elapsed \in SUBSET Steps
  /\ blocks \in SUBSET Block
  /\ reviews \in [Review -> {"none", "approved", "rejected"} \cup OpenReview]
  /\ callbacks \in SUBSET [review: Review, continue: BOOLEAN]
  /\ inputs \in 0..MaxInputs
  /\ faults \in 0..MaxFaults
  /\ sends \in [Steps -> Nat]
  /\ unsaved \in [Steps -> Nat]
  /\ dropped \in BOOLEAN
  /\ gate \in Review \cup {NoReview, Strayed}
  /\ leapt \in SUBSET Steps

-----------------------------------------------------------------------------
(* Jobs *)

(* enqueue_job: one more pending row.  More than MaxCopies identical rows  *)
(* are not told apart.                                                     *)
AddRow(js, type, s, after, wait) ==
  LET row(c) == [type |-> type, step |-> s, after |-> after, wait |-> wait,
                 copy |-> c]
      free == {c \in 1..MaxCopies : row(c) \notin js}
  IN  IF free = {} THEN js
      ELSE js \cup {row(CHOOSE c \in free : TRUE)}

\* mutant: a step without a next enqueues all the same
PutAlways(js, type, s, after, wait) == AddRow(js, type, s, after, wait)

Put(js, type, s, after, wait) ==
  IF s = NoStep THEN js ELSE AddRow(js, type, s, after, wait)

EnqueueExecute(js, s) == Put(js, "execute", s, FALSE, NoStep)
EnqueueResume(js, s)  == Put(js, "resume", s, FALSE, NoStep)

Due(j) == j \in jobs /\ (j.wait = NoStep \/ j.wait \in elapsed)

(* The pending rows left behind by the delivery of j: a reclaimed or       *)
(* retried row is delivered again.                                         *)
Left(j) == {jobs \ {j}} \cup (IF Redeliver THEN {jobs} ELSE {})

(* cancel_pending_jobs_for_run while j itself is running.                  *)
CancelPending(left, j) == left \cap {j}

Init ==
  /\ status = "Active"
  /\ current = Entry
  /\ awaits = NoReview
  /\ jobs = EnqueueExecute({}, Entry)
  /\ orphans = {}
  /\ execs = {}
  /\ outcome = [s \in Steps |-> "none"]
  /\ elapsed = {}
  /\ blocks = {}
  /\ reviews = [r \in Review |-> "none"]
  /\ callbacks = {}
  /\ inputs = 0
  /\ faults = 0
  /\ sends = [s \in Steps |-> 0]
  /\ unsaved = [s \in Steps |-> 0]
  /\ dropped = FALSE
  /\ gate = NoReview
  /\ leapt = {}

(* A Waiting run is set Active and flushed first thing: its row stays      *)
(* locked until the first commit of the execution.                         *)
Holds(e) == e.seen = "Waiting" /\ e.phase \in {"begun", "sent"}
Locked == \E e \in execs : Holds(e)

(* Another execution that writes the run row waits for the lock.           *)
RowFree(e) ==
  (Locked /\ ~Holds(e)) => (status' = status /\ current' = current)

-----------------------------------------------------------------------------
(* execute_step: the paths that end in its first transaction *)

(* _close_waits_targeting_step *)
CloseWaits(s) ==
  [w \in Steps |-> IF outcome[w] = "waiting" /\ NextOf[w] = s THEN "done"
                                                            ELSE outcome[w]]

\* mutants: no step is a duplicate; an approved message stays one
NeverDuplicate(j) == FALSE
AlwaysDuplicate(j) == outcome[j.step] \in StepDone

IsDuplicate(j) ==
  /\ outcome[j.step] \in StepDone
  /\ ~(j.after /\ outcome[j.step] = "paused")

(* A thread is free for the job and the run row is not locked.             *)
Deliver(j, type) ==
  /\ Due(j)
  /\ j.type = type
  /\ Cardinality(execs) < MaxExecs
  /\ ~Locked

SkipStep(j, left) ==
  /\ Deliver(j, "execute")
  /\ status \notin Runnable
  /\ jobs' = left
  /\ UNCHANGED <<runRow, orphans, execs, outcome, elapsed, account, counts,
                 history>>

SkipDuplicate(j, left) ==
  /\ Deliver(j, "execute")
  /\ status \in Runnable
  /\ IsDuplicate(j)
  /\ status' = "Active"
  /\ outcome' = CloseWaits(j.step)
  /\ jobs' = left
  /\ UNCHANGED <<current, awaits, orphans, execs, elapsed, account, counts,
                 history>>

(* A resolved case ends the run, a hold leaves it Waiting without a job.   *)
BlockedStep(j, left) ==
  /\ Deliver(j, "execute")
  /\ status \in Runnable
  /\ ~IsDuplicate(j)
  /\ blocks # {}
  /\ \/ /\ "resolved" \in blocks
        /\ status' = "Cancelled"
        /\ jobs' = CancelPending(left, j)
        /\ outcome' = CloseWaits(j.step)
     \/ /\ "resolved" \notin blocks
        /\ status' = "Waiting"
        /\ jobs' = left
        /\ outcome' = [CloseWaits(j.step) EXCEPT ![j.step] = "blocked"]
  /\ UNCHANGED <<current, awaits, orphans, execs, elapsed, account, counts,
                 history>>

UnknownStep(j, left) ==
  /\ Deliver(j, "execute")
  /\ status \in Runnable
  /\ ~IsDuplicate(j)
  /\ blocks = {}
  /\ Kind[j.step] = "missing"
  /\ status' = "Failed"
  /\ outcome' = CloseWaits(j.step)
  /\ jobs' = left
  /\ UNCHANGED <<current, awaits, orphans, execs, elapsed, account, counts,
                 history>>

(* The step-run row is inserted: UNIQUE (run, step, attempt) keeps a       *)
(* second execution of the step out until the first one commits.           *)
Begin(j, left) ==
  /\ Deliver(j, "execute")
  /\ status \in Runnable
  /\ ~IsDuplicate(j)
  /\ blocks = {}
  /\ Kind[j.step] # "missing"
  /\ \A e \in execs : e.job.step = j.step => e.phase \in {"notified", "prevented"}
  /\ execs' = execs \cup {[job |-> j, seen |-> status, phase |-> "begun"]}
  /\ jobs' = left
  /\ UNCHANGED <<runRow, orphans, outcome, elapsed, account, counts, history>>

-----------------------------------------------------------------------------
(* execute_step: from the inserted row to the last commit *)

Step(e) == e.job.step

\* mutant: every attribute is written
WrittenAlways(e, new) == new

(* UPDATE writes the attributes that changed since the row was loaded.     *)
Written(e, new) ==
  IF e.seen = "Active" /\ new = "Active" THEN status ELSE new

(* The execution was in flight when the run was paused or ended, and       *)
(* writes its status over that.                                            *)
Gate(review) == IF status \notin Runnable /\ status' # status THEN Strayed
                                                             ELSE review

Leave(e) == execs' = execs \ {e}
Move(e, phase) == execs' = (execs \ {e}) \cup {[e EXCEPT !.phase = phase]}

(* One transaction from the inserted row to the end of the execution.      *)
Conclude(e, newStatus, result, newJobs) ==
  /\ e.phase = "begun"
  /\ status' = Written(e, newStatus)
  /\ current' = Step(e)
  /\ RowFree(e)
  /\ outcome' = [CloseWaits(Step(e)) EXCEPT ![Step(e)] = result]
  /\ jobs' = newJobs
  /\ Leave(e)
  /\ UNCHANGED <<orphans, elapsed, counts, ledger, leapt>>

(* _apply_case_action; other steps have no effect of their own.            *)
CaseBlocks(e, bs) ==
  IF Kind[Step(e)] = "Case Action"
    THEN (bs \ CaseEffect[Step(e)].drop) \cup CaseEffect[Step(e)].add
    ELSE bs

(* The one review row a create_review would insert now.                    *)
FreshReview(r) ==
  /\ \A q \in Review : reviews[q] \notin OpenReview
  /\ r \in Review
  /\ reviews[r] = "none"
  /\ \A q \in Review : q < r => reviews[q] # "none"

(* CaseReassessmentService may open a review of the account, without       *)
(* pausing the run.                                                        *)
Reassess(e) ==
  /\ UNCHANGED callbacks
  /\ \/ /\ blocks' = CaseBlocks(e, blocks)
        /\ UNCHANGED reviews
     \/ /\ blocks' = CaseBlocks(e, blocks \cap {"provincial"})
        /\ \E r \in Review :
             /\ FreshReview(r)
             /\ reviews' = [reviews EXCEPT ![r] = "awaiting"]

(* A rule that asks for a reassessment lets the step go on.                *)
RuleReassess(e) ==
  IF "Request Reassessment" \in Rules
    THEN Reassess(e)
    ELSE blocks' = CaseBlocks(e, blocks) /\ UNCHANGED <<reviews, callbacks>>

(* The kinds that run straight to their next step.                         *)
ExecutePlain(e) ==
  /\ Kind[Step(e)] \in {"Trigger", "Case Action"}
  /\ Conclude(e, "Active", "done", EnqueueExecute(jobs, NextOf[Step(e)]))
  /\ RuleReassess(e)
  /\ gate' = Gate(gate)
  /\ UNCHANGED awaits

ExecuteWait(e) ==
  /\ Kind[Step(e)] = "Wait"
  /\ Conclude(e, "Waiting", "waiting",
              Put(jobs, "execute", NextOf[Step(e)], FALSE, Step(e)))
  /\ RuleReassess(e)
  /\ gate' = Gate(gate)
  /\ UNCHANGED awaits

ExecuteCondition(e) ==
  /\ Kind[Step(e)] = "Condition"
  /\ \E branch \in {YesOf[Step(e)], NoOf[Step(e)]} :
       Conclude(e, "Active", "done", EnqueueExecute(jobs, branch))
  /\ RuleReassess(e)
  /\ gate' = Gate(gate)
  /\ UNCHANGED awaits

ExecuteReassessment(e) ==
  /\ Kind[Step(e)] = "AI Reassessment"
  /\ Conclude(e, "Active", "done", EnqueueExecute(jobs, NextOf[Step(e)]))
  /\ Reassess(e)
  /\ gate' = Gate(gate)
  /\ UNCHANGED awaits

ExecuteOutcome(e) ==
  /\ Kind[Step(e)] = "Outcome"
  /\ Conclude(e, "Completed", "done", jobs)
  /\ RuleReassess(e)
  /\ gate' = Gate(gate)
  /\ UNCHANGED awaits

(* The message leaves through the provider before anything is committed.   *)
Send(e) ==
  /\ Kind[Step(e)] = "Communication"
  /\ e.phase = "begun"
  /\ Move(e, "sent")
  /\ sends' = [sends EXCEPT ![Step(e)] = @ + 1]
  /\ UNCHANGED <<runRow, jobs, orphans, outcome, elapsed, account, counts,
                 unsaved, dropped, gate, leapt>>

(* notify_comm_sent commits the caller's transaction.                      *)
NotifySent(e) ==
  /\ e.phase = "sent"
  /\ Move(e, "notified")
  /\ status' = Written(e, "Active")
  /\ current' = Step(e)
  /\ RowFree(e)
  /\ outcome' = CloseWaits(Step(e))
  /\ gate' = Gate(gate)
  /\ UNCHANGED <<awaits, jobs, orphans, elapsed, account, counts, ledger, leapt>>

(* Not eligible: the send is skipped and the run goes on.  Sent: with      *)
(* nobody to notify the first commit is this one; after a notification the *)
(* run was expired, so the status is written whatever it has become.       *)
ExecuteCommunication(e) ==
  /\ Kind[Step(e)] = "Communication"
  /\ e.phase \in {"begun", "sent", "notified"}
  /\ Leave(e)
  /\ IF e.phase = "notified"
       THEN status' = "Active" /\ UNCHANGED current
       ELSE status' = Written(e, "Active") /\ current' = Step(e)
  /\ RowFree(e)
  /\ outcome' = [CloseWaits(Step(e)) EXCEPT ![Step(e)] = "done"]
  /\ jobs' = EnqueueExecute(jobs, NextOf[Step(e)])
  /\ RuleReassess(e)
  /\ gate' = Gate(gate)
  /\ UNCHANGED <<awaits, orphans, elapsed, counts, ledger, leapt>>

-----------------------------------------------------------------------------
(* execute_step: _apply_rule_action and _pause_for_human_review *)

(* Prevent Communication: the step counts as blocked, the chain goes on.   *)
PreventCommunication(e) ==
  /\ Kind[Step(e)] = "Communication"
  /\ "Prevent Communication" \in Rules
  /\ Conclude(e, "Active", "blocked", EnqueueExecute(jobs, NextOf[Step(e)]))
  /\ gate' = Gate(gate)
  /\ UNCHANGED <<awaits, account>>

(* ... but with somebody to notify _notify_rule_blocked commits first ...  *)
NotifyPrevented(e) ==
  /\ Kind[Step(e)] = "Communication"
  /\ "Prevent Communication" \in Rules
  /\ e.phase = "begun"
  /\ Move(e, "prevented")
  /\ status' = Written(e, "Active")
  /\ current' = Step(e)
  /\ RowFree(e)
  /\ outcome' = [CloseWaits(Step(e)) EXCEPT ![Step(e)] = "blocked"]
  /\ gate' = Gate(gate)
  /\ UNCHANGED <<awaits, jobs, orphans, elapsed, account, counts, ledger, leapt>>

(* ... and the next step is enqueued in a second transaction.              *)
EnqueueAfterPrevented(e) ==
  /\ e.phase = "prevented"
  /\ Leave(e)
  /\ jobs' = EnqueueExecute(jobs, NextOf[Step(e)])
  /\ UNCHANGED <<runRow, orphans, outcome, elapsed, account, counts, history>>

HoldAction(e) ==
  /\ "Hold Action" \in Rules
  /\ Conclude(e, "Waiting", "blocked", jobs)
  /\ gate' = Gate(gate)
  /\ UNCHANGED <<awaits, account>>

ChangeWorkflow(e) ==
  /\ "Change Workflow" \in Rules
  /\ Conclude(e, "Cancelled", "cancelled", {})
  /\ gate' = Gate(gate)
  /\ UNCHANGED <<awaits, account>>

(* A Human Review step, or a message a rule wants reviewed (Require Human  *)
(* Review and Escalate Case alike); after an approval the rules are        *)
(* skipped.  An open review of the account is reused.                      *)
PausesAt(e) ==
  \/ Kind[Step(e)] = "Human Review"
  \/ /\ Kind[Step(e)] = "Communication"
     /\ "Require Human Review" \in Rules
     /\ ~e.job.after

PauseForHumanReview(e) ==
  /\ PausesAt(e)
  /\ Conclude(e, "Paused", "paused", jobs)
  /\ UNCHANGED callbacks
  /\ \E r \in Review :
       /\ awaits' = r
       /\ gate' = IF gate = Strayed \/ status = "Paused" THEN Strayed ELSE Gate(r)
       /\ \/ /\ reviews[r] \in OpenReview
             /\ UNCHANGED <<reviews, blocks>>
          \/ /\ FreshReview(r)
             /\ reviews' = [reviews EXCEPT ![r] = "awaiting"]
             /\ blocks' = blocks \cap {"provincial"}

-----------------------------------------------------------------------------
(* Failure of an execution *)

Unsave(e) ==
  unsaved' = [unsaved EXCEPT ![Step(e)] =
                IF e.phase \in {"sent", "notified"} THEN @ + 1 ELSE @]

(* The except branch commits the failed row; mark_job_failed puts the job  *)
(* back or gives it up.                                                    *)
StepRaises(e, retry) ==
  /\ faults < MaxFaults
  /\ faults' = faults + 1
  /\ Leave(e)
  /\ IF e.phase \in {"notified", "prevented"}
       THEN UNCHANGED <<status, current>>
       ELSE status' = Written(e, "Active") /\ current' = Step(e)
  /\ RowFree(e)
  /\ gate' = Gate(gate)
  /\ outcome' = [CloseWaits(Step(e)) EXCEPT ![Step(e)] =
                   IF e.phase = "prevented" THEN "none" ELSE @]
  /\ jobs' = IF retry THEN jobs \cup {e.job} ELSE jobs
  /\ dropped' = (dropped \/ ~retry)
  /\ Unsave(e)
  /\ UNCHANGED <<awaits, orphans, elapsed, account, inputs, sends, leapt>>

(* The worker dies: what was not committed is rolled back and the job      *)
(* stays running, out of reach of a cancellation, until it is reclaimed.   *)
WorkerDies(e) ==
  /\ faults < MaxFaults
  /\ faults' = faults + 1
  /\ Leave(e)
  /\ orphans' = orphans \cup {e.job}
  /\ Unsave(e)
  /\ UNCHANGED <<runRow, jobs, outcome, elapsed, account, inputs, sends,
                 dropped, gate, leapt>>

Reclaim(j) ==
  /\ j \in orphans
  /\ orphans' = orphans \ {j}
  /\ jobs' = jobs \cup {j}
  /\ UNCHANGED <<runRow, execs, outcome, elapsed, account, counts, history>>

-----------------------------------------------------------------------------
(* resume_run, and the clock of the Wait steps *)

IgnoreResume(j, left) ==
  /\ Deliver(j, "resume")
  /\ status \in Terminal
  /\ jobs' = left
  /\ UNCHANGED <<runRow, orphans, execs, outcome, elapsed, account, counts,
                 history>>

(* Where a resume lands: past a decided Human Review step, on the message  *)
(* a rule had paused, past the current step in any other case; a step      *)
(* without a next is its own target.  A resume that is not the first       *)
(* delivery of an approval takes the run out of its pause on no review's   *)
(* account.                                                                *)
Past(s) == IF NextOf[s] = NoStep THEN s ELSE NextOf[s]

ResumeRun(j, left) ==
  LET again == j.after /\ Kind[j.step] # "Human Review"
      target == IF again THEN j.step ELSE Past(j.step)
  IN  /\ Deliver(j, "resume")
      /\ status \notin Terminal
      /\ status' = "Active"
      /\ awaits' = NoReview
      /\ jobs' = Put(left, "execute", target, again, NoStep)
      /\ outcome' = IF j.after /\ ~again /\ outcome[j.step] = "paused"
                      THEN [outcome EXCEPT ![j.step] = "done"] ELSE outcome
      /\ gate' = IF left = jobs \/ (~j.after /\ status = "Paused") THEN Strayed
                                                                   ELSE gate
      /\ UNCHANGED <<current, orphans, execs, elapsed, account, counts, ledger,
                     leapt>>

(* scheduled_at of the job a Wait step enqueued is reached.                *)
WaitElapses(w) ==
  /\ outcome[w] = "waiting"
  /\ w \notin elapsed
  /\ elapsed' = elapsed \cup {w}
  /\ UNCHANGED <<runRow, work, outcome, account, counts, history>>

-----------------------------------------------------------------------------
(* Outside events *)

(* _advance_run_from_event on a run row and its pending jobs; yes is what  *)
(* a Condition evaluates to now.                                           *)
AdvanceFrom(run, event, yes, movable, fixed) ==
  LET kind   == Kind[current]
      branch == IF yes THEN YesOf[current] ELSE NoOf[current]
      goTo(s) == IF s = NoStep THEN run
                 ELSE [status |-> "Active", jobs |-> EnqueueExecute(run.jobs, s)]
      awaited == WaitFor[current] = event /\ NextOf[current] # NoStep
  IN  IF run.status \notin movable \/ kind \in fixed THEN run
      ELSE IF kind = "Condition" THEN goTo(branch)
      ELSE IF awaited THEN goTo(NextOf[current])
      ELSE IF run.status = "Waiting" /\ event \in {"payment", "case status"}
             THEN [run EXCEPT !.jobs = EnqueueResume(@, current)]
      ELSE run

\* mutants: the run's status is not looked at; a Wait step advances too
AdvanceAny(run, event, yes) ==
  AdvanceFrom(run, event, yes, Status, {"Wait", "missing"})
AdvanceWaits(run, event, yes) ==
  AdvanceFrom(run, event, yes, Runnable, {"missing"})

Advance(run, event, yes) ==
  AdvanceFrom(run, event, yes, Runnable, {"Wait", "missing"})

Run == [status |-> status, jobs |-> jobs]

(* on_case_status_changed, the account row already holding new.            *)
FollowCase(run, old, new, yes) ==
  IF "resolved" \in new THEN [status |-> "Cancelled", jobs |-> {}]
  ELSE IF new # {} THEN [status |-> "Waiting", jobs |-> {}]
  ELSE IF old \cap {"on hold", "resolved"} # {}
         THEN [run EXCEPT !.jobs = EnqueueResume(@, current)]
  ELSE Advance(run, "case status", yes)

CaseStatusChanged(run, old, new, yes) ==
  IF run.status \in Terminal THEN run ELSE FollowCase(run, old, new, yes)

(* An outside event waits for the row lock of an execution.                *)
Happens(kind) ==
  /\ kind \in Inputs
  /\ inputs < MaxInputs
  /\ inputs' = inputs + 1
  /\ ~Locked
  /\ Races \/ execs = {}

Store(run) == status' = run.status /\ jobs' = run.jobs

(* A confirmed payment: the portal sets the case Resolved, Payment Plan or *)
(* leaves it, then calls on_payment_event.                                 *)
OnPaymentEvent(new, yes) ==
  /\ Happens("payment")
  /\ new \in {blocks, blocks \cap {"provincial"},
              (blocks \cap {"provincial"}) \cup {"resolved"}}
  /\ blocks' = new
  /\ Store(Advance(Run, "payment", yes))
  /\ UNCHANGED <<current, awaits, orphans, execs, outcome, elapsed, reviews,
                 callbacks, faults, history>>

OnCommunicationEvent(yes) ==
  /\ Happens("communication")
  /\ Store(Advance(Run, "communication", yes))
  /\ UNCHANGED <<current, awaits, orphans, execs, outcome, elapsed, account,
                 faults, history>>

(* A file import changed the case status or the hold, and maybe saw a      *)
(* payment: on_account_import_changed runs both hooks in one transaction.  *)
(* An import never sets On Hold.                                           *)
OnAccountImportChanged(new, paid, yes) ==
  LET seen == IF paid THEN Advance(Run, "payment", yes) ELSE Run
  IN  /\ Happens("import")
      /\ new \subseteq {"resolved", "provincial"}
      /\ blocks' = new
      /\ Store(CaseStatusChanged(seen, blocks, new, yes))
      /\ gate' = IF status = "Paused" /\ status' # "Paused" THEN Strayed ELSE gate
      /\ leapt' = IF /\ Kind[current] = "Wait"
                     /\ new = {} /\ blocks \cap {"on hold", "resolved"} # {}
                    THEN leapt \cup {current} ELSE leapt
      /\ UNCHANGED <<current, awaits, orphans, execs, outcome, elapsed, reviews,
                     callbacks, faults, ledger>>

Close(newStatus) ==
  /\ status \notin Terminal
  /\ status' = newStatus
  /\ jobs' = {}
  /\ UNCHANGED <<current, awaits, orphans, execs, outcome, elapsed, callbacks,
                 blocks, faults, history>>

OnStrategyDeactivated ==
  /\ Happens("deactivate")
  /\ Close("Cancelled")
  /\ UNCHANGED reviews

(* Activation of a newer strategy closes the review the run waits on;      *)
(* enrollment into another strategy leaves it open.                        *)
Supersede(closeReview) ==
  /\ Happens("supersede")
  /\ Close("Superseded")
  /\ reviews' = [r \in Review |->
                   IF closeReview /\ r = awaits /\ reviews[r] \in OpenReview
                     THEN "rejected" ELSE reviews[r]]

(* A rule scan or an import opens a review of the account.                 *)
OpenGovernanceReview(r) ==
  /\ Happens("review")
  /\ FreshReview(r)
  /\ reviews' = [reviews EXCEPT ![r] = "awaiting"]
  /\ blocks' = blocks \cap {"provincial"}
  /\ UNCHANGED <<runRow, work, outcome, elapsed, callbacks, faults, history>>

(* Hold and release of a review both set the case to Human Review.         *)
HoldOrRelease(r) ==
  /\ Happens("review")
  /\ reviews[r] \in OpenReview
  /\ reviews' = [reviews EXCEPT ![r] =
                   IF @ = "awaiting" THEN "on hold" ELSE "awaiting"]
  /\ blocks' = blocks \cap {"provincial"}
  /\ UNCHANGED <<runRow, work, outcome, elapsed, callbacks, faults, history>>

(* approve, modify and reject commit the decision ...                      *)
Decide(r, continue) ==
  /\ reviews[r] = "awaiting"
  /\ Races \/ execs = {}
  /\ reviews' = [reviews EXCEPT ![r] = IF continue THEN "approved" ELSE "rejected"]
  /\ callbacks' = callbacks \cup {[review |-> r, continue |-> continue]}
  /\ UNCHANGED <<runRow, work, outcome, elapsed, blocks, counts, history>>

AwaitsDecision(r) == status = "Paused" /\ awaits = r

(* ... and call on_human_review_decided in a transaction of its own.       *)
OnHumanReviewDecided(c) ==
  LET paused == AwaitsDecision(c.review)
  IN  /\ callbacks' = callbacks \ {c}
      /\ ~Locked
      /\ Races \/ execs = {}
      /\ status' = IF paused /\ ~c.continue THEN "Cancelled" ELSE status
      /\ jobs' = CASE paused /\ c.continue ->
                        Put(jobs, "resume", current, TRUE, NoStep)
                   [] paused /\ ~c.continue -> {}
                   [] OTHER -> jobs
      /\ UNCHANGED <<current, awaits, orphans, execs, outcome, elapsed, blocks,
                     reviews, counts, history>>

(* The process ends between the two, or the hook raises: the decision      *)
(* stands and nobody calls again.                                          *)
LoseCallback(c) ==
  /\ faults < MaxFaults
  /\ faults' = faults + 1
  /\ callbacks' = callbacks \ {c}
  /\ dropped' = TRUE
  /\ UNCHANGED <<runRow, work, outcome, elapsed, blocks, reviews, inputs, sends,
                 unsaved, gate, leapt>>

-----------------------------------------------------------------------------
HandleJob(j, left) ==
  \/ SkipStep(j, left)
  \/ SkipDuplicate(j, left)
  \/ BlockedStep(j, left)
  \/ UnknownStep(j, left)
  \/ Begin(j, left)
  \/ IgnoreResume(j, left)
  \/ ResumeRun(j, left)

Proceed(e) ==
  \/ ExecutePlain(e)
  \/ ExecuteWait(e)
  \/ ExecuteCondition(e)
  \/ ExecuteReassessment(e)
  \/ ExecuteOutcome(e)
  \/ Send(e)
  \/ NotifySent(e)
  \/ ExecuteCommunication(e)
  \/ PreventCommunication(e)
  \/ NotifyPrevented(e)
  \/ EnqueueAfterPrevented(e)
  \/ HoldAction(e)
  \/ ChangeWorkflow(e)
  \/ PauseForHumanReview(e)

Worker ==
  \/ \E j \in jobs : \E left \in Left(j) : HandleJob(j, left)
  \/ \E e \in execs : Proceed(e)
  \/ \E j \in orphans : Reclaim(j)

Outside ==
  \/ \E new \in SUBSET Block, yes \in BOOLEAN :
       \/ OnPaymentEvent(new, yes)
       \/ \E paid \in BOOLEAN : OnAccountImportChanged(new, paid, yes)
  \/ \E yes \in BOOLEAN : OnCommunicationEvent(yes)
  \/ OnStrategyDeactivated
  \/ \E closeReview \in BOOLEAN : Supersede(closeReview)
  \/ \E r \in Review : OpenGovernanceReview(r) \/ HoldOrRelease(r)

Reviewer == \E r \in Review, continue \in BOOLEAN : Decide(r, continue)
Hook     == \E c \in callbacks : OnHumanReviewDecided(c)
Clock    == \E w \in Steps : WaitElapses(w)

Fault ==
  \/ \E e \in execs : (\E retry \in BOOLEAN : StepRaises(e, retry)) \/ WorkerDies(e)
  \/ \E c \in callbacks : LoseCallback(c)

Next == Worker \/ Outside \/ Reviewer \/ Hook \/ Clock \/ Fault

Spec == Init /\ [][Next]_vars

(* The queue delivers every due job, a thread runs to its end, time passes *)
(* and supervisors answer their reviews.  Nothing is assumed of outside    *)
(* events and faults.                                                      *)
Fairness ==
  /\ WF_vars(Worker)
  /\ WF_vars(Reviewer)
  /\ WF_vars(Hook)
  /\ WF_vars(Clock)

FairSpec == Spec /\ Fairness

-----------------------------------------------------------------------------
(* Properties *)

(* A finished run stays finished: no late resume, decision or event brings *)
(* it back and no step of it begins.  Its status is written once more only *)
(* by an execution that was in flight when it ended (a deactivation or a   *)
(* cancellation committed meanwhile), and to Active only by one whose      *)
(* notification had already committed, which reloads the row.              *)
TerminalIsFinal ==
  [][(status \in Terminal) =>
       /\ \A e \in execs' \ execs : e.phase # "begun"
       /\ (status' # status) =>
            \E e \in execs \ execs' :
              (status' = "Active") => e.phase = "notified"]_vars

(* A message leaves once, and once more only for an execution that died or *)
(* failed after handing it to the provider.                                *)
SendOnce == \A s \in Steps : sends[s] <= 1 + unsaved[s]

(* The step after Wait w is reached from w only.                           *)
OnlyWay(w) ==
  /\ NextOf[w] # Entry
  /\ \A u \in Steps : /\ NextOf[w] \notin {YesOf[u], NoOf[u]}
                      /\ u # w => NextOf[u] # NextOf[w]

(* "Timed Wait steps must honor wait_until": a Wait row is closed as       *)
(* elapsed before its time only where another path joins behind it, or     *)
(* when an import lifted a hold there, whose resume goes past the Wait.    *)
WaitHonored ==
  [][\A w \in Steps :
       (outcome[w] = "waiting" /\ outcome'[w] = "done" /\ OnlyWay(w))
         => w \in elapsed \cup leapt]_vars

(* No step of a run that was paused for a review begins while that review  *)
(* is open or after it was rejected, unless an import's resume, a resume   *)
(* delivered twice or an execution in flight took the run out of a pause.  *)
ReviewGate ==
  [][\A e \in execs' \ execs :
       (e.phase = "begun" /\ gate \in Review) => reviews[gate] = "approved"]_vars

(* Something will move an open run of an account that is not blocked: a    *)
(* job, an execution, an open review, a decision on its way.  Left alone   *)
(* are runs a rule holds, and work that was given up.                      *)
Movable ==
  \/ jobs # {} \/ orphans # {} \/ execs # {}
  \/ status = "Paused" /\ (\/ reviews[awaits] \in OpenReview
                           \/ \E c \in callbacks : c.review = awaits)
  \/ status = "Waiting" /\ outcome[current] = "blocked"

NotStranded ==
  (status \notin Terminal /\ blocks = {} /\ ~dropped) => Movable

(* Every run ends, unless work was given up.                               *)
EventuallyEnds == <>(status \in Terminal \/ dropped)
=============================================================================
