------------------------ MODULE WorkflowRunMoveProofs -----------------------
(***************************************************************************)
(* Theorems about what a run of WorkflowRun waits for: a Wait step keeps   *)
(* its time, and a run paused for a review does nothing until the review   *)
(* is approved.  Both hold for any number of executions in flight,         *)
(* whatever is delivered again and whatever falls inside an execution.     *)
(***************************************************************************)
EXTENDS WorkflowRunProofs

USE RunAssumption DEF runRow, work, account, counts, ledger, history

-----------------------------------------------------------------------------
(* The rows Put adds: none for a dangling step, else one with these        *)
(* fields.                                                                 *)
LEMMA PutRows ==
  ASSUME NEW js, NEW type, NEW s, NEW after, NEW wait
  PROVE  /\ js \subseteq Put(js, type, s, after, wait)
         /\ \A j \in Put(js, type, s, after, wait) \ js :
              s # NoStep /\ j.type = type /\ j.step = s /\ j.after = after
                /\ j.wait = wait
BY DEF Put, AddRow

LEMMA ResumeRows ==
  ASSUME NEW js, NEW s
  PROVE  \A j \in EnqueueResume(js, s) \ js :
           j.type = "resume" /\ j.step = s /\ ~j.after
BY DEF EnqueueResume, Put, AddRow

-----------------------------------------------------------------------------
(* Wait steps keep their time. *)

(* The Wait steps that alone lead to their next step and whose time has    *)
(* not come, and the steps none of them holds back.                        *)
Ticking ==
  {w \in Steps : /\ Kind[w] = "Wait" /\ NextOf[w] # NoStep /\ OnlyWay(w)
                 /\ w \notin elapsed \cup leapt}
Free(s) == \A w \in Ticking : NextOf[w] # s

(* A pending job for a step held back is the one its Wait scheduled; a     *)
(* resume that goes past its step does not set out from such a Wait.       *)
JobHeld(j) ==
  /\ \A w \in Ticking : NextOf[w] = j.step => j.type = "execute" /\ j.wait = w
  /\ j.type = "resume" /\ ~j.after => j.step \notin Ticking

JobsHeld(js) == \A j \in js : JobHeld(j)

WaitInv ==
  /\ JobsHeld(jobs)
  /\ \A j \in orphans : j.type = "execute" /\ Free(j.step)
  /\ \A e \in execs :
       /\ e.job.type = "execute" /\ Free(Step(e))
       /\ e.phase # "begun" => Kind[Step(e)] = "Communication"
  /\ Free(current)
  /\ \A w \in Steps : outcome[w] = "waiting" => Kind[w] = "Wait"

Honored ==
  \A w \in Steps :
    (outcome[w] = "waiting" /\ outcome'[w] = "done" /\ OnlyWay(w))
      => w \in elapsed \cup leapt

LEMMA FreeSuccessors ==
  ASSUME NEW u \in Steps
  PROVE  /\ Free(Entry)
         /\ Free(YesOf[u]) /\ Free(NoOf[u])
         /\ u \notin Ticking => Free(NextOf[u])
         /\ Kind[u] # "Wait" => u \notin Ticking
BY DEF OnlyWay, Free, Ticking

LEMMA PutHeld ==
  ASSUME NEW js, JobsHeld(js), NEW type, NEW s, NEW after \in BOOLEAN, NEW wait,
         (type = "resume" /\ ~after) => s \notin Ticking,
         Free(s) \/ (type = "execute" /\ \A w \in Ticking : NextOf[w] = s => wait = w)
  PROVE  JobsHeld(Put(js, type, s, after, wait))
BY PutRows DEF JobsHeld, JobHeld, Free

LEMMA EnqueueHeld ==
  ASSUME NEW js, JobsHeld(js), NEW s, Free(s)
  PROVE  /\ JobsHeld(EnqueueExecute(js, s))
         /\ s \notin Ticking => JobsHeld(EnqueueResume(js, s))
BY PutHeld DEF EnqueueExecute, EnqueueResume

(* A job that is delivered was not held back.                              *)
LEMMA DueFree ==
  ASSUME WaitInv, NEW j \in jobs, Due(j)
  PROVE  Free(j.step)
BY DEF WaitInv, JobsHeld, JobHeld, Due, Free, Ticking

(* Closing the Waits in front of a step that is not held back.             *)
LEMMA CloseHonored ==
  ASSUME WaitInv, NEW s \in Steps, Free(s)
  PROVE  /\ DOMAIN CloseWaits(s) = Steps
         /\ \A w \in Steps :
              /\ CloseWaits(s)[w] = "waiting" => outcome[w] = "waiting"
              /\ (outcome[w] = "waiting" /\ CloseWaits(s)[w] = "done" /\ OnlyWay(w))
                   => w \in elapsed \cup leapt
              /\ (outcome[w] # "waiting") => CloseWaits(s)[w] = outcome[w]
BY DEF WaitInv, CloseWaits, Free, Ticking

(* What is left of the invariant when time passes or not.                  *)
LEMMA HeldLater ==
  ASSUME Ticking' \subseteq Ticking
  PROVE  /\ JobsHeld(jobs') => JobsHeld(jobs)'
         /\ \A s : Free(s) => Free(s)'
BY DEF JobsHeld, JobHeld, Free

LEMMA TickingSame ==
  ASSUME UNCHANGED <<elapsed, leapt>> PROVE Ticking' = Ticking
BY DEF Ticking

LEMMA WaitKept ==
  ASSUME WaitInv, Ticking' \subseteq Ticking,
         JobsHeld(jobs)',
         \A j \in orphans' : j.type = "execute" /\ Free(j.step),
         \A e \in execs' :
           /\ e.job.type = "execute" /\ Free(e.job.step)
           /\ e.phase # "begun" => Kind[e.job.step] = "Communication",
         Free(current'),
         \A w \in Steps : outcome'[w] = "waiting" => Kind[w] = "Wait"
  PROVE  WaitInv'
<1>1. \A s : Free(s) => Free(s)'
  BY HeldLater
<1>2. Free(current)' <=> \A w \in Ticking' : NextOf[w] # current'
  BY DEF Free
<1>3. Free(current)'
  BY <1>2 DEF Free
<1> QED
  BY <1>1, <1>3 DEF WaitInv, Step

LEMMA HandleJobWait ==
  ASSUME TypeOK, WaitInv, NEW j \in jobs, NEW left \in Left(j), HandleJob(j, left)
  PROVE  WaitInv' /\ Honored
<1>1. /\ Due(j) /\ j.step \in Steps
      /\ UNCHANGED <<elapsed, leapt, orphans, current>>
  BY DEF HandleJob, SkipStep, SkipDuplicate, BlockedStep, UnknownStep, Begin,
         IgnoreResume, ResumeRun, Deliver, Due, TypeOK, Job
<1>2. Free(j.step) /\ Ticking' = Ticking
  BY <1>1, DueFree, TickingSame
<1>3. JobsHeld(left) /\ JobsHeld(CancelPending(left, j))
  BY DEF Left, CancelPending, WaitInv, JobsHeld
<1>4. \A w \in Steps :
        /\ CloseWaits(j.step)[w] = "waiting" => outcome[w] = "waiting"
        /\ (outcome[w] = "waiting" /\ CloseWaits(j.step)[w] = "done" /\ OnlyWay(w))
             => w \in elapsed \cup leapt
  BY <1>1, <1>2, CloseHonored
<1>5. /\ \A i \in orphans' : i.type = "execute" /\ Free(i.step)
      /\ Free(current')
      /\ \A e \in execs :
           /\ e.job.type = "execute" /\ Free(e.job.step)
           /\ e.phase # "begun" => Kind[e.job.step] = "Communication"
      /\ \A w \in Steps : outcome[w] = "waiting" => Kind[w] = "Wait"
  BY <1>1 DEF WaitInv, Step
<1>6. CASE SkipStep(j, left) \/ IgnoreResume(j, left)
  <2>1. UNCHANGED <<execs, outcome>> /\ jobs' = left
    BY <1>6 DEF SkipStep, IgnoreResume
  <2>2. JobsHeld(jobs)'
    BY <1>2, <1>3, <2>1, HeldLater
  <2>3. WaitInv'
    BY <1>2, <1>5, <2>1, <2>2, WaitKept
  <2> QED
    BY <2>1, <2>3 DEF Honored
<1>7. CASE SkipDuplicate(j, left) \/ BlockedStep(j, left) \/ UnknownStep(j, left)
  <2>1. /\ UNCHANGED execs
        /\ jobs' \in {left, CancelPending(left, j)}
        /\ \/ outcome' = CloseWaits(j.step)
           \/ outcome' = [CloseWaits(j.step) EXCEPT ![j.step] = "blocked"]
    BY <1>7 DEF SkipDuplicate, BlockedStep, UnknownStep
  <2>2. \A w \in Steps :
          /\ outcome'[w] = "waiting" => outcome[w] = "waiting"
          /\ (outcome[w] = "waiting" /\ outcome'[w] = "done" /\ OnlyWay(w))
               => w \in elapsed \cup leapt
    BY <1>4, <2>1 DEF CloseWaits
  <2>3. JobsHeld(jobs)'
    BY <1>2, <1>3, <2>1, HeldLater
  <2>4. WaitInv'
    BY <1>2, <1>5, <2>1, <2>2, <2>3, WaitKept
  <2> QED
    BY <2>2, <2>4 DEF Honored
<1>8. CASE Begin(j, left)
  <2> DEFINE new == [job |-> j, seen |-> status, phase |-> "begun"]
  <2>1. /\ UNCHANGED outcome /\ jobs' = left /\ execs' = execs \cup {new}
        /\ j.type = "execute"
    BY <1>8 DEF Begin, Deliver
  <2>2. \A e \in execs' :
           /\ e.job.type = "execute" /\ Free(e.job.step)
           /\ e.phase # "begun" => Kind[e.job.step] = "Communication"
    BY <1>2, <1>5, <2>1
  <2>3. JobsHeld(jobs)'
    BY <1>2, <1>3, <2>1, HeldLater
  <2>4. WaitInv'
    BY <1>2, <1>5, <2>1, <2>2, <2>3, WaitKept
  <2> QED
    BY <2>1, <2>4 DEF Honored
<1>9. CASE ResumeRun(j, left)
  <2> DEFINE again == j.after /\ Kind[j.step] # "Human Review"
             target == IF again THEN j.step ELSE Past(j.step)
  <2>1. j.type = "resume" /\ j.after \in BOOLEAN
    BY <1>9 DEF ResumeRun, Deliver, TypeOK, Job
  <2>2. ~again => j.step \notin Ticking
    BY <2>1 DEF WaitInv, JobsHeld, JobHeld, Ticking
  <2>3. Free(target)
    BY <1>1, <1>2, <2>2, FreeSuccessors DEF Past
  <2>4. JobsHeld(jobs)'
    <3>1. jobs' = Put(left, "execute", target, again, NoStep)
      BY <1>9 DEF ResumeRun
    <3>2. JobsHeld(Put(left, "execute", target, again, NoStep))
      BY <1>3, <2>1, <2>3, PutHeld
    <3> QED
      BY <1>2, <3>1, <3>2, HeldLater
  <2>5. /\ UNCHANGED execs
        /\ \A w \in Steps : \/ outcome'[w] = outcome[w]
                            \/ outcome[w] = "paused" /\ outcome'[w] = "done"
    BY <1>9 DEF ResumeRun, TypeOK
  <2>6. WaitInv'
    BY <1>2, <1>5, <2>4, <2>5, WaitKept
  <2> QED
    BY <2>5, <2>6 DEF Honored
<1> QED
  BY <1>6, <1>7, <1>8, <1>9 DEF HandleJob

(* An execution that ends at step Step(e): what it enqueues goes past it.  *)
EndsWith(e, result) ==
  /\ Leave(e) /\ UNCHANGED <<elapsed, leapt, orphans>>
  /\ JobsHeld(jobs')
  /\ current' \in {current, Step(e)}
  /\ result = "waiting" => Kind[Step(e)] = "Wait"
  /\ result = "done" => Kind[Step(e)] # "Wait"
  /\ \/ outcome' = [CloseWaits(Step(e)) EXCEPT ![Step(e)] = result]
     \/ outcome' = CloseWaits(Step(e))
     \/ outcome' = outcome

LEMMA EndWait ==
  ASSUME TypeOK, WaitInv, NEW e \in execs, NEW result, EndsWith(e, result)
  PROVE  WaitInv' /\ Honored
<1>1. Step(e) \in Steps /\ Free(Step(e))
  BY DEF TypeOK, Exec, Job, Step, WaitInv
<1>2. /\ DOMAIN CloseWaits(Step(e)) = Steps
      /\ \A w \in Steps :
           /\ CloseWaits(Step(e))[w] = "waiting" => outcome[w] = "waiting"
           /\ (outcome[w] = "waiting" /\ CloseWaits(Step(e))[w] = "done" /\ OnlyWay(w))
                => w \in elapsed \cup leapt
  BY <1>1, CloseHonored
<1>3. \A w \in Steps :
        /\ outcome'[w] = "waiting" => outcome[w] = "waiting" \/ Kind[w] = "Wait"
        /\ (outcome[w] = "waiting" /\ outcome'[w] = "done" /\ OnlyWay(w))
             => w \in elapsed \cup leapt \/ Kind[w] # "Wait"
  BY <1>1, <1>2 DEF EndsWith
<1>4. \A w \in Steps : outcome[w] = "waiting" => Kind[w] = "Wait"
  BY DEF WaitInv
<1>5. Ticking' = Ticking /\ JobsHeld(jobs)'
  BY TickingSame, HeldLater DEF EndsWith
<1>6. \A f \in execs' :
        /\ f.job.type = "execute" /\ Free(f.job.step)
        /\ f.phase # "begun" => Kind[f.job.step] = "Communication"
  BY DEF EndsWith, Leave, WaitInv, Step
<1>7. Free(current') /\ \A j \in orphans' : j.type = "execute" /\ Free(j.step)
  BY <1>1 DEF EndsWith, WaitInv
<1>8. WaitInv'
  BY <1>3, <1>4, <1>5, <1>6, <1>7, WaitKept
<1> QED
  BY <1>3, <1>4, <1>8 DEF Honored

LEMMA ProceedWait ==
  ASSUME TypeOK, WaitInv, NEW e \in execs, Proceed(e)
  PROVE  WaitInv' /\ Honored
<1>1. Step(e) \in Steps /\ Free(Step(e))
  BY DEF TypeOK, Exec, Job, Step, WaitInv
<1>2. JobsHeld(jobs) /\ JobsHeld({})
  BY DEF WaitInv, JobsHeld
<1>3. Kind[Step(e)] # "Wait" =>
        \A s \in {NextOf[Step(e)], YesOf[Step(e)], NoOf[Step(e)]} :
           JobsHeld(EnqueueExecute(jobs, s))
  BY <1>1, <1>2, EnqueueHeld, FreeSuccessors
<1>4. ASSUME NEW new, NEW result, NEW js, Conclude(e, new, result, js),
             JobsHeld(js), result = "waiting" => Kind[Step(e)] = "Wait",
             result = "done" => Kind[Step(e)] # "Wait"
      PROVE  WaitInv' /\ Honored
  <2>1. EndsWith(e, result)
    BY <1>1, <1>4 DEF Conclude, EndsWith
  <2> QED
    BY <2>1, EndWait
<1>5. CASE ExecuteWait(e)
  <2>1. \A w \in Ticking : NextOf[w] = NextOf[Step(e)] => Step(e) = w
    BY <1>1 DEF OnlyWay, Ticking
  <2>2. JobsHeld(Put(jobs, "execute", NextOf[Step(e)], FALSE, Step(e)))
    BY <1>2, <2>1, PutHeld
  <2>3. PICK js : JobsHeld(js) /\ Conclude(e, "Waiting", "waiting", js)
    BY <1>5, <2>2 DEF ExecuteWait
  <2> QED
    BY <1>4, <1>5, <2>3 DEF ExecuteWait
<1>6. CASE ExecutePlain(e) \/ ExecuteReassessment(e) \/ PreventCommunication(e)
  BY <1>3, <1>4, <1>6 DEF ExecutePlain, ExecuteReassessment, PreventCommunication
<1>7. CASE ExecuteCondition(e)
  BY <1>3, <1>4, <1>7 DEF ExecuteCondition
<1>8. CASE ExecuteOutcome(e)
  BY <1>2, <1>4, <1>8 DEF ExecuteOutcome
<1>9. CASE HoldAction(e) \/ ChangeWorkflow(e)
  BY <1>2, <1>4, <1>9 DEF HoldAction, ChangeWorkflow
<1>10. CASE PauseForHumanReview(e)
  BY <1>2, <1>4, <1>10 DEF PauseForHumanReview
<1>11. CASE ExecuteCommunication(e)
  <2>1. EndsWith(e, "done")
    BY <1>1, <1>3, <1>11 DEF ExecuteCommunication, EndsWith
  <2> QED
    BY <2>1, EndWait
<1>12. CASE EnqueueAfterPrevented(e)
  <2>1. Kind[Step(e)] = "Communication"
    BY <1>12 DEF EnqueueAfterPrevented, WaitInv
  <2>2. EndsWith(e, "blocked")
    BY <1>1, <1>3, <1>12, <2>1 DEF EnqueueAfterPrevented, EndsWith
  <2> QED
    BY <2>2, EndWait
<1>13. CASE Send(e) \/ NotifySent(e) \/ NotifyPrevented(e)
  <2>1. \A phase \in {"sent", "notified", "prevented"} :
          [e EXCEPT !.phase = phase].job = e.job
    BY DEF TypeOK, Exec
  <2>2. Kind[Step(e)] = "Communication"
    BY <1>13 DEF Send, NotifySent, NotifyPrevented, WaitInv
  <2>3. PICK phase \in {"sent", "notified", "prevented"} : Move(e, phase)
    BY <1>13 DEF Send, NotifySent, NotifyPrevented
  <2>4. \A f \in execs' : f \in execs \/ f.job = e.job
    BY <2>1, <2>3 DEF Move
  <2>5. /\ UNCHANGED <<elapsed, leapt, orphans, jobs>>
        /\ current' \in {current, Step(e)}
        /\ \/ outcome' = [CloseWaits(Step(e)) EXCEPT ![Step(e)] = "blocked"]
           \/ outcome' = CloseWaits(Step(e))
           \/ outcome' = outcome
    BY <1>1, <1>13 DEF Send, NotifySent, NotifyPrevented
  <2>6. \A w \in Steps :
          /\ outcome'[w] = "waiting" => outcome[w] = "waiting"
          /\ (outcome[w] = "waiting" /\ outcome'[w] = "done" /\ OnlyWay(w))
               => w \in elapsed \cup leapt
    BY <1>1, <2>5, CloseHonored
  <2>7. WaitInv'
    <3>1. \A f \in execs' :
            /\ f.job.type = "execute" /\ Free(f.job.step)
            /\ f.phase # "begun" => Kind[f.job.step] = "Communication"
      BY <2>2, <2>4 DEF WaitInv, Step
    <3>2. Ticking' = Ticking /\ JobsHeld(jobs)'
      BY <1>2, <2>5, TickingSame, HeldLater
    <3>3. /\ \A j \in orphans' : j.type = "execute" /\ Free(j.step)
          /\ Free(current')
          /\ \A w \in Steps : outcome'[w] = "waiting" => Kind[w] = "Wait"
      BY <1>1, <2>5, <2>6 DEF WaitInv
    <3> QED
      BY <3>1, <3>2, <3>3, WaitKept
  <2> QED
    BY <2>6, <2>7 DEF Honored
<1> QED
  BY <1>5, <1>6, <1>7, <1>8, <1>9, <1>10, <1>11, <1>12, <1>13 DEF Proceed

(* An event moves the run past its current step, never past a Wait.        *)
LEMMA AdvanceHeld ==
  ASSUME TypeOK, WaitInv, NEW run, JobsHeld(run.jobs), NEW event,
         NEW yes \in BOOLEAN
  PROVE  JobsHeld(Advance(run, event, yes).jobs)
<1>1. Free(current) /\ current \in Steps
  BY DEF WaitInv, TypeOK
<1>2. /\ JobsHeld(EnqueueExecute(run.jobs, YesOf[current]))
      /\ JobsHeld(EnqueueExecute(run.jobs, NoOf[current]))
      /\ Kind[current] # "Wait" =>
           /\ JobsHeld(EnqueueExecute(run.jobs, NextOf[current]))
           /\ JobsHeld(EnqueueResume(run.jobs, current))
  BY <1>1, EnqueueHeld, FreeSuccessors
<1> DEFINE adv == Advance(run, event, yes)
<1>3. \/ adv = run
      \/ \E s \in {YesOf[current], NoOf[current]} :
           adv = [status |-> "Active", jobs |-> EnqueueExecute(run.jobs, s)]
      \/ /\ Kind[current] # "Wait"
         /\ \/ adv = [status |-> "Active",
                      jobs |-> EnqueueExecute(run.jobs, NextOf[current])]
            \/ adv = [run EXCEPT !.jobs = EnqueueResume(@, current)]
  BY DEF Advance, AdvanceFrom
<1>4. CASE adv = [run EXCEPT !.jobs = EnqueueResume(@, current)]
           /\ Kind[current] # "Wait"
  <2>1. adv.jobs = run.jobs \/ adv.jobs = EnqueueResume(run.jobs, current)
    BY <1>4
  <2> QED
    BY <1>2, <1>4, <2>1
<1> QED
  BY <1>2, <1>3, <1>4

LEMMA StoreWait ==
  ASSUME TypeOK, WaitInv, JobsHeld(jobs'),
         UNCHANGED <<current, orphans, execs, outcome, elapsed, leapt>>
  PROVE  WaitInv' /\ Honored
<1>1. Ticking' = Ticking /\ JobsHeld(jobs)'
  BY TickingSame, HeldLater
<1>2. WaitInv'
  BY <1>1, WaitKept DEF WaitInv, Step
<1> QED
  BY <1>2 DEF Honored

(* An import may lift a hold at a Wait: that Wait is leapt over.           *)
LEMMA ImportWait ==
  ASSUME TypeOK, WaitInv, NEW new \in SUBSET Block, NEW paid \in BOOLEAN,
         NEW yes \in BOOLEAN, OnAccountImportChanged(new, paid, yes)
  PROVE  WaitInv' /\ Honored
<1> DEFINE seen == IF paid THEN Advance(Run, "payment", yes) ELSE Run
           stored == CaseStatusChanged(seen, blocks, new, yes)
<1>1. /\ UNCHANGED <<current, orphans, execs, outcome, elapsed>>
      /\ jobs' = stored.jobs
      /\ leapt' = IF /\ Kind[current] = "Wait"
                     /\ new = {} /\ blocks \cap {"on hold", "resolved"} # {}
                    THEN leapt \cup {current} ELSE leapt
  BY DEF OnAccountImportChanged, Store
<1>2. Ticking' \subseteq Ticking
  BY <1>1 DEF Ticking
<1>3. Run.jobs = jobs /\ JobsHeld(jobs) /\ JobsHeld({}) /\ Free(current)
      /\ current \in Steps
  BY DEF Run, WaitInv, JobsHeld, TypeOK
<1>4. JobsHeld(seen.jobs)
  BY <1>3, AdvanceHeld
<1>5. JobsHeld(Advance(seen, "case status", yes).jobs)
  BY <1>4, AdvanceHeld
<1>6. seen \in RunRow
  BY AdvanceType DEF Run, RunRow, TypeOK
<1> HIDE DEF seen, stored
<1>7. \/ stored.jobs \in {seen.jobs, {}, Advance(seen, "case status", yes).jobs}
      \/ /\ new = {} /\ blocks \cap {"on hold", "resolved"} # {}
         /\ stored.jobs = EnqueueResume(seen.jobs, current)
  BY <1>6 DEF stored, CaseStatusChanged, FollowCase, RunRow
<1>8. ASSUME stored.jobs \in {seen.jobs, {}, Advance(seen, "case status", yes).jobs}
      PROVE  JobsHeld(jobs)'
  <2>1. JobsHeld(jobs')
    BY <1>1, <1>3, <1>4, <1>5, <1>8
  <2> QED
    BY <1>2, <2>1, HeldLater
<1>9. ASSUME new = {} /\ blocks \cap {"on hold", "resolved"} # {},
             stored.jobs = EnqueueResume(seen.jobs, current)
      PROVE  JobsHeld(jobs)'
  <2>1. current \notin Ticking'
    BY <1>1, <1>9 DEF Ticking
  <2>2. \A j \in seen.jobs : JobHeld(j)'
    BY <1>2, <1>4 DEF JobsHeld, JobHeld
  <2>3. Free(current)'
    BY <1>1, <1>2, <1>3 DEF Free
  <2>4. \A j \in jobs' \ seen.jobs :
           j.type = "resume" /\ j.step = current /\ ~j.after
    BY <1>1, <1>9, ResumeRows
  <2>5. ASSUME NEW j \in jobs' PROVE JobHeld(j)'
    <3>1. CASE j \in seen.jobs
      BY <2>2, <3>1
    <3>2. CASE j \in jobs' \ seen.jobs
      <4>1. \A w \in Ticking' : NextOf[w] # j.step
        BY <1>1, <2>3, <2>4, <3>2 DEF Free
      <4> QED
        BY <2>1, <2>4, <3>2, <4>1 DEF JobHeld
    <3> QED
      BY <2>5, <3>1, <3>2
  <2> QED
    BY <2>5 DEF JobsHeld
<1>10. JobsHeld(jobs)'
  BY <1>7, <1>8, <1>9
<1>11. WaitInv'
  BY <1>1, <1>2, <1>10, WaitKept DEF WaitInv, Step
<1> QED
  BY <1>1, <1>11 DEF Honored

LEMMA OutsideWait ==
  ASSUME TypeOK, WaitInv, Outside
  PROVE  WaitInv' /\ Honored
<1>1. ASSUME NEW event, NEW yes \in BOOLEAN, Store(Advance(Run, event, yes)),
             UNCHANGED <<current, orphans, execs, outcome, elapsed, leapt>>
      PROVE  WaitInv' /\ Honored
  <2>1. JobsHeld(Run.jobs)
    BY DEF Run, WaitInv
  <2>2. JobsHeld(jobs')
    BY <1>1, <2>1, AdvanceHeld DEF Store
  <2> QED
    BY <1>1, <2>2, StoreWait
<1>2. ASSUME NEW new \in SUBSET Block, NEW yes \in BOOLEAN, OnPaymentEvent(new, yes)
      PROVE  WaitInv' /\ Honored
  BY <1>1, <1>2 DEF OnPaymentEvent
<1>3. ASSUME NEW yes \in BOOLEAN, OnCommunicationEvent(yes)
      PROVE  WaitInv' /\ Honored
  BY <1>1, <1>3 DEF OnCommunicationEvent
<1>4. ASSUME NEW s, Close(s) PROVE WaitInv' /\ Honored
  <2>1. JobsHeld(jobs')
    BY <1>4 DEF Close, JobsHeld
  <2> QED
    BY <1>4, <2>1, StoreWait DEF Close
<1>5. CASE OnStrategyDeactivated \/ \E closeReview \in BOOLEAN : Supersede(closeReview)
  BY <1>4, <1>5 DEF OnStrategyDeactivated, Supersede
<1>6. ASSUME NEW r, OpenGovernanceReview(r) \/ HoldOrRelease(r)
      PROVE  WaitInv' /\ Honored
  BY <1>6, StoreWait DEF OpenGovernanceReview, HoldOrRelease, WaitInv
<1> QED
  BY <1>2, <1>3, <1>5, <1>6, ImportWait DEF Outside

LEMMA HookWait ==
  ASSUME TypeOK, WaitInv, Reviewer \/ Hook
  PROVE  WaitInv' /\ Honored
<1>1. UNCHANGED <<current, orphans, execs, outcome, elapsed, leapt>>
  BY DEF Reviewer, Hook, Decide, OnHumanReviewDecided
<1>2. JobsHeld(jobs) /\ JobsHeld({}) /\ Free(current)
  BY DEF WaitInv, JobsHeld
<1>3. JobsHeld(Put(jobs, "resume", current, TRUE, NoStep))
  BY <1>2, PutHeld
<1>4. JobsHeld(jobs')
  BY <1>2, <1>3 DEF Reviewer, Decide, Hook, OnHumanReviewDecided
<1> QED
  BY <1>1, <1>4, StoreWait

LEMMA FailureWait ==
  ASSUME TypeOK, WaitInv, NEW e \in execs,
         (\E retry \in BOOLEAN : StepRaises(e, retry)) \/ WorkerDies(e)
  PROVE  WaitInv' /\ Honored
<1>1. /\ Leave(e) /\ Step(e) \in Steps /\ Free(Step(e))
      /\ e.job.type = "execute"
  BY DEF TypeOK, Exec, Job, Step, StepRaises, WorkerDies, WaitInv
<1>2. JobHeld(e.job)
  BY <1>1 DEF JobHeld, Free, Step
<1>3. CASE WorkerDies(e)
  <2>1. UNCHANGED <<current, jobs, outcome, elapsed, leapt>>
    BY <1>3 DEF WorkerDies
  <2>2. \A j \in orphans' : j.type = "execute" /\ Free(j.step)
    BY <1>1, <1>3 DEF WorkerDies, WaitInv, Step
  <2>3. \A f \in execs' : f \in execs
    BY <1>1 DEF Leave
  <2>4. Ticking' = Ticking /\ JobsHeld(jobs)'
    BY <2>1, TickingSame, HeldLater DEF WaitInv
  <2>5. WaitInv'
    BY <2>1, <2>2, <2>3, <2>4, WaitKept DEF WaitInv, Step
  <2> QED
    BY <2>1, <2>5 DEF Honored
<1>4. ASSUME NEW retry \in BOOLEAN, StepRaises(e, retry)
      PROVE  WaitInv' /\ Honored
  <2>1. JobsHeld(jobs')
    BY <1>2, <1>4 DEF StepRaises, WaitInv, JobsHeld
  <2>2. /\ current' \in {current, Step(e)}
        /\ UNCHANGED <<elapsed, leapt, orphans>>
    BY <1>1, <1>4 DEF StepRaises
  <2>3. \/ outcome' = [CloseWaits(Step(e)) EXCEPT ![Step(e)] = "none"]
        \/ outcome' = CloseWaits(Step(e))
    <3>1. [CloseWaits(Step(e)) EXCEPT ![Step(e)] = @] = CloseWaits(Step(e))
      BY DEF CloseWaits
    <3> QED
      BY <1>4, <3>1 DEF StepRaises
  <2>4. EndsWith(e, "none")
    BY <1>1, <2>1, <2>2, <2>3 DEF EndsWith
  <2> QED
    BY <2>4, EndWait
<1> QED
  BY <1>3, <1>4

LEMMA WaitStep ==
  ASSUME TypeOK, WaitInv, [Next]_vars
  PROVE  WaitInv' /\ Honored
<1>1. ASSUME NEW j \in orphans, Reclaim(j) PROVE WaitInv' /\ Honored
  <2>1. JobsHeld(jobs')
    BY <1>1 DEF Reclaim, WaitInv, JobsHeld, JobHeld, Free
  <2>2. UNCHANGED <<current, execs, outcome, elapsed, leapt>> /\ orphans' \subseteq orphans
    BY <1>1 DEF Reclaim
  <2>3. Ticking' = Ticking /\ JobsHeld(jobs)'
    BY <2>1, <2>2, TickingSame, HeldLater
  <2>4. WaitInv'
    BY <2>2, <2>3, WaitKept DEF WaitInv, Step
  <2> QED
    BY <2>2, <2>4 DEF Honored
<1>2. ASSUME NEW w \in Steps, WaitElapses(w) PROVE WaitInv' /\ Honored
  <2>1. UNCHANGED <<current, jobs, orphans, execs, outcome, leapt>>
    BY <1>2 DEF WaitElapses
  <2>2. Ticking' \subseteq Ticking
    BY <1>2, <2>1 DEF WaitElapses, Ticking
  <2>3. JobsHeld(jobs)'
    BY <2>1, <2>2, HeldLater DEF WaitInv
  <2>4. WaitInv'
    BY <2>1, <2>2, <2>3, WaitKept DEF WaitInv, Step
  <2> QED
    BY <2>1, <2>4 DEF Honored
<1>3. ASSUME UNCHANGED <<jobs, current, orphans, execs, outcome, elapsed, leapt>>
      PROVE  WaitInv' /\ Honored
  BY <1>3, StoreWait DEF WaitInv
<1>4. CASE Worker
  BY <1>1, <1>4, HandleJobWait, ProceedWait DEF Worker
<1>5. CASE Fault
  BY <1>3, <1>5, FailureWait DEF Fault, LoseCallback
<1>6. CASE Clock
  BY <1>2, <1>6 DEF Clock
<1>7. CASE UNCHANGED vars
  BY <1>3, <1>7 DEF vars
<1> QED
  BY <1>4, <1>5, <1>6, <1>7, OutsideWait, HookWait DEF Next

(* Where no second path joins right behind a Wait, its row is closed only  *)
(* when its time has come, or when an import lifted a hold at it: not by a *)
(* redelivered or reclaimed job, not by a payment, a webhook or an         *)
(* approval, even inside an execution.                                     *)
THEOREM WaitsKeepTheirTime == Spec => WaitHonored
<1>1. Init => WaitInv
  <2> SUFFICES ASSUME Init PROVE WaitInv
    OBVIOUS
  <2>1. JobsHeld({}) /\ Free(Entry)
    BY FreeSuccessors DEF JobsHeld
  <2>2. JobsHeld(jobs)
    BY <2>1, EnqueueHeld DEF Init
  <2> QED
    BY <2>1, <2>2 DEF Init, WaitInv
<1>2. Init => TypeOK /\ WaitInv
  BY <1>1, TypeInit
<1>3. TypeOK /\ WaitInv /\ [Next]_vars => TypeOK' /\ WaitInv' /\ [Honored]_vars
  BY TypeStep, WaitStep
<1>4. [Honored]_vars => [\A w \in Steps :
          (outcome[w] = "waiting" /\ outcome'[w] = "done" /\ OnlyWay(w))
            => w \in elapsed \cup leapt]_vars
  BY DEF Honored
<1> QED
  BY <1>2, <1>3, <1>4, PTL DEF Spec, WaitHonored

-----------------------------------------------------------------------------
(* A paused run waits for its review. *)

(* A decision that is still to be told stands.                             *)
Decided ==
  \A c \in callbacks :
    reviews[c.review] = IF c.continue THEN "approved" ELSE "rejected"

Executes ==
  /\ \A j \in orphans : j.type = "execute"
  /\ \A e \in execs : e.job.type = "execute"

(* The resume an approval leaves for the paused run is alone, and nothing  *)
(* but it sets the run going.                                              *)
Approval(j) == j.type = "resume" /\ j.after

Resuming(j) ==
  /\ gate \in Review /\ reviews[gate] = "approved"
  /\ status \notin Runnable
  /\ \A c \in callbacks : c.review # gate
  /\ \A k \in jobs : Approval(k) => k = j
Resumes == gate # Strayed => \A j \in jobs : Approval(j) => Resuming(j)

Gated == (gate \in Review /\ reviews[gate] # "approved") => status \notin Runnable

Pauses == status = "Paused" => gate # NoReview /\ (gate \in Review => awaits = gate)

GateInv == Decided /\ Executes /\ Resumes /\ Gated /\ Pauses

Guarded ==
  \A e \in execs' \ execs :
    (e.phase = "begun" /\ gate \in Review) => reviews[gate] = "approved"

LEMMA GateValues == NoReview \notin Review /\ Strayed \notin Review /\ NoReview # Strayed
BY DEF NoReview, Strayed, Review

(* What a decided review is stays.                                         *)
DecisionsStand ==
  \A r \in Review : reviews[r] \in {"approved", "rejected"} => reviews'[r] = reviews[r]

LEMMA StandDecided ==
  ASSUME TypeOK, Decided, DecisionsStand, callbacks' \subseteq callbacks
  PROVE  Decided'
BY DEF TypeOK, Decided, DecisionsStand

LEMMA FreshStands ==
  ASSUME TypeOK, NEW r \in Review, NEW new,
         reviews[r] \notin {"approved", "rejected"},
         reviews' = [reviews EXCEPT ![r] = new]
  PROVE  DecisionsStand
BY DEF TypeOK, DecisionsStand

(* Put adds the resume of an approval only when it is asked to.            *)
LEMMA PutNoApproval ==
  ASSUME NEW js, NEW type, NEW s, NEW after \in BOOLEAN, NEW wait,
         ~(type = "resume" /\ after)
  PROVE  \A j \in Put(js, type, s, after, wait) : Approval(j) => j \in js
BY PutRows DEF Approval

LEMMA EnqueueNoApproval ==
  ASSUME NEW js, NEW s
  PROVE  /\ \A j \in EnqueueExecute(js, s) : Approval(j) => j \in js
         /\ \A j \in EnqueueResume(js, s) : Approval(j) => j \in js
BY PutNoApproval DEF EnqueueExecute, EnqueueResume

NoNewApproval == \A j \in jobs' : Approval(j) => j \in jobs

(* The invariant, where the run strays or its gate stays.                  *)
LEMMA Strays ==
  ASSUME gate' = Strayed, Decided', Executes' PROVE GateInv'
BY GateValues DEF GateInv, Resumes, Gated, Pauses

LEMMA Stays ==
  ASSUME TypeOK, GateInv, Decided', Executes', DecisionsStand, NoNewApproval,
         UNCHANGED <<awaits, gate>>, callbacks' \subseteq callbacks,
         status' = status \/ status \in Runnable \/ status' \in Terminal,
         status' = "Paused" => status = "Paused"
  PROVE  GateInv'
<1>1. status' \in Runnable => status \in Runnable
  BY DEF Runnable, Terminal
<1>2. Gated' /\ Pauses'
  BY <1>1 DEF GateInv, Gated, Pauses, DecisionsStand
<1>3. Resumes'
  <2> SUFFICES ASSUME gate # Strayed, NEW j \in jobs', Approval(j)
               PROVE  Resuming(j)'
    BY DEF Resumes
  <2>1. Resuming(j) /\ j \in jobs
    BY DEF GateInv, Resumes, NoNewApproval
  <2> QED
    BY <1>1, <2>1 DEF Resuming, DecisionsStand, NoNewApproval
<1> QED
  BY <1>2, <1>3 DEF GateInv

(* Only Begin begins an execution, of a runnable run.                      *)
LEMMA BeginsRunnable ==
  ASSUME TypeOK, Next, NEW e \in execs' \ execs, e.phase = "begun"
  PROVE  status \in Runnable
<1>1. ASSUME NEW f \in execs, NEW phase \in {"sent", "notified", "prevented"},
             Move(f, phase)
      PROVE  FALSE
  BY <1>1 DEF Move, TypeOK, Exec
<1>2. \A f \in execs : ~Leave(f)
  BY DEF Leave
<1>3. execs' # execs
  OBVIOUS
<1>4. ~Outside /\ ~Reviewer /\ ~Hook /\ ~Clock
  BY <1>3, ElsewhereIdle
<1>5. ~Fault
  <2>1. \A f \in execs : ~WorkerDies(f)
    BY <1>2 DEF WorkerDies
  <2>2. \A f \in execs : \A retry \in BOOLEAN : ~StepRaises(f, retry)
    <3> SUFFICES ASSUME NEW f \in execs, NEW retry \in BOOLEAN, StepRaises(f, retry)
                 PROVE  Leave(f)
      BY <1>2
    <3> QED
      BY DEF StepRaises
  <2>3. \A c \in callbacks : ~LoseCallback(c)
    BY <1>3, ElsewhereIdle
  <2> QED
    BY <2>1, <2>2, <2>3 DEF Fault
<1>6. ASSUME NEW f \in execs, Proceed(f) PROVE FALSE
  <2>1. \A new, result, js : ~Conclude(f, new, result, js)
    BY <1>2 DEF Conclude
  <2>2. ~Send(f) /\ ~NotifySent(f) /\ ~NotifyPrevented(f)
    BY <1>1 DEF Send, NotifySent, NotifyPrevented
  <2>3. ~ExecuteCommunication(f) /\ ~EnqueueAfterPrevented(f)
    BY <1>2 DEF ExecuteCommunication, EnqueueAfterPrevented
  <2>4. /\ ~ExecutePlain(f) /\ ~ExecuteWait(f) /\ ~ExecuteCondition(f)
        /\ ~ExecuteReassessment(f) /\ ~ExecuteOutcome(f)
        /\ ~PreventCommunication(f) /\ ~HoldAction(f) /\ ~ChangeWorkflow(f)
        /\ ~PauseForHumanReview(f)
    BY <2>1 DEF ExecutePlain, ExecuteWait, ExecuteCondition, ExecuteReassessment,
                ExecuteOutcome, PreventCommunication, HoldAction, ChangeWorkflow,
                PauseForHumanReview
  <2> QED
    BY <1>6, <2>2, <2>3, <2>4 DEF Proceed
<1>7. PICK j \in jobs : \E left \in Left(j) : HandleJob(j, left)
  BY <1>3, <1>4, <1>5, <1>6, ElsewhereIdle DEF Next, Worker
<1> QED
  BY <1>3, <1>7 DEF HandleJob, SkipStep, SkipDuplicate, BlockedStep, UnknownStep,
                    Begin, IgnoreResume, ResumeRun

LEMMA HandleJobGate ==
  ASSUME TypeOK, GateInv, NEW j \in jobs, NEW left \in Left(j), HandleJob(j, left)
  PROVE  GateInv'
<1>1. /\ left \in {jobs, jobs \ {j}} /\ left \subseteq jobs
      /\ UNCHANGED <<orphans, reviews, callbacks>>
      /\ CancelPending(left, j) \subseteq jobs
  BY DEF HandleJob, SkipStep, SkipDuplicate, BlockedStep, UnknownStep, Begin,
         IgnoreResume, ResumeRun, Left, CancelPending
<1>2. Decided' /\ DecisionsStand
  BY <1>1 DEF GateInv, Decided, DecisionsStand
<1>3. CASE \/ SkipStep(j, left) \/ IgnoreResume(j, left) \/ SkipDuplicate(j, left)
           \/ UnknownStep(j, left) \/ BlockedStep(j, left)
  <2>1. /\ UNCHANGED <<awaits, gate, execs>> /\ jobs' \subseteq jobs
        /\ status' = status \/ status \in Runnable
        /\ status' = "Paused" => status = "Paused"
    BY <1>1, <1>3 DEF SkipStep, IgnoreResume, SkipDuplicate, UnknownStep, BlockedStep
  <2>2. Executes' /\ NoNewApproval
    BY <1>1, <2>1 DEF GateInv, Executes, NoNewApproval
  <2> QED
    BY <1>1, <1>2, <2>1, <2>2, Stays
<1>4. CASE Begin(j, left)
  <2> DEFINE new == [job |-> j, seen |-> status, phase |-> "begun"]
  <2>1. /\ UNCHANGED <<status, awaits, gate>> /\ jobs' \subseteq jobs
        /\ execs' = execs \cup {new} /\ new.job.type = "execute"
    BY <1>1, <1>4 DEF Begin, Deliver
  <2> HIDE DEF new
  <2>2. Executes' /\ NoNewApproval
    BY <1>1, <2>1 DEF GateInv, Executes, NoNewApproval
  <2> QED
    BY <1>1, <1>2, <2>1, <2>2, Stays
<1>5. CASE ResumeRun(j, left)
  <2> DEFINE again == j.after /\ Kind[j.step] # "Human Review"
             target == IF again THEN j.step ELSE Past(j.step)
  <2>1. /\ j.type = "resume" /\ status' = "Active" /\ UNCHANGED execs
        /\ j.after \in BOOLEAN
        /\ jobs' = Put(left, "execute", target, again, NoStep)
        /\ gate' = IF left = jobs \/ (~j.after /\ status = "Paused") THEN Strayed
                                                                     ELSE gate
    BY <1>5 DEF ResumeRun, Deliver, TypeOK, Job
  <2>2. Executes'
    BY <1>1, <2>1 DEF GateInv, Executes
  <2>3. CASE gate' = Strayed
    BY <1>2, <2>2, <2>3, Strays
  <2>4. CASE gate' # Strayed
    <3>1. gate' = gate /\ gate # Strayed /\ left = jobs \ {j}
      BY <1>1, <2>1, <2>4
    <3>2. \A k \in jobs' : Approval(k) => k \in left
      BY <2>1, PutNoApproval DEF TypeOK
    <3>3. ASSUME j.after PROVE GateInv'
      <4>1. Resuming(j)
        BY <2>1, <3>1, <3>3 DEF GateInv, Resumes, Approval
      <4>2. \A k \in jobs' : ~Approval(k)
        BY <3>1, <3>2, <4>1 DEF Resuming
      <4>3. gate' \in Review /\ reviews'[gate'] = "approved"
        BY <1>1, <3>1, <4>1 DEF Resuming
      <4> QED
        BY <1>2, <2>1, <2>2, <4>2, <4>3 DEF GateInv, Resumes, Gated, Pauses
    <3>4. ASSUME ~j.after PROVE GateInv'
      <4>1. status \in Runnable
        BY <1>5, <2>1, <2>4, <3>4 DEF ResumeRun, TypeOK, Status
      <4>2. \A k \in jobs' : ~Approval(k)
        BY <3>1, <3>2, <4>1 DEF GateInv, Resumes, Resuming
      <4>3. gate' \in Review => reviews'[gate'] = "approved"
        BY <1>1, <3>1, <4>1 DEF GateInv, Gated
      <4> QED
        BY <1>2, <2>1, <2>2, <4>2, <4>3 DEF GateInv, Resumes, Gated, Pauses
    <3> QED
      BY <3>3, <3>4
  <2> QED
    BY <2>3, <2>4
<1> QED
  BY <1>3, <1>4, <1>5 DEF HandleJob

(* An execution in flight.                                                 *)
LEMMA FlightKept ==
  ASSUME TypeOK, GateInv, Executes', DecisionsStand, NoNewApproval,
         gate' = Gate(gate), UNCHANGED <<awaits, callbacks>>,
         status' = "Paused" => status = "Paused"
  PROVE  GateInv'
<1>1. Decided'
  BY StandDecided DEF GateInv
<1>2. CASE gate' = Strayed
  BY <1>1, <1>2, Strays
<1>3. CASE gate' # Strayed
  <2>1. gate' = gate /\ (status' = status \/ status \in Runnable)
    BY <1>3 DEF Gate
  <2> QED
    BY <1>1, <2>1, Stays
<1> QED
  BY <1>2, <1>3

LEMMA LeaveExecutes ==
  ASSUME GateInv, NEW e \in execs, Leave(e), UNCHANGED orphans
  PROVE  Executes'
BY DEF Leave, GateInv, Executes

LEMMA ReassessKept ==
  ASSUME TypeOK, NEW e \in execs, Reassess(e) \/ RuleReassess(e)
  PROVE  DecisionsStand /\ UNCHANGED callbacks
<1>1. UNCHANGED callbacks
  BY DEF Reassess, RuleReassess
<1>2. \/ UNCHANGED reviews
      \/ \E r \in Review : FreshReview(r) /\ reviews' = [reviews EXCEPT ![r] = "awaiting"]
  BY DEF Reassess, RuleReassess
<1>3. DecisionsStand
  BY <1>2, FreshStands DEF FreshReview, DecisionsStand
<1> QED
  BY <1>1, <1>3

(* A pause: the review is open, so nobody has been told a decision of it.  *)
LEMMA PauseGate ==
  ASSUME TypeOK, GateInv, NEW e \in execs, PauseForHumanReview(e)
  PROVE  GateInv'
<1>1. /\ Leave(e) /\ status' = "Paused" /\ UNCHANGED <<orphans, callbacks>>
      /\ jobs' = jobs
  BY DEF PauseForHumanReview, Conclude, Written
<1>2. PICK r \in Review :
        /\ awaits' = r
        /\ gate' = IF gate = Strayed \/ status = "Paused" THEN Strayed ELSE Gate(r)
        /\ \/ reviews[r] \in OpenReview /\ UNCHANGED <<reviews, blocks>>
           \/ /\ FreshReview(r)
              /\ reviews' = [reviews EXCEPT ![r] = "awaiting"]
              /\ blocks' = blocks \cap {"provincial"}
  BY DEF PauseForHumanReview
<1>3. DecisionsStand
  BY <1>2, FreshStands DEF FreshReview, DecisionsStand
<1>4. Decided' /\ Executes'
  BY <1>1, <1>3, StandDecided, LeaveExecutes DEF GateInv
<1>5. CASE gate' = Strayed
  BY <1>4, <1>5, Strays
<1>6. CASE gate' # Strayed
  <2>1. gate # Strayed /\ gate' = r /\ status \in Runnable
    BY <1>1, <1>2, <1>6 DEF Gate
  <2>2. \A j \in jobs' : ~Approval(j)
    BY <1>1, <2>1 DEF GateInv, Resumes, Resuming
  <2> QED
    BY <1>1, <1>2, <1>4, <2>1, <2>2, GateValues
       DEF GateInv, Resumes, Gated, Pauses, Runnable
<1> QED
  BY <1>5, <1>6

LEMMA ProceedGate ==
  ASSUME TypeOK, GateInv, NEW e \in execs, Proceed(e)
  PROVE  GateInv'
<1>1. \A new : (new # "Paused" /\ Written(e, new) = "Paused")
                => status = "Paused"
  BY DEF Written
<1>2. \A s \in Steps \cup {NoStep} :
        \A j \in EnqueueExecute(jobs, s) : Approval(j) => j \in jobs
  BY EnqueueNoApproval
<1>3. Step(e) \in Steps
  BY DEF TypeOK, Exec, Job, Step
<1>4. UNCHANGED reviews => DecisionsStand
  BY DEF DecisionsStand
<1>5. ASSUME NEW new, NEW result, NEW js, Conclude(e, new, result, js),
             \A j \in js : Approval(j) => j \in jobs,
             new # "Paused", gate' = Gate(gate),
             DecisionsStand, UNCHANGED <<awaits, callbacks>>
      PROVE  GateInv'
  <2>1. /\ Leave(e) /\ jobs' = js /\ UNCHANGED orphans
        /\ status' = "Paused" => status = "Paused"
    BY <1>1, <1>5 DEF Conclude
  <2>2. Executes' /\ NoNewApproval
    BY <1>5, <2>1, LeaveExecutes DEF NoNewApproval
  <2> QED
    BY <1>5, <2>1, <2>2, FlightKept
<1>6. CASE ExecuteWait(e)
  <2>1. PICK js : /\ Conclude(e, "Waiting", "waiting", js)
                  /\ \A j \in js : Approval(j) => j \in jobs
    BY <1>6, PutNoApproval DEF ExecuteWait
  <2> QED
    BY <1>5, <1>6, <2>1, ReassessKept DEF ExecuteWait
<1>7. CASE ExecutePlain(e) \/ ExecuteReassessment(e)
  <2>1. PICK js : /\ Conclude(e, "Active", "done", js)
                  /\ \A j \in js : Approval(j) => j \in jobs
    BY <1>2, <1>3, <1>7 DEF ExecutePlain, ExecuteReassessment
  <2> QED
    BY <1>5, <1>7, <2>1, ReassessKept DEF ExecutePlain, ExecuteReassessment
<1>8. CASE ExecuteCondition(e)
  <2>1. PICK js : /\ Conclude(e, "Active", "done", js)
                  /\ \A j \in js : Approval(j) => j \in jobs
    BY <1>2, <1>3, <1>8 DEF ExecuteCondition
  <2> QED
    BY <1>5, <1>8, <2>1, ReassessKept DEF ExecuteCondition
<1>9. CASE ExecuteOutcome(e)
  BY <1>5, <1>9, ReassessKept DEF ExecuteOutcome
<1>10. CASE PreventCommunication(e)
  <2>1. PICK js : /\ Conclude(e, "Active", "blocked", js)
                  /\ \A j \in js : Approval(j) => j \in jobs
    BY <1>2, <1>3, <1>10 DEF PreventCommunication
  <2> QED
    BY <1>4, <1>5, <1>10, <2>1 DEF PreventCommunication
<1>11. CASE HoldAction(e) \/ ChangeWorkflow(e)
  <2>1. PICK new \in {"Waiting", "Cancelled"}, js \in {jobs, {}} :
          \E result : Conclude(e, new, result, js)
    BY <1>11 DEF HoldAction, ChangeWorkflow
  <2> QED
    BY <1>4, <1>5, <1>11, <2>1 DEF HoldAction, ChangeWorkflow
<1>12. CASE ExecuteCommunication(e)
  <2>1. /\ Leave(e) /\ UNCHANGED <<orphans, awaits>>
        /\ jobs' = EnqueueExecute(jobs, NextOf[Step(e)])
        /\ gate' = Gate(gate)
        /\ status' = "Paused" => status = "Paused"
    BY <1>1, <1>12 DEF ExecuteCommunication
  <2>2. Executes' /\ NoNewApproval
    BY <1>2, <1>3, <2>1, LeaveExecutes DEF NoNewApproval
  <2> QED
    BY <1>12, <2>1, <2>2, FlightKept, ReassessKept DEF ExecuteCommunication
<1>13. CASE EnqueueAfterPrevented(e)
  <2>1. /\ Leave(e) /\ UNCHANGED <<status, orphans, awaits, gate, reviews, callbacks>>
        /\ jobs' = EnqueueExecute(jobs, NextOf[Step(e)])
    BY <1>13 DEF EnqueueAfterPrevented
  <2>2. Executes' /\ NoNewApproval /\ gate' = Gate(gate)
    BY <1>2, <1>3, <2>1, LeaveExecutes DEF NoNewApproval, Gate
  <2> QED
    BY <1>4, <2>1, <2>2, FlightKept
<1>14. CASE Send(e) \/ NotifySent(e) \/ NotifyPrevented(e)
  <2>1. \A phase \in {"sent", "notified", "prevented"} :
          [e EXCEPT !.phase = phase].job = e.job
    BY DEF TypeOK, Exec
  <2>2. PICK phase \in {"sent", "notified", "prevented"} : Move(e, phase)
    BY <1>14 DEF Send, NotifySent, NotifyPrevented
  <2>3. /\ UNCHANGED <<jobs, orphans, awaits, reviews, callbacks>>
        /\ gate' = Gate(gate)
        /\ status' = "Paused" => status = "Paused"
    BY <1>1, <1>14 DEF Send, NotifySent, NotifyPrevented, Gate
  <2>4. \A f \in execs' : f.job = e.job \/ f \in execs
    BY <2>1, <2>2 DEF Move
  <2>5. Executes' /\ NoNewApproval
    BY <2>3, <2>4 DEF GateInv, Executes, NoNewApproval
  <2> QED
    BY <1>4, <2>3, <2>5, FlightKept
<1> QED
  BY <1>6, <1>7, <1>8, <1>9, <1>10, <1>11, <1>12, <1>13, <1>14, PauseGate DEF Proceed

LEMMA AdvanceGate ==
  ASSUME TypeOK, NEW run \in RunRow, NEW event, NEW yes \in BOOLEAN
  PROVE  /\ \A j \in Advance(run, event, yes).jobs : Approval(j) => j \in run.jobs
         /\ \/ Advance(run, event, yes).status = run.status
            \/ run.status \in Runnable /\ Advance(run, event, yes).status = "Active"
<1> DEFINE adv == Advance(run, event, yes)
<1>1. \/ adv = run
      \/ /\ run.status \in Runnable
         /\ \E s : adv = [status |-> "Active", jobs |-> EnqueueExecute(run.jobs, s)]
      \/ adv = [run EXCEPT !.jobs = EnqueueResume(@, current)]
  BY DEF Advance, AdvanceFrom
<1>2. CASE adv = run
  BY <1>2
<1>3. ASSUME NEW s, run.status \in Runnable,
             adv = [status |-> "Active", jobs |-> EnqueueExecute(run.jobs, s)]
      PROVE  /\ \A j \in adv.jobs : Approval(j) => j \in run.jobs
             /\ adv.status = "Active"
  BY <1>3, EnqueueNoApproval
<1>4. CASE adv = [run EXCEPT !.jobs = EnqueueResume(@, current)]
  <2>1. adv.jobs = EnqueueResume(run.jobs, current) /\ adv.status = run.status
    BY <1>4 DEF RunRow
  <2> QED
    BY <2>1, EnqueueNoApproval
<1> QED
  BY <1>1, <1>2, <1>3, <1>4

(* An event, where only an import takes a run out of its pause.            *)
LEMMA StoreGate ==
  ASSUME TypeOK, GateInv, UNCHANGED <<awaits, orphans, execs, callbacks>>,
         DecisionsStand, NoNewApproval,
         gate' \in {gate, Strayed},
         gate' # Strayed => /\ \/ status' = status \/ status \in Runnable
                               \/ status' \in Terminal
                            /\ status' = "Paused" => status = "Paused"
  PROVE  GateInv'
<1>1. Decided' /\ Executes'
  BY StandDecided DEF GateInv, Executes
<1>2. CASE gate' = Strayed
  BY <1>1, <1>2, Strays
<1>3. CASE gate' # Strayed
  BY <1>1, <1>3, Stays
<1> QED
  BY <1>2, <1>3

LEMMA ImportGate ==
  ASSUME TypeOK, GateInv, NEW new \in SUBSET Block, NEW paid \in BOOLEAN,
         NEW yes \in BOOLEAN, OnAccountImportChanged(new, paid, yes)
  PROVE  GateInv'
<1> DEFINE seen == IF paid THEN Advance(Run, "payment", yes) ELSE Run
           stored == CaseStatusChanged(seen, blocks, new, yes)
<1>1. /\ UNCHANGED <<awaits, orphans, execs, reviews, callbacks>>
      /\ status' = stored.status /\ jobs' = stored.jobs
      /\ gate' = IF status = "Paused" /\ status' # "Paused" THEN Strayed ELSE gate
  BY DEF OnAccountImportChanged, Store
<1>2. Run \in RunRow /\ Run.status = status /\ Run.jobs = jobs
  BY DEF Run, RunRow, TypeOK
<1>3. seen \in RunRow
  BY <1>2, AdvanceType DEF TypeOK
<1>4. /\ \A j \in seen.jobs : Approval(j) => j \in jobs
      /\ seen.status = status \/ (status \in Runnable /\ seen.status = "Active")
  BY <1>2, AdvanceGate
<1> HIDE DEF seen
<1>5. /\ \A j \in Advance(seen, "case status", yes).jobs : Approval(j) => j \in seen.jobs
      /\ \/ Advance(seen, "case status", yes).status = seen.status
         \/ /\ seen.status \in Runnable
            /\ Advance(seen, "case status", yes).status = "Active"
  BY <1>3, AdvanceGate
<1>6. \A j \in EnqueueResume(seen.jobs, current) : Approval(j) => j \in seen.jobs
  BY EnqueueNoApproval
<1>7. \/ stored = seen /\ seen.status \in Terminal
      \/ stored = [status |-> "Cancelled", jobs |-> {}] /\ seen.status \notin Terminal
      \/ stored = [status |-> "Waiting", jobs |-> {}] /\ seen.status \notin Terminal
      \/ stored = [seen EXCEPT !.jobs = EnqueueResume(@, current)]
      \/ stored = Advance(seen, "case status", yes)
  BY DEF stored, CaseStatusChanged, FollowCase
<1> HIDE DEF stored
<1>8. /\ \A j \in stored.jobs : Approval(j) => j \in jobs
      /\ \/ stored.status = status \/ stored.status = "Cancelled"
         \/ status \in Runnable \cup {"Paused"} /\ stored.status \in Runnable
  <2>1. CASE stored = seen
    BY <1>4, <2>1 DEF Runnable
  <2>2. CASE \/ stored = [status |-> "Cancelled", jobs |-> {}]
             \/ stored = [status |-> "Waiting", jobs |-> {}] /\ seen.status \notin Terminal
    <3>1. seen.status \notin Terminal => status \in Runnable \cup {"Paused"}
      BY <1>4 DEF TypeOK, Status
    <3> QED
      BY <2>2, <3>1 DEF Runnable
  <2>3. CASE stored = [seen EXCEPT !.jobs = EnqueueResume(@, current)]
    <3>1. stored.jobs = EnqueueResume(seen.jobs, current) /\ stored.status = seen.status
      BY <1>3, <2>3 DEF RunRow
    <3> QED
      BY <1>4, <1>6, <3>1 DEF Runnable
  <2>4. CASE stored = Advance(seen, "case status", yes)
    BY <1>4, <1>5, <2>4 DEF Runnable
  <2> QED
    BY <1>7, <2>1, <2>2, <2>3, <2>4
<1>9. NoNewApproval /\ DecisionsStand
  BY <1>1, <1>8 DEF NoNewApproval, DecisionsStand
<1>10. gate' # Strayed => /\ \/ status' = status \/ status \in Runnable
                             \/ status' \in Terminal
                          /\ status' = "Paused" => status = "Paused"
  BY <1>1, <1>8 DEF Runnable, Terminal
<1> QED
  BY <1>1, <1>9, <1>10, StoreGate

LEMMA OutsideGate ==
  ASSUME TypeOK, GateInv, Outside PROVE GateInv'
<1>1. ASSUME NEW event, NEW yes \in BOOLEAN, Store(Advance(Run, event, yes)),
             UNCHANGED <<awaits, orphans, execs, reviews, callbacks, gate>>
      PROVE  GateInv'
  <2>1. Run \in RunRow /\ Run.status = status /\ Run.jobs = jobs
    BY DEF Run, RunRow, TypeOK
  <2>2. /\ NoNewApproval
        /\ status' = status \/ (status \in Runnable /\ status' = "Active")
    BY <1>1, <2>1, AdvanceGate DEF Store, NoNewApproval
  <2>3. DecisionsStand
    BY <1>1 DEF DecisionsStand
  <2> QED
    BY <1>1, <2>2, <2>3, StoreGate
<1>2. ASSUME NEW new \in SUBSET Block, NEW yes \in BOOLEAN, OnPaymentEvent(new, yes)
      PROVE  GateInv'
  BY <1>1, <1>2 DEF OnPaymentEvent
<1>3. ASSUME NEW yes \in BOOLEAN, OnCommunicationEvent(yes)
      PROVE  GateInv'
  BY <1>1, <1>3 DEF OnCommunicationEvent
<1>4. ASSUME NEW s \in {"Cancelled", "Superseded"}, Close(s), DecisionsStand
      PROVE  GateInv'
  <2>1. /\ UNCHANGED <<awaits, orphans, execs, callbacks, gate>>
        /\ NoNewApproval /\ status' \in Terminal /\ status' # "Paused"
    BY <1>4 DEF Close, NoNewApproval, Terminal
  <2> QED
    BY <1>4, <2>1, StoreGate
<1>5. CASE OnStrategyDeactivated
  BY <1>4, <1>5 DEF OnStrategyDeactivated, DecisionsStand
<1>6. ASSUME NEW closeReview, Supersede(closeReview) PROVE GateInv'
  <2>1. DecisionsStand
    BY <1>6 DEF Supersede, DecisionsStand, OpenReview
  <2> QED
    BY <1>4, <1>6, <2>1 DEF Supersede
<1>7. ASSUME NEW r \in Review, OpenGovernanceReview(r) \/ HoldOrRelease(r)
      PROVE  GateInv'
  <2>1. /\ UNCHANGED <<status, awaits, jobs, orphans, execs, callbacks, gate>>
        /\ \E new : reviews' = [reviews EXCEPT ![r] = new]
        /\ reviews[r] \notin {"approved", "rejected"}
    BY <1>7 DEF OpenGovernanceReview, HoldOrRelease, FreshReview, OpenReview
  <2>2. DecisionsStand /\ NoNewApproval
    BY <2>1, FreshStands DEF NoNewApproval
  <2> QED
    BY <2>1, <2>2, StoreGate
<1> QED
  BY <1>2, <1>3, <1>5, <1>6, <1>7, ImportGate DEF Outside

(* A decision: the review it decides is not the one an approval is told of. *)
LEMMA ReviewerGate ==
  ASSUME TypeOK, GateInv, NEW r \in Review, NEW continue \in BOOLEAN,
         Decide(r, continue)
  PROVE  GateInv'
<1>1. /\ UNCHANGED <<status, awaits, jobs, orphans, execs, gate>>
      /\ reviews' = [reviews EXCEPT ![r] = IF continue THEN "approved" ELSE "rejected"]
      /\ callbacks' = callbacks \cup {[review |-> r, continue |-> continue]}
      /\ reviews[r] = "awaiting"
  BY DEF Decide
<1>2. DecisionsStand
  BY <1>1, FreshStands
<1>3. Decided'
  <2>1. \A c \in callbacks : c.review # r /\ c.review \in Review
    BY <1>1 DEF GateInv, Decided, TypeOK
  <2> QED
    BY <1>1, <2>1 DEF GateInv, Decided, TypeOK
<1>4. Resumes'
  <2> SUFFICES ASSUME gate # Strayed, NEW j \in jobs, Approval(j)
               PROVE  Resuming(j)'
    BY <1>1 DEF Resumes
  <2>1. Resuming(j) /\ gate # r
    BY <1>1 DEF GateInv, Resumes, Resuming
  <2> QED
    BY <1>1, <1>2, <2>1 DEF Resuming, DecisionsStand
<1>5. Gated' /\ Pauses' /\ Executes'
  BY <1>1, <1>2 DEF GateInv, Gated, Pauses, Executes, DecisionsStand
<1> QED
  BY <1>3, <1>4, <1>5 DEF GateInv

LEMMA HookGate ==
  ASSUME TypeOK, GateInv, NEW c \in callbacks, OnHumanReviewDecided(c)
  PROVE  GateInv'
<1>1. /\ UNCHANGED <<awaits, orphans, execs, reviews, gate>>
      /\ callbacks' = callbacks \ {c}
      /\ c \in [review: Review, continue: BOOLEAN]
  BY DEF OnHumanReviewDecided, TypeOK
<1>2. DecisionsStand /\ Decided' /\ Executes'
  BY <1>1 DEF DecisionsStand, GateInv, Decided, Executes
<1>3. CASE AwaitsDecision(c.review) /\ c.continue
  <2>1. /\ status' = status /\ status = "Paused" /\ awaits = c.review
        /\ jobs' = Put(jobs, "resume", current, TRUE, NoStep)
    BY <1>1, <1>3 DEF OnHumanReviewDecided, AwaitsDecision
  <2>2. CASE gate = Strayed
    BY <1>1, <1>2, <2>2, Strays
  <2>3. CASE gate # Strayed
    <3>1. gate \in Review /\ gate = c.review
      BY <1>1, <2>1, <2>3 DEF GateInv, Pauses, TypeOK
    <3>2. reviews[gate] = "approved" /\ \A j \in jobs : ~Approval(j)
      BY <1>1, <1>3, <2>3, <3>1 DEF GateInv, Decided, Resumes, Resuming
    <3>3. \A d \in callbacks' : d.review # gate
      <4>1. \A d \in callbacks : d.review = gate => d.continue
        BY <3>2 DEF GateInv, Decided
      <4>2. \A d \in callbacks : d.review = gate => d = c
        BY <1>1, <1>3, <3>1, <4>1 DEF TypeOK
      <4> QED
        BY <1>1, <4>2
    <3>4. \A j, k \in jobs' : Approval(j) /\ Approval(k) => j = k
      BY <2>1, <3>2 DEF Put, AddRow
    <3>5. Resumes'
      BY <1>1, <2>1, <3>1, <3>2, <3>3, <3>4 DEF Resumes, Resuming, Runnable
    <3>6. Gated' /\ Pauses'
      BY <1>1, <2>1 DEF GateInv, Gated, Pauses
    <3> QED
      BY <1>2, <3>5, <3>6 DEF GateInv
  <2> QED
    BY <2>2, <2>3
<1>4. CASE ~(AwaitsDecision(c.review) /\ c.continue)
  <2>1. /\ status' = status \/ status' \in Terminal
        /\ status' = "Paused" => status = "Paused"
        /\ NoNewApproval
    BY <1>1, <1>4 DEF OnHumanReviewDecided, NoNewApproval, Terminal
  <2> QED
    BY <1>1, <1>2, <2>1, Stays
<1> QED
  BY <1>3, <1>4

LEMMA FaultGate ==
  ASSUME TypeOK, GateInv, Fault PROVE GateInv'
<1>1. UNCHANGED <<reviews, awaits>> /\ DecisionsStand
  BY DEF Fault, StepRaises, WorkerDies, LoseCallback, DecisionsStand
<1>2. ASSUME NEW c \in callbacks, LoseCallback(c) PROVE GateInv'
  <2>1. UNCHANGED <<status, jobs, orphans, execs, gate>> /\ callbacks' \subseteq callbacks
    BY <1>2 DEF LoseCallback
  <2>2. Decided' /\ Executes' /\ NoNewApproval
    BY <1>1, <2>1, StandDecided DEF GateInv, Executes, NoNewApproval
  <2> QED
    BY <1>1, <2>1, <2>2, Stays
<1>3. ASSUME NEW e \in execs, WorkerDies(e) \/ \E retry \in BOOLEAN : StepRaises(e, retry)
      PROVE  GateInv'
  <2>1. e.job.type = "execute"
    BY DEF GateInv, Executes
  <2>2. /\ Leave(e) /\ UNCHANGED callbacks
        /\ gate' = Gate(gate)
        /\ status' = "Paused" => status = "Paused"
        /\ orphans' \subseteq orphans \cup {e.job}
        /\ jobs' \subseteq jobs \cup {e.job}
    BY <1>3 DEF WorkerDies, StepRaises, Gate, Written
  <2>3. Executes' /\ NoNewApproval
    BY <2>1, <2>2 DEF Leave, GateInv, Executes, NoNewApproval, Approval
  <2> QED
    BY <1>1, <2>2, <2>3, FlightKept
<1> QED
  BY <1>2, <1>3 DEF Fault

LEMMA GateStep ==
  ASSUME TypeOK, GateInv, [Next]_vars PROVE GateInv'
<1>1. ASSUME UNCHANGED <<status, awaits, execs, reviews, callbacks, gate>>,
             Executes', NoNewApproval
      PROVE  GateInv'
  <2>1. DecisionsStand /\ Decided'
    BY <1>1 DEF DecisionsStand, GateInv, Decided
  <2> QED
    BY <1>1, <2>1, Stays
<1>2. ASSUME NEW j \in orphans, Reclaim(j) PROVE GateInv'
  BY <1>1, <1>2 DEF Reclaim, GateInv, Executes, NoNewApproval, Approval
<1>3. CASE Worker
  BY <1>2, <1>3, HandleJobGate, ProceedGate DEF Worker
<1>4. CASE Clock
  BY <1>1, <1>4 DEF Clock, WaitElapses, GateInv, Executes, NoNewApproval
<1>5. CASE Reviewer \/ Hook
  BY <1>5, ReviewerGate, HookGate DEF Reviewer, Hook
<1>6. CASE UNCHANGED vars
  BY <1>1, <1>6 DEF vars, GateInv, Executes, NoNewApproval
<1> QED
  BY <1>3, <1>4, <1>5, <1>6, OutsideGate, FaultGate DEF Next

LEMMA GateInit == Init => GateInv
<1> SUFFICES ASSUME Init PROVE GateInv
  OBVIOUS
<1>1. \A j \in jobs : ~Approval(j)
  BY EnqueueNoApproval DEF Init
<1> QED
  BY <1>1, GateValues DEF Init, GateInv, Decided, Executes, Resumes, Gated, Pauses

(* No step of a run that was paused for a review begins before the review  *)
(* is approved, until an import's resume, an approval delivered twice or   *)
(* an execution that was in flight takes the run out of a pause: not by a  *)
(* payment, a webhook, another review or a lost callback, not by a job     *)
(* that was reclaimed, whatever hold is set or lifted.                     *)
THEOREM ReviewsGateTheRun == Spec => ReviewGate
<1>1. Init => TypeOK /\ GateInv
  BY GateInit, TypeInit
<1>2. TypeOK /\ GateInv /\ [Next]_vars => TypeOK' /\ GateInv'
  BY TypeStep, GateStep
<1>3. TypeOK /\ GateInv /\ [Next]_vars => [Guarded]_vars
  <2>1. TypeOK /\ GateInv /\ Next => Guarded
    BY BeginsRunnable DEF GateInv, Gated, Guarded
  <2> QED
    BY <2>1
<1>4. [Guarded]_vars => [\A e \in execs' \ execs :
        (e.phase = "begun" /\ gate \in Review) => reviews[gate] = "approved"]_vars
  BY DEF Guarded
<1> QED
  BY <1>1, <1>2, <1>3, <1>4, PTL DEF Spec, ReviewGate

=============================================================================
