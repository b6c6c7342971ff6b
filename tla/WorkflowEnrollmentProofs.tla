---------------------- MODULE WorkflowEnrollmentProofs ----------------------
(***************************************************************************)
(* What WorkflowEnrollment guarantees for every set of strategies,         *)
(* accounts, requests and worker threads.                                  *)
(***************************************************************************)
EXTENDS WorkflowEnrollment, TLAPS

USE DEF history, Goes

(* The type invariant: no request, hook, enrollment or failure leaves a    *)
(* status outside its enumeration or a run that is none.                   *)
LEMMA RequestTyped ==
  ASSUME TypeOK, NEW q \in Requests, request[q].phase # "idle"
  PROVE  /\ request[q] \in Request
         /\ request[q].strategy \in Strategies
         /\ request[q].new \in Status
         /\ request[q].hook \in {"idle", "activated", "withdrawn"}
         /\ request[q].priors \in SUBSET Strategies
         /\ request[q].seen \in SUBSET Strategies
         /\ request[q].left \in SUBSET Run
         /\ request[q].closing \in SUBSET Run
  BY DEF TypeOK, Request, IdleRequest

LEMMA GoesTyped ==
  ASSUME TypeOK, NEW q \in Requests, NEW next \in Request \cup {IdleRequest},
         Goes(q, next)
  PROVE  request' \in [Requests -> Request \cup {IdleRequest}]
  BY DEF TypeOK, Goes

LEMMA CommitTyped ==
  ASSUME TypeOK, NEW q \in Requests, CommitStatus(q)
  PROVE  TypeOK'
<1>1. request[q] \in Request /\ request[q].phase # "idle"
  BY RequestTyped DEF CommitStatus
<1>2. ASSUME request[q].hook # "idle"
      PROVE  [IdleRequest EXCEPT !.phase = request[q].hook,
                                 !.strategy = request[q].strategy] \in Request
  BY <1>1, <1>2, RequestTyped DEF IdleRequest, Request, Status
<1>3. request' \in [Requests -> Request \cup {IdleRequest}]
  BY <1>2, GoesTyped DEF CommitStatus
<1> QED
  BY <1>1, <1>3, RequestTyped DEF CommitStatus, TypeOK

LEMMA ReadTyped ==
  ASSUME TypeOK, NEW q \in Requests, NEW s \in Strategies,
         NEW from, NEW new \in Status, NEW hook \in {"idle", "activated", "withdrawn"},
         ReadStatus(q, s, from, new, hook)
  PROVE  TypeOK'
<1>1. [IdleRequest EXCEPT !.phase = "deciding", !.strategy = s, !.new = new,
                          !.hook = hook] \in Request
  BY DEF IdleRequest, Request
<1>2. request' \in [Requests -> Request \cup {IdleRequest}]
  BY <1>1, GoesTyped DEF ReadStatus
<1> QED
  BY <1>2 DEF ReadStatus, TypeOK

LEMMA SupersedeTyped ==
  ASSUME TypeOK, NEW q \in Requests, SupersedeRead(q)
  PROVE  TypeOK'
<1>1. request[q] \in Request /\ request[q].strategy \in Strategies
  BY RequestTyped DEF SupersedeRead
<1>2. Priors(request[q].strategy) \in SUBSET Strategies
  BY <1>1, EnrollmentAssumption DEF Priors
<1>3. RunsOf(Priors(request[q].strategy)) \in SUBSET Run
  BY DEF RunsOf, TypeOK
<1>4. [request[q] EXCEPT !.phase = "superseding",
         !.priors = Priors(request[q].strategy),
         !.seen = {p \in Priors(request[q].strategy) : status[p] = "Active"},
         !.left = RunsOf(Priors(request[q].strategy))] \in Request
  BY <1>1, <1>2, <1>3 DEF Request
<1>5. request' \in [Requests -> Request \cup {IdleRequest}]
  BY <1>4, GoesTyped DEF SupersedeRead
<1> QED
  BY <1>2, <1>5 DEF SupersedeRead, TypeOK

LEMMA RunTyped ==
  ASSUME TypeOK, NEW q \in Requests, NEW r \in request[q].left,
         SupersedeRun(q, r)
  PROVE  TypeOK'
<1>1. /\ request[q] \in Request
      /\ request[q].left \in SUBSET Run
      /\ request[q].closing \in SUBSET Run
  BY RequestTyped DEF SupersedeRun
<1>2. [request[q] EXCEPT !.left = request[q].left \ {r}, !.closing = {},
                         !.fresh = TRUE] \in Request
  BY <1>1 DEF Request
<1>3. [request[q] EXCEPT !.left = request[q].left \ {r},
                         !.closing = request[q].closing \cup {r}] \in Request
  <2>1. request[q].closing \cup {r} \in SUBSET Run
    BY <1>1
  <2> QED
    BY <1>1, <2>1 DEF Request
<1>4. request' \in [Requests -> Request \cup {IdleRequest}]
  BY <1>2, <1>3, GoesTyped DEF SupersedeRun
<1> QED
  BY <1>4 DEF SupersedeRun, TypeOK

LEMMA FinishTyped ==
  ASSUME TypeOK, NEW q \in Requests, NEW reread, FinishActivation(q, reread)
  PROVE  TypeOK'
<1>1. request[q].strategy \in Strategies
  BY RequestTyped DEF FinishActivation
<1>2. [strategy |-> request[q].strategy, cause |-> "activation"] \in Job
  BY <1>1 DEF Job, Cause
<1>3. request' \in [Requests -> Request \cup {IdleRequest}]
  BY GoesTyped DEF FinishActivation
<1>4. status' \in [Strategies -> Status]
  BY DEF FinishActivation, TypeOK, Status
<1> QED
  BY <1>2, <1>3, <1>4 DEF FinishActivation, TypeOK

LEMMA CancelTyped ==
  ASSUME TypeOK, NEW q \in Requests, CancelRead(q) \/ CancelCommit(q)
  PROVE  TypeOK'
<1>1. request[q] \in Request /\ request[q].strategy \in Strategies
  BY RequestTyped DEF CancelRead, CancelCommit
<1>2. RunsOf({request[q].strategy}) \in SUBSET Run
  BY DEF RunsOf, TypeOK
<1>3. [request[q] EXCEPT !.phase = "cancelling",
                         !.left = RunsOf({request[q].strategy})] \in Request
  BY <1>1, <1>2 DEF Request
<1>4. request' \in [Requests -> Request \cup {IdleRequest}]
  BY <1>3, GoesTyped DEF CancelRead, CancelCommit
<1> QED
  BY <1>1, <1>4 DEF CancelRead, CancelCommit, TypeOK

LEMMA FailTyped ==
  ASSUME TypeOK, NEW q \in Requests, HookFails(q)
  PROVE  TypeOK'
<1>1. /\ request[q].strategy \in Strategies
      /\ request[q].priors \in SUBSET Strategies
  BY RequestTyped DEF HookFails
<1>2. lost' \in SUBSET Hook
  BY <1>1 DEF HookFails, Hook, TypeOK
<1>3. request' \in [Requests -> Request \cup {IdleRequest}]
  BY GoesTyped DEF HookFails
<1> QED
  BY <1>2, <1>3, EnrollmentAssumption DEF HookFails, TypeOK

LEMMA EnrollTyped ==
  ASSUME TypeOK, NEW t \in Threads, EnrollStep(t)
  PROVE  TypeOK'
<1>1. ASSUME NEW job \in queue, EnrollStrategy(t, job) PROVE TypeOK'
  <2>1. job.strategy \in Strategies /\ job.cause \in Cause
    BY DEF TypeOK, Job
  <2>2. [IdleThread EXCEPT !.strategy = job.strategy, !.cause = job.cause,
                           !.todo = Members[job.strategy]] \in Enroll
    BY <2>1, EnrollmentAssumption DEF IdleThread, Enroll
  <2> QED
    BY <1>1, <2>1, <2>2 DEF EnrollStrategy, TypeOK
<1>2. ASSUME enroll[t] # IdleThread
      PROVE  /\ enroll[t] \in Enroll
             /\ [strategy |-> enroll[t].strategy, cause |-> enroll[t].cause] \in Job
             /\ enroll[t].adding \in SUBSET Read
             /\ enroll[t].closing \in SUBSET Run
  BY <1>2 DEF TypeOK, Enroll, Job
<1>3. ASSUME NEW a \in enroll[t].todo, SkipAccount(t, a) \/ EnrollAccount(t, a)
      PROVE  TypeOK'
  <2>1. enroll[t] \in Enroll /\ a \in Accounts
    BY <1>2, <1>3 DEF IdleThread, Enroll
  <2>2. RunsOn(a) \in SUBSET Run
    BY DEF RunsOn, TypeOK
  <2>3. ASSUME NEW closing \in SUBSET Run, NEW adding \in SUBSET Read
        PROVE  [enroll[t] EXCEPT !.todo    = enroll[t].todo \ {a},
                                 !.closing = enroll[t].closing \cup closing,
                                 !.adding  = enroll[t].adding \cup adding] \in Enroll
    BY <2>1 DEF Enroll
  <2>4. ASSUME NEW closing \in SUBSET Run, NEW adding \in SUBSET Read,
               Visited(t, a, closing, adding)
        PROVE  TypeOK'
    BY <2>3, <2>4 DEF Visited, TypeOK
  <2>5. ReadNow(t, a) \in SUBSET Read
    BY <2>1 DEF ReadNow, Read, TypeOK
  <2> QED
    BY <1>3, <2>2, <2>4, <2>5 DEF SkipAccount, EnrollAccount
<1>4. ASSUME NEW again \in BOOLEAN, EnrollCommit(t, again) PROVE TypeOK'
  <2>1. born' \in 0..MaxRuns
    BY <1>4 DEF EnrollCommit, TypeOK
  <2>2. NewRuns(t) \in SUBSET Run
    <3>1. ASSUME NEW read \in enroll[t].adding
          PROVE  [account |-> read.account, strategy |-> enroll[t].strategy,
                  id |-> born + 1, thread |-> t, since |-> read.since] \in Run
      <4>1. /\ read.account \in Accounts /\ read.since \in 0..MaxRuns
            /\ enroll[t].strategy \in Strategies
        BY <1>2, <1>4 DEF EnrollCommit, Enroll, Read
      <4>2. born + 1 \in 1..MaxRuns
        BY <1>4 DEF EnrollCommit, TypeOK
      <4> QED
        BY <4>1, <4>2 DEF Run
    <3> QED
      BY <3>1 DEF NewRuns
  <2>3. enroll' \in [Threads -> Enroll \cup {IdleThread}]
    BY <1>4 DEF EnrollCommit, TypeOK
  <2> QED
    BY <1>2, <1>4, <2>1, <2>2, <2>3, EnrollmentAssumption DEF EnrollCommit, TypeOK
<1>5. ASSUME EnrollFails(t) PROVE TypeOK'
  <2>1. enroll' \in [Threads -> Enroll \cup {IdleThread}]
    BY <1>5 DEF EnrollFails, TypeOK
  <2> QED
    BY <1>2, <1>5, <2>1, EnrollmentAssumption DEF EnrollFails, TypeOK
<1> QED
  BY <1>1, <1>3, <1>4, <1>5 DEF EnrollStep

LEMMA TypeStep == TypeOK /\ [Next]_vars => TypeOK'
<1> SUFFICES ASSUME TypeOK, [Next]_vars PROVE TypeOK'
  OBVIOUS
<1>1. ASSUME NEW q \in Requests, RequestStep(q) PROVE TypeOK'
  BY <1>1, CommitTyped, SupersedeTyped, RunTyped, FinishTyped, CancelTyped,
     FailTyped DEF RequestStep
<1>2. ASSUME NEW q \in Requests, NEW s \in Strategies, Manage(q, s) PROVE TypeOK'
  <2>1. Rejected(s) \in Status
    BY DEF Rejected, Status
  <2>2. {"Under Review", "Approved", "Inactive", "Active"} \subseteq Status
    BY DEF Status
  <2>3. CASE SubmitForReview(q, s) \/ Edit(q, s)
    BY <2>2, <2>3, ReadTyped DEF SubmitForReview, Edit
  <2>4. CASE Approve(q, s)
    BY <2>2, <2>4, ReadTyped DEF Approve
  <2>5. CASE Reject(q, s)
    BY <2>1, <2>5, ReadTyped DEF Reject
  <2>6. CASE Deactivate(q, s)
    BY <2>2, <2>6, ReadTyped DEF Deactivate
  <2>7. CASE Activate(q, s)
    BY <2>2, <2>7, ReadTyped DEF Activate
  <2> QED
    BY <1>2, <2>3, <2>4, <2>5, <2>6, <2>7 DEF Manage
<1>3. ASSUME NEW scope \in SUBSET Strategies, EnqueueEnrolls(scope) PROVE TypeOK'
  BY <1>3 DEF EnqueueEnrolls, TypeOK, Job, Cause
<1>4. ASSUME NEW job \in queue, RefuseEnrollment(job) PROVE TypeOK'
  BY <1>4 DEF RefuseEnrollment, TypeOK
<1>5. ASSUME NEW r \in open, RunEnds(r) PROVE TypeOK'
  BY <1>5 DEF RunEnds, TypeOK
<1>6. CASE UNCHANGED vars
  BY <1>6 DEF vars, TypeOK
<1> QED
  BY <1>1, <1>2, <1>3, <1>4, <1>5, <1>6, EnrollTyped DEF Next

THEOREM TypeCorrect == Spec => []TypeOK
<1>1. Init => TypeOK
  BY EnrollmentAssumption DEF Init, TypeOK, Status
<1> QED
  BY <1>1, TypeStep, PTL DEF Spec

-----------------------------------------------------------------------------
(* What an enrollment is about to commit replaces every run it leaves, but *)
(* for those other threads committed after it read the account.            *)
Replaces ==
  \A t \in Threads : \A read \in enroll[t].adding :
    \A r \in RunsOn(read.account) \ enroll[t].closing :
      r.thread # t /\ read.since < r.id

(* It reads an account once, and only runs with an older id are there.     *)
ReadsOnce ==
  \A t \in Threads : \A read \in enroll[t].adding :
    /\ read.since <= born
    /\ read.account \notin enroll[t].todo
    /\ \A other \in enroll[t].adding : other.account = read.account => other = read

BornBefore == \A r \in open : r.id <= born

OneRunInv == OneOpenRunPerThread /\ Replaces /\ ReadsOnce /\ BornBefore

LEMMA ThreadFacts ==
  ASSUME TypeOK, NEW t \in Threads
  PROVE  /\ enroll[t] # IdleThread => enroll[t] \in Enroll
         /\ \A next : enroll' = [enroll EXCEPT ![t] = next] =>
              /\ enroll'[t] = next
              /\ \A u \in Threads \ {t} : enroll'[u] = enroll[u]
  BY DEF TypeOK

(* Nothing but the commit of an enrollment adds runs.                      *)
LEMMA OneRunShrinks ==
  ASSUME OneRunInv, open' \subseteq open, born' = born,
         \A t \in Threads : \/ enroll'[t] = enroll[t]
                            \/ enroll'[t].adding = {}
  PROVE  OneRunInv'
<1>1. OneOpenRunPerThread' /\ BornBefore'
  BY DEF OneRunInv, OneOpenRunPerThread, BornBefore
<1>2. Replaces'
  BY DEF OneRunInv, Replaces, RunsOn
<1>3. ReadsOnce'
  BY DEF OneRunInv, ReadsOnce
<1> QED
  BY <1>1, <1>2, <1>3 DEF OneRunInv

(* An account that is added brings its open runs into closing.             *)
LEMMA VisitKeepsOneRun ==
  ASSUME TypeOK, OneRunInv, NEW t \in Threads, NEW a \in enroll[t].todo,
         SkipAccount(t, a) \/ EnrollAccount(t, a)
  PROVE  OneRunInv'
<1>1. enroll[t] # IdleThread
  BY DEF IdleThread
<1>2. PICK closing, adding :
        /\ Visited(t, a, closing, adding)
        /\ adding \subseteq {[account |-> a, since |-> born]}
        /\ adding # {} => RunsOn(a) \subseteq closing
  BY DEF SkipAccount, EnrollAccount, ReadNow
<1>3. /\ open' = open /\ born' = born
      /\ enroll[t] \in Enroll
      /\ enroll'[t] = [enroll[t] EXCEPT !.todo    = enroll[t].todo \ {a},
                                        !.closing = enroll[t].closing \cup closing,
                                        !.adding  = enroll[t].adding \cup adding]
      /\ \A u \in Threads \ {t} : enroll'[u] = enroll[u]
  BY <1>1, <1>2, ThreadFacts DEF Visited
<1>4. /\ enroll'[t].todo = enroll[t].todo \ {a}
      /\ enroll'[t].adding = enroll[t].adding \cup adding
      /\ enroll'[t].closing = enroll[t].closing \cup closing
  BY <1>3 DEF Enroll
<1>5. Replaces'
  <2>1. ASSUME NEW read \in enroll[t].adding,
               NEW r \in RunsOn(read.account) \ enroll'[t].closing
        PROVE  r.thread # t /\ read.since < r.id
    BY <1>4 DEF OneRunInv, Replaces
  <2>2. ASSUME NEW read \in adding,
               NEW r \in RunsOn(read.account) \ enroll'[t].closing
        PROVE  FALSE
    BY <1>2, <1>4, <2>2
  <2>3. \A read \in enroll'[t].adding :
          \A r \in RunsOn(read.account) \ enroll'[t].closing :
            r.thread # t /\ read.since < r.id
    BY <1>4, <2>1, <2>2
  <2>4. \A x : RunsOn(x)' = RunsOn(x)
    BY <1>3 DEF RunsOn
  <2> QED
    BY <1>3, <2>3, <2>4 DEF OneRunInv, Replaces
<1>6. ReadsOnce'
  <2>1. \A read \in enroll'[t].adding :
          /\ read.since <= born
          /\ read.account \notin enroll'[t].todo
          /\ \A other \in enroll'[t].adding :
               other.account = read.account => other = read
    <3>1. born <= born
      BY DEF TypeOK
    <3>2. \A read \in adding : read.account = a /\ read.since = born
      BY <1>2
    <3>3. \A read, other \in adding : read = other
      BY <1>2
    <3>4. \A read \in enroll[t].adding : read.account # a
      BY DEF OneRunInv, ReadsOnce
    <3> QED
      BY <1>4, <3>1, <3>2, <3>3, <3>4 DEF OneRunInv, ReadsOnce
  <2> QED
    BY <1>3, <2>1 DEF OneRunInv, ReadsOnce
<1> QED
  BY <1>3, <1>5, <1>6 DEF OneRunInv, OneOpenRunPerThread, BornBefore

(* An enrollment commits: what it leaves open was committed by others      *)
(* after it read the account.                                              *)
LEMMA CommitKeepsOneRun ==
  ASSUME TypeOK, OneRunInv, NEW t \in Threads, NEW again \in BOOLEAN,
         EnrollCommit(t, again)
  PROVE  OneRunInv'
<1>1. /\ open' = (open \ enroll[t].closing) \cup NewRuns(t)
      /\ enroll'[t] = IdleThread
      /\ \A u \in Threads \ {t} : enroll'[u] = enroll[u]
  BY ThreadFacts DEF EnrollCommit
<1>2. /\ born \in Nat /\ born' \in Nat /\ born <= born'
      /\ enroll[t].adding # {} => born' = born + 1
  BY EnrollmentAssumption DEF EnrollCommit, TypeOK
<1>3. \A r \in open : r.id \in Nat /\ r.id <= born
  BY DEF OneRunInv, BornBefore, TypeOK, Run
<1>4. \A r \in NewRuns(t) :
        \E read \in enroll[t].adding :
          /\ r = [account |-> read.account, strategy |-> enroll[t].strategy,
                  id |-> born + 1, thread |-> t, since |-> read.since]
          /\ r.account = read.account /\ r.since = read.since
          /\ r.id = born + 1 /\ r.thread = t
  BY DEF NewRuns
<1>5. \A r \in NewRuns(t) : born' = born + 1
  BY <1>2, <1>4
<1>6. ASSUME NEW r \in NewRuns(t), NEW u \in open \ enroll[t].closing,
             r.account = u.account
      PROVE  r.thread # u.thread /\ ~(r.id <= u.id) /\ r.since < u.id
  <2>1. PICK read \in enroll[t].adding :
          /\ r.account = read.account /\ r.since = read.since
          /\ r.id = born + 1 /\ r.thread = t
    BY <1>4
  <2>2. u.thread # t /\ read.since < u.id
    BY <1>6, <2>1 DEF OneRunInv, Replaces, RunsOn
  <2>3. ~(r.id <= u.id)
    BY <1>2, <1>3, <2>1
  <2> QED
    BY <2>1, <2>2, <2>3
<1>7. ASSUME NEW r \in NewRuns(t), NEW u \in NewRuns(t), r.account = u.account
      PROVE  r = u
  BY <1>4, <1>7 DEF OneRunInv, ReadsOnce
<1>8. OneOpenRunPerThread'
  <2> SUFFICES ASSUME NEW r \in open', NEW u \in open', r.account = u.account, r # u
               PROVE  r.thread # u.thread /\ (r.id <= u.id => u.since < r.id)
    BY DEF OneOpenRunPerThread
  <2>1. CASE r \in NewRuns(t)
    BY <1>1, <1>6, <1>7, <2>1
  <2>2. CASE u \in NewRuns(t)
    BY <1>1, <1>6, <1>7, <2>2
  <2>3. CASE r \in open /\ u \in open
    BY <2>3 DEF OneRunInv, OneOpenRunPerThread
  <2> QED
    BY <1>1, <2>1, <2>2, <2>3
<1>9. Replaces'
  <2> SUFFICES ASSUME NEW u \in Threads, NEW read \in enroll'[u].adding,
                      NEW r \in open', r.account = read.account,
                      r \notin enroll'[u].closing
               PROVE  r.thread # u /\ read.since < r.id
    BY DEF Replaces, RunsOn
  <2>1. u # t /\ enroll'[u] = enroll[u]
    BY <1>1 DEF IdleThread
  <2>2. CASE r \in open
    BY <2>1, <2>2 DEF OneRunInv, Replaces, RunsOn
  <2>3. CASE r \in NewRuns(t)
    <3>1. r.id = born + 1 /\ r.thread = t
      BY <1>4, <2>3
    <3>2. read.since \in Nat /\ read.since <= born
      <4>1. enroll[u] # IdleThread
        BY <2>1 DEF IdleThread
      <4>2. read \in Read
        BY <2>1, <4>1, ThreadFacts DEF Enroll
      <4>3. read.since \in Nat
        BY <4>2, EnrollmentAssumption DEF Read
      <4> QED
        BY <2>1, <4>3 DEF OneRunInv, ReadsOnce
    <3> QED
      BY <1>2, <2>1, <3>1, <3>2
  <2> QED
    BY <1>1, <2>2, <2>3
<1>10. ReadsOnce'
  <2> SUFFICES ASSUME NEW u \in Threads, NEW read \in enroll'[u].adding
               PROVE  /\ read.since <= born'
                      /\ read.account \notin enroll'[u].todo
                      /\ \A other \in enroll'[u].adding :
                           other.account = read.account => other = read
    BY DEF ReadsOnce
  <2>1. u # t /\ enroll'[u] = enroll[u]
    BY <1>1 DEF IdleThread
  <2>2. enroll[u] # IdleThread
    BY <2>1 DEF IdleThread
  <2>3. read.since \in Nat
    BY <2>1, <2>2, ThreadFacts, EnrollmentAssumption DEF Enroll, Read
  <2>4. read.since <= born
    BY <2>1 DEF OneRunInv, ReadsOnce
  <2>5. read.since <= born'
    BY <1>2, <2>3, <2>4
  <2> QED
    BY <2>1, <2>5 DEF OneRunInv, ReadsOnce
<1>11. BornBefore'
  <2> SUFFICES ASSUME NEW r \in open' PROVE r.id <= born'
    BY DEF BornBefore
  <2>1. CASE r \in open
    BY <1>2, <1>3, <2>1
  <2>2. CASE r \in NewRuns(t)
    BY <1>2, <1>4, <1>5, <2>2
  <2> QED
    BY <1>1, <2>1, <2>2
<1> QED
  BY <1>8, <1>9, <1>10, <1>11 DEF OneRunInv

(* With any number of worker threads, whatever is activated, superseded,   *)
(* imported, repeated or rolled back meanwhile, an account has at most one *)
(* open run of each thread, and a second one only of enrollments that      *)
(* overlapped; with one thread, one open run.                              *)
THEOREM OneRunPerThread == Spec => []OneOpenRunPerThread
<1>1. Init => OneRunInv
  BY DEF Init, OneRunInv, OneOpenRunPerThread, Replaces, ReadsOnce, BornBefore,
         IdleThread
<1>2. TypeOK /\ OneRunInv /\ [Next]_vars => OneRunInv'
  <2> SUFFICES ASSUME TypeOK, OneRunInv, [Next]_vars PROVE OneRunInv'
    OBVIOUS
  <2>1. ASSUME NEW q \in Requests, RequestStep(q) PROVE OneRunInv'
    <3>1. open' \subseteq open /\ UNCHANGED <<enroll, born>>
      BY <2>1 DEF RequestStep, CommitStatus, SupersedeRead, SupersedeRun,
         FinishActivation, CancelRead, CancelCommit, HookFails
    <3> QED
      BY <3>1, OneRunShrinks
  <2>2. ASSUME NEW q \in Requests, NEW s \in Strategies, Manage(q, s)
        PROVE  OneRunInv'
    <3>1. open' = open /\ UNCHANGED <<enroll, born>>
      BY <2>2 DEF Manage, SubmitForReview, Approve, Edit, Reject, Deactivate,
         Activate, ReadStatus
    <3> QED
      BY <3>1, OneRunShrinks
  <2>3. ASSUME NEW t \in Threads, EnrollStep(t) PROVE OneRunInv'
    <3>1. ASSUME NEW job \in queue, EnrollStrategy(t, job) PROVE OneRunInv'
      <4>1. /\ open' = open /\ born' = born
            /\ enroll'[t].adding = {}
            /\ \A u \in Threads \ {t} : enroll'[u] = enroll[u]
        BY <3>1, ThreadFacts DEF EnrollStrategy, IdleThread
      <4> QED
        BY <4>1, OneRunShrinks
    <3>2. ASSUME EnrollFails(t) PROVE OneRunInv'
      <4>1. /\ open' = open /\ born' = born
            /\ enroll'[t] = IdleThread
            /\ \A u \in Threads \ {t} : enroll'[u] = enroll[u]
        BY <3>2, ThreadFacts DEF EnrollFails
      <4>2. enroll'[t].adding = {}
        BY <4>1 DEF IdleThread
      <4> QED
        BY <4>1, <4>2, OneRunShrinks
    <3> QED
      BY <2>3, <3>1, <3>2, VisitKeepsOneRun, CommitKeepsOneRun DEF EnrollStep
  <2>4. CASE \/ \E scope \in SUBSET Strategies : EnqueueEnrolls(scope)
             \/ \E job \in queue : RefuseEnrollment(job)
             \/ \E r \in open : RunEnds(r)
             \/ UNCHANGED vars
    <3>1. open' \subseteq open /\ UNCHANGED <<enroll, born>>
      BY <2>4 DEF EnqueueEnrolls, RefuseEnrollment, RunEnds, vars
    <3> QED
      BY <3>1, OneRunShrinks
  <2> QED
    BY <2>1, <2>2, <2>3, <2>4 DEF Next
<1>3. OneRunInv => OneOpenRunPerThread
  BY DEF OneRunInv
<1> QED
  BY <1>1, <1>2, <1>3, TypeCorrect, PTL DEF Spec

-----------------------------------------------------------------------------
(* What a request may still close, or has closed and not committed.        *)
Holds(q, r) ==
  \/ /\ request[q].phase = "cancelling"
     /\ request[q].strategy = r.strategy
     /\ r \in request[q].left
  \/ /\ request[q].phase = "superseding"
     /\ r.strategy \in request[q].priors
     /\ r \in request[q].left \cup request[q].closing

Missed(s) == s \in overlap \/ [kind |-> "withdrawal", strategy |-> s] \in lost
Withdrawn(s) == \E q \in Requests : /\ request[q].phase = "withdrawn"
                                    /\ request[q].strategy = s

Accounted(r) == Missed(r.strategy) \/ \E q \in Requests : Holds(q, r)

(* An enrollment that runs on a strategy that is or may become Inactive    *)
(* has been noticed ...                                                    *)
EnrollmentNoticed ==
  \A t \in Threads : LET s == enroll[t].strategy IN s # NoStrategy =>
    /\ Superseding(s) => s \in overlap
    /\ status[s] = "Inactive" => Missed(s) \/ Withdrawn(s)

(* ... and so has every run of such a strategy.                            *)
RunsNoticed ==
  \A r \in open :
    /\ Superseding(r.strategy) => Accounted(r)
    /\ status[r.strategy] = "Inactive" => Accounted(r) \/ Withdrawn(r.strategy)

SeenArePriors == \A q \in Requests : request[q].seen \subseteq request[q].priors

(* Who writes Inactive cancels the runs next.                              *)
InactiveHooked ==
  \A q \in Requests : request[q].phase = "deciding" /\ request[q].new = "Inactive"
                       => request[q].hook = "withdrawn"

StrayInv == EnrollmentNoticed /\ RunsNoticed /\ SeenArePriors /\ InactiveHooked

LEMMA RequestFacts ==
  ASSUME TypeOK, NEW q \in Requests, NEW next, Goes(q, next)
  PROVE  /\ request'[q] = next
         /\ \A p \in Requests \ {q} : request'[p] = request[p]
  BY DEF TypeOK

(* A run or an enrollment that was noticed stays so while no request moves,*)
(* no status changes and nothing new runs.                                 *)
LEMMA Steady ==
  ASSUME StrayInv, status' = status, request' = request, open' \subseteq open,
         overlap \subseteq overlap', lost \subseteq lost',
         \A t \in Threads : enroll'[t].strategy \in {enroll[t].strategy, NoStrategy}
  PROVE  StrayInv'
<1> USE DEF Missed, Withdrawn, Superseding
<1>1. EnrollmentNoticed'
  BY DEF StrayInv, EnrollmentNoticed
<1>2. RunsNoticed'
  BY DEF StrayInv, RunsNoticed, Accounted, Holds
<1>3. SeenArePriors' /\ InactiveHooked'
  BY DEF StrayInv, SeenArePriors, InactiveHooked
<1> QED
  BY <1>1, <1>2, <1>3 DEF StrayInv

LEMMA ReadKeepsStray ==
  ASSUME TypeOK, StrayInv, NEW q \in Requests, NEW s \in Strategies,
         NEW from, NEW new, NEW hook, ReadStatus(q, s, from, new, hook),
         new = "Inactive" => hook = "withdrawn"
  PROVE  StrayInv'
<1> DEFINE next == [IdleRequest EXCEPT !.phase = "deciding", !.strategy = s,
                                       !.new = new, !.hook = hook]
<1>a. next.phase = "deciding" /\ next.new = new /\ next.hook = hook /\ next.seen = {}
  BY DEF IdleRequest
<1>b. request'[q] = next /\ \A p \in Requests \ {q} : request'[p] = request[p]
  <2>1. Goes(q, next)
    BY DEF ReadStatus
  <2> HIDE DEF next
  <2> QED
    BY <2>1, RequestFacts
<1>c. request[q].phase = "idle"
  BY DEF ReadStatus, Idle, IdleRequest
<1>d. UNCHANGED <<status, open, enroll, lost, overlap>>
  BY DEF ReadStatus
<1>1. /\ request[q].phase = "idle"
      /\ request'[q].phase = "deciding"
      /\ request'[q].new = new
      /\ request'[q].hook = hook
      /\ request'[q].seen = {}
      /\ \A p \in Requests \ {q} : request'[p] = request[p]
      /\ UNCHANGED <<status, open, enroll, lost, overlap>>
  BY <1>a, <1>b, <1>c, <1>d
<1> HIDE DEF next
<1>e. \A p : /\ Superseding(p)' = Superseding(p)
             /\ Missed(p)' = Missed(p)
             /\ Withdrawn(p) => Withdrawn(p)'
  BY <1>1 DEF Superseding, Missed, Withdrawn
<1>f. \A r : Accounted(r) => Accounted(r)'
  BY <1>1, <1>e DEF Accounted, Holds
<1>2. EnrollmentNoticed'
  BY <1>1, <1>e DEF StrayInv, EnrollmentNoticed
<1>3. RunsNoticed'
  BY <1>1, <1>e, <1>f DEF StrayInv, RunsNoticed
<1>4. SeenArePriors' /\ InactiveHooked'
  BY <1>1 DEF StrayInv, SeenArePriors, InactiveHooked
<1> QED
  BY <1>2, <1>3, <1>4 DEF StrayInv

(* A strategy becomes Inactive only together with the call that cancels.   *)
LEMMA CommitKeepsStray ==
  ASSUME TypeOK, StrayInv, NEW q \in Requests, CommitStatus(q)
  PROVE  StrayInv'
<1>1. PICK s, hook : s = request[q].strategy /\ hook = request[q].hook
  OBVIOUS
<1>2. /\ request[q].phase = "deciding"
      /\ status' = [status EXCEPT ![s] = request[q].new]
      /\ UNCHANGED <<open, enroll, lost, overlap>>
      /\ hook \in {"idle", "activated", "withdrawn"}
      /\ s \in Strategies
  BY <1>1, RequestTyped DEF CommitStatus
<1>3. /\ request'[q].phase = hook
      /\ hook = "withdrawn" => request'[q].strategy = s
      /\ request'[q].seen = {}
      /\ \A p \in Requests \ {q} : request'[p] = request[p]
  <2> DEFINE next == IF hook = "idle" THEN IdleRequest
                     ELSE [IdleRequest EXCEPT !.phase = hook, !.strategy = s]
  <2>1. /\ next.phase = hook
        /\ hook = "withdrawn" => next.strategy = s
        /\ next.seen = {}
    BY DEF IdleRequest
  <2>2. Goes(q, next)
    BY <1>1 DEF CommitStatus
  <2> HIDE DEF next
  <2> QED
    BY <2>1, <2>2, RequestFacts
<1>4. status'[s] = "Inactive" => Withdrawn(s)'
  BY <1>1, <1>2, <1>3 DEF StrayInv, InactiveHooked, Withdrawn, TypeOK
<1>5. \A p : p # s => status'[p] = status[p]
  BY <1>2 DEF TypeOK
<1>6. \A p : /\ Superseding(p)' = Superseding(p)
             /\ Missed(p)' = Missed(p)
             /\ Withdrawn(p) => Withdrawn(p)'
  BY <1>2, <1>3 DEF Superseding, Missed, Withdrawn
<1>7. \A r : Accounted(r) => Accounted(r)'
  BY <1>2, <1>3, <1>6 DEF Accounted, Holds
<1>8. EnrollmentNoticed'
  <2> SUFFICES ASSUME NEW t \in Threads, NEW u,
                      u = enroll[t].strategy, u # NoStrategy
               PROVE  /\ Superseding(u)' => u \in overlap'
                      /\ status'[u] = "Inactive" => Missed(u)' \/ Withdrawn(u)'
    BY <1>2 DEF EnrollmentNoticed
  <2>1. /\ Superseding(u) => u \in overlap
        /\ status[u] = "Inactive" => Missed(u) \/ Withdrawn(u)
    BY DEF StrayInv, EnrollmentNoticed
  <2> QED
    BY <1>2, <1>4, <1>5, <1>6, <2>1
<1>9. RunsNoticed'
  <2> SUFFICES ASSUME NEW r \in open
               PROVE  /\ Superseding(r.strategy)' => Accounted(r)'
                      /\ status'[r.strategy] = "Inactive"
                           => Accounted(r)' \/ Withdrawn(r.strategy)'
    BY <1>2 DEF RunsNoticed
  <2>1. /\ Superseding(r.strategy) => Accounted(r)
        /\ status[r.strategy] = "Inactive" => Accounted(r) \/ Withdrawn(r.strategy)
    BY DEF StrayInv, RunsNoticed
  <2>2. PICK u : u = r.strategy
    OBVIOUS
  <2> QED
    BY <1>4, <1>5, <1>6, <1>7, <2>1, <2>2
<1>10. SeenArePriors' /\ InactiveHooked'
  BY <1>2, <1>3 DEF StrayInv, SeenArePriors, InactiveHooked
<1> QED
  BY <1>8, <1>9, <1>10 DEF StrayInv

(* The hook that reads takes every open run of the priors into left, and   *)
(* finds every enrollment on them in flight.                               *)
LEMMA SupersedeKeepsStray ==
  ASSUME TypeOK, StrayInv, NEW q \in Requests, SupersedeRead(q)
  PROVE  StrayInv'
<1> DEFINE priors == Priors(request[q].strategy)
<1>1. /\ request[q] \in Request
      /\ request[q].phase = "activated"
      /\ overlap' = (overlap \ priors) \cup (priors \cap InFlight)
      /\ UNCHANGED <<status, open, enroll>>
  BY RequestTyped DEF SupersedeRead
<1>2. /\ request'[q].phase = "superseding"
      /\ request'[q].priors = priors
      /\ request'[q].seen \subseteq priors
      /\ request'[q].left = RunsOf(priors)
      /\ \A p \in Requests \ {q} : request'[p] = request[p]
  <2> DEFINE next == [request[q] EXCEPT !.phase = "superseding", !.priors = priors,
                        !.seen = {p \in priors : status[p] = "Active"},
                        !.left = RunsOf(priors)]
  <2>1. /\ next.phase = "superseding"
        /\ next.priors = priors
        /\ next.seen \subseteq priors
        /\ next.left = RunsOf(priors)
    BY <1>1 DEF Request
  <2>2. Goes(q, next)
    BY DEF SupersedeRead
  <2> HIDE DEF next, priors
  <2> QED
    BY <2>1, <2>2, RequestFacts
<1>3. \A p : p \notin priors => Missed(p)' = Missed(p)
  <2> SUFFICES ASSUME NEW p, p \notin priors PROVE Missed(p)' = Missed(p)
    OBVIOUS
  <2>1. /\ [kind |-> "withdrawal", strategy |-> p]
             # [kind |-> "activation", strategy |-> request[q].strategy]
        /\ \A u \in priors : [kind |-> "withdrawal", strategy |-> p]
             # [kind |-> "withdrawal", strategy |-> u]
    OBVIOUS
  <2>2. lost' = lost \ ({[kind |-> "activation", strategy |-> request[q].strategy]}
                        \cup {[kind |-> "withdrawal", strategy |-> u] : u \in priors})
    BY DEF SupersedeRead
  <2>3. [kind |-> "withdrawal", strategy |-> p] \in lost'
          <=> [kind |-> "withdrawal", strategy |-> p] \in lost
    BY <2>1, <2>2
  <2> QED
    BY <1>1, <2>3 DEF Missed
<1>4. \A p : /\ p \notin priors => Superseding(p)' = Superseding(p)
             /\ Withdrawn(p) => Withdrawn(p)'
  BY <1>1, <1>2 DEF Superseding, Withdrawn
<1>5. EnrollmentNoticed'
  <2> SUFFICES ASSUME NEW t \in Threads, enroll[t].strategy # NoStrategy
               PROVE  LET s == enroll[t].strategy
                      IN  /\ Superseding(s)' => s \in overlap'
                          /\ status[s] = "Inactive" => Missed(s)' \/ Withdrawn(s)'
    BY <1>1 DEF EnrollmentNoticed
  <2>1. CASE enroll[t].strategy \in priors
    BY <1>1, <2>1 DEF InFlight, Missed
  <2>2. CASE enroll[t].strategy \notin priors
    BY <1>1, <1>3, <1>4, <2>2 DEF StrayInv, EnrollmentNoticed
  <2> QED
    BY <2>1, <2>2
<1>6. \A r \in open : r.strategy \in priors => Accounted(r)'
  BY <1>2 DEF Accounted, Holds, RunsOf
<1>7. \A r : r.strategy \notin priors /\ Accounted(r) => Accounted(r)'
  BY <1>1, <1>2, <1>3 DEF Accounted, Holds
<1>8. RunsNoticed'
  BY <1>1, <1>4, <1>6, <1>7 DEF StrayInv, RunsNoticed
<1>9. SeenArePriors' /\ InactiveHooked'
  BY <1>1, <1>2 DEF StrayInv, SeenArePriors, InactiveHooked
<1> QED
  BY <1>5, <1>8, <1>9 DEF StrayInv

(* A step of the hook that leaves open only runs it does not hold, or      *)
(* holds still.                                                            *)
LEMMA HookKeepsStray ==
  ASSUME TypeOK, StrayInv, NEW q \in Requests,
         status' = status, enroll' = enroll, open' \subseteq open,
         overlap \subseteq overlap', lost \subseteq lost',
         request[q].phase \in {"superseding", "cancelling"},
         \A p \in Requests \ {q} : request'[p] = request[p],
         request'[q].phase \in {"idle", "superseding"},
         request'[q].seen \subseteq request'[q].priors,
         request'[q].phase = "superseding" =>
            request[q].phase = "superseding" /\ request'[q].priors = request[q].priors,
         \A r \in open' : Holds(q, r) => Holds(q, r)' \/ Missed(r.strategy)'
  PROVE  StrayInv'
<1>1. \A p : /\ Superseding(p)' => Superseding(p)
             /\ Missed(p) => Missed(p)'
             /\ Withdrawn(p) => Withdrawn(p)'
  BY DEF Superseding, Missed, Withdrawn
<1>2. ASSUME NEW r \in open', Accounted(r)
      PROVE  Accounted(r)'
  <2>1. ASSUME NEW p \in Requests \ {q}, Holds(p, r) PROVE Holds(p, r)'
    BY <2>1 DEF Holds
  <2>2. Missed(r.strategy) => Missed(r.strategy)'
    BY DEF Missed
  <2> QED
    BY <1>2, <2>1, <2>2 DEF Accounted
<1>3. EnrollmentNoticed'
  BY <1>1 DEF StrayInv, EnrollmentNoticed, Missed
<1>4. RunsNoticed'
  <2> SUFFICES ASSUME NEW r \in open'
               PROVE  /\ Superseding(r.strategy)' => Accounted(r)'
                      /\ status'[r.strategy] = "Inactive"
                           => Accounted(r)' \/ Withdrawn(r.strategy)'
    BY DEF RunsNoticed
  <2>1. /\ Superseding(r.strategy) => Accounted(r)
        /\ status[r.strategy] = "Inactive" => Accounted(r) \/ Withdrawn(r.strategy)
    BY DEF StrayInv, RunsNoticed
  <2> QED
    BY <1>1, <1>2, <2>1
<1>5. SeenArePriors' /\ InactiveHooked'
  BY DEF StrayInv, SeenArePriors, InactiveHooked
<1> QED
  BY <1>3, <1>4, <1>5 DEF StrayInv

LEMMA RunKeepsStray ==
  ASSUME TypeOK, StrayInv, NEW q \in Requests, NEW r \in request[q].left,
         SupersedeRun(q, r)
  PROVE  StrayInv'
<1> DEFINE left == request[q].left \ {r}
           closing == request[q].closing \cup {r}
<1>1. /\ request[q] \in Request
      /\ request[q].phase = "superseding"
      /\ UNCHANGED <<status, enroll, lost, overlap>>
  BY RequestTyped DEF SupersedeRun
<1>2. CASE /\ open' = open \ closing
           /\ Goes(q, [request[q] EXCEPT !.left = left, !.closing = {}, !.fresh = TRUE])
  <2> DEFINE next == [request[q] EXCEPT !.left = left, !.closing = {}, !.fresh = TRUE]
  <2>1. /\ next.phase = request[q].phase
        /\ next.priors = request[q].priors
        /\ next.seen = request[q].seen
        /\ next.left = left
        /\ next.closing = {}
    BY <1>1 DEF Request
  <2>2. Goes(q, next)
    BY <1>2
  <2> HIDE DEF next
  <2>3. request'[q] = next /\ \A p \in Requests \ {q} : request'[p] = request[p]
    BY <2>2, RequestFacts
  <2>4. \A u \in open' : Holds(q, u) => Holds(q, u)'
    BY <1>1, <1>2, <2>1, <2>3 DEF Holds
  <2> QED
    BY <1>1, <1>2, <2>1, <2>3, <2>4, HookKeepsStray DEF StrayInv, SeenArePriors
<1>3. CASE /\ open' = open
           /\ Goes(q, [request[q] EXCEPT !.left = left, !.closing = closing])
  <2> DEFINE next == [request[q] EXCEPT !.left = left, !.closing = closing]
  <2>1. /\ next.phase = request[q].phase
        /\ next.priors = request[q].priors
        /\ next.seen = request[q].seen
        /\ next.left = left
        /\ next.closing = closing
    BY <1>1 DEF Request
  <2>2. Goes(q, next)
    BY <1>3
  <2> HIDE DEF next
  <2>3. request'[q] = next /\ \A p \in Requests \ {q} : request'[p] = request[p]
    BY <2>2, RequestFacts
  <2>4. \A u \in open' : Holds(q, u) => Holds(q, u)'
    BY <1>1, <1>3, <2>1, <2>3 DEF Holds
  <2> QED
    BY <1>1, <1>3, <2>1, <2>3, <2>4, HookKeepsStray DEF StrayInv, SeenArePriors
<1> QED
  BY <1>2, <1>3 DEF SupersedeRun

(* The priors become Inactive when none of their runs is left.             *)
LEMMA FinishKeepsStray ==
  ASSUME TypeOK, StrayInv, NEW q \in Requests,
         NEW reread \in SUBSET (request[q].priors \ request[q].seen),
         FinishActivation(q, reread)
  PROVE  StrayInv'
<1>1. /\ request[q].phase = "superseding"
      /\ request[q].left = {}
      /\ open' = open \ request[q].closing
      /\ UNCHANGED <<enroll, lost, overlap>>
  BY DEF FinishActivation
<1>2. /\ request'[q].phase = "idle"
      /\ request'[q].seen = {}
      /\ \A p \in Requests \ {q} : request'[p] = request[p]
  <2>1. Goes(q, IdleRequest)
    BY DEF FinishActivation
  <2>2. request'[q] = IdleRequest /\ \A p \in Requests \ {q} : request'[p] = request[p]
    BY <2>1, RequestFacts
  <2> QED
    BY <2>2 DEF IdleRequest
<1>3. ASSUME NEW p \in Strategies, status'[p] = "Inactive"
      PROVE  status[p] = "Inactive" \/ Superseding(p)
  <2>1. p \in Retired(q, reread) => p \in request[q].priors
    BY DEF Retired, StrayInv, SeenArePriors
  <2> QED
    BY <1>1, <1>3, <2>1 DEF FinishActivation, Superseding
<1>4. \A p : /\ Superseding(p)' => Superseding(p)
             /\ Missed(p)' = Missed(p)
             /\ Withdrawn(p) => Withdrawn(p)'
  BY <1>1, <1>2 DEF Superseding, Missed, Withdrawn
<1>5. ASSUME NEW r \in open', Accounted(r) PROVE Accounted(r)'
  <2>1. ~Holds(q, r)
    BY <1>1, <1>5 DEF Holds
  <2>2. ASSUME NEW p \in Requests \ {q}, Holds(p, r) PROVE Holds(p, r)'
    BY <1>2, <2>2 DEF Holds
  <2>3. Missed(r.strategy) => Missed(r.strategy)'
    BY <1>1 DEF Missed
  <2> QED
    BY <1>5, <2>1, <2>2, <2>3 DEF Accounted
<1>6. EnrollmentNoticed'
  <2> SUFFICES ASSUME NEW t \in Threads, NEW u,
                      u = enroll[t].strategy, u # NoStrategy
               PROVE  /\ Superseding(u)' => u \in overlap'
                      /\ status'[u] = "Inactive" => Missed(u)' \/ Withdrawn(u)'
    BY <1>1 DEF EnrollmentNoticed
  <2>1. /\ Superseding(u) => u \in overlap
        /\ status[u] = "Inactive" => Missed(u) \/ Withdrawn(u)
    BY DEF StrayInv, EnrollmentNoticed
  <2>2. u \in Strategies
    BY DEF TypeOK, Enroll, IdleThread
  <2> QED
    BY <1>1, <1>3, <1>4, <2>1, <2>2 DEF Missed
<1>7. RunsNoticed'
  <2> SUFFICES ASSUME NEW r \in open'
               PROVE  /\ Superseding(r.strategy)' => Accounted(r)'
                      /\ status'[r.strategy] = "Inactive"
                           => Accounted(r)' \/ Withdrawn(r.strategy)'
    BY DEF RunsNoticed
  <2>1. /\ Superseding(r.strategy) => Accounted(r)
        /\ status[r.strategy] = "Inactive" => Accounted(r) \/ Withdrawn(r.strategy)
    BY <1>1 DEF StrayInv, RunsNoticed
  <2>2. r.strategy \in Strategies
    BY <1>1 DEF TypeOK, Run
  <2> QED
    BY <1>3, <1>4, <1>5, <2>1, <2>2
<1>8. SeenArePriors' /\ InactiveHooked'
  BY <1>2 DEF StrayInv, SeenArePriors, InactiveHooked
<1> QED
  BY <1>6, <1>7, <1>8 DEF StrayInv

(* What is cancelled is what was read.                                     *)
LEMMA CancelKeepsStray ==
  ASSUME TypeOK, StrayInv, NEW q \in Requests, CancelCommit(q)
  PROVE  StrayInv'
<1>1. /\ request[q].phase = "cancelling"
      /\ open' = open \ request[q].left
      /\ UNCHANGED <<status, enroll, lost, overlap>>
  BY DEF CancelCommit
<1>2. request'[q] = IdleRequest /\ \A p \in Requests \ {q} : request'[p] = request[p]
  <2>1. Goes(q, IdleRequest)
    BY DEF CancelCommit
  <2> QED
    BY <2>1, RequestFacts
<1>3. \A r \in open' : ~Holds(q, r)
  BY <1>1 DEF Holds
<1> QED
  BY <1>1, <1>2, <1>3, HookKeepsStray DEF IdleRequest

(* The hook that reads takes every open run of its strategy into left.     *)
LEMMA CancelReadKeepsStray ==
  ASSUME TypeOK, StrayInv, NEW q \in Requests, CancelRead(q)
  PROVE  StrayInv'
<1>1. PICK s : s = request[q].strategy
  OBVIOUS
<1>2. /\ request[q] \in Request
      /\ request[q].phase = "withdrawn"
      /\ overlap' = (overlap \ {s}) \cup ({s} \cap InFlight)
      /\ lost' = lost \ {[kind |-> "withdrawal", strategy |-> s]}
      /\ UNCHANGED <<status, open, enroll>>
  BY <1>1, RequestTyped DEF CancelRead
<1>3. /\ request'[q].phase = "cancelling"
      /\ request'[q].strategy = s
      /\ request'[q].seen = request[q].seen
      /\ request'[q].priors = request[q].priors
      /\ request'[q].left = RunsOf({s})
      /\ \A p \in Requests \ {q} : request'[p] = request[p]
  <2> DEFINE next == [request[q] EXCEPT !.phase = "cancelling", !.left = RunsOf({s})]
  <2>1. /\ next.phase = "cancelling"
        /\ next.strategy = s
        /\ next.seen = request[q].seen
        /\ next.priors = request[q].priors
        /\ next.left = RunsOf({s})
    BY <1>1, <1>2 DEF Request
  <2>2. Goes(q, next)
    BY <1>1 DEF CancelRead
  <2> HIDE DEF next
  <2> QED
    BY <2>1, <2>2, RequestFacts
<1>4. \A p : /\ Superseding(p)' = Superseding(p)
             /\ p # s => /\ Missed(p)' = Missed(p)
                         /\ Withdrawn(p) => Withdrawn(p)'
  <2> SUFFICES ASSUME NEW p
               PROVE  /\ Superseding(p)' = Superseding(p)
                      /\ p # s => /\ Missed(p)' = Missed(p)
                                  /\ Withdrawn(p) => Withdrawn(p)'
    OBVIOUS
  <2>1. Superseding(p)' = Superseding(p)
    BY <1>2, <1>3 DEF Superseding
  <2>2. p # s => [kind |-> "withdrawal", strategy |-> p]
                   # [kind |-> "withdrawal", strategy |-> s]
    OBVIOUS
  <2>3. p # s => Missed(p)' = Missed(p)
    BY <1>2, <2>2 DEF Missed
  <2>4. p # s => (Withdrawn(p) => Withdrawn(p)')
    BY <1>1, <1>3 DEF Withdrawn
  <2> QED
    BY <2>1, <2>3, <2>4
<1>5. EnrollmentNoticed'
  <2> SUFFICES ASSUME NEW t \in Threads, NEW u,
                      u = enroll[t].strategy, u # NoStrategy
               PROVE  /\ Superseding(u)' => u \in overlap'
                      /\ status[u] = "Inactive" => Missed(u)' \/ Withdrawn(u)'
    BY <1>2 DEF EnrollmentNoticed
  <2>1. /\ Superseding(u) => u \in overlap
        /\ status[u] = "Inactive" => Missed(u) \/ Withdrawn(u)
    BY DEF StrayInv, EnrollmentNoticed
  <2>2. CASE u = s
    BY <1>2, <2>2 DEF InFlight, Missed
  <2>3. CASE u # s
    BY <1>2, <1>4, <2>1, <2>3
  <2> QED
    BY <2>2, <2>3
<1>6. \A r \in open : r.strategy = s => Accounted(r)'
  BY <1>3 DEF Accounted, Holds, RunsOf
<1>7. ASSUME NEW r, r.strategy # s, Accounted(r) PROVE Accounted(r)'
  <2>1. ~Holds(q, r)
    BY <1>2 DEF Holds
  <2>2. ASSUME NEW p \in Requests \ {q}, Holds(p, r) PROVE Holds(p, r)'
    BY <1>3, <2>2 DEF Holds
  <2>3. PICK u : u = r.strategy
    OBVIOUS
  <2>4. Missed(r.strategy) => Missed(r.strategy)'
    BY <1>4, <1>7, <2>3
  <2> QED
    BY <1>7, <2>1, <2>2, <2>4 DEF Accounted
<1>8. RunsNoticed'
  <2> SUFFICES ASSUME NEW r \in open
               PROVE  /\ Superseding(r.strategy)' => Accounted(r)'
                      /\ status[r.strategy] = "Inactive"
                           => Accounted(r)' \/ Withdrawn(r.strategy)'
    BY <1>2 DEF RunsNoticed
  <2>1. /\ Superseding(r.strategy) => Accounted(r)
        /\ status[r.strategy] = "Inactive" => Accounted(r) \/ Withdrawn(r.strategy)
    BY DEF StrayInv, RunsNoticed
  <2> QED
    BY <1>4, <1>6, <1>7, <2>1
<1>9. SeenArePriors' /\ InactiveHooked'
  BY <1>2, <1>3 DEF StrayInv, SeenArePriors, InactiveHooked
<1> QED
  BY <1>5, <1>8, <1>9 DEF StrayInv

(* A hook that fails leaves its runs, and is remembered in lost.           *)
LEMMA FailKeepsStray ==
  ASSUME TypeOK, StrayInv, NEW q \in Requests, HookFails(q)
  PROVE  StrayInv'
<1>1. /\ UNCHANGED <<status, open, enroll, overlap>>
      /\ lost \subseteq lost'
      /\ request[q].phase \in {"withdrawn", "cancelling"} =>
           [kind |-> "withdrawal", strategy |-> request[q].strategy] \in lost'
      /\ \A p \in request[q].priors : [kind |-> "withdrawal", strategy |-> p] \in lost'
  BY DEF HookFails
<1>2. request'[q] = IdleRequest /\ \A p \in Requests \ {q} : request'[p] = request[p]
  <2>1. Goes(q, IdleRequest)
    BY DEF HookFails
  <2> QED
    BY <2>1, RequestFacts
<1>3. /\ request'[q].phase = "idle"
      /\ request'[q].seen = {}
  BY <1>2 DEF IdleRequest
<1>4. \A p : /\ Superseding(p)' => Superseding(p)
             /\ Missed(p) => Missed(p)'
  BY <1>1, <1>2, <1>3 DEF Superseding, Missed
<1>5. \A p : Withdrawn(p) => Withdrawn(p)' \/ Missed(p)'
  BY <1>1, <1>2 DEF Withdrawn, Missed
<1>6. ASSUME NEW r, Accounted(r) PROVE Accounted(r)'
  <2>1. Holds(q, r) => Missed(r.strategy)'
    BY <1>1 DEF Holds, Missed
  <2>2. ASSUME NEW p \in Requests \ {q}, Holds(p, r) PROVE Holds(p, r)'
    BY <1>2, <2>2 DEF Holds
  <2>3. Missed(r.strategy) => Missed(r.strategy)'
    BY <1>1 DEF Missed
  <2> QED
    BY <1>6, <2>1, <2>2, <2>3 DEF Accounted
<1>7. EnrollmentNoticed'
  <2> SUFFICES ASSUME NEW t \in Threads, NEW u,
                      u = enroll[t].strategy, u # NoStrategy
               PROVE  /\ Superseding(u)' => u \in overlap
                      /\ status[u] = "Inactive" => Missed(u)' \/ Withdrawn(u)'
    BY <1>1 DEF EnrollmentNoticed
  <2> QED
    BY <1>4, <1>5 DEF StrayInv, EnrollmentNoticed
<1>8. RunsNoticed'
  <2> SUFFICES ASSUME NEW r \in open
               PROVE  /\ Superseding(r.strategy)' => Accounted(r)'
                      /\ status[r.strategy] = "Inactive"
                           => Accounted(r)' \/ Withdrawn(r.strategy)'
    BY <1>1 DEF RunsNoticed
  <2>1. /\ Superseding(r.strategy) => Accounted(r)
        /\ status[r.strategy] = "Inactive" => Accounted(r) \/ Withdrawn(r.strategy)
    BY DEF StrayInv, RunsNoticed
  <2>2. Missed(r.strategy)' => Accounted(r)'
    BY DEF Accounted
  <2> QED
    BY <1>4, <1>5, <1>6, <2>1, <2>2
<1>9. SeenArePriors' /\ InactiveHooked'
  BY <1>2, <1>3 DEF StrayInv, SeenArePriors, InactiveHooked
<1> QED
  BY <1>7, <1>8, <1>9 DEF StrayInv

(* An enrollment starts on an Active strategy, and is noted if a hook has  *)
(* read that strategy's runs already.                                      *)
LEMMA StartKeepsStray ==
  ASSUME TypeOK, StrayInv, NEW t \in Threads, NEW job \in queue,
         EnrollStrategy(t, job)
  PROVE  StrayInv'
<1>1. /\ status[job.strategy] = "Active"
      /\ overlap \subseteq overlap'
      /\ Superseding(job.strategy) => job.strategy \in overlap'
      /\ UNCHANGED <<status, open, request, lost>>
  BY DEF EnrollStrategy
<1>2. /\ enroll'[t].strategy = job.strategy
      /\ \A u \in Threads \ {t} : enroll'[u] = enroll[u]
  <2> DEFINE next == [IdleThread EXCEPT !.strategy = job.strategy, !.cause = job.cause,
                                        !.todo = Members[job.strategy]]
  <2>1. next.strategy = job.strategy
    BY DEF IdleThread
  <2>2. enroll' = [enroll EXCEPT ![t] = next]
    BY DEF EnrollStrategy
  <2> HIDE DEF next
  <2> QED
    BY <2>1, <2>2, ThreadFacts
<1>3. \A p : /\ Superseding(p)' = Superseding(p)
             /\ Missed(p) => Missed(p)'
             /\ Withdrawn(p)' = Withdrawn(p)
  BY <1>1 DEF Superseding, Missed, Withdrawn
<1>4. EnrollmentNoticed'
  <2> SUFFICES ASSUME NEW v \in Threads, NEW u,
                      u = enroll'[v].strategy, u # NoStrategy
               PROVE  /\ Superseding(u)' => u \in overlap'
                      /\ status'[u] = "Inactive" => Missed(u)' \/ Withdrawn(u)'
    BY DEF EnrollmentNoticed
  <2>1. CASE v = t
    BY <1>1, <1>2, <1>3, <2>1
  <2>2. CASE v # t
    BY <1>1, <1>2, <1>3, <2>2 DEF StrayInv, EnrollmentNoticed
  <2> QED
    BY <2>1, <2>2
<1>5. \A r : Accounted(r) => Accounted(r)'
  BY <1>1 DEF Accounted, Holds, Missed
<1>6. RunsNoticed'
  <2> SUFFICES ASSUME NEW r \in open
               PROVE  /\ Superseding(r.strategy)' => Accounted(r)'
                      /\ status'[r.strategy] = "Inactive"
                           => Accounted(r)' \/ Withdrawn(r.strategy)'
    BY <1>1 DEF RunsNoticed
  <2>1. /\ Superseding(r.strategy) => Accounted(r)
        /\ status[r.strategy] = "Inactive" => Accounted(r) \/ Withdrawn(r.strategy)
    BY DEF StrayInv, RunsNoticed
  <2> QED
    BY <1>1, <1>3, <1>5, <2>1
<1>7. SeenArePriors' /\ InactiveHooked'
  BY <1>1 DEF StrayInv, SeenArePriors, InactiveHooked
<1> QED
  BY <1>4, <1>6, <1>7 DEF StrayInv

(* What was noticed of the enrollment holds for the runs it inserts.       *)
LEMMA InsertKeepsStray ==
  ASSUME TypeOK, StrayInv, NEW t \in Threads, NEW again \in BOOLEAN,
         EnrollCommit(t, again)
  PROVE  StrayInv'
<1>1. /\ open' \subseteq open \cup NewRuns(t)
      /\ enroll[t].strategy # NoStrategy
      /\ UNCHANGED <<status, request, lost, overlap>>
  BY ThreadFacts, EnrollmentAssumption DEF EnrollCommit, Enroll
<1>2. /\ enroll'[t] = IdleThread
      /\ \A u \in Threads \ {t} : enroll'[u] = enroll[u]
  BY ThreadFacts DEF EnrollCommit
<1>3. \A p : /\ Superseding(p)' = Superseding(p)
             /\ Missed(p)' = Missed(p)
             /\ Withdrawn(p)' = Withdrawn(p)
  BY <1>1 DEF Superseding, Missed, Withdrawn
<1>4. EnrollmentNoticed'
  BY <1>1, <1>2, <1>3 DEF StrayInv, EnrollmentNoticed, IdleThread
<1>5. \A r : Accounted(r) => Accounted(r)'
  BY <1>1 DEF Accounted, Holds, Missed
<1>6. RunsNoticed'
  <2> SUFFICES ASSUME NEW r \in open'
               PROVE  /\ Superseding(r.strategy) => Accounted(r)
                      /\ status[r.strategy] = "Inactive"
                           => Accounted(r) \/ Withdrawn(r.strategy)
    BY <1>1, <1>3, <1>5 DEF RunsNoticed
  <2>1. CASE r \in open
    BY <2>1 DEF StrayInv, RunsNoticed
  <2>2. CASE r \in NewRuns(t)
    <3>1. r.strategy = enroll[t].strategy
      BY <2>2 DEF NewRuns
    <3> QED
      BY <1>1, <3>1 DEF StrayInv, EnrollmentNoticed, Accounted, Missed
  <2> QED
    BY <1>1, <2>1, <2>2
<1>7. SeenArePriors' /\ InactiveHooked'
  BY <1>1 DEF StrayInv, SeenArePriors, InactiveHooked
<1> QED
  BY <1>4, <1>6, <1>7 DEF StrayInv

LEMMA StrayStep == TypeOK /\ StrayInv /\ [Next]_vars => StrayInv'
<1> SUFFICES ASSUME TypeOK, StrayInv, [Next]_vars PROVE StrayInv'
  OBVIOUS
<1>1. ASSUME NEW q \in Requests, RequestStep(q) PROVE StrayInv'
  BY <1>1, CommitKeepsStray, SupersedeKeepsStray, RunKeepsStray,
     FinishKeepsStray, CancelReadKeepsStray, CancelKeepsStray, FailKeepsStray
     DEF RequestStep
<1>2. ASSUME NEW q \in Requests, NEW s \in Strategies, Manage(q, s) PROVE StrayInv'
  <2>1. CASE SubmitForReview(q, s) \/ Approve(q, s) \/ Edit(q, s)
    <3>1. PICK from, new : new # "Inactive" /\ ReadStatus(q, s, from, new, "idle")
      BY <2>1, Zenon DEF SubmitForReview, Approve, Edit
    <3> QED
      BY <3>1, ReadKeepsStray
  <2>2. CASE Reject(q, s)
    <3>1. Rejected(s) # "Inactive"
      BY DEF Rejected
    <3> QED
      BY <2>2, <3>1, ReadKeepsStray DEF Reject
  <2>3. CASE Deactivate(q, s) \/ Activate(q, s)
    <3>1. PICK from, new, hook : /\ new = "Inactive" => hook = "withdrawn"
                                 /\ ReadStatus(q, s, from, new, hook)
      BY <2>3 DEF Deactivate, Activate
    <3> QED
      BY <3>1, ReadKeepsStray
  <2> QED
    BY <1>2, <2>1, <2>2, <2>3 DEF Manage
<1>3. ASSUME NEW t \in Threads, EnrollStep(t) PROVE StrayInv'
  <2>1. ASSUME NEW a \in enroll[t].todo, SkipAccount(t, a) \/ EnrollAccount(t, a)
        PROVE  StrayInv'
    <3>1. PICK closing, adding : Visited(t, a, closing, adding)
      BY <2>1 DEF SkipAccount, EnrollAccount
    <3>2. enroll[t] \in Enroll
      BY ThreadFacts DEF IdleThread
    <3> DEFINE next == [enroll[t] EXCEPT !.todo    = enroll[t].todo \ {a},
                                         !.closing = enroll[t].closing \cup closing,
                                         !.adding  = enroll[t].adding \cup adding]
    <3>3. next.strategy = enroll[t].strategy
      BY <3>2 DEF Enroll
    <3>4. enroll' = [enroll EXCEPT ![t] = next]
      BY <3>1 DEF Visited
    <3> HIDE DEF next
    <3>5. \A u \in Threads : enroll'[u].strategy = enroll[u].strategy
      BY <3>3, <3>4, ThreadFacts
    <3> QED
      BY <3>1, <3>5, Steady DEF Visited
  <2>2. ASSUME EnrollFails(t) PROVE StrayInv'
    <3>1. \A u \in Threads : enroll'[u] \in {enroll[u], IdleThread}
      BY <2>2, ThreadFacts DEF EnrollFails
    <3>2. \A u \in Threads : enroll'[u].strategy \in {enroll[u].strategy, NoStrategy}
      BY <3>1 DEF IdleThread
    <3> QED
      BY <2>2, <3>2, Steady DEF EnrollFails
  <2> QED
    BY <1>3, <2>1, <2>2, StartKeepsStray, InsertKeepsStray DEF EnrollStep
<1>4. CASE \/ \E scope \in SUBSET Strategies : EnqueueEnrolls(scope)
           \/ \E job \in queue : RefuseEnrollment(job)
           \/ \E r \in open : RunEnds(r)
           \/ UNCHANGED vars
  <2>1. UNCHANGED <<status, request, enroll, lost, overlap>> /\ open' \subseteq open
    BY <1>4 DEF EnqueueEnrolls, RefuseEnrollment, RunEnds, vars
  <2> QED
    BY <2>1, Steady
<1> QED
  BY <1>1, <1>2, <1>3, <1>4 DEF Next

(* A run is on an Inactive strategy only while somebody is about to close  *)
(* it, or for one of the two known reasons: the hook failed, or it read    *)
(* the runs while an enrollment was under way.  For any number of          *)
(* strategies, accounts, requests and worker threads.                      *)
THEOREM StrayRunsAccounted == Spec => []StrayRunsExplained
<1>1. Init => StrayInv
  BY DEF Init, StrayInv, EnrollmentNoticed, RunsNoticed, SeenArePriors,
     InactiveHooked, IdleRequest, IdleThread
<1>2. StrayInv => StrayRunsExplained
  <2> SUFFICES ASSUME StrayInv, NEW r \in open, status[r.strategy] = "Inactive"
               PROVE  Closing(r.strategy) \/ Missed(r.strategy)
    BY DEF StrayRunsExplained, Missed
  <2>1. Withdrawn(r.strategy) => Closing(r.strategy)
    BY DEF Withdrawn, Closing
  <2>2. Accounted(r) => Closing(r.strategy) \/ Missed(r.strategy)
    BY DEF Accounted, Holds, Closing
  <2> QED
    BY <2>1, <2>2 DEF StrayInv, RunsNoticed
<1> QED
  BY <1>1, <1>2, StrayStep, TypeCorrect, PTL DEF Spec

-----------------------------------------------------------------------------
(* A request that has yet to read the rivals of z, or will retire p.       *)
Settles(q, z, p) ==
  /\ request[q].strategy = z
  /\ \/ request[q].phase = "activated"
     \/ /\ request[q].phase = "superseding"
        /\ p \in request[q].priors
        /\ request[q].fresh \/ p \in request[q].seen

Unsettled(z, p) == \/ [kind |-> "activation", strategy |-> z] \in lost
                   \/ \E q \in Requests : Settles(q, z, p)

RivalsNoticed ==
  \A s \in Strategies : \A p \in Compatible[s] :
    (status[s] = "Active" /\ status[p] = "Active") => Unsettled(s, p) \/ Unsettled(p, s)

(* Who writes Active supersedes next.                                      *)
ActiveHooked ==
  \A q \in Requests : request[q].phase = "deciding" /\ request[q].new = "Active"
                       => request[q].hook = "activated"

RivalInv == RivalsNoticed /\ ActiveHooked

(* A step that makes nothing Active and settles only what it retires.      *)
LEMMA RivalSteady ==
  ASSUME RivalInv, ActiveHooked',
         \A z \in Strategies : status'[z] = "Active" => status[z] = "Active",
         \A z, p \in Strategies :
            Unsettled(z, p) /\ status'[p] = "Active" => Unsettled(z, p)'
  PROVE  RivalInv'
<1>1. RivalsNoticed'
  <2> SUFFICES ASSUME NEW s \in Strategies, NEW p \in Compatible[s],
                      status'[s] = "Active", status'[p] = "Active"
               PROVE  Unsettled(s, p)' \/ Unsettled(p, s)'
    BY DEF RivalsNoticed
  <2>1. p \in Strategies
    BY EnrollmentAssumption
  <2>2. Unsettled(s, p) \/ Unsettled(p, s)
    BY <2>1 DEF RivalInv, RivalsNoticed
  <2> QED
    BY <2>1, <2>2
<1> QED
  BY <1>1 DEF RivalInv

(* No request moves.                                                       *)
LEMMA RivalsAside ==
  ASSUME RivalInv, UNCHANGED <<status, request, lost>>
  PROVE  RivalInv'
<1>1. ActiveHooked'
  BY DEF RivalInv, ActiveHooked
<1>2. \A z, p : Unsettled(z, p) => Unsettled(z, p)'
  BY DEF Unsettled, Settles
<1> QED
  BY <1>1, <1>2, RivalSteady

LEMMA ReadKeepsRivals ==
  ASSUME TypeOK, RivalInv, NEW q \in Requests, NEW s \in Strategies,
         NEW from, NEW new, NEW hook, ReadStatus(q, s, from, new, hook),
         new = "Active" => hook = "activated"
  PROVE  RivalInv'
<1> DEFINE next == [IdleRequest EXCEPT !.phase = "deciding", !.strategy = s,
                                       !.new = new, !.hook = hook]
<1>1. next.phase = "deciding" /\ next.new = new /\ next.hook = hook
  BY DEF IdleRequest
<1>2. Goes(q, next) /\ UNCHANGED <<status, lost>>
  BY DEF ReadStatus
<1>3. request[q].phase = "idle"
  BY DEF ReadStatus, Idle, IdleRequest
<1> HIDE DEF next
<1>4. request'[q] = next /\ \A p \in Requests \ {q} : request'[p] = request[p]
  BY <1>2, RequestFacts
<1>5. ActiveHooked'
  BY <1>1, <1>4 DEF RivalInv, ActiveHooked
<1>6. \A z, p : Unsettled(z, p) => Unsettled(z, p)'
  BY <1>2, <1>3, <1>4 DEF Unsettled, Settles
<1> QED
  BY <1>2, <1>5, <1>6, RivalSteady

(* A strategy becomes Active together with the call that supersedes.       *)
LEMMA CommitKeepsRivals ==
  ASSUME TypeOK, RivalInv, NEW q \in Requests, CommitStatus(q)
  PROVE  RivalInv'
<1>1. PICK s, hook : s = request[q].strategy /\ hook = request[q].hook
  OBVIOUS
<1>2. /\ request[q].phase = "deciding"
      /\ status' = [status EXCEPT ![s] = request[q].new]
      /\ lost' = lost
      /\ hook \in {"idle", "activated", "withdrawn"}
      /\ s \in Strategies
  BY <1>1, RequestTyped DEF CommitStatus
<1>3. /\ request'[q].phase = hook
      /\ hook = "activated" => request'[q].strategy = s
      /\ \A p \in Requests \ {q} : request'[p] = request[p]
  <2> DEFINE next == IF hook = "idle" THEN IdleRequest
                     ELSE [IdleRequest EXCEPT !.phase = hook, !.strategy = s]
  <2>1. next.phase = hook /\ (hook = "activated" => next.strategy = s)
    BY DEF IdleRequest
  <2>2. Goes(q, next)
    BY <1>1 DEF CommitStatus
  <2> HIDE DEF next
  <2> QED
    BY <2>1, <2>2, RequestFacts
<1>4. ActiveHooked'
  BY <1>2, <1>3 DEF RivalInv, ActiveHooked
<1>5. \A z, p : Unsettled(z, p) => Unsettled(z, p)'
  BY <1>2, <1>3 DEF Unsettled, Settles
<1>6. CASE request[q].new = "Active"
  <2>1. \A p : Unsettled(s, p)'
    BY <1>1, <1>3, <1>6, <1>2 DEF RivalInv, ActiveHooked, Unsettled, Settles
  <2>2. \A z \in Strategies \ {s} : status'[z] = status[z]
    BY <1>2 DEF TypeOK
  <2>3. RivalsNoticed'
    <3> SUFFICES ASSUME NEW u \in Strategies, NEW p \in Compatible[u],
                        status'[u] = "Active", status'[p] = "Active"
                 PROVE  Unsettled(u, p)' \/ Unsettled(p, u)'
      BY DEF RivalsNoticed
    <3>1. p \in Strategies
      BY EnrollmentAssumption
    <3>2. CASE u = s \/ p = s
      BY <2>1, <3>2
    <3>3. CASE u # s /\ p # s
      BY <1>5, <2>2, <3>1, <3>3 DEF RivalInv, RivalsNoticed
    <3> QED
      BY <3>2, <3>3
  <2> QED
    BY <1>4, <2>3 DEF RivalInv
<1>7. CASE request[q].new # "Active"
  <2>1. \A z \in Strategies : status'[z] = "Active" => status[z] = "Active"
    BY <1>2, <1>7 DEF TypeOK
  <2> QED
    BY <1>4, <1>5, <2>1, RivalSteady
<1> QED
  BY <1>6, <1>7

(* What the hook reads as Active it will retire.                           *)
LEMMA SupersedeKeepsRivals ==
  ASSUME TypeOK, RivalInv, NEW q \in Requests, SupersedeRead(q)
  PROVE  RivalInv'
<1>1. PICK s, priors : s = request[q].strategy /\ priors = Priors(s)
  OBVIOUS
<1>2. /\ request[q] \in Request
      /\ request[q].phase = "activated"
      /\ status' = status
      /\ s \in Strategies
  BY <1>1, RequestTyped DEF SupersedeRead
<1>3. /\ request'[q].phase = "superseding"
      /\ request'[q].strategy = s
      /\ request'[q].priors = priors
      /\ request'[q].seen = {p \in priors : status[p] = "Active"}
      /\ \A p \in Requests \ {q} : request'[p] = request[p]
  <2> DEFINE next == [request[q] EXCEPT !.phase = "superseding", !.priors = priors,
                        !.seen = {p \in priors : status[p] = "Active"},
                        !.left = RunsOf(priors)]
  <2>1. /\ next.phase = "superseding"
        /\ next.strategy = s
        /\ next.priors = priors
        /\ next.seen = {p \in priors : status[p] = "Active"}
    BY <1>1, <1>2 DEF Request
  <2>2. Goes(q, next)
    BY <1>1 DEF SupersedeRead
  <2> HIDE DEF next
  <2> QED
    BY <2>1, <2>2, RequestFacts
<1>4. ASSUME NEW z \in Strategies \ {s}, NEW p, Unsettled(z, p)
      PROVE  Unsettled(z, p)'
  <2>1. /\ [kind |-> "activation", strategy |-> z]
             # [kind |-> "activation", strategy |-> s]
        /\ \A u \in priors : [kind |-> "activation", strategy |-> z]
             # [kind |-> "withdrawal", strategy |-> u]
    OBVIOUS
  <2>2. lost' = lost \ ({[kind |-> "activation", strategy |-> s]}
                        \cup {[kind |-> "withdrawal", strategy |-> u] : u \in priors})
    BY <1>1 DEF SupersedeRead
  <2>3. [kind |-> "activation", strategy |-> z] \in lost
          => [kind |-> "activation", strategy |-> z] \in lost'
    BY <2>1, <2>2
  <2>4. \A u \in Requests : Settles(u, z, p) => Settles(u, z, p)'
    BY <1>1, <1>3 DEF Settles
  <2> QED
    BY <1>4, <2>3, <2>4 DEF Unsettled
<1>5. ASSUME NEW p \in Compatible[s], status[p] = "Active"
      PROVE  Unsettled(s, p)'
  BY <1>1, <1>3, <1>5 DEF Unsettled, Settles, Priors
<1>6. RivalsNoticed'
  <2> SUFFICES ASSUME NEW u \in Strategies, NEW p \in Compatible[u],
                      status[u] = "Active", status[p] = "Active"
               PROVE  Unsettled(u, p)' \/ Unsettled(p, u)'
    BY <1>2 DEF RivalsNoticed
  <2>1. p \in Strategies /\ u \in Compatible[p]
    BY EnrollmentAssumption
  <2>2. CASE u = s \/ p = s
    BY <1>5, <2>1, <2>2
  <2>3. CASE u # s /\ p # s
    BY <1>4, <2>1, <2>3 DEF RivalInv, RivalsNoticed
  <2> QED
    BY <2>2, <2>3
<1>7. ActiveHooked'
  BY <1>2, <1>3 DEF RivalInv, ActiveHooked
<1> QED
  BY <1>6, <1>7 DEF RivalInv

LEMMA RunKeepsRivals ==
  ASSUME TypeOK, RivalInv, NEW q \in Requests, NEW r \in request[q].left,
         SupersedeRun(q, r)
  PROVE  RivalInv'
<1>1. request[q] \in Request /\ request[q].phase = "superseding"
  BY RequestTyped DEF SupersedeRun
<1>2. PICK next :
        /\ Goes(q, next)
        /\ next.phase = "superseding"
        /\ next.strategy = request[q].strategy
        /\ next.priors = request[q].priors
        /\ next.seen = request[q].seen
        /\ request[q].fresh => next.fresh
  <2> DEFINE left == request[q].left \ {r}
             closing == request[q].closing \cup {r}
             told == [request[q] EXCEPT !.left = left, !.closing = {}, !.fresh = TRUE]
             untold == [request[q] EXCEPT !.left = left, !.closing = closing]
  <2>1. Goes(q, told) \/ Goes(q, untold)
    BY DEF SupersedeRun
  <2>2. \A next \in {told, untold} :
          /\ next.phase = "superseding"
          /\ next.strategy = request[q].strategy
          /\ next.priors = request[q].priors
          /\ next.seen = request[q].seen
          /\ request[q].fresh => next.fresh
    BY <1>1 DEF Request
  <2> HIDE DEF told, untold
  <2> QED
    BY <2>1, <2>2
<1>3. request'[q] = next /\ \A p \in Requests \ {q} : request'[p] = request[p]
  BY <1>2, RequestFacts
<1>4. UNCHANGED <<status, lost>>
  BY DEF SupersedeRun
<1>5. ActiveHooked'
  BY <1>2, <1>3 DEF RivalInv, ActiveHooked
<1>6. \A z, p : Unsettled(z, p) => Unsettled(z, p)'
  BY <1>1, <1>2, <1>3, <1>4 DEF Unsettled, Settles
<1> QED
  BY <1>4, <1>5, <1>6, RivalSteady

(* The hook that ends has retired every prior it had to.                   *)
LEMMA FinishKeepsRivals ==
  ASSUME TypeOK, RivalInv, NEW q \in Requests,
         NEW reread \in SUBSET (request[q].priors \ request[q].seen),
         FinishActivation(q, reread)
  PROVE  RivalInv'
<1>1. /\ request[q].phase = "superseding"
      /\ lost' = lost
      /\ \A p \in Strategies :
           status'[p] = IF p \in Retired(q, reread) THEN "Inactive" ELSE status[p]
  BY DEF FinishActivation
<1>2. request'[q] = IdleRequest /\ \A p \in Requests \ {q} : request'[p] = request[p]
  <2>1. Goes(q, IdleRequest)
    BY DEF FinishActivation
  <2> QED
    BY <2>1, RequestFacts
<1>3. ActiveHooked'
  BY <1>2 DEF RivalInv, ActiveHooked, IdleRequest
<1>4. ASSUME NEW z \in Strategies, NEW p \in Strategies,
             Settles(q, z, p), status'[p] = "Active"
      PROVE  FALSE
  <2>1. status[p] = "Active"
    BY <1>1, <1>4
  <2>2. /\ p \in request[q].priors
        /\ request[q].fresh \/ p \in request[q].seen
    BY <1>1, <1>4 DEF Settles
  <2>3. p \in Retired(q, reread)
    BY <2>1, <2>2 DEF Retired
  <2> QED
    BY <1>1, <1>4, <2>3
<1>5. ASSUME NEW z \in Strategies, NEW p \in Strategies,
             Unsettled(z, p), status'[p] = "Active"
      PROVE  Unsettled(z, p)'
  <2>1. ASSUME NEW u \in Requests, Settles(u, z, p) PROVE Settles(u, z, p)'
    <3>1. u # q
      BY <1>4, <1>5, <2>1
    <3> QED
      BY <1>2, <2>1, <3>1 DEF Settles
  <2> QED
    BY <1>1, <1>5, <2>1 DEF Unsettled
<1>6. \A z \in Strategies : status'[z] = "Active" => status[z] = "Active"
  BY <1>1
<1> QED
  BY <1>3, <1>5, <1>6, RivalSteady

LEMMA CancelKeepsRivals ==
  ASSUME TypeOK, RivalInv, NEW q \in Requests, CancelRead(q) \/ CancelCommit(q)
  PROVE  RivalInv'
<1>1. PICK next : Goes(q, next) /\ next.phase \in {"cancelling", "idle"}
  <2>1. request[q] \in Request
    BY RequestTyped DEF CancelRead, CancelCommit
  <2> DEFINE read == [request[q] EXCEPT !.phase = "cancelling",
                                        !.left = RunsOf({request[q].strategy})]
  <2>2. read.phase = "cancelling" /\ IdleRequest.phase = "idle"
    BY <2>1 DEF Request, IdleRequest
  <2>3. Goes(q, read) \/ Goes(q, IdleRequest)
    BY DEF CancelRead, CancelCommit
  <2> HIDE DEF read
  <2> QED
    BY <2>2, <2>3
<1>2. request'[q] = next /\ \A p \in Requests \ {q} : request'[p] = request[p]
  BY <1>1, RequestFacts
<1>3. request[q].phase \in {"withdrawn", "cancelling"} /\ status' = status
  BY DEF CancelRead, CancelCommit
<1>4. ActiveHooked'
  BY <1>1, <1>2 DEF RivalInv, ActiveHooked
<1>5. ASSUME NEW z, [kind |-> "activation", strategy |-> z] \in lost
      PROVE  [kind |-> "activation", strategy |-> z] \in lost'
  <2>1. \A s : [kind |-> "activation", strategy |-> z] # [kind |-> "withdrawal", strategy |-> s]
    OBVIOUS
  <2> QED
    BY <1>5, <2>1 DEF CancelRead, CancelCommit
<1>6. \A z, p : Unsettled(z, p) => Unsettled(z, p)'
  BY <1>2, <1>3, <1>5 DEF Unsettled, Settles
<1> QED
  BY <1>3, <1>4, <1>6, RivalSteady

LEMMA FailKeepsRivals ==
  ASSUME TypeOK, RivalInv, NEW q \in Requests, HookFails(q)
  PROVE  RivalInv'
<1>1. /\ status' = status
      /\ lost \subseteq lost'
      /\ request[q].phase \in {"activated", "superseding"} =>
           [kind |-> "activation", strategy |-> request[q].strategy] \in lost'
  BY DEF HookFails
<1>2. request'[q] = IdleRequest /\ \A p \in Requests \ {q} : request'[p] = request[p]
  <2>1. Goes(q, IdleRequest)
    BY DEF HookFails
  <2> QED
    BY <2>1, RequestFacts
<1>3. ActiveHooked'
  BY <1>2 DEF RivalInv, ActiveHooked, IdleRequest
<1>4. \A z, p : Unsettled(z, p) => Unsettled(z, p)'
  BY <1>1, <1>2 DEF Unsettled, Settles
<1> QED
  BY <1>1, <1>3, <1>4, RivalSteady

LEMMA RivalStep == TypeOK /\ RivalInv /\ [Next]_vars => RivalInv'
<1> SUFFICES ASSUME TypeOK, RivalInv, [Next]_vars PROVE RivalInv'
  OBVIOUS
<1>1. ASSUME NEW q \in Requests, RequestStep(q) PROVE RivalInv'
  BY <1>1, CommitKeepsRivals, SupersedeKeepsRivals, RunKeepsRivals,
     FinishKeepsRivals, CancelKeepsRivals, FailKeepsRivals DEF RequestStep
<1>2. ASSUME NEW q \in Requests, NEW s \in Strategies, Manage(q, s) PROVE RivalInv'
  <2>1. CASE SubmitForReview(q, s) \/ Approve(q, s) \/ Edit(q, s)
    <3>1. PICK from, new : new # "Active" /\ ReadStatus(q, s, from, new, "idle")
      BY <2>1, Zenon DEF SubmitForReview, Approve, Edit
    <3> QED
      BY <3>1, ReadKeepsRivals
  <2>2. CASE Reject(q, s)
    <3>1. Rejected(s) # "Active"
      BY DEF Rejected
    <3> QED
      BY <2>2, <3>1, ReadKeepsRivals DEF Reject
  <2>3. CASE Deactivate(q, s) \/ Activate(q, s)
    <3>1. PICK from, new, hook : /\ new = "Active" => hook = "activated"
                                 /\ ReadStatus(q, s, from, new, hook)
      BY <2>3 DEF Deactivate, Activate
    <3> QED
      BY <3>1, ReadKeepsRivals
  <2> QED
    BY <1>2, <2>1, <2>2, <2>3 DEF Manage
<1>3. CASE \/ \E t \in Threads : EnrollStep(t)
           \/ \E scope \in SUBSET Strategies : EnqueueEnrolls(scope)
           \/ \E job \in queue : RefuseEnrollment(job)
           \/ \E r \in open : RunEnds(r)
           \/ UNCHANGED vars
  <2>1. UNCHANGED <<status, request, lost>>
    BY <1>3 DEF EnrollStep, EnrollStrategy, SkipAccount, EnrollAccount, Visited,
       EnrollCommit, EnrollFails, EnqueueEnrolls, RefuseEnrollment, RunEnds, vars
  <2> QED
    BY <2>1, RivalsAside
<1> QED
  BY <1>1, <1>2, <1>3 DEF Next

(* Two strategies that serve the same accounts are both Active only while  *)
(* an activation is under way, or after one whose hook failed.             *)
THEOREM RivalsAreSettled == Spec => []RivalsSettled
<1>1. Init => RivalInv
  BY DEF Init, RivalInv, RivalsNoticed, ActiveHooked, IdleRequest
<1>2. RivalInv => RivalsSettled
  BY DEF RivalInv, RivalsNoticed, RivalsSettled, Unsettled, Settles
<1> QED
  BY <1>1, <1>2, RivalStep, TypeCorrect, PTL DEF Spec
=============================================================================
