------------------------- MODULE WorkflowEnrollment -------------------------
(***************************************************************************)
(* Strategies, accounts and the runs between them: activation,             *)
(* deactivation and rejection of a strategy, supersession of older ones,   *)
(* and the enroll jobs that put accounts on a strategy.                    *)
(*                                                                         *)
(* A request reads the strategy's status, commits a new one, and then runs *)
(* a hook of WorkflowExecutionService in further transactions; what the    *)
(* hook raises is logged and swallowed.  An enrollment is one transaction, *)
(* but it reads the accounts one after the other and takes no lock: its    *)
(* writes are kept in `enroll' until it commits.  Only open runs are kept, *)
(* and a closed run stays closed: that a step in flight may write its own  *)
(* status over it is the matter of WorkflowRun.                            *)
(***************************************************************************)
EXTENDS Integers, FiniteSets

CONSTANTS
  Strategies,  \* ids of payflow_strategies of one client
  Accounts,    \* ids of payflow_accounts
  Requests,    \* API requests that may be in flight
  Threads,     \* worker threads that may run an enroll job
  Ancestors,   \* Ancestors[s]: the revision_of_id chain of s
  Compatible,  \* Compatible[s]: strategies of its scope with the same segment
  Members,     \* Members[s]: accounts of the scope of s that fit its segment
  Ai,          \* strategies whose source is AI Generated
  Entryless,   \* strategies without an entry step
  Operations,  \* what happens besides activations
  MaxRuns,     \* bound: enrollments that insert runs
  MaxFaults    \* bound: hooks and jobs that fail

NoStrategy == "no strategy"

ASSUME EnrollmentAssumption ==
  /\ NoStrategy \notin Strategies
  /\ Ancestors \in [Strategies -> SUBSET Strategies]
  /\ Compatible \in [Strategies -> SUBSET Strategies]
  /\ \A s \in Strategies : s \notin Ancestors[s] /\ s \notin Compatible[s]
  /\ \A s, p \in Strategies : p \in Compatible[s] => s \in Compatible[p]
  /\ Members \in [Strategies -> SUBSET Accounts]
  /\ Ai \subseteq Strategies
  /\ Entryless \subseteq Strategies
  /\ Operations \subseteq {"edit", "reject", "deactivate", "import"}
  /\ MaxRuns \in Nat
  /\ MaxFaults \in Nat

VARIABLES
  status,   \* status[s]: strategy.status
  open,     \* runs whose status is not terminal
  born,     \* enrollments that inserted runs, the source of run ids
  queue,    \* pending enroll jobs; equal ones are not told apart
  request,  \* request[q]: a hook on its way after its status commit
  enroll,   \* enroll[t]: the enrollment thread t runs
  faults,   \* failures so far
  lost,     \* history: hooks that failed since the last one that read
  overlap   \* history: strategies enrolled across the last hook's read

history == <<lost, overlap>>
vars == <<status, open, born, queue, request, enroll, faults, history>>

Status == {"Draft", "AI Proposed", "Under Review", "Approved", "Active",
           "Inactive"}

(* thread inserted the run, when since enrollments had inserted runs at    *)
(* the time it read the account.                                           *)
Run == [account: Accounts, strategy: Strategies, id: 1..MaxRuns,
        thread: Threads, since: 0..MaxRuns]
Read == [account: Accounts, since: 0..MaxRuns]
Cause == {"activation", "import"}
Job == [strategy: Strategies, cause: Cause]

(* deciding: the status is read, new and hook are what it will write and   *)
(* run; activated, withdrawn: it is committed, the hook has not read yet;  *)
(* superseding, cancelling: it has.  left: runs still to close, closing:   *)
(* closed in the open transaction; seen: priors read as Active, fresh:     *)
(* expired since by a commit, so read again.                               *)
Request == [phase: {"deciding", "activated", "superseding", "withdrawn",
                    "cancelling"},
            strategy: Strategies, new: Status,
            hook: {"idle", "activated", "withdrawn"},
            priors: SUBSET Strategies, seen: SUBSET Strategies,
            fresh: BOOLEAN, left: SUBSET Run, closing: SUBSET Run]
Enroll == [strategy: Strategies, cause: Cause, todo: SUBSET Accounts,
           closing: SUBSET Run, adding: SUBSET Read]
Hook == [kind: {"activation", "withdrawal"}, strategy: Strategies]

IdleRequest == [phase |-> "idle", strategy |-> NoStrategy, new |-> "Draft",
                hook |-> "idle", priors |-> {}, seen |-> {}, fresh |-> FALSE,
                left |-> {}, closing |-> {}]
IdleThread == [strategy |-> NoStrategy, cause |-> "import", todo |-> {},
               closing |-> {}, adding |-> {}]

TypeOK ==
  /\ status \in [Strategies -> Status]
  /\ open \in SUBSET Run
  /\ born \in 0..MaxRuns
  /\ queue \in SUBSET Job
  /\ request \in [Requests -> Request \cup {IdleRequest}]
  /\ enroll \in [Threads -> Enroll \cup {IdleThread}]
  /\ faults \in 0..MaxFaults
  /\ lost \in SUBSET Hook
  /\ overlap \in SUBSET Strategies

Init ==
  /\ status = [s \in Strategies |-> "Approved"]
  /\ open = {}
  /\ born = 0
  /\ queue = {}
  /\ request = [q \in Requests |-> IdleRequest]
  /\ enroll = [t \in Threads |-> IdleThread]
  /\ faults = 0
  /\ lost = {}
  /\ overlap = {}

RunsOf(S) == {r \in open : r.strategy \in S}
InFlight == {enroll[t].strategy : t \in Threads} \ {NoStrategy}
Superseding(s) == \E q \in Requests : /\ request[q].phase = "superseding"
                                      /\ s \in request[q].priors

Idle(q) == request[q] = IdleRequest
Goes(q, next) == request' = [request EXCEPT ![q] = next]

-----------------------------------------------------------------------------
(* Requests on one strategy: StrategyService *)

(* What was read is not read again: the status may be another by now.      *)
CommitStatus(q) ==
  LET s    == request[q].strategy
      hook == request[q].hook
  IN  /\ request[q].phase = "deciding"
      /\ status' = [status EXCEPT ![s] = request[q].new]
      /\ Goes(q, IF hook = "idle" THEN IdleRequest
                 ELSE [IdleRequest EXCEPT !.phase = hook, !.strategy = s])
      /\ UNCHANGED <<open, born, queue, enroll, faults, history>>

ReadStatus(q, s, from, new, hook) ==
  /\ Idle(q)
  /\ status[s] \in from
  /\ Goes(q, [IdleRequest EXCEPT !.phase = "deciding", !.strategy = s,
                                 !.new = new, !.hook = hook])
  /\ UNCHANGED <<status, open, born, queue, enroll, faults, history>>

SubmitForReview(q, s) == ReadStatus(q, s, {"Draft", "AI Proposed"}, "Under Review", "idle")

Approve(q, s) == ReadStatus(q, s, {"AI Proposed", "Under Review"}, "Approved", "idle")

(* An edit takes an approved strategy back to review; its runs go on.      *)
Edit(q, s) ==
  /\ "edit" \in Operations
  /\ ReadStatus(q, s, {"Approved", "Active"}, "Under Review", "idle")

\* mutant: a status the enumeration lacks
RejectedOutright(s) == "Rejected"

Rejected(s) == IF s \in Ai THEN "AI Proposed" ELSE "Draft"

(* A rejected strategy is stopped only if it was Active when read.         *)
Reject(q, s) ==
  /\ "reject" \in Operations
  /\ \/ ReadStatus(q, s, Status \ {"Active", Rejected(s)}, Rejected(s), "idle")
     \/ ReadStatus(q, s, {"Active"}, Rejected(s), "withdrawn")

Deactivate(q, s) ==
  /\ "deactivate" \in Operations
  /\ ReadStatus(q, s, {"Active"}, "Inactive", "withdrawn")

Activate(q, s) == ReadStatus(q, s, {"Approved", "Inactive"}, "Active", "activated")

-----------------------------------------------------------------------------
(* Activation: on_strategy_activated and _supersede_prior_for_strategy *)

Priors(s) == Ancestors[s] \cup {p \in Compatible[s] : status[p] = "Active"}

SupersedeRead(q) ==
  LET s == request[q].strategy
      priors == Priors(s)
  IN  /\ request[q].phase = "activated"
      /\ Goes(q, [request[q] EXCEPT !.phase = "superseding", !.priors = priors,
                    !.seen = {p \in priors : status[p] = "Active"},
                    !.left = RunsOf(priors)])
      /\ overlap' = (overlap \ priors) \cup (priors \cap InFlight)
      /\ lost' = lost \ ({[kind |-> "activation", strategy |-> s]}
                         \cup {[kind |-> "withdrawal", strategy |-> p] : p \in priors})
      /\ UNCHANGED <<status, open, born, queue, enroll, faults>>

(* One run of the loop: the notification commits what is written so far,   *)
(* unless there is nobody to notify.                                       *)
SupersedeRun(q, r) ==
  LET closing == request[q].closing \cup {r}
      left    == request[q].left \ {r}
  IN  /\ request[q].phase = "superseding"
      /\ r \in request[q].left
      /\ \/ /\ open' = open \ closing
            /\ Goes(q, [request[q] EXCEPT !.left = left, !.closing = {}, !.fresh = TRUE])
         \/ /\ Goes(q, [request[q] EXCEPT !.left = left, !.closing = closing])
            /\ UNCHANGED open
      /\ UNCHANGED <<status, born, queue, enroll, faults, history>>

\* mutant: the priors stay Active
RetiresNobody(q, reread) == {}

(* The priors that are Active, as far as the session knows: reread are the *)
(* ones it no longer holds, all of them after a commit.                    *)
Retired(q, reread) ==
  LET forgotten == IF request[q].fresh THEN request[q].priors ELSE reread
  IN  (request[q].seen \ forgotten) \cup {p \in forgotten : status[p] = "Active"}

(* The priors become Inactive and the enroll job is queued, in one commit. *)
FinishActivation(q, reread) ==
  LET s == request[q].strategy
  IN  /\ request[q].phase = "superseding"
      /\ request[q].left = {}
      /\ status' = [p \in Strategies |-> IF p \in Retired(q, reread) THEN "Inactive"
                                                                     ELSE status[p]]
      /\ open' = open \ request[q].closing
      /\ queue' = queue \cup {[strategy |-> s, cause |-> "activation"]}
      /\ Goes(q, IdleRequest)
      /\ UNCHANGED <<born, enroll, faults, history>>

-----------------------------------------------------------------------------
(* Deactivation and rejection: on_strategy_deactivated *)

CancelRead(q) ==
  LET s == request[q].strategy
  IN  /\ request[q].phase = "withdrawn"
      /\ Goes(q, [request[q] EXCEPT !.phase = "cancelling", !.left = RunsOf({s})])
      /\ overlap' = (overlap \ {s}) \cup ({s} \cap InFlight)
      /\ lost' = lost \ {[kind |-> "withdrawal", strategy |-> s]}
      /\ UNCHANGED <<status, open, born, queue, enroll, faults>>

\* mutant: the runs are read but not written
CancelNothing(q) ==
  /\ request[q].phase = "cancelling"
  /\ Goes(q, IdleRequest)
  /\ UNCHANGED <<status, open, born, queue, enroll, faults, history>>

CancelCommit(q) ==
  /\ request[q].phase = "cancelling"
  /\ open' = open \ request[q].left
  /\ Goes(q, IdleRequest)
  /\ UNCHANGED <<status, born, queue, enroll, faults, history>>

(* The hook raises, or the process ends: the status stands, nobody calls   *)
(* again.                                                                  *)
HookFails(q) ==
  LET hook == request[q]
      kind == IF hook.phase \in {"activated", "superseding"} THEN "activation"
                                                             ELSE "withdrawal"
  IN  /\ request[q].phase \notin {"idle", "deciding"}
      /\ faults < MaxFaults
      /\ faults' = faults + 1
      /\ lost' = lost \cup {[kind |-> kind, strategy |-> hook.strategy]}
                      \cup {[kind |-> "withdrawal", strategy |-> p] : p \in hook.priors}
      /\ Goes(q, IdleRequest)
      /\ UNCHANGED <<status, open, born, queue, enroll, overlap>>

-----------------------------------------------------------------------------
(* Enroll jobs *)

(* enqueue_enrolls_for_scopes: after an import, and after a review that no *)
(* run was paused for; scope holds the strategies of the scopes touched.   *)
EnqueueEnrolls(scope) ==
  LET jobs == {[strategy |-> s, cause |-> "import"] :
                 s \in {p \in scope : status[p] = "Active"}}
  IN  /\ "import" \in Operations
      /\ ~(jobs \subseteq queue)
      /\ queue' = queue \cup jobs
      /\ UNCHANGED <<status, open, born, request, enroll, faults, history>>

RefuseEnrollment(job) ==
  /\ job \in queue
  /\ status[job.strategy] # "Active"
  /\ queue' = queue \ {job}
  /\ UNCHANGED <<status, open, born, request, enroll, faults, history>>

EnrollStrategy(t, job) ==
  /\ enroll[t] = IdleThread
  /\ job \in queue
  /\ born < MaxRuns
  /\ status[job.strategy] = "Active"
  /\ queue' = queue \ {job}
  /\ enroll' = [enroll EXCEPT ![t] =
       [IdleThread EXCEPT !.strategy = job.strategy, !.cause = job.cause,
                          !.todo = Members[job.strategy]]]
  /\ overlap' = IF Superseding(job.strategy) THEN overlap \cup {job.strategy}
                                             ELSE overlap
  /\ UNCHANGED <<status, open, born, request, faults, lost>>

RunsOn(a) == {r \in open : r.account = a}

Visited(t, a, closing, adding) ==
  /\ a \in enroll[t].todo
  /\ enroll' = [enroll EXCEPT ![t] =
       [enroll[t] EXCEPT !.todo    = enroll[t].todo \ {a},
                         !.closing = enroll[t].closing \cup closing,
                         !.adding  = enroll[t].adding \cup adding]]
  /\ UNCHANGED <<status, open, born, queue, request, faults, history>>

(* The account is blocked, or has an open run of this strategy.  Blocked   *)
(* is a choice: the hold of an account is a matter of WorkflowRun.         *)
SkipAccount(t, a) == Visited(t, a, {}, {})

AlreadyOn(t, a) == \E r \in RunsOn(a) : r.strategy = enroll[t].strategy

ReadNow(t, a) ==
  IF enroll[t].strategy \in Entryless THEN {} ELSE {[account |-> a, since |-> born]}

\* mutant: other runs of the account are left alone
EnrollBeside(t, a) ==
  /\ ~AlreadyOn(t, a)
  /\ Visited(t, a, {}, ReadNow(t, a))

(* The other runs are superseded first: a strategy without an entry step   *)
(* puts nothing in their place.                                            *)
EnrollAccount(t, a) ==
  /\ ~AlreadyOn(t, a)
  /\ Visited(t, a, RunsOn(a), ReadNow(t, a))

NewRuns(t) ==
  {[account |-> read.account, strategy |-> enroll[t].strategy, id |-> born + 1,
    thread |-> t, since |-> read.since] : read \in enroll[t].adding}

(* The commit.  The job may be delivered again: its mark may fail.         *)
EnrollCommit(t, again) ==
  /\ enroll[t] # IdleThread
  /\ enroll[t].todo = {}
  /\ open' = (open \ enroll[t].closing) \cup NewRuns(t)
  /\ born' = IF enroll[t].adding = {} THEN born ELSE born + 1
  /\ born' <= MaxRuns
  /\ enroll' = [enroll EXCEPT ![t] = IdleThread]
  /\ \/ ~again /\ UNCHANGED <<queue, faults>>
     \/ /\ again
        /\ faults < MaxFaults
        /\ faults' = faults + 1
        /\ queue' = queue \cup {[strategy |-> enroll[t].strategy,
                                 cause |-> enroll[t].cause]}
  /\ UNCHANGED <<status, request, history>>

(* It raises or the worker dies: rolled back and delivered again.          *)
EnrollFails(t) ==
  /\ enroll[t] # IdleThread
  /\ faults < MaxFaults
  /\ faults' = faults + 1
  /\ queue' = queue \cup {[strategy |-> enroll[t].strategy,
                           cause |-> enroll[t].cause]}
  /\ enroll' = [enroll EXCEPT ![t] = IdleThread]
  /\ UNCHANGED <<status, open, born, request, history>>

(* A run finishes, see WorkflowRun.                                        *)
RunEnds(r) ==
  /\ open' = open \ {r}
  /\ UNCHANGED <<status, born, queue, request, enroll, faults, history>>

-----------------------------------------------------------------------------
Manage(q, s) ==
  \/ SubmitForReview(q, s)
  \/ Approve(q, s)
  \/ Edit(q, s)
  \/ Reject(q, s)
  \/ Deactivate(q, s)
  \/ Activate(q, s)

RequestStep(q) ==
  \/ CommitStatus(q)
  \/ SupersedeRead(q)
  \/ \E r \in request[q].left : SupersedeRun(q, r)
  \/ \E reread \in SUBSET (request[q].priors \ request[q].seen) :
       FinishActivation(q, reread)
  \/ CancelRead(q)
  \/ CancelCommit(q)
  \/ HookFails(q)

EnrollStep(t) ==
  \/ \E job \in queue : EnrollStrategy(t, job)
  \/ \E a \in enroll[t].todo : SkipAccount(t, a) \/ EnrollAccount(t, a)
  \/ \E again \in BOOLEAN : EnrollCommit(t, again)
  \/ EnrollFails(t)

Next ==
  \/ \E q \in Requests : RequestStep(q) \/ \E s \in Strategies : Manage(q, s)
  \/ \E scope \in SUBSET Strategies : EnqueueEnrolls(scope)
  \/ \E job \in queue : RefuseEnrollment(job)
  \/ \E t \in Threads : EnrollStep(t)
  \/ \E r \in open : RunEnds(r)

Spec == Init /\ [][Next]_vars

-----------------------------------------------------------------------------
(* Properties *)

(* An account has no more open runs than there are worker threads, and a   *)
(* second one only of enrollments that overlapped: the later one read the  *)
(* account before the earlier one was committed.                           *)
OneOpenRunPerThread ==
  \A r, u \in open : (r.account = u.account /\ r # u) =>
    /\ r.thread # u.thread
    /\ r.id <= u.id => u.since < r.id

(* Two strategies that serve the same accounts are both Active only while  *)
(* the activation of one is still being carried out, or was cut short.     *)
RivalsSettled ==
  \A s \in Strategies : \A p \in Compatible[s] :
    (status[s] = "Active" /\ status[p] = "Active") =>
      \/ \E q \in Requests : /\ request[q].phase \in {"activated", "superseding"}
                            /\ request[q].strategy \in {s, p}
      \/ \E z \in {s, p} : [kind |-> "activation", strategy |-> z] \in lost

\* a hook that closes the runs of s is on its way
Closing(s) ==
  \E q \in Requests : /\ request[q].phase \notin {"idle", "deciding"}
                      /\ s = request[q].strategy \/ s \in request[q].priors

(* A run is left on an Inactive strategy only while its cancellation is on *)
(* its way or was lost, or if an enrollment ran across the hook's read.    *)
StrayRunsExplained ==
  \A r \in open : status[r.strategy] = "Inactive" =>
    \/ Closing(r.strategy)
    \/ r.strategy \in overlap
    \/ [kind |-> "withdrawal", strategy |-> r.strategy] \in lost
=============================================================================
