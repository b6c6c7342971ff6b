# ProductSuite-BE in TLA+

A specification of the collection back end of this repository: TLA+ modules
that follow the Python code, TLC configurations that check them on small
instances, and proofs that TLAPS checks for every instance.  Paths below are
relative to `src/app/` unless they begin with `src/`; `payflow/` stands for
`modules/payflow/`.

How to read it:

1. `WorkflowQueue.tla`, the job queue of the workflow worker, with
   `MCWorkflowQueue*.cfg` and the proofs in `WorkflowQueueProofs.tla`;
2. `WorkflowRun.tla`, one workflow run and everything that can happen to it,
   with `MCWorkflowRun*.cfg` and the proofs in `WorkflowRunProofs.tla` and
   `WorkflowRunMoveProofs.tla`;
3. `WorkflowEnrollment.tla`, how strategies become Active and accounts get their
   runs, with `MCWorkflowEnrollment*.cfg` and the proofs in
   `WorkflowEnrollmentProofs.tla`;
4. `MoneyBook.tla`, what the payment services promise about a customer's money,
   and `PaymentLedger.tla`, how they keep it, with `MCPaymentLedger` and the
   proofs in `PaymentLedgerProofs.tla`;
5. `Delivery.tla`, the messages to a customer, what the providers report of
   them, and payment links, with `MCDelivery` and the proofs in
   `DeliveryProofs.tla`;
6. the administrative requests: `Transactions.tla` (what a request is),
   `ClientBook.tla` (clients and portfolios), `Suggestion.tla` (the suggestion
   engine's computations), `Intake.tla` (files and suggestion jobs),
   `Access.tla` (users and sessions), composed by `Administration.tla`, with
   `MCAdministration` and the proofs in `AdministrationProofs.tla` and
   `AdministrationIntakeProofs.tla`.

`tlc -config MCWorkflowQueue.cfg MCWorkflowQueue` checks a run,
`tlapm WorkflowQueueProofs.tla` the proofs.


## 1. The system

A company uploads files of overdue accounts, designs (or has a model suggest) a
*strategy* per portfolio or segment, and a worker carries each account through
that strategy: messages, waits, conditions on the account, human reviews,
changes of the case.  Debtors pay through a portal.  Everything is kept in one
Postgres database at READ COMMITTED; each request and each job has its own
session (`infrastructure/database/session.py`).  Three kinds of process share
it:

- the **API** process (`main.py`): request handlers, webhooks of the providers,
  and background tasks that run file imports and suggestion jobs inside it;
- any number of **worker** processes (`worker/`): a sweep and a pool of eight
  threads each;
- the **providers** outside: Stripe, SendGrid, Twilio, the language model.

There is no lock manager and hardly any row lock: what keeps these apart is
`SELECT ... FOR UPDATE SKIP LOCKED` at the claim of a job, a few unique keys,
and reads that check a status before a write.  That is where the interesting
properties are.

### Components

| Component | State | Operations | Depends on | What must hold |
|---|---|---|---|---|
| **Job queue and worker** `worker/`, `payflow/services/workflow_queue.py` | `payflow_workflow_jobs`: status, attempts, scheduled_at, locked_at, locked_by; claimed ids in a process's memory | enqueue, cancel, reclaim, claim, run, mark done, mark failed | the handlers it runs | one holder per job, bounded attempts, no finished job comes back, every job ends |
| **Run execution** `payflow/services/workflow_execution_service.py` | run (status, current step, review), step runs, account, reviews | execute_step, resume_run, the `on_*` hooks | queue, communication, review, reassessment, notification | a message leaves once, waits and reviews are honoured, a finished run stays finished, no run is stranded |
| **Governance rules at run time** `rule_runtime_service.py`, `rule_service.py` | rules of a client | match a step, demand an action, scan after the fact | run execution, review | an action that forbids a step does so |
| **Human review** `review_service.py` | review, version, account hold | create, assign, hold, release, approve, modify, reject | run execution by callback | one open review per account, a decision is applied once |
| **Case reassessment** `case_reassessment_service.py` | account, review | reassess | review | does not hide an open review |
| **Communication** `communication_service.py`, `infrastructure/email`, `infrastructure/sms` | communication, delivery status | send, retry, provider events | providers, notification | a request is sent once, the status only moves forward, an opt-out is respected |
| **Provider webhooks** `sendgrid_webhook.py`, `twilio_webhook.py`, `stripe_webhook.py` | none | verify, dispatch | communication, payments, run execution | an event applied twice changes nothing |
| **Enrollment and activation** `workflow_execution_service.py` (`enroll_strategy`, `on_strategy_*`), `strategy_service.py` | strategies, runs, accounts | activate, deactivate, enroll, gap fill, supersede | queue, run execution | one open run per account, none on an inactive strategy |
| **Strategy life cycle** `strategy_service.py` | strategy, versions | draft, submit, approve, activate, archive | enrollment | only an approved strategy runs |
| **Payment portal** `payment_portal_service.py`, `stripe_checkout_service.py` | attempts, checkout sessions | start, confirm, fail, cancel, poll | Stripe, payment outcome | a confirmed payment is booked and stays confirmed |
| **Payment outcomes and plans** `payment_outcome_service.py`, `plan_schedule.py`, `plan_auto_charge_service.py`, `payment_reconciliation_service.py` | transactions, plan, instalments, balance | apply, refund, schedule, auto-charge | portal, run execution | the books agree with Stripe, the balance with the books, an instalment is charged once |
| **Payment links** `payment_link_service.py` | links | ensure, revoke, expire, complete | portal | one active link per account |
| **File import** `import_service.py`, `import_job_service.py`, `import_progress.py` | job, run, accounts | upload, preview, import, close | account, run execution, suggestion jobs | an import is seen whole or not at all, a preview tells the truth |
| **Suggestion jobs** `ai_suggest_job_service.py` | job per scope | enqueue, run, fail | suggestion engine | one set of drafts per scope |
| **Suggestion engine** `workflow_suggestion/` | none (pure, around a model's answer) | segment, prompt, validate, repair | language model | what it returns is a legal strategy |
| **Notifications and operational exceptions** `notification_service.py`, `operational_exception_service.py` | notifications, exceptions | notify, raise, resolve | every service | one open row per cause |
| **Identity and sessions** `modules/identity`, `core/security.py`, `core/deps.py`, `core/auth_cookies.py` | sessions, refresh tokens, one-time tokens | login, refresh, logout, reset, invite | — | one live session, a token is used once |
| **Users, roles, permissions** `payflow/service.py`, `membership.py`, `deps.py`, `access_context_service.py` | grants | lookups, edits | identity | an administrator remains |
| **Platform and entitlements** `modules/platform` | organizations, products, people | CRUD, entitle, assign | identity | a product is used only while entitled and assigned |
| **Clients, portfolios, accounts** `client_service.py`, `account_service.py` | rows | create, edit, activate, delete, views | import, suggestion jobs | a number names one client or portfolio, history is not deleted |
| **Deletion guards** `shared/deletion.py` | — | checks before a delete | users | the last administrator stays |
| **Integrations** `integration_service.py` | connection settings | save, test | providers | — |
| **Dashboards, exports, geography** | — | read | — | — |
| **HTTP API** `payflow/routes.py`, `schemas.py`, `main.py` | — | routing, validation | all services | — |
| **Persistence, configuration, CRM catalogue** | tables, settings, constants | start-up | — | — |

### How they interact

- *Calls in one session.* A request handler opens a session and calls one
  service, which calls others with the same session.  A service that commits
  therefore commits its caller's half-done work.  `notification_service.notify`
  is the important one: `execute_step` calls it in the middle of a step.
- *Jobs.* The hooks and the handlers leave `execute_step`, `resume_run`,
  `enroll_strategy` rows in the queue; the worker runs each at least once.
- *Callbacks across commits.* `review_service.approve` commits the decision and
  then calls `on_human_review_decided`, which commits on its own; the payment
  portal and the import do the same with `on_payment_event` and
  `on_account_import_changed`.
- *Shared rows.* The run, the account's case status and hold, and the reviews
  are read and written by the worker and by requests at the same time.

### What is hard

Interleavings of two threads on one run, of a request and a thread, and of two
requests; locks that are reclaimed by age alone; a crash between a provider call
and the commit, or between two commits of one handler; jobs and webhooks that
are delivered again, late, or out of order; runs that wait for an answer that
was already given; counters at their bound.  `PROJECT.json` lists each of these
at the line where it bites ("hazards"), with the property that covers it or the
reason why none does.


## 2. The modules

### `WorkflowQueue`

The table `payflow_workflow_jobs`, the sweep of each worker process
(`worker/loop.py:_drain_due`), and the pool thread that runs one claimed job
(`worker/handlers.py:process_job`).  One step is one transaction or one step of
a thread.

| TLA+ | Code |
|---|---|
| `status`, `attempts`, `lockedBy` | the columns of the row |
| `due[j]`, `lockAge[j]` | `scheduled_at` and `locked_at`, as ticks to go and ticks gone |
| `claims` | the claimed ids in the memory of a process, each with the phase its thread is in |
| `loop[w]` | where the sweep of worker `w` is |
| `cancelling[r]` | the rows a transaction read in order to cancel them |
| `EnqueueJob` | `enqueue_job` |
| `CancelRead`, `CancelCommit` | `cancel_pending_jobs_for_run` and its caller's commit |
| `ReclaimStaleRunningJobs`, `ClaimDueJobs` | `worker/claim.py`, the functions of these names |
| `PoolStart`, `HandlerCommit`, `HandlerReturn`, `HandlerRaise` | `process_job` around the handler, which commits some transactions, or none, and returns or raises |
| `MarkJobDone`, `MarkJobFailed` and their `...Error` | `mark_job_done`, `mark_job_failed` |
| `Crash`, `Stop`, `Restart` | a killed process, a SIGTERM, supervision |

Abstractions.  Time is relative and saturates one tick past the stale window,
which is all a comparison with the cutoff can see.  The claim's `ORDER BY
priority ... LIMIT ... SKIP LOCKED` is the set condition `IsBatch`.  A
handler commits more than once (`enroll_strategy` its runs and then its log line,
`notify` in the middle of a step, a failed step its row before it raises): the
first of these commits is `HandlerCommit`, and from there it may return or raise
(`partway`), so that what it committed is done again by the retry.  Which
transactions they are is opened up by `WorkflowRun` and `WorkflowEnrollment`.  The
claim has no bound on attempts in the code; `MaxClaims` bounds it in the model,
above what the other bounds can reach without a reclaim, so that the bound is
met only in states the properties already cover.  The rest of the sweep, the
refresh and auto-charge of payment plans, touches other tables and is left to
the payment modules; LISTEN/NOTIFY only makes a sweep come sooner.

History variables (`effects`: attempts that committed something, `torn`: those
of them whose handler raised afterwards, `reclaims`, `markErrors`, `overran`) record what
happened so that properties can say what it must be accounted for by; no action
reads them.

### `WorkflowRun`

One run of one account: `execute_step` and `resume_run`, all kinds of steps, all
actions a governance rule may demand, the outside events, and the account and
review rows they share.  The strategy is a CONSTANT: a graph of steps given by
`Kind`, `NextOf`, `YesOf`, `NoOf`.

| TLA+ | Code (`workflow_execution_service.py` unless named) |
|---|---|
| `status`, `current`, `awaits` | `run.status`, `current_step_id`, `human_review_id` |
| `jobs`, `orphans` | pending rows of the run; running rows whose worker died |
| `execs` | executions of a step between first read and last commit |
| `outcome[s]` | what the committed step-run rows of `s` say |
| `blocks` | what `_account_execution_block_reason` finds on the account |
| `reviews`, `callbacks` | review rows; decisions whose callback is still to run |
| `SkipStep`, `SkipDuplicate`, `BlockedStep`, `UnknownStep`, `Begin` | the early returns of `execute_step` and the inserted step-run row |
| `ExecutePlain`, `ExecuteWait`, `ExecuteCondition`, `ExecuteReassessment`, `ExecuteOutcome` | `_dispatch_kind` and what follows it |
| `Send`, `NotifySent`, `ExecuteCommunication` | `send_workflow_step`: provider call, notification's commit, last commit |
| `PreventCommunication`, `NotifyPrevented`, `EnqueueAfterPrevented`, `HoldAction`, `ChangeWorkflow`, `PauseForHumanReview` | `_apply_rule_action`, `_pause_for_human_review` |
| `StepRaises`, `WorkerDies`, `Reclaim` | the `except` of `execute_step` and of `process_job`; a killed worker; the queue's reclaim |
| `ResumeRun`, `IgnoreResume` | `resume_run` |
| `Advance`, `CaseStatusChanged` | `_advance_run_from_event`, `on_case_status_changed` |
| `OnPaymentEvent`, `OnCommunicationEvent`, `OnAccountImportChanged`, `OnStrategyDeactivated`, `Supersede` | the hooks of these names, `_supersede_prior` |
| `OpenGovernanceReview`, `HoldOrRelease`, `Decide`, `OnHumanReviewDecided` | `review_service.py` and the callback |

Faithfulness notes.

- *Commits.* An execution is one transaction unless it notifies.  The
  notification service commits its caller's session, so a sent message goes
  through `begun`, `sent`, `notified`, and a prevented one through `begun`,
  `prevented`, each visible to everybody.  The provider is called before any of
  them.  After that commit the ORM has expired the run and the code writes its
  status without looking at it again; before it, UPDATE writes only attributes
  that changed since the row was loaded (`Written`).
- *Locks.* A run that is `Waiting` is set `Active` and flushed first thing, so
  its row is locked until the execution's first commit; outside events wait
  (`Locked`), and so does another execution that would write the row (`RowFree`).  The unique key (run, step, attempt) keeps a second execution of a
  step out until the first commits (`Begin`).
- *Outside events* read and write in one transaction and are one step.  With
  `Races` they may fall between the transactions of an execution.  With
  `Redeliver` the queue may leave a finished job's row behind.
- *History.* `gate` is the review the run was last paused for, or `Strayed` once
  something other than its decision took the run out of a pause: an import's
  resume, a resume delivered twice, or an execution in flight that writes its own
  status (`Gate`).  `leapt` has the Wait steps at which an import lifted a hold.
  `dropped` says that a job or a callback was given up.  No action reads them.
- *Data.* What a Condition evaluates to, whether a message is eligible, and
  which rule matches are nondeterministic choices (a message may be skipped, a
  rule in `Rules` may or may not apply).  `Escalate Case` takes the same path as
  `Require Human Review` and is one with it.  A step whose kind is unknown takes
  the path of a Trigger.
- *Account.* `blocks` holds `resolved`, `on hold`, `provincial`.  An import never
  sets On Hold.  The portal sets the case Resolved or Payment Plan and then calls
  the hook; the failed-payment path does not touch runs.
- `create_review(commit=False)`, the call from a run, does not notify.
- *Left out.* The branch of `on_human_review_decided` without a paused run,
  which enqueues enrollments, is in `WorkflowEnrollment`.  The graph is constant:
  an edit of an Active strategy takes effect on its open runs at their next step,
  which reads the live row; of such edits the model has only the unknown step id.

### `WorkflowEnrollment`

Several strategies of one client, their accounts, and the open runs between
them; any number of requests and of worker threads.

| TLA+ | Code |
|---|---|
| `status[s]` | `strategy.status` |
| `open` | `payflow_workflow_runs` with a status that is not terminal |
| `request[q]` | a request between the read of the status and the end of its hook |
| `enroll[t]` | a transaction of `enroll_strategy`: accounts to visit, runs to close, runs to add |
| `queue` | pending enroll jobs, with what asked for them |
| `ReadStatus`, `CommitStatus` | the guard and the commit of every method of `StrategyService` that writes a status: `SubmitForReview` (also `begin_review` and the edit or draft of a proposal), `Approve`, `Edit` (`update_strategy`, `save_draft`), `Reject`, `Deactivate`, `Activate` |
| `SupersedeRead`, `SupersedeRun`, `FinishActivation` | `on_strategy_activated` with `_supersede_prior_for_strategy` |
| `CancelRead`, `CancelCommit` | `on_strategy_deactivated` |
| `HookFails` | the `except` around the hook, or the end of the process |
| `EnqueueEnrolls` | `enqueue_enrolls_for_scopes`, called by an import and by a review without a paused run |
| `RefuseEnrollment`, `EnrollStrategy`, `SkipAccount`, `EnrollAccount`, `EnrollCommit`, `EnrollFails` | `enroll_strategy` |

Faithfulness notes.

- *Commits.* `_notify_superseded` commits what the loop has written so far, if
  there is anybody to notify (`SupersedeRun`, either case).  A commit expires the
  session; before one, the priors are retired by what the session holds, except
  those it dropped and reads again (`Retired`).
- *Stale reads.* No row of a strategy is locked or versioned: `CommitStatus`
  writes whatever the status has become.  A request that would write the status
  it read writes nothing, and is left out.  Inactive is only reached from Active,
  hence `approved_by` is set and `activate` accepts it.
- *Enrollment* reads the open runs of one account after the other, each as
  committed at that moment, and writes them all at its commit.  A strategy without
  an entry step (`Entryless`) supersedes the runs it finds and adds none.  A job may
  be delivered again after its commit (`again`) or its failure.  A run remembers
  the thread that inserted it and how many enrollments had committed runs when that
  thread read the account (`since`): history.
- *Data.* Segments, the revision chain and the scope are the constants
  `Compatible`, `Ancestors`, `Members`; whether an account is blocked is a choice.
- *Left out.* `create_strategy`, `delete_strategy` (which a run's foreign key
  refuses), and `gap_fill_active_strategies`, a job nothing enqueues.  A closed
  run stays closed here: that an execution in flight may write over it is a
  matter of `WorkflowRun` (see the end of section 3).


### `MoneyBook` and `PaymentLedger`

`MoneyBook` is the promise: money the provider has captured has at most one open
entry in the ledger, nothing is entered that was not captured, and an entry is
closed only by a refund the provider made.  It knows no request, event or lock.

`PaymentLedger` is how the code keeps it, for one account: attempts started on
the portal or by the worker's sweep, the customer at Stripe's checkout, Stripe's
events, the poll of the result page, the account's balances, the plan and its
instalments.  A request, a webhook call and a sweep are each a thread; what it
reads in one step it may write in a later one.

| TLA+ | Code (`payment_portal_service.py` unless named) |
|---|---|
| `acct` | `outstanding_balance`, `recovered_balance`, `collection_status` |
| `att[a]` | a row of `payflow_payment_attempts`, with whether it knows its intent (`pi`) and the instalment it is for (`seq`) |
| `txn[a]` | the payment transactions of an attempt, by the reference they were booked under, and its refund rows (`adj`) |
| `plan`, `inst` | the payment plan and its instalments (`payment_outcome_service.py`, `plan_schedule.py`) |
| `stripe`, `key`, `refund`, `events` | sessions and intents, idempotency keys, refunds and events at Stripe: external |
| `th[t]` | what a session is doing, what it read of the account (`was`), and whether that has been superseded (`stale`: history) |
| `Initiate` | `initiate`, with `_build_options`, `_resolve_amount` and the overdue refresh they cause |
| `Receive`, `ReceiveOld`, `ReceiveUnmatched`, `CancelAttempt` | `handle_stripe_event` up to its dispatch, `cancel_attempt` |
| `Poll`, `Reconcile` | `get_attempt_public`, which loads the attempt and its account, and `reconcile_attempt_from_stripe`, which then asks Stripe |
| `LockAttempt`, `ApplySetup`, `ApplySucceeded` | `apply_succeeded`, with `record_confirmed_payment`, `ensure_payment_plan_for_attempt`, `_apply_payment_to_plan` |
| `ApplyFailed`, `RecordAutoChargeFailure` | `apply_failed`, `record_auto_charge_failure` (two commits) |
| `ApplyRefund` | `apply_refund_or_reversal` |
| `ChargeDue`, `CallStripe`, `ChargeCommitted`, `ChargeRefused` | `plan_auto_charge_service.py`: `_charge_one` |
| `OverdueRead`, `RefreshOverduePlans` | `refresh_overdue_plans` in the worker's sweep |
| `Crash` | a process that dies or a transaction that fails; the webhook then did not answer 200 |

Faithfulness notes.

- *Locks.* `apply_succeeded` locks its attempt (`SELECT ... FOR UPDATE`) and
  reads the account without a lock; every other handler locks nothing.  An
  UPDATE writes the columns whose value changed since the read (`Column`).
- *Identity map.* A poll has loaded the account together with the attempt before
  it called Stripe, and `db.get` hands out that row again after the lock
  (`Polled` in `LockAttempt`); a webhook loads the account only then.  A payment
  or refund committed during the poll's call is therefore lost from the balances.
  `lost` records that balances were written over others than those read.
- *References.* A webhook books a payment under its intent.  A poll expands the
  session and books it under the session's id unless an event has named the
  intent before (`Poll`).  `Recorded` looks for an open entry of the
  attempt, or any entry under the reference.
- *Plans.* An attempt carries the quote made when it was started: the total of its
  plan and its first day (`total`, `start` of its row); the plan is made of these
  when it succeeds (`EnsurePlan`), whatever the balance is by then.  The number of
  instalments is that of started Shares of the total; their dates are days of the plan.  If a plan is completed or replaced, the
  next plan of the account uses the same instalment numbers; a job that still
  knows an instalment of the old plan finds it in the new one, if it is there
  (`Planned`).  This is coarser than the code, which has an id for each.
- *Left out.* The refusal of a session that charged another amount than its
  attempt's (`reconcile_attempt_from_stripe`, `handle_stripe_event`: Stripe charges
  what the session asks for); receipts, promises to pay, the amounts of fees, events for a
  setup that failed, several accounts, and the hook that tells the workflow of a
  payment, which is `OnPaymentEvent` in `WorkflowRun`.

### `Delivery`

The messages of one customer on one channel, from the request to send to the
last report of the provider, with the links they carry.

| TLA+ | Code (`communication_service.py` unless named) |
|---|---|
| `comm[c]` | a row of `payflow_communications`: status, idempotency key, counts, timeline (`log`), what was paid through it |
| `seen` | `payflow_communication_events`, with the unique `provider_event_id` |
| `link`, `due` | payment links and those past their expiry |
| `acct` | consent and hold (`optout`), a settled case (`closed`) |
| `RequestSend`, `Transmit`, `FinishSend` | the manual send, the retry and the workflow's send: look-up of the key, gate, `ensure_active_link`; the provider; the commit |
| `Receive`, `ApplyEvent`, `CommitEvents`, `RejectEvents`, `TellWorkflow` | `sendgrid_webhook.py`, `twilio_webhook.py`, `apply_provider_event` event by event, the commit or its unique violation, and the workflow's hook |
| `Report`, `ReceiveUnmatched`, `StopByText`, `Reimport` | the provider reports; an event whose row is not there yet; a STOP; a file import over the consent |
| `Visit`, `FinishVisit` | `record_portal_visit`, the only handler that locks the communication |
| `Checkout`, `FinishCheckout` | what the portal records of a payment: its communication, and `mark_completed` of the links |
| `Revoke`, `FinishRevoke`, `LinkFallsDue` | `payment_link_service.py` |

Faithfulness notes.  Sessions do not flush until they commit
(`autoflush=False`), so what a webhook call does to several events of a batch is
computed in its session and merged at the commit (`Merge`).  A batch holds
events of one message.  A bounce is reported to the staff in the middle of the
batch, and `notify`, if it finds somebody to tell, commits what the session holds
so far: the rest of the batch is then a transaction of its own, and the call is not
answered in between (`PartOfBatch`, or else `WholeBatch`).  The five-minute window in which a request without a key
counts as the same is a choice.  The history variables say which writes were
made over a commit that was not read (`lost.comm`, `lost.link`), which requests
overlapped (`lost.twice`) and which notifications a crash swallowed
(`lost.untold`).  Left out are details that change no status (deferred,
processed), templates, the counter of a link's accesses, and the look-up of the
latest link's communication for a checkout that names none.

### The administrative requests

`Transactions` says what a request or a background task is: a program of
transactions.  Each reads the committed rows, computes the rows it wants, and
commits the difference (new rows, deleted rows, changed columns) at a later
step, unless a unique or foreign key refuses it or the database fails (`Refused`).  Requests that were open
together are recorded in `met`.  A process that dies takes its open transactions
and its background tasks along.

| Module | Code | Actions |
|---|---|---|
| `ClientBook` | `client_service.py` | `SaveClient`, `SavePortfolio`, `EditClient`, `EditPortfolio`, `ActivateClient`, `DeletePortfolio`, `DeleteClient`; the rows of a client file (`ClientFileTaken`) |
| `Suggestion` | `workflow_suggestion/segmenter.py`, `validator.py`, `service.py` | none: `BuildSegments`, `MostSpecific`, `ValidateAll`, `Accepted` are operators |
| `Intake` | `import_job_service.py`, `import_service.py`, `ai_suggest_job_service.py` | `Upload`, `Claim`, `PreviewFile`, `Begin`, `Link`, `Import`, `ImportClients`, `Close`, `Fail`; `Enqueue`, `EnqueueForClient`, `RequeueMissing`, `ClaimSuggestion`, `EvaluateGates`, `Suggest`, `FinishSuggestion`; `Engage` (an account gets a run or a payment) |
| `Access` | `modules/identity/service.py`, `payflow/service.py`, `modules/platform/service.py`, `shared/deletion.py` | `Login`, `Refresh`, `Logout`, `ForgotPassword`, `ResetPassword`, `ChangePassword`, `ActivateAccount`, `Invite`; `CreateUser`, `ChangeRole`, `DeactivateUser`, `ReactivateUser`, `DeleteUser`, `ResendInvitation`, roles; people, products, organizations and entitlements of the platform |

Faithfulness notes.

- A row is a record; its state in `db` is what is committed.  The reads of one
  transaction are one snapshot, which is coarser than READ COMMITTED; its writes
  come a step later, which is where the checks of this code go stale.
- Numbers, codes, names and e-mails are members of small sets; `""` is one that
  is not given.  A look-up that finds duplicates takes an arbitrary one.
- An account shows the columns the segmenter and the gates read (`face`).  A
  flow is its graph with the days of its waits, whole numbers here (the code takes
  hours and minutes as parts of a day); the model's answers are given by the story,
  legal or not.
- A claim carries the type of its job, which the code reads from the row: nothing
  changes it.
- The run of an import is committed before its rows are worked; the accounts of
  the whole file, the suggestion jobs and the end of the run are one commit
  (progress is reported in sessions of its own); the job ends in another.
- A commit that is refused, by a constraint or by the database, rolls back and,
  inside a job, leads to its failure branch (`Failing`, `Finishing`).  The close of
  an import is such a commit: if it is refused, the job is marked failed, although
  its accounts stay.  Nothing that was begun is taken up again after a crash:
  the run stays "processing" and the job "running", as in the code.
- A suggestion job belongs to the request that enqueued it, whose background task
  runs it; no story starts with one under way, since nothing takes it up again
  (`NoneBehind`).
- Left out: designing without a job (`POST /workflows/suggest`), regenerating one
  workflow, the preview of client files, progress, notifications, e-mails, the clients a user is assigned to, profiles, and the
  deny list of access tokens, which adds nothing to the session they name; a commit
  that was made although its caller is told that it failed.


## 3. What is checked

Deadlock is checked for the queue.  It is not for the others: a finished run, a
settled account and a story that is told take no further step.

| Run | States | Question |
|---|---|---|
| `queue` | 647 thousand | one job, two workers, two faults, handlers that raise part way, locks that may be outlived |
| `queue_live` | 742 thousand | two jobs, one worker, one fault: does every job end? |
| `run` | 131 thousand | triggers, waits, messages, conditions, reviews; outside events between executions; one fault: is a run stranded? |
| `run_race` | 1.8 million | payments, imports, reviews and deactivations inside an execution, jobs delivered twice, one fault |
| `run_hold` | 416 thousand | every rule action, reassessment, holds set by a step and lifted by an import, also inside an execution, jobs delivered twice |
| `run_live` | 15 thousand | does every run end? |
| `enroll` | 6.6 million | two worker threads on one account, a strategy and its revision, imports, one fault |
| `enroll_race` | 3.3 million | two requests at once, edits, rejections, a strategy without an entry step, one fault |
| `payments` | 3.3 million | two attempts, a plan of two instalments, two threads; Stripe's events early, late, repeated and reordered |
| `delivery` | 3.7 million | six stories of messages, provider events, visits, checkouts and links on two threads |
| `administration` | 124 thousand | some thirty stories of three requests, some with a crash or a refused commit, ten thousand sets of accounts, every small flow |

**Queue.** `LeaseExclusive`: until a claim outlives the stale window at most one
thread holds a job; reclaim, SKIP LOCKED and unconditional marks together.
`NoRevival`: a done or failed job does not come back, unless its lock was
outlived.  `AttemptBudget`: attempts beyond the
bound are each paid for by a reclaim.  `EffectOnceWithoutFault`: a job's work is
committed once, and once more for each reclaim, each failed mark and each handler
that raised after a commit; nothing else repeats it.  `EventuallyFinished`: every pending job ends.

**Run.** `SendOnce`: a message leaves once, and once more only for an execution
that died or failed after the provider took it.  `NotStranded`: an open run of
an account that is not blocked always has something that will move it.
`TerminalIsFinal`: a finished run stays finished: no late job, decision or event
begins a step of it; its status is written once more only by an execution that was
in flight when it ended, and made Active only by one that had already notified.
`WaitHonored`: a Wait step is closed as elapsed only when its time has come, or
where an import lifted a hold at it (`leapt`).  `ReviewGate`: no step of a run begins
while the review it was paused for is undecided or rejected, as long as only that
review's decision took it out of the pause (`gate`).  These three are checked with
events inside executions, imports, holds and repeated jobs.
`EventuallyEnds`: every run ends, unless a job or a callback was given up.

**Enrollment.** `OneOpenRunPerThread`: two open runs of an account were inserted
by two threads, of which the later one had read the account before the earlier one
committed; one enrollment after the other replaces what it finds.
`StrayRunsExplained`: an open run on an Inactive strategy is about to be closed,
or its hook failed, or an enrollment ran across the hook's read; nothing else
leaves one.  `RivalsSettled`: two strategies for the same accounts are both
Active only while one of them is being activated, or its hook failed.

**Payments.** `KeepsTheBooks`: `PaymentLedger` implements `MoneyBook`, with an
attempt's entries under intent and session as the references of a payment.
`Balanced`: unless somebody wrote balances over others than those he had read, the
account owes what it owed less what the ledger holds; and each Paid instalment has
a booked payment of its own.  By number, not by amount: a payment is cut to what
the account still owes, so the last instalment may be marked Paid by less than
its amount after a part payment on the side.  `ConfirmedIsBooked`: the customer reads "confirmed"
only when Stripe has the money and the ledger the payment.
`ConfirmationSurvives`: a confirmed attempt loses its status only to a job that
read it before.  `ChargedOnce`: sweeps, together or after a crash, take the
money of an instalment once.  `NothingOutstanding`: when Stripe has nothing left
to deliver, every payment and refund is booked, unless an event of it was
answered 200 before the row it needed existed.

**Delivery.** `RowTellsAll`: openings, clicks and timeline of a row are what
happened.  `SentOnce`: two messages answer one request only if the requests
overlapped or a process died after the provider took the first.
`OneUsableLink`: one usable link, none once the case is settled.
`RespectsOptOut`: no message leaves after an opt-out, until an import overwrites
the consent.  `WorkflowTold`: the workflow was told the status the row has, also where half of a
batch was committed first.
`NeverBackwards`: neither a message's status nor an ended link goes back.  Each
of them names in its statement the overlapping or the crash that excuses it.

**Administration.** `DuplicatesExplained`: unless requests overlapped, a number
names one client, or portfolios of one client; and two drafts of one scope come
of one request, or of two that overlapped with each other.  `NothingHalfImported`: no account carries
an import run that has not ended, and no completed job leads to such a run, although
the run, its rows and the close of its job are three commits, of which any may fail.
(That a failed job left nothing is not so: if only its close failed it left all.)  `PreviewHonest`: the preview of a file counts what its
upload would.  `HistoryKept`: no deletion takes an account with runs or
payments.  `DraftsFit`: segments are few and take each eligible account once,
the one it is enrolled by; every way through a saved draft ends, comes to no
step twice, waits between messages and keeps the weekly limit.
`AccessExplained`: one live session, one live refresh token of a session, a link
used once, unless requests overlapped.  `OldPasswordOut`: a reset ends every
session opened with another password.  `AdminKept`: a deletion does not take the
last Operations Admin, unless it overlapped with another request.

### Bounds

- One job with two workers shows every interleaving of reclaim, claim and mark:
  no action relates two jobs except the batch and the cancellation, which
  `queue_live` has with two jobs.  Two attempts make "retry" and "give up"
  distinct; a window of one tick makes "held too long" reachable; three claims
  and two faults give a crash of a reclaimed job.  Workers are interchangeable
  and the symmetry is sound: no liveness property is checked with it.
- The graphs (`MCWorkflowRun.tla`) hold every kind of step, a Wait before a
  Condition, a message after a review, two ways to end, an id the strategy lacks
  and a Condition without a branch.  Two or three outside events suffice to set
  a state and to lift it; two reviews, to have one that is not the run's.
- `MaxExecs` is one in the runs: a second execution of a run at the same time is
  left to the proofs, which allow any number (but for `MessageLeavesOnce`).  Jobs
  delivered twice and events inside an execution are in `run_race` and `run_hold`.
- Two strategies are enough for one to supersede the other, by revision or by
  segment; two requests, for every pair of hooks; two threads and two enrollments
  that insert runs, for one to replace the other's or to miss it.  `enroll_race` has one account and one
  such enrollment, since its properties relate requests.  Strategies are only
  interchangeable, and permuted, where none is a revision.
- Two attempts and two threads let every pair of handlers overlap on one attempt
  and on two.  A balance of two and a share of one give a plan of two
  instalments; refunds of one and of two are a part and the whole.  Five clients
  differ in what they allow, one of them with a running plan and nothing else;
  where the options or the plan already give many behaviours, `MaxTrouble` allows
  no crash, elsewhere one.
- Two messages, two links and two threads let a request meet its repetition, and
  an event a visit.  The six stories share out what one message or two, events,
  visits and payments cost, so that the handlers that write one row meet.
- A story of the administration has two or three requests, chosen so that each
  check meets the write it guards against, and at most one crash or refused commit
  (`faults` counts both).  Segments of at
  least two accounts, at most two of them, four accounts of ten kinds make the
  merging and the raising of the least size happen; three or four steps, two
  messages and one a week make each limit of a draft the one that refuses.
- The numbers that are bounds and not code are marked `bound:` at their CONSTANT.

### Fairness

Queue: every worker's sweep takes both its steps (the loop in `run_worker`
catches and logs any error and goes on), the pool serves its queue, a stopped
worker is started again, time passes.  Weak fairness suffices: none of these is
disabled again and again.  Nothing is assumed of producers, cancellations or
faults.

Run: the worker delivers due jobs and threads run to their end (that is what
`EventuallyFinished` shows of the queue), a Wait's time comes, supervisors
answer, a committed decision's callback is called.  Nothing is assumed of
outside events, and faults may take work away: hence "unless given up".

### Where the code and its own words differ

The run `run_release` states what the code says of itself, and TLC finds it
violated: "Hold / block released — resume" (`:2486`).  The step that met the hold
is recorded as `blocked`, the resumed job is a duplicate of it, and the run is
Active for ever.  The passing run `run_hold` has the cause and leaves the
property out; `run` has the property and leaves the cause out.

Other words of the code that the models show to be narrower than they read, with
no run of their own:

| The text | What happens |
|---|---|
| `worker/claim.py:90` "Uses SKIP LOCKED so multiple worker processes can run safely." | a batch of 50 waits for 8 threads with its locks ageing; after 300 s another worker reclaims and runs the same job (`Overrun` in `WorkflowQueue`) |
| `review_service.py:1811` "True when mandatory review approval is outstanding for the case." | a case status change by an import resumes a run that is paused for an undecided review (`CaseStatusChanged` in `WorkflowRun`, where `gate` becomes `Strayed`) |
| `:516` "accounts already running are skipped inside `enroll_strategy`" | only runs of the same strategy are: after an import the account moves to the Active strategy enrolled last |
| `communication_service.py:1315` "Account-level block so future email eligibility fails." | the next import of the account overwrites the consent (`import_service.py:1911`; `Reimport` in `Delivery`) |
| `payflow/crm_catalog.py:664` "Masters and sub-clients are matched on this identifier." | an edit may give a portfolio without a number the number of another portfolio of the same client: `_assert_sub_import_identity` looks for other parents only (`client_service.py:2796`; `Siblings` in `Administration`). A file then finds two rows for one identifier |
| `infrastructure/database/models/__init__.py:1369` "Single active login session per user" | two logins at once leave two live sessions; two refreshes at once, two live tokens (`met` in `AccessExplained`) |

The models reach more than these.  What a property excuses, or a run leaves out,
and what the code does there:

| Property | Excuse or change | What happens |
|---|---|---|
| `TerminalIsFinal` | an execution in flight | an execution that read the run before a deactivation's cancellation writes its own status over Cancelled (`on_strategy_deactivated`, "stop open runs") |
| `WaitHonored` | `leapt` | a case status that an import releases resumes past the Wait at once (`:2596`, "Timed Wait steps must honor wait_until") |
| `ReviewGate` | `gate = Strayed` | an import resumes a run that is paused for a review; an approval delivered again resumes the next pause |
| `NotStranded` | `Rules = {"Prevent Communication"}` in `run` | a crash after the notification of a prevented message leaves a job that is skipped as a duplicate, and no next job |
| `NotStranded` | a hold, in `run_release` | above |
| `OneOpenRunPerThread` | two threads | two enroll jobs on two threads both see no run and both insert one |
| `EffectOnceWithoutFault` | `torn` | an enrollment whose log line fails, or a step that fails after its notification, is retried with its work committed |
| `NothingHalfImported` | a failed job | the close of an import is refused: the job is failed, its accounts stay, its run is completed |

Three further facts of the enrollment model have no property, because no
weaker form of what the text promises holds of the code: an enrollment that read
Active commits its runs after a deactivation cancelled the ones there were (this
is what `overlap` in `StrayRunsExplained` stands for); two strategies of one segment
activated together may each retire the other, so that none is Active; an edit
between an activation's read and its commit is made Active unreviewed.

Of the payments: the account is read without a lock, and by a poll before it calls
Stripe, so that two payments, or a payment and a refund, may lose one of their
effects on the balance (`lost`); a
refund event that comes before the payment is booked, or of a payment a poll
booked under its session, is answered 200 and never booked (`missed`, and the
case of `NothingOutstanding` for entries under the intent); two deliveries of one
refund at once are booked twice; a slow poll may book a second entry after the
first was refunded; an auto-charge that crashed between Stripe and its commit is
refused when the sweep repeats it, and the instalment is marked Failed although
its money was taken, since the event of that charge finds no attempt.

Of the administration: an import that fails or dies leaves its run
"processing", a suggestion job that dies stays "running" and keeps its scope
from another; the deletion of a client whose accounts have history always fails;
deactivating a user leaves his sessions in the table, a changed password keeps
them; nothing keeps a role change from taking the last administrator's role.


## 4. What is proved

All proofs are for every value of the CONSTANTS that satisfies the named
assumption of the module (`QueueAssumption`, `RunAssumption`,
`EnrollmentAssumption`, `PaymentAssumption`, `DeliveryAssumption`,
`AdministrationAssumption`), and where stated one more.  What the assumptions
say is that a constant has its type; `AdministrationAssumption` says besides what
a behaviour starts with (below).  TLC evaluates them on every run.

### Queue (`WorkflowQueueProofs`)

- `TypeCorrect`.  The type invariant is inductive.
- `LeaseIsExclusive`.  `LeaseExclusive` alone is not inductive: a claim may only
  be made of a pending row, and a row must not be pending while a thread holds
  it.  `ClaimShieldsRow` adds that a job that is held, and was never outlived, is
  running or cancelled, and that a running row's lock is inside the window, so
  that claim and reclaim both pass it by.
- `NeverRevived` follows step by step from the same invariant: what would write
  `pending` over `done` is a reclaim (only of running rows) or the mark of a
  second thread (of which there is none).
- `AttemptsWithinBudget`.  `PendingHasBudget` adds that a pending row still has
  an attempt to spend: the mark that puts a row back looks at the bound, the reclaim
  pays for itself.
- `EffectsBounded`.  `Allowance`: what the attempts have committed, the claims that
  have not committed yet (`Open`), and the row's own chance of being claimed share
  one allowance, which only a reclaim, a failed mark or a handler that raises after
  a commit enlarges (`Causes`).  It needs the cardinality of the set of claims, and
  lemmas on how a step changes it.

### Run (`WorkflowRunProofs`, `WorkflowRunMoveProofs`)

- `TypeCorrect`, for every graph and every set of rules.
- `FinishedStaysFinished`, without a further assumption: any number of executions
  at once, events inside them, jobs delivered again.  `HolderWaits`: an execution
  that holds the lock of the run row is the only one, and the run is Waiting until it
  commits, so no finished run is locked.  What an execution writes over an ended run it
  has in hand from before (`Written`); one that had not notified writes only what it
  changed, hence never Active.
- `MessageLeavesOnce`, assuming one execution at a time, with outside events
  inside it and jobs delivered any number of times.  `SendAccounted` relates what
  left to what the step rows say and to what is in flight; `InFlightNotDone`
  keeps a finished step from being executed again.  With two threads the theorem
  does not hold: a duplicate that begins between the notification's commit and
  the last one sends again.
- `WaitsKeepTheirTime`, without a further assumption.  `WaitInv`: whatever could
  begin the step after a Wait that alone leads to it, and whose time has not come, is
  the delayed job that Wait enqueued; no execution, orphan or current step is past it,
  and no resume sets out from such a Wait (`Ticking`).  Two paths that join after a
  Wait close it early (TLC shows it), hence `OnlyWay` in the property, and so does the
  case status change of an import at the Wait, hence `leapt`.
- `ReviewsGateTheRun`, without a further assumption: all rules and holds, imports,
  jobs delivered again, several executions.  `GateInv`: while the review of the gate
  is not approved the run is not Active or Waiting (`Gated`); the resume an approval
  leaves is the only one and stands for the very review of the gate (`Resumes`).  What
  breaks either is what makes `gate` be `Strayed`: an approval delivered again that
  resumes the next pause, a resume left over from a hold, an import's resume, an
  execution that writes its status over the pause.

That no run is stranded (`NotStranded`) is only model-checked.  It does not hold in
general: a loop back to a finished step is skipped as a duplicate and nothing
follows; a step without a next one leaves the run Active with no job; and there are
the crash after a "Prevent Communication" rule and the release of a hold (end of
section 3).

### Enrollment (`WorkflowEnrollmentProofs`)

- `TypeCorrect`.
- `OneRunPerThread`, for any number of threads.  `Replaces`: an enrollment that will
  add a run for an account will also close every run the account has open, but for
  those that other threads committed since it read the account.  With `ReadsOnce` (it
  reads an account once) and `BornBefore` (run ids grow) a second run has the
  explanation the property names.
- `StrayRunsAccounted`, for any number of threads.  `RunsNoticed` follows a run
  from the hook that reads it to the commit that closes it; `EnrollmentNoticed`
  says that a run which is only about to be inserted on such a strategy has been
  recorded in `overlap`; `InactiveHooked`, that nobody writes Inactive without
  calling the hook next.
- `RivalsAreSettled`, for any number of requests; it needs that `Compatible` is
  symmetric, as `_segment_compatible` is.  `RivalsNoticed` names for every pair
  of Active rivals the request that will retire one: it has not read yet, or has
  read the other as Active, or will read it again.

### Payments (`PaymentLedgerProofs`)

For any number of attempts and threads, any balance, share and set of options.
One inductive invariant carries all of it, `IInv`: the types, what each thread
holds (`ThreadsOK`), what each attempt has (`RowsOK`), and that the instalments
of a plan lie within its total (`Scheduled`, which makes an instalment's amount
a natural number).  The properties alone are not inductive, since what a job
commits depends on what it found some steps before:

- `TypeCorrect`.
- `ConfirmedBooked`.  `Grounded`: what a job found at Stripe is still so; money
  that was captured stays captured, and a refund is closed, not removed.
- `InstalmentChargedOnce`.  `KeyKept`: a charge that Stripe accepted is the one
  its instalment's idempotency key was first used for; a key is never used for a
  second (`CallStripe`).  `OwnRow` gives each charging thread an attempt nobody
  else works on.
- `NothingLost`.  `PaymentKnown`, `RefundKnown`: a payment or a refund is booked,
  or its event is still to come, or was answered too early; an event leaves only
  when its job has committed (`Answers`).
- `ConfirmationKept`.  `ReadBefore`: a job that would take a confirmation back
  read the attempt before it was given.
- `BooksBalanced`.  Needs a second invariant, `BooksInv`, over the sums.  A job that
  applies a payment finds no entry under its reference, and one that books a refund
  of an attempt nobody wrote since finds no refund (`BookJob`); a refund is no larger
  than its payment, and what an adjustment gave back is a refund's (`BookRow`).  The
  balances written are those read, changed by the amount; if they were no longer the
  committed ones, which a poll's may not be, `lost` says so.  A sum over attempts is
  the number of units in them (`Total`, the cardinality of a disjoint union), so that
  one more amount is one more finite set and its laws need no induction over the
  attempts.  The set of attempts is assumed finite.
- `Refinement`.  The initial states map to that of `MoneyBook`, and every step to
  a capture, a refund, an entry, a closing, or a stutter.  `Applies` (one job
  applies a payment, while the lock is held, and has found no open entry) and
  `OneEntry` are what the entering step needs.

### Messages and links (`DeliveryProofs`)

For any number of messages, links and threads, and any story; one assumption
more, `IdleAssumption`: the value of a thread that serves nothing is not a job.
All seven properties that `delivery` checks are proved.  The invariant is built
in layers, each proved with those before it:

- `Typed`: the types, and that a job applies reported events of its own message.
  From it `TypeCorrect`.
- `LeftAlone`: once the customer asked, the account is blocked, and whoever read
  the gate before is marked late, unless an import overwrote the consent.  From
  it `StopHonoured`.
- `There`: a job stands on a committed row, which never disappears, and a send on
  one of its own that is not.  With `Answered` (nothing answers the request of a
  send that looked for its key, unless somebody did since, and then the send is
  marked) it gives `OneMessagePerRequest`.
- `RowsTell`: what a job holds of the row.  Unless marked, `was` is the row
  (`ReadsRow`); of a visit it always is, because no other visits the row
  (`Alone`) and those that write wait for the lock.  `Forward`, `Counts` and
  `Applies` say what `now` adds to `was`: as many openings as events, one click,
  a status no lower.  The unique event id keeps those events out of the table
  until the commit, so the counts add up.  `Informed` adds to `WorkflowTold` the
  thread that is about to tell.  From it `RowsAreTrue`, `WorkflowHears` and the
  first half of `NothingGoesBack`.
- `LinksTell`: unless marked, a job knows the links as they are (`ReadsLinks`);
  the link a send hands out is active, or new, unknown to any other, with all
  active ones past their expiry (`HandsOut`).  What the four handlers that write
  links have in common is `LinkWrite`.  From it `OneLink` and the other half.

### The administrative requests (`AdministrationProofs`, `AdministrationIntakeProofs`)

For any number of requests, each with any program of transactions, from any
tables; the process may die, and the database refuse a commit, at any step.  `AdministrationAssumption` (its parts
are `Typed`, `Orderly`, `Whole`, `OneEach`, `Program`, `NoneOpen`, `NoneBehind`) says
that the tables a behaviour starts with obey their constraints and have each
number in one place, that nobody who wrote them is still at work, that
requests are those the routes accept, that one request sets one password at
most, that no earlier import is half done, and that the transactions which follow
an upload or a suggestion job come of one, never by themselves.  Of what comes from
outside it says that no account is classified under "all" (the segmenter's word for
a field it does not look at; stages and contact states come from fixed lists) and
that a flow the model answers with has finitely many steps, each of a whole number
of days (`Countable`).  All nine properties that `administration` checks are proved.
The first three layers are in `AdministrationProofs`, the others in
`AdministrationIntakeProofs`:

- *A session.*  The rows a handler wants are a session (`Session`): well shaped,
  new ones under the ids the request drew, the others changed in the columns that
  may change.  Each handler makes one, and takes care of what it can see
  (`Careful`): it adds no second live session, link or permission to those it
  found, leaves an administrator, ends the sessions of a user whose password it
  resets.  `StepAdvances` says so of all of them; the rows of files and the drafts
  of a suggestion need an induction over the list of rows, which `SetInduction`
  provides for a set of numbers.
- *What is open* (`Inv`).  A flush writes the changed columns onto rows that
  others changed since they were read, so what a request saw says nothing of
  what it leaves.  `Shaped` is what survives: new ids that nobody else draws,
  values the columns take whatever else the row holds, and no deletion of
  something with a history.  `UsesMine` ties the use of a link to the link.
  `AdminSafe` keeps an administrator that the request saw, until another overlaps.
  From `Inv`: `RowsKeepTheirShape`, `HistoryStays` (the foreign keys refuse what
  the look-up missed) and `AnAdminStays`.
- *What two leave together* (`AccessInv`).  It holds of the committed rows and of
  what each open transaction would leave (`After`) if it committed now.  A commit
  changes what every other open one would leave: each row of that is new and of
  one of the two, or one that either would have left (`Mixed`), and the two
  overlapped.  `SetsMine`, `EndsMine` and `SetOnce` add that a password is set by
  the request that records it, last of all it does, with the sessions it left out
  opened meanwhile.  From it `OneOfEach` and `OldPasswordsOut`.
- *What comes of an upload* (`ImportsInv`).  An upload is a chain of transactions
  with commits between them: the job is recorded, claimed, the run recorded, the job
  told of it, the accounts written, the job closed.  `NothingHalfImported` alone is
  not inductive: that a run in progress has no accounts yet must be known of the run
  that the import is about to write into.  `Due` says what a request finds when it
  comes to an operation (its own job, that has not failed, a run nobody else's job
  leads to, without accounts); `Writes` what an open transaction may write to
  jobs, runs and accounts; `Leads` and `Falls` what it hands to the next if it
  commits and if it fails, by a constraint or by the database; a failed close leads to the
  job's mark, with the accounts in place.  `Moves` is what every commit keeps of all that, so that
  other requests' commits in between do no harm.  Each handler of an upload is
  shown to obey it (`UploadHandled` to `FailHandled`); the others stay away from
  jobs and runs (`AsideHandled`).  From it `ImportsStayWhole` and `NoHalfImports`.
- *Numbers* (`NumbersInv`).  While no two transactions have overlapped, each number
  is in one place on the rows and on those that the open transaction would leave.
  The handlers are shown to find, before they write a number, that it is free for
  what they write it to (`Vacant`), each by tests of its own: those of a request
  look at all rows, those of a client file (`MasterRow`, `SubRow`, `SimpleRow`) at
  the rows as the file has left them so far, so that the proof is an induction over
  the rows of the file.  A session that starts from such rows ends with such
  (`Lawful`), and a commit with nothing in between leaves what the session held
  (`NumbersStayUnique`).  The proof is what showed that `update_portfolio` allows
  two portfolios of a client one number; the property says so since.
- *Drafts* (`DraftsInv`).  Of the drafts alone nothing follows from step to step: a
  job that is claimed may still make some, for a scope that nobody else must serve
  until then.  `Explained` therefore ranges over drafts and over the jobs that
  block their scope (`Bears`), each with the request behind it (`Maker`), on the
  committed rows and on what each open transaction would leave.  `enqueue` adds a
  job only where no draft or job serves the scope (`QueuedBy`); `suggest` adds drafts
  for the scope of a job that still blocks it, and of its own request (`Coming`,
  `Ready`: what a program is about to do, its next operation and those behind it).
  When two open transactions that
  overlapped commit one after the other, each draft is of one of the two, or both
  would have left it (`MixedDraft`).  From it `DraftsStayRightful` and, with
  `NumbersStayUnique`, `NoUnexplainedDuplicates`.

`PreviewsAreHonest` is about two computations, not about steps: the preview and
the upload of a file go abreast, row by row (`PreviewRow`, `AccountRow`).  The
upload has changed the tables by then, but not the clients and portfolios
(`SameBook`), so a row resolves to the same client and key; and the accounts
whose keys were not read yet are those that were found (`OthersKept`), so that
what is looked up for a row that is not refused is there, or not there, and
unchanged, or not, in both.

`DraftsAlwaysFit` is about two computations too, and assumes that `MaxSegments` is no
less than the number of situations (`config.py`: eight, and three; were it less, no
merging could make the segments fit).  The run takes two, with at most two
situations in a scope, so that the least size has to grow.

- *The checks of a flow* (`ValidFits`).  A flow that passes `ValidateAll` does on every
  way from its entry what the checks are for: it ends at an end step, comes to no step
  twice, waits between two messages and keeps the weekly limit.  The searches are
  recursive functions, whose recursion need not end; that they obey it all the same is
  shown first (`LoopSearched`, `CrowdSearched`), from the least set closed under the search
  (`Searched`).  Then each is followed along a way, position by position: a
  step that came twice would be found (`NoReturn`), the search that stops at a
  Wait would come to the second message (`WaitBetween`), and the messages that the
  search counts at a step are those sent so far, each on its day (`CountsOn`,
  `NotCrowded`).
- *The segments* (`SegmentsAlwaysFit`).  An account is carried by a key that is a prefix
  of its label, filled up with "all".  Each pass keeps this, and widens
  the keys of those in small groups all alike (`Merging`, `PassedOn`).  The keys that fit an
  account are prefixes of its label (`FittingIsPrefix`), and its own is the longest of
  those (`OwnSegment`), so it is enrolled by the segment it was counted in.  The least
  size grows past the number of accounts (`SizesGrow`), after which there is one
  segment for each situation (`FewSegments`).

### Only model-checked

*Liveness* (`EventuallyFinished`, `EventuallyEnds`): the prover does not reason about
fairness or ENABLED.  `NotStranded`: see above.


## 5. What is not modelled, and why

- *The text of a strategy*: edits, versions, origins, the messages the AI writes.
  That an edit may fall between an activation's read and its commit is in
  `WorkflowEnrollment`; what is then Active is text.
- *The rows of reviews*: `create_review` locks the account and updates a review,
  `approve` locks a review and then the account; they may deadlock
  (`review_service.py:1525`), and Postgres then aborts one of them.  `WorkflowRun`
  creates and decides a review in one step each and has neither the locks nor the
  versions, nor assignment and permissions.
- *Dedupe of notifications and operational exceptions*: a look-up and an insert
  without a constraint, or with one; what a caller sees of it, that `notify`
  commits, is in `WorkflowRun`, `WorkflowEnrollment` and `Delivery`.
- *A run on the queue's rows*: `WorkflowRun` has jobs of its own with the
  deliveries `WorkflowQueue` can produce (pending, orphaned, repeated); the two
  are not composed, nor is `SendOnce` analysed for two threads on one run beyond
  the case given in section 4.
- *Several accounts under one payment*, and the promises to pay.
- *Parsing of workbooks, matching of rule conditions, wording of messages,
  recommendations and prompts, learning from edits*: data, of which the models
  keep the outcome as a choice.
- *Dashboards, exports, geography, account views*: reads and formatting.
  *Integrations*: connection settings and test calls.  *Routes and schemas*: each
  handler calls one service, which is what the actions model.  *Configuration,
  seeding, schema repair, the CRM catalogue*: constants, or run once at start-up.
