---------------------------- MODULE PaymentLedger ----------------------------
(***************************************************************************)
(* The payments of one account: attempts started on the portal or by the   *)
(* worker's sweep of due instalments, the events Stripe sends about them,  *)
(* the ledger of transactions, the account's balances and its payment      *)
(* plan (payment_portal_service.py, payment_outcome_service.py,            *)
(* plan_auto_charge_service.py, stripe_webhook.py).                        *)
(*                                                                         *)
(* A request, a webhook call and a sweep are each a thread with a database *)
(* session of its own: what it reads in one step it may write in a later   *)
(* one, over whatever was committed in between.  Only apply_succeeded      *)
(* locks a row, that of its attempt.                                       *)
(***************************************************************************)
EXTENDS Integers, FiniteSets

Option == {"pay_in_full", "partial", "payment_plan", "pay_next"}

CONSTANTS
    Attempts,    \* rows of payflow_payment_attempts
    Threads,     \* concurrent requests, webhook calls and sweeps
    Balance,     \* the account's outstanding balance when the story starts
    Share,       \* installment_amount of the plan the customer chooses
    Partials,    \* amounts a customer types for a partial payment
    Settings,    \* sets of options a client may allow
    Days,        \* bound: how many due dates pass
    MaxTrouble,  \* bound: of trouble, by the options the client allows
    Idle         \* a thread that serves nothing

ASSUME PaymentAssumption ==
    /\ IsFiniteSet(Attempts) /\ Idle \notin Attempts
    /\ Balance \in Nat \ {0}
    /\ Share \in Nat \ {0}
    /\ Partials \subseteq Nat \ {0}
    /\ \A o \in Settings : o \subseteq Option
    /\ Days \in Nat
    /\ MaxTrouble \in [Settings -> Nat]

VARIABLES
    acct,        \* outstanding_balance, recovered_balance, collection_status
    offers,      \* the options the client's payment_settings allow
    att,         \* the attempts, status "none" for a row that is not committed
    txn,         \* an attempt's payment transactions by the reference they were booked
                 \* under, and how often a refund was booked against them
    plan, inst,  \* the payment plan and its instalments
    day,         \* due dates that have come
    stripe,      \* what Stripe holds of an attempt's session or intent
    key,         \* the attempt an instalment's idempotency key was first used for
    refund,      \* the amount Stripe gave back of an attempt
    events,      \* webhook events Stripe still delivers
    trouble,     \* how often a checkout went wrong, a process died or an event came again
    th,          \* what each thread is doing
    \* history
    lost,        \* balances were computed from an attempt or an account since written
    missed       \* attempts an event of which was answered before what it needs was there

account == <<acct, lost>>
plans == <<plan, inst>>
provider == <<stripe, key, refund>>
vars == <<acct, offers, att, txn, plan, inst, day, stripe, key, refund, events,
          trouble, th, lost, missed>>

Least(x, y) == IF x < y THEN x ELSE y
\* mutant: the remaining balance is not clamped
Unclamped(x) == x
Part(x) == IF x > 0 THEN x ELSE 0

Unpaid == {"Pending", "Overdue", "Failed"}
Running == {"Active", "Overdue"}
Slots == 1 .. Balance

NoRow == [status |-> "none", option |-> "partial", amount |-> 0, seq |-> 0, pi |-> FALSE,
          total |-> 0, start |-> 0]
NoTxn == [pi |-> "none", session |-> "none", adj |-> 0]
NoPlan == [status |-> "none", total |-> 0, start |-> 0, method |-> FALSE, auto |-> FALSE,
           failures |-> 0, paid |-> 0]

\* A plan set up by a checkout that saved the payment method and took no money.
StandingPlan == [status |-> "Active", total |-> Balance, start |-> 0, method |-> TRUE, auto |-> TRUE,
                 failures |-> 0, paid |-> 0]
Schedule(i, balance) == IF (i - 1) * Share < balance THEN "Pending" ELSE "none"

Reference == {"pi", "session"}
Booked(a) == \E ref \in Reference : txn[a][ref] # "none"
Rows(a) == Cardinality({ref \in Reference : txn[a][ref] # "none"})

Init ==
    /\ offers \in Settings
    /\ att = [a \in Attempts |-> NoRow]
    /\ txn = [a \in Attempts |-> NoTxn]
    /\ \/ /\ offers # {}
          /\ acct = [out |-> Balance, rec |-> 0, status |-> "Active"]
          /\ plan = NoPlan
          /\ inst = [i \in Slots |-> "none"]
          /\ day = 0
       \/ /\ offers = {}            \* the client allows nothing new any more
          /\ acct = [out |-> Balance, rec |-> 0, status |-> "Payment Plan"]
          /\ plan = StandingPlan
          /\ inst = [i \in Slots |-> Schedule(i, Balance)]
          /\ day = Days             \* and no sweep has run since it started
    /\ stripe = [a \in Attempts |-> "none"]
    /\ key = [i \in Slots |-> Idle]
    /\ refund = [a \in Attempts |-> 0]
    /\ events = {}
    /\ trouble = 0
    /\ th = [t \in Threads |-> Idle]
    /\ lost = FALSE
    /\ missed = {}

(***************************************************************************)
(* The provider and the customer at its checkout page: external.  A        *)
(* declined card leaves the session open for another try; a bank debit     *)
(* completes the session first and settles later.                          *)
(***************************************************************************)
GoWrong == trouble < MaxTrouble[offers] /\ trouble' = trouble + 1

Announce(type, a) == events' = events \union {[type |-> type, a |-> a]}

Settle(a) ==
    /\ stripe[a] \in {"open", "processing"}
    /\ stripe' = [stripe EXCEPT ![a] = "paid"]
    /\ Announce("paid", a)

Debit(a) ==
    /\ stripe[a] = "open"
    /\ stripe' = [stripe EXCEPT ![a] = "processing"]
    /\ Announce("pending", a)

Decline(a) ==
    /\ stripe[a] \in {"open", "processing"}
    /\ stripe' = [stripe EXCEPT ![a] = IF @ = "open" THEN "open" ELSE "failed"]
    /\ Announce("failed", a)

LapseSession(a) ==
    /\ stripe[a] = "open"
    /\ stripe' = [stripe EXCEPT ![a] = "expired"]
    /\ Announce("expired", a)

IssueRefund(a) ==
    /\ stripe[a] = "paid" /\ refund[a] = 0
    /\ \E amount \in 1 .. att[a].amount : refund' = [refund EXCEPT ![a] = amount]
    /\ Announce("refund", a)

Provider(a) ==
    /\ \/ Settle(a) /\ UNCHANGED <<refund, trouble>>
       \/ (Debit(a) \/ Decline(a) \/ LapseSession(a)) /\ GoWrong /\ UNCHANGED refund
       \/ IssueRefund(a) /\ UNCHANGED <<stripe, trouble>>
    /\ UNCHANGED <<account, offers, att, txn, plans, day, key, th, missed>>

(***************************************************************************)
(* Threads.  What a session read of its attempt decides which job it does; *)
(* the job keeps what it read of the account (was), and the model notes    *)
(* whether the attempt was written since (stale).                          *)
(***************************************************************************)
Job(op, a) ==
    [op |-> op, a |-> a, ev |-> "none", ref |-> "pi",
     amount |-> 0, seq |-> 0, due |-> {},
     was |-> [out |-> 0, rec |-> 0, status |-> "Active"], stale |-> FALSE]

Fresh(a) == att[a] = NoRow /\ stripe[a] = "none"
              /\ \A t \in Threads : th[t] # Idle => th[t].a # a

Busy(t, op) == th[t] # Idle /\ th[t].op = op
Start(t, job) == th[t] = Idle /\ th' = [th EXCEPT ![t] = job]
End(t) == th' = [th EXCEPT ![t] = Idle]

\* Ends a job whose commit supersedes what others read.
Of(a) == {u \in Threads : th[u] # Idle /\ th[u].a = a}
EndOver(t, others) ==
    th' = [u \in Threads |-> IF u = t THEN Idle
                              ELSE IF u \in others THEN [th[u] EXCEPT !.stale = TRUE] ELSE th[u]]

\* The webhook answers 200; Stripe may deliver the event again all the same.
Answer(type, a) ==
    \/ events' = events \ {[type |-> type, a |-> a]} /\ UNCHANGED trouble
    \/ type # "none" /\ GoWrong /\ UNCHANGED events

Locked(a) == \E t \in Threads : Busy(t, "apply") /\ th[t].a = a

\* Only the columns a session changed are written.
Column(read, new, current) == IF new = read THEN current ELSE new

WriteAccount(t, new) ==
    LET was == th[t].was IN
    /\ acct' = [out    |-> Column(was.out, new.out, acct.out),
                rec    |-> Column(was.rec, new.rec, acct.rec),
                status |-> Column(was.status, new.status, acct.status)]
    /\ lost' = (lost \/ th[t].stale \/ was.out # acct.out \/ was.rec # acct.rec)
    /\ EndOver(t, Of(th[t].a))

(***************************************************************************)
(* The portal starts an attempt.  The row is committed after Stripe made   *)
(* the session, and nothing the request read is written back, so the       *)
(* request is one step: nobody can pay before the commit.                  *)
(***************************************************************************)
Settled == acct.status = "Resolved"

NextUnpaid(f) == {i \in Slots : f[i] \in Unpaid /\ \A j \in 1 .. i - 1 : f[j] \notin Unpaid}

InstalmentAmount(i) == Least(Share, plan.total - (i - 1) * Share)

\* _build_options: a partial payment needs a balance above the least amount.
Offered(option) ==
    CASE option = "pay_next" -> plan.status \in Running /\ NextUnpaid(inst) # {}
      [] option = "partial"  -> option \in offers /\ \E x \in Partials : x < acct.out
      [] OTHER               -> option \in offers

\* _resolve_amount; a plan that starts later charges nothing now.
Amounts(option) ==
    CASE option = "pay_in_full"  -> {acct.out}
      [] option = "partial"      -> {x \in Partials : x <= acct.out}
      [] option = "payment_plan" -> IF plan.status = "Completed" THEN {} ELSE {0, Least(Share, acct.out)}
      [] option = "pay_next"     -> {Least(InstalmentAmount(i), acct.out) : i \in NextUnpaid(inst)}

\* An open checkout of the same option and amount is used again.
Reusable(option, amount) ==
    \E b \in Attempts : /\ att[b].status = "Processing" /\ att[b].seq = 0
                        /\ att[b].option = option /\ att[b].amount = amount

\* The attempt for a plan keeps the quote made with it: total and first date.
NewAttempt(a, option, amount, status) ==
    LET quoted == option = "payment_plan" IN
    att' = [att EXCEPT ![a] =
              [NoRow EXCEPT !.status = status, !.option = option, !.amount = amount,
                            !.total = IF quoted THEN acct.out ELSE 0,
                            !.start = CASE ~quoted   -> 0
                                        [] amount > 0 -> day
                                        [] OTHER      -> day + 1]]

\* create_checkout_session makes the session, or Stripe refuses it.
CreateCheckout(a, option, amount) ==
    \/ /\ NewAttempt(a, option, amount, "Processing")
       /\ stripe' = [stripe EXCEPT ![a] = "open"]
       /\ UNCHANGED trouble
    \/ /\ NewAttempt(a, option, amount, "Failed")
       /\ GoWrong
       /\ UNCHANGED stripe

\* A job may still know an instalment of a plan before this one.
Planned(i) == inst[i] # "none"

\* refresh_overdue_plans: instalments whose date has passed without a payment.
Missed == {i \in Slots : inst[i] = "Pending" /\ plan.start + i - 1 < day}

MarkOverdue(due) ==
    LET late == {i \in due : Planned(i)} IN
    /\ inst' = [i \in Slots |-> IF i \in late THEN "Overdue" ELSE inst[i]]
    /\ plan' = [plan EXCEPT !.status = IF late # {} THEN "Overdue" ELSE @]

\* The options are built over refreshed plans, and the refresh is committed too.
Initiate(a, option) ==
    /\ ~Settled /\ acct.out > 0
    /\ Offered(option) /\ Fresh(a)
    /\ \E amount \in Amounts(option) :
        ~Reusable(option, amount) /\ CreateCheckout(a, option, amount)
    /\ MarkOverdue(Missed)
    /\ UNCHANGED <<account, offers, txn, day, key, refund, events, th, missed>>

(***************************************************************************)
(* handle_stripe_event: an event is matched to its attempt and the status  *)
(* read then decides what to do.  An event without a row is answered 200.  *)
(***************************************************************************)
ReceiveUnmatched(e) ==
    /\ e.type # "refund" /\ att[e.a].status = "none"
    /\ events' = events \ {e}
    /\ missed' = missed \union {e.a}
    /\ UNCHANGED <<account, offers, att, txn, plans, day, provider, trouble, th>>

\* mutants: a late failure overwrites a success; a closed attempt ignores its payment
OldNewsForgets(e) ==
    CASE e.type = "failed" -> att[e.a].status = "Failed"
      [] e.type = "refund" -> txn[e.a].pi = "none" \/ txn[e.a].adj > 0
      [] OTHER             -> att[e.a].status = "Succeeded"
OldNewsWhenClosed(e) ==
    CASE e.type = "failed" -> att[e.a].status \in {"Succeeded", "Failed"}
      [] e.type = "refund" -> txn[e.a].pi = "none" \/ txn[e.a].adj > 0
      [] OTHER             -> att[e.a].status # "Processing"

\* The attempt's status makes the event old news.
OldNews(e) ==
    LET status == att[e.a].status IN
    CASE e.type = "failed" -> status \in {"Succeeded", "Failed"}
      [] e.type = "refund" -> txn[e.a].pi = "none" \/ txn[e.a].adj > 0
      [] OTHER             -> status = "Succeeded"

\* refund.created: a refund that is booked already, or whose payment is not in
\* the ledger under the intent's id, is answered 200 as well.
ReceiveOld(e) ==
    /\ OldNews(e)
    /\ e.type = "refund" \/ att[e.a].status # "none"
    /\ events' = events \ {e}
    /\ missed' = IF e.type = "refund" /\ ~Booked(e.a) THEN missed \union {e.a} ELSE missed
    /\ UNCHANGED <<account, offers, att, txn, plans, day, provider, th, trouble>>

OpOf(type) ==
    CASE type = "paid"    -> "succeed"
      [] type = "pending" -> "write"
      [] type = "expired" -> "write"
      [] type = "failed"  -> "fail"
      [] type = "refund"  -> "refund"

Receive(t, e) ==
    /\ ~OldNews(e) /\ att[e.a].status # "none"
    /\ Start(t, [Job(OpOf(e.type), e.a) EXCEPT
                   !.ev = e.type, !.was = IF e.type = "refund" THEN acct ELSE @])
    /\ UNCHANGED <<account, offers, att, txn, plans, day, provider, events, trouble, missed>>

\* The customer returns from checkout without paying.
CancelAttempt(t, a) ==
    /\ att[a].status = "Processing"
    /\ Start(t, Job("write", a))
    /\ UNCHANGED <<account, offers, att, txn, plans, day, provider, events, trouble, missed>>

\* The result page polls: get_attempt_public loads the attempt and, with it, its
\* account.  The expanded session holds the intent as an object, so unless an event
\* named the intent before, the payment will be booked under the session's id.
Poll(t, a) ==
    /\ att[a].status = "Processing"
    /\ Start(t, [Job("poll", a) EXCEPT !.was = acct,
                                      !.ref = IF att[a].pi THEN "pi" ELSE "session"])
    /\ UNCHANGED <<account, offers, att, txn, plans, day, provider, events, trouble, missed>>

\* mutant: a completed checkout counts as paid while a bank debit still settles
ReconcileComplete(t) ==
    /\ Busy(t, "poll") /\ stripe[th[t].a] \in {"paid", "processing"}
    /\ th' = [th EXCEPT ![t].op = "succeed"]
    /\ UNCHANGED <<account, offers, att, txn, plans, day, provider, events, trouble, missed>>

\* reconcile_attempt_from_stripe asks Stripe, with what the poll read still in hand.
Reconcile(t) ==
    /\ Busy(t, "poll")
    /\ LET job == th[t]
           held == stripe[job.a]
       IN
       \/ held = "paid" /\ th' = [th EXCEPT ![t].op = "succeed"]
       \/ held = "expired" /\ th' = [th EXCEPT ![t].op = "write", ![t].ref = "session"]
       \/ held = "failed" /\ job.ref = "pi" /\ th' = [th EXCEPT ![t].op = "fail"]
       \/ held \in {"open", "processing"} /\ End(t)
       \/ held = "failed" /\ job.ref = "session" /\ End(t)
    /\ UNCHANGED <<account, offers, att, txn, plans, day, provider, events, trouble, missed>>

Written(job) ==
    CASE job.ev = "pending"                             -> "Processing"
      [] job.ev = "expired" \/ job.ref = "session"      -> "Expired"
      [] OTHER                                          -> "Cancelled"

WriteStatus(t) ==
    /\ Busy(t, "write") /\ ~Locked(th[t].a)
    /\ att' = [att EXCEPT ![th[t].a].status = Written(th[t]),
                          ![th[t].a].pi = @ \/ th[t].ev = "pending"]
    /\ Answer(th[t].ev, th[t].a)
    /\ End(t)
    /\ UNCHANGED <<account, offers, txn, plans, day, provider, missed>>

(***************************************************************************)
(* apply_failed.  The notification it raises commits the status; what      *)
(* follows, the bookkeeping of a failed automatic charge, is a second      *)
(* transaction that writes the instalment whatever became of it.           *)
(***************************************************************************)
ChargeFailed(i) ==
    \/ /\ ~Planned(i)
       /\ UNCHANGED plans
    \/ /\ Planned(i)
       /\ plan' = [plan EXCEPT !.failures = @ + 1, !.auto = @ /\ plan.failures < 2]
       /\ inst' = [inst EXCEPT ![i] = "Failed"]

ApplyFailed(t) ==
    /\ Busy(t, "fail") /\ ~Locked(th[t].a)
    /\ att' = [att EXCEPT ![th[t].a].status = "Failed", ![th[t].a].pi = TRUE]
    /\ IF att[th[t].a].seq > 0
       THEN th' = [th EXCEPT ![t].op = "failed"] /\ UNCHANGED <<events, trouble>>
       ELSE End(t) /\ Answer(th[t].ev, th[t].a)
    /\ UNCHANGED <<account, offers, txn, plans, day, provider, missed>>

RecordAutoChargeFailure(t) ==
    /\ Busy(t, "failed")
    /\ ChargeFailed(att[th[t].a].seq)
    /\ Answer(th[t].ev, th[t].a)
    /\ End(t)
    /\ UNCHANGED <<account, offers, att, txn, day, provider, missed>>

(***************************************************************************)
(* apply_succeeded: lock the attempt, look for its transaction, read the   *)
(* account without a lock; then write all of it in one commit.  The read   *)
(* is db.get: a session that loaded the account already gets that object   *)
(* back as it was.  So does a poll; an event's session loads it here, and  *)
(* the sweep's commit has expired what the sweep had loaded.               *)
(***************************************************************************)
\* mutants: the ledger is not consulted; it is searched by reference alone
NeverRecorded(a, ref) == FALSE
RecordedByReference(a, ref) == txn[a][ref] # "none"

\* _txn_by_attempt finds a Succeeded payment, _txn_by_provider_ref any row.
Recorded(a, ref) ==
    \/ \E r \in Reference : txn[a][r] = "Succeeded"
    \/ txn[a][ref] # "none"

Polled(job) == job.ev = "none" /\ job.seq = 0

LockAttempt(t) ==
    /\ Busy(t, "succeed") /\ ~Locked(th[t].a)
    /\ LET a == th[t].a IN
       IF Recorded(a, th[t].ref) /\ att[a].amount > 0
       THEN /\ att' = [att EXCEPT ![a].status = "Succeeded"]
            /\ Answer(th[t].ev, a)
            /\ EndOver(t, Of(a))
       ELSE /\ th' = [th EXCEPT ![t].op = "apply", ![t].stale = FALSE,
                                 ![t].was = IF Polled(th[t]) THEN @ ELSE acct]
            /\ UNCHANGED <<att, events, trouble>>
    /\ UNCHANGED <<account, offers, txn, plans, day, provider, missed>>

\* _apply_payment_to_plan: the instalment the attempt was for, or the first unpaid.
Target(a) ==
    IF att[a].seq > 0 /\ inst[att[a].seq] \in Unpaid THEN {att[a].seq} ELSE NextUnpaid(inst)


AppliedInst(a) == [i \in Slots |-> IF i \in Target(a) THEN "Paid" ELSE inst[i]]

AppliedPlan(a) ==
    LET open == NextUnpaid(AppliedInst(a)) # {} IN
    IF Target(a) = {} THEN plan
    ELSE [plan EXCEPT !.paid = @ + att[a].amount, !.failures = 0,
                      !.status = IF open THEN "Active" ELSE "Completed",
                      !.auto = @ /\ open]

ApplyToPlan(a) == inst' = AppliedInst(a) /\ plan' = AppliedPlan(a)

\* attach_stripe_payment_method: a plan that has a saved method charges it again.
Attach(p, saved) == [p EXCEPT !.method = @ \/ saved, !.auto = @ \/ p.method \/ saved]

\* ensure_payment_plan_for_attempt: an open plan is used again; a new one is what
\* was quoted, with an instalment of Share for each started Share of the total.
EnsurePlan(a, saved) ==
    IF plan.status \in Running
    THEN /\ plan' = Attach(IF att[a].amount > 0 THEN AppliedPlan(a) ELSE plan, saved)
         /\ inst' = IF att[a].amount > 0 THEN AppliedInst(a) ELSE inst
    ELSE /\ plan' = [status |-> "Active", total |-> att[a].total, start |-> att[a].start,
                     method |-> saved, auto |-> TRUE, failures |-> 0, paid |-> att[a].amount]
         /\ inst' = [i \in Slots |->
                IF i = 1 /\ att[a].amount > 0 THEN "Paid" ELSE Schedule(i, att[a].total)]

\* A checkout in mode setup saves the payment method and takes no money.
ApplySetup(t) ==
    /\ Busy(t, "apply") /\ att[th[t].a].amount = 0
    /\ LET a == th[t].a IN
       /\ att' = [att EXCEPT ![a].status = "Succeeded"]
       /\ \E saved \in BOOLEAN : EnsurePlan(a, saved)
       /\ acct' = [acct EXCEPT !.status = IF plan.status \in Running THEN @ ELSE "Payment Plan"]
       /\ Answer(th[t].ev, a)
       /\ EndOver(t, Of(a))
    /\ UNCHANGED <<lost, offers, txn, day, provider, missed>>

StatusAfter(a, was, out) ==
    CASE out = 0 \/ att[a].option = "pay_in_full"         -> "Resolved"
      [] out > 0 /\ att[a].option \in {"payment_plan", "pay_next"} -> "Payment Plan"
      [] OTHER                                            -> was

ApplySucceeded(t) ==
    /\ Busy(t, "apply") /\ att[th[t].a].amount > 0
    /\ LET a == th[t].a
           was == th[t].was
           out == Part(was.out - att[a].amount)
       IN
       /\ WriteAccount(t, [out |-> out, rec |-> was.rec + att[a].amount,
                           status |-> StatusAfter(a, was.status, out)])
       /\ att' = [att EXCEPT ![a].status = "Succeeded"]
       /\ txn' = [txn EXCEPT ![a][th[t].ref] = "Succeeded"]
       /\ CASE att[a].option = "payment_plan" -> \E saved \in BOOLEAN : EnsurePlan(a, saved)
            [] att[a].option = "pay_next"     -> ApplyToPlan(a)
            [] OTHER                          -> UNCHANGED plans
       /\ Answer(th[t].ev, a)
    /\ UNCHANGED <<offers, day, provider, missed>>

(***************************************************************************)
(* apply_refund_or_reversal takes no lock at all.                          *)
(***************************************************************************)
ApplyRefund(t) ==
    /\ Busy(t, "refund")
    /\ LET a == th[t].a
           was == th[t].was
       IN
       /\ WriteAccount(t, [out |-> was.out + refund[a], rec |-> Part(was.rec - refund[a]),
                           status |-> IF was.status = "Resolved" THEN "Active" ELSE was.status])
       /\ txn' = [txn EXCEPT ![a].pi = "Refunded", ![a].adj = @ + 1]
       /\ Answer("refund", a)
    /\ UNCHANGED <<offers, att, plans, day, provider, missed>>

(***************************************************************************)
(* The worker's sweep: _charge_one asks Stripe for the money of a due      *)
(* instalment under a key made of the plan, the instalment and its date,   *)
(* and commits the attempt afterwards.                                     *)
(***************************************************************************)
Due(i) == inst[i] \in {"Pending", "Overdue"} /\ plan.start + i - 1 <= day

ChargeDue(t, a, i) ==
    /\ Due(i) /\ plan.status \in Running /\ plan.auto /\ plan.method
    /\ \A b \in Attempts : att[b].seq = i => att[b].status \notin {"Processing", "Succeeded"}
    /\ Fresh(a) /\ Least(InstalmentAmount(i), acct.out) > 0
    /\ Start(t, [Job("charge", a) EXCEPT !.seq = i,
                   !.amount = Least(InstalmentAmount(i), acct.out)])
    /\ UNCHANGED <<account, offers, att, txn, plans, day, provider, events, trouble, missed>>

\* mutant: the idempotency key names the attempt, so that it is always new
CallStripeAnew(t) ==
    /\ Busy(t, "charge")
    /\ stripe' = [stripe EXCEPT ![th[t].a] = "paid"]
    /\ th' = [th EXCEPT ![t].op = "collected"]
    /\ Announce("paid", th[t].a)
    /\ UNCHANGED <<account, offers, att, txn, plans, day, key, refund, trouble, missed>>

\* Stripe answers a used key with the first request's outcome only if the
\* request is the same; the metadata name another attempt, so it refuses.
CallStripe(t) ==
    /\ Busy(t, "charge")
    /\ LET a == th[t].a
           i == th[t].seq
       IN
       IF key[i] # Idle
       THEN /\ th' = [th EXCEPT ![t].op = "refused"]
            /\ UNCHANGED <<stripe, key, events>>
       ELSE /\ key' = [key EXCEPT ![i] = a]
            /\ \/ /\ stripe' = [stripe EXCEPT ![a] = "paid"]
                  /\ th' = [th EXCEPT ![t].op = "collected"]
                  /\ Announce("paid", a)
               \/ /\ stripe' = [stripe EXCEPT ![a] = "processing"]
                  /\ th' = [th EXCEPT ![t].op = "charged"]
                  /\ UNCHANGED events
               \/ /\ stripe' = [stripe EXCEPT ![a] = "failed"]
                  /\ th' = [th EXCEPT ![t].op = "refused"]
                  /\ Announce("failed", a)
    /\ UNCHANGED <<account, offers, att, txn, plans, day, refund, trouble, missed>>

Row(t, status) ==
    [status |-> status, option |-> "pay_next", amount |-> th[t].amount,
     seq |-> th[t].seq, pi |-> TRUE, total |-> 0, start |-> 0]

ChargeCommitted(t) ==
    /\ Busy(t, "charged") \/ Busy(t, "collected")
    /\ att' = [att EXCEPT ![th[t].a] = Row(t, "Processing")]
    /\ IF th[t].op = "collected" THEN th' = [th EXCEPT ![t].op = "succeed"] ELSE End(t)
    /\ UNCHANGED <<account, offers, txn, plans, day, provider, events, trouble, missed>>

ChargeRefused(t) ==
    /\ Busy(t, "refused")
    /\ att' = [att EXCEPT ![th[t].a] = Row(t, "Failed")]
    /\ ChargeFailed(th[t].seq)
    /\ End(t)
    /\ UNCHANGED <<account, offers, txn, day, provider, events, trouble, missed>>

\* The sweep reads the missed instalments in one statement and writes later.
OverdueRead(t) ==
    /\ Missed # {}
    /\ Start(t, [Job("overdue", Idle) EXCEPT !.due = Missed])
    /\ UNCHANGED <<account, offers, att, txn, plans, day, provider, events, trouble, missed>>

RefreshOverduePlans(t) ==
    /\ Busy(t, "overdue")
    /\ MarkOverdue(th[t].due)
    /\ End(t)
    /\ UNCHANGED <<account, offers, att, txn, day, provider, events, trouble, missed>>

(***************************************************************************)
(* A process dies or its transaction fails: what it had not committed is   *)
(* gone.  A webhook then answers 500, or nothing, and Stripe sends again.  *)
(***************************************************************************)
Crash(t) ==
    /\ th[t] # Idle
    /\ End(t) /\ GoWrong
    /\ UNCHANGED <<account, offers, att, txn, plans, day, provider, events, missed>>

\* Days before there is a plan or a quote for one change nothing.
NewDay ==
    /\ plan.status # "none" \/ \E a \in Attempts : att[a].total > 0
    /\ day < Days
    /\ day' = day + 1
    /\ UNCHANGED <<account, offers, att, txn, plans, provider, events, th, trouble, missed>>

Work(t) ==
    \/ Reconcile(t) \/ WriteStatus(t) \/ ApplyFailed(t) \/ RecordAutoChargeFailure(t)
    \/ LockAttempt(t) \/ ApplySetup(t) \/ ApplySucceeded(t) \/ ApplyRefund(t)
    \/ CallStripe(t) \/ ChargeCommitted(t) \/ ChargeRefused(t) \/ RefreshOverduePlans(t)

Request(t) ==
    \/ \E a \in Attempts : \/ CancelAttempt(t, a) \/ Poll(t, a)
                           \/ \E i \in Slots : ChargeDue(t, a, i)
    \/ OverdueRead(t)

Next ==
    \/ \E a \in Attempts : Provider(a) \/ \E option \in Option : Initiate(a, option)
    \/ \E e \in events : ReceiveUnmatched(e) \/ ReceiveOld(e) \/ \E t \in Threads : Receive(t, e)
    \/ \E t \in Threads : Request(t) \/ Work(t) \/ Crash(t)
    \/ NewDay

Spec == Init /\ [][Next]_vars

------------------------------------------------------------------------------
(***************************************************************************)
(* Properties                                                              *)
(***************************************************************************)
Account == [out : Nat, rec : Nat, status : {"Active", "Payment Plan", "Resolved"}]
AttemptRow == [status : {"none", "Processing", "Succeeded", "Failed", "Cancelled", "Expired"},
               option : Option, amount : Nat, seq : {0} \union Slots, pi : BOOLEAN,
               total : Nat, start : Nat]
Entry == {"none", "Succeeded", "Refunded"}
Transactions == [pi : Entry, session : Entry, adj : Nat]
PlanRow == [status : {"none", "Active", "Overdue", "Completed"}, total : Nat, start : Nat,
            method : BOOLEAN, auto : BOOLEAN, failures : Nat, paid : Nat]
InstalmentStatus == {"none", "Pending", "Overdue", "Failed", "Paid"}
Held == {"none", "open", "processing", "paid", "failed", "expired"}
EventType == {"paid", "pending", "failed", "expired", "refund"}
JobKind == {"poll", "succeed", "write", "fail", "failed", "apply", "refund", "charge", "charged", "collected",
          "refused", "overdue"}
Jobs == [op : JobKind, a : Attempts \union {Idle}, ref : Reference, amount : Nat, seq : {0} \union Slots,
         ev : {"none"} \union EventType, due : SUBSET Slots,
         was : Account, stale : BOOLEAN]

\* Each variable keeps its type.
TypeOK ==
    /\ acct \in Account /\ offers \subseteq Option
    /\ att \in [Attempts -> AttemptRow]
    /\ txn \in [Attempts -> Transactions]
    /\ plan \in PlanRow
    /\ inst \in [Slots -> InstalmentStatus]
    /\ day \in Nat
    /\ stripe \in [Attempts -> Held]
    /\ refund \in [Attempts -> Nat]
    /\ events \subseteq [type : EventType, a : Attempts]
    /\ key \in [Slots -> {Idle} \union Attempts]
    /\ th \in [Threads -> {Idle} \union Jobs]
    /\ trouble \in Nat /\ lost \in BOOLEAN /\ missed \subseteq Attempts

\* What PaymentLedger does with captured money is what MoneyBook promises.
Books == INSTANCE MoneyBook WITH
    Payments   <- Attempts,
    References <- Reference,
    captured   <- {a \in Attempts : stripe[a] = "paid"},
    refunded   <- {a \in Attempts : refund[a] > 0},
    open       <- [a \in Attempts |-> {ref \in Reference : txn[a][ref] = "Succeeded"}]

KeepsTheBooks == Books!Spec

\* The sum of a function's values, counted unit by unit.
Total(f) == Cardinality(UNION {{x} \X (1 .. f[x]) : x \in DOMAIN f})

Paid == Total([a \in Attempts |-> Rows(a) * att[a].amount])
Returned == Total([a \in Attempts |-> txn[a].adj * refund[a]])

\* An attempt's entries that were payments towards a plan.
Towards(a) == IF att[a].option \in {"payment_plan", "pay_next"} THEN Rows(a) ELSE 0

\* Every Paid instalment is backed by a booked payment of its own.  A payment may
\* be smaller than its instalment: none is asked for more than the account owes.
InstalmentsBacked ==
    /\ Cardinality({i \in Slots : inst[i] = "Paid"}) <= Total([a \in Attempts |-> Towards(a)])
    /\ plan.paid <= Total([a \in Attempts |-> Towards(a) * att[a].amount])

AccountBalanced ==
    /\ acct.rec = Paid - Returned
    /\ acct.out + acct.rec >= Balance
    /\ Paid <= Balance => acct.out + acct.rec = Balance
    /\ \A a \in Attempts : txn[a].adj <= 1 /\ Rows(a) <= 1 + txn[a].adj

\* The balances agree with the ledger as long as no two transactions of the
\* account overlapped: the account owes what was not paid unless more was paid
\* than it owed, and only a refunded payment can be entered a second time.  And
\* the instalments of the plan that are Paid are covered by booked payments.
Balanced == (~lost => AccountBalanced) /\ InstalmentsBacked

\* The customer is told that a payment succeeded only when Stripe has the money
\* and the ledger has the payment (serialize_attempt's "confirmed").
ConfirmedIsBooked ==
    \A a \in Attempts : att[a].status = "Succeeded" =>
        stripe[a] = "paid" /\ (att[a].amount > 0 => Booked(a))

\* A confirmed attempt loses its status only to a job that read it before.
ConfirmationSurvives ==
    [][\A a \in Attempts :
         att[a].status = "Succeeded" /\ att'[a].status # "Succeeded" =>
             \E t \in Threads : th[t] # Idle /\ th[t].a = a /\ th[t].stale]_vars

\* Two sweeps, and a sweep after a crash, take an instalment's money once.
ChargedOnce ==
    \A i \in Slots :
        Cardinality({a \in Attempts : att[a].seq = i /\ stripe[a] \in {"paid", "processing"}}) <= 1

\* When Stripe has nothing left to deliver and nobody works, every payment is
\* booked, and every refund of a payment booked under its intent, unless an
\* event was answered before the row it needed existed.
NothingOutstanding ==
    events = {} /\ (\A t \in Threads : th[t] = Idle) =>
        \A a \in Attempts \ missed : att[a].status # "none" =>
            /\ stripe[a] = "paid" /\ att[a].amount > 0 => Booked(a)
            /\ refund[a] > 0 /\ txn[a].pi # "none" => txn[a].adj > 0
==============================================================================
