-------------------------- MODULE PaymentLedgerProofs --------------------------
(***************************************************************************)
(* Theorems about PaymentLedger, for every number of attempts, threads and *)
(* due dates, every balance and every amount of trouble.                   *)
(***************************************************************************)
EXTENDS PaymentLedger, FiniteSetTheorems, TLAPS

USE PaymentAssumption DEF account, plans, provider

-----------------------------------------------------------------------------
(* What is true between any two steps and makes the properties inductive.  *)

Charging == {"charge", "charged", "collected", "refused"}
Matched == {"poll", "succeed", "apply", "write", "fail", "failed", "refund"}

\* A sweep's charge has its attempt for itself until the row is committed; every
\* other job works on a committed row.
OwnRow(t) ==
    LET j == th[t] IN
    /\ j.op # "overdue" => j.a \in Attempts
    /\ j.op \in Charging =>
         /\ att[j.a] = NoRow /\ j.seq \in Slots
         /\ \A u \in Threads \ {t} : th[u] # Idle => th[u].a # j.a
    /\ j.op \in Matched => att[j.a].status # "none"
    /\ j.op = "failed" => att[j.a].seq \in Slots

\* What a job found at the provider is still so.
Grounded(t) ==
    LET j == th[t] IN
    /\ j.op \in {"succeed", "apply", "collected"} => stripe[j.a] = "paid"
    /\ j.op = "charge" => stripe[j.a] = "none"
    /\ j.op = "refused" => stripe[j.a] \in {"none", "failed"}
    /\ j.op \in {"charged", "collected"} =>
         key[j.seq] = j.a /\ stripe[j.a] \in {"processing", "paid", "failed"}
    /\ j.op = "refund" => refund[j.a] > 0 /\ txn[j.a].pi # "none"

\* Which event a job answers.
Answers(t) ==
    LET j == th[t] IN
    /\ j.ev = "paid" => j.op \in {"succeed", "apply"}
    /\ j.ev = "refund" => j.op = "refund"

\* One job applies a payment, and nothing enters the payment beside it.
Applies(t) ==
    LET j == th[t] IN
    j.op = "apply" =>
        /\ \A u \in Threads \ {t} : Busy(u, "apply") => th[u].a # j.a
        /\ att[j.a].amount > 0 =>
             txn[j.a].pi # "Succeeded" /\ txn[j.a].session # "Succeeded"

\* A job that would take a confirmation back read the attempt before it.
ReadBefore(t) ==
    LET j == th[t] IN
    j.op \in {"poll", "write", "fail"} /\ att[j.a].status = "Succeeded" => j.stale

ThreadOK(t) == OwnRow(t) /\ Grounded(t) /\ Answers(t) /\ Applies(t) /\ ReadBefore(t)
ThreadsOK == \A t \in Threads : th[t] # Idle => ThreadOK(t)

\* A charge of the sweep was made under its instalment's key, or refused.
KeyKept(a) ==
    att[a].seq > 0 =>
        \/ stripe[a] \in {"none", "failed"}
        \/ stripe[a] \in {"processing", "paid"} /\ key[att[a].seq] = a

Confirmed(a) ==
    att[a].status = "Succeeded" => stripe[a] = "paid" /\ (att[a].amount > 0 => Booked(a))

PaidEvent(a) == [type |-> "paid", a |-> a]
RefundEvent(a) == [type |-> "refund", a |-> a]

\* The payment, or the refund, is booked, or its event is still to come.
PaymentKnown(a) ==
    stripe[a] = "paid" =>
        \/ PaidEvent(a) \in events \/ a \in missed \/ Booked(a)
        \/ att[a].status # "none" /\ att[a].amount = 0

RefundKnown(a) ==
    refund[a] > 0 =>
        \/ RefundEvent(a) \in events \/ a \in missed \/ txn[a].adj > 0
        \/ txn[a].pi = "none" /\ txn[a].session # "none"

\* One open entry a payment has in the ledger; only the intent's is ever closed.
OneEntry(a) ==
    /\ txn[a].session # "Refunded"
    /\ ~(txn[a].pi = "Succeeded" /\ txn[a].session = "Succeeded")

EventsTrue(a) ==
    /\ PaidEvent(a) \in events => stripe[a] = "paid"
    /\ RefundEvent(a) \in events => refund[a] > 0

RowOK(a) ==
    /\ KeyKept(a) /\ Confirmed(a) /\ PaymentKnown(a) /\ RefundKnown(a)
    /\ OneEntry(a) /\ EventsTrue(a)
RowsOK == \A a \in Attempts : RowOK(a)

\* The instalments of a plan share its total.
Scheduled == \A i \in Slots : Planned(i) => (i - 1) * Share <= plan.total

IInv == TypeOK /\ ThreadsOK /\ RowsOK /\ Scheduled
-----------------------------------------------------------------------------
(* What the helpers return. *)

LEMMA LeastType ==
  ASSUME NEW x \in Int, NEW y \in Int
  PROVE  Least(x, y) \in Int /\ Least(x, y) <= x /\ Least(x, y) <= y
                             /\ (x >= 0 /\ y >= 0 => Least(x, y) >= 0)
BY DEF Least

LEMMA LeastNat ==
  ASSUME NEW x \in Nat, NEW y \in Nat
  PROVE  Least(x, y) \in Nat
BY DEF Least

LEMMA PartType == ASSUME NEW x \in Int PROVE Part(x) \in Nat
BY DEF Part

LEMMA SumsType ==
  ASSUME NEW x \in Nat, NEW y \in Nat, NEW z \in Nat
  PROVE  x - z \in Int /\ y + z \in Nat
OBVIOUS

LEMMA SlotsType == Slots \subseteq Nat \ {0}
BY DEF Slots

LEMMA InstalmentType ==
  ASSUME IInv, NEW i \in Slots, Planned(i)
  PROVE  InstalmentAmount(i) \in Nat
<1>1. (i - 1) * Share \in Nat
  BY SlotsType
<1>2. plan.total \in Nat /\ (i - 1) * Share <= plan.total
  BY DEF IInv, Scheduled, TypeOK, PlanRow
<1> DEFINE rest == plan.total - (i - 1) * Share
<1>3. rest \in Nat
  BY <1>1, <1>2, SlotsType
<1> HIDE DEF rest
<1>4. Least(Share, rest) \in Nat
  BY <1>3, LeastType
<1> QED
  BY <1>4 DEF InstalmentAmount, rest

LEMMA RowsType ==
  /\ NoRow \in AttemptRow
  /\ NoTxn \in Transactions
  /\ NoPlan \in PlanRow
  /\ StandingPlan \in PlanRow
<1>1. NoRow \in AttemptRow
  BY DEF NoRow, AttemptRow, Option
<1>2. NoTxn \in Transactions
  BY DEF NoTxn, Transactions, Entry
<1>3. NoPlan \in PlanRow
  BY DEF NoPlan, PlanRow
<1>4. StandingPlan \in PlanRow
  BY DEF StandingPlan, PlanRow
<1> QED
  BY <1>1, <1>2, <1>3, <1>4

LEMMA JobType ==
  ASSUME NEW op \in JobKind, NEW a \in Attempts \cup {Idle}
  PROVE  Job(op, a) \in Jobs
BY DEF Job, Jobs, Reference, Account

-----------------------------------------------------------------------------
(* The start, and the provider. *)

LEMMA InitOK == Init => IInv
<1> SUFFICES ASSUME Init PROVE IInv
  OBVIOUS
<1>1. TypeOK
  <2>1. inst \in [Slots -> InstalmentStatus]
    BY DEF Init, Schedule, InstalmentStatus
  <2>2. plan \in PlanRow
    <3>1. plan = NoPlan \/ plan = StandingPlan
      BY DEF Init
    <3> QED
      BY <3>1, RowsType
  <2>3. att \in [Attempts -> AttemptRow] /\ txn \in [Attempts -> Transactions]
    BY RowsType DEF Init
  <2>4. acct \in Account
    <3>1. \/ acct = [out |-> Balance, rec |-> 0, status |-> "Active"]
          \/ acct = [out |-> Balance, rec |-> 0, status |-> "Payment Plan"]
      BY DEF Init
    <3>2. \A status \in {"Active", "Payment Plan"} :
              [out |-> Balance, rec |-> 0, status |-> status] \in Account
      BY DEF Account
    <3> QED
      BY <3>1, <3>2
  <2>5. day \in Nat
    <3>1. day = 0 \/ day = Days
      BY DEF Init
    <3> QED
      BY <3>1
  <2>6. offers \subseteq Option
    BY DEF Init
  <2>7. /\ key \in [Slots -> {Idle} \union Attempts]
        /\ th \in [Threads -> {Idle} \union Jobs]
        /\ stripe \in [Attempts -> Held]
        /\ refund \in [Attempts -> Nat]
    BY DEF Init, Held
  <2> QED
    BY <2>1, <2>2, <2>3, <2>4, <2>5, <2>6, <2>7 DEF Init, TypeOK
<1>2. ThreadsOK
  BY DEF Init, ThreadsOK
<1>3. RowsOK
  BY DEF Init, RowsOK, RowOK, KeyKept, Confirmed, PaymentKnown, RefundKnown, OneEntry,
         EventsTrue, NoRow, NoTxn, PaidEvent, RefundEvent
<1>4. Scheduled
  <2> SUFFICES ASSUME NEW i \in Slots, Planned(i) PROVE (i - 1) * Share <= plan.total
    BY DEF Scheduled
  <2>1. Schedule(i, Balance) # "none" /\ plan = StandingPlan
    BY DEF Init, Planned
  <2>2. plan.total = Balance
    BY <2>1 DEF StandingPlan
  <2> QED
    BY <2>1, <2>2, SlotsType DEF Schedule
<1> QED
  BY <1>1, <1>2, <1>3, <1>4 DEF IInv

LEMMA ProviderOK ==
  ASSUME IInv, NEW a \in Attempts, Provider(a)
  PROVE  IInv'
<1> USE DEF Announce
<1>1. TypeOK'
  <2>1. trouble' \in Nat
    BY DEF IInv, TypeOK, Provider, GoWrong
  <2>2. stripe' \in [Attempts -> Held]
    BY DEF IInv, TypeOK, Provider, Settle, Debit, Decline, LapseSession, IssueRefund, Held
  <2>3. refund' \in [Attempts -> Nat]
    <3>1. att[a].amount \in Nat
      BY DEF IInv, TypeOK, AttemptRow
    <3> QED
      BY <3>1 DEF IInv, TypeOK, Provider, IssueRefund
  <2>4. events' \subseteq [type : EventType, a : Attempts]
    BY DEF IInv, TypeOK, Provider, Settle, Debit, Decline, LapseSession, IssueRefund, EventType
  <2> QED
    BY <2>1, <2>2, <2>3, <2>4 DEF IInv, TypeOK, Provider
<1> USE DEF Provider, Settle, Debit, Decline, LapseSession, IssueRefund
<1>2. ThreadsOK'
  <2> SUFFICES ASSUME NEW u \in Threads, th[u] # Idle
               PROVE  ThreadOK(u)'
    BY DEF ThreadsOK
  <2>1. ThreadOK(u)
    BY DEF IInv, ThreadsOK
  <2>2. OwnRow(u)' /\ Answers(u)' /\ Applies(u)' /\ ReadBefore(u)'
    BY <2>1 DEF ThreadOK, OwnRow, Answers, Applies, ReadBefore, Busy
  <2>3. Grounded(u)'
    BY <2>1 DEF ThreadOK, Grounded, OwnRow, Charging, IInv, TypeOK
  <2> QED
    BY <2>2, <2>3 DEF ThreadOK
<1>3. RowsOK'
  <2> SUFFICES ASSUME NEW b \in Attempts
               PROVE  RowOK(b)'
    BY DEF RowsOK
  <2>1. RowOK(b)
    BY DEF IInv, RowsOK
  <2>2. KeyKept(b)' /\ Confirmed(b)' /\ OneEntry(b)'
    BY <2>1 DEF RowOK, KeyKept, Confirmed, OneEntry, Booked, IInv, TypeOK
  <2>3. PaymentKnown(b)' /\ RefundKnown(b)' /\ EventsTrue(b)'
    BY <2>1 DEF RowOK, PaymentKnown, RefundKnown, EventsTrue, Booked, IInv, TypeOK, PaidEvent, RefundEvent
  <2> QED
    BY <2>2, <2>3 DEF RowOK
<1>4. Scheduled'
  BY DEF IInv, Scheduled, Planned
<1> QED
  BY <1>1, <1>2, <1>3, <1>4 DEF IInv

-----------------------------------------------------------------------------
(* Jobs that begin, and jobs that are lost. *)

LEMMA SameRows ==
  ASSUME RowsOK, Scheduled, UNCHANGED <<att, txn, plans, stripe, key, refund, events, missed>>
  PROVE  RowsOK' /\ Scheduled'
<1>1. ASSUME NEW b \in Attempts PROVE RowOK(b)'
  <2>1. RowOK(b)
    BY DEF RowsOK
  <2> QED
    BY <2>1 DEF RowOK, KeyKept, Confirmed, PaymentKnown, RefundKnown, OneEntry, EventsTrue, Booked
<1> QED
  BY <1>1 DEF RowsOK, Scheduled, Planned

\* What a job must have found to begin.
Fits(j) ==
    /\ j \in Jobs
    /\ j.ev = "paid" => j.op = "succeed"
    /\ j.ev = "refund" => j.op = "refund"
    /\ \/ j.op = "overdue" /\ j.a = Idle
       \/ /\ j.op = "charge" /\ j.a \in Attempts /\ j.seq \in Slots
          /\ Fresh(j.a)
       \/ /\ j.op \in {"poll", "succeed", "write", "fail", "refund"} /\ j.a \in Attempts
          /\ att[j.a].status # "none"
          /\ j.op = "succeed" => stripe[j.a] = "paid"
          /\ j.op \in {"poll", "write", "fail"} => att[j.a].status # "Succeeded"
          /\ j.op = "refund" => refund[j.a] > 0 /\ txn[j.a].pi # "none"

LEMMA StartOK ==
  ASSUME IInv, NEW t \in Threads, NEW j, Fits(j), Start(t, j),
         UNCHANGED <<account, offers, att, txn, plans, day, provider, events, trouble, missed>>
  PROVE  IInv'
<1>1. TypeOK'
  BY DEF IInv, TypeOK, Start, Fits
<1>2. ThreadsOK'
  <2> SUFFICES ASSUME NEW u \in Threads, th'[u] # Idle
               PROVE  ThreadOK(u)'
    BY DEF ThreadsOK
  <2>1. th[t] = Idle /\ th' = [th EXCEPT ![t] = j] /\ th \in [Threads -> {Idle} \cup Jobs]
    BY DEF Start, IInv, TypeOK
  <2>2. CASE u = t
    <3>1. th'[u] = j
      BY <2>1, <2>2
    <3>2. OwnRow(u)'
      BY <3>1, <2>1, <2>2 DEF OwnRow, Fits, Charging, Matched, Fresh
    <3>3. Grounded(u)' /\ Answers(u)'
      BY <3>1 DEF Grounded, Answers, Fits, Fresh
    <3>4. Applies(u)' /\ ReadBefore(u)'
      BY <3>1 DEF Applies, ReadBefore, Fits
    <3> QED
      BY <3>2, <3>3, <3>4 DEF ThreadOK
  <2>3. CASE u # t
    <3>1. th'[u] = th[u] /\ ThreadOK(u)
      BY <2>1, <2>3 DEF IInv, ThreadsOK
    <3>2. OwnRow(u)'
      <4>1. th[u].op \in Charging => th[u].a # j.a
        BY <2>3, <3>1 DEF ThreadOK, OwnRow, Fits, Charging, NoRow, Fresh
      <4> QED
        BY <2>1, <2>3, <3>1, <4>1 DEF ThreadOK, OwnRow
    <3>3. Applies(u)'
      BY <2>1, <2>3, <3>1 DEF ThreadOK, Applies, Busy, Fits
    <3>4. Grounded(u)' /\ Answers(u)' /\ ReadBefore(u)'
      BY <3>1 DEF ThreadOK, Grounded, Answers, ReadBefore
    <3> QED
      BY <3>2, <3>3, <3>4 DEF ThreadOK
  <2> QED
    BY <2>2, <2>3
<1> QED
  BY <1>1, <1>2, SameRows DEF IInv

LEMMA ReceiveOK ==
  ASSUME IInv, NEW t \in Threads, NEW e \in events, Receive(t, e)
  PROVE  IInv'
<1> DEFINE j == [Job(OpOf(e.type), e.a) EXCEPT
                   !.ev = e.type, !.was = IF e.type = "refund" THEN acct ELSE @]
<1>1. e \in [type : EventType, a : Attempts] /\ acct \in Account
  BY DEF IInv, TypeOK
<1>2. j \in Jobs
  BY <1>1 DEF Job, Jobs, JobKind, OpOf, EventType, Account, Reference
<1>3. /\ j.op = OpOf(e.type) /\ j.a = e.a /\ j.ev = e.type
  BY <1>1 DEF Job
<1>4. e.type = "paid" => stripe[e.a] = "paid"
  <2>1. e = [type |-> e.type, a |-> e.a]
    BY <1>1
  <2> QED
    BY <1>1, <2>1 DEF IInv, RowsOK, RowOK, EventsTrue, PaidEvent
<1>5. e.type = "refund" => refund[e.a] > 0
  <2>1. e = [type |-> e.type, a |-> e.a]
    BY <1>1
  <2> QED
    BY <1>1, <2>1 DEF IInv, RowsOK, RowOK, EventsTrue, RefundEvent
<1>6. Fits(j)
  <2> HIDE DEF j
  <2>1. j.a \in Attempts /\ att[j.a].status # "none"
    BY <1>1, <1>3 DEF Receive
  <2> QED
    BY <1>1, <1>2, <1>3, <1>4, <1>5, <2>1 DEF Fits, Receive, OldNews, OpOf, EventType
<1>7. Start(t, j)
  BY DEF Receive
<1> HIDE DEF j
<1> QED
  BY <1>6, <1>7, StartOK DEF Receive

LEMMA CancelOK ==
  ASSUME IInv, NEW t \in Threads, NEW a \in Attempts, CancelAttempt(t, a)
  PROVE  IInv'
<1> DEFINE j == Job("write", a)
<1>1. Fits(j)
  <2>1. j \in Jobs
    BY JobType DEF JobKind
  <2> QED
    BY <2>1 DEF Fits, Job, CancelAttempt
<1>2. Start(t, j)
  BY DEF CancelAttempt
<1> HIDE DEF j
<1> QED
  BY <1>1, <1>2, StartOK DEF CancelAttempt

LEMMA PollOK ==
  ASSUME IInv, NEW t \in Threads, NEW a \in Attempts, Poll(t, a)
  PROVE  IInv'
<1> DEFINE ref == IF att[a].pi THEN "pi" ELSE "session"
           j == [Job("poll", a) EXCEPT !.was = acct, !.ref = ref]
<1>1. ref \in Reference /\ acct \in Account /\ Job("poll", a) \in Jobs
  BY JobType DEF JobKind, Reference, IInv, TypeOK
<1>2. Start(t, j)
  BY DEF Poll
<1> HIDE DEF ref
<1>3. j \in Jobs
  <2> HIDE DEF Job
  <2> QED
    BY <1>1 DEF Jobs
<1>4. j.op = "poll" /\ j.a = a /\ j.ev = "none"
  BY DEF Job
<1> HIDE DEF j
<1>5. Fits(j)
  BY <1>3, <1>4 DEF Fits, Poll
<1> QED
  BY <1>2, <1>5, StartOK DEF Poll

LEMMA ChargeDueOK ==
  ASSUME IInv, NEW t \in Threads, NEW a \in Attempts, NEW i \in Slots, ChargeDue(t, a, i)
  PROVE  IInv'
<1> DEFINE amount == Least(InstalmentAmount(i), acct.out)
           j == [Job("charge", a) EXCEPT !.seq = i, !.amount = amount]
<1>1. amount \in Nat
  <2>1. InstalmentAmount(i) \in Nat
    BY InstalmentType DEF ChargeDue, Due, Planned
  <2>2. acct.out \in Nat
    BY DEF IInv, TypeOK, Account
  <2> QED
    BY <2>1, <2>2, LeastNat
<1>2. Start(t, j)
  BY DEF ChargeDue
<1> HIDE DEF amount
<1>3. Fits(j)
  <2>1. j \in Jobs
    <3>1. Job("charge", a) \in Jobs
      BY JobType DEF JobKind
    <3> HIDE DEF Job
    <3> QED
      BY <1>1, <3>1 DEF Jobs
  <2>2. j.op = "charge" /\ j.a = a /\ j.ev = "none" /\ j.seq = i
    BY DEF Job
  <2> HIDE DEF j
  <2> QED
    BY <2>1, <2>2 DEF Fits, ChargeDue
<1> HIDE DEF j
<1> QED
  BY <1>2, <1>3, StartOK DEF ChargeDue

LEMMA OverdueReadOK ==
  ASSUME IInv, NEW t \in Threads, OverdueRead(t)
  PROVE  IInv'
<1> DEFINE j == [Job("overdue", Idle) EXCEPT !.due = Missed]
<1>1. Fits(j)
  <2>1. Missed \in SUBSET Slots
    BY DEF Missed
  <2> HIDE DEF Missed
  <2>2. j \in Jobs
    BY <2>1, JobType DEF JobKind, Jobs
  <2> QED
    BY <2>2 DEF Fits, Job
<1>2. Start(t, j)
  BY DEF OverdueRead
<1> HIDE DEF j
<1> QED
  BY <1>1, <1>2, StartOK DEF OverdueRead

-----------------------------------------------------------------------------
(* What a step leaves of the jobs it is not about. *)

Same(u) ==
    /\ th'[u].op = th[u].op /\ th'[u].a = th[u].a /\ th'[u].ev = th[u].ev
    /\ th'[u].seq = th[u].seq /\ (th[u].stale => th'[u].stale)

Keeps(u) ==
    LET a == th[u].a
        op == th[u].op
    IN
    /\ Same(u)
    /\ op \in Charging => att'[a] = att[a] /\ stripe'[a] = stripe[a]
    /\ op \in {"charged", "collected"} => key'[th[u].seq] = key[th[u].seq]
    /\ op \in Matched =>
         /\ att'[a].status # "none" /\ att'[a].amount = att[a].amount /\ att'[a].seq = att[a].seq
         /\ stripe[a] = "paid" => stripe'[a] = "paid"
         /\ att'[a].status = "Succeeded" => att[a].status = "Succeeded" \/ th'[u].stale
    /\ op = "apply" =>
         /\ txn'[a].pi = "Succeeded" => txn[a].pi = "Succeeded"
         /\ txn'[a].session = "Succeeded" => txn[a].session = "Succeeded"
    /\ op = "refund" => refund'[a] = refund[a] /\ (txn[a].pi # "none" => txn'[a].pi # "none")

LEMMA OthersOK ==
  ASSUME ThreadsOK, NEW u \in Threads, th[u] # Idle, th'[u] # Idle, Keeps(u),
         \A v \in Threads \ {u} : th'[v] # Idle =>
            /\ th[v] # Idle /\ th'[v].a = th[v].a
            /\ th'[v].op = "apply" => th[v].op = "apply" \/ th[v].a # th[u].a
  PROVE  ThreadOK(u)'
<1>1. ThreadOK(u) /\ Same(u)
  BY DEF ThreadsOK, Keeps
<1>2. OwnRow(u)'
  BY <1>1 DEF ThreadOK, OwnRow, Keeps, Same, Matched
<1>3. Grounded(u)'
  BY <1>1 DEF ThreadOK, Grounded, Keeps, Same, Matched, Charging
<1>4. Applies(u)'
  BY <1>1 DEF ThreadOK, Applies, Keeps, Same, Busy, Matched
<1>5. Answers(u)' /\ ReadBefore(u)'
  BY <1>1 DEF ThreadOK, Answers, ReadBefore, Keeps, Same, Matched
<1> QED
  BY <1>2, <1>3, <1>4, <1>5 DEF ThreadOK

\* A thread that ends marks what others read as superseded.
LEMMA EndOverType ==
  ASSUME th \in [Threads -> {Idle} \cup Jobs], NEW t \in Threads, NEW others,
         \A u \in others : th[u] # Idle, EndOver(t, others)
  PROVE  /\ th' \in [Threads -> {Idle} \cup Jobs]
         /\ th'[t] = Idle
         /\ \A u \in Threads : th'[u] # Idle => u # t /\ th[u] # Idle /\ Same(u)
         /\ \A u \in Threads \cap others : th'[u] # Idle => th'[u].stale
<1>1. ASSUME NEW u \in Threads, th[u] # Idle
      PROVE  /\ [th[u] EXCEPT !.stale = TRUE] \in Jobs
             /\ [th[u] EXCEPT !.stale = TRUE].op = th[u].op
             /\ [th[u] EXCEPT !.stale = TRUE].a = th[u].a
             /\ [th[u] EXCEPT !.stale = TRUE].ev = th[u].ev
             /\ [th[u] EXCEPT !.stale = TRUE].seq = th[u].seq
             /\ [th[u] EXCEPT !.stale = TRUE].stale
  <2>1. th[u] \in Jobs
    BY <1>1
  <2> QED
    BY <2>1 DEF Jobs
<1>2. \A u \in Threads : th'[u] = IF u = t THEN Idle
                                   ELSE IF u \in others THEN [th[u] EXCEPT !.stale = TRUE] ELSE th[u]
  BY DEF EndOver
<1> QED
  BY <1>1, <1>2 DEF EndOver, Same

LEMMA EndType ==
  ASSUME th \in [Threads -> {Idle} \cup Jobs], NEW t \in Threads, End(t)
  PROVE  /\ th' \in [Threads -> {Idle} \cup Jobs]
         /\ th'[t] = Idle
         /\ \A u \in Threads : th'[u] # Idle => u # t /\ th[u] # Idle /\ Same(u)
BY DEF End, Same

\* Nothing changes under the jobs that go on.
LEMMA SameThreads ==
  ASSUME ThreadsOK, UNCHANGED <<att, txn, stripe, key, refund>>,
         \A u \in Threads : th'[u] # Idle => th[u] # Idle /\ Same(u)
  PROVE  ThreadsOK'
<1>1. ASSUME NEW u \in Threads, th'[u] # Idle PROVE ThreadOK(u)'
  <2>1. Keeps(u)
    BY <1>1 DEF Keeps, ThreadsOK, ThreadOK, OwnRow
  <2>2. \A v \in Threads : th'[v] # Idle =>
            th[v] # Idle /\ th'[v].a = th[v].a /\ th'[v].op = th[v].op
    BY DEF Same
  <2> QED
    BY <1>1, <2>1, <2>2, OthersOK
<1> QED
  BY <1>1 DEF ThreadsOK

LEMMA CrashOK ==
  ASSUME IInv, NEW t \in Threads, Crash(t)
  PROVE  IInv'
<1>1. th' \in [Threads -> {Idle} \cup Jobs] /\ ThreadsOK'
  BY EndType, SameThreads DEF Crash, IInv, TypeOK
<1>2. TypeOK'
  BY <1>1 DEF Crash, GoWrong, IInv, TypeOK
<1> QED
  BY <1>1, <1>2, SameRows DEF IInv, Crash

LEMMA ReconcileOK ==
  ASSUME IInv, NEW t \in Threads, Reconcile(t)
  PROVE  IInv'
<1>1. /\ th[t] # Idle /\ th[t] \in Jobs /\ ThreadOK(t) /\ th[t].op = "poll"
      /\ th \in [Threads -> {Idle} \cup Jobs]
  BY DEF Reconcile, Busy, IInv, TypeOK, ThreadsOK
<1>2. UNCHANGED <<account, offers, att, txn, plans, day, provider, events, trouble, missed>>
  BY DEF Reconcile
<1>3. CASE End(t)
  <2>1. th' \in [Threads -> {Idle} \cup Jobs] /\ ThreadsOK'
    BY <1>1, <1>2, <1>3, EndType, SameThreads DEF IInv
  <2>2. TypeOK'
    BY <1>2, <2>1 DEF IInv, TypeOK
  <2> QED
    BY <1>2, <2>1, <2>2, SameRows DEF IInv
<1>4. CASE ~End(t)
  <2>1. PICK op \in {"succeed", "write", "fail"}, ref \in Reference :
           /\ th' = [th EXCEPT ![t] = [th[t] EXCEPT !.op = op, !.ref = ref]]
           /\ op = "succeed" => stripe[th[t].a] = "paid"
    <3>1. th[t].ref \in Reference /\ "session" \in Reference
      BY <1>1 DEF Jobs, Reference
    <3>2. \A op : [th[t] EXCEPT !.op = op] = [th[t] EXCEPT !.op = op, !.ref = th[t].ref]
      BY <1>1 DEF Jobs
    <3>3. CASE stripe[th[t].a] = "paid" /\ th' = [th EXCEPT ![t].op = "succeed"]
      <4>1. th' = [th EXCEPT ![t] = [th[t] EXCEPT !.op = "succeed", !.ref = th[t].ref]]
        BY <1>1, <3>2, <3>3
      <4> QED
        BY <3>1, <3>3, <4>1
    <3>4. CASE th' = [th EXCEPT ![t].op = "write", ![t].ref = "session"]
      <4>1. th' = [th EXCEPT ![t] = [th[t] EXCEPT !.op = "write", !.ref = "session"]]
        BY <1>1, <3>4
      <4> QED
        BY <3>1, <4>1
    <3>5. CASE th' = [th EXCEPT ![t].op = "fail"]
      <4>1. th' = [th EXCEPT ![t] = [th[t] EXCEPT !.op = "fail", !.ref = th[t].ref]]
        BY <1>1, <3>2, <3>5
      <4> QED
        BY <3>1, <4>1
    <3> QED
      BY <1>4, <3>3, <3>4, <3>5 DEF Reconcile
  <2>2. /\ th' \in [Threads -> {Idle} \cup Jobs]
        /\ th'[t].op = op /\ th'[t].a = th[t].a /\ th'[t].ev = th[t].ev
        /\ th'[t].stale = th[t].stale
        /\ \A u \in Threads \ {t} : th'[u] = th[u]
    BY <1>1, <2>1 DEF Jobs, JobKind
  <2>3. TypeOK'
    BY <1>2, <2>2 DEF IInv, TypeOK
  <2>4. ASSUME NEW u \in Threads, th'[u] # Idle PROVE ThreadOK(u)'
    <3>1. CASE u # t
      <4>1. th[u] # Idle /\ Same(u) /\ ThreadOK(u)
        BY <2>2, <2>4, <3>1 DEF IInv, ThreadsOK, Same
      <4>2. Keeps(u)
        BY <1>2, <4>1 DEF Keeps, ThreadOK, OwnRow
      <4>3. \A v \in Threads \ {u} : th'[v] # Idle =>
              /\ th[v] # Idle /\ th'[v].a = th[v].a
              /\ th'[v].op = "apply" => th[v].op = "apply"
        BY <1>1, <2>1, <2>2
      <4> QED
        BY <2>4, <4>1, <4>2, <4>3, OthersOK DEF IInv
    <3>2. CASE u = t
      <4>1. OwnRow(u)' /\ Grounded(u)'
        BY <1>1, <1>2, <2>1, <2>2, <3>2 DEF ThreadOK, OwnRow, Grounded, Charging, Matched
      <4>2. Answers(u)' /\ Applies(u)' /\ ReadBefore(u)'
        BY <1>1, <1>2, <2>1, <2>2, <3>2 DEF ThreadOK, Answers, Applies, ReadBefore
      <4> QED
        BY <4>1, <4>2 DEF ThreadOK
    <3> QED
      BY <3>1, <3>2
  <2> QED
    BY <1>2, <2>3, <2>4, SameRows DEF IInv, ThreadsOK
<1> QED
  BY <1>3, <1>4

LEMMA NewDayOK ==
  ASSUME IInv, NewDay
  PROVE  IInv'
<1>1. TypeOK'
  BY DEF NewDay, IInv, TypeOK
<1>2. ThreadsOK'
  BY SameThreads DEF NewDay, IInv, Same
<1> QED
  BY <1>1, <1>2, SameRows DEF IInv, NewDay

LEMMA ReceiveUnmatchedOK ==
  ASSUME IInv, NEW e \in events, ReceiveUnmatched(e)
  PROVE  IInv'
<1>1. TypeOK'
  BY DEF ReceiveUnmatched, IInv, TypeOK
<1>2. ThreadsOK'
  BY SameThreads DEF ReceiveUnmatched, IInv, Same
<1>3. ASSUME NEW b \in Attempts PROVE RowOK(b)'
  <2>1. RowOK(b)
    BY DEF IInv, RowsOK
  <2>2. KeyKept(b)' /\ Confirmed(b)' /\ OneEntry(b)' /\ EventsTrue(b)'
    BY <2>1 DEF ReceiveUnmatched, RowOK, KeyKept, Confirmed, OneEntry, EventsTrue, Booked
  <2>3. PaymentKnown(b)' /\ RefundKnown(b)'
    BY <2>1 DEF ReceiveUnmatched, RowOK, PaymentKnown, RefundKnown, PaidEvent, RefundEvent, Booked
  <2> QED
    BY <2>2, <2>3 DEF RowOK
<1>4. Scheduled'
  BY DEF ReceiveUnmatched, IInv, Scheduled, Planned
<1> QED
  BY <1>1, <1>2, <1>3, <1>4 DEF IInv, RowsOK

LEMMA ReceiveOldOK ==
  ASSUME IInv, NEW e \in events, ReceiveOld(e)
  PROVE  IInv'
<1>0. e \in [type : EventType, a : Attempts]
  BY DEF IInv, TypeOK
<1>1. TypeOK'
  BY <1>0 DEF ReceiveOld, IInv, TypeOK
<1>2. ThreadsOK'
  BY SameThreads DEF ReceiveOld, IInv, Same
<1>3. ASSUME NEW b \in Attempts PROVE RowOK(b)'
  <2>1. RowOK(b)
    BY DEF IInv, RowsOK
  <2>2. KeyKept(b)' /\ Confirmed(b)' /\ OneEntry(b)' /\ EventsTrue(b)'
    BY <2>1 DEF ReceiveOld, RowOK, KeyKept, Confirmed, OneEntry, EventsTrue, Booked
  <2>3. PaymentKnown(b)'
    <3>1. CASE e = PaidEvent(b)
      <4>1. att[b].status = "Succeeded"
        BY <3>1 DEF ReceiveOld, OldNews, PaidEvent
      <4>2. att[b].amount \in Nat
        BY DEF IInv, TypeOK, AttemptRow
      <4> QED
        BY <2>1, <4>1, <4>2 DEF RowOK, Confirmed, PaymentKnown, Booked, ReceiveOld
    <3>2. CASE e # PaidEvent(b)
      BY <2>1, <3>2 DEF ReceiveOld, RowOK, PaymentKnown, Booked
    <3> QED
      BY <3>1, <3>2
  <2>4. RefundKnown(b)'
    <3>1. CASE e = RefundEvent(b)
      <4>1. txn[b].pi = "none" \/ txn[b].adj > 0
        BY <3>1 DEF ReceiveOld, OldNews, RefundEvent
      <4>2. b \in missed' \/ txn[b].pi # "none" \/ txn[b].session # "none"
        BY <3>1 DEF ReceiveOld, RefundEvent, Booked, Reference
      <4> QED
        BY <4>1, <4>2 DEF RefundKnown, ReceiveOld
    <3>2. CASE e # RefundEvent(b)
      BY <2>1, <3>2 DEF ReceiveOld, RowOK, RefundKnown
    <3> QED
      BY <3>1, <3>2
  <2> QED
    BY <2>2, <2>3, <2>4 DEF RowOK
<1>4. Scheduled'
  BY DEF ReceiveOld, IInv, Scheduled, Planned
<1> QED
  BY <1>1, <1>2, <1>3, <1>4 DEF IInv, RowsOK

-----------------------------------------------------------------------------
(* What is written of the plan. *)

PlanOK == plan \in PlanRow /\ inst \in [Slots -> InstalmentStatus] /\ Scheduled

LEMMA PlanType == IInv => PlanOK
BY DEF IInv, TypeOK, PlanOK

LEMMA SamePlan == ASSUME PlanOK, UNCHANGED plans PROVE PlanOK'
BY DEF PlanOK, Scheduled, Planned

LEMMA MarkOverdueOK ==
  ASSUME PlanOK, NEW due, MarkOverdue(due)
  PROVE  PlanOK'
<1> DEFINE late == {i \in due : Planned(i)}
<1>1. plan' = [plan EXCEPT !.status = IF late # {} THEN "Overdue" ELSE @]
  BY DEF MarkOverdue
<1>2. inst' = [i \in Slots |-> IF i \in late THEN "Overdue" ELSE inst[i]]
  BY DEF MarkOverdue
<1>3. plan' \in PlanRow /\ plan'.total = plan.total
  <2> HIDE DEF late
  <2> QED
    BY <1>1 DEF PlanOK, PlanRow
<1>4. inst' \in [Slots -> InstalmentStatus]
  BY <1>2 DEF PlanOK, InstalmentStatus
<1>5. \A i \in Slots : inst'[i] # "none" => inst[i] # "none"
  BY <1>2 DEF Planned
<1> QED
  BY <1>3, <1>4, <1>5 DEF PlanOK, Scheduled, Planned

LEMMA ChargeFailedOK ==
  ASSUME PlanOK, NEW i \in Slots, ChargeFailed(i)
  PROVE  PlanOK'
<1>1. CASE Planned(i)
  <2> DEFINE failures == plan.failures + 1
             auto == plan.auto /\ plan.failures < 2
  <2>0. /\ plan' = [plan EXCEPT !.failures = failures, !.auto = auto]
        /\ inst' = [inst EXCEPT ![i] = "Failed"]
    BY <1>1 DEF ChargeFailed, PlanOK, PlanRow
  <2>3. failures \in Nat /\ auto \in BOOLEAN
    BY DEF PlanOK, PlanRow
  <2> HIDE DEF failures, auto
  <2>1. plan' \in PlanRow /\ plan'.total = plan.total
    BY <2>0, <2>3 DEF PlanOK, PlanRow
  <2>2. inst' \in [Slots -> InstalmentStatus] /\ \A k \in Slots : inst'[k] # "none" => inst[k] # "none"
    BY <1>1, <2>0 DEF PlanOK, InstalmentStatus, Planned
  <2> QED
    BY <2>1, <2>2 DEF PlanOK, Scheduled, Planned
<1>2. CASE ~Planned(i)
  BY <1>2, SamePlan DEF ChargeFailed
<1> QED
  BY <1>1, <1>2

LEMMA TargetType ==
  ASSUME att \in [Attempts -> AttemptRow], NEW a \in Attempts, NEW i \in Target(a)
  PROVE  i \in Slots /\ inst[i] # "none"
<1>1. inst[i] \in Unpaid
  BY DEF Target, NextUnpaid
<1>2. i \in Slots
  <2>1. CASE att[a].seq > 0 /\ inst[att[a].seq] \in Unpaid
    BY <2>1 DEF Target, AttemptRow
  <2> QED
    BY <2>1 DEF Target, NextUnpaid
<1> QED
  BY <1>1, <1>2 DEF Unpaid

LEMMA AppliedOK ==
  ASSUME PlanOK, att \in [Attempts -> AttemptRow], NEW a \in Attempts
  PROVE  /\ AppliedPlan(a) \in PlanRow /\ AppliedPlan(a).total = plan.total
         /\ AppliedInst(a) \in [Slots -> InstalmentStatus]
         /\ \A i \in Slots : AppliedInst(a)[i] # "none" => inst[i] # "none"
<1>1. AppliedInst(a) \in [Slots -> InstalmentStatus]
  BY DEF AppliedInst, PlanOK, InstalmentStatus
<1>2. \A i \in Slots : AppliedInst(a)[i] # "none" => inst[i] # "none"
  BY TargetType DEF AppliedInst
<1>3. AppliedPlan(a) \in PlanRow /\ AppliedPlan(a).total = plan.total
  <2> DEFINE open == NextUnpaid(AppliedInst(a)) # {}
             paid == plan.paid + att[a].amount
             auto == plan.auto /\ open
             status == IF open THEN "Active" ELSE "Completed"
  <2>1. AppliedPlan(a) = IF Target(a) = {} THEN plan
                         ELSE [plan EXCEPT !.paid = paid, !.failures = 0,
                                           !.status = status, !.auto = auto]
    BY DEF AppliedPlan, PlanOK, PlanRow
  <2>2. paid \in Nat
    BY DEF AttemptRow, PlanOK, PlanRow
  <2>3. auto \in BOOLEAN /\ status \in {"Active", "Completed"}
    BY DEF PlanOK, PlanRow
  <2> HIDE DEF open, paid, auto, status
  <2> DEFINE new == [plan EXCEPT !.paid = paid, !.failures = 0, !.status = status, !.auto = auto]
  <2>4. new \in PlanRow /\ new.total = plan.total
    BY <2>2, <2>3 DEF PlanOK, PlanRow
  <2> HIDE DEF new
  <2>5. AppliedPlan(a) = IF Target(a) = {} THEN plan ELSE new
    BY <2>1 DEF new
  <2> QED
    BY <2>4, <2>5 DEF PlanOK
<1> QED
  BY <1>1, <1>2, <1>3

LEMMA ApplyToPlanOK ==
  ASSUME PlanOK, att \in [Attempts -> AttemptRow], NEW a \in Attempts, ApplyToPlan(a)
  PROVE  PlanOK'
BY AppliedOK DEF ApplyToPlan, PlanOK, Scheduled, Planned

LEMMA AttachType ==
  ASSUME NEW p \in PlanRow, NEW saved \in BOOLEAN
  PROVE  Attach(p, saved) \in PlanRow /\ Attach(p, saved).total = p.total
BY DEF Attach, PlanRow

LEMMA EnsurePlanOK ==
  ASSUME PlanOK, att \in [Attempts -> AttemptRow], NEW a \in Attempts,
         NEW saved \in BOOLEAN, EnsurePlan(a, saved)
  PROVE  PlanOK'
<1>1. CASE plan.status \in Running
  <2>1. \E p \in {plan, AppliedPlan(a)} : plan' = Attach(p, saved)
    BY <1>1 DEF EnsurePlan
  <2>2. inst' = AppliedInst(a) \/ inst' = inst
    BY <1>1 DEF EnsurePlan
  <2>3. plan' \in PlanRow /\ plan'.total = plan.total
    BY <2>1, AppliedOK, AttachType DEF PlanOK
  <2>4. inst' \in [Slots -> InstalmentStatus] /\ \A i \in Slots : inst'[i] # "none" => inst[i] # "none"
    BY <2>2, AppliedOK DEF PlanOK
  <2> QED
    BY <2>3, <2>4 DEF PlanOK, Scheduled, Planned
<1>2. CASE plan.status \notin Running
  <2> DEFINE balance == att[a].total
  <2>1. att[a].amount \in Nat /\ balance \in Nat /\ att[a].start \in Nat
    BY DEF AttemptRow
  <2>3. plan' = [status |-> "Active", total |-> balance, start |-> att[a].start, method |-> saved,
                 auto |-> TRUE, failures |-> 0, paid |-> att[a].amount]
    BY <1>2 DEF EnsurePlan
  <2>4. plan' \in PlanRow /\ plan'.total = balance
    BY <2>1, <2>3 DEF PlanRow
  <2>5. inst' = [i \in Slots |-> IF i = 1 /\ att[a].amount > 0 THEN "Paid" ELSE Schedule(i, balance)]
    BY <1>2 DEF EnsurePlan
  <2> HIDE DEF balance
  <2>6. inst' \in [Slots -> InstalmentStatus]
    BY <2>5 DEF InstalmentStatus, Schedule
  <2>7. ASSUME NEW i \in Slots, inst'[i] # "none" PROVE (i - 1) * Share <= balance
    <3>1. CASE i = 1
      BY <2>1, <3>1
    <3>2. CASE i # 1
      BY <2>1, <2>5, <2>7, <3>2, SlotsType DEF Schedule
    <3> QED
      BY <3>1, <3>2
  <2> QED
    BY <2>4, <2>6, <2>7 DEF PlanOK, Scheduled, Planned
<1> QED
  BY <1>1, <1>2

-----------------------------------------------------------------------------
(* Requests and jobs that write, one by one. *)

LEMMA AnswerType ==
  ASSUME trouble \in Nat, NEW type, NEW a, Answer(type, a)
  PROVE  /\ events' \subseteq events
         /\ \A e \in events : e \in events' \/ e = [type |-> type, a |-> a]
         /\ trouble' \in Nat
BY DEF Answer, GoWrong

LEMMA InitiateOK ==
  ASSUME IInv, NEW a \in Attempts, NEW option \in Option, Initiate(a, option)
  PROVE  IInv'
<1>1. PICK amount \in Amounts(option) : CreateCheckout(a, option, amount)
  BY DEF Initiate
<1>2. amount \in Nat
  <2>1. acct.out \in Nat
    BY DEF IInv, TypeOK, Account
  <2>2. \A i \in NextUnpaid(inst) : i \in Slots /\ InstalmentAmount(i) \in Nat
    BY InstalmentType DEF NextUnpaid, Planned, Unpaid
  <2>3. CASE option = "pay_in_full"
    BY <2>1, <2>3 DEF Amounts
  <2>4. CASE option = "partial"
    BY <2>4 DEF Amounts
  <2>5. CASE option = "payment_plan"
    BY <2>1, <2>5, LeastNat DEF Amounts
  <2>6. CASE option = "pay_next"
    BY <2>1, <2>2, <2>6, LeastNat DEF Amounts
  <2> QED
    BY <2>3, <2>4, <2>5, <2>6 DEF Option
<1> DEFINE quoted == option = "payment_plan"
           total == IF quoted THEN acct.out ELSE 0
           start == CASE ~quoted -> 0 [] amount > 0 -> day [] OTHER -> day + 1
<1>3. PICK status \in {"Processing", "Failed"} :
        att' = [att EXCEPT ![a] = [NoRow EXCEPT !.status = status, !.option = option, !.amount = amount,
                                                !.total = total, !.start = start]]
  BY <1>1 DEF CreateCheckout, NewAttempt
<1>a. total \in Nat /\ start \in Nat
  <2>1. acct.out \in Nat /\ day \in Nat
    BY DEF IInv, TypeOK, Account
  <2>2. total \in {acct.out, 0} /\ start \in {0, day, day + 1}
    OBVIOUS
  <2> HIDE DEF total, start
  <2> QED
    BY <2>1, <2>2
<1> HIDE DEF total, start, quoted
<1> DEFINE row == [NoRow EXCEPT !.status = status, !.option = option, !.amount = amount,
                                !.total = total, !.start = start]
<1>4. row \in AttemptRow /\ row.seq = 0 /\ row.status = status
  BY <1>2, <1>a, RowsType DEF AttemptRow, NoRow
<1> HIDE DEF row
<1>5. att' = [att EXCEPT ![a] = row]
  BY <1>3 DEF row
<1>6. stripe' = [stripe EXCEPT ![a] = "open"] \/ stripe' = stripe
  BY <1>1 DEF CreateCheckout
<1>7. att[a] = NoRow /\ stripe[a] = "none" /\ \A u \in Threads : th[u] # Idle => th[u].a # a
  BY DEF Initiate, Fresh
<1>8. PlanOK'
  BY PlanType, MarkOverdueOK DEF Initiate
<1>9. TypeOK'
  <2>1. att' \in [Attempts -> AttemptRow] /\ stripe' \in [Attempts -> Held]
    BY <1>4, <1>5, <1>6 DEF IInv, TypeOK, Held
  <2>2. trouble' \in Nat
    BY <1>1 DEF CreateCheckout, GoWrong, IInv, TypeOK
  <2> QED
    BY <1>8, <2>1, <2>2 DEF Initiate, IInv, TypeOK, PlanOK
<1>10. ThreadsOK'
  <2> SUFFICES ASSUME NEW u \in Threads, th'[u] # Idle
               PROVE  ThreadOK(u)'
    BY DEF ThreadsOK
  <2>1. th' = th /\ UNCHANGED <<txn, key, refund>>
    BY DEF Initiate
  <2>2. th[u] # Idle /\ ThreadOK(u)
    BY <2>1 DEF IInv, ThreadsOK
  <2>3. th[u].a \in Attempts => att'[th[u].a] = att[th[u].a] /\ stripe'[th[u].a] = stripe[th[u].a]
    BY <1>5, <1>6, <1>7, <2>2 DEF IInv, TypeOK
  <2>4. Keeps(u)
    BY <2>1, <2>2, <2>3 DEF Keeps, Same, ThreadOK, OwnRow, Matched, Charging
  <2> QED
    BY <2>1, <2>2, <2>4, OthersOK DEF IInv
<1>11. RowsOK'
  <2> SUFFICES ASSUME NEW b \in Attempts
               PROVE  RowOK(b)'
    BY DEF RowsOK
  <2>0. UNCHANGED <<txn, key, refund, events, missed>>
    BY DEF Initiate
  <2>1. RowOK(b)
    BY DEF IInv, RowsOK
  <2>2. CASE b = a
    <3>1. att'[b] = row /\ stripe'[b] \in {"none", "open"}
      BY <1>5, <1>6, <1>7, <2>2 DEF IInv, TypeOK
    <3>2. stripe'[b] # "paid" /\ stripe[b] # "paid"
      BY <1>7, <2>2, <3>1
    <3>3. KeyKept(b)' /\ Confirmed(b)' /\ PaymentKnown(b)'
      BY <1>4, <3>1, <3>2 DEF KeyKept, Confirmed, PaymentKnown
    <3>4. RefundKnown(b)' /\ OneEntry(b)' /\ EventsTrue(b)'
      BY <2>0, <2>1, <3>2 DEF RowOK, RefundKnown, OneEntry, EventsTrue
    <3> QED
      BY <3>3, <3>4 DEF RowOK
  <2>3. CASE b # a
    <3>1. att'[b] = att[b] /\ stripe'[b] = stripe[b]
      BY <1>5, <1>6, <2>3 DEF IInv, TypeOK
    <3> QED
      BY <2>0, <2>1, <3>1 DEF RowOK, KeyKept, Confirmed, PaymentKnown, RefundKnown, OneEntry, EventsTrue, Booked
  <2> QED
    BY <2>2, <2>3
<1> QED
  BY <1>8, <1>9, <1>10, <1>11 DEF IInv, PlanOK

LEMMA RefreshOverdueOK ==
  ASSUME IInv, NEW t \in Threads, RefreshOverduePlans(t)
  PROVE  IInv'
<1>1. PlanOK'
  BY PlanType, MarkOverdueOK DEF RefreshOverduePlans
<1>2. th' \in [Threads -> {Idle} \cup Jobs] /\ ThreadsOK'
  BY EndType, SameThreads DEF RefreshOverduePlans, IInv, TypeOK
<1>3. TypeOK'
  BY <1>1, <1>2 DEF RefreshOverduePlans, IInv, TypeOK, PlanOK
<1>4. ASSUME NEW b \in Attempts PROVE RowOK(b)'
  <2>1. RowOK(b)
    BY DEF IInv, RowsOK
  <2> QED
    BY <2>1 DEF RefreshOverduePlans, RowOK, KeyKept, Confirmed, PaymentKnown, RefundKnown, OneEntry,
                EventsTrue, Booked
<1> QED
  BY <1>1, <1>2, <1>3, <1>4 DEF IInv, PlanOK, RowsOK

\* An event that is answered, and is not about a payment or a refund, leaves the
\* rest of the ledger as it is.
LEMMA AnsweredRows ==
  ASSUME RowsOK, NEW a \in Attempts, NEW type, type \notin {"paid", "refund"}, Answer(type, a),
         trouble \in Nat, UNCHANGED <<txn, stripe, key, refund, missed>>,
         \A b \in Attempts :
            /\ att'[b].seq = att[b].seq /\ att'[b].amount = att[b].amount
            /\ att[b].status # "none" => att'[b].status # "none"
            /\ att'[b].status = "Succeeded" => att[b].status = "Succeeded"
  PROVE  RowsOK'
<1>0. events' \subseteq events /\ \A e \in events : e.type \in {"paid", "refund"} => e \in events'
  BY AnswerType
<1>1. ASSUME NEW b \in Attempts PROVE RowOK(b)'
  <2>1. RowOK(b)
    BY DEF RowsOK
  <2>2. KeyKept(b)' /\ Confirmed(b)' /\ OneEntry(b)'
    BY <2>1 DEF RowOK, KeyKept, Confirmed, OneEntry, Booked
  <2>3. PaymentKnown(b)' /\ RefundKnown(b)' /\ EventsTrue(b)'
    BY <1>0, <2>1 DEF RowOK, PaymentKnown, RefundKnown, EventsTrue, PaidEvent, RefundEvent, Booked
  <2> QED
    BY <2>2, <2>3 DEF RowOK
<1> QED
  BY <1>1 DEF RowsOK

LEMMA RecordAutoChargeFailureOK ==
  ASSUME IInv, NEW t \in Threads, RecordAutoChargeFailure(t)
  PROVE  IInv'
<1>0. /\ th[t] # Idle /\ th[t] \in Jobs /\ ThreadOK(t) /\ th[t].op = "failed"
  BY DEF RecordAutoChargeFailure, Busy, IInv, TypeOK, ThreadsOK
<1>1. th[t].a \in Attempts /\ att[th[t].a].seq \in Slots /\ th[t].ev \notin {"paid", "refund"}
  BY <1>0 DEF ThreadOK, OwnRow, Answers
<1>2. PlanOK'
  BY <1>1, PlanType, ChargeFailedOK DEF RecordAutoChargeFailure
<1>3. th' \in [Threads -> {Idle} \cup Jobs] /\ ThreadsOK'
  BY EndType, SameThreads DEF RecordAutoChargeFailure, IInv, TypeOK
<1>4. trouble' \in Nat /\ events' \subseteq events
  BY AnswerType DEF RecordAutoChargeFailure, IInv, TypeOK
<1>5. TypeOK'
  BY <1>2, <1>3, <1>4 DEF RecordAutoChargeFailure, IInv, TypeOK, PlanOK
<1>6. RowsOK'
  BY <1>1, AnsweredRows DEF RecordAutoChargeFailure, IInv, TypeOK
<1> QED
  BY <1>2, <1>3, <1>5, <1>6 DEF IInv, PlanOK

LEMMA WriteStatusOK ==
  ASSUME IInv, NEW t \in Threads, WriteStatus(t)
  PROVE  IInv'
<1> DEFINE a == th[t].a
<1>0. /\ th[t] # Idle /\ th[t] \in Jobs /\ ThreadOK(t) /\ th[t].op = "write"
  BY DEF WriteStatus, Busy, IInv, TypeOK, ThreadsOK
<1>1. a \in Attempts /\ att[a].status # "none" /\ th[t].ev \notin {"paid", "refund"}
  BY <1>0 DEF ThreadOK, OwnRow, Answers, Matched
<1> DEFINE status == Written(th[t])
           pi == att[a].pi \/ th[t].ev = "pending"
<1>2. att' = [att EXCEPT ![a].status = status, ![a].pi = pi]
  BY <1>1 DEF WriteStatus, IInv, TypeOK, AttemptRow
<1>a. status \in {"Processing", "Expired", "Cancelled"} /\ pi \in BOOLEAN
  BY <1>1 DEF Written, IInv, TypeOK, AttemptRow
<1> HIDE DEF status, pi
<1>3. /\ att' \in [Attempts -> AttemptRow]
      /\ att'[a].status = status
      /\ \A b \in Attempts : /\ att'[b].seq = att[b].seq /\ att'[b].amount = att[b].amount
                             /\ b # a => att'[b] = att[b]
  BY <1>1, <1>2, <1>a DEF IInv, TypeOK, AttemptRow
<1>4. /\ th' \in [Threads -> {Idle} \cup Jobs] /\ th'[t] = Idle
      /\ \A u \in Threads : th'[u] # Idle => u # t /\ th[u] # Idle /\ Same(u)
  BY EndType DEF WriteStatus, IInv, TypeOK
<1>5. trouble' \in Nat /\ events' \subseteq events
  BY AnswerType DEF WriteStatus, IInv, TypeOK
<1>6. TypeOK'
  BY <1>3, <1>4, <1>5 DEF WriteStatus, IInv, TypeOK
<1>7. ThreadsOK'
  <2> SUFFICES ASSUME NEW u \in Threads, th'[u] # Idle
               PROVE  ThreadOK(u)'
    BY DEF ThreadsOK
  <2>1. th[u] # Idle /\ Same(u) /\ ThreadOK(u) /\ u # t
    BY <1>4 DEF IInv, ThreadsOK
  <2>2. th[u].op \in Charging => th[u].a # a
    BY <1>0, <2>1 DEF ThreadOK, OwnRow
  <2>3. Keeps(u)
    BY <1>1, <1>3, <1>a, <2>1, <2>2 DEF Keeps, WriteStatus, ThreadOK, OwnRow, Matched, Charging
  <2> QED
    BY <1>4, <2>1, <2>3, OthersOK DEF IInv, Same
<1>8. RowsOK'
  BY <1>1, <1>3, <1>a, AnsweredRows DEF WriteStatus, IInv, TypeOK
<1> QED
  BY <1>6, <1>7, <1>8, PlanType, SamePlan DEF IInv, PlanOK, WriteStatus

LEMMA ApplyFailedOK ==
  ASSUME IInv, NEW t \in Threads, ApplyFailed(t)
  PROVE  IInv'
<1> DEFINE a == th[t].a
<1>0. /\ th[t] # Idle /\ th[t] \in Jobs /\ ThreadOK(t) /\ th[t].op = "fail"
  BY DEF ApplyFailed, Busy, IInv, TypeOK, ThreadsOK
<1>1. a \in Attempts /\ att[a].status # "none" /\ th[t].ev \notin {"paid", "refund"}
  BY <1>0 DEF ThreadOK, OwnRow, Answers, Matched
<1>2. att' = [att EXCEPT ![a].status = "Failed", ![a].pi = TRUE]
  BY DEF ApplyFailed
<1>3. /\ att' \in [Attempts -> AttemptRow]
      /\ att'[a].status = "Failed"
      /\ \A b \in Attempts : /\ att'[b].seq = att[b].seq /\ att'[b].amount = att[b].amount
                             /\ b # a => att'[b] = att[b]
  BY <1>1, <1>2 DEF IInv, TypeOK, AttemptRow
<1>4. /\ th' \in [Threads -> {Idle} \cup Jobs]
      /\ \A u \in Threads \ {t} : th'[u] # Idle => th[u] # Idle /\ Same(u)
      /\ th'[t] # Idle => /\ th'[t].op = "failed" /\ th'[t].a = a /\ th'[t].ev = th[t].ev
                          /\ att[a].seq > 0
  <2>1. CASE att[a].seq > 0
    <3>1. th' = [th EXCEPT ![t].op = "failed"]
      BY <2>1 DEF ApplyFailed
    <3> QED
      BY <1>0, <2>1, <3>1 DEF IInv, TypeOK, Jobs, JobKind, Same
  <2>2. CASE ~(att[a].seq > 0)
    <3>1. End(t)
      BY <2>2 DEF ApplyFailed
    <3> QED
      BY <3>1, EndType DEF IInv, TypeOK
  <2> QED
    BY <2>1, <2>2
<1>5. /\ trouble' \in Nat /\ events' \subseteq events
      /\ \A e \in events : e \in events' \/ e = [type |-> th[t].ev, a |-> a]
  BY AnswerType DEF ApplyFailed, IInv, TypeOK
<1>6. TypeOK'
  BY <1>3, <1>4, <1>5 DEF ApplyFailed, IInv, TypeOK
<1>7. ThreadsOK'
  <2> SUFFICES ASSUME NEW u \in Threads, th'[u] # Idle
               PROVE  ThreadOK(u)'
    BY DEF ThreadsOK
  <2>1. CASE u # t
    <3>1. th[u] # Idle /\ Same(u) /\ ThreadOK(u)
      BY <1>4, <2>1 DEF IInv, ThreadsOK
    <3>2. th[u].op \in Charging => th[u].a # a
      BY <1>0, <2>1, <3>1 DEF ThreadOK, OwnRow
    <3>3. Keeps(u)
      BY <1>1, <1>3, <3>1, <3>2 DEF Keeps, ApplyFailed, ThreadOK, OwnRow, Matched, Charging
    <3> QED
      BY <1>0, <1>4, <3>1, <3>3, OthersOK DEF IInv, Same
  <2>2. CASE u = t
    <3>1. att[a].seq \in Slots
      BY <1>1, <1>4, <2>2 DEF IInv, TypeOK, AttemptRow
    <3>2. OwnRow(u)'
      BY <1>1, <1>3, <1>4, <2>2, <3>1 DEF OwnRow, Charging, Matched
    <3>3. Grounded(u)' /\ Answers(u)' /\ Applies(u)' /\ ReadBefore(u)'
      BY <1>1, <1>4, <2>2 DEF Grounded, Answers, Applies, ReadBefore
    <3> QED
      BY <3>2, <3>3 DEF ThreadOK
  <2> QED
    BY <2>1, <2>2
<1>8. RowsOK'
  <2>1. CASE att[a].seq > 0
    <3> SUFFICES ASSUME NEW b \in Attempts PROVE RowOK(b)'
      BY DEF RowsOK
    <3>1. RowOK(b) /\ UNCHANGED <<txn, stripe, key, refund, missed, events>>
      BY <2>1 DEF IInv, RowsOK, ApplyFailed
    <3>2. /\ att'[b].seq = att[b].seq /\ att'[b].amount = att[b].amount
          /\ att[b].status # "none" => att'[b].status # "none"
          /\ att'[b].status = "Succeeded" => att[b].status = "Succeeded"
      BY <1>3
    <3> QED
      BY <3>1, <3>2 DEF RowOK, KeyKept, Confirmed, OneEntry, PaymentKnown, RefundKnown, EventsTrue, Booked
  <2>2. CASE ~(att[a].seq > 0)
    <3>1. Answer(th[t].ev, a)
      BY <2>2 DEF ApplyFailed
    <3> QED
      BY <1>1, <1>3, <3>1, AnsweredRows DEF ApplyFailed, IInv, TypeOK
  <2> QED
    BY <2>1, <2>2
<1> QED
  BY <1>6, <1>7, <1>8, PlanType, SamePlan DEF IInv, PlanOK, ApplyFailed

\* A payment's event is answered when the payment is confirmed.
LEMMA ConfirmedRows ==
  ASSUME RowsOK, NEW a \in Attempts, NEW type, type # "refund", Answer(type, a),
         trouble \in Nat, UNCHANGED <<stripe, key, refund, missed>>,
         stripe[a] = "paid", att[a].amount \in Nat, att[a].status # "none",
         att'[a].status = "Succeeded", att'[a].seq = att[a].seq, att'[a].amount = att[a].amount,
         att[a].amount > 0 => Booked(a)', OneEntry(a)', RefundKnown(a)',
         \A b \in Attempts \ {a} : att'[b] = att[b] /\ txn'[b] = txn[b]
  PROVE  RowsOK'
<1>0. /\ events' \subseteq events
      /\ \A e \in events : e \in events' \/ e = [type |-> type, a |-> a]
  BY AnswerType
<1>1. ASSUME NEW b \in Attempts PROVE RowOK(b)'
  <2>1. RowOK(b)
    BY DEF RowsOK
  <2>2. CASE b = a
    <3>1. KeyKept(b)'
      BY <2>1, <2>2 DEF RowOK, KeyKept
    <3>2. Confirmed(b)' /\ PaymentKnown(b)'
      BY <2>2 DEF Confirmed, PaymentKnown
    <3>3. EventsTrue(b)'
      BY <1>0, <2>1 DEF RowOK, EventsTrue, PaidEvent, RefundEvent
    <3> QED
      BY <2>2, <3>1, <3>2, <3>3 DEF RowOK
  <2>3. CASE b # a
    <3>1. att'[b] = att[b] /\ txn'[b] = txn[b]
      BY <2>3
    <3>2. KeyKept(b)' /\ Confirmed(b)' /\ OneEntry(b)'
      BY <2>1, <3>1 DEF RowOK, KeyKept, Confirmed, OneEntry, Booked
    <3>3. PaidEvent(b) \in events => PaidEvent(b) \in events'
      BY <1>0, <2>3 DEF PaidEvent
    <3>4. RefundEvent(b) \in events => RefundEvent(b) \in events'
      BY <1>0, <2>3 DEF RefundEvent
    <3>5. PaymentKnown(b)' /\ RefundKnown(b)'
      BY <2>1, <3>1, <3>3, <3>4 DEF RowOK, PaymentKnown, RefundKnown, Booked
    <3>6. EventsTrue(b)'
      BY <1>0, <2>1 DEF RowOK, EventsTrue, PaidEvent, RefundEvent
    <3> QED
      BY <3>2, <3>5, <3>6 DEF RowOK
  <2> QED
    BY <2>2, <2>3
<1> QED
  BY <1>1 DEF RowsOK

\* The jobs that go on when a payment is confirmed: those of its attempt know
\* they are superseded, and no other applies it.
LEMMA ConfirmedThreads ==
  ASSUME IInv, NEW t \in Threads, th[t] # Idle, NEW a \in Attempts, a = th[t].a, th'[t] = Idle,
         th[t].op \in {"succeed", "apply"},
         UNCHANGED <<stripe, key, refund>>,
         \A u \in Threads : th'[u] # Idle => th[u] # Idle /\ Same(u) /\ (th[u].a = a => th'[u].stale),
         \A u \in Threads \ {t} : Busy(u, "apply") => th[u].a # a \/ UNCHANGED txn,
         att'[a].status = "Succeeded", att'[a].seq = att[a].seq, att'[a].amount = att[a].amount,
         txn[a].pi # "none" => txn'[a].pi # "none",
         \A b \in Attempts \ {a} : att'[b] = att[b] /\ txn'[b] = txn[b]
  PROVE  ThreadsOK'
<1> SUFFICES ASSUME NEW u \in Threads, th'[u] # Idle
             PROVE  ThreadOK(u)'
  BY DEF ThreadsOK
<1>1. th[u] # Idle /\ Same(u) /\ ThreadOK(u) /\ ThreadOK(t) /\ u # t
  BY DEF IInv, ThreadsOK
<1>2. th[u].op \in Charging => th[u].a \in Attempts \ {a}
  BY <1>1 DEF ThreadOK, OwnRow, Charging
<1>3. th[u].op \in Matched => th[u].a \in Attempts
  BY <1>1 DEF ThreadOK, OwnRow, Matched
<1>4. Keeps(u)
  <2>1. CASE th[u].op \in Charging
    BY <1>1, <1>2, <2>1 DEF Keeps, Charging, Matched
  <2>2. CASE th[u].op \in Matched /\ th[u].a # a
    BY <1>1, <1>3, <2>2 DEF Keeps, Charging, Matched, ThreadOK, OwnRow
  <2>3. CASE th[u].op \in Matched /\ th[u].a = a
    BY <1>1, <2>3 DEF Keeps, Charging, Matched, Busy
  <2>4. CASE th[u].op \notin Charging \cup Matched
    BY <1>1, <2>4 DEF Keeps, Charging, Matched
  <2> QED
    BY <2>1, <2>2, <2>3, <2>4
<1> QED
  BY <1>1, <1>4, OthersOK DEF IInv, Same

LEMMA SucceededRow ==
  ASSUME att \in [Attempts -> AttemptRow], NEW a \in Attempts,
         att' = [att EXCEPT ![a].status = "Succeeded"]
  PROVE  /\ att' \in [Attempts -> AttemptRow]
         /\ att'[a].status = "Succeeded" /\ att'[a].seq = att[a].seq /\ att'[a].amount = att[a].amount
         /\ \A b \in Attempts \ {a} : att'[b] = att[b]
<1> DEFINE row == [att[a] EXCEPT !.status = "Succeeded"]
<1>1. att[a] \in AttemptRow
  OBVIOUS
<1>2. row \in AttemptRow /\ row.status = "Succeeded" /\ row.seq = att[a].seq /\ row.amount = att[a].amount
  BY <1>1 DEF AttemptRow
<1>3. att' = [att EXCEPT ![a] = row]
  OBVIOUS
<1> HIDE DEF row
<1> QED
  BY <1>2, <1>3

LEMMA LockAttemptOK ==
  ASSUME IInv, NEW t \in Threads, NEW a \in Attempts, a = th[t].a, LockAttempt(t)
  PROVE  IInv'
<1>0. /\ th[t] # Idle /\ th[t] \in Jobs /\ ThreadOK(t) /\ th[t].op = "succeed"
  BY DEF LockAttempt, Busy, IInv, TypeOK, ThreadsOK
<1>1. a \in Attempts /\ att[a].status # "none" /\ th[t].ev # "refund" /\ stripe[a] = "paid"
  BY <1>0 DEF ThreadOK, OwnRow, Answers, Matched, Grounded
<1>2. RowOK(a) /\ att[a].amount \in Nat /\ UNCHANGED <<txn, stripe, key, refund, missed>>
  BY <1>1 DEF IInv, RowsOK, TypeOK, AttemptRow, LockAttempt
<1>3. CASE Recorded(a, th[t].ref) /\ att[a].amount > 0
  <2>1. /\ att' = [att EXCEPT ![a].status = "Succeeded"]
        /\ Answer(th[t].ev, a)
        /\ EndOver(t, Of(a))
    BY <1>3 DEF LockAttempt
  <2>a. att' = [att EXCEPT ![a].status = "Succeeded"]
    BY <2>1
  <2>2. /\ att' \in [Attempts -> AttemptRow]
        /\ att'[a].status = "Succeeded" /\ att'[a].seq = att[a].seq /\ att'[a].amount = att[a].amount
        /\ \A b \in Attempts \ {a} : att'[b] = att[b]
    <3>1. att \in [Attempts -> AttemptRow]
      BY DEF IInv, TypeOK
    <3> QED
      BY <1>1, <2>a, <3>1, SucceededRow
  <2>3. /\ th' \in [Threads -> {Idle} \cup Jobs] /\ th'[t] = Idle
        /\ \A u \in Threads : th'[u] # Idle => u # t /\ th[u] # Idle /\ Same(u)
        /\ \A u \in Threads \cap Of(a) : th'[u] # Idle => th'[u].stale
    BY <2>1, EndOverType DEF Of, IInv, TypeOK
  <2>4. \A u \in Threads : th'[u] # Idle /\ th[u].a = a => th'[u].stale
    BY <2>3 DEF Of
  <2>5. Booked(a)
    <3>1. th[t].ref \in Reference
      BY <1>0 DEF Jobs
    <3> QED
      BY <1>3, <3>1 DEF Recorded, Booked
  <2>6. trouble' \in Nat /\ events' \subseteq events
    BY <2>1, AnswerType DEF IInv, TypeOK
  <2>7. TypeOK'
    BY <2>2, <2>3, <2>6 DEF LockAttempt, IInv, TypeOK
  <2>8. Booked(a)' /\ OneEntry(a)'
    BY <1>2, <2>5 DEF Booked, RowOK, OneEntry
  <2>9. RefundKnown(a)'
    <3>1. RefundEvent(a) \in events => RefundEvent(a) \in events'
      BY <1>1, <2>1, AnswerType DEF RefundEvent, IInv, TypeOK
    <3> QED
      BY <1>2, <3>1 DEF RowOK, RefundKnown
  <2>10. RowsOK'
    BY <1>1, <1>2, <2>1, <2>2, <2>8, <2>9, ConfirmedRows DEF IInv, TypeOK
  <2>11. ThreadsOK'
    BY <1>0, <1>1, <1>2, <2>2, <2>3, <2>4, ConfirmedThreads
  <2> QED
    BY <2>7, <2>10, <2>11, PlanType, SamePlan DEF IInv, PlanOK, LockAttempt
<1>4. CASE ~(Recorded(a, th[t].ref) /\ att[a].amount > 0)
  <2> DEFINE was == IF Polled(th[t]) THEN th[t].was ELSE acct
  <2>a. was \in Account /\ th \in [Threads -> {Idle} \cup Jobs]
    BY <1>0 DEF IInv, TypeOK, Jobs
  <2>b. /\ th' = [th EXCEPT ![t].op = "apply", ![t].stale = FALSE, ![t].was = was]
        /\ UNCHANGED <<att, events, trouble>>
    BY <1>0, <1>4, <2>a DEF LockAttempt
  <2> HIDE DEF was
  <2>1. UNCHANGED <<att, events, trouble>>
    BY <2>b
  <2>2. /\ th' \in [Threads -> {Idle} \cup Jobs]
        /\ th'[t].op = "apply" /\ th'[t].a = a /\ th'[t].ev = th[t].ev
        /\ \A u \in Threads \ {t} : th'[u] = th[u]
    BY <1>0, <2>a, <2>b DEF Jobs, JobKind
  <2>3. \A u \in Threads : Busy(u, "apply") => th[u].a # a
    BY DEF LockAttempt, Locked
  <2>4. TypeOK'
    BY <2>1, <2>2 DEF LockAttempt, IInv, TypeOK
  <2>5. ASSUME NEW u \in Threads, th'[u] # Idle PROVE ThreadOK(u)'
    <3>1. CASE u # t
      <4>1. th[u] # Idle /\ Same(u) /\ ThreadOK(u)
        BY <2>2, <2>5, <3>1 DEF IInv, ThreadsOK, Same
      <4>2. Keeps(u)
        BY <1>2, <2>1, <4>1 DEF Keeps, ThreadOK, OwnRow
      <4>3. th[u].op = "apply" => th[u].a # a
        BY <2>3, <4>1 DEF Busy
      <4>4. \A v \in Threads \ {u} : th'[v] # Idle =>
              /\ th[v] # Idle /\ th'[v].a = th[v].a
              /\ th'[v].op = "apply" => th[v].op = "apply" \/ v = t
        BY <1>0, <2>2
      <4>5. CASE th[u].a # a
        BY <2>5, <4>1, <4>2, <4>4, <4>5, OthersOK DEF IInv
      <4>6. CASE th[u].a = a
        <5>1. th[u].op # "apply" /\ ThreadOK(u) /\ Same(u)
          BY <4>1, <4>3, <4>6
        <5>2. OwnRow(u)'
          BY <2>1, <4>4, <5>1 DEF ThreadOK, OwnRow, Same
        <5>3. Grounded(u)' /\ Answers(u)' /\ Applies(u)' /\ ReadBefore(u)'
          BY <1>2, <2>1, <5>1 DEF ThreadOK, Grounded, Answers, Applies, ReadBefore, Same
        <5> QED
          BY <5>2, <5>3 DEF ThreadOK
      <4> QED
        BY <4>5, <4>6
    <3>2. CASE u = t
      <4>1. OwnRow(u)' /\ Answers(u)'
        BY <1>1, <2>1, <2>2, <3>2 DEF OwnRow, Answers, Charging, Matched
      <4>2. Grounded(u)' /\ ReadBefore(u)'
        BY <1>1, <1>2, <2>2, <3>2 DEF Grounded, ReadBefore
      <4>3. Applies(u)'
        <5>1. att[a].amount > 0 => txn[a].pi # "Succeeded" /\ txn[a].session # "Succeeded"
          BY <1>4 DEF Recorded, Reference
        <5>2. \A v \in Threads \ {t} : Busy(v, "apply")' => th'[v].a # a
          BY <2>2, <2>3 DEF Busy
        <5> QED
          BY <1>2, <2>1, <2>2, <3>2, <5>1, <5>2 DEF Applies
      <4> QED
        BY <4>1, <4>2, <4>3 DEF ThreadOK
    <3> QED
      BY <3>1, <3>2
  <2> QED
    BY <1>2, <2>1, <2>4, <2>5, SameRows DEF IInv, LockAttempt, ThreadsOK
<1> QED
  BY <1>3, <1>4

LEMMA ApplySetupOK ==
  ASSUME IInv, NEW t \in Threads, NEW a \in Attempts, a = th[t].a, ApplySetup(t)
  PROVE  IInv'
<1>0. /\ th[t] # Idle /\ th[t] \in Jobs /\ ThreadOK(t) /\ th[t].op = "apply"
  BY DEF ApplySetup, Busy, IInv, TypeOK, ThreadsOK
<1>1. a \in Attempts /\ att[a].status # "none" /\ th[t].ev # "refund" /\ stripe[a] = "paid"
  BY <1>0 DEF ThreadOK, OwnRow, Answers, Matched, Grounded
<1>2. RowOK(a) /\ att[a].amount = 0 /\ UNCHANGED <<txn, stripe, key, refund, missed>>
  BY <1>1 DEF IInv, RowsOK, ApplySetup
<1>3. /\ att' = [att EXCEPT ![a].status = "Succeeded"]
      /\ \E saved \in BOOLEAN : EnsurePlan(a, saved)
      /\ acct' = [acct EXCEPT !.status = IF plan.status \in Running THEN @ ELSE "Payment Plan"]
      /\ Answer(th[t].ev, a)
      /\ EndOver(t, Of(a))
  BY DEF ApplySetup
<1>a. att' = [att EXCEPT ![a].status = "Succeeded"]
  BY <1>3
<1>4. /\ att' \in [Attempts -> AttemptRow]
      /\ att'[a].status = "Succeeded" /\ att'[a].seq = att[a].seq /\ att'[a].amount = att[a].amount
      /\ \A b \in Attempts \ {a} : att'[b] = att[b]
  <2>1. att \in [Attempts -> AttemptRow]
    BY DEF IInv, TypeOK
  <2> QED
    BY <1>1, <1>a, <2>1, SucceededRow
<1>5. /\ th' \in [Threads -> {Idle} \cup Jobs] /\ th'[t] = Idle
      /\ \A u \in Threads : th'[u] # Idle => u # t /\ th[u] # Idle /\ Same(u)
      /\ \A u \in Threads \cap Of(a) : th'[u] # Idle => th'[u].stale
  BY <1>3, EndOverType DEF Of, IInv, TypeOK
<1>6. \A u \in Threads : th'[u] # Idle /\ th[u].a = a => th'[u].stale
  BY <1>5 DEF Of
<1>7. trouble' \in Nat /\ events' \subseteq events
  BY <1>3, AnswerType DEF IInv, TypeOK
<1>8. acct' \in Account
  BY <1>3 DEF IInv, TypeOK, Account
<1>9. PlanOK'
  <2>2. PICK saved \in BOOLEAN : EnsurePlan(a, saved)
    BY <1>3
  <2>3. att \in [Attempts -> AttemptRow]
    BY DEF IInv, TypeOK
  <2> QED
    BY <1>1, <2>2, <2>3, PlanType, EnsurePlanOK
<1>10. TypeOK'
  BY <1>4, <1>5, <1>7, <1>8, <1>9 DEF ApplySetup, IInv, TypeOK, PlanOK
<1>11. RefundKnown(a)'
  <2>1. RefundEvent(a) \in events => RefundEvent(a) \in events'
    BY <1>1, <1>3, AnswerType DEF RefundEvent, IInv, TypeOK
  <2> QED
    BY <1>2, <2>1 DEF RowOK, RefundKnown
<1>12. OneEntry(a)'
  BY <1>2 DEF RowOK, OneEntry
<1>13. RowsOK'
  <2>1. att[a].amount \in Nat /\ ~(att[a].amount > 0)
    BY <1>2
  <2>2. RowsOK /\ trouble \in Nat
    BY DEF IInv, TypeOK
  <2>3. \A b \in Attempts \ {a} : att'[b] = att[b] /\ txn'[b] = txn[b]
    BY <1>2, <1>4
  <2>4. Answer(th[t].ev, a)
    BY <1>3
  <2> QED
    BY <1>1, <1>2, <1>4, <1>11, <1>12, <2>1, <2>2, <2>3, <2>4, ConfirmedRows
<1>14. ThreadsOK'
  BY <1>0, <1>1, <1>2, <1>4, <1>5, <1>6, ConfirmedThreads
<1> QED
  BY <1>9, <1>10, <1>13, <1>14 DEF IInv, PlanOK

LEMMA WriteAccountType ==
  ASSUME TypeOK, NEW t \in Threads, th[t] # Idle, NEW new \in Account, WriteAccount(t, new)
  PROVE  acct' \in Account /\ lost' \in BOOLEAN
<1> DEFINE out == Column(th[t].was.out, new.out, acct.out)
           rec == Column(th[t].was.rec, new.rec, acct.rec)
           status == Column(th[t].was.status, new.status, acct.status)
<1>1. /\ out \in Nat /\ rec \in Nat
      /\ status \in {"Active", "Payment Plan", "Resolved"}
  BY DEF Column, TypeOK, Account
<1>2. acct' = [out |-> out, rec |-> rec, status |-> status]
  BY DEF WriteAccount
<1>3. /\ lost' = (lost \/ th[t].stale \/ th[t].was.out # acct.out \/ th[t].was.rec # acct.rec)
      /\ th[t] \in Jobs
  BY DEF WriteAccount, TypeOK
<1> HIDE DEF out, rec, status
<1>4. acct' \in Account
  BY <1>1, <1>2 DEF Account
<1>5. lost' \in BOOLEAN
  BY <1>3 DEF TypeOK, Jobs
<1> QED
  BY <1>4, <1>5

LEMMA ApplySucceededOK ==
  ASSUME IInv, NEW t \in Threads, NEW a \in Attempts, a = th[t].a, ApplySucceeded(t)
  PROVE  IInv'
<1> DEFINE was == th[t].was
           out == Part(was.out - att[a].amount)
           new == [out |-> out, rec |-> was.rec + att[a].amount, status |-> StatusAfter(a, was.status, out)]
           others == Of(a)
<1>0. /\ th[t] # Idle /\ th[t] \in Jobs /\ ThreadOK(t) /\ th[t].op = "apply"
  BY DEF ApplySucceeded, Busy, IInv, TypeOK, ThreadsOK
<1>1. att[a].status # "none" /\ th[t].ev # "refund" /\ stripe[a] = "paid" /\ att[a].amount > 0
  BY <1>0 DEF ThreadOK, OwnRow, Answers, Matched, Grounded, ApplySucceeded
<1>2. /\ RowOK(a) /\ att[a].amount \in Nat /\ txn[a] \in Transactions
      /\ UNCHANGED <<stripe, key, refund, missed, offers, day>>
  BY DEF IInv, RowsOK, TypeOK, AttemptRow, ApplySucceeded
<1>3. /\ WriteAccount(t, new)
      /\ att' = [att EXCEPT ![a].status = "Succeeded"]
      /\ txn' = [txn EXCEPT ![a][th[t].ref] = "Succeeded"]
      /\ Answer(th[t].ev, a)
  BY DEF ApplySucceeded
<1>a. att' = [att EXCEPT ![a].status = "Succeeded"]
  BY <1>3
<1>4. /\ att' \in [Attempts -> AttemptRow]
      /\ att'[a].status = "Succeeded" /\ att'[a].seq = att[a].seq /\ att'[a].amount = att[a].amount
      /\ \A b \in Attempts \ {a} : att'[b] = att[b]
  <2>1. att \in [Attempts -> AttemptRow]
    BY DEF IInv, TypeOK
  <2> QED
    BY <1>a, <2>1, SucceededRow
<1>b. EndOver(t, others)
  BY <1>3 DEF WriteAccount
<1>5. /\ th' \in [Threads -> {Idle} \cup Jobs] /\ th'[t] = Idle
      /\ \A u \in Threads : th'[u] # Idle => u # t /\ th[u] # Idle /\ Same(u)
      /\ \A u \in Threads \cap others : th'[u] # Idle => th'[u].stale
  <2>1. \A u \in others : th[u] # Idle
    BY DEF Of, Busy
  <2>2. th \in [Threads -> {Idle} \cup Jobs]
    BY DEF IInv, TypeOK
  <2> HIDE DEF others
  <2> QED
    BY <1>b, <2>1, <2>2, EndOverType
<1>6. \A u \in Threads : th'[u] # Idle /\ th[u].a = a => th'[u].stale
  BY <1>5 DEF Of
<1>7. trouble' \in Nat /\ events' \subseteq events
  BY <1>3, AnswerType DEF IInv, TypeOK
<1>8. acct' \in Account /\ lost' \in BOOLEAN
  <2>1. was.out \in Nat /\ was.rec \in Nat /\ was.status \in {"Active", "Payment Plan", "Resolved"}
    BY <1>0 DEF Jobs, Account
  <2>a. att[a].amount \in Nat
    BY <1>2
  <2>b. was.out - att[a].amount \in Int /\ was.rec + att[a].amount \in Nat
    BY <2>1, <2>a, SumsType
  <2>2. out \in Nat
    BY <2>b, PartType
  <2>3. was.rec + att[a].amount \in Nat
    BY <2>b
  <2> HIDE DEF out, was
  <2>4. StatusAfter(a, was.status, out) \in {"Active", "Payment Plan", "Resolved"}
    BY <2>1 DEF StatusAfter
  <2>5. new \in Account
    BY <2>2, <2>3, <2>4 DEF Account
  <2> HIDE DEF new
  <2> QED
    BY <1>0, <1>3, <2>5, WriteAccountType DEF IInv
<1>9. PlanOK'
  <2>2. att \in [Attempts -> AttemptRow]
    BY DEF IInv, TypeOK
  <2>3. \/ \E saved \in BOOLEAN : EnsurePlan(a, saved)
        \/ ApplyToPlan(a)
        \/ UNCHANGED plans
    BY DEF ApplySucceeded
  <2>4. ASSUME NEW saved \in BOOLEAN, EnsurePlan(a, saved) PROVE PlanOK'
    BY <2>2, <2>4, PlanType, EnsurePlanOK
  <2> QED
    BY <2>2, <2>3, <2>4, PlanType, ApplyToPlanOK, SamePlan
<1>10. /\ txn' \in [Attempts -> Transactions]
       /\ txn'[a][th[t].ref] = "Succeeded" /\ txn'[a].adj = txn[a].adj
       /\ txn'[a].pi = IF th[t].ref = "pi" THEN "Succeeded" ELSE txn[a].pi
       /\ txn'[a].session = IF th[t].ref = "session" THEN "Succeeded" ELSE txn[a].session
       /\ \A b \in Attempts \ {a} : txn'[b] = txn[b]
       /\ th[t].ref \in Reference
  <2>1. th[t].ref \in Reference /\ txn \in [Attempts -> Transactions]
    BY <1>0 DEF Jobs, IInv, TypeOK
  <2>2. txn' = [txn EXCEPT ![a][th[t].ref] = "Succeeded"]
    BY <1>3
  <2>3. CASE th[t].ref = "pi"
    <3>1. txn' = [txn EXCEPT ![a]["pi"] = "Succeeded"]
      BY <2>2, <2>3
    <3> QED
      BY <2>1, <2>3, <3>1 DEF Transactions, Entry
  <2>4. CASE th[t].ref = "session"
    <3>1. txn' = [txn EXCEPT ![a]["session"] = "Succeeded"]
      BY <2>2, <2>4
    <3> QED
      BY <2>1, <2>4, <3>1 DEF Transactions, Entry
  <2> QED
    BY <2>1, <2>3, <2>4 DEF Reference
<1>11. TypeOK'
  BY <1>2, <1>4, <1>5, <1>7, <1>8, <1>9, <1>10 DEF IInv, TypeOK, PlanOK
<1>12. txn[a].pi # "Succeeded" /\ txn[a].session # "Succeeded"
  BY <1>0, <1>1 DEF ThreadOK, Applies
<1>13. OneEntry(a)'
  BY <1>2, <1>10, <1>12 DEF RowOK, OneEntry, Reference
<1>14. Booked(a)'
  BY <1>10 DEF Booked
<1>15. RefundKnown(a)'
  <2>1. RefundEvent(a) \in events => RefundEvent(a) \in events'
    BY <1>1, <1>3, AnswerType DEF RefundEvent, IInv, TypeOK
  <2>2. txn[a].session = "none"
    BY <1>2, <1>12 DEF RowOK, OneEntry, Transactions, Entry
  <2> QED
    BY <1>2, <1>10, <2>1, <2>2 DEF RowOK, RefundKnown
<1>16. RowsOK'
  <2>1. RowsOK /\ trouble \in Nat
    BY DEF IInv, TypeOK
  <2>2. \A b \in Attempts \ {a} : att'[b] = att[b] /\ txn'[b] = txn[b]
    BY <1>4, <1>10
  <2>3. Answer(th[t].ev, a)
    BY <1>3
  <2> QED
    BY <1>1, <1>2, <1>4, <1>13, <1>14, <1>15, <2>1, <2>2, <2>3, ConfirmedRows
<1>17. ThreadsOK'
  <2>1. \A u \in Threads \ {t} : Busy(u, "apply") => th[u].a # a
    BY <1>0 DEF ThreadOK, Applies
  <2>2. \A b \in Attempts \ {a} : att'[b] = att[b] /\ txn'[b] = txn[b]
    BY <1>4, <1>10
  <2>3. txn[a].pi # "none" => txn'[a].pi # "none"
    BY <1>10
  <2> HIDE DEF others
  <2> QED
    BY <1>0, <1>2, <1>4, <1>5, <1>6, <2>1, <2>2, <2>3, ConfirmedThreads
<1> QED
  BY <1>9, <1>11, <1>16, <1>17 DEF IInv, PlanOK

LEMMA ApplyRefundOK ==
  ASSUME IInv, NEW t \in Threads, NEW a \in Attempts, a = th[t].a, ApplyRefund(t)
  PROVE  IInv'
<1> DEFINE was == th[t].was
           out == was.out + refund[a]
           rec == Part(was.rec - refund[a])
           status == IF was.status = "Resolved" THEN "Active" ELSE was.status
           new == [out |-> out, rec |-> rec, status |-> status]
           others == Of(a)
<1>0. /\ th[t] # Idle /\ th[t] \in Jobs /\ ThreadOK(t) /\ th[t].op = "refund"
  BY DEF ApplyRefund, Busy, IInv, TypeOK, ThreadsOK
<1>1. txn[a].pi # "none" /\ txn \in [Attempts -> Transactions] /\ refund[a] \in Nat
  BY <1>0 DEF ThreadOK, Grounded, IInv, TypeOK
<1>2. UNCHANGED <<att, plans, day, offers, stripe, key, refund, missed>>
  BY DEF ApplyRefund
<1>3. /\ WriteAccount(t, new)
      /\ txn' = [txn EXCEPT ![a].pi = "Refunded", ![a].adj = @ + 1]
      /\ Answer("refund", a)
  BY DEF ApplyRefund
<1>4. EndOver(t, others)
  BY <1>3 DEF WriteAccount
<1>5. /\ th' \in [Threads -> {Idle} \cup Jobs] /\ th'[t] = Idle
      /\ \A u \in Threads : th'[u] # Idle => u # t /\ th[u] # Idle /\ Same(u)
  <2>1. \A u \in others : th[u] # Idle
    BY DEF Of, Busy
  <2>2. th \in [Threads -> {Idle} \cup Jobs]
    BY DEF IInv, TypeOK
  <2> HIDE DEF others
  <2> QED
    BY <1>4, <2>1, <2>2, EndOverType
<1>6. acct' \in Account /\ lost' \in BOOLEAN
  <2>1. was.out \in Nat /\ was.rec \in Nat /\ was.status \in {"Active", "Payment Plan", "Resolved"}
    BY <1>0 DEF Jobs, Account
  <2>2. was.rec - refund[a] \in Int /\ was.out + refund[a] \in Nat
    BY <1>1, <2>1, SumsType
  <2>3. out \in Nat /\ rec \in Nat
    BY <2>2, PartType
  <2>4. status \in {"Active", "Payment Plan", "Resolved"}
    BY <2>1
  <2> HIDE DEF out, rec, status
  <2>5. new \in Account
    BY <2>3, <2>4 DEF Account
  <2> HIDE DEF new
  <2> QED
    BY <1>0, <1>3, <2>5, WriteAccountType DEF IInv
<1>7. /\ txn' \in [Attempts -> Transactions]
      /\ txn'[a].pi = "Refunded" /\ txn'[a].session = txn[a].session
      /\ txn'[a].adj > 0
      /\ \A b \in Attempts \ {a} : txn'[b] = txn[b]
  <2>1. txn[a] \in Transactions /\ txn[a].adj \in Nat
    BY <1>1 DEF Transactions
  <2> DEFINE n == txn[a].adj + 1
             row == [txn[a] EXCEPT !.pi = "Refunded", !.adj = n]
  <2>a. n \in Nat /\ n > 0
    BY <2>1
  <2>3. txn' = [txn EXCEPT ![a] = row]
    BY <1>1, <1>3
  <2> HIDE DEF n
  <2>2. /\ row \in Transactions /\ row.pi = "Refunded" /\ row.session = txn[a].session
        /\ row.adj > 0
    BY <2>1, <2>a DEF Transactions, Entry
  <2> HIDE DEF row
  <2> QED
    BY <1>1, <2>2, <2>3
<1>8. TypeOK'
  <2>1. trouble' \in Nat /\ events' \subseteq events
    BY <1>3, AnswerType DEF IInv, TypeOK
  <2> QED
    BY <1>2, <1>5, <1>6, <1>7, <2>1 DEF IInv, TypeOK
<1>9. RowsOK'
  <2> SUFFICES ASSUME NEW b \in Attempts
               PROVE  RowOK(b)'
    BY DEF RowsOK
  <2>1. RowOK(b)
    BY DEF IInv, RowsOK
  <2>2. events' \subseteq events /\ \A e \in events : e \in events' \/ e = RefundEvent(a)
    BY <1>3, AnswerType DEF IInv, TypeOK, RefundEvent
  <2>3. PaidEvent(b) \in events => PaidEvent(b) \in events'
    BY <2>2 DEF PaidEvent, RefundEvent
  <2>4. KeyKept(b)' /\ EventsTrue(b)'
    BY <1>2, <2>1, <2>2 DEF RowOK, KeyKept, EventsTrue, PaidEvent, RefundEvent
  <2>5. CASE b = a
    <3>1. Booked(b)' /\ RefundKnown(b)' /\ OneEntry(b)'
      BY <1>7, <2>1, <2>5 DEF Booked, Reference, RefundKnown, RowOK, OneEntry
    <3>2. Confirmed(b)' /\ PaymentKnown(b)'
      BY <1>2, <2>1, <3>1 DEF RowOK, Confirmed, PaymentKnown
    <3> QED
      BY <2>4, <3>1, <3>2 DEF RowOK
  <2>6. CASE b # a
    <3>1. txn'[b] = txn[b]
      BY <1>7, <2>6
    <3>2. RefundEvent(b) \in events => RefundEvent(b) \in events'
      BY <2>2, <2>6 DEF RefundEvent
    <3>3. Confirmed(b)' /\ PaymentKnown(b)'
      BY <1>2, <2>1, <2>3, <3>1 DEF RowOK, Confirmed, PaymentKnown, Booked
    <3>4. RefundKnown(b)' /\ OneEntry(b)'
      BY <1>2, <2>1, <3>1, <3>2 DEF RowOK, RefundKnown, OneEntry
    <3> QED
      BY <2>4, <3>3, <3>4 DEF RowOK
  <2> QED
    BY <2>5, <2>6
<1>10. ThreadsOK'
  <2> SUFFICES ASSUME NEW u \in Threads, th'[u] # Idle
               PROVE  ThreadOK(u)'
    BY DEF ThreadsOK
  <2>1. th[u] # Idle /\ Same(u) /\ ThreadOK(u)
    BY <1>5 DEF IInv, ThreadsOK
  <2>2. th[u].op \in Matched => att[th[u].a].status # "none" /\ th[u].a \in Attempts
    BY <2>1 DEF ThreadOK, OwnRow, Matched
  <2>3. th[u].a \in Attempts =>
          /\ txn'[th[u].a].pi = "Succeeded" => txn[th[u].a].pi = "Succeeded"
          /\ txn'[th[u].a].session = txn[th[u].a].session
          /\ txn[th[u].a].pi # "none" => txn'[th[u].a].pi # "none"
    <3>1. CASE th[u].a = a
      BY <1>1, <1>7, <3>1
    <3>2. CASE th[u].a # a
      BY <1>7, <3>2
    <3> QED
      BY <3>1, <3>2
  <2>4. Keeps(u)
    BY <1>2, <2>1, <2>2, <2>3 DEF Keeps, Matched
  <2>5. \A v \in Threads : th'[v] # Idle =>
            th[v] # Idle /\ th'[v].a = th[v].a /\ th'[v].op = th[v].op
    BY <1>5 DEF Same
  <2> QED
    BY <2>1, <2>4, <2>5, OthersOK DEF IInv
<1> QED
  BY <1>2, <1>8, <1>9, <1>10, PlanType, SamePlan DEF IInv, PlanOK

LEMMA CallStripeOK ==
  ASSUME IInv, NEW t \in Threads, NEW a \in Attempts, a = th[t].a, CallStripe(t)
  PROVE  IInv'
<1> DEFINE i == th[t].seq
<1>0. /\ th[t] # Idle /\ th[t] \in Jobs /\ ThreadOK(t) /\ th[t].op = "charge"
  BY DEF CallStripe, Busy, IInv, TypeOK, ThreadsOK
<1>1. /\ att[a] = NoRow /\ i \in Slots /\ stripe[a] = "none"
      /\ \A u \in Threads \ {t} : th[u] # Idle => th[u].a # a
      /\ th[t].ev \notin {"paid", "refund"}
  BY <1>0 DEF ThreadOK, OwnRow, Grounded, Answers, Charging
<1>2. UNCHANGED <<account, offers, att, txn, plans, day, refund, trouble, missed>>
  BY DEF CallStripe
<1> DEFINE op == th'[t].op
           got == stripe'[a]
<1>3. \/ /\ th' = [th EXCEPT ![t].op = "refused"]
         /\ UNCHANGED <<stripe, key, events>>
      \/ /\ key[i] = Idle /\ key' = [key EXCEPT ![i] = a]
         /\ \/ /\ stripe' = [stripe EXCEPT ![a] = "paid"]
               /\ th' = [th EXCEPT ![t].op = "collected"]
               /\ events' = events \cup {PaidEvent(a)}
            \/ /\ stripe' = [stripe EXCEPT ![a] = "processing"]
               /\ th' = [th EXCEPT ![t].op = "charged"]
               /\ UNCHANGED events
            \/ /\ stripe' = [stripe EXCEPT ![a] = "failed"]
               /\ th' = [th EXCEPT ![t].op = "refused"]
               /\ events' = events \cup {[type |-> "failed", a |-> a]}
  BY DEF CallStripe, Announce, PaidEvent
<1>4. /\ th' \in [Threads -> {Idle} \cup Jobs]
      /\ th'[t].a = a /\ th'[t].ev = th[t].ev /\ th'[t].seq = i
      /\ \A u \in Threads \ {t} : th'[u] = th[u]
  BY <1>0, <1>3 DEF IInv, TypeOK, Jobs, JobKind
<1>5. /\ stripe' \in [Attempts -> Held]
      /\ \A b \in Attempts \ {a} : stripe'[b] = stripe[b]
  BY <1>3 DEF IInv, TypeOK, Held
<1>a. /\ op \in {"collected", "charged", "refused"} /\ got \in {"none", "paid", "processing", "failed"}
      /\ op = "refused" => got \in {"none", "failed"}
      /\ op = "collected" => got = "paid"
      /\ op = "charged" => got = "processing"
  <2>1. /\ op = "refused" \/ (op = "collected" /\ got = "paid") \/ (op = "charged" /\ got = "processing")
        /\ op = "refused" => got \in {"none", "failed"}
    <3>1. th[t] \in Jobs /\ th \in [Threads -> {Idle} \cup Jobs] /\ stripe \in [Attempts -> Held]
      BY <1>0 DEF IInv, TypeOK
    <3>2. ASSUME NEW s \in JobKind, th' = [th EXCEPT ![t].op = s] PROVE op = s
      BY <3>1, <3>2 DEF Jobs
    <3>3. ASSUME NEW s \in Held, stripe' = [stripe EXCEPT ![a] = s] PROVE got = s
      BY <3>1, <3>3
    <3> HIDE DEF op, got
    <3> QED
      BY <1>1, <1>3, <3>2, <3>3 DEF JobKind, Held, got
  <2> HIDE DEF op, got
  <2> QED
    BY <2>1
<1>b. /\ \/ events' = events
         \/ events' = events \cup {[type |-> "failed", a |-> a]}
         \/ got = "paid" /\ events' = events \cup {PaidEvent(a)}
      /\ got = "paid" => PaidEvent(a) \in events'
  <2>1. stripe \in [Attempts -> Held]
    BY DEF IInv, TypeOK
  <2>2. ASSUME NEW s \in Held, stripe' = [stripe EXCEPT ![a] = s] PROVE got = s
    BY <2>1, <2>2
  <2>3. stripe' = stripe => got = "none"
    BY <1>1
  <2> HIDE DEF got
  <2>4. \/ got = "paid" /\ events' = events \cup {PaidEvent(a)}
        \/ got \in {"none", "processing"} /\ events' = events
        \/ got \in {"none", "failed"}
           /\ (events' = events \/ events' = events \cup {[type |-> "failed", a |-> a]})
    <3> HIDE DEF PaidEvent
    <3> QED
      BY <1>3, <2>2, <2>3 DEF Held
  <2>5. PaidEvent(a) \in events \cup {PaidEvent(a)}
    OBVIOUS
  <2> HIDE DEF PaidEvent
  <2> QED
    BY <2>4, <2>5
<1>c. key' = key \/ (key[i] = Idle /\ key' = [key EXCEPT ![i] = a])
  BY <1>3
<1>d. op # "refused" => key' = [key EXCEPT ![i] = a]
  <2>1. th' = [th EXCEPT ![t].op = "refused"] => op = "refused"
    BY <1>0 DEF IInv, TypeOK, Jobs
  <2> HIDE DEF op
  <2> QED
    BY <1>3, <2>1
<1> HIDE DEF op, got
<1>6. /\ key' \in [Slots -> {Idle} \cup Attempts]
      /\ \A k \in Slots : key[k] \in Attempts => key'[k] = key[k]
      /\ op # "refused" => key'[i] = a
  BY <1>1, <1>c, <1>d DEF IInv, TypeOK
<1>7. events' \subseteq [type : EventType, a : Attempts]
  BY <1>b DEF IInv, TypeOK, EventType, PaidEvent
<1>8. TypeOK'
  BY <1>2, <1>4, <1>5, <1>6, <1>7 DEF IInv, TypeOK
<1>9. ThreadsOK'
  <2> SUFFICES ASSUME NEW u \in Threads, th'[u] # Idle
               PROVE  ThreadOK(u)'
    BY DEF ThreadsOK
  <2>1. CASE u # t
    <3>1. th[u] # Idle /\ ThreadOK(u) /\ th'[u] = th[u] /\ th[u].a # a
      BY <1>1, <1>4, <2>1 DEF IInv, ThreadsOK
    <3>2. th[u].a \in Attempts => stripe'[th[u].a] = stripe[th[u].a]
      BY <1>5, <3>1
    <3>3. th[u].op \in {"charged", "collected"} => key'[th[u].seq] = key[th[u].seq]
      BY <1>6, <3>1 DEF ThreadOK, Grounded, OwnRow, Charging
    <3>4. Keeps(u)
      BY <1>2, <3>1, <3>2, <3>3 DEF Keeps, Same, ThreadOK, OwnRow, Charging, Matched
    <3>5. \A v \in Threads : th'[v] # Idle =>
            /\ th[v] # Idle /\ th'[v].a = th[v].a
            /\ th'[v].op = "apply" => th[v].op = "apply"
      BY <1>0, <1>4, <1>a DEF op
    <3> QED
      BY <3>1, <3>4, <3>5, OthersOK DEF IInv
  <2>2. CASE u = t
    <3>1. OwnRow(u)'
      BY <1>1, <1>2, <1>4, <1>a, <2>2 DEF op, OwnRow, Charging, Matched
    <3>2. Grounded(u)'
      BY <1>4, <1>6, <1>a, <2>2 DEF op, got, Grounded
    <3>3. Answers(u)' /\ Applies(u)' /\ ReadBefore(u)'
      BY <1>1, <1>4, <1>a, <2>2 DEF op, Answers, Applies, ReadBefore
    <3> QED
      BY <3>1, <3>2, <3>3 DEF ThreadOK
  <2> QED
    BY <2>1, <2>2
<1>10. RowsOK'
  <2> SUFFICES ASSUME NEW b \in Attempts
               PROVE  RowOK(b)'
    BY DEF RowsOK
  <2>1. RowOK(b)
    BY DEF IInv, RowsOK
  <2>2. RefundEvent(b) \in events <=> RefundEvent(b) \in events'
    BY <1>b DEF RefundEvent, PaidEvent
  <2>3. RefundKnown(b)' /\ OneEntry(b)'
    BY <1>2, <2>1, <2>2 DEF RowOK, RefundKnown, OneEntry
  <2>4. CASE b = a
    <3>1. KeyKept(b)' /\ Confirmed(b)'
      BY <1>1, <1>2, <2>4 DEF KeyKept, Confirmed, NoRow
    <3>2. PaymentKnown(b)'
      BY <1>b, <2>4 DEF got, PaymentKnown
    <3>3. PaidEvent(b) \in events' => stripe'[b] = "paid"
      BY <1>1, <1>b, <2>1, <2>4 DEF got, RowOK, EventsTrue, PaidEvent
    <3>4. EventsTrue(b)'
      BY <1>2, <2>1, <2>2, <3>3 DEF RowOK, EventsTrue
    <3> QED
      BY <2>3, <3>1, <3>2, <3>4 DEF RowOK
  <2>5. CASE b # a
    <3>1. stripe'[b] = stripe[b] /\ (PaidEvent(b) \in events <=> PaidEvent(b) \in events')
      BY <1>5, <1>b, <2>5 DEF PaidEvent
    <3>2. KeyKept(b)'
      <4>1. att[b].seq > 0 => att[b].seq \in Slots
        BY DEF IInv, TypeOK, AttemptRow
      <4> QED
        BY <1>2, <1>6, <2>1, <3>1, <4>1 DEF RowOK, KeyKept
    <3>3. Confirmed(b)' /\ PaymentKnown(b)' /\ EventsTrue(b)'
      BY <1>2, <2>1, <2>2, <3>1 DEF RowOK, Confirmed, PaymentKnown, EventsTrue, Booked
    <3> QED
      BY <2>3, <3>2, <3>3 DEF RowOK
  <2> QED
    BY <2>4, <2>5
<1> QED
  BY <1>2, <1>8, <1>9, <1>10, PlanType, SamePlan DEF IInv, PlanOK

\* The sweep commits the attempt it charged, or that was refused.
LEMMA NewRow ==
  ASSUME IInv, NEW t \in Threads, th[t] # Idle, NEW a \in Attempts, a = th[t].a,
         th[t].op \in Charging, NEW status \in {"Processing", "Failed"},
         att' = [att EXCEPT ![a] = Row(t, status)],
         UNCHANGED <<txn, stripe, key, refund, events, missed>>,
         \/ stripe[a] \in {"none", "failed"}
         \/ stripe[a] \in {"processing", "paid"} /\ key[th[t].seq] = a,
         \A u \in Threads \ {t} : th'[u] = th[u],
         th'[t] = Idle \/ (th'[t].a = a /\ th'[t].op = "succeed")
  PROVE  /\ att' \in [Attempts -> AttemptRow] /\ att'[a].status = status
         /\ RowsOK'
         /\ \A u \in Threads \ {t} : th'[u] # Idle => ThreadOK(u)'
<1> DEFINE row == Row(t, status)
<1>1. /\ att[a] = NoRow /\ th[t] \in Jobs
      /\ \A u \in Threads \ {t} : th[u] # Idle => th[u].a # a
  BY DEF IInv, TypeOK, ThreadsOK, ThreadOK, OwnRow
<1>2. row \in AttemptRow /\ row.status = status /\ row.seq = th[t].seq
  BY <1>1 DEF Row, AttemptRow, Jobs, Option
<1> HIDE DEF row
<1>3. /\ att' \in [Attempts -> AttemptRow] /\ att'[a] = row
      /\ \A b \in Attempts \ {a} : att'[b] = att[b]
  BY <1>2 DEF row, IInv, TypeOK
<1>4. RowsOK'
  <2> SUFFICES ASSUME NEW b \in Attempts
               PROVE  RowOK(b)'
    BY DEF RowsOK
  <2>1. RowOK(b)
    BY DEF IInv, RowsOK
  <2>2. RefundKnown(b)' /\ OneEntry(b)' /\ EventsTrue(b)'
    BY <2>1 DEF RowOK, RefundKnown, OneEntry, EventsTrue
  <2>3. CASE b = a
    <3>1. KeyKept(b)' /\ Confirmed(b)'
      BY <1>2, <1>3, <2>3 DEF KeyKept, Confirmed
    <3>2. PaymentKnown(b)'
      BY <1>1, <2>1, <2>3 DEF RowOK, PaymentKnown, Booked, NoRow
    <3> QED
      BY <2>2, <3>1, <3>2 DEF RowOK
  <2>4. CASE b # a
    <3>1. att'[b] = att[b]
      BY <1>3, <2>4
    <3> QED
      BY <2>1, <2>2, <3>1 DEF RowOK, KeyKept, Confirmed, PaymentKnown, Booked
  <2> QED
    BY <2>3, <2>4
<1>5. ASSUME NEW u \in Threads \ {t}, th'[u] # Idle PROVE ThreadOK(u)'
  <2>1. th[u] # Idle /\ th'[u] = th[u] /\ th[u].a # a /\ ThreadOK(u)
    BY <1>1, <1>5 DEF IInv, ThreadsOK
  <2>2. th[u].a \in Attempts => att'[th[u].a] = att[th[u].a]
    BY <1>3, <2>1
  <2>3. Keeps(u)
    BY <2>1, <2>2 DEF Keeps, Same, ThreadOK, OwnRow, Charging, Matched
  <2>4. \A v \in Threads \ {u} : th'[v] # Idle =>
          /\ th[v] # Idle /\ th'[v].a = th[v].a
          /\ th'[v].op = "apply" => th[v].op = "apply"
    OBVIOUS
  <2> QED
    BY <1>5, <2>1, <2>3, <2>4, OthersOK DEF IInv
<1> QED
  BY <1>2, <1>3, <1>4, <1>5

LEMMA ChargeCommittedOK ==
  ASSUME IInv, NEW t \in Threads, NEW a \in Attempts, a = th[t].a, ChargeCommitted(t)
  PROVE  IInv'
<1>0. /\ th[t] # Idle /\ th[t] \in Jobs /\ ThreadOK(t) /\ th[t].op \in {"charged", "collected"}
  BY DEF ChargeCommitted, Busy, IInv, TypeOK, ThreadsOK
<1>1. /\ key[th[t].seq] = a /\ stripe[a] \in {"processing", "paid", "failed"}
      /\ th[t].op = "collected" => stripe[a] = "paid"
  BY <1>0 DEF ThreadOK, Grounded
<1>2. UNCHANGED <<account, offers, txn, plans, day, provider, events, trouble, missed>>
  BY DEF ChargeCommitted
<1>3. /\ th' \in [Threads -> {Idle} \cup Jobs]
      /\ \A u \in Threads \ {t} : th'[u] = th[u]
      /\ \/ th'[t] = Idle
         \/ /\ th'[t].a = a /\ th'[t].op = "succeed" /\ th'[t].ev = th[t].ev
            /\ th[t].op = "collected"
  <2>1. th \in [Threads -> {Idle} \cup Jobs]
    BY DEF IInv, TypeOK
  <2>2. CASE th[t].op = "collected"
    BY <1>0, <2>1, <2>2 DEF ChargeCommitted, Jobs, JobKind
  <2>3. CASE th[t].op # "collected"
    BY <2>1, <2>3 DEF ChargeCommitted, End
  <2> QED
    BY <2>2, <2>3
<1>4. /\ att' \in [Attempts -> AttemptRow] /\ att'[a].status = "Processing"
      /\ RowsOK'
      /\ \A u \in Threads \ {t} : th'[u] # Idle => ThreadOK(u)'
  <2>1. att' = [att EXCEPT ![a] = Row(t, "Processing")]
    BY DEF ChargeCommitted
  <2> QED
    BY <1>0, <1>1, <1>2, <1>3, <2>1, NewRow DEF Charging
<1>5. th'[t] # Idle => ThreadOK(t)'
  <2> SUFFICES ASSUME th'[t] # Idle PROVE ThreadOK(t)'
    OBVIOUS
  <2>1. /\ th'[t].a = a /\ th'[t].op = "succeed" /\ th'[t].ev = th[t].ev
        /\ stripe'[a] = "paid"
    BY <1>1, <1>2, <1>3
  <2>2. OwnRow(t)' /\ Grounded(t)'
    BY <1>4, <2>1 DEF OwnRow, Grounded, Charging, Matched
  <2>3. Answers(t)' /\ Applies(t)' /\ ReadBefore(t)'
    BY <1>0, <2>1 DEF ThreadOK, Answers, Applies, ReadBefore
  <2> QED
    BY <2>2, <2>3 DEF ThreadOK
<1>6. ThreadsOK'
  BY <1>4, <1>5 DEF ThreadsOK
<1>7. TypeOK'
  BY <1>2, <1>3, <1>4 DEF IInv, TypeOK
<1> QED
  BY <1>2, <1>4, <1>6, <1>7, PlanType, SamePlan DEF IInv, PlanOK

LEMMA ChargeRefusedOK ==
  ASSUME IInv, NEW t \in Threads, NEW a \in Attempts, a = th[t].a, ChargeRefused(t)
  PROVE  IInv'
<1>0. /\ th[t] # Idle /\ th[t] \in Jobs /\ ThreadOK(t) /\ th[t].op = "refused"
  BY DEF ChargeRefused, Busy, IInv, TypeOK, ThreadsOK
<1>1. stripe[a] \in {"none", "failed"} /\ th[t].seq \in Slots
  BY <1>0 DEF ThreadOK, Grounded, OwnRow, Charging
<1>2. UNCHANGED <<account, offers, txn, day, provider, events, trouble, missed>>
  BY DEF ChargeRefused
<1>3. PlanOK'
  BY <1>1, PlanType, ChargeFailedOK DEF ChargeRefused
<1>4. /\ th' \in [Threads -> {Idle} \cup Jobs] /\ th'[t] = Idle
      /\ \A u \in Threads \ {t} : th'[u] = th[u]
  BY DEF ChargeRefused, End, IInv, TypeOK
<1>5. /\ att' \in [Attempts -> AttemptRow]
      /\ RowsOK'
      /\ \A u \in Threads \ {t} : th'[u] # Idle => ThreadOK(u)'
  <2>1. att' = [att EXCEPT ![a] = Row(t, "Failed")]
    BY DEF ChargeRefused
  <2> QED
    BY <1>0, <1>1, <1>2, <1>4, <2>1, NewRow DEF Charging
<1>6. ThreadsOK'
  BY <1>4, <1>5 DEF ThreadsOK
<1>7. TypeOK'
  BY <1>2, <1>3, <1>4, <1>5 DEF IInv, TypeOK, PlanOK
<1> QED
  BY <1>3, <1>5, <1>6, <1>7 DEF IInv, PlanOK

-----------------------------------------------------------------------------
(* Every step. *)

LEMMA WorkOn ==
  ASSUME IInv, NEW t \in Threads, th[t] # Idle, th[t].op # "overdue"
  PROVE  th[t].a \in Attempts
BY DEF IInv, ThreadsOK, ThreadOK, OwnRow

LEMMA WorkOK ==
  ASSUME IInv, NEW t \in Threads, Work(t)
  PROVE  IInv'
<1>0. CASE Reconcile(t)
  BY <1>0, ReconcileOK
<1>1. CASE WriteStatus(t)
  BY <1>1, WriteStatusOK
<1>2. CASE ApplyFailed(t)
  BY <1>2, ApplyFailedOK
<1>3. CASE RecordAutoChargeFailure(t)
  BY <1>3, RecordAutoChargeFailureOK
<1>4. CASE LockAttempt(t)
  BY <1>4, WorkOn, LockAttemptOK DEF LockAttempt, Busy
<1>5. CASE ApplySetup(t)
  BY <1>5, WorkOn, ApplySetupOK DEF ApplySetup, Busy
<1>6. CASE ApplySucceeded(t)
  BY <1>6, WorkOn, ApplySucceededOK DEF ApplySucceeded, Busy
<1>7. CASE ApplyRefund(t)
  BY <1>7, WorkOn, ApplyRefundOK DEF ApplyRefund, Busy
<1>8. CASE CallStripe(t)
  BY <1>8, WorkOn, CallStripeOK DEF CallStripe, Busy
<1>9. CASE ChargeCommitted(t)
  BY <1>9, WorkOn, ChargeCommittedOK DEF ChargeCommitted, Busy
<1>10. CASE ChargeRefused(t)
  BY <1>10, WorkOn, ChargeRefusedOK DEF ChargeRefused, Busy
<1>11. CASE RefreshOverduePlans(t)
  BY <1>11, RefreshOverdueOK
<1> QED
  BY <1>0, <1>1, <1>2, <1>3, <1>4, <1>5, <1>6, <1>7, <1>8, <1>9, <1>10, <1>11 DEF Work

LEMMA RequestOK ==
  ASSUME IInv, NEW t \in Threads, Request(t)
  PROVE  IInv'
BY CancelOK, PollOK, ChargeDueOK, OverdueReadOK DEF Request

LEMMA StutterOK == ASSUME IInv, UNCHANGED vars PROVE IInv'
<1>1. ThreadsOK'
  BY SameThreads DEF vars, IInv, Same
<1>2. TypeOK'
  BY DEF vars, IInv, TypeOK
<1> QED
  BY <1>1, <1>2, SameRows DEF vars, IInv

LEMMA NextOK == ASSUME IInv, [Next]_vars PROVE IInv'
<1>1. ASSUME NEW a \in Attempts, Provider(a) \/ \E option \in Option : Initiate(a, option)
      PROVE  IInv'
  BY <1>1, ProviderOK, InitiateOK
<1>2. ASSUME NEW e \in events, ReceiveUnmatched(e) \/ ReceiveOld(e) \/ \E t \in Threads : Receive(t, e)
      PROVE  IInv'
  BY <1>2, ReceiveUnmatchedOK, ReceiveOldOK, ReceiveOK
<1>3. ASSUME NEW t \in Threads, Request(t) \/ Work(t) \/ Crash(t)
      PROVE  IInv'
  BY <1>3, RequestOK, WorkOK, CrashOK
<1>4. CASE NewDay
  BY <1>4, NewDayOK
<1>5. CASE UNCHANGED vars
  BY <1>5, StutterOK
<1> QED
  BY <1>1, <1>2, <1>3, <1>4, <1>5 DEF Next

\* The strengthened invariant.
THEOREM Inductive == Spec => []IInv
<1>1. Init => IInv
  BY InitOK
<1>2. IInv /\ [Next]_vars => IInv'
  BY NextOK
<1> QED
  BY <1>1, <1>2, PTL DEF Spec

-----------------------------------------------------------------------------
(* What follows for the properties of PaymentLedger. *)

\* Each variable keeps its type (the columns of payflow_payment_attempts,
\* payflow_payment_transactions and the plan), however many requests, webhook
\* calls and sweeps run.
THEOREM TypeCorrect == Spec => []TypeOK
<1>1. IInv => TypeOK
  BY DEF IInv
<1> QED
  BY <1>1, Inductive, PTL

\* An attempt that serialize_attempt reports as confirmed is captured at Stripe,
\* and its amount is in the ledger.
THEOREM ConfirmedBooked == Spec => []ConfirmedIsBooked
<1>1. IInv => ConfirmedIsBooked
  BY DEF IInv, RowsOK, RowOK, Confirmed, ConfirmedIsBooked
<1> QED
  BY <1>1, Inductive, PTL

\* charge_due_instalments takes an instalment's money at most once, whatever
\* sweeps overlap and wherever one of them dies.
THEOREM InstalmentChargedOnce == Spec => []ChargedOnce
<1>1. IInv => ChargedOnce
  <2> SUFFICES ASSUME IInv, NEW i \in Slots
               PROVE  Cardinality({a \in Attempts : att[a].seq = i /\ stripe[a] \in {"paid", "processing"}}) <= 1
    BY DEF ChargedOnce
  <2> DEFINE S == {a \in Attempts : att[a].seq = i /\ stripe[a] \in {"paid", "processing"}}
  <2>1. \A a \in S : a = key[i]
    <3> SUFFICES ASSUME NEW a \in S PROVE a = key[i]
      OBVIOUS
    <3>1. att[a].seq > 0
      BY SlotsType
    <3> QED
      BY <3>1 DEF IInv, RowsOK, RowOK, KeyKept
  <2>2. S = {} \/ S = {key[i]}
    BY <2>1
  <2> HIDE DEF S
  <2>3. Cardinality(S) = 0 \/ Cardinality(S) = 1
    BY <2>2, FS_EmptySet, FS_Singleton
  <2>4. Cardinality(S) <= 1
    BY <2>3
  <2> QED
    BY <2>4 DEF S
<1> QED
  BY <1>1, Inductive, PTL

\* When every event is answered and no one works, each captured payment is
\* booked and each refund of a payment booked under its intent is, but for the
\* attempts whose event handle_stripe_event answered too early.
THEOREM NothingLost == Spec => []NothingOutstanding
<1>1. IInv => NothingOutstanding
  BY DEF IInv, RowsOK, RowOK, PaymentKnown, RefundKnown, NothingOutstanding
<1> QED
  BY <1>1, Inductive, PTL

Survives ==
    \A a \in Attempts :
        att[a].status = "Succeeded" /\ att'[a].status # "Succeeded" =>
            \E t \in Threads : th[t] # Idle /\ th[t].a = a /\ th[t].stale

LEMMA SurvivesStep == ASSUME IInv, [Next]_vars PROVE Survives
<1> SUFFICES ASSUME NEW a \in Attempts, att[a].status = "Succeeded", att'[a].status # "Succeeded"
             PROVE  \E t \in Threads : th[t] # Idle /\ th[t].a = a /\ th[t].stale
  BY DEF Survives
<1>0. att \in [Attempts -> AttemptRow] /\ att[a] # NoRow /\ att' # att
  BY DEF IInv, TypeOK, NoRow
<1>1. ASSUME NEW t \in Threads, th[t] # Idle, th[t].op \in {"write", "fail"},
             \A b \in Attempts : b # th[t].a => att'[b] = att[b]
      PROVE  th[t].a = a /\ th[t].stale
  BY <1>1 DEF IInv, ThreadsOK, ThreadOK, ReadBefore
<1>2. ASSUME NEW t \in Threads, NEW b \in Attempts, th[t].a = b, Work(t)
      PROVE  \E u \in Threads : th[u] # Idle /\ th[u].a = a /\ th[u].stale
  <2>1. CASE WriteStatus(t)
    <3>1. th[t] # Idle /\ th[t].op \in {"write", "fail"}
      BY <2>1 DEF WriteStatus, Busy
    <3>2. \A c \in Attempts : c # th[t].a => att'[c] = att[c]
      BY <1>0, <1>2, <2>1 DEF WriteStatus
    <3> QED
      BY <1>1, <3>1, <3>2
  <2>2. CASE ApplyFailed(t)
    <3>1. th[t] # Idle /\ th[t].op \in {"write", "fail"}
      BY <2>2 DEF ApplyFailed, Busy
    <3>2. \A c \in Attempts : c # th[t].a => att'[c] = att[c]
      BY <1>0, <1>2, <2>2 DEF ApplyFailed
    <3> QED
      BY <1>1, <3>1, <3>2
  <2>3. CASE LockAttempt(t) \/ ApplySetup(t) \/ ApplySucceeded(t)
    <3>1. att' = att \/ att' = [att EXCEPT ![b].status = "Succeeded"]
      BY <1>2, <2>3 DEF LockAttempt, ApplySetup, ApplySucceeded
    <3> QED
      BY <1>0, <3>1 DEF AttemptRow
  <2>4. CASE ChargeCommitted(t) \/ ChargeRefused(t)
    <3>1. att[b] = NoRow
      BY <1>2, <2>4 DEF ChargeCommitted, ChargeRefused, Busy, IInv, ThreadsOK, ThreadOK, OwnRow, Charging
    <3>2. PICK row : att' = [att EXCEPT ![b] = row]
      BY <1>2, <2>4 DEF ChargeCommitted, ChargeRefused
    <3> QED
      BY <1>0, <3>1, <3>2
  <2>5. CASE \/ Reconcile(t) \/ RecordAutoChargeFailure(t) \/ ApplyRefund(t) \/ CallStripe(t)
             \/ RefreshOverduePlans(t)
    BY <1>0, <2>5 DEF Reconcile, RecordAutoChargeFailure, ApplyRefund, CallStripe, RefreshOverduePlans
  <2> QED
    BY <1>2, <2>1, <2>2, <2>3, <2>4, <2>5 DEF Work
<1>3. ASSUME NEW b \in Attempts, NEW option \in Option, Initiate(b, option)
      PROVE  FALSE
  <2>1. att[b] = NoRow
    BY <1>3 DEF Initiate, Fresh
  <2>2. PICK row : att' = [att EXCEPT ![b] = row]
    BY <1>3 DEF Initiate, CreateCheckout, NewAttempt
  <2> QED
    BY <1>0, <2>1, <2>2
<1>4. ASSUME NEW t \in Threads, Work(t), th[t].op = "overdue" PROVE FALSE
  BY <1>0, <1>4 DEF Work, Reconcile, WriteStatus, ApplyFailed, RecordAutoChargeFailure, LockAttempt, ApplySetup,
       ApplySucceeded, ApplyRefund, CallStripe, ChargeCommitted, ChargeRefused, RefreshOverduePlans, Busy
<1>5. ASSUME NEW t \in Threads, Work(t) PROVE th[t] # Idle
  BY <1>5 DEF Work, Reconcile, WriteStatus, ApplyFailed, RecordAutoChargeFailure, LockAttempt, ApplySetup,
       ApplySucceeded, ApplyRefund, CallStripe, ChargeCommitted, ChargeRefused, RefreshOverduePlans, Busy
<1>6. ASSUME NEW t \in Threads, Work(t)
      PROVE  \E u \in Threads : th[u] # Idle /\ th[u].a = a /\ th[u].stale
  BY <1>2, <1>4, <1>5, <1>6, WorkOn
<1>7. ASSUME NEW b \in Attempts, Provider(b) PROVE FALSE
  BY <1>0, <1>7 DEF Provider
<1>8. ASSUME NEW e \in events, ReceiveUnmatched(e) \/ ReceiveOld(e) \/ \E t \in Threads : Receive(t, e)
      PROVE  FALSE
  BY <1>0, <1>8 DEF ReceiveUnmatched, ReceiveOld, Receive
<1>9. ASSUME NEW t \in Threads, Request(t) \/ Crash(t) PROVE FALSE
  BY <1>0, <1>9 DEF Request, CancelAttempt, Poll, ChargeDue, OverdueRead, Crash
<1>10. ~NewDay /\ ~UNCHANGED vars
  BY <1>0 DEF NewDay, vars
<1> QED
  BY <1>3, <1>6, <1>7, <1>8, <1>9, <1>10 DEF Next

\* A confirmed attempt loses its status only to apply_failed or cancel_attempt
\* run on a row they read before it was confirmed.
THEOREM ConfirmationKept == Spec => ConfirmationSurvives
<1>1. IInv /\ [Next]_vars => [Survives]_vars
  BY SurvivesStep
<1>2. Spec => [][Survives]_vars
  BY <1>1, Inductive, PTL DEF Spec
<1> QED
  BY <1>2 DEF ConfirmationSurvives, Survives

-----------------------------------------------------------------------------
(* Sums. *)

Units(f) == UNION {{x} \X (1 .. f[x]) : x \in DOMAIN f}

LEMMA SpanSize ==
  ASSUME NEW m \in Nat, NEW k \in Nat
  PROVE  IsFiniteSet(m + 1 .. m + k) /\ Cardinality(m + 1 .. m + k) = k
<1> DEFINE first == m + 1
           last == m + k
<1>1. first \in Int /\ last \in Int /\ (first > last => k = 0) /\ last - first + 1 = k
  OBVIOUS
<1> HIDE DEF first, last
<1>2. /\ IsFiniteSet(first .. last)
      /\ Cardinality(first .. last) = IF first > last THEN 0 ELSE last - first + 1
  BY <1>1, FS_Interval, Zenon
<1>3. IsFiniteSet(first .. last) /\ Cardinality(first .. last) = k
  BY <1>1, <1>2
<1> QED
  BY <1>3 DEF first, last

LEMMA BlockSize ==
  ASSUME NEW x, NEW T, IsFiniteSet(T)
  PROVE  IsFiniteSet({x} \X T) /\ Cardinality({x} \X T) = Cardinality(T)
<1>1. IsFiniteSet({x}) /\ Cardinality({x}) = 1
  BY FS_Singleton, Zenon
<1>2. IsFiniteSet({x} \X T) /\ Cardinality({x} \X T) = 1 * Cardinality(T)
  BY <1>1, FS_Product, Zenon
<1>3. Cardinality(T) \in Nat
  BY FS_CardinalityType
<1> QED
  BY <1>2, <1>3

LEMMA DisjointSize ==
  ASSUME NEW S, NEW T, IsFiniteSet(S), IsFiniteSet(T), S \cap T = {}
  PROVE  Cardinality(S \cup T) = Cardinality(S) + Cardinality(T)
<1>1. Cardinality(S \cup T) = Cardinality(S) + Cardinality(T) - Cardinality(S \cap T)
  BY FS_Union, Zenon
<1>2. Cardinality(S \cap T) = 0
  BY FS_EmptySet
<1>3. Cardinality(S) \in Nat /\ Cardinality(T) \in Nat
  BY FS_CardinalityType
<1> QED
  BY <1>1, <1>2, <1>3

LEMMA UnitsFinite ==
  ASSUME NEW S, IsFiniteSet(S), NEW f \in [S -> Nat]
  PROVE  IsFiniteSet(Units(f))
<1> DEFINE Block(x) == {x} \X (1 .. f[x])
           blocks == [x \in S |-> Block(x)]
           B == {Block(x) : x \in S}
<1>1. blocks \in Surjection(S, B)
  BY DEF Surjection
<1>2. IsFiniteSet(B)
  <2> HIDE DEF blocks, B
  <2> QED
    BY <1>1, FS_Surjection
<1>3. ASSUME NEW x \in S PROVE IsFiniteSet(Block(x))
  <2>1. 1 \in Int /\ f[x] \in Int
    OBVIOUS
  <2>2. IsFiniteSet(1 .. f[x])
    BY <2>1, FS_Interval, Zenon
  <2> QED
    BY <2>2, BlockSize
<1>4. \A b \in B : IsFiniteSet(b)
  BY <1>3
<1>5. IsFiniteSet(UNION B)
  <2> HIDE DEF B
  <2> QED
    BY <1>2, <1>4, FS_UNION
<1> QED
  BY <1>5 DEF Units

LEMMA TotalType ==
  ASSUME NEW S, IsFiniteSet(S), NEW f \in [S -> Nat]
  PROVE  Total(f) \in Nat
BY UnitsFinite, FS_CardinalityType DEF Total, Units

LEMMA TotalLeast ==
  ASSUME NEW S, IsFiniteSet(S), NEW f \in [S -> Nat], NEW g \in [S -> Nat],
         \A x \in S : f[x] <= g[x]
  PROVE  Total(f) <= Total(g)
<1>1. Units(f) \subseteq Units(g)
  BY DEF Units
<1>2. IsFiniteSet(Units(g))
  BY UnitsFinite
<1> QED
  BY <1>1, <1>2, FS_Subset DEF Total, Units

LEMMA TotalGrows ==
  ASSUME NEW S, IsFiniteSet(S), NEW f \in [S -> Nat], NEW g \in [S -> Nat],
         NEW a \in S, NEW k \in Nat, g[a] = f[a] + k, \A x \in S \ {a} : g[x] = f[x]
  PROVE  Total(g) = Total(f) + k
<1> DEFINE new == {a} \X (f[a] + 1 .. f[a] + k)
<1>1. Units(g) = Units(f) \cup new
  <2>1. ASSUME NEW u \in Units(g) PROVE u \in Units(f) \cup new
    <3>1. PICK x \in S : u \in {x} \X (1 .. g[x])
      BY DEF Units
    <3>2. CASE x # a
      BY <3>1, <3>2 DEF Units
    <3>3. CASE x = a
      <4>1. u[2] \in 1 .. f[a] \/ u[2] \in f[a] + 1 .. f[a] + k
        BY <3>1, <3>3
      <4> QED
        BY <3>1, <3>3, <4>1 DEF Units
    <3> QED
      BY <3>2, <3>3
  <2>2. ASSUME NEW u \in Units(f) PROVE u \in Units(g)
    <3>1. PICK x \in S : u \in {x} \X (1 .. f[x])
      BY DEF Units
    <3>2. 1 .. f[x] \subseteq 1 .. g[x]
      BY <3>1
    <3> QED
      BY <3>1, <3>2 DEF Units
  <2>3. new \subseteq Units(g)
    <3>1. f[a] + 1 .. f[a] + k \subseteq 1 .. g[a]
      OBVIOUS
    <3> QED
      BY <3>1 DEF Units
  <2> QED
    BY <2>1, <2>2, <2>3
<1>2. Units(f) \cap new = {}
  <2> SUFFICES ASSUME NEW u \in Units(f), u \in new PROVE FALSE
    OBVIOUS
  <2>1. PICK x \in S : u \in {x} \X (1 .. f[x])
    BY DEF Units
  <2>2. x = a /\ u[2] \in 1 .. f[a] /\ u[2] \in f[a] + 1 .. f[a] + k
    BY <2>1
  <2> QED
    BY <2>2
<1>3. IsFiniteSet(new) /\ Cardinality(new) = k
  <2>1. f[a] \in Nat
    OBVIOUS
  <2>2. IsFiniteSet(f[a] + 1 .. f[a] + k) /\ Cardinality(f[a] + 1 .. f[a] + k) = k
    BY <2>1, SpanSize, Zenon
  <2> QED
    BY <2>2, BlockSize, Zenon
<1>4. IsFiniteSet(Units(f))
  BY UnitsFinite
<1>5. Cardinality(Units(g)) = Cardinality(Units(f)) + k
  <2> HIDE DEF new
  <2>1. Cardinality(Units(f) \cup new) = Cardinality(Units(f)) + Cardinality(new)
    BY <1>2, <1>3, <1>4, DisjointSize, Zenon
  <2> QED
    BY <1>1, <1>3, <2>1
<1> QED
  BY <1>5 DEF Total, Units

-----------------------------------------------------------------------------
(* The balances. *)

PaidOf == [a \in Attempts |-> Rows(a) * att[a].amount]
ReturnedOf == [a \in Attempts |-> txn[a].adj * refund[a]]
RowsTowards == [a \in Attempts |-> Towards(a)]
PaidTowards == [a \in Attempts |-> Towards(a) * att[a].amount]
PaidSlots == {i \in Slots : inst[i] = "Paid"}

\* Only a committed attempt is booked, and no more is given back than was taken.
BookRow(a) ==
    /\ Booked(a) => att[a].status # "none"
    /\ refund[a] <= att[a].amount
    /\ txn[a].pi = "Refunded" => txn[a].adj > 0
    /\ txn[a].adj > 0 => refund[a] > 0 /\ txn[a].pi # "none"

\* A job that applies a payment finds no entry under its reference, one that books a
\* refund of an attempt nobody wrote since finds no refund.
BookJob(t) ==
    LET j == th[t] IN
    /\ j.op = "apply" /\ att[j.a].amount > 0 => txn[j.a][j.ref] = "none"
    /\ j.op = "refund" /\ ~j.stale => txn[j.a].adj = 0

BookRows == \A a \in Attempts : BookRow(a)
BookJobs == \A t \in Threads : th[t] # Idle => BookJob(t)
BooksInv == BookRows /\ BookJobs /\ Balanced

LEMMA ProductType == \A x, y \in Nat : x * y \in Nat
OBVIOUS

LEMMA PairSize == Cardinality({"pi", "session"}) = 2
<1>1. /\ IsFiniteSet({"pi"}) /\ Cardinality({"pi"}) = 1
      /\ IsFiniteSet({"session"}) /\ Cardinality({"session"}) = 1
  BY FS_Singleton, Zenon
<1>2. {"pi"} \cap {"session"} = {} /\ {"pi", "session"} = {"pi"} \cup {"session"}
  OBVIOUS
<1>3. Cardinality({"pi"} \cup {"session"}) = Cardinality({"pi"}) + Cardinality({"session"})
  BY <1>1, <1>2, DisjointSize, Zenon
<1> QED
  BY <1>1, <1>2, <1>3

LEMMA EntryCount ==
  ASSUME NEW row
  PROVE  Cardinality({ref \in Reference : row[ref] # "none"}) =
           (IF row.pi # "none" THEN 1 ELSE 0) + (IF row.session # "none" THEN 1 ELSE 0)
<1> DEFINE S == {ref \in Reference : row[ref] # "none"}
<1>1. /\ "pi" \in S <=> row.pi # "none"
      /\ "session" \in S <=> row.session # "none"
      /\ S \subseteq {"pi", "session"}
  BY DEF Reference
<1> HIDE DEF S
<1>2. Cardinality({}) = 0 /\ Cardinality({"pi"}) = 1 /\ Cardinality({"session"}) = 1
  BY FS_EmptySet, FS_Singleton, Zenon
<1>3. \/ S = {} \/ S = {"pi"} \/ S = {"session"} \/ S = {"pi", "session"}
  BY <1>1
<1>4. Cardinality(S) = (IF row.pi # "none" THEN 1 ELSE 0) + (IF row.session # "none" THEN 1 ELSE 0)
  <2>1. CASE S = {}
    BY <1>1, <1>2, <2>1
  <2>2. CASE S = {"pi"}
    BY <1>1, <1>2, <2>2
  <2>3. CASE S = {"session"}
    BY <1>1, <1>2, <2>3
  <2>4. CASE S = {"pi", "session"}
    BY <1>1, <2>4, PairSize
  <2> QED
    BY <1>3, <2>1, <2>2, <2>3, <2>4
<1> QED
  BY <1>4 DEF S

LEMMA RowsCount ==
  ASSUME NEW a \in Attempts
  PROVE  /\ Rows(a) = (IF txn[a].pi # "none" THEN 1 ELSE 0)
                        + (IF txn[a].session # "none" THEN 1 ELSE 0)
         /\ Rows(a)' = (IF txn'[a].pi # "none" THEN 1 ELSE 0)
                        + (IF txn'[a].session # "none" THEN 1 ELSE 0)
BY EntryCount DEF Rows

BookTypes ==
    /\ PaidOf \in [Attempts -> Nat] /\ ReturnedOf \in [Attempts -> Nat]
    /\ RowsTowards \in [Attempts -> Nat] /\ PaidTowards \in [Attempts -> Nat]
    /\ Paid \in Nat /\ Returned \in Nat
    /\ Total(RowsTowards) \in Nat /\ Total(PaidTowards) \in Nat

LEMMA BooksType == TypeOK => BookTypes
<1> SUFFICES ASSUME TypeOK PROVE BookTypes
  OBVIOUS
<1>1. ASSUME NEW a \in Attempts
      PROVE  /\ Rows(a) \in Nat /\ Towards(a) \in Nat /\ att[a].amount \in Nat
             /\ txn[a].adj \in Nat /\ refund[a] \in Nat
  BY RowsCount DEF TypeOK, AttemptRow, Transactions, Towards
<1>2. /\ PaidOf \in [Attempts -> Nat] /\ ReturnedOf \in [Attempts -> Nat]
      /\ RowsTowards \in [Attempts -> Nat] /\ PaidTowards \in [Attempts -> Nat]
  BY <1>1, ProductType DEF PaidOf, ReturnedOf, RowsTowards, PaidTowards
<1> QED
  BY <1>2, TotalType DEF BookTypes, Paid, Returned, PaidOf, ReturnedOf

LEMMA BooksTypeNext == TypeOK' => BookTypes'
BY BooksType, PTL

LEMMA SlotsFinite ==
  /\ IsFiniteSet(PaidSlots) /\ Cardinality(PaidSlots) \in Nat
  /\ \A S : S \subseteq PaidSlots => IsFiniteSet(S) /\ Cardinality(S) <= Cardinality(PaidSlots)
<1>1. IsFiniteSet(Slots)
  <2>1. 1 \in Int /\ Balance \in Int
    OBVIOUS
  <2> QED
    BY <2>1, FS_Interval, Zenon DEF Slots
<1>2. PaidSlots \in SUBSET Slots
  BY DEF PaidSlots
<1>3. IsFiniteSet(PaidSlots)
  BY <1>1, <1>2, FS_Subset, Zenon
<1> QED
  BY <1>3, FS_Subset, FS_CardinalityType, Zenon

LEMMA BooksInit == Init => BooksInv
<1> SUFFICES ASSUME Init PROVE BooksInv
  OBVIOUS
<1>1. /\ att = [a \in Attempts |-> NoRow] /\ txn = [a \in Attempts |-> NoTxn]
      /\ refund = [a \in Attempts |-> 0] /\ th = [t \in Threads |-> Idle]
      /\ acct.out = Balance /\ acct.rec = 0
  <2>1. \/ acct = [out |-> Balance, rec |-> 0, status |-> "Active"]
        \/ acct = [out |-> Balance, rec |-> 0, status |-> "Payment Plan"]
    BY DEF Init
  <2>2. acct.out = Balance /\ acct.rec = 0
    <3>1. CASE acct = [out |-> Balance, rec |-> 0, status |-> "Active"]
      BY <3>1
    <3>2. CASE acct = [out |-> Balance, rec |-> 0, status |-> "Payment Plan"]
      BY <3>2
    <3> QED
      BY <2>1, <3>1, <3>2
  <2> QED
    BY <2>2 DEF Init
<1>2. ASSUME NEW a \in Attempts
      PROVE  /\ Rows(a) = 0 /\ txn[a].adj = 0 /\ Towards(a) = 0 /\ att[a].amount = 0
             /\ refund[a] = 0 /\ ~Booked(a) /\ BookRow(a)
  <2>1. att[a] = NoRow /\ txn[a] = NoTxn /\ refund[a] = 0
    BY <1>1
  <2>2. txn[a].pi = "none" /\ txn[a].session = "none" /\ txn[a].adj = 0 /\ att[a].amount = 0
    BY <2>1 DEF NoTxn, NoRow
  <2>3. Rows(a) = 0
    BY <2>2, RowsCount
  <2>4. ~Booked(a)
    BY <2>2 DEF Booked, Reference
  <2> QED
    BY <2>1, <2>2, <2>3, <2>4 DEF Towards, BookRow
<1>3. BookRows /\ BookJobs
  BY <1>1, <1>2 DEF BookRows, BookJobs
<1>4. /\ PaidOf = [a \in Attempts |-> 0] /\ ReturnedOf = [a \in Attempts |-> 0]
      /\ RowsTowards = [a \in Attempts |-> 0] /\ PaidTowards = [a \in Attempts |-> 0]
  BY <1>2 DEF PaidOf, ReturnedOf, RowsTowards, PaidTowards
<1>5. Total([a \in Attempts |-> 0]) = 0
  <2>1. Units([a \in Attempts |-> 0]) = {}
    BY DEF Units
  <2> QED
    BY <2>1, FS_EmptySet DEF Total, Units
<1>6. Paid = 0 /\ Returned = 0 /\ Total(RowsTowards) = 0 /\ Total(PaidTowards) = 0
  BY <1>4, <1>5 DEF Paid, Returned, PaidOf, ReturnedOf
<1>7. AccountBalanced
  BY <1>1, <1>2, <1>6 DEF AccountBalanced
<1>8. PaidSlots = {}
  <2>1. \A i \in Slots : inst[i] # "Paid"
    BY DEF Init, Schedule
  <2> QED
    BY <2>1 DEF PaidSlots
<1>9. plan.paid = 0
  <2>1. plan = NoPlan \/ plan = StandingPlan
    BY DEF Init
  <2> QED
    BY <2>1 DEF NoPlan, StandingPlan
<1>10. InstalmentsBacked
  <2>1. Cardinality(PaidSlots) = 0
    BY <1>8, FS_EmptySet
  <2> QED
    BY <1>6, <1>9, <2>1 DEF InstalmentsBacked, PaidSlots, RowsTowards, PaidTowards
<1> QED
  BY <1>3, <1>7, <1>10 DEF BooksInv, Balanced

\* What most steps leave of the books: every row keeps its amount, a refund is
\* made once, and no instalment is paid.
RowKept(a) ==
    \/ att[a] = NoRow
    \/ /\ att'[a].amount = att[a].amount /\ att'[a].option = att[a].option
       /\ att[a].status # "none" => att'[a].status # "none"

RefundKept(a) ==
    \/ refund'[a] = refund[a]
    \/ refund[a] = 0 /\ att'[a] = att[a] /\ refund'[a] <= att[a].amount

PlansKept == plan'.paid <= plan.paid /\ PaidSlots' \subseteq PaidSlots

JobKept(t) ==
    \/ th'[t] = Idle
    \/ th'[t].op \notin {"apply", "refund"}
    \/ /\ th[t] # Idle
       /\ th'[t].op = th[t].op /\ th'[t].a = th[t].a /\ th'[t].ref = th[t].ref
       /\ th[t].stale => th'[t].stale

BooksKept ==
    /\ UNCHANGED <<txn, lost>>
    /\ acct'.out = acct.out /\ acct'.rec = acct.rec
    /\ \A a \in Attempts : RowKept(a) /\ RefundKept(a)

LEMMA KeptRow ==
  ASSUME IInv, IInv', BooksInv, BooksKept, NEW a \in Attempts
  PROVE  /\ BookRow(a)'
         /\ Rows(a)' = Rows(a) /\ PaidOf[a]' = PaidOf[a] /\ ReturnedOf[a]' = ReturnedOf[a]
         /\ RowsTowards[a]' = RowsTowards[a] /\ PaidTowards[a]' = PaidTowards[a]
<1>1. BookRow(a) /\ RowKept(a) /\ RefundKept(a) /\ txn' = txn
  BY DEF BooksInv, BookRows, BooksKept
<1>2. /\ att[a].amount \in Nat /\ att'[a].amount \in Nat /\ refund[a] \in Nat
      /\ refund'[a] \in Nat /\ txn[a].adj \in Nat
  BY DEF IInv, TypeOK, AttemptRow, Transactions
<1>3. Rows(a)' = Rows(a) /\ Booked(a)' = Booked(a)
  BY <1>1 DEF Rows, Booked
<1>4. ~Booked(a) => Rows(a) = 0
  BY RowsCount DEF Booked, Reference
<1>5. Booked(a) => att'[a].amount = att[a].amount /\ att'[a].option = att[a].option
  BY <1>1 DEF BookRow, RowKept, NoRow
<1>6. \A n \in Nat : 0 * n = 0
  OBVIOUS
<1>7. BookRow(a)'
  <2>1. refund'[a] <= att'[a].amount
    BY <1>1, <1>2 DEF BookRow, RowKept, RefundKept, NoRow
  <2> QED
    BY <1>1, <1>3, <1>2, <2>1 DEF BookRow, RowKept, RefundKept, NoRow
<1>8. PaidOf[a]' = PaidOf[a] /\ PaidTowards[a]' = PaidTowards[a] /\ RowsTowards[a]' = RowsTowards[a]
  <2>1. CASE Booked(a)
    BY <1>3, <1>5, <2>1 DEF PaidOf, PaidTowards, RowsTowards, Towards
  <2>2. CASE ~Booked(a)
    <3>1. Rows(a) = 0 /\ Rows(a)' = 0 /\ Towards(a) = 0 /\ Towards(a)' = 0
      BY <1>3, <1>4, <2>2 DEF Towards
    <3> QED
      BY <1>2, <1>6, <3>1 DEF PaidOf, PaidTowards, RowsTowards
  <2> QED
    BY <2>1, <2>2
<1>9. ReturnedOf[a]' = ReturnedOf[a]
  <2>1. CASE refund'[a] = refund[a]
    BY <1>1, <2>1 DEF ReturnedOf
  <2>2. CASE refund[a] = 0
    <3>1. txn[a].adj = 0
      BY <1>1, <1>2, <2>2 DEF BookRow
    <3> QED
      BY <1>1, <1>2, <1>6, <3>1 DEF ReturnedOf
  <2> QED
    BY <1>1, <2>1, <2>2 DEF RefundKept
<1> QED
  BY <1>3, <1>7, <1>8, <1>9

LEMMA KeptSums ==
  ASSUME IInv, IInv', BooksInv, BooksKept
  PROVE  /\ BookRows'
         /\ Paid' = Paid /\ Returned' = Returned
         /\ Total(RowsTowards)' = Total(RowsTowards) /\ Total(PaidTowards)' = Total(PaidTowards)
         /\ AccountBalanced => AccountBalanced'
<1>1. PaidOf' = PaidOf /\ ReturnedOf' = ReturnedOf /\ RowsTowards' = RowsTowards
        /\ PaidTowards' = PaidTowards
  BY KeptRow DEF PaidOf, ReturnedOf, RowsTowards, PaidTowards
<1>2. /\ Paid' = Paid /\ Returned' = Returned
      /\ Total(RowsTowards)' = Total(RowsTowards) /\ Total(PaidTowards)' = Total(PaidTowards)
  BY <1>1 DEF Paid, Returned, PaidOf, ReturnedOf
<1>3. BookRows'
  BY KeptRow DEF BookRows
<1>4. \A a \in Attempts : Rows(a)' = Rows(a)
  BY KeptRow
<1>5. AccountBalanced => AccountBalanced'
  BY <1>2, <1>4 DEF AccountBalanced, BooksKept
<1> QED
  BY <1>2, <1>3, <1>5

LEMMA KeptInstalments ==
  ASSUME IInv, IInv', BooksInv, BooksKept, PlansKept
  PROVE  InstalmentsBacked'
<1>1. Cardinality(PaidSlots) <= Total(RowsTowards) /\ plan.paid <= Total(PaidTowards)
  BY DEF BooksInv, Balanced, InstalmentsBacked, PaidSlots, RowsTowards, PaidTowards
<1>2. Cardinality(PaidSlots') <= Cardinality(PaidSlots)
  BY SlotsFinite DEF PlansKept
<1>3. Cardinality(PaidSlots)' \in Nat /\ plan.paid \in Nat /\ plan'.paid \in Nat
  <2>1. IsFiniteSet(PaidSlots')
    BY SlotsFinite DEF PlansKept
  <2> QED
    BY <2>1, FS_CardinalityType DEF IInv, TypeOK, PlanRow
<1>4. Total(RowsTowards)' = Total(RowsTowards) /\ Total(PaidTowards)' = Total(PaidTowards)
  BY KeptSums
<1>5. /\ Cardinality(PaidSlots) \in Nat /\ Total(RowsTowards) \in Nat /\ Total(PaidTowards) \in Nat
      /\ plan'.paid <= plan.paid
  BY BooksType, SlotsFinite DEF IInv, PlansKept, BookTypes
<1>6. Cardinality(PaidSlots)' <= Total(RowsTowards)' /\ plan'.paid <= Total(PaidTowards)'
  BY <1>1, <1>2, <1>3, <1>4, <1>5
<1> QED
  BY <1>6 DEF InstalmentsBacked, PaidSlots, RowsTowards, PaidTowards

LEMMA KeptJob ==
  ASSUME IInv, BooksInv, BooksKept, NEW t \in Threads, th'[t] # Idle, JobKept(t)
  PROVE  BookJob(t)'
<1>1. CASE th'[t].op \notin {"apply", "refund"}
  BY <1>1 DEF BookJob
<1>2. CASE /\ th[t] # Idle
           /\ th'[t].op = th[t].op /\ th'[t].a = th[t].a /\ th'[t].ref = th[t].ref
           /\ th[t].stale => th'[t].stale
           /\ th[t].op \in {"apply", "refund"}
  <2>1. BookJob(t) /\ OwnRow(t)
    BY <1>2 DEF BooksInv, BookJobs, IInv, ThreadsOK, ThreadOK
  <2>2. th[t].a \in Attempts /\ att[th[t].a].status # "none"
    BY <1>2, <2>1 DEF OwnRow, Matched
  <2>3. att'[th[t].a].amount = att[th[t].a].amount
    BY <2>2 DEF BooksKept, RowKept, NoRow
  <2> QED
    BY <1>2, <2>1, <2>3 DEF BookJob, BooksKept
<1> QED
  BY <1>1, <1>2 DEF JobKept

LEMMA QuietBooks ==
  ASSUME IInv, IInv', BooksInv, BooksKept, PlansKept,
         \A t \in Threads : th'[t] # Idle => JobKept(t) \/ BookJob(t)'
  PROVE  BooksInv'
<1>1. BookJobs'
  BY KeptJob DEF BookJobs
<1>2. BookRows' /\ InstalmentsBacked' /\ (~lost' => AccountBalanced')
  BY KeptSums, KeptInstalments DEF BooksKept, BooksInv, Balanced
<1> QED
  BY <1>1, <1>2 DEF BooksInv, Balanced

\* The jobs of most steps, and what they do to the instalments.
LEMMA JobsKept ==
  ASSUME IInv, NEW t \in Threads, NEW j, NEW others,
         \/ th' = th
         \/ End(t)
         \/ EndOver(t, others) /\ \A u \in others : th[u] # Idle
         \/ th' = [th EXCEPT ![t] = j] /\ j.op \notin {"apply", "refund"}
  PROVE  \A u \in Threads : th'[u] # Idle => JobKept(u)
<1> SUFFICES ASSUME NEW u \in Threads, th'[u] # Idle PROVE JobKept(u)
  OBVIOUS
<1>0. th \in [Threads -> {Idle} \cup Jobs]
  BY DEF IInv, TypeOK
<1>1. CASE th' = th
  BY <1>1 DEF JobKept
<1>2. CASE End(t)
  BY <1>0, <1>2 DEF JobKept, End
<1>3. CASE EndOver(t, others) /\ \A v \in others : th[v] # Idle
  <2>1. \/ th'[u] = th[u]
        \/ th[u] # Idle /\ th'[u] = [th[u] EXCEPT !.stale = TRUE]
    BY <1>3 DEF EndOver
  <2>2. CASE th'[u] = th[u]
    BY <2>2 DEF JobKept
  <2>3. CASE th[u] # Idle /\ th'[u] = [th[u] EXCEPT !.stale = TRUE]
    <3>1. th[u] \in Jobs
      BY <1>0, <2>3
    <3>2. /\ th'[u].op = th[u].op /\ th'[u].a = th[u].a /\ th'[u].ref = th[u].ref
          /\ th'[u].stale
      BY <2>3, <3>1 DEF Jobs
    <3> QED
      BY <2>3, <3>2 DEF JobKept
  <2> QED
    BY <2>1, <2>2, <2>3
<1>4. CASE th' = [th EXCEPT ![t] = j] /\ j.op \notin {"apply", "refund"}
  BY <1>0, <1>4 DEF JobKept
<1> QED
  BY <1>1, <1>2, <1>3, <1>4

LEMMA SamePlans == ASSUME UNCHANGED plans, IInv PROVE PlansKept
BY DEF PlansKept, PaidSlots, IInv, TypeOK, PlanRow

LEMMA MarkOverdueKept == ASSUME IInv, NEW due, MarkOverdue(due) PROVE PlansKept
<1>1. plan \in PlanRow /\ plan'.paid = plan.paid
  BY DEF IInv, TypeOK, PlanRow, MarkOverdue
<1>2. PaidSlots' \subseteq PaidSlots
  BY DEF MarkOverdue, PaidSlots
<1> QED
  BY <1>1, <1>2 DEF PlansKept, PlanRow

LEMMA ChargeFailedKept == ASSUME IInv, NEW i, ChargeFailed(i) PROVE PlansKept
<1>1. CASE UNCHANGED plans
  BY <1>1, SamePlans
<1>2. CASE ~UNCHANGED plans
  <2>1. plan \in PlanRow /\ plan'.paid = plan.paid
    BY <1>2 DEF IInv, TypeOK, PlanRow, ChargeFailed
  <2>2. PaidSlots' \subseteq PaidSlots
    BY <1>2 DEF ChargeFailed, PaidSlots, IInv, TypeOK
  <2> QED
    BY <2>1, <2>2 DEF PlansKept, PlanRow
<1> QED
  BY <1>1, <1>2

LEMMA SameBooksRows ==
  ASSUME UNCHANGED <<account, txn, refund>>,
         \A a \in Attempts : RowKept(a)
  PROVE  BooksKept
BY DEF BooksKept, RefundKept

LEMMA SameAttempts == ASSUME UNCHANGED att PROVE \A a \in Attempts : RowKept(a)
BY DEF RowKept

LEMMA OneRow ==
  ASSUME IInv, NEW b, NEW row, att' = [att EXCEPT ![b] = row],
         \/ att[b] = NoRow
         \/ row.amount = att[b].amount /\ row.option = att[b].option /\ row.status # "none"
  PROVE  \A a \in Attempts : RowKept(a)
<1> SUFFICES ASSUME NEW a \in Attempts PROVE RowKept(a)
  OBVIOUS
<1>1. att'[a] = IF a = b THEN row ELSE att[a]
  BY DEF IInv, TypeOK
<1> QED
  BY <1>1 DEF RowKept

LEMMA ProviderBalanced ==
  ASSUME IInv, IInv', BooksInv, NEW a \in Attempts, Provider(a)
  PROVE  BooksInv'
<1>1. UNCHANGED <<account, att, txn, plans, th>>
  BY DEF Provider
<1>2. \A b \in Attempts : RefundKept(b)
  <2>1. CASE UNCHANGED refund
    BY <2>1 DEF RefundKept
  <2>2. CASE IssueRefund(a)
    <3>1. refund[a] = 0 /\ \E amount \in 1 .. att[a].amount : refund' = [refund EXCEPT ![a] = amount]
      BY <2>2 DEF IssueRefund
    <3> QED
      BY <1>1, <3>1 DEF RefundKept, IInv, TypeOK, AttemptRow
  <2> QED
    BY <2>1, <2>2 DEF Provider
<1>3. BooksKept
  BY <1>1, <1>2, SameAttempts DEF BooksKept
<1>4. \A t \in Threads : th'[t] # Idle => JobKept(t)
  BY <1>1 DEF JobKept
<1> QED
  BY <1>1, <1>3, <1>4, SamePlans, QuietBooks

\* A refund's job begins when its refund is not booked.
LEMMA ReceiveBalanced ==
  ASSUME IInv, IInv', BooksInv, NEW t \in Threads, NEW e \in events, Receive(t, e)
  PROVE  BooksInv'
<1>1. UNCHANGED <<account, att, txn, plans, refund>>
  BY DEF Receive
<1>2. BooksKept /\ PlansKept
  BY <1>1, SameAttempts, SameBooksRows, SamePlans
<1> DEFINE j == [Job(OpOf(e.type), e.a) EXCEPT
                   !.ev = e.type, !.was = IF e.type = "refund" THEN acct ELSE @]
<1>3. th' = [th EXCEPT ![t] = j] /\ th \in [Threads -> {Idle} \cup Jobs]
      /\ e \in [type : EventType, a : Attempts] /\ acct \in Account
  BY DEF Receive, Start, IInv, TypeOK
<1>4. j.op = OpOf(e.type) /\ j.a = e.a
  BY <1>3 DEF Job
<1>5. \A u \in Threads : th'[u] # Idle => JobKept(u) \/ BookJob(u)'
  <2>1. CASE e.type # "refund"
    <3>1. j.op \notin {"apply", "refund"}
      BY <1>3, <1>4, <2>1 DEF OpOf, EventType
    <3> HIDE DEF j
    <3> QED
      BY <1>3, <3>1, JobsKept
  <2>2. CASE e.type = "refund"
    <3>1. txn[e.a].adj = 0
      BY <1>3, <2>2 DEF Receive, OldNews, IInv, TypeOK, Transactions
    <3>2. j.op = "refund"
      BY <1>4, <2>2 DEF OpOf
    <3> SUFFICES ASSUME NEW u \in Threads PROVE JobKept(u) \/ BookJob(u)'
      OBVIOUS
    <3>3. CASE u = t
      <4>1. th'[u] = j
        BY <1>3, <3>3
      <4> HIDE DEF j
      <4>2. BookJob(u)'
        BY <1>1, <1>4, <2>2, <3>1, <3>2, <4>1 DEF BookJob
      <4> QED
        BY <4>2
    <3>4. CASE u # t
      BY <1>3, <3>4 DEF JobKept
    <3> QED
      BY <3>3, <3>4
  <2> QED
    BY <2>1, <2>2
<1> QED
  BY <1>2, <1>5, QuietBooks

LEMMA RequestBalanced ==
  ASSUME IInv, IInv', BooksInv,
         NEW t \in Threads, Request(t) \/ Crash(t)
  PROVE  BooksInv'
<1>1. UNCHANGED <<account, att, txn, plans, refund>>
  BY DEF Request, CancelAttempt, Poll, ChargeDue, OverdueRead, Crash
<1>2. BooksKept /\ PlansKept
  BY <1>1, SameAttempts, SameBooksRows, SamePlans
<1>3. End(t) \/ \E j : th' = [th EXCEPT ![t] = j] /\ j.op \notin {"apply", "refund"}
  <2>1. CASE Crash(t)
    BY <2>1 DEF Crash
  <2>2. CASE OverdueRead(t)
    <3>1. th' = [th EXCEPT ![t] = [Job("overdue", Idle) EXCEPT !.due = Missed]]
      BY <2>2 DEF OverdueRead, Start
    <3>2. [Job("overdue", Idle) EXCEPT !.due = Missed].op = "overdue"
      BY DEF Job
    <3> QED
      BY <3>1, <3>2
  <2>3. ASSUME NEW a \in Attempts, CancelAttempt(t, a)
        PROVE  \E j : th' = [th EXCEPT ![t] = j] /\ j.op \notin {"apply", "refund"}
    <3>1. th' = [th EXCEPT ![t] = Job("write", a)] /\ Job("write", a).op = "write"
      BY <2>3 DEF CancelAttempt, Start, Job
    <3> QED
      BY <3>1
  <2>4. ASSUME NEW a \in Attempts, Poll(t, a)
        PROVE  \E j : th' = [th EXCEPT ![t] = j] /\ j.op \notin {"apply", "refund"}
    <3> DEFINE j1 == [Job("poll", a) EXCEPT !.was = acct,
                                            !.ref = IF att[a].pi THEN "pi" ELSE "session"]
    <3>1. j1.op = "poll"
      BY DEF Job
    <3>2. th' = [th EXCEPT ![t] = j1]
      BY <2>4 DEF Poll, Start
    <3> HIDE DEF j1
    <3> QED
      BY <3>1, <3>2
  <2>5. ASSUME NEW a \in Attempts, NEW i \in Slots, ChargeDue(t, a, i)
        PROVE  \E j : th' = [th EXCEPT ![t] = j] /\ j.op \notin {"apply", "refund"}
    <3> DEFINE j1 == [Job("charge", a) EXCEPT !.seq = i, !.amount = Least(InstalmentAmount(i), acct.out)]
    <3>1. j1.op = "charge"
      BY DEF Job
    <3>2. th' = [th EXCEPT ![t] = j1]
      BY <2>5 DEF ChargeDue, Start
    <3> HIDE DEF j1
    <3> QED
      BY <3>1, <3>2
  <2> QED
    BY <2>1, <2>2, <2>3, <2>4, <2>5 DEF Request
<1>4. \A u \in Threads : th'[u] # Idle => JobKept(u)
  BY <1>3, JobsKept
<1> QED
  BY <1>2, <1>4, QuietBooks

LEMMA InitiateBalanced ==
  ASSUME IInv, IInv', BooksInv, NEW a \in Attempts, NEW option \in Option, Initiate(a, option)
  PROVE  BooksInv'
<1>1. UNCHANGED <<account, txn, refund, th>> /\ att[a] = NoRow
  BY DEF Initiate, Fresh
<1>2. PICK row : att' = [att EXCEPT ![a] = row]
  BY DEF Initiate, CreateCheckout, NewAttempt
<1>3. BooksKept
  BY <1>1, <1>2, OneRow, SameBooksRows
<1>4. PlansKept
  BY MarkOverdueKept DEF Initiate
<1>5. \A u \in Threads : th'[u] # Idle => JobKept(u)
  BY <1>1 DEF JobKept
<1> QED
  BY <1>3, <1>4, <1>5, QuietBooks

\* The steps of a job that book nothing.
LEMMA QuietWork ==
  ASSUME IInv, IInv', BooksInv, NEW t \in Threads,
         \/ Reconcile(t) \/ WriteStatus(t) \/ ApplyFailed(t) \/ RecordAutoChargeFailure(t)
         \/ CallStripe(t) \/ ChargeCommitted(t) \/ ChargeRefused(t) \/ RefreshOverduePlans(t)
  PROVE  BooksInv'
<1> DEFINE a == th[t].a
<1>0. /\ UNCHANGED <<account, txn, refund>>
      /\ th \in [Threads -> {Idle} \cup Jobs] /\ att \in [Attempts -> AttemptRow]
  BY DEF Reconcile, WriteStatus, ApplyFailed, RecordAutoChargeFailure, CallStripe, ChargeCommitted,
         ChargeRefused, RefreshOverduePlans, IInv, TypeOK
<1>1. PlansKept
  <2>1. CASE RecordAutoChargeFailure(t) \/ ChargeRefused(t)
    BY <2>1, ChargeFailedKept DEF RecordAutoChargeFailure, ChargeRefused
  <2>2. CASE RefreshOverduePlans(t)
    BY <2>2, MarkOverdueKept DEF RefreshOverduePlans
  <2>3. CASE Reconcile(t) \/ WriteStatus(t) \/ ApplyFailed(t) \/ CallStripe(t) \/ ChargeCommitted(t)
    BY <2>3, SamePlans DEF Reconcile, WriteStatus, ApplyFailed, CallStripe, ChargeCommitted
  <2> QED
    BY <2>1, <2>2, <2>3
<1>2. \A b \in Attempts : RowKept(b)
  <2>1. CASE \/ Reconcile(t) \/ RecordAutoChargeFailure(t) \/ CallStripe(t)
             \/ RefreshOverduePlans(t)
    BY <2>1, SameAttempts DEF Reconcile, RecordAutoChargeFailure, CallStripe, RefreshOverduePlans
  <2>2. CASE ChargeCommitted(t) \/ ChargeRefused(t)
    <3>1. att[a] = NoRow
      BY <2>2 DEF ChargeCommitted, ChargeRefused, Busy, IInv, ThreadsOK, ThreadOK, OwnRow, Charging
    <3>2. PICK row : att' = [att EXCEPT ![a] = row]
      BY <2>2 DEF ChargeCommitted, ChargeRefused
    <3> QED
      BY <3>1, <3>2, OneRow
  <2>3. CASE WriteStatus(t)
    <3>1. att' = [att EXCEPT ![a].status = Written(th[t]), ![a].pi = @ \/ th[t].ev = "pending"]
      BY <2>3 DEF WriteStatus
    <3>2. \A b \in Attempts : /\ att'[b].amount = att[b].amount /\ att'[b].option = att[b].option
                              /\ att'[b].status = att[b].status \/ att'[b].status = Written(th[t])
      BY <1>0, <3>1 DEF AttemptRow
    <3> QED
      BY <3>2 DEF RowKept, Written
  <2>4. CASE ApplyFailed(t)
    <3>1. att' = [att EXCEPT ![a].status = "Failed", ![a].pi = TRUE]
      BY <2>4 DEF ApplyFailed
    <3>2. \A b \in Attempts : /\ att'[b].amount = att[b].amount /\ att'[b].option = att[b].option
                              /\ att'[b].status = att[b].status \/ att'[b].status = "Failed"
      BY <1>0, <3>1 DEF AttemptRow
    <3> QED
      BY <3>2 DEF RowKept
  <2> QED
    BY <2>1, <2>2, <2>3, <2>4
<1>3. End(t) \/ \E j : th' = [th EXCEPT ![t] = j] /\ j.op \notin {"apply", "refund"}
  <2>1. CASE End(t)
    BY <2>1
  <2>2. ASSUME NEW op \in {"failed", "refused", "collected", "charged", "succeed", "fail"},
               th' = [th EXCEPT ![t].op = op], th[t] # Idle
        PROVE  \E j : th' = [th EXCEPT ![t] = j] /\ j.op \notin {"apply", "refund"}
    <3> DEFINE j == [th[t] EXCEPT !.op = op]
    <3>1. th[t] \in Jobs /\ th' = [th EXCEPT ![t] = j]
      BY <1>0, <2>2
    <3>2. j.op = op
      BY <3>1 DEF Jobs
    <3> HIDE DEF j
    <3> QED
      BY <3>1, <3>2
  <2>a. ASSUME th' = [th EXCEPT ![t].op = "write", ![t].ref = "session"], th[t] # Idle
        PROVE  \E j : th' = [th EXCEPT ![t] = j] /\ j.op \notin {"apply", "refund"}
    <3> DEFINE j == [th[t] EXCEPT !.op = "write", !.ref = "session"]
    <3>1. th[t] \in Jobs /\ th' = [th EXCEPT ![t] = j]
      BY <1>0, <2>a
    <3>2. j.op = "write"
      BY <3>1 DEF Jobs
    <3> HIDE DEF j
    <3> QED
      BY <3>1, <3>2
  <2>3. \/ End(t)
        \/ /\ th[t] # Idle
           /\ th' = [th EXCEPT ![t].op = "write", ![t].ref = "session"]
        \/ /\ th[t] # Idle
           /\ \E op \in {"failed", "refused", "collected", "charged", "succeed", "fail"} :
                th' = [th EXCEPT ![t].op = op]
    BY DEF Reconcile, WriteStatus, ApplyFailed, RecordAutoChargeFailure, CallStripe, ChargeCommitted,
           ChargeRefused, RefreshOverduePlans, Busy
  <2> QED
    BY <2>1, <2>2, <2>a, <2>3
<1>4. \A u \in Threads : th'[u] # Idle => JobKept(u)
  BY <1>3, JobsKept
<1> QED
  BY <1>0, <1>1, <1>2, <1>4, SameBooksRows, QuietBooks

\* apply_succeeded takes the lock and finds no entry under its reference.
LEMMA LockBalanced ==
  ASSUME IInv, IInv', BooksInv, NEW t \in Threads, LockAttempt(t)
  PROVE  BooksInv'
<1> DEFINE a == th[t].a
           done == Recorded(a, th[t].ref) /\ att[a].amount > 0
<1>0. /\ UNCHANGED <<account, txn, refund, plans>> /\ th[t] # Idle
      /\ th \in [Threads -> {Idle} \cup Jobs] /\ att \in [Attempts -> AttemptRow]
      /\ acct \in Account /\ th[t] \in Jobs
  BY DEF LockAttempt, IInv, TypeOK, Busy
<1>1. CASE done
  <2>1. att' = [att EXCEPT ![a].status = "Succeeded"] /\ EndOver(t, Of(a))
    BY <1>1 DEF LockAttempt
  <2>2. \A b \in Attempts : /\ att'[b].amount = att[b].amount /\ att'[b].option = att[b].option
                            /\ att'[b].status = att[b].status \/ att'[b].status = "Succeeded"
    BY <1>0, <2>1 DEF AttemptRow
  <2>3. \A b \in Attempts : RowKept(b)
    BY <2>2 DEF RowKept
  <2>4. \A u \in Threads : th'[u] # Idle => JobKept(u)
    BY <2>1, JobsKept DEF Of
  <2> QED
    BY <1>0, <2>3, <2>4, SameBooksRows, SamePlans, QuietBooks
<1>2. CASE ~done
  <2> DEFINE was == IF Polled(th[t]) THEN th[t].was ELSE acct
  <2>1. /\ th' = [th EXCEPT ![t].op = "apply", ![t].stale = FALSE, ![t].was = was]
        /\ UNCHANGED att
    BY <1>0, <1>2 DEF LockAttempt
  <2> HIDE DEF was
  <2>2. ASSUME NEW u \in Threads, u # t PROVE JobKept(u)
    BY <1>0, <2>1, <2>2 DEF JobKept
  <2>3. BookJob(t)'
    <3>1. th'[t].op = "apply" /\ th'[t].a = a /\ th'[t].ref = th[t].ref
      BY <1>0, <2>1 DEF Jobs
    <3>2. att[a].amount > 0 => txn[a][th[t].ref] = "none"
      BY <1>2 DEF Recorded
    <3> QED
      BY <1>0, <2>1, <3>1, <3>2 DEF BookJob
  <2> QED
    BY <1>0, <2>1, <2>2, <2>3, SameAttempts, SameBooksRows, SamePlans, QuietBooks
<1> QED
  BY <1>1, <1>2

LEMMA SetupBalanced ==
  ASSUME IInv, IInv', BooksInv, NEW t \in Threads, ApplySetup(t)
  PROVE  BooksInv'
<1> DEFINE a == th[t].a
<1>0. /\ UNCHANGED <<lost, txn, refund>> /\ att[a].amount = 0 /\ EndOver(t, Of(a))
      /\ att' = [att EXCEPT ![a].status = "Succeeded"]
      /\ att \in [Attempts -> AttemptRow] /\ acct \in Account /\ plan \in PlanRow
  BY DEF ApplySetup, IInv, TypeOK
<1>1. acct'.out = acct.out /\ acct'.rec = acct.rec
  <2>1. \E status : acct' = [acct EXCEPT !.status = status]
    BY DEF ApplySetup
  <2> QED
    BY <1>0, <2>1 DEF Account
<1>2. \A b \in Attempts : RowKept(b)
  <2>1. \A b \in Attempts : /\ att'[b].amount = att[b].amount /\ att'[b].option = att[b].option
                            /\ att'[b].status = att[b].status \/ att'[b].status = "Succeeded"
    BY <1>0 DEF AttemptRow
  <2> QED
    BY <2>1 DEF RowKept
<1>3. BooksKept
  BY <1>0, <1>1, <1>2 DEF BooksKept, RefundKept
<1>4. PlansKept
  <2>1. PICK saved \in BOOLEAN : EnsurePlan(a, saved)
    BY DEF ApplySetup
  <2>2. CASE plan.status \in Running
    <3>1. plan' = Attach(plan, saved) /\ inst' = inst
      BY <1>0, <2>1, <2>2 DEF EnsurePlan
    <3>2. plan'.paid = plan.paid
      BY <1>0, <3>1 DEF Attach, PlanRow
    <3> QED
      BY <1>0, <3>1, <3>2 DEF PlansKept, PaidSlots, PlanRow
  <2>3. CASE plan.status \notin Running
    <3>1. plan'.paid = 0
      BY <1>0, <2>1, <2>3 DEF EnsurePlan
    <3>2. \A i \in Slots : inst'[i] # "Paid"
      BY <1>0, <2>1, <2>3 DEF EnsurePlan, Schedule
    <3> QED
      BY <1>0, <3>1, <3>2 DEF PlansKept, PaidSlots, PlanRow
  <2> QED
    BY <2>2, <2>3
<1>5. \A u \in Threads : th'[u] # Idle => JobKept(u)
  BY <1>0, JobsKept DEF Of
<1> QED
  BY <1>3, <1>4, <1>5, QuietBooks

\* A job that writes the balances ends; another job of its attempt is superseded.
LEMMA Superseded ==
  ASSUME IInv, NEW t \in Threads, NEW new, WriteAccount(t, new), th[t] # Idle,
         NEW u \in Threads, th'[u] # Idle, th'[u].op \in {"apply", "refund"}
  PROVE  /\ u # t /\ th[u] # Idle
         /\ th[u].a = th[t].a \/ th[u].stale => th'[u].stale
         /\ th'[u].op = th[u].op /\ th'[u].a = th[u].a /\ th'[u].ref = th[u].ref
<1> DEFINE others == Of(th[t].a)
<1>1. EndOver(t, others) /\ th \in [Threads -> {Idle} \cup Jobs]
  BY DEF WriteAccount, IInv, TypeOK
<1>2. u # t
  BY <1>1 DEF EndOver
<1>3. CASE u \in others
  <2>1. th[u] \in Jobs /\ th[u] # Idle /\ th'[u] = [th[u] EXCEPT !.stale = TRUE]
    BY <1>1, <1>2, <1>3 DEF EndOver, Of
  <2> QED
    BY <1>2, <2>1 DEF Jobs
<1>4. CASE u \notin others
  <2>1. th'[u] = th[u] /\ th[u] # Idle
    BY <1>1, <1>2, <1>4 DEF EndOver
  <2>2. th[u].a # th[t].a
    BY <1>4, <2>1 DEF Of
  <2> QED
    BY <1>2, <2>1, <2>2
<1> QED
  BY <1>3, <1>4

LEMMA BalancesWritten ==
  ASSUME IInv, BooksInv, NEW t \in Threads, NEW new, WriteAccount(t, new), ~lost',
         th[t] # Idle, th[t].op \in {"apply", "refund"}
  PROVE  /\ ~lost /\ ~th[t].stale
         /\ th[t].was.out = acct.out /\ th[t].was.rec = acct.rec
         /\ acct'.out = new.out /\ acct'.rec = new.rec
<1>1. /\ ~lost /\ ~th[t].stale
      /\ th[t].was.out = acct.out /\ th[t].was.rec = acct.rec
  BY DEF WriteAccount
<1> QED
  BY <1>1 DEF WriteAccount, Column

LEMMA OneMore == \A n, m \in Nat : (n + 1) * m = n * m + m
OBVIOUS

\* The sums once apply_succeeded has entered the payment of a.
EnteredSums(a) ==
    LET m == att[a].amount
        towards == att[a].option \in {"payment_plan", "pay_next"} IN
    /\ Paid' = Paid + m /\ Returned' = Returned
    /\ Total(RowsTowards)' = Total(RowsTowards) + (IF towards THEN 1 ELSE 0)
    /\ Total(PaidTowards)' = Total(PaidTowards) + (IF towards THEN m ELSE 0)

LEMMA EntryRows ==
  ASSUME IInv, BooksInv, NEW t \in Threads, NEW a \in Attempts, a = th[t].a, ApplySucceeded(t)
  PROVE  /\ att[a].amount \in Nat /\ att[a].amount > 0 /\ att[a].status # "none"
         /\ txn[a].session = "none" /\ txn[a].pi \in {"none", "Refunded"}
         /\ th[t].ref \in Reference /\ txn[a][th[t].ref] = "none"
         /\ txn'[a][th[t].ref] = "Succeeded"
         /\ \A ref \in Reference : ref # th[t].ref => txn'[a][ref] = txn[a][ref]
         /\ txn'[a].adj = txn[a].adj
         /\ \A b \in Attempts \ {a} : txn'[b] = txn[b]
         /\ \A b \in Attempts : att'[b].amount = att[b].amount /\ att'[b].option = att[b].option
         /\ att'[a].status = "Succeeded" /\ \A b \in Attempts \ {a} : att'[b].status = att[b].status
         /\ UNCHANGED refund
<1>1. /\ th[t] # Idle /\ th[t].op = "apply" /\ att[a].amount > 0 /\ UNCHANGED refund
      /\ txn' = [txn EXCEPT ![a][th[t].ref] = "Succeeded"]
      /\ att' = [att EXCEPT ![a].status = "Succeeded"]
  BY DEF ApplySucceeded, Busy
<1>2. ThreadOK(t) /\ BookJob(t) /\ OneEntry(a) /\ BookRow(a) /\ th[t] \in Jobs
  BY <1>1 DEF IInv, TypeOK, ThreadsOK, RowsOK, RowOK, BooksInv, BookJobs, BookRows
<1>3. att \in [Attempts -> AttemptRow] /\ txn \in [Attempts -> Transactions]
  BY DEF IInv, TypeOK
<1>4. txn[a].pi # "Succeeded" /\ txn[a].session # "Succeeded" /\ txn[a].session # "Refunded"
  BY <1>1, <1>2 DEF ThreadOK, Applies, OneEntry
<1>5. txn[a].session = "none" /\ txn[a].pi \in {"none", "Refunded"}
  BY <1>3, <1>4 DEF Transactions, Entry
<1>6. th[t].ref \in Reference /\ txn[a][th[t].ref] = "none"
  BY <1>1, <1>2 DEF BookJob, Jobs
<1>7. /\ \A b \in Attempts : att'[b].amount = att[b].amount /\ att'[b].option = att[b].option
      /\ att'[a].status = "Succeeded" /\ \A b \in Attempts \ {a} : att'[b].status = att[b].status
  BY <1>1, <1>3 DEF AttemptRow
<1>8. att[a].status # "none" /\ att[a].amount \in Nat
  BY <1>1, <1>2, <1>3 DEF ThreadOK, OwnRow, Matched, AttemptRow
<1>9. \A b \in Attempts \ {a} : txn'[b] = txn[b]
  BY <1>1, <1>3
<1>10. /\ txn'[a][th[t].ref] = "Succeeded" /\ txn'[a].adj = txn[a].adj
       /\ \A ref \in Reference : ref # th[t].ref => txn'[a][ref] = txn[a][ref]
  <2>1. CASE th[t].ref = "pi"
    BY <1>1, <1>3, <2>1 DEF Transactions, Reference
  <2>2. CASE th[t].ref = "session"
    BY <1>1, <1>3, <2>2 DEF Transactions, Reference
  <2> QED
    BY <1>6, <2>1, <2>2 DEF Reference
<1> QED
  BY <1>1, <1>5, <1>6, <1>7, <1>8, <1>9, <1>10

LEMMA EntryCounts ==
  ASSUME IInv, BooksInv, NEW t \in Threads, NEW a \in Attempts, a = th[t].a, ApplySucceeded(t)
  PROVE  /\ Rows(a) \in {0, 1} /\ (Rows(a) = 1 <=> txn[a].pi = "Refunded")
         /\ Rows(a)' = Rows(a) + 1
         /\ \A b \in Attempts \ {a} : Rows(b)' = Rows(b)
<1>1. /\ txn[a].session = "none" /\ txn[a].pi \in {"none", "Refunded"}
      /\ \A b \in Attempts \ {a} : txn'[b] = txn[b]
  BY EntryRows
<1>2. th[t].ref = "pi" \/ th[t].ref = "session"
  BY EntryRows DEF Reference
<1>3. \A b \in Attempts \ {a} : Rows(b)' = Rows(b)
  BY <1>1 DEF Rows
<1>4. CASE th[t].ref = "pi"
  <2>1. /\ txn[a].pi = "none" /\ txn[a].session = "none"
        /\ txn'[a].pi = "Succeeded" /\ txn'[a].session = "none"
    BY <1>1, <1>4, EntryRows DEF Reference
  <2>2. Rows(a) = 0 /\ Rows(a)' = 1
    BY <2>1, RowsCount
  <2> QED
    BY <1>3, <2>1, <2>2
<1>5. CASE th[t].ref = "session"
  <2>1. /\ txn[a].session = "none"
        /\ txn'[a].pi = txn[a].pi /\ txn'[a].session = "Succeeded"
    BY <1>1, <1>5, EntryRows DEF Reference
  <2>2. CASE txn[a].pi = "none"
    <3>1. Rows(a) = 0 /\ Rows(a)' = 1
      BY <2>1, <2>2, RowsCount
    <3> QED
      BY <1>3, <2>2, <3>1
  <2>3. CASE txn[a].pi = "Refunded"
    <3>1. Rows(a) = 1 /\ Rows(a)' = 2
      BY <2>1, <2>3, RowsCount
    <3> QED
      BY <1>3, <2>3, <3>1
  <2> QED
    BY <1>1, <2>2, <2>3
<1> QED
  BY <1>2, <1>4, <1>5

LEMMA EntrySums ==
  ASSUME IInv, IInv', BooksInv, NEW t \in Threads, NEW a \in Attempts, a = th[t].a,
         ApplySucceeded(t)
  PROVE  EnteredSums(a)
<1> DEFINE m == att[a].amount
           towards == att[a].option \in {"payment_plan", "pay_next"}
<1>1. /\ PaidOf \in [Attempts -> Nat] /\ PaidOf' \in [Attempts -> Nat]
      /\ RowsTowards \in [Attempts -> Nat] /\ RowsTowards' \in [Attempts -> Nat]
      /\ PaidTowards \in [Attempts -> Nat] /\ PaidTowards' \in [Attempts -> Nat]
  BY BooksType, BooksTypeNext DEF IInv, BookTypes
<1>2. /\ m \in Nat /\ UNCHANGED refund
      /\ \A b \in Attempts : att'[b].amount = att[b].amount /\ att'[b].option = att[b].option
  BY EntryRows
<1>3. Rows(a) \in Nat /\ Rows(a)' = Rows(a) + 1 /\ \A b \in Attempts \ {a} : Rows(b)' = Rows(b)
  BY EntryCounts
<1>4. (Rows(a) + 1) * m = Rows(a) * m + m
  <2> HIDE DEF m
  <2> QED
    BY <1>2, <1>3, OneMore
<1>5. Paid' = Paid + m
  <2>1. PaidOf'[a] = PaidOf[a] + m
    BY <1>2, <1>3, <1>4 DEF PaidOf
  <2>2. \A b \in Attempts \ {a} : PaidOf'[b] = PaidOf[b]
    BY <1>2, <1>3 DEF PaidOf
  <2>3. Total(PaidOf') = Total(PaidOf) + m
    <3> DEFINE before == PaidOf
               after == PaidOf'
    <3>1. /\ m \in Nat /\ before \in [Attempts -> Nat] /\ after \in [Attempts -> Nat]
          /\ after[a] = before[a] + m /\ \A b \in Attempts \ {a} : after[b] = before[b]
      BY <1>1, <1>2, <2>1, <2>2
    <3> HIDE DEF m, before, after
    <3>2. Total(after) = Total(before) + m
      BY <3>1, TotalGrows
    <3> QED
      BY <3>2 DEF m, before, after
  <2> QED
    BY <2>3 DEF Paid, PaidOf
<1>6. Returned' = Returned
  <2>1. \A b \in Attempts : txn'[b].adj = txn[b].adj
    BY EntryRows
  <2> QED
    BY <1>2, <2>1 DEF Returned
<1>7. /\ Total(RowsTowards') = Total(RowsTowards) + (IF towards THEN 1 ELSE 0)
      /\ Total(PaidTowards') = Total(PaidTowards) + (IF towards THEN m ELSE 0)
  <2>1. CASE towards
    <3>1. RowsTowards'[a] = RowsTowards[a] + 1 /\ PaidTowards'[a] = PaidTowards[a] + m
      BY <1>2, <1>3, <1>4, <2>1 DEF RowsTowards, PaidTowards, Towards
    <3>2. \A b \in Attempts \ {a} : RowsTowards'[b] = RowsTowards[b] /\ PaidTowards'[b] = PaidTowards[b]
      BY <1>2, <1>3 DEF RowsTowards, PaidTowards, Towards
    <3>3. Total(PaidTowards') = Total(PaidTowards) + m
      <4> DEFINE before == PaidTowards
                 after == PaidTowards'
      <4>1. /\ m \in Nat /\ before \in [Attempts -> Nat] /\ after \in [Attempts -> Nat]
            /\ after[a] = before[a] + m /\ \A b \in Attempts \ {a} : after[b] = before[b]
        BY <1>1, <1>2, <3>1, <3>2
      <4> HIDE DEF m, before, after
      <4>2. Total(after) = Total(before) + m
        BY <4>1, TotalGrows
      <4> QED
        BY <4>2 DEF m, before, after
    <3>4. Total(RowsTowards') = Total(RowsTowards) + 1
      <4> DEFINE one == 1
                 before == RowsTowards
                 after == RowsTowards'
      <4>1. /\ one \in Nat /\ before \in [Attempts -> Nat] /\ after \in [Attempts -> Nat]
            /\ after[a] = before[a] + one /\ \A b \in Attempts \ {a} : after[b] = before[b]
        BY <1>1, <3>1, <3>2
      <4> HIDE DEF one, before, after
      <4>2. Total(after) = Total(before) + one
        BY <4>1, TotalGrows
      <4> QED
        BY <4>2 DEF one, before, after
    <3> QED
      BY <2>1, <3>3, <3>4
  <2>2. CASE ~towards
    <3>1. \A b \in Attempts : RowsTowards'[b] = RowsTowards[b] /\ PaidTowards'[b] = PaidTowards[b]
      BY <1>2, <1>3, <2>2 DEF RowsTowards, PaidTowards, Towards
    <3>2. RowsTowards' = RowsTowards /\ PaidTowards' = PaidTowards
      BY <3>1 DEF RowsTowards, PaidTowards
    <3> QED
      BY <1>1, <2>2, <3>2, BooksType DEF IInv, BookTypes
  <2> QED
    BY <2>1, <2>2
<1> QED
  BY <1>5, <1>6, <1>7 DEF EnteredSums

LEMMA EntryAccount ==
  ASSUME IInv, IInv', BooksInv, NEW t \in Threads, NEW a \in Attempts, a = th[t].a,
         ApplySucceeded(t), ~lost'
  PROVE  AccountBalanced'
<1> DEFINE was == th[t].was
           m == att[a].amount
           out == Part(was.out - m)
<1>1. /\ th[t] # Idle /\ th[t].op = "apply"
      /\ \E status : WriteAccount(t, [out |-> out, rec |-> was.rec + m, status |-> status])
  BY DEF ApplySucceeded, Busy
<1>2. /\ ~lost /\ was.out = acct.out /\ was.rec = acct.rec
      /\ acct'.out = out /\ acct'.rec = was.rec + m
  <2>1. PICK status : WriteAccount(t, [out |-> out, rec |-> was.rec + m, status |-> status])
    BY <1>1
  <2> DEFINE new == [out |-> out, rec |-> was.rec + m, status |-> status]
  <2>2. new.out = out /\ new.rec = was.rec + m
    OBVIOUS
  <2>3. WriteAccount(t, new)
    BY <2>1
  <2> HIDE DEF new
  <2> QED
    BY <1>1, <2>2, <2>3, BalancesWritten
<1>3. AccountBalanced
  BY <1>2 DEF BooksInv, Balanced
<1>4. acct.out \in Nat /\ acct.rec \in Nat /\ m \in Nat /\ Paid \in Nat /\ Returned \in Nat
  BY EntryRows, BooksType DEF IInv, TypeOK, Account, BookTypes
<1>5. Paid' = Paid + m /\ Returned' = Returned
  BY EntrySums DEF EnteredSums
<1>6. acct'.rec = Paid' - Returned'
  BY <1>2, <1>3, <1>4, <1>5 DEF AccountBalanced
<1>7. acct'.out + acct'.rec >= Balance
  BY <1>2, <1>3, <1>4 DEF AccountBalanced, Part
<1>8. Paid' <= Balance => acct'.out + acct'.rec = Balance
  BY <1>2, <1>3, <1>4, <1>5 DEF AccountBalanced, Part
<1>9. ASSUME NEW b \in Attempts PROVE txn'[b].adj <= 1 /\ Rows(b)' <= 1 + txn'[b].adj
  <2>1. txn[b].adj \in Nat /\ BookRow(b)
    BY DEF IInv, TypeOK, Transactions, BooksInv, BookRows
  <2>2. txn[b].adj <= 1 /\ Rows(b) <= 1 + txn[b].adj
    BY <1>3 DEF AccountBalanced
  <2>3. CASE b # a
    <3>1. Rows(b)' = Rows(b) /\ txn'[b].adj = txn[b].adj
      BY <2>3, EntryCounts, EntryRows
    <3> QED
      BY <2>2, <3>1
  <2>4. CASE b = a
    <3>1. /\ Rows(b)' = Rows(b) + 1 /\ txn'[b].adj = txn[b].adj
          /\ Rows(b) \in {0, 1} /\ (Rows(b) = 1 => txn[b].pi = "Refunded")
      BY <2>4, EntryCounts, EntryRows
    <3>2. Rows(b) = 1 => txn[b].adj > 0
      BY <2>1, <3>1 DEF BookRow
    <3> QED
      BY <2>1, <2>2, <3>1, <3>2
  <2> QED
    BY <2>3, <2>4
<1> QED
  BY <1>6, <1>7, <1>8, <1>9 DEF AccountBalanced

\* A payment covers at most one instalment.
LEMMA TargetOne ==
  ASSUME IInv, NEW a \in Attempts
  PROVE  \E i : Target(a) \subseteq {i}
<1>1. \A f : \A i, k \in NextUnpaid(f) : ~(i < k)
  BY DEF NextUnpaid, Slots
<1>2. \A i, k \in NextUnpaid(inst) : i = k
  BY <1>1 DEF NextUnpaid, Slots
<1>3. \A i, k \in Target(a) : i = k
  BY <1>2 DEF Target
<1> QED
  BY <1>3

LEMMA AppliedSlots ==
  ASSUME IInv, NEW a \in Attempts, inst' = AppliedInst(a)
  PROVE  Cardinality(PaidSlots)' \in Nat /\ Cardinality(PaidSlots)' <= Cardinality(PaidSlots) + 1
<1>1. PICK i : Target(a) \subseteq {i}
  BY TargetOne
<1>2. PaidSlots' \subseteq PaidSlots \cup {i}
  BY <1>1 DEF AppliedInst, PaidSlots
<1>3. IsFiniteSet(PaidSlots) /\ Cardinality(PaidSlots) \in Nat
  BY SlotsFinite
<1>4. /\ IsFiniteSet(PaidSlots \cup {i})
      /\ Cardinality(PaidSlots \cup {i}) =
            IF i \in PaidSlots THEN Cardinality(PaidSlots) ELSE Cardinality(PaidSlots) + 1
  BY <1>3, FS_AddElement, Zenon
<1>5. IsFiniteSet(PaidSlots') /\ Cardinality(PaidSlots') <= Cardinality(PaidSlots \cup {i})
  <2>1. PaidSlots' \in SUBSET (PaidSlots \cup {i})
    BY <1>2
  <2> QED
    BY <1>4, <2>1, FS_Subset, Zenon
<1>6. Cardinality(PaidSlots') \in Nat
  BY <1>5, FS_CardinalityType
<1> QED
  BY <1>3, <1>4, <1>5, <1>6

LEMMA AppliedPaid ==
  ASSUME IInv, NEW a \in Attempts
  PROVE  AppliedPlan(a).paid \in Nat /\ AppliedPlan(a).paid <= plan.paid + att[a].amount
<1>1. plan \in PlanRow /\ att[a].amount \in Nat /\ plan.paid \in Nat
  BY DEF IInv, TypeOK, PlanRow, AttemptRow
<1>2. AppliedPlan(a).paid = plan.paid \/ AppliedPlan(a).paid = plan.paid + att[a].amount
  BY <1>1 DEF AppliedPlan, PlanRow
<1> QED
  BY <1>1, <1>2

LEMMA EntryInstalments ==
  ASSUME IInv, IInv', BooksInv, NEW t \in Threads, NEW a \in Attempts, a = th[t].a,
         ApplySucceeded(t)
  PROVE  InstalmentsBacked'
<1> DEFINE m == att[a].amount
           towards == att[a].option \in {"payment_plan", "pay_next"}
           n == Total(RowsTowards)
           sum == Total(PaidTowards)
<1>1. /\ Total(RowsTowards)' = n + (IF towards THEN 1 ELSE 0)
      /\ Total(PaidTowards)' = sum + (IF towards THEN m ELSE 0)
  BY EntrySums DEF EnteredSums
<1>2. /\ n \in Nat /\ sum \in Nat /\ m \in Nat /\ m > 0 /\ Cardinality(PaidSlots) \in Nat
      /\ plan.paid \in Nat /\ plan \in PlanRow
  BY BooksType, EntryRows, SlotsFinite DEF IInv, TypeOK, PlanRow, BookTypes
<1>3. Cardinality(PaidSlots) <= n /\ plan.paid <= sum
  BY DEF BooksInv, Balanced, InstalmentsBacked, PaidSlots, RowsTowards, PaidTowards
<1> HIDE DEF n, sum
<1> SUFFICES Cardinality(PaidSlots)' <= Total(RowsTowards)' /\ plan'.paid <= Total(PaidTowards)'
  BY DEF InstalmentsBacked, PaidSlots, RowsTowards, PaidTowards
<1>4. CASE UNCHANGED plans
  <2>1. PaidSlots' = PaidSlots /\ plan'.paid = plan.paid
    BY <1>4 DEF PaidSlots
  <2> QED
    BY <1>1, <1>2, <1>3, <2>1
<1>5. ASSUME towards, inst' = AppliedInst(a), plan'.paid = AppliedPlan(a).paid
      PROVE  Cardinality(PaidSlots)' <= Total(RowsTowards)' /\ plan'.paid <= Total(PaidTowards)'
  BY <1>1, <1>2, <1>3, <1>5, AppliedSlots, AppliedPaid
<1>6. ASSUME towards, NEW saved \in BOOLEAN, EnsurePlan(a, saved)
      PROVE  Cardinality(PaidSlots)' <= Total(RowsTowards)' /\ plan'.paid <= Total(PaidTowards)'
  <2>1. CASE plan.status \in Running
    <3>1. inst' = AppliedInst(a) /\ plan' = Attach(AppliedPlan(a), saved)
      BY <1>2, <1>6, <2>1 DEF EnsurePlan
    <3>2. AppliedPlan(a) = plan \/ \E f, g, h :
            AppliedPlan(a) = [plan EXCEPT !.paid = @ + m, !.failures = 0, !.status = f, !.auto = g]
      BY DEF AppliedPlan
    <3>3. Attach(AppliedPlan(a), saved).paid = AppliedPlan(a).paid
      BY <1>2, <3>2 DEF Attach, PlanRow
    <3> QED
      BY <1>5, <1>6, <3>1, <3>3
  <2>2. CASE plan.status \notin Running
    <3>1. plan'.paid = m
      BY <1>6, <2>2 DEF EnsurePlan
    <3>2. PaidSlots' \subseteq {1}
      <4>1. \A i \in Slots : inst'[i] = "Paid" => i = 1
        BY <1>6, <2>2 DEF EnsurePlan, Schedule
      <4> QED
        BY <4>1 DEF PaidSlots
    <3>3. Cardinality(PaidSlots)' <= 1
      <4>1. IsFiniteSet({1}) /\ Cardinality({1}) = 1
        BY FS_Singleton, Zenon
      <4>2. PaidSlots' \in SUBSET {1}
        BY <3>2
      <4>3. Cardinality(PaidSlots') <= Cardinality({1})
        BY <4>1, <4>2, FS_Subset, Zenon
      <4> QED
        BY <4>1, <4>3
    <3>4. Cardinality(PaidSlots)' \in Nat
      <4>1. IsFiniteSet({1}) /\ PaidSlots' \in SUBSET {1}
        BY <3>2, FS_Singleton, Zenon
      <4>2. IsFiniteSet(PaidSlots')
        BY <4>1, FS_Subset, Zenon
      <4> QED
        BY <4>2, FS_CardinalityType
    <3> QED
      BY <1>1, <1>2, <1>6, <3>1, <3>3, <3>4
  <2> QED
    BY <2>1, <2>2
<1>7. CASE ~towards
  BY <1>4, <1>7 DEF ApplySucceeded
<1>8. CASE att[a].option = "payment_plan"
  BY <1>6, <1>8 DEF ApplySucceeded
<1>9. CASE att[a].option = "pay_next"
  BY <1>5, <1>9 DEF ApplySucceeded, ApplyToPlan
<1> QED
  BY <1>7, <1>8, <1>9

LEMMA EntryBalanced ==
  ASSUME IInv, IInv', BooksInv, NEW t \in Threads, NEW a \in Attempts, a = th[t].a,
         ApplySucceeded(t)
  PROVE  BooksInv'
<1>1. /\ th[t] # Idle /\ th[t].op = "apply" /\ att[a].amount > 0
      /\ \E new : WriteAccount(t, new)
  BY DEF ApplySucceeded, Busy
<1>2. BookRows'
  <2> SUFFICES ASSUME NEW b \in Attempts PROVE BookRow(b)'
    BY DEF BookRows
  <2>1. BookRow(b)
    BY DEF BooksInv, BookRows
  <2>2. CASE b # a
    <3>1. /\ txn'[b] = txn[b] /\ att'[b].status = att[b].status /\ att'[b].amount = att[b].amount
          /\ refund' = refund
      BY <2>2, EntryRows
    <3> QED
      BY <2>1, <3>1 DEF BookRow, Booked
  <2>3. CASE b = a
    <3>1. /\ att'[b].status = "Succeeded" /\ att'[b].amount = att[b].amount /\ refund' = refund
          /\ txn'[b].adj = txn[b].adj /\ (txn'[b].pi = "Succeeded" \/ txn'[b].pi = txn[b].pi)
      BY <2>3, EntryRows DEF Reference
    <3> QED
      BY <2>1, <3>1 DEF BookRow
  <2> QED
    BY <2>2, <2>3
<1>3. BookJobs'
  <2> SUFFICES ASSUME NEW u \in Threads, th'[u] # Idle PROVE BookJob(u)'
    BY DEF BookJobs
  <2>1. CASE th'[u].op \notin {"apply", "refund"}
    BY <2>1 DEF BookJob
  <2>2. CASE th'[u].op \in {"apply", "refund"}
    <3>1. /\ u # t /\ th[u] # Idle
          /\ th[u].a = a \/ th[u].stale => th'[u].stale
          /\ th'[u].op = th[u].op /\ th'[u].a = th[u].a /\ th'[u].ref = th[u].ref
      BY <1>1, <2>2, Superseded
    <3>2. BookJob(u) /\ ThreadOK(u) /\ ThreadOK(t)
      BY <1>1, <3>1 DEF BooksInv, BookJobs, IInv, ThreadsOK
    <3>3. th[u].op = "apply" => th[u].a # a /\ th[u].a \in Attempts
      BY <1>1, <3>1, <3>2 DEF ThreadOK, Applies, Busy, OwnRow
    <3>4. th[u].op = "apply" =>
            txn'[th[u].a] = txn[th[u].a] /\ att'[th[u].a].amount = att[th[u].a].amount
      BY <3>3, EntryRows
    <3>5. th[u].a \in Attempts => txn'[th[u].a].adj = txn[th[u].a].adj
      BY EntryRows
    <3>6. th[u].op = "refund" => th[u].a \in Attempts
      BY <3>2 DEF ThreadOK, OwnRow
    <3> QED
      BY <3>1, <3>2, <3>4, <3>5, <3>6 DEF BookJob
  <2> QED
    BY <2>1, <2>2
<1> QED
  BY <1>2, <1>3, EntryAccount, EntryInstalments DEF BooksInv, Balanced

LEMMA RefundRows ==
  ASSUME IInv, BooksInv, NEW t \in Threads, NEW a \in Attempts, a = th[t].a, ApplyRefund(t)
  PROVE  /\ UNCHANGED <<att, plans, refund>>
         /\ txn[a].pi # "none" /\ txn'[a].pi = "Refunded" /\ txn'[a].session = txn[a].session
         /\ txn[a].adj \in Nat /\ txn'[a].adj = txn[a].adj + 1
         /\ refund[a] \in Nat /\ refund[a] > 0
         /\ \A b \in Attempts \ {a} : txn'[b] = txn[b]
<1>1. /\ th[t] # Idle /\ th[t].op = "refund" /\ UNCHANGED <<att, plans, refund>>
      /\ txn' = [txn EXCEPT ![a].pi = "Refunded", ![a].adj = @ + 1]
  BY DEF ApplyRefund, Busy
<1>2. ThreadOK(t) /\ txn \in [Attempts -> Transactions] /\ refund \in [Attempts -> Nat]
  BY <1>1 DEF IInv, TypeOK, ThreadsOK
<1>3. txn[a].pi # "none" /\ refund[a] > 0
  BY <1>1, <1>2 DEF ThreadOK, Grounded
<1> DEFINE n == txn[a].adj + 1
           row == [txn[a] EXCEPT !.pi = "Refunded", !.adj = n]
<1>4. txn' = [txn EXCEPT ![a] = row]
  BY <1>1
<1>5. row.pi = "Refunded" /\ row.session = txn[a].session /\ row.adj = n /\ txn[a].adj \in Nat
  <2> HIDE DEF n
  <2> QED
    BY <1>2 DEF Transactions
<1>6. txn'[a] = row /\ \A b \in Attempts \ {a} : txn'[b] = txn[b]
  <2> HIDE DEF row
  <2> QED
    BY <1>2, <1>4
<1> QED
  BY <1>1, <1>2, <1>3, <1>5, <1>6

LEMMA RefundSums ==
  ASSUME IInv, IInv', BooksInv, NEW t \in Threads, NEW a \in Attempts, a = th[t].a,
         ApplyRefund(t)
  PROVE  /\ \A b \in Attempts : Rows(b)' = Rows(b)
         /\ Paid' = Paid /\ Returned' = Returned + refund[a]
         /\ Total(RowsTowards)' = Total(RowsTowards) /\ Total(PaidTowards)' = Total(PaidTowards)
<1>1. \A b \in Attempts : Rows(b)' = Rows(b)
  <2>1. \A b \in Attempts \ {a} : Rows(b)' = Rows(b)
    BY RefundRows DEF Rows
  <2>2. Rows(a)' = Rows(a)
    <3>1. txn[a].pi # "none" /\ txn'[a].pi # "none" /\ txn'[a].session = txn[a].session
      BY RefundRows
    <3> QED
      BY <3>1, RowsCount
  <2> QED
    BY <2>1, <2>2
<1>2. UNCHANGED <<att, refund>>
  BY RefundRows
<1>3. Paid' = Paid
  BY <1>1, <1>2 DEF Paid
<1>4. RowsTowards' = RowsTowards /\ PaidTowards' = PaidTowards
  BY <1>1, <1>2 DEF RowsTowards, PaidTowards, Towards
<1>5. Returned' = Returned + refund[a]
  <2> DEFINE before == ReturnedOf
             after == ReturnedOf'
             k == refund[a]
  <2>1. txn[a].adj \in Nat /\ k \in Nat /\ txn'[a].adj = txn[a].adj + 1
    BY RefundRows
  <2>2. (txn[a].adj + 1) * k = txn[a].adj * k + k
    <3> HIDE DEF k
    <3> QED
      BY <2>1, OneMore
  <2>3. before \in [Attempts -> Nat] /\ after \in [Attempts -> Nat]
    BY BooksType, BooksTypeNext DEF IInv, BookTypes
  <2>4. after[a] = before[a] + k
    BY <1>2, <2>1, <2>2 DEF ReturnedOf
  <2>5. \A b \in Attempts \ {a} : after[b] = before[b]
    BY <1>2, RefundRows DEF ReturnedOf
  <2> HIDE DEF before, after, k
  <2>6. Total(after) = Total(before) + k
    BY <2>1, <2>3, <2>4, <2>5, TotalGrows
  <2> QED
    BY <2>6 DEF before, after, k, Returned, ReturnedOf
<1> QED
  BY <1>1, <1>3, <1>4, <1>5

\* What is given back of a payment was paid.
LEMMA RefundCovered ==
  ASSUME IInv, IInv', BooksInv, NEW t \in Threads, NEW a \in Attempts, a = th[t].a,
         ApplyRefund(t), AccountBalanced, txn[a].adj = 0
  PROVE  Returned' <= Paid
<1>1. ASSUME NEW b \in Attempts PROVE ReturnedOf'[b] <= PaidOf[b]
  <2>1. txn'[b].adj \in {0, 1} /\ (txn'[b].adj = 1 => txn[b].pi # "none")
    <3>1. txn[b].adj \in Nat /\ txn[b].adj <= 1 /\ (txn[b].adj > 0 => txn[b].pi # "none")
      BY DEF IInv, TypeOK, Transactions, AccountBalanced, BooksInv, BookRows, BookRow
    <3>2. CASE b = a
      BY <3>2, RefundRows
    <3>3. CASE b # a
      BY <3>1, <3>3, RefundRows
    <3> QED
      BY <3>2, <3>3
  <2>2. /\ refund[b] \in Nat /\ att[b].amount \in Nat /\ refund[b] <= att[b].amount
        /\ refund' = refund
    BY RefundRows DEF IInv, TypeOK, AttemptRow, BooksInv, BookRows, BookRow
  <2>3. Rows(b) \in {0, 1, 2} /\ (txn[b].pi # "none" => Rows(b) \in {1, 2})
    BY RowsCount
  <2>4. Rows(b) * att[b].amount \in Nat /\ (Rows(b) \in {1, 2} => att[b].amount <= Rows(b) * att[b].amount)
    BY <2>2, <2>3
  <2>5. txn'[b].adj * refund[b] = 0 \/ (txn'[b].adj = 1 /\ txn'[b].adj * refund[b] = refund[b])
    BY <2>1, <2>2
  <2>6. txn'[b].adj * refund[b] <= Rows(b) * att[b].amount
    BY <2>1, <2>2, <2>3, <2>4, <2>5
  <2> QED
    BY <2>2, <2>6 DEF ReturnedOf, PaidOf
<1>2. PaidOf \in [Attempts -> Nat] /\ ReturnedOf' \in [Attempts -> Nat]
  BY BooksType, BooksTypeNext DEF IInv, BookTypes
<1>3. Total(ReturnedOf') <= Total(PaidOf)
  BY <1>1, <1>2, TotalLeast
<1> QED
  BY <1>3 DEF Returned, ReturnedOf, Paid, PaidOf

LEMMA RefundAccount ==
  ASSUME IInv, IInv', BooksInv, NEW t \in Threads, NEW a \in Attempts, a = th[t].a,
         ApplyRefund(t), ~lost'
  PROVE  AccountBalanced'
<1> DEFINE was == th[t].was
           k == refund[a]
           rec == Part(was.rec - k)
<1>1. /\ th[t] # Idle /\ th[t].op = "refund"
      /\ \E status : WriteAccount(t, [out |-> was.out + k, rec |-> rec, status |-> status])
  BY DEF ApplyRefund, Busy
<1>2. /\ ~lost /\ ~th[t].stale /\ was.out = acct.out /\ was.rec = acct.rec
      /\ acct'.out = was.out + k /\ acct'.rec = rec
  <2>1. PICK status : WriteAccount(t, [out |-> was.out + k, rec |-> rec, status |-> status])
    BY <1>1
  <2> DEFINE new == [out |-> was.out + k, rec |-> rec, status |-> status]
  <2>2. new.out = was.out + k /\ new.rec = rec
    OBVIOUS
  <2>3. WriteAccount(t, new)
    BY <2>1
  <2> HIDE DEF new
  <2> QED
    BY <1>1, <2>2, <2>3, BalancesWritten
<1>3. AccountBalanced /\ txn[a].adj = 0
  BY <1>1, <1>2 DEF BooksInv, Balanced, BookJobs, BookJob
<1>4. /\ acct.out \in Nat /\ acct.rec \in Nat /\ k \in Nat /\ Paid \in Nat /\ Returned \in Nat
  BY RefundRows, BooksType DEF IInv, TypeOK, Account, BookTypes
<1>5. Paid' = Paid /\ Returned' = Returned + k /\ \A b \in Attempts : Rows(b)' = Rows(b)
  BY RefundSums
<1>6. Returned' <= Paid
  BY <1>3, RefundCovered
<1>7. acct'.rec = acct.rec - k /\ acct'.out = acct.out + k
  BY <1>2, <1>3, <1>4, <1>5, <1>6 DEF AccountBalanced, Part
<1>8. /\ acct'.rec = Paid' - Returned'
      /\ acct'.out + acct'.rec >= Balance
      /\ Paid' <= Balance => acct'.out + acct'.rec = Balance
  BY <1>3, <1>4, <1>5, <1>7 DEF AccountBalanced
<1>9. ASSUME NEW b \in Attempts PROVE txn'[b].adj <= 1 /\ Rows(b)' <= 1 + txn'[b].adj
  <2>1. txn[b].adj <= 1 /\ Rows(b) <= 1 + txn[b].adj /\ txn[b].adj \in Nat /\ Rows(b) \in {0, 1, 2}
    <3>1. Rows(b) \in {0, 1, 2}
      BY RowsCount
    <3>2. txn[b].adj \in Nat
      BY DEF IInv, TypeOK, Transactions
    <3> QED
      BY <1>3, <3>1, <3>2 DEF AccountBalanced
  <2>2. CASE b = a
    BY <1>3, <1>5, <2>1, <2>2, RefundRows
  <2>3. CASE b # a
    BY <1>5, <2>1, <2>3, RefundRows
  <2> QED
    BY <2>2, <2>3
<1> QED
  BY <1>8, <1>9 DEF AccountBalanced

LEMMA RefundBalanced ==
  ASSUME IInv, IInv', BooksInv, NEW t \in Threads, NEW a \in Attempts, a = th[t].a,
         ApplyRefund(t)
  PROVE  BooksInv'
<1>1. /\ th[t] # Idle /\ th[t].op = "refund" /\ UNCHANGED <<att, plans, refund>>
      /\ \E new : WriteAccount(t, new)
  BY DEF ApplyRefund, Busy
<1>2. BookRows'
  <2> SUFFICES ASSUME NEW b \in Attempts PROVE BookRow(b)'
    BY DEF BookRows
  <2>1. BookRow(b)
    BY DEF BooksInv, BookRows
  <2>2. CASE b # a
    BY <1>1, <2>1, <2>2, RefundRows DEF BookRow, Booked
  <2>3. CASE b = a
    <3>1. Booked(b)
      BY <2>3, RefundRows DEF Booked, Reference
    <3>2. txn'[b].pi = "Refunded" /\ txn'[b].adj > 0 /\ refund[b] > 0
      BY <2>3, RefundRows
    <3> QED
      BY <1>1, <2>1, <3>1, <3>2 DEF BookRow
  <2> QED
    BY <2>2, <2>3
<1>3. BookJobs'
  <2> SUFFICES ASSUME NEW u \in Threads, th'[u] # Idle PROVE BookJob(u)'
    BY DEF BookJobs
  <2>1. CASE th'[u].op \notin {"apply", "refund"}
    BY <2>1 DEF BookJob
  <2>2. CASE th'[u].op \in {"apply", "refund"}
    <3>1. /\ u # t /\ th[u] # Idle
          /\ th[u].a = a \/ th[u].stale => th'[u].stale
          /\ th'[u].op = th[u].op /\ th'[u].a = th[u].a /\ th'[u].ref = th[u].ref
      BY <1>1, <2>2, Superseded
    <3>2. BookJob(u) /\ th[u].ref \in Reference /\ OwnRow(u)
      BY <3>1 DEF BooksInv, BookJobs, IInv, TypeOK, Jobs, ThreadsOK, ThreadOK
    <3>3. ASSUME th[u].op = "apply", att[th[u].a].amount > 0
          PROVE  txn'[th[u].a][th[u].ref] = "none"
      <4>1. txn[th[u].a][th[u].ref] = "none" /\ th[u].a \in Attempts
        BY <3>2, <3>3 DEF BookJob, OwnRow
      <4>2. CASE th[u].a = a
        <5>1. th[u].ref = "session" /\ txn'[a].session = txn[a].session
          BY <3>2, <4>1, <4>2, RefundRows DEF Reference
        <5> QED
          BY <4>1, <4>2, <5>1
      <4>3. CASE th[u].a # a
        BY <4>1, <4>3, RefundRows
      <4> QED
        BY <4>2, <4>3
    <3>4. ASSUME th[u].op = "refund", ~th'[u].stale PROVE txn'[th[u].a].adj = 0
      <4>1. th[u].a \in Attempts /\ th[u].a # a /\ txn[th[u].a].adj = 0
        BY <3>1, <3>2, <3>4 DEF BookJob, OwnRow
      <4> QED
        BY <4>1, RefundRows
    <3> QED
      BY <1>1, <3>1, <3>3, <3>4 DEF BookJob
  <2> QED
    BY <2>1, <2>2
<1>4. InstalmentsBacked'
  <2>1. Total(RowsTowards)' = Total(RowsTowards) /\ Total(PaidTowards)' = Total(PaidTowards)
    BY RefundSums
  <2> QED
    BY <1>1, <2>1 DEF BooksInv, Balanced, InstalmentsBacked, RowsTowards, PaidTowards
<1> QED
  BY <1>2, <1>3, <1>4, RefundAccount DEF BooksInv, Balanced

LEMMA BooksStep == ASSUME IInv, IInv', BooksInv, [Next]_vars PROVE BooksInv'
<1>1. ASSUME NEW t \in Threads, Work(t) PROVE BooksInv'
  <2>1. CASE ApplySucceeded(t)
    BY <2>1, WorkOn, EntryBalanced DEF ApplySucceeded, Busy
  <2>2. CASE ApplyRefund(t)
    BY <2>2, WorkOn, RefundBalanced DEF ApplyRefund, Busy
  <2> QED
    BY <1>1, <2>1, <2>2, SetupBalanced, LockBalanced, QuietWork DEF Work
<1>2. ASSUME UNCHANGED <<account, att, txn, plans, refund, th>> PROVE BooksInv'
  <2>1. \A u \in Threads : th'[u] # Idle => JobKept(u)
    BY <1>2 DEF JobKept
  <2> QED
    BY <1>2, <2>1, SameAttempts, SameBooksRows, SamePlans, QuietBooks
<1>3. CASE NewDay \/ UNCHANGED vars
  <2>1. UNCHANGED <<account, att, txn, plans, refund, th>>
    BY <1>3 DEF NewDay, vars
  <2> QED
    BY <1>2, <2>1
<1>4. ASSUME NEW e \in events, ReceiveUnmatched(e) \/ ReceiveOld(e) PROVE BooksInv'
  <2>1. UNCHANGED <<account, att, txn, plans, refund, th>>
    BY <1>4 DEF ReceiveUnmatched, ReceiveOld
  <2> QED
    BY <1>2, <2>1
<1> QED
  BY <1>1, <1>3, <1>4, ProviderBalanced, InitiateBalanced, ReceiveBalanced, RequestBalanced DEF Next

\* Unless two transactions wrote the balances over each other, the account owes
\* what was not paid; no payment is entered or given back twice, and every Paid
\* instalment has a booked payment of its own.
THEOREM BooksBalanced == Spec => []Balanced
<1>1. Spec => []IInv
  BY Inductive
<1>2. BooksInv /\ IInv /\ IInv' /\ [Next]_vars => BooksInv'
  BY BooksStep
<1>3. BooksInv => Balanced
  BY DEF BooksInv
<1> QED
  BY <1>1, <1>2, <1>3, BooksInit, PTL DEF Spec

-----------------------------------------------------------------------------
(* The refinement of MoneyBook. *)

Captured == {a \in Attempts : stripe[a] = "paid"}
GivenBack == {a \in Attempts : refund[a] > 0}
Entries(a) == {ref \in Reference : txn[a][ref] = "Succeeded"}
Ledger == [a \in Attempts |-> Entries(a)]

LEMMA BooksStart == Init => Books!Init
<1> SUFFICES ASSUME Init PROVE Books!Init
  OBVIOUS
<1>1. Captured = {}
  BY DEF Init, Captured
<1>2. GivenBack = {}
  <2>1. \A a \in Attempts : refund[a] = 0
    BY DEF Init
  <2> QED
    BY <2>1 DEF GivenBack
<1>3. ASSUME NEW a \in Attempts PROVE Entries(a) = {}
  <2>1. txn[a].pi = "none" /\ txn[a].session = "none"
    BY DEF Init, NoTxn
  <2> QED
    BY <2>1 DEF Entries, Reference
<1> QED
  BY <1>1, <1>2, <1>3 DEF Books!Init, Captured, GivenBack, Entries

LEMMA SameBooks ==
  ASSUME UNCHANGED <<refund, txn>>,
         \A a \in Attempts : stripe'[a] = "paid" <=> stripe[a] = "paid"
  PROVE  UNCHANGED Books!vars
BY DEF Books!vars

LEMMA CaptureBooks ==
  ASSUME IInv, NEW a \in Attempts, UNCHANGED <<refund, txn>>, stripe' = [stripe EXCEPT ![a] = "paid"]
  PROVE  Books!Next
<1>1. Captured' = Captured \cup {a}
  BY DEF IInv, TypeOK, Captured
<1>2. GivenBack' = GivenBack /\ Ledger' = Ledger
  BY DEF GivenBack, Ledger, Entries
<1>3. Books!Capture(a)
  BY <1>1, <1>2 DEF Books!Capture, Captured, GivenBack, Ledger, Entries
<1> QED
  BY <1>3 DEF Books!Next

LEMMA ProviderBooks ==
  ASSUME IInv, NEW a \in Attempts, Provider(a)
  PROVE  [Books!Next]_(Books!vars)
<1>0. UNCHANGED txn /\ stripe \in [Attempts -> Held] /\ refund \in [Attempts -> Nat]
  BY DEF Provider, IInv, TypeOK
<1>1. CASE Settle(a) /\ UNCHANGED refund
  BY <1>0, <1>1, CaptureBooks DEF Settle
<1>2. CASE (Debit(a) \/ Decline(a) \/ LapseSession(a)) /\ UNCHANGED refund
  <2>1. stripe[a] # "paid" /\ \E s \in Held \ {"paid"} : stripe' = [stripe EXCEPT ![a] = s]
    BY <1>2 DEF Debit, Decline, LapseSession, Held
  <2>2. \A b \in Attempts : stripe'[b] = "paid" <=> stripe[b] = "paid"
    BY <1>0, <2>1
  <2> QED
    BY <1>0, <1>2, <2>2, SameBooks
<1>3. CASE IssueRefund(a) /\ UNCHANGED stripe
  <2>1. PICK amount \in 1 .. att[a].amount : refund' = [refund EXCEPT ![a] = amount]
    BY <1>3 DEF IssueRefund
  <2>2. amount > 0
    BY DEF IInv, TypeOK, AttemptRow
  <2>3. GivenBack' = GivenBack \cup {a}
    BY <1>0, <2>1, <2>2 DEF GivenBack
  <2>4. a \in Captured /\ Captured' = Captured /\ Ledger' = Ledger
    BY <1>0, <1>3 DEF IssueRefund, Captured, Ledger, Entries
  <2>5. Books!GiveBack(a)
    BY <2>3, <2>4 DEF Books!GiveBack, Captured, GivenBack, Ledger, Entries
  <2> QED
    BY <2>5 DEF Books!Next
<1> QED
  BY <1>1, <1>2, <1>3 DEF Provider

LEMMA EnterBooks ==
  ASSUME IInv, NEW t \in Threads, NEW a \in Attempts, a = th[t].a, ApplySucceeded(t)
  PROVE  [Books!Next]_(Books!vars)
<1>0. th[t] # Idle /\ th[t] \in Jobs /\ ThreadOK(t) /\ th[t].op = "apply" /\ att[a].amount > 0
  BY DEF ApplySucceeded, Busy, IInv, TypeOK, ThreadsOK
<1>1. stripe[a] = "paid" /\ txn[a].pi # "Succeeded" /\ txn[a].session # "Succeeded"
  BY <1>0 DEF ThreadOK, Grounded, Applies
<1>2. /\ UNCHANGED <<stripe, refund>> /\ txn \in [Attempts -> Transactions]
      /\ txn' = [txn EXCEPT ![a][th[t].ref] = "Succeeded"]
  BY DEF ApplySucceeded, IInv, TypeOK
<1>3. th[t].ref \in Reference
  BY <1>0 DEF Jobs
<1>4. Entries(a) = {}
  BY <1>1 DEF Entries, Reference
<1>5. \A b \in Attempts \ {a} : Entries(b)' = Entries(b)
  BY <1>2 DEF Entries
<1>6. ASSUME NEW ref \in Reference, ref = th[t].ref PROVE Entries(a)' = {ref}
  <2>1. CASE ref = "pi"
    <3>1. txn'[a].pi = "Succeeded" /\ txn'[a].session # "Succeeded"
      BY <1>1, <1>2, <1>6, <2>1 DEF Transactions
    <3> QED
      BY <2>1, <3>1 DEF Entries, Reference
  <2>2. CASE ref = "session"
    <3>1. txn'[a].session = "Succeeded" /\ txn'[a].pi # "Succeeded"
      BY <1>1, <1>2, <1>6, <2>2 DEF Transactions
    <3> QED
      BY <2>2, <3>1 DEF Entries, Reference
  <2> QED
    BY <2>1, <2>2 DEF Reference
<1>7. \E ref \in Reference : Ledger' = [Ledger EXCEPT ![a] = {ref}]
  <2>1. PICK ref \in Reference : ref = th[t].ref
    BY <1>3
  <2>2. Entries(a)' = {ref}
    BY <1>6, <2>1
  <2>3. Ledger' = [Ledger EXCEPT ![a] = {ref}]
    <3> HIDE DEF Entries
    <3> QED
      BY <1>5, <2>2 DEF Ledger
  <2> QED
    BY <2>3
<1>8. Ledger[a] = {} /\ a \in Captured /\ Captured' = Captured /\ GivenBack' = GivenBack
  BY <1>1, <1>2, <1>4 DEF Ledger, Captured, GivenBack
<1>9. Books!Enter(a)
  BY <1>7, <1>8 DEF Books!Enter, Captured, GivenBack, Ledger, Entries
<1> QED
  BY <1>9 DEF Books!Next

\* A refund closes the intent's entry; one that is closed already it leaves.
LEMMA CloseBooks ==
  ASSUME IInv, NEW t \in Threads, NEW a \in Attempts, a = th[t].a, ApplyRefund(t)
  PROVE  [Books!Next]_(Books!vars)
<1>0. th[t] # Idle /\ ThreadOK(t) /\ th[t].op = "refund" /\ OneEntry(a)
  BY DEF ApplyRefund, Busy, IInv, TypeOK, ThreadsOK, RowsOK, RowOK
<1>1. refund[a] > 0 /\ txn[a].pi # "none"
  BY <1>0 DEF ThreadOK, Grounded
<1>2. /\ UNCHANGED <<stripe, refund>> /\ txn \in [Attempts -> Transactions]
      /\ txn' = [txn EXCEPT ![a].pi = "Refunded", ![a].adj = @ + 1]
  BY DEF ApplyRefund, IInv, TypeOK
<1>3. /\ txn'[a].pi = "Refunded" /\ txn'[a].session = txn[a].session
      /\ \A b \in Attempts \ {a} : txn'[b] = txn[b]
  <2> DEFINE n == txn[a].adj + 1
             row == [txn[a] EXCEPT !.pi = "Refunded", !.adj = n]
  <2>1. txn' = [txn EXCEPT ![a] = row]
    BY <1>2
  <2> HIDE DEF n
  <2>2. row.pi = "Refunded" /\ row.session = txn[a].session
    BY <1>2 DEF Transactions
  <2> HIDE DEF row
  <2> QED
    BY <1>2, <2>1, <2>2
<1>4. \A b \in Attempts \ {a} : Entries(b)' = Entries(b)
  BY <1>3 DEF Entries
<1>5. Captured' = Captured /\ GivenBack' = GivenBack /\ a \in GivenBack
  BY <1>1, <1>2 DEF Captured, GivenBack
<1>6. CASE txn[a].pi = "Succeeded"
  <2>1. Entries(a)' = {}
    BY <1>0, <1>3, <1>6 DEF Entries, OneEntry, Reference
  <2>2. Ledger' = [Ledger EXCEPT ![a] = {}]
    BY <1>4, <2>1 DEF Ledger
  <2>3. Books!Close(a)
    BY <1>5, <2>2 DEF Books!Close, Captured, GivenBack, Ledger, Entries
  <2> QED
    BY <2>3 DEF Books!Next
<1>7. CASE txn[a].pi # "Succeeded"
  <2>1. Entries(a)' = Entries(a)
    BY <1>3, <1>7 DEF Entries, Reference
  <2>2. Ledger' = Ledger
    BY <1>4, <2>1 DEF Ledger
  <2> QED
    BY <1>5, <2>2 DEF Books!vars, Captured, GivenBack, Ledger, Entries
<1> QED
  BY <1>6, <1>7

LEMMA StepBooks == ASSUME IInv, [Next]_vars PROVE [Books!Next]_(Books!vars)
<1>1. ASSUME NEW a \in Attempts, NEW option \in Option, Initiate(a, option)
      PROVE  [Books!Next]_(Books!vars)
  <2>1. stripe[a] = "none" /\ UNCHANGED <<txn, refund>> /\ stripe \in [Attempts -> Held]
    BY <1>1 DEF Initiate, Fresh, IInv, TypeOK
  <2>2. stripe' = stripe \/ stripe' = [stripe EXCEPT ![a] = "open"]
    BY <1>1 DEF Initiate, CreateCheckout
  <2>3. \A b \in Attempts : stripe'[b] = "paid" <=> stripe[b] = "paid"
    BY <2>1, <2>2
  <2> QED
    BY <2>1, <2>3, SameBooks
<1>2. ASSUME NEW t \in Threads, NEW a \in Attempts, a = th[t].a, CallStripe(t)
      PROVE  [Books!Next]_(Books!vars)
  <2>1. /\ stripe[a] = "none" /\ UNCHANGED <<txn, refund>> /\ stripe \in [Attempts -> Held]
    BY <1>2 DEF CallStripe, Busy, IInv, TypeOK, ThreadsOK, ThreadOK, Grounded
  <2>2. CASE stripe' = [stripe EXCEPT ![a] = "paid"]
    BY <2>1, <2>2, CaptureBooks
  <2>3. CASE \/ UNCHANGED stripe
             \/ stripe' = [stripe EXCEPT ![a] = "processing"]
             \/ stripe' = [stripe EXCEPT ![a] = "failed"]
    <3>1. \A b \in Attempts : stripe'[b] = "paid" <=> stripe[b] = "paid"
      BY <2>1, <2>3
    <3> QED
      BY <2>1, <3>1, SameBooks
  <2> QED
    BY <1>2, <2>2, <2>3 DEF CallStripe
<1>3. ASSUME NEW t \in Threads, Work(t) PROVE [Books!Next]_(Books!vars)
  <2>1. CASE CallStripe(t)
    BY <1>2, <2>1, WorkOn DEF CallStripe, Busy
  <2>2. CASE ApplySucceeded(t)
    BY <2>2, WorkOn, EnterBooks DEF ApplySucceeded, Busy
  <2>3. CASE ApplyRefund(t)
    BY <2>3, WorkOn, CloseBooks DEF ApplyRefund, Busy
  <2>4. CASE \/ Reconcile(t) \/ WriteStatus(t) \/ ApplyFailed(t) \/ RecordAutoChargeFailure(t)
             \/ LockAttempt(t) \/ ApplySetup(t)
             \/ ChargeCommitted(t) \/ ChargeRefused(t) \/ RefreshOverduePlans(t)
    <3>1. UNCHANGED <<stripe, refund, txn>>
      BY <2>4 DEF Reconcile, WriteStatus, ApplyFailed, RecordAutoChargeFailure, LockAttempt, ApplySetup,
           ChargeCommitted, ChargeRefused, RefreshOverduePlans
    <3> QED
      BY <3>1, SameBooks
  <2> QED
    BY <1>3, <2>1, <2>2, <2>3, <2>4 DEF Work
<1>4. ASSUME NEW e \in events, ReceiveUnmatched(e) \/ ReceiveOld(e) \/ \E t \in Threads : Receive(t, e)
      PROVE  [Books!Next]_(Books!vars)
  <2>1. UNCHANGED <<stripe, refund, txn>>
    BY <1>4 DEF ReceiveUnmatched, ReceiveOld, Receive
  <2> QED
    BY <2>1, SameBooks
<1>5. ASSUME NEW t \in Threads, Request(t) \/ Crash(t)
      PROVE  [Books!Next]_(Books!vars)
  <2>1. UNCHANGED <<stripe, refund, txn>>
    BY <1>5 DEF Request, CancelAttempt, Poll, ChargeDue, OverdueRead, Crash
  <2> QED
    BY <2>1, SameBooks
<1>6. CASE NewDay \/ UNCHANGED vars
  <2>1. UNCHANGED <<stripe, refund, txn>>
    BY <1>6 DEF NewDay, vars
  <2> QED
    BY <2>1, SameBooks
<1> QED
  BY <1>1, <1>3, <1>4, <1>5, <1>6, ProviderBooks DEF Next

\* The portal, the webhooks and the sweeps implement MoneyBook: captured money
\* has at most one open entry in the ledger, an entry is made only of captured
\* money and closed only by a refund.
THEOREM Refinement == Spec => KeepsTheBooks
<1>1. IInv /\ [Next]_vars => [Books!Next]_(Books!vars)
  BY StepBooks
<1> QED
  BY <1>1, Inductive, BooksStart, PTL DEF Spec, KeepsTheBooks, Books!Spec
==============================================================================
