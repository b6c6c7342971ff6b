------------------------------ MODULE Delivery ------------------------------
(***************************************************************************)
(* The messages PayFlow sends one customer, what the provider reports of   *)
(* them, and the payment links they carry (communication_service.py,       *)
(* payment_link_service.py, sendgrid_webhook.py, twilio_webhook.py).       *)
(*                                                                         *)
(* Every request is a thread with a database session: it reads rows, calls *)
(* the provider, and writes the columns it changed over whatever was       *)
(* committed meanwhile.  Only a visit of the portal locks the row of its   *)
(* communication, and only provider_event_id is unique.                    *)
(***************************************************************************)
EXTENDS Integers, Sequences, FiniteSets

Payment == {"initiated", "completed", "cancelled"}

CONSTANTS
    Comms,       \* ids of payflow_communications
    Links,       \* ids of payflow_payment_links
    Threads,     \* concurrent requests and webhook calls
    Channels,    \* the channels a customer may be reached on
    Bounds,      \* bounds: of each story the messages, the events reported, the visits of the
                 \* portal for one message, the trouble, whether messages answer requests with
                 \* a key, whether they carry links, and what becomes of checkouts
    Idle         \* a thread that serves nothing

ASSUME DeliveryAssumption ==
    /\ Comms \subseteq Nat /\ IsFiniteSet(Comms)
    /\ Links \subseteq Nat /\ IsFiniteSet(Links)
    /\ 0 \notin Comms \union Links
    /\ Channels \subseteq {"Email", "SMS"}
    /\ Bounds \subseteq [msgs : Nat, reports : Nat, visits : Nat, trouble : Nat,
                     keys : BOOLEAN, links : BOOLEAN, pays : SUBSET Payment]

VARIABLES
    bound,       \* which of the Bounds this story keeps
    channel,     \* the channel of this customer's messages
    acct,        \* may the customer be contacted, is the case settled
    comm,        \* the communications, status "none" for a row that is not committed
    seen,        \* provider events recorded in payflow_communication_events
    link,        \* the payment links
    due,         \* links past their expiry
    sent,        \* messages the provider accepted
    reported,    \* events the provider reported
    inbox,       \* of them, those it still delivers
    trouble,     \* crashes, repeated deliveries and imports so far
    th,          \* what each thread is doing
    \* history
    told,        \* the status the workflow was last told of
    asked,       \* the customer asked not to be contacted
    against,     \* messages whose gate was read after that and that were sent all the same
    visits,      \* portal visits counted for a communication
    lost         \* communications and links somebody wrote from a superseded read, requests
                 \* that overlapped, statuses a crash kept from the workflow

given == <<bound, channel>>
rows == <<comm, seen>>
links == <<link, due>>
provider == <<sent, reported>>
ghosts == <<told, asked, against, visits, lost>>
vars == <<bound, channel, acct, comm, seen, link, due, sent, reported, inbox, trouble, th,
          told, asked, against, visits, lost>>

(***************************************************************************)
(* The ladder of statuses.                                                 *)
(***************************************************************************)
Rank == [none |-> 0, Queued |-> 28, Sent |-> 30, Delivered |-> 40, Opened |-> 50, Clicked |-> 60,
         Failed |-> 100, Cancelled |-> 100, Suppressed |-> 100]
Status == DOMAIN Rank

\* mutant: the last report wins
AdvanceAlways(current, incoming) == incoming
Advance(current, incoming) ==
    IF Rank[incoming] >= 100 \/ Rank[incoming] > Rank[current] THEN incoming ELSE current

Reports ==
    IF channel = "SMS" THEN {"sent", "delivered", "undelivered", "canceled"}
                       ELSE {"delivered", "open", "click", "bounce", "spamreport"}

Event == [c : Comms, type : {"sent", "delivered", "undelivered", "canceled", "open", "click",
                             "bounce", "spamreport"}, n : 1 .. 2]

\* The status a report stands for; a click in a message without payment link is an opening.
StatusOf(type, pay) ==
    CASE type = "sent" -> "Sent"
      [] type = "delivered" -> "Delivered"
      [] type = "open" -> "Opened"
      [] type = "click" -> IF pay THEN "Clicked" ELSE "Opened"
      [] type = "canceled" -> "Cancelled"
      [] type = "spamreport" -> "Suppressed"
      [] OTHER -> "Failed"

(***************************************************************************)
(* Rows and requests.  A key names the request a message answers: one made *)
(* by hand, the retry of a failed communication, or none (0, a workflow    *)
(* step).                                                                  *)
(***************************************************************************)
Manual == -1
NoKey == 0
Keys == {Manual, NoKey} \union Comms

NoRow == [status |-> "none", key |-> NoKey, pay |-> FALSE, opens |-> 0, clicks |-> 0,
          log |-> {}, initiated |-> FALSE, completed |-> FALSE]
Note(c, label) == [c |-> c, type |-> label, n |-> 1]
NoLink == [status |-> "none", comm |-> 0]
Job(op, c, l) ==
    [op |-> op, c |-> c, l |-> l, key |-> NoKey, pay |-> FALSE, out |-> "none",
     was |-> NoRow, now |-> NoRow, batch |-> {}, todo |-> <<>>, got |-> {},
     read |-> [k \in Links |-> "none"], full |-> FALSE, late |-> FALSE,
     stale |-> FALSE, old |-> FALSE]

Init ==
    /\ bound \in Bounds
    /\ channel \in Channels
    /\ acct = [optout |-> FALSE, closed |-> FALSE]
    /\ comm = [c \in Comms |-> NoRow]
    /\ seen = {}
    /\ link = [l \in Links |-> NoLink]
    /\ due = {}
    /\ sent = {}
    /\ reported = {}
    /\ inbox = {}
    /\ trouble = 0
    /\ th = [t \in Threads |-> Idle]
    /\ told = [c \in Comms |-> "none"]
    /\ asked = FALSE
    /\ against = {}
    /\ visits = [c \in Comms |-> 0]
    /\ lost = [comm |-> {}, link |-> FALSE, twice |-> {}, untold |-> {}]

Busy(t, op) == th[t] # Idle /\ th[t].op = op
GoWrong == trouble < bound.trouble /\ trouble' = trouble + 1
Column(read, new, current) == IF new = read THEN current ELSE new

\* Ends a job; what the threads in cs and ls read is superseded by its commit.
EndOver(t, cs, ls) ==
    th' = [u \in Threads |->
             IF u = t THEN Idle
             ELSE IF th[u] = Idle THEN Idle
             ELSE [th[u] EXCEPT !.stale = @ \/ u \in cs, !.old = @ \/ u \in ls]]
On(c) == {u \in Threads : th[u] # Idle /\ th[u].c = c}
Sending == {u \in Threads : Busy(u, "send")}

\* mutant: the row is read without a lock
LockedNever(c) == FALSE
Locked(c) == \E t \in Threads : Busy(t, "visit") /\ th[t].c = c

(***************************************************************************)
(* Payment links.  The newest active link is handed out again, unless it   *)
(* is past its expiry.                                                     *)
(***************************************************************************)
Active == {l \in Links : link[l].status = "Active"}
Newest(ls) == CHOOSE l \in ls : \A k \in ls : k <= l
FreshLink(l) ==
    /\ link[l].status = "none"
    /\ \A t \in Threads : th[t] # Idle => th[t].l # l
    /\ \A k \in Links : k < l => link[k].status # "none" \/ \E t \in Threads : th[t] # Idle /\ th[t].l = k

EnsureLink(l) ==
    IF Active # {} /\ Newest(Active) \notin due THEN l = Newest(Active) ELSE FreshLink(l)

LinkStatus == [l \in Links |-> link[l].status]

\* What a session that read the links writes of them.
WriteLinks(t, new) ==
    /\ link' = [l \in Links |->
                  [status |-> Column(th[t].read[l], new[l].status, link[l].status),
                   comm |-> IF link[l].comm = 0 THEN new[l].comm ELSE link[l].comm]]
    /\ UNCHANGED due

(***************************************************************************)
(* Sending.  The request looks for the row of its key, asks the gate and   *)
(* ensures the link; the provider is called; row and link are committed    *)
(* together, after the call.  Whether the five minutes of a keyless        *)
(* duplicate have passed is left open: it refuses without a trace.         *)
(***************************************************************************)
FreshComm(c) ==
    /\ comm[c].status = "none" /\ c \notin sent
    /\ \A t \in Threads : ~(Busy(t, "send") /\ th[t].c = c)
    /\ \A d \in Comms : d < c => comm[d].status # "none" \/ d \in sent \/ \E t \in Sending : th[t].c = d

\* mutant: only a message still on its way counts as the one already sent
ExistingOnItsWay(k) == {c \in Comms : comm[c].key = k /\ comm[c].status \in {"Queued", "Sent"}}
Existing(k) == {c \in Comms : comm[c].status # "none" /\ comm[c].key = k}

\* manual sends, resend_failed_communication, or a step of a workflow
Asked(k) ==
    /\ k \in Comms => comm[k].status = "Failed"
    /\ k # NoKey => Existing(k) = {}

Eligible == ~acct.optout /\ ~acct.closed

\* evaluate_send_eligibility refuses, or it is outside the hours of the client.
RefuseSend(c, k, pay) ==
    /\ \E status \in {"Suppressed", "Failed"} :
          /\ status = "Failed" => Eligible
          /\ status = "Suppressed" => ~Eligible
          /\ comm' = [comm EXCEPT ![c] = [NoRow EXCEPT !.status = status, !.key = k, !.pay = pay]]
    /\ th' = [u \in Threads |-> IF u \in Sending THEN [th[u] EXCEPT !.stale = TRUE] ELSE th[u]]
    /\ UNCHANGED <<given, acct, seen, links, provider, inbox, trouble, ghosts>>

PrepareSend(t, c, k, pay) ==
    /\ Eligible
    /\ \E l \in Links \union {0} :
          /\ IF pay THEN l # 0 /\ EnsureLink(l) ELSE l = 0
          /\ th' = [th EXCEPT ![t] =
                      [Job("send", c, l) EXCEPT !.key = k, !.pay = pay, !.read = LinkStatus,
                                                !.late = asked]]
    /\ UNCHANGED <<given, acct, rows, links, provider, inbox, trouble, ghosts>>

RequestSend(t) ==
    /\ th[t] = Idle
    /\ \E c \in Comms, k \in Keys, pay \in BOOLEAN :
          /\ FreshComm(c) /\ Asked(k)
          /\ k \in Comms => pay = comm[k].pay
          /\ c <= bound.msgs /\ (k # NoKey => bound.keys) /\ (pay => bound.links)
          /\ RefuseSend(c, k, pay) \/ PrepareSend(t, c, k, pay)

\* mutant: what the provider answers is kept in its own words
OutcomeRaw == {"accepted"}
Outcome == IF channel = "SMS" THEN {"Queued", "Sent"} ELSE {"Sent"}

\* _try_send, _send_via_sendgrid: the provider takes the message or refuses it.
Transmit(t) ==
    /\ Busy(t, "send") /\ th[t].out = "none"
    /\ \/ /\ sent' = sent \union {th[t].c}
          /\ against' = against \union (IF th[t].late THEN {th[t].c} ELSE {})
          /\ \E out \in Outcome : th' = [th EXCEPT ![t].out = out]
          /\ UNCHANGED trouble
       \/ /\ GoWrong
          /\ th' = [th EXCEPT ![t].out = "Failed"]
          /\ UNCHANGED <<sent, against>>
    /\ UNCHANGED <<given, acct, rows, links, reported, inbox, told, asked, visits, lost>>

\* A link past its expiry that the request met is written as expired.
LinksOf(job) ==
    [l \in Links |->
       [status |-> IF l = job.l THEN "Active"
                   ELSE IF job.pay /\ job.read[l] = "Active" /\ l \in due
                           /\ \A k \in Links : job.read[k] = "Active" => k <= l
                        THEN "Expired" ELSE job.read[l],
        comm |-> IF l = job.l THEN job.c ELSE 0]]

FinishSend(t) ==
    /\ Busy(t, "send") /\ th[t].out # "none"
    /\ comm' = [comm EXCEPT ![th[t].c] =
                  [NoRow EXCEPT !.status = th[t].out, !.key = th[t].key, !.pay = th[t].pay]]
    /\ WriteLinks(t, LinksOf(th[t]))
    /\ lost' = [lost EXCEPT !.twice = @ \union (IF th[t].stale THEN {th[t].c} ELSE {}),
                            !.link = @ \/ (link' # link /\ th[t].old)]
    /\ EndOver(t, Sending, IF link' # link THEN Threads ELSE {})
    /\ UNCHANGED <<given, acct, seen, provider, inbox, trouble, told, asked, against, visits>>

(***************************************************************************)
(* The provider and its webhooks.  An event about a message whose row is   *)
(* not committed yet finds nothing and is answered all the same.           *)
(***************************************************************************)
Report ==
    /\ Cardinality(reported) < bound.reports
    /\ \E e \in Event \ reported :
          /\ e.c \in sent /\ e.type \in Reports
          /\ e.n = 2 => e.type = "open"
          /\ reported' = reported \union {e}
          /\ inbox' = inbox \union {e}
    /\ UNCHANGED <<given, acct, rows, links, sent, trouble, th, ghosts>>

Batches ==
    {<<e>> : e \in inbox} \union
    (IF channel = "SMS" THEN {}
     ELSE {<<p[1], p[2]>> : p \in {q \in inbox \X inbox : q[1] # q[2] /\ q[1].c = q[2].c}})

ReceiveUnmatched ==
    /\ \E e \in inbox : comm[e.c].status = "none" /\ inbox' = inbox \ {e}
    /\ UNCHANGED <<given, acct, rows, links, provider, trouble, th, ghosts>>

Receive(t) ==
    /\ th[t] = Idle
    /\ \E b \in Batches : LET c == b[1].c IN
          /\ comm[c].status # "none"
          /\ th' = [th EXCEPT ![t] = [Job("apply", c, 0) EXCEPT
                       !.was = comm[c], !.now = comm[c], !.todo = b, !.batch = {b[i] : i \in DOMAIN b}]]
    /\ UNCHANGED <<given, acct, rows, links, provider, inbox, trouble, ghosts>>

AppendEvent(row, e) == [row EXCEPT !.log = @ \union {e}]
Applied(row, e) ==
    [AppendEvent(row, e) EXCEPT
        !.status = Advance(@, StatusOf(e.type, row.pay)),
        !.opens = @ + (IF e.type = "open" THEN 1 ELSE 0)]

\* "Returns False if duplicate": apply_provider_event returns before it touches the row.
Repeat(t, e) == th[t].now

Recorded(t, e) == e \in seen \union th[t].got

ApplyEvent(t) ==
    /\ Busy(t, "apply") /\ th[t].todo # <<>>
    /\ LET e == Head(th[t].todo) IN
       IF Recorded(t, e)
       THEN th' = [th EXCEPT ![t].todo = Tail(@), ![t].now = Repeat(t, e)]
       ELSE th' = [th EXCEPT
              ![t].todo = Tail(@),
              ![t].got = @ \union {e},
              ![t].now = Applied(@, e)]
    /\ UNCHANGED <<given, acct, rows, links, provider, inbox, trouble, ghosts>>

\* The columns of a communication a session changed.
Merge(t, c) ==
    LET was == th[t].was now == th[t].now cur == comm[c] IN
    [status |-> Column(was.status, now.status, cur.status), key |-> cur.key, pay |-> cur.pay,
     opens |-> Column(was.opens, now.opens, cur.opens),
     clicks |-> Column(was.clicks, now.clicks, cur.clicks),
     log |-> Column(was.log, now.log, cur.log),
     initiated |-> Column(was.initiated, now.initiated, cur.initiated),
     completed |-> Column(was.completed, now.completed, cur.completed)]

\* uq_payflow_comm_provider_event_id
Clash(t) == th[t].got \cap seen # {}

Answer(t) ==
    \/ inbox' = inbox \ th[t].batch /\ UNCHANGED trouble
    \/ GoWrong /\ UNCHANGED inbox       \* delivered once more all the same

\* mutant: the workflow is told what was reported
HeardReport(t) == LET e == CHOOSE x \in th[t].got : TRUE IN StatusOf(e.type, th[t].now.pay)
\* The status the hook passes on: that of the row in the session.
Heard(t) == th[t].now.status

\* mutant: a complaint marks the message only
ComplainedNever(t) == FALSE
Complained(t) == \E e \in th[t].got : e.type = "spamreport"

\* The hook is still to run.
TellsNext(t, over) ==
    th' = [u \in Threads |->
             IF u = t THEN Job("tell", th[t].c, 0)
             ELSE IF u \in over THEN [th[u] EXCEPT !.stale = TRUE] ELSE th[u]]

\* All events of the call are applied.
WholeBatch(t, over) ==
    /\ th[t].todo = <<>> /\ Answer(t)
    /\ IF channel = "Email" /\ th[t].got # {}
       THEN told' = [told EXCEPT ![th[t].c] = Heard(t)] ELSE UNCHANGED told
    /\ IF channel = "SMS" /\ th[t].got # {} THEN TellsNext(t, over) ELSE EndOver(t, over, {})

\* An e-mail that failed is reported to the staff, and notify commits what the session holds.
\* The rest of the batch is a transaction of its own, here a delivery of its own: the call
\* is not answered yet.
PartOfBatch(t, over) ==
    /\ channel = "Email" /\ \E e \in th[t].got : e.type = "bounce"
    /\ TellsNext(t, over)
    /\ UNCHANGED <<inbox, trouble, told>>

CommitEvents(t) ==
    LET c == th[t].c over == IF th[t].got = {} THEN {} ELSE On(c) IN
    /\ Busy(t, "apply")
    /\ ~Locked(c)
    /\ ~Clash(t)
    /\ comm' = [comm EXCEPT ![c] = Merge(t, c)]
    /\ seen' = seen \union th[t].got
    /\ acct' = [acct EXCEPT !.optout = @ \/ Complained(t)]
    /\ asked' = (asked \/ \E e \in th[t].got : e.type = "spamreport")
    /\ lost' = [lost EXCEPT !.comm = @ \union (IF th[t].stale /\ th[t].got # {} THEN {c} ELSE {})]
    /\ WholeBatch(t, over) \/ PartOfBatch(t, over)
    /\ UNCHANGED <<given, links, provider, against, visits>>

\* Rolled back and answered 500: another call recorded one of the events first.
RejectEvents(t) ==
    /\ Busy(t, "apply") /\ th[t].todo = <<>> /\ Clash(t)
    /\ EndOver(t, {}, {})
    /\ UNCHANGED <<given, acct, rows, links, provider, inbox, trouble, ghosts>>

\* The hook of a Twilio event, or of a failure reported to the staff, runs after the commit,
\* which made the session read afresh.
TellWorkflow(t) ==
    /\ Busy(t, "tell")
    /\ told' = [told EXCEPT ![th[t].c] = comm[th[t].c].status]
    /\ EndOver(t, {}, {})
    /\ UNCHANGED <<given, acct, rows, links, provider, inbox, trouble, asked, against, visits, lost>>

\* STOP, by SMS
StopByText ==
    /\ channel = "SMS" /\ ~acct.optout
    /\ acct' = [acct EXCEPT !.optout = TRUE]
    /\ asked' = TRUE
    /\ UNCHANGED <<given, rows, links, provider, inbox, trouble, th, told, against, visits, lost>>

\* A file imported again overwrites email_consent with what the file says, or nothing.
Reimport ==
    /\ channel = "Email" /\ acct.optout /\ GoWrong
    /\ acct' = [acct EXCEPT !.optout = FALSE]
    /\ UNCHANGED <<given, rows, links, provider, inbox, th, ghosts>>

(***************************************************************************)
(* The customer on the portal.                                             *)
(***************************************************************************)
Visited(row, c) ==
    [row EXCEPT !.clicks = @ + 1, !.log = @ \union {Note(c, "Click")},
                !.status = IF row.pay THEN Advance(@, "Clicked") ELSE @]

Visit(t) ==
    /\ th[t] = Idle
    /\ \E l \in Links : LET c == link[l].comm IN
          /\ link[l].status # "none" /\ c # 0
          /\ ~Locked(c) /\ visits[c] < bound.visits
          /\ th' = [th EXCEPT ![t] = [Job("visit", c, l) EXCEPT
                       !.was = comm[c], !.now = Visited(comm[c], c), !.read = LinkStatus]]
    /\ UNCHANGED <<given, acct, rows, links, provider, inbox, trouble, ghosts>>

FinishVisit(t) ==
    LET c == th[t].c l == th[t].l IN
    /\ Busy(t, "visit")
    /\ comm' = [comm EXCEPT ![c] = Merge(t, c)]
    /\ WriteLinks(t, [k \in Links |->
          [status |-> IF k = l /\ th[t].read[l] = "Active" /\ l \in due THEN "Expired" ELSE th[t].read[k],
           comm |-> 0]])
    /\ visits' = [visits EXCEPT ![c] = @ + 1]
    /\ lost' = [lost EXCEPT !.link = @ \/ (link' # link /\ th[t].old)]
    /\ EndOver(t, On(c), IF link' # link THEN Threads ELSE {})
    /\ UNCHANGED <<given, acct, seen, provider, inbox, trouble, told, asked, against>>

\* What mark_payment_event writes; nothing moves a completed payment any more.
Paid(row, event, entry) ==
    CASE event = "initiated" -> [row EXCEPT !.initiated = TRUE, !.log = @ \union {entry}]
      [] event = "completed" /\ ~row.completed ->
            [row EXCEPT !.initiated = TRUE, !.completed = TRUE, !.log = @ \union {entry}]
      [] event = "cancelled" /\ ~row.completed -> [row EXCEPT !.log = @ \union {entry}]
      [] OTHER -> row

Checkout(t) ==
    /\ th[t] = Idle
    /\ \E l \in Links, event \in bound.pays, full \in BOOLEAN :
       LET c == link[l].comm IN
          /\ link[l].status # "none" /\ c # 0
          /\ IF event = "initiated"
             THEN link[l].status = "Active" /\ l \notin due /\ ~acct.closed /\ ~comm[c].initiated
             ELSE comm[c].initiated /\ ~comm[c].completed /\ Note(c, event) \notin comm[c].log
          /\ full => event = "completed"
          /\ th' = [th EXCEPT ![t] = [Job("checkout", c, l) EXCEPT
                       !.was = comm[c], !.now = Paid(comm[c], event, Note(c, event)), !.read = LinkStatus, !.full = full]]
    /\ UNCHANGED <<given, acct, rows, links, provider, inbox, trouble, ghosts>>

\* mutant: only the link that was paid through is completed
CompletedOne(job) == {job.l} \cap {l \in Links : job.read[l] = "Active"}
\* A full settlement completes every active link of the account.
CompletedLinks(job) == {l \in Links : job.read[l] = "Active"}

FinishCheckout(t) ==
    LET c == th[t].c IN
    /\ Busy(t, "checkout") /\ ~Locked(c)
    /\ comm' = [comm EXCEPT ![c] = Merge(t, c)]
    /\ WriteLinks(t, [k \in Links |->
          [status |-> IF th[t].full /\ k \in CompletedLinks(th[t]) THEN "Completed" ELSE th[t].read[k],
           comm |-> 0]])
    /\ acct' = [acct EXCEPT !.closed = @ \/ th[t].full]
    /\ lost' = [lost EXCEPT !.comm = @ \union (IF th[t].stale THEN {c} ELSE {}),
                            !.link = @ \/ (th[t].full /\ th[t].old)]
    /\ EndOver(t, On(c), IF th[t].full THEN Threads ELSE {})
    /\ UNCHANGED <<given, seen, provider, inbox, trouble, told, asked, against, visits>>

(***************************************************************************)
(* Staff revoke a link; time passes.                                       *)
(***************************************************************************)
Revocable(l) == link[l].status = "Active" /\ l \notin due

Revoke(t) ==
    /\ th[t] = Idle
    /\ \E l \in Links :
          /\ Revocable(l)
          /\ th' = [th EXCEPT ![t] = [Job("revoke", 0, l) EXCEPT !.read = LinkStatus]]
    /\ UNCHANGED <<given, acct, rows, links, provider, inbox, trouble, ghosts>>

FinishRevoke(t) ==
    /\ Busy(t, "revoke")
    /\ WriteLinks(t, [k \in Links |->
          [status |-> IF k = th[t].l THEN "Revoked" ELSE th[t].read[k], comm |-> 0]])
    /\ lost' = [lost EXCEPT !.link = @ \/ th[t].old]
    /\ EndOver(t, {}, Threads)
    /\ UNCHANGED <<given, acct, rows, provider, inbox, trouble, told, asked, against, visits>>

LinkFallsDue ==
    /\ \E l \in Active \ due : due' = due \union {l}
    /\ UNCHANGED <<given, acct, rows, link, provider, inbox, trouble, th, ghosts>>

\* The process dies, or its last transaction fails: the session is rolled back, a message
\* already sent stays sent.
Crash(t) ==
    /\ th[t] # Idle /\ GoWrong
    /\ lost' = [lost EXCEPT !.untold = @ \union (IF Busy(t, "tell") THEN {th[t].c} ELSE {})]
    /\ EndOver(t, {}, {})
    /\ UNCHANGED <<given, acct, rows, links, provider, inbox, told, asked, against, visits>>

Step(t) ==
    \/ RequestSend(t) \/ Transmit(t) \/ FinishSend(t)
    \/ Receive(t) \/ ApplyEvent(t) \/ CommitEvents(t) \/ RejectEvents(t) \/ TellWorkflow(t)
    \/ Visit(t) \/ FinishVisit(t) \/ Checkout(t) \/ FinishCheckout(t)
    \/ Revoke(t) \/ FinishRevoke(t) \/ Crash(t)

Next ==
    \/ \E t \in Threads : Step(t)
    \/ Report \/ ReceiveUnmatched \/ StopByText \/ Reimport \/ LinkFallsDue

Spec == Init /\ [][Next]_vars

-----------------------------------------------------------------------------
Label == [c : Comms, type : {"Click", "initiated", "completed", "cancelled"}, n : {1}]
LinkStates == {"none", "Active", "Expired", "Revoked", "Completed"}
Row == [status : Status, key : Keys, pay : BOOLEAN, opens : Nat, clicks : Nat,
        log : SUBSET (Event \union Label), initiated : BOOLEAN, completed : BOOLEAN]
Jobs == [op : {"send", "apply", "tell", "visit", "checkout", "revoke"},
         c : Comms \union {0}, l : Links \union {0}, key : Keys, pay : BOOLEAN,
         out : {"none", "Queued", "Sent", "Failed"}, was : Row, now : Row,
         batch : SUBSET Event, todo : Seq(Event), got : SUBSET Event,
         read : [Links -> LinkStates], full : BOOLEAN, late : BOOLEAN, stale : BOOLEAN, old : BOOLEAN]

ASSUME IdleAssumption == Idle \notin Jobs

\* The types of the rows and sessions; every event still delivered or recorded was reported.
TypeOK ==
    /\ bound \in Bounds /\ channel \in Channels
    /\ acct \in [optout : BOOLEAN, closed : BOOLEAN]
    /\ comm \in [Comms -> Row]
    /\ link \in [Links -> [status : LinkStates, comm : Comms \union {0}]]
    /\ due \subseteq Links
    /\ sent \subseteq Comms
    /\ reported \subseteq Event /\ inbox \subseteq reported /\ seen \subseteq reported
    /\ trouble \in Nat
    /\ \A t \in Threads : th[t] = Idle \/ th[t] \in Jobs
    /\ told \in [Comms -> Status]
    /\ asked \in BOOLEAN /\ against \subseteq Comms
    /\ visits \in [Comms -> Nat]
    /\ lost \in [comm : SUBSET Comms, link : BOOLEAN, twice : SUBSET Comms, untold : SUBSET Comms]

EventsOf(c, type) == {e \in seen : e.c = c /\ e.type = type}

\* An opening is counted for an event the table holds and for no other, however often the
\* event is delivered and to however many workers at once; and none is missing unless a
\* session wrote the row over a commit it had not read (apply_provider_event has no lock).
OpensCounted ==
    \A c \in Comms :
       /\ comm[c].opens <= Cardinality(EventsOf(c, "open"))
       /\ comm[c].opens < Cardinality(EventsOf(c, "open")) => c \in lost.comm

\* Clicks are the visits of the portal, all of them, whoever else writes the row: the
\* visit reads the count under the row's lock (record_portal_visit, "race-safe").
ClicksExact == \A c \in Comms : comm[c].clicks = visits[c]

\* Each event in the table of events is in the timeline on the row, unless a session wrote
\* the row over a commit it had not read.
TimelineKept ==
    \A c \in Comms \ lost.comm : {e \in seen : e.c = c} \subseteq comm[c].log

\* What the row of a communication counts and lists is what happened: openings, visits and
\* the timeline (the three parts above).
RowTellsAll == OpensCounted /\ ClicksExact /\ TimelineKept

\* Two messages answer one request (a manual send, the retry of a failed message) only if
\* the requests overlapped, or a process died between the provider's answer and the commit.
SentOnce ==
    \A c, d \in Comms :
       /\ c # d /\ {c, d} \subseteq sent
       /\ comm[c].status # "none" /\ comm[d].status # "none"
       /\ comm[c].key = comm[d].key /\ comm[c].key # NoKey
       => {c, d} \cap lost.twice # {}

Usable == Active \ due

\* A customer holds one usable link, and none once the case is settled, unless requests
\* on the links overlapped (ensure_active_link, "Prevents duplicate actives").
OneUsableLink == ~lost.link => Cardinality(Usable) <= (IF acct.closed THEN 0 ELSE 1)

\* A customer who complained or wrote STOP gets no message whose gate was read later,
\* until a file imported again overwrites the consent.
RespectsOptOut == against # {} => channel = "Email" /\ trouble > 0

\* Once nobody works on a communication, the workflow was told the status it has, unless
\* only the send or a visit set it, a process died in between or a session overwrote it.
WorkflowTold ==
    \A c \in Comms \ (lost.comm \union lost.untold) :
       On(c) = {} /\ {e \in seen : e.c = c} # {}
         => comm[c].status = told[c] \/ (visits[c] > 0 /\ comm[c].status = "Clicked")

\* The status of a committed row never goes back on the ladder, and a message that failed,
\* was cancelled or suppressed stays so, whatever order the provider's events arrive in
\* (_advance_status, "never regress engagement ladder").
Climbs ==
    \A c \in Comms : Rank[comm'[c].status] < Rank[comm[c].status] => c \in lost'.comm

\* A link that was paid, revoked or has expired stays so, unless requests on it overlapped.
LinkEnds ==
    \A l \in Links : link[l].status \in {"Completed", "Revoked", "Expired"}
                         /\ link'[l].status # link[l].status => lost'.link

\* Neither statuses nor links go backwards (the two parts above), whatever order events,
\* visits, payments and staff come in.
NeverBackwards == [][Climbs /\ LinkEnds]_vars
=============================================================================
