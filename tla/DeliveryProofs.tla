--------------------------- MODULE DeliveryProofs ---------------------------
(***************************************************************************)
(* The properties of Delivery, for any number of messages, links, threads  *)
(* and events.                                                             *)
(***************************************************************************)
EXTENDS Delivery, FiniteSetTheorems, SequenceTheorems, TLAPS

USE DeliveryAssumption, IdleAssumption DEF given, rows, links, provider, ghosts

-----------------------------------------------------------------------------
(* Statuses, rows and jobs. *)

LEMMA StatusIs ==
  Status = {"none", "Queued", "Sent", "Delivered", "Opened", "Clicked",
            "Failed", "Cancelled", "Suppressed"}
BY DEF Status, Rank

LEMMA RankIs ==
  /\ \A s \in Status : Rank[s] \in 0 .. 100
  /\ Rank["none"] = 0
  /\ \A s \in Status : s # "none" => Rank[s] > 0
BY StatusIs DEF Rank

LEMMA AdvanceIs ==
  ASSUME NEW s \in Status, NEW n \in Status
  PROVE  /\ Advance(s, n) \in {s, n}
         /\ Rank[s] <= Rank[Advance(s, n)]
BY RankIs DEF Advance

LEMMA StatusOfIs ==
  ASSUME NEW e \in Event, NEW pay \in BOOLEAN
  PROVE  StatusOf(e.type, pay) \in Status /\ StatusOf(e.type, pay) # "none"
BY StatusIs DEF StatusOf, Event

LEMMA RowTypes ==
  /\ NoRow \in Row
  /\ \A c \in Comms, event \in {"Click"} \union Payment : Note(c, event) \in Label
  /\ NoLink \in [status : LinkStates, comm : Comms \union {0}]
<1>1. NoRow \in Row
  BY StatusIs DEF NoRow, Row, Keys, NoKey
<1>2. \A c \in Comms, event \in {"Click"} \union Payment : Note(c, event) \in Label
  BY DEF Note, Label, Payment
<1>3. NoLink \in [status : LinkStates, comm : Comms \union {0}]
  BY DEF NoLink, LinkStates
<1> QED
  BY <1>1, <1>2, <1>3

LEMMA JobType ==
  ASSUME NEW op \in {"send", "apply", "tell", "visit", "checkout", "revoke"},
         NEW c \in Comms \union {0}, NEW l \in Links \union {0}
  PROVE  Job(op, c, l) \in Jobs
<1>1. NoRow \in Row
  BY RowTypes
<1>2. [k \in Links |-> "none"] \in [Links -> LinkStates]
  BY DEF LinkStates
<1>3. <<>> \in Seq(Event)
  OBVIOUS
<1> QED
  BY <1>1, <1>2, <1>3 DEF Job, Jobs, Keys, NoKey

\* A batch names events of one message that are still delivered.
LEMMA BatchIs ==
  ASSUME NEW b \in Batches, inbox \subseteq reported, reported \subseteq Event
  PROVE  /\ b \in Seq(Event) /\ b # <<>>
         /\ b[1] \in Event
         /\ \A i \in 1 .. Len(b) : b[i] \in reported /\ b[i].c = b[1].c
<1>1. CASE \E e \in inbox : b = <<e>>
  BY <1>1
<1>2. CASE \E p \in inbox \X inbox : b = <<p[1], p[2]>> /\ p[1].c = p[2].c
  <2>1. PICK d \in inbox, e \in inbox : b = <<d, e>> /\ d.c = e.c
    BY <1>2
  <2> QED
    BY <2>1
<1> QED
  BY <1>1, <1>2 DEF Batches

-----------------------------------------------------------------------------
(* Types.  A job other than a revocation has a message, and a job that     *)
(* applies events applies reported events of its message.                  *)

Hears(t) ==
    /\ \A i \in 1 .. Len(th[t].todo) : th[t].todo[i] \in reported /\ th[t].todo[i].c = th[t].c
    /\ th[t].got \subseteq reported
    /\ \A e \in th[t].got : e.c = th[t].c

Typed ==
    /\ TypeOK
    /\ th \in [Threads -> {Idle} \union Jobs]
    /\ \A t \in Threads : th[t] # Idle =>
          /\ th[t].op # "revoke" => th[t].c \in Comms
          /\ Hears(t)

LEMMA ColumnIs ==
  ASSUME NEW a, NEW b, NEW c
  PROVE  Column(a, b, c) \in {b, c}
BY DEF Column

LEMMA MergeType ==
  ASSUME Typed, NEW t \in Threads, th[t] # Idle, NEW c \in Comms
  PROVE  Merge(t, c) \in Row
<1>1. th[t].was \in Row /\ th[t].now \in Row /\ comm[c] \in Row
  BY DEF Typed, TypeOK, Jobs
<1> QED
  BY <1>1 DEF Merge, Row, Column

LEMMA WriteLinksType ==
  ASSUME Typed, NEW t \in Threads, NEW new, th[t] # Idle,
         \A l \in Links : new[l].status \in LinkStates /\ new[l].comm \in Comms \union {0},
         WriteLinks(t, new)
  PROVE  link' \in [Links -> [status : LinkStates, comm : Comms \union {0}]] /\ due' = due
<1> DEFINE Cell(l) == [status |-> Column(th[t].read[l], new[l].status, link[l].status),
                       comm |-> IF link[l].comm = 0 THEN new[l].comm ELSE link[l].comm]
<1>1. \A l \in Links : Cell(l) \in [status : LinkStates, comm : Comms \union {0}]
  BY DEF Typed, TypeOK, Column
<1>2. link' = [l \in Links |-> Cell(l)] /\ due' = due
  BY DEF WriteLinks
<1> HIDE DEF Cell
<1> QED
  BY <1>1, <1>2

(* What a step of another thread leaves of a job: everything but the marks *)
(* that its reads are superseded.                                          *)
SameJob(j, k) ==
    /\ k.op = j.op /\ k.c = j.c /\ k.l = j.l
    /\ k.key = j.key /\ k.pay = j.pay /\ k.out = j.out
    /\ k.was = j.was /\ k.now = j.now
    /\ k.todo = j.todo /\ k.got = j.got /\ k.batch = j.batch
    /\ k.read = j.read /\ k.full = j.full /\ k.late = j.late
    /\ j.stale => k.stale
    /\ j.old => k.old

Kept(u) ==
    \/ th[u] = Idle /\ th'[u] = Idle
    \/ th[u] # Idle /\ th'[u] # Idle /\ th'[u] \in Jobs /\ SameJob(th[u], th'[u])

LEMMA MarksIs ==
  ASSUME NEW j \in Jobs, NEW p \in BOOLEAN, NEW q \in BOOLEAN,
         NEW k, k = [j EXCEPT !.stale = @ \/ p, !.old = @ \/ q]
  PROVE  /\ k \in Jobs
         /\ SameJob(j, k)
         /\ p => k.stale
         /\ q => k.old
<1> HIDE IdleAssumption, DeliveryAssumption
<1> QED
  BY DEF Jobs, SameJob

LEMMA MarkIs ==
  ASSUME NEW j \in Jobs
  PROVE  /\ SameJob(j, j)
         /\ LET k == [j EXCEPT !.stale = TRUE] IN k \in Jobs /\ SameJob(j, k) /\ k.stale
BY DEF Jobs, SameJob

LEMMA EndOverIs ==
  ASSUME th \in [Threads -> {Idle} \union Jobs], NEW t \in Threads, NEW cs, NEW ls,
         EndOver(t, cs, ls)
  PROVE  /\ th' \in [Threads -> {Idle} \union Jobs]
         /\ th'[t] = Idle
         /\ \A u \in Threads \ {t} : Kept(u)
         /\ \A u \in Threads \cap cs : th'[u] # Idle => th'[u].stale
         /\ \A u \in Threads \cap ls : th'[u] # Idle => th'[u].old
<1>1. ASSUME NEW u \in Threads, u # t
      PROVE  /\ Kept(u)
             /\ th'[u] \in {Idle} \union Jobs
             /\ u \in cs /\ th'[u] # Idle => th'[u].stale
             /\ u \in ls /\ th'[u] # Idle => th'[u].old
  <2>1. CASE th[u] = Idle
    <3>1. th'[u] = Idle
      BY <1>1, <2>1 DEF EndOver
    <3> QED
      BY <2>1, <3>1 DEF Kept
  <2>2. CASE th[u] # Idle
    <3>1. th'[u] = [th[u] EXCEPT !.stale = @ \/ u \in cs, !.old = @ \/ u \in ls]
      BY <1>1, <2>2 DEF EndOver
    <3>2. th[u] \in Jobs
      BY <2>2
    <3> DEFINE p == u \in cs
               q == u \in ls
    <3>3. p \in BOOLEAN /\ q \in BOOLEAN
      OBVIOUS
    <3>4. th'[u] = [th[u] EXCEPT !.stale = @ \/ p, !.old = @ \/ q]
      BY <3>1
    <3> HIDE DEF p, q
    <3>5. /\ th'[u] \in Jobs /\ SameJob(th[u], th'[u])
          /\ (p => th'[u].stale) /\ (q => th'[u].old)
      BY <3>2, <3>3, <3>4, MarksIs
    <3>6. th'[u] # Idle
      BY <3>5
    <3> QED
      BY <2>2, <3>5, <3>6 DEF Kept, p, q
  <2> QED
    BY <2>1, <2>2
<1>2. th'[t] = Idle /\ DOMAIN th' = Threads /\ th' = [u \in Threads |-> th'[u]]
  BY DEF EndOver
<1> QED
  BY <1>1, <1>2

(* A thread that serves something new, and what it starts with. *)
Turned(t) ==
    /\ th' \in [Threads -> {Idle} \union Jobs]
    /\ th'[t] # Idle /\ th'[t] \in Jobs
    /\ \A u \in Threads \ {t} : Kept(u) /\ th'[u] = th[u]

Fresh(j) == ~j.stale /\ ~j.old /\ j.out = "none" /\ j.got = {}

LEMMA TurnIs ==
  ASSUME th \in [Threads -> {Idle} \union Jobs], NEW t \in Threads, NEW j \in Jobs,
         th' = [th EXCEPT ![t] = j]
  PROVE  Turned(t) /\ th'[t] = j
<1>1. th' \in [Threads -> {Idle} \union Jobs] /\ th'[t] = j
  OBVIOUS
<1>2. ASSUME NEW u \in Threads, u # t PROVE th'[u] = th[u] /\ Kept(u)
  <2>1. th'[u] = th[u] /\ th[u] \in {Idle} \union Jobs
    BY <1>2
  <2>2. SameJob(th[u], th'[u])
    BY <2>1 DEF SameJob
  <2> QED
    BY <2>1, <2>2 DEF Kept
<1> QED
  BY <1>1, <1>2 DEF Turned

LEMMA LinkStatusType ==
  ASSUME TypeOK
  PROVE  LinkStatus \in [Links -> LinkStates]
BY DEF LinkStatus, TypeOK

Prepared(t, c, k, pay) ==
    /\ Turned(t) /\ Fresh(th'[t])
    /\ th'[t].op = "send" /\ th'[t].c = c /\ th'[t].key = k /\ th'[t].pay = pay
    /\ th'[t].read = LinkStatus /\ th'[t].late = asked /\ th'[t].todo = <<>>
    /\ IF pay THEN th'[t].l \in Links /\ EnsureLink(th'[t].l) ELSE th'[t].l = 0

LEMMA PrepareSendIs ==
  ASSUME Typed, NEW t \in Threads, NEW c \in Comms, NEW k \in Keys, NEW pay \in BOOLEAN,
         PrepareSend(t, c, k, pay)
  PROVE  Prepared(t, c, k, pay)
<1>1. PICK l \in Links \union {0} :
        /\ IF pay THEN l # 0 /\ EnsureLink(l) ELSE l = 0
        /\ th' = [th EXCEPT ![t] =
                    [Job("send", c, l) EXCEPT !.key = k, !.pay = pay, !.read = LinkStatus,
                                              !.late = asked]]
  BY DEF PrepareSend
<1> DEFINE j0 == Job("send", c, l)
           j == [j0 EXCEPT !.key = k, !.pay = pay, !.read = LinkStatus, !.late = asked]
<1>2. j0 \in Jobs /\ j0.op = "send" /\ j0.c = c /\ j0.l = l /\ Fresh(j0) /\ j0.todo = <<>>
  BY JobType DEF Job, Fresh
<1>3. asked \in BOOLEAN /\ LinkStatus \in [Links -> LinkStates]
  BY LinkStatusType DEF Typed, TypeOK
<1> HIDE DEF j0
<1>4. /\ j \in Jobs /\ Fresh(j) /\ j.op = "send" /\ j.c = c /\ j.l = l
      /\ j.key = k /\ j.pay = pay /\ j.read = LinkStatus /\ j.late = asked /\ j.todo = <<>>
  BY <1>2, <1>3 DEF Jobs, Fresh
<1> HIDE DEF j
<1>5. th' = [th EXCEPT ![t] = j]
  BY <1>1 DEF j, j0
<1>6. Turned(t) /\ th'[t] = j
  BY <1>4, <1>5, TurnIs DEF Typed
<1> QED
  BY <1>1, <1>4, <1>6 DEF Prepared

LEMMA ReceiveIs ==
  ASSUME Typed, NEW t \in Threads, Receive(t)
  PROVE  \E b \in Batches :
           /\ comm[b[1].c].status # "none"
           /\ Turned(t) /\ Fresh(th'[t])
           /\ th'[t].op = "apply" /\ th'[t].c = b[1].c /\ th'[t].c \in Comms
           /\ th'[t].was = comm[b[1].c] /\ th'[t].now = comm[b[1].c] /\ th'[t].todo = b
           /\ th'[t].late = FALSE
<1>1. PICK b \in Batches :
        /\ comm[b[1].c].status # "none"
        /\ th' = [th EXCEPT ![t] = [Job("apply", b[1].c, 0) EXCEPT
                     !.was = comm[b[1].c], !.now = comm[b[1].c], !.todo = b,
                     !.batch = {b[i] : i \in DOMAIN b}]]
  BY DEF Receive
<1>2. /\ b \in Seq(Event) /\ b[1] \in Event
      /\ \A i \in 1 .. Len(b) : b[i] \in reported
  BY BatchIs DEF Typed, TypeOK
<1> DEFINE c == b[1].c
           B == {b[i] : i \in DOMAIN b}
           j0 == Job("apply", c, 0)
           j == [j0 EXCEPT !.was = comm[c], !.now = comm[c], !.todo = b, !.batch = B]
<1>3. c \in Comms
  BY <1>2 DEF Event
<1>4. B \subseteq Event
  BY <1>2
<1>5. comm[c] \in Row
  BY <1>3 DEF Typed, TypeOK
<1>6. /\ j0 \in Jobs /\ j0.op = "apply" /\ j0.c = c /\ Fresh(j0) /\ j0.late = FALSE
  BY <1>3, JobType DEF Job, Fresh
<1>7. th' = [th EXCEPT ![t] = j]
  BY <1>1
<1> HIDE DEF j0, B, c
<1>8. /\ j \in Jobs /\ Fresh(j) /\ j.op = "apply" /\ j.c = c /\ j.was = comm[c]
      /\ j.now = comm[c] /\ j.todo = b /\ j.late = FALSE
  BY <1>2, <1>4, <1>5, <1>6 DEF Jobs, Fresh
<1> HIDE DEF j
<1>9. Turned(t) /\ th'[t] = j
  BY <1>8, <1>7, TurnIs DEF Typed
<1> QED
  BY <1>1, <1>3, <1>8, <1>9 DEF c

LEMMA VisitedIs ==
  ASSUME NEW row \in Row, NEW c \in Comms
  PROVE  LET new == Visited(row, c) IN
         /\ new \in Row
         /\ new.clicks = row.clicks + 1 /\ new.opens = row.opens
         /\ row.log \subseteq new.log
         /\ new.status \in {row.status, "Clicked"} /\ Rank[row.status] <= Rank[new.status]
<1> DEFINE log == row.log \union {Note(c, "Click")}
           clicks == row.clicks + 1
           status == IF row.pay THEN Advance(row.status, "Clicked") ELSE row.status
<1>1. log \in SUBSET (Event \union Label) /\ row.log \subseteq log
  BY RowTypes DEF Row
<1>2. clicks \in Nat
  BY DEF Row
<1>3. /\ status \in Status /\ status \in {row.status, "Clicked"}
      /\ Rank[row.status] <= Rank[status]
  BY StatusIs, AdvanceIs, RankIs DEF Row
<1>4. Visited(row, c) = [row EXCEPT !.clicks = clicks, !.log = log, !.status = status]
  BY DEF Visited, Row
<1>5. row.clicks + 1 = clicks
  OBVIOUS
<1> HIDE DEF log, clicks, status
<1>6. Visited(row, c) \in Row
  BY <1>1, <1>2, <1>3, <1>4 DEF Row
<1>7. /\ Visited(row, c).clicks = clicks /\ Visited(row, c).opens = row.opens
      /\ Visited(row, c).log = log /\ Visited(row, c).status = status
  BY <1>4 DEF Row
<1> QED
  BY <1>1, <1>3, <1>5, <1>6, <1>7

LEMMA VisitIs ==
  ASSUME Typed, NEW t \in Threads, Visit(t)
  PROVE  \E l \in Links :
           /\ link[l].status # "none" /\ link[l].comm \in Comms /\ ~Locked(link[l].comm)
           /\ Turned(t) /\ Fresh(th'[t]) /\ th'[t].late = FALSE /\ th'[t].todo = <<>>
           /\ th'[t].op = "visit" /\ th'[t].c = link[l].comm /\ th'[t].l = l
           /\ th'[t].read = LinkStatus
           /\ th'[t].was = comm[link[l].comm]
           /\ th'[t].now = Visited(comm[link[l].comm], link[l].comm)
<1>1. PICK l \in Links : LET c == link[l].comm IN
        /\ link[l].status # "none" /\ c # 0
        /\ ~Locked(c)
        /\ th' = [th EXCEPT ![t] = [Job("visit", c, l) EXCEPT
                     !.was = comm[c], !.now = Visited(comm[c], c), !.read = LinkStatus]]
  BY DEF Visit
<1> DEFINE c == link[l].comm
           now == Visited(comm[c], c)
           j0 == Job("visit", c, l)
           j == [j0 EXCEPT !.was = comm[c], !.now = now, !.read = LinkStatus]
<1>2. c \in Comms
  BY <1>1 DEF Typed, TypeOK
<1>3. comm[c] \in Row
  BY <1>2 DEF Typed, TypeOK
<1>4. now \in Row
  BY <1>2, <1>3, VisitedIs
<1>8. LinkStatus \in [Links -> LinkStates]
  BY LinkStatusType DEF Typed
<1>9. /\ j0 \in Jobs /\ j0.op = "visit" /\ j0.c = c /\ j0.l = l /\ Fresh(j0) /\ j0.late = FALSE
      /\ j0.todo = <<>>
  BY <1>2, JobType DEF Job, Fresh
<1>10. th' = [th EXCEPT ![t] = j]
  BY <1>1
<1>11. now = Visited(comm[c], c) /\ link[l].status # "none" /\ c \in Comms /\ ~Locked(c)
  BY <1>1, <1>2
<1> HIDE DEF j0, now
<1>13. /\ j \in Jobs /\ Fresh(j) /\ j.op = "visit" /\ j.c = c /\ j.l = l /\ j.was = comm[c]
      /\ j.now = now /\ j.read = LinkStatus /\ j.late = FALSE /\ j.todo = <<>>
  BY <1>3, <1>4, <1>8, <1>9 DEF Jobs, Fresh
<1> HIDE DEF j
<1>14. Turned(t) /\ th'[t] = j
  BY <1>13, <1>10, TurnIs DEF Typed
<1> WITNESS l \in Links
<1> QED
  BY <1>11, <1>13, <1>14

LEMMA PaidIs ==
  ASSUME NEW row \in Row, NEW event \in Payment, NEW entry \in Label
  PROVE  LET new == Paid(row, event, entry) IN
         /\ new \in Row
         /\ new.status = row.status /\ new.opens = row.opens /\ new.clicks = row.clicks
         /\ row.log \subseteq new.log /\ new.key = row.key /\ new.pay = row.pay
<1>1. CASE event = "initiated"
  BY <1>1 DEF Paid, Row
<1>2. CASE event = "completed" /\ ~row.completed
  BY <1>2 DEF Paid, Row
<1>3. CASE event = "cancelled" /\ ~row.completed
  BY <1>3 DEF Paid, Row
<1>4. CASE event # "initiated" /\ row.completed
  BY <1>4 DEF Paid, Row, Payment
<1> QED
  BY <1>1, <1>2, <1>3, <1>4 DEF Payment

LEMMA CheckoutIs ==
  ASSUME Typed, NEW t \in Threads, Checkout(t)
  PROVE  \E l \in Links, event \in Payment :
           LET c == link[l].comm IN
           /\ link[l].status # "none" /\ c \in Comms
           /\ Turned(t) /\ Fresh(th'[t]) /\ th'[t].late = FALSE /\ th'[t].todo = <<>>
           /\ th'[t].op = "checkout" /\ th'[t].c = c /\ th'[t].l = l
           /\ th'[t].read = LinkStatus
           /\ th'[t].was = comm[c]
           /\ th'[t].now = Paid(comm[c], event, Note(c, event))
<1>1. PICK l \in Links, event \in bound.pays, full \in BOOLEAN : LET c == link[l].comm IN
        /\ link[l].status # "none" /\ c # 0
        /\ th' = [th EXCEPT ![t] = [Job("checkout", c, l) EXCEPT
                     !.was = comm[c], !.now = Paid(comm[c], event, Note(c, event)),
                     !.read = LinkStatus, !.full = full]]
  BY DEF Checkout
<1> DEFINE c == link[l].comm
           now == Paid(comm[c], event, Note(c, event))
           j0 == Job("checkout", c, l)
           j == [j0 EXCEPT !.was = comm[c], !.now = now, !.read = LinkStatus, !.full = full]
<1>2. c \in Comms /\ event \in Payment
  BY <1>1 DEF Typed, TypeOK
<1>3. comm[c] \in Row
  BY <1>2 DEF Typed, TypeOK
<1>4. now \in Row
  BY <1>2, <1>3, PaidIs, RowTypes
<1>5. LinkStatus \in [Links -> LinkStates]
  BY LinkStatusType DEF Typed
<1>6. /\ j0 \in Jobs /\ j0.op = "checkout" /\ j0.c = c /\ j0.l = l /\ Fresh(j0)
      /\ j0.late = FALSE /\ j0.todo = <<>>
  BY <1>2, JobType DEF Job, Fresh
<1>7. th' = [th EXCEPT ![t] = j]
  BY <1>1
<1>8. now = Paid(comm[c], event, Note(c, event)) /\ link[l].status # "none"
  BY <1>1
<1> HIDE DEF j0, now
<1>9. /\ j \in Jobs /\ Fresh(j) /\ j.op = "checkout" /\ j.c = c /\ j.l = l /\ j.was = comm[c]
      /\ j.now = now /\ j.read = LinkStatus /\ j.late = FALSE /\ j.todo = <<>>
  BY <1>3, <1>4, <1>5, <1>6 DEF Jobs, Fresh
<1> HIDE DEF j
<1>10. Turned(t) /\ th'[t] = j
  BY <1>7, <1>9, TurnIs DEF Typed
<1> USE <1>2
<1> WITNESS l \in Links, event \in Payment
<1> QED
  BY <1>2, <1>8, <1>9, <1>10

LEMMA RevokeIs ==
  ASSUME Typed, NEW t \in Threads, Revoke(t)
  PROVE  \E l \in Links :
           /\ link[l].status = "Active"
           /\ Turned(t) /\ Fresh(th'[t]) /\ th'[t].late = FALSE /\ th'[t].todo = <<>>
           /\ th'[t].op = "revoke" /\ th'[t].l = l /\ th'[t].read = LinkStatus
<1>1. PICK l \in Links :
        /\ link[l].status = "Active"
        /\ th' = [th EXCEPT ![t] = [Job("revoke", 0, l) EXCEPT !.read = LinkStatus]]
  BY DEF Revoke, Revocable
<1> DEFINE j0 == Job("revoke", 0, l)
           j == [j0 EXCEPT !.read = LinkStatus]
<1>2. LinkStatus \in [Links -> LinkStates]
  BY LinkStatusType DEF Typed
<1>3. /\ j0 \in Jobs /\ j0.op = "revoke" /\ j0.l = l /\ Fresh(j0)
      /\ j0.late = FALSE /\ j0.todo = <<>>
  BY JobType DEF Job, Fresh
<1>4. th' = [th EXCEPT ![t] = j]
  BY <1>1
<1> HIDE DEF j0
<1>5. /\ j \in Jobs /\ Fresh(j) /\ j.op = "revoke" /\ j.l = l
      /\ j.read = LinkStatus /\ j.late = FALSE /\ j.todo = <<>>
  BY <1>2, <1>3 DEF Jobs, Fresh
<1> HIDE DEF j
<1>6. Turned(t) /\ th'[t] = j
  BY <1>4, <1>5, TurnIs DEF Typed
<1> QED
  BY <1>1, <1>5, <1>6

(* What a job that goes on keeps. *)
SameCall(j, k) ==
    /\ k.op = j.op /\ k.c = j.c /\ k.l = j.l /\ k.key = j.key /\ k.pay = j.pay
    /\ k.was = j.was /\ k.read = j.read /\ k.full = j.full /\ k.late = j.late
    /\ k.stale = j.stale /\ k.old = j.old

LEMMA TransmitIs ==
  ASSUME Typed, NEW t \in Threads, Transmit(t)
  PROVE  /\ th[t] \in Jobs /\ Busy(t, "send")
         /\ Turned(t) /\ SameCall(th[t], th'[t])
         /\ th'[t].todo = th[t].todo /\ th'[t].got = th[t].got /\ th'[t].now = th[t].now
         /\ th'[t].out \in {"Queued", "Sent", "Failed"}
         /\ trouble' \in Nat /\ trouble <= trouble'
<1>1. th[t] \in Jobs /\ th[t].out = "none" /\ Busy(t, "send")
  BY DEF Transmit, Busy, Typed
<1>2. PICK out \in {"Queued", "Sent", "Failed"} : th' = [th EXCEPT ![t].out = out]
  BY DEF Transmit, Outcome
<1> DEFINE j == [th[t] EXCEPT !.out = out]
<1>3. th' = [th EXCEPT ![t] = j]
  BY <1>2
<1>4. /\ j \in Jobs /\ SameCall(th[t], j) /\ j.out = out
      /\ j.todo = th[t].todo /\ j.got = th[t].got /\ j.now = th[t].now
  BY <1>1 DEF Jobs, SameCall
<1> HIDE DEF j
<1>5. Turned(t) /\ th'[t] = j
  BY <1>3, <1>4, TurnIs DEF Typed
<1>6. trouble' \in Nat /\ trouble <= trouble'
  BY DEF Transmit, GoWrong, Typed, TypeOK
<1> QED
  BY <1>1, <1>2, <1>4, <1>5, <1>6

LEMMA AppliedIs ==
  ASSUME NEW row \in Row, NEW e \in Event
  PROVE  LET new == Applied(row, e) IN
         /\ new \in Row
         /\ new.clicks = row.clicks
         /\ new.opens = row.opens + (IF e.type = "open" THEN 1 ELSE 0)
         /\ new.log = row.log \union {e}
         /\ Rank[row.status] <= Rank[new.status]
         /\ row.status # "none" => new.status # "none"
<1> DEFINE log == row.log \union {e}
           opens == row.opens + (IF e.type = "open" THEN 1 ELSE 0)
           status == Advance(row.status, StatusOf(e.type, row.pay))
<1>1. log \in SUBSET (Event \union Label)
  BY DEF Row
<1>2. opens \in Nat
  BY DEF Row
<1>3. /\ status \in Status /\ Rank[row.status] <= Rank[status]
      /\ row.status # "none" => status # "none"
  BY StatusIs, StatusOfIs, AdvanceIs DEF Row
<1>4. Applied(row, e) = [row EXCEPT !.status = status, !.opens = opens, !.log = log]
  BY DEF Applied, AppendEvent, Row
<1>5. opens = row.opens + (IF e.type = "open" THEN 1 ELSE 0) /\ log = row.log \union {e}
  OBVIOUS
<1> HIDE DEF log, opens, status
<1>6. Applied(row, e) \in Row
  BY <1>1, <1>2, <1>3, <1>4 DEF Row
<1>7. /\ Applied(row, e).clicks = row.clicks /\ Applied(row, e).opens = opens
      /\ Applied(row, e).log = log /\ Applied(row, e).status = status
  BY <1>4 DEF Row
<1> QED
  BY <1>3, <1>5, <1>6, <1>7

LEMMA ApplyEventIs ==
  ASSUME Typed, NEW t \in Threads, ApplyEvent(t)
  PROVE  LET e == Head(th[t].todo) IN
         /\ th[t] \in Jobs /\ Busy(t, "apply") /\ th[t].todo # <<>>
         /\ e \in reported /\ e \in Event /\ e.c = th[t].c
         /\ Turned(t) /\ SameCall(th[t], th'[t]) /\ th'[t].out = th[t].out
         /\ th'[t].todo = Tail(th[t].todo)
         /\ \/ /\ Recorded(t, e)
               /\ th'[t].got = th[t].got /\ th'[t].now = th[t].now
            \/ /\ ~Recorded(t, e)
               /\ th'[t].got = th[t].got \union {e}
               /\ th'[t].now = Applied(th[t].now, e)
<1> DEFINE todo == th[t].todo
           e == Head(todo)
           got == IF Recorded(t, e) THEN th[t].got ELSE th[t].got \union {e}
           now == IF Recorded(t, e) THEN th[t].now ELSE Applied(th[t].now, e)
           rest == Tail(todo)
           j == [th[t] EXCEPT !.todo = rest, !.got = got, !.now = now]
<1>1. th[t] \in Jobs /\ Busy(t, "apply") /\ todo # <<>>
  BY DEF ApplyEvent, Busy, Typed
<1>2. todo \in Seq(Event) /\ th[t].got \in SUBSET Event /\ th[t].now \in Row
  BY <1>1 DEF Jobs
<1>3. e \in Event /\ rest \in Seq(Event) /\ e = todo[1] /\ 1 \in 1 .. Len(todo)
  BY <1>1, <1>2
<1>4. e \in reported /\ e.c = th[t].c
  BY <1>1, <1>3 DEF Typed, Hears, Busy
<1>5. got \in SUBSET Event /\ now \in Row
  BY <1>2, <1>3, AppliedIs
<1>6. th' = [th EXCEPT ![t] = j]
  <2>1. CASE Recorded(t, e)
    <3>1. th' = [th EXCEPT ![t].todo = Tail(@), ![t].now = th[t].now]
      BY <2>1 DEF ApplyEvent, Repeat
    <3>2. j = [th[t] EXCEPT !.todo = rest, !.now = th[t].now]
      BY <1>1, <2>1 DEF Jobs
    <3> QED
      BY <3>1, <3>2
  <2>2. CASE ~Recorded(t, e)
    <3>1. th' = [th EXCEPT ![t].todo = Tail(@), ![t].got = @ \union {e},
                           ![t].now = Applied(@, e)]
      BY <2>2 DEF ApplyEvent
    <3> QED
      BY <3>1, <2>2
  <2> QED
    BY <2>1, <2>2
<1>7. rest = Tail(todo) /\ IF Recorded(t, e) THEN got = th[t].got /\ now = th[t].now
         ELSE got = th[t].got \union {e} /\ now = Applied(th[t].now, e)
  OBVIOUS
<1> HIDE DEF todo, got, now, rest, e
<1>8. /\ j \in Jobs /\ SameCall(th[t], j) /\ j.out = th[t].out
      /\ j.todo = rest /\ j.got = got /\ j.now = now
  BY <1>1, <1>3, <1>5 DEF Jobs, SameCall
<1> HIDE DEF j
<1>9. Turned(t) /\ th'[t] = j
  BY <1>6, <1>8, TurnIs DEF Typed
<1> QED
  BY <1>1, <1>3, <1>4, <1>7, <1>8, <1>9 DEF e, todo

LEMMA TypedFrom ==
  ASSUME Typed, NEW t \in Threads, TypeOK', th' \in [Threads -> {Idle} \union Jobs],
         reported \subseteq reported', \A u \in Threads \ {t} : Kept(u),
         th'[t] # Idle => (th'[t].op # "revoke" => th'[t].c \in Comms) /\ Hears(t)'
  PROVE  Typed'
<1>1. ASSUME NEW u \in Threads \ {t}, th'[u] # Idle
      PROVE  (th'[u].op # "revoke" => th'[u].c \in Comms) /\ Hears(u)'
  <2>1. th[u] # Idle /\ SameJob(th[u], th'[u])
    BY <1>1 DEF Kept
  <2>2. (th[u].op # "revoke" => th[u].c \in Comms) /\ Hears(u)
    BY <2>1 DEF Typed
  <2>3. th'[u].op = th[u].op /\ th'[u].c = th[u].c /\ th'[u].todo = th[u].todo /\ th'[u].got = th[u].got
    BY <2>1 DEF SameJob
  <2> QED
    BY <2>2, <2>3 DEF Hears
<1> QED
  BY <1>1 DEF Typed

LEMMA InitTyped == Init => Typed
<1> SUFFICES ASSUME Init PROVE Typed
  OBVIOUS
<1>1. comm \in [Comms -> Row] /\ link \in [Links -> [status : LinkStates, comm : Comms \union {0}]]
  BY RowTypes DEF Init
<1>2. lost \in [comm : SUBSET Comms, link : BOOLEAN, twice : SUBSET Comms, untold : SUBSET Comms]
  BY DEF Init
<1>3. told \in [Comms -> Status]
  BY StatusIs DEF Init
<1>4. TypeOK
  BY <1>1, <1>2, <1>3 DEF Init, TypeOK
<1>5. th \in [Threads -> {Idle} \union Jobs] /\ \A t \in Threads : th[t] = Idle
  BY DEF Init
<1> QED
  BY <1>4, <1>5 DEF Typed

LEMMA RequestSendTyped ==
  ASSUME Typed, NEW t \in Threads, RequestSend(t)
  PROVE  Typed' /\ \A u \in Threads \ {t} : Kept(u)
<1>1. PICK c \in Comms, k \in Keys, pay \in BOOLEAN :
        RefuseSend(c, k, pay) \/ PrepareSend(t, c, k, pay)
  BY DEF RequestSend
<1>2. CASE RefuseSend(c, k, pay)
  <2>1. PICK status \in {"Suppressed", "Failed"} :
          comm' = [comm EXCEPT ![c] = [NoRow EXCEPT !.status = status, !.key = k, !.pay = pay]]
    BY <1>2 DEF RefuseSend
  <2> DEFINE row == [NoRow EXCEPT !.status = status, !.key = k, !.pay = pay]
  <2>2. row \in Row
    <3>1. status \in Status
      BY StatusIs
    <3> QED
      BY <3>1, RowTypes DEF Row
  <2> HIDE DEF row
  <2>3. comm' \in [Comms -> Row]
    BY <2>1, <2>2 DEF Typed, TypeOK, row
  <2>4. ASSUME NEW u \in Threads
        PROVE  Kept(u) /\ th'[u] \in {Idle} \union Jobs
    <3>1. CASE th[u] = Idle
      <4>1. th'[u] = Idle
        BY <1>2, <3>1 DEF RefuseSend, Sending, Busy
      <4> QED
        BY <3>1, <4>1 DEF Kept
    <3>2. CASE th[u] # Idle
      <4>1. th[u] \in Jobs
        BY <3>2 DEF Typed
      <4>2. th'[u] = IF u \in Sending THEN [th[u] EXCEPT !.stale = TRUE] ELSE th[u]
        BY <1>2 DEF RefuseSend
      <4>3. th'[u] \in Jobs /\ SameJob(th[u], th'[u])
        BY <4>1, <4>2, MarkIs
      <4> QED
        BY <3>2, <4>3 DEF Kept
    <3> QED
      BY <3>1, <3>2
  <2>5. th' \in [Threads -> {Idle} \union Jobs]
    BY <1>2, <2>4 DEF RefuseSend
  <2>6. TypeOK'
    BY <1>2, <2>3, <2>4 DEF RefuseSend, Typed, TypeOK
  <2>7. th'[t] # Idle => (th'[t].op # "revoke" => th'[t].c \in Comms) /\ Hears(t)'
    BY <2>4 DEF Kept, RequestSend, SameJob
  <2> QED
    BY <1>2, <2>4, <2>5, <2>6, <2>7, TypedFrom DEF RefuseSend
<1>3. CASE PrepareSend(t, c, k, pay)
  <2>1. /\ Turned(t) /\ Fresh(th'[t]) /\ th'[t].c = c /\ th'[t].todo = <<>>
    BY <1>3, PrepareSendIs DEF Prepared
  <2>2. TypeOK'
    BY <1>3, <2>1 DEF PrepareSend, Turned, Typed, TypeOK
  <2>3. Hears(t)'
    BY <2>1 DEF Hears, Fresh
  <2> QED
    BY <1>3, <2>1, <2>2, <2>3, TypedFrom DEF Turned, PrepareSend
<1> QED
  BY <1>1, <1>2, <1>3

LEMMA StartsTyped ==
  ASSUME Typed, NEW t \in Threads,
         Receive(t) \/ Visit(t) \/ Checkout(t) \/ Revoke(t)
  PROVE  Typed' /\ \A u \in Threads \ {t} : Kept(u)
<1>1. UNCHANGED <<given, acct, rows, links, provider, inbox, trouble, ghosts>>
  BY DEF Receive, Visit, Checkout, Revoke
<1>2. /\ Turned(t) /\ Fresh(th'[t])
      /\ th'[t].op # "revoke" => th'[t].c \in Comms
      /\ \/ th'[t].todo = <<>>
         \/ \A i \in 1 .. Len(th'[t].todo) :
               th'[t].todo[i] \in reported /\ th'[t].todo[i].c = th'[t].c
  <2>1. CASE Receive(t)
    <3>1. PICK b \in Batches : Turned(t) /\ Fresh(th'[t]) /\ th'[t].c = b[1].c /\ th'[t].c \in Comms /\ th'[t].todo = b
      BY <2>1, ReceiveIs
    <3>2. \A i \in 1 .. Len(b) : b[i] \in reported /\ b[i].c = b[1].c
      BY BatchIs DEF Typed, TypeOK
    <3> QED
      BY <3>1, <3>2
  <2>2. CASE Visit(t)
    BY <2>2, VisitIs
  <2>3. CASE Checkout(t)
    BY <2>3, CheckoutIs
  <2>4. CASE Revoke(t)
    BY <2>4, RevokeIs
  <2> QED
    BY <2>1, <2>2, <2>3, <2>4
<1>3. TypeOK'
  BY <1>1, <1>2 DEF Turned, Typed, TypeOK
<1>4. Hears(t)'
  BY <1>1, <1>2 DEF Hears, Fresh
<1> QED
  BY <1>1, <1>2, <1>3, <1>4, TypedFrom DEF Turned

LEMMA TransmitTyped ==
  ASSUME Typed, NEW t \in Threads, Transmit(t)
  PROVE  Typed' /\ \A u \in Threads \ {t} : Kept(u)
<1>1. /\ th[t] \in Jobs /\ Busy(t, "send") /\ Turned(t) /\ SameCall(th[t], th'[t])
      /\ th'[t].todo = th[t].todo /\ th'[t].got = th[t].got
      /\ trouble' \in Nat
  BY TransmitIs
<1>2. th[t].c \in Comms /\ Hears(t)
  BY <1>1 DEF Typed, Busy
<1>3. sent' \subseteq Comms /\ against' \subseteq Comms
  BY <1>2 DEF Transmit, Typed, TypeOK
<1>4. TypeOK'
  BY <1>1, <1>3 DEF Transmit, Turned, Typed, TypeOK
<1>5. th'[t].c = th[t].c /\ Hears(t)'
  BY <1>1, <1>2 DEF Hears, SameCall, Transmit
<1> QED
  BY <1>1, <1>2, <1>4, <1>5, TypedFrom DEF Turned, Transmit

LEMMA ApplyEventTyped ==
  ASSUME Typed, NEW t \in Threads, ApplyEvent(t)
  PROVE  Typed' /\ \A u \in Threads \ {t} : Kept(u)
<1> DEFINE todo == th[t].todo
           e == Head(todo)
<1>1. /\ th[t] \in Jobs /\ Busy(t, "apply") /\ th[t].todo # <<>>
      /\ e \in reported /\ e.c = th[t].c
      /\ Turned(t) /\ SameCall(th[t], th'[t])
      /\ th'[t].todo = Tail(todo)
      /\ th'[t].got = th[t].got \/ th'[t].got = th[t].got \union {e}
  BY ApplyEventIs
<1>2. th[t].c \in Comms /\ Hears(t)
  BY <1>1 DEF Typed, Busy
<1>3. TypeOK'
  BY <1>1 DEF ApplyEvent, Turned, Typed, TypeOK
<1>4. reported' = reported
  BY DEF ApplyEvent
<1>5. todo \in Seq(Event) /\ todo # <<>> /\ todo = th[t].todo
  BY <1>1 DEF Jobs
<1>6. th'[t].c = th[t].c
  BY <1>1 DEF SameCall
<1> HIDE DEF todo, e
<1>7. \A i \in 1 .. Len(Tail(todo)) : Tail(todo)[i] = todo[i + 1] /\ i + 1 \in 1 .. Len(todo)
  BY <1>5, HeadTailProperties
<1>8. Hears(t)'
  BY <1>1, <1>2, <1>4, <1>5, <1>6, <1>7 DEF Hears
<1> QED
  BY <1>1, <1>2, <1>3, <1>4, <1>6, <1>8, TypedFrom DEF Turned

(* A commit: the thread ends, and what others read of its rows is superseded. *)
LEMMA FinishSendIs ==
  ASSUME Typed, NEW t \in Threads, FinishSend(t)
  PROVE  /\ th[t] \in Jobs /\ th[t].c \in Comms /\ th[t].op = "send" /\ th[t].out # "none"
         /\ th'[t] = Idle /\ \A u \in Threads \ {t} : Kept(u)
         /\ \A u \in Sending : th'[u] # Idle => th'[u].stale
         /\ link' # link => \A u \in Threads : th'[u] # Idle => th'[u].old
         /\ Typed'
<1>1. /\ th[t] \in Jobs /\ th[t].c \in Comms /\ th[t].op = "send" /\ th[t].out # "none"
  BY DEF FinishSend, Busy, Typed
<1>2. /\ th' \in [Threads -> {Idle} \union Jobs] /\ th'[t] = Idle
      /\ \A u \in Threads \ {t} : Kept(u)
      /\ \A u \in Sending : th'[u] # Idle => th'[u].stale
      /\ link' # link => \A u \in Threads : th'[u] # Idle => th'[u].old
  <2> DEFINE ls == IF link' # link THEN Threads ELSE {}
  <2>1. EndOver(t, Sending, ls) /\ (link' # link => ls = Threads)
    BY DEF FinishSend
  <2> HIDE DEF ls
  <2> QED
    BY <2>1, EndOverIs DEF Typed, Sending
<1> DEFINE row == [NoRow EXCEPT !.status = th[t].out, !.key = th[t].key, !.pay = th[t].pay]
<1>3. row \in Row
  <2>1. th[t].out \in Status /\ th[t].key \in Keys /\ th[t].pay \in BOOLEAN
    BY <1>1, StatusIs DEF Jobs
  <2> QED
    BY <2>1, RowTypes DEF Row
<1>4. comm' = [comm EXCEPT ![th[t].c] = row]
  BY DEF FinishSend
<1> HIDE DEF row
<1>5. comm' \in [Comms -> Row]
  BY <1>3, <1>4 DEF Typed, TypeOK
<1>6. link' \in [Links -> [status : LinkStates, comm : Comms \union {0}]] /\ due' = due
  <2>1. th[t] # Idle /\ th[t].read \in [Links -> LinkStates]
    BY <1>1 DEF Jobs
  <2>2. \A l \in Links : LinksOf(th[t])[l].status \in LinkStates /\ LinksOf(th[t])[l].comm \in Comms \union {0}
    BY <1>1, <2>1 DEF LinksOf, LinkStates
  <2>3. WriteLinks(t, LinksOf(th[t]))
    BY DEF FinishSend
  <2> QED
    BY <2>1, <2>2, <2>3, WriteLinksType
<1>7. lost' \in [comm : SUBSET Comms, link : BOOLEAN, twice : SUBSET Comms, untold : SUBSET Comms]
  <2> DEFINE twice == lost.twice \union (IF th[t].stale THEN {th[t].c} ELSE {})
             over == lost.link \/ (link' # link /\ th[t].old)
  <2>1. twice \in SUBSET Comms /\ over \in BOOLEAN
    BY <1>1 DEF Typed, TypeOK
  <2>2. lost' = [lost EXCEPT !.twice = twice, !.link = over]
    BY DEF FinishSend
  <2> HIDE DEF twice, over
  <2> QED
    BY <2>1, <2>2 DEF Typed, TypeOK
<1>8. TypeOK'
  BY <1>2, <1>5, <1>6, <1>7 DEF FinishSend, Typed, TypeOK
<1>9. Typed'
  BY <1>2, <1>8, TypedFrom DEF FinishSend
<1> QED
  BY <1>1, <1>2, <1>9

LEMMA FinishVisitIs ==
  ASSUME Typed, NEW t \in Threads, FinishVisit(t)
  PROVE  /\ th[t] \in Jobs /\ th[t].c \in Comms /\ th[t].op = "visit"
         /\ th'[t] = Idle /\ \A u \in Threads \ {t} : Kept(u)
         /\ \A u \in On(th[t].c) : th'[u] # Idle => th'[u].stale
         /\ link' # link => \A u \in Threads : th'[u] # Idle => th'[u].old
         /\ Typed'
<1>1. /\ th[t] \in Jobs /\ th[t].c \in Comms /\ th[t].op = "visit"
  BY DEF FinishVisit, Busy, Typed
<1>2. /\ th' \in [Threads -> {Idle} \union Jobs] /\ th'[t] = Idle
      /\ \A u \in Threads \ {t} : Kept(u)
      /\ \A u \in On(th[t].c) : th'[u] # Idle => th'[u].stale
      /\ link' # link => \A u \in Threads : th'[u] # Idle => th'[u].old
  <2> DEFINE ls == IF link' # link THEN Threads ELSE {}
  <2>1. EndOver(t, On(th[t].c), ls) /\ (link' # link => ls = Threads)
    BY DEF FinishVisit
  <2> HIDE DEF ls
  <2> QED
    BY <2>1, EndOverIs DEF Typed, On
<1>3. comm' \in [Comms -> Row]
  BY <1>1, MergeType DEF FinishVisit, Busy, Typed, TypeOK
<1>4. link' \in [Links -> [status : LinkStates, comm : Comms \union {0}]] /\ due' = due
  <2>1. th[t] # Idle /\ th[t].read \in [Links -> LinkStates]
    BY <1>1 DEF Jobs
  <2> DEFINE new == [k \in Links |->
          [status |-> IF k = th[t].l /\ th[t].read[th[t].l] = "Active" /\ th[t].l \in due
                      THEN "Expired" ELSE th[t].read[k],
           comm |-> 0]]
  <2>2. \A l \in Links : new[l].status \in LinkStates /\ new[l].comm \in Comms \union {0}
    BY <1>1, <2>1 DEF LinkStates
  <2>3. WriteLinks(t, new)
    BY DEF FinishVisit
  <2> HIDE DEF new
  <2> QED
    BY <2>1, <2>2, <2>3, WriteLinksType
<1>5. lost' \in [comm : SUBSET Comms, link : BOOLEAN, twice : SUBSET Comms, untold : SUBSET Comms]
  <2> DEFINE over == lost.link \/ (link' # link /\ th[t].old)
  <2>1. over \in BOOLEAN /\ lost' = [lost EXCEPT !.link = over]
    BY DEF FinishVisit
  <2> HIDE DEF over
  <2> QED
    BY <2>1 DEF Typed, TypeOK
<1>6. visits' \in [Comms -> Nat]
  BY <1>1 DEF FinishVisit, Typed, TypeOK
<1>7. TypeOK'
  BY <1>2, <1>3, <1>4, <1>5, <1>6 DEF FinishVisit, Typed, TypeOK
<1>8. Typed'
  BY <1>2, <1>7, TypedFrom DEF FinishVisit
<1> QED
  BY <1>1, <1>2, <1>8

LEMMA FinishCheckoutIs ==
  ASSUME Typed, NEW t \in Threads, FinishCheckout(t)
  PROVE  /\ th[t] \in Jobs /\ th[t].c \in Comms /\ th[t].op = "checkout"
         /\ th'[t] = Idle /\ \A u \in Threads \ {t} : Kept(u)
         /\ \A u \in On(th[t].c) : th'[u] # Idle => th'[u].stale
         /\ th[t].full => \A u \in Threads : th'[u] # Idle => th'[u].old
         /\ Typed'
<1>1. /\ th[t] \in Jobs /\ th[t].c \in Comms /\ th[t].op = "checkout"
  BY DEF FinishCheckout, Busy, Typed
<1>2. /\ th' \in [Threads -> {Idle} \union Jobs] /\ th'[t] = Idle
      /\ \A u \in Threads \ {t} : Kept(u)
      /\ \A u \in On(th[t].c) : th'[u] # Idle => th'[u].stale
      /\ th[t].full => \A u \in Threads : th'[u] # Idle => th'[u].old
  <2> DEFINE ls == IF th[t].full THEN Threads ELSE {}
  <2>1. EndOver(t, On(th[t].c), ls) /\ (th[t].full => ls = Threads)
    BY DEF FinishCheckout
  <2> HIDE DEF ls
  <2> QED
    BY <2>1, EndOverIs DEF Typed, On
<1>3. comm' \in [Comms -> Row]
  BY <1>1, MergeType DEF FinishCheckout, Busy, Typed, TypeOK
<1>4. link' \in [Links -> [status : LinkStates, comm : Comms \union {0}]] /\ due' = due
  <2>1. th[t] # Idle /\ th[t].read \in [Links -> LinkStates]
    BY <1>1 DEF Jobs
  <2> DEFINE new == [k \in Links |->
          [status |-> IF th[t].full /\ k \in CompletedLinks(th[t]) THEN "Completed" ELSE th[t].read[k],
           comm |-> 0]]
  <2>2. \A l \in Links : new[l].status \in LinkStates /\ new[l].comm \in Comms \union {0}
    BY <1>1, <2>1 DEF LinkStates
  <2>3. WriteLinks(t, new)
    BY DEF FinishCheckout
  <2> HIDE DEF new
  <2> QED
    BY <2>1, <2>2, <2>3, WriteLinksType
<1>5. lost' \in [comm : SUBSET Comms, link : BOOLEAN, twice : SUBSET Comms, untold : SUBSET Comms]
  <2> DEFINE over == lost.link \/ (th[t].full /\ th[t].old)
             cs == lost.comm \union (IF th[t].stale THEN {th[t].c} ELSE {})
  <2>1. over \in BOOLEAN /\ cs \in SUBSET Comms /\ lost' = [lost EXCEPT !.comm = cs, !.link = over]
    BY <1>1 DEF FinishCheckout, Typed, TypeOK
  <2> HIDE DEF over, cs
  <2> QED
    BY <2>1 DEF Typed, TypeOK
<1>6. acct' \in [optout : BOOLEAN, closed : BOOLEAN]
  <2> DEFINE closed == acct.closed \/ th[t].full
  <2>1. closed \in BOOLEAN /\ acct' = [acct EXCEPT !.closed = closed]
    BY DEF FinishCheckout
  <2> HIDE DEF closed
  <2> QED
    BY <2>1 DEF Typed, TypeOK
<1>7. TypeOK'
  BY <1>2, <1>3, <1>4, <1>5, <1>6 DEF FinishCheckout, Typed, TypeOK
<1>8. Typed'
  BY <1>2, <1>7, TypedFrom DEF FinishCheckout
<1> QED
  BY <1>1, <1>2, <1>8

LEMMA FinishRevokeIs ==
  ASSUME Typed, NEW t \in Threads, FinishRevoke(t)
  PROVE  /\ th[t] \in Jobs /\ th[t].op = "revoke"
         /\ th'[t] = Idle /\ \A u \in Threads \ {t} : Kept(u)
         /\ \A u \in Threads : th'[u] # Idle => th'[u].old
         /\ Typed'
<1>1. /\ th[t] \in Jobs /\ th[t].op = "revoke"
  BY DEF FinishRevoke, Busy, Typed
<1>2. /\ th' \in [Threads -> {Idle} \union Jobs] /\ th'[t] = Idle
      /\ \A u \in Threads \ {t} : Kept(u)
      /\ \A u \in Threads : th'[u] # Idle => th'[u].old
  <2>1. EndOver(t, {}, Threads)
    BY DEF FinishRevoke
  <2> QED
    BY <2>1, EndOverIs DEF Typed
<1>3. link' \in [Links -> [status : LinkStates, comm : Comms \union {0}]] /\ due' = due
  <2>1. th[t] # Idle /\ th[t].read \in [Links -> LinkStates]
    BY <1>1 DEF Jobs
  <2> DEFINE new == [k \in Links |->
          [status |-> IF k = th[t].l THEN "Revoked" ELSE th[t].read[k], comm |-> 0]]
  <2>2. \A l \in Links : new[l].status \in LinkStates /\ new[l].comm \in Comms \union {0}
    BY <1>1, <2>1 DEF LinkStates
  <2>3. WriteLinks(t, new)
    BY DEF FinishRevoke
  <2> HIDE DEF new
  <2> QED
    BY <2>1, <2>2, <2>3, WriteLinksType
<1>4. lost' \in [comm : SUBSET Comms, link : BOOLEAN, twice : SUBSET Comms, untold : SUBSET Comms]
  <2> DEFINE over == lost.link \/ th[t].old
  <2>1. over \in BOOLEAN /\ lost' = [lost EXCEPT !.link = over]
    BY DEF FinishRevoke
  <2> HIDE DEF over
  <2> QED
    BY <2>1 DEF Typed, TypeOK
<1>5. TypeOK'
  BY <1>2, <1>3, <1>4 DEF FinishRevoke, Typed, TypeOK
<1>6. Typed'
  BY <1>2, <1>5, TypedFrom DEF FinishRevoke
<1> QED
  BY <1>1, <1>2, <1>6

LEMMA CommitEventsIs ==
  ASSUME Typed, NEW t \in Threads, CommitEvents(t)
  PROVE  /\ th[t] \in Jobs /\ th[t].c \in Comms /\ th[t].op = "apply"
         /\ \A u \in Threads \ {t} : Kept(u)
         /\ th[t].got # {} => \A u \in On(th[t].c) \ {t} : th'[u] # Idle => th'[u].stale
         /\ \/ /\ th'[t] = Idle /\ (channel = "Email" \/ th[t].got = {})
               /\ told' = IF th[t].got # {} THEN [told EXCEPT ![th[t].c] = Heard(t)] ELSE told
            \/ /\ th'[t] # Idle /\ told' = told
               /\ th'[t].op = "tell" /\ th'[t].c = th[t].c /\ th'[t].late = FALSE
         /\ Typed'
<1>1. /\ th[t] \in Jobs /\ th[t].c \in Comms /\ th[t].op = "apply"
  BY DEF CommitEvents, Busy, Typed
<1> DEFINE over == IF th[t].got = {} THEN {} ELSE On(th[t].c)
           tell == Job("tell", th[t].c, 0)
<1>2. tell \in Jobs /\ tell.op = "tell" /\ tell.c = th[t].c /\ tell.late = FALSE
      /\ tell.todo = <<>> /\ tell.got = {}
  BY <1>1, JobType DEF Job
<1>3. /\ th' \in [Threads -> {Idle} \union Jobs]
      /\ \A u \in Threads \ {t} : Kept(u)
      /\ \A u \in over \ {t} : th'[u] # Idle => th'[u].stale
      /\ \/ /\ th'[t] = Idle /\ (channel = "Email" \/ th[t].got = {})
            /\ told' = IF th[t].got # {} THEN [told EXCEPT ![th[t].c] = Heard(t)] ELSE told
         \/ th'[t] = tell /\ told' = told
  <2> over \subseteq On(th[t].c)
    OBVIOUS
  <2>0. channel = "Email" \/ channel = "SMS"
    BY DEF Typed, TypeOK
  <2>1. ASSUME TellsNext(t, over), told' = told
        PROVE  /\ th' \in [Threads -> {Idle} \union Jobs]
               /\ \A u \in Threads \ {t} : Kept(u)
               /\ \A u \in over \ {t} : th'[u] # Idle => th'[u].stale
               /\ th'[t] = tell /\ told' = told
    <3>1. th' = [u \in Threads |->
                   IF u = t THEN tell
                   ELSE IF u \in over THEN [th[u] EXCEPT !.stale = TRUE] ELSE th[u]]
      BY <2>1 DEF TellsNext
    <3> HIDE DEF over, tell
    <3>2. ASSUME NEW u \in Threads, u # t
          PROVE  /\ th'[u] \in {Idle} \union Jobs /\ Kept(u)
                 /\ u \in over /\ th'[u] # Idle => th'[u].stale
      <4>1. CASE th[u] = Idle
        BY <3>1, <3>2, <4>1 DEF On, Kept
      <4>2. CASE th[u] # Idle
        <5>1. th[u] \in Jobs /\ th'[u] = IF u \in over THEN [th[u] EXCEPT !.stale = TRUE] ELSE th[u]
          BY <3>1, <3>2, <4>2 DEF Typed
        <5>2. /\ th'[u] \in Jobs /\ SameJob(th[u], th'[u]) /\ (u \in over => th'[u].stale)
          BY <5>1, MarkIs
        <5> QED
          BY <4>2, <5>2 DEF Kept
      <4> QED
        BY <4>1, <4>2
    <3>3. th'[t] = tell
      BY <3>1
    <3> QED
      BY <1>2, <2>1, <3>1, <3>2, <3>3 DEF On
  <2>2. ASSUME EndOver(t, over, {}) PROVE
               /\ th' \in [Threads -> {Idle} \union Jobs]
               /\ \A u \in Threads \ {t} : Kept(u)
               /\ \A u \in over \ {t} : th'[u] # Idle => th'[u].stale
               /\ th'[t] = Idle
    <3> HIDE DEF over
    <3> QED
      BY <2>2, EndOverIs DEF Typed, On
  <2>3. CASE PartOfBatch(t, over)
    BY <2>1, <2>3 DEF PartOfBatch
  <2>4. CASE WholeBatch(t, over)
    <3>1. CASE channel = "SMS" /\ th[t].got # {}
      BY <2>1, <2>4, <3>1 DEF WholeBatch
    <3>2. CASE ~(channel = "SMS" /\ th[t].got # {})
      BY <2>0, <2>2, <2>4, <3>2 DEF WholeBatch
    <3> QED
      BY <3>1, <3>2
  <2>5. WholeBatch(t, over) \/ PartOfBatch(t, over)
    BY DEF CommitEvents
  <2> QED
    BY <2>3, <2>4, <2>5
<1>4. th[t].got # {} => over = On(th[t].c)
  OBVIOUS
<1> HIDE DEF over, tell
<1>5. comm' \in [Comms -> Row]
  BY <1>1, MergeType DEF CommitEvents, Busy, Typed, TypeOK
<1>6. seen' \subseteq reported
  BY <1>1 DEF CommitEvents, Busy, Typed, TypeOK, Hears
<1>7. inbox' \subseteq reported /\ trouble' \in Nat
  <2>1. Answer(t) \/ UNCHANGED <<inbox, trouble>>
    BY DEF CommitEvents, WholeBatch, PartOfBatch
  <2> QED
    BY <2>1 DEF Answer, GoWrong, Typed, TypeOK
<1>8. acct' \in [optout : BOOLEAN, closed : BOOLEAN]
  <2> DEFINE out == acct.optout \/ Complained(t)
  <2>1. out \in BOOLEAN /\ acct' = [acct EXCEPT !.optout = out]
    BY DEF CommitEvents
  <2> HIDE DEF out
  <2> QED
    BY <2>1 DEF Typed, TypeOK
<1>9. asked' \in BOOLEAN
  BY DEF CommitEvents
<1>10. lost' \in [comm : SUBSET Comms, link : BOOLEAN, twice : SUBSET Comms, untold : SUBSET Comms]
  <2> DEFINE cs == lost.comm \union (IF th[t].stale /\ th[t].got # {} THEN {th[t].c} ELSE {})
  <2>1. cs \in SUBSET Comms /\ lost' = [lost EXCEPT !.comm = cs]
    BY <1>1 DEF CommitEvents, Typed, TypeOK
  <2> HIDE DEF cs
  <2> QED
    BY <2>1 DEF Typed, TypeOK
<1>11. told' \in [Comms -> Status]
  <2>1. th[t].now.status \in Status
    BY <1>1 DEF Jobs, Row
  <2> QED
    BY <1>1, <1>3, <2>1 DEF Heard, Typed, TypeOK
<1>12. UNCHANGED <<given, links, provider, against, visits>>
  BY DEF CommitEvents
<1>13. TypeOK'
  BY <1>3, <1>5, <1>6, <1>7, <1>8, <1>9, <1>10, <1>11, <1>12 DEF Typed, TypeOK
<1>14. th'[t] # Idle => th'[t].c \in Comms /\ Hears(t)'
  BY <1>1, <1>2, <1>3 DEF Hears
<1>15. Typed'
  BY <1>3, <1>12, <1>13, <1>14, TypedFrom
<1> QED
  BY <1>1, <1>2, <1>3, <1>4, <1>15

LEMMA EndsAre ==
  ASSUME Typed, NEW t \in Threads, RejectEvents(t) \/ TellWorkflow(t) \/ Crash(t)
  PROVE  /\ th[t] # Idle /\ th'[t] = Idle /\ \A u \in Threads \ {t} : Kept(u)
         /\ Typed'
<1>1. th[t] # Idle /\ EndOver(t, {}, {})
  BY DEF RejectEvents, TellWorkflow, Crash, Busy
<1>2. /\ th' \in [Threads -> {Idle} \union Jobs] /\ th'[t] = Idle
      /\ \A u \in Threads \ {t} : Kept(u)
  BY <1>1, EndOverIs DEF Typed
<1>3. CASE RejectEvents(t)
  <2>1. TypeOK'
    BY <1>2, <1>3 DEF RejectEvents, Typed, TypeOK
  <2> QED
    BY <1>1, <1>2, <1>3, <2>1, TypedFrom DEF RejectEvents
<1>4. CASE TellWorkflow(t)
  <2>1. th[t].c \in Comms
    BY <1>4 DEF TellWorkflow, Busy, Typed
  <2>2. comm[th[t].c].status \in Status
    BY <2>1 DEF Typed, TypeOK, Row
  <2>3. told' \in [Comms -> Status]
    BY <1>4, <2>1, <2>2 DEF TellWorkflow, Typed, TypeOK
  <2>4. TypeOK'
    BY <1>2, <1>4, <2>3 DEF TellWorkflow, Typed, TypeOK
  <2> QED
    BY <1>1, <1>2, <1>4, <2>4, TypedFrom DEF TellWorkflow
<1>5. CASE Crash(t)
  <2> DEFINE cs == lost.untold \union (IF Busy(t, "tell") THEN {th[t].c} ELSE {})
  <2>1. cs \in SUBSET Comms /\ lost' = [lost EXCEPT !.untold = cs]
    BY <1>5 DEF Crash, Busy, Typed, TypeOK
  <2> HIDE DEF cs
  <2>2. lost' \in [comm : SUBSET Comms, link : BOOLEAN, twice : SUBSET Comms, untold : SUBSET Comms]
    BY <2>1 DEF Typed, TypeOK
  <2>3. TypeOK'
    BY <1>2, <1>5, <2>2 DEF Crash, GoWrong, Typed, TypeOK
  <2> QED
    BY <1>1, <1>2, <1>5, <2>3, TypedFrom DEF Crash
<1> QED
  BY <1>1, <1>2, <1>3, <1>4, <1>5

Environment == Report \/ ReceiveUnmatched \/ StopByText \/ Reimport \/ LinkFallsDue

LEMMA EnvironmentTyped ==
  ASSUME Typed, Environment
  PROVE  Typed' /\ th' = th
<1>1. th' = th
  BY DEF Environment, Report, ReceiveUnmatched, StopByText, Reimport, LinkFallsDue
<1>2. TypeOK' /\ reported \subseteq reported'
  <2>1. CASE Report
    BY <2>1 DEF Report, Typed, TypeOK
  <2>2. CASE ReceiveUnmatched
    BY <2>2 DEF ReceiveUnmatched, Typed, TypeOK
  <2>3. CASE StopByText
    BY <2>3 DEF StopByText, Typed, TypeOK
  <2>4. CASE Reimport
    <3>1. trouble' \in Nat
      BY <2>4 DEF Reimport, GoWrong, Typed, TypeOK
    <3>2. acct' \in [optout : BOOLEAN, closed : BOOLEAN]
      BY <2>4 DEF Reimport, Typed, TypeOK
    <3> QED
      BY <2>4, <3>1, <3>2 DEF Reimport, Typed, TypeOK
  <2>5. CASE LinkFallsDue
    BY <2>5 DEF LinkFallsDue, Active, Typed, TypeOK
  <2> QED
    BY <2>1, <2>2, <2>3, <2>4, <2>5 DEF Environment
<1>3. \A u \in Threads : Hears(u) => Hears(u)'
  BY <1>1, <1>2 DEF Hears
<1> QED
  BY <1>1, <1>2, <1>3 DEF Typed

LEMMA StepTyped ==
  ASSUME Typed, NEW t \in Threads, Step(t)
  PROVE  Typed' /\ \A u \in Threads \ {t} : Kept(u)
<1>1. CASE RequestSend(t)
  BY <1>1, RequestSendTyped
<1>2. CASE Receive(t) \/ Visit(t) \/ Checkout(t) \/ Revoke(t)
  BY <1>2, StartsTyped
<1>3. CASE Transmit(t)
  BY <1>3, TransmitTyped
<1>4. CASE ApplyEvent(t)
  BY <1>4, ApplyEventTyped
<1>5. CASE FinishSend(t)
  BY <1>5, FinishSendIs
<1>6. CASE CommitEvents(t)
  BY <1>6, CommitEventsIs
<1>7. CASE FinishVisit(t)
  BY <1>7, FinishVisitIs
<1>8. CASE FinishCheckout(t)
  BY <1>8, FinishCheckoutIs
<1>9. CASE FinishRevoke(t)
  BY <1>9, FinishRevokeIs
<1>10. CASE RejectEvents(t) \/ TellWorkflow(t) \/ Crash(t)
  BY <1>10, EndsAre
<1> QED
  BY <1>1, <1>2, <1>3, <1>4, <1>5, <1>6, <1>7, <1>8, <1>9, <1>10 DEF Step

LEMMA NextTyped == Typed /\ [Next]_vars => Typed'
<1> SUFFICES ASSUME Typed, [Next]_vars PROVE Typed'
  OBVIOUS
<1>1. CASE UNCHANGED vars
  BY <1>1 DEF vars, Typed, TypeOK, Hears
<1>2. CASE \E t \in Threads : Step(t)
  BY <1>2, StepTyped
<1>3. CASE Environment
  BY <1>3, EnvironmentTyped
<1> QED
  BY <1>1, <1>2, <1>3 DEF Next, Environment

(* Rows, links and what each request read are of their types, and only     *)
(* reported events are recorded.                                           *)
THEOREM TypeCorrect == Spec => []TypeOK
<1>1. Init => Typed
  BY InitTyped
<1>2. Typed /\ [Next]_vars => Typed'
  BY NextTyped
<1>3. Typed => TypeOK
  BY DEF Typed
<1> QED
  BY <1>1, <1>2, <1>3, PTL DEF Spec

-----------------------------------------------------------------------------
(* The customer who asked to be left alone.  Unless a file was imported    *)
(* since, the flag stands, so no request that began later passed the gate. *)

Excused == channel = "Email" /\ trouble > 0

LeftAlone ==
    /\ \A t \in Threads : th[t] # Idle /\ th[t].late => Excused
    /\ asked /\ ~Excused => acct.optout
    /\ against # {} => Excused

LEMMA ExcusedStays ==
  ASSUME Typed, Excused, Next
  PROVE  Excused'
<1>1. trouble \in Nat /\ trouble > 0 /\ channel = "Email"
  BY DEF Excused, Typed, TypeOK
<1>2. channel' = channel
  <2>1. ASSUME NEW t \in Threads, Step(t) PROVE channel' = channel
    <3>1. CASE RequestSend(t) \/ Transmit(t) \/ FinishSend(t)
      BY <3>1 DEF RequestSend, RefuseSend, PrepareSend, Transmit, FinishSend
    <3>2. CASE Receive(t) \/ ApplyEvent(t) \/ RejectEvents(t) \/ TellWorkflow(t) \/ Crash(t)
      BY <3>2 DEF Receive, ApplyEvent, RejectEvents, TellWorkflow, Crash
    <3>3. CASE CommitEvents(t)
      BY <3>3 DEF CommitEvents
    <3>4. CASE Visit(t) \/ FinishVisit(t) \/ Checkout(t) \/ FinishCheckout(t)
      BY <3>4 DEF Visit, FinishVisit, Checkout, FinishCheckout
    <3>5. CASE Revoke(t) \/ FinishRevoke(t)
      BY <3>5 DEF Revoke, FinishRevoke
    <3> QED
      BY <2>1, <3>1, <3>2, <3>3, <3>4, <3>5 DEF Step
  <2>2. CASE Environment
    BY <2>2 DEF Environment, Report, ReceiveUnmatched, StopByText, Reimport, LinkFallsDue
  <2> QED
    BY <2>1, <2>2 DEF Next, Environment
<1>3. trouble' = trouble \/ trouble' = trouble + 1
  <2>1. ASSUME NEW t \in Threads, Step(t) PROVE trouble' = trouble \/ trouble' = trouble + 1
    <3>1. CASE RequestSend(t) \/ Transmit(t) \/ FinishSend(t)
      BY <3>1 DEF RequestSend, RefuseSend, PrepareSend, Transmit, FinishSend, GoWrong
    <3>2. CASE Receive(t) \/ ApplyEvent(t) \/ RejectEvents(t) \/ TellWorkflow(t) \/ Crash(t)
      BY <3>2 DEF Receive, ApplyEvent, RejectEvents, TellWorkflow, Crash, GoWrong
    <3>3. CASE CommitEvents(t)
      BY <3>3 DEF CommitEvents, WholeBatch, PartOfBatch, Answer, GoWrong
    <3>4. CASE Visit(t) \/ FinishVisit(t) \/ Checkout(t) \/ FinishCheckout(t)
      BY <3>4 DEF Visit, FinishVisit, Checkout, FinishCheckout
    <3>5. CASE Revoke(t) \/ FinishRevoke(t)
      BY <3>5 DEF Revoke, FinishRevoke
    <3> QED
      BY <2>1, <3>1, <3>2, <3>3, <3>4, <3>5 DEF Step
  <2>2. CASE Environment
    BY <2>2 DEF Environment, Report, ReceiveUnmatched, StopByText, Reimport, LinkFallsDue, GoWrong
  <2> QED
    BY <2>1, <2>2 DEF Next, Environment
<1> QED
  BY <1>1, <1>2, <1>3 DEF Excused

\* A job that goes on was late before, and one that begins late reads the flag.
LEMMA NobodyLate ==
  ASSUME Typed, LeftAlone, Next, NEW t \in Threads, th'[t] # Idle, th'[t].late
  PROVE  Excused'
<1>1. CASE th[t] # Idle /\ th[t].late
  BY <1>1, ExcusedStays DEF LeftAlone
<1>2. CASE Environment
  BY <1>1, <1>2, EnvironmentTyped
<1>3. ASSUME NEW u \in Threads, Step(u), u # t
      PROVE  th[t] # Idle /\ th[t].late
  <2>1. Kept(t)
    BY <1>3, StepTyped
  <2> QED
    BY <2>1 DEF Kept, SameJob
<1>4. CASE Step(t) /\ ~(th[t] # Idle /\ th[t].late)
  <2>1. CASE RequestSend(t)
    <3>1. PICK c \in Comms, k \in Keys, pay \in BOOLEAN :
            RefuseSend(c, k, pay) \/ PrepareSend(t, c, k, pay)
      BY <2>1 DEF RequestSend
    <3>2. CASE RefuseSend(c, k, pay)
      <4>1. th'[t] = Idle
        BY <2>1, <3>2 DEF RequestSend, RefuseSend, Sending, Busy
      <4> QED
        BY <4>1
    <3>3. CASE PrepareSend(t, c, k, pay)
      <4>1. asked /\ ~acct.optout
        <5>1. th'[t].late = asked
          <6>1. Prepared(t, c, k, pay)
            BY <3>3, PrepareSendIs
          <6> QED
            BY <6>1 DEF Prepared
        <5>2. ~acct.optout
          BY <3>3 DEF PrepareSend, Eligible
        <5> QED
          BY <5>1, <5>2
      <4> QED
        BY <4>1, ExcusedStays DEF LeftAlone
    <3> QED
      BY <3>1, <3>2, <3>3
  <2>2. CASE Receive(t) \/ Visit(t) \/ Checkout(t) \/ Revoke(t)
    BY <2>2, ReceiveIs, VisitIs, CheckoutIs, RevokeIs
  <2>3. CASE Transmit(t)
    BY <1>4, <2>3, TransmitIs DEF SameCall, Busy
  <2>4. CASE ApplyEvent(t)
    BY <1>4, <2>4, ApplyEventIs DEF SameCall, Busy
  <2>5. CASE CommitEvents(t)
    BY <2>5, CommitEventsIs
  <2>6. CASE FinishSend(t) \/ FinishVisit(t) \/ FinishCheckout(t) \/ FinishRevoke(t)
    BY <2>6, FinishSendIs, FinishVisitIs, FinishCheckoutIs, FinishRevokeIs
  <2>7. CASE RejectEvents(t) \/ TellWorkflow(t) \/ Crash(t)
    BY <2>7, EndsAre
  <2> QED
    BY <1>4, <2>1, <2>2, <2>3, <2>4, <2>5, <2>6, <2>7 DEF Step
<1> QED
  BY <1>1, <1>2, <1>3, <1>4 DEF Next, Environment

LEMMA NextLeftAlone == Typed /\ LeftAlone /\ [Next]_vars => LeftAlone'
<1> SUFFICES ASSUME Typed, LeftAlone, [Next]_vars PROVE LeftAlone'
  OBVIOUS
<1>1. CASE UNCHANGED vars
  BY <1>1 DEF vars, LeftAlone, Excused
<1>2. CASE Next
  <2>1. \A t \in Threads : th'[t] # Idle /\ th'[t].late => Excused'
    BY <1>2, NobodyLate
  <2>2. asked' /\ ~Excused' => acct'.optout
    <3>1. CASE \E t \in Threads : CommitEvents(t)
      <4>1. PICK t \in Threads : CommitEvents(t)
        BY <3>1
      <4>2. acct'.optout = (acct.optout \/ Complained(t))
        <5>1. acct' = [acct EXCEPT !.optout = @ \/ Complained(t)]
          BY <4>1 DEF CommitEvents
        <5> QED
          BY <5>1 DEF Typed, TypeOK
      <4>3. asked' = (asked \/ Complained(t))
        BY <4>1 DEF CommitEvents, Complained
      <4> QED
        BY <1>2, <4>2, <4>3, ExcusedStays DEF LeftAlone
    <3>2. CASE StopByText
      BY <3>2 DEF StopByText, Typed, TypeOK
    <3>3. CASE Reimport
      BY <3>3 DEF Reimport, GoWrong, Excused, Typed, TypeOK
    <3>4. CASE asked' = asked /\ acct'.optout = acct.optout
      BY <1>2, <3>4, ExcusedStays DEF LeftAlone
    <3>5. ASSUME NEW t \in Threads, FinishCheckout(t)
          PROVE  asked' = asked /\ acct'.optout = acct.optout
      BY <3>5 DEF FinishCheckout, Typed, TypeOK
    <3>6. CASE \E t \in Threads : Step(t)
      <4>1. PICK t \in Threads : Step(t)
        BY <3>6
      <4>2. ASSUME ~CommitEvents(t) PROVE asked' = asked /\ acct'.optout = acct.optout
        <5>1. CASE RequestSend(t) \/ Transmit(t) \/ FinishSend(t)
          BY <5>1 DEF RequestSend, RefuseSend, PrepareSend, Transmit, FinishSend
        <5>2. CASE Receive(t) \/ ApplyEvent(t) \/ RejectEvents(t) \/ TellWorkflow(t) \/ Crash(t)
          BY <5>2 DEF Receive, ApplyEvent, RejectEvents, TellWorkflow, Crash
        <5>3. CASE Visit(t) \/ FinishVisit(t) \/ Checkout(t)
          BY <5>3 DEF Visit, FinishVisit, Checkout
        <5>4. CASE Revoke(t) \/ FinishRevoke(t)
          BY <5>4 DEF Revoke, FinishRevoke
        <5> QED
          BY <3>5, <4>1, <4>2, <5>1, <5>2, <5>3, <5>4 DEF Step
      <4> QED
        BY <3>1, <3>4, <4>1, <4>2
    <3>7. CASE Report \/ ReceiveUnmatched \/ LinkFallsDue
      BY <3>4, <3>7 DEF Report, ReceiveUnmatched, LinkFallsDue
    <3> QED
      BY <1>2, <3>2, <3>3, <3>6, <3>7 DEF Next
  <2>3. against' # {} => Excused'
    <3>1. CASE \E t \in Threads : Transmit(t)
      <4>1. PICK t \in Threads : Transmit(t)
        BY <3>1
      <4>2. against' = against \/ (th[t] # Idle /\ th[t].late)
        BY <4>1 DEF Transmit, Busy
      <4> QED
        BY <1>2, <4>2, ExcusedStays DEF LeftAlone
    <3>2. CASE against' = against
      BY <1>2, <3>2, ExcusedStays DEF LeftAlone
    <3>3. CASE \E t \in Threads : Step(t)
      <4>1. PICK t \in Threads : Step(t)
        BY <3>3
      <4>2. ASSUME ~Transmit(t) PROVE against' = against
        <5>1. CASE RequestSend(t) \/ FinishSend(t)
          BY <5>1 DEF RequestSend, RefuseSend, PrepareSend, FinishSend
        <5>2. CASE Receive(t) \/ ApplyEvent(t) \/ RejectEvents(t) \/ TellWorkflow(t) \/ Crash(t)
          BY <5>2 DEF Receive, ApplyEvent, RejectEvents, TellWorkflow, Crash
        <5>3. CASE CommitEvents(t)
          BY <5>3 DEF CommitEvents
        <5>4. CASE Visit(t) \/ FinishVisit(t) \/ Checkout(t) \/ FinishCheckout(t)
          BY <5>4 DEF Visit, FinishVisit, Checkout, FinishCheckout
        <5>5. CASE Revoke(t) \/ FinishRevoke(t)
          BY <5>5 DEF Revoke, FinishRevoke
        <5> QED
          BY <4>1, <4>2, <5>1, <5>2, <5>3, <5>4, <5>5 DEF Step
      <4> QED
        BY <3>1, <3>2, <4>1, <4>2
    <3>4. CASE Environment
      BY <3>2, <3>4 DEF Environment, Report, ReceiveUnmatched, StopByText, Reimport, LinkFallsDue
    <3> QED
      BY <1>2, <3>3, <3>4 DEF Next, Environment
  <2> QED
    BY <2>1, <2>2, <2>3 DEF LeftAlone
<1> QED
  BY <1>1, <1>2

(* Nobody who complained or wrote STOP gets a message whose gate was read  *)
(* later, until a file imported again overwrites the consent, however      *)
(* requests, complaints and STOPs interleave.                              *)
THEOREM StopHonoured == Spec => []RespectsOptOut
<1>1. Init => Typed /\ LeftAlone
  <2>1. Init => LeftAlone
    BY DEF Init, LeftAlone
  <2> QED
    BY <2>1, InitTyped
<1>2. (Typed /\ LeftAlone) /\ [Next]_vars => (Typed /\ LeftAlone)'
  BY NextTyped, NextLeftAlone
<1>3. Typed /\ LeftAlone => RespectsOptOut
  BY DEF LeftAlone, Excused, RespectsOptOut
<1> QED
  BY <1>1, <1>2, <1>3, PTL DEF Spec

-----------------------------------------------------------------------------
(* Rows.  A send has a row of its own that is not committed; every other   *)
(* job works on a row that is, and so does every link.                     *)

OnRow == {"apply", "visit", "checkout"}

OwnRow(t) ==
    th[t].op = "send" =>
        /\ comm[th[t].c].status = "none"
        /\ \A u \in Threads \ {t} : Busy(u, "send") => th[u].c # th[t].c

ReadsThere(t) ==
    th[t].op \in OnRow =>
        /\ comm[th[t].c].status # "none"
        /\ th[t].was.status # "none" /\ th[t].now.status # "none"

Named == \A l \in Links : link[l].comm # 0 => comm[link[l].comm].status # "none"

There == Named /\ \A t \in Threads : th[t] # Idle => OwnRow(t) /\ ReadsThere(t)

\* What a commit does to its row.
Commits(t) == CommitEvents(t) \/ FinishVisit(t) \/ FinishCheckout(t)

LEMMA CommitIs ==
  ASSUME Typed, There, NEW t \in Threads, Commits(t)
  PROVE  /\ th[t] \in Jobs /\ th[t] # Idle /\ th[t].c \in Comms /\ th[t].op \in OnRow
         /\ comm[th[t].c] \in Row /\ th[t].was \in Row /\ th[t].now \in Row
         /\ comm' = [comm EXCEPT ![th[t].c] = Merge(t, th[t].c)]
         /\ comm'[th[t].c] = Merge(t, th[t].c)
         /\ \A c \in Comms : c # th[t].c => comm'[c] = comm[c]
         /\ comm'[th[t].c].status # "none" /\ comm'[th[t].c].key = comm[th[t].c].key
         /\ th'[t] # Idle => th'[t].op = "tell"
<1>1. th[t] \in Jobs /\ th[t] # Idle /\ th[t].c \in Comms /\ th[t].op \in OnRow
  BY CommitEventsIs, FinishVisitIs, FinishCheckoutIs DEF Commits, OnRow, CommitEvents, FinishVisit, FinishCheckout, Busy
<1>2. comm[th[t].c] \in Row /\ th[t].was \in Row /\ th[t].now \in Row
  BY <1>1 DEF Typed, TypeOK, Jobs
<1>3. comm' = [comm EXCEPT ![th[t].c] = Merge(t, th[t].c)]
  BY DEF Commits, CommitEvents, FinishVisit, FinishCheckout
<1>4. /\ comm'[th[t].c] = Merge(t, th[t].c)
      /\ \A c \in Comms : c # th[t].c => comm'[c] = comm[c]
  BY <1>1, <1>3 DEF Typed, TypeOK
<1>5. Merge(t, th[t].c).status # "none" /\ Merge(t, th[t].c).key = comm[th[t].c].key
  BY <1>1 DEF There, ReadsThere, Merge, Column
<1>6. th'[t] # Idle => th'[t].op = "tell"
  BY CommitEventsIs, FinishVisitIs, FinishCheckoutIs DEF Commits
<1> QED
  BY <1>1, <1>2, <1>3, <1>4, <1>5, <1>6

\* What a new row looks like.
Refused(t, c, k) ==
    /\ comm'[c].status # "none" /\ comm'[c].key = k
    /\ comm'[c].opens = 0 /\ comm'[c].clicks = 0
    /\ \A d \in Comms : d # c => comm'[d] = comm[d]
    /\ \A u \in Sending : th'[u] # Idle => th'[u].stale
    /\ th'[t] = Idle /\ link' = link

LEMMA RefuseSendIs ==
  ASSUME Typed, NEW t \in Threads, NEW c \in Comms, NEW k \in Keys, NEW pay \in BOOLEAN,
         th[t] = Idle, RefuseSend(c, k, pay)
  PROVE  Refused(t, c, k)
<1>1. PICK status \in {"Suppressed", "Failed"} :
        comm' = [comm EXCEPT ![c] = [NoRow EXCEPT !.status = status, !.key = k, !.pay = pay]]
  BY DEF RefuseSend
<1>2. /\ comm'[c] = [NoRow EXCEPT !.status = status, !.key = k, !.pay = pay]
      /\ \A d \in Comms : d # c => comm'[d] = comm[d]
  BY <1>1 DEF Typed, TypeOK
<1>3. ASSUME NEW u \in Sending, th'[u] # Idle PROVE th'[u].stale
  <2>1. th[u] \in Jobs /\ u \in Threads
    BY DEF Sending, Busy, Typed
  <2>2. th'[u] = [th[u] EXCEPT !.stale = TRUE]
    BY <2>1 DEF RefuseSend
  <2> QED
    BY <2>1, <2>2, MarkIs
<1>4. th'[t] = Idle
  BY DEF RefuseSend, Sending, Busy
<1>5. /\ comm'[c].status # "none" /\ comm'[c].key = k
      /\ comm'[c].opens = 0 /\ comm'[c].clicks = 0
  BY <1>2 DEF NoRow
<1>6. link' = link
  BY DEF RefuseSend
<1> QED
  BY <1>2, <1>3, <1>4, <1>5, <1>6 DEF Refused

LEMMA FinishSendRow ==
  ASSUME Typed, NEW t \in Threads, FinishSend(t)
  PROVE  /\ comm'[th[t].c].status # "none" /\ comm'[th[t].c].key = th[t].key
         /\ comm'[th[t].c].opens = 0 /\ comm'[th[t].c].clicks = 0
         /\ \A d \in Comms : d # th[t].c => comm'[d] = comm[d]
<1>1. /\ th[t].c \in Comms /\ th[t].out # "none"
  BY FinishSendIs
<1>2. comm' = [comm EXCEPT ![th[t].c] =
                [NoRow EXCEPT !.status = th[t].out, !.key = th[t].key, !.pay = th[t].pay]]
  BY DEF FinishSend
<1> QED
  BY <1>1, <1>2 DEF Typed, TypeOK, NoRow

\* The jobs of other threads stand on the same rows.
LEMMA OthersThere ==
  ASSUME Typed, There, NEW u \in Threads, Kept(u), th'[u] # Idle,
         \A c \in Comms : comm[c].status # "none" => comm'[c].status # "none",
         Busy(u, "send") => comm'[th[u].c] = comm[th[u].c],
         \A v \in Threads \ {u} : th'[v] # Idle /\ th'[v].op = "send" =>
            \/ th[v] # Idle /\ th[v].op = "send" /\ th[v].c = th'[v].c
            \/ Busy(u, "send") => th'[v].c # th[u].c
  PROVE  OwnRow(u)' /\ ReadsThere(u)'
<1>1. th[u] # Idle /\ SameJob(th[u], th'[u])
  BY DEF Kept
<1>2. OwnRow(u) /\ ReadsThere(u)
  BY <1>1 DEF There
<1>3. /\ th'[u].op = th[u].op /\ th'[u].c = th[u].c
      /\ th'[u].was = th[u].was /\ th'[u].now = th[u].now
  BY <1>1 DEF SameJob
<1>4. th[u].op # "revoke" => th[u].c \in Comms
  BY <1>1 DEF Typed
<1>5. OwnRow(u)'
  BY <1>1, <1>2, <1>3 DEF OwnRow, Busy
<1>6. ReadsThere(u)'
  BY <1>2, <1>3, <1>4 DEF ReadsThere, OnRow
<1> QED
  BY <1>5, <1>6

LEMMA LinksNamed ==
  ASSUME Typed, There, NEW t \in Threads, NEW new, WriteLinks(t, new),
         \A c \in Comms : comm[c].status # "none" => comm'[c].status # "none",
         \A l \in Links : new[l].comm = 0 \/ (new[l].comm \in Comms /\ comm'[new[l].comm].status # "none")
  PROVE  Named'
<1> SUFFICES ASSUME NEW l \in Links, link'[l].comm # 0
             PROVE  comm'[link'[l].comm].status # "none"
  BY DEF Named
<1>1. link'[l].comm = IF link[l].comm = 0 THEN new[l].comm ELSE link[l].comm
  BY DEF WriteLinks
<1>2. link[l].comm \in Comms \union {0}
  BY DEF Typed, TypeOK
<1>3. link[l].comm # 0 => comm[link[l].comm].status # "none"
  BY DEF There, Named
<1> QED
  BY <1>1, <1>2, <1>3

LEMMA StepThere ==
  ASSUME Typed, There, NEW t \in Threads, Step(t)
  PROVE  /\ There'
         /\ \A c \in Comms : comm[c].status # "none" =>
                               comm'[c].status # "none" /\ comm'[c].key = comm[c].key
<1>0. \A u \in Threads \ {t} : Kept(u)
  BY StepTyped
<1>1. CASE RequestSend(t)
  <2>1. PICK c \in Comms, k \in Keys, pay \in BOOLEAN :
          /\ FreshComm(c)
          /\ RefuseSend(c, k, pay) \/ PrepareSend(t, c, k, pay)
    BY <1>1 DEF RequestSend
  <2>2. CASE RefuseSend(c, k, pay)
    <3>1. Refused(t, c, k)
      BY <1>1, <2>2, RefuseSendIs DEF RequestSend
    <3>2. \A d \in Comms : comm[d].status # "none" =>
                             comm'[d].status # "none" /\ comm'[d].key = comm[d].key
      BY <2>1, <3>1 DEF FreshComm, Refused
    <3>3. ASSUME NEW u \in Threads, th'[u] # Idle PROVE OwnRow(u)' /\ ReadsThere(u)'
      <4>1. u # t /\ Kept(u)
        BY <1>0, <3>1, <3>3 DEF Refused
      <4>2. Busy(u, "send") => th[u].c # c /\ th[u].c \in Comms
        BY <2>1 DEF FreshComm, Busy, Typed
      <4>3. \A v \in Threads : th'[v] # Idle => th[v] # Idle /\ th[v].op = th'[v].op /\ th[v].c = th'[v].c
        BY <1>0, <3>1 DEF Kept, SameJob, Refused
      <4> QED
        BY <3>1, <3>2, <3>3, <4>1, <4>2, <4>3, OthersThere DEF Refused
    <3>4. Named'
      <4> SUFFICES ASSUME NEW l \in Links, link'[l].comm # 0 PROVE comm'[link'[l].comm].status # "none"
        BY DEF Named
      <4>1. link' = link /\ link[l].comm \in Comms \union {0}
        BY <3>1 DEF Refused, Typed, TypeOK
      <4> QED
        BY <3>2, <4>1 DEF There, Named
    <3> QED
      BY <3>2, <3>3, <3>4 DEF There
  <2>3. CASE PrepareSend(t, c, k, pay)
    <3>1. Prepared(t, c, k, pay)
      BY <2>3, PrepareSendIs
    <3>2. comm' = comm /\ link' = link
      BY <2>3 DEF PrepareSend
    <3>3. th'[t].op = "send" /\ th'[t].c = c
      BY <3>1 DEF Prepared
    <3>4. ASSUME NEW u \in Threads \ {t}, th'[u] # Idle PROVE OwnRow(u)' /\ ReadsThere(u)'
      <4>1. Busy(u, "send") => th[u].c # c
        BY <2>1 DEF FreshComm
      <4>2. \A v \in Threads \ {u} : th'[v] # Idle =>
              \/ v = t
              \/ th[v] # Idle /\ th[v].op = th'[v].op /\ th[v].c = th'[v].c
        BY <1>0 DEF Kept, SameJob
      <4> QED
        BY <1>0, <3>2, <3>3, <3>4, <4>1, <4>2, OthersThere
    <3>5. OwnRow(t)' /\ ReadsThere(t)'
      <4>1. \A u \in Threads \ {t} : Busy(u, "send")' => Busy(u, "send") /\ th'[u].c = th[u].c
        BY <1>0 DEF Kept, SameJob, Busy
      <4>2. ReadsThere(t)'
        BY <3>3 DEF ReadsThere, OnRow
      <4>3. OwnRow(t)'
        BY <2>1, <3>2, <3>3, <4>1 DEF OwnRow, FreshComm
      <4> QED
        BY <4>2, <4>3
    <3> QED
      BY <3>2, <3>4, <3>5 DEF There, Named
  <2> QED
    BY <2>1, <2>2, <2>3
<1>2. ASSUME comm' = comm, Named', th'[t] # Idle => th'[t].op # "send" \/ (Busy(t, "send") /\ th'[t].c = th[t].c),
             th'[t] # Idle => ReadsThere(t)'
      PROVE  There'
  <2>1. \A v \in Threads : th'[v] # Idle /\ th'[v].op = "send" =>
          th[v] # Idle /\ th[v].op = "send" /\ th[v].c = th'[v].c
    BY <1>0, <1>2 DEF Kept, SameJob, Busy
  <2>2. ASSUME NEW u \in Threads \ {t}, th'[u] # Idle PROVE OwnRow(u)' /\ ReadsThere(u)'
    BY <1>0, <1>2, <2>1, <2>2, OthersThere
  <2>3. th'[t] # Idle => OwnRow(t)'
    BY <1>2, <2>1 DEF There, OwnRow, Busy
  <2> QED
    BY <1>2, <2>2, <2>3 DEF There
<1>3. CASE Receive(t) \/ Visit(t) \/ Checkout(t) \/ Revoke(t)
  <2>1. comm' = comm /\ link' = link
    BY <1>3 DEF Receive, Visit, Checkout, Revoke
  <2>2. ASSUME NEW l \in Links, link[l].comm \in Comms
        PROVE  comm[link[l].comm].status # "none" /\ comm[link[l].comm] \in Row
    BY <2>2 DEF There, Named, Typed, TypeOK
  <2>3. th'[t].op # "send" /\ ReadsThere(t)'
    <3>1. CASE Receive(t)
      BY <3>1, <2>1, ReceiveIs DEF ReadsThere
    <3>2. CASE Visit(t)
      <4>1. PICK l \in Links :
              /\ link[l].comm \in Comms /\ th'[t].op = "visit" /\ th'[t].c = link[l].comm
              /\ th'[t].was = comm[link[l].comm]
              /\ th'[t].now = Visited(comm[link[l].comm], link[l].comm)
        BY <3>2, VisitIs
      <4> DEFINE c == link[l].comm
      <4>2. Visited(comm[c], c).status \in {comm[c].status, "Clicked"} /\ comm[c].status # "none"
        BY <4>1, <2>2, VisitedIs
      <4> QED
        BY <4>1, <4>2, <2>1 DEF ReadsThere
    <3>3. CASE Checkout(t)
      <4>1. PICK l \in Links, event \in Payment :
              LET c == link[l].comm IN
              /\ c \in Comms /\ th'[t].op = "checkout" /\ th'[t].c = c
              /\ th'[t].was = comm[c]
              /\ th'[t].now = Paid(comm[c], event, Note(c, event))
        BY <3>3, CheckoutIs
      <4> DEFINE c == link[l].comm
      <4>2. Paid(comm[c], event, Note(c, event)).status = comm[c].status /\ comm[c].status # "none"
        <5>1. Note(c, event) \in Label /\ comm[c] \in Row /\ comm[c].status # "none"
          BY <4>1, <2>2, RowTypes
        <5> HIDE DEF c
        <5> QED
          BY <5>1, PaidIs
      <4> QED
        BY <4>1, <4>2, <2>1 DEF ReadsThere
    <3>4. CASE Revoke(t)
      BY <3>4, RevokeIs DEF ReadsThere, OnRow
    <3> QED
      BY <1>3, <3>1, <3>2, <3>3, <3>4
  <2>4. Named'
    BY <2>1 DEF There, Named
  <2>5. There'
    BY <1>2, <2>1, <2>3, <2>4
  <2> QED
    BY <2>1, <2>5
<1>4. CASE Transmit(t)
  <2>1. /\ comm' = comm /\ link' = link /\ Busy(t, "send") /\ SameCall(th[t], th'[t])
    BY <1>4, TransmitIs DEF Transmit
  <2>2. th'[t].op = "send" /\ th'[t].c = th[t].c
    BY <2>1 DEF SameCall, Busy
  <2>3. ReadsThere(t)'
    BY <2>2 DEF ReadsThere, OnRow
  <2> QED
    BY <1>2, <2>1, <2>2, <2>3 DEF There, Named
<1>5. CASE ApplyEvent(t)
  <2> DEFINE e == Head(th[t].todo)
  <2>1. /\ comm' = comm /\ link' = link /\ Busy(t, "apply") /\ SameCall(th[t], th'[t])
        /\ e \in Event /\ th[t] \in Jobs
        /\ th'[t].now = th[t].now \/ th'[t].now = Applied(th[t].now, e)
    BY <1>5, ApplyEventIs DEF ApplyEvent
  <2>2. /\ th'[t].op = "apply" /\ th'[t].c = th[t].c /\ th'[t].was = th[t].was
        /\ th[t] # Idle /\ th[t].op = "apply"
    BY <2>1 DEF SameCall, Busy
  <2>3. th[t].now \in Row /\ ReadsThere(t)
    BY <2>1, <2>2 DEF Jobs, There
  <2>4. Applied(th[t].now, e).status # "none"
    BY <2>1, <2>2, <2>3, AppliedIs DEF ReadsThere, OnRow
  <2> HIDE DEF e
  <2>5. ReadsThere(t)'
    BY <2>1, <2>2, <2>3, <2>4 DEF ReadsThere, OnRow
  <2> QED
    BY <1>2, <2>1, <2>2, <2>5 DEF There, Named
<1>6. CASE FinishSend(t)
  <2>1. /\ th[t].c \in Comms /\ th[t].op = "send" /\ th[t] # Idle /\ th'[t] = Idle
    BY <1>6, FinishSendIs DEF FinishSend, Busy
  <2>2. comm[th[t].c].status = "none" /\ \A u \in Threads \ {t} : Busy(u, "send") => th[u].c # th[t].c
    BY <2>1 DEF There, OwnRow
  <2>3. /\ comm'[th[t].c].status # "none"
        /\ \A d \in Comms : d # th[t].c => comm'[d] = comm[d]
    BY <1>6, FinishSendRow
  <2>4. \A d \in Comms : comm[d].status # "none" =>
                           comm'[d].status # "none" /\ comm'[d].key = comm[d].key
    BY <2>2, <2>3
  <2>5. ASSUME NEW u \in Threads, th'[u] # Idle PROVE OwnRow(u)' /\ ReadsThere(u)'
    <3>1. u # t /\ Kept(u)
      BY <1>0, <2>1, <2>5
    <3>2. Busy(u, "send") => th[u].c # th[t].c /\ th[u].c \in Comms
      BY <2>2, <3>1 DEF Busy, Typed
    <3>3. \A v \in Threads : th'[v] # Idle => th[v] # Idle /\ th[v].op = th'[v].op /\ th[v].c = th'[v].c
      BY <1>0, <2>1 DEF Kept, SameJob
    <3> QED
      BY <2>3, <2>4, <2>5, <3>1, <3>2, <3>3, OthersThere
  <2>6. Named'
    <3>1. \A l \in Links : LinksOf(th[t])[l].comm = 0 \/ LinksOf(th[t])[l].comm = th[t].c
      BY DEF LinksOf
    <3>2. WriteLinks(t, LinksOf(th[t]))
      BY <1>6 DEF FinishSend
    <3> QED
      BY <2>1, <2>3, <2>4, <3>1, <3>2, LinksNamed
  <2> QED
    BY <2>4, <2>5, <2>6 DEF There
<1>7. CASE Commits(t)
  <2>1. /\ th[t] # Idle /\ th[t].c \in Comms /\ th[t].op \in OnRow
        /\ \A c \in Comms : c # th[t].c => comm'[c] = comm[c]
        /\ comm'[th[t].c].status # "none" /\ comm'[th[t].c].key = comm[th[t].c].key
        /\ th'[t] # Idle => th'[t].op = "tell"
    BY <1>7, CommitIs
  <2>2. \A d \in Comms : comm[d].status # "none" =>
                           comm'[d].status # "none" /\ comm'[d].key = comm[d].key
    BY <2>1
  <2>3. ASSUME NEW u \in Threads, th'[u] # Idle PROVE OwnRow(u)' /\ ReadsThere(u)'
    <3>1. CASE u = t
      BY <2>1, <2>3, <3>1 DEF OwnRow, ReadsThere, OnRow
    <3>2. CASE u # t
      <4>1. Busy(u, "send") => th[u].c # th[t].c /\ th[u].c \in Comms
        BY <2>1 DEF Busy, Typed, There, OwnRow, ReadsThere
      <4>2. \A v \in Threads \ {u} : th'[v] # Idle /\ th'[v].op = "send" =>
              th[v] # Idle /\ th[v].op = "send" /\ th[v].c = th'[v].c
        BY <1>0, <2>1 DEF Kept, SameJob
      <4> QED
        BY <1>0, <2>1, <2>2, <2>3, <3>2, <4>1, <4>2, OthersThere
    <3> QED
      BY <3>1, <3>2
  <2>4. Named'
    <3>1. CASE CommitEvents(t)
      BY <2>2, <3>1 DEF CommitEvents, There, Named, Typed, TypeOK
    <3>2. CASE FinishVisit(t)
      <4> DEFINE new == [k \in Links |->
            [status |-> IF k = th[t].l /\ th[t].read[th[t].l] = "Active" /\ th[t].l \in due
                        THEN "Expired" ELSE th[t].read[k],
             comm |-> 0]]
      <4>1. WriteLinks(t, new) /\ \A l \in Links : new[l].comm = 0
        BY <3>2 DEF FinishVisit
      <4> HIDE DEF new
      <4> QED
        BY <2>2, <4>1, LinksNamed
    <3>3. CASE FinishCheckout(t)
      <4> DEFINE new == [k \in Links |->
            [status |-> IF th[t].full /\ k \in CompletedLinks(th[t]) THEN "Completed" ELSE th[t].read[k],
             comm |-> 0]]
      <4>1. WriteLinks(t, new) /\ \A l \in Links : new[l].comm = 0
        BY <3>3 DEF FinishCheckout
      <4> HIDE DEF new
      <4> QED
        BY <2>2, <4>1, LinksNamed
    <3> QED
      BY <1>7, <3>1, <3>2, <3>3 DEF Commits
  <2> QED
    BY <2>2, <2>3, <2>4 DEF There
<1>8. CASE FinishRevoke(t)
  <2>1. comm' = comm /\ th'[t] = Idle
    BY <1>8, FinishRevokeIs DEF FinishRevoke
  <2> DEFINE new == [k \in Links |->
            [status |-> IF k = th[t].l THEN "Revoked" ELSE th[t].read[k], comm |-> 0]]
  <2>2. WriteLinks(t, new) /\ \A l \in Links : new[l].comm = 0
    BY <1>8 DEF FinishRevoke
  <2> HIDE DEF new
  <2>3. Named'
    BY <2>1, <2>2, LinksNamed
  <2> QED
    BY <1>2, <2>1, <2>3
<1>9. CASE RejectEvents(t) \/ TellWorkflow(t) \/ Crash(t)
  <2>1. comm' = comm /\ link' = link /\ th'[t] = Idle
    BY <1>9, EndsAre DEF RejectEvents, TellWorkflow, Crash
  <2> QED
    BY <1>2, <2>1 DEF There, Named
<1> QED
  BY <1>1, <1>3, <1>4, <1>5, <1>6, <1>7, <1>8, <1>9 DEF Step, Commits

LEMMA EnvironmentIs ==
  ASSUME Typed, Environment
  PROVE  th' = th /\ comm' = comm /\ link' = link /\ seen' = seen /\ due \subseteq due'
         /\ told' = told /\ visits' = visits /\ lost' = lost /\ acct'.closed = acct.closed
<1>1. CASE Report \/ ReceiveUnmatched \/ LinkFallsDue
  BY <1>1 DEF Report, ReceiveUnmatched, LinkFallsDue
<1>2. CASE StopByText \/ Reimport
  BY <1>2 DEF StopByText, Reimport, Typed, TypeOK
<1> QED
  BY <1>1, <1>2 DEF Environment

LEMMA NextThere ==
  ASSUME Typed, There, [Next]_vars
  PROVE  /\ There'
         /\ \A c \in Comms : comm[c].status # "none" =>
                               comm'[c].status # "none" /\ comm'[c].key = comm[c].key
<1>1. CASE \E t \in Threads : Step(t)
  BY <1>1, StepThere
<1>2. ASSUME th' = th /\ comm' = comm /\ link' = link
      PROVE  There'
  BY <1>2 DEF There, Named, OwnRow, ReadsThere, Busy
<1>3. CASE Environment
  BY <1>2, <1>3, EnvironmentIs
<1>4. CASE UNCHANGED vars
  BY <1>2, <1>4 DEF vars
<1> QED
  BY <1>1, <1>3, <1>4 DEF Next, Environment

LEMMA InitThere == Init => There
<1> SUFFICES ASSUME Init PROVE There
  OBVIOUS
<1> QED
  BY DEF Init, There, Named, NoLink

-----------------------------------------------------------------------------
(* Requests.  Nothing answers the request of a send that looked, unless    *)
(* somebody answered it since, and two answers are so explained.           *)

NotAnswered(t) ==
    th[t].op = "send" /\ th[t].key # NoKey /\ ~th[t].stale => Existing(th[t].key) = {}

SameKey(c, d) ==
    /\ c # d /\ comm[c].status # "none" /\ comm[d].status # "none"
    /\ comm[c].key = comm[d].key /\ comm[c].key # NoKey

Answered ==
    /\ \A t \in Threads : th[t] # Idle => NotAnswered(t)
    /\ \A c, d \in Comms : SameKey(c, d) => {c, d} \cap lost.twice # {}

\* No row is new, or the one of a request that looked for its key is.
LEMMA RowsAnswer ==
  ASSUME Typed, There, Answered, Next
  PROVE  /\ lost.twice \subseteq lost'.twice
         /\ \/ \A d \in Comms : comm'[d].status # "none" => comm[d].status # "none"
            \/ \E c \in Comms :
                 /\ \A d \in Comms \ {c} : comm'[d] = comm[d]
                 /\ c \in lost'.twice \/ comm'[c].key = NoKey \/ Existing(comm'[c].key) = {}
                 /\ \A u \in Sending : th'[u] # Idle => th'[u].stale
<1>1. CASE Environment
  BY <1>1, EnvironmentIs
<1>2. ASSUME NEW t \in Threads, RequestSend(t)
      PROVE  /\ lost' = lost
             /\ \/ comm' = comm
                \/ \E c \in Comms :
                     /\ \A d \in Comms \ {c} : comm'[d] = comm[d]
                     /\ comm'[c].key = NoKey \/ Existing(comm'[c].key) = {}
                     /\ \A u \in Sending : th'[u] # Idle => th'[u].stale
  <2>1. PICK c \in Comms, k \in Keys, pay \in BOOLEAN :
          /\ Asked(k)
          /\ RefuseSend(c, k, pay) \/ PrepareSend(t, c, k, pay)
    BY <1>2 DEF RequestSend
  <2>2. CASE RefuseSend(c, k, pay)
    <3>1. Refused(t, c, k)
      BY <1>2, <2>2, RefuseSendIs DEF RequestSend
    <3>2. k = NoKey \/ Existing(k) = {}
      BY <2>1 DEF Asked
    <3> QED
      BY <2>2, <3>1, <3>2 DEF Refused, RefuseSend
  <2>3. CASE PrepareSend(t, c, k, pay)
    BY <2>3 DEF PrepareSend
  <2> QED
    BY <2>1, <2>2, <2>3
<1>3. ASSUME NEW t \in Threads, FinishSend(t)
      PROVE  /\ lost.twice \subseteq lost'.twice
             /\ \E c \in Comms :
                  /\ \A d \in Comms \ {c} : comm'[d] = comm[d]
                  /\ c \in lost'.twice \/ comm'[c].key = NoKey \/ Existing(comm'[c].key) = {}
                  /\ \A u \in Sending : th'[u] # Idle => th'[u].stale
  <2>1. /\ th[t].c \in Comms /\ th[t].op = "send" /\ th[t] # Idle
        /\ \A u \in Sending : th'[u] # Idle => th'[u].stale
    BY <1>3, FinishSendIs DEF FinishSend, Busy
  <2>2. /\ comm'[th[t].c].key = th[t].key
        /\ \A d \in Comms : d # th[t].c => comm'[d] = comm[d]
    BY <1>3, FinishSendRow
  <2>3. lost'.twice = lost.twice \union (IF th[t].stale THEN {th[t].c} ELSE {})
    BY <1>3 DEF FinishSend, Typed, TypeOK
  <2>4. NotAnswered(t)
    BY <2>1 DEF Answered
  <2>5. th[t].c \in lost'.twice \/ th[t].key = NoKey \/ Existing(th[t].key) = {}
    BY <2>1, <2>3, <2>4 DEF NotAnswered
  <2> QED
    BY <2>1, <2>2, <2>3, <2>5
<1>4. ASSUME NEW t \in Threads, Commits(t)
      PROVE  /\ lost'.twice = lost.twice
             /\ \A d \in Comms : comm'[d].status # "none" => comm[d].status # "none"
  <2>1. lost'.twice = lost.twice
    BY <1>4 DEF Commits, CommitEvents, FinishVisit, FinishCheckout, Typed, TypeOK
  <2>2. \A c \in Comms : c # th[t].c => comm'[c] = comm[c]
    BY <1>4, CommitIs
  <2>3. comm[th[t].c].status # "none"
    BY <1>4, CommitIs DEF There, ReadsThere
  <2> QED
    BY <2>1, <2>2, <2>3
<1>5. ASSUME NEW t \in Threads, Step(t), ~RequestSend(t), ~FinishSend(t), ~Commits(t)
      PROVE  lost'.twice = lost.twice /\ comm' = comm
  BY <1>5 DEF Step, Commits, Transmit, Receive, ApplyEvent, RejectEvents, TellWorkflow, Visit, Checkout,
       Revoke, FinishRevoke, Crash, Typed, TypeOK
<1> QED
  BY <1>1, <1>2, <1>3, <1>4, <1>5 DEF Next, Environment

LEMMA NextAnswered ==
  ASSUME Typed, There, Answered, [Next]_vars
  PROVE  Answered'
<1>1. CASE UNCHANGED vars
  BY <1>1 DEF vars, Answered, NotAnswered, Existing, SameKey
<1>2. CASE Next
  <2>1. \A c \in Comms : comm[c].status # "none" => comm'[c].status # "none" /\ comm'[c].key = comm[c].key
    BY NextThere
  <2>2. lost.twice \subseteq lost'.twice
    BY <1>2, RowsAnswer
  <2>3. CASE \A d \in Comms : comm'[d].status # "none" => comm[d].status # "none"
    <3>1. \A k : Existing(k)' = Existing(k)
      BY <2>1, <2>3 DEF Existing
    <3>2. ASSUME NEW t \in Threads, th'[t] # Idle PROVE NotAnswered(t)'
      <4>1. CASE th[t] # Idle /\ NotAnswered(t) /\ SameJob(th[t], th'[t])
        BY <3>1, <4>1 DEF NotAnswered, SameJob
      <4>2. CASE \E u \in Threads \ {t} : Step(u)
        BY <3>2, <4>1, <4>2, StepTyped DEF Kept, Answered
      <4>3. CASE Environment
        BY <3>1, <3>2, <4>3, EnvironmentIs DEF Answered, NotAnswered
      <4>4. CASE RequestSend(t)
        <5>1. PICK c \in Comms, k \in Keys, pay \in BOOLEAN :
                /\ Asked(k)
                /\ RefuseSend(c, k, pay) \/ PrepareSend(t, c, k, pay)
          BY <4>4 DEF RequestSend
        <5>2. CASE RefuseSend(c, k, pay)
          BY <3>2, <4>4, <5>2, RefuseSendIs DEF Refused, RequestSend
        <5>3. CASE PrepareSend(t, c, k, pay)
          <6>1. th'[t].key = k
            BY <5>3, PrepareSendIs DEF Prepared
          <6>2. k = NoKey \/ Existing(k) = {}
            BY <5>1 DEF Asked
          <6> QED
            BY <3>1, <6>1, <6>2 DEF NotAnswered
        <5> QED
          BY <5>1, <5>2, <5>3
      <4>5. CASE Transmit(t)
        BY <3>1, <4>5, TransmitIs DEF SameCall, Answered, NotAnswered, Busy
      <4>6. CASE ApplyEvent(t)
        <5>1. th'[t].op = "apply"
          BY <4>6, ApplyEventIs DEF SameCall, Busy
        <5> QED
          BY <5>1 DEF NotAnswered
      <4>7. CASE Receive(t) \/ Visit(t) \/ Checkout(t) \/ Revoke(t)
        <5>1. th'[t].op # "send"
          BY <4>7, ReceiveIs, VisitIs, CheckoutIs, RevokeIs
        <5> QED
          BY <5>1 DEF NotAnswered
      <4>8. CASE FinishSend(t) \/ FinishRevoke(t) \/ RejectEvents(t) \/ TellWorkflow(t) \/ Crash(t)
        BY <3>2, <4>8, FinishSendIs, FinishRevokeIs, EndsAre
      <4>9. CASE Commits(t)
        BY <3>2, <4>9, CommitIs DEF NotAnswered
      <4> QED
        BY <1>2, <4>2, <4>3, <4>4, <4>5, <4>6, <4>7, <4>8, <4>9 DEF Next, Step, Environment, Commits
    <3>3. \A c, d \in Comms : SameKey(c, d)' => SameKey(c, d)
      BY <2>1, <2>3 DEF SameKey
    <3> QED
      BY <2>2, <3>2, <3>3 DEF Answered
  <2>4. CASE ~(\A d \in Comms : comm'[d].status # "none" => comm[d].status # "none")
    <3>1. PICK c \in Comms :
            /\ \A d \in Comms \ {c} : comm'[d] = comm[d]
            /\ c \in lost'.twice \/ comm'[c].key = NoKey \/ Existing(comm'[c].key) = {}
            /\ \A u \in Sending : th'[u] # Idle => th'[u].stale
      BY <1>2, <2>4, RowsAnswer
    <3>2. ASSUME NEW t \in Threads, th'[t] # Idle PROVE NotAnswered(t)'
      <4>1. \A u \in Threads : Step(u) => RequestSend(u) \/ FinishSend(u)
        <5> SUFFICES ASSUME NEW u \in Threads, Step(u), ~RequestSend(u), ~FinishSend(u)
                     PROVE  FALSE
          OBVIOUS
        <5>1. CASE Commits(u)
          BY <2>4, <5>1, CommitIs DEF There, ReadsThere
        <5>2. CASE ~Commits(u)
          BY <2>4, <5>2 DEF Step, Commits, Transmit, Receive, ApplyEvent, RejectEvents, TellWorkflow,
               Visit, Checkout, Revoke, FinishRevoke, Crash
        <5> QED
          BY <5>1, <5>2
      <4>2. PICK u \in Threads : RequestSend(u) \/ FinishSend(u)
        BY <1>2, <2>4, <4>1, EnvironmentIs DEF Next, Environment
      <4>3. th[t] # Idle /\ SameJob(th[t], th'[t])
        <5>1. CASE t # u
          BY <3>2, <4>2, <5>1, StepTyped DEF Kept, Step
        <5>2. CASE t = u /\ FinishSend(u)
          BY <3>2, <5>2, FinishSendIs
        <5>3. CASE t = u /\ RequestSend(u)
          <6>1. PICK d \in Comms, k \in Keys, pay \in BOOLEAN : RefuseSend(d, k, pay)
            BY <2>4, <5>3 DEF RequestSend, PrepareSend
          <6>2. th[u] = Idle
            BY <5>3 DEF RequestSend
          <6>3. Refused(u, d, k)
            BY <6>1, <6>2, RefuseSendIs
          <6>4. th'[u] = Idle
            BY <6>3 DEF Refused
          <6> QED
            BY <3>2, <5>3, <6>4
        <5> QED
          BY <4>2, <5>1, <5>2, <5>3
      <4>4. th'[t].op = "send" => th'[t].stale
        BY <3>1, <3>2, <4>3 DEF SameJob, Sending, Busy
      <4> QED
        BY <4>4 DEF NotAnswered
    <3>3. ASSUME NEW a \in Comms, NEW b \in Comms, SameKey(a, b)'
          PROVE  {a, b} \cap lost'.twice # {}
      <4>1. CASE a # c /\ b # c
        <5>1. SameKey(a, b)
          BY <3>1, <3>3, <4>1 DEF SameKey
        <5> QED
          BY <2>2, <5>1 DEF Answered
      <4>2. CASE a = c /\ b # c
        <5>1. b \in Existing(comm'[c].key)
          BY <3>1, <3>3, <4>2 DEF SameKey, Existing
        <5>2. comm'[c].key # NoKey
          BY <3>3, <4>2 DEF SameKey
        <5> QED
          BY <3>1, <4>2, <5>1, <5>2
      <4>3. CASE b = c /\ a # c
        <5>1. a \in Existing(comm'[c].key)
          BY <3>1, <3>3, <4>3 DEF SameKey, Existing
        <5>2. comm'[c].key # NoKey
          BY <3>3, <4>3 DEF SameKey
        <5> QED
          BY <3>1, <4>3, <5>1, <5>2
      <4> QED
        BY <3>3, <4>1, <4>2, <4>3 DEF SameKey
    <3> QED
      BY <3>2, <3>3 DEF Answered
  <2> QED
    BY <2>3, <2>4
<1> QED
  BY <1>1, <1>2

(* Two messages answer one request only if their requests overlapped, or a *)
(* process died between the answer of the provider and the commit, however *)
(* many requests are made.                                                 *)
THEOREM OneMessagePerRequest == Spec => []SentOnce
<1>1. Init => Typed /\ There /\ Answered
  <2>1. Init => Answered
    BY DEF Init, Answered, SameKey, NoRow
  <2> QED
    BY <2>1, InitTyped, InitThere
<1>2. (Typed /\ There /\ Answered) /\ [Next]_vars => (Typed /\ There /\ Answered)'
  BY NextTyped, NextThere, NextAnswered
<1>3. Answered => SentOnce
  BY DEF Answered, SameKey, SentOnce
<1> QED
  BY <1>1, <1>2, <1>3, PTL DEF Spec

-----------------------------------------------------------------------------
(* What the rows tell.  A job writes what it read, moved forward by what   *)
(* it applies; unless its read was superseded the row is still as it read  *)
(* it, and the row a visit read always is.                                 *)

OpensIn(S) == {e \in S : e.type = "open"}
OpensOf(S, c) == {e \in S : e.c = c /\ e.type = "open"}
RecordedOf(c) == {e \in seen : e.c = c}

ReadsRow(t) ==
    th[t].op \in OnRow /\ (th[t].op = "visit" \/ ~th[t].stale) => th[t].was = comm[th[t].c]

Alone(t) ==
    th[t].op = "visit" =>
        \A u \in Threads \ {t} : Busy(u, "visit") => th[u].c # th[t].c

Forward(t) ==
    th[t].op \in OnRow =>
        /\ Rank[th[t].was.status] <= Rank[th[t].now.status]
        /\ th[t].was.log \subseteq th[t].now.log

Counts(t) ==
    /\ th[t].op = "visit" =>
         /\ th[t].now.clicks = th[t].was.clicks + 1 /\ th[t].now.opens = th[t].was.opens
         /\ th[t].now.status \in {th[t].was.status, "Clicked"}
    /\ th[t].op = "checkout" =>
         /\ th[t].now.clicks = th[t].was.clicks /\ th[t].now.opens = th[t].was.opens
         /\ th[t].now.status = th[t].was.status
    /\ th[t].op = "apply" => th[t].now.clicks = th[t].was.clicks

Applies(t) ==
    th[t].op = "apply" =>
        /\ IsFiniteSet(th[t].got)
        /\ th[t].got = {} => th[t].now = th[t].was
        /\ th[t].got \subseteq th[t].now.log
        /\ th[t].now.opens = th[t].was.opens + Cardinality(OpensIn(th[t].got))
        /\ th[t].was.opens <= Cardinality(EventsOf(th[t].c, "open"))

RowJob(t) == ReadsRow(t) /\ Alone(t) /\ Forward(t) /\ Counts(t) /\ Applies(t)

\* A row that is not there has no history.
Blank(c) == comm[c].status = "none" => visits[c] = 0 /\ RecordedOf(c) = {}

Counted(c) ==
    /\ comm[c].opens <= Cardinality(EventsOf(c, "open"))
    /\ comm[c].opens < Cardinality(EventsOf(c, "open")) => c \in lost.comm
    /\ comm[c].clicks = visits[c]
    /\ c \notin lost.comm => RecordedOf(c) \subseteq comm[c].log

Informed(c) ==
    c \notin lost.comm \union lost.untold /\ RecordedOf(c) # {} =>
        \/ comm[c].status = told[c]
        \/ visits[c] > 0 /\ comm[c].status = "Clicked"
        \/ \E t \in Threads : Busy(t, "tell") /\ th[t].c = c

RowOK(c) == Blank(c) /\ Counted(c) /\ Informed(c)

RowsTell ==
    /\ IsFiniteSet(seen)
    /\ \A t \in Threads : th[t] # Idle => RowJob(t)
    /\ \A c \in Comms : RowOK(c)

LEMMA EventsFinite ==
  ASSUME NEW S, IsFiniteSet(S), NEW T \in SUBSET S
  PROVE  /\ IsFiniteSet(T) /\ Cardinality(T) \in Nat /\ Cardinality(S) \in Nat
         /\ Cardinality(T) <= Cardinality(S)
BY FS_Subset, FS_CardinalityType

\* Events recorded together that were not recorded add up.
LEMMA EventsAdd ==
  ASSUME NEW S, NEW T, IsFiniteSet(S), IsFiniteSet(T), S \cap T = {}
  PROVE  /\ IsFiniteSet(S \union T)
         /\ Cardinality(S) \in Nat /\ Cardinality(T) \in Nat
         /\ Cardinality(S \union T) = Cardinality(S) + Cardinality(T)
<1>1. Cardinality(S \cap T) = 0
  BY FS_EmptySet
<1>2. Cardinality(S \union T) = Cardinality(S) + Cardinality(T) - Cardinality(S \cap T)
  BY FS_Union
<1>3. Cardinality(S) \in Nat /\ Cardinality(T) \in Nat /\ IsFiniteSet(S \union T)
  BY FS_Union, FS_CardinalityType
<1> QED
  BY <1>1, <1>2, <1>3

LEMMA OthersTell ==
  ASSUME Typed, There, RowsTell, NEW u \in Threads, Kept(u), th'[u] # Idle,
         seen \subseteq seen', IsFiniteSet(seen'),
         th[u] # Idle /\ th[u].op \in OnRow =>
            comm'[th[u].c] = comm[th[u].c] \/ (th'[u].stale /\ th[u].op # "visit"),
         th[u] # Idle /\ th[u].op = "visit" =>
            \A v \in Threads \ {u} : th'[v] # Idle /\ th'[v].op = "visit" =>
               \/ th[v] # Idle /\ th[v].op = "visit" /\ th[v].c = th'[v].c
               \/ th'[v].c # th[u].c
  PROVE  RowJob(u)'
<1>1. th[u] # Idle /\ SameJob(th[u], th'[u])
  BY DEF Kept
<1>2. RowJob(u)
  BY <1>1 DEF RowsTell
<1>3. /\ th'[u].op = th[u].op /\ th'[u].c = th[u].c /\ th'[u].got = th[u].got
      /\ th'[u].was = th[u].was /\ th'[u].now = th[u].now
      /\ th[u].stale => th'[u].stale
  BY <1>1 DEF SameJob
<1>4. ReadsRow(u)'
  BY <1>1, <1>2, <1>3 DEF RowJob, ReadsRow
<1>5. Alone(u)'
  BY <1>1, <1>2, <1>3 DEF RowJob, Alone, Busy
<1>6. Forward(u)' /\ Counts(u)'
  BY <1>2, <1>3 DEF RowJob, Forward, Counts
<1>7. Applies(u)'
  <2>1. CASE th[u].op = "apply"
    <3> DEFINE S == OpensOf(seen, th[u].c)
               T == OpensOf(seen', th[u].c)
    <3>1. EventsOf(th[u].c, "open") = S /\ EventsOf(th[u].c, "open")' = T
      BY <1>3 DEF EventsOf, OpensOf
    <3>2. S \subseteq T /\ T \subseteq seen'
      BY DEF OpensOf
    <3> HIDE DEF S, T
    <3>3. Cardinality(S) <= Cardinality(T) /\ Cardinality(S) \in Nat /\ Cardinality(T) \in Nat
      <4>1. IsFiniteSet(T)
        BY <3>2, EventsFinite
      <4> QED
        BY <3>2, <4>1, EventsFinite
    <3>4. th[u].was.opens \in Nat
      BY <1>1, <2>1 DEF Typed, Jobs, Row
    <3> QED
      BY <1>2, <1>3, <2>1, <3>1, <3>3, <3>4 DEF RowJob, Applies
  <2>2. CASE th[u].op # "apply"
    BY <1>3, <2>2 DEF Applies
  <2> QED
    BY <2>1, <2>2
<1> QED
  BY <1>4, <1>5, <1>6, <1>7 DEF RowJob

RowsSame == comm' = comm /\ seen' = seen /\ visits' = visits

LEMMA RowsSameTell ==
  ASSUME RowsTell, RowsSame, lost.comm \subseteq lost'.comm, NEW c \in Comms
  PROVE  Blank(c)' /\ Counted(c)'
<1>1. Blank(c) /\ Counted(c)
  BY DEF RowsTell, RowOK
<1>2. RecordedOf(c)' = RecordedOf(c) /\ EventsOf(c, "open")' = EventsOf(c, "open")
  BY DEF RowsSame, RecordedOf, EventsOf
<1> QED
  BY <1>1, <1>2 DEF Blank, Counted, RowsSame

LEMMA InformedStays ==
  ASSUME Typed, RowsTell, NEW c \in Comms,
         comm'[c].status = comm[c].status, told'[c] = told[c], RecordedOf(c)' = RecordedOf(c),
         visits[c] > 0 => visits'[c] > 0,
         lost.comm \subseteq lost'.comm, lost.untold \subseteq lost'.untold,
         \A t \in Threads : Busy(t, "tell") /\ th[t].c = c =>
            \/ th'[t] # Idle /\ th'[t].op = "tell" /\ th'[t].c = c
            \/ c \in lost'.untold
  PROVE  Informed(c)'
<1>1. Informed(c)
  BY DEF RowsTell, RowOK
<1> QED
  BY <1>1 DEF Informed, Busy

LEMMA GoesOn ==
  ASSUME Typed, There, RowsTell, NEW t \in Threads, RowsSame, told' = told,
         lost.comm \subseteq lost'.comm, lost.untold \subseteq lost'.untold,
         \A u \in Threads \ {t} : Kept(u),
         Busy(t, "tell") => th[t].c \in lost'.untold,
         th'[t] # Idle => RowJob(t)'
  PROVE  RowsTell'
<1>1. ASSUME NEW u \in Threads \ {t}, th'[u] # Idle PROVE RowJob(u)'
  <2>1. th[u] # Idle /\ th[u].op = "visit" =>
          \A v \in Threads \ {u} : th'[v] # Idle /\ th'[v].op = "visit" =>
             \/ th[v] # Idle /\ th[v].op = "visit" /\ th[v].c = th'[v].c
             \/ th'[v].c # th[u].c
    <3> SUFFICES ASSUME th[u] # Idle, th[u].op = "visit",
                        NEW v \in Threads \ {u}, th'[v] # Idle, th'[v].op = "visit"
                 PROVE  \/ th[v] # Idle /\ th[v].op = "visit" /\ th[v].c = th'[v].c
                        \/ th'[v].c # th[u].c
      OBVIOUS
    <3>1. CASE v # t
      BY <3>1 DEF Kept, SameJob
    <3>2. CASE v = t
      <4>1. th'[u] # Idle /\ th'[u].op = "visit" /\ th'[u].c = th[u].c
        BY <1>1 DEF Kept, SameJob
      <4>2. Alone(t)'
        BY <3>2 DEF RowJob
      <4>3. Busy(u, "visit")'
        BY <4>1 DEF Busy
      <4> QED
        BY <1>1, <3>2, <4>1, <4>2, <4>3 DEF Alone
    <3> QED
      BY <3>1, <3>2
  <2>2. IsFiniteSet(seen') /\ seen \subseteq seen' /\ \A c : comm'[c] = comm[c]
    BY DEF RowsSame, RowsTell
  <2> QED
    BY <1>1, <2>1, <2>2, OthersTell
<1>2. ASSUME NEW c \in Comms PROVE RowOK(c)'
  <2>1. RecordedOf(c)' = RecordedOf(c) /\ comm'[c] = comm[c] /\ visits'[c] = visits[c]
    BY DEF RecordedOf, RowsSame
  <2>2. \A u \in Threads : Busy(u, "tell") /\ th[u].c = c =>
            \/ th'[u] # Idle /\ th'[u].op = "tell" /\ th'[u].c = c
            \/ c \in lost'.untold
    BY DEF Busy, Kept, SameJob
  <2>3. Informed(c)'
    BY <2>1, <2>2, InformedStays
  <2> QED
    BY <2>3, RowsSameTell DEF RowOK
<1>3. IsFiniteSet(seen')
  BY DEF RowsSame, RowsTell
<1> QED
  BY <1>1, <1>2, <1>3 DEF RowsTell

\* A job that begins, or goes on without writing, agrees with the rows.
LEMMA StartTells ==
  ASSUME Typed, There, RowsTell, NEW t \in Threads,
         \/ Receive(t) \/ Visit(t) \/ Checkout(t) \/ Revoke(t) \/ Transmit(t) \/ ApplyEvent(t)
         \/ \E c \in Comms, k \in Keys, pay \in BOOLEAN : PrepareSend(t, c, k, pay)
  PROVE  RowsSame /\ th'[t] # Idle /\ RowJob(t)'
<1>0. RowsSame
  BY DEF RowsSame, Receive, Visit, Checkout, Revoke, Transmit, ApplyEvent, PrepareSend
<1>1. CASE Receive(t)
  <2>1. /\ Turned(t) /\ Fresh(th'[t]) /\ th'[t].op = "apply" /\ th'[t].c \in Comms
        /\ th'[t].was = comm[th'[t].c] /\ th'[t].now = comm[th'[t].c]
    BY <1>1, ReceiveIs
  <2> DEFINE c == th'[t].c
  <2>2. comm[c] \in Row /\ comm[c].status \in Status /\ comm[c].opens \in Nat /\ Counted(c)
    BY <2>1 DEF Typed, TypeOK, Row, RowsTell, RowOK
  <2>3. OpensIn({}) = {} /\ Cardinality({}) = 0 /\ IsFiniteSet({})
    BY FS_EmptySet DEF OpensIn
  <2>4. EventsOf(th[t].c, "open")' = EventsOf(c, "open")
    BY <1>0 DEF EventsOf, RowsSame
  <2>5. ReadsRow(t)' /\ Alone(t)' /\ Counts(t)'
    BY <1>0, <2>1 DEF ReadsRow, Alone, Counts, RowsSame
  <2>6. Forward(t)'
    BY <2>1, <2>2, RankIs DEF Forward
  <2>7. Applies(t)'
    <3>1. th'[t].got = {} /\ OpensIn(th'[t].got) = {}
      BY <2>1, <2>3 DEF Fresh
    <3>2. /\ th'[t].now = comm[c] /\ th'[t].was = comm[c]
          /\ comm[c].opens = comm[c].opens + 0
          /\ comm[c].opens <= Cardinality(EventsOf(c, "open"))
      BY <2>1, <2>2 DEF Counted
    <3> HIDE DEF c
    <3> QED
      BY <2>3, <2>4, <3>1, <3>2 DEF Applies
  <2> QED
    BY <1>0, <2>1, <2>5, <2>6, <2>7 DEF RowJob, Turned
<1>2. CASE Visit(t)
  <2>1. PICK l \in Links :
          /\ link[l].comm \in Comms /\ ~Locked(link[l].comm)
          /\ Turned(t) /\ th'[t].op = "visit" /\ th'[t].c = link[l].comm
          /\ th'[t].was = comm[link[l].comm]
          /\ th'[t].now = Visited(comm[link[l].comm], link[l].comm)
    BY <1>2, VisitIs
  <2> DEFINE c == link[l].comm
             new == Visited(comm[c], c)
  <2>2. comm[c] \in Row
    BY <2>1 DEF Typed, TypeOK
  <2>3. /\ new.clicks = comm[c].clicks + 1 /\ new.opens = comm[c].opens
        /\ comm[c].log \subseteq new.log
        /\ new.status \in {comm[c].status, "Clicked"} /\ Rank[comm[c].status] <= Rank[new.status]
    BY <2>1, <2>2, VisitedIs
  <2> HIDE DEF new
  <2>4. th'[t].now = new
    BY <2>1 DEF new
  <2>5. ReadsRow(t)' /\ Forward(t)' /\ Counts(t)' /\ Applies(t)'
    BY <1>0, <2>1, <2>3, <2>4 DEF ReadsRow, Forward, Counts, Applies, RowsSame
  <2>6. Alone(t)'
    <3>1. \A u \in Threads \ {t} : Busy(u, "visit")' => Busy(u, "visit") /\ th'[u].c = th[u].c
      BY <2>1 DEF Turned, Busy
    <3> QED
      BY <2>1, <3>1 DEF Alone, Locked
  <2> QED
    BY <1>0, <2>1, <2>5, <2>6 DEF RowJob, Turned
<1>3. CASE Checkout(t)
  <2>1. PICK l \in Links, event \in Payment :
           LET c == link[l].comm IN
           /\ c \in Comms /\ Turned(t) /\ th'[t].op = "checkout" /\ th'[t].c = c
           /\ th'[t].was = comm[c]
           /\ th'[t].now = Paid(comm[c], event, Note(c, event))
    BY <1>3, CheckoutIs
  <2> DEFINE c == link[l].comm
             note == Note(c, event)
             new == Paid(comm[c], event, note)
  <2>2. comm[c] \in Row /\ note \in Label
    BY <2>1, RowTypes DEF Typed, TypeOK
  <2>3. th'[t].now = new /\ th'[t].was = comm[c] /\ th'[t].c = c
    BY <2>1
  <2> HIDE DEF c, note
  <2>4. /\ new.status = comm[c].status /\ new.opens = comm[c].opens /\ new.clicks = comm[c].clicks
        /\ comm[c].log \subseteq new.log
    BY <2>2, PaidIs
  <2>5. Rank[comm[c].status] <= Rank[comm[c].status]
    BY <2>2, RankIs DEF Row
  <2> HIDE DEF new
  <2>6. RowJob(t)'
    BY <1>0, <2>1, <2>3, <2>4, <2>5 DEF RowJob, ReadsRow, Alone, Forward, Counts, Applies, RowsSame, OnRow
  <2> QED
    BY <1>0, <2>1, <2>6 DEF Turned
<1>4. CASE Revoke(t)
  <2>1. Turned(t) /\ th'[t].op = "revoke"
    BY <1>4, RevokeIs
  <2> QED
    BY <1>0, <2>1 DEF Turned, RowJob, ReadsRow, Alone, Forward, Counts, Applies, OnRow
<1>5. CASE Transmit(t)
  <2>1. Turned(t) /\ th'[t].op = "send"
    BY <1>5, TransmitIs DEF SameCall, Busy
  <2> QED
    BY <1>0, <2>1 DEF Turned, RowJob, ReadsRow, Alone, Forward, Counts, Applies, OnRow
<1>6. CASE \E c \in Comms, k \in Keys, pay \in BOOLEAN : PrepareSend(t, c, k, pay)
  <2>1. Turned(t) /\ th'[t].op = "send"
    <3>1. PICK c \in Comms, k \in Keys, pay \in BOOLEAN : PrepareSend(t, c, k, pay)
      BY <1>6
    <3>2. Prepared(t, c, k, pay)
      BY <3>1, PrepareSendIs
    <3> QED
      BY <3>2 DEF Prepared
  <2> QED
    BY <1>0, <2>1 DEF Turned, RowJob, ReadsRow, Alone, Forward, Counts, Applies, OnRow
<1>7. CASE ApplyEvent(t)
  <2> DEFINE e == Head(th[t].todo)
             new == Applied(th[t].now, e)
  <2>1. /\ th[t] \in Jobs /\ Busy(t, "apply") /\ Turned(t) /\ SameCall(th[t], th'[t])
        /\ e \in Event
        /\ \/ th'[t].got = th[t].got /\ th'[t].now = th[t].now
           \/ /\ ~Recorded(t, e)
              /\ th'[t].got = th[t].got \union {e}
              /\ th'[t].now = new
    BY <1>7, ApplyEventIs
  <2>2. /\ th'[t].op = "apply" /\ th[t].op = "apply" /\ th[t] # Idle
        /\ th'[t].c = th[t].c /\ th'[t].was = th[t].was /\ th'[t].stale = th[t].stale
    BY <2>1 DEF SameCall, Busy
  <2>3. RowJob(t) /\ th[t].now \in Row /\ th[t].was \in Row
    BY <2>1, <2>2 DEF RowsTell, Jobs
  <2>4. EventsOf(th[t].c, "open")' = EventsOf(th[t].c, "open")
    BY <1>0, <2>2 DEF EventsOf, RowsSame
  <2>5. ReadsRow(t)' /\ Alone(t)'
    BY <1>0, <2>2, <2>3 DEF RowJob, ReadsRow, Alone, RowsSame
  <2>6. CASE th'[t].got = th[t].got /\ th'[t].now = th[t].now
    BY <1>0, <2>1, <2>2, <2>3, <2>4, <2>5, <2>6 DEF RowJob, Forward, Counts, Applies, Turned
  <2>7. CASE ~Recorded(t, e) /\ th'[t].got = th[t].got \union {e} /\ th'[t].now = new
    <3>1. /\ new.clicks = th[t].now.clicks /\ new.log = th[t].now.log \union {e}
          /\ new.opens = th[t].now.opens + (IF e.type = "open" THEN 1 ELSE 0)
          /\ Rank[th[t].now.status] <= Rank[new.status] /\ new.status \in Status
      BY <2>1, <2>3, AppliedIs DEF Row
    <3>2. e \notin th[t].got
      BY <2>7 DEF Recorded
    <3> HIDE DEF e, new
    <3>3. Forward(t)'
      <4>1. th[t].now.status \in Status /\ th[t].was.status \in Status
        BY <2>3 DEF Row
      <4>2. /\ Rank[th[t].was.status] <= Rank[th[t].now.status]
            /\ th[t].was.log \subseteq th[t].now.log
        BY <2>2, <2>3 DEF RowJob, Forward, OnRow
      <4>3. Rank[th[t].was.status] <= Rank[new.status]
        <5>1. /\ Rank[th[t].was.status] \in Int /\ Rank[th[t].now.status] \in Int
              /\ Rank[new.status] \in Int
          BY <3>1, <4>1, RankIs
        <5>2. Rank[th[t].now.status] <= Rank[new.status]
          BY <3>1
        <5> QED
          BY <4>2, <5>1, <5>2
      <4> QED
        BY <2>2, <2>7, <3>1, <4>2, <4>3 DEF Forward
    <3>4. Counts(t)'
      BY <2>2, <2>3, <2>7, <3>1 DEF RowJob, Counts
    <3>5. Applies(t)'
      <4> DEFINE S == OpensIn(th[t].got)
      <4>1. IsFiniteSet(th[t].got) /\ th[t].got \subseteq th[t].now.log
            /\ th[t].now.opens = th[t].was.opens + Cardinality(S)
            /\ th[t].was.opens <= Cardinality(EventsOf(th[t].c, "open"))
        BY <2>2, <2>3 DEF RowJob, Applies
      <4>2. IsFiniteSet(S) /\ Cardinality(S) \in Nat /\ e \notin S
        <5>1. S \subseteq th[t].got
          BY DEF OpensIn
        <5> QED
          BY <3>2, <4>1, <5>1, EventsFinite
      <4>3. IsFiniteSet(th[t].got \union {e})
        BY <4>1, FS_AddElement
      <4>4. OpensIn(th[t].got \union {e}) = IF e.type = "open" THEN S \union {e} ELSE S
        BY DEF OpensIn
      <4>5. Cardinality(OpensIn(th[t].got \union {e}))
              = Cardinality(S) + (IF e.type = "open" THEN 1 ELSE 0)
        <5> HIDE DEF S
        <5>1. CASE e.type = "open"
          BY <4>2, <4>4, <5>1, FS_AddElement
        <5>2. CASE e.type # "open"
          BY <4>2, <4>4, <5>2
        <5> QED
          BY <5>1, <5>2
      <4>6. th[t].was.opens \in Nat
        BY <2>3 DEF Row
      <4> DEFINE n == Cardinality(OpensIn(th[t].got \union {e}))
      <4>7. new.opens = th[t].was.opens + n
        <5> HIDE DEF S, n
        <5>1. n = Cardinality(S) + (IF e.type = "open" THEN 1 ELSE 0)
          BY <4>5 DEF n
        <5>2. th[t].now.opens = th[t].was.opens + Cardinality(S)
          BY <4>1
        <5>3. new.opens = th[t].now.opens + (IF e.type = "open" THEN 1 ELSE 0)
          BY <3>1
        <5> QED
          BY <4>2, <4>6, <5>1, <5>2, <5>3
      <4> QED
        BY <2>2, <2>4, <2>7, <3>1, <4>1, <4>3, <4>7 DEF Applies
    <3> QED
      BY <1>0, <2>1, <2>5, <3>3, <3>4, <3>5 DEF RowJob, Turned
  <2> QED
    BY <2>1, <2>6, <2>7
<1> QED
  BY <1>1, <1>2, <1>3, <1>4, <1>5, <1>6, <1>7

\* A row that is new tells nothing yet.
LEMMA NewRowTells ==
  ASSUME Typed, There, RowsTell, NEW c \in Comms, comm[c].status = "none",
         comm'[c].status # "none", comm'[c].opens = 0, comm'[c].clicks = 0,
         \A d \in Comms : d # c => comm'[d] = comm[d],
         seen' = seen, visits' = visits, told' = told,
         lost.comm \subseteq lost'.comm, lost.untold \subseteq lost'.untold,
         \A u \in Threads : th'[u] # Idle \/ Busy(u, "tell") => Kept(u)
  PROVE  RowsTell'
<1>1. ASSUME NEW u \in Threads, th'[u] # Idle PROVE RowJob(u)'
  <2>1. Kept(u)
    BY <1>1
  <2>2. th[u] # Idle /\ th[u].op \in OnRow => comm'[th[u].c] = comm[th[u].c]
    BY DEF There, ReadsThere, Typed, OnRow
  <2>3. \A v \in Threads : th'[v] # Idle /\ th'[v].op = "visit" =>
           th[v] # Idle /\ th[v].op = "visit" /\ th[v].c = th'[v].c
    BY DEF Kept, SameJob
  <2>4. IsFiniteSet(seen') /\ seen \subseteq seen'
    BY DEF RowsTell
  <2> QED
    BY <1>1, <2>1, <2>2, <2>3, <2>4, OthersTell
<1>2. ASSUME NEW d \in Comms PROVE RowOK(d)'
  <2>0. RowOK(d)
    BY DEF RowsTell
  <2>1. RecordedOf(d)' = RecordedOf(d) /\ EventsOf(d, "open")' = EventsOf(d, "open")
    BY DEF RecordedOf, EventsOf
  <2>2. CASE d # c
    <3>1. comm'[d] = comm[d]
      BY <2>2
    <3>2. Blank(d)' /\ Counted(d)'
      BY <2>0, <2>1, <3>1 DEF RowOK, Blank, Counted
    <3>3. \A u \in Threads : Busy(u, "tell") /\ th[u].c = d =>
             th'[u] # Idle /\ th'[u].op = "tell" /\ th'[u].c = d
      BY DEF Kept, SameJob, Busy
    <3>4. Informed(d)'
      BY <2>1, <3>1, <3>3, InformedStays
    <3> QED
      BY <3>2, <3>4 DEF RowOK
  <2>3. CASE d = c
    <3>1. visits[c] = 0 /\ RecordedOf(c) = {}
      BY <2>0, <2>3 DEF RowOK, Blank
    <3>2. EventsOf(c, "open") = {}
      BY <3>1 DEF EventsOf, RecordedOf
    <3>3. Cardinality(EventsOf(c, "open")') = 0
      BY <2>1, <2>3, <3>2, FS_EmptySet
    <3>4. Blank(d)' /\ Counted(d)' /\ Informed(d)'
      BY <2>1, <2>3, <3>1, <3>3 DEF Blank, Counted, Informed
    <3> QED
      BY <3>4 DEF RowOK
  <2> QED
    BY <2>2, <2>3
<1>3. IsFiniteSet(seen')
  BY DEF RowsTell
<1> QED
  BY <1>1, <1>2, <1>3 DEF RowsTell

\* A commit that leaves its own row right leaves all of them right.
LEMMA CommitTells ==
  ASSUME Typed, There, RowsTell, NEW t \in Threads, Commits(t), NEW c \in Comms, c = th[t].c,
         seen \subseteq seen', IsFiniteSet(seen'),
         \A d \in Comms : d # c =>
            RecordedOf(d)' = RecordedOf(d) /\ visits'[d] = visits[d] /\ told'[d] = told[d],
         lost.comm \subseteq lost'.comm, lost'.untold = lost.untold,
         \/ comm' = comm
         \/ \A u \in On(c) \ {t} : th'[u] # Idle => th'[u].stale,
         \A u \in Threads \ {t} : Busy(u, "visit") => th[u].c # c,
         RowOK(c)'
  PROVE  RowsTell'
<1>1. /\ th[t] # Idle /\ th[t].c \in Comms /\ th[t].op \in OnRow
      /\ \A d \in Comms : d # th[t].c => comm'[d] = comm[d]
      /\ th'[t] # Idle => th'[t].op = "tell"
  BY CommitIs
<1>2. \A u \in Threads \ {t} : Kept(u)
  BY StepTyped DEF Commits, Step
<1>3. ASSUME NEW u \in Threads, th'[u] # Idle PROVE RowJob(u)'
  <2>1. CASE u = t
    BY <1>1, <1>3, <2>1 DEF RowJob, ReadsRow, Alone, Forward, Counts, Applies, OnRow
  <2>2. CASE u # t
    <3>1. th[u] # Idle /\ th[u].op \in OnRow => th[u].c \in Comms
      BY DEF Typed, OnRow
    <3>2. th[u] # Idle /\ th[u].op \in OnRow =>
            comm'[th[u].c] = comm[th[u].c] \/ (th'[u].stale /\ th[u].op # "visit")
      BY <1>1, <1>3, <2>2, <3>1 DEF On, Busy
    <3>3. \A v \in Threads : th'[v] # Idle /\ th'[v].op = "visit" =>
             th[v] # Idle /\ th[v].op = "visit" /\ th[v].c = th'[v].c
      BY <1>1, <1>2 DEF Kept, SameJob
    <3> QED
      BY <1>2, <1>3, <2>2, <3>2, <3>3, OthersTell
  <2> QED
    BY <2>1, <2>2
<1>4. ASSUME NEW d \in Comms, d # c PROVE RowOK(d)'
  <2>1. RowOK(d) /\ comm'[d] = comm[d] /\ RecordedOf(d)' = RecordedOf(d) /\ visits'[d] = visits[d]
        /\ told'[d] = told[d]
    BY <1>1, <1>4 DEF RowsTell
  <2>2. EventsOf(d, "open")' = EventsOf(d, "open")
    <3>1. EventsOf(d, "open") = OpensIn(RecordedOf(d))
      BY DEF EventsOf, OpensIn, RecordedOf
    <3>2. EventsOf(d, "open")' = OpensIn(RecordedOf(d)')
      BY DEF EventsOf, OpensIn, RecordedOf
    <3> QED
      BY <2>1, <3>1, <3>2
  <2>3. Blank(d)' /\ Counted(d)'
    BY <2>1, <2>2 DEF RowOK, Blank, Counted
  <2>4. \A u \in Threads : Busy(u, "tell") /\ th[u].c = d =>
           th'[u] # Idle /\ th'[u].op = "tell" /\ th'[u].c = d
    BY <1>1, <1>2 DEF Kept, SameJob, Busy, OnRow
  <2>5. Informed(d)'
    BY <2>1, <2>4, InformedStays
  <2> QED
    BY <2>3, <2>5 DEF RowOK
<1> QED
  BY <1>3, <1>4 DEF RowsTell

\* What a commit makes of its row.
LEMMA MergeIs ==
  ASSUME Typed, There, NEW t \in Threads, Commits(t), NEW c \in Comms, c = th[t].c
  PROVE  /\ comm'[c].status = IF th[t].now.status = th[t].was.status THEN comm[c].status
                                                                      ELSE th[t].now.status
         /\ comm'[c].opens = IF th[t].now.opens = th[t].was.opens THEN comm[c].opens
                                                                   ELSE th[t].now.opens
         /\ comm'[c].clicks = IF th[t].now.clicks = th[t].was.clicks THEN comm[c].clicks
                                                                      ELSE th[t].now.clicks
         /\ comm'[c].log = IF th[t].now.log = th[t].was.log THEN comm[c].log ELSE th[t].now.log
<1>1. comm'[c] = Merge(t, c)
  BY CommitIs
<1> QED
  BY <1>1 DEF Merge, Column

LEMMA FinishVisitTells ==
  ASSUME Typed, There, RowsTell, NEW t \in Threads, FinishVisit(t), NEW c \in Comms, c = th[t].c
  PROVE  RowsTell' /\ Rank[comm[c].status] <= Rank[comm'[c].status]
<1>1. /\ th[t] \in Jobs /\ th[t] # Idle /\ th[t].op = "visit" /\ Commits(t) /\ comm[c] \in Row
      /\ comm[c].status # "none" /\ comm'[c].status # "none"
  BY FinishVisitIs, CommitIs DEF Commits, There, ReadsThere, OnRow
<1>2. RowJob(t) /\ th[t].was = comm[c]
  BY <1>1 DEF RowsTell, RowJob, ReadsRow, OnRow
<1>3. /\ th[t].now.clicks = comm[c].clicks + 1 /\ th[t].now.opens = comm[c].opens
      /\ th[t].now.status \in {comm[c].status, "Clicked"}
      /\ comm[c].log \subseteq th[t].now.log
      /\ Rank[comm[c].status] <= Rank[th[t].now.status]
  BY <1>1, <1>2 DEF RowJob, Counts, Forward, OnRow
<1>4. /\ comm'[c].status \in {comm[c].status, "Clicked"}
      /\ Rank[comm[c].status] <= Rank[comm'[c].status]
      /\ comm'[c].opens = comm[c].opens /\ comm'[c].clicks = comm[c].clicks + 1
      /\ comm[c].log \subseteq comm'[c].log
  <2>1. comm[c].clicks \in Nat /\ comm[c].status \in Status
    BY <1>1 DEF Row
  <2>2. comm[c].clicks + 1 # comm[c].clicks
    BY <2>1
  <2>3. Rank[comm[c].status] <= Rank[comm[c].status]
    BY <2>1, RankIs
  <2> QED
    BY <1>1, <1>2, <1>3, <2>2, <2>3, MergeIs
<1>5. /\ seen' = seen /\ told' = told /\ lost'.comm = lost.comm /\ lost'.untold = lost.untold
      /\ visits' = [visits EXCEPT ![c] = visits[c] + 1] /\ visits[c] \in Nat
  BY DEF FinishVisit, Typed, TypeOK
<1>6. visits'[c] = visits[c] + 1 /\ \A d \in Comms : d # c => visits'[d] = visits[d]
  BY <1>5 DEF Typed, TypeOK
<1>7. /\ \A d \in Comms : RecordedOf(d)' = RecordedOf(d)
      /\ EventsOf(c, "open")' = EventsOf(c, "open")
  BY <1>5 DEF RecordedOf, EventsOf
<1>8. RowOK(c)'
  <2>1. Counted(c) /\ Informed(c)
    BY DEF RowsTell, RowOK
  <2>2. Blank(c)' /\ Counted(c)'
    BY <1>1, <1>4, <1>5, <1>6, <1>7, <2>1 DEF Blank, Counted
  <2>3. Informed(c)'
    <3>1. CASE comm'[c].status = "Clicked"
      BY <1>5, <1>6, <3>1 DEF Informed
    <3>2. CASE comm'[c].status = comm[c].status
      <4>1. \A u \in Threads : Busy(u, "tell") /\ th[u].c = c =>
               th'[u] # Idle /\ th'[u].op = "tell" /\ th'[u].c = c
        BY <1>1, FinishVisitIs DEF Busy, Kept, SameJob
      <4>2. visits[c] > 0 => visits'[c] > 0
        BY <1>5, <1>6
      <4> QED
        BY <1>5, <1>7, <3>2, <4>1, <4>2, InformedStays
    <3> QED
      BY <1>4, <3>1, <3>2
  <2> QED
    BY <2>2, <2>3 DEF RowOK
<1>9. \A u \in Threads \ {t} : Busy(u, "visit") => th[u].c # c
  BY <1>1, <1>2 DEF RowJob, Alone
<1>10. \A u \in On(c) \ {t} : th'[u] # Idle => th'[u].stale
  BY FinishVisitIs
<1>11. seen \subseteq seen' /\ IsFiniteSet(seen')
  BY <1>5 DEF RowsTell
<1>12. RowsTell'
  BY <1>1, <1>5, <1>6, <1>7, <1>8, <1>9, <1>10, <1>11, CommitTells
<1> QED
  BY <1>4, <1>12

LEMMA FinishCheckoutTells ==
  ASSUME Typed, There, RowsTell, NEW t \in Threads, FinishCheckout(t), NEW c \in Comms, c = th[t].c
  PROVE  RowsTell' /\ Rank[comm[c].status] <= Rank[comm'[c].status]
<1>1. /\ th[t] \in Jobs /\ th[t] # Idle /\ th[t].op = "checkout" /\ Commits(t) /\ comm[c] \in Row
      /\ comm[c].status # "none" /\ comm'[c].status # "none" /\ ~Locked(c)
  BY FinishCheckoutIs, CommitIs DEF Commits, There, ReadsThere, OnRow, FinishCheckout
<1>2. RowJob(t) /\ (~th[t].stale => th[t].was = comm[c])
  BY <1>1 DEF RowsTell, RowJob, ReadsRow, OnRow
<1>3. /\ th[t].now.clicks = th[t].was.clicks /\ th[t].now.opens = th[t].was.opens
      /\ th[t].now.status = th[t].was.status
      /\ th[t].was.log \subseteq th[t].now.log
  BY <1>1, <1>2 DEF RowJob, Counts, Forward, OnRow
<1>4. /\ comm'[c].status = comm[c].status
      /\ comm'[c].opens = comm[c].opens /\ comm'[c].clicks = comm[c].clicks
      /\ ~th[t].stale => comm[c].log \subseteq comm'[c].log
  BY <1>1, <1>2, <1>3, MergeIs
<1>5. /\ seen' = seen /\ told' = told /\ visits' = visits /\ lost'.untold = lost.untold
      /\ lost'.comm = lost.comm \union (IF th[t].stale THEN {c} ELSE {})
  BY DEF FinishCheckout, Typed, TypeOK
<1>6. lost.comm \subseteq lost'.comm /\ (th[t].stale => c \in lost'.comm)
  BY <1>5
<1>7. /\ \A d \in Comms : RecordedOf(d)' = RecordedOf(d)
      /\ EventsOf(c, "open")' = EventsOf(c, "open")
  BY <1>5 DEF RecordedOf, EventsOf
<1>8. RowOK(c)'
  <2>1. Counted(c) /\ Informed(c)
    BY DEF RowsTell, RowOK
  <2>2. Blank(c)' /\ Counted(c)'
    BY <1>1, <1>4, <1>5, <1>6, <1>7, <2>1 DEF Blank, Counted
  <2>3. Informed(c)'
    <3>1. \A u \in Threads : Busy(u, "tell") /\ th[u].c = c =>
             th'[u] # Idle /\ th'[u].op = "tell" /\ th'[u].c = c
      BY <1>1, FinishCheckoutIs DEF Busy, Kept, SameJob
    <3> QED
      BY <1>4, <1>5, <1>6, <1>7, <3>1, InformedStays
  <2> QED
    BY <2>2, <2>3 DEF RowOK
<1>9. \A u \in Threads \ {t} : Busy(u, "visit") => th[u].c # c
  BY <1>1 DEF Locked
<1>10. \A u \in On(c) \ {t} : th'[u] # Idle => th'[u].stale
  BY FinishCheckoutIs
<1>11. seen \subseteq seen' /\ IsFiniteSet(seen')
  BY <1>5 DEF RowsTell
<1>12. RowsTell'
  <2>1. \A d \in Comms : d # c =>
          RecordedOf(d)' = RecordedOf(d) /\ visits'[d] = visits[d] /\ told'[d] = told[d]
    BY <1>5, <1>7
  <2>2. lost.comm \subseteq lost'.comm /\ lost'.untold = lost.untold
    BY <1>5, <1>6
  <2> QED
    BY <1>1, <1>8, <1>9, <1>10, <1>11, <2>1, <2>2, CommitTells
<1>13. Rank[comm[c].status] <= Rank[comm'[c].status]
  BY <1>1, <1>4, RankIs DEF Row
<1> QED
  BY <1>12, <1>13

\* The events a commit records are new and about its own message.
LEMMA RecordsIs ==
  ASSUME Typed, There, RowsTell, NEW t \in Threads, CommitEvents(t), NEW c \in Comms, c = th[t].c
  PROVE  /\ seen' = seen \union th[t].got /\ IsFiniteSet(seen') /\ seen \cap th[t].got = {}
         /\ RecordedOf(c)' = RecordedOf(c) \union th[t].got
         /\ \A d \in Comms : d # c => RecordedOf(d)' = RecordedOf(d)
         /\ Cardinality(EventsOf(c, "open")) \in Nat
         /\ Cardinality(OpensIn(th[t].got)) \in Nat
         /\ Cardinality(EventsOf(c, "open"))'
              = Cardinality(EventsOf(c, "open")) + Cardinality(OpensIn(th[t].got))
<1>1. th[t] # Idle /\ th[t].op = "apply"
  BY CommitEventsIs DEF CommitEvents, Busy
<1>2. seen' = seen \union th[t].got /\ seen \cap th[t].got = {}
  BY DEF CommitEvents, Clash
<1>3. IsFiniteSet(seen) /\ IsFiniteSet(th[t].got)
  BY <1>1 DEF RowsTell, RowJob, Applies
<1>4. IsFiniteSet(seen')
  BY <1>2, <1>3, EventsAdd
<1>5. \A e \in th[t].got : e.c = c
  BY <1>1 DEF Typed, Hears
<1>6. /\ RecordedOf(c)' = RecordedOf(c) \union th[t].got
      /\ \A d \in Comms : d # c => RecordedOf(d)' = RecordedOf(d)
  BY <1>2, <1>5 DEF RecordedOf
<1> DEFINE S == EventsOf(c, "open")
           G == OpensIn(th[t].got)
<1>7. EventsOf(c, "open")' = S \union G
  BY <1>2, <1>5 DEF EventsOf, OpensIn
<1>8. IsFiniteSet(S) /\ IsFiniteSet(G) /\ S \cap G = {}
  <2>1. S \subseteq seen /\ G \subseteq th[t].got
    BY DEF EventsOf, OpensIn
  <2> HIDE DEF S, G
  <2>2. IsFiniteSet(S) /\ IsFiniteSet(G)
    BY <1>3, <2>1, EventsFinite
  <2> QED
    BY <1>2, <2>1, <2>2
<1>9. /\ Cardinality(S) \in Nat /\ Cardinality(G) \in Nat
      /\ Cardinality(S \union G) = Cardinality(S) + Cardinality(G)
  <2> HIDE DEF S, G
  <2> QED
    BY <1>8, EventsAdd
<1> QED
  BY <1>2, <1>4, <1>6, <1>7, <1>9

LEMMA CommitEventsTells ==
  ASSUME Typed, There, RowsTell, NEW t \in Threads, CommitEvents(t), NEW c \in Comms, c = th[t].c
  PROVE  RowsTell' /\ (Rank[comm'[c].status] < Rank[comm[c].status] => c \in lost'.comm)
<1>1. /\ th[t] \in Jobs /\ th[t] # Idle /\ th[t].op = "apply" /\ Commits(t) /\ comm[c] \in Row
      /\ th[t].was \in Row /\ th[t].now \in Row
      /\ comm[c].status # "none" /\ comm'[c].status # "none" /\ ~Locked(c)
  BY CommitEventsIs, CommitIs DEF Commits, There, ReadsThere, OnRow, CommitEvents
<1> DEFINE got == th[t].got
           n == Cardinality(OpensIn(got))
           m == Cardinality(EventsOf(c, "open"))
<1>2. /\ Rank[th[t].was.status] <= Rank[th[t].now.status]
      /\ th[t].now.clicks = th[t].was.clicks
      /\ got = {} => th[t].now = th[t].was
      /\ got \subseteq th[t].now.log
      /\ th[t].was.log \subseteq th[t].now.log
      /\ th[t].now.opens = th[t].was.opens + n
      /\ th[t].was.opens <= m
      /\ ~th[t].stale => th[t].was = comm[c]
  BY <1>1 DEF RowsTell, RowJob, ReadsRow, Forward, Counts, Applies, OnRow
<1>3. /\ visits' = visits /\ lost'.untold = lost.untold
      /\ lost'.comm = lost.comm \union (IF th[t].stale /\ got # {} THEN {c} ELSE {})
  BY DEF CommitEvents, Typed, TypeOK
<1>4. lost.comm \subseteq lost'.comm /\ (th[t].stale /\ got # {} => c \in lost'.comm)
  BY <1>3
<1>5. /\ seen' = seen \union got /\ IsFiniteSet(seen')
      /\ RecordedOf(c)' = RecordedOf(c) \union got
      /\ \A d \in Comms : d # c => RecordedOf(d)' = RecordedOf(d)
      /\ m \in Nat /\ n \in Nat
      /\ Cardinality(EventsOf(c, "open"))' = m + n
  BY RecordsIs
<1>6. /\ comm'[c].clicks = comm[c].clicks
      /\ comm'[c].opens = IF n = 0 THEN comm[c].opens ELSE th[t].was.opens + n
      /\ got = {} => comm'[c].log = comm[c].log /\ comm'[c].status = comm[c].status
      /\ ~th[t].stale => /\ comm'[c].status = th[t].now.status
                         /\ comm[c].log \subseteq comm'[c].log /\ got \subseteq comm'[c].log
  <2>1. th[t].was.opens \in Nat
    BY <1>1 DEF Row
  <2> HIDE DEF got, n, m
  <2>2. th[t].now.opens = th[t].was.opens <=> n = 0
    BY <1>2, <1>5, <2>1
  <2> QED
    BY <1>1, <1>2, <2>2, MergeIs
<1>7. got = {} => n = 0
  BY FS_EmptySet DEF OpensIn
<1>8. Blank(c)' /\ Counted(c)'
  <2>1. Counted(c) /\ th[t].was.opens \in Nat /\ comm[c].opens \in Nat
    BY <1>1 DEF RowsTell, RowOK, Row
  <2>2. Blank(c)'
    BY <1>1 DEF Blank
  <2>3. comm'[c].opens <= m + n
    <3> HIDE DEF got, n, m
    <3>1. comm[c].opens <= m
      BY <2>1 DEF Counted, m
    <3> QED
      BY <1>2, <1>5, <1>6, <2>1, <3>1
  <2>4. comm'[c].opens < m + n => c \in lost'.comm
    <3>1. CASE c \in lost.comm \/ (th[t].stale /\ got # {})
      BY <1>4, <3>1
    <3>2. CASE c \notin lost.comm /\ ~(th[t].stale /\ got # {})
      <4>1. comm[c].opens = m
        <5>1. comm[c].opens <= m /\ ~(comm[c].opens < m)
          BY <2>1, <3>2 DEF Counted
        <5> HIDE DEF got, n, m
        <5> QED
          BY <1>5, <2>1, <5>1
      <4>2. n = 0 \/ th[t].was.opens = m
        <5>1. got = {} \/ ~th[t].stale
          BY <3>2
        <5> HIDE DEF got, n, m
        <5> QED
          BY <1>2, <1>7, <4>1, <5>1
      <4>3. comm'[c].opens = m + n
        <5> HIDE DEF got, n, m
        <5> QED
          BY <1>5, <1>6, <4>1, <4>2
      <4> HIDE DEF got, n, m
      <4> QED
        BY <1>5, <4>3
    <3> QED
      BY <3>1, <3>2
  <2>5. comm'[c].clicks = visits'[c]
    BY <1>3, <1>6, <2>1 DEF Counted
  <2>6. c \notin lost'.comm => RecordedOf(c)' \subseteq comm'[c].log
    <3>1. SUFFICES ASSUME c \notin lost'.comm PROVE RecordedOf(c)' \subseteq comm'[c].log
      OBVIOUS
    <3>2. RecordedOf(c) \subseteq comm[c].log /\ (~th[t].stale \/ got = {})
      BY <1>4, <2>1, <3>1 DEF Counted
    <3> HIDE DEF got, n, m
    <3> QED
      BY <1>5, <1>6, <3>2
  <2> QED
    BY <1>5, <2>2, <2>3, <2>4, <2>5, <2>6 DEF Counted
<1>9. Informed(c)'
  <2>1. CASE got = {}
    <3>1. told' = told
      BY <2>1, CommitEventsIs
    <3>2. \A u \in Threads : Busy(u, "tell") /\ th[u].c = c =>
             th'[u] # Idle /\ th'[u].op = "tell" /\ th'[u].c = c
      <4>1. \A u \in Threads \ {t} : Kept(u)
        BY CommitEventsIs
      <4> QED
        BY <1>1, <4>1 DEF Busy, Kept, SameJob
    <3> HIDE DEF n, m
    <3> QED
      BY <1>3, <1>4, <1>5, <1>6, <2>1, <3>1, <3>2, InformedStays
  <2>2. CASE got # {} /\ th[t].stale
    BY <1>4, <2>2 DEF Informed
  <2>3. CASE got # {} /\ ~th[t].stale /\ th'[t] = Idle
    <3>1. told'[c] = Heard(t)
      <4>1. told' = [told EXCEPT ![c] = Heard(t)]
        BY <1>1, <2>3, CommitEventsIs
      <4> QED
        BY <4>1 DEF Typed, TypeOK
    <3>2. comm'[c].status = told'[c]
      BY <1>6, <2>3, <3>1 DEF Heard
    <3> QED
      BY <3>2 DEF Informed
  <2>4. CASE got # {} /\ th'[t] # Idle
    <3>1. th'[t] # Idle /\ th'[t].op = "tell" /\ th'[t].c = c
      BY <2>4, CommitEventsIs
    <3> QED
      BY <3>1 DEF Informed, Busy
  <2> QED
    BY <2>1, <2>2, <2>3, <2>4
<1>10. \A d \in Comms : d # c =>
         RecordedOf(d)' = RecordedOf(d) /\ visits'[d] = visits[d] /\ told'[d] = told[d]
  <2>1. \A d \in Comms : d # c => told'[d] = told[d]
    <3>1. told' = told \/ told' = [told EXCEPT ![c] = Heard(t)]
      BY CommitEventsIs
    <3> QED
      BY <3>1 DEF Typed, TypeOK
  <2> HIDE DEF got, n, m
  <2> QED
    BY <1>3, <1>5, <2>1
<1>11. comm' = comm \/ \A u \in On(c) \ {t} : th'[u] # Idle => th'[u].stale
  <2>1. CASE got # {}
    BY <2>1, CommitEventsIs
  <2>2. CASE got = {}
    <3>1. th[t].now = th[t].was
      BY <1>2, <2>2
    <3>2. Merge(t, c) = comm[c]
      BY <1>1, <3>1 DEF Merge, Column, Row
    <3>3. comm' = [comm EXCEPT ![c] = comm[c]] /\ comm \in [Comms -> Row]
      BY <3>2 DEF CommitEvents, Typed, TypeOK
    <3>4. comm' = comm
      BY <3>3
    <3> QED
      BY <3>4
  <2> QED
    BY <2>1, <2>2
<1>12. \A u \in Threads \ {t} : Busy(u, "visit") => th[u].c # c
  BY <1>1 DEF Locked
<1>13. RowsTell'
  <2>1. RowOK(c)'
    BY <1>8, <1>9 DEF RowOK
  <2>2. seen \subseteq seen'
    BY <1>5
  <2>3. Commits(t) /\ IsFiniteSet(seen') /\ lost.comm \subseteq lost'.comm /\ lost'.untold = lost.untold
    BY <1>1, <1>3, <1>4, <1>5
  <2> HIDE DEF got, n, m
  <2> QED
    BY <1>10, <1>11, <1>12, <2>1, <2>2, <2>3, CommitTells
<1>14. Rank[comm'[c].status] < Rank[comm[c].status] => c \in lost'.comm
  <2>1. SUFFICES ASSUME c \notin lost'.comm PROVE ~(Rank[comm'[c].status] < Rank[comm[c].status])
    OBVIOUS
  <2>2. ~th[t].stale \/ got = {}
    BY <1>4, <2>1
  <2>3. Rank[comm[c].status] <= Rank[comm'[c].status]
    <3>1. Rank[comm[c].status] <= Rank[comm[c].status]
      BY <1>1, RankIs DEF Row
    <3> HIDE DEF got, n, m
    <3> QED
      BY <1>2, <1>6, <2>2, <3>1
  <2>4. /\ Rank[comm[c].status] \in Int /\ Rank[comm'[c].status] \in Int
    <3>1. comm'[c].status \in Status
      BY CommitIs, MergeType, <1>1 DEF Row
    <3> QED
      BY <1>1, <3>1, RankIs DEF Row
  <2> QED
    BY <2>3, <2>4
<1> QED
  BY <1>13, <1>14

LEMMA RequestSendTells ==
  ASSUME Typed, There, RowsTell, NEW t \in Threads, RequestSend(t)
  PROVE  RowsTell' /\ \A c \in Comms : comm'[c] # comm[c] => comm[c].status = "none"
<1>1. PICK c \in Comms, k \in Keys, pay \in BOOLEAN :
        /\ FreshComm(c)
        /\ RefuseSend(c, k, pay) \/ PrepareSend(t, c, k, pay)
  BY DEF RequestSend
<1>2. \A u \in Threads \ {t} : Kept(u)
  BY StepTyped DEF Step
<1>3. th[t] = Idle
  BY DEF RequestSend
<1>4. CASE RefuseSend(c, k, pay)
  <2>1. Refused(t, c, k)
    BY <1>3, <1>4, RefuseSendIs
  <2>2. /\ comm'[c].status # "none" /\ comm'[c].opens = 0 /\ comm'[c].clicks = 0
        /\ \A d \in Comms : d # c => comm'[d] = comm[d]
        /\ th'[t] = Idle
    BY <2>1 DEF Refused
  <2>3. comm[c].status = "none"
    BY <1>1 DEF FreshComm
  <2>4. \A u \in Threads : Kept(u)
    BY <1>2, <1>3, <2>2 DEF Kept
  <2>5. seen' = seen /\ visits' = visits /\ told' = told /\ lost' = lost
    BY <1>4 DEF RefuseSend
  <2> QED
    BY <2>2, <2>3, <2>4, <2>5, NewRowTells
<1>5. CASE PrepareSend(t, c, k, pay)
  <2>1. RowsSame /\ th'[t] # Idle /\ RowJob(t)'
    BY <1>5, StartTells
  <2>2. told' = told /\ lost' = lost /\ comm' = comm
    BY <1>5 DEF PrepareSend
  <2>3. ~Busy(t, "tell")
    BY <1>3 DEF Busy
  <2> QED
    BY <1>2, <2>1, <2>2, <2>3, GoesOn
<1> QED
  BY <1>1, <1>4, <1>5

LEMMA FinishSendTells ==
  ASSUME Typed, There, RowsTell, NEW t \in Threads, FinishSend(t)
  PROVE  RowsTell' /\ \A c \in Comms : comm'[c] # comm[c] => comm[c].status = "none"
<1>1. /\ th[t].c \in Comms /\ th[t] # Idle /\ th[t].op = "send" /\ th'[t] = Idle
      /\ \A u \in Threads \ {t} : Kept(u)
  BY FinishSendIs DEF FinishSend, Busy
<1>2. comm[th[t].c].status = "none"
  BY <1>1 DEF There, OwnRow
<1>3. seen' = seen /\ visits' = visits /\ told' = told
  BY DEF FinishSend
<1>4. lost'.comm = lost.comm /\ lost'.untold = lost.untold
  BY DEF FinishSend, Typed, TypeOK
<1>5. \A u \in Threads : th'[u] # Idle \/ Busy(u, "tell") => Kept(u)
  BY <1>1 DEF Busy
<1>6. ASSUME NEW c \in Comms, c = th[t].c
      PROVE  /\ comm'[c].status # "none" /\ comm'[c].opens = 0 /\ comm'[c].clicks = 0
             /\ \A d \in Comms : d # c => comm'[d] = comm[d]
             /\ comm[c].status = "none"
  BY <1>2, <1>6, FinishSendRow
<1> QED
  BY <1>1, <1>3, <1>4, <1>5, <1>6, NewRowTells

\* Telling the workflow settles what the row of the message owes it.
LEMMA TellWorkflowTells ==
  ASSUME Typed, There, RowsTell, NEW t \in Threads, TellWorkflow(t)
  PROVE  RowsTell'
<1>1. /\ th[t] # Idle /\ th[t].op = "tell" /\ th'[t] = Idle /\ \A u \in Threads \ {t} : Kept(u)
      /\ th[t].c \in Comms
  BY EndsAre DEF TellWorkflow, Busy, Typed
<1>2. RowsSame /\ lost' = lost /\ told' = [told EXCEPT ![th[t].c] = comm[th[t].c].status]
  BY DEF TellWorkflow, RowsSame
<1>3. ASSUME NEW u \in Threads, th'[u] # Idle PROVE RowJob(u)'
  <2>1. Kept(u)
    BY <1>1, <1>3
  <2>2. IsFiniteSet(seen') /\ seen \subseteq seen' /\ comm' = comm
    BY <1>2 DEF RowsSame, RowsTell
  <2>3. \A v \in Threads : th'[v] # Idle /\ th'[v].op = "visit" =>
           th[v] # Idle /\ th[v].op = "visit" /\ th[v].c = th'[v].c
    BY <1>1 DEF Kept, SameJob
  <2> QED
    BY <1>3, <2>1, <2>2, <2>3, OthersTell
<1>4. ASSUME NEW c \in Comms PROVE RowOK(c)'
  <2>1. Blank(c)' /\ Counted(c)'
    BY <1>2, RowsSameTell
  <2>2. CASE c = th[t].c
    <3>1. told'[c] = comm'[c].status
      BY <1>2, <2>2 DEF RowsSame, Typed, TypeOK
    <3>2. Informed(c)'
      BY <3>1 DEF Informed
    <3> QED
      BY <2>1, <3>2 DEF RowOK
  <2>3. CASE c # th[t].c
    <3>1. \A u \in Threads : Busy(u, "tell") /\ th[u].c = c =>
             th'[u] # Idle /\ th'[u].op = "tell" /\ th'[u].c = c
      BY <1>1, <2>3 DEF Busy, Kept, SameJob
    <3>2. /\ told'[c] = told[c] /\ comm'[c].status = comm[c].status
          /\ RecordedOf(c)' = RecordedOf(c) /\ visits' = visits
      BY <1>2, <2>3 DEF RowsSame, RecordedOf, Typed, TypeOK
    <3>3. Informed(c)'
      BY <1>2, <3>1, <3>2, InformedStays
    <3> QED
      BY <2>1, <3>3 DEF RowOK
  <2> QED
    BY <2>2, <2>3
<1>5. IsFiniteSet(seen')
  BY <1>2 DEF RowsSame, RowsTell
<1> QED
  BY <1>3, <1>4, <1>5 DEF RowsTell

LEMMA StepTells ==
  ASSUME Typed, There, RowsTell, NEW t \in Threads, Step(t)
  PROVE  RowsTell' /\ Climbs
<1>0. /\ \A u \in Threads \ {t} : Kept(u)
      /\ \A c \in Comms : comm[c].status \in Status /\ comm'[c].status \in Status
  BY StepTyped DEF Typed, TypeOK, Row
<1>1. ASSUME \A c \in Comms : comm'[c] # comm[c] => comm[c].status = "none"
      PROVE  Climbs
  <2> SUFFICES ASSUME NEW c \in Comms
               PROVE  ~(Rank[comm'[c].status] < Rank[comm[c].status])
    BY DEF Climbs
  <2>1. Rank[comm'[c].status] \in 0 .. 100 /\ Rank[comm[c].status] \in 0 .. 100
    BY <1>0, RankIs
  <2>2. comm'[c] = comm[c] \/ Rank[comm[c].status] = 0
    BY <1>1, RankIs
  <2> QED
    BY <2>1, <2>2
<1>2. CASE RequestSend(t)
  BY <1>1, <1>2, RequestSendTells
<1>3. CASE FinishSend(t)
  BY <1>1, <1>3, FinishSendTells
<1>4. CASE TellWorkflow(t)
  <2>1. comm' = comm
    BY <1>4 DEF TellWorkflow
  <2> QED
    BY <1>1, <1>4, <2>1, TellWorkflowTells
<1>5. CASE Receive(t) \/ Visit(t) \/ Checkout(t) \/ Revoke(t) \/ Transmit(t) \/ ApplyEvent(t)
  <2>1. RowsSame /\ th'[t] # Idle /\ RowJob(t)'
    BY <1>5, StartTells
  <2>2. told' = told /\ lost' = lost /\ ~Busy(t, "tell")
    BY <1>5 DEF Receive, Visit, Checkout, Revoke, Transmit, ApplyEvent, Busy
  <2>3. RowsTell'
    BY <1>0, <2>1, <2>2, GoesOn
  <2>4. comm' = comm
    BY <2>1 DEF RowsSame
  <2> QED
    BY <1>1, <2>3, <2>4
<1>6. CASE FinishRevoke(t) \/ RejectEvents(t) \/ Crash(t)
  <2>1. th'[t] = Idle
    BY <1>6, FinishRevokeIs, EndsAre
  <2>2. RowsSame /\ told' = told
    BY <1>6 DEF RowsSame, FinishRevoke, RejectEvents, Crash
  <2>3. /\ lost.comm \subseteq lost'.comm /\ lost.untold \subseteq lost'.untold
        /\ Busy(t, "tell") => th[t].c \in lost'.untold
    <3>1. CASE FinishRevoke(t)
      BY <3>1 DEF FinishRevoke, Busy, Typed, TypeOK
    <3>2. CASE RejectEvents(t)
      BY <3>2 DEF RejectEvents, Busy
    <3>3. CASE Crash(t)
      BY <3>3 DEF Crash, Typed, TypeOK
    <3> QED
      BY <1>6, <3>1, <3>2, <3>3
  <2>4. RowsTell'
    BY <1>0, <2>1, <2>2, <2>3, GoesOn
  <2>5. comm' = comm
    BY <2>2 DEF RowsSame
  <2> QED
    BY <1>1, <2>4, <2>5
<1>7. CASE Commits(t)
  <2>1. th[t].c \in Comms /\ \A c \in Comms : c # th[t].c => comm'[c] = comm[c]
    BY <1>7, CommitIs
  <2>2. ASSUME NEW c \in Comms, c = th[t].c
        PROVE  /\ RowsTell'
               /\ \/ Rank[comm[c].status] <= Rank[comm'[c].status]
                  \/ Rank[comm'[c].status] < Rank[comm[c].status] => c \in lost'.comm
    BY <1>7, <2>2, CommitEventsTells, FinishVisitTells, FinishCheckoutTells DEF Commits
  <2>3. ASSUME NEW c \in Comms, Rank[comm'[c].status] < Rank[comm[c].status]
        PROVE  c \in lost'.comm
    <3>1. Rank[comm'[c].status] \in 0 .. 100 /\ Rank[comm[c].status] \in 0 .. 100
      BY <1>0, RankIs
    <3>2. c = th[t].c
      <4>1. \A x \in 0 .. 100 : ~(x < x)
        OBVIOUS
      <4>2. comm'[c] # comm[c]
        BY <2>3, <3>1, <4>1
      <4> QED
        BY <2>1, <4>2
    <3>3. ~(Rank[comm[c].status] <= Rank[comm'[c].status])
      <4>1. \A x, y \in 0 .. 100 : x < y => ~(y <= x)
        OBVIOUS
      <4> QED
        BY <2>3, <3>1, <4>1
    <3>4. \/ Rank[comm[c].status] <= Rank[comm'[c].status]
          \/ Rank[comm'[c].status] < Rank[comm[c].status] => c \in lost'.comm
      BY <2>2, <3>2
    <3> QED
      BY <2>3, <3>3, <3>4
  <2> QED
    BY <2>1, <2>2, <2>3 DEF Climbs
<1> QED
  BY <1>2, <1>3, <1>4, <1>5, <1>6, <1>7 DEF Step, Commits

LEMMA NextTells ==
  ASSUME Typed, There, RowsTell, [Next]_vars
  PROVE  RowsTell' /\ Climbs
<1>1. CASE \E t \in Threads : Step(t)
  BY <1>1, StepTells
<1>2. ASSUME th' = th, comm' = comm, seen' = seen, told' = told, visits' = visits, lost' = lost
      PROVE  RowsTell' /\ Climbs
  <2>1. ASSUME NEW t \in Threads, th[t] # Idle PROVE RowJob(t)'
    <3>1. RowJob(t)
      BY <2>1 DEF RowsTell
    <3> QED
      BY <1>2, <3>1 DEF RowJob, ReadsRow, Alone, Busy, Forward, Counts, Applies, EventsOf
  <2>2. ASSUME NEW c \in Comms PROVE RowOK(c)'
    <3>1. RowOK(c)
      BY DEF RowsTell
    <3> QED
      BY <1>2, <3>1 DEF RowOK, Blank, Counted, Informed, RecordedOf, EventsOf, Busy
  <2>3. RowsTell'
    BY <1>2, <2>1, <2>2 DEF RowsTell
  <2>4. Climbs
    <3> SUFFICES ASSUME NEW c \in Comms PROVE ~(Rank[comm'[c].status] < Rank[comm[c].status])
      BY DEF Climbs
    <3>1. Rank[comm[c].status] \in 0 .. 100
      BY RankIs DEF Typed, TypeOK, Row
    <3> QED
      BY <1>2, <3>1
  <2> QED
    BY <2>3, <2>4
<1>3. CASE Environment
  BY <1>2, <1>3, EnvironmentIs
<1>4. CASE UNCHANGED vars
  BY <1>2, <1>4 DEF vars
<1> QED
  BY <1>1, <1>3, <1>4 DEF Next, Environment

LEMMA InitTells == Init => RowsTell
<1> SUFFICES ASSUME Init PROVE RowsTell
  OBVIOUS
<1>1. seen = {} /\ IsFiniteSet({}) /\ Cardinality({}) = 0
  BY FS_EmptySet DEF Init
<1>2. ASSUME NEW c \in Comms PROVE RowOK(c)
  <2>1. EventsOf(c, "open") = {} /\ RecordedOf(c) = {}
    BY <1>1 DEF EventsOf, RecordedOf
  <2>2. comm[c].opens = 0 /\ comm[c].clicks = 0 /\ visits[c] = 0
    BY DEF Init, NoRow
  <2> QED
    BY <1>1, <2>1, <2>2 DEF RowOK, Blank, Counted, Informed
<1> QED
  BY <1>1, <1>2 DEF Init, RowsTell

Told == Typed /\ There /\ RowsTell

LEMMA InitTold == Init => Told
BY InitTyped, InitThere, InitTells DEF Told

LEMMA NextTold == Told /\ [Next]_vars => Told' /\ Climbs
BY NextTyped, NextThere, NextTells DEF Told

(* The counters and the timeline of a communication agree with the table   *)
(* of events and the visits of the portal, unless a session wrote the row  *)
(* over a commit it had not read: for any number of webhook calls, visits  *)
(* and checkouts at once.                                                  *)
THEOREM RowsAreTrue == Spec => []RowTellsAll
<1>1. Told => RowTellsAll
  BY DEF Told, RowsTell, RowOK, Counted, RecordedOf, RowTellsAll, OpensCounted, ClicksExact,
         TimelineKept
<1> QED
  BY <1>1, InitTold, NextTold, PTL DEF Spec

(* Once nobody works on a communication the workflow was told its status,  *)
(* whatever order the events arrived in and whichever process took them,   *)
(* unless only the send or a visit set it, a process died in between or a  *)
(* session overwrote it.                                                   *)
THEOREM WorkflowHears == Spec => []WorkflowTold
<1>1. Told => WorkflowTold
  BY DEF Told, RowsTell, RowOK, Informed, RecordedOf, WorkflowTold, On, Busy
<1> QED
  BY <1>1, InitTold, NextTold, PTL DEF Spec

-----------------------------------------------------------------------------
(* Links.  A job that was not overtaken knows the links as they are; a     *)
(* send hands out the active one, or a new one that nobody else knows, all *)
(* others being past their expiry and the case open.                       *)

OnLinks == {"send", "visit", "checkout", "revoke"}

ReadsLinks(t) ==
    th[t].op \in OnLinks =>
        /\ ~th[t].old => \A l \in Links : th[t].read[l] = link[l].status
        /\ \A l \in Links : th[t].read[l] # "none" => link[l].status # "none"

HandsNew(t) ==
    /\ th[t].read[th[t].l] = "none" /\ link[th[t].l].status = "none"
    /\ \A u \in Threads \ {t} : Busy(u, "send") => th[u].l # th[t].l
    /\ ~th[t].old => Active \subseteq due /\ ~acct.closed

HandsOut(t) ==
    th[t].op = "send" /\ ~lost.link =>
        /\ th[t].l = 0 => ~th[t].pay
        /\ th[t].l # 0 => /\ th[t].pay /\ th[t].l \in Links
                          /\ th[t].read[th[t].l] = "Active" \/ HandsNew(t)

Revokes(t) == th[t].op = "revoke" => th[t].l \in Links /\ th[t].read[th[t].l] = "Active"

LinkJob(t) == ReadsLinks(t) /\ HandsOut(t) /\ Revokes(t)

OneActive == ~lost.link => (\A k, l \in Active : k = l) /\ (acct.closed => Active = {})

LinksTell == OneActive /\ \A t \in Threads : th[t] # Idle => LinkJob(t)

Closing(t) == th[t].op = "checkout" /\ th[t].full

\* What a commit makes of the links.
Turns(t, l) ==
    /\ link'[l].status # "none"
    /\ \/ th[t].read[l] = "Active" /\ link'[l].status # "Active"
       \/ /\ th[t].op = "send" /\ l = th[t].l
          /\ link'[l].status = "Active" /\ th[t].read[l] # "Active"

LinkWrite(t) ==
    /\ th[t] # Idle /\ th[t].op \in OnLinks /\ th'[t] = Idle
    /\ \A u \in Threads \ {t} : Kept(u)
    /\ due' = due /\ (lost.link => lost'.link)
    /\ acct'.closed = (acct.closed \/ Closing(t))
    /\ link' # link \/ Closing(t) => /\ th[t].old => lost'.link
                                     /\ \A u \in Threads : th'[u] # Idle => th'[u].old
    /\ \A l \in Links : link'[l].status # link[l].status => Turns(t, l)
    /\ Closing(t) => \A l \in Links : th[t].read[l] = "Active" => link'[l].status # "Active"
    /\ th[t].op = "send" /\ th[t].pay =>
         \A l \in Links : /\ l # th[t].l /\ th[t].read[l] = "Active" /\ l \in due
                          /\ \A k \in Links : th[t].read[k] = "Active" => k <= l
                          => link'[l].status = "Expired"

LEMMA WrittenIs ==
  ASSUME Typed, NEW t \in Threads, NEW new, WriteLinks(t, new), NEW l \in Links
  PROVE  /\ link'[l].status = IF new[l].status = th[t].read[l] THEN link[l].status ELSE new[l].status
         /\ due' = due
BY DEF WriteLinks, Column

LEMMA FinishSendWrites ==
  ASSUME Typed, NEW t \in Threads, FinishSend(t)
  PROVE  LinkWrite(t)
<1>1. /\ th[t] \in Jobs /\ th[t] # Idle /\ th[t].op = "send" /\ th'[t] = Idle
      /\ \A u \in Threads \ {t} : Kept(u)
      /\ link' # link => \A u \in Threads : th'[u] # Idle => th'[u].old
  BY FinishSendIs DEF FinishSend, Busy
<1> DEFINE new == LinksOf(th[t])
<1>2. WriteLinks(t, new) /\ acct' = acct
  BY DEF FinishSend
<1>3. ASSUME NEW l \in Links
      PROVE  new[l].status = IF l = th[t].l THEN "Active"
                             ELSE IF th[t].pay /\ th[t].read[l] = "Active" /\ l \in due
                                     /\ \A k \in Links : th[t].read[k] = "Active" => k <= l
                             THEN "Expired" ELSE th[t].read[l]
  BY DEF LinksOf
<1>4. lost'.link = (lost.link \/ (link' # link /\ th[t].old))
  BY DEF FinishSend, Typed, TypeOK
<1> HIDE DEF new
<1>5. ASSUME NEW l \in Links, link'[l].status # link[l].status PROVE Turns(t, l)
  BY <1>1, <1>2, <1>3, <1>5, WrittenIs DEF Turns
<1>6. ASSUME th[t].pay, NEW l \in Links, l # th[t].l, th[t].read[l] = "Active", l \in due,
             \A k \in Links : th[t].read[k] = "Active" => k <= l
      PROVE  link'[l].status = "Expired"
  BY <1>2, <1>3, <1>6, WrittenIs
<1>7. due' = due
  BY <1>2 DEF WriteLinks
<1>8. /\ acct'.closed = (acct.closed \/ Closing(t)) /\ ~Closing(t)
      /\ lost.link => lost'.link
      /\ link' # link /\ th[t].old => lost'.link
  <2>1. ~Closing(t) /\ acct' = acct /\ acct.closed \in BOOLEAN
    BY <1>1, <1>2 DEF Closing, Typed, TypeOK
  <2> QED
    BY <2>1, <1>4
<1> QED
  BY <1>1, <1>8, <1>5, <1>6, <1>7 DEF LinkWrite, OnLinks

LEMMA FinishVisitWrites ==
  ASSUME Typed, NEW t \in Threads, FinishVisit(t)
  PROVE  LinkWrite(t)
<1>1. /\ th[t] \in Jobs /\ th[t] # Idle /\ th[t].op = "visit" /\ th'[t] = Idle
      /\ \A u \in Threads \ {t} : Kept(u)
      /\ link' # link => \A u \in Threads : th'[u] # Idle => th'[u].old
  BY FinishVisitIs DEF FinishVisit, Busy
<1> DEFINE new == [k \in Links |->
          [status |-> IF k = th[t].l /\ th[t].read[th[t].l] = "Active" /\ th[t].l \in due
                      THEN "Expired" ELSE th[t].read[k],
           comm |-> 0]]
<1>2. WriteLinks(t, new) /\ acct' = acct
  BY DEF FinishVisit
<1>3. \A l \in Links : new[l].status = th[t].read[l]
                       \/ (th[t].read[l] = "Active" /\ new[l].status = "Expired")
  OBVIOUS
<1>4. lost'.link = (lost.link \/ (link' # link /\ th[t].old))
  BY DEF FinishVisit, Typed, TypeOK
<1> HIDE DEF new
<1>5. ASSUME NEW l \in Links, link'[l].status # link[l].status PROVE Turns(t, l)
  BY <1>2, <1>3, <1>5, WrittenIs DEF Turns
<1>6. due' = due
  BY <1>2 DEF WriteLinks
<1>7. /\ acct'.closed = (acct.closed \/ Closing(t)) /\ ~Closing(t)
      /\ lost.link => lost'.link
      /\ link' # link /\ th[t].old => lost'.link
  <2>1. ~Closing(t) /\ acct' = acct /\ acct.closed \in BOOLEAN
    BY <1>1, <1>2 DEF Closing, Typed, TypeOK
  <2> QED
    BY <2>1, <1>4
<1> QED
  BY <1>1, <1>7, <1>5, <1>6 DEF LinkWrite, OnLinks

LEMMA FinishCheckoutWrites ==
  ASSUME Typed, NEW t \in Threads, FinishCheckout(t)
  PROVE  LinkWrite(t)
<1>1. /\ th[t] \in Jobs /\ th[t] # Idle /\ th[t].op = "checkout" /\ th'[t] = Idle
      /\ \A u \in Threads \ {t} : Kept(u)
      /\ th[t].full => \A u \in Threads : th'[u] # Idle => th'[u].old
  BY FinishCheckoutIs DEF FinishCheckout, Busy
<1> DEFINE new == [k \in Links |->
          [status |-> IF th[t].full /\ k \in CompletedLinks(th[t]) THEN "Completed" ELSE th[t].read[k],
           comm |-> 0]]
<1>2. WriteLinks(t, new)
  BY DEF FinishCheckout
<1>3. \A l \in Links : /\ new[l].comm = 0
                       /\ new[l].status = IF th[t].full /\ th[t].read[l] = "Active"
                                          THEN "Completed" ELSE th[t].read[l]
  BY DEF CompletedLinks
<1>4. /\ lost'.link = (lost.link \/ (th[t].full /\ th[t].old))
      /\ acct'.closed = (acct.closed \/ th[t].full)
  BY DEF FinishCheckout, Typed, TypeOK
<1> HIDE DEF new
<1>5. ASSUME NEW l \in Links, link'[l].status # link[l].status PROVE Turns(t, l)
  BY <1>2, <1>3, <1>5, WrittenIs DEF Turns
<1>6. ASSUME th[t].full, NEW l \in Links, th[t].read[l] = "Active"
      PROVE  link'[l].status # "Active"
  <2>1. new[l].status = "Completed"
    BY <1>3, <1>6
  <2>2. link'[l].status = IF new[l].status = th[t].read[l] THEN link[l].status ELSE new[l].status
    BY <1>2, WrittenIs
  <2> QED
    BY <1>6, <2>1, <2>2
<1>7. link' # link => th[t].full
  <2>1. SUFFICES ASSUME ~th[t].full PROVE link' = link
    OBVIOUS
  <2>2. \A l \in Links : [status |-> Column(th[t].read[l], new[l].status, link[l].status),
                          comm |-> IF link[l].comm = 0 THEN new[l].comm ELSE link[l].comm] = link[l]
    BY <1>3, <2>1 DEF Column, Typed, TypeOK
  <2>3. link' = [l \in Links |-> link[l]] /\ link \in [Links -> [status : LinkStates, comm : Comms \union {0}]]
    BY <1>2, <2>2 DEF WriteLinks, Typed, TypeOK
  <2> QED
    BY <2>3
<1>8. due' = due
  BY <1>2 DEF WriteLinks
<1> QED
  BY <1>1, <1>4, <1>5, <1>6, <1>7, <1>8 DEF LinkWrite, Closing, OnLinks

LEMMA FinishRevokeWrites ==
  ASSUME Typed, LinksTell, NEW t \in Threads, FinishRevoke(t)
  PROVE  LinkWrite(t)
<1>1. /\ th[t] \in Jobs /\ th[t] # Idle /\ th[t].op = "revoke" /\ th'[t] = Idle
      /\ \A u \in Threads \ {t} : Kept(u)
      /\ \A u \in Threads : th'[u] # Idle => th'[u].old
  BY FinishRevokeIs DEF FinishRevoke, Busy
<1>2. th[t].l \in Links /\ th[t].read[th[t].l] = "Active"
  BY <1>1 DEF LinksTell, LinkJob, Revokes
<1> DEFINE new == [k \in Links |->
          [status |-> IF k = th[t].l THEN "Revoked" ELSE th[t].read[k], comm |-> 0]]
<1>3. WriteLinks(t, new) /\ acct' = acct
  BY DEF FinishRevoke
<1>4. \A l \in Links : new[l].status = th[t].read[l]
                       \/ (th[t].read[l] = "Active" /\ new[l].status = "Revoked")
  BY <1>2
<1>5. lost'.link = (lost.link \/ th[t].old)
  BY DEF FinishRevoke, Typed, TypeOK
<1> HIDE DEF new
<1>6. ASSUME NEW l \in Links, link'[l].status # link[l].status PROVE Turns(t, l)
  BY <1>3, <1>4, <1>6, WrittenIs DEF Turns
<1>7. due' = due
  BY <1>3 DEF WriteLinks
<1>8. /\ acct'.closed = (acct.closed \/ Closing(t)) /\ ~Closing(t)
      /\ lost.link => lost'.link
      /\  th[t].old => lost'.link
  <2>1. ~Closing(t) /\ acct' = acct /\ acct.closed \in BOOLEAN
    BY <1>1, <1>3 DEF Closing, Typed, TypeOK
  <2> QED
    BY <2>1, <1>5
<1> QED
  BY <1>1, <1>8, <1>6, <1>7 DEF LinkWrite, OnLinks

LEMMA LinkWriteTells ==
  ASSUME Typed, LinksTell, NEW t \in Threads, LinkWrite(t)
  PROVE  LinksTell' /\ LinkEnds
<1>1. ReadsLinks(t) /\ HandsOut(t) /\ th[t] \in Jobs
  BY DEF LinkWrite, LinksTell, LinkJob, Typed
<1>2. th[t].op \in OnLinks /\ \A l \in Links : link'[l].status # link[l].status => Turns(t, l)
  BY DEF LinkWrite
<1>3. ASSUME NEW l \in Links, link[l].status # "none" PROVE link'[l].status # "none"
  BY <1>2, <1>3 DEF Turns
<1>4. ASSUME NEW l \in Links, link[l].status # "Active", link[l].status # "none",
             link'[l].status # link[l].status
      PROVE  lost'.link
  <2>1. SUFFICES ASSUME ~lost'.link PROVE FALSE
    OBVIOUS
  <2>2. link' # link /\ ~th[t].old /\ ~lost.link
    BY <1>4, <2>1 DEF LinkWrite
  <2>3. th[t].read[l] = link[l].status
    BY <1>1, <1>2, <2>2 DEF ReadsLinks
  <2>4. th[t].op = "send" /\ l = th[t].l
    BY <1>2, <1>4, <2>3 DEF Turns
  <2>5. th[t].read[l] = "Active" \/ th[t].read[l] = "none"
    BY <1>1, <2>2, <2>4 DEF HandsOut, HandsNew
  <2> QED
    BY <1>4, <2>3, <2>5
<1>5. LinkEnds
  BY <1>4 DEF LinkEnds
<1>6. ASSUME ~lost'.link
      PROVE  (\A k, l \in Active' : k = l) /\ (acct'.closed => Active' = {})
  <2>1. ~lost.link /\ due' = due
    BY <1>6 DEF LinkWrite
  <2>2. (\A k, l \in Active : k = l) /\ (acct.closed => Active = {})
    BY <2>1 DEF LinksTell, OneActive
  <2>3. CASE link' = link /\ ~Closing(t)
    BY <2>2, <2>3 DEF Active, LinkWrite
  <2>4. CASE Closing(t)
    <3>1. \A l \in Links : th[t].read[l] = link[l].status
      BY <1>1, <1>2, <1>6, <2>4 DEF ReadsLinks, LinkWrite
    <3>2. ASSUME NEW l \in Links PROVE link'[l].status # "Active"
      <4>1. th[t].read[l] = "Active" => link'[l].status # "Active"
        BY <2>4 DEF LinkWrite
      <4>2. th[t].op # "send"
        BY <2>4 DEF Closing
      <4> QED
        BY <1>2, <3>1, <4>1, <4>2 DEF Turns
    <3> QED
      BY <3>2 DEF Active
  <2>5. CASE link' # link /\ ~Closing(t)
    <3>1. \A l \in Links : th[t].read[l] = link[l].status
      BY <1>1, <1>2, <1>6, <2>5 DEF ReadsLinks, LinkWrite
    <3>2. acct'.closed = acct.closed
      BY <2>5 DEF LinkWrite, Closing, Typed, TypeOK
    <3>3. CASE Active' \subseteq Active
      BY <2>2, <3>2, <3>3
    <3>4. CASE ~(Active' \subseteq Active)
      <4>1. PICK l \in Links : link'[l].status = "Active" /\ link[l].status # "Active"
        BY <3>4 DEF Active
      <4>2. th[t].op = "send" /\ l = th[t].l /\ th[t].read[l] # "Active"
        BY <1>2, <4>1 DEF Turns
      <4>3. ~th[t].old
        BY <1>6, <2>5 DEF LinkWrite
      <4>4. th[t].pay /\ Active \subseteq due /\ ~acct.closed
        BY <1>1, <2>1, <4>2, <4>3 DEF HandsOut, HandsNew
      <4>5. ASSUME NEW k \in Links, k # l PROVE link'[k].status # "Active"
        <5>1. CASE link[k].status = "Active"
          <6>1. k \in Active /\ k \in due
            BY <4>4, <5>1 DEF Active
          <6>2. \A i \in Links : th[t].read[i] = "Active" => i <= k
            BY <2>2, <3>1, <6>1 DEF Active
          <6>3. link'[k].status = "Expired"
            BY <3>1, <4>2, <4>4, <4>5, <5>1, <6>1, <6>2 DEF LinkWrite
          <6> QED
            BY <6>3
        <5>2. CASE link[k].status # "Active"
          BY <1>2, <4>2, <4>5, <5>2 DEF Turns
        <5> QED
          BY <5>1, <5>2
      <4> QED
        BY <3>2, <4>4, <4>5 DEF Active
    <3> QED
      BY <3>3, <3>4
  <2> QED
    BY <2>3, <2>4, <2>5
<1>7. ASSUME NEW u \in Threads, th'[u] # Idle PROVE LinkJob(u)'
  <2>1. u # t /\ th[u] # Idle /\ SameJob(th[u], th'[u])
    BY <1>7 DEF LinkWrite, Kept
  <2>2. LinkJob(u)
    BY <2>1 DEF LinksTell
  <2>3. /\ th'[u].op = th[u].op /\ th'[u].l = th[u].l /\ th'[u].pay = th[u].pay
        /\ th'[u].read = th[u].read
        /\ th[u].old => th'[u].old
    BY <2>1 DEF SameJob
  <2>4. ~th'[u].old => link' = link /\ ~Closing(t)
    BY <1>7 DEF LinkWrite
  <2>5. ReadsLinks(u)'
    BY <1>3, <2>2, <2>3, <2>4 DEF LinkJob, ReadsLinks
  <2>6. Revokes(u)'
    BY <2>2, <2>3 DEF LinkJob, Revokes
  <2>7. ASSUME th[u].op = "send", ~lost'.link, th[u].l # 0, th[u].read[th[u].l] # "Active"
        PROVE  HandsNew(u)'
    <3>1. HandsNew(u) /\ ~lost.link /\ th[u].l \in Links
      BY <2>2, <2>7 DEF LinkWrite, LinkJob, HandsOut
    <3>2. link'[th[u].l].status = "none"
      <4>1. SUFFICES ASSUME link'[th[u].l].status # "none" PROVE FALSE
        OBVIOUS
      <4>2. Turns(t, th[u].l)
        BY <1>2, <3>1, <4>1 DEF HandsNew
      <4>3. th[t].read[th[u].l] # "Active"
        BY <1>1, <1>2, <3>1 DEF ReadsLinks, HandsNew
      <4>4. Busy(t, "send") /\ th[u].l = th[t].l
        BY <4>2, <4>3 DEF Turns, Busy, LinkWrite
      <4> QED
        BY <2>1, <3>1, <4>4 DEF HandsNew
    <3>3. ASSUME NEW v \in Threads \ {u}, Busy(v, "send")' PROVE th'[v].l # th[u].l
      <4>1. v # t /\ Busy(v, "send") /\ th'[v].l = th[v].l
        BY <3>3 DEF LinkWrite, Busy, Kept, SameJob
      <4> QED
        BY <3>1, <4>1 DEF HandsNew
    <3>4. ~th'[u].old => (Active \subseteq due)' /\ ~acct'.closed
      BY <2>3, <2>4, <3>1 DEF HandsNew, Active, LinkWrite, Closing
    <3> QED
      BY <2>3, <3>1, <3>2, <3>3, <3>4 DEF HandsNew
  <2>8. HandsOut(u)'
    <3>1. lost.link => lost'.link
      BY DEF LinkWrite
    <3> QED
      BY <2>2, <2>3, <2>7, <3>1 DEF LinkJob, HandsOut
  <2> QED
    BY <2>5, <2>6, <2>8 DEF LinkJob
<1>8. OneActive'
  BY <1>6 DEF OneActive
<1> QED
  BY <1>5, <1>7, <1>8 DEF LinksTell

\* A job goes on knowing what it knows of links nobody wrote.
LEMMA OthersLinks ==
  ASSUME Typed, LinksTell, NEW u \in Threads, Kept(u), th'[u] # Idle,
         link' = link, due \subseteq due', acct'.closed = acct.closed, lost.link => lost'.link,
         \A v \in Threads \ {u} : th'[v] # Idle /\ th'[v].op = "send" =>
            \/ th[v] # Idle /\ th[v].op = "send" /\ th[v].l = th'[v].l
            \/ th'[v].l # th[u].l
            \/ th[u].l # 0 /\ link[th[u].l].status # "none"
            \/ lost.link
  PROVE  LinkJob(u)'
<1>1. th[u] # Idle /\ SameJob(th[u], th'[u]) /\ LinkJob(u)
  BY DEF Kept, LinksTell
<1>2. /\ th'[u].op = th[u].op /\ th'[u].l = th[u].l /\ th'[u].pay = th[u].pay
      /\ th'[u].read = th[u].read
      /\ th[u].old => th'[u].old
  BY <1>1 DEF SameJob
<1>3. ReadsLinks(u)' /\ Revokes(u)'
  BY <1>1, <1>2 DEF LinkJob, ReadsLinks, Revokes
<1>4. ASSUME HandsNew(u), ~lost.link PROVE HandsNew(u)'
  <2>1. \A v \in Threads \ {u} : Busy(v, "send")' => th'[v].l # th[u].l
    BY <1>4 DEF HandsNew, Busy
  <2>2. Active' = Active
    BY DEF Active
  <2> QED
    BY <1>2, <1>4, <2>1, <2>2 DEF HandsNew
<1>5. HandsOut(u)'
  BY <1>1, <1>2, <1>4 DEF LinkJob, HandsOut
<1> QED
  BY <1>3, <1>5 DEF LinkJob

\* What a step that writes no links may do.
LinksSame(t) ==
    /\ \A u \in Threads \ {t} : Kept(u)
    /\ link' = link /\ due \subseteq due' /\ acct'.closed = acct.closed
    /\ lost'.link = lost.link

LEMMA LinksSameTell ==
  ASSUME Typed, LinksTell, NEW t \in Threads, LinksSame(t),
         th'[t] # Idle => LinkJob(t)',
         th'[t] # Idle /\ th'[t].op = "send" =>
            \/ th[t] # Idle /\ th[t].op = "send" /\ th[t].l = th'[t].l
            \/ \A u \in Threads \ {t} : th[u] # Idle /\ th[u].op = "send" /\ th[u].l = th'[t].l =>
                  th[u].l = 0 \/ link[th[u].l].status # "none" \/ lost.link
  PROVE  LinksTell' /\ LinkEnds
<1>1. ASSUME NEW u \in Threads \ {t}, th'[u] # Idle, th'[u].op # "send" PROVE LinkJob(u)'
  <2>1. th[u] # Idle /\ SameJob(th[u], th'[u]) /\ LinkJob(u)
    BY <1>1 DEF LinksSame, Kept, LinksTell
  <2> QED
    BY <1>1, <2>1 DEF LinksSame, SameJob, LinkJob, ReadsLinks, Revokes, HandsOut
<1>2. ASSUME NEW u \in Threads \ {t}, th'[u] # Idle, th'[u].op = "send", th'[u].l = 0
      PROVE  LinkJob(u)'
  <2>1. th[u] # Idle /\ SameJob(th[u], th'[u]) /\ LinkJob(u)
    BY <1>2 DEF LinksSame, Kept, LinksTell
  <2> QED
    BY <1>2, <2>1 DEF LinksSame, SameJob, LinkJob, ReadsLinks, Revokes, HandsOut
<1>3. ASSUME NEW u \in Threads \ {t}, th'[u] # Idle, th'[u].op = "send", th'[u].l # 0
      PROVE  LinkJob(u)'
  <2>1. /\ th[u] # Idle /\ th[u].op = "send" /\ th[u].l # 0 /\ Kept(u)
        /\ \A v \in Threads \ {u, t} : Kept(v)
    BY <1>3 DEF LinksSame, Kept, SameJob
  <2>2. ASSUME NEW v \in Threads \ {u}, th'[v] # Idle, th'[v].op = "send"
        PROVE  \/ th[v] # Idle /\ th[v].op = "send" /\ th[v].l = th'[v].l
               \/ th'[v].l # th[u].l
               \/ th[u].l # 0 /\ link[th[u].l].status # "none"
               \/ lost.link
    <3>1. CASE v = t
      BY <2>1, <2>2, <3>1
    <3>2. CASE v # t
      BY <2>1, <2>2, <3>2 DEF Kept, SameJob
    <3> QED
      BY <3>1, <3>2
  <2> QED
    BY <1>3, <2>1, <2>2, OthersLinks DEF LinksSame
<1>4. OneActive'
  <2>1. Active' = Active
    BY DEF LinksSame, Active
  <2> QED
    BY <2>1 DEF LinksTell, OneActive, LinksSame
<1>5. LinkEnds
  BY DEF LinksSame, LinkEnds
<1> QED
  BY <1>1, <1>2, <1>3, <1>4, <1>5 DEF LinksTell

LEMMA PrepareSendLinks ==
  ASSUME Typed, LinksTell, NEW t \in Threads, NEW c \in Comms, NEW k \in Keys, NEW pay \in BOOLEAN,
         th[t] = Idle, PrepareSend(t, c, k, pay)
  PROVE  LinksTell' /\ LinkEnds
<1>1. Prepared(t, c, k, pay)
  BY PrepareSendIs
<1>2. /\ link' = link /\ due' = due /\ acct' = acct /\ lost' = lost /\ ~acct.closed
  BY DEF PrepareSend, Eligible
<1>3. /\ th'[t] # Idle /\ th'[t].op = "send" /\ th'[t].pay = pay
      /\ \A l \in Links : th'[t].read[l] = link[l].status
      /\ IF pay THEN th'[t].l \in Links /\ EnsureLink(th'[t].l) ELSE th'[t].l = 0
      /\ \A u \in Threads \ {t} : th'[u] = th[u]
  BY <1>1 DEF Prepared, Turned, LinkStatus
<1>4. LinksSame(t)
  BY <1>1, <1>2 DEF LinksSame, Prepared, Turned
<1>5. ASSUME pay, ~lost.link
      PROVE  \/ link[th'[t].l].status = "Active"
             \/ FreshLink(th'[t].l) /\ Active \subseteq due
  <2>1. \A i, j \in Active : i = j
    BY <1>5 DEF LinksTell, OneActive
  <2>2. ASSUME NEW a \in Active PROVE Newest(Active) \in Active
    <3>1. a \in Active /\ \A j \in Active : j <= a
      BY <2>1, <2>2 DEF Active
    <3> QED
      BY <3>1 DEF Newest
  <2>3. CASE Active # {} /\ Newest(Active) \notin due
    <3>1. th'[t].l = Newest(Active) /\ Newest(Active) \in Active
      BY <1>3, <1>5, <2>2, <2>3 DEF EnsureLink
    <3> QED
      BY <3>1 DEF Active
  <2>4. CASE ~(Active # {} /\ Newest(Active) \notin due)
    <3>1. FreshLink(th'[t].l)
      BY <1>3, <1>5, <2>4 DEF EnsureLink
    <3>2. Active \subseteq due
      BY <2>1, <2>2, <2>4
    <3> QED
      BY <3>1, <3>2
  <2> QED
    BY <2>3, <2>4
<1>6. LinkJob(t)'
  <2>1. ReadsLinks(t)' /\ Revokes(t)'
    BY <1>2, <1>3 DEF ReadsLinks, Revokes
  <2>2. ASSUME pay, FreshLink(th'[t].l), Active \subseteq due PROVE HandsNew(t)'
    <3>1. link[th'[t].l].status = "none" /\ \A u \in Threads : th[u] # Idle => th[u].l # th'[t].l
      BY <2>2 DEF FreshLink
    <3>2. \A u \in Threads \ {t} : Busy(u, "send")' => th'[u].l # th'[t].l
      BY <1>3, <3>1 DEF Busy
    <3>3. (Active \subseteq due)'
      BY <1>2, <2>2 DEF Active
    <3> QED
      BY <1>2, <1>3, <2>2, <3>1, <3>2, <3>3 DEF HandsNew
  <2>3. HandsOut(t)'
    BY <1>2, <1>3, <1>5, <2>2 DEF HandsOut
  <2> QED
    BY <2>1, <2>3 DEF LinkJob
<1>7. \A u \in Threads \ {t} : th[u] # Idle /\ th[u].op = "send" /\ th[u].l = th'[t].l =>
          th[u].l = 0 \/ link[th[u].l].status # "none" \/ lost.link
  <2>1. CASE pay /\ ~lost.link
    <3>1. CASE FreshLink(th'[t].l)
      BY <3>1 DEF FreshLink
    <3>2. CASE ~FreshLink(th'[t].l)
      BY <1>5, <2>1, <3>2
    <3> QED
      BY <3>1, <3>2
  <2>2. CASE ~pay
    BY <1>3, <2>2
  <2> QED
    BY <2>1, <2>2
<1> QED
  BY <1>4, <1>6, <1>7, LinksSameTell

LEMMA StepLinks ==
  ASSUME Typed, LinksTell, NEW t \in Threads, Step(t)
  PROVE  LinksTell' /\ LinkEnds
<1>0. \A u \in Threads \ {t} : Kept(u)
  BY StepTyped
<1>1. CASE FinishSend(t) \/ FinishVisit(t) \/ FinishCheckout(t) \/ FinishRevoke(t)
  BY <1>1, FinishSendWrites, FinishVisitWrites, FinishCheckoutWrites, FinishRevokeWrites,
     LinkWriteTells
<1>2. CASE RequestSend(t)
  <2>1. PICK c \in Comms, k \in Keys, pay \in BOOLEAN : RefuseSend(c, k, pay) \/ PrepareSend(t, c, k, pay)
    BY <1>2 DEF RequestSend
  <2>2. th[t] = Idle
    BY <1>2 DEF RequestSend
  <2>3. CASE RefuseSend(c, k, pay)
    <3>1. th'[t] = Idle
      BY <2>2, <2>3, RefuseSendIs DEF Refused
    <3>2. LinksSame(t)
      BY <1>0, <2>3 DEF LinksSame, RefuseSend
    <3> QED
      BY <3>1, <3>2, LinksSameTell
  <2> QED
    BY <2>1, <2>2, <2>3, PrepareSendLinks
<1>3. CASE Visit(t) \/ Checkout(t) \/ Revoke(t)
  <2>1. LinksSame(t)
    BY <1>0, <1>3 DEF LinksSame, Visit, Checkout, Revoke
  <2>2. /\ th'[t].op # "send" /\ th'[t].read = LinkStatus
        /\ th'[t].op = "revoke" => th'[t].l \in Links /\ link[th'[t].l].status = "Active"
    <3>1. CASE Visit(t)
      BY <3>1, VisitIs
    <3>2. CASE Checkout(t)
      <4>1. /\ th'[t].op = "checkout" /\ th'[t].read = LinkStatus
        BY <3>2, CheckoutIs
      <4> QED
        BY <4>1
    <3>3. CASE Revoke(t)
      BY <3>3, RevokeIs
    <3> QED
      BY <1>3, <3>1, <3>2, <3>3
  <2>3. LinkJob(t)'
    BY <2>1, <2>2 DEF LinksSame, LinkJob, ReadsLinks, HandsOut, Revokes, LinkStatus
  <2> QED
    BY <2>1, <2>2, <2>3, LinksSameTell
<1>4. CASE Receive(t) \/ ApplyEvent(t) \/ CommitEvents(t)
  <2>1. LinksSame(t)
    BY <1>0, <1>4 DEF LinksSame, Receive, ApplyEvent, CommitEvents, Typed, TypeOK
  <2>2. th'[t] # Idle => th'[t].op = "apply" \/ th'[t].op = "tell"
    <3>1. CASE Receive(t)
      BY <3>1, ReceiveIs
    <3>2. CASE ApplyEvent(t)
      BY <3>2, ApplyEventIs DEF SameCall, Busy
    <3>3. CASE CommitEvents(t)
      BY <3>3, CommitEventsIs
    <3> QED
      BY <1>4, <3>1, <3>2, <3>3
  <2>3. th'[t] # Idle => LinkJob(t)'
    BY <2>2 DEF LinkJob, ReadsLinks, HandsOut, Revokes, OnLinks
  <2> QED
    BY <2>1, <2>2, <2>3, LinksSameTell
<1>5. CASE Transmit(t)
  <2>1. LinksSame(t)
    BY <1>0, <1>5 DEF LinksSame, Transmit
  <2>2. /\ th[t] # Idle /\ th[t].op = "send" /\ th'[t].op = "send" /\ th'[t].l = th[t].l
        /\ th'[t].pay = th[t].pay /\ th'[t].read = th[t].read /\ th'[t].old = th[t].old
        /\ \A u \in Threads \ {t} : th'[u] = th[u]
    BY <1>5, TransmitIs DEF SameCall, Busy, Turned
  <2>3. LinkJob(t)
    BY <2>2 DEF LinksTell
  <2>4. HandsNew(t) => HandsNew(t)'
    <3>1. Active' = Active /\ due' = due /\ acct' = acct
      BY <1>5 DEF Active, Transmit
    <3>2. \A u \in Threads \ {t} : Busy(u, "send")' => Busy(u, "send") /\ th'[u].l = th[u].l
      BY <2>2 DEF Busy
    <3> QED
      BY <2>1, <2>2, <3>1, <3>2 DEF HandsNew, LinksSame
  <2>5. LinkJob(t)'
    BY <2>1, <2>2, <2>3, <2>4 DEF LinkJob, ReadsLinks, HandsOut, Revokes, LinksSame
  <2> QED
    BY <2>1, <2>2, <2>5, LinksSameTell
<1>6. CASE RejectEvents(t) \/ TellWorkflow(t) \/ Crash(t)
  <2>1. LinksSame(t)
    BY <1>0, <1>6 DEF LinksSame, RejectEvents, TellWorkflow, Crash, Typed, TypeOK
  <2>2. th'[t] = Idle
    BY <1>6, EndsAre
  <2> QED
    BY <2>1, <2>2, LinksSameTell
<1> QED
  BY <1>1, <1>2, <1>3, <1>4, <1>5, <1>6 DEF Step

LEMMA NextLinks ==
  ASSUME Typed, LinksTell, [Next]_vars
  PROVE  LinksTell' /\ LinkEnds
<1>1. CASE \E t \in Threads : Step(t)
  BY <1>1, StepLinks
<1>2. ASSUME th' = th, link' = link, due \subseteq due', acct'.closed = acct.closed, lost' = lost
      PROVE  LinksTell' /\ LinkEnds
  <2>1. Active' = Active
    BY <1>2 DEF Active
  <2>2. ASSUME NEW t \in Threads, th[t] # Idle PROVE LinkJob(t)'
    <3>1. LinkJob(t)
      BY <2>2 DEF LinksTell
    <3>2. HandsNew(t) => HandsNew(t)'
      BY <1>2, <2>1 DEF HandsNew, Busy
    <3> QED
      BY <1>2, <3>1, <3>2 DEF LinkJob, ReadsLinks, HandsOut, Revokes
  <2>3. OneActive'
    BY <1>2, <2>1 DEF LinksTell, OneActive
  <2>4. LinkEnds
    BY <1>2 DEF LinkEnds
  <2> QED
    BY <1>2, <2>2, <2>3, <2>4 DEF LinksTell
<1>3. CASE Environment
  BY <1>2, <1>3, EnvironmentIs
<1>4. CASE UNCHANGED vars
  BY <1>2, <1>4 DEF vars
<1> QED
  BY <1>1, <1>3, <1>4 DEF Next, Environment

LEMMA InitLinks == Init => LinksTell
<1> SUFFICES ASSUME Init PROVE LinksTell
  OBVIOUS
<1>1. Active = {}
  BY DEF Init, Active, NoLink
<1> QED
  BY <1>1 DEF Init, LinksTell, OneActive

(* A customer holds one usable link and none once the case is settled,     *)
(* however many requests, visits and payments, unless requests on the      *)
(* links overlapped: an expired link the send met stops being active with  *)
(* the commit that hands the new one out.                                  *)
THEOREM OneLink == Spec => []OneUsableLink
<1>1. Typed /\ LinksTell => OneUsableLink
  <2> SUFFICES ASSUME Typed, LinksTell, ~lost.link
               PROVE  Cardinality(Usable) <= (IF acct.closed THEN 0 ELSE 1)
    BY DEF OneUsableLink
  <2>1. (\A k, l \in Usable : k = l) /\ (acct.closed => Usable = {})
    BY DEF LinksTell, OneActive, Usable
  <2>2. CASE Usable = {}
    BY <2>2, FS_EmptySet
  <2>3. CASE Usable # {}
    <3>1. PICK l \in Usable : TRUE
      BY <2>3
    <3>2. Usable = {l}
      BY <2>1, <3>1
    <3>3. Cardinality(Usable) = 1
      BY <3>2, FS_Singleton
    <3> QED
      BY <2>1, <2>3, <3>3
  <2> QED
    BY <2>2, <2>3
<1>2. Init => Typed /\ LinksTell
  BY InitTyped, InitLinks
<1>3. Typed /\ LinksTell /\ [Next]_vars => Typed' /\ LinksTell'
  BY NextTyped, NextLinks
<1> QED
  BY <1>1, <1>2, <1>3, PTL DEF Spec

(* Neither statuses nor links go backwards, whatever order events, visits, *)
(* payments and staff come in, unless somebody wrote over what he had not  *)
(* read.                                                                   *)
THEOREM NothingGoesBack == Spec => NeverBackwards
<1>1. Init => Told /\ LinksTell
  BY InitTold, InitLinks
<1>2. Told /\ LinksTell /\ [Next]_vars => Told' /\ LinksTell' /\ [Climbs /\ LinkEnds]_vars
  BY NextTold, NextLinks DEF Told
<1> QED
  BY <1>1, <1>2, PTL DEF Spec, NeverBackwards
=============================================================================
