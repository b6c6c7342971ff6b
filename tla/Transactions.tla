---------------------------- MODULE Transactions ----------------------------
(***************************************************************************)
(* How a request or a background task works on the database: it runs a     *)
(* program of transactions, each of which reads what is committed (READ    *)
(* COMMITTED), computes new rows in its session, and commits them at a     *)
(* later step, so that other transactions come in between.  One handler    *)
(* takes a row lock: an import holds the accounts it opens a review for    *)
(* (create_review).  That only keeps other writers of these accounts       *)
(* waiting; here they do not wait, and may come in between all the same.   *)
(*                                                                         *)
(* A row is a record with a field "kind"; its id is the pair of the        *)
(* request that inserted it and a serial number.  A handler is written as  *)
(* an operator from the database to the database it wants; what its        *)
(* session flushes is the difference: new rows, deleted rows and the       *)
(* changed columns of the others.                                          *)
(***************************************************************************)
EXTENDS Naturals, Sequences, FiniteSets

CONSTANTS
  Requests    \* the requests and background tasks that may run

VARIABLES
  db,       \* the committed rows, by id
  todo,     \* the transactions a request still has to run, in order
  plan,     \* what the open transactions are going to write
  serial,   \* the last id a request drew: a rollback does not give it back
  met,      \* history: the pairs of requests whose transactions overlapped
  faults,   \* how often the process died or the database failed at a commit
  story     \* what this behaviour starts with: [rows, todo, answers, faults]

vars == <<db, todo, plan, serial, met, faults, story>>

NoRows == <<>>
Table(d, kind) == {i \in DOMAIN d : d[i].kind = kind}
First(S) == CHOOSE i \in S : TRUE
Without(f, gone) == [i \in DOMAIN f \ gone |-> f[i]]
Over(f, g) == [i \in DOMAIN f \cup DOMAIN g |-> IF i \in DOMAIN f THEN f[i] ELSE g[i]]

(* The rows of the session d that r has inserted, and the id of its next. *)
New(d) == DOMAIN d \ DOMAIN db
Drawn(d, r) == serial[r] + Cardinality(New(d))
Fresh(d, r) == <<r, Drawn(d, r) + 1>>
Inserted(d, r, row) == Over(d, [i \in {Fresh(d, r)} |-> row])
InsertedAll(d, r, rows) ==
  Over(d, [i \in {<<r, Drawn(d, r) + n>> : n \in DOMAIN rows} |-> rows[i[2] - Drawn(d, r)]])

ChangedColumns(old, new) == [c \in {k \in DOMAIN new : new[k] # old[k]} |-> new[c]]

Difference(old, new) ==
  [insert |-> [i \in DOMAIN new \ DOMAIN old |-> new[i]],
   update |-> [i \in {j \in DOMAIN new \cap DOMAIN old : new[j] # old[j]}
               |-> ChangedColumns(old[i], new[i])],
   delete |-> DOMAIN old \ DOMAIN new]

(* What the flush of w leaves of the rows d. *)
Flushed(d, w) ==
  Over(w.insert, [i \in DOMAIN d \ w.delete |->
                    IF i \in DOMAIN w.update THEN Over(w.update[i], d[i]) ELSE d[i]])

Idle(r)  == r \notin DOMAIN plan
Next1(r, do) == Idle(r) /\ todo[r] # <<>> /\ Head(todo[r]).do = do
Op(r)    == Head(todo[r])
Rest(r)  == Tail(todo[r])

(* r's transaction has read db and will write the rows d; then it goes on  *)
(* with "then", or with "else" if the database refuses.                    *)
Opens(r, d, then, else) ==
  /\ plan' = Over(plan, [q \in {r} |-> [write |-> Difference(db, d), then |-> then, else |-> else]])
  /\ met' = met \cup {{r, q} : q \in DOMAIN plan}
  /\ serial' = [serial EXCEPT ![r] = @ + Cardinality(New(d))]
  /\ UNCHANGED <<db, todo, faults, story>>

(* What a refused request does, and a transaction that only reads. *)
GoesOn(r, then) ==
  /\ todo' = [todo EXCEPT ![r] = then]
  /\ UNCHANGED <<db, plan, serial, met, faults, story>>

(* A request that is refused writes nothing and is over. *)
Tries(r, accepted, d) ==
  IF accepted THEN Opens(r, d, Rest(r), <<>>) ELSE GoesOn(r, <<>>)

(* The commit.  An UPDATE that matches no row is an error (StaleDataError),*)
(* as is a violated constraint; a DELETE that matches none is not.  sound  *)
(* tells whether the rows After(r) obey the constraints.                   *)
After(r) == Flushed(db, plan[r].write)
Commits(r, sound) ==
  LET p == plan[r]
      taken == DOMAIN p.write.update \subseteq DOMAIN db /\ sound
  IN /\ db' = IF taken THEN After(r) ELSE db
     /\ todo' = [todo EXCEPT ![r] = IF taken THEN p.then ELSE p.else]
     /\ plan' = Without(plan, {r})
     /\ UNCHANGED <<serial, met, faults, story>>

(* The database fails at the commit: the connection is lost, or it gives   *)
(* the transaction up.                                                     *)
Refused(r) ==
  /\ r \in DOMAIN plan /\ faults < story.faults
  /\ faults' = faults + 1
  /\ plan' = Without(plan, {r})
  /\ todo' = [todo EXCEPT ![r] = plan[r].else]
  /\ UNCHANGED <<db, serial, met, story>>

(* The process dies: open transactions roll back, and neither requests nor *)
(* background tasks that had begun are taken up again.                     *)
Die ==
  /\ faults < story.faults
  /\ faults' = faults + 1
  /\ plan' = NoRows
  /\ todo' = [r \in Requests |->
                IF r \in DOMAIN plan \/ todo[r] # story.todo[r] THEN <<>> ELSE todo[r]]
  /\ UNCHANGED <<db, serial, met, story>>

StartsWith(s) ==
  /\ db = s.rows /\ todo = s.todo /\ story = s
  /\ plan = NoRows /\ serial = [r \in Requests |-> 0] /\ met = {} /\ faults = 0
=============================================================================
