------------------------ MODULE AdministrationProofs ------------------------
(***************************************************************************)
(* Theorems about Administration, for every number of requests, whatever   *)
(* they do, in any interleaving, from any tables the assumptions allow.    *)
(*                                                                         *)
(* 1. A session: the committed rows and what one request has changed in    *)
(*    them.  Each handler is shown to make a session of well-shaped rows   *)
(*    (Session) that sees to what it must (Careful): StepAdvances.         *)
(* 2. What is open: each open transaction writes new ids and well-shaped   *)
(*    columns, whatever was committed since it began (Shaped, in Inv).     *)
(* 3. The step of another request in between: what two requests write      *)
(*    together is what one of them found unless they overlapped            *)
(*    (AccessInv).                                                         *)
(*                                                                         *)
(* AdministrationIntakeProofs goes on with files, numbers and drafts.      *)
(***************************************************************************)
EXTENDS Administration, FiniteSetTheorems, FunctionTheorems, WellFoundedInduction, TLAPS

(***************************************************************************)
(* Numbers and sequences.                                                  *)
(***************************************************************************)
\* Induction over the numbers, for a set rather than a predicate.
LEMMA SetInduction ==
  ASSUME NEW S, 0 \in S, \A n \in Nat : n \in S => n + 1 \in S
  PROVE  Nat \subseteq S
<1> SUFFICES ASSUME NEW x \in Nat, x \notin S PROVE FALSE
  OBVIOUS
<1> DEFINE T == Nat \ S
<1>1. T # {} /\ T \subseteq Nat
  OBVIOUS
<1>2. PICK m \in T : \A y \in T : ~(<<y, m>> \in OpToRel(<, Nat))
  BY <1>1, NatLessThanWellFounded, WFMin
<1>3. m \in Nat /\ m \notin S /\ m # 0
  OBVIOUS
<1>4. m - 1 \in Nat /\ m = (m - 1) + 1 /\ m - 1 < m
  BY <1>3
<1>5. m - 1 \in T
  BY <1>3, <1>4
<1>6. <<m - 1, m>> \in OpToRel(<, Nat)
  BY <1>3, <1>4 DEF OpToRel
<1> QED
  BY <1>2, <1>5, <1>6

\* SetToSeq lists a finite set, so that InsertedAll takes its members as rows.
LEMMA Listed ==
  ASSUME NEW S, IsFiniteSet(S)
  PROVE  Cardinality(S) \in Nat /\ SetToSeq(S) \in [1 .. Cardinality(S) -> S]
<1>1. Cardinality(S) \in Nat /\ ExistsBijection(1 .. Cardinality(S), S)
  BY FS_CardinalityType, Zenon
<1>2. PICK f : f \in Bijection(1 .. Cardinality(S), S)
  BY <1>1 DEF ExistsBijection
<1>3. f \in [1 .. Cardinality(S) -> S] /\ IsInjective(f)
  BY <1>2 DEF Bijection, Injection, IsInjective
<1> QED
  BY <1>1, <1>3 DEF SetToSeq

(***************************************************************************)
(* Functions laid over each other.                                         *)
(***************************************************************************)
\* A function, which is what its domain and its values make it.
Fun(f) == f = [i \in DOMAIN f |-> f[i]]

\* What the first function does not say, the second does.
LEMMA OverIs ==
  ASSUME NEW f, NEW g
  PROVE  /\ Fun(Over(f, g)) /\ DOMAIN Over(f, g) = DOMAIN f \cup DOMAIN g
         /\ \A i \in DOMAIN f : Over(f, g)[i] = f[i]
         /\ \A i \in DOMAIN g \ DOMAIN f : Over(f, g)[i] = g[i]
  BY DEF Over, Fun

LEMMA WithoutIs ==
  ASSUME NEW f, NEW gone
  PROVE  /\ Fun(Without(f, gone)) /\ DOMAIN Without(f, gone) = DOMAIN f \ gone
         /\ \A i \in DOMAIN f \ gone : Without(f, gone)[i] = f[i]
  BY DEF Without, Fun

\* The changed columns laid over the old row give the new row.
LEMMA Patched ==
  ASSUME NEW x, NEW y, Fun(y), DOMAIN x = DOMAIN y
  PROVE  Over(ChangedColumns(x, y), x) = y
<1> DEFINE g == ChangedColumns(x, y)
<1>1. DOMAIN g = {c \in DOMAIN y : y[c] # x[c]} /\ \A c \in DOMAIN g : g[c] = y[c]
  BY DEF ChangedColumns
<1> HIDE DEF g
<1>2. DOMAIN Over(g, x) = DOMAIN y /\ \A c \in DOMAIN y : Over(g, x)[c] = y[c]
  BY <1>1 DEF Over
<1>3. Fun(Over(g, x))
  BY DEF Over, Fun
<1> QED
  BY <1>2, <1>3 DEF Fun, g

(* What a session wants is what its flush leaves of the rows it began with.*)
LEMMA FlushedDifference ==
  ASSUME NEW old, NEW new, Fun(new),
         \A i \in DOMAIN old \cap DOMAIN new :
           Fun(old[i]) /\ Fun(new[i]) /\ DOMAIN new[i] = DOMAIN old[i]
  PROVE  Flushed(old, Difference(old, new)) = new
<1> DEFINE w == Difference(old, new)
           f == Flushed(old, w)
<1>1. /\ DOMAIN w.insert = DOMAIN new \ DOMAIN old /\ w.delete = DOMAIN old \ DOMAIN new
      /\ DOMAIN w.update = {j \in DOMAIN new \cap DOMAIN old : new[j] # old[j]}
      /\ \A i \in DOMAIN new \ DOMAIN old : w.insert[i] = new[i]
      /\ \A i \in DOMAIN w.update : w.update[i] = ChangedColumns(old[i], new[i])
  BY DEF Difference
<1>2. DOMAIN f = DOMAIN new
  BY <1>1 DEF Flushed, Over
<1>3. Fun(f)
  BY DEF Flushed, Over, Fun
<1>4. ASSUME NEW i \in DOMAIN new PROVE f[i] = new[i]
  <2>1. CASE i \notin DOMAIN old
    BY <1>1, <2>1 DEF Flushed, Over
  <2>2. CASE i \in DOMAIN old /\ new[i] = old[i]
    BY <1>1, <2>2 DEF Flushed, Over
  <2>3. CASE i \in DOMAIN old /\ new[i] # old[i]
    <3>1. f[i] = Over(ChangedColumns(old[i], new[i]), old[i])
      BY <1>1, <2>3 DEF Flushed, Over
    <3>2. Fun(new[i]) /\ DOMAIN old[i] = DOMAIN new[i]
      BY <2>3
    <3> QED
      BY <3>1, <3>2, Patched, Zenon
  <2> QED
    BY <2>1, <2>2, <2>3
<1> QED
  BY <1>2, <1>3, <1>4 DEF Fun

\* A set of numbers has one that no other one is below.
LEMMA Least ==
  ASSUME NEW S, S \subseteq Nat, S # {}
  PROVE  \E q \in S : \A y \in S : q <= y
<1>1. PICK q \in S : \A y \in S : ~(<<y, q>> \in OpToRel(<, Nat))
  BY NatLessThanWellFounded, WFMin
<1>2. ASSUME NEW y \in S PROVE q <= y
  <2> SUFFICES ASSUME ~(q <= y) PROVE FALSE
    OBVIOUS
  <2>1. q \in Nat /\ y \in Nat /\ y < q
    OBVIOUS
  <2>2. <<y, q>> \in OpToRel(<, Nat)
    BY <2>1 DEF OpToRel
  <2> QED
    BY <1>1, <2>2
<1> QED
  BY <1>2

(***************************************************************************)
(* A session: the committed rows, with what a request has inserted,        *)
(* changed and deleted, all of it rows of the kinds K.                     *)
(***************************************************************************)
\* An id that is not one still to be drawn.
Old(i) == \A r \in Requests, n \in Nat : i = <<r, n>> => n <= serial[r]

\* The committed rows are well shaped and sound, and finitely many.
Stored ==
  /\ Fun(db) /\ IsFiniteSet(DOMAIN db) /\ SoundAll(db)
  /\ \A i \in DOMAIN db : Typed(db[i]) /\ Old(i)
  /\ serial \in [Requests -> Nat]

\* What a handler may change of a row x.
Kept(x, y) ==
  /\ y.kind = x.kind /\ x.kind \notin {"work", "use", "may"}
  /\ x.kind \in {"session", "refresh", "link"} =>
       \A c \in DOMAIN x : y[c] = x[c] \/ (c \in {"live", "unused"} /\ y[c] = FALSE)

\* Rows d of the session of r: new ones have the ids it drew, those it found are
\* changed as they may be, and none of the work of an account is deleted.
Session(r, d, K) ==
  /\ Fun(d) /\ IsFiniteSet(New(d))
  /\ \A i \in New(d) : d[i].kind \in K /\ \E n \in 1 .. Cardinality(New(d)) : i = <<r, serial[r] + n>>
  /\ \A i \in DOMAIN d : Typed(d[i])
  /\ \A i \in DOMAIN d \cap DOMAIN db : d[i] = db[i] \/ (Kept(db[i], d[i]) /\ d[i].kind \in K)
  /\ \A i \in DOMAIN db \ DOMAIN d : db[i].kind \in K \ {"work"}

\* A request begins with the committed rows.
LEMMA SessionBegins ==
  ASSUME Stored, NEW r, NEW K
  PROVE  Session(r, db, K) /\ New(db) = {}
  BY FS_EmptySet DEF Stored, Session, New

LEMMA SessionWidens ==
  ASSUME NEW r, NEW d, NEW K, Session(r, d, K), NEW L, K \subseteq L
  PROVE  Session(r, d, L)
  BY DEF Session

\* The next id of a request is the number of rows it has drawn, plus one.
LEMMA DrawnIs ==
  ASSUME Stored, NEW r \in Requests, NEW d, NEW K, Session(r, d, K)
  PROVE  /\ Cardinality(New(d)) \in Nat /\ serial[r] \in Nat
         /\ Drawn(d, r) = serial[r] + Cardinality(New(d)) /\ Drawn(d, r) \in Nat
         /\ \A n \in Nat \ {0} : <<r, Drawn(d, r) + n>> \notin DOMAIN d \cup DOMAIN db
<1>1. Cardinality(New(d)) \in Nat /\ serial[r] \in Nat
  BY FS_CardinalityType DEF Session, Stored
<1>2. Drawn(d, r) = serial[r] + Cardinality(New(d))
  BY DEF Drawn
<1>3. ASSUME NEW n \in Nat \ {0}, <<r, Drawn(d, r) + n>> \in DOMAIN db PROVE FALSE
  <2>1. Old(<<r, Drawn(d, r) + n>>)
    BY <1>3 DEF Stored
  <2>2. Drawn(d, r) + n \in Nat /\ Drawn(d, r) + n > serial[r]
    BY <1>1, <1>2
  <2> QED
    BY <1>1, <2>1, <2>2 DEF Old
<1>4. ASSUME NEW n \in Nat \ {0}, <<r, Drawn(d, r) + n>> \in New(d) PROVE FALSE
  <2>1. PICK m \in 1 .. Cardinality(New(d)) : <<r, Drawn(d, r) + n>> = <<r, serial[r] + m>>
    BY <1>4 DEF Session
  <2>2. Drawn(d, r) + n = serial[r] + m
    BY <2>1
  <2> QED
    BY <1>1, <1>2, <2>2
<1> QED
  BY <1>1, <1>2, <1>3, <1>4 DEF New

LEMMA FreshIs ==
  ASSUME Stored, NEW r \in Requests, NEW d, NEW K, Session(r, d, K)
  PROVE  Fresh(d, r) \notin DOMAIN d \cup DOMAIN db
<1>1. 1 \in Nat \ {0}
  OBVIOUS
<1>2. <<r, Drawn(d, r) + 1>> \notin DOMAIN d \cup DOMAIN db
  BY <1>1, DrawnIs
<1> QED
  BY <1>2 DEF Fresh

(* An insertion. *)
LEMMA Insertion ==
  ASSUME Stored, NEW r \in Requests, NEW d, NEW K, Session(r, d, K),
         NEW row, Typed(row), row.kind \in K, NEW e, e = Inserted(d, r, row)
  PROVE  /\ Session(r, e, K)
         /\ Fresh(d, r) \notin DOMAIN d \cup DOMAIN db /\ Fresh(d, r)[1] = r
         /\ DOMAIN e = DOMAIN d \cup {Fresh(d, r)} /\ New(e) = New(d) \cup {Fresh(d, r)}
         /\ e[Fresh(d, r)] = row /\ \A i \in DOMAIN d : e[i] = d[i]
<1> DEFINE u == Fresh(d, r)
           k == Cardinality(New(d))
<1>1. k \in Nat /\ serial[r] \in Nat /\ u = <<r, serial[r] + k + 1>> /\ u \notin DOMAIN d \cup DOMAIN db
  <2>1. k \in Nat /\ serial[r] \in Nat /\ Drawn(d, r) = serial[r] + k /\ 1 \in Nat \ {0}
    BY DrawnIs
  <2>2. u = <<r, Drawn(d, r) + 1>> /\ u \notin DOMAIN d \cup DOMAIN db
    BY <2>1, DrawnIs DEF Fresh
  <2> QED
    BY <2>1, <2>2
<1>2. /\ Fun(e) /\ DOMAIN e = DOMAIN d \cup {u} /\ e[u] = row /\ \A i \in DOMAIN d : e[i] = d[i]
  BY <1>1 DEF Inserted, Over, Fun
<1>3. New(e) = New(d) \cup {u}
  BY <1>1, <1>2 DEF New
<1>4. IsFiniteSet(New(e)) /\ Cardinality(New(e)) = k + 1
  <2>1. u \notin New(d) /\ IsFiniteSet(New(d))
    BY <1>1 DEF New, Session
  <2> QED
    BY <1>3, <2>1, FS_AddElement
<1> HIDE DEF u, k
<1>5. ASSUME NEW i \in New(e)
      PROVE  e[i].kind \in K /\ \E n \in 1 .. k + 1 : i = <<r, serial[r] + n>>
  <2>1. CASE i \in New(d)
    <3>1. PICK n \in 1 .. k : i = <<r, serial[r] + n>>
      BY <2>1 DEF Session, k
    <3>2. n \in 1 .. k + 1
      BY <1>1
    <3>3. d[i].kind \in K /\ e[i] = d[i]
      BY <1>2, <2>1 DEF Session, New
    <3> QED
      BY <3>1, <3>2, <3>3
  <2>2. CASE i = u
    <3>1. k + 1 \in 1 .. k + 1 /\ serial[r] + (k + 1) = serial[r] + k + 1
      BY <1>1
    <3> QED
      BY <1>1, <1>2, <2>2, <3>1
  <2> QED
    BY <1>3, <2>1, <2>2
<1>6. Session(r, e, K)
  <2>1. \A i \in DOMAIN e : Typed(e[i])
    BY <1>2 DEF Session
  <2>2. \A i \in DOMAIN e \cap DOMAIN db : i \in DOMAIN d /\ e[i] = d[i]
    BY <1>1, <1>2
  <2>3. DOMAIN db \ DOMAIN e = DOMAIN db \ DOMAIN d
    BY <1>1, <1>2
  <2> QED
    BY <1>2, <1>4, <1>5, <2>1, <2>2, <2>3 DEF Session
<1> QED
  BY <1>1, <1>2, <1>3, <1>6 DEF u

\* Rows inserted one after the other, as add_all does.
LEMMA Insertions ==
  ASSUME Stored, NEW r \in Requests, NEW d, NEW K, Session(r, d, K),
         NEW rows, NEW k \in Nat, DOMAIN rows = 1 .. k,
         \A n \in 1 .. k : Typed(rows[n]) /\ rows[n].kind \in K,
         NEW e, e = InsertedAll(d, r, rows)
  PROVE  /\ Session(r, e, K)
         /\ DOMAIN d \subseteq DOMAIN e /\ \A i \in DOMAIN d : e[i] = d[i]
         /\ \A i \in DOMAIN e \ DOMAIN d : i[1] = r /\ i \notin DOMAIN db /\ \E n \in 1 .. k : e[i] = rows[n]
<1> DEFINE b == Drawn(d, r)
           ids == {<<r, b + n>> : n \in 1 .. k}
           j == Cardinality(New(d))
<1>1. /\ j \in Nat /\ serial[r] \in Nat /\ b = serial[r] + j /\ b \in Nat
      /\ \A n \in Nat \ {0} : <<r, b + n>> \notin DOMAIN d \cup DOMAIN db
  BY DrawnIs, Zenon
<1>2. \A i \in ids : i \notin DOMAIN d /\ i \notin DOMAIN db
  BY <1>1
<1> HIDE DEF b, j
<1>3. /\ Fun(e) /\ DOMAIN e = DOMAIN d \cup ids /\ \A i \in DOMAIN d : e[i] = d[i]
      /\ \A n \in 1 .. k : e[<<r, b + n>>] = rows[n]
  <2>1. /\ Fun(e) /\ DOMAIN e = DOMAIN d \cup ids /\ \A i \in DOMAIN d : e[i] = d[i]
        /\ \A i \in ids : e[i] = rows[i[2] - b]
    BY <1>2 DEF InsertedAll, Over, Fun, b
  <2>2. ASSUME NEW n \in 1 .. k PROVE e[<<r, b + n>>] = rows[n]
    <3>1. <<r, b + n>> \in ids /\ <<r, b + n>>[2] - b = n
      BY <1>1
    <3> HIDE DEF ids
    <3> QED
      BY <2>1, <3>1
  <2> QED
    BY <2>1, <2>2
<1>4. New(e) = New(d) \cup ids
  BY <1>2, <1>3 DEF New
<1>5. IsFiniteSet(ids) /\ Cardinality(ids) = k
  <2> DEFINE f == [n \in 1 .. k |-> <<r, b + n>>]
  <2>1. f \in Bijection(1 .. k, ids)
    <3>1. f \in [1 .. k -> ids]
      OBVIOUS
    <3>2. \A n, m \in 1 .. k : f[n] = f[m] => n = m
      BY <1>1
    <3>3. \A i \in ids : \E n \in 1 .. k : f[n] = i
      OBVIOUS
    <3> HIDE DEF f, ids
    <3> QED
      BY <3>1, <3>2, <3>3 DEF Bijection, Injection, Surjection, IsInjective
  <2>2. IsFiniteSet(1 .. k) /\ Cardinality(1 .. k) = k
    BY FS_Interval
  <2>3. ExistsBijection(1 .. k, ids)
    BY <2>1 DEF ExistsBijection
  <2> HIDE DEF ids
  <2> QED
    BY <2>2, <2>3, FS_Bijection, Zenon
<1>6. IsFiniteSet(New(e)) /\ Cardinality(New(e)) = j + k
  <2>1. New(d) \cap ids = {} /\ IsFiniteSet(New(d))
    BY <1>2 DEF New, Session
  <2> HIDE DEF ids
  <2>2. IsFiniteSet(New(e)) /\ Cardinality(New(e)) = Cardinality(New(d)) + Cardinality(ids) - Cardinality({})
    BY <1>4, <1>5, <2>1, FS_Union, Zenon
  <2> QED
    BY <1>1, <1>5, <2>2, FS_EmptySet DEF j
<1>7. ASSUME NEW i \in New(e)
      PROVE  e[i].kind \in K /\ \E n \in 1 .. j + k : i = <<r, serial[r] + n>>
  <2>1. CASE i \in New(d)
    <3>1. PICK n \in 1 .. j : i = <<r, serial[r] + n>>
      BY <2>1 DEF Session, j
    <3>2. n \in 1 .. j + k
      BY <1>1
    <3>3. d[i].kind \in K /\ e[i] = d[i]
      BY <1>3, <2>1 DEF Session, New
    <3> QED
      BY <3>1, <3>2, <3>3
  <2>2. CASE i \in ids
    <3>1. PICK n \in 1 .. k : i = <<r, b + n>>
      BY <2>2
    <3>2. j + n \in 1 .. j + k /\ i = <<r, serial[r] + (j + n)>>
      BY <1>1, <3>1
    <3>3. e[i] = rows[n]
      BY <1>3, <3>1
    <3> QED
      BY <3>2, <3>3
  <2> QED
    BY <1>4, <2>1, <2>2
<1>8. Session(r, e, K)
  <2>1. \A i \in DOMAIN e : Typed(e[i])
    BY <1>3 DEF Session
  <2> HIDE DEF ids
  <2>2. \A i \in DOMAIN e \cap DOMAIN db : i \in DOMAIN d /\ e[i] = d[i]
    BY <1>2, <1>3
  <2>3. DOMAIN db \ DOMAIN e = DOMAIN db \ DOMAIN d
    BY <1>2, <1>3
  <2> QED
    BY <1>3, <1>6, <1>7, <2>1, <2>2, <2>3 DEF Session
<1>9. \A i \in DOMAIN e \ DOMAIN d : i[1] = r /\ i \notin DOMAIN db /\ \E n \in 1 .. k : e[i] = rows[n]
  <2> SUFFICES ASSUME NEW i \in ids PROVE i[1] = r /\ i \notin DOMAIN db /\ \E n \in 1 .. k : e[i] = rows[n]
    BY <1>3
  <2>1. PICK n \in 1 .. k : i = <<r, b + n>>
    OBVIOUS
  <2> QED
    BY <1>2, <1>3, <2>1
<1> QED
  BY <1>3, <1>8, <1>9

(* A set of rows inserted in some order. *)
LEMMA InsertionsOf ==
  ASSUME Stored, NEW r \in Requests, NEW d, NEW K, Session(r, d, K),
         NEW S, IsFiniteSet(S), \A row \in S : Typed(row) /\ row.kind \in K,
         NEW e, e = InsertedAll(d, r, SetToSeq(S))
  PROVE  /\ Session(r, e, K)
         /\ DOMAIN d \subseteq DOMAIN e /\ \A i \in DOMAIN d : e[i] = d[i]
         /\ \A i \in DOMAIN e \ DOMAIN d : i[1] = r /\ i \notin DOMAIN db /\ e[i] \in S
<1> DEFINE k == Cardinality(S)
           rows == SetToSeq(S)
<1>1. k \in Nat /\ rows \in [1 .. k -> S]
  BY Listed
<1>0. e = InsertedAll(d, r, rows)
  OBVIOUS
<1> HIDE DEF k, rows
<1>2. /\ DOMAIN rows = 1 .. k /\ \A n \in 1 .. k : Typed(rows[n]) /\ rows[n].kind \in K
      /\ \A n \in 1 .. k : rows[n] \in S
  BY <1>1
<1>3. /\ Session(r, e, K)
      /\ DOMAIN d \subseteq DOMAIN e /\ \A i \in DOMAIN d : e[i] = d[i]
      /\ \A i \in DOMAIN e \ DOMAIN d : i[1] = r /\ i \notin DOMAIN db /\ \E n \in 1 .. k : e[i] = rows[n]
  BY <1>0, <1>1, <1>2, Insertions
<1>4. \A i \in DOMAIN e \ DOMAIN d : i[1] = r /\ i \notin DOMAIN db /\ e[i] \in S
  BY <1>2, <1>3
<1> QED
  BY <1>3, <1>4

(* Changes and deletions. *)
LEMMA Edition ==
  ASSUME Stored, NEW r, NEW d, NEW K, Session(r, d, K), NEW e, Fun(e), DOMAIN e = DOMAIN d,
         \A i \in DOMAIN d :
           e[i] = d[i] \/ (Typed(e[i]) /\ Kept(d[i], e[i]) /\ d[i].kind \in K)
  PROVE  Session(r, e, K) /\ New(e) = New(d)
<1>1. New(e) = New(d)
  BY DEF New
<1>2. \A i \in New(e) : e[i].kind = d[i].kind
  BY DEF New, Kept
<1>3. \A i \in DOMAIN e : Typed(e[i])
  BY DEF Session
<1>4. ASSUME NEW i \in DOMAIN d \cap DOMAIN db PROVE e[i] = db[i] \/ (Kept(db[i], e[i]) /\ e[i].kind \in K)
  <2>1. d[i] = db[i] \/ (Kept(db[i], d[i]) /\ d[i].kind \in K)
    BY DEF Session
  <2>2. CASE e[i] = d[i]
    BY <2>1, <2>2
  <2>3. CASE Typed(e[i]) /\ Kept(d[i], e[i]) /\ d[i].kind \in K
    <3>1. CASE d[i] = db[i]
      BY <2>3, <3>1 DEF Kept
    <3>2. CASE Kept(db[i], d[i])
      <4>1. Typed(d[i])
        BY DEF Session
      <4>2. ASSUME db[i].kind \in {"session", "refresh", "link"}, NEW c \in DOMAIN db[i]
            PROVE  e[i][c] = db[i][c] \/ (c \in {"live", "unused"} /\ e[i][c] = FALSE)
        <5>1. d[i].kind = db[i].kind /\ Typed(db[i])
          BY <3>2 DEF Kept, Stored
        <5>2. DOMAIN d[i] = DOMAIN db[i]
          BY <4>1, <5>1 DEF Typed
        <5> QED
          BY <2>3, <3>2, <4>2, <5>1, <5>2 DEF Kept
      <4> QED
        BY <2>3, <3>2, <4>2 DEF Kept
    <3> QED
      BY <2>1, <3>1, <3>2
  <2> QED
    BY <2>2, <2>3
<1> QED
  BY <1>1, <1>2, <1>3, <1>4 DEF Session

\* A row of these kinds gets new values.
LEMMA EditionOne ==
  ASSUME Stored, NEW r, NEW d, NEW K, Session(r, d, K), NEW i \in DOMAIN d,
         NEW x, Typed(x), Kept(d[i], x), d[i].kind \in K, NEW e, e = [d EXCEPT ![i] = x]
  PROVE  /\ Session(r, e, K) /\ DOMAIN e = DOMAIN d /\ New(e) = New(d)
         /\ e[i] = x /\ \A j \in DOMAIN d \ {i} : e[j] = d[j]
<1>1. Fun(e) /\ DOMAIN e = DOMAIN d /\ e[i] = x /\ \A j \in DOMAIN d \ {i} : e[j] = d[j]
  BY DEF Fun
<1>2. \A j \in DOMAIN d : e[j] = d[j] \/ (Typed(e[j]) /\ Kept(d[j], e[j]) /\ d[j].kind \in K)
  BY <1>1
<1>3. Session(r, e, K) /\ New(e) = New(d)
  BY <1>1, <1>2, Edition, Zenon
<1> QED
  BY <1>1, <1>3

\* Rows of these kinds are deleted, work of an account never.
LEMMA Deletion ==
  ASSUME NEW r, NEW d, NEW K, Session(r, d, K), NEW gone,
         \A i \in gone \cap DOMAIN d : i \in DOMAIN db /\ d[i].kind \in K \ {"work"},
         NEW e, e = Without(d, gone)
  PROVE  /\ Session(r, e, K) /\ DOMAIN e = DOMAIN d \ gone /\ New(e) = New(d)
         /\ \A i \in DOMAIN e : e[i] = d[i]
<1>1. Fun(e) /\ DOMAIN e = DOMAIN d \ gone /\ \A i \in DOMAIN e : e[i] = d[i]
  BY DEF Without, Fun
<1>2. New(e) = New(d)
  BY <1>1 DEF New
<1>3. ASSUME NEW i \in DOMAIN db \ DOMAIN e PROVE db[i].kind \in K \ {"work"}
  <2>1. CASE i \in DOMAIN d
    BY <1>1, <2>1 DEF Session, Kept
  <2>2. CASE i \notin DOMAIN d
    BY <2>2 DEF Session
  <2> QED
    BY <2>1, <2>2
<1> QED
  BY <1>1, <1>2, <1>3 DEF Session, New

(***************************************************************************)
(* Rows.                                                                   *)
(***************************************************************************)
\* The columns and statuses, one table at a time.
LEMMA ColumnsAre ==
  /\ DOMAIN Columns =
       {"client", "portfolio", "account", "strategy", "aijob", "job", "run", "review", "work", "user", "session",
        "refresh", "link", "use", "membership", "role", "may", "assignment", "entitlement", "product", "org"}
  /\ Columns.client = {"kind", "number", "code", "name", "status", "ready", "supervised"}
  /\ Columns.portfolio = {"kind", "client", "number", "code", "name", "status"}
  /\ Columns.account = {"kind", "client", "portfolio", "ref", "face", "by"}
  /\ Columns.strategy = {"kind", "client", "portfolio", "ai", "by", "flow"}
  /\ Columns.aijob = {"kind", "client", "portfolio", "status", "counted"}
  /\ Columns.job = {"kind", "of", "status", "run"}
  /\ Columns.run = {"kind", "of", "n", "status"}
  /\ Columns.review = {"kind", "account"}
  /\ Columns.work = {"kind", "account"}
  /\ Statuses.client = {"draft", "active"} /\ Statuses.portfolio = {"onboarding", "active", "paused"}
  /\ Statuses.job = {"queued", "running", "completed", "failed"}
  /\ Statuses.run = Final \cup {"processing"}
  /\ Statuses.aijob = {"pending", "running", "skipped", "done", "failed"}
  /\ Statuses.user = {"invited", "active", "disabled"}
  BY DEF Columns, Statuses

\* The rows the handlers insert take values their columns allow.
LEMMA TypedRows ==
  /\ \A n, c, name : c # "" /\ name # "" =>
       Typed(Client(n, c, name))
  /\ \A m, n, c, name, status : c # "" /\ name # "" /\ status \in Statuses.portfolio =>
       Typed(Portfolio(m, n, c, name, status))
  /\ \A m, p, ref, face, by : Takes("account", "face", face) =>
       Typed([kind |-> "account", client |-> m, portfolio |-> p, ref |-> ref, face |-> face, by |-> by])
  /\ \A m, p, by, flow : Takes("strategy", "flow", flow) =>
       Typed([kind |-> "strategy", client |-> m, portfolio |-> p, ai |-> TRUE, by |-> by, flow |-> flow])
  /\ \A m, p : Typed([kind |-> "aijob", client |-> m, portfolio |-> p, status |-> "pending", counted |-> FALSE])
  /\ \A of : of \in AccountFiles \cup {"client_upload"} =>
       Typed([kind |-> "job", of |-> of, status |-> "queued", run |-> <<>>])
  /\ \A of, n, status : status \in Statuses.run =>
       Typed([kind |-> "run", of |-> of, n |-> n, status |-> status])
  /\ \A i : Typed([kind |-> "review", account |-> i])
  /\ \A i : Typed([kind |-> "work", account |-> i])
<1>1. \A n, c, name : c # "" /\ name # "" =>
        Typed(Client(n, c, name))
  <2> SUFFICES ASSUME NEW n, NEW c, NEW name, c # "", name # "" PROVE Typed(Client(n, c, name))
    OBVIOUS
  <2> DEFINE x == Client(n, c, name)
             C == {"kind", "number", "code", "name", "status", "ready", "supervised"}
  <2>1. x.kind = "client" /\ x = [col \in C |-> x[col]]
    BY DEF Client
  <2>2. Columns[x.kind] = C /\ x.kind \in DOMAIN Columns
    BY <2>1, ColumnsAre
  <2>3. /\ Takes("client", "kind", x["kind"])
        /\ Takes("client", "number", x["number"])
        /\ Takes("client", "code", x["code"])
        /\ Takes("client", "name", x["name"])
        /\ Takes("client", "status", x["status"])
        /\ Takes("client", "ready", x["ready"])
        /\ Takes("client", "supervised", x["supervised"])
    BY ColumnsAre DEF Takes, Client
  <2> HIDE DEF x
  <2>4. \A col \in C : Takes(x.kind, col, x[col])
    BY <2>1, <2>3
  <2> HIDE DEF C
  <2>5. Typed(x)
    BY <2>1, <2>2, <2>4 DEF Typed
  <2> QED
    BY <2>5 DEF x
<1>2. \A m, n, c, name, status : c # "" /\ name # "" /\ status \in Statuses.portfolio =>
        Typed(Portfolio(m, n, c, name, status))
  <2> SUFFICES ASSUME NEW m, NEW n, NEW c, NEW name, NEW status, c # "", name # "", status \in Statuses.portfolio PROVE Typed(Portfolio(m, n, c, name, status))
    OBVIOUS
  <2> DEFINE x == Portfolio(m, n, c, name, status)
             C == {"kind", "client", "number", "code", "name", "status"}
  <2>1. x.kind = "portfolio" /\ x = [col \in C |-> x[col]]
    BY DEF Portfolio
  <2>2. Columns[x.kind] = C /\ x.kind \in DOMAIN Columns
    BY <2>1, ColumnsAre
  <2>3. /\ Takes("portfolio", "kind", x["kind"])
        /\ Takes("portfolio", "client", x["client"])
        /\ Takes("portfolio", "number", x["number"])
        /\ Takes("portfolio", "code", x["code"])
        /\ Takes("portfolio", "name", x["name"])
        /\ Takes("portfolio", "status", x["status"])
    BY ColumnsAre DEF Takes, Portfolio
  <2> HIDE DEF x
  <2>4. \A col \in C : Takes(x.kind, col, x[col])
    BY <2>1, <2>3
  <2> HIDE DEF C
  <2>5. Typed(x)
    BY <2>1, <2>2, <2>4 DEF Typed
  <2> QED
    BY <2>5 DEF x
<1>3. \A m, p, ref, face, by : Takes("account", "face", face) =>
        Typed([kind |-> "account", client |-> m, portfolio |-> p, ref |-> ref, face |-> face, by |-> by])
  <2> SUFFICES ASSUME NEW m, NEW p, NEW ref, NEW face, NEW by, Takes("account", "face", face)
               PROVE  Typed([kind |-> "account", client |-> m, portfolio |-> p, ref |-> ref, face |-> face, by |-> by])
    OBVIOUS
  <2> DEFINE x == [kind |-> "account", client |-> m, portfolio |-> p, ref |-> ref, face |-> face, by |-> by]
  <2>1. x.kind = "account" /\ x = [col \in {"kind", "client", "portfolio", "ref", "face", "by"} |-> x[col]]
    OBVIOUS
  <2>2. \A col \in {"kind", "client", "portfolio", "ref", "face", "by"} : Takes("account", col, x[col])
    BY ColumnsAre DEF Takes
  <2> HIDE DEF x
  <2>3. Typed(x)
    BY <2>1, <2>2, ColumnsAre DEF Typed
  <2> QED
    BY <2>3 DEF x
<1>4. \A m, p, by, flow : Takes("strategy", "flow", flow) =>
        Typed([kind |-> "strategy", client |-> m, portfolio |-> p, ai |-> TRUE, by |-> by, flow |-> flow])
  <2> SUFFICES ASSUME NEW m, NEW p, NEW by, NEW flow, Takes("strategy", "flow", flow)
               PROVE  Typed([kind |-> "strategy", client |-> m, portfolio |-> p, ai |-> TRUE, by |-> by, flow |-> flow])
    OBVIOUS
  <2> DEFINE x == [kind |-> "strategy", client |-> m, portfolio |-> p, ai |-> TRUE, by |-> by, flow |-> flow]
  <2>1. x.kind = "strategy" /\ x = [col \in {"kind", "client", "portfolio", "ai", "by", "flow"} |-> x[col]]
    OBVIOUS
  <2>2. \A col \in {"kind", "client", "portfolio", "ai", "by", "flow"} : Takes("strategy", col, x[col])
    BY ColumnsAre DEF Takes
  <2> HIDE DEF x
  <2>3. Typed(x)
    BY <2>1, <2>2, ColumnsAre DEF Typed
  <2> QED
    BY <2>3 DEF x
<1>5. \A m, p : Typed([kind |-> "aijob", client |-> m, portfolio |-> p, status |-> "pending", counted |-> FALSE])
  <2> SUFFICES ASSUME NEW m, NEW p PROVE Typed([kind |-> "aijob", client |-> m, portfolio |-> p, status |-> "pending", counted |-> FALSE])
    OBVIOUS
  <2> DEFINE x == [kind |-> "aijob", client |-> m, portfolio |-> p, status |-> "pending", counted |-> FALSE]
  <2>1. x.kind = "aijob" /\ x = [col \in {"kind", "client", "portfolio", "status", "counted"} |-> x[col]]
    OBVIOUS
  <2>2. \A col \in {"kind", "client", "portfolio", "status", "counted"} : Takes("aijob", col, x[col])
    BY ColumnsAre DEF Takes
  <2> HIDE DEF x
  <2>3. Typed(x)
    BY <2>1, <2>2, ColumnsAre DEF Typed
  <2> QED
    BY <2>3 DEF x
<1>6. \A of : of \in AccountFiles \cup {"client_upload"} => Typed([kind |-> "job", of |-> of, status |-> "queued", run |-> <<>>])
  <2> SUFFICES ASSUME NEW of, of \in AccountFiles \cup {"client_upload"} PROVE Typed([kind |-> "job", of |-> of, status |-> "queued", run |-> <<>>])
    OBVIOUS
  <2> DEFINE x == [kind |-> "job", of |-> of, status |-> "queued", run |-> <<>>]
  <2>1. x.kind = "job" /\ x = [col \in {"kind", "of", "status", "run"} |-> x[col]]
    OBVIOUS
  <2>2. \A col \in {"kind", "of", "status", "run"} : Takes("job", col, x[col])
    BY ColumnsAre DEF Takes
  <2> HIDE DEF x
  <2>3. Typed(x)
    BY <2>1, <2>2, ColumnsAre DEF Typed
  <2> QED
    BY <2>3 DEF x
<1>7. \A of, n, status : status \in Statuses.run =>
        Typed([kind |-> "run", of |-> of, n |-> n, status |-> status])
  <2> SUFFICES ASSUME NEW of, NEW n, NEW status, status \in Statuses.run PROVE Typed([kind |-> "run", of |-> of, n |-> n, status |-> status])
    OBVIOUS
  <2> DEFINE x == [kind |-> "run", of |-> of, n |-> n, status |-> status]
  <2>1. x.kind = "run" /\ x = [col \in {"kind", "of", "n", "status"} |-> x[col]]
    OBVIOUS
  <2>2. \A col \in {"kind", "of", "n", "status"} : Takes("run", col, x[col])
    BY ColumnsAre DEF Takes
  <2> HIDE DEF x
  <2>3. Typed(x)
    BY <2>1, <2>2, ColumnsAre DEF Typed
  <2> QED
    BY <2>3 DEF x
<1>8. \A i : Typed([kind |-> "review", account |-> i])
  <2> SUFFICES ASSUME NEW i PROVE Typed([kind |-> "review", account |-> i])
    OBVIOUS
  <2> DEFINE x == [kind |-> "review", account |-> i]
  <2>1. x.kind = "review" /\ x = [col \in {"kind", "account"} |-> x[col]]
    OBVIOUS
  <2>2. \A col \in {"kind", "account"} : Takes("review", col, x[col])
    BY ColumnsAre DEF Takes
  <2> HIDE DEF x
  <2>3. Typed(x)
    BY <2>1, <2>2, ColumnsAre DEF Typed
  <2> QED
    BY <2>3 DEF x
<1>9. \A i : Typed([kind |-> "work", account |-> i])
  <2> SUFFICES ASSUME NEW i PROVE Typed([kind |-> "work", account |-> i])
    OBVIOUS
  <2> DEFINE x == [kind |-> "work", account |-> i]
  <2>1. x.kind = "work" /\ x = [col \in {"kind", "account"} |-> x[col]]
    OBVIOUS
  <2>2. \A col \in {"kind", "account"} : Takes("work", col, x[col])
    BY ColumnsAre DEF Takes
  <2> HIDE DEF x
  <2>3. Typed(x)
    BY <2>1, <2>2, ColumnsAre DEF Typed
  <2> QED
    BY <2>3 DEF x
<1> QED
  BY <1>1, <1>2, <1>3, <1>4, <1>5, <1>6, <1>7, <1>8, <1>9

(* A column takes a new value. *)
LEMMA TypedChange ==
  ASSUME NEW x, Typed(x), NEW c \in Columns[x.kind] \ {"kind"}, NEW v, Takes(x.kind, c, v)
  PROVE  Typed([x EXCEPT ![c] = v]) /\ [x EXCEPT ![c] = v].kind = x.kind
<1> DEFINE y == [x EXCEPT ![c] = v]
<1>1. x = [k \in Columns[x.kind] |-> x[k]] /\ x.kind \in DOMAIN Columns
  BY DEF Typed
<1>2. "kind" \in Columns[x.kind]
  BY <1>1 DEF Columns
<1>3. DOMAIN x = Columns[x.kind]
  BY <1>1
<1>4. y.kind = x.kind /\ y[c] = v /\ \A k \in Columns[x.kind] \ {c} : y[k] = x[k]
  BY <1>2, <1>3
<1>5. y = [k \in Columns[x.kind] |-> y[k]]
  BY <1>3
<1>6. \A k \in Columns[x.kind] : Takes(x.kind, k, y[k])
  BY <1>4 DEF Typed
<1> HIDE DEF y
<1>7. Typed(y)
  BY <1>1, <1>4, <1>5, <1>6 DEF Typed
<1> QED
  BY <1>4, <1>7 DEF y

(***************************************************************************)
(* Programs.                                                               *)
(***************************************************************************)
OfFiles == Continued \cup {"upload"}

\* Of the suggestion jobs, a request has those still to be claimed behind it that it enqueued.
Leading == {"enqueue", "enqueue client", "requeue", "import"} \cup Background
Mine(r, t) == \A n \in 1 .. Len(t) : t[n].do \in Background => t[n].do = "process" /\ t[n].id[1] = r

\* The operations t may come after the one r is at.
Follows(r, t) ==
  /\ Program(t) /\ (Settings(t) # {} => Settings(Rest(r)) # {})
  /\ NoneOpen(Rest(r)) /\ Op(r).do \notin OfFiles => NoneOpen(t)
  /\ Mine(r, Rest(r)) /\ Op(r).do \notin Leading => Mine(r, t)
\* What a transaction leaves to a later one.
Errand(r, o) ==
  /\ Asked(o) /\ o.do \notin Setting
  /\ o.do \in Continued => Op(r).do \in OfFiles
  /\ o.do \in Background => Op(r).do \in Leading

\* A program is a sequence, whatever its entries.
LEMMA ProgramIsSeq ==
  ASSUME NEW t, Program(t)
  PROVE  t \in Seq({t[n] : n \in 1 .. Len(t)})
  BY DEF Program

\* The rest of a program, and none, may follow it.
LEMMA RestFollows ==
  ASSUME NEW r, Program(todo[r]), todo[r] # <<>>
  PROVE  /\ Follows(r, Rest(r)) /\ Asked(Op(r)) /\ Follows(r, <<>>)
         /\ Op(r).do \in Setting => Settings(Rest(r)) = {}
<1> DEFINE t == todo[r]
           S == {t[n] : n \in 1 .. Len(t)}
<1>1. t \in Seq(S) /\ t # <<>>
  BY ProgramIsSeq
<1> HIDE DEF S
<1>2. /\ Len(t) \in Nat \ {0} /\ Len(Tail(t)) = Len(t) - 1 /\ Tail(t) \in Seq(S)
      /\ \A n \in 1 .. Len(Tail(t)) : Tail(t)[n] = t[n + 1] /\ n + 1 \in 1 .. Len(t)
      /\ Head(t) = t[1] /\ 1 \in 1 .. Len(t)
  BY <1>1
<1>3. DOMAIN Tail(t) = 1 .. Len(Tail(t)) /\ DOMAIN t = 1 .. Len(t) /\ Len(Tail(t)) \in Nat
      /\ Tail(t) = [n \in 1 .. Len(Tail(t)) |-> Tail(t)[n]]
  BY <1>1, <1>2
<1> HIDE DEF t
<1>4. Program(t)
  BY DEF t
<1>5. \A n, m \in Settings(Tail(t)) : n = m
  <2> SUFFICES ASSUME NEW n \in Settings(Tail(t)), NEW m \in Settings(Tail(t)) PROVE n = m
    OBVIOUS
  <2>1. n \in 1 .. Len(Tail(t)) /\ m \in 1 .. Len(Tail(t)) /\ n + 1 \in Settings(t) /\ m + 1 \in Settings(t)
    BY <1>2, <1>3 DEF Settings
  <2>2. n + 1 = m + 1
    BY <1>4, <2>1 DEF Program
  <2> QED
    BY <2>1, <2>2
<1>6. \A n \in 1 .. Len(t) : Asked(t[n])
  BY <1>4 DEF Program
<1>7. Program(Tail(t))
  BY <1>2, <1>3, <1>5, <1>6 DEF Program
<1>8. ASSUME Head(t).do \in Setting, NEW n \in Settings(Tail(t)) PROVE FALSE
  <2>1. 1 \in Settings(t) /\ n + 1 \in Settings(t) /\ n \in 1 .. Len(Tail(t))
    BY <1>2, <1>3, <1>8 DEF Settings
  <2>2. n + 1 = 1
    BY <1>4, <2>1 DEF Program
  <2> QED
    BY <2>1, <2>2
<1>9. Settings(<<>>) = {} /\ Program(<<>>) /\ NoneOpen(<<>>) /\ Mine(r, <<>>)
  BY DEF Settings, Program, NoneOpen, Mine
<1> QED
  BY <1>2, <1>6, <1>7, <1>8, <1>9 DEF Follows, Rest, Op, t

\* A transaction may leave errands to those after it.
LEMMA ErrandsFollow ==
  ASSUME NEW r, NEW t, Follows(r, t), NEW p, NEW k \in Nat, p \in [1 .. k -> {p[n] : n \in 1 .. k}],
         \A n \in 1 .. k : Errand(r, p[n])
  PROVE  Follows(r, p \o t)
<1> DEFINE S == {p[n] : n \in 1 .. k} \cup {t[n] : n \in 1 .. Len(t)}
           s == p \o t
<1>1. t \in Seq({t[n] : n \in 1 .. Len(t)})
  BY ProgramIsSeq DEF Follows
<1>2. t \in Seq(S) /\ p \in Seq(S) /\ Len(p) = k
  BY <1>1
<1> HIDE DEF S
<1>3. /\ s \in Seq(S) /\ Len(s) = k + Len(t) /\ Len(t) \in Nat
      /\ \A n \in 1 .. k : s[n] = p[n]
      /\ \A n \in 1 .. Len(s) : n > k => s[n] = t[n - k] /\ n - k \in 1 .. Len(t)
  <2>1. s \in Seq(S) /\ Len(s) = k + Len(t) /\ Len(t) \in Nat
    BY <1>2
  <2>2. \A n \in 1 .. Len(s) : s[n] = IF n <= k THEN p[n] ELSE t[n - k]
    BY <1>2, <2>1
  <2> HIDE DEF s
  <2> QED
    BY <2>1, <2>2
<1> HIDE DEF s
<1>4. Len(s) \in Nat /\ DOMAIN s = 1 .. Len(s) /\ s = [n \in 1 .. Len(s) |-> s[n]] /\ DOMAIN t = 1 .. Len(t)
  <2>1. \A q \in Seq(S) : DOMAIN q = 1 .. Len(q) /\ q = [n \in 1 .. Len(q) |-> q[n]] /\ Len(q) \in Nat
    OBVIOUS
  <2> QED
    BY <1>2, <1>3, <2>1
<1>5. \A n \in Settings(s) : n \in 1 .. Len(s) /\ n > k /\ n - k \in Settings(t)
  BY <1>3, <1>4 DEF Settings, Errand
<1>6. \A n, m \in Settings(s) : n = m
  <2> SUFFICES ASSUME NEW n \in Settings(s), NEW m \in Settings(s) PROVE n = m
    OBVIOUS
  <2>1. n - k = m - k
    BY <1>5 DEF Follows, Program
  <2> QED
    BY <1>3, <1>5, <2>1
<1>7. \A n \in 1 .. Len(s) : Asked(s[n])
  <2>1. /\ \A n \in 1 .. k : Asked(p[n])
        /\ \A n \in 1 .. Len(t) : Asked(t[n])
    BY DEF Errand, Follows, Program
  <2> QED
    BY <1>3, <2>1
<1>8. Settings(s) # {} => Settings(t) # {}
  BY <1>5
<1>9. ASSUME NoneOpen(t), Op(r).do \notin OfFiles PROVE NoneOpen(s)
  <2> SUFFICES ASSUME NEW n \in 1 .. Len(s) PROVE s[n].do \notin Continued
    BY DEF NoneOpen
  <2>1. CASE n > k
    BY <1>3, <1>9, <2>1 DEF NoneOpen
  <2>2. CASE ~(n > k)
    <3>1. n \in 1 .. k
      BY <1>3, <2>2
    <3> QED
      BY <1>3, <1>9, <3>1 DEF Errand
  <2> QED
    BY <2>1, <2>2
<1>10. ASSUME Mine(r, t), Op(r).do \notin Leading PROVE Mine(r, s)
  <2> SUFFICES ASSUME NEW n \in 1 .. Len(s), s[n].do \in Background PROVE s[n].do = "process" /\ s[n].id[1] = r
    BY DEF Mine
  <2>1. CASE n > k
    <3>1. s[n] = t[n - k] /\ n - k \in 1 .. Len(t)
      BY <1>3, <2>1
    <3> QED
      BY <1>10, <3>1 DEF Mine
  <2>2. CASE ~(n > k)
    <3>1. n \in 1 .. k
      BY <1>3, <2>2
    <3> QED
      BY <1>3, <1>10, <3>1 DEF Errand
  <2> QED
    BY <2>1, <2>2
<1> QED
  BY <1>4, <1>6, <1>7, <1>8, <1>9, <1>10 DEF Follows, Program, s

LEMMA ErrandFollows ==
  ASSUME NEW r, NEW t, Follows(r, t), NEW o, Errand(r, o)
  PROVE  Follows(r, <<o>> \o t)
<1>1. <<o>> \in [1 .. 1 -> {<<o>>[n] : n \in 1 .. 1}] /\ \A n \in 1 .. 1 : Errand(r, <<o>>[n])
  OBVIOUS
<1> DEFINE p == <<o>>
<1> HIDE DEF p
<1>2. p \in [1 .. 1 -> {p[n] : n \in 1 .. 1}] /\ \A n \in 1 .. 1 : Errand(r, p[n])
  BY <1>1 DEF p
<1>3. Follows(r, p \o t)
  BY <1>2, ErrandsFollow
<1> QED
  BY <1>3 DEF p

\* The tables of clients, files and suggestion jobs.
BookKinds == {"client", "portfolio", "account", "strategy", "aijob", "job", "run", "review", "work"}
NameKinds == {"client", "portfolio"}
DraftKinds == {"strategy", "aijob"}
JobKinds == {"job", "run"}
\* Those that a request writes that has no file.
LooseKinds == NameKinds \cup DraftKinds \cup {"work"}

(***************************************************************************)
(* What a step of a request comes to: it goes on, or opens a transaction   *)
(* for a session of rows of the kinds K.                                   *)
(***************************************************************************)
Proceeds(r, K) ==
  \/ \E t : Follows(r, t) /\ GoesOn(r, t)
  \/ \E d, then, else : /\ Session(r, d, K) /\ Follows(r, then) /\ Follows(r, else)
                        /\ Opens(r, d, then, else)

\* A request that takes a step, in a state of the invariant.
Begun(r) == Stored /\ r \in Requests /\ Program(todo[r]) /\ todo[r] # <<>> /\ story \in Stories

\* A request that is refused ends, one that is accepted opens its transaction.
LEMMA TriesProceeds ==
  ASSUME NEW r, Begun(r), NEW K, NEW accepted, NEW d,
         accepted => Session(r, d, K), Tries(r, accepted, d)
  PROVE  Proceeds(r, K)
<1>1. Follows(r, Rest(r)) /\ Follows(r, <<>>)
  BY RestFollows, Zenon DEF Begun
<1>2. CASE accepted
  <2>1. Opens(r, d, Rest(r), <<>>)
    BY <1>2 DEF Tries
  <2> QED
    BY <1>1, <1>2, <2>1, Zenon DEF Proceeds
<1>3. CASE ~accepted
  <2>1. GoesOn(r, <<>>)
    BY <1>3 DEF Tries
  <2> QED
    BY <1>1, <2>1, Zenon DEF Proceeds
<1> QED
  BY <1>2, <1>3

(* Row y is row x with new values in some columns. *)
Patch(x, y) ==
  /\ y.kind = x.kind /\ Fun(y) /\ DOMAIN y = DOMAIN x
  /\ \A c \in DOMAIN x : y[c] = x[c] \/ Takes(x.kind, c, y[c])

\* A row that is well shaped stays so.
LEMMA TypedPatch ==
  ASSUME NEW x, Typed(x), NEW y, Patch(x, y)
  PROVE  Typed(y)
<1>1. x.kind \in DOMAIN Columns /\ DOMAIN x = Columns[x.kind] /\ \A c \in DOMAIN x : Takes(x.kind, c, x[c])
  BY DEF Typed
<1>2. y = [c \in Columns[y.kind] |-> y[c]] /\ \A c \in Columns[y.kind] : Takes(y.kind, c, y[c])
  BY <1>1 DEF Fun, Patch
<1> QED
  BY <1>1, <1>2 DEF Typed, Patch

\* First takes a member.
LEMMA FirstOf ==
  ASSUME NEW S, S # {}
  PROVE  First(S) \in S
  BY DEF First

(* Kinds whose rows may change in any column. *)
Free == {"client", "portfolio", "account", "strategy", "aijob", "job", "run", "review"}

\* A row that no other constraint watches may change at will.
LEMMA FreeEdition ==
  ASSUME Stored, NEW r, NEW d, NEW K, Session(r, d, K), NEW i \in DOMAIN d, d[i].kind \in Free \cap K,
         NEW y, Patch(d[i], y), NEW e, e = [d EXCEPT ![i] = y]
  PROVE  Session(r, e, K)
<1>1. Typed(d[i])
  BY DEF Session
<1>2. Typed(y)
  BY <1>1, TypedPatch
<1>3. Kept(d[i], y)
  BY DEF Kept, Free, Patch
<1> QED
  BY <1>2, <1>3, EditionOne

(***************************************************************************)
(* Clients and portfolios.                                                 *)
(***************************************************************************)
LEMMA ClientNamed ==
  ASSUME NEW x, Typed(x), x.kind = "client", NEW n, NEW c, NEW name, c # "", name # "",
         NEW y, y = [x EXCEPT !.number = n, !.code = c, !.name = name]
  PROVE  Patch(x, y)
<1>1. DOMAIN x = Columns["client"]
  BY DEF Typed
<1>2. DOMAIN y = DOMAIN x /\ Fun(y)
  BY DEF Fun
<1>3. \A col \in DOMAIN x \ {"number", "code", "name"} : y[col] = x[col]
  OBVIOUS
<1>4. y["number"] = n /\ y["code"] = c /\ y["name"] = name /\ y.kind = x.kind
  <2>1. {"kind", "number", "code", "name"} \subseteq DOMAIN x
    BY <1>1, ColumnsAre
  <2> QED
    BY <2>1
<1>5. \A col \in {"number", "code", "name"} : Takes(x.kind, col, y[col])
  <2>1. Takes(x.kind, "number", y["number"])
    BY <1>4, ColumnsAre DEF Takes
  <2>2. Takes(x.kind, "code", y["code"])
    BY <1>4, ColumnsAre DEF Takes
  <2>3. Takes(x.kind, "name", y["name"])
    BY <1>4, ColumnsAre DEF Takes
  <2> QED
    BY <2>1, <2>2, <2>3
<1> QED
  BY <1>2, <1>3, <1>4, <1>5 DEF Patch

LEMMA ClientEdited ==
  ASSUME NEW x, Typed(x), x.kind = "client", NEW n, NEW c, NEW b1, NEW b2, c # "",
         NEW y, y = [x EXCEPT !.number = n, !.code = c, !.ready = b1, !.supervised = b2]
  PROVE  Patch(x, y)
<1>1. DOMAIN x = Columns["client"]
  BY DEF Typed
<1>2. DOMAIN y = DOMAIN x /\ Fun(y)
  BY DEF Fun
<1>3. \A col \in DOMAIN x \ {"number", "code", "ready", "supervised"} : y[col] = x[col]
  OBVIOUS
<1>4. y["number"] = n /\ y["code"] = c /\ y["ready"] = b1 /\ y["supervised"] = b2 /\ y.kind = x.kind
  <2>1. {"number", "code", "ready", "supervised", "kind"} \subseteq DOMAIN x
    BY <1>1, ColumnsAre
  <2> QED
    BY <2>1
<1>5. \A col \in {"number", "code", "ready", "supervised"} : Takes(x.kind, col, y[col])
  <2>1. Takes(x.kind, "number", y["number"])
    BY <1>4, ColumnsAre DEF Takes
  <2>2. Takes(x.kind, "code", y["code"])
    BY <1>4, ColumnsAre DEF Takes
  <2>3. Takes(x.kind, "ready", y["ready"])
    BY <1>4, ColumnsAre DEF Takes
  <2>4. Takes(x.kind, "supervised", y["supervised"])
    BY <1>4, ColumnsAre DEF Takes
  <2> QED
    BY <2>1, <2>2, <2>3, <2>4
<1> QED
  BY <1>2, <1>3, <1>4, <1>5 DEF Patch

LEMMA ClientActive ==
  ASSUME NEW x, Typed(x), x.kind = "client", NEW v, v \in Statuses.client,
         NEW y, y = [x EXCEPT !.status = v]
  PROVE  Patch(x, y)
<1>1. DOMAIN x = Columns["client"]
  BY DEF Typed
<1>2. DOMAIN y = DOMAIN x /\ Fun(y)
  BY DEF Fun
<1>3. \A col \in DOMAIN x \ {"status"} : y[col] = x[col]
  OBVIOUS
<1>4. y["status"] = v /\ y.kind = x.kind
  BY <1>1, ColumnsAre
<1>5. \A col \in {"status"} : Takes(x.kind, col, y[col])
  <2>1. Takes(x.kind, "status", y["status"])
    BY <1>4, ColumnsAre DEF Takes
  <2> QED
    BY <2>1
<1> QED
  BY <1>2, <1>3, <1>4, <1>5 DEF Patch

LEMMA PortfolioNamed ==
  ASSUME NEW x, Typed(x), x.kind = "portfolio", NEW n, NEW c, NEW name, NEW v, c # "", name # "", v \in Statuses.portfolio,
         NEW y, y = [x EXCEPT !.number = n, !.code = c, !.name = name, !.status = v]
  PROVE  Patch(x, y)
<1>1. DOMAIN x = Columns["portfolio"]
  BY DEF Typed
<1>2. DOMAIN y = DOMAIN x /\ Fun(y)
  BY DEF Fun
<1>3. \A col \in DOMAIN x \ {"number", "code", "name", "status"} : y[col] = x[col]
  OBVIOUS
<1>4. y["number"] = n /\ y["code"] = c /\ y["name"] = name /\ y["status"] = v /\ y.kind = x.kind
  BY <1>1, ColumnsAre
<1>5. \A col \in {"number", "code", "name", "status"} : Takes(x.kind, col, y[col])
  <2>1. Takes(x.kind, "number", y["number"])
    BY <1>4, ColumnsAre DEF Takes
  <2>2. Takes(x.kind, "code", y["code"])
    BY <1>4, ColumnsAre DEF Takes
  <2>3. Takes(x.kind, "name", y["name"])
    BY <1>4, ColumnsAre DEF Takes
  <2>4. Takes(x.kind, "status", y["status"])
    BY <1>4, ColumnsAre DEF Takes
  <2> QED
    BY <2>1, <2>2, <2>3, <2>4
<1> QED
  BY <1>2, <1>3, <1>4, <1>5 DEF Patch

LEMMA PortfolioEdited ==
  ASSUME NEW x, Typed(x), x.kind = "portfolio", NEW n, NEW c, NEW v, c # "", v \in Statuses.portfolio,
         NEW y, y = [x EXCEPT !.number = n, !.code = c, !.status = v]
  PROVE  Patch(x, y)
<1>1. DOMAIN x = Columns["portfolio"]
  BY DEF Typed
<1>2. DOMAIN y = DOMAIN x /\ Fun(y)
  BY DEF Fun
<1>3. \A col \in DOMAIN x \ {"number", "code", "status"} : y[col] = x[col]
  OBVIOUS
<1>4. y["number"] = n /\ y["code"] = c /\ y["status"] = v /\ y.kind = x.kind
  BY <1>1, ColumnsAre
<1>5. \A col \in {"number", "code", "status"} : Takes(x.kind, col, y[col])
  <2>1. Takes(x.kind, "number", y["number"])
    BY <1>4, ColumnsAre DEF Takes
  <2>2. Takes(x.kind, "code", y["code"])
    BY <1>4, ColumnsAre DEF Takes
  <2>3. Takes(x.kind, "status", y["status"])
    BY <1>4, ColumnsAre DEF Takes
  <2> QED
    BY <2>1, <2>2, <2>3
<1> QED
  BY <1>2, <1>3, <1>4, <1>5 DEF Patch

LEMMA AijobStatus ==
  ASSUME NEW x, Typed(x), x.kind = "aijob", NEW v, v \in Statuses.aijob,
         NEW y, y = [x EXCEPT !.status = v]
  PROVE  Patch(x, y)
<1>1. DOMAIN x = Columns["aijob"]
  BY DEF Typed
<1>2. DOMAIN y = DOMAIN x /\ Fun(y)
  BY DEF Fun
<1>3. \A col \in DOMAIN x \ {"status"} : y[col] = x[col]
  OBVIOUS
<1>4. y["status"] = v /\ y.kind = x.kind
  BY <1>1, ColumnsAre
<1>5. \A col \in {"status"} : Takes(x.kind, col, y[col])
  <2>1. Takes(x.kind, "status", y["status"])
    BY <1>4, ColumnsAre DEF Takes
  <2> QED
    BY <2>1
<1> QED
  BY <1>2, <1>3, <1>4, <1>5 DEF Patch

LEMMA AijobCounted ==
  ASSUME NEW x, Typed(x), x.kind = "aijob", NEW v,
         NEW y, y = [x EXCEPT !.counted = v]
  PROVE  Patch(x, y)
<1>1. DOMAIN x = Columns["aijob"]
  BY DEF Typed
<1>2. DOMAIN y = DOMAIN x /\ Fun(y)
  BY DEF Fun
<1>3. \A col \in DOMAIN x \ {"counted"} : y[col] = x[col]
  OBVIOUS
<1>4. y["counted"] = v /\ y.kind = x.kind
  BY <1>1, ColumnsAre
<1>5. \A col \in {"counted"} : Takes(x.kind, col, y[col])
  <2>1. Takes(x.kind, "counted", y["counted"])
    BY <1>4, ColumnsAre DEF Takes
  <2> QED
    BY <2>1
<1> QED
  BY <1>2, <1>3, <1>4, <1>5 DEF Patch

LEMMA JobStatus ==
  ASSUME NEW x, Typed(x), x.kind = "job", NEW v, v \in Statuses.job,
         NEW y, y = [x EXCEPT !.status = v]
  PROVE  Patch(x, y)
<1>1. DOMAIN x = Columns["job"]
  BY DEF Typed
<1>2. DOMAIN y = DOMAIN x /\ Fun(y)
  BY DEF Fun
<1>3. \A col \in DOMAIN x \ {"status"} : y[col] = x[col]
  OBVIOUS
<1>4. y["status"] = v /\ y.kind = x.kind
  BY <1>1, ColumnsAre
<1>5. \A col \in {"status"} : Takes(x.kind, col, y[col])
  <2>1. Takes(x.kind, "status", y["status"])
    BY <1>4, ColumnsAre DEF Takes
  <2> QED
    BY <2>1
<1> QED
  BY <1>2, <1>3, <1>4, <1>5 DEF Patch

LEMMA JobRun ==
  ASSUME NEW x, Typed(x), x.kind = "job", NEW v,
         NEW y, y = [x EXCEPT !.run = v]
  PROVE  Patch(x, y)
<1>1. DOMAIN x = Columns["job"]
  BY DEF Typed
<1>2. DOMAIN y = DOMAIN x /\ Fun(y)
  BY DEF Fun
<1>3. \A col \in DOMAIN x \ {"run"} : y[col] = x[col]
  OBVIOUS
<1>4. y["run"] = v /\ y.kind = x.kind
  BY <1>1, ColumnsAre
<1>5. \A col \in {"run"} : Takes(x.kind, col, y[col])
  <2>1. Takes(x.kind, "run", y["run"])
    BY <1>4, ColumnsAre DEF Takes
  <2> QED
    BY <2>1
<1> QED
  BY <1>2, <1>3, <1>4, <1>5 DEF Patch

LEMMA JobClosed ==
  ASSUME NEW x, Typed(x), x.kind = "job", NEW v, NEW w, v \in Statuses.job,
         NEW y, y = [x EXCEPT !.status = v, !.run = w]
  PROVE  Patch(x, y)
<1>1. DOMAIN x = Columns["job"]
  BY DEF Typed
<1>2. DOMAIN y = DOMAIN x /\ Fun(y)
  BY DEF Fun
<1>3. \A col \in DOMAIN x \ {"status", "run"} : y[col] = x[col]
  OBVIOUS
<1>4. y["status"] = v /\ y["run"] = w /\ y.kind = x.kind
  BY <1>1, ColumnsAre
<1>5. \A col \in {"status", "run"} : Takes(x.kind, col, y[col])
  <2>1. Takes(x.kind, "status", y["status"])
    BY <1>4, ColumnsAre DEF Takes
  <2>2. Takes(x.kind, "run", y["run"])
    BY <1>4, ColumnsAre DEF Takes
  <2> QED
    BY <2>1, <2>2
<1> QED
  BY <1>2, <1>3, <1>4, <1>5 DEF Patch

LEMMA RunSummed ==
  ASSUME NEW x, Typed(x), x.kind = "run", NEW n, NEW v, v \in Statuses.run,
         NEW y, y = [x EXCEPT !.n = n, !.status = v]
  PROVE  Patch(x, y)
<1>1. DOMAIN x = Columns["run"]
  BY DEF Typed
<1>2. DOMAIN y = DOMAIN x /\ Fun(y)
  BY DEF Fun
<1>3. \A col \in DOMAIN x \ {"n", "status"} : y[col] = x[col]
  OBVIOUS
<1>4. y["n"] = n /\ y["status"] = v /\ y.kind = x.kind
  BY <1>1, ColumnsAre
<1>5. \A col \in {"n", "status"} : Takes(x.kind, col, y[col])
  <2>1. Takes(x.kind, "n", y["n"])
    BY <1>4, ColumnsAre DEF Takes
  <2>2. Takes(x.kind, "status", y["status"])
    BY <1>4, ColumnsAre DEF Takes
  <2> QED
    BY <2>1, <2>2
<1> QED
  BY <1>2, <1>3, <1>4, <1>5 DEF Patch

\* upsert_client makes a session of well-shaped rows.
LEMMA ClientSavedFits ==
  ASSUME Stored, NEW r \in Requests, NEW d, NEW K, Session(r, d, K), "client" \in K,
         NEW n, NEW c, NEW name, c # "", name # ""
  PROVE  Session(r, ClientSaved(d, r, n, c, name), K)
<1>1. PICK found : found = MatchClient(d, n, c)
  OBVIOUS
<1>2. CASE found = {}
  <2>1. Typed(Client(n, c, name)) /\ Client(n, c, name).kind \in K
    BY TypedRows DEF Client
  <2>2. Session(r, Inserted(d, r, Client(n, c, name)), K)
    BY <2>1, Insertion
  <2> QED
    BY <1>1, <1>2, <2>2 DEF ClientSaved
<1>3. CASE found # {}
  <2>1. PICK i : i = First(found)
    OBVIOUS
  <2>2. i \in DOMAIN d /\ d[i].kind = "client"
    BY <1>1, <1>3, <2>1, FirstOf DEF MatchClient, Numbered, Coded, Table
  <2>3. Typed(d[i]) /\ d[i].kind \in Free \cap K
    BY <2>2 DEF Session, Free
  <2>4. PICK m : m = IF d[i].number = "" THEN n ELSE d[i].number
    OBVIOUS
  <2>5. PICK y : y = [d[i] EXCEPT !.number = m, !.code = c, !.name = name]
    OBVIOUS
  <2>6. PICK e : e = [d EXCEPT ![i] = y]
    OBVIOUS
  <2>7. ClientSaved(d, r, n, c, name) = e
    BY <1>1, <1>3, <2>1, <2>2, <2>4, <2>5, <2>6 DEF ClientSaved
  <2>8. Patch(d[i], y)
    BY <2>2, <2>3, <2>5, ClientNamed, Zenon
  <2>9. Session(r, e, K)
    BY <2>2, <2>3, <2>6, <2>8, FreeEdition, Zenon
  <2> QED
    BY <2>7, <2>9
<1> QED
  BY <1>2, <1>3

(***************************************************************************)
(* Numbers.                                                                *)
(***************************************************************************)
\* A session in which each number is in one place if it is on the rows.
Lawful(d) == OneEach(db) => OneEach(d)

\* The number n is on no row, or on portfolios of m and it is for one.
Vacant(d, kind, m, n) ==
  \A j \in Table(d, "client") \cup Table(d, "portfolio") :
    n # "" /\ d[j].number = n => kind = "portfolio" /\ j \in Table(d, "portfolio") /\ d[j].client = m

\* What the tests of a number find out: _assert_master_not_sub and _assert_sub_identity.
LEMMA VacantIs ==
  ASSUME NEW d, NEW n
  PROVE  /\ Numbered(d, "client", n) = {} /\ MasterNotSub(d, n) => \A m : Vacant(d, "client", m, n)
         /\ \A m : ~SubRefused(d, m, n) => Vacant(d, "portfolio", m, n)
  BY DEF Vacant, MasterNotSub, SubRefused, Numbered, Table

\* Rows that were there before bring no number twice.
LEMMA NumbersStay ==
  ASSUME NEW d, OneEach(d), NEW e,
         \A i \in Table(e, "client") \cup Table(e, "portfolio") : i \in DOMAIN d /\ e[i] = d[i]
  PROVE  OneEach(e)
<1> DEFINE Book(f) == Table(f, "client") \cup Table(f, "portfolio")
<1>1. \A i \in Book(e) : i \in Book(d) /\ e[i] = d[i]
  BY DEF Table
<1>2. ASSUME NEW i \in Book(e), NEW j \in Book(e), e[i].number = e[j].number, e[i].number # ""
      PROVE  i = j \/ Siblings(e, i, j)
  <2>1. i \in Book(d) /\ j \in Book(d) /\ e[i] = d[i] /\ e[j] = d[j]
    BY <1>1, <1>2
  <2>2. i = j \/ Siblings(d, i, j)
    BY <1>2, <2>1 DEF OneEach
  <2> QED
    BY <1>2, <2>1, <2>2 DEF Siblings, Table
<1> QED
  BY <1>2 DEF OneEach

\* A row is added, or gets another number.
LEMMA RowNumbered ==
  ASSUME NEW d, OneEach(d), NEW u, NEW e, DOMAIN e = DOMAIN d \cup {u},
         \A i \in DOMAIN d \ {u} : e[i] = d[i],
         e[u].kind \in NameKinds =>
           \/ Vacant(d, e[u].kind, e[u].client, e[u].number)
           \/ /\ u \in DOMAIN d /\ d[u].kind = e[u].kind /\ d[u].number = e[u].number
              /\ e[u].kind = "portfolio" => d[u].client = e[u].client
  PROVE  OneEach(e)
<1> DEFINE Book(f) == Table(f, "client") \cup Table(f, "portfolio")
<1>1. ASSUME NEW j \in Book(e), j # u, u \in Book(e), e[j].number = e[u].number, e[j].number # ""
      PROVE  Siblings(e, u, j) /\ Siblings(e, j, u)
  <2>1. j \in Book(d) /\ e[j] = d[j] /\ e[u].kind \in NameKinds /\ u \in DOMAIN e
    BY <1>1 DEF Table, NameKinds
  <2>2. CASE Vacant(d, e[u].kind, e[u].client, e[u].number)
    <3>1. e[u].kind = "portfolio" /\ j \in Table(d, "portfolio") /\ d[j].client = e[u].client
      BY <1>1, <2>1, <2>2 DEF Vacant
    <3> QED
      BY <1>1, <2>1, <3>1 DEF Siblings, Table
  <2>3. CASE /\ u \in DOMAIN d /\ d[u].kind = e[u].kind /\ d[u].number = e[u].number
             /\ e[u].kind = "portfolio" => d[u].client = e[u].client
    <3>1. u \in Book(d)
      BY <2>1, <2>3 DEF Table, NameKinds
    <3>2. Siblings(d, u, j)
      BY <1>1, <2>1, <2>3, <3>1 DEF OneEach
    <3> QED
      BY <1>1, <2>1, <2>3, <3>2 DEF Siblings, Table
  <2> QED
    BY <2>1, <2>2, <2>3
<1>2. ASSUME NEW i \in Book(e), NEW j \in Book(e), i # u, j # u, e[i].number = e[j].number, e[i].number # ""
      PROVE  i = j \/ Siblings(e, i, j)
  <2>1. i \in Book(d) /\ j \in Book(d) /\ e[i] = d[i] /\ e[j] = d[j]
    BY <1>2 DEF Table
  <2>2. i = j \/ Siblings(d, i, j)
    BY <1>2, <2>1 DEF OneEach
  <2> QED
    BY <1>2, <2>1, <2>2 DEF Siblings, Table
<1> SUFFICES ASSUME NEW i \in Book(e), NEW j \in Book(e), e[i].number = e[j].number, e[i].number # "", i # j
             PROVE  Siblings(e, i, j)
  BY DEF OneEach
<1>3. CASE i = u
  BY <1>1, <1>3
<1>4. CASE j = u
  BY <1>1, <1>4
<1>5. CASE i # u /\ j # u
  BY <1>2, <1>5
<1> QED
  BY <1>3, <1>4, <1>5

\* A client or portfolio is inserted with a number that is free.
LEMMA NumberInserted ==
  ASSUME Stored, NEW r \in Requests, NEW d, NEW K, Session(r, d, K), OneEach(d), NEW row,
         row.kind \in NameKinds => Vacant(d, row.kind, row.client, row.number),
         NEW e, e = Inserted(d, r, row)
  PROVE  OneEach(e)
<1>1. PICK u : u = Fresh(d, r)
  OBVIOUS
<1>2. u \notin DOMAIN d
  BY <1>1, FreshIs
<1>3. e = Over(d, [i \in {u} |-> row])
  BY <1>1 DEF Inserted
<1>4. DOMAIN e = DOMAIN d \cup {u} /\ e[u] = row /\ \A i \in DOMAIN d \ {u} : e[i] = d[i]
  BY <1>2, <1>3 DEF Over
<1> QED
  BY <1>4, RowNumbered

\* One that is there gets a number that is free.
LEMMA NumberChanged ==
  ASSUME NEW d, OneEach(d), NEW u \in DOMAIN d, NEW y, y.kind = d[u].kind,
         y.kind = "portfolio" => y.client = d[u].client,
         y.number = d[u].number \/ Vacant(d, y.kind, y.client, y.number),
         NEW e, e = [d EXCEPT ![u] = y]
  PROVE  OneEach(e)
<1>1. DOMAIN e = DOMAIN d \cup {u} /\ e[u] = y /\ \A i \in DOMAIN d \ {u} : e[i] = d[i]
  OBVIOUS
<1> QED
  BY <1>1, RowNumbered

(* The number a save gives is on no other row, as upsert_client asserts.   *)
LEMMA ClientSavedNumbered ==
  ASSUME Stored, NEW r \in Requests, NEW d, NEW K, Session(r, d, K), OneEach(d),
         NEW n, NEW c, NEW name, ~ClientRefused(d, n, c, name)
  PROVE  OneEach(ClientSaved(d, r, n, c, name))
<1>1. PICK found : found = MatchClient(d, n, c)
  OBVIOUS
<1>2. CASE found = {}
  <2>1. Numbered(d, "client", n) = {} /\ MasterNotSub(d, n)
    BY <1>1, <1>2 DEF MatchClient, ClientRefused
  <2>2. PICK row : row = Client(n, c, name)
    OBVIOUS
  <2>3. row.kind = "client" /\ row.number = n
    BY <2>2 DEF Client
  <2>4. Vacant(d, row.kind, row.client, row.number)
    BY <2>1, <2>3, VacantIs
  <2>5. OneEach(Inserted(d, r, row))
    BY <2>4, NumberInserted
  <2> QED
    BY <1>1, <1>2, <2>2, <2>5 DEF ClientSaved
<1>3. CASE found # {}
  <2>1. PICK i : i = First(found)
    OBVIOUS
  <2>2. i \in DOMAIN d /\ d[i].kind = "client" /\ i \in found
    BY <1>1, <1>3, <2>1, FirstOf DEF MatchClient, Numbered, Coded, Table
  <2>3. DOMAIN d[i] = {"kind", "number", "code", "name", "status", "ready", "supervised"}
    BY <2>2, ColumnsAre DEF Session, Typed
  <2>4. PICK m : m = IF d[i].number = "" THEN n ELSE d[i].number
    OBVIOUS
  <2>5. PICK y : y = [d[i] EXCEPT !.number = m, !.code = c, !.name = name]
    OBVIOUS
  <2>6. PICK e : e = [d EXCEPT ![i] = y]
    OBVIOUS
  <2>7. ClientSaved(d, r, n, c, name) = e
    BY <1>1, <1>3, <2>1, <2>2, <2>4, <2>5, <2>6 DEF ClientSaved
  <2>8. y.kind = "client" /\ y.number = m
    BY <2>2, <2>3, <2>5
  <2>9. y.number = d[i].number \/ Vacant(d, y.kind, y.client, y.number)
    <3>1. SUFFICES ASSUME d[i].number = "", n # "" PROVE Vacant(d, y.kind, y.client, y.number)
      BY <2>4, <2>8
    <3>2. Numbered(d, "client", n) = {}
      <4>1. Numbered(d, "client", n) # {} => i \in Numbered(d, "client", n)
        BY <1>1, <2>2 DEF MatchClient
      <4> QED
        BY <3>1, <4>1 DEF Numbered
    <3>3. MasterNotSub(d, n)
      BY <1>1, <1>3, <2>1, <3>1 DEF ClientRefused
    <3> QED
      BY <2>4, <2>8, <3>1, <3>2, <3>3, VacantIs
  <2>10. OneEach(e)
    BY <2>2, <2>6, <2>8, <2>9, NumberChanged
  <2> QED
    BY <2>7, <2>10
<1> QED
  BY <1>2, <1>3

(* The number of a portfolio stays with its client, as upsert_portfolio    *)
(* asserts.                                                                *)
LEMMA PortfolioSavedNumbered ==
  ASSUME Stored, NEW r \in Requests, NEW d, NEW K, Session(r, d, K), OneEach(d),
         NEW m, NEW n, NEW c, NEW name, NEW status, ~PortfolioRefused(d, m, n, c, name)
  PROVE  OneEach(PortfolioSaved(d, r, m, n, c, name, status))
<1>0. Vacant(d, "portfolio", m, n)
  BY VacantIs DEF PortfolioRefused
<1>1. PICK found : found = MatchPortfolio(d, m, n, c)
  OBVIOUS
<1>2. CASE found = {}
  <2>1. PICK v : v = IF status = "" THEN "onboarding" ELSE status
    OBVIOUS
  <2>2. PICK row : row = Portfolio(m, n, c, name, v)
    OBVIOUS
  <2>3. row.kind = "portfolio" /\ row.number = n /\ row.client = m
    BY <2>2 DEF Portfolio
  <2>4. OneEach(Inserted(d, r, row))
    BY <1>0, <2>3, NumberInserted
  <2> QED
    BY <1>1, <1>2, <2>1, <2>2, <2>4 DEF PortfolioSaved
<1>3. CASE found # {}
  <2>1. PICK i : i = First(found)
    OBVIOUS
  <2>2. i \in DOMAIN d /\ d[i].kind = "portfolio" /\ i \in found
    BY <1>1, <1>3, <2>1, FirstOf DEF MatchPortfolio, Numbered, CodedIn, Table
  <2>3. DOMAIN d[i] = {"kind", "client", "number", "code", "name", "status"}
    BY <2>2, ColumnsAre DEF Session, Typed
  <2>4. PICK k : k = IF d[i].number = "" THEN n ELSE d[i].number
    OBVIOUS
  <2>5. PICK v : v = IF status = "" THEN d[i].status ELSE status
    OBVIOUS
  <2>6. PICK y : y = [d[i] EXCEPT !.number = k, !.code = c, !.name = name, !.status = v]
    OBVIOUS
  <2>7. PICK e : e = [d EXCEPT ![i] = y]
    OBVIOUS
  <2>8. PortfolioSaved(d, r, m, n, c, name, status) = e
    BY <1>1, <1>3, <2>1, <2>2, <2>4, <2>5, <2>6, <2>7 DEF PortfolioSaved
  <2>9. y.kind = "portfolio" /\ y.number = k /\ y.client = d[i].client
    BY <2>2, <2>3, <2>6
  <2>10. y.number = d[i].number \/ Vacant(d, y.kind, y.client, y.number)
    <3>1. SUFFICES ASSUME d[i].number = "", n # "" PROVE Vacant(d, y.kind, y.client, y.number)
      BY <2>4, <2>9
    <3>2. d[i].client = m
      <4>1. i \in Numbered(d, "portfolio", n) \/ i \in CodedIn(d, m, c)
        BY <1>1, <2>2 DEF MatchPortfolio
      <4> QED
        BY <3>1, <4>1 DEF Numbered, CodedIn
    <3> QED
      BY <1>0, <2>4, <2>9, <3>1, <3>2
  <2>11. OneEach(e)
    BY <2>2, <2>7, <2>9, <2>10, NumberChanged
  <2> QED
    BY <2>8, <2>11
<1> QED
  BY <1>2, <1>3

(***************************************************************************)
(* What a step of a request comes to that may write numbers.               *)
(***************************************************************************)
ProceedsLawfully(r, K) ==
  \/ \E t : Follows(r, t) /\ GoesOn(r, t)
  \/ \E d, then, else : /\ Session(r, d, K) /\ Lawful(d) /\ Follows(r, then) /\ Follows(r, else)
                        /\ Opens(r, d, then, else)

\* Who writes no clients and portfolios leaves the numbers alone.
LEMMA QuietLawful ==
  ASSUME NEW r, NEW d, NEW K, Session(r, d, K), K \cap NameKinds = {}
  PROVE  Lawful(d)
<1>1. \A i \in Table(d, "client") \cup Table(d, "portfolio") : i \in DOMAIN db /\ d[i] = db[i]
  BY DEF Session, New, Table, NameKinds, Kept
<1> QED
  BY <1>1, NumbersStay, Zenon DEF Lawful

\* What is lawful and what is not tell nothing apart where numbers are left alone.
LEMMA ProceedsEither ==
  ASSUME NEW r, NEW K
  PROVE  /\ ProceedsLawfully(r, K) => Proceeds(r, K)
         /\ Proceeds(r, K) /\ K \cap NameKinds = {} => ProceedsLawfully(r, K)
<1>1. ProceedsLawfully(r, K) => Proceeds(r, K)
  BY Zenon DEF ProceedsLawfully, Proceeds
<1>2. ASSUME Proceeds(r, K), K \cap NameKinds = {} PROVE ProceedsLawfully(r, K)
  BY <1>2, QuietLawful, Zenon DEF ProceedsLawfully, Proceeds
<1> QED
  BY <1>1, <1>2

\* The kinds of rows may be taken wider.
LEMMA LawfullyWidens ==
  ASSUME NEW r, NEW K, NEW L, K \subseteq L, ProceedsLawfully(r, K)
  PROVE  ProceedsLawfully(r, L)
  BY SessionWidens, Zenon DEF ProceedsLawfully

\* What a step comes to: it opens a lawful transaction,
LEMMA OpensLawfully ==
  ASSUME NEW r, Begun(r), NEW K, NEW d, Session(r, d, K), Lawful(d),
         NEW then, Follows(r, then), NEW else, Follows(r, else), Opens(r, d, then, else)
  PROVE  ProceedsLawfully(r, K)
  BY Zenon DEF ProceedsLawfully

\* or goes on without one,
LEMMA GoesOnLawfully ==
  ASSUME NEW r, Begun(r), NEW K, GoesOn(r, <<>>) \/ GoesOn(r, Rest(r))
  PROVE  ProceedsLawfully(r, K)
<1>1. Follows(r, Rest(r)) /\ Follows(r, <<>>)
  BY RestFollows, Zenon DEF Begun
<1> QED
  BY <1>1, Zenon DEF ProceedsLawfully

\* or is refused.
LEMMA TriesLawfully ==
  ASSUME NEW r, Begun(r), NEW K, NEW accepted, NEW d,
         accepted => Session(r, d, K) /\ Lawful(d), Tries(r, accepted, d)
  PROVE  ProceedsLawfully(r, K)
<1>1. Follows(r, Rest(r)) /\ Follows(r, <<>>)
  BY RestFollows, Zenon DEF Begun
<1>2. CASE accepted
  <2>1. Opens(r, d, Rest(r), <<>>)
    BY <1>2 DEF Tries
  <2> QED
    BY <1>1, <1>2, <2>1, OpensLawfully, Zenon
<1>3. CASE ~accepted
  <2>1. GoesOn(r, <<>>)
    BY <1>3 DEF Tries
  <2> QED
    BY <2>1, GoesOnLawfully, Zenon
<1> QED
  BY <1>2, <1>3

\* upsert_portfolio makes a session of well-shaped rows.
LEMMA PortfolioSavedFits ==
  ASSUME Stored, NEW r \in Requests, NEW d, NEW K, Session(r, d, K), "portfolio" \in K,
         NEW m, NEW n, NEW c, NEW name, c # "", name # "", NEW status, status \in {""} \cup Statuses.portfolio
  PROVE  Session(r, PortfolioSaved(d, r, m, n, c, name, status), K)
<1>1. PICK found : found = MatchPortfolio(d, m, n, c)
  OBVIOUS
<1>2. CASE found = {}
  <2>1. PICK v : v = IF status = "" THEN "onboarding" ELSE status
    OBVIOUS
  <2>2. v \in Statuses.portfolio
    BY <2>1, ColumnsAre
  <2>3. Typed(Portfolio(m, n, c, name, v)) /\ Portfolio(m, n, c, name, v).kind \in K
    BY <2>2, TypedRows DEF Portfolio
  <2>4. Session(r, Inserted(d, r, Portfolio(m, n, c, name, v)), K)
    BY <2>3, Insertion
  <2> QED
    BY <1>1, <1>2, <2>1, <2>4 DEF PortfolioSaved
<1>3. CASE found # {}
  <2>1. PICK i : i = First(found)
    OBVIOUS
  <2>2. i \in DOMAIN d /\ d[i].kind = "portfolio"
    BY <1>1, <1>3, <2>1, FirstOf DEF MatchPortfolio, Numbered, CodedIn, Table
  <2>3. Typed(d[i]) /\ d[i].kind \in Free \cap K
    BY <2>2 DEF Session, Free
  <2>4. PICK k : k = IF d[i].number = "" THEN n ELSE d[i].number
    OBVIOUS
  <2>5. PICK v : v = IF status = "" THEN d[i].status ELSE status
    OBVIOUS
  <2>6. v \in Statuses.portfolio
    <3>1. d[i].status \in Statuses.portfolio
      BY <2>2, <2>3, ColumnsAre DEF Typed, Takes
    <3> QED
      BY <2>5, <3>1
  <2>7. PICK y : y = [d[i] EXCEPT !.number = k, !.code = c, !.name = name, !.status = v]
    OBVIOUS
  <2>8. PICK e : e = [d EXCEPT ![i] = y]
    OBVIOUS
  <2>9. PortfolioSaved(d, r, m, n, c, name, status) = e
    BY <1>1, <1>3, <2>1, <2>2, <2>4, <2>5, <2>7, <2>8 DEF PortfolioSaved
  <2>10. Patch(d[i], y)
    BY <2>2, <2>3, <2>6, <2>7, PortfolioNamed, Zenon
  <2>11. Session(r, e, K)
    BY <2>2, <2>3, <2>8, <2>10, FreeEdition, Zenon
  <2> QED
    BY <2>9, <2>11
<1> QED
  BY <1>2, <1>3

\* The handlers of clients and portfolios, one by one.
LEMMA SaveClientProceeds ==
  ASSUME NEW r, Begun(r), SaveClient(r)
  PROVE  ProceedsLawfully(r, NameKinds)
<1>1. PICK o : o = Op(r)
  OBVIOUS
<1>2. PICK accepted : accepted = ~ClientRefused(db, o.number, o.code, o.name)
  OBVIOUS
<1>3. PICK d : d = ClientSaved(db, r, o.number, o.code, o.name)
  OBVIOUS
<1>4. Tries(r, accepted, d)
  BY <1>1, <1>2, <1>3 DEF SaveClient
<1>5. ASSUME accepted PROVE Session(r, d, NameKinds) /\ Lawful(d)
  <2>1. o.code # "" /\ o.name # ""
    BY <1>2, <1>5 DEF ClientRefused
  <2>2. Session(r, db, NameKinds) /\ r \in Requests /\ Stored
    BY SessionBegins DEF Begun
  <2>3. "client" \in NameKinds
    BY DEF NameKinds
  <2>4. Session(r, d, NameKinds)
    BY <1>3, <2>1, <2>2, <2>3, ClientSavedFits
  <2>5. Lawful(d)
    BY <1>2, <1>3, <1>5, <2>2, ClientSavedNumbered DEF Lawful
  <2> QED
    BY <2>4, <2>5
<1> QED
  BY <1>4, <1>5, TriesLawfully, Zenon

LEMMA SavePortfolioProceeds ==
  ASSUME NEW r, Begun(r), SavePortfolio(r)
  PROVE  ProceedsLawfully(r, NameKinds)
<1>1. PICK o : o = Op(r)
  OBVIOUS
<1>2. PICK accepted : accepted = ~PortfolioRefused(db, o.client, o.number, o.code, o.name)
  OBVIOUS
<1>3. PICK d : d = PortfolioSaved(db, r, o.client, o.number, o.code, o.name, o.status)
  OBVIOUS
<1>4. Tries(r, accepted, d)
  BY <1>1, <1>2, <1>3 DEF SavePortfolio
<1>5. ASSUME accepted PROVE Session(r, d, NameKinds) /\ Lawful(d)
  <2>1. o.code # "" /\ o.name # ""
    BY <1>2, <1>5 DEF PortfolioRefused
  <2>2. Session(r, db, NameKinds) /\ r \in Requests /\ Stored
    BY SessionBegins DEF Begun
  <2>3. "portfolio" \in NameKinds
    BY DEF NameKinds
  <2>4. o.status \in {""} \cup Statuses.portfolio
    <3>1. Asked(o) /\ o.do = "save portfolio"
      BY <1>1, RestFollows DEF Begun, SavePortfolio, Next1, Op
    <3> QED
      BY <3>1 DEF Asked
  <2>5. Session(r, d, NameKinds)
    BY <1>3, <2>1, <2>2, <2>3, <2>4, PortfolioSavedFits
  <2>6. Lawful(d)
    BY <1>2, <1>3, <1>5, <2>2, PortfolioSavedNumbered DEF Lawful
  <2> QED
    BY <2>5, <2>6
<1> QED
  BY <1>4, <1>5, TriesLawfully, Zenon

LEMMA EditClientProceeds ==
  ASSUME NEW r, Begun(r), EditClient(r)
  PROVE  ProceedsLawfully(r, NameKinds)
<1>1. PICK o : o = Op(r)
  OBVIOUS
<1>2. PICK i : i = o.id
  OBVIOUS
<1>3. PICK y : y = [db[i] EXCEPT !.number = Given(o.number, db[i].number), !.code = Given(o.code, db[i].code),
                                 !.ready = db[i].ready \/ o.ready, !.supervised = db[i].supervised \/ o.supervised]
  OBVIOUS
<1>4. PICK d : d = [db EXCEPT ![i] = y]
  OBVIOUS
<1>5. PICK accepted :
        /\ accepted => /\ i \in Table(db, "client")
                       /\ o.number # "" => ~Rewrites(db[i], o.number)
                       /\ o.number # "" /\ db[i].number = "" =>
                            Numbered(db, "client", o.number) = {} /\ MasterNotSub(db, o.number)
        /\ Tries(r, accepted, d)
  <2>1. i \in Table(db, "client") =>
          d = [db EXCEPT ![i].number = Given(o.number, @), ![i].code = Given(o.code, @),
                         ![i].ready = @ \/ o.ready, ![i].supervised = @ \/ o.supervised]
    BY <1>3, <1>4 DEF Table
  <2> QED
    BY <1>1, <1>2, <2>1 DEF EditClient, Tries
<1>6. ASSUME accepted PROVE Session(r, d, NameKinds) /\ Lawful(d)
  <2>1. i \in DOMAIN db /\ db[i].kind = "client" /\ Typed(db[i])
    BY <1>5, <1>6 DEF Table, Begun, Stored
  <2>2. Session(r, db, NameKinds) /\ r \in Requests /\ Stored
    BY SessionBegins DEF Begun
  <2>3. db[i].kind \in Free \cap NameKinds
    BY <2>1 DEF NameKinds, Free
  <2>4. Given(o.code, db[i].code) # ""
    BY <2>1, ColumnsAre DEF Given, Typed, Takes
  <2>5. Patch(db[i], y)
    BY <1>3, <2>1, <2>4, ClientEdited, Zenon
  <2>6. Session(r, d, NameKinds)
    BY <1>4, <2>1, <2>2, <2>3, <2>5, FreeEdition, Zenon
  <2>7. DOMAIN db[i] = {"kind", "number", "code", "name", "status", "ready", "supervised"}
    BY <2>1, ColumnsAre DEF Typed
  <2>8. y.kind = "client" /\ y.number = Given(o.number, db[i].number)
    BY <1>3, <2>1, <2>7
  <2>9. y.number = db[i].number \/ Vacant(db, y.kind, y.client, y.number)
    <3>1. CASE o.number = "" \/ db[i].number # ""
      BY <1>5, <1>6, <2>8, <3>1 DEF Given, Rewrites
    <3>2. CASE o.number # "" /\ db[i].number = ""
      <4>1. Vacant(db, "client", y.client, o.number)
        BY <1>5, <1>6, <3>2, VacantIs
      <4> QED
        BY <2>8, <3>2, <4>1 DEF Given
    <3> QED
      BY <3>1, <3>2
  <2>10. Lawful(d)
    BY <1>4, <2>1, <2>8, <2>9, NumberChanged DEF Lawful
  <2> QED
    BY <2>6, <2>10
<1> QED
  BY <1>5, <1>6, TriesLawfully, Zenon

LEMMA GoesOnProceeds ==
  ASSUME NEW r, Begun(r), NEW K, GoesOn(r, <<>>) \/ GoesOn(r, Rest(r))
  PROVE  Proceeds(r, K)
<1>1. Follows(r, Rest(r)) /\ Follows(r, <<>>)
  BY RestFollows, Zenon DEF Begun
<1> QED
  BY <1>1, Zenon DEF Proceeds

LEMMA OpensProceeds ==
  ASSUME NEW r, Begun(r), NEW K, NEW d, Session(r, d, K),
         NEW then, Follows(r, then), NEW else, Follows(r, else), Opens(r, d, then, else)
  PROVE  Proceeds(r, K)
  BY Zenon DEF Proceeds

LEMMA EditPortfolioProceeds ==
  ASSUME NEW r, Begun(r), EditPortfolio(r)
  PROVE  ProceedsLawfully(r, NameKinds)
<1>1. PICK o : o = Op(r)
  OBVIOUS
<1>2. PICK p : p = o.id
  OBVIOUS
<1>3. PICK y : y = [db[p] EXCEPT !.number = Given(o.number, db[p].number), !.code = Given(o.code, db[p].code),
                                 !.status = Given(o.status, db[p].status)]
  OBVIOUS
<1>4. PICK d : d = [db EXCEPT ![p] = y]
  OBVIOUS
<1>5. PICK errand : errand = [do |-> "enqueue", client |-> db[p].client, portfolios |-> {p}]
  OBVIOUS
<1> DEFINE Renames == /\ p \in Table(db, "portfolio")
                      /\ o.number # "" => /\ ~Rewrites(db[p], o.number)
                                          /\ db[p].number = "" => ~SubRefused(db, db[p].client, o.number)
<1>6. \/ GoesOn(r, <<>>)
      \/ Renames /\ (Opens(r, d, <<errand>> \o Rest(r), <<>>) \/ Opens(r, d, Rest(r), <<>>))
  <2>1. p \in Table(db, "portfolio") =>
          d = [db EXCEPT ![p].number = Given(o.number, @), ![p].code = Given(o.code, @),
                         ![p].status = Given(o.status, @)]
    BY <1>3, <1>4 DEF Table
  <2> QED
    BY <1>1, <1>2, <1>5, <2>1 DEF EditPortfolio
<1>7. Follows(r, Rest(r)) /\ Follows(r, <<>>) /\ Asked(o) /\ o.do = "edit portfolio"
  BY <1>1, RestFollows DEF Begun, EditPortfolio, Next1, Op
<1>8. Follows(r, <<errand>> \o Rest(r))
  <2>1. IsFiniteSet({p})
    BY FS_Singleton
  <2>2. Errand(r, errand)
    BY <1>5, <2>1 DEF Errand, Asked, HasAccounts, Setting, WithFile, Continued, Background
  <2> QED
    BY <1>7, <2>2, ErrandFollows
<1>9. ASSUME Renames PROVE Session(r, d, NameKinds) /\ Lawful(d)
  <2>1. p \in DOMAIN db /\ db[p].kind = "portfolio" /\ Typed(db[p])
    BY <1>9 DEF Table, Begun, Stored
  <2>2. Session(r, db, NameKinds) /\ r \in Requests /\ Stored
    BY SessionBegins DEF Begun
  <2>3. db[p].kind \in Free \cap NameKinds
    BY <2>1 DEF NameKinds, Free
  <2>4. Given(o.code, db[p].code) # "" /\ Given(o.status, db[p].status) \in Statuses.portfolio
    <3>1. db[p].code # "" /\ db[p].status \in Statuses.portfolio
      BY <2>1, ColumnsAre DEF Typed, Takes
    <3>2. o.status \in {""} \cup Statuses.portfolio
      BY <1>7 DEF Asked
    <3> QED
      BY <3>1, <3>2 DEF Given
  <2>5. Patch(db[p], y)
    BY <1>3, <2>1, <2>4, PortfolioEdited, Zenon
  <2>6. Session(r, d, NameKinds)
    BY <1>4, <2>1, <2>2, <2>3, <2>5, FreeEdition, Zenon
  <2>7. DOMAIN db[p] = {"kind", "client", "number", "code", "name", "status"}
    BY <2>1, ColumnsAre DEF Typed
  <2>8. y.kind = "portfolio" /\ y.number = Given(o.number, db[p].number) /\ y.client = db[p].client
    BY <1>3, <2>1, <2>7
  <2>9. y.number = db[p].number \/ Vacant(db, y.kind, y.client, y.number)
    <3>1. CASE o.number = "" \/ db[p].number # ""
      BY <1>9, <2>8, <3>1 DEF Given, Rewrites
    <3>2. CASE o.number # "" /\ db[p].number = ""
      <4>1. Vacant(db, "portfolio", db[p].client, o.number)
        BY <1>9, <3>2, VacantIs
      <4> QED
        BY <2>8, <3>2, <4>1 DEF Given
    <3> QED
      BY <3>1, <3>2
  <2>10. Lawful(d)
    BY <1>4, <2>1, <2>8, <2>9, NumberChanged DEF Lawful
  <2> QED
    BY <2>6, <2>10
<1> HIDE DEF Renames
<1>10. CASE GoesOn(r, <<>>)
  BY <1>10, GoesOnLawfully
<1>11. CASE Renames /\ Opens(r, d, <<errand>> \o Rest(r), <<>>)
  BY <1>7, <1>8, <1>9, <1>11, OpensLawfully, Zenon
<1>12. CASE Renames /\ Opens(r, d, Rest(r), <<>>)
  BY <1>7, <1>9, <1>12, OpensLawfully, Zenon
<1> QED
  BY <1>6, <1>10, <1>11, <1>12

LEMMA ActivateClientProceeds ==
  ASSUME NEW r, Begun(r), ActivateClient(r)
  PROVE  ProceedsLawfully(r, NameKinds)
<1>1. PICK i : i = Op(r).id
  OBVIOUS
<1>2. PICK y : y = [db[i] EXCEPT !.status = "active"]
  OBVIOUS
<1>3. PICK d : d = [db EXCEPT ![i] = y]
  OBVIOUS
<1>4. PICK errand : errand = [do |-> "enqueue client", client |-> i]
  OBVIOUS
<1>5. \/ GoesOn(r, <<>>)
      \/ i \in Table(db, "client") /\ Opens(r, d, <<errand>> \o Rest(r), <<>>)
  <2>1. i \in Table(db, "client") => d = [db EXCEPT ![i].status = "active"]
    BY <1>2, <1>3 DEF Table
  <2> QED
    BY <1>1, <1>4, <2>1 DEF ActivateClient
<1>6. Follows(r, <<errand>> \o Rest(r)) /\ Follows(r, <<>>)
  <2>1. Errand(r, errand)
    BY <1>4 DEF Errand, Asked, HasAccounts, Setting, WithFile, Continued, Background
  <2>2. Follows(r, Rest(r)) /\ Follows(r, <<>>)
    BY RestFollows, Zenon DEF Begun
  <2> QED
    BY <2>1, <2>2, ErrandFollows
<1>7. ASSUME i \in Table(db, "client") PROVE Session(r, d, NameKinds) /\ Lawful(d)
  <2>1. i \in DOMAIN db /\ db[i].kind = "client" /\ Typed(db[i])
    BY <1>7 DEF Table, Begun, Stored
  <2>2. Session(r, db, NameKinds) /\ r \in Requests /\ Stored
    BY SessionBegins DEF Begun
  <2>3. db[i].kind \in Free \cap NameKinds /\ "active" \in Statuses.client
    BY <2>1, ColumnsAre DEF NameKinds, Free
  <2>4. Patch(db[i], y)
    BY <1>2, <2>1, <2>3, ClientActive, Zenon
  <2>5. Session(r, d, NameKinds)
    BY <1>3, <2>1, <2>2, <2>3, <2>4, FreeEdition, Zenon
  <2>6. DOMAIN db[i] = {"kind", "number", "code", "name", "status", "ready", "supervised"}
    BY <2>1, ColumnsAre DEF Typed
  <2>7. y.kind = db[i].kind /\ y.kind = "client" /\ y.number = db[i].number
    BY <1>2, <2>1, <2>6
  <2>8. Lawful(d)
    BY <1>3, <2>1, <2>7, NumberChanged DEF Lawful
  <2> QED
    BY <2>5, <2>8
<1>8. CASE GoesOn(r, <<>>)
  BY <1>8, GoesOnLawfully
<1>9. CASE i \in Table(db, "client") /\ Opens(r, d, <<errand>> \o Rest(r), <<>>)
  BY <1>6, <1>7, <1>9, OpensLawfully, Zenon
<1> QED
  BY <1>5, <1>8, <1>9

(***************************************************************************)
(* Requests without a file leave the jobs and the runs alone, and of the   *)
(* accounts they take some away at most.                                   *)
(***************************************************************************)
FileKinds == {"account", "job", "run"}
Aloof(d) ==
  /\ \A i \in New(d) : d[i].kind \notin FileKinds
  /\ \A i \in DOMAIN d \cap DOMAIN db : d[i] = db[i] \/ db[i].kind \notin FileKinds
  /\ \A i \in DOMAIN db \ DOMAIN d : db[i].kind \notin {"job", "run"}

ProceedsAside(r) ==
  \/ \E t : Follows(r, t) /\ GoesOn(r, t)
  \/ \E d, then, else : /\ Session(r, d, BookKinds) /\ Aloof(d) /\ Follows(r, then) /\ Follows(r, else)
                        /\ Opens(r, d, then, else)

LEMMA OthersAloof ==
  ASSUME NEW r, NEW d, NEW K, Session(r, d, K), K \cap FileKinds = {}
  PROVE  Aloof(d)
  BY DEF Session, Aloof, FileKinds, Kept

LEMMA LooseAside ==
  ASSUME NEW r, NEW K, K \subseteq LooseKinds, Proceeds(r, K)
  PROVE  ProceedsAside(r)
<1>1. CASE \E t : Follows(r, t) /\ GoesOn(r, t)
  BY <1>1 DEF ProceedsAside
<1>2. ASSUME NEW d, NEW then, NEW else, Session(r, d, K), Follows(r, then), Follows(r, else),
             Opens(r, d, then, else)
      PROVE  ProceedsAside(r)
  <2>1. K \cap FileKinds = {} /\ K \subseteq BookKinds
    BY DEF LooseKinds, NameKinds, DraftKinds, BookKinds, FileKinds
  <2>2. Session(r, d, BookKinds) /\ Aloof(d)
    BY <1>2, <2>1, OthersAloof, SessionWidens, Zenon
  <2> QED
    BY <1>2, <2>2, Zenon DEF ProceedsAside
<1> QED
  BY <1>1, <1>2 DEF Proceeds

\* A deletion leaves rows as they are or takes them.
Narrow(d) == \A i \in DOMAIN d : i \in DOMAIN db /\ d[i] = db[i]
ProceedsNarrowly(r) ==
  \/ \E t : Follows(r, t) /\ GoesOn(r, t)
  \/ \E d, then, else : /\ Session(r, d, BookKinds) /\ Aloof(d) /\ Narrow(d) /\ Follows(r, then) /\ Follows(r, else)
                        /\ Opens(r, d, then, else)

LEMMA TriesNarrowly ==
  ASSUME NEW r, Begun(r), NEW accepted, NEW d,
         accepted => Session(r, d, BookKinds) /\ Aloof(d) /\ Narrow(d), Tries(r, accepted, d)
  PROVE  ProceedsNarrowly(r)
<1>1. Follows(r, Rest(r)) /\ Follows(r, <<>>)
  BY RestFollows, Zenon DEF Begun
<1>2. CASE accepted
  <2>1. Opens(r, d, Rest(r), <<>>)
    BY <1>2 DEF Tries
  <2> QED
    BY <1>1, <1>2, <2>1, Zenon DEF ProceedsNarrowly
<1>3. CASE ~accepted
  <2>1. GoesOn(r, <<>>)
    BY <1>3 DEF Tries
  <2> QED
    BY <1>1, <2>1, Zenon DEF ProceedsNarrowly
<1> QED
  BY <1>2, <1>3

(* Deletions leave the work of an account alone. *)
LEMMA BookDeletion ==
  ASSUME NEW r, Begun(r), NEW gone, \A i \in gone \cap DOMAIN db : db[i].kind \in BookKinds \ {"work", "job", "run"},
         NEW d, d = Without(db, Purged(db, gone))
  PROVE  Session(r, d, BookKinds) /\ Aloof(d) /\ Narrow(d)
<1>1. Session(r, db, BookKinds) /\ r \in Requests /\ Stored
  BY SessionBegins DEF Begun
<1>2. PICK g : g = Purged(db, gone)
  OBVIOUS
<1>3. \A i \in g \cap DOMAIN db : i \in DOMAIN db /\ db[i].kind \in BookKinds \ {"work", "job", "run"}
  BY <1>2 DEF Purged, Table, BookKinds
<1>4. \A i \in g \cap DOMAIN db : i \in DOMAIN db /\ db[i].kind \in BookKinds \ {"work"}
  BY <1>3
<1>5. Session(r, Without(db, g), BookKinds)
  BY <1>1, <1>4, Deletion, Zenon
<1>6. Aloof(d) /\ Narrow(d)
  BY <1>2, <1>3 DEF Aloof, Narrow, Without, New
<1> QED
  BY <1>2, <1>5, <1>6

LEMMA DeletePortfolioProceeds ==
  ASSUME NEW r, Begun(r), DeletePortfolio(r)
  PROVE  ProceedsNarrowly(r)
<1>1. PICK p : p = Op(r).id
  OBVIOUS
<1>2. PICK gone : gone = {p} \cup {i \in DOMAIN db : db[i].kind \in Children \ {"portfolio"} /\ db[i].portfolio = p}
  OBVIOUS
<1>3. PICK d : d = Without(db, Purged(db, gone))
  OBVIOUS
<1>4. Tries(r, p \in Table(db, "portfolio"), d)
  BY <1>1, <1>2, <1>3 DEF DeletePortfolio
<1>5. ASSUME p \in Table(db, "portfolio") PROVE Session(r, d, BookKinds) /\ Aloof(d) /\ Narrow(d)
  <2>1. \A i \in gone \cap DOMAIN db : db[i].kind \in BookKinds \ {"work", "job", "run"}
    BY <1>2, <1>5 DEF Children, BookKinds, Table
  <2> QED
    BY <1>3, <2>1, BookDeletion
<1> QED
  BY <1>4, <1>5, TriesNarrowly, Zenon

LEMMA DeleteClientProceeds ==
  ASSUME NEW r, Begun(r), DeleteClient(r)
  PROVE  ProceedsNarrowly(r)
<1>1. PICK m : m = Op(r).id
  OBVIOUS
<1>2. PICK gone : gone = {m} \cup {i \in DOMAIN db : db[i].kind \in Children /\ db[i].client = m}
  OBVIOUS
<1>3. PICK d : d = Without(db, Purged(db, gone))
  OBVIOUS
<1>4. Tries(r, m \in Table(db, "client"), d)
  BY <1>1, <1>2, <1>3 DEF DeleteClient
<1>5. ASSUME m \in Table(db, "client") PROVE Session(r, d, BookKinds) /\ Aloof(d) /\ Narrow(d)
  <2>1. \A i \in gone \cap DOMAIN db : db[i].kind \in BookKinds \ {"work", "job", "run"}
    BY <1>2, <1>5 DEF Children, BookKinds, Table
  <2> QED
    BY <1>3, <2>1, BookDeletion
<1> QED
  BY <1>4, <1>5, TriesNarrowly, Zenon

\* All of them.
LEMMA BookStepProceeds ==
  ASSUME NEW r, Begun(r), BookStep(r)
  PROVE  ProceedsLawfully(r, NameKinds) \/ ProceedsNarrowly(r)
  BY SaveClientProceeds, SavePortfolioProceeds, EditClientProceeds, EditPortfolioProceeds,
     ActivateClientProceeds, DeletePortfolioProceeds, DeleteClientProceeds, Zenon DEF BookStep

LEMMA BookStepAside ==
  ASSUME NEW r, Begun(r), BookStep(r)
  PROVE  ProceedsAside(r)
<1>1. NameKinds \subseteq LooseKinds
  BY DEF LooseKinds
<1>2. ProceedsNarrowly(r) => ProceedsAside(r)
  BY Zenon DEF ProceedsNarrowly, ProceedsAside
<1> QED
  BY <1>1, <1>2, BookStepProceeds, ProceedsEither, LooseAside, Zenon

LEMMA FiniteImage ==
  ASSUME NEW S, IsFiniteSet(S), NEW f
  PROVE  IsFiniteSet({f[x] : x \in S})
<1> DEFINE T == {f[x] : x \in S}
           g == [x \in S |-> f[x]]
<1>1. g \in Surjection(S, T)
  BY DEF Surjection
<1> HIDE DEF T, g
<1>3. IsFiniteSet(T)
  BY <1>1, FS_Surjection, Zenon
<1> QED
  BY <1>3 DEF T

\* A session has finitely many rows.
LEMMA SessionFinite ==
  ASSUME Stored, NEW r, NEW d, NEW K, Session(r, d, K)
  PROVE  IsFiniteSet(DOMAIN d)
<1>1. IsFiniteSet(DOMAIN db) /\ IsFiniteSet(New(d))
  BY DEF Stored, Session
<1>2. IsFiniteSet(DOMAIN db \cup New(d))
  BY <1>1, FS_Union, Zenon
<1>3. DOMAIN d \in SUBSET (DOMAIN db \cup New(d))
  BY DEF New
<1> QED
  BY <1>2, <1>3, FS_Subset, Zenon

(***************************************************************************)
(* Suggestion jobs.                                                        *)
(***************************************************************************)
\* The jobs that e has and d has not are new, and that is all.
QueuedOn(d, e) ==
  /\ DOMAIN d \subseteq DOMAIN e /\ \A i \in DOMAIN d : e[i] = d[i]
  /\ \A i \in DOMAIN e \ DOMAIN d : i \notin DOMAIN db /\ e[i].kind = "aijob"

\* They are the request's own, for scopes that nothing else serves.
Serves(d, i, s) ==
  /\ InScope(d[i], s)
  /\ \/ d[i].kind = "strategy" /\ d[i].ai
     \/ d[i].kind = "aijob" /\ d[i].status \in Blocking
QueuedBy(d, e, r) ==
  \A i \in DOMAIN e \ DOMAIN d : i[1] = r /\ \A j \in DOMAIN d : ~Serves(d, j, ScopeOf(e[i]))

\* enqueue inserts a job for each scope that has none pending.
LEMMA EnqueuedFits ==
  ASSUME Stored, NEW r \in Requests, NEW d, NEW K, Session(r, d, K), "aijob" \in K,
         NEW scopes, IsFiniteSet(scopes)
  PROVE  /\ Session(r, Enqueued(d, r, scopes), K) /\ QueuedOn(d, Enqueued(d, r, scopes))
         /\ QueuedBy(d, Enqueued(d, r, scopes), r)
<1> DEFINE served(s) == \/ HasAiWorkflows(d, s)
                        \/ \E i \in Table(d, "aijob") : d[i].status \in Blocking /\ InScope(d[i], s)
           job(s) == [kind |-> "aijob", client |-> s.client, portfolio |-> s.portfolio,
                      status |-> "pending", counted |-> FALSE]
           open == {t \in scopes : ~served(t)}
           S == {job(s) : s \in open}
           f == [s \in open |-> job(s)]
<1>1. IsFiniteSet(open)
  <2>1. open \in SUBSET scopes
    OBVIOUS
  <2> HIDE DEF open
  <2> QED
    BY <2>1, FS_Subset, Zenon
<1>2. S = {f[s] : s \in open}
  OBVIOUS
<1>3. IsFiniteSet({f[s] : s \in open})
  <2> HIDE DEF f, open
  <2> QED
    BY <1>1, FiniteImage, Zenon
<1>4. \A row \in S : Typed(row) /\ row.kind \in K /\ row.kind = "aijob"
  <2> SUFFICES ASSUME NEW s \in open PROVE Typed(job(s)) /\ job(s).kind \in K /\ job(s).kind = "aijob"
    OBVIOUS
  <2>1. Typed(job(s))
    BY TypedRows, Zenon
  <2> QED
    BY <2>1
<1>10. \A row \in S : \A j \in DOMAIN d : ~Serves(d, j, ScopeOf(row))
  <2> SUFFICES ASSUME NEW s \in open, NEW j \in DOMAIN d PROVE ~Serves(d, j, ScopeOf(job(s)))
    OBVIOUS
  <2>1. ~served(s)
    OBVIOUS
  <2>2. job(s).client = s.client /\ job(s).portfolio = s.portfolio
    OBVIOUS
  <2> HIDE DEF job, open
  <2>3. ScopeOf(job(s)).client = s.client /\ ScopeOf(job(s)).portfolio = s.portfolio
    BY <2>2 DEF ScopeOf
  <2> QED
    BY <2>1, <2>3 DEF Serves, HasAiWorkflows, InScope, Table
<1>5. PICK T : T = S
  <2> HIDE DEF S
  <2> QED
    OBVIOUS
<1>6. IsFiniteSet(T) /\ \A row \in T : Typed(row) /\ row.kind \in K /\ row.kind = "aijob"
  BY <1>2, <1>3, <1>4, <1>5
<1>11. \A row \in T : \A j \in DOMAIN d : ~Serves(d, j, ScopeOf(row))
  BY <1>5, <1>10
<1>7. PICK e : e = InsertedAll(d, r, SetToSeq(T))
  OBVIOUS
<1>8. /\ Session(r, e, K)
      /\ DOMAIN d \subseteq DOMAIN e /\ \A i \in DOMAIN d : e[i] = d[i]
      /\ \A i \in DOMAIN e \ DOMAIN d : i[1] = r /\ i \notin DOMAIN db /\ e[i] \in T
  BY <1>6, <1>7, InsertionsOf
<1>9. Session(r, e, K) /\ QueuedOn(d, e)
  BY <1>6, <1>8 DEF QueuedOn
<1>12. QueuedBy(d, e, r)
  BY <1>8, <1>11 DEF QueuedBy
<1> QED
  BY <1>5, <1>7, <1>9, <1>12 DEF Enqueued

(* The errands a request leaves to its later transactions. *)
LEMMA ErrandsAre ==
  ASSUME NEW r, Op(r).do \in Leading
  PROVE  /\ \A id : Errand(r, [do |-> "process", id |-> id]) /\ Errand(r, [do |-> "gates", id |-> id])
                    /\ Errand(r, [do |-> "suggest", id |-> id])
         /\ \A id, status : status \in {"done", "failed"} =>
              Errand(r, [do |-> "finish", id |-> id, status |-> status])
<1>1. \A id : /\ Errand(r, [do |-> "process", id |-> id]) /\ Errand(r, [do |-> "gates", id |-> id])
               /\ Errand(r, [do |-> "suggest", id |-> id])
  BY DEF Errand, Asked, HasAccounts, Setting, WithFile, Continued
<1>2. \A id, status : status \in {"done", "failed"} =>
        Errand(r, [do |-> "finish", id |-> id, status |-> status])
  BY DEF Errand, Asked, HasAccounts, Setting, WithFile, Continued
<1> QED
  BY <1>1, <1>2, Zenon

\* The work on a file is left to transactions after its upload, one by one,
LEMMA ClaimErrandIs ==
  ASSUME NEW r, Op(r).do \in OfFiles, NEW id, NEW type \in AccountFiles \cup {"client_upload"}, NEW file,
         Len(file.rows) \in Nat, type \in AccountFiles => Classed(file.rows),
         NEW o, o = [do |-> "claim", id |-> id, type |-> type, file |-> file]
  PROVE  Errand(r, o)
<1>1. o.do = "claim" /\ o.file = file /\ o.type = type
  OBVIOUS
<1> QED
  BY <1>1 DEF Errand, Asked, HasAccounts, Setting, WithFile, Background

\* with rows that are classified if they are of accounts.
LEMMA WorkErrandIs ==
  ASSUME NEW r, Op(r).do \in OfFiles, NEW do \in {"preview", "begin", "client file"}, NEW id, NEW file,
         Len(file.rows) \in Nat, do # "client file" => Classed(file.rows),
         NEW o, o = [do |-> do, id |-> id, file |-> file]
  PROVE  Errand(r, o)
<1>1. o.do = do /\ o.file = file
  OBVIOUS
<1> QED
  BY <1>1 DEF Errand, Asked, HasAccounts, Setting, WithFile, Background

\* So is the work on its run.
LEMMA RunErrandIs ==
  ASSUME NEW r, Op(r).do \in OfFiles, NEW do \in {"link", "import"}, NEW id, NEW run, NEW file,
         Len(file.rows) \in Nat, Classed(file.rows),
         NEW o, o = [do |-> do, id |-> id, run |-> run, file |-> file]
  PROVE  Errand(r, o)
<1>1. o.do = do /\ o.file = file
  OBVIOUS
<1> QED
  BY <1>1 DEF Errand, Asked, HasAccounts, Setting, WithFile, Background

\* The end of a job needs no file.
LEMMA FileErrandsAre ==
  ASSUME NEW r, Op(r).do \in OfFiles
  PROVE  /\ \A id : Errand(r, [do |-> "fail", id |-> id])
         /\ \A id, run : Errand(r, [do |-> "close", id |-> id, run |-> run])
<1>1. \A id : Errand(r, [do |-> "fail", id |-> id])
  BY DEF Errand, Asked, HasAccounts, Setting, WithFile, Background
<1>2. \A id, run : Errand(r, [do |-> "close", id |-> id, run |-> run])
  BY DEF Errand, Asked, HasAccounts, Setting, WithFile, Background
<1> QED
  BY <1>1, <1>2, Zenon

\* The worker goes through claim, gates, design and finish.
LEMMA ProcessingFollows ==
  ASSUME NEW r, Op(r).do \in Leading, NEW d, NEW e, IsFiniteSet(DOMAIN e), NEW t, Follows(r, t)
  PROVE  Follows(r, Processing(d, e) \o t)
<1> DEFINE ids == Table(e, "aijob") \ Table(d, "aijob")
           f == [i \in ids |-> [do |-> "process", id |-> i]]
           S == {[do |-> "process", id |-> i] : i \in ids}
<1>1. IsFiniteSet(ids)
  <2>1. ids \in SUBSET DOMAIN e
    BY DEF Table
  <2> HIDE DEF ids
  <2> QED
    BY <2>1, FS_Subset, Zenon
<1>2. IsFiniteSet({f[i] : i \in ids})
  <2> HIDE DEF ids, f
  <2> QED
    BY <1>1, FiniteImage, Zenon
<1>3. S = {f[i] : i \in ids}
  OBVIOUS
<1>4. \A o \in S : Errand(r, o)
  BY ErrandsAre, Zenon
<1>5. PICK T : T = S
  <2> HIDE DEF S
  <2> QED
    OBVIOUS
<1>6. IsFiniteSet(T) /\ \A o \in T : Errand(r, o)
  BY <1>2, <1>3, <1>4, <1>5
<1>7. PICK k, p : k = Cardinality(T) /\ p = SetToSeq(T)
  OBVIOUS
<1>8. k \in Nat /\ p \in [1 .. k -> T]
  BY <1>6, <1>7, Listed
<1>9. p \in [1 .. k -> {p[n] : n \in 1 .. k}] /\ \A n \in 1 .. k : Errand(r, p[n])
  BY <1>6, <1>8
<1>10. Follows(r, p \o t)
  BY <1>8, <1>9, ErrandsFollow
<1> QED
  BY <1>5, <1>7, <1>10 DEF Processing

Enqueueing(r) == Op(r).do \in Leading /\ \E scopes : IsFiniteSet(scopes) /\ EnqueuesNow(r, scopes)

LEMMA EnqueuesProceeds ==
  ASSUME NEW r, Begun(r), Enqueueing(r)
  PROVE  Proceeds(r, DraftKinds)
<1>0. PICK scopes : IsFiniteSet(scopes) /\ EnqueuesNow(r, scopes)
  BY Zenon DEF Enqueueing
<1>1. PICK e : e = Enqueued(db, r, scopes)
  OBVIOUS
<1>2. GoesOn(r, Rest(r)) \/ Opens(r, e, Processing(db, e) \o Rest(r), <<>>)
  BY <1>0, <1>1 DEF EnqueuesNow
<1>3. Session(r, e, DraftKinds)
  <2>1. Session(r, db, DraftKinds) /\ r \in Requests /\ Stored /\ "aijob" \in DraftKinds
    BY SessionBegins DEF Begun, DraftKinds
  <2> QED
    BY <1>0, <1>1, <2>1, EnqueuedFits
<1>4. Follows(r, Rest(r)) /\ Follows(r, <<>>)
  BY RestFollows, Zenon DEF Begun
<1>5. Follows(r, Processing(db, e) \o Rest(r))
  <2>1. IsFiniteSet(DOMAIN e)
    BY <1>3, SessionFinite DEF Begun
  <2> QED
    BY <1>4, <2>1, ProcessingFollows DEF Enqueueing
<1>6. CASE GoesOn(r, Rest(r))
  BY <1>6, GoesOnProceeds
<1>7. CASE Opens(r, e, Processing(db, e) \o Rest(r), <<>>)
  BY <1>3, <1>4, <1>5, <1>7, OpensProceeds, Zenon
<1> QED
  BY <1>2, <1>6, <1>7

LEMMA ScopesFinite ==
  ASSUME NEW m, NEW portfolios, IsFiniteSet(portfolios)
  PROVE  IsFiniteSet(Scopes(m, portfolios))
<1> DEFINE f == [p \in portfolios |-> [client |-> m, portfolio |-> p]]
<1>1. IsFiniteSet({f[p] : p \in portfolios})
  <2> HIDE DEF f
  <2> QED
    BY FiniteImage, Zenon
<1>2. Scopes(m, portfolios) = {f[p] : p \in portfolios}
  BY DEF Scopes
<1> QED
  BY <1>1, <1>2

LEMMA EnqueueIs ==
  ASSUME NEW r, Begun(r), Enqueue(r)
  PROVE  Enqueueing(r)
<1>1. PICK s : s = Scopes(Op(r).client, Op(r).portfolios)
  OBVIOUS
<1>2. EnqueuesNow(r, s)
  BY <1>1 DEF Enqueue
<1>3. Asked(Op(r)) /\ Op(r).do = "enqueue"
  BY RestFollows DEF Begun, Enqueue, Next1, Op
<1>4. IsFiniteSet(Op(r).portfolios)
  BY <1>3 DEF Asked
<1>5. IsFiniteSet(s)
  BY <1>1, <1>4, ScopesFinite
<1>6. Op(r).do \in Leading
  BY <1>3 DEF Leading
<1> QED
  BY <1>2, <1>5, <1>6 DEF Enqueueing

LEMMA PortfoliosFinite ==
  ASSUME Stored, NEW P, P \subseteq DOMAIN db
  PROVE  IsFiniteSet(P \cup {<<>>})
<1>1. IsFiniteSet(P)
  BY FS_Subset DEF Stored
<1> QED
  BY <1>1, FS_AddElement, Zenon

LEMMA EnqueueForClientIs ==
  ASSUME NEW r, Begun(r), EnqueueForClient(r)
  PROVE  Enqueueing(r)
<1>1. PICK m : m = Op(r).client
  OBVIOUS
<1>2. PICK P : P = PortfoliosOf(db, m)
  OBVIOUS
<1>3. EnqueuesNow(r, Scopes(m, P \cup {<<>>}))
  BY <1>1, <1>2 DEF EnqueueForClient
<1>4. IsFiniteSet(P \cup {<<>>})
  BY <1>2, PortfoliosFinite DEF PortfoliosOf, Table, Begun
<1>5. IsFiniteSet(Scopes(m, P \cup {<<>>}))
  BY <1>4, ScopesFinite, Zenon
<1>6. Op(r).do \in Leading
  BY DEF EnqueueForClient, Next1, Op, Leading
<1> QED
  BY <1>3, <1>5, <1>6, Zenon DEF Enqueueing

LEMMA RequeueMissingIs ==
  ASSUME NEW r, Begun(r), RequeueMissing(r)
  PROVE  Enqueueing(r)
<1> DEFINE active == {m \in Table(db, "client") : db[m].status = "active"}
           own(m) == {p \in PortfoliosOf(db, m) : db[p].status = "active"}
           f == [m \in active |-> Scopes(m, own(m) \cup {<<>>})]
           T == {f[m] : m \in active}
<1>1. EnqueuesNow(r, UNION T)
  <2>1. UNION T = UNION {Scopes(m, own(m) \cup {<<>>}) : m \in active}
    OBVIOUS
  <2> QED
    BY <2>1 DEF RequeueMissing
<1>2. IsFiniteSet(active)
  <2>1. active \in SUBSET DOMAIN db
    BY DEF Table
  <2> HIDE DEF active
  <2> QED
    BY <2>1, FS_Subset, Zenon DEF Begun, Stored
<1>3. IsFiniteSet(T)
  <2> HIDE DEF active, f
  <2> QED
    BY <1>2, FiniteImage, Zenon
<1>4. \A s \in T : IsFiniteSet(s)
  <2> SUFFICES ASSUME NEW m \in active PROVE IsFiniteSet(f[m])
    OBVIOUS
  <2>1. own(m) \subseteq DOMAIN db
    BY DEF PortfoliosOf, Table
  <2>2. PICK P : P = own(m)
    OBVIOUS
  <2>3. IsFiniteSet(P \cup {<<>>})
    BY <2>1, <2>2, PortfoliosFinite DEF Begun
  <2>4. IsFiniteSet(Scopes(m, P \cup {<<>>}))
    BY <2>3, ScopesFinite, Zenon
  <2> QED
    BY <2>2, <2>4
<1>5. IsFiniteSet(UNION T)
  <2> HIDE DEF T
  <2> QED
    BY <1>3, <1>4, FS_UNION, Zenon
<1>6. Op(r).do \in Leading
  BY DEF RequeueMissing, Next1, Op, Leading
<1> HIDE DEF T
<1> QED
  BY <1>1, <1>5, <1>6, Zenon DEF Enqueueing

(* A row of the tables that a request has read gets a new status. *)
LEMMA AijobEdition ==
  ASSUME Stored, NEW r, NEW i \in Table(db, "aijob"), NEW y, NEW d, d = [db EXCEPT ![i] = y],
         \/ \E v \in Statuses.aijob : y = [db[i] EXCEPT !.status = v]
         \/ \E v : y = [db[i] EXCEPT !.counted = v]
  PROVE  Session(r, d, DraftKinds)
<1>1. i \in DOMAIN db /\ db[i].kind = "aijob" /\ Typed(db[i])
  BY DEF Table, Stored
<1>2. Session(r, db, DraftKinds)
  BY SessionBegins
<1>3. db[i].kind \in Free \cap DraftKinds
  BY <1>1 DEF DraftKinds, Free
<1>4. Patch(db[i], y)
  <2>1. CASE \E v \in Statuses.aijob : y = [db[i] EXCEPT !.status = v]
    BY <1>1, <2>1, AijobStatus, Zenon
  <2>2. CASE \E v : y = [db[i] EXCEPT !.counted = v]
    BY <1>1, <2>2, AijobCounted, Zenon
  <2> QED
    BY <2>1, <2>2
<1> QED
  BY <1>1, <1>2, <1>3, <1>4, FreeEdition, Zenon

LEMMA ErrandThenRest ==
  ASSUME NEW r, Begun(r), NEW o, Errand(r, o)
  PROVE  Follows(r, <<o>> \o Rest(r))
<1>1. Follows(r, Rest(r))
  BY RestFollows, Zenon DEF Begun
<1> QED
  BY <1>1, ErrandFollows

LEMMA ErrandAlone ==
  ASSUME NEW r, Begun(r), NEW o, Errand(r, o)
  PROVE  Follows(r, <<o>>)
<1>1. Follows(r, <<>>)
  BY RestFollows, Zenon DEF Begun
<1>2. Follows(r, <<o>> \o <<>>)
  BY <1>1, ErrandFollows, Zenon
<1>3. <<o>> \o <<>> = <<o>>
  OBVIOUS
<1> QED
  BY <1>2, <1>3

LEMMA ClaimSuggestionProceeds ==
  ASSUME NEW r, Begun(r), ClaimSuggestion(r)
  PROVE  Proceeds(r, DraftKinds)
<1>1. PICK i : i = Op(r).id
  OBVIOUS
<1>2. PICK y : y = [db[i] EXCEPT !.status = "running"]
  OBVIOUS
<1>3. PICK d : d = [db EXCEPT ![i] = y]
  OBVIOUS
<1>4. PICK o : o = [do |-> "gates", id |-> i]
  OBVIOUS
<1>5. \/ GoesOn(r, Rest(r))
      \/ i \in Table(db, "aijob") /\ Opens(r, d, <<o>> \o Rest(r), <<>>)
  <2>1. i \in Table(db, "aijob") => d = [db EXCEPT ![i].status = "running"]
    BY <1>2, <1>3 DEF Table
  <2> QED
    BY <1>1, <1>4, <2>1 DEF ClaimSuggestion
<1>6. ASSUME i \in Table(db, "aijob") PROVE Session(r, d, DraftKinds)
  <2>1. "running" \in Statuses.aijob /\ Stored
    BY ColumnsAre DEF Begun
  <2> QED
    BY <1>2, <1>3, <1>6, <2>1, AijobEdition, Zenon
<1>7. Follows(r, <<o>> \o Rest(r)) /\ Follows(r, <<>>)
  <2>1. Op(r).do \in Leading
    BY DEF ClaimSuggestion, Next1, Op, Leading, Background
  <2>2. Errand(r, o)
    BY <1>4, <2>1, ErrandsAre, Zenon
  <2> QED
    BY <2>2, ErrandThenRest, RestFollows, Zenon DEF Begun
<1>8. CASE GoesOn(r, Rest(r))
  BY <1>8, GoesOnProceeds
<1>9. CASE i \in Table(db, "aijob") /\ Opens(r, d, <<o>> \o Rest(r), <<>>)
  BY <1>6, <1>7, <1>9, OpensProceeds, Zenon
<1> QED
  BY <1>5, <1>8, <1>9

\* What a suggestion job has left to do when a commit of it fails.
LEMMA FinishingFollows ==
  ASSUME NEW r, Begun(r), Op(r).do \in Leading, NEW i, NEW status \in {"done", "failed"}
  PROVE  Follows(r, Finishing(i, status) \o Rest(r))
<1>1. PICK o : o = [do |-> "finish", id |-> i, status |-> status]
  OBVIOUS
<1>2. Errand(r, o)
  BY <1>1, ErrandsAre, Zenon
<1>3. Follows(r, <<o>> \o Rest(r))
  BY <1>2, ErrandThenRest
<1> QED
  BY <1>1, <1>3 DEF Finishing

LEMMA EvaluateGatesProceeds ==
  ASSUME NEW r, Begun(r), EvaluateGates(r)
  PROVE  Proceeds(r, DraftKinds)
<1>1. PICK i : i = Op(r).id
  OBVIOUS
<1>2. PICK x, y : x = [db[i] EXCEPT !.status = "skipped"] /\ y = [db[i] EXCEPT !.status = "failed"]
  OBVIOUS
<1>3. PICK c, d : c = [db EXCEPT ![i] = x] /\ d = [db EXCEPT ![i] = y]
  OBVIOUS
<1>4. PICK z : z = [db[i] EXCEPT !.counted = TRUE]
  OBVIOUS
<1>5. PICK e : e = [db EXCEPT ![i] = z]
  OBVIOUS
<1>6. PICK o, u : o = [do |-> "suggest", id |-> i] /\ u = Finishing(i, "failed") \o Rest(r)
  OBVIOUS
<1>7. \/ GoesOn(r, Rest(r))
      \/ i \in Table(db, "aijob") /\ Opens(r, c, Rest(r), u)
      \/ i \in Table(db, "aijob") /\ Opens(r, d, Rest(r), u)
      \/ i \in Table(db, "aijob") /\ Opens(r, e, <<o>> \o Rest(r), u)
  <2>1. i \in Table(db, "aijob") =>
          /\ c = [db EXCEPT ![i].status = "skipped"] /\ d = [db EXCEPT ![i].status = "failed"]
          /\ e = [db EXCEPT ![i].counted = TRUE]
    BY <1>2, <1>3, <1>4, <1>5 DEF Table
  <2> QED
    BY <1>1, <1>6, <2>1 DEF EvaluateGates
<1>8. ASSUME i \in Table(db, "aijob")
      PROVE  Session(r, c, DraftKinds) /\ Session(r, d, DraftKinds) /\ Session(r, e, DraftKinds)
  <2>1. {"skipped", "failed"} \subseteq Statuses.aijob /\ Stored
    BY ColumnsAre DEF Begun
  <2>2. Session(r, c, DraftKinds)
    BY <1>2, <1>3, <1>8, <2>1, AijobEdition, Zenon
  <2>3. Session(r, d, DraftKinds)
    BY <1>2, <1>3, <1>8, <2>1, AijobEdition, Zenon
  <2>4. Session(r, e, DraftKinds)
    BY <1>4, <1>5, <1>8, <2>1, AijobEdition, Zenon
  <2> QED
    BY <2>2, <2>3, <2>4
<1>9. Follows(r, <<o>> \o Rest(r)) /\ Follows(r, Rest(r)) /\ Follows(r, u)
  <2>1. Op(r).do \in Leading
    BY DEF EvaluateGates, Next1, Op, Leading, Background
  <2>2. Errand(r, o)
    BY <1>6, <2>1, ErrandsAre, Zenon
  <2>3. Follows(r, u)
    BY <1>6, <2>1, FinishingFollows
  <2> QED
    BY <2>2, <2>3, ErrandThenRest, RestFollows, Zenon DEF Begun
<1>10. CASE GoesOn(r, Rest(r))
  BY <1>10, GoesOnProceeds
<1>11. CASE i \in Table(db, "aijob") /\ Opens(r, c, Rest(r), u)
  BY <1>8, <1>9, <1>11, OpensProceeds, Zenon
<1>12. CASE i \in Table(db, "aijob") /\ Opens(r, d, Rest(r), u)
  BY <1>8, <1>9, <1>12, OpensProceeds, Zenon
<1>13. CASE i \in Table(db, "aijob") /\ Opens(r, e, <<o>> \o Rest(r), u)
  BY <1>8, <1>9, <1>13, OpensProceeds, Zenon
<1> QED
  BY <1>7, <1>10, <1>11, <1>12, <1>13

LEMMA FinishSuggestionProceeds ==
  ASSUME NEW r, Begun(r), FinishSuggestion(r)
  PROVE  Proceeds(r, DraftKinds)
<1>1. PICK i, v : i = Op(r).id /\ v = Op(r).status
  OBVIOUS
<1>2. PICK y : y = [db[i] EXCEPT !.status = v]
  OBVIOUS
<1>3. PICK d, u : d = [db EXCEPT ![i] = y] /\ u = IF v = "done" THEN Finishing(i, "failed") \o Rest(r) ELSE <<>>
  OBVIOUS
<1>4. \/ GoesOn(r, Rest(r))
      \/ i \in Table(db, "aijob") /\ Opens(r, d, Rest(r), u)
  <2>1. i \in Table(db, "aijob") => d = [db EXCEPT ![i].status = v]
    BY <1>2, <1>3 DEF Table
  <2> QED
    BY <1>1, <1>3, <2>1 DEF FinishSuggestion
<1>5. Follows(r, Rest(r)) /\ Asked(Op(r)) /\ Op(r).do = "finish" /\ Stored /\ Follows(r, <<>>)
  BY RestFollows DEF Begun, FinishSuggestion, Next1, Op
<1>6. v \in Statuses.aijob
  BY <1>1, <1>5, ColumnsAre DEF Asked
<1>7. ASSUME i \in Table(db, "aijob") PROVE Session(r, d, DraftKinds)
  BY <1>2, <1>3, <1>5, <1>6, <1>7, AijobEdition, Zenon
<1>8. Follows(r, u)
  <2>1. Op(r).do \in Leading
    BY <1>5 DEF Leading, Background
  <2> QED
    BY <1>3, <1>5, <2>1, FinishingFollows
<1>9. CASE GoesOn(r, Rest(r))
  BY <1>9, GoesOnProceeds
<1>10. CASE i \in Table(db, "aijob") /\ Opens(r, d, Rest(r), u)
  BY <1>5, <1>7, <1>8, <1>10, OpensProceeds, Zenon
<1> QED
  BY <1>4, <1>9, <1>10

(* The segments of finitely many accounts are finitely many. *)
LEMMA RegroupedFinite ==
  ASSUME NEW groups, NEW to, IsFiniteSet(DOMAIN groups)
  PROVE  IsFiniteSet(DOMAIN Regrouped(groups, to))
<1>1. DOMAIN Regrouped(groups, to) = {to[j] : j \in DOMAIN groups}
  BY DEF Regrouped
<1> QED
  BY <1>1, FiniteImage

\* build_segments makes finitely many.
LEMMA SegmentsFinite ==
  ASSUME NEW faces, IsFiniteSet(DOMAIN faces)
  PROVE  IsFiniteSet(DOMAIN BuildSegments(faces))
<1>1. PICK E : E = {i \in DOMAIN faces : Eligible(faces[i])}
  OBVIOUS
<1>2. IsFiniteSet(E)
  <2>1. E \in SUBSET DOMAIN faces
    BY <1>1
  <2> QED
    BY <2>1, FS_Subset, Zenon
<1>3. PICK g : g = GroupAccounts([i \in E |-> faces[i]])
  OBVIOUS
<1>4. IsFiniteSet(DOMAIN g)
  <2>1. PICK f : f = [i \in E |-> faces[i]]
    OBVIOUS
  <2>2. PICK h, to : h = [i \in DOMAIN f |-> {i}] /\ to = [i \in DOMAIN f |-> LabelAccount(f[i])]
    OBVIOUS
  <2>3. IsFiniteSet(DOMAIN h)
    BY <1>2, <2>1, <2>2
  <2>4. g = Regrouped(h, to)
    BY <1>3, <2>1, <2>2 DEF GroupAccounts
  <2> QED
    BY <2>3, <2>4, RegroupedFinite
<1>5. \A size : IsFiniteSet(DOMAIN MergeSmallGroups(g, size))
  <2> TAKE size
  <2> DEFINE to(h, i) == [k \in DOMAIN h |-> IF Cardinality(h[k]) < size THEN Widened(k, i) ELSE k]
             pass(h, i) == Regrouped(h, to(h, i))
  <2>1. \A h, i : IsFiniteSet(DOMAIN h) => IsFiniteSet(DOMAIN pass(h, i))
    <3> SUFFICES ASSUME NEW h, NEW i, IsFiniteSet(DOMAIN h) PROVE IsFiniteSet(DOMAIN pass(h, i))
      OBVIOUS
    <3> HIDE DEF to
    <3> QED
      BY RegroupedFinite
  <2>2. MergeSmallGroups(g, size) = pass(pass(pass(g, 4), 3), 2)
    BY DEF MergeSmallGroups
  <2> HIDE DEF pass
  <2> QED
    BY <1>4, <2>1, <2>2
<1>6. \E size : BuildSegments(faces) = MergeSmallGroups(g, size)
  BY <1>1, <1>3 DEF BuildSegments
<1> QED
  BY <1>5, <1>6

\* Only drafts of the suggestion job id are new, for its scope.
DraftedOn(id, e) ==
  /\ DOMAIN db \subseteq DOMAIN e /\ \A i \in DOMAIN db : e[i] = db[i]
  /\ \A i \in DOMAIN e \ DOMAIN db :
       e[i].kind = "strategy" /\ e[i].by = id /\ e[i].client = db[id].client /\ e[i].portfolio = db[id].portfolio

\* _save inserts a strategy for each workflow designed.
LEMMA DraftsFitTheSession ==
  ASSUME NEW r, Begun(r), NEW id, NEW flows, IsFiniteSet(DOMAIN flows),
         \A s \in DOMAIN flows : Takes("strategy", "flow", flows[s])
  PROVE  Session(r, Drafts(db, r, id, flows), DraftKinds) /\ DraftedOn(id, Drafts(db, r, id, flows))
<1>1. PICK D : D = DOMAIN flows
  OBVIOUS
<1>2. PICK k, keys : k = Cardinality(D) /\ keys = SetToSeq(D)
  OBVIOUS
<1>3. k \in Nat /\ keys \in [1 .. k -> D]
  BY <1>1, <1>2, Listed
<1>4. PICK m, p : m = db[id].client /\ p = db[id].portfolio
  OBVIOUS
<1>5. PICK rows : rows = [n \in DOMAIN keys |-> [kind |-> "strategy", client |-> m, portfolio |-> p,
                                                 ai |-> TRUE, by |-> id, flow |-> flows[keys[n]]]]
  OBVIOUS
<1>6. DOMAIN rows = 1 .. k
  BY <1>3, <1>5
<1>7. ASSUME NEW n \in 1 .. k
      PROVE  /\ Typed(rows[n]) /\ rows[n].kind \in DraftKinds
             /\ rows[n].kind = "strategy" /\ rows[n].by = id /\ rows[n].client = m /\ rows[n].portfolio = p
  <2>1. PICK flow : flow = flows[keys[n]]
    OBVIOUS
  <2>2. rows[n] = [kind |-> "strategy", client |-> m, portfolio |-> p, ai |-> TRUE, by |-> id, flow |-> flow]
    BY <1>5, <1>6, <2>1
  <2>3. Typed(rows[n])
    <3>1. keys[n] \in DOMAIN flows
      BY <1>1, <1>3
    <3>2. Takes("strategy", "flow", flow)
      BY <2>1, <3>1
    <3> QED
      BY <2>2, <3>2, TypedRows, Zenon
  <2> QED
    BY <2>2, <2>3 DEF DraftKinds
<1>8. Session(r, db, DraftKinds) /\ r \in Requests /\ Stored
  BY SessionBegins DEF Begun
<1>9. k \in Nat /\ \A n \in 1 .. k : Typed(rows[n]) /\ rows[n].kind \in DraftKinds
  BY <1>3, <1>7
<1>10. PICK e : e = InsertedAll(db, r, rows)
  OBVIOUS
<1>11. /\ Session(r, e, DraftKinds) /\ DOMAIN db \subseteq DOMAIN e /\ \A i \in DOMAIN db : e[i] = db[i]
       /\ \A i \in DOMAIN e \ DOMAIN db : \E n \in 1 .. k : e[i] = rows[n]
  BY <1>6, <1>8, <1>9, <1>10, Insertions
<1>12. DraftedOn(id, e)
  BY <1>4, <1>7, <1>11 DEF DraftedOn
<1> QED
  BY <1>1, <1>2, <1>4, <1>5, <1>10, <1>11, <1>12 DEF Drafts

(* A draft is made of the first answer that ValidateAll takes.             *)
LEMMA WorkflowsTaken ==
  ASSUME story \in Stories, NEW segments, NEW answers \in [segments -> story.answers], Suggested(answers),
         NEW s \in DOMAIN Workflows(answers)
  PROVE  Takes("strategy", "flow", Workflows(answers)[s])
<1>1. PICK flows : flows = answers[s]
  OBVIOUS
<1>2. s \in DOMAIN answers /\ flows \in story.answers /\ Accepted(flows) # {}
  BY <1>1 DEF Workflows, Suggested
<1>3. \A n \in DOMAIN flows : n \in Nat /\ Countable(flows[n])
  BY <1>2, AdministrationAssumption DEF StoryAssumption
<1>4. PICK A : A = Accepted(flows)
  OBVIOUS
<1>5. A \in SUBSET Nat /\ A # {} /\ \A n \in A : Countable(flows[n]) /\ ValidateAll(flows[n])
  BY <1>2, <1>3, <1>4 DEF Accepted
<1>6. PICK n : n = Min(A)
  OBVIOUS
<1>7. n \in A
  <2>1. A \subseteq Nat /\ A # {}
    BY <1>5
  <2>2. \E q \in A : \A y \in A : q <= y
    BY <2>1, Least
  <2> QED
    BY <1>6, <2>2 DEF Min
<1>8. Workflows(answers)[s] = flows[n]
  BY <1>1, <1>2, <1>4, <1>6 DEF Workflows
<1>9. Countable(flows[n]) /\ ValidateAll(flows[n])
  BY <1>5, <1>7
<1> QED
  BY <1>8, <1>9 DEF Takes

LEMMA SuggestProceeds ==
  ASSUME NEW r, Begun(r), Suggest(r)
  PROVE  Proceeds(r, DraftKinds)
<1>1. PICK i : i = Op(r).id
  OBVIOUS
<1>2. PICK segments : segments = DOMAIN BuildSegments(FacesIn(db, ScopeOf(db[i])))
  OBVIOUS
<1> DEFINE finish(status) == Finishing(i, status) \o Rest(r)
<1>3. IsFiniteSet(segments)
  <2>1. PICK faces : faces = FacesIn(db, ScopeOf(db[i]))
    OBVIOUS
  <2>2. DOMAIN faces \in SUBSET DOMAIN db
    BY <2>1 DEF FacesIn, Table
  <2>3. IsFiniteSet(DOMAIN faces)
    BY <2>2, FS_Subset, Zenon DEF Begun, Stored
  <2> QED
    BY <1>2, <2>1, <2>3, SegmentsFinite
<1>4. \A status \in {"done", "failed"} : Follows(r, finish(status))
  <2>1. Op(r).do \in Leading
    BY DEF Suggest, Next1, Op, Leading, Background
  <2> QED
    BY <2>1, FinishingFollows
<1>5. \/ GoesOn(r, Rest(r))
      \/ GoesOn(r, finish("failed"))
      \/ \E answers \in [segments -> story.answers], status \in {"done", "failed"} :
           Suggested(answers) /\ Opens(r, Drafts(db, r, i, Workflows(answers)), finish(status), finish("failed"))
  BY <1>1, <1>2 DEF Suggest
<1>9. story \in Stories
  BY DEF Begun
<1>6. ASSUME NEW answers \in [segments -> story.answers], NEW status \in {"done", "failed"}, Suggested(answers),
             Opens(r, Drafts(db, r, i, Workflows(answers)), finish(status), finish("failed"))
      PROVE  Proceeds(r, DraftKinds)
  <2>1. DOMAIN Workflows(answers) = segments
    BY DEF Workflows
  <2>4. \A s \in DOMAIN Workflows(answers) : Takes("strategy", "flow", Workflows(answers)[s])
    BY <1>6, <1>9, WorkflowsTaken
  <2>2. Session(r, Drafts(db, r, i, Workflows(answers)), DraftKinds)
    BY <1>3, <2>1, <2>4, DraftsFitTheSession
  <2> HIDE DEF finish
  <2>3. Follows(r, finish(status)) /\ Follows(r, finish("failed"))
    BY <1>4
  <2> QED
    BY <1>6, <2>2, <2>3, OpensProceeds, Zenon
<1>7. CASE GoesOn(r, Rest(r))
  BY <1>7, GoesOnProceeds
<1>8. CASE GoesOn(r, finish("failed"))
  <2> HIDE DEF finish
  <2>1. Follows(r, finish("failed"))
    BY <1>4
  <2> QED
    BY <1>8, <2>1, Zenon DEF Proceeds
<1> HIDE DEF finish
<1> QED
  BY <1>5, <1>6, <1>7, <1>8

LEMMA ProceedsOn ==
  ASSUME NEW r, NEW K, NEW t, Follows(r, t), GoesOn(r, t)
  PROVE  Proceeds(r, K)
  BY Zenon DEF Proceeds

(***************************************************************************)
(* Import jobs.                                                            *)
(***************************************************************************)
\* create_job, and the steps of run_import_job and process_account_file.
LEMMA UploadProceeds ==
  ASSUME NEW r, Begun(r), Upload(r)
  PROVE  Proceeds(r, JobKinds) /\ Op(r).do \in OfFiles
<1>0. Op(r).do \in OfFiles
  BY DEF Upload, Next1, Op, OfFiles, Continued
<1>1. PICK o : o = Op(r)
  OBVIOUS
<1>2. PICK row : row = [kind |-> "job", of |-> o.type, status |-> "queued", run |-> <<>>]
  OBVIOUS
<1>3. PICK errand : errand = [do |-> "claim", id |-> Fresh(db, r), type |-> o.type, file |-> o.file]
  OBVIOUS
<1>4. Opens(r, Inserted(db, r, row), <<errand>> \o Rest(r), <<>>)
  BY <1>1, <1>2, <1>3 DEF Upload
<1>5. Asked(o) /\ o.do = "upload"
  BY <1>1, RestFollows DEF Begun, Upload, Next1, Op
<1>6. Session(r, Inserted(db, r, row), JobKinds)
  <2>1. o.type \in AccountFiles \cup {"client_upload"}
    BY <1>5 DEF Asked
  <2>2. Typed(row)
    BY <1>2, <2>1, TypedRows, Zenon
  <2>3. row.kind \in JobKinds /\ Session(r, db, JobKinds) /\ r \in Requests /\ Stored
    BY <1>2, SessionBegins DEF Begun, JobKinds
  <2> QED
    BY <2>2, <2>3, Insertion
<1>7. Follows(r, <<errand>> \o Rest(r)) /\ Follows(r, <<>>)
  <2>1. /\ Len(o.file.rows) \in Nat /\ o.type \in AccountFiles \cup {"client_upload"}
        /\ o.type \in AccountFiles => Classed(o.file.rows)
    BY <1>5 DEF Asked, WithFile, HasAccounts
  <2>2. Errand(r, errand)
    BY <1>0, <1>3, <2>1, ClaimErrandIs
  <2> QED
    BY <2>2, ErrandThenRest, RestFollows, Zenon DEF Begun
<1> QED
  BY <1>0, <1>4, <1>6, <1>7, OpensProceeds, Zenon

(* A job gets a new status and perhaps the run it led to. *)
LEMMA JobEdition ==
  ASSUME Stored, NEW r, NEW i \in Table(db, "job"), NEW y, NEW d, d = [db EXCEPT ![i] = y],
         \/ \E v \in Statuses.job : y = [db[i] EXCEPT !.status = v]
         \/ \E v : y = [db[i] EXCEPT !.run = v]
         \/ \E v \in Statuses.job : \E w : y = [db[i] EXCEPT !.status = v, !.run = w]
  PROVE  Session(r, d, JobKinds)
<1>1. i \in DOMAIN db /\ db[i].kind = "job" /\ Typed(db[i])
  BY DEF Table, Stored
<1>2. Session(r, db, JobKinds)
  BY SessionBegins
<1>3. db[i].kind \in Free \cap JobKinds
  BY <1>1 DEF JobKinds, Free
<1>4. Patch(db[i], y)
  <2>1. CASE \E v \in Statuses.job : y = [db[i] EXCEPT !.status = v]
    BY <1>1, <2>1, JobStatus, Zenon
  <2>2. CASE \E v : y = [db[i] EXCEPT !.run = v]
    BY <1>1, <2>2, JobRun, Zenon
  <2>3. CASE \E v \in Statuses.job : \E w : y = [db[i] EXCEPT !.status = v, !.run = w]
    BY <1>1, <2>3, JobClosed, Zenon
  <2> QED
    BY <2>1, <2>2, <2>3
<1> QED
  BY <1>1, <1>2, <1>3, <1>4, FreeEdition, Zenon

LEMMA FailingFollows ==
  ASSUME NEW r, Begun(r), Op(r).do \in OfFiles, NEW id
  PROVE  Follows(r, Failing(id))
<1>1. PICK o : o = [do |-> "fail", id |-> id]
  OBVIOUS
<1>2. Errand(r, o)
  BY <1>1, FileErrandsAre, Zenon
<1> QED
  BY <1>1, <1>2, ErrandAlone DEF Failing

LEMMA ClosingFollows ==
  ASSUME NEW r, Op(r).do \in OfFiles, NEW o, NEW run, NEW t, Follows(r, t)
  PROVE  Follows(r, Closing(o, run) \o t)
<1>1. PICK q : q = [do |-> "close", id |-> o.id, run |-> run]
  OBVIOUS
<1>2. Errand(r, q)
  BY <1>1, FileErrandsAre, Zenon
<1> QED
  BY <1>1, <1>2, ErrandFollows DEF Closing

LEMMA ClaimProceeds ==
  ASSUME NEW r, Begun(r), Claim(r)
  PROVE  Proceeds(r, JobKinds) /\ Op(r).do \in OfFiles
<1>0. Op(r).do \in OfFiles
  BY DEF Claim, Next1, Op, OfFiles, Continued
<1>1. PICK o, i : o = Op(r) /\ i = o.id
  OBVIOUS
<1>2. PICK y : y = [db[i] EXCEPT !.status = "running"]
  OBVIOUS
<1>3. PICK d : d = [db EXCEPT ![i] = y]
  OBVIOUS
<1>4. PICK do : do = Work(o.type)
  OBVIOUS
<1>5. PICK errand : errand = [do |-> do, id |-> i, file |-> o.file]
  OBVIOUS
<1>6. \/ GoesOn(r, Rest(r))
      \/ i \in Table(db, "job") /\ Opens(r, d, <<errand>> \o Rest(r), Failing(i))
  <2>1. i \in Table(db, "job") => d = [db EXCEPT ![i].status = "running"]
    BY <1>2, <1>3 DEF Table
  <2> QED
    BY <1>1, <1>4, <1>5, <2>1 DEF Claim, Open
<1>7. ASSUME i \in Table(db, "job") PROVE Session(r, d, JobKinds)
  <2>1. "running" \in Statuses.job /\ Stored
    BY ColumnsAre DEF Begun
  <2> QED
    BY <1>2, <1>3, <1>7, <2>1, JobEdition, Zenon
<1>8. Follows(r, <<errand>> \o Rest(r))
  <2>4. Asked(o) /\ o.do = "claim"
    BY <1>1, RestFollows DEF Begun, Claim, Next1, Op
  <2>2. o.type \in AccountFiles \cup {"client_upload"}
    BY <2>4 DEF Asked
  <2>3. do \in {"preview", "begin", "client file"} /\ (do # "client file" => o.type \in AccountFiles)
    BY <1>4, <2>2 DEF Work, AccountFiles
  <2>5. Len(o.file.rows) \in Nat /\ (do # "client file" => Classed(o.file.rows))
    BY <2>3, <2>4 DEF Asked, WithFile, HasAccounts
  <2>6. Errand(r, errand)
    BY <1>0, <1>5, <2>3, <2>5, WorkErrandIs
  <2> QED
    BY <2>6, ErrandThenRest
<1>9. CASE GoesOn(r, Rest(r))
  BY <1>0, <1>9, GoesOnProceeds
<1>10. CASE i \in Table(db, "job") /\ Opens(r, d, <<errand>> \o Rest(r), Failing(i))
  BY <1>0, <1>7, <1>8, <1>10, FailingFollows, OpensProceeds, Zenon
<1> QED
  BY <1>0, <1>6, <1>9, <1>10

LEMMA PreviewFileProceeds ==
  ASSUME NEW r, Begun(r), PreviewFile(r)
  PROVE  Proceeds(r, JobKinds) /\ Op(r).do \in OfFiles
<1>0. Op(r).do \in OfFiles
  BY DEF PreviewFile, Next1, Op, OfFiles, Continued
<1>1. PICK t : t = Closing(Op(r), <<>>) \o Rest(r)
  OBVIOUS
<1>2. Follows(r, t)
  BY <1>0, <1>1, RestFollows, ClosingFollows DEF Begun
<1>3. GoesOn(r, t)
  BY <1>1 DEF PreviewFile
<1> QED
  BY <1>0, <1>2, <1>3, ProceedsOn

LEMMA BeginProceeds ==
  ASSUME NEW r, Begun(r), Begin(r)
  PROVE  Proceeds(r, JobKinds) /\ Op(r).do \in OfFiles
<1>0. Op(r).do \in OfFiles
  BY DEF Begin, Next1, Op, OfFiles, Continued
<1>1. PICK o, run : o = Op(r) /\ run = Fresh(db, r)
  OBVIOUS
<1>2. PICK x : x = [kind |-> "run", of |-> "account", n |-> Nothing, status |-> "processing"]
  OBVIOUS
<1>3. PICK y : y = [kind |-> "run", of |-> "account", n |-> Nothing, status |-> "failed"]
  OBVIOUS
<1>4. PICK errand : errand = [do |-> "link", id |-> o.id, run |-> run, file |-> o.file]
  OBVIOUS
<1>5. \/ Opens(r, Inserted(db, r, x), <<errand>> \o Rest(r), Failing(o.id))
      \/ Opens(r, Inserted(db, r, y), Closing(o, run) \o Rest(r), Failing(o.id))
  BY <1>1, <1>2, <1>3, <1>4 DEF Begin
<1>6. Session(r, Inserted(db, r, x), JobKinds) /\ Session(r, Inserted(db, r, y), JobKinds)
  <2>1. "processing" \in Statuses.run /\ "failed" \in Statuses.run
    BY ColumnsAre DEF Final
  <2>2. Typed(x)
    BY <1>2, <2>1, TypedRows, Zenon
  <2>3. Typed(y)
    BY <1>3, <2>1, TypedRows, Zenon
  <2>4. x.kind \in JobKinds /\ y.kind \in JobKinds /\ Session(r, db, JobKinds) /\ r \in Requests /\ Stored
    BY <1>2, <1>3, SessionBegins DEF Begun, JobKinds
  <2> QED
    BY <2>2, <2>3, <2>4, Insertion
<1>7. Follows(r, <<errand>> \o Rest(r)) /\ Follows(r, Closing(o, run) \o Rest(r)) /\ Follows(r, Failing(o.id))
  <2>1. Asked(o) /\ o.do = "begin"
    BY <1>1, RestFollows DEF Begun, Begin, Next1, Op
  <2>2. Len(o.file.rows) \in Nat /\ Classed(o.file.rows)
    BY <2>1 DEF Asked, WithFile, HasAccounts
  <2>3. Errand(r, errand)
    BY <1>0, <1>4, <2>2, RunErrandIs
  <2>4. Follows(r, <<errand>> \o Rest(r))
    BY <2>3, ErrandThenRest
  <2>5. Follows(r, Rest(r))
    BY RestFollows DEF Begun
  <2> QED
    BY <1>0, <2>4, <2>5, ClosingFollows, FailingFollows
<1>8. CASE Opens(r, Inserted(db, r, x), <<errand>> \o Rest(r), Failing(o.id))
  BY <1>0, <1>6, <1>7, <1>8, OpensProceeds, Zenon
<1>9. CASE Opens(r, Inserted(db, r, y), Closing(o, run) \o Rest(r), Failing(o.id))
  BY <1>0, <1>6, <1>7, <1>9, OpensProceeds, Zenon
<1> QED
  BY <1>0, <1>5, <1>8, <1>9

LEMMA LinkProceeds ==
  ASSUME NEW r, Begun(r), Link(r)
  PROVE  Proceeds(r, JobKinds) /\ Op(r).do \in OfFiles
<1>0. Op(r).do \in OfFiles
  BY DEF Link, Next1, Op, OfFiles, Continued
<1>1. PICK o, i, run : o = Op(r) /\ i = o.id /\ run = o.run
  OBVIOUS
<1>2. PICK y : y = [db[i] EXCEPT !.run = run]
  OBVIOUS
<1>3. PICK d : d = [db EXCEPT ![i] = y]
  OBVIOUS
<1>4. PICK errand : errand = [do |-> "import", id |-> i, run |-> run, file |-> o.file]
  OBVIOUS
<1>5. PICK t : t = <<errand>> \o Rest(r)
  OBVIOUS
<1>6. \/ GoesOn(r, t)
      \/ i \in Table(db, "job") /\ Opens(r, d, t, Failing(i))
  <2>1. i \in Table(db, "job") => d = [db EXCEPT ![i].run = run]
    BY <1>2, <1>3 DEF Table
  <2> QED
    BY <1>1, <1>4, <1>5, <2>1 DEF Link
<1>7. ASSUME i \in Table(db, "job") PROVE Session(r, d, JobKinds)
  <2>1. Stored
    BY DEF Begun
  <2> QED
    BY <1>2, <1>3, <1>7, <2>1, JobEdition, Zenon
<1>8. Follows(r, t)
  <2>1. Asked(o) /\ o.do = "link"
    BY <1>1, RestFollows DEF Begun, Link, Next1, Op
  <2>2. Len(o.file.rows) \in Nat /\ Classed(o.file.rows)
    BY <2>1 DEF Asked, WithFile, HasAccounts
  <2>3. Errand(r, errand)
    BY <1>0, <1>4, <2>2, RunErrandIs
  <2> QED
    BY <1>5, <2>3, ErrandThenRest
<1>9. CASE GoesOn(r, t)
  BY <1>0, <1>8, <1>9, ProceedsOn
<1>10. CASE i \in Table(db, "job") /\ Opens(r, d, t, Failing(i))
  BY <1>0, <1>7, <1>8, <1>10, FailingFollows, OpensProceeds, Zenon
<1> QED
  BY <1>0, <1>6, <1>9, <1>10

LEMMA CloseProceeds ==
  ASSUME NEW r, Begun(r), Close(r)
  PROVE  Proceeds(r, JobKinds) /\ Op(r).do \in OfFiles
<1>0. Op(r).do \in OfFiles
  BY DEF Close, Next1, Op, OfFiles, Continued
<1>1. PICK o, i : o = Op(r) /\ i = o.id
  OBVIOUS
<1>2. PICK w : w = IF o.run = <<>> THEN db[i].run ELSE o.run
  OBVIOUS
<1>3. PICK y : y = [db[i] EXCEPT !.status = "completed", !.run = w]
  OBVIOUS
<1>4. PICK d : d = [db EXCEPT ![i] = y]
  OBVIOUS
<1>5. \/ GoesOn(r, Rest(r))
      \/ i \in Table(db, "job") /\ Opens(r, d, Rest(r), Failing(i))
  <2>1. i \in Table(db, "job") =>
          d = [db EXCEPT ![i].status = "completed", ![i].run = IF o.run = <<>> THEN @ ELSE o.run]
    BY <1>2, <1>3, <1>4 DEF Table
  <2> QED
    BY <1>1, <2>1 DEF Close
<1>6. ASSUME i \in Table(db, "job") PROVE Session(r, d, JobKinds)
  <2>1. "completed" \in Statuses.job /\ Stored
    BY ColumnsAre DEF Begun
  <2> QED
    BY <1>3, <1>4, <1>6, <2>1, JobEdition, Zenon
<1>7. Follows(r, Rest(r)) /\ Follows(r, Failing(i))
  BY <1>0, RestFollows, FailingFollows, Zenon DEF Begun
<1>8. CASE GoesOn(r, Rest(r))
  BY <1>0, <1>8, GoesOnProceeds
<1>9. CASE i \in Table(db, "job") /\ Opens(r, d, Rest(r), Failing(i))
  BY <1>0, <1>6, <1>7, <1>9, OpensProceeds, Zenon
<1> QED
  BY <1>0, <1>5, <1>8, <1>9

LEMMA FailProceeds ==
  ASSUME NEW r, Begun(r), Fail(r)
  PROVE  Proceeds(r, JobKinds) /\ Op(r).do \in OfFiles
<1>0. Op(r).do \in OfFiles
  BY DEF Fail, Next1, Op, OfFiles, Continued
<1>1. PICK i : i = Op(r).id
  OBVIOUS
<1>2. PICK y : y = [db[i] EXCEPT !.status = "failed"]
  OBVIOUS
<1>3. PICK d : d = [db EXCEPT ![i] = y]
  OBVIOUS
<1>4. PICK accepted : (accepted => i \in Table(db, "job")) /\ Tries(r, accepted, d)
  <2>1. i \in Table(db, "job") => d = [db EXCEPT ![i].status = "failed"]
    BY <1>2, <1>3 DEF Table
  <2>2. Open(i) => i \in Table(db, "job")
    BY DEF Open
  <2> QED
    BY <1>1, <2>1, <2>2 DEF Fail, Tries
<1>5. ASSUME accepted PROVE Session(r, d, JobKinds)
  <2>1. "failed" \in Statuses.job /\ Stored
    BY ColumnsAre DEF Begun
  <2> QED
    BY <1>2, <1>3, <1>4, <1>5, <2>1, JobEdition, Zenon
<1> QED
  BY <1>0, <1>4, <1>5, TriesProceeds, Zenon

LEMMA EngageProceeds ==
  ASSUME NEW r, Begun(r), Engage(r)
  PROVE  Proceeds(r, {"work"})
<1>1. PICK i, row : i = Op(r).id /\ row = [kind |-> "work", account |-> i]
  OBVIOUS
<1>2. Tries(r, i \in Table(db, "account"), Inserted(db, r, row))
  BY <1>1 DEF Engage
<1>3. Session(r, Inserted(db, r, row), {"work"})
  <2>1. Typed(row)
    BY <1>1, TypedRows, Zenon
  <2>2. row.kind \in {"work"} /\ Session(r, db, {"work"}) /\ r \in Requests /\ Stored
    BY <1>1, SessionBegins DEF Begun
  <2> QED
    BY <2>1, <2>2, Insertion
<1> QED
  BY <1>2, <1>3, TriesProceeds, Zenon

(***************************************************************************)
(* The rows of a file, one after the other.                                *)
(***************************************************************************)
\* The rows of a client file that have been read.
ReadSoFar(r, a) == "d" \in DOMAIN a /\ Session(r, a.d, NameKinds) /\ Lawful(a.d)

\* What a row adds to the counts is no row of the tables.
LEMMA CountsReads ==
  ASSUME NEW r, NEW a, NEW what
  PROVE  /\ Counts(a, what).d = a.d /\ DOMAIN Counts(a, what) = DOMAIN a
         /\ Counts(a, what).touched = a.touched
  BY DEF Counts

LEMMA MasterRowReads ==
  ASSUME NEW r \in Requests, Stored, NEW a, ReadSoFar(r, a), NEW row
  PROVE  ReadSoFar(r, MasterRow(a, r, row))
<1>1. PICK taken : taken = [a EXCEPT !.numbers = @ \cup {row.number}, !.codes = @ \cup {row.code}]
  OBVIOUS
<1>2. taken.d = a.d /\ DOMAIN taken = DOMAIN a
  BY <1>1
<1>3. PICK saved : saved = ClientSaved(a.d, r, row.number, row.code, row.name)
  OBVIOUS
<1>4. PICK e : e = [taken EXCEPT !.d = saved]
  OBVIOUS
<1>5. e.d = saved /\ DOMAIN e = DOMAIN a
  BY <1>2, <1>4 DEF ReadSoFar
<1>6. \/ MasterRow(a, r, row) = a
      \/ \E what : MasterRow(a, r, row) = Counts(a, what)
      \/ \E what : MasterRow(a, r, row) = Counts(taken, what)
      \/ ~ClientRefused(a.d, row.number, row.code, row.name) /\ \E what : MasterRow(a, r, row) = Counts(e, what)
  BY <1>1, <1>3, <1>4 DEF MasterRow
<1>7. ASSUME ~ClientRefused(a.d, row.number, row.code, row.name) PROVE Session(r, saved, NameKinds) /\ Lawful(saved)
  <2>1. row.code # "" /\ row.name # ""
    BY <1>7 DEF ClientRefused
  <2>2. "client" \in NameKinds /\ Session(r, a.d, NameKinds)
    BY DEF NameKinds, ReadSoFar
  <2>3. Session(r, saved, NameKinds)
    BY <1>3, <2>1, <2>2, ClientSavedFits
  <2>4. Lawful(saved)
    BY <1>3, <1>7, <2>2, ClientSavedNumbered DEF Lawful, ReadSoFar
  <2> QED
    BY <2>3, <2>4
<1> QED
  BY <1>2, <1>5, <1>6, <1>7, CountsReads DEF ReadSoFar

LEMMA SubRowReads ==
  ASSUME NEW r \in Requests, Stored, NEW a, ReadSoFar(r, a), NEW row
  PROVE  ReadSoFar(r, SubRow(a, r, row))
<1>1. PICK m : m = First(ParentOf(a.d, row))
  OBVIOUS
<1>2. PICK taken : taken = [a EXCEPT !.numbers = @ \cup ({row.number} \ {""}), !.subs = @ \cup {<<row.parent, row.code>>}]
  OBVIOUS
<1>3. taken.d = a.d /\ DOMAIN taken = DOMAIN a
  BY <1>2
<1>4. PICK saved : saved = PortfolioSaved(a.d, r, m, row.number, row.code, row.name, "onboarding")
  OBVIOUS
<1>5. PICK e : e = [taken EXCEPT !.d = saved]
  OBVIOUS
<1>6. e.d = saved /\ DOMAIN e = DOMAIN a
  BY <1>3, <1>5 DEF ReadSoFar
<1>7. \/ SubRow(a, r, row) = a
      \/ \E what : SubRow(a, r, row) = Counts(a, what)
      \/ \E what : SubRow(a, r, row) = Counts(taken, what)
      \/ ~PortfolioRefused(a.d, m, row.number, row.code, row.name) /\ \E what : SubRow(a, r, row) = Counts(e, what)
  BY <1>1, <1>2, <1>4, <1>5 DEF SubRow
<1>8. ASSUME ~PortfolioRefused(a.d, m, row.number, row.code, row.name) PROVE Session(r, saved, NameKinds) /\ Lawful(saved)
  <2>1. row.code # "" /\ row.name # ""
    BY <1>8 DEF PortfolioRefused
  <2>2. "portfolio" \in NameKinds /\ Session(r, a.d, NameKinds) /\ "onboarding" \in {""} \cup Statuses.portfolio
    BY ColumnsAre DEF NameKinds, ReadSoFar
  <2>3. Session(r, saved, NameKinds)
    BY <1>4, <2>1, <2>2, PortfolioSavedFits
  <2>4. Lawful(saved)
    BY <1>4, <1>8, <2>2, PortfolioSavedNumbered DEF Lawful, ReadSoFar
  <2> QED
    BY <2>3, <2>4
<1> QED
  BY <1>3, <1>6, <1>7, <1>8, CountsReads DEF ReadSoFar

LEMMA SimpleRowReads ==
  ASSUME NEW r \in Requests, Stored, NEW a, ReadSoFar(r, a), NEW row
  PROVE  ReadSoFar(r, SimpleRow(a, r, row))
<1>1. PICK taken : taken = [a EXCEPT !.codes = @ \cup {row.code}]
  OBVIOUS
<1>2. taken.d = a.d /\ DOMAIN taken = DOMAIN a
  BY <1>1
<1>3. PICK saved : saved = ClientSaved(a.d, r, "", row.code, row.name)
  OBVIOUS
<1>4. PICK e : e = [taken EXCEPT !.d = saved]
  OBVIOUS
<1>5. e.d = saved /\ DOMAIN e = DOMAIN a
  BY <1>2, <1>4 DEF ReadSoFar
<1>6. \/ \E what : SimpleRow(a, r, row) = Counts(a, what)
      \/ \E what : SimpleRow(a, r, row) = Counts(taken, what)
      \/ ~ClientRefused(a.d, "", row.code, row.name) /\ \E what : SimpleRow(a, r, row) = Counts(e, what)
  BY <1>1, <1>3, <1>4 DEF SimpleRow
<1>7. ASSUME ~ClientRefused(a.d, "", row.code, row.name) PROVE Session(r, saved, NameKinds) /\ Lawful(saved)
  <2>1. row.code # "" /\ row.name # ""
    BY <1>7 DEF ClientRefused
  <2>2. "client" \in NameKinds /\ Session(r, a.d, NameKinds)
    BY DEF NameKinds, ReadSoFar
  <2>3. Session(r, saved, NameKinds)
    BY <1>3, <2>1, <2>2, ClientSavedFits
  <2>4. Lawful(saved)
    BY <1>3, <1>7, <2>2, ClientSavedNumbered DEF Lawful, ReadSoFar
  <2> QED
    BY <2>3, <2>4
<1> QED
  BY <1>2, <1>5, <1>6, <1>7, CountsReads DEF ReadSoFar

LEMMA ClientRowReads ==
  ASSUME NEW r \in Requests, Stored, NEW a, ReadSoFar(r, a), NEW row, NEW pass
  PROVE  ReadSoFar(r, ClientRow(a, r, pass, row))
<1>1. \/ ClientRow(a, r, pass, row) = MasterRow(a, r, row)
      \/ ClientRow(a, r, pass, row) = SubRow(a, r, row)
      \/ ClientRow(a, r, pass, row) = SimpleRow(a, r, row)
  BY DEF ClientRow
<1> QED
  BY <1>1, MasterRowReads, SubRowReads, SimpleRowReads

\* The rows of a file are read in turn, by induction over them.
LEMMA PassedReads ==
  ASSUME NEW r \in Requests, Stored, NEW a, ReadSoFar(r, a), NEW rows, Len(rows) \in Nat, NEW pass
  PROVE  ReadSoFar(r, Passed(a, r, pass, rows))
<1> DEFINE k == Len(rows)
           Obeys(h, m) == h = [n \in 0 .. m |-> IF n = 0 THEN a ELSE ClientRow(h[n - 1], r, pass, rows[n])]
           f == CHOOSE h : Obeys(h, k)
<1>1. Passed(a, r, pass, rows) = f[k]
  BY DEF Passed
<1>2. \E h : Obeys(h, k)
  <2> DEFINE S == {m \in Nat : \E h : Obeys(h, m)}
  <2>1. 0 \in S
    <3>1. PICK h : h = [n \in 0 .. 0 |-> a]
      OBVIOUS
    <3>2. Obeys(h, 0)
      BY <3>1
    <3> QED
      BY <3>2
  <2>2. ASSUME NEW m \in Nat, m \in S PROVE m + 1 \in S
    <3>1. PICK h : Obeys(h, m)
      BY <2>2
    <3>2. PICK g : g = [n \in 0 .. m + 1 |-> IF n \in 0 .. m THEN h[n] ELSE ClientRow(h[m], r, pass, rows[n])]
      OBVIOUS
    <3>3. ASSUME NEW n \in 0 .. m + 1 PROVE g[n] = IF n = 0 THEN a ELSE ClientRow(g[n - 1], r, pass, rows[n])
      <4>1. CASE n = 0
        BY <3>1, <3>2, <4>1
      <4>2. CASE n = m + 1
        BY <3>1, <3>2, <4>2
      <4>3. CASE n # 0 /\ n \in 0 .. m
        <5>1. n - 1 \in 0 .. m /\ g[n - 1] = h[n - 1] /\ g[n] = h[n]
          BY <3>2, <4>3
        <5> QED
          BY <3>1, <4>3, <5>1
      <4> QED
        BY <4>1, <4>2, <4>3
    <3>4. Obeys(g, m + 1)
      BY <3>2, <3>3
    <3> QED
      BY <3>4
  <2> HIDE DEF S
  <2>3. Nat \subseteq S
    BY <2>1, <2>2, SetInduction
  <2> QED
    BY <2>3 DEF S
<1>3. Obeys(f, k)
  BY <1>2
<1> HIDE DEF f
<1> DEFINE Q == {n \in Nat : n \in 0 .. k => ReadSoFar(r, f[n])}
<1>4. 0 \in Q
  BY <1>3
<1>5. \A n \in Nat : n \in Q => n + 1 \in Q
  <2> TAKE n \in Nat
  <2> HAVE n \in Q
  <2>1. CASE n + 1 \in 0 .. k
    <3>1. f[n + 1] = ClientRow(f[n], r, pass, rows[n + 1]) /\ ReadSoFar(r, f[n])
      BY <1>3, <2>1
    <3>2. ReadSoFar(r, f[n + 1])
      BY <3>1, ClientRowReads
    <3> QED
      BY <3>2
  <2> QED
    BY <2>1
<1> HIDE DEF Q
<1>6. Nat \subseteq Q
  BY <1>4, <1>5, SetInduction
<1> QED
  BY <1>1, <1>6 DEF Q

LEMMA ClientFileTakenFits ==
  ASSUME NEW r, Begun(r), NEW file, Len(file.rows) \in Nat, NEW d, d = ClientFileTaken(db, r, file)
  PROVE  /\ Session(r, d, NameKinds \cup {"run"}) /\ Lawful(d) /\ Table(d, "run") \ Table(db, "run") # {}
         /\ \A i \in Table(db, "run") : i \in DOMAIN d /\ d[i] = db[i]
         /\ \A i \in Table(d, "run") \ Table(db, "run") : d[i].status \in Final
<1>1. r \in Requests /\ Stored /\ Session(r, db, NameKinds)
  BY SessionBegins DEF Begun
<1>2. PICK a : a = NoneRead(db)
  OBVIOUS
<1>3. ReadSoFar(r, a)
  BY <1>1, <1>2 DEF NoneRead, ReadSoFar, Lawful
<1>4. PICK acc : acc = ClientFileRead(db, r, file)
  OBVIOUS
<1>5. ReadSoFar(r, acc)
  <2>1. PICK b : b = Passed(a, r, "masters", file.rows)
    OBVIOUS
  <2>2. ReadSoFar(r, b)
    BY <1>1, <1>3, <2>1, PassedReads
  <2>3. ReadSoFar(r, Passed(b, r, "subs", file.rows)) /\ ReadSoFar(r, Passed(a, r, "simple", file.rows))
    BY <1>1, <1>3, <2>2, PassedReads
  <2>4. acc = Passed(b, r, "subs", file.rows) \/ acc = Passed(a, r, "simple", file.rows)
    BY <1>2, <1>4, <2>1 DEF ClientFileRead
  <2> QED
    BY <2>3, <2>4
<1>6. PICK row : row = Imported("client", acc.n)
  OBVIOUS
<1>7. Typed(row) /\ row.kind = "run" /\ row.status \in Final
  <2>1. PICK status : status = row.status
    OBVIOUS
  <2>2. /\ status \in Statuses.run /\ status \in Final
        /\ row = [kind |-> "run", of |-> "client", n |-> acc.n, status |-> status]
    BY <1>6, <2>1, ColumnsAre DEF Imported, Final
  <2>3. Typed(row)
    BY <2>2, TypedRows, Zenon
  <2> QED
    BY <2>1, <2>2, <2>3
<1>8. PICK K : K = NameKinds \cup {"run"}
  OBVIOUS
<1>9. PICK b : b = acc.d
  OBVIOUS
<1>10. Session(r, b, K) /\ row.kind \in K
  BY <1>5, <1>7, <1>8, <1>9, SessionWidens DEF ReadSoFar
<1>11. d = Inserted(b, r, row)
  BY <1>4, <1>6, <1>9 DEF ClientFileTaken
<1>12. Session(r, d, K)
  <2>1. r \in Requests /\ Stored /\ Typed(row)
    BY <1>1, <1>7
  <2>2. Session(r, Inserted(b, r, row), K)
    BY <1>10, <2>1, Insertion
  <2> QED
    BY <1>11, <2>2
<1>13. Fresh(b, r) \notin DOMAIN b \cup DOMAIN db
  BY <1>1, <1>10, FreshIs
<1>14. Fresh(b, r) \in DOMAIN d /\ d[Fresh(b, r)] = row
  BY <1>11, <1>13 DEF Inserted, Over
<1>15. \A i \in Table(db, "run") : i \in DOMAIN b /\ b[i] = db[i]
  BY <1>5, <1>9 DEF ReadSoFar, Session, NameKinds, Kept, Table
<1>16. \A i \in DOMAIN b : i \in DOMAIN d /\ d[i] = b[i]
  BY <1>11, <1>13 DEF Inserted, Over
<1>17. Table(d, "run") \ Table(db, "run") # {}
  BY <1>7, <1>13, <1>14 DEF Table
<1>18. Lawful(d)
  <2>1. row.kind \notin NameKinds
    BY <1>7 DEF NameKinds
  <2> QED
    BY <1>1, <1>5, <1>9, <1>10, <1>11, <2>1, NumberInserted DEF Lawful, ReadSoFar
<1>19. \A i \in Table(d, "run") \ Table(db, "run") : d[i].status \in Final
  <2> SUFFICES ASSUME NEW i \in Table(d, "run") \ Table(db, "run") PROVE d[i].status \in Final
    OBVIOUS
  <2>1. i \in DOMAIN b \cup {Fresh(b, r)} /\ d[i].kind = "run"
    BY <1>11, <1>13 DEF Inserted, Over, Table
  <2>2. CASE i \in DOMAIN b
    <3>1. b[i].kind = "run"
      BY <1>16, <2>1, <2>2
    <3>2. i \in DOMAIN db
      BY <1>5, <1>9, <2>2, <3>1 DEF ReadSoFar, Session, New, NameKinds
    <3>3. db[i].kind = "run"
      BY <1>5, <1>9, <2>2, <3>1, <3>2 DEF ReadSoFar, Session, Kept
    <3> QED
      BY <3>2, <3>3 DEF Table
  <2> QED
    BY <1>7, <1>14, <2>1, <2>2
<1> QED
  BY <1>8, <1>12, <1>15, <1>16, <1>17, <1>18, <1>19

LEMMA ImportClientsProceeds ==
  ASSUME NEW r, Begun(r), ImportClients(r)
  PROVE  ProceedsLawfully(r, NameKinds \cup {"run"}) /\ Op(r).do \in OfFiles
<1>0. Op(r).do \in OfFiles
  BY DEF ImportClients, Next1, Op, OfFiles, Continued
<1>1. PICK o, d : o = Op(r) /\ d = ClientFileTaken(db, r, o.file)
  OBVIOUS
<1>2. PICK run : run = First(Table(d, "run") \ Table(db, "run"))
  OBVIOUS
<1>3. \/ Opens(r, d, Closing(o, run) \o Rest(r), Failing(o.id))
      \/ GoesOn(r, Closing(o, <<>>) \o Rest(r))
  BY <1>1, <1>2 DEF ImportClients
<1>k. PICK K : K = NameKinds \cup {"run"}
  OBVIOUS
<1>4. Session(r, d, K) /\ Lawful(d)
  <2>1. Asked(o) /\ o.do = "client file"
    BY <1>1, RestFollows DEF Begun, ImportClients, Next1, Op
  <2>2. Len(o.file.rows) \in Nat
    BY <2>1 DEF Asked, WithFile
  <2> QED
    BY <1>k, <1>1, <2>2, ClientFileTakenFits
<1>5. /\ Follows(r, Closing(o, run) \o Rest(r)) /\ Follows(r, Closing(o, <<>>) \o Rest(r))
      /\ Follows(r, Failing(o.id))
  <2>1. Follows(r, Rest(r))
    BY RestFollows DEF Begun
  <2> QED
    BY <1>0, <2>1, ClosingFollows, FailingFollows
<1>6. ASSUME Opens(r, d, Closing(o, run) \o Rest(r), Failing(o.id))
      PROVE  ProceedsLawfully(r, K)
  BY <1>4, <1>5, <1>6, OpensLawfully, Zenon
<1>7. ASSUME GoesOn(r, Closing(o, <<>>) \o Rest(r))
      PROVE  ProceedsLawfully(r, K)
  BY <1>5, <1>7, Zenon DEF ProceedsLawfully
<1> QED
  BY <1>k, <1>0, <1>3, <1>6, <1>7

\* What the rows of a file leave of the table: nothing is deleted, and an account that is not as it was
\* carries the run.
TakenKinds == {"account", "review"}
Stamped(d, run) ==
  /\ DOMAIN db \subseteq DOMAIN d
  /\ \A i \in New(d) : d[i].kind = "account" => d[i].by = run
  /\ \A i \in DOMAIN db : d[i] = db[i] \/ (d[i].kind = "account" => d[i].by = run)
\* The rows of an account file that have been read.
TakenSoFar(r, run, a) ==
  /\ {"d", "touched"} \subseteq DOMAIN a /\ IsFiniteSet(a.touched)
  /\ Session(r, a.d, TakenKinds) /\ Stamped(a.d, run)

LEMMA StampedInsertion ==
  ASSUME Stored, NEW r \in Requests, NEW d, NEW K, Session(r, d, K), NEW run, Stamped(d, run),
         NEW row, row.kind = "account" => row.by = run
  PROVE  Stamped(Inserted(d, r, row), run)
<1>1. PICK u, e : u = Fresh(d, r) /\ e = Inserted(d, r, row)
  OBVIOUS
<1>2. u \notin DOMAIN d \cup DOMAIN db
  BY <1>1, FreshIs
<1>3. DOMAIN e = DOMAIN d \cup {u} /\ e[u] = row /\ \A i \in DOMAIN d : e[i] = d[i]
  BY <1>1, <1>2 DEF Inserted, Over
<1>4. Stamped(e, run)
  BY <1>2, <1>3 DEF Stamped, New
<1> QED
  BY <1>1, <1>4

LEMMA ReviewedFits ==
  ASSUME Stored, NEW r \in Requests, NEW d, Session(r, d, TakenKinds), NEW run, Stamped(d, run), NEW i
  PROVE  Session(r, Reviewed(d, r, i), TakenKinds) /\ Stamped(Reviewed(d, r, i), run)
<1>1. PICK row : row = [kind |-> "review", account |-> i]
  OBVIOUS
<1>2. Typed(row) /\ row.kind \in TakenKinds /\ row.kind # "account"
  <2>1. Typed(row)
    BY <1>1, TypedRows, Zenon
  <2> QED
    BY <1>1, <2>1 DEF TakenKinds
<1>3. Session(r, Inserted(d, r, row), TakenKinds)
  BY <1>2, Insertion
<1>4. Stamped(Inserted(d, r, row), run)
  BY <1>2, StampedInsertion
<1> QED
  BY <1>1, <1>3, <1>4 DEF Reviewed

LEMMA UpsertedFits ==
  ASSUME Stored, NEW r \in Requests, NEW d, Session(r, d, TakenKinds), NEW run, Stamped(d, run),
         NEW home, NEW row, Takes("account", "face", row.face), NEW u, u = Upserted(d, r, run, home, row)
  PROVE  Session(r, u, TakenKinds) /\ Stamped(u, run)
<1>1. PICK found : found = Existing(d, home, row.ref)
  OBVIOUS
<1>2. PICK i : i = First(found)
  OBVIOUS
<1>3. PICK x : x = [kind |-> "account", client |-> home.client, portfolio |-> home.portfolio,
                    ref |-> row.ref, face |-> row.face, by |-> run]
  OBVIOUS
<1>4. Typed(x) /\ x.kind = "account" /\ x.by = run
  <2>1. Typed(x)
    BY <1>3, TypedRows, Zenon
  <2> QED
    BY <1>3, <2>1
<1>5. CASE found = {}
  <2>1. PICK e : e = Inserted(d, r, x)
    OBVIOUS
  <2>2. x.kind \in TakenKinds
    BY <1>4 DEF TakenKinds
  <2>3. Session(r, e, TakenKinds)
    BY <1>4, <2>1, <2>2, Insertion
  <2>4. Stamped(e, run)
    BY <1>4, <2>1, StampedInsertion
  <2>5. PICK v : v = Reviewed(e, r, Fresh(d, r))
    OBVIOUS
  <2>6. Session(r, v, TakenKinds) /\ Stamped(v, run)
    BY <2>3, <2>4, <2>5, ReviewedFits
  <2> QED
    BY <1>1, <1>2, <1>3, <1>5, <2>1, <2>5, <2>6 DEF Upserted
<1>6. CASE found # {}
  <2>1. i \in DOMAIN d /\ d[i].kind = "account"
    BY <1>1, <1>2, <1>6, FirstOf DEF Existing, Table
  <2>2. PICK e : e = [d EXCEPT ![i] = x]
    OBVIOUS
  <2>3. Kept(d[i], x) /\ d[i].kind \in TakenKinds
    BY <1>4, <2>1 DEF Kept, TakenKinds
  <2>4. Session(r, e, TakenKinds)
    BY <1>4, <2>1, <2>2, <2>3, EditionOne
  <2>5. Stamped(e, run)
    <3>1. DOMAIN e = DOMAIN d /\ e[i] = x /\ \A j \in DOMAIN d \ {i} : e[j] = d[j]
      BY <2>1, <2>2
    <3> QED
      BY <1>4, <3>1 DEF Stamped, New
  <2>6. PICK v : v = Reviewed(e, r, i)
    OBVIOUS
  <2>7. Session(r, v, TakenKinds) /\ Stamped(v, run)
    BY <2>4, <2>5, <2>6, ReviewedFits
  <2>8. u \in {d, v}
    BY <1>1, <1>2, <1>3, <1>6, <2>2, <2>6 DEF Upserted
  <2> QED
    BY <2>7, <2>8
<1> QED
  BY <1>5, <1>6

LEMMA AccountRowReads ==
  ASSUME NEW r \in Requests, Stored, NEW run, NEW a, TakenSoFar(r, run, a), NEW row, Takes("account", "face", row.face)
  PROVE  TakenSoFar(r, run, AccountRow(a, r, run, row))
<1>1. PICK b : b = Remember(a, a.d, row)
  OBVIOUS
<1>2. b.d = a.d /\ b.touched = a.touched /\ DOMAIN b = DOMAIN a
  BY <1>1 DEF Remember
<1>3. PICK home : home = Home(a.d, Resolved(a.d, row))
  OBVIOUS
<1>4. PICK u, t : u = Upserted(a.d, r, run, home, row) /\ t = a.touched \cup {home}
  OBVIOUS
<1>5. PICK c : c = Counts(b, Found(a.d, home, row))
  OBVIOUS
<1>6. c.d = a.d /\ c.touched = a.touched /\ DOMAIN c = DOMAIN a
  BY <1>2, <1>5, CountsReads
<1>7. PICK e : e = [c EXCEPT !.d = u, !.touched = @ \cup {home}]
  OBVIOUS
<1>8. e.d = u /\ e.touched = t /\ DOMAIN e = DOMAIN a
  BY <1>4, <1>6, <1>7 DEF TakenSoFar
<1>9. AccountRow(a, r, run, row) = Counts(b, "failed") \/ AccountRow(a, r, run, row) = e
  BY <1>1, <1>3, <1>4, <1>5, <1>7 DEF AccountRow
<1>10. Session(r, u, TakenKinds) /\ Stamped(u, run)
  BY <1>4, UpsertedFits DEF TakenSoFar
<1>11. IsFiniteSet(t)
  BY <1>4, FS_AddElement, Zenon DEF TakenSoFar
<1> QED
  BY <1>2, <1>8, <1>9, <1>10, <1>11, CountsReads DEF TakenSoFar

\* The accounts of a file are taken in turn, by induction over the rows.
LEMMA AccountsTakenReads ==
  ASSUME NEW r, Begun(r), NEW rows, Len(rows) \in Nat, Classed(rows), NEW run
  PROVE  TakenSoFar(r, run, AccountsTaken(db, r, run, rows))
<1>0. r \in Requests /\ Stored /\ Session(r, db, TakenKinds) /\ Stamped(db, run)
  BY SessionBegins DEF Begun, Stamped, New
<1>00. PICK a : a = Read(db)
  OBVIOUS
<1>000. TakenSoFar(r, run, a)
  BY <1>0, <1>00, FS_EmptySet DEF Read, TakenSoFar
<1> DEFINE k == Len(rows)
           Obeys(h, m) == h = [n \in 0 .. m |-> IF n = 0 THEN a ELSE AccountRow(h[n - 1], r, run, rows[n])]
           f == CHOOSE h : Obeys(h, k)
<1>1. AccountsTaken(db, r, run, rows) = f[k]
  BY <1>00 DEF AccountsTaken
<1>2. \E h : Obeys(h, k)
  <2> DEFINE S == {m \in Nat : \E h : Obeys(h, m)}
  <2>1. 0 \in S
    <3>1. PICK h : h = [n \in 0 .. 0 |-> a]
      OBVIOUS
    <3>2. Obeys(h, 0)
      BY <3>1
    <3> QED
      BY <3>2
  <2>2. ASSUME NEW m \in Nat, m \in S PROVE m + 1 \in S
    <3>1. PICK h : Obeys(h, m)
      BY <2>2
    <3>2. PICK g : g = [n \in 0 .. m + 1 |-> IF n \in 0 .. m THEN h[n] ELSE AccountRow(h[m], r, run, rows[n])]
      OBVIOUS
    <3>3. ASSUME NEW n \in 0 .. m + 1 PROVE g[n] = IF n = 0 THEN a ELSE AccountRow(g[n - 1], r, run, rows[n])
      <4>1. CASE n = 0
        BY <3>1, <3>2, <4>1
      <4>2. CASE n = m + 1
        BY <3>1, <3>2, <4>2
      <4>3. CASE n # 0 /\ n \in 0 .. m
        <5>1. n - 1 \in 0 .. m /\ g[n - 1] = h[n - 1] /\ g[n] = h[n]
          BY <3>2, <4>3
        <5> QED
          BY <3>1, <4>3, <5>1
      <4> QED
        BY <4>1, <4>2, <4>3
    <3>4. Obeys(g, m + 1)
      BY <3>2, <3>3
    <3> QED
      BY <3>4
  <2> HIDE DEF S
  <2>3. Nat \subseteq S
    BY <2>1, <2>2, SetInduction
  <2> QED
    BY <2>3 DEF S
<1>3. Obeys(f, k)
  BY <1>2
<1> HIDE DEF f
<1> DEFINE Q == {n \in Nat : n \in 0 .. k => TakenSoFar(r, run, f[n])}
<1>4. 0 \in Q
  BY <1>000, <1>3
<1>5. \A n \in Nat : n \in Q => n + 1 \in Q
  <2> TAKE n \in Nat
  <2> HAVE n \in Q
  <2>1. CASE n + 1 \in 0 .. k
    <3>1. f[n + 1] = AccountRow(f[n], r, run, rows[n + 1]) /\ TakenSoFar(r, run, f[n])
      BY <1>3, <2>1
    <3>3. n + 1 \in 1 .. Len(rows)
      BY <2>1
    <3>4. PICK row : row = rows[n + 1]
      OBVIOUS
    <3>5. Takes("account", "face", row.face)
      BY <3>3, <3>4 DEF Classed
    <3>2. TakenSoFar(r, run, f[n + 1])
      BY <1>0, <3>1, <3>4, <3>5, AccountRowReads
    <3> QED
      BY <3>2
  <2> QED
    BY <2>1
<1> HIDE DEF Q
<1>6. Nat \subseteq Q
  BY <1>4, <1>5, SetInduction
<1> QED
  BY <1>1, <1>6 DEF Q

LEMMA SummedFits ==
  ASSUME Stored, NEW r, NEW d, NEW K, Session(r, d, K), "run" \in K, NEW run, NEW n
  PROVE  Session(r, Summed(d, run, n), K)
<1>1. CASE run \notin Table(d, "run")
  BY <1>1 DEF Summed
<1>2. CASE run \in Table(d, "run")
  <2>1. PICK v : v = Imported("account", n).status
    OBVIOUS
  <2>2. v \in Statuses.run
    BY <2>1, ColumnsAre DEF Imported, Final
  <2>3. run \in DOMAIN d /\ d[run].kind = "run" /\ d[run].kind \in Free \cap K
    BY <1>2 DEF Table, Free
  <2>4. PICK y : y = [d[run] EXCEPT !.n = n, !.status = v]
    OBVIOUS
  <2>5. Patch(d[run], y)
    <3>1. Typed(d[run])
      BY <2>3 DEF Session
    <3> QED
      BY <2>2, <2>3, <2>4, <3>1, RunSummed, Zenon
  <2>6. PICK e : e = [d EXCEPT ![run] = y]
    OBVIOUS
  <2>7. Session(r, e, K)
    BY <2>3, <2>5, <2>6, FreeEdition, Zenon
  <2>8. Summed(d, run, n) = e
    BY <1>2, <2>1, <2>3, <2>4, <2>6 DEF Summed
  <2> QED
    BY <2>7, <2>8
<1> QED
  BY <1>1, <1>2

\* What an import writes.
ImportWrites(d, run) ==
  /\ Stamped(d, run)
  /\ \A i \in New(d) : d[i].kind \in {"account", "review", "aijob"}
  /\ \A i \in DOMAIN db : db[i].kind \in {"job", "run"} => d[i] = db[i] \/ i = run
  /\ run \in Table(db, "run") => d[run].kind = "run" /\ d[run].status \in Final

LEMMA SummedWrites ==
  ASSUME Stored, NEW r \in Requests, NEW run \in Table(db, "run"), NEW n,
         NEW a, Session(r, a, TakenKinds), Stamped(a, run), NEW d, d = Summed(a, run, n)
  PROVE  ImportWrites(d, run)
<1>1. PICK v : v = Imported("account", n).status
  OBVIOUS
<1>2. v \in Final
  BY <1>1 DEF Imported, Final
<1>3. run \in DOMAIN a /\ a[run] = db[run] /\ db[run].kind = "run" /\ run \in DOMAIN db
  BY DEF Session, Table, Stamped, Kept, TakenKinds
<1>4. PICK y : y = [a[run] EXCEPT !.n = n, !.status = v]
  OBVIOUS
<1>5. d = [a EXCEPT ![run] = y]
  BY <1>1, <1>3, <1>4 DEF Summed, Table
<1>6. DOMAIN a[run] = {"kind", "of", "n", "status"}
  <2>1. Typed(db[run])
    BY <1>3 DEF Stored
  <2> QED
    BY <1>3, <2>1, ColumnsAre DEF Typed
<1>7. y.kind = "run" /\ y.status \in Final
  BY <1>2, <1>3, <1>4, <1>6
<1>8. DOMAIN d = DOMAIN a /\ d[run] = y /\ \A i \in DOMAIN a \ {run} : d[i] = a[i]
  BY <1>3, <1>5
<1>9. Stamped(d, run)
  BY <1>7, <1>8 DEF Stamped, New
<1>10. \A i \in New(d) : d[i].kind \in {"account", "review", "aijob"}
  BY <1>3, <1>8 DEF New, Session, TakenKinds
<1>11. \A i \in DOMAIN db : db[i].kind \in {"job", "run"} => d[i] = db[i] \/ i = run
  <2> SUFFICES ASSUME NEW i \in DOMAIN db, db[i].kind \in {"job", "run"}, i # run PROVE d[i] = db[i]
    OBVIOUS
  <2>1. i \in DOMAIN a /\ a[i] = db[i]
    BY DEF Session, Kept, TakenKinds, Stamped
  <2> QED
    BY <1>8, <2>1
<1> QED
  BY <1>7, <1>8, <1>9, <1>10, <1>11 DEF ImportWrites

ImportKinds == TakenKinds \cup {"run", "aijob"}

LEMMA ImportProceeds ==
  ASSUME NEW r, Begun(r), Import(r)
  PROVE  Proceeds(r, ImportKinds) /\ Op(r).do \in OfFiles
<1>0. Op(r).do \in OfFiles
  BY DEF Import, Next1, Op, OfFiles, Continued
<1>1. PICK o : o = Op(r)
  OBVIOUS
<1>2. PICK acc : acc = AccountsTaken(db, r, o.run, o.file.rows)
  OBVIOUS
<1>3. PICK d : d = Summed(acc.d, o.run, acc.n)
  OBVIOUS
<1>4. PICK e : e = IF d[o.run].status = "failed" THEN d ELSE Enqueued(d, r, acc.touched)
  OBVIOUS
<1>5. GoesOn(r, Failing(o.id)) \/ Opens(r, e, Closing(o, o.run) \o (Processing(db, e) \o Rest(r)), Failing(o.id))
  BY <1>1, <1>2, <1>3, <1>4 DEF Import, AllRows
<1>6. TakenSoFar(r, o.run, acc)
  <2>1. Asked(o) /\ o.do = "import"
    BY <1>1, RestFollows DEF Begun, Import, Next1, Op
  <2>2. Len(o.file.rows) \in Nat /\ Classed(o.file.rows)
    BY <2>1 DEF Asked, WithFile, HasAccounts
  <2> QED
    BY <1>2, <2>2, AccountsTakenReads
<1>7. Stored /\ r \in Requests
  BY DEF Begun
<1>8. Session(r, e, ImportKinds)
  <2>1. Session(r, acc.d, ImportKinds) /\ IsFiniteSet(acc.touched)
    <3>1. TakenKinds \subseteq ImportKinds
      BY DEF ImportKinds
    <3> QED
      BY <1>6, <3>1, SessionWidens DEF TakenSoFar
  <2>2. Session(r, d, ImportKinds)
    BY <1>3, <1>7, <2>1, SummedFits DEF ImportKinds
  <2>3. Session(r, Enqueued(d, r, acc.touched), ImportKinds)
    BY <1>7, <2>1, <2>2, EnqueuedFits DEF ImportKinds
  <2> QED
    BY <1>4, <2>2, <2>3
<1>9. PICK t : t = Processing(db, e) \o Rest(r)
  OBVIOUS
<1>10. Follows(r, t)
  <2>1. IsFiniteSet(DOMAIN e)
    BY <1>7, <1>8, SessionFinite
  <2>2. Follows(r, Rest(r))
    BY RestFollows DEF Begun
  <2>3. Op(r).do \in Leading
    BY DEF Import, Next1, Op, Leading
  <2> QED
    BY <1>9, <2>1, <2>2, <2>3, ProcessingFollows
<1>11. PICK u : u = Closing(o, o.run) \o t
  OBVIOUS
<1>12. Follows(r, u) /\ Follows(r, Failing(o.id))
  BY <1>0, <1>10, <1>11, ClosingFollows, FailingFollows
<1>13. u = Closing(o, o.run) \o (Processing(db, e) \o Rest(r))
  BY <1>9, <1>11
<1>14. CASE GoesOn(r, Failing(o.id))
  BY <1>0, <1>12, <1>14, ProceedsOn, Zenon
<1>15. CASE Opens(r, e, Closing(o, o.run) \o (Processing(db, e) \o Rest(r)), Failing(o.id))
  BY <1>0, <1>8, <1>12, <1>13, <1>15, OpensProceeds
<1> QED
  BY <1>5, <1>14, <1>15

\* Requests without a file, jobs of files, and the two kinds of files.
LEMMA IntakeStepEither ==
  ASSUME NEW r, Begun(r), IntakeStep(r)
  PROVE  \/ Proceeds(r, DraftKinds) \/ Proceeds(r, {"work"})
         \/ /\ Op(r).do \in OfFiles
            /\ \/ Proceeds(r, JobKinds) \/ Proceeds(r, ImportKinds)
               \/ ProceedsLawfully(r, NameKinds \cup {"run"})
  BY EnqueueIs, EnqueueForClientIs, RequeueMissingIs, EnqueuesProceeds,
     ClaimSuggestionProceeds, EvaluateGatesProceeds, SuggestProceeds, FinishSuggestionProceeds,
     UploadProceeds, ClaimProceeds, PreviewFileProceeds, BeginProceeds, LinkProceeds,
     ImportProceeds, ImportClientsProceeds, CloseProceeds, FailProceeds, EngageProceeds, Zenon DEF IntakeStep

LEMMA ProceedsWidens ==
  ASSUME NEW r, NEW K, NEW L, K \subseteq L, Proceeds(r, K)
  PROVE  Proceeds(r, L)
  BY SessionWidens, Zenon DEF Proceeds

\* All steps of files and suggestion jobs.
LEMMA IntakeStepProceeds ==
  ASSUME NEW r, Begun(r), IntakeStep(r)
  PROVE  /\ ProceedsAside(r) \/ (Op(r).do \in OfFiles /\ Proceeds(r, BookKinds))
         /\ ProceedsLawfully(r, BookKinds)
<1>1. /\ DraftKinds \subseteq LooseKinds /\ {"work"} \subseteq LooseKinds /\ DraftKinds \cap NameKinds = {}
      /\ {"work"} \cap NameKinds = {} /\ JobKinds \cap NameKinds = {} /\ ImportKinds \cap NameKinds = {}
      /\ DraftKinds \subseteq BookKinds /\ {"work"} \subseteq BookKinds /\ JobKinds \subseteq BookKinds
      /\ ImportKinds \subseteq BookKinds /\ NameKinds \cup {"run"} \subseteq BookKinds
  BY DEF LooseKinds, DraftKinds, NameKinds, JobKinds, ImportKinds, TakenKinds, BookKinds
<1>2. CASE Proceeds(r, DraftKinds)
  BY <1>1, <1>2, LooseAside, ProceedsEither, LawfullyWidens, Zenon
<1>3. CASE Proceeds(r, {"work"})
  BY <1>1, <1>3, LooseAside, ProceedsEither, LawfullyWidens, Zenon
<1>4. CASE Op(r).do \in OfFiles /\ Proceeds(r, JobKinds)
  BY <1>1, <1>4, ProceedsWidens, ProceedsEither, LawfullyWidens, Zenon
<1>5. CASE Op(r).do \in OfFiles /\ Proceeds(r, ImportKinds)
  BY <1>1, <1>5, ProceedsWidens, ProceedsEither, LawfullyWidens, Zenon
<1>6. CASE Op(r).do \in OfFiles /\ ProceedsLawfully(r, NameKinds \cup {"run"})
  BY <1>1, <1>6, ProceedsWidens, ProceedsEither, LawfullyWidens, Zenon
<1> QED
  BY <1>2, <1>3, <1>4, <1>5, <1>6, IntakeStepEither, Zenon

(***************************************************************************)
(* What a request on users must see to when it writes the rows d.          *)
(***************************************************************************)
\* The tables of users.
AccessKinds ==
  {"user", "session", "refresh", "link", "use", "membership", "role", "may", "assignment",
   "entitlement", "product", "org"}
Kinds == BookKinds \cup AccessKinds

\* Rows of which there should be one.
Rival(x, y) ==
  \/ Alike(x, y, "session", {"user", "live"}) /\ x.live
  \/ Alike(x, y, "link", {"user", "of", "unused"}) /\ x.unused
  \/ Alike(x, y, "use", {"link"})
  \/ Alike(x, y, "may", {"role"})

\* No new row is a rival of one that the request found.
NewApart(d) == \A i \in New(d), j \in DOMAIN d \cap DOMAIN db : ~Rival(d[i], d[j])

\* A link that is used is turned off.
NewUses(d) ==
  \A i \in New(d) : d[i].kind = "use" =>
    d[i].link \in Table(db, "link") /\ (d[i].link \in DOMAIN d => ~d[d[i].link].unused)

\* Links that were used are off.
UsesSpent(d) ==
  \A i \in Table(d, "use") : d[i].link \in Table(d, "link") => ~d[d[i].link].unused

\* One live refresh token of a session.
OneRefresh(d) ==
  \A i, j \in Table(d, "refresh") : d[i].live /\ d[j].live /\ d[i].session = d[j].session => i = j

\* OldPasswordOut, of any rows.
Ousted(d) ==
  \A s \in Table(d, "session"), u \in Table(d, "user") :
    d[s].user = u /\ d[s].live /\ d[u].set # <<>> /\ d[u].set[2] = "reset" /\ d[s].with # d[u].password
      => Overlapped(s, d[u].set)

\* No session of u lives.
NoneLive(d, u) == \A s \in Table(d, "session") : d[s].user = u => ~d[s].live
\* A request that sets a password says so, and a reset ends the sessions it sees.
Secrets(r, d) ==
  \A u \in Table(d, "user") :
    \/ u \notin DOMAIN db /\ d[u].set = <<>>
    \/ u \in DOMAIN db /\ d[u].set = db[u].set /\ d[u].password = db[u].password
    \/ u \in DOMAIN db /\ Op(r).do \in Setting
         /\ \E how : d[u].set = <<r, how>> /\ (how = "reset" => NoneLive(d, u))

\* purge_user_identity refuses to delete the last administrator it sees.
AdminStays(d) == Admins(db) # {} => \E m \in Admins(db) : m \in DOMAIN d

\* What a session sees to, as far as the request can know.
Careful(r, d) ==
  /\ NewApart(d) /\ NewUses(d) /\ (OneRefresh(db) => OneRefresh(d)) /\ (Ousted(db) => Ousted(d))
  /\ Secrets(r, d) /\ AdminStays(d)

OfBook(r) == BookStep(r) \/ IntakeStep(r)

\* What a step of a request comes to.
Advances(r) ==
  \/ \E t : Follows(r, t) /\ GoesOn(r, t)
  \/ \E d, then, else : /\ Session(r, d, Kinds) /\ Careful(r, d) /\ Follows(r, then) /\ Follows(r, else)
                        /\ Op(r).do \notin OfFiles => Aloof(d)
                        /\ Session(r, d, AccessKinds) \/ OfBook(r)
                        /\ Opens(r, d, then, else)

(* The rows of a session that the request found in the table. *)
LEMMA FoundRows ==
  ASSUME Stored, NEW r, NEW d, NEW K, Session(r, d, K), NEW i \in DOMAIN d \cap DOMAIN db
  PROVE  /\ d[i].kind = db[i].kind
         /\ d[i].kind \in {"use", "may", "work"} => d[i] = db[i]
         /\ d[i].kind = "session" => d[i].user = db[i].user /\ d[i].with = db[i].with /\ (d[i].live => db[i].live)
         /\ d[i].kind = "link" => d[i].user = db[i].user /\ d[i].of = db[i].of /\ (d[i].unused => db[i].unused)
         /\ d[i].kind = "refresh" => d[i].session = db[i].session /\ d[i].user = db[i].user /\ (d[i].live => db[i].live)
<1>1. d[i] = db[i] \/ (Kept(db[i], d[i]) /\ d[i].kind \in K)
  BY DEF Session
<1>2. CASE d[i] = db[i]
  BY <1>2
<1>3. CASE Kept(db[i], d[i])
  <2>1. Typed(db[i])
    BY DEF Stored
  <2>2. DOMAIN db[i] = Columns[db[i].kind]
    BY <2>1 DEF Typed
  <2>3. d[i].kind = db[i].kind /\ db[i].kind \notin {"use", "may", "work"}
    BY <1>3 DEF Kept
  <2>4. ASSUME d[i].kind = "session"
        PROVE  d[i].user = db[i].user /\ d[i].with = db[i].with /\ (d[i].live => db[i].live)
    <3>1. DOMAIN db[i] = {"kind", "user", "live", "with"}
      BY <2>2, <2>3, <2>4 DEF Columns
    <3> QED
      BY <1>3, <2>3, <2>4, <3>1 DEF Kept
  <2>5. ASSUME d[i].kind = "link"
        PROVE  d[i].user = db[i].user /\ d[i].of = db[i].of /\ (d[i].unused => db[i].unused)
    <3>1. DOMAIN db[i] = {"kind", "user", "of", "unused"}
      BY <2>2, <2>3, <2>5 DEF Columns
    <3> QED
      BY <1>3, <2>3, <2>5, <3>1 DEF Kept
  <2>6. ASSUME d[i].kind = "refresh"
        PROVE  d[i].session = db[i].session /\ d[i].user = db[i].user /\ (d[i].live => db[i].live)
    <3>1. DOMAIN db[i] = {"kind", "user", "session", "live"}
      BY <2>2, <2>3, <2>6 DEF Columns
    <3> QED
      BY <1>3, <2>3, <2>6, <3>1 DEF Kept
  <2> QED
    BY <2>3, <2>4, <2>5, <2>6
<1> QED
  BY <1>1, <1>2, <1>3

\* Kinds of which there should be one row.
Single == {"session", "refresh", "link", "use", "may"}

\* A session of rows that leaves sessions and passwords alone keeps them apart.
LEMMA OustedStill ==
  ASSUME Stored, NEW r, NEW d, NEW K, Session(r, d, K), Ousted(db),
         \A i \in New(d) : d[i].kind # "session" /\ (d[i].kind = "user" => d[i].set = <<>>),
         \A u \in DOMAIN d \cap DOMAIN db :
           d[u].kind = "user" => d[u].set = db[u].set /\ d[u].password = db[u].password
  PROVE  Ousted(d)
<1> SUFFICES ASSUME NEW s \in Table(d, "session"), NEW u \in Table(d, "user"),
                    d[s].user = u, d[s].live, d[u].set # <<>>, d[u].set[2] = "reset", d[s].with # d[u].password
             PROVE  Overlapped(s, d[u].set)
  BY DEF Ousted
<1>1. s \in DOMAIN d \cap DOMAIN db /\ u \in DOMAIN d \cap DOMAIN db
  BY DEF Table, New
<1>2. db[s].kind = "session" /\ db[s].user = u /\ db[s].live /\ db[s].with = d[s].with
  BY <1>1, FoundRows DEF Table
<1>3. db[u].kind = "user" /\ d[u].set = db[u].set /\ d[u].password = db[u].password
  BY <1>1, FoundRows DEF Table
<1> QED
  BY <1>1, <1>2, <1>3 DEF Ousted, Table

LEMMA OneRefreshStill ==
  ASSUME Stored, NEW r, NEW d, NEW K, Session(r, d, K), OneRefresh(db),
         \A i \in New(d) : d[i].kind # "refresh"
  PROVE  OneRefresh(d)
<1> SUFFICES ASSUME NEW i \in Table(d, "refresh"), NEW j \in Table(d, "refresh"),
                    d[i].live, d[j].live, d[i].session = d[j].session
             PROVE  i = j
  BY DEF OneRefresh
<1>1. i \in DOMAIN d \cap DOMAIN db /\ j \in DOMAIN d \cap DOMAIN db
  BY DEF Table, New
<1>2. db[i].kind = "refresh" /\ db[i].live /\ db[j].kind = "refresh" /\ db[j].live /\ db[i].session = db[j].session
  BY <1>1, FoundRows DEF Table
<1> QED
  BY <1>1, <1>2 DEF OneRefresh, Table

LEMMA SecretsStill ==
  ASSUME NEW r, NEW d,
         \A i \in New(d) : d[i].kind = "user" => d[i].set = <<>>,
         \A u \in DOMAIN d \cap DOMAIN db :
           d[u].kind = "user" => d[u].set = db[u].set /\ d[u].password = db[u].password
  PROVE  Secrets(r, d)
  BY DEF Secrets, Table, New

LEMMA AdminStaysStill ==
  ASSUME NEW r, NEW d, NEW K, Session(r, d, K), "membership" \notin K
  PROVE  AdminStays(d)
  BY DEF AdminStays, Admins, Table, Session

\* A request that writes none of the rows of which there should be one.
LEMMA QuietCareful ==
  ASSUME Stored, NEW r, NEW d, NEW K, Session(r, d, K), AdminStays(d),
         \A i \in New(d) : d[i].kind \notin Single /\ (d[i].kind = "user" => d[i].set = <<>>),
         \A u \in DOMAIN d \cap DOMAIN db :
           d[u].kind = "user" => d[u].set = db[u].set /\ d[u].password = db[u].password
  PROVE  Careful(r, d)
<1>1. NewApart(d)
  BY DEF NewApart, Rival, Alike, Single
<1>2. NewUses(d)
  BY DEF NewUses, Single
<1>3. OneRefresh(db) => OneRefresh(d)
  BY OneRefreshStill DEF Single
<1>4. Ousted(db) => Ousted(d)
  BY OustedStill DEF Single
<1>5. Secrets(r, d)
  BY SecretsStill
<1> QED
  BY <1>1, <1>2, <1>3, <1>4, <1>5 DEF Careful

(* Without users and single rows there is nothing to see to. *)
LEMMA AsideCareful ==
  ASSUME Stored, NEW r, NEW d, NEW K, Session(r, d, K), K \cap (Single \cup {"user", "membership"}) = {}
  PROVE  Careful(r, d)
<1>1. \A i \in New(d) : d[i].kind \notin Single /\ (d[i].kind = "user" => d[i].set = <<>>)
  BY DEF Session
<1>2. \A u \in DOMAIN d \cap DOMAIN db :
        d[u].kind = "user" => d[u].set = db[u].set /\ d[u].password = db[u].password
  BY DEF Session
<1>3. AdminStays(d)
  BY AdminStaysStill
<1> QED
  BY <1>1, <1>2, <1>3, QuietCareful

\* Clients, files and suggestion jobs have nothing to do with users.
LEMMA BookAdvances ==
  ASSUME NEW r, Begun(r), OfBook(r), ProceedsAside(r) \/ (Op(r).do \in OfFiles /\ Proceeds(r, BookKinds))
  PROVE  Advances(r)
<1>1. CASE \E t : Follows(r, t) /\ GoesOn(r, t)
  BY <1>1 DEF Advances
<1>2. ASSUME NEW d, NEW then, NEW else, Session(r, d, BookKinds), Follows(r, then), Follows(r, else),
             Op(r).do \notin OfFiles => Aloof(d), Opens(r, d, then, else)
      PROVE  Advances(r)
  <2>1. BookKinds \cap (Single \cup {"user", "membership"}) = {} /\ BookKinds \subseteq Kinds /\ Stored
    BY DEF BookKinds, Single, Kinds, Begun
  <2>2. Careful(r, d)
    BY <1>2, <2>1, AsideCareful, Zenon
  <2>3. Session(r, d, Kinds)
    BY <1>2, <2>1, SessionWidens, Zenon
  <2> QED
    BY <1>2, <2>2, <2>3, Zenon DEF Advances
<1>3. CASE ProceedsAside(r)
  BY <1>1, <1>2, <1>3, Zenon DEF ProceedsAside
<1>4. CASE Op(r).do \in OfFiles /\ Proceeds(r, BookKinds)
  BY <1>1, <1>2, <1>4, Zenon DEF Proceeds
<1> QED
  BY <1>3, <1>4

LEMMA AccessColumnsAre ==
  /\ Columns.user = {"kind", "email", "org", "super", "status", "password", "set"}
  /\ Columns.session = {"kind", "user", "live", "with"}
  /\ Columns.refresh = {"kind", "user", "session", "live"}
  /\ Columns.link = {"kind", "user", "of", "unused"} /\ Columns.use = {"kind", "link"}
  /\ Columns.membership = {"kind", "user", "role"}
  /\ Columns.role = {"kind", "name", "code", "wide", "builtin"}
  /\ Columns.may = {"kind", "role", "permission"}
  /\ Columns.assignment = {"kind", "user", "product"}
  /\ Columns.entitlement = {"kind", "org", "product", "granted"}
  /\ Columns.product = {"kind", "code", "active"} /\ Columns.org = {"kind", "name"}
  BY DEF Columns

\* The rows that the handlers of users insert.
LEMMA TypedAccessRows ==
  /\ \A email, org, status : status \in Statuses.user => Typed(User(email, org, status))
  /\ \A u, v : Typed([kind |-> "session", user |-> u, live |-> TRUE, with |-> v])
  /\ \A u, s : Typed([kind |-> "refresh", user |-> u, session |-> s, live |-> TRUE])
  /\ \A u, of : Typed([kind |-> "link", user |-> u, of |-> of, unused |-> TRUE])
  /\ \A t : Typed([kind |-> "use", link |-> t])
  /\ \A u, p : Typed([kind |-> "assignment", user |-> u, product |-> p])
  /\ \A u, p : Typed([kind |-> "membership", user |-> u, role |-> p])
  /\ \A name, code, wide, builtin : Typed([kind |-> "role", name |-> name, code |-> code, wide |-> wide, builtin |-> builtin])
  /\ \A role, p : Typed([kind |-> "may", role |-> role, permission |-> p])
  /\ \A name : Typed([kind |-> "org", name |-> name])
  /\ \A org, p, granted : Typed([kind |-> "entitlement", org |-> org, product |-> p, granted |-> granted])
  /\ \A code, active : Typed([kind |-> "product", code |-> code, active |-> active])
<1>1. \A email, org, status : status \in Statuses.user => Typed(User(email, org, status))
  <2> SUFFICES ASSUME NEW email, NEW org, NEW status, status \in Statuses.user PROVE Typed(User(email, org, status))
    OBVIOUS
  <2> DEFINE x == User(email, org, status)
  <2>1. x.kind = "user" /\ x = [col \in {"kind", "email", "org", "super", "status", "password", "set"} |-> x[col]]
    BY DEF User
  <2>0. /\ Takes("user", "kind", x["kind"])
        /\ Takes("user", "email", x["email"])
        /\ Takes("user", "org", x["org"])
        /\ Takes("user", "super", x["super"])
        /\ Takes("user", "status", x["status"])
        /\ Takes("user", "password", x["password"])
        /\ Takes("user", "set", x["set"])
    BY ColumnsAre DEF Takes, User
  <2>2. \A col \in {"kind", "email", "org", "super", "status", "password", "set"} : Takes("user", col, x[col])
    <3> HIDE DEF x
    <3> QED
      BY <2>0
  <2> HIDE DEF x
  <2>3. Typed(x)
    BY <2>1, <2>2, ColumnsAre, AccessColumnsAre DEF Typed
  <2> QED
    BY <2>3 DEF x
<1>2. \A u, v : Typed([kind |-> "session", user |-> u, live |-> TRUE, with |-> v])
  <2> SUFFICES ASSUME NEW u, NEW v PROVE Typed([kind |-> "session", user |-> u, live |-> TRUE, with |-> v])
    OBVIOUS
  <2> DEFINE x == [kind |-> "session", user |-> u, live |-> TRUE, with |-> v]
  <2>1. x.kind = "session" /\ x = [col \in {"kind", "user", "live", "with"} |-> x[col]]
    OBVIOUS
  <2>0. /\ Takes("session", "kind", x["kind"])
        /\ Takes("session", "user", x["user"])
        /\ Takes("session", "live", x["live"])
        /\ Takes("session", "with", x["with"])
    BY ColumnsAre DEF Takes
  <2>2. \A col \in {"kind", "user", "live", "with"} : Takes("session", col, x[col])
    <3> HIDE DEF x
    <3> QED
      BY <2>0
  <2> HIDE DEF x
  <2>3. Typed(x)
    BY <2>1, <2>2, ColumnsAre, AccessColumnsAre DEF Typed
  <2> QED
    BY <2>3 DEF x
<1>3. \A u, s : Typed([kind |-> "refresh", user |-> u, session |-> s, live |-> TRUE])
  <2> SUFFICES ASSUME NEW u, NEW s PROVE Typed([kind |-> "refresh", user |-> u, session |-> s, live |-> TRUE])
    OBVIOUS
  <2> DEFINE x == [kind |-> "refresh", user |-> u, session |-> s, live |-> TRUE]
  <2>1. x.kind = "refresh" /\ x = [col \in {"kind", "user", "session", "live"} |-> x[col]]
    OBVIOUS
  <2>0. /\ Takes("refresh", "kind", x["kind"])
        /\ Takes("refresh", "user", x["user"])
        /\ Takes("refresh", "session", x["session"])
        /\ Takes("refresh", "live", x["live"])
    BY ColumnsAre DEF Takes
  <2>2. \A col \in {"kind", "user", "session", "live"} : Takes("refresh", col, x[col])
    <3> HIDE DEF x
    <3> QED
      BY <2>0
  <2> HIDE DEF x
  <2>3. Typed(x)
    BY <2>1, <2>2, ColumnsAre, AccessColumnsAre DEF Typed
  <2> QED
    BY <2>3 DEF x
<1>4. \A u, of : Typed([kind |-> "link", user |-> u, of |-> of, unused |-> TRUE])
  <2> SUFFICES ASSUME NEW u, NEW of PROVE Typed([kind |-> "link", user |-> u, of |-> of, unused |-> TRUE])
    OBVIOUS
  <2> DEFINE x == [kind |-> "link", user |-> u, of |-> of, unused |-> TRUE]
  <2>1. x.kind = "link" /\ x = [col \in {"kind", "user", "of", "unused"} |-> x[col]]
    OBVIOUS
  <2>0. /\ Takes("link", "kind", x["kind"])
        /\ Takes("link", "user", x["user"])
        /\ Takes("link", "of", x["of"])
        /\ Takes("link", "unused", x["unused"])
    BY ColumnsAre DEF Takes
  <2>2. \A col \in {"kind", "user", "of", "unused"} : Takes("link", col, x[col])
    <3> HIDE DEF x
    <3> QED
      BY <2>0
  <2> HIDE DEF x
  <2>3. Typed(x)
    BY <2>1, <2>2, ColumnsAre, AccessColumnsAre DEF Typed
  <2> QED
    BY <2>3 DEF x
<1>5. \A t : Typed([kind |-> "use", link |-> t])
  <2> SUFFICES ASSUME NEW t PROVE Typed([kind |-> "use", link |-> t])
    OBVIOUS
  <2> DEFINE x == [kind |-> "use", link |-> t]
  <2>1. x.kind = "use" /\ x = [col \in {"kind", "link"} |-> x[col]]
    OBVIOUS
  <2>2. \A col \in {"kind", "link"} : Takes("use", col, x[col])
    BY ColumnsAre DEF Takes
  <2> HIDE DEF x
  <2>3. Typed(x)
    BY <2>1, <2>2, ColumnsAre, AccessColumnsAre DEF Typed
  <2> QED
    BY <2>3 DEF x
<1>6. \A u, p : Typed([kind |-> "assignment", user |-> u, product |-> p])
  <2> SUFFICES ASSUME NEW u, NEW p PROVE Typed([kind |-> "assignment", user |-> u, product |-> p])
    OBVIOUS
  <2> DEFINE x == [kind |-> "assignment", user |-> u, product |-> p]
  <2>1. x.kind = "assignment" /\ x = [col \in {"kind", "user", "product"} |-> x[col]]
    OBVIOUS
  <2>2. \A col \in {"kind", "user", "product"} : Takes("assignment", col, x[col])
    BY ColumnsAre DEF Takes
  <2> HIDE DEF x
  <2>3. Typed(x)
    BY <2>1, <2>2, ColumnsAre, AccessColumnsAre DEF Typed
  <2> QED
    BY <2>3 DEF x
<1>7. \A u, p : Typed([kind |-> "membership", user |-> u, role |-> p])
  <2> SUFFICES ASSUME NEW u, NEW p PROVE Typed([kind |-> "membership", user |-> u, role |-> p])
    OBVIOUS
  <2> DEFINE x == [kind |-> "membership", user |-> u, role |-> p]
  <2>1. x.kind = "membership" /\ x = [col \in {"kind", "user", "role"} |-> x[col]]
    OBVIOUS
  <2>2. \A col \in {"kind", "user", "role"} : Takes("membership", col, x[col])
    BY ColumnsAre DEF Takes
  <2> HIDE DEF x
  <2>3. Typed(x)
    BY <2>1, <2>2, ColumnsAre, AccessColumnsAre DEF Typed
  <2> QED
    BY <2>3 DEF x
<1>8. \A name, code, wide, builtin : Typed([kind |-> "role", name |-> name, code |-> code, wide |-> wide, builtin |-> builtin])
  <2> SUFFICES ASSUME NEW name, NEW code, NEW wide, NEW builtin PROVE Typed([kind |-> "role", name |-> name, code |-> code, wide |-> wide, builtin |-> builtin])
    OBVIOUS
  <2> DEFINE x == [kind |-> "role", name |-> name, code |-> code, wide |-> wide, builtin |-> builtin]
  <2>1. x.kind = "role" /\ x = [col \in {"kind", "name", "code", "wide", "builtin"} |-> x[col]]
    OBVIOUS
  <2>2. \A col \in {"kind", "name", "code", "wide", "builtin"} : Takes("role", col, x[col])
    BY ColumnsAre DEF Takes
  <2> HIDE DEF x
  <2>3. Typed(x)
    BY <2>1, <2>2, ColumnsAre, AccessColumnsAre DEF Typed
  <2> QED
    BY <2>3 DEF x
<1>9. \A role, p : Typed([kind |-> "may", role |-> role, permission |-> p])
  <2> SUFFICES ASSUME NEW role, NEW p PROVE Typed([kind |-> "may", role |-> role, permission |-> p])
    OBVIOUS
  <2> DEFINE x == [kind |-> "may", role |-> role, permission |-> p]
  <2>1. x.kind = "may" /\ x = [col \in {"kind", "role", "permission"} |-> x[col]]
    OBVIOUS
  <2>2. \A col \in {"kind", "role", "permission"} : Takes("may", col, x[col])
    BY ColumnsAre DEF Takes
  <2> HIDE DEF x
  <2>3. Typed(x)
    BY <2>1, <2>2, ColumnsAre, AccessColumnsAre DEF Typed
  <2> QED
    BY <2>3 DEF x
<1>10. \A name : Typed([kind |-> "org", name |-> name])
  <2> SUFFICES ASSUME NEW name PROVE Typed([kind |-> "org", name |-> name])
    OBVIOUS
  <2> DEFINE x == [kind |-> "org", name |-> name]
  <2>1. x.kind = "org" /\ x = [col \in {"kind", "name"} |-> x[col]]
    OBVIOUS
  <2>2. \A col \in {"kind", "name"} : Takes("org", col, x[col])
    BY ColumnsAre DEF Takes
  <2> HIDE DEF x
  <2>3. Typed(x)
    BY <2>1, <2>2, ColumnsAre, AccessColumnsAre DEF Typed
  <2> QED
    BY <2>3 DEF x
<1>11. \A org, p, granted : Typed([kind |-> "entitlement", org |-> org, product |-> p, granted |-> granted])
  <2> SUFFICES ASSUME NEW org, NEW p, NEW granted PROVE Typed([kind |-> "entitlement", org |-> org, product |-> p, granted |-> granted])
    OBVIOUS
  <2> DEFINE x == [kind |-> "entitlement", org |-> org, product |-> p, granted |-> granted]
  <2>1. x.kind = "entitlement" /\ x = [col \in {"kind", "org", "product", "granted"} |-> x[col]]
    OBVIOUS
  <2>2. \A col \in {"kind", "org", "product", "granted"} : Takes("entitlement", col, x[col])
    BY ColumnsAre DEF Takes
  <2> HIDE DEF x
  <2>3. Typed(x)
    BY <2>1, <2>2, ColumnsAre, AccessColumnsAre DEF Typed
  <2> QED
    BY <2>3 DEF x
<1>12. \A code, active : Typed([kind |-> "product", code |-> code, active |-> active])
  <2> SUFFICES ASSUME NEW code, NEW active PROVE Typed([kind |-> "product", code |-> code, active |-> active])
    OBVIOUS
  <2> DEFINE x == [kind |-> "product", code |-> code, active |-> active]
  <2>1. x.kind = "product" /\ x = [col \in {"kind", "code", "active"} |-> x[col]]
    OBVIOUS
  <2>2. \A col \in {"kind", "code", "active"} : Takes("product", col, x[col])
    BY ColumnsAre DEF Takes
  <2> HIDE DEF x
  <2>3. Typed(x)
    BY <2>1, <2>2, ColumnsAre, AccessColumnsAre DEF Typed
  <2> QED
    BY <2>3 DEF x
<1> QED
  BY <1>1, <1>2, <1>3, <1>4, <1>5, <1>6, <1>7, <1>8, <1>9, <1>10, <1>11, <1>12

\* A user, member, role, product, org, session, token or link gets new values.
LEMMA UserStatus ==
  ASSUME NEW x, Typed(x), x.kind = "user", NEW v, v \in Statuses.user,
         NEW y, y = [x EXCEPT !.status = v]
  PROVE  Patch(x, y)
<1>1. DOMAIN x = Columns["user"]
  BY DEF Typed
<1>2. DOMAIN y = DOMAIN x /\ Fun(y)
  BY DEF Fun
<1>3. \A col \in DOMAIN x \ {"status"} : y[col] = x[col]
  OBVIOUS
<1>4. y["status"] = v /\ y.kind = x.kind
  BY <1>1, ColumnsAre, AccessColumnsAre
<1>5. \A col \in {"status"} : Takes(x.kind, col, y[col])
  <2>1. Takes(x.kind, "status", y["status"])
    BY <1>4, ColumnsAre DEF Takes
  <2> QED
    BY <2>1
<1> QED
  BY <1>2, <1>3, <1>4, <1>5 DEF Patch

LEMMA UserMoved ==
  ASSUME NEW x, Typed(x), x.kind = "user", NEW org, NEW v, v \in Statuses.user,
         NEW y, y = [x EXCEPT !.org = org, !.status = v]
  PROVE  Patch(x, y)
<1>1. DOMAIN x = Columns["user"]
  BY DEF Typed
<1>2. DOMAIN y = DOMAIN x /\ Fun(y)
  BY DEF Fun
<1>3. \A col \in DOMAIN x \ {"org", "status"} : y[col] = x[col]
  OBVIOUS
<1>4. y["org"] = org /\ y["status"] = v /\ y.kind = x.kind
  BY <1>1, ColumnsAre, AccessColumnsAre
<1>5. \A col \in {"org", "status"} : Takes(x.kind, col, y[col])
  <2>1. Takes(x.kind, "org", y["org"])
    BY <1>4, ColumnsAre DEF Takes
  <2>2. Takes(x.kind, "status", y["status"])
    BY <1>4, ColumnsAre DEF Takes
  <2> QED
    BY <2>1, <2>2
<1> QED
  BY <1>2, <1>3, <1>4, <1>5 DEF Patch

LEMMA UserSecret ==
  ASSUME NEW x, Typed(x), x.kind = "user", NEW p, NEW w,
         NEW y, y = [x EXCEPT !.password = p, !.set = w]
  PROVE  Patch(x, y)
<1>1. DOMAIN x = Columns["user"]
  BY DEF Typed
<1>2. DOMAIN y = DOMAIN x /\ Fun(y)
  BY DEF Fun
<1>3. \A col \in DOMAIN x \ {"password", "set"} : y[col] = x[col]
  OBVIOUS
<1>4. y["password"] = p /\ y["set"] = w /\ y.kind = x.kind
  BY <1>1, ColumnsAre, AccessColumnsAre
<1>5. \A col \in {"password", "set"} : Takes(x.kind, col, y[col])
  <2>1. Takes(x.kind, "password", y["password"])
    BY <1>4, ColumnsAre DEF Takes
  <2>2. Takes(x.kind, "set", y["set"])
    BY <1>4, ColumnsAre DEF Takes
  <2> QED
    BY <2>1, <2>2
<1> QED
  BY <1>2, <1>3, <1>4, <1>5 DEF Patch

LEMMA MemberRole ==
  ASSUME NEW x, Typed(x), x.kind = "membership", NEW v,
         NEW y, y = [x EXCEPT !.role = v]
  PROVE  Patch(x, y)
<1>1. DOMAIN x = Columns["membership"]
  BY DEF Typed
<1>2. DOMAIN y = DOMAIN x /\ Fun(y)
  BY DEF Fun
<1>3. \A col \in DOMAIN x \ {"role"} : y[col] = x[col]
  OBVIOUS
<1>4. y["role"] = v /\ y.kind = x.kind
  BY <1>1, ColumnsAre, AccessColumnsAre
<1>5. \A col \in {"role"} : Takes(x.kind, col, y[col])
  <2>1. Takes(x.kind, "role", y["role"])
    BY <1>4, ColumnsAre DEF Takes
  <2> QED
    BY <2>1
<1> QED
  BY <1>2, <1>3, <1>4, <1>5 DEF Patch

LEMMA RoleNamed ==
  ASSUME NEW x, Typed(x), x.kind = "role", NEW v,
         NEW y, y = [x EXCEPT !.name = v]
  PROVE  Patch(x, y)
<1>1. DOMAIN x = Columns["role"]
  BY DEF Typed
<1>2. DOMAIN y = DOMAIN x /\ Fun(y)
  BY DEF Fun
<1>3. \A col \in DOMAIN x \ {"name"} : y[col] = x[col]
  OBVIOUS
<1>4. y["name"] = v /\ y.kind = x.kind
  BY <1>1, ColumnsAre, AccessColumnsAre
<1>5. \A col \in {"name"} : Takes(x.kind, col, y[col])
  <2>1. Takes(x.kind, "name", y["name"])
    BY <1>4, ColumnsAre DEF Takes
  <2> QED
    BY <2>1
<1> QED
  BY <1>2, <1>3, <1>4, <1>5 DEF Patch

LEMMA ProductActive ==
  ASSUME NEW x, Typed(x), x.kind = "product", NEW v,
         NEW y, y = [x EXCEPT !.active = v]
  PROVE  Patch(x, y)
<1>1. DOMAIN x = Columns["product"]
  BY DEF Typed
<1>2. DOMAIN y = DOMAIN x /\ Fun(y)
  BY DEF Fun
<1>3. \A col \in DOMAIN x \ {"active"} : y[col] = x[col]
  OBVIOUS
<1>4. y["active"] = v /\ y.kind = x.kind
  BY <1>1, ColumnsAre, AccessColumnsAre
<1>5. \A col \in {"active"} : Takes(x.kind, col, y[col])
  <2>1. Takes(x.kind, "active", y["active"])
    BY <1>4, ColumnsAre DEF Takes
  <2> QED
    BY <2>1
<1> QED
  BY <1>2, <1>3, <1>4, <1>5 DEF Patch

LEMMA OrgNamed ==
  ASSUME NEW x, Typed(x), x.kind = "org", NEW v,
         NEW y, y = [x EXCEPT !.name = v]
  PROVE  Patch(x, y)
<1>1. DOMAIN x = Columns["org"]
  BY DEF Typed
<1>2. DOMAIN y = DOMAIN x /\ Fun(y)
  BY DEF Fun
<1>3. \A col \in DOMAIN x \ {"name"} : y[col] = x[col]
  OBVIOUS
<1>4. y["name"] = v /\ y.kind = x.kind
  BY <1>1, ColumnsAre, AccessColumnsAre
<1>5. \A col \in {"name"} : Takes(x.kind, col, y[col])
  <2>1. Takes(x.kind, "name", y["name"])
    BY <1>4, ColumnsAre DEF Takes
  <2> QED
    BY <2>1
<1> QED
  BY <1>2, <1>3, <1>4, <1>5 DEF Patch

LEMMA SessionOff ==
  ASSUME NEW x, Typed(x), x.kind = "session",
         NEW y, y = [x EXCEPT !.live = FALSE]
  PROVE  Patch(x, y)
<1>1. DOMAIN x = Columns["session"]
  BY DEF Typed
<1>2. DOMAIN y = DOMAIN x /\ Fun(y)
  BY DEF Fun
<1>3. \A col \in DOMAIN x \ {"live"} : y[col] = x[col]
  OBVIOUS
<1>4. y["live"] = FALSE /\ y.kind = x.kind
  BY <1>1, ColumnsAre, AccessColumnsAre
<1>5. \A col \in {"live"} : Takes(x.kind, col, y[col])
  <2>1. Takes(x.kind, "live", y["live"])
    BY <1>4, ColumnsAre DEF Takes
  <2> QED
    BY <2>1
<1> QED
  BY <1>2, <1>3, <1>4, <1>5 DEF Patch

LEMMA RefreshOff ==
  ASSUME NEW x, Typed(x), x.kind = "refresh",
         NEW y, y = [x EXCEPT !.live = FALSE]
  PROVE  Patch(x, y)
<1>1. DOMAIN x = Columns["refresh"]
  BY DEF Typed
<1>2. DOMAIN y = DOMAIN x /\ Fun(y)
  BY DEF Fun
<1>3. \A col \in DOMAIN x \ {"live"} : y[col] = x[col]
  OBVIOUS
<1>4. y["live"] = FALSE /\ y.kind = x.kind
  BY <1>1, ColumnsAre, AccessColumnsAre
<1>5. \A col \in {"live"} : Takes(x.kind, col, y[col])
  <2>1. Takes(x.kind, "live", y["live"])
    BY <1>4, ColumnsAre DEF Takes
  <2> QED
    BY <2>1
<1> QED
  BY <1>2, <1>3, <1>4, <1>5 DEF Patch

LEMMA LinkOff ==
  ASSUME NEW x, Typed(x), x.kind = "link",
         NEW y, y = [x EXCEPT !.unused = FALSE]
  PROVE  Patch(x, y)
<1>1. DOMAIN x = Columns["link"]
  BY DEF Typed
<1>2. DOMAIN y = DOMAIN x /\ Fun(y)
  BY DEF Fun
<1>3. \A col \in DOMAIN x \ {"unused"} : y[col] = x[col]
  OBVIOUS
<1>4. y["unused"] = FALSE /\ y.kind = x.kind
  BY <1>1, ColumnsAre, AccessColumnsAre
<1>5. \A col \in {"unused"} : Takes(x.kind, col, y[col])
  <2>1. Takes(x.kind, "unused", y["unused"])
    BY <1>4, ColumnsAre DEF Takes
  <2> QED
    BY <2>1
<1> QED
  BY <1>2, <1>3, <1>4, <1>5 DEF Patch

Fit(r, d) == Session(r, d, AccessKinds) /\ Careful(r, d)

(* A session that opens no session or token, uses no link and sets no      *)
(* password.                                                               *)
SecretsKept(d) ==
  \A u \in DOMAIN d \cap DOMAIN db :
    d[u].kind = "user" => d[u].set = db[u].set /\ d[u].password = db[u].password
NewPlain(d) ==
  \A i \in New(d) : d[i].kind \notin {"session", "refresh", "use"} /\ (d[i].kind = "user" => d[i].set = <<>>)
\* A careful session but for the administrators.
Plain(r, d) ==
  Session(r, d, AccessKinds) /\ NewPlain(d) /\ SecretsKept(d) /\ AdminStays(d) /\ NewApart(d)

\* A plain session sees to everything but the last administrator.
LEMMA PlainFits ==
  ASSUME Stored, NEW r, NEW d, Plain(r, d)
  PROVE  Fit(r, d)
<1>1. NewUses(d)
  BY DEF NewUses, Plain, NewPlain
<1>2. OneRefresh(db) => OneRefresh(d)
  BY OneRefreshStill DEF Plain, NewPlain
<1>3. Ousted(db) => Ousted(d)
  BY OustedStill DEF Plain, NewPlain, SecretsKept
<1>4. Secrets(r, d)
  BY SecretsStill DEF Plain, NewPlain, SecretsKept
<1> QED
  BY <1>1, <1>2, <1>3, <1>4 DEF Plain, Careful, Fit

LEMMA PlainBegins ==
  ASSUME Stored, NEW r
  PROVE  Plain(r, db)
<1>1. Session(r, db, AccessKinds) /\ New(db) = {}
  BY SessionBegins
<1> QED
  BY <1>1 DEF Plain, NewPlain, SecretsKept, AdminStays, Admins, Table, NewApart

LEMMA PlainInsertion ==
  ASSUME Stored, NEW r \in Requests, NEW d, Plain(r, d),
         NEW row, Typed(row), row.kind \in AccessKinds \ Single, row.kind = "user" => row.set = <<>>,
         NEW e, e = Inserted(d, r, row)
  PROVE  Plain(r, e)
<1>0. Session(r, d, AccessKinds) /\ row.kind \in AccessKinds
  BY DEF Plain
<1>a. PICK u : u = Fresh(d, r)
  OBVIOUS
<1>b. Session(r, e, AccessKinds)
  BY <1>0, Insertion
<1>c. u \notin DOMAIN d \cup DOMAIN db
  BY <1>0, <1>a, FreshIs
<1>d. e = Over(d, [i \in {u} |-> row])
  BY <1>a DEF Inserted
<1>1. /\ Session(r, e, AccessKinds)
      /\ u \notin DOMAIN d \cup DOMAIN db
      /\ DOMAIN e = DOMAIN d \cup {u} /\ New(e) = New(d) \cup {u}
      /\ e[u] = row /\ \A i \in DOMAIN d : e[i] = d[i]
  BY <1>b, <1>c, <1>d DEF Over, New
<1>2. \A j \in DOMAIN e \cap DOMAIN db : j \in DOMAIN d /\ e[j] = d[j]
  BY <1>1
<1>3. NewPlain(e)
  BY <1>1 DEF NewPlain, Plain, New, Single
<1>4. SecretsKept(e)
  BY <1>2 DEF SecretsKept, Plain
<1>5. AdminStays(e)
  BY <1>1 DEF AdminStays, Plain
<1>6. NewApart(e)
  <2> SUFFICES ASSUME NEW i \in New(e), NEW j \in DOMAIN e \cap DOMAIN db PROVE ~Rival(e[i], e[j])
    BY DEF NewApart
  <2>1. CASE i = u
    BY <1>1, <2>1 DEF Rival, Alike, Single
  <2>2. CASE i \in New(d)
    <3>1. e[i] = d[i] /\ e[j] = d[j] /\ j \in DOMAIN d
      BY <1>1, <1>2, <2>2 DEF New
    <3> QED
      BY <2>2, <3>1 DEF Plain, NewApart
  <2> QED
    BY <1>1, <2>1, <2>2
<1> QED
  BY <1>1, <1>3, <1>4, <1>5, <1>6 DEF Plain

LEMMA PlainInsertionsOf ==
  ASSUME Stored, NEW r \in Requests, NEW d, Plain(r, d),
         NEW S, IsFiniteSet(S),
         \A row \in S : Typed(row) /\ row.kind \in AccessKinds \ (Single \cup {"user"}),
         NEW e, e = InsertedAll(d, r, SetToSeq(S))
  PROVE  Plain(r, e)
<1>0. Session(r, d, AccessKinds) /\ \A row \in S : Typed(row) /\ row.kind \in AccessKinds
  BY DEF Plain
<1>1. /\ Session(r, e, AccessKinds)
      /\ DOMAIN d \subseteq DOMAIN e /\ \A i \in DOMAIN d : e[i] = d[i]
      /\ \A i \in DOMAIN e \ DOMAIN d : i[1] = r /\ i \notin DOMAIN db /\ e[i] \in S
  BY <1>0, InsertionsOf
<1>2. \A j \in DOMAIN e \cap DOMAIN db : j \in DOMAIN d /\ e[j] = d[j]
  BY <1>1
<1>3. \A i \in New(e) : (i \in New(d) /\ e[i] = d[i]) \/ e[i].kind \notin Single \cup {"user"}
  BY <1>1 DEF New
<1>4. NewPlain(e)
  BY <1>3 DEF NewPlain, Plain, Single
<1>5. SecretsKept(e)
  BY <1>2 DEF SecretsKept, Plain
<1>6. AdminStays(e)
  BY <1>1 DEF AdminStays, Plain
<1>7. NewApart(e)
  <2> SUFFICES ASSUME NEW i \in New(e), NEW j \in DOMAIN e \cap DOMAIN db PROVE ~Rival(e[i], e[j])
    BY DEF NewApart
  <2>1. CASE e[i].kind \notin Single \cup {"user"}
    BY <2>1 DEF Rival, Alike, Single
  <2>2. CASE i \in New(d) /\ e[i] = d[i]
    BY <1>2, <2>2 DEF Plain, NewApart
  <2> QED
    BY <1>3, <2>1, <2>2
<1> QED
  BY <1>1, <1>4, <1>5, <1>6, <1>7 DEF Plain

LEMMA PlainEdition ==
  ASSUME Stored, NEW r, NEW d, Plain(r, d), NEW i \in DOMAIN d, d[i].kind \in AccessKinds \ Single,
         NEW y, Patch(d[i], y), d[i].kind # "work",
         d[i].kind = "user" => y.set = d[i].set /\ y.password = d[i].password,
         NEW e, e = [d EXCEPT ![i] = y]
  PROVE  Plain(r, e)
<1>0. Session(r, d, AccessKinds)
  BY DEF Plain
<1>1. Typed(d[i])
  BY <1>0 DEF Session
<1>2. Typed(y) /\ y.kind = d[i].kind
  BY <1>1, TypedPatch DEF Patch
<1>3. Kept(d[i], y)
  BY <1>2 DEF Kept, Single
<1>4. /\ Session(r, e, AccessKinds) /\ DOMAIN e = DOMAIN d /\ New(e) = New(d)
      /\ e[i] = y /\ \A j \in DOMAIN d \ {i} : e[j] = d[j]
  <2>1. Session(r, e, AccessKinds)
    BY <1>0, <1>2, <1>3, EditionOne
  <2>2. DOMAIN e = DOMAIN d /\ e[i] = y /\ \A j \in DOMAIN d \ {i} : e[j] = d[j]
    OBVIOUS
  <2> QED
    BY <2>1, <2>2 DEF New
<1>5. \A j \in DOMAIN d : e[j].kind = d[j].kind /\ (d[j].kind \in Single => e[j] = d[j])
  BY <1>2, <1>4
<1>6. \A j \in DOMAIN d : d[j].kind = "user" => e[j].set = d[j].set /\ e[j].password = d[j].password
  BY <1>4
<1>7. NewPlain(e)
  BY <1>4, <1>5, <1>6 DEF NewPlain, Plain, New
<1>8. SecretsKept(e)
  BY <1>4, <1>5, <1>6 DEF SecretsKept, Plain
<1>9. AdminStays(e)
  BY <1>4 DEF AdminStays, Plain
<1>10. NewApart(e)
  <2> SUFFICES ASSUME NEW a \in New(e), NEW b \in DOMAIN e \cap DOMAIN db, Rival(e[a], e[b]) PROVE FALSE
    BY DEF NewApart
  <2>1. e[a].kind \in Single /\ e[b].kind \in Single
    BY DEF Rival, Alike, Single
  <2>2. a \in New(d) /\ b \in DOMAIN d \cap DOMAIN db /\ e[a] = d[a] /\ e[b] = d[b]
    BY <1>4, <1>5, <2>1 DEF New
  <2> QED
    BY <2>2 DEF Plain, NewApart
<1> QED
  BY <1>4, <1>7, <1>8, <1>9, <1>10 DEF Plain

LEMMA PlainDeletion ==
  ASSUME NEW r, NEW d, Plain(r, d), NEW gone,
         \A i \in gone \cap DOMAIN d : i \in DOMAIN db /\ d[i].kind \in AccessKinds \ {"work"},
         NEW e, e = Without(d, gone), AdminStays(e)
  PROVE  Plain(r, e)
<1>0. Session(r, d, AccessKinds)
  BY DEF Plain
<1>1. Session(r, e, AccessKinds) /\ DOMAIN e = DOMAIN d \ gone /\ New(e) = New(d) /\ \A i \in DOMAIN e : e[i] = d[i]
  <2>1. Session(r, e, AccessKinds)
    BY <1>0, Deletion
  <2>2. DOMAIN e = DOMAIN d \ gone /\ \A i \in DOMAIN e : e[i] = d[i]
    BY DEF Without
  <2>3. New(e) = New(d)
    BY <2>2 DEF New
  <2> QED
    BY <2>1, <2>2, <2>3
<1>2. NewPlain(e) /\ SecretsKept(e)
  BY <1>1 DEF NewPlain, SecretsKept, Plain, New
<1>3. NewApart(e)
  BY <1>1 DEF NewApart, Plain, New
<1> QED
  BY <1>1, <1>2, <1>3 DEF Plain

(* Without memberships and users. *)
LEMMA AdminsStayPut ==
  ASSUME NEW gone, \A i \in gone \cap DOMAIN db : db[i].kind # "membership"
  PROVE  AdminStays(Without(db, gone))
  BY DEF AdminStays, Admins, Table, Without

(* The steps that come out of it. *)
LEMMA OpensAdvances ==
  ASSUME NEW r, NEW d, Fit(r, d), NEW then, Follows(r, then), NEW else, Follows(r, else),
         Opens(r, d, then, else)
  PROVE  Advances(r)
<1>1. AccessKinds \cap FileKinds = {} /\ AccessKinds \subseteq Kinds
  BY DEF AccessKinds, FileKinds, Kinds
<1>2. Session(r, d, Kinds) /\ Aloof(d) /\ Careful(r, d)
  BY <1>1, OthersAloof, SessionWidens, Zenon DEF Fit
<1> QED
  BY <1>2, Zenon DEF Advances, Fit

LEMMA OnAdvances ==
  ASSUME NEW r, NEW t, Follows(r, t), GoesOn(r, t)
  PROVE  Advances(r)
  BY Zenon DEF Advances

LEMMA RestAdvances ==
  ASSUME NEW r, Begun(r), GoesOn(r, Rest(r)) \/ GoesOn(r, <<>>)
  PROVE  Advances(r)
<1>1. Follows(r, Rest(r)) /\ Follows(r, <<>>)
  BY RestFollows, Zenon DEF Begun
<1> QED
  BY <1>1, Zenon DEF Advances

\* As TriesProceeds, for requests on users.
LEMMA TriesAdvances ==
  ASSUME NEW r, Begun(r), NEW accepted, NEW d, accepted => Fit(r, d), Tries(r, accepted, d)
  PROVE  Advances(r)
<1>1. Follows(r, Rest(r)) /\ Follows(r, <<>>)
  BY RestFollows, Zenon DEF Begun
<1>2. CASE accepted
  <2>1. Opens(r, d, Rest(r), <<>>)
    BY <1>2 DEF Tries
  <2> QED
    BY <1>1, <1>2, <2>1, OpensAdvances, Zenon
<1>3. CASE ~accepted
  <2>1. GoesOn(r, <<>>)
    BY <1>3 DEF Tries
  <2> QED
    BY <1>1, <2>1, OnAdvances, Zenon
<1> QED
  BY <1>2, <1>3

\* What a filter finds.
LEMMA RowsAre ==
  ASSUME NEW d, NEW like, "kind" \in DOMAIN like
  PROVE  \A i \in Rows(d, like) : i \in DOMAIN d /\ d[i].kind = like.kind
  BY DEF Rows

LEMMA OfAre ==
  ASSUME NEW d, NEW kind, NEW u
  PROVE  \A i \in Of(d, kind, u) : i \in DOMAIN d /\ d[i].kind = kind /\ d[i].user = u
<1>1. PICK like : like = [kind |-> kind, user |-> u]
  OBVIOUS
<1>2. DOMAIN like = {"kind", "user"} /\ like.kind = kind /\ like.user = u
  BY <1>1
<1>3. Of(d, kind, u) = Rows(d, like)
  BY <1>1 DEF Of
<1>4. \A i \in Rows(d, like) : i \in DOMAIN d /\ d[i]["kind"] = like["kind"] /\ d[i]["user"] = like["user"]
  BY <1>2 DEF Rows
<1> QED
  BY <1>2, <1>3, <1>4

\* Every row that names a user is found by it.
LEMMA OfAll ==
  ASSUME NEW d, NEW kind, NEW u, NEW i \in DOMAIN d, Typed(d[i]), d[i].kind = kind,
         "user" \in Columns[kind], d[i].user = u
  PROVE  i \in Of(d, kind, u)
<1>1. {"kind", "user"} \subseteq DOMAIN d[i]
  BY DEF Typed, Columns
<1> QED
  BY <1>1 DEF Of, Rows

\* The kinds, one by one.
LEMMA KindsAre ==
  /\ \A kind \in AccessKinds : kind \in AccessKinds \ {"work"}
  /\ AccessKinds = {"user", "session", "refresh", "link", "use", "membership", "role", "may", "assignment",
                    "entitlement", "product", "org"}
  BY DEF AccessKinds

LEMMA Owned ==
  ASSUME Stored, NEW i \in DOMAIN db
  PROVE  /\ db[i].kind \in {"session", "refresh", "link", "membership", "assignment"} => db[i].user \in Table(db, "user")
         /\ db[i].kind = "refresh" => db[i].session \in Table(db, "session")
         /\ db[i].kind = "membership" => db[i].role \in Table(db, "role")
         /\ db[i].kind = "may" => db[i].role \in Table(db, "role")
<1>1. db[i].kind \in DOMAIN Refers => \A c \in Refers[db[i].kind] : db[i][c] \in Table(db, c)
  BY DEF Stored, SoundAll, SoundAccess
<1> QED
  BY <1>1 DEF Refers

LEMMA MemberIs ==
  ASSUME Stored, NEW u, RolesOf(db, u) # {}
  PROVE  u \in Table(db, "user") /\ Of(db, "membership", u) # {}
<1>1. PICK m \in Of(db, "membership", u) : TRUE
  BY DEF RolesOf
<1>2. m \in DOMAIN db /\ db[m].kind = "membership" /\ db[m].user = u
  BY OfAre
<1>3. db[m].user \in Table(db, "user")
  BY <1>2, Owned
<1> QED
  BY <1>1, <1>2, <1>3

(* A user whom no one's password changes. *)
LEMMA UserEdition ==
  ASSUME NEW r, Begun(r), NEW u \in Table(db, "user"), NEW y, Patch(db[u], y),
         y.set = db[u].set, y.password = db[u].password, NEW d, d = [db EXCEPT ![u] = y]
  PROVE  Plain(r, d)
<1>1. Stored /\ Plain(r, db)
  BY PlainBegins DEF Begun
<1>2. u \in DOMAIN db /\ db[u].kind = "user" /\ db[u].kind \in AccessKinds \ Single /\ db[u].kind # "work"
  BY KindsAre DEF Table, Single
<1> QED
  BY <1>1, <1>2, PlainEdition

LEMMA UserStatusPlain ==
  ASSUME NEW r, Begun(r), NEW u \in Table(db, "user"), NEW v \in Statuses.user,
         NEW d, d = [db EXCEPT ![u].status = v]
  PROVE  Plain(r, d)
<1>1. u \in DOMAIN db /\ db[u].kind = "user" /\ Typed(db[u])
  BY DEF Table, Begun, Stored
<1>2. PICK y : y = [db[u] EXCEPT !.status = v]
  OBVIOUS
<1>3. Patch(db[u], y)
  BY <1>1, <1>2, UserStatus, Zenon
<1>4. y.set = db[u].set /\ y.password = db[u].password
  BY <1>2
<1>5. d = [db EXCEPT ![u] = y]
  BY <1>1, <1>2
<1> QED
  BY <1>3, <1>4, <1>5, UserEdition

\* The handlers of PayFlow users and roles, one by one.
LEMMA DeactivateUserAdvances ==
  ASSUME NEW r, Begun(r), DeactivateUser(r)
  PROVE  Advances(r)
<1>1. PICK u : u = Op(r).id
  OBVIOUS
<1>2. PICK d : d = [db EXCEPT ![u].status = "disabled"]
  OBVIOUS
<1>3. PICK accepted : (accepted => RolesOf(db, u) # {}) /\ Tries(r, accepted, d)
  BY <1>1, <1>2 DEF DeactivateUser, MayManage
<1>4. ASSUME accepted PROVE Fit(r, d)
  <2>1. u \in Table(db, "user") /\ "disabled" \in Statuses.user /\ Stored
    BY <1>3, <1>4, MemberIs, ColumnsAre DEF Begun
  <2>2. Plain(r, d)
    BY <1>2, <2>1, UserStatusPlain
  <2> QED
    BY <2>1, <2>2, PlainFits
<1> QED
  BY <1>3, <1>4, TriesAdvances, Zenon

LEMMA InvitingFollows ==
  ASSUME NEW r, Begun(r), NEW u
  PROVE  Follows(r, Inviting(u) \o Rest(r))
<1>1. PICK o : o = [do |-> "invite", id |-> u]
  OBVIOUS
<1>2. Errand(r, o)
  <2>1. DOMAIN o = {"do", "id"} /\ o.do = "invite"
    BY <1>1
  <2> QED
    BY <2>1 DEF Errand, Asked, HasAccounts, Setting, Continued, Background
<1> QED
  BY <1>1, <1>2, ErrandThenRest DEF Inviting

LEMMA ReactivateUserAdvances ==
  ASSUME NEW r, Begun(r), ReactivateUser(r)
  PROVE  Advances(r)
<1>1. PICK u : u = Op(r).id
  OBVIOUS
<1>2. PICK d : d = [db EXCEPT ![u].status = "active"]
  OBVIOUS
<1>3. PICK e : e = [db EXCEPT ![u].status = "invited"]
  OBVIOUS
<1>4. \/ GoesOn(r, <<>>)
      \/ RolesOf(db, u) # {} /\ Opens(r, d, Rest(r), <<>>)
      \/ RolesOf(db, u) # {} /\ Opens(r, e, Inviting(u) \o Rest(r), <<>>)
  BY <1>1, <1>2, <1>3 DEF ReactivateUser, MayManage
<1>5. ASSUME RolesOf(db, u) # {} PROVE Fit(r, d) /\ Fit(r, e)
  <2>1. u \in Table(db, "user") /\ "active" \in Statuses.user /\ "invited" \in Statuses.user /\ Stored
    BY <1>5, MemberIs, ColumnsAre DEF Begun
  <2>2. Plain(r, d)
    BY <1>2, <2>1, UserStatusPlain
  <2>3. Plain(r, e)
    BY <1>3, <2>1, UserStatusPlain
  <2> QED
    BY <2>1, <2>2, <2>3, PlainFits
<1>6. Follows(r, Rest(r)) /\ Follows(r, <<>>) /\ Follows(r, Inviting(u) \o Rest(r))
  BY RestFollows, InvitingFollows DEF Begun
<1>7. CASE GoesOn(r, <<>>)
  BY <1>7, RestAdvances
<1>8. CASE RolesOf(db, u) # {} /\ Opens(r, d, Rest(r), <<>>)
  BY <1>5, <1>6, <1>8, OpensAdvances, Zenon
<1>9. CASE RolesOf(db, u) # {} /\ Opens(r, e, Inviting(u) \o Rest(r), <<>>)
  BY <1>5, <1>6, <1>9, OpensAdvances, Zenon
<1> QED
  BY <1>4, <1>7, <1>8, <1>9

LEMMA AssignedPlain ==
  ASSUME Stored, NEW r \in Requests, NEW d, Plain(r, d), NEW u, NEW p
  PROVE  Plain(r, Assigned(d, r, u, p))
<1>1. PICK row : row = [kind |-> "assignment", user |-> u, product |-> p]
  OBVIOUS
<1>2. Typed(row)
  BY <1>1, TypedAccessRows, Zenon
<1>3. row.kind \in AccessKinds \ Single /\ row.kind # "user"
  BY <1>1, KindsAre DEF Single
<1>4. Plain(r, Inserted(d, r, row))
  BY <1>2, <1>3, PlainInsertion
<1> QED
  BY <1>1, <1>4 DEF Assigned

LEMMA MemberPlain ==
  ASSUME Stored, NEW r \in Requests, NEW d, Plain(r, d), NEW u, NEW p,
         NEW row, row = [kind |-> "membership", user |-> u, role |-> p]
  PROVE  Plain(r, Inserted(d, r, row))
<1>2. Typed(row)
  BY TypedAccessRows, Zenon
<1>3. row.kind \in AccessKinds \ Single /\ row.kind # "user"
  BY KindsAre DEF Single
<1> QED
  BY <1>2, <1>3, PlainInsertion

LEMMA UserPlain ==
  ASSUME NEW r, Begun(r), NEW email, NEW org, NEW status \in Statuses.user
  PROVE  Plain(r, Inserted(db, r, User(email, org, status)))
<1>1. PICK row : row = User(email, org, status)
  OBVIOUS
<1>2. Typed(row)
  BY <1>1, TypedAccessRows, Zenon
<1>3. row.kind \in AccessKinds \ Single /\ row.set = <<>>
  BY <1>1, KindsAre DEF Single, User
<1>4. Stored /\ Plain(r, db) /\ r \in Requests
  BY PlainBegins DEF Begun
<1>5. Plain(r, Inserted(db, r, row))
  BY <1>2, <1>3, <1>4, PlainInsertion
<1> QED
  BY <1>1, <1>5

LEMMA CreateUserAdvances ==
  ASSUME NEW r, Begun(r), CreateUser(r)
  PROVE  Advances(r)
<1>1. PICK o, u : o = Op(r) /\ u = Fresh(db, r)
  OBVIOUS
<1>2. PICK org : org = db[db[o.by].user].org
  OBVIOUS
<1>3. PICK a : a = Inserted(db, r, User(o.email, org, o.status))
  OBVIOUS
<1>4. PICK b : b = Assigned(a, r, u, Payflow(db))
  OBVIOUS
<1>5. PICK row : row = [kind |-> "membership", user |-> u, role |-> o.role]
  OBVIOUS
<1>6. PICK d : d = Inserted(b, r, row)
  OBVIOUS
<1>7. PICK then : then = (IF o.status = "invited" THEN Inviting(u) ELSE <<>>) \o Rest(r)
  OBVIOUS
<1>8. GoesOn(r, <<>>) \/ Opens(r, d, then, <<>>)
  BY <1>1, <1>2, <1>3, <1>4, <1>5, <1>6, <1>7 DEF CreateUser
<1>9. Asked(o) /\ o.do = "create user" /\ Follows(r, Rest(r)) /\ Follows(r, <<>>)
  BY <1>1, RestFollows DEF Begun, CreateUser, Next1, Op
<1>10. Fit(r, d)
  <2>1. o.status \in Statuses.user
    BY <1>9 DEF Asked
  <2>2. Plain(r, a) /\ Stored /\ r \in Requests
    BY <1>3, <2>1, UserPlain DEF Begun
  <2>3. Plain(r, b)
    BY <1>4, <2>2, AssignedPlain
  <2>4. Plain(r, d)
    BY <1>5, <1>6, <2>2, <2>3, MemberPlain
  <2> QED
    BY <2>2, <2>4, PlainFits
<1>11. Follows(r, then)
  <2>1. CASE o.status = "invited"
    BY <1>7, <2>1, InvitingFollows
  <2>2. CASE o.status # "invited"
    <3>1. Rest(r) \in Seq({Rest(r)[n] : n \in 1 .. Len(Rest(r))})
      BY <1>9, ProgramIsSeq DEF Follows
    <3>2. PICK t : t = Rest(r)
      OBVIOUS
    <3>3. PICK S : S = {t[n] : n \in 1 .. Len(t)}
      OBVIOUS
    <3>4. t \in Seq(S)
      BY <3>1, <3>2, <3>3
    <3>5. <<>> \o t = t
      BY <3>4
    <3> QED
      BY <1>7, <1>9, <2>2, <3>2, <3>5
  <2> QED
    BY <2>1, <2>2
<1>12. CASE GoesOn(r, <<>>)
  BY <1>12, RestAdvances
<1>13. CASE Opens(r, d, then, <<>>)
  BY <1>9, <1>10, <1>11, <1>13, OpensAdvances, Zenon
<1> QED
  BY <1>8, <1>12, <1>13

LEMMA ChangeRoleAdvances ==
  ASSUME NEW r, Begun(r), ChangeRole(r)
  PROVE  Advances(r)
<1>1. PICK o, u : o = Op(r) /\ u = o.id
  OBVIOUS
<1>2. PICK m : m = First(Of(db, "membership", u))
  OBVIOUS
<1>3. PICK y : y = [db[m] EXCEPT !.role = o.role]
  OBVIOUS
<1>4. PICK d : d = [db EXCEPT ![m] = y]
  OBVIOUS
<1>5. PICK accepted : (accepted => RolesOf(db, u) # {}) /\ Tries(r, accepted, [db EXCEPT ![m].role = o.role])
  BY <1>1, <1>2 DEF ChangeRole, MayManage
<1>6. d = [db EXCEPT ![m].role = o.role]
  BY <1>3, <1>4
<1>7. ASSUME accepted PROVE Fit(r, d)
  <2>1. Of(db, "membership", u) # {} /\ Stored /\ Plain(r, db)
    BY <1>5, <1>7, MemberIs, PlainBegins DEF Begun
  <2>2. m \in Of(db, "membership", u)
    BY <1>2, <2>1, FirstOf
  <2>3. m \in DOMAIN db /\ db[m].kind = "membership" /\ Typed(db[m])
    BY <2>1, <2>2, OfAre DEF Stored
  <2>4. Patch(db[m], y)
    BY <1>3, <2>3, MemberRole, Zenon
  <2>5. db[m].kind \in AccessKinds \ Single /\ db[m].kind # "work" /\ db[m].kind # "user"
    BY <2>3, KindsAre DEF Single
  <2>6. Plain(r, d)
    BY <1>4, <2>1, <2>3, <2>4, <2>5, PlainEdition
  <2> QED
    BY <2>1, <2>6, PlainFits
<1> QED
  BY <1>5, <1>6, <1>7, TriesAdvances, Zenon

\* A deletion that takes the rows that refer to what it deletes.
LEMMA DeletionFits ==
  ASSUME NEW r, Begun(r), NEW gone, \A i \in gone \cap DOMAIN db : db[i].kind \in AccessKinds,
         AdminStays(Without(db, gone))
  PROVE  Fit(r, Without(db, gone))
<1>1. Stored /\ Plain(r, db)
  BY PlainBegins DEF Begun
<1>2. \A i \in gone \cap DOMAIN db : i \in DOMAIN db /\ db[i].kind \in AccessKinds \ {"work"}
  BY KindsAre
<1>3. Plain(r, Without(db, gone))
  BY <1>1, <1>2, PlainDeletion
<1> QED
  BY <1>1, <1>3, PlainFits

LEMMA DeleteUserAdvances ==
  ASSUME NEW r, Begun(r), DeleteUser(r)
  PROVE  Advances(r)
<1>1. PICK u : u = Op(r).id
  OBVIOUS
<1>2. PICK gone : gone = {u} \cup UNION {Of(db, kind, u) : kind \in {"link", "refresh", "session", "assignment", "membership"}}
  OBVIOUS
<1>3. PICK d : d = Without(db, gone)
  OBVIOUS
<1>4. PICK accepted : /\ accepted => (RolesOf(db, u) # {} \/ u \in Table(db, "user")) /\ ~LastAdmin(db, u)
                      /\ Tries(r, accepted, d)
  BY <1>1, <1>2, <1>3 DEF DeleteUser, MayManage, Purge
<1>5. ASSUME accepted PROVE Fit(r, d)
  <2>1. u \in Table(db, "user") /\ Stored
    BY <1>4, <1>5, MemberIs DEF Begun
  <2>2. \A i \in gone \cap DOMAIN db :
          \/ i = u
          \/ \E kind \in {"link", "refresh", "session", "assignment", "membership"} : i \in Of(db, kind, u)
    BY <1>2
  <2>3. \A i \in gone \cap DOMAIN db : db[i].kind \in AccessKinds
    BY <2>1, <2>2, OfAre DEF AccessKinds, Table
  <2>4. AdminStays(d)
    <3> SUFFICES ASSUME Admins(db) # {} PROVE \E m \in Admins(db) : m \in DOMAIN d
      BY DEF AdminStays
    <3>1. PICK m \in Admins(db) : m \notin Of(db, "membership", u)
      BY <1>4, <1>5 DEF LastAdmin
    <3>2. m \in DOMAIN db /\ db[m].kind = "membership"
      BY DEF Admins, Table
    <3>3. m \notin gone
      BY <2>1, <2>2, <3>1, <3>2, OfAre DEF Table
    <3> QED
      BY <1>3, <3>2, <3>3 DEF Without
  <2> QED
    BY <1>3, <2>3, <2>4, DeletionFits
<1> QED
  BY <1>4, <1>5, TriesAdvances, Zenon

LEMMA DeleteRoleAdvances ==
  ASSUME NEW r, Begun(r), DeleteRole(r)
  PROVE  Advances(r)
<1>1. PICK role : role = Op(r).id
  OBVIOUS
<1>2. PICK like : like = [kind |-> "may", role |-> role]
  OBVIOUS
<1>3. PICK gone : gone = {role} \cup Rows(db, like)
  OBVIOUS
<1>4. PICK d : d = Without(db, gone)
  OBVIOUS
<1>5. PICK accepted : (accepted => role \in Table(db, "role")) /\ Tries(r, accepted, d)
  BY <1>1, <1>2, <1>3, <1>4 DEF DeleteRole
<1>6. ASSUME accepted PROVE Fit(r, d)
  <2>1. like.kind = "may" /\ "kind" \in DOMAIN like
    BY <1>2
  <2>2. \A i \in Rows(db, like) : i \in DOMAIN db /\ db[i].kind = "may"
    BY <2>1, RowsAre
  <2>3. \A i \in gone \cap DOMAIN db : db[i].kind \in {"role", "may"}
    BY <1>3, <1>5, <1>6, <2>2 DEF Table
  <2>4. \A i \in gone \cap DOMAIN db : db[i].kind \in AccessKinds /\ db[i].kind # "membership"
    BY <2>3 DEF AccessKinds
  <2>5. AdminStays(d)
    BY <1>4, <2>4, AdminsStayPut
  <2> QED
    BY <1>4, <2>4, <2>5, DeletionFits
<1> QED
  BY <1>5, <1>6, TriesAdvances, Zenon

LEMMA DeleteProductAdvances ==
  ASSUME NEW r, Begun(r), DeleteProduct(r)
  PROVE  Advances(r)
<1>1. PICK p : p = Op(r).id
  OBVIOUS
<1>2. PICK k, l : k = [kind |-> "entitlement", product |-> p] /\ l = [kind |-> "assignment", product |-> p]
  OBVIOUS
<1>3. PICK gone : gone = {p} \cup Rows(db, k) \cup Rows(db, l)
  OBVIOUS
<1>4. PICK d : d = Without(db, gone)
  OBVIOUS
<1>5. PICK accepted : (accepted => p \in Table(db, "product")) /\ Tries(r, accepted, d)
  BY <1>1, <1>2, <1>3, <1>4 DEF DeleteProduct
<1>6. ASSUME accepted PROVE Fit(r, d)
  <2>1. k.kind = "entitlement" /\ "kind" \in DOMAIN k /\ l.kind = "assignment" /\ "kind" \in DOMAIN l
    BY <1>2
  <2>2. (\A i \in Rows(db, k) : db[i].kind = "entitlement") /\ (\A i \in Rows(db, l) : db[i].kind = "assignment")
    BY <2>1, RowsAre
  <2>3. \A i \in gone \cap DOMAIN db : db[i].kind \in {"product", "entitlement", "assignment"}
    BY <1>3, <1>5, <1>6, <2>2 DEF Table
  <2>4. \A i \in gone \cap DOMAIN db : db[i].kind \in AccessKinds /\ db[i].kind # "membership"
    BY <2>3 DEF AccessKinds
  <2>5. AdminStays(d)
    BY <1>4, <2>4, AdminsStayPut
  <2> QED
    BY <1>4, <2>4, <2>5, DeletionFits
<1> QED
  BY <1>5, <1>6, TriesAdvances, Zenon

LEMMA RemoveProductAdvances ==
  ASSUME NEW r, Begun(r), RemoveProduct(r)
  PROVE  Advances(r)
<1>1. PICK o : o = Op(r)
  OBVIOUS
<1>2. PICK l : l = [kind |-> "assignment", user |-> o.id, product |-> o.product]
  OBVIOUS
<1>3. PICK d : d = Without(db, Rows(db, l))
  OBVIOUS
<1>4. PICK accepted : Tries(r, accepted, d)
  BY <1>1, <1>2, <1>3 DEF RemoveProduct
<1>5. Fit(r, d)
  <2>1. l.kind = "assignment" /\ "kind" \in DOMAIN l
    BY <1>2
  <2>2. \A i \in Rows(db, l) : db[i].kind = "assignment"
    BY <2>1, RowsAre
  <2>3. \A i \in Rows(db, l) \cap DOMAIN db : db[i].kind \in AccessKinds /\ db[i].kind # "membership"
    BY <2>2 DEF AccessKinds
  <2>4. AdminStays(d)
    BY <1>3, <2>3, AdminsStayPut
  <2> QED
    BY <1>3, <2>3, <2>4, DeletionFits
<1> QED
  BY <1>4, <1>5, TriesAdvances, Zenon

\* A role is given permissions it has none of.
LEMMA PermittedPlain ==
  ASSUME Stored, NEW r \in Requests, NEW d, Plain(r, d), NEW role, NEW permissions, IsFiniteSet(permissions),
         \A j \in DOMAIN d \cap DOMAIN db : d[j].kind = "may" => d[j].role # role
  PROVE  Plain(r, Permitted(d, r, role, permissions))
<1> DEFINE f == [p \in permissions |-> [kind |-> "may", role |-> role, permission |-> p]]
           T == {[kind |-> "may", role |-> role, permission |-> p] : p \in permissions}
<1>1. IsFiniteSet({f[p] : p \in permissions})
  <2> HIDE DEF f
  <2> QED
    BY FiniteImage, Zenon
<1>2. \A row \in T : Typed(row)
  BY TypedAccessRows, Zenon
<1>3. T = {f[p] : p \in permissions} /\ \A row \in T : row.kind = "may" /\ row.role = role
  OBVIOUS
<1>4. PICK S : S = T
  <2> HIDE DEF T
  <2> QED
    OBVIOUS
<1>5. IsFiniteSet(S) /\ \A row \in S : Typed(row) /\ row.kind \in AccessKinds
  BY <1>1, <1>2, <1>3, <1>4, KindsAre
<1>6. PICK e : e = InsertedAll(d, r, SetToSeq(S))
  OBVIOUS
<1>0. Session(r, d, AccessKinds)
  BY DEF Plain
<1>7. /\ Session(r, e, AccessKinds)
      /\ DOMAIN d \subseteq DOMAIN e /\ \A i \in DOMAIN d : e[i] = d[i]
      /\ \A i \in DOMAIN e \ DOMAIN d : i[1] = r /\ i \notin DOMAIN db /\ e[i] \in S
  BY <1>0, <1>5, <1>6, InsertionsOf
<1>8. \A row \in S : row.kind = "may" /\ row.role = role
  BY <1>3, <1>4
<1>9. \A j \in DOMAIN e \cap DOMAIN db : j \in DOMAIN d /\ e[j] = d[j]
  BY <1>7
<1>10. \A i \in New(e) : (i \in New(d) /\ e[i] = d[i]) \/ (e[i].kind = "may" /\ e[i].role = role)
  BY <1>7, <1>8 DEF New
<1>11. NewPlain(e)
  BY <1>10 DEF NewPlain, Plain
<1>12. SecretsKept(e)
  BY <1>9 DEF SecretsKept, Plain
<1>13. AdminStays(e)
  BY <1>7 DEF AdminStays, Plain
<1>14. NewApart(e)
  <2> SUFFICES ASSUME NEW i \in New(e), NEW j \in DOMAIN e \cap DOMAIN db PROVE ~Rival(e[i], e[j])
    BY DEF NewApart
  <2>1. CASE i \in New(d) /\ e[i] = d[i]
    BY <1>9, <2>1 DEF Plain, NewApart
  <2>2. CASE e[i].kind = "may" /\ e[i].role = role
    <3>1. e[j] = d[j] /\ j \in DOMAIN d \cap DOMAIN db
      BY <1>9
    <3> QED
      BY <2>2, <3>1 DEF Rival, Alike
  <2> QED
    BY <1>10, <2>1, <2>2
<1>15. Plain(r, e)
  BY <1>7, <1>11, <1>12, <1>13, <1>14 DEF Plain
<1> QED
  BY <1>4, <1>6, <1>15 DEF Permitted

LEMMA CreateRoleAdvances ==
  ASSUME NEW r, Begun(r), CreateRole(r)
  PROVE  Advances(r)
<1>1. PICK o, role : o = Op(r) /\ role = Fresh(db, r)
  OBVIOUS
<1>2. PICK code : code = SlugRoleCode(db, o.name)
  OBVIOUS
<1>3. PICK row : row = [kind |-> "role", name |-> o.name, code |-> code, wide |-> o.wide, builtin |-> FALSE]
  OBVIOUS
<1>4. PICK e : e = Inserted(db, r, row)
  OBVIOUS
<1>5. PICK d : d = Permitted(e, r, role, o.permissions)
  OBVIOUS
<1>6. PICK accepted : Tries(r, accepted, d)
  BY <1>1, <1>2, <1>3, <1>4, <1>5 DEF CreateRole
<1>7. Fit(r, d)
  <2>1. Asked(o) /\ o.do = "create role"
    BY <1>1, RestFollows DEF Begun, CreateRole, Next1, Op
  <2>2. IsFiniteSet(o.permissions)
    BY <2>1 DEF Asked
  <2>3. Stored /\ Plain(r, db) /\ r \in Requests
    BY PlainBegins DEF Begun
  <2>4. Typed(row)
    BY <1>3, TypedAccessRows, Zenon
  <2>5. row.kind \in AccessKinds \ Single /\ row.kind # "user"
    BY <1>3, KindsAre DEF Single
  <2>6. Plain(r, e)
    BY <1>4, <2>3, <2>4, <2>5, PlainInsertion
  <2>7. Session(r, db, AccessKinds)
    BY <2>3 DEF Plain
  <2>8. role \notin DOMAIN db
    BY <1>1, <2>3, <2>7, FreshIs
  <2>9. \A j \in DOMAIN e \cap DOMAIN db : e[j] = db[j]
    BY <1>4 DEF Inserted, Over
  <2>10. \A j \in DOMAIN e \cap DOMAIN db : e[j].kind = "may" => e[j].role # role
    BY <2>3, <2>8, <2>9, Owned DEF Table
  <2>11. Plain(r, d)
    BY <1>5, <2>2, <2>3, <2>6, <2>10, PermittedPlain
  <2> QED
    BY <2>3, <2>11, PlainFits
<1> QED
  BY <1>6, <1>7, TriesAdvances, Zenon

LEMMA UpdateRoleAdvances ==
  ASSUME NEW r, Begun(r), UpdateRole(r)
  PROVE  Advances(r)
<1>1. PICK o, role : o = Op(r) /\ role = o.id
  OBVIOUS
<1>2. PICK like : like = [kind |-> "may", role |-> role]
  OBVIOUS
<1>3. PICK e : e = Without(db, Rows(db, like))
  OBVIOUS
<1>4. PICK f : f = Permitted(e, r, role, o.permissions)
  OBVIOUS
<1>5. PICK y : y = [f[role] EXCEPT !.name = o.name]
  OBVIOUS
<1>6. PICK d : d = [f EXCEPT ![role] = y]
  OBVIOUS
<1>7. PICK accepted : (accepted => role \in Table(db, "role")) /\ Tries(r, accepted, [f EXCEPT ![role].name = o.name])
  BY <1>1, <1>2, <1>3, <1>4 DEF UpdateRole
<1>8. d = [f EXCEPT ![role].name = o.name]
  BY <1>5, <1>6
<1>9. ASSUME accepted PROVE Fit(r, d)
  <2>1. Asked(o) /\ o.do = "update role"
    BY <1>1, RestFollows DEF Begun, UpdateRole, Next1, Op
  <2>2. IsFiniteSet(o.permissions)
    BY <2>1 DEF Asked
  <2>3. Stored /\ Plain(r, db) /\ r \in Requests
    BY PlainBegins DEF Begun
  <2>4. like.kind = "may" /\ like.role = role /\ DOMAIN like = {"kind", "role"}
    BY <1>2
  <2>5. \A i \in Rows(db, like) : db[i].kind = "may"
    BY <2>4, RowsAre
  <2>6. AdminStays(e)
    BY <1>3, <2>5, AdminsStayPut
  <2>7. Plain(r, e)
    <3>1. \A i \in Rows(db, like) \cap DOMAIN db : i \in DOMAIN db /\ db[i].kind \in AccessKinds \ {"work"}
      BY <2>5, KindsAre
    <3> QED
      BY <1>3, <2>3, <2>6, <3>1, PlainDeletion
  <2>8. ASSUME NEW j \in DOMAIN e \cap DOMAIN db, e[j].kind = "may" PROVE e[j].role # role
    <3>1. e[j] = db[j] /\ j \notin Rows(db, like) /\ Typed(db[j])
      BY <1>3, <2>3 DEF Without, Stored
    <3>2. {"kind", "role"} \subseteq DOMAIN db[j]
      BY <2>8, <3>1, AccessColumnsAre DEF Typed
    <3>3. ~(\A c \in DOMAIN like : c \in DOMAIN db[j] /\ db[j][c] = like[c])
      BY <3>1 DEF Rows
    <3> QED
      BY <2>4, <2>8, <3>1, <3>2, <3>3
  <2>9. Plain(r, f)
    BY <1>4, <2>2, <2>3, <2>7, <2>8, PermittedPlain
  <2>10. role \in DOMAIN db /\ db[role].kind = "role" /\ role \in DOMAIN e /\ e[role].kind = "role"
    BY <1>3, <1>7, <1>9, <2>5 DEF Table, Without
  <2>11. role \in DOMAIN f
    BY <1>4, <2>10 DEF Permitted, InsertedAll, Over
  <2>12. Session(r, f, AccessKinds)
    BY <2>9 DEF Plain
  <2>13. f[role].kind = "role" /\ Typed(f[role])
    BY <2>3, <2>10, <2>11, <2>12, FoundRows DEF Session
  <2>14. Patch(f[role], y)
    BY <1>5, <2>13, RoleNamed, Zenon
  <2>15. f[role].kind \in AccessKinds \ Single /\ f[role].kind # "work" /\ f[role].kind # "user"
    BY <2>13, KindsAre DEF Single
  <2>16. Plain(r, d)
    BY <1>6, <2>3, <2>9, <2>11, <2>14, <2>15, PlainEdition
  <2> QED
    BY <2>3, <2>16, PlainFits
<1> QED
  BY <1>7, <1>8, <1>9, TriesAdvances, Zenon

(***************************************************************************)
(* Products of a person.                                                   *)
(***************************************************************************)
\* on_payflow_product_assigned.
LEMMA GrantedPlain ==
  ASSUME Stored, NEW r \in Requests, NEW d, Plain(r, d), NEW u, NEW products, IsFiniteSet(products)
  PROVE  Plain(r, Granted(d, r, u, products))
<1> DEFINE missing == {p \in products : Rows(d, [kind |-> "assignment", user |-> u, product |-> p]) = {}}
           f == [p \in missing |-> [kind |-> "assignment", user |-> u, product |-> p]]
           T == {[kind |-> "assignment", user |-> u, product |-> p] : p \in missing}
<1>1. IsFiniteSet(missing)
  <2>1. missing \in SUBSET products
    OBVIOUS
  <2> HIDE DEF missing
  <2> QED
    BY <2>1, FS_Subset, Zenon
<1>2. T = {f[p] : p \in missing} /\ \A row \in T : row.kind = "assignment"
  <2> HIDE DEF missing
  <2> QED
    OBVIOUS
<1>3. IsFiniteSet({f[p] : p \in missing})
  <2> HIDE DEF f, missing
  <2> QED
    BY <1>1, FiniteImage, Zenon
<1>4. \A row \in T : Typed(row)
  BY TypedAccessRows, Zenon
<1>5. PICK S : S = T
  <2> HIDE DEF T
  <2> QED
    OBVIOUS
<1>6. IsFiniteSet(S) /\ \A row \in S : Typed(row) /\ row.kind \in AccessKinds \ (Single \cup {"user"})
  <2> HIDE DEF T, f, missing
  <2> QED
    BY <1>2, <1>3, <1>4, <1>5, KindsAre DEF Single
<1>7. PICK e : e = InsertedAll(d, r, SetToSeq(S))
  OBVIOUS
<1>8. Plain(r, e)
  BY <1>6, <1>7, PlainInsertionsOf
<1>9. PICK admin : admin = First(Rows(d, [kind |-> "role", code |-> OperationsAdmin]))
  OBVIOUS
<1>10. PICK row : row = [kind |-> "membership", user |-> u, role |-> admin]
  OBVIOUS
<1>11. Plain(r, Inserted(e, r, row))
  BY <1>8, <1>10, MemberPlain
<1>12. Granted(d, r, u, products) \in {e, Inserted(e, r, row)}
  BY <1>5, <1>7, <1>9, <1>10 DEF Granted
<1> QED
  BY <1>8, <1>11, <1>12

\* save_person assigns the products and takes the others away.
LEMMA AssignProductsPlain ==
  ASSUME Stored, NEW r \in Requests, NEW d, Plain(r, d), NEW u, NEW products, IsFiniteSet(products),
         \A i \in New(d) : d[i].kind # "assignment"
  PROVE  Plain(r, AssignProducts(d, r, u, products))
<1>1. PICK e : e = Granted(d, r, u, products)
  OBVIOUS
<1>2. Plain(r, e) /\ Session(r, e, AccessKinds) /\ Session(r, d, AccessKinds)
  BY <1>1, GrantedPlain DEF Plain
<1>3. PICK gone : gone = {a \in Of(d, "assignment", u) : d[a].product \notin products}
  OBVIOUS
<1>4. \A i \in gone : i \in DOMAIN db /\ db[i].kind = "assignment"
  <2> SUFFICES ASSUME NEW i \in gone PROVE i \in DOMAIN db /\ db[i].kind = "assignment"
    OBVIOUS
  <2>1. i \in DOMAIN d /\ d[i].kind = "assignment"
    BY <1>3, OfAre
  <2>2. i \in DOMAIN db
    BY <2>1 DEF New
  <2> QED
    BY <1>2, <2>1, <2>2, FoundRows
<1>5. PICK c : c = Without(e, gone)
  OBVIOUS
<1>6. AdminStays(c)
  <2> SUFFICES ASSUME Admins(db) # {} PROVE \E m \in Admins(db) : m \in DOMAIN c
    BY DEF AdminStays
  <2>1. PICK m \in Admins(db) : m \in DOMAIN e
    BY <1>2 DEF Plain, AdminStays
  <2>2. db[m].kind = "membership"
    BY DEF Admins, Table
  <2> QED
    BY <1>4, <1>5, <2>1, <2>2 DEF Without
<1>7. \A i \in gone \cap DOMAIN e : i \in DOMAIN db /\ e[i].kind \in AccessKinds \ {"work"}
  <2> SUFFICES ASSUME NEW i \in gone \cap DOMAIN e PROVE i \in DOMAIN db /\ e[i].kind \in AccessKinds \ {"work"}
    OBVIOUS
  <2>1. e[i].kind = "assignment"
    BY <1>2, <1>4, FoundRows
  <2> QED
    BY <1>4, <2>1, KindsAre
<1>8. Plain(r, c)
  BY <1>2, <1>5, <1>6, <1>7, PlainDeletion
<1> QED
  BY <1>1, <1>3, <1>5, <1>8 DEF AssignProducts

LEMMA SavePersonAdvances ==
  ASSUME NEW r, Begun(r), SavePerson(r)
  PROVE  Advances(r)
<1>1. PICK o, u : o = Op(r) /\ u = Fresh(db, r)
  OBVIOUS
<1>2. PICK row : row = User(o.email, o.org, "invited")
  OBVIOUS
<1>3. PICK e : e = Inserted(db, r, row)
  OBVIOUS
<1>4. PICK d : d = AssignProducts(e, r, u, o.products)
  OBVIOUS
<1>5. GoesOn(r, <<>>) \/ Opens(r, d, Inviting(u) \o Rest(r), <<>>)
  BY <1>1, <1>2, <1>3, <1>4 DEF SavePerson
<1>6. Fit(r, d)
  <2>1. Asked(o) /\ o.do = "save person"
    BY <1>1, RestFollows DEF Begun, SavePerson, Next1, Op
  <2>2. IsFiniteSet(o.products) /\ "invited" \in Statuses.user /\ Stored /\ r \in Requests
    BY <2>1, ColumnsAre DEF Asked, Begun
  <2>3. Plain(r, e)
    BY <1>2, <1>3, <2>2, UserPlain
  <2>4. \A i \in New(e) : e[i].kind # "assignment"
    <3>1. e = Over(db, [i \in {u} |-> row])
      BY <1>1, <1>3 DEF Inserted
    <3>2. row.kind = "user"
      BY <1>2 DEF User
    <3> QED
      BY <3>1, <3>2 DEF New, Over
  <2>5. Plain(r, d)
    BY <1>4, <2>2, <2>3, <2>4, AssignProductsPlain
  <2> QED
    BY <2>2, <2>5, PlainFits
<1>7. Follows(r, <<>>) /\ Follows(r, Inviting(u) \o Rest(r))
  BY RestFollows, InvitingFollows DEF Begun
<1>8. CASE GoesOn(r, <<>>)
  BY <1>8, RestAdvances
<1>9. CASE Opens(r, d, Inviting(u) \o Rest(r), <<>>)
  BY <1>6, <1>7, <1>9, OpensAdvances, Zenon
<1> QED
  BY <1>5, <1>8, <1>9

LEMMA EditPersonAdvances ==
  ASSUME NEW r, Begun(r), EditPerson(r)
  PROVE  Advances(r)
<1>1. PICK o, u : o = Op(r) /\ u = o.id
  OBVIOUS
<1>2. PICK y : y = [db[u] EXCEPT !.org = o.org, !.status = o.status]
  OBVIOUS
<1>3. PICK e : e = [db EXCEPT ![u] = y]
  OBVIOUS
<1>4. PICK d : d = AssignProducts(e, r, u, o.products)
  OBVIOUS
<1>5. PICK accepted : (accepted => u \in Table(db, "user")) /\ Tries(r, accepted, d)
  <2>1. u \in Table(db, "user") => e = [db EXCEPT ![u].org = o.org, ![u].status = o.status]
    BY <1>2, <1>3 DEF Table
  <2> QED
    BY <1>1, <1>4, <2>1 DEF EditPerson, Tries
<1>6. ASSUME accepted PROVE Fit(r, d)
  <2>1. Asked(o) /\ o.do = "edit person"
    BY <1>1, RestFollows DEF Begun, EditPerson, Next1, Op
  <2>2. IsFiniteSet(o.products) /\ o.status \in Statuses.user /\ Stored /\ r \in Requests
    BY <2>1 DEF Asked, Begun
  <2>3. u \in Table(db, "user") /\ u \in DOMAIN db /\ db[u].kind = "user" /\ Typed(db[u])
    BY <1>5, <1>6, <2>2 DEF Table, Stored
  <2>4. Patch(db[u], y)
    BY <1>2, <2>2, <2>3, UserMoved, Zenon
  <2>5. y.set = db[u].set /\ y.password = db[u].password
    BY <1>2
  <2>6. Plain(r, e)
    BY <1>3, <2>3, <2>4, <2>5, UserEdition
  <2>7. \A i \in New(e) : e[i].kind # "assignment"
    BY <1>3 DEF New
  <2>8. Plain(r, d)
    BY <1>4, <2>2, <2>6, <2>7, AssignProductsPlain
  <2> QED
    BY <2>2, <2>8, PlainFits
<1> QED
  BY <1>5, <1>6, TriesAdvances, Zenon

LEMMA AssignProductAdvances ==
  ASSUME NEW r, Begun(r), AssignProduct(r)
  PROVE  Advances(r)
<1>1. PICK o : o = Op(r)
  OBVIOUS
<1>2. PICK d : d = Granted(db, r, o.id, {o.product})
  OBVIOUS
<1>3. PICK accepted : Tries(r, accepted, d)
  BY <1>1, <1>2 DEF AssignProduct
<1>4. IsFiniteSet({o.product}) /\ Stored /\ r \in Requests /\ Plain(r, db)
  BY FS_Singleton, PlainBegins DEF Begun
<1>5. Plain(r, d)
  BY <1>2, <1>4, GrantedPlain
<1>6. Fit(r, d)
  BY <1>4, <1>5, PlainFits
<1> QED
  BY <1>3, <1>6, TriesAdvances, Zenon

(***************************************************************************)
(* Organizations, entitlements and products.                               *)
(***************************************************************************)
LEMMA SaveOrganizationAdvances ==
  ASSUME NEW r, Begun(r), SaveOrganization(r)
  PROVE  Advances(r)
<1>1. PICK o, i : o = Op(r) /\ i = o.id
  OBVIOUS
<1>2. PICK row : row = [kind |-> "org", name |-> o.name]
  OBVIOUS
<1>3. PICK y : y = [db[i] EXCEPT !.name = o.name]
  OBVIOUS
<1>4. PICK e : e = [db EXCEPT ![i] = y]
  OBVIOUS
<1>5. PICK d : d = IF i = <<>> THEN Inserted(db, r, row) ELSE e
  OBVIOUS
<1>6. PICK accepted : (accepted => {i} \ {<<>>} \subseteq Table(db, "org")) /\ Tries(r, accepted, d)
  <2>1. e = [db EXCEPT ![i].name = o.name]
    BY <1>3, <1>4
  <2> QED
    BY <1>1, <1>2, <1>5, <2>1 DEF SaveOrganization
<1>7. Stored /\ r \in Requests /\ Plain(r, db)
  BY PlainBegins DEF Begun
<1>8. Plain(r, Inserted(db, r, row))
  <2>1. Typed(row)
    BY <1>2, TypedAccessRows, Zenon
  <2>2. row.kind \in AccessKinds \ Single /\ row.kind # "user"
    BY <1>2, KindsAre DEF Single
  <2> QED
    BY <1>7, <2>1, <2>2, PlainInsertion
<1>9. ASSUME accepted, i # <<>> PROVE Plain(r, e)
  <2>1. i \in DOMAIN db /\ db[i].kind = "org" /\ Typed(db[i])
    BY <1>6, <1>7, <1>9 DEF Table, Stored
  <2>2. Patch(db[i], y)
    BY <1>3, <2>1, OrgNamed, Zenon
  <2>3. db[i].kind \in AccessKinds \ Single /\ db[i].kind # "work" /\ db[i].kind # "user"
    BY <2>1, KindsAre DEF Single
  <2> QED
    BY <1>4, <1>7, <2>1, <2>2, <2>3, PlainEdition
<1>10. ASSUME accepted PROVE Fit(r, d)
  BY <1>5, <1>7, <1>8, <1>9, <1>10, PlainFits
<1> QED
  BY <1>6, <1>10, TriesAdvances, Zenon

LEMMA EntitleAdvances ==
  ASSUME NEW r, Begun(r), Entitle(r)
  PROVE  Advances(r)
<1>1. PICK o : o = Op(r)
  OBVIOUS
<1>2. PICK like : like = [kind |-> "entitlement", org |-> o.org, product |-> o.product]
  OBVIOUS
<1>3. PICK found, i : found = Rows(db, like) /\ i = First(found)
  OBVIOUS
<1>4. PICK row : row = [kind |-> "entitlement", org |-> o.org, product |-> o.product, granted |-> o.granted]
  OBVIOUS
<1>5. PICK e : e = [db EXCEPT ![i] = row]
  OBVIOUS
<1>6. PICK d : d = IF found = {} THEN Inserted(db, r, row) ELSE e
  OBVIOUS
<1>7. PICK accepted : Tries(r, accepted, d)
  BY <1>1, <1>2, <1>3, <1>4, <1>5, <1>6 DEF Entitle
<1>8. Stored /\ r \in Requests /\ Plain(r, db)
  BY PlainBegins DEF Begun
<1>9. Typed(row)
  BY <1>4, TypedAccessRows, Zenon
<1>10. row.kind = "entitlement" /\ row.kind \in AccessKinds \ Single
  BY <1>4, KindsAre DEF Single
<1>11. Plain(r, Inserted(db, r, row))
  BY <1>8, <1>9, <1>10, PlainInsertion
<1>12. ASSUME found # {} PROVE Plain(r, e)
  <2>1. i \in Rows(db, like) /\ like.kind = "entitlement" /\ "kind" \in DOMAIN like
    BY <1>2, <1>3, <1>12, FirstOf
  <2>2. i \in DOMAIN db /\ db[i].kind = "entitlement" /\ Typed(db[i])
    BY <1>8, <2>1, RowsAre DEF Stored
  <2>3. Patch(db[i], row)
    <3>1. DOMAIN db[i] = Columns["entitlement"] /\ DOMAIN row = Columns["entitlement"] /\ Fun(row)
      BY <1>9, <1>10, <2>2 DEF Typed, Fun
    <3>2. \A c \in DOMAIN row : Takes("entitlement", c, row[c])
      BY <1>9, <1>10, <3>1 DEF Typed
    <3> QED
      BY <1>10, <2>2, <3>1, <3>2 DEF Patch
  <2> QED
    BY <1>5, <1>8, <1>10, <2>2, <2>3, PlainEdition
<1>13. Fit(r, d)
  BY <1>6, <1>8, <1>11, <1>12, PlainFits
<1> QED
  BY <1>7, <1>13, TriesAdvances, Zenon

LEMMA SaveProductAdvances ==
  ASSUME NEW r, Begun(r), SaveProduct(r)
  PROVE  Advances(r)
<1>1. PICK o : o = Op(r)
  OBVIOUS
<1>2. PICK like : like = [kind |-> "product", code |-> o.code]
  OBVIOUS
<1>3. PICK found, i : found = Rows(db, like) /\ i = First(found)
  OBVIOUS
<1>4. PICK row : row = [kind |-> "product", code |-> o.code, active |-> o.active]
  OBVIOUS
<1>5. PICK y : y = [db[i] EXCEPT !.active = o.active]
  OBVIOUS
<1>6. PICK e : e = [db EXCEPT ![i] = y]
  OBVIOUS
<1>7. PICK d : d = IF o.fresh THEN Inserted(db, r, row) ELSE e
  OBVIOUS
<1>8. PICK accepted : (accepted => (~o.fresh => found # {})) /\ Tries(r, accepted, d)
  <2>1. e = [db EXCEPT ![i].active = o.active]
    BY <1>5, <1>6
  <2> QED
    BY <1>1, <1>2, <1>3, <1>4, <1>7, <2>1 DEF SaveProduct
<1>9. Stored /\ r \in Requests /\ Plain(r, db)
  BY PlainBegins DEF Begun
<1>10. Plain(r, Inserted(db, r, row))
  <2>1. Typed(row)
    BY <1>4, TypedAccessRows, Zenon
  <2>2. row.kind \in AccessKinds \ Single /\ row.kind # "user"
    BY <1>4, KindsAre DEF Single
  <2> QED
    BY <1>9, <2>1, <2>2, PlainInsertion
<1>11. ASSUME found # {} PROVE Plain(r, e)
  <2>1. i \in Rows(db, like) /\ like.kind = "product" /\ "kind" \in DOMAIN like
    BY <1>2, <1>3, <1>11, FirstOf
  <2>2. i \in DOMAIN db /\ db[i].kind = "product" /\ Typed(db[i])
    BY <1>9, <2>1, RowsAre DEF Stored
  <2>3. Patch(db[i], y)
    BY <1>5, <2>2, ProductActive, Zenon
  <2>4. db[i].kind \in AccessKinds \ Single /\ db[i].kind # "work" /\ db[i].kind # "user"
    BY <2>2, KindsAre DEF Single
  <2> QED
    BY <1>6, <1>9, <2>2, <2>3, <2>4, PlainEdition
<1>12. ASSUME accepted PROVE Fit(r, d)
  BY <1>7, <1>8, <1>9, <1>10, <1>11, <1>12, PlainFits
<1> QED
  BY <1>8, <1>12, TriesAdvances, Zenon

(* A session, token or link that is turned off. *)
Off(x, y) ==
  \/ x.kind \in {"session", "refresh"} /\ y = [x EXCEPT !.live = FALSE]
  \/ x.kind = "link" /\ y = [x EXCEPT !.unused = FALSE]

\* A row that is turned off keeps its other columns.
LEMMA OffIs ==
  ASSUME NEW x, Typed(x), NEW y, Off(x, y)
  PROVE  /\ Typed(y) /\ Kept(x, y) /\ y.kind = x.kind /\ x.kind \in AccessKinds \ {"user", "work", "membership", "use", "may"}
         /\ x.kind \in {"session", "refresh"} => y.live = FALSE
         /\ x.kind = "link" => y.unused = FALSE
         /\ \A c \in DOMAIN x \ {"live", "unused"} : y[c] = x[c]
<1>0. x.kind \in AccessKinds \ {"user", "work", "membership", "use", "may"}
  BY KindsAre DEF Off
<1>a. DOMAIN x = Columns[x.kind]
  BY DEF Typed
<1>1. CASE x.kind = "session" /\ y = [x EXCEPT !.live = FALSE]
  <2>1. Patch(x, y)
    BY <1>1, SessionOff, Zenon
  <2>2. DOMAIN x = {"kind", "user", "live", "with"}
    BY <1>1, <1>a, AccessColumnsAre
  <2>3. Typed(y)
    BY <2>1, TypedPatch, Zenon
  <2> QED
    BY <1>0, <1>1, <2>2, <2>3 DEF Kept
<1>2. CASE x.kind = "refresh" /\ y = [x EXCEPT !.live = FALSE]
  <2>1. Patch(x, y)
    BY <1>2, RefreshOff, Zenon
  <2>2. DOMAIN x = {"kind", "user", "session", "live"}
    BY <1>2, <1>a, AccessColumnsAre
  <2>3. Typed(y)
    BY <2>1, TypedPatch, Zenon
  <2> QED
    BY <1>0, <1>2, <2>2, <2>3 DEF Kept
<1>3. CASE x.kind = "link" /\ y = [x EXCEPT !.unused = FALSE]
  <2>1. Patch(x, y)
    BY <1>3, LinkOff, Zenon
  <2>2. DOMAIN x = {"kind", "user", "of", "unused"}
    BY <1>3, <1>a, AccessColumnsAre
  <2>3. Typed(y)
    BY <2>1, TypedPatch, Zenon
  <2> QED
    BY <1>0, <1>3, <2>2, <2>3 DEF Kept
<1> QED
  BY <1>1, <1>2, <1>3 DEF Off

LEMMA OffSession ==
  ASSUME Stored, NEW r, NEW d, Session(r, d, AccessKinds), NEW e, Fun(e), DOMAIN e = DOMAIN d,
         \A i \in DOMAIN d : e[i] = d[i] \/ Off(d[i], e[i])
  PROVE  Session(r, e, AccessKinds)
<1>1. \A i \in DOMAIN d : Typed(d[i])
  BY DEF Session
<1>2. ASSUME NEW i \in DOMAIN d PROVE e[i] = d[i] \/ (Typed(e[i]) /\ Kept(d[i], e[i]) /\ d[i].kind \in AccessKinds)
  <2>1. CASE Off(d[i], e[i])
    BY <1>1, <2>1, OffIs
  <2> QED
    BY <2>1
<1> QED
  BY <1>2, Edition

\* Turning rows off is plain.
LEMMA PlainOff ==
  ASSUME Stored, NEW r, NEW d, Plain(r, d), NEW e, Fun(e), DOMAIN e = DOMAIN d,
         \A i \in DOMAIN d : e[i] = d[i] \/ Off(d[i], e[i])
  PROVE  Plain(r, e)
<1>0. Session(r, d, AccessKinds) /\ \A i \in DOMAIN d : Typed(d[i])
  BY DEF Plain, Session
<1>1. Session(r, e, AccessKinds)
  BY <1>0, OffSession
<1>2. New(e) = New(d)
  BY DEF New
<1>3. ASSUME NEW i \in DOMAIN d
      PROVE  \/ e[i] = d[i]
             \/ /\ e[i].kind = d[i].kind /\ d[i].kind \in {"session", "refresh", "link"}
                /\ d[i].kind \in {"session", "refresh"} => e[i].live = FALSE
                /\ d[i].kind = "link" => e[i].unused = FALSE
  <2>1. CASE Off(d[i], e[i])
    <3>1. d[i].kind \in {"session", "refresh", "link"}
      BY <2>1 DEF Off
    <3>2. Typed(d[i])
      BY <1>0
    <3>3. /\ e[i].kind = d[i].kind
          /\ d[i].kind \in {"session", "refresh"} => e[i].live = FALSE
          /\ d[i].kind = "link" => e[i].unused = FALSE
      BY <2>1, <3>2, OffIs
    <3> QED
      BY <3>1, <3>3
  <2> QED
    BY <2>1
<1>4. NewPlain(e)
  BY <1>2, <1>3 DEF NewPlain, Plain, New
<1>5. SecretsKept(e)
  BY <1>3 DEF SecretsKept, Plain
<1>6. AdminStays(e)
  BY DEF AdminStays, Plain
<1>7. NewApart(e)
  <2> SUFFICES ASSUME NEW i \in New(e), NEW j \in DOMAIN e \cap DOMAIN db, Rival(e[i], e[j]) PROVE FALSE
    BY DEF NewApart
  <2>1. i \in New(d) /\ i \in DOMAIN d /\ j \in DOMAIN d \cap DOMAIN db
    BY <1>2 DEF New
  <2>2. e[i] = d[i] /\ e[j] = d[j]
    BY <1>3, <2>1 DEF Rival, Alike
  <2> QED
    BY <2>1, <2>2 DEF Plain, NewApart
<1> QED
  BY <1>1, <1>4, <1>5, <1>6, <1>7 DEF Plain

\* The links that _consume_auth_token finds.
LEMMA LikeThese ==
  ASSUME NEW d, NEW u, NEW of
  PROVE  /\ \A i \in Rows(d, [kind |-> "link", user |-> u, of |-> of]) :
              i \in DOMAIN d /\ d[i].kind = "link" /\ d[i].user = u /\ d[i].of = of
         /\ \A i \in DOMAIN d : Typed(d[i]) /\ d[i].kind = "link" /\ d[i].user = u /\ d[i].of = of =>
              i \in Rows(d, [kind |-> "link", user |-> u, of |-> of])
<1>1. PICK like : like = [kind |-> "link", user |-> u, of |-> of]
  OBVIOUS
<1>2. DOMAIN like = {"kind", "user", "of"} /\ like.kind = "link" /\ like.user = u /\ like.of = of
  BY <1>1
<1>3. \A i \in Rows(d, like) :
        i \in DOMAIN d /\ d[i]["kind"] = like["kind"] /\ d[i]["user"] = like["user"] /\ d[i]["of"] = like["of"]
  BY <1>2 DEF Rows
<1>4. ASSUME NEW i \in DOMAIN d, Typed(d[i]), d[i].kind = "link", d[i].user = u, d[i].of = of
      PROVE  i \in Rows(d, like)
  <2>1. DOMAIN d[i] = {"kind", "user", "of", "unused"}
    BY <1>4, AccessColumnsAre DEF Typed
  <2>2. \A c \in DOMAIN like : c \in DOMAIN d[i] /\ d[i][c] = like[c]
    BY <1>2, <1>4, <2>1
  <2> QED
    BY <2>2 DEF Rows
<1> QED
  BY <1>1, <1>2, <1>3, <1>4

\* The links of a kind are used up, all of them.
LEMMA SpentIs ==
  ASSUME NEW d, \A i \in DOMAIN d : Typed(d[i]), NEW u, NEW of, NEW e, e = Spent(d, u, of)
  PROVE  /\ Fun(e) /\ DOMAIN e = DOMAIN d
         /\ \A i \in DOMAIN d : e[i] = d[i] \/ Off(d[i], e[i])
         /\ \A i \in DOMAIN d : d[i].kind = "link" /\ d[i].user = u /\ d[i].of = of => ~e[i].unused
         /\ \A i \in DOMAIN d : d[i].kind # "link" => e[i] = d[i]
<1>1. PICK S : S = Rows(d, [kind |-> "link", user |-> u, of |-> of])
  OBVIOUS
<1>2. /\ \A i \in S : i \in DOMAIN d /\ d[i].kind = "link" /\ d[i].user = u /\ d[i].of = of
      /\ \A i \in DOMAIN d : d[i].kind = "link" /\ d[i].user = u /\ d[i].of = of => i \in S
  BY <1>1, LikeThese
<1>3. e = [i \in DOMAIN d |-> IF i \in S THEN [d[i] EXCEPT !.unused = FALSE] ELSE d[i]]
  BY <1>1 DEF Spent
<1>4. Fun(e) /\ DOMAIN e = DOMAIN d
  BY <1>3 DEF Fun
<1>5. \A i \in DOMAIN d : e[i] = IF i \in S THEN [d[i] EXCEPT !.unused = FALSE] ELSE d[i]
  BY <1>3
<1>6. ASSUME NEW i \in DOMAIN d PROVE e[i] = d[i] \/ Off(d[i], e[i])
  BY <1>2, <1>5 DEF Off
<1>7. ASSUME NEW i \in DOMAIN d, d[i].kind = "link" /\ d[i].user = u /\ d[i].of = of PROVE ~e[i].unused
  <2>1. e[i] = [d[i] EXCEPT !.unused = FALSE] /\ DOMAIN d[i] = {"kind", "user", "of", "unused"}
    BY <1>2, <1>5, <1>7, AccessColumnsAre DEF Typed
  <2> QED
    BY <2>1
<1>8. \A i \in DOMAIN d : d[i].kind # "link" => e[i] = d[i]
  BY <1>2, <1>5
<1> QED
  BY <1>4, <1>6, <1>7, <1>8

LEMMA SpentPlain ==
  ASSUME NEW r, Begun(r), NEW u, NEW of
  PROVE  Plain(r, Spent(db, u, of))
<1>1. Stored /\ Plain(r, db) /\ \A i \in DOMAIN db : Typed(db[i])
  BY PlainBegins DEF Begun, Stored
<1>2. PICK e : e = Spent(db, u, of)
  OBVIOUS
<1>3. Fun(e) /\ DOMAIN e = DOMAIN db /\ \A i \in DOMAIN db : e[i] = db[i] \/ Off(db[i], e[i])
  BY <1>1, <1>2, SpentIs
<1>4. Plain(r, e)
  BY <1>1, <1>3, PlainOff
<1> QED
  BY <1>2, <1>4

LEMMA SessionInsertion ==
  ASSUME Stored, NEW r \in Requests, NEW d, NEW K, Session(r, d, K),
         NEW row, Typed(row), row.kind \in K
  PROVE  Session(r, Inserted(d, r, row), K)
<1>1. PICK e : e = Inserted(d, r, row)
  OBVIOUS
<1>2. Session(r, e, K)
  BY <1>1, Insertion
<1> QED
  BY <1>1, <1>2

\* create_auth_token leaves one usable link of the kind.
LEMMA TokenFits ==
  ASSUME NEW r, Begun(r), NEW u, NEW of, NEW e, e = CreateAuthToken(db, r, u, of)
  PROVE  Fit(r, e)
<1>1. PICK row : row = [kind |-> "link", user |-> u, of |-> of, unused |-> TRUE]
  OBVIOUS
<1>2. PICK d : d = Spent(db, u, of)
  OBVIOUS
<1>3. Plain(r, d) /\ Stored /\ r \in Requests /\ \A i \in DOMAIN db : Typed(db[i])
  BY <1>2, SpentPlain DEF Begun, Stored
<1>4. PICK k : k = Fresh(d, r)
  OBVIOUS
<1>5. e = Inserted(d, r, row)
  BY <1>1, <1>2 DEF CreateAuthToken
<1>6. Typed(row) /\ row.kind = "link"
  BY <1>1, TypedAccessRows, Zenon
<1>7. row.kind \in AccessKinds
  BY <1>6, KindsAre
<1>8. Session(r, d, AccessKinds)
  BY <1>3 DEF Plain
<1>9. Session(r, e, AccessKinds)
  <2>1. Stored /\ r \in Requests /\ Typed(row)
    BY <1>3, <1>6
  <2> QED
    BY <1>5, <1>7, <1>8, <2>1, SessionInsertion
<1>10. k \notin DOMAIN d \cup DOMAIN db
  BY <1>3, <1>4, <1>8, FreshIs
<1>11. /\ DOMAIN e = DOMAIN d \cup {k} /\ e[k] = row /\ \A i \in DOMAIN d : e[i] = d[i]
       /\ New(e) = New(d) \cup {k}
  BY <1>4, <1>5, <1>10 DEF Inserted, Over, New
<1>12. DOMAIN d = DOMAIN db /\ \A i \in DOMAIN db : db[i].kind = "link" /\ db[i].user = u /\ db[i].of = of => ~d[i].unused
  BY <1>2, <1>3, SpentIs
<1>13. \A i \in DOMAIN d : d[i].kind = "link" => d[i].kind = db[i].kind /\ d[i].user = db[i].user /\ d[i].of = db[i].of
  BY <1>3, <1>8, <1>12, FoundRows
<1>14. New(d) = {}
  BY <1>12 DEF New
<1>15. NewPlain(e)
  BY <1>6, <1>11, <1>14 DEF NewPlain
<1>16. SecretsKept(e)
  BY <1>3, <1>11, <1>12 DEF SecretsKept, Plain
<1>17. AdminStays(e)
  BY <1>3, <1>11 DEF AdminStays, Plain
<1>18. NewApart(e)
  <2> SUFFICES ASSUME NEW j \in DOMAIN e \cap DOMAIN db, Rival(e[k], e[j]) PROVE FALSE
    BY <1>11, <1>14 DEF NewApart
  <2>1. j \in DOMAIN d /\ e[j] = d[j] /\ e[k] = row /\ row.kind = "link" /\ row.unused = TRUE /\ row.user = u /\ row.of = of
    BY <1>1, <1>10, <1>11
  <2>2. d[j].kind = "link" /\ d[j].user = u /\ d[j].of = of /\ d[j].unused = TRUE
    BY <2>1 DEF Rival, Alike
  <2> QED
    BY <1>12, <1>13, <2>1, <2>2
<1>19. Plain(r, e)
  BY <1>9, <1>15, <1>16, <1>17, <1>18 DEF Plain
<1> QED
  BY <1>3, <1>19, PlainFits

\* The handlers that issue and end links and sessions.
LEMMA InviteAdvances ==
  ASSUME NEW r, Begun(r), Invite(r)
  PROVE  Advances(r)
<1>1. PICK u : u = Op(r).id
  OBVIOUS
<1>2. PICK d : d = CreateAuthToken(db, r, u, "activation")
  OBVIOUS
<1>3. GoesOn(r, <<>>) \/ Opens(r, d, Rest(r), <<>>)
  BY <1>1, <1>2 DEF Invite
<1>4. Fit(r, d)
  BY <1>2, TokenFits
<1>5. Follows(r, Rest(r)) /\ Follows(r, <<>>)
  BY RestFollows DEF Begun
<1>6. CASE GoesOn(r, <<>>)
  BY <1>6, RestAdvances
<1>7. CASE Opens(r, d, Rest(r), <<>>)
  BY <1>4, <1>5, <1>7, OpensAdvances, Zenon
<1> QED
  BY <1>3, <1>6, <1>7

LEMMA ForgotPasswordAdvances ==
  ASSUME NEW r, Begun(r), ForgotPassword(r)
  PROVE  Advances(r)
<1>1. PICK u : u = Op(r).id
  OBVIOUS
<1>2. PICK d : d = CreateAuthToken(db, r, u, "reset")
  OBVIOUS
<1>3. PICK accepted : Tries(r, accepted, d)
  BY <1>1, <1>2 DEF ForgotPassword
<1>4. Fit(r, d)
  BY <1>2, TokenFits
<1> QED
  BY <1>3, <1>4, TriesAdvances, Zenon

LEMMA ResendInvitationAdvances ==
  ASSUME NEW r, Begun(r), ResendInvitation(r)
  PROVE  Advances(r)
<1>1. PICK u : u = Op(r).id
  OBVIOUS
<1>2. PICK d : d = CreateAuthToken(db, r, u, "activation")
  OBVIOUS
<1>3. PICK accepted : Tries(r, accepted, d)
  BY <1>1, <1>2 DEF ResendInvitation
<1>4. Fit(r, d)
  BY <1>2, TokenFits
<1> QED
  BY <1>3, <1>4, TriesAdvances, Zenon

LEMMA LogoutAdvances ==
  ASSUME NEW r, Begun(r), Logout(r)
  PROVE  Advances(r)
<1>1. PICK s : s = Op(r).by
  OBVIOUS
<1>2. PICK S : S = Rows(db, [kind |-> "refresh", session |-> s])
  OBVIOUS
<1>3. PICK d : d = [i \in DOMAIN db |-> IF i = s \/ i \in S THEN [db[i] EXCEPT !.live = FALSE] ELSE db[i]]
  OBVIOUS
<1>4. Tries(r, SignedIn(db, s), d)
  BY <1>1, <1>2, <1>3 DEF Logout
<1>5. PICK accepted : accepted = SignedIn(db, s)
  OBVIOUS
<1>6. ASSUME accepted PROVE Fit(r, d)
  <2>1. db[s].kind = "session"
    BY <1>5, <1>6 DEF SignedIn, Table
  <2>2. \A i \in S : db[i].kind = "refresh"
    <3>1. PICK like : like = [kind |-> "refresh", session |-> s]
      OBVIOUS
    <3>2. "kind" \in DOMAIN like /\ like.kind = "refresh"
      BY <3>1
    <3> QED
      BY <1>2, <3>1, <3>2, RowsAre
  <2>3. Fun(d) /\ DOMAIN d = DOMAIN db
    BY <1>3 DEF Fun
  <2>4. \A i \in DOMAIN db : d[i] = db[i] \/ Off(db[i], d[i])
    BY <1>3, <2>1, <2>2 DEF Off
  <2>5. Stored /\ Plain(r, db)
    BY PlainBegins DEF Begun
  <2>6. Plain(r, d)
    BY <2>3, <2>4, <2>5, PlainOff
  <2> QED
    BY <2>5, <2>6, PlainFits
<1>7. Tries(r, accepted, d)
  BY <1>4, <1>5
<1> QED
  BY <1>6, <1>7, TriesAdvances, Zenon

LEMMA ExpiredAdvances ==
  ASSUME NEW r, Begun(r), Expired(r)
  PROVE  Advances(r)
  BY RestAdvances DEF Expired

\* _revoke_user_sessions turns off every session and token that it finds.
LEMMA EndedIs ==
  ASSUME NEW d, \A i \in DOMAIN d : Typed(d[i]), NEW u, NEW e, e = Ended(d, u)
  PROVE  /\ Fun(e) /\ DOMAIN e = DOMAIN d
         /\ \A i \in DOMAIN d : e[i] = d[i] \/ Off(d[i], e[i])
         /\ \A i \in DOMAIN d : d[i].kind \in {"session", "refresh"} /\ d[i].user = u => ~e[i].live
         /\ \A i \in DOMAIN d : d[i].kind \notin {"session", "refresh"} => e[i] = d[i]
<1>1. PICK S : S = Of(d, "session", u) \cup Of(d, "refresh", u)
  OBVIOUS
<1>2. \A i \in S : i \in DOMAIN d /\ d[i].kind \in {"session", "refresh"}
  BY <1>1, OfAre
<1>3. ASSUME NEW i \in DOMAIN d, d[i].kind \in {"session", "refresh"}, d[i].user = u PROVE i \in S
  <2>1. "user" \in Columns["session"] /\ "user" \in Columns["refresh"]
    BY AccessColumnsAre
  <2>2. CASE d[i].kind = "session"
    BY <1>1, <1>3, <2>1, <2>2, OfAll
  <2>3. CASE d[i].kind = "refresh"
    BY <1>1, <1>3, <2>1, <2>3, OfAll
  <2> QED
    BY <1>3, <2>2, <2>3
<1>4. e = [i \in DOMAIN d |-> IF i \in S THEN [d[i] EXCEPT !.live = FALSE] ELSE d[i]]
  BY <1>1 DEF Ended
<1>5. Fun(e) /\ DOMAIN e = DOMAIN d
  BY <1>4 DEF Fun
<1>6. \A i \in DOMAIN d : e[i] = IF i \in S THEN [d[i] EXCEPT !.live = FALSE] ELSE d[i]
  BY <1>4
<1>7. ASSUME NEW i \in DOMAIN d PROVE e[i] = d[i] \/ Off(d[i], e[i])
  BY <1>2, <1>6 DEF Off
<1>8. ASSUME NEW i \in DOMAIN d, d[i].kind \in {"session", "refresh"} /\ d[i].user = u PROVE ~e[i].live
  <2>1. e[i] = [d[i] EXCEPT !.live = FALSE] /\ "live" \in DOMAIN d[i]
    BY <1>3, <1>6, <1>8, AccessColumnsAre DEF Typed
  <2> QED
    BY <2>1
<1>9. \A i \in DOMAIN d : d[i].kind \notin {"session", "refresh"} => e[i] = d[i]
  BY <1>2, <1>6
<1> QED
  BY <1>5, <1>7, <1>8, <1>9

\* login opens the one session that lives.
LEMMA LoginAdvances ==
  ASSUME NEW r, Begun(r), Login(r)
  PROVE  Advances(r)
<1>1. PICK u, p : u = Op(r).id /\ p = Op(r).password
  OBVIOUS
<1>2. PICK a : a = Ended(db, u)
  OBVIOUS
<1>3. PICK x : x = [kind |-> "session", user |-> u, live |-> TRUE, with |-> p]
  OBVIOUS
<1>4. PICK b : b = Inserted(a, r, x)
  OBVIOUS
<1>5. PICK k : k = Fresh(a, r)
  OBVIOUS
<1>6. PICK y : y = [kind |-> "refresh", user |-> u, session |-> k, live |-> TRUE]
  OBVIOUS
<1>7. PICK e : e = Inserted(b, r, y)
  OBVIOUS
<1>8. PICK accepted : (accepted => u \in Table(db, "user") /\ db[u].password = p) /\ Tries(r, accepted, e)
  BY <1>1, <1>2, <1>3, <1>4, <1>5, <1>6, <1>7 DEF Login, IssueTokens
<1>9. ASSUME accepted PROVE Fit(r, e)
  <2>1. Stored /\ r \in Requests /\ Plain(r, db) /\ \A i \in DOMAIN db : Typed(db[i])
    BY PlainBegins DEF Begun, Stored
  <2>2. /\ Fun(a) /\ DOMAIN a = DOMAIN db
        /\ \A i \in DOMAIN db : a[i] = db[i] \/ Off(db[i], a[i])
        /\ \A i \in DOMAIN db : db[i].kind \in {"session", "refresh"} /\ db[i].user = u => ~a[i].live
        /\ \A i \in DOMAIN db : db[i].kind \notin {"session", "refresh"} => a[i] = db[i]
    BY <1>2, <2>1, EndedIs
  <2>3. Plain(r, a)
    BY <2>1, <2>2, PlainOff
  <2>4. Session(r, a, AccessKinds)
    BY <2>3 DEF Plain
  <2>5. Typed(x) /\ Typed(y)
    BY <1>3, <1>6, TypedAccessRows, Zenon
  <2>6. x.kind \in AccessKinds /\ y.kind \in AccessKinds
    BY <1>3, <1>6, KindsAre
  <2>7. Session(r, b, AccessKinds)
    BY <1>4, <2>1, <2>4, <2>5, <2>6, SessionInsertion, Zenon
  <2>8. Session(r, e, AccessKinds)
    BY <1>7, <2>1, <2>5, <2>6, <2>7, SessionInsertion, Zenon
  <2>9. PICK l : l = Fresh(b, r)
    OBVIOUS
  <2>10. k \notin DOMAIN a \cup DOMAIN db /\ l \notin DOMAIN b \cup DOMAIN db
    BY <1>5, <2>1, <2>4, <2>7, <2>9, FreshIs
  <2>11. DOMAIN b = DOMAIN a \cup {k} /\ b[k] = x /\ \A i \in DOMAIN a : b[i] = a[i]
    BY <1>4, <1>5, <2>10 DEF Inserted, Over
  <2>12. DOMAIN e = DOMAIN b \cup {l} /\ e[l] = y /\ \A i \in DOMAIN b : e[i] = b[i]
    BY <1>7, <2>9, <2>10 DEF Inserted, Over
  <2>13. /\ DOMAIN e = DOMAIN db \cup {k, l} /\ New(e) = {k, l} /\ e[k] = x /\ e[l] = y /\ k # l
         /\ \A i \in DOMAIN db : e[i] = a[i]
    BY <2>2, <2>10, <2>11, <2>12 DEF New
  <2>14. /\ x.kind = "session" /\ x.user = u /\ x.live = TRUE /\ x.with = p
         /\ y.kind = "refresh" /\ y.session = k
    BY <1>3, <1>6
  <2>15. ASSUME NEW i \in DOMAIN db
         PROVE  /\ e[i].kind = db[i].kind
                /\ db[i].kind = "session" => e[i].user = db[i].user /\ e[i].with = db[i].with /\ (e[i].live => db[i].live)
                /\ db[i].kind = "refresh" => e[i].session = db[i].session /\ (e[i].live => db[i].live)
                /\ db[i].kind = "session" /\ db[i].user = u => ~e[i].live
                /\ db[i].kind = "user" => e[i] = db[i]
    <3>1. i \in DOMAIN e \cap DOMAIN db
      BY <2>13
    <3>2. /\ e[i].kind = db[i].kind
          /\ e[i].kind = "session" => e[i].user = db[i].user /\ e[i].with = db[i].with /\ (e[i].live => db[i].live)
          /\ e[i].kind = "refresh" => e[i].session = db[i].session /\ (e[i].live => db[i].live)
      BY <2>1, <2>8, <3>1, FoundRows
    <3> QED
      BY <2>2, <2>13, <3>2
  <2>16. NewApart(e)
    <3> SUFFICES ASSUME NEW i \in {k, l}, NEW j \in DOMAIN db, Rival(e[i], e[j]) PROVE FALSE
      BY <2>13 DEF NewApart
    <3>1. CASE i = k
      BY <2>13, <2>14, <2>15, <3>1 DEF Rival, Alike
    <3>2. CASE i = l
      BY <2>13, <2>14, <3>2 DEF Rival, Alike
    <3> QED
      BY <3>1, <3>2
  <2>17. NewUses(e)
    BY <2>13, <2>14 DEF NewUses
  <2>18. ASSUME OneRefresh(db) PROVE OneRefresh(e)
    <3> SUFFICES ASSUME NEW i \in Table(e, "refresh"), NEW j \in Table(e, "refresh"),
                        e[i].live, e[j].live, e[i].session = e[j].session
                 PROVE  i = j
      BY DEF OneRefresh
    <3>1. i \in DOMAIN db \cup {l} /\ j \in DOMAIN db \cup {l}
      BY <2>13, <2>14 DEF Table
    <3>2. ASSUME NEW m \in DOMAIN db, e[m].kind = "refresh", e[m].session = k PROVE FALSE
      <4>1. db[m].kind = "refresh" /\ db[m].session = k
        BY <2>15, <3>2
      <4>2. db[m].session \in Table(db, "session")
        BY <2>1, <4>1, Owned
      <4> QED
        BY <2>10, <4>1, <4>2 DEF Table
    <3>3. CASE i \in DOMAIN db /\ j \in DOMAIN db
      BY <2>15, <2>18, <3>3 DEF OneRefresh, Table
    <3>4. CASE i = l \/ j = l
      BY <2>13, <2>14, <3>1, <3>2, <3>4 DEF Table
    <3> QED
      BY <3>1, <3>3, <3>4
  <2>19. ASSUME Ousted(db) PROVE Ousted(e)
    <3> SUFFICES ASSUME NEW s \in Table(e, "session"), NEW v \in Table(e, "user"),
                        e[s].user = v, e[s].live, e[v].set # <<>>, e[v].set[2] = "reset", e[s].with # e[v].password
                 PROVE  Overlapped(s, e[v].set)
      BY DEF Ousted
    <3>1. v \in DOMAIN db /\ e[v] = db[v] /\ db[v].kind = "user"
      BY <2>13, <2>14, <2>15 DEF Table
    <3>2. CASE s = k
      BY <1>8, <1>9, <2>13, <2>14, <3>1, <3>2
    <3>3. CASE s \in DOMAIN db
      BY <2>15, <2>19, <3>1, <3>3 DEF Ousted, Table
    <3> QED
      BY <2>13, <2>14, <3>2, <3>3 DEF Table
  <2>20. Secrets(r, e)
    BY <2>13, <2>14, <2>15 DEF Secrets, Table
  <2>21. AdminStays(e)
    BY <2>13 DEF AdminStays, Admins, Table
  <2> QED
    BY <2>8, <2>16, <2>17, <2>18, <2>19, <2>20, <2>21 DEF Fit, Careful
<1> QED
  BY <1>8, <1>9, TriesAdvances, Zenon

\* refresh spends one token on another.
LEMMA RefreshAdvances ==
  ASSUME NEW r, Begun(r), Refresh(r)
  PROVE  Advances(r)
<1>1. PICK t, s, u : t = Op(r).id /\ s = db[t].session /\ u = db[t].user
  OBVIOUS
<1>2. PICK a : a = [db EXCEPT ![t].live = FALSE]
  OBVIOUS
<1>3. PICK y : y = [kind |-> "refresh", user |-> u, session |-> s, live |-> TRUE]
  OBVIOUS
<1>4. PICK e : e = Inserted(a, r, y)
  OBVIOUS
<1>5. PICK accepted : (accepted => t \in Table(db, "refresh") /\ db[t].live) /\ Tries(r, accepted, e)
  BY <1>1, <1>2, <1>3, <1>4 DEF Refresh, IssueTokens
<1>6. ASSUME accepted PROVE Fit(r, e)
  <2>1. Stored /\ r \in Requests /\ Plain(r, db) /\ \A i \in DOMAIN db : Typed(db[i])
    BY PlainBegins DEF Begun, Stored
  <2>2. t \in DOMAIN db /\ db[t].kind = "refresh" /\ db[t].live /\ Typed(db[t])
    BY <1>5, <1>6, <2>1 DEF Table
  <2>3. Fun(a) /\ DOMAIN a = DOMAIN db /\ a[t] = [db[t] EXCEPT !.live = FALSE] /\ \A i \in DOMAIN db \ {t} : a[i] = db[i]
    BY <1>2, <2>1, <2>2 DEF Fun
  <2>4. \A i \in DOMAIN db : a[i] = db[i] \/ Off(db[i], a[i])
    BY <2>2, <2>3 DEF Off
  <2>5. Plain(r, a)
    BY <2>1, <2>3, <2>4, PlainOff
  <2>6. Session(r, a, AccessKinds)
    BY <2>5 DEF Plain
  <2>7. Typed(y)
    BY <1>3, TypedAccessRows, Zenon
  <2>8. y.kind \in AccessKinds
    BY <1>3, KindsAre
  <2>9. Session(r, e, AccessKinds)
    BY <1>4, <2>1, <2>6, <2>7, <2>8, SessionInsertion, Zenon
  <2>10. PICK l : l = Fresh(a, r)
    OBVIOUS
  <2>11. l \notin DOMAIN a \cup DOMAIN db
    BY <2>1, <2>6, <2>10, FreshIs
  <2>12. /\ DOMAIN e = DOMAIN db \cup {l} /\ New(e) = {l} /\ e[l] = y
         /\ \A i \in DOMAIN db : e[i] = a[i]
    BY <1>4, <2>3, <2>10, <2>11 DEF Inserted, Over, New
  <2>13. y.kind = "refresh" /\ y.session = db[t].session
    BY <1>1, <1>3
  <2>14. ~e[t].live
    <3>1. "live" \in DOMAIN db[t]
      BY <2>2, AccessColumnsAre DEF Typed
    <3>2. a[t].live = FALSE
      BY <2>3, <3>1
    <3> QED
      BY <2>2, <2>12, <3>2
  <2>15. \A i \in DOMAIN db : e[i].kind = db[i].kind /\ (db[i].kind # "refresh" => e[i] = db[i])
    <3>1. "kind" \in DOMAIN db[t]
      BY <2>2, AccessColumnsAre DEF Typed
    <3>2. a[t].kind = "refresh"
      BY <2>2, <2>3, <3>1
    <3> QED
      BY <2>2, <2>3, <2>12, <3>2
  <2>16. NewApart(e)
    BY <2>12, <2>13 DEF NewApart, Rival, Alike
  <2>17. NewUses(e)
    BY <2>12, <2>13 DEF NewUses
  <2>18. ASSUME OneRefresh(db) PROVE OneRefresh(e)
    <3> SUFFICES ASSUME NEW i \in Table(e, "refresh"), NEW j \in Table(e, "refresh"),
                        e[i].live, e[j].live, e[i].session = e[j].session
                 PROVE  i = j
      BY DEF OneRefresh
    <3>1. i \in DOMAIN db \cup {l} /\ j \in DOMAIN db \cup {l}
      BY <2>12 DEF Table
    <3>2. \A m \in DOMAIN db : e[m].kind = "refresh" /\ e[m].live => m # t /\ e[m] = db[m]
      BY <2>3, <2>12, <2>14
    <3>3. \A m \in DOMAIN db : e[m].kind = "refresh" /\ e[m].live => e[m].session # db[t].session
      BY <2>2, <2>18, <3>2 DEF OneRefresh, Table
    <3>4. CASE i \in DOMAIN db /\ j \in DOMAIN db
      BY <2>18, <3>2, <3>4 DEF OneRefresh, Table
    <3>5. CASE i = l \/ j = l
      BY <2>12, <2>13, <3>1, <3>3, <3>5 DEF Table
    <3> QED
      BY <3>1, <3>4, <3>5
  <2>19. ASSUME Ousted(db) PROVE Ousted(e)
    <3>1. \A i \in New(e) : e[i].kind # "session" /\ (e[i].kind = "user" => e[i].set = <<>>)
      BY <2>12, <2>13
    <3>2. \A v \in DOMAIN e \cap DOMAIN db : e[v].kind = "user" => e[v].set = db[v].set /\ e[v].password = db[v].password
      BY <2>15
    <3> QED
      BY <2>1, <2>9, <2>19, <3>1, <3>2, OustedStill
  <2>20. Secrets(r, e)
    BY <2>12, <2>13, <2>15 DEF Secrets, Table
  <2>21. AdminStays(e)
    BY <2>12 DEF AdminStays, Admins, Table
  <2> QED
    BY <2>9, <2>16, <2>17, <2>18, <2>19, <2>20, <2>21 DEF Fit, Careful
<1> QED
  BY <1>5, <1>6, TriesAdvances, Zenon

(***************************************************************************)
(* Requests that set a password.                                           *)
(***************************************************************************)
\* A password is set in the name of the request.
LEMMA SecretFits ==
  ASSUME Stored, NEW r, NEW e, Session(r, e, AccessKinds), NEW u \in Table(db, "user"),
         DOMAIN db \subseteq DOMAIN e, Op(r).do \in Setting,
         NEW how, e[u].set = <<r, how>>, how = "reset" => NoneLive(e, u),
         \A i \in New(e) : e[i].kind \notin {"session", "refresh", "user"},
         \A v \in DOMAIN db \ {u} : db[v].kind = "user" => e[v] = db[v],
         NewApart(e), NewUses(e)
  PROVE  Fit(r, e)
<1>0. \A v \in DOMAIN db : e[v].kind = db[v].kind
  BY FoundRows
<1>1. ASSUME OneRefresh(db) PROVE OneRefresh(e)
  <2>1. \A i \in New(e) : e[i].kind # "refresh"
    OBVIOUS
  <2> QED
    BY <1>1, <2>1, OneRefreshStill
<1>2. ASSUME Ousted(db) PROVE Ousted(e)
  <2> SUFFICES ASSUME NEW s \in Table(e, "session"), NEW v \in Table(e, "user"),
                      e[s].user = v, e[s].live, e[v].set # <<>>, e[v].set[2] = "reset", e[s].with # e[v].password
               PROVE  Overlapped(s, e[v].set)
    BY DEF Ousted
  <2>1. v # u
    <3> SUFFICES ASSUME v = u PROVE FALSE
      OBVIOUS
    <3>1. how = "reset"
      OBVIOUS
    <3> QED
      BY <3>1 DEF NoneLive
  <2>2. s \in DOMAIN e \cap DOMAIN db /\ v \in DOMAIN db /\ e[s].kind = "session" /\ e[v].kind = "user"
    BY DEF Table, New
  <2>3. db[s].kind = "session" /\ db[s].user = v /\ db[s].live /\ db[s].with = e[s].with
    BY <2>2, FoundRows
  <2>4. db[v].kind = "user" /\ e[v] = db[v]
    BY <1>0, <2>1, <2>2
  <2> QED
    BY <1>2, <2>2, <2>3, <2>4 DEF Ousted, Table
<1>3. Secrets(r, e)
  <2> SUFFICES ASSUME NEW v \in Table(e, "user")
               PROVE  \/ v \notin DOMAIN db /\ e[v].set = <<>>
                      \/ v \in DOMAIN db /\ e[v].set = db[v].set /\ e[v].password = db[v].password
                      \/ v \in DOMAIN db /\ Op(r).do \in Setting
                           /\ \E h : e[v].set = <<r, h>> /\ (h = "reset" => NoneLive(e, v))
    BY DEF Secrets
  <2>1. v \in DOMAIN db /\ db[v].kind = "user"
    BY <1>0 DEF Table, New
  <2>2. CASE v = u
    BY <2>1, <2>2
  <2>3. CASE v # u
    BY <2>1, <2>3
  <2> QED
    BY <2>2, <2>3
<1>4. AdminStays(e)
  BY DEF AdminStays, Admins, Table
<1> QED
  BY <1>1, <1>2, <1>3, <1>4 DEF Fit, Careful

(* The session after a link was used. *)
LinkUsed(r, e, t) ==
  /\ Session(r, e, AccessKinds) /\ DOMAIN db \subseteq DOMAIN e
  /\ \A i \in New(e) : e[i].kind = "use" /\ e[i].link = t
  /\ t \in Table(db, "link") /\ ~e[t].unused
UsersKept(e) == \A i \in DOMAIN db : db[i].kind = "user" => e[i] = db[i]

LEMMA UsedIs ==
  ASSUME NEW r, Begun(r), NEW t, Usable(db, t), NEW e, e = Used(db, r, t)
  PROVE  LinkUsed(r, e, t) /\ UsersKept(e)
<1>1. PICK u, of : u = db[t].user /\ of = db[t].of
  OBVIOUS
<1>2. PICK a : a = Spent(db, u, of)
  OBVIOUS
<1>3. PICK x : x = [kind |-> "use", link |-> t]
  OBVIOUS
<1>4. e = Inserted(a, r, x)
  BY <1>1, <1>2, <1>3 DEF Used
<1>5. Plain(r, a) /\ Stored /\ r \in Requests /\ \A i \in DOMAIN db : Typed(db[i])
  BY <1>2, SpentPlain DEF Begun, Stored
<1>6. Session(r, a, AccessKinds)
  BY <1>5 DEF Plain
<1>7. Typed(x)
  BY <1>3, TypedAccessRows, Zenon
<1>8. x.kind \in AccessKinds
  BY <1>3, KindsAre
<1>9. Session(r, e, AccessKinds)
  BY <1>4, <1>5, <1>6, <1>7, <1>8, SessionInsertion, Zenon
<1>10. /\ DOMAIN a = DOMAIN db
       /\ \A i \in DOMAIN db : db[i].kind = "link" /\ db[i].user = u /\ db[i].of = of => ~a[i].unused
       /\ \A i \in DOMAIN db : db[i].kind # "link" => a[i] = db[i]
  BY <1>2, <1>5, SpentIs
<1>11. PICK k : k = Fresh(a, r)
  OBVIOUS
<1>12. k \notin DOMAIN a \cup DOMAIN db
  BY <1>5, <1>6, <1>11, FreshIs
<1>13. DOMAIN e = DOMAIN db \cup {k} /\ New(e) = {k} /\ e[k] = x /\ \A i \in DOMAIN db : e[i] = a[i]
  BY <1>4, <1>10, <1>11, <1>12 DEF Inserted, Over, New
<1>14. t \in DOMAIN db /\ db[t].kind = "link"
  BY DEF Usable, Table
<1>15. x.kind = "use" /\ x.link = t
  BY <1>3
<1> QED
  BY <1>1, <1>9, <1>10, <1>13, <1>14, <1>15 DEF LinkUsed, UsersKept, Table

LEMMA LinkUsedApart ==
  ASSUME Stored, UsesSpent(db), NEW r, NEW t, Usable(db, t), NEW e, LinkUsed(r, e, t)
  PROVE  NewApart(e) /\ NewUses(e)
<1>1. NewApart(e)
  <2> SUFFICES ASSUME NEW i \in New(e), NEW j \in DOMAIN e \cap DOMAIN db, Rival(e[i], e[j]) PROVE FALSE
    BY DEF NewApart
  <2>1. e[i].kind = "use" /\ e[i].link = t /\ Session(r, e, AccessKinds)
    BY DEF LinkUsed
  <2>2. e[j].kind = "use" /\ e[j].link = t
    BY <2>1 DEF Rival, Alike
  <2>3. e[j] = db[j]
    BY <2>1, <2>2, FoundRows
  <2> QED
    BY <2>2, <2>3 DEF UsesSpent, Usable, Table
<1>2. NewUses(e)
  BY DEF NewUses, LinkUsed
<1> QED
  BY <1>1, <1>2

LEMMA LinkUsedUser ==
  ASSUME Stored, NEW r, NEW t, NEW a, LinkUsed(r, a, t), NEW u \in Table(db, "user"), a[u] = db[u],
         NEW y, Patch(db[u], y), NEW e, e = [a EXCEPT ![u] = y]
  PROVE  LinkUsed(r, e, t)
<1>1. u \in DOMAIN a /\ a[u].kind = "user" /\ Typed(a[u]) /\ u \in DOMAIN db /\ Session(r, a, AccessKinds)
  BY DEF LinkUsed, Table, Stored
<1>2. Typed(y) /\ y.kind = a[u].kind
  BY <1>1, TypedPatch DEF Patch
<1>3. Kept(a[u], y) /\ a[u].kind \in AccessKinds
  BY <1>1, <1>2, KindsAre DEF Kept
<1>4. Session(r, e, AccessKinds)
  BY <1>1, <1>2, <1>3, EditionOne
<1>5. DOMAIN e = DOMAIN a /\ \A i \in DOMAIN a \ {u} : e[i] = a[i]
  OBVIOUS
<1>6. New(e) = New(a) /\ u \notin New(a) /\ t # u /\ t \in DOMAIN a
  BY <1>1, <1>5 DEF New, LinkUsed, Table
<1>7. \A i \in New(e) : e[i] = a[i]
  BY <1>5, <1>6 DEF New
<1> QED
  BY <1>4, <1>5, <1>6, <1>7 DEF LinkUsed

\* activate_account, reset_password and change_password.
LEMMA ActivateAccountAdvances ==
  ASSUME NEW r, Begun(r), UsesSpent(db), ActivateAccount(r)
  PROVE  Advances(r)
<1>1. PICK t, u, p : t = Op(r).id /\ u = db[t].user /\ p = Op(r).password
  OBVIOUS
<1>2. PICK d : d = Spent(db, u, "activation")
  OBVIOUS
<1>3. PICK a : a = Used(db, r, t)
  OBVIOUS
<1>4. PICK y : y = [db[u] EXCEPT !.password = p, !.set = <<r, "activation">>]
  OBVIOUS
<1>5. PICK z : z = [y EXCEPT !.status = "active"]
  OBVIOUS
<1>6. PICK e : e = [SetPassword(a, r, u, p, "activation") EXCEPT ![u].status = "active"]
  OBVIOUS
<1>7. \/ GoesOn(r, <<>>)
      \/ Opens(r, d, <<>>, <<>>)
      \/ Usable(db, t) /\ Opens(r, e, Rest(r), <<>>)
  BY <1>1, <1>2, <1>3, <1>6 DEF ActivateAccount
<1>8. Follows(r, Rest(r)) /\ Follows(r, <<>>) /\ Stored
  BY RestFollows DEF Begun
<1>9. Fit(r, d)
  BY <1>2, <1>8, SpentPlain, PlainFits
<1>10. ASSUME Usable(db, t) PROVE Fit(r, e)
  <2>1. LinkUsed(r, a, t) /\ UsersKept(a)
    BY <1>3, <1>10, UsedIs
  <2>2. u \in Table(db, "user")
    BY <1>1, <1>8, <1>10, Owned DEF Usable, Table
  <2>3. u \in DOMAIN db /\ db[u].kind = "user" /\ Typed(db[u]) /\ a[u] = db[u] /\ DOMAIN db \subseteq DOMAIN a
    BY <1>8, <2>1, <2>2 DEF Stored, Table, UsersKept, LinkUsed
  <2>4. Patch(db[u], y)
    BY <1>4, <2>3, UserSecret, Zenon
  <2>5. Typed(y) /\ y.kind = "user"
    BY <2>3, <2>4, TypedPatch DEF Patch
  <2>6. Patch(y, z)
    <3>1. "active" \in Statuses.user
      BY ColumnsAre
    <3> QED
      BY <1>5, <2>5, <3>1, UserStatus, Zenon
  <2>7. Patch(db[u], z)
    BY <2>3, <2>4, <2>6 DEF Patch
  <2>8. "set" \in DOMAIN db[u]
    BY <2>3, AccessColumnsAre DEF Typed
  <2>9. e = [a EXCEPT ![u] = z]
    <3>1. SetPassword(a, r, u, p, "activation") = [a EXCEPT ![u] = y]
      BY <1>4, <2>3 DEF SetPassword
    <3>2. PICK b : b = [a EXCEPT ![u] = y]
      OBVIOUS
    <3>3. b[u] = y /\ e = [b EXCEPT ![u].status = "active"]
      BY <1>6, <2>3, <3>1, <3>2
    <3>4. e = [b EXCEPT ![u] = z]
      BY <1>5, <3>3
    <3> QED
      BY <3>2, <3>4
  <2>10. LinkUsed(r, e, t)
    BY <1>8, <2>1, <2>2, <2>3, <2>7, <2>9, LinkUsedUser
  <2>11. NewApart(e) /\ NewUses(e)
    BY <1>8, <1>10, <2>10, LinkUsedApart
  <2>12. e[u].set = <<r, "activation">>
    BY <1>4, <1>5, <2>3, <2>8, <2>9
  <2>13. \A v \in DOMAIN db \ {u} : db[v].kind = "user" => e[v] = db[v]
    BY <2>1, <2>3, <2>9 DEF UsersKept
  <2>14. Op(r).do \in Setting
    BY DEF ActivateAccount, Next1, Op, Setting
  <2>15. Session(r, e, AccessKinds) /\ DOMAIN db \subseteq DOMAIN e /\ \A i \in New(e) : e[i].kind \notin {"session", "refresh", "user"}
    BY <2>10 DEF LinkUsed
  <2>16. PICK how : how = "activation"
    OBVIOUS
  <2>17. e[u].set = <<r, how>> /\ how # "reset"
    BY <2>12, <2>16
  <2> QED
    BY <1>8, <2>2, <2>11, <2>13, <2>14, <2>15, <2>17, SecretFits
<1>11. CASE GoesOn(r, <<>>)
  BY <1>11, RestAdvances
<1>12. CASE Opens(r, d, <<>>, <<>>)
  BY <1>8, <1>9, <1>12, OpensAdvances, Zenon
<1>13. CASE Usable(db, t) /\ Opens(r, e, Rest(r), <<>>)
  BY <1>8, <1>10, <1>13, OpensAdvances, Zenon
<1> QED
  BY <1>7, <1>11, <1>12, <1>13

LEMMA ResetPasswordAdvances ==
  ASSUME NEW r, Begun(r), UsesSpent(db), ResetPassword(r)
  PROVE  Advances(r)
<1>1. PICK t, u, p : t = Op(r).id /\ u = db[t].user /\ p = Op(r).password
  OBVIOUS
<1>2. PICK a : a = Used(db, r, t)
  OBVIOUS
<1>3. PICK y : y = [db[u] EXCEPT !.password = p, !.set = <<r, "reset">>]
  OBVIOUS
<1>4. PICK b : b = SetPassword(a, r, u, p, "reset")
  OBVIOUS
<1>5. PICK e : e = Ended(b, u)
  OBVIOUS
<1>6. PICK accepted : accepted = Usable(db, t) /\ Tries(r, accepted, e)
  BY <1>1, <1>2, <1>4, <1>5 DEF ResetPassword
<1>7. ASSUME accepted PROVE Fit(r, e)
  <2>0. Usable(db, t) /\ Stored
    BY <1>6, <1>7 DEF Begun
  <2>1. LinkUsed(r, a, t) /\ UsersKept(a)
    BY <1>2, <2>0, UsedIs
  <2>2. u \in Table(db, "user")
    BY <1>1, <2>0, Owned DEF Usable, Table
  <2>3. u \in DOMAIN db /\ db[u].kind = "user" /\ Typed(db[u]) /\ a[u] = db[u] /\ DOMAIN db \subseteq DOMAIN a
    BY <2>0, <2>1, <2>2 DEF Stored, Table, UsersKept, LinkUsed
  <2>4. Patch(db[u], y)
    BY <1>3, <2>3, UserSecret, Zenon
  <2>5. "set" \in DOMAIN db[u]
    BY <2>3, AccessColumnsAre DEF Typed
  <2>6. b = [a EXCEPT ![u] = y]
    BY <1>3, <1>4, <2>3 DEF SetPassword
  <2>7. LinkUsed(r, b, t)
    BY <2>0, <2>1, <2>2, <2>3, <2>4, <2>6, LinkUsedUser
  <2>8. Session(r, b, AccessKinds) /\ \A i \in DOMAIN b : Typed(b[i])
    BY <2>7 DEF LinkUsed, Session
  <2>9. /\ Fun(e) /\ DOMAIN e = DOMAIN b
        /\ \A i \in DOMAIN b : e[i] = b[i] \/ Off(b[i], e[i])
        /\ \A i \in DOMAIN b : b[i].kind \in {"session", "refresh"} /\ b[i].user = u => ~e[i].live
        /\ \A i \in DOMAIN b : b[i].kind \notin {"session", "refresh"} => e[i] = b[i]
    BY <1>5, <2>8, EndedIs
  <2>10. Session(r, e, AccessKinds)
    BY <2>0, <2>8, <2>9, OffSession
  <2>11. New(e) = New(b)
    BY <2>9 DEF New
  <2>12. DOMAIN b = DOMAIN a /\ DOMAIN db \subseteq DOMAIN e /\ b[u] = y /\ b[u].kind = "user"
    BY <2>3, <2>4, <2>6, <2>9 DEF Patch
  <2>13. t \in DOMAIN b /\ b[t].kind = "link"
    <3>1. t \in DOMAIN db /\ db[t].kind = "link" /\ t \in DOMAIN b
      BY <2>3, <2>12, <2>0 DEF Usable, Table
    <3> QED
      BY <2>0, <2>8, <3>1, FoundRows
  <2>14. LinkUsed(r, e, t)
    <3>1. \A i \in New(e) : e[i] = b[i]
      BY <2>7, <2>9, <2>11 DEF LinkUsed, New
    <3>2. e[t] = b[t]
      BY <2>9, <2>13
    <3> QED
      BY <2>7, <2>10, <2>11, <2>12, <3>1, <3>2 DEF LinkUsed
  <2>15. NewApart(e) /\ NewUses(e)
    BY <2>0, <2>14, LinkUsedApart
  <2>16. e[u].set = <<r, "reset">>
    <3>1. u \in DOMAIN b /\ e[u] = b[u] /\ b[u] = y
      BY <2>3, <2>9, <2>12
    <3> QED
      BY <1>3, <2>5, <3>1
  <2>17. \A v \in DOMAIN db \ {u} : db[v].kind = "user" => e[v] = db[v]
    <3> SUFFICES ASSUME NEW v \in DOMAIN db \ {u}, db[v].kind = "user" PROVE e[v] = db[v]
      OBVIOUS
    <3>1. b[v] = db[v] /\ v \in DOMAIN b
      BY <2>1, <2>3, <2>6 DEF UsersKept
    <3> QED
      BY <2>9, <3>1
  <2>18. NoneLive(e, u)
    <3> SUFFICES ASSUME NEW s \in Table(e, "session"), e[s].user = u PROVE ~e[s].live
      BY DEF NoneLive
    <3>1. s \in DOMAIN b /\ Typed(b[s])
      BY <2>8, <2>9 DEF Table
    <3>2. b[s].kind = "session" /\ b[s].user = u
      <4>1. CASE e[s] = b[s]
        BY <4>1 DEF Table
      <4>2. CASE Off(b[s], e[s])
        <5>1. e[s].kind = b[s].kind /\ \A c \in DOMAIN b[s] \ {"live", "unused"} : e[s][c] = b[s][c]
          <6>1. PICK old, off : old = b[s] /\ off = e[s]
            OBVIOUS
          <6>2. Typed(old) /\ Off(old, off)
            BY <3>1, <4>2, <6>1
          <6>3. off.kind = old.kind /\ \A c \in DOMAIN old \ {"live", "unused"} : off[c] = old[c]
            BY <6>2, OffIs
          <6> QED
            BY <6>1, <6>3
        <5>2. b[s].kind = "session"
          BY <5>1 DEF Table
        <5>3. "user" \in DOMAIN b[s]
          BY <3>1, <5>2, AccessColumnsAre DEF Typed
        <5> QED
          BY <5>1, <5>2, <5>3
      <4> QED
        BY <2>9, <3>1, <4>1, <4>2
    <3> QED
      BY <2>9, <3>1, <3>2
  <2>19. Op(r).do \in Setting
    BY DEF ResetPassword, Next1, Op, Setting
  <2>20. \A i \in New(e) : e[i].kind \notin {"session", "refresh", "user"}
    BY <2>14 DEF LinkUsed
  <2>21. PICK how : how = "reset"
    OBVIOUS
  <2>22. e[u].set = <<r, how>>
    BY <2>16, <2>21
  <2> QED
    BY <2>0, <2>2, <2>10, <2>12, <2>15, <2>17, <2>18, <2>19, <2>20, <2>22, SecretFits
<1>8. Tries(r, accepted, e)
  BY <1>6
<1> QED
  BY <1>7, <1>8, TriesAdvances, Zenon

LEMMA ChangePasswordAdvances ==
  ASSUME NEW r, Begun(r), ChangePassword(r)
  PROVE  Advances(r)
<1>1. PICK s, u, p : s = Op(r).by /\ u = db[s].user /\ p = Op(r).password
  OBVIOUS
<1>2. PICK y : y = [db[u] EXCEPT !.password = p, !.set = <<r, "form">>]
  OBVIOUS
<1>3. PICK e : e = SetPassword(db, r, u, p, "form")
  OBVIOUS
<1>4. PICK accepted : (accepted => SignedIn(db, s)) /\ Tries(r, accepted, e)
  BY <1>1, <1>3 DEF ChangePassword
<1>5. ASSUME accepted PROVE Fit(r, e)
  <2>0. SignedIn(db, s) /\ Stored /\ Session(r, db, AccessKinds) /\ New(db) = {}
    BY <1>4, <1>5, SessionBegins DEF Begun
  <2>1. u \in Table(db, "user")
    BY <1>1, <2>0, Owned DEF SignedIn, Table
  <2>2. u \in DOMAIN db /\ db[u].kind = "user" /\ Typed(db[u])
    BY <2>0, <2>1 DEF Stored, Table
  <2>3. Patch(db[u], y)
    BY <1>2, <2>2, UserSecret, Zenon
  <2>4. "set" \in DOMAIN db[u]
    BY <2>2, AccessColumnsAre DEF Typed
  <2>5. e = [db EXCEPT ![u] = y]
    BY <1>2, <1>3, <2>2 DEF SetPassword
  <2>6. Typed(y) /\ y.kind = db[u].kind
    BY <2>2, <2>3, TypedPatch DEF Patch
  <2>7. Kept(db[u], y) /\ db[u].kind \in AccessKinds
    BY <2>2, <2>6, KindsAre DEF Kept
  <2>8. Session(r, e, AccessKinds)
    BY <2>0, <2>2, <2>5, <2>6, <2>7, EditionOne
  <2>9. DOMAIN e = DOMAIN db /\ New(e) = {} /\ e[u] = y /\ \A v \in DOMAIN db \ {u} : e[v] = db[v]
    BY <2>2, <2>5 DEF New
  <2>10. NewApart(e) /\ NewUses(e)
    BY <2>9 DEF NewApart, NewUses
  <2>11. PICK how : how = "form"
    OBVIOUS
  <2>12. e[u].set = <<r, how>> /\ how # "reset"
    BY <1>2, <2>4, <2>9, <2>11
  <2>13. Op(r).do \in Setting
    BY DEF ChangePassword, Next1, Op, Setting
  <2>14. /\ \A i \in New(e) : e[i].kind \notin {"session", "refresh", "user"}
         /\ \A v \in DOMAIN db \ {u} : db[v].kind = "user" => e[v] = db[v]
         /\ DOMAIN db \subseteq DOMAIN e
    BY <2>9
  <2> QED
    BY <2>0, <2>1, <2>8, <2>10, <2>12, <2>13, <2>14, SecretFits
<1> QED
  BY <1>4, <1>5, TriesAdvances, Zenon

\* All requests on users.
LEMMA AccessStepAdvances ==
  ASSUME NEW r, Begun(r), UsesSpent(db), AccessStep(r)
  PROVE  Advances(r)
  BY LoginAdvances, RefreshAdvances, LogoutAdvances, ExpiredAdvances, InviteAdvances,
     ForgotPasswordAdvances, ActivateAccountAdvances, ResetPasswordAdvances, ChangePasswordAdvances,
     CreateUserAdvances, ChangeRoleAdvances, ResendInvitationAdvances, DeactivateUserAdvances,
     ReactivateUserAdvances, DeleteUserAdvances, CreateRoleAdvances, UpdateRoleAdvances,
     DeleteRoleAdvances, SavePersonAdvances, EditPersonAdvances, AssignProductAdvances,
     RemoveProductAdvances, SaveOrganizationAdvances, EntitleAdvances, SaveProductAdvances,
     DeleteProductAdvances
  DEF AccessStep

\* Every step of a request but its commit: it goes on, or opens a transaction
\* for a careful session.
LEMMA StepAdvances ==
  ASSUME NEW r, Begun(r), UsesSpent(db), BookStep(r) \/ IntakeStep(r) \/ AccessStep(r)
  PROVE  Advances(r)
<1>1. CASE BookStep(r)
  BY <1>1, BookAdvances, BookStepAside, Zenon DEF OfBook
<1>2. CASE IntakeStep(r)
  BY <1>2, BookAdvances, IntakeStepProceeds, Zenon DEF OfBook
<1> QED
  BY <1>1, <1>2, AccessStepAdvances

\* Steps are taken by requests that have no transaction open.
LEMMA StepBegins ==
  ASSUME NEW r, BookStep(r) \/ IntakeStep(r) \/ AccessStep(r)
  PROVE  Idle(r) /\ todo[r] # <<>>
<1>1. CASE BookStep(r)
  BY <1>1 DEF BookStep, SaveClient, SavePortfolio, EditClient, EditPortfolio, ActivateClient, DeletePortfolio,
     DeleteClient, Next1
<1>2. CASE IntakeStep(r)
  BY <1>2 DEF IntakeStep, Enqueue, EnqueueForClient, RequeueMissing, ClaimSuggestion, EvaluateGates, Suggest,
     FinishSuggestion, Upload, Claim, PreviewFile, Begin, Link, Import, ImportClients, Close, Fail, Engage, Next1
<1>3. CASE AccessStep(r)
  BY <1>3 DEF AccessStep, Login, Refresh, Logout, Expired, Invite, ForgotPassword, ActivateAccount, ResetPassword,
     ChangePassword, CreateUser, ChangeRole, ResendInvitation, DeactivateUser, ReactivateUser, DeleteUser,
     CreateRole, UpdateRole, DeleteRole, SavePerson, EditPerson, AssignProduct, RemoveProduct, SaveOrganization,
     Entitle, SaveProduct, DeleteProduct, Next1
<1> QED
  BY <1>1, <1>2, <1>3

(***************************************************************************)
(* What an open transaction is going to write.                             *)
(***************************************************************************)
Ins(r) == plan[r].write.insert
Upd(r) == plan[r].write.update
Del(r) == plan[r].write.delete

\* An id of a row that is, was, or was going to be committed.
Settled(i) == Old(i) /\ \A q \in DOMAIN plan : i \notin DOMAIN Ins(q)

\* New values g for some columns of a row of this kind.
Suits(kind, g) ==
  /\ kind \notin {"work", "use", "may"} /\ DOMAIN g \subseteq Columns[kind] \ {"kind"}
  /\ \A c \in DOMAIN g : Takes(kind, c, g[c])
  /\ kind \in {"session", "refresh", "link"} => \A c \in DOMAIN g : c \in {"live", "unused"} /\ g[c] = FALSE

\* What r is going to write: new rows with ids of its own, and columns that suit
\* the rows there are now.
Shaped(r) ==
  /\ IsFiniteSet(DOMAIN Ins(r))
  /\ \A i \in DOMAIN Ins(r) : i \notin DOMAIN db /\ Old(i) /\ i[1] = r /\ Typed(Ins(r)[i])
  /\ \A i \in DOMAIN Upd(r) \cup Del(r) : Settled(i)
  /\ \A i \in DOMAIN Upd(r) \cap DOMAIN db : Suits(db[i].kind, Upd(r)[i])
  /\ \A i \in Del(r) \cap DOMAIN db : db[i].kind # "work"

\* The link whose use is recorded is turned off together with it.
UsesMine(r) ==
  \A i \in DOMAIN Ins(r) :
    Ins(r)[i].kind = "use" =>
      /\ Settled(Ins(r)[i].link)
      /\ Ins(r)[i].link \in Table(db, "link") /\ Ins(r)[i].link \notin Del(r) =>
           \/ ~db[Ins(r)[i].link].unused
           \/ Ins(r)[i].link \in DOMAIN Upd(r) /\ "unused" \in DOMAIN Upd(r)[Ins(r)[i].link]

\* An admin stays, unless another request came in between.
AdminSafe(r) ==
  \/ \E pair \in met : r \in pair
  \/ Admins(db) # {} => \E m \in Admins(db) : m \notin Del(r)

\* The invariant: the tables, the programs, and every open transaction.
Inv ==
  /\ story \in Stories /\ Stored
  /\ DOMAIN plan \subseteq Requests
  /\ faults \in 0 .. story.faults
  /\ DOMAIN todo = Requests /\ \A r \in Requests : Program(todo[r])
  /\ \A r \in DOMAIN plan :
       /\ Follows(r, plan[r].then) /\ Follows(r, plan[r].else)
       /\ Shaped(r) /\ UsesMine(r) /\ AdminSafe(r)
  /\ \A r, q \in DOMAIN plan : r # q => {r, q} \in met
  /\ UsesSpent(db) /\ \A i \in Table(db, "use") : Settled(db[i].link)

(***************************************************************************)
(* What the flush leaves.                                                  *)
(***************************************************************************)
\* New values for some columns leave the row well shaped.
LEMMA SuitsIs ==
  ASSUME NEW x, Typed(x), NEW g, Suits(x.kind, g), NEW y, y = Over(g, x)
  PROVE  Typed(y) /\ Kept(x, y)
<1>1. DOMAIN x = Columns[x.kind] /\ x.kind \in DOMAIN Columns /\ \A c \in DOMAIN x : Takes(x.kind, c, x[c])
  BY DEF Typed
<1>2. DOMAIN g \subseteq DOMAIN x \ {"kind"}
  BY <1>1 DEF Suits
<1>3. /\ Fun(y) /\ DOMAIN y = DOMAIN x
      /\ \A c \in DOMAIN g : y[c] = g[c]
      /\ \A c \in DOMAIN x \ DOMAIN g : y[c] = x[c]
  BY <1>2, OverIs
<1>4. "kind" \in DOMAIN x
  BY <1>1 DEF Columns
<1>5. y.kind = x.kind
  BY <1>2, <1>3, <1>4
<1>6. \A c \in DOMAIN x : y[c] = x[c] \/ Takes(x.kind, c, y[c])
  BY <1>3 DEF Suits
<1>7. Patch(x, y)
  BY <1>3, <1>5, <1>6 DEF Patch
<1>8. Typed(y)
  BY <1>7, TypedPatch
<1>9. Kept(x, y)
  BY <1>3, <1>5 DEF Kept, Suits
<1> QED
  BY <1>8, <1>9

\* What a change leaves of a row: sessions, tokens and links are only turned off,
\* uses and permissions not changed at all.
LEMMA KeptRow ==
  ASSUME NEW x, Typed(x), NEW y, y = x \/ Kept(x, y)
  PROVE  /\ y.kind = x.kind
         /\ x.kind \in {"use", "may", "work"} => y = x
         /\ x.kind = "session" => y.user = x.user /\ y.with = x.with /\ (y.live => x.live)
         /\ x.kind = "link" => y.user = x.user /\ y.of = x.of /\ (y.unused => x.unused)
         /\ x.kind = "refresh" => y.session = x.session /\ y.user = x.user /\ (y.live => x.live)
<1>1. CASE y = x
  BY <1>1
<1>2. CASE Kept(x, y)
  <2>1. DOMAIN x = Columns[x.kind]
    BY DEF Typed
  <2>2. y.kind = x.kind /\ x.kind \notin {"use", "may", "work"}
    BY <1>2 DEF Kept
  <2>3. ASSUME x.kind = "session" PROVE y.user = x.user /\ y.with = x.with /\ (y.live => x.live)
    <3>1. DOMAIN x = {"kind", "user", "live", "with"}
      BY <2>1, <2>3, AccessColumnsAre
    <3> QED
      BY <1>2, <2>3, <3>1 DEF Kept
  <2>4. ASSUME x.kind = "link" PROVE y.user = x.user /\ y.of = x.of /\ (y.unused => x.unused)
    <3>1. DOMAIN x = {"kind", "user", "of", "unused"}
      BY <2>1, <2>4, AccessColumnsAre
    <3> QED
      BY <1>2, <2>4, <3>1 DEF Kept
  <2>5. ASSUME x.kind = "refresh" PROVE y.session = x.session /\ y.user = x.user /\ (y.live => x.live)
    <3>1. DOMAIN x = {"kind", "user", "session", "live"}
      BY <2>1, <2>5, AccessColumnsAre
    <3> QED
      BY <1>2, <2>5, <3>1 DEF Kept
  <2> QED
    BY <2>2, <2>3, <2>4, <2>5
<1> QED
  BY <1>1, <1>2

\* The rows d are what the writes w leave of the rows old.
Flushes(old, w, d) ==
  /\ Fun(d) /\ DOMAIN d = DOMAIN w.insert \cup (DOMAIN old \ w.delete)
  /\ \A i \in DOMAIN w.insert : d[i] = w.insert[i]
  /\ \A i \in DOMAIN old \ w.delete :
       /\ d[i] = old[i] \/ Kept(old[i], d[i])
       /\ i \notin DOMAIN w.update => d[i] = old[i]
       /\ i \in DOMAIN w.update => d[i] = Over(w.update[i], old[i])
  /\ \A i \in DOMAIN d : Typed(d[i])

\* The flush of writes that suit the rows.
LEMMA FlushIs ==
  ASSUME NEW old, \A i \in DOMAIN old : Typed(old[i]), NEW w,
         \A i \in DOMAIN w.insert : i \notin DOMAIN old /\ Typed(w.insert[i]),
         \A i \in DOMAIN w.update \cap DOMAIN old : Suits(old[i].kind, w.update[i]),
         NEW d, d = Flushed(old, w)
  PROVE  Flushes(old, w, d)
<1>1. PICK f : f = [i \in DOMAIN old \ w.delete |-> IF i \in DOMAIN w.update THEN Over(w.update[i], old[i]) ELSE old[i]]
  OBVIOUS
<1>2. PICK g : g = w.insert
  OBVIOUS
<1>3. d = Over(g, f)
  BY <1>1, <1>2 DEF Flushed
<1>4. DOMAIN f = DOMAIN old \ w.delete /\ \A i \in DOMAIN f : f[i] = IF i \in DOMAIN w.update THEN Over(w.update[i], old[i]) ELSE old[i]
  BY <1>1
<1>5. \A i \in DOMAIN g : i \notin DOMAIN old /\ Typed(g[i])
  BY <1>2
<1>6. /\ Fun(d) /\ DOMAIN d = DOMAIN g \cup DOMAIN f
      /\ \A i \in DOMAIN g : d[i] = g[i]
      /\ \A i \in DOMAIN f \ DOMAIN g : d[i] = f[i]
  BY <1>3 DEF Over, Fun
<1>7. ASSUME NEW i \in DOMAIN old \ w.delete
      PROVE  /\ d[i] = old[i] \/ Kept(old[i], d[i])
             /\ i \notin DOMAIN w.update => d[i] = old[i]
             /\ i \in DOMAIN w.update => d[i] = Over(w.update[i], old[i])
             /\ Typed(d[i])
  <2>1. d[i] = (IF i \in DOMAIN w.update THEN Over(w.update[i], old[i]) ELSE old[i]) /\ Typed(old[i])
    BY <1>4, <1>5, <1>6
  <2>2. CASE i \in DOMAIN w.update
    <3>1. Suits(old[i].kind, w.update[i])
      BY <2>2
    <3>2. d[i] = Over(w.update[i], old[i])
      BY <2>1, <2>2
    <3>3. Typed(d[i]) /\ Kept(old[i], d[i])
      BY <2>1, <3>1, <3>2, SuitsIs
    <3> QED
      BY <2>2, <3>2, <3>3
  <2>3. CASE i \notin DOMAIN w.update
    BY <2>1, <2>3
  <2> QED
    BY <2>2, <2>3
<1> QED
  BY <1>2, <1>4, <1>5, <1>6, <1>7 DEF Flushes

\* The rows d are what a commit of r leaves of the committed rows.
Wrote(r, d) ==
  /\ Fun(d) /\ DOMAIN d = DOMAIN Ins(r) \cup (DOMAIN db \ Del(r))
  /\ \A i \in DOMAIN Ins(r) : d[i] = Ins(r)[i]
  /\ \A i \in DOMAIN db \ Del(r) :
       /\ d[i] = db[i] \/ Kept(db[i], d[i])
       /\ i \notin DOMAIN Upd(r) => d[i] = db[i]
       /\ i \in DOMAIN Upd(r) => d[i] = Over(Upd(r)[i], db[i])
  /\ \A i \in DOMAIN d : Typed(d[i])

\* What a commit of r would leave now.
LEMMA AfterIs ==
  ASSUME Stored, NEW r, Shaped(r), NEW d, d = After(r)
  PROVE  Wrote(r, d)
<1>1. PICK w : w = plan[r].write
  OBVIOUS
<1>2. d = Flushed(db, w) /\ Ins(r) = w.insert /\ Upd(r) = w.update /\ Del(r) = w.delete
  BY <1>1 DEF After, Ins, Upd, Del
<1>3. /\ \A i \in DOMAIN db : Typed(db[i])
      /\ \A i \in DOMAIN w.insert : i \notin DOMAIN db /\ Typed(w.insert[i])
      /\ \A i \in DOMAIN w.update \cap DOMAIN db : Suits(db[i].kind, w.update[i])
  BY <1>2 DEF Stored, Shaped
<1>4. Flushes(db, w, d)
  BY <1>2, <1>3, FlushIs
<1> QED
  BY <1>2, <1>4 DEF Flushes, Wrote

(***************************************************************************)
(* The transaction that a step opens.                                      *)
(***************************************************************************)
\* The variables after a transaction was opened.
LEMMA OpensIs ==
  ASSUME Stored, NEW r, Idle(r), NEW d, NEW then, NEW else, Opens(r, d, then, else)
  PROVE  /\ DOMAIN plan' = DOMAIN plan \cup {r}
         /\ plan'[r].then = then /\ plan'[r].else = else /\ plan'[r].write = Difference(db, d)
         /\ \A q \in DOMAIN plan : plan'[q] = plan[q] /\ q # r
         /\ db' = db /\ todo' = todo /\ faults' = faults /\ story' = story
         /\ met' = met \cup {{r, q} : q \in DOMAIN plan}
         /\ serial' = [serial EXCEPT ![r] = @ + Cardinality(New(d))]
<1>1. PICK f : f = [q \in {r} |-> [write |-> Difference(db, d), then |-> then, else |-> else]]
  OBVIOUS
<1>2. plan' = Over(plan, f) /\ r \notin DOMAIN plan
  BY <1>1 DEF Opens, Idle
<1>3. /\ DOMAIN plan' = DOMAIN plan \cup {r} /\ plan'[r] = f[r]
      /\ \A q \in DOMAIN plan : plan'[q] = plan[q]
  BY <1>1, <1>2 DEF Over
<1> QED
  BY <1>1, <1>2, <1>3 DEF Opens

(* A transaction that leads from the rows to d inserts what is new, changes *)
(* the columns that differ and deletes the rest.                           *)
Opened(d, ins, upd, del) ==
  /\ ins = [i \in New(d) |-> d[i]]
  /\ DOMAIN upd = {i \in DOMAIN d \cap DOMAIN db : d[i] # db[i]}
  /\ \A i \in DOMAIN upd : upd[i] = ChangedColumns(db[i], d[i])
  /\ del = DOMAIN db \ DOMAIN d
OthersStay == \A q \in DOMAIN plan : Ins(q)' = Ins(q) /\ Upd(q)' = Upd(q) /\ Del(q)' = Del(q)

\* What it is going to write.
LEMMA OpensIns ==
  ASSUME Stored, NEW r, Idle(r), NEW d, NEW then, NEW else, Opens(r, d, then, else)
  PROVE  Opened(d, Ins(r)', Upd(r)', Del(r)') /\ OthersStay
<1>1. plan'[r].write = Difference(db, d) /\ \A q \in DOMAIN plan : plan'[q] = plan[q]
  BY OpensIs
<1>2. /\ Ins(r)' = Difference(db, d).insert /\ Upd(r)' = Difference(db, d).update /\ Del(r)' = Difference(db, d).delete
  BY <1>1 DEF Ins, Upd, Del
<1>3. \A q \in DOMAIN plan : Ins(q)' = Ins(q) /\ Upd(q)' = Upd(q) /\ Del(q)' = Del(q)
  BY <1>1 DEF Ins, Upd, Del
<1> QED
  BY <1>2, <1>3 DEF Difference, New, Opened, OthersStay

(* Ids that are drawn stay drawn. *)
LEMMA OldGrows ==
  ASSUME Stored, NEW r \in Requests, NEW k \in Nat, serial' = [serial EXCEPT ![r] = @ + k],
         NEW i, Old(i)
  PROVE  Old(i)'
<1> SUFFICES ASSUME NEW q \in Requests, NEW n \in Nat, i = <<q, n>> PROVE n <= serial'[q]
  BY DEF Old
<1>1. n <= serial[q] /\ serial[q] \in Nat /\ serial'[q] \in Nat /\ serial'[q] >= serial[q]
  BY DEF Old, Stored
<1> QED
  BY <1>1

\* The ids it drew are new.
LEMMA OpensSettled ==
  ASSUME Stored, NEW r \in Requests, Idle(r), NEW d, Session(r, d, Kinds), NEW then, NEW else, Opens(r, d, then, else)
  PROVE  /\ \A i : Settled(i) => Settled(i)'
         /\ \A i \in New(d) : Old(i)' /\ i[1] = r
         /\ \A i \in New(d) : ~Old(i)
<1>1. PICK k : k = Cardinality(New(d))
  OBVIOUS
<1>2. k \in Nat /\ serial[r] \in Nat
  BY <1>1, FS_CardinalityType DEF Session, Stored
<1>3. serial' = [serial EXCEPT ![r] = @ + k]
  BY <1>1 DEF Opens
<1>4. serial'[r] = serial[r] + k /\ r \in DOMAIN serial
  BY <1>2, <1>3 DEF Stored
<1>5. ASSUME NEW i \in New(d) PROVE Old(i)' /\ i[1] = r /\ ~Old(i)
  <2>1. PICK n \in 1 .. k : i = <<r, serial[r] + n>>
    BY <1>1 DEF Session
  <2>2. PICK m : m = serial[r] + n
    OBVIOUS
  <2>3. m \in Nat /\ m <= serial'[r] /\ ~(m <= serial[r])
    BY <1>2, <1>4, <2>2
  <2>4. i = <<r, m>>
    BY <2>1, <2>2
  <2> QED
    BY <2>3, <2>4 DEF Old
<1>6. DOMAIN plan' = DOMAIN plan \cup {r} /\ DOMAIN Ins(r)' = New(d) /\ \A q \in DOMAIN plan : Ins(q)' = Ins(q)
  <2>1. Ins(r)' = [i \in New(d) |-> d[i]] /\ \A q \in DOMAIN plan : Ins(q)' = Ins(q)
    <3>1. Opened(d, Ins(r)', Upd(r)', Del(r)') /\ OthersStay
      BY OpensIns
    <3> QED
      BY <3>1 DEF Opened, OthersStay
  <2>2. DOMAIN plan' = DOMAIN plan \cup {r}
    BY OpensIs
  <2> QED
    BY <2>1, <2>2
<1>7. ASSUME NEW i, Settled(i) PROVE Settled(i)'
  <2>1. Old(i) /\ \A q \in DOMAIN plan : i \notin DOMAIN Ins(q)
    BY <1>7 DEF Settled
  <2>2. Old(i)'
    BY <1>2, <1>3, <2>1, OldGrows
  <2>3. i \notin New(d)
    BY <1>5, <2>1
  <2>4. \A q \in DOMAIN plan' : i \notin DOMAIN Ins(q)'
    BY <1>6, <2>1, <2>3
  <2> QED
    BY <2>2, <2>4 DEF Settled
<1> QED
  BY <1>5, <1>7

\* The columns a session changed suit the row.
LEMMA ChangedSuits ==
  ASSUME NEW x, Typed(x), NEW y, Typed(y), Kept(x, y)
  PROVE  Suits(x.kind, ChangedColumns(x, y))
<1>1. PICK g : g = ChangedColumns(x, y)
  OBVIOUS
<1>2. DOMAIN g = {c \in DOMAIN y : y[c] # x[c]} /\ \A c \in DOMAIN g : g[c] = y[c]
  BY <1>1 DEF ChangedColumns
<1>3. /\ DOMAIN x = Columns[x.kind] /\ DOMAIN y = Columns[x.kind] /\ y.kind = x.kind
      /\ \A c \in DOMAIN y : Takes(x.kind, c, y[c])
  BY DEF Typed, Kept
<1>4. "kind" \notin DOMAIN g
  BY <1>2, <1>3
<1>5. Suits(x.kind, g)
  BY <1>2, <1>3, <1>4 DEF Suits, Kept
<1> QED
  BY <1>1, <1>5

(* Committed rows have ids that are settled. *)
LEMMA RowsSettled ==
  ASSUME Inv, NEW i \in DOMAIN db
  PROVE  Settled(i)
  BY DEF Inv, Stored, Settled, Shaped

\* What it is going to write is well shaped.
LEMMA OpensShaped ==
  ASSUME Inv, NEW r \in Requests, Idle(r), NEW d, Session(r, d, Kinds), NEW then, NEW else, Opens(r, d, then, else)
  PROVE  Shaped(r)'
<1>0. Stored
  BY DEF Inv
<1>1. /\ Ins(r)' = [i \in New(d) |-> d[i]]
      /\ DOMAIN Upd(r)' = {i \in DOMAIN d \cap DOMAIN db : d[i] # db[i]}
      /\ \A i \in DOMAIN Upd(r)' : Upd(r)'[i] = ChangedColumns(db[i], d[i])
      /\ Del(r)' = DOMAIN db \ DOMAIN d
  <2>1. Opened(d, Ins(r)', Upd(r)', Del(r)') /\ OthersStay
    BY <1>0, OpensIns
  <2> QED
    BY <2>1 DEF Opened, OthersStay
<1>2. db' = db
  BY DEF Opens
<1>3. IsFiniteSet(DOMAIN Ins(r)')
  BY <1>1 DEF Session
<1>4. \A i \in New(d) : Old(i)' /\ i[1] = r
  BY <1>0, OpensSettled
<1>5. \A i \in DOMAIN Ins(r)' : i \notin DOMAIN db' /\ Old(i)' /\ i[1] = r /\ Typed(Ins(r)'[i])
  BY <1>1, <1>2, <1>4 DEF Session, New
<1>6. \A i \in DOMAIN db : Settled(i)'
  BY <1>0, RowsSettled, OpensSettled
<1>7. \A i \in DOMAIN Upd(r)' \cup Del(r)' : Settled(i)'
  BY <1>1, <1>6
<1>8. ASSUME NEW i \in DOMAIN Upd(r)' PROVE Suits(db[i].kind, Upd(r)'[i])
  <2>1. i \in DOMAIN d \cap DOMAIN db /\ d[i] # db[i]
    BY <1>1
  <2>2. Typed(db[i]) /\ Typed(d[i]) /\ Kept(db[i], d[i])
    BY <1>0, <2>1 DEF Session, Stored
  <2> QED
    BY <1>1, <2>2, ChangedSuits
<1>9. \A i \in DOMAIN Upd(r)' \cap DOMAIN db' : Suits(db'[i].kind, Upd(r)'[i])
  BY <1>2, <1>8
<1>10. \A i \in Del(r)' \cap DOMAIN db' : db'[i].kind # "work"
  BY <1>1, <1>2 DEF Session
<1> QED
  BY <1>3, <1>5, <1>7, <1>9, <1>10 DEF Shaped

\* It turns off the link it uses.
LEMMA OpensUses ==
  ASSUME Inv, NEW r \in Requests, Idle(r), NEW d, Session(r, d, Kinds), NewUses(d),
         NEW then, NEW else, Opens(r, d, then, else)
  PROVE  UsesMine(r)'
<1>0. Stored
  BY DEF Inv
<1>1. /\ Ins(r)' = [i \in New(d) |-> d[i]]
      /\ DOMAIN Upd(r)' = {i \in DOMAIN d \cap DOMAIN db : d[i] # db[i]}
      /\ \A i \in DOMAIN Upd(r)' : Upd(r)'[i] = ChangedColumns(db[i], d[i])
      /\ Del(r)' = DOMAIN db \ DOMAIN d
  <2>1. Opened(d, Ins(r)', Upd(r)', Del(r)') /\ OthersStay
    BY <1>0, OpensIns
  <2> QED
    BY <2>1 DEF Opened, OthersStay
<1>2. db' = db
  BY DEF Opens
<1>3. ASSUME NEW i \in DOMAIN Ins(r)', Ins(r)'[i].kind = "use", NEW l, l = Ins(r)'[i].link
      PROVE  /\ Settled(l)'
             /\ l \in Table(db, "link") /\ l \notin Del(r)' =>
                  ~db[l].unused \/ (l \in DOMAIN Upd(r)' /\ "unused" \in DOMAIN Upd(r)'[l])
  <2>1. l \in Table(db, "link") /\ (l \in DOMAIN d => ~d[l].unused)
    BY <1>1, <1>3 DEF NewUses
  <2>2. l \in DOMAIN db /\ db[l].kind = "link" /\ Typed(db[l])
    BY <1>0, <2>1 DEF Table, Stored
  <2>3. Settled(l)'
    BY <1>0, <2>2, RowsSettled, OpensSettled
  <2>4. ASSUME l \in DOMAIN d, db[l].unused PROVE l \in DOMAIN Upd(r)' /\ "unused" \in DOMAIN Upd(r)'[l]
    <3>1. d[l] # db[l] /\ ~d[l].unused
      BY <2>1, <2>4
    <3>2. l \in DOMAIN Upd(r)' /\ Upd(r)'[l] = ChangedColumns(db[l], d[l])
      BY <1>1, <2>2, <2>4, <3>1
    <3>3. Typed(d[l]) /\ d[l].kind = "link"
      BY <1>0, <2>2, <2>4, FoundRows DEF Session
    <3>4. "unused" \in DOMAIN d[l]
      BY <3>3, AccessColumnsAre DEF Typed
    <3>5. d[l].unused # db[l].unused
      BY <2>4, <3>1
    <3> QED
      BY <3>2, <3>4, <3>5 DEF ChangedColumns
  <2> QED
    BY <1>1, <2>2, <2>3, <2>4
<1>4. ASSUME NEW i \in DOMAIN Ins(r)', Ins(r)'[i].kind = "use"
      PROVE  (/\ Settled(Ins(r)[i].link)
              /\ Ins(r)[i].link \in Table(db, "link") /\ Ins(r)[i].link \notin Del(r) =>
                   \/ ~db[Ins(r)[i].link].unused
                   \/ Ins(r)[i].link \in DOMAIN Upd(r) /\ "unused" \in DOMAIN Upd(r)[Ins(r)[i].link])'
  <2>1. PICK l : l = Ins(r)'[i].link
    OBVIOUS
  <2>2. /\ Settled(l)'
        /\ l \in Table(db, "link") /\ l \notin Del(r)' =>
             ~db[l].unused \/ (l \in DOMAIN Upd(r)' /\ "unused" \in DOMAIN Upd(r)'[l])
    BY <1>3, <1>4, <2>1
  <2>3. Table(db', "link") = Table(db, "link") /\ db'[l] = db[l]
    BY <1>2
  <2> QED
    BY <2>1, <2>2, <2>3
<1> QED
  BY <1>4 DEF UsesMine

\* It leaves an administrator.
LEMMA OpensAdmin ==
  ASSUME Inv, NEW r, Idle(r), NEW d, AdminStays(d), NEW then, NEW else, Opens(r, d, then, else)
  PROVE  AdminSafe(r)'
<1>0. Stored
  BY DEF Inv
<1>1. Del(r)' = DOMAIN db \ DOMAIN d
  <2>1. Opened(d, Ins(r)', Upd(r)', Del(r)') /\ OthersStay
    BY <1>0, OpensIns
  <2> QED
    BY <2>1 DEF Opened, OthersStay
<1>2. db' = db
  BY DEF Opens
<1>3. Admins(db') = Admins(db)
  BY <1>2
<1>4. Admins(db) # {} => \E m \in Admins(db) : m \notin Del(r)'
  BY <1>1 DEF AdminStays
<1>5. Admins(db') # {} => \E m \in Admins(db') : m \notin Del(r)'
  BY <1>3, <1>4
<1> QED
  BY <1>5 DEF AdminSafe

\* A transaction is opened.
LEMMA OpensInv ==
  ASSUME Inv, NEW r \in Requests, Idle(r), NEW d, Session(r, d, Kinds), Careful(r, d),
         NEW then, NEW else, Follows(r, then), Follows(r, else), Opens(r, d, then, else)
  PROVE  Inv'
<1>0. Stored /\ Session(r, d, Kinds) /\ NewUses(d) /\ AdminStays(d)
  BY DEF Inv, Careful
<1>1. /\ DOMAIN plan' = DOMAIN plan \cup {r}
      /\ plan'[r].then = then /\ plan'[r].else = else
      /\ \A q \in DOMAIN plan : plan'[q] = plan[q] /\ q # r
      /\ db' = db /\ todo' = todo /\ faults' = faults /\ story' = story
      /\ met' = met \cup {{r, q} : q \in DOMAIN plan}
      /\ serial' = [serial EXCEPT ![r] = @ + Cardinality(New(d))]
  BY <1>0, OpensIs
<1>2. \A q \in DOMAIN plan : Ins(q)' = Ins(q) /\ Upd(q)' = Upd(q) /\ Del(q)' = Del(q)
  <2>1. Opened(d, Ins(r)', Upd(r)', Del(r)') /\ OthersStay
    BY <1>0, OpensIns
  <2> QED
    BY <2>1 DEF Opened, OthersStay
<1>3. \A i : Settled(i) => Settled(i)'
  BY <1>0, OpensSettled
<1>4. Cardinality(New(d)) \in Nat
  BY <1>0, FS_CardinalityType DEF Session
<1>5. \A i : Old(i) => Old(i)'
  BY <1>0, <1>1, <1>4, OldGrows
<1>6. Stored'
  <2>1. serial' \in [Requests -> Nat]
    BY <1>0, <1>1, <1>4 DEF Stored
  <2> QED
    BY <1>0, <1>1, <1>5, <2>1 DEF Stored
<1>7. Shaped(r)' /\ UsesMine(r)' /\ AdminSafe(r)'
  BY <1>0, OpensShaped, OpensUses, OpensAdmin
<1>8. ASSUME NEW q \in DOMAIN plan PROVE Shaped(q)' /\ UsesMine(q)' /\ AdminSafe(q)'
  <2>1. Shaped(q) /\ UsesMine(q) /\ AdminSafe(q) /\ Ins(q)' = Ins(q) /\ Upd(q)' = Upd(q) /\ Del(q)' = Del(q)
    BY <1>2 DEF Inv
  <2>2. Shaped(q)'
    BY <1>1, <1>3, <1>5, <2>1 DEF Shaped
  <2>3. UsesMine(q)'
    BY <1>1, <1>3, <2>1 DEF UsesMine, Table
  <2>4. AdminSafe(q)'
    <3>1. Admins(db') = Admins(db) /\ met \subseteq met'
      BY <1>1
    <3> QED
      BY <2>1, <3>1 DEF AdminSafe
  <2> QED
    BY <2>2, <2>3, <2>4
<1>9. \A q \in DOMAIN plan' : Shaped(q)' /\ UsesMine(q)' /\ AdminSafe(q)'
  BY <1>1, <1>7, <1>8
<1>10. (\A q \in DOMAIN plan : Follows(q, plan[q].then) /\ Follows(q, plan[q].else))'
  BY <1>1 DEF Inv, Follows, Rest, Op
<1>11. \A p, q \in DOMAIN plan' : p # q => {p, q} \in met'
  <2> SUFFICES ASSUME NEW p \in DOMAIN plan', NEW q \in DOMAIN plan', p # q PROVE {p, q} \in met'
    OBVIOUS
  <2>1. CASE p \in DOMAIN plan /\ q \in DOMAIN plan
    BY <1>1, <2>1 DEF Inv
  <2>2. CASE p = r /\ q \in DOMAIN plan
    BY <1>1, <2>2
  <2>3. CASE q = r /\ p \in DOMAIN plan
    <3>1. {p, q} = {r, p}
      BY <2>3
    <3> QED
      BY <1>1, <2>3, <3>1
  <2> QED
    BY <1>1, <2>1, <2>2, <2>3
<1>12. (UsesSpent(db) /\ \A i \in Table(db, "use") : Settled(db[i].link))'
  BY <1>1, <1>3 DEF Inv, UsesSpent, Table
<1>13. story' \in Stories /\ DOMAIN plan' \subseteq Requests /\ faults' \in 0 .. story'.faults
       /\ DOMAIN todo' = Requests /\ \A q \in Requests : Program(todo'[q])
  BY <1>1 DEF Inv
<1> QED
  BY <1>6, <1>9, <1>10, <1>11, <1>12, <1>13 DEF Inv

\* A request goes on without writing.
LEMMA GoesOnInv ==
  ASSUME Inv, NEW r \in Requests, Idle(r), NEW t, Follows(r, t), GoesOn(r, t)
  PROVE  Inv'
<1>1. /\ db' = db /\ plan' = plan /\ serial' = serial /\ met' = met /\ faults' = faults /\ story' = story
      /\ DOMAIN todo = Requests /\ todo' = [todo EXCEPT ![r] = t] /\ r \notin DOMAIN plan
  BY DEF GoesOn, Idle, Inv
<1>2. \A q \in Requests \ {r} : todo'[q] = todo[q]
  BY <1>1
<1>3. \A i : Old(i) => Old(i)'
  BY <1>1 DEF Old
<1>4. \A q : Ins(q)' = Ins(q) /\ Upd(q)' = Upd(q) /\ Del(q)' = Del(q)
  BY <1>1 DEF Ins, Upd, Del
<1>5. \A i : Settled(i) => Settled(i)'
  BY <1>1, <1>3, <1>4 DEF Settled
<1>6. Stored'
  BY <1>1, <1>3 DEF Inv, Stored
<1>7. ASSUME NEW q \in DOMAIN plan PROVE Shaped(q)' /\ UsesMine(q)' /\ AdminSafe(q)'
  <2>1. Shaped(q) /\ UsesMine(q) /\ AdminSafe(q) /\ Ins(q)' = Ins(q) /\ Upd(q)' = Upd(q) /\ Del(q)' = Del(q)
    BY <1>4 DEF Inv
  <2>2. Shaped(q)'
    BY <1>1, <1>3, <1>5, <2>1 DEF Shaped
  <2>3. UsesMine(q)'
    BY <1>1, <1>5, <2>1 DEF UsesMine, Table
  <2>4. AdminSafe(q)'
    BY <1>1, <2>1 DEF AdminSafe
  <2> QED
    BY <2>2, <2>3, <2>4
<1>8. (\A q \in DOMAIN plan : Follows(q, plan[q].then) /\ Follows(q, plan[q].else))'
  BY <1>1, <1>2 DEF Inv, Follows, Rest, Op
<1>9. DOMAIN todo' = Requests /\ \A q \in Requests : Program(todo'[q])
  BY <1>1, <1>2 DEF Inv, Follows
<1>10. (UsesSpent(db) /\ \A i \in Table(db, "use") : Settled(db[i].link))'
  BY <1>1, <1>5 DEF Inv, UsesSpent, Table
<1>11. story' \in Stories /\ DOMAIN plan' \subseteq Requests /\ faults' \in 0 .. story'.faults
       /\ \A p, q \in DOMAIN plan' : p # q => {p, q} \in met'
  BY <1>1 DEF Inv
<1>12. \A q \in DOMAIN plan' : Shaped(q)' /\ UsesMine(q)' /\ AdminSafe(q)'
  BY <1>1, <1>7
<1> QED
  BY <1>6, <1>8, <1>9, <1>10, <1>11, <1>12 DEF Inv

\* The process dies.
LEMMA DieInv ==
  ASSUME Inv, Die, \A s \in Stories : s.faults \in Nat
  PROVE  Inv'
<1>1. /\ db' = db /\ serial' = serial /\ met' = met /\ story' = story /\ DOMAIN plan' = {}
      /\ faults' = faults + 1 /\ faults < story.faults
      /\ todo' = [r \in Requests |-> IF r \in DOMAIN plan \/ todo[r] # story.todo[r] THEN <<>> ELSE todo[r]]
  BY DEF Die, NoRows
<1>2. \A i : Old(i) => Old(i)'
  BY <1>1 DEF Old
<1>3. \A i : Settled(i) => Settled(i)'
  BY <1>1, <1>2 DEF Settled
<1>4. Stored'
  BY <1>1, <1>2 DEF Inv, Stored
<1>5. faults' \in 0 .. story'.faults
  <2>1. story.faults \in Nat /\ faults \in 0 .. story.faults
    BY DEF Inv
  <2> QED
    BY <1>1, <2>1
<1>6. Program(<<>>)
  BY DEF Program, Settings
<1>7. DOMAIN todo' = Requests /\ \A q \in Requests : Program(todo'[q])
  BY <1>1, <1>6 DEF Inv
<1>8. (UsesSpent(db) /\ \A i \in Table(db, "use") : Settled(db[i].link))'
  BY <1>1, <1>3 DEF Inv, UsesSpent, Table
<1>9. story' \in Stories /\ \A p, q \in DOMAIN plan' : p # q => {p, q} \in met'
  BY <1>1 DEF Inv
<1> QED
  BY <1>1, <1>4, <1>5, <1>7, <1>8, <1>9 DEF Inv

(***************************************************************************)
(* The commit.                                                             *)
(***************************************************************************)
\* A transaction ends: the database is asked to commit it, or fails.
Ends(r) == Commit(r) \/ Refused(r)

\* The variables after that.
LEMMA CommitIs ==
  ASSUME NEW r, Ends(r)
  PROVE  /\ DOMAIN plan' = DOMAIN plan \ {r} /\ \A q \in DOMAIN plan' : plan'[q] = plan[q]
         /\ serial' = serial /\ met' = met /\ story' = story
         /\ faults' = faults \/ (faults < story.faults /\ faults' = faults + 1)
         /\ \/ db' = db /\ todo' = [todo EXCEPT ![r] = plan[r].else]
            \/ db' = After(r) /\ SoundAll(After(r)) /\ DOMAIN Upd(r) \subseteq DOMAIN db
                 /\ todo' = [todo EXCEPT ![r] = plan[r].then]
<1>1. plan' = Without(plan, {r}) /\ r \in DOMAIN plan
  BY DEF Ends, Commit, Commits, Refused
<1>2. DOMAIN plan' = DOMAIN plan \ {r} /\ \A q \in DOMAIN plan' : plan'[q] = plan[q]
  BY <1>1 DEF Without
<1>3. CASE Commit(r)
  <2>1. Commits(r, SoundAll(After(r)))
    BY <1>3 DEF Commit
  <2>2. PICK taken \in BOOLEAN : taken = (DOMAIN plan[r].write.update \subseteq DOMAIN db /\ SoundAll(After(r)))
    OBVIOUS
  <2>3. /\ db' = IF taken THEN After(r) ELSE db
        /\ todo' = [todo EXCEPT ![r] = IF taken THEN plan[r].then ELSE plan[r].else]
    BY <2>1, <2>2 DEF Commits
  <2>4. serial' = serial /\ met' = met /\ faults' = faults /\ story' = story
    BY <2>1 DEF Commits
  <2> QED
    BY <1>2, <2>2, <2>3, <2>4 DEF Upd
<1>4. CASE Refused(r)
  BY <1>2, <1>4 DEF Refused
<1> QED
  BY <1>3, <1>4 DEF Ends

\* A commit leaves alone what others are going to write, and the ids drawn.
LEMMA CommitKeeps ==
  ASSUME NEW r, Ends(r)
  PROVE  /\ \A q \in DOMAIN plan' : q # r /\ q \in DOMAIN plan /\ Ins(q)' = Ins(q) /\ Upd(q)' = Upd(q) /\ Del(q)' = Del(q)
         /\ \A i : Old(i) => Old(i)'
         /\ \A i : Settled(i) => Settled(i)'
<1>1. DOMAIN plan' = DOMAIN plan \ {r} /\ serial' = serial /\ \A q \in DOMAIN plan' : plan'[q] = plan[q]
  BY CommitIs
<1>2. \A q \in DOMAIN plan' : q # r /\ q \in DOMAIN plan /\ Ins(q)' = Ins(q) /\ Upd(q)' = Upd(q) /\ Del(q)' = Del(q)
  BY <1>1 DEF Ins, Upd, Del
<1>3. \A i : Old(i) => Old(i)'
  BY <1>1 DEF Old
<1> QED
  BY <1>2, <1>3 DEF Settled

(* A settled row that the commit leaves was there before. *)
LEMMA SettledRow ==
  ASSUME NEW r \in DOMAIN plan, NEW d, Wrote(r, d), NEW i \in DOMAIN d, Settled(i)
  PROVE  i \in DOMAIN db \ Del(r)
  BY DEF Wrote, Settled

\* The rows after a commit are well shaped and sound.
LEMMA WroteStored ==
  ASSUME Inv, NEW r \in DOMAIN plan, Ends(r), db' = After(r), SoundAll(After(r))
  PROVE  Stored' /\ Wrote(r, db')
<1>1. Shaped(r) /\ Stored
  BY DEF Inv
<1>2. PICK d : d = After(r)
  OBVIOUS
<1>3. Wrote(r, d)
  BY <1>1, <1>2, AfterIs
<1>4. IsFiniteSet(DOMAIN d)
  <2>1. IsFiniteSet(DOMAIN db) /\ DOMAIN db \ Del(r) \subseteq DOMAIN db
    BY <1>1 DEF Stored
  <2>2. IsFiniteSet(DOMAIN db \ Del(r))
    BY <2>1, FS_Subset, Zenon
  <2>3. IsFiniteSet(DOMAIN Ins(r))
    BY <1>1 DEF Shaped
  <2>4. PICK A, B : A = DOMAIN Ins(r) /\ B = DOMAIN db \ Del(r)
    OBVIOUS
  <2>5. IsFiniteSet(A \cup B)
    BY <2>2, <2>3, <2>4, FS_Union
  <2> QED
    BY <1>3, <2>4, <2>5 DEF Wrote
<1>5. \A i \in DOMAIN d : Old(i)
  BY <1>1, <1>3 DEF Wrote, Stored, Shaped
<1>6. serial' = serial /\ \A i : Old(i) => Old(i)'
  BY CommitIs, CommitKeeps
<1>7. Stored'
  BY <1>1, <1>2, <1>3, <1>4, <1>5, <1>6 DEF Stored, Wrote
<1> QED
  BY <1>2, <1>3, <1>7

\* What is open stays well shaped when another request commits.
LEMMA CommitOthers ==
  ASSUME Inv, NEW r \in DOMAIN plan, Ends(r), Wrote(r, db'), NEW q \in DOMAIN plan'
  PROVE  Shaped(q)' /\ UsesMine(q)'
<1>1. /\ q # r /\ q \in DOMAIN plan /\ Ins(q)' = Ins(q) /\ Upd(q)' = Upd(q) /\ Del(q)' = Del(q)
      /\ \A i : Old(i) => Old(i)'
      /\ \A i : Settled(i) => Settled(i)'
  BY CommitKeeps
<1>2. Shaped(q) /\ UsesMine(q) /\ Shaped(r) /\ Stored
  BY <1>1 DEF Inv
<1>3. PICK d : d = db'
  OBVIOUS
<1>4. Wrote(r, d)
  BY <1>3
<1>5. \A i \in DOMAIN Ins(q) : i \notin DOMAIN d
  BY <1>1, <1>2, <1>4 DEF Wrote, Shaped
<1>6. ASSUME NEW i \in DOMAIN d, Settled(i)
      PROVE  i \in DOMAIN db /\ d[i].kind = db[i].kind /\ (d[i].kind = "link" /\ d[i].unused => db[i].unused)
  <2>1. i \in DOMAIN db \ Del(r)
    BY <1>4, <1>6, SettledRow
  <2>2. Typed(db[i]) /\ (d[i] = db[i] \/ Kept(db[i], d[i]))
    BY <1>2, <1>4, <2>1 DEF Wrote, Stored
  <2> QED
    BY <2>1, <2>2, KeptRow
<1>7. Shaped(q)'
  <2>1. \A i \in DOMAIN Upd(q) \cap DOMAIN d : Suits(d[i].kind, Upd(q)[i])
    BY <1>2, <1>6 DEF Shaped
  <2>2. \A i \in Del(q) \cap DOMAIN d : d[i].kind # "work"
    BY <1>2, <1>6 DEF Shaped
  <2>3. \A i \in DOMAIN Ins(q) : Old(i) /\ i[1] = q /\ Typed(Ins(q)[i])
    BY <1>2 DEF Shaped
  <2>4. IsFiniteSet(DOMAIN Ins(q)) /\ \A i \in DOMAIN Upd(q) \cup Del(q) : Settled(i)
    BY <1>2 DEF Shaped
  <2> QED
    BY <1>1, <1>3, <1>5, <2>1, <2>2, <2>3, <2>4 DEF Shaped
<1>8. UsesMine(q)'
  <2>1. ASSUME NEW i \in DOMAIN Ins(q), Ins(q)[i].kind = "use", NEW l, l = Ins(q)[i].link
        PROVE  /\ Settled(l)
               /\ l \in Table(d, "link") /\ l \notin Del(q) =>
                    ~d[l].unused \/ (l \in DOMAIN Upd(q) /\ "unused" \in DOMAIN Upd(q)[l])
    <3>1. /\ Settled(l)
          /\ l \in Table(db, "link") /\ l \notin Del(q) =>
                    ~db[l].unused \/ (l \in DOMAIN Upd(q) /\ "unused" \in DOMAIN Upd(q)[l])
      BY <1>2, <2>1 DEF UsesMine
    <3> QED
      BY <1>6, <3>1 DEF Table
  <2>2. ASSUME NEW i \in DOMAIN Ins(q), Ins(q)[i].kind = "use"
        PROVE  (/\ Settled(Ins(q)[i].link)
                /\ Ins(q)[i].link \in Table(db, "link") /\ Ins(q)[i].link \notin Del(q) =>
                     \/ ~db[Ins(q)[i].link].unused
                     \/ Ins(q)[i].link \in DOMAIN Upd(q) /\ "unused" \in DOMAIN Upd(q)[Ins(q)[i].link])'
    <3>1. PICK l : l = Ins(q)[i].link
      OBVIOUS
    <3>2. /\ Settled(l)
          /\ l \in Table(d, "link") /\ l \notin Del(q) =>
               ~d[l].unused \/ (l \in DOMAIN Upd(q) /\ "unused" \in DOMAIN Upd(q)[l])
      BY <2>1, <2>2, <3>1
    <3>3. Settled(l)' /\ Ins(q)'[i].link = l
      BY <1>1, <3>1, <3>2
    <3> QED
      BY <1>1, <1>3, <3>2, <3>3
  <2> QED
    BY <1>1, <2>2 DEF UsesMine
<1> QED
  BY <1>7, <1>8

\* The links that were used are off after the commit.
LEMMA CommitUses ==
  ASSUME Inv, NEW r \in DOMAIN plan, Ends(r), Wrote(r, db')
  PROVE  (UsesSpent(db) /\ \A i \in Table(db, "use") : Settled(db[i].link))'
<1>1. Shaped(r) /\ UsesMine(r) /\ Stored /\ UsesSpent(db) /\ \A i \in Table(db, "use") : Settled(db[i].link)
  BY DEF Inv
<1>2. PICK d : d = db'
  OBVIOUS
<1>3. Wrote(r, d)
  BY <1>2
<1>4. ASSUME NEW i \in DOMAIN d, Settled(i)
      PROVE  i \in DOMAIN db \ Del(r) /\ d[i].kind = db[i].kind /\ (d[i].kind = "link" /\ d[i].unused => db[i].unused)
  <2>1. i \in DOMAIN db \ Del(r)
    BY <1>3, <1>4, SettledRow
  <2>2. Typed(db[i]) /\ (d[i] = db[i] \/ Kept(db[i], d[i]))
    BY <1>1, <1>3, <2>1 DEF Wrote, Stored
  <2> QED
    BY <2>1, <2>2, KeptRow
<1>5. ASSUME NEW i \in Table(d, "use"), NEW l, l = d[i].link
      PROVE  Settled(l) /\ (l \in Table(d, "link") => ~d[l].unused)
  <2>1. CASE i \in DOMAIN Ins(r)
    <3>1. d[i] = Ins(r)[i] /\ Ins(r)[i].kind = "use"
      BY <1>3, <2>1 DEF Wrote, Table
    <3>2. /\ Settled(l)
          /\ l \in Table(db, "link") /\ l \notin Del(r) =>
               ~db[l].unused \/ (l \in DOMAIN Upd(r) /\ "unused" \in DOMAIN Upd(r)[l])
      BY <1>1, <1>5, <2>1, <3>1 DEF UsesMine
    <3>3. ASSUME l \in Table(d, "link") PROVE ~d[l].unused
      <4>1. l \in DOMAIN db \ Del(r) /\ db[l].kind = "link" /\ (d[l].unused => db[l].unused)
        BY <1>4, <3>2, <3>3 DEF Table
      <4>2. CASE ~db[l].unused
        BY <4>1, <4>2
      <4>3. CASE l \in DOMAIN Upd(r) /\ "unused" \in DOMAIN Upd(r)[l]
        <5>1. Suits("link", Upd(r)[l])
          BY <1>1, <4>1, <4>3 DEF Shaped
        <5>2. Upd(r)[l]["unused"] = FALSE
          BY <4>3, <5>1 DEF Suits
        <5>3. PICK g : g = Upd(r)[l]
          OBVIOUS
        <5>4. d[l] = Over(g, db[l]) /\ "unused" \in DOMAIN g /\ g["unused"] = FALSE
          BY <1>3, <4>1, <4>3, <5>2, <5>3 DEF Wrote
        <5> QED
          BY <5>4 DEF Over
      <4> QED
        BY <3>2, <4>1, <4>2, <4>3 DEF Table
    <3> QED
      BY <3>2, <3>3
  <2>2. CASE i \notin DOMAIN Ins(r)
    <3>1. i \in DOMAIN db \ Del(r) /\ Typed(db[i]) /\ (d[i] = db[i] \/ Kept(db[i], d[i])) /\ d[i].kind = "use"
      BY <1>1, <1>3, <2>2 DEF Wrote, Table, Stored
    <3>2. d[i] = db[i]
      BY <3>1, KeptRow
    <3>3. i \in Table(db, "use") /\ l = db[i].link
      BY <1>5, <3>1, <3>2 DEF Table
    <3>4. Settled(l) /\ (l \in Table(db, "link") => ~db[l].unused)
      BY <1>1, <3>3 DEF UsesSpent
    <3> QED
      BY <1>4, <3>4 DEF Table
  <2> QED
    BY <2>1, <2>2
<1>6. \A i \in Table(d, "use") : Settled(d[i].link)
  BY <1>5
<1>7. UsesSpent(d)
  BY <1>5 DEF UsesSpent
<1>8. \A i : Settled(i) => Settled(i)'
  BY CommitKeeps
<1>9. (\A i \in Table(db, "use") : Settled(db[i].link))'
  <2> SUFFICES ASSUME NEW i \in Table(d, "use") PROVE (Settled(db[i].link))'
    BY <1>2
  <2>1. PICK l : l = d[i].link
    OBVIOUS
  <2>2. Settled(l)'
    BY <1>6, <1>8, <2>1
  <2> QED
    BY <1>2, <2>1, <2>2
<1> QED
  BY <1>2, <1>7, <1>9

\* A commit, taken or refused.
LEMMA CommitInv ==
  ASSUME Inv, NEW r \in DOMAIN plan, Ends(r)
  PROVE  Inv'
<1>1. /\ DOMAIN plan' = DOMAIN plan \ {r} /\ \A q \in DOMAIN plan' : plan'[q] = plan[q]
      /\ serial' = serial /\ met' = met /\ story' = story
      /\ faults' = faults \/ (faults < story.faults /\ faults' = faults + 1)
  BY CommitIs
<1>2. /\ \A q \in DOMAIN plan' : q # r /\ q \in DOMAIN plan /\ Ins(q)' = Ins(q) /\ Upd(q)' = Upd(q) /\ Del(q)' = Del(q)
      /\ \A i : Old(i) => Old(i)'
      /\ \A i : Settled(i) => Settled(i)'
  BY CommitKeeps
<1>3. r \in Requests /\ Follows(r, plan[r].then) /\ Follows(r, plan[r].else) /\ DOMAIN todo = Requests
  BY DEF Inv
<1>4. todo' = [todo EXCEPT ![r] = plan[r].else] \/ todo' = [todo EXCEPT ![r] = plan[r].then]
  BY CommitIs
<1>5. /\ DOMAIN todo' = Requests /\ \A q \in Requests : Program(todo'[q])
      /\ \A q \in Requests \ {r} : todo'[q] = todo[q]
  BY <1>3, <1>4 DEF Inv, Follows
<1>6. (\A q \in DOMAIN plan : Follows(q, plan[q].then) /\ Follows(q, plan[q].else))'
  BY <1>1, <1>3, <1>5 DEF Inv, Follows, Rest, Op
<1>13. story.faults \in Nat
  BY AdministrationAssumption DEF Inv, StoryAssumption
<1>14. faults \in 0 .. story.faults
  BY DEF Inv
<1>15. faults' \in 0 .. story'.faults
  BY <1>1, <1>13, <1>14
<1>7. story' \in Stories /\ DOMAIN plan' \subseteq Requests /\ faults' \in 0 .. story'.faults
      /\ \A p, q \in DOMAIN plan' : p # q => {p, q} \in met'
  BY <1>1, <1>15 DEF Inv
<1>8. \A q \in DOMAIN plan' : AdminSafe(q)'
  <2> SUFFICES ASSUME NEW q \in DOMAIN plan' PROVE AdminSafe(q)'
    OBVIOUS
  <2>1. {q, r} \in met'
    BY <1>1, <1>2 DEF Inv
  <2> QED
    BY <2>1 DEF AdminSafe
<1>9. CASE db' = db
  <2>1. Stored'
    BY <1>1, <1>2, <1>9 DEF Inv, Stored
  <2>2. ASSUME NEW q \in DOMAIN plan' PROVE Shaped(q)' /\ UsesMine(q)'
    <3>1. Shaped(q) /\ UsesMine(q) /\ Ins(q)' = Ins(q) /\ Upd(q)' = Upd(q) /\ Del(q)' = Del(q)
      BY <1>2 DEF Inv
    <3>2. Shaped(q)'
      BY <1>2, <1>9, <3>1 DEF Shaped
    <3>3. UsesMine(q)'
      BY <1>2, <1>9, <3>1 DEF UsesMine, Table
    <3> QED
      BY <3>2, <3>3
  <2>3. (UsesSpent(db) /\ \A i \in Table(db, "use") : Settled(db[i].link))'
    BY <1>2, <1>9 DEF Inv, UsesSpent, Table
  <2> QED
    BY <1>5, <1>6, <1>7, <1>8, <2>1, <2>2, <2>3 DEF Inv
<1>10. CASE db' = After(r) /\ SoundAll(After(r))
  <2>1. Stored' /\ Wrote(r, db')
    BY <1>10, WroteStored
  <2>2. \A q \in DOMAIN plan' : Shaped(q)' /\ UsesMine(q)'
    BY <2>1, CommitOthers
  <2>3. (UsesSpent(db) /\ \A i \in Table(db, "use") : Settled(db[i].link))'
    BY <2>1, CommitUses
  <2> QED
    BY <1>5, <1>6, <1>7, <1>8, <2>1, <2>2, <2>3 DEF Inv
<1> QED
  BY <1>9, <1>10, CommitIs

\* The stories begin well.
LEMMA InitInv ==
  ASSUME Init
  PROVE  Inv
<1>1. PICK s \in Stories : StartsWith(s)
  BY DEF Init
<1>2. StoryAssumption(s)
  BY AdministrationAssumption
<1>3. db = s.rows /\ todo = s.todo /\ story = s /\ DOMAIN plan = {} /\ serial = [r \in Requests |-> 0] /\ faults = 0
  BY <1>1 DEF StartsWith, NoRows
<1>4. /\ IsFiniteSet(DOMAIN db) /\ Fun(db) /\ SoundAll(db) /\ Orderly(db)
      /\ \A i \in DOMAIN db : i[1] \notin Requests /\ Typed(db[i])
      /\ DOMAIN todo = Requests /\ \A r \in Requests : Program(todo[r])
      /\ story.faults \in Nat
  BY <1>2, <1>3 DEF StoryAssumption, Fun
<1>5. ASSUME NEW i \in DOMAIN db PROVE Old(i)
  <2> SUFFICES ASSUME NEW r \in Requests, NEW n \in Nat, i = <<r, n>> PROVE FALSE
    BY DEF Old
  <2>1. i[1] = r
    OBVIOUS
  <2> QED
    BY <1>4, <2>1
<1>6. serial \in [Requests -> Nat]
  BY <1>3
<1>7. Stored
  BY <1>4, <1>5, <1>6 DEF Stored
<1>8. UsesSpent(db) /\ \A i \in Table(db, "use") : db[i].link \in DOMAIN db
  BY <1>4 DEF Orderly, UsesSpent, Table
<1>9. \A i \in DOMAIN db : Settled(i)
  BY <1>3, <1>5 DEF Settled
<1>10. faults \in 0 .. story.faults
  BY <1>3, <1>4
<1> QED
  BY <1>1, <1>3, <1>4, <1>7, <1>8, <1>9, <1>10 DEF Inv

\* The handlers run from states of the invariant.
LEMMA BegunIs ==
  ASSUME Inv, NEW r \in Requests, BookStep(r) \/ IntakeStep(r) \/ AccessStep(r)
  PROVE  Idle(r) /\ Begun(r) /\ Advances(r)
<1>1. Idle(r) /\ todo[r] # <<>>
  BY StepBegins
<1>2. Begun(r) /\ UsesSpent(db)
  BY <1>1 DEF Begun, Inv
<1> QED
  BY <1>1, <1>2, StepAdvances

\* Every step keeps the invariant.
LEMMA NextInv ==
  ASSUME Inv, [Next]_vars
  PROVE  Inv'
<1>1. CASE UNCHANGED vars
  <2>1. /\ db' = db /\ todo' = todo /\ plan' = plan /\ serial' = serial /\ met' = met /\ faults' = faults /\ story' = story
    BY <1>1 DEF vars
  <2>2. Stored'
    BY <2>1 DEF Inv, Stored, Old
  <2>3. \A q \in DOMAIN plan' : q \in DOMAIN plan /\ Shaped(q)' /\ UsesMine(q)' /\ AdminSafe(q)'
    <3> SUFFICES ASSUME NEW q \in DOMAIN plan PROVE Shaped(q)' /\ UsesMine(q)' /\ AdminSafe(q)'
      BY <2>1
    <3>1. Shaped(q) /\ UsesMine(q) /\ AdminSafe(q)
      BY DEF Inv
    <3>2. Shaped(q)'
      BY <2>1, <3>1 DEF Shaped, Ins, Upd, Del, Settled, Old
    <3>3. UsesMine(q)'
      BY <2>1, <3>1 DEF UsesMine, Ins, Upd, Del, Settled, Old, Table
    <3>4. AdminSafe(q)'
      BY <2>1, <3>1 DEF AdminSafe, Del, Admins, Table
    <3> QED
      BY <3>2, <3>3, <3>4
  <2>4. (\A q \in DOMAIN plan : Follows(q, plan[q].then) /\ Follows(q, plan[q].else))'
    BY <2>1 DEF Inv, Follows, Rest, Op
  <2>5. (UsesSpent(db) /\ \A i \in Table(db, "use") : Settled(db[i].link))'
    BY <2>1 DEF Inv, UsesSpent, Table, Settled, Old, Ins
  <2> QED
    BY <2>1, <2>2, <2>3, <2>4, <2>5 DEF Inv
<1>2. CASE Die
  <2>1. \A s \in Stories : s.faults \in Nat
    BY AdministrationAssumption DEF StoryAssumption
  <2> QED
    BY <1>2, <2>1, DieInv
<1>3. ASSUME NEW r \in Requests, BookStep(r) \/ IntakeStep(r) \/ AccessStep(r) PROVE Inv'
  <2>1. Idle(r) /\ Advances(r)
    BY <1>3, BegunIs
  <2>2. ASSUME NEW t, Follows(r, t), GoesOn(r, t) PROVE Inv'
    BY <2>1, <2>2, GoesOnInv
  <2>3. ASSUME NEW d, NEW then, NEW else, Session(r, d, Kinds), Careful(r, d), Follows(r, then), Follows(r, else),
               Opens(r, d, then, else)
        PROVE  Inv'
    BY <2>1, <2>3, OpensInv
  <2> QED
    BY <2>1, <2>2, <2>3 DEF Advances
<1>4. ASSUME NEW r \in Requests, Ends(r) PROVE Inv'
  <2>1. r \in DOMAIN plan
    BY <1>4 DEF Ends, Commit, Refused
  <2> QED
    BY <1>4, <2>1, CommitInv
<1> QED
  BY <1>1, <1>2, <1>3, <1>4 DEF Next, Ends

\* The strengthened invariant: the tables, what is open, and what remains to do.
THEOREM Inductive == Spec => []Inv
<1>1. Init => Inv
  BY InitInv
<1>2. Inv /\ [Next]_vars => Inv'
  BY NextInv
<1> QED
  BY <1>1, <1>2, PTL DEF Spec

\* The rows obey the constraints of the tables and their columns take what they
\* allow, whatever requests commit in whatever order: each flush writes the changed
\* columns only, onto rows that others may have changed since they were read.
THEOREM RowsKeepTheirShape == Spec => []TypeOK
<1>1. Inv => TypeOK
  BY DEF Inv, TypeOK, Stored
<1> QED
  BY <1>1, Inductive, PTL

(* Only a commit changes the rows. *)
LEMMA RowsChange ==
  ASSUME Inv, [Next]_vars
  PROVE  db' = db \/ \E r \in DOMAIN plan : Ends(r) /\ Wrote(r, db') /\ SoundAll(db')
<1>1. CASE UNCHANGED vars \/ Die
  BY <1>1 DEF vars, Die
<1>2. ASSUME NEW r \in Requests, BookStep(r) \/ IntakeStep(r) \/ AccessStep(r) PROVE db' = db
  <2>1. Advances(r)
    BY <1>2, BegunIs
  <2> QED
    BY <2>1 DEF Advances, GoesOn, Opens
<1>3. ASSUME NEW r \in Requests, Ends(r)
      PROVE  db' = db \/ (r \in DOMAIN plan /\ Ends(r) /\ Wrote(r, db') /\ SoundAll(db'))
  <2>1. r \in DOMAIN plan
    BY <1>3 DEF Ends, Commit, Refused
  <2>2. CASE db' = After(r) /\ SoundAll(After(r))
    BY <1>3, <2>1, <2>2, WroteStored
  <2> QED
    BY <1>3, <2>2, CommitIs
<1> QED
  BY <1>1, <1>2, <1>3 DEF Next, Ends

\* No deletion takes an account that has runs or payments: delete_client and
\* delete_portfolio look for them, and where they came meanwhile the foreign keys
\* refuse the commit.
THEOREM HistoryStays == Spec => HistoryKept
<1>1. ASSUME Inv, [Next]_vars, NEW w \in Table(db, "work") PROVE w \in DOMAIN db' /\ db[w].account \in DOMAIN db'
  <2>0. w \in DOMAIN db /\ db[w].kind = "work" /\ Typed(db[w]) /\ SoundAll(db)
    BY <1>1 DEF Table, Inv, Stored
  <2>1. CASE db' = db
    BY <2>0, <2>1 DEF SoundAll, Sound, Attached, Table
  <2>2. ASSUME NEW r \in DOMAIN plan, Wrote(r, db'), SoundAll(db') PROVE w \in DOMAIN db' /\ db[w].account \in DOMAIN db'
    <3>1. w \notin Del(r)
      BY <1>1, <2>0 DEF Inv, Shaped
    <3>2. w \in DOMAIN db' /\ (db'[w] = db[w] \/ Kept(db[w], db'[w]))
      BY <2>0, <2>2, <3>1 DEF Wrote
    <3>3. db'[w] = db[w]
      BY <2>0, <3>2, KeptRow
    <3>4. PICK d : d = db'
      OBVIOUS
    <3>5. Attached(d, d[w]) /\ d[w].kind = "work"
      BY <2>0, <2>2, <3>2, <3>3, <3>4 DEF SoundAll, Sound
    <3> QED
      BY <3>2, <3>3, <3>4, <3>5 DEF Attached, Table
  <2> QED
    BY <1>1, <2>1, <2>2, RowsChange
<1>2. Inv /\ [Next]_vars => [\A w \in Table(db, "work") : w \in DOMAIN db' /\ db[w].account \in DOMAIN db']_vars
  BY <1>1
<1> QED
  BY <1>2, Inductive, PTL DEF Spec, HistoryKept

\* The last Operations Admin goes only when purge_user_identity ran while another
\* request did.
THEOREM AnAdminStays == Spec => AdminKept
<1>1. ASSUME Inv, [Next]_vars, Admins(db) # {}, Admins(db') = {}
      PROVE  \/ \E m \in Admins(db) : m \in DOMAIN db'
             \/ \E r \in DOMAIN plan \ DOMAIN plan' : \E pair \in met : r \in pair
  <2>1. CASE db' = db
    BY <1>1, <2>1
  <2>2. ASSUME NEW r \in DOMAIN plan, Ends(r), Wrote(r, db')
        PROVE  \/ \E m \in Admins(db) : m \in DOMAIN db'
               \/ \E q \in DOMAIN plan \ DOMAIN plan' : \E pair \in met : q \in pair
    <3>1. AdminSafe(r) /\ r \in DOMAIN plan \ DOMAIN plan'
      BY <1>1, <2>2, CommitIs DEF Inv
    <3>2. CASE \E pair \in met : r \in pair
      BY <3>1, <3>2
    <3>3. CASE \E m \in Admins(db) : m \notin Del(r)
      <4>1. PICK m \in Admins(db) : m \notin Del(r)
        BY <3>3
      <4>2. m \in DOMAIN db \ Del(r)
        BY <4>1 DEF Admins, Table
      <4> QED
        BY <2>2, <4>2 DEF Wrote
    <3> QED
      BY <1>1, <3>1, <3>2, <3>3 DEF AdminSafe
  <2> QED
    BY <1>1, <2>1, <2>2, RowsChange
<1>2. Inv /\ [Next]_vars =>
        [Admins(db) # {} /\ Admins(db') = {} =>
           \/ \E m \in Admins(db) : m \in DOMAIN db'
           \/ \E r \in DOMAIN plan \ DOMAIN plan' : \E pair \in met : r \in pair]_vars
  BY <1>1
<1> QED
  BY <1>2, Inductive, PTL DEF Spec, AdminKept

(***************************************************************************)
(* Rows of which there should be one, sessions and passwords.              *)
(***************************************************************************)
\* Rivals come of requests that overlapped.
Apart(d) == \A i, j \in DOMAIN d : i # j /\ Rival(d[i], d[j]) => Overlapped(i, j)

\* A request sets a password in its own name, and is done with passwords then.
SetsMine(r) ==
  /\ \A i \in DOMAIN Ins(r) : Ins(r)[i].kind = "user" => Ins(r)[i].set = <<>>
  /\ \A u \in DOMAIN Upd(r) :
       /\ "set" \in DOMAIN Upd(r)[u] => Upd(r)[u].set[1] = r /\ Settings(plan[r].then) = {}
       /\ "password" \in DOMAIN Upd(r)[u] => "set" \in DOMAIN Upd(r)[u]

\* The sessions that a reset will leave were opened meanwhile.
EndsMine(r) ==
  \A u \in DOMAIN Upd(r), s \in Table(After(r), "session") :
    "set" \in DOMAIN Upd(r)[u] /\ Upd(r)[u].set[2] = "reset" /\ After(r)[s].user = u /\ After(r)[s].live
      => Overlapped(s, <<r>>)

\* Who set a password is done with passwords.
SetOnce ==
  \A u \in Table(db, "user") :
    db[u].set # <<>> => db[u].set[1] \in Requests /\ Settings(todo[db[u].set[1]]) = {}

\* The second invariant, of the rows and of what each open transaction would leave.
AccessInv ==
  /\ Apart(db) /\ (met = {} => OneRefresh(db)) /\ Ousted(db) /\ SetOnce
  /\ \A r \in DOMAIN plan :
       /\ Apart(After(r)) /\ (met = {} => OneRefresh(After(r))) /\ Ousted(After(r))
       /\ SetsMine(r) /\ EndsMine(r) /\ todo[r] # <<>>

\* Rivalry is mutual.
LEMMA RivalSym ==
  ASSUME NEW x, NEW y, Rival(x, y)
  PROVE  Rival(y, x)
  BY DEF Rival, Alike

\* Rows that are rivals after a change were rivals before.
LEMMA RivalKept ==
  ASSUME NEW x, Typed(x), NEW y, Typed(y), NEW v, v = x \/ Kept(x, v), NEW w, w = y \/ Kept(y, w), Rival(v, w)
  PROVE  Rival(x, y)
<1>1. v.kind = x.kind /\ w.kind = y.kind
  BY KeptRow
<1>2. CASE Alike(v, w, "session", {"user", "live"}) /\ v.live
  <2>1. v.kind = "session" /\ w.kind = "session" /\ v.user = w.user /\ v.live = w.live /\ v.live
    BY <1>2 DEF Alike
  <2>2. v.user = x.user /\ w.user = y.user /\ x.live /\ y.live
    BY <1>1, <2>1, KeptRow
  <2>3. x.live \in BOOLEAN /\ y.live \in BOOLEAN
    BY <1>1, <2>1, AccessColumnsAre DEF Typed, Takes
  <2> QED
    BY <1>1, <2>1, <2>2, <2>3 DEF Rival, Alike
<1>3. CASE Alike(v, w, "link", {"user", "of", "unused"}) /\ v.unused
  <2>1. v.kind = "link" /\ w.kind = "link" /\ v.user = w.user /\ v.of = w.of /\ v.unused = w.unused /\ v.unused
    BY <1>3 DEF Alike
  <2>2. v.user = x.user /\ w.user = y.user /\ v.of = x.of /\ w.of = y.of /\ x.unused /\ y.unused
    BY <1>1, <2>1, KeptRow
  <2>3. x.unused \in BOOLEAN /\ y.unused \in BOOLEAN
    BY <1>1, <2>1, AccessColumnsAre DEF Typed, Takes
  <2> QED
    BY <1>1, <2>1, <2>2, <2>3 DEF Rival, Alike
<1>4. CASE Alike(v, w, "use", {"link"}) \/ Alike(v, w, "may", {"role"})
  <2>1. v.kind \in {"use", "may"} /\ w.kind \in {"use", "may"}
    BY <1>4 DEF Alike
  <2>2. v = x /\ w = y
    BY <1>1, <2>1, KeptRow
  <2> QED
    BY <1>4, <2>2 DEF Rival
<1> QED
  BY <1>2, <1>3, <1>4 DEF Rival

(* Two requests that change the same row. *)
LEMMA KeptOver ==
  ASSUME NEW x, Typed(x), NEW g, Suits(x.kind, g), NEW y, Typed(y), y = x \/ Kept(x, y),
         NEW v, v = Over(g, x), NEW w, w = Over(g, y)
  PROVE  w = v \/ Kept(v, w)
<1>1. CASE y = x
  BY <1>1
<1>2. CASE Kept(x, y)
  <2>1. DOMAIN x = Columns[x.kind] /\ y.kind = x.kind /\ DOMAIN y = Columns[x.kind] /\ x.kind \in DOMAIN Columns
    BY <1>2 DEF Typed, Kept
  <2>2. DOMAIN g \subseteq DOMAIN x \ {"kind"} /\ "kind" \in DOMAIN x
    BY <2>1 DEF Suits, Columns
  <2>3. /\ DOMAIN v = DOMAIN x /\ \A c \in DOMAIN g : v[c] = g[c] /\ w[c] = g[c]
        /\ \A c \in DOMAIN x \ DOMAIN g : v[c] = x[c] /\ w[c] = y[c]
    BY <2>1, <2>2 DEF Over
  <2>4. v.kind = x.kind /\ w.kind = x.kind
    BY <2>1, <2>2, <2>3
  <2> QED
    BY <1>2, <2>3, <2>4 DEF Kept
<1> QED
  BY <1>1, <1>2

\* A program that sets no password goes on setting none.
LEMMA RestSettings ==
  ASSUME NEW r, Program(todo[r]), todo[r] # <<>>, Settings(todo[r]) = {}
  PROVE  Settings(Rest(r)) = {} /\ Op(r).do \notin Setting
<1>1. PICK t : t = todo[r]
  OBVIOUS
<1>2. PICK S : S = {t[n] : n \in 1 .. Len(t)}
  OBVIOUS
<1>3. t \in Seq(S) /\ t # <<>>
  BY <1>1, <1>2, ProgramIsSeq
<1>4. DOMAIN t = 1 .. Len(t) /\ Head(t) = t[1] /\ 1 \in DOMAIN t
      /\ \A n \in DOMAIN Tail(t) : n + 1 \in DOMAIN t /\ Tail(t)[n] = t[n + 1]
  BY <1>3
<1>5. \A n \in DOMAIN t : t[n].do \notin Setting
  BY <1>1 DEF Settings
<1>6. Settings(Tail(t)) = {} /\ Head(t).do \notin Setting
  BY <1>4, <1>5 DEF Settings
<1> QED
  BY <1>1, <1>6 DEF Rest, Op

\* Only users have passwords.
LEMMA SecretColumns ==
  /\ \A kind \in DOMAIN Columns : "set" \in Columns[kind] => kind = "user"
  /\ \A kind \in DOMAIN Columns : "password" \in Columns[kind] => kind = "user"
  BY DEF Columns

\* Requests that overlapped have overlapped.
LEMMA MetGrows ==
  ASSUME met \subseteq met', NEW i, NEW j, Overlapped(i, j)
  PROVE  Overlapped(i, j)'
  BY DEF Overlapped

LEMMA StillApart ==
  ASSUME met \subseteq met', NEW d
  PROVE  /\ Apart(d) => Apart(d)'
         /\ Ousted(d) => Ousted(d)'
<1>1. \A i, j : Overlapped(i, j) => Overlapped(i, j)'
  BY MetGrows
<1> QED
  BY <1>1 DEF Apart, Ousted

\* Nor does what follows it.
LEMMA FollowsSettings ==
  ASSUME NEW r, Program(todo[r]), todo[r] # <<>>, NEW t, Follows(r, t), Settings(todo[r]) = {}
  PROVE  Settings(t) = {}
  BY RestSettings DEF Follows

\* A change of other columns leaves the password.
LEMMA SecretsLeft ==
  ASSUME NEW x, Typed(x), x.kind = "user", NEW g, DOMAIN g \subseteq DOMAIN x,
         "set" \notin DOMAIN g, "password" \notin DOMAIN g, NEW y, y = Over(g, x)
  PROVE  y.set = x.set /\ y.password = x.password
<1>1. "set" \in DOMAIN x /\ "password" \in DOMAIN x
  BY AccessColumnsAre DEF Typed
<1>2. \A c \in DOMAIN x \ DOMAIN g : y[c] = x[c]
  BY DEF Over
<1> QED
  BY <1>1, <1>2

\* r is going to set the password of u.
SetsSecret(r, u) == u \in DOMAIN Upd(r) /\ "set" \in DOMAIN Upd(r)[u]

\* The rows f take the sets of the users of d, unless r sets a password.
LEMMA SecretsStay ==
  ASSUME NEW r, SetsMine(r), NEW x, Typed(x), x.kind = "user", NEW u, ~SetsSecret(r, u),
         u \in DOMAIN Upd(r) => Suits("user", Upd(r)[u]),
         NEW y, u \notin DOMAIN Upd(r) => y = x, u \in DOMAIN Upd(r) => y = Over(Upd(r)[u], x)
  PROVE  y.set = x.set /\ y.password = x.password
<1>1. CASE u \notin DOMAIN Upd(r)
  BY <1>1
<1>2. CASE u \in DOMAIN Upd(r)
  <2>1. PICK g : g = Upd(r)[u]
    OBVIOUS
  <2>2. "set" \notin DOMAIN g /\ "password" \notin DOMAIN g
    BY <1>2, <2>1 DEF SetsSecret, SetsMine
  <2>3. DOMAIN g \subseteq DOMAIN x
    BY <1>2, <2>1 DEF Suits, Typed
  <2>4. y = Over(g, x)
    BY <1>2, <2>1
  <2> QED
    BY <2>2, <2>3, <2>4, SecretsLeft
<1> QED
  BY <1>1, <1>2

\* A change of "set" sets it.
LEMMA SecretsSet ==
  ASSUME NEW g, "set" \in DOMAIN g, NEW x, NEW y, y = Over(g, x)
  PROVE  y.set = g.set
  BY DEF Over

(***************************************************************************)
(* One request commits the rows d while another, which would leave e, is   *)
(* open: it will leave f.                                                  *)
(***************************************************************************)
\* A row that was left alone or changed as it may be.
From(x, y) == y = x \/ Kept(x, y)
Mixed(r, q, d, e, f) ==
  \A i \in DOMAIN f :
    \/ i \in DOMAIN Ins(q) /\ i \in DOMAIN e /\ f[i] = e[i] /\ i[1] = q
    \/ i \in DOMAIN Ins(r) /\ i \in DOMAIN d /\ f[i] = d[i] /\ i[1] = r
    \/ /\ i \in DOMAIN d /\ i \in DOMAIN e /\ i \in DOMAIN db
       /\ From(d[i], f[i]) /\ From(e[i], f[i])

\* Each row of f is new and of one of the two requests, or one that either would
\* have left.
LEMMA MixedIs ==
  ASSUME Stored, NEW r, NEW q, Shaped(r), Shaped(q), NEW d, NEW e, NEW f,
         Wrote(r, d), Wrote(q, e), \A i \in DOMAIN Upd(q) \cup Del(q) : i \notin DOMAIN Ins(r),
         Flushes(d, plan[q].write, f)
  PROVE  Mixed(r, q, d, e, f)
<1>1. PICK w : w = plan[q].write
  OBVIOUS
<1>2. Ins(q) = w.insert /\ Upd(q) = w.update /\ Del(q) = w.delete /\ Flushes(d, w, f)
  BY <1>1 DEF Ins, Upd, Del
<1>3. /\ DOMAIN f = DOMAIN Ins(q) \cup (DOMAIN d \ Del(q))
      /\ \A i \in DOMAIN Ins(q) : f[i] = Ins(q)[i]
      /\ \A i \in DOMAIN d \ Del(q) :
           /\ From(d[i], f[i])
           /\ i \notin DOMAIN Upd(q) => f[i] = d[i]
           /\ i \in DOMAIN Upd(q) => f[i] = Over(Upd(q)[i], d[i])
  BY <1>2 DEF Flushes, From
<1>4. ASSUME NEW i \in DOMAIN f
      PROVE  \/ i \in DOMAIN Ins(q) /\ i \in DOMAIN e /\ f[i] = e[i] /\ i[1] = q
             \/ i \in DOMAIN Ins(r) /\ i \in DOMAIN d /\ f[i] = d[i] /\ i[1] = r
             \/ /\ i \in DOMAIN d /\ i \in DOMAIN e /\ i \in DOMAIN db
                /\ From(d[i], f[i]) /\ From(e[i], f[i])
  <2>1. CASE i \in DOMAIN Ins(q)
    BY <1>3, <2>1 DEF Wrote, Shaped
  <2>2. CASE i \notin DOMAIN Ins(q) /\ i \in DOMAIN Ins(r)
    <3>1. i \in DOMAIN d \ Del(q) /\ i \notin DOMAIN Upd(q)
      BY <1>3, <2>2
    <3> QED
      BY <1>3, <2>2, <3>1 DEF Shaped
  <2>3. CASE i \notin DOMAIN Ins(q) /\ i \notin DOMAIN Ins(r)
    <3>1. i \in DOMAIN d \ Del(q) /\ i \in DOMAIN db \ Del(r)
      BY <1>3, <2>3 DEF Wrote
    <3>2. i \in DOMAIN e /\ Typed(db[i]) /\ Typed(d[i]) /\ (d[i] = db[i] \/ Kept(db[i], d[i]))
      BY <3>1 DEF Wrote, Stored
    <3>3. /\ i \notin DOMAIN Upd(q) => e[i] = db[i] /\ f[i] = d[i]
          /\ i \in DOMAIN Upd(q) => e[i] = Over(Upd(q)[i], db[i]) /\ f[i] = Over(Upd(q)[i], d[i])
      BY <1>3, <3>1 DEF Wrote
    <3>4. CASE i \notin DOMAIN Upd(q)
      BY <1>3, <3>1, <3>2, <3>3, <3>4 DEF From
    <3>5. CASE i \in DOMAIN Upd(q)
      <4>1. Suits(db[i].kind, Upd(q)[i])
        BY <3>1, <3>5 DEF Shaped
      <4>2. From(e[i], f[i])
        BY <3>2, <3>3, <3>5, <4>1, KeptOver DEF From
      <4> QED
        BY <1>3, <3>1, <3>2, <4>2
    <3> QED
      BY <3>4, <3>5
  <2> QED
    BY <2>1, <2>2, <2>3
<1> QED
  BY <1>4 DEF Mixed

\* Rivals among the rows of f were left by one of the two, or are of both.
LEMMA MixedApart ==
  ASSUME NEW r, NEW q, {r, q} \in met, NEW d, NEW e, NEW f, Mixed(r, q, d, e, f),
         \A i \in DOMAIN d : Typed(d[i]), \A i \in DOMAIN e : Typed(e[i]), Apart(d), Apart(e)
  PROVE  Apart(f)
<1> SUFFICES ASSUME NEW i \in DOMAIN f, NEW j \in DOMAIN f, i # j, Rival(f[i], f[j]) PROVE Overlapped(i, j)
  BY DEF Apart
<1>1. CASE i \in DOMAIN d /\ j \in DOMAIN d /\ From(d[i], f[i]) /\ From(d[j], f[j])
  <2>1. Rival(d[i], d[j])
    BY <1>1, RivalKept DEF From
  <2> QED
    BY <1>1, <2>1 DEF Apart
<1>2. CASE i \in DOMAIN e /\ j \in DOMAIN e /\ From(e[i], f[i]) /\ From(e[j], f[j])
  <2>1. Rival(e[i], e[j])
    BY <1>2, RivalKept DEF From
  <2> QED
    BY <1>2, <2>1 DEF Apart
<1>3. CASE (i[1] = q /\ j[1] = r) \/ (i[1] = r /\ j[1] = q)
  <2>1. {i[1], j[1]} = {r, q}
    BY <1>3
  <2> QED
    BY <2>1 DEF Overlapped
<1> QED
  BY <1>1, <1>2, <1>3 DEF Mixed, From

\* A session that lives lived before, of the same user and password.
LEMMA SameSession ==
  ASSUME NEW x, Typed(x), NEW y, From(x, y), y.kind = "session", y.live
  PROVE  x.kind = "session" /\ x.user = y.user /\ x.with = y.with /\ x.live
<1>1. x.kind = "session" /\ y.user = x.user /\ y.with = x.with /\ (y.live => x.live)
  BY KeptRow DEF From
<1> QED
  BY <1>1

\* Overlapped looks at the requests only.
LEMMA OverlappedWith ==
  ASSUME NEW s, NEW p, NEW v, p[1] = v[1], Overlapped(s, p)
  PROVE  Overlapped(s, v)
  BY DEF Overlapped

\* A session that lives after both requests and is of a user whose password q resets.
LEMMA MixedEnds ==
  ASSUME NEW r, NEW q, {r, q} \in met, NEW d, NEW e, NEW f, Mixed(r, q, d, e, f), e = After(q), EndsMine(q),
         \A i \in DOMAIN e : Typed(e[i]),
         NEW u, SetsSecret(q, u), Upd(q)[u].set[2] = "reset",
         NEW s \in Table(f, "session"), f[s].user = u, f[s].live
  PROVE  Overlapped(s, <<q>>)
<1>1. s \in DOMAIN f /\ f[s].kind = "session"
  BY DEF Table
<1>2. CASE s[1] = q
  BY <1>2 DEF Overlapped
<1>3. CASE s[1] = r
  BY <1>3 DEF Overlapped
<1>4. CASE s \in DOMAIN e /\ From(e[s], f[s])
  <2>1. e[s].kind = "session" /\ e[s].user = u /\ e[s].live
    BY <1>1, <1>4, SameSession
  <2> QED
    BY <1>4, <2>1 DEF EndsMine, SetsSecret, Table
<1> QED
  BY <1>1, <1>2, <1>3, <1>4 DEF Mixed

\* A session that outlives a reset was opened while a request was under way.
LEMMA MixedOusted ==
  ASSUME Stored, NEW r, NEW q, {r, q} \in met, NEW d, NEW e, NEW f, Mixed(r, q, d, e, f), e = After(q), EndsMine(q),
         Wrote(r, d), Wrote(q, e), Flushes(d, plan[q].write, f), Shaped(q), Shaped(r), SetsMine(q), SetsMine(r),
         Ousted(d), Ousted(e), \A i \in DOMAIN Upd(q) : i \notin DOMAIN Ins(r),
         \A i \in DOMAIN Upd(q) \cap DOMAIN d : Suits(d[i].kind, Upd(q)[i])
  PROVE  Ousted(f)
<1> SUFFICES ASSUME NEW s \in Table(f, "session"), NEW u \in Table(f, "user"), f[s].user = u, f[s].live,
                    f[u].set # <<>>, f[u].set[2] = "reset", f[s].with # f[u].password
             PROVE  Overlapped(s, f[u].set)
  BY DEF Ousted
<1>1. s \in DOMAIN f /\ u \in DOMAIN f /\ f[s].kind = "session" /\ f[u].kind = "user"
  BY DEF Table
<1>2. \A i \in DOMAIN d : Typed(d[i])
  BY DEF Wrote
<1>3. \A i \in DOMAIN e : Typed(e[i])
  BY DEF Wrote
<1>4. PICK w : w = plan[q].write
  OBVIOUS
<1>5. Ins(q) = w.insert /\ Upd(q) = w.update /\ Del(q) = w.delete /\ Flushes(d, w, f)
  BY <1>4 DEF Ins, Upd, Del
<1>6. /\ DOMAIN f = DOMAIN Ins(q) \cup (DOMAIN d \ Del(q))
      /\ \A i \in DOMAIN Ins(q) : f[i] = Ins(q)[i]
      /\ \A i \in DOMAIN d \ Del(q) :
           /\ From(d[i], f[i])
           /\ i \notin DOMAIN Upd(q) => f[i] = d[i]
           /\ i \in DOMAIN Upd(q) => f[i] = Over(Upd(q)[i], d[i])
  BY <1>5 DEF Flushes, From
<1>7. u \notin DOMAIN Ins(q)
  BY <1>1, <1>6 DEF SetsMine
<1>8. u \in DOMAIN d \ Del(q) /\ From(d[u], f[u]) /\ Typed(d[u]) /\ d[u].kind = "user"
  <2>1. u \in DOMAIN d \ Del(q) /\ From(d[u], f[u]) /\ Typed(d[u])
    BY <1>1, <1>2, <1>6, <1>7
  <2>2. f[u].kind = d[u].kind
    BY <2>1, KeptRow DEF From
  <2> QED
    BY <1>1, <2>1, <2>2
<1>9. CASE SetsSecret(q, u)
  <2>1. u \in DOMAIN Upd(q)
    BY <1>9 DEF SetsSecret
  <2>2. f[u].set = Upd(q)[u].set
    BY <1>6, <1>8, <1>9, <2>1, SecretsSet DEF SetsSecret
  <2>3. Upd(q)[u].set[1] = q
    BY <1>9, <2>1 DEF SetsSecret, SetsMine
  <2>4. Overlapped(s, <<q>>)
    BY <1>3, <1>9, <2>2, MixedEnds
  <2>5. f[u].set[1] = <<q>>[1]
    BY <2>2, <2>3
  <2> QED
    BY <2>4, <2>5, OverlappedWith
<1>10. CASE ~SetsSecret(q, u)
  <2>1. u \in DOMAIN Upd(q) => Suits("user", Upd(q)[u])
    BY <1>8
  <2>2. f[u].set = d[u].set /\ f[u].password = d[u].password
    BY <1>6, <1>8, <1>10, <2>1, SecretsStay
  <2>3. CASE s \in DOMAIN d /\ From(d[s], f[s])
    <3>1. d[s].kind = "session" /\ d[s].user = u /\ d[s].with = f[s].with /\ d[s].live
      BY <1>1, <1>2, <2>3, SameSession
    <3>2. s \in Table(d, "session") /\ u \in Table(d, "user")
      BY <1>8, <2>3, <3>1 DEF Table
    <3> QED
      BY <2>2, <3>1, <3>2 DEF Ousted
  <2>4. CASE s \in DOMAIN Ins(q) /\ s \in DOMAIN e /\ f[s] = e[s] /\ s[1] = q
    <3>1. u \notin DOMAIN Ins(r)
      BY <1>8, <2>2 DEF SetsMine, Wrote
    <3>2. u \in DOMAIN db \ Del(r) /\ Typed(db[u]) /\ (d[u] = db[u] \/ Kept(db[u], d[u]))
      BY <1>8, <3>1 DEF Wrote, Stored
    <3>3. db[u].kind = "user"
      BY <1>8, <3>2, KeptRow
    <3>4. /\ u \notin DOMAIN Upd(r) => d[u] = db[u]
          /\ u \in DOMAIN Upd(r) => d[u] = Over(Upd(r)[u], db[u])
      BY <3>2 DEF Wrote
    <3>5. CASE SetsSecret(r, u)
      <4>1. u \in DOMAIN Upd(r)
        BY <3>5 DEF SetsSecret
      <4>2. d[u].set = Upd(r)[u].set
        BY <3>4, <3>5, <4>1, SecretsSet DEF SetsSecret
      <4>3. Upd(r)[u].set[1] = r
        BY <3>5, <4>1 DEF SetsSecret, SetsMine
      <4>4. f[u].set[1] = r
        BY <2>2, <4>2, <4>3
      <4>5. {s[1], f[u].set[1]} = {r, q}
        BY <2>4, <4>4
      <4> QED
        BY <4>5 DEF Overlapped
    <3>6. CASE ~SetsSecret(r, u)
      <4>1. u \in DOMAIN Upd(r) => Suits("user", Upd(r)[u])
        BY <3>2, <3>3 DEF Shaped
      <4>2. d[u].set = db[u].set /\ d[u].password = db[u].password
        BY <3>2, <3>3, <3>4, <3>6, <4>1, SecretsStay
      <4>3. /\ u \in DOMAIN e
            /\ u \notin DOMAIN Upd(q) => e[u] = db[u]
            /\ u \in DOMAIN Upd(q) => e[u] = Over(Upd(q)[u], db[u])
        BY <1>8, <3>2 DEF Wrote
      <4>4. e[u].set = db[u].set /\ e[u].password = db[u].password
        BY <1>10, <2>1, <3>2, <3>3, <4>3, SecretsStay
      <4>5. Typed(e[u]) /\ e[u].kind = "user"
        <5>1. e[u] = db[u] \/ Kept(db[u], e[u])
          BY <1>8, <3>2 DEF Wrote
        <5> QED
          BY <1>3, <3>2, <3>3, <4>3, <5>1, KeptRow
      <4>6. s \in Table(e, "session") /\ u \in Table(e, "user")
        BY <1>1, <2>4, <4>3, <4>5 DEF Table
      <4>7. e[s].user = u /\ e[s].live /\ e[u].set = f[u].set /\ e[s].with # e[u].password
        BY <2>2, <2>4, <4>2, <4>4
      <4> QED
        BY <4>6, <4>7 DEF Ousted
    <3> QED
      BY <3>5, <3>6
  <2>5. From(d[s], d[s])
    BY DEF From
  <2> QED
    BY <1>1, <2>3, <2>4, <2>5 DEF Mixed
<1> QED
  BY <1>9, <1>10

\* The part of the invariant that is about one open request.
AccessOf(r) ==
  /\ Apart(After(r)) /\ (met = {} => OneRefresh(After(r))) /\ Ousted(After(r))
  /\ SetsMine(r) /\ EndsMine(r) /\ todo[r] # <<>>

\* AccessInv, request by request.
LEMMA AccessInvIs ==
  AccessInv <=>
    /\ Apart(db) /\ (met = {} => OneRefresh(db)) /\ Ousted(db) /\ SetOnce
    /\ \A r \in DOMAIN plan : AccessOf(r)
  BY DEF AccessInv, AccessOf

\* What is open stays as it is while the rows and the open request do.
LEMMA AccessOfStays ==
  ASSUME NEW q, AccessOf(q), db' = db, plan'[q] = plan[q], met \subseteq met', met' = {} => met = {}, todo'[q] = todo[q]
  PROVE  AccessOf(q)'
<1>1. Ins(q)' = Ins(q) /\ Upd(q)' = Upd(q) /\ After(q)' = After(q)
  BY DEF Ins, Upd, After
<1>2. PICK e : e = After(q)
  OBVIOUS
<1>3. Apart(e) /\ (met = {} => OneRefresh(e)) /\ Ousted(e) /\ SetsMine(q) /\ EndsMine(q) /\ todo[q] # <<>>
  BY <1>2 DEF AccessOf
<1>4. Apart(e)' /\ Ousted(e)'
  BY <1>3, StillApart
<1>5. \A i, j : Overlapped(i, j) => Overlapped(i, j)'
  BY MetGrows
<1>6. SetsMine(q)'
  BY <1>1, <1>3 DEF SetsMine
<1>7. EndsMine(q)'
  BY <1>1, <1>3, <1>5 DEF EndsMine, Table
<1>8. e' = e
  BY <1>1, <1>2
<1>9. Apart(After(q))' /\ Ousted(After(q))' /\ (met' = {} => OneRefresh(After(q))')
  BY <1>1, <1>2, <1>3, <1>4 DEF Apart, Ousted, OneRefresh, Table
<1> QED
  BY <1>3, <1>6, <1>7, <1>9 DEF AccessOf

(***************************************************************************)
(* A commit that the database takes, and what another request is open for. *)
(***************************************************************************)
\* What is open keeps the rows apart when another request commits.
LEMMA CommitLeavesOpen ==
  ASSUME Inv, Inv', AccessInv, NEW r \in DOMAIN plan, Ends(r), db' = After(r), Wrote(r, db'), NEW q \in DOMAIN plan'
  PROVE  AccessOf(q)'
<1>1. /\ q # r /\ q \in DOMAIN plan /\ Ins(q)' = Ins(q) /\ Upd(q)' = Upd(q) /\ Del(q)' = Del(q)
  BY CommitKeeps
<1>2. /\ plan'[q] = plan[q] /\ met' = met
      /\ todo' = [todo EXCEPT ![r] = plan[r].else] \/ todo' = [todo EXCEPT ![r] = plan[r].then]
  BY CommitIs
<1>3. /\ Shaped(q) /\ Shaped(r) /\ Stored /\ DOMAIN todo = Requests /\ q \in Requests
      /\ \A i \in DOMAIN Upd(q) \cup Del(q) : i \notin DOMAIN Ins(r)
  BY <1>1 DEF Inv, Shaped, Settled
<1>4. {r, q} \in met
  BY <1>1 DEF Inv
<1>5. PICK d : d = db'
  OBVIOUS
<1>6. PICK e : e = After(q)
  OBVIOUS
<1>7. PICK f : f = Flushed(d, plan[q].write)
  OBVIOUS
<1>8. Wrote(r, d) /\ Wrote(q, e) /\ \A i \in DOMAIN d : Typed(d[i])
  <2>1. Wrote(r, d)
    BY <1>5
  <2>2. Wrote(q, e)
    BY <1>3, <1>6, AfterIs
  <2> QED
    BY <2>1, <2>2 DEF Wrote
<1>9. After(q)' = f
  BY <1>2, <1>5, <1>7 DEF After
<1>10. /\ \A i \in DOMAIN Ins(q) : i \notin DOMAIN d /\ Typed(Ins(q)[i])
       /\ \A i \in DOMAIN Upd(q) \cap DOMAIN d : Suits(d[i].kind, Upd(q)[i])
  <2>1. Shaped(q)'
    BY DEF Inv
  <2> QED
    BY <1>1, <1>5, <2>1 DEF Shaped
<1>11. PICK w : w = plan[q].write
  OBVIOUS
<1>12. Ins(q) = w.insert /\ Upd(q) = w.update
  BY <1>11 DEF Ins, Upd
<1>13. Flushes(d, w, f)
  BY <1>7, <1>8, <1>10, <1>11, <1>12, FlushIs
<1>14. Mixed(r, q, d, e, f)
  BY <1>3, <1>8, <1>11, <1>13, MixedIs
<1>15. AccessOf(q) /\ AccessOf(r)
  BY <1>1, AccessInvIs
<1>16. Apart(f)
  BY <1>4, <1>5, <1>6, <1>8, <1>14, <1>15, MixedApart DEF AccessOf, Wrote
<1>17. Ousted(f)
  <2>1. Ousted(d) /\ Ousted(e) /\ EndsMine(q) /\ SetsMine(q) /\ SetsMine(r)
    BY <1>5, <1>6, <1>15 DEF AccessOf
  <2> QED
    BY <1>3, <1>4, <1>6, <1>8, <1>10, <1>11, <1>13, <1>14, <2>1, MixedOusted
<1>18. EndsMine(q)'
  <2>1. \A i \in DOMAIN e : Typed(e[i])
    BY <1>8 DEF Wrote
  <2>2. EndsMine(q)
    BY <1>15 DEF AccessOf
  <2>3. ASSUME NEW u \in DOMAIN Upd(q), "set" \in DOMAIN Upd(q)[u], Upd(q)[u].set[2] = "reset",
               NEW s \in Table(f, "session"), f[s].user = u, f[s].live
        PROVE  Overlapped(s, <<q>>)
    <3>1. SetsSecret(q, u)
      BY <2>3 DEF SetsSecret
    <3> QED
      BY <1>4, <1>6, <1>14, <2>1, <2>2, <2>3, <3>1, MixedEnds
  <2>4. \A i, j : Overlapped(i, j)' <=> Overlapped(i, j)
    BY <1>2 DEF Overlapped
  <2> QED
    BY <1>1, <1>9, <2>3, <2>4 DEF EndsMine, Table
<1>19. SetsMine(q)'
  BY <1>1, <1>2, <1>15 DEF AccessOf, SetsMine
<1>20. Apart(After(q))' /\ Ousted(After(q))' /\ met' # {}
  <2>1. Apart(f)' /\ Ousted(f)'
    BY <1>2, <1>16, <1>17, StillApart
  <2>2. \A i, j : Overlapped(i, j)' <=> Overlapped(i, j)
    BY <1>2 DEF Overlapped
  <2> QED
    BY <1>2, <1>4, <1>9, <1>16, <1>17, <2>2 DEF Apart, Ousted, Table
<1>21. todo'[q] # <<>>
  BY <1>1, <1>2, <1>3, <1>15 DEF AccessOf
<1> QED
  BY <1>18, <1>19, <1>20, <1>21 DEF AccessOf

\* Rows left by one request after the other.
LEMMA InitAccess ==
  ASSUME Init
  PROVE  AccessInv
<1>1. PICK s \in Stories : StartsWith(s)
  BY DEF Init
<1>2. StoryAssumption(s)
  BY AdministrationAssumption
<1>3. db = s.rows /\ DOMAIN plan = {}
  BY <1>1 DEF StartsWith, NoRows
<1>4. Orderly(db) /\ \A i, j \in DOMAIN db : i[1] = j[1]
  BY <1>2, <1>3 DEF StoryAssumption
<1>5. Apart(db)
  BY <1>4 DEF Apart, Overlapped
<1>6. OneRefresh(db)
  BY <1>4 DEF OneRefresh, Orderly
<1>7. Ousted(db) /\ SetOnce
  BY <1>4 DEF Ousted, SetOnce, Orderly
<1> QED
  BY <1>3, <1>5, <1>6, <1>7 DEF AccessInv

(* A request that goes on without writing. *)
LEMMA SetOnceStays ==
  ASSUME Inv, NEW r \in Requests, todo[r] # <<>>, NEW t, Follows(r, t), todo' = [todo EXCEPT ![r] = t], db' = db, SetOnce
  PROVE  SetOnce'
<1>1. DOMAIN todo = Requests /\ Program(todo[r])
  BY DEF Inv
<1>2. ASSUME NEW x \in Requests, Settings(todo[x]) = {} PROVE Settings(todo'[x]) = {}
  <2>1. CASE x = r
    BY <1>1, <1>2, <2>1, FollowsSettings
  <2>2. CASE x # r
    BY <1>1, <1>2, <2>2
  <2> QED
    BY <2>1, <2>2
<1>3. ASSUME NEW u \in Table(db, "user"), db[u].set # <<>>
      PROVE  db[u].set[1] \in Requests /\ Settings(todo'[db[u].set[1]]) = {}
  BY <1>2, <1>3 DEF SetOnce
<1> QED
  BY <1>3 DEF SetOnce, Table

\* A request goes on without writing.
LEMMA GoesOnAccess ==
  ASSUME Inv, AccessInv, NEW r \in Requests, Idle(r), todo[r] # <<>>, NEW t, Follows(r, t), GoesOn(r, t)
  PROVE  AccessInv'
<1>1. /\ db' = db /\ plan' = plan /\ met' = met /\ todo' = [todo EXCEPT ![r] = t] /\ DOMAIN todo = Requests
      /\ DOMAIN plan \subseteq Requests /\ r \notin DOMAIN plan
  BY DEF GoesOn, Idle, Inv
<1>2. Apart(db) /\ (met = {} => OneRefresh(db)) /\ Ousted(db) /\ SetOnce /\ \A q \in DOMAIN plan : AccessOf(q)
  BY AccessInvIs
<1>3. SetOnce'
  BY <1>1, <1>2, SetOnceStays
<1>4. \A q \in DOMAIN plan : AccessOf(q)'
  BY <1>1, <1>2, AccessOfStays
<1>5. (Apart(db) /\ (met = {} => OneRefresh(db)) /\ Ousted(db))'
  BY <1>1, <1>2 DEF Apart, OneRefresh, Ousted, Table, Overlapped
<1>6. \A q \in DOMAIN plan' : AccessOf(q)'
  BY <1>1, <1>4
<1> QED
  BY <1>3, <1>5, <1>6 DEF AccessInv, AccessOf

\* The process dies.
LEMMA DieAccess ==
  ASSUME Inv, AccessInv, Die
  PROVE  AccessInv'
<1>1. /\ db' = db /\ met' = met /\ DOMAIN plan' = {}
      /\ todo' = [r \in Requests |-> IF r \in DOMAIN plan \/ todo[r] # story.todo[r] THEN <<>> ELSE todo[r]]
  BY DEF Die, NoRows
<1>2. Apart(db) /\ (met = {} => OneRefresh(db)) /\ Ousted(db) /\ SetOnce
  BY DEF AccessInv
<1>3. Settings(<<>>) = {}
  BY DEF Settings
<1>4. \A x \in Requests : Settings(todo[x]) = {} => Settings(todo'[x]) = {}
  BY <1>1, <1>3
<1>5. SetOnce'
  BY <1>1, <1>2, <1>4 DEF SetOnce, Table
<1>6. (Apart(db) /\ (met = {} => OneRefresh(db)) /\ Ousted(db))'
  BY <1>1, <1>2 DEF Apart, OneRefresh, Ousted, Table, Overlapped
<1> QED
  BY <1>1, <1>5, <1>6 DEF AccessInv

(***************************************************************************)
(* The transaction that a step opens.                                      *)
(***************************************************************************)
\* A transaction that was just opened would leave what its session holds.
LEMMA OpensAfter ==
  ASSUME Stored, NEW r, Idle(r), NEW d, NEW K, Session(r, d, K), NEW then, NEW else, Opens(r, d, then, else)
  PROVE  After(r)' = d
<1>1. plan'[r].write = Difference(db, d) /\ db' = db
  BY OpensIs
<1>2. After(r)' = Flushed(db, Difference(db, d))
  BY <1>1 DEF After
<1>3. ASSUME NEW i \in DOMAIN db \cap DOMAIN d
      PROVE  Fun(db[i]) /\ Fun(d[i]) /\ DOMAIN d[i] = DOMAIN db[i]
  <2>1. Typed(db[i]) /\ Typed(d[i]) /\ d[i].kind = db[i].kind
    BY <1>3 DEF Stored, Session, Kept
  <2> QED
    BY <2>1 DEF Typed, Fun
<1>4. Fun(d)
  BY DEF Session
<1>5. Flushed(db, Difference(db, d)) = d
  BY <1>3, <1>4, FlushedDifference, Zenon
<1> QED
  BY <1>2, <1>5

\* A careful session keeps the rows apart.
LEMMA SessionApart ==
  ASSUME Stored, NEW r, NEW d, Session(r, d, Kinds), NewApart(d), Apart(db)
  PROVE  Apart(d)
<1> SUFFICES ASSUME NEW i \in DOMAIN d, NEW j \in DOMAIN d, i # j, Rival(d[i], d[j]) PROVE Overlapped(i, j)
  BY DEF Apart
<1>1. CASE i \in New(d) /\ j \in New(d)
  <2>1. i[1] = r /\ j[1] = r
    BY <1>1 DEF Session
  <2> QED
    BY <2>1 DEF Overlapped
<1>2. CASE i \in New(d) /\ j \in DOMAIN db
  BY <1>2 DEF NewApart
<1>3. CASE j \in New(d) /\ i \in DOMAIN db
  <2>1. Rival(d[j], d[i])
    BY RivalSym
  <2> QED
    BY <1>3, <2>1 DEF NewApart
<1>4. CASE i \in DOMAIN db /\ j \in DOMAIN db
  <2>1. /\ Typed(db[i]) /\ Typed(db[j])
        /\ d[i] = db[i] \/ Kept(db[i], d[i])
        /\ d[j] = db[j] \/ Kept(db[j], d[j])
    BY <1>4 DEF Stored, Session
  <2>2. Rival(db[i], db[j])
    BY <2>1, RivalKept
  <2> QED
    BY <1>4, <2>2 DEF Apart
<1> QED
  BY <1>1, <1>2, <1>3, <1>4 DEF New

\* The users whose password a transaction sets when it opens.
LEMMA OpensChange ==
  ASSUME Stored, NEW r, Idle(r), NEW d, Session(r, d, Kinds), NEW then, NEW else, Opens(r, d, then, else),
         NEW u \in DOMAIN Upd(r)', NEW c \in DOMAIN Upd(r)'[u], c \in {"set", "password"}
  PROVE  u \in Table(d, "user") /\ u \in DOMAIN db /\ Upd(r)'[u][c] = d[u][c] /\ d[u][c] # db[u][c]
<1>0. /\ DOMAIN Upd(r)' = {i \in DOMAIN d \cap DOMAIN db : d[i] # db[i]}
      /\ \A i \in DOMAIN Upd(r)' : Upd(r)'[i] = ChangedColumns(db[i], d[i])
  <2>1. Opened(d, Ins(r)', Upd(r)', Del(r)') /\ OthersStay
    BY OpensIns
  <2> QED
    BY <2>1 DEF Opened, OthersStay
<1>1. u \in DOMAIN d \cap DOMAIN db /\ Upd(r)'[u] = ChangedColumns(db[u], d[u])
  BY <1>0
<1>2. c \in DOMAIN d[u] /\ d[u][c] # db[u][c] /\ Upd(r)'[u][c] = d[u][c]
  BY <1>1 DEF ChangedColumns
<1>3. Typed(d[u])
  BY <1>1 DEF Session
<1>4. d[u].kind = "user"
  BY <1>2, <1>3, SecretColumns DEF Typed
<1> QED
  BY <1>1, <1>2, <1>4 DEF Table

\* It sets passwords in its own name, and only once.
LEMMA OpensSets ==
  ASSUME Stored, SetOnce, NEW r \in Requests, Idle(r), todo[r] # <<>>, Program(todo[r]), NEW d, Session(r, d, Kinds),
         Secrets(r, d), NEW then, NEW else, Follows(r, then), Opens(r, d, then, else)
  PROVE  SetsMine(r)'
<1>1. plan'[r].then = then
  BY OpensIs
<1>2. Op(r).do \in Setting => Settings(then) = {}
  BY RestFollows DEF Follows
<1>3. ASSUME NEW i \in DOMAIN Ins(r)', Ins(r)'[i].kind = "user" PROVE Ins(r)'[i].set = <<>>
  <2>1. Ins(r)' = [j \in New(d) |-> d[j]]
    <3>1. Opened(d, Ins(r)', Upd(r)', Del(r)') /\ OthersStay
      BY OpensIns
    <3> QED
      BY <3>1 DEF Opened, OthersStay
  <2>2. i \in Table(d, "user") /\ i \notin DOMAIN db /\ Ins(r)'[i] = d[i]
    BY <1>3, <2>1 DEF New, Table
  <2> QED
    BY <2>2 DEF Secrets
<1>4. ASSUME NEW u \in DOMAIN Upd(r)', "set" \in DOMAIN Upd(r)'[u] PROVE Upd(r)'[u].set[1] = r /\ Settings(then) = {}
  <2>1. u \in Table(d, "user") /\ u \in DOMAIN db /\ Upd(r)'[u]["set"] = d[u]["set"] /\ d[u]["set"] # db[u]["set"]
    BY <1>4, OpensChange
  <2>2. PICK how : Op(r).do \in Setting /\ d[u].set = <<r, how>>
    BY <2>1 DEF Secrets
  <2> QED
    BY <1>2, <2>1, <2>2
<1>5. ASSUME NEW u \in DOMAIN Upd(r)', "password" \in DOMAIN Upd(r)'[u] PROVE "set" \in DOMAIN Upd(r)'[u]
  <2>1. u \in Table(d, "user") /\ u \in DOMAIN db /\ d[u]["password"] # db[u]["password"]
    BY <1>5, OpensChange
  <2>2. PICK how : Op(r).do \in Setting /\ d[u].set = <<r, how>>
    BY <2>1 DEF Secrets
  <2>3. u \in DOMAIN d \cap DOMAIN db /\ Upd(r)'[u] = ChangedColumns(db[u], d[u])
    <3>1. /\ DOMAIN Upd(r)' = {i \in DOMAIN d \cap DOMAIN db : d[i] # db[i]}
          /\ \A i \in DOMAIN Upd(r)' : Upd(r)'[i] = ChangedColumns(db[i], d[i])
      <4>1. Opened(d, Ins(r)', Upd(r)', Del(r)') /\ OthersStay
        BY OpensIns
      <4> QED
        BY <4>1 DEF Opened, OthersStay
    <3> QED
      BY <1>5, <3>1
  <2>4. Typed(d[u]) /\ d[u].kind = "user" /\ db[u].kind = "user"
    <3>1. d[u].kind = "user" /\ Typed(d[u])
      BY <2>1, <2>3 DEF Table, Session
    <3> QED
      BY <2>3, <3>1, FoundRows
  <2>5. "set" \in DOMAIN d[u]
    BY <2>4, AccessColumnsAre DEF Typed
  <2>6. d[u].set # db[u].set
    <3> SUFFICES ASSUME d[u].set = db[u].set PROVE FALSE
      OBVIOUS
    <3>1. u \in Table(db, "user") /\ db[u].set # <<>> /\ db[u].set[1] = r
      BY <2>1, <2>2, <2>4 DEF Table
    <3>2. Settings(todo[r]) = {}
      BY <3>1 DEF SetOnce
    <3> QED
      BY <2>2, <3>2, RestSettings
  <2> QED
    BY <2>3, <2>5, <2>6 DEF ChangedColumns
<1> QED
  BY <1>1, <1>3, <1>4, <1>5 DEF SetsMine

\* A reset leaves no session that it has seen.
LEMMA OpensEnds ==
  ASSUME Stored, NEW r \in Requests, Idle(r), NEW d, Session(r, d, Kinds), Secrets(r, d),
         NEW then, NEW else, Opens(r, d, then, else)
  PROVE  EndsMine(r)'
<1>1. After(r)' = d
  BY OpensAfter
<1>2. ASSUME NEW u \in DOMAIN Upd(r)', "set" \in DOMAIN Upd(r)'[u], Upd(r)'[u].set[2] = "reset",
             NEW s \in Table(d, "session"), d[s].user = u, d[s].live
      PROVE  FALSE
  <2>1. u \in Table(d, "user") /\ u \in DOMAIN db /\ Upd(r)'[u]["set"] = d[u]["set"] /\ d[u]["set"] # db[u]["set"]
    BY <1>2, OpensChange
  <2>2. PICK how : d[u].set = <<r, how>> /\ (how = "reset" => NoneLive(d, u))
    BY <2>1 DEF Secrets
  <2>3. how = "reset"
    BY <1>2, <2>1, <2>2
  <2> QED
    BY <1>2, <2>2, <2>3 DEF NoneLive
<1> QED
  BY <1>1, <1>2 DEF EndsMine, Table

\* A transaction is opened.
LEMMA OpensAccess ==
  ASSUME Inv, AccessInv, NEW r \in Requests, Idle(r), todo[r] # <<>>, NEW d, Session(r, d, Kinds), Careful(r, d),
         NEW then, NEW else, Follows(r, then), Opens(r, d, then, else)
  PROVE  AccessInv'
<1>1. Stored /\ Program(todo[r])
  BY DEF Inv
<1>2. /\ DOMAIN plan' = DOMAIN plan \cup {r}
      /\ \A q \in DOMAIN plan : plan'[q] = plan[q] /\ q # r
      /\ db' = db /\ todo' = todo /\ met' = met \cup {{r, q} : q \in DOMAIN plan}
  BY <1>1, OpensIs
<1>3. met \subseteq met' /\ (met' = {} => met = {})
  BY <1>2
<1>4. Apart(db) /\ (met = {} => OneRefresh(db)) /\ Ousted(db) /\ SetOnce /\ \A q \in DOMAIN plan : AccessOf(q)
  BY AccessInvIs
<1>5. \A q \in DOMAIN plan : AccessOf(q)'
  BY <1>2, <1>3, <1>4, AccessOfStays
<1>6. \A i, j : Overlapped(i, j) => Overlapped(i, j)'
  BY <1>3, MetGrows
<1>7. NewApart(d) /\ (OneRefresh(db) => OneRefresh(d)) /\ (Ousted(db) => Ousted(d)) /\ Secrets(r, d)
  BY DEF Careful
<1>8. After(r)' = d
  BY <1>1, OpensAfter
<1>9. Apart(d) /\ Ousted(d) /\ (met = {} => OneRefresh(d))
  BY <1>1, <1>4, <1>7, SessionApart
<1>10. Apart(After(r))' /\ Ousted(After(r))' /\ (met' = {} => OneRefresh(After(r))')
  BY <1>3, <1>6, <1>8, <1>9 DEF Apart, Ousted, OneRefresh, Table
<1>11. SetsMine(r)' /\ EndsMine(r)'
  BY <1>1, <1>4, <1>7, OpensSets, OpensEnds
<1>12. AccessOf(r)'
  BY <1>2, <1>10, <1>11 DEF AccessOf
<1>13. (Apart(db) /\ (met = {} => OneRefresh(db)) /\ Ousted(db) /\ SetOnce)'
  BY <1>2, <1>3, <1>4, <1>6 DEF Apart, Ousted, OneRefresh, SetOnce, Table
<1>14. \A q \in DOMAIN plan' : AccessOf(q)'
  BY <1>2, <1>5, <1>12
<1> QED
  BY <1>13, <1>14 DEF AccessInv, AccessOf

(***************************************************************************)
(* The commit.                                                             *)
(***************************************************************************)
\* Who set a password is done with passwords.
LEMMA CommitSetOnce ==
  ASSUME Inv, AccessInv, NEW r \in DOMAIN plan, db' = After(r), Wrote(r, db'), todo' = [todo EXCEPT ![r] = plan[r].then]
  PROVE  SetOnce'
<1>1. /\ AccessOf(r) /\ SetOnce /\ Stored /\ Shaped(r) /\ Follows(r, plan[r].then) /\ r \in Requests
      /\ DOMAIN todo = Requests /\ Program(todo[r])
  BY AccessInvIs DEF Inv
<1>2. SetsMine(r) /\ todo[r] # <<>>
  BY <1>1 DEF AccessOf
<1>3. PICK d : d = db'
  OBVIOUS
<1>4. Wrote(r, d)
  BY <1>3
<1>5. ASSUME NEW x \in Requests, Settings(todo[x]) = {} PROVE Settings(todo'[x]) = {}
  <2>1. CASE x = r
    BY <1>1, <1>2, <1>5, <2>1, FollowsSettings
  <2>2. CASE x # r
    BY <1>1, <1>5, <2>2
  <2> QED
    BY <2>1, <2>2
<1>6. ASSUME NEW u \in Table(d, "user"), d[u].set # <<>>
      PROVE  d[u].set[1] \in Requests /\ Settings(todo'[d[u].set[1]]) = {}
  <2>1. u \notin DOMAIN Ins(r)
    BY <1>2, <1>4, <1>6 DEF SetsMine, Wrote, Table
  <2>2. u \in DOMAIN db \ Del(r) /\ Typed(db[u]) /\ (d[u] = db[u] \/ Kept(db[u], d[u])) /\ d[u].kind = "user"
    BY <1>1, <1>4, <1>6, <2>1 DEF Wrote, Stored, Table
  <2>3. db[u].kind = "user"
    BY <2>2, KeptRow
  <2>4. /\ u \notin DOMAIN Upd(r) => d[u] = db[u]
        /\ u \in DOMAIN Upd(r) => d[u] = Over(Upd(r)[u], db[u])
    BY <1>4, <2>2 DEF Wrote
  <2>5. CASE SetsSecret(r, u)
    <3>1. u \in DOMAIN Upd(r)
      BY <2>5 DEF SetsSecret
    <3>2. d[u].set = Upd(r)[u].set
      BY <2>4, <2>5, <3>1, SecretsSet DEF SetsSecret
    <3>3. Upd(r)[u].set[1] = r /\ Settings(plan[r].then) = {}
      BY <1>2, <2>5, <3>1 DEF SetsSecret, SetsMine
    <3> QED
      BY <1>1, <3>2, <3>3
  <2>6. CASE ~SetsSecret(r, u)
    <3>1. u \in DOMAIN Upd(r) => Suits("user", Upd(r)[u])
      BY <1>1, <2>2, <2>3 DEF Shaped
    <3>2. d[u].set = db[u].set
      BY <1>2, <2>2, <2>3, <2>4, <2>6, <3>1, SecretsStay
    <3>3. u \in Table(db, "user")
      BY <2>2, <2>3 DEF Table
    <3> QED
      BY <1>1, <1>5, <1>6, <3>2, <3>3 DEF SetOnce
  <2> QED
    BY <2>5, <2>6
<1> QED
  BY <1>3, <1>6 DEF SetOnce, Table

\* A commit, taken or refused.
LEMMA CommitAccess ==
  ASSUME Inv, Inv', AccessInv, NEW r \in DOMAIN plan, Ends(r)
  PROVE  AccessInv'
<1>1. DOMAIN plan' = DOMAIN plan \ {r} /\ met' = met /\ \A q \in DOMAIN plan' : plan'[q] = plan[q]
  BY CommitIs
<1>2. /\ Apart(db) /\ (met = {} => OneRefresh(db)) /\ Ousted(db) /\ SetOnce /\ \A q \in DOMAIN plan : AccessOf(q)
      /\ r \in Requests /\ Follows(r, plan[r].else) /\ DOMAIN todo = Requests
  BY AccessInvIs DEF Inv
<1>3. \A i, j : Overlapped(i, j)' <=> Overlapped(i, j)
  BY <1>1 DEF Overlapped
<1>4. CASE db' = db /\ todo' = [todo EXCEPT ![r] = plan[r].else]
  <2>1. todo[r] # <<>>
    BY <1>2 DEF AccessOf
  <2>2. SetOnce'
    BY <1>2, <1>4, <2>1, SetOnceStays
  <2>3. ASSUME NEW q \in DOMAIN plan' PROVE AccessOf(q)'
    <3>1. q \in DOMAIN plan /\ q # r /\ plan'[q] = plan[q] /\ todo'[q] = todo[q]
      <4>1. q \in Requests
        BY <1>1 DEF Inv
      <4> QED
        BY <1>1, <1>2, <1>4, <4>1
    <3> QED
      BY <1>1, <1>2, <1>4, <3>1, AccessOfStays
  <2>4. (Apart(db) /\ (met = {} => OneRefresh(db)) /\ Ousted(db))'
    BY <1>1, <1>2, <1>3, <1>4 DEF Apart, OneRefresh, Ousted, Table
  <2> QED
    BY <2>2, <2>3, <2>4 DEF AccessInv, AccessOf
<1>5. CASE db' = After(r) /\ SoundAll(After(r)) /\ todo' = [todo EXCEPT ![r] = plan[r].then]
  <2>1. Wrote(r, db')
    BY <1>5, WroteStored
  <2>2. SetOnce'
    BY <1>5, <2>1, CommitSetOnce
  <2>3. \A q \in DOMAIN plan' : AccessOf(q)'
    BY <1>5, <2>1, CommitLeavesOpen
  <2>4. PICK d : d = db'
    OBVIOUS
  <2>5. Apart(d) /\ (met = {} => OneRefresh(d)) /\ Ousted(d)
    BY <1>2, <1>5, <2>4 DEF AccessOf
  <2>6. (Apart(db) /\ (met = {} => OneRefresh(db)) /\ Ousted(db))'
    BY <1>1, <1>3, <2>4, <2>5 DEF Apart, OneRefresh, Ousted, Table
  <2> QED
    BY <2>2, <2>3, <2>6 DEF AccessInv, AccessOf
<1> QED
  BY <1>4, <1>5, CommitIs

\* Every step keeps the rows apart.
LEMMA NextAccess ==
  ASSUME Inv, Inv', AccessInv, [Next]_vars
  PROVE  AccessInv'
<1>1. CASE UNCHANGED vars
  <2>1. db' = db /\ todo' = todo /\ plan' = plan /\ met' = met
    BY <1>1 DEF vars
  <2>2. Apart(db) /\ (met = {} => OneRefresh(db)) /\ Ousted(db) /\ SetOnce /\ \A q \in DOMAIN plan : AccessOf(q)
    BY AccessInvIs
  <2>3. (Apart(db) /\ (met = {} => OneRefresh(db)) /\ Ousted(db) /\ SetOnce)'
    BY <2>1, <2>2 DEF Apart, OneRefresh, Ousted, SetOnce, Table, Overlapped
  <2>4. \A q \in DOMAIN plan' : AccessOf(q)'
    BY <2>1, <2>2, AccessOfStays
  <2> QED
    BY <2>3, <2>4 DEF AccessInv, AccessOf
<1>2. CASE Die
  BY <1>2, DieAccess
<1>3. ASSUME NEW r \in Requests, BookStep(r) \/ IntakeStep(r) \/ AccessStep(r) PROVE AccessInv'
  <2>1. Idle(r) /\ todo[r] # <<>> /\ Advances(r)
    BY <1>3, BegunIs, StepBegins
  <2>2. ASSUME NEW t, Follows(r, t), GoesOn(r, t) PROVE AccessInv'
    BY <2>1, <2>2, GoesOnAccess
  <2>3. ASSUME NEW d, NEW then, NEW else, Session(r, d, Kinds), Careful(r, d), Follows(r, then), Follows(r, else),
               Opens(r, d, then, else)
        PROVE  AccessInv'
    BY <2>1, <2>3, OpensAccess
  <2> QED
    BY <2>1, <2>2, <2>3 DEF Advances
<1>4. ASSUME NEW r \in Requests, Ends(r) PROVE AccessInv'
  <2>1. r \in DOMAIN plan
    BY <1>4 DEF Ends, Commit, Refused
  <2> QED
    BY <1>4, <2>1, CommitAccess
<1> QED
  BY <1>1, <1>2, <1>3, <1>4 DEF Next, Ends

\* The second strengthened invariant: of the committed rows, and of those that each
\* open transaction would leave.
THEOREM AccessStaysOrderly == Spec => []AccessInv
<1>1. Init => AccessInv
  BY InitAccess
<1>2. Inv /\ Inv' /\ AccessInv /\ [Next]_vars => AccessInv'
  BY NextAccess
<1> QED
  BY <1>1, <1>2, Inductive, PTL DEF Spec

\* Two live sessions of a user, two usable links of a kind, two uses of a link or
\* permissions of two edits of a role come of requests that overlapped (login,
\* create_auth_token, _consume_auth_token, update_role); and two live refresh tokens
\* of a session at least of some that did (refresh).
THEOREM OneOfEach == Spec => []AccessExplained
<1>1. ASSUME Inv, AccessInv PROVE AccessExplained
  <2> SUFFICES ASSUME NEW i \in DOMAIN db, NEW j \in DOMAIN db, i # j
               PROVE  /\ \/ Alike(db[i], db[j], "session", {"user", "live"}) /\ db[i].live
                         \/ Alike(db[i], db[j], "link", {"user", "of", "unused"}) /\ db[i].unused
                         \/ Alike(db[i], db[j], "use", {"link"})
                         \/ Alike(db[i], db[j], "may", {"role"})
                         => Overlapped(i, j)
                      /\ Alike(db[i], db[j], "refresh", {"session", "live"}) /\ db[i].live => met # {}
    BY DEF AccessExplained
  <2>1. Rival(db[i], db[j]) => Overlapped(i, j)
    BY <1>1 DEF AccessInv, Apart
  <2>2. ASSUME Alike(db[i], db[j], "refresh", {"session", "live"}), db[i].live PROVE met # {}
    <3>1. i \in Table(db, "refresh") /\ j \in Table(db, "refresh") /\ db[j].live = db[i].live
          /\ db[j].session = db[i].session
      BY <2>2 DEF Alike, Table
    <3> QED
      BY <1>1, <2>2, <3>1 DEF AccessInv, OneRefresh
  <2> QED
    BY <2>1, <2>2 DEF Rival
<1> QED
  BY <1>1, Inductive, AccessStaysOrderly, PTL

\* After reset_password no session opened with another password lives, unless
\* it was being opened meanwhile.
THEOREM OldPasswordsOut == Spec => []OldPasswordOut
<1>1. ASSUME Inv, AccessInv PROVE OldPasswordOut
  <2> SUFFICES ASSUME NEW s \in Table(db, "session"), NEW u, u = db[s].user, db[s].live, db[u].set # <<>>,
                      db[u].set[2] = "reset", db[s].with # db[u].password
               PROVE  Overlapped(s, db[u].set)
    BY DEF OldPasswordOut
  <2>1. u \in Table(db, "user")
    <3>1. s \in DOMAIN db /\ db[s].kind = "session" /\ SoundAccess(db)
      BY <1>1 DEF Inv, Stored, SoundAll, Table
    <3>2. "session" \in DOMAIN Refers /\ "user" \in Refers["session"]
      BY DEF Refers
    <3>3. \A c \in Refers[db[s].kind] : db[s][c] \in Table(db, c)
      BY <3>1, <3>2 DEF SoundAccess
    <3> QED
      BY <3>1, <3>2, <3>3
  <2> QED
    BY <1>1, <2>1 DEF AccessInv, Ousted
<1> QED
  BY <1>1, Inductive, AccessStaysOrderly, PTL
=============================================================================
