--------------------- MODULE AdministrationIntakeProofs ---------------------
(***************************************************************************)
(* Theorems about Administration: files, numbers and drafts.  They rest on *)
(* the sessions and the invariant of AdministrationProofs.                 *)
(*                                                                         *)
(* 1. A preview counts, row by row, what an upload would do.               *)
(* 2. What comes of an upload: the transactions after it find the job and  *)
(*    the run they were handed, and no account of an import is seen before *)
(*    its run has ended (ImportsInv).                                      *)
(* 3. Numbers: a handler that finds each number in one place leaves it in  *)
(*    one place (Lawful), so that one request after the other does, too    *)
(*    (NumbersInv).                                                        *)
(* 4. Drafts: drafts of one scope, and the jobs that may still make some,  *)
(*    come from one request or from two that overlapped, on the rows and   *)
(*    in what each open transaction would leave of them (DraftsInv).       *)
(* 5. What a draft is made of: what the checks of a flow rule out          *)
(*    (ValidFits), by induction along its ways, and that an account finds  *)
(*    the segment it was put in (SegmentsAlwaysFit), by induction over the *)
(*    passes that merge small groups (DraftsAlwaysFit).                    *)
(***************************************************************************)
EXTENDS AdministrationProofs

(***************************************************************************)
(* The preview of a file and its upload, row by row.                       *)
(***************************************************************************)
\* The rows of an account file are taken in turn.
Uploads(f, d, r, run, rows) ==
  /\ f[0] = Read(d)
  /\ \A n \in 1 .. Len(rows) : f[n] = AccountRow(f[n - 1], r, run, rows[n])
  /\ AccountsTaken(d, r, run, rows) = f[Len(rows)]

\* By induction over the rows, as AccountsTaken goes through them.
LEMMA AccountsInTurn ==
  ASSUME NEW d, NEW r, NEW run, NEW rows, Len(rows) \in Nat
  PROVE  \E f : Uploads(f, d, r, run, rows)
<1>0. PICK k : k = Len(rows) /\ k \in Nat
  OBVIOUS
<1>00. PICK a : a = Read(d)
  OBVIOUS
<1> DEFINE Obeys(h, m) == h = [n \in 0 .. m |-> IF n = 0 THEN a ELSE AccountRow(h[n - 1], r, run, rows[n])]
           f == CHOOSE h : Obeys(h, k)
<1>1. AccountsTaken(d, r, run, rows) = f[k]
  BY <1>0, <1>00 DEF AccountsTaken
<1>2. \E h : Obeys(h, k)
  <2> DEFINE S == {m \in Nat : \E h : Obeys(h, m)}
  <2>1. 0 \in S
    <3>1. PICK h : h = [n \in 0 .. 0 |-> a]
      OBVIOUS
    <3>2. Obeys(h, 0)
      BY <3>1
    <3> QED
      BY <3>2
  <2>2. ASSUME NEW m \in Nat, m \in S PROVE m + 1 \in S
    <3>1. PICK h : Obeys(h, m)
      BY <2>2
    <3>2. PICK g : g = [n \in 0 .. m + 1 |-> IF n \in 0 .. m THEN h[n] ELSE AccountRow(h[m], r, run, rows[n])]
      OBVIOUS
    <3>3. ASSUME NEW n \in 0 .. m + 1 PROVE g[n] = IF n = 0 THEN a ELSE AccountRow(g[n - 1], r, run, rows[n])
      <4>1. CASE n = 0
        BY <3>1, <3>2, <4>1
      <4>2. CASE n = m + 1
        BY <3>1, <3>2, <4>2
      <4>3. CASE n # 0 /\ n \in 0 .. m
        <5>1. n - 1 \in 0 .. m /\ g[n - 1] = h[n - 1] /\ g[n] = h[n]
          BY <3>2, <4>3
        <5> QED
          BY <3>1, <4>3, <5>1
      <4> QED
        BY <4>1, <4>2, <4>3
    <3>4. Obeys(g, m + 1)
      BY <3>2, <3>3
    <3> QED
      BY <3>4
  <2> HIDE DEF S
  <2>3. Nat \subseteq S
    BY <2>1, <2>2, SetInduction
  <2> QED
    BY <1>0, <2>3 DEF S
<1>3. Obeys(f, k)
  BY <1>2
<1> HIDE DEF f
<1>4. f[0] = Read(d)
  BY <1>0, <1>00, <1>3
<1>5. \A n \in 1 .. k : f[n] = AccountRow(f[n - 1], r, run, rows[n])
  BY <1>0, <1>3
<1>6. Uploads(f, d, r, run, rows)
  BY <1>0, <1>1, <1>4, <1>5 DEF Uploads
<1> QED
  BY <1>6

\* So are those of a preview.
Previews(f, d, rows) ==
  /\ f[0] = Read(d)
  /\ \A n \in 1 .. Len(rows) : f[n] = PreviewRow(f[n - 1], rows[n])
  /\ Preview(d, rows) = f[Len(rows)].n

\* So does the preview.
LEMMA PreviewInTurn ==
  ASSUME NEW d, NEW rows, Len(rows) \in Nat
  PROVE  \E f : Previews(f, d, rows)
<1>0. PICK k : k = Len(rows) /\ k \in Nat
  OBVIOUS
<1>00. PICK a : a = Read(d)
  OBVIOUS
<1> DEFINE Obeys(h, m) == h = [n \in 0 .. m |-> IF n = 0 THEN a ELSE PreviewRow(h[n - 1], rows[n])]
           f == CHOOSE h : Obeys(h, k)
<1>1. Preview(d, rows) = f[k].n
  BY <1>0, <1>00 DEF Preview
<1>2. \E h : Obeys(h, k)
  <2> DEFINE S == {m \in Nat : \E h : Obeys(h, m)}
  <2>1. 0 \in S
    <3>1. PICK h : h = [n \in 0 .. 0 |-> a]
      OBVIOUS
    <3>2. Obeys(h, 0)
      BY <3>1
    <3> QED
      BY <3>2
  <2>2. ASSUME NEW m \in Nat, m \in S PROVE m + 1 \in S
    <3>1. PICK h : Obeys(h, m)
      BY <2>2
    <3>2. PICK g : g = [n \in 0 .. m + 1 |-> IF n \in 0 .. m THEN h[n] ELSE PreviewRow(h[m], rows[n])]
      OBVIOUS
    <3>3. ASSUME NEW n \in 0 .. m + 1 PROVE g[n] = IF n = 0 THEN a ELSE PreviewRow(g[n - 1], rows[n])
      <4>1. CASE n = 0
        BY <3>1, <3>2, <4>1
      <4>2. CASE n = m + 1
        BY <3>1, <3>2, <4>2
      <4>3. CASE n # 0 /\ n \in 0 .. m
        <5>1. n - 1 \in 0 .. m /\ g[n - 1] = h[n - 1] /\ g[n] = h[n]
          BY <3>2, <4>3
        <5> QED
          BY <3>1, <4>3, <5>1
      <4> QED
        BY <4>1, <4>2, <4>3
    <3>4. Obeys(g, m + 1)
      BY <3>2, <3>3
    <3> QED
      BY <3>4
  <2> HIDE DEF S
  <2>3. Nat \subseteq S
    BY <2>1, <2>2, SetInduction
  <2> QED
    BY <1>0, <2>3 DEF S
<1>3. Obeys(f, k)
  BY <1>2
<1> HIDE DEF f
<1>4. f[0] = Read(d)
  BY <1>0, <1>00, <1>3
<1>5. \A n \in 1 .. k : f[n] = PreviewRow(f[n - 1], rows[n])
  BY <1>0, <1>3
<1>6. Previews(f, d, rows)
  BY <1>0, <1>1, <1>4, <1>5 DEF Previews
<1> QED
  BY <1>6

\* The clients and portfolios of a session are those that were found.
SameBook(e) ==
  /\ \A i \in DOMAIN e : e[i].kind \in {"client", "portfolio"} => i \in DOMAIN db
  /\ \A i \in DOMAIN db : db[i].kind \in {"client", "portfolio"} => i \in DOMAIN e /\ e[i] = db[i]

\* The accounts whose keys were not read are those that were found.
AccountKey(x) == <<db[x.client].code, x.ref>>
OthersKept(e, keys) ==
  /\ \A i \in Table(db, "account") : AccountKey(db[i]) \notin keys => i \in DOMAIN e /\ e[i] = db[i]
  /\ \A i \in Table(e, "account") : AccountKey(e[i]) \notin keys => i \in DOMAIN db /\ e[i] = db[i]

\* A preview and an upload that find the same accounts count the same.
LEMMA SameTables ==
  ASSUME Stored, NEW r, NEW e, Session(r, e, BookKinds), SameBook(e)
  PROVE  /\ \A c : Coded(e, c) = Coded(db, c) /\ (Coded(db, c) # {} => First(Coded(db, c)) \in Coded(db, c))
         /\ \A m, c : CodedIn(e, m, c) = CodedIn(db, m, c)
         /\ \A n : Numbered(e, "client", n) = Numbered(db, "client", n)
         /\ \A n : Numbered(e, "portfolio", n) = Numbered(db, "portfolio", n)
         /\ Table(e, "portfolio") = Table(db, "portfolio") /\ Table(e, "client") = Table(db, "client")
<1>1. \A kind \in {"client", "portfolio"} : Table(e, kind) = Table(db, kind) /\ \A i \in Table(db, kind) : e[i] = db[i]
  <2>1. \A i \in DOMAIN e \cap DOMAIN db : e[i].kind = db[i].kind
    BY FoundRows
  <2> QED
    BY <2>1 DEF SameBook, Table
<1>2. \A c : Coded(e, c) = Coded(db, c)
  BY <1>1 DEF Coded
<1>3. \A m, c : CodedIn(e, m, c) = CodedIn(db, m, c)
  BY <1>1 DEF CodedIn
<1>4. \A n : Numbered(e, "client", n) = Numbered(db, "client", n)
  BY <1>1 DEF Numbered
<1>5. \A n : Numbered(e, "portfolio", n) = Numbered(db, "portfolio", n)
  BY <1>1 DEF Numbered
<1>6. \A c : Coded(db, c) # {} => First(Coded(db, c)) \in Coded(db, c)
  BY FirstOf
<1> QED
  BY <1>1, <1>2, <1>3, <1>4, <1>5, <1>6

\* So a row belongs to the same client and portfolio.
LEMMA SameResolved ==
  ASSUME Stored, NEW r, NEW e, Session(r, e, BookKinds), SameBook(e), NEW row
  PROVE  Resolved(e, row) = Resolved(db, row)
<1> DEFINE coded(d) == {p \in Table(d, "portfolio") : d[p].code = row.number}
           num == Numbered(db, "portfolio", row.number)
           own == Numbered(db, "client", row.number)
<1>1. \A p \in Table(db, "portfolio") : e[p] = db[p] /\ e[db[p].client] = db[db[p].client]
  <2> SUFFICES ASSUME NEW p \in Table(db, "portfolio") PROVE e[p] = db[p] /\ e[db[p].client] = db[db[p].client]
    OBVIOUS
  <2>1. p \in DOMAIN db /\ db[p].kind = "portfolio"
    BY DEF Table
  <2>2. db[p].client \in Table(db, "client")
    BY <2>1 DEF Stored, SoundAll, Sound, Attached, Children
  <2> QED
    BY <2>1, <2>2 DEF SameBook, Table
<1>2. \A m \in Table(db, "client") : e[m] = db[m]
  BY DEF SameBook, Table
<1>3. coded(e) = coded(db)
  BY <1>1, SameTables
<1>4. /\ Coded(e, row.number) = Coded(db, row.number)
      /\ Numbered(e, "portfolio", row.number) = num
      /\ Numbered(e, "client", row.number) = own
  BY SameTables
<1>5. Cardinality(coded(db)) = 1 => First(coded(db)) \in Table(db, "portfolio")
  <2>1. coded(db) # {} => First(coded(db)) \in coded(db)
    BY FirstOf
  <2>2. Cardinality({}) # 1
    BY FS_EmptySet
  <2> QED
    BY <2>1, <2>2
<1>6. num # {} => First(num) \in Table(db, "portfolio")
  BY FirstOf DEF Numbered
<1>7. own # {} => First(own) \in Table(db, "client")
  BY FirstOf DEF Numbered
<1>8. PICK T, C, N, M : /\ T = coded(db) /\ C = Coded(db, row.number) /\ N = num /\ M = own
                        /\ T = {p \in Table(e, "portfolio") : e[p].code = row.number}
                        /\ T = {p \in Table(db, "portfolio") : db[p].code = row.number}
                        /\ N = Numbered(db, "portfolio", row.number) /\ N = Numbered(e, "portfolio", row.number)
                        /\ M = Numbered(db, "client", row.number) /\ M = Numbered(e, "client", row.number)
  BY <1>3, <1>4
<1> HIDE DEF coded, num, own
<1>9. CASE row.client # "" \/ C # {}
  BY <1>4, <1>8, <1>9 DEF Resolved
<1>10. CASE row.client = "" /\ C = {} /\ Cardinality(T) = 1
  <2>1. PICK p : p = First(T) /\ p \in Table(db, "portfolio")
    BY <1>5, <1>8, <1>10
  <2>2. PICK q : q = db[p].client /\ e[p] = db[p] /\ e[q] = db[q]
    BY <1>1, <2>1
  <2>3. PICK v : v = [code |-> db[q].code, sub |-> IF row.sub # "" THEN row.sub ELSE db[p].code]
    OBVIOUS
  <2>4. Resolved(db, row) = v
    BY <1>4, <1>8, <1>10, <2>1, <2>2, <2>3 DEF Resolved
  <2>5. Resolved(e, row) = v
    BY <1>4, <1>8, <1>10, <2>1, <2>2, <2>3 DEF Resolved
  <2> QED
    BY <2>4, <2>5
<1>11. CASE row.client = "" /\ C = {} /\ Cardinality(T) # 1 /\ N # {}
  <2>1. PICK p : p = First(N) /\ p \in Table(db, "portfolio")
    BY <1>6, <1>8, <1>11
  <2>2. PICK q : q = db[p].client /\ e[p] = db[p] /\ e[q] = db[q]
    BY <1>1, <2>1
  <2>3. PICK v : v = [code |-> db[q].code, sub |-> IF row.sub # "" THEN row.sub ELSE db[p].code]
    OBVIOUS
  <2>4. Resolved(db, row) = v
    BY <1>4, <1>8, <1>11, <2>1, <2>2, <2>3 DEF Resolved
  <2>5. Resolved(e, row) = v
    BY <1>4, <1>8, <1>11, <2>1, <2>2, <2>3 DEF Resolved
  <2> QED
    BY <2>4, <2>5
<1>12. CASE row.client = "" /\ C = {} /\ Cardinality(T) # 1 /\ N = {}
  BY <1>2, <1>4, <1>7, <1>8, <1>12 DEF Resolved
<1> QED
  BY <1>9, <1>10, <1>11, <1>12

\* A new row that is not of the book, and no account but of a key that was read,
\* keeps the others.
LEMMA InsertKeeps ==
  ASSUME Stored, NEW r \in Requests, NEW d, Session(r, d, BookKinds), NEW keys, SameBook(d), OthersKept(d, keys),
         NEW row, Typed(row), row.kind \in {"account", "review"},
         row.kind = "account" => AccountKey(row) \in keys,
         NEW e, e = Inserted(d, r, row)
  PROVE  Session(r, e, BookKinds) /\ SameBook(e) /\ OthersKept(e, keys)
<1>0. row.kind \in BookKinds
  BY DEF BookKinds
<1>1. PICK u : u = Fresh(d, r)
  OBVIOUS
<1>2. /\ Session(r, e, BookKinds) /\ u \notin DOMAIN d \cup DOMAIN db
      /\ DOMAIN e = DOMAIN d \cup {u} /\ e[u] = row /\ \A i \in DOMAIN d : e[i] = d[i]
  <2>1. Session(r, e, BookKinds)
    BY <1>0, Insertion
  <2>2. u \notin DOMAIN d \cup DOMAIN db
    BY <1>1, FreshIs
  <2>3. e = Over(d, [i \in {u} |-> row])
    BY <1>1 DEF Inserted
  <2> QED
    BY <2>1, <2>2, <2>3 DEF Over
<1>3. SameBook(e)
  BY <1>2 DEF SameBook
<1>4. \A i \in Table(db, "account") : AccountKey(db[i]) \notin keys => i \in DOMAIN e /\ e[i] = db[i]
  BY <1>2 DEF OthersKept
<1>5. ASSUME NEW i \in Table(e, "account"), AccountKey(e[i]) \notin keys PROVE i \in DOMAIN db /\ e[i] = db[i]
  <2>1. i # u
    BY <1>2, <1>5 DEF Table
  <2>2. i \in Table(d, "account") /\ e[i] = d[i]
    BY <1>2, <1>5, <2>1 DEF Table
  <2> QED
    BY <1>5, <2>2 DEF OthersKept
<1> QED
  BY <1>2, <1>3, <1>4, <1>5 DEF OthersKept

LEMMA ReviewedKeeps ==
  ASSUME Stored, NEW r \in Requests, NEW d, Session(r, d, BookKinds), NEW keys, SameBook(d), OthersKept(d, keys), NEW i
  PROVE  SameBook(Reviewed(d, r, i)) /\ OthersKept(Reviewed(d, r, i), keys)
<1>1. PICK row : row = [kind |-> "review", account |-> i]
  OBVIOUS
<1>2. Typed(row)
  BY <1>1, TypedRows, Zenon
<1>3. row.kind = "review"
  BY <1>1
<1>4. PICK e : e = Inserted(d, r, row)
  OBVIOUS
<1>5. SameBook(e) /\ OthersKept(e, keys)
  BY <1>2, <1>3, <1>4, InsertKeeps
<1> QED
  BY <1>1, <1>4, <1>5 DEF Reviewed

\* An account that a row names, created or changed.
LEMMA UpsertKeeps ==
  ASSUME Stored, NEW r \in Requests, NEW d, Session(r, d, BookKinds), NEW keys, SameBook(d), OthersKept(d, keys),
         NEW run, NEW home, NEW row, <<db[home.client].code, row.ref>> \in keys,
         Takes("account", "face", row.face)
  PROVE  SameBook(Upserted(d, r, run, home, row)) /\ OthersKept(Upserted(d, r, run, home, row), keys)
<1>1. PICK found : found = Existing(d, home, row.ref)
  OBVIOUS
<1>2. PICK i : i = First(found)
  OBVIOUS
<1>3. PICK x : x = [kind |-> "account", client |-> home.client, portfolio |-> home.portfolio,
                    ref |-> row.ref, face |-> row.face, by |-> run]
  OBVIOUS
<1>4. Typed(x) /\ x.kind = "account" /\ AccountKey(x) \in keys
  <2>1. Typed(x)
    BY <1>3, TypedRows, Zenon
  <2> QED
    BY <1>3, <2>1 DEF AccountKey
<1>5. CASE found = {}
  <2>1. PICK e : e = Inserted(d, r, x)
    OBVIOUS
  <2>2. Session(r, e, BookKinds) /\ SameBook(e) /\ OthersKept(e, keys)
    BY <1>4, <2>1, InsertKeeps
  <2>3. PICK f : f = Reviewed(e, r, Fresh(d, r))
    OBVIOUS
  <2>4. SameBook(f) /\ OthersKept(f, keys)
    BY <2>2, <2>3, ReviewedKeeps
  <2>5. Upserted(d, r, run, home, row) = f
    BY <1>1, <1>2, <1>3, <1>5, <2>1, <2>3 DEF Upserted
  <2> QED
    BY <2>4, <2>5
<1>6. CASE found # {}
  <2>1. i \in DOMAIN d /\ d[i].kind = "account" /\ AccountKey(d[i]) \in keys
    <3>1. i \in found
      BY <1>2, <1>6, FirstOf
    <3> QED
      BY <1>1, <3>1 DEF Existing, Table, AccountKey
  <2>2. PICK e : e = [d EXCEPT ![i] = x]
    OBVIOUS
  <2>3. Kept(d[i], x) /\ d[i].kind \in BookKinds
    BY <1>4, <2>1 DEF Kept, BookKinds
  <2>4. Session(r, e, BookKinds) /\ DOMAIN e = DOMAIN d /\ e[i] = x /\ \A j \in DOMAIN d \ {i} : e[j] = d[j]
    BY <1>4, <2>1, <2>2, <2>3, EditionOne
  <2>5. SameBook(e)
    <3>1. i \in DOMAIN db => db[i].kind = "account"
      BY <2>1, FoundRows
    <3> QED
      BY <1>4, <2>1, <2>4, <3>1 DEF SameBook
  <2>6. OthersKept(e, keys)
    <3>1. ASSUME NEW j \in Table(db, "account"), AccountKey(db[j]) \notin keys PROVE j \in DOMAIN e /\ e[j] = db[j]
      <4>1. j \in DOMAIN d /\ d[j] = db[j]
        BY <3>1 DEF OthersKept
      <4> QED
        BY <2>1, <2>4, <3>1, <4>1
    <3>2. ASSUME NEW j \in Table(e, "account"), AccountKey(e[j]) \notin keys PROVE j \in DOMAIN db /\ e[j] = db[j]
      <4>1. j # i /\ j \in Table(d, "account") /\ d[j] = e[j]
        BY <1>4, <2>4, <3>2 DEF Table
      <4> QED
        BY <3>2, <4>1 DEF OthersKept
    <3> QED
      BY <3>1, <3>2 DEF OthersKept
  <2>7. PICK f : f = Reviewed(e, r, i)
    OBVIOUS
  <2>8. SameBook(f) /\ OthersKept(f, keys)
    BY <2>4, <2>5, <2>6, <2>7, ReviewedKeeps
  <2>9. Upserted(d, r, run, home, row) \in {d, f}
    BY <1>1, <1>2, <1>3, <1>6, <2>2, <2>7 DEF Upserted
  <2> QED
    BY <2>8, <2>9
<1> QED
  BY <1>5, <1>6

\* The preview and the upload have come to the same counts.
Abreast(r, run, a, b) ==
  /\ {"d", "keys", "touched", "n"} \subseteq DOMAIN a /\ {"d", "keys", "touched", "n"} \subseteq DOMAIN b
  /\ a.d = db /\ a.keys = b.keys /\ a.n = b.n
  /\ TakenSoFar(r, run, b) /\ SameBook(b.d) /\ OthersKept(b.d, b.keys)

\* An account is found by the upload where the preview finds it.
LEMMA SameExisting ==
  ASSUME Stored, NEW e, NEW keys, OthersKept(e, keys), NEW home, NEW ref,
         <<db[home.client].code, ref>> \notin keys
  PROVE  /\ Existing(e, home, ref) = Existing(db, home, ref)
         /\ \A i \in Existing(db, home, ref) : e[i] = db[i]
<1>1. ASSUME NEW i \in Existing(db, home, ref) PROVE i \in Existing(e, home, ref) /\ e[i] = db[i]
  <2>1. i \in Table(db, "account") /\ db[i].client = home.client /\ db[i].ref = ref
    BY <1>1 DEF Existing
  <2>2. AccountKey(db[i]) \notin keys
    BY <2>1 DEF AccountKey
  <2>3. i \in DOMAIN e /\ e[i] = db[i]
    BY <2>1, <2>2 DEF OthersKept
  <2> QED
    BY <2>1, <2>3 DEF Existing, Table
<1>2. ASSUME NEW i \in Existing(e, home, ref) PROVE i \in Existing(db, home, ref)
  <2>1. i \in Table(e, "account") /\ e[i].client = home.client /\ e[i].ref = ref
    BY <1>2 DEF Existing
  <2>2. AccountKey(e[i]) \notin keys
    BY <2>1 DEF AccountKey
  <2>3. i \in DOMAIN db /\ e[i] = db[i]
    BY <2>1, <2>2 DEF OthersKept
  <2> QED
    BY <2>1, <2>3 DEF Existing, Table
<1> QED
  BY <1>1, <1>2

LEMMA RowsAbreast ==
  ASSUME Stored, NEW r \in Requests, NEW run, NEW a, NEW b, Abreast(r, run, a, b), NEW row,
         Takes("account", "face", row.face)
  PROVE  Abreast(r, run, PreviewRow(a, row), AccountRow(b, r, run, row))
<1>1. PICK e : e = b.d
  OBVIOUS
<1>2. PICK keys : keys = b.keys
  OBVIOUS
<1>3. a.d = db /\ a.keys = keys /\ a.n = b.n /\ Session(r, e, BookKinds) /\ SameBook(e) /\ OthersKept(e, keys)
  <2>1. Session(r, e, TakenKinds) /\ TakenKinds \subseteq BookKinds
    BY <1>1 DEF Abreast, TakenSoFar, TakenKinds, BookKinds
  <2> QED
    BY <1>1, <1>2, <2>1, SessionWidens DEF Abreast
<1>4. PICK named : named = Resolved(db, row)
  OBVIOUS
<1>5. Resolved(e, row) = named
  BY <1>3, <1>4, SameResolved
<1>6. PICK home : home = Home(db, named)
  OBVIOUS
<1>7. Home(e, named) = home /\ Unknown(e, named) = Unknown(db, named)
  <2>1. Coded(e, named.code) = Coded(db, named.code) /\ \A m : CodedIn(e, m, named.sub) = CodedIn(db, m, named.sub)
    BY <1>3, SameTables
  <2> QED
    BY <1>6, <2>1 DEF Home, Unknown
<1>8. PICK key : key = <<named.code, row.ref>>
  OBVIOUS
<1>9. KeyOf(db, row) = key /\ KeyOf(e, row) = key /\ Unresolved(e, row) = Unresolved(db, row)
  BY <1>4, <1>5, <1>8 DEF KeyOf, Unresolved
<1>10. PICK K : K = IF Unresolved(db, row) THEN keys ELSE keys \cup {key}
  OBVIOUS
<1>11. PICK p : p = Remember(a, db, row)
  OBVIOUS
<1>12. PICK q : q = Remember(b, e, row)
  OBVIOUS
<1>13. p.d = db /\ p.keys = K /\ p.n = b.n /\ DOMAIN p = DOMAIN a
  BY <1>3, <1>9, <1>10, <1>11 DEF Remember, Abreast
<1>14. q.d = e /\ q.keys = K /\ q.n = b.n /\ DOMAIN q = DOMAIN b
  BY <1>1, <1>2, <1>9, <1>10, <1>12 DEF Remember, Abreast
<1>15. OthersKept(e, K)
  BY <1>3, <1>10 DEF OthersKept
<1>16. Rejected(b, e, row) = Rejected(a, db, row)
  BY <1>2, <1>3, <1>4, <1>5, <1>7, <1>9 DEF Rejected
<1>17. TakenSoFar(r, run, AccountRow(b, r, run, row))
  BY AccountRowReads DEF Abreast
<1>18. CASE Rejected(a, db, row)
  <2>1. PreviewRow(a, row) = Counts(p, "failed") /\ AccountRow(b, r, run, row) = Counts(q, "failed")
    BY <1>1, <1>3, <1>11, <1>12, <1>16, <1>18 DEF PreviewRow, AccountRow
  <2>2. PICK c : c = Counts(p, "failed")
    OBVIOUS
  <2>3. PICK f : f = Counts(q, "failed")
    OBVIOUS
  <2>4. /\ c.d = p.d /\ c.keys = p.keys /\ DOMAIN c = DOMAIN p
        /\ f.d = q.d /\ f.keys = q.keys /\ DOMAIN f = DOMAIN q
    BY <2>2, <2>3 DEF Counts
  <2>5. c.n = f.n
    BY <1>13, <1>14, <2>2, <2>3 DEF Counts, Abreast
  <2>6. Abreast(r, run, c, f)
    BY <1>3, <1>13, <1>14, <1>15, <1>17, <2>1, <2>3, <2>4, <2>5 DEF Abreast
  <2> QED
    BY <2>1, <2>2, <2>3, <2>6
<1>19. CASE ~Rejected(a, db, row)
  <2>1. ~Unresolved(db, row) /\ key \notin keys /\ ~Unknown(db, named) /\ key \in K
    BY <1>3, <1>4, <1>9, <1>10, <1>19 DEF Rejected, Repeated
  <2>2. <<db[home.client].code, row.ref>> = key
    <3>1. Coded(db, named.code) # {}
      BY <2>1 DEF Unknown
    <3>2. home.client \in Coded(db, named.code)
      BY <1>6, <3>1, FirstOf DEF Home
    <3> QED
      BY <1>8, <3>2 DEF Coded
  <2>3. /\ Existing(e, home, row.ref) = Existing(db, home, row.ref)
        /\ \A i \in Existing(db, home, row.ref) : e[i] = db[i]
    BY <1>3, <2>1, <2>2, SameExisting
  <2>4. PICK what : what = Found(db, home, row)
    OBVIOUS
  <2>5. Found(e, home, row) = what
    <3>1. PICK F : F = Existing(db, home, row.ref)
      OBVIOUS
    <3>2. F # {} => First(F) \in F
      BY FirstOf
    <3> QED
      BY <2>3, <2>4, <3>1, <3>2 DEF Found
  <2>6. PICK u : u = Upserted(e, r, run, home, row)
    OBVIOUS
  <2>7. SameBook(u) /\ OthersKept(u, K)
    BY <1>3, <1>15, <2>1, <2>2, <2>6, UpsertKeeps
  <2>8. PICK c : c = Counts(p, what)
    OBVIOUS
  <2>9. PICK f : f = Counts(q, what)
    OBVIOUS
  <2>10. PICK g : g = [f EXCEPT !.d = u, !.touched = @ \cup {home}]
    OBVIOUS
  <2>11. PreviewRow(a, row) = c
    BY <1>3, <1>4, <1>6, <1>11, <1>19, <2>4, <2>8 DEF PreviewRow
  <2>12. AccountRow(b, r, run, row) = g
    BY <1>1, <1>5, <1>7, <1>12, <1>16, <1>19, <2>5, <2>6, <2>9, <2>10 DEF AccountRow
  <2>13. /\ c.d = p.d /\ c.keys = p.keys /\ DOMAIN c = DOMAIN p
         /\ f.d = q.d /\ f.keys = q.keys /\ DOMAIN f = DOMAIN q
    BY <2>8, <2>9 DEF Counts
  <2>14. c.n = f.n
    BY <1>13, <1>14, <2>8, <2>9 DEF Counts, Abreast
  <2>15. g.d = u /\ g.keys = f.keys /\ g.n = f.n /\ DOMAIN g = DOMAIN f
    BY <1>14, <2>10, <2>13 DEF Abreast
  <2>16. TakenSoFar(r, run, g)
    BY <1>17, <2>12
  <2>17. Abreast(r, run, c, g)
    BY <1>3, <1>13, <1>14, <2>7, <2>13, <2>14, <2>15, <2>16 DEF Abreast
  <2> QED
    BY <2>11, <2>12, <2>17
<1> QED
  BY <1>18, <1>19

\* The preview counts what the upload would count, whatever the tables and the file.
LEMMA SameCounts ==
  ASSUME Stored, NEW r \in Requests, NEW rows, Len(rows) \in Nat, Classed(rows), NEW run
  PROVE  Preview(db, rows) = AccountsTaken(db, r, run, rows).n
<1>1. PICK k : k = Len(rows) /\ k \in Nat
  OBVIOUS
<1>2. PICK f : Uploads(f, db, r, run, rows)
  BY AccountsInTurn
<1>3. PICK g : Previews(g, db, rows)
  BY PreviewInTurn
<1> DEFINE Q == {n \in Nat : n \in 0 .. k => Abreast(r, run, g[n], f[n])}
<1>4. 0 \in Q
  <2>1. PICK a : a = Read(db)
    OBVIOUS
  <2>2. a.d = db /\ a.keys = {} /\ {"d", "keys", "touched", "n"} \subseteq DOMAIN a
    BY <2>1 DEF Read
  <2>3. TakenSoFar(r, run, a)
    BY <2>1, FS_EmptySet, SessionBegins DEF Read, TakenSoFar, Stamped, New
  <2>4. SameBook(db) /\ OthersKept(db, {})
    BY DEF SameBook, OthersKept, Table
  <2>5. Abreast(r, run, a, a)
    BY <2>2, <2>3, <2>4 DEF Abreast
  <2> QED
    BY <1>2, <1>3, <2>1, <2>5 DEF Uploads, Previews
<1>5. \A n \in Nat : n \in Q => n + 1 \in Q
  <2> TAKE n \in Nat
  <2> HAVE n \in Q
  <2>1. CASE n + 1 \in 0 .. k
    <3>1. PICK a, b : a = g[n] /\ b = f[n]
      OBVIOUS
    <3>2. f[n + 1] = AccountRow(b, r, run, rows[n + 1]) /\ g[n + 1] = PreviewRow(a, rows[n + 1]) /\ Abreast(r, run, a, b)
      BY <1>1, <1>2, <1>3, <2>1, <3>1 DEF Uploads, Previews
    <3>4. n + 1 \in 1 .. Len(rows)
      BY <1>1, <2>1
    <3>5. PICK row : row = rows[n + 1]
      OBVIOUS
    <3>6. Takes("account", "face", row.face)
      BY <3>4, <3>5 DEF Classed
    <3>3. Abreast(r, run, PreviewRow(a, rows[n + 1]), AccountRow(b, r, run, rows[n + 1]))
      BY <3>2, <3>5, <3>6, RowsAbreast
    <3> QED
      BY <3>2, <3>3
  <2> QED
    BY <2>1
<1> HIDE DEF Q
<1>6. Nat \subseteq Q
  BY <1>4, <1>5, SetInduction
<1>7. Abreast(r, run, g[k], f[k])
  BY <1>1, <1>6 DEF Q
<1> QED
  BY <1>1, <1>2, <1>3, <1>7 DEF Abreast, Uploads, Previews

\* The preview of a file (validate_account_file) counts what the upload of the same
\* file would count on the tables of the moment, whatever other requests commit.
THEOREM PreviewsAreHonest == Spec => []PreviewHonest
<1>1. ASSUME Inv PROVE PreviewHonest
  <2> SUFFICES ASSUME NEW r \in Requests, NEW n \in DOMAIN story.todo[r], NEW o, o = story.todo[r][n],
                      o.do = "upload", o.type \in AccountFiles
               PROVE  Preview(db, o.file.rows) = AccountsTaken(db, r, <<>>, o.file.rows).n
    BY DEF PreviewHonest
  <2>1. Stored /\ Program(story.todo[r])
    BY <1>1, AdministrationAssumption DEF Inv, StoryAssumption
  <2>2. PICK t : t = story.todo[r]
    OBVIOUS
  <2>3. n \in 1 .. Len(t)
    BY <2>1, <2>2 DEF Program
  <2>4. Asked(o)
    BY <2>1, <2>2, <2>3 DEF Program
  <2>5. PICK rows : rows = o.file.rows
    OBVIOUS
  <2>6. Len(rows) \in Nat /\ Classed(rows)
    BY <2>4, <2>5 DEF Asked, WithFile, HasAccounts
  <2> QED
    BY <2>1, <2>5, <2>6, SameCounts
<1> QED
  BY <1>1, Inductive, PTL

(***************************************************************************)
(* What came of an upload: the transactions that follow it, and what each  *)
(* of them finds and writes.                                               *)
(***************************************************************************)
\* What a request r finds when it comes to the operation o.
Due(d, r, o) ==
  o.do \in Continued =>
    /\ o.id[1] = r /\ o.id \in Table(d, "job")
    /\ o.do # "fail" => d[o.id].status \notin {"completed", "failed"}
    /\ o.do \in {"claim", "preview", "begin", "client file", "link"} => d[o.id].run = <<>>
    /\ o.do \in {"link", "import"} => o.run # <<>> /\ o.run \in Table(d, "run")
    /\ o.do \in {"import", "close"} => d[o.id].run \in {<<>>, o.run}
    /\ o.do = "close" => o.run = <<>> \/ (o.run \in Table(d, "run") /\ d[o.run].status \in Final)

Fine(d, r, t) == t # <<>> => NoneOpen(Tail(t)) /\ Due(d, r, Head(t))

\* What the operation o may change in a row of this kind.
Sets(kind, i, g, o) ==
  /\ kind = "account" => o.do = "import" /\ ("by" \in DOMAIN g => g.by = o.run)
  /\ kind = "job" =>
       /\ i = o.id /\ o.do \in {"claim", "link", "close", "fail"}
       /\ "status" \in DOMAIN g /\ g.status = "failed" => o.do = "fail"
       /\ "status" \in DOMAIN g /\ g.status = "completed" => o.do = "close"
       /\ "run" \in DOMAIN g => o.do \in {"link", "close"} /\ g.run = o.run /\ o.run # <<>>
  /\ kind = "run" => ("status" \in DOMAIN g => g.status \in Final)

Adds(x, o) ==
  /\ x.kind = "job" => x.status = "queued" /\ x.run = <<>>
  /\ x.kind = "account" => o.do = "import" /\ x.by = o.run

Writes(d, w, o) ==
  /\ \A i \in DOMAIN w.insert : Adds(w.insert[i], o)
  /\ \A i \in w.delete \cap DOMAIN d : d[i].kind \notin {"job", "run"}
  /\ \A i \in DOMAIN w.update \cap DOMAIN d : Sets(d[i].kind, i, w.update[i], o)
  /\ o.do = "import" /\ o.run \in Table(d, "run") =>
       d[o.run].status \in Final \/ (o.run \in DOMAIN w.update /\ "status" \in DOMAIN w.update[o.run])

\* What the operation h that comes after o, which writes w, takes over.
TakesOver(o, w, h) ==
  \/ o.do = "upload" /\ h.do = "claim" /\ h.id \in DOMAIN w.insert /\ w.insert[h.id].kind = "job"
  \/ /\ h.id = o.id
     /\ \/ o.do = "claim" /\ h.do \in {"preview", "begin", "client file"}
        \/ o.do = "link" /\ h.do = "import" /\ h.run = o.run
        \/ o.do = "import" /\ h.do = "close" /\ h.run = o.run
        \/ /\ <<o.do, h.do>> \in {<<"begin", "link">>, <<"begin", "close">>, <<"client file", "close">>}
           /\ h.run # <<>> /\ h.run \in DOMAIN w.insert /\ w.insert[h.run].kind = "run"
           /\ h.do = "close" => w.insert[h.run].status \in Final

Leads(o, w, t) ==
  t # <<>> => NoneOpen(Tail(t)) /\ (Head(t).do \in Continued => TakesOver(o, w, Head(t)))

Falls(o, t) ==
  t # <<>> => /\ NoneOpen(Tail(t))
              /\ Head(t).do \in Continued => Head(t).do = "fail" /\ Head(t).id = o.id /\ o.do \in Continued \ {"fail"}

ImportsInv ==
  /\ Whole(db)
  /\ \A q \in Requests : Fine(db, q, todo[q])
  /\ \A q \in DOMAIN plan :
       /\ todo[q] # <<>> /\ Writes(db, plan[q].write, Op(q))
       /\ Leads(Op(q), plan[q].write, plan[q].then) /\ Falls(Op(q), plan[q].else)

\* How the commit of the operation o moves a job row, and the tables.
JobMoves(o, x, y) ==
  /\ o.do \in {"claim", "link", "close", "fail"}
  /\ y.status = "failed" => x.status = "failed" \/ o.do = "fail"
  /\ y.status = "completed" => x.status = "completed" \/ o.do = "close"
  /\ y.run = x.run \/ (o.do \in {"link", "close"} /\ y.run = o.run /\ o.run # <<>>)

Moves(o, d) ==
  /\ \A i \in Table(db, "run") : i \in Table(d, "run") /\ (db[i].status \in Final => d[i].status \in Final)
  /\ \A j \in Table(db, "job") :
       j \in Table(d, "job") /\ (d[j] = db[j] \/ (j = o.id /\ JobMoves(o, db[j], d[j])))
  /\ \A j \in Table(d, "job") \ Table(db, "job") : d[j].status = "queued" /\ d[j].run = <<>>
  /\ \A i \in Table(d, "account") :
       (i \in Table(db, "account") /\ d[i].by = db[i].by) \/ (o.do = "import" /\ d[i].by = o.run)
  /\ o.do = "import" /\ o.run \in Table(db, "run") => d[o.run].status \in Final

\* A changed column takes its new value, any other keeps the old one.
LEMMA OverColumn ==
  ASSUME NEW x, Typed(x), NEW c \in Columns[x.kind], NEW g, NEW y, y = Over(g, x)
  PROVE  y[c] = IF c \in DOMAIN g THEN g[c] ELSE x[c]
<1>1. DOMAIN x = Columns[x.kind]
  BY DEF Typed
<1> QED
  BY <1>1 DEF Over

\* A commit moves jobs, runs and accounts as its operation may.
LEMMA CommitMoves ==
  ASSUME Inv, NEW r \in DOMAIN plan, NEW o, Writes(db, plan[r].write, o), NEW d, Wrote(r, d)
  PROVE  Moves(o, d)
<1>1. PICK w : w = plan[r].write
  OBVIOUS
<1>2. Ins(r) = w.insert /\ Upd(r) = w.update /\ Del(r) = w.delete
  BY <1>1 DEF Ins, Upd, Del
<1>3. /\ DOMAIN d = DOMAIN w.insert \cup (DOMAIN db \ w.delete)
      /\ \A i \in DOMAIN w.insert : i \notin DOMAIN db /\ d[i] = w.insert[i]
      /\ \A i \in DOMAIN db \ w.delete :
           /\ Typed(db[i]) /\ d[i].kind = db[i].kind
           /\ i \notin DOMAIN w.update => d[i] = db[i]
           /\ i \in DOMAIN w.update => d[i] = Over(w.update[i], db[i])
  <2>1. Shaped(r) /\ Stored
    BY DEF Inv
  <2> QED
    BY <1>2, <2>1 DEF Wrote, Shaped, Stored, Kept
<1>4. Writes(db, w, o)
  BY <1>1
<1>5. ASSUME NEW i \in Table(db, "run")
      PROVE  /\ i \in Table(d, "run") /\ (db[i].status \in Final => d[i].status \in Final)
             /\ i \in DOMAIN w.update /\ "status" \in DOMAIN w.update[i] => d[i].status \in Final
  <2>1. i \in DOMAIN db \ w.delete /\ db[i].kind = "run" /\ "status" \in Columns["run"]
    BY <1>4, ColumnsAre DEF Writes, Table
  <2>2. CASE i \in DOMAIN w.update
    <3>1. "status" \in DOMAIN w.update[i] => w.update[i].status \in Final
      BY <1>4, <2>1, <2>2 DEF Writes, Sets
    <3>2. d[i].status = IF "status" \in DOMAIN w.update[i] THEN w.update[i].status ELSE db[i].status
      BY <1>3, <2>1, <2>2, OverColumn
    <3> QED
      BY <1>3, <2>1, <3>1, <3>2 DEF Table
  <2>3. CASE i \notin DOMAIN w.update
    BY <1>3, <2>1, <2>3 DEF Table
  <2> QED
    BY <2>2, <2>3
<1>6. ASSUME NEW j \in Table(db, "job")
      PROVE  j \in Table(d, "job") /\ (d[j] = db[j] \/ (j = o.id /\ JobMoves(o, db[j], d[j])))
  <2>1. j \in DOMAIN db \ w.delete /\ db[j].kind = "job" /\ {"status", "run"} \subseteq Columns["job"]
    BY <1>4, ColumnsAre DEF Writes, Table
  <2>2. j \in Table(d, "job")
    BY <1>3, <2>1 DEF Table
  <2>3. CASE j \in DOMAIN w.update
    <3>1. PICK g : g = w.update[j]
      OBVIOUS
    <3>2. Sets("job", j, g, o)
      BY <1>4, <2>1, <2>3, <3>1 DEF Writes
    <3>3. d[j] = Over(g, db[j]) /\ Typed(db[j])
      BY <1>3, <2>1, <2>3, <3>1
    <3>4. d[j].status = IF "status" \in DOMAIN g THEN g.status ELSE db[j].status
      BY <2>1, <3>3, OverColumn
    <3>5. d[j].run = IF "run" \in DOMAIN g THEN g.run ELSE db[j].run
      BY <2>1, <3>3, OverColumn
    <3> QED
      BY <2>2, <3>2, <3>4, <3>5 DEF Sets, JobMoves
  <2>4. CASE j \notin DOMAIN w.update
    BY <1>3, <2>1, <2>2, <2>4
  <2> QED
    BY <2>3, <2>4
<1>7. ASSUME NEW j \in Table(d, "job") \ Table(db, "job") PROVE d[j].status = "queued" /\ d[j].run = <<>>
  <2>1. j \in DOMAIN w.insert /\ d[j] = w.insert[j] /\ w.insert[j].kind = "job"
    BY <1>3, <1>7 DEF Table
  <2> QED
    BY <1>4, <2>1 DEF Writes, Adds
<1>8. ASSUME NEW i \in Table(d, "account")
      PROVE  (i \in Table(db, "account") /\ d[i].by = db[i].by) \/ (o.do = "import" /\ d[i].by = o.run)
  <2>1. CASE i \in DOMAIN w.insert
    <3>1. d[i] = w.insert[i] /\ w.insert[i].kind = "account"
      BY <1>3, <1>8, <2>1 DEF Table
    <3> QED
      BY <1>4, <2>1, <3>1 DEF Writes, Adds
  <2>2. CASE i \notin DOMAIN w.insert
    <3>1. i \in DOMAIN db \ w.delete /\ db[i].kind = "account" /\ "by" \in Columns["account"]
      BY <1>3, <1>8, <2>2, ColumnsAre DEF Table
    <3>2. CASE i \in DOMAIN w.update
      <4>1. Sets("account", i, w.update[i], o)
        BY <1>4, <3>1, <3>2 DEF Writes
      <4>2. d[i].by = IF "by" \in DOMAIN w.update[i] THEN w.update[i].by ELSE db[i].by
        BY <1>3, <3>1, <3>2, OverColumn
      <4> QED
        BY <3>1, <4>1, <4>2 DEF Sets, Table
    <3>3. CASE i \notin DOMAIN w.update
      BY <1>3, <3>1, <3>3 DEF Table
    <3> QED
      BY <3>2, <3>3
  <2> QED
    BY <2>1, <2>2
<1>9. o.do = "import" /\ o.run \in Table(db, "run") => d[o.run].status \in Final
  BY <1>4, <1>5 DEF Writes
<1> QED
  BY <1>5, <1>6, <1>7, <1>8, <1>9 DEF Moves

\* A commit leaves no import half done.
LEMMA WholeStays ==
  ASSUME Whole(db), NEW r, NEW o, Due(db, r, o), NEW d, Moves(o, d)
  PROVE  Whole(d)
<1>1. ASSUME NEW j \in Table(d, "job"), d[j].run # <<>>
      PROVE  d[j].run \in Table(d, "run") /\ (d[j].status = "completed" => d[d[j].run].status \in Final)
  <2>1. j \in Table(db, "job")
    BY <1>1 DEF Moves
  <2>2. d[j] = db[j] \/ (j = o.id /\ JobMoves(o, db[j], d[j]))
    BY <2>1 DEF Moves
  <2>3. d[j].run \in Table(db, "run") /\ (d[j].status = "completed" => db[d[j].run].status \in Final)
    <3>1. CASE d[j] = db[j]
      BY <1>1, <2>1, <3>1 DEF Whole
    <3>2. CASE j = o.id /\ o.do = "close" /\ JobMoves(o, db[j], d[j])
      <4>1. db[j].run \in {<<>>, o.run} /\ (o.run = <<>> \/ (o.run \in Table(db, "run") /\ db[o.run].status \in Final))
        BY <3>2 DEF Due, Continued
      <4>2. d[j].run = o.run
        BY <1>1, <3>2, <4>1 DEF JobMoves
      <4> QED
        BY <1>1, <4>1, <4>2
    <3>3. CASE j = o.id /\ o.do = "fail" /\ JobMoves(o, db[j], d[j])
      <4>1. d[j].run = db[j].run /\ (d[j].status = "completed" => db[j].status = "completed")
        BY <3>3 DEF JobMoves
      <4> QED
        BY <1>1, <2>1, <4>1 DEF Whole
    <3>4. CASE j = o.id /\ o.do \in {"claim", "link"} /\ JobMoves(o, db[j], d[j])
      <4>1. db[j].status # "completed" /\ db[j].run = <<>> /\ (o.do = "link" => o.run \in Table(db, "run"))
        BY <3>4 DEF Due, Continued
      <4>2. d[j].status # "completed" /\ o.do = "link" /\ d[j].run = o.run
        BY <1>1, <3>4, <4>1 DEF JobMoves
      <4> QED
        BY <4>1, <4>2
    <3> QED
      BY <2>2, <3>1, <3>2, <3>3, <3>4 DEF JobMoves
  <2> QED
    BY <2>3 DEF Moves
<1>2. ASSUME NEW i \in Table(d, "account"), d[i].by # <<>>
      PROVE  d[i].by \in Table(d, "run") /\ d[d[i].by].status \in Final
  <2>1. CASE i \in Table(db, "account") /\ d[i].by = db[i].by
    <3>1. d[i].by \in Table(db, "run") /\ db[d[i].by].status \in Final
      BY <1>2, <2>1 DEF Whole
    <3> QED
      BY <3>1 DEF Moves
  <2>2. CASE o.do = "import" /\ d[i].by = o.run
    <3>1. o.run \in Table(db, "run")
      BY <2>2 DEF Due, Continued
    <3> QED
      BY <2>2, <3>1 DEF Moves
  <2> QED
    BY <2>1, <2>2 DEF Moves
<1> QED
  BY <1>1, <1>2 DEF Whole

\* What another request finds is not disturbed.
LEMMA DueStays ==
  ASSUME NEW r, NEW o, Due(db, r, o), NEW d, Moves(o, d), NEW q, q # r, NEW p, Due(db, q, p)
  PROVE  Due(d, q, p)
<1> SUFFICES ASSUME p.do \in Continued PROVE Due(d, q, p)
  BY DEF Due
<1>1. ASSUME NEW j \in Table(db, "job"), j[1] = q PROVE j \in Table(d, "job") /\ d[j] = db[j]
  <2>1. j = o.id /\ o.do \in {"claim", "link", "close", "fail"} => FALSE
    BY <1>1 DEF Due, Continued
  <2> QED
    BY <1>1, <2>1 DEF Moves, JobMoves
<1>2. p.id[1] = q /\ p.id \in Table(db, "job")
  BY DEF Due
<1>3. p.id \in Table(d, "job") /\ d[p.id] = db[p.id]
  BY <1>1, <1>2
<1>4. \A run \in Table(db, "run") : run \in Table(d, "run") /\ (db[run].status \in Final => d[run].status \in Final)
  BY DEF Moves
<1> QED
  BY <1>2, <1>3, <1>4 DEF Due

\* What the next transaction of the request itself finds, once this one is committed.
LEMMA NextDue ==
  ASSUME NEW r, NEW o, Due(db, r, o), NEW d, Moves(o, d), NEW w,
         \A i \in DOMAIN w.insert : i \notin DOMAIN db /\ i \in DOMAIN d /\ d[i] = w.insert[i] /\ i[1] = r /\ Adds(d[i], o),
         NEW h, TakesOver(o, w, h)
  PROVE  Due(d, r, h)
<1>1. CASE o.do = "upload" /\ h.do = "claim" /\ h.id \in DOMAIN w.insert /\ w.insert[h.id].kind = "job"
  <2>1. h.id[1] = r /\ h.id \in Table(d, "job") /\ d[h.id].status = "queued" /\ d[h.id].run = <<>>
    BY <1>1 DEF Table, Adds
  <2> QED
    BY <1>1, <2>1 DEF Due
<1>2. ASSUME h.id = o.id, o.do \in {"claim", "begin", "link", "import", "client file"}
      PROVE  /\ h.id[1] = r /\ h.id \in Table(d, "job") /\ d[h.id].status \notin {"completed", "failed"}
             /\ d[h.id].run = db[h.id].run \/ (o.do = "link" /\ d[h.id].run = o.run)
  <2>1. h.id[1] = r /\ h.id \in Table(db, "job") /\ db[h.id].status \notin {"completed", "failed"}
    BY <1>2 DEF Due, Continued
  <2>2. h.id \in Table(d, "job") /\ (d[h.id] = db[h.id] \/ JobMoves(o, db[h.id], d[h.id]))
    BY <2>1 DEF Moves
  <2>3. d[h.id].status \notin {"completed", "failed"} /\ (d[h.id].run = db[h.id].run \/ (o.do = "link" /\ d[h.id].run = o.run))
    <3>1. CASE d[h.id] = db[h.id]
      BY <2>1, <3>1
    <3>2. CASE JobMoves(o, db[h.id], d[h.id])
      BY <1>2, <2>1, <3>2 DEF JobMoves
    <3> QED
      BY <2>2, <3>1, <3>2
  <2> QED
    BY <2>1, <2>2, <2>3
<1>3. CASE h.id = o.id /\ o.do = "claim" /\ h.do \in {"preview", "begin", "client file"}
  <2>1. db[o.id].run = <<>>
    BY <1>3 DEF Due, Continued
  <2>2. h.id[1] = r /\ h.id \in Table(d, "job") /\ d[h.id].status \notin {"completed", "failed"} /\ d[h.id].run = <<>>
    BY <1>2, <1>3, <2>1
  <2> QED
    BY <1>3, <2>2 DEF Due
<1>4. CASE h.id = o.id /\ o.do = "link" /\ h.do = "import" /\ h.run = o.run
  <2>1. db[o.id].run = <<>> /\ o.run # <<>> /\ o.run \in Table(db, "run")
    BY <1>4 DEF Due, Continued
  <2>2. o.run \in Table(d, "run")
    BY <2>1 DEF Moves
  <2> QED
    BY <1>2, <1>4, <2>1, <2>2 DEF Due
<1>5. CASE h.id = o.id /\ o.do = "import" /\ h.do = "close" /\ h.run = o.run
  <2>1. db[o.id].run \in {<<>>, o.run} /\ o.run \in Table(db, "run")
    BY <1>5 DEF Due, Continued
  <2>2. o.run \in Table(d, "run") /\ d[o.run].status \in Final
    BY <1>5, <2>1 DEF Moves
  <2> QED
    BY <1>2, <1>5, <2>1, <2>2 DEF Due
<1>6. CASE /\ h.id = o.id /\ h.run # <<>> /\ h.run \in DOMAIN w.insert /\ w.insert[h.run].kind = "run"
           /\ h.do = "close" => w.insert[h.run].status \in Final
           /\ (o.do = "begin" /\ h.do \in {"link", "close"}) \/ (o.do = "client file" /\ h.do = "close")
  <2>1. h.run \in Table(d, "run") /\ (h.do = "close" => d[h.run].status \in Final)
    BY <1>6 DEF Table
  <2>2. db[o.id].run = <<>>
    BY <1>6 DEF Due, Continued
  <2> QED
    BY <1>2, <1>6, <2>1, <2>2 DEF Due
<1> QED
  BY <1>1, <1>3, <1>4, <1>5, <1>6 DEF TakesOver

\* What the request finds after the database refused the transaction, or the work broke.
LEMMA FailDue ==
  ASSUME NEW r, NEW o, Due(db, r, o), o.do \in Continued, NEW h, h.do = "fail", h.id = o.id
  PROVE  Due(db, r, h)
  BY DEF Due

\* What is left to do when a commit fails finds what it needs.
LEMMA FallsFine ==
  ASSUME NEW r, NEW o, Due(db, r, o), NEW t, Falls(o, t)
  PROVE  Fine(db, r, t)
<1> SUFFICES ASSUME t # <<>> PROVE NoneOpen(Tail(t)) /\ Due(db, r, Head(t))
  BY DEF Fine
<1>1. PICK h : h = Head(t)
  OBVIOUS
<1>2. NoneOpen(Tail(t)) /\ (h.do \in Continued => h.do = "fail" /\ h.id = o.id /\ o.do \in Continued \ {"fail"})
  BY <1>1 DEF Falls
<1>3. CASE h.do \notin Continued
  BY <1>1, <1>2, <1>3 DEF Due
<1>4. CASE h.do \in Continued
  <2>1. Due(db, r, h)
    BY <1>2, <1>4, FailDue
  <2> QED
    BY <1>1, <1>2, <2>1
<1> QED
  BY <1>3, <1>4

\* What is left to do after a commit finds what it needs.
LEMMA LeadsFine ==
  ASSUME Inv, NEW r \in DOMAIN plan, NEW o, Due(db, r, o), NEW d, Wrote(r, d), Moves(o, d),
         Writes(db, plan[r].write, o), NEW t, Leads(o, plan[r].write, t)
  PROVE  Fine(d, r, t)
<1> SUFFICES ASSUME t # <<>> PROVE NoneOpen(Tail(t)) /\ Due(d, r, Head(t))
  BY DEF Fine
<1>1. PICK w, h : w = plan[r].write /\ h = Head(t)
  OBVIOUS
<1>2. NoneOpen(Tail(t)) /\ (h.do \in Continued => TakesOver(o, w, h))
  BY <1>1 DEF Leads
<1>3. \A i \in DOMAIN w.insert : i \notin DOMAIN db /\ i \in DOMAIN d /\ d[i] = w.insert[i] /\ i[1] = r /\ Adds(d[i], o)
  <2>1. Shaped(r) /\ Ins(r) = w.insert
    BY <1>1 DEF Inv, Ins
  <2> QED
    BY <1>1, <2>1 DEF Shaped, Wrote, Writes
<1>4. CASE h.do \notin Continued
  BY <1>1, <1>2, <1>4 DEF Due
<1>5. CASE h.do \in Continued
  <2>1. Due(d, r, h)
    BY <1>2, <1>3, <1>5, NextDue
  <2> QED
    BY <1>1, <1>2, <2>1
<1> QED
  BY <1>4, <1>5

\* Another open transaction writes what it was going to write.
LEMMA WritesStay ==
  ASSUME Inv, NEW r \in DOMAIN plan, NEW o, NEW d, Wrote(r, d), Moves(o, d),
         NEW q \in DOMAIN plan, q # r, NEW p, Due(db, q, p), Writes(db, plan[q].write, p)
  PROVE  Writes(d, plan[q].write, p)
<1>1. PICK w : w = plan[q].write
  OBVIOUS
<1>2. Upd(q) = w.update /\ Del(q) = w.delete /\ Shaped(q) /\ Stored
  BY <1>1 DEF Upd, Del, Inv
<1>3. ASSUME NEW i \in DOMAIN d \cap (DOMAIN w.update \cup w.delete) PROVE i \in DOMAIN db /\ d[i].kind = db[i].kind
  <2>1. Settled(i)
    BY <1>2, <1>3 DEF Shaped
  <2>2. i \in DOMAIN db \ Del(r)
    BY <1>3, <2>1, SettledRow
  <2> QED
    BY <2>2 DEF Wrote, Kept
<1>4. p.do = "import" /\ p.run \in Table(d, "run") =>
        d[p.run].status \in Final \/ (p.run \in DOMAIN w.update /\ "status" \in DOMAIN w.update[p.run])
  <2>1. p.do = "import" => p.run \in Table(db, "run")
    BY DEF Due, Continued
  <2>2. p.do = "import" => db[p.run].status \in Final \/ (p.run \in DOMAIN w.update /\ "status" \in DOMAIN w.update[p.run])
    BY <1>1, <2>1 DEF Writes
  <2> QED
    BY <2>1, <2>2 DEF Moves
<1>5. Writes(d, w, p)
  BY <1>1, <1>3, <1>4 DEF Writes
<1> QED
  BY <1>1, <1>5

\* A commit, taken or refused, keeps what is known of the uploads.
LEMMA CommitImports ==
  ASSUME Inv, ImportsInv, NEW r \in DOMAIN plan, Ends(r)
  PROVE  ImportsInv'
<1>1. /\ DOMAIN plan' = DOMAIN plan \ {r} /\ \A q \in DOMAIN plan' : plan'[q] = plan[q]
      /\ DOMAIN todo = Requests /\ r \in Requests /\ DOMAIN plan \subseteq Requests
  BY CommitIs DEF Inv
<1>2. PICK o, w : o = Op(r) /\ w = plan[r].write
  OBVIOUS
<1>3. Due(db, r, o) /\ Writes(db, w, o) /\ Leads(o, w, plan[r].then) /\ Falls(o, plan[r].else) /\ Whole(db)
  BY <1>1, <1>2 DEF ImportsInv, Fine, Op
<1>4. ASSUME NEW q \in DOMAIN plan'
      PROVE  q \in DOMAIN plan /\ q # r /\ todo[q] # <<>> /\ Due(db, q, Op(q)) /\ Writes(db, plan[q].write, Op(q))
             /\ Leads(Op(q), plan[q].write, plan[q].then) /\ Falls(Op(q), plan[q].else)
  BY <1>1 DEF ImportsInv, Fine, Op
<1>5. CASE db' = db /\ todo' = [todo EXCEPT ![r] = plan[r].else]
  <2>1. Fine(db, r, plan[r].else)
    BY <1>3, <1>5, FallsFine
  <2>2. \A q \in Requests : Fine(db', q, todo'[q])
    BY <1>1, <1>5, <2>1 DEF ImportsInv
  <2>3. \A q \in DOMAIN plan' : todo'[q] = todo[q] /\ Op(q)' = Op(q) /\ plan'[q] = plan[q]
    BY <1>1, <1>5 DEF Op
  <2> QED
    BY <1>3, <1>4, <1>5, <2>2, <2>3 DEF ImportsInv
<1>6. CASE db' = After(r) /\ SoundAll(After(r)) /\ todo' = [todo EXCEPT ![r] = plan[r].then]
  <2>1. PICK d : d = db'
    OBVIOUS
  <2>2. Wrote(r, d)
    BY <1>6, <2>1, WroteStored
  <2>3. Moves(o, d)
    BY <1>2, <1>3, <2>2, CommitMoves
  <2>4. Whole(d)
    BY <1>3, <2>3, WholeStays
  <2>5. Fine(d, r, plan[r].then)
    BY <1>2, <1>3, <2>2, <2>3, LeadsFine
  <2>6. ASSUME NEW q \in Requests, q # r PROVE Fine(d, q, todo[q])
    <3>1. Fine(db, q, todo[q])
      BY DEF ImportsInv
    <3> QED
      BY <1>3, <2>3, <2>6, <3>1, DueStays DEF Fine
  <2>7. \A q \in Requests : Fine(d, q, todo'[q])
    BY <1>1, <1>6, <2>5, <2>6
  <2>8. ASSUME NEW q \in DOMAIN plan' PROVE Writes(d, plan[q].write, Op(q))
    BY <1>4, <2>2, <2>3, WritesStay
  <2>9. \A q \in DOMAIN plan' : todo'[q] = todo[q] /\ Op(q)' = Op(q) /\ plan'[q] = plan[q]
    BY <1>1, <1>6 DEF Op
  <2> QED
    BY <1>4, <2>1, <2>4, <2>7, <2>8, <2>9 DEF ImportsInv
<1> QED
  BY <1>5, <1>6, CommitIs

(***************************************************************************)
(* The other steps.                                                        *)
(***************************************************************************)
LEMMA InitImports ==
  ASSUME Init
  PROVE  ImportsInv
<1>1. PICK s \in Stories : StartsWith(s)
  BY DEF Init
<1>2. StoryAssumption(s)
  BY AdministrationAssumption
<1>3. db = s.rows /\ todo = s.todo /\ DOMAIN plan = {}
  BY <1>1 DEF StartsWith, NoRows
<1>4. Whole(db)
  BY <1>2, <1>3 DEF StoryAssumption, Orderly
<1>5. ASSUME NEW q \in Requests PROVE Fine(db, q, todo[q])
  <2>1. Program(todo[q]) /\ NoneOpen(todo[q])
    BY <1>2, <1>3 DEF StoryAssumption
  <2> SUFFICES ASSUME todo[q] # <<>> PROVE NoneOpen(Tail(todo[q])) /\ Due(db, q, Head(todo[q]))
    BY DEF Fine
  <2>2. PICK t : t = todo[q]
    OBVIOUS
  <2>3. t \in Seq({t[n] : n \in 1 .. Len(t)}) /\ t # <<>> /\ NoneOpen(t)
    BY <2>1, <2>2, ProgramIsSeq
  <2>4. PICK S : t \in Seq(S)
    BY <2>3
  <2>5. /\ Head(t) = t[1] /\ 1 \in 1 .. Len(t) /\ Len(t) \in Nat /\ Len(Tail(t)) = Len(t) - 1
        /\ \A n \in 1 .. Len(Tail(t)) : Tail(t)[n] = t[n + 1] /\ n + 1 \in 1 .. Len(t)
    BY <2>3, <2>4
  <2> QED
    BY <2>2, <2>3, <2>5 DEF NoneOpen, Due
<1> QED
  BY <1>3, <1>4, <1>5 DEF ImportsInv

\* A restart forgets what was to be done and keeps the tables.
LEMMA DieImports ==
  ASSUME Inv, ImportsInv, Die
  PROVE  ImportsInv'
<1>1. /\ db' = db /\ DOMAIN plan' = {}
      /\ todo' = [q \in Requests |-> IF q \in DOMAIN plan \/ todo[q] # story.todo[q] THEN <<>> ELSE todo[q]]
  BY DEF Die, NoRows
<1>2. \A q \in Requests : todo'[q] = <<>> \/ todo'[q] = todo[q]
  BY <1>1
<1>3. \A q \in Requests : Fine(db, q, todo'[q])
  BY <1>2 DEF ImportsInv, Fine
<1> QED
  BY <1>1, <1>3 DEF ImportsInv

\* A handler that writes nothing keeps what is known of the uploads.
LEMMA GoesOnImports ==
  ASSUME Inv, ImportsInv, NEW r \in Requests, Idle(r), NEW t, Fine(db, r, t), GoesOn(r, t)
  PROVE  ImportsInv'
<1>1. db' = db /\ plan' = plan /\ todo' = [todo EXCEPT ![r] = t] /\ r \notin DOMAIN plan /\ DOMAIN todo = Requests
      /\ DOMAIN plan \subseteq Requests
  BY DEF GoesOn, Idle, Inv
<1>2. \A q \in Requests : Fine(db, q, todo'[q])
  BY <1>1 DEF ImportsInv
<1>3. \A q \in DOMAIN plan : todo'[q] = todo[q] /\ Op(q)' = Op(q)
  BY <1>1 DEF Op
<1> QED
  BY <1>1, <1>2, <1>3 DEF ImportsInv

\* So does one that opens its transaction.
LEMMA OpensImports ==
  ASSUME Inv, ImportsInv, NEW r \in Requests, Idle(r), todo[r] # <<>>, NEW d, NEW then, NEW else, Opens(r, d, then, else),
         Writes(db, Difference(db, d), Op(r)), Leads(Op(r), Difference(db, d), then), Falls(Op(r), else)
  PROVE  ImportsInv'
<1>1. /\ DOMAIN plan' = DOMAIN plan \cup {r}
      /\ plan'[r].then = then /\ plan'[r].else = else /\ plan'[r].write = Difference(db, d)
      /\ \A q \in DOMAIN plan : plan'[q] = plan[q] /\ q # r
      /\ db' = db /\ todo' = todo
  BY OpensIs DEF Inv
<1>2. \A q : Op(q)' = Op(q)
  BY <1>1 DEF Op
<1> QED
  BY <1>1, <1>2 DEF ImportsInv

(***************************************************************************)
(* What the handlers want to write, as far as it concerns the uploads.     *)
(***************************************************************************)
Edits(d, o) ==
  /\ \A i \in New(d) : Adds(d[i], o)
  /\ \A i \in DOMAIN db \ DOMAIN d : db[i].kind \notin {"job", "run"}
  /\ \A i \in DOMAIN d \cap DOMAIN db :
       \/ d[i] = db[i]
       \/ /\ db[i].kind = "account" => o.do = "import" /\ d[i].by = o.run
          /\ db[i].kind = "job" => i = o.id /\ JobMoves(o, db[i], d[i])
          /\ db[i].kind = "run" => d[i].status \in Final
  /\ o.do = "import" /\ o.run \in Table(db, "run") => d[o.run].status \in Final

\* The rows a handler has changed are the ones its transaction writes.
LEMMA WritesIs ==
  ASSUME Stored, NEW r, NEW d, NEW K, Session(r, d, K), NEW o, Edits(d, o)
  PROVE  Writes(db, Difference(db, d), o)
<1>1. PICK w : w = Difference(db, d)
  OBVIOUS
<1>2. /\ DOMAIN w.insert = New(d) /\ w.delete = DOMAIN db \ DOMAIN d
      /\ DOMAIN w.update = {j \in DOMAIN d \cap DOMAIN db : d[j] # db[j]}
      /\ \A i \in New(d) : w.insert[i] = d[i]
      /\ \A i \in DOMAIN w.update : w.update[i] = ChangedColumns(db[i], d[i])
  BY <1>1 DEF Difference, New
<1>3. ASSUME NEW i \in DOMAIN w.update, NEW g, g = w.update[i]
      PROVE  \A c \in DOMAIN g : g[c] = d[i][c] /\ d[i][c] # db[i][c]
  <2>1. PICK x, y : x = db[i] /\ y = d[i]
    OBVIOUS
  <2>2. g = ChangedColumns(x, y)
    BY <1>2, <1>3, <2>1
  <2>3. \A c \in DOMAIN g : g[c] = y[c] /\ y[c] # x[c]
    BY <2>2 DEF ChangedColumns
  <2> QED
    BY <2>1, <2>3
<1>4. ASSUME NEW i \in DOMAIN w.update PROVE Sets(db[i].kind, i, w.update[i], o)
  <2>1. PICK g : g = w.update[i]
    OBVIOUS
  <2>2. \A c \in DOMAIN g : g[c] = d[i][c] /\ d[i][c] # db[i][c]
    BY <1>3, <1>4, <2>1
  <2>3. /\ db[i].kind = "account" => o.do = "import" /\ d[i].by = o.run
        /\ db[i].kind = "job" => i = o.id /\ JobMoves(o, db[i], d[i])
        /\ db[i].kind = "run" => d[i].status \in Final
    BY <1>2, <1>4 DEF Edits
  <2>4. Sets(db[i].kind, i, g, o)
    BY <2>2, <2>3 DEF Sets, JobMoves
  <2> QED
    BY <2>1, <2>4
<1>5. ASSUME o.do = "import", o.run \in Table(db, "run"), db[o.run].status \notin Final
      PROVE  o.run \in DOMAIN w.update /\ "status" \in DOMAIN w.update[o.run]
  <2>1. o.run \in DOMAIN db /\ db[o.run].kind = "run" /\ o.run \in DOMAIN d /\ d[o.run].status \in Final
    BY <1>5 DEF Edits, Table
  <2>2. d[o.run] # db[o.run] /\ d[o.run].kind = "run" /\ Typed(d[o.run])
    BY <1>5, <2>1 DEF Session, Kept
  <2>3. "status" \in DOMAIN d[o.run]
    BY <2>2, ColumnsAre DEF Typed
  <2>4. o.run \in DOMAIN w.update /\ w.update[o.run] = ChangedColumns(db[o.run], d[o.run])
    BY <1>2, <2>1, <2>2
  <2> QED
    BY <1>5, <2>1, <2>3, <2>4 DEF ChangedColumns
<1>6. \A i \in DOMAIN w.insert : Adds(w.insert[i], o)
  BY <1>2 DEF Edits
<1>7. \A i \in w.delete \cap DOMAIN db : db[i].kind \notin {"job", "run"}
  BY <1>2 DEF Edits
<1>9. Writes(db, w, o)
  BY <1>4, <1>5, <1>6, <1>7 DEF Writes
<1> QED
  BY <1>1, <1>9

(* What a request comes to that is at an operation, and what a step of it  *)
(* makes of that.                                                          *)
Comes(r) == Begun(r) /\ NoneOpen(Rest(r)) /\ Due(db, r, Op(r))

Handled(r) ==
  \/ \E t : Fine(db, r, t) /\ GoesOn(r, t)
  \/ \E d, then, else :
       /\ Session(r, d, Kinds) /\ Edits(d, Op(r))
       /\ Leads(Op(r), Difference(db, d), then) /\ Falls(Op(r), else)
       /\ Opens(r, d, then, else)

\* A step that is Handled keeps what is known of the uploads.
LEMMA HandledImports ==
  ASSUME Inv, ImportsInv, NEW r \in Requests, Idle(r), todo[r] # <<>>, Handled(r)
  PROVE  ImportsInv'
<1>1. ASSUME NEW t, Fine(db, r, t), GoesOn(r, t) PROVE ImportsInv'
  BY <1>1, GoesOnImports
<1>2. ASSUME NEW d, NEW then, NEW else, Session(r, d, Kinds), Edits(d, Op(r)),
             Leads(Op(r), Difference(db, d), then), Falls(Op(r), else), Opens(r, d, then, else)
      PROVE  ImportsInv'
  <2>1. Stored
    BY DEF Inv
  <2>2. Writes(db, Difference(db, d), Op(r))
    BY <1>2, <2>1, WritesIs
  <2> QED
    BY <1>2, <2>2, OpensImports
<1> QED
  BY <1>1, <1>2 DEF Handled

\* A handler that opens a transaction, and one that goes on, are Handled.
LEMMA OpensHandled ==
  ASSUME NEW r, NEW d, Session(r, d, Kinds), Edits(d, Op(r)), NEW then, Leads(Op(r), Difference(db, d), then),
         NEW else, Falls(Op(r), else), Opens(r, d, then, else)
  PROVE  Handled(r)
  BY Zenon DEF Handled

\* The second of the two.
LEMMA OnHandled ==
  ASSUME NEW r, NEW t, Fine(db, r, t), GoesOn(r, t)
  PROVE  Handled(r)
  BY Zenon DEF Handled

(***************************************************************************)
(* The programs that the handlers leave.                                   *)
(***************************************************************************)
LEMMA OneThen ==
  ASSUME NEW t, Program(t), NEW h
  PROVE  <<h>> \o t # <<>> /\ Head(<<h>> \o t) = h /\ Tail(<<h>> \o t) = t
<1>1. t \in Seq({t[n] : n \in 1 .. Len(t)})
  BY ProgramIsSeq
<1>2. PICK S : t \in Seq(S) /\ h \in S
  <2>1. PICK T : t \in Seq(T)
    BY <1>1
  <2>2. t \in Seq(T \cup {h})
    BY <2>1
  <2> QED
    BY <2>2
<1> QED
  BY <1>2

\* A program that begins nothing that belongs to an upload.
LEMMA QuietNext ==
  ASSUME NEW t, Program(t), NoneOpen(t), t # <<>>
  PROVE  Head(t).do \notin Continued /\ NoneOpen(Tail(t))
<1>1. PICK S : t \in Seq(S)
  BY ProgramIsSeq
<1>2. /\ Head(t) = t[1] /\ 1 \in 1 .. Len(t) /\ Len(t) \in Nat /\ Len(Tail(t)) = Len(t) - 1
      /\ \A n \in 1 .. Len(Tail(t)) : Tail(t)[n] = t[n + 1] /\ n + 1 \in 1 .. Len(t)
  BY <1>1
<1> QED
  BY <1>2 DEF NoneOpen

\* A program without such operations asks nothing of the tables.
LEMMA QuietIs ==
  ASSUME NEW t, Program(t), NoneOpen(t)
  PROVE  \A r, o, w : Fine(db, r, t) /\ Leads(o, w, t) /\ Falls(o, t)
<1>1. t # <<>> => Head(t).do \notin Continued /\ NoneOpen(Tail(t))
  BY QuietNext
<1> QED
  BY <1>1 DEF Fine, Leads, Falls, Due

\* The one operation that follows takes over from the one before it.
LEMMA NextIs ==
  ASSUME NEW t, Program(t), NoneOpen(t), NEW h
  PROVE  /\ \A o, w : TakesOver(o, w, h) => Leads(o, w, <<h>> \o t)
         /\ \A r : Due(db, r, h) => Fine(db, r, <<h>> \o t)
<1>1. PICK s : s = <<h>> \o t
  OBVIOUS
<1>2. s # <<>> /\ Head(s) = h /\ Tail(s) = t
  BY <1>1, OneThen
<1>3. \A o, w : TakesOver(o, w, h) => Leads(o, w, s)
  BY <1>2 DEF Leads
<1>4. \A r : Due(db, r, h) => Fine(db, r, s)
  BY <1>2 DEF Fine
<1> QED
  BY <1>1, <1>3, <1>4

\* What follows the head of a program is quiet when the whole is.
LEMMA RestQuiet ==
  ASSUME NEW r, Comes(r)
  PROVE  Program(Rest(r)) /\ NoneOpen(Rest(r)) /\ Program(<<>>) /\ NoneOpen(<<>>)
  BY RestFollows DEF Comes, Begun, Follows, NoneOpen

\* An operation that fails leaves it to "fail" to say so.
LEMMA FailingFalls ==
  ASSUME NEW o, o.do \in Continued \ {"fail"}
  PROVE  Falls(o, Failing(o.id))
<1>1. PICK h : h = [do |-> "fail", id |-> o.id]
  OBVIOUS
<1>2. Failing(o.id) = <<h>>
  BY <1>1 DEF Failing
<1>3. Head(<<h>>) = h /\ Tail(<<h>>) = <<>> /\ NoneOpen(<<>>)
  BY DEF NoneOpen
<1> QED
  BY <1>1, <1>2, <1>3 DEF Falls

\* A transaction that only inserts rows changes none.
LEMMA InsertionEdits ==
  ASSUME Stored, NEW r \in Requests, NEW row, Typed(row), row.kind \in BookKinds, NEW o, Adds(row, o),
         o.do \notin {"import", "close"}, NEW e, e = Inserted(db, r, row), NEW u, u = Fresh(db, r)
  PROVE  /\ Session(r, e, Kinds) /\ Edits(e, o) /\ u # <<>>
         /\ u \in DOMAIN Difference(db, e).insert /\ Difference(db, e).insert[u] = row
<1>1. Session(r, db, BookKinds) /\ New(db) = {}
  BY SessionBegins
<1>2. /\ Session(r, e, BookKinds) /\ u \notin DOMAIN db
      /\ DOMAIN e = DOMAIN db \cup {u} /\ New(e) = {u}
      /\ e[u] = row /\ \A i \in DOMAIN db : e[i] = db[i]
  <2>1. Session(r, e, BookKinds)
    BY <1>1, SessionInsertion, Zenon
  <2>2. u \notin DOMAIN db
    BY <1>1, FreshIs
  <2>3. e = Over(db, [i \in {u} |-> row])
    BY DEF Inserted
  <2>4. DOMAIN e = DOMAIN db \cup {u} /\ e[u] = row /\ \A i \in DOMAIN db : e[i] = db[i]
    BY <2>2, <2>3 DEF Over
  <2>5. New(e) = {u}
    BY <2>2, <2>4 DEF New
  <2> QED
    BY <2>1, <2>2, <2>4, <2>5
<1>3. Session(r, e, Kinds)
  BY <1>2, SessionWidens DEF Kinds
<1>4. Edits(e, o)
  BY <1>2 DEF Edits
<1>5. u # <<>>
  BY DEF Fresh
<1>6. u \in DOMAIN Difference(db, e).insert /\ Difference(db, e).insert[u] = row
  BY <1>2 DEF Difference
<1> QED
  BY <1>3, <1>4, <1>5, <1>6

\* A transaction that only changes its job changes no other row.
LEMMA JobEdits ==
  ASSUME Stored, NEW r, NEW o, NEW i \in Table(db, "job"), i = o.id, NEW y, NEW d, d = [db EXCEPT ![i] = y],
         \/ \E v \in Statuses.job : y = [db[i] EXCEPT !.status = v]
         \/ \E v : y = [db[i] EXCEPT !.run = v]
         \/ \E v \in Statuses.job : \E w : y = [db[i] EXCEPT !.status = v, !.run = w],
         JobMoves(o, db[i], y)
  PROVE  Session(r, d, Kinds) /\ Edits(d, o)
<1>1. Session(r, d, JobKinds) /\ JobKinds \subseteq Kinds
  BY JobEdition DEF JobKinds, Kinds, BookKinds
<1>2. Session(r, d, Kinds)
  BY <1>1, SessionWidens
<1>3. /\ i \in DOMAIN db /\ db[i].kind = "job" /\ DOMAIN d = DOMAIN db /\ d[i] = y
      /\ \A j \in DOMAIN db \ {i} : d[j] = db[j]
  BY DEF Table
<1>4. o.do \in {"claim", "link", "close", "fail"}
  BY DEF JobMoves
<1>5. Edits(d, o)
  BY <1>3, <1>4 DEF Edits, New
<1> QED
  BY <1>2, <1>5

\* The columns of a job.
LEMMA JobColumns ==
  ASSUME Stored, NEW i \in Table(db, "job")
  PROVE  DOMAIN db[i] = {"kind", "of", "status", "run"} /\ db[i].of \in AccountFiles \cup {"client_upload"}
<1>1. Typed(db[i]) /\ db[i].kind = "job"
  BY DEF Stored, Table
<1> QED
  BY <1>1, ColumnsAre DEF Typed, Takes

\* The handlers of an upload, one by one: upload_file.
LEMMA UploadHandled ==
  ASSUME NEW r, Comes(r), Upload(r)
  PROVE  Handled(r)
<1>1. PICK o, u : o = Op(r) /\ u = Fresh(db, r)
  OBVIOUS
<1>2. PICK row : row = [kind |-> "job", of |-> o.type, status |-> "queued", run |-> <<>>]
  OBVIOUS
<1>3. PICK h : h = [do |-> "claim", id |-> u, type |-> o.type, file |-> o.file]
  OBVIOUS
<1>4. PICK d : d = Inserted(db, r, row)
  OBVIOUS
<1>5. Opens(r, d, <<h>> \o Rest(r), <<>>)
  BY <1>1, <1>2, <1>3, <1>4 DEF Upload
<1>6. Asked(o) /\ o.do = "upload" /\ Stored /\ r \in Requests
  BY <1>1, RestFollows DEF Comes, Begun, Upload, Next1, Op
<1>7. Typed(row) /\ row.kind \in BookKinds /\ Adds(row, o)
  <2>1. o.type \in AccountFiles \cup {"client_upload"}
    BY <1>6 DEF Asked
  <2>2. Typed(row)
    BY <1>2, <2>1, TypedRows, Zenon
  <2> QED
    BY <1>2, <2>2 DEF BookKinds, Adds
<1>8. /\ Session(r, d, Kinds) /\ Edits(d, o)
      /\ u \in DOMAIN Difference(db, d).insert /\ Difference(db, d).insert[u] = row
  BY <1>1, <1>4, <1>6, <1>7, InsertionEdits
<1>9. TakesOver(o, Difference(db, d), h)
  BY <1>2, <1>3, <1>6, <1>8 DEF TakesOver
<1>10. Leads(o, Difference(db, d), <<h>> \o Rest(r)) /\ Falls(o, <<>>)
  BY <1>9, RestQuiet, NextIs, QuietIs
<1> QED
  BY <1>1, <1>5, <1>8, <1>10, OpensHandled

\* The job is taken up.
LEMMA ClaimHandled ==
  ASSUME NEW r, Comes(r), Claim(r)
  PROVE  Handled(r)
<1>1. PICK o, i : o = Op(r) /\ i = o.id
  OBVIOUS
<1>2. PICK y : y = [db[i] EXCEPT !.status = "running"]
  OBVIOUS
<1>3. PICK d : d = [db EXCEPT ![i] = y]
  OBVIOUS
<1>4. PICK do : do = Work(o.type)
  OBVIOUS
<1>5. PICK h : h = [do |-> do, id |-> i, file |-> o.file]
  OBVIOUS
<1>6. \/ GoesOn(r, Rest(r))
      \/ i \in Table(db, "job") /\ Opens(r, d, <<h>> \o Rest(r), Failing(i))
  <2>1. i \in Table(db, "job") => d = [db EXCEPT ![i].status = "running"]
    BY <1>2, <1>3 DEF Table
  <2> QED
    BY <1>1, <1>4, <1>5, <2>1 DEF Claim, Open
<1>7. o.do = "claim" /\ Stored /\ r \in Requests /\ o.do \in Continued \ {"fail"}
  BY <1>1 DEF Comes, Begun, Claim, Next1, Op, Continued
<1>8. ASSUME i \in Table(db, "job"), Opens(r, d, <<h>> \o Rest(r), Failing(i)) PROVE Handled(r)
  <2>1. DOMAIN db[i] = {"kind", "of", "status", "run"} /\ db[i].of \in AccountFiles \cup {"client_upload"}
    BY <1>7, <1>8, JobColumns
  <2>2. y.status = "running" /\ y.run = db[i].run
    BY <1>2, <2>1
  <2>3. JobMoves(o, db[i], y)
    BY <1>7, <2>2 DEF JobMoves
  <2>4. \E v \in Statuses.job : y = [db[i] EXCEPT !.status = v]
    BY <1>2, ColumnsAre
  <2>5. Session(r, d, Kinds) /\ Edits(d, o)
    BY <1>1, <1>3, <1>7, <1>8, <2>3, <2>4, JobEdits, Zenon
  <2>6. do \in {"preview", "begin", "client file"}
    <3>1. Asked(o)
      BY <1>1, RestFollows DEF Comes, Begun
    <3> QED
      BY <1>4, <1>7, <3>1 DEF Asked, Work, AccountFiles
  <2>7. TakesOver(o, Difference(db, d), h)
    BY <1>1, <1>5, <1>7, <2>6 DEF TakesOver
  <2>8. Leads(o, Difference(db, d), <<h>> \o Rest(r)) /\ Falls(o, Failing(i))
    BY <1>1, <1>7, <2>7, RestQuiet, NextIs, FailingFalls
  <2> QED
    BY <1>1, <1>8, <2>5, <2>8, OpensHandled
<1>9. ASSUME GoesOn(r, Rest(r)) PROVE Handled(r)
  <2>1. Fine(db, r, Rest(r))
    BY RestQuiet, QuietIs
  <2> QED
    BY <1>9, <2>1, OnHandled
<1> QED
  BY <1>6, <1>8, <1>9

\* The preview of the file.
LEMMA PreviewFileHandled ==
  ASSUME NEW r, Comes(r), PreviewFile(r)
  PROVE  Handled(r)
<1>1. PICK o : o = Op(r)
  OBVIOUS
<1>2. PICK h : h = [do |-> "close", id |-> o.id, run |-> <<>>]
  OBVIOUS
<1>3. GoesOn(r, <<h>> \o Rest(r))
  BY <1>1, <1>2 DEF PreviewFile, Closing
<1>4. o.do = "preview" /\ Due(db, r, o)
  BY <1>1 DEF Comes, PreviewFile, Next1, Op
<1>5. Due(db, r, h)
  BY <1>2, <1>4 DEF Due, Continued
<1>6. Fine(db, r, <<h>> \o Rest(r))
  BY <1>5, RestQuiet, NextIs
<1> QED
  BY <1>3, <1>6, OnHandled

\* The run is recorded.
LEMMA BeginHandled ==
  ASSUME NEW r, Comes(r), Begin(r)
  PROVE  Handled(r)
<1>1. PICK o, run : o = Op(r) /\ run = Fresh(db, r)
  OBVIOUS
<1>2. o.do = "begin" /\ Stored /\ r \in Requests /\ o.do \in Continued \ {"fail"}
  BY <1>1 DEF Comes, Begun, Begin, Next1, Op, Continued
<1>3. ASSUME NEW status \in {"processing", "failed"}, NEW row,
             row = [kind |-> "run", of |-> "account", n |-> Nothing, status |-> status], NEW h,
             h.do \in {"link", "close"}, h.do = "close" => status = "failed", h.id = o.id, h.run = run,
             Opens(r, Inserted(db, r, row), <<h>> \o Rest(r), Failing(o.id))
      PROVE  Handled(r)
  <2>1. PICK d : d = Inserted(db, r, row)
    OBVIOUS
  <2>2. Typed(row) /\ row.kind \in BookKinds /\ Adds(row, o)
    <3>1. status \in Statuses.run
      BY <1>3, ColumnsAre DEF Final
    <3>2. Typed(row)
      BY <1>3, <3>1, TypedRows, Zenon
    <3> QED
      BY <1>3, <3>2 DEF BookKinds, Adds
  <2>3. /\ Session(r, d, Kinds) /\ Edits(d, o) /\ run # <<>>
        /\ run \in DOMAIN Difference(db, d).insert /\ Difference(db, d).insert[run] = row
    BY <1>1, <1>2, <2>1, <2>2, InsertionEdits
  <2>4. TakesOver(o, Difference(db, d), h)
    <3>1. h.do = "close" => row.status \in Final
      BY <1>3 DEF Final
    <3> QED
      BY <1>1, <1>2, <1>3, <2>3, <3>1 DEF TakesOver
  <2>5. Leads(o, Difference(db, d), <<h>> \o Rest(r)) /\ Falls(o, Failing(o.id))
    BY <1>2, <2>4, RestQuiet, NextIs, FailingFalls
  <2>6. Opens(r, d, <<h>> \o Rest(r), Failing(o.id))
    BY <1>3, <2>1
  <2> QED
    BY <1>1, <2>3, <2>5, <2>6, OpensHandled
<1>4. PICK x, y, h, g :
        /\ x = [kind |-> "run", of |-> "account", n |-> Nothing, status |-> "processing"]
        /\ y = [kind |-> "run", of |-> "account", n |-> Nothing, status |-> "failed"]
        /\ h = [do |-> "link", id |-> o.id, run |-> run, file |-> o.file]
        /\ g = [do |-> "close", id |-> o.id, run |-> run]
  OBVIOUS
<1>5. \/ Opens(r, Inserted(db, r, x), <<h>> \o Rest(r), Failing(o.id))
      \/ Opens(r, Inserted(db, r, y), <<g>> \o Rest(r), Failing(o.id))
  BY <1>1, <1>4 DEF Begin, Closing
<1>6. h.do = "link" /\ h.id = o.id /\ h.run = run /\ g.do = "close" /\ g.id = o.id /\ g.run = run
  BY <1>4
<1>7. CASE Opens(r, Inserted(db, r, x), <<h>> \o Rest(r), Failing(o.id))
  BY <1>3, <1>4, <1>6, <1>7
<1>8. CASE Opens(r, Inserted(db, r, y), <<g>> \o Rest(r), Failing(o.id))
  BY <1>3, <1>4, <1>6, <1>8
<1> QED
  BY <1>5, <1>7, <1>8

\* The job is told its run.
LEMMA LinkHandled ==
  ASSUME NEW r, Comes(r), Link(r)
  PROVE  Handled(r)
<1>1. PICK o, i, run : o = Op(r) /\ i = o.id /\ run = o.run
  OBVIOUS
<1>2. PICK y : y = [db[i] EXCEPT !.run = run]
  OBVIOUS
<1>3. PICK d : d = [db EXCEPT ![i] = y]
  OBVIOUS
<1>4. PICK h : h = [do |-> "import", id |-> i, run |-> run, file |-> o.file]
  OBVIOUS
<1>5. o.do = "link" /\ Stored /\ o.do \in Continued \ {"fail"} /\ Due(db, r, o)
  BY <1>1 DEF Comes, Begun, Link, Next1, Op, Continued
<1>6. i \in Table(db, "job") /\ run # <<>>
  BY <1>1, <1>5 DEF Due
<1>7. Opens(r, d, <<h>> \o Rest(r), Failing(i))
  <2>1. d = [db EXCEPT ![i].run = run]
    BY <1>2, <1>3, <1>6 DEF Table
  <2> QED
    BY <1>1, <1>4, <1>6, <2>1 DEF Link
<1>8. y.status = db[i].status /\ y.run = run
  <2>1. DOMAIN db[i] = {"kind", "of", "status", "run"}
    BY <1>5, <1>6, JobColumns
  <2> QED
    BY <1>2, <2>1
<1>9. JobMoves(o, db[i], y)
  BY <1>1, <1>5, <1>6, <1>8 DEF JobMoves
<1>10. \E v : y = [db[i] EXCEPT !.run = v]
  BY <1>2
<1>11. Session(r, d, Kinds) /\ Edits(d, o)
  BY <1>1, <1>3, <1>5, <1>6, <1>9, <1>10, JobEdits, Zenon
<1>12. TakesOver(o, Difference(db, d), h)
  BY <1>1, <1>4, <1>5 DEF TakesOver
<1>13. Leads(o, Difference(db, d), <<h>> \o Rest(r)) /\ Falls(o, Failing(i))
  BY <1>1, <1>5, <1>12, RestQuiet, NextIs, FailingFalls
<1> QED
  BY <1>1, <1>7, <1>11, <1>13, OpensHandled

\* The job ends.
LEMMA CloseHandled ==
  ASSUME NEW r, Comes(r), Close(r)
  PROVE  Handled(r)
<1>1. PICK o, i : o = Op(r) /\ i = o.id
  OBVIOUS
<1>2. PICK w : w = IF o.run = <<>> THEN db[i].run ELSE o.run
  OBVIOUS
<1>3. PICK y : y = [db[i] EXCEPT !.status = "completed", !.run = w]
  OBVIOUS
<1>4. PICK d : d = [db EXCEPT ![i] = y]
  OBVIOUS
<1>5. o.do = "close" /\ Stored /\ o.do \in Continued \ {"fail"} /\ Due(db, r, o)
  BY <1>1 DEF Comes, Begun, Close, Next1, Op, Continued
<1>6. i \in Table(db, "job")
  BY <1>1, <1>5 DEF Due
<1>7. Opens(r, d, Rest(r), Failing(i))
  <2>1. d = [db EXCEPT ![i].status = "completed", ![i].run = IF o.run = <<>> THEN @ ELSE o.run]
    BY <1>2, <1>3, <1>4, <1>6 DEF Table
  <2> QED
    BY <1>1, <1>6, <2>1 DEF Close
<1>8. y.status = "completed" /\ y.run = w
  <2>1. DOMAIN db[i] = {"kind", "of", "status", "run"}
    BY <1>5, <1>6, JobColumns
  <2> QED
    BY <1>3, <2>1
<1>9. JobMoves(o, db[i], y)
  BY <1>2, <1>5, <1>8 DEF JobMoves
<1>10. \E v \in Statuses.job : \E x : y = [db[i] EXCEPT !.status = v, !.run = x]
  <2>1. "completed" \in Statuses.job
    BY ColumnsAre
  <2> QED
    BY <1>3, <2>1
<1>11. Session(r, d, Kinds) /\ Edits(d, o)
  BY <1>1, <1>4, <1>5, <1>6, <1>9, <1>10, JobEdits, Zenon
<1>12. Leads(o, Difference(db, d), Rest(r)) /\ Falls(o, Failing(i))
  BY <1>1, <1>5, RestQuiet, QuietIs, FailingFalls
<1> QED
  BY <1>1, <1>7, <1>11, <1>12, OpensHandled

\* The job has failed.
LEMMA FailHandled ==
  ASSUME NEW r, Comes(r), Fail(r)
  PROVE  Handled(r)
<1>1. PICK o, i : o = Op(r) /\ i = o.id
  OBVIOUS
<1>2. PICK y : y = [db[i] EXCEPT !.status = "failed"]
  OBVIOUS
<1>3. PICK d : d = [db EXCEPT ![i] = y]
  OBVIOUS
<1>4. o.do = "fail" /\ Stored /\ Due(db, r, o)
  BY <1>1 DEF Comes, Begun, Fail, Next1, Op
<1>5. i \in Table(db, "job")
  BY <1>1, <1>4 DEF Due, Continued
<1>6. Opens(r, d, Rest(r), <<>>) \/ GoesOn(r, <<>>)
  <2>1. d = [db EXCEPT ![i].status = "failed"]
    BY <1>2, <1>3, <1>5 DEF Table
  <2> QED
    BY <1>1, <2>1 DEF Fail, Tries
<1>7. y.status = "failed" /\ y.run = db[i].run
  <2>1. DOMAIN db[i] = {"kind", "of", "status", "run"}
    BY <1>4, <1>5, JobColumns
  <2> QED
    BY <1>2, <2>1
<1>8. JobMoves(o, db[i], y)
  BY <1>4, <1>7 DEF JobMoves
<1>9. \E v \in Statuses.job : y = [db[i] EXCEPT !.status = v]
  BY <1>2, ColumnsAre
<1>10. Session(r, d, Kinds) /\ Edits(d, o)
  BY <1>1, <1>3, <1>4, <1>5, <1>8, <1>9, JobEdits, Zenon
<1>11. Leads(o, Difference(db, d), Rest(r)) /\ Falls(o, <<>>) /\ Fine(db, r, <<>>)
  BY RestQuiet, QuietIs
<1>12. CASE Opens(r, d, Rest(r), <<>>)
  BY <1>1, <1>10, <1>11, <1>12, OpensHandled
<1>13. CASE GoesOn(r, <<>>)
  BY <1>11, <1>13, OnHandled
<1> QED
  BY <1>6, <1>12, <1>13

\* Errands put before a quiet program leave it quiet.
LEMMA QuietAfter ==
  ASSUME NEW t, Program(t), NoneOpen(t), NEW S, NEW k \in Nat, NEW p \in [1 .. k -> S],
         \A o \in S : o.do \notin Continued
  PROVE  NoneOpen(p \o t)
<1>1. PICK T : t \in Seq(T)
  BY ProgramIsSeq
<1>2. PICK V : V = S \cup T
  OBVIOUS
<1>3. t \in Seq(V) /\ p \in Seq(V) /\ Len(p) = k
  BY <1>1, <1>2
<1>4. PICK s : s = p \o t
  OBVIOUS
<1>5. /\ Len(s) = k + Len(t) /\ Len(t) \in Nat
      /\ \A n \in 1 .. Len(s) : s[n] = IF n <= k THEN p[n] ELSE t[n - k]
  <2>1. Len(p) \in Nat /\ Len(t) \in Nat /\ Len(p \o t) = Len(p) + Len(t)
    BY <1>3
  <2>2. \A n \in 1 .. Len(p) + Len(t) : (p \o t)[n] = IF n <= Len(p) THEN p[n] ELSE t[n - Len(p)]
    BY <1>3
  <2> QED
    BY <1>3, <1>4, <2>1, <2>2
<1>6. ASSUME NEW n \in 1 .. Len(s) PROVE s[n].do \notin Continued
  <2>1. CASE n <= k
    BY <1>5, <2>1
  <2>2. CASE ~(n <= k)
    <3>1. n - k \in 1 .. Len(t) /\ s[n] = t[n - k]
      BY <1>5, <2>2
    <3> QED
      BY <3>1 DEF NoneOpen
  <2> QED
    BY <2>1, <2>2
<1> QED
  BY <1>4, <1>6 DEF NoneOpen

\* The suggestions an import asks for are no operations of an upload.
LEMMA ProcessingQuiet ==
  ASSUME NEW d, NEW e, IsFiniteSet(DOMAIN e), NEW t, Program(t), NoneOpen(t)
  PROVE  NoneOpen(Processing(d, e) \o t)
<1> DEFINE ids == Table(e, "aijob") \ Table(d, "aijob")
           f == [i \in ids |-> [do |-> "process", id |-> i]]
           S == {[do |-> "process", id |-> i] : i \in ids}
<1>1. IsFiniteSet(ids)
  <2>1. ids \in SUBSET DOMAIN e
    BY DEF Table
  <2> HIDE DEF ids
  <2> QED
    BY <2>1, FS_Subset, Zenon
<1>2. IsFiniteSet({f[i] : i \in ids})
  <2> HIDE DEF ids, f
  <2> QED
    BY <1>1, FiniteImage, Zenon
<1>3. S = {f[i] : i \in ids}
  OBVIOUS
<1>4. \A o \in S : o.do \notin Continued
  <2> SUFFICES ASSUME NEW i \in ids PROVE [do |-> "process", id |-> i].do \notin Continued
    OBVIOUS
  <2>1. PICK o : o = [do |-> "process", id |-> i]
    OBVIOUS
  <2>2. o.do = "process"
    BY <2>1
  <2> QED
    BY <2>1, <2>2 DEF Continued
<1>5. PICK T : T = S
  <2> HIDE DEF S
  <2> QED
    OBVIOUS
<1>6. IsFiniteSet(T) /\ \A o \in T : o.do \notin Continued
  BY <1>2, <1>3, <1>4, <1>5
<1>7. PICK k, p : k = Cardinality(T) /\ p = SetToSeq(T)
  OBVIOUS
<1>8. k \in Nat /\ p \in [1 .. k -> T]
  BY <1>6, <1>7, Listed
<1>9. NoneOpen(p \o t)
  BY <1>6, <1>8, QuietAfter
<1> QED
  BY <1>5, <1>7, <1>9 DEF Processing

\* Asking for suggestions leaves the accounts and the run as the import wrote them.
LEMMA ImportKept ==
  ASSUME NEW d, NEW run \in Table(db, "run"), ImportWrites(d, run), NEW e, QueuedOn(d, e)
  PROVE  ImportWrites(e, run)
<1>1. /\ DOMAIN db \subseteq DOMAIN d /\ DOMAIN d \subseteq DOMAIN e /\ run \in DOMAIN db
      /\ \A i \in DOMAIN d : e[i] = d[i]
      /\ \A i \in New(e) : i \in New(d) \/ e[i].kind = "aijob"
  BY DEF ImportWrites, Stamped, QueuedOn, New, Table
<1>2. \A i \in New(d) : e[i] = d[i]
  BY <1>1 DEF New
<1>3. Stamped(e, run)
  <2>1. \A i \in New(e) : e[i].kind = "account" => e[i].by = run
    BY <1>1, <1>2 DEF ImportWrites, Stamped
  <2>2. \A i \in DOMAIN db : e[i] = db[i] \/ (e[i].kind = "account" => e[i].by = run)
    BY <1>1 DEF ImportWrites, Stamped
  <2> QED
    BY <1>1, <2>1, <2>2 DEF Stamped
<1>4. \A i \in New(e) : e[i].kind \in {"account", "review", "aijob"}
  BY <1>1, <1>2 DEF ImportWrites
<1>5. \A i \in DOMAIN db : db[i].kind \in {"job", "run"} => e[i] = db[i] \/ i = run
  BY <1>1 DEF ImportWrites
<1>6. e[run].kind = "run" /\ e[run].status \in Final
  BY <1>1 DEF ImportWrites
<1> QED
  BY <1>3, <1>4, <1>5, <1>6 DEF ImportWrites

\* An import changes its own accounts and its own run.
LEMMA ImportEdits ==
  ASSUME NEW r, NEW o, o.do = "import", o.run \in Table(db, "run"), NEW d, NEW K, Session(r, d, K),
         ImportWrites(d, o.run)
  PROVE  Edits(d, o)
<1>1. DOMAIN db \subseteq DOMAIN d /\ db[o.run].kind = "run"
  BY DEF ImportWrites, Stamped, Table
<1>2. \A i \in New(d) : Adds(d[i], o)
  BY DEF ImportWrites, Stamped, Adds
<1>3. ASSUME NEW i \in DOMAIN db, d[i] # db[i]
      PROVE  /\ db[i].kind = "account" => d[i].by = o.run
             /\ db[i].kind # "job"
             /\ db[i].kind = "run" => d[i].status \in Final
  <2>1. d[i].kind = db[i].kind
    BY <1>1, <1>3 DEF Session, Kept
  <2>2. db[i].kind \in {"job", "run"} => i = o.run
    BY <1>3 DEF ImportWrites
  <2>3. db[i].kind = "account" => d[i].by = o.run
    BY <1>3, <2>1 DEF ImportWrites, Stamped
  <2> QED
    BY <1>1, <2>2, <2>3 DEF ImportWrites
<1>4. d[o.run].status \in Final
  BY DEF ImportWrites
<1> QED
  BY <1>1, <1>2, <1>3, <1>4 DEF Edits

\* The accounts are written and the run ends, in one transaction.
LEMMA ImportHandled ==
  ASSUME NEW r, Comes(r), Import(r)
  PROVE  Handled(r)
<1>1. PICK o : o = Op(r)
  OBVIOUS
<1>2. PICK acc : acc = AccountsTaken(db, r, o.run, o.file.rows)
  OBVIOUS
<1>3. PICK d : d = Summed(acc.d, o.run, acc.n)
  OBVIOUS
<1>4. PICK e : e = IF d[o.run].status = "failed" THEN d ELSE Enqueued(d, r, acc.touched)
  OBVIOUS
<1>5. PICK t, h : t = Processing(db, e) \o Rest(r) /\ h = [do |-> "close", id |-> o.id, run |-> o.run]
  OBVIOUS
<1>6. GoesOn(r, Failing(o.id)) \/ Opens(r, e, <<h>> \o t, Failing(o.id))
  BY <1>1, <1>2, <1>3, <1>4, <1>5 DEF Import, AllRows, Closing
<1>7. /\ Stored /\ r \in Requests /\ Begun(r) /\ o.do = "import" /\ Asked(o) /\ Due(db, r, o)
      /\ o.do \in Continued \ {"fail", "close"}
  BY <1>1, RestFollows DEF Comes, Begun, Import, Next1, Op, Continued
<1>8. o.run \in Table(db, "run")
  BY <1>7 DEF Due
<1>9. TakenSoFar(r, o.run, acc)
  <2>1. Len(o.file.rows) \in Nat /\ Classed(o.file.rows)
    BY <1>7 DEF Asked, WithFile, HasAccounts
  <2> QED
    BY <1>2, <1>7, <2>1, AccountsTakenReads
<1>10. Session(r, acc.d, TakenKinds) /\ Stamped(acc.d, o.run) /\ IsFiniteSet(acc.touched)
  BY <1>9 DEF TakenSoFar
<1>11. Session(r, d, BookKinds)
  <2>1. TakenKinds \subseteq BookKinds
    BY DEF TakenKinds, BookKinds
  <2>2. Session(r, acc.d, BookKinds) /\ "run" \in BookKinds
    BY <1>10, <2>1, SessionWidens DEF BookKinds
  <2> QED
    BY <1>3, <1>7, <2>2, SummedFits
<1>12. ImportWrites(d, o.run)
  BY <1>3, <1>7, <1>8, <1>10, SummedWrites
<1>13. Session(r, e, BookKinds) /\ ImportWrites(e, o.run)
  <2>1. PICK q : q = Enqueued(d, r, acc.touched)
    OBVIOUS
  <2>2. Session(r, q, BookKinds) /\ QueuedOn(d, q)
    <3>1. "aijob" \in BookKinds
      BY DEF BookKinds
    <3> QED
      BY <1>7, <1>10, <1>11, <2>1, <3>1, EnqueuedFits
  <2>3. ImportWrites(q, o.run)
    BY <1>8, <1>12, <2>2, ImportKept
  <2> QED
    BY <1>4, <1>11, <1>12, <2>1, <2>2, <2>3
<1>14. Session(r, e, Kinds) /\ Edits(e, o)
  BY <1>7, <1>8, <1>13, ImportEdits, SessionWidens DEF Kinds
<1>15. Program(t) /\ NoneOpen(t)
  <2>1. IsFiniteSet(DOMAIN e)
    BY <1>7, <1>13, SessionFinite
  <2>2. Follows(r, Rest(r)) /\ Program(Rest(r)) /\ NoneOpen(Rest(r))
    BY RestFollows, RestQuiet DEF Comes, Begun
  <2>3. Follows(r, t)
    <3>1. Op(r).do \in Leading
      BY <1>1, <1>7 DEF Leading
    <3> QED
      BY <1>5, <2>1, <2>2, <3>1, ProcessingFollows
  <2>4. NoneOpen(t)
    BY <1>5, <2>1, <2>2, ProcessingQuiet
  <2> QED
    BY <2>3, <2>4 DEF Follows
<1>16. TakesOver(o, Difference(db, e), h)
  BY <1>5, <1>7 DEF TakesOver
<1>17. Leads(o, Difference(db, e), <<h>> \o t) /\ Falls(o, Failing(o.id))
  BY <1>7, <1>15, <1>16, NextIs, FailingFalls
<1>18. Fine(db, r, Failing(o.id))
  BY <1>7, <1>17, FallsFine
<1>19. CASE GoesOn(r, Failing(o.id))
  BY <1>18, <1>19, OnHandled
<1>20. CASE Opens(r, e, <<h>> \o t, Failing(o.id))
  BY <1>1, <1>14, <1>17, <1>20, OpensHandled
<1> QED
  BY <1>6, <1>19, <1>20

\* A file of clients is written with its run, in one transaction.
LEMMA ImportClientsHandled ==
  ASSUME NEW r, Comes(r), ImportClients(r)
  PROVE  Handled(r)
<1>1. PICK o, d : o = Op(r) /\ d = ClientFileTaken(db, r, o.file)
  OBVIOUS
<1>2. PICK run : run = First(Table(d, "run") \ Table(db, "run"))
  OBVIOUS
<1>3. PICK h, g : h = [do |-> "close", id |-> o.id, run |-> run] /\ g = [do |-> "close", id |-> o.id, run |-> <<>>]
  OBVIOUS
<1>4. \/ Opens(r, d, <<h>> \o Rest(r), Failing(o.id))
      \/ GoesOn(r, <<g>> \o Rest(r))
  BY <1>1, <1>2, <1>3 DEF ImportClients, Closing
<1>5. /\ Stored /\ Begun(r) /\ o.do = "client file" /\ Asked(o) /\ Due(db, r, o) /\ o.do \in Continued \ {"fail"}
  BY <1>1, RestFollows DEF Comes, Begun, ImportClients, Next1, Op, Continued
<1>6. /\ Session(r, d, NameKinds \cup {"run"}) /\ Table(d, "run") \ Table(db, "run") # {}
      /\ \A i \in Table(db, "run") : i \in DOMAIN d /\ d[i] = db[i]
      /\ \A i \in Table(d, "run") \ Table(db, "run") : d[i].status \in Final
  <2>1. Len(o.file.rows) \in Nat
    BY <1>5 DEF Asked, WithFile
  <2>2. PICK file : file = o.file
    OBVIOUS
  <2>3. Begun(r) /\ Len(file.rows) \in Nat /\ d = ClientFileTaken(db, r, file)
    BY <1>1, <1>5, <2>1, <2>2
  <2> QED
    BY <2>3, ClientFileTakenFits, Zenon
<1>7. run \in Table(d, "run") \ Table(db, "run")
  BY <1>2, <1>6, FirstOf
<1>8. run \in New(d) /\ d[run].kind = "run" /\ run # <<>>
  <2>1. run \in New(d) /\ d[run].kind = "run"
    BY <1>6, <1>7 DEF Table, New, Session, Kept
  <2>2. \E n : run = <<r, n>>
    BY <1>6, <2>1 DEF Session
  <2> QED
    BY <2>1, <2>2
<1>9. Session(r, d, Kinds)
  <2>1. NameKinds \cup {"run"} \subseteq Kinds
    BY DEF NameKinds, Kinds, BookKinds
  <2> QED
    BY <1>6, <2>1, SessionWidens
<1>10. Edits(d, o)
  <2>1. \A i \in New(d) : Adds(d[i], o)
    BY <1>6 DEF Session, NameKinds, Adds
  <2>2. \A i \in DOMAIN db \ DOMAIN d : db[i].kind \notin {"job", "run"}
    BY <1>6 DEF Session, NameKinds, Table
  <2>3. \A i \in DOMAIN d \cap DOMAIN db : d[i] = db[i] \/ db[i].kind \notin {"account", "job", "run"}
    BY <1>6 DEF Session, NameKinds, Kept, Table
  <2> QED
    BY <1>5, <2>1, <2>2, <2>3 DEF Edits
<1>11. TakesOver(o, Difference(db, d), h)
  <2>1. d[run].status \in Final
    BY <1>6, <1>7
  <2> QED
    BY <1>3, <1>5, <1>8, <2>1 DEF TakesOver, Difference, New
<1>12. Leads(o, Difference(db, d), <<h>> \o Rest(r)) /\ Falls(o, Failing(o.id))
  BY <1>5, <1>11, RestQuiet, NextIs, FailingFalls
<1>13. Fine(db, r, <<g>> \o Rest(r))
  <2>1. Due(db, r, g)
    BY <1>3, <1>5 DEF Due
  <2> QED
    BY <2>1, RestQuiet, NextIs
<1>14. CASE Opens(r, d, <<h>> \o Rest(r), Failing(o.id))
  BY <1>1, <1>9, <1>10, <1>12, <1>14, OpensHandled
<1>15. CASE GoesOn(r, <<g>> \o Rest(r))
  BY <1>13, <1>15, OnHandled
<1> QED
  BY <1>4, <1>14, <1>15

\* The steps that belong to an upload, and the others.
LEMMA FileSteps ==
  ASSUME NEW r, BookStep(r) \/ IntakeStep(r) \/ AccessStep(r), Op(r).do \in OfFiles
  PROVE  \/ Upload(r) \/ Claim(r) \/ PreviewFile(r) \/ Begin(r) \/ Link(r)
         \/ Import(r) \/ ImportClients(r) \/ Close(r) \/ Fail(r)
<1>1. OfFiles = {"upload", "claim", "preview", "begin", "link", "import", "client file", "close", "fail"}
  BY DEF OfFiles, Continued
<1>2. ~BookStep(r)
  BY <1>1 DEF BookStep, SaveClient, SavePortfolio, EditClient, EditPortfolio, ActivateClient, DeletePortfolio,
     DeleteClient, Next1, Op
<1>3. ~AccessStep(r)
  BY <1>1 DEF AccessStep, Login, Refresh, Logout, Expired, Invite, ForgotPassword, ActivateAccount, ResetPassword,
     ChangePassword, CreateUser, ChangeRole, ResendInvitation, DeactivateUser, ReactivateUser, DeleteUser,
     CreateRole, UpdateRole, DeleteRole, SavePerson, EditPerson, AssignProduct, RemoveProduct, SaveOrganization,
     Entitle, SaveProduct, DeleteProduct, Next1, Op
<1>4. ~Enqueue(r) /\ ~EnqueueForClient(r) /\ ~RequeueMissing(r) /\ ~ClaimSuggestion(r) /\ ~EvaluateGates(r)
      /\ ~Suggest(r) /\ ~FinishSuggestion(r) /\ ~Engage(r)
  BY <1>1 DEF Enqueue, EnqueueForClient, RequeueMissing, ClaimSuggestion, EvaluateGates, Suggest,
     FinishSuggestion, Engage, Next1, Op
<1> QED
  BY <1>2, <1>3, <1>4 DEF IntakeStep

\* A step that belongs to no upload is Handled.
LEMMA AsideHandled ==
  ASSUME NEW r, Advances(r), Op(r).do \notin OfFiles, NoneOpen(Rest(r))
  PROVE  Handled(r)
<1>1. ASSUME NEW t, Follows(r, t), GoesOn(r, t) PROVE Handled(r)
  <2>1. Program(t) /\ NoneOpen(t)
    BY <1>1 DEF Follows
  <2>2. Fine(db, r, t)
    BY <2>1, QuietIs
  <2> QED
    BY <1>1, <2>2, OnHandled
<1>2. ASSUME NEW d, NEW then, NEW else, Session(r, d, Kinds), Follows(r, then), Follows(r, else), Aloof(d),
             Opens(r, d, then, else)
      PROVE  Handled(r)
  <2>1. Program(then) /\ NoneOpen(then) /\ Program(else) /\ NoneOpen(else)
    BY <1>2 DEF Follows
  <2>2. Leads(Op(r), Difference(db, d), then) /\ Falls(Op(r), else)
    BY <2>1, QuietIs
  <2>3. Edits(d, Op(r))
    <3>1. \A i \in New(d) : Adds(d[i], Op(r))
      BY <1>2 DEF Aloof, FileKinds, Adds
    <3>2. Op(r).do \notin {"import", "close"}
      BY DEF OfFiles, Continued
    <3> QED
      BY <1>2, <3>1, <3>2 DEF Aloof, FileKinds, Edits
  <2> QED
    BY <1>2, <2>2, <2>3, OpensHandled
<1> QED
  BY <1>1, <1>2 DEF Advances

\* Every step keeps what is known of the uploads.
LEMMA NextImports ==
  ASSUME Inv, ImportsInv, [Next]_vars
  PROVE  ImportsInv'
<1>1. CASE UNCHANGED vars
  <2>1. db' = db /\ todo' = todo /\ plan' = plan
    BY <1>1 DEF vars
  <2>2. \A q : Op(q)' = Op(q)
    BY <2>1 DEF Op
  <2> QED
    BY <2>1, <2>2 DEF ImportsInv
<1>2. CASE Die
  BY <1>2, DieImports
<1>3. ASSUME NEW r \in Requests, BookStep(r) \/ IntakeStep(r) \/ AccessStep(r) PROVE ImportsInv'
  <2>1. Idle(r) /\ todo[r] # <<>> /\ Begun(r) /\ Advances(r)
    BY <1>3, BegunIs, StepBegins
  <2>2. NoneOpen(Rest(r)) /\ Comes(r)
    <3>1. Fine(db, r, todo[r])
      BY DEF ImportsInv
    <3> QED
      BY <2>1, <3>1 DEF Fine, Comes, Rest, Op
  <2>3. CASE Op(r).do \in OfFiles
    <3>1. \/ Upload(r) \/ Claim(r) \/ PreviewFile(r) \/ Begin(r) \/ Link(r)
          \/ Import(r) \/ ImportClients(r) \/ Close(r) \/ Fail(r)
      BY <1>3, <2>3, FileSteps
    <3>2. Handled(r)
      BY <2>2, <3>1, UploadHandled, ClaimHandled, PreviewFileHandled, BeginHandled, LinkHandled, ImportHandled,
         ImportClientsHandled, CloseHandled, FailHandled
    <3> QED
      BY <2>1, <3>2, HandledImports
  <2>4. CASE Op(r).do \notin OfFiles
    <3>1. Handled(r)
      BY <2>1, <2>2, <2>4, AsideHandled
    <3> QED
      BY <2>1, <3>1, HandledImports
  <2> QED
    BY <2>3, <2>4
<1>4. ASSUME NEW r \in Requests, Ends(r) PROVE ImportsInv'
  <2>1. r \in DOMAIN plan
    BY <1>4 DEF Ends, Commit, Refused
  <2> QED
    BY <1>4, <2>1, CommitImports
<1> QED
  BY <1>1, <1>2, <1>3, <1>4 DEF Next, Ends

(* What each transaction of an upload was handed is what it finds: the job *)
(* is its own and has not ended, and leads to no run but the one it links, *)
(* imports into or closes with, which has ended by the time of the close   *)
(* (run_import_job and process_account_file, whose commits are apart).     *)
THEOREM ImportsStayWhole == Spec => []ImportsInv
<1>1. Init => ImportsInv
  BY InitImports
<1>2. Inv /\ ImportsInv /\ [Next]_vars => ImportsInv'
  BY NextImports
<1> QED
  BY <1>1, <1>2, Inductive, PTL DEF Spec

(* What an import wrote is seen together with its summary, whatever commit *)
(* of its three fails: no account carries a run that has not ended, and no *)
(* completed job leads to one.                                             *)
THEOREM NoHalfImports == Spec => []NothingHalfImported
<1>1. ImportsInv => NothingHalfImported
  BY DEF ImportsInv, Whole, NothingHalfImported
<1> QED
  BY <1>1, ImportsStayWhole, PTL

(***************************************************************************)
(* The numbers of clients and portfolios.                                  *)
(***************************************************************************)
\* As long as no two transactions overlapped, a number is in one place, on the rows
\* and on those the open transaction would leave.
NumbersInv == met = {} => OneEach(db) /\ \A r \in DOMAIN plan : OneEach(After(r))

\* A cascade that only deletes clients and portfolios brings no number twice.
LEMMA NarrowLawful ==
  ASSUME NEW d, Narrow(d)
  PROVE  Lawful(d)
<1>1. \A i \in Table(d, "client") \cup Table(d, "portfolio") : i \in DOMAIN db /\ d[i] = db[i]
  BY DEF Table, Narrow
<1> QED
  BY <1>1, NumbersStay DEF Lawful

\* The requests on clients, portfolios and files keep each number in one place.
LEMMA BookStepLawful ==
  ASSUME NEW r, Begun(r), OfBook(r)
  PROVE  ProceedsLawfully(r, Kinds)
<1>1. NameKinds \subseteq Kinds /\ BookKinds \subseteq Kinds
  BY DEF NameKinds, BookKinds, Kinds
<1>2. CASE IntakeStep(r)
  BY <1>1, <1>2, IntakeStepProceeds, LawfullyWidens, Zenon
<1>3. CASE ProceedsLawfully(r, NameKinds)
  BY <1>1, <1>3, LawfullyWidens, Zenon
<1>4. CASE ProceedsNarrowly(r)
  <2>1. ASSUME NEW d, NEW then, NEW else, Session(r, d, BookKinds), Narrow(d), Follows(r, then), Follows(r, else),
               Opens(r, d, then, else)
        PROVE  ProceedsLawfully(r, BookKinds)
    BY <2>1, NarrowLawful, Zenon DEF ProceedsLawfully
  <2>2. ProceedsLawfully(r, BookKinds)
    BY <1>4, <2>1, Zenon DEF ProceedsNarrowly, ProceedsLawfully
  <2> QED
    BY <1>1, <2>2, LawfullyWidens, Zenon
<1> QED
  BY <1>2, <1>3, <1>4, BookStepProceeds, Zenon DEF OfBook

\* So does every step of a request.
LEMMA StepLawful ==
  ASSUME NEW r, Begun(r), Advances(r)
  PROVE  ProceedsLawfully(r, Kinds)
<1>1. ASSUME NEW t, Follows(r, t), GoesOn(r, t) PROVE ProceedsLawfully(r, Kinds)
  BY <1>1, Zenon DEF ProceedsLawfully
<1>2. ASSUME NEW d, NEW then, NEW else, Session(r, d, Kinds), Session(r, d, AccessKinds), Follows(r, then),
             Follows(r, else), Opens(r, d, then, else)
      PROVE  ProceedsLawfully(r, Kinds)
  <2>1. AccessKinds \cap NameKinds = {}
    BY DEF AccessKinds, NameKinds
  <2>2. Lawful(d)
    BY <1>2, <2>1, QuietLawful
  <2> QED
    BY <1>2, <2>2, Zenon DEF ProceedsLawfully
<1>3. CASE OfBook(r)
  BY <1>3, BookStepLawful
<1> QED
  BY <1>1, <1>2, <1>3, Zenon DEF Advances

\* A transaction is opened while no other one is, or met is empty no longer.
LEMMA OpensNumbers ==
  ASSUME Inv, NumbersInv, NEW r \in Requests, Idle(r), NEW d, Session(r, d, Kinds), Lawful(d),
         NEW then, NEW else, Opens(r, d, then, else)
  PROVE  NumbersInv'
<1>1. Stored
  BY DEF Inv
<1>2. /\ DOMAIN plan' = DOMAIN plan \cup {r} /\ db' = db /\ met' = met \cup {{r, q} : q \in DOMAIN plan}
  BY <1>1, OpensIs
<1>3. After(r)' = d
  BY <1>1, OpensAfter
<1>4. ASSUME met' = {} PROVE OneEach(db)' /\ \A q \in DOMAIN plan' : OneEach(After(q))'
  <2>1. met = {} /\ DOMAIN plan' = {r}
    <3>1. met \cup {{r, q} : q \in DOMAIN plan} = {}
      BY <1>2, <1>4
    <3>2. met = {} /\ \A q \in DOMAIN plan : {r, q} \in {}
      BY <3>1
    <3> QED
      BY <1>2, <3>2
  <2>2. OneEach(db) /\ OneEach(d)
    BY <2>1 DEF NumbersInv, Lawful
  <2>3. OneEach(After(r)')
    BY <1>3, <2>2
  <2>4. OneEach(After(r))'
    BY <2>3
  <2>5. OneEach(db)'
    BY <1>2, <2>2
  <2> QED
    BY <2>1, <2>4, <2>5
<1> QED
  BY <1>4 DEF NumbersInv

\* A commit leaves what the transaction was going to leave.
LEMMA CommitNumbers ==
  ASSUME Inv, NumbersInv, NEW r \in DOMAIN plan, Ends(r)
  PROVE  NumbersInv'
<1>1. /\ DOMAIN plan' = DOMAIN plan \ {r} /\ met' = met
      /\ db' = db \/ db' = After(r)
  BY CommitIs
<1>2. ASSUME met' = {} PROVE OneEach(db)' /\ DOMAIN plan' = {}
  <2>1. OneEach(db) /\ OneEach(After(r))
    BY <1>1, <1>2 DEF NumbersInv
  <2>2. \A q \in DOMAIN plan : q = r
    BY <1>1, <1>2 DEF Inv
  <2>3. OneEach(db')
    BY <1>1, <2>1
  <2> QED
    BY <1>1, <2>2, <2>3
<1> QED
  BY <1>2 DEF NumbersInv

\* A request goes on without writing.
LEMMA SamePlans ==
  ASSUME NumbersInv, db' = db, plan' = plan, met' = met
  PROVE  NumbersInv'
<1>1. \A r : After(r)' = After(r)
  BY DEF After
<1> QED
  BY <1>1 DEF NumbersInv

\* Every step keeps the numbers.
LEMMA NextNumbers ==
  ASSUME Inv, NumbersInv, [Next]_vars
  PROVE  NumbersInv'
<1>1. CASE UNCHANGED vars
  BY <1>1, SamePlans DEF vars
<1>2. CASE Die
  <2>1. db' = db /\ met' = met /\ DOMAIN plan' = {}
    BY <1>2 DEF Die, NoRows
  <2> QED
    BY <2>1 DEF NumbersInv
<1>3. ASSUME NEW r \in Requests, BookStep(r) \/ IntakeStep(r) \/ AccessStep(r) PROVE NumbersInv'
  <2>1. Idle(r) /\ Begun(r) /\ Advances(r)
    BY <1>3, BegunIs
  <2>2. ProceedsLawfully(r, Kinds)
    BY <2>1, StepLawful
  <2>3. ASSUME NEW t, GoesOn(r, t) PROVE NumbersInv'
    BY <2>3, SamePlans DEF GoesOn
  <2>4. ASSUME NEW d, NEW then, NEW else, Session(r, d, Kinds), Lawful(d), Opens(r, d, then, else)
        PROVE  NumbersInv'
    BY <1>3, <2>1, <2>4, OpensNumbers
  <2> QED
    BY <2>2, <2>3, <2>4, Zenon DEF ProceedsLawfully
<1>4. ASSUME NEW r \in Requests, Ends(r) PROVE NumbersInv'
  <2>1. r \in DOMAIN plan
    BY <1>4 DEF Ends, Commit, Refused
  <2> QED
    BY <1>4, <2>1, CommitNumbers
<1> QED
  BY <1>1, <1>2, <1>3, <1>4 DEF Next, Ends

(* As long as requests come one after the other, a number is on one client *)
(* or on portfolios of one client, in the tables and in what the open      *)
(* transaction is going to leave of them (_assert_master_not_sub,          *)
(* _assert_sub_identity, upsert_client, upsert_portfolio, the client file).*)
THEOREM NumbersStayUnique == Spec => []NumbersInv
<1>1. Init => NumbersInv
  <2> SUFFICES ASSUME Init PROVE NumbersInv
    OBVIOUS
  <2>1. PICK s \in Stories : StartsWith(s)
    BY DEF Init
  <2>2. Orderly(s.rows)
    BY AdministrationAssumption, Zenon DEF StoryAssumption
  <2>3. db = s.rows /\ DOMAIN plan = {}
    BY <2>1 DEF StartsWith, NoRows
  <2>4. OneEach(db)
    BY <2>2, <2>3 DEF Orderly
  <2> QED
    BY <2>3, <2>4 DEF NumbersInv
<1>2. Inv /\ NumbersInv /\ [Next]_vars => NumbersInv'
  BY NextNumbers
<1> QED
  BY <1>1, <1>2, Inductive, PTL DEF Spec

(***************************************************************************)
(* The drafts of a scope: a draft workflow, or a suggestion job that may   *)
(* still make some, keeps other requests from making more.                 *)
(***************************************************************************)
Bears(x) ==
  \/ x.kind = "strategy" /\ x.ai
  \/ x.kind = "aijob" /\ x.status \in Blocking
\* The request that made the row i, or enqueued the job it comes from.
Maker(i, x) == IF x.kind = "strategy" THEN x.by[1] ELSE i[1]
\* One request is behind both, or two that overlapped.
Rightful(i, x, j, y) == Maker(i, x) = Maker(j, y) \/ {Maker(i, x), Maker(j, y)} \in met
\* The drafts and jobs d has for a scope are rightful.
Explained(d) ==
  \A i, j \in DOMAIN d :
    Bears(d[i]) /\ Bears(d[j]) /\ ScopeOf(d[i]) = ScopeOf(d[j]) => Rightful(i, d[i], j, d[j])

\* A request makes drafts of its own, and works on suggestion jobs of its own.
MakesOwn(r) ==
  /\ \A i \in DOMAIN Ins(r) : Ins(r)[i].kind = "strategy" => Ins(r)[i].by[1] = r
  /\ \A i \in DOMAIN Upd(r) \cap DOMAIN db :
       db[i].kind # "strategy" /\ (db[i].kind = "aijob" => i[1] = r)

\* What a request r finds when it comes to the operation o, and to the program t.
Coming(d, r, o) ==
  o.do \in Background =>
    /\ o.id[1] = r
    /\ o.do \in {"gates", "suggest"} /\ o.id \in Table(d, "aijob") => d[o.id].status \in Blocking
Ready(d, r, t) == t # <<>> => Mine(r, Tail(t)) /\ Coming(d, r, Head(t))

\* An open transaction makes drafts of its own and leaves them explained, and what
\* comes after it finds what it needs.
DraftsOf(r) ==
  MakesOwn(r) /\ Explained(After(r)) /\ Ready(After(r), r, plan[r].then) /\ Ready(db, r, plan[r].else)
\* What the drafts come to, on the rows and in what each open transaction would leave.
DraftsInv ==
  /\ Explained(db) /\ \A r \in Requests : Ready(db, r, todo[r])
  /\ \A r \in DOMAIN plan : DraftsOf(r)

\* They are drafts or suggestion jobs.
LEMMA BearsDrafts ==
  ASSUME NEW x, Bears(x)
  PROVE  x.kind \in DraftKinds
  BY DEF Bears, DraftKinds

\* It does not matter which of the two is named first.
LEMMA RightfulSym ==
  ASSUME NEW i, NEW x, NEW j, NEW y, Rightful(i, x, j, y)
  PROVE  Rightful(j, y, i, x)
<1>1. {Maker(i, x), Maker(j, y)} = {Maker(j, y), Maker(i, x)}
  OBVIOUS
<1> QED
  BY <1>1 DEF Rightful

\* Requests that overlapped have overlapped.
LEMMA ExplainedGrows ==
  ASSUME NEW d, Explained(d), met \subseteq met'
  PROVE  Explained(d)'
<1>1. ASSUME NEW i, NEW x, NEW j, NEW y, Rightful(i, x, j, y) PROVE Rightful(i, x, j, y)'
  BY <1>1 DEF Rightful
<1> QED
  BY <1>1 DEF Explained

\* The draft i of f, when q flushes to the rows d that r left instead of db.
MixedDraft(r, q, d, e, f, i) ==
  /\ \/ i \in DOMAIN e /\ e[i] = f[i]
     \/ i \in DOMAIN d /\ d[i] = f[i] /\ Maker(i, f[i]) = r
  /\ \/ i \in DOMAIN d /\ d[i] = f[i]
     \/ i \in DOMAIN e /\ e[i] = f[i] /\ Maker(i, f[i]) = q

\* Each draft and each job was left by one of the two alone, and is of its own if
\* the other did not leave it, too.
LEMMA MixedDraftIs ==
  ASSUME Stored, NEW r, NEW q, r # q, Shaped(r), Shaped(q), MakesOwn(r), MakesOwn(q), NEW d, NEW e, NEW f,
         Wrote(r, d), Wrote(q, e), \A i \in DOMAIN Upd(q) \cup Del(q) : i \notin DOMAIN Ins(r),
         NEW w, w = plan[q].write, Flushes(d, w, f), NEW i \in DOMAIN f, f[i].kind \in DraftKinds
  PROVE  MixedDraft(r, q, d, e, f, i)
<1>1. w.insert = Ins(q) /\ w.update = Upd(q) /\ w.delete = Del(q)
  BY DEF Ins, Upd, Del
<1>2. CASE i \in DOMAIN Ins(q)
  <2>1. f[i] = Ins(q)[i] /\ i \in DOMAIN e /\ e[i] = Ins(q)[i]
    BY <1>1, <1>2 DEF Flushes, Wrote
  <2>2. i[1] = q /\ (f[i].kind = "strategy" => f[i].by[1] = q)
    BY <1>2, <2>1 DEF Shaped, MakesOwn
  <2> QED
    BY <2>1, <2>2 DEF MixedDraft, Maker
<1>3. CASE i \notin DOMAIN Ins(q) /\ i \in DOMAIN Ins(r)
  <2>1. i \in DOMAIN d \ Del(q) /\ i \notin DOMAIN Upd(q)
    BY <1>1, <1>3 DEF Flushes
  <2>2. f[i] = d[i] /\ d[i] = Ins(r)[i]
    BY <1>1, <1>3, <2>1 DEF Flushes, Wrote
  <2>3. i[1] = r /\ (f[i].kind = "strategy" => f[i].by[1] = r)
    BY <1>3, <2>2 DEF Shaped, MakesOwn
  <2> QED
    BY <2>1, <2>2, <2>3 DEF MixedDraft, Maker
<1>4. CASE i \notin DOMAIN Ins(q) /\ i \notin DOMAIN Ins(r)
  <2>1. i \in DOMAIN d \ Del(q)
    BY <1>1, <1>4 DEF Flushes
  <2>2. i \in DOMAIN db \ Del(r) /\ i \in DOMAIN db \ Del(q)
    BY <1>4, <2>1 DEF Wrote
  <2>3. /\ i \in DOMAIN e
        /\ i \notin DOMAIN Upd(r) => d[i] = db[i]
        /\ i \notin DOMAIN Upd(q) => e[i] = db[i]
        /\ i \in DOMAIN Upd(q) => e[i] = Over(Upd(q)[i], db[i])
    BY <2>2 DEF Wrote
  <2>4. /\ i \notin DOMAIN Upd(q) => f[i] = d[i]
        /\ i \in DOMAIN Upd(q) => f[i] = Over(Upd(q)[i], d[i])
    BY <1>1, <2>1 DEF Flushes
  <2>5. db[i].kind = f[i].kind
    <3>1. d[i].kind = f[i].kind
      BY <1>1, <2>1 DEF Flushes, Kept
    <3>2. d[i].kind = db[i].kind
      BY <2>2 DEF Wrote, Kept
    <3> QED
      BY <3>1, <3>2
  <2>6. /\ i \in DOMAIN Upd(r) => f[i].kind = "aijob" /\ i[1] = r
        /\ i \in DOMAIN Upd(q) => f[i].kind = "aijob" /\ i[1] = q
    BY <2>2, <2>5 DEF MakesOwn, DraftKinds
  <2>7. CASE i \in DOMAIN Upd(r)
    <3>1. i \notin DOMAIN Upd(q) /\ Maker(i, f[i]) = r
      BY <2>6, <2>7 DEF Maker
    <3> QED
      BY <2>1, <2>4, <3>1 DEF MixedDraft
  <2>8. CASE i \notin DOMAIN Upd(r) /\ i \in DOMAIN Upd(q)
    <3>1. e[i] = f[i] /\ Maker(i, f[i]) = q
      BY <2>3, <2>4, <2>6, <2>8 DEF Maker
    <3> QED
      BY <2>3, <3>1 DEF MixedDraft
  <2>9. CASE i \notin DOMAIN Upd(r) /\ i \notin DOMAIN Upd(q)
    BY <2>1, <2>3, <2>4, <2>9 DEF MixedDraft
  <2> QED
    BY <2>7, <2>8, <2>9
<1> QED
  BY <1>2, <1>3, <1>4

\* Two drafts left by different requests are of requests that overlapped.
LEMMA MixedExplained ==
  ASSUME NEW r, NEW q, {r, q} \in met, NEW d, NEW e, NEW f, Explained(d), Explained(e),
         \A i \in DOMAIN f : f[i].kind \in DraftKinds => MixedDraft(r, q, d, e, f, i)
  PROVE  Explained(f)
<1> SUFFICES ASSUME NEW i \in DOMAIN f, NEW j \in DOMAIN f, Bears(f[i]), Bears(f[j]), ScopeOf(f[i]) = ScopeOf(f[j])
             PROVE  Rightful(i, f[i], j, f[j])
  BY DEF Explained
<1>1. MixedDraft(r, q, d, e, f, i) /\ MixedDraft(r, q, d, e, f, j)
  BY BearsDrafts
<1>2. CASE i \in DOMAIN e /\ e[i] = f[i] /\ j \in DOMAIN e /\ e[j] = f[j]
  BY <1>2 DEF Explained
<1>3. CASE i \in DOMAIN d /\ d[i] = f[i] /\ j \in DOMAIN d /\ d[j] = f[j]
  BY <1>3 DEF Explained
<1>4. CASE Maker(i, f[i]) = r /\ Maker(j, f[j]) = q
  BY <1>4 DEF Rightful
<1>5. CASE Maker(i, f[i]) = q /\ Maker(j, f[j]) = r
  <2>1. Rightful(j, f[j], i, f[i])
    BY <1>5 DEF Rightful
  <2> QED
    BY <2>1, RightfulSym
<1> QED
  BY <1>1, <1>2, <1>3, <1>4, <1>5 DEF MixedDraft

\* A program that has no suggestion job under way is ready.
LEMMA MineReady ==
  ASSUME NEW t, Program(t), NEW r, Mine(r, t)
  PROVE  \A d : Ready(d, r, t)
<1> SUFFICES ASSUME NEW d, t # <<>> PROVE Mine(r, Tail(t)) /\ Coming(d, r, Head(t))
  BY DEF Ready
<1>1. PICK S : t \in Seq(S)
  BY ProgramIsSeq
<1>2. PICK u : u = Tail(t)
  OBVIOUS
<1>3. Len(t) \in Nat \ {0} /\ Len(u) = Len(t) - 1 /\ \A n \in 1 .. Len(u) : u[n] = t[n + 1]
  BY <1>1, <1>2
<1>4. Mine(r, u)
  BY <1>3 DEF Mine
<1>5. Head(t) = t[1] /\ 1 \in 1 .. Len(t)
  BY <1>1, <1>3
<1>6. Head(t).do \in Background => Head(t).do = "process" /\ Head(t).id[1] = r
  BY <1>5 DEF Mine
<1>7. Coming(d, r, Head(t))
  BY <1>6 DEF Coming
<1> QED
  BY <1>2, <1>4, <1>7

\* A program that goes on from an operation that finds what it needs is ready.
LEMMA ComingReady ==
  ASSUME NEW t, Program(t), NEW r, Mine(r, t), NEW d, NEW h, Coming(d, r, h)
  PROVE  Ready(d, r, <<h>> \o t)
  BY OneThen DEF Ready

\* The suggestion jobs of r are as they were.
JobsOfStay(r, d, e) ==
  \A i \in Table(e, "aijob") : i[1] = r => i \in Table(d, "aijob") /\ e[i] = d[i]

\* It stays so as long as its jobs do.
LEMMA ReadyStays ==
  ASSUME NEW d, NEW r, NEW t, Ready(d, r, t), NEW e, JobsOfStay(r, d, e)
  PROVE  Ready(e, r, t)
<1>1. \A o : Coming(d, r, o) => Coming(e, r, o)
  BY DEF Coming, JobsOfStay
<1> QED
  BY <1>1 DEF Ready

\* A commit leaves the jobs of other requests alone.
LEMMA OthersJobs ==
  ASSUME NEW r, NEW q, r # q, Shaped(r), MakesOwn(r), NEW d, Wrote(r, d)
  PROVE  JobsOfStay(q, db, d)
<1> SUFFICES ASSUME NEW i \in Table(d, "aijob"), i[1] = q PROVE i \in Table(db, "aijob") /\ d[i] = db[i]
  BY DEF JobsOfStay
<1>1. i \in DOMAIN db \ Del(r)
  BY DEF Table, Wrote, Shaped
<1>2. d[i].kind = "aijob" /\ (d[i] = db[i] \/ Kept(db[i], d[i]))
  BY <1>1 DEF Table, Wrote
<1>3. db[i].kind = "aijob"
  BY <1>2 DEF Kept
<1>4. i \notin DOMAIN Upd(r)
  BY <1>1, <1>3 DEF MakesOwn
<1> QED
  BY <1>1, <1>3, <1>4 DEF Table, Wrote

\* What q will leave of its jobs on the rows d that r left is what it would have left without.
LEMMA JobsAfter ==
  ASSUME NEW r, NEW q, r # q, Shaped(r), Shaped(q), MakesOwn(r), NEW d, NEW e, NEW f, Wrote(r, d), Wrote(q, e),
         NEW w, w = plan[q].write, Flushes(d, w, f)
  PROVE  JobsOfStay(q, e, f)
<1>1. w.insert = Ins(q) /\ w.update = Upd(q) /\ w.delete = Del(q)
  BY DEF Ins, Upd, Del
<1> SUFFICES ASSUME NEW i \in Table(f, "aijob"), i[1] = q PROVE i \in Table(e, "aijob") /\ e[i] = f[i]
  BY DEF JobsOfStay
<1>2. i \in DOMAIN f /\ f[i].kind = "aijob"
  BY DEF Table
<1>3. CASE i \in DOMAIN Ins(q)
  BY <1>1, <1>2, <1>3 DEF Flushes, Wrote, Table
<1>4. CASE i \notin DOMAIN Ins(q)
  <2>1. i \in DOMAIN d \ Del(q)
    BY <1>1, <1>2, <1>4 DEF Flushes
  <2>2. d[i].kind = "aijob"
    BY <1>1, <1>2, <2>1 DEF Flushes, Kept
  <2>3. i \in DOMAIN db /\ d[i] = db[i]
    BY <2>1, <2>2, OthersJobs DEF JobsOfStay, Table
  <2>4. i \in DOMAIN e /\ (i \notin DOMAIN Upd(q) => e[i] = db[i]) /\ (i \in DOMAIN Upd(q) => e[i] = Over(Upd(q)[i], db[i]))
    BY <2>1, <2>3 DEF Wrote
  <2>5. (i \notin DOMAIN Upd(q) => f[i] = d[i]) /\ (i \in DOMAIN Upd(q) => f[i] = Over(Upd(q)[i], d[i]))
    BY <1>1, <2>1 DEF Flushes
  <2> QED
    BY <1>2, <2>3, <2>4, <2>5 DEF Table
<1> QED
  BY <1>3, <1>4

\* What is open stays as it is when nothing is committed.
LEMMA DraftsOfStays ==
  ASSUME NEW q, DraftsOf(q), db' = db, plan'[q] = plan[q], met \subseteq met'
  PROVE  DraftsOf(q)'
<1>1. After(q)' = After(q) /\ Ins(q)' = Ins(q) /\ Upd(q)' = Upd(q)
  BY DEF After, Ins, Upd
<1>2. PICK e : e = After(q)
  OBVIOUS
<1>3. Explained(e)'
  BY <1>2, ExplainedGrows DEF DraftsOf
<1>4. After(q)' = e
  BY <1>1, <1>2
<1>5. Explained(After(q))'
  BY <1>3, <1>4 DEF Explained, Rightful
<1> QED
  BY <1>1, <1>5 DEF DraftsOf, MakesOwn

\* So do the rows.
LEMMA ExplainedStays ==
  ASSUME Explained(db), db' = db, met \subseteq met'
  PROVE  Explained(db)'
<1>1. PICK d : d = db
  OBVIOUS
<1>2. Explained(d)'
  BY <1>1, ExplainedGrows
<1> QED
  BY <1>1, <1>2 DEF Explained

\* What is open keeps the drafts explained when another request commits.
LEMMA CommitDraftsOthers ==
  ASSUME Inv, Inv', DraftsInv, NEW r \in DOMAIN plan, Ends(r), db' = After(r), Wrote(r, db'), NEW q \in DOMAIN plan'
  PROVE  DraftsOf(q)'
<1>1. /\ q \in DOMAIN plan /\ q # r /\ plan'[q] = plan[q] /\ met' = met
      /\ Ins(q)' = Ins(q) /\ Upd(q)' = Upd(q)
  BY CommitIs, CommitKeeps
<1>2. {r, q} \in met /\ Stored /\ Shaped(r) /\ Shaped(q) /\ DraftsOf(r) /\ DraftsOf(q)
  BY <1>1 DEF Inv, DraftsInv
<1>3. PICK d : d = db'
  OBVIOUS
<1>4. PICK e : e = After(q)
  OBVIOUS
<1>5. PICK w : w = plan[q].write
  OBVIOUS
<1>6. PICK f : f = Flushed(d, w)
  OBVIOUS
<1>7. Wrote(r, d) /\ Wrote(q, e) /\ \A i \in DOMAIN d : Typed(d[i])
  <2>1. Wrote(r, d)
    BY <1>2, <1>3, AfterIs
  <2>2. Wrote(q, e)
    BY <1>2, <1>4, AfterIs
  <2> QED
    BY <2>1, <2>2 DEF Wrote
<1>8. After(q)' = f
  BY <1>1, <1>3, <1>5, <1>6 DEF After
<1>9. /\ \A i \in DOMAIN Ins(q) : i \notin DOMAIN d /\ Typed(Ins(q)[i])
      /\ \A i \in DOMAIN Upd(q) \cap DOMAIN d : Suits(d[i].kind, Upd(q)[i])
  <2>1. Shaped(q)'
    BY DEF Inv
  <2> QED
    BY <1>1, <1>3, <2>1 DEF Shaped
<1>10. Flushes(d, w, f)
  <2>1. Ins(q) = w.insert /\ Upd(q) = w.update
    BY <1>5 DEF Ins, Upd
  <2> QED
    BY <1>6, <1>7, <1>9, <2>1, FlushIs
<1>11. \A i \in DOMAIN Upd(q) \cup Del(q) : i \notin DOMAIN Ins(r)
  BY <1>2 DEF Shaped, Settled
<1>12. MakesOwn(r) /\ MakesOwn(q) /\ Explained(d) /\ Explained(e) /\ Ready(e, q, plan[q].then) /\ Ready(db, q, plan[q].else)
  BY <1>2, <1>3, <1>4 DEF DraftsOf
<1>13. Explained(f)
  <2>1. \A i \in DOMAIN f : f[i].kind \in DraftKinds => MixedDraft(r, q, d, e, f, i)
    BY <1>1, <1>2, <1>5, <1>7, <1>10, <1>11, <1>12, MixedDraftIs
  <2> QED
    BY <1>2, <1>12, <2>1, MixedExplained
<1>14. Explained(After(q))'
  <2>1. Explained(f)'
    BY <1>1, <1>13, ExplainedGrows
  <2> QED
    BY <1>8, <2>1 DEF Explained, Rightful
<1>15. Ready(f, q, plan[q].then) /\ Ready(d, q, plan[q].else)
  BY <1>1, <1>2, <1>5, <1>7, <1>10, <1>12, JobsAfter, OthersJobs, ReadyStays
<1>16. MakesOwn(q)'
  <2>1. ASSUME NEW i \in DOMAIN Upd(q) \cap DOMAIN d PROVE d[i].kind # "strategy" /\ (d[i].kind = "aijob" => i[1] = q)
    <3>1. i \in DOMAIN db \ Del(r)
      BY <1>7, <1>11, <2>1 DEF Wrote
    <3>2. d[i].kind = db[i].kind
      BY <1>7, <3>1 DEF Wrote, Kept
    <3> QED
      BY <1>12, <2>1, <3>1, <3>2 DEF MakesOwn
  <2> QED
    BY <1>1, <1>3, <1>12, <2>1 DEF MakesOwn
<1> QED
  BY <1>1, <1>3, <1>8, <1>14, <1>15, <1>16 DEF DraftsOf

\* A commit, taken or refused.
LEMMA CommitDrafts ==
  ASSUME Inv, Inv', DraftsInv, NEW r \in DOMAIN plan, Ends(r)
  PROVE  DraftsInv'
<1>1. /\ DOMAIN plan' = DOMAIN plan \ {r} /\ \A q \in DOMAIN plan' : plan'[q] = plan[q]
      /\ DOMAIN todo = Requests /\ r \in Requests /\ DOMAIN plan \subseteq Requests /\ met' = met
  BY CommitIs DEF Inv
<1>2. DraftsOf(r) /\ Shaped(r)
  BY DEF DraftsInv, Inv
<1>3. CASE db' = db /\ todo' = [todo EXCEPT ![r] = plan[r].else]
  <2>1. \A q \in DOMAIN plan' : DraftsOf(q)'
    BY <1>1, <1>3, DraftsOfStays DEF DraftsInv
  <2>2. \A q \in Requests : Ready(db', q, todo'[q])
    BY <1>1, <1>2, <1>3 DEF DraftsInv, DraftsOf
  <2>3. Explained(db)'
    BY <1>1, <1>3, ExplainedStays DEF DraftsInv
  <2> QED
    BY <2>1, <2>2, <2>3 DEF DraftsInv
<1>4. CASE db' = After(r) /\ SoundAll(After(r)) /\ todo' = [todo EXCEPT ![r] = plan[r].then]
  <2>1. PICK d : d = db'
    OBVIOUS
  <2>2. Wrote(r, d)
    BY <1>4, <2>1, WroteStored
  <2>3. \A q \in DOMAIN plan' : DraftsOf(q)'
    BY <1>4, <2>1, <2>2, CommitDraftsOthers
  <2>4. Ready(d, r, plan[r].then) /\ Explained(d) /\ MakesOwn(r)
    BY <1>2, <1>4, <2>1 DEF DraftsOf
  <2>5. ASSUME NEW q \in Requests, q # r PROVE Ready(d, q, todo[q])
    BY <1>2, <2>2, <2>4, <2>5, OthersJobs, ReadyStays DEF DraftsInv
  <2>6. \A q \in Requests : Ready(d, q, todo'[q])
    BY <1>1, <1>4, <2>4, <2>5
  <2>7. Explained(d)'
    BY <1>1, <2>4, ExplainedGrows
  <2>8. Explained(db)'
    BY <2>1, <2>7 DEF Explained
  <2> QED
    BY <2>1, <2>3, <2>6, <2>8 DEF DraftsInv
<1> QED
  BY <1>3, <1>4, CommitIs

\* The stories begin with drafts of one request.
LEMMA InitDrafts ==
  ASSUME Init
  PROVE  DraftsInv
<1>1. PICK s \in Stories : StartsWith(s)
  BY DEF Init
<1>2. StoryAssumption(s)
  BY AdministrationAssumption
<1>3. db = s.rows /\ todo = s.todo /\ DOMAIN plan = {}
  BY <1>1 DEF StartsWith, NoRows
<1>4. Explained(db)
  <2> SUFFICES ASSUME NEW i \in DOMAIN db, NEW j \in DOMAIN db, Bears(db[i]), Bears(db[j])
               PROVE  Rightful(i, db[i], j, db[j])
    BY DEF Explained
  <2>1. i[1] = j[1]
    BY <1>2, <1>3 DEF StoryAssumption
  <2>2. ASSUME NEW k \in {i, j} PROVE Maker(k, db[k]) = k[1]
    <3>1. Bears(db[k])
      OBVIOUS
    <3>2. Orderly(db)
      BY <1>2, <1>3 DEF StoryAssumption
    <3>3. db[k].kind = "strategy" => db[k].by[1] = k[1]
      BY <3>1, <3>2 DEF Bears, Orderly, Table
    <3> QED
      BY <3>3 DEF Maker
  <2> QED
    BY <2>1, <2>2 DEF Rightful
<1>5. ASSUME NEW r \in Requests PROVE Ready(db, r, todo[r])
  <2>1. Program(todo[r]) /\ NoneBehind(todo[r])
    BY <1>2, <1>3 DEF StoryAssumption
  <2>2. Mine(r, todo[r])
    BY <2>1 DEF NoneBehind, Mine
  <2> QED
    BY <2>1, <2>2, MineReady
<1> QED
  BY <1>3, <1>4, <1>5 DEF DraftsInv

\* The process dies.
LEMMA DieDrafts ==
  ASSUME Inv, DraftsInv, Die
  PROVE  DraftsInv'
<1>1. /\ db' = db /\ met' = met /\ DOMAIN plan' = {}
      /\ \A r \in Requests : todo'[r] = <<>> \/ todo'[r] = todo[r]
  BY DEF Die, NoRows
<1>2. \A r \in Requests : Ready(db', r, todo'[r])
  BY <1>1 DEF Ready, DraftsInv
<1>3. Explained(db)'
  BY <1>1, ExplainedStays DEF DraftsInv
<1> QED
  BY <1>1, <1>2, <1>3 DEF DraftsInv

\* A request goes on without writing.
LEMMA GoesOnDrafts ==
  ASSUME Inv, DraftsInv, NEW r \in Requests, NEW t, Ready(db, r, t), GoesOn(r, t)
  PROVE  DraftsInv'
<1>1. db' = db /\ plan' = plan /\ met' = met /\ todo' = [todo EXCEPT ![r] = t] /\ DOMAIN todo = Requests
  BY DEF GoesOn, Inv
<1>2. \A q \in Requests : Ready(db, q, todo'[q])
  BY <1>1 DEF DraftsInv
<1>3. \A q \in DOMAIN plan' : DraftsOf(q)'
  BY <1>1, DraftsOfStays DEF DraftsInv
<1>4. Explained(db)'
  BY <1>1, ExplainedStays DEF DraftsInv
<1> QED
  BY <1>1, <1>2, <1>3, <1>4 DEF DraftsInv

\* The session adds drafts of its own, and works on suggestion jobs of its own.
OwnDrafts(r, d) ==
  /\ \A i \in New(d) : d[i].kind = "strategy" => d[i].by[1] = r
  /\ \A i \in DOMAIN d \cap DOMAIN db :
       d[i] = db[i] \/ (db[i].kind # "strategy" /\ (db[i].kind = "aijob" => i[1] = r))

\* A transaction is opened.
LEMMA OpensDrafts ==
  ASSUME Inv, DraftsInv, NEW r \in Requests, Idle(r), NEW d, Session(r, d, Kinds), OwnDrafts(r, d), Explained(d),
         NEW then, Ready(d, r, then), NEW else, Ready(db, r, else), Opens(r, d, then, else)
  PROVE  DraftsInv'
<1>1. Stored
  BY DEF Inv
<1>2. /\ DOMAIN plan' = DOMAIN plan \cup {r}
      /\ plan'[r].then = then /\ plan'[r].else = else
      /\ \A q \in DOMAIN plan : plan'[q] = plan[q] /\ q # r
      /\ db' = db /\ todo' = todo /\ met \subseteq met'
  BY <1>1, OpensIs
<1>3. After(r)' = d
  BY <1>1, OpensAfter
<1>4. \A q \in DOMAIN plan : DraftsOf(q)'
  BY <1>2, DraftsOfStays DEF DraftsInv
<1>5. MakesOwn(r)'
  <2>1. /\ Ins(r)' = [i \in New(d) |-> d[i]]
        /\ DOMAIN Upd(r)' = {i \in DOMAIN d \cap DOMAIN db : d[i] # db[i]}
    <3>1. Opened(d, Ins(r)', Upd(r)', Del(r)') /\ OthersStay
      BY <1>1, OpensIns
    <3> QED
      BY <3>1 DEF Opened, OthersStay
  <2>2. \A i \in DOMAIN Ins(r)' : Ins(r)'[i].kind = "strategy" => Ins(r)'[i].by[1] = r
    BY <2>1 DEF OwnDrafts
  <2>3. \A i \in DOMAIN Upd(r)' \cap DOMAIN db : db[i].kind # "strategy" /\ (db[i].kind = "aijob" => i[1] = r)
    BY <2>1 DEF OwnDrafts
  <2> QED
    BY <1>2, <2>2, <2>3 DEF MakesOwn
<1>6. Explained(After(r))'
  <2>1. Explained(d)'
    BY <1>2, ExplainedGrows
  <2> QED
    BY <1>3, <2>1 DEF Explained
<1>7. DraftsOf(r)'
  BY <1>2, <1>3, <1>5, <1>6 DEF DraftsOf
<1>8. Explained(db)'
  BY <1>2, ExplainedStays DEF DraftsInv
<1> QED
  BY <1>2, <1>4, <1>7, <1>8 DEF DraftsInv

(***************************************************************************)
(* What a step comes to, as far as the drafts are concerned.               *)
(***************************************************************************)
Drafting(r) ==
  \/ \E t : Ready(db, r, t) /\ GoesOn(r, t)
  \/ \E d, then, else : /\ Session(r, d, Kinds) /\ OwnDrafts(r, d) /\ Explained(d)
                        /\ Ready(d, r, then) /\ Ready(db, r, else) /\ Opens(r, d, then, else)

\* The two things a step comes to.
LEMMA OpensDrafting ==
  ASSUME NEW r, NEW d, NEW K, Session(r, d, K), K \subseteq Kinds, OwnDrafts(r, d), Explained(d),
         NEW then, Ready(d, r, then), NEW else, Ready(db, r, else), Opens(r, d, then, else)
  PROVE  Drafting(r)
<1>1. Session(r, d, Kinds)
  BY SessionWidens
<1> QED
  BY <1>1, Zenon DEF Drafting

\* The other one.
LEMMA OnDrafting ==
  ASSUME NEW r, NEW t, Ready(db, r, t), GoesOn(r, t)
  PROVE  Drafting(r)
  BY Zenon DEF Drafting

\* No draft workflow and no suggestion job is new, or other than it was.
Still(d) == \A i \in DOMAIN d : d[i].kind \in DraftKinds => i \in DOMAIN db /\ d[i] = db[i]

\* Who leaves the drafts alone has made none and explains what was explained.
LEMMA StillIs ==
  ASSUME NEW r, NEW d, NEW K, Session(r, d, K), Still(d)
  PROVE  OwnDrafts(r, d) /\ (Explained(db) => Explained(d))
<1>1. \A i \in New(d) : d[i].kind # "strategy"
  BY DEF Still, New, DraftKinds
<1>2. \A i \in DOMAIN d \cap DOMAIN db : d[i] = db[i] \/ (db[i].kind # "strategy" /\ db[i].kind # "aijob")
  BY DEF Still, Session, Kept, DraftKinds
<1>3. \A i \in DOMAIN d : Bears(d[i]) => i \in DOMAIN db /\ d[i] = db[i]
  BY BearsDrafts DEF Still
<1>4. OwnDrafts(r, d)
  BY <1>1, <1>2 DEF OwnDrafts
<1>5. Explained(db) => Explained(d)
  BY <1>3 DEF Explained
<1> QED
  BY <1>4, <1>5

\* Sessions of other tables leave the drafts alone.
LEMMA AsideStill ==
  ASSUME NEW r, NEW d, NEW K, Session(r, d, K), K \cap DraftKinds = {}
  PROVE  Still(d)
  BY DEF Still, Session, New, Kept, DraftKinds

\* So does a cascade, of the drafts that it does not delete.
LEMMA NarrowStill ==
  ASSUME NEW d, Narrow(d)
  PROVE  Still(d)
  BY DEF Still, Narrow

\* What a request may assume that comes to a step.
Arrives(r) == Begun(r) /\ Explained(db) /\ Ready(db, r, todo[r])

\* What that says of the operation and of those after it.
LEMMA ArrivesIs ==
  ASSUME NEW r, Arrives(r)
  PROVE  /\ Begun(r) /\ Stored /\ r \in Requests /\ Explained(db)
         /\ Program(Rest(r)) /\ Mine(r, Rest(r)) /\ Coming(db, r, Op(r)) /\ Asked(Op(r))
         /\ \A d : Ready(d, r, Rest(r)) /\ Ready(d, r, <<>>)
<1>1. Begun(r) /\ Stored /\ r \in Requests /\ Explained(db) /\ Program(todo[r]) /\ todo[r] # <<>>
  BY DEF Arrives, Begun
<1>2. Program(Rest(r)) /\ Asked(Op(r))
  BY <1>1, RestFollows DEF Follows
<1>3. Mine(r, Rest(r)) /\ Coming(db, r, Op(r))
  BY <1>1 DEF Arrives, Ready, Rest, Op
<1>4. \A d : Ready(d, r, Rest(r))
  BY <1>2, <1>3, MineReady
<1>5. \A d : Ready(d, r, <<>>)
  BY DEF Ready
<1> QED
  BY <1>1, <1>2, <1>3, <1>4, <1>5

\* Operations that may follow one of no job are ready whatever the rows.
LEMMA FollowsReady ==
  ASSUME NEW r, Arrives(r), Op(r).do \notin Leading, NEW t, Follows(r, t)
  PROVE  \A d : Ready(d, r, t)
<1>1. Program(t) /\ Mine(r, t)
  BY ArrivesIs DEF Follows
<1> QED
  BY <1>1, MineReady

\* A step that leaves the drafts alone and opens a transaction;
LEMMA StillDrafting ==
  ASSUME NEW r, Arrives(r), Op(r).do \notin Leading, NEW d, NEW K, Session(r, d, K), K \subseteq Kinds, Still(d),
         NEW then, Follows(r, then), NEW else, Follows(r, else), Opens(r, d, then, else)
  PROVE  Drafting(r)
<1>1. Ready(d, r, then) /\ Ready(db, r, else)
  BY FollowsReady
<1>2. OwnDrafts(r, d) /\ Explained(d)
  BY StillIs, ArrivesIs
<1> QED
  BY <1>1, <1>2, OpensDrafting

\* one that opens none;
LEMMA FollowsDrafting ==
  ASSUME NEW r, Arrives(r), Op(r).do \notin Leading, NEW t, Follows(r, t), GoesOn(r, t)
  PROVE  Drafting(r)
<1>1. Ready(db, r, t)
  BY FollowsReady
<1> QED
  BY <1>1, OnDrafting

\* one that writes other tables;
LEMMA AsideDrafting ==
  ASSUME NEW r, Arrives(r), Op(r).do \notin Leading, NEW K, K \subseteq Kinds, K \cap DraftKinds = {}, Proceeds(r, K)
  PROVE  Drafting(r)
<1>1. ASSUME NEW d, NEW then, NEW else, Session(r, d, K), Follows(r, then), Follows(r, else), Opens(r, d, then, else)
      PROVE  Drafting(r)
  BY <1>1, AsideStill, StillDrafting
<1> QED
  BY <1>1, FollowsDrafting, Zenon DEF Proceeds

\* one that deletes a client or a portfolio.
LEMMA NarrowDrafting ==
  ASSUME NEW r, Arrives(r), Op(r).do \notin Leading, ProceedsNarrowly(r)
  PROVE  Drafting(r)
<1>1. ASSUME NEW d, NEW then, NEW else, Session(r, d, BookKinds), Narrow(d), Follows(r, then), Follows(r, else),
             Opens(r, d, then, else)
      PROVE  Drafting(r)
  <2>1. BookKinds \subseteq Kinds
    BY DEF Kinds
  <2> QED
    BY <1>1, <2>1, NarrowStill, StillDrafting
<1> QED
  BY <1>1, FollowsDrafting, Zenon DEF ProceedsNarrowly

(***************************************************************************)
(* The requests that enqueue suggestion jobs, and the jobs.                *)
(***************************************************************************)
\* Jobs of its own put before a program of r leave it one of r.
LEMMA MineAfter ==
  ASSUME NEW r, NEW t, Program(t), Mine(r, t), NEW S, NEW k \in Nat, NEW p \in [1 .. k -> S],
         \A o \in S : o.do \in Background => o.do = "process" /\ o.id[1] = r
  PROVE  Mine(r, p \o t)
<1>1. PICK T : t \in Seq(T)
  BY ProgramIsSeq
<1>2. PICK V : V = S \cup T
  OBVIOUS
<1>3. t \in Seq(V) /\ p \in Seq(V) /\ Len(p) = k
  BY <1>1, <1>2
<1>4. PICK s : s = p \o t
  OBVIOUS
<1>5. /\ Len(s) = k + Len(t) /\ Len(t) \in Nat
      /\ \A n \in 1 .. Len(s) : s[n] = IF n <= k THEN p[n] ELSE t[n - k]
  <2>1. Len(p) \in Nat /\ Len(t) \in Nat /\ Len(p \o t) = Len(p) + Len(t)
    BY <1>3
  <2>2. \A n \in 1 .. Len(p) + Len(t) : (p \o t)[n] = IF n <= Len(p) THEN p[n] ELSE t[n - Len(p)]
    BY <1>3
  <2> QED
    BY <1>3, <1>4, <2>1, <2>2
<1>6. ASSUME NEW n \in 1 .. Len(s), s[n].do \in Background PROVE s[n].do = "process" /\ s[n].id[1] = r
  <2>1. CASE n <= k
    BY <1>5, <1>6, <2>1
  <2>2. CASE ~(n <= k)
    <3>1. n - k \in 1 .. Len(t) /\ s[n] = t[n - k]
      BY <1>5, <2>2
    <3> QED
      BY <1>6, <3>1 DEF Mine
  <2> QED
    BY <2>1, <2>2
<1> QED
  BY <1>4, <1>6 DEF Mine

\* The jobs that a session enqueued are of the request.
LEMMA ProcessingMine ==
  ASSUME NEW r, NEW d, NEW e, IsFiniteSet(DOMAIN e), \A i \in Table(e, "aijob") \ Table(d, "aijob") : i[1] = r,
         NEW t, Program(t), Mine(r, t)
  PROVE  Mine(r, Processing(d, e) \o t)
<1> DEFINE ids == Table(e, "aijob") \ Table(d, "aijob")
           f == [i \in ids |-> [do |-> "process", id |-> i]]
           S == {[do |-> "process", id |-> i] : i \in ids}
<1>1. IsFiniteSet(ids)
  <2>1. ids \in SUBSET DOMAIN e
    BY DEF Table
  <2> HIDE DEF ids
  <2> QED
    BY <2>1, FS_Subset, Zenon
<1>2. IsFiniteSet({f[i] : i \in ids})
  <2> HIDE DEF ids, f
  <2> QED
    BY <1>1, FiniteImage, Zenon
<1>3. S = {f[i] : i \in ids}
  OBVIOUS
<1>4. \A o \in S : o.do = "process" /\ o.id[1] = r
  <2> SUFFICES ASSUME NEW i \in ids PROVE [do |-> "process", id |-> i].do = "process" /\ [do |-> "process", id |-> i].id[1] = r
    OBVIOUS
  <2>1. PICK o : o = [do |-> "process", id |-> i]
    OBVIOUS
  <2>2. o.do = "process" /\ o.id = i
    BY <2>1
  <2> QED
    BY <2>1, <2>2
<1>5. PICK T : T = S
  <2> HIDE DEF S
  <2> QED
    OBVIOUS
<1>6. IsFiniteSet(T) /\ \A o \in T : o.do \in Background => o.do = "process" /\ o.id[1] = r
  BY <1>2, <1>3, <1>4, <1>5
<1>7. PICK k, p : k = Cardinality(T) /\ p = SetToSeq(T)
  OBVIOUS
<1>8. k \in Nat /\ p \in [1 .. k -> T]
  BY <1>6, <1>7, Listed
<1>9. Mine(r, p \o t)
  BY <1>6, <1>8, MineAfter
<1> QED
  BY <1>5, <1>7, <1>9 DEF Processing

\* enqueue makes a job only for a scope that no draft and no job serves.
LEMMA EnqueuedExplained ==
  ASSUME NEW d, Explained(d), NEW e, QueuedOn(d, e), NEW r, QueuedBy(d, e, r)
  PROVE  Explained(e)
<1>1. ASSUME NEW i \in DOMAIN e \ DOMAIN d PROVE Maker(i, e[i]) = r
  BY DEF QueuedOn, QueuedBy, Maker
<1>2. ASSUME NEW i \in DOMAIN e \ DOMAIN d, NEW j \in DOMAIN d, Bears(d[j]), ScopeOf(e[i]) = ScopeOf(d[j])
      PROVE  FALSE
  <2>1. PICK s : s = ScopeOf(d[j])
    OBVIOUS
  <2>2. InScope(d[j], s)
    BY <2>1 DEF ScopeOf, InScope
  <2>3. Serves(d, j, s)
    BY <1>2, <2>2 DEF Serves, Bears
  <2> QED
    BY <1>2, <2>1, <2>3 DEF QueuedBy
<1>3. \A i \in DOMAIN d : i \in DOMAIN e /\ e[i] = d[i]
  BY DEF QueuedOn
<1> SUFFICES ASSUME NEW i \in DOMAIN e, NEW j \in DOMAIN e, Bears(e[i]), Bears(e[j]), ScopeOf(e[i]) = ScopeOf(e[j])
             PROVE  Rightful(i, e[i], j, e[j])
  BY DEF Explained
<1>4. CASE i \in DOMAIN d /\ j \in DOMAIN d
  BY <1>3, <1>4 DEF Explained
<1>5. CASE i \notin DOMAIN d /\ j \notin DOMAIN d
  BY <1>1, <1>5 DEF Rightful
<1>6. CASE i \notin DOMAIN d /\ j \in DOMAIN d
  BY <1>2, <1>3, <1>6
<1>7. CASE i \in DOMAIN d /\ j \notin DOMAIN d
  BY <1>2, <1>3, <1>7
<1> QED
  BY <1>4, <1>5, <1>6, <1>7

\* The request's session e enqueues jobs on the rows d, which have the drafts they had.
LEMMA EnqueuedDrafts ==
  ASSUME NEW r, Arrives(r), NEW d, NEW K, Session(r, d, K), Still(d), NEW e, Session(r, e, K),
         e = d \/ (QueuedOn(d, e) /\ QueuedBy(d, e, r))
  PROVE  /\ OwnDrafts(r, e) /\ Explained(e)
         /\ Program(Processing(db, e) \o Rest(r)) => Mine(r, Processing(db, e) \o Rest(r))
<1>1. OwnDrafts(r, d) /\ Explained(d)
  BY StillIs, ArrivesIs
<1>2. \A i \in DOMAIN d : d[i].kind = "aijob" => i \in Table(db, "aijob")
  BY DEF Still, Table, DraftKinds
<1>3. /\ \A i \in DOMAIN d : i \in DOMAIN e /\ e[i] = d[i]
      /\ \A i \in DOMAIN e \ DOMAIN d : i \notin DOMAIN db /\ e[i].kind = "aijob" /\ i[1] = r
  BY DEF QueuedOn, QueuedBy
<1>4. Explained(e)
  BY <1>1, EnqueuedExplained
<1>5. OwnDrafts(r, e)
  <2>1. \A i \in New(e) : e[i].kind = "strategy" => i \in New(d) /\ e[i] = d[i]
    BY <1>3 DEF New
  <2>2. \A i \in DOMAIN e \cap DOMAIN db : i \in DOMAIN d /\ e[i] = d[i]
    BY <1>3
  <2> QED
    BY <1>1, <2>1, <2>2 DEF OwnDrafts
<1>6. \A i \in Table(e, "aijob") \ Table(db, "aijob") : i[1] = r
  BY <1>2, <1>3 DEF Table
<1>7. IsFiniteSet(DOMAIN e)
  BY ArrivesIs, SessionFinite
<1>8. Mine(r, Processing(db, e) \o Rest(r))
  BY <1>6, <1>7, ArrivesIs, ProcessingMine
<1> QED
  BY <1>4, <1>5, <1>8

\* POST /suggest/jobs, the jobs of a client, and the requeue at start-up.
LEMMA EnqueuesDrafting ==
  ASSUME NEW r, Arrives(r), Enqueueing(r)
  PROVE  Drafting(r)
<1>0. PICK scopes : IsFiniteSet(scopes) /\ EnqueuesNow(r, scopes)
  BY Zenon DEF Enqueueing
<1>1. PICK e : e = Enqueued(db, r, scopes)
  OBVIOUS
<1>2. PICK t : t = Processing(db, e) \o Rest(r)
  OBVIOUS
<1>3. GoesOn(r, Rest(r)) \/ Opens(r, e, t, <<>>)
  BY <1>0, <1>1, <1>2 DEF EnqueuesNow
<1>4. Session(r, db, DraftKinds) /\ r \in Requests /\ Stored /\ "aijob" \in DraftKinds /\ DraftKinds \subseteq Kinds
  BY SessionBegins, ArrivesIs DEF DraftKinds, Kinds, BookKinds
<1>5. Session(r, e, DraftKinds) /\ QueuedOn(db, e) /\ QueuedBy(db, e, r)
  BY <1>0, <1>1, <1>4, EnqueuedFits
<1>6. Still(db)
  BY DEF Still
<1>7. Program(t)
  <2>1. IsFiniteSet(DOMAIN e)
    BY <1>4, <1>5, SessionFinite
  <2>2. Follows(r, Rest(r))
    BY RestFollows DEF Arrives, Begun
  <2> QED
    BY <1>2, <2>1, <2>2, ProcessingFollows DEF Follows, Enqueueing
<1>8. OwnDrafts(r, e) /\ Explained(e) /\ Mine(r, t)
  BY <1>2, <1>4, <1>5, <1>6, <1>7, EnqueuedDrafts
<1>9. Ready(e, r, t) /\ Ready(db, r, Rest(r)) /\ Ready(db, r, <<>>)
  BY <1>7, <1>8, MineReady, ArrivesIs
<1>10. CASE GoesOn(r, Rest(r))
  BY <1>9, <1>10, OnDrafting
<1>11. CASE Opens(r, e, t, <<>>)
  BY <1>4, <1>5, <1>8, <1>9, <1>11, OpensDrafting
<1> QED
  BY <1>3, <1>10, <1>11

\* A job that may make drafts could make them before.
LEMMA JobDrafts ==
  ASSUME Explained(db), NEW r, NEW i \in Table(db, "aijob"), i[1] = r,
         NEW y, y.kind = "aijob", ScopeOf(y) = ScopeOf(db[i]), y.status \in Blocking => db[i].status \in Blocking,
         NEW d, d = [db EXCEPT ![i] = y]
  PROVE  OwnDrafts(r, d) /\ Explained(d)
<1>1. /\ i \in DOMAIN db /\ db[i].kind = "aijob" /\ DOMAIN d = DOMAIN db /\ d[i] = y
      /\ \A j \in DOMAIN db \ {i} : d[j] = db[j]
  BY DEF Table
<1>2. OwnDrafts(r, d)
  BY <1>1 DEF OwnDrafts, New
<1>3. ASSUME NEW j \in DOMAIN d, Bears(d[j])
      PROVE  j \in DOMAIN db /\ Bears(db[j]) /\ ScopeOf(db[j]) = ScopeOf(d[j]) /\ Maker(j, db[j]) = Maker(j, d[j])
  <2>1. CASE j = i
    <3>1. Bears(db[i])
      BY <1>1, <1>3, <2>1 DEF Bears
    <3>2. Maker(i, db[i]) = i[1] /\ Maker(i, y) = i[1]
      BY <1>1 DEF Maker
    <3> QED
      BY <1>1, <2>1, <3>1, <3>2
  <2>2. CASE j # i
    BY <1>1, <1>3, <2>2
  <2> QED
    BY <2>1, <2>2
<1>4. Explained(d)
  <2> SUFFICES ASSUME NEW j \in DOMAIN d, NEW k \in DOMAIN d, Bears(d[j]), Bears(d[k]), ScopeOf(d[j]) = ScopeOf(d[k])
               PROVE  Rightful(j, d[j], k, d[k])
    BY DEF Explained
  <2>1. Rightful(j, db[j], k, db[k])
    BY <1>3 DEF Explained
  <2> QED
    BY <1>3, <2>1 DEF Rightful
<1> QED
  BY <1>2, <1>4

\* Its scope stays.
LEMMA AijobIs ==
  ASSUME Stored, NEW i \in Table(db, "aijob")
  PROVE  /\ \A v : [db[i] EXCEPT !.status = v].kind = "aijob" /\ [db[i] EXCEPT !.status = v].status = v
                   /\ ScopeOf([db[i] EXCEPT !.status = v]) = ScopeOf(db[i])
         /\ \A v : [db[i] EXCEPT !.counted = v].kind = "aijob" /\ [db[i] EXCEPT !.counted = v].status = db[i].status
                   /\ ScopeOf([db[i] EXCEPT !.counted = v]) = ScopeOf(db[i])
<1>1. db[i].kind = "aijob" /\ Typed(db[i])
  BY DEF Table, Stored
<1>2. DOMAIN db[i] = {"kind", "client", "portfolio", "status", "counted"}
  BY <1>1, ColumnsAre DEF Typed
<1> QED
  BY <1>1, <1>2 DEF ScopeOf

\* A job of the request gets another status, and the request goes on with t.
LEMMA StatusDrafting ==
  ASSUME NEW r, Arrives(r), NEW i \in Table(db, "aijob"), i[1] = r, NEW v \in Statuses.aijob,
         v \in Blocking => db[i].status \in Blocking, NEW d, d = [db EXCEPT ![i].status = v],
         NEW then, Ready(d, r, then), NEW else, Ready(db, r, else), Opens(r, d, then, else)
  PROVE  Drafting(r)
<1>1. PICK y : y = [db[i] EXCEPT !.status = v]
  OBVIOUS
<1>2. Stored /\ Explained(db) /\ DraftKinds \subseteq Kinds
  BY ArrivesIs DEF DraftKinds, Kinds, BookKinds
<1>3. y.kind = "aijob" /\ y.status = v /\ ScopeOf(y) = ScopeOf(db[i])
  BY <1>1, <1>2, AijobIs
<1>4. d = [db EXCEPT ![i] = y]
  BY <1>1 DEF Table
<1>5. OwnDrafts(r, d) /\ Explained(d)
  BY <1>2, <1>3, <1>4, JobDrafts
<1>6. Session(r, d, DraftKinds)
  BY <1>1, <1>2, <1>4, AijobEdition, Zenon
<1> QED
  BY <1>2, <1>5, <1>6, OpensDrafting

\* The steps of a job, one by one: it is claimed,
LEMMA ClaimSuggestionDrafting ==
  ASSUME NEW r, Arrives(r), ClaimSuggestion(r)
  PROVE  Drafting(r)
<1>1. PICK i, o : i = Op(r).id /\ o = [do |-> "gates", id |-> i]
  OBVIOUS
<1>2. PICK d : d = [db EXCEPT ![i].status = "running"]
  OBVIOUS
<1>3. \/ GoesOn(r, Rest(r))
      \/ i \in Table(db, "aijob") /\ db[i].status = "pending" /\ Opens(r, d, <<o>> \o Rest(r), <<>>)
  BY <1>1, <1>2 DEF ClaimSuggestion
<1>4. CASE GoesOn(r, Rest(r))
  BY <1>4, ArrivesIs, OnDrafting
<1>5. CASE i \in Table(db, "aijob") /\ db[i].status = "pending" /\ Opens(r, d, <<o>> \o Rest(r), <<>>)
  <2>1. i[1] = r
    BY <1>1, ArrivesIs DEF Coming, ClaimSuggestion, Next1, Op, Background
  <2>2. "running" \in Statuses.aijob /\ "running" \in Blocking /\ db[i].status \in Blocking
    BY <1>5, ColumnsAre DEF Blocking
  <2>3. d[i].status = "running"
    <3>1. "status" \in DOMAIN db[i] /\ i \in DOMAIN db
      BY <1>5, ArrivesIs, ColumnsAre DEF Stored, Typed, Table
    <3> QED
      BY <1>2, <3>1
  <2>4. Coming(d, r, o)
    BY <1>1, <2>1, <2>2, <2>3 DEF Coming
  <2>5. Ready(d, r, <<o>> \o Rest(r)) /\ Ready(db, r, <<>>)
    BY <2>4, ArrivesIs, ComingReady
  <2> QED
    BY <1>2, <1>5, <2>1, <2>2, <2>5, StatusDrafting
<1> QED
  BY <1>3, <1>4, <1>5

\* what it has left to do when a commit fails,
LEMMA FinishingReady ==
  ASSUME NEW r, Arrives(r), NEW i, i[1] = r
  PROVE  \A status, d : Ready(d, r, Finishing(i, status) \o Rest(r))
<1> SUFFICES ASSUME NEW status, NEW d PROVE Ready(d, r, Finishing(i, status) \o Rest(r))
  OBVIOUS
<1>1. PICK o : o = [do |-> "finish", id |-> i, status |-> status]
  OBVIOUS
<1>2. o.do = "finish" /\ o.id = i
  BY <1>1
<1>3. Coming(d, r, o)
  BY <1>2 DEF Coming
<1>4. Ready(d, r, <<o>> \o Rest(r))
  BY <1>3, ArrivesIs, ComingReady
<1> QED
  BY <1>1, <1>4 DEF Finishing

\* its gates are evaluated,
LEMMA EvaluateGatesDrafting ==
  ASSUME NEW r, Arrives(r), EvaluateGates(r)
  PROVE  Drafting(r)
<1>1. PICK i, o, u : i = Op(r).id /\ o = [do |-> "suggest", id |-> i] /\ u = Finishing(i, "failed") \o Rest(r)
  OBVIOUS
<1>2. PICK e : e = [db EXCEPT ![i].counted = TRUE]
  OBVIOUS
<1>3. \/ GoesOn(r, Rest(r))
      \/ \E v \in {"skipped", "failed"} :
           i \in Table(db, "aijob") /\ Opens(r, [db EXCEPT ![i].status = v], Rest(r), u)
      \/ i \in Table(db, "aijob") /\ Opens(r, e, <<o>> \o Rest(r), u)
  BY <1>1, <1>2 DEF EvaluateGates
<1>4. CASE GoesOn(r, Rest(r))
  BY <1>4, ArrivesIs, OnDrafting
<1>5. i[1] = r /\ (i \in Table(db, "aijob") => db[i].status \in Blocking)
  BY <1>1, ArrivesIs DEF Coming, EvaluateGates, Next1, Op, Background
<1>8. \A d : Ready(d, r, u)
  BY <1>1, <1>5, FinishingReady
<1>6. ASSUME NEW v \in {"skipped", "failed"}, i \in Table(db, "aijob"), Opens(r, [db EXCEPT ![i].status = v], Rest(r), u)
      PROVE  Drafting(r)
  <2>1. v \in Statuses.aijob /\ v \notin Blocking
    BY ColumnsAre DEF Blocking
  <2>2. PICK d : d = [db EXCEPT ![i].status = v]
    OBVIOUS
  <2>3. Opens(r, d, Rest(r), u)
    BY <1>6, <2>2
  <2>4. \A f : Ready(f, r, Rest(r))
    BY ArrivesIs
  <2> QED
    BY <1>5, <1>6, <1>8, <2>1, <2>2, <2>3, <2>4, StatusDrafting
<1>7. CASE i \in Table(db, "aijob") /\ Opens(r, e, <<o>> \o Rest(r), u)
  <2>1. PICK y : y = [db[i] EXCEPT !.counted = TRUE]
    OBVIOUS
  <2>2. Stored /\ Explained(db) /\ DraftKinds \subseteq Kinds
    BY ArrivesIs DEF DraftKinds, Kinds, BookKinds
  <2>3. y.kind = "aijob" /\ y.status = db[i].status /\ ScopeOf(y) = ScopeOf(db[i])
    BY <1>7, <2>1, <2>2, AijobIs
  <2>4. i \in DOMAIN db /\ e = [db EXCEPT ![i] = y] /\ e[i] = y
    BY <1>2, <1>7, <2>1 DEF Table
  <2>5. OwnDrafts(r, e) /\ Explained(e)
    BY <1>5, <1>7, <2>2, <2>3, <2>4, JobDrafts
  <2>6. Session(r, e, DraftKinds)
    BY <1>7, <2>1, <2>2, <2>4, AijobEdition, Zenon
  <2>7. Coming(e, r, o)
    BY <1>1, <1>5, <1>7, <2>3, <2>4 DEF Coming
  <2>8. Ready(e, r, <<o>> \o Rest(r)) /\ Ready(db, r, u)
    BY <1>8, <2>7, ArrivesIs, ComingReady
  <2> QED
    BY <1>7, <2>2, <2>5, <2>6, <2>8, OpensDrafting
<1> QED
  BY <1>3, <1>4, <1>6, <1>7

\* it ends,
LEMMA FinishSuggestionDrafting ==
  ASSUME NEW r, Arrives(r), FinishSuggestion(r)
  PROVE  Drafting(r)
<1>1. PICK i, v : i = Op(r).id /\ v = Op(r).status
  OBVIOUS
<1>2. PICK d, u : d = [db EXCEPT ![i].status = v] /\ u = IF v = "done" THEN Finishing(i, "failed") \o Rest(r) ELSE <<>>
  OBVIOUS
<1>3. \/ GoesOn(r, Rest(r))
      \/ i \in Table(db, "aijob") /\ Opens(r, d, Rest(r), u)
  BY <1>1, <1>2 DEF FinishSuggestion
<1>4. Op(r).do = "finish" /\ Asked(Op(r))
  BY ArrivesIs DEF FinishSuggestion, Next1, Op
<1>5. v \in Statuses.aijob /\ v \notin Blocking
  BY <1>1, <1>4, ColumnsAre DEF Asked, Blocking
<1>6. i[1] = r
  BY <1>1, <1>4, ArrivesIs DEF Coming, Background
<1>9. Ready(db, r, u)
  <2>1. Ready(db, r, <<>>)
    BY DEF Ready
  <2> QED
    BY <1>2, <1>6, <2>1, FinishingReady
<1>7. CASE GoesOn(r, Rest(r))
  BY <1>7, ArrivesIs, OnDrafting
<1>8. CASE i \in Table(db, "aijob") /\ Opens(r, d, Rest(r), u)
  BY <1>2, <1>5, <1>6, <1>8, <1>9, ArrivesIs, StatusDrafting
<1> QED
  BY <1>3, <1>7, <1>8

\* What a request's own suggestion job drafts is for the job's scope, of which the job bears it out.
LEMMA DraftedDrafts ==
  ASSUME Stored, Explained(db), NEW r, NEW i \in Table(db, "aijob"), i[1] = r, db[i].status \in Blocking,
         NEW e, DraftedOn(i, e)
  PROVE  OwnDrafts(r, e) /\ Explained(e)
<1>1. /\ DOMAIN db \subseteq DOMAIN e /\ \A j \in DOMAIN db : e[j] = db[j]
      /\ i \in DOMAIN db /\ Bears(db[i]) /\ Maker(i, db[i]) = r
  BY DEF DraftedOn, Table, Bears, Maker
<1>2. ASSUME NEW j \in DOMAIN e \ DOMAIN db
      PROVE  e[j].kind = "strategy" /\ e[j].by[1] = r /\ Maker(j, e[j]) = r /\ ScopeOf(e[j]) = ScopeOf(db[i])
  <2>1. e[j].kind = "strategy" /\ e[j].by = i /\ e[j].client = db[i].client /\ e[j].portfolio = db[i].portfolio
    BY <1>2 DEF DraftedOn
  <2> QED
    BY <2>1 DEF Maker, ScopeOf
<1>3. OwnDrafts(r, e)
  BY <1>1, <1>2 DEF OwnDrafts, New
<1>4. ASSUME NEW j \in DOMAIN e \ DOMAIN db, NEW k \in DOMAIN db, Bears(db[k]), ScopeOf(e[j]) = ScopeOf(db[k])
      PROVE  Rightful(j, e[j], k, e[k]) /\ Rightful(k, e[k], j, e[j])
  <2>1. Rightful(i, db[i], k, db[k])
    BY <1>1, <1>2, <1>4 DEF Explained
  <2>2. Rightful(j, e[j], k, e[k])
    BY <1>1, <1>2, <1>4, <2>1 DEF Rightful
  <2> QED
    BY <2>2, RightfulSym
<1>5. ASSUME NEW j \in DOMAIN e, NEW k \in DOMAIN e, Bears(e[j]), Bears(e[k]), ScopeOf(e[j]) = ScopeOf(e[k])
      PROVE  Rightful(j, e[j], k, e[k])
  <2>1. CASE j \in DOMAIN db /\ k \in DOMAIN db
    BY <1>1, <1>5, <2>1 DEF Explained
  <2>2. CASE j \notin DOMAIN db /\ k \in DOMAIN db
    BY <1>1, <1>4, <1>5, <2>2
  <2>3. CASE j \in DOMAIN db /\ k \notin DOMAIN db
    BY <1>1, <1>4, <1>5, <2>3
  <2>4. CASE j \notin DOMAIN db /\ k \notin DOMAIN db
    BY <1>2, <1>5, <2>4 DEF Rightful
  <2> QED
    BY <2>1, <2>2, <2>3, <2>4
<1> QED
  BY <1>3, <1>5 DEF Explained

\* and before that its drafts are saved.
LEMMA SuggestDrafting ==
  ASSUME NEW r, Arrives(r), Suggest(r)
  PROVE  Drafting(r)
<1>1. PICK i : i = Op(r).id
  OBVIOUS
<1>2. PICK segments : segments = DOMAIN BuildSegments(FacesIn(db, ScopeOf(db[i])))
  OBVIOUS
<1> DEFINE finish(status) == Finishing(i, status) \o Rest(r)
<1>3. IsFiniteSet(segments)
  <2>1. PICK faces : faces = FacesIn(db, ScopeOf(db[i]))
    OBVIOUS
  <2>2. DOMAIN faces \in SUBSET DOMAIN db
    BY <2>1 DEF FacesIn, Table
  <2>3. IsFiniteSet(DOMAIN faces)
    BY <2>2, FS_Subset, ArrivesIs, Zenon DEF Stored
  <2> QED
    BY <1>2, <2>1, <2>3, SegmentsFinite
<1>4. Op(r).do = "suggest" /\ Coming(db, r, Op(r)) /\ Stored /\ Explained(db) /\ Begun(r)
  BY ArrivesIs DEF Suggest, Next1, Op
<1>5. i[1] = r /\ (i \in Table(db, "aijob") => db[i].status \in Blocking)
  BY <1>1, <1>4 DEF Coming, Background
<1>6. \A status, d : Ready(d, r, finish(status))
  BY <1>5, FinishingReady
<1> HIDE DEF finish
<1>7. \/ GoesOn(r, Rest(r))
      \/ GoesOn(r, finish("failed"))
      \/ \E answers \in [segments -> story.answers], status \in {"done", "failed"} :
           Suggested(answers) /\ i \in Table(db, "aijob") /\ Opens(r, Drafts(db, r, i, Workflows(answers)), finish(status), finish("failed"))
  BY <1>1, <1>2 DEF Suggest, finish
<1>8. ASSUME NEW answers \in [segments -> story.answers], NEW status \in {"done", "failed"}, i \in Table(db, "aijob"), Suggested(answers),
             Opens(r, Drafts(db, r, i, Workflows(answers)), finish(status), finish("failed"))
      PROVE  Drafting(r)
  <2>1. DOMAIN Workflows(answers) = segments
    BY DEF Workflows
  <2>2. PICK e : e = Drafts(db, r, i, Workflows(answers))
    OBVIOUS
  <2>9. story \in Stories
    BY <1>4 DEF Begun
  <2>10. \A s \in DOMAIN Workflows(answers) : Takes("strategy", "flow", Workflows(answers)[s])
    BY <1>8, <2>9, WorkflowsTaken
  <2>3. Session(r, e, DraftKinds) /\ DraftedOn(i, e)
    BY <1>3, <1>4, <2>1, <2>2, <2>10, DraftsFitTheSession
  <2>4. OwnDrafts(r, e) /\ Explained(e)
    BY <1>4, <1>5, <1>8, <2>3, DraftedDrafts
  <2>5. PICK t, u : t = finish(status) /\ u = finish("failed")
    OBVIOUS
  <2>6. Ready(e, r, t) /\ Ready(db, r, u)
    BY <1>6, <2>5
  <2>7. DraftKinds \subseteq Kinds
    BY DEF DraftKinds, Kinds, BookKinds
  <2>8. Opens(r, e, t, u)
    BY <1>8, <2>2, <2>5
  <2> QED
    BY <2>3, <2>4, <2>6, <2>7, <2>8, OpensDrafting
<1>9. CASE GoesOn(r, Rest(r))
  BY <1>9, ArrivesIs, OnDrafting
<1>10. CASE GoesOn(r, finish("failed"))
  BY <1>6, <1>10, OnDrafting
<1> QED
  BY <1>7, <1>8, <1>9, <1>10

\* An import enqueues jobs for the portfolios that it touched.
LEMMA ImportDrafting ==
  ASSUME NEW r, Arrives(r), Import(r)
  PROVE  Drafting(r)
<1>1. PICK o : o = Op(r)
  OBVIOUS
<1>2. PICK acc : acc = AccountsTaken(db, r, o.run, o.file.rows)
  OBVIOUS
<1>3. PICK d : d = Summed(acc.d, o.run, acc.n)
  OBVIOUS
<1>4. PICK e : e = IF d[o.run].status = "failed" THEN d ELSE Enqueued(d, r, acc.touched)
  OBVIOUS
<1>5. GoesOn(r, Failing(o.id)) \/ Opens(r, e, Closing(o, o.run) \o (Processing(db, e) \o Rest(r)), Failing(o.id))
  BY <1>1, <1>2, <1>3, <1>4 DEF Import, AllRows
<1>6. Stored /\ r \in Requests /\ Begun(r) /\ Asked(o) /\ o.do = "import"
  BY <1>1, ArrivesIs DEF Import, Next1, Op
<1>7. TakenSoFar(r, o.run, acc)
  <2>1. Len(o.file.rows) \in Nat /\ Classed(o.file.rows)
    BY <1>6 DEF Asked, WithFile, HasAccounts
  <2> QED
    BY <1>2, <1>6, <2>1, AccountsTakenReads
<1>8. PICK K : K = TakenKinds \cup {"run"}
  OBVIOUS
<1>9. Session(r, d, K) /\ Still(d)
  <2>1. TakenKinds \subseteq K /\ "run" \in K /\ K \cap DraftKinds = {}
    BY <1>8 DEF TakenKinds, DraftKinds
  <2>2. Session(r, acc.d, K)
    BY <1>7, <2>1, SessionWidens DEF TakenSoFar
  <2>3. Session(r, d, K)
    BY <1>3, <1>6, <2>1, <2>2, SummedFits
  <2> QED
    BY <2>1, <2>3, AsideStill
<1>10. Session(r, d, ImportKinds) /\ "aijob" \in ImportKinds /\ ImportKinds \subseteq Kinds
  <2>1. K \subseteq ImportKinds /\ "aijob" \in ImportKinds /\ ImportKinds \subseteq Kinds
    BY <1>8 DEF ImportKinds, TakenKinds, Kinds, BookKinds
  <2> QED
    BY <1>9, <2>1, SessionWidens
<1>11. Session(r, e, ImportKinds) /\ (e = d \/ (QueuedOn(d, e) /\ QueuedBy(d, e, r)))
  <2>1. IsFiniteSet(acc.touched)
    BY <1>7 DEF TakenSoFar
  <2>2. PICK f : f = Enqueued(d, r, acc.touched)
    OBVIOUS
  <2>3. Session(r, f, ImportKinds) /\ QueuedOn(d, f) /\ QueuedBy(d, f, r)
    BY <1>6, <1>10, <2>1, <2>2, EnqueuedFits
  <2> QED
    BY <1>4, <1>10, <2>2, <2>3
<1>12. PICK t : t = Processing(db, e) \o Rest(r)
  OBVIOUS
<1>13. Program(t)
  <2>1. IsFiniteSet(DOMAIN e)
    BY <1>6, <1>11, SessionFinite
  <2>2. Follows(r, Rest(r))
    BY <1>6, RestFollows DEF Begun
  <2>3. Op(r).do \in Leading
    BY DEF Import, Next1, Op, Leading
  <2> QED
    BY <1>12, <2>1, <2>2, <2>3, ProcessingFollows DEF Follows
<1>14. OwnDrafts(r, e) /\ Explained(e) /\ Mine(r, t)
  BY <1>9, <1>10, <1>11, <1>12, <1>13, EnqueuedDrafts
<1>15. PICK c : c = [do |-> "close", id |-> o.id, run |-> o.run]
  OBVIOUS
<1>16. PICK g : g = [do |-> "fail", id |-> o.id]
  OBVIOUS
<1>17. \A f : Coming(f, r, c) /\ Coming(f, r, g)
  <2>1. c.do = "close" /\ g.do = "fail"
    BY <1>15, <1>16
  <2> QED
    BY <2>1 DEF Coming, Background
<1>18. PICK u : u = <<c>> \o t
  OBVIOUS
<1>19. Ready(e, r, u)
  BY <1>13, <1>14, <1>17, <1>18, ComingReady
<1>20. PICK v : v = <<g>>
  OBVIOUS
<1>21. Ready(db, r, v)
  <2>1. v # <<>> /\ Head(v) = g /\ Tail(v) = <<>>
    BY <1>20
  <2>2. Mine(r, <<>>)
    BY DEF Mine
  <2> QED
    BY <1>17, <2>1, <2>2 DEF Ready
<1>22. Failing(o.id) = v /\ Closing(o, o.run) \o t = u
  BY <1>15, <1>16, <1>18, <1>20 DEF Failing, Closing
<1>23. CASE GoesOn(r, Failing(o.id))
  BY <1>21, <1>22, <1>23, OnDrafting
<1>24. CASE Opens(r, e, Closing(o, o.run) \o (Processing(db, e) \o Rest(r)), Failing(o.id))
  <2>1. Opens(r, e, u, v)
    BY <1>12, <1>22, <1>24
  <2> QED
    BY <1>10, <1>11, <1>14, <1>19, <1>21, <2>1, OpensDrafting
<1> QED
  BY <1>5, <1>23, <1>24

\* The other requests make no drafts: those on clients and portfolios,
LEMMA BookDrafting ==
  ASSUME NEW r, Arrives(r), BookStep(r)
  PROVE  Drafting(r)
<1>1. Op(r).do \notin Leading
  BY DEF Leading, Background, BookStep, SaveClient, SavePortfolio, EditClient, EditPortfolio, ActivateClient,
     DeletePortfolio, DeleteClient, Next1, Op
<1>2. NameKinds \subseteq Kinds /\ NameKinds \cap DraftKinds = {}
  BY DEF NameKinds, DraftKinds, Kinds, BookKinds
<1>3. CASE ProceedsLawfully(r, NameKinds)
  <2>1. Proceeds(r, NameKinds)
    BY <1>3, ProceedsEither
  <2> QED
    BY <1>1, <1>2, <2>1, AsideDrafting
<1>4. CASE ProceedsNarrowly(r)
  BY <1>1, <1>4, NarrowDrafting
<1>5. Begun(r)
  BY ArrivesIs
<1> QED
  BY <1>3, <1>4, <1>5, BookStepProceeds

\* the other steps of an upload,
LEMMA FileDrafting ==
  ASSUME NEW r, Arrives(r), \/ Upload(r) \/ Claim(r) \/ PreviewFile(r) \/ Begin(r) \/ Link(r)
                            \/ ImportClients(r) \/ Close(r) \/ Fail(r) \/ Engage(r)
  PROVE  Drafting(r)
<1>1. Op(r).do \notin Leading
  BY DEF Leading, Background, Upload, Claim, PreviewFile, Begin, Link, ImportClients, Close, Fail, Engage, Next1, Op
<1>2. Begun(r)
  BY ArrivesIs
<1>3. /\ JobKinds \subseteq Kinds /\ JobKinds \cap DraftKinds = {}
      /\ NameKinds \cup {"run"} \subseteq Kinds /\ (NameKinds \cup {"run"}) \cap DraftKinds = {}
      /\ {"work"} \subseteq Kinds /\ {"work"} \cap DraftKinds = {}
  BY DEF JobKinds, NameKinds, DraftKinds, Kinds, BookKinds
<1>4. Proceeds(r, JobKinds) \/ ProceedsLawfully(r, NameKinds \cup {"run"}) \/ Proceeds(r, {"work"})
  BY <1>2, UploadProceeds, ClaimProceeds, PreviewFileProceeds, BeginProceeds, LinkProceeds, ImportClientsProceeds,
     CloseProceeds, FailProceeds, EngageProceeds, Zenon
<1>5. Proceeds(r, JobKinds) \/ Proceeds(r, NameKinds \cup {"run"}) \/ Proceeds(r, {"work"})
  BY <1>4, ProceedsEither
<1> QED
  BY <1>1, <1>3, <1>5, AsideDrafting

\* and those on users, roles and products.
LEMMA AccessDrafting ==
  ASSUME NEW r, Arrives(r), AccessStep(r), Advances(r)
  PROVE  Drafting(r)
<1>1. Op(r).do \notin Leading
  BY DEF Leading, Background, AccessStep, Login, Refresh, Logout, Expired, Invite, ForgotPassword, ActivateAccount,
     ResetPassword, ChangePassword, CreateUser, ChangeRole, ResendInvitation, DeactivateUser, ReactivateUser,
     DeleteUser, CreateRole, UpdateRole, DeleteRole, SavePerson, EditPerson, AssignProduct, RemoveProduct,
     SaveOrganization, Entitle, SaveProduct, DeleteProduct, Next1, Op
<1>2. ASSUME OfBook(r) PROVE Drafting(r)
  <2>1. CASE BookStep(r)
    BY <2>1, BookDrafting
  <2>2. CASE IntakeStep(r)
    <3>1. ~Enqueue(r) /\ ~EnqueueForClient(r) /\ ~RequeueMissing(r) /\ ~ClaimSuggestion(r) /\ ~EvaluateGates(r)
          /\ ~Suggest(r) /\ ~FinishSuggestion(r) /\ ~Import(r)
      BY <1>1 DEF Leading, Background, Enqueue, EnqueueForClient, RequeueMissing, ClaimSuggestion, EvaluateGates,
         Suggest, FinishSuggestion, Import, Next1, Op
    <3> QED
      BY <2>2, <3>1, FileDrafting, Zenon DEF IntakeStep
  <2> QED
    BY <1>2, <2>1, <2>2 DEF OfBook
<1>3. ASSUME NEW d, NEW then, NEW else, Session(r, d, AccessKinds), Follows(r, then), Follows(r, else),
             Opens(r, d, then, else)
      PROVE  Drafting(r)
  <2>1. AccessKinds \subseteq Kinds /\ AccessKinds \cap DraftKinds = {}
    BY DEF AccessKinds, DraftKinds, Kinds
  <2>2. Still(d)
    BY <1>3, <2>1, AsideStill
  <2> QED
    BY <1>1, <1>3, <2>1, <2>2, StillDrafting
<1>4. ASSUME NEW t, Follows(r, t), GoesOn(r, t) PROVE Drafting(r)
  BY <1>1, <1>4, FollowsDrafting
<1> QED
  BY <1>2, <1>3, <1>4, Zenon DEF Advances

\* Every step of a request.
LEMMA StepDrafting ==
  ASSUME NEW r, Arrives(r), BookStep(r) \/ IntakeStep(r) \/ AccessStep(r), Advances(r)
  PROVE  Drafting(r)
<1>1. CASE BookStep(r)
  BY <1>1, BookDrafting
<1>2. CASE AccessStep(r)
  BY <1>2, AccessDrafting
<1>3. CASE IntakeStep(r)
  <2>1. Begun(r)
    BY ArrivesIs
  <2>2. CASE Enqueue(r) \/ EnqueueForClient(r) \/ RequeueMissing(r)
    <3>1. Enqueueing(r)
      BY <2>1, <2>2, EnqueueIs, EnqueueForClientIs, RequeueMissingIs
    <3> QED
      BY <3>1, EnqueuesDrafting
  <2>3. CASE ~(Enqueue(r) \/ EnqueueForClient(r) \/ RequeueMissing(r))
    BY <1>3, <2>3, ClaimSuggestionDrafting, EvaluateGatesDrafting, SuggestDrafting, FinishSuggestionDrafting,
       ImportDrafting, FileDrafting, Zenon DEF IntakeStep
  <2> QED
    BY <2>2, <2>3
<1> QED
  BY <1>1, <1>2, <1>3

\* Each of the two keeps the drafts explained.
LEMMA DraftingDrafts ==
  ASSUME Inv, DraftsInv, NEW r \in Requests, Idle(r), Drafting(r)
  PROVE  DraftsInv'
<1>1. ASSUME NEW t, Ready(db, r, t), GoesOn(r, t) PROVE DraftsInv'
  BY <1>1, GoesOnDrafts
<1>2. ASSUME NEW d, NEW then, NEW else, Session(r, d, Kinds), OwnDrafts(r, d), Explained(d), Ready(d, r, then),
             Ready(db, r, else), Opens(r, d, then, else)
      PROVE  DraftsInv'
  BY <1>2, OpensDrafts
<1> QED
  BY <1>1, <1>2, Zenon DEF Drafting

\* Every step does.
LEMMA NextDrafts ==
  ASSUME Inv, Inv', DraftsInv, [Next]_vars
  PROVE  DraftsInv'
<1>1. CASE UNCHANGED vars
  <2>1. db' = db /\ todo' = todo /\ plan' = plan /\ met' = met
    BY <1>1 DEF vars
  <2>2. Explained(db)'
    BY <2>1, ExplainedStays DEF DraftsInv
  <2>3. \A q \in DOMAIN plan' : DraftsOf(q)'
    BY <2>1, DraftsOfStays DEF DraftsInv
  <2> QED
    BY <2>1, <2>2, <2>3 DEF DraftsInv
<1>2. CASE Die
  BY <1>2, DieDrafts
<1>3. ASSUME NEW r \in Requests, BookStep(r) \/ IntakeStep(r) \/ AccessStep(r) PROVE DraftsInv'
  <2>1. Idle(r) /\ Begun(r) /\ Advances(r)
    BY <1>3, BegunIs
  <2>2. Arrives(r)
    BY <1>3, <2>1 DEF Arrives, DraftsInv
  <2>3. Drafting(r)
    BY <1>3, <2>1, <2>2, StepDrafting
  <2> QED
    BY <1>3, <2>1, <2>3, DraftingDrafts
<1>4. ASSUME NEW r \in Requests, Ends(r) PROVE DraftsInv'
  <2>1. r \in DOMAIN plan
    BY <1>4 DEF Ends, Commit, Refused
  <2> QED
    BY <1>4, <2>1, CommitDrafts
<1> QED
  BY <1>1, <1>2, <1>3, <1>4 DEF Next, Ends

(* Drafts and pending suggestion jobs of one scope come from one request,  *)
(* or from two whose transactions were open at once, in the tables and in  *)
(* what an open transaction is going to leave of them (the idempotency     *)
(* test of enqueue_ai_suggestion_job, and the drafts a job then makes).    *)
THEOREM DraftsStayRightful == Spec => []DraftsInv
<1>1. Init => DraftsInv
  BY InitDrafts
<1>2. Inv /\ Inv' /\ DraftsInv /\ [Next]_vars => DraftsInv'
  BY NextDrafts
<1> QED
  BY <1>1, <1>2, Inductive, PTL DEF Spec

(* A number that is there twice, and drafts of a scope from two requests,  *)
(* are there only because transactions overlapped (_assert_master_not_sub, *)
(* _assert_sub_identity, enqueue_ai_suggestion_job: tests of what is       *)
(* committed, which no lock and no constraint backs).                      *)
THEOREM NoUnexplainedDuplicates == Spec => []DuplicatesExplained
<1>1. NumbersInv /\ DraftsInv => DuplicatesExplained
  <2> SUFFICES ASSUME NumbersInv, DraftsInv, NEW x \in Table(db, "strategy"), NEW y \in Table(db, "strategy"),
                      db[x].ai, db[y].ai, ScopeOf(db[x]) = ScopeOf(db[y])
               PROVE  Overlapped(db[x].by, db[y].by)
    BY DEF DuplicatesExplained, NumbersInv
  <2>1. Bears(db[x]) /\ Bears(db[y]) /\ x \in DOMAIN db /\ y \in DOMAIN db
        /\ Maker(x, db[x]) = db[x].by[1] /\ Maker(y, db[y]) = db[y].by[1]
    BY DEF Bears, Table, Maker
  <2>2. Rightful(x, db[x], y, db[y])
    BY <2>1 DEF DraftsInv, Explained
  <2> QED
    BY <2>1, <2>2 DEF Rightful, Overlapped
<1> QED
  BY <1>1, NumbersStayUnique, DraftsStayRightful, PTL

(***************************************************************************)
(* What the checks of a flow rule out (validator.py).                      *)
(***************************************************************************)
\* r tells where a search finds B: at once, or from where a step leads.
Finds(X, B, to, r) ==
  r \in [X -> BOOLEAN] /\ \A x \in X : r[x] <=> x \in B \/ \E y \in to[x] : r[y]

\* There is one: it marks what every set closed under the search must contain.
LEMMA Searched ==
  ASSUME NEW X, NEW B, NEW to, \A x \in X : to[x] \in SUBSET X
  PROVE  \E r : Finds(X, B, to, r)
<1> DEFINE Closed(S) == \A x \in X : x \in B \/ (\E y \in to[x] : y \in S) => x \in S
           L == {x \in X : \A S \in SUBSET X : Closed(S) => x \in S}
           M == {x \in X : x \in B \/ \E y \in to[x] : y \in L}
           r == [x \in X |-> x \in L]
<1>1. L \subseteq X /\ Closed(L)
  OBVIOUS
<1>2. M \subseteq L
  BY <1>1
<1>3. Closed(M)
  BY <1>2
<1>4. L \subseteq M
  BY <1>3
<1> HIDE DEF L
<1>5. r \in [X -> BOOLEAN]
  OBVIOUS
<1>6. \A x \in X : r[x] <=> x \in L
  OBVIOUS
<1> HIDE DEF r
<1>7. \A x \in X : r[x] <=> x \in B \/ \E y \in to[x] : r[y]
  BY <1>1, <1>2, <1>4, <1>6
<1> QED
  BY <1>5, <1>7 DEF Finds

\* A way of length n through the steps from entry.
WayOf(steps, entry, n, p) ==
  /\ n \in Nat \ {0} /\ p \in [1 .. n -> DOMAIN steps] /\ p[1] = entry
  /\ \A k \in 1 .. n - 1 : p[k + 1] \in Links(steps[p[k]])

\* What HasLoop finds from a step on, after the steps of a path.
Revisits(steps, r) ==
  \A x \in [id : DOMAIN steps, path : SUBSET DOMAIN steps] :
    r[x] <=> \/ x.id \in x.path
             \/ \E t \in Links(steps[x.id]) \cap DOMAIN steps :
                  r[[id |-> t, path |-> x.path \cup {x.id}]]

\* HasLoop is such a search: the visits of one way, and the steps on it.
LEMMA LoopSearched ==
  ASSUME NEW steps, NEW entry
  PROVE  \E r : Revisits(steps, r) /\ (HasLoop(steps, entry) <=> r[[id |-> entry, path |-> {}]])
<1> DEFINE X == [id : DOMAIN steps, path : SUBSET DOMAIN steps]
           Obeys(h) == h = [x \in X |->
             \/ x.id \in x.path
             \/ \E t \in Links(steps[x.id]) \cap DOMAIN steps :
                  h[[id |-> t, path |-> x.path \cup {x.id}]]]
           f == CHOOSE h : Obeys(h)
<1>1. HasLoop(steps, entry) = f[[id |-> entry, path |-> {}]]
  BY DEF HasLoop
<1>2. \E h : Obeys(h)
  <2> DEFINE On(x) == {[id |-> t, path |-> x.path \cup {x.id}] : t \in Links(steps[x.id]) \cap DOMAIN steps}
  <2>1. PICK B : B = {x \in X : x.id \in x.path}
    OBVIOUS
  <2>2. PICK to : to = [x \in X |-> On(x)]
    OBVIOUS
  <2>3. \A x \in X : to[x] = On(x) /\ On(x) \in SUBSET X
    BY <2>2
  <2>4. PICK r : Finds(X, B, to, r)
    <3>1. \A x \in X : to[x] \in SUBSET X
      BY <2>3
    <3> HIDE DEF X
    <3> QED
      BY <3>1, Searched
  <2>5. ASSUME NEW x \in X
        PROVE  r[x] <=> \/ x.id \in x.path
                        \/ \E t \in Links(steps[x.id]) \cap DOMAIN steps :
                             r[[id |-> t, path |-> x.path \cup {x.id}]]
    <3>1. r[x] <=> x \in B \/ \E y \in On(x) : r[y]
      BY <2>3, <2>4 DEF Finds
    <3> QED
      BY <2>1, <3>1
  <2>6. Obeys(r)
    BY <2>4, <2>5 DEF Finds
  <2> QED
    BY <2>6
<1>3. Obeys(f)
  BY <1>2
<1> HIDE DEF f
<1>4. Revisits(steps, f)
  BY <1>3 DEF Revisits
<1> QED
  BY <1>1, <1>4

\* No way through a flow without a loop comes to a step twice.
LEMMA NoReturn ==
  ASSUME NEW steps, NEW entry, ~HasLoop(steps, entry), NEW n, NEW p, WayOf(steps, entry, n, p)
  PROVE  \A j, k \in 1 .. n : p[j] = p[k] => j = k
<1>1. PICK r : Revisits(steps, r) /\ ~r[[id |-> entry, path |-> {}]]
  BY LoopSearched
<1> DEFINE Before(k) == {p[j] : j \in 1 .. k - 1}
           At(k) == [id |-> p[k], path |-> Before(k)]
           S == {k \in Nat : k + 1 <= n => ~r[At(k + 1)]}
<1>2. n \in Nat \ {0} /\ p[1] = entry /\ \A k \in 1 .. n : p[k] \in DOMAIN steps /\ Before(k) \in SUBSET DOMAIN steps
  BY DEF WayOf
<1>3. 0 \in S
  <2>1. Before(1) = {}
    OBVIOUS
  <2> QED
    BY <1>1, <1>2, <2>1
<1>4. ASSUME NEW k \in 1 .. n, ~r[At(k)]
      PROVE  p[k] \notin Before(k) /\ \A t \in Links(steps[p[k]]) \cap DOMAIN steps : ~r[[id |-> t, path |-> Before(k) \cup {p[k]}]]
  BY <1>1, <1>2, <1>4 DEF Revisits
<1>5. ASSUME NEW k \in Nat, k \in S PROVE k + 1 \in S
  <2>1. CASE k + 2 <= n
    <3>1. k + 1 \in 1 .. n /\ k + 1 \in 1 .. n - 1 /\ k + 2 \in 1 .. n /\ ~r[At(k + 1)]
      BY <1>2, <1>5, <2>1
    <3>2. p[k + 2] \in Links(steps[p[k + 1]]) \cap DOMAIN steps
      BY <3>1 DEF WayOf
    <3>3. Before(k + 2) = Before(k + 1) \cup {p[k + 1]}
      <4>1. 1 .. k + 2 - 1 = (1 .. k + 1 - 1) \cup {k + 1}
        OBVIOUS
      <4> QED
        BY <4>1
    <3>4. ~r[[id |-> p[k + 2], path |-> Before(k + 1) \cup {p[k + 1]}]]
      BY <1>4, <3>1, <3>2
    <3>5. (k + 1) + 1 = k + 2
      OBVIOUS
    <3> QED
      BY <3>3, <3>4, <3>5
  <2>2. CASE ~(k + 2 <= n)
    BY <2>2
  <2> QED
    BY <2>1, <2>2
<1> HIDE DEF S
<1>6. Nat \subseteq S
  BY <1>3, <1>5, SetInduction
<1>7. ASSUME NEW k \in 1 .. n PROVE p[k] \notin Before(k)
  <2>1. k - 1 \in Nat /\ (k - 1) + 1 = k /\ k <= n
    BY <1>2
  <2>2. ~r[At(k)]
    BY <1>6, <2>1 DEF S
  <2> QED
    BY <1>4, <2>2
<1>8. ASSUME NEW j \in 1 .. n, NEW k \in 1 .. n, j < k PROVE p[j] # p[k]
  <2>1. j \in 1 .. k - 1
    BY <1>2, <1>8
  <2> QED
    BY <1>7, <2>1
<1> QED
  BY <1>2, <1>8

\* The messages a way sends in its first n steps.
Sends(steps, n, p) == {k \in 1 .. n : steps[p[k]].kind = "Communication"}

\* The day on which each step of a way falls.
Days(steps, n, p, day) ==
  /\ day \in [0 .. n -> Nat] /\ day[0] = 0
  /\ \A k \in 1 .. n : day[k] = day[k - 1] + steps[p[k]].days

\* Later steps come no earlier.
LEMMA DaysGoOn ==
  ASSUME NEW steps, \A id \in DOMAIN steps : steps[id].days \in Nat,
         NEW entry, NEW n, NEW p, WayOf(steps, entry, n, p), NEW day, Days(steps, n, p, day)
  PROVE  \A i, j \in 1 .. n : i <= j => day[i] <= day[j]
<1> SUFFICES ASSUME NEW i \in 1 .. n PROVE \A j \in 1 .. n : i <= j => day[i] <= day[j]
  OBVIOUS
<1> DEFINE S == {k \in Nat : i + k <= n => day[i] <= day[i + k]}
<1>1. n \in Nat /\ \A k \in 1 .. n : p[k] \in DOMAIN steps
  BY DEF WayOf
<1>2. \A k \in 0 .. n : day[k] \in Nat
  BY DEF Days
<1>3. 0 \in S
  BY <1>1, <1>2
<1>4. ASSUME NEW k \in Nat, k \in S PROVE k + 1 \in S
  <2>1. CASE i + k + 1 <= n
    <3>1. i + k \in 0 .. n /\ i + k + 1 \in 1 .. n /\ (i + k + 1) - 1 = i + k
      BY <1>1, <2>1
    <3>2. day[i + k + 1] = day[i + k] + steps[p[i + k + 1]].days
      BY <3>1 DEF Days
    <3>3. steps[p[i + k + 1]].days \in Nat /\ day[i + k] \in Nat /\ day[i] \in Nat /\ day[i] <= day[i + k]
      BY <1>1, <1>2, <1>4, <3>1
    <3>4. i + (k + 1) = i + k + 1 /\ day[i] <= day[i + k + 1]
      BY <3>2, <3>3
    <3> QED
      BY <3>4
  <2>2. CASE ~(i + k + 1 <= n)
    BY <1>1, <2>2
  <2> QED
    BY <2>1, <2>2
<1> HIDE DEF S
<1>5. Nat \subseteq S
  BY <1>3, <1>4, SetInduction
<1>6. ASSUME NEW j \in 1 .. n, i <= j PROVE day[i] <= day[j]
  <2>1. j - i \in Nat /\ i + (j - i) = j
    BY <1>6
  <2> QED
    BY <1>1, <1>5, <2>1 DEF S
<1> QED
  BY <1>6

(* What Crowded finds at a step that is reached on a day with messages sent.*)
Reached(f) == [id : DOMAIN f.steps, day : Nat, sent : Seq(Nat)]
Today(f, x) == x.day + f.steps[x.id].days
Now(f, x) == IF f.steps[x.id].kind = "Communication" THEN Append(x.sent, Today(f, x)) ELSE x.sent
Week(f, x) == {i \in DOMAIN Now(f, x) : Today(f, x) - Now(f, x)[i] < 7}
Full(f, x) == f.steps[x.id].kind = "Communication" /\ Cardinality(Week(f, x)) > Limits.weekly
Onward(f, x, t) == [id |-> t, day |-> Today(f, x), sent |-> Now(f, x)]
FindsCrowd(f, r) ==
  \A x \in Reached(f) : r[x] <=> Full(f, x) \/ \E t \in Links(f.steps[x.id]) : r[Onward(f, x, t)]

\* A flow as it is when its limits are looked at.
Linked(f) ==
  \A id \in DOMAIN f.steps : f.steps[id].days \in Nat /\ Links(f.steps[id]) \subseteq DOMAIN f.steps

\* What the search comes to next is a state of it.
LEMMA OnwardReached ==
  ASSUME NEW f, Linked(f), NEW x \in Reached(f), NEW t \in Links(f.steps[x.id])
  PROVE  Onward(f, x, t) \in Reached(f)
<1>1. x.id \in DOMAIN f.steps /\ x.day \in Nat /\ x.sent \in Seq(Nat)
  BY DEF Reached
<1>2. t \in DOMAIN f.steps /\ Today(f, x) \in Nat
  BY <1>1 DEF Linked, Today
<1>3. Now(f, x) \in Seq(Nat)
  BY <1>1, <1>2 DEF Now
<1> QED
  BY <1>2, <1>3 DEF Onward, Reached

\* Crowded is such a search: a step, its day, and the days of what was sent before.
LEMMA CrowdSearched ==
  ASSUME NEW f, Linked(f)
  PROVE  \E r : FindsCrowd(f, r) /\ (Crowded(f) <=> r[[id |-> f.entry, day |-> 0, sent |-> <<>>]])
<1> DEFINE Obeys(h) == h = [x \in [id : DOMAIN f.steps, day : Nat, sent : Seq(Nat)] |->
        LET s == f.steps[x.id]
            today == x.day + s.days
            now == IF s.kind = "Communication" THEN Append(x.sent, today) ELSE x.sent
        IN \/ s.kind = "Communication"
              /\ Cardinality({i \in DOMAIN now : today - now[i] < 7}) > Limits.weekly
           \/ \E t \in Links(s) : h[[id |-> t, day |-> today, sent |-> now]]]
           g == CHOOSE h : Obeys(h)
<1>1. Crowded(f) = g[[id |-> f.entry, day |-> 0, sent |-> <<>>]]
  BY DEF Crowded
<1>2. \A h : Obeys(h) <=> h = [x \in Reached(f) |-> Full(f, x) \/ \E t \in Links(f.steps[x.id]) : h[Onward(f, x, t)]]
  BY DEF Reached, Full, Onward, Week, Now, Today
<1>3. \E h : Obeys(h)
  <2>1. PICK B : B = {x \in Reached(f) : Full(f, x)}
    OBVIOUS
  <2>2. PICK to : to = [x \in Reached(f) |-> {Onward(f, x, t) : t \in Links(f.steps[x.id])}]
    OBVIOUS
  <2>3. \A x \in Reached(f) : to[x] \in SUBSET Reached(f)
    BY <2>2, OnwardReached
  <2>4. PICK r : Finds(Reached(f), B, to, r)
    BY <2>3, Searched
  <2>5. ASSUME NEW x \in Reached(f)
        PROVE  r[x] <=> Full(f, x) \/ \E t \in Links(f.steps[x.id]) : r[Onward(f, x, t)]
    <3>1. r[x] <=> x \in B \/ \E y \in to[x] : r[y]
      BY <2>4 DEF Finds
    <3> QED
      BY <2>1, <2>2, <3>1
  <2>6. r \in [Reached(f) -> BOOLEAN]
    BY <2>4 DEF Finds
  <2>7. r = [x \in Reached(f) |-> Full(f, x) \/ \E t \in Links(f.steps[x.id]) : r[Onward(f, x, t)]]
    BY <2>5, <2>6
  <2> HIDE DEF Obeys
  <2> QED
    BY <1>2, <2>7
<1>4. Obeys(g)
  BY <1>3
<1> HIDE DEF g, Obeys
<1>5. g = [x \in Reached(f) |-> Full(f, x) \/ \E t \in Links(f.steps[x.id]) : g[Onward(f, x, t)]]
  BY <1>2, <1>4
<1>6. FindsCrowd(f, g)
  BY <1>5 DEF FindsCrowd
<1> QED
  BY <1>1, <1>6

\* A sequence has finitely many places.
LEMMA FinitelyLong ==
  ASSUME NEW A, NEW s \in Seq(A)
  PROVE  IsFiniteSet(DOMAIN s)
<1>1. DOMAIN s = 1 .. Len(s) /\ Len(s) \in Nat
  OBVIOUS
<1> QED
  BY <1>1, FS_Interval

(* What is known of a way after k of its steps: the days of the messages   *)
(* sent, of which e tells the places, and what lies ahead.                 *)
Counted(f, n, p, day, r, k, sent, e) ==
  LET done == Sends(f.steps, n, p) \cap 1 .. k IN
  /\ sent \in Seq(Nat) /\ e \in [done -> DOMAIN sent]
  /\ \A i, j \in done : e[i] = e[j] => i = j
  /\ \A j \in done : sent[e[j]] = day[j]
  /\ k \in done => Cardinality({i \in DOMAIN sent : day[k] - sent[i] < 7}) <= Limits.weekly
  /\ k + 1 <= n => ~r[[id |-> p[k + 1], day |-> day[k], sent |-> sent]]

\* A step on: the sent days grow by the day of what is sent.
LEMMA CountsOn ==
  ASSUME NEW f, Linked(f), NEW r, FindsCrowd(f, r), NEW n, NEW p, WayOf(f.steps, f.entry, n, p),
         NEW day, Days(f.steps, n, p, day), NEW k \in Nat, k + 1 <= n, NEW sent, NEW e,
         Counted(f, n, p, day, r, k, sent, e)
  PROVE  \E s, g : Counted(f, n, p, day, r, k + 1, s, g)
<1> DEFINE x == [id |-> p[k + 1], day |-> day[k], sent |-> sent]
           K == k + 1
           done(m) == Sends(f.steps, n, p) \cap 1 .. m
<1>1. n \in Nat /\ K \in 1 .. n /\ p[K] \in DOMAIN f.steps /\ k \in 0 .. n
  BY DEF WayOf
<1>2. day[K] = day[k] + f.steps[p[K]].days /\ day[k] \in Nat /\ day[K] \in Nat
  BY <1>1 DEF Days
<1>3. x \in Reached(f) /\ Today(f, x) = day[K] /\ sent \in Seq(Nat)
  BY <1>1, <1>2 DEF Reached, Today, Counted
<1>4. ~Full(f, x) /\ \A t \in Links(f.steps[p[K]]) : ~r[Onward(f, x, t)]
  <2>1. ~r[x]
    BY DEF Counted
  <2> QED
    BY <1>3, <2>1 DEF FindsCrowd
<1>5. PICK s : s = Now(f, x)
  OBVIOUS
<1>6. K + 1 <= n => ~r[[id |-> p[K + 1], day |-> day[K], sent |-> s]]
  <2> SUFFICES ASSUME K + 1 <= n PROVE ~r[[id |-> p[K + 1], day |-> day[K], sent |-> s]]
    OBVIOUS
  <2>1. K \in 1 .. n - 1
    BY <1>1
  <2>2. p[K + 1] \in Links(f.steps[p[K]])
    BY <2>1 DEF WayOf
  <2>3. Onward(f, x, p[K + 1]) = [id |-> p[K + 1], day |-> day[K], sent |-> s]
    BY <1>3, <1>5 DEF Onward
  <2> QED
    BY <1>4, <2>2, <2>3
<1>7. CASE f.steps[p[K]].kind = "Communication"
  <2>1. s = Append(sent, day[K]) /\ done(K) = done(k) \cup {K} /\ K \notin done(k)
    BY <1>1, <1>3, <1>5, <1>7 DEF Now, Sends
  <2>2. PICK g : g = [j \in done(K) |-> IF j = K THEN Len(sent) + 1 ELSE e[j]]
    OBVIOUS
  <2>3. s \in Seq(Nat) /\ DOMAIN s = DOMAIN sent \cup {Len(sent) + 1} /\ Len(sent) + 1 \notin DOMAIN sent
    BY <1>2, <1>3, <2>1
  <2>4. s[Len(sent) + 1] = day[K] /\ \A i \in DOMAIN sent : s[i] = sent[i]
    BY <1>2, <1>3, <2>1
  <2>5. /\ e \in [done(k) -> DOMAIN sent]
        /\ \A i, j \in done(k) : e[i] = e[j] => i = j
        /\ \A j \in done(k) : sent[e[j]] = day[j]
    BY DEF Counted
  <2>6. /\ \A j \in done(K) : g[j] = (IF j = K THEN Len(sent) + 1 ELSE e[j])
        /\ \A j \in done(K) : j # K => j \in done(k) /\ e[j] \in DOMAIN sent
    <3>1. \A j \in done(K) : j # K => j \in done(k)
      BY <2>1
    <3>2. \A j \in done(k) : e[j] \in DOMAIN sent
      BY <2>5
    <3> HIDE DEF done
    <3> QED
      BY <2>2, <3>1, <3>2
  <2>7. g \in [done(K) -> DOMAIN s]
    BY <2>2, <2>3, <2>6
  <2>8. \A i, j \in done(K) : g[i] = g[j] => i = j
    BY <2>3, <2>5, <2>6
  <2>9. \A j \in done(K) : s[g[j]] = day[j]
    BY <2>4, <2>5, <2>6
  <2>10. Cardinality({i \in DOMAIN s : day[K] - s[i] < 7}) <= Limits.weekly
    <3>1. ~(Cardinality(Week(f, x)) > Limits.weekly)
      BY <1>4, <1>7 DEF Full
    <3>2. Week(f, x) = {i \in DOMAIN s : day[K] - s[i] < 7}
      BY <1>3, <1>5 DEF Week
    <3>3. Cardinality(Week(f, x)) \in Nat
      <4>1. IsFiniteSet(DOMAIN s)
        BY <2>3, FinitelyLong
      <4>2. Week(f, x) \in SUBSET DOMAIN s
        BY <3>2
      <4>3. IsFiniteSet(Week(f, x))
        BY <4>1, <4>2, FS_Subset
      <4> QED
        BY <4>3, FS_CardinalityType
    <3> QED
      BY <3>1, <3>2, <3>3, SuggestionAssumption
  <2>11. Counted(f, n, p, day, r, K, s, g)
    BY <1>6, <2>3, <2>7, <2>8, <2>9, <2>10 DEF Counted
  <2> QED
    BY <2>11
<1>8. CASE f.steps[p[K]].kind # "Communication"
  <2>1. s = sent /\ done(K) = done(k) /\ K \notin done(K)
    BY <1>1, <1>3, <1>5, <1>8 DEF Now, Sends
  <2>2. Counted(f, n, p, day, r, K, s, e)
    BY <1>6, <2>1 DEF Counted
  <2> QED
    BY <2>2
<1> QED
  BY <1>7, <1>8

\* At every message of a way, those of the last seven days are few enough.
LEMMA CountedAll ==
  ASSUME NEW f, Linked(f), ~Crowded(f), NEW n, NEW p, WayOf(f.steps, f.entry, n, p),
         NEW day, Days(f.steps, n, p, day)
  PROVE  \E r : \A k \in 0 .. n : \E s, g : Counted(f, n, p, day, r, k, s, g)
<1>1. PICK r : FindsCrowd(f, r) /\ ~r[[id |-> f.entry, day |-> 0, sent |-> <<>>]]
  BY CrowdSearched
<1> DEFINE S == {k \in Nat : k <= n => \E s, g : Counted(f, n, p, day, r, k, s, g)}
<1>2. 0 \in S
  <2>1. PICK s : s = <<>>
    OBVIOUS
  <2>2. PICK g : g = [j \in {} |-> 0]
    OBVIOUS
  <2>3. Sends(f.steps, n, p) \cap 1 .. 0 = {}
    OBVIOUS
  <2>4. ~r[[id |-> p[0 + 1], day |-> day[0], sent |-> s]]
    BY <1>1, <2>1 DEF WayOf, Days
  <2>5. s \in Seq(Nat) /\ g \in [{} -> DOMAIN s]
    BY <2>1, <2>2
  <2>6. Counted(f, n, p, day, r, 0, s, g)
    BY <2>3, <2>4, <2>5 DEF Counted
  <2> QED
    BY <2>6
<1>3. ASSUME NEW k \in Nat, k \in S PROVE k + 1 \in S
  <2>1. CASE k + 1 <= n
    <3>1. PICK s, g : Counted(f, n, p, day, r, k, s, g)
      BY <1>3, <2>1 DEF WayOf
    <3>2. \E s2, g2 : Counted(f, n, p, day, r, k + 1, s2, g2)
      BY <1>1, <1>3, <2>1, <3>1, CountsOn
    <3> QED
      BY <3>2
  <2>2. CASE ~(k + 1 <= n)
    BY <2>2
  <2> QED
    BY <2>1, <2>2
<1> HIDE DEF S
<1>4. Nat \subseteq S
  BY <1>2, <1>3, SetInduction
<1> QED
  BY <1>4 DEF S

\* A flow that is not crowded sends no more than weekly_limit in seven days.
LEMMA NotCrowded ==
  ASSUME NEW f, Linked(f), ~Crowded(f), NEW n, NEW p, WayOf(f.steps, f.entry, n, p),
         NEW day, Days(f.steps, n, p, day),
         NEW i \in Sends(f.steps, n, p), NEW m \in Sends(f.steps, n, p), i <= m,
         Cardinality(Sends(f.steps, n, p) \cap i .. m) > Limits.weekly
  PROVE  day[m] - day[i] >= 7
<1> SUFFICES ASSUME ~(day[m] - day[i] >= 7) PROVE FALSE
  OBVIOUS
<1> DEFINE T == Sends(f.steps, n, p) \cap i .. m
           done == Sends(f.steps, n, p) \cap 1 .. m
<1>1. n \in Nat /\ i \in 1 .. n /\ m \in 1 .. n /\ \A k \in 0 .. n : day[k] \in Nat
  BY DEF WayOf, Days, Sends
<1>0. PICK r : \A k \in 0 .. n : \E s, g : Counted(f, n, p, day, r, k, s, g)
  BY CountedAll
<1>2. PICK s, g : Counted(f, n, p, day, r, m, s, g)
  <2>1. m \in 0 .. n
    BY <1>1
  <2> QED
    BY <1>0, <2>1
<1>3. /\ s \in Seq(Nat) /\ g \in [done -> DOMAIN s]
      /\ \A j, k \in done : g[j] = g[k] => j = k
      /\ \A j \in done : s[g[j]] = day[j]
      /\ Cardinality({k \in DOMAIN s : day[m] - s[k] < 7}) <= Limits.weekly
  BY <1>1, <1>2 DEF Counted
<1> DEFINE R == {k \in DOMAIN s : day[m] - s[k] < 7}
<1>4. IsFiniteSet(R)
  <2>1. IsFiniteSet(DOMAIN s)
    BY <1>3, FinitelyLong
  <2>2. R \in SUBSET DOMAIN s
    OBVIOUS
  <2> QED
    BY <2>1, <2>2, FS_Subset
<1>5. PICK h : h = [j \in T |-> g[j]]
  OBVIOUS
<1>6. ASSUME NEW j \in T PROVE j \in done /\ g[j] \in R
  <2>1. j \in done /\ i <= j /\ j \in 1 .. n
    BY <1>1
  <2>2. day[i] <= day[j]
    BY <1>1, <2>1, DaysGoOn DEF Linked
  <2>3. s[g[j]] = day[j] /\ g[j] \in DOMAIN s
    BY <1>3, <2>1
  <2> QED
    BY <1>1, <2>1, <2>2, <2>3
<1>7. h \in Injection(T, R)
  <2>1. h \in [T -> R]
    BY <1>5, <1>6
  <2>2. \A j, k \in T : h[j] = h[k] => j = k
    BY <1>3, <1>5, <1>6
  <2> QED
    BY <2>1, <2>2 DEF Injection, IsInjective
<1>8. IsFiniteSet(T) /\ Cardinality(T) <= Cardinality(R)
  BY <1>4, <1>7, FS_Injection
<1>9. Cardinality(T) \in Nat /\ Cardinality(R) \in Nat
  BY <1>4, <1>8, FS_CardinalityType
<1> QED
  BY <1>3, <1>8, <1>9, SuggestionAssumption

\* What a search that spreads has seen after each round.
Spreads(to, from, seen) ==
  /\ seen[0] = from
  /\ \A n \in 1 .. Cardinality(DOMAIN to) :
       seen[n] = seen[n - 1] \cup UNION {to[x] : x \in seen[n - 1] \cap DOMAIN to}
  /\ Spread(to, from) = seen[Cardinality(DOMAIN to)]

\* Spread is what it has seen after its last round.
LEMMA SpreadInRounds ==
  ASSUME NEW to, IsFiniteSet(DOMAIN to), NEW from
  PROVE  \E seen : Spreads(to, from, seen)
<1>0. PICK c : c = Cardinality(DOMAIN to) /\ c \in Nat
  BY FS_CardinalityType
<1> DEFINE Wider(s) == s \cup UNION {to[x] : x \in s \cap DOMAIN to}
           Obeys(h, m) == h = [n \in 0 .. m |-> IF n = 0 THEN from ELSE Wider(h[n - 1])]
           f == CHOOSE h : Obeys(h, c)
<1>1. Spread(to, from) = f[c]
  BY <1>0 DEF Spread
<1> HIDE DEF Wider
<1>2. \E h : Obeys(h, c)
  <2> DEFINE S == {m \in Nat : \E h : Obeys(h, m)}
  <2>1. 0 \in S
    <3>1. PICK h : h = [n \in 0 .. 0 |-> from]
      OBVIOUS
    <3>2. Obeys(h, 0)
      BY <3>1
    <3> QED
      BY <3>2
  <2>2. ASSUME NEW m \in Nat, m \in S PROVE m + 1 \in S
    <3>1. PICK h : Obeys(h, m)
      BY <2>2
    <3>2. PICK g : g = [n \in 0 .. m + 1 |-> IF n \in 0 .. m THEN h[n] ELSE Wider(h[m])]
      OBVIOUS
    <3>3. ASSUME NEW n \in 0 .. m + 1 PROVE g[n] = IF n = 0 THEN from ELSE Wider(g[n - 1])
      <4>1. CASE n = 0
        BY <3>1, <3>2, <4>1
      <4>2. CASE n = m + 1
        BY <3>1, <3>2, <4>2
      <4>3. CASE n # 0 /\ n \in 0 .. m
        <5>1. n - 1 \in 0 .. m /\ g[n - 1] = h[n - 1] /\ g[n] = h[n]
          BY <3>2, <4>3
        <5> QED
          BY <3>1, <4>3, <5>1
      <4> QED
        BY <4>1, <4>2, <4>3
    <3>4. Obeys(g, m + 1)
      BY <3>2, <3>3
    <3> QED
      BY <3>4
  <2> HIDE DEF S
  <2>3. Nat \subseteq S
    BY <2>1, <2>2, SetInduction
  <2> QED
    BY <1>0, <2>3 DEF S
<1>3. Obeys(f, c)
  BY <1>2
<1> HIDE DEF f
<1>4. f[0] = from /\ \A n \in 1 .. c : f[n] = Wider(f[n - 1])
  BY <1>0, <1>3
<1>5. Spreads(to, from, f)
  BY <1>0, <1>1, <1>4 DEF Spreads, Wider
<1> QED
  BY <1>5

\* A search comes to the end of each way that it can go without a return.
LEMMA SpreadComes ==
  ASSUME NEW to, IsFiniteSet(DOMAIN to), NEW from, NEW n \in Nat, NEW w, w[0] \in from,
         \A k \in 0 .. n - 1 : w[k] \in DOMAIN to /\ w[k + 1] \in to[w[k]],
         \A j, k \in 0 .. n - 1 : w[j] = w[k] => j = k
  PROVE  w[n] \in Spread(to, from)
<1>1. PICK seen : Spreads(to, from, seen)
  BY SpreadInRounds
<1>2. PICK c : c = Cardinality(DOMAIN to) /\ c \in Nat
  BY FS_CardinalityType
<1>3. n <= c
  <2>1. PICK h : h = [k \in 0 .. n - 1 |-> w[k]]
    OBVIOUS
  <2>2. h \in Injection(0 .. n - 1, DOMAIN to)
    BY <2>1 DEF Injection, IsInjective
  <2>3. Cardinality(0 .. n - 1) <= c
    BY <1>2, <2>2, FS_Injection
  <2>4. Cardinality(0 .. n - 1) = n
    BY FS_Interval
  <2> QED
    BY <2>3, <2>4
<1>4. /\ seen[0] = from /\ Spread(to, from) = seen[c]
      /\ \A k \in 1 .. c : seen[k] = seen[k - 1] \cup UNION {to[x] : x \in seen[k - 1] \cap DOMAIN to}
  BY <1>1, <1>2 DEF Spreads
<1> DEFINE S == {k \in Nat : k <= n => w[k] \in seen[k]}
           U == {k \in Nat : n + k <= c => w[n] \in seen[n + k]}
<1>5. 0 \in S
  BY <1>4
<1>6. ASSUME NEW k \in Nat, k \in S PROVE k + 1 \in S
  <2>1. CASE k + 1 <= n
    <3>1. k \in 0 .. n - 1 /\ k + 1 \in 1 .. c /\ (k + 1) - 1 = k /\ w[k] \in seen[k]
      BY <1>2, <1>3, <1>6, <2>1
    <3>2. w[k] \in seen[k] \cap DOMAIN to /\ w[k + 1] \in to[w[k]]
      BY <3>1
    <3>3. seen[k + 1] = seen[k] \cup UNION {to[x] : x \in seen[k] \cap DOMAIN to}
      BY <1>4, <3>1
    <3> QED
      BY <3>2, <3>3
  <2>2. CASE ~(k + 1 <= n)
    BY <2>2
  <2> QED
    BY <2>1, <2>2
<1> HIDE DEF S
<1>7. Nat \subseteq S
  BY <1>5, <1>6, SetInduction
<1>8. 0 \in U
  BY <1>7 DEF S
<1>9. ASSUME NEW k \in Nat, k \in U PROVE k + 1 \in U
  <2>1. CASE n + (k + 1) <= c
    <3>1. n + (k + 1) \in 1 .. c /\ (n + (k + 1)) - 1 = n + k /\ w[n] \in seen[n + k]
      BY <1>2, <1>9, <2>1
    <3>2. seen[n + k] \subseteq seen[n + (k + 1)]
      BY <1>4, <3>1
    <3> QED
      BY <3>1, <3>2
  <2>2. CASE ~(n + (k + 1) <= c)
    BY <2>2
  <2> QED
    BY <2>1, <2>2
<1> HIDE DEF U
<1>10. Nat \subseteq U
  BY <1>8, <1>9, SetInduction
<1>11. c - n \in Nat /\ n + (c - n) = c
  BY <1>2, <1>3
<1> QED
  BY <1>4, <1>10, <1>11 DEF U

\* Between two messages on a way there is a Wait.
Waits(steps, p, i, m) == \E k \in i + 1 .. m - 1 : steps[p[k]].kind = "Wait"

\* Between two messages of a way there is a wait.
LEMMA WaitBetween ==
  ASSUME NEW f, Linked(f), IsFiniteSet(DOMAIN f.steps), ~HasLoop(f.steps, f.entry),
         \A id \in Messages(f) : ~NextMessageWithoutWait(f, id),
         NEW n, NEW p, WayOf(f.steps, f.entry, n, p),
         NEW i \in Sends(f.steps, n, p), NEW m \in Sends(f.steps, n, p), i < m
  PROVE  Waits(f.steps, p, i, m)
<1> SUFFICES ASSUME \A k \in i + 1 .. m - 1 : f.steps[p[k]].kind # "Wait" PROVE FALSE
  BY DEF Waits
<1>1. n \in Nat /\ i \in 1 .. n /\ m \in 1 .. n /\ \A k \in 1 .. n : p[k] \in DOMAIN f.steps
  BY DEF WayOf, Sends
<1> DEFINE S == {k \in Nat : k >= 1 /\ i + k \in Sends(f.steps, n, p)}
<1>2. PICK q \in S : \A y \in S : q <= y
  <2>1. m - i \in Nat /\ m - i >= 1 /\ i + (m - i) = m
    BY <1>1
  <2>2. m - i \in S
    BY <2>1
  <2>3. S \subseteq Nat /\ S # {}
    BY <2>2
  <2> HIDE DEF S
  <2> QED
    BY <2>3, Least
<1>3. q \in Nat /\ q >= 1 /\ i + q \in Sends(f.steps, n, p) /\ i + q <= m
  <2>1. m - i \in Nat /\ m - i >= 1 /\ i + (m - i) = m
    BY <1>1
  <2>2. m - i \in S
    BY <2>1
  <2> QED
    BY <1>1, <1>2, <2>2
<1> DEFINE D == {y \in DOMAIN f.steps : f.steps[y].kind \notin {"Wait", "Communication"}}
<1>4. PICK to : to = [x \in D |-> Links(f.steps[x])]
  OBVIOUS
<1>5. PICK w : w = [k \in 0 .. q - 1 |-> p[i + 1 + k]]
  OBVIOUS
<1>6. ASSUME NEW k \in 0 .. (q - 1) - 1 PROVE w[k] \in D /\ w[k + 1] \in to[w[k]] /\ w[k] = p[i + 1 + k] /\ i + 1 + k \in 1 .. n
  <2>1. i + 1 + k \in i + 1 .. m - 1 /\ i + 1 + k \in 1 .. n - 1 /\ k + 1 \in Nat /\ k + 1 >= 1 /\ k + 1 < q /\ i + 1 + k = i + (k + 1)
    BY <1>1, <1>3
  <2>2. k + 1 \notin S
    BY <1>2, <1>3, <2>1
  <2>3. i + 1 + k \notin Sends(f.steps, n, p)
    BY <2>1, <2>2
  <2>4. f.steps[p[i + 1 + k]].kind # "Communication" /\ p[i + 1 + k] \in DOMAIN f.steps
    BY <1>1, <2>1, <2>3 DEF Sends
  <2>5. p[i + 1 + k] \in D
    BY <2>1, <2>4
  <2>6. p[(i + 1 + k) + 1] \in Links(f.steps[p[i + 1 + k]])
    BY <2>1 DEF WayOf
  <2>7. w[k] = p[i + 1 + k] /\ w[k + 1] = p[(i + 1 + k) + 1]
    BY <1>1, <1>3, <1>5
  <2> HIDE DEF D
  <2> QED
    BY <1>1, <1>4, <2>1, <2>5, <2>6, <2>7
<1>7. w[0] \in Links(f.steps[p[i]])
  <2>1. i \in 1 .. n - 1
    BY <1>1
  <2>2. p[i + 1] \in Links(f.steps[p[i]])
    BY <2>1 DEF WayOf
  <2> QED
    BY <1>1, <1>3, <1>5, <2>2
<1>8. \A j, k \in 0 .. (q - 1) - 1 : w[j] = w[k] => j = k
  <2>1. ASSUME NEW j \in 0 .. (q - 1) - 1, NEW k \in 0 .. (q - 1) - 1, w[j] = w[k] PROVE j = k
    <3>1. p[i + 1 + j] = p[i + 1 + k] /\ i + 1 + j \in 1 .. n /\ i + 1 + k \in 1 .. n
      BY <1>6, <2>1
    <3>2. i + 1 + j = i + 1 + k
      BY <3>1, NoReturn
    <3> QED
      BY <1>1, <1>3, <3>2
  <2> QED
    BY <2>1
<1>9. IsFiniteSet(D)
  BY FS_Subset
<1>10. w[q - 1] \in Spread(to, Links(f.steps[p[i]]))
  <2>1. DOMAIN to = D /\ q - 1 \in Nat
    BY <1>3, <1>4
  <2>2. \A k \in 0 .. (q - 1) - 1 : w[k] \in DOMAIN to /\ w[k + 1] \in to[w[k]]
    BY <1>6, <2>1
  <2> HIDE DEF D
  <2> QED
    BY <1>7, <1>8, <1>9, <2>1, <2>2, SpreadComes
<1>11. w[q - 1] \in Messages(f)
  <2>1. w[q - 1] = p[i + q] /\ i + q \in Sends(f.steps, n, p)
    BY <1>1, <1>3, <1>5
  <2> QED
    BY <1>1, <2>1 DEF Sends, Messages
<1>12. p[i] \in Messages(f)
  BY <1>1 DEF Sends, Messages
<1>13. NextMessageWithoutWait(f, p[i])
  BY <1>4, <1>10, <1>11 DEF NextMessageWithoutWait
<1> QED
  BY <1>12, <1>13

\* The days of a way are there.
DaysOf(steps, p, n, h) == h = [k \in 0 .. n |-> IF k = 0 THEN 0 ELSE h[k - 1] + steps[p[k]].days]

\* There is a running total of the days of a way,
LEMMA DaysExist ==
  ASSUME NEW steps, NEW p, NEW n \in Nat
  PROVE  \E h : DaysOf(steps, p, n, h)
<1> DEFINE S == {m \in Nat : \E h : DaysOf(steps, p, m, h)}
<1>1. 0 \in S
  <2>1. PICK h : h = [k \in 0 .. 0 |-> 0]
    OBVIOUS
  <2>2. DaysOf(steps, p, 0, h)
    BY <2>1 DEF DaysOf
  <2> QED
    BY <2>2
<1>2. ASSUME NEW m \in Nat, m \in S PROVE m + 1 \in S
  <2>1. PICK h : DaysOf(steps, p, m, h)
    BY <1>2
  <2>2. PICK g : g = [k \in 0 .. m + 1 |-> IF k \in 0 .. m THEN h[k] ELSE h[m] + steps[p[k]].days]
    OBVIOUS
  <2>3. ASSUME NEW k \in 0 .. m + 1 PROVE g[k] = IF k = 0 THEN 0 ELSE g[k - 1] + steps[p[k]].days
    <3>1. CASE k = 0
      BY <2>1, <2>2, <3>1 DEF DaysOf
    <3>2. CASE k = m + 1
      BY <2>1, <2>2, <3>2
    <3>3. CASE k # 0 /\ k \in 0 .. m
      <4>1. k - 1 \in 0 .. m /\ g[k - 1] = h[k - 1] /\ g[k] = h[k]
        BY <2>2, <3>3
      <4> QED
        BY <2>1, <3>3, <4>1 DEF DaysOf
    <3> QED
      BY <3>1, <3>2, <3>3
  <2>4. DaysOf(steps, p, m + 1, g)
    BY <2>2, <2>3 DEF DaysOf
  <2> QED
    BY <2>4
<1> HIDE DEF S
<1>3. Nat \subseteq S
  BY <1>1, <1>2, SetInduction
<1> QED
  BY <1>3 DEF S

\* and it is the one that FlowFits counts.
LEMMA DaysAre ==
  ASSUME NEW f, Linked(f), NEW n, NEW p, WayOf(f.steps, f.entry, n, p), NEW day, DaysOf(f.steps, p, n, day)
  PROVE  Days(f.steps, n, p, day)
<1>1. n \in Nat /\ \A k \in 1 .. n : f.steps[p[k]].days \in Nat
  BY DEF WayOf, Linked
<1>2. DOMAIN day = 0 .. n /\ day[0] = 0 /\ \A k \in 1 .. n : day[k] = day[k - 1] + f.steps[p[k]].days
  BY <1>1 DEF DaysOf
<1> DEFINE S == {k \in Nat : k <= n => day[k] \in Nat}
<1>3. 0 \in S
  BY <1>2
<1>4. ASSUME NEW k \in Nat, k \in S PROVE k + 1 \in S
  <2>1. CASE k + 1 <= n
    <3>1. k + 1 \in 1 .. n /\ (k + 1) - 1 = k /\ day[k] \in Nat
      BY <1>1, <1>4, <2>1
    <3> QED
      <4>1. day[k + 1] = day[k] + f.steps[p[k + 1]].days
        BY <1>2, <3>1
      <4> QED
        BY <1>1, <3>1, <4>1
  <2>2. CASE ~(k + 1 <= n)
    BY <2>2
  <2> QED
    BY <2>1, <2>2
<1> HIDE DEF S
<1>5. Nat \subseteq S
  BY <1>3, <1>4, SetInduction
<1>6. \A k \in 0 .. n : day[k] \in Nat
  BY <1>5 DEF S
<1>7. day = [k \in 0 .. n |-> day[k]]
  BY DEF DaysOf
<1> QED
  BY <1>2, <1>6, <1>7 DEF Days

\* A way starts at the entry and goes along the links.
LEMMA WaysAre ==
  ASSUME NEW f, IsFiniteSet(DOMAIN f.steps), NEW p \in Ways(f)
  PROVE  WayOf(f.steps, f.entry, Len(p), p) /\ DOMAIN p = 1 .. Len(p)
<1>1. Cardinality(DOMAIN f.steps) \in Nat
  BY FS_CardinalityType
<1>2. PICK n \in 1 .. Cardinality(DOMAIN f.steps) + 1 : p \in [1 .. n -> DOMAIN f.steps]
  BY DEF Ways
<1>3. n \in Nat \ {0} /\ Len(p) = n
  BY <1>1, <1>2
<1> QED
  BY <1>2, <1>3 DEF Ways, WayOf

\* What ValidateAll accepts fits: the checks of the validator rule out what they are for.
LEMMA ValidFits ==
  ASSUME NEW f, Countable(f), ValidateAll(f)
  PROVE  FlowFits(f)
<1>1. IsFiniteSet(DOMAIN f.steps) /\ \A id \in DOMAIN f.steps : f.steps[id].days \in Nat
  BY DEF Countable
<1>2. /\ ~HasLoop(f.steps, f.entry) /\ ~Crowded(f)
      /\ \A id \in Messages(f) : ~NextMessageWithoutWait(f, id)
      /\ \A id \in DOMAIN f.steps : Links(f.steps[id]) \subseteq DOMAIN f.steps
  BY DEF ValidateAll, ValidateFlowchart
<1>3. Linked(f)
  BY <1>1, <1>2 DEF Linked
<1>4. ASSUME NEW id \in DOMAIN f.steps, Links(f.steps[id]) = {} PROVE f.steps[id].kind \in EndStepKinds
  <2>1. /\ f.steps[id].next = "" /\ f.steps[id].yes = "" /\ f.steps[id].no = ""
    BY <1>4 DEF Links
  <2> QED
    BY <2>1 DEF ValidateAll, ValidateFlowchart
<1> SUFFICES ASSUME NEW p \in Ways(f)
             PROVE  LET at(n) == f.steps[p[n]]
                        sends == {n \in DOMAIN p : at(n).kind = "Communication"}
                        day[k \in 0 .. Len(p)] == IF k = 0 THEN 0 ELSE day[k - 1] + at(k).days
                    IN /\ Len(p) <= Cardinality(DOMAIN f.steps)
                       /\ Links(at(Len(p))) = {} => at(Len(p)).kind \in EndStepKinds
                       /\ \A n, m \in sends : n < m =>
                            /\ \E k \in n + 1 .. m - 1 : at(k).kind = "Wait"
                            /\ Cardinality(sends \cap n .. m) > Limits.weekly => day[m] - day[n] >= 7
  BY DEF FlowFits
<1> DEFINE N == Len(p)
           sent == {n \in DOMAIN p : f.steps[p[n]].kind = "Communication"}
           day == CHOOSE h : h = [k \in 0 .. N |-> IF k = 0 THEN 0 ELSE h[k - 1] + f.steps[p[k]].days]
<1>5. WayOf(f.steps, f.entry, N, p) /\ DOMAIN p = 1 .. N /\ N \in Nat \ {0}
  BY <1>1, WaysAre DEF WayOf
<1>6. sent = Sends(f.steps, N, p)
  BY <1>5 DEF Sends
<1>7. Days(f.steps, N, p, day)
  <2>0. \E h : DaysOf(f.steps, p, N, h)
    <3> HIDE DEF N
    <3> QED
      BY <1>5, DaysExist
  <2>00. \E h : h = [k \in 0 .. N |-> IF k = 0 THEN 0 ELSE h[k - 1] + f.steps[p[k]].days]
    BY <2>0 DEF DaysOf
  <2>000. day = [k \in 0 .. N |-> IF k = 0 THEN 0 ELSE day[k - 1] + f.steps[p[k]].days]
    BY <2>00
  <2>1. DaysOf(f.steps, p, N, day)
    <3> HIDE DEF day
    <3> QED
      BY <2>000 DEF DaysOf
  <2> HIDE DEF day
  <2> QED
    BY <1>3, <1>5, <2>1, DaysAre
<1>8. N <= Cardinality(DOMAIN f.steps)
  <2>0. \A j, k \in 1 .. N : p[j] = p[k] => j = k
    <3> HIDE DEF N
    <3> QED
      BY <1>2, <1>5, NoReturn
  <2>1. p \in [1 .. N -> DOMAIN f.steps] /\ \A j, k \in 1 .. N : p[j] = p[k] => j = k
    BY <1>5, <2>0 DEF WayOf
  <2>2. p \in Injection(1 .. N, DOMAIN f.steps)
    BY <2>1 DEF Injection, IsInjective
  <2>3. Cardinality(1 .. N) <= Cardinality(DOMAIN f.steps)
    BY <1>1, <2>2, FS_Injection
  <2>4. Cardinality(1 .. N) = N
    BY <1>5, FS_Interval
  <2> QED
    BY <2>3, <2>4
<1>9. Links(f.steps[p[N]]) = {} => f.steps[p[N]].kind \in EndStepKinds
  <2>1. p[N] \in DOMAIN f.steps
    BY <1>5 DEF WayOf
  <2> QED
    BY <1>4, <2>1
<1>10. ASSUME NEW n \in sent, NEW m \in sent, n < m
       PROVE  /\ \E k \in n + 1 .. m - 1 : f.steps[p[k]].kind = "Wait"
              /\ Cardinality(sent \cap n .. m) > Limits.weekly => day[m] - day[n] >= 7
  <2>1. n \in Sends(f.steps, N, p) /\ m \in Sends(f.steps, N, p) /\ n <= m
    BY <1>5, <1>6, <1>10 DEF Sends
  <2>2. Waits(f.steps, p, n, m)
    <3> HIDE DEF N, day, sent
    <3> QED
      BY <1>1, <1>2, <1>3, <1>5, <1>10, <2>1, WaitBetween
  <2>3. ASSUME Cardinality(sent \cap n .. m) > Limits.weekly PROVE day[m] - day[n] >= 7
    <3>1. Cardinality(Sends(f.steps, N, p) \cap n .. m) > Limits.weekly
      BY <1>6, <2>3
    <3> HIDE DEF day
    <3> QED
      BY <1>2, <1>3, <1>5, <1>7, <2>1, <3>1, NotCrowded
  <2> QED
    BY <2>2, <2>3 DEF Waits
<1> QED
  BY <1>8, <1>9, <1>10

(***************************************************************************)
(* The segments of a scope (segmenter.py).  Groups are those of the        *)
(* accounts E with the same key: the passes change the keys.               *)
(***************************************************************************)
Group(K, E, k) == {i \in E : K[i] = k}
Groups(g, K, E) == DOMAIN g = {K[i] : i \in E} /\ \A k \in DOMAIN g : g[k] = Group(K, E, k)

\* Groups under wider keys are the groups of the wider keys.
LEMMA RegroupedIs ==
  ASSUME NEW g, NEW K, NEW E, Groups(g, K, E), NEW to, NEW K2, K2 = [i \in E |-> to[K[i]]]
  PROVE  Groups(Regrouped(g, to), K2, E)
<1>1. DOMAIN Regrouped(g, to) = {K2[i] : i \in E}
  BY DEF Groups, Regrouped
<1>2. ASSUME NEW k \in DOMAIN Regrouped(g, to) PROVE Regrouped(g, to)[k] = Group(K2, E, k)
  <2>1. Regrouped(g, to)[k] = UNION {g[j] : j \in {i \in DOMAIN g : to[i] = k}}
    BY <1>2 DEF Regrouped
  <2>2. \A j \in DOMAIN g : g[j] = {i \in E : K[i] = j}
    BY DEF Groups, Group
  <2>3. \A i \in E : K[i] \in DOMAIN g /\ K2[i] = to[K[i]]
    BY DEF Groups
  <2> QED
    BY <2>1, <2>2, <2>3 DEF Group
<1> QED
  BY <1>1, <1>2 DEF Groups

\* The groups that build_segments begins with.
LEMMA GroupedIs ==
  ASSUME NEW faces, NEW L, L = [i \in DOMAIN faces |-> LabelAccount(faces[i])]
  PROVE  Groups(GroupAccounts(faces), L, DOMAIN faces)
<1> DEFINE E == DOMAIN faces
<1>1. PICK g : g = [i \in E |-> {i}]
  OBVIOUS
<1>2. PICK K : K = [i \in E |-> i]
  OBVIOUS
<1>3. Groups(g, K, E)
  BY <1>1, <1>2 DEF Groups, Group
<1>4. L = [i \in E |-> L[K[i]]]
  BY <1>2
<1>5. Groups(Regrouped(g, L), L, E)
  BY <1>3, <1>4, RegroupedIs
<1> QED
  BY <1>1, <1>5 DEF GroupAccounts

\* A key of which only the first n fields are told.
Prefix(k, n) == [j \in 1 .. 4 |-> IF j <= n THEN k[j] ELSE All]

\* A key is widened by one part at a time.
LEMMA WidenedIs ==
  ASSUME NEW k, NEW p \in 2 .. 4
  PROVE  Widened(Prefix(k, p), p) = Prefix(k, p - 1)
<1>1. ASSUME NEW j \in 1 .. 4
      PROVE  (IF j >= p THEN All ELSE Prefix(k, p)[j]) = (IF j <= p - 1 THEN k[j] ELSE All)
  BY DEF Prefix
<1> QED
  BY <1>1 DEF Widened, Prefix

(* Before the pass that widens the keys from field p on, a key is the      *)
(* prefix of the label of its account; one that is longer than p is that   *)
(* of a group that is large enough; and no key tells more of an account    *)
(* than its own does.                                                      *)
Merging(L, K, n, p, size, E) ==
  /\ n \in [E -> p .. 4] /\ K = [i \in E |-> Prefix(L[i], n[i])]
  /\ \A i \in E : n[i] > p => Cardinality(Group(K, E, K[i])) >= size
  /\ \A i, j \in E : \A m \in n[i] + 1 .. 4 : K[j] = Prefix(L[i], m) => K[j] = K[i]

\* One pass of merge_small_groups.
Pass(g, p, size) ==
  Regrouped(g, [k \in DOMAIN g |-> IF Cardinality(g[k]) < size THEN Widened(k, p) ELSE k])

\* One pass keeps that the groups are those of the keys.
LEMMA PassedOn ==
  ASSUME NEW E, IsFiniteSet(E), NEW size \in Nat, NEW p \in 2 .. 4, NEW L, NEW K, NEW n,
         Merging(L, K, n, p, size, E), NEW g, Groups(g, K, E)
  PROVE  \E K2, n2 : Merging(L, K2, n2, p - 1, size, E) /\ Groups(Pass(g, p, size), K2, E)
<1> DEFINE Small(i) == Cardinality(Group(K, E, K[i])) < size
<1>1. PICK n2 : n2 = [i \in E |-> IF Small(i) THEN p - 1 ELSE n[i]]
  OBVIOUS
<1>2. PICK K2 : K2 = [i \in E |-> IF Small(i) THEN Widened(K[i], p) ELSE K[i]]
  OBVIOUS
<1>3. \A i \in E : n[i] \in p .. 4 /\ K[i] = Prefix(L[i], n[i]) /\ IsFiniteSet(Group(K, E, K[i])) /\ Cardinality(Group(K, E, K[i])) \in Nat
  <2>1. \A i \in E : n[i] \in p .. 4 /\ K[i] = Prefix(L[i], n[i])
    BY DEF Merging
  <2>2. ASSUME NEW i \in E PROVE IsFiniteSet(Group(K, E, K[i])) /\ Cardinality(Group(K, E, K[i])) \in Nat
    <3>1. Group(K, E, K[i]) \in SUBSET E
      BY DEF Group
    <3> QED
      BY <3>1, FS_Subset, FS_CardinalityType
  <2> QED
    BY <2>1, <2>2
<1>4. ASSUME NEW i \in E, Small(i) PROVE n[i] = p /\ n2[i] = p - 1 /\ K2[i] = Prefix(L[i], p - 1)
  <2>1. n[i] = p
    BY <1>3, <1>4 DEF Merging
  <2>2. n2[i] = p - 1
    BY <1>1, <1>4
  <2>3. K2[i] = Widened(Prefix(L[i], p), p)
    BY <1>2, <1>3, <1>4, <2>1
  <2> QED
    BY <2>1, <2>2, <2>3, WidenedIs
<1>5. ASSUME NEW i \in E, ~Small(i) PROVE n2[i] = n[i] /\ K2[i] = K[i]
  BY <1>1, <1>2, <1>5
<1>6. n2 \in [E -> p - 1 .. 4]
  <2>1. \A i \in E : n2[i] \in p - 1 .. 4
    BY <1>3, <1>4, <1>5
  <2> QED
    BY <1>1, <2>1
<1>7. ASSUME NEW i \in E PROVE K2[i] = Prefix(L[i], n2[i])
  BY <1>3, <1>4, <1>5
<1>8. ASSUME NEW i \in E, n2[i] > p - 1 PROVE Cardinality(Group(K2, E, K2[i])) >= size
  <2>1. ~Small(i)
    BY <1>4, <1>8
  <2>2. Group(K, E, K[i]) \in SUBSET Group(K2, E, K2[i])
    <3>1. ASSUME NEW j \in E, K[j] = K[i] PROVE K2[j] = K2[i]
      BY <1>5, <2>1, <3>1
    <3> QED
      BY <3>1 DEF Group
  <2>3. IsFiniteSet(Group(K2, E, K2[i]))
    <3>1. Group(K2, E, K2[i]) \in SUBSET E
      BY DEF Group
    <3> QED
      BY <3>1, FS_Subset
  <2>4. Cardinality(Group(K, E, K[i])) <= Cardinality(Group(K2, E, K2[i])) /\ Cardinality(Group(K2, E, K2[i])) \in Nat
    BY <2>2, <2>3, FS_Subset, FS_CardinalityType
  <2> QED
    BY <1>3, <2>1, <2>4
<1>9. ASSUME NEW i \in E, NEW j \in E, NEW m \in n2[i] + 1 .. 4, K2[j] = Prefix(L[i], m) PROVE K2[j] = K2[i]
  <2>0. n2[i] \in p - 1 .. 4 /\ m \in p .. 4
    BY <1>6
  <2>1. CASE Small(j)
    <3>1. Prefix(L[j], p - 1) = Prefix(L[i], m)
      BY <1>4, <1>9, <2>1
    <3>2. ASSUME NEW q \in 1 .. 4, q >= p PROVE Prefix(L[i], m)[q] = All
      BY <3>1, <3>2 DEF Prefix
    <3>3. ASSUME NEW q \in 1 .. 4 PROVE (IF q <= m THEN L[i][q] ELSE All) = (IF q <= n2[i] THEN L[i][q] ELSE All)
      BY <2>0, <3>2 DEF Prefix
    <3>4. Prefix(L[i], m) = Prefix(L[i], n2[i])
      BY <3>3 DEF Prefix
    <3> QED
      BY <1>7, <1>9, <3>4
  <2>2. CASE ~Small(j) /\ ~Small(i)
    <3>1. K[j] = Prefix(L[i], m) /\ m \in n[i] + 1 .. 4
      BY <1>5, <1>9, <2>2
    <3>2. K[j] = K[i]
      BY <3>1 DEF Merging
    <3> QED
      BY <1>5, <2>2, <3>2
  <2>3. CASE ~Small(j) /\ Small(i)
    <3>1. n[i] = p /\ K[j] = Prefix(L[i], m)
      BY <1>4, <1>5, <1>9, <2>3
    <3>2. K[j] = K[i]
      <4>1. CASE m = p
        BY <1>3, <3>1, <4>1
      <4>2. CASE m # p
        <5>1. m \in n[i] + 1 .. 4
          BY <2>0, <3>1, <4>2
        <5> QED
          BY <3>1, <5>1 DEF Merging
      <4> QED
        BY <4>1, <4>2
    <3> QED
      BY <2>3, <3>2
  <2> QED
    BY <2>1, <2>2, <2>3
<1>10. Merging(L, K2, n2, p - 1, size, E)
  <2>1. K2 = [i \in E |-> Prefix(L[i], n2[i])]
    BY <1>2, <1>7
  <2> QED
    BY <1>6, <1>8, <1>9, <2>1 DEF Merging
<1>11. Groups(Pass(g, p, size), K2, E)
  <2>1. PICK to : to = [k \in DOMAIN g |-> IF Cardinality(g[k]) < size THEN Widened(k, p) ELSE k]
    OBVIOUS
  <2>2. ASSUME NEW i \in E PROVE K2[i] = to[K[i]]
    <3>1. K[i] \in DOMAIN g /\ g[K[i]] = Group(K, E, K[i])
      BY DEF Groups
    <3> QED
      BY <1>2, <2>1, <3>1
  <2>3. K2 = [i \in E |-> to[K[i]]]
    BY <1>2, <2>2
  <2>4. Groups(Regrouped(g, to), K2, E)
    BY <2>3, RegroupedIs
  <2> QED
    BY <2>1, <2>4 DEF Pass
<1> QED
  BY <1>10, <1>11

\* So do all of them.
LEMMA MergedIs ==
  ASSUME NEW E, IsFiniteSet(E), NEW size \in Nat, NEW L, L = [i \in E |-> Prefix(L[i], 4)],
         NEW g, Groups(g, L, E)
  PROVE  \E K, n : Merging(L, K, n, 1, size, E) /\ Groups(MergeSmallGroups(g, size), K, E)
<1>1. PICK n4 : n4 = [i \in E |-> 4]
  OBVIOUS
<1>2. Merging(L, L, n4, 4, size, E)
  BY <1>1 DEF Merging
<1>3. PICK K3, n3 : Merging(L, K3, n3, 3, size, E) /\ Groups(Pass(g, 4, size), K3, E)
  <2>1. 4 \in 2 .. 4 /\ 4 - 1 = 3
    OBVIOUS
  <2> QED
    BY <1>2, <2>1, PassedOn
<1>4. PICK K2, n2 : Merging(L, K2, n2, 2, size, E) /\ Groups(Pass(Pass(g, 4, size), 3, size), K2, E)
  <2>1. 3 \in 2 .. 4 /\ 3 - 1 = 2
    OBVIOUS
  <2> QED
    BY <1>3, <2>1, PassedOn
<1>5. PICK K, n : Merging(L, K, n, 1, size, E) /\ Groups(Pass(Pass(Pass(g, 4, size), 3, size), 2, size), K, E)
  <2>1. 2 \in 2 .. 4 /\ 2 - 1 = 1
    OBVIOUS
  <2> QED
    BY <1>4, <2>1, PassedOn
<1>6. MergeSmallGroups(g, size) = Pass(Pass(Pass(g, 4, size), 3, size), 2, size)
  BY DEF MergeSmallGroups, Pass
<1> QED
  BY <1>5, <1>6

\* How an account is classified: no part of it is "all".
Proper(face) == face.stage # All /\ face.contact # All
KeyOn(a, b, c, d) == [j \in 1 .. 4 |-> IF j = 1 THEN a ELSE IF j = 2 THEN b ELSE IF j = 3 THEN c ELSE d]
Staged(face) == SituationOf(face) = "active" /\ face.stage # ""

\* _label_account, as one of two keys.
LEMMA LabelIs ==
  ASSUME NEW face
  PROVE  LabelAccount(face) = IF Staged(face) THEN KeyOn("active", face.stage, face.contact, face.balance)
                              ELSE KeyOn(SituationOf(face), All, All, All)
<1>1. \A a, b, c, d : <<a, b, c, d>> = KeyOn(a, b, c, d)
  BY DEF KeyOn
<1>2. SituationOf(face) \in Situations
  BY DEF SituationOf, Situations
<1>3. SituationOf(face) \in Arrangements <=> SituationOf(face) # "active"
  BY <1>2 DEF Situations, Arrangements
<1>4. LabelAccount(face) = IF Staged(face) THEN <<SituationOf(face), face.stage, face.contact, face.balance>>
                           ELSE <<SituationOf(face), All, All, All>>
  BY <1>3 DEF LabelAccount, Staged
<1>5. CASE Staged(face)
  <2>1. LabelAccount(face) = <<"active", face.stage, face.contact, face.balance>>
    BY <1>4, <1>5 DEF Staged
  <2> QED
    BY <1>1, <1>5, <2>1
<1>6. CASE ~Staged(face)
  BY <1>1, <1>4, <1>6
<1> QED
  BY <1>5, <1>6

\* The prefixes of a label.
LEMMA PrefixIs ==
  ASSUME NEW a, NEW b, NEW c, NEW d, NEW k, k = KeyOn(a, b, c, d)
  PROVE  /\ Prefix(k, 1) = KeyOn(a, All, All, All) /\ Prefix(k, 2) = KeyOn(a, b, All, All)
         /\ Prefix(k, 3) = KeyOn(a, b, c, All) /\ Prefix(k, 4) = KeyOn(a, b, c, d)
  BY DEF Prefix, KeyOn

\* Which accounts fit a key.
LEMMA FitsKey ==
  ASSUME NEW face, NEW a, NEW b, NEW c, NEW d
  PROVE  Fits(face, KeyOn(a, b, c, d)) <=>
           /\ a = SituationOf(face) /\ b \in {All, face.stage}
           /\ c \in {All, face.contact} /\ d \in {All, face.balance}
<1>1. KeyOn(a, b, c, d)[1] = a /\ KeyOn(a, b, c, d)[2] = b /\ KeyOn(a, b, c, d)[3] = c /\ KeyOn(a, b, c, d)[4] = d
  BY DEF KeyOn
<1> QED
  BY <1>1 DEF Fits

\* An account fits what is left of its label.
LEMMA PrefixFits ==
  ASSUME NEW face, NEW m \in 1 .. 4
  PROVE  Fits(face, Prefix(LabelAccount(face), m))
<1>1. CASE Staged(face)
  <2>1. LabelAccount(face) = KeyOn("active", face.stage, face.contact, face.balance) /\ SituationOf(face) = "active"
    BY <1>1, LabelIs DEF Staged
  <2>2. m = 1 \/ m = 2 \/ m = 3 \/ m = 4
    OBVIOUS
  <2> QED
    BY <2>1, <2>2, PrefixIs, FitsKey
<1>2. CASE ~Staged(face)
  <2>1. LabelAccount(face) = KeyOn(SituationOf(face), All, All, All)
    BY <1>2, LabelIs
  <2>2. m = 1 \/ m = 2 \/ m = 3 \/ m = 4
    OBVIOUS
  <2> QED
    BY <2>1, <2>2, PrefixIs, FitsKey
<1> QED
  BY <1>1, <1>2

\* A key is what is left of a label.
PrefixOf(k, l) == \E m \in 1 .. 4 : k = Prefix(l, m)

\* A prefix of another's label that an account fits is one of its own.
LEMMA FittingIsPrefix ==
  ASSUME NEW face, Proper(face), NEW other, Proper(other), NEW n \in 1 .. 4,
         Fits(face, Prefix(LabelAccount(other), n))
  PROVE  PrefixOf(Prefix(LabelAccount(other), n), LabelAccount(face))
<1>1. PICK k : k = Prefix(LabelAccount(other), n)
  OBVIOUS
<1>2. PICK l : l = LabelAccount(face)
  OBVIOUS
<1>0. n = 1 \/ n = 2 \/ n = 3 \/ n = 4
  OBVIOUS
<1>3. l = (IF Staged(face) THEN KeyOn("active", face.stage, face.contact, face.balance) ELSE KeyOn(SituationOf(face), All, All, All))
  BY <1>2, LabelIs
<1>4. Prefix(l, 1) = KeyOn(SituationOf(face), All, All, All)
  <2>1. CASE Staged(face)
    <3>1. l = KeyOn("active", face.stage, face.contact, face.balance)
      BY <1>3, <2>1
    <3>2. SituationOf(face) = "active"
      BY <2>1 DEF Staged
    <3> QED
      BY <3>1, <3>2, PrefixIs
  <2>2. CASE ~Staged(face)
    BY <1>3, <2>2, PrefixIs
  <2> QED
    BY <2>1, <2>2
<1>5. ASSUME k = KeyOn(SituationOf(face), All, All, All) PROVE PrefixOf(k, l)
  <2>1. k = Prefix(l, 1) /\ 1 \in 1 .. 4
    BY <1>4, <1>5
  <2> QED
    BY <2>1 DEF PrefixOf
<1>6. CASE ~Staged(other)
  <2>1. LabelAccount(other) = KeyOn(SituationOf(other), All, All, All)
    BY <1>6, LabelIs
  <2>2. k = KeyOn(SituationOf(other), All, All, All)
    BY <1>0, <1>1, <2>1, PrefixIs
  <2>3. SituationOf(other) = SituationOf(face)
    BY <1>1, <2>2, FitsKey
  <2> QED
    BY <1>1, <1>2, <1>5, <2>2, <2>3
<1>7. CASE Staged(other)
  <2>1. LabelAccount(other) = KeyOn("active", other.stage, other.contact, other.balance)
    BY <1>7, LabelIs
  <2>2. CASE n = 1
    <3>1. k = KeyOn("active", All, All, All)
      BY <1>1, <2>1, <2>2, PrefixIs
    <3>2. SituationOf(face) = "active"
      BY <1>1, <3>1, FitsKey
    <3> QED
      BY <1>1, <1>2, <1>5, <3>1, <3>2
  <2>3. CASE n # 1
    <3>1. \E c, d : k = KeyOn("active", other.stage, c, d)
      BY <1>0, <1>1, <2>1, <2>3, PrefixIs
    <3>2. Staged(face) /\ face.stage = other.stage
      <4>1. SituationOf(face) = "active" /\ other.stage \in {All, face.stage}
        BY <1>1, <3>1, FitsKey
      <4> QED
        BY <1>7, <4>1 DEF Proper, Staged
    <3>3. l = KeyOn("active", face.stage, face.contact, face.balance)
      BY <1>3, <3>2
    <3>4. /\ Prefix(l, 2) = KeyOn("active", face.stage, All, All)
          /\ Prefix(l, 3) = KeyOn("active", face.stage, face.contact, All)
          /\ Prefix(l, 4) = KeyOn("active", face.stage, face.contact, face.balance)
      BY <3>3, PrefixIs
    <3>5. CASE n = 2
      <4>1. k = Prefix(l, 2) /\ 2 \in 1 .. 4
        BY <1>1, <2>1, <3>2, <3>4, <3>5, PrefixIs
      <4> QED
        BY <1>1, <1>2, <4>1 DEF PrefixOf
    <3>6. CASE n = 3
      <4>1. k = KeyOn("active", other.stage, other.contact, All)
        BY <1>1, <2>1, <3>6, PrefixIs
      <4>2. other.contact = face.contact
        BY <1>1, <4>1, FitsKey DEF Proper
      <4>3. k = Prefix(l, 3) /\ 3 \in 1 .. 4
        BY <3>2, <3>4, <4>1, <4>2
      <4> QED
        BY <1>1, <1>2, <4>3 DEF PrefixOf
    <3>7. CASE n = 4
      <4>1. k = KeyOn("active", other.stage, other.contact, other.balance)
        BY <1>1, <2>1, <3>7, PrefixIs
      <4>2. other.contact = face.contact /\ other.balance \in {All, face.balance}
        BY <1>1, <4>1, FitsKey DEF Proper
      <4>3. k = Prefix(l, 3) \/ k = Prefix(l, 4)
        BY <3>2, <3>4, <4>1, <4>2
      <4>4. 3 \in 1 .. 4 /\ 4 \in 1 .. 4
        OBVIOUS
      <4> QED
        BY <1>1, <1>2, <4>3, <4>4 DEF PrefixOf
    <3> QED
      BY <1>0, <2>3, <3>5, <3>6, <3>7
  <2> QED
    BY <2>2, <2>3
<1> QED
  BY <1>6, <1>7

\* What is left of a label is as specific as it is long.
LEMMA SpecificityIs ==
  ASSUME NEW k, NEW m \in 1 .. 4, NEW n \in 1 .. 4, m <= n
  PROVE  /\ Specificity(Prefix(k, m)) \in Nat /\ Specificity(Prefix(k, n)) \in Nat
         /\ Specificity(Prefix(k, m)) <= Specificity(Prefix(k, n))
         /\ Specificity(Prefix(k, m)) = Specificity(Prefix(k, n)) => Prefix(k, m) = Prefix(k, n)
<1> DEFINE T(l) == {j \in 1 .. 4 : Prefix(k, l)[j] # All}
<1>1. T(m) \in SUBSET T(n)
  BY DEF Prefix
<1>2. IsFiniteSet(T(n)) /\ IsFiniteSet(T(m))
  <2>0. 1 \in Int /\ 4 \in Int
    OBVIOUS
  <2>1. IsFiniteSet(1 .. 4)
    BY <2>0, FS_Interval, Zenon
  <2>2. T(n) \in SUBSET (1 .. 4) /\ T(m) \in SUBSET (1 .. 4)
    OBVIOUS
  <2> QED
    BY <2>1, <2>2, FS_Subset
<1>3. T(m) = T(n) => Prefix(k, m) = Prefix(k, n)
  <2> SUFFICES ASSUME T(m) = T(n) PROVE Prefix(k, m) = Prefix(k, n)
    OBVIOUS
  <2>1. ASSUME NEW j \in 1 .. 4 PROVE (IF j <= m THEN k[j] ELSE All) = (IF j <= n THEN k[j] ELSE All)
    <3>1. Prefix(k, m)[j] # All <=> Prefix(k, n)[j] # All
      OBVIOUS
    <3> QED
      BY <3>1 DEF Prefix
  <2> QED
    BY <2>1 DEF Prefix
<1>4. Specificity(Prefix(k, m)) = Cardinality(T(m)) /\ Specificity(Prefix(k, n)) = Cardinality(T(n))
  BY DEF Specificity
<1> HIDE DEF T
<1> QED
  BY <1>1, <1>2, <1>3, <1>4, FS_Subset, FS_CardinalityType

\* The keys K after all passes, each a prefix of the label of its account.
Cut(E, faces, L, K, n, size) ==
  /\ \A i \in E : Proper(faces[i])
  /\ L = [i \in E |-> LabelAccount(faces[i])]
  /\ Merging(L, K, n, 1, size, E)
Held(E, faces, K, keys) == \A i \in E : MostSpecific(faces[i], keys) = {K[i]}

\* The segment an account is in is the one that match_account_to_segment finds.
LEMMA OwnSegment ==
  ASSUME NEW E, NEW faces, NEW L, NEW K, NEW n, NEW size, Cut(E, faces, L, K, n, size),
         NEW keys, keys = {K[i] : i \in E}
  PROVE  Held(E, faces, K, keys)
<1> SUFFICES ASSUME \A i \in E : Proper(faces[i]), L = [i \in E |-> LabelAccount(faces[i])],
                    Merging(L, K, n, 1, size, E), NEW i \in E
             PROVE  MostSpecific(faces[i], keys) = {K[i]}
  BY DEF Cut, Held
<1>1. n[i] \in 1 .. 4 /\ K[i] = Prefix(L[i], n[i]) /\ L[i] = LabelAccount(faces[i])
  BY DEF Merging
<1>2. Fits(faces[i], K[i]) /\ K[i] \in keys
  BY <1>1, PrefixFits
<1>3. ASSUME NEW k \in keys, Fits(faces[i], k)
      PROVE  /\ Specificity(k) \in Nat /\ Specificity(K[i]) \in Nat /\ Specificity(k) <= Specificity(K[i])
             /\ Specificity(k) = Specificity(K[i]) => k = K[i]
  <2>1. PICK j \in E : k = K[j]
    OBVIOUS
  <2>2. n[j] \in 1 .. 4 /\ K[j] = Prefix(LabelAccount(faces[j]), n[j])
    BY DEF Merging
  <2>3. PrefixOf(k, LabelAccount(faces[i]))
    BY <1>3, <2>1, <2>2, FittingIsPrefix
  <2>4. PICK m \in 1 .. 4 : k = Prefix(L[i], m)
    BY <1>1, <2>3 DEF PrefixOf
  <2>5. CASE m <= n[i]
    BY <1>1, <2>4, <2>5, SpecificityIs
  <2>6. CASE m > n[i]
    <3>1. m \in n[i] + 1 .. 4
      BY <1>1, <2>6
    <3>2. k = K[i]
      BY <2>1, <2>4, <3>1 DEF Merging
    <3>3. Specificity(K[i]) \in Nat
      BY <1>1, SpecificityIs
    <3> QED
      BY <3>2, <3>3
  <2> QED
    BY <1>1, <2>5, <2>6
<1>4. ASSUME NEW k \in MostSpecific(faces[i], keys) PROVE k = K[i]
  <2>1. k \in keys /\ Fits(faces[i], k) /\ Specificity(K[i]) <= Specificity(k)
    BY <1>2 DEF MostSpecific
  <2> QED
    BY <1>3, <2>1
<1>5. K[i] \in MostSpecific(faces[i], keys)
  BY <1>2, <1>3 DEF MostSpecific
<1> QED
  BY <1>4, <1>5

\* Every account is in one of the situations.
LEMMA SituationsAre ==
  IsFiniteSet(Situations) /\ \A face : SituationOf(face) \in Situations
<1>1. Situations = (({} \cup {"active"}) \cup {"promise"}) \cup {"plan"}
  BY DEF Situations
<1>2. IsFiniteSet({} \cup {"active"})
  BY FS_EmptySet, FS_AddElement
<1>3. IsFiniteSet(({} \cup {"active"}) \cup {"promise"})
  BY <1>2, FS_AddElement
<1>4. IsFiniteSet(Situations)
  BY <1>1, <1>3, FS_AddElement
<1>5. \A face : SituationOf(face) \in Situations
  BY DEF SituationOf, Situations
<1> QED
  BY <1>4, <1>5

\* If a group of all accounts is too small, one segment is left of a situation.
LEMMA FewSegments ==
  ASSUME NEW E, IsFiniteSet(E), NEW faces, NEW L, L = [i \in E |-> LabelAccount(faces[i])],
         NEW K, NEW n, NEW size \in Nat, Merging(L, K, n, 1, size, E), size > Cardinality(E)
  PROVE  Cardinality({K[i] : i \in E}) <= Cardinality(Situations)
<1>1. Cardinality(E) \in Nat
  BY FS_CardinalityType
<1>2. ASSUME NEW i \in E PROVE K[i] = KeyOn(SituationOf(faces[i]), All, All, All)
  <2>1. n[i] \in 1 .. 4 /\ K[i] = Prefix(L[i], n[i])
    BY DEF Merging
  <2>2. n[i] = 1
    <3> SUFFICES ASSUME n[i] # 1 PROVE FALSE
      OBVIOUS
    <3>1. Cardinality(Group(K, E, K[i])) >= size
      BY <2>1 DEF Merging
    <3>2. Group(K, E, K[i]) \in SUBSET E
      BY DEF Group
    <3>3. Cardinality(Group(K, E, K[i])) <= Cardinality(E) /\ Cardinality(Group(K, E, K[i])) \in Nat
      BY <3>2, FS_Subset, FS_CardinalityType
    <3> QED
      BY <1>1, <3>1, <3>3
  <2>3. CASE Staged(faces[i])
    <3>1. L[i] = KeyOn("active", faces[i].stage, faces[i].contact, faces[i].balance)
      BY <2>3, LabelIs
    <3>2. SituationOf(faces[i]) = "active"
      BY <2>3 DEF Staged
    <3> QED
      BY <2>1, <2>2, <3>1, <3>2, PrefixIs
  <2>4. CASE ~Staged(faces[i])
    <3>1. L[i] = KeyOn(SituationOf(faces[i]), All, All, All)
      BY <2>4, LabelIs
    <3> QED
      BY <2>1, <2>2, <3>1, PrefixIs
  <2> QED
    BY <2>3, <2>4
<1> DEFINE T == {KeyOn(s, All, All, All) : s \in Situations}
<1>3. PICK h : h = [s \in Situations |-> KeyOn(s, All, All, All)]
  OBVIOUS
<1>4. h \in Surjection(Situations, T)
  BY <1>3 DEF Surjection
<1>5. IsFiniteSet(T) /\ Cardinality(T) <= Cardinality(Situations)
  BY <1>4, SituationsAre, FS_Surjection
<1>6. {K[i] : i \in E} \in SUBSET T
  BY <1>2, SituationsAre
<1> HIDE DEF T
<1>7. IsFiniteSet({K[i] : i \in E}) /\ Cardinality({K[i] : i \in E}) <= Cardinality(T)
  BY <1>5, <1>6, FS_Subset
<1> QED
  BY <1>5, <1>7, SituationsAre, FS_CardinalityType

\* The least sizes that BuildSegments tries, each at least a fifth above the last.
Sizes(m, h) == h = [k \in 0 .. m |-> IF k = 0 THEN MinSegment ELSE (6 * h[k - 1] + 4) \div 5]

\* build_segments raises the size that a group must have,
LEMMA SizesExist ==
  ASSUME NEW n \in Nat
  PROVE  \E h : Sizes(n, h)
<1> DEFINE S == {m \in Nat : \E h : Sizes(m, h)}
<1>1. 0 \in S
  <2>1. PICK h : h = [k \in 0 .. 0 |-> MinSegment]
    OBVIOUS
  <2>2. Sizes(0, h)
    BY <2>1 DEF Sizes
  <2> QED
    BY <2>2
<1>2. ASSUME NEW m \in Nat, m \in S PROVE m + 1 \in S
  <2>1. PICK h : Sizes(m, h)
    BY <1>2
  <2>2. PICK g : g = [k \in 0 .. m + 1 |-> IF k \in 0 .. m THEN h[k] ELSE (6 * h[m] + 4) \div 5]
    OBVIOUS
  <2>3. ASSUME NEW k \in 0 .. m + 1 PROVE g[k] = IF k = 0 THEN MinSegment ELSE (6 * g[k - 1] + 4) \div 5
    <3>1. CASE k = 0
      BY <2>1, <2>2, <3>1 DEF Sizes
    <3>2. CASE k = m + 1
      BY <2>1, <2>2, <3>2
    <3>3. CASE k # 0 /\ k \in 0 .. m
      <4>1. k - 1 \in 0 .. m /\ g[k - 1] = h[k - 1] /\ g[k] = h[k]
        BY <2>2, <3>3
      <4> QED
        BY <2>1, <3>3, <4>1 DEF Sizes
    <3> QED
      BY <3>1, <3>2, <3>3
  <2>4. Sizes(m + 1, g)
    BY <2>2, <2>3 DEF Sizes
  <2> QED
    BY <2>4
<1> HIDE DEF S
<1>3. Nat \subseteq S
  BY <1>1, <1>2, SetInduction
<1> QED
  BY <1>3 DEF S

\* until every group is merged into that of its situation.
LEMMA SizesGrow ==
  ASSUME NEW n \in Nat, NEW h, Sizes(n, h)
  PROVE  \A k \in 0 .. n : h[k] \in Nat /\ h[k] > k
<1> DEFINE S == {k \in Nat : k <= n => h[k] \in Nat /\ h[k] > k}
<1>1. 0 \in S
  BY SuggestionAssumption DEF Sizes
<1>2. ASSUME NEW k \in Nat, k \in S PROVE k + 1 \in S
  <2>1. CASE k + 1 <= n
    <3>1. h[k] \in Nat /\ h[k] > k /\ k + 1 \in 0 .. n /\ k + 1 # 0 /\ (k + 1) - 1 = k
      BY <1>2, <2>1
    <3>2. h[k + 1] = (6 * h[k] + 4) \div 5
      BY <3>1 DEF Sizes
    <3>3. (6 * h[k] + 4) \div 5 \in Nat /\ (6 * h[k] + 4) \div 5 > h[k]
      BY <3>1
    <3>4. h[k + 1] \in Nat /\ h[k + 1] > k + 1
      BY <3>1, <3>2, <3>3
    <3> QED
      BY <3>4
  <2>2. CASE ~(k + 1 <= n)
    BY <2>2
  <2> QED
    BY <2>1, <2>2
<1> HIDE DEF S
<1>3. Nat \subseteq S
  BY <1>1, <1>2, SetInduction
<1> QED
  BY <1>3 DEF S

\* The accounts that are put into segments.
EligibleOf(faces) == {i \in DOMAIN faces : Eligible(faces[i])}
EligibleFaces(faces) == [i \in EligibleOf(faces) |-> faces[i]]

\* The segments are those of a least size for which they are few enough, or
\* which no group reaches.
Built(faces, size) ==
  /\ BuildSegments(faces) = MergeSmallGroups(GroupAccounts(EligibleFaces(faces)), size)
  /\ \/ Cardinality(DOMAIN BuildSegments(faces)) <= MaxSegments
     \/ size > Cardinality(EligibleOf(faces))

\* It stops there at the latest.
LEMMA BuildIs ==
  ASSUME NEW faces, IsFiniteSet(DOMAIN faces)
  PROVE  \E size \in Nat : Built(faces, size)
<1>0. PICK c : c = Cardinality(EligibleOf(faces)) /\ c \in Nat
  <2>1. EligibleOf(faces) \in SUBSET DOMAIN faces
    BY DEF EligibleOf
  <2> QED
    BY <2>1, FS_Subset, FS_CardinalityType
<1> DEFINE merged(s) == MergeSmallGroups(GroupAccounts(EligibleFaces(faces)), s)
           size == CHOOSE h : h = [k \in 0 .. c + 1 |-> IF k = 0 THEN MinSegment ELSE (6 * h[k - 1] + 4) \div 5]
           fits(k) == Cardinality(DOMAIN merged(size[k])) <= MaxSegments \/ size[k] > c
           raises == CHOOSE k \in 0 .. c + 1 : fits(k) /\ \A j \in 0 .. k - 1 : ~fits(j)
<1>1. BuildSegments(faces) = merged(size[raises])
  BY <1>0 DEF BuildSegments, EligibleFaces, EligibleOf
<1>2. \A k \in 0 .. c + 1 : size[k] \in Nat /\ size[k] > k
  <2>1. c + 1 \in Nat
    BY <1>0
  <2>2. \E h : Sizes(c + 1, h)
    BY <2>1, SizesExist
  <2>3. \E h : h = [k \in 0 .. c + 1 |-> IF k = 0 THEN MinSegment ELSE (6 * h[k - 1] + 4) \div 5]
    BY <2>2 DEF Sizes
  <2>4. size = [k \in 0 .. c + 1 |-> IF k = 0 THEN MinSegment ELSE (6 * size[k - 1] + 4) \div 5]
    BY <2>3
  <2> HIDE DEF size
  <2>5. Sizes(c + 1, size)
    BY <2>4 DEF Sizes
  <2> QED
    BY <2>1, <2>5, SizesGrow
<1> HIDE DEF size, merged
<1>3. \E k \in 0 .. c + 1 : fits(k) /\ \A j \in 0 .. k - 1 : ~fits(j)
  <2> DEFINE S == {k \in Nat : k <= c + 1 /\ fits(k)}
  <2>1. c + 1 \in S
    BY <1>0, <1>2
  <2>2. S \subseteq Nat /\ S # {}
    BY <2>1
  <2>3. PICK q \in S : \A y \in S : q <= y
    <3> HIDE DEF S
    <3> QED
      BY <2>2, Least
  <2>4. \A j \in 0 .. q - 1 : ~fits(j)
    <3> SUFFICES ASSUME NEW j \in 0 .. q - 1, fits(j) PROVE FALSE
      OBVIOUS
    <3>1. j \in S
      BY <1>0, <2>3
    <3> QED
      BY <2>3, <3>1
  <2>5. q \in 0 .. c + 1 /\ fits(q)
    BY <1>0, <2>3
  <2> QED
    BY <2>4, <2>5
<1>4. raises \in 0 .. c + 1 /\ fits(raises)
  <2> HIDE DEF fits
  <2> QED
    BY <1>3
<1> HIDE DEF raises
<1>5. size[raises] \in Nat
  BY <1>2, <1>4
<1>6. Built(faces, size[raises])
  BY <1>0, <1>1, <1>4 DEF Built, merged
<1> QED
  BY <1>5, <1>6

\* The segments of a scope are as SegmentsFit has them, if as many segments
\* are allowed as there are situations.
LEMMA SegmentsAlwaysFit ==
  ASSUME MaxSegments >= Cardinality(Situations),
         NEW faces, IsFiniteSet(DOMAIN faces), \A i \in DOMAIN faces : Proper(faces[i])
  PROVE  SegmentsFit(faces)
<1>1. PICK size \in Nat : Built(faces, size)
  BY BuildIs
<1>2. PICK E : E = EligibleOf(faces)
  OBVIOUS
<1>3. E \subseteq DOMAIN faces /\ IsFiniteSet(E) /\ \A i \in DOMAIN faces : i \in E <=> Eligible(faces[i])
  <2>1. E \in SUBSET DOMAIN faces
    BY <1>2 DEF EligibleOf
  <2> QED
    BY <1>2, <2>1, FS_Subset DEF EligibleOf
<1>4. PICK L : L = [i \in E |-> LabelAccount(faces[i])]
  OBVIOUS
<1>5. PICK g : g = GroupAccounts(EligibleFaces(faces))
  OBVIOUS
<1>6. Groups(g, L, E)
  <2>1. DOMAIN EligibleFaces(faces) = E /\ \A i \in E : EligibleFaces(faces)[i] = faces[i]
    BY <1>2 DEF EligibleFaces
  <2>2. L = [i \in DOMAIN EligibleFaces(faces) |-> LabelAccount(EligibleFaces(faces)[i])]
    BY <1>4, <2>1
  <2> QED
    BY <1>5, <2>1, <2>2, GroupedIs
<1>7. L = [i \in E |-> Prefix(L[i], 4)]
  <2>1. ASSUME NEW i \in E PROVE L[i] = Prefix(L[i], 4)
    <3>1. L[i] = LabelAccount(faces[i])
      BY <1>4
    <3>2. CASE Staged(faces[i])
      <4>1. L[i] = KeyOn("active", faces[i].stage, faces[i].contact, faces[i].balance)
        BY <3>1, <3>2, LabelIs
      <4> QED
        BY <4>1, PrefixIs
    <3>3. CASE ~Staged(faces[i])
      <4>1. L[i] = KeyOn(SituationOf(faces[i]), All, All, All)
        BY <3>1, <3>3, LabelIs
      <4> QED
        BY <4>1, PrefixIs
    <3> QED
      BY <3>2, <3>3
  <2> QED
    BY <1>4, <2>1
<1>8. PICK s : s = BuildSegments(faces)
  OBVIOUS
<1>9. PICK K, n : Merging(L, K, n, 1, size, E) /\ Groups(s, K, E)
  <2>1. s = MergeSmallGroups(g, size)
    BY <1>1, <1>5, <1>8 DEF Built
  <2> QED
    BY <1>3, <1>6, <1>7, <2>1, MergedIs
<1>10. DOMAIN s = {K[i] : i \in E} /\ \A k \in DOMAIN s : s[k] = {i \in E : K[i] = k}
  BY <1>9 DEF Groups, Group
<1>11. Cardinality(DOMAIN s) <= MaxSegments
  <2>1. CASE Cardinality(DOMAIN s) <= MaxSegments
    BY <2>1
  <2>2. CASE size > Cardinality(E)
    <3>1. Cardinality(DOMAIN s) <= Cardinality(Situations)
      BY <1>3, <1>4, <1>9, <1>10, <2>2, FewSegments
    <3>2. Cardinality(DOMAIN s) \in Nat /\ Cardinality(Situations) \in Nat
      <4>1. PICK h : h = [i \in E |-> K[i]]
        OBVIOUS
      <4>2. h \in Surjection(E, DOMAIN s)
        BY <1>10, <4>1 DEF Surjection
      <4>3. IsFiniteSet(DOMAIN s)
        BY <1>3, <4>2, FS_Surjection
      <4> QED
        BY <4>3, SituationsAre, FS_CardinalityType
    <3> QED
      BY <3>1, <3>2, SuggestionAssumption
  <2> QED
    BY <1>1, <1>2, <1>8, <2>1, <2>2 DEF Built
<1>12. ASSUME NEW i \in E PROVE MostSpecific(faces[i], DOMAIN s) = {K[i]}
  <2>1. \A j \in E : Proper(faces[j])
    BY <1>3
  <2>2. PICK keys : keys = {K[j] : j \in E}
    OBVIOUS
  <2>3. Merging(L, K, n, 1, size, E)
    BY <1>9
  <2>4. MostSpecific(faces[i], keys) = {K[i]}
    <3>1. Cut(E, faces, L, K, n, size)
      BY <1>4, <2>1, <2>3 DEF Cut
    <3>2. Held(E, faces, K, keys)
      BY <2>2, <3>1, OwnSegment
    <3> QED
      BY <1>12, <3>2 DEF Held
  <2> QED
    BY <1>10, <2>2, <2>4
<1>13. ASSUME NEW i \in DOMAIN faces
       PROVE  {k \in DOMAIN s : i \in s[k]} = IF Eligible(faces[i]) THEN MostSpecific(faces[i], DOMAIN s) ELSE {}
  <2>1. CASE i \in E
    <3>1. {k \in DOMAIN s : i \in s[k]} = {K[i]}
      BY <1>10, <2>1
    <3> QED
      BY <1>3, <1>12, <2>1, <3>1
  <2>2. CASE i \notin E
    <3>1. {k \in DOMAIN s : i \in s[k]} = {}
      BY <1>10, <2>2
    <3> QED
      BY <1>3, <2>2, <3>1
  <2> QED
    BY <2>1, <2>2
<1>14. ASSUME NEW i \in DOMAIN faces, Eligible(faces[i]) PROVE Cardinality(MostSpecific(faces[i], DOMAIN s)) = 1
  <2>1. i \in E
    BY <1>3, <1>14
  <2> QED
    BY <1>12, <2>1, FS_Singleton
<1> QED
  BY <1>8, <1>11, <1>13, <1>14 DEF SegmentsFit

\* The accounts of a scope are finitely many, and none is classified as "all".
LEMMA FacesProper ==
  ASSUME Stored, NEW s, NEW faces, faces = FacesIn(db, s)
  PROVE  IsFiniteSet(DOMAIN faces) /\ \A i \in DOMAIN faces : Proper(faces[i])
<1>1. DOMAIN faces \in SUBSET DOMAIN db
  BY DEF FacesIn, Table
<1>2. IsFiniteSet(DOMAIN faces)
  BY <1>1, FS_Subset DEF Stored
<1>3. ASSUME NEW i \in DOMAIN faces PROVE Proper(faces[i])
  <2>1. i \in DOMAIN db /\ db[i].kind = "account" /\ faces[i] = db[i].face
    BY <1>3 DEF FacesIn, Table
  <2>2. Typed(db[i])
    BY <2>1 DEF Stored
  <2>3. Takes("account", "face", db[i].face)
    BY <2>1, <2>2, ColumnsAre DEF Typed
  <2> QED
    BY <2>1, <2>3 DEF Takes, Proper
<1> QED
  BY <1>2, <1>3

\* What a saved draft does.
LEMMA SuggestedFits ==
  ASSUME Stored, NEW i \in Table(db, "strategy"), db[i].flow # <<>>
  PROVE  FlowFits(db[i].flow)
<1>1. i \in DOMAIN db /\ db[i].kind = "strategy" /\ Typed(db[i])
  BY DEF Stored, Table
<1>2. Takes("strategy", "flow", db[i].flow)
  BY <1>1, ColumnsAre DEF Typed
<1>3. PICK f : f = db[i].flow
  OBVIOUS
<1>4. Countable(f) /\ ValidateAll(f)
  BY <1>2, <1>3 DEF Takes
<1>5. FlowFits(f)
  BY <1>4, ValidFits
<1> QED
  BY <1>3, <1>5

\* Whatever the accounts of a scope are and whatever the model answers, the segments
\* fit (build_segments, match_account_to_segment), and a flow that is saved does what
\* validate_all checks it for: every way ends at an end step and comes to no step twice,
\* waits between two messages, and has no more than the weekly limit in seven days.
\* config.py allows eight segments, and there are three situations.
THEOREM DraftsAlwaysFit == MaxSegments >= Cardinality(Situations) => (Spec => []DraftsFit)
<1> SUFFICES ASSUME MaxSegments >= Cardinality(Situations) PROVE Spec => []DraftsFit
  OBVIOUS
<1>1. ASSUME Inv PROVE DraftsFit
  <2>1. Stored
    BY <1>1 DEF Inv
  <2>2. ASSUME NEW s PROVE SegmentsFit(FacesIn(db, s))
    <3>1. PICK faces : faces = FacesIn(db, s)
      OBVIOUS
    <3>2. IsFiniteSet(DOMAIN faces) /\ \A i \in DOMAIN faces : Proper(faces[i])
      BY <2>1, <3>1, FacesProper
    <3>3. SegmentsFit(faces)
      BY <3>2, SegmentsAlwaysFit
    <3> QED
      BY <3>1, <3>3
  <2> QED
    BY <2>1, <2>2, SuggestedFits DEF DraftsFit
<1> QED
  BY <1>1, Inductive, PTL
=============================================================================
