----------------------------- MODULE ClientBook -----------------------------
(***************************************************************************)
(* Clients (masters), their portfolios (sub-clients) and what hangs on     *)
(* them, as client_service.py keeps them: saving, activating, deleting,    *)
(* and files of clients.                                                   *)
(*                                                                         *)
(* The number the CRM gave a client or portfolio is its identity.  It is   *)
(* looked for and asserted before a write, in a read of its own; the       *)
(* tables constrain codes and account references only.  "" stands for a    *)
(* number, a code or a name that is not given.                             *)
(***************************************************************************)
EXTENDS Transactions, SequencesExt

Children == {"portfolio", "account", "strategy", "aijob"}

Client(n, c, name) ==
  [kind |-> "client", number |-> n, code |-> c, name |-> name, status |-> "draft",
   ready |-> FALSE, supervised |-> FALSE]
Portfolio(i, n, c, name, status) ==
  [kind |-> "portfolio", client |-> i, number |-> n, code |-> c, name |-> name, status |-> status]

(***************************************************************************)
(* The constraints of the tables: unique codes and references, and foreign *)
(* keys.  Workflow runs and payments ("work") hold on to their account,    *)
(* and nothing deletes them.  <<>> is a portfolio_id that is NULL.         *)
(***************************************************************************)
SameKey(x, y) ==
  /\ x.kind = y.kind
  /\ \/ x.kind = "client" /\ x.code = y.code
     \/ x.kind = "portfolio" /\ x.client = y.client /\ x.code = y.code
     \/ x.kind = "account" /\ x.client = y.client /\ x.ref = y.ref

Attached(d, x) ==
  /\ x.kind \in Children => x.client \in Table(d, "client")
  /\ x.kind \in Children \ {"portfolio"} => x.portfolio = <<>> \/ x.portfolio \in Table(d, "portfolio")
  /\ x.kind \in {"work", "review"} => x.account \in Table(d, "account")

Sound(d) ==
  \A i \in DOMAIN d :
    /\ Attached(d, d[i])
    /\ \A j \in DOMAIN d \ {i} : ~SameKey(d[i], d[j])

(***************************************************************************)
(* Identities.                                                             *)
(***************************************************************************)
Numbered(d, kind, n) == {i \in Table(d, kind) : n # "" /\ d[i].number = n}
Coded(d, c)     == {i \in Table(d, "client") : d[i].code = c}
CodedIn(d, m, c) == {p \in Table(d, "portfolio") : d[p].client = m /\ d[p].code = c}

(* A row is looked for by its number, and by its code if that finds none.  *)
MatchClient(d, n, c) ==
  IF Numbered(d, "client", n) # {} THEN Numbered(d, "client", n) ELSE Coded(d, c)
MatchPortfolio(d, m, n, c) ==
  IF Numbered(d, "portfolio", n) # {} THEN Numbered(d, "portfolio", n) ELSE CodedIn(d, m, c)

(* A number that is set is neither changed nor removed. *)
Rewrites(x, n) == x.number # "" /\ n # x.number

\* mutant: a number may be used by a client and by a portfolio
MasterMayBeSub(d, n) == TRUE
MasterNotSub(d, n) == Numbered(d, "portfolio", n) = {}

ClientRefused(d, n, c, name) ==
  LET found == MatchClient(d, n, c)
      x == d[First(found)]
  IN \/ c = "" \/ name = ""
     \/ found = {} /\ ~MasterNotSub(d, n)
     \/ found # {} /\ \/ Rewrites(x, n)
                      \/ x.number = "" /\ ~MasterNotSub(d, n)
                      \/ c # x.code /\ Coded(d, c) # {}

(* A sub-client number is no master's, and stays with its master. *)
SubRefused(d, m, n) ==
  \/ Numbered(d, "client", n) # {}
  \/ \E p \in Numbered(d, "portfolio", n) : d[p].client # m

PortfolioRefused(d, m, n, c, name) ==
  LET found == MatchPortfolio(d, m, n, c)
      x == d[First(found)]
  IN \/ m \notin Table(d, "client") \/ c = "" \/ name = ""
     \/ SubRefused(d, m, n)
     \/ found # {} /\ (Rewrites(x, n) \/ (c # x.code /\ CodedIn(d, m, c) # {}))

(***************************************************************************)
(* upsert_client and upsert_portfolio.                                     *)
(***************************************************************************)
ClientSaved(d, r, n, c, name) ==
  LET found == MatchClient(d, n, c) i == First(found)
  IN IF found = {} THEN Inserted(d, r, Client(n, c, name))
     ELSE [d EXCEPT ![i].number = IF @ = "" THEN n ELSE @, ![i].code = c, ![i].name = name]

(* A save without a status keeps that of a row that exists. *)
PortfolioSaved(d, r, m, n, c, name, status) ==
  LET found == MatchPortfolio(d, m, n, c) i == First(found)
  IN IF found = {}
     THEN Inserted(d, r, Portfolio(m, n, c, name, IF status = "" THEN "onboarding" ELSE status))
     ELSE [d EXCEPT ![i].number = IF @ = "" THEN n ELSE @, ![i].code = c, ![i].name = name,
                    ![i].status = IF status = "" THEN @ ELSE status]

SaveClient(r) ==
  /\ Next1(r, "save client")
  /\ LET o == Op(r) IN
     Tries(r, ~ClientRefused(db, o.number, o.code, o.name),
              ClientSaved(db, r, o.number, o.code, o.name))

SavePortfolio(r) ==
  /\ Next1(r, "save portfolio")
  /\ LET o == Op(r) IN
     Tries(r, ~PortfolioRefused(db, o.client, o.number, o.code, o.name),
              PortfolioSaved(db, r, o.client, o.number, o.code, o.name, o.status))

(***************************************************************************)
(* update_client and update_portfolio: what the form leaves out ("") stays.*)
(* "ready" stands for profile and branding, filled in for good while the   *)
(* client is a draft.                                                      *)
(***************************************************************************)
\* mutant: what is left out is erased
GivenRaw(new, old) == new
Given(new, old) == IF new = "" THEN old ELSE new

EditClient(r) ==
  /\ Next1(r, "edit client")
  /\ LET o == Op(r) i == o.id
         accepted == /\ i \in Table(db, "client")
                     /\ o.number # "" => ~Rewrites(db[i], o.number)
                     /\ o.number # "" /\ db[i].number = "" =>
                          Numbered(db, "client", o.number) = {} /\ MasterNotSub(db, o.number)
                     /\ o.code # "" => Coded(db, o.code) \subseteq {i}
                     /\ o.ready => db[i].status = "draft"
     IN Tries(r, accepted,
          [db EXCEPT ![i].number = Given(o.number, @), ![i].code = Given(o.code, @),
                     ![i].ready = @ \/ o.ready, ![i].supervised = @ \/ o.supervised])

(* The portfolio that becomes active gets its workflows suggested, in a    *)
(* second transaction.                                                     *)
EditPortfolio(r) ==
  /\ Next1(r, "edit portfolio")
  /\ LET o == Op(r) p == o.id m == db[p].client
         accepted == /\ p \in Table(db, "portfolio")
                     /\ o.code # "" => CodedIn(db, m, o.code) \subseteq {p}
                     /\ o.number # "" => /\ ~Rewrites(db[p], o.number)
                                         /\ db[p].number = "" => ~SubRefused(db, m, o.number)
         becomesActive == o.status = "active" /\ db[p].status # "active"
     IN IF ~accepted THEN GoesOn(r, <<>>)
        ELSE Opens(r, [db EXCEPT ![p].number = Given(o.number, @), ![p].code = Given(o.code, @),
                                 ![p].status = Given(o.status, @)],
                   IF becomesActive
                   THEN <<[do |-> "enqueue", client |-> m, portfolios |-> {p}]>> \o Rest(r)
                   ELSE Rest(r), <<>>)

(* activate_client: profile, branding and a supervisor must be there.      *)
ActivateClient(r) ==
  /\ Next1(r, "activate")
  /\ LET i == Op(r).id
         accepted == i \in Table(db, "client") /\ db[i].ready /\ db[i].supervised
     IN IF ~accepted THEN GoesOn(r, <<>>)
        ELSE Opens(r, [db EXCEPT ![i].status = "active"],
                   <<[do |-> "enqueue client", client |-> i]>> \o Rest(r), <<>>)

(***************************************************************************)
(* Deletions take what hangs on the row, as far as they read it.  Runs and *)
(* payments are not on their lists: the foreign key refuses the whole.     *)
(***************************************************************************)
\* mutant: the work of an account goes with it
PurgedWork(d, gone) ==
  gone \cup {w \in Table(d, "work") \cup Table(d, "review") : d[w].account \in gone}
Purged(d, gone) == gone \cup {i \in Table(d, "review") : d[i].account \in gone}

DeletePortfolio(r) ==
  /\ Next1(r, "delete portfolio")
  /\ LET p == Op(r).id
         gone == {p} \cup {i \in DOMAIN db : db[i].kind \in Children \ {"portfolio"} /\ db[i].portfolio = p}
     IN Tries(r, p \in Table(db, "portfolio"), Without(db, Purged(db, gone)))

DeleteClient(r) ==
  /\ Next1(r, "delete client")
  /\ LET m == Op(r).id
         gone == {m} \cup {i \in DOMAIN db : db[i].kind \in Children /\ db[i].client = m}
     IN Tries(r, m \in Table(db, "client"), Without(db, Purged(db, gone)))

BookStep(r) ==
  \/ SaveClient(r) \/ SavePortfolio(r) \/ EditClient(r) \/ EditPortfolio(r)
  \/ ActivateClient(r) \/ DeletePortfolio(r) \/ DeleteClient(r)

(***************************************************************************)
(* Files of clients.  A CRM file is gone through twice, masters first; a   *)
(* simple file lists clients without numbers.  A row that is refused is    *)
(* counted as failed and the others go on; the rows that are taken, and    *)
(* the record of the import, are committed together.  "fits" is what the   *)
(* profile columns (the domain, in a simple file) must pass; a "flag" is   *)
(* what is_master_client says: "master", "sub" or neither.                 *)
(***************************************************************************)
Nothing == [created |-> 0, updated |-> 0, unchanged |-> 0, failed |-> 0]
NoneRead(d) == [d |-> d, numbers |-> {}, codes |-> {}, subs |-> {}, n |-> Nothing]
Counts(acc, what) == [acc EXCEPT !.n[what] = @ + 1]
Verdict(found) == IF found = {} THEN "created" ELSE "updated"
Same(x, row) == x.number = row.number /\ x.code = row.code /\ x.name = row.name

Imported(kind, n) ==
  [kind |-> "run", of |-> kind, n |-> n,
   status |-> IF n.created + n.updated + n.unchanged = 0 THEN "failed"
              ELSE IF n.failed > 0 THEN "completed with errors" ELSE "completed"]

MasterRejected(acc, row) ==
  LET found == MatchClient(acc.d, row.number, row.code)
  IN \/ row.flag = "?"
     \/ row.parent # "" \/ "" \in {row.number, row.code, row.name} \/ ~row.fits
     \/ row.number \in acc.numbers \/ row.code \in acc.codes
     \/ ~MasterNotSub(acc.d, row.number)
     \/ found # {} /\ Rewrites(acc.d[First(found)], row.number)

MasterRow(acc, r, row) ==
  LET d == acc.d
      found == MatchClient(d, row.number, row.code)
      taken == [acc EXCEPT !.numbers = @ \cup {row.number}, !.codes = @ \cup {row.code}]
  IN IF row.flag = "sub" THEN acc
     ELSE IF MasterRejected(acc, row) THEN Counts(acc, "failed")
     ELSE IF found # {} /\ Same(d[First(found)], row) THEN Counts(taken, "unchanged")
     ELSE IF ClientRefused(d, row.number, row.code, row.name) THEN Counts(acc, "failed")
     ELSE Counts([taken EXCEPT !.d = ClientSaved(d, r, row.number, row.code, row.name)], Verdict(found))

\* The master a sub-client row names, in the table or earlier in the file.
ParentOf(d, row) == Numbered(d, "client", row.parent)

SubRejected(acc, row) ==
  LET d == acc.d
      m == First(ParentOf(d, row))
      found == MatchPortfolio(d, m, row.number, row.code)
  IN \/ "" \in {row.parent, row.code, row.name}
     \/ row.number # "" /\ row.number \in acc.numbers
     \/ <<row.parent, row.code>> \in acc.subs
     \/ ParentOf(d, row) = {}
     \/ SubRefused(d, m, row.number)
     \/ found # {} /\ Rewrites(d[First(found)], row.number)

(* A sub-client the file updates goes back to onboarding. *)
SubRow(acc, r, row) ==
  LET d == acc.d
      m == First(ParentOf(d, row))
      found == MatchPortfolio(d, m, row.number, row.code)
      taken == [acc EXCEPT !.numbers = @ \cup ({row.number} \ {""}),
                           !.subs = @ \cup {<<row.parent, row.code>>}]
  IN IF row.flag # "sub" THEN acc
     ELSE IF SubRejected(acc, row) THEN Counts(acc, "failed")
     ELSE IF found # {} /\ Same(d[First(found)], row) THEN Counts(taken, "unchanged")
     ELSE IF PortfolioRefused(d, m, row.number, row.code, row.name) THEN Counts(acc, "failed")
     ELSE Counts([taken EXCEPT !.d = PortfolioSaved(d, r, m, row.number, row.code, row.name, "onboarding")],
                 Verdict(found))

(* A client that exists has its new name before the domain of the row is   *)
(* refused.                                                                *)
SimpleRow(acc, r, row) ==
  LET d == acc.d
      found == Coded(d, row.code)
      read == [acc EXCEPT !.codes = @ \cup {row.code}]
  IN IF "" \in {row.code, row.name} \/ row.code \in acc.codes THEN Counts(acc, "failed")
     ELSE IF found # {} /\ d[First(found)].name = row.name THEN Counts(read, "unchanged")
     ELSE IF ClientRefused(d, "", row.code, row.name) \/ (found = {} /\ ~row.fits)
     THEN Counts(read, "failed")
     ELSE Counts([read EXCEPT !.d = ClientSaved(d, r, "", row.code, row.name)],
                 IF row.fits THEN Verdict(found) ELSE "failed")

ClientRow(acc, r, pass, row) ==
  CASE pass = "masters" -> MasterRow(acc, r, row)
    [] pass = "subs" -> SubRow(acc, r, row)
    [] OTHER -> SimpleRow(acc, r, row)

Passed(acc, r, pass, rows) ==
  LET after[n \in 0 .. Len(rows)] ==
        IF n = 0 THEN acc ELSE ClientRow(after[n - 1], r, pass, rows[n])
  IN after[Len(rows)]

ClientFileRead(d, r, file) ==
  IF file.crm THEN Passed(Passed(NoneRead(d), r, "masters", file.rows), r, "subs", file.rows)
  ELSE Passed(NoneRead(d), r, "simple", file.rows)

ClientFileTaken(d, r, file) ==
  LET acc == ClientFileRead(d, r, file) IN Inserted(acc.d, r, Imported("client", acc.n))
=============================================================================
