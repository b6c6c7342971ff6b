--------------------------- MODULE Administration ---------------------------
(***************************************************************************)
(* The administrative requests of the suite together: clients and          *)
(* portfolios, the files of clients and accounts, the suggestion jobs, and *)
(* the users.  Each is a program of transactions (Transactions); any of    *)
(* them may come between the read and the commit of another, and the       *)
(* process may die, or the database fail at a commit, between two.         *)
(***************************************************************************)
EXTENDS Intake, Access

CONSTANTS
  Stories   \* what a behaviour starts with: [rows, todo, answers, faults]

SoundAll(d) == Sound(d) /\ SoundAccess(d)

(***************************************************************************)
(* The columns of the tables, and what a column takes.                     *)
(***************************************************************************)
Columns ==
  [client |-> {"kind", "number", "code", "name", "status", "ready", "supervised"},
   portfolio |-> {"kind", "client", "number", "code", "name", "status"},
   account |-> {"kind", "client", "portfolio", "ref", "face", "by"},
   strategy |-> {"kind", "client", "portfolio", "ai", "by", "flow"},
   aijob |-> {"kind", "client", "portfolio", "status", "counted"},
   job |-> {"kind", "of", "status", "run"}, run |-> {"kind", "of", "n", "status"},
   review |-> {"kind", "account"}, work |-> {"kind", "account"},
   user |-> {"kind", "email", "org", "super", "status", "password", "set"},
   session |-> {"kind", "user", "live", "with"}, refresh |-> {"kind", "user", "session", "live"},
   link |-> {"kind", "user", "of", "unused"}, use |-> {"kind", "link"},
   membership |-> {"kind", "user", "role"}, role |-> {"kind", "name", "code", "wide", "builtin"},
   may |-> {"kind", "role", "permission"}, assignment |-> {"kind", "user", "product"},
   entitlement |-> {"kind", "org", "product", "granted"}, product |-> {"kind", "code", "active"},
   org |-> {"kind", "name"}]

Statuses ==
  [client |-> {"draft", "active"}, portfolio |-> {"onboarding", "active", "paused"},
   job |-> {"queued", "running", "completed", "failed"}, run |-> Final \cup {"processing"},
   aijob |-> {"pending", "running", "skipped", "done", "failed"},
   user |-> {"invited", "active", "disabled"}]

AccountFiles == {"account_validate", "account_upload"}
Countable(f) == IsFiniteSet(DOMAIN f.steps) /\ \A id \in DOMAIN f.steps : f.steps[id].days \in Nat

\* "all" is no stage and no contact state; flow is <<>> if nobody suggested it.
Takes(kind, c, v) ==
  /\ c = "status" => v \in Statuses[kind]
  /\ c \in {"code", "name"} /\ kind \in {"client", "portfolio"} => v # ""
  /\ c \in {"live", "unused"} => v \in BOOLEAN
  /\ c = "of" /\ kind = "job" => v \in AccountFiles \cup {"client_upload"}
  /\ c = "face" => v.stage # All /\ v.contact # All
  /\ c = "flow" /\ v # <<>> => Countable(v) /\ ValidateAll(v)

Typed(x) ==
  /\ x.kind \in DOMAIN Columns /\ x = [c \in Columns[x.kind] |-> x[c]]
  /\ \A c \in Columns[x.kind] : Takes(x.kind, c, x[c])

(***************************************************************************)
(* What a behaviour may start with: rows that obey the constraints, left   *)
(* by others than the requests that follow and one after the other; and    *)
(* requests the routes accept, of which each sets one password at most;    *)
(* what follows an upload or the enqueueing of a suggestion job is not     *)
(* asked for by itself.                                                    *)
(***************************************************************************)
WithFile == {"upload", "claim", "preview", "begin", "link", "import", "client file"}
Classed(rows) == \A n \in 1 .. Len(rows) : Takes("account", "face", rows[n].face)
HasAccounts(o) ==
  IF o.do \in {"upload", "claim"} THEN o.type \in AccountFiles
  ELSE o.do \in {"preview", "begin", "link", "import"}

Asked(o) ==
  /\ o.do \in {"save portfolio", "edit portfolio"} => o.status \in {""} \cup Statuses.portfolio
  /\ o.do \in {"create user", "edit person"} => o.status \in Statuses.user
  /\ o.do \in {"upload", "claim"} => o.type \in AccountFiles \cup {"client_upload"}
  /\ o.do = "finish" => o.status \in {"done", "failed"}
  /\ o.do \in {"create role", "update role"} => IsFiniteSet(o.permissions)
  /\ o.do \in {"save person", "edit person"} => IsFiniteSet(o.products)
  /\ o.do = "enqueue" => IsFiniteSet(o.portfolios)
  /\ o.do \in WithFile => Len(o.file.rows) \in Nat
  /\ HasAccounts(o) => Classed(o.file.rows)

Setting == {"activate account", "reset", "change password"}
Settings(t) == {n \in DOMAIN t : t[n].do \in Setting}
Program(t) ==
  /\ Len(t) \in Nat /\ t = [n \in 1 .. Len(t) |-> t[n]]
  /\ \A n \in 1 .. Len(t) : Asked(t[n])
  /\ \A n, m \in Settings(t) : n = m

Continued == {"claim", "preview", "begin", "link", "import", "client file", "close", "fail"}
NoneOpen(t) == \A n \in 1 .. Len(t) : t[n].do \notin Continued
Background == {"process", "gates", "suggest", "finish"}
NoneBehind(t) == \A n \in 1 .. Len(t) : t[n].do \notin Background

(* A number is on one client, or on portfolios of one client.              *)
Siblings(d, i, j) == i \in Table(d, "portfolio") /\ j \in Table(d, "portfolio") /\ d[i].client = d[j].client

OneEach(d) ==
  \A i, j \in Table(d, "client") \cup Table(d, "portfolio") :
    d[i].number = d[j].number /\ d[i].number # "" => i = j \/ Siblings(d, i, j)

(* The run a job leads to is there, and has ended if the job is completed; *)
(* the accounts of an import are there once its run has ended.             *)
Whole(d) ==
  /\ \A j \in Table(d, "job") : d[j].run # <<>> =>
       d[j].run \in Table(d, "run") /\ (d[j].status = "completed" => d[d[j].run].status \in Final)
  /\ \A i \in Table(d, "account") : d[i].by # <<>> => d[i].by \in Table(d, "run") /\ d[d[i].by].status \in Final

Orderly(d) ==
  /\ Whole(d) /\ OneEach(d)
  /\ \A i, j \in Table(d, "refresh") :
       d[i].live /\ d[j].live /\ d[i].session = d[j].session => i = j
  /\ \A i \in Table(d, "use") : d[i].link \in Table(d, "link") /\ ~d[d[i].link].unused
  /\ \A u \in Table(d, "user") : d[u].set = <<>>
  /\ \A x \in Table(d, "strategy") : d[x].ai => d[x].by[1] = x[1]

StoryAssumption(s) ==
  /\ IsFiniteSet(DOMAIN s.rows) /\ s.rows = [i \in DOMAIN s.rows |-> s.rows[i]]
  /\ \A i, j \in DOMAIN s.rows : i[1] = j[1] /\ i[1] \notin Requests
  /\ SoundAll(s.rows) /\ Orderly(s.rows) /\ \A i \in DOMAIN s.rows : Typed(s.rows[i])
  /\ DOMAIN s.todo = Requests
  /\ \A r \in Requests : Program(s.todo[r]) /\ NoneOpen(s.todo[r]) /\ NoneBehind(s.todo[r])
  /\ \A flows \in s.answers : \A n \in DOMAIN flows : n \in Nat /\ Countable(flows[n])
  /\ s.faults \in Nat

ASSUME AdministrationAssumption == \A s \in Stories : StoryAssumption(s)

-----------------------------------------------------------------------------
Init == \E s \in Stories : StartsWith(s)

Commit(r) == r \in DOMAIN plan /\ Commits(r, SoundAll(After(r)))

Next == Die \/ \E r \in Requests : BookStep(r) \/ IntakeStep(r) \/ AccessStep(r) \/ Commit(r) \/ Refused(r)

Spec == Init /\ [][Next]_vars

-----------------------------------------------------------------------------
Overlapped(i, j) == i[1] = j[1] \/ {i[1], j[1]} \in met

(* The rows keep their shape and the constraints of the tables, and every  *)
(* client and portfolio keeps a code and a name: an edit or a file leaves  *)
(* no blank behind.                                                        *)
TypeOK ==
  /\ SoundAll(db)
  /\ \A i \in DOMAIN db : Typed(db[i])
  /\ DOMAIN plan \subseteq Requests /\ faults \in 0 .. story.faults

(* Identities that the tables do not constrain are unique all the same, as *)
(* long as requests come one after the other: no number is on two clients  *)
(* or portfolios (_assert_master_not_sub, _assert_sub_identity), but for   *)
(* two portfolios of one client, of which update_portfolio lets the second *)
(* take the number of the first.  And no scope gets the drafts of two      *)
(* suggestion jobs unless the two that enqueued them overlapped (enqueue). *)
DuplicatesExplained ==
  /\ met = {} => OneEach(db)
  /\ \A x, y \in Table(db, "strategy") :
       db[x].ai /\ db[y].ai /\ ScopeOf(db[x]) = ScopeOf(db[y]) => Overlapped(db[x].by, db[y].by)

(* What an import wrote is seen together with its summary, although its    *)
(* run, its rows and the close of its job are three commits, of which any  *)
(* may fail (process_account_file, run_import_job): no account carries a   *)
(* run that has not ended, and a job that is completed does not lead to    *)
(* such a run.  A job that is marked failed may have left all its          *)
(* accounts: it did if only its close failed.                              *)
NothingHalfImported ==
  /\ \A i \in Table(db, "account") : db[i].by # <<>> => db[db[i].by].status \in Final
  /\ \A j \in Table(db, "job") :
       db[j].status = "completed" /\ db[j].run # <<>> => db[db[j].run].status \in Final

(* No deletion takes an account that has runs or payments, even one that   *)
(* got them while the deletion was under way (delete_client,               *)
(* delete_portfolio, and the foreign keys).                                *)
HistoryKept ==
  [][\A w \in Table(db, "work") : w \in DOMAIN db' /\ db[w].account \in DOMAIN db']_vars

(* The preview of a file counts what the upload of the same file would     *)
(* count on the same tables, although the one compares every row with the  *)
(* tables and the other with what it has already written.                  *)
PreviewHonest ==
  \A r \in Requests : \A n \in DOMAIN story.todo[r] :
    LET o == story.todo[r][n] IN
    o.do = "upload" /\ o.type \in AccountFiles /\ o.file.readable =>
      Preview(db, o.file.rows) = AccountsTaken(db, r, <<>>, o.file.rows).n

(* The segments of a scope take each eligible account once, fit into       *)
(* MaxSegments, and the one an account is counted in is the one            *)
(* match_account_to_segment finds for it when it is enrolled.              *)
SegmentsFit(faces) ==
  LET segments == BuildSegments(faces)
  IN /\ Cardinality(DOMAIN segments) <= MaxSegments
     /\ \A i \in DOMAIN faces :
          {k \in DOMAIN segments : i \in segments[k]} =
            IF Eligible(faces[i]) THEN MostSpecific(faces[i], DOMAIN segments) ELSE {}
     /\ \A i \in DOMAIN faces : Eligible(faces[i]) => Cardinality(MostSpecific(faces[i], DOMAIN segments)) = 1

(* Every way through a draft ends at an end step, comes to no step twice,  *)
(* has a Wait between two messages, and has no more than the weekly limit  *)
(* of messages in seven days.                                              *)
Ways(f) ==
  {p \in UNION {[1 .. n -> DOMAIN f.steps] : n \in 1 .. Cardinality(DOMAIN f.steps) + 1} :
     p[1] = f.entry /\ \A n \in 1 .. Len(p) - 1 : p[n + 1] \in Links(f.steps[p[n]])}

FlowFits(f) ==
  \A p \in Ways(f) :
    LET at(n) == f.steps[p[n]]
        sends == {n \in DOMAIN p : at(n).kind = "Communication"}
        day[k \in 0 .. Len(p)] == IF k = 0 THEN 0 ELSE day[k - 1] + at(k).days
    IN /\ Len(p) <= Cardinality(DOMAIN f.steps)
       /\ Links(at(Len(p))) = {} => at(Len(p)).kind \in EndStepKinds
       /\ \A n, m \in sends : n < m =>
            /\ \E k \in n + 1 .. m - 1 : at(k).kind = "Wait"
            /\ Cardinality(sends \cap n .. m) > Limits.weekly => day[m] - day[n] >= 7

DraftsFit ==
  /\ \A m \in Table(db, "client") : \A p \in PortfoliosOf(db, m) \cup {<<>>} :
       SegmentsFit(FacesIn(db, [client |-> m, portfolio |-> p]))
  /\ \A i \in Table(db, "strategy") : db[i].flow # <<>> => FlowFits(db[i].flow)

(* What the checks of the requests on users promise holds unless two of    *)
(* them overlapped: one live session ("Single active login session per     *)
(* user"), one live refresh token of a session, one usable link of a kind, *)
(* a link used once, and permissions of a role that are those of one edit. *)
Alike(x, y, kind, columns) ==
  x.kind = kind /\ y.kind = kind /\ \A c \in columns : x[c] = y[c]

AccessExplained ==
  \A i, j \in DOMAIN db :
    LET x == db[i] y == db[j] IN
    i # j =>
      /\ \/ Alike(x, y, "session", {"user", "live"}) /\ x.live
         \/ Alike(x, y, "link", {"user", "of", "unused"}) /\ x.unused
         \/ Alike(x, y, "use", {"link"})
         \/ Alike(x, y, "may", {"role"})
         => Overlapped(i, j)
      /\ Alike(x, y, "refresh", {"session", "live"}) /\ x.live => met # {}

(* After a password was reset, no session lives that was opened with       *)
(* another password, unless it was being opened meanwhile.  A password     *)
(* changed by its owner keeps the sessions (reset_password,                *)
(* change_password).                                                       *)
OldPasswordOut ==
  \A s \in Table(db, "session") :
    LET u == db[db[s].user] IN
    db[s].live /\ u.set # <<>> /\ u.set[2] = "reset" /\ db[s].with # u.password
      => Overlapped(s, u.set)

(* The last Operations Admin is not deleted: a deletion that leaves none   *)
(* overlapped with another request (purge_user_identity).                  *)
AdminKept ==
  [][Admins(db) # {} /\ Admins(db') = {} =>
       \/ \E m \in Admins(db) : m \in DOMAIN db'
       \/ \E r \in DOMAIN plan \ DOMAIN plan' : \E pair \in met : r \in pair]_vars
=============================================================================
