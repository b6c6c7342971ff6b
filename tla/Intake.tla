------------------------------- MODULE Intake -------------------------------
(***************************************************************************)
(* Files of accounts and clients, from their upload to the draft workflows *)
(* suggested for the accounts (import_job_service.py, import_service.py,   *)
(* ai_suggest_job_service.py, workflow_suggestion/service.py).  The API    *)
(* process runs an import, and the suggestion jobs it leads to, as a       *)
(* background task of the request.                                         *)
(*                                                                         *)
(* A scope is [client, portfolio]; portfolio <<>> stands for the accounts  *)
(* of the client itself.  What an import tells the runs and strategies of  *)
(* the accounts it touches is in WorkflowRun and WorkflowEnrollment.       *)
(***************************************************************************)
EXTENDS ClientBook, Suggestion

Final == {"completed", "completed with errors", "failed"}

(***************************************************************************)
(* Enqueueing suggestion jobs.                                             *)
(***************************************************************************)
InScope(x, s) == x.client = s.client /\ x.portfolio = s.portfolio
HasAiWorkflows(d, s) == \E i \in Table(d, "strategy") : d[i].ai /\ InScope(d[i], s)

Blocking == {"pending", "running"}

Enqueued(d, r, scopes) ==
  LET served(s) == HasAiWorkflows(d, s) \/ \E i \in Table(d, "aijob") : d[i].status \in Blocking /\ InScope(d[i], s)
      job(s) == [kind |-> "aijob", client |-> s.client, portfolio |-> s.portfolio,
                 status |-> "pending", counted |-> FALSE]
  IN InsertedAll(d, r, SetToSeq({job(s) : s \in {t \in scopes : ~served(t)}}))

Processing(d, e) ==
  LET ids == Table(e, "aijob") \ Table(d, "aijob")
  IN SetToSeq({[do |-> "process", id |-> i] : i \in ids})

EnqueuesNow(r, scopes) ==
  LET e == Enqueued(db, r, scopes)
  IN IF e = db THEN GoesOn(r, Rest(r)) ELSE Opens(r, e, Processing(db, e) \o Rest(r), <<>>)

Scopes(m, portfolios) == {[client |-> m, portfolio |-> p] : p \in portfolios}
PortfoliosOf(d, m) == {p \in Table(d, "portfolio") : d[p].client = m}

(* After a portfolio became active.                                        *)
Enqueue(r) ==
  /\ Next1(r, "enqueue")
  /\ EnqueuesNow(r, Scopes(Op(r).client, Op(r).portfolios))

EnqueueForClient(r) ==
  /\ Next1(r, "enqueue client")
  /\ LET m == Op(r).client IN EnqueuesNow(r, Scopes(m, PortfoliosOf(db, m) \cup {<<>>}))

RequeueMissing(r) ==
  /\ Next1(r, "requeue")
  /\ LET active == {m \in Table(db, "client") : db[m].status = "active"}
         scopes(m) == Scopes(m, {p \in PortfoliosOf(db, m) : db[p].status = "active"} \cup {<<>>})
     IN EnqueuesNow(r, UNION {scopes(m) : m \in active})

(***************************************************************************)
(* A suggestion job.  What it does after its claim is in a "try", of which *)
(* a commit that fails marks the job failed; a job row that was deleted    *)
(* meanwhile ends it quietly.  The claim and that mark are not: the rest   *)
(* of the task is lost with them.                                          *)
(***************************************************************************)
Finishing(id, status) == <<[do |-> "finish", id |-> id, status |-> status]>>

ClaimSuggestion(r) ==
  /\ Next1(r, "process")
  /\ LET id == Op(r).id
     IN IF id \in Table(db, "aijob") /\ db[id].status = "pending"
        THEN Opens(r, [db EXCEPT ![id].status = "running"], <<[do |-> "gates", id |-> id]>> \o Rest(r), <<>>)
        ELSE GoesOn(r, Rest(r))

ScopeOf(job) == [client |-> job.client, portfolio |-> job.portfolio]
FacesIn(d, s) ==
  LET accounts == {i \in Table(d, "account") : InScope(d[i], s)}
  IN [i \in accounts |-> d[i].face]

GatesOpen(d, s) ==
  /\ s.client \in DOMAIN d /\ d[s.client].status = "active"
  /\ s.portfolio # <<>> => s.portfolio \in DOMAIN d /\ d[s.portfolio].status = "active"
  /\ \E i \in DOMAIN FacesIn(d, s) : Eligible(FacesIn(d, s)[i])

EvaluateGates(r) ==
  /\ Next1(r, "gates")
  /\ LET id == Op(r).id s == ScopeOf(db[id])
     IN IF id \notin Table(db, "aijob") THEN GoesOn(r, Rest(r))
        ELSE IF ~GatesOpen(db, s) \/ HasAiWorkflows(db, s)
        THEN Opens(r, [db EXCEPT ![id].status = "skipped"], Rest(r), Finishing(id, "failed") \o Rest(r))
        ELSE \/ Opens(r, [db EXCEPT ![id].counted = TRUE], <<[do |-> "suggest", id |-> id]>> \o Rest(r),
                      Finishing(id, "failed") \o Rest(r))
             \/ \* there is no active user to run it as
                Opens(r, [db EXCEPT ![id].status = "failed"], Rest(r), Finishing(id, "failed") \o Rest(r))

(* suggest_workflows reads the scope, asks the model, and saves the drafts *)
(* of all segments in one commit, or none.  The notification after the     *)
(* save commits by itself, and fails the job if it fails.                  *)
Drafts(d, r, id, flows) ==
  LET keys == SetToSeq(DOMAIN flows)
  IN InsertedAll(d, r, [n \in DOMAIN keys |->
       [kind |-> "strategy", client |-> d[id].client, portfolio |-> d[id].portfolio,
        ai |-> TRUE, by |-> id, flow |-> flows[keys[n]]]])

Suggest(r) ==
  /\ Next1(r, "suggest")
  /\ LET id == Op(r).id
         finish(status) == Finishing(id, status) \o Rest(r)
         segments == DOMAIN BuildSegments(FacesIn(db, ScopeOf(db[id])))
     IN IF id \notin Table(db, "aijob") THEN GoesOn(r, Rest(r))
        ELSE \E answers \in [segments -> story.answers] :
          IF segments = {} \/ ~Suggested(answers) THEN GoesOn(r, finish("failed"))
          ELSE \E status \in {"done", "failed"} :
                 Opens(r, Drafts(db, r, id, Workflows(answers)), finish(status), finish("failed"))

FinishSuggestion(r) ==
  /\ Next1(r, "finish")
  /\ LET id == Op(r).id
     IN IF id \notin Table(db, "aijob") THEN GoesOn(r, Rest(r))
        ELSE Opens(r, [db EXCEPT ![id].status = Op(r).status], Rest(r),
                   IF Op(r).status = "done" THEN Finishing(id, "failed") \o Rest(r) ELSE <<>>)

(***************************************************************************)
(* The rows of a file of accounts.  The client a row belongs to is named   *)
(* by its code; a row without it is resolved by what the column of client  *)
(* numbers holds, a code mostly.                                           *)
(***************************************************************************)
Resolved(d, row) ==
  LET named(c, sub) == [code |-> c, sub |-> sub]
      through(p) == named(d[d[p].client].code, IF row.sub # "" THEN row.sub ELSE d[p].code)
      coded == {p \in Table(d, "portfolio") : d[p].code = row.number}
  IN IF row.client # "" THEN named(row.client, row.sub)
     ELSE IF Coded(d, row.number) # {} THEN named(row.number, row.sub)
     ELSE IF Cardinality(coded) = 1 THEN through(First(coded))
     ELSE IF Numbered(d, "portfolio", row.number) # {} THEN through(First(Numbered(d, "portfolio", row.number)))
     ELSE IF Numbered(d, "client", row.number) # {}
     THEN named(d[First(Numbered(d, "client", row.number))].code, row.sub)
     ELSE named("", "")

Home(d, named) ==
  LET m == First(Coded(d, named.code))
  IN [client |-> m, portfolio |-> IF named.sub = "" THEN <<>> ELSE First(CodedIn(d, m, named.sub))]
Unknown(d, named) ==
  \/ Coded(d, named.code) = {}
  \/ named.sub # "" /\ CodedIn(d, First(Coded(d, named.code)), named.sub) = {}

Existing(d, home, ref) == {i \in Table(d, "account") : d[i].client = home.client /\ d[i].ref = ref}

IsUnchanged(x, home, row) == x.portfolio = home.portfolio /\ x.face = row.face

\* mutant: an account may come twice in a file
Repeatable(keys, key) == FALSE
Repeated(keys, key) == key \in keys

(* What a row is refused for; a row that cannot be resolved is forgotten,  *)
(* the key of another is remembered even if its client is unknown.         *)
Unresolved(d, row) == ~row.fine \/ Resolved(d, row).code = ""
KeyOf(d, row) == <<Resolved(d, row).code, row.ref>>
Remember(acc, d, row) == IF Unresolved(d, row) THEN acc ELSE [acc EXCEPT !.keys = @ \cup {KeyOf(d, row)}]
Rejected(acc, d, row) ==
  Unresolved(d, row) \/ Repeated(acc.keys, KeyOf(d, row)) \/ Unknown(d, Resolved(d, row))

Read(d) == [d |-> d, keys |-> {}, touched |-> {}, n |-> Nothing]
Found(d, home, row) ==
  LET found == Existing(d, home, row.ref)
  IN IF found = {} THEN "created" ELSE IF IsUnchanged(d[First(found)], home, row) THEN "unchanged" ELSE "updated"

(* validate_account_file: the rows are compared with the table as it is.   *)
PreviewRow(acc, row) ==
  LET d == acc.d
  IN IF Rejected(acc, d, row) THEN Counts(Remember(acc, d, row), "failed")
     ELSE Counts(Remember(acc, d, row), Found(d, Home(d, Resolved(d, row)), row))
Preview(d, rows) ==
  LET after[n \in 0 .. Len(rows)] ==
        IF n = 0 THEN Read(d) ELSE PreviewRow(after[n - 1], rows[n])
  IN after[Len(rows)].n

(* An account whose status asks for a review gets one, unless one is open. *)
Reviewed(d, r, i) ==
  IF d[i].face.status # "review" \/ \E v \in Table(d, "review") : d[v].account = i THEN d
  ELSE Inserted(d, r, [kind |-> "review", account |-> i])

Upserted(d, r, run, home, row) ==
  LET found == Existing(d, home, row.ref) i == First(found)
      account == [kind |-> "account", client |-> home.client, portfolio |-> home.portfolio,
                  ref |-> row.ref, face |-> row.face, by |-> run]
  IN IF found = {} THEN Reviewed(Inserted(d, r, account), r, Fresh(d, r))
     ELSE IF IsUnchanged(d[i], home, row) THEN d
     ELSE Reviewed([d EXCEPT ![i] = account], r, i)

AccountRow(acc, r, run, row) ==
  LET d == acc.d home == Home(d, Resolved(d, row))
  IN IF Rejected(acc, d, row) THEN Counts(Remember(acc, d, row), "failed")
     ELSE [Counts(Remember(acc, d, row), Found(d, home, row)) EXCEPT
             !.d = Upserted(d, r, run, home, row), !.touched = @ \cup {home}]

AccountsTaken(d, r, run, rows) ==
  LET after[n \in 0 .. Len(rows)] ==
        IF n = 0 THEN Read(d) ELSE AccountRow(after[n - 1], r, run, rows[n])
  IN after[Len(rows)]

(***************************************************************************)
(* The life of an import job.                                              *)
(***************************************************************************)
Upload(r) ==
  /\ Next1(r, "upload")
  /\ LET o == Op(r) id == Fresh(db, r)
     IN Opens(r, Inserted(db, r, [kind |-> "job", of |-> o.type, status |-> "queued", run |-> <<>>]),
              <<[do |-> "claim", id |-> id, type |-> o.type, file |-> o.file]>> \o Rest(r), <<>>)

Failing(id) == <<[do |-> "fail", id |-> id]>>
\* The first transaction of the work a job of a type does.
Work(type) == CASE type = "account_validate" -> "preview"
                [] type = "account_upload" -> "begin"
                [] type = "client_upload" -> "client file"

\* run_import_job leaves a job alone that is gone or has ended.  The type it
\* reads from the job is the one of the upload: nothing changes it.
Open(id) == id \in Table(db, "job") /\ db[id].status \notin {"completed", "failed"}

Claim(r) ==
  /\ Next1(r, "claim")
  /\ LET o == Op(r)
     IN IF ~Open(o.id) THEN GoesOn(r, Rest(r))
        ELSE Opens(r, [db EXCEPT ![o.id].status = "running"],
              <<[do |-> Work(o.type), id |-> o.id, file |-> o.file]>> \o Rest(r), Failing(o.id))

Closing(o, run) == <<[do |-> "close", id |-> o.id, run |-> run]>>

PreviewFile(r) ==
  /\ Next1(r, "preview")
  /\ GoesOn(r, Closing(Op(r), <<>>) \o Rest(r))

(* The run is committed before the rows are worked, for those who poll.    *)
Begin(r) ==
  /\ Next1(r, "begin")
  /\ LET o == Op(r) run == Fresh(db, r)
         row(status) == [kind |-> "run", of |-> "account", n |-> Nothing, status |-> status]
     IN IF o.file.readable
        THEN Opens(r, Inserted(db, r, row("processing")),
                   <<[do |-> "link", id |-> o.id, run |-> run, file |-> o.file]>> \o Rest(r), Failing(o.id))
        ELSE Opens(r, Inserted(db, r, row("failed")), Closing(o, run) \o Rest(r), Failing(o.id))

Link(r) ==
  /\ Next1(r, "link")
  /\ LET o == Op(r)
         work == <<[do |-> "import", id |-> o.id, run |-> o.run, file |-> o.file]>> \o Rest(r)
     IN IF o.id \notin Table(db, "job") THEN GoesOn(r, work)
        ELSE Opens(r, [db EXCEPT ![o.id].run = o.run], work, Failing(o.id))

Summed(d, run, n) ==
  IF run \in Table(d, "run") THEN [d EXCEPT ![run].n = n, ![run].status = Imported("account", n).status] ELSE d

\* mutant: each row is committed by itself
RowByRow(r, o, acc) ==
  IF Len(o.file.rows) > 1
  THEN Opens(r, AccountsTaken(db, r, o.run, <<Head(o.file.rows)>>).d,
             <<[o EXCEPT !.file.rows = Tail(@)]>> \o Rest(r), Failing(o.id))
  ELSE LET e == Summed(acc.d, o.run, acc.n)
       IN Opens(r, e, Closing(o, o.run) \o Rest(r), Failing(o.id))

AllRows(r, o, acc) ==
  LET d == Summed(acc.d, o.run, acc.n)
      e == IF d[o.run].status = "failed" THEN d ELSE Enqueued(d, r, acc.touched)
  IN Opens(r, e, Closing(o, o.run) \o (Processing(db, e) \o Rest(r)), Failing(o.id))

Import(r) ==
  /\ Next1(r, "import")
  /\ LET o == Op(r)
     IN IF o.file.breaks THEN GoesOn(r, Failing(o.id))   \* a value the table does not take
        ELSE AllRows(r, o, AccountsTaken(db, r, o.run, o.file.rows))

ImportClients(r) ==
  /\ Next1(r, "client file")
  /\ LET o == Op(r)
         d == ClientFileTaken(db, r, o.file)
         run == First(Table(d, "run") \ Table(db, "run"))
     IN IF o.file.readable THEN Opens(r, d, Closing(o, run) \o Rest(r), Failing(o.id))
        ELSE GoesOn(r, Closing(o, <<>>) \o Rest(r))

Close(r) ==
  /\ Next1(r, "close")
  /\ LET o == Op(r)
     IN IF o.id \notin Table(db, "job") THEN GoesOn(r, Rest(r))
        ELSE Opens(r, [db EXCEPT ![o.id].status = "completed", ![o.id].run = IF o.run = <<>> THEN @ ELSE o.run],
              Rest(r), Failing(o.id))

Fail(r) ==
  /\ Next1(r, "fail")
  /\ Tries(r, Open(Op(r).id), [db EXCEPT ![Op(r).id].status = "failed"])

(* External: an account is enrolled, or pays.                              *)
Engage(r) ==
  /\ Next1(r, "engage")
  /\ LET i == Op(r).id
     IN Tries(r, i \in Table(db, "account"), Inserted(db, r, [kind |-> "work", account |-> i]))

IntakeStep(r) ==
  \/ Enqueue(r) \/ EnqueueForClient(r) \/ RequeueMissing(r)
  \/ ClaimSuggestion(r) \/ EvaluateGates(r) \/ Suggest(r) \/ FinishSuggestion(r)
  \/ Upload(r) \/ Claim(r) \/ PreviewFile(r) \/ Begin(r) \/ Link(r)
  \/ Import(r) \/ ImportClients(r) \/ Close(r) \/ Fail(r) \/ Engage(r)
=============================================================================
