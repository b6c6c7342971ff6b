-------------------------- MODULE MCAdministration --------------------------
EXTENDS Administration

RequestNames == {"a", "b", "c"}
LimitsOfADesign == [steps |-> 3 .. 4, messages |-> 2, weekly |-> 1]

(* The rows a story starts with have the ids <<"db", 1>>, <<"db", 2>>, ... *)
Rowset(rows) == [i \in {<<"db", n>> : n \in DOMAIN rows} |-> rows[i[2]]]
Id(n) == <<"db", n>>
Story(rows, a, b, c, answers, failures) ==
  [rows |-> Rowset(rows), todo |-> [a |-> a, b |-> b, c |-> c], answers |-> answers, faults |-> failures]

(***************************************************************************)
(* Clients, portfolios and their files.                                    *)
(***************************************************************************)
Face(stage, contact, balance) ==
  [status |-> "active", hold |-> FALSE, owing |-> TRUE, stage |-> stage, contact |-> contact, balance |-> balance]
Plain == Face("1", "mail", "low")
UnderReview == [Plain EXCEPT !.status = "review"]
Account(i, p, ref, face) ==
  [kind |-> "account", client |-> i, portfolio |-> p, ref |-> ref, face |-> face, by |-> <<>>]
Active(row) == [row EXCEPT !.status = "active"]
Known == <<Active(Client("N1", "C1", "one")), Active(Client("", "C2", "two")),
           Active(Portfolio(Id(1), "N3", "P1", "sub", "onboarding"))>>

SaveC(n, c) == [do |-> "save client", number |-> n, code |-> c, name |-> "new"]
SaveP(i, n, c) == [do |-> "save portfolio", client |-> i, number |-> n, code |-> c, name |-> "sub", status |-> "onboarding"]
EditC(i, n, c) == [do |-> "edit client", id |-> i, number |-> n, code |-> c, ready |-> TRUE, supervised |-> TRUE]
EditP(p, n, c, status) == [do |-> "edit portfolio", id |-> p, number |-> n, code |-> c, status |-> status]
On(do, i) == [do |-> do, id |-> i]

CRow(flag, parent, n, c, name, fits) ==
  [flag |-> flag, parent |-> parent, number |-> n, code |-> c, name |-> name, fits |-> fits]
ClientFile(crm, rows) == [do |-> "upload", type |-> "client_upload", file |-> [readable |-> TRUE, crm |-> crm, rows |-> rows]]
CrmRows ==
  <<CRow("master", "", "N1", "C1", "one", TRUE), CRow("master", "", "N5", "C2", "two", TRUE),
    CRow("sub", "N5", "N6", "P6", "sub", TRUE), CRow("sub", "N1", "N3", "P1", "renamed", TRUE),
    CRow("sub", "N7", "", "P7", "sub", TRUE), CRow("?", "", "N8", "C8", "x", TRUE)>>
SimpleRows ==
  <<CRow("", "", "", "C2", "new name", FALSE), CRow("", "", "", "C9", "nine", TRUE),
    CRow("", "", "", "C9", "again", TRUE), CRow("", "", "", "C8", "", TRUE)>>

ARow(c, n, sub, ref, face) == [client |-> c, number |-> n, sub |-> sub, ref |-> ref, face |-> face, fine |-> TRUE]
AccountFile(type, rows) ==
  [do |-> "upload", type |-> type, file |-> [readable |-> TRUE, breaks |-> FALSE, rows |-> rows]]
FileOf(n) ==
  <<ARow("C1", "", "P1", "A1", Plain), ARow("C1", "", "", "A2", UnderReview),
    ARow("C1", "", "", "A1", Plain), ARow("", "N3", "", "A3", Plain), ARow("", "C2", "", "A1", Plain),
    [ARow("C1", "", "", "A4", Plain) EXCEPT !.fine = FALSE], ARow("", "C7", "", "A1", Plain)>>[n]
Few == <<FileOf(1), FileOf(2), FileOf(3)>>
Mixed == <<FileOf(4), FileOf(5), FileOf(6), FileOf(7), FileOf(1)>>
Broken(op) == [op EXCEPT !.file.breaks = TRUE]
Unreadable(op) == [op EXCEPT !.file.readable = FALSE]

(***************************************************************************)
(* Flows: a Trigger that leads to up to three steps.                       *)
(***************************************************************************)
Sn(kind, next, yes, no, days) == [kind |-> kind, next |-> next, yes |-> yes, no |-> no, days |-> days]
Flow(x, y, z) == [entry |-> "t", steps |-> ("t" :> Sn("Trigger", "x", "", "", 0)) @@ ("x" :> x) @@ ("y" :> y) @@ ("z" :> z)]
Good == Flow(Sn("Communication", "y", "", "", 0), Sn("Wait", "z", "", "", 7), Sn("Outcome", "", "", "", 0))
Bad == [Good EXCEPT !.steps["z"].kind = "Communication"]
Targets == {"x", "y", "z"}
SomeSteps ==
  {Sn("Outcome", "", "", "", 0)} \cup {Sn("Communication", n, "", "", 0) : n \in Targets \cup {""}}
  \cup {Sn("Wait", n, "", "", d) : n \in Targets, d \in {1, 7}}
  \cup {Sn("Condition", "", w[1], w[2], 0) : w \in {v \in Targets \X Targets : v[1] # v[2]}}
Short == {[f EXCEPT !.steps = [s \in {"t", "x", "y"} |-> @[s]]] : f \in {Flow(x, y, y) : x, y \in SomeSteps}}
Long == {Flow(x, y, z) : x, y, z \in SomeSteps}
Draft(p) == [kind |-> "strategy", client |-> Id(1), portfolio |-> p, ai |-> TRUE, by |-> Id(0), flow |-> Good]
Job(p) == [kind |-> "aijob", client |-> Id(1), portfolio |-> p, status |-> "pending", counted |-> FALSE]
Answers == {<<Good>>, <<Bad, Bad, Good>>, <<Bad, Bad, Bad, Good>>}

Faces ==
  {Face(s, c, b) : s \in {"", "1"}, c \in {"mail", "none"}, b \in {"low", "high"}}
  \cup {[Face("1", "mail", "low") EXCEPT !.status = "promise"], [Face("1", "mail", "low") EXCEPT !.hold = TRUE]}
Crowds == {Story(<<Known[1]>> \o [n \in 1 .. 4 |-> Account(Id(1), <<>>, n, f[n])], <<>>, <<>>, <<>>, {}, 0) :
             f \in [1 .. 4 -> Faces]}
Designs ==
  Story(<<Known[1], Account(Id(1), <<>>, "A1", Plain)>>,
        <<[do |-> "requeue"]>>, <<>>, <<>>, {<<f>> : f \in Short \cup Long}, 0)

BookStories ==
  {Story(Known, <<SaveC("N4", "C4")>>, <<SaveP(Id(1), "N4", "P4")>>, <<EditC(Id(2), "N4", "")>>, {}, 0),
   Story(Known, <<SaveC("N1", "C2")>>, <<EditP(Id(3), "", "P4", "active")>>, <<SaveP(Id(2), "N1", "P1")>>, {<<Good>>}, 0),
   Story(Known, <<SaveP(Id(1), "", "P4"), EditP(<<"a", 1>>, "N3", "", "")>>, <<ClientFile(TRUE, CrmRows)>>, <<>>, {}, 0),
   Story(Known, <<ClientFile(TRUE, CrmRows)>>, <<SaveP(Id(2), "N6", "P6")>>, <<EditC(Id(2), "N9", "C5")>>, {}, 1),
   Story(Known, <<ClientFile(TRUE, CrmRows)>>, <<ClientFile(TRUE, CrmRows)>>, <<On("delete portfolio", Id(3))>>, {}, 0),
   Story(Known, <<ClientFile(FALSE, SimpleRows)>>, <<SaveC("N4", "C9")>>, <<Unreadable(ClientFile(FALSE, <<>>))>>, {}, 0)}

FileStories ==
  LET held == Known \o <<Account(Id(1), Id(3), "A1", Plain), Account(Id(1), <<>>, "A3", Face("", "mail", "low"))>>
      upload(rows) == AccountFile("account_upload", rows)
  IN {Story(Known, <<upload(Few)>>, <<upload(Few)>>, <<>>, {<<Good>>}, 1),
      Story(held, <<upload(Mixed)>>, <<On("delete portfolio", Id(3))>>, <<On("engage", Id(4))>>, {<<Bad, Good>>}, 1),
      Story(held, <<AccountFile("account_validate", Mixed)>>, <<On("delete client", Id(1))>>, <<On("engage", Id(5))>>, {}, 1),
      Story(held, <<upload(Few)>>, <<On("delete client", Id(1))>>, <<SaveP(Id(1), "N9", "P1")>>, {<<Bad, Bad, Bad, Good>>}, 0),
      Story(held, <<Broken(upload(Few))>>, <<Unreadable(upload(Few))>>, <<SaveC("N9", "C7")>>, {}, 1)}

SuggestStories ==
  LET book == <<Active(Known[1]), Portfolio(Id(1), "N3", "P1", "sub", "onboarding"),
                Account(Id(1), Id(2), "A1", Plain), Account(Id(1), Id(2), "A2", Plain)>>
  IN {Story(book, <<EditP(Id(2), "", "", "active")>>, <<[do |-> "requeue"]>>, <<On("delete portfolio", Id(2))>>, Answers, 1),
      Story([book EXCEPT ![1] = Client("N1", "C1", "one")],
            <<EditC(Id(1), "", ""), On("activate", Id(1))>>, <<EditP(Id(2), "", "", "active")>>, <<[do |-> "requeue"]>>, {<<Good>>}, 0),
      Story([book EXCEPT ![2] = Active(@)] \o <<Draft(<<>>), Job(Id(2))>>, <<[do |-> "requeue"]>>, <<On("delete portfolio", Id(2))>>, <<SaveP(Id(1), "", "P2")>>, {<<Good>>}, 1)}

(***************************************************************************)
(* Users.  Id(1..8): the organization, PayFlow, the role of the Operations *)
(* Admins, one of supervisors, then the users and their sessions.          *)
(***************************************************************************)
Role(name, code, wide, builtin) == [kind |-> "role", name |-> name, code |-> code, wide |-> wide, builtin |-> builtin]
Person(email) == [User(email, Id(1), "active") EXCEPT !.password = "old"]
Member(u, role) == [kind |-> "membership", user |-> u, role |-> role]
Product(code) == [kind |-> "product", code |-> code, active |-> TRUE]
Has(u) == [kind |-> "assignment", user |-> u, product |-> Id(2)]
Session(u) == [kind |-> "session", user |-> u, live |-> TRUE, with |-> "old"]
Token(u, s) == [kind |-> "refresh", user |-> u, session |-> s, live |-> TRUE]
LinkTo(u, of) == [kind |-> "link", user |-> u, of |-> of, unused |-> TRUE]
Office ==
  <<[kind |-> "org", name |-> "us"], Product("PAYFLOW"), Role("admins", OperationsAdmin, TRUE, TRUE),
    Role("supervisors", <<"supervisors", 1>>, FALSE, FALSE),
    [kind |-> "entitlement", org |-> Id(1), product |-> Id(2), granted |-> TRUE],
    [kind |-> "may", role |-> Id(4), permission |-> "manage_users"],
    Person("ann"), Member(Id(7), Id(3)), Has(Id(7)), Session(Id(7)), Token(Id(7), Id(10)),
    Person("bob"), Member(Id(12), Id(3)), Has(Id(12)), Session(Id(12)), Token(Id(12), Id(15))>>
Ann == Id(7)  AnnIn == Id(10)  AnnToken == Id(11)
Bob == Id(12) BobIn == Id(15)  BobToken == Id(16)
Root == [Office EXCEPT ![7].super = TRUE]

By(s, op) == op @@ [by |-> s]
LogsIn(u, password) == [do |-> "login", id |-> u, password |-> password]
WithPassword(do, i, password) == [do |-> do, id |-> i, password |-> password]
Changes(s) == [do |-> "change password", by |-> s, old |-> "old", password |-> "mine"]
Makes(s, email, role, status) == [do |-> "create user", by |-> s, email |-> email, role |-> role, status |-> status]
Moves(s, u, role) == [do |-> "change role", by |-> s, id |-> u, role |-> role]
RoleOp(s, do, i, name, permissions) ==
  [do |-> do, by |-> s, id |-> i, name |-> name, permissions |-> permissions, wide |-> FALSE]

SessionStories ==
  LET linked == Office \o <<LinkTo(Ann, "reset")>> link == Id(17)
  IN {Story(Office, <<LogsIn(Ann, "old")>>, <<LogsIn(Ann, "old"), On("refresh", <<"b", 2>>)>>, <<On("refresh", AnnToken)>>, {}, 0),
      Story(Office, <<On("refresh", AnnToken)>>, <<On("refresh", AnnToken)>>, <<On("refresh", <<"b", 1>>)>>, {}, 0),
      Story(linked, <<WithPassword("reset", link, "new")>>, <<LogsIn(Ann, "old")>>, <<Changes(AnnIn)>>, {}, 1),
      Story(linked, <<WithPassword("reset", link, "new")>>, <<WithPassword("reset", link, "other")>>, <<On("forgot", Ann)>>, {}, 0),
      Story(Office, <<On("forgot", Ann)>>, <<On("forgot", Ann)>>, <<[do |-> "logout", by |-> AnnIn]>>, {}, 0)}

UserStories ==
  LET supervised == [Office EXCEPT ![13].role = Id(4)]
  IN {Story(Office, <<By(AnnIn, On("delete user", Bob))>>, <<By(BobIn, On("delete user", Ann))>>, <<Moves(AnnIn, Bob, Id(4))>>, {}, 0),
      Story(supervised, <<By(BobIn, On("delete user", Ann))>>, <<By(AnnIn, On("delete user", Bob))>>, <<LogsIn(Bob, "old")>>, {}, 0),
      Story(Office, <<Makes(AnnIn, "cid", Id(4), "invited")>>, <<Makes(BobIn, "cid", Id(4), "disabled")>>,
            <<By(AnnIn, On("reactivate", <<"b", 1>>)), By(AnnIn, On("resend", <<"a", 1>>)), WithPassword("activate account", <<"a", 4>>, "new")>>, {}, 0),
      Story(Office, <<By(AnnIn, On("deactivate", Bob))>>, <<On("refresh", BobToken)>>,
            <<By(AnnIn, On("reactivate", Bob)), WithPassword("activate account", <<"a", 9>>, "new")>>, {}, 0),
      Story(Office \o <<LinkTo(Ann, "activation")>>, <<WithPassword("activate account", Id(17), "new")>>, <<>>, <<>>, {}, 0),
      Story(Office, <<RoleOp(AnnIn, "update role", Id(4), "leads", {"x"})>>, <<RoleOp(BobIn, "update role", Id(4), "supervisors", {"y"})>>,
            <<RoleOp(AnnIn, "create role", <<>>, "supervisors", {"x"})>>, {}, 0),
      Story(Office, <<RoleOp(AnnIn, "delete role", Id(4), "", {})>>, <<Moves(BobIn, Bob, Id(4))>>,
            <<RoleOp(BobIn, "create role", <<>>, "leads", {"x"})>>, {}, 0)}

PlatformStories ==
  LET entitle(granted) == [do |-> "entitle", by |-> AnnIn, org |-> Id(1), product |-> Id(2), granted |-> granted]
      person(do, i, status, products) ==
        [do |-> do, by |-> AnnIn, id |-> i, email |-> "dan", org |-> Id(1), status |-> status, products |-> products]
      product(code, fresh) == [do |-> "save product", by |-> AnnIn, code |-> code, fresh |-> fresh, active |-> FALSE]
      organization(i, name) == [do |-> "save organization", by |-> AnnIn, id |-> i, name |-> name]
      has(do, u) == [do |-> do, by |-> AnnIn, id |-> u, product |-> Id(2)]
  IN {Story(Root, <<person("save person", <<>>, "", {Id(2)})>>, <<By(AnnIn, On("delete product", Id(2)))>>, <<entitle(TRUE)>>, {}, 0),
      Story([Root EXCEPT ![8].role = Id(4)], <<By(AnnIn, On("delete user", Bob))>>,
            <<person("save person", <<>>, "", {Id(2)})>>, <<By(AnnIn, On("delete user", Bob))>>, {}, 0),
      Story(Root, <<entitle(FALSE)>>, <<Moves(BobIn, Ann, Id(4))>>, <<has("remove product", Bob), has("assign product", Bob)>>, {}, 0),
      Story(Root, <<person("edit person", Bob, "invited", {Id(2)})>>, <<By(AnnIn, On("resend", Bob))>>,
            <<WithPassword("activate account", <<"b", 1>>, "new")>>, {}, 0),
      Story(Root, <<product("CRM", TRUE)>>, <<product("CRM", TRUE)>>, <<product("PAYFLOW", FALSE)>>, {}, 0),
      Story(Root, <<organization(<<>>, "them")>>, <<organization(<<>>, "them")>>, <<organization(Id(1), "them")>>, {}, 0)}

AllStories ==
  BookStories \cup FileStories \cup SuggestStories \cup SessionStories \cup UserStories
  \cup PlatformStories \cup Crowds \cup {Designs}
=============================================================================
