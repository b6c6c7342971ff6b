------------------------------- MODULE Access -------------------------------
(***************************************************************************)
(* Who may use the suite: users, their passwords, links, sessions and      *)
(* refresh tokens (identity/service.py), PayFlow users and roles           *)
(* (payflow/service.py), and the people, products and entitlements of the  *)
(* platform (platform/service.py).                                         *)
(*                                                                         *)
(* "by" of a request is the session whose access token it carries.  The    *)
(* deny list of access tokens adds nothing to the session they name, and   *)
(* is left out, as are names, e-mails sent, and the clients a user is      *)
(* assigned to.                                                            *)
(***************************************************************************)
EXTENDS Transactions, SequencesExt, FiniteSetsExt

(***************************************************************************)
(* The rows.  "with" of a session is the password it was opened with, and  *)
(* "set" of a user who set the password and how: history, not columns.  A  *)
(* row "use" records that a link set a password.                           *)
(***************************************************************************)
User(email, org, status) ==
  [kind |-> "user", email |-> email, org |-> org, super |-> FALSE, status |-> status,
   password |-> "", set |-> <<>>]

Rows(d, like) == {i \in DOMAIN d : \A c \in DOMAIN like : c \in DOMAIN d[i] /\ d[i][c] = like[c]}
Of(d, kind, u) == Rows(d, [kind |-> kind, user |-> u])

\* The unique columns.
Key(x) ==
  CASE x.kind = "user" -> <<x.email>>
    [] x.kind = "product" -> <<x.code>>
    [] x.kind = "org" -> <<x.name>>
    [] x.kind = "role" -> <<x.code>>
    [] x.kind = "membership" -> <<x.user>>
    [] x.kind = "assignment" -> <<x.user, x.product>>
    [] x.kind = "entitlement" -> <<x.org, x.product>>
    [] x.kind = "may" -> <<x.role, x.permission>>
    [] OTHER -> <<>>

Refers == [session |-> {"user"}, refresh |-> {"user", "session"}, link |-> {"user"},
           membership |-> {"user", "role"}, assignment |-> {"user", "product"},
           entitlement |-> {"org", "product"}, may |-> {"role"}, user |-> {"org"}]

SoundAccess(d) ==
  \A i \in DOMAIN d :
    /\ d[i].kind \in DOMAIN Refers => \A c \in Refers[d[i].kind] : d[i][c] \in Table(d, c)
    /\ Key(d[i]) # <<>> => \A j \in Table(d, d[i].kind) \ {i} : Key(d[j]) # Key(d[i])

(***************************************************************************)
(* What a request may do: get_current_user and the checks of the routes.   *)
(***************************************************************************)
SignedIn(d, s) == s \in Table(d, "session") /\ d[s].live /\ d[d[s].user].status = "active"
SuperAdmin(d, s) == SignedIn(d, s) /\ d[d[s].user].super

EffectiveProducts(d, u) ==
  {p \in Table(d, "product") :
     /\ d[u].status = "active" /\ d[p].active
     /\ Rows(d, [kind |-> "assignment", user |-> u, product |-> p]) # {}
     /\ Rows(d, [kind |-> "entitlement", org |-> d[u].org, product |-> p, granted |-> TRUE]) # {}}

\* The codes of roles are pairs of a name and the number that makes it unique.
OperationsAdmin == <<"operations_admin", 1>>
Payflow(d) == First(Rows(d, [kind |-> "product", code |-> "PAYFLOW"]))
RolesOf(d, u) == {d[m].role : m \in Of(d, "membership", u)}
Wide(d, role) == d[role].wide
Rank(d, role) == IF Wide(d, role) THEN 2 ELSE 1

InPayflow(d, s) ==
  /\ SignedIn(d, s)
  /\ \E p \in EffectiveProducts(d, d[s].user) : d[p].code = "PAYFLOW"
  /\ RolesOf(d, d[s].user) # {}
OpsAdmin(d, s) == InPayflow(d, s) /\ \A role \in RolesOf(d, d[s].user) : Wide(d, role)
MayManageUsers(d, s) ==
  \/ OpsAdmin(d, s)
  \/ /\ InPayflow(d, s)
     /\ \A role \in RolesOf(d, d[s].user) :
          Rows(d, [kind |-> "may", role |-> role, permission |-> "manage_users"]) # {}

(* No one manages a role above his own. *)
MayManage(d, s, u) ==
  /\ MayManageUsers(d, s)
  /\ RolesOf(d, u) # {}
  /\ \A mine \in RolesOf(d, d[s].user), its \in RolesOf(d, u) : Rank(d, its) <= Rank(d, mine)

(***************************************************************************)
(* Sessions.                                                               *)
(***************************************************************************)
\* mutant: the tokens are revoked and the sessions stay
TokensEnded(d, u) == [i \in DOMAIN d |-> IF i \in Of(d, "refresh", u) THEN [d[i] EXCEPT !.live = FALSE] ELSE d[i]]
Ended(d, u) ==
  LET ends == Of(d, "session", u) \cup Of(d, "refresh", u)
  IN [i \in DOMAIN d |-> IF i \in ends THEN [d[i] EXCEPT !.live = FALSE] ELSE d[i]]

IssueTokens(d, r, u, s) ==
  Inserted(d, r, [kind |-> "refresh", user |-> u, session |-> s, live |-> TRUE])

(* A login ends every session it sees and opens one. *)
Login(r) ==
  /\ Next1(r, "login")
  /\ LET o == Op(r) u == o.id
         accepted == u \in Table(db, "user") /\ db[u].status = "active" /\ db[u].password = o.password
         d == Ended(db, u)
         session == [kind |-> "session", user |-> u, live |-> TRUE, with |-> o.password]
     IN Tries(r, accepted, IssueTokens(Inserted(d, r, session), r, u, Fresh(d, r)))

(* A refresh token is spent on a new one of its session. *)
Refresh(r) ==
  /\ Next1(r, "refresh")
  /\ LET t == Op(r).id s == db[t].session
         accepted == t \in Table(db, "refresh") /\ db[t].live /\ db[s].live /\ db[db[t].user].status = "active"
     IN Tries(r, accepted, IssueTokens([db EXCEPT ![t].live = FALSE], r, db[t].user, s))

Logout(r) ==
  /\ Next1(r, "logout")
  /\ LET s == Op(r).by
     IN Tries(r, SignedIn(db, s),
              [i \in DOMAIN db |-> IF i = s \/ i \in Rows(db, [kind |-> "refresh", session |-> s])
                                   THEN [db[i] EXCEPT !.live = FALSE] ELSE db[i]])

(***************************************************************************)
(* Passwords and the links that set them.  A new link uses up the others   *)
(* of its kind, and so does a link that is used.                           *)
(***************************************************************************)
Spent(d, u, of) ==
  [i \in DOMAIN d |-> IF i \in Rows(d, [kind |-> "link", user |-> u, of |-> of])
                      THEN [d[i] EXCEPT !.unused = FALSE] ELSE d[i]]
CreateAuthToken(d, r, u, of) ==
  Inserted(Spent(d, u, of), r, [kind |-> "link", user |-> u, of |-> of, unused |-> TRUE])

SetPassword(d, r, u, password, how) ==
  [d EXCEPT ![u].password = password, ![u].set = <<r, how>>]
Used(d, r, t) == Inserted(Spent(d, d[t].user, d[t].of), r, [kind |-> "use", link |-> t])
Usable(d, t) == t \in Table(d, "link") /\ d[t].unused

(* send_activation_invite, after the transaction that made the user.       *)
Invite(r) ==
  /\ Next1(r, "invite")
  /\ LET u == Op(r).id
     IN IF u \in Table(db, "user") THEN Opens(r, CreateAuthToken(db, r, u, "activation"), Rest(r), <<>>)
        ELSE GoesOn(r, <<>>)

ForgotPassword(r) ==
  /\ Next1(r, "forgot")
  /\ LET u == Op(r).id
     IN Tries(r, u \in Table(db, "user") /\ db[u].status = "active" /\ db[u].password # "",
              CreateAuthToken(db, r, u, "reset"))

(* The link of an active user is used up and sets nothing. *)
ActivateAccount(r) ==
  /\ Next1(r, "activate account")
  /\ LET t == Op(r).id u == db[t].user
     IN IF ~Usable(db, t) THEN GoesOn(r, <<>>)
        ELSE IF db[u].status = "active" THEN Opens(r, Spent(db, u, "activation"), <<>>, <<>>)
        ELSE Opens(r, [SetPassword(Used(db, r, t), r, u, Op(r).password, "activation") EXCEPT ![u].status = "active"],
                   Rest(r), <<>>)

ResetPassword(r) ==
  /\ Next1(r, "reset")
  /\ LET t == Op(r).id u == db[t].user
     IN Tries(r, Usable(db, t),
              Ended(SetPassword(Used(db, r, t), r, u, Op(r).password, "reset"), u))

(* A link or a refresh token is found expired. *)
Expired(r) ==
  /\ Idle(r) /\ todo[r] # <<>> /\ Op(r).do \in {"activate account", "reset", "refresh"}
  /\ GoesOn(r, <<>>)

(* The sessions of the user stay. *)
ChangePassword(r) ==
  /\ Next1(r, "change password")
  /\ LET o == Op(r) u == db[o.by].user
     IN Tries(r, SignedIn(db, o.by) /\ db[u].password = o.old /\ o.password # o.old,
              SetPassword(db, r, u, o.password, "form"))

(***************************************************************************)
(* PayFlow users.                                                          *)
(***************************************************************************)
Assigned(d, r, u, p) ==
  IF Rows(d, [kind |-> "assignment", user |-> u, product |-> p]) # {} THEN d
  ELSE Inserted(d, r, [kind |-> "assignment", user |-> u, product |-> p])

\* The invitation follows in a transaction of its own.
Inviting(u) == <<[do |-> "invite", id |-> u]>>

CreateUser(r) ==
  /\ Next1(r, "create user")
  /\ LET o == Op(r) u == Fresh(db, r)
         org == db[db[o.by].user].org
         accepted == /\ OpsAdmin(db, o.by)
                     /\ o.role \in Table(db, "role")
                     /\ Rows(db, [kind |-> "user", email |-> o.email]) = {}
                     /\ Rows(db, [kind |-> "entitlement", org |-> org, product |-> Payflow(db), granted |-> TRUE]) # {}
         made == Assigned(Inserted(db, r, User(o.email, org, o.status)), r, u, Payflow(db))
     IN IF ~accepted THEN GoesOn(r, <<>>)
        ELSE Opens(r, Inserted(made, r, [kind |-> "membership", user |-> u, role |-> o.role]),
                   (IF o.status = "invited" THEN Inviting(u) ELSE <<>>) \o Rest(r), <<>>)

ChangeRole(r) ==
  /\ Next1(r, "change role")
  /\ LET o == Op(r) u == o.id m == First(Of(db, "membership", u))
         accepted == /\ MayManage(db, o.by, u)
                     /\ o.role \in Table(db, "role")
                     /\ \A mine \in RolesOf(db, db[o.by].user) : Rank(db, o.role) <= Rank(db, mine)
     IN Tries(r, accepted, [db EXCEPT ![m].role = o.role])

ResendInvitation(r) ==
  /\ Next1(r, "resend")
  /\ LET o == Op(r) u == o.id
         accepted == \/ MayManageUsers(db, o.by) /\ RolesOf(db, u) # {} /\ db[u].status = "invited"
                     \/ SuperAdmin(db, o.by) /\ u \in Table(db, "user") /\ db[u].status # "active"
     IN Tries(r, accepted, CreateAuthToken(db, r, u, "activation"))

DeactivateUser(r) ==
  /\ Next1(r, "deactivate")
  /\ LET o == Op(r) u == o.id
     IN Tries(r, MayManage(db, o.by, u) /\ u # db[o.by].user /\ db[u].status = "active",
              [db EXCEPT ![u].status = "disabled"])

(* Who never had a password is invited again.                              *)
ReactivateUser(r) ==
  /\ Next1(r, "reactivate")
  /\ LET o == Op(r) u == o.id
         accepted == MayManage(db, o.by, u) /\ u # db[o.by].user /\ db[u].status = "disabled"
     IN IF ~accepted THEN GoesOn(r, <<>>)
        ELSE IF db[u].password # "" THEN Opens(r, [db EXCEPT ![u].status = "active"], Rest(r), <<>>)
        ELSE Opens(r, [db EXCEPT ![u].status = "invited"], Inviting(u) \o Rest(r), <<>>)

(***************************************************************************)
(* purge_user_identity, for delete_user and delete_person.                 *)
(***************************************************************************)
Admins(d) == {m \in Table(d, "membership") : d[d[m].role].code = OperationsAdmin}
\* mutant: any other member will do
LastMember(d, u) == Of(d, "membership", u) # {} /\ Table(d, "membership") \subseteq Of(d, "membership", u)
LastAdmin(d, u) == Admins(d) # {} /\ Admins(d) \subseteq Of(d, "membership", u)

Purge(d, u) ==
  Without(d, {u} \cup UNION {Of(d, kind, u) : kind \in {"link", "refresh", "session", "assignment", "membership"}})

DeleteUser(r) ==
  /\ Next1(r, "delete user")
  /\ LET o == Op(r) u == o.id
         accepted == /\ MayManage(db, o.by, u) \/ (SuperAdmin(db, o.by) /\ u \in Table(db, "user"))
                     /\ u # db[o.by].user /\ ~db[u].super /\ ~LastAdmin(db, u)
     IN Tries(r, accepted, Purge(db, u))

(***************************************************************************)
(* Roles.  A role keeps the code it was made with when it is renamed; an   *)
(* edit of its permissions replaces the rows it reads.                     *)
(***************************************************************************)
Permitted(d, r, role, permissions) ==
  InsertedAll(d, r, SetToSeq({[kind |-> "may", role |-> role, permission |-> p] : p \in permissions}))
Named(d, name) == Rows(d, [kind |-> "role", name |-> name])
SlugRoleCode(d, name) ==
  LET taken(n) == \E i \in Table(d, "role") : d[i].code = <<name, n>>
  IN <<name, CHOOSE n \in 1 .. Cardinality(Table(d, "role")) + 1 :
               ~taken(n) /\ \A k \in 1 .. n - 1 : taken(k)>>

CreateRole(r) ==
  /\ Next1(r, "create role")
  /\ LET o == Op(r) role == Fresh(db, r)
         row == [kind |-> "role", name |-> o.name, code |-> SlugRoleCode(db, o.name),
                 wide |-> o.wide, builtin |-> FALSE]
     IN Tries(r, OpsAdmin(db, o.by) /\ Named(db, o.name) = {} /\ o.permissions # {},
              Permitted(Inserted(db, r, row), r, role, o.permissions))

(* A platform-wide role is not edited, a built-in one keeps its name.      *)
UpdateRole(r) ==
  /\ Next1(r, "update role")
  /\ LET o == Op(r) role == o.id
         accepted == /\ OpsAdmin(db, o.by) /\ role \in Table(db, "role") /\ ~Wide(db, role)
                     /\ o.name # db[role].name => ~db[role].builtin
                     /\ Named(db, o.name) \subseteq {role} /\ o.permissions # {}
         d == Without(db, Rows(db, [kind |-> "may", role |-> role]))
     IN Tries(r, accepted, [Permitted(d, r, role, o.permissions) EXCEPT ![role].name = o.name])

DeleteRole(r) ==
  /\ Next1(r, "delete role")
  /\ LET o == Op(r) role == o.id
         accepted == /\ OpsAdmin(db, o.by) /\ role \in Table(db, "role") /\ ~db[role].builtin
                     /\ Rows(db, [kind |-> "membership", role |-> role]) = {}
     IN Tries(r, accepted, Without(db, {role} \cup Rows(db, [kind |-> "may", role |-> role])))

(***************************************************************************)
(* The platform: people, products and entitlements.  Who is given PayFlow  *)
(* and has no role there becomes an Operations Admin.                      *)
(***************************************************************************)
Granted(d, r, u, products) ==
  LET missing == {p \in products : Rows(d, [kind |-> "assignment", user |-> u, product |-> p]) = {}}
      e == InsertedAll(d, r, SetToSeq({[kind |-> "assignment", user |-> u, product |-> p] : p \in missing}))
      admin == First(Rows(d, [kind |-> "role", code |-> OperationsAdmin]))
  IN IF (\E p \in missing : d[p].code = "PAYFLOW") /\ RolesOf(d, u) = {}
     THEN Inserted(e, r, [kind |-> "membership", user |-> u, role |-> admin]) ELSE e

AssignProducts(d, r, u, products) ==
  Without(Granted(d, r, u, products), {a \in Of(d, "assignment", u) : d[a].product \notin products})

SavePerson(r) ==
  /\ Next1(r, "save person")
  /\ LET o == Op(r) u == Fresh(db, r)
         accepted == /\ SuperAdmin(db, o.by)
                     /\ o.org \in Table(db, "org") /\ o.products \subseteq Table(db, "product")
                     /\ Rows(db, [kind |-> "user", email |-> o.email]) = {}
         made == Inserted(db, r, User(o.email, o.org, "invited"))
     IN IF ~accepted THEN GoesOn(r, <<>>)
        ELSE Opens(r, AssignProducts(made, r, u, o.products), Inviting(u) \o Rest(r), <<>>)

EditPerson(r) ==
  /\ Next1(r, "edit person")
  /\ LET o == Op(r) u == o.id
         accepted == /\ SuperAdmin(db, o.by) /\ u \in Table(db, "user")
                     /\ o.org \in Table(db, "org") /\ o.products \subseteq Table(db, "product")
                     /\ db[u].super => o.status # "disabled"
         edited == [db EXCEPT ![u].org = o.org, ![u].status = o.status]
     IN Tries(r, accepted, AssignProducts(edited, r, u, o.products))

AssignProduct(r) ==
  /\ Next1(r, "assign product")
  /\ LET o == Op(r)
     IN Tries(r, SuperAdmin(db, o.by) /\ o.id \in Table(db, "user") /\ o.product \in Table(db, "product"),
              Granted(db, r, o.id, {o.product}))

(* The membership stays when PayFlow is taken away. *)
RemoveProduct(r) ==
  /\ Next1(r, "remove product")
  /\ LET o == Op(r)
     IN Tries(r, SuperAdmin(db, o.by) /\ o.id \in Table(db, "user"),
              Without(db, Rows(db, [kind |-> "assignment", user |-> o.id, product |-> o.product])))

(* An id is sent (not <<>>) to rename an organization that exists. *)
SaveOrganization(r) ==
  /\ Next1(r, "save organization")
  /\ LET o == Op(r)
         accepted == /\ SuperAdmin(db, o.by) /\ {o.id} \ {<<>>} \subseteq Table(db, "org")
                     /\ Rows(db, [kind |-> "org", name |-> o.name]) \subseteq {o.id}
     IN Tries(r, accepted,
              IF o.id = <<>> THEN Inserted(db, r, [kind |-> "org", name |-> o.name])
              ELSE [db EXCEPT ![o.id].name = o.name])

(* grant_access and revoke_access. *)
Entitle(r) ==
  /\ Next1(r, "entitle")
  /\ LET o == Op(r)
         found == Rows(db, [kind |-> "entitlement", org |-> o.org, product |-> o.product])
         row == [kind |-> "entitlement", org |-> o.org, product |-> o.product, granted |-> o.granted]
     IN Tries(r, SuperAdmin(db, o.by) /\ o.org \in Table(db, "org") /\ o.product \in Table(db, "product"),
              IF found = {} THEN Inserted(db, r, row) ELSE [db EXCEPT ![First(found)] = row])

SaveProduct(r) ==
  /\ Next1(r, "save product")
  /\ LET o == Op(r) found == Rows(db, [kind |-> "product", code |-> o.code])
     IN Tries(r, SuperAdmin(db, o.by) /\ (o.fresh => found = {}) /\ (~o.fresh => found # {}),
              IF o.fresh THEN Inserted(db, r, [kind |-> "product", code |-> o.code, active |-> o.active])
              ELSE [db EXCEPT ![First(found)].active = o.active])

DeleteProduct(r) ==
  /\ Next1(r, "delete product")
  /\ LET o == Op(r) p == o.id
     IN Tries(r, SuperAdmin(db, o.by) /\ p \in Table(db, "product"),
              Without(db, {p} \cup Rows(db, [kind |-> "entitlement", product |-> p])
                              \cup Rows(db, [kind |-> "assignment", product |-> p])))

AccessStep(r) ==
  \/ Login(r) \/ Refresh(r) \/ Logout(r) \/ Expired(r)
  \/ Invite(r) \/ ForgotPassword(r) \/ ActivateAccount(r) \/ ResetPassword(r) \/ ChangePassword(r)
  \/ CreateUser(r) \/ ChangeRole(r) \/ ResendInvitation(r) \/ DeactivateUser(r) \/ ReactivateUser(r)
  \/ DeleteUser(r) \/ CreateRole(r) \/ UpdateRole(r) \/ DeleteRole(r)
  \/ SavePerson(r) \/ EditPerson(r) \/ AssignProduct(r) \/ RemoveProduct(r)
  \/ SaveOrganization(r) \/ Entitle(r) \/ SaveProduct(r) \/ DeleteProduct(r)
=============================================================================
