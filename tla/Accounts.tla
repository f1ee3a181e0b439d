------------------------------ MODULE Accounts ------------------------------
(***************************************************************************)
(* Accounts, organizations, memberships and invitations: registration and  *)
(* acceptance of invitations (routes/auth.ts), organizations               *)
(* (routes/organizations.ts, lib/organizations.ts) and the management of   *)
(* users (routes/users.ts).                                                *)
(*                                                                         *)
(* A handler first reads what its checks need, awaits (the hash of a       *)
(* password, other queries), and then changes the rows in one transaction  *)
(* or statement.  Begin... is the first half, Commit... the second, and    *)
(* other requests run in between.  A transaction is one step: what READ    *)
(* COMMITTED lets two transactions see of each other half way is modelled  *)
(* only for the reads that decide something, which are made in the first   *)
(* half.  An account is named by its e-mail, which is unique.              *)
(***************************************************************************)
EXTENDS FiniteSets

CONSTANTS Users,         \* e-mail addresses
          Orgs,          \* organizations that may be created
          Invites,       \* invitations that may be created
          Requests,      \* requests in progress at once
          InvitedRoles,  \* roles accounts are given, ManageableRoleSchema
          None

Roles == {"SUPER_ADMIN", "OPERATOR", "DEVELOPER", "VIEWER"}

ASSUME AccountsAssumption ==
    InvitedRoles \subseteq {"OPERATOR", "DEVELOPER", "VIEWER"} /\ None \notin Roles \cup Users \cup Orgs \cup Invites

VARIABLES
    role,     \* User.role, None for an address without an account
    org,      \* Organization rows
    member,   \* OrganizationMembership rows, as pairs <<organization, user>>
    default,  \* those with isDefault
    active,   \* User.activeOrganizationId
    invite,   \* UserInvitation rows
    request,  \* what the requests in progress do and have read
    raced     \* history: users about whom two requests were in progress at once

vars == <<role, org, member, default, active, invite, request, raced>>
rows == <<role, org, member, default, active, invite>>

Idle == [op |-> "idle", by |-> None, on |-> None, org |-> None, invite |-> None,
         role |-> None, seen |-> {}, defaults |-> {}]

Ops == {"idle", "register", "create", "default", "activate", "delete", "invite",
        "regenerate", "revoke", "accept", "add", "remove", "role"}

\* Rows are of their types, and their foreign keys hold.
TypeOK ==
    /\ role \in [Users -> Roles \cup {None}]
    /\ org \in [Orgs -> {"none", "live", "deleted"}]
    /\ member \subseteq {o \in Orgs : org[o] = "live"} \X {u \in Users : role[u] # None}
    /\ default \subseteq member
    /\ active \in [Users -> {o \in Orgs : org[o] = "live"} \cup {None}]
    /\ invite \in [Invites -> [row : {"none", "made", "deleted"}, email : Users \cup {None},
                               org : Orgs \cup {None}, role : InvitedRoles \cup {None},
                               accepted : BOOLEAN, revoked : BOOLEAN, expired : BOOLEAN]]
    /\ request \in [Requests ->
          [op : Ops, by : Users \cup {None}, on : Users \cup {None}, org : Orgs \cup {None},
           invite : Invites \cup {None}, role : Roles \cup {None},
           seen : SUBSET Users, defaults : SUBSET Users]]
    /\ raced \subseteq Users

Init ==
    /\ role = [u \in Users |-> None]
    /\ org = [o \in Orgs |-> "none"]
    /\ member = {} /\ default = {}
    /\ active = [u \in Users |-> None]
    /\ invite = [i \in Invites |-> [row |-> "none", email |-> None, org |-> None, role |-> None,
                                    accepted |-> FALSE, revoked |-> FALSE, expired |-> FALSE]]
    /\ request = [r \in Requests |-> Idle]
    /\ raced = {}

-----------------------------------------------------------------------------
(* What the handlers read and write.  The Wrong... forms are mistakes the  *)
(* code could make; the project's mutants put them in the place of the     *)
(* operator they precede.                                                  *)

OrgsOf(u)    == {o \in Orgs : <<o, u>> \in member}
Members(o)   == {u \in Users : <<o, u>> \in member}
Defaults(u)  == {o \in Orgs : <<o, u>> \in default}
Others(u, o) == OrgsOf(u) \ {o}

\* authenticate: the organization of a request is the one it names, if the
\* user belongs to it, or one the user belongs to.
Context(u) == OrgsOf(u)

\* requireRole("SUPER_ADMIN"), requireRole("OPERATOR")
IsSuperAdmin(u) == role[u] = "SUPER_ADMIN"
IsOperator(u)   == role[u] \in {"SUPER_ADMIN", "OPERATOR"}

\* acceptedAt: null, revokedAt: null
Pending(i) == invite[i].row = "made" /\ ~invite[i].accepted /\ ~invite[i].revoked

\* An invitation may be accepted.
Acceptable(i) ==
    Pending(i) /\ ~invite[i].expired /\ role[invite[i].email] = None

\* The pending invitations of an address to an organization are revoked.
RevokedFor(e, o) ==
    [i \in Invites |-> IF Pending(i) /\ invite[i].email = e /\ invite[i].org = o
                       THEN [invite[i] EXCEPT !.revoked = TRUE] ELSE invite[i]]

\* The users a request is about.
About(req) == (({req.by, req.on} \cup req.seen) \cap Users)

Begin(r, req) ==
    /\ request[r].op = "idle"
    /\ request' = [request EXCEPT ![r] = req]
    /\ raced' = raced \cup UNION {About(req) \cap About(request[q]) : q \in Requests \ {r}}
    /\ UNCHANGED rows

Answer(r) == request' = [request EXCEPT ![r] = Idle] /\ UNCHANGED raced

\* An account is created in an organization, its default and active one.
AccountCreated(u, o, rl) ==
    /\ role' = [role EXCEPT ![u] = rl]
    /\ member' = member \cup {<<o, u>>}
    /\ default' = default \cup {<<o, u>>}
    /\ active' = [active EXCEPT ![u] = o]

\* setDefaultOrganizationForUser: the default memberships of u afterwards.
WrongDefaultAdded(u, o) == default \cup {<<o, u>>}
DefaultSet(u, o) == {d \in default : d[2] # u} \cup {<<o, u>>}

-----------------------------------------------------------------------------
(* Registration                                                            *)

\* POST /auth/register: open while there is no account.
RegistrationOpen == \A u \in Users : role[u] = None

BeginRegister(r, u) ==
    /\ RegistrationOpen
    /\ Begin(r, [Idle EXCEPT !.op = "register", !.by = u])

\* The account and its organization, after the password was hashed.
CommitRegister(r) ==
    LET u == request[r].by
    IN  /\ request[r].op = "register"
        /\ role[u] = None
        /\ \E o \in Orgs : /\ org[o] = "none"
                           /\ org' = [org EXCEPT ![o] = "live"]
                           /\ AccountCreated(u, o, "SUPER_ADMIN")
        /\ Answer(r)
        /\ UNCHANGED invite

-----------------------------------------------------------------------------
(* Organizations                                                           *)

\* POST /organizations: `defaults` holds u when it has no organization yet.
BeginCreate(r, u) ==
    /\ IsSuperAdmin(u)
    /\ Begin(r, [Idle EXCEPT !.op = "create", !.by = u,
                             !.defaults = IF OrgsOf(u) = {} THEN {u} ELSE {}])

CommitCreate(r) ==
    LET u == request[r].by
    IN  /\ request[r].op = "create"
        /\ role[u] # None
        /\ \E o \in Orgs :
              /\ org[o] = "none"
              /\ org' = [org EXCEPT ![o] = "live"]
              /\ member' = member \cup {<<o, u>>}
              /\ IF u \in request[r].defaults
                 THEN default' = DefaultSet(u, o) /\ active' = [active EXCEPT ![u] = o]
                 ELSE UNCHANGED <<default, active>>
        /\ Answer(r)
        /\ UNCHANGED <<role, invite>>

\* POST /organizations/:id/default and /activate by a member.
WrongMaySwitch(u, o) == role[u] # None /\ org[o] = "live"
MaySwitch(u, o) == <<o, u>> \in member

BeginSwitch(r, u, o, op) ==
    /\ MaySwitch(u, o)
    /\ Begin(r, [Idle EXCEPT !.op = op, !.by = u, !.org = o])

\* The update of a membership that is gone fails, and with it the transaction.
CommitDefault(r) ==
    LET u == request[r].by
        o == request[r].org
    IN  /\ request[r].op = "default"
        /\ <<o, u>> \in member
        /\ default' = DefaultSet(u, o)
        /\ active' = [active EXCEPT ![u] = o]
        /\ Answer(r)
        /\ UNCHANGED <<role, org, member, invite>>

\* Activation writes the user's row: only the organization must exist.
CommitActivate(r) ==
    LET u == request[r].by
        o == request[r].org
    IN  /\ request[r].op = "activate"
        /\ role[u] # None /\ org[o] = "live"
        /\ active' = [active EXCEPT ![u] = o]
        /\ Answer(r)
        /\ UNCHANGED <<role, org, member, default, invite>>

\* DELETE /organizations/:id: the members and their defaults are read, and u
\* must have another organization.
WrongMayDelete(u, o) == TRUE
MayDelete(u, o) == Others(u, o) # {}

BeginDelete(r, u, o) ==
    /\ IsSuperAdmin(u)
    /\ <<o, u>> \in member
    /\ MayDelete(u, o)
    /\ Begin(r, [Idle EXCEPT !.op = "delete", !.by = u, !.org = o, !.seen = Members(o),
                             !.defaults = {v \in Members(o) : <<o, v>> \in default}])

\* The organization a member falls back to: a default one before others.
FallbacksOf(u, o) ==
    IF Others(u, o) = {} THEN {None}
    ELSE IF Defaults(u) \ {o} # {} THEN Defaults(u) \ {o} ELSE Others(u, o)

\* The members read before get their fallback, as default if o was theirs.
DefaultsAfter(r, o, fallback) ==
    LET moved == {u \in request[r].defaults : fallback[u] # None}
    IN  {d \in default : d[1] # o /\ d[2] \notin moved} \cup {<<fallback[u], u>> : u \in moved}

WrongActiveAfter(r, o, fallback) == active
WrongActiveCleared(r, o, fallback) == [u \in Users |-> IF active[u] = o THEN None ELSE active[u]]
ActiveAfter(r, o, fallback) ==
    [u \in Users |->
        CASE u \in request[r].defaults /\ fallback[u] # None -> fallback[u]
          [] active[u] = o -> IF u \in request[r].seen THEN fallback[u] ELSE None
          [] OTHER -> active[u]]

CommitDelete(r) ==
    LET o == request[r].org
    IN  /\ request[r].op = "delete"
        /\ org[o] = "live"
        /\ \E fallback \in [request[r].seen -> Orgs \cup {None}] :
              /\ \A u \in request[r].seen : fallback[u] \in FallbacksOf(u, o)
              /\ default' = DefaultsAfter(r, o, fallback)
              /\ active' = ActiveAfter(r, o, fallback)
        /\ member' = {m \in member : m[1] # o}
        /\ org' = [org EXCEPT ![o] = "deleted"]
        /\ invite' = [i \in Invites |-> IF invite[i].org = o
                                        THEN [invite[i] EXCEPT !.row = "deleted"] ELSE invite[i]]
        /\ Answer(r)
        /\ UNCHANGED role

-----------------------------------------------------------------------------
(* Invitations                                                             *)

\* POST /users/invitations and POST /users by an operator, for an address
\* without an account.
BeginNewcomer(r, u, e, rl, op) ==
    /\ IsOperator(u)
    /\ role[e] = None
    /\ \E o \in Context(u) :
          Begin(r, [Idle EXCEPT !.op = op, !.by = u, !.on = e, !.org = o, !.role = rl])

CommitInvite(r) ==
    LET e == request[r].on
        o == request[r].org
    IN  /\ request[r].op = "invite"
        /\ org[o] = "live"
        /\ \E i \in Invites :
              /\ invite[i].row = "none"
              /\ invite' = [RevokedFor(e, o) EXCEPT
                              ![i] = [row |-> "made", email |-> e, org |-> o,
                                      role |-> request[r].role, accepted |-> FALSE,
                                      revoked |-> FALSE, expired |-> FALSE]]
        /\ Answer(r)
        /\ UNCHANGED <<role, org, member, default, active>>

CommitAdd(r) ==
    LET e == request[r].on
        o == request[r].org
    IN  /\ request[r].op = "add"
        /\ org[o] = "live" /\ role[e] = None
        /\ AccountCreated(e, o, request[r].role)
        /\ invite' = RevokedFor(e, o)
        /\ Answer(r)
        /\ UNCHANGED org

\* POST /users/invitations/:id/regenerate and DELETE /users/invitations/:id
\* check that it is pending, and update it by its id.
BeginInvitation(r, u, i, op) ==
    /\ IsOperator(u)
    /\ Pending(i)
    /\ invite[i].org \in Context(u)
    /\ Begin(r, [Idle EXCEPT !.op = op, !.by = u, !.invite = i])

CommitInvitation(r) ==
    LET i == request[r].invite
    IN  /\ request[r].op \in {"regenerate", "revoke"}
        /\ invite[i].row = "made"
        /\ invite' = IF request[r].op = "revoke" THEN [invite EXCEPT ![i].revoked = TRUE]
                     ELSE [invite EXCEPT ![i].expired = FALSE]
        /\ Answer(r)
        /\ UNCHANGED <<role, org, member, default, active>>

\* expiresAt passes.
Expires(i) ==
    /\ Pending(i) /\ ~invite[i].expired
    /\ invite' = [invite EXCEPT ![i].expired = TRUE]
    /\ UNCHANGED <<role, org, member, default, active, request, raced>>

\* POST /auth/invitations/:token/accept
BeginAccept(r, i) ==
    /\ Acceptable(i)
    /\ Begin(r, [Idle EXCEPT !.op = "accept", !.by = invite[i].email, !.invite = i])

\* After the hash: the unique e-mail and the foreign key are all that is
\* checked again.
MayCommitAccept(i) ==
    invite[i].row = "made" /\ org[invite[i].org] = "live" /\ role[invite[i].email] = None

CommitAccept(r) ==
    LET i == request[r].invite
    IN  /\ request[r].op = "accept"
        /\ MayCommitAccept(i)
        /\ AccountCreated(invite[i].email, invite[i].org, invite[i].role)
        /\ invite' = [invite EXCEPT ![i].accepted = TRUE]
        /\ Answer(r)
        /\ UNCHANGED org

-----------------------------------------------------------------------------
(* Accounts                                                                *)

\* DELETE /users/:id and PATCH /users/:id/role by a super admin, about a
\* member of the organization of the request.
Removable(u, t) == u # t /\ ~IsSuperAdmin(t)

BeginRemove(r, u, t) ==
    /\ IsSuperAdmin(u)
    /\ Removable(u, t)
    /\ \E o \in Context(u) : <<o, t>> \in member
    /\ Begin(r, [Idle EXCEPT !.op = "remove", !.by = u, !.on = t])

\* A request that writes a row of the account of t, or one that refers to it.
WritesAccount(req, t) ==
    \/ req.op \in {"create", "default", "activate", "invite"} /\ req.by = t
    \/ req.op \in {"remove", "role"} /\ req.on = t

\* The requests in progress once the account of t is gone: those that write it
\* fail, the others go on, those t made itself among them.
WithoutAccount(t) ==
    [q \in Requests |->
        IF WritesAccount(request[q], t) THEN Idle
        ELSE [request[q] EXCEPT !.seen = @ \ {t}, !.defaults = @ \ {t}]]

CommitRemove(r) ==
    LET t == request[r].on
    IN  /\ request[r].op = "remove"
        /\ role[t] # None
        /\ role' = [role EXCEPT ![t] = None]
        /\ member' = {m \in member : m[2] # t}
        /\ default' = {m \in default : m[2] # t}
        /\ active' = [active EXCEPT ![t] = None]
        /\ request' = WithoutAccount(t)
        /\ UNCHANGED <<org, invite, raced>>

BeginRole(r, u, t, rl) ==
    /\ IsSuperAdmin(u)
    /\ \E o \in Context(u) : <<o, t>> \in member
    /\ Begin(r, [Idle EXCEPT !.op = "role", !.by = u, !.on = t, !.role = rl])

CommitRole(r) ==
    LET t == request[r].on
    IN  /\ request[r].op = "role"
        /\ role[t] # None
        /\ role' = [role EXCEPT ![t] = request[r].role]
        /\ Answer(r)
        /\ UNCHANGED <<org, member, default, active, invite>>

\* A request fails: a query throws, a check made in between refuses it.
Fail(r) ==
    /\ request[r].op # "idle"
    /\ Answer(r)
    /\ UNCHANGED rows

-----------------------------------------------------------------------------
Commit(r) ==
    \/ CommitRegister(r) \/ CommitCreate(r) \/ CommitDefault(r) \/ CommitActivate(r)
    \/ CommitDelete(r) \/ CommitInvite(r) \/ CommitAdd(r) \/ CommitInvitation(r)
    \/ CommitAccept(r) \/ CommitRemove(r) \/ CommitRole(r)

BeginAny(r) ==
    \/ \E u \in Users : BeginRegister(r, u) \/ BeginCreate(r, u)
    \/ \E u \in Users, o \in Orgs :
          \/ \E op \in {"default", "activate"} : BeginSwitch(r, u, o, op)
          \/ BeginDelete(r, u, o)
    \/ \E u, e \in Users, rl \in InvitedRoles :
          \/ \E op \in {"invite", "add"} : BeginNewcomer(r, u, e, rl, op)
          \/ BeginRole(r, u, e, rl)
    \/ \E u, t \in Users : BeginRemove(r, u, t)
    \/ \E i \in Invites : BeginAccept(r, i)
    \/ \E u \in Users, i \in Invites, op \in {"regenerate", "revoke"} : BeginInvitation(r, u, i, op)

Next ==
    \/ \E r \in Requests : BeginAny(r) \/ Commit(r) \/ Fail(r)
    \/ \E i \in Invites : Expires(i)

Spec == Init /\ [][Next]_vars

-----------------------------------------------------------------------------
(* Properties                                                              *)

\* The active organization of a user is one it belongs to, although it is
\* written without looking at the membership again.
ActiveIsMembership ==
    \A u \in Users : active[u] # None => <<active[u], u>> \in member

\* A user with organizations has exactly one default, unless two requests
\* about it were in progress together.
OneDefault ==
    \A u \in Users \ raced : OrgsOf(u) # {} => Cardinality(Defaults(u)) = 1

\* A user with organizations has one of them active, whichever are deleted,
\* unless two requests about it were in progress together.
MembersHaveActive ==
    \A u \in Users \ raced : OrgsOf(u) # {} => active[u] # None

\* Deleting organizations leaves a super admin one, unless two requests about
\* it were in progress together.
OwnerKeepsOrganization ==
    \A u \in Users \ raced : IsSuperAdmin(u) => OrgsOf(u) # {}

-----------------------------------------------------------------------------
(* Statements of the program that do not hold                              *)

\* What DELETE /organizations/:id answers when it refuses: you must keep at
\* least one organization.
KeepsAnOrganization ==
    \A u \in Users : IsSuperAdmin(u) => OrgsOf(u) # {}

\* What the users page says of revoking: the link stops working immediately.
RevokedIsNotAccepted ==
    [][\A i \in Invites : invite[i].revoked => invite'[i].accepted = invite[i].accepted]_vars
=============================================================================
