---------------------------- MODULE AccountsProofs ----------------------------
(***************************************************************************)
(* Proofs about Accounts, for any users, organizations and invitations and *)
(* any number of requests in progress.                                     *)
(*                                                                         *)
(* The handlers check a membership, await, and then write the row of the   *)
(* user without looking again.  That the foreign keys and the active       *)
(* organizations nevertheless stay right rests on what the requests in     *)
(* progress have read: a membership that was checked is still there, or    *)
(* its organization was deleted for good, or the request fails with the    *)
(* account that made it (StillMembers).                                    *)
(*                                                                         *)
(* That each user has one default, an active organization and, as a super  *)
(* admin, any organization at all rests on what a creation or a deletion   *)
(* has read being still so when it writes (Creating, Deleting), for users  *)
(* about whom no two requests run at once.                                 *)
(***************************************************************************)
EXTENDS Accounts, FiniteSetTheorems, TLAPS

OrgStates == {"none", "live", "deleted"}
InviteRows == {"none", "made", "deleted"}
InviteType == [row : InviteRows, email : Users \cup {None}, org : Orgs \cup {None},
               role : InvitedRoles \cup {None},
               accepted : BOOLEAN, revoked : BOOLEAN, expired : BOOLEAN]
RequestType == [op : Ops, by : Users \cup {None}, on : Users \cup {None}, org : Orgs \cup {None},
                invite : Invites \cup {None}, role : Roles \cup {None},
                seen : SUBSET Users, defaults : SUBSET Users]

\* The rows, and their foreign keys.
Rows ==
    /\ role \in [Users -> Roles \cup {None}]
    /\ org \in [Orgs -> OrgStates]
    /\ member \subseteq Orgs \X Users
    /\ \A o \in Orgs, u \in Users : <<o, u>> \in member => org[o] = "live" /\ role[u] # None
    /\ default \subseteq member
    /\ active \in [Users -> Orgs \cup {None}]
    /\ ActiveIsMembership

Invitations ==
    /\ invite \in [Invites -> InviteType]
    /\ \A i \in Invites : invite[i].row = "made" =>
          invite[i].email \in Users /\ invite[i].org \in Orgs /\ invite[i].role \in InvitedRoles

\* What a request is about.
Proper(q) ==
    /\ q.op \in {"register", "create", "default", "activate"} => q.by \in Users
    /\ q.op \in {"default", "activate", "delete", "invite", "add"} => q.org \in Orgs
    /\ q.op = "delete" => q.defaults \subseteq q.seen
    /\ q.op \in {"invite", "add", "remove", "role"} => q.on \in Users
    /\ q.op \in {"invite", "add", "role"} => q.role \in InvitedRoles
    /\ q.op \in {"accept", "regenerate", "revoke"} => q.invite \in Invites

Asking ==
    /\ request \in [Requests -> RequestType]
    /\ \A r \in Requests : Proper(request[r])
    /\ raced \subseteq Users

Switching == {"default", "activate"}
StillMembers ==
    \A r \in Requests : request[r].op \in Switching =>
        org[request[r].org] = "deleted" \/ <<request[r].org, request[r].by>> \in member

Inv == Rows /\ Invitations /\ Asking /\ StillMembers

-----------------------------------------------------------------------------
(* Types and requests *)

LEMMA NoneIsNot ==
  /\ None \notin Users /\ None \notin Orgs /\ None \notin Invites /\ None \notin Roles
  /\ InvitedRoles \subseteq Roles /\ "SUPER_ADMIN" \in Roles
BY AccountsAssumption DEF Roles

LEMMA InvTyped == Inv => TypeOK
<1> SUFFICES ASSUME Inv PROVE TypeOK
  OBVIOUS
<1>1. member \subseteq {o \in Orgs : org[o] = "live"} \X {u \in Users : role[u] # None}
  BY DEF Inv, Rows
<1>2. active \in [Users -> {o \in Orgs : org[o] = "live"} \cup {None}]
  <2>1. \A u \in Users : active[u] \in {o \in Orgs : org[o] = "live"} \cup {None}
    BY DEF Inv, Rows, ActiveIsMembership
  <2> QED
    BY <2>1 DEF Inv, Rows
<1>3. /\ invite \in [Invites -> InviteType] /\ request \in [Requests -> RequestType]
  BY DEF Inv, Invitations, Asking
<1> QED
  BY <1>1, <1>2, <1>3
     DEF Inv, Rows, Asking, TypeOK, OrgStates, InviteRows, InviteType, RequestType

LEMMA IdleProper == Idle \in RequestType /\ Proper(Idle) /\ Idle.op = "idle" /\ "idle" \notin Switching
BY DEF Idle, RequestType, Ops, Proper, Switching

\* A request begins, having checked what it is about.
LEMMA Begun ==
  ASSUME Inv, NEW r \in Requests, NEW q \in RequestType, Proper(q), Begin(r, q),
         q.op \in Switching => <<q.org, q.by>> \in member
  PROVE  Inv'
<1>1. request' = [request EXCEPT ![r] = q] /\ UNCHANGED <<role, org, member, default, active, invite>>
  BY DEF Begin, rows
<1>2. Rows' /\ Invitations'
  BY <1>1 DEF Inv, Rows, Invitations, ActiveIsMembership
<1>3. /\ request' \in [Requests -> RequestType] /\ request'[r] = q
      /\ \A p \in Requests \ {r} : request'[p] = request[p]
  BY <1>1 DEF Inv, Asking
<1>4. raced' \subseteq Users
  <2>1. \A p \in Requests : About(q) \cap About(request[p]) \subseteq Users
    BY DEF About
  <2> QED
    BY <2>1 DEF Begin, Inv, Asking
<1>5. Asking'
  BY <1>3, <1>4 DEF Inv, Asking
<1>6. StillMembers'
  BY <1>1, <1>3 DEF Inv, StillMembers
<1> QED
  BY <1>2, <1>5, <1>6 DEF Inv

\* A request ends, and the rows change so that memberships are lost only with their
\* organization.
LEMMA Answered ==
  ASSUME Inv, NEW r \in Requests, Answer(r), Rows', Invitations',
         \A o \in Orgs : org[o] = "deleted" => org'[o] = "deleted",
         \A o \in Orgs, u \in Users : <<o, u>> \in member => <<o, u>> \in member' \/ org'[o] = "deleted"
  PROVE  Inv'
<1>1. request' = [request EXCEPT ![r] = Idle] /\ raced' = raced
  BY DEF Answer
<1>2. /\ request' \in [Requests -> RequestType]
      /\ \A p \in Requests : request'[p] = request[p] \/ request'[p] = Idle
  BY <1>1, IdleProper DEF Inv, Asking
<1>3. Asking'
  BY <1>1, <1>2, IdleProper DEF Inv, Asking
<1>4. StillMembers'
  <2> SUFFICES ASSUME NEW p \in Requests, request'[p].op \in Switching
               PROVE  org'[request'[p].org] = "deleted" \/ <<request'[p].org, request'[p].by>> \in member'
    BY DEF StillMembers
  <2>1. request'[p] = request[p]
    BY <1>2, IdleProper
  <2>2. request[p].org \in Orgs /\ request[p].by \in Users
    BY <2>1 DEF Inv, Asking, Proper, Switching
  <2>3. org[request[p].org] = "deleted" \/ <<request[p].org, request[p].by>> \in member
    BY <2>1 DEF Inv, StillMembers
  <2> QED
    BY <2>1, <2>2, <2>3
<1> QED
  BY <1>3, <1>4 DEF Inv

\* An account is created in a live organization.
LEMMA Created ==
  ASSUME Rows, NEW u \in Users, NEW o \in Orgs, NEW rl \in Roles, AccountCreated(u, o, rl),
         org' \in [Orgs -> OrgStates], org'[o] = "live", \A x \in Orgs : org[x] = "live" => org'[x] = "live"
  PROVE  Rows' /\ \A x \in Orgs, v \in Users : <<x, v>> \in member => <<x, v>> \in member'
<1>1. /\ role' = [role EXCEPT ![u] = rl] /\ member' = member \cup {<<o, u>>}
      /\ default' = default \cup {<<o, u>>} /\ active' = [active EXCEPT ![u] = o]
  BY DEF AccountCreated
<1>2. role' \in [Users -> Roles \cup {None}] /\ active' \in [Users -> Orgs \cup {None}]
  BY <1>1 DEF Rows
<1>3. \A v \in Users : role'[v] = IF v = u THEN rl ELSE role[v]
  BY <1>1 DEF Rows
<1>4. \A v \in Users : active'[v] = IF v = u THEN o ELSE active[v]
  BY <1>1 DEF Rows
<1>5. member' \subseteq Orgs \X Users /\ default' \subseteq member'
  BY <1>1 DEF Rows
<1>6. \A x \in Orgs, v \in Users : <<x, v>> \in member' => org'[x] = "live" /\ role'[v] # None
  BY <1>1, <1>3, NoneIsNot DEF Rows
<1>7. ActiveIsMembership'
  BY <1>1, <1>4 DEF Rows, ActiveIsMembership
<1> QED
  BY <1>1, <1>2, <1>5, <1>6, <1>7 DEF Rows

\* Invitations may be revoked.
LEMMA Revoked ==
  ASSUME Invitations, NEW e, NEW o
  PROVE  /\ RevokedFor(e, o) \in [Invites -> InviteType]
         /\ \A i \in Invites : /\ RevokedFor(e, o)[i].row = invite[i].row
                               /\ RevokedFor(e, o)[i].email = invite[i].email
                               /\ RevokedFor(e, o)[i].org = invite[i].org
                               /\ RevokedFor(e, o)[i].role = invite[i].role
<1>1. \A i \in Invites : /\ [invite[i] EXCEPT !.revoked = TRUE] \in InviteType
                         /\ [invite[i] EXCEPT !.revoked = TRUE].row = invite[i].row
                         /\ [invite[i] EXCEPT !.revoked = TRUE].email = invite[i].email
                         /\ [invite[i] EXCEPT !.revoked = TRUE].org = invite[i].org
                         /\ [invite[i] EXCEPT !.revoked = TRUE].role = invite[i].role
  BY DEF Invitations, InviteType
<1> QED
  BY <1>1 DEF Invitations, RevokedFor

-----------------------------------------------------------------------------
(* Requests begin *)

LEMMA BeginInvariant ==
  ASSUME Inv, NEW r \in Requests, BeginAny(r)
  PROVE  Inv'
<1>m. member \subseteq Orgs \X Users /\ default \subseteq member
  BY DEF Inv, Rows
<1>r. InvitedRoles \subseteq Roles
  BY NoneIsNot
<1>1. ASSUME NEW u \in Users, BeginRegister(r, u) PROVE Inv'
  <2> DEFINE q == [Idle EXCEPT !.op = "register", !.by = u]
  <2>1. q \in RequestType /\ Proper(q) /\ q.op \notin Switching
    BY DEF Idle, RequestType, Ops, Proper, Switching
  <2>2. Begin(r, q)
    BY <1>1 DEF BeginRegister
  <2> HIDE DEF q
  <2> QED
    BY <2>1, <2>2, Begun
<1>2. ASSUME NEW u \in Users, BeginCreate(r, u) PROVE Inv'
  <2> DEFINE d == IF OrgsOf(u) = {} THEN {u} ELSE {}
             q == [Idle EXCEPT !.op = "create", !.by = u, !.defaults = d]
  <2>1. d \subseteq Users
    OBVIOUS
  <2> HIDE DEF d
  <2>2. q \in RequestType /\ Proper(q) /\ q.op \notin Switching
    BY <2>1 DEF Idle, RequestType, Ops, Proper, Switching
  <2>3. Begin(r, q)
    BY <1>2 DEF BeginCreate, d
  <2> HIDE DEF q
  <2> QED
    BY <2>2, <2>3, Begun
<1>3. ASSUME NEW u \in Users, NEW o \in Orgs, NEW op \in {"default", "activate"}, BeginSwitch(r, u, o, op)
      PROVE  Inv'
  <2> DEFINE q == [Idle EXCEPT !.op = op, !.by = u, !.org = o]
  <2>1. q \in RequestType /\ Proper(q) /\ q.org = o /\ q.by = u
    BY DEF Idle, RequestType, Ops, Proper
  <2>2. Begin(r, q) /\ <<o, u>> \in member
    BY <1>3 DEF BeginSwitch, MaySwitch
  <2> HIDE DEF q
  <2> QED
    BY <2>1, <2>2, Begun
<1>4. ASSUME NEW u \in Users, NEW o \in Orgs, BeginDelete(r, u, o) PROVE Inv'
  <2> DEFINE s == Members(o)
             d == {v \in Members(o) : <<o, v>> \in default}
             q == [Idle EXCEPT !.op = "delete", !.by = u, !.org = o, !.seen = s, !.defaults = d]
  <2>1. s \subseteq Users /\ d \subseteq s
    BY DEF Members
  <2>2. Begin(r, q)
    BY <1>4 DEF BeginDelete
  <2> HIDE DEF s, d
  <2>3. q \in RequestType /\ Proper(q) /\ q.op \notin Switching
    BY <2>1 DEF Idle, RequestType, Ops, Proper, Switching
  <2> HIDE DEF q
  <2> QED
    BY <2>2, <2>3, Begun
<1>5. ASSUME NEW u \in Users, NEW e \in Users, NEW rl \in InvitedRoles, NEW op \in {"invite", "add"},
             BeginNewcomer(r, u, e, rl, op)
      PROVE  Inv'
  <2>1. PICK o \in Context(u) : Begin(r, [Idle EXCEPT !.op = op, !.by = u, !.on = e, !.org = o, !.role = rl])
    BY <1>5 DEF BeginNewcomer
  <2> DEFINE q == [Idle EXCEPT !.op = op, !.by = u, !.on = e, !.org = o, !.role = rl]
  <2>2. o \in Orgs
    BY <2>1 DEF Context, OrgsOf
  <2>3. q \in RequestType /\ Proper(q) /\ q.op \notin Switching
    BY <1>r, <2>2 DEF Idle, RequestType, Ops, Proper, Switching
  <2>4. Begin(r, q)
    BY <2>1
  <2> HIDE DEF q
  <2> QED
    BY <2>3, <2>4, Begun
<1>6. ASSUME NEW u \in Users, NEW t \in Users, NEW rl \in InvitedRoles, BeginRole(r, u, t, rl) PROVE Inv'
  <2> DEFINE q == [Idle EXCEPT !.op = "role", !.by = u, !.on = t, !.role = rl]
  <2>1. q \in RequestType /\ Proper(q) /\ q.op \notin Switching
    BY <1>r DEF Idle, RequestType, Ops, Proper, Switching
  <2>2. Begin(r, q)
    BY <1>6 DEF BeginRole
  <2> HIDE DEF q
  <2> QED
    BY <2>1, <2>2, Begun
<1>7. ASSUME NEW u \in Users, NEW t \in Users, BeginRemove(r, u, t) PROVE Inv'
  <2> DEFINE q == [Idle EXCEPT !.op = "remove", !.by = u, !.on = t]
  <2>1. q \in RequestType /\ Proper(q) /\ q.op \notin Switching
    BY DEF Idle, RequestType, Ops, Proper, Switching
  <2>2. Begin(r, q)
    BY <1>7 DEF BeginRemove
  <2> HIDE DEF q
  <2> QED
    BY <2>1, <2>2, Begun
<1>8. ASSUME NEW i \in Invites, BeginAccept(r, i) PROVE Inv'
  <2> DEFINE e == invite[i].email
             q == [Idle EXCEPT !.op = "accept", !.by = e, !.invite = i]
  <2>1. e \in Users \cup {None}
    BY DEF Inv, Invitations, InviteType
  <2>2. Begin(r, q)
    BY <1>8 DEF BeginAccept
  <2> HIDE DEF e
  <2>3. q \in RequestType /\ Proper(q) /\ q.op \notin Switching
    BY <2>1 DEF Idle, RequestType, Ops, Proper, Switching
  <2> HIDE DEF q
  <2> QED
    BY <2>2, <2>3, Begun
<1>9. ASSUME NEW u \in Users, NEW i \in Invites, NEW op \in {"regenerate", "revoke"}, BeginInvitation(r, u, i, op)
      PROVE  Inv'
  <2> DEFINE q == [Idle EXCEPT !.op = op, !.by = u, !.invite = i]
  <2>1. q \in RequestType /\ Proper(q) /\ q.op \notin Switching
    BY DEF Idle, RequestType, Ops, Proper, Switching
  <2>2. Begin(r, q)
    BY <1>9 DEF BeginInvitation
  <2> HIDE DEF q
  <2> QED
    BY <2>1, <2>2, Begun
<1> QED
  BY <1>1, <1>2, <1>3, <1>4, <1>5, <1>6, <1>7, <1>8, <1>9 DEF BeginAny

-----------------------------------------------------------------------------
(* Requests commit *)

\* Those that create an account.
LEMMA NewAccountInvariant ==
  ASSUME Inv, NEW r \in Requests, CommitRegister(r) \/ CommitAdd(r) \/ CommitAccept(r)
  PROVE  Inv'
<1>a. Rows /\ Invitations /\ Asking
  BY DEF Inv
<1>0. ASSUME NEW u \in Users, NEW o \in Orgs, NEW rl \in Roles, AccountCreated(u, o, rl), Answer(r),
             org' \in [Orgs -> OrgStates], org'[o] = "live",
             \A x \in Orgs : org[x] = "live" => org'[x] = "live",
             \A x \in Orgs : org[x] = "deleted" => org'[x] = "deleted", Invitations'
      PROVE  Inv'
  <2>1. Rows' /\ \A x \in Orgs, v \in Users : <<x, v>> \in member => <<x, v>> \in member'
    BY <1>a, <1>0, Created
  <2> QED
    BY <1>0, <2>1, Answered
<1>1. CASE CommitRegister(r)
  <2>1. request[r].by \in Users
    BY <1>1, <1>a DEF CommitRegister, Asking, Proper
  <2>2. PICK o \in Orgs : /\ org[o] = "none" /\ org' = [org EXCEPT ![o] = "live"]
                          /\ AccountCreated(request[r].by, o, "SUPER_ADMIN")
    BY <1>1 DEF CommitRegister
  <2>3. /\ org' \in [Orgs -> OrgStates] /\ org'[o] = "live"
        /\ \A x \in Orgs \ {o} : org'[x] = org[x]
    BY <1>a, <2>2 DEF Rows, OrgStates
  <2>4. Invitations' /\ Answer(r)
    BY <1>1, <1>a DEF CommitRegister, Invitations
  <2> QED
    BY <1>0, <2>1, <2>2, <2>3, <2>4, NoneIsNot
<1>2. CASE CommitAdd(r)
  <2> DEFINE e == request[r].on
             o == request[r].org
  <2>1. e \in Users /\ o \in Orgs /\ request[r].role \in Roles
    BY <1>2, <1>a, NoneIsNot DEF CommitAdd, Asking, Proper
  <2>2. /\ org[o] = "live" /\ org' = org /\ AccountCreated(e, o, request[r].role) /\ Answer(r)
        /\ invite' = RevokedFor(e, o)
    BY <1>2 DEF CommitAdd
  <2>3. Invitations'
    BY <1>a, <2>2, Revoked DEF Invitations
  <2>4. org' \in [Orgs -> OrgStates]
    BY <1>a, <2>2 DEF Rows
  <2> QED
    BY <1>0, <2>1, <2>2, <2>3, <2>4
<1>3. CASE CommitAccept(r)
  <2> DEFINE i == request[r].invite
  <2>1. i \in Invites /\ invite[i].row = "made" /\ org[invite[i].org] = "live"
    BY <1>3, <1>a DEF CommitAccept, MayCommitAccept, Asking, Proper
  <2>2. invite[i].email \in Users /\ invite[i].org \in Orgs /\ invite[i].role \in Roles
    BY <1>a, <2>1, NoneIsNot DEF Invitations
  <2>3. /\ org' = org /\ AccountCreated(invite[i].email, invite[i].org, invite[i].role) /\ Answer(r)
        /\ invite' = [invite EXCEPT ![i].accepted = TRUE]
    BY <1>3 DEF CommitAccept
  <2>4. Invitations'
    BY <1>a, <2>1, <2>3 DEF Invitations, InviteType
  <2>5. org' \in [Orgs -> OrgStates]
    BY <1>a, <2>3 DEF Rows
  <2> QED
    BY <1>0, <2>1, <2>2, <2>3, <2>4, <2>5
<1> QED
  BY <1>1, <1>2, <1>3

\* Those that change invitations only.
LEMMA InvitationInvariant ==
  ASSUME Inv, NEW r \in Requests, CommitInvite(r) \/ CommitInvitation(r)
  PROVE  Inv'
<1>a. Rows /\ Invitations /\ Asking
  BY DEF Inv
<1>b. UNCHANGED <<role, org, member, default, active>> /\ Answer(r)
  BY DEF CommitInvite, CommitInvitation
<1>1. Rows'
  BY <1>a, <1>b DEF Rows, ActiveIsMembership
<1>2. Invitations'
  <2>1. CASE CommitInvite(r)
    <3> DEFINE q == request[r]
               f == RevokedFor(q.on, q.org)
               row == [row |-> "made", email |-> q.on, org |-> q.org, role |-> q.role,
                       accepted |-> FALSE, revoked |-> FALSE, expired |-> FALSE]
    <3>1. q.on \in Users /\ q.org \in Orgs /\ q.role \in InvitedRoles
      BY <2>1, <1>a DEF CommitInvite, Asking, Proper
    <3>2. row \in InviteType
      BY <3>1 DEF InviteType, InviteRows
    <3>3. row.email \in Users /\ row.org \in Orgs /\ row.role \in InvitedRoles
      BY <3>1
    <3>4. PICK i \in Invites : invite' = [f EXCEPT ![i] = row]
      BY <2>1 DEF CommitInvite
    <3>5. /\ f \in [Invites -> InviteType]
          /\ \A j \in Invites : f[j].row = "made" =>
                f[j].email \in Users /\ f[j].org \in Orgs /\ f[j].role \in InvitedRoles
      BY <1>a, Revoked DEF Invitations
    <3> HIDE DEF row, f
    <3>6. invite' \in [Invites -> InviteType]
      BY <3>2, <3>4, <3>5
    <3>7. \A j \in Invites : invite'[j] = IF j = i THEN row ELSE f[j]
      BY <3>4, <3>5
    <3> QED
      BY <3>3, <3>5, <3>6, <3>7 DEF Invitations
  <2>2. CASE CommitInvitation(r)
    <3>1. request[r].invite \in Invites
      BY <2>2, <1>a DEF CommitInvitation, Asking, Proper
    <3>2. \E b \in BOOLEAN : \/ invite' = [invite EXCEPT ![request[r].invite].revoked = b]
                             \/ invite' = [invite EXCEPT ![request[r].invite].expired = b]
      BY <2>2 DEF CommitInvitation
    <3> QED
      BY <1>a, <3>1, <3>2 DEF Invitations, InviteType
  <2> QED
    BY <2>1, <2>2
<1> QED
  BY <1>b, <1>1, <1>2, Answered

\* An organization is created.
LEMMA CreateInvariant ==
  ASSUME Inv, NEW r \in Requests, CommitCreate(r)
  PROVE  Inv'
<1> DEFINE u == request[r].by
<1>a. Rows /\ Invitations /\ Asking
  BY DEF Inv
<1>1. u \in Users /\ role[u] # None
  BY <1>a DEF CommitCreate, Asking, Proper
<1>2. PICK o \in Orgs :
        /\ org[o] = "none" /\ org' = [org EXCEPT ![o] = "live"] /\ member' = member \cup {<<o, u>>}
        /\ \/ default' = DefaultSet(u, o) /\ active' = [active EXCEPT ![u] = o]
           \/ UNCHANGED <<default, active>>
  BY DEF CommitCreate
<1>3. role' = role /\ Answer(r) /\ UNCHANGED invite
  BY DEF CommitCreate
<1>4. /\ org' \in [Orgs -> OrgStates] /\ org'[o] = "live" /\ \A x \in Orgs \ {o} : org'[x] = org[x]
  BY <1>a, <1>2 DEF Rows, OrgStates
<1>5. member' \subseteq Orgs \X Users /\ default' \subseteq member'
  BY <1>a, <1>1, <1>2 DEF Rows, DefaultSet
<1>6. active' \in [Users -> Orgs \cup {None}] /\ \A v \in Users : active'[v] = active[v] \/ (v = u /\ active'[v] = o)
  BY <1>a, <1>1, <1>2 DEF Rows
<1>7. ActiveIsMembership'
  BY <1>a, <1>2, <1>6 DEF Rows, ActiveIsMembership
<1>8. \A x \in Orgs, v \in Users : <<x, v>> \in member' => org'[x] = "live" /\ role'[v] # None
  BY <1>a, <1>1, <1>2, <1>3, <1>4 DEF Rows
<1>9. Rows'
  BY <1>a, <1>3, <1>4, <1>5, <1>6, <1>7, <1>8 DEF Rows
<1>10. Invitations'
  BY <1>a, <1>3 DEF Invitations
<1>11. \A x \in Orgs : org[x] = "deleted" => org'[x] = "deleted"
  BY <1>2, <1>4
<1>12. \A x \in Orgs, v \in Users : <<x, v>> \in member => <<x, v>> \in member'
  BY <1>2
<1> QED
  BY <1>3, <1>9, <1>10, <1>11, <1>12, Answered

\* A member switches to an organization.
LEMMA SwitchInvariant ==
  ASSUME Inv, NEW r \in Requests, CommitDefault(r) \/ CommitActivate(r)
  PROVE  Inv'
<1> DEFINE u == request[r].by
           o == request[r].org
<1>a. Rows /\ Invitations /\ Asking
  BY DEF Inv
<1>1. u \in Users /\ o \in Orgs /\ request[r].op \in Switching
  BY <1>a DEF CommitDefault, CommitActivate, Asking, Proper, Switching
<1>2. /\ active' = [active EXCEPT ![u] = o] /\ Answer(r) /\ UNCHANGED <<role, org, member, invite>>
      /\ default' \in {default, DefaultSet(u, o)}
  BY DEF CommitDefault, CommitActivate
<1>3. <<o, u>> \in member
  <2>1. CASE CommitDefault(r)
    BY <2>1 DEF CommitDefault
  <2>2. CASE CommitActivate(r)
    <3>1. org[o] = "live"
      BY <2>2 DEF CommitActivate
    <3> QED
      BY <1>1, <3>1 DEF Inv, StillMembers
  <2> QED
    BY <2>1, <2>2
<1>4. active' \in [Users -> Orgs \cup {None}] /\ \A v \in Users : active'[v] = IF v = u THEN o ELSE active[v]
  BY <1>a, <1>1, <1>2 DEF Rows
<1>5. ActiveIsMembership'
  BY <1>a, <1>2, <1>3, <1>4 DEF Rows, ActiveIsMembership
<1>6. default' \subseteq member
  BY <1>a, <1>2, <1>3 DEF Rows, DefaultSet
<1>7. Rows' /\ Invitations'
  BY <1>a, <1>2, <1>4, <1>5, <1>6 DEF Rows, Invitations
<1> QED
  BY <1>2, <1>7, Answered

\* An organization is deleted, and its members fall back to another.
LEMMA DeleteInvariant ==
  ASSUME Inv, NEW r \in Requests, CommitDelete(r)
  PROVE  Inv'
<1> DEFINE o == request[r].org
           seen == request[r].seen
<1>a. Rows /\ Invitations /\ Asking
  BY DEF Inv
<1>1. o \in Orgs /\ seen \subseteq Users /\ request[r].defaults \subseteq seen
  BY <1>a DEF CommitDelete, Asking, Proper, RequestType
<1>2. PICK fallback \in [seen -> Orgs \cup {None}] :
        /\ \A u \in seen : fallback[u] \in FallbacksOf(u, o)
        /\ default' = DefaultsAfter(r, o, fallback) /\ active' = ActiveAfter(r, o, fallback)
  BY DEF CommitDelete
<1>3. /\ member' = {m \in member : m[1] # o} /\ org' = [org EXCEPT ![o] = "deleted"]
      /\ role' = role /\ Answer(r)
      /\ invite' = [i \in Invites |-> IF invite[i].org = o
                                      THEN [invite[i] EXCEPT !.row = "deleted"] ELSE invite[i]]
  BY DEF CommitDelete
<1>4. \A u \in seen : fallback[u] # None => fallback[u] \in Orgs \ {o} /\ <<fallback[u], u>> \in member
  <2> SUFFICES ASSUME NEW u \in seen, fallback[u] # None
               PROVE  fallback[u] \in Others(u, o)
    BY DEF Others, OrgsOf
  <2>1. Defaults(u) \ {o} \subseteq Others(u, o)
    BY <1>a DEF Rows, Defaults, Others, OrgsOf
  <2> QED
    BY <1>2, <2>1 DEF FallbacksOf
<1>5. /\ \A x \in Orgs, v \in Users : <<x, v>> \in member' <=> <<x, v>> \in member /\ x # o
      /\ member' \subseteq Orgs \X Users
  BY <1>a, <1>3 DEF Rows
<1>6. org' \in [Orgs -> OrgStates] /\ org'[o] = "deleted" /\ \A x \in Orgs \ {o} : org'[x] = org[x]
  BY <1>a, <1>1, <1>3 DEF Rows, OrgStates
<1>7. default' \subseteq member'
  <2> DEFINE moved == {u \in request[r].defaults : fallback[u] # None}
  <2>1. {d \in default : d[1] # o /\ d[2] \notin moved} \subseteq member'
    BY <1>a, <1>3 DEF Rows
  <2>2. \A u \in moved : <<fallback[u], u>> \in member'
    BY <1>1, <1>4, <1>5
  <2>3. default' = {d \in default : d[1] # o /\ d[2] \notin moved} \cup {<<fallback[u], u>> : u \in moved}
    BY <1>2 DEF DefaultsAfter
  <2> HIDE DEF moved
  <2> QED
    BY <2>1, <2>2, <2>3
<1>8. \A u \in Users :
        active'[u] = CASE u \in request[r].defaults /\ fallback[u] # None -> fallback[u]
                       [] active[u] = o -> IF u \in seen THEN fallback[u] ELSE None
                       [] OTHER -> active[u]
  BY <1>2 DEF ActiveAfter
<1>9. \A u \in Users : active'[u] \in Orgs \cup {None} /\ (active'[u] # None => <<active'[u], u>> \in member')
  <2> SUFFICES ASSUME NEW u \in Users
               PROVE  active'[u] \in Orgs \cup {None} /\ (active'[u] # None => <<active'[u], u>> \in member')
    OBVIOUS
  <2>1. CASE u \in request[r].defaults /\ fallback[u] # None
    <3>1. active'[u] = fallback[u] /\ u \in seen
      BY <1>1, <1>8, <2>1
    <3> QED
      BY <1>4, <1>5, <2>1, <3>1
  <2>2. CASE ~(u \in request[r].defaults /\ fallback[u] # None) /\ active[u] = o
    <3>1. active'[u] = IF u \in seen THEN fallback[u] ELSE None
      BY <1>8, <2>2
    <3>2. CASE u \in seen
      BY <1>2, <1>4, <1>5, <3>1, <3>2
    <3>3. CASE u \notin seen
      BY <3>1, <3>3
    <3> QED
      BY <3>2, <3>3
  <2>3. CASE ~(u \in request[r].defaults /\ fallback[u] # None) /\ active[u] # o
    <3>1. active'[u] = active[u]
      BY <1>8, <2>3
    <3> QED
      BY <1>a, <1>5, <2>3, <3>1 DEF Rows, ActiveIsMembership
  <2> QED
    BY <2>1, <2>2, <2>3
<1>10. active' \in [Users -> Orgs \cup {None}]
  <2>1. active' = [u \in Users |-> active'[u]]
    BY <1>2 DEF ActiveAfter
  <2> QED
    BY <1>9, <2>1
<1>11. \A x \in Orgs, v \in Users : <<x, v>> \in member' => org'[x] = "live" /\ role'[v] # None
  BY <1>a, <1>3, <1>5, <1>6 DEF Rows
<1>12. Rows'
  BY <1>a, <1>3, <1>5, <1>6, <1>7, <1>9, <1>10, <1>11 DEF Rows, ActiveIsMembership
<1>13. Invitations'
  <2>1. \A i \in Invites : /\ [invite[i] EXCEPT !.row = "deleted"] \in InviteType
                           /\ [invite[i] EXCEPT !.row = "deleted"].row = "deleted"
    BY <1>a DEF Invitations, InviteType, InviteRows
  <2> QED
    BY <1>a, <1>3, <2>1 DEF Invitations
<1> QED
  BY <1>3, <1>5, <1>6, <1>12, <1>13, Answered

\* An account is removed, with its memberships and the requests it has made.
LEMMA RemoveInvariant ==
  ASSUME Inv, NEW r \in Requests, CommitRemove(r)
  PROVE  Inv'
<1> DEFINE t == request[r].on
<1>a. Rows /\ Invitations /\ Asking
  BY DEF Inv
<1>1. t \in Users
  BY <1>a DEF CommitRemove, Asking, Proper
<1>2. /\ role' = [role EXCEPT ![t] = None] /\ member' = {m \in member : m[2] # t}
      /\ default' = {m \in default : m[2] # t} /\ active' = [active EXCEPT ![t] = None]
      /\ request' = WithoutAccount(t) /\ UNCHANGED <<org, invite, raced>>
  BY DEF CommitRemove
<1>3. /\ \A x \in Orgs, v \in Users : <<x, v>> \in member' <=> <<x, v>> \in member /\ v # t
      /\ member' \subseteq Orgs \X Users /\ default' \subseteq member'
  BY <1>a, <1>2 DEF Rows
<1>4. /\ role' \in [Users -> Roles \cup {None}] /\ active' \in [Users -> Orgs \cup {None}]
      /\ \A v \in Users \ {t} : role'[v] = role[v] /\ active'[v] = active[v]
      /\ active'[t] = None
  BY <1>a, <1>1, <1>2 DEF Rows
<1>5. ActiveIsMembership'
  BY <1>a, <1>3, <1>4 DEF Rows, ActiveIsMembership
<1>6. Rows' /\ Invitations'
  BY <1>a, <1>2, <1>3, <1>4, <1>5 DEF Rows, Invitations
<1>7. \A q \in Requests :
        \/ request'[q] = Idle
        \/ /\ request'[q] = [request[q] EXCEPT !.seen = @ \ {t}, !.defaults = @ \ {t}]
           /\ request[q].op \in Switching => request[q].by # t
  BY <1>2 DEF WithoutAccount, WritesAccount, Switching
<1>8. \A q \in Requests :
        \/ request'[q] = Idle
        \/ /\ request'[q] \in RequestType
           /\ request'[q].op = request[q].op /\ request'[q].by = request[q].by
           /\ request'[q].on = request[q].on /\ request'[q].org = request[q].org
           /\ request'[q].invite = request[q].invite /\ request'[q].role = request[q].role
           /\ request'[q].seen = request[q].seen \ {t} /\ request'[q].defaults = request[q].defaults \ {t}
           /\ request[q].op \in Switching => request[q].by # t
  <2> SUFFICES ASSUME NEW q \in Requests, request'[q] # Idle
               PROVE  /\ request'[q] \in RequestType
                      /\ request'[q].op = request[q].op /\ request'[q].by = request[q].by
                      /\ request'[q].on = request[q].on /\ request'[q].org = request[q].org
                      /\ request'[q].invite = request[q].invite /\ request'[q].role = request[q].role
                      /\ request'[q].seen = request[q].seen \ {t}
                      /\ request'[q].defaults = request[q].defaults \ {t}
                      /\ request[q].op \in Switching => request[q].by # t
    OBVIOUS
  <2>1. request[q] \in RequestType
    BY <1>a DEF Asking
  <2>2. /\ request'[q] = [request[q] EXCEPT !.seen = @ \ {t}, !.defaults = @ \ {t}]
        /\ request[q].op \in Switching => request[q].by # t
    BY <1>7
  <2> QED
    BY <2>1, <2>2 DEF RequestType
<1>9. request' \in [Requests -> RequestType]
  <2>1. request' = [q \in Requests |-> request'[q]]
    BY <1>2 DEF WithoutAccount
  <2> QED
    BY <1>8, <2>1, IdleProper
<1>10. Asking'
  <2>1. \A q \in Requests : Proper(request'[q])
    BY <1>a, <1>8, IdleProper DEF Asking, Proper
  <2> QED
    BY <1>a, <1>2, <1>9, <2>1 DEF Asking
<1>11. StillMembers'
  <2> SUFFICES ASSUME NEW q \in Requests, request'[q].op \in Switching
               PROVE  org[request'[q].org] = "deleted" \/ <<request'[q].org, request'[q].by>> \in member'
    BY <1>2 DEF StillMembers
  <2>1. /\ request'[q].op = request[q].op /\ request'[q].by = request[q].by
        /\ request'[q].org = request[q].org /\ request[q].by # t
    BY <1>8, IdleProper
  <2>2. request[q].org \in Orgs /\ request[q].by \in Users
    BY <1>a, <2>1 DEF Asking, Proper, Switching
  <2>3. org[request[q].org] = "deleted" \/ <<request[q].org, request[q].by>> \in member
    BY <2>1 DEF Inv, StillMembers
  <2> QED
    BY <1>3, <2>1, <2>2, <2>3
<1> QED
  BY <1>6, <1>10, <1>11 DEF Inv

-----------------------------------------------------------------------------
(* The invariant *)

LEMMA InitInvariant == Init => Inv
<1> SUFFICES ASSUME Init PROVE Inv
  OBVIOUS
<1>1. Rows
  BY DEF Init, Rows, OrgStates, ActiveIsMembership
<1>2. Invitations
  BY DEF Init, Invitations, InviteType, InviteRows
<1>3. Asking /\ StillMembers
  BY IdleProper DEF Init, Asking, StillMembers
<1> QED
  BY <1>1, <1>2, <1>3 DEF Inv

LEMMA NextInvariant == Inv /\ [Next]_vars => Inv'
<1> SUFFICES ASSUME Inv, [Next]_vars PROVE Inv'
  OBVIOUS
<1>1. ASSUME NEW r \in Requests, BeginAny(r) PROVE Inv'
  BY <1>1, BeginInvariant
<1>2. ASSUME NEW r \in Requests, Commit(r) PROVE Inv'
  <2>1. CASE CommitRole(r)
    <3>1. request[r].on \in Users /\ request[r].role \in Roles /\ Answer(r)
      BY <2>1, NoneIsNot DEF CommitRole, Inv, Asking, Proper
    <3>2. role' = [role EXCEPT ![request[r].on] = request[r].role]
          /\ UNCHANGED <<org, member, default, active, invite>>
      BY <2>1 DEF CommitRole
    <3>3. \A u \in Users : role[u] # None => role'[u] # None
      BY <3>1, <3>2, NoneIsNot DEF Inv, Rows
    <3>4. Rows' /\ Invitations'
      BY <3>1, <3>2, <3>3 DEF Inv, Rows, Invitations, ActiveIsMembership
    <3> QED
      BY <3>1, <3>2, <3>4, Answered
  <2> QED
    BY <1>2, <2>1, NewAccountInvariant, InvitationInvariant, CreateInvariant, SwitchInvariant,
       DeleteInvariant, RemoveInvariant DEF Commit
<1>3. ASSUME NEW r \in Requests, Fail(r) PROVE Inv'
  <2>1. Answer(r) /\ UNCHANGED <<role, org, member, default, active, invite>>
    BY <1>3 DEF Fail, rows
  <2>2. Rows' /\ Invitations'
    BY <2>1 DEF Inv, Rows, Invitations, ActiveIsMembership
  <2> QED
    BY <2>1, <2>2, Answered
<1>4. ASSUME NEW i \in Invites, Expires(i) PROVE Inv'
  <2>1. /\ UNCHANGED <<role, org, member, default, active, request, raced>>
        /\ invite' = [invite EXCEPT ![i].expired = TRUE]
    BY <1>4 DEF Expires
  <2>2. Invitations'
    BY <2>1 DEF Inv, Invitations, InviteType
  <2>3. Rows' /\ Asking' /\ StillMembers'
    BY <2>1 DEF Inv, Rows, Asking, StillMembers, ActiveIsMembership
  <2> QED
    BY <2>2, <2>3 DEF Inv
<1>5. CASE UNCHANGED vars
  BY <1>5 DEF vars, Inv, Rows, Invitations, Asking, StillMembers, ActiveIsMembership
<1> QED
  BY <1>1, <1>2, <1>3, <1>4, <1>5 DEF Next

LEMMA Invariant == Spec => []Inv
<1>1. Init => Inv
  BY InitInvariant
<1>2. Inv /\ [Next]_vars => Inv'
  BY NextInvariant
<1> QED
  BY <1>1, <1>2, PTL DEF Spec

-----------------------------------------------------------------------------
(* Defaults and owners: where no two requests about a user overlap         *)

\* Two requests about a user are in progress together only if the user is in raced.
SoleRequest ==
    \A p, q \in Requests : p # q => About(request[p]) \cap About(request[q]) \subseteq raced

\* An organization has at most one super admin: the one it was made by.
OneOwner ==
    \A o \in Orgs : \A u, v \in Members(o) : IsSuperAdmin(u) /\ IsSuperAdmin(v) => u = v

HasDefault ==
    \A u \in Users \ raced : OrgsOf(u) # {} => \E d \in Orgs : Defaults(u) = {d}

\* What a creation has read of its user is still so.
Creating(q) ==
    q.op = "create" /\ q.by \notin raced =>
        IsSuperAdmin(q.by) /\ (q.by \in q.defaults \/ OrgsOf(q.by) # {})

\* What a deletion has read of the members is still so; those who have joined since belong
\* nowhere else, and the super admin of the organization is the one who deletes it.
Deleting(q) ==
    q.op = "delete" =>
        /\ org[q.org] # "none"
        /\ \A u \in q.seen : role[u] # None
        /\ \A u \in Members(q.org) : IsSuperAdmin(u) => u = q.by /\ u \in q.seen
        /\ \A u \in Members(q.org) \ raced :
              /\ u \in q.seen => (u \in q.defaults <=> <<q.org, u>> \in default)
              /\ u \notin q.seen => OrgsOf(u) = {q.org}
              /\ IsSuperAdmin(u) => Others(u, q.org) # {}

Fair ==
    /\ SoleRequest /\ OneOwner /\ HasDefault /\ OwnerKeepsOrganization
    /\ \A p \in Requests : Creating(request[p]) /\ Deleting(request[p])

LEMMA NobodysIdle == About(Idle) = {} /\ Creating(Idle) /\ Deleting(Idle)
BY NoneIsNot DEF About, Idle, Creating, Deleting

\* Who an unfinished creation or deletion is about.
LEMMA AboutUser ==
  ASSUME Inv, NEW p \in Requests
  PROVE  /\ request[p].by \in Users => request[p].by \in About(request[p])
         /\ request[p].on \in Users => request[p].on \in About(request[p])
         /\ request[p].seen \subseteq About(request[p])
         /\ request[p].op = "create" => request[p].by \in Users
         /\ request[p].op = "delete" => request[p].org \in Orgs
BY DEF Inv, Asking, RequestType, Proper, About

\* A request ends.
LEMMA SoleAnswered ==
  ASSUME Inv, SoleRequest, NEW r \in Requests, Answer(r)
  PROVE  /\ SoleRequest' /\ raced' = raced
         /\ \A p \in Requests : request'[p] = Idle \/ (p # r /\ request'[p] = request[p])
<1>1. \A p \in Requests : request'[p] = IF p = r THEN Idle ELSE request[p]
  BY DEF Answer, Inv, Asking
<1>2. raced' = raced
  BY DEF Answer
<1> QED
  BY <1>1, <1>2, NobodysIdle DEF SoleRequest

\* Requests in progress stay right one by one.
LEMMA EachFair ==
  ASSUME \A p \in Requests : request'[p] = Idle \/ request'[p] = request[p],
         \A p \in Requests : \A q : q = request[p] /\ request'[p] = q /\ q.op = "create" => Creating(q)',
         \A p \in Requests : \A q : q = request[p] /\ request'[p] = q /\ q.op = "delete" => Deleting(q)'
  PROVE  \A p \in Requests : Creating(request[p])' /\ Deleting(request[p])'
<1> SUFFICES ASSUME NEW p \in Requests, NEW q, q = request'[p] PROVE Creating(q)' /\ Deleting(q)'
  BY DEF Creating, Deleting
<1>1. CASE q.op \notin {"create", "delete"}
  BY <1>1 DEF Creating, Deleting
<1>2. CASE q.op \in {"create", "delete"}
  <2>1. q = request[p]
    BY <1>2 DEF Idle
  <2>2. q.op = "create" => Creating(q)'
    BY <2>1
  <2>3. q.op = "delete" => Deleting(q)'
    BY <2>1
  <2>4. (q.op # "create" => Creating(q)') /\ (q.op # "delete" => Deleting(q)')
    BY DEF Creating, Deleting
  <2> QED
    BY <2>2, <2>3, <2>4
<1> QED
  BY <1>1, <1>2

\* Nothing changes that a creation or a deletion relies on.
LEMMA QuietFair ==
  ASSUME Inv, Fair, NEW r \in Requests, Answer(r), UNCHANGED <<role, org, member, default>>
  PROVE  Fair'
<1>1. /\ SoleRequest' /\ raced' = raced
      /\ \A p \in Requests : request'[p] = Idle \/ (p # r /\ request'[p] = request[p])
  BY SoleAnswered DEF Fair
<1>2. OneOwner' /\ HasDefault' /\ OwnerKeepsOrganization'
  BY <1>1 DEF Fair, OneOwner, HasDefault, OwnerKeepsOrganization, Members, OrgsOf, Defaults, IsSuperAdmin
<1>3. \A p \in Requests : Creating(request'[p]) /\ Deleting(request'[p])
  BY <1>1, NobodysIdle DEF Fair
<1>4. \A p \in Requests : Creating(request[p])' /\ Deleting(request[p])'
  BY <1>1, <1>3 DEF Creating, Deleting, Members, OrgsOf, Others, IsSuperAdmin
<1> QED
  BY <1>1, <1>2, <1>4 DEF Fair

\* A request begins.
LEMMA BegunFair ==
  ASSUME Inv, Fair, NEW r \in Requests, NEW q, Begin(r, q), Creating(q), Deleting(q)
  PROVE  Fair'
<1>1. /\ UNCHANGED <<role, org, member, default>> /\ raced \subseteq raced'
      /\ \A p \in Requests \ {r} : About(q) \cap About(request[p]) \subseteq raced'
  BY DEF Begin, rows
<1>2. \A p \in Requests : request'[p] = IF p = r THEN q ELSE request[p]
  BY DEF Begin, Inv, Asking
<1>3. SoleRequest'
  BY <1>1, <1>2 DEF Fair, SoleRequest
<1>4. OneOwner' /\ HasDefault' /\ OwnerKeepsOrganization'
  BY <1>1 DEF Fair, OneOwner, HasDefault, OwnerKeepsOrganization, Members, OrgsOf, Defaults, IsSuperAdmin
<1>5. \A p \in Requests : Creating(request'[p]) /\ Deleting(request'[p])
  BY <1>2 DEF Fair
<1>6. \A p \in Requests : Creating(request[p])' /\ Deleting(request[p])'
  BY <1>1, <1>5 DEF Creating, Deleting, Members, OrgsOf, Others, IsSuperAdmin
<1> QED
  BY <1>3, <1>4, <1>6 DEF Fair

LEMMA BeginFair ==
  ASSUME Inv, Fair, NEW r \in Requests, BeginAny(r)
  PROVE  Fair'
<1>1. \A q : Begin(r, q) /\ q.op \notin {"create", "delete"} => Fair'
  BY BegunFair DEF Creating, Deleting
<1>2. ASSUME NEW u \in Users, BeginCreate(r, u) PROVE Fair'
  <2> DEFINE d == IF OrgsOf(u) = {} THEN {u} ELSE {}
             q == [Idle EXCEPT !.op = "create", !.by = u, !.defaults = d]
  <2>1. Begin(r, q) /\ IsSuperAdmin(u)
    BY <1>2 DEF BeginCreate
  <2>2. q.op = "create" /\ q.by = u /\ q.defaults = d
    BY DEF Idle
  <2>3. Creating(q) /\ Deleting(q)
    BY <2>1, <2>2 DEF Creating, Deleting
  <2> HIDE DEF q
  <2> QED
    BY <2>1, <2>3, BegunFair
<1>3. ASSUME NEW u \in Users, NEW o \in Orgs, BeginDelete(r, u, o) PROVE Fair'
  <2> DEFINE d == {v \in Members(o) : <<o, v>> \in default}
             q == [Idle EXCEPT !.op = "delete", !.by = u, !.org = o, !.seen = Members(o), !.defaults = d]
  <2>1. Begin(r, q) /\ IsSuperAdmin(u) /\ u \in Members(o) /\ Others(u, o) # {}
    BY <1>3 DEF BeginDelete, MayDelete, Members
  <2>2. q.op = "delete" /\ q.by = u /\ q.org = o /\ q.seen = Members(o) /\ q.defaults = d
    BY DEF Idle
  <2>3. org[o] = "live" /\ \A v \in Members(o) : role[v] # None
    BY <2>1 DEF Inv, Rows, Members
  <2>4. \A v \in Members(o) : IsSuperAdmin(v) => v = u
    BY <2>1 DEF Fair, OneOwner
  <2>5. Creating(q) /\ Deleting(q)
    BY <2>1, <2>2, <2>3, <2>4 DEF Creating, Deleting
  <2> HIDE DEF q
  <2> QED
    BY <2>1, <2>5, BegunFair
<1> HIDE DEF Fair
<1>4. \A u \in Users : BeginRegister(r, u) => Fair'
  BY <1>1 DEF BeginRegister, Idle
<1>5. \A u \in Users, o \in Orgs, op \in {"default", "activate"} : BeginSwitch(r, u, o, op) => Fair'
  BY <1>1 DEF BeginSwitch, Idle
<1>6. \A u, e \in Users, rl \in InvitedRoles, op \in {"invite", "add"} : BeginNewcomer(r, u, e, rl, op) => Fair'
  BY <1>1 DEF BeginNewcomer, Idle
<1>7. \A u, t \in Users, rl \in InvitedRoles : BeginRole(r, u, t, rl) => Fair'
  BY <1>1 DEF BeginRole, Idle
<1>8. \A u, t \in Users : BeginRemove(r, u, t) => Fair'
  BY <1>1 DEF BeginRemove, Idle
<1>9. \A i \in Invites : BeginAccept(r, i) => Fair'
  BY <1>1 DEF BeginAccept, Idle
<1>10. \A u \in Users, i \in Invites, op \in {"regenerate", "revoke"} : BeginInvitation(r, u, i, op) => Fair'
  BY <1>1 DEF BeginInvitation, Idle
<1> QED
  BY <1>2, <1>3, <1>4, <1>5, <1>6, <1>7, <1>8, <1>9, <1>10 DEF BeginAny

\* An account joins an organization that is there, or makes its own.
LEMMA JoinedFair ==
  ASSUME Inv, Fair, NEW r \in Requests, NEW u \in Users, NEW o \in Orgs, NEW rl \in Roles,
         role[u] = None, AccountCreated(u, o, rl), Answer(r),
         \/ org' = org /\ org[o] = "live" /\ rl \in InvitedRoles
         \/ org' = [org EXCEPT ![o] = "live"] /\ org[o] = "none"
  PROVE  Fair'
<1>r. Rows
  BY DEF Inv
<1>1. /\ SoleRequest' /\ raced' = raced
      /\ \A p \in Requests : request'[p] = Idle \/ (p # r /\ request'[p] = request[p])
  BY SoleAnswered DEF Fair
<1>2. /\ \A v \in Users : role'[v] = IF v = u THEN rl ELSE role[v]
      /\ member' = member \cup {<<o, u>>} /\ default' = default \cup {<<o, u>>}
  BY <1>r DEF AccountCreated, Rows
<1>3. \A x \in Orgs : <<x, u>> \notin member /\ <<x, u>> \notin default
  BY <1>r DEF Rows
<1>4. /\ OrgsOf(u)' = {o} /\ Defaults(u)' = {o}
      /\ \A v \in Users \ {u} : OrgsOf(v)' = OrgsOf(v) /\ Defaults(v)' = Defaults(v)
  BY <1>2, <1>3 DEF OrgsOf, Defaults
<1>5. /\ \A x \in Orgs \ {o} : Members(x)' = Members(x) /\ u \notin Members(x) /\ org'[x] = org[x]
      /\ Members(o)' = Members(o) \cup {u} /\ u \notin Members(o)
  BY <1>r, <1>2, <1>3 DEF Members, Rows
<1>6. org[o] = "none" => Members(o) = {}
  BY <1>r DEF Rows, Members
<1>7. org'[o] # "none" /\ (org' = org => ~IsSuperAdmin(u)')
  BY <1>r, <1>2, AccountsAssumption DEF Rows, IsSuperAdmin
<1>8. \A v \in Users \ {u} : IsSuperAdmin(v)' <=> IsSuperAdmin(v)
  BY <1>2 DEF IsSuperAdmin
<1>9. OneOwner'
  <2> SUFFICES ASSUME NEW x \in Orgs, NEW v \in Members(x)', NEW w \in Members(x)',
                      IsSuperAdmin(v)', IsSuperAdmin(w)', v # w
               PROVE  FALSE
    BY DEF OneOwner
  <2>1. v \in Users /\ w \in Users
    BY DEF Members
  <2>2. v # u /\ w # u
    BY <1>5, <1>6, <1>7, <2>1
  <2> QED
    BY <1>5, <1>8, <2>1, <2>2 DEF Fair, OneOwner
<1>10. HasDefault' /\ OwnerKeepsOrganization'
  BY <1>1, <1>4, <1>8 DEF Fair, HasDefault, OwnerKeepsOrganization
<1>11. ASSUME NEW p \in Requests, NEW q, q = request[p], request'[p] = q, q.op = "create"
       PROVE  Creating(q)'
  <2> SUFFICES ASSUME q.by \notin raced PROVE Creating(q)'
    BY <1>1 DEF Creating
  <2>1. IsSuperAdmin(q.by) /\ q.by \in Users /\ (q.by \in q.defaults \/ OrgsOf(q.by) # {})
    BY <1>11, AboutUser DEF Fair, Creating
  <2>2. q.by # u
    BY <2>1, NoneIsNot DEF IsSuperAdmin
  <2>3. IsSuperAdmin(q.by)' /\ OrgsOf(q.by)' = OrgsOf(q.by)
    BY <1>4, <1>8, <2>1, <2>2
  <2> QED
    BY <1>1, <2>1, <2>3 DEF Creating
<1>12. ASSUME NEW p \in Requests, NEW q, q = request[p], request'[p] = q, q.op = "delete"
       PROVE  Deleting(q)'
  <2>1. q.org \in Orgs /\ q.seen \subseteq Users
    BY <1>12, AboutUser DEF Inv, Asking, RequestType
  <2>2. Deleting(q) /\ org[q.org] # "none" /\ u \notin q.seen
    BY <1>12 DEF Fair, Deleting
  <2>3. org'[q.org] # "none" /\ \A v \in q.seen : role'[v] # None
    BY <1>2, <1>5, <1>7, <1>12, <2>1, <2>2 DEF Deleting
  <2>4. u \in Members(q.org)' => q.org = o /\ ~IsSuperAdmin(u)'
    BY <1>5, <1>7, <2>1, <2>2
  <2>5. ASSUME NEW v \in Members(q.org)', v # u
        PROVE  /\ v \in Members(q.org) /\ v \in Users /\ (<<q.org, v>> \in default' <=> <<q.org, v>> \in default)
               /\ OrgsOf(v)' = OrgsOf(v) /\ Others(v, q.org)' = Others(v, q.org)
               /\ (IsSuperAdmin(v)' <=> IsSuperAdmin(v))
    <3>1. v \in Members(q.org) /\ v \in Users
      BY <1>5, <2>1, <2>5 DEF Members
    <3>2. OrgsOf(v)' = OrgsOf(v) /\ (IsSuperAdmin(v)' <=> IsSuperAdmin(v))
      BY <1>4, <1>8, <2>5, <3>1
    <3>3. Others(v, q.org)' = Others(v, q.org)
      BY <3>2 DEF Others
    <3>4. <<q.org, v>> \in default' <=> <<q.org, v>> \in default
      BY <1>2, <2>5
    <3> QED
      BY <3>1, <3>2, <3>3, <3>4
  <2>6. ASSUME NEW v \in Members(q.org)', v \notin raced
        PROVE  /\ v \in q.seen => (v \in q.defaults <=> <<q.org, v>> \in default')
               /\ v \notin q.seen => OrgsOf(v)' = {q.org}
               /\ IsSuperAdmin(v)' => Others(v, q.org)' # {}
    <3>1. CASE v = u
      BY <1>4, <2>2, <2>4, <2>6, <3>1
    <3>2. CASE v # u
      BY <1>12, <2>2, <2>5, <2>6, <3>2 DEF Deleting
    <3> QED
      BY <3>1, <3>2
  <2>7. ASSUME NEW v \in Members(q.org)', IsSuperAdmin(v)'
        PROVE  v = q.by /\ v \in q.seen
    <3>1. v # u
      BY <2>4, <2>7
    <3> QED
      BY <1>12, <2>2, <2>5, <2>7, <3>1 DEF Deleting
  <2> QED
    BY <1>1, <2>3, <2>6, <2>7 DEF Deleting
<1>13. \A p \in Requests : Creating(request[p])' /\ Deleting(request[p])'
  BY <1>1, <1>11, <1>12, EachFair
<1> QED
  BY <1>1, <1>9, <1>10, <1>13 DEF Fair

\* A super admin creates an organization.
LEMMA CreateFair ==
  ASSUME Inv, Fair, NEW r \in Requests, CommitCreate(r)
  PROVE  Fair'
<1>r. Rows
  BY DEF Inv
<1>0. PICK u \in Users : u = request[r].by
  BY AboutUser DEF CommitCreate
<1>1. /\ SoleRequest' /\ raced' = raced
      /\ \A p \in Requests : request'[p] = Idle \/ (p # r /\ request'[p] = request[p])
  BY SoleAnswered DEF Fair, CommitCreate
<1>2. PICK o \in Orgs :
        /\ org[o] = "none" /\ org' = [org EXCEPT ![o] = "live"] /\ member' = member \cup {<<o, u>>}
        /\ role' = role /\ role[u] # None
        /\ IF u \in request[r].defaults THEN default' = DefaultSet(u, o) ELSE default' = default
  BY <1>0 DEF CommitCreate
<1>3. u \in About(request[r]) /\ (u \notin raced => IsSuperAdmin(u) /\ (u \in request[r].defaults \/ OrgsOf(u) # {}))
  BY <1>0, AboutUser DEF Fair, Creating, CommitCreate
<1>4. /\ OrgsOf(u)' = OrgsOf(u) \cup {o}
      /\ \A v \in Users \ {u} : OrgsOf(v)' = OrgsOf(v)
  BY <1>2 DEF OrgsOf
<1>5. /\ \A v \in Users \ {u} : Defaults(v)' = Defaults(v)
      /\ Defaults(u)' \in {{o}, Defaults(u)}
      /\ u \in request[r].defaults => Defaults(u)' = {o}
  BY <1>2 DEF Defaults, DefaultSet
<1>6. /\ \A x \in Orgs \ {o} : Members(x)' = Members(x) /\ org'[x] = org[x]
      /\ Members(o)' = {u} /\ Members(o) = {}
  BY <1>r, <1>2 DEF Members, Rows
<1>8. \A v \in Users : IsSuperAdmin(v)' <=> IsSuperAdmin(v)
  BY <1>2 DEF IsSuperAdmin
<1>9. OneOwner'
  <2> SUFFICES ASSUME NEW x \in Orgs, NEW v \in Members(x)', NEW w \in Members(x)',
                      IsSuperAdmin(v)', IsSuperAdmin(w)', v # w
               PROVE  FALSE
    BY DEF OneOwner
  <2>1. v \in Users /\ w \in Users
    BY DEF Members
  <2>2. x # o
    BY <1>6
  <2> QED
    BY <1>6, <1>8, <2>1, <2>2 DEF Fair, OneOwner
<1>10. HasDefault' /\ OwnerKeepsOrganization'
  <2>1. \A v \in Users \ raced : OrgsOf(v)' # {} => \E d \in Orgs : Defaults(v)' = {d}
    BY <1>3, <1>4, <1>5 DEF Fair, HasDefault
  <2>2. \A v \in Users \ raced : IsSuperAdmin(v)' => OrgsOf(v)' # {}
    BY <1>4, <1>8 DEF Fair, OwnerKeepsOrganization
  <2> QED
    BY <1>1, <2>1, <2>2 DEF HasDefault, OwnerKeepsOrganization
<1>11. ASSUME NEW p \in Requests, NEW q, q = request[p], request'[p] = q, q.op = "create"
       PROVE  Creating(q)'
  <2> SUFFICES ASSUME q.by \notin raced PROVE Creating(q)'
    BY <1>1 DEF Creating
  <2>1. IsSuperAdmin(q.by) /\ q.by \in Users /\ (q.by \in q.defaults \/ OrgsOf(q.by) # {})
    BY <1>11, AboutUser DEF Fair, Creating
  <2>2. IsSuperAdmin(q.by)' /\ (OrgsOf(q.by) # {} => OrgsOf(q.by)' # {})
    BY <1>4, <1>8, <2>1
  <2> QED
    BY <1>1, <2>1, <2>2 DEF Creating
<1>12. ASSUME NEW p \in Requests, NEW q, q = request[p], request'[p] = q, q.op = "delete"
       PROVE  Deleting(q)'
  <2>1. q.org \in Orgs /\ q.seen \subseteq About(q)
    BY <1>12, AboutUser
  <2>2. Deleting(q) /\ org[q.org] # "none"
    BY <1>12 DEF Fair, Deleting
  <2>3. q.org # o /\ org'[q.org] # "none"
    BY <1>2, <1>6, <2>1, <2>2
  <2>4. Members(q.org)' = Members(q.org) /\ \A v \in q.seen : role'[v] # None
    BY <1>2, <1>6, <1>12, <2>1, <2>2, <2>3 DEF Deleting
  <2>5. p # r
    BY <1>12 DEF CommitCreate
  <2>6. u \in Members(q.org) => u \in raced
    <3>1. u \in Members(q.org) /\ u \notin raced => u \in q.seen
      BY <1>3, <1>12, <2>2 DEF Deleting
    <3>2. u \in q.seen => u \in raced
      BY <1>3, <1>12, <2>1, <2>5 DEF Fair, SoleRequest
    <3> QED
      BY <3>1, <3>2
  <2>7. ASSUME NEW v \in Members(q.org), v # u
        PROVE  /\ v \in Users /\ (<<q.org, v>> \in default' <=> <<q.org, v>> \in default)
               /\ OrgsOf(v)' = OrgsOf(v) /\ Others(v, q.org)' = Others(v, q.org)
    <3>1. v \in Users
      BY DEF Members
    <3>2. OrgsOf(v)' = OrgsOf(v) /\ Defaults(v)' = Defaults(v)
      BY <1>4, <1>5, <2>7, <3>1
    <3> QED
      BY <2>1, <3>1, <3>2 DEF Others, Defaults
  <2> QED
    BY <1>1, <1>8, <1>12, <2>2, <2>3, <2>4, <2>6, <2>7 DEF Deleting, Members
<1>13. \A p \in Requests : Creating(request[p])' /\ Deleting(request[p])'
  BY <1>1, <1>11, <1>12, EachFair
<1> QED
  BY <1>1, <1>9, <1>10, <1>13 DEF Fair

\* A member makes one of its organizations the default.
LEMMA DefaultFair ==
  ASSUME Inv, Fair, NEW r \in Requests, CommitDefault(r)
  PROVE  Fair'
<1>0. PICK u \in Users, o \in Orgs :
        /\ u = request[r].by /\ o = request[r].org /\ u \in About(request[r])
        /\ default' = DefaultSet(u, o) /\ UNCHANGED <<role, org, member>>
  BY AboutUser DEF CommitDefault, Inv, Asking, Proper
<1>1. /\ SoleRequest' /\ raced' = raced
      /\ \A p \in Requests : request'[p] = Idle \/ (p # r /\ request'[p] = request[p])
  BY SoleAnswered DEF Fair, CommitDefault
<1>2. Defaults(u)' = {o} /\ \A v \in Users \ {u} : Defaults(v)' = Defaults(v)
  BY <1>0 DEF Defaults, DefaultSet
<1>3. OneOwner' /\ OwnerKeepsOrganization'
  BY <1>0, <1>1 DEF Fair, OneOwner, OwnerKeepsOrganization, Members, OrgsOf, IsSuperAdmin
<1>4. HasDefault'
  <2>1. \A v \in Users : OrgsOf(v)' = OrgsOf(v)
    BY <1>0 DEF OrgsOf
  <2> QED
    BY <1>1, <1>2, <2>1 DEF Fair, HasDefault
<1>5. ASSUME NEW p \in Requests, NEW q, q = request[p], request'[p] = q, q.op = "create"
      PROVE  Creating(q)'
  BY <1>0, <1>1, <1>5 DEF Fair, Creating, OrgsOf, IsSuperAdmin
<1>6. ASSUME NEW p \in Requests, NEW q, q = request[p], request'[p] = q, q.op = "delete"
      PROVE  Deleting(q)'
  <2>1. q.org \in Orgs /\ q.seen \subseteq About(q) /\ Deleting(q) /\ p # r
    BY <1>6, AboutUser DEF Fair, CommitDefault
  <2>2. u \in q.seen => u \in raced
    BY <1>0, <1>6, <2>1 DEF Fair, SoleRequest
  <2>3. ASSUME NEW v \in Users, v # u
        PROVE  <<q.org, v>> \in default' <=> <<q.org, v>> \in default
    BY <1>2, <2>1, <2>3 DEF Defaults
  <2> QED
    BY <1>0, <1>1, <1>6, <2>1, <2>2, <2>3 DEF Deleting, Members, OrgsOf, Others, IsSuperAdmin
<1>7. \A p \in Requests : Creating(request[p])' /\ Deleting(request[p])'
  BY <1>1, <1>5, <1>6, EachFair
<1> QED
  BY <1>1, <1>3, <1>4, <1>7 DEF Fair

\* A role is given, which is never that of a super admin.
LEMMA RoleFair ==
  ASSUME Inv, Fair, NEW r \in Requests, CommitRole(r)
  PROVE  Fair'
<1>0. PICK t \in Users, rl \in InvitedRoles :
        /\ t = request[r].on /\ t \in About(request[r])
        /\ role' = [role EXCEPT ![t] = rl] /\ UNCHANGED <<org, member, default>>
  BY AboutUser DEF CommitRole, Inv, Asking, Proper
<1>1. /\ SoleRequest' /\ raced' = raced
      /\ \A p \in Requests : request'[p] = Idle \/ (p # r /\ request'[p] = request[p])
  BY SoleAnswered DEF Fair, CommitRole
<1>2. \A v \in Users : /\ IsSuperAdmin(v)' => IsSuperAdmin(v)
                       /\ v # t => (IsSuperAdmin(v)' <=> IsSuperAdmin(v))
                       /\ role[v] # None => role'[v] # None
  BY <1>0, AccountsAssumption DEF IsSuperAdmin, Inv, Rows, Roles
<1>3. OneOwner'
  BY <1>0, <1>2 DEF Fair, OneOwner, Members
<1>4. HasDefault' /\ OwnerKeepsOrganization'
  BY <1>0, <1>1, <1>2 DEF Fair, HasDefault, OwnerKeepsOrganization, OrgsOf, Defaults
<1>5. ASSUME NEW p \in Requests, NEW q, q = request[p], request'[p] = q, q.op = "create"
      PROVE  Creating(q)'
  <2>1. q.by \in About(q) /\ q.by \in Users /\ Creating(q) /\ p # r
    BY <1>5, AboutUser DEF Fair, CommitRole
  <2>2. q.by = t => t \in raced
    BY <1>0, <1>5, <2>1 DEF Fair, SoleRequest
  <2> QED
    BY <1>0, <1>1, <1>2, <1>5, <2>1, <2>2 DEF Creating, OrgsOf
<1>6. ASSUME NEW p \in Requests, NEW q, q = request[p], request'[p] = q, q.op = "delete"
      PROVE  Deleting(q)'
  <2>1. Deleting(q) /\ q.seen \subseteq Users
    BY <1>6, AboutUser DEF Fair, Inv, Asking, RequestType
  <2> QED
    BY <1>0, <1>1, <1>2, <1>6, <2>1 DEF Deleting, Members, OrgsOf, Others
<1>7. \A p \in Requests : Creating(request[p])' /\ Deleting(request[p])'
  BY <1>1, <1>5, <1>6, EachFair
<1> QED
  BY <1>1, <1>3, <1>4, <1>7 DEF Fair

\* An organization is deleted: its members have their fallback or no organization left.
LEMMA DeleteFair ==
  ASSUME Inv, Fair, NEW r \in Requests, CommitDelete(r)
  PROVE  Fair'
<1>r. Rows
  BY DEF Inv
<1>0. PICK o \in Orgs, s \in SUBSET Users, ds \in SUBSET Users :
        ds \subseteq s /\ o = request[r].org /\ s = request[r].seen /\ ds = request[r].defaults
  BY DEF CommitDelete, Inv, Asking, RequestType, Proper
<1>1. /\ SoleRequest' /\ raced' = raced
      /\ \A p \in Requests : request'[p] = Idle \/ (p # r /\ request'[p] = request[p])
  BY SoleAnswered DEF Fair, CommitDelete
<1>2. PICK fallback \in [s -> Orgs \cup {None}] :
        /\ \A u \in s : fallback[u] \in FallbacksOf(u, o)
        /\ default' = {d \in default : d[1] # o /\ d[2] \notin {u \in ds : fallback[u] # None}}
                      \cup {<<fallback[u], u>> : u \in {v \in ds : fallback[v] # None}}
  BY <1>0 DEF CommitDelete, DefaultsAfter
<1>3. /\ role' = role /\ member' = {m \in member : m[1] # o} /\ org' = [org EXCEPT ![o] = "deleted"]
  BY <1>0 DEF CommitDelete
<1>4. /\ Members(o)' = {} /\ \A x \in Orgs \ {o} : Members(x)' = Members(x)
      /\ \A x \in Orgs : org[x] # "none" => org'[x] # "none"
  BY <1>r, <1>3 DEF Members, Rows
<1>5. \A u \in Users : OrgsOf(u)' = Others(u, o)
  BY <1>3 DEF OrgsOf, Others
<1>6. \A u \in s : Others(u, o) # {} => fallback[u] \in Others(u, o)
  <2>1. \A u \in s : Defaults(u) \ {o} \subseteq Others(u, o)
    BY <1>r DEF Rows, Defaults, Others, OrgsOf
  <2> QED
    BY <1>2, <2>1 DEF FallbacksOf
<1>7. \A u \in Users : u \in ds /\ fallback[u] # None => Defaults(u)' = {fallback[u]}
  <2> SUFFICES ASSUME NEW u \in Users, u \in ds, fallback[u] # None PROVE Defaults(u)' = {fallback[u]}
    OBVIOUS
  <2>1. fallback[u] \in Orgs
    BY <1>0, <1>2
  <2>2. \A d \in Orgs : <<d, u>> \in default' <=> d = fallback[u]
    <3>1. <<fallback[u], u>> \in default'
      BY <1>2
    <3>2. \A d \in Orgs : <<d, u>> \in default' => \E v \in ds : <<d, u>> = <<fallback[v], v>>
      BY <1>2
    <3> QED
      BY <3>1, <3>2
  <2> QED
    BY <2>1, <2>2 DEF Defaults
<1>8. \A u \in Users : ~(u \in ds /\ fallback[u] # None) => Defaults(u)' = Defaults(u) \ {o}
  BY <1>2 DEF Defaults
<1>9. s \subseteq About(request[r]) /\ Deleting(request[r]) /\ request[r].op = "delete"
  BY <1>0, AboutUser DEF Fair, CommitDelete
<1>10. ASSUME NEW u \in Users, u \notin raced, OrgsOf(u)' # {} PROVE \E d \in Orgs : Defaults(u)' = {d}
  <2>1. Others(u, o) # {} /\ OrgsOf(u) # {}
    BY <1>5, <1>10 DEF Others
  <2>2. CASE u \in ds
    <3>1. fallback[u] \in Others(u, o)
      BY <1>0, <1>6, <2>1, <2>2
    <3>2. fallback[u] \in Orgs
      BY <3>1 DEF Others, OrgsOf
    <3> QED
      BY <1>7, <2>2, <3>2, NoneIsNot
  <2>3. CASE u \notin ds
    <3>1. PICK d \in Orgs : Defaults(u) = {d}
      BY <1>10, <2>1 DEF Fair, HasDefault
    <3>2. d # o
      <4> SUFFICES ASSUME d = o PROVE FALSE
        OBVIOUS
      <4>1. <<o, u>> \in default /\ u \in Members(o)
        BY <1>r, <3>1 DEF Defaults, Members, Rows
      <4>2. u \in s
        <5>1. OrgsOf(u) # {o}
          BY <2>1 DEF Others
        <5> QED
          BY <1>0, <1>9, <1>10, <4>1, <5>1 DEF Deleting
      <4> QED
        BY <1>0, <1>9, <1>10, <2>3, <4>1, <4>2 DEF Deleting
    <3> QED
      BY <1>8, <2>3, <3>1, <3>2
  <2> QED
    BY <2>2, <2>3
<1>11. ASSUME NEW u \in Users, u \notin raced, IsSuperAdmin(u) PROVE OrgsOf(u)' # {}
  <2>1. CASE u \in Members(o)
    <3>1. Others(u, o) # {}
      BY <1>0, <1>9, <1>11, <2>1 DEF Deleting
    <3> QED
      BY <1>5, <3>1
  <2>2. CASE u \notin Members(o)
    <3>1. OrgsOf(u) # {} /\ o \notin OrgsOf(u)
      BY <1>11, <2>2 DEF Fair, OwnerKeepsOrganization, Members, OrgsOf
    <3> QED
      BY <1>5, <3>1 DEF Others
  <2> QED
    BY <2>1, <2>2
<1>12. HasDefault' /\ OwnerKeepsOrganization'
  BY <1>1, <1>3, <1>10, <1>11 DEF HasDefault, OwnerKeepsOrganization, IsSuperAdmin
<1>13. OneOwner'
  BY <1>3, <1>4 DEF Fair, OneOwner, IsSuperAdmin
<1>14. ASSUME NEW u \in Users, u \notin raced, IsSuperAdmin(u), u \in Members(o) PROVE u \in About(request[r])
  BY <1>0, <1>9, <1>14 DEF Deleting
<1>15. ASSUME NEW p \in Requests, NEW q, q = request[p], request'[p] = q, q.op = "create"
       PROVE  Creating(q)'
  <2> SUFFICES ASSUME q.by \notin raced PROVE Creating(q)'
    BY <1>1 DEF Creating
  <2>1. /\ IsSuperAdmin(q.by) /\ q.by \in Users /\ (q.by \in q.defaults \/ OrgsOf(q.by) # {})
        /\ q.by \in About(q) /\ p # r
    BY <1>9, <1>15, AboutUser DEF Fair, Creating
  <2>2. q.by \notin Members(o)
    BY <1>14, <1>15, <2>1 DEF Fair, SoleRequest
  <2>3. OrgsOf(q.by)' = OrgsOf(q.by)
    BY <1>5, <2>1, <2>2 DEF Others, OrgsOf, Members
  <2> QED
    BY <1>1, <1>3, <2>1, <2>3 DEF Creating, IsSuperAdmin
<1>16. ASSUME NEW p \in Requests, NEW q, q = request[p], request'[p] = q, q.op = "delete"
       PROVE  Deleting(q)'
  <2>1. q.org \in Orgs /\ q.seen \subseteq About(q) /\ Deleting(q) /\ p # r
    BY <1>1, <1>16, AboutUser, NobodysIdle DEF Fair, Idle
  <2>2. org'[q.org] # "none" /\ \A u \in q.seen : role'[u] # None
    BY <1>3, <1>4, <1>16, <2>1 DEF Deleting
  <2>3. CASE q.org = o
    BY <1>4, <1>16, <2>2, <2>3 DEF Deleting
  <2>4. CASE q.org # o
    <3>1. Members(q.org)' = Members(q.org)
      BY <1>4, <2>1, <2>4
    <3>2. ASSUME NEW u \in Members(q.org), u \notin raced, u \in q.seen
          PROVE  <<q.org, u>> \in default' <=> <<q.org, u>> \in default
      <4>1. u \notin s /\ u \in Users
        BY <1>9, <1>16, <2>1, <3>2 DEF Fair, SoleRequest, Members
      <4>2. Defaults(u)' = Defaults(u) \ {o}
        BY <1>0, <1>8, <4>1
      <4> QED
        BY <2>1, <2>4, <4>2 DEF Defaults
    <3>3. ASSUME NEW u \in Members(q.org), u \notin raced, u \notin q.seen
          PROVE  OrgsOf(u)' = {q.org}
      <4>1. OrgsOf(u) = {q.org} /\ u \in Users
        BY <1>16, <2>1, <3>3 DEF Deleting, Members
      <4> QED
        BY <1>5, <2>4, <4>1 DEF Others
    <3>4. ASSUME NEW u \in Members(q.org), u \notin raced, IsSuperAdmin(u)
          PROVE  Others(u, q.org)' # {}
      <4>1. u \in q.seen /\ Others(u, q.org) # {} /\ u \in Users
        BY <1>16, <2>1, <3>4 DEF Deleting, Members
      <4>2. u \notin Members(o)
        BY <1>14, <1>16, <2>1, <3>4, <4>1 DEF Fair, SoleRequest
      <4>3. OrgsOf(u)' = OrgsOf(u)
        BY <1>5, <4>1, <4>2 DEF Others, OrgsOf, Members
      <4> QED
        BY <4>1, <4>3 DEF Others
    <3> QED
      BY <1>1, <1>3, <1>16, <2>1, <2>2, <3>1, <3>2, <3>3, <3>4 DEF Deleting, IsSuperAdmin
  <2> QED
    BY <2>3, <2>4
<1>17. \A p \in Requests : Creating(request[p])' /\ Deleting(request[p])'
  BY <1>1, <1>15, <1>16, EachFair
<1> QED
  BY <1>1, <1>12, <1>13, <1>17 DEF Fair

\* The account of a user is removed, who may not be a super admin, and is in nothing any more.
LEMMA RemoveFair ==
  ASSUME Inv, Fair, NEW r \in Requests, CommitRemove(r)
  PROVE  Fair'
<1>r. Rows /\ Asking
  BY DEF Inv
<1>0. PICK t \in Users : t = request[r].on
  BY DEF CommitRemove, Inv, Asking, Proper
<1>1. /\ role' = [role EXCEPT ![t] = None] /\ member' = {m \in member : m[2] # t}
      /\ default' = {m \in default : m[2] # t}
      /\ request' = WithoutAccount(t) /\ UNCHANGED <<org, raced>>
  BY <1>0 DEF CommitRemove
<1>2. /\ OrgsOf(t)' = {} /\ ~IsSuperAdmin(t)'
      /\ \A u \in Users \ {t} : /\ OrgsOf(u)' = OrgsOf(u) /\ Defaults(u)' = Defaults(u)
                               /\ role'[u] = role[u] /\ (IsSuperAdmin(u)' <=> IsSuperAdmin(u))
  BY <1>r, <1>1, NoneIsNot DEF OrgsOf, Defaults, IsSuperAdmin, Rows
<1>3. \A o \in Orgs : Members(o)' = Members(o) \ {t}
  BY <1>1 DEF Members
<1>4. ASSUME NEW p \in Requests, request'[p] # Idle
      PROVE  /\ request'[p].op = request[p].op /\ request'[p].by = request[p].by
             /\ request'[p].on = request[p].on /\ request'[p].org = request[p].org
             /\ request'[p].seen = request[p].seen \ {t} /\ request'[p].defaults = request[p].defaults \ {t}
             /\ request[p].op = "create" => request[p].by # t
  <2>1. request[p] \in RequestType
    BY <1>r DEF Asking
  <2>2. /\ request'[p] = [request[p] EXCEPT !.seen = @ \ {t}, !.defaults = @ \ {t}]
        /\ request[p].op = "create" => request[p].by # t
    BY <1>1, <1>4 DEF WithoutAccount, WritesAccount
  <2> QED
    BY <2>1, <2>2 DEF RequestType
<1>5. SoleRequest'
  <2>1. \A p \in Requests : About(request'[p]) \subseteq About(request[p])
    BY <1>4, NobodysIdle DEF About
  <2> QED
    BY <1>1, <2>1 DEF Fair, SoleRequest
<1>6. OneOwner' /\ HasDefault' /\ OwnerKeepsOrganization'
  <2>1. OneOwner'
    <3> SUFFICES ASSUME NEW o \in Orgs, NEW u \in Members(o)', NEW v \in Members(o)',
                        IsSuperAdmin(u)', IsSuperAdmin(v)'
                 PROVE  u = v
      BY DEF OneOwner
    <3>1. u \in Users /\ v \in Users
      BY DEF Members
    <3> QED
      BY <1>2, <1>3, <3>1 DEF Fair, OneOwner
  <2>2. HasDefault' /\ OwnerKeepsOrganization'
    BY <1>1, <1>2 DEF Fair, HasDefault, OwnerKeepsOrganization
  <2> QED
    BY <2>1, <2>2
<1>7. ASSUME NEW p \in Requests, NEW q, q = request'[p], q.op = "create" PROVE Creating(q)'
  <2> SUFFICES ASSUME q.by \notin raced PROVE Creating(q)'
    BY <1>1 DEF Creating
  <2>1. /\ q.by = request[p].by /\ q.by # t /\ request[p].op = "create"
        /\ q.defaults = request[p].defaults \ {t}
    BY <1>4, <1>7 DEF Idle
  <2>2. /\ IsSuperAdmin(q.by) /\ q.by \in Users
        /\ (q.by \in request[p].defaults \/ OrgsOf(q.by) # {})
    BY <2>1, AboutUser DEF Fair, Creating
  <2>3. IsSuperAdmin(q.by)' /\ OrgsOf(q.by)' = OrgsOf(q.by)
    BY <1>2, <2>1, <2>2
  <2> QED
    BY <1>1, <2>1, <2>2, <2>3 DEF Creating
<1>8. ASSUME NEW p \in Requests, NEW q, q = request'[p], q.op = "delete" PROVE Deleting(q)'
  <2>1. /\ request[p].op = "delete" /\ q.org = request[p].org /\ q.by = request[p].by
        /\ q.seen = request[p].seen \ {t} /\ q.defaults = request[p].defaults \ {t}
    BY <1>4, <1>8 DEF Idle
  <2>2. q.org \in Orgs /\ q.seen \subseteq Users /\ Deleting(request[p])
    BY <1>r, <2>1, AboutUser DEF Fair, Asking, RequestType
  <2>3. org'[q.org] # "none" /\ \A u \in q.seen : role'[u] # None
    BY <1>1, <1>2, <2>1, <2>2 DEF Deleting
  <2>4. ASSUME NEW u \in Members(q.org)'
        PROVE  /\ u \in Members(q.org) /\ u # t /\ u \in Users
               /\ OrgsOf(u)' = OrgsOf(u) /\ Others(u, q.org)' = Others(u, q.org)
               /\ (<<q.org, u>> \in default' <=> <<q.org, u>> \in default)
               /\ (IsSuperAdmin(u)' <=> IsSuperAdmin(u))
    <3>1. u \in Members(q.org) /\ u # t /\ u \in Users
      BY <1>3, <2>2 DEF Members
    <3>2. OrgsOf(u)' = OrgsOf(u) /\ Defaults(u)' = Defaults(u) /\ (IsSuperAdmin(u)' <=> IsSuperAdmin(u))
      BY <1>2, <3>1
    <3> QED
      BY <2>2, <3>1, <3>2 DEF Others, Defaults
  <2> QED
    BY <1>1, <2>1, <2>2, <2>3, <2>4 DEF Deleting
<1>9. \A p \in Requests : Creating(request[p])' /\ Deleting(request[p])'
  <2> SUFFICES ASSUME NEW p \in Requests, NEW q, q = request'[p] PROVE Creating(q)' /\ Deleting(q)'
    BY DEF Creating, Deleting
  <2>1. (q.op # "create" => Creating(q)') /\ (q.op # "delete" => Deleting(q)')
    BY DEF Creating, Deleting
  <2> QED
    BY <1>7, <1>8, <2>1
<1> QED
  BY <1>5, <1>6, <1>9 DEF Fair

LEMMA FairInvariant == Spec => []Fair
<1>1. Init => Fair
  <2> SUFFICES ASSUME Init PROVE Fair
    OBVIOUS
  <2>1. \A p \in Requests : request[p] = Idle
    BY DEF Init
  <2>2. \A u \in Users : OrgsOf(u) = {} /\ role[u] = None
    BY DEF Init, OrgsOf
  <2>3. \A o \in Orgs : Members(o) = {}
    BY DEF Init, Members
  <2> QED
    BY <2>1, <2>2, <2>3, NobodysIdle, NoneIsNot
       DEF Fair, SoleRequest, OneOwner, HasDefault, OwnerKeepsOrganization, IsSuperAdmin
<1>2. Inv /\ Fair /\ [Next]_vars => Fair'
  <2> SUFFICES ASSUME Inv, Fair, [Next]_vars PROVE Fair'
    OBVIOUS
  <2>r. Rows /\ Invitations /\ Asking
    BY DEF Inv
  <2>1. ASSUME NEW r \in Requests, Commit(r) PROVE Fair'
    <3>1. CASE CommitRegister(r)
      <4>1. request[r].by \in Users /\ "SUPER_ADMIN" \in Roles
        BY <2>r, <3>1, NoneIsNot DEF CommitRegister, Asking, Proper
      <4> QED
        BY <3>1, <4>1, JoinedFair DEF CommitRegister
    <3>2. CASE CommitAdd(r)
      <4>1. request[r].on \in Users /\ request[r].org \in Orgs /\ request[r].role \in InvitedRoles
        BY <2>r, <3>2 DEF CommitAdd, Asking, Proper
      <4> QED
        BY <3>2, <4>1, JoinedFair, NoneIsNot DEF CommitAdd
    <3>3. CASE CommitAccept(r)
      <4> DEFINE i == invite[request[r].invite]
      <4>1. i.email \in Users /\ i.org \in Orgs /\ i.role \in InvitedRoles
        BY <2>r, <3>3 DEF CommitAccept, MayCommitAccept, Asking, Proper, Invitations
      <4>2. role[i.email] = None /\ org[i.org] = "live" /\ org' = org /\ AccountCreated(i.email, i.org, i.role) /\ Answer(r)
        BY <3>3 DEF CommitAccept, MayCommitAccept
      <4> HIDE DEF i
      <4> QED
        BY <4>1, <4>2, JoinedFair, NoneIsNot
    <3>4. CASE CommitActivate(r) \/ CommitInvite(r) \/ CommitInvitation(r)
      BY <3>4, QuietFair DEF CommitActivate, CommitInvite, CommitInvitation
    <3> QED
      BY <2>1, <3>1, <3>2, <3>3, <3>4, CreateFair, DefaultFair, DeleteFair, RemoveFair, RoleFair DEF Commit
  <2>2. ASSUME NEW r \in Requests, Fail(r) PROVE Fair'
    BY <2>2, QuietFair DEF Fail, rows
  <2>3. CASE UNCHANGED vars \/ \E i \in Invites : Expires(i)
    <3>1. UNCHANGED <<role, org, member, default, request, raced>>
      BY <2>3 DEF Expires, vars
    <3> QED
      BY <3>1 DEF Fair, SoleRequest, OneOwner, HasDefault, OwnerKeepsOrganization, Creating, Deleting,
                  Members, OrgsOf, Others, Defaults, IsSuperAdmin
  <2> QED
    BY <2>1, <2>2, <2>3, BeginFair DEF Next
<1> QED
  BY <1>1, <1>2, Invariant, PTL DEF Spec

\* What every step leaves of the active organizations.
LEMMA ActiveStep ==
  ASSUME Inv, Fair, MembersHaveActive, Next
  PROVE  MembersHaveActive'
<1>r. Rows /\ Asking
  BY DEF Inv
<1> SUFFICES ASSUME NEW u \in Users, u \notin raced', OrgsOf(u)' # {} PROVE active'[u] # None
  BY DEF MembersHaveActive
<1>0. u \notin raced
  <2>1. ASSUME NEW r \in Requests, NEW q, Begin(r, q) PROVE raced \subseteq raced'
    BY <2>1 DEF Begin
  <2>2. ASSUME NEW r \in Requests, BeginAny(r) PROVE raced \subseteq raced'
    <3>1. PICK q : Begin(r, q)
      BY <2>2 DEF BeginAny, BeginRegister, BeginCreate, BeginSwitch, BeginDelete, BeginNewcomer, BeginRole,
                  BeginRemove, BeginAccept, BeginInvitation
    <3> QED
      BY <2>1, <3>1
  <2>3. ASSUME NEW r \in Requests, Commit(r) \/ Fail(r) PROVE raced' = raced
    BY <2>3 DEF Commit, Fail, Answer, CommitRegister, CommitCreate, CommitDefault, CommitActivate, CommitDelete,
                CommitInvite, CommitAdd, CommitInvitation, CommitAccept, CommitRemove, CommitRole
  <2>4. ASSUME NEW i \in Invites, Expires(i) PROVE raced' = raced
    BY <2>4 DEF Expires
  <2> QED
    BY <2>2, <2>3, <2>4 DEF Next
<1>1. CASE active' = active /\ member' = member
  BY <1>0, <1>1 DEF MembersHaveActive, OrgsOf
<1>2. ASSUME NEW v \in Users, NEW o \in Orgs, active' = [active EXCEPT ![v] = o],
             member' \in {member, member \cup {<<o, v>>}}
      PROVE  active'[u] # None
  <2>1. CASE u = v
    BY <1>r, <1>2, <2>1, NoneIsNot DEF Rows
  <2>2. CASE u # v
    <3>1. OrgsOf(u)' = OrgsOf(u) /\ active'[u] = active[u]
      BY <1>r, <1>2, <2>2 DEF OrgsOf, Rows
    <3> QED
      BY <1>0, <3>1 DEF MembersHaveActive
  <2> QED
    BY <2>1, <2>2
<1>3. ASSUME NEW r \in Requests, CommitRegister(r) \/ CommitAdd(r) \/ CommitAccept(r) PROVE active'[u] # None
  <2>1. \E v \in Users, o \in Orgs : \E rl : AccountCreated(v, o, rl)
    <3>1. CASE CommitRegister(r)
      BY <1>r, <3>1 DEF CommitRegister, Asking, Proper
    <3>2. CASE CommitAdd(r)
      BY <1>r, <3>2 DEF CommitAdd, Asking, Proper
    <3>3. CASE CommitAccept(r)
      BY <1>r, <3>3 DEF CommitAccept, MayCommitAccept, Asking, Proper, Inv, Invitations
    <3> QED
      BY <1>3, <3>1, <3>2, <3>3
  <2> QED
    BY <1>2, <2>1 DEF AccountCreated
<1>4. ASSUME NEW r \in Requests, CommitDefault(r) \/ CommitActivate(r) PROVE active'[u] # None
  <2>1. request[r].by \in Users /\ request[r].org \in Orgs
    BY <1>r, <1>4 DEF CommitDefault, CommitActivate, Asking, Proper
  <2> QED
    BY <1>2, <1>4, <2>1 DEF CommitDefault, CommitActivate
<1>5. ASSUME NEW r \in Requests, CommitCreate(r) PROVE active'[u] # None
  <2>1. PICK v \in Users : v = request[r].by /\ v \in About(request[r])
    BY <1>5, AboutUser DEF CommitCreate
  <2>2. PICK o \in Orgs : /\ member' = member \cup {<<o, v>>}
                          /\ IF v \in request[r].defaults THEN active' = [active EXCEPT ![v] = o]
                             ELSE active' = active
    BY <1>5, <2>1 DEF CommitCreate
  <2>3. CASE v \in request[r].defaults
    BY <1>2, <2>2, <2>3
  <2>4. CASE v \notin request[r].defaults
    <3>1. v \notin raced => OrgsOf(v) # {}
      BY <1>5, <2>1, <2>4 DEF Fair, Creating, CommitCreate
    <3>2. u # v => OrgsOf(u)' = OrgsOf(u)
      BY <2>2 DEF OrgsOf
    <3>3. OrgsOf(u) # {}
      BY <1>0, <3>1, <3>2
    <3> QED
      BY <1>0, <2>2, <2>4, <3>3 DEF MembersHaveActive
  <2> QED
    BY <2>3, <2>4
<1>6. ASSUME NEW r \in Requests, CommitDelete(r) PROVE active'[u] # None
  <2>0. PICK o \in Orgs, s \in SUBSET Users, ds \in SUBSET Users :
          ds \subseteq s /\ o = request[r].org /\ s = request[r].seen /\ ds = request[r].defaults
    BY <1>6 DEF CommitDelete, Inv, Asking, RequestType, Proper
  <2>1. PICK fallback \in [s -> Orgs \cup {None}] :
          (\A v \in s : fallback[v] \in FallbacksOf(v, o)) /\ active' = ActiveAfter(r, o, fallback)
    BY <1>6, <2>0 DEF CommitDelete
  <2>2. active'[u] = CASE u \in ds /\ fallback[u] # None -> fallback[u]
                       [] active[u] = o -> IF u \in s THEN fallback[u] ELSE None
                       [] OTHER -> active[u]
    BY <2>0, <2>1 DEF ActiveAfter
  <2>3. OrgsOf(u)' = Others(u, o) /\ Others(u, o) # {} /\ OrgsOf(u) # {}
    BY <1>6, <2>0 DEF CommitDelete, OrgsOf, Others
  <2>4. active[u] # None
    BY <1>0, <2>3 DEF MembersHaveActive
  <2>5. u \in s => fallback[u] # None
    <3>1. Defaults(u) \ {o} \subseteq Others(u, o) /\ Others(u, o) \subseteq Orgs
      BY <1>r DEF Rows, Defaults, Others, OrgsOf
    <3> QED
      BY <2>1, <2>3, <3>1, NoneIsNot DEF FallbacksOf
  <2>6. active[u] = o => u \in s
    <3>1. active[u] = o => u \in Members(o)
      BY <1>r, <2>4 DEF Rows, ActiveIsMembership, Members
    <3>2. u \in Members(o) => u \in s
      BY <1>0, <1>6, <2>0, <2>3 DEF Fair, Deleting, Others, CommitDelete
    <3> QED
      BY <3>1, <3>2
  <2> QED
    BY <2>2, <2>4, <2>5, <2>6
<1>7. ASSUME NEW r \in Requests, CommitRemove(r) PROVE active'[u] # None
  <2>1. PICK t \in Users : /\ active' = [active EXCEPT ![t] = None] /\ member' = {m \in member : m[2] # t}
    BY <1>r, <1>7 DEF CommitRemove, Asking, Proper
  <2>2. u # t /\ OrgsOf(u) # {}
    BY <2>1 DEF OrgsOf
  <2>3. active'[u] = active[u]
    BY <1>r, <2>1, <2>2 DEF Rows
  <2> QED
    BY <1>0, <2>2, <2>3 DEF MembersHaveActive
<1>8. ASSUME NEW r \in Requests, CommitInvite(r) \/ CommitInvitation(r) \/ CommitRole(r) \/ Fail(r)
      PROVE  active'[u] # None
  BY <1>1, <1>8 DEF CommitInvite, CommitInvitation, CommitRole, Fail, rows
<1>9. ASSUME NEW r \in Requests, BeginAny(r) PROVE active'[u] # None
  <2>1. active' = active /\ member' = member
    BY <1>9 DEF BeginAny, BeginRegister, BeginCreate, BeginSwitch, BeginDelete, BeginNewcomer, BeginRole,
                BeginRemove, BeginAccept, BeginInvitation, Begin, rows
  <2> QED
    BY <1>1, <2>1
<1>10. ASSUME NEW i \in Invites, Expires(i) PROVE active'[u] # None
  BY <1>1, <1>10 DEF Expires
<1> QED
  BY <1>3, <1>4, <1>5, <1>6, <1>7, <1>8, <1>9, <1>10 DEF Next, Commit

-----------------------------------------------------------------------------
(* What follows *)

\* Whatever requests run side by side, rows are of their types and their foreign keys hold:
\* members have an account and an organization that was not deleted.
THEOREM AccountsTypeCorrect == Spec => []TypeOK
<1>1. Inv => TypeOK
  BY InvTyped
<1> QED
  BY <1>1, Invariant, PTL

\* The organization a user works in is always one it belongs to, although activation writes
\* it without looking at the membership again, and a deletion moves users as it found them.
THEOREM ActiveOrganizationIsOwn == Spec => []ActiveIsMembership
<1>1. Inv => ActiveIsMembership
  BY DEF Inv, Rows
<1> QED
  BY <1>1, Invariant, PTL

\* A user with organizations has exactly one default, whatever creations, switches and
\* deletions run side by side, if no two of them were about this user: what a deletion or a
\* creation has read of the user before its await is still so when it writes.
THEOREM DefaultIsUnique == Spec => []OneDefault
<1>1. Fair => OneDefault
  <2>1. \A d : Cardinality({d}) = 1
    BY FS_Singleton
  <2> QED
    BY <2>1 DEF Fair, HasDefault, OneDefault
<1> QED
  BY <1>1, FairInvariant, PTL

\* Nor do they leave a super admin without an organization: only the super admin it belongs
\* to can delete one, and has another one then.
THEOREM OwnerStays == Spec => []OwnerKeepsOrganization
<1>1. Fair => OwnerKeepsOrganization
  BY DEF Fair
<1> QED
  BY <1>1, FairInvariant, PTL

\* Nor is a user with organizations left without an active one: a deletion moves every member
\* that has another, unless a request about the same user runs beside it.
THEOREM ActiveIsKept == Spec => []MembersHaveActive
<1>1. Init => MembersHaveActive
  BY DEF Init, MembersHaveActive, OrgsOf
<1>2. Inv /\ Fair /\ MembersHaveActive /\ [Next]_vars => MembersHaveActive'
  <2>1. MembersHaveActive /\ UNCHANGED vars => MembersHaveActive'
    BY DEF vars, MembersHaveActive, OrgsOf
  <2> QED
    BY <2>1, ActiveStep
<1> QED
  BY <1>1, <1>2, Invariant, FairInvariant, PTL DEF Spec
=============================================================================
