------------------------- MODULE DomainProvisioning -------------------------
(***************************************************************************)
(* The domains of an organization and the configuration files of the       *)
(* reverse proxies that serve them on a server (routes/domains.ts,         *)
(* services/domain-provisioning): create, update and delete.               *)
(*                                                                         *)
(* A request checks its input and then works through the steps of its      *)
(* handler, each of which changes the server's files or the rows and may   *)
(* fail, while the process may end between two of them.  Requests are      *)
(* taken one at a time; between two of them the row of a container may be  *)
(* deleted, and the domains that had it as their target are left without.  *)
(* A file is what its proxy serves from the next                           *)
(* reload on: the pairs of a host name and its upstream.  An nginx file    *)
(* has the name of an isolated domain, or of the registrable domain that   *)
(* is the Anchor of a shared group; other proxies have a file per domain.  *)
(* Certificates are left out: sslEnabled is false.                         *)
(***************************************************************************)
EXTENDS Naturals

CONSTANTS Names,      \* host names
          Anchor,     \* getDomainConfigAnchor of each: its registrable domain
          Foreign,    \* names that another organization has registered
          Proxies,    \* kinds of reverse proxy, "NGINX" among them
          Targets,    \* pairs of a container and a port
          MaxFaults,  \* bound on requests that fail half way and deletions of containers
          None

ASSUME DomainAssumption ==
    /\ Anchor \in [Names -> Names] /\ \A n \in Names : Anchor[Anchor[n]] = Anchor[n]
    /\ Foreign \subseteq Names /\ "NGINX" \in Proxies /\ "NONE" \notin Proxies
    /\ Targets \subseteq [container : STRING, port : Nat] /\ MaxFaults \in Nat

VARIABLES
    row,        \* Domain rows of the organization by name, None where there is none
    files,      \* files of each proxy by their names; {} for no file
    request,    \* the request in progress with the steps it has left
    faults,     \* requests that failed half way, and containers deleted, so far
    disturbed,  \* history: names of requests that did not complete
    rooted,     \* history: anchors that an isolated nginx domain has used as its own name
    orphaned    \* history: members of groups whose container was deleted, until the group's
                \* file is next written and they have a target again, or no row in the group

vars == <<row, files, request, faults, disturbed, rooted, orphaned>>

\* The fields of a domain that decide about files.  configMode means something for nginx only.
Inputs == [proxy : {"NONE"}, mode : {"ISOLATED"}, target : {None}]
    \cup [proxy : Proxies, mode : {"ISOLATED"}, target : Targets]
    \cup [proxy : {"NGINX"}, mode : {"SHARED"}, target : Targets]

\* onDelete: SetNull of Domain.targetContainer.
SetNull(r) == [r EXCEPT !.target = [container |-> None, port |-> @.port]]

Proxied(r) == r # None /\ r.proxy # "NONE"
Bound(r) == Proxied(r) /\ r.target.container # None
IsSharedNginxConfig(r) == Proxied(r) /\ r.proxy = "NGINX" /\ r.mode = "SHARED"

Ops == {"create", "update", "delete"}
\* The domains that rows can hold.
Domains == Inputs \cup {SetNull(r) : r \in {x \in Inputs : Proxied(x)}}

ASSUME NoneAssumption ==
    None \notin Names \cup Domains \cup Ops /\ \A t \in Targets : t.container # None

\* The steps of the handlers, and their order.
Rank == [provision |-> 1, cleanup |-> 2, write |-> 3, oldGroup |-> 4, newGroup |-> 5, erase |-> 6]
Steps == {"provision", "cleanup", "write", "oldGroup", "newGroup", "erase"}
NoRequest == [op |-> None, from |-> None, to |-> None, old |-> None, new |-> None, todo |-> {}]
Idle == request = NoRequest
At(s) == s \in request.todo /\ \A t \in request.todo : Rank[s] <= Rank[t]

TypeOK ==
    /\ row \in [Names -> Domains \cup {None}] /\ \A n \in Foreign : row[n] = None
    /\ files \in [Proxies -> [Names -> SUBSET (Names \X Targets)]]
    /\ request \in [op : Ops \cup {None}, from : Names \cup {None}, to : Names \cup {None},
                   old : Domains \cup {None}, new : Inputs \cup {None}, todo : SUBSET Steps]
    /\ faults \in 0..MaxFaults /\ disturbed \subseteq Names /\ rooted \subseteq Names
    /\ orphaned \subseteq Names

Init ==
    /\ row = [n \in Names |-> None]
    /\ files = [p \in Proxies |-> [n \in Names |-> {}]]
    /\ request = NoRequest /\ faults = 0
    /\ disturbed = {} /\ rooted = {} /\ orphaned = {}

-----------------------------------------------------------------------------
(* What a request may ask for, and the steps it takes.  The Wrong... forms *)
(* are mistakes the code could make; the specification does not use them.  *)

\* ensureTargetBindingAvailable: a target is one domain's, or shared nginx domains'.
TargetBindingAvailable(r, excluded) ==
    Proxied(r) => \A n \in Names \ excluded :
        Proxied(row[n]) /\ row[n].target = r.target
            => IsSharedNginxConfig(r) /\ IsSharedNginxConfig(row[n])

WrongGroupMembers(anchor, excluded) ==
    {n \in Names \ excluded : Proxied(row[n]) /\ row[n].proxy = "NGINX" /\ Anchor[n] = anchor}

\* listSharedNginxGroupMembers: the shared domains, and whatever domain has the anchor's name.
GroupMembers(anchor, excluded) ==
    {n \in Names \ excluded : /\ Proxied(row[n]) /\ row[n].proxy = "NGINX" /\ Anchor[n] = anchor
                              /\ row[n].mode = "SHARED" \/ n = anchor}

ShouldProvisionNext(old, new, renamed) ==
    /\ Proxied(new) /\ ~IsSharedNginxConfig(new)
    /\ old = None \/ renamed \/ old.proxy # new.proxy \/ old.target # new.target

WrongCleanup(old, new, renamed) ==
    /\ Proxied(old) /\ ~IsSharedNginxConfig(old)
    /\ \/ ~Proxied(new) \/ old.proxy # new.proxy \/ old.target.container # new.target.container

ShouldCleanupOldProvision(old, new, renamed) ==
    /\ Proxied(old) /\ ~IsSharedNginxConfig(old)
    /\ \/ ~Proxied(new) \/ renamed \/ old.proxy # new.proxy
       \/ old.target.container # new.target.container

\* The steps of a POST or PUT that have something to do.
SaveSteps(old, new, renamed) ==
    {"write"} \cup {s \in {"provision"} : ShouldProvisionNext(old, new, renamed)}
              \cup {s \in {"cleanup"}   : ShouldCleanupOldProvision(old, new, renamed)}
              \cup {s \in {"oldGroup"}  : IsSharedNginxConfig(old) /\ Bound(old)}
              \cup {s \in {"newGroup"}  : IsSharedNginxConfig(new)}

\* The deletion of a shared domain, or of one whose file a group uses, rewrites the group's
\* file, if it or a member still has a target.
ShouldReconcileRootConfigOnDelete(n) ==
    /\ \/ IsSharedNginxConfig(row[n])
       \/ /\ Proxied(row[n]) /\ row[n].proxy = "NGINX" /\ n = Anchor[n]
          /\ \E m \in GroupMembers(n, {n}) : IsSharedNginxConfig(row[m])
    /\ \E m \in {n} \cup GroupMembers(Anchor[n], {}) : Bound(row[m])

WrongDeleteSteps(n) == {"erase"} \cup {s \in {"cleanup"} : Proxied(row[n])}

DeleteSteps(n) ==
    {"erase"} \cup {s \in {"oldGroup"} : ShouldReconcileRootConfigOnDelete(n)}
              \cup {s \in {"cleanup"}  : Proxied(row[n]) /\ ~ShouldReconcileRootConfigOnDelete(n)}

Begin(op, from, to, new, todo) ==
    /\ Idle
    /\ to \in Foreign => faults < MaxFaults
    /\ request' = [op |-> op, from |-> from, to |-> to, old |-> row[from], new |-> new, todo |-> todo]
    /\ UNCHANGED <<row, files, faults, disturbed, rooted, orphaned>>

BeginCreate(n, new) ==
    /\ row[n] = None /\ TargetBindingAvailable(new, {})
    /\ Begin("create", n, n, new, SaveSteps(None, new, FALSE))

BeginUpdate(n, m, new) ==
    /\ row[n] # None /\ (m # n => row[m] = None) /\ TargetBindingAvailable(new, {n})
    /\ Begin("update", n, m, new, SaveSteps(row[n], new, m # n))

BeginDelete(n) == row[n] # None /\ Begin("delete", n, n, None, DeleteSteps(n))

-----------------------------------------------------------------------------
(* Files *)

\* Written with content, the files named in dropped removed by the same command.
Written(p, file, content, dropped) ==
    [files EXCEPT ![p] = [k \in Names |-> IF k = file THEN content
                                          ELSE IF k \in dropped THEN {} ELSE @[k]]]

Without(f, p, removed) == [f EXCEPT ![p] = [k \in Names |-> IF k \in removed THEN {} ELSE @[k]]]

\* A provisioning that throws: before its file is written; after it, with some of the others
\* removed; or, when nginx does not accept its configuration, after the file is removed again,
\* whatever it was before.
FailedProvisioning(p, file, content, dropped) ==
    {files} \cup {Written(p, file, content, some) : some \in SUBSET dropped}
            \cup {Written(q, file, {}, dropped) : q \in {p} \cap {"NGINX"}}

\* A removal that throws has removed some of the files; nothing puts them back.
FailedRemoval(p, removed) == {Without(files, p, some) : some \in SUBSET removed}

\* reconcileSharedNginxGroup: the file of the group after it.  When no member has a target,
\* all get that of the domain that leaves.  A group of no members had the request's domain
\* only, so that fallbackDomainNames is its name.
GroupFile(anchor, excluded) ==
    LET members == GroupMembers(anchor, excluded)
        provisionable == {n \in members : Bound(row[n])}
    IN  IF provisionable = {} THEN members \X {request.old.target}
                              ELSE {<<n, row[n].target>> : n \in provisionable}

WrongReconciled(anchor, excluded) ==
    IF GroupMembers(anchor, excluded) = {}
    THEN Without(files, "NGINX", {anchor})
    ELSE Written("NGINX", anchor, GroupFile(anchor, excluded), {})

Reconciled(anchor, excluded) ==
    IF GroupMembers(anchor, excluded) = {}
    THEN Without(files, "NGINX", {anchor, request.from})
    ELSE Written("NGINX", anchor, GroupFile(anchor, excluded), GroupMembers(anchor, excluded))

FailedReconciliation(anchor, excluded) ==
    IF GroupMembers(anchor, excluded) = {}
    THEN FailedRemoval("NGINX", {anchor, request.from})
    ELSE FailedProvisioning("NGINX", anchor, GroupFile(anchor, excluded), GroupMembers(anchor, excluded))

-----------------------------------------------------------------------------
(* The steps of the handlers *)

\* A step is done; the request is answered after the last.
Proceed(s) ==
    /\ At(s)
    /\ request' = IF request.todo = {s} THEN NoRequest ELSE [request EXCEPT !.todo = @ \ {s}]
    /\ UNCHANGED <<faults, disturbed>>

\* The request ends here: with an error, or with the process.
Abandon ==
    /\ request' = NoRequest
    /\ disturbed' = disturbed \cup {request.from, request.to}
    /\ UNCHANGED <<rooted, orphaned>>

Fault == faults < MaxFaults /\ faults' = faults + 1

ProvisionProxyForDomain ==
    /\ Proceed("provision")
    /\ files' = Written(request.new.proxy, request.to, {<<request.to, request.new.target>>}, {})
    /\ UNCHANGED <<row, rooted, orphaned>>

ProvisionProxyFails ==
    /\ At("provision") /\ Fault /\ Abandon
    /\ files' \in FailedProvisioning(request.new.proxy, request.to, {<<request.to, request.new.target>>}, {})
    /\ UNCHANGED row

RemoveManagedDomainProxyConfig ==
    /\ Proceed("cleanup")
    /\ files' = Without(files, request.old.proxy, {request.from})
    /\ UNCHANGED <<row, rooted, orphaned>>

\* A PUT that has provisioned then tries to remove what it provisioned.
RemoveProxyFails ==
    /\ At("cleanup") /\ Fault /\ Abandon
    /\ \E f \in FailedRemoval(request.old.proxy, {request.from}) :
          IF request.op = "update" /\ ShouldProvisionNext(request.old, request.new, request.from # request.to)
          THEN files' \in {f, Without(f, request.new.proxy, {request.to})}
          ELSE files' = f
    /\ UNCHANGED row

WrongWriteRow ==
    /\ Proceed("write")
    /\ row' = [row EXCEPT ![request.from] = None, ![request.to] = request.new]
    /\ UNCHANGED <<files, rooted, orphaned>>

\* The row is created or changed.  Names are unique over all organizations.
WriteRow ==
    /\ Proceed("write") /\ request.to \notin Foreign
    /\ row' = [row EXCEPT ![request.from] = None, ![request.to] = request.new]
    /\ rooted' = rooted \cup {n \in {request.to} : /\ n = Anchor[n] /\ request.new.proxy = "NGINX"
                                                  /\ request.new.mode = "ISOLATED"}
    /\ UNCHANGED <<files, orphaned>>

NameTaken ==
    /\ At("write") /\ request.to \in Foreign /\ Fault /\ Abandon
    /\ UNCHANGED <<row, files>>

\* The file of a group is written: it has the routes of those members that have a target.
Readopt(anchor) ==
    orphaned' = {n \in orphaned : \/ Anchor[n] # anchor
                                  \/ n \in GroupMembers(anchor, {}) /\ ~Bound(row[n])}

ReconcileOldGroup ==
    /\ Proceed("oldGroup")
    /\ files' = Reconciled(Anchor[request.from], {n \in {request.from} : request.op = "delete"})
    /\ Readopt(Anchor[request.from])
    /\ UNCHANGED <<row, rooted>>

ReconcileOldGroupFails ==
    /\ At("oldGroup") /\ Fault /\ Abandon
    /\ files' \in FailedReconciliation(Anchor[request.from], {n \in {request.from} : request.op = "delete"})
    /\ UNCHANGED row

ReconcileNewGroup ==
    /\ Proceed("newGroup")
    /\ files' = Reconciled(Anchor[request.to], {})
    /\ Readopt(Anchor[request.to])
    /\ UNCHANGED <<row, rooted>>

\* A POST deletes the row again, if it can.
ReconcileNewGroupFails ==
    /\ At("newGroup") /\ Fault /\ Abandon
    /\ files' \in FailedReconciliation(Anchor[request.to], {})
    /\ row' \in {row} \cup {[row EXCEPT ![n] = None] : n \in {m \in {request.to} : request.op = "create"}}

EraseRow ==
    /\ Proceed("erase")
    /\ row' = [row EXCEPT ![request.from] = None]
    /\ UNCHANGED <<files, rooted, orphaned>>

\* The process ends, or the database fails.
Restart == ~Idle /\ Fault /\ Abandon /\ UNCHANGED <<row, files>>

\* The row of a container is deleted, by its owner or by a sync that does not find it; a
\* container of the same name and ports may come back.
DeleteContainer(c) ==
    LET targeting == {n \in Names : Proxied(row[n]) /\ row[n].target.container = c}
    IN  /\ Idle /\ targeting # {} /\ Fault
        /\ row' = [n \in Names |-> IF n \in targeting THEN SetNull(row[n]) ELSE row[n]]
        /\ orphaned' = orphaned \cup {n \in targeting : n \in GroupMembers(Anchor[n], {})}
        /\ UNCHANGED <<files, request, disturbed, rooted>>

Next ==
    \/ \E n \in Names, new \in Inputs : BeginCreate(n, new)
    \/ \E n, m \in Names, new \in Inputs : BeginUpdate(n, m, new)
    \/ \E n \in Names : BeginDelete(n)
    \/ ProvisionProxyForDomain \/ ProvisionProxyFails
    \/ RemoveManagedDomainProxyConfig \/ RemoveProxyFails
    \/ WriteRow \/ NameTaken
    \/ ReconcileOldGroup \/ ReconcileOldGroupFails
    \/ ReconcileNewGroup \/ ReconcileNewGroupFails
    \/ EraseRow \/ Restart
    \/ \E t \in Targets : DeleteContainer(t.container)

Spec == Init /\ [][Next]_vars

-----------------------------------------------------------------------------
(* Properties *)

Served(n) == {s \in Proxies \X Names \X Targets : <<n, s[3]>> \in files[s[1]][s[2]]}

\* A target as a row says it: with the container, or with the last one once its row is gone.
Says(target, t) == target = t \/ (target.container = None /\ target.port = t.port)

\* The route is in the file of a group whose member has lost its container.
Orphan(n, s) == n \in orphaned /\ s[1] = "NGINX" /\ s[2] = Anchor[n]

\* Between requests a proxy serves a name only as its row says, unless a request about the
\* name failed half way: no update, rename, change of proxy or of mode and no deletion leaves
\* an old route behind, in the domain's own file or in a group's.  A group's file may keep the
\* route of a member whose container was deleted, until the file is next written: without a
\* target the PUT and DELETE handlers skip the old group (domains.ts:1905, 2119).
ServesOnlyRecorded ==
    Idle => \A n \in Names \ disturbed : \A s \in Served(n) :
        Orphan(n, s) \/ (Proxied(row[n]) /\ row[n].proxy = s[1] /\ Says(row[n].target, s[3]))

\* Between requests no name is served from two files, a group's and its own or two proxies',
\* unless a request about it failed or its group's file has a route of before its container
\* was deleted: which one answers would be left to the proxy.
ServedOnce ==
    Idle => \A n \in Names \ disturbed : \A s, t \in Served(n) :
        Orphan(n, s) \/ Orphan(n, t) \/ (s[1] = t[1] /\ s[2] = t[2])

\* Between requests every shared domain that has a target is served from its group's file with
\* that target, unless a request about a member failed, or an isolated domain has had the name
\* of the group's file: the group's other members may come, go, change and lose their containers.
GroupServed ==
    Idle => \A n \in Names :
        /\ IsSharedNginxConfig(row[n]) /\ Bound(row[n]) /\ Anchor[n] \notin rooted
        /\ \A m \in disturbed : Anchor[m] # Anchor[n]
        => <<n, row[n].target>> \in files["NGINX"][Anchor[n]]

\* What a step of a request does to files leaves alone those of other domains with files of
\* their own, also when it fails: a group's file, a cleanup or a rollback never takes one.
OthersUndisturbed ==
    [][\A n \in Names \ {request.from, request.to} :
          /\ Proxied(row[n]) /\ ~IsSharedNginxConfig(row[n])
          /\ row[n].proxy # "NGINX" \/ n # Anchor[n]
          => files'[row[n].proxy][n] = files[row[n].proxy][n]]_vars

\* An isolated nginx domain whose last request succeeded has a file that serves it: "the
\* Nginx config for this domain will be created separately" (AddDomainModal.tsx:744).
IsolatedIsServed ==
    Idle => \A n \in Names \ disturbed :
        Proxied(row[n]) /\ row[n].proxy = "NGINX" /\ row[n].mode = "ISOLATED"
            => <<n, row[n].target>> \in files["NGINX"][n]
=============================================================================
