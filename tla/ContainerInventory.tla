------------------------- MODULE ContainerInventory -------------------------
(***************************************************************************)
(* The containers of one server: what docker runs on it, the Container     *)
(* rows the panel keeps of them, and the requests of routes/containers.ts  *)
(* that change both (sync, deployment, start and stop, removal, rebuild).  *)
(*                                                                         *)
(* A request is cut into its awaits: a docker command over SSH, a query or *)
(* a transaction each is one step, and the steps of different requests     *)
(* interleave.  A docker command may fail, with or without its effect, and *)
(* the panel's process may end between two steps: its requests are gone,   *)
(* rows and containers stay.  Ports, images, environments and the labels   *)
(* of a container are left out, its state in docker is not; a row's source *)
(* stands for what a sync cannot restore (deployment source, environment,  *)
(* domains).                                                               *)
(***************************************************************************)
EXTENDS Naturals, FiniteSets, FiniteSetsExt

CONSTANTS Requests,  \* slots for requests in progress
          Names,     \* container names
          MaxRow,    \* bound on Container rows ever created
          MaxInstall, \* bound on AppInstall rows ever created
          MaxId,     \* bound on containers docker ever creates
          MaxBegun,  \* bound on requests
          MaxFaults, \* bound on failed docker commands, restarts of the panel and
                     \* containers that docker restarts after an exit
          None

ASSUME InventoryAssumption ==
    /\ {MaxRow, MaxInstall, MaxId, MaxBegun, MaxFaults} \subseteq Nat
    /\ IsFiniteSet(Names) /\ Cardinality(Names) <= MaxRow /\ Cardinality(Names) <= MaxId
    /\ Cardinality(Names) <= MaxInstall

VARIABLES
    host,     \* docker's container of each name (names are unique in docker)
    rows,     \* Container rows, in the order of createdAt
    installs, \* AppInstall rows, in the order of installedAt
    req,      \* requests in progress
    dockerIds, created, begun, faults,  \* how many there were so far
    overlapped,  \* history: two requests were in progress at once
    killed,      \* history: how the panel's process ended
    kept,        \* history: containers that DELETE failed to remove
    looped       \* history: containers that docker has been restarting after an exit

vars == <<host, rows, installs, req, dockerIds, created, begun, faults, overlapped, killed, kept, looped>>

\* docker's states of a container; up are those in which docker refuses to remove it.
States == {"created", "running", "paused", "restarting", "exited", "dead"}
Up(c) == c.state \in {"running", "paused", "restarting"}
Absent == [id |-> 0, state |-> "exited"]
RowIds == 1..MaxRow
Statuses == {"STARTING", "RUNNING", "PAUSED", "STOPPED", "ERROR"}
Row == [name : Names, id : 0..MaxId, status : Statuses, source : {"plain", "git", "app"}]
Rows == {i \in RowIds : rows[i] # None}
RowsNamed(n) == {i \in Rows : rows[i].name = n}

InstallIds == 1..MaxInstall
Install == [name : Names, status : {"INSTALLING", "STARTING", "RUNNING", "PAUSED", "STOPPED", "FAILED"}]
Installs == {i \in InstallIds : installs[i] # None}
InstallsNamed(n) == {i \in Installs : installs[i].name = n}

ASSUME NoneIsNoRow == None \notin Row \cup Install \cup {"restart", "rejection"}

Docker == [Names -> [id : 0..MaxId, state : States]]
Missing == [n \in Names |-> Absent]
\* The name docker knows a container id by: its name never changes.
Holding(id) == {n \in Names : id # 0 /\ host[n].id = id}

\* A container as the routes refer to it: by the stored id first, then by the name.
Target(q) == IF Holding(q.id) # {} THEN Holding(q.id) ELSE {q.name} \ {n \in Names : host[n] = Absent}
\* The reference that worked, 0 for the name, and the container it now refers to.
Reference(q) == IF Holding(q.id) # {} THEN q.id ELSE 0
Referred(q) == IF q.ref # 0 THEN Holding(q.ref) ELSE {q.name} \ {n \in Names : host[n] = Absent}

Idle == [op |-> None, pc |-> "idle", name |-> None, row |-> 0, id |-> 0, ref |-> 0,
         status |-> None, next |-> None, bg |-> FALSE, seen |-> Missing, known |-> [i \in RowIds |-> None],
         install |-> 0, apps |-> [i \in InstallIds |-> None]]
InProgress(r) == req[r].pc # "idle"
At(r, pc) == req[r].pc = pc
Go(r, pc) == req' = [req EXCEPT ![r].pc = pc]
Reply(r) == req' = [req EXCEPT ![r] = Idle]
\* syncContainersForServers starts; the request goes on at next.
Sync(r, next) == req' = [req EXCEPT ![r].pc = "list", ![r].next = next]

MayFail == faults + Cardinality(looped) < MaxFaults
Fault == MayFail /\ faults' = faults + 1

\* docker ps says "Up ... (Paused)" of a paused container and "Dead" of a dead one.
mapDockerStatus(c) ==
    CASE c.state \in {"running", "paused"}   -> "RUNNING"
      [] c.state = "restarting"              -> "STARTING"
      [] c.state \in {"created", "exited"}   -> "STOPPED"
      [] OTHER                               -> "ERROR"

\* docker inspect; a container that is not found, or not inspected, is in error.
mapDockerInspectStatus(found) ==
    LET state == host[CHOOSE n \in found : TRUE].state
    IN  IF found = {} THEN "ERROR"
        ELSE CASE state = "running"    -> "RUNNING"
               [] state = "paused"     -> "PAUSED"
               [] state = "restarting" -> "STARTING"
               [] OTHER                -> "STOPPED"

Typed(ops, pcs) ==
    /\ host \in Docker
    /\ rows \in [RowIds -> Row \cup {None}]
    /\ installs \in [InstallIds -> Install \cup {None}]
    /\ req \in [Requests ->
        [op : ops \cup {None}, pc : pcs \cup {"idle"},
         name : Names \cup {None}, row : 0..MaxRow, id : 0..MaxId, ref : 0..MaxId,
         status : Statuses \cup {None}, next : {None, "done", "check", "match"}, bg : BOOLEAN,
         seen : Docker, known : [RowIds -> Row \cup {None}],
         install : 0..MaxInstall, apps : [InstallIds -> Install \cup {None}]]]
    /\ dockerIds \in 0..MaxId /\ created \in 0..MaxRow /\ begun \in 0..MaxBegun
    /\ faults \in 0..MaxFaults
    /\ overlapped \in BOOLEAN /\ killed \in {None, "restart", "rejection"}
    /\ kept \subseteq 1..MaxId /\ looped \subseteq 1..MaxId

Actions == {"start", "stop", "restart", "rm", "pause", "unpause"}
TypeOK == Typed({"sync", "image", "git", "rebuild", "delete"} \cup Actions,
                {"list", "read", "write", "check", "create", "run", "settle", "catch", "match",
                 "persist", "act", "inspect", "update", "purge", "erase", "halt", "clear", "remove"})

(***************************************************************************)
(* Some containers run already, each with its row: found by a sync,        *)
(* deployed from git or installed as an app.                               *)
(***************************************************************************)
Init ==
    \E numbered \in {f \in [Names -> 0..Cardinality(Names)] :
                        \A n, m \in Names : f[n] # 0 /\ f[n] = f[m] => n = m} :
    \E origin \in [Names -> {"plain", "git", "app"}] :
        LET used == {n \in Names : numbered[n] # 0}
        IN  /\ {numbered[n] : n \in used} = 1..Cardinality(used)
            /\ host = [n \in Names |-> IF n \in used THEN [id |-> numbered[n], state |-> "running"]
                                                     ELSE Absent]
            /\ rows = [i \in RowIds |->
                  IF i > Cardinality(used) THEN None
                  ELSE LET n == CHOOSE m \in Names : numbered[m] = i
                       IN  [name |-> n, id |-> i, status |-> "RUNNING", source |-> origin[n]]]
            /\ installs = [i \in InstallIds |->
                  IF i <= Cardinality(used) /\ rows[i].source = "app"
                  THEN [name |-> rows[i].name, status |-> "RUNNING"] ELSE None]
            /\ dockerIds = Cardinality(used) /\ created = Cardinality(used)
    /\ req = [r \in Requests |-> Idle]
    /\ begun = 0 /\ faults = 0 /\ overlapped = FALSE /\ killed = None /\ kept = {} /\ looped = {}

(***************************************************************************)
(* Requests arrive.  What a route reads of the row first is in the request.*)
(***************************************************************************)
Begin(r, q) ==
    /\ ~InProgress(r) /\ begun < MaxBegun
    /\ req' = [req EXCEPT ![r] = q]
    /\ begun' = begun + 1
    /\ overlapped' = (overlapped \/ \E s \in Requests : InProgress(s))
    /\ UNCHANGED <<host, rows, installs, dockerIds, created, faults, killed, kept, looped>>

BeginSync(r) == Begin(r, [Idle EXCEPT !.op = "sync", !.pc = "list", !.next = "done"])

\* A deployment synchronises first, to check that the name and ports are free; an image
\* is deployed in the background, or within the request when a process job injected it.
BeginDeploy(r, n, op, bg) ==
    /\ bg => op = "image"
    /\ Begin(r, [Idle EXCEPT !.op = op, !.name = n, !.bg = bg, !.pc = "list", !.next = "check"])

OnRow(op, pc, i) ==
    [Idle EXCEPT !.op = op, !.pc = pc, !.row = i, !.name = rows[i].name, !.id = rows[i].id]

BeginAction(r, i, action) == Begin(r, OnRow(action, "act", i))
BeginRebuild(r, i) == rows[i].source = "git" /\ Begin(r, OnRow("rebuild", "halt", i))
BeginDelete(r, i) == Begin(r, OnRow("delete", IF rows[i].id = 0 THEN "purge" ELSE "remove", i))

(***************************************************************************)
(* syncContainersForServers.  docker ps that exits with an error is taken  *)
(* for a server without containers; one that is cut off fails the request. *)
(***************************************************************************)
ListContainers(r) ==
    /\ At(r, "list")
    /\ \/ req' = [req EXCEPT ![r].pc = "read", ![r].seen = host] /\ UNCHANGED faults
       \/ Fault /\ req' = [req EXCEPT ![r].pc = "read", ![r].seen = Missing]
       \/ Fault /\ Reply(r)
    /\ UNCHANGED <<host, rows, installs, dockerIds, created, begun, overlapped, killed, kept, looped>>

ReadRows(r) ==
    /\ At(r, "read")
    /\ req' = [req EXCEPT ![r].pc = "write", ![r].known = rows]
    /\ UNCHANGED <<host, rows, installs, dockerIds, created, begun, faults, overlapped, killed, kept, looped>>

Listed(q) == {n \in Names : q.seen[n] # Absent}
KnownById(q, n) == {i \in RowIds : q.known[i] # None /\ q.known[i].id = q.seen[n].id}
KnownByName(q, n) == {i \in RowIds : q.known[i] # None /\ q.known[i].name = n}

\* existingByDockerId ?? existingByName, where the last row entered wins; 0 for a new row.
WrongExistingRow(q, n) == IF KnownById(q, n) # {} THEN Max(KnownById(q, n)) ELSE 0
ExistingRow(q, n) ==
    IF KnownById(q, n) # {} THEN Max(KnownById(q, n))
    ELSE IF KnownByName(q, n) # {} THEN Max(KnownByName(q, n)) ELSE 0

Unknown(q) == {n \in Listed(q) : ExistingRow(q, n) = 0}
NewRow(q, n) == created + Cardinality({m \in Unknown(q) : q.seen[m].id <= q.seen[n].id})

RowOf(q, n) == IF ExistingRow(q, n) # 0 THEN ExistingRow(q, n) ELSE NewRow(q, n)

\* The rows after the transaction: the listed ones updated or created, all others deleted.
Synchronised(q) ==
    [i \in RowIds |->
        IF \A n \in Listed(q) : RowOf(q, n) # i THEN None
        ELSE LET n == CHOOSE m \in Listed(q) : RowOf(q, m) = i
             IN  [name |-> n, id |-> q.seen[n].id, status |-> mapDockerStatus(q.seen[n]),
                  source |-> IF rows[i] = None THEN "plain" ELSE rows[i].source]]

\* An update of a row that is gone rolls the transaction back and fails the request.
WriteRows(r) ==
    LET q == req[r]
        lost == \E n \in Listed(q) : ExistingRow(q, n) # 0 /\ rows[ExistingRow(q, n)] = None
        count == created + Cardinality(Unknown(q))
    IN  /\ At(r, "write") /\ count <= MaxRow
        /\ IF lost THEN Reply(r) /\ UNCHANGED <<rows, created>>
           ELSE /\ rows' = Synchronised(q) /\ created' = count
                /\ IF q.next = "done" THEN Reply(r)
                   ELSE req' = [req EXCEPT ![r] =
                       [Idle EXCEPT !.op = q.op, !.name = q.name, !.row = q.row, !.bg = q.bg, !.pc = q.next]]
        /\ UNCHANGED <<host, installs, dockerIds, begun, faults, overlapped, killed, kept, looped>>

(***************************************************************************)
(* POST /containers: the check of the name, the row of a manual image and  *)
(* docker run, or the deployment of a source and the sync that finds it.   *)
(***************************************************************************)
AssertNameAvailable(r) ==
    /\ At(r, "check")
    /\ IF \E i \in RowsNamed(req[r].name) : rows[i].status # "ERROR" THEN Reply(r)
       ELSE Go(r, IF req[r].op = "image" THEN "create" ELSE "run")
    /\ UNCHANGED <<host, rows, installs, dockerIds, created, begun, faults, overlapped, killed, kept, looped>>

CreateRow(r) ==
    /\ At(r, "create") /\ created < MaxRow
    /\ created' = created + 1
    /\ rows' = [rows EXCEPT ![created + 1] =
          [name |-> req[r].name, id |-> 0, status |-> "STARTING", source |-> "plain"]]
    /\ req' = [req EXCEPT ![r].pc = "run", ![r].row = created + 1]
    /\ UNCHANGED <<host, installs, dockerIds, begun, faults, overlapped, killed, kept, looped>>

\* Where a deployment goes on when docker run has failed, or has not.
Failed(r) == IF req[r].op = "image" THEN Go(r, "catch") ELSE Reply(r)
WrongDeployed(r) ==
    IF req[r].op = "image" THEN req' = [req EXCEPT ![r].pc = "settle", ![r].id = dockerIds + 1]
    ELSE Go(r, "match")
Deployed(r) ==
    IF req[r].op = "image" THEN req' = [req EXCEPT ![r].pc = "settle", ![r].id = dockerIds + 1]
    ELSE Sync(r, "match")

Launch(n, state) ==
    /\ host[n] = Absent /\ dockerIds < MaxId
    /\ dockerIds' = dockerIds + 1
    /\ host' = [host EXCEPT ![n] = [id |-> dockerIds + 1, state |-> state]]

DockerRun(r) ==
    /\ At(r, "run")
    /\ LET n == req[r].name
       IN  \/ Launch(n, "running") /\ Deployed(r) /\ UNCHANGED faults
           \/ host[n] # Absent /\ Failed(r) /\ UNCHANGED <<host, dockerIds, faults>>
           \/ Fault /\ Failed(r) /\ (\/ UNCHANGED <<host, dockerIds>>
                                     \/ \E state \in {"running", "created"} : Launch(n, state))
    /\ UNCHANGED <<rows, installs, created, begun, overlapped, killed, kept, looped>>

SettleDeployment(r) ==
    /\ At(r, "settle")
    /\ LET q == req[r]
       IN  IF rows[q.row] = None THEN Go(r, "catch") /\ UNCHANGED rows
           ELSE /\ rows' = [rows EXCEPT ![q.row].status = "RUNNING", ![q.row].id = q.id]
                /\ Reply(r)
    /\ UNCHANGED <<host, installs, dockerIds, created, begun, faults, overlapped, killed, kept, looped>>

\* The promise of a background deployment is rejected when its catch throws as well: node
\* ends the process at an unhandled rejection.
WrongRejects(r) == req[r].bg
Rejects(r) == req[r].bg /\ rows[req[r].row] = None
Ends(how) == killed' = how /\ req' = [r \in Requests |-> Idle]

WrongCatchDeployment(r) ==
    /\ At(r, "catch")
    /\ IF Rejects(r) THEN Ends("rejection") ELSE Reply(r) /\ UNCHANGED killed
    /\ UNCHANGED <<host, rows, installs, dockerIds, created, begun, faults, overlapped, kept, looped>>
CatchDeployment(r) ==
    /\ At(r, "catch")
    /\ IF Rejects(r) THEN Ends("rejection") /\ UNCHANGED rows
       ELSE /\ Reply(r) /\ UNCHANGED killed
            /\ rows' = IF rows[req[r].row] = None THEN rows
                       ELSE [rows EXCEPT ![req[r].row].status = "ERROR"]
    /\ UNCHANGED <<host, installs, dockerIds, created, begun, faults, overlapped, kept, looped>>

\* The rows that a deployment or a rebuild has produced are found by name; their source is
\* written in a second transaction, which fails if one of them is gone by then.
MatchRows(r) ==
    /\ At(r, "match")
    /\ IF RowsNamed(req[r].name) = {} THEN Reply(r)
       ELSE req' = [req EXCEPT ![r].pc = "persist", ![r].known = rows]
    /\ UNCHANGED <<host, rows, installs, dockerIds, created, begun, faults, overlapped, killed, kept, looped>>

PersistSource(r) ==
    LET q == req[r]
        matched == {i \in RowIds : q.known[i] # None /\ q.known[i].name = q.name}
    IN  /\ At(r, "persist")
        /\ rows' = IF \E i \in matched : rows[i] = None THEN rows
                   ELSE [i \in RowIds |-> IF i \in matched THEN [rows[i] EXCEPT !.source = "git"]
                                          ELSE rows[i]]
        /\ Reply(r)
        /\ UNCHANGED <<host, installs, dockerIds, created, begun, faults, overlapped, killed, kept, looped>>

(***************************************************************************)
(* POST /containers/:id/action.                                            *)
(***************************************************************************)
Switched(n, state) == [host EXCEPT ![n].state = state]
Removed(n) == [host EXCEPT ![n] = Absent]

\* What docker refuses to do with a container, and the state it leaves one in otherwise.
Refuses(op, c) ==
    \/ op = "start" /\ c.state \in {"paused", "dead"}
    \/ op = "restart" /\ c.state = "dead"
    \/ op = "pause" /\ c.state # "running"
    \/ op = "unpause" /\ c.state # "paused"
    \/ op = "rm" /\ Up(c)
After(op, c) ==
    CASE op = "stop" -> IF Up(c) THEN "exited" ELSE c.state
      [] op = "pause" -> "paused"
      [] op = "start" /\ Up(c) -> c.state
      [] OTHER -> "running"

Acts(op, n) ==
    /\ ~Refuses(op, host[n])
    /\ host' = IF op = "rm" THEN Removed(n) ELSE Switched(n, After(op, host[n]))

\* What a docker command that reports a failure may have done; a removal can also get stuck.
ActsUnseen(op, n) == Acts(op, n) \/ (op = "rm" /\ ~Up(host[n]) /\ host' = Switched(n, "dead"))

DockerAction(r) ==
    /\ At(r, "act")
    /\ LET q == req[r]
           found == Target(q)
       IN  \/ /\ \E n \in found : Acts(q.op, n)
              /\ req' = [req EXCEPT ![r].pc = IF q.op = "rm" THEN "purge" ELSE "inspect",
                                    ![r].ref = Reference(q)]
              /\ UNCHANGED faults
           \/ /\ \A n \in found : Refuses(q.op, host[n])
              /\ Reply(r) /\ UNCHANGED <<host, faults>>
           \/ Fault /\ Reply(r) /\ (UNCHANGED host \/ \E n \in found : ActsUnseen(q.op, n))
    /\ UNCHANGED <<rows, installs, dockerIds, created, begun, overlapped, killed, kept, looped>>

Inspect(r) ==
    /\ At(r, "inspect")
    /\ \E found \in {Referred(req[r]), {}} :
        /\ IF found = Referred(req[r]) THEN UNCHANGED faults ELSE Fault
        /\ req' = [req EXCEPT ![r].pc = "update", ![r].status = mapDockerInspectStatus(found),
                              ![r].id = IF found = {} THEN @ ELSE host[CHOOSE n \in found : TRUE].id]
    /\ UNCHANGED <<host, rows, installs, dockerIds, created, begun, overlapped, killed, kept, looped>>

UpdateRow(r) ==
    /\ At(r, "update")
    /\ LET q == req[r]
       IN  IF rows[q.row] = None THEN Reply(r) /\ UNCHANGED rows
           ELSE /\ rows' = [rows EXCEPT ![q.row].status = q.status, ![q.row].id = q.id]
                /\ IF q.op \in {"start", "restart"} THEN Sync(r, "done") ELSE Reply(r)
    /\ UNCHANGED <<host, installs, dockerIds, created, begun, faults, overlapped, killed, kept, looped>>

(***************************************************************************)
(* DELETE /containers/:id removes the container by its stored id, whatever *)
(* docker answers; then both kinds of removal drop the rows.               *)
(***************************************************************************)
RemoveContainer(r) ==
    /\ At(r, "remove")
    /\ Go(r, "purge")
    /\ LET held == Holding(req[r].id)
       IN  \/ /\ host' = [n \in Names |-> IF n \in held /\ ~Up(host[n]) THEN Absent ELSE host[n]]
              /\ kept' = kept \cup {host[n].id : n \in {m \in held : Up(host[m])}}
              /\ UNCHANGED faults
           \/ /\ Fault /\ kept' = kept \cup {host[n].id : n \in held}
              /\ UNCHANGED host \/ \E n \in held : ActsUnseen("rm", n)
    /\ UNCHANGED <<rows, installs, dockerIds, created, begun, overlapped, killed, looped>>

DeleteRelatedAppInstalls(r) ==
    /\ At(r, "purge")
    /\ installs' = [i \in InstallIds |-> IF i \in InstallsNamed(req[r].name) THEN None ELSE installs[i]]
    /\ Go(r, "erase")
    /\ UNCHANGED <<host, rows, dockerIds, created, begun, faults, overlapped, killed, kept, looped>>

EraseRow(r) ==
    /\ At(r, "erase")
    /\ rows' = [rows EXCEPT ![req[r].row] = None]
    /\ Reply(r)
    /\ UNCHANGED <<host, installs, dockerIds, created, begun, faults, overlapped, killed, kept, looped>>

(***************************************************************************)
(* POST /containers/:id/rebuild of a git deployment: the old container is  *)
(* stopped and removed before the new one is built.                        *)
(***************************************************************************)
RebuildStops(r) ==
    /\ At(r, "halt")
    /\ \/ /\ IF Target(req[r]) = {} THEN Go(r, "run") /\ UNCHANGED host
             ELSE /\ req' = [req EXCEPT ![r].pc = "clear", ![r].ref = Reference(req[r])]
                  /\ \E n \in Target(req[r]) : Acts("stop", n)
          /\ UNCHANGED faults
       \/ Fault /\ Reply(r) /\ (UNCHANGED host \/ \E n \in Target(req[r]) : ActsUnseen("stop", n))
    /\ UNCHANGED <<rows, installs, dockerIds, created, begun, overlapped, killed, kept, looped>>

\* A container that is gone since is sought by its name; one that runs again cannot be removed.
RebuildRemoves(r) ==
    /\ At(r, "clear")
    /\ LET found == Referred(req[r])
       IN  \/ /\ \E n \in found : Acts("rm", n)
              /\ Go(r, "run") /\ UNCHANGED faults
           \/ /\ found = {} /\ Go(r, IF req[r].ref # 0 THEN "halt" ELSE "run")
              /\ UNCHANGED <<host, faults>>
           \/ /\ \E n \in found : Refuses("rm", host[n])
              /\ Reply(r) /\ UNCHANGED <<host, faults>>
           \/ Fault /\ Reply(r) /\ (UNCHANGED host \/ \E n \in found : ActsUnseen("rm", n))
    /\ UNCHANGED <<rows, installs, dockerIds, created, begun, overlapped, killed, kept, looped>>

(***************************************************************************)
(* What happens on its own: a container exits and docker, by its restart   *)
(* policy, starts it again or gives up; the panel is restarted.            *)
(***************************************************************************)
ContainerChanges(n) ==
    /\ \E state \in {"running", "restarting", "exited"} \ {host[n].state} :
          /\ Up(host[n]) /\ host' = Switched(n, state)
          /\ state = "restarting" => host[n].id \in looped \/ MayFail
          /\ looped' = looped \cup {id \in {host[n].id} : state = "restarting"}
    /\ UNCHANGED <<rows, installs, req, dockerIds, created, begun, faults, overlapped, killed, kept>>

PanelRestarts ==
    /\ \E r \in Requests : InProgress(r)
    /\ Fault /\ Ends("restart")
    /\ UNCHANGED <<host, rows, installs, dockerIds, created, begun, overlapped, kept, looped>>

Arrives(r) ==
    \/ BeginSync(r)
    \/ \E n \in Names : \E op \in {"image", "git"}, bg \in BOOLEAN : BeginDeploy(r, n, op, bg)
    \/ \E i \in Rows : \/ \E action \in Actions : BeginAction(r, i, action)
                       \/ BeginRebuild(r, i) \/ BeginDelete(r, i)

Step(r) ==
    \/ ListContainers(r) \/ ReadRows(r) \/ WriteRows(r)
    \/ AssertNameAvailable(r) \/ CreateRow(r) \/ DockerRun(r)
    \/ SettleDeployment(r) \/ CatchDeployment(r) \/ MatchRows(r) \/ PersistSource(r)
    \/ DockerAction(r) \/ Inspect(r) \/ UpdateRow(r)
    \/ RemoveContainer(r) \/ DeleteRelatedAppInstalls(r) \/ EraseRow(r)
    \/ RebuildStops(r) \/ RebuildRemoves(r)

Next ==
    \/ \E r \in Requests : Arrives(r) \/ Step(r)
    \/ \E n \in Names : ContainerChanges(n)
    \/ PanelRestarts

Spec == Init /\ [][Next]_vars

(***************************************************************************)
(* Properties                                                              *)
(***************************************************************************)
AllIdle == \A r \in Requests : ~InProgress(r)
Undisturbed == ~overlapped /\ faults = 0

\* Requests that come one after the other leave a truthful inventory: a row names the
\* container docker has now, a container has one row, and the containers without a row are
\* those that a DELETE gave up (routes/containers.ts syncContainersForServers and its callers).
InventoryExact ==
    Undisturbed /\ AllIdle =>
        /\ \A i \in Rows : rows[i].id # 0 => host[rows[i].name].id = rows[i].id
        /\ \A i, j \in Rows : rows[i].name = rows[j].name => i = j
        /\ \A n \in Names : host[n] # Absent /\ RowsNamed(n) = {} => host[n].id \in kept

\* A deployment's source, which no sync can restore, is lost only with the removal of its
\* row, or to a sync whose listing did not have its container or which had not read its row
\* as the only one: an overlapping sync, or a rebuild that has no container at the moment.
\* The sync that ends a rebuild, which replaces the container, keeps it.
Deployments == {n \in Names : \E i \in RowsNamed(n) : rows[i].source = "git"}
SeenAlone(q, n) == n \in Listed(q) /\ Cardinality(RowsNamed(n)) = 1 /\ KnownByName(q, n) = RowsNamed(n)
SourceKept ==
    [][\A n \in Deployments : n \in Deployments' \/
        \E r \in Requests : \/ At(r, "erase") /\ req[r].name = n
                            \/ At(r, "write") /\ ~SeenAlone(req[r], n)]_vars

\* A row is STARTING only as long as a deployment works on it, or because docker was restarting
\* the very container the row names when the row's status was read: however docker's commands
\* fail, no deployment leaves its row so for good, unless the panel's process ended (.then and
\* .catch of the deployment).
StartingIsDeploying ==
    \A i \in Rows : rows[i].status = "STARTING" =>
        \/ killed # None \/ rows[i].id \in looped
        \/ \E r \in Requests : /\ req[r].row = i /\ req[r].op = "image"
                               /\ req[r].pc \in {"run", "settle", "catch"}

\* No failure of docker ends the panel's process by itself: a deployment does only if the
\* row it is about was deleted while it ran.
SurvivesDocker ==
    killed = "rejection" => overlapped /\ \E i \in 1..created : rows[i] = None

\* What DELETE /containers/:id removes from the inventory is gone from the server: the
\* comment in its catch says "ignore if already gone" (routes/containers.ts:3828).
DeleteRemoves == Undisturbed => kept = {}
=============================================================================
