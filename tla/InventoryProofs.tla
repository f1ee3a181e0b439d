--------------------------- MODULE InventoryProofs ---------------------------
(***************************************************************************)
(* Proofs about ContainerInventory and AppInstalls, for any names, any     *)
(* number of requests, rows and installations, and any failures.           *)
(*                                                                         *)
(* The actions on containers belong to both specifications, so what the    *)
(* typing invariants have in common (Base) is proved of each step once.    *)
(* On it rest, for containers and then for apps:                           *)
(*                                                                         *)
(*   Survival, Working  whose work a row that is STARTING and an           *)
(*                      installation that is INSTALLING are, and that only *)
(*                      a request that overlaps it takes its row away;     *)
(*   Named              the name of a docker id and of a row number never  *)
(*                      changes, which ties what a sync has listed to the  *)
(*                      rows it writes;                                    *)
(*   Orderly,           what a request that has the panel for itself has   *)
(*   AppOrderly         left in step, and what it knows, at each of its    *)
(*                      steps. That its last step leaves the inventory     *)
(*                      exact is not inductive without them.               *)
(***************************************************************************)
EXTENDS AppInstalls, FiniteSetTheorems, TLAPS

(***************************************************************************)
(* What holds of both specifications at any time.                          *)
(***************************************************************************)
Ops == {None, "sync", "image", "git", "rebuild", "delete",
        "start", "stop", "restart", "rm", "pause", "unpause",
        "installApp", "startApp", "stopApp", "restartApp", "rebuildApp", "removeApp", "listApps"}
Pcs == {"idle", "list", "read", "write", "check", "create", "run", "settle", "catch", "match",
        "persist", "act", "inspect", "update", "purge", "erase", "halt", "clear", "remove",
        "probe", "probeRows", "probeInstalls", "enter", "launch", "find", "upsert",
        "running", "failed", "resolve", "reinstall", "mark", "markError",
        "appAct", "record", "dropRows", "dropInstalls", "apps", "statuses", "cache", "overlay"}
RowNumbers == 0..MaxRow
DockerIds == 0..MaxId
InstallNumbers == 0..MaxInstall
RowMap == [RowIds -> Row \cup {None}]
InstallMap == [InstallIds -> Install \cup {None}]
Request == [op : Ops, pc : Pcs, name : Names \cup {None}, row : RowNumbers, id : DockerIds,
            ref : DockerIds, status : Statuses \cup {None}, next : {None, "done", "check", "match"},
            bg : BOOLEAN, seen : Docker, known : RowMap, install : InstallNumbers, apps : InstallMap]

Listing == {"list", "read", "write"}
AppListing == {"apps", "statuses", "cache", "overlay"}
Entering == {"probe", "probeRows", "probeInstalls", "enter", "find", "upsert"}

\* Which operations have a step.
Belongs(q) ==
    /\ q.pc = "idle" => q = Idle
    /\ q.pc \in Listing => q.op \in {"sync", "image", "git", "start", "restart", "rebuild"}
    /\ q.pc = "check" => q.op \in {"image", "git"}
    /\ q.pc \in {"create", "settle", "catch"} => q.op = "image"
    /\ q.pc = "run" => q.op \in {"image", "git", "rebuild"}
    /\ q.pc \in {"match", "persist"} => q.op \in {"git", "rebuild"}
    /\ q.pc = "act" => q.op \in Actions
    /\ q.pc \in {"inspect", "update"} => q.op \in Actions \ {"rm"}
    /\ q.pc \in {"purge", "erase"} => q.op \in {"rm", "delete"}
    /\ q.pc = "remove" => q.op = "delete"
    /\ q.pc \in {"halt", "clear"} => q.op \in {"rebuild", "rebuildApp", "removeApp"}
    /\ q.pc \in Entering => q.op = "installApp"
    /\ q.pc \in {"launch", "running", "failed"} => q.op \in {"installApp", "rebuildApp"}
    /\ q.pc \in {"resolve", "reinstall", "mark", "markError"} => q.op = "rebuildApp"
    /\ q.pc \in {"appAct", "record"} => q.op \in {"startApp", "stopApp", "restartApp"}
    /\ q.pc \in {"dropRows", "dropInstalls"} => q.op = "removeApp"
    /\ q.pc \in AppListing => q.op = "listApps"

\* What a request carries at a step.
Carries(q) ==
    /\ q.pc \notin {"idle"} \cup Listing \cup AppListing => q.name \in Names
    /\ q.pc \in Listing =>
          \/ q.next = "done"
          \/ q.next = "check" /\ q.op \in {"image", "git"} /\ q.name \in Names
          \/ q.next = "match" /\ q.op \in {"git", "rebuild"} /\ q.name \in Names
    /\ q.pc \in {"settle", "catch", "act", "inspect", "update", "remove", "purge", "erase"} => q.row # 0
    /\ q.pc = "run" /\ q.op = "image" => q.row # 0
    /\ q.pc \in {"halt", "clear"} /\ q.op = "rebuild" => q.row # 0
    /\ q.pc \in {"launch", "find", "upsert", "running", "failed", "resolve", "reinstall", "mark", "markError",
                 "appAct", "record"} => q.install # 0
    /\ q.pc \in {"halt", "clear"} /\ q.op # "rebuild" => q.install # 0
    /\ q.pc = "update" => q.status \in Statuses

Formed(q) == q \in Request /\ Belongs(q) /\ Carries(q)

\* Docker never uses an id for two names, and numbers rows and containers one after the other.
Distinct(h, d) ==
    \A n \in Names : /\ h[n].id <= d /\ (h[n].id = 0 => h[n] = Absent)
                     /\ \A m \in Names : h[n].id # 0 /\ h[n].id = h[m].id => n = m
Docked == host \in Docker /\ dockerIds \in DockerIds /\ Distinct(host, dockerIds)
Stored == rows \in RowMap /\ created \in RowNumbers /\ \A i \in RowIds : rows[i] # None => i <= created
Asked == req \in [Requests -> Request] /\ \A r \in Requests : Formed(req[r])
Counted ==
    /\ begun \in 0..MaxBegun /\ faults \in 0..MaxFaults
    /\ overlapped \in BOOLEAN /\ killed \in {None, "restart", "rejection"}
    /\ kept \subseteq 1..MaxId /\ looped \subseteq 1..MaxId
\* Requests that never overlapped are one at a time.
Alone == ~overlapped => \A r, s \in Requests : InProgress(r) /\ InProgress(s) => r = s

Base == Docked /\ Stored /\ installs \in InstallMap /\ Asked /\ Counted /\ Alone

\* A step of request r leaves p of it.
Puts(r, p) == req' = [req EXCEPT ![r] = p]
Continues(r) == \E p \in Request : Formed(p) /\ Puts(r, p) /\ (p.pc = "idle" \/ p.op = req[r].op)
SameOps == \A s \in Requests : req'[s].pc # "idle" => req[s].pc # "idle" /\ req'[s].op = req[s].op
Elsewhere(r) == \A s \in Requests : s # r => req'[s] = req[s] \/ (killed' \in {"restart", "rejection"} /\ req'[s] = Idle)
Kept == Base' /\ SameOps
KeptBy(r) == Kept /\ Elsewhere(r)

-----------------------------------------------------------------------------
(* Requests and containers: what the steps keep. *)
LEMMA Missed == Missing \in Docker /\ Absent \in [id : 0..MaxId, state : States]
  BY InventoryAssumption DEF Missing, Docker, Absent, States

LEMMA IdleIsFormed == Formed(Idle) /\ Idle.pc = "idle" /\ Idle.op = None
  <1>2. [i \in RowIds |-> None] \in RowMap /\ [i \in InstallIds |-> None] \in InstallMap
    BY DEF RowMap, InstallMap
  <1>3. 0 \in RowNumbers /\ 0 \in DockerIds /\ 0 \in InstallNumbers
    BY InventoryAssumption DEF RowNumbers, DockerIds, InstallNumbers
  <1> HIDE DEF Missing
  <1>4. Idle \in Request
    BY Missed, <1>2, <1>3 DEF Idle, Request, Ops, Pcs
  <1> QED BY <1>4 DEF Formed, Idle, Belongs, Carries, Listing, AppListing, Entering

LEMMA Asking ==
    ASSUME Base, NEW r \in Requests
    PROVE  /\ req[r] \in Request /\ Formed(req[r]) /\ Belongs(req[r]) /\ Carries(req[r])
           /\ InProgress(r) <=> req[r].pc # "idle"
  BY DEF Base, Asked, InProgress, Formed

LEMMA Replies ==
    ASSUME NEW r \in Requests, Reply(r)
    PROVE  Continues(r)
  BY IdleIsFormed DEF Continues, Reply, Puts, Formed

(* What a step leaves alone. *)
LEMMA Undone ==
    ASSUME Base
    PROVE  /\ UNCHANGED <<host, dockerIds>> => Docked'
           /\ UNCHANGED <<rows, created>> => Stored'
           /\ UNCHANGED installs => (installs \in InstallMap)'
  BY DEF Base, Docked, Stored

(* Failures are counted as far as their bound. *)
LEMMA Faulty ==
    ASSUME Base, faults' = faults \/ Fault
    PROVE  faults' \in 0..MaxFaults
  <1>1. IsFiniteSet(1..MaxId) /\ looped \subseteq 1..MaxId
    BY InventoryAssumption, FS_Interval DEF Base, Counted
  <1>2. Cardinality(looped) \in Nat
    BY <1>1, FS_Subset, FS_CardinalityType
  <1> QED BY <1>2, InventoryAssumption DEF Base, Counted, Fault, MayFail

LEMMA Steps ==
    ASSUME Base, NEW r \in Requests, InProgress(r), Continues(r),
           UNCHANGED <<begun, overlapped, killed, looped>>, (faults' = faults \/ Fault),
           kept' \in SUBSET (1..MaxId), Docked', Stored', (installs \in InstallMap)'
    PROVE  KeptBy(r)
  <1> PICK p \in Request : Formed(p) /\ Puts(r, p) /\ (p.pc = "idle" \/ p.op = req[r].op)
    BY DEF Continues
  <1>1. req'[r] = p /\ \A s \in Requests : s # r => req'[s] = req[s]
    BY DEF Puts, Base, Asked
  <1>2. Asked'
    BY <1>1 DEF Base, Asked, Puts
  <1>3. Counted'
    BY Faulty DEF Base, Counted
  <1>4. Alone'
    BY <1>1 DEF Base, Alone, InProgress
  <1> QED BY <1>1, <1>2, <1>3, <1>4 DEF KeptBy, Kept, Elsewhere, Base, SameOps, InProgress

(* The panel's process ends. *)
LEMMA EndsAll ==
    ASSUME Base, NEW how \in {"restart", "rejection"}, Ends(how),
           UNCHANGED <<begun, overlapped, kept, looped>>, (faults' = faults \/ Fault),
           Docked', Stored', (installs \in InstallMap)'
    PROVE  Kept /\ \A r \in Requests : KeptBy(r)
  <1>1. \A s \in Requests : req'[s] = Idle
    BY DEF Ends
  <1>2. Asked'
    BY <1>1, IdleIsFormed DEF Asked, Ends, Formed
  <1>3. Counted'
    BY Faulty DEF Base, Counted, Ends
  <1>4. Alone'
    BY <1>1, IdleIsFormed DEF Alone, InProgress
  <1> QED BY <1>1, <1>2, <1>3, <1>4, IdleIsFormed DEF KeptBy, Kept, Elsewhere, Ends, Base, SameOps

(* The containers. *)
LEMMA Switching ==
    ASSUME Docked, NEW n \in Names, NEW state \in States, host[n].id # 0 \/ state = host[n].state,
           host' = Switched(n, state), dockerIds' = dockerIds
    PROVE  Docked'
  <1>1. host' \in Docker
    BY DEF Docked, Docker, Switched
  <1>2. \A m \in Names : host'[m].id = host[m].id /\ (host[m].id = 0 => host'[m] = host[m])
    BY DEF Docked, Docker, Switched, Distinct, Absent
  <1> QED BY <1>1, <1>2 DEF Docked, Distinct

LEMMA Removing ==
    ASSUME Docked, NEW n \in Names, host' = Removed(n), dockerIds' = dockerIds
    PROVE  Docked'
  <1>1. host' \in Docker
    BY Missed DEF Docked, Docker, Removed
  <1>2. \A m \in Names : host'[m] = IF m = n THEN Absent ELSE host[m]
    BY DEF Docked, Docker, Removed
  <1>3. dockerIds \in Nat /\ Absent.id = 0
    BY InventoryAssumption DEF Docked, DockerIds, Absent
  <1> QED BY <1>1, <1>2, <1>3 DEF Docked, Distinct

LEMMA Launching ==
    ASSUME Docked, NEW n \in Names, NEW state \in States, Launch(n, state)
    PROVE  /\ Docked' /\ dockerIds + 1 \in DockerIds \ {0} /\ dockerIds' = dockerIds + 1
           /\ \A m \in Names : host'[m] = IF m = n THEN [id |-> dockerIds + 1, state |-> state] ELSE host[m]
  <1>0. dockerIds \in Nat /\ MaxId \in Nat /\ dockerIds < MaxId
    BY InventoryAssumption DEF Docked, DockerIds, Launch
  <1>1. host' \in Docker
    BY <1>0 DEF Docked, Docker, Launch
  <1>2. \A m \in Names : host'[m] = IF m = n THEN [id |-> dockerIds + 1, state |-> state] ELSE host[m]
    BY DEF Docked, Docker, Launch
  <1>3. \A m \in Names : host[m].id \in Nat
    BY DEF Docked, Docker
  <1>4. Distinct(host', dockerIds')
    BY <1>0, <1>2, <1>3 DEF Distinct, Docked, Launch
  <1> QED BY <1>0, <1>1, <1>2, <1>4 DEF Docked, DockerIds, Launch

(* What a docker command does to a container, as far as the ids are concerned. *)
LEMMA Acting ==
    ASSUME Docked, NEW n \in Names, NEW op, ActsUnseen(op, n)
    PROVE  (\E state \in States : host' = Switched(n, state)) \/ host' = Removed(n)
  <1>1. host[n].state \in States
    BY DEF Docked, Docker
  <1>2. After(op, host[n]) \in States /\ "dead" \in States
    BY <1>1 DEF After, States
  <1> QED BY <1>2 DEF ActsUnseen, Acts

LEMMA ActedOn ==
    ASSUME Docked, NEW n \in Names, NEW op, ActsUnseen(op, n)
    PROVE  \A m \in Names : host'[m] = Absent \/ host'[m].id = host[m].id
  BY Acting DEF Switched, Removed, Docked, Docker

LEMMA Acted ==
    ASSUME Docked, NEW n \in Names, host[n].id # 0, NEW op, ActsUnseen(op, n), dockerIds' = dockerIds
    PROVE  Docked'
  BY Acting, Switching, Removing

LEMMA Holder ==
    ASSUME Base, NEW q \in Request, q.name \in Names
    PROVE  /\ \A n \in Target(q) \cup Referred(q) \cup Holding(q.id) : n \in Names /\ host[n].id # 0 /\ host[n] # Absent
           /\ Reference(q) \in DockerIds
  <1>1. \A n \in Names : host[n] # Absent <=> host[n].id # 0
    BY DEF Base, Docked, Distinct, Absent
  <1>2. \A id \in DockerIds : \A n \in Holding(id) : n \in Names /\ host[n].id # 0
    BY DEF Holding
  <1>3. q.id \in DockerIds /\ q.ref \in DockerIds /\ 0 \in DockerIds
    BY InventoryAssumption DEF Request, DockerIds
  <1> QED BY <1>1, <1>2, <1>3 DEF Target, Referred, Reference

-----------------------------------------------------------------------------
(* Requests arrive. *)
LEMMA BeginBase ==
    ASSUME Base, NEW r \in Requests, NEW q, Formed(q), Begin(r, q)
    PROVE  Base' /\ req' = [req EXCEPT ![r] = q]
  <1>1. req'[r] = q /\ \A s \in Requests : s # r => req'[s] = req[s]
    BY DEF Begin, Base, Asked
  <1>2. Asked'
    BY <1>1 DEF Base, Asked, Begin, Formed
  <1>3. Counted'
    BY InventoryAssumption DEF Base, Counted, Begin
  <1>4. Alone'
    BY <1>1 DEF Base, Alone, InProgress, Begin, Counted
  <1> QED BY <1>1, <1>2, <1>3, <1>4, Undone DEF Base, Begin

LEMMA OnRowFormed ==
    ASSUME Base, NEW i \in Rows, NEW op \in Ops, NEW pc \in Pcs, pc \notin Listing \cup AppListing,
           \/ (pc = "act" /\ op \in Actions)
           \/ <<op, pc>> \in {<<"rebuild", "halt">>, <<"delete", "purge">>, <<"delete", "remove">>}
    PROVE  Formed(OnRow(op, pc, i))
  <1>1. rows[i] \in Row /\ i \in RowNumbers /\ i # 0
    BY InventoryAssumption DEF Rows, Base, Stored, RowMap, RowNumbers, RowIds
  <1>2. Idle \in Request
    BY IdleIsFormed DEF Formed
  <1>3. OnRow(op, pc, i) = [Idle EXCEPT !.op = op, !.pc = pc, !.row = i, !.name = rows[i].name, !.id = rows[i].id]
    BY DEF OnRow
  <1> HIDE DEF Idle
  <1>4. OnRow(op, pc, i) \in Request
    BY ZenonT(60), <1>1, <1>2, <1>3 DEF Request, Row, DockerIds
  <1>5. /\ OnRow(op, pc, i).op = op /\ OnRow(op, pc, i).pc = pc /\ OnRow(op, pc, i).row = i
        /\ OnRow(op, pc, i).name = rows[i].name
    BY <1>2, <1>3 DEF Request
  <1>6. rows[i].name \in Names
    BY <1>1 DEF Row
  <1> QED BY <1>1, <1>4, <1>5, <1>6 DEF Formed, Belongs, Carries, Listing, AppListing, Entering

LEMMA BeginOps ==
    ASSUME Base, NEW r \in Requests
    PROVE  /\ BeginSync(r) => Base'
           /\ \A n \in Names : \A op \in {"image", "git"}, bg \in BOOLEAN : BeginDeploy(r, n, op, bg) => Base'
           /\ \A i \in Rows : /\ \A action \in Actions : BeginAction(r, i, action) => Base'
                              /\ BeginRebuild(r, i) => Base'
                              /\ BeginDelete(r, i) => Base'
  <1>0. Idle \in Request
    BY IdleIsFormed DEF Formed
  <1>1. Formed([Idle EXCEPT !.op = "sync", !.pc = "list", !.next = "done"])
    <2> HIDE DEF Idle
    <2>1. PICK q : q = [Idle EXCEPT !.op = "sync", !.pc = "list", !.next = "done"]
      OBVIOUS
    <2>a. "sync" \in Ops /\ "list" \in Pcs
      BY DEF Ops, Pcs
    <2>2. q \in Request /\ q.op = "sync" /\ q.pc = "list" /\ q.next = "done"
      BY <1>0, <2>1, <2>a DEF Request
    <2>3. q.pc \in Listing /\ q.pc \notin AppListing \cup Entering
      BY <2>2 DEF Listing, AppListing, Entering
    <2>4. Belongs(q)
      BY <2>2, <2>3 DEF Belongs
    <2>5. Carries(q)
      BY <2>2, <2>3 DEF Carries
    <2> QED BY <2>1, <2>2, <2>4, <2>5 DEF Formed
  <1>2. \A n \in Names : \A op \in {"image", "git"}, bg \in BOOLEAN :
            Formed([Idle EXCEPT !.op = op, !.name = n, !.bg = bg, !.pc = "list", !.next = "check"])
    <2> HIDE DEF Idle
    <2> TAKE n \in Names
    <2> TAKE op \in {"image", "git"}, bg \in BOOLEAN
    <2>1. PICK q : q = [Idle EXCEPT !.op = op, !.name = n, !.bg = bg, !.pc = "list", !.next = "check"]
      OBVIOUS
    <2>2. op \in Ops /\ "list" \in Pcs /\ bg \in BOOLEAN
      BY DEF Ops, Pcs
    <2>3. q \in Request
      BY <1>0, <2>1, <2>2 DEF Request
    <2>4. q.op = op /\ q.pc = "list" /\ q.next = "check" /\ q.name = n
      BY <1>0, <2>1 DEF Request
    <2>5. Belongs(q)
      BY <2>4 DEF Belongs, Listing, AppListing, Entering
    <2>6. Carries(q)
      BY <2>4 DEF Carries, Listing, AppListing
    <2> QED BY <2>1, <2>3, <2>5, <2>6 DEF Formed
  <1>3. \A i \in Rows : /\ \A action \in Actions : Formed(OnRow(action, "act", i))
                        /\ Formed(OnRow("rebuild", "halt", i)) 
                        /\ Formed(OnRow("delete", "purge", i)) /\ Formed(OnRow("delete", "remove", i))
    BY OnRowFormed DEF Ops, Pcs, Listing, AppListing, Actions
  <1>4. \A i \in Rows : Formed(OnRow("delete", IF rows[i].id = 0 THEN "purge" ELSE "remove", i))
    BY <1>3
  <1>5. BeginSync(r) => Base'
    BY <1>1, BeginBase DEF BeginSync
  <1>6. \A n \in Names : \A op \in {"image", "git"}, bg \in BOOLEAN : BeginDeploy(r, n, op, bg) => Base'
    BY <1>2, BeginBase DEF BeginDeploy
  <1>7. \A i \in Rows : /\ \A action \in Actions : BeginAction(r, i, action) => Base'
                        /\ BeginRebuild(r, i) => Base'
                        /\ BeginDelete(r, i) => Base'
    BY <1>3, <1>4, BeginBase DEF BeginAction, BeginRebuild, BeginDelete
  <1> QED BY <1>5, <1>6, <1>7

-----------------------------------------------------------------------------
(* A sync. *)
LEMMA AtPc ==
    ASSUME NEW q \in Request, NEW pc \in Pcs, NEW p, p = [q EXCEPT !.pc = pc]
    PROVE  /\ p \in Request /\ p.pc = pc /\ p.op = q.op /\ p.name = q.name /\ p.row = q.row /\ p.id = q.id
           /\ p.ref = q.ref /\ p.status = q.status /\ p.next = q.next /\ p.seen = q.seen /\ p.known = q.known
           /\ p.install = q.install /\ p.apps = q.apps /\ p.bg = q.bg
  BY DEF Request

LEMMA Goes ==
    ASSUME Base, NEW r \in Requests, NEW pc \in Pcs, Go(r, pc),
           \A p \in Request : p = [req[r] EXCEPT !.pc = pc] => Belongs(p) /\ Carries(p)
    PROVE  Continues(r)
  <1> PICK p : p = [req[r] EXCEPT !.pc = pc]
    OBVIOUS
  <1>1. p \in Request /\ p.op = req[r].op
    BY Asking, AtPc
  <1>2. Puts(r, p)
    BY DEF Go, Puts
  <1> QED BY <1>1, <1>2 DEF Continues, Formed

LEMMA ListContainersBase ==
    ASSUME Base, NEW r \in Requests, ListContainers(r)
    PROVE  KeptBy(r)
  <1> PICK q : q = req[r]  OBVIOUS
  <1>1. q \in Request /\ Belongs(q) /\ Carries(q) /\ q.pc = "list" /\ InProgress(r)
    BY Asking DEF ListContainers, At, InProgress
  <1>2. ASSUME NEW h \in Docker, req' = [req EXCEPT ![r].pc = "read", ![r].seen = h]
        PROVE  Continues(r)
    <2> PICK p : p = [q EXCEPT !.pc = "read", !.seen = h]  OBVIOUS
    <2>1. p \in Request
      BY ZenonT(60), <1>1 DEF Request, Pcs
    <2>2. p.pc = "read" /\ p.op = q.op /\ p.next = q.next /\ p.name = q.name
      BY <1>1 DEF Request
    <2>3. Belongs(p)
      BY <1>1, <2>2 DEF Belongs, Listing, AppListing, Entering
    <2>4. Carries(p)
      BY <1>1, <2>2 DEF Carries, Listing
    <2>5. Puts(r, p)
      BY <1>2 DEF Puts
    <2> QED BY <2>1, <2>2, <2>3, <2>4, <2>5 DEF Continues, Formed
  <1>3. host \in Docker /\ Missing \in Docker
    BY Missed DEF Base, Docked
  <1> HIDE DEF Missing
  <1>4. Continues(r) /\ (faults' = faults \/ Fault)
    BY <1>2, <1>3, Replies DEF ListContainers
  <1> QED BY <1>1, <1>4, Undone, Steps DEF ListContainers, Base, Counted

LEMMA ReadRowsBase ==
    ASSUME Base, NEW r \in Requests, ReadRows(r)
    PROVE  KeptBy(r)
  <1> PICK q : q = req[r]  OBVIOUS
  <1>1. q \in Request /\ Belongs(q) /\ Carries(q) /\ q.pc = "read" /\ InProgress(r)
    BY Asking DEF ReadRows, At, InProgress
  <1> PICK p : p = [q EXCEPT !.pc = "write", !.known = rows]  OBVIOUS
  <1>2. p \in Request
    BY ZenonT(60), <1>1 DEF Request, Pcs, Base, Stored
  <1>3. p.pc = "write" /\ p.op = q.op /\ p.next = q.next /\ p.name = q.name
    BY <1>1 DEF Request
  <1>4. Belongs(p)
    BY <1>1, <1>3 DEF Belongs, Listing, AppListing, Entering
  <1>5. Carries(p)
    BY <1>1, <1>3 DEF Carries, Listing
  <1>6. Puts(r, p)
    BY DEF Puts, ReadRows
  <1>7. Continues(r)
    BY <1>2, <1>3, <1>4, <1>5, <1>6 DEF Continues, Formed
  <1> QED BY <1>1, <1>7, Undone, Steps DEF ReadRows, Base, Counted

(* The rows that a sync writes. *)
LEMMA Numbering ==
    ASSUME Base, NEW q \in Request
    PROVE  /\ Unknown(q) \subseteq Names /\ IsFiniteSet(Unknown(q)) /\ Cardinality(Unknown(q)) \in Nat
           /\ \A n \in Unknown(q) : /\ NewRow(q, n) \in Nat /\ NewRow(q, n) > created
                                    /\ NewRow(q, n) <= created + Cardinality(Unknown(q))
  <1>1. Unknown(q) \subseteq Names /\ IsFiniteSet(Unknown(q)) /\ Cardinality(Unknown(q)) \in Nat
    BY InventoryAssumption, FS_Subset, FS_CardinalityType DEF Unknown, Listed
  <1>2. ASSUME NEW n \in Unknown(q)
        PROVE  NewRow(q, n) \in Nat /\ NewRow(q, n) > created /\ NewRow(q, n) <= created + Cardinality(Unknown(q))
    <2> DEFINE S == {m \in Unknown(q) : q.seen[m].id <= q.seen[n].id}
    <2>1. S \subseteq Unknown(q) /\ IsFiniteSet(S) /\ Cardinality(S) <= Cardinality(Unknown(q)) /\ Cardinality(S) \in Nat
      BY <1>1, FS_Subset, FS_CardinalityType
    <2>2. q.seen[n].id \in Nat
      BY <1>1, <1>2 DEF Request, Docker
    <2>3. n \in S
      BY <1>2, <2>2
    <2>4. Cardinality(S) # 0
      BY <2>1, <2>3, FS_EmptySet
    <2>5. created \in Nat
      BY DEF Base, Stored, RowNumbers
    <2>6. NewRow(q, n) = created + Cardinality(S)
      BY DEF NewRow
    <2> QED BY <1>1, <2>1, <2>4, <2>5, <2>6
  <1> QED BY <1>1, <1>2

LEMMA Largest ==
    ASSUME NEW S \in SUBSET RowIds, S # {}
    PROVE  Max(S) \in S /\ \A y \in S : Max(S) >= y
  <1> DEFINE Above(x) == x..MaxRow
  <1> DEFINE T == {Above(x) : x \in S}
  <1>1. MaxRow \in Nat /\ S \subseteq 1..MaxRow
    BY InventoryAssumption DEF RowIds
  <1>2. \A x \in S : Above(x) \in FiniteSubsetsOf(RowIds)
    BY <1>1, FS_Interval DEF FiniteSubsetsOf, RowIds
  <1>3. T \subseteq FiniteSubsetsOf(RowIds) /\ T # {}
    BY <1>2
  <1>4. \E u \in T : \A v \in T : <<v, u>> \notin StrictSubsetOrdering(RowIds)
    <2> HIDE DEF T
    <2> QED BY <1>3, FS_StrictSubsetOrderingWellFounded, WFMin
  <1>5. PICK x \in S : \A y \in S : <<Above(y), Above(x)>> \notin StrictSubsetOrdering(RowIds)
    BY <1>4
  <1>6. ASSUME NEW y \in S, ~(x >= y)
        PROVE  FALSE
    <2>1. x \in Above(x) /\ x \notin Above(y) /\ Above(y) \subseteq Above(x)
      BY <1>1, <1>6
    <2>2. Above(y) \in SUBSET RowIds /\ Above(x) \in SUBSET RowIds
      BY <1>1 DEF RowIds
    <2> HIDE DEF Above
    <2> QED BY <1>5, <2>1, <2>2 DEF StrictSubsetOrdering
  <1> QED BY <1>6 DEF Max

LEMMA Existing ==
    ASSUME NEW q \in Request, NEW n \in Names
    PROVE  /\ ExistingRow(q, n) # 0 => ExistingRow(q, n) \in KnownById(q, n) \cup KnownByName(q, n)
           /\ KnownById(q, n) # {} => ExistingRow(q, n) \in KnownById(q, n)
           /\ KnownById(q, n) = {} /\ KnownByName(q, n) # {} => ExistingRow(q, n) \in KnownByName(q, n)
           /\ KnownById(q, n) = {} /\ KnownByName(q, n) = {} => ExistingRow(q, n) = 0
           /\ ExistingRow(q, n) \in RowNumbers
  <1>1. ASSUME NEW S \in SUBSET RowIds, S # {}
        PROVE  Max(S) \in S /\ Max(S) # 0
    BY Largest, <1>1, InventoryAssumption DEF RowIds
  <1>2. KnownById(q, n) \subseteq RowIds /\ KnownByName(q, n) \subseteq RowIds
    BY DEF KnownById, KnownByName
  <1>3. RowIds \subseteq RowNumbers /\ 0 \in RowNumbers
    BY InventoryAssumption DEF RowIds, RowNumbers
  <1> QED BY <1>1, <1>2, <1>3 DEF ExistingRow

-----------------------------------------------------------------------------
(* The end of a sync and the first steps of a deployment. *)
\* Whether a step's rows are still numbered one after the other.
LEMMA Overwriting ==
    ASSUME Base, NEW m \in RowMap, rows' = m, created' = created,
           \A i \in RowIds : m[i] # None => rows[i] # None
    PROVE  Stored'
  BY DEF Base, Stored

LEMMA WriteRowsBase ==
    ASSUME Base, NEW r \in Requests, WriteRows(r)
    PROVE  KeptBy(r)
  <1> PICK q : q = req[r]  OBVIOUS
  <1>1. q \in Request /\ Belongs(q) /\ Carries(q) /\ q.pc = "write" /\ InProgress(r)
    BY Asking DEF WriteRows, At, InProgress
  <1> DEFINE lost == \E n \in Listed(q) : ExistingRow(q, n) # 0 /\ rows[ExistingRow(q, n)] = None
  <1> DEFINE count == created + Cardinality(Unknown(q))
  <1>2. CASE lost
    <2>1. Continues(r) /\ UNCHANGED <<rows, created>>
      BY <1>2, Replies DEF WriteRows
    <2> QED BY <1>1, <2>1, Undone, Steps DEF WriteRows, Base, Counted
  <1>3. CASE ~lost
    <2>1. rows' = Synchronised(q) /\ created' = count /\ count <= MaxRow
      BY <1>3 DEF WriteRows
    <2>2. count \in RowNumbers
      BY <2>1, <1>1, Numbering, InventoryAssumption DEF RowNumbers, Base, Stored
    <2>3. rows' \in RowMap
      <3>1. ASSUME NEW i \in RowIds, NEW n \in Listed(q)
            PROVE  [name |-> n, id |-> q.seen[n].id, status |-> mapDockerStatus(q.seen[n]),
                    source |-> IF rows[i] = None THEN "plain" ELSE rows[i].source] \in Row
        <4>1. n \in Names /\ q.seen[n].id \in 0..MaxId /\ mapDockerStatus(q.seen[n]) \in Statuses
          BY <1>1 DEF Listed, Request, Docker, mapDockerStatus, Statuses
        <4>2. (IF rows[i] = None THEN "plain" ELSE rows[i].source) \in {"plain", "git", "app"}
          BY DEF Base, Stored, RowMap, Row
        <4> QED BY <4>1, <4>2 DEF Row
      <3>2. ASSUME NEW i \in RowIds
            PROVE  Synchronised(q)[i] \in Row \cup {None}
        BY <3>1 DEF Synchronised
      <3> QED BY <2>1, <3>2 DEF RowMap, Synchronised
    <2>4. ASSUME NEW i \in RowIds, Synchronised(q)[i] # None
          PROVE  i <= count
      <3>1. PICK n \in Listed(q) : RowOf(q, n) = i
        BY <2>4 DEF Synchronised
      <3>2. CASE ExistingRow(q, n) # 0
        <4>1. ExistingRow(q, n) = i /\ rows[i] # None
          BY <1>3, <3>1, <3>2 DEF RowOf
        <4> QED BY <1>1, <4>1, Numbering DEF Base, Stored, RowNumbers, RowIds
      <3>3. CASE ExistingRow(q, n) = 0
        BY <1>1, <3>1, <3>3, Numbering DEF RowOf, Unknown
      <3> QED BY <3>2, <3>3
    <2>5. Stored'
      BY <2>1, <2>2, <2>3, <2>4 DEF Stored
    <2>6. Continues(r)
      <3>1. CASE q.next = "done"
        BY <1>3, <3>1, Replies DEF WriteRows
      <3>2. CASE q.next # "done"
        <4> PICK p : p = [Idle EXCEPT !.op = q.op, !.name = q.name, !.row = q.row, !.bg = q.bg, !.pc = q.next]
          OBVIOUS
        <4>1. q.next \in {"check", "match"} /\ q.name \in Names
          BY <1>1, <3>2 DEF Carries, Listing
        <4>2. Idle \in Request
          BY IdleIsFormed DEF Formed
        <4> HIDE DEF Idle
        <4>8. q.op \in Ops /\ q.name \in Names \cup {None} /\ q.row \in RowNumbers /\ q.bg \in BOOLEAN /\ q.next \in Pcs
          BY <1>1, <4>1 DEF Request, Pcs
        <4>3. p \in Request
          BY <4>2, <4>8 DEF Request
        <4>4. p.pc = q.next /\ p.op = q.op /\ p.name = q.name
          BY <4>2 DEF Request
        <4>5. Belongs(p)
          BY <1>1, <4>1, <4>4 DEF Belongs, Carries, Listing, AppListing, Entering
        <4>6. Carries(p)
          BY <4>1, <4>4 DEF Carries, Listing
        <4>7. Puts(r, p)
          BY <1>3, <3>2 DEF WriteRows, Puts
        <4> QED BY <4>3, <4>4, <4>5, <4>6, <4>7 DEF Continues, Formed
      <3> QED BY <3>1, <3>2
    <2> QED BY <1>1, <2>5, <2>6, Undone, Steps DEF WriteRows, Base, Counted
  <1> QED BY <1>2, <1>3

(* A deployment. *)
LEMMA AssertNameAvailableBase ==
    ASSUME Base, NEW r \in Requests, AssertNameAvailable(r)
    PROVE  KeptBy(r)
  <1> PICK q : q = req[r]  OBVIOUS
  <1>1. q \in Request /\ Belongs(q) /\ Carries(q) /\ q.pc = "check" /\ InProgress(r) /\ q.name \in Names
    BY Asking DEF AssertNameAvailable, At, InProgress, Carries, Listing, AppListing
  <1>2. q.op \in {"image", "git"}
    BY <1>1 DEF Belongs
  <1>3. ASSUME NEW p \in Request, p.op = q.op, p.name = q.name, p.pc = IF q.op = "image" THEN "create" ELSE "run"
        PROVE  Belongs(p) /\ Carries(p)
    BY <1>1, <1>2, <1>3 DEF Belongs, Carries, Listing, AppListing, Entering
  <1>4. (IF q.op = "image" THEN "create" ELSE "run") \in Pcs
    BY DEF Pcs
  <1>5. Go(r, IF q.op = "image" THEN "create" ELSE "run") => Continues(r)
    BY <1>1, <1>3, <1>4, AtPc, Goes
  <1>6. Continues(r)
    BY <1>5, Replies DEF AssertNameAvailable
  <1> QED BY <1>1, <1>6, Undone, Steps DEF AssertNameAvailable, Base, Counted

LEMMA CreateRowBase ==
    ASSUME Base, NEW r \in Requests, CreateRow(r)
    PROVE  KeptBy(r)
  <1> PICK q : q = req[r]  OBVIOUS
  <1>1. q \in Request /\ Belongs(q) /\ Carries(q) /\ q.pc = "create" /\ InProgress(r) /\ q.name \in Names
    BY Asking DEF CreateRow, At, InProgress, Carries, Listing, AppListing
  <1>2. created + 1 \in RowIds /\ created + 1 \in RowNumbers \ {0} /\ created \in Nat
    BY InventoryAssumption DEF RowIds, RowNumbers, Base, Stored, CreateRow
  <1> PICK p : p = [q EXCEPT !.pc = "run", !.row = created + 1]  OBVIOUS
  <1>3. p \in Request
    BY ZenonT(60), <1>1, <1>2 DEF Request, Pcs
  <1>4. p.pc = "run" /\ p.op = q.op /\ p.name = q.name /\ p.row = created + 1
    BY <1>1 DEF Request
  <1>5. Belongs(p)
    BY <1>1, <1>4 DEF Belongs, Listing, AppListing, Entering
  <1>6. Carries(p)
    BY <1>1, <1>2, <1>4 DEF Carries, Listing
  <1>7. Continues(r)
    BY <1>3, <1>4, <1>5, <1>6 DEF Continues, Formed, Puts, CreateRow
  <1>8. [name |-> q.name, id |-> 0, status |-> "STARTING", source |-> "plain"] \in Row
    BY <1>1, InventoryAssumption DEF Row, Statuses
  <1>9. rows' \in RowMap /\ \A i \in RowIds : i # created + 1 => rows'[i] = rows[i]
    BY <1>2, <1>8 DEF Stored, Base, CreateRow, RowMap
  <1>10. Stored'
    BY <1>2, <1>9 DEF Stored, Base, CreateRow, RowIds
  <1> QED BY <1>1, <1>7, <1>10, Undone, Steps DEF CreateRow, Base, Counted

LEMMA DockerRunBase ==
    ASSUME Base, NEW r \in Requests, DockerRun(r)
    PROVE  KeptBy(r)
  <1> PICK q : q = req[r]  OBVIOUS
  <1>1. q \in Request /\ Belongs(q) /\ Carries(q) /\ q.pc = "run" /\ InProgress(r) /\ q.name \in Names
    BY Asking DEF DockerRun, At, InProgress, Carries, Listing, AppListing
  <1>2. q.op \in {"image", "git", "rebuild"} /\ (q.op = "image" => q.row # 0)
    BY <1>1 DEF Belongs, Carries
  <1>3. \/ \E state \in States : Launch(q.name, state)
        \/ UNCHANGED <<host, dockerIds>>
    BY DEF DockerRun, States
  <1>4. Docked'
    BY <1>1, <1>3, Launching, Undone DEF Base
  <1>5. Failed(r) => Continues(r)
    <2>1. ASSUME q.op = "image", NEW p \in Request, p.op = q.op, p.name = q.name, p.row = q.row, p.pc = "catch"
          PROVE  Belongs(p) /\ Carries(p)
      BY <1>1, <1>2, <2>1 DEF Belongs, Carries, Listing, AppListing, Entering
    <2>2. q.op = "image" /\ Go(r, "catch") => Continues(r)
      BY <1>1, <2>1, AtPc, Goes DEF Pcs
    <2> QED BY <2>2, Replies DEF Failed
  <1>6. Launch(q.name, "running") /\ Deployed(r) => Continues(r)
    <2> SUFFICES ASSUME Launch(q.name, "running"), Deployed(r) PROVE Continues(r)
      OBVIOUS
    <2>1. dockerIds + 1 \in DockerIds
      BY <1>1, Launching DEF Base, States
    <2>2. CASE q.op = "image"
      <3> PICK p : p = [q EXCEPT !.pc = "settle", !.id = dockerIds + 1]  OBVIOUS
      <3>1. p \in Request
        BY ZenonT(60), <1>1, <2>1 DEF Request, Pcs
      <3>2. p.pc = "settle" /\ p.op = q.op /\ p.name = q.name /\ p.row = q.row
        BY <1>1 DEF Request
      <3>3. Belongs(p) /\ Carries(p)
        BY <1>1, <1>2, <2>2, <3>2 DEF Belongs, Carries, Listing, AppListing, Entering
      <3> QED BY <2>2, <3>1, <3>2, <3>3 DEF Continues, Formed, Puts, Deployed
    <2>3. CASE q.op # "image"
      <3> PICK p : p = [q EXCEPT !.pc = "list", !.next = "match"]  OBVIOUS
      <3>1. p \in Request
        BY ZenonT(60), <1>1 DEF Request, Pcs
      <3>2. p.pc = "list" /\ p.op = q.op /\ p.name = q.name /\ p.next = "match"
        BY <1>1 DEF Request
      <3>3. Belongs(p) /\ Carries(p)
        BY <1>1, <1>2, <2>3, <3>2 DEF Belongs, Carries, Listing, AppListing, Entering
      <3> QED BY <2>3, <3>1, <3>2, <3>3 DEF Continues, Formed, Puts, Deployed, Sync
    <2> QED BY <2>2, <2>3
  <1>7. Continues(r) /\ (faults' = faults \/ Fault)
    BY <1>5, <1>6 DEF DockerRun
  <1> QED BY <1>1, <1>4, <1>7, Undone, Steps DEF DockerRun, Base, Counted

-----------------------------------------------------------------------------
(* The rest of a deployment, and docker start, stop and rm. *)
LEMMA Overwrites ==
    ASSUME Base, NEW i \in RowIds, rows[i] # None, NEW x \in Row, rows' = [rows EXCEPT ![i] = x],
           created' = created
    PROVE  Stored'
  <1>1. rows' \in RowMap /\ \A j \in RowIds : rows'[j] # None => rows[j] # None
    BY DEF Base, Stored, RowMap
  <1> QED BY <1>1 DEF Base, Stored

LEMMA AtRow ==
    ASSUME Base, NEW q \in Request, q.row # 0
    PROVE  /\ q.row \in RowIds
           /\ rows[q.row] # None => rows[q.row] \in Row
           /\ rows[q.row] # None => \A st \in Statuses, id \in DockerIds :
                 /\ [rows[q.row] EXCEPT !.status = st] \in Row
                 /\ [rows[q.row] EXCEPT !.status = st, !.id = id] \in Row
  <1>1. q.row \in RowIds
    BY InventoryAssumption DEF Request, RowNumbers, RowIds
  <1>2. rows[q.row] \in Row \cup {None}
    BY <1>1 DEF Base, Stored, RowMap
  <1>3. \A x \in Row : \A st \in Statuses, id \in DockerIds :
            [x EXCEPT !.status = st] \in Row /\ [x EXCEPT !.status = st, !.id = id] \in Row
    BY DEF Row, DockerIds
  <1> QED BY <1>1, <1>2, <1>3

LEMMA SettleDeploymentBase ==
    ASSUME Base, NEW r \in Requests, SettleDeployment(r)
    PROVE  KeptBy(r)
  <1> PICK q : q = req[r]  OBVIOUS
  <1>1. q \in Request /\ Belongs(q) /\ Carries(q) /\ q.pc = "settle" /\ InProgress(r)
    BY Asking DEF SettleDeployment, At, InProgress
  <1>2. q.op = "image" /\ q.row # 0 /\ q.name \in Names /\ q.id \in DockerIds
    BY <1>1 DEF Belongs, Carries, Listing, AppListing, Request
  <1>3. ASSUME NEW p \in Request, p.op = q.op, p.name = q.name, p.row = q.row, p.pc = "catch"
        PROVE  Belongs(p) /\ Carries(p)
    BY <1>2, <1>3 DEF Belongs, Carries, Listing, AppListing, Entering
  <1>4. Go(r, "catch") => Continues(r)
    BY <1>1, <1>3, AtPc, Goes DEF Pcs
  <1>5. Continues(r)
    BY <1>4, Replies DEF SettleDeployment
  <1>6. Stored'
    <2>1. CASE rows[q.row] = None
      BY <2>1, Undone DEF SettleDeployment
    <2>2. CASE rows[q.row] # None
      <3>1. rows' = [rows EXCEPT ![q.row] = [rows[q.row] EXCEPT !.status = "RUNNING", !.id = q.id]]
        BY <2>2 DEF SettleDeployment
      <3>2. [rows[q.row] EXCEPT !.status = "RUNNING", !.id = q.id] \in Row /\ q.row \in RowIds
        BY <1>1, <1>2, <2>2, AtRow DEF Statuses
      <3> QED BY <2>2, <3>1, <3>2, Overwrites DEF SettleDeployment
    <2> QED BY <2>1, <2>2
  <1> QED BY <1>1, <1>5, <1>6, Undone, Steps DEF SettleDeployment, Base, Counted

LEMMA CatchDeploymentBase ==
    ASSUME Base, NEW r \in Requests, CatchDeployment(r)
    PROVE  KeptBy(r)
  <1> PICK q : q = req[r]  OBVIOUS
  <1>1. q \in Request /\ Belongs(q) /\ Carries(q) /\ q.pc = "catch" /\ InProgress(r)
    BY Asking DEF CatchDeployment, At, InProgress
  <1>2. q.row # 0
    BY <1>1 DEF Carries
  <1>3. CASE Rejects(r)
    BY <1>1, <1>3, Undone, EndsAll DEF CatchDeployment, Base, Counted
  <1>4. CASE ~Rejects(r)
    <2>1. Continues(r) /\ killed' = killed
      BY <1>4, Replies DEF CatchDeployment
    <2>2. Stored'
      <3>1. CASE rows[q.row] = None
        BY <1>4, <3>1, Undone DEF CatchDeployment
      <3>2. CASE rows[q.row] # None
        <4>1. rows' = [rows EXCEPT ![q.row] = [rows[q.row] EXCEPT !.status = "ERROR"]]
          BY <1>4, <3>2 DEF CatchDeployment
        <4>2. 0 \in DockerIds
          BY InventoryAssumption DEF DockerIds
        <4>3. [rows[q.row] EXCEPT !.status = "ERROR"] \in Row /\ q.row \in RowIds
          BY <1>1, <1>2, <3>2, <4>2, AtRow DEF Statuses
        <4> QED BY <3>2, <4>1, <4>3, Overwrites DEF CatchDeployment
      <3> QED BY <3>1, <3>2
    <2> QED BY <1>1, <2>1, <2>2, Undone, Steps DEF CatchDeployment, Base, Counted
  <1> QED BY <1>3, <1>4

LEMMA MatchRowsBase ==
    ASSUME Base, NEW r \in Requests, MatchRows(r)
    PROVE  KeptBy(r)
  <1> PICK q : q = req[r]  OBVIOUS
  <1>1. q \in Request /\ Belongs(q) /\ Carries(q) /\ q.pc = "match" /\ InProgress(r)
    BY Asking DEF MatchRows, At, InProgress
  <1>2. q.op \in {"git", "rebuild"} /\ q.name \in Names
    BY <1>1 DEF Belongs, Carries, Listing, AppListing
  <1> PICK p : p = [q EXCEPT !.pc = "persist", !.known = rows]  OBVIOUS
  <1>3. p \in Request
    BY ZenonT(60), <1>1 DEF Request, Pcs, Base, Stored
  <1>4. p.pc = "persist" /\ p.op = q.op /\ p.name = q.name
    BY <1>1 DEF Request
  <1>5. Belongs(p) /\ Carries(p)
    BY <1>2, <1>4 DEF Belongs, Carries, Listing, AppListing, Entering
  <1>6. Puts(r, p) => Continues(r)
    BY <1>3, <1>4, <1>5 DEF Continues, Formed
  <1>7. Continues(r)
    BY <1>6, Replies DEF MatchRows, Puts
  <1> QED BY <1>1, <1>7, Undone, Steps DEF MatchRows, Base, Counted

LEMMA PersistSourceBase ==
    ASSUME Base, NEW r \in Requests, PersistSource(r)
    PROVE  KeptBy(r)
  <1> PICK q : q = req[r]  OBVIOUS
  <1>1. InProgress(r)
    BY DEF PersistSource, At, InProgress
  <1> DEFINE matched == {i \in RowIds : q.known[i] # None /\ q.known[i].name = q.name}
  <1>2. CASE \E i \in matched : rows[i] = None
    BY <1>1, <1>2, Undone, Replies, Steps DEF PersistSource, Base, Counted
  <1>3. CASE ~\E i \in matched : rows[i] = None
    <2>1. rows' = [i \in RowIds |-> IF i \in matched THEN [rows[i] EXCEPT !.source = "git"] ELSE rows[i]]
      BY <1>3 DEF PersistSource
    <2>2. \A x \in Row : [x EXCEPT !.source = "git"] \in Row
      BY DEF Row
    <2>3. \A i \in RowIds : rows[i] \in Row \cup {None}
      BY DEF Base, Stored, RowMap
    <2>4. rows' \in RowMap /\ \A i \in RowIds : rows'[i] # None => rows[i] # None
      BY <1>3, <2>1, <2>2, <2>3 DEF RowMap
    <2>5. Stored'
      BY <2>4 DEF PersistSource, Base, Stored
    <2> QED BY <1>1, <2>5, Undone, Replies, Steps DEF PersistSource, Base, Counted
  <1> QED BY <1>2, <1>3

LEMMA DockerActionBase ==
    ASSUME Base, NEW r \in Requests, DockerAction(r)
    PROVE  KeptBy(r)
  <1> PICK q : q = req[r]  OBVIOUS
  <1>1. q \in Request /\ Belongs(q) /\ Carries(q) /\ q.pc = "act" /\ InProgress(r)
    BY Asking DEF DockerAction, At, InProgress
  <1>2. q.op \in Actions /\ q.row # 0 /\ q.name \in Names
    BY <1>1 DEF Belongs, Carries, Listing, AppListing
  <1>3. ASSUME NEW n \in Target(q), ActsUnseen(q.op, n)
        PROVE  Docked'
    <2>1. n \in Names /\ host[n].id # 0
      BY <1>1, <1>2, Holder
    <2> QED BY <1>3, <2>1, Acted DEF Base, DockerAction
  <1>4. Docked'
    BY <1>3, Undone DEF DockerAction, ActsUnseen
  <1> PICK p : p = [q EXCEPT !.pc = IF q.op = "rm" THEN "purge" ELSE "inspect", !.ref = Reference(q)]
    OBVIOUS
  <1>5. Reference(q) \in DockerIds /\ (IF q.op = "rm" THEN "purge" ELSE "inspect") \in Pcs
    BY <1>1, <1>2, Holder DEF Pcs
  <1>6. p \in Request
    BY <1>1, <1>5 DEF Request
  <1>7. p.pc = (IF q.op = "rm" THEN "purge" ELSE "inspect") /\ p.op = q.op /\ p.name = q.name /\ p.row = q.row
    BY <1>1 DEF Request
  <1>8. Belongs(p) /\ Carries(p)
    BY <1>2, <1>7 DEF Belongs, Carries, Listing, AppListing, Entering, Actions
  <1>9. Puts(r, p) => Continues(r)
    BY <1>6, <1>7, <1>8 DEF Continues, Formed
  <1>10. Continues(r) /\ (faults' = faults \/ Fault)
    BY <1>9, Replies DEF DockerAction, Puts
  <1> QED BY <1>1, <1>4, <1>10, Undone, Steps DEF DockerAction, Base, Counted

LEMMA InspectBase ==
    ASSUME Base, NEW r \in Requests, Inspect(r)
    PROVE  KeptBy(r)
  <1> PICK q : q = req[r]  OBVIOUS
  <1>1. q \in Request /\ Belongs(q) /\ Carries(q) /\ q.pc = "inspect" /\ InProgress(r)
    BY Asking DEF Inspect, At, InProgress
  <1>2. q.op \in Actions \ {"rm"} /\ q.row # 0 /\ q.name \in Names
    BY <1>1 DEF Belongs, Carries, Listing, AppListing
  <1>3. PICK found \in {Referred(q), {}} :
            req' = [req EXCEPT ![r].pc = "update", ![r].status = mapDockerInspectStatus(found),
                               ![r].id = IF found = {} THEN @ ELSE host[CHOOSE n \in found : TRUE].id]
    BY DEF Inspect
  <1>4. found \subseteq Names
    BY <1>1, <1>2, Holder
  <1> PICK st : st = mapDockerInspectStatus(found)  OBVIOUS
  <1>5. st \in Statuses
    BY DEF mapDockerInspectStatus, Statuses
  <1> PICK id : id = IF found = {} THEN q.id ELSE host[CHOOSE n \in found : TRUE].id  OBVIOUS
  <1>6. id \in DockerIds
    <2>1. CASE found = {}
      BY <1>1, <2>1 DEF Request
    <2>2. CASE found # {}
      BY <1>4, <2>2 DEF Base, Docked, Docker, DockerIds
    <2> QED BY <2>1, <2>2
  <1> PICK p : p = [q EXCEPT !.pc = "update", !.status = st, !.id = id]  OBVIOUS
  <1>12. "update" \in Pcs /\ st \in Statuses \cup {None}
    BY <1>5 DEF Pcs
  <1>7. p \in Request
    BY ZenonT(60), <1>1, <1>6, <1>12 DEF Request
  <1>8. p.pc = "update" /\ p.op = q.op /\ p.name = q.name /\ p.row = q.row /\ p.status = st
    BY <1>1 DEF Request
  <1>9. Belongs(p) /\ Carries(p)
    BY <1>2, <1>5, <1>8 DEF Belongs, Carries, Listing, AppListing, Entering, Actions
  <1>10. Puts(r, p)
    BY <1>1, <1>3 DEF Puts, Base, Asked, Request
  <1>11. Continues(r) /\ (faults' = faults \/ Fault)
    BY <1>7, <1>8, <1>9, <1>10 DEF Continues, Formed, Inspect
  <1> QED BY <1>1, <1>11, Undone, Steps DEF Inspect, Base, Counted

-----------------------------------------------------------------------------
(* The rest of the container requests, and what happens on its own. *)
LEMMA UpdateRowBase ==
    ASSUME Base, NEW r \in Requests, UpdateRow(r)
    PROVE  KeptBy(r)
  <1> PICK q : q = req[r]  OBVIOUS
  <1>1. q \in Request /\ Belongs(q) /\ Carries(q) /\ q.pc = "update" /\ InProgress(r)
    BY Asking DEF UpdateRow, At, InProgress
  <1>2. /\ q.op \in Actions \ {"rm"} /\ q.row # 0 /\ q.name \in Names /\ q.id \in DockerIds
        /\ q.status \in Statuses
    BY <1>1 DEF Belongs, Carries, Listing, AppListing, Request
  <1> PICK p : p = [q EXCEPT !.pc = "list", !.next = "done"]  OBVIOUS
  <1>3. p \in Request
    BY ZenonT(60), <1>1 DEF Request, Pcs
  <1>4. p.pc = "list" /\ p.op = q.op /\ p.next = "done"
    BY <1>1 DEF Request
  <1>5. q.op \in {"start", "restart"} => Belongs(p) /\ Carries(p)
    BY <1>2, <1>4 DEF Belongs, Carries, Listing, AppListing, Entering
  <1>6. q.op \in {"start", "restart"} /\ Puts(r, p) => Continues(r)
    BY <1>3, <1>4, <1>5 DEF Continues, Formed
  <1>7. Continues(r)
    BY <1>6, Replies DEF UpdateRow, Puts, Sync
  <1>8. Stored'
    <2>1. CASE rows[q.row] = None
      BY <2>1, Undone DEF UpdateRow
    <2>2. CASE rows[q.row] # None
      <3>1. rows' = [rows EXCEPT ![q.row] = [rows[q.row] EXCEPT !.status = q.status, !.id = q.id]]
        BY <2>2 DEF UpdateRow
      <3>2. [rows[q.row] EXCEPT !.status = q.status, !.id = q.id] \in Row /\ q.row \in RowIds
        BY <1>1, <1>2, <2>2, AtRow DEF Statuses
      <3> QED BY <2>2, <3>1, <3>2, Overwrites DEF UpdateRow
    <2> QED BY <2>1, <2>2
  <1> QED BY <1>1, <1>7, <1>8, Undone, Steps DEF UpdateRow, Base, Counted

LEMMA RemoveContainerBase ==
    ASSUME Base, NEW r \in Requests, RemoveContainer(r)
    PROVE  KeptBy(r)
  <1> PICK q : q = req[r]  OBVIOUS
  <1>1. q \in Request /\ Belongs(q) /\ Carries(q) /\ q.pc = "remove" /\ InProgress(r)
    BY Asking DEF RemoveContainer, At, InProgress
  <1>2. q.op = "delete" /\ q.row # 0 /\ q.name \in Names
    BY <1>1 DEF Belongs, Carries, Listing, AppListing
  <1>3. ASSUME NEW p \in Request, p.op = q.op, p.name = q.name, p.row = q.row, p.pc = "purge"
        PROVE  Belongs(p) /\ Carries(p)
    BY <1>2, <1>3 DEF Belongs, Carries, Listing, AppListing, Entering
  <1>4. Continues(r)
    BY <1>1, <1>3, AtPc, Goes DEF Pcs, RemoveContainer
  <1>5. Docked'
    <2>1. CASE UNCHANGED host
      BY <2>1, Undone DEF RemoveContainer
    <2>2. CASE host' = [n \in Names |-> IF n \in Holding(q.id) /\ ~Up(host[n]) THEN Absent ELSE host[n]]
      <3>1. host' \in Docker
        BY <2>2, Missed DEF Base, Docked, Docker
      <3>2. \A n \in Names : host'[n] = Absent \/ host'[n] = host[n]
        BY <2>2
      <3>3. Absent.id = 0 /\ dockerIds \in Nat
        BY InventoryAssumption DEF Absent, Base, Docked, DockerIds
      <3> QED BY <3>1, <3>2, <3>3 DEF Docked, Base, Distinct, RemoveContainer
    <2>3. ASSUME NEW n \in Holding(q.id), ActsUnseen("rm", n)
          PROVE  Docked'
      <3>1. n \in Names /\ host[n].id # 0
        BY <1>1, <1>2, Holder
      <3> QED BY <2>3, <3>1, Acted DEF Base, RemoveContainer
    <2> QED BY <2>1, <2>2, <2>3 DEF RemoveContainer
  <1>6. kept' \in SUBSET (1..MaxId)
    <2>1. \A n \in Holding(q.id) : host[n].id \in 1..MaxId
      BY <1>1, <1>2, Holder, InventoryAssumption DEF Base, Docked, Docker
    <2>2. \A id \in kept' : id \in kept \/ \E n \in Holding(q.id) : id = host[n].id
      BY DEF RemoveContainer
    <2>3. kept \subseteq 1..MaxId
      BY DEF Base, Counted
    <2> QED BY <2>1, <2>2, <2>3
  <1> QED BY <1>1, <1>4, <1>5, <1>6, Undone, Steps DEF RemoveContainer

LEMMA DeleteRelatedAppInstallsBase ==
    ASSUME Base, NEW r \in Requests, DeleteRelatedAppInstalls(r)
    PROVE  KeptBy(r)
  <1> PICK q : q = req[r]  OBVIOUS
  <1>1. q \in Request /\ Belongs(q) /\ Carries(q) /\ q.pc = "purge" /\ InProgress(r)
    BY Asking DEF DeleteRelatedAppInstalls, At, InProgress
  <1>2. q.op \in {"rm", "delete"} /\ q.row # 0 /\ q.name \in Names
    BY <1>1 DEF Belongs, Carries, Listing, AppListing
  <1>3. ASSUME NEW p \in Request, p.op = q.op, p.name = q.name, p.row = q.row, p.pc = "erase"
        PROVE  Belongs(p) /\ Carries(p)
    BY <1>2, <1>3 DEF Belongs, Carries, Listing, AppListing, Entering
  <1>4. Continues(r)
    BY SMTT(20), <1>1, <1>3, AtPc, Goes DEF Pcs, DeleteRelatedAppInstalls
  <1>5. installs' \in InstallMap
    BY DEF DeleteRelatedAppInstalls, Base, InstallMap
  <1> QED BY <1>1, <1>4, <1>5, Undone, Steps DEF DeleteRelatedAppInstalls, Base, Counted

LEMMA EraseRowBase ==
    ASSUME Base, NEW r \in Requests, EraseRow(r)
    PROVE  KeptBy(r)
  <1>1. InProgress(r)
    BY DEF EraseRow, At, InProgress
  <1>2. rows' \in RowMap /\ \A i \in RowIds : rows'[i] # None => rows[i] # None
    BY DEF EraseRow, Base, Stored, RowMap
  <1>3. Stored'
    BY <1>2 DEF EraseRow, Base, Stored
  <1> QED BY <1>1, <1>3, Undone, Replies, Steps DEF EraseRow, Base, Counted

LEMMA RebuildStopsBase ==
    ASSUME Base, NEW r \in Requests, RebuildStops(r), req[r].op = "rebuild"
    PROVE  KeptBy(r)
  <1> PICK q : q = req[r]  OBVIOUS
  <1>1. q \in Request /\ Belongs(q) /\ Carries(q) /\ q.pc = "halt" /\ InProgress(r)
    BY Asking DEF RebuildStops, At, InProgress
  <1>2. q.row # 0 /\ q.name \in Names
    BY <1>1 DEF Carries, Listing, AppListing
  <1>3. Docked'
    <2>1. ASSUME NEW n \in Target(q), ActsUnseen("stop", n)
          PROVE  Docked'
      <3>1. n \in Names /\ host[n].id # 0
        BY <1>1, <1>2, Holder
      <3> QED BY <2>1, <3>1, Acted DEF Base, RebuildStops
    <2> QED BY <2>1, Undone DEF RebuildStops, ActsUnseen
  <1>4. ASSUME NEW p \in Request, p.op = q.op, p.name = q.name, p.row = q.row, p.pc = "run"
        PROVE  Belongs(p) /\ Carries(p)
    BY <1>2, <1>4 DEF Belongs, Carries, Listing, AppListing, Entering
  <1>5. Go(r, "run") => Continues(r)
    BY <1>1, <1>4, AtPc, Goes DEF Pcs
  <1> PICK p : p = [q EXCEPT !.pc = "clear", !.ref = Reference(q)]  OBVIOUS
  <1>6. p \in Request
    BY ZenonT(60), <1>1, <1>2, Holder DEF Request, Pcs
  <1>7. p.pc = "clear" /\ p.op = q.op /\ p.name = q.name /\ p.row = q.row
    BY <1>1 DEF Request
  <1>8. Belongs(p) /\ Carries(p)
    BY <1>2, <1>7 DEF Belongs, Carries, Listing, AppListing, Entering
  <1>9. Puts(r, p) => Continues(r)
    BY <1>6, <1>7, <1>8 DEF Continues, Formed
  <1>10. Continues(r) /\ (faults' = faults \/ Fault)
    BY <1>5, <1>9, Replies DEF RebuildStops, Puts
  <1> QED BY <1>1, <1>3, <1>10, Undone, Steps DEF RebuildStops, Base, Counted

LEMMA RebuildRemovesBase ==
    ASSUME Base, NEW r \in Requests, RebuildRemoves(r), req[r].op = "rebuild"
    PROVE  KeptBy(r)
  <1> PICK q : q = req[r]  OBVIOUS
  <1>1. q \in Request /\ Belongs(q) /\ Carries(q) /\ q.pc = "clear" /\ InProgress(r)
    BY Asking DEF RebuildRemoves, At, InProgress
  <1>2. q.row # 0 /\ q.name \in Names
    BY <1>1 DEF Carries, Listing, AppListing
  <1>3. Docked'
    <2>1. ASSUME NEW n \in Referred(q), ActsUnseen("rm", n)
          PROVE  Docked'
      <3>1. n \in Names /\ host[n].id # 0
        BY <1>1, <1>2, Holder
      <3> QED BY <2>1, <3>1, Acted DEF Base, RebuildRemoves
    <2> QED BY <2>1, Undone DEF RebuildRemoves, ActsUnseen
  <1>4. ASSUME NEW p \in Request, p.op = q.op, p.name = q.name, p.row = q.row, p.pc \in {"run", "halt"}
        PROVE  Belongs(p) /\ Carries(p)
    BY <1>2, <1>4 DEF Belongs, Carries, Listing, AppListing, Entering
  <1>5. \A pc \in {"run", "halt"} : Go(r, pc) => Continues(r)
    BY <1>1, <1>4, AtPc, Goes DEF Pcs
  <1>6. Continues(r) /\ (faults' = faults \/ Fault)
    BY <1>5, Replies DEF RebuildRemoves
  <1> QED BY <1>1, <1>3, <1>6, Undone, Steps DEF RebuildRemoves, Base, Counted

(* What happens on its own. *)
LEMMA ContainerChangesBase ==
    ASSUME Base, NEW n \in Names, ContainerChanges(n)
    PROVE  Base' /\ UNCHANGED req
  <1>1. PICK state \in {"running", "restarting", "exited"} :
            /\ Up(host[n]) /\ host' = Switched(n, state)
            /\ looped' = looped \cup {id \in {host[n].id} : state = "restarting"}
    BY DEF ContainerChanges
  <1>4. state \in States
    BY DEF States
  <1>5. host[n].id \in DockerIds /\ host[n].id # 0
    BY <1>1 DEF Base, Docked, Docker, DockerIds, Distinct, Up, Absent
  <1>3. Docked'
    BY <1>1, <1>4, <1>5, Switching DEF ContainerChanges, Base
  <1>2. looped' \subseteq 1..MaxId
    <2>1. host[n].id \in 1..MaxId
      BY <1>5, InventoryAssumption DEF DockerIds
    <2>2. looped \subseteq 1..MaxId
      BY DEF Base, Counted
    <2> QED BY <1>1, <2>1, <2>2
  <1>6. UNCHANGED <<rows, installs, req, created, begun, faults, overlapped, killed, kept>>
    BY DEF ContainerChanges
  <1>7. Counted' /\ Asked' /\ Alone'
    BY <1>2, <1>6 DEF Base, Asked, Counted, Alone, InProgress
  <1>8. Stored' /\ (installs \in InstallMap)'
    BY <1>6, Undone
  <1> QED BY <1>3, <1>6, <1>7, <1>8 DEF Base

LEMMA PanelRestartsBase ==
    ASSUME Base, PanelRestarts
    PROVE  Kept
  BY EndsAll, Undone DEF PanelRestarts, Base, Counted

-----------------------------------------------------------------------------
(* The type of the container requests. *)
LEMMA InitCounts ==
    ASSUME Init
    PROVE  /\ begun = 0 /\ faults = 0 /\ overlapped = FALSE /\ killed = None /\ kept = {} /\ looped = {}
           /\ req = [r \in Requests |-> Idle]
  BY DEF Init

LEMMA InitBase ==
    ASSUME Init
    PROVE  Base
  <1> PICK numbered \in {f \in [Names -> 0..Cardinality(Names)] :
                            \A n, m \in Names : f[n] # 0 /\ f[n] = f[m] => n = m},
           origin \in [Names -> {"plain", "git", "app"}] :
        LET used == {n \in Names : numbered[n] # 0}
        IN  /\ {numbered[n] : n \in used} = 1..Cardinality(used)
            /\ host = [n \in Names |-> IF n \in used THEN [id |-> numbered[n], state |-> "running"]
                                                     ELSE Absent]
            /\ rows = [i \in RowIds |->
                  IF i > Cardinality(used) THEN None
                  ELSE LET n == CHOOSE m \in Names : numbered[m] = i
                       IN  [name |-> n, id |-> i, status |-> "RUNNING", source |-> origin[n]]]
            /\ installs = [i \in InstallIds |->
                  IF i <= Cardinality(used) /\ rows[i].source = "app"
                  THEN [name |-> rows[i].name, status |-> "RUNNING"] ELSE None]
            /\ dockerIds = Cardinality(used) /\ created = Cardinality(used)
    BY ZenonT(60) DEF Init
  <1> DEFINE used == {n \in Names : numbered[n] # 0}
  <1> DEFINE c == Cardinality(used)
  <1>1. c \in Nat /\ c <= Cardinality(Names) /\ Cardinality(Names) \in Nat
    BY InventoryAssumption, FS_Subset, FS_CardinalityType
  <1>2. c <= MaxRow /\ c <= MaxId /\ c <= MaxInstall /\ MaxRow \in Nat /\ MaxId \in Nat /\ MaxInstall \in Nat
    BY <1>1, InventoryAssumption
  <1>3. \A i \in 1..c : \E n \in Names : numbered[n] = i
    OBVIOUS
  <1>4. \A n \in used : numbered[n] \in 1..c
    OBVIOUS
  <1>12. dockerIds = c /\ created = c
    OBVIOUS
  <1>5. Docked
    <2>1. \A n \in Names : host[n] = IF n \in used THEN [id |-> numbered[n], state |-> "running"] ELSE Absent
      OBVIOUS
    <2>6. \A n \in Names : host[n] \in [id : 0..MaxId, state : States]
      <3> TAKE n \in Names
      <3>1. CASE n \in used
        <4>1. numbered[n] \in 0..MaxId
          BY <1>1, <1>2, <1>4, <3>1
        <4>2. host[n] = [id |-> numbered[n], state |-> "running"]
          BY <2>1, <3>1
        <4>3. \A x \in 0..MaxId : [id |-> x, state |-> "running"] \in [id : 0..MaxId, state : States]
          BY DEF States
        <4> QED BY <4>1, <4>2, <4>3
      <3>2. CASE n \notin used
        BY <2>1, <3>2, Missed
      <3> QED BY <3>1, <3>2
    <2>7. host = [n \in Names |-> host[n]]
      OBVIOUS
    <2>2. host \in Docker
      BY <2>6, <2>7 DEF Docker
    <2>3. \A n \in Names : host[n].id = numbered[n] /\ numbered[n] \in Nat
      BY <1>1, <2>1 DEF Absent
    <2>4. \A n \in Names : numbered[n] <= c
      BY <1>1, <1>4
    <2>5. Distinct(host, dockerIds)
      BY <2>1, <2>3, <2>4 DEF Distinct, Absent
    <2> QED BY <1>1, <1>2, <1>12, <2>2, <2>5 DEF Docked, DockerIds
  <1>6. ASSUME NEW i \in RowIds
        PROVE  IF i <= c THEN rows[i] \in Row ELSE rows[i] = None
    <2> DEFINE n == CHOOSE m \in Names : numbered[m] = i
    <2>1. CASE i <= c
      <3>1. n \in Names
        BY <1>1, <1>3, <2>1 DEF RowIds
      <3>2. rows[i] = [name |-> n, id |-> i, status |-> "RUNNING", source |-> origin[n]]
        BY <1>1, <2>1 DEF RowIds
      <3>3. i \in 0..MaxId
        BY <1>1, <1>2, <2>1 DEF RowIds
      <3>4. origin[n] \in {"plain", "git", "app"}
        BY <3>1
      <3>5. [name |-> n, id |-> i, status |-> "RUNNING", source |-> origin[n]] \in Row
        BY <3>1, <3>3, <3>4 DEF Row, Statuses
      <3> QED BY <2>1, <3>2, <3>5
    <2>2. CASE ~(i <= c)
      BY <1>1, <2>2 DEF RowIds
    <2> QED BY <2>1, <2>2
  <1>7. Stored
    <2>1. rows = [i \in RowIds |-> rows[i]]
      OBVIOUS
    <2>2. \A i \in RowIds : rows[i] \in Row \cup {None} /\ (rows[i] # None => i <= c)
      BY <1>6
    <2>3. rows \in RowMap
      BY <2>1, <2>2 DEF RowMap
    <2>4. c \in RowNumbers
      BY <1>1, <1>2 DEF RowNumbers
    <2>5. \A i \in RowIds : rows[i] # None => i <= created
      BY <1>12, <2>2
    <2> QED BY <1>12, <2>3, <2>4, <2>5 DEF Stored
  <1>8. installs \in InstallMap
    <2>1. ASSUME NEW i \in InstallIds
          PROVE  installs[i] \in Install \cup {None}
      <3>1. CASE i <= c /\ rows[i].source = "app"
        <4>1. i \in RowIds /\ ~(i > c)
          BY <1>1, <1>2, <3>1 DEF RowIds, InstallIds
        <4>3. rows[i].name \in Names
          BY <1>6, <3>1, <4>1 DEF Row
        <4> QED BY <3>1, <4>3 DEF Install
      <3>2. CASE ~(i <= c /\ rows[i].source = "app")
        BY <3>2
      <3> QED BY <3>1, <3>2
    <2>2. installs = [i \in InstallIds |-> installs[i]]
      OBVIOUS
    <2> QED BY <2>1, <2>2 DEF InstallMap
  <1>9. Asked
    <2>1. req = [r \in Requests |-> Idle]
      BY InitCounts
    <2> QED BY ONLY <2>1, IdleIsFormed DEF Asked, Formed
  <1>10. Counted
    <2>1. begun = 0 /\ faults = 0 /\ overlapped = FALSE /\ killed = None /\ kept = {} /\ looped = {}
      BY InitCounts
    <2>2. 0 \in 0..MaxBegun /\ 0 \in 0..MaxFaults
      BY ONLY InventoryAssumption
    <2> QED BY ONLY <2>1, <2>2 DEF Counted
  <1>11. Alone
    <2>1. req = [r \in Requests |-> Idle]
      BY InitCounts
    <2> QED BY ONLY <2>1, IdleIsFormed DEF Alone, InProgress
  <1> QED BY <1>5, <1>7, <1>8, <1>9, <1>10, <1>11 DEF Base

ContainerOps == {"sync", "image", "git", "rebuild", "delete"} \cup Actions
Limited(ops) == \A r \in Requests : req[r].pc # "idle" => req[r].op \in ops
ContainersTyped == Base /\ Limited(ContainerOps)

LEMMA BeginLimited ==
    ASSUME NEW ops, Base, Limited(ops), NEW r \in Requests, NEW q, q.op \in ops, Begin(r, q)
    PROVE  Limited(ops)'
  BY DEF Limited, Begin, Base, Asked

LEMMA KeptLimited ==
    ASSUME NEW ops, Limited(ops), SameOps
    PROVE  Limited(ops)'
  BY DEF Limited, SameOps

LEMMA BeginKind ==
    /\ \A i : \A op, pc : OnRow(op, pc, i).op = op
    /\ [Idle EXCEPT !.op = "sync", !.pc = "list", !.next = "done"].op = "sync"
    /\ \A n, op, bg : [Idle EXCEPT !.op = op, !.name = n, !.bg = bg, !.pc = "list", !.next = "check"].op = op
  <1> HIDE DEF Missing
  <1> QED BY DEF OnRow, Idle

LEMMA ArrivesBase ==
    ASSUME ContainersTyped, NEW r \in Requests, Arrives(r)
    PROVE  ContainersTyped'
  <1>1. Base'
    BY BeginOps DEF Arrives, ContainersTyped
  <1>2. Limited(ContainerOps)'
    <2>1. \A q : Begin(r, q) /\ q.op \in ContainerOps => Limited(ContainerOps)'
      BY BeginLimited DEF ContainersTyped
    <2>2. BeginSync(r) => Limited(ContainerOps)'
      BY <2>1, BeginKind DEF BeginSync, ContainerOps
    <2>3. \A n \in Names : \A op \in {"image", "git"}, bg \in BOOLEAN :
             BeginDeploy(r, n, op, bg) => Limited(ContainerOps)'
      <3> TAKE n \in Names
      <3> TAKE op \in {"image", "git"}, bg \in BOOLEAN
      <3>1. PICK q : q = [Idle EXCEPT !.op = op, !.name = n, !.bg = bg, !.pc = "list", !.next = "check"]
        OBVIOUS
      <3>2. q.op \in ContainerOps
        BY <3>1, BeginKind DEF ContainerOps
      <3> QED BY <2>1, <3>1, <3>2 DEF BeginDeploy
    <2>4. \A i \in Rows : /\ \A action \in Actions : BeginAction(r, i, action) => Limited(ContainerOps)'
                          /\ BeginRebuild(r, i) => Limited(ContainerOps)'
                          /\ BeginDelete(r, i) => Limited(ContainerOps)'
      BY <2>1, BeginKind DEF BeginAction, BeginRebuild, BeginDelete, ContainerOps, Actions
    <2> QED BY <2>2, <2>3, <2>4 DEF Arrives
  <1> QED BY <1>1, <1>2 DEF ContainersTyped

LEMMA StepBase ==
    ASSUME ContainersTyped, NEW r \in Requests, Step(r)
    PROVE  KeptBy(r)
  <1>1. Base /\ req[r] \in Request /\ (req[r].pc # "idle" => req[r].op \in ContainerOps) /\ Belongs(req[r])
    BY Asking DEF ContainersTyped, Limited
  <1>2. RebuildStops(r) \/ RebuildRemoves(r) => req[r].op = "rebuild"
    BY <1>1 DEF RebuildStops, RebuildRemoves, At, Belongs, ContainerOps, Actions
  <1> QED BY <1>1, <1>2, ListContainersBase, ReadRowsBase, WriteRowsBase, AssertNameAvailableBase,
          CreateRowBase, DockerRunBase, SettleDeploymentBase, CatchDeploymentBase, MatchRowsBase,
          PersistSourceBase, DockerActionBase, InspectBase, UpdateRowBase, RemoveContainerBase,
          DeleteRelatedAppInstallsBase, EraseRowBase, RebuildStopsBase, RebuildRemovesBase DEF Step

LEMMA NextBase ==
    ASSUME ContainersTyped, [Next]_vars
    PROVE  ContainersTyped'
  <1>1. \A r \in Requests : Step(r) => ContainersTyped'
    BY StepBase, KeptLimited DEF ContainersTyped, Kept, KeptBy
  <1>2. \A n \in Names : ContainerChanges(n) => ContainersTyped'
    BY ContainerChangesBase DEF ContainersTyped, Limited
  <1>3. PanelRestarts => ContainersTyped'
    BY PanelRestartsBase, KeptLimited DEF ContainersTyped, Kept
  <1>4. UNCHANGED vars => ContainersTyped'
    BY Undone DEF ContainersTyped, Limited, vars, Base, Asked, Counted, Alone, InProgress
  <1> QED BY <1>1, <1>2, <1>3, <1>4, ArrivesBase DEF Next

LEMMA ContainersStayTyped == Spec => []ContainersTyped
  <1>1. Init => ContainersTyped
    BY InitBase, IdleIsFormed DEF ContainersTyped, Limited, Init
  <1>2. ContainersTyped /\ [Next]_vars => ContainersTyped'
    BY NextBase
  <1> QED BY <1>1, <1>2, PTL DEF Spec

\* Every request is at a step of its operation, and what rows, containers and requests hold
\* is what their code can hold (routes/containers.ts).
THEOREM ContainersAreTyped == Spec => []TypeOK
  <1>1. ContainersTyped => TypeOK
    <2> SUFFICES ASSUME ContainersTyped PROVE TypeOK
      OBVIOUS
    <2> DEFINE P == {"list", "read", "write", "check", "create", "run", "settle", "catch", "match",
                     "persist", "act", "inspect", "update", "purge", "erase", "halt", "clear", "remove"}
    <2>1. ASSUME NEW r \in Requests
          PROVE  req[r].op \in ContainerOps \cup {None} /\ req[r].pc \in P \cup {"idle"}
      <3>1. req[r] \in Request /\ Belongs(req[r]) /\ (req[r].pc # "idle" => req[r].op \in ContainerOps)
        BY Asking DEF ContainersTyped, Limited
      <3>2. req[r].pc = "idle" => req[r].op = None
        BY <3>1, IdleIsFormed DEF Belongs
      <3>3. req[r].pc \in Pcs
        BY <3>1 DEF Request
      <3>4. req[r].pc # "idle" => req[r].pc \in P
        BY <3>1, <3>3 DEF Belongs, ContainerOps, Actions, Pcs, Entering, AppListing
      <3> QED BY <3>1, <3>2, <3>4
    <2> DEFINE R == [op : ContainerOps \cup {None}, pc : P \cup {"idle"},
         name : Names \cup {None}, row : 0..MaxRow, id : 0..MaxId, ref : 0..MaxId,
         status : Statuses \cup {None}, next : {None, "done", "check", "match"}, bg : BOOLEAN,
         seen : Docker, known : [RowIds -> Row \cup {None}],
         install : 0..MaxInstall, apps : [InstallIds -> Install \cup {None}]]
    <2>2. \A q \in Request : q.op \in ContainerOps \cup {None} /\ q.pc \in P \cup {"idle"} => q \in R
      BY DEF Request, RowNumbers, DockerIds, InstallNumbers, RowMap, InstallMap
    <2>3. \A r \in Requests : req[r] \in R
      BY <2>1, <2>2, Asking DEF ContainersTyped
    <2>4. req \in [Requests -> R]
      BY <2>3 DEF ContainersTyped, Base, Asked
    <2> QED BY <2>4 DEF TypeOK, Typed, ContainersTyped, Base, Docked, Stored, Counted, ContainerOps,
                        RowNumbers, DockerIds, RowMap, InstallMap
  <1> QED BY <1>1, ContainersStayTyped, PTL

-----------------------------------------------------------------------------
(***************************************************************************)
(* Containers that docker restarts: whatever a request has seen of one was *)
(* seen while docker restarted it.                                         *)
(***************************************************************************)
LoopsIn(h) == \A n \in Names : h[n].state = "restarting" => h[n].id \in looped
LoopSeen(q) ==
    /\ q.pc \in {"read", "write"} => LoopsIn(q.seen)
    /\ q.pc = "update" /\ q.status = "STARTING" => q.id \in looped
Looping == LoopsIn(host) /\ \A r \in Requests : LoopSeen(req[r])

\* No docker command of the panel makes docker restart a container over and over.
LEMMA HostLoops ==
    ASSUME Base, NEW r \in Requests, Step(r)
    PROVE  UNCHANGED looped /\ \A n \in Names : host'[n].state = "restarting" => host'[n] = host[n]
  <1>1. ASSUME NEW op, NEW m \in Names, ActsUnseen(op, m)
        PROVE  \A n \in Names : host'[n].state = "restarting" => host'[n] = host[n]
    <2>1. host[m] \in [id : 0..MaxId, state : States] /\ host \in [Names -> [id : 0..MaxId, state : States]]
      BY DEF Base, Docked, Docker
    <2>2. After(op, host[m]) = "restarting" => host[m].state = "restarting"
      BY <2>1 DEF After, Up
    <2>3. ASSUME NEW state, host' = Switched(m, state), state = "restarting" => host[m].state = "restarting"
          PROVE  \A n \in Names : host'[n].state = "restarting" => host'[n] = host[n]
      <3>1. host'[m] = [host[m] EXCEPT !.state = state] /\ \A n \in Names : n # m => host'[n] = host[n]
        BY <2>1, <2>3 DEF Switched
      <3> QED BY <2>1, <2>3, <3>1
    <2>4. host' = Removed(m) => \A n \in Names : host'[n].state = "restarting" => host'[n] = host[n]
      BY <2>1 DEF Removed, Absent
    <2> QED BY <1>1, <2>2, <2>3, <2>4 DEF ActsUnseen, Acts
  <1>2. \A op : \A m \in Names : Acts(op, m) => ActsUnseen(op, m)
    BY DEF ActsUnseen
  <1>3. \A q \in Request : q.name \in Names => Target(q) \cup Referred(q) \cup Holding(q.id) \subseteq Names
    BY Holder
  <1>4. /\ req[r] \in Request
        /\ DockerAction(r) \/ RebuildStops(r) \/ RebuildRemoves(r) \/ RemoveContainer(r) \/ DockerRun(r)
              => req[r].name \in Names
    BY Asking DEF Carries, Listing, AppListing, At, DockerAction, RebuildStops, RebuildRemoves, RemoveContainer,
                  DockerRun
  <1>5. DockerAction(r) => \A n \in Names : host'[n].state = "restarting" => host'[n] = host[n]
    BY <1>1, <1>2, <1>3, <1>4 DEF DockerAction
  <1>6. RebuildStops(r) \/ RebuildRemoves(r) => \A n \in Names : host'[n].state = "restarting" => host'[n] = host[n]
    BY <1>1, <1>2, <1>3, <1>4 DEF RebuildStops, RebuildRemoves
  <1>7. RemoveContainer(r) => \A n \in Names : host'[n].state = "restarting" => host'[n] = host[n]
    BY <1>1, <1>3, <1>4 DEF RemoveContainer, Absent
  <1>8. DockerRun(r) => \A n \in Names : host'[n].state = "restarting" => host'[n] = host[n]
    <2>1. \A state \in {"running", "created"} : Launch(req[r].name, state) =>
              \A n \in Names : host'[n].state = "restarting" => host'[n] = host[n]
      BY DEF Launch, Base, Docked, Docker
    <2> QED BY <2>1 DEF DockerRun
  <1>9. ListContainers(r) \/ ReadRows(r) \/ WriteRows(r) \/ AssertNameAvailable(r) \/ CreateRow(r)
        \/ SettleDeployment(r) \/ CatchDeployment(r) \/ MatchRows(r) \/ PersistSource(r)
        \/ Inspect(r) \/ UpdateRow(r) \/ DeleteRelatedAppInstalls(r) \/ EraseRow(r) => UNCHANGED <<host, looped>>
    BY DEF ListContainers, ReadRows, WriteRows, AssertNameAvailable, CreateRow, SettleDeployment, CatchDeployment,
           MatchRows, PersistSource, Inspect, UpdateRow, DeleteRelatedAppInstalls, EraseRow
  <1>10. DockerAction(r) \/ RebuildStops(r) \/ RebuildRemoves(r) \/ RemoveContainer(r) \/ DockerRun(r)
            => UNCHANGED looped
    BY DEF DockerAction, RebuildStops, RebuildRemoves, RemoveContainer, DockerRun
  <1> QED BY <1>5, <1>6, <1>7, <1>8, <1>9, <1>10 DEF Step

\* What a request learns of a container.
LEMMA SeenLoops ==
    ASSUME ContainersTyped, Looping, NEW r \in Requests, Step(r)
    PROVE  LoopSeen(req'[r])
  <1> PICK q : q = req[r]  OBVIOUS
  <1>1. q \in Request /\ Carries(q) /\ Base /\ req \in [Requests -> Request] /\ LoopSeen(q) /\ LoopsIn(host)
    BY Asking DEF ContainersTyped, Looping, Base, Asked
  <1>2. LoopSeen(Idle)
    BY IdleIsFormed DEF LoopSeen
  <1>3. Reply(r) => LoopSeen(req'[r])
    BY <1>1, <1>2 DEF Reply
  <1>4. \A pc \in Pcs \ {"read", "write", "update"} : Go(r, pc) => LoopSeen(req'[r])
    <2>1. \A pc \in Pcs : Go(r, pc) => req'[r].pc = pc
      BY <1>1, AtPc DEF Go
    <2> QED BY <2>1 DEF LoopSeen
  <1>5. ListContainers(r) => LoopSeen(req'[r])
    <2>1. \A h : req' = [req EXCEPT ![r].pc = "read", ![r].seen = h] => req'[r].pc = "read" /\ req'[r].seen = h
      BY <1>1 DEF Request
    <2>2. LoopsIn(Missing)
      BY DEF LoopsIn, Missing, Absent
    <2>3. \A h : LoopsIn(h) /\ req' = [req EXCEPT ![r].pc = "read", ![r].seen = h] => LoopSeen(req'[r])
      BY <2>1 DEF LoopSeen
    <2> HIDE DEF Missing
    <2> QED BY <1>1, <1>3, <2>2, <2>3 DEF ListContainers
  <1>6. ReadRows(r) => LoopSeen(req'[r])
    <2>1. ReadRows(r) => req'[r].pc = "write" /\ req'[r].seen = q.seen /\ q.pc = "read"
      BY <1>1 DEF ReadRows, Request, At
    <2> QED BY <1>1, <2>1 DEF LoopSeen
  <1>7. Inspect(r) => LoopSeen(req'[r])
    <2> SUFFICES ASSUME Inspect(r) PROVE LoopSeen(req'[r])
      OBVIOUS
    <2>1. PICK found \in {Referred(q), {}} :
              req' = [req EXCEPT ![r].pc = "update", ![r].status = mapDockerInspectStatus(found),
                                 ![r].id = IF found = {} THEN @ ELSE host[CHOOSE n \in found : TRUE].id]
      BY DEF Inspect
    <2>2. /\ req'[r].pc = "update" /\ req'[r].status = mapDockerInspectStatus(found)
          /\ found # {} => req'[r].id = host[CHOOSE n \in found : TRUE].id
      <3> PICK st : st = mapDockerInspectStatus(found)  OBVIOUS
      <3> PICK id : id = IF found = {} THEN q.id ELSE host[CHOOSE n \in found : TRUE].id  OBVIOUS
      <3>1. req' = [req EXCEPT ![r] = [q EXCEPT !.pc = "update", !.status = st, !.id = id]]
        BY <1>1, <2>1 DEF Request
      <3>2. req'[r] = [q EXCEPT !.pc = "update", !.status = st, !.id = id]
        BY <1>1, <3>1
      <3> QED BY <1>1, <3>2 DEF Request
    <2>3. found \subseteq Names
      BY <1>1, Holder DEF Carries, Inspect, At, Listing, AppListing
    <2>4. CASE found = {}
      BY <2>2, <2>4 DEF LoopSeen, mapDockerInspectStatus
    <2>5. CASE found # {}
      <3> PICK n : n = CHOOSE m \in found : TRUE  OBVIOUS
      <3>1. n \in Names
        BY <2>3, <2>5
      <3>2. mapDockerInspectStatus(found) = "STARTING" => host[n].state = "restarting"
        BY <2>5 DEF mapDockerInspectStatus
      <3> QED BY <1>1, <2>2, <2>5, <3>1, <3>2 DEF LoopSeen, LoopsIn
    <2> QED BY <2>4, <2>5
  <1>8. WriteRows(r) => LoopSeen(req'[r])
    <2> SUFFICES ASSUME WriteRows(r), ~Reply(r) PROVE LoopSeen(req'[r])
      BY <1>3
    <2>1. q.next \in {"check", "match"} /\ req' = [req EXCEPT ![r] =
              [Idle EXCEPT !.op = q.op, !.name = q.name, !.row = q.row, !.bg = q.bg, !.pc = q.next]]
      BY <1>1 DEF WriteRows, Carries, At, Listing
    <2>2. Idle \in Request
      BY IdleIsFormed DEF Formed
    <2> HIDE DEF Idle
    <2>3. req'[r].pc = q.next
      BY <1>1, <2>1, <2>2 DEF Request
    <2> QED BY <2>1, <2>3 DEF LoopSeen
  <1>9. \A pc \in {"run", "settle", "persist", "list", "purge", "inspect", "clear"} :
            req'[r].pc = pc => LoopSeen(req'[r])
    BY DEF LoopSeen
  <1>10. CreateRow(r) => req'[r].pc = "run"
    BY <1>1 DEF CreateRow, Request
  <1>11. MatchRows(r) => Reply(r) \/ req'[r].pc = "persist"
    BY <1>1 DEF MatchRows, Request
  <1>12. \A next : Sync(r, next) => req'[r].pc = "list"
    BY <1>1 DEF Sync, Request
  <1>13. DockerRun(r) => LoopSeen(req'[r])
    <2>1. Deployed(r) => req'[r].pc \in {"settle", "list"}
      BY <1>1, <1>12 DEF Deployed, Request
    <2> QED BY <1>3, <1>4, <1>9, <2>1 DEF DockerRun, Failed, Pcs
  <1>14. DockerAction(r) => LoopSeen(req'[r])
    <2>1. \A pc, ref : req' = [req EXCEPT ![r].pc = pc, ![r].ref = ref] => req'[r].pc = pc
      BY <1>1 DEF Request
    <2> PICK pc : pc = IF q.op = "rm" THEN "purge" ELSE "inspect"  OBVIOUS
    <2>2. DockerAction(r) => Reply(r) \/ req' = [req EXCEPT ![r].pc = pc, ![r].ref = Reference(q)]
      BY DEF DockerAction
    <2> QED BY <1>3, <1>9, <2>1, <2>2
  <1>15. RebuildStops(r) => LoopSeen(req'[r])
    <2>1. \A ref : req' = [req EXCEPT ![r].pc = "clear", ![r].ref = ref] => req'[r].pc = "clear"
      BY <1>1 DEF Request
    <2> QED BY <1>3, <1>4, <1>9, <2>1 DEF RebuildStops, Pcs
  <1>16. SettleDeployment(r) \/ CatchDeployment(r) => LoopSeen(req'[r])
    BY <1>2, <1>3, <1>4 DEF SettleDeployment, CatchDeployment, Ends, Pcs
  <1>17. UpdateRow(r) => LoopSeen(req'[r])
    BY <1>3, <1>9, <1>12 DEF UpdateRow
  <1>18. AssertNameAvailable(r) \/ RemoveContainer(r) \/ DeleteRelatedAppInstalls(r) => LoopSeen(req'[r])
    BY <1>3, <1>4 DEF AssertNameAvailable, RemoveContainer, DeleteRelatedAppInstalls, Pcs
  <1>19. RebuildRemoves(r) => LoopSeen(req'[r])
    BY <1>3, <1>4 DEF RebuildRemoves, Pcs
  <1>20. PersistSource(r) \/ EraseRow(r) => LoopSeen(req'[r])
    BY <1>3 DEF PersistSource, EraseRow
  <1> QED BY <1>3, <1>5, <1>6, <1>7, <1>8, <1>9, <1>10, <1>11, <1>13, <1>14, <1>15, <1>16, <1>17, <1>18, <1>19, <1>20
          DEF Step

LEMMA LoopingStep ==
    ASSUME ContainersTyped, Looping, NEW r \in Requests, Step(r)
    PROVE  Looping'
  <1>1. UNCHANGED looped /\ \A n \in Names : host'[n].state = "restarting" => host'[n] = host[n]
    BY HostLoops DEF ContainersTyped
  <1>2. (LoopsIn(host))'
    BY <1>1 DEF Looping, LoopsIn
  <1>3. LoopSeen(Idle)
    BY IdleIsFormed DEF LoopSeen
  <1>4. \A s \in Requests : LoopSeen(req'[s])
    BY <1>3, SeenLoops, StepBase DEF KeptBy, Elsewhere, Looping
  <1>5. \A s \in Requests : (LoopSeen(req[s]))'
    BY <1>1, <1>4 DEF LoopSeen, LoopsIn
  <1> QED BY <1>2, <1>5 DEF Looping

-----------------------------------------------------------------------------
(* What the steps do to deployments and rows. *)
(***************************************************************************)
(* Deployments: a row that is STARTING has its deployment, and the row of  *)
(* a deployment is deleted only by a request that overlaps it.             *)
(***************************************************************************)
Deploys(q) == q.op = "image" /\ q.pc \in {"run", "settle", "catch"}
Deploying ==
    \A i \in Rows : rows[i].status = "STARTING" =>
        killed # None \/ rows[i].id \in looped \/ \E r \in Requests : Deploys(req[r]) /\ req[r].row = i
Spared ==
    \A r \in Requests : Deploys(req[r]) =>
        req[r].row <= created /\ (~overlapped => rows[req[r].row] # None)

Survival == ContainersTyped /\ Looping /\ Deploying /\ Spared /\ SurvivesDocker

\* A row that is gone stays so, and only a deployment's new row or that of a container which
\* docker restarts is STARTING.
Aged == /\ created <= created'
        /\ \A i \in RowIds : i <= created /\ rows[i] = None => rows'[i] = None
Settled == \A i \in RowIds : rows'[i] # None /\ rows'[i].status = "STARTING" =>
               \/ rows[i] # None /\ rows[i].status = "STARTING" /\ rows'[i].id = rows[i].id
               \/ rows'[i].id \in looped

LEMMA CreatedIsNumber ==
    ASSUME Base
    PROVE  created \in Nat /\ created <= created
  BY InventoryAssumption DEF Base, Stored, RowNumbers

LEMMA WriteRowsAges ==
    ASSUME Base, Looping, NEW r \in Requests, WriteRows(r)
    PROVE  Aged /\ Settled
  <1> PICK q : q = req[r]  OBVIOUS
  <1>1. q \in Request
    BY Asking
  <1> DEFINE lost == \E n \in Listed(q) : ExistingRow(q, n) # 0 /\ rows[ExistingRow(q, n)] = None
  <1>2. CASE lost
    BY <1>2, CreatedIsNumber DEF WriteRows, Aged, Settled
  <1>3. CASE ~lost
    <2>1. rows' = Synchronised(q) /\ created' = created + Cardinality(Unknown(q))
      BY <1>3 DEF WriteRows
    <2>2. ASSUME NEW i \in RowIds, rows'[i] # None
          PROVE  /\ i <= created => rows[i] # None
                 /\ rows'[i].status = "STARTING" => rows'[i].id \in looped
      <3>1. PICK n \in Listed(q) : /\ RowOf(q, n) = i /\ rows'[i].status = mapDockerStatus(q.seen[n])
                                   /\ rows'[i].id = q.seen[n].id
        BY <2>1, <2>2 DEF Synchronised
      <3>2. i <= created => rows[i] # None
        <4>1. CASE ExistingRow(q, n) # 0
          BY <1>3, <3>1, <4>1 DEF RowOf
        <4>2. CASE ExistingRow(q, n) = 0
          <5>1. n \in Unknown(q) /\ NewRow(q, n) = i
            BY <3>1, <4>2 DEF RowOf, Unknown
          <5>2. i > created /\ i \in Nat
            BY <1>1, <5>1, Numbering
          <5> QED BY <5>2, CreatedIsNumber
        <4> QED BY <4>1, <4>2
      <3>3. LoopsIn(q.seen) /\ n \in Names
        BY DEF Looping, LoopSeen, WriteRows, At, Listed
      <3>4. mapDockerStatus(q.seen[n]) = "STARTING" => q.seen[n].state = "restarting"
        BY DEF mapDockerStatus
      <3> QED BY <3>1, <3>2, <3>3, <3>4 DEF LoopsIn
    <2>3. created <= created'
      BY <1>1, <2>1, Numbering, CreatedIsNumber
    <2> QED BY <2>2, <2>3 DEF Aged, Settled
  <1> QED BY <1>2, <1>3

LEMMA RowsAge ==
    ASSUME ContainersTyped, Looping, NEW r \in Requests, Step(r)
    PROVE  Aged /\ (~CreateRow(r) => Settled)
  <1> USE CreatedIsNumber DEF ContainersTyped
  <1>1. UNCHANGED <<rows, created>> => Aged /\ Settled
    BY DEF Aged, Settled
  <1>2. CreateRow(r) => Aged
    BY DEF CreateRow, Aged, Base, Stored, RowMap
  <1>3. SettleDeployment(r) \/ UpdateRow(r) => Aged /\ Settled
    <2> SUFFICES ASSUME SettleDeployment(r) \/ UpdateRow(r) PROVE Aged /\ Settled
      OBVIOUS
    <2> PICK q : q = req[r]  OBVIOUS
    <2>1. q \in Request /\ q.row # 0 /\ (UpdateRow(r) /\ q.status = "STARTING" => q.id \in looped)
      BY Asking DEF SettleDeployment, UpdateRow, At, Carries, Looping, LoopSeen
    <2>2. CASE rows[q.row] = None
      BY <1>1, <2>2 DEF SettleDeployment, UpdateRow
    <2>3. CASE rows[q.row] # None
      <3>1. q.row \in RowIds /\ rows[q.row] \in Row
        BY <2>1, <2>3, AtRow
      <3>2. PICK st : /\ rows' = [rows EXCEPT ![q.row] = [rows[q.row] EXCEPT !.status = st, !.id = q.id]]
                      /\ st = "STARTING" => q.id \in looped
        BY ZenonT(60), <2>1, <2>3 DEF SettleDeployment, UpdateRow
      <3>3. \A i \in RowIds : i # q.row => rows'[i] = rows[i]
        BY <3>2 DEF Base, Stored, RowMap
      <3>4. rows'[q.row].status = st /\ rows'[q.row].id = q.id
        BY <3>1, <3>2 DEF Base, Stored, RowMap, Row
      <3> QED BY <2>3, <3>2, <3>3, <3>4 DEF Aged, Settled, SettleDeployment, UpdateRow
    <2> QED BY <2>2, <2>3
  <1>4. CatchDeployment(r) => Aged /\ Settled
    <2> SUFFICES ASSUME CatchDeployment(r) PROVE Aged /\ Settled
      OBVIOUS
    <2> PICK q : q = req[r]  OBVIOUS
    <2>1. q \in Request /\ q.row # 0
      BY Asking DEF CatchDeployment, At, Carries
    <2>2. CASE UNCHANGED rows
      BY <1>1, <2>2 DEF CatchDeployment
    <2>3. CASE ~UNCHANGED rows
      <3>1. rows[q.row] # None /\ rows' = [rows EXCEPT ![q.row] = [rows[q.row] EXCEPT !.status = "ERROR"]]
        BY <2>3 DEF CatchDeployment
      <3>2. q.row \in RowIds /\ rows[q.row] \in Row
        BY <2>1, <3>1, AtRow
      <3>3. \A i \in RowIds : i # q.row => rows'[i] = rows[i]
        BY <3>1 DEF Base, Stored, RowMap
      <3>4. rows'[q.row].status = "ERROR"
        BY <3>1, <3>2 DEF Base, Stored, RowMap, Row
      <3> QED BY <3>1, <3>3, <3>4 DEF Aged, Settled, CatchDeployment
    <2> QED BY <2>2, <2>3
  <1>5. PersistSource(r) => Aged /\ Settled
    <2> SUFFICES ASSUME PersistSource(r) PROVE Aged /\ Settled
      OBVIOUS
    <2> PICK q : q = req[r]  OBVIOUS
    <2> DEFINE matched == {i \in RowIds : q.known[i] # None /\ q.known[i].name = q.name}
    <2>1. CASE \E i \in matched : rows[i] = None
      BY <1>1, <2>1 DEF PersistSource
    <2>2. CASE ~\E i \in matched : rows[i] = None
      <3>1. rows' = [i \in RowIds |-> IF i \in matched THEN [rows[i] EXCEPT !.source = "git"] ELSE rows[i]]
        BY <2>2 DEF PersistSource
      <3>2. \A x \in Row : /\ [x EXCEPT !.source = "git"].status = x.status
                           /\ [x EXCEPT !.source = "git"].id = x.id
        BY DEF Row
      <3>3. \A i \in RowIds : rows[i] \in Row \cup {None}
        BY DEF Base, Stored, RowMap
      <3> QED BY <2>2, <3>1, <3>2, <3>3 DEF Aged, Settled, PersistSource
    <2> QED BY <2>1, <2>2
  <1>6. EraseRow(r) => Aged /\ Settled
    BY DEF EraseRow, Aged, Settled, Base, Stored, RowMap
  <1>7. ListContainers(r) \/ ReadRows(r) \/ AssertNameAvailable(r) \/ DockerRun(r) \/ MatchRows(r)
        \/ DockerAction(r) \/ Inspect(r) \/ RemoveContainer(r) \/ DeleteRelatedAppInstalls(r)
        \/ RebuildStops(r) \/ RebuildRemoves(r) => UNCHANGED <<rows, created>>
    BY DEF ListContainers, ReadRows, AssertNameAvailable, DockerRun, MatchRows, DockerAction, Inspect,
           RemoveContainer, DeleteRelatedAppInstalls, RebuildStops, RebuildRemoves
  <1> QED BY <1>1, <1>2, <1>3, <1>4, <1>5, <1>6, <1>7, WriteRowsAges DEF Step

\* A step takes a deployment further, or is not of one.
LEMMA DeploymentStep ==
    ASSUME ContainersTyped, NEW r \in Requests, Step(r)
    PROVE  /\ Deploys(req[r]) => DockerRun(r) \/ SettleDeployment(r) \/ CatchDeployment(r)
           /\ Deploys(req'[r]) => CreateRow(r) \/ (Deploys(req[r]) /\ req'[r].row = req[r].row)
           /\ DockerRun(r) /\ Deploys(req[r]) => Deploys(req'[r])
           /\ \A s \in Requests : s # r => req'[s] = req[s] \/ (killed' # None /\ req'[s] = Idle)
  <1> PICK q : q = req[r]  OBVIOUS
  <1>1. q \in Request /\ Belongs(q) /\ Carries(q) /\ req \in [Requests -> Request] /\ Base
    BY Asking DEF ContainersTyped, Base, Asked
  <1>2. Deploys(q) => DockerRun(r) \/ SettleDeployment(r) \/ CatchDeployment(r)
    BY <1>1 DEF Deploys, Step, At, ListContainers, ReadRows, WriteRows, AssertNameAvailable, CreateRow, MatchRows,
           PersistSource, DockerAction, Inspect, UpdateRow, RemoveContainer, DeleteRelatedAppInstalls,
           EraseRow, RebuildStops, RebuildRemoves
  <1>3. ~Deploys(Idle)
    BY IdleIsFormed DEF Deploys
  <1>4. Reply(r) => ~Deploys(req'[r])
    BY <1>1, <1>3 DEF Reply
  <1>5. \A pc \in Pcs : Go(r, pc) => req'[r].pc = pc /\ req'[r].op = q.op /\ req'[r].row = q.row
    BY <1>1, AtPc DEF Go
  <1>6. ListContainers(r) \/ ReadRows(r) \/ DockerAction(r) \/ Inspect(r) \/ UpdateRow(r) \/ EraseRow(r)
           \/ DeleteRelatedAppInstalls(r) \/ MatchRows(r) \/ PersistSource(r) => ~Deploys(req'[r])
    BY <1>1, <1>4, <1>5 DEF Deploys, ListContainers, ReadRows, DockerAction, Inspect, UpdateRow, EraseRow,
        DeleteRelatedAppInstalls, MatchRows, PersistSource, Request, Sync, Pcs
  <1>7. WriteRows(r) => ~Deploys(req'[r])
    BY ZenonT(60), <1>1, <1>4 DEF Deploys, WriteRows, Carries, Listing, At, Idle, Request
  <1>8. AssertNameAvailable(r) \/ RemoveContainer(r) => ~Deploys(req'[r])
    BY <1>1, <1>4, <1>5 DEF Deploys, AssertNameAvailable, RemoveContainer, Pcs
  <1>9. RebuildStops(r) \/ RebuildRemoves(r) => ~Deploys(req'[r])
    <2>1. RebuildStops(r) \/ RebuildRemoves(r) => q.op # "image"
      BY <1>1 DEF RebuildStops, RebuildRemoves, At, Belongs
    <2>2. RebuildStops(r) \/ RebuildRemoves(r) => Reply(r) \/ req'[r].op = q.op
      <3>1. \A pc \in {"run", "halt"} : Go(r, pc) => req'[r].op = q.op
        BY <1>5 DEF Pcs
      <3>2. \A ref : req' = [req EXCEPT ![r].pc = "clear", ![r].ref = ref] => req'[r].op = q.op
        BY <1>1 DEF Request
      <3> QED BY <3>1, <3>2 DEF RebuildStops, RebuildRemoves
    <2> QED BY <2>1, <2>2, <1>4 DEF Deploys
  <1>10. DockerRun(r) => /\ Deploys(q) => Deploys(req'[r]) /\ req'[r].row = q.row
                         /\ Deploys(req'[r]) => Deploys(q)
    <2>1. q.op # "image" /\ DockerRun(r) => ~Deploys(req'[r])
      BY ZenonT(60), <1>1, <1>4 DEF DockerRun, Deployed, Failed, Sync, Deploys, Request
    <2>2. q.op = "image" /\ DockerRun(r) => Deploys(req'[r]) /\ req'[r].row = q.row /\ Deploys(q)
      <3>1. \A id : req' = [req EXCEPT ![r].pc = "settle", ![r].id = id] =>
                 req'[r].op = q.op /\ req'[r].pc = "settle" /\ req'[r].row = q.row
        BY <1>1 DEF Request
      <3>2. Go(r, "catch") => req'[r].op = q.op /\ req'[r].pc = "catch" /\ req'[r].row = q.row
        BY <1>5 DEF Pcs
      <3>3. q.op = "image" /\ DockerRun(r) => Go(r, "catch") \/ Deployed(r)
        BY DEF DockerRun, Failed
      <3>4. q.op = "image" /\ Deployed(r) => req' = [req EXCEPT ![r].pc = "settle", ![r].id = dockerIds + 1]
        BY DEF Deployed
      <3> QED BY <3>1, <3>2, <3>3, <3>4 DEF Deploys, DockerRun, At
    <2> QED BY <2>1, <2>2 DEF Deploys
  <1>11. (SettleDeployment(r) \/ CatchDeployment(r)) /\ Deploys(req'[r]) => Deploys(q) /\ req'[r].row = q.row
    BY <1>1, <1>3, <1>4, <1>5 DEF SettleDeployment, CatchDeployment, Deploys, Ends, At, Pcs, Belongs
  <1>12. \A s \in Requests : s # r => req'[s] = req[s] \/ (killed' # None /\ req'[s] = Idle)
    BY StepBase, NoneIsNoRow DEF KeptBy, Elsewhere
  <1> QED BY <1>2, <1>6, <1>7, <1>8, <1>9, <1>10, <1>11, <1>12 DEF Step

-----------------------------------------------------------------------------
(* The invariant and its theorems. *)
LEMMA SpareStep ==
    ASSUME Survival, NEW r \in Requests, Step(r)
    PROVE  Spared' /\ SurvivesDocker'
  <1> USE CreatedIsNumber DEF ContainersTyped, Survival
  <1>1. Base /\ KeptBy(r) /\ Aged /\ Base' /\ InProgress(r) /\ UNCHANGED overlapped
    BY StepBase, RowsAge DEF KeptBy, Kept, Step, ListContainers, ReadRows, WriteRows, AssertNameAvailable, CreateRow,
       DockerRun, SettleDeployment, CatchDeployment, MatchRows, PersistSource, DockerAction, Inspect, UpdateRow,
       RemoveContainer, DeleteRelatedAppInstalls, EraseRow, RebuildStops, RebuildRemoves, At, InProgress
  <1>2. \A s \in Requests : ~overlapped /\ s # r => ~Deploys(req[s])
    BY <1>1 DEF Base, Alone, InProgress, Deploys
  <1>3. ~Deploys(Idle)
    BY IdleIsFormed DEF Deploys
  <1>4. created' \in Nat
    BY <1>1, InventoryAssumption DEF Base, Stored, RowNumbers
  <1>5. ASSUME NEW s \in Requests, Deploys(req'[s]), s # r
        PROVE  req'[s].row <= created' /\ (~overlapped' => rows'[req'[s].row] # None)
    <2>1. req'[s] = req[s] /\ Deploys(req[s]) /\ req[s].row <= created
      BY <1>3, <1>5, DeploymentStep DEF Spared
    <2>2. req[s].row \in Nat /\ created \in Nat /\ created <= created'
      BY <1>1, <2>1, Asking, InventoryAssumption DEF Request, RowNumbers, Aged
    <2> QED BY <1>1, <1>2, <1>4, <1>5, <2>1, <2>2
  <1>6. ASSUME Deploys(req'[r])
        PROVE  req'[r].row <= created' /\ (~overlapped' => rows'[req'[r].row] # None)
    <2>1. CASE CreateRow(r)
      <3> PICK q : q = req[r]  OBVIOUS
      <3>1. req'[r].row = created + 1 /\ created' = created + 1
        BY <2>1, Asking DEF CreateRow, Base, Asked, Request
      <3>2. q.name \in Names
        BY <2>1, Asking DEF CreateRow, At, Carries, Listing, AppListing
      <3>3. [name |-> q.name, id |-> 0, status |-> "STARTING", source |-> "plain"] \in Row
        BY <3>2, InventoryAssumption DEF Row, Statuses
      <3>4. created + 1 \in RowIds
        BY <2>1, InventoryAssumption DEF CreateRow, Base, Stored, RowNumbers, RowIds
      <3>5. rows'[created + 1] # None
        BY <2>1, <3>3, <3>4, NoneIsNoRow DEF CreateRow, Base, Stored, RowMap
      <3> QED BY <1>4, <3>1, <3>5
    <2>2. CASE ~CreateRow(r)
      <3> PICK q : q = req[r]  OBVIOUS
      <3>1. Deploys(q) /\ req'[r].row = q.row /\ q.row <= created /\ (~overlapped => rows[q.row] # None)
        BY <1>6, <2>2, DeploymentStep DEF Spared
      <3>2. q \in Request /\ q.row \in Nat /\ q.row # 0
        BY <3>1, Asking, InventoryAssumption DEF Request, RowNumbers, Carries, Deploys
      <3>3. DockerRun(r) \/ SettleDeployment(r) \/ CatchDeployment(r)
        BY <3>1, DeploymentStep
      <3>4. rows[q.row] # None => rows'[q.row] # None
        <4>1. UNCHANGED rows => (rows[q.row] # None => rows'[q.row] # None)
          OBVIOUS
        <4>2. SettleDeployment(r) => ~Deploys(req'[r]) \/ UNCHANGED rows
          BY <1>3, Asking DEF SettleDeployment, Reply, Base, Asked
        <4>3. CatchDeployment(r) => ~Deploys(req'[r]) \/ UNCHANGED rows
          BY <1>3, Asking DEF CatchDeployment, Reply, Ends, Base, Asked
        <4> QED BY <1>6, <3>3, <4>1, <4>2, <4>3 DEF DockerRun
      <3> QED BY <1>1, <1>4, <3>1, <3>2, <3>4 DEF Aged
    <2> QED BY <2>1, <2>2
  <1>7. Spared'
    BY <1>5, <1>6 DEF Spared
  <1>8. SurvivesDocker'
    <2>1. CASE killed = "rejection"
      <3>1. PICK i \in 1..created : overlapped /\ rows[i] = None
        BY <2>1 DEF SurvivesDocker
      <3>2. i \in RowIds /\ i <= created
        BY <3>1, <1>1, InventoryAssumption DEF Base, Stored, RowNumbers, RowIds
      <3>3. i \in 1..created' /\ rows'[i] = None
        <4>1. i \in Nat /\ i >= 1 /\ created <= created' /\ created \in Nat
          BY <1>1, <3>1 DEF Aged
        <4> QED BY <1>1, <1>4, <3>1, <3>2, <4>1 DEF Aged
      <3> QED BY <1>1, <3>1, <3>3 DEF SurvivesDocker
    <2>2. CASE killed # "rejection" /\ killed' = killed
      BY <2>2 DEF SurvivesDocker
    <2>3. CASE killed' # killed
      <3>1. CatchDeployment(r) /\ Rejects(r) /\ UNCHANGED rows
        BY <2>3 DEF Step, ListContainers, ReadRows, WriteRows, AssertNameAvailable, CreateRow,
           DockerRun, SettleDeployment, CatchDeployment, MatchRows, PersistSource, DockerAction, Inspect, UpdateRow,
           RemoveContainer, DeleteRelatedAppInstalls, EraseRow, RebuildStops, RebuildRemoves
      <3> PICK q : q = req[r]  OBVIOUS
      <3>2. q.pc = "catch" /\ q.op = "image" /\ q.row # 0 /\ q \in Request /\ rows[q.row] = None
        BY <3>1, Asking DEF CatchDeployment, At, Belongs, Carries, Rejects
      <3>3. q.row <= created /\ overlapped
        BY <1>1, <3>2 DEF Spared, Deploys, Base, Counted
      <3>4. q.row \in 1..created' /\ rows'[q.row] = None
        BY <1>4, <3>1, <3>2, <3>3, InventoryAssumption DEF Request, RowNumbers, CatchDeployment
      <3> QED BY <1>1, <3>3, <3>4 DEF SurvivesDocker
    <2> QED BY <2>1, <2>2, <2>3
  <1> QED BY <1>7, <1>8

LEMMA DeployingStep ==
    ASSUME Survival, NEW r \in Requests, Step(r)
    PROVE  Deploying'
  <1> USE DEF ContainersTyped, Survival
  <1>9. UNCHANGED looped
    BY HostLoops
  <1>1. Base /\ Base' /\ KeptBy(r) /\ (killed # None => killed' # None)
    BY StepBase, NoneIsNoRow DEF KeptBy, Kept, Step, ListContainers, ReadRows, WriteRows, AssertNameAvailable, CreateRow,
       DockerRun, SettleDeployment, CatchDeployment, MatchRows, PersistSource, DockerAction, Inspect, UpdateRow,
       RemoveContainer, DeleteRelatedAppInstalls, EraseRow, RebuildStops, RebuildRemoves, Ends
  <1>2. ASSUME NEW i \in RowIds, rows'[i] # None, rows'[i].status = "STARTING", killed' = None, rows'[i].id \notin looped
        PROVE  \E s \in Requests : Deploys(req'[s]) /\ req'[s].row = i
    <2> PICK q : q = req[r]  OBVIOUS
    <2>1. CASE rows[i] # None /\ rows[i].status = "STARTING" /\ rows'[i].id = rows[i].id
      <3>1. PICK s \in Requests : Deploys(req[s]) /\ req[s].row = i
        BY <1>1, <1>2, <2>1 DEF Deploying, Rows
      <3>2. CASE s # r
        BY <1>2, <3>1, <3>2, DeploymentStep
      <3>3. CASE s = r
        <4>1. q \in Request /\ q.row = i /\ rows[q.row] \in Row
          BY <1>1, <2>1, <3>1, <3>3, Asking DEF Base, Stored, RowMap
        <4>2. CASE DockerRun(r)
          <5>1. ~CreateRow(r)
            BY <4>2 DEF DockerRun, CreateRow, At
          <5> QED BY <3>1, <3>3, <4>2, <5>1, DeploymentStep
        <4>3. CASE SettleDeployment(r)
          <5>1. rows' = [rows EXCEPT ![q.row].status = "RUNNING", ![q.row].id = q.id]
            BY <2>1, <4>1, <4>3 DEF SettleDeployment
          <5>2. rows'[i].status = "RUNNING"
            BY <1>2, <4>1, <5>1 DEF Base, Stored, RowMap, Row
          <5> QED BY <1>2, <5>2
        <4>4. CASE CatchDeployment(r)
          <5>1. ~Rejects(r)
            BY <2>1, <4>1 DEF Rejects
          <5>2. rows' = [rows EXCEPT ![q.row].status = "ERROR"]
            BY <2>1, <4>1, <4>4, <5>1 DEF CatchDeployment
          <5>3. rows'[i].status = "ERROR"
            BY <1>2, <4>1, <5>2 DEF Base, Stored, RowMap, Row
          <5> QED BY <1>2, <5>3
        <4> QED BY <3>1, <3>3, <4>2, <4>3, <4>4, DeploymentStep
      <3> QED BY <3>2, <3>3
    <2>2. CASE ~(rows[i] # None /\ rows[i].status = "STARTING" /\ rows'[i].id = rows[i].id)
      <3>1. CreateRow(r)
        BY <1>2, <2>2, RowsAge DEF Settled
      <3>2. i = created + 1
        BY <1>2, <2>2, <3>1 DEF CreateRow, Base, Stored, RowMap
      <3>3. q \in Request /\ q.op = "image"
        BY <3>1, Asking DEF CreateRow, At, Belongs
      <3>4. req'[r].op = "image" /\ req'[r].pc = "run" /\ req'[r].row = created + 1
        BY <3>1, <3>3 DEF CreateRow, Base, Asked, Request
      <3> QED BY <3>2, <3>4 DEF Deploys
    <2> QED BY <2>1, <2>2
  <1> QED BY <1>2, <1>9 DEF Deploying, Rows

\* A request that has just begun is not a deployment with a row.
LEMMA BegunDeploysNot ==
    ASSUME Base, NEW r \in Requests, Arrives(r)
    PROVE  /\ ~Deploys(req'[r]) /\ \A s \in Requests : s # r => req'[s] = req[s]
           /\ UNCHANGED <<host, rows, installs, created, killed, kept, dockerIds, faults, looped>> /\ ~InProgress(r)
           /\ overlapped' = (overlapped \/ \E s \in Requests : InProgress(s))
  <1>1. \A q : Begin(r, q) => /\ req'[r] = q /\ \A s \in Requests : s # r => req'[s] = req[s]
                              /\ UNCHANGED <<host, rows, installs, created, killed, kept, dockerIds, faults, looped>>
                              /\ ~InProgress(r)
                              /\ overlapped' = (overlapped \/ \E s \in Requests : InProgress(s))
    BY DEF Begin, Base, Asked
  <1>2. /\ ~Deploys([Idle EXCEPT !.op = "sync", !.pc = "list", !.next = "done"])
        /\ \A n, op, bg : ~Deploys([Idle EXCEPT !.op = op, !.name = n, !.bg = bg, !.pc = "list", !.next = "check"])
        /\ \A i, pc : \A op \in Actions \cup {"rebuild", "delete"} : ~Deploys(OnRow(op, pc, i))
    <2> HIDE DEF Missing
    <2> QED BY BeginKind DEF Deploys, Idle, Actions
  <1>3. \E q : Begin(r, q) /\ ~Deploys(q)
    <2>1. BeginSync(r) => \E q : Begin(r, q) /\ ~Deploys(q)
      BY <1>2 DEF BeginSync
    <2>2. \A n, op, bg : BeginDeploy(r, n, op, bg) => \E q : Begin(r, q) /\ ~Deploys(q)
      BY <1>2 DEF BeginDeploy
    <2>3. \A i : /\ \A action \in Actions : BeginAction(r, i, action) => \E q : Begin(r, q) /\ ~Deploys(q)
                 /\ BeginRebuild(r, i) \/ BeginDelete(r, i) => \E q : Begin(r, q) /\ ~Deploys(q)
      BY <1>2 DEF BeginAction, BeginRebuild, BeginDelete
    <2> QED BY <2>1, <2>2, <2>3 DEF Arrives
  <1> QED BY <1>1, <1>3

LEMMA BegunSeesNot ==
    ASSUME Base, Looping, NEW r \in Requests, Arrives(r)
    PROVE  Looping'
  <1>1. \A q : Begin(r, q) /\ q.pc \notin {"read", "write", "update"} => Looping'
    BY DEF Begin, Base, Asked, Looping, LoopsIn, LoopSeen
  <1>2. /\ [Idle EXCEPT !.op = "sync", !.pc = "list", !.next = "done"].pc = "list"
        /\ \A n, op, bg : [Idle EXCEPT !.op = op, !.name = n, !.bg = bg, !.pc = "list", !.next = "check"].pc = "list"
        /\ \A i, op, pc : OnRow(op, pc, i).pc = pc
    <2> HIDE DEF Missing
    <2> QED BY DEF Idle, OnRow
  <1>3. BeginSync(r) => Looping'
    BY <1>1, <1>2 DEF BeginSync
  <1>4. \A n, op, bg : BeginDeploy(r, n, op, bg) => Looping'
    BY <1>1, <1>2 DEF BeginDeploy
  <1>5. \A i : (\A action \in Actions : BeginAction(r, i, action) => Looping') /\ (BeginRebuild(r, i) \/ BeginDelete(r, i) => Looping')
    BY <1>1, <1>2 DEF BeginAction, BeginRebuild, BeginDelete
  <1> QED BY <1>3, <1>4, <1>5 DEF Arrives

LEMMA SurvivalNext ==
    ASSUME Survival, [Next]_vars
    PROVE  Survival'
  <1>0. ContainersTyped'
    BY NextBase DEF Survival
  <1>1. ASSUME NEW r \in Requests, Arrives(r)
        PROVE  Deploying' /\ Spared' /\ SurvivesDocker'
    <2>1. Base
      BY DEF Survival, ContainersTyped
    <2>2. ~Deploys(req[r])
      BY <1>1, <2>1, BegunDeploysNot DEF InProgress, Deploys
    <2>3. Deploying'
      BY <1>1, <2>1, <2>2, BegunDeploysNot DEF Survival, Deploying, Rows
    <2>4. Spared'
      BY <1>1, <2>1, BegunDeploysNot DEF Survival, Spared
    <2>5. SurvivesDocker'
      BY <1>1, <2>1, BegunDeploysNot DEF Survival, SurvivesDocker
    <2> QED BY <2>3, <2>4, <2>5
  <1>2. ASSUME NEW n \in Names, ContainerChanges(n)
        PROVE  Deploying' /\ Spared' /\ SurvivesDocker'
    <2>1. looped \subseteq looped' /\ UNCHANGED <<rows, req, created, killed, overlapped>>
      BY <1>2 DEF ContainerChanges
    <2>2. Deploying'
      BY <2>1 DEF Survival, Deploying, Rows
    <2> QED BY <2>1, <2>2 DEF Survival, Spared, SurvivesDocker
  <1>3. ASSUME PanelRestarts
        PROVE  Deploying' /\ Spared' /\ SurvivesDocker'
    <2>1. ~Deploys(Idle)
      BY IdleIsFormed DEF Deploys
    <2> QED BY <1>3, <2>1, NoneIsNoRow DEF PanelRestarts, Ends, Deploying, Rows, Spared, SurvivesDocker
  <1>5. Looping'
    <2>1. \A r \in Requests : Arrives(r) \/ Step(r) => Looping'
      BY BegunSeesNot, LoopingStep DEF Survival, ContainersTyped
    <2>2. ASSUME NEW n \in Names, ContainerChanges(n)
          PROVE  Looping'
      <3>1. PICK state \in {"running", "restarting", "exited"} :
                /\ host' = Switched(n, state)
                /\ looped' = looped \cup {id \in {host[n].id} : state = "restarting"}
        BY <2>2 DEF ContainerChanges
      <3>2. looped \subseteq looped' /\ UNCHANGED req
        BY <2>2, <3>1 DEF ContainerChanges
      <3>3. \A m \in Names : host'[m] = IF m = n THEN [host[n] EXCEPT !.state = state] ELSE host[m]
        BY <3>1 DEF Switched, Survival, ContainersTyped, Base, Docked, Docker
      <3>4. host'[n].state = state /\ host'[n].id = host[n].id
        BY <3>3 DEF Survival, ContainersTyped, Base, Docked, Docker
      <3>5. (LoopsIn(host))'
        BY <3>1, <3>2, <3>3, <3>4 DEF Survival, Looping, LoopsIn
      <3>6. \A r \in Requests : LoopSeen(req[r])'
        BY <3>2 DEF Survival, Looping, LoopSeen, LoopsIn
      <3> QED BY <3>5, <3>6 DEF Looping
    <2>3. PanelRestarts => Looping'
      <3>1. LoopSeen(Idle)
        BY IdleIsFormed DEF LoopSeen
      <3>2. PanelRestarts => UNCHANGED <<host, looped>> /\ \A r \in Requests : req'[r] = Idle
        BY DEF PanelRestarts, Ends
      <3>3. LoopSeen(Idle) => (UNCHANGED looped => \A r \in Requests : req'[r] = Idle => LoopSeen(req[r])')
        BY DEF LoopSeen, LoopsIn
      <3> QED BY <3>1, <3>2, <3>3 DEF Survival, Looping, LoopsIn
    <2>4. UNCHANGED vars => Looping'
      BY DEF vars, Survival, Looping, LoopsIn, LoopSeen
    <2> QED BY <2>1, <2>2, <2>3, <2>4 DEF Next
  <1>4. CASE UNCHANGED vars
    <2>1. Deploying'
      BY <1>4 DEF vars, Survival, Deploying, Rows
    <2>2. Spared'
      BY <1>4 DEF vars, Survival, Spared
    <2>3. SurvivesDocker'
      BY <1>4 DEF vars, Survival, SurvivesDocker
    <2> QED BY <1>0, <1>5, <2>1, <2>2, <2>3 DEF Survival
  <1> QED BY <1>0, <1>1, <1>2, <1>3, <1>4, <1>5, SpareStep, DeployingStep DEF Survival, Next

LEMMA Survives == Spec => []Survival
  <1>1. Init => Survival
    <2> SUFFICES ASSUME Init PROVE Survival
      OBVIOUS
    <2>1. ContainersTyped
      BY InitBase, IdleIsFormed DEF ContainersTyped, Limited, Init
    <2>2. \A i \in RowIds : rows[i] = None \/ rows[i].status = "RUNNING"
      BY DEF Init
    <2>3. \A r \in Requests : ~Deploys(req[r])
      BY IdleIsFormed DEF Init, Deploys
    <2>4. killed # "rejection"
      BY NoneIsNoRow DEF Init
    <2>5. LoopsIn(host)
      BY DEF Init, LoopsIn, Absent
    <2>6. \A r \in Requests : LoopSeen(req[r])
      BY IdleIsFormed, InitCounts DEF LoopSeen
    <2> QED BY <2>1, <2>2, <2>3, <2>4, <2>5, <2>6 DEF Looping, Survival, Deploying, Spared, SurvivesDocker, Rows
  <1>2. Survival /\ [Next]_vars => Survival'
    BY SurvivalNext
  <1> QED BY <1>1, <1>2, PTL DEF Spec

\* However requests interleave and docker's commands fail, a row is STARTING only while the
\* deployment that entered it goes on, or because docker has been restarting the container
\* the row names, unless the panel's process has ended (routes/containers.ts, the .then and
\* .catch of deployContainerToServer, mapDockerStatus and mapDockerInspectStatus).
THEOREM StartingEnds == Spec => []StartingIsDeploying
  <1>1. Survival => StartingIsDeploying
    BY DEF Survival, Deploying, StartingIsDeploying, Deploys
  <1> QED BY <1>1, Survives, PTL

\* No answer of docker ends the panel's process: an unhandled rejection needs a request that
\* deletes the row of a deployment while it goes on.
THEOREM DockerIsSurvived == Spec => []SurvivesDocker
  <1>1. Survival => SurvivesDocker
    BY DEF Survival
  <1> QED BY <1>1, Survives, PTL

-----------------------------------------------------------------------------

(***************************************************************************)
(* The name of a container's id and of a row never changes: f gives that   *)
(* of each row entered so far, g that of each id docker has used.          *)
(***************************************************************************)
IdIs(id, n, g, d) == id # 0 => id <= d /\ g[id] = n
DockerIs(h, g, d) == \A n \in Names : IdIs(h[n].id, n, g, d) /\ (h[n].id = 0 => h[n] = Absent)
RowIs(i, row, f, g, c, d) == row # None => i <= c /\ row.name = f[i] /\ IdIs(row.id, row.name, g, d)
RowsAre(m, f, g, c, d) == \A i \in RowIds : RowIs(i, m[i], f, g, c, d)
RequestIs(q, f, g, c, d) ==
    /\ q.row # 0 => q.row <= c /\ q.name = f[q.row]
    /\ IdIs(q.id, q.name, g, d) /\ IdIs(q.ref, q.name, g, d)
    /\ q.pc \in {"read", "write"} => DockerIs(q.seen, g, d)
    /\ q.pc \in {"write", "persist"} => RowsAre(q.known, f, g, c, d)
Known(f, g) ==
    /\ DockerIs(host, g, dockerIds) /\ RowsAre(rows, f, g, created, dockerIds)
    /\ \A r \in Requests : RequestIs(req[r], f, g, created, dockerIds)
Named == \E f, g : Known(f, g)

\* f2 and g2 say of more rows and ids what f and g say of those so far.
Extended(f, g, c, d, f2, g2, c2, d2) ==
    /\ c \in Nat /\ d \in Nat /\ c2 \in Nat /\ d2 \in Nat /\ c <= c2 /\ d <= d2
    /\ \A i \in 1..c : f2[i] = f[i]
    /\ \A id \in 1..d : g2[id] = g[id]

LEMMA IdStays ==
    ASSUME NEW f, NEW g, NEW f2, NEW g2, NEW c, NEW d, NEW c2, NEW d2, Extended(f, g, c, d, f2, g2, c2, d2),
           NEW id \in DockerIds, NEW n, IdIs(id, n, g, d)
    PROVE  IdIs(id, n, g2, d2)
  <1>1. id \in Nat
    BY InventoryAssumption DEF DockerIds
  <1> QED BY <1>1 DEF Extended, IdIs

LEMMA DockerStays ==
    ASSUME NEW f, NEW g, NEW f2, NEW g2, NEW c, NEW d, NEW c2, NEW d2, Extended(f, g, c, d, f2, g2, c2, d2),
           NEW h \in Docker, DockerIs(h, g, d)
    PROVE  DockerIs(h, g2, d2)
  <1>1. \A n \in Names : h[n].id \in DockerIds
    BY DEF Docker, DockerIds
  <1> QED BY <1>1, IdStays DEF DockerIs

LEMMA RowsStay ==
    ASSUME NEW f, NEW g, NEW f2, NEW g2, NEW c, NEW d, NEW c2, NEW d2, Extended(f, g, c, d, f2, g2, c2, d2),
           NEW m \in RowMap, RowsAre(m, f, g, c, d)
    PROVE  RowsAre(m, f2, g2, c2, d2)
  <1> SUFFICES ASSUME NEW i \in RowIds, m[i] # None
               PROVE  i <= c2 /\ m[i].name = f2[i] /\ IdIs(m[i].id, m[i].name, g2, d2)
    BY DEF RowsAre, RowIs
  <1>1. i <= c /\ m[i].name = f[i] /\ IdIs(m[i].id, m[i].name, g, d)
    BY DEF RowsAre, RowIs
  <1>2. m[i].id \in DockerIds /\ i \in Nat /\ i >= 1
    BY InventoryAssumption DEF RowMap, Row, DockerIds, RowIds
  <1>3. IdIs(m[i].id, m[i].name, g2, d2)
    BY <1>1, <1>2, IdStays
  <1>4. i <= c2 /\ f2[i] = f[i]
    BY <1>1, <1>2 DEF Extended
  <1> QED BY <1>1, <1>3, <1>4

LEMMA RequestStays ==
    ASSUME NEW f, NEW g, NEW f2, NEW g2, NEW c, NEW d, NEW c2, NEW d2, Extended(f, g, c, d, f2, g2, c2, d2),
           NEW q \in Request, RequestIs(q, f, g, c, d)
    PROVE  RequestIs(q, f2, g2, c2, d2)
  <1>1. q.id \in DockerIds /\ q.ref \in DockerIds /\ q.seen \in Docker /\ q.known \in RowMap
    BY DEF Request
  <1>2. q.row \in Nat
    BY InventoryAssumption DEF Request, RowNumbers
  <1>3. IdIs(q.id, q.name, g2, d2) /\ IdIs(q.ref, q.name, g2, d2)
    BY <1>1, IdStays DEF RequestIs
  <1>4. q.row # 0 => q.row <= c2 /\ q.name = f2[q.row]
    BY <1>2 DEF RequestIs, Extended
  <1>5. q.pc \in {"read", "write"} => DockerIs(q.seen, g2, d2)
    BY <1>1, DockerStays DEF RequestIs
  <1>6. q.pc \in {"write", "persist"} => RowsAre(q.known, f2, g2, c2, d2)
    BY <1>1, RowsStay DEF RequestIs
  <1> QED BY <1>3, <1>4, <1>5, <1>6 DEF RequestIs

LEMMA IdleIs ==
    ASSUME NEW f, NEW g, NEW c, NEW d
    PROVE  RequestIs(Idle, f, g, c, d)
  <1> HIDE DEF Missing
  <1> QED BY DEF RequestIs, Idle, IdIs

LEMMA NamedAfter ==
    ASSUME Base, Base', NEW f, NEW g, Known(f, g), NEW f2, NEW g2,
           Extended(f, g, created, dockerIds, f2, g2, created', dockerIds'),
           NEW r \in Requests, Elsewhere(r),
           DockerIs(host', g2, dockerIds'), RowsAre(rows', f2, g2, created', dockerIds'),
           RequestIs(req'[r], f2, g2, created', dockerIds')
    PROVE  Named'
  <1>1. \A s \in Requests : RequestIs(req[s], f2, g2, created', dockerIds')
    BY Asking, RequestStays DEF Known
  <1>2. \A s \in Requests : RequestIs(req'[s], f2, g2, created', dockerIds')
    BY <1>1, IdleIs DEF Elsewhere
  <1> QED BY <1>2 DEF Named, Known

LEMMA Unextended ==
    ASSUME Base, NEW f, NEW g
    PROVE  Extended(f, g, created, dockerIds, f, g, created, dockerIds)
  BY InventoryAssumption DEF Extended, Base, Docked, Stored, RowNumbers, DockerIds

\* A step that numbers no new row and no new container.
LEMMA NamedAlike ==
    ASSUME Base, Base', NEW f, NEW g, Known(f, g), UNCHANGED <<created, dockerIds>>,
           NEW r \in Requests, Elsewhere(r),
           \A n \in Names : host'[n] = Absent \/ host'[n].id = host[n].id,
           RowsAre(rows', f, g, created, dockerIds), RequestIs(req'[r], f, g, created, dockerIds)
    PROVE  Named'
  <1>1. DockerIs(host', g, dockerIds)
    BY DEF Known, DockerIs, IdIs, Absent, Base, Docked, Distinct
  <1> QED BY <1>1, Unextended, NamedAfter

(* Each step keeps the names. *)
\* What a request carries on keeps its name.
LEMMA CarriedIs ==
    ASSUME NEW f, NEW g, NEW c, NEW d, NEW q, RequestIs(q, f, g, c, d), NEW p, p.name = q.name, 
           p.row \in {0, q.row}, p.id \in {0, q.id}, p.ref \in {0, q.id, q.ref},
           p.pc \in {"read", "write"} => DockerIs(p.seen, g, d),
           p.pc \in {"write", "persist"} => RowsAre(p.known, f, g, c, d)
    PROVE  RequestIs(p, f, g, c, d)
  BY DEF RequestIs, IdIs

LEMMA ReplyNames ==
    ASSUME Base, Base', NEW f, NEW g, Known(f, g), UNCHANGED <<host, created, dockerIds>>,
           NEW r \in Requests, Elsewhere(r), req'[r] = Idle, RowsAre(rows', f, g, created, dockerIds)
    PROVE  Named'
  BY IdleIs, NamedAlike

LEMMA KnownNow ==
    ASSUME Base, NEW f, NEW g, Known(f, g), NEW r \in Requests
    PROVE  /\ RowsAre(rows, f, g, created, dockerIds) /\ DockerIs(host, g, dockerIds)
           /\ RequestIs(req[r], f, g, created, dockerIds)
  BY DEF Known

\* Rows that are overwritten keep their name.
LEMMA RowsAlike ==
    ASSUME Base, NEW f, NEW g, Known(f, g), NEW m,
           \A i \in RowIds : m[i] # None => rows[i] # None /\ m[i].name = rows[i].name
                                /\ (m[i].id # rows[i].id => IdIs(m[i].id, m[i].name, g, dockerIds))
    PROVE  RowsAre(m, f, g, created, dockerIds)
  BY DEF Known, RowsAre, RowIs

LEMMA SyncNames ==
    ASSUME Base, Base', NEW f, NEW g, Known(f, g), NEW r \in Requests, Elsewhere(r),
           ListContainers(r) \/ ReadRows(r)
    PROVE  Named'
  <1> PICK q : q = req[r]  OBVIOUS
  <1>1. q \in Request /\ RequestIs(q, f, g, created, dockerIds)
    BY Asking, KnownNow
  <1>2. UNCHANGED <<host, rows, created, dockerIds>>
    BY DEF ListContainers, ReadRows
  <1>3. RowsAre(rows, f, g, created, dockerIds) /\ DockerIs(host, g, dockerIds) /\ DockerIs(Missing, g, dockerIds)
    BY KnownNow DEF DockerIs, Missing, IdIs, Absent
  <1>4. ASSUME NEW h, DockerIs(h, g, dockerIds), req' = [req EXCEPT ![r].pc = "read", ![r].seen = h]
        PROVE  RequestIs(req'[r], f, g, created, dockerIds)
    <2> PICK p : p = [q EXCEPT !.pc = "read", !.seen = h]  OBVIOUS
    <2>1. req'[r] = p
      BY <1>4 DEF Base, Asked
    <2>2. /\ p.pc = "read" /\ p.seen = h /\ p.name = q.name /\ p.row = q.row /\ p.id = q.id /\ p.ref = q.ref
      BY <1>1 DEF Request
    <2> QED BY <1>1, <1>4, <2>1, <2>2, CarriedIs
  <1>5. CASE ReadRows(r)
    <2> PICK p : p = [q EXCEPT !.pc = "write", !.known = rows]  OBVIOUS
    <2>1. req'[r] = p
      BY <1>5 DEF Base, Asked, ReadRows
    <2>2. /\ p.pc = "write" /\ p.seen = q.seen /\ p.known = rows /\ p.name = q.name /\ p.row = q.row
          /\ p.id = q.id /\ p.ref = q.ref
      BY <1>1 DEF Request
    <2>3. DockerIs(q.seen, g, dockerIds)
      BY <1>1, <1>5 DEF ReadRows, At, RequestIs
    <2>4. RequestIs(req'[r], f, g, created, dockerIds)
      <3>1. DockerIs(p.seen, g, dockerIds) /\ RowsAre(p.known, f, g, created, dockerIds)
        BY <1>3, <2>2, <2>3
      <3> QED BY <1>1, <2>1, <2>2, <3>1, CarriedIs
    <2> QED BY <1>2, <1>3, <2>4, NamedAlike
  <1>6. CASE ListContainers(r)
    <2> HIDE DEF Missing
    <2>1. req'[r] = Idle \/ RequestIs(req'[r], f, g, created, dockerIds)
      BY <1>3, <1>4, <1>6 DEF ListContainers, Reply, Base, Asked
    <2> QED BY <1>2, <1>3, <2>1, IdleIs, NamedAlike
  <1> QED BY <1>5, <1>6

\* Steps that only move a request on.
LEMMA GoNames ==
    ASSUME Base, NEW f, NEW g, Known(f, g), NEW r \in Requests,
           NEW pc \in Pcs, pc \notin {"read", "write", "persist"}, Go(r, pc)
    PROVE  RequestIs(req'[r], f, g, created, dockerIds)
  <1> PICK q : q = req[r]  OBVIOUS
  <1> PICK p : p = [q EXCEPT !.pc = pc]  OBVIOUS
  <1>1. q \in Request /\ RequestIs(q, f, g, created, dockerIds)
    BY Asking, KnownNow
  <1>2. p.pc = pc /\ p.name = q.name /\ p.row = q.row /\ p.id = q.id /\ p.ref = q.ref
    BY <1>1, AtPc
  <1>3. req'[r] = p
    BY DEF Go, Base, Asked
  <1> QED BY ZenonT(60), <1>1, <1>2, <1>3, CarriedIs

LEMMA IdleNow ==
    ASSUME Base, NEW r \in Requests, Reply(r), NEW f, NEW g
    PROVE  RequestIs(req'[r], f, g, created, dockerIds)
  BY IdleIs DEF Reply, Base, Asked

LEMMA PlainNames ==
    ASSUME Base, Base', NEW f, NEW g, Known(f, g), NEW r \in Requests, Elsewhere(r),
           AssertNameAvailable(r) \/ RemoveContainer(r) \/ DeleteRelatedAppInstalls(r) \/ MatchRows(r)
           \/ PersistSource(r) \/ EraseRow(r)
    PROVE  Named'
  <1> PICK q : q = req[r]  OBVIOUS
  <1>1. q \in Request /\ RequestIs(q, f, g, created, dockerIds)
    BY Asking, KnownNow
  <1>2. RowsAre(rows, f, g, created, dockerIds)
    BY KnownNow
  <1>3. CASE AssertNameAvailable(r)
    BY <1>2, <1>3, GoNames, IdleNow, NamedAlike DEF AssertNameAvailable, Pcs
  <1>4. CASE RemoveContainer(r)
    <2>1. \A n \in Names : host'[n] = Absent \/ host'[n].id = host[n].id
      <3>1. \A n \in Holding(q.id) : ActsUnseen("rm", n) =>
                \A m \in Names : host'[m] = Absent \/ host'[m].id = host[m].id
        BY ActedOn DEF Base, Holding
      <3> QED BY <1>4, <3>1 DEF RemoveContainer
    <2> QED BY <1>2, <1>4, <2>1, GoNames, NamedAlike DEF RemoveContainer, Pcs
  <1>5. CASE DeleteRelatedAppInstalls(r)
    BY <1>2, <1>5, GoNames, NamedAlike DEF DeleteRelatedAppInstalls, Pcs
  <1>6. CASE MatchRows(r)
    <2> PICK p : p = [q EXCEPT !.pc = "persist", !.known = rows]  OBVIOUS
    <2>1. p.pc = "persist" /\ p.known = rows /\ p.name = q.name /\ p.row = q.row /\ p.id = q.id /\ p.ref = q.ref
      BY <1>1 DEF Request
    <2>2. RequestIs(p, f, g, created, dockerIds)
      BY <1>1, <1>2, <2>1, CarriedIs
    <2>3. Reply(r) \/ req'[r] = p
      BY <1>6 DEF MatchRows, Base, Asked
    <2> QED BY <1>2, <1>6, <2>2, <2>3, IdleNow, NamedAlike DEF MatchRows
  <1>7. CASE PersistSource(r)
    <2>1. \A x \in Row : [x EXCEPT !.source = "git"].name = x.name /\ [x EXCEPT !.source = "git"].id = x.id
      BY DEF Row
    <2>2. \A i \in RowIds : rows[i] \in Row \cup {None}
      BY DEF Base, Stored, RowMap
    <2>3. \A i \in RowIds : rows'[i] = rows[i] \/ (rows[i] # None /\ rows'[i] = [rows[i] EXCEPT !.source = "git"])
      BY <1>7 DEF PersistSource
    <2>4. RowsAre(rows', f, g, created, dockerIds)
      BY <2>1, <2>2, <2>3, RowsAlike
    <2> QED BY <1>7, <2>4, IdleNow, NamedAlike DEF PersistSource
  <1>8. CASE EraseRow(r)
    <2>1. \A i \in RowIds : rows'[i] = None \/ rows'[i] = rows[i]
      BY <1>8 DEF EraseRow, Base, Stored, RowMap
    <2>2. RowsAre(rows', f, g, created, dockerIds)
      BY <2>1, RowsAlike
    <2> QED BY <1>8, <2>2, IdleNow, NamedAlike DEF EraseRow
  <1> QED BY <1>3, <1>4, <1>5, <1>6, <1>7, <1>8

LEMMA RowNames ==
    ASSUME Base, Base', NEW f, NEW g, Known(f, g), NEW r \in Requests, Elsewhere(r),
           SettleDeployment(r) \/ CatchDeployment(r) \/ UpdateRow(r)
    PROVE  Named'
  <1> PICK q : q = req[r]  OBVIOUS
  <1>1. q \in Request /\ RequestIs(q, f, g, created, dockerIds) /\ q.row # 0
    BY Asking, KnownNow DEF SettleDeployment, CatchDeployment, UpdateRow, At, Carries
  <1>2. RowsAre(rows, f, g, created, dockerIds)
    BY KnownNow
  <1>3. ASSUME NEW st, NEW id \in {q.id, rows[q.row].id}, rows[q.row] # None,
               rows' = [rows EXCEPT ![q.row] = [rows[q.row] EXCEPT !.status = st, !.id = id]]
        PROVE  RowsAre(rows', f, g, created, dockerIds)
    <2>1. q.row \in RowIds /\ rows[q.row] \in Row
      BY <1>1, <1>3, AtRow
    <2>2. rows[q.row].name = q.name /\ IdIs(q.id, q.name, g, dockerIds)
      BY <1>1, <1>2, <1>3, <2>1 DEF RequestIs, RowsAre, RowIs
    <2>3. \A i \in RowIds : i # q.row => rows'[i] = rows[i]
      BY <1>3 DEF Base, Stored, RowMap
    <2>4. rows'[q.row].name = rows[q.row].name /\ rows'[q.row].id = id
      BY <1>3, <2>1 DEF Base, Stored, RowMap, Row
    <2>5. rows'[q.row].id # rows[q.row].id => IdIs(rows'[q.row].id, rows'[q.row].name, g, dockerIds)
      BY <2>2, <2>4
    <2> QED BY <1>3, <2>3, <2>4, <2>5, RowsAlike
  <1>4. UNCHANGED <<host, created, dockerIds>>
    BY DEF SettleDeployment, CatchDeployment, UpdateRow
  <1>5. RowsAre(rows', f, g, created, dockerIds)
    <2>1. CASE UNCHANGED rows
      BY <1>2, <2>1
    <2>2. CASE ~UNCHANGED rows /\ ~CatchDeployment(r)
      <3>1. /\ rows[q.row] # None
            /\ \E st : rows' = [rows EXCEPT ![q.row] = [rows[q.row] EXCEPT !.status = st, !.id = q.id]]
        BY <2>2 DEF SettleDeployment, UpdateRow
      <3> QED BY <1>3, <3>1
    <2>3. CASE ~UNCHANGED rows /\ CatchDeployment(r)
      <3>1. rows[q.row] # None /\ rows' = [rows EXCEPT ![q.row] = [rows[q.row] EXCEPT !.status = "ERROR"]]
        BY <2>3 DEF CatchDeployment
      <3>2. rows[q.row] \in Row
        BY <1>1, <3>1, AtRow
      <3>3. [rows[q.row] EXCEPT !.status = "ERROR"] = [rows[q.row] EXCEPT !.status = "ERROR", !.id = rows[q.row].id]
        BY <3>2 DEF Row
      <3> QED BY <1>3, <3>1, <3>3
    <2> QED BY <2>1, <2>2, <2>3
  <1>6. RequestIs(req'[r], f, g, created, dockerIds)
    <2>1. Reply(r) \/ Ends("rejection") => RequestIs(req'[r], f, g, created, dockerIds)
      BY IdleNow, IdleIs DEF Ends
    <2>2. Go(r, "catch") => RequestIs(req'[r], f, g, created, dockerIds)
      BY GoNames DEF Pcs
    <2>3. Sync(r, "done") => RequestIs(req'[r], f, g, created, dockerIds)
      <3> SUFFICES ASSUME Sync(r, "done") PROVE RequestIs(req'[r], f, g, created, dockerIds)
        OBVIOUS
      <3> PICK p : p = [q EXCEPT !.pc = "list", !.next = "done"]  OBVIOUS
      <3>1. p.pc = "list" /\ p.name = q.name /\ p.row = q.row /\ p.id = q.id /\ p.ref = q.ref
        BY <1>1 DEF Request
      <3>2. req'[r] = p
        BY DEF Sync, Base, Asked
      <3> QED BY <1>1, <3>1, <3>2, CarriedIs
    <2> QED BY <2>1, <2>2, <2>3 DEF SettleDeployment, CatchDeployment, UpdateRow
  <1> QED BY <1>4, <1>5, <1>6, NamedAlike

LEMMA ReferredName ==
    ASSUME Base, NEW f, NEW g, Known(f, g), NEW q \in Request, RequestIs(q, f, g, created, dockerIds)
    PROVE  /\ \A n \in Holding(q.id) \cup Holding(q.ref) \cup Target(q) \cup Referred(q) : n = q.name
           /\ Reference(q) \in {0, q.id}
  <1>1. \A id \in {q.id, q.ref} : \A n \in Holding(id) : n = q.name
    BY DEF Known, DockerIs, RequestIs, IdIs, Holding
  <1> QED BY <1>1 DEF Target, Referred, Reference

LEMMA ContainerNames ==
    ASSUME Base, Base', NEW f, NEW g, Known(f, g), NEW r \in Requests, Elsewhere(r),
           DockerAction(r) \/ Inspect(r) \/ RebuildStops(r) \/ RebuildRemoves(r)
    PROVE  Named'
  <1> PICK q : q = req[r]  OBVIOUS
  <1>1. q \in Request /\ RequestIs(q, f, g, created, dockerIds)
    BY Asking, KnownNow
  <1>2. RowsAre(rows, f, g, created, dockerIds)
    BY KnownNow
  <1>3. Reference(q) \in {0, q.id}
    BY <1>1, ReferredName
  <1>4. ASSUME NEW pc \in {"purge", "inspect", "clear"}, NEW ref \in {0, q.id},
               req' = [req EXCEPT ![r].pc = pc, ![r].ref = ref]
        PROVE  RequestIs(req'[r], f, g, created, dockerIds)
    <2> PICK p : p = [q EXCEPT !.pc = pc, !.ref = ref]  OBVIOUS
    <2>1. p.pc = pc /\ p.name = q.name /\ p.row = q.row /\ p.id = q.id /\ p.ref = ref
      BY <1>1 DEF Request
    <2>2. req'[r] = p
      BY <1>4 DEF Base, Asked
    <2>3. IdIs(p.ref, p.name, g, dockerIds) /\ p.pc \notin {"read", "write", "persist"}
      BY <1>1, <2>1 DEF RequestIs, IdIs
    <2> QED BY <1>1, <2>1, <2>2, <2>3 DEF RequestIs
  <1>11. ~Inspect(r) => q.name \in Names
    BY Asking DEF Carries, Listing, AppListing, At, DockerAction, RebuildStops, RebuildRemoves
  <1>5. ASSUME ~Inspect(r), NEW n \in Target(q) \cup Referred(q), NEW op, ActsUnseen(op, n)
        PROVE  \A m \in Names : host'[m] = Absent \/ host'[m].id = host[m].id
    <2>1. n \in Names
      BY <1>1, <1>5, <1>11, Holder
    <2> QED BY <1>5, <2>1, ActedOn DEF Base
  <1>10. \A op, n : Acts(op, n) => ActsUnseen(op, n)
    BY DEF ActsUnseen
  <1>12. DockerAction(r) \/ RebuildStops(r) \/ RebuildRemoves(r) => ~Inspect(r)
    BY DEF DockerAction, RebuildStops, RebuildRemoves, Inspect, At
  <1>6. CASE DockerAction(r)
    <2>1. \A m \in Names : host'[m] = Absent \/ host'[m].id = host[m].id
      BY <1>5, <1>6, <1>10, <1>12 DEF DockerAction
    <2>2. RequestIs(req'[r], f, g, created, dockerIds)
      BY <1>3, <1>4, <1>6, IdleNow DEF DockerAction
    <2> QED BY <1>2, <1>6, <2>1, <2>2, NamedAlike DEF DockerAction
  <1>7. CASE RebuildStops(r)
    <2>1. \A m \in Names : host'[m] = Absent \/ host'[m].id = host[m].id
      BY <1>5, <1>7, <1>10, <1>12 DEF RebuildStops
    <2>2. RequestIs(req'[r], f, g, created, dockerIds)
      BY <1>3, <1>4, <1>7, IdleNow, GoNames DEF RebuildStops, Pcs
    <2> QED BY <1>2, <1>7, <2>1, <2>2, NamedAlike DEF RebuildStops
  <1>8. CASE RebuildRemoves(r)
    <2>1. \A m \in Names : host'[m] = Absent \/ host'[m].id = host[m].id
      BY <1>5, <1>8, <1>10, <1>12 DEF RebuildRemoves
    <2>2. RequestIs(req'[r], f, g, created, dockerIds)
      BY <1>8, IdleNow, GoNames DEF RebuildRemoves, Pcs
    <2> QED BY <1>2, <1>8, <2>1, <2>2, NamedAlike DEF RebuildRemoves
  <1>9. CASE Inspect(r)
    <2>1. PICK found \in {Referred(q), {}} :
              req' = [req EXCEPT ![r].pc = "update", ![r].status = mapDockerInspectStatus(found),
                                 ![r].id = IF found = {} THEN @ ELSE host[CHOOSE n \in found : TRUE].id]
      BY <1>9 DEF Inspect
    <2> PICK id : id = IF found = {} THEN q.id ELSE host[CHOOSE n \in found : TRUE].id  OBVIOUS
    <2>2. IdIs(id, q.name, g, dockerIds)
      <3>1. CASE found = {}
        BY <1>1, <3>1 DEF RequestIs
      <3>2. CASE found # {}
        <4>1. found = Referred(q) /\ (CHOOSE n \in found : TRUE) = q.name
          BY <1>1, <3>2, ReferredName
        <4>2. q.name \in Names
          BY <1>9, Asking DEF Inspect, At, Carries, Listing, AppListing
        <4> QED BY <3>2, <4>1, <4>2, KnownNow DEF DockerIs
      <3> QED BY <3>1, <3>2
    <2> PICK p : p = [q EXCEPT !.pc = "update", !.status = mapDockerInspectStatus(found), !.id = id]  OBVIOUS
    <2>3. p.pc = "update" /\ p.name = q.name /\ p.row = q.row /\ p.id = id /\ p.ref = q.ref
      BY <1>1 DEF Request
    <2>6. Puts(r, p)
      BY ZenonT(60), <1>1, <2>1 DEF Puts, Base, Asked, Request
    <2>4. req'[r] = p
      BY <2>6 DEF Puts, Base, Asked
    <2>5. RequestIs(p, f, g, created, dockerIds)
      BY <1>1, <2>2, <2>3 DEF RequestIs
    <2> QED BY <1>2, <1>9, <2>4, <2>5, NamedAlike DEF Inspect
  <1> QED BY <1>6, <1>7, <1>8, <1>9

\* Docker gives a new container a number of its own.
LEMMA LaunchNames ==
    ASSUME Base, Base', NEW f, NEW g, Known(f, g), NEW r \in Requests, Elsewhere(r), DockerRun(r)
    PROVE  Named'
  <1> PICK q : q = req[r]  OBVIOUS
  <1>1. q \in Request /\ RequestIs(q, f, g, created, dockerIds) /\ q.name \in Names
    BY Asking, KnownNow DEF DockerRun, At, Carries, Listing, AppListing
  <1>2. RowsAre(rows, f, g, created, dockerIds) /\ DockerIs(host, g, dockerIds)
    BY KnownNow
  <1>3. UNCHANGED <<rows, created>>
    BY DEF DockerRun
  <1>4. CASE UNCHANGED <<host, dockerIds>>
    <2>1. Failed(r)
      BY <1>1, <1>4 DEF DockerRun, Launch, Base, Docked, DockerIds
    <2>2. RequestIs(req'[r], f, g, created, dockerIds)
      BY <2>1, GoNames, IdleNow DEF Failed, Pcs
    <2> QED BY <1>2, <1>3, <1>4, <2>2, NamedAlike
  <1>5. CASE ~UNCHANGED <<host, dockerIds>>
    <2>1. PICK state \in States : Launch(q.name, state)
      BY <1>5 DEF DockerRun, States
    <2>2. /\ dockerIds' = dockerIds + 1 /\ dockerIds + 1 \in DockerIds \ {0}
          /\ \A m \in Names : host'[m] = IF m = q.name THEN [id |-> dockerIds + 1, state |-> state] ELSE host[m]
      BY <1>1, <2>1, Launching DEF Base
    <2> PICK g2 : g2 = [id \in DockerIds |-> IF id = dockerIds + 1 THEN q.name ELSE g[id]]  OBVIOUS
    <2>3. dockerIds \in Nat /\ created \in Nat /\ MaxId \in Nat /\ dockerIds + 1 <= MaxId
      BY <2>2, InventoryAssumption DEF Base, Docked, Stored, RowNumbers, DockerIds
    <2>4. \A id \in 1..dockerIds : g2[id] = g[id]
      BY <2>3 DEF DockerIds
    <2>5. Extended(f, g, created, dockerIds, f, g2, created', dockerIds')
      BY <1>3, <2>2, <2>3, <2>4 DEF Extended
    <2>6. /\ DockerIs(host, g2, dockerIds') /\ RowsAre(rows, f, g2, created', dockerIds')
          /\ RequestIs(q, f, g2, created', dockerIds')
      BY <1>1, <1>2, <2>5, DockerStays, RowsStay, RequestStays DEF Base, Docked, Stored
    <2>7. IdIs(dockerIds + 1, q.name, g2, dockerIds')
      BY <2>2, <2>3 DEF IdIs
    <2>8. DockerIs(host', g2, dockerIds')
      BY <2>2, <2>6, <2>7 DEF DockerIs
    <2>9. ASSUME NEW pc \in Pcs, pc \notin {"read", "write", "persist"}, Go(r, pc)
          PROVE  RequestIs(req'[r], f, g2, created', dockerIds')
      <3> PICK p : p = [q EXCEPT !.pc = pc]  OBVIOUS
      <3>1. p.pc = pc /\ p.name = q.name /\ p.row = q.row /\ p.id = q.id /\ p.ref = q.ref
        BY <1>1, AtPc
      <3>2. req'[r] = p
        BY <2>9 DEF Go, Base, Asked
      <3> QED BY <2>6, <2>9, <3>1, <3>2 DEF RequestIs
    <2>10. RequestIs(req'[r], f, g2, created', dockerIds')
      <3>1. Failed(r) => RequestIs(req'[r], f, g2, created', dockerIds')
        BY <2>9, IdleIs DEF Failed, Reply, Pcs, Base, Asked
      <3>2. Deployed(r) => RequestIs(req'[r], f, g2, created', dockerIds')
        <4> SUFFICES ASSUME Deployed(r) PROVE RequestIs(req'[r], f, g2, created', dockerIds')
          OBVIOUS
        <4>1. CASE q.op = "image"
          <5> PICK p : p = [q EXCEPT !.pc = "settle", !.id = dockerIds + 1]  OBVIOUS
          <5>1. p.pc = "settle" /\ p.name = q.name /\ p.row = q.row /\ p.id = dockerIds + 1 /\ p.ref = q.ref
            BY <1>1 DEF Request
          <5>2. req'[r] = p
            BY <4>1 DEF Deployed, Base, Asked
          <5> QED BY <2>6, <2>7, <5>1, <5>2 DEF RequestIs
        <4>2. CASE q.op # "image"
          <5> PICK p : p = [q EXCEPT !.pc = "list", !.next = "match"]  OBVIOUS
          <5>1. p.pc = "list" /\ p.name = q.name /\ p.row = q.row /\ p.id = q.id /\ p.ref = q.ref
            BY <1>1 DEF Request
          <5>2. req'[r] = p
            BY <4>2 DEF Deployed, Sync, Base, Asked
          <5> QED BY <2>6, <5>1, <5>2 DEF RequestIs
        <4> QED BY <4>1, <4>2
      <3> QED BY <3>1, <3>2 DEF DockerRun
    <2> QED BY <1>3, <2>5, <2>6, <2>8, <2>10, NamedAfter
  <1> QED BY <1>4, <1>5

LEMMA CreateNames ==
    ASSUME Base, Base', NEW f, NEW g, Known(f, g), NEW r \in Requests, Elsewhere(r), CreateRow(r)
    PROVE  Named'
  <1> PICK q : q = req[r]  OBVIOUS
  <1>1. q \in Request /\ RequestIs(q, f, g, created, dockerIds) /\ q.name \in Names
    BY Asking, KnownNow DEF CreateRow, At, Carries, Listing, AppListing
  <1>2. RowsAre(rows, f, g, created, dockerIds) /\ DockerIs(host, g, dockerIds)
    BY KnownNow
  <1>3. created' = created + 1 /\ UNCHANGED <<host, dockerIds>> /\ created + 1 \in RowIds
        /\ created \in Nat /\ dockerIds \in Nat /\ MaxRow \in Nat
    BY InventoryAssumption DEF CreateRow, Base, Docked, Stored, RowNumbers, DockerIds, RowIds
  <1> PICK f2 : f2 = [i \in RowIds |-> IF i = created + 1 THEN q.name ELSE f[i]]  OBVIOUS
  <1>4. \A i \in 1..created : f2[i] = f[i]
    BY <1>3 DEF RowIds
  <1>5. Extended(f, g, created, dockerIds, f2, g, created', dockerIds')
    BY <1>3, <1>4 DEF Extended
  <1>6. /\ DockerIs(host', g, dockerIds') /\ RowsAre(rows, f2, g, created', dockerIds')
        /\ RequestIs(q, f2, g, created', dockerIds')
    BY <1>1, <1>2, <1>3, <1>5, DockerStays, RowsStay, RequestStays DEF Base, Docked, Stored
  <1>7. RowsAre(rows', f2, g, created', dockerIds')
    <2>1. \A i \in RowIds : i # created + 1 => rows'[i] = rows[i]
      BY DEF CreateRow, Base, Stored, RowMap
    <2>2. rows'[created + 1] = [name |-> q.name, id |-> 0, status |-> "STARTING", source |-> "plain"]
      BY <1>3 DEF CreateRow, Base, Stored, RowMap
    <2>3. RowIs(created + 1, rows'[created + 1], f2, g, created', dockerIds')
      BY <1>3, <2>2 DEF RowIs, IdIs
    <2> QED BY <1>6, <2>1, <2>3 DEF RowsAre
  <1>8. RequestIs(req'[r], f2, g, created', dockerIds')
    <2> PICK p : p = [q EXCEPT !.pc = "run", !.row = created + 1]  OBVIOUS
    <2>1. p.pc = "run" /\ p.name = q.name /\ p.row = created + 1 /\ p.id = q.id /\ p.ref = q.ref
      BY <1>1 DEF Request
    <2>2. req'[r] = p
      BY DEF CreateRow, Base, Asked
    <2>3. f2[created + 1] = q.name
      BY <1>3
    <2> QED BY <1>3, <1>6, <2>1, <2>2, <2>3 DEF RequestIs
  <1> QED BY <1>5, <1>6, <1>7, <1>8, NamedAfter

\* A sync numbers the containers it does not know by their ids.
LEMMA NewRowsDiffer ==
    ASSUME Base, NEW q \in Request, NEW g, NEW d, DockerIs(q.seen, g, d),
           NEW n \in Unknown(q), NEW m \in Unknown(q), NewRow(q, n) = NewRow(q, m)
    PROVE  n = m
  <1> DEFINE S(x) == {y \in Unknown(q) : q.seen[y].id <= q.seen[x].id}
  <1>1. IsFiniteSet(Unknown(q)) /\ Unknown(q) \subseteq Names
    BY Numbering
  <1>2. \A x : IsFiniteSet(S(x)) /\ Cardinality(S(x)) \in Nat
    BY <1>1, FS_Subset, FS_CardinalityType
  <1>3. \A x \in Unknown(q) : q.seen[x].id \in Nat /\ q.seen[x].id # 0 /\ q.seen[x] # Absent
    BY <1>1 DEF Unknown, Listed, Request, Docker, DockerIs
  <1>4. Cardinality(S(n)) = Cardinality(S(m))
    <2>1. NewRow(q, n) = created + Cardinality(S(n)) /\ NewRow(q, m) = created + Cardinality(S(m))
      BY DEF NewRow
    <2>2. \A a, b, k \in Nat : k + a = k + b => a = b
      OBVIOUS
    <2>3. Cardinality(S(n)) \in Nat /\ Cardinality(S(m)) \in Nat /\ created \in Nat
      BY <1>2, CreatedIsNumber
    <2>4. created + Cardinality(S(n)) = created + Cardinality(S(m))
      BY <2>1
    <2> HIDE DEF S
    <2> QED BY <2>2, <2>3, <2>4
  <1>5. S(n) \subseteq S(m) \/ S(m) \subseteq S(n)
    BY <1>3
  <1>6. S(n) = S(m)
    <2> HIDE DEF S
    <2> QED BY <1>2, <1>4, <1>5, FS_Subset
  <1>7. n \in S(m) /\ m \in S(n)
    <2>1. n \in S(n) /\ m \in S(m)
      BY <1>3
    <2> QED BY <1>6, <2>1
  <1>8. q.seen[n].id = q.seen[m].id
    BY <1>3, <1>7
  <1> QED BY <1>1, <1>3, <1>8 DEF DockerIs, IdIs

\* The row a sync keeps for a container is known by its id or its name.
LEMMA ExistingName ==
    ASSUME NEW q \in Request, NEW f, NEW g, NEW c, NEW d, DockerIs(q.seen, g, d), RowsAre(q.known, f, g, c, d),
           NEW n \in Listed(q), ExistingRow(q, n) # 0
    PROVE  /\ ExistingRow(q, n) \in RowIds /\ q.known[ExistingRow(q, n)] # None
           /\ q.known[ExistingRow(q, n)].name = n
           /\ ExistingRow(q, n) <= c /\ f[ExistingRow(q, n)] = n
  <1> PICK i : i = ExistingRow(q, n)  OBVIOUS
  <1>1. n \in Names /\ q.seen[n].id # 0
    BY DEF Listed, DockerIs
  <1>2. i \in KnownById(q, n) \cup KnownByName(q, n)
    BY <1>1, Existing
  <1>3. i \in RowIds /\ q.known[i] # None
    BY <1>2 DEF KnownById, KnownByName
  <1>4. i <= c /\ q.known[i].name = f[i] /\ IdIs(q.known[i].id, q.known[i].name, g, d)
    BY <1>3 DEF RowsAre, RowIs
  <1>5. q.known[i].id = q.seen[n].id => q.known[i].name = n
    BY <1>1, <1>4 DEF IdIs, DockerIs
  <1> QED BY <1>2, <1>3, <1>4, <1>5 DEF KnownById, KnownByName

LEMMA WriteNames ==
    ASSUME Base, Base', NEW f, NEW g, Known(f, g), NEW r \in Requests, Elsewhere(r), WriteRows(r)
    PROVE  Named'
  <1> PICK q : q = req[r]  OBVIOUS
  <1>1. /\ q \in Request /\ RequestIs(q, f, g, created, dockerIds) /\ q.pc = "write"
        /\ DockerIs(q.seen, g, dockerIds) /\ RowsAre(q.known, f, g, created, dockerIds)
    BY Asking, KnownNow DEF WriteRows, At, RequestIs
  <1>2. RowsAre(rows, f, g, created, dockerIds) /\ DockerIs(host, g, dockerIds) /\ UNCHANGED <<host, dockerIds>>
    BY KnownNow DEF WriteRows
  <1> DEFINE lost == \E n \in Listed(q) : ExistingRow(q, n) # 0 /\ rows[ExistingRow(q, n)] = None
  <1>3. CASE lost
    <2>1. UNCHANGED <<rows, created>> /\ Reply(r)
      BY <1>3 DEF WriteRows
    <2> QED BY <1>2, <2>1, IdleNow, NamedAlike
  <1>4. CASE ~lost
    <2>1. rows' = Synchronised(q) /\ created' = created + Cardinality(Unknown(q)) /\ created' <= MaxRow
      BY <1>4 DEF WriteRows
    <2> PICK f2 : f2 = [i \in RowIds |-> IF i <= created THEN f[i]
                                        ELSE CHOOSE n \in Unknown(q) : NewRow(q, n) = i]
      OBVIOUS
    <2>2. /\ created \in Nat /\ dockerIds \in Nat /\ created' \in Nat /\ created <= created' /\ created <= MaxRow
          /\ MaxRow \in Nat
      BY <1>1, <2>1, Numbering, CreatedIsNumber, InventoryAssumption DEF Base, Docked, DockerIds, Stored, RowNumbers
    <2>3. \A i \in 1..created : f2[i] = f[i]
      BY <2>2 DEF RowIds
    <2>4. Extended(f, g, created, dockerIds, f2, g, created', dockerIds')
      BY <1>2, <2>2, <2>3 DEF Extended
    <2>5. DockerIs(host', g, dockerIds') /\ RequestIs(q, f2, g, created', dockerIds')
      BY <1>1, <1>2, <2>4, DockerStays, RequestStays DEF Base, Docked
    <2>6. ASSUME NEW i \in RowIds, rows'[i] # None
          PROVE  RowIs(i, rows'[i], f2, g, created', dockerIds')
      <3>1. PICK n \in Listed(q) : RowOf(q, n) = i /\ rows'[i].name = n /\ rows'[i].id = q.seen[n].id
        <4> DEFINE n == CHOOSE m \in Listed(q) : RowOf(q, m) = i
        <4>1. \E m \in Listed(q) : RowOf(q, m) = i
          BY <2>1, <2>6 DEF Synchronised
        <4>2. n \in Listed(q) /\ RowOf(q, n) = i
          BY <4>1
        <4>3. rows'[i] = [name |-> n, id |-> q.seen[n].id, status |-> mapDockerStatus(q.seen[n]),
                          source |-> IF rows[i] = None THEN "plain" ELSE rows[i].source]
          BY <2>1, <4>1 DEF Synchronised
        <4> HIDE DEF n
        <4> QED BY <4>2, <4>3
      <3>2. IdIs(q.seen[n].id, n, g, dockerIds')
        BY <1>1, <1>2 DEF Listed, DockerIs
      <3>3. i <= created' /\ f2[i] = n
        <4>1. CASE ExistingRow(q, n) # 0
          <5>1. i = ExistingRow(q, n)
            BY <3>1, <4>1 DEF RowOf
          <5>2. i <= created /\ f[i] = n
            BY <1>1, <4>1, <5>1, ExistingName
          <5> QED BY <2>2, <5>2 DEF RowIds
        <4>2. CASE ExistingRow(q, n) = 0
          <5>1. n \in Unknown(q) /\ NewRow(q, n) = i
            BY <3>1, <4>2 DEF RowOf, Unknown
          <5>2. i > created /\ i <= created' /\ i \in Nat
            BY <1>1, <2>1, <5>1, Numbering
          <5>3. f2[i] = CHOOSE m \in Unknown(q) : NewRow(q, m) = i
            BY <2>2, <5>2
          <5>4. (CHOOSE m \in Unknown(q) : NewRow(q, m) = i) = n
            BY <1>1, <5>1, NewRowsDiffer
          <5> QED BY <5>2, <5>3, <5>4
        <4> QED BY <4>1, <4>2
      <3> QED BY <3>1, <3>2, <3>3 DEF RowIs
    <2>7. RowsAre(rows', f2, g, created', dockerIds')
      BY <2>6 DEF RowsAre, RowIs
    <2>8. RequestIs(req'[r], f2, g, created', dockerIds')
      <3>1. CASE q.next = "done"
        BY <1>4, <3>1, IdleIs DEF WriteRows, Reply, Base, Asked
      <3>2. CASE q.next # "done"
        <4> PICK p : p = [Idle EXCEPT !.op = q.op, !.name = q.name, !.row = q.row, !.bg = q.bg, !.pc = q.next]
          OBVIOUS
        <4>1. Idle \in Request /\ Idle.id = 0 /\ Idle.ref = 0
          BY IdleIsFormed DEF Formed, Idle
        <4>2. q.next \in {"check", "match"}
          BY <1>1, <3>2, Asking DEF Carries, Listing
        <4> HIDE DEF Idle
        <4>3. p.pc = q.next /\ p.name = q.name /\ p.row = q.row /\ p.id = 0 /\ p.ref = 0
          BY <4>1 DEF Request
        <4>4. req'[r] = p
          BY <1>4, <3>2 DEF WriteRows, Base, Asked
        <4> QED BY <2>5, <4>2, <4>3, <4>4 DEF RequestIs, IdIs
      <3> QED BY <3>1, <3>2
    <2> QED BY <2>4, <2>5, <2>7, <2>8, NamedAfter
  <1> QED BY <1>3, <1>4

LEMMA BegunNames ==
    ASSUME Base, Base', NEW f, NEW g, Known(f, g), NEW r \in Requests, Arrives(r)
    PROVE  Named'
  <1>1. \A q : Begin(r, q) /\ RequestIs(q, f, g, created, dockerIds) => Named'
    BY NamedAlike, KnownNow DEF Begin, Base, Asked, Elsewhere
  <1>2. \A op, pc : \A i \in Rows : pc \notin {"read", "write", "persist"} =>
            RequestIs(OnRow(op, pc, i), f, g, created, dockerIds)
    <2> TAKE op, pc
    <2> TAKE i \in Rows
    <2> HAVE pc \notin {"read", "write", "persist"}
    <2> HIDE DEF Missing
    <2>1. /\ OnRow(op, pc, i).row = i /\ OnRow(op, pc, i).name = rows[i].name /\ OnRow(op, pc, i).id = rows[i].id
          /\ OnRow(op, pc, i).pc = pc /\ OnRow(op, pc, i).ref = 0
      BY DEF OnRow, Idle
    <2>2. i <= created /\ rows[i].name = f[i] /\ IdIs(rows[i].id, rows[i].name, g, dockerIds)
      BY KnownNow DEF Known, RowsAre, RowIs, Rows
    <2> QED BY <2>1, <2>2 DEF RequestIs, IdIs
  <1>3. RequestIs([Idle EXCEPT !.op = "sync", !.pc = "list", !.next = "done"], f, g, created, dockerIds)
    <2> HIDE DEF Missing
    <2> QED BY DEF RequestIs, Idle, IdIs
  <1>4. \A n, op, bg : RequestIs([Idle EXCEPT !.op = op, !.name = n, !.bg = bg, !.pc = "list", !.next = "check"],
                                f, g, created, dockerIds)
    <2> HIDE DEF Missing
    <2> QED BY DEF RequestIs, Idle, IdIs
  <1>5. BeginSync(r) => Named'
    BY <1>1, <1>3 DEF BeginSync
  <1>6. \A n, op, bg : BeginDeploy(r, n, op, bg) => Named'
    BY <1>1, <1>4 DEF BeginDeploy
  <1>7. \A i \in Rows : /\ \A action : BeginAction(r, i, action) => Named'
                        /\ BeginRebuild(r, i) => Named'
                        /\ BeginDelete(r, i) => Named'
    BY <1>1, <1>2 DEF BeginAction, BeginRebuild, BeginDelete
  <1> QED BY <1>5, <1>6, <1>7 DEF Arrives

-----------------------------------------------------------------------------
(* Names stay, and with them the sources. *)
LEMMA NamedStep ==
    ASSUME ContainersTyped, Named, NEW r \in Requests, Step(r)
    PROVE  Named'
  <1> PICK f, g : Known(f, g)
    BY DEF Named
  <1>1. Base /\ Base' /\ Elsewhere(r)
    BY StepBase DEF ContainersTyped, KeptBy, Kept
  <1> QED BY <1>1, SyncNames, PlainNames, RowNames, ContainerNames, LaunchNames, CreateNames, WriteNames DEF Step

LEMMA NamedNext ==
    ASSUME ContainersTyped, Named, [Next]_vars
    PROVE  ContainersTyped' /\ Named'
  <1>1. ContainersTyped'
    BY NextBase
  <1>2. Base /\ Base'
    BY <1>1 DEF ContainersTyped
  <1> PICK f, g : Known(f, g)
    BY DEF Named
  <1>3. \A r \in Requests : Arrives(r) => Named'
    BY <1>2, BegunNames
  <1>4. ASSUME NEW n \in Names, ContainerChanges(n)
        PROVE  Named'
    <2>1. \A m \in Names : host'[m].id = host[m].id
      BY <1>2, <1>4 DEF ContainerChanges, Switched, Base, Docked, Docker
    <2>2. \A m \in Names : host'[m].id = 0 => host'[m] = Absent
      BY <1>2 DEF Base, Docked, Distinct
    <2>3. DockerIs(host', g, dockerIds)
      BY <2>1, <2>2 DEF Known, DockerIs
    <2> QED BY <1>4, <2>3 DEF ContainerChanges, Named, Known
  <1>5. PanelRestarts => Named'
    BY IdleIs DEF PanelRestarts, Ends, Named, Known
  <1>6. UNCHANGED vars => Named'
    BY DEF vars, Named, Known
  <1> QED BY <1>1, <1>3, <1>4, <1>5, <1>6, NamedStep DEF Next

LEMMA NamedInit == Init => ContainersTyped /\ Named
  <1> SUFFICES ASSUME Init PROVE ContainersTyped /\ Named
    OBVIOUS
  <1>1. ContainersTyped
    BY InitBase, IdleIsFormed DEF ContainersTyped, Limited, Init
  <1> PICK numbered \in {f \in [Names -> 0..Cardinality(Names)] :
                          \A n, m \in Names : f[n] # 0 /\ f[n] = f[m] => n = m},
         origin \in [Names -> {"plain", "git", "app"}] :
      LET used == {n \in Names : numbered[n] # 0}
      IN  /\ {numbered[n] : n \in used} = 1..Cardinality(used)
          /\ host = [n \in Names |-> IF n \in used THEN [id |-> numbered[n], state |-> "running"]
                                                   ELSE Absent]
          /\ rows = [i \in RowIds |->
                IF i > Cardinality(used) THEN None
                ELSE LET n == CHOOSE m \in Names : numbered[m] = i
                     IN  [name |-> n, id |-> i, status |-> "RUNNING", source |-> origin[n]]]
          /\ dockerIds = Cardinality(used) /\ created = Cardinality(used)
    BY ZenonT(60) DEF Init
  <1> DEFINE used == {n \in Names : numbered[n] # 0}
  <1> DEFINE c == Cardinality(used)
  <1> PICK k : k = [i \in 1..c |-> CHOOSE m \in Names : numbered[m] = i]  OBVIOUS
  <1>2. c \in Nat /\ dockerIds = c /\ created = c
    BY InventoryAssumption, FS_Subset, FS_CardinalityType
  <1>3. \A i \in 1..c : k[i] \in Names /\ numbered[k[i]] = i
    OBVIOUS
  <1>4. \A n \in used : numbered[n] \in 1..c /\ numbered[n] # 0
    OBVIOUS
  <1>5. \A n \in used : k[numbered[n]] = n
    BY <1>3, <1>4
  <1>6. DockerIs(host, k, dockerIds)
    <2>1. \A n \in Names : host[n] = IF n \in used THEN [id |-> numbered[n], state |-> "running"] ELSE Absent
      OBVIOUS
    <2> HIDE DEF c
    <2> QED BY <1>2, <1>4, <1>5, <2>1 DEF DockerIs, IdIs, Absent
  <1>7. RowsAre(rows, k, k, created, dockerIds)
    <2>1. \A i \in RowIds : IF i <= c THEN rows[i].name = k[i] /\ rows[i].id = i ELSE rows[i] = None
      BY <1>2 DEF RowIds
    <2> HIDE DEF c
    <2> QED BY ZenonT(60), <1>2, <2>1 DEF RowsAre, RowIs, IdIs
  <1>8. \A r \in Requests : RequestIs(req[r], k, k, created, dockerIds)
    BY IdleIs DEF Init
  <1> QED BY <1>1, <1>6, <1>7, <1>8 DEF Named, Known

LEMMA NamesStay == Spec => [](ContainersTyped /\ Named)
  <1>1. Init => ContainersTyped /\ Named
    BY NamedInit
  <1>2. ContainersTyped /\ Named /\ [Next]_vars => (ContainersTyped /\ Named)'
    BY NamedNext
  <1> QED BY <1>1, <1>2, PTL DEF Spec

\* A sync that has seen a container and its only row keeps what this row says of its source.
LEMMA SyncKeepsSource ==
    ASSUME Base, NEW f, NEW g, Known(f, g), NEW r \in Requests, WriteRows(r),
           NEW n \in Names, NEW i \in RowsNamed(n), rows[i].source = "git", SeenAlone(req[r], n)
    PROVE  i \in RowsNamed(n)' /\ rows'[i].source = "git"
  <1> PICK q : q = req[r]  OBVIOUS
  <1>1. /\ q \in Request /\ q.pc = "write"
        /\ DockerIs(q.seen, g, dockerIds) /\ RowsAre(q.known, f, g, created, dockerIds)
    BY Asking, KnownNow DEF WriteRows, At, RequestIs
  <1>2. n \in Listed(q) /\ KnownByName(q, n) = RowsNamed(n) /\ Cardinality(RowsNamed(n)) = 1
    BY DEF SeenAlone
  <1>3. RowsNamed(n) = {i}
    <2>1. IsFiniteSet(RowsNamed(n))
      <3>1. IsFiniteSet(RowIds)
        BY InventoryAssumption, FS_Interval DEF RowIds
      <3> QED BY <3>1, FS_Subset DEF RowsNamed, Rows
    <2> QED BY <1>2, <2>1, FS_Singleton
  <1>4. i \in RowIds /\ rows[i] # None /\ rows[i].name = n /\ q.known[i] # None /\ q.known[i].name = n
    BY <1>2, <1>3 DEF RowsNamed, Rows, KnownByName
  <1>5. i <= created
    BY <1>4 DEF Base, Stored
  <1>6. ExistingRow(q, n) = i
    <2>1. ExistingRow(q, n) # 0
      <3>1. \A j \in KnownById(q, n) \cup KnownByName(q, n) : j # 0
        BY DEF KnownById, KnownByName, RowIds
      <3> QED BY <1>1, <1>2, <1>3, <3>1, Existing DEF Listed
    <2>2. ExistingRow(q, n) \in RowIds /\ q.known[ExistingRow(q, n)] # None /\ q.known[ExistingRow(q, n)].name = n
      BY <1>1, <1>2, <2>1, ExistingName
    <2>3. ExistingRow(q, n) \in KnownByName(q, n)
      BY <2>2 DEF KnownByName
    <2> QED BY <1>2, <1>3, <2>3
  <1>7. ~UNCHANGED rows => rows' = Synchronised(q)
    BY DEF WriteRows
  <1>8. CASE UNCHANGED rows
    BY <1>4, <1>8 DEF RowsNamed, Rows
  <1>9. CASE rows' = Synchronised(q)
    <2>1. i # 0
      BY <1>4 DEF RowIds
    <2>2. RowOf(q, n) = i
      BY <1>6, <2>1 DEF RowOf
    <2>3. \A m \in Listed(q) : RowOf(q, m) = i => m = n
      <3> TAKE m \in Listed(q)
      <3> HAVE RowOf(q, m) = i
      <3>1. CASE ExistingRow(q, m) # 0
        BY <1>1, <1>4, <3>1, ExistingName DEF RowOf
      <3>2. CASE ExistingRow(q, m) = 0
        <4>1. m \in Unknown(q) /\ NewRow(q, m) = i
          BY <3>2 DEF RowOf, Unknown
        <4>2. i > created /\ i \in Nat
          BY <1>1, <4>1, Numbering
        <4> QED BY <1>5, <4>2, CreatedIsNumber
      <3> QED BY <3>1, <3>2
    <2>4. (CHOOSE m \in Listed(q) : RowOf(q, m) = i) = n
      BY <1>2, <2>2, <2>3
    <2>5. Synchronised(q)[i] = [name |-> n, id |-> q.seen[n].id, status |-> mapDockerStatus(q.seen[n]),
                                source |-> rows[i].source]
      BY <1>2, <1>4, <2>2, <2>4 DEF Synchronised
    <2>6. rows'[i].name = n /\ rows'[i].source = "git"
      BY <1>9, <2>5
    <2>7. rows'[i] # None
      <3>1. q.seen[n].id \in 0..MaxId /\ mapDockerStatus(q.seen[n]) \in Statuses
        BY <1>1 DEF Request, Docker, mapDockerStatus, Statuses
      <3>2. Synchronised(q)[i] \in Row
        BY <2>5, <3>1 DEF Row
      <3> QED BY <1>9, <3>2, NoneIsNoRow
    <2> QED BY <1>4, <2>6, <2>7 DEF RowsNamed, Rows
  <1> QED BY <1>7, <1>8, <1>9

LEMMA SourceKeptNext ==
    ASSUME ContainersTyped, Named, Next, NEW n \in Deployments
    PROVE  n \in Deployments' \/
               \E r \in Requests : \/ At(r, "erase") /\ req[r].name = n
                                   \/ At(r, "write") /\ ~SeenAlone(req[r], n)
  <1> PICK i \in RowsNamed(n) : rows[i].source = "git" /\ n \in Names
    BY DEF Deployments
  <1> DEFINE Stays == i \in RowsNamed(n)' /\ rows'[i].source = "git"
  <1>1. i \in RowIds /\ rows[i] # None /\ rows[i].name = n /\ rows[i] \in Row /\ Base
    BY DEF RowsNamed, Rows, ContainersTyped, Base, Stored, RowMap
  <1>2. Stays => n \in Deployments'
    BY DEF Deployments
  <1>3. rows'[i] # None /\ rows'[i].name = n /\ rows'[i].source = "git" => Stays
    BY <1>1 DEF RowsNamed, Rows
  <1>4. UNCHANGED rows => Stays
    BY <1>1, <1>3
  <1> PICK f, g : Known(f, g)
    BY DEF Named
  <1>5. ASSUME NEW r \in Requests, Step(r), ~UNCHANGED rows
        PROVE  Stays \/ (At(r, "erase") /\ req[r].name = n) \/ (At(r, "write") /\ ~SeenAlone(req[r], n))
    <2> PICK q : q = req[r]  OBVIOUS
    <2>0. q \in Request /\ Carries(q)
      BY <1>1, Asking
    <2>1. CASE WriteRows(r)
      BY <1>1, <2>1, SyncKeepsSource DEF WriteRows
    <2>2. CASE CreateRow(r)
      <3>1. i # created + 1
        BY <1>1, CreatedIsNumber DEF Base, Stored, RowIds
      <3>2. rows'[i] = rows[i]
        BY <1>1, <2>2, <3>1 DEF CreateRow, Base, Stored, RowMap
      <3> QED BY <1>1, <1>3, <3>2
    <2>3. CASE SettleDeployment(r) \/ UpdateRow(r)
      <3>2. PICK st, id : rows' = [rows EXCEPT ![q.row].status = st, ![q.row].id = id]
        BY <1>5, <2>3 DEF SettleDeployment, UpdateRow
      <3>3. rows'[i].name = n /\ rows'[i].source = "git"
        BY <1>1, <3>2 DEF Base, Stored, RowMap, Row
      <3>4. rows'[i] # None
        <4>1. CASE i = q.row
          <5>1. rows[q.row] # None
            BY <1>1, <4>1
          <5>2. q.status \in Statuses \/ SettleDeployment(r)
            BY <2>0, <2>3 DEF UpdateRow, At, Carries, Statuses
          <5>3. q.id \in DockerIds
            BY <2>0 DEF Request
          <5>4. \E x \in Row : rows' = [rows EXCEPT ![q.row] = x]
            <6>1. q.row # 0
              BY <2>0, <2>3 DEF SettleDeployment, UpdateRow, At, Carries
            <6>2. SettleDeployment(r) => rows' = [rows EXCEPT ![q.row] = [rows[q.row] EXCEPT !.status = "RUNNING", !.id = q.id]]
              BY <5>1 DEF SettleDeployment
            <6>3. UpdateRow(r) => rows' = [rows EXCEPT ![q.row] = [rows[q.row] EXCEPT !.status = q.status, !.id = q.id]]
              BY <5>1 DEF UpdateRow
            <6> QED BY <1>1, <2>0, <2>3, <5>1, <5>2, <5>3, <6>1, <6>2, <6>3, AtRow DEF Statuses
          <5> QED BY <1>1, <4>1, <5>4, NoneIsNoRow DEF Base, Stored, RowMap
        <4>2. CASE i # q.row
          BY <1>1, <3>2, <4>2 DEF Base, Stored, RowMap
        <4> QED BY <4>1, <4>2
      <3> QED BY <1>3, <3>3, <3>4
    <2>4. CASE CatchDeployment(r)
      <3>1. rows' = [rows EXCEPT ![q.row] = [rows[q.row] EXCEPT !.status = "ERROR"]] /\ rows[q.row] # None /\ q.row # 0
        BY <1>5, <2>0, <2>4 DEF CatchDeployment, At, Carries
      <3>2. [rows[q.row] EXCEPT !.status = "ERROR"] \in Row /\ rows[q.row] \in Row
        <4>1. 0 \in DockerIds /\ "ERROR" \in Statuses
          BY InventoryAssumption DEF DockerIds, Statuses
        <4> QED BY <1>1, <2>0, <3>1, <4>1, AtRow
      <3>3. rows'[i] # None
        BY <1>1, <3>1, <3>2, NoneIsNoRow DEF Base, Stored, RowMap
      <3>4. rows'[i].name = n /\ rows'[i].source = "git"
        BY <1>1, <3>1, <3>2 DEF Base, Stored, RowMap, Row
      <3> QED BY <1>3, <3>3, <3>4
    <2>5. CASE PersistSource(r)
      <3>1. rows'[i] = rows[i] \/ rows'[i] = [rows[i] EXCEPT !.source = "git"]
        BY <1>1, <2>5 DEF PersistSource
      <3>2. [rows[i] EXCEPT !.source = "git"] = rows[i]
        BY <1>1 DEF Row
      <3> QED BY <1>1, <1>3, <3>1, <3>2
    <2>6. CASE EraseRow(r)
      <3>1. CASE i = q.row
        <4>1. i # 0
          BY <1>1 DEF RowIds
        <4>2. q.name = f[i] /\ rows[i].name = f[i]
          BY <1>1, <3>1, <4>1 DEF Known, RequestIs, RowsAre, RowIs
        <4> QED BY <1>1, <2>6, <4>2 DEF EraseRow
      <3>2. CASE i # q.row
        <4>1. rows'[i] = rows[i]
          BY <1>1, <2>6, <3>2 DEF EraseRow, Base, Stored, RowMap
        <4> QED BY <1>1, <1>3, <4>1
      <3> QED BY <3>1, <3>2
    <2> QED BY <1>5, <2>1, <2>2, <2>3, <2>4, <2>5, <2>6 DEF Step, ListContainers, ReadRows,
          AssertNameAvailable, DockerRun, MatchRows, DockerAction, Inspect, RemoveContainer,
          DeleteRelatedAppInstalls, RebuildStops, RebuildRemoves
  <1>6. \A r \in Requests : Arrives(r) => UNCHANGED rows
    BY <1>1, BegunDeploysNot
  <1>7. (\E m \in Names : ContainerChanges(m)) \/ PanelRestarts => UNCHANGED rows
    BY DEF ContainerChanges, PanelRestarts
  <1> QED BY <1>2, <1>4, <1>5, <1>6, <1>7 DEF Next

\* The source of a deployment, which no sync can restore, is lost only with the removal of its
\* row, or to a sync that had not seen its container or had not read its only row: the sync
\* that ends a rebuild keeps it (routes/containers.ts syncContainersForServers).
THEOREM SourceIsKept == Spec => SourceKept
  <1>1. ContainersTyped /\ Named /\ [Next]_vars =>
            [\A n \in Deployments : n \in Deployments' \/
               \E r \in Requests : \/ At(r, "erase") /\ req[r].name = n
                                   \/ At(r, "write") /\ ~SeenAlone(req[r], n)]_vars
    BY SourceKeptNext
  <1> QED BY <1>1, NamesStay, PTL DEF Spec, SourceKept

-----------------------------------------------------------------------------
(* The order in which a request leaves things. *)
(***************************************************************************)
(* Requests one after the other: what a request has left in step, and what *)
(* it knows, at each of its steps.                                         *)
(***************************************************************************)
\* The row of a name has the id of its container, and no row is missing but for a container
\* that a removal gave up.
InStep(n) ==
    /\ \A i, j \in RowsNamed(n) : i = j
    /\ \A i \in RowsNamed(n) : rows[i].id = host[n].id /\ host[n].id # 0
    /\ RowsNamed(n) = {} => host[n].id = 0 \/ host[n].id \in kept
AllInStep == \A n \in Names : InStep(n)

OnContainer == {"act", "inspect", "update", "remove", "halt", "clear"}
OwnName(q, n) ==
    /\ (q.pc \in Listing /\ q.next # "match") \/ q.pc \in {"check", "match", "persist"} \cup OnContainer => InStep(n)
    /\ q.pc = "check" => /\ \A i \in RowsNamed(n) : rows[i].status # "ERROR"
                         /\ RowsNamed(n) = {} => host[n].id = 0
    /\ q.pc = "create" => RowsNamed(n) = {} /\ host[n].id = 0
    /\ q.pc = "run" => /\ host[n].id = 0 /\ \A i \in RowsNamed(n) : i = q.row
                       /\ q.op = "image" => q.row \in RowsNamed(n)
    /\ q.pc = "settle" => RowsNamed(n) = {q.row} /\ q.id = host[n].id /\ q.id # 0
    /\ q.pc # "catch"
    /\ q.pc \in OnContainer => q.row \in RowsNamed(n) /\ q.id = host[n].id
    /\ q.pc \in {"inspect", "clear"} => q.ref = q.id
    /\ q.pc = "clear" => ~Up(host[n])
    /\ q.pc \in {"purge", "erase"} => /\ \A i \in RowsNamed(n) : i = q.row
                                      /\ host[n].id = 0 \/ host[n].id \in kept
    /\ q.pc \in {"read", "write"} => \A m \in Names : q.seen[m].state # "dead"
Compared(q) ==
    /\ q.pc \in {"read", "write"} => \A n \in Names : q.seen[n].id = host[n].id
    /\ q.pc \in {"write", "persist"} => q.known = rows
Progress(q) ==
    /\ \A n \in Names : IF n # q.name THEN InStep(n) ELSE OwnName(q, n)
    /\ Compared(q)
Ordered(r) == \A q \in {req[r]} : IF q.pc = "idle" THEN AllInStep ELSE Progress(q)
Orderly == Undisturbed => /\ AllIdle => AllInStep
                          /\ \A r \in Requests : InProgress(r) => Progress(req[r])
\* Only a removal that fails half way leaves a container dead.
Sound == faults = 0 => \A n \in Names : host[n].state # "dead"
Proceeding == ContainersTyped /\ Named /\ Sound

\* A step leaves the rows of a name and their ids alone.
SameRows(n) == RowsNamed(n)' = RowsNamed(n) /\ \A i \in RowsNamed(n) : rows'[i].id = rows[i].id
Alike(n) == SameRows(n) /\ host'[n].id = host[n].id

LEMMA StaysInStep ==
    ASSUME NEW n, Alike(n), kept \subseteq kept', InStep(n)
    PROVE  InStep(n)'
  BY DEF InStep, Alike, SameRows

LEMMA RowsUnchanged ==
    ASSUME UNCHANGED rows
    PROVE  \A n : SameRows(n)
  BY DEF SameRows, RowsNamed, Rows

LEMMA NothingMoves ==
    ASSUME UNCHANGED <<host, rows>>
    PROVE  \A n : Alike(n)
  BY RowsUnchanged DEF Alike

LEMMA OneRowChanges ==
    ASSUME NEW i \in RowIds, NEW m, \A j \in RowIds : j # i => rows'[j] = rows[j],
           rows[i] # None => rows[i].name = m, rows'[i] # None => rows'[i].name = m
    PROVE  /\ \A n : n # m => SameRows(n)
           /\ RowsNamed(m)' = IF rows'[i] = None THEN RowsNamed(m) \ {i} ELSE RowsNamed(m) \cup {i}
  BY DEF SameRows, RowsNamed, Rows

LEMMA OrderFacts ==
    ASSUME Proceeding, NEW r \in Requests
    PROVE  /\ Base /\ req[r] \in Request /\ Belongs(req[r]) /\ Carries(req[r])
           /\ \E f, g : Known(f, g)
           /\ \A n \in Names : host[n].id = 0 <=> host[n] = Absent
           /\ req[r].pc # "idle" /\ req[r].pc \notin Listing \cup AppListing => req[r].name \in Names
  BY Asking DEF Proceeding, ContainersTyped, Named, Carries, Base, Docked, Distinct, Absent

LEMMA NoFault ==
    ASSUME Base, faults' = faults
    PROVE  ~Fault
  BY InventoryAssumption DEF Base, Counted, Fault

\* A request that is about no name, or whose own name is in step, leaves all in step.
LEMMA Finishing ==
    ASSUME NEW q, Progress(q), kept \subseteq kept', \A n \in Names : n # q.name => Alike(n),
           q.name \in Names => InStep(q.name)'
    PROVE  AllInStep'
  BY StaysInStep DEF Progress, AllInStep

LEMMA Proceeds ==
    ASSUME NEW q, Progress(q), NEW p, p.name = q.name, kept \subseteq kept',
           \A n \in Names : n # q.name => Alike(n),
           q.name \in Names => OwnName(p, q.name)', Compared(p)'
    PROVE  Progress(p)'
  BY StaysInStep DEF Progress

LEMMA Replied ==
    ASSUME Base, NEW r \in Requests, Reply(r), AllInStep'
    PROVE  Ordered(r)'
  BY IdleIsFormed DEF Reply, Ordered, Base, Asked

LEMMA Went ==
    ASSUME Base, NEW r \in Requests, NEW p, req'[r] = p, p.pc # "idle", Progress(p)'
    PROVE  Ordered(r)'
  BY DEF Ordered

\* All are in step while a request whose own name is lists or checks.
LEMMA OwnInStep ==
    ASSUME NEW q, Progress(q), (q.pc \in Listing /\ q.next # "match") \/ q.pc \in {"check", "match", "persist"} \cup OnContainer
    PROVE  AllInStep
  BY DEF Progress, OwnName, AllInStep

LEMMA ListContainersOrders ==
    ASSUME Proceeding, NEW r \in Requests, Progress(req[r]), ListContainers(r), faults = 0, faults' = faults
    PROVE  Ordered(r)'
  <1> PICK q : q = req[r]  OBVIOUS
  <1>1. q \in Request /\ q.pc = "list" /\ Base
    BY OrderFacts DEF ListContainers, At
  <1> PICK p : p = [q EXCEPT !.pc = "read", !.seen = host]  OBVIOUS
  <1>2. req'[r] = p
    <2>1. req' = [req EXCEPT ![r].pc = "read", ![r].seen = host]
      BY NoFault, <1>1 DEF ListContainers
    <2> QED BY <1>1, <2>1 DEF Base, Asked
  <1>3. p.pc = "read" /\ p.seen = host /\ p.name = q.name /\ p.next = q.next
    BY <1>1 DEF Request
  <1>4. UNCHANGED <<host, rows, kept>> /\ \A n : Alike(n)
    BY NothingMoves DEF ListContainers
  <1>5. q.name \in Names => OwnName(p, q.name)'
    BY <1>1, <1>3, <1>4, StaysInStep DEF OwnName, Progress, Listing, OnContainer, Proceeding, Sound
  <1>6. Compared(p)'
    BY <1>3, <1>4 DEF Compared
  <1> QED BY <1>1, <1>2, <1>3, <1>4, <1>5, <1>6, Proceeds, Went

LEMMA ReadRowsOrders ==
    ASSUME Proceeding, NEW r \in Requests, Progress(req[r]), ReadRows(r)
    PROVE  Ordered(r)'
  <1> PICK q : q = req[r]  OBVIOUS
  <1>1. q \in Request /\ q.pc = "read" /\ Base
    BY OrderFacts DEF ReadRows, At
  <1> PICK p : p = [q EXCEPT !.pc = "write", !.known = rows]  OBVIOUS
  <1>2. req'[r] = p
    BY <1>1 DEF ReadRows, Base, Asked
  <1>3. p.pc = "write" /\ p.seen = q.seen /\ p.known = rows /\ p.name = q.name /\ p.next = q.next
    BY <1>1 DEF Request
  <1>4. UNCHANGED <<host, rows, kept>> /\ \A n : Alike(n)
    BY NothingMoves DEF ReadRows
  <1>5. q.name \in Names => OwnName(p, q.name)'
    BY <1>1, <1>3, <1>4, StaysInStep DEF OwnName, Progress, Listing, OnContainer
  <1>6. Compared(p)'
    BY <1>1, <1>3, <1>4 DEF Compared, Progress
  <1> QED BY <1>1, <1>2, <1>3, <1>4, <1>5, <1>6, Proceeds, Went

\* A sync whose listing and rows are still true puts all names in step.
LEMMA SyncPutsInStep ==
    ASSUME Base, NEW f, NEW g, Known(f, g), NEW r \in Requests, WriteRows(r), Compared(req[r])
    PROVE  /\ AllInStep' /\ rows' = Synchronised(req[r])
           /\ \A n \in Names : /\ \A i \in RowsNamed(n)' : req[r].seen[n].state # "dead" => rows'[i].status # "ERROR"
                               /\ RowsNamed(n)' = {} => host'[n].id = 0
  <1> PICK q : q = req[r]  OBVIOUS
  <1>1. /\ q \in Request /\ q.pc = "write" /\ DockerIs(q.seen, g, dockerIds)
        /\ RowsAre(q.known, f, g, created, dockerIds)
    BY Asking, KnownNow DEF WriteRows, At, RequestIs
  <1>2. q.known = rows /\ \A n \in Names : q.seen[n].id = host[n].id /\ (n \in Listed(q) <=> q.seen[n].id # 0)
    BY <1>1 DEF Compared, Listed, DockerIs, Absent
  <1>3. \A n \in Listed(q) : ExistingRow(q, n) # 0 => rows[ExistingRow(q, n)] # None /\ rows[ExistingRow(q, n)].name = n
                                /\ ExistingRow(q, n) \in RowIds /\ ExistingRow(q, n) <= created
    BY ZenonT(60), <1>1, <1>2, ExistingName
  <1>4. rows' = Synchronised(q) /\ created' = created + Cardinality(Unknown(q)) /\ created' <= MaxRow /\ UNCHANGED <<host, kept>>
    BY <1>3 DEF WriteRows
  <1>5. ASSUME NEW n \in Listed(q), NEW m \in Listed(q), RowOf(q, n) = RowOf(q, m)
        PROVE  n = m
    <2>1. CASE ExistingRow(q, n) # 0 /\ ExistingRow(q, m) # 0
      BY <1>3, <1>5, <2>1 DEF RowOf
    <2>2. CASE ExistingRow(q, n) = 0 /\ ExistingRow(q, m) = 0
      <3>1. n \in Unknown(q) /\ m \in Unknown(q) /\ NewRow(q, n) = NewRow(q, m)
        BY <1>5, <2>2 DEF RowOf, Unknown
      <3> QED BY <1>1, <3>1, NewRowsDiffer
    <2>3. ASSUME NEW x \in Listed(q), NEW y \in Listed(q), ExistingRow(q, x) = 0, ExistingRow(q, y) # 0
          PROVE  RowOf(q, x) # RowOf(q, y)
      <3>1. RowOf(q, x) > created /\ RowOf(q, x) \in Nat
        BY <1>1, <2>3, Numbering DEF RowOf, Unknown
      <3>2. RowOf(q, y) <= created
        BY <1>3, <2>3 DEF RowOf
      <3> QED BY <3>1, <3>2, CreatedIsNumber
    <2> QED BY <1>5, <2>1, <2>2, <2>3
  <1>6. ASSUME NEW n \in Listed(q)
        PROVE  RowOf(q, n) \in RowIds
    <2>1. CASE ExistingRow(q, n) # 0
      BY <1>3, <2>1 DEF RowOf
    <2>2. CASE ExistingRow(q, n) = 0
      <3>1. RowOf(q, n) \in Nat /\ RowOf(q, n) > created /\ RowOf(q, n) <= created + Cardinality(Unknown(q))
        BY <1>1, <2>2, Numbering DEF RowOf, Unknown
      <3>2. created \in Nat /\ MaxRow \in Nat /\ Cardinality(Unknown(q)) \in Nat
        BY <1>1, CreatedIsNumber, Numbering, InventoryAssumption
      <3> QED BY <1>4, <3>1, <3>2 DEF RowIds
    <2> QED BY <2>1, <2>2
  <1>7. ASSUME NEW n \in Listed(q), NEW i \in RowIds, i = RowOf(q, n)
        PROVE  /\ rows'[i] # None /\ rows'[i].name = n /\ rows'[i].id = q.seen[n].id
               /\ q.seen[n].state # "dead" => rows'[i].status # "ERROR"
    <2>1. (CHOOSE m \in Listed(q) : RowOf(q, m) = i) = n
      BY <1>5, <1>7
    <2>2. rows'[i] = [name |-> n, id |-> q.seen[n].id, status |-> mapDockerStatus(q.seen[n]),
                      source |-> IF rows[i] = None THEN "plain" ELSE rows[i].source]
      BY <1>4, <1>7, <2>1 DEF Synchronised
    <2>3. rows'[i] \in Row
      <3>1. n \in Names /\ q.seen[n].id \in 0..MaxId /\ mapDockerStatus(q.seen[n]) \in Statuses
        BY <1>1 DEF Listed, Request, Docker, mapDockerStatus, Statuses, States
      <3>2. (IF rows[i] = None THEN "plain" ELSE rows[i].source) \in {"plain", "git", "app"}
        BY DEF Base, Stored, RowMap, Row
      <3> QED BY <2>2, <3>1, <3>2 DEF Row
    <2>4. q.seen[n].state # "dead" => mapDockerStatus(q.seen[n]) # "ERROR"
      <3>1. q.seen[n].state \in States
        BY <1>1 DEF Listed, Request, Docker
      <3> QED BY <3>1 DEF mapDockerStatus, States
    <2> QED BY <2>2, <2>3, <2>4, NoneIsNoRow
  <1>8. ASSUME NEW i \in RowIds, rows'[i] # None
        PROVE  \E n \in Listed(q) : RowOf(q, n) = i
    BY <1>4, <1>8 DEF Synchronised
  <1>9. ASSUME NEW n \in Names
        PROVE  RowsNamed(n)' = IF n \in Listed(q) THEN {RowOf(q, n)} ELSE {}
    <2>1. \A i \in RowsNamed(n)' : n \in Listed(q) /\ i = RowOf(q, n)
      BY <1>7, <1>8 DEF RowsNamed, Rows
    <2>2. n \in Listed(q) => RowOf(q, n) \in RowsNamed(n)'
      BY <1>6, <1>7 DEF RowsNamed, Rows
    <2> QED BY <2>1, <2>2
  <1>10. AllInStep'
    <2> SUFFICES ASSUME NEW n \in Names PROVE InStep(n)'
      BY DEF AllInStep
    <2>1. CASE n \in Listed(q)
      <3>1. RowsNamed(n)' = {RowOf(q, n)} /\ rows'[RowOf(q, n)].id = host'[n].id /\ host'[n].id # 0
        BY <1>2, <1>4, <1>6, <1>7, <1>9, <2>1
      <3> QED BY <3>1 DEF InStep
    <2>2. CASE n \notin Listed(q)
      BY <1>2, <1>4, <1>9, <2>2 DEF InStep
    <2> QED BY <2>1, <2>2
  <1>11. \A n \in Names : /\ \A i \in RowsNamed(n)' : q.seen[n].state # "dead" => rows'[i].status # "ERROR"
                          /\ RowsNamed(n)' = {} => host'[n].id = 0
    BY <1>2, <1>4, <1>6, <1>7, <1>9
  <1> QED BY <1>4, <1>10, <1>11

-----------------------------------------------------------------------------
(* A sync and a deployment that run alone. *)
\* The steps of a request that comes alone.
LEMMA WriteRowsOrders ==
    ASSUME Proceeding, NEW r \in Requests, Progress(req[r]), WriteRows(r)
    PROVE  Ordered(r)'
  <1> PICK q : q = req[r]  OBVIOUS
  <1>1. q \in Request /\ q.pc = "write" /\ Base /\ Carries(q) /\ \E f, g : Known(f, g)
    BY OrderFacts DEF WriteRows, At
  <1>2. /\ AllInStep' /\ rows' = Synchronised(q)
        /\ \A n \in Names : /\ \A i \in RowsNamed(n)' : q.seen[n].state # "dead" => rows'[i].status # "ERROR"
                            /\ RowsNamed(n)' = {} => host'[n].id = 0
    BY <1>1, SyncPutsInStep DEF Progress
  <1> PICK p : p = [Idle EXCEPT !.op = q.op, !.name = q.name, !.row = q.row, !.bg = q.bg, !.pc = q.next]  OBVIOUS
  <1>3. CASE Reply(r)
    BY <1>1, <1>2, <1>3, Replied
  <1>4. CASE req' = [req EXCEPT ![r] = p] /\ q.next # "done"
    <2>1. req'[r] = p
      BY <1>1, <1>4 DEF Base, Asked
    <2>2. p.pc = q.next /\ p.name = q.name
      <3> HIDE DEF Missing
      <3> QED BY DEF Idle
    <2>3. p.pc \in {"check", "match"} /\ q.name \in Names
      BY <1>1, <1>4, <2>2 DEF Carries, Listing
    <2>4. OwnName(p, q.name)'
      <3>1. q.seen[q.name].state # "dead"
        BY <1>1, <2>3 DEF Progress, OwnName
      <3> QED BY <1>2, <2>3, <3>1 DEF OwnName, AllInStep, Listing, OnContainer
    <2>5. Compared(p)'
      BY <2>3 DEF Compared
    <2>6. Progress(p)'
      BY <1>2, <2>2, <2>4, <2>5 DEF Progress, AllInStep
    <2> QED BY <1>1, <2>1, <2>3, <2>6, Went
  <1> QED BY <1>3, <1>4 DEF WriteRows

LEMMA AssertNameAvailableOrders ==
    ASSUME Proceeding, NEW r \in Requests, Progress(req[r]), AssertNameAvailable(r)
    PROVE  Ordered(r)'
  <1> PICK q : q = req[r]  OBVIOUS
  <1>1. q \in Request /\ q.pc = "check" /\ Base /\ q.name \in Names
    BY OrderFacts DEF AssertNameAvailable, At, Listing, AppListing
  <1>2. UNCHANGED <<host, rows, kept>> /\ \A n : Alike(n)
    BY NothingMoves DEF AssertNameAvailable
  <1>3. InStep(q.name)' /\ OwnName(q, q.name)
    BY <1>1, <1>2, StaysInStep DEF Progress, OwnName
  <1>4. CASE Reply(r)
    BY <1>1, <1>2, <1>3, <1>4, Replied, Finishing
  <1>5. CASE ~(\E i \in RowsNamed(q.name) : rows[i].status # "ERROR") /\ Go(r, IF q.op = "image" THEN "create" ELSE "run")
    <2> PICK pc : pc = IF q.op = "image" THEN "create" ELSE "run"  OBVIOUS
    <2> PICK p : p = [q EXCEPT !.pc = pc]  OBVIOUS
    <2>1. req'[r] = p
      BY <1>1, <1>5 DEF Go, Base, Asked
    <2>2. p.pc = pc /\ p.name = q.name /\ p.op = q.op /\ p.row = q.row
      BY <1>1 DEF Request
    <2>3. RowsNamed(q.name) = {} /\ host[q.name].id = 0
      BY <1>1, <1>3, <1>5 DEF OwnName
    <2>4. RowsNamed(q.name)' = {} /\ host'[q.name].id = 0
      BY <1>2, <2>3 DEF Alike, SameRows
    <2>5. OwnName(p, q.name)'
      BY <2>2, <2>4 DEF OwnName, Listing, OnContainer
    <2>6. Compared(p)'
      BY <2>2 DEF Compared
    <2> QED BY <1>1, <1>2, <2>1, <2>2, <2>5, <2>6, Proceeds, Went
  <1> QED BY <1>4, <1>5 DEF AssertNameAvailable

LEMMA CreateRowOrders ==
    ASSUME Proceeding, NEW r \in Requests, Progress(req[r]), CreateRow(r)
    PROVE  Ordered(r)'
  <1> PICK q : q = req[r]  OBVIOUS
  <1>1. q \in Request /\ q.pc = "create" /\ Base /\ q.name \in Names
    BY OrderFacts DEF CreateRow, At, Listing, AppListing
  <1> PICK p : p = [q EXCEPT !.pc = "run", !.row = created + 1]  OBVIOUS
  <1>2. req'[r] = p
    BY <1>1 DEF CreateRow, Base, Asked
  <1>3. p.pc = "run" /\ p.name = q.name /\ p.row = created + 1 /\ p.op = q.op
    BY <1>1 DEF Request
  <1> PICK x : x = [name |-> q.name, id |-> 0, status |-> "STARTING", source |-> "plain"]  OBVIOUS
  <1>4. created + 1 \in RowIds /\ rows[created + 1] = None /\ x # None
    <2>1. created \in Nat /\ MaxRow \in Nat /\ created < MaxRow
      BY <1>1, CreatedIsNumber, InventoryAssumption DEF CreateRow
    <2>2. created + 1 \in RowIds /\ ~(created + 1 <= created)
      BY <2>1 DEF RowIds
    <2>3. x \in Row
      <3>1. 0 \in 0..MaxId
        BY InventoryAssumption
      <3> QED BY <1>1, <3>1 DEF Row, Statuses
    <2> QED BY <1>1, <2>2, <2>3, NoneIsNoRow DEF Base, Stored
  <1>5. rows' = [rows EXCEPT ![created + 1] = x] /\ UNCHANGED <<host, kept>>
    BY DEF CreateRow
  <1>6. OwnName(q, q.name)
    BY <1>1 DEF Progress
  <1>7. (\A n : n # q.name => SameRows(n)) /\ RowsNamed(q.name)' = RowsNamed(q.name) \cup {created + 1}
    <2>1. x.name = q.name
      OBVIOUS
    <2>2. rows'[created + 1] = x /\ \A j \in RowIds : j # created + 1 => rows'[j] = rows[j]
      BY <1>1, <1>4, <1>5 DEF Base, Stored, RowMap
    <2> QED BY <1>4, <2>1, <2>2, OneRowChanges
  <1>8. RowsNamed(q.name)' = {p.row} /\ host'[q.name].id = 0
    BY <1>1, <1>3, <1>5, <1>6, <1>7 DEF OwnName
  <1>9. OwnName(p, q.name)'
    BY <1>3, <1>8 DEF OwnName, Listing, OnContainer
  <1>10. Compared(p)'
    BY <1>3 DEF Compared
  <1> QED BY <1>1, <1>2, <1>3, <1>5, <1>7, <1>9, <1>10, Proceeds, Went DEF Alike

LEMMA DockerRunOrders ==
    ASSUME Proceeding, NEW r \in Requests, Progress(req[r]), DockerRun(r), faults' = faults
    PROVE  Ordered(r)'
  <1> PICK q : q = req[r]  OBVIOUS
  <1>1. q \in Request /\ q.pc = "run" /\ Base /\ q.name \in Names
    BY OrderFacts DEF DockerRun, At, Listing, AppListing
  <1>2. OwnName(q, q.name) /\ host[q.name] = Absent
    BY <1>1, OrderFacts DEF Progress, OwnName
  <1>3. Launch(q.name, "running") /\ Deployed(r) /\ UNCHANGED <<rows, kept>>
    BY <1>1, <1>2, NoFault DEF DockerRun
  <1>4. /\ dockerIds + 1 # 0 /\ host'[q.name].id = dockerIds + 1
        /\ \A n \in Names : n # q.name => host'[n].id = host[n].id
    <2>1. Docked /\ "running" \in States
      BY <1>1 DEF Base, States
    <2>2. /\ dockerIds + 1 \in DockerIds \ {0}
          /\ \A m \in Names : host'[m] = IF m = q.name THEN [id |-> dockerIds + 1, state |-> "running"] ELSE host[m]
      BY <1>1, <1>3, <2>1, Launching
    <2> QED BY <1>1, <2>2
  <1>5. \A n \in Names : n # q.name => Alike(n)
    BY <1>3, <1>4, RowsUnchanged DEF Alike
  <1>6. CASE q.op = "image"
    <2> PICK p : p = [q EXCEPT !.pc = "settle", !.id = dockerIds + 1]  OBVIOUS
    <2>1. req'[r] = p
      BY <1>1, <1>3, <1>6 DEF Deployed, Base, Asked
    <2>2. p.pc = "settle" /\ p.name = q.name /\ p.row = q.row /\ p.id = dockerIds + 1
      BY <1>1 DEF Request
    <2>3. RowsNamed(q.name)' = {q.row}
      BY <1>1, <1>2, <1>3, <1>6, RowsUnchanged DEF OwnName, SameRows
    <2>4. OwnName(p, q.name)'
      BY <1>4, <2>2, <2>3 DEF OwnName, Listing, OnContainer
    <2>5. Compared(p)'
      BY <2>2 DEF Compared
    <2> QED BY <1>1, <1>3, <1>5, <2>1, <2>2, <2>4, <2>5, Proceeds, Went
  <1>7. CASE q.op # "image"
    <2> PICK p : p = [q EXCEPT !.pc = "list", !.next = "match"]  OBVIOUS
    <2>1. req'[r] = p
      BY <1>1, <1>3, <1>7 DEF Deployed, Sync, Base, Asked
    <2>2. p.pc = "list" /\ p.name = q.name /\ p.next = "match"
      BY <1>1 DEF Request
    <2>3. OwnName(p, q.name)'
      BY <2>2 DEF OwnName, OnContainer
    <2>4. Compared(p)'
      BY <2>2 DEF Compared
    <2> QED BY <1>1, <1>3, <1>5, <2>1, <2>2, <2>3, <2>4, Proceeds, Went
  <1> QED BY <1>6, <1>7

LEMMA SettleDeploymentOrders ==
    ASSUME Proceeding, NEW r \in Requests, Progress(req[r]), SettleDeployment(r)
    PROVE  Ordered(r)'
  <1> PICK q : q = req[r]  OBVIOUS
  <1>1. q \in Request /\ q.pc = "settle" /\ Base /\ q.name \in Names
    BY OrderFacts DEF SettleDeployment, At, Listing, AppListing
  <1>2. RowsNamed(q.name) = {q.row} /\ q.id = host[q.name].id /\ q.id # 0
    BY <1>1 DEF Progress, OwnName
  <1>3. q.row \in RowIds /\ rows[q.row] \in Row /\ rows[q.row] # None /\ rows[q.row].name = q.name
    BY <1>1, <1>2 DEF RowsNamed, Rows, Base, Stored, RowMap
  <1> PICK x : x = [rows[q.row] EXCEPT !.status = "RUNNING", !.id = q.id]  OBVIOUS
  <1>4. x.name = q.name /\ x.id = q.id /\ x # None
    <2>1. x \in Row /\ x.name = q.name /\ x.id = q.id
      BY <1>1, <1>3 DEF Request, Row, Statuses, DockerIds
    <2> QED BY <2>1, NoneIsNoRow
  <1>5. rows' = [rows EXCEPT ![q.row] = x] /\ Reply(r) /\ UNCHANGED <<host, kept>>
    BY <1>3 DEF SettleDeployment
  <1>6. /\ \A n : n # q.name => SameRows(n)
        /\ RowsNamed(q.name)' = {q.row} /\ rows'[q.row].id = q.id
    <2>1. rows'[q.row] = x /\ \A j \in RowIds : j # q.row => rows'[j] = rows[j]
      BY <1>1, <1>3, <1>5 DEF Base, Stored, RowMap
    <2>2. (\A n : n # q.name => SameRows(n)) /\ RowsNamed(q.name)' = RowsNamed(q.name) \cup {q.row}
      <3>1. rows'[q.row] # None /\ rows'[q.row].name = q.name
        BY <1>4, <2>1
      <3> QED BY <1>3, <2>1, <3>1, OneRowChanges
    <2> QED BY <1>2, <1>4, <2>1, <2>2
  <1>7. InStep(q.name)'
    BY <1>2, <1>5, <1>6 DEF InStep
  <1>8. AllInStep'
    BY <1>5, <1>6, <1>7, Finishing DEF Alike
  <1> QED BY <1>1, <1>5, <1>8, Replied

LEMMA MatchRowsOrders ==
    ASSUME Proceeding, NEW r \in Requests, Progress(req[r]), MatchRows(r)
    PROVE  Ordered(r)'
  <1> PICK q : q = req[r]  OBVIOUS
  <1>1. q \in Request /\ q.pc = "match" /\ Base /\ q.name \in Names
    BY OrderFacts DEF MatchRows, At, Listing, AppListing
  <1>2. UNCHANGED <<host, rows, kept>> /\ \A n : Alike(n)
    BY NothingMoves DEF MatchRows
  <1>3. InStep(q.name)'
    BY <1>1, <1>2, StaysInStep DEF Progress, OwnName
  <1>4. CASE Reply(r)
    BY <1>1, <1>2, <1>3, <1>4, Replied, Finishing
  <1>5. CASE ~Reply(r)
    <2> PICK p : p = [q EXCEPT !.pc = "persist", !.known = rows]  OBVIOUS
    <2>1. req'[r] = p
      BY <1>1, <1>5 DEF MatchRows, Base, Asked
    <2>2. p.pc = "persist" /\ p.name = q.name /\ p.known = rows
      BY <1>1 DEF Request
    <2>3. OwnName(p, q.name)'
      BY <1>3, <2>2 DEF OwnName, Listing, OnContainer
    <2>4. Compared(p)'
      BY <1>2, <2>2 DEF Compared
    <2> QED BY <1>1, <1>2, <2>1, <2>2, <2>3, <2>4, Proceeds, Went
  <1> QED BY <1>4, <1>5

LEMMA PersistSourceOrders ==
    ASSUME Proceeding, NEW r \in Requests, Progress(req[r]), PersistSource(r)
    PROVE  Ordered(r)'
  <1> PICK q : q = req[r]  OBVIOUS
  <1>1. q \in Request /\ q.pc = "persist" /\ Base /\ q.name \in Names
    BY OrderFacts DEF PersistSource, At, Listing, AppListing
  <1>2. Reply(r) /\ UNCHANGED <<host, kept>>
    BY DEF PersistSource
  <1>3. \A i \in RowIds : rows'[i] = rows[i] \/ (rows[i] # None /\ rows'[i] = [rows[i] EXCEPT !.source = "git"])
    BY <1>1 DEF PersistSource, Progress, Compared, Base, Stored, RowMap
  <1>4. \A i \in RowIds : /\ rows'[i] = None <=> rows[i] = None
                          /\ rows[i] # None => rows'[i].name = rows[i].name /\ rows'[i].id = rows[i].id
    <2>1. \A i \in RowIds : rows[i] # None => rows[i] \in Row
      BY <1>1 DEF Base, Stored, RowMap
    <2>2. \A y \in Row : /\ [y EXCEPT !.source = "git"] \in Row /\ [y EXCEPT !.source = "git"].name = y.name
                         /\ [y EXCEPT !.source = "git"].id = y.id
      BY DEF Row
    <2> QED BY ZenonT(60), <1>3, <2>1, <2>2, NoneIsNoRow
  <1>5. \A n : Alike(n)
    BY <1>2, <1>4 DEF Alike, SameRows, RowsNamed, Rows
  <1>6. InStep(q.name)'
    BY <1>1, <1>2, <1>5, StaysInStep DEF Progress, OwnName
  <1> QED BY <1>1, <1>2, <1>5, <1>6, Replied, Finishing

-----------------------------------------------------------------------------
(* A request about a container that runs alone. *)
\* The container of a request's row is the one that its id and its reference name.
LEMMA OwnContainer ==
    ASSUME Proceeding, NEW r \in Requests, Progress(req[r]), NEW q, q = req[r], q.pc \in OnContainer
    PROVE  /\ q \in Request /\ Base /\ q.name \in Names /\ OwnName(q, q.name)
           /\ q.row \in RowsNamed(q.name) /\ q.id = host[q.name].id /\ q.id # 0
           /\ rows[q.row].id = q.id /\ \A i \in RowsNamed(q.name) : i = q.row
           /\ Target(q) = {q.name} /\ Reference(q) = q.id /\ Holding(q.id) = {q.name}
           /\ q.pc \in {"inspect", "clear"} => Referred(q) = {q.name}
  <1>1. q \in Request /\ Base /\ q.name \in Names
    BY OrderFacts DEF Listing, AppListing, OnContainer
  <1>2. OwnName(q, q.name)
    BY <1>1 DEF Progress
  <1>3. InStep(q.name) /\ q.row \in RowsNamed(q.name) /\ q.id = host[q.name].id
    BY <1>2 DEF OwnName
  <1>4. q.id # 0 /\ rows[q.row].id = q.id /\ \A i \in RowsNamed(q.name) : i = q.row
    BY <1>3 DEF InStep
  <1>5. Holding(q.id) = {q.name}
    BY <1>1, <1>3, <1>4 DEF Holding, Base, Docked, Distinct
  <1>6. q.pc \in {"inspect", "clear"} => Referred(q) = {q.name}
    BY <1>2, <1>4, <1>5 DEF OwnName, Referred
  <1> QED BY <1>1, <1>2, <1>3, <1>4, <1>5, <1>6 DEF Target, Reference

LEMMA DockerActionOrders ==
    ASSUME Proceeding, NEW r \in Requests, Progress(req[r]), DockerAction(r), faults' = faults
    PROVE  Ordered(r)'
  <1> PICK q : q = req[r]  OBVIOUS
  <1>1. q.pc = "act"
    BY DEF DockerAction, At
  <1>2. /\ q \in Request /\ Base /\ q.name \in Names /\ OwnName(q, q.name)
        /\ q.row \in RowsNamed(q.name) /\ q.id = host[q.name].id /\ q.id # 0
        /\ \A i \in RowsNamed(q.name) : i = q.row
        /\ Target(q) = {q.name} /\ Reference(q) = q.id
    BY <1>1, OwnContainer DEF OnContainer
  <1>3. UNCHANGED <<rows, kept>> /\ \A n : SameRows(n)
    BY RowsUnchanged DEF DockerAction
  <1> PICK p : p = [q EXCEPT !.pc = IF q.op = "rm" THEN "purge" ELSE "inspect", !.ref = q.id]  OBVIOUS
  <1>4. /\ p.pc = IF q.op = "rm" THEN "purge" ELSE "inspect"
        /\ p.name = q.name /\ p.row = q.row /\ p.id = q.id /\ p.ref = q.id
    BY <1>2 DEF Request
  <1>5. \/ Acts(q.op, q.name) /\ req' = [req EXCEPT ![r] = p]
        \/ Reply(r) /\ UNCHANGED host
    BY <1>2, NoFault DEF DockerAction
  <1>6. CASE Reply(r) /\ UNCHANGED host
    <2>1. \A n : Alike(n)
      BY <1>3, <1>6, NothingMoves
    <2>2. InStep(q.name)'
      BY <1>1, <1>2, <1>3, <2>1, StaysInStep DEF OwnName, OnContainer
    <2> QED BY <1>2, <1>3, <1>6, <2>1, <2>2, Finishing, Replied
  <1>7. CASE Acts(q.op, q.name) /\ req' = [req EXCEPT ![r] = p]
    <2>1. req'[r] = p
      BY <1>2, <1>7 DEF Base, Asked
    <2>2. \A n \in Names : n # q.name => host'[n].id = host[n].id
      BY <1>2, <1>7 DEF Acts, Switched, Removed, Base, Docked, Docker
    <2>3. \A n \in Names : n # q.name => Alike(n)
      BY <1>3, <2>2 DEF Alike
    <2>4. OwnName(p, q.name)'
      <3>1. CASE q.op = "rm"
        <4>1. host'[q.name].id = 0
          BY <1>2, <1>7, <3>1 DEF Acts, Removed, Base, Docked, Docker, Absent
        <4>2. \A i \in RowsNamed(q.name)' : i = q.row
          BY <1>2, <1>3 DEF SameRows
        <4> QED BY <1>4, <3>1, <4>1, <4>2 DEF OwnName, Listing, OnContainer
      <3>2. CASE q.op # "rm"
        <4>1. host'[q.name].id = host[q.name].id
          BY <1>2, <1>7, <3>2 DEF Acts, Switched, Base, Docked, Docker
        <4>2. Alike(q.name) /\ q.row \in RowsNamed(q.name)'
          BY <1>2, <1>3, <4>1 DEF Alike, SameRows
        <4>3. InStep(q.name)'
          BY <1>1, <1>2, <1>3, <4>2, StaysInStep DEF OwnName, OnContainer
        <4> QED BY <1>2, <1>4, <3>2, <4>1, <4>2, <4>3 DEF OwnName, Listing, OnContainer
      <3> QED BY <3>1, <3>2
    <2>5. Compared(p)'
      BY <1>4 DEF Compared
    <2>6. p.pc # "idle"
      BY <1>4
    <2> QED BY <1>2, <1>3, <1>4, <2>1, <2>3, <2>4, <2>5, <2>6, Proceeds, Went
  <1> QED BY <1>5, <1>6, <1>7

LEMMA InspectOrders ==
    ASSUME Proceeding, NEW r \in Requests, Progress(req[r]), Inspect(r), faults' = faults
    PROVE  Ordered(r)'
  <1> PICK q : q = req[r]  OBVIOUS
  <1>1. q.pc = "inspect"
    BY DEF Inspect, At
  <1>2. /\ q \in Request /\ Base /\ q.name \in Names /\ OwnName(q, q.name)
        /\ q.row \in RowsNamed(q.name) /\ q.id = host[q.name].id
        /\ Referred(q) = {q.name}
    BY <1>1, OwnContainer DEF OnContainer
  <1>3. UNCHANGED <<host, rows, kept>> /\ \A n : Alike(n)
    BY NothingMoves DEF Inspect
  <1>4. \E st : req' = [req EXCEPT ![r].pc = "update", ![r].status = st, ![r].id = q.id]
    <2>1. PICK found \in {Referred(q), {}} :
        /\ IF found = Referred(q) THEN UNCHANGED faults ELSE Fault
        /\ req' = [req EXCEPT ![r].pc = "update", ![r].status = mapDockerInspectStatus(found),
                              ![r].id = IF found = {} THEN @ ELSE host[CHOOSE n \in found : TRUE].id]
      BY DEF Inspect
    <2>2. found = {q.name}
      BY <1>2, <2>1, NoFault
    <2>3. (CHOOSE n \in found : TRUE) = q.name /\ found # {}
      BY <2>2
    <2>4. host[CHOOSE n \in found : TRUE].id = q.id
      BY <1>2, <2>3
    <2> QED BY <2>1, <2>3, <2>4
  <1> PICK st : req' = [req EXCEPT ![r].pc = "update", ![r].status = st, ![r].id = q.id]
    BY <1>4
  <1> PICK p : p = [q EXCEPT !.pc = "update", !.status = st, !.id = q.id]  OBVIOUS
  <1>5. p.pc = "update" /\ p.name = q.name /\ p.row = q.row /\ p.id = q.id
    BY <1>2 DEF Request
  <1>6. req'[r] = p
    BY <1>2 DEF Base, Asked
  <1>7. InStep(q.name)'
    BY <1>1, <1>2, <1>3, StaysInStep DEF OwnName, OnContainer
  <1>8. OwnName(p, q.name)'
    BY <1>2, <1>3, <1>5, <1>7 DEF OwnName, Listing, OnContainer, Alike, SameRows
  <1>9. Compared(p)'
    BY <1>5 DEF Compared
  <1> QED BY <1>2, <1>3, <1>5, <1>6, <1>8, <1>9, Proceeds, Went

LEMMA UpdateRowOrders ==
    ASSUME Proceeding, NEW r \in Requests, Progress(req[r]), UpdateRow(r)
    PROVE  Ordered(r)'
  <1> PICK q : q = req[r]  OBVIOUS
  <1>1. q.pc = "update"
    BY DEF UpdateRow, At
  <1>2. /\ q \in Request /\ Base /\ q.name \in Names /\ OwnName(q, q.name) /\ Carries(q)
        /\ q.row \in RowsNamed(q.name) /\ q.id = host[q.name].id /\ rows[q.row].id = q.id
    BY <1>1, OwnContainer, OrderFacts DEF OnContainer
  <1>3. q.row \in RowIds /\ rows[q.row] \in Row /\ rows[q.row] # None /\ rows[q.row].name = q.name
    BY <1>2 DEF RowsNamed, Rows, Base, Stored, RowMap
  <1> PICK x : x = [rows[q.row] EXCEPT !.status = q.status, !.id = q.id]  OBVIOUS
  <1>4. x.name = q.name /\ x.id = q.id /\ x # None
    <2>1. q.status \in Statuses /\ q.id \in 0..MaxId
      BY <1>1, <1>2 DEF Carries, Statuses, Request, DockerIds
    <2>2. x \in Row /\ x.name = q.name /\ x.id = q.id
      BY <1>3, <2>1 DEF Row
    <2> QED BY <2>2, NoneIsNoRow
  <1>5. /\ rows' = [rows EXCEPT ![q.row] = x] /\ UNCHANGED <<host, kept>>
        /\ IF q.op \in {"start", "restart"} THEN Sync(r, "done") ELSE Reply(r)
    BY <1>3 DEF UpdateRow
  <1>6. rows'[q.row] = x /\ \A j \in RowIds : j # q.row => rows'[j] = rows[j]
    BY <1>2, <1>3, <1>5 DEF Base, Stored, RowMap
  <1>7. rows'[q.row] # None /\ rows'[q.row].name = q.name /\ rows'[q.row].id = q.id
    BY <1>4, <1>6
  <1>8. (\A n : n # q.name => SameRows(n)) /\ RowsNamed(q.name)' = RowsNamed(q.name) \cup {q.row}
    BY <1>3, <1>6, <1>7, OneRowChanges
  <1>9. \A n : Alike(n)
    <2>1. RowsNamed(q.name)' = RowsNamed(q.name)
      BY <1>2, <1>8
    <2>2. \A i \in RowsNamed(q.name) : rows'[i].id = rows[i].id
      BY <1>2, <1>6, <1>7 DEF RowsNamed, Rows
    <2> QED BY <1>5, <1>8, <2>1, <2>2 DEF Alike, SameRows
  <1>10. InStep(q.name)'
    BY <1>1, <1>2, <1>5, <1>9, StaysInStep DEF OwnName, OnContainer
  <1>11. CASE q.op \notin {"start", "restart"}
    BY <1>2, <1>5, <1>9, <1>10, <1>11, Finishing, Replied
  <1>12. CASE q.op \in {"start", "restart"}
    <2> PICK p : p = [q EXCEPT !.pc = "list", !.next = "done"]  OBVIOUS
    <2>1. req'[r] = p
      BY <1>2, <1>5, <1>12 DEF Sync, Base, Asked
    <2>2. p.pc = "list" /\ p.name = q.name
      BY <1>2 DEF Request
    <2>3. OwnName(p, q.name)'
      BY <1>10, <2>2 DEF OwnName, OnContainer
    <2>4. Compared(p)'
      BY <2>2 DEF Compared
    <2> QED BY <1>2, <1>5, <1>9, <2>1, <2>2, <2>3, <2>4, Proceeds, Went
  <1> QED BY <1>11, <1>12

LEMMA RemoveContainerOrders ==
    ASSUME Proceeding, NEW r \in Requests, Progress(req[r]), RemoveContainer(r), faults' = faults
    PROVE  Ordered(r)'
  <1> PICK q : q = req[r]  OBVIOUS
  <1>1. q.pc = "remove"
    BY DEF RemoveContainer, At
  <1>2. /\ q \in Request /\ Base /\ q.name \in Names /\ q.id = host[q.name].id
        /\ (\A i \in RowsNamed(q.name) : i = q.row) /\ Holding(q.id) = {q.name}
    BY <1>1, OwnContainer DEF OnContainer
  <1>3. UNCHANGED rows /\ \A n : SameRows(n)
    BY RowsUnchanged DEF RemoveContainer
  <1> PICK p : p = [q EXCEPT !.pc = "purge"]  OBVIOUS
  <1>4. p.pc = "purge" /\ p.name = q.name /\ p.row = q.row
    BY <1>2 DEF Request
  <1>5. req'[r] = p
    BY <1>2 DEF RemoveContainer, Go, Base, Asked
  <1>6. /\ host' = [n \in Names |-> IF n \in {q.name} /\ ~Up(host[n]) THEN Absent ELSE host[n]]
        /\ kept' = kept \cup {host[n].id : n \in {m \in {q.name} : Up(host[m])}}
    BY <1>2, NoFault DEF RemoveContainer
  <1>7. host'[q.name].id = 0 \/ host'[q.name].id \in kept'
    BY <1>2, <1>6 DEF Absent
  <1>8. kept \subseteq kept' /\ \A n \in Names : n # q.name => Alike(n)
    BY <1>3, <1>6 DEF Alike
  <1>9. \A i \in RowsNamed(q.name)' : i = q.row
    BY <1>2, <1>3 DEF SameRows
  <1>10. OwnName(p, q.name)'
    BY <1>4, <1>7, <1>9 DEF OwnName, Listing, OnContainer
  <1>11. Compared(p)'
    BY <1>4 DEF Compared
  <1> QED BY <1>2, <1>4, <1>5, <1>8, <1>10, <1>11, Proceeds, Went

LEMMA DeleteRelatedAppInstallsOrders ==
    ASSUME Proceeding, NEW r \in Requests, Progress(req[r]), DeleteRelatedAppInstalls(r)
    PROVE  Ordered(r)'
  <1> PICK q : q = req[r]  OBVIOUS
  <1>1. q \in Request /\ q.pc = "purge" /\ Base /\ q.name \in Names
    BY OrderFacts DEF DeleteRelatedAppInstalls, At, Listing, AppListing
  <1>2. UNCHANGED <<host, rows, kept>> /\ \A n : Alike(n)
    BY NothingMoves DEF DeleteRelatedAppInstalls
  <1> PICK p : p = [q EXCEPT !.pc = "erase"]  OBVIOUS
  <1>3. p.pc = "erase" /\ p.name = q.name /\ p.row = q.row
    BY <1>1 DEF Request
  <1>4. req'[r] = p
    BY <1>1 DEF DeleteRelatedAppInstalls, Go, Base, Asked
  <1>5. OwnName(q, q.name)
    BY <1>1 DEF Progress
  <1>6. OwnName(p, q.name)'
    BY <1>1, <1>2, <1>3, <1>5 DEF OwnName, Listing, OnContainer, Alike, SameRows
  <1>7. Compared(p)'
    BY <1>3 DEF Compared
  <1> QED BY <1>1, <1>2, <1>3, <1>4, <1>6, <1>7, Proceeds, Went

LEMMA EraseRowOrders ==
    ASSUME Proceeding, NEW r \in Requests, Progress(req[r]), EraseRow(r)
    PROVE  Ordered(r)'
  <1> PICK q : q = req[r]  OBVIOUS
  <1>1. q \in Request /\ q.pc = "erase" /\ Base /\ q.name \in Names /\ Carries(q) /\ \E f, g : Known(f, g)
    BY OrderFacts DEF EraseRow, At, Listing, AppListing
  <1> PICK f, g : Known(f, g)
    BY <1>1
  <1>2. q.row \in RowIds /\ (rows[q.row] # None => rows[q.row].name = q.name)
    BY <1>1, AtRow, KnownNow DEF Carries, RequestIs, RowsAre, RowIs
  <1>3. OwnName(q, q.name)
    BY <1>1 DEF Progress
  <1>4. rows' = [rows EXCEPT ![q.row] = None] /\ Reply(r) /\ UNCHANGED <<host, kept>>
    BY DEF EraseRow
  <1>5. rows'[q.row] = None /\ \A j \in RowIds : j # q.row => rows'[j] = rows[j]
    BY <1>1, <1>2, <1>4 DEF Base, Stored, RowMap
  <1>6. (\A n : n # q.name => SameRows(n)) /\ RowsNamed(q.name)' = RowsNamed(q.name) \ {q.row}
    BY <1>2, <1>5, OneRowChanges
  <1>7. InStep(q.name)'
    BY <1>1, <1>3, <1>4, <1>6 DEF OwnName, InStep
  <1> QED BY <1>1, <1>4, <1>6, <1>7, Finishing, Replied DEF Alike

LEMMA RebuildStopsOrders ==
    ASSUME Proceeding, NEW r \in Requests, Progress(req[r]), RebuildStops(r), faults' = faults
    PROVE  Ordered(r)'
  <1> PICK q : q = req[r]  OBVIOUS
  <1>1. q.pc = "halt"
    BY DEF RebuildStops, At
  <1>2. /\ q \in Request /\ Base /\ q.name \in Names /\ OwnName(q, q.name)
        /\ q.row \in RowsNamed(q.name) /\ q.id = host[q.name].id
        /\ Target(q) = {q.name} /\ Reference(q) = q.id
    BY <1>1, OwnContainer DEF OnContainer
  <1>3. UNCHANGED <<rows, kept>> /\ \A n : SameRows(n)
    BY RowsUnchanged DEF RebuildStops
  <1>4. req' = [req EXCEPT ![r].pc = "clear", ![r].ref = q.id] /\ Acts("stop", q.name)
    BY <1>2, NoFault DEF RebuildStops
  <1> PICK p : p = [q EXCEPT !.pc = "clear", !.ref = q.id]  OBVIOUS
  <1>5. p.pc = "clear" /\ p.name = q.name /\ p.row = q.row /\ p.id = q.id /\ p.ref = q.id
    BY <1>2 DEF Request
  <1>6. req'[r] = p
    BY <1>2, <1>4 DEF Base, Asked
  <1>7. (\A n \in Names : host'[n].id = host[n].id) /\ ~Up(host'[q.name])
    <2>1. host' = Switched(q.name, After("stop", host[q.name]))
      BY <1>4 DEF Acts
    <2>2. After("stop", host[q.name]) = IF Up(host[q.name]) THEN "exited" ELSE host[q.name].state
      BY DEF After
    <2>3. host'[q.name].state \notin {"running", "paused", "restarting"}
      BY <1>2, <2>1, <2>2 DEF Switched, Up, Base, Docked, Docker
    <2> QED BY <1>2, <2>1, <2>3 DEF Switched, Up, Base, Docked, Docker
  <1>8. \A n \in Names : Alike(n)
    BY <1>3, <1>7 DEF Alike
  <1>9. InStep(q.name)'
    BY <1>1, <1>2, <1>3, <1>8, StaysInStep DEF OwnName, OnContainer
  <1>10. OwnName(p, q.name)'
    BY <1>2, <1>3, <1>5, <1>7, <1>9 DEF OwnName, Listing, OnContainer, SameRows
  <1>11. Compared(p)'
    BY <1>5 DEF Compared
  <1> QED BY <1>2, <1>3, <1>5, <1>6, <1>8, <1>10, <1>11, Proceeds, Went

LEMMA RebuildRemovesOrders ==
    ASSUME Proceeding, NEW r \in Requests, Progress(req[r]), RebuildRemoves(r), faults' = faults
    PROVE  Ordered(r)'
  <1> PICK q : q = req[r]  OBVIOUS
  <1>1. q.pc = "clear"
    BY DEF RebuildRemoves, At
  <1>2. /\ q \in Request /\ Base /\ q.name \in Names /\ OwnName(q, q.name) /\ Belongs(q)
        /\ (\A i \in RowsNamed(q.name) : i = q.row) /\ Referred(q) = {q.name}
    BY <1>1, OwnContainer, OrderFacts DEF OnContainer
  <1>3. UNCHANGED <<rows, kept>> /\ \A n : SameRows(n)
    BY RowsUnchanged DEF RebuildRemoves
  <1>4. Go(r, "run") /\ host' = Removed(q.name)
    <2>1. ~Refuses("rm", host[q.name])
      BY <1>1, <1>2 DEF OwnName, Refuses
    <2> QED BY <1>1, <1>2, <2>1, NoFault DEF RebuildRemoves, Acts
  <1> PICK p : p = [q EXCEPT !.pc = "run"]  OBVIOUS
  <1>5. p.pc = "run" /\ p.name = q.name /\ p.row = q.row /\ p.op # "image"
    BY <1>1, <1>2 DEF Request, Belongs
  <1>6. req'[r] = p
    BY <1>2, <1>4 DEF Go, Base, Asked
  <1>7. (\A n \in Names : n # q.name => host'[n].id = host[n].id) /\ host'[q.name].id = 0
    BY <1>2, <1>4 DEF Removed, Base, Docked, Docker, Absent
  <1>8. \A n \in Names : n # q.name => Alike(n)
    BY <1>3, <1>7 DEF Alike
  <1>9. OwnName(p, q.name)'
    BY <1>2, <1>3, <1>5, <1>7 DEF OwnName, Listing, OnContainer, SameRows
  <1>10. Compared(p)'
    BY <1>5 DEF Compared
  <1> QED BY <1>2, <1>3, <1>5, <1>6, <1>8, <1>9, <1>10, Proceeds, Went

-----------------------------------------------------------------------------
(* The inventory. *)
LEMMA StepOrders ==
    ASSUME Proceeding, NEW r \in Requests, Step(r), Progress(req[r]), faults = 0, faults' = faults
    PROVE  Ordered(r)'
  <1>1. ~CatchDeployment(r)
    <2>1. req[r].pc = "catch" => FALSE
      <3> SUFFICES ASSUME req[r].pc = "catch" PROVE FALSE
        OBVIOUS
      <3>1. req[r].name \in Names
        BY OrderFacts DEF Listing, AppListing
      <3> QED BY <3>1 DEF Progress, OwnName
    <2> QED BY <2>1 DEF CatchDeployment, At
  <1> QED BY <1>1, ListContainersOrders, ReadRowsOrders, WriteRowsOrders, AssertNameAvailableOrders,
          CreateRowOrders, DockerRunOrders, SettleDeploymentOrders, MatchRowsOrders,
          PersistSourceOrders, DockerActionOrders, InspectOrders, UpdateRowOrders, RemoveContainerOrders,
          DeleteRelatedAppInstallsOrders, EraseRowOrders, RebuildStopsOrders, RebuildRemovesOrders DEF Step

\* A request that arrives alone finds all names in step.
LEMMA ArrivesOrders ==
    ASSUME Proceeding, NEW r \in Requests, Arrives(r), AllInStep
    PROVE  Ordered(r)' /\ InProgress(r)'
  <1> DEFINE Begun == \E q : req'[r] = q /\ q.pc # "idle" /\ Progress(q)'
  <1>1. Base /\ UNCHANGED <<host, rows, kept>>
    BY BegunDeploysNot DEF Proceeding, ContainersTyped
  <1>2. AllInStep' /\ \A n : Alike(n)
    BY <1>1, NothingMoves, StaysInStep DEF AllInStep
  <1>3. \A q : Begin(r, q) => req'[r] = q
    BY <1>1 DEF Begin, Base, Asked
  <1>4. ASSUME NEW q, q.pc = "list"
        PROVE  Progress(q)'
    BY <1>2, <1>4 DEF Progress, OwnName, OnContainer, Compared, AllInStep
  <1>5. BeginSync(r) => Begun
    <2> PICK q : q = [Idle EXCEPT !.op = "sync", !.pc = "list", !.next = "done"]  OBVIOUS
    <2>1. q.pc = "list"
      <3> HIDE DEF Missing
      <3> QED BY DEF Idle
    <2> QED BY <1>3, <1>4, <2>1 DEF BeginSync
  <1>6. \A n \in Names : \A op \in {"image", "git"}, bg \in BOOLEAN : BeginDeploy(r, n, op, bg) => Begun
    <2> TAKE n \in Names
    <2> TAKE op \in {"image", "git"}, bg \in BOOLEAN
    <2> PICK q : q = [Idle EXCEPT !.op = op, !.name = n, !.bg = bg, !.pc = "list", !.next = "check"]  OBVIOUS
    <2>1. q.pc = "list"
      <3> HIDE DEF Missing
      <3> QED BY DEF Idle
    <2> QED BY <1>3, <1>4, <2>1 DEF BeginDeploy
  <1>7. ASSUME NEW i \in Rows, NEW op, NEW pc \in {"act", "halt", "remove"}
        PROVE  \E q : q = OnRow(op, pc, i) /\ q.pc = pc /\ Progress(q)'
    <2> PICK q : q = OnRow(op, pc, i)  OBVIOUS
    <2>1. q.pc = pc /\ q.row = i /\ q.name = rows[i].name /\ q.id = rows[i].id
      <3> HIDE DEF Missing
      <3> QED BY DEF OnRow, Idle
    <2>2. rows[i] \in Row /\ q.name \in Names
      BY <1>1, <2>1 DEF Rows, Base, Stored, RowMap, Row
    <2>3. i \in RowsNamed(q.name) /\ rows[i].id = host[q.name].id
      BY <2>1, <2>2 DEF RowsNamed, AllInStep, InStep
    <2>4. InStep(q.name)' /\ q.row \in RowsNamed(q.name)' /\ q.id = host'[q.name].id
      BY <1>1, <1>2, <2>1, <2>2, <2>3 DEF AllInStep, Alike, SameRows
    <2>5. OwnName(q, q.name)'
      BY <2>1, <2>4 DEF OwnName, OnContainer, Listing
    <2>6. Compared(q)'
      BY <2>1 DEF Compared
    <2>7. Progress(q)'
      BY <1>2, <2>5, <2>6 DEF Progress, AllInStep
    <2> QED BY <2>1, <2>7
  <1>8. \A i \in Rows : /\ \A action \in Actions : BeginAction(r, i, action) => Begun
                        /\ BeginRebuild(r, i) => Begun
                        /\ BeginDelete(r, i) => Begun
    <2> TAKE i \in Rows
    <2>1. rows[i].id # 0
      BY <1>1 DEF AllInStep, InStep, RowsNamed, Rows, Base, Stored, RowMap, Row
    <2>2. \A op : \A pc \in {"act", "halt", "remove"} : Begin(r, OnRow(op, pc, i)) => Begun
      BY <1>3, <1>7
    <2> QED BY <2>1, <2>2 DEF BeginAction, BeginRebuild, BeginDelete
  <1>9. Begun
    BY <1>5, <1>6, <1>8 DEF Arrives
  <1> QED BY <1>1, <1>9, Went DEF InProgress

LEMMA ExitOrders ==
    ASSUME Proceeding, NEW n \in Names, ContainerChanges(n)
    PROVE  /\ AllInStep => AllInStep'
           /\ \A q : Progress(q) => Progress(q)'
  <1>1. /\ UNCHANGED <<rows, kept>> /\ \A m \in Names : host'[m].id = host[m].id
        /\ \A m \in Names : Up(host'[m]) => Up(host[m])
    BY DEF ContainerChanges, Switched, Up, Proceeding, ContainersTyped, Base, Docked, Docker
  <1>2. \A m \in Names : Alike(m)
    BY <1>1, RowsUnchanged DEF Alike
  <1>3. ASSUME NEW q, q.name \in Names, OwnName(q, q.name)
        PROVE  OwnName(q, q.name)'
    <2>1. InStep(q.name) => InStep(q.name)'
      BY <1>1, <1>2, <1>3, StaysInStep
    <2>2. RowsNamed(q.name)' = RowsNamed(q.name) /\ host'[q.name].id = host[q.name].id
      BY <1>2, <1>3 DEF Alike, SameRows
    <2>3. Up(host'[q.name]) => Up(host[q.name])
      BY <1>1, <1>3
    <2> QED BY <1>1, <1>3, <2>1, <2>2, <2>3 DEF OwnName
  <1>4. ASSUME NEW q, Compared(q)
        PROVE  Compared(q)'
    BY <1>1, <1>4 DEF Compared
  <1>5. AllInStep => AllInStep'
    BY <1>1, <1>2, StaysInStep DEF AllInStep
  <1> QED BY <1>1, <1>2, <1>3, <1>4, <1>5, StaysInStep DEF Progress

(* Dead containers. *)
LEMMA SoundActs ==
    ASSUME Base, NEW n \in Names, NEW op, Acts(op, n), \A m \in Names : host[m].state # "dead"
    PROVE  \A m \in Names : host'[m].state # "dead"
  <1>1. After(op, host[n]) # "dead"
    BY DEF After
  <1>2. host' = Switched(n, After(op, host[n])) \/ host' = Removed(n)
    BY DEF Acts
  <1> QED BY <1>1, <1>2 DEF Switched, Removed, Absent, Base, Docked, Docker

LEMMA SoundStep ==
    ASSUME Base, NEW r \in Requests, Step(r), faults' = faults, \A m \in Names : host[m].state # "dead"
    PROVE  \A m \in Names : host'[m].state # "dead"
  <1> PICK q : q = req[r]  OBVIOUS
  <1>1. ~Fault
    BY NoFault
  <1>2. CASE UNCHANGED host
    BY <1>2
  <1>3. CASE \E n \in Names : Launch(n, "running")
    BY <1>3 DEF Launch, Base, Docked, Docker
  <1>4. CASE \E n \in Names : \E op : Acts(op, n)
    BY <1>4, SoundActs
  <1>5. CASE RemoveContainer(r)
    <2>1. host' = [n \in Names |-> IF n \in Holding(q.id) /\ ~Up(host[n]) THEN Absent ELSE host[n]]
      BY <1>1, <1>5 DEF RemoveContainer
    <2> QED BY <2>1 DEF Absent
  <1>6. CASE DockerAction(r) \/ RebuildStops(r) \/ RebuildRemoves(r) \/ DockerRun(r)
    <2>1. q.pc # "idle" /\ q.pc \notin Listing \cup AppListing /\ q \in Request /\ Carries(q)
      BY <1>6, Asking DEF DockerAction, RebuildStops, RebuildRemoves, DockerRun, At, Listing, AppListing
    <2>2. q.name \in Names /\ \A n \in Target(q) \cup Referred(q) : n \in Names
      BY <2>1, Holder DEF Carries
    <2>3. CASE DockerAction(r)
      BY <1>1, <1>2, <1>4, <2>2, <2>3 DEF DockerAction
    <2>4. CASE RebuildStops(r)
      BY <1>1, <1>2, <1>4, <2>2, <2>4 DEF RebuildStops
    <2>5. CASE RebuildRemoves(r)
      BY <1>1, <1>2, <1>4, <2>2, <2>5 DEF RebuildRemoves
    <2>6. CASE DockerRun(r)
      BY <1>1, <1>2, <1>3, <2>2, <2>6 DEF DockerRun
    <2> QED BY <1>6, <2>3, <2>4, <2>5, <2>6
  <1>7. Step(r) => RemoveContainer(r) \/ UNCHANGED host \/ DockerAction(r) \/ RebuildStops(r) \/ RebuildRemoves(r) \/ DockerRun(r)
    BY DEF Step, ListContainers, ReadRows, WriteRows, AssertNameAvailable, CreateRow, SettleDeployment, CatchDeployment,
           MatchRows, PersistSource, Inspect, UpdateRow, DeleteRelatedAppInstalls, EraseRow
  <1> QED BY <1>2, <1>5, <1>6, <1>7

LEMMA SoundNext ==
    ASSUME Base, Base', Sound, [Next]_vars
    PROVE  Sound'
  <1> SUFFICES ASSUME faults' = 0 PROVE \A m \in Names : host'[m].state # "dead"
    BY DEF Sound
  <1>1. faults \in Nat
    BY InventoryAssumption DEF Base, Counted
  <1>2. faults' = faults \/ Fault => faults' = faults /\ \A m \in Names : host[m].state # "dead"
    BY <1>1 DEF Sound, Fault
  <1>3. ASSUME NEW r \in Requests, Step(r)
        PROVE  \A m \in Names : host'[m].state # "dead"
    <2>1. faults' = faults \/ Fault
      BY <1>3 DEF Step, ListContainers, ReadRows, WriteRows, AssertNameAvailable, CreateRow,
             DockerRun, SettleDeployment, CatchDeployment, MatchRows, PersistSource, DockerAction, Inspect,
             UpdateRow, RemoveContainer, DeleteRelatedAppInstalls, EraseRow, RebuildStops, RebuildRemoves
    <2> QED BY <1>2, <1>3, <2>1, SoundStep
  <1>4. ASSUME NEW r \in Requests, Arrives(r)
        PROVE  \A m \in Names : host'[m].state # "dead"
    <2>1. UNCHANGED <<host, faults>>
      BY <1>4 DEF Arrives, BeginSync, BeginDeploy, BeginAction, BeginRebuild, BeginDelete, Begin
    <2> QED BY <1>2, <2>1
  <1>5. ASSUME NEW n \in Names, ContainerChanges(n)
        PROVE  \A m \in Names : host'[m].state # "dead"
    BY <1>2, <1>5 DEF ContainerChanges, Switched, Base, Docked, Docker
  <1>6. CASE PanelRestarts
    BY <1>2, <1>6 DEF PanelRestarts
  <1>7. CASE UNCHANGED vars
    BY <1>2, <1>7 DEF vars
  <1> QED BY <1>3, <1>4, <1>5, <1>6, <1>7 DEF Next

LEMMA SoundInit ==
    ASSUME Init
    PROVE  Sound
  <1>1. \A n \in Names : host[n].state \in {"running", "exited"}
    BY DEF Init, Absent
  <1> QED BY <1>1 DEF Sound

LEMMA OrderlyNext ==
    ASSUME Proceeding, Orderly, [Next]_vars
    PROVE  Proceeding' /\ Orderly'
  <1>1. Proceeding'
    <2>1. (ContainersTyped /\ Named)'
      BY NamedNext DEF Proceeding
    <2>2. Sound'
      BY <2>1, SoundNext DEF Proceeding, ContainersTyped
    <2> QED BY <2>1, <2>2 DEF Proceeding
  <1> SUFFICES ASSUME Undisturbed' PROVE Orderly'
    BY <1>1 DEF Orderly
  <1>2. Base /\ Base' /\ faults \in Nat
    BY <1>1, InventoryAssumption DEF Proceeding, ContainersTyped, Base, Counted
  <1>3. ASSUME NEW r \in Requests, Step(r)
        PROVE  Orderly'
    <2>1. Elsewhere(r) /\ InProgress(r) /\ overlapped' = overlapped /\ (faults' = faults \/ Fault)
      <3>1. Elsewhere(r)
        BY <1>3, StepBase DEF Proceeding, KeptBy
      <3>2. InProgress(r)
        BY <1>3 DEF Step, At, InProgress, ListContainers, ReadRows, WriteRows, AssertNameAvailable, CreateRow,
               DockerRun, SettleDeployment, CatchDeployment, MatchRows, PersistSource, DockerAction, Inspect,
               UpdateRow, RemoveContainer, DeleteRelatedAppInstalls, EraseRow, RebuildStops, RebuildRemoves
      <3>3. overlapped' = overlapped /\ (faults' = faults \/ Fault)
        BY <1>3 DEF Step, ListContainers, ReadRows, WriteRows, AssertNameAvailable, CreateRow,
               DockerRun, SettleDeployment, CatchDeployment, MatchRows, PersistSource, DockerAction, Inspect,
               UpdateRow, RemoveContainer, DeleteRelatedAppInstalls, EraseRow, RebuildStops, RebuildRemoves
      <3> QED BY <3>1, <3>2, <3>3
    <2>2. Undisturbed /\ faults = 0 /\ faults' = faults
      BY <1>2, <2>1 DEF Undisturbed, Fault
    <2>3. Ordered(r)'
      BY <1>3, <2>1, <2>2, StepOrders DEF Orderly
    <2>4. \A s \in Requests : s # r => ~InProgress(s)'
      BY <1>2, <2>1, <2>2, IdleIsFormed DEF Base, Alone, Undisturbed, Elsewhere, InProgress
    <2> QED BY <1>3, <2>3, <2>4 DEF Orderly, Ordered, AllIdle, InProgress
  <1>4. ASSUME NEW r \in Requests, Arrives(r)
        PROVE  Orderly'
    <2>1. /\ UNCHANGED faults /\ overlapped' = (overlapped \/ \E s \in Requests : InProgress(s))
          /\ \A s \in Requests : s # r => req'[s] = req[s]
      BY <1>2, <1>4, BegunDeploysNot
    <2>2. Undisturbed /\ AllIdle
      BY <2>1, <1>2 DEF Undisturbed, AllIdle, Base, Counted
    <2>3. Ordered(r)' /\ InProgress(r)'
      BY <1>4, <2>2, ArrivesOrders DEF Orderly
    <2>4. \A s \in Requests : s # r => ~InProgress(s)'
      BY <2>1, <2>2 DEF AllIdle, InProgress
    <2> QED BY <1>4, <2>3, <2>4 DEF Orderly, Ordered, AllIdle, InProgress
  <1>5. ASSUME NEW n \in Names, ContainerChanges(n)
        PROVE  Orderly'
    <2>1. UNCHANGED <<req, overlapped, faults>>
      BY <1>5 DEF ContainerChanges
    <2>2. Undisturbed
      BY <2>1 DEF Undisturbed
    <2> QED BY <1>5, <2>1, <2>2, ExitOrders DEF Orderly, AllIdle, InProgress
  <1>6. CASE PanelRestarts
    BY <1>2, <1>6 DEF PanelRestarts, Fault, Undisturbed
  <1>7. CASE UNCHANGED vars
    <2>1. UNCHANGED <<host, rows, req, kept, overlapped, faults>>
      BY <1>7 DEF vars
    <2> QED BY <2>1 DEF Orderly, Undisturbed, AllIdle, InProgress, AllInStep, InStep, RowsNamed, Rows, Progress, OwnName, Compared
  <1> QED BY <1>3, <1>4, <1>5, <1>6, <1>7 DEF Next

LEMMA OrderlyInit ==
    ASSUME Init
    PROVE  Orderly
  <1>1. AllInStep
    <2> PICK numbered \in {f \in [Names -> 0..Cardinality(Names)] :
                            \A n, m \in Names : f[n] # 0 /\ f[n] = f[m] => n = m},
           origin \in [Names -> {"plain", "git", "app"}] :
        LET used == {n \in Names : numbered[n] # 0}
        IN  /\ {numbered[n] : n \in used} = 1..Cardinality(used)
            /\ host = [n \in Names |-> IF n \in used THEN [id |-> numbered[n], state |-> "running"]
                                                     ELSE Absent]
            /\ rows = [i \in RowIds |->
                  IF i > Cardinality(used) THEN None
                  ELSE LET n == CHOOSE m \in Names : numbered[m] = i
                       IN  [name |-> n, id |-> i, status |-> "RUNNING", source |-> origin[n]]]
      BY ZenonT(60) DEF Init
    <2> DEFINE used == {n \in Names : numbered[n] # 0}
    <2> DEFINE c == Cardinality(used)
    <2>1. c \in Nat /\ c <= MaxRow /\ MaxRow \in Nat
      BY InventoryAssumption, FS_Subset, FS_CardinalityType
    <2>2. \A i \in 1..c : (CHOOSE m \in Names : numbered[m] = i) \in Names /\ numbered[CHOOSE m \in Names : numbered[m] = i] = i
      OBVIOUS
    <2>3. \A n \in used : numbered[n] \in 1..c /\ numbered[n] # 0
      OBVIOUS
    <2>4. \A n \in Names : host[n].id = numbered[n]
      BY DEF Absent
    <2>5. \A i \in RowIds : IF i <= c THEN numbered[rows[i].name] = i /\ rows[i].name \in Names /\ rows[i].id = i
                            ELSE rows[i] = None
      BY <2>1, <2>2 DEF RowIds
    <2>6. \A n \in Names : \A i \in RowsNamed(n) : i \in RowIds /\ i <= c /\ numbered[n] = i /\ rows[i].id = i /\ i # 0
      <3> SUFFICES ASSUME NEW n \in Names, NEW i \in RowsNamed(n)
                   PROVE  i \in RowIds /\ i <= c /\ numbered[n] = i /\ rows[i].id = i /\ i # 0
        OBVIOUS
      <3>1. i \in RowIds /\ rows[i] # None /\ rows[i].name = n
        BY DEF RowsNamed, Rows
      <3>2. i # 0
        BY <2>1, <3>1 DEF RowIds
      <3> HIDE DEF c
      <3> QED BY <2>5, <3>1, <3>2
    <2>7. \A n \in used : numbered[n] \in RowIds /\ rows[numbered[n]].name = n /\ rows[numbered[n]] \in Row
      <3> TAKE n \in used
      <3>1. numbered[n] \in RowIds /\ numbered[n] <= c
        BY <2>1, <2>3 DEF RowIds
      <3>2. numbered[rows[numbered[n]].name] = numbered[n] /\ rows[numbered[n]].name \in Names
        BY <2>5, <3>1
      <3>3. rows[numbered[n]].name = n
        BY <2>3, <3>2
      <3>4. rows[numbered[n]] = [name |-> CHOOSE m \in Names : numbered[m] = numbered[n], id |-> numbered[n], status |-> "RUNNING",
                                 source |-> origin[CHOOSE m \in Names : numbered[m] = numbered[n]]]
        BY <2>1, <3>1 DEF RowIds
      <3>5. (CHOOSE m \in Names : numbered[m] = numbered[n]) = n
        BY <3>3, <3>4
      <3>6. numbered[n] \in 0..MaxId
        BY <2>1, <2>3, InventoryAssumption, FS_Subset, FS_CardinalityType
      <3> QED BY <3>1, <3>3, <3>4, <3>5, <3>6 DEF Row, Statuses
    <2>8. \A n \in Names : RowsNamed(n) = {} => numbered[n] = 0
      <3> SUFFICES ASSUME NEW n \in used PROVE RowsNamed(n) # {}
        OBVIOUS
      <3>0. rows[numbered[n]] \in Row
        BY <2>7
      <3>1. rows[numbered[n]] # None
        BY ONLY <3>0, NoneIsNoRow
      <3>2. numbered[n] \in RowsNamed(n)
        BY <2>7, <3>1 DEF RowsNamed, Rows
      <3> QED BY <3>2
    <2> HIDE DEF c
    <2>9. \A n \in Names : /\ \A i, j \in RowsNamed(n) : i = j
                           /\ \A i \in RowsNamed(n) : rows[i].id = host[n].id /\ host[n].id # 0
      BY ONLY <2>4, <2>6
    <2>10. \A n \in Names : RowsNamed(n) = {} => host[n].id = 0
      BY <2>4, <2>8
    <2> QED BY <2>9, <2>10 DEF AllInStep, InStep
  <1>2. \A r \in Requests : ~InProgress(r)
    BY IdleIsFormed DEF Init, InProgress
  <1> QED BY <1>1, <1>2 DEF Orderly

LEMMA OrderStays == Spec => [](Proceeding /\ Orderly)
  <1>1. Proceeding /\ Orderly /\ [Next]_vars => (Proceeding /\ Orderly)'
    BY OrderlyNext
  <1>2. Init => Orderly
    BY OrderlyInit
  <1>3. Spec => [](ContainersTyped /\ Named)
    BY NamesStay
  <1>4. Init => Sound
    BY SoundInit
  <1> QED BY <1>1, <1>2, <1>3, <1>4, PTL DEF Spec, Proceeding

\* Requests that come one after the other, without a failure of docker, leave an inventory
\* that is exact: a row names the container docker has, a container has one row, and only
\* those that a DELETE gave up have none (syncContainersForServers and its callers).
THEOREM InventoryIsExact == Spec => []InventoryExact
  <1>1. Proceeding /\ Orderly => InventoryExact
    <2> SUFFICES ASSUME Proceeding, Orderly, Undisturbed, AllIdle
                 PROVE  /\ \A i \in Rows : rows[i].id # 0 => host[rows[i].name].id = rows[i].id
                        /\ \A i, j \in Rows : rows[i].name = rows[j].name => i = j
                        /\ \A n \in Names : host[n] # Absent /\ RowsNamed(n) = {} => host[n].id \in kept
      BY DEF InventoryExact
    <2>1. \A n \in Names : InStep(n)
      BY DEF Orderly, AllInStep
    <2>2. \A i \in Rows : rows[i].name \in Names /\ i \in RowsNamed(rows[i].name)
      BY DEF Proceeding, ContainersTyped, Base, Stored, RowMap, Row, Rows, RowsNamed
    <2>3. \A n \in Names : host[n].id = 0 => host[n] = Absent
      BY DEF Proceeding, ContainersTyped, Base, Docked, Distinct
    <2>4. \A i \in Rows : host[rows[i].name].id = rows[i].id
      BY <2>1, <2>2 DEF InStep
    <2>5. \A i, j \in Rows : rows[i].name = rows[j].name => i = j
      BY <2>1, <2>2 DEF InStep
    <2>6. \A n \in Names : host[n] # Absent /\ RowsNamed(n) = {} => host[n].id \in kept
      BY <2>1, <2>3 DEF InStep
    <2> QED BY <2>4, <2>5, <2>6
  <1> QED BY <1>1, OrderStays, PTL

-----------------------------------------------------------------------------
(* Installations. *)
\* The steps of an operation on an installation.
Installing == {"launch", "find", "upsert", "running", "failed"}
Rebuilding == {"resolve", "reinstall", "halt", "clear", "launch", "mark", "running", "failed", "markError"}
Probing == {"probe", "probeRows", "probeInstalls", "enter"}
OnInstallation(op, pc) ==
    \/ op = "installApp" /\ pc \in Installing
    \/ op = "rebuildApp" /\ pc \in Rebuilding
    \/ op \in {"startApp", "stopApp", "restartApp"} /\ pc \in {"appAct", "record"}
    \/ op = "removeApp" /\ pc \in {"halt", "clear"}
OfAnApp(op, pc) == (op = "installApp" /\ pc \in Probing) \/ (op = "removeApp" /\ pc \in {"dropRows", "dropInstalls"})

LEMMA AppFormed ==
    ASSUME NEW p \in Request,
           \/ p.name \in Names /\ p.install # 0 /\ OnInstallation(p.op, p.pc)
           \/ p.name \in Names /\ OfAnApp(p.op, p.pc)
           \/ p.op = "listApps" /\ p.pc \in AppListing
    PROVE  Formed(p)
  BY DEF Formed, Belongs, Carries, OnInstallation, OfAnApp, Installing, Rebuilding, Probing, Listing, AppListing, Entering

LEMMA AppFacts ==
    ASSUME Base, NEW r \in Requests, req[r].op # "rebuild"
    PROVE  /\ req[r] \in Request /\ req[r].install \in InstallNumbers
           /\ req[r].pc \in Probing => req[r].name \in Names /\ req[r].op = "installApp"
           /\ req[r].pc \in Installing \cup Rebuilding \cup {"appAct", "record"} =>
                 req[r].name \in Names /\ req[r].install # 0 /\ OnInstallation(req[r].op, req[r].pc)
           /\ req[r].pc \in {"dropRows", "dropInstalls"} => req[r].name \in Names /\ req[r].op = "removeApp"
           /\ req[r].pc \in AppListing => req[r].op = "listApps"
  <1>1. req[r] \in Request /\ Belongs(req[r]) /\ Carries(req[r])
    BY Asking
  <1>2. req[r].install \in InstallNumbers
    BY <1>1 DEF Request
  <1> QED BY <1>1, <1>2 DEF Belongs, Carries, OnInstallation, Installing, Rebuilding, Probing, Listing, AppListing, Entering

LEMMA AppGoes ==
    ASSUME Base, NEW r \in Requests, NEW pc \in Pcs, Go(r, pc),
           \/ req[r].name \in Names /\ req[r].install # 0 /\ OnInstallation(req[r].op, pc)
           \/ req[r].name \in Names /\ OfAnApp(req[r].op, pc)
           \/ req[r].op = "listApps" /\ pc \in AppListing
    PROVE  Continues(r)
  <1> PICK p : p = [req[r] EXCEPT !.pc = pc]  OBVIOUS
  <1>1. p \in Request /\ p.pc = pc /\ p.op = req[r].op /\ p.name = req[r].name /\ p.install = req[r].install
    BY Asking, AtPc
  <1>2. Formed(p)
    BY <1>1, AppFormed
  <1> QED BY <1>1, <1>2 DEF Continues, Go, Puts

LEMMA AppContinues ==
    ASSUME Base, NEW r \in Requests, NEW p \in Request, req' = [req EXCEPT ![r] = p], p.op = req[r].op,
           \/ p.name \in Names /\ p.install # 0 /\ OnInstallation(p.op, p.pc)
           \/ p.name \in Names /\ OfAnApp(p.op, p.pc)
           \/ p.op = "listApps" /\ p.pc \in AppListing
    PROVE  Continues(r)
  BY AppFormed DEF Continues, Puts

LEMMA InstallStatus ==
    ASSUME Base, NEW i \in InstallNumbers, i # 0, installs[i] # None, NEW st,
           st \in {"INSTALLING", "STARTING", "RUNNING", "STOPPED", "FAILED"}
    PROVE  /\ [installs EXCEPT ![i].status = st] \in InstallMap
           /\ i \in InstallIds /\ installs[i] \in Install
           /\ [installs[i] EXCEPT !.status = st] \in Install
  <1>1. i \in InstallIds
    BY InventoryAssumption DEF InstallNumbers, InstallIds
  <1>2. installs[i] \in Install
    BY <1>1 DEF Base, InstallMap
  <1>3. [installs[i] EXCEPT !.status = st] \in Install
    BY <1>2 DEF Install
  <1> QED BY <1>1, <1>2, <1>3 DEF Base, InstallMap

(* An installation. *)
LEMMA ProbesBase ==
    ASSUME Base, NEW r \in Requests, req[r].op # "rebuild", Probe(r) \/ ProbeRows(r) \/ ProbeInstalls(r)
    PROVE  KeptBy(r)
  <1>1. req[r].pc \in Probing /\ InProgress(r)
    BY DEF Probe, ProbeRows, ProbeInstalls, At, Probing, InProgress
  <1>2. \A pc \in {"probeRows", "probeInstalls", "enter"} : Go(r, pc) => Continues(r)
    BY <1>1, AppFacts, AppGoes DEF OfAnApp, Probing, Pcs
  <1>3. Continues(r) /\ (faults' = faults \/ Fault)
    BY <1>2, Replies DEF Probe, ProbeRows, ProbeInstalls
  <1> QED BY <1>1, <1>3, Undone, Steps DEF Probe, ProbeRows, ProbeInstalls, Others, Base, Counted

LEMMA EnterInstallBase ==
    ASSUME Base, NEW r \in Requests, req[r].op # "rebuild", installed \in InstallNumbers, EnterInstall(r)
    PROVE  KeptBy(r) /\ installed' \in InstallNumbers
  <1> PICK q : q = req[r]  OBVIOUS
  <1>1. q \in Request /\ q.name \in Names /\ q.op = "installApp" /\ InProgress(r)
    BY AppFacts DEF EnterInstall, At, Probing, InProgress
  <1>2. installed + 1 \in InstallNumbers /\ installed + 1 # 0
    BY InventoryAssumption DEF InstallNumbers, EnterInstall
  <1> PICK p : p = [q EXCEPT !.pc = "launch", !.install = installed + 1]  OBVIOUS
  <1>3. p \in Request
    <2>1. "launch" \in Pcs
      BY DEF Pcs
    <2> QED BY <1>1, <1>2, <2>1 DEF Request
  <1>4. p.pc = "launch" /\ p.op = q.op /\ p.name = q.name /\ p.install = installed + 1
    BY <1>1 DEF Request
  <1>5. req' = [req EXCEPT ![r] = p]
    BY DEF EnterInstall
  <1>6. Continues(r)
    BY <1>1, <1>2, <1>3, <1>4, <1>5, AppContinues DEF OnInstallation, Installing
  <1>7. (installs \in InstallMap)'
    <2>1. [name |-> q.name, status |-> "INSTALLING"] \in Install
      BY <1>1 DEF Install
    <2> QED BY <2>1 DEF EnterInstall, Base, InstallMap
  <1> QED BY <1>1, <1>2, <1>6, <1>7, Undone, Steps DEF EnterInstall, Others, Base, Counted

LEMMA LaunchAppBase ==
    ASSUME Base, NEW r \in Requests, req[r].op # "rebuild", LaunchApp(r)
    PROVE  KeptBy(r)
  <1> PICK q : q = req[r]  OBVIOUS
  <1>1. q \in Request /\ q.name \in Names /\ q.install # 0 /\ q.op \in {"installApp", "rebuildApp"} /\ InProgress(r)
    BY AppFacts DEF LaunchApp, At, OnInstallation, Installing, Rebuilding, InProgress
  <1>2. Go(r, "failed") => Continues(r)
    BY <1>1, AppGoes DEF OnInstallation, Installing, Rebuilding, Pcs
  <1>3. Docked'
    <2>1. \/ \E state \in States : Launch(q.name, state)
          \/ UNCHANGED <<host, dockerIds>>
      BY DEF LaunchApp, States
    <2> QED BY <1>1, <2>1, Launching, Undone DEF Base
  <1>4. ASSUME Launch(q.name, "running"), req' = [req EXCEPT ![r].pc = IF q.op = "installApp" THEN "find" ELSE "mark",
                                                        ![r].id = dockerIds + 1]
        PROVE  Continues(r)
    <2>1. dockerIds + 1 \in DockerIds
      BY <1>1, <1>4, Launching DEF Base, States
    <2> PICK pc : pc = IF q.op = "installApp" THEN "find" ELSE "mark"  OBVIOUS
    <2> PICK p : p = [q EXCEPT !.pc = pc, !.id = dockerIds + 1]  OBVIOUS
    <2>2. p \in Request
      <3>1. pc \in Pcs
        BY DEF Pcs
      <3> QED BY <1>1, <2>1, <3>1 DEF Request
    <2>3. p.pc = pc /\ p.op = q.op /\ p.name = q.name /\ p.install = q.install
      BY <1>1 DEF Request
    <2>4. req' = [req EXCEPT ![r] = p]
      BY <1>4
    <2>5. OnInstallation(p.op, p.pc)
      BY <1>1, <2>3 DEF OnInstallation, Installing, Rebuilding
    <2> QED BY <1>1, <2>2, <2>3, <2>4, <2>5, AppContinues
  <1>5. Continues(r) /\ (faults' = faults \/ Fault)
    BY <1>2, <1>4 DEF LaunchApp
  <1> QED BY <1>1, <1>3, <1>5, Undone, Steps DEF LaunchApp, Others, Base, Counted

LEMMA FindContainerRowBase ==
    ASSUME Base, NEW r \in Requests, req[r].op # "rebuild", FindContainerRow(r)
    PROVE  KeptBy(r)
  <1> PICK q : q = req[r]  OBVIOUS
  <1>1. q \in Request /\ q.name \in Names /\ q.install # 0 /\ q.op = "installApp" /\ InProgress(r)
    BY AppFacts DEF FindContainerRow, At, OnInstallation, Installing, Rebuilding, InProgress
  <1>2. PICK i \in RowsNamed(q.name) \cup (IF RowsNamed(q.name) = {} THEN {0} ELSE {}) :
          req' = [req EXCEPT ![r].pc = "upsert", ![r].row = i]
    BY DEF FindContainerRow
  <1>3. i \in RowNumbers
    BY InventoryAssumption DEF RowsNamed, Rows, RowNumbers, RowIds
  <1> PICK p : p = [q EXCEPT !.pc = "upsert", !.row = i]  OBVIOUS
  <1>4. p \in Request
    <2>1. "upsert" \in Pcs
      BY DEF Pcs
    <2> QED BY <1>1, <1>3, <2>1 DEF Request
  <1>5. p.pc = "upsert" /\ p.op = q.op /\ p.name = q.name /\ p.install = q.install
    BY <1>1 DEF Request
  <1>6. req' = [req EXCEPT ![r] = p]
    BY <1>2
  <1>7. Continues(r)
    BY <1>1, <1>4, <1>5, <1>6, AppContinues DEF OnInstallation, Installing
  <1> QED BY <1>1, <1>7, Undone, Steps DEF FindContainerRow, Others, Base, Counted

LEMMA UpsertContainerRowBase ==
    ASSUME Base, NEW r \in Requests, req[r].op # "rebuild", UpsertContainerRow(r)
    PROVE  KeptBy(r)
  <1> PICK q : q = req[r]  OBVIOUS
  <1>1. q \in Request /\ q.name \in Names /\ q.install # 0 /\ q.op = "installApp" /\ InProgress(r)
    BY AppFacts DEF UpsertContainerRow, At, OnInstallation, Installing, Rebuilding, InProgress
  <1>2. Go(r, "failed") \/ Go(r, "running") => Continues(r)
    BY <1>1, AppGoes DEF OnInstallation, Installing, Rebuilding, Pcs
  <1>3. AppRow(q) \in Row
    BY <1>1 DEF AppRow, Row, Statuses, Request, DockerIds
  <1>4. Stored'
    <2>1. CASE q.row = 0
      <3>1. created < MaxRow /\ created' = created + 1 /\ rows' = [rows EXCEPT ![created + 1] = AppRow(q)]
        BY <2>1 DEF UpsertContainerRow
      <3>2. created + 1 \in RowIds /\ created + 1 \in RowNumbers /\ created \in Nat
        BY <3>1, InventoryAssumption DEF RowIds, RowNumbers, Base, Stored
      <3>3. rows' \in RowMap /\ \A i \in RowIds : i # created + 1 => rows'[i] = rows[i]
        BY <1>3, <3>1 DEF Stored, Base, RowMap
      <3> QED BY <3>1, <3>2, <3>3 DEF Stored, Base, RowIds
    <2>2. CASE q.row # 0 /\ rows[q.row] = None
      BY <2>2, Undone DEF UpsertContainerRow
    <2>3. CASE q.row # 0 /\ rows[q.row] # None
      <3>1. rows' = [rows EXCEPT ![q.row] = AppRow(q)] /\ created' = created
        BY <2>3 DEF UpsertContainerRow
      <3> QED BY <1>1, <1>3, <2>3, <3>1, AtRow, Overwrites
    <2> QED BY <2>1, <2>2, <2>3
  <1>5. Continues(r)
    BY <1>2 DEF UpsertContainerRow
  <1> QED BY <1>1, <1>4, <1>5, Undone, Steps DEF UpsertContainerRow, Others, Base, Counted

LEMMA SucceedInstallBase ==
    ASSUME Base, NEW r \in Requests, req[r].op # "rebuild", SucceedInstall(r)
    PROVE  KeptBy(r)
  <1> PICK q : q = req[r]  OBVIOUS
  <1>1. /\ q \in Request /\ q.name \in Names /\ q.install # 0 /\ q.op \in {"installApp", "rebuildApp"} /\ InProgress(r)
        /\ q.install \in InstallNumbers
    BY AppFacts DEF SucceedInstall, At, OnInstallation, Installing, Rebuilding, InProgress
  <1>2. Go(r, "failed") => Continues(r)
    BY <1>1, AppGoes DEF OnInstallation, Installing, Rebuilding, Pcs
  <1>3. Continues(r)
    BY <1>2, Replies DEF SucceedInstall
  <1>4. (installs \in InstallMap)'
    BY <1>1, InstallStatus DEF SucceedInstall, Base
  <1> QED BY <1>1, <1>3, <1>4, Undone, Steps DEF SucceedInstall, Others, Base, Counted

LEMMA FailInstallBase ==
    ASSUME Base, NEW r \in Requests, req[r].op # "rebuild", FailInstall(r)
    PROVE  KeptBy(r)
  <1> PICK q : q = req[r]  OBVIOUS
  <1>1. /\ q \in Request /\ q.name \in Names /\ q.install # 0 /\ q.op \in {"installApp", "rebuildApp"} /\ InProgress(r)
        /\ q.install \in InstallNumbers
    BY AppFacts DEF FailInstall, At, OnInstallation, Installing, Rebuilding, InProgress
  <1>2. q.op # "installApp" /\ Go(r, "markError") => Continues(r)
    BY <1>1, AppGoes DEF OnInstallation, Installing, Rebuilding, Pcs
  <1>3. (installs \in InstallMap)'
    BY <1>1, InstallStatus DEF FailInstall, FailedInstall, Base
  <1>4. CASE ~InstallRejects(r)
    <2>1. Continues(r) /\ UNCHANGED killed
      BY <1>2, <1>4, Replies DEF FailInstall
    <2> QED BY <1>1, <1>3, <2>1, Undone, Steps DEF FailInstall, Others, Base, Counted
  <1>5. CASE InstallRejects(r)
    BY <1>3, <1>5, Undone, EndsAll DEF FailInstall, Others, Base, Counted
  <1> QED BY <1>4, <1>5

-----------------------------------------------------------------------------
(* Rebuilds, removals, lists of apps. *)
LEMMA ResolveBase ==
    ASSUME Base, NEW r \in Requests, req[r].op # "rebuild", ResolveRuntimeConfig(r) \/ Reinstall(r)
    PROVE  KeptBy(r)
  <1> PICK q : q = req[r]  OBVIOUS
  <1>1. /\ q \in Request /\ q.name \in Names /\ q.install # 0 /\ q.op = "rebuildApp" /\ InProgress(r)
        /\ q.install \in InstallNumbers
    BY AppFacts DEF ResolveRuntimeConfig, Reinstall, At, OnInstallation, Installing, Rebuilding, InProgress
  <1>2. \A pc \in {"reinstall", "halt"} : Go(r, pc) => Continues(r)
    BY <1>1, AppGoes DEF OnInstallation, Installing, Rebuilding, Pcs
  <1>3. Continues(r)
    BY <1>2, Replies DEF ResolveRuntimeConfig, Reinstall
  <1>4. (installs \in InstallMap)'
    BY <1>1, InstallStatus DEF ResolveRuntimeConfig, Reinstall, Base
  <1> QED BY <1>1, <1>3, <1>4, Undone, Steps DEF ResolveRuntimeConfig, Reinstall, Others, Base, Counted

LEMMA StopAppBase ==
    ASSUME Base, NEW r \in Requests, req[r].op # "rebuild", StopApp(r)
    PROVE  KeptBy(r)
  <1> PICK q : q = req[r]  OBVIOUS
  <1>1. q \in Request /\ q.name \in Names /\ q.install # 0 /\ q.op \in {"rebuildApp", "removeApp"} /\ InProgress(r)
    BY AppFacts DEF StopApp, At, OnInstallation, Installing, Rebuilding, InProgress
  <1>2. Continues(r) /\ (faults' = faults \/ Fault)
    BY <1>1, AppGoes DEF StopApp, OnInstallation, Installing, Rebuilding, Pcs
  <1>3. Docked'
    <2>1. host' = Switched(q.name, After("stop", host[q.name])) \/ UNCHANGED host
      BY DEF StopApp
    <2>2. dockerIds' = dockerIds
      BY DEF StopApp
    <2>3. host[q.name].state \in States /\ (host[q.name].id = 0 => host[q.name].state = "exited")
      BY <1>1 DEF Base, Docked, Docker, Distinct, Absent
    <2>4. After("stop", host[q.name]) \in States /\ (host[q.name].id # 0 \/ After("stop", host[q.name]) = host[q.name].state)
      BY <2>3 DEF After, Up, States
    <2> QED BY <1>1, <2>1, <2>2, <2>4, Switching, Undone DEF Base
  <1> QED BY <1>1, <1>2, <1>3, Undone, Steps DEF StopApp, Others, Base, Counted

LEMMA RemoveAppBase ==
    ASSUME Base, NEW r \in Requests, req[r].op # "rebuild", RemoveApp(r)
    PROVE  KeptBy(r)
  <1> PICK q : q = req[r]  OBVIOUS
  <1>1. q \in Request /\ q.name \in Names /\ q.install # 0 /\ q.op \in {"rebuildApp", "removeApp"} /\ InProgress(r)
    BY AppFacts DEF RemoveApp, At, OnInstallation, Installing, Rebuilding, InProgress
  <1>2. /\ q.op = "rebuildApp" /\ Go(r, "launch") => Continues(r)
        /\ q.op # "rebuildApp" /\ Go(r, "dropRows") => Continues(r)
    BY <1>1, AppGoes DEF OnInstallation, OfAnApp, Installing, Rebuilding, Pcs
  <1>3. Continues(r) /\ (faults' = faults \/ Fault)
    BY <1>2, Replies DEF RemoveApp
  <1>4. Docked'
    <2>1. \/ host' = Removed(q.name)
          \/ UNCHANGED host
          \/ host[q.name].id # 0 /\ ActsUnseen("rm", q.name)
      <3>1. host[q.name] # Absent => host[q.name].id # 0
        BY <1>1 DEF Base, Docked, Distinct
      <3> QED BY <3>1 DEF RemoveApp, Acts
    <2>2. dockerIds' = dockerIds
      BY DEF RemoveApp
    <2> QED BY <1>1, <2>1, <2>2, Acted, Removing, Undone DEF Base
  <1> QED BY <1>1, <1>3, <1>4, Undone, Steps DEF RemoveApp, Others, Base, Counted

LEMMA MarksBase ==
    ASSUME Base, NEW r \in Requests, req[r].op # "rebuild", MarkRows(r) \/ MarkRowsInError(r)
    PROVE  KeptBy(r)
  <1> PICK q : q = req[r]  OBVIOUS
  <1>1. q \in Request /\ q.name \in Names /\ q.install # 0 /\ q.op = "rebuildApp" /\ InProgress(r)
    BY AppFacts DEF MarkRows, MarkRowsInError, At, OnInstallation, Installing, Rebuilding, InProgress
  <1>2. Go(r, "running") => Continues(r)
    BY <1>1, AppGoes DEF OnInstallation, Installing, Rebuilding, Pcs
  <1>3. Continues(r)
    BY <1>2, Replies DEF MarkRows, MarkRowsInError
  <1>4. \A x \in Row : \A st \in Statuses, id \in DockerIds :
            [x EXCEPT !.status = st] \in Row /\ [x EXCEPT !.status = st, !.id = id] \in Row
    BY DEF Row, DockerIds
  <1>5. q.id \in DockerIds /\ {"RUNNING", "ERROR"} \subseteq Statuses
    BY <1>1 DEF Request, Statuses
  <1>6. \A i \in RowsNamed(q.name) : i \in RowIds /\ rows[i] # None /\ rows[i] \in Row
    BY DEF RowsNamed, Rows, Base, Stored, RowMap
  <1>7. rows' \in RowMap /\ \A i \in RowIds : rows'[i] # None => rows[i] # None
    <2>1. \A i \in RowIds : rows'[i] \in Row \cup {None} /\ (rows'[i] # None => rows[i] # None)
      <3>1. \A i \in RowIds : rows[i] \in Row \cup {None}
        BY DEF Base, Stored, RowMap
      <3>2. CASE MarkRows(r)
        BY <1>4, <1>5, <1>6, <3>1, <3>2 DEF MarkRows, Marked
      <3>3. CASE MarkRowsInError(r)
        BY <1>4, <1>5, <1>6, <3>1, <3>3 DEF MarkRowsInError
      <3> QED BY <3>2, <3>3
    <2>2. rows' = [i \in RowIds |-> rows'[i]]
      BY DEF MarkRows, MarkRowsInError, Marked
    <2> QED BY <2>1, <2>2 DEF RowMap
  <1>8. Stored'
    BY <1>7, Overwriting DEF MarkRows, MarkRowsInError
  <1> QED BY <1>1, <1>3, <1>8, Undone, Steps DEF MarkRows, MarkRowsInError, Others, Base, Counted

LEMMA ActOnAppBase ==
    ASSUME Base, NEW r \in Requests, req[r].op # "rebuild", ActOnApp(r)
    PROVE  KeptBy(r)
  <1> PICK q : q = req[r]  OBVIOUS
  <1>1. q \in Request /\ q.name \in Names /\ q.install # 0 /\ q.op \in {"startApp", "stopApp", "restartApp"} /\ InProgress(r)
    BY AppFacts DEF ActOnApp, At, OnInstallation, Installing, Rebuilding, InProgress
  <1>2. Go(r, "record") => Continues(r)
    BY <1>1, AppGoes DEF OnInstallation, Installing, Rebuilding, Pcs
  <1>3. Continues(r) /\ (faults' = faults \/ Fault)
    BY <1>2, Replies DEF ActOnApp
  <1>4. Docked'
    <2>1. (host[q.name] # Absent /\ \E op : Acts(op, q.name)) \/ UNCHANGED host
      BY DEF ActOnApp
    <2>2. dockerIds' = dockerIds
      BY DEF ActOnApp
    <2>3. host[q.name] # Absent => host[q.name].id # 0
      BY <1>1 DEF Base, Docked, Distinct
    <2> QED BY <1>1, <2>1, <2>2, <2>3, Acted, Undone DEF Base, ActsUnseen
  <1> QED BY <1>1, <1>3, <1>4, Undone, Steps DEF ActOnApp, Others, Base, Counted

LEMMA RecordActionBase ==
    ASSUME Base, NEW r \in Requests, req[r].op # "rebuild", RecordAction(r)
    PROVE  KeptBy(r)
  <1> PICK q : q = req[r]  OBVIOUS
  <1>1. /\ q.install # 0 /\ q.op \in {"startApp", "stopApp", "restartApp"} /\ InProgress(r)
        /\ q.install \in InstallNumbers
    BY AppFacts DEF RecordAction, At, OnInstallation, Installing, Rebuilding, InProgress
  <1>2. (installs \in InstallMap)'
    <2> PICK st : st = mapLifecycleActionToInstallStatus(q.op)  OBVIOUS
    <2>1. installs' = IF installs[q.install] = None THEN installs ELSE [installs EXCEPT ![q.install].status = st]
      BY DEF RecordAction
    <2>2. st \in {"STARTING", "RUNNING", "STOPPED"}
      BY DEF mapLifecycleActionToInstallStatus
    <2> QED BY <1>1, <2>1, <2>2, InstallStatus DEF Base
  <1> QED BY <1>1, <1>2, Undone, Replies, Steps DEF RecordAction, Others, Base, Counted

LEMMA DropsBase ==
    ASSUME Base, NEW r \in Requests, req[r].op # "rebuild", DropRows(r) \/ DropInstalls(r)
    PROVE  KeptBy(r)
  <1>1. req[r].name \in Names /\ req[r].op = "removeApp" /\ InProgress(r)
    BY AppFacts DEF DropRows, DropInstalls, At, InProgress
  <1>2. Go(r, "dropInstalls") => Continues(r)
    BY <1>1, AppGoes DEF OfAnApp, Pcs
  <1>3. Continues(r)
    BY <1>2, Replies DEF DropRows, DropInstalls
  <1>4. Stored'
    <2>1. CASE DropRows(r)
      <3>1. rows' \in RowMap /\ \A i \in RowIds : rows'[i] # None => rows[i] # None
        BY <2>1 DEF DropRows, Base, Stored, RowMap
      <3> QED BY <2>1, <3>1, Overwriting DEF DropRows
    <2>2. CASE DropInstalls(r)
      BY <2>2, Undone DEF DropInstalls
    <2> QED BY <2>1, <2>2
  <1>5. (installs \in InstallMap)'
    BY DEF DropRows, DropInstalls, Base, InstallMap
  <1> QED BY <1>1, <1>3, <1>4, <1>5, Undone, Steps DEF DropRows, DropInstalls, Others, Base, Counted

(* The list of the apps. *)
LEMMA ReadInstallsBase ==
    ASSUME Base, NEW r \in Requests, req[r].op # "rebuild", ReadInstalls(r)
    PROVE  KeptBy(r)
  <1> PICK q : q = req[r]  OBVIOUS
  <1>1. q \in Request /\ q.op = "listApps" /\ InProgress(r)
    BY AppFacts DEF ReadInstalls, At, AppListing, InProgress
  <1> PICK a : a = [i \in InstallIds |->
              IF i \in Installs /\ i = Max(InstallsNamed(installs[i].name)) THEN installs[i] ELSE None]
    OBVIOUS
  <1>2. a \in InstallMap
    BY DEF Base, InstallMap
  <1> PICK p : p = [q EXCEPT !.pc = "statuses", !.apps = a]  OBVIOUS
  <1>3. p \in Request
    <2>1. "statuses" \in Pcs
      BY DEF Pcs
    <2> QED BY <1>1, <1>2, <2>1 DEF Request
  <1>4. p.pc = "statuses" /\ p.op = q.op
    BY <1>1 DEF Request
  <1>5. req' = [req EXCEPT ![r] = p]
    BY DEF ReadInstalls
  <1>6. Continues(r)
    BY <1>1, <1>3, <1>4, <1>5, AppContinues DEF AppListing
  <1> QED BY <1>1, <1>6, Undone, Steps DEF ReadInstalls, Others, Base, Counted

CacheTyped == cache \in [state : {"none", "fresh", "stale"}, seen : Docker]

LEMMA ReadStatusesBase ==
    ASSUME Base, CacheTyped, NEW r \in Requests, req[r].op # "rebuild", ReadStatuses(r)
    PROVE  KeptBy(r)
  <1> PICK q : q = req[r]  OBVIOUS
  <1>1. q \in Request /\ q.op = "listApps" /\ InProgress(r)
    BY AppFacts DEF ReadStatuses, At, AppListing, InProgress
  <1>2. ASSUME NEW pc \in {"overlay", "cache"}, NEW h \in Docker, req' = [req EXCEPT ![r].pc = pc, ![r].seen = h]
        PROVE  Continues(r)
    <2> PICK p : p = [q EXCEPT !.pc = pc, !.seen = h]  OBVIOUS
    <2>1. p \in Request
      <3>1. pc \in Pcs
        BY DEF Pcs
      <3> QED BY <1>1, <3>1 DEF Request
    <2>2. p.pc = pc /\ p.op = q.op
      BY <1>1 DEF Request
    <2>3. req' = [req EXCEPT ![r] = p]
      BY <1>2
    <2> QED BY <1>1, <2>1, <2>2, <2>3, AppContinues DEF AppListing
  <1>3. cache.seen \in Docker /\ host \in Docker /\ Missing \in Docker
    BY Missed DEF CacheTyped, Base, Docked
  <1> HIDE DEF Missing
  <1>4. Continues(r) /\ (faults' = faults \/ Fault)
    BY <1>2, <1>3 DEF ReadStatuses
  <1> QED BY <1>1, <1>4, Undone, Steps DEF ReadStatuses, Others, Base, Counted

LEMMA CacheStatusesBase ==
    ASSUME Base, NEW r \in Requests, req[r].op # "rebuild", CacheStatuses(r)
    PROVE  KeptBy(r) /\ CacheTyped'
  <1>1. req[r] \in Request /\ req[r].op = "listApps" /\ InProgress(r)
    BY AppFacts DEF CacheStatuses, At, AppListing, InProgress
  <1>2. Continues(r)
    BY <1>1, AppGoes DEF CacheStatuses, AppListing, Pcs
  <1>3. CacheTyped'
    BY <1>1 DEF CacheStatuses, CacheTyped, Request
  <1> QED BY <1>1, <1>2, <1>3, Undone, Steps DEF CacheStatuses, Others, Base, Counted

LEMMA WriteStatusesBase ==
    ASSUME Base, NEW r \in Requests, req[r].op # "rebuild", WriteStatuses(r)
    PROVE  KeptBy(r)
  <1>1. InProgress(r)
    BY DEF WriteStatuses, At, InProgress
  <1>2. (installs \in InstallMap)'
    <2>1. \A i \in Installs : \A c : installs[i] \in Install /\ [installs[i] EXCEPT !.status = mapRuntimeStatus(c)] \in Install
      BY DEF Installs, Base, InstallMap, Install, mapRuntimeStatus
    <2> QED BY <2>1 DEF WriteStatuses, Base, InstallMap
  <1> QED BY <1>1, <1>2, Undone, Replies, Steps DEF WriteStatuses, Others, Base, Counted

-----------------------------------------------------------------------------
(* The type of the requests about apps. *)
AppOps == {"sync", "delete", "installApp", "startApp", "stopApp", "restartApp", "rebuildApp", "removeApp", "listApps"}
AppsTyped == Base /\ Limited(AppOps) /\ CacheTyped /\ installed \in InstallNumbers

\* What an app request is when it arrives.
Arriving(op, pc, n, i) ==
    \/ op = "installApp" /\ pc = "probe" /\ n \in Names
    \/ /\ <<op, pc>> \in {<<"startApp", "appAct">>, <<"stopApp", "appAct">>, <<"restartApp", "appAct">>,
                        <<"rebuildApp", "resolve">>, <<"removeApp", "halt">>}
       /\ i \in Installs /\ n = installs[i].name
    \/ op = "listApps" /\ pc = "apps" /\ n = None
AppRequest(op, pc, n, i) == [Idle EXCEPT !.op = op, !.pc = pc, !.name = n, !.install = i]

LEMMA AppRequestFormed ==
    ASSUME Base, NEW op, NEW pc, NEW n, NEW i, Arriving(op, pc, n, i), i \in Installs \/ i = 0
    PROVE  /\ Formed(AppRequest(op, pc, n, i)) /\ AppRequest(op, pc, n, i).op = op
           /\ AppRequest(op, pc, n, i).pc = pc /\ AppRequest(op, pc, n, i).install = i
           /\ AppRequest(op, pc, n, i).name = n /\ op \in AppOps
  <1>1. Idle \in Request
    BY IdleIsFormed DEF Formed
  <1> PICK p : p = AppRequest(op, pc, n, i)  OBVIOUS
  <1>2. p = [Idle EXCEPT !.op = op, !.pc = pc, !.name = n, !.install = i]
    BY DEF AppRequest
  <1> HIDE DEF Idle
  <1>3. p.op = op /\ p.pc = pc /\ p.name = n /\ p.install = i
    BY <1>1, <1>2 DEF Request
  <1>4. i \in Installs => i \in InstallNumbers /\ i # 0 /\ installs[i].name \in Names
    BY InventoryAssumption DEF Installs, InstallIds, InstallNumbers, Base, InstallMap, Install
  <1>5. i \in InstallNumbers
    BY <1>4, InventoryAssumption DEF InstallNumbers
  <1>6. op \in Ops /\ pc \in Pcs /\ n \in Names \cup {None}
    BY <1>4 DEF Arriving, Ops, Pcs
  <1>7. p \in Request
    BY <1>1, <1>2, <1>5, <1>6 DEF Request
  <1>8. Formed(p)
    <2>1. \/ p.name \in Names /\ p.install # 0 /\ OnInstallation(p.op, p.pc)
          \/ p.name \in Names /\ OfAnApp(p.op, p.pc)
          \/ p.op = "listApps" /\ p.pc \in AppListing
      BY <1>3, <1>4 DEF Arriving, OnInstallation, OfAnApp, Installing, Rebuilding, Probing, AppListing
    <2> QED BY <1>7, <2>1, AppFormed
  <1>9. op \in AppOps
    BY DEF Arriving, AppOps
  <1> QED BY <1>3, <1>8, <1>9

LEMMA AppArrival ==
    ASSUME Base, NEW r \in Requests, AppArrives(r)
    PROVE  \E op, pc, n, i : /\ Arriving(op, pc, n, i) /\ (i \in Installs \/ i = 0)
                             /\ Begin(r, AppRequest(op, pc, n, i))
  BY DEF AppArrives, OnInstall, BeginApp, AppRequest, Arriving

LEMMA AppArrivesBase ==
    ASSUME AppsTyped, NEW r \in Requests, AppArrives(r) \/ ContainerArrives(r), UNCHANGED <<installed, cache>>
    PROVE  AppsTyped'
  <1>1. CacheTyped' /\ installed' \in InstallNumbers
    BY DEF AppsTyped, CacheTyped
  <1>2. CASE AppArrives(r)
    <2> PICK op, pc, n, i : Arriving(op, pc, n, i) /\ (i \in Installs \/ i = 0) /\ Begin(r, AppRequest(op, pc, n, i))
      BY <1>2, AppArrival DEF AppsTyped
    <2>1. Formed(AppRequest(op, pc, n, i)) /\ AppRequest(op, pc, n, i).op \in AppOps
      BY AppRequestFormed DEF AppsTyped
    <2>2. Base'
      BY <2>1, BeginBase DEF AppsTyped
    <2>3. Limited(AppOps)'
      BY <2>1, BeginLimited DEF AppsTyped
    <2> QED BY <1>1, <2>2, <2>3 DEF AppsTyped
  <1>3. CASE ContainerArrives(r)
    <2>1. Base'
      BY <1>3, BeginOps DEF ContainerArrives, AppsTyped
    <2>2. \A q : Begin(r, q) /\ q.op \in AppOps => Limited(AppOps)'
      BY BeginLimited DEF AppsTyped
    <2>3. Limited(AppOps)'
      <3>1. BeginSync(r) => Limited(AppOps)'
        BY <2>2, BeginKind DEF BeginSync, AppOps
      <3>2. \A i \in Rows : BeginDelete(r, i) => Limited(AppOps)'
        BY <2>2, BeginKind DEF BeginDelete, AppOps
      <3> QED BY <1>3, <3>1, <3>2 DEF ContainerArrives
    <2> QED BY <1>1, <2>1, <2>3 DEF AppsTyped
  <1> QED BY <1>2, <1>3

LEMMA AppStepBase ==
    ASSUME AppsTyped, NEW r \in Requests,
           AppStep(r) \/ (ContainerStep(r) /\ UNCHANGED <<installed, cache>>)
    PROVE  KeptBy(r) /\ CacheTyped' /\ installed' \in InstallNumbers /\ InProgress(r)
  <1>1. Base /\ CacheTyped /\ installed \in InstallNumbers
    BY DEF AppsTyped
  <1>2. InProgress(r)
    BY DEF AppStep, ContainerStep, At, InProgress, ListContainers, ReadRows, WriteRows, RemoveContainer,
           DeleteRelatedAppInstalls, EraseRow, Probe, ProbeRows, ProbeInstalls, EnterInstall, LaunchApp,
           FindContainerRow, UpsertContainerRow, SucceedInstall, FailInstall, ResolveRuntimeConfig, Reinstall,
           StopApp, RemoveApp, MarkRows, MarkRowsInError, ActOnApp, RecordAction, DropRows, DropInstalls,
           ReadInstalls, ReadStatuses, CacheStatuses, WriteStatuses
  <1>3. req[r].op # "rebuild"
    BY <1>2 DEF AppsTyped, Limited, AppOps, InProgress
  <1>4. KeptBy(r)
    BY <1>1, <1>3, ListContainersBase, ReadRowsBase, WriteRowsBase, RemoveContainerBase, DeleteRelatedAppInstallsBase,
       EraseRowBase, ProbesBase, EnterInstallBase, LaunchAppBase, FindContainerRowBase, UpsertContainerRowBase,
       SucceedInstallBase, FailInstallBase, ResolveBase, StopAppBase, RemoveAppBase, MarksBase, ActOnAppBase,
       RecordActionBase, DropsBase, ReadInstallsBase, ReadStatusesBase, CacheStatusesBase, WriteStatusesBase
       DEF AppStep, ContainerStep
  <1>5. installed' = installed \/ EnterInstall(r)
    BY DEF AppStep, Probe, ProbeRows, ProbeInstalls, LaunchApp,
           FindContainerRow, UpsertContainerRow, SucceedInstall, FailInstall, ResolveRuntimeConfig, Reinstall,
           StopApp, RemoveApp, MarkRows, MarkRowsInError, ActOnApp, RecordAction, DropRows, DropInstalls,
           ReadInstalls, ReadStatuses, CacheStatuses, WriteStatuses
  <1>6. cache' = cache \/ CacheStatuses(r) \/ cache' = NoCache
    BY DEF AppStep, Probe, ProbeRows, ProbeInstalls, EnterInstall, LaunchApp,
           FindContainerRow, UpsertContainerRow, SucceedInstall, FailInstall, ResolveRuntimeConfig, Reinstall,
           StopApp, RemoveApp, MarkRows, MarkRowsInError, ActOnApp, RecordAction, DropRows, DropInstalls,
           ReadInstalls, ReadStatuses, WriteStatuses
  <1>7. NoCache \in [state : {"none", "fresh", "stale"}, seen : Docker]
    <2> HIDE DEF Missing
    <2> QED BY Missed DEF NoCache
  <1>8. installed' \in InstallNumbers
    BY <1>1, <1>3, <1>5, EnterInstallBase
  <1>9. CacheTyped'
    BY <1>1, <1>3, <1>6, <1>7, CacheStatusesBase DEF CacheTyped
  <1> QED BY <1>2, <1>4, <1>8, <1>9

LEMMA AppNextBase ==
    ASSUME AppsTyped, [AppNext]_appVars
    PROVE  AppsTyped'
  <1>1. \A r \in Requests : AppStep(r) \/ (ContainerStep(r) /\ UNCHANGED <<installed, cache>>) => AppsTyped'
    BY AppStepBase, KeptLimited DEF AppsTyped, Kept, KeptBy
  <1>2. \A n \in Names : ContainerChanges(n) /\ UNCHANGED <<installed, cache>> => AppsTyped'
    BY ContainerChangesBase DEF AppsTyped, Limited, CacheTyped
  <1>3. PanelRestarts /\ cache' = NoCache /\ UNCHANGED installed => AppsTyped'
    <2>1. NoCache \in [state : {"none", "fresh", "stale"}, seen : Docker]
      <3> HIDE DEF Missing
      <3> QED BY Missed DEF NoCache
    <2> QED BY <2>1, PanelRestartsBase, KeptLimited DEF AppsTyped, Kept, CacheTyped
  <1>4. UNCHANGED vars => (Base /\ Limited(AppOps))'
    BY Undone DEF AppsTyped, Limited, vars, Base, Asked, Counted, Alone, InProgress
  <1>5. CacheExpires => AppsTyped'
    <2>1. CacheExpires => CacheTyped'
      BY DEF CacheExpires, CacheTyped, AppsTyped
    <2> QED BY <1>4, <2>1 DEF CacheExpires, AppsTyped
  <1>6. UNCHANGED appVars => AppsTyped'
    BY <1>4 DEF appVars, AppsTyped, CacheTyped
  <1> QED BY <1>1, <1>2, <1>3, <1>5, <1>6, AppArrivesBase DEF AppNext

LEMMA AppsTypedInit == AppInit => AppsTyped
  <1> SUFFICES ASSUME AppInit PROVE AppsTyped
    OBVIOUS
  <1>1. Base
    BY InitBase DEF AppInit
  <1>2. Limited(AppOps)
    BY IdleIsFormed DEF AppInit, Init, Limited
  <1>3. CacheTyped
    <2> HIDE DEF Missing
    <2> QED BY Missed DEF AppInit, NoCache, CacheTyped
  <1>4. installed \in InstallNumbers
    <2> PICK numbered \in [Names -> 0..Cardinality(Names)] : created = Cardinality({n \in Names : numbered[n] # 0})
      BY DEF AppInit, Init
    <2>1. /\ Cardinality({n \in Names : numbered[n] # 0}) \in Nat
          /\ Cardinality({n \in Names : numbered[n] # 0}) <= MaxInstall /\ MaxInstall \in Nat
      BY InventoryAssumption, FS_Subset, FS_CardinalityType
    <2> QED BY <2>1 DEF AppInit, InstallNumbers
  <1> QED BY <1>1, <1>2, <1>3, <1>4 DEF AppsTyped

LEMMA AppsStayTyped == AppSpec => []AppsTyped
  <1>1. AppInit => AppsTyped
    BY AppsTypedInit
  <1>2. AppsTyped /\ [AppNext]_appVars => AppsTyped'
    BY AppNextBase
  <1> QED BY <1>1, <1>2, PTL DEF AppSpec

\* Every request about an app is at a step of its operation, and what rows, containers, the
\* cache and the requests hold is what their code can hold (routes/apps.ts).
THEOREM AppsAreTyped == AppSpec => []AppsTypeOK
  <1>1. AppsTyped => AppsTypeOK
    <2> SUFFICES ASSUME AppsTyped PROVE AppsTypeOK
      OBVIOUS
    <2> DEFINE O == {"list", "read", "write", "remove", "purge", "erase",
              "probe", "probeRows", "probeInstalls", "enter", "launch", "find", "upsert",
              "running", "failed", "resolve", "reinstall", "halt", "clear", "mark", "markError",
              "appAct", "record", "dropRows", "dropInstalls",
              "apps", "statuses", "cache", "overlay"}
    <2> DEFINE K == {"sync", "delete", "installApp", "startApp", "stopApp", "restartApp",
              "rebuildApp", "removeApp", "listApps"}
    <2>1. ASSUME NEW r \in Requests
          PROVE  req[r].op \in K \cup {None} /\ req[r].pc \in O \cup {"idle"}
      <3>1. req[r] \in Request /\ Belongs(req[r]) /\ (req[r].pc # "idle" => req[r].op \in AppOps)
        BY Asking DEF AppsTyped, Limited
      <3>2. req[r].pc = "idle" => req[r].op = None
        BY <3>1, IdleIsFormed DEF Belongs
      <3>3. req[r].pc \in Pcs
        BY <3>1 DEF Request
      <3>4. req[r].pc # "idle" => req[r].pc \in O
        BY <3>1, <3>3 DEF Belongs, AppOps, Pcs, Actions
      <3>5. req[r].pc # "idle" => req[r].op \in K
        BY <3>1 DEF AppOps
      <3> QED BY <3>2, <3>4, <3>5
    <2> DEFINE R == [op : K \cup {None}, pc : O \cup {"idle"},
         name : Names \cup {None}, row : 0..MaxRow, id : 0..MaxId, ref : 0..MaxId,
         status : Statuses \cup {None}, next : {None, "done", "check", "match"}, bg : BOOLEAN,
         seen : Docker, known : [RowIds -> Row \cup {None}],
         install : 0..MaxInstall, apps : [InstallIds -> Install \cup {None}]]
    <2>2. \A q \in Request : q.op \in K \cup {None} /\ q.pc \in O \cup {"idle"} => q \in R
      BY DEF Request, RowNumbers, DockerIds, InstallNumbers, RowMap, InstallMap
    <2>3. \A r \in Requests : req[r] \in R
      BY <2>1, <2>2, Asking DEF AppsTyped
    <2>4. req \in [Requests -> R]
      BY <2>3 DEF AppsTyped, Base, Asked
    <2> QED BY <2>4 DEF AppsTypeOK, Typed, AppsTyped, Base, Docked, Stored, Counted, CacheTyped, InstallNumbers,
                        RowNumbers, DockerIds, RowMap, InstallMap
  <1> QED BY <1>1, AppsStayTyped, PTL

-----------------------------------------------------------------------------
(* The work on an installation. *)
\* A request that works on an installation which is INSTALLING.
Works(q) ==
    \/ q.pc \in {"launch", "find", "upsert", "running", "failed", "mark"}
    \/ q.pc \in {"halt", "clear"} /\ q.op = "rebuildApp"
Worked ==
    \A i \in Installs : installs[i].status = "INSTALLING" =>
        killed # None \/ \E r \in Requests : Works(req[r]) /\ req[r].install = i
Entered ==
    /\ \A i \in Installs : i <= installed
    /\ \A r \in Requests : req[r].install <= installed
SparedInstalls == ~overlapped => \A r \in Requests : Works(req[r]) => installs[req[r].install] # None
RejectedInstalls == killed = "rejection" => overlapped /\ \E j \in 1..installed : installs[j] = None
Working == AppsTyped /\ Entered /\ Worked /\ SparedInstalls /\ RejectedInstalls

\* A step of an app request, or of a container request that meets the apps.
AnyStep(r) == AppStep(r) \/ (ContainerStep(r) /\ UNCHANGED <<installed, cache>>)

LEMMA InstallSet ==
    ASSUME NEW x \in Install, NEW st \in {"INSTALLING", "STARTING", "RUNNING", "STOPPED", "FAILED"}, NEW y, y = [x EXCEPT !.status = st]
    PROVE  y \in Install /\ y # None /\ y.status = st /\ y.name = x.name
  <1>1. y \in Install /\ y.status = st /\ y.name = x.name
    BY DEF Install
  <1> QED BY <1>1, NoneIsNoRow

\* What a step does to an installation.
InstallChange(r, i) ==
    \/ EnterInstall(r) /\ i = installed + 1 /\ installs'[i].status = "INSTALLING"
    \/ DropInstalls(r) /\ installs'[i] = None
    \/ DeleteRelatedAppInstalls(r) /\ installs'[i] = None
    \/ /\ installs[i] # None /\ installs'[i] # None /\ installs'[i].name = installs[i].name
       /\ \/ SucceedInstall(r) /\ i = req[r].install /\ installs'[i].status = "RUNNING"
          \/ FailInstall(r) /\ i = req[r].install /\ installs'[i].status = "FAILED"
          \/ Reinstall(r) /\ i = req[r].install /\ installs'[i].status = "INSTALLING"
          \/ RecordAction(r) /\ i = req[r].install /\ installs'[i].status \in {"STARTING", "RUNNING", "STOPPED"}
          \/ WriteStatuses(r) /\ i \in Overlaid(req[r]) /\ installs'[i].status \in {"STARTING", "RUNNING", "STOPPED"}

LEMMA InstallsChange ==
    ASSUME AppsTyped, NEW r \in Requests, AnyStep(r), NEW i \in InstallIds, installs'[i] # installs[i]
    PROVE  InstallChange(r, i)
  <1>1. Base /\ installs \in InstallMap /\ installs[i] \in Install \cup {None}
    BY DEF AppsTyped, Base, InstallMap
  <1>3. ASSUME NEW j, NEW st \in {"INSTALLING", "STARTING", "RUNNING", "STOPPED", "FAILED"},
               installs' = IF installs[j] = None THEN installs ELSE [installs EXCEPT ![j].status = st]
        PROVE  /\ i = j /\ installs[i] # None /\ installs'[i] # None /\ installs'[i].name = installs[i].name
               /\ installs'[i].status = st
    <2>1. i = j /\ installs[i] # None /\ installs'[i] = [installs[i] EXCEPT !.status = st]
      BY <1>1, <1>3 DEF InstallMap
    <2>2. installs[i] \in Install
      BY <1>1, <2>1
    <2> QED BY <2>1, <2>2, InstallSet
  <1>4. CASE EnterInstall(r)
    <2>1. i = installed + 1 /\ installs'[i] = [name |-> req[r].name, status |-> "INSTALLING"]
      BY <1>1, <1>4 DEF EnterInstall, InstallMap
    <2> QED BY <1>4, <2>1 DEF InstallChange
  <1>5. CASE DropInstalls(r)
    BY <1>1, <1>5 DEF DropInstalls, InstallChange
  <1>6. CASE DeleteRelatedAppInstalls(r)
    BY <1>1, <1>6 DEF DeleteRelatedAppInstalls, InstallChange
  <1>7. CASE SucceedInstall(r)
    <2>1. installs' = IF installs[req[r].install] = None THEN installs
                      ELSE [installs EXCEPT ![req[r].install].status = "RUNNING"]
      BY <1>7 DEF SucceedInstall
    <2> QED BY <1>3, <1>7, <2>1 DEF InstallChange
  <1>8. CASE FailInstall(r)
    <2>1. installs' = IF installs[req[r].install] = None THEN installs
                      ELSE [installs EXCEPT ![req[r].install].status = "FAILED"]
      BY <1>8 DEF FailInstall, FailedInstall, InstallRejects
    <2> QED BY <1>3, <1>8, <2>1 DEF InstallChange
  <1>9. CASE Reinstall(r)
    <2>1. installs' = IF installs[req[r].install] = None THEN installs
                      ELSE [installs EXCEPT ![req[r].install].status = "INSTALLING"]
      BY <1>9 DEF Reinstall
    <2> QED BY <1>3, <1>9, <2>1 DEF InstallChange
  <1>10. CASE RecordAction(r)
    <2> PICK st : st = mapLifecycleActionToInstallStatus(req[r].op)  OBVIOUS
    <2>1. installs' = IF installs[req[r].install] = None THEN installs
                      ELSE [installs EXCEPT ![req[r].install].status = st]
      BY <1>10 DEF RecordAction
    <2>2. st \in {"STARTING", "RUNNING", "STOPPED"}
      BY DEF mapLifecycleActionToInstallStatus
    <2> QED BY <1>3, <1>10, <2>1, <2>2 DEF InstallChange
  <1>11. CASE WriteStatuses(r)
    <2> PICK st : st = mapRuntimeStatus(req[r].seen[installs[i].name])  OBVIOUS
    <2>1. i \in Overlaid(req[r]) /\ installs[i] # None /\ installs'[i] = [installs[i] EXCEPT !.status = st]
      BY <1>11 DEF WriteStatuses, Installs
    <2>2. st \in {"STARTING", "RUNNING", "STOPPED"} /\ installs[i] \in Install
      BY <1>1, <2>1 DEF mapRuntimeStatus
    <2>3. installs'[i] # None /\ installs'[i].name = installs[i].name /\ installs'[i].status = st
      BY <2>1, <2>2, InstallSet
    <2> QED BY <1>11, <2>1, <2>2, <2>3 DEF InstallChange
  <1>12. \/ UNCHANGED installs \/ EnterInstall(r) \/ DropInstalls(r) \/ DeleteRelatedAppInstalls(r) \/ SucceedInstall(r)
         \/ FailInstall(r) \/ Reinstall(r) \/ RecordAction(r) \/ WriteStatuses(r)
    BY DEF AnyStep, AppStep, ContainerStep, ListContainers, ReadRows, WriteRows, RemoveContainer,
           EraseRow, Probe, ProbeRows, ProbeInstalls, LaunchApp,
           FindContainerRow, UpsertContainerRow, ResolveRuntimeConfig,
           StopApp, RemoveApp, MarkRows, MarkRowsInError, ActOnApp, DropRows,
           ReadInstalls, ReadStatuses, CacheStatuses
  <1> QED BY <1>4, <1>5, <1>6, <1>7, <1>8, <1>9, <1>10, <1>11, <1>12

\* How the work on an installation goes on.
LEMMA WorkGoesOn ==
    ASSUME AppsTyped, NEW r \in Requests, AnyStep(r)
    PROVE  /\ Works(req'[r]) => \/ Works(req[r]) /\ req'[r].install = req[r].install
                                                /\ ~DropInstalls(r) /\ ~DeleteRelatedAppInstalls(r)
                                \/ EnterInstall(r) /\ req'[r].install = installed + 1
                                \/ /\ Reinstall(r) /\ req'[r].install = req[r].install
                                   /\ installs[req[r].install] # None
           /\ Works(req[r]) => \/ Works(req'[r]) /\ req'[r].install = req[r].install
                               \/ SucceedInstall(r) \/ FailInstall(r)
           /\ req'[r].install \in {0, req[r].install} \/ (EnterInstall(r) /\ req'[r].install = installed + 1)
  <1> PICK q : q = req[r]  OBVIOUS
  <1>1. q \in Request /\ Belongs(q) /\ Carries(q) /\ req \in [Requests -> Request] /\ (q.pc # "idle" => q.op \in AppOps)
    BY Asking DEF AppsTyped, Base, Asked, Limited
  <1>2. ~Works(Idle) /\ Idle.install = 0
    <2> HIDE DEF Missing
    <2> QED BY DEF Works, Idle
  <1>3. Reply(r) => req'[r] = Idle
    BY <1>1 DEF Reply
  <1>4. \A pc : Go(r, pc) => req'[r].pc = pc /\ req'[r].op = q.op /\ req'[r].install = q.install
    BY <1>1 DEF Go, Request
  <1>5. \A how : Ends(how) => req'[r] = Idle
    BY DEF Ends
  <1>6. CASE ContainerStep(r)
    <2>1. ~Works(q)
      BY <1>1, <1>6 DEF ContainerStep, Works, At, ListContainers, ReadRows, WriteRows, RemoveContainer, DeleteRelatedAppInstalls, EraseRow
    <2>2. ~Works(req'[r])
      <3>1. ListContainers(r) \/ ReadRows(r) \/ RemoveContainer(r) \/ DeleteRelatedAppInstalls(r) \/ EraseRow(r) => ~Works(req'[r])
        BY <1>1, <1>2, <1>3, <1>4 DEF Works, ListContainers, ReadRows, RemoveContainer, DeleteRelatedAppInstalls, EraseRow, Request
      <3>2. ASSUME WriteRows(r) PROVE ~Works(req'[r])
        <4> PICK p : p = [Idle EXCEPT !.op = q.op, !.name = q.name, !.row = q.row, !.bg = q.bg, !.pc = q.next]
          OBVIOUS
        <4>1. Reply(r) \/ (q.next # "done" /\ req' = [req EXCEPT ![r] = p])
          BY <3>2 DEF WriteRows
        <4>2. q.next \in {"done", "check", "match"}
          BY <1>1, <3>2 DEF WriteRows, At, Carries, Listing
        <4>3. Idle \in Request
          BY IdleIsFormed DEF Formed
        <4> HIDE DEF Idle
        <4>4. p.pc = q.next
          BY <4>3 DEF Request
        <4>5. ~Works(p) \/ q.next = "done"
          BY <4>2, <4>4 DEF Works
        <4> QED BY <1>1, <1>2, <1>3, <4>1, <4>5
      <3> QED BY <1>6, <3>1, <3>2 DEF ContainerStep
    <2>3. req'[r].install \in {0, q.install}
      <3>1. ListContainers(r) \/ ReadRows(r) \/ RemoveContainer(r) \/ DeleteRelatedAppInstalls(r) \/ EraseRow(r) => req'[r].install \in {0, q.install}
        BY <1>1, <1>2, <1>3, <1>4 DEF ListContainers, ReadRows, RemoveContainer, DeleteRelatedAppInstalls, EraseRow, Request
      <3>2. WriteRows(r) => req'[r].install \in {0, q.install}
        BY ZenonT(60), <1>1, <1>2, <1>3 DEF WriteRows, Idle
      <3> QED BY <1>6, <3>1, <3>2 DEF ContainerStep
    <2> QED BY <2>1, <2>2, <2>3
  <1>7. CASE AppStep(r)
    <2>1. Probe(r) \/ ProbeRows(r) \/ ProbeInstalls(r) \/ ResolveRuntimeConfig(r) \/ MarkRowsInError(r) \/ ActOnApp(r)
            \/ RecordAction(r) \/ DropRows(r) \/ DropInstalls(r) \/ CacheStatuses(r) \/ WriteStatuses(r)
            => ~Works(q) /\ ~Works(req'[r]) /\ req'[r].install \in {0, q.install}
      BY <1>1, <1>2, <1>3, <1>4 DEF Works, At, Probe, ProbeRows, ProbeInstalls, ResolveRuntimeConfig, MarkRowsInError,
         ActOnApp, RecordAction, DropRows, DropInstalls, CacheStatuses, WriteStatuses
    <2>2. ReadInstalls(r) \/ ReadStatuses(r) => ~Works(q) /\ ~Works(req'[r]) /\ req'[r].install \in {0, q.install}
      BY <1>1 DEF ReadInstalls, ReadStatuses, Works, At, Request
    <2>3. EnterInstall(r) => ~Works(q) /\ req'[r].install = installed + 1
      BY <1>1 DEF EnterInstall, Works, At, Request
    <2>4. LaunchApp(r) \/ FindContainerRow(r) \/ UpsertContainerRow(r) \/ MarkRows(r)
            => Works(q) /\ Works(req'[r]) /\ req'[r].install = q.install /\ ~DropInstalls(r) /\ ~DeleteRelatedAppInstalls(r)
      <3>1. LaunchApp(r) \/ FindContainerRow(r) \/ UpsertContainerRow(r) \/ MarkRows(r)
              => Works(q) /\ ~DropInstalls(r) /\ ~DeleteRelatedAppInstalls(r)
        BY DEF LaunchApp, FindContainerRow, UpsertContainerRow, MarkRows, DropInstalls, DeleteRelatedAppInstalls, Works, At
      <3>2. LaunchApp(r) => req'[r].pc \in {"find", "mark", "failed"} /\ req'[r].install = q.install
        <4>1. ASSUME LaunchApp(r)
              PROVE  \/ Go(r, "failed")
                     \/ \E pc \in {"find", "mark"} : req' = [req EXCEPT ![r].pc = pc, ![r].id = dockerIds + 1]
          BY <4>1 DEF LaunchApp
        <4>2. ASSUME NEW pc \in {"find", "mark"}, req' = [req EXCEPT ![r].pc = pc, ![r].id = dockerIds + 1]
              PROVE  req'[r].pc = pc /\ req'[r].install = q.install
          <5>1. req'[r] = [q EXCEPT !.pc = pc, !.id = dockerIds + 1]
            BY <1>1, <4>2
          <5> QED BY <1>1, <5>1 DEF Request
        <4> QED BY <1>4, <4>1, <4>2
      <3>3. FindContainerRow(r) => req'[r].pc = "upsert" /\ req'[r].install = q.install
        BY <1>1 DEF FindContainerRow, Request
      <3>4. UpsertContainerRow(r) \/ MarkRows(r) => req'[r].pc \in {"running", "failed"} /\ req'[r].install = q.install
        BY <1>4 DEF UpsertContainerRow, MarkRows
      <3> QED BY <3>1, <3>2, <3>3, <3>4 DEF Works
    <2>5. StopApp(r) \/ RemoveApp(r) => /\ Works(req'[r]) <=> Works(q)
                                        /\ ~DropInstalls(r) /\ ~DeleteRelatedAppInstalls(r)
                                        /\ req'[r].install \in {0, q.install}
                                        /\ Works(req'[r]) => req'[r].install = q.install
      <3>1. q.pc \in {"halt", "clear"} => q.op \in {"rebuildApp", "removeApp"}
        BY <1>1 DEF Belongs, AppOps
      <3>2. StopApp(r) \/ RemoveApp(r) => ~DropInstalls(r) /\ ~DeleteRelatedAppInstalls(r) /\ q.pc \in {"halt", "clear"}
        BY DEF StopApp, RemoveApp, DropInstalls, DeleteRelatedAppInstalls, At
      <3>3. StopApp(r) => req'[r].pc = "clear" /\ req'[r].op = q.op /\ req'[r].install = q.install
        BY <1>4 DEF StopApp
      <3>4. RemoveApp(r) /\ q.op = "rebuildApp" => req'[r].pc = "launch" /\ req'[r].install = q.install
        BY <1>4 DEF RemoveApp
      <3>5. RemoveApp(r) /\ q.op # "rebuildApp" => \/ req'[r].pc = "dropRows" /\ req'[r].install = q.install
                                                   \/ req'[r] = Idle
        BY <1>3, <1>4 DEF RemoveApp
      <3> QED BY <1>2, <3>1, <3>2, <3>3, <3>4, <3>5 DEF Works
    <2>6. Reinstall(r) => ~Works(q) /\ (Reply(r) \/ (installs[q.install] # None /\ req'[r].install = q.install))
      BY <1>1, <1>4 DEF Reinstall, Works, At
    <2>7. SucceedInstall(r) \/ FailInstall(r) =>
              /\ Works(q) /\ ~DropInstalls(r) /\ ~DeleteRelatedAppInstalls(r) /\ req'[r].install \in {0, q.install}
              /\ Works(req'[r]) => req'[r].install = q.install
      BY <1>1, <1>2, <1>3, <1>4, <1>5 DEF SucceedInstall, FailInstall, DropInstalls, DeleteRelatedAppInstalls, Works, At
    <2> QED BY <1>2, <1>3, <1>7, <2>1, <2>2, <2>3, <2>4, <2>5, <2>6, <2>7 DEF AppStep
  <1> QED BY <1>6, <1>7 DEF AnyStep

-----------------------------------------------------------------------------
(* The steps of the requests about apps. *)
\* The rest of the state across a step.
LEMMA AnyStepHistory ==
    ASSUME AppsTyped, NEW r \in Requests, AnyStep(r)
    PROVE  /\ AppsTyped' /\ Elsewhere(r) /\ InProgress(r) /\ overlapped' = overlapped
           /\ killed' = killed \/ (FailInstall(r) /\ InstallRejects(r) /\ killed' = "rejection")
           /\ installed' = installed \/ (EnterInstall(r) /\ installed' = installed + 1)
  <1>1. KeptBy(r) /\ CacheTyped' /\ installed' \in InstallNumbers /\ InProgress(r)
    BY AppStepBase DEF AnyStep
  <1>2. AppsTyped' /\ Elsewhere(r)
    BY <1>1, KeptLimited DEF AppsTyped, Kept, KeptBy
  <1>3. overlapped' = overlapped
    BY DEF AnyStep, AppStep, ContainerStep, ListContainers, ReadRows, WriteRows, RemoveContainer,
           DeleteRelatedAppInstalls, EraseRow, Probe, ProbeRows, ProbeInstalls, EnterInstall, LaunchApp,
           FindContainerRow, UpsertContainerRow, SucceedInstall, FailInstall, ResolveRuntimeConfig, Reinstall,
           StopApp, RemoveApp, MarkRows, MarkRowsInError, ActOnApp, RecordAction, DropRows, DropInstalls,
           ReadInstalls, ReadStatuses, CacheStatuses, WriteStatuses, Others
  <1>4. killed' = killed \/ (FailInstall(r) /\ InstallRejects(r) /\ killed' = "rejection")
    BY DEF AnyStep, AppStep, ContainerStep, ListContainers, ReadRows, WriteRows, RemoveContainer,
           DeleteRelatedAppInstalls, EraseRow, Probe, ProbeRows, ProbeInstalls, EnterInstall, LaunchApp,
           FindContainerRow, UpsertContainerRow, SucceedInstall, FailInstall, ResolveRuntimeConfig, Reinstall,
           StopApp, RemoveApp, MarkRows, MarkRowsInError, ActOnApp, RecordAction, DropRows, DropInstalls,
           ReadInstalls, ReadStatuses, CacheStatuses, WriteStatuses, Ends
  <1>5. installed' = installed \/ (EnterInstall(r) /\ installed' = installed + 1)
    BY DEF AnyStep, AppStep, Probe, ProbeRows, ProbeInstalls, EnterInstall, LaunchApp,
           FindContainerRow, UpsertContainerRow, SucceedInstall, FailInstall, ResolveRuntimeConfig, Reinstall,
           StopApp, RemoveApp, MarkRows, MarkRowsInError, ActOnApp, RecordAction, DropRows, DropInstalls,
           ReadInstalls, ReadStatuses, CacheStatuses, WriteStatuses
  <1> QED BY <1>1, <1>2, <1>3, <1>4, <1>5

LEMMA WorkingStep ==
    ASSUME Working, NEW r \in Requests, AnyStep(r)
    PROVE  Working'
  <1>1. AppsTyped /\ Entered /\ Worked /\ SparedInstalls /\ RejectedInstalls /\ installed \in Nat
    BY InventoryAssumption DEF Working, AppsTyped, InstallNumbers
  <1>2. /\ AppsTyped' /\ Elsewhere(r) /\ InProgress(r) /\ overlapped' = overlapped
        /\ killed' = killed \/ (FailInstall(r) /\ InstallRejects(r) /\ killed' = "rejection")
        /\ installed' = installed \/ (EnterInstall(r) /\ installed' = installed + 1)
    BY <1>1, AnyStepHistory
  <1>3. \A s \in Requests : s # r => req'[s] = req[s] \/ (killed' \in {"restart", "rejection"} /\ req'[s] = Idle)
    BY <1>2 DEF Elsewhere
  <1>4. ~Works(Idle) /\ Idle.install = 0
    <2> HIDE DEF Missing
    <2> QED BY DEF Works, Idle
  <1>5. \A s \in Requests : Works(req[s]) => req[s].install \in InstallIds /\ InProgress(s)
    <2> SUFFICES ASSUME NEW s \in Requests, Works(req[s]) PROVE req[s].install \in InstallIds /\ InProgress(s)
      OBVIOUS
    <2> PICK q : q = req[s]  OBVIOUS
    <2>1. q \in Request /\ Carries(q) /\ Works(q)
      BY <1>1, Asking DEF AppsTyped
    <2>2. q.install # 0 /\ q.pc # "idle"
      BY <2>1 DEF Carries, Works
    <2> QED BY <2>1, <2>2, InventoryAssumption DEF Request, InstallNumbers, InstallIds, InProgress
  <1>6. \A i \in InstallIds : installs'[i] = installs[i] \/ InstallChange(r, i)
    BY <1>1, InstallsChange
  <1>7. Works(req'[r]) => \/ Works(req[r]) /\ req'[r].install = req[r].install
                                           /\ ~DropInstalls(r) /\ ~DeleteRelatedAppInstalls(r)
                          \/ EnterInstall(r) /\ req'[r].install = installed + 1
                          \/ /\ Reinstall(r) /\ req'[r].install = req[r].install
                             /\ installs[req[r].install] # None
    BY <1>1, WorkGoesOn
  <1>8. Works(req[r]) => \/ Works(req'[r]) /\ req'[r].install = req[r].install
                         \/ SucceedInstall(r) \/ FailInstall(r)
    BY <1>1, WorkGoesOn
  <1>9. req'[r].install \in {0, req[r].install} \/ (EnterInstall(r) /\ req'[r].install = installed + 1)
    BY <1>1, WorkGoesOn
  <1>10. EnterInstall(r) => /\ installed' = installed + 1 /\ installed + 1 \in InstallIds
                            /\ installs'[installed + 1] # None /\ installs[installed + 1] = None
                            /\ Works(req'[r]) /\ req'[r].install = installed + 1 /\ ~Works(req[r])
    <2> SUFFICES ASSUME EnterInstall(r)
                 PROVE  /\ installed' = installed + 1 /\ installed + 1 \in InstallIds
                        /\ installs'[installed + 1] # None /\ installs[installed + 1] = None
                        /\ Works(req'[r]) /\ req'[r].install = installed + 1 /\ ~Works(req[r])
      OBVIOUS
    <2>1. installed' = installed + 1 /\ installed + 1 \in InstallIds
      BY <1>1, InventoryAssumption DEF EnterInstall, InstallIds
    <2>2. installs[installed + 1] = None
      BY <1>1, <2>1 DEF Entered, Installs
    <2>3. installs'[installed + 1] # None
      <3>1. installs' = [installs EXCEPT ![installed + 1] = [name |-> req[r].name, status |-> "INSTALLING"]]
        BY DEF EnterInstall
      <3>2. [name |-> req[r].name, status |-> "INSTALLING"] \in Install
        <4>1. req[r].name \in Names
          <5>1. Carries(req[r]) /\ req[r].pc = "enter"
            BY <1>1, Asking DEF AppsTyped, EnterInstall, At
          <5> QED BY <5>1 DEF Carries, Listing, AppListing
        <4> QED BY <4>1 DEF Install
      <3> QED BY <1>1, <2>1, <3>1, <3>2, NoneIsNoRow DEF AppsTyped, Base, InstallMap
    <2>4. Works(req'[r]) /\ req'[r].install = installed + 1 /\ ~Works(req[r])
      <3>1. req[r] \in Request /\ req \in [Requests -> Request]
        BY <1>1, Asking DEF AppsTyped, Base, Asked
      <3>2. req'[r] = [req[r] EXCEPT !.pc = "launch", !.install = installed + 1]
        BY <3>1 DEF EnterInstall
      <3> QED BY <3>1, <3>2 DEF EnterInstall, Works, At, Request
    <2> QED BY <2>1, <2>2, <2>3, <2>4
  <1>11. \A i \in InstallIds : installs'[i] # None => installs[i] # None \/ (EnterInstall(r) /\ i = installed + 1)
    BY <1>6 DEF InstallChange
  <1>12. Entered'
    <2>1. \A i \in Installs' : i <= installed'
      <3> SUFFICES ASSUME NEW i \in InstallIds, installs'[i] # None PROVE i <= installed'
        BY DEF Installs
      <3>1. installs[i] # None => i <= installed
        BY <1>1 DEF Entered, Installs
      <3>2. i \in Nat
        BY DEF InstallIds
      <3> QED BY <1>1, <1>2, <1>10, <1>11, <3>1, <3>2
    <2>2. \A s \in Requests : req'[s].install <= installed'
      <3> TAKE s \in Requests
      <3>1. req[s].install \in Nat /\ req[s].install <= installed
        <4>1. req[s] \in Request
          BY <1>1, Asking DEF AppsTyped
        <4> QED BY <1>1, <4>1, InventoryAssumption DEF Entered, Request, InstallNumbers
      <3>2. s = r => req'[s].install <= installed'
        BY <1>1, <1>2, <1>9, <1>10, <3>1
      <3>3. s # r => req'[s].install <= installed'
        BY <1>1, <1>2, <1>3, <1>4, <3>1
      <3> QED BY <3>2, <3>3
    <2> QED BY <2>1, <2>2 DEF Entered
  <1>13. Worked'
    <2> SUFFICES ASSUME NEW i \in InstallIds, installs'[i] # None, installs'[i].status = "INSTALLING", killed' = None
                 PROVE  \E s \in Requests : Works(req'[s]) /\ req'[s].install = i
      BY DEF Worked, Installs, Works
    <2>1. killed = None /\ (\A s \in Requests : s # r => req'[s] = req[s])
      BY <1>2, <1>3, NoneIsNoRow
    <2>2. CASE installs'[i] = installs[i]
      <3>1. PICK s \in Requests : Works(req[s]) /\ req[s].install = i
        BY <1>1, <2>1, <2>2 DEF Worked, Installs
      <3>2. CASE s # r
        BY <2>1, <3>1, <3>2
      <3>3. CASE s = r
        <4>1. ~SucceedInstall(r)
          <5> SUFFICES ASSUME SucceedInstall(r) PROVE FALSE
            OBVIOUS
          <5>1. installs' = [installs EXCEPT ![i].status = "RUNNING"] /\ installs[i] \in Install
            BY <1>1, <2>2, <3>1, <3>3 DEF SucceedInstall, AppsTyped, Base, InstallMap
          <5>2. installs'[i] = [installs[i] EXCEPT !.status = "RUNNING"]
            BY <1>1, <5>1 DEF AppsTyped, Base, InstallMap
          <5> QED BY <5>1, <5>2 DEF Install
        <4>2. ~FailInstall(r)
          <5> SUFFICES ASSUME FailInstall(r) PROVE FALSE
            OBVIOUS
          <5>1. ~InstallRejects(r)
            BY <2>2, <3>1, <3>3 DEF InstallRejects
          <5>2. installs' = [installs EXCEPT ![i].status = "FAILED"] /\ installs[i] \in Install
            BY <1>1, <2>2, <3>1, <3>3, <5>1 DEF FailInstall, FailedInstall, AppsTyped, Base, InstallMap
          <5>3. installs'[i] = [installs[i] EXCEPT !.status = "FAILED"]
            BY <1>1, <5>2 DEF AppsTyped, Base, InstallMap
          <5> QED BY <5>2, <5>3 DEF Install
        <4> QED BY <1>8, <3>1, <3>3, <4>1, <4>2
      <3> QED BY <3>2, <3>3
    <2>3. CASE installs'[i] # installs[i]
      <3>1. InstallChange(r, i)
        BY <1>6, <2>3
      <3>2. \/ EnterInstall(r) /\ i = installed + 1
            \/ Reinstall(r) /\ i = req[r].install /\ installs[i] # None
        BY <3>1 DEF InstallChange
      <3>3. EnterInstall(r) /\ i = installed + 1 => Works(req'[r]) /\ req'[r].install = i
        BY <1>10
      <3>4. Reinstall(r) /\ i = req[r].install /\ installs[i] # None => Works(req'[r]) /\ req'[r].install = i
        <4> SUFFICES ASSUME Reinstall(r), i = req[r].install, installs[i] # None
                     PROVE  Works(req'[r]) /\ req'[r].install = i
          OBVIOUS
        <4>1. req[r] \in Request /\ req[r].op = "rebuildApp" /\ req \in [Requests -> Request]
          BY <1>1, Asking DEF AppsTyped, Base, Asked, Reinstall, At, Belongs
        <4>2. req'[r] = [req[r] EXCEPT !.pc = "halt"]
          BY <4>1 DEF Reinstall, Go
        <4> QED BY <4>1, <4>2 DEF Works, Request
      <3> QED BY <3>2, <3>3, <3>4
    <2> QED BY <2>2, <2>3
  <1>14. SparedInstalls'
    <2> SUFFICES ASSUME ~overlapped, NEW s \in Requests, Works(req'[s])
                 PROVE  installs'[req'[s].install] # None
      BY <1>2 DEF SparedInstalls, Works
    <2>1. s = r
      <3> SUFFICES ASSUME s # r PROVE FALSE
        OBVIOUS
      <3>1. req'[s] = req[s]
        BY <1>3, <1>4
      <3>2. InProgress(s)
        BY <1>5, <3>1
      <3> QED BY <1>1, <1>2, <3>2 DEF AppsTyped, Base, Alone
    <2>2. CASE Works(req[r]) /\ req'[r].install = req[r].install /\ ~DropInstalls(r) /\ ~DeleteRelatedAppInstalls(r)
      <3>1. req[r].install \in InstallIds /\ installs[req[r].install] # None
        BY <1>1, <1>5, <2>2 DEF SparedInstalls
      <3>2. InstallChange(r, req[r].install) => installs'[req[r].install] # None
        BY <1>10, <2>2 DEF InstallChange
      <3> QED BY <1>6, <2>1, <2>2, <3>1, <3>2
    <2>3. CASE EnterInstall(r) /\ req'[r].install = installed + 1
      BY <1>10, <2>1, <2>3
    <2>4. CASE Reinstall(r) /\ req'[r].install = req[r].install /\ installs[req[r].install] # None
      <3> DEFINE i == req[r].install
      <3>1. i \in InstallIds
        <4>1. req[r] \in Request /\ Carries(req[r])
          BY <1>1, Asking DEF AppsTyped
        <4>2. i # 0
          BY <2>4, <4>1 DEF Carries, Reinstall, At
        <4> QED BY <4>1, <4>2, InventoryAssumption DEF Request, InstallNumbers, InstallIds
      <3>2. ~DropInstalls(r) /\ ~DeleteRelatedAppInstalls(r) /\ ~EnterInstall(r)
        BY <2>4 DEF Reinstall, At, DropInstalls, DeleteRelatedAppInstalls, EnterInstall
      <3>3. InstallChange(r, i) => installs'[i] # None
        BY <3>2 DEF InstallChange
      <3> QED BY <1>6, <2>1, <2>4, <3>1, <3>3
    <2> QED BY <1>7, <2>1, <2>2, <2>3, <2>4
  <1>15. RejectedInstalls'
    <2>1. ASSUME NEW j \in 1..installed, installs[j] = None
          PROVE  j \in 1..installed' /\ installs'[j] = None
      <3>1. j \in InstallIds /\ j # installed + 1
        BY <1>1, InventoryAssumption DEF AppsTyped, InstallNumbers, InstallIds
      <3> QED BY <1>1, <1>2, <1>11, <2>1, <3>1
    <2>2. CASE killed' = killed
      BY <1>1, <1>2, <2>1, <2>2 DEF RejectedInstalls
    <2>3. CASE FailInstall(r) /\ InstallRejects(r)
      <3>1. Works(req[r])
        BY <2>3 DEF FailInstall, At, Works
      <3>2. req[r].install \in 1..installed /\ installs[req[r].install] = None
        BY <1>1, <1>5, <2>3, <3>1 DEF InstallRejects, Entered, InstallIds
      <3>3. overlapped
        BY <1>1, <3>1, <3>2 DEF SparedInstalls
      <3> QED BY <1>2, <2>1, <3>2, <3>3 DEF RejectedInstalls
    <2> QED BY <1>2, <2>2, <2>3
  <1> QED BY <1>2, <1>12, <1>13, <1>14, <1>15 DEF Working

-----------------------------------------------------------------------------
(* Installations that are INSTALLING are worked on. *)
\* A request that begins works on no installation yet.
LEMMA BeginningWorks ==
    ASSUME Working, AppsTyped', NEW r \in Requests, NEW q, Begin(r, q), ~Works(q), q.install \in Nat, q.install <= installed,
           UNCHANGED <<installed, cache>>
    PROVE  Working'
  <1>1. AppsTyped /\ Entered /\ Worked /\ SparedInstalls /\ RejectedInstalls
    BY DEF Working
  <1>2. /\ \A s \in Requests : req'[s] = IF s = r THEN q ELSE req[s]
        /\ installs' = installs /\ killed' = killed /\ installed' = installed
        /\ ~overlapped' => ~overlapped
    BY <1>1 DEF Begin, AppsTyped, Base, Asked
  <1>3. ~Works(req[r])
    BY DEF Begin, InProgress, Works
  <1>4. Entered'
    BY <1>1, <1>2 DEF Entered, Installs
  <1>5. Worked'
    <2> SUFFICES ASSUME NEW i \in Installs, installs[i].status = "INSTALLING", killed = None
                 PROVE  \E s \in Requests : Works(req'[s]) /\ req'[s].install = i
      BY <1>2 DEF Worked, Installs, Works
    <2> QED BY <1>1, <1>2, <1>3 DEF Worked
  <1>6. SparedInstalls'
    <2> SUFFICES ASSUME ~overlapped', NEW s \in Requests, Works(req'[s])
                 PROVE  installs'[req'[s].install] # None
      BY DEF SparedInstalls, Works
    <2> QED BY <1>1, <1>2 DEF SparedInstalls
  <1>7. RejectedInstalls'
    BY <1>1, <1>2 DEF RejectedInstalls, Begin
  <1> QED BY <1>4, <1>5, <1>6, <1>7 DEF Working

LEMMA WorkingNext ==
    ASSUME Working, [AppNext]_appVars
    PROVE  Working'
  <1>1. AppsTyped /\ Entered /\ Worked /\ SparedInstalls /\ RejectedInstalls /\ installed \in Nat
    BY InventoryAssumption DEF Working, AppsTyped, InstallNumbers
  <1>2. AppsTyped'
    BY <1>1, AppNextBase
  <1>3. ASSUME NEW r \in Requests, AppStep(r) \/ (ContainerStep(r) /\ UNCHANGED <<installed, cache>>)
        PROVE  Working'
    BY <1>3, WorkingStep DEF AnyStep
  <1>4. ASSUME NEW r \in Requests, AppArrives(r), UNCHANGED <<installed, cache>>
        PROVE  Working'
    <2> PICK op, pc, n, i : Arriving(op, pc, n, i) /\ (i \in Installs \/ i = 0) /\ Begin(r, AppRequest(op, pc, n, i))
      BY <1>1, <1>4, AppArrival DEF AppsTyped
    <2> PICK p : p = AppRequest(op, pc, n, i)  OBVIOUS
    <2>1. p.op = op /\ p.pc = pc /\ p.install = i
      BY <1>1, AppRequestFormed DEF AppsTyped
    <2>2. ~Works(p)
      BY <2>1 DEF Arriving, Works
    <2>3. i \in Nat /\ i <= installed
      BY <1>1 DEF Entered, Installs, InstallIds
    <2> QED BY <1>2, <1>4, <2>1, <2>2, <2>3, BeginningWorks
  <1>5. ASSUME NEW r \in Requests, ContainerArrives(r), UNCHANGED <<installed, cache>>
        PROVE  Working'
    <2>1. \E q : Begin(r, q) /\ ~Works(q) /\ q.install = 0
      <3>1. Idle \in Request /\ Idle.install = 0
        <4> HIDE DEF Missing
        <4> QED BY IdleIsFormed DEF Formed, Idle
      <3>2. CASE BeginSync(r)
        <4> PICK p : p = [Idle EXCEPT !.op = "sync", !.pc = "list", !.next = "done"]  OBVIOUS
        <4>1. Begin(r, p)
          BY <3>2 DEF BeginSync
        <4> HIDE DEF Idle
        <4>2. p.pc = "list" /\ p.install = 0
          BY <3>1 DEF Request
        <4> QED BY <4>1, <4>2 DEF Works
      <3>3. ASSUME NEW i \in Rows, BeginDelete(r, i)
            PROVE  \E q : Begin(r, q) /\ ~Works(q) /\ q.install = 0
        <4> PICK pc : pc = IF rows[i].id = 0 THEN "purge" ELSE "remove"  OBVIOUS
        <4> PICK p : p = [Idle EXCEPT !.op = "delete", !.pc = pc, !.row = i, !.name = rows[i].name, !.id = rows[i].id]
          OBVIOUS
        <4>1. Begin(r, p)
          BY <3>3 DEF BeginDelete, OnRow
        <4> HIDE DEF Idle
        <4>2. p.pc = pc /\ p.install = 0
          BY <3>1 DEF Request
        <4>3. pc \in {"purge", "remove"}
          OBVIOUS
        <4>4. ~Works(p)
          BY <4>2, <4>3 DEF Works
        <4> QED BY <4>1, <4>2, <4>4
      <3> QED BY <1>5, <3>2, <3>3 DEF ContainerArrives
    <2> QED BY <1>1, <1>2, <1>5, <2>1, BeginningWorks
  <1>6. UNCHANGED <<installs, req, installed, overlapped, killed>> => Working'
    BY <1>1, <1>2 DEF Entered, Worked, SparedInstalls, RejectedInstalls, Installs, Works, Working
  <1>7. \A n \in Names : ContainerChanges(n) /\ UNCHANGED <<installed, cache>> => Working'
    BY <1>6 DEF ContainerChanges
  <1>8. PanelRestarts /\ cache' = NoCache /\ UNCHANGED installed => Working'
    <2> SUFFICES ASSUME PanelRestarts, UNCHANGED installed PROVE Working'
      OBVIOUS
    <2>1. ~Works(Idle) /\ Idle.install = 0
      <3> HIDE DEF Missing
      <3> QED BY DEF Works, Idle
    <2>2. killed' = "restart" /\ (\A s \in Requests : req'[s] = Idle) /\ UNCHANGED installs
      BY DEF PanelRestarts, Ends
    <2>3. Entered'
      BY <1>1, <2>1, <2>2 DEF Entered, Installs
    <2>4. Worked'
      BY <2>2, NoneIsNoRow DEF Worked
    <2>5. SparedInstalls'
      <3> SUFFICES ASSUME NEW s \in Requests, Works(req'[s]) PROVE FALSE
        BY DEF SparedInstalls, Works
      <3> QED BY <2>1, <2>2
    <2>6. RejectedInstalls'
      BY <2>2 DEF RejectedInstalls
    <2> QED BY <1>2, <2>3, <2>4, <2>5, <2>6 DEF Working
  <1>9. CacheExpires \/ UNCHANGED appVars => Working'
    BY <1>6 DEF CacheExpires, appVars, vars
  <1> QED BY <1>3, <1>4, <1>5, <1>7, <1>8, <1>9 DEF AppNext

LEMMA WorkingInit == AppInit => AppsTyped /\ Entered /\ Worked /\ SparedInstalls /\ RejectedInstalls
  <1> SUFFICES ASSUME AppInit PROVE AppsTyped /\ Entered /\ Worked /\ SparedInstalls /\ RejectedInstalls
    OBVIOUS
  <1>1. AppsTyped
    BY AppsTypedInit
  <1>2. ~Works(Idle) /\ Idle.install = 0
    <2> HIDE DEF Missing
    <2> QED BY DEF Works, Idle
  <1>3. \A i \in Installs : i <= installed /\ installs[i].status = "RUNNING"
    <2> PICK used \in SUBSET Names :
           /\ created = Cardinality(used)
           /\ installs = [i \in InstallIds |-> IF i <= Cardinality(used) /\ rows[i].source = "app"
                                               THEN [name |-> rows[i].name, status |-> "RUNNING"] ELSE None]
      BY DEF AppInit, Init
    <2> QED BY DEF AppInit, Installs
  <1>4. installed \in Nat /\ req = [r \in Requests |-> Idle] /\ killed = None
    BY <1>1, InventoryAssumption DEF AppInit, Init, AppsTyped, InstallNumbers
  <1> QED BY <1>1, <1>2, <1>3, <1>4, NoneIsNoRow DEF Entered, Worked, SparedInstalls, RejectedInstalls

LEMMA WorkGoesOnAlways == AppSpec => []Working
  <1>1. AppInit => Working
    BY WorkingInit DEF Working
  <1>2. Working /\ [AppNext]_appVars => Working'
    BY WorkingNext
  <1> QED BY <1>1, <1>2, PTL DEF AppSpec

\* No installation stays INSTALLING after the request that works on it is gone, unless the
\* process ended meanwhile (routes/apps.ts and app-install-rebuild.service.ts).
THEOREM InstallingEnds == AppSpec => []InstallingIsWorkedOn
  <1>1. Working => InstallingIsWorkedOn
    <2> SUFFICES ASSUME Working, NEW i \in Installs, installs[i].status = "INSTALLING", killed # "restart",
                        ~(killed = "rejection" /\ overlapped /\ \E j \in 1..installed : installs[j] = None)
                 PROVE  \E r \in Requests : InProgress(r) /\ req[r].install = i
      BY DEF InstallingIsWorkedOn
    <2>1. killed = None
      BY DEF Working, RejectedInstalls, AppsTyped, Base, Counted
    <2> QED BY <2>1 DEF Working, Worked, Works, InProgress
  <1> QED BY <1>1, WorkGoesOnAlways, PTL

-----------------------------------------------------------------------------
(* A failed installation is shown. *)
LEMMA FailureShownNext ==
    ASSUME Working, AppNext, NEW i \in Installs, installs[i].status = "FAILED", installs'[i] # None, installs'[i] # installs[i]
    PROVE  \E r \in Requests : \/ req[r].install = i
                               \/ At(r, "overlay") /\ req[r].apps[i] # installs[i]
  <1>1. PICK r \in Requests : AnyStep(r)
    <2>1. \A r \in Requests : AppArrives(r) \/ ContainerArrives(r) => UNCHANGED installs
      <3>1. \A r \in Requests : \A q : Begin(r, q) => UNCHANGED installs
        BY DEF Begin
      <3> QED BY <3>1 DEF AppArrives, ContainerArrives, OnInstall, BeginApp, BeginSync, BeginDelete
    <2>2. \A n \in Names : ContainerChanges(n) => UNCHANGED installs
      BY DEF ContainerChanges
    <2>3. PanelRestarts \/ CacheExpires => UNCHANGED installs
      BY DEF PanelRestarts, CacheExpires, vars
    <2> QED BY <2>1, <2>2, <2>3 DEF AppNext, AnyStep
  <1>2. InstallChange(r, i)
    BY <1>1, InstallsChange DEF Working, Installs
  <1>3. ~(EnterInstall(r) /\ i = installed + 1)
    BY InventoryAssumption DEF Working, Entered, AppsTyped, InstallNumbers
  <1>4. CASE WriteStatuses(r) /\ i \in Overlaid(req[r])
    <2>1. req[r].apps[i].status # "FAILED"
      BY <1>4 DEF Overlaid
    <2> QED BY <1>4, <2>1 DEF WriteStatuses
  <1> QED BY <1>2, <1>3, <1>4 DEF InstallChange

\* A failure stays visible: only a request about the installation, or a list that read it
\* before it failed, replaces its status (routes/apps.ts, overlayInstallRuntimeStatuses).
THEOREM FailureStays == AppSpec => FailureShown
  <1>1. Working /\ [AppNext]_appVars =>
            [\A i \in Installs : installs[i].status = "FAILED" /\ installs'[i] # None /\ installs'[i] # installs[i] =>
                \E r \in Requests : \/ req[r].install = i
                                    \/ At(r, "overlay") /\ req[r].apps[i] # installs[i]]_appVars
    BY FailureShownNext
  <1> QED BY <1>1, WorkGoesOnAlways, PTL DEF AppSpec, FailureShown

-----------------------------------------------------------------------------
(* Names across the requests about apps. *)
\* The steps of an app request keep the names of ids and of row numbers as well.
LEMMA AppPlainNames ==
    ASSUME Base, Base', NEW f, NEW g, Known(f, g), NEW r \in Requests, Elsewhere(r),
           \/ Probe(r) \/ ProbeRows(r) \/ ProbeInstalls(r) \/ SucceedInstall(r) \/ FailInstall(r)
           \/ ResolveRuntimeConfig(r) \/ Reinstall(r) \/ RecordAction(r) \/ DropInstalls(r)
           \/ CacheStatuses(r) \/ WriteStatuses(r)
    PROVE  Named'
  <1>1. UNCHANGED <<host, rows, created, dockerIds>>
    BY DEF Probe, ProbeRows, ProbeInstalls, SucceedInstall, FailInstall, ResolveRuntimeConfig, Reinstall,
           RecordAction, DropInstalls, CacheStatuses, WriteStatuses
  <1>2. RequestIs(req'[r], f, g, created, dockerIds)
    <2>1. Reply(r) \/ Ends("rejection") => RequestIs(req'[r], f, g, created, dockerIds)
      BY IdleNow, IdleIs DEF Ends
    <2>2. \A pc \in {"probeRows", "probeInstalls", "enter", "failed", "markError", "reinstall", "halt", "overlay"} :
              Go(r, pc) => RequestIs(req'[r], f, g, created, dockerIds)
      BY GoNames DEF Pcs
    <2>3. CASE Probe(r) \/ ProbeRows(r) \/ ProbeInstalls(r)
      BY <2>1, <2>2, <2>3 DEF Probe, ProbeRows, ProbeInstalls
    <2>4. CASE SucceedInstall(r) \/ FailInstall(r)
      BY <2>1, <2>2, <2>4 DEF SucceedInstall, FailInstall
    <2>5. CASE ResolveRuntimeConfig(r) \/ Reinstall(r) \/ RecordAction(r) \/ DropInstalls(r)
      BY <2>1, <2>2, <2>5 DEF ResolveRuntimeConfig, Reinstall, RecordAction, DropInstalls
    <2>6. CASE CacheStatuses(r) \/ WriteStatuses(r)
      BY <2>1, <2>2, <2>6 DEF CacheStatuses, WriteStatuses
    <2> QED BY <2>3, <2>4, <2>5, <2>6
  <1> QED BY <1>1, <1>2, KnownNow, NamedAlike

LEMMA AppDockerNames ==
    ASSUME Base, Base', NEW f, NEW g, Known(f, g), NEW r \in Requests, Elsewhere(r),
           StopApp(r) \/ RemoveApp(r) \/ ActOnApp(r)
    PROVE  Named'
  <1>1. UNCHANGED <<rows, created, dockerIds>>
    BY DEF StopApp, RemoveApp, ActOnApp
  <1>2. \A n \in Names : host'[n] = Absent \/ host'[n].id = host[n].id
    <2>1. \A n : (\E state : host' = Switched(n, state)) \/ host' = Removed(n) =>
              \A m \in Names : host'[m] = Absent \/ host'[m].id = host[m].id
      BY DEF Switched, Removed, Base, Docked, Docker
    <2>2. \A op, n : ActsUnseen(op, n) => (\E state : host' = Switched(n, state)) \/ host' = Removed(n)
      BY DEF ActsUnseen, Acts
    <2>3. \/ UNCHANGED host
          \/ \E n, state : host' = Switched(n, state)
          \/ \E op, n : ActsUnseen(op, n)
      BY DEF StopApp, RemoveApp, ActOnApp, ActsUnseen
    <2> QED BY <2>1, <2>2, <2>3
  <1>3. RequestIs(req'[r], f, g, created, dockerIds)
    <2>1. \A pc \in {"clear", "launch", "dropRows", "record"} : Go(r, pc) => RequestIs(req'[r], f, g, created, dockerIds)
      BY GoNames DEF Pcs
    <2> QED BY <2>1, IdleNow DEF StopApp, RemoveApp, ActOnApp
  <1> QED BY <1>1, <1>2, <1>3, KnownNow, NamedAlike

LEMMA AppCarryNames ==
    ASSUME Base, Base', NEW f, NEW g, Known(f, g), NEW r \in Requests, Elsewhere(r),
           EnterInstall(r) \/ FindContainerRow(r) \/ ReadInstalls(r) \/ ReadStatuses(r)
    PROVE  Named'
  <1> PICK q : q = req[r]  OBVIOUS
  <1>1. q \in Request /\ RequestIs(q, f, g, created, dockerIds) /\ RowsAre(rows, f, g, created, dockerIds)
    BY Asking, KnownNow
  <1>2. UNCHANGED <<host, rows, created, dockerIds>>
    BY DEF EnterInstall, FindContainerRow, ReadInstalls, ReadStatuses
  <1>3. RequestIs(req'[r], f, g, created, dockerIds)
    <2>1. CASE EnterInstall(r)
      <3> PICK p : p = [q EXCEPT !.pc = "launch", !.install = installed + 1]  OBVIOUS
      <3>1. p.pc = "launch" /\ p.name = q.name /\ p.row = q.row /\ p.id = q.id /\ p.ref = q.ref
        BY <1>1 DEF Request
      <3>2. req'[r] = p
        BY <2>1 DEF EnterInstall, Base, Asked
      <3> QED BY <1>1, <3>1, <3>2, CarriedIs
    <2>2. CASE FindContainerRow(r)
      <3>1. PICK i \in RowsNamed(q.name) \cup (IF RowsNamed(q.name) = {} THEN {0} ELSE {}) :
                req' = [req EXCEPT ![r].pc = "upsert", ![r].row = i]
        BY <2>2 DEF FindContainerRow
      <3> PICK p : p = [q EXCEPT !.pc = "upsert", !.row = i]  OBVIOUS
      <3>2. p.pc = "upsert" /\ p.name = q.name /\ p.row = i /\ p.id = q.id /\ p.ref = q.ref
        BY <1>1 DEF Request
      <3>3. req'[r] = p
        BY <3>1 DEF Base, Asked
      <3>4. i # 0 => i <= created /\ q.name = f[i]
        BY <1>1, <3>1 DEF RowsNamed, Rows, RowsAre, RowIs
      <3> QED BY <1>1, <3>2, <3>3, <3>4 DEF RequestIs
    <2>3. CASE ReadInstalls(r)
      <3> PICK p : p = [q EXCEPT !.pc = "statuses", !.apps = [i \in InstallIds |->
              IF i \in Installs /\ i = Max(InstallsNamed(installs[i].name)) THEN installs[i] ELSE None]]
        OBVIOUS
      <3>1. p.pc = "statuses" /\ p.name = q.name /\ p.row = q.row /\ p.id = q.id /\ p.ref = q.ref
        BY <1>1 DEF Request
      <3>2. req'[r] = p
        BY <2>3 DEF ReadInstalls, Base, Asked
      <3> QED BY <1>1, <3>1, <3>2, CarriedIs
    <2>4. CASE ReadStatuses(r)
      <3>1. PICK pc \in {"overlay", "cache"}, h \in {cache.seen, host, Missing} :
                req' = [req EXCEPT ![r].pc = pc, ![r].seen = h]
        BY <2>4 DEF ReadStatuses
      <3> PICK p : p = [q EXCEPT !.pc = pc, !.seen = h]  OBVIOUS
      <3>2. p.pc = pc /\ p.name = q.name /\ p.row = q.row /\ p.id = q.id /\ p.ref = q.ref
        BY <1>1 DEF Request
      <3>3. req'[r] = p
        BY <3>1 DEF Base, Asked
      <3> QED BY ZenonT(60), <1>1, <3>2, <3>3, CarriedIs
    <2> QED BY <2>1, <2>2, <2>3, <2>4
  <1> QED BY <1>1, <1>2, <1>3, NamedAlike

LEMMA AppRowNames ==
    ASSUME Base, Base', NEW f, NEW g, Known(f, g), NEW r \in Requests, Elsewhere(r),
           MarkRows(r) \/ MarkRowsInError(r) \/ DropRows(r)
    PROVE  Named'
  <1> PICK q : q = req[r]  OBVIOUS
  <1>1. q \in Request /\ RequestIs(q, f, g, created, dockerIds)
    BY Asking, KnownNow
  <1>2. UNCHANGED <<host, created, dockerIds>>
    BY DEF MarkRows, MarkRowsInError, DropRows
  <1>3. RequestIs(req'[r], f, g, created, dockerIds)
    <2>1. \A pc \in {"running", "dropInstalls"} : Go(r, pc) => RequestIs(req'[r], f, g, created, dockerIds)
      BY GoNames DEF Pcs
    <2> QED BY <2>1, IdleNow DEF MarkRows, MarkRowsInError, DropRows
  <1>4. RowsAre(rows', f, g, created, dockerIds)
    <2>1. \A x \in Row : \A st, id : /\ [x EXCEPT !.status = st].name = x.name /\ [x EXCEPT !.status = st].id = x.id
                                     /\ [x EXCEPT !.status = st, !.id = id].name = x.name
                                     /\ [x EXCEPT !.status = st, !.id = id].id = id
      BY DEF Row
    <2>2. ASSUME NEW i \in RowIds, rows'[i] # None
          PROVE  /\ rows[i] # None /\ rows'[i].name = rows[i].name
                 /\ rows'[i].id # rows[i].id => rows'[i].id = q.id /\ rows[i].name = q.name
      <3>1. rows[i] \in Row \cup {None}
        BY DEF Base, Stored, RowMap
      <3>2. \/ rows'[i] = rows[i]
            \/ /\ i \in RowsNamed(q.name)
               /\ \/ rows'[i] = [rows[i] EXCEPT !.status = "RUNNING", !.id = q.id]
                  \/ rows'[i] = [rows[i] EXCEPT !.status = "ERROR"]
        BY <2>2 DEF MarkRows, Marked, MarkRowsInError, DropRows
      <3>3. i \in RowsNamed(q.name) => rows[i] # None /\ rows[i].name = q.name
        BY DEF RowsNamed, Rows
      <3>4. CASE rows'[i] = rows[i]
        BY <2>2, <3>4
      <3>5. CASE i \in RowsNamed(q.name) /\ rows'[i] = [rows[i] EXCEPT !.status = "RUNNING", !.id = q.id]
        BY <2>1, <3>1, <3>3, <3>5
      <3>6. CASE i \in RowsNamed(q.name) /\ rows'[i] = [rows[i] EXCEPT !.status = "ERROR"]
        BY <2>1, <3>1, <3>3, <3>6
      <3> QED BY <3>2, <3>4, <3>5, <3>6
    <2>3. IdIs(q.id, q.name, g, dockerIds)
      BY <1>1 DEF RequestIs
    <2> QED BY <2>2, <2>3, RowsAlike
  <1> QED BY <1>2, <1>3, <1>4, NamedAlike

LEMMA UpsertNames ==
    ASSUME Base, Base', NEW f, NEW g, Known(f, g), NEW r \in Requests, Elsewhere(r), UpsertContainerRow(r)
    PROVE  Named'
  <1> PICK q : q = req[r]  OBVIOUS
  <1>1. q \in Request /\ RequestIs(q, f, g, created, dockerIds) /\ q.name \in Names
    BY Asking, KnownNow DEF UpsertContainerRow, At, Carries, Listing, AppListing
  <1>2. RowsAre(rows, f, g, created, dockerIds) /\ DockerIs(host, g, dockerIds)
    BY KnownNow
  <1>3. UNCHANGED <<host, dockerIds>> /\ AppRow(q).name = q.name /\ AppRow(q).id = q.id
    BY DEF UpsertContainerRow, AppRow
  <1>4. \A pc \in {"running", "failed"} : Go(r, pc) => RequestIs(req'[r], f, g, created, dockerIds)
    BY GoNames DEF Pcs
  <1>5. CASE q.row # 0
    <2>1. UNCHANGED created /\ RequestIs(req'[r], f, g, created, dockerIds)
      BY <1>4, <1>5 DEF UpsertContainerRow
    <2>2. RowsAre(rows', f, g, created, dockerIds)
      <3>1. CASE UNCHANGED rows
        BY <1>2, <3>1
      <3>2. CASE rows[q.row] # None /\ rows' = [rows EXCEPT ![q.row] = AppRow(q)]
        <4>1. q.row \in RowIds
          BY <1>1, <1>5, <3>2, AtRow
        <4>2. rows[q.row].name = q.name /\ IdIs(q.id, q.name, g, dockerIds)
          BY <1>1, <1>2, <1>5, <3>2, <4>1 DEF RequestIs, RowsAre, RowIs
        <4>3. \A i \in RowIds : rows'[i] = IF i = q.row THEN AppRow(q) ELSE rows[i]
          BY <3>2 DEF Base, Stored, RowMap
        <4>4. \A i \in RowIds : rows'[i] # None => rows[i] # None /\ rows'[i].name = rows[i].name
                                  /\ (rows'[i].id # rows[i].id => IdIs(rows'[i].id, rows'[i].name, g, dockerIds))
          BY <1>3, <3>2, <4>2, <4>3
        <4> QED BY <4>4, RowsAlike
      <3> QED BY <1>5, <3>1, <3>2 DEF UpsertContainerRow
    <2> QED BY <1>3, <2>1, <2>2, NamedAlike
  <1>6. CASE q.row = 0
    <2>1. /\ created' = created + 1 /\ created + 1 \in RowIds /\ rows' = [rows EXCEPT ![created + 1] = AppRow(q)]
          /\ created \in Nat /\ dockerIds \in Nat /\ MaxRow \in Nat /\ Go(r, "running")
      BY <1>6, InventoryAssumption DEF UpsertContainerRow, Base, Docked, Stored, RowNumbers, DockerIds, RowIds
    <2> PICK f2 : f2 = [i \in RowIds |-> IF i = created + 1 THEN q.name ELSE f[i]]  OBVIOUS
    <2>2. \A i \in 1..created : f2[i] = f[i]
      BY <2>1 DEF RowIds
    <2>3. Extended(f, g, created, dockerIds, f2, g, created', dockerIds')
      BY <1>3, <2>1, <2>2 DEF Extended
    <2>4. /\ DockerIs(host', g, dockerIds') /\ RowsAre(rows, f2, g, created', dockerIds')
          /\ RequestIs(q, f2, g, created', dockerIds')
      BY <1>1, <1>2, <1>3, <2>3, DockerStays, RowsStay, RequestStays DEF Base, Docked, Stored
    <2>5. RowsAre(rows', f2, g, created', dockerIds')
      <3>1. \A i \in RowIds : rows'[i] = IF i = created + 1 THEN AppRow(q) ELSE rows[i]
        BY <2>1 DEF Base, Stored, RowMap
      <3>2. RowIs(created + 1, AppRow(q), f2, g, created', dockerIds')
        BY <1>3, <2>1, <2>4 DEF RowIs, RequestIs
      <3> QED BY <2>4, <3>1, <3>2 DEF RowsAre
    <2>6. RequestIs(req'[r], f2, g, created', dockerIds')
      <3> PICK p : p = [q EXCEPT !.pc = "running"]  OBVIOUS
      <3>1. p.pc = "running" /\ p.name = q.name /\ p.row = q.row /\ p.id = q.id /\ p.ref = q.ref
        BY <1>1 DEF Request
      <3>2. req'[r] = p
        BY <2>1 DEF Go, Base, Asked
      <3> QED BY <2>4, <3>1, <3>2, CarriedIs
    <2> QED BY <2>3, <2>4, <2>5, <2>6, NamedAfter
  <1> QED BY <1>5, <1>6

-----------------------------------------------------------------------------
(* A new container of an app, and the names of all. *)
LEMMA LaunchAppNames ==
    ASSUME Base, Base', NEW f, NEW g, Known(f, g), NEW r \in Requests, Elsewhere(r), LaunchApp(r)
    PROVE  Named'
  <1> PICK q : q = req[r]  OBVIOUS
  <1>1. q \in Request /\ RequestIs(q, f, g, created, dockerIds) /\ q.name \in Names
    BY Asking, KnownNow DEF LaunchApp, At, Carries, Listing, AppListing
  <1>2. RowsAre(rows, f, g, created, dockerIds) /\ DockerIs(host, g, dockerIds)
    BY KnownNow
  <1>3. UNCHANGED <<rows, created>>
    BY DEF LaunchApp
  <1>4. CASE UNCHANGED <<host, dockerIds>>
    <2>1. Go(r, "failed")
      BY <1>1, <1>4 DEF LaunchApp, Launch, Base, Docked, DockerIds
    <2>2. RequestIs(req'[r], f, g, created, dockerIds)
      BY <2>1, GoNames DEF Pcs
    <2> QED BY <1>2, <1>3, <1>4, <2>2, NamedAlike
  <1>5. CASE ~UNCHANGED <<host, dockerIds>>
    <2>1. PICK state \in States : Launch(q.name, state)
      BY <1>5 DEF LaunchApp, States
    <2>2. /\ dockerIds' = dockerIds + 1 /\ dockerIds + 1 \in DockerIds \ {0}
          /\ \A m \in Names : host'[m] = IF m = q.name THEN [id |-> dockerIds + 1, state |-> state] ELSE host[m]
      BY <1>1, <2>1, Launching DEF Base
    <2> PICK g2 : g2 = [id \in DockerIds |-> IF id = dockerIds + 1 THEN q.name ELSE g[id]]  OBVIOUS
    <2>3. dockerIds \in Nat /\ created \in Nat /\ MaxId \in Nat /\ dockerIds + 1 <= MaxId
      BY <2>2, InventoryAssumption DEF Base, Docked, Stored, RowNumbers, DockerIds
    <2>4. \A id \in 1..dockerIds : g2[id] = g[id]
      BY <2>3 DEF DockerIds
    <2>5. Extended(f, g, created, dockerIds, f, g2, created', dockerIds')
      BY <1>3, <2>2, <2>3, <2>4 DEF Extended
    <2>6. /\ DockerIs(host, g2, dockerIds') /\ RowsAre(rows, f, g2, created', dockerIds')
          /\ RequestIs(q, f, g2, created', dockerIds')
      BY <1>1, <1>2, <2>5, DockerStays, RowsStay, RequestStays DEF Base, Docked, Stored
    <2>7. IdIs(dockerIds + 1, q.name, g2, dockerIds')
      BY <2>2, <2>3 DEF IdIs
    <2>8. DockerIs(host', g2, dockerIds')
      BY <2>2, <2>6, <2>7 DEF DockerIs
    <2>9. ASSUME NEW pc \in {"find", "mark", "failed"}, NEW id \in {q.id, dockerIds + 1},
                 req'[r] = [q EXCEPT !.pc = pc, !.id = id]
          PROVE  RequestIs(req'[r], f, g2, created', dockerIds')
      <3> PICK p : p = [q EXCEPT !.pc = pc, !.id = id]  OBVIOUS
      <3>1. p.pc = pc /\ p.name = q.name /\ p.row = q.row /\ p.id = id /\ p.ref = q.ref
        BY <1>1 DEF Request
      <3>2. IdIs(id, q.name, g2, dockerIds')
        BY <2>6, <2>7 DEF RequestIs
      <3> QED BY <2>6, <2>9, <3>1, <3>2 DEF RequestIs
    <2>10. \/ req'[r] = [q EXCEPT !.pc = "failed"]
           \/ \E pc \in {"find", "mark"} : req'[r] = [q EXCEPT !.pc = pc, !.id = dockerIds + 1]
      BY DEF LaunchApp, Go, Base, Asked
    <2>11. [q EXCEPT !.pc = "failed"] = [q EXCEPT !.pc = "failed", !.id = q.id]
      BY <1>1 DEF Request
    <2>12. RequestIs(req'[r], f, g2, created', dockerIds')
      <3>1. CASE req'[r] = [q EXCEPT !.pc = "failed"]
        BY <2>9, <2>11, <3>1
      <3>2. CASE \E pc \in {"find", "mark"} : req'[r] = [q EXCEPT !.pc = pc, !.id = dockerIds + 1]
        BY <2>9, <3>2
      <3> QED BY <2>10, <3>1, <3>2
    <2> QED BY <1>3, <2>5, <2>6, <2>8, <2>12, NamedAfter
  <1> QED BY <1>4, <1>5

LEMMA AppNamedStep ==
    ASSUME AppsTyped, Named, NEW r \in Requests, AnyStep(r)
    PROVE  Named'
  <1> PICK f, g : Known(f, g)
    BY DEF Named
  <1>1. Base /\ Base' /\ Elsewhere(r)
    BY AppStepBase DEF AppsTyped, KeptBy, Kept, AnyStep
  <1>2. ContainerStep(r) => Named'
    BY <1>1, SyncNames, PlainNames, WriteNames DEF ContainerStep
  <1>3. AppStep(r) => Named'
    BY <1>1, AppPlainNames, AppDockerNames, AppCarryNames, AppRowNames, UpsertNames, LaunchAppNames DEF AppStep
  <1> QED BY <1>2, <1>3 DEF AnyStep

LEMMA AppNamedNext ==
    ASSUME AppsTyped, Named, [AppNext]_appVars
    PROVE  Named'
  <1>1. Base /\ Base'
    BY AppNextBase DEF AppsTyped
  <1> PICK f, g : Known(f, g)
    BY DEF Named
  <1>2. \A r \in Requests : AppStep(r) \/ (ContainerStep(r) /\ UNCHANGED <<installed, cache>>) => Named'
    BY AppNamedStep DEF AnyStep
  <1>3. \A r \in Requests : ContainerArrives(r) => Named'
    BY <1>1, BegunNames DEF ContainerArrives, Arrives
  <1>4. ASSUME NEW r \in Requests, AppArrives(r)
        PROVE  Named'
    <2>1. PICK op, pc, n, i : Arriving(op, pc, n, i) /\ (i \in Installs \/ i = 0) /\ Begin(r, AppRequest(op, pc, n, i))
      BY <1>1, <1>4, AppArrival
    <2> PICK p : p = AppRequest(op, pc, n, i)  OBVIOUS
    <2>2. p.row = 0 /\ p.id = 0 /\ p.ref = 0
      <3> HIDE DEF Missing
      <3> QED BY DEF AppRequest, Idle
    <2>3. p.pc = pc
      BY <1>1, <2>1, AppRequestFormed
    <2>4. pc \notin {"read", "write", "persist"}
      BY <2>1 DEF Arriving
    <2>5. RequestIs(p, f, g, created, dockerIds)
      BY <2>2, <2>3, <2>4 DEF RequestIs, IdIs
    <2> QED BY <1>1, <2>1, <2>5, NamedAlike, KnownNow DEF Begin, Base, Asked, Elsewhere
  <1>5. ASSUME NEW n \in Names, ContainerChanges(n)
        PROVE  Named'
    <2>1. \A m \in Names : host'[m].id = host[m].id
      BY <1>1, <1>5 DEF ContainerChanges, Switched, Base, Docked, Docker
    <2>2. \A m \in Names : host'[m].id = 0 => host'[m] = Absent
      BY <1>1 DEF Base, Docked, Distinct
    <2>3. DockerIs(host', g, dockerIds)
      BY <2>1, <2>2 DEF Known, DockerIs
    <2> QED BY <1>5, <2>3 DEF ContainerChanges, Named, Known
  <1>6. PanelRestarts => Named'
    BY IdleIs DEF PanelRestarts, Ends, Named, Known
  <1>7. CacheExpires \/ UNCHANGED appVars => Named'
    BY DEF CacheExpires, appVars, vars, Named, Known
  <1> QED BY <1>2, <1>3, <1>4, <1>5, <1>6, <1>7 DEF AppNext

-----------------------------------------------------------------------------
(* Apps in order. *)
(***************************************************************************)
(* Requests about apps one after the other: what a request leaves in step, *)
(* and what it knows, at each of its steps.                                *)
(***************************************************************************)
\* At most one installation of a name, which is not under way, and the row of its container.
Recorded(n) ==
    \A i \in InstallsNamed(n) : /\ installs[i].status \in {"STARTING", "RUNNING", "STOPPED"}
                                /\ InstallsNamed(n) = {i} /\ RowsNamed(n) # {}
AppInStep(n) == InStep(n) /\ Recorded(n)
AppsInStep == \A n \in Names : AppInStep(n)

\* The steps at which the name a request is about is in step as well.
Steady(q) ==
    \/ q.pc \in Listing \cup AppListing \cup {"remove", "probe", "probeRows", "probeInstalls", "enter",
                                              "resolve", "reinstall", "appAct", "record"}
    \/ q.pc \in {"halt", "clear"} /\ q.op = "removeApp"
OwnApp(q, n) ==
    /\ Steady(q) => AppInStep(n)
    /\ q.pc \in {"probeRows", "probeInstalls", "enter", "launch", "dropRows", "dropInstalls"} => host[n].id = 0
    /\ q.pc = "remove" => q.row \in RowsNamed(n) /\ q.id = host[n].id
    /\ q.pc \in {"purge", "erase"} => /\ \A i \in RowsNamed(n) : i = q.row
                                      /\ host[n].id = 0 \/ host[n].id \in kept
    /\ q.pc \in {"erase", "enter"} => InstallsNamed(n) = {}
    /\ Works(q) \/ q.pc \in {"resolve", "reinstall", "appAct", "record"} => InstallsNamed(n) = {q.install}
    /\ q.op = "installApp" /\ q.pc \in {"launch", "find", "upsert"} => RowsNamed(n) = {}
    /\ q.pc \in {"find", "upsert", "mark"} => q.id = host[n].id /\ q.id # 0
    /\ q.pc = "upsert" => q.row = 0
    /\ Works(q) /\ q.op = "rebuildApp" => RowsNamed(n) # {} /\ \A i, j \in RowsNamed(n) : i = j
    /\ q.pc = "running" \/ (q.pc \in {"halt", "clear"} /\ q.op = "rebuildApp") => InStep(n) /\ RowsNamed(n) # {}
    /\ q.pc = "clear" => ~Up(host[n])
    /\ q.pc \notin {"failed", "markError"}
    /\ q.pc = "dropInstalls" => RowsNamed(n) = {}
AppProgress(q) ==
    /\ \A n \in Names : IF n # q.name THEN AppInStep(n) ELSE OwnApp(q, n)
    /\ Compared(q)
AppOrdered(r) == \A q \in {req[r]} : IF q.pc = "idle" THEN AppsInStep ELSE AppProgress(q)
AppOrderly == Undisturbed => /\ AllIdle => AppsInStep
                             /\ \A r \in Requests : InProgress(r) => AppProgress(req[r])

\* A step leaves the installations of a name, and whether they are under way, alone.
SameInstalls(n) ==
    /\ InstallsNamed(n)' = InstallsNamed(n)
    /\ \A i \in InstallsNamed(n) : installs[i].status \in {"STARTING", "RUNNING", "STOPPED"} => installs'[i].status \in {"STARTING", "RUNNING", "STOPPED"}
AppAlike(n) == Alike(n) /\ SameInstalls(n)

LEMMA StaysRecorded ==
    ASSUME NEW n, AppAlike(n), kept \subseteq kept', AppInStep(n)
    PROVE  AppInStep(n)'
  <1>1. InStep(n)'
    BY StaysInStep DEF AppAlike, AppInStep
  <1>2. InstallsNamed(n)' = InstallsNamed(n) /\ RowsNamed(n)' = RowsNamed(n)
    BY DEF AppAlike, SameInstalls, Alike, SameRows
  <1>3. Recorded(n)'
    BY <1>2 DEF AppAlike, SameInstalls, AppInStep, Recorded
  <1> QED BY <1>1, <1>3 DEF AppInStep

LEMMA InstallsUnchanged ==
    ASSUME UNCHANGED installs
    PROVE  \A n : SameInstalls(n)
  BY DEF SameInstalls, InstallsNamed, Installs

LEMMA OneInstallChanges ==
    ASSUME NEW i \in InstallIds, NEW m, \A j \in InstallIds : j # i => installs'[j] = installs[j],
           installs[i] # None => installs[i].name = m, installs'[i] # None => installs'[i].name = m
    PROVE  /\ \A n : n # m => SameInstalls(n)
           /\ InstallsNamed(m)' = IF installs'[i] = None THEN InstallsNamed(m) \ {i} ELSE InstallsNamed(m) \cup {i}
  BY DEF SameInstalls, InstallsNamed, Installs

LEMMA AppProceeds ==
    ASSUME Base, NEW r \in Requests, NEW q, q = req[r], AppProgress(q), NEW p, req'[r] = p, p.name = q.name,
           p.pc \notin {"idle", "read", "write", "persist"}, kept \subseteq kept',
           \A n \in Names : n # q.name => AppAlike(n),
           q.name \in Names => OwnApp(p, q.name)'
    PROVE  AppOrdered(r)'
  <1>1. AppProgress(p)'
    BY StaysRecorded DEF AppProgress, Compared
  <1> QED BY <1>1 DEF AppOrdered

LEMMA AppFinishes ==
    ASSUME Base, NEW r \in Requests, NEW q, q = req[r], AppProgress(q), Reply(r), kept \subseteq kept',
           \A n \in Names : n # q.name => AppAlike(n),
           q.name \in Names => AppInStep(q.name)'
    PROVE  AppOrdered(r)'
  <1>1. AppsInStep'
    BY StaysRecorded DEF AppProgress, AppsInStep
  <1>2. req'[r] = Idle
    BY DEF Reply, Base, Asked
  <1> QED BY <1>1, <1>2, IdleIsFormed DEF AppOrdered

LEMMA GoesTo ==
    ASSUME Base, NEW r \in Requests, NEW pc \in Pcs, Go(r, pc)
    PROVE  \E p : /\ req'[r] = p /\ p.pc = pc /\ p.op = req[r].op /\ p.name = req[r].name /\ p.row = req[r].row
                  /\ p.id = req[r].id /\ p.install = req[r].install
  <1> PICK q : q = req[r]  OBVIOUS
  <1>1. q \in Request
    BY Asking
  <1> PICK p : p = [q EXCEPT !.pc = pc]  OBVIOUS
  <1>2. req'[r] = p
    BY DEF Go, Base, Asked
  <1> QED BY <1>1, <1>2 DEF Request

LEMMA AppOrderFacts ==
    ASSUME AppsTyped, Named, NEW r \in Requests
    PROVE  /\ Base /\ req[r] \in Request /\ Belongs(req[r]) /\ Carries(req[r])
           /\ \E f, g : Known(f, g)
           /\ InProgress(r) => req[r].op \in AppOps
           /\ \A n \in Names : (host[n].id = 0 <=> host[n] = Absent)
           /\ req[r].install # 0 => req[r].install \in InstallIds
           /\ AppProgress(req[r]) /\ req[r].name \in Names => OwnApp(req[r], req[r].name)
           /\ req[r].pc # "idle" /\ req[r].pc \notin Listing \cup AppListing => req[r].name \in Names
  <1>1. Base /\ Limited(AppOps)
    BY DEF AppsTyped
  <1>2. req[r] \in Request /\ Belongs(req[r]) /\ Carries(req[r])
    BY <1>1, Asking
  <1>3. req[r].install # 0 => req[r].install \in InstallIds
    BY <1>2, InventoryAssumption DEF Request, InstallNumbers, InstallIds
  <1>4. \A n \in Names : (host[n].id = 0 <=> host[n] = Absent)
    BY <1>1 DEF Base, Docked, Distinct, Absent
  <1>5. req[r].pc # "idle" /\ req[r].pc \notin Listing \cup AppListing => req[r].name \in Names
    BY <1>2 DEF Carries
  <1> QED BY <1>1, <1>2, <1>3, <1>4, <1>5 DEF Named, Limited, InProgress, AppProgress

LEMMA AppListOrders ==
    ASSUME AppsTyped, Named, NEW r \in Requests, AppProgress(req[r]), ListContainers(r) \/ ReadRows(r), faults' = faults
    PROVE  AppOrdered(r)'
  <1> PICK q : q = req[r]  OBVIOUS
  <1>1. q \in Request /\ q.pc \in {"list", "read"} /\ Base
    BY AppOrderFacts DEF ListContainers, ReadRows, At
  <1>2. UNCHANGED <<host, rows, installs, kept>> /\ \A n : AppAlike(n)
    BY NothingMoves, InstallsUnchanged DEF ListContainers, ReadRows, AppAlike
  <1>3. \A n \in Names : AppInStep(n)
    BY <1>1 DEF AppProgress, OwnApp, Steady, Listing
  <1>4. AppsInStep'
    BY <1>2, <1>3, StaysRecorded DEF AppsInStep
  <1>5. ASSUME NEW p, req'[r] = p, p.pc \in {"read", "write"}, Compared(p)'
        PROVE  AppOrdered(r)'
    <2>1. \A n \in Names : OwnApp(p, n)'
      BY <1>4, <1>5 DEF OwnApp, Works, AppsInStep
    <2>2. AppProgress(p)'
      BY <1>4, <1>5, <2>1 DEF AppProgress, AppsInStep
    <2> QED BY <1>5, <2>2 DEF AppOrdered
  <1>6. CASE ListContainers(r)
    <2> PICK p : p = [q EXCEPT !.pc = "read", !.seen = host]  OBVIOUS
    <2>1. req'[r] = p
      <3>1. req' = [req EXCEPT ![r].pc = "read", ![r].seen = host]
        BY NoFault, <1>1, <1>6 DEF ListContainers
      <3> QED BY <1>1, <3>1 DEF Base, Asked
    <2>2. p.pc = "read" /\ p.seen = host
      BY <1>1 DEF Request
    <2>3. Compared(p)'
      BY <1>2, <2>2 DEF Compared
    <2> QED BY <1>5, <2>1, <2>2, <2>3
  <1>7. CASE ReadRows(r)
    <2> PICK p : p = [q EXCEPT !.pc = "write", !.known = rows]  OBVIOUS
    <2>1. req'[r] = p
      BY <1>1, <1>7 DEF ReadRows, Base, Asked
    <2>2. p.pc = "write" /\ p.seen = q.seen /\ p.known = rows /\ q.pc = "read"
      BY <1>1, <1>7 DEF Request, ReadRows, At
    <2>3. Compared(p)'
      BY <1>2, <2>2 DEF Compared, AppProgress
    <2> QED BY <1>5, <2>1, <2>2, <2>3
  <1> QED BY <1>6, <1>7

LEMMA AppWriteOrders ==
    ASSUME AppsTyped, Named, NEW r \in Requests, AppProgress(req[r]), WriteRows(r)
    PROVE  AppOrdered(r)'
  <1> PICK q : q = req[r]  OBVIOUS
  <1>1. /\ q \in Request /\ q.pc = "write" /\ Base /\ Carries(q) /\ q.op \in AppOps /\ \E f, g : Known(f, g)
    BY AppOrderFacts DEF WriteRows, At, InProgress
  <1>2. /\ AllInStep'
        /\ \A n \in Names : RowsNamed(n)' = {} => host'[n].id = 0
    BY <1>1, SyncPutsInStep DEF AppProgress
  <1>3. UNCHANGED <<host, installs>>
    BY DEF WriteRows
  <1>4. \A n \in Names : InstallsNamed(n)' = InstallsNamed(n)
    BY <1>3 DEF InstallsNamed, Installs
  <1>5. ASSUME NEW n \in Names
        PROVE  AppInStep(n)'
    <2>1. AppInStep(n)
      BY <1>1 DEF AppProgress, OwnApp, Steady, Listing
    <2>2. RowsNamed(n) # {} => RowsNamed(n)' # {}
      BY <1>2, <1>3, <2>1 DEF AppInStep, InStep
    <2>3. Recorded(n)'
      BY <1>3, <1>4, <2>1, <2>2 DEF AppInStep, Recorded
    <2> QED BY <1>2, <2>3 DEF AppInStep, AllInStep
  <1>6. Reply(r)
    <2>1. q.next = "done"
      BY <1>1 DEF Carries, Listing, AppOps
    <2> QED BY <2>1 DEF WriteRows
  <1> QED BY <1>1, <1>5, <1>6, IdleIsFormed DEF AppOrdered, AppsInStep, Reply, Base, Asked


-----------------------------------------------------------------------------
(* Apps in order: removals and probes. *)
LEMMA Unmoved ==
    ASSUME UNCHANGED <<host, rows, installs, kept>>, NEW n
    PROVE  /\ AppAlike(n) /\ RowsNamed(n)' = RowsNamed(n) /\ InstallsNamed(n)' = InstallsNamed(n)
           /\ host'[n] = host[n] /\ kept' = kept
           /\ (AppInStep(n) => AppInStep(n)') /\ (InStep(n) => InStep(n)')
  <1>1. AppAlike(n)
    BY NothingMoves, InstallsUnchanged DEF AppAlike
  <1>2. (AppInStep(n) => AppInStep(n)') /\ (InStep(n) => InStep(n)')
    BY <1>1, StaysRecorded, StaysInStep DEF AppAlike
  <1> QED BY <1>1, <1>2 DEF AppAlike, SameInstalls, Alike, SameRows

\* A request about a name in step ends without having changed anything.
LEMMA AppGivesUp ==
    ASSUME Base, NEW r \in Requests, NEW q, q = req[r], AppProgress(q), Reply(r),
           UNCHANGED <<host, rows, installs, kept>>, q.name \in Names => AppInStep(q.name)
    PROVE  AppOrdered(r)'
  BY AppFinishes, Unmoved

LEMMA AppRemoveOrders ==
    ASSUME AppsTyped, Named, NEW r \in Requests, AppProgress(req[r]), RemoveContainer(r), faults' = faults
    PROVE  AppOrdered(r)'
  <1> PICK q : q = req[r]  OBVIOUS
  <1>1. q \in Request /\ q.pc = "remove" /\ Base /\ q.name \in Names /\ OwnApp(q, q.name)
    BY AppOrderFacts DEF RemoveContainer, At, Listing, AppListing
  <1>2. AppInStep(q.name) /\ q.row \in RowsNamed(q.name) /\ q.id = host[q.name].id
    BY <1>1 DEF OwnApp, Steady
  <1>3. q.id # 0 /\ \A i \in RowsNamed(q.name) : i = q.row
    BY <1>2 DEF AppInStep, InStep
  <1>4. Holding(q.id) = {q.name}
    BY <1>1, <1>2, <1>3 DEF Holding, Base, Docked, Distinct
  <1>5. UNCHANGED <<rows, installs>> /\ (\A n : SameRows(n)) /\ \A n : SameInstalls(n)
    BY RowsUnchanged, InstallsUnchanged DEF RemoveContainer
  <1>6. /\ host' = [n \in Names |-> IF n \in {q.name} /\ ~Up(host[n]) THEN Absent ELSE host[n]]
        /\ kept' = kept \cup {host[n].id : n \in {m \in {q.name} : Up(host[m])}}
    BY <1>1, <1>4, NoFault DEF RemoveContainer
  <1>7. host'[q.name].id = 0 \/ host'[q.name].id \in kept'
    BY <1>1, <1>6 DEF Absent
  <1>8. kept \subseteq kept' /\ \A n \in Names : n # q.name => AppAlike(n)
    BY <1>5, <1>6 DEF AppAlike, Alike
  <1>9. \A i \in RowsNamed(q.name)' : i = q.row
    BY <1>3, <1>5 DEF SameRows
  <1>10. PICK p : req'[r] = p /\ p.pc = "purge" /\ p.op = q.op /\ p.name = q.name /\ p.row = q.row
    BY <1>1, GoesTo DEF RemoveContainer, Pcs
  <1>11. OwnApp(p, q.name)'
    BY <1>7, <1>9, <1>10 DEF OwnApp, Steady, Works, Listing, AppListing
  <1> QED BY <1>1, <1>8, <1>10, <1>11, AppProceeds

LEMMA AppPurgeOrders ==
    ASSUME AppsTyped, Named, NEW r \in Requests, AppProgress(req[r]), DeleteRelatedAppInstalls(r)
    PROVE  AppOrdered(r)'
  <1> PICK q : q = req[r]  OBVIOUS
  <1>1. q \in Request /\ q.pc = "purge" /\ Base /\ q.name \in Names /\ OwnApp(q, q.name)
    BY AppOrderFacts DEF DeleteRelatedAppInstalls, At, Listing, AppListing
  <1>2. UNCHANGED <<host, rows, kept>> /\ \A n : Alike(n)
    BY NothingMoves DEF DeleteRelatedAppInstalls
  <1>3. installs' = [i \in InstallIds |-> IF i \in InstallsNamed(q.name) THEN None ELSE installs[i]]
    BY DEF DeleteRelatedAppInstalls
  <1>4. InstallsNamed(q.name)' = {} /\ \A n : n # q.name => SameInstalls(n)
    BY <1>3 DEF InstallsNamed, Installs, SameInstalls
  <1>5. PICK p : req'[r] = p /\ p.pc = "erase" /\ p.op = q.op /\ p.name = q.name /\ p.row = q.row
    BY <1>1, GoesTo DEF DeleteRelatedAppInstalls, Pcs
  <1>6. OwnApp(p, q.name)'
    BY <1>1, <1>2, <1>4, <1>5 DEF OwnApp, Steady, Works, Listing, AppListing, Alike, SameRows
  <1> QED BY <1>1, <1>2, <1>4, <1>5, <1>6, AppProceeds DEF AppAlike

LEMMA AppEraseOrders ==
    ASSUME AppsTyped, Named, NEW r \in Requests, AppProgress(req[r]), EraseRow(r)
    PROVE  AppOrdered(r)'
  <1> PICK q : q = req[r]  OBVIOUS
  <1>1. /\ q \in Request /\ q.pc = "erase" /\ Base /\ q.name \in Names /\ Carries(q) /\ OwnApp(q, q.name)
        /\ \E f, g : Known(f, g)
    BY AppOrderFacts DEF EraseRow, At, Listing, AppListing
  <1> PICK f, g : Known(f, g)
    BY <1>1
  <1>2. q.row \in RowIds /\ (rows[q.row] # None => rows[q.row].name = q.name)
    BY <1>1, AtRow, KnownNow DEF Carries, RequestIs, RowsAre, RowIs
  <1>3. rows' = [rows EXCEPT ![q.row] = None] /\ Reply(r) /\ UNCHANGED <<host, installs, kept>>
    BY DEF EraseRow
  <1>4. rows'[q.row] = None /\ \A j \in RowIds : j # q.row => rows'[j] = rows[j]
    BY <1>1, <1>2, <1>3 DEF Base, Stored, RowMap
  <1>5. (\A n : n # q.name => SameRows(n)) /\ RowsNamed(q.name)' = RowsNamed(q.name) \ {q.row}
    BY <1>2, <1>4, OneRowChanges
  <1>6. \A n : SameInstalls(n)
    BY <1>3, InstallsUnchanged
  <1>7. InStep(q.name)'
    BY <1>1, <1>3, <1>5 DEF OwnApp, InStep
  <1>8. InstallsNamed(q.name)' = {}
    BY <1>1, <1>6 DEF OwnApp, SameInstalls
  <1>9. AppInStep(q.name)'
    BY <1>7, <1>8 DEF AppInStep, Recorded
  <1> QED BY <1>1, <1>3, <1>5, <1>6, <1>9, AppFinishes DEF AppAlike, Alike

LEMMA ProbeOrders ==
    ASSUME AppsTyped, Named, NEW r \in Requests, AppProgress(req[r]), Probe(r), faults' = faults
    PROVE  AppOrdered(r)'
  <1> PICK q : q = req[r]  OBVIOUS
  <1>1. /\ q \in Request /\ q.pc = "probe" /\ Base /\ q.name \in Names /\ OwnApp(q, q.name)
        /\ host[q.name].id = 0 <=> host[q.name] = Absent
    BY AppOrderFacts DEF Probe, At, Listing, AppListing
  <1>2. AppInStep(q.name)
    BY <1>1 DEF OwnApp, Steady
  <1>3. UNCHANGED <<host, rows, installs, kept>>
    BY DEF Probe, Others
  <1>4. IF host[q.name] # Absent THEN Reply(r) ELSE Go(r, "probeRows")
    BY <1>1, NoFault DEF Probe
  <1>5. CASE Reply(r)
    BY <1>1, <1>2, <1>3, <1>5, AppGivesUp
  <1>6. CASE host[q.name] = Absent /\ Go(r, "probeRows")
    <2>1. PICK p : req'[r] = p /\ p.pc = "probeRows" /\ p.op = q.op /\ p.name = q.name
      BY <1>1, <1>6, GoesTo DEF Pcs
    <2>2. OwnApp(p, q.name)'
      BY <1>1, <1>2, <1>3, <1>6, <2>1, Unmoved DEF OwnApp, Steady, Works, Listing, AppListing
    <2> QED BY <1>1, <1>3, <2>1, <2>2, Unmoved, AppProceeds
  <1> QED BY <1>4, <1>5, <1>6

LEMMA ProbeRowsOrders ==
    ASSUME AppsTyped, Named, NEW r \in Requests, AppProgress(req[r]), ProbeRows(r) \/ ProbeInstalls(r)
    PROVE  AppOrdered(r)'
  <1> PICK q : q = req[r]  OBVIOUS
  <1>1. /\ q \in Request /\ q.pc \in {"probeRows", "probeInstalls"} /\ Base /\ q.name \in Names /\ OwnApp(q, q.name)
        /\ Belongs(q)
    BY AppOrderFacts DEF ProbeRows, ProbeInstalls, At, Listing, AppListing
  <1>2. AppInStep(q.name) /\ host[q.name].id = 0 /\ q.op = "installApp"
    BY <1>1 DEF OwnApp, Steady, Belongs, Entering
  <1>3. UNCHANGED <<host, rows, installs, kept>>
    BY DEF ProbeRows, ProbeInstalls, Others
  <1>4. CASE Reply(r)
    BY <1>1, <1>2, <1>3, <1>4, AppGivesUp
  <1>5. CASE Go(r, "probeInstalls")
    <2>1. PICK p : req'[r] = p /\ p.pc = "probeInstalls" /\ p.op = q.op /\ p.name = q.name
      BY <1>1, <1>5, GoesTo DEF Pcs
    <2>2. OwnApp(p, q.name)'
      BY <1>1, <1>2, <1>3, <2>1, Unmoved DEF OwnApp, Steady, Works, Listing, AppListing
    <2> QED BY <1>1, <1>3, <2>1, <2>2, Unmoved, AppProceeds
  <1>6. CASE Go(r, "enter") /\ ~\E i \in InstallsNamed(q.name) : installs[i].status # "FAILED"
    <2>1. PICK p : req'[r] = p /\ p.pc = "enter" /\ p.op = q.op /\ p.name = q.name
      BY <1>1, <1>6, GoesTo DEF Pcs
    <2>2. InstallsNamed(q.name) = {}
      BY <1>2, <1>6 DEF AppInStep, Recorded
    <2>3. OwnApp(p, q.name)'
      BY <1>1, <1>2, <1>3, <2>1, <2>2, Unmoved DEF OwnApp, Steady, Works, Listing, AppListing
    <2> QED BY <1>1, <1>3, <2>1, <2>3, Unmoved, AppProceeds
  <1> QED BY <1>4, <1>5, <1>6 DEF ProbeRows, ProbeInstalls


-----------------------------------------------------------------------------
(* Apps in order: installations. *)
LEMMA EnterOrders ==
    ASSUME AppsTyped, Named, Entered, NEW r \in Requests, AppProgress(req[r]), EnterInstall(r)
    PROVE  AppOrdered(r)'
  <1> PICK q : q = req[r]  OBVIOUS
  <1>1. /\ q \in Request /\ q.pc = "enter" /\ Base /\ q.name \in Names /\ OwnApp(q, q.name) /\ Belongs(q)
        /\ host[q.name].id = 0 <=> host[q.name] = Absent
    BY AppOrderFacts DEF EnterInstall, At, Listing, AppListing
  <1>2. AppInStep(q.name) /\ host[q.name].id = 0 /\ q.op = "installApp" /\ InstallsNamed(q.name) = {}
    BY <1>1 DEF OwnApp, Steady, Belongs, Entering
  <1>3. RowsNamed(q.name) = {}
    BY <1>2 DEF AppInStep, InStep
  <1>4. UNCHANGED <<host, rows, kept>> /\ \A n : Alike(n)
    BY NothingMoves DEF EnterInstall, Others
  <1> PICK i : i = installed + 1  OBVIOUS
  <1>5. i \in InstallIds /\ installs[i] = None
    <2>1. installed \in Nat /\ i \in InstallIds /\ ~(i <= installed)
      BY InventoryAssumption DEF AppsTyped, InstallNumbers, InstallIds, EnterInstall
    <2> QED BY <2>1 DEF Entered, Installs
  <1> PICK x : x = [name |-> q.name, status |-> "INSTALLING"]  OBVIOUS
  <1>6. x.name = q.name /\ x # None
    <2>1. x \in Install /\ x.name = q.name
      BY <1>1 DEF Install
    <2> QED BY <2>1, NoneIsNoRow
  <1>7. installs'[i] = x /\ \A j \in InstallIds : j # i => installs'[j] = installs[j]
    BY <1>1, <1>5 DEF EnterInstall, Base, InstallMap
  <1>8. installs'[i] # None /\ installs'[i].name = q.name
    BY <1>6, <1>7
  <1>9. (\A n : n # q.name => SameInstalls(n)) /\ InstallsNamed(q.name)' = {i}
    BY <1>2, <1>5, <1>7, <1>8, OneInstallChanges
  <1> PICK p : p = [q EXCEPT !.pc = "launch", !.install = i]  OBVIOUS
  <1>10. p.pc = "launch" /\ p.op = q.op /\ p.name = q.name /\ p.install = i
    BY <1>1 DEF Request
  <1>11. req'[r] = p
    BY <1>1 DEF EnterInstall, Base, Asked
  <1>12. OwnApp(p, q.name)'
    <2>1. RowsNamed(q.name)' = {} /\ host'[q.name].id = 0
      BY <1>2, <1>3, <1>4 DEF Alike, SameRows
    <2> QED BY <1>2, <1>9, <1>10, <2>1 DEF OwnApp, Steady, Works, Listing, AppListing
  <1>13. \A n \in Names : n # q.name => AppAlike(n)
    BY <1>4, <1>9 DEF AppAlike
  <1>14. AppProgress(q) /\ p.pc \notin {"idle", "read", "write", "persist"} /\ kept \subseteq kept'
    BY <1>4, <1>10
  <1> QED BY ONLY q = req[r], r \in Requests, <1>1, <1>10, <1>11, <1>12, <1>13, <1>14, AppProceeds

LEMMA LaunchOrders ==
    ASSUME AppsTyped, Named, NEW r \in Requests, AppProgress(req[r]), LaunchApp(r), faults' = faults
    PROVE  AppOrdered(r)'
  <1> PICK q : q = req[r]  OBVIOUS
  <1>1. /\ q \in Request /\ q.pc = "launch" /\ Base /\ q.name \in Names /\ OwnApp(q, q.name) /\ Belongs(q)
        /\ host[q.name].id = 0 <=> host[q.name] = Absent
    BY AppOrderFacts DEF LaunchApp, At, Listing, AppListing
  <1>2. host[q.name] = Absent /\ InstallsNamed(q.name) = {q.install} /\ q.op \in {"installApp", "rebuildApp"}
    BY <1>1 DEF OwnApp, Works, Belongs
  <1>3. /\ Launch(q.name, "running")
        /\ req' = [req EXCEPT ![r].pc = IF req[r].op = "installApp" THEN "find" ELSE "mark", ![r].id = dockerIds + 1]
    BY <1>1, <1>2, NoFault DEF LaunchApp
  <1>4. UNCHANGED <<rows, installs, kept>> /\ (\A n : SameRows(n)) /\ \A n : SameInstalls(n)
    BY RowsUnchanged, InstallsUnchanged DEF LaunchApp, Others
  <1> PICK id : id = dockerIds + 1  OBVIOUS
  <1>5. id # 0 /\ \A n \in Names : host'[n] = IF n = q.name THEN [id |-> id, state |-> "running"] ELSE host[n]
    BY <1>1, <1>3, Launching DEF Base, States
  <1> PICK p : p = [q EXCEPT !.pc = IF q.op = "installApp" THEN "find" ELSE "mark", !.id = id]  OBVIOUS
  <1>6. /\ p.pc = (IF q.op = "installApp" THEN "find" ELSE "mark") /\ p.op = q.op /\ p.name = q.name
        /\ p.install = q.install /\ p.id = id
    BY <1>1 DEF Request
  <1>7. req'[r] = p
    BY <1>1, <1>3 DEF Base, Asked
  <1>8. host'[q.name].id = id /\ \A n \in Names : n # q.name => host'[n].id = host[n].id
    BY <1>1, <1>5
  <1>9. RowsNamed(q.name)' = RowsNamed(q.name) /\ InstallsNamed(q.name)' = InstallsNamed(q.name)
    BY <1>4 DEF SameRows, SameInstalls
  <1>10. OwnApp(p, q.name)'
    <2>1. CASE q.op = "installApp"
      <3>1. p.pc = "find" /\ RowsNamed(q.name) = {}
        BY <1>1, <1>6, <2>1 DEF OwnApp
      <3> QED BY <1>2, <1>5, <1>6, <1>8, <1>9, <2>1, <3>1 DEF OwnApp, Steady, Works, Listing, AppListing
    <2>2. CASE q.op = "rebuildApp"
      <3>1. p.pc = "mark" /\ RowsNamed(q.name) # {} /\ \A i, j \in RowsNamed(q.name) : i = j
        BY <1>1, <1>6, <2>2 DEF OwnApp, Works
      <3> QED BY <1>2, <1>5, <1>6, <1>8, <1>9, <2>2, <3>1 DEF OwnApp, Steady, Works, Listing, AppListing
    <2> QED BY <1>2, <2>1, <2>2
  <1>11. \A n \in Names : n # q.name => AppAlike(n)
    BY <1>4, <1>8 DEF AppAlike, Alike
  <1>12. AppProgress(q) /\ p.pc \notin {"idle", "read", "write", "persist"} /\ kept \subseteq kept'
    BY <1>4, <1>6
  <1> QED BY ONLY q = req[r], r \in Requests, <1>1, <1>6, <1>7, <1>10, <1>11, <1>12, AppProceeds

LEMMA FindOrders ==
    ASSUME AppsTyped, Named, NEW r \in Requests, AppProgress(req[r]), FindContainerRow(r)
    PROVE  AppOrdered(r)'
  <1> PICK q : q = req[r]  OBVIOUS
  <1>1. /\ q \in Request /\ q.pc = "find" /\ Base /\ q.name \in Names /\ OwnApp(q, q.name) /\ Belongs(q)
    BY AppOrderFacts DEF FindContainerRow, At, Listing, AppListing
  <1>2. /\ q.op = "installApp" /\ InstallsNamed(q.name) = {q.install} /\ RowsNamed(q.name) = {}
        /\ q.id = host[q.name].id /\ q.id # 0
    BY <1>1 DEF OwnApp, Works, Belongs, Entering
  <1>3. UNCHANGED <<host, rows, installs, kept>>
    BY DEF FindContainerRow, Others
  <1>4. req' = [req EXCEPT ![r].pc = "upsert", ![r].row = 0]
    BY <1>2 DEF FindContainerRow
  <1> PICK p : p = [q EXCEPT !.pc = "upsert", !.row = 0]  OBVIOUS
  <1>5. /\ p.pc = "upsert" /\ p.op = q.op /\ p.name = q.name /\ p.install = q.install /\ p.id = q.id /\ p.row = 0
    BY <1>1 DEF Request
  <1>6. req'[r] = p
    BY <1>1, <1>4 DEF Base, Asked
  <1>7. OwnApp(p, q.name)'
    BY <1>1, <1>2, <1>3, <1>5, Unmoved DEF OwnApp, Steady, Works, Listing, AppListing
  <1> QED BY <1>1, <1>3, <1>5, <1>6, <1>7, Unmoved, AppProceeds

LEMMA UpsertOrders ==
    ASSUME AppsTyped, Named, NEW r \in Requests, AppProgress(req[r]), UpsertContainerRow(r)
    PROVE  AppOrdered(r)'
  <1> PICK q : q = req[r]  OBVIOUS
  <1>1. /\ q \in Request /\ q.pc = "upsert" /\ Base /\ q.name \in Names /\ OwnApp(q, q.name) /\ Belongs(q)
    BY AppOrderFacts DEF UpsertContainerRow, At, Listing, AppListing
  <1>2. /\ q.op = "installApp" /\ InstallsNamed(q.name) = {q.install} /\ RowsNamed(q.name) = {}
        /\ q.id = host[q.name].id /\ q.id # 0 /\ q.row = 0
    BY <1>1 DEF OwnApp, Works, Belongs, Entering
  <1>3. UNCHANGED <<host, installs, kept>> /\ \A n : SameInstalls(n)
    BY InstallsUnchanged DEF UpsertContainerRow, Others
  <1> PICK i : i = created + 1  OBVIOUS
  <1> PICK x : x = AppRow(q)  OBVIOUS
  <1>4. rows' = [rows EXCEPT ![i] = x] /\ created < MaxRow /\ Go(r, "running")
    BY <1>2 DEF UpsertContainerRow
  <1>5. i \in RowIds /\ rows[i] = None
    <2>1. created \in Nat /\ i \in RowIds /\ ~(i <= created)
      BY <1>1, <1>4, InventoryAssumption DEF Base, Stored, RowNumbers, RowIds
    <2> QED BY <1>1, <2>1 DEF Base, Stored
  <1>6. x.name = q.name /\ x.id = q.id /\ x # None
    <2>1. x \in Row /\ x.name = q.name /\ x.id = q.id
      BY <1>1 DEF AppRow, Row, Statuses, Request, DockerIds
    <2> QED BY <2>1, NoneIsNoRow
  <1>7. rows'[i] = x /\ \A j \in RowIds : j # i => rows'[j] = rows[j]
    BY <1>1, <1>4, <1>5 DEF Base, Stored, RowMap
  <1>8. rows'[i] # None /\ rows'[i].name = q.name /\ rows'[i].id = q.id
    BY <1>6, <1>7
  <1>9. (\A n : n # q.name => SameRows(n)) /\ RowsNamed(q.name)' = {i}
    BY <1>2, <1>5, <1>7, <1>8, OneRowChanges
  <1>10. InStep(q.name)'
    BY <1>2, <1>3, <1>8, <1>9 DEF InStep
  <1>11. PICK p : req'[r] = p /\ p.pc = "running" /\ p.op = q.op /\ p.name = q.name /\ p.install = q.install
    BY <1>1, <1>4, GoesTo DEF Pcs
  <1>12. OwnApp(p, q.name)'
    <2>1. InstallsNamed(q.name)' = {q.install}
      BY <1>2, <1>3 DEF SameInstalls
    <2> QED BY <1>2, <1>9, <1>10, <1>11, <2>1 DEF OwnApp, Steady, Works, Listing, AppListing
  <1> QED BY <1>1, <1>3, <1>9, <1>11, <1>12, AppProceeds DEF AppAlike, Alike

\* The status of a request's installation is written.
LEMMA StatusOrders ==
    ASSUME AppsTyped, NEW q, q.name \in Names, InstallsNamed(q.name) = {q.install},
           NEW st \in {"INSTALLING", "STARTING", "RUNNING", "STOPPED", "FAILED"},
           installs' = IF installs[q.install] = None THEN installs ELSE [installs EXCEPT ![q.install].status = st]
    PROVE  /\ \A n : n # q.name => SameInstalls(n)
           /\ InstallsNamed(q.name)' = {q.install} /\ installs'[q.install].status = st
           /\ installs[q.install] # None
  <1> PICK i : i = q.install  OBVIOUS
  <1>1. i \in InstallIds /\ installs[i] # None /\ installs[i].name = q.name /\ Base
    BY DEF InstallsNamed, Installs, AppsTyped
  <1>2. installs[i] \in Install
    BY <1>1 DEF Base, InstallMap
  <1> PICK y : y = [installs[i] EXCEPT !.status = st]  OBVIOUS
  <1>3. y # None /\ y.name = q.name /\ y.status = st
    BY <1>1, <1>2, InstallSet
  <1>4. installs'[i] = y /\ \A j \in InstallIds : j # i => installs'[j] = installs[j]
    BY <1>1 DEF Base, InstallMap
  <1>5. installs'[i] # None /\ installs'[i].name = q.name /\ installs'[i].status = st
    BY <1>3, <1>4
  <1>6. (\A n : n # q.name => SameInstalls(n)) /\ InstallsNamed(q.name)' = InstallsNamed(q.name) \cup {i}
    BY <1>1, <1>4, <1>5, OneInstallChanges
  <1> QED BY <1>1, <1>5, <1>6

LEMMA SucceedOrders ==
    ASSUME AppsTyped, Named, NEW r \in Requests, AppProgress(req[r]), SucceedInstall(r)
    PROVE  AppOrdered(r)'
  <1> PICK q : q = req[r]  OBVIOUS
  <1>1. /\ q \in Request /\ q.pc = "running" /\ Base /\ q.name \in Names /\ OwnApp(q, q.name)
    BY AppOrderFacts DEF SucceedInstall, At, Listing, AppListing
  <1>2. InstallsNamed(q.name) = {q.install} /\ InStep(q.name) /\ RowsNamed(q.name) # {}
    BY <1>1 DEF OwnApp, Works
  <1>3. UNCHANGED <<host, rows, kept>> /\ \A n : Alike(n)
    BY NothingMoves DEF SucceedInstall, Others
  <1> PICK st : st = "RUNNING"  OBVIOUS
  <1>4. /\ \A n : n # q.name => SameInstalls(n)
        /\ InstallsNamed(q.name)' = {q.install} /\ installs'[q.install].status = st /\ installs[q.install] # None
    <2>1. installs' = IF installs[q.install] = None THEN installs ELSE [installs EXCEPT ![q.install].status = st]
      BY DEF SucceedInstall
    <2> QED BY <1>1, <1>2, <2>1, StatusOrders
  <1>5. Reply(r)
    BY <1>4 DEF SucceedInstall
  <1>6. AppInStep(q.name)'
    <2>1. InStep(q.name)' /\ RowsNamed(q.name)' # {}
      BY <1>2, <1>3, StaysInStep DEF Alike, SameRows
    <2> QED BY <1>4, <2>1 DEF AppInStep, Recorded
  <1> QED BY <1>1, <1>3, <1>4, <1>5, <1>6, AppFinishes DEF AppAlike

LEMMA MarkOrders ==
    ASSUME AppsTyped, Named, NEW r \in Requests, AppProgress(req[r]), MarkRows(r)
    PROVE  AppOrdered(r)'
  <1> PICK q : q = req[r]  OBVIOUS
  <1>1. /\ q \in Request /\ q.pc = "mark" /\ Base /\ q.name \in Names /\ OwnApp(q, q.name) /\ Belongs(q)
    BY AppOrderFacts DEF MarkRows, At, Listing, AppListing
  <1>2. /\ q.op = "rebuildApp" /\ InstallsNamed(q.name) = {q.install} /\ q.id = host[q.name].id /\ q.id # 0
        /\ RowsNamed(q.name) # {} /\ \A i, j \in RowsNamed(q.name) : i = j
    BY <1>1 DEF OwnApp, Works, Belongs
  <1>3. UNCHANGED <<host, installs, kept>> /\ \A n : SameInstalls(n)
    BY InstallsUnchanged DEF MarkRows, Others
  <1>4. rows' = [i \in RowIds |-> IF i \in RowsNamed(q.name) THEN [rows[i] EXCEPT !.status = "RUNNING", !.id = q.id]
                                  ELSE rows[i]]
    BY DEF MarkRows, Marked
  <1>5. \A i \in RowsNamed(q.name) : rows'[i] # None /\ rows'[i].name = q.name /\ rows'[i].id = q.id
    <2> TAKE i \in RowsNamed(q.name)
    <2>1. i \in RowIds /\ rows[i] \in Row /\ rows[i].name = q.name
      BY <1>1 DEF RowsNamed, Rows, Base, Stored, RowMap
    <2> PICK x : x = [rows[i] EXCEPT !.status = "RUNNING", !.id = q.id]  OBVIOUS
    <2>2. x \in Row /\ x.name = q.name /\ x.id = q.id
      BY <1>1, <2>1 DEF Row, Statuses, Request, DockerIds
    <2>3. rows'[i] = x
      BY <1>4, <2>1
    <2> QED BY <2>2, <2>3, NoneIsNoRow
  <1>6. \A i \in RowIds : i \notin RowsNamed(q.name) => rows'[i] = rows[i]
    BY <1>4
  <1>7. RowsNamed(q.name)' = RowsNamed(q.name) /\ \A n : n # q.name => SameRows(n)
    BY <1>5, <1>6 DEF RowsNamed, Rows, SameRows
  <1>8. InStep(q.name)'
    BY <1>2, <1>3, <1>5, <1>7 DEF InStep
  <1>9. PICK p : req'[r] = p /\ p.pc = "running" /\ p.op = q.op /\ p.name = q.name /\ p.install = q.install
    BY <1>1, GoesTo DEF MarkRows, Pcs
  <1>10. OwnApp(p, q.name)'
    <2>1. InstallsNamed(q.name)' = {q.install}
      BY <1>2, <1>3 DEF SameInstalls
    <2> QED BY <1>2, <1>7, <1>8, <1>9, <2>1 DEF OwnApp, Steady, Works, Listing, AppListing
  <1> QED BY <1>1, <1>3, <1>7, <1>9, <1>10, AppProceeds DEF AppAlike, Alike


-----------------------------------------------------------------------------
(* Apps in order: the other requests. *)
LEMMA ResolveOrders ==
    ASSUME AppsTyped, Named, NEW r \in Requests, AppProgress(req[r]), ResolveRuntimeConfig(r)
    PROVE  AppOrdered(r)'
  <1> PICK q : q = req[r]  OBVIOUS
  <1>1. /\ q \in Request /\ q.pc = "resolve" /\ Base /\ q.name \in Names /\ OwnApp(q, q.name) /\ Belongs(q)
    BY AppOrderFacts DEF ResolveRuntimeConfig, At, Listing, AppListing
  <1>2. AppInStep(q.name) /\ q.op = "rebuildApp" /\ InstallsNamed(q.name) = {q.install}
    BY <1>1 DEF OwnApp, Steady, Belongs
  <1>3. UNCHANGED <<host, rows, installs, kept>>
    BY DEF ResolveRuntimeConfig, Others
  <1>4. CASE Reply(r)
    BY <1>1, <1>2, <1>3, <1>4, AppGivesUp
  <1>5. CASE Go(r, "reinstall")
    <2>1. PICK p : req'[r] = p /\ p.pc = "reinstall" /\ p.op = q.op /\ p.name = q.name /\ p.install = q.install
      BY <1>1, <1>5, GoesTo DEF Pcs
    <2>2. OwnApp(p, q.name)'
      BY <1>1, <1>2, <1>3, <2>1, Unmoved DEF OwnApp, Steady, Works, Listing, AppListing
    <2> QED BY <1>1, <1>3, <2>1, <2>2, Unmoved, AppProceeds
  <1> QED BY <1>4, <1>5 DEF ResolveRuntimeConfig

LEMMA ReinstallOrders ==
    ASSUME AppsTyped, Named, NEW r \in Requests, AppProgress(req[r]), Reinstall(r)
    PROVE  AppOrdered(r)'
  <1> PICK q : q = req[r]  OBVIOUS
  <1>1. /\ q \in Request /\ q.pc = "reinstall" /\ Base /\ q.name \in Names /\ OwnApp(q, q.name) /\ Belongs(q)
    BY AppOrderFacts DEF Reinstall, At, Listing, AppListing
  <1>2. AppInStep(q.name) /\ q.op = "rebuildApp" /\ InstallsNamed(q.name) = {q.install}
    BY <1>1 DEF OwnApp, Steady, Belongs
  <1>3. UNCHANGED <<host, rows, kept>> /\ \A n : Alike(n)
    BY NothingMoves DEF Reinstall, Others
  <1> PICK st : st = "INSTALLING"  OBVIOUS
  <1>4. /\ \A n : n # q.name => SameInstalls(n)
        /\ InstallsNamed(q.name)' = {q.install} /\ installs[q.install] # None
    <2>1. installs' = IF installs[q.install] = None THEN installs ELSE [installs EXCEPT ![q.install].status = st]
      BY DEF Reinstall
    <2> QED BY <1>1, <1>2, <2>1, StatusOrders
  <1>5. PICK p : req'[r] = p /\ p.pc = "halt" /\ p.op = q.op /\ p.name = q.name /\ p.install = q.install
    BY <1>1, <1>4, GoesTo DEF Reinstall, Pcs
  <1>6. OwnApp(p, q.name)'
    <2>1. RowsNamed(q.name) # {} /\ InStep(q.name) /\ \A i, j \in RowsNamed(q.name) : i = j
      BY <1>2 DEF AppInStep, Recorded, InStep
    <2>2. InStep(q.name)' /\ RowsNamed(q.name)' = RowsNamed(q.name)
      BY <1>3, <2>1, StaysInStep DEF Alike, SameRows
    <2> QED BY <1>2, <1>4, <1>5, <2>1, <2>2 DEF OwnApp, Steady, Works, Listing, AppListing
  <1> QED BY <1>1, <1>3, <1>4, <1>5, <1>6, AppProceeds DEF AppAlike

\* The state of a container changes: it keeps its id.
LEMMA SwitchOrders ==
    ASSUME Base, NEW n \in Names, NEW state, host' = Switched(n, state), UNCHANGED <<rows, installs, kept>>
    PROVE  /\ host'[n].state = state /\ \A m \in Names : host'[m].id = host[m].id /\ AppAlike(m)
           /\ RowsNamed(n)' = RowsNamed(n) /\ InstallsNamed(n)' = InstallsNamed(n)
           /\ (AppInStep(n) => AppInStep(n)') /\ (InStep(n) => InStep(n)')
  <1>1. host'[n].state = state /\ \A m \in Names : host'[m].id = host[m].id
    BY DEF Switched, Base, Docked, Docker
  <1>2. \A m \in Names : AppAlike(m)
    BY <1>1, RowsUnchanged, InstallsUnchanged DEF AppAlike, Alike
  <1>3. (AppInStep(n) => AppInStep(n)') /\ (InStep(n) => InStep(n)')
    BY <1>2, StaysRecorded, StaysInStep DEF AppAlike
  <1> QED BY <1>1, <1>2, <1>3 DEF AppAlike, Alike, SameRows, SameInstalls

LEMMA StopOrders ==
    ASSUME AppsTyped, Named, NEW r \in Requests, AppProgress(req[r]), StopApp(r), faults' = faults
    PROVE  AppOrdered(r)'
  <1> PICK q : q = req[r]  OBVIOUS
  <1>1. /\ q \in Request /\ q.pc = "halt" /\ Base /\ q.name \in Names /\ OwnApp(q, q.name) /\ Belongs(q) /\ q.op \in AppOps
    BY AppOrderFacts DEF StopApp, At, Listing, AppListing, InProgress
  <1> PICK state : state = After("stop", host[q.name])  OBVIOUS
  <1>2. UNCHANGED <<rows, installs, kept>> /\ host' = Switched(q.name, state)
    BY <1>1, NoFault DEF StopApp, Others
  <1>3. /\ ~Up(host'[q.name]) /\ \A m \in Names : AppAlike(m)
        /\ RowsNamed(q.name)' = RowsNamed(q.name) /\ InstallsNamed(q.name)' = InstallsNamed(q.name)
        /\ (AppInStep(q.name) => AppInStep(q.name)') /\ (InStep(q.name) => InStep(q.name)')
    <2>1. state \notin {"running", "paused", "restarting"}
      BY DEF After, Up
    <2>2. host'[q.name].state = state
      BY <1>1, <1>2, SwitchOrders
    <2>3. ~Up(host'[q.name])
      BY <2>1, <2>2 DEF Up
    <2> QED BY <1>1, <1>2, <2>3, SwitchOrders
  <1>4. PICK p : req'[r] = p /\ p.pc = "clear" /\ p.op = q.op /\ p.name = q.name /\ p.install = q.install
    BY <1>1, GoesTo DEF StopApp, Pcs
  <1>5. CASE q.op = "rebuildApp"
    <2>1. /\ InstallsNamed(q.name) = {q.install} /\ InStep(q.name) /\ RowsNamed(q.name) # {}
          /\ \A i, j \in RowsNamed(q.name) : i = j
      BY <1>1, <1>5 DEF OwnApp, Works
    <2>2. OwnApp(p, q.name)'
      BY <1>3, <1>4, <1>5, <2>1 DEF OwnApp, Steady, Works, Listing, AppListing
    <2> QED BY <1>1, <1>2, <1>3, <1>4, <2>2, AppProceeds
  <1>6. CASE q.op = "removeApp"
    <2>1. AppInStep(q.name)
      BY <1>1, <1>6 DEF OwnApp, Steady
    <2>2. OwnApp(p, q.name)'
      BY <1>3, <1>4, <1>6, <2>1 DEF OwnApp, Steady, Works, Listing, AppListing
    <2> QED BY <1>1, <1>2, <1>3, <1>4, <2>2, AppProceeds
  <1> QED BY <1>1, <1>5, <1>6 DEF Belongs, AppOps

LEMMA RemoveAppOrders ==
    ASSUME AppsTyped, Named, NEW r \in Requests, AppProgress(req[r]), RemoveApp(r), faults' = faults
    PROVE  AppOrdered(r)'
  <1> PICK q : q = req[r]  OBVIOUS
  <1>1. /\ q \in Request /\ q.pc = "clear" /\ Base /\ q.name \in Names /\ OwnApp(q, q.name) /\ Belongs(q) /\ q.op \in AppOps
    BY AppOrderFacts DEF RemoveApp, At, Listing, AppListing, InProgress
  <1>2. ~Refuses("rm", host[q.name])
    BY <1>1 DEF OwnApp, Refuses
  <1>3. /\ UNCHANGED <<rows, installs, kept>> /\ host' = Removed(q.name)
        /\ Go(r, IF q.op = "rebuildApp" THEN "launch" ELSE "dropRows")
    BY <1>1, <1>2, NoFault DEF RemoveApp, Acts, Others
  <1>4. host'[q.name].id = 0 /\ \A n \in Names : n # q.name => host'[n].id = host[n].id
    BY <1>1, <1>3 DEF Removed, Base, Docked, Docker, Absent
  <1>5. (\A n : SameRows(n)) /\ (\A n : SameInstalls(n))
    BY <1>3, RowsUnchanged, InstallsUnchanged
  <1>6. \A n \in Names : n # q.name => AppAlike(n)
    BY <1>4, <1>5 DEF AppAlike, Alike
  <1>7. RowsNamed(q.name)' = RowsNamed(q.name) /\ InstallsNamed(q.name)' = InstallsNamed(q.name)
    BY <1>5 DEF SameRows, SameInstalls
  <1>8. CASE q.op = "rebuildApp"
    <2>1. PICK p : req'[r] = p /\ p.pc = "launch" /\ p.op = q.op /\ p.name = q.name /\ p.install = q.install
      BY <1>1, <1>3, <1>8, GoesTo DEF Pcs
    <2>2. InstallsNamed(q.name) = {q.install} /\ RowsNamed(q.name) # {} /\ \A i, j \in RowsNamed(q.name) : i = j
      BY <1>1, <1>8 DEF OwnApp, Works
    <2>3. OwnApp(p, q.name)'
      BY <1>4, <1>7, <1>8, <2>1, <2>2 DEF OwnApp, Steady, Works, Listing, AppListing
    <2> QED BY <1>1, <1>3, <1>6, <2>1, <2>3, AppProceeds
  <1>9. CASE q.op = "removeApp"
    <2>1. PICK p : req'[r] = p /\ p.pc = "dropRows" /\ p.op = q.op /\ p.name = q.name
      BY <1>1, <1>3, <1>9, GoesTo DEF Pcs
    <2>2. OwnApp(p, q.name)'
      BY <1>4, <1>9, <2>1 DEF OwnApp, Steady, Works, Listing, AppListing
    <2> QED BY <1>1, <1>3, <1>6, <2>1, <2>2, AppProceeds
  <1> QED BY <1>1, <1>8, <1>9 DEF Belongs, AppOps

LEMMA ActOrders ==
    ASSUME AppsTyped, Named, NEW r \in Requests, AppProgress(req[r]), ActOnApp(r), faults' = faults
    PROVE  AppOrdered(r)'
  <1> PICK q : q = req[r]  OBVIOUS
  <1>1. /\ q \in Request /\ q.pc = "appAct" /\ Base /\ q.name \in Names /\ OwnApp(q, q.name) /\ Belongs(q)
    BY AppOrderFacts DEF ActOnApp, At, Listing, AppListing
  <1>2. AppInStep(q.name) /\ q.op \in {"startApp", "stopApp", "restartApp"} /\ InstallsNamed(q.name) = {q.install}
    BY <1>1 DEF OwnApp, Steady, Belongs
  <1>3. UNCHANGED <<rows, installs, kept>>
    BY DEF ActOnApp, Others
  <1>4. \/ Reply(r) /\ UNCHANGED host
        \/ \E state : host' = Switched(q.name, state) /\ Go(r, "record")
    <2>1. DockerCommand(q.op) # "rm"
      BY DEF DockerCommand
    <2>2. Acts(DockerCommand(q.op), q.name) => \E state : host' = Switched(q.name, state)
      BY <2>1 DEF Acts
    <2> QED BY <1>1, <2>2, NoFault DEF ActOnApp
  <1>5. CASE Reply(r) /\ UNCHANGED host
    BY <1>1, <1>2, <1>3, <1>5, AppGivesUp
  <1>6. ASSUME NEW state, host' = Switched(q.name, state), Go(r, "record")
        PROVE  AppOrdered(r)'
    <2>1. /\ \A m \in Names : AppAlike(m)
          /\ InstallsNamed(q.name)' = InstallsNamed(q.name) /\ AppInStep(q.name)'
      BY <1>1, <1>2, <1>3, <1>6, SwitchOrders
    <2>2. PICK p : req'[r] = p /\ p.pc = "record" /\ p.op = q.op /\ p.name = q.name /\ p.install = q.install
      BY <1>1, <1>6, GoesTo DEF Pcs
    <2>3. OwnApp(p, q.name)'
      BY <1>2, <2>1, <2>2 DEF OwnApp, Steady, Works, Listing, AppListing
    <2> QED BY <1>1, <1>3, <2>1, <2>2, <2>3, AppProceeds
  <1> QED BY <1>4, <1>5, <1>6

LEMMA RecordOrders ==
    ASSUME AppsTyped, Named, NEW r \in Requests, AppProgress(req[r]), RecordAction(r)
    PROVE  AppOrdered(r)'
  <1> PICK q : q = req[r]  OBVIOUS
  <1>1. /\ q \in Request /\ q.pc = "record" /\ Base /\ q.name \in Names /\ OwnApp(q, q.name)
    BY AppOrderFacts DEF RecordAction, At, Listing, AppListing
  <1>2. AppInStep(q.name) /\ InstallsNamed(q.name) = {q.install}
    BY <1>1 DEF OwnApp, Steady
  <1>3. UNCHANGED <<host, rows, kept>> /\ \A n : Alike(n)
    BY NothingMoves DEF RecordAction, Others
  <1> PICK st \in {"STARTING", "RUNNING", "STOPPED"} : st = mapLifecycleActionToInstallStatus(q.op)
    BY DEF mapLifecycleActionToInstallStatus
  <1>4. /\ \A n : n # q.name => SameInstalls(n)
        /\ InstallsNamed(q.name)' = {q.install} /\ installs'[q.install].status = st
    <2>1. installs' = IF installs[q.install] = None THEN installs ELSE [installs EXCEPT ![q.install].status = st]
      BY DEF RecordAction
    <2> QED BY <1>1, <1>2, <2>1, StatusOrders
  <1>5. AppInStep(q.name)'
    <2>1. RowsNamed(q.name) # {} /\ InStep(q.name)
      BY <1>2 DEF AppInStep, Recorded
    <2>2. RowsNamed(q.name)' # {} /\ InStep(q.name)'
      BY <1>3, <2>1, StaysInStep DEF Alike, SameRows
    <2> QED BY <1>4, <2>2 DEF AppInStep, Recorded
  <1>6. Reply(r)
    BY DEF RecordAction
  <1> QED BY <1>1, <1>3, <1>4, <1>5, <1>6, AppFinishes DEF AppAlike

LEMMA DropRowsOrders ==
    ASSUME AppsTyped, Named, NEW r \in Requests, AppProgress(req[r]), DropRows(r)
    PROVE  AppOrdered(r)'
  <1> PICK q : q = req[r]  OBVIOUS
  <1>1. /\ q \in Request /\ q.pc = "dropRows" /\ Base /\ q.name \in Names /\ OwnApp(q, q.name) /\ Belongs(q)
    BY AppOrderFacts DEF DropRows, At, Listing, AppListing
  <1>2. host[q.name].id = 0 /\ q.op = "removeApp"
    BY <1>1 DEF OwnApp, Belongs
  <1>3. UNCHANGED <<host, installs, kept>> /\ \A n : SameInstalls(n)
    BY InstallsUnchanged DEF DropRows, Others
  <1>4. rows' = [i \in RowIds |-> IF i \in RowsNamed(q.name) THEN None ELSE rows[i]]
    BY DEF DropRows
  <1>5. RowsNamed(q.name)' = {} /\ \A n : n # q.name => SameRows(n)
    BY <1>4 DEF RowsNamed, Rows, SameRows
  <1>6. PICK p : req'[r] = p /\ p.pc = "dropInstalls" /\ p.op = q.op /\ p.name = q.name
    BY <1>1, GoesTo DEF DropRows, Pcs
  <1>7. OwnApp(p, q.name)'
    BY <1>2, <1>3, <1>5, <1>6 DEF OwnApp, Steady, Works, Listing, AppListing
  <1> QED BY <1>1, <1>3, <1>5, <1>6, <1>7, AppProceeds DEF AppAlike, Alike

LEMMA DropInstallsOrders ==
    ASSUME AppsTyped, Named, NEW r \in Requests, AppProgress(req[r]), DropInstalls(r)
    PROVE  AppOrdered(r)'
  <1> PICK q : q = req[r]  OBVIOUS
  <1>1. /\ q \in Request /\ q.pc = "dropInstalls" /\ Base /\ q.name \in Names /\ OwnApp(q, q.name)
    BY AppOrderFacts DEF DropInstalls, At, Listing, AppListing
  <1>2. host[q.name].id = 0 /\ RowsNamed(q.name) = {}
    BY <1>1 DEF OwnApp
  <1>3. UNCHANGED <<host, rows, kept>> /\ \A n : Alike(n)
    BY NothingMoves DEF DropInstalls, Others
  <1>4. installs' = [i \in InstallIds |-> IF i \in InstallsNamed(q.name) THEN None ELSE installs[i]] /\ Reply(r)
    BY DEF DropInstalls
  <1>5. InstallsNamed(q.name)' = {} /\ \A n : n # q.name => SameInstalls(n)
    BY <1>4 DEF InstallsNamed, Installs, SameInstalls
  <1>6. RowsNamed(q.name)' = {} /\ host'[q.name].id = 0
    BY <1>2, <1>3 DEF Alike, SameRows
  <1>7. AppInStep(q.name)'
    BY <1>5, <1>6 DEF AppInStep, InStep, Recorded
  <1> QED BY <1>1, <1>3, <1>4, <1>5, <1>7, AppFinishes DEF AppAlike

LEMMA AppListsOrder ==
    ASSUME AppsTyped, Named, NEW r \in Requests, AppProgress(req[r]),
           ReadInstalls(r) \/ ReadStatuses(r) \/ CacheStatuses(r)
    PROVE  AppOrdered(r)'
  <1> PICK q : q = req[r]  OBVIOUS
  <1>1. /\ q \in Request /\ q.pc \in AppListing /\ Base /\ Belongs(q)
    BY AppOrderFacts DEF ReadInstalls, ReadStatuses, CacheStatuses, At, AppListing
  <1>2. UNCHANGED <<host, rows, installs, kept>>
    BY DEF ReadInstalls, ReadStatuses, CacheStatuses, Others
  <1>3. PICK p : req'[r] = p /\ p.pc \in AppListing /\ p.op = "listApps" /\ p.name = q.name
    <2>1. q.op = "listApps"
      BY <1>1 DEF Belongs
    <2>2. CASE ReadInstalls(r)
      <3>1. \E apps : req' = [req EXCEPT ![r].pc = "statuses", ![r].apps = apps]
        BY <2>2 DEF ReadInstalls
      <3> PICK apps : req' = [req EXCEPT ![r].pc = "statuses", ![r].apps = apps]
        BY <3>1
      <3> PICK p : p = [q EXCEPT !.pc = "statuses", !.apps = apps]  OBVIOUS
      <3>2. p.pc = "statuses" /\ p.op = q.op /\ p.name = q.name
        BY <1>1 DEF Request
      <3>3. req'[r] = p
        BY <1>1, <3>1 DEF Base, Asked
      <3> QED BY <2>1, <3>2, <3>3 DEF AppListing
    <2>3. CASE ReadStatuses(r)
      <3>1. \E seen : \E pc \in {"overlay", "cache"} : req' = [req EXCEPT ![r].pc = pc, ![r].seen = seen]
        BY <2>3 DEF ReadStatuses
      <3> PICK seen : \E pc \in {"overlay", "cache"} : req' = [req EXCEPT ![r].pc = pc, ![r].seen = seen]
        BY <3>1
      <3> PICK pc \in {"overlay", "cache"} : req' = [req EXCEPT ![r].pc = pc, ![r].seen = seen]
        OBVIOUS
      <3> PICK p : p = [q EXCEPT !.pc = pc, !.seen = seen]  OBVIOUS
      <3>2. p.pc = pc /\ p.op = q.op /\ p.name = q.name
        BY <1>1 DEF Request
      <3>3. req'[r] = p
        BY <1>1 DEF Base, Asked
      <3> QED BY <2>1, <3>2, <3>3 DEF AppListing
    <2>4. CASE CacheStatuses(r)
      BY <1>1, <2>1, <2>4, GoesTo DEF CacheStatuses, AppListing, Pcs
    <2> QED BY <2>2, <2>3, <2>4
  <1>4. q.name \in Names => OwnApp(p, q.name)'
    <2> HAVE q.name \in Names
    <2>1. AppInStep(q.name)
      BY <1>1, AppOrderFacts DEF OwnApp, Steady
    <2> QED BY <1>2, <1>3, <2>1, Unmoved DEF OwnApp, Steady, Works, Listing, AppListing
  <1>5. p.pc \notin {"idle", "read", "write", "persist"} /\ AppProgress(q) /\ kept \subseteq kept'
    BY <1>2, <1>3 DEF AppListing
  <1> QED BY <1>1, <1>2, <1>3, <1>4, <1>5, Unmoved, AppProceeds

LEMMA WriteStatusesOrders ==
    ASSUME AppsTyped, Named, NEW r \in Requests, AppProgress(req[r]), WriteStatuses(r)
    PROVE  AppOrdered(r)'
  <1> PICK q : q = req[r]  OBVIOUS
  <1>1. /\ q \in Request /\ q.pc = "overlay" /\ Base /\ Belongs(q)
    BY AppOrderFacts DEF WriteStatuses, At
  <1>2. UNCHANGED <<host, rows, kept>> /\ \A n : Alike(n)
    BY NothingMoves DEF WriteStatuses, Others
  <1>3. ASSUME NEW i \in InstallIds
        PROVE  \/ installs'[i] = installs[i]
               \/ /\ installs[i] # None /\ installs'[i] # None /\ installs'[i].name = installs[i].name
                  /\ installs'[i].status \in {"STARTING", "RUNNING", "STOPPED"}
    <2> PICK st : st = mapRuntimeStatus(q.seen[installs[i].name])  OBVIOUS
    <2>1. \/ installs'[i] = installs[i]
          \/ i \in Installs /\ installs'[i] = [installs[i] EXCEPT !.status = st]
      BY <1>3 DEF WriteStatuses
    <2>2. CASE i \in Installs /\ installs'[i] = [installs[i] EXCEPT !.status = st]
      <3>1. installs[i] \in Install /\ installs[i] # None /\ st \in {"STARTING", "RUNNING", "STOPPED"}
        BY <1>1, <1>3, <2>2 DEF Installs, Base, InstallMap, mapRuntimeStatus
      <3>2. installs'[i] # None /\ installs'[i].status = st /\ installs'[i].name = installs[i].name
        BY <2>2, <3>1, InstallSet
      <3> QED BY <3>1, <3>2
    <2> QED BY <2>1, <2>2
  <1>4. \A n : SameInstalls(n)
    BY <1>3 DEF SameInstalls, InstallsNamed, Installs
  <1>5. \A n : AppAlike(n)
    BY <1>2, <1>4 DEF AppAlike
  <1>6. q.name \in Names => AppInStep(q.name)'
    <2> HAVE q.name \in Names
    <2>1. AppInStep(q.name)
      BY <1>1, AppOrderFacts DEF OwnApp, Steady, AppListing
    <2> QED BY <1>2, <1>5, <2>1, StaysRecorded
  <1>7. Reply(r)
    BY DEF WriteStatuses
  <1> QED BY <1>1, <1>2, <1>5, <1>6, <1>7, AppFinishes


-----------------------------------------------------------------------------
(* Apps one after the other. *)
LEMMA AppStepOrders ==
    ASSUME AppsTyped, Named, Entered, NEW r \in Requests, AnyStep(r), AppProgress(req[r]), faults' = faults
    PROVE  AppOrdered(r)'
  <1>1. req[r].pc \notin {"failed", "markError"}
    <2> SUFFICES ASSUME req[r].pc \in {"failed", "markError"} PROVE FALSE
      OBVIOUS
    <2>1. req[r].name \in Names
      BY AppOrderFacts DEF Listing, AppListing
    <2> QED BY <2>1, AppOrderFacts DEF OwnApp
  <1>2. ~FailInstall(r) /\ ~MarkRowsInError(r)
    BY <1>1 DEF FailInstall, MarkRowsInError, At
  <1>3. CASE ContainerStep(r)
    BY <1>3, AppListOrders, AppWriteOrders, AppRemoveOrders, AppPurgeOrders, AppEraseOrders DEF ContainerStep
  <1>4. CASE AppStep(r)
    BY <1>2, <1>4, ProbeOrders, ProbeRowsOrders, EnterOrders, LaunchOrders, FindOrders, UpsertOrders, SucceedOrders,
       ResolveOrders, ReinstallOrders, StopOrders, RemoveAppOrders, MarkOrders, ActOrders, RecordOrders,
       DropRowsOrders, DropInstallsOrders, AppListsOrder, WriteStatusesOrders DEF AppStep
  <1> QED BY <1>3, <1>4 DEF AnyStep

\* A request that arrives alone finds all names in step.
LEMMA AppArrivesOrders ==
    ASSUME AppsTyped, Named, NEW r \in Requests, AppArrives(r) \/ ContainerArrives(r), AppsInStep
    PROVE  /\ AppOrdered(r)' /\ InProgress(r)' /\ UNCHANGED <<faults, host, rows, installs, kept>>
           /\ overlapped' = (overlapped \/ \E s \in Requests : InProgress(s))
           /\ \A s \in Requests : s # r => req'[s] = req[s]
  <1> DEFINE Begun == \E q : Begin(r, q) /\ q.pc # "idle" /\ AppProgress(q)
  <1>1. Base
    BY DEF AppsTyped
  <1>2. ASSUME NEW q, q.pc \in Listing \cup AppListing, q.pc \notin {"read", "write"}
        PROVE  AppProgress(q)
    BY <1>2 DEF AppProgress, AppsInStep, OwnApp, Works, Compared, Listing, AppListing
  <1>3. ASSUME AppArrives(r)
        PROVE  Begun
    <2> PICK op, pc, n, i : Arriving(op, pc, n, i) /\ (i \in Installs \/ i = 0) /\ Begin(r, AppRequest(op, pc, n, i))
      BY <1>1, <1>3, AppArrival
    <2> PICK p : p = AppRequest(op, pc, n, i)  OBVIOUS
    <2>1. p.op = op /\ p.pc = pc /\ p.install = i /\ p.name = n
      BY <1>1, AppRequestFormed
    <2>2. pc \in {"probe", "appAct", "resolve", "halt", "apps"} /\ (pc = "halt" => op = "removeApp")
      BY DEF Arriving
    <2>3. pc \in {"appAct", "resolve"} => InstallsNamed(n) = {i} \/ n \notin Names
      <3> HAVE pc \in {"appAct", "resolve"}
      <3>1. i \in InstallsNamed(n)
        BY DEF Arriving, InstallsNamed
      <3> QED BY <3>1 DEF AppsInStep, AppInStep, Recorded
    <2>4. n \in Names => OwnApp(p, n)
      BY <2>1, <2>2, <2>3 DEF OwnApp, AppsInStep, Works, Listing, AppListing
    <2>5. AppProgress(p)
      BY <2>1, <2>2, <2>4 DEF AppProgress, AppsInStep, Compared
    <2> QED BY <2>1, <2>2, <2>5
  <1>4. ASSUME ContainerArrives(r)
        PROVE  Begun
    <2>1. Idle \in Request
      BY IdleIsFormed DEF Formed
    <2>2. ASSUME BeginSync(r)
          PROVE  Begun
      <3> PICK p : p = [Idle EXCEPT !.op = "sync", !.pc = "list", !.next = "done"]  OBVIOUS
      <3>1. Begin(r, p)
        BY <2>2 DEF BeginSync
      <3> HIDE DEF Idle
      <3>2. p.pc = "list"
        BY <2>1 DEF Request
      <3>3. AppProgress(p)
        BY <1>2, <3>2 DEF Listing
      <3> QED BY <3>1, <3>2, <3>3
    <2>3. ASSUME NEW i \in Rows, BeginDelete(r, i)
          PROVE  Begun
      <3> PICK m : m = rows[i].name  OBVIOUS
      <3>1. rows[i] \in Row /\ m \in Names /\ i \in RowsNamed(m)
        BY <1>1 DEF Rows, RowsNamed, Base, Stored, RowMap, Row
      <3>2. AppInStep(m) /\ rows[i].id = host[m].id /\ host[m].id # 0
        BY <3>1 DEF AppsInStep, AppInStep, InStep
      <3> PICK p : p = [Idle EXCEPT !.op = "delete", !.pc = "remove", !.row = i, !.name = rows[i].name, !.id = rows[i].id]
        OBVIOUS
      <3>3. Begin(r, p)
        BY <2>3, <3>2 DEF BeginDelete, OnRow
      <3> HIDE DEF Idle
      <3>4. p.pc = "remove" /\ p.op = "delete" /\ p.name = m /\ p.row = i /\ p.id = rows[i].id
        BY <2>1 DEF Request
      <3>5. OwnApp(p, m)
        BY <3>1, <3>2, <3>4 DEF OwnApp, Works, Listing, AppListing
      <3>6. AppProgress(p)
        BY <3>4, <3>5 DEF AppProgress, AppsInStep, Compared
      <3> QED BY <3>3, <3>4, <3>6
    <2> QED BY <1>4, <2>2, <2>3 DEF ContainerArrives
  <1>5. PICK q : Begin(r, q) /\ q.pc # "idle" /\ AppProgress(q)
    BY <1>3, <1>4
  <1>6. /\ req'[r] = q /\ UNCHANGED <<faults, host, rows, installs, kept>>
        /\ overlapped' = (overlapped \/ \E s \in Requests : InProgress(s))
        /\ \A s \in Requests : s # r => req'[s] = req[s]
    BY <1>1, <1>5 DEF Begin, Base, Asked
  <1>7. AppProgress(q)'
    <2>1. \A n : AppInStep(n)' <=> AppInStep(n)
      BY <1>6 DEF AppInStep, InStep, Recorded, RowsNamed, Rows, InstallsNamed, Installs
    <2>2. \A n : OwnApp(q, n)' <=> OwnApp(q, n)
      BY <1>6, <2>1 DEF OwnApp, InStep, RowsNamed, Rows, InstallsNamed, Installs
    <2> QED BY <1>5, <1>6, <2>1, <2>2 DEF AppProgress, Compared
  <1> QED BY <1>5, <1>6, <1>7 DEF AppOrdered, InProgress

LEMMA AppExitOrders ==
    ASSUME AppsTyped, NEW n \in Names, ContainerChanges(n)
    PROVE  /\ AppsInStep => AppsInStep'
           /\ \A q : AppProgress(q) => AppProgress(q)'
  <1>1. /\ UNCHANGED <<rows, installs, kept>> /\ \A m \in Names : host'[m].id = host[m].id
        /\ \A m \in Names : Up(host'[m]) => Up(host[m])
    BY DEF ContainerChanges, Switched, Up, AppsTyped, Base, Docked, Docker
  <1>2. \A m \in Names : AppAlike(m)
    BY <1>1, RowsUnchanged, InstallsUnchanged DEF AppAlike, Alike
  <1>3. \A m \in Names : (AppInStep(m) => AppInStep(m)') /\ (InStep(m) => InStep(m)')
    BY <1>1, <1>2, StaysRecorded, StaysInStep DEF AppAlike
  <1>4. ASSUME NEW q, q.name \in Names, OwnApp(q, q.name)
        PROVE  OwnApp(q, q.name)'
    <2>1. /\ RowsNamed(q.name)' = RowsNamed(q.name) /\ InstallsNamed(q.name)' = InstallsNamed(q.name)
          /\ host'[q.name].id = host[q.name].id /\ (Up(host'[q.name]) => Up(host[q.name]))
          /\ (AppInStep(q.name) => AppInStep(q.name)') /\ (InStep(q.name) => InStep(q.name)')
      BY <1>1, <1>2, <1>3, <1>4 DEF AppAlike, SameInstalls, Alike, SameRows
    <2> QED BY <1>1, <1>4, <2>1 DEF OwnApp
  <1>5. ASSUME NEW q, Compared(q)
        PROVE  Compared(q)'
    BY <1>1, <1>5 DEF Compared
  <1>6. AppsInStep => AppsInStep'
    BY <1>3 DEF AppsInStep
  <1> QED BY <1>3, <1>4, <1>5, <1>6 DEF AppProgress

LEMMA AppOrderlyNext ==
    ASSUME Working, Named, AppOrderly, [AppNext]_appVars
    PROVE  AppOrderly'
  <1> SUFFICES ASSUME Undisturbed' PROVE AppOrderly'
    BY DEF AppOrderly
  <1>1. AppsTyped /\ Base /\ Base' /\ faults \in Nat /\ Entered
    <2>1. AppsTyped /\ AppsTyped' /\ Entered
      BY AppNextBase DEF Working
    <2>2. Base /\ Base'
      BY <2>1 DEF AppsTyped
    <2> QED BY <2>1, <2>2, InventoryAssumption DEF Base, Counted
  <1>2. ASSUME NEW r \in Requests, AnyStep(r)
        PROVE  AppOrderly'
    <2>1. Elsewhere(r) /\ InProgress(r) /\ overlapped' = overlapped
      BY <1>1, <1>2, AnyStepHistory
    <2>2. faults' = faults \/ Fault
      BY <1>2 DEF AnyStep, AppStep, ContainerStep, ListContainers, ReadRows, WriteRows, RemoveContainer,
           DeleteRelatedAppInstalls, EraseRow, Probe, ProbeRows, ProbeInstalls, EnterInstall, LaunchApp,
           FindContainerRow, UpsertContainerRow, SucceedInstall, FailInstall, ResolveRuntimeConfig, Reinstall,
           StopApp, RemoveApp, MarkRows, MarkRowsInError, ActOnApp, RecordAction, DropRows, DropInstalls,
           ReadInstalls, ReadStatuses, CacheStatuses, WriteStatuses
    <2>3. Undisturbed /\ faults' = faults
      BY <1>1, <2>1, <2>2 DEF Undisturbed, Fault
    <2>4. AppOrdered(r)'
      BY <1>1, <1>2, <2>1, <2>3, AppStepOrders DEF AppOrderly
    <2>5. \A s \in Requests : s # r => ~InProgress(s)'
      BY <1>1, <2>1, <2>3, IdleIsFormed DEF Base, Alone, Undisturbed, Elsewhere, InProgress
    <2> QED BY <1>2, <2>4, <2>5 DEF AppOrderly, AppOrdered, AllIdle, InProgress
  <1>3. ASSUME NEW r \in Requests, AppArrives(r) \/ ContainerArrives(r)
        PROVE  AppOrderly'
    <2>1. /\ UNCHANGED faults /\ overlapped' = (overlapped \/ \E s \in Requests : InProgress(s))
          /\ \A s \in Requests : s # r => req'[s] = req[s]
      <3>1. \E q : Begin(r, q)
        BY <1>3 DEF AppArrives, ContainerArrives, OnInstall, BeginApp, BeginSync, BeginDelete
      <3> QED BY <1>1, <3>1 DEF Begin, Base, Asked
    <2>2. Undisturbed /\ AllIdle
      BY <1>1, <2>1 DEF Undisturbed, AllIdle, Base, Counted
    <2>3. AppOrdered(r)' /\ InProgress(r)'
      BY <1>1, <1>3, <2>2, AppArrivesOrders DEF AppOrderly
    <2>4. \A s \in Requests : s # r => ~InProgress(s)'
      BY <2>1, <2>2 DEF AllIdle, InProgress
    <2> QED BY <1>3, <2>3, <2>4 DEF AppOrderly, AppOrdered, AllIdle, InProgress
  <1>4. ASSUME NEW n \in Names, ContainerChanges(n)
        PROVE  AppOrderly'
    <2>1. UNCHANGED <<req, overlapped, faults>>
      BY <1>4 DEF ContainerChanges
    <2>2. Undisturbed
      BY <2>1 DEF Undisturbed
    <2> QED BY <1>1, <1>4, <2>1, <2>2, AppExitOrders DEF AppOrderly, AllIdle, InProgress
  <1>5. CASE PanelRestarts
    BY <1>1, <1>5 DEF PanelRestarts, Fault, Undisturbed
  <1>6. CASE CacheExpires \/ UNCHANGED appVars
    <2>1. UNCHANGED <<host, rows, installs, req, kept, overlapped, faults>>
      BY <1>6 DEF CacheExpires, appVars, vars
    <2>2. \A n : AppInStep(n)' <=> AppInStep(n)
      BY <2>1 DEF AppInStep, InStep, Recorded, RowsNamed, Rows, InstallsNamed, Installs
    <2>3. \A q, n : OwnApp(q, n)' <=> OwnApp(q, n)
      BY <2>1, <2>2 DEF OwnApp, InStep, RowsNamed, Rows, InstallsNamed, Installs
    <2>4. \A q : AppProgress(q)' <=> AppProgress(q)
      BY <2>1, <2>2, <2>3 DEF AppProgress, Compared
    <2> QED BY <2>1, <2>2, <2>4 DEF AppOrderly, Undisturbed, AllIdle, InProgress, AppsInStep
  <1> QED BY <1>2, <1>3, <1>4, <1>5, <1>6 DEF AppNext, AnyStep


-----------------------------------------------------------------------------
(* Apps one after the other: the theorem. *)
LEMMA AppOrderlyInit ==
    ASSUME AppInit
    PROVE  AppOrderly
  <1>0. Init
    BY DEF AppInit
  <1>1. AllIdle /\ Undisturbed
    BY <1>0, IdleIsFormed DEF Init, AllIdle, InProgress, Undisturbed
  <1>2. AllInStep
    BY <1>0, <1>1, OrderlyInit DEF Orderly
  <1>3. ASSUME NEW n \in Names, NEW i \in InstallsNamed(n)
        PROVE  installs[i].status = "RUNNING" /\ i \in RowsNamed(n)
    <2> PICK numbered \in {f \in [Names -> 0..Cardinality(Names)] :
                            \A k, m \in Names : f[k] # 0 /\ f[k] = f[m] => k = m},
           origin \in [Names -> {"plain", "git", "app"}] :
        LET used == {k \in Names : numbered[k] # 0}
        IN  /\ {numbered[k] : k \in used} = 1..Cardinality(used)
            /\ rows = [j \in RowIds |->
                  IF j > Cardinality(used) THEN None
                  ELSE LET k == CHOOSE m \in Names : numbered[m] = j
                       IN  [name |-> k, id |-> j, status |-> "RUNNING", source |-> origin[k]]]
            /\ installs = [j \in InstallIds |->
                  IF j <= Cardinality(used) /\ rows[j].source = "app"
                  THEN [name |-> rows[j].name, status |-> "RUNNING"] ELSE None]
      BY ZenonT(60), <1>0 DEF Init
    <2> DEFINE used == {k \in Names : numbered[k] # 0}
    <2> DEFINE c == Cardinality(used)
    <2>1. c \in Nat /\ c <= MaxRow /\ MaxRow \in Nat /\ c <= MaxId /\ MaxId \in Nat
      BY InventoryAssumption, FS_Subset, FS_CardinalityType
    <2>2. i \in InstallIds /\ installs[i] # None /\ installs[i].name = n
      BY DEF InstallsNamed, Installs
    <2>3. i <= c /\ installs[i] = [name |-> rows[i].name, status |-> "RUNNING"]
      BY <2>2
    <2>4. i \in 1..c /\ i \in RowIds /\ i \in 0..MaxId
      <3> HIDE DEF c
      <3> QED BY <2>1, <2>2, <2>3, InventoryAssumption DEF InstallIds, RowIds
    <2>5. PICK m : m = CHOOSE k \in Names : numbered[k] = i
      OBVIOUS
    <2>6. m \in Names
      BY <2>4, <2>5
    <2>7. rows[i] = [name |-> m, id |-> i, status |-> "RUNNING", source |-> origin[m]]
      <3>1. ~(i > c)
        <4> HIDE DEF c
        <4> QED BY <2>1, <2>3, <2>4
      <3> QED BY <2>4, <2>5, <3>1
    <2>8. rows[i] \in Row
      BY <2>4, <2>6, <2>7 DEF Row, Statuses
    <2>9. rows[i] # None
      BY ONLY <2>8, NoneIsNoRow
    <2> HIDE DEF c
    <2>10. installs[i].status = "RUNNING" /\ rows[i].name = n
      BY ONLY <2>2, <2>3
    <2> QED BY ONLY <2>4, <2>9, <2>10 DEF RowsNamed, Rows
  <1>4. ASSUME NEW n \in Names
        PROVE  AppInStep(n)
    <2>1. InStep(n)
      BY <1>2 DEF AllInStep
    <2>2. \A i, j \in InstallsNamed(n) : i = j
      BY <1>3, <2>1 DEF InStep
    <2>3. Recorded(n)
      BY <1>3, <2>2 DEF Recorded
    <2> QED BY <2>1, <2>3 DEF AppInStep
  <1> QED BY <1>1, <1>4 DEF AppOrderly, AppsInStep, AllIdle

\* Requests that come one after the other, without a failure of docker, leave every app that
\* is recorded as installed with its container on the server, the row of this container and
\* no second installation (routes/apps.ts and app-install-rebuild.service.ts).
THEOREM InstallsAreExact == AppSpec => []InstallsExact
  <1>1. AppInit => Named /\ AppOrderly
    BY NamedInit, AppOrderlyInit DEF AppInit
  <1>2. Working /\ Named /\ AppOrderly /\ [AppNext]_appVars => Named' /\ AppOrderly'
    BY AppNamedNext, AppOrderlyNext DEF Working
  <1>3. Working /\ AppOrderly => InstallsExact
    <2> SUFFICES ASSUME Working, AppOrderly, Undisturbed, AllIdle, NEW i \in Installs,
                        NEW n, n = installs[i].name
                 PROVE  /\ installs[i].status \in {"STARTING", "RUNNING", "STOPPED"}
                        /\ host[n] # Absent /\ InstallsNamed(n) = {i}
                        /\ \E j \in RowsNamed(n) : rows[j].id = host[n].id
      BY DEF InstallsExact
    <2>1. n \in Names /\ i \in InstallsNamed(n)
      BY DEF Working, AppsTyped, Base, InstallMap, Install, Installs, InstallsNamed
    <2>2. InStep(n) /\ Recorded(n)
      BY <2>1 DEF AppOrderly, AppsInStep, AppInStep
    <2>3. PICK j \in RowsNamed(n) : rows[j].id = host[n].id /\ host[n].id # 0
      BY <2>1, <2>2 DEF Recorded, InStep
    <2>4. host[n] # Absent
      BY <2>3 DEF Absent
    <2> QED BY <2>1, <2>2, <2>3, <2>4 DEF Recorded
  <1> QED BY <1>1, <1>2, <1>3, WorkGoesOnAlways, PTL DEF AppSpec

=============================================================================
