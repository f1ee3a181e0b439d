----------------------------- MODULE AppInstalls -----------------------------
(***************************************************************************)
(* Apps installed from the catalog (routes/apps.ts and                     *)
(* services/app-install-rebuild.service.ts) beside the container requests  *)
(* of ContainerInventory: both change the containers of the server, the    *)
(* Container rows and the AppInstall rows.                                 *)
(*                                                                         *)
(* An app is a container of a name; templates, images and settings are     *)
(* left out.  An installation goes on in the background after its reply.   *)
(* The list of apps lays docker's statuses over the stored ones, from a    *)
(* cache of docker's listing, and writes them back after its reply.        *)
(***************************************************************************)
EXTENDS ContainerInventory

VARIABLES
    installed, \* AppInstall rows so far
    cache      \* runtimeStatusCache of the server

appVars == <<vars, installed, cache>>

NoCache == [state |-> "none", seen |-> Missing]

AppsTypeOK ==
    /\ Typed({"sync", "delete", "installApp", "startApp", "stopApp", "restartApp",
              "rebuildApp", "removeApp", "listApps"},
             {"list", "read", "write", "remove", "purge", "erase",
              "probe", "probeRows", "probeInstalls", "enter", "launch", "find", "upsert",
              "running", "failed", "resolve", "reinstall", "halt", "clear", "mark", "markError",
              "appAct", "record", "dropRows", "dropInstalls",
              "apps", "statuses", "cache", "overlay"})
    /\ installed \in 0..MaxInstall
    /\ cache \in [state : {"none", "fresh", "stale"}, seen : Docker]

AppInit == Init /\ installed = created /\ cache = NoCache

\* What a step of an app request leaves alone.
Others == <<begun, overlapped, kept, looped>>

BeginApp(r, op, pc, n, i) ==
    Begin(r, [Idle EXCEPT !.op = op, !.pc = pc, !.name = n, !.install = i])
OnInstall(r, op, pc, i) == BeginApp(r, op, pc, installs[i].name, i)

(***************************************************************************)
(* POST /apps/install: the name is sought in docker, in the Container rows *)
(* and in the AppInstall rows (assertAppInstallTargetAvailable), then the  *)
(* AppInstall row is entered and the background work begins.               *)
(***************************************************************************)
Probe(r) ==
    /\ At(r, "probe")
    /\ \/ /\ IF host[req[r].name] # Absent THEN Reply(r) ELSE Go(r, "probeRows")
          /\ UNCHANGED faults
       \/ Fault /\ (Reply(r) \/ Go(r, "probeRows"))
    /\ UNCHANGED <<host, rows, installs, dockerIds, created, killed, Others, installed, cache>>

ProbeRows(r) ==
    /\ At(r, "probeRows")
    /\ IF \E i \in RowsNamed(req[r].name) : rows[i].status # "ERROR" THEN Reply(r)
       ELSE Go(r, "probeInstalls")
    /\ UNCHANGED <<host, rows, installs, dockerIds, created, faults, killed, Others, installed, cache>>

ProbeInstalls(r) ==
    /\ At(r, "probeInstalls")
    /\ IF \E i \in InstallsNamed(req[r].name) : installs[i].status # "FAILED" THEN Reply(r)
       ELSE Go(r, "enter")
    /\ UNCHANGED <<host, rows, installs, dockerIds, created, faults, killed, Others, installed, cache>>

EnterInstall(r) ==
    /\ At(r, "enter") /\ installed < MaxInstall
    /\ installed' = installed + 1
    /\ installs' = [installs EXCEPT ![installed + 1] = [name |-> req[r].name, status |-> "INSTALLING"]]
    /\ req' = [req EXCEPT ![r].pc = "launch", ![r].install = installed + 1]
    /\ UNCHANGED <<host, rows, dockerIds, created, faults, killed, Others, cache>>

\* docker run of an installation and of a rebuild; its failure leads to the catch.
LaunchApp(r) ==
    /\ At(r, "launch")
    /\ LET n == req[r].name
       IN  \/ /\ Launch(n, "running")
              /\ req' = [req EXCEPT ![r].pc = IF req[r].op = "installApp" THEN "find" ELSE "mark",
                                    ![r].id = dockerIds + 1]
              /\ UNCHANGED faults
           \/ host[n] # Absent /\ Go(r, "failed") /\ UNCHANGED <<host, dockerIds, faults>>
           \/ Fault /\ Go(r, "failed") /\ (\/ UNCHANGED <<host, dockerIds>>
                                            \/ \E state \in {"running", "created"} : Launch(n, state))
    /\ UNCHANGED <<rows, installs, created, killed, Others, installed, cache>>

\* upsertAppInstallerContainer
FindContainerRow(r) ==
    /\ At(r, "find")
    /\ \E i \in RowsNamed(req[r].name) \cup (IF RowsNamed(req[r].name) = {} THEN {0} ELSE {}) :
          req' = [req EXCEPT ![r].pc = "upsert", ![r].row = i]
    /\ UNCHANGED <<host, rows, installs, dockerIds, created, faults, killed, Others, installed, cache>>

AppRow(q) == [name |-> q.name, id |-> q.id, status |-> "RUNNING", source |-> "app"]
UpsertContainerRow(r) ==
    /\ At(r, "upsert")
    /\ LET i == req[r].row
       IN  \/ /\ i = 0 /\ created < MaxRow
              /\ rows' = [rows EXCEPT ![created + 1] = AppRow(req[r])] /\ created' = created + 1
              /\ Go(r, "running")
           \/ /\ i # 0 /\ UNCHANGED created
              /\ IF rows[i] = None THEN Go(r, "failed") /\ UNCHANGED rows
                 ELSE rows' = [rows EXCEPT ![i] = AppRow(req[r])] /\ Go(r, "running")
    /\ UNCHANGED <<host, installs, dockerIds, faults, killed, Others, installed, cache>>

\* The AppInstall row becomes RUNNING; if it is gone, the catch runs.
SucceedInstall(r) ==
    /\ At(r, "running")
    /\ IF installs[req[r].install] = None THEN Go(r, "failed") /\ UNCHANGED installs
       ELSE Reply(r) /\ installs' = [installs EXCEPT ![req[r].install].status = "RUNNING"]
    /\ UNCHANGED <<host, rows, dockerIds, created, faults, killed, Others, installed, cache>>

\* The catch of the background work throws if the row is gone, and node ends the process;
\* that of a rebuild makes the request fail.
InstallRejects(r) == req[r].op = "installApp" /\ installs[req[r].install] = None
WrongFailedInstall(i) == installs
FailedInstall(i) == [installs EXCEPT ![i].status = "FAILED"]
FailInstall(r) ==
    /\ At(r, "failed")
    /\ \/ InstallRejects(r) /\ Ends("rejection") /\ cache' = NoCache /\ UNCHANGED installs
       \/ /\ ~InstallRejects(r) /\ UNCHANGED <<killed, cache>>
          /\ IF req[r].op = "installApp" \/ installs[req[r].install] = None THEN Reply(r)
             ELSE Go(r, "markError")
          /\ installs' = IF installs[req[r].install] = None THEN installs
                         ELSE FailedInstall(req[r].install)
    /\ UNCHANGED <<host, rows, dockerIds, created, faults, Others, installed>>

(***************************************************************************)
(* rebuildAppInstall, by POST /apps/installs/:id/rebuild and, for a        *)
(* container of an app, POST /containers/:id/rebuild.  Stopping and        *)
(* removing the old container are best effort.                             *)
(***************************************************************************)
\* Without a container to inspect only an app of the catalog can be rebuilt.
ResolveRuntimeConfig(r) ==
    /\ At(r, "resolve")
    /\ Go(r, "reinstall") \/ (host[req[r].name] = Absent /\ Reply(r))
    /\ UNCHANGED <<host, rows, installs, dockerIds, created, faults, killed, Others, installed, cache>>

Reinstall(r) ==
    /\ At(r, "reinstall")
    /\ IF installs[req[r].install] = None THEN Reply(r) /\ UNCHANGED installs
       ELSE Go(r, "halt") /\ installs' = [installs EXCEPT ![req[r].install].status = "INSTALLING"]
    /\ UNCHANGED <<host, rows, dockerIds, created, faults, killed, Others, installed, cache>>

\* docker stop, whose failure is ignored, of a rebuild and of a removal.
StopApp(r) ==
    /\ At(r, "halt") /\ Go(r, "clear")
    /\ \/ host' = Switched(req[r].name, After("stop", host[req[r].name])) /\ UNCHANGED faults
       \/ Fault /\ UNCHANGED host
    /\ UNCHANGED <<rows, installs, dockerIds, created, killed, Others, installed, cache>>

\* docker rm: what runs is not removed, which a rebuild ignores and a removal does not.
RemoveApp(r) ==
    LET n == req[r].name
        rebuild == req[r].op = "rebuildApp"
    IN  /\ At(r, "clear")
        /\ \/ /\ Acts("rm", n) /\ UNCHANGED faults
              /\ Go(r, IF rebuild THEN "launch" ELSE "dropRows")
           \/ /\ Refuses("rm", host[n]) /\ UNCHANGED <<host, faults>>
              /\ IF rebuild THEN Go(r, "launch") ELSE Reply(r)
           \/ /\ Fault /\ (UNCHANGED host \/ (host[n] # Absent /\ ActsUnseen("rm", n)))
              /\ IF rebuild THEN Go(r, "launch") ELSE Reply(r)
        /\ UNCHANGED <<rows, installs, dockerIds, created, killed, Others, installed, cache>>

WrongMarked(n, id) ==
    [i \in RowIds |-> IF i \in RowsNamed(n) THEN [rows[i] EXCEPT !.status = "RUNNING"] ELSE rows[i]]
Marked(n, id) ==
    [i \in RowIds |-> IF i \in RowsNamed(n) THEN [rows[i] EXCEPT !.status = "RUNNING", !.id = id] ELSE rows[i]]

MarkRows(r) ==
    /\ At(r, "mark") /\ Go(r, "running")
    /\ rows' = Marked(req[r].name, req[r].id)
    /\ UNCHANGED <<host, installs, dockerIds, created, faults, killed, Others, installed, cache>>

MarkRowsInError(r) ==
    /\ At(r, "markError") /\ Reply(r)
    /\ rows' = [i \in RowIds |-> IF i \in RowsNamed(req[r].name) THEN [rows[i] EXCEPT !.status = "ERROR"]
                                 ELSE rows[i]]
    /\ UNCHANGED <<host, installs, dockerIds, created, faults, killed, Others, installed, cache>>

(***************************************************************************)
(* POST /apps/installs/:id/action: start, stop and restart.                *)
(***************************************************************************)
DockerCommand(op) == CASE op = "startApp" -> "start" [] op = "stopApp" -> "stop" [] OTHER -> "restart"

ActOnApp(r) ==
    LET n == req[r].name
        op == DockerCommand(req[r].op)
    IN  /\ At(r, "appAct")
        /\ \/ host[n] # Absent /\ Acts(op, n) /\ Go(r, "record") /\ UNCHANGED faults
           \/ (host[n] = Absent \/ Refuses(op, host[n])) /\ Reply(r) /\ UNCHANGED <<host, faults>>
           \/ Fault /\ Reply(r) /\ (UNCHANGED host \/ (host[n] # Absent /\ Acts(op, n)))
        /\ UNCHANGED <<rows, installs, dockerIds, created, killed, Others, installed, cache>>

mapLifecycleActionToInstallStatus(op) ==
    CASE op = "stopApp" -> "STOPPED" [] op = "restartApp" -> "STARTING" [] OTHER -> "RUNNING"

RecordAction(r) ==
    /\ At(r, "record") /\ Reply(r)
    /\ LET i == req[r].install
       IN  installs' = IF installs[i] = None THEN installs
               ELSE [installs EXCEPT ![i].status = mapLifecycleActionToInstallStatus(req[r].op)]
    /\ UNCHANGED <<host, rows, dockerIds, created, faults, killed, Others, installed, cache>>

(***************************************************************************)
(* DELETE /apps/installs/:id, after StopApp and RemoveApp: every row of    *)
(* the name goes, of the containers and of the installations.              *)
(***************************************************************************)
DropRows(r) ==
    /\ At(r, "dropRows") /\ Go(r, "dropInstalls")
    /\ rows' = [i \in RowIds |-> IF i \in RowsNamed(req[r].name) THEN None ELSE rows[i]]
    /\ UNCHANGED <<host, installs, dockerIds, created, faults, killed, Others, installed, cache>>

DropInstalls(r) ==
    /\ At(r, "dropInstalls") /\ Reply(r)
    /\ installs' = [i \in InstallIds |-> IF i \in InstallsNamed(req[r].name) THEN None ELSE installs[i]]
    /\ UNCHANGED <<host, rows, dockerIds, created, faults, killed, Others, installed, cache>>

(***************************************************************************)
(* GET /apps/installs and overlayInstallRuntimeStatuses.                   *)
(***************************************************************************)
\* Of the rows of a name the newest is shown.
ReadInstalls(r) ==
    /\ At(r, "apps")
    /\ req' = [req EXCEPT ![r].pc = "statuses",
          ![r].apps = [i \in InstallIds |->
              IF i \in Installs /\ i = Max(InstallsNamed(installs[i].name)) THEN installs[i] ELSE None]]
    /\ UNCHANGED <<host, rows, installs, dockerIds, created, faults, killed, Others, installed, cache>>

\* The cached statuses while they are fresh, else docker's, which are cached when they
\* arrive; a listing that fails counts as empty.  After 30 seconds the list makes do with
\* the statuses of an entry that has expired, or with none.
ReadStatuses(r) ==
    /\ At(r, "statuses")
    /\ \/ /\ cache.state = "fresh"
          /\ req' = [req EXCEPT ![r].pc = "overlay", ![r].seen = cache.seen] /\ UNCHANGED faults
       \/ /\ cache.state # "fresh"
          /\ req' = [req EXCEPT ![r].pc = "cache", ![r].seen = host] /\ UNCHANGED faults
       \/ /\ cache.state # "fresh" /\ Fault
          /\ \/ req' = [req EXCEPT ![r].pc = "cache", ![r].seen = Missing]
             \/ req' = [req EXCEPT ![r].pc = "overlay", ![r].seen = cache.seen]
    /\ UNCHANGED <<host, rows, installs, dockerIds, created, killed, Others, installed, cache>>

CacheStatuses(r) ==
    /\ At(r, "cache") /\ Go(r, "overlay")
    /\ cache' = [state |-> "fresh", seen |-> req[r].seen]
    /\ UNCHANGED <<host, rows, installs, dockerIds, created, faults, killed, Others, installed>>

\* Of what docker ps says; none of docker's states is UNKNOWN.
mapRuntimeStatus(c) ==
    CASE c.state \in {"running", "paused"}     -> "RUNNING"
      [] c.state \in {"restarting", "created"} -> "STARTING"
      [] OTHER                                 -> "STOPPED"

\* The rows whose stored status a runtime status replaces: those that were not in the
\* middle of an installation and had not failed when they were read.
Differing(q) == {i \in InstallIds : /\ q.apps[i] # None /\ q.seen[q.apps[i].name] # Absent
                                    /\ q.apps[i].status # mapRuntimeStatus(q.seen[q.apps[i].name])}
WrongOverlaid(q) == Differing(q)
Overlaid(q) == {i \in Differing(q) : q.apps[i].status \notin {"INSTALLING", "FAILED"}}

\* The deferred updates are by id and take no notice of what the rows are by then.
WriteStatuses(r) ==
    /\ At(r, "overlay") /\ Reply(r)
    /\ installs' = [i \in InstallIds |->
          IF i \in Overlaid(req[r]) \cap Installs
          THEN [installs[i] EXCEPT !.status = mapRuntimeStatus(req[r].seen[installs[i].name])]
          ELSE installs[i]]
    /\ UNCHANGED <<host, rows, dockerIds, created, faults, killed, Others, installed, cache>>

CacheExpires ==
    /\ cache.state = "fresh" /\ cache' = [cache EXCEPT !.state = "stale"]
    /\ UNCHANGED <<vars, installed>>

AppArrives(r) ==
    \/ \E n \in Names : BeginApp(r, "installApp", "probe", n, 0)
    \/ \E i \in Installs : \/ \E op \in {"startApp", "stopApp", "restartApp"} : OnInstall(r, op, "appAct", i)
                           \/ OnInstall(r, "rebuildApp", "resolve", i)
                           \/ OnInstall(r, "removeApp", "halt", i)
    \/ BeginApp(r, "listApps", "apps", None, 0)

AppStep(r) ==
    \/ Probe(r) \/ ProbeRows(r) \/ ProbeInstalls(r) \/ EnterInstall(r) \/ LaunchApp(r)
    \/ FindContainerRow(r) \/ UpsertContainerRow(r) \/ SucceedInstall(r) \/ FailInstall(r)
    \/ ResolveRuntimeConfig(r) \/ Reinstall(r) \/ StopApp(r) \/ RemoveApp(r)
    \/ MarkRows(r) \/ MarkRowsInError(r) \/ ActOnApp(r) \/ RecordAction(r)
    \/ DropRows(r) \/ DropInstalls(r)
    \/ ReadInstalls(r) \/ ReadStatuses(r) \/ CacheStatuses(r) \/ WriteStatuses(r)

\* The container requests that meet the apps: a sync and the removal of a container.
ContainerArrives(r) == BeginSync(r) \/ \E i \in Rows : BeginDelete(r, i)
ContainerStep(r) ==
    \/ ListContainers(r) \/ ReadRows(r) \/ WriteRows(r)
    \/ RemoveContainer(r) \/ DeleteRelatedAppInstalls(r) \/ EraseRow(r)

AppNext ==
    \/ \E r \in Requests : \/ (AppArrives(r) \/ ContainerArrives(r) \/ ContainerStep(r)) /\ UNCHANGED <<installed, cache>>
                           \/ AppStep(r)
    \/ \E n \in Names : ContainerChanges(n) /\ UNCHANGED <<installed, cache>>
    \/ PanelRestarts /\ cache' = NoCache /\ UNCHANGED installed
    \/ CacheExpires

AppSpec == AppInit /\ [][AppNext]_appVars

(***************************************************************************)
(* Properties                                                              *)
(***************************************************************************)
\* Requests that come one after the other leave every app that is recorded as installed with
\* its container on the server, the row of this container and no second installation.
InstallsExact ==
    Undisturbed /\ AllIdle =>
        \A i \in Installs : LET n == installs[i].name
                            IN  /\ installs[i].status \notin {"INSTALLING", "FAILED"}
                                /\ host[n] # Absent /\ InstallsNamed(n) = {i}
                                /\ \E j \in RowsNamed(n) : rows[j].id = host[n].id

\* An installation is INSTALLING only as long as a request works on it: none is left so for
\* good, whatever docker answers, unless the panel was restarted or its process ended because
\* the row of another installation was deleted under it.
InstallingIsWorkedOn ==
    \A i \in Installs : installs[i].status = "INSTALLING" =>
        \/ killed = "restart"
        \/ killed = "rejection" /\ overlapped /\ \E j \in 1..installed : installs[j] = None
        \/ \E r \in Requests : InProgress(r) /\ req[r].install = i

\* The status of a failed installation is replaced only by a request about this installation
\* or by a list of the apps that had read it before it failed.
FailureShown ==
    [][\A i \in Installs : installs[i].status = "FAILED" /\ installs'[i] # None /\ installs'[i] # installs[i] =>
        \E r \in Requests : \/ req[r].install = i
                            \/ At(r, "overlay") /\ req[r].apps[i] # installs[i]]_appVars
=============================================================================
