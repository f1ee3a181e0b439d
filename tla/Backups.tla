------------------------------- MODULE Backups -------------------------------
(***************************************************************************)
(* The backups of one server (routes/backups.ts), the destination they are *)
(* uploaded to (routes/storage-destinations.ts) and the deletion of the    *)
(* server (routes/servers.ts).                                             *)
(*                                                                         *)
(* A backup goes on in the background after its reply: a dump over SSH, an *)
(* upload, a measurement and the final status.  The commands of a server   *)
(* run one at a time; a dump is long, so it is started in one step and     *)
(* ended in another, and everything that is no command of this server may  *)
(* happen in between.  A command whose connection breaks is run once more, *)
(* though the first may run on.  What is dumped is left out: a file is of  *)
(* a backup, and partial, whole or mixed up from two writers.              *)
(***************************************************************************)
EXTENDS Naturals, FiniteSets

CONSTANTS Tasks,     \* slots for requests and their background work
          Kinds,     \* of "DATABASE", "VOLUME" and "FULL" (the first two differ in nothing modelled)
          Paths,     \* file names: a name and the second of the request
          Buckets,   \* S3 buckets
          Bytes,     \* sizes of dumps
          MaxRow,    \* bound on Backup rows ever created
          MaxBegun,  \* bound on requests
          MaxEdits,  \* bound on edits of the storage destination
          MaxFaults, \* bound on failures and restarts of the panel
          None

ASSUME BackupsAssumption ==
    /\ {MaxRow, MaxBegun, MaxEdits, MaxFaults} \subseteq Nat
    /\ Bytes \subseteq Nat \ {0}
    /\ Kinds \subseteq {"DATABASE", "VOLUME", "FULL"}
    /\ None \notin Tasks \cup Paths \cup {"restart", "rejection", "database"}

VARIABLES
    server,      \* the Server row is there
    files,       \* the server's backup directory
    objects,     \* the objects of each bucket
    destination, \* the UserStorageDestination row bound to this server
    rows,        \* Backup rows
    tasks,       \* requests and background work in progress
    busy,        \* the task whose dump the server's command queue runs
    orphans,     \* dumps that run on without their connection: paths and rows
    created, begun, edits, faults, \* how many there were so far
    pathOf,      \* history: the path each row was created with
    retried,     \* history: backups whose dump was run again
    unstarted,   \* history: backups whose first notification failed
    removed,     \* history: backups whose file a DELETE set out to remove
    restored,    \* history: the last backup restored, and the file it was restored from
    overlapped,  \* history: two tasks were in progress at once
    killed       \* history: how the panel's process ended

vars == <<server, files, objects, destination, rows, tasks, busy, orphans, created, begun,
          edits, faults, pathOf, retried, unstarted, removed, restored, overlapped, killed>>
\* What the steps of a backup's background work leave alone.
Requested == <<server, destination, created, begun, edits, pathOf, restored, overlapped>>

RowIds == 1..MaxRow
File == [of : 0..MaxRow, state : {"absent", "partial", "whole", "mixed"}, bytes : Bytes \cup {0}]
NoFile == [of |-> 0, state |-> "absent", bytes |-> 0]
Backup == [path : Paths, kind : Kinds, bucket : Buckets \cup {None},
           status : {"RUNNING", "COMPLETED", "FAILED"}]
ASSUME NoneIsNoBackup == None \notin Backup
Rows == {i \in RowIds : rows[i] # None}

NoTask == [pc |-> "idle", row |-> 0, path |-> None, kind |-> None, bucket |-> None,
           again |-> FALSE, body |-> NoFile, bytes |-> 0, error |-> None]
InProgress(t) == tasks[t].pc # "idle"
At(t, pc) == tasks[t].pc = pc
Go(t, pc) == tasks' = [tasks EXCEPT ![t].pc = pc]
Done(t) == tasks' = [tasks EXCEPT ![t] = NoTask]
Catch(t, error) == tasks' = [tasks EXCEPT ![t].pc = "catch", ![t].error = error]

Fault == faults < MaxFaults /\ faults' = faults + 1
\* The command queue runs one command of the server at a time.
MyTurn == busy = None

\* Hundredths of a megabyte, rounded.
parseSizeMb(bytes) == (100 * bytes + 524288) \div 1048576

TypeOK ==
    /\ server \in BOOLEAN
    /\ files \in [Paths -> File] /\ objects \in [Buckets -> [Paths -> File]]
    /\ destination \in [bucket : Buckets, enabled : BOOLEAN] \cup {None}
    /\ rows \in [RowIds -> Backup \cup {None}]
    /\ tasks \in [Tasks ->
        [pc : {"idle", "create", "announce", "dump", "dumping", "redump", "redumping", "fetch", "put",
               "size", "complete", "report", "catch", "regret", "restore", "rm", "erase", "drop"},
         row : 0..MaxRow, path : Paths \cup {None}, kind : Kinds \cup {None},
         bucket : Buckets \cup {None}, again : BOOLEAN, body : File, bytes : Bytes \cup {0},
         error : {None, "failed", "empty"}]]
    /\ busy \in Tasks \cup {None} /\ orphans \subseteq Paths \X RowIds
    /\ created \in 0..MaxRow /\ begun \in 0..MaxBegun /\ edits \in 0..MaxEdits /\ faults \in 0..MaxFaults
    /\ pathOf \in [RowIds -> Paths \cup {None}]
    /\ {retried, unstarted, removed} \subseteq SUBSET RowIds
    /\ restored \in [row : 0..MaxRow, kind : Kinds \cup {None}, file : File] /\ overlapped \in BOOLEAN
    /\ killed \in {None, "restart", "rejection", "database"}

Init ==
    /\ server = TRUE
    /\ files = [p \in Paths |-> NoFile] /\ objects = [b \in Buckets |-> [p \in Paths |-> NoFile]]
    /\ destination \in [bucket : Buckets, enabled : {TRUE}] \cup {None}
    /\ rows = [i \in RowIds |-> None] /\ pathOf = [i \in RowIds |-> None]
    /\ tasks = [t \in Tasks |-> NoTask] /\ busy = None /\ orphans = {}
    /\ created = 0 /\ begun = 0 /\ edits = 0 /\ faults = 0
    /\ retried = {} /\ unstarted = {} /\ removed = {}
    /\ restored = [row |-> 0, kind |-> None, file |-> NoFile]
    /\ overlapped = FALSE /\ killed = None

(***************************************************************************)
(* Requests.  Each first reads the server; a backup also reads and checks  *)
(* the destination, and keeps what it has read.                            *)
(***************************************************************************)
Admit(t) ==
    /\ server /\ ~InProgress(t) /\ begun < MaxBegun
    /\ begun' = begun + 1
    /\ overlapped' = (overlapped \/ \E u \in Tasks : InProgress(u))

Begin(t, task) ==
    /\ Admit(t) /\ tasks' = [tasks EXCEPT ![t] = task]
    /\ UNCHANGED <<server, files, objects, destination, rows, busy, orphans, created, edits, faults,
                   pathOf, retried, unstarted, removed, restored, killed>>

Accepted(d) == d # None /\ d.enabled
BeginBackup(t, p, kind, upload) ==
    /\ upload => Accepted(destination)
    /\ Begin(t, [NoTask EXCEPT !.pc = "create", !.path = p, !.kind = kind,
                               !.bucket = IF upload THEN destination.bucket ELSE None])

OnBackup(pc, i) == [NoTask EXCEPT !.pc = pc, !.row = i, !.path = rows[i].path, !.kind = rows[i].kind]
WrongRestorable(i) == rows[i].status # "FAILED"
Restorable(i) == rows[i].status = "COMPLETED"
BeginRestore(t, i) == Restorable(i) /\ Begin(t, OnBackup("restore", i))
BeginDelete(t, i) == Begin(t, OnBackup("rm", i))

(***************************************************************************)
(* POST /backups: the row, a notification, and then the background work.   *)
(***************************************************************************)
CreateRow(t) ==
    /\ At(t, "create") /\ created < MaxRow
    /\ LET q == tasks[t]
           i == created + 1
       IN  IF ~server THEN Done(t) /\ UNCHANGED <<rows, created, pathOf>>
           ELSE /\ created' = i
                /\ rows' = [rows EXCEPT ![i] = [path |-> q.path, kind |-> q.kind, bucket |-> q.bucket,
                                                status |-> "RUNNING"]]
                /\ pathOf' = [pathOf EXCEPT ![i] = q.path]
                /\ tasks' = [tasks EXCEPT ![t].pc = "announce", ![t].row = i]
    /\ UNCHANGED <<server, files, objects, destination, busy, orphans, begun, edits, faults,
                   retried, unstarted, removed, restored, overlapped, killed>>

\* dispatchRuntimeNotification asks the database for providers and throws if that fails:
\* then the request fails before any work is scheduled.
Announce(t) ==
    /\ At(t, "announce")
    /\ \/ Go(t, "dump") /\ UNCHANGED <<faults, unstarted>>
       \/ Fault /\ Done(t) /\ unstarted' = unstarted \cup {tasks[t].row}
    /\ UNCHANGED <<Requested, files, objects, rows, busy, orphans, retried, removed, killed>>

Writing(p) == \E o \in orphans : o[1] = p

\* mkdir and the dump's command, which creates or truncates its file.
StartDump(t) ==
    LET q == tasks[t]
    IN  /\ (At(t, "dump") /\ MyTurn) \/ At(t, "redump")
        /\ \/ /\ busy' = t /\ tasks' = [tasks EXCEPT ![t].pc = "dumping"]
              /\ files' = [files EXCEPT ![q.path] =
                    [of |-> q.row, state |-> IF Writing(q.path) THEN "mixed" ELSE "partial", bytes |-> 0]]
              /\ UNCHANGED faults
           \/ Fault /\ Catch(t, "failed") /\ busy' = None /\ UNCHANGED files
        /\ UNCHANGED <<Requested, objects, rows, orphans, retried, unstarted, removed, killed>>

\* A dump that fails leaves part of its file.  The exit status of a full backup is not
\* looked at: its command ends in "|| true".
WrongIgnored(kind) == kind # "DATABASE"
Ignored(kind) == kind = "FULL"
EndDump(t) ==
    LET q == tasks[t]
        next == IF q.bucket # None THEN "fetch" ELSE "size"
        state == IF files[q.path].state = "mixed" THEN "mixed" ELSE "whole"
    IN  /\ At(t, "dumping") /\ busy' = None
        /\ \/ /\ Go(t, next) /\ UNCHANGED faults
              /\ \E bytes \in Bytes : files' = [files EXCEPT ![q.path].state = state, ![q.path].bytes = bytes]
           \/ /\ Fault
              /\ IF Ignored(q.kind) THEN Go(t, next) ELSE Catch(t, "failed")
              /\ \E bytes \in Bytes \cup {0} : files' = [files EXCEPT ![q.path].bytes = bytes]
        /\ UNCHANGED <<Requested, objects, rows, orphans, retried, unstarted, removed, killed>>

\* exec when its connection was lost: the error is thrown or, if it is a recoverable one, the
\* command is run once more.  The remote command may run on.
AfterLoss(q) == {[q EXCEPT !.pc = "catch", !.error = "failed"]} \cup
                (IF q.again THEN {} ELSE {[q EXCEPT !.pc = "redump", !.again = TRUE]})
Interrupted(q, next) ==
    /\ orphans' \in {orphans, orphans \cup {<<q.path, q.row>>}}
    /\ busy' = IF next.pc = "redump" THEN busy ELSE None
    /\ retried' = IF next.pc = "redump" THEN retried \cup {q.row} ELSE retried

LoseConnection(t) ==
    /\ At(t, "dumping") /\ Fault
    /\ \E next \in AfterLoss(tasks[t]) :
          Interrupted(tasks[t], next) /\ tasks' = [tasks EXCEPT ![t] = next]
    /\ UNCHANGED <<Requested, files, objects, rows, unstarted, removed, killed>>

\* A dump without a connection comes to an end, with or without another write to its file.
OrphanEnds(o) ==
    LET p == o[1]
        alone == files[p].state = "absent" \/ (files[p].of = o[2] /\ files[p].state = "partial")
    IN  /\ orphans' = orphans \ {o}
        /\ \/ UNCHANGED files
           \/ /\ ~(\E t \in Tasks : busy = t /\ tasks[t].path = p)
              /\ \E bytes \in Bytes : files' = [files EXCEPT ![p] =
                    IF alone THEN [of |-> o[2], state |-> "whole", bytes |-> bytes]
                    ELSE [@ EXCEPT !.state = "mixed"]]
        /\ UNCHANGED <<Requested, objects, rows, tasks, busy, faults, retried, unstarted, removed, killed>>

\* uploadBackupToS3: the file is read over SSH and then put into the bucket.
FetchFile(t) ==
    LET file == files[tasks[t].path]
    IN  /\ At(t, "fetch") /\ MyTurn
        /\ \/ file.bytes # 0 /\ tasks' = [tasks EXCEPT ![t].pc = "put", ![t].body = file] /\ UNCHANGED faults
           \/ file.bytes = 0 /\ Catch(t, "failed") /\ UNCHANGED faults
           \/ Fault /\ Catch(t, "failed")
        /\ UNCHANGED <<Requested, files, objects, rows, busy, orphans, retried, unstarted, removed, killed>>

WrongBucket(q) == IF destination = None THEN q.bucket ELSE destination.bucket
Bucket(q) == q.bucket
PutObject(t) ==
    LET q == tasks[t]
        uploaded == [objects EXCEPT ![Bucket(q)][q.path] = q.body]
    IN  /\ At(t, "put")
        /\ \/ Go(t, "size") /\ objects' = uploaded /\ UNCHANGED faults
           \/ Fault /\ Catch(t, "failed") /\ objects' \in {objects, uploaded}
        /\ UNCHANGED <<Requested, files, rows, busy, orphans, retried, unstarted, removed, killed>>

MeasureFile(t) ==
    LET bytes == files[tasks[t].path].bytes
    IN  /\ At(t, "size") /\ MyTurn
        /\ \/ /\ bytes # 0 /\ UNCHANGED faults
              /\ tasks' = IF parseSizeMb(bytes) = 0
                          THEN [tasks EXCEPT ![t].pc = "catch", ![t].error = "empty", ![t].bytes = bytes]
                          ELSE [tasks EXCEPT ![t].pc = "complete"]
           \/ bytes = 0 /\ Catch(t, "failed") /\ UNCHANGED faults
           \/ Fault /\ Catch(t, "failed")
        /\ UNCHANGED <<Requested, files, objects, rows, busy, orphans, retried, unstarted, removed, killed>>

CompleteBackup(t) ==
    /\ At(t, "complete")
    /\ LET i == tasks[t].row
       IN  IF rows[i] = None THEN Catch(t, "failed") /\ UNCHANGED rows
           ELSE Go(t, "report") /\ rows' = [rows EXCEPT ![i].status = "COMPLETED"]
    /\ UNCHANGED <<Requested, files, objects, busy, orphans, faults, retried, unstarted, removed, killed>>

Report(t) ==
    /\ At(t, "report")
    /\ (Done(t) /\ UNCHANGED faults) \/ (Fault /\ Catch(t, "failed"))
    /\ UNCHANGED <<Requested, files, objects, rows, busy, orphans, retried, unstarted, removed, killed>>

\* The catch throws if the row is gone, or if its notification cannot be sent, in a callback
\* of setImmediate: node ends the process.
Ends(how) == killed' = how /\ tasks' = [t \in Tasks |-> NoTask] /\ busy' = None
\* The command that the server runs at the moment goes on without the panel, or does not.
Abandoned == {<<tasks[t].path, tasks[t].row>> : t \in {u \in Tasks : At(u, "dumping")}}

WrongThrows(t) == tasks[t].error = "failed"
Throws(t) == rows[tasks[t].row] = None
WrongFailedRow(i) == rows
FailedRow(i) == [rows EXCEPT ![i].status = "FAILED"]
FailBackup(t) ==
    /\ At(t, "catch")
    /\ IF Throws(t)
       THEN Ends("rejection") /\ orphans' \in {orphans, orphans \cup Abandoned} /\ UNCHANGED rows
       ELSE Go(t, "regret") /\ rows' = FailedRow(tasks[t].row) /\ UNCHANGED <<busy, orphans, killed>>
    /\ UNCHANGED <<Requested, files, objects, faults, retried, unstarted, removed>>

Regret(t) ==
    /\ At(t, "regret")
    /\ \/ Done(t) /\ UNCHANGED <<faults, busy, orphans, killed>>
       \/ Fault /\ Ends("database") /\ orphans' \in {orphans, orphans \cup Abandoned}
    /\ UNCHANGED <<Requested, files, objects, rows, retried, unstarted, removed>>

(***************************************************************************)
(* POST /backups/:id/restore and DELETE /backups/:id.  The restoring       *)
(* command also ends in "|| true"; the file is removed as far as possible. *)
(***************************************************************************)
Restore(t) ==
    /\ At(t, "restore") /\ MyTurn /\ Done(t)
    /\ \/ restored' = [row |-> tasks[t].row, kind |-> tasks[t].kind, file |-> files[tasks[t].path]] /\ UNCHANGED faults
       \/ Fault /\ UNCHANGED restored
    /\ UNCHANGED <<server, files, objects, destination, rows, busy, orphans, created, begun, edits,
                   pathOf, retried, unstarted, removed, overlapped, killed>>

WrongEmptied(p) == files
Emptied(p) == [files EXCEPT ![p] = NoFile]
RemoveFile(t) ==
    /\ At(t, "rm") /\ MyTurn /\ Go(t, "erase")
    /\ removed' = removed \cup {tasks[t].row}
    /\ \/ files' = Emptied(tasks[t].path) /\ UNCHANGED faults
       \/ Fault /\ UNCHANGED files
    /\ UNCHANGED <<Requested, objects, rows, busy, orphans, retried, unstarted, killed>>

EraseRow(t) ==
    /\ At(t, "erase") /\ Done(t)
    /\ rows' = [rows EXCEPT ![tasks[t].row] = None]
    /\ UNCHANGED <<Requested, files, objects, busy, orphans, faults, retried, unstarted, removed, killed>>

(***************************************************************************)
(* DELETE /servers/:id closes the shared connection, under a command that  *)
(* may be running, and then deletes every row of the server.               *)
(***************************************************************************)
Dropping == [NoTask EXCEPT !.pc = "drop"]
BeginServerDelete(t) ==
    /\ Admit(t)
    /\ \/ /\ \A u \in Tasks : ~At(u, "dumping")
          /\ tasks' = [tasks EXCEPT ![t] = Dropping] /\ UNCHANGED <<orphans, retried, busy>>
       \/ \E u \in {v \in Tasks : At(v, "dumping")} : \E next \in AfterLoss(tasks[u]) :
             Interrupted(tasks[u], next) /\ tasks' = [tasks EXCEPT ![t] = Dropping, ![u] = next]
    /\ UNCHANGED <<server, files, objects, destination, rows, created, edits, faults, pathOf,
                   unstarted, removed, restored, killed>>

DeleteServer(t) ==
    /\ At(t, "drop") /\ Done(t)
    /\ server' = FALSE /\ rows' = [i \in RowIds |-> None] /\ destination' = None
    /\ UNCHANGED <<files, objects, busy, orphans, created, begun, edits, faults, pathOf, retried,
                   unstarted, removed, restored, overlapped, killed>>

(***************************************************************************)
(* POST, PUT and DELETE of /storage-destinations, and the panel's restart. *)
(***************************************************************************)
EditDestination(d) ==
    /\ server /\ edits < MaxEdits /\ edits' = edits + 1
    /\ d # destination /\ destination' = d
    /\ UNCHANGED <<server, files, objects, rows, tasks, busy, orphans, created, begun, faults, pathOf,
                   retried, unstarted, removed, restored, overlapped, killed>>
SaveDestination(bucket, enabled) == EditDestination([bucket |-> bucket, enabled |-> enabled])
DeleteDestination == EditDestination(None)

PanelRestarts ==
    /\ \E t \in Tasks : InProgress(t)
    /\ Fault /\ Ends("restart") /\ orphans' \in {orphans, orphans \cup Abandoned}
    /\ UNCHANGED <<Requested, files, objects, rows, retried, unstarted, removed>>

Arrives(t) ==
    \/ \E p \in Paths, kind \in Kinds, upload \in BOOLEAN : BeginBackup(t, p, kind, upload)
    \/ \E i \in Rows : BeginRestore(t, i) \/ BeginDelete(t, i)
    \/ BeginServerDelete(t)

Step(t) ==
    \/ CreateRow(t) \/ Announce(t) \/ StartDump(t) \/ EndDump(t) \/ LoseConnection(t)
    \/ FetchFile(t) \/ PutObject(t) \/ MeasureFile(t) \/ CompleteBackup(t) \/ Report(t)
    \/ FailBackup(t) \/ Regret(t)
    \/ Restore(t) \/ RemoveFile(t) \/ EraseRow(t) \/ DeleteServer(t)

Next ==
    \/ \E t \in Tasks : Arrives(t) \/ Step(t)
    \/ \E o \in orphans : OrphanEnds(o)
    \/ \E bucket \in Buckets, enabled \in BOOLEAN : SaveDestination(bucket, enabled)
    \/ DeleteDestination
    \/ PanelRestarts

Spec == Init /\ [][Next]_vars

(***************************************************************************)
(* Properties                                                              *)
(***************************************************************************)
Shared(i) == \E j \in RowIds \ {i} : pathOf[j] = pathOf[i]
WholeOf(i, file) == file.of = i /\ file.state = "whole"
\* Backups that nothing but their own work can have touched: no other of the same name in
\* the same second, no dump run twice, and no full backup, whose failure is not noticed.
Sound(i) == ~Shared(i) /\ i \notin retried /\ rows[i].kind # "FULL"

\* What the panel shows as COMPLETED can be restored: the file is whole and this backup's,
\* and, if a destination was chosen, so is the object in the bucket the destination named
\* when the backup was asked for, whatever was done to the destination meanwhile.
CompletedRestorable ==
    \A i \in Rows : rows[i].status = "COMPLETED" /\ Sound(i) =>
        /\ i \notin removed => WholeOf(i, files[rows[i].path])
        /\ rows[i].bucket # None => WholeOf(i, objects[rows[i].bucket][rows[i].path])

\* A backup is RUNNING only as long as its work is in progress: none is left so for good,
\* whatever fails on the server or in S3, unless the panel's process ended or the first
\* notification failed.
RunningIsWorkedOn ==
    \A i \in Rows : rows[i].status = "RUNNING" =>
        killed # None \/ i \in unstarted \/ \E t \in Tasks : tasks[t].row = i /\ ~At(t, "idle")

\* No failure on the server or in S3 ends the panel's process by itself: the background work
\* does only if its row was deleted under it (with its server, or alone).
SurvivesServer ==
    killed = "rejection" => overlapped /\ \E i \in 1..created : rows[i] = None

\* A restore brings back this backup and nothing else: never the part of a dump that was
\* still running, nor the file of another, unless the two had the same name and second.
RestoresOwn ==
    LET i == restored.row
    IN  i # 0 /\ ~Shared(i) /\ i \notin retried /\ restored.kind # "FULL" /\ restored.file # NoFile =>
            WholeOf(i, restored.file)

\* Requests that come one after the other leave no file without a row in the backup
\* directory, until the server itself is deleted.
FilesHaveRows ==
    ~overlapped /\ faults = 0 /\ server /\ (\A t \in Tasks : ~InProgress(t)) =>
        \A p \in Paths : files[p] # NoFile => \E i \in Rows : rows[i].path = p

\* A backup is refused as "created but is empty" only if it is (routes/backups.ts:891).
EmptyIsEmpty == \A t \in Tasks : tasks[t].error = "empty" => tasks[t].bytes = 0
=============================================================================
