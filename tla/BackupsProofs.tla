---------------------------- MODULE BackupsProofs ----------------------------
(***************************************************************************)
(* Proofs about Backups, for any number of requests, backups, failures and *)
(* edits, and any sizes.                                                   *)
(*                                                                         *)
(* That a backup is RUNNING only while it is worked on is not inductive:   *)
(* the work must be at a point from which it still records an end, and     *)
(* that excludes other requests that have the same row.  That no failure   *)
(* ends the panel's process rests on the rows: the work of a backup has a  *)
(* row, and a row goes only in a request of its own, so that it is gone    *)
(* under the work only if the two overlapped.                              *)
(***************************************************************************)
EXTENDS Backups, TLAPS

Pcs == {"idle", "create", "announce", "dump", "dumping", "redump", "redumping", "fetch", "put",
        "size", "complete", "report", "catch", "regret", "restore", "rm", "erase", "drop"}
Errors == {None, "failed", "empty"}
\* Where the work of a backup is when its row has no final status.
Work == {"announce", "dump", "dumping", "redump", "redumping", "fetch", "put", "size",
         "complete", "catch"}

TaskType == [pc : Pcs, row : 0..MaxRow, path : Paths \cup {None}, kind : Kinds \cup {None},
             bucket : Buckets \cup {None}, again : BOOLEAN, body : File, bytes : Bytes \cup {0},
             error : Errors]

\* What a task is about.
Formed ==
    \A t \in Tasks :
        /\ tasks[t].pc \in Work \cup {"create", "report", "restore"} =>
              tasks[t].path \in Paths /\ tasks[t].kind \in Kinds
        /\ tasks[t].pc = "rm" => tasks[t].row \in RowIds

\* The row of a backup's work was created, and is gone only if requests overlapped.
WorkHasRow ==
    \A t \in Tasks : tasks[t].pc \in Work \cup {"report"} =>
        /\ tasks[t].row \in 1..created
        /\ ~overlapped => rows[tasks[t].row] # None

Alone == ~overlapped => \A t, u \in Tasks : InProgress(t) /\ InProgress(u) => t = u

StillWorkedOn ==
    \A i \in Rows : rows[i].status = "RUNNING" =>
        killed # None \/ i \in unstarted \/ \E t \in Tasks : tasks[t].row = i /\ tasks[t].pc \in Work

Inv == TypeOK /\ Formed /\ WorkHasRow /\ Alone /\ StillWorkedOn /\ SurvivesServer

-----------------------------------------------------------------------------
(* Types *)

LEMMA Facts ==
  ASSUME TypeOK
  PROVE  /\ tasks \in [Tasks -> TaskType]
         /\ rows \in [RowIds -> Backup \cup {None}]
         /\ created \in Nat /\ created <= MaxRow
         /\ \A i \in 1..created : i \in RowIds
BY BackupsAssumption DEF TypeOK, TaskType, Pcs, Errors, RowIds

\* A task may be at another point, with an error, a row, a body or a size.
LEMMA TaskSet ==
  ASSUME NEW f \in [Tasks -> TaskType], NEW t, NEW pc \in Pcs,
         NEW e \in Errors, NEW i \in 0..MaxRow, NEW b \in File
  PROVE  /\ [f EXCEPT ![t].pc = pc] \in [Tasks -> TaskType]
         /\ [f EXCEPT ![t].pc = pc, ![t].error = e] \in [Tasks -> TaskType]
         /\ [f EXCEPT ![t].pc = pc, ![t].row = i] \in [Tasks -> TaskType]
         /\ [f EXCEPT ![t].pc = pc, ![t].body = b] \in [Tasks -> TaskType]
<1>1. [f EXCEPT ![t].pc = pc] \in [Tasks -> TaskType]
  BY DEF TaskType
<1>2. [f EXCEPT ![t].pc = pc, ![t].error = e] \in [Tasks -> TaskType]
  BY DEF TaskType
<1>3. [f EXCEPT ![t].pc = pc, ![t].row = i] \in [Tasks -> TaskType]
  BY DEF TaskType
<1>4. [f EXCEPT ![t].pc = pc, ![t].body = b] \in [Tasks -> TaskType]
  BY DEF TaskType
<1> QED
  BY <1>1, <1>2, <1>3, <1>4

LEMMA TaskSizeSet ==
  ASSUME NEW f \in [Tasks -> TaskType], NEW t, NEW pc \in Pcs,
         NEW e \in Errors, NEW n \in Bytes \cup {0}
  PROVE  [f EXCEPT ![t].pc = pc, ![t].error = e, ![t].bytes = n] \in [Tasks -> TaskType]
<1> DEFINE g == [f EXCEPT ![t].pc = pc, ![t].error = e]
<1>1. [f EXCEPT ![t].pc = pc, ![t].error = e, ![t].bytes = n] = [g EXCEPT ![t].bytes = n]
  OBVIOUS
<1>2. g \in [Tasks -> TaskType]
  BY DEF TaskType
<1> HIDE DEF g
<1>3. [g EXCEPT ![t].bytes = n] \in [Tasks -> TaskType]
  BY <1>2 DEF TaskType
<1> QED
  BY <1>1, <1>3

LEMMA FileSet ==
  ASSUME NEW f \in [Paths -> File], NEW p, NEW bytes \in Bytes \cup {0},
         NEW state \in {"absent", "partial", "whole", "mixed"}
  PROVE  /\ [f EXCEPT ![p].bytes = bytes] \in [Paths -> File]
         /\ [f EXCEPT ![p].state = state, ![p].bytes = bytes] \in [Paths -> File]
<1> DEFINE States == {"absent", "partial", "whole", "mixed"}
<1>1. File = [of : 0..MaxRow, state : States, bytes : Bytes \cup {0}] /\ state \in States
  BY DEF File
<1> HIDE DEF States
<1> QED
  BY <1>1

LEMMA NoTaskType == NoTask \in TaskType /\ NoFile \in File /\ 0 \in 0..MaxRow
BY BackupsAssumption DEF NoTask, NoFile, TaskType, File, Pcs, Errors

\* The steps of a task leave the others alone.
LEMMA GoTask ==
  ASSUME TypeOK, NEW t \in Tasks, NEW pc \in Pcs, Go(t, pc)
  PROVE  /\ tasks' \in [Tasks -> TaskType]
         /\ tasks'[t] = [tasks[t] EXCEPT !.pc = pc]
         /\ tasks'[t].pc = pc /\ tasks'[t].row = tasks[t].row
         /\ tasks'[t].path = tasks[t].path /\ tasks'[t].kind = tasks[t].kind
         /\ \A u \in Tasks \ {t} : tasks'[u] = tasks[u]
<1>1. tasks \in [Tasks -> TaskType]
  BY Facts
<1>2. tasks' \in [Tasks -> TaskType]
  BY <1>1, TaskSet, NoTaskType DEF Go, Errors
<1> QED
  BY <1>1, <1>2 DEF Go, TaskType

LEMMA CatchTask ==
  ASSUME TypeOK, NEW t \in Tasks, NEW e \in Errors, Catch(t, e)
  PROVE  /\ tasks' \in [Tasks -> TaskType]
         /\ tasks'[t].pc = "catch" /\ tasks'[t].row = tasks[t].row
         /\ tasks'[t].path = tasks[t].path /\ tasks'[t].kind = tasks[t].kind
         /\ \A u \in Tasks \ {t} : tasks'[u] = tasks[u]
<1>1. tasks \in [Tasks -> TaskType] /\ "catch" \in Pcs
  BY Facts DEF Pcs
<1>2. tasks' \in [Tasks -> TaskType]
  BY <1>1, TaskSet, NoTaskType DEF Catch
<1> QED
  BY <1>1, <1>2 DEF Catch, TaskType

LEMMA DoneTask ==
  ASSUME TypeOK, NEW t \in Tasks, Done(t)
  PROVE  /\ tasks' \in [Tasks -> TaskType]
         /\ tasks'[t].pc = "idle"
         /\ \A u \in Tasks \ {t} : tasks'[u] = tasks[u]
<1>1. tasks \in [Tasks -> TaskType] /\ NoTask.pc = "idle"
  BY Facts DEF NoTask
<1> QED
  BY <1>1, NoTaskType DEF Done

DestinationType == [bucket : Buckets, enabled : BOOLEAN] \cup {None}
RestoredType == [row : 0..MaxRow, kind : Kinds \cup {None}, file : File]
Deaths == {None, "restart", "rejection", "database"}

\* TypeOK, variable by variable.
Typed ==
    /\ server \in BOOLEAN /\ overlapped \in BOOLEAN /\ killed \in Deaths
    /\ files \in [Paths -> File] /\ objects \in [Buckets -> [Paths -> File]]
    /\ destination \in DestinationType
    /\ rows \in [RowIds -> Backup \cup {None}]
    /\ tasks \in [Tasks -> TaskType]
    /\ busy \in Tasks \cup {None} /\ orphans \subseteq Paths \X RowIds
    /\ created \in 0..MaxRow /\ begun \in 0..MaxBegun
    /\ edits \in 0..MaxEdits /\ faults \in 0..MaxFaults
    /\ pathOf \in [RowIds -> Paths \cup {None}]
    /\ retried \subseteq RowIds /\ unstarted \subseteq RowIds /\ removed \subseteq RowIds
    /\ restored \in RestoredType

LEMMA TypedOK == (TypeOK <=> Typed) /\ (TypeOK' <=> Typed')
<1>1. TypeOK <=> Typed
  BY DEF TypeOK, Typed, DestinationType, RestoredType, Deaths, TaskType, Pcs, Errors
<1>2. TypeOK' <=> Typed'
  BY DEF TypeOK, Typed, DestinationType, RestoredType, Deaths, TaskType, Pcs, Errors
<1> QED
  BY <1>1, <1>2

\* Failures and requests are counted.
LEMMA FaultCounted == Typed /\ (Fault \/ UNCHANGED faults) => faults' \in 0..MaxFaults
BY BackupsAssumption DEF Typed, Fault

\* Other requests of a task: its record is given.
LEMMA AdmitTyped ==
  ASSUME Typed, NEW t \in Tasks, NEW task \in TaskType, Begin(t, task)
  PROVE  Typed'
<1>1. begun' \in 0..MaxBegun /\ overlapped' \in BOOLEAN
  BY BackupsAssumption DEF Typed, Begin, Admit
<1>2. tasks' \in [Tasks -> TaskType]
  BY DEF Typed, Begin
<1> QED
  BY <1>1, <1>2 DEF Typed, Begin

\* The steps of a backup's work.
LEMMA WorkTyped ==
  ASSUME TypeOK, Formed, WorkHasRow, NEW t \in Tasks,
         \/ CreateRow(t) \/ Announce(t) \/ StartDump(t) \/ EndDump(t) \/ LoseConnection(t)
         \/ FetchFile(t) \/ PutObject(t) \/ MeasureFile(t) \/ CompleteBackup(t) \/ Report(t)
  PROVE  Typed'
<1> DEFINE q == tasks[t]
<1>a. Typed
  BY TypedOK
<1>b. q \in TaskType /\ tasks \in [Tasks -> TaskType]
  BY <1>a DEF Typed
<1>c. /\ {"announce", "dump", "dumping", "redump", "fetch", "put", "size", "complete", "report",
          "catch", "idle"} \subseteq Pcs
      /\ {None, "failed", "empty"} \subseteq Errors
  BY DEF Pcs, Errors
<1>d. /\ \A pc \in Pcs : Go(t, pc) => tasks' \in [Tasks -> TaskType]
      /\ \A e \in Errors : Catch(t, e) => tasks' \in [Tasks -> TaskType]
      /\ Done(t) => tasks' \in [Tasks -> TaskType]
  BY GoTask, CatchTask, DoneTask
<1>f. (Fault \/ UNCHANGED faults) => faults' \in 0..MaxFaults
  BY <1>a, FaultCounted
<1>w. q.pc \in Work \cup {"create", "report"} => q.path \in Paths /\ q.kind \in Kinds
  BY DEF Formed
<1>r. q.pc \in Work => q.row \in RowIds /\ q.row \in 0..MaxRow
  BY Facts DEF WorkHasRow, RowIds
<1>x. /\ "dumping" \in Work /\ "dump" \in Work /\ "redump" \in Work /\ "announce" \in Work
      /\ "complete" \in Work
  BY DEF Work
<1>1. CASE CreateRow(t)
  <2>1. CASE ~server
    <3>1. Done(t) /\ UNCHANGED <<rows, created, pathOf>>
      BY <1>1, <2>1 DEF CreateRow
    <3> QED
      BY <1>1, <1>a, <1>d, <3>1 DEF CreateRow, Typed
  <2>2. CASE server
    <3> DEFINE i == created + 1
               row == [path |-> q.path, kind |-> q.kind, bucket |-> q.bucket, status |-> "RUNNING"]
    <3>1. /\ created' = i /\ rows' = [rows EXCEPT ![i] = row]
          /\ pathOf' = [pathOf EXCEPT ![i] = q.path]
          /\ tasks' = [tasks EXCEPT ![t].pc = "announce", ![t].row = i]
          /\ created < MaxRow /\ q.pc = "create"
      BY <1>1, <2>2 DEF CreateRow, At
    <3>2. i \in RowIds /\ i \in 0..MaxRow /\ created' \in 0..MaxRow
      BY <1>a, <3>1, BackupsAssumption DEF Typed, RowIds
    <3>3. row \in Backup
      BY <1>b, <1>w, <3>1 DEF Backup, TaskType
    <3> HIDE DEF i, row
    <3>4. rows' \in [RowIds -> Backup \cup {None}]
      BY <1>a, <3>1, <3>3 DEF Typed
    <3>5. pathOf' \in [RowIds -> Paths \cup {None}]
      BY <1>a, <1>w, <3>1 DEF Typed
    <3>6. tasks' \in [Tasks -> TaskType]
      BY <1>b, <1>c, <3>1, <3>2, TaskSet, NoTaskType
    <3> QED
      BY <1>1, <1>a, <3>2, <3>4, <3>5, <3>6 DEF CreateRow, Typed
  <2> QED
    BY <2>1, <2>2
<1>2. CASE Announce(t)
  <2>1. tasks' \in [Tasks -> TaskType]
    BY <1>2, <1>c, <1>d DEF Announce
  <2>2. q.pc = "announce"
    BY <1>2 DEF Announce, At
  <2>3. unstarted' \subseteq RowIds /\ faults' \in 0..MaxFaults
    BY <1>2, <1>a, <1>f, <1>r, <1>x, <2>2 DEF Announce, Typed
  <2> QED
    BY <1>2, <1>a, <2>1, <2>3 DEF Announce, Requested, Typed
<1>3. CASE StartDump(t)
  <2> DEFINE file == [of |-> q.row, state |-> IF Writing(q.path) THEN "mixed" ELSE "partial", bytes |-> 0]
  <2>1. /\ q.pc \in Work
        /\ \/ /\ busy' = t /\ tasks' = [tasks EXCEPT ![t].pc = "dumping"]
              /\ files' = [files EXCEPT ![q.path] = file] /\ UNCHANGED faults
           \/ Fault /\ Catch(t, "failed") /\ busy' = None /\ UNCHANGED files
    BY <1>3, <1>x DEF StartDump, At
  <2>2. file \in File
    BY <1>r, <2>1 DEF File
  <2> HIDE DEF file
  <2>3. tasks' \in [Tasks -> TaskType]
    BY <1>c, <1>d, <2>1 DEF Go
  <2>4. files' \in [Paths -> File] /\ busy' \in Tasks \cup {None} /\ faults' \in 0..MaxFaults
    BY <1>a, <1>f, <2>1, <2>2 DEF Typed
  <2> QED
    BY <1>3, <1>a, <2>3, <2>4 DEF StartDump, Requested, Typed
<1>4. CASE EndDump(t)
  <2> DEFINE state == IF files[q.path].state = "mixed" THEN "mixed" ELSE "whole"
  <2>1. tasks' \in [Tasks -> TaskType]
    BY <1>4, <1>c, <1>d DEF EndDump
  <2>2. \/ \E bytes \in Bytes : files' = [files EXCEPT ![q.path].state = state, ![q.path].bytes = bytes]
        \/ \E bytes \in Bytes \cup {0} : files' = [files EXCEPT ![q.path].bytes = bytes]
    BY <1>4 DEF EndDump
  <2>3. files' \in [Paths -> File]
    <3>1. state \in {"absent", "partial", "whole", "mixed"} /\ files \in [Paths -> File]
      BY <1>a DEF Typed
    <3> HIDE DEF state
    <3>2. CASE \E bytes \in Bytes : files' = [files EXCEPT ![q.path].state = state, ![q.path].bytes = bytes]
      <4>1. PICK bytes \in Bytes :
               files' = [files EXCEPT ![q.path].state = state, ![q.path].bytes = bytes]
        BY <3>2
      <4>2. bytes \in Bytes \cup {0}
        OBVIOUS
      <4>3. [files EXCEPT ![q.path].state = state, ![q.path].bytes = bytes] \in [Paths -> File]
        BY <3>1, <4>2, FileSet, Zenon
      <4> QED
        BY <4>1, <4>3
    <3>3. CASE \E bytes \in Bytes \cup {0} : files' = [files EXCEPT ![q.path].bytes = bytes]
      <4>1. PICK bytes \in Bytes \cup {0} : files' = [files EXCEPT ![q.path].bytes = bytes]
        BY <3>3
      <4>2. [files EXCEPT ![q.path].bytes = bytes] \in [Paths -> File]
        BY <3>1, FileSet, Zenon
      <4> QED
        BY <4>1, <4>2
    <3> QED
      BY <2>2, <3>2, <3>3
  <2>4. busy' = None /\ faults' \in 0..MaxFaults
    BY <1>4, <1>f DEF EndDump
  <2> QED
    BY <1>4, <1>a, <2>1, <2>3, <2>4 DEF EndDump, Requested, Typed
<1>5. CASE LoseConnection(t)
  <2>1. q.pc \in Work /\ q.path \in Paths /\ q.row \in RowIds
    BY <1>5, <1>r, <1>w, <1>x DEF LoseConnection, At
  <2>2. PICK next \in AfterLoss(q) : Interrupted(q, next) /\ tasks' = [tasks EXCEPT ![t] = next]
    BY <1>5 DEF LoseConnection
  <2>3. next \in TaskType
    BY <1>b, <1>c, <2>2 DEF AfterLoss, TaskType
  <2>4. /\ orphans' \subseteq Paths \X RowIds /\ busy' \in Tasks \cup {None}
        /\ retried' \subseteq RowIds
    BY <1>a, <2>1, <2>2 DEF Interrupted, Typed
  <2>5. tasks' \in [Tasks -> TaskType]
    BY <1>b, <2>2, <2>3
  <2>6. faults' \in 0..MaxFaults
    BY <1>5, <1>f DEF LoseConnection
  <2> QED
    BY <1>5, <1>a, <2>4, <2>5, <2>6 DEF LoseConnection, Requested, Typed
<1>6. CASE FetchFile(t)
  <2>1. q.path \in Paths
    BY <1>6, <1>w DEF FetchFile, At, Work
  <2>2. files[q.path] \in File
    BY <1>a, <2>1 DEF Typed
  <2>3. tasks' \in [Tasks -> TaskType]
    <3>1. CASE tasks' = [tasks EXCEPT ![t].pc = "put", ![t].body = files[q.path]]
      BY <1>b, <1>c, <2>2, <3>1, TaskSet, NoTaskType
    <3> QED
      BY <1>6, <1>c, <1>d, <3>1 DEF FetchFile
  <2>4. faults' \in 0..MaxFaults
    BY <1>6, <1>f DEF FetchFile
  <2> QED
    BY <1>6, <1>a, <2>3, <2>4 DEF FetchFile, Requested, Typed
<1>7. CASE PutObject(t)
  <2>1. q.body \in File
    BY <1>b DEF TaskType
  <2>2. objects' \in {objects, [objects EXCEPT ![Bucket(q)][q.path] = q.body]}
    BY <1>7 DEF PutObject
  <2>3. objects' \in [Buckets -> [Paths -> File]]
    BY <1>a, <2>1, <2>2 DEF Typed
  <2>4. tasks' \in [Tasks -> TaskType] /\ faults' \in 0..MaxFaults
    BY <1>7, <1>c, <1>d, <1>f DEF PutObject
  <2> QED
    BY <1>7, <1>a, <2>3, <2>4 DEF PutObject, Requested, Typed
<1>8. CASE MeasureFile(t)
  <2> DEFINE bytes == files[q.path].bytes
  <2>1. q.path \in Paths
    BY <1>8, <1>w DEF MeasureFile, At, Work
  <2>2. bytes \in Bytes \cup {0}
    BY <1>a, <2>1 DEF Typed, File
  <2>3. \/ tasks' = [tasks EXCEPT ![t].pc = "catch", ![t].error = "empty", ![t].bytes = bytes]
        \/ Go(t, "complete")
        \/ Catch(t, "failed")
    BY <1>8 DEF MeasureFile, Go
  <2> HIDE DEF bytes
  <2>4. tasks' \in [Tasks -> TaskType]
    <3>1. CASE tasks' = [tasks EXCEPT ![t].pc = "catch", ![t].error = "empty", ![t].bytes = bytes]
      <4>1. "empty" \in Errors /\ "catch" \in Pcs
        BY <1>c
      <4>2. [tasks EXCEPT ![t].pc = "catch", ![t].error = "empty", ![t].bytes = bytes]
              \in [Tasks -> TaskType]
        BY <1>b, <2>2, <4>1, TaskSizeSet, Zenon
      <4> QED
        BY <3>1, <4>2
    <3> QED
      BY <1>c, <1>d, <2>3, <3>1
  <2>5. faults' \in 0..MaxFaults
    BY <1>8, <1>f DEF MeasureFile
  <2> QED
    BY <1>8, <1>a, <2>4, <2>5 DEF MeasureFile, Requested, Typed
<1>9. CASE CompleteBackup(t)
  <2>1. tasks' \in [Tasks -> TaskType]
    BY <1>9, <1>c, <1>d DEF CompleteBackup
  <2>2. rows' \in [RowIds -> Backup \cup {None}]
    <3>1. \/ UNCHANGED rows
          \/ rows[q.row] # None /\ rows' = [rows EXCEPT ![q.row].status = "COMPLETED"]
      BY <1>9 DEF CompleteBackup
    <3>2. q.row \in RowIds
      BY <1>9, <1>r, <1>x DEF CompleteBackup, At
    <3>3. rows[q.row] # None => [rows[q.row] EXCEPT !.status = "COMPLETED"] \in Backup
      BY <1>a, <3>2 DEF Typed, Backup
    <3> QED
      BY <1>a, <3>1, <3>2, <3>3 DEF Typed
  <2> QED
    BY <1>9, <1>a, <2>1, <2>2 DEF CompleteBackup, Requested, Typed
<1>10. CASE Report(t)
  <2>1. tasks' \in [Tasks -> TaskType] /\ faults' \in 0..MaxFaults
    BY <1>10, <1>c, <1>d, <1>f DEF Report
  <2> QED
    BY <1>10, <1>a, <2>1 DEF Report, Requested, Typed
<1> QED
  BY <1>1, <1>2, <1>3, <1>4, <1>5, <1>6, <1>7, <1>8, <1>9, <1>10

\* The ends of a backup's work, and the panel's.
LEMMA EndTyped ==
  ASSUME TypeOK, Formed, WorkHasRow,
         (\E t \in Tasks : FailBackup(t) \/ Regret(t)) \/ PanelRestarts
  PROVE  Typed'
<1>a. Typed
  BY TypedOK
<1>b. \A how \in Deaths : Ends(how) =>
         killed' \in Deaths /\ tasks' \in [Tasks -> TaskType] /\ busy' \in Tasks \cup {None}
  BY NoTaskType DEF Ends
<1>c. Abandoned \subseteq Paths \X RowIds
  BY Facts DEF Abandoned, At, Formed, WorkHasRow, Work
<1>d. orphans' \in {orphans, orphans \cup Abandoned} => orphans' \subseteq Paths \X RowIds
  BY <1>a, <1>c DEF Typed
<1>e. {"restart", "rejection", "database"} \subseteq Deaths
  BY DEF Deaths
<1>f. (Fault \/ UNCHANGED faults) => faults' \in 0..MaxFaults
  BY <1>a, FaultCounted
<1>1. ASSUME NEW t \in Tasks, FailBackup(t) PROVE Typed'
  <2>1. CASE Throws(t)
    <3>1. /\ Ends("rejection") /\ orphans' \in {orphans, orphans \cup Abandoned} /\ UNCHANGED rows
          /\ UNCHANGED <<Requested, files, objects, faults, retried, unstarted, removed>>
      BY <1>1, <2>1 DEF FailBackup
    <3>2. /\ killed' \in Deaths /\ tasks' \in [Tasks -> TaskType] /\ busy' \in Tasks \cup {None}
          /\ orphans' \subseteq Paths \X RowIds
      BY <1>b, <1>d, <1>e, <3>1
    <3> QED
      BY <1>a, <3>1, <3>2 DEF Requested, Typed
  <2>2. CASE ~Throws(t)
    <3>1. /\ Go(t, "regret") /\ rows' = [rows EXCEPT ![tasks[t].row].status = "FAILED"]
          /\ UNCHANGED <<busy, orphans, killed>>
          /\ UNCHANGED <<Requested, files, objects, faults, retried, unstarted, removed>>
      BY <1>1, <2>2 DEF FailBackup, FailedRow
    <3>2. tasks' \in [Tasks -> TaskType]
      BY <3>1, GoTask DEF Pcs
    <3>3. tasks[t].row \in RowIds /\ rows[tasks[t].row] # None
      BY <1>1, <2>2, Facts DEF FailBackup, At, Work, WorkHasRow, Throws
    <3>4. [rows[tasks[t].row] EXCEPT !.status = "FAILED"] \in Backup
      BY <1>a, <3>3 DEF Typed, Backup
    <3>5. rows' \in [RowIds -> Backup \cup {None}]
      BY <1>a, <3>1, <3>4 DEF Typed
    <3> QED
      BY <1>a, <3>1, <3>2, <3>5 DEF Requested, Typed
  <2> QED
    BY <2>1, <2>2
<1>2. ASSUME NEW t \in Tasks, Regret(t) PROVE Typed'
  <2>1. CASE Done(t) /\ UNCHANGED <<faults, busy, orphans, killed>>
    BY <1>2, <1>a, <2>1, DoneTask DEF Regret, Requested, Typed
  <2>2. CASE Fault /\ Ends("database") /\ orphans' \in {orphans, orphans \cup Abandoned}
    <3>1. /\ killed' \in Deaths /\ tasks' \in [Tasks -> TaskType] /\ busy' \in Tasks \cup {None}
          /\ orphans' \subseteq Paths \X RowIds /\ faults' \in 0..MaxFaults
      BY <1>b, <1>d, <1>e, <1>f, <2>2
    <3> QED
      BY <1>2, <1>a, <3>1 DEF Regret, Requested, Typed
  <2> QED
    BY <1>2, <2>1, <2>2 DEF Regret
<1>3. CASE PanelRestarts
  <2>1. /\ killed' \in Deaths /\ tasks' \in [Tasks -> TaskType] /\ busy' \in Tasks \cup {None}
        /\ orphans' \subseteq Paths \X RowIds /\ faults' \in 0..MaxFaults
    BY <1>3, <1>b, <1>d, <1>e, <1>f DEF PanelRestarts
  <2> QED
    BY <1>3, <1>a, <2>1 DEF PanelRestarts, Requested, Typed
<1> QED
  BY <1>1, <1>2, <1>3

\* The other requests, and what happens without one.
LEMMA OtherTyped ==
  ASSUME TypeOK, Formed, WorkHasRow,
         \/ \E t \in Tasks : \/ Arrives(t)
                             \/ Restore(t) \/ RemoveFile(t) \/ EraseRow(t) \/ DeleteServer(t)
         \/ \E o \in orphans : OrphanEnds(o)
         \/ \E bucket \in Buckets, enabled \in BOOLEAN : SaveDestination(bucket, enabled)
         \/ DeleteDestination
  PROVE  Typed'
<1>a. Typed
  BY TypedOK
<1>b. \A t \in Tasks : Done(t) => tasks' \in [Tasks -> TaskType]
  BY DoneTask
<1>f. (Fault \/ UNCHANGED faults) => faults' \in 0..MaxFaults
  BY <1>a, FaultCounted
<1>n. /\ NoTask \in TaskType /\ {"create", "restore", "rm", "drop", "erase", "redump", "catch"} \subseteq Pcs
      /\ "failed" \in Errors
  BY NoTaskType DEF Pcs, Errors
<1>1. ASSUME NEW t \in Tasks, NEW p \in Paths, NEW kind \in Kinds, NEW upload \in BOOLEAN,
             BeginBackup(t, p, kind, upload) PROVE Typed'
  <2> DEFINE bucket == IF upload THEN destination.bucket ELSE None
             task == [NoTask EXCEPT !.pc = "create", !.path = p, !.kind = kind, !.bucket = bucket]
  <2>1. Begin(t, task) /\ (upload => Accepted(destination))
    BY <1>1 DEF BeginBackup
  <2>2. bucket \in Buckets \cup {None}
    BY <1>a, <2>1 DEF Typed, DestinationType, Accepted
  <2>3. task \in TaskType
    BY <1>n, <2>2 DEF TaskType
  <2> QED
    BY <1>a, <2>1, <2>3, AdmitTyped
<1>2. ASSUME NEW t \in Tasks, NEW i \in Rows, BeginRestore(t, i) \/ BeginDelete(t, i) PROVE Typed'
  <2>1. i \in RowIds /\ rows[i] \in Backup /\ i \in 0..MaxRow
    BY <1>a, BackupsAssumption DEF Rows, Typed, RowIds
  <2>2. \A pc \in Pcs : OnBackup(pc, i) \in TaskType
    BY <1>n, <2>1 DEF OnBackup, TaskType, Backup
  <2> QED
    BY <1>2, <1>a, <1>n, <2>2, AdmitTyped DEF BeginRestore, BeginDelete
<1>3. ASSUME NEW t \in Tasks, BeginServerDelete(t) PROVE Typed'
  <2>1. begun' \in 0..MaxBegun /\ overlapped' \in BOOLEAN
    BY <1>3, <1>a, BackupsAssumption DEF Typed, BeginServerDelete, Admit
  <2>2. Dropping \in TaskType
    BY <1>n DEF Dropping, TaskType
  <2>3. /\ tasks' \in [Tasks -> TaskType] /\ orphans' \subseteq Paths \X RowIds
        /\ busy' \in Tasks \cup {None} /\ retried' \subseteq RowIds
    <3>1. CASE tasks' = [tasks EXCEPT ![t] = Dropping] /\ UNCHANGED <<orphans, retried, busy>>
      BY <1>a, <2>2, <3>1 DEF Typed
    <3>2. ASSUME NEW u \in Tasks, At(u, "dumping"), NEW next \in AfterLoss(tasks[u]),
                 Interrupted(tasks[u], next), tasks' = [tasks EXCEPT ![t] = Dropping, ![u] = next]
          PROVE  /\ tasks' \in [Tasks -> TaskType] /\ orphans' \subseteq Paths \X RowIds
                 /\ busy' \in Tasks \cup {None} /\ retried' \subseteq RowIds
      <4>1. tasks[u] \in TaskType
        BY <1>a DEF Typed
      <4>2. next \in TaskType
        BY <1>n, <3>2, <4>1 DEF AfterLoss, TaskType
      <4>3. tasks[u].path \in Paths /\ tasks[u].row \in RowIds
        BY <3>2, Facts DEF At, Work, Formed, WorkHasRow
      <4> QED
        BY <1>a, <2>2, <3>2, <4>2, <4>3 DEF Typed, Interrupted
    <3> QED
      BY <1>3, <3>1, <3>2 DEF BeginServerDelete
  <2> QED
    BY <1>3, <1>a, <2>1, <2>3 DEF BeginServerDelete, Typed
<1>4. ASSUME NEW t \in Tasks, Restore(t) PROVE Typed'
  <2>1. tasks[t] \in TaskType
    BY <1>a DEF Typed
  <2>2. restored' \in RestoredType
    <3>1. tasks[t].path \in Paths
      BY <1>4 DEF Restore, At, Formed
    <3>2. files[tasks[t].path] \in File
      BY <1>a, <3>1 DEF Typed
    <3> QED
      BY <1>4, <1>a, <2>1, <3>2 DEF Restore, Typed, RestoredType, TaskType
  <2>3. tasks' \in [Tasks -> TaskType] /\ faults' \in 0..MaxFaults
    BY <1>4, <1>b, <1>f DEF Restore
  <2> QED
    BY <1>4, <1>a, <2>2, <2>3 DEF Restore, Typed
<1>5. ASSUME NEW t \in Tasks, RemoveFile(t) PROVE Typed'
  <2>1. tasks[t].row \in RowIds
    BY <1>5 DEF RemoveFile, At, Formed
  <2>2. tasks' \in [Tasks -> TaskType] /\ faults' \in 0..MaxFaults
    BY <1>5, <1>f, <1>n, GoTask DEF RemoveFile
  <2>3. files' \in [Paths -> File]
    BY <1>5, <1>a, NoTaskType DEF RemoveFile, Emptied, Typed
  <2> QED
    BY <1>5, <1>a, <2>1, <2>2, <2>3 DEF RemoveFile, Requested, Typed
<1>6. ASSUME NEW t \in Tasks, EraseRow(t) PROVE Typed'
  <2>1. rows' \in [RowIds -> Backup \cup {None}]
    BY <1>6, <1>a DEF EraseRow, Typed
  <2>2. tasks' \in [Tasks -> TaskType]
    BY <1>6, <1>b DEF EraseRow
  <2> QED
    BY <1>6, <1>a, <2>1, <2>2 DEF EraseRow, Requested, Typed
<1>7. ASSUME NEW t \in Tasks, DeleteServer(t) PROVE Typed'
  <2>1. tasks' \in [Tasks -> TaskType] /\ rows' \in [RowIds -> Backup \cup {None}]
    BY <1>7, <1>b DEF DeleteServer
  <2>2. server' \in BOOLEAN /\ destination' \in DestinationType
    BY <1>7 DEF DeleteServer, DestinationType
  <2> QED
    BY <1>7, <1>a, <2>1, <2>2 DEF DeleteServer, Typed
<1>8. ASSUME NEW o \in orphans, OrphanEnds(o) PROVE Typed'
  <2> DEFINE p == o[1]
  <2>1. p \in Paths /\ o[2] \in RowIds /\ o[2] \in 0..MaxRow
    BY <1>a, BackupsAssumption DEF Typed, RowIds
  <2>2. orphans' \subseteq Paths \X RowIds
    BY <1>8, <1>a DEF OrphanEnds, Typed
  <2>3. \/ UNCHANGED files
        \/ \E bytes \in Bytes : files' = [files EXCEPT ![p] = [of |-> o[2], state |-> "whole", bytes |-> bytes]]
        \/ files' = [files EXCEPT ![p] = [@ EXCEPT !.state = "mixed"]]
    BY <1>8 DEF OrphanEnds
  <2>4. files[p] \in File
    BY <1>a, <2>1 DEF Typed
  <2>5. /\ [files[p] EXCEPT !.state = "mixed"] \in File
        /\ \A bytes \in Bytes : [of |-> o[2], state |-> "whole", bytes |-> bytes] \in File
    BY <2>1, <2>4 DEF File
  <2> HIDE DEF p
  <2>6. files' \in [Paths -> File]
    BY <1>a, <2>3, <2>5 DEF Typed
  <2> QED
    BY <1>8, <1>a, <2>2, <2>6 DEF OrphanEnds, Requested, Typed
<1>9. ASSUME NEW d \in DestinationType, EditDestination(d) PROVE Typed'
  <2>1. edits' \in 0..MaxEdits
    BY <1>9, <1>a, BackupsAssumption DEF EditDestination, Typed
  <2> QED
    BY <1>9, <1>a, <2>1 DEF EditDestination, Typed
<1>10. ASSUME NEW bucket \in Buckets, NEW enabled \in BOOLEAN, SaveDestination(bucket, enabled) PROVE Typed'
  BY <1>9, <1>10 DEF SaveDestination, DestinationType
<1>11. CASE DeleteDestination
  BY <1>9, <1>11 DEF DeleteDestination, DestinationType
<1> QED
  BY <1>1, <1>2, <1>3, <1>4, <1>5, <1>6, <1>7, <1>8, <1>10, <1>11 DEF Arrives

LEMMA TypeInductive == Inv /\ [Next]_vars => TypeOK'
<1> SUFFICES ASSUME Inv, [Next]_vars PROVE Typed'
  BY TypedOK
<1>1. CASE Next
  BY <1>1, WorkTyped, EndTyped, OtherTyped DEF Inv, Next, Step
<1>2. CASE UNCHANGED vars
  BY <1>2, TypedOK DEF Inv, vars, Typed
<1> QED
  BY <1>1, <1>2

-----------------------------------------------------------------------------
(* Steps that leave the rows, and the panel, alone *)

\* A task stays idle, keeps what it is about, and is at the work of a backup only if it
\* was; it leaves that only with a notification that failed.
TasksKept ==
    \A t \in Tasks :
        /\ tasks'[t].pc # "idle" => tasks[t].pc # "idle"
        /\ tasks'[t].pc \in Work => tasks[t].pc \in Work \cup {"report"}
        /\ tasks'[t].pc \in {"report", "create", "restore", "rm"} => tasks'[t].pc = tasks[t].pc
        /\ tasks'[t].pc # "idle" => /\ tasks'[t].row = tasks[t].row
                                    /\ tasks'[t].path = tasks[t].path
                                    /\ tasks'[t].kind = tasks[t].kind
        /\ tasks[t].pc \in Work =>
              /\ tasks'[t].pc \in Work \/ tasks[t].row \in unstarted'
              /\ tasks'[t].row = tasks[t].row \/ tasks[t].row \in unstarted'

LEMMA KeptInvariant ==
  ASSUME Inv, TypeOK', TasksKept,
         UNCHANGED <<rows, created, overlapped, killed>>, unstarted \subseteq unstarted'
  PROVE  Inv'
<1>1. "idle" \notin Work
  BY DEF Work
<1>2. Formed'
  BY <1>1 DEF Inv, Formed, TasksKept
<1>3. WorkHasRow'
  BY <1>1 DEF Inv, WorkHasRow, TasksKept
<1>4. Alone'
  BY DEF Inv, Alone, InProgress, TasksKept
<1>5. StillWorkedOn'
  <2> SUFFICES ASSUME NEW i \in Rows, rows[i].status = "RUNNING", killed = None, i \notin unstarted'
               PROVE  \E t \in Tasks : tasks'[t].row = i /\ tasks'[t].pc \in Work
    BY DEF StillWorkedOn, Rows
  <2>1. PICK t \in Tasks : tasks[t].row = i /\ tasks[t].pc \in Work
    BY DEF Inv, StillWorkedOn
  <2> QED
    BY <2>1 DEF TasksKept
<1>6. SurvivesServer'
  BY DEF Inv, SurvivesServer
<1> QED
  BY <1>2, <1>3, <1>4, <1>5, <1>6 DEF Inv

\* A task that goes on, within the work of a backup or after it.
LEMMA OneTaskKept ==
  ASSUME NEW t \in Tasks, \A u \in Tasks \ {t} : tasks'[u] = tasks[u],
         \/ /\ tasks[t].pc \in Work \/ (tasks[t].pc = "report" /\ tasks'[t].pc = "catch")
            /\ tasks'[t].pc \in Work
            /\ tasks'[t].row = tasks[t].row
            /\ tasks'[t].path = tasks[t].path
            /\ tasks'[t].kind = tasks[t].kind
         \/ /\ tasks[t].pc \notin Work \/ tasks[t].row \in unstarted'
            /\ tasks'[t].pc = "idle"
  PROVE  TasksKept
BY DEF TasksKept, Work

\* The steps that only move a task.
LEMMA MovesInvariant ==
  ASSUME Inv, TypeOK', NEW t \in Tasks,
         \/ Announce(t) \/ StartDump(t) \/ EndDump(t) \/ LoseConnection(t) \/ FetchFile(t)
         \/ PutObject(t) \/ MeasureFile(t) \/ Report(t) \/ Restore(t) \/ RemoveFile(t)
  PROVE  Inv'
<1>a. TypeOK
  BY DEF Inv
<1>p. {"announce", "dump", "dumping", "redump", "fetch", "put", "size", "complete", "catch", "erase"}
        \subseteq Pcs /\ "failed" \in Errors
  BY DEF Pcs, Errors
<1>w. {"announce", "dump", "dumping", "redump", "fetch", "put", "size", "complete", "catch"} \subseteq Work
  BY DEF Work
<1>g. ASSUME NEW pc \in Pcs \cap Work, Go(t, pc), tasks[t].pc \in Work PROVE TasksKept
  BY <1>a, <1>g, GoTask, OneTaskKept
<1>c. ASSUME NEW e \in Errors, Catch(t, e), tasks[t].pc \in Work \cup {"report"} PROVE TasksKept
  BY <1>a, <1>c, <1>w, CatchTask, OneTaskKept
<1>d. ASSUME Done(t), tasks[t].pc \notin Work \/ tasks[t].row \in unstarted' PROVE TasksKept
  BY <1>a, <1>d, DoneTask, OneTaskKept
<1>k. TasksKept /\ UNCHANGED <<rows, created, overlapped, killed>> /\ unstarted \subseteq unstarted'
  <2>1. CASE Announce(t)
    <3>1. TasksKept
      BY <2>1, <1>g, <1>d, <1>p, <1>w DEF Announce, At
    <3> QED
      BY <2>1, <3>1 DEF Announce, Requested
  <2>2. CASE StartDump(t)
    <3>1. TasksKept
      BY <2>2, <1>g, <1>c, <1>p, <1>w DEF StartDump, At, Go
    <3> QED
      BY <2>2, <3>1 DEF StartDump, Requested
  <2>3. CASE EndDump(t)
    <3>1. TasksKept
      BY <2>3, <1>g, <1>c, <1>p, <1>w DEF EndDump, At
    <3> QED
      BY <2>3, <3>1 DEF EndDump, Requested
  <2>4. CASE LoseConnection(t)
    <3>1. PICK next \in AfterLoss(tasks[t]) : tasks' = [tasks EXCEPT ![t] = next]
      BY <2>4 DEF LoseConnection
    <3>2. tasks[t] \in TaskType /\ tasks \in [Tasks -> TaskType]
      BY <1>a, Facts
    <3>3. /\ next.pc \in {"catch", "redump"} /\ next.row = tasks[t].row
          /\ next.path = tasks[t].path /\ next.kind = tasks[t].kind
      BY <3>1, <3>2 DEF AfterLoss, TaskType
    <3>4. tasks'[t] = next /\ \A u \in Tasks \ {t} : tasks'[u] = tasks[u]
      BY <3>1, <3>2
    <3>5. tasks[t].pc \in Work /\ tasks'[t].pc \in Work
      BY <2>4, <1>w, <3>3, <3>4 DEF LoseConnection, At
    <3>6. TasksKept
      BY <3>3, <3>4, <3>5, OneTaskKept
    <3> QED
      BY <2>4, <3>6 DEF LoseConnection, Requested
  <2>5. CASE FetchFile(t)
    <3>1. CASE tasks' = [tasks EXCEPT ![t].pc = "put", ![t].body = files[tasks[t].path]]
      <4>1. tasks \in [Tasks -> TaskType]
        BY <1>a, Facts
      <4>2. /\ \A u \in Tasks \ {t} : tasks'[u] = tasks[u]
            /\ tasks'[t].pc = "put" /\ tasks'[t].row = tasks[t].row
            /\ tasks'[t].path = tasks[t].path /\ tasks'[t].kind = tasks[t].kind
        BY <3>1, <4>1 DEF TaskType
      <4>3. tasks[t].pc \in Work /\ tasks'[t].pc \in Work
        BY <2>5, <1>w, <4>2 DEF FetchFile, At
      <4>4. TasksKept
        BY <4>2, <4>3, OneTaskKept
      <4> QED
        BY <2>5, <4>4 DEF FetchFile, Requested
    <3>2. CASE Catch(t, "failed")
      <4>1. TasksKept
        BY <2>5, <1>c, <1>p, <1>w, <3>2 DEF FetchFile, At
      <4> QED
        BY <2>5, <4>1 DEF FetchFile, Requested
    <3> QED
      BY <2>5, <3>1, <3>2 DEF FetchFile
  <2>6. CASE PutObject(t)
    <3>1. TasksKept
      BY <2>6, <1>g, <1>c, <1>p, <1>w DEF PutObject, At
    <3> QED
      BY <2>6, <3>1 DEF PutObject, Requested
  <2>7. CASE MeasureFile(t)
    <3> DEFINE bytes == files[tasks[t].path].bytes
    <3>1. CASE tasks' = [tasks EXCEPT ![t].pc = "catch", ![t].error = "empty", ![t].bytes = bytes]
      <4>1. tasks \in [Tasks -> TaskType]
        BY <1>a, Facts
      <4>2. /\ \A u \in Tasks \ {t} : tasks'[u] = tasks[u]
            /\ tasks'[t].pc = "catch" /\ tasks'[t].row = tasks[t].row
            /\ tasks'[t].path = tasks[t].path /\ tasks'[t].kind = tasks[t].kind
        BY <3>1, <4>1 DEF TaskType
      <4>3. tasks[t].pc \in Work /\ tasks'[t].pc \in Work
        BY <2>7, <1>w, <4>2 DEF MeasureFile, At
      <4>4. TasksKept
        BY <4>2, <4>3, OneTaskKept
      <4> QED
        BY <2>7, <4>4 DEF MeasureFile, Requested
    <3>2. CASE Go(t, "complete") \/ Catch(t, "failed")
      <4>1. TasksKept
        BY <2>7, <1>g, <1>c, <1>p, <1>w, <3>2 DEF MeasureFile, At
      <4> QED
        BY <2>7, <4>1 DEF MeasureFile, Requested
    <3> QED
      BY <2>7, <3>1, <3>2 DEF MeasureFile, Go
  <2>8. CASE Report(t)
    <3>1. "report" \notin Work
      BY DEF Work
    <3>2. TasksKept
      BY <2>8, <1>c, <1>d, <1>p, <3>1 DEF Report, At
    <3> QED
      BY <2>8, <3>2 DEF Report, Requested
  <2>9. CASE Restore(t)
    <3>1. "restore" \notin Work
      BY DEF Work
    <3>2. TasksKept
      BY <2>9, <1>d, <3>1 DEF Restore, At
    <3> QED
      BY <2>9, <3>2 DEF Restore
  <2>10. CASE RemoveFile(t)
    <3>1. /\ tasks[t].pc = "rm" /\ tasks'[t].pc = "erase"
          /\ tasks'[t].row = tasks[t].row /\ tasks'[t].path = tasks[t].path
          /\ tasks'[t].kind = tasks[t].kind
          /\ \A u \in Tasks \ {t} : tasks'[u] = tasks[u]
      BY <2>10, <1>a, <1>p, GoTask DEF RemoveFile, At
    <3>2. TasksKept
      BY <3>1 DEF TasksKept, Work
    <3> QED
      BY <2>10, <3>2 DEF RemoveFile, Requested
  <2> QED
    BY <2>1, <2>2, <2>3, <2>4, <2>5, <2>6, <2>7, <2>8, <2>9, <2>10
<1> QED
  BY <1>k, KeptInvariant

-----------------------------------------------------------------------------
(* The steps that change rows, or begin or end something *)

\* One idle task begins; the work of another may be interrupted, and goes on.
BeganOne(t) ==
    /\ tasks[t].pc = "idle" /\ tasks'[t].pc \in {"create", "restore", "rm", "drop"}
    /\ tasks'[t].pc \in {"create", "restore"} => tasks'[t].path \in Paths /\ tasks'[t].kind \in Kinds
    /\ tasks'[t].pc = "rm" => tasks'[t].row \in RowIds
    /\ \A u \in Tasks \ {t} :
          \/ tasks'[u] = tasks[u]
          \/ /\ tasks[u].pc \in Work /\ tasks'[u].pc \in Work
             /\ tasks'[u].row = tasks[u].row
             /\ tasks'[u].path = tasks[u].path /\ tasks'[u].kind = tasks[u].kind

\* A request begins: it is no work of a backup yet.
LEMMA BeginInvariant ==
  ASSUME Inv, TypeOK', NEW t \in Tasks, Arrives(t) PROVE Inv'
<1>a. tasks \in [Tasks -> TaskType] /\ TypeOK
  BY Facts DEF Inv
<1>b. ~InProgress(t) /\ overlapped' = (overlapped \/ \E u \in Tasks : InProgress(u))
  BY DEF Arrives, BeginBackup, BeginRestore, BeginDelete, BeginServerDelete, Begin, Admit
<1>c. UNCHANGED <<rows, created, killed, unstarted>>
  BY DEF Arrives, BeginBackup, BeginRestore, BeginDelete, BeginServerDelete, Begin
<1>d. BeganOne(t)
  <2>1. tasks[t].pc = "idle"
    BY <1>b DEF InProgress
  <2>2. ASSUME NEW p \in Paths, NEW kind \in Kinds, NEW upload \in BOOLEAN,
               BeginBackup(t, p, kind, upload)
        PROVE  /\ tasks'[t].pc = "create" /\ tasks'[t].path = p /\ tasks'[t].kind = kind
               /\ \A u \in Tasks \ {t} : tasks'[u] = tasks[u]
    BY <1>a, <2>2 DEF BeginBackup, Begin, NoTask
  <2>3. ASSUME NEW i \in Rows, BeginRestore(t, i) \/ BeginDelete(t, i)
        PROVE  /\ tasks'[t].pc \in {"restore", "rm"} /\ tasks'[t].row \in RowIds
               /\ tasks'[t].path \in Paths /\ tasks'[t].kind \in Kinds
               /\ \A u \in Tasks \ {t} : tasks'[u] = tasks[u]
    <3>1. i \in RowIds /\ rows[i].path \in Paths /\ rows[i].kind \in Kinds
      BY <1>a, Facts DEF Rows, Backup
    <3>2. PICK pc \in {"restore", "rm"} : tasks' = [tasks EXCEPT ![t] = OnBackup(pc, i)]
      BY <2>3 DEF BeginRestore, BeginDelete, Begin
    <3>3. tasks'[t] = OnBackup(pc, i) /\ \A u \in Tasks \ {t} : tasks'[u] = tasks[u]
      BY <1>a, <3>2
    <3>4. /\ OnBackup(pc, i).pc = pc /\ OnBackup(pc, i).row = i
          /\ OnBackup(pc, i).path = rows[i].path /\ OnBackup(pc, i).kind = rows[i].kind
      BY DEF OnBackup, NoTask
    <3> QED
      BY <3>1, <3>2, <3>3, <3>4
  <2>4. CASE BeginServerDelete(t)
    <3>1. CASE tasks' = [tasks EXCEPT ![t] = Dropping]
      <4>1. tasks'[t].pc = "drop" /\ \A u \in Tasks \ {t} : tasks'[u] = tasks[u]
        BY <1>a, <3>1 DEF Dropping, NoTask
      <4> QED
        BY <2>1, <4>1 DEF BeganOne
    <3>2. ASSUME NEW u \in Tasks, At(u, "dumping"), NEW next \in AfterLoss(tasks[u]),
                 tasks' = [tasks EXCEPT ![t] = Dropping, ![u] = next]
          PROVE  BeganOne(t)
      <4>1. u # t
        BY <2>1, <3>2 DEF At
      <4>2. tasks[u] \in TaskType
        BY <1>a
      <4>3. /\ next.pc \in {"catch", "redump"} /\ next.row = tasks[u].row
            /\ next.path = tasks[u].path /\ next.kind = tasks[u].kind
        BY <3>2, <4>2 DEF AfterLoss, TaskType
      <4>4. /\ tasks'[u] = next /\ tasks'[t].pc = "drop"
            /\ \A v \in Tasks \ {t, u} : tasks'[v] = tasks[v]
        BY <1>a, <3>2, <4>1 DEF Dropping, NoTask
      <4> QED
        BY <2>1, <3>2, <4>3, <4>4 DEF BeganOne, At, Work
    <3> QED
      BY <2>4, <3>1, <3>2 DEF BeginServerDelete
  <2> QED
    BY <2>1, <2>2, <2>3, <2>4 DEF Arrives, BeganOne
<1>e. ~overlapped' => ~overlapped /\ \A u \in Tasks \ {t} : tasks[u].pc = "idle" /\ tasks'[u] = tasks[u]
  BY <1>b, <1>d DEF BeganOne, InProgress, Work
<1>1. Formed'
  BY <1>d DEF BeganOne, Inv, Formed, Work
<1>2. WorkHasRow'
  BY <1>c, <1>d, <1>e DEF BeganOne, Inv, WorkHasRow, Work
<1>3. Alone'
  BY <1>e DEF Alone, InProgress
<1>4. StillWorkedOn'
  BY <1>c, <1>d DEF BeganOne, Inv, StillWorkedOn, Rows, Work
<1>5. SurvivesServer'
  BY <1>b, <1>c DEF Inv, SurvivesServer
<1> QED
  BY <1>1, <1>2, <1>3, <1>4, <1>5 DEF Inv

\* The panel's process ends: nothing is in progress any more.
LEMMA EndsInvariant ==
  ASSUME Inv, TypeOK', tasks' = [u \in Tasks |-> NoTask], killed' # None,
         UNCHANGED <<rows, created, overlapped, unstarted>>,
         killed' = "rejection" => overlapped /\ \E i \in 1..created : rows[i] = None
  PROVE  Inv'
<1>1. \A u \in Tasks : tasks'[u].pc = "idle"
  BY DEF NoTask
<1>2. Formed' /\ WorkHasRow' /\ Alone'
  BY <1>1 DEF Formed, WorkHasRow, Alone, InProgress, Work
<1>3. StillWorkedOn'
  BY DEF StillWorkedOn
<1>4. SurvivesServer'
  BY DEF SurvivesServer
<1> QED
  BY <1>2, <1>3, <1>4 DEF Inv

\* The row of a backup gets its final status.
LEMMA StatusInvariant ==
  ASSUME Inv, TypeOK', NEW t \in Tasks, tasks[t].pc \in Work, rows[tasks[t].row] # None,
         NEW s \in {"COMPLETED", "FAILED"}, rows' = [rows EXCEPT ![tasks[t].row].status = s],
         NEW pc \in {"report", "regret"}, Go(t, pc),
         UNCHANGED <<created, overlapped, unstarted, killed>>
  PROVE  Inv'
<1> DEFINE i == tasks[t].row
<1>a. TypeOK /\ pc \in Pcs
  BY DEF Inv, Pcs
<1>b. i \in 1..created /\ i \in RowIds
  BY <1>a, Facts DEF Inv, WorkHasRow
<1>c. rows[i] \in Backup /\ rows \in [RowIds -> Backup \cup {None}]
  BY <1>a, <1>b, Facts
<1>d. rows'[i] = [rows[i] EXCEPT !.status = s] /\ \A j \in RowIds \ {i} : rows'[j] = rows[j]
  BY <1>b, <1>c
<1>e. [rows[i] EXCEPT !.status = s] \in Backup
  BY <1>c DEF Backup
<1>f. rows'[i] # None
  BY <1>d, <1>e, NoneIsNoBackup
<1>g. rows'[i].status = s
  BY <1>c, <1>d DEF Backup
<1>h. /\ tasks'[t].pc = pc /\ tasks'[t].row = i
      /\ tasks'[t].path = tasks[t].path /\ tasks'[t].kind = tasks[t].kind
      /\ \A u \in Tasks \ {t} : tasks'[u] = tasks[u]
  BY <1>a, GoTask
<1> HIDE DEF i
<1>i. \A u \in Tasks : tasks[u].pc \in Work \cup {"report"} =>
        tasks[u].row \in 1..created /\ tasks[u].row \in RowIds
  BY <1>a, Facts DEF Inv, WorkHasRow
<1>1. Formed'
  BY <1>h DEF Inv, Formed, Work
<1>2. WorkHasRow'
  <2> SUFFICES ASSUME NEW u \in Tasks, tasks'[u].pc \in Work \cup {"report"}
               PROVE  tasks'[u].row \in 1..created /\ (~overlapped => rows'[tasks'[u].row] # None)
    BY DEF WorkHasRow
  <2>1. CASE u = t
    BY <1>b, <1>f, <1>h, <2>1
  <2>2. CASE u # t
    <3>1. tasks'[u] = tasks[u]
      BY <1>h, <2>2
    <3>2. tasks[u].row \in 1..created /\ tasks[u].row \in RowIds
          /\ (~overlapped => rows[tasks[u].row] # None)
      BY <1>i, <3>1 DEF Inv, WorkHasRow
    <3> QED
      BY <1>d, <1>f, <3>1, <3>2
  <2> QED
    BY <2>1, <2>2
<1>3. Alone'
  <2>1. tasks[t].pc # "idle"
    BY DEF Work
  <2> QED
    BY <1>h, <2>1 DEF Inv, Alone, InProgress
<1>4. StillWorkedOn'
  <2> SUFFICES ASSUME NEW j \in RowIds, rows'[j] # None, rows'[j].status = "RUNNING",
                      killed = None, j \notin unstarted
               PROVE  \E u \in Tasks : tasks'[u].row = j /\ tasks'[u].pc \in Work
    BY DEF StillWorkedOn, Rows
  <2>1. j # i /\ rows'[j] = rows[j]
    BY <1>d, <1>g
  <2>2. PICK u \in Tasks : tasks[u].row = j /\ tasks[u].pc \in Work
    BY <2>1 DEF Inv, StillWorkedOn, Rows
  <2>3. u # t
    BY <2>1, <2>2 DEF i
  <2> QED
    BY <1>h, <2>2, <2>3
<1>5. SurvivesServer'
  <2>1. \A j \in 1..created : j \in RowIds
    BY <1>a, Facts
  <2>2. \A j \in RowIds : rows[j] = None => rows'[j] = None
    <3>1. rows[i] # None
      BY DEF i
    <3> QED
      BY <1>d, <3>1
  <2> QED
    BY <2>1, <2>2 DEF Inv, SurvivesServer
<1> QED
  BY <1>1, <1>2, <1>3, <1>4, <1>5 DEF Inv

\* Rows are deleted, by the request that does so.
LEMMA RowsVanishInvariant ==
  ASSUME Inv, TypeOK', NEW t \in Tasks, tasks[t].pc \in {"erase", "drop"}, Done(t),
         \A i \in RowIds : rows'[i] \in {rows[i], None},
         UNCHANGED <<created, overlapped, unstarted, killed>>
  PROVE  Inv'
<1>a. TypeOK
  BY DEF Inv
<1>b. tasks'[t].pc = "idle" /\ \A u \in Tasks \ {t} : tasks'[u] = tasks[u]
  BY <1>a, DoneTask
<1>c. tasks[t].pc \notin Work /\ InProgress(t)
  BY DEF Work, InProgress
<1>1. Formed'
  BY <1>b DEF Inv, Formed, Work
<1>2. WorkHasRow'
  <2> SUFFICES ASSUME NEW u \in Tasks, tasks'[u].pc \in Work \cup {"report"}
               PROVE  tasks'[u].row \in 1..created /\ (~overlapped => rows'[tasks'[u].row] # None)
    BY DEF WorkHasRow
  <2>1. u # t /\ tasks'[u] = tasks[u]
    BY <1>b DEF Work
  <2>2. InProgress(u)
    BY <2>1 DEF Work, InProgress
  <2>3. overlapped
    BY <1>c, <2>1, <2>2 DEF Inv, Alone
  <2> QED
    BY <2>1, <2>3 DEF Inv, WorkHasRow
<1>3. Alone'
  BY <1>b DEF Inv, Alone, InProgress
<1>4. StillWorkedOn'
  <2> SUFFICES ASSUME NEW j \in RowIds, rows'[j] # None, rows'[j].status = "RUNNING",
                      killed = None, j \notin unstarted
               PROVE  \E u \in Tasks : tasks'[u].row = j /\ tasks'[u].pc \in Work
    BY DEF StillWorkedOn, Rows
  <2>1. rows'[j] = rows[j]
    OBVIOUS
  <2>2. PICK u \in Tasks : tasks[u].row = j /\ tasks[u].pc \in Work
    BY <2>1 DEF Inv, StillWorkedOn, Rows
  <2> QED
    BY <1>b, <1>c, <2>2
<1>5. SurvivesServer'
  <2>1. \A j \in 1..created : j \in RowIds
    BY <1>a, Facts
  <2> QED
    BY <2>1 DEF Inv, SurvivesServer
<1> QED
  BY <1>1, <1>2, <1>3, <1>4, <1>5 DEF Inv

\* A backup gets its row.
LEMMA CreateInvariant ==
  ASSUME Inv, TypeOK', NEW t \in Tasks, CreateRow(t)
  PROVE  Inv'
<1>a. TypeOK /\ tasks[t].pc = "create" /\ "create" \notin Work
  BY DEF Inv, CreateRow, At, Work
<1>1. CASE ~server
  <2>1. Done(t) /\ UNCHANGED <<rows, created, overlapped, killed, unstarted>>
    BY <1>1 DEF CreateRow
  <2>2. TasksKept
    BY <1>a, <2>1, DoneTask, OneTaskKept
  <2> QED
    BY <2>1, <2>2, KeptInvariant
<1>2. CASE server
  <2> DEFINE i == created + 1
             row == [path |-> tasks[t].path, kind |-> tasks[t].kind, bucket |-> tasks[t].bucket,
                     status |-> "RUNNING"]
  <2>1. /\ created < MaxRow /\ created' = i /\ rows' = [rows EXCEPT ![i] = row]
        /\ tasks' = [tasks EXCEPT ![t].pc = "announce", ![t].row = i]
        /\ UNCHANGED <<overlapped, killed, unstarted>>
    BY <1>2 DEF CreateRow
  <2>2. /\ tasks \in [Tasks -> TaskType] /\ rows \in [RowIds -> Backup \cup {None}]
        /\ created \in Nat /\ \A j \in 1..created : j \in RowIds
    BY <1>a, Facts
  <2>3. i \in RowIds /\ i \in 1..i /\ \A j \in 1..created : j \in 1..i /\ j # i
    BY <2>1, <2>2, BackupsAssumption DEF RowIds
  <2>4. tasks[t].path \in Paths /\ tasks[t].kind \in Kinds
    BY <1>a DEF Inv, Formed
  <2>5. row \in Backup
    BY <2>2, <2>4 DEF Backup, TaskType
  <2>6. row # None
    BY <2>5, NoneIsNoBackup
  <2>7. /\ tasks'[t].pc = "announce" /\ tasks'[t].row = i
        /\ tasks'[t].path = tasks[t].path /\ tasks'[t].kind = tasks[t].kind
        /\ \A u \in Tasks \ {t} : tasks'[u] = tasks[u]
    BY <2>1, <2>2 DEF TaskType
  <2> HIDE DEF i, row
  <2>8. rows'[i] = row /\ \A j \in RowIds \ {i} : rows'[j] = rows[j]
    BY <2>1, <2>2, <2>3
  <2>9. \A j \in 1..created : j \in RowIds /\ j \in 1..i /\ rows'[j] = rows[j]
    BY <2>2, <2>3, <2>8
  <2>10. Formed'
    BY <2>4, <2>7 DEF Inv, Formed, Work
  <2>11. WorkHasRow'
    <3> SUFFICES ASSUME NEW u \in Tasks, tasks'[u].pc \in Work \cup {"report"}
                 PROVE  tasks'[u].row \in 1..i /\ (~overlapped => rows'[tasks'[u].row] # None)
      BY <2>1 DEF WorkHasRow
    <3>1. CASE u = t
      BY <2>3, <2>6, <2>7, <2>8, <3>1
    <3>2. CASE u # t
      <4>1. tasks'[u] = tasks[u]
        BY <2>7, <3>2
      <4>2. tasks[u].row \in 1..created /\ (~overlapped => rows[tasks[u].row] # None)
        BY <4>1 DEF Inv, WorkHasRow
      <4> QED
        BY <2>9, <4>1, <4>2
    <3> QED
      BY <3>1, <3>2
  <2>12. Alone'
    BY <1>a, <2>1, <2>7 DEF Inv, Alone, InProgress
  <2>13. StillWorkedOn'
    <3> SUFFICES ASSUME NEW j \in RowIds, rows'[j] # None, rows'[j].status = "RUNNING",
                        killed = None, j \notin unstarted
                 PROVE  \E u \in Tasks : tasks'[u].row = j /\ tasks'[u].pc \in Work
      BY <2>1 DEF StillWorkedOn, Rows
    <3>1. CASE j = i
      BY <2>7, <3>1 DEF Work
    <3>2. CASE j # i
      <4>1. rows'[j] = rows[j]
        BY <2>8, <3>2
      <4>2. PICK u \in Tasks : tasks[u].row = j /\ tasks[u].pc \in Work
        BY <4>1 DEF Inv, StillWorkedOn, Rows
      <4> QED
        BY <1>a, <2>7, <4>2
    <3> QED
      BY <3>1, <3>2
  <2>14. SurvivesServer'
    <3> SUFFICES ASSUME killed = "rejection"
                 PROVE  overlapped /\ \E j \in 1..i : rows'[j] = None
      BY <2>1 DEF SurvivesServer
    <3>1. overlapped /\ \E j \in 1..created : rows[j] = None
      BY DEF Inv, SurvivesServer
    <3> QED
      BY <2>9, <3>1
  <2> QED
    BY <2>10, <2>11, <2>12, <2>13, <2>14 DEF Inv
<1> QED
  BY <1>1, <1>2

-----------------------------------------------------------------------------
(* The invariant *)

LEMMA InitInvariant == Init => Inv
<1> SUFFICES ASSUME Init PROVE Inv
  OBVIOUS
<1>1. \A t \in Tasks : tasks[t].pc = "idle"
  BY DEF Init, NoTask
<1>2. TypeOK
  <2>1. destination \in DestinationType
    BY DEF Init, DestinationType
  <2>2. restored \in RestoredType
    BY NoTaskType DEF Init, RestoredType
  <2>3. files \in [Paths -> File] /\ objects \in [Buckets -> [Paths -> File]]
    BY NoTaskType DEF Init
  <2>4. tasks \in [Tasks -> TaskType]
    BY NoTaskType DEF Init
  <2>5. /\ created \in 0..MaxRow /\ begun \in 0..MaxBegun
        /\ edits \in 0..MaxEdits /\ faults \in 0..MaxFaults
    BY BackupsAssumption DEF Init
  <2>6. rows \in [RowIds -> Backup \cup {None}] /\ pathOf \in [RowIds -> Paths \cup {None}]
    BY DEF Init
  <2>7. /\ orphans \subseteq Paths \X RowIds
        /\ retried \subseteq RowIds /\ unstarted \subseteq RowIds /\ removed \subseteq RowIds
    BY DEF Init
  <2>8. server \in BOOLEAN /\ overlapped \in BOOLEAN /\ killed \in Deaths /\ busy \in Tasks \cup {None}
    BY DEF Init, Deaths
  <2> QED
    BY <2>1, <2>2, <2>3, <2>4, <2>5, <2>6, <2>7, <2>8, TypedOK DEF Typed
<1>3. Formed /\ WorkHasRow /\ Alone
  BY <1>1 DEF Formed, WorkHasRow, Alone, InProgress, Work
<1>4. StillWorkedOn
  BY DEF Init, StillWorkedOn, Rows
<1>5. SurvivesServer
  BY BackupsAssumption DEF Init, SurvivesServer
<1> QED
  BY <1>2, <1>3, <1>4, <1>5 DEF Inv

LEMMA NextInvariant == Inv /\ [Next]_vars => Inv'
<1> SUFFICES ASSUME Inv, [Next]_vars PROVE Inv'
  OBVIOUS
<1>a. TypeOK /\ TypeOK' /\ None \notin {"restart", "rejection", "database"}
  BY TypeInductive, BackupsAssumption DEF Inv
<1>b. "complete" \in Work /\ "catch" \in Work /\ "regret" \notin Work
  BY DEF Work
<1>1. ASSUME NEW t \in Tasks, Arrives(t) PROVE Inv'
  BY <1>1, <1>a, BeginInvariant
<1>2. ASSUME NEW t \in Tasks, Step(t) PROVE Inv'
  <2>1. CASE CreateRow(t)
    BY <1>a, <2>1, CreateInvariant
  <2>2. CASE \/ Announce(t) \/ StartDump(t) \/ EndDump(t) \/ LoseConnection(t) \/ FetchFile(t)
             \/ PutObject(t) \/ MeasureFile(t) \/ Report(t) \/ Restore(t) \/ RemoveFile(t)
    BY <1>a, <2>2, MovesInvariant
  <2>3. CASE CompleteBackup(t)
    <3>1. tasks[t].pc \in Work /\ UNCHANGED <<created, overlapped, unstarted, killed>>
      BY <1>b, <2>3 DEF CompleteBackup, At, Requested
    <3>2. CASE rows[tasks[t].row] = None
      <4>1. Catch(t, "failed") /\ UNCHANGED rows
        BY <2>3, <3>2 DEF CompleteBackup
      <4>2. "failed" \in Errors
        BY DEF Errors
      <4>3. TasksKept
        BY <1>a, <1>b, <3>1, <4>1, <4>2, CatchTask, OneTaskKept
      <4> QED
        BY <1>a, <3>1, <4>1, <4>3, KeptInvariant
    <3>3. CASE rows[tasks[t].row] # None
      BY <1>a, <2>3, <3>1, <3>3, StatusInvariant DEF CompleteBackup
    <3> QED
      BY <3>2, <3>3
  <2>4. CASE FailBackup(t)
    <3>1. tasks[t].pc \in Work /\ UNCHANGED <<created, overlapped, unstarted>>
      BY <1>b, <2>4 DEF FailBackup, At, Requested
    <3>2. CASE Throws(t)
      <4>1. /\ tasks' = [u \in Tasks |-> NoTask] /\ killed' = "rejection" /\ UNCHANGED rows
        BY <2>4, <3>2 DEF FailBackup, Ends
      <4>2. overlapped /\ tasks[t].row \in 1..created /\ rows[tasks[t].row] = None
        BY <3>1, <3>2 DEF Inv, WorkHasRow, Throws
      <4> QED
        BY <1>a, <3>1, <4>1, <4>2, EndsInvariant
    <3>3. CASE ~Throws(t)
      BY <1>a, <2>4, <3>1, <3>3, StatusInvariant DEF FailBackup, FailedRow, Throws
    <3> QED
      BY <3>2, <3>3
  <2>5. CASE Regret(t)
    <3>1. tasks[t].pc \notin Work /\ UNCHANGED <<rows, created, overlapped, unstarted>>
      BY <1>b, <2>5 DEF Regret, At, Requested
    <3>2. CASE Done(t) /\ UNCHANGED killed
      <4>1. TasksKept
        BY <1>a, <3>1, <3>2, DoneTask, OneTaskKept
      <4> QED
        BY <1>a, <3>1, <3>2, <4>1, KeptInvariant
    <3>3. CASE Ends("database")
      <4>1. tasks' = [u \in Tasks |-> NoTask] /\ killed' = "database"
        BY <3>3 DEF Ends
      <4> QED
        BY <1>a, <3>1, <4>1, EndsInvariant
    <3> QED
      BY <2>5, <3>2, <3>3 DEF Regret
  <2>6. CASE EraseRow(t)
    <3>1. \A i \in RowIds : rows'[i] \in {rows[i], None}
      BY <1>a, <2>6, Facts DEF EraseRow
    <3> QED
      BY <1>a, <2>6, <3>1, RowsVanishInvariant DEF EraseRow, At, Requested
  <2>7. CASE DeleteServer(t)
    <3>1. \A i \in RowIds : rows'[i] \in {rows[i], None}
      BY <2>7 DEF DeleteServer
    <3> QED
      BY <1>a, <2>7, <3>1, RowsVanishInvariant DEF DeleteServer, At
  <2> QED
    BY <1>2, <2>1, <2>2, <2>3, <2>4, <2>5, <2>6, <2>7 DEF Step
<1>3. ASSUME UNCHANGED <<tasks, rows, created, overlapped, killed, unstarted>> PROVE Inv'
  <2>1. TasksKept
    BY <1>3 DEF TasksKept
  <2> QED
    BY <1>3, <1>a, <2>1, KeptInvariant
<1>4. ASSUME NEW o \in orphans, OrphanEnds(o) PROVE Inv'
  BY <1>3, <1>4 DEF OrphanEnds, Requested
<1>5. ASSUME NEW d, EditDestination(d) PROVE Inv'
  BY <1>3, <1>5 DEF EditDestination
<1>6. ASSUME PanelRestarts PROVE Inv'
  <2>1. /\ tasks' = [u \in Tasks |-> NoTask] /\ killed' = "restart"
        /\ UNCHANGED <<rows, created, overlapped, unstarted>>
    BY <1>6 DEF PanelRestarts, Ends, Requested
  <2> QED
    BY <1>a, <2>1, EndsInvariant
<1>7. CASE UNCHANGED vars
  BY <1>3, <1>7 DEF vars
<1> QED
  BY <1>1, <1>2, <1>4, <1>5, <1>6, <1>7 DEF Next, SaveDestination, DeleteDestination

LEMMA Invariant == Spec => []Inv
<1>1. Init => Inv
  BY InitInvariant
<1>2. Inv /\ [Next]_vars => Inv'
  BY NextInvariant
<1> QED
  BY <1>1, <1>2, PTL DEF Spec

-----------------------------------------------------------------------------
(***************************************************************************)
(* Whose file it is.  A path is written only by the work of a backup that  *)
(* was given it, by what runs on of a dump that lost its connection, and   *)
(* by a DELETE.  If no other backup has the path and the dump was not run  *)
(* again, the first two are one: nothing runs on of the dump until its     *)
(* work has failed.  So the file is written until the dump has ended, and  *)
(* afterwards stays whole until a DELETE removes it.                       *)
(***************************************************************************)
Dumping == {"announce", "dump", "dumping", "redump"}
Uploading == {"fetch", "put", "size", "complete"}
Writers == Dumping \cup Uploading \cup {"report", "catch", "regret"}
OnRow == Writers \cup {"restore", "rm", "erase"}
Clean(i) == ~Shared(i) /\ i \notin retried

\* Rows, tasks, files and what runs on have the path that their backup was given.
RowsNamed ==
    /\ \A i \in RowIds : i \in 1..created <=> pathOf[i] # None
    /\ \A i \in Rows : i \in 1..created /\ rows[i].path = pathOf[i]
TasksNamed ==
    \A t \in Tasks : tasks[t].pc \in OnRow =>
        tasks[t].row \in 1..created /\ tasks[t].path = pathOf[tasks[t].row]
OrphansNamed == \A o \in orphans : o[2] \in 1..created /\ o[1] = pathOf[o[2]]
FilesNamed ==
    \A p \in Paths : \/ files[p] = NoFile
                     \/ /\ files[p].state # "absent"
                        /\ files[p].of \in 1..created /\ pathOf[files[p].of] = p

OneWriter ==
    \A t, u \in Tasks :
        tasks[t].pc \in Writers /\ tasks[u].pc \in Writers /\ tasks[t].row = tasks[u].row => t = u
QueueHeld == \A t \in Tasks : tasks[t].pc \in {"dumping", "redump"} => busy = t
RowOfWork ==
    \A t \in Tasks : tasks[t].pc \in Dumping \cup Uploading /\ rows[tasks[t].row] # None =>
        /\ rows[tasks[t].row].status = "RUNNING"
        /\ rows[tasks[t].row].kind = tasks[t].kind
        /\ rows[tasks[t].row].bucket = tasks[t].bucket

NothingRunsOn(i) == \A o \in orphans : o[2] # i
\* The dump is over: its file stays whole, unless a DELETE removes it.
FileKept(i, file) == WholeOf(i, file) \/ (i \in removed /\ file = NoFile)
Dumped(i) ==
    /\ NothingRunsOn(i) /\ FileKept(i, files[pathOf[i]])
    /\ \A t \in Tasks : tasks[t].pc \in Dumping => tasks[t].row # i
Stored(i, b) == b # None => WholeOf(i, objects[b][pathOf[i]])

\* What a dump that runs has made of its file.
Begun(file, i) == /\ file.of = i /\ file.state \in {"partial", "mixed"}
                  /\ Clean(i) => file.state = "partial"
BeingWritten ==
    \A t \in Tasks : \A q \in {tasks[t]} : q.pc = "dumping" => Begun(files[q.path], q.row)
NotYetWritten ==
    \A t \in Tasks : \A q \in {tasks[t]} : q.pc \in Dumping /\ Clean(q.row) => NothingRunsOn(q.row)

TaskKept(q) ==
    q.pc \in Uploading \cup {"report", "restore"} /\ Clean(q.row) /\ q.kind # "FULL" =>
        /\ Dumped(q.row)
        /\ q.pc = "put" => WholeOf(q.row, q.body)
        /\ q.pc \in {"size", "complete"} => Stored(q.row, q.bucket)
TasksKeep == \A t \in Tasks : \A q \in {tasks[t]} : TaskKept(q)
RowsKeep ==
    \A i \in Rows : \A b \in {rows[i].bucket} :
        rows[i].status = "COMPLETED" /\ Sound(i) => Dumped(i) /\ Stored(i, b)
RestoredKeeps == restored.row \in 0..created /\ RestoresOwn

Owned == /\ RowsNamed /\ TasksNamed /\ OrphansNamed /\ FilesNamed
         /\ OneWriter /\ QueueHeld /\ RowOfWork /\ BeingWritten /\ NotYetWritten
         /\ TasksKeep /\ RowsKeep /\ RestoredKeeps

\* What a step leaves of what it finds.
About(q, r) == r.row = q.row /\ r.path = q.path /\ r.kind = q.kind /\ r.bucket = q.bucket

HistoryTrace ==
    /\ created' = created \/ (created' = created + 1 /\ created' \in RowIds)
    /\ \A i \in 1..created : pathOf'[i] = pathOf[i]
    /\ \A i \in RowIds : pathOf'[i] # None <=> i \in 1..created'
    /\ retried \subseteq retried' /\ removed \subseteq removed'

FileTrace(p) ==
    \/ files'[p] = files[p]
    \/ \E t \in Tasks : /\ tasks[t].pc \in {"dump", "redump", "dumping"} /\ tasks[t].path = p
                        /\ busy \in {t, None} /\ tasks'[t].pc # tasks[t].pc
                        /\ files'[p].of = tasks[t].row /\ files'[p].state # "absent"
    \/ \E o \in orphans : /\ o[1] = p /\ ~(\E t \in Tasks : busy = t /\ tasks[t].path = p)
                          /\ files'[p].state # "absent"
                          /\ \/ files'[p].of = o[2]
                             \/ files'[p].of = files[p].of /\ files[p].state # "absent"
    \/ \E t \in Tasks : /\ tasks[t].pc = "rm" /\ tasks[t].path = p /\ busy = None
                        /\ files'[p] = NoFile /\ tasks[t].row \in removed'
FilesTrace == \A p \in Paths : FileTrace(p)

ObjectsTrace ==
    \A b \in Buckets, p \in Paths :
        objects'[b][p] = objects[b][p] \/ \E t \in Tasks : tasks[t].pc = "put" /\ tasks[t].path = p

OrphansTrace ==
    \A o \in orphans' : o \in orphans \/ \E t \in Tasks : /\ tasks[t].pc = "dumping"
                                                         /\ o = <<tasks[t].path, tasks[t].row>>
                                                         /\ \/ tasks[t].row \in retried'
                                                            \/ tasks'[t].pc \notin Dumping

RowTrace(i) ==
    \/ rows'[i] = None
    \/ rows'[i] = rows[i]
    \/ /\ rows[i] # None /\ rows'[i].path = rows[i].path
       /\ rows'[i].kind = rows[i].kind /\ rows'[i].bucket = rows[i].bucket
       /\ \E t \in Tasks :
             /\ tasks[t].row = i
             /\ \/ tasks[t].pc = "catch" /\ rows'[i].status = "FAILED"
                \/ tasks[t].pc = "complete" /\ tasks'[t].pc = "report"
                   /\ rows'[i].status = "COMPLETED"
    \/ /\ i = created + 1 /\ created' = i
       /\ rows'[i].status = "RUNNING" /\ rows'[i].path = pathOf'[i]
RowsTrace == \A i \in RowIds : RowTrace(i)

Creates(t) == tasks[t].pc = "create" /\ tasks'[t].pc = "announce"
\* The step that takes a task from one point to the next.
Moved(t, q, r) ==
    \/ q.pc \in Writers /\ r.pc \in {"catch", "regret"}
    \/ q.pc = "rm" /\ r.pc = "erase"
    \/ q.pc = "announce" /\ r.pc = "dump"
    \/ q.pc \in {"dump", "redump"} /\ r.pc = "dumping"
       /\ files'[q.path] = [of |-> q.row, bytes |-> 0,
                            state |-> IF Writing(q.path) THEN "mixed" ELSE "partial"]
    \/ q.pc = "dumping" /\ r.pc = "redump" /\ q.row \in retried'
    \/ /\ q.pc = "dumping" /\ r.pc = (IF q.bucket # None THEN "fetch" ELSE "size")
       /\ UNCHANGED orphans
       /\ q.kind # "FULL" => /\ files'[q.path].of = files[q.path].of
                             /\ files[q.path].state # "mixed" => files'[q.path].state = "whole"
    \/ q.pc = "fetch" /\ r.pc = "put" /\ r.body = files[q.path] /\ r.body.bytes # 0
    \/ /\ q.pc = "put" /\ r.pc = "size"
       /\ q.bucket # None => objects'[q.bucket][q.path] = q.body
    \/ q.pc = "size" /\ r.pc = "complete" /\ r.body = q.body
    \/ q.pc = "complete" /\ r.pc = "report" /\ rows[q.row] # None
TaskTrace(t, q, r) ==
    \/ r = q
    \/ r.pc \in {"idle", "create", "drop"}
    \/ \E i \in Rows : /\ r.row = i /\ r.path = rows[i].path /\ r.kind = rows[i].kind
                       /\ r.pc = "rm" \/ (r.pc = "restore" /\ Restorable(i))
    \/ /\ Creates(t) /\ created' = created + 1 /\ r.row = created' /\ r.path = pathOf'[created']
       /\ rows'[created'] = [path |-> r.path, kind |-> r.kind, bucket |-> r.bucket, status |-> "RUNNING"]
    \/ About(q, r) /\ Moved(t, q, r)
TasksTrace == /\ \A t \in Tasks : TaskTrace(t, tasks[t], tasks'[t])
              /\ \A t, u \in Tasks : Creates(t) /\ Creates(u) => t = u

RestoredTrace ==
    \/ UNCHANGED restored
    \/ \E t \in Tasks : /\ tasks[t].pc = "restore"
                        /\ restored' = [row |-> tasks[t].row, kind |-> tasks[t].kind,
                                        file |-> files[tasks[t].path]]

Trace == /\ HistoryTrace /\ FilesTrace /\ ObjectsTrace /\ OrphansTrace
         /\ RowsTrace /\ TasksTrace /\ RestoredTrace

LEMMA MovesTask ==
  ASSUME TypeOK, NEW t \in Tasks, NEW pc \in Pcs, NEW e \in Errors,
         Go(t, pc) \/ (pc = "catch" /\ Catch(t, e))
  PROVE  /\ tasks'[t].pc = pc /\ About(tasks[t], tasks'[t]) /\ tasks'[t].body = tasks[t].body
         /\ \A u \in Tasks \ {t} : tasks'[u] = tasks[u]
<1>1. tasks \in [Tasks -> TaskType]
  BY Facts
<1> QED
  BY <1>1 DEF Go, Catch, About, TaskType

\* A step of one task, and steps that leave some of the variables alone.
LEMMA OneTaskTrace ==
  ASSUME NEW t \in Tasks, \A u \in Tasks \ {t} : tasks'[u] = tasks[u],
         TaskTrace(t, tasks[t], tasks'[t])
  PROVE  TasksTrace
<1>1. \A u \in Tasks \ {t} : ~Creates(u)
  BY DEF Creates
<1> QED
  BY <1>1 DEF TasksTrace, TaskTrace

LEMMA Unchanged ==
  ASSUME TypeOK, RowsNamed
  PROVE  /\ UNCHANGED <<created, pathOf>> /\ retried \subseteq retried' /\ removed \subseteq removed'
               => HistoryTrace
         /\ UNCHANGED files => FilesTrace
         /\ UNCHANGED objects => ObjectsTrace
         /\ UNCHANGED orphans => OrphansTrace
         /\ UNCHANGED rows => RowsTrace
         /\ UNCHANGED restored => RestoredTrace
<1>1. UNCHANGED <<created, pathOf>> /\ retried \subseteq retried' /\ removed \subseteq removed' => HistoryTrace
  BY DEF HistoryTrace, RowsNamed
<1>2. UNCHANGED files => FilesTrace
  BY DEF FilesTrace, FileTrace
<1>3. UNCHANGED objects => ObjectsTrace
  BY DEF ObjectsTrace
<1>4. UNCHANGED orphans => OrphansTrace
  BY DEF OrphansTrace
<1>5. UNCHANGED rows => RowsTrace
  BY DEF RowsTrace, RowTrace
<1>6. UNCHANGED restored => RestoredTrace
  BY DEF RestoredTrace
<1> QED
  BY <1>1, <1>2, <1>3, <1>4, <1>5, <1>6

\* The steps of a backup's work.
LEMMA DumpTrace ==
  ASSUME Inv, Owned, NEW t \in Tasks, StartDump(t) \/ EndDump(t) \/ LoseConnection(t)
  PROVE  Trace
<1> DEFINE q == tasks[t]
<1>a. TypeOK /\ tasks \in [Tasks -> TaskType] /\ q \in TaskType
  BY Facts DEF Inv
<1>b. q.path \in Paths /\ files \in [Paths -> File] /\ q.pc \in {"dump", "redump", "dumping"}
  BY <1>a, TypedOK DEF Inv, Formed, Typed, Work, StartDump, EndDump, LoseConnection, At
<1>c. /\ {"dumping", "fetch", "size", "catch", "redump"} \subseteq Pcs /\ "failed" \in Errors
      /\ {"dump", "redump", "dumping"} \subseteq Writers
  BY DEF Pcs, Errors, Writers, Dumping
<1>d. /\ HistoryTrace /\ ObjectsTrace /\ RowsTrace /\ RestoredTrace
  <2>1. UNCHANGED <<created, pathOf, objects, rows, restored, removed>> /\ retried \subseteq retried'
    BY DEF StartDump, EndDump, LoseConnection, Interrupted, Requested
  <2> QED
    BY <1>a, <2>1, Unchanged DEF Owned
<1>f. ASSUME Catch(t, "failed") PROVE TasksTrace
  <2>1. /\ tasks'[t].pc = "catch" /\ About(q, tasks'[t])
        /\ \A u \in Tasks \ {t} : tasks'[u] = tasks[u]
    BY <1>a, <1>c, <1>f, MovesTask
  <2> QED
    BY <1>b, <1>c, <2>1, OneTaskTrace DEF TaskTrace, Moved
<1>g. \A p \in Paths \ {q.path} : files'[p] = files[p]
  <2>1. \/ UNCHANGED files
        \/ \E file : files' = [files EXCEPT ![q.path] = file]
    <3>1. CASE StartDump(t)
      BY <3>1 DEF StartDump
    <3>2. CASE EndDump(t)
      BY <3>2 DEF EndDump
    <3>3. CASE LoseConnection(t)
      BY <3>3 DEF LoseConnection
    <3> QED
      BY <3>1, <3>2, <3>3
  <2> QED
    BY <1>b, <2>1
<1>h. ASSUME busy \in {t, None}, tasks'[t].pc # q.pc,
             files'[q.path].of = q.row, files'[q.path].state # "absent"
      PROVE  FilesTrace
  BY <1>b, <1>g, <1>h DEF FilesTrace, FileTrace
<1>1. CASE StartDump(t)
  <2>1. OrphansTrace
    BY <1>1, <1>a, Unchanged DEF StartDump, Owned
  <2>2. CASE Catch(t, "failed") /\ UNCHANGED files
    BY <1>a, <1>d, <1>f, <2>1, <2>2, Unchanged DEF Trace, Owned
  <2>3. CASE /\ tasks' = [tasks EXCEPT ![t].pc = "dumping"]
             /\ files' = [files EXCEPT ![q.path] =
                   [of |-> q.row, state |-> IF Writing(q.path) THEN "mixed" ELSE "partial", bytes |-> 0]]
    <3>1. files'[q.path] = [of |-> q.row, bytes |-> 0,
                            state |-> IF Writing(q.path) THEN "mixed" ELSE "partial"]
      BY <1>b, <2>3
    <3>2. /\ tasks'[t].pc = "dumping" /\ About(q, tasks'[t])
          /\ \A u \in Tasks \ {t} : tasks'[u] = tasks[u]
      BY <1>a, <1>c, <2>3, MovesTask DEF Go
    <3>3. q.pc \in {"dump", "redump"}
      BY <1>1 DEF StartDump, At
    <3>4. TasksTrace
      BY <3>1, <3>2, <3>3, OneTaskTrace DEF TaskTrace, Moved
    <3>5. busy \in {t, None}
      BY <1>1 DEF StartDump, At, MyTurn, Owned, QueueHeld
    <3>6. FilesTrace
      BY <1>h, <3>1, <3>2, <3>3, <3>5
    <3> QED
      BY <1>d, <2>1, <3>4, <3>6 DEF Trace
  <2> QED
    BY <1>1, <2>2, <2>3 DEF StartDump
<1>2. CASE EndDump(t)
  <2> DEFINE next == IF q.bucket # None THEN "fetch" ELSE "size"
             state == IF files[q.path].state = "mixed" THEN "mixed" ELSE "whole"
  <2>0. UNCHANGED orphans /\ q.pc = "dumping"
    BY <1>2 DEF EndDump, At
  <2>1. OrphansTrace
    BY <2>0, <1>a, Unchanged DEF Owned
  <2>2. files[q.path] \in File /\ Begun(files[q.path], q.row)
    BY <1>b, <2>0 DEF Owned, BeingWritten
  <2>3. files'[q.path].of = q.row /\ files'[q.path].state # "absent"
    <3>1. \/ \E bytes \in Bytes : files' = [files EXCEPT ![q.path].state = state, ![q.path].bytes = bytes]
          \/ \E bytes \in Bytes \cup {0} : files' = [files EXCEPT ![q.path].bytes = bytes]
      BY <1>2 DEF EndDump
    <3>2. state \in {"mixed", "whole"}
      OBVIOUS
    <3> HIDE DEF state
    <3>3. CASE \E bytes \in Bytes : files' = [files EXCEPT ![q.path].state = state, ![q.path].bytes = bytes]
      BY <1>b, <2>2, <3>2, <3>3 DEF Begun, File
    <3>4. CASE \E bytes \in Bytes \cup {0} : files' = [files EXCEPT ![q.path].bytes = bytes]
      BY <1>b, <2>2, <3>4 DEF Begun, File
    <3> QED
      BY <3>1, <3>3, <3>4
  <2>4. FilesTrace
    <3>1. Go(t, next) \/ Catch(t, "failed")
      BY <1>2 DEF EndDump
    <3>2. tasks'[t].pc # q.pc
      BY <1>a, <1>c, <2>0, <3>1, MovesTask
    <3>3. busy = t
      BY <2>0 DEF Owned, QueueHeld
    <3> QED
      BY <1>h, <2>3, <3>2, <3>3
  <2>5. ASSUME Go(t, next),
               q.kind # "FULL" /\ files[q.path].state # "mixed" => files'[q.path].state = "whole"
        PROVE  TasksTrace
    <3>1. /\ tasks'[t].pc = next /\ About(q, tasks'[t])
          /\ \A u \in Tasks \ {t} : tasks'[u] = tasks[u]
      BY <1>a, <1>c, <2>5, MovesTask
    <3> QED
      BY <2>0, <2>2, <2>3, <2>5, <3>1, OneTaskTrace DEF TaskTrace, Moved, Begun
  <2>6. TasksTrace
    <3>1. CASE /\ Go(t, next)
               /\ \E bytes \in Bytes : files' = [files EXCEPT ![q.path].state = state, ![q.path].bytes = bytes]
      <4>1. files'[q.path].state = state
        BY <1>b, <2>2, <3>1 DEF File
      <4> QED
        BY <2>5, <3>1, <4>1
    <3>2. CASE IF Ignored(q.kind) THEN Go(t, next) ELSE Catch(t, "failed")
      BY <1>f, <2>5, <3>2 DEF Ignored
    <3> QED
      BY <1>2, <3>1, <3>2 DEF EndDump
  <2> QED
    BY <1>d, <2>1, <2>4, <2>6 DEF Trace
<1>3. CASE LoseConnection(t)
  <2>1. PICK next \in AfterLoss(q) : Interrupted(q, next) /\ tasks' = [tasks EXCEPT ![t] = next]
    BY <1>3 DEF LoseConnection
  <2>2. q.pc = "dumping"
    BY <1>3 DEF LoseConnection, At
  <2>3. /\ next.pc = "catch" \/ (next.pc = "redump" /\ q.row \in retried')
        /\ tasks'[t] = next /\ \A u \in Tasks \ {t} : tasks'[u] = tasks[u]
    BY <1>a, <2>1 DEF AfterLoss, Interrupted, About, TaskType
  <2>4. About(q, next)
    BY <1>a, <2>1 DEF AfterLoss, About, TaskType
  <2>5. TasksTrace
    BY <1>c, <2>2, <2>3, <2>4, OneTaskTrace DEF TaskTrace, Moved
  <2>6. OrphansTrace
    BY <2>1, <2>2, <2>3 DEF OrphansTrace, Interrupted, Dumping
  <2>7. FilesTrace
    BY <1>3, <1>a, Unchanged DEF LoseConnection, Owned
  <2> QED
    BY <1>d, <2>5, <2>6, <2>7 DEF Trace
<1> QED
  BY <1>1, <1>2, <1>3

\* The steps after the dump.
LEMMA UploadTrace ==
  ASSUME Inv, Owned, NEW t \in Tasks,
         Announce(t) \/ FetchFile(t) \/ PutObject(t) \/ MeasureFile(t) \/ Report(t)
  PROVE  Trace
<1> DEFINE q == tasks[t]
<1>a. TypeOK /\ tasks \in [Tasks -> TaskType] /\ q \in TaskType
  BY Facts DEF Inv
<1>c. /\ {"dump", "put", "size", "complete", "catch"} \subseteq Pcs /\ {"failed", "empty"} \subseteq Errors
      /\ {"announce", "fetch", "put", "size", "report"} \subseteq Writers
  BY DEF Pcs, Errors, Writers, Dumping, Uploading
<1>b. q.pc \in {"announce", "fetch", "put", "size", "report"}
  BY DEF Announce, FetchFile, PutObject, MeasureFile, Report, At
<1>d. /\ HistoryTrace /\ FilesTrace /\ OrphansTrace /\ RowsTrace /\ RestoredTrace
  <2>1. UNCHANGED <<created, pathOf, files, rows, restored, removed, retried, orphans>>
    BY DEF Announce, FetchFile, PutObject, MeasureFile, Report, Requested
  <2> QED
    BY <1>a, <2>1, Unchanged DEF Owned
<1>e. ASSUME tasks'[t].pc = "idle", \A u \in Tasks \ {t} : tasks'[u] = tasks[u] PROVE TasksTrace
  BY <1>e, OneTaskTrace DEF TaskTrace
<1>f. ASSUME tasks'[t].pc = "catch", About(q, tasks'[t]), \A u \in Tasks \ {t} : tasks'[u] = tasks[u]
      PROVE  TasksTrace
  BY <1>b, <1>c, <1>f, OneTaskTrace DEF TaskTrace, Moved
<1>g. ASSUME Catch(t, "failed") PROVE TasksTrace
  BY <1>a, <1>c, <1>f, <1>g, MovesTask
<1>i. ASSUME Done(t) PROVE TasksTrace
  BY <1>a, <1>e, <1>i, DoneTask
<1>o. UNCHANGED objects => ObjectsTrace
  BY <1>a, Unchanged DEF Owned
<1>1. CASE Announce(t)
  <2>1. CASE Go(t, "dump")
    <3>1. /\ tasks'[t].pc = "dump" /\ About(q, tasks'[t])
          /\ \A u \in Tasks \ {t} : tasks'[u] = tasks[u]
      BY <1>a, <1>c, <2>1, MovesTask
    <3>2. q.pc = "announce"
      BY <1>1 DEF Announce, At
    <3>3. TasksTrace
      BY <3>1, <3>2, OneTaskTrace DEF TaskTrace, Moved
    <3> QED
      BY <1>1, <1>d, <1>o, <3>3 DEF Announce, Trace
  <2> QED
    BY <1>1, <1>d, <1>i, <1>o, <2>1 DEF Announce, Trace
<1>2. CASE FetchFile(t)
  <2>1. CASE /\ files[q.path].bytes # 0
             /\ tasks' = [tasks EXCEPT ![t].pc = "put", ![t].body = files[q.path]]
    <3>1. /\ tasks'[t].pc = "put" /\ About(q, tasks'[t]) /\ tasks'[t].body = files[q.path]
          /\ \A u \in Tasks \ {t} : tasks'[u] = tasks[u]
      BY <1>a, <2>1 DEF About, TaskType
    <3>2. q.pc = "fetch"
      BY <1>2 DEF FetchFile, At
    <3>3. TasksTrace
      BY <2>1, <3>1, <3>2, OneTaskTrace DEF TaskTrace, Moved
    <3> QED
      BY <1>2, <1>d, <1>o, <3>3 DEF FetchFile, Trace
  <2> QED
    BY <1>2, <1>d, <1>g, <1>o, <2>1 DEF FetchFile, Trace
<1>3. CASE PutObject(t)
  <2> DEFINE uploaded == [objects EXCEPT ![q.bucket][q.path] = q.body]
  <2>0. q.pc = "put"
    BY <1>3 DEF PutObject, At
  <2>1. objects \in [Buckets -> [Paths -> File]] /\ q.bucket \in Buckets \cup {None} /\ q.path \in Paths
    BY <1>a, <2>0, TypedOK DEF Typed, TaskType, Inv, Formed, Work
  <2>2. ObjectsTrace
    <3>1. objects' \in {objects, uploaded}
      BY <1>3 DEF PutObject, Bucket
    <3>2. \A b \in Buckets, p \in Paths : p # q.path => objects'[b][p] = objects[b][p]
      BY <2>1, <3>1
    <3> QED
      BY <2>0, <3>2 DEF ObjectsTrace
  <2>3. CASE Go(t, "size") /\ objects' = uploaded
    <3>1. /\ tasks'[t].pc = "size" /\ About(q, tasks'[t])
          /\ \A u \in Tasks \ {t} : tasks'[u] = tasks[u]
      BY <1>a, <1>c, <2>3, MovesTask
    <3>2. q.bucket # None => objects'[q.bucket][q.path] = q.body
      BY <2>1, <2>3
    <3>3. TasksTrace
      BY <2>0, <3>1, <3>2, OneTaskTrace DEF TaskTrace, Moved
    <3> QED
      BY <1>d, <2>2, <3>3 DEF Trace
  <2>4. CASE Catch(t, "failed")
    BY <1>d, <1>g, <2>2, <2>4 DEF Trace
  <2> QED
    BY <1>3, <2>3, <2>4 DEF PutObject, Bucket
<1>4. CASE MeasureFile(t)
  <2>0. q.pc = "size" /\ ObjectsTrace
    BY <1>4, <1>o DEF MeasureFile, At
  <2>1. CASE Go(t, "complete")
    <3>1. /\ tasks'[t].pc = "complete" /\ About(q, tasks'[t]) /\ tasks'[t].body = q.body
          /\ \A u \in Tasks \ {t} : tasks'[u] = tasks[u]
      BY <1>a, <1>c, <2>1, MovesTask
    <3>2. TasksTrace
      BY <2>0, <3>1, OneTaskTrace DEF TaskTrace, Moved
    <3> QED
      BY <1>d, <2>0, <3>2 DEF Trace
  <2>2. CASE \E n : tasks' = [tasks EXCEPT ![t].pc = "catch", ![t].error = "empty", ![t].bytes = n]
    <3>1. /\ tasks'[t].pc = "catch" /\ About(q, tasks'[t])
          /\ \A u \in Tasks \ {t} : tasks'[u] = tasks[u]
      BY <1>a, <2>2 DEF About, TaskType
    <3> QED
      BY <1>d, <1>f, <2>0, <3>1 DEF Trace
  <2>3. CASE Catch(t, "failed")
    BY <1>d, <1>g, <2>0, <2>3 DEF Trace
  <2> QED
    BY <1>4, <2>1, <2>2, <2>3 DEF MeasureFile, Go
<1>5. CASE Report(t)
  <2>1. TasksTrace
    BY <1>5, <1>g, <1>i DEF Report
  <2> QED
    BY <1>5, <1>d, <1>o, <2>1 DEF Report, Trace
<1> QED
  BY <1>1, <1>2, <1>3, <1>4, <1>5

\* The row gets its status, and the ends of a backup's work.
LEMMA RowStepTrace ==
  ASSUME Inv, Owned, NEW t \in Tasks, CreateRow(t) \/ CompleteBackup(t)
  PROVE  Trace
<1> DEFINE q == tasks[t]
<1>a. TypeOK /\ tasks \in [Tasks -> TaskType] /\ q \in TaskType /\ rows \in [RowIds -> Backup \cup {None}]
  BY Facts DEF Inv
<1>c. {"report", "catch"} \subseteq Pcs /\ "failed" \in Errors /\ "complete" \in Writers
  BY DEF Pcs, Errors, Writers, Uploading
<1>d. FilesTrace /\ ObjectsTrace /\ OrphansTrace /\ RestoredTrace
  <2>1. UNCHANGED <<files, objects, orphans, restored>>
    BY DEF CreateRow, CompleteBackup, Requested
  <2> QED
    BY <1>a, <2>1, Unchanged DEF Owned
<1>e. UNCHANGED <<retried, removed>>
  BY DEF CreateRow, CompleteBackup
<1>r. UNCHANGED rows => RowsTrace
  BY <1>a, Unchanged DEF Owned
<1>h. UNCHANGED <<created, pathOf>> => HistoryTrace
  BY <1>a, <1>e, Unchanged DEF Owned
<1>1. CASE CreateRow(t)
  <2>1. CASE ~server
    <3>1. Done(t) /\ UNCHANGED <<rows, created, pathOf>>
      BY <1>1, <2>1 DEF CreateRow
    <3>2. tasks'[t].pc = "idle" /\ \A u \in Tasks \ {t} : tasks'[u] = tasks[u]
      BY <1>a, <3>1, DoneTask
    <3>3. TasksTrace
      BY <3>2, OneTaskTrace DEF TaskTrace
    <3> QED
      BY <1>d, <1>h, <1>r, <3>1, <3>3 DEF Trace
  <2>2. CASE server
    <3> DEFINE i == created + 1
               row == [path |-> q.path, kind |-> q.kind, bucket |-> q.bucket, status |-> "RUNNING"]
    <3>1. /\ created < MaxRow /\ created' = i /\ rows' = [rows EXCEPT ![i] = row]
          /\ pathOf' = [pathOf EXCEPT ![i] = q.path] /\ q.pc = "create"
          /\ tasks' = [tasks EXCEPT ![t].pc = "announce", ![t].row = i]
      BY <1>1, <2>2 DEF CreateRow, At
    <3>2. /\ i \in RowIds /\ i \notin 1..created /\ created \in Nat
          /\ \A j \in Nat : j \in 1..i <=> (j \in 1..created \/ j = i)
          /\ RowIds \subseteq Nat
      BY <1>a, <3>1, Facts, BackupsAssumption DEF RowIds
    <3>3. q.path \in Paths /\ pathOf \in [RowIds -> Paths \cup {None}]
      BY <1>a, <3>1, TypedOK DEF Inv, Formed, Typed
    <3>4. /\ tasks'[t].pc = "announce" /\ tasks'[t].row = i
          /\ tasks'[t].path = q.path /\ tasks'[t].kind = q.kind /\ tasks'[t].bucket = q.bucket
          /\ \A u \in Tasks \ {t} : tasks'[u] = tasks[u]
      BY <1>a, <3>1 DEF TaskType
    <3> HIDE DEF i
    <3>5. rows'[i] = row /\ \A j \in RowIds \ {i} : rows'[j] = rows[j]
      BY <1>a, <3>1, <3>2
    <3>6. pathOf'[i] = q.path /\ \A j \in RowIds \ {i} : pathOf'[j] = pathOf[j]
      BY <3>1, <3>2, <3>3
    <3>7. \A j \in 1..created : j \in RowIds \ {i}
      BY <1>a, <3>2, Facts
    <3>8. \A j \in RowIds : pathOf'[j] # None <=> j \in 1..i
      <4>1. q.path # None
        BY <3>3, BackupsAssumption
      <4> QED
        BY <3>2, <3>6, <4>1 DEF Owned, RowsNamed
    <3>9. HistoryTrace
      BY <1>e, <3>1, <3>2, <3>6, <3>7, <3>8 DEF HistoryTrace, i
    <3>10. RowsTrace
      BY <3>1, <3>5, <3>6 DEF RowsTrace, RowTrace, i
    <3>11. TaskTrace(t, q, tasks'[t])
      BY <3>1, <3>4, <3>5, <3>6 DEF TaskTrace, Creates, i
    <3>12. TasksTrace
      BY <3>4, <3>11, OneTaskTrace
    <3> QED
      BY <1>d, <3>9, <3>10, <3>12 DEF Trace
  <2> QED
    BY <2>1, <2>2
<1>2. CASE CompleteBackup(t)
  <2>1. HistoryTrace
    BY <1>2, <1>h DEF CompleteBackup, Requested
  <2>2. q.pc = "complete"
    BY <1>2 DEF CompleteBackup, At
  <2>3. CASE rows[q.row] = None
    <3>1. Catch(t, "failed") /\ UNCHANGED rows
      BY <1>2, <2>3 DEF CompleteBackup
    <3>2. /\ tasks'[t].pc = "catch" /\ About(q, tasks'[t])
          /\ \A u \in Tasks \ {t} : tasks'[u] = tasks[u]
      BY <1>a, <1>c, <3>1, MovesTask
    <3>3. TasksTrace
      BY <1>c, <2>2, <3>2, OneTaskTrace DEF TaskTrace, Moved
    <3> QED
      BY <1>d, <1>r, <2>1, <3>1, <3>3 DEF Trace
  <2>4. CASE rows[q.row] # None
    <3>1. Go(t, "report") /\ rows' = [rows EXCEPT ![q.row].status = "COMPLETED"]
      BY <1>2, <2>4 DEF CompleteBackup
    <3>2. /\ tasks'[t].pc = "report" /\ About(q, tasks'[t])
          /\ \A u \in Tasks \ {t} : tasks'[u] = tasks[u]
      BY <1>a, <1>c, <3>1, MovesTask
    <3>3. TasksTrace
      BY <2>2, <2>4, <3>2, OneTaskTrace DEF TaskTrace, Moved
    <3>4. \A i \in RowIds : i # q.row => rows'[i] = rows[i]
      BY <1>a, <3>1
    <3>5. ASSUME q.row \in RowIds PROVE RowTrace(q.row)
      <4>1. rows[q.row] \in Backup /\ rows'[q.row] = [rows[q.row] EXCEPT !.status = "COMPLETED"]
        BY <1>a, <2>4, <3>1, <3>5
      <4> QED
        BY <2>2, <2>4, <3>2, <4>1 DEF RowTrace, Backup
    <3>6. RowsTrace
      BY <3>4, <3>5 DEF RowsTrace, RowTrace
    <3> QED
      BY <1>d, <2>1, <3>3, <3>6 DEF Trace
  <2> QED
    BY <2>3, <2>4
<1> QED
  BY <1>1, <1>2

\* The panel's process ends: nothing of it goes on, but the commands of the server may.
LEMMA EndsTrace ==
  ASSUME Inv, Owned, tasks' = [t \in Tasks |-> NoTask],
         orphans' \in {orphans, orphans \cup Abandoned},
         UNCHANGED <<created, pathOf, retried, removed, files, objects, rows, restored>>
  PROVE  Trace
<1>1. HistoryTrace /\ FilesTrace /\ ObjectsTrace /\ RowsTrace /\ RestoredTrace
  BY Unchanged DEF Inv, Owned
<1>2. \A t \in Tasks : tasks'[t].pc = "idle"
  BY DEF NoTask
<1>3. TasksTrace
  BY <1>2 DEF TasksTrace, TaskTrace, Creates
<1>4. OrphansTrace
  BY <1>2 DEF OrphansTrace, Abandoned, At, Dumping
<1> QED
  BY <1>1, <1>3, <1>4 DEF Trace

LEMMA FailTrace ==
  ASSUME Inv, Owned, (\E t \in Tasks : FailBackup(t) \/ Regret(t)) \/ PanelRestarts
  PROVE  Trace
<1>1. ASSUME NEW t \in Tasks, FailBackup(t) PROVE Trace
  <2> DEFINE q == tasks[t]
  <2>1. UNCHANGED <<created, pathOf, retried, removed, files, objects, restored>> /\ q.pc = "catch"
    BY <1>1 DEF FailBackup, Requested, At
  <2>2. CASE Throws(t)
    BY <1>1, <2>1, <2>2, EndsTrace DEF FailBackup, Ends
  <2>3. CASE ~Throws(t)
    <3>1. Go(t, "regret") /\ rows' = [rows EXCEPT ![q.row].status = "FAILED"] /\ rows[q.row] # None
          /\ UNCHANGED orphans
      BY <1>1, <2>3 DEF FailBackup, FailedRow, Throws
    <3>a. TypeOK /\ rows \in [RowIds -> Backup \cup {None}] /\ "regret" \in Pcs /\ None \in Errors
      BY Facts DEF Inv, Pcs, Errors
    <3>2. /\ tasks'[t].pc = "regret" /\ About(q, tasks'[t])
          /\ \A u \in Tasks \ {t} : tasks'[u] = tasks[u]
      BY <3>a, <3>1, MovesTask
    <3>3. TasksTrace
      BY <2>1, <3>2, OneTaskTrace DEF TaskTrace, Moved, Writers
    <3>4. \A i \in RowIds : i # q.row => rows'[i] = rows[i]
      BY <3>a, <3>1
    <3>5. ASSUME q.row \in RowIds PROVE RowTrace(q.row)
      <4>1. rows[q.row] \in Backup /\ rows'[q.row] = [rows[q.row] EXCEPT !.status = "FAILED"]
        BY <3>a, <3>1, <3>5
      <4> QED
        BY <2>1, <3>1, <4>1 DEF RowTrace, Backup
    <3>6. RowsTrace
      BY <3>4, <3>5 DEF RowsTrace, RowTrace
    <3> QED
      BY <2>1, <3>a, <3>1, <3>3, <3>6, Unchanged DEF Trace, Owned
  <2> QED
    BY <2>2, <2>3
<1>2. ASSUME NEW t \in Tasks, Regret(t) PROVE Trace
  <2>1. UNCHANGED <<created, pathOf, retried, removed, files, objects, rows, restored>>
    BY <1>2 DEF Regret, Requested
  <2>2. CASE Done(t) /\ UNCHANGED orphans
    <3>1. tasks'[t].pc = "idle" /\ \A u \in Tasks \ {t} : tasks'[u] = tasks[u]
      BY <2>2, DoneTask DEF Inv
    <3>2. TasksTrace
      BY <3>1, OneTaskTrace DEF TaskTrace
    <3> QED
      BY <2>1, <2>2, <3>2, Unchanged DEF Trace, Inv, Owned
  <2>3. CASE Ends("database") /\ orphans' \in {orphans, orphans \cup Abandoned}
    BY <2>1, <2>3, EndsTrace DEF Ends
  <2> QED
    BY <1>2, <2>2, <2>3 DEF Regret
<1>3. CASE PanelRestarts
  BY <1>3, EndsTrace DEF PanelRestarts, Ends, Requested
<1> QED
  BY <1>1, <1>2, <1>3

\* Restores, deletions and the destination.
LEMMA OtherTrace ==
  ASSUME Inv, Owned,
         \/ \E t \in Tasks : Restore(t) \/ RemoveFile(t) \/ EraseRow(t) \/ DeleteServer(t)
         \/ \E o \in orphans : OrphanEnds(o)
         \/ \E d : EditDestination(d)
         \/ UNCHANGED vars
  PROVE  Trace
<1>a. TypeOK /\ files \in [Paths -> File] /\ rows \in [RowIds -> Backup \cup {None}]
  BY TypedOK DEF Inv, Typed
<1>d. ASSUME NEW t \in Tasks, Done(t) PROVE TasksTrace
  <2>1. tasks'[t].pc = "idle" /\ \A u \in Tasks \ {t} : tasks'[u] = tasks[u]
    BY <1>a, <1>d, DoneTask
  <2> QED
    BY <2>1, OneTaskTrace DEF TaskTrace
<1>s. UNCHANGED tasks => TasksTrace
  BY DEF TasksTrace, TaskTrace, Creates
<1>1. ASSUME NEW t \in Tasks, Restore(t) PROVE Trace
  <2>1. UNCHANGED <<created, pathOf, retried, removed, files, objects, rows, orphans>>
    BY <1>1 DEF Restore
  <2>2. RestoredTrace /\ TasksTrace
    BY <1>1, <1>d DEF Restore, RestoredTrace, At
  <2> QED
    BY <1>a, <2>1, <2>2, Unchanged DEF Trace, Owned
<1>2. ASSUME NEW t \in Tasks, RemoveFile(t) PROVE Trace
  <2>1. /\ UNCHANGED <<created, pathOf, retried, objects, rows, orphans, restored>>
        /\ removed' = removed \cup {tasks[t].row}
        /\ tasks[t].pc = "rm" /\ Go(t, "erase") /\ busy = None
        /\ files' = [files EXCEPT ![tasks[t].path] = NoFile] \/ UNCHANGED files
    BY <1>2 DEF RemoveFile, Requested, Emptied, At, MyTurn
  <2>2. FilesTrace
    BY <1>a, <2>1 DEF FilesTrace, FileTrace
  <2>3. /\ tasks'[t].pc = "erase" /\ About(tasks[t], tasks'[t])
        /\ \A u \in Tasks \ {t} : tasks'[u] = tasks[u]
    BY <1>a, <2>1, MovesTask DEF Pcs, Errors
  <2>4. TasksTrace
    BY <2>1, <2>3, OneTaskTrace DEF TaskTrace, Moved
  <2> QED
    BY <1>a, <2>1, <2>2, <2>4, Unchanged DEF Trace, Owned
<1>3. ASSUME NEW t \in Tasks, EraseRow(t) PROVE Trace
  <2>1. UNCHANGED <<created, pathOf, retried, removed, files, objects, orphans, restored>>
    BY <1>3 DEF EraseRow, Requested
  <2>2. RowsTrace /\ TasksTrace
    BY <1>3, <1>a, <1>d DEF EraseRow, RowsTrace, RowTrace
  <2> QED
    BY <1>a, <2>1, <2>2, Unchanged DEF Trace, Owned
<1>4. ASSUME NEW t \in Tasks, DeleteServer(t) PROVE Trace
  <2>1. UNCHANGED <<created, pathOf, retried, removed, files, objects, orphans, restored>>
    BY <1>4 DEF DeleteServer
  <2>2. RowsTrace /\ TasksTrace
    BY <1>4, <1>d DEF DeleteServer, RowsTrace, RowTrace
  <2> QED
    BY <1>a, <2>1, <2>2, Unchanged DEF Trace, Owned
<1>5. ASSUME NEW o \in orphans, OrphanEnds(o) PROVE Trace
  <2>1. UNCHANGED <<created, pathOf, retried, removed, objects, rows, tasks, restored>>
    BY <1>5 DEF OrphanEnds, Requested
  <2>2. OrphansTrace
    BY <1>5 DEF OrphanEnds, OrphansTrace
  <2>3. o[1] \in Paths
    BY <1>a, TypedOK DEF Typed
  <2> DEFINE p == o[1]
             alone == files[p].state = "absent" \/ (files[p].of = o[2] /\ files[p].state = "partial")
             Ended == \E bytes \in Bytes : files' = [files EXCEPT ![p] =
                         IF alone THEN [of |-> o[2], state |-> "whole", bytes |-> bytes]
                         ELSE [@ EXCEPT !.state = "mixed"]]
             free == ~(\E t \in Tasks : busy = t /\ tasks[t].path = p)
  <2>4. UNCHANGED files \/ (free /\ Ended)
    BY <1>5 DEF OrphanEnds
  <2>5. FilesTrace
    <3>1. CASE free /\ Ended
      <4>1. PICK bytes \in Bytes : files' = [files EXCEPT ![p] =
                  IF alone THEN [of |-> o[2], state |-> "whole", bytes |-> bytes]
                  ELSE [@ EXCEPT !.state = "mixed"]]
        BY <3>1
      <4>2. \A x \in Paths \ {p} : files'[x] = files[x]
        BY <1>a, <4>1
      <4>3. /\ alone => files'[p].of = o[2] /\ files'[p].state # "absent"
            /\ ~alone => files'[p] = [files[p] EXCEPT !.state = "mixed"]
        BY <1>a, <2>3, <4>1
      <4>4. files[p] \in File
        BY <1>a, <2>3
      <4>5. ~alone => /\ files'[p].of = files[p].of /\ files'[p].state # "absent"
                      /\ files[p].state # "absent"
        BY <4>3, <4>4 DEF File
      <4>6. FileTrace(p)
        BY <3>1, <4>3, <4>5 DEF FileTrace
      <4> QED
        BY <4>2, <4>6 DEF FilesTrace, FileTrace
    <3> QED
      BY <1>a, <2>4, <3>1, Unchanged DEF Owned
  <2> QED
    BY <1>a, <1>s, <2>1, <2>2, <2>5, Unchanged DEF Trace, Owned
<1>6. ASSUME NEW d, EditDestination(d) PROVE Trace
  BY <1>6, <1>a, <1>s, Unchanged DEF EditDestination, Trace, Owned
<1>7. CASE UNCHANGED vars
  BY <1>7, <1>a, <1>s, Unchanged DEF vars, Trace, Owned
<1> QED
  BY <1>1, <1>2, <1>3, <1>4, <1>5, <1>6, <1>7

\* Requests that arrive.
LEMMA ArriveTrace ==
  ASSUME Inv, Owned, NEW t \in Tasks, Arrives(t)
  PROVE  Trace
<1>a. TypeOK /\ tasks \in [Tasks -> TaskType]
  BY Facts DEF Inv
<1>1. ASSUME NEW task, Begin(t, task),
             \/ task.pc = "create"
             \/ \E i \in Rows : /\ task.row = i /\ task.path = rows[i].path /\ task.kind = rows[i].kind
                                /\ task.pc = "rm" \/ (task.pc = "restore" /\ Restorable(i))
      PROVE  Trace
  <2>1. /\ tasks' = [tasks EXCEPT ![t] = task]
        /\ UNCHANGED <<created, pathOf, retried, removed, files, objects, orphans, rows, restored>>
    BY <1>1 DEF Begin
  <2>2. tasks'[t] = task /\ \A u \in Tasks \ {t} : tasks'[u] = tasks[u]
    BY <1>a, <2>1
  <2>3. TasksTrace
    BY <1>1, <2>2, OneTaskTrace DEF TaskTrace
  <2> QED
    BY <1>a, <2>1, <2>3, Unchanged DEF Trace, Owned
<1>2. ASSUME NEW p \in Paths, NEW kind \in Kinds, NEW upload \in BOOLEAN, BeginBackup(t, p, kind, upload)
      PROVE  Trace
  <2> DEFINE task == [NoTask EXCEPT !.pc = "create", !.path = p, !.kind = kind,
                                    !.bucket = IF upload THEN destination.bucket ELSE None]
  <2>1. task.pc = "create"
    BY DEF NoTask
  <2>2. Begin(t, task)
    BY <1>2 DEF BeginBackup
  <2> QED
    BY <1>1, <2>1, <2>2
<1>3. ASSUME NEW i \in Rows, BeginRestore(t, i) \/ BeginDelete(t, i) PROVE Trace
  <2>1. \A pc : /\ OnBackup(pc, i).pc = pc /\ OnBackup(pc, i).row = i
                /\ OnBackup(pc, i).path = rows[i].path /\ OnBackup(pc, i).kind = rows[i].kind
    BY DEF OnBackup, NoTask
  <2>2. CASE Restorable(i) /\ Begin(t, OnBackup("restore", i))
    BY <1>1, <2>1, <2>2
  <2>3. CASE Begin(t, OnBackup("rm", i))
    BY <1>1, <2>1, <2>3
  <2> QED
    BY <1>3, <2>2, <2>3 DEF BeginRestore, BeginDelete
<1>4. CASE BeginServerDelete(t)
  <2>0. Dropping.pc = "drop"
    BY DEF Dropping, NoTask
  <2>1. UNCHANGED <<created, pathOf, removed, files, objects, rows, restored>> /\ retried \subseteq retried'
    BY <1>4 DEF BeginServerDelete, Interrupted
  <2>2. CASE tasks' = [tasks EXCEPT ![t] = Dropping] /\ UNCHANGED orphans
    <3>1. tasks'[t].pc = "drop" /\ \A u \in Tasks \ {t} : tasks'[u] = tasks[u]
      BY <1>a, <2>0, <2>2
    <3>2. TasksTrace
      BY <3>1, OneTaskTrace DEF TaskTrace
    <3> QED
      BY <1>a, <2>1, <2>2, <3>2, Unchanged DEF Trace, Owned
  <2>3. ASSUME NEW u \in Tasks, At(u, "dumping"), NEW next \in AfterLoss(tasks[u]),
               Interrupted(tasks[u], next), tasks' = [tasks EXCEPT ![t] = Dropping, ![u] = next]
        PROVE  Trace
    <3>1. /\ tasks[u] \in TaskType /\ tasks[u].pc = "dumping"
          /\ tasks'[u] = next /\ \A v \in Tasks \ {t, u} : tasks'[v] = tasks[v]
      BY <1>a, <2>3 DEF At
    <3>2. t # u => tasks'[t].pc = "drop"
      BY <1>a, <2>0, <2>3
    <3>3. /\ next.pc = "catch" \/ (next.pc = "redump" /\ tasks[u].row \in retried')
          /\ About(tasks[u], next)
      BY <2>3, <3>1 DEF AfterLoss, Interrupted, About, TaskType
    <3>4. TaskTrace(u, tasks[u], tasks'[u])
      BY <3>1, <3>3 DEF TaskTrace, Moved, Writers, Dumping
    <3>5. \A v \in Tasks : ~Creates(v)
      BY <3>1, <3>2, <3>3 DEF Creates
    <3>6. TasksTrace
      BY <3>1, <3>2, <3>4, <3>5 DEF TasksTrace, TaskTrace
    <3>7. OrphansTrace
      BY <2>3, <3>1, <3>3 DEF OrphansTrace, Interrupted, Dumping
    <3> QED
      BY <1>a, <2>1, <3>6, <3>7, Unchanged DEF Trace, Owned
  <2> QED
    BY <1>4, <2>2, <2>3 DEF BeginServerDelete
<1> QED
  BY <1>2, <1>3, <1>4 DEF Arrives

LEMMA NextTrace == Inv /\ Owned /\ [Next]_vars => Trace
<1> SUFFICES ASSUME Inv, Owned, [Next]_vars PROVE Trace
  OBVIOUS
<1>1. CASE \E bucket \in Buckets, enabled \in BOOLEAN : SaveDestination(bucket, enabled)
  BY <1>1, OtherTrace DEF SaveDestination
<1>2. CASE DeleteDestination
  BY <1>2, OtherTrace DEF DeleteDestination
<1>3. ASSUME NEW t \in Tasks, Arrives(t) \/ Step(t) PROVE Trace
  BY <1>3, ArriveTrace, DumpTrace, UploadTrace, RowStepTrace, FailTrace, OtherTrace DEF Step
<1> QED
  BY <1>1, <1>2, <1>3, OtherTrace, FailTrace DEF Next

-----------------------------------------------------------------------------
(* The command queue is held by the dump that runs *)

LEMMA QueueStays == Inv /\ Owned /\ [Next]_vars => QueueHeld'
<1> SUFFICES ASSUME Inv, Owned, [Next]_vars PROVE QueueHeld'
  OBVIOUS
<1> DEFINE Holding == {"dumping", "redump"}
<1>a. TypeOK /\ tasks \in [Tasks -> TaskType] /\ busy \in Tasks \cup {None}
  BY TypedOK DEF Inv, Typed
<1>b. \A t \in Tasks : tasks[t].pc \in Holding => busy = t
  BY DEF Owned, QueueHeld
<1>e. ASSUME \A t \in Tasks : tasks'[t].pc \notin Holding PROVE QueueHeld'
  BY <1>e DEF QueueHeld
<1>k. ASSUME UNCHANGED busy,
             \A t \in Tasks : tasks'[t].pc \in Holding => tasks[t].pc \in Holding
      PROVE  QueueHeld'
  BY <1>b, <1>k DEF QueueHeld
<1>f. ASSUME NEW t \in Tasks, busy' = None \/ busy' = t, tasks[t].pc \in Holding \/ busy = None,
             tasks'[t].pc \in Holding => busy' = t, \A u \in Tasks \ {t} : tasks'[u] = tasks[u]
      PROVE  QueueHeld'
  <2>1. \A u \in Tasks \ {t} : tasks[u].pc \in Holding => FALSE
    BY <1>b, <1>f, <1>a, BackupsAssumption
  <2> QED
    BY <1>f, <2>1 DEF QueueHeld
<1>g. ASSUME NEW t \in Tasks, UNCHANGED busy, tasks'[t].pc \notin Holding,
             \A u \in Tasks \ {t} : tasks'[u] = tasks[u]
      PROVE  QueueHeld'
  BY <1>g, <1>k
<1>p. {"dump", "dumping", "fetch", "put", "size", "complete", "report", "catch", "regret", "erase"} \subseteq Pcs
      /\ {"failed", "empty"} \subseteq Errors
  BY DEF Pcs, Errors
<1>h. ASSUME NEW t \in Tasks, UNCHANGED busy, NEW pc \in Pcs \ Holding, NEW e \in Errors,
             Done(t) \/ Go(t, pc) \/ (pc = "catch" /\ Catch(t, e))
      PROVE  QueueHeld'
  <2>1. tasks'[t].pc \notin Holding /\ \A u \in Tasks \ {t} : tasks'[u] = tasks[u]
    BY <1>a, <1>h, DoneTask, MovesTask
  <2> QED
    BY <1>g, <1>h, <2>1
<1>i. ASSUME NEW how, Ends(how) PROVE QueueHeld'
  BY <1>e, <1>i DEF Ends, NoTask
<1>n. ASSUME UNCHANGED <<tasks, busy>> PROVE QueueHeld'
  BY <1>k, <1>n
<1>1. ASSUME NEW t \in Tasks, StartDump(t) PROVE QueueHeld'
  <2>1. tasks[t].pc \in Holding \/ busy = None
    BY <1>1 DEF StartDump, At, MyTurn
  <2>2. CASE Catch(t, "failed") /\ busy' = None
    <3>1. tasks'[t].pc = "catch" /\ \A u \in Tasks \ {t} : tasks'[u] = tasks[u]
      BY <1>a, <1>p, <2>2, MovesTask
    <3> QED
      BY <1>f, <2>1, <2>2, <3>1
  <2>3. CASE busy' = t /\ Go(t, "dumping")
    <3>1. \A u \in Tasks \ {t} : tasks'[u] = tasks[u]
      BY <1>a, <1>p, <2>3, MovesTask
    <3> QED
      BY <1>f, <2>1, <2>3, <3>1
  <2> QED
    BY <1>1, <2>2, <2>3 DEF StartDump, Go
<1>2. ASSUME NEW t \in Tasks, EndDump(t) PROVE QueueHeld'
  <2>1. tasks[t].pc \in Holding /\ busy' = None
    BY <1>2 DEF EndDump, At
  <2>2. \/ \E pc \in {"fetch", "size"} : Go(t, pc)
        \/ Catch(t, "failed")
    BY <1>2 DEF EndDump
  <2>3. tasks'[t].pc \notin Holding /\ \A u \in Tasks \ {t} : tasks'[u] = tasks[u]
    BY <1>a, <1>p, <2>2, MovesTask
  <2> QED
    BY <1>f, <2>1, <2>3
<1>3. ASSUME NEW u \in Tasks, tasks[u].pc = "dumping", NEW next \in AfterLoss(tasks[u]),
             Interrupted(tasks[u], next), tasks'[u] = next,
             \A v \in Tasks \ {u} : tasks'[v].pc \in Holding => tasks'[v] = tasks[v]
      PROVE  QueueHeld'
  <2>1. busy = u /\ \A v \in Tasks \ {u} : tasks[v].pc \notin Holding
    BY <1>b, <1>3
  <2>2. next.pc = "redump" => busy' = u
    BY <1>3, <2>1 DEF Interrupted
  <2>3. next.pc \in {"catch", "redump"}
    BY <1>a, <1>3 DEF AfterLoss, TaskType
  <2> QED
    BY <1>3, <2>1, <2>2, <2>3 DEF QueueHeld
<1>4. ASSUME NEW t \in Tasks, LoseConnection(t) PROVE QueueHeld'
  <2>1. PICK next \in AfterLoss(tasks[t]) :
           Interrupted(tasks[t], next) /\ tasks' = [tasks EXCEPT ![t] = next]
    BY <1>4 DEF LoseConnection
  <2>2. tasks[t].pc = "dumping" /\ tasks'[t] = next /\ \A v \in Tasks \ {t} : tasks'[v] = tasks[v]
    BY <1>a, <1>4, <2>1 DEF LoseConnection, At
  <2> QED
    BY <1>3, <2>1, <2>2
<1>5. ASSUME NEW t \in Tasks, BeginServerDelete(t) PROVE QueueHeld'
  <2>0. Dropping.pc \notin Holding
    BY DEF Dropping, NoTask
  <2>1. CASE tasks' = [tasks EXCEPT ![t] = Dropping] /\ UNCHANGED busy
    <3>1. tasks'[t].pc \notin Holding /\ \A u \in Tasks \ {t} : tasks'[u] = tasks[u]
      BY <1>a, <2>0, <2>1
    <3> QED
      BY <1>g, <2>1, <3>1
  <2>2. ASSUME NEW u \in Tasks, At(u, "dumping"), NEW next \in AfterLoss(tasks[u]),
               Interrupted(tasks[u], next), tasks' = [tasks EXCEPT ![t] = Dropping, ![u] = next]
        PROVE  QueueHeld'
    <3>1. /\ tasks[u].pc = "dumping" /\ tasks'[u] = next
          /\ \A v \in Tasks \ {u} : tasks'[v].pc \in Holding => tasks'[v] = tasks[v]
      BY <1>a, <2>0, <2>2 DEF At
    <3> QED
      BY <1>3, <2>2, <3>1
  <2> QED
    BY <1>5, <2>1, <2>2 DEF BeginServerDelete
<1>6. ASSUME NEW t \in Tasks, NEW task, Begin(t, task), task.pc \notin Holding PROVE QueueHeld'
  <2>1. tasks'[t].pc \notin Holding /\ UNCHANGED busy /\ \A u \in Tasks \ {t} : tasks'[u] = tasks[u]
    BY <1>a, <1>6 DEF Begin
  <2> QED
    BY <1>g, <2>1
<1>7. ASSUME NEW t \in Tasks, Arrives(t) PROVE QueueHeld'
  <2>1. ASSUME NEW p \in Paths, NEW kind \in Kinds, NEW upload \in BOOLEAN, BeginBackup(t, p, kind, upload)
        PROVE  QueueHeld'
    BY <1>6, <2>1 DEF BeginBackup, NoTask
  <2>2. ASSUME NEW i \in Rows, BeginRestore(t, i) \/ BeginDelete(t, i) PROVE QueueHeld'
    BY <1>6, <2>2 DEF BeginRestore, BeginDelete, OnBackup, NoTask
  <2> QED
    BY <1>5, <1>7, <2>1, <2>2 DEF Arrives
<1>8. ASSUME NEW t \in Tasks, CreateRow(t) PROVE QueueHeld'
  <2>1. CASE Done(t)
    BY <1>8, <1>h, <1>p, <2>1 DEF CreateRow
  <2>2. CASE tasks' = [tasks EXCEPT ![t].pc = "announce", ![t].row = created + 1]
    <3>1. tasks'[t].pc = "announce" /\ \A u \in Tasks \ {t} : tasks'[u] = tasks[u]
      BY <1>a, <2>2 DEF TaskType
    <3> QED
      BY <1>8, <1>g, <3>1 DEF CreateRow
  <2> QED
    BY <1>8, <2>1, <2>2 DEF CreateRow
<1>9. ASSUME NEW t \in Tasks, Announce(t) \/ PutObject(t) \/ CompleteBackup(t) \/ Report(t) PROVE QueueHeld'
  <2>1. UNCHANGED busy
    BY <1>9 DEF Announce, PutObject, CompleteBackup, Report
  <2>2. \/ Done(t) \/ Catch(t, "failed")
        \/ \E pc \in {"dump", "size", "report"} : Go(t, pc)
    BY <1>9 DEF Announce, PutObject, CompleteBackup, Report
  <2> QED
    BY <1>h, <1>p, <2>1, <2>2
<1>10. ASSUME NEW t \in Tasks, FetchFile(t) PROVE QueueHeld'
  <2>1. CASE tasks' = [tasks EXCEPT ![t].pc = "put", ![t].body = files[tasks[t].path]]
    <3>1. tasks'[t].pc = "put" /\ \A u \in Tasks \ {t} : tasks'[u] = tasks[u]
      BY <1>a, <2>1 DEF TaskType
    <3> QED
      BY <1>10, <1>g, <3>1 DEF FetchFile
  <2> QED
    BY <1>10, <1>h, <1>p, <2>1 DEF FetchFile
<1>11. ASSUME NEW t \in Tasks, MeasureFile(t) PROVE QueueHeld'
  <2>1. UNCHANGED busy
    BY <1>11 DEF MeasureFile
  <2>2. ASSUME NEW n, tasks' = [tasks EXCEPT ![t].pc = "catch", ![t].error = "empty", ![t].bytes = n]
        PROVE  QueueHeld'
    <3>1. tasks'[t].pc = "catch" /\ \A u \in Tasks \ {t} : tasks'[u] = tasks[u]
      BY <1>a, <2>2 DEF TaskType
    <3> QED
      BY <1>g, <2>1, <3>1
  <2>3. \/ Go(t, "complete") \/ Catch(t, "failed")
        \/ \E n : tasks' = [tasks EXCEPT ![t].pc = "catch", ![t].error = "empty", ![t].bytes = n]
    BY <1>11 DEF MeasureFile, Go
  <2> QED
    BY <1>h, <1>p, <2>1, <2>2, <2>3
<1>12. ASSUME NEW t \in Tasks, FailBackup(t) \/ Regret(t) PROVE QueueHeld'
  <2>1. \/ \E how : Ends(how)
        \/ UNCHANGED busy /\ (Done(t) \/ Go(t, "regret"))
    BY <1>12 DEF FailBackup, Regret
  <2> QED
    BY <1>h, <1>i, <1>p, <2>1
<1>13. ASSUME NEW t \in Tasks, Restore(t) \/ RemoveFile(t) \/ EraseRow(t) \/ DeleteServer(t) PROVE QueueHeld'
  <2>1. UNCHANGED busy /\ (Done(t) \/ Go(t, "erase"))
    BY <1>13 DEF Restore, RemoveFile, EraseRow, DeleteServer
  <2> QED
    BY <1>h, <1>p, <2>1
<1>14. CASE PanelRestarts
  BY <1>14, <1>i DEF PanelRestarts
<1>15. ASSUME NEW o \in orphans, OrphanEnds(o) PROVE QueueHeld'
  BY <1>15, <1>n DEF OrphanEnds
<1>16. ASSUME NEW d, EditDestination(d) PROVE QueueHeld'
  BY <1>16, <1>n DEF EditDestination
<1>17. CASE UNCHANGED vars
  BY <1>17, <1>n DEF vars
<1> QED
  BY <1>1, <1>2, <1>4, <1>7, <1>8, <1>9, <1>10, <1>11, <1>12, <1>13, <1>14, <1>15, <1>16, <1>17
  DEF Next, Step, SaveDestination, DeleteDestination

-----------------------------------------------------------------------------
(* What such a step leaves true *)

Before == Inv /\ Owned /\ Trace /\ Inv'

LEMMA Ranges ==
  ASSUME Before
  PROVE  /\ created \in Nat /\ created' \in Nat /\ created <= created'
         /\ \A i \in 1..created : i \in 1..created' /\ i \in RowIds /\ i # created + 1 /\ i \in 0..created'
         /\ created' = created + 1 => created' \in 1..created' /\ created' \in RowIds
         /\ \A i \in RowIds : i \in 1..created' => i \in 1..created \/ i = created'
BY Facts, BackupsAssumption DEF Before, Inv, Trace, HistoryTrace, Typed, RowIds

\* A path given to one backup only was so before; and what was done under it was for that one.
LEMMA CleanBefore ==
  ASSUME Before, NEW i \in 1..created, Clean(i)'
  PROVE  /\ Clean(i) /\ pathOf'[i] = pathOf[i]
         /\ \A j \in 1..created : pathOf[j] = pathOf[i] => j = i
<1>1. /\ \A j \in 1..created : pathOf'[j] = pathOf[j]
      /\ \A j \in RowIds : j \in 1..created <=> pathOf[j] # None
      /\ retried \subseteq retried'
  BY DEF Before, Owned, RowsNamed, Trace, HistoryTrace
<1>2. \A j \in 1..created : j \in RowIds
  BY Ranges
<1>3. \A j \in RowIds \ {i} : pathOf'[j] # pathOf'[i]
  BY DEF Clean, Shared
<1>4. \A j \in RowIds \ {i} : pathOf[j] # pathOf[i]
  BY <1>1, <1>2, <1>3
<1> QED
  BY <1>1, <1>2, <1>4 DEF Clean, Shared

LEMMA DumpedStays ==
  ASSUME Before, NEW i \in 1..created, Clean(i)', Dumped(i)
  PROVE  Dumped(i)'
<1>a. /\ pathOf'[i] = pathOf[i] /\ i \notin retried'
      /\ \A j \in 1..created : pathOf[j] = pathOf[i] => j = i
  BY CleanBefore DEF Clean
<1>b. i # created + 1 /\ pathOf[i] \in Paths
  <2>1. i \in RowIds /\ i # created + 1
    BY Ranges
  <2>2. pathOf[i] # None /\ pathOf \in [RowIds -> Paths \cup {None}]
    BY <2>1, TypedOK DEF Before, Inv, Owned, RowsNamed, Typed
  <2> QED
    BY <2>1, <2>2
<1>c. \A t \in Tasks : tasks[t].pc \in {"dump", "redump", "dumping", "rm"} =>
         tasks[t].row \in 1..created /\ tasks[t].path = pathOf[tasks[t].row]
  BY DEF Before, Owned, TasksNamed, OnRow, Writers, Dumping
<1>d. \A t \in Tasks : tasks[t].pc \in Dumping => tasks[t].row # i
  BY DEF Dumped
<1>1. NothingRunsOn(i)'
  <2> SUFFICES ASSUME NEW o \in orphans', o[2] = i PROVE FALSE
    BY DEF NothingRunsOn
  <2>1. o \notin orphans
    BY DEF Dumped, NothingRunsOn
  <2>2. PICK t \in Tasks : tasks[t].pc = "dumping" /\ o = <<tasks[t].path, tasks[t].row>>
    BY <2>1 DEF Before, Trace, OrphansTrace
  <2> QED
    BY <1>d, <2>2 DEF Dumping
<1>2. \A t \in Tasks : tasks'[t].pc \in Dumping => tasks'[t].row # i
  <2> SUFFICES ASSUME NEW t \in Tasks, NEW q, q = tasks[t], NEW r, r = tasks'[t], r.pc \in Dumping
               PROVE  r.row # i
    OBVIOUS
  <2>1. TaskTrace(t, q, r)
    BY DEF Before, Trace, TasksTrace
  <2>2. CASE r = q
    BY <1>d, <2>2
  <2>3. CASE created' = created + 1 /\ r.row = created'
    BY <1>b, <2>3
  <2>4. CASE About(q, r) /\ Moved(t, q, r)
    <3>1. q.pc \in Dumping
      BY <2>4 DEF Moved, Dumping
    <3> QED
      BY <1>d, <2>4, <3>1 DEF About
  <2> QED
    BY <2>1, <2>2, <2>3, <2>4 DEF TaskTrace, Dumping
<1>3. WholeOf(i, files'[pathOf[i]]) \/ (i \in removed' /\ files'[pathOf[i]] = NoFile)
  <2> DEFINE p == pathOf[i]
  <2>1. FileTrace(p) /\ removed \subseteq removed'
    BY <1>b DEF Before, Trace, FilesTrace, HistoryTrace
  <2>2. FileKept(i, files[p])
    BY DEF Dumped
  <2>3. CASE files'[p] = files[p]
    BY <2>1, <2>2, <2>3 DEF FileKept
  <2>4. ~\E t \in Tasks : tasks[t].pc \in {"dump", "redump", "dumping"} /\ tasks[t].path = p
    BY <1>a, <1>c, <1>d DEF Dumping
  <2>5. ~\E o \in orphans : o[1] = p
    BY <1>a DEF Before, Owned, OrphansNamed, Dumped, NothingRunsOn
  <2>6. CASE \E t \in Tasks : /\ tasks[t].pc = "rm" /\ tasks[t].path = p
                              /\ files'[p] = NoFile /\ tasks[t].row \in removed'
    BY <1>a, <1>c, <2>6
  <2> QED
    BY <2>1, <2>3, <2>4, <2>5, <2>6 DEF FileTrace
<1> QED
  BY <1>a, <1>1, <1>2, <1>3 DEF Dumped, FileKept, WholeOf

LEMMA StoredStays ==
  ASSUME Before, NEW i \in 1..created, Clean(i)', NEW b \in Buckets \cup {None}, Stored(i, b),
         \A t \in Tasks : tasks[t].pc = "put" => tasks[t].row # i
  PROVE  Stored(i, b)'
<1>a. /\ pathOf'[i] = pathOf[i]
      /\ \A j \in 1..created : pathOf[j] = pathOf[i] => j = i
  BY CleanBefore
<1>b. pathOf[i] \in Paths
  <2>1. i \in RowIds
    BY Ranges
  <2>2. pathOf[i] # None /\ pathOf \in [RowIds -> Paths \cup {None}]
    BY <2>1, TypedOK DEF Before, Inv, Owned, RowsNamed, Typed
  <2> QED
    BY <2>1, <2>2
<1>c. \A t \in Tasks : tasks[t].pc = "put" => tasks[t].path # pathOf[i]
  BY <1>a DEF Before, Owned, TasksNamed, OnRow, Writers, Uploading
<1> SUFFICES ASSUME b # None PROVE WholeOf(i, objects'[b][pathOf[i]])
  BY <1>a DEF Stored, WholeOf
<1>1. objects'[b][pathOf[i]] = objects[b][pathOf[i]]
  BY <1>b, <1>c DEF Before, Trace, ObjectsTrace
<1> QED
  BY <1>1 DEF Stored

LEMMA NamesStay ==
  ASSUME Before
  PROVE  (RowsNamed /\ TasksNamed /\ OrphansNamed /\ FilesNamed)'
<1>a. /\ \A i \in 1..created : pathOf'[i] = pathOf[i] /\ i \in 1..created' /\ i \in RowIds
      /\ created' = created + 1 => created' \in 1..created'
  BY Ranges DEF Before, Trace, HistoryTrace
<1>b. \A t \in Tasks : tasks[t].pc \in OnRow =>
         tasks[t].row \in 1..created /\ tasks[t].path = pathOf[tasks[t].row]
  BY DEF Before, Owned, TasksNamed
<1>c. \A i \in Rows : i \in 1..created /\ rows[i].path = pathOf[i]
  BY DEF Before, Owned, RowsNamed
<1>1. RowsNamed'
  <2>1. \A i \in RowIds : i \in 1..created' <=> pathOf'[i] # None
    BY DEF Before, Trace, HistoryTrace
  <2>2. ASSUME NEW i \in RowIds, rows'[i] # None
        PROVE  i \in 1..created' /\ rows'[i].path = pathOf'[i]
    <3>1. RowTrace(i)
      BY DEF Before, Trace, RowsTrace
    <3>2. CASE rows[i] # None /\ rows'[i].path = rows[i].path
      BY <1>a, <1>c, <3>2 DEF Rows
    <3>3. CASE i = created + 1 /\ created' = i /\ rows'[i].path = pathOf'[i]
      BY <1>a, <3>3
    <3> QED
      BY <2>2, <3>1, <3>2, <3>3 DEF RowTrace
  <2> QED
    BY <2>1, <2>2 DEF RowsNamed, Rows
<1>2. TasksNamed'
  <2> SUFFICES ASSUME NEW t \in Tasks, NEW q, q = tasks[t], NEW r, r = tasks'[t], r.pc \in OnRow
               PROVE  r.row \in 1..created' /\ r.path = pathOf'[r.row]
    BY DEF TasksNamed
  <2>1. TaskTrace(t, q, r)
    BY DEF Before, Trace, TasksTrace
  <2>2. ASSUME q.pc \in OnRow, About(q, r) PROVE r.row \in 1..created' /\ r.path = pathOf'[r.row]
    BY <1>a, <1>b, <2>2 DEF About
  <2>3. CASE r = q
    BY <2>2, <2>3 DEF About
  <2>4. CASE \E i \in Rows : r.row = i /\ r.path = rows[i].path
    BY <1>a, <1>c, <2>4
  <2>5. CASE created' = created + 1 /\ r.row = created' /\ r.path = pathOf'[created']
    BY <1>a, <2>5
  <2>6. CASE About(q, r) /\ Moved(t, q, r)
    <3>1. q.pc \in OnRow
      BY <2>6 DEF Moved, OnRow, Writers, Dumping, Uploading
    <3> QED
      BY <2>2, <2>6, <3>1
  <2>7. r.pc \notin {"idle", "create", "drop"}
    BY DEF OnRow, Writers, Dumping, Uploading
  <2> QED
    BY <2>1, <2>3, <2>4, <2>5, <2>6, <2>7 DEF TaskTrace
<1>3. OrphansNamed'
  <2> SUFFICES ASSUME NEW o \in orphans' PROVE o[2] \in 1..created' /\ o[1] = pathOf'[o[2]]
    BY DEF OrphansNamed
  <2>1. CASE o \in orphans
    BY <1>a, <2>1 DEF Before, Owned, OrphansNamed
  <2>2. CASE \E t \in Tasks : tasks[t].pc = "dumping" /\ o = <<tasks[t].path, tasks[t].row>>
    <3>1. PICK t \in Tasks : tasks[t].pc = "dumping" /\ o = <<tasks[t].path, tasks[t].row>>
      BY <2>2
    <3>2. tasks[t].row \in 1..created /\ tasks[t].path = pathOf[tasks[t].row]
      BY <1>b, <3>1 DEF OnRow, Writers, Dumping
    <3>3. o[1] = tasks[t].path /\ o[2] = tasks[t].row
      BY <3>1
    <3> QED
      BY <1>a, <3>2, <3>3
  <2> QED
    BY <2>1, <2>2 DEF Before, Trace, OrphansTrace
<1>4. FilesNamed'
  <2> SUFFICES ASSUME NEW p \in Paths, files'[p] # NoFile
               PROVE  /\ files'[p].state # "absent"
                      /\ files'[p].of \in 1..created' /\ pathOf'[files'[p].of] = p
    BY DEF FilesNamed
  <2>1. FileTrace(p)
    BY DEF Before, Trace, FilesTrace
  <2>2. files[p] # NoFile => /\ files[p].state # "absent" /\ files[p].of \in 1..created
                             /\ pathOf[files[p].of] = p
    BY DEF Before, Owned, FilesNamed
  <2>3. NoFile.state = "absent"
    BY DEF NoFile
  <2>4. CASE files'[p] = files[p]
    BY <1>a, <2>2, <2>4
  <2>5. CASE \E t \in Tasks : /\ tasks[t].pc \in {"dump", "redump", "dumping"} /\ tasks[t].path = p
                              /\ files'[p].of = tasks[t].row /\ files'[p].state # "absent"
    BY <1>a, <1>b, <2>5 DEF OnRow, Writers, Dumping
  <2>6. ASSUME NEW o \in orphans, o[1] = p, files'[p].state # "absent", files'[p].of = o[2]
        PROVE  files'[p].of \in 1..created' /\ pathOf'[files'[p].of] = p
    BY <1>a, <2>6 DEF Before, Owned, OrphansNamed
  <2>7. ASSUME files'[p].state # "absent", files'[p].of = files[p].of, files[p].state # "absent"
        PROVE  files'[p].of \in 1..created' /\ pathOf'[files'[p].of] = p
    BY <1>a, <2>2, <2>3, <2>7
  <2> QED
    BY <2>1, <2>4, <2>5, <2>6, <2>7 DEF FileTrace
<1> QED
  BY <1>1, <1>2, <1>3, <1>4

LEMMA WritersStay == Before => OneWriter' /\ RowOfWork'
<1> SUFFICES ASSUME Before PROVE OneWriter' /\ RowOfWork'
  OBVIOUS
<1>a. \A t \in Tasks : tasks[t].pc \in Writers => tasks[t].row \in 1..created /\ tasks[t].row # created + 1
  BY Ranges DEF Before, Owned, TasksNamed, OnRow
\* A writer was one of the same row, or has just created its row.
<1>b. ASSUME NEW t \in Tasks, tasks'[t].pc \in Writers
      PROVE  \/ tasks[t].pc \in Writers /\ tasks'[t].row = tasks[t].row
             \/ Creates(t) /\ tasks'[t].row = created + 1
  <2> DEFINE q == tasks[t]
             r == tasks'[t]
  <2>1. TaskTrace(t, q, r)
    BY DEF Before, Trace, TasksTrace
  <2>2. r.pc \notin {"idle", "create", "drop", "restore", "rm", "erase"}
    BY <1>b DEF Writers, Dumping, Uploading
  <2>3. CASE About(q, r) /\ Moved(t, q, r)
    <3>1. q.pc \in Writers
      BY <2>2, <2>3 DEF Moved, Writers, Dumping, Uploading
    <3> QED
      BY <2>3, <3>1 DEF About
  <2>4. CASE Creates(t) /\ created' = created + 1 /\ r.row = created'
    BY <2>4
  <2> QED
    BY <1>b, <2>1, <2>2, <2>3, <2>4 DEF TaskTrace
<1>1. OneWriter'
  <2> SUFFICES ASSUME NEW t \in Tasks, NEW u \in Tasks, tasks'[t].pc \in Writers,
                      tasks'[u].pc \in Writers, tasks'[t].row = tasks'[u].row
               PROVE  t = u
    BY DEF OneWriter
  <2>1. \A v, w \in Tasks :
          tasks[v].pc \in Writers /\ tasks[w].pc \in Writers /\ tasks[v].row = tasks[w].row => v = w
    BY DEF Before, Owned, OneWriter
  <2>2. Creates(t) /\ Creates(u) => t = u
    BY DEF Before, Trace, TasksTrace
  <2>3. CASE tasks[t].pc \in Writers /\ tasks'[t].row = tasks[t].row
    BY <1>a, <1>b, <2>1, <2>3
  <2>4. CASE Creates(t) /\ tasks'[t].row = created + 1
    BY <1>a, <1>b, <2>2, <2>4
  <2> QED
    BY <1>b, <2>3, <2>4
<1>2. RowOfWork'
  <2> SUFFICES ASSUME NEW t \in Tasks, NEW q, q = tasks[t], NEW r, r = tasks'[t],
                      r.pc \in Dumping \cup Uploading, rows'[r.row] # None
               PROVE  /\ rows'[r.row].status = "RUNNING"
                      /\ rows'[r.row].kind = r.kind /\ rows'[r.row].bucket = r.bucket
    BY DEF RowOfWork
  <2>1. TaskTrace(t, q, r)
    BY DEF Before, Trace, TasksTrace
  <2>2. r.pc \notin {"idle", "create", "drop", "restore", "rm"}
    BY DEF Dumping, Uploading
  <2>3. CASE rows'[created'] = [path |-> r.path, kind |-> r.kind, bucket |-> r.bucket, status |-> "RUNNING"]
             /\ r.row = created'
    BY <2>3
  <2>4. ASSUME q.pc \in Dumping \cup Uploading, About(q, r)
        PROVE  /\ rows'[r.row].status = "RUNNING"
               /\ rows'[r.row].kind = r.kind /\ rows'[r.row].bucket = r.bucket
    <3>1. q.row \in 1..created /\ q.row # created + 1 /\ q.row \in RowIds
      BY <1>a, <2>4, Ranges DEF Writers
    <3>2. RowTrace(q.row)
      BY <3>1 DEF Before, Trace, RowsTrace
    <3>3. rows[q.row] # None => /\ rows[q.row].status = "RUNNING"
                                /\ rows[q.row].kind = q.kind /\ rows[q.row].bucket = q.bucket
      BY <2>4 DEF Before, Owned, RowOfWork
    <3>4. \A u \in Tasks : tasks[u].pc \in Writers /\ tasks[u].row = q.row => u = t
      BY <2>4 DEF Before, Owned, OneWriter, Writers
    <3>5. ASSUME NEW u \in Tasks, tasks[u].row = q.row,
                 tasks[u].pc = "catch" \/ (tasks[u].pc = "complete" /\ tasks'[u].pc = "report")
          PROVE  FALSE
      <4>1. u = t
        BY <3>4, <3>5 DEF Writers, Uploading
      <4> QED
        BY <2>4, <3>5, <4>1 DEF Dumping, Uploading
    <3> QED
      BY <2>4, <3>1, <3>2, <3>3, <3>5 DEF RowTrace, About
  <2>5. CASE r = q
    BY <2>4, <2>5 DEF About
  <2>6. CASE About(q, r) /\ Moved(t, q, r)
    <3>1. q.pc \in Dumping \cup Uploading
      BY <2>6 DEF Moved, Dumping, Uploading
    <3> QED
      BY <2>4, <2>6, <3>1
  <2> QED
    BY <2>1, <2>2, <2>3, <2>5, <2>6 DEF TaskTrace
<1> QED
  BY <1>1, <1>2

LEMMA DumpsStay == Before => BeingWritten' /\ NotYetWritten'
<1> SUFFICES ASSUME Before PROVE BeingWritten' /\ NotYetWritten'
  OBVIOUS
<1>a. \A t \in Tasks : tasks[t].pc \in Writers =>
         tasks[t].row \in 1..created /\ tasks[t].path = pathOf[tasks[t].row]
  BY DEF Before, Owned, TasksNamed, OnRow
<1>b. \A t, u \in Tasks :
        tasks[t].pc \in Writers /\ tasks[u].pc \in Writers /\ tasks[t].row = tasks[u].row => t = u
  BY DEF Before, Owned, OneWriter
<1>1. NotYetWritten'
  <2> SUFFICES ASSUME NEW t \in Tasks, NEW q, q = tasks[t], NEW r, r = tasks'[t],
                      r.pc \in Dumping, Clean(r.row)'
               PROVE  NothingRunsOn(r.row)'
    BY DEF NotYetWritten
  <2>1. TaskTrace(t, q, r)
    BY DEF Before, Trace, TasksTrace
  <2>2. ASSUME q.pc \in Dumping, r.row = q.row PROVE NothingRunsOn(r.row)'
    <3>1. Clean(q.row)
      BY <1>a, <2>2, CleanBefore DEF Writers
    <3>2. NothingRunsOn(q.row)
      BY <2>2, <3>1 DEF Before, Owned, NotYetWritten
    <3> SUFFICES ASSUME NEW o \in orphans', o[2] = q.row PROVE FALSE
      BY <2>2 DEF NothingRunsOn
    <3>3. o \notin orphans
      BY <3>2 DEF NothingRunsOn
    <3>4. PICK u \in Tasks : /\ tasks[u].pc = "dumping" /\ o = <<tasks[u].path, tasks[u].row>>
                             /\ tasks[u].row \in retried' \/ tasks'[u].pc \notin Dumping
      BY <3>3 DEF Before, Trace, OrphansTrace
    <3>5. tasks[u].row = q.row
      BY <3>4
    <3>6. u = t
      BY <1>b, <2>2, <3>4, <3>5 DEF Writers, Dumping
    <3> QED
      BY <2>2, <3>4, <3>6 DEF Clean
  <2>3. CASE created' = created + 1 /\ r.row = created'
    <3> SUFFICES ASSUME NEW o \in orphans', o[2] = created' PROVE FALSE
      BY <2>3 DEF NothingRunsOn
    <3>1. \A i \in 1..created : i # created'
      BY <2>3, Ranges
    <3>2. o \notin orphans
      BY <3>1 DEF Before, Owned, OrphansNamed
    <3>3. PICK u \in Tasks : tasks[u].pc = "dumping" /\ o = <<tasks[u].path, tasks[u].row>>
      BY <3>2 DEF Before, Trace, OrphansTrace
    <3>4. tasks[u].row \in 1..created /\ o[2] = tasks[u].row
      BY <1>a, <3>3 DEF Writers, Dumping
    <3> QED
      BY <3>1, <3>4
  <2>4. CASE About(q, r) /\ Moved(t, q, r)
    <3>1. q.pc \in Dumping
      BY <2>4 DEF Moved, Dumping
    <3> QED
      BY <2>2, <2>4, <3>1 DEF About
  <2>5. CASE r = q
    BY <2>2, <2>5
  <2> QED
    BY <2>1, <2>3, <2>4, <2>5 DEF TaskTrace, Dumping
<1>2. BeingWritten'
  <2> SUFFICES ASSUME NEW t \in Tasks, NEW q, q = tasks[t], NEW r, r = tasks'[t], r.pc = "dumping"
               PROVE  /\ files'[r.path].of = r.row /\ files'[r.path].state \in {"partial", "mixed"}
                      /\ Clean(r.row)' => files'[r.path].state = "partial"
    BY DEF BeingWritten, Begun
  <2>1. TaskTrace(t, q, r)
    BY DEF Before, Trace, TasksTrace
  <2>2. CASE r = q
    <3>1. q.path \in Paths /\ busy = t /\ t # None
      BY <2>2, BackupsAssumption DEF Before, Inv, Formed, Work, Owned, QueueHeld
    <3>2. FileTrace(q.path)
      BY <3>1 DEF Before, Trace, FilesTrace
    <3>3. files'[q.path] = files[q.path]
      BY <2>2, <3>1, <3>2 DEF FileTrace
    <3>4. /\ files[q.path].of = q.row /\ files[q.path].state \in {"partial", "mixed"}
          /\ Clean(q.row) => files[q.path].state = "partial"
      BY <2>2 DEF Before, Owned, BeingWritten, Begun
    <3>5. Clean(q.row)' => Clean(q.row)
      BY <1>a, <2>2, CleanBefore DEF Writers, Dumping
    <3> QED
      BY <2>2, <3>3, <3>4, <3>5
  <2>3. CASE About(q, r) /\ Moved(t, q, r)
    <3>1. /\ q.pc \in {"dump", "redump"}
          /\ files'[q.path] = [of |-> q.row, bytes |-> 0,
                               state |-> IF Writing(q.path) THEN "mixed" ELSE "partial"]
      BY <2>3 DEF Moved
    <3>2. q.row \in 1..created /\ q.path = pathOf[q.row] /\ q.pc \in Dumping
      BY <1>a, <3>1 DEF Writers, Dumping
    <3>3. ASSUME Clean(q.row)' PROVE ~Writing(q.path)
      <4>1. Clean(q.row) /\ \A j \in 1..created : pathOf[j] = pathOf[q.row] => j = q.row
        BY <3>2, <3>3, CleanBefore
      <4>2. NothingRunsOn(q.row)
        BY <3>2, <4>1 DEF Before, Owned, NotYetWritten
      <4> QED
        BY <3>2, <4>1, <4>2 DEF Before, Owned, OrphansNamed, NothingRunsOn, Writing
    <3> QED
      BY <2>3, <3>1, <3>3 DEF About
  <2> QED
    BY <2>1, <2>2, <2>3 DEF TaskTrace, Creates
<1> QED
  BY <1>1, <1>2

\* The dump ends: if its path is its own, and its failure would be noticed, its file is whole.
LEMMA DumpEnds ==
  ASSUME Before, NEW t \in Tasks, NEW q, q = tasks[t], NEW r, r = tasks'[t], About(q, r),
         q.pc = "dumping", r.pc \in {"fetch", "size"}, Moved(t, q, r), Clean(q.row)', q.kind # "FULL"
  PROVE  Dumped(q.row)'
<1>1. q.row \in 1..created /\ q.path = pathOf[q.row] /\ q.pc \in Dumping
  BY DEF Before, Owned, TasksNamed, OnRow, Writers, Dumping
<1>2. Clean(q.row) /\ pathOf'[q.row] = pathOf[q.row]
  BY <1>1, CleanBefore
<1>3. files[q.path].of = q.row /\ files[q.path].state = "partial"
  BY <1>2 DEF Before, Owned, BeingWritten, Begun
<1>4. /\ UNCHANGED orphans
      /\ files'[q.path].of = files[q.path].of
      /\ files[q.path].state # "mixed" => files'[q.path].state = "whole"
  BY DEF Moved
<1>5. NothingRunsOn(q.row)
  BY <1>1, <1>2 DEF Before, Owned, NotYetWritten
<1>6. \A u \in Tasks : tasks'[u].pc \in Dumping => tasks'[u].row # q.row
  <2>1. OneWriter'
    BY WritersStay
  <2>2. \A u \in Tasks : tasks'[u].pc \in Dumping /\ tasks'[u].row = r.row => u = t
    BY <2>1 DEF OneWriter, Writers, Uploading
  <2> QED
    BY <2>2 DEF About, Dumping
<1> QED
  BY <1>1, <1>2, <1>3, <1>4, <1>5, <1>6 DEF Dumped, FileKept, WholeOf, NothingRunsOn

LEMMA TasksKeepOn == Before => TasksKeep'
<1> SUFFICES ASSUME Before, NEW t \in Tasks, NEW q, q = tasks[t], NEW r, r = tasks'[t],
                    r.pc \in Uploading \cup {"report", "restore"}, Clean(r.row)', r.kind # "FULL"
             PROVE  /\ Dumped(r.row)'
                    /\ r.pc = "put" => WholeOf(r.row, r.body)
                    /\ r.pc \in {"size", "complete"} => Stored(r.row, r.bucket)'
  BY DEF TasksKeep, TaskKept, WholeOf
<1>a. \A u \in Tasks : tasks[u].pc \in OnRow =>
         tasks[u].row \in 1..created /\ tasks[u].path = pathOf[tasks[u].row]
  BY DEF Before, Owned, TasksNamed
<1>b. \A u \in Tasks :
        tasks[u].pc \in Writers /\ q.pc \in Writers /\ tasks[u].row = q.row => u = t
  BY DEF Before, Owned, OneWriter
<1>c. TaskTrace(t, q, r)
  BY DEF Before, Trace, TasksTrace
<1>d. q \in TaskType /\ q.bucket \in Buckets \cup {None}
  BY Facts DEF Before, Inv, TaskType
\* It was past its dump before.
<1>1. ASSUME q.pc \in Uploading \cup {"report", "restore"}, About(q, r)
      PROVE  /\ Dumped(q.row) /\ Dumped(r.row)' /\ Clean(q.row) /\ q.row \in 1..created
             /\ q.path = pathOf[q.row] /\ pathOf'[q.row] = pathOf[q.row]
             /\ q.pc = "put" => WholeOf(q.row, q.body)
             /\ q.pc \in {"size", "complete"} => Stored(q.row, q.bucket)
  <2>1. q.row \in 1..created /\ q.path = pathOf[q.row] /\ r.row = q.row /\ r.kind = q.kind
    BY <1>a, <1>1 DEF OnRow, Writers, About
  <2>2. Clean(q.row) /\ pathOf'[q.row] = pathOf[q.row]
    BY <2>1, CleanBefore
  <2>3. /\ Dumped(q.row)
        /\ q.pc = "put" => WholeOf(q.row, q.body)
        /\ q.pc \in {"size", "complete"} => Stored(q.row, q.bucket)
    BY <1>1, <2>1, <2>2 DEF Before, Owned, TasksKeep, TaskKept
  <2>4. Dumped(r.row)'
    BY <2>1, <2>3, DumpedStays
  <2> QED
    BY <2>1, <2>2, <2>3, <2>4
\* Its object stays, as only it would write that.
<1>2. ASSUME q.pc \in {"size", "complete"}, About(q, r) PROVE Stored(r.row, r.bucket)'
  <2>1. Stored(q.row, q.bucket) /\ q.row \in 1..created /\ r.row = q.row /\ r.bucket = q.bucket
    BY <1>1, <1>2 DEF Uploading, About
  <2>2. \A u \in Tasks : tasks[u].pc = "put" => tasks[u].row # q.row
    BY <1>b, <1>2 DEF Writers, Uploading
  <2> QED
    BY <1>d, <2>1, <2>2, StoredStays
<1>3. CASE r = q
  BY <1>1, <1>2, <1>3 DEF About
<1>4. CASE \E i \in Rows : /\ r.row = i /\ r.path = rows[i].path /\ r.kind = rows[i].kind
                           /\ r.pc = "rm" \/ (r.pc = "restore" /\ Restorable(i))
  <2>1. PICK i \in Rows : /\ r.row = i /\ r.kind = rows[i].kind
                          /\ r.pc = "rm" \/ (r.pc = "restore" /\ Restorable(i))
    BY <1>4
  <2>2. r.pc = "restore" /\ rows[i].status = "COMPLETED"
    BY <2>1 DEF Restorable, Uploading
  <2>3. i \in 1..created
    BY DEF Before, Owned, RowsNamed
  <2>4. Clean(i)
    BY <2>1, <2>3, CleanBefore
  <2>5. Dumped(i)
    BY <2>1, <2>2, <2>4 DEF Before, Owned, RowsKeep, Sound, Clean
  <2> QED
    BY <2>1, <2>2, <2>3, <2>5, DumpedStays
<1>5. CASE About(q, r) /\ Moved(t, q, r)
  <2>0. r.row = q.row /\ r.path = q.path /\ r.kind = q.kind /\ r.bucket = q.bucket
    BY <1>5 DEF About
  <2>1. CASE q.pc = "dumping" /\ r.pc = (IF q.bucket # None THEN "fetch" ELSE "size")
    <3>1. Dumped(q.row)'
      BY <1>5, <2>0, <2>1, DumpEnds
    <3>2. r.pc = "size" => q.bucket = None
      BY <2>1
    <3> QED
      BY <2>0, <2>1, <3>1, <3>2 DEF Stored
  <2>2. CASE q.pc = "fetch" /\ r.pc = "put" /\ r.body = files[q.path] /\ r.body.bytes # 0
    <3>1. /\ Dumped(q.row) /\ Dumped(r.row)' /\ q.path = pathOf[q.row]
      BY <1>1, <1>5, <2>2 DEF Uploading
    <3>2. WholeOf(q.row, r.body)
      BY <2>2, <3>1 DEF Dumped, FileKept, NoFile
    <3> QED
      BY <2>0, <2>2, <3>1, <3>2
  <2>3. CASE q.pc = "put" /\ r.pc = "size" /\ (q.bucket # None => objects'[q.bucket][q.path] = q.body)
    <3>1. /\ Dumped(r.row)' /\ WholeOf(q.row, q.body)
          /\ q.path = pathOf[q.row] /\ pathOf'[q.row] = pathOf[q.row]
      BY <1>1, <1>5, <2>3 DEF Uploading
    <3> QED
      BY <2>0, <2>3, <3>1 DEF Stored, WholeOf
  <2>4. CASE q.pc = "size" /\ r.pc = "complete"
    BY <1>1, <1>2, <1>5, <2>4 DEF Uploading
  <2>5. CASE q.pc = "complete" /\ r.pc = "report"
    BY <1>1, <1>5, <2>5 DEF Uploading
  <2> QED
    BY <1>5, <2>1, <2>2, <2>3, <2>4, <2>5 DEF Moved, Uploading
<1> QED
  BY <1>c, <1>3, <1>4, <1>5 DEF TaskTrace, Uploading, Creates

LEMMA RowsKeepOn == Before => RowsKeep'
<1> SUFFICES ASSUME Before, NEW i \in RowIds, rows'[i] # None, rows'[i].status = "COMPLETED",
                    Sound(i)', NEW b, b = rows'[i].bucket
             PROVE  Dumped(i)' /\ Stored(i, b)'
  BY DEF RowsKeep, Rows
<1>a. Clean(i)' /\ rows'[i].kind # "FULL"
  BY DEF Sound, Clean
<1>b. RowTrace(i)
  BY DEF Before, Trace, RowsTrace
<1>c. rows[i] # None => /\ rows[i] \in Backup /\ rows[i].bucket \in Buckets \cup {None}
                        /\ i \in 1..created
  BY Facts DEF Before, Inv, Backup, Owned, RowsNamed, Rows
\* The row says so already.
<1>1. CASE rows'[i] = rows[i]
  <2>0. rows[i] # None
    BY <1>1
  <2>1. i \in 1..created /\ b \in Buckets \cup {None}
    BY <1>1, <1>c
  <2>2. Clean(i) /\ rows[i].kind # "FULL"
    BY <1>a, <1>1, <2>1, CleanBefore
  <2>3. Dumped(i) /\ Stored(i, b)
    BY <1>1, <2>2 DEF Before, Owned, RowsKeep, Rows, Sound, Clean
  <2>4. \A t \in Tasks : tasks[t].pc = "put" => tasks[t].row # i
    BY <1>1, <2>0 DEF Before, Owned, RowOfWork, Uploading
  <2> QED
    BY <1>a, <2>1, <2>3, <2>4, DumpedStays, StoredStays
\* Its work completes it.
<1>2. ASSUME NEW t \in Tasks, rows[i] # None, tasks[t].row = i, tasks[t].pc = "complete",
             rows'[i].kind = rows[i].kind, rows'[i].bucket = rows[i].bucket
      PROVE  Dumped(i)' /\ Stored(i, b)'
  <2>1. i \in 1..created /\ b \in Buckets \cup {None}
    BY <1>2, <1>c
  <2>2. Clean(i)
    BY <1>a, <2>1, CleanBefore
  <2>3. tasks[t].kind # "FULL" /\ tasks[t].bucket = b
    BY <1>a, <1>2 DEF Before, Owned, RowOfWork, Uploading
  <2>4. Dumped(i) /\ Stored(i, b)
    BY <1>2, <2>2, <2>3 DEF Before, Owned, TasksKeep, TaskKept, Uploading
  <2>5. \A u \in Tasks : tasks[u].pc = "put" => tasks[u].row # i
    BY <1>2 DEF Before, Owned, OneWriter, Writers, Uploading
  <2> QED
    BY <1>a, <2>1, <2>4, <2>5, DumpedStays, StoredStays
<1> QED
  BY <1>b, <1>1, <1>2 DEF RowTrace

LEMMA RestoredKeepsOn == Before => RestoredKeeps'
<1> SUFFICES ASSUME Before, NEW i, i = restored'.row
             PROVE  /\ i \in 0..created'
                    /\ (i # 0 /\ Clean(i)' /\ restored'.kind # "FULL" /\ restored'.file # NoFile =>
                          WholeOf(i, restored'.file))
  BY DEF RestoredKeeps, RestoresOwn, Clean, Shared, WholeOf
<1>a. \A j \in 0..created : j \in 0..created' /\ (j # 0 => j \in 1..created)
  BY Ranges
<1>1. CASE UNCHANGED restored
  <2>1. i \in 0..created
    BY <1>1 DEF Before, Owned, RestoredKeeps
  <2>2. i # 0 /\ Clean(i) /\ restored.kind # "FULL" /\ restored.file # NoFile => WholeOf(i, restored.file)
    BY <1>1 DEF Before, Owned, RestoredKeeps, RestoresOwn, Clean
  <2> QED
    BY <1>a, <1>1, <2>1, <2>2, CleanBefore
<1>2. ASSUME NEW t \in Tasks, NEW q, q = tasks[t], q.pc = "restore",
             restored' = [row |-> q.row, kind |-> q.kind, file |-> files[q.path]]
      PROVE  /\ i \in 0..created'
             /\ (i # 0 /\ Clean(i)' /\ restored'.kind # "FULL" /\ restored'.file # NoFile =>
                   WholeOf(i, restored'.file))
  <2>1. i = q.row /\ restored'.kind = q.kind /\ restored'.file = files[q.path]
    BY <1>2
  <2>2. q.row \in 1..created /\ q.path = pathOf[q.row]
    BY <1>2 DEF Before, Owned, TasksNamed, OnRow
  <2>3. i \in 0..created'
    BY <2>1, <2>2, Ranges
  <2>4. ASSUME Clean(i)', q.kind # "FULL" PROVE FileKept(i, files[q.path])
    <3>1. Clean(q.row)
      BY <2>1, <2>2, <2>4, CleanBefore
    <3>2. Dumped(q.row)
      BY <1>2, <2>4, <3>1 DEF Before, Owned, TasksKeep, TaskKept
    <3> QED
      BY <2>1, <2>2, <3>2 DEF Dumped
  <2> QED
    BY <2>1, <2>3, <2>4 DEF FileKept
<1> QED
  BY <1>1, <1>2 DEF Before, Trace, RestoredTrace

LEMMA OwnedInvariant == Spec => [](Inv /\ Owned)
<1>1. Init => Inv /\ Owned
  <2> SUFFICES ASSUME Init PROVE Owned
    BY InitInvariant
  <2>1. /\ \A t \in Tasks : tasks[t].pc = "idle"
        /\ created = 0 /\ orphans = {} /\ Rows = {} /\ restored.row = 0
        /\ \A i \in RowIds : pathOf[i] = None
        /\ \A p \in Paths : files[p] = NoFile
    BY DEF Init, NoTask, Rows
  <2>2. 0 \in 0..created /\ 1..created = {}
    BY <2>1
  <2>3. RowsNamed /\ TasksNamed /\ OrphansNamed /\ FilesNamed
    BY <2>1, <2>2 DEF RowsNamed, TasksNamed, OrphansNamed, FilesNamed, OnRow, Writers, Dumping, Uploading
  <2>4. OneWriter /\ QueueHeld /\ RowOfWork /\ BeingWritten /\ NotYetWritten
    BY <2>1 DEF OneWriter, QueueHeld, RowOfWork, BeingWritten, NotYetWritten, Writers, Dumping, Uploading
  <2>5. TasksKeep /\ RowsKeep /\ RestoredKeeps
    BY <2>1, <2>2 DEF TasksKeep, TaskKept, RowsKeep, RestoredKeeps, RestoresOwn, Uploading
  <2> QED
    BY <2>3, <2>4, <2>5 DEF Owned
<1>2. Inv /\ Owned /\ [Next]_vars => (Inv /\ Owned)'
  <2> SUFFICES ASSUME Inv, Owned, [Next]_vars PROVE Inv' /\ Owned'
    OBVIOUS
  <2>1. Before
    BY NextInvariant, NextTrace DEF Before
  <2> QED
    BY <2>1, QueueStays, NamesStay, WritersStay, DumpsStay, TasksKeepOn, RowsKeepOn, RestoredKeepsOn
    DEF Before, Owned
<1> QED
  BY <1>1, <1>2, PTL DEF Spec


-----------------------------------------------------------------------------
(* What follows *)

\* The variables keep their types.
THEOREM BackupsTypeCorrect == Spec => []TypeOK
<1>1. Inv => TypeOK
  BY DEF Inv
<1> QED
  BY <1>1, Invariant, PTL

\* However many backups, restores and deletions overlap, and whatever fails on the server or
\* in S3: a row says RUNNING only while something will still give it another status.
THEOREM RunningHasWorker == Spec => []RunningIsWorkedOn
<1>1. Inv => RunningIsWorkedOn
  BY DEF Inv, StillWorkedOn, RunningIsWorkedOn, At, Work
<1> QED
  BY <1>1, Invariant, PTL

\* No failure of a server or of S3 alone ends the panel's process: the background work of a
\* backup does so only if another request deleted its row under it.
THEOREM FailuresSurvived == Spec => []SurvivesServer
<1>1. Inv => SurvivesServer
  BY DEF Inv
<1> QED
  BY <1>1, Invariant, PTL

\* What is shown as COMPLETED can be restored: its file, and its object if it has one, are whole
\* and its own, whatever overlaps and fails, unless another backup has its path, its dump was
\* run again, or it is a full one.
THEOREM CompletedIsRestorable == Spec => []CompletedRestorable
<1>1. Inv /\ Owned => CompletedRestorable
  BY DEF Owned, RowsKeep, RowsNamed, CompletedRestorable, Dumped, FileKept, Stored
<1> QED
  BY <1>1, OwnedInvariant, PTL

\* A restore brings back the backup it was asked for, however old the row that it has read.
THEOREM RestoreIsOwn == Spec => []RestoresOwn
<1>1. Inv /\ Owned => RestoresOwn
  BY DEF Owned, RestoredKeeps
<1> QED
  BY <1>1, OwnedInvariant, PTL
=============================================================================
