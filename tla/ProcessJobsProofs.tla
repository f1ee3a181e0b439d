-------------------------- MODULE ProcessJobsProofs --------------------------
(***************************************************************************)
(* Proofs about ProcessJobs, for any sets of jobs and clients and any      *)
(* bound on the entries a job keeps.                                       *)
(*                                                                         *)
(* What a job's entries, and the entries an open stream has shown, have in *)
(* common is that they are consecutive and end with the entry appended     *)
(* last (EndsAt): the replay hands the one over to the other, and appending*)
(* to both, or dropping the oldest of the first, keeps it.  That a         *)
(* cancellation always finds job.cancel set rests on the runner being the  *)
(* next microtask after the creation (RunnerOK).                           *)
(***************************************************************************)
EXTENDS ProcessJobs, SequenceTheorems, TLAPS

\* The sequence is consecutive and its last element is n; it is empty only
\* when there is nothing it could hold.
EndsAt(s, n) ==
    /\ \A i \in 1..Len(s) : s[i] = (n - Len(s)) + i
    /\ Len(s) = 0 => n = 0

RunnerOK ==
    /\ \A j \in Jobs : status[j] = "queued" <=> scheduled = j
    /\ \A j \in Jobs : status[j] \in {"running", "cancelling"} <=> handler[j] = "running"
    /\ \A j \in Jobs : status[j] \in {"none", "queued"} <=> handler[j] = "none"
    /\ \A j \in Jobs : handler[j] = "running" => cancelFn[j]
    /\ \A j \in Jobs : status[j] = "cancelling" => aborted[j]

KeptOK ==
    /\ \A j \in Jobs : status[j] \notin Terminal \cup {"none"} => j \in jobs
    /\ \A j \in jobs : status[j] # "none"
    /\ \A c \in Clients : stream[c] = "open" => watched[c] \in jobs

LogsOK ==
    /\ \A j \in Jobs : nextLogId[j] >= 1
    /\ \A j \in Jobs : EndsAt(logs[j], nextLogId[j] - 1)

StreamsOK ==
    /\ \A c \in Clients : stream[c] = "open" => EndsAt(received[c], nextLogId[watched[c]] - 1)
    /\ \A c \in Clients : stream[c] = "ended" => lastStatus[c] \in Terminal

Inv == TypeOK /\ RunnerOK /\ KeptOK /\ LogsOK /\ StreamsOK /\ StreamHasNoGap

-----------------------------------------------------------------------------
(* Entries                                                                 *)

LEMMA AppendEndsAt ==
    ASSUME NEW s \in Seq(Nat), NEW n \in Nat, EndsAt(s, n)
    PROVE  Append(s, n + 1) \in Seq(Nat) /\ EndsAt(Append(s, n + 1), n + 1)
<1> DEFINE t == Append(s, n + 1)
<1>1. t \in Seq(Nat) /\ Len(t) = Len(s) + 1 /\ Len(s) \in Nat
  OBVIOUS
<1>2. ASSUME NEW i \in 1..Len(t)
      PROVE  t[i] = (n + 1 - Len(t)) + i
  <2>1. CASE i \in 1..Len(s)
    BY <1>1, <2>1 DEF EndsAt
  <2>2. CASE i = Len(s) + 1
    BY <1>1, <2>2
  <2>3. QED
    BY <1>1, <2>1, <2>2
<1>3. QED
  BY <1>1, <1>2 DEF EndsAt

\* Dropping the oldest entries leaves those that end at the same one.
LEMMA DropEndsAt ==
    ASSUME NEW s \in Seq(Nat), NEW n \in Nat, EndsAt(s, n),
           NEW k \in Nat, k < Len(s)
    PROVE  /\ SubSeq(s, k + 1, Len(s)) \in Seq(Nat)
           /\ EndsAt(SubSeq(s, k + 1, Len(s)), n)
<1> DEFINE t == SubSeq(s, k + 1, Len(s))
<1>1. Len(s) \in Nat
  OBVIOUS
<1>2. /\ t \in Seq(Nat)
      /\ Len(t) = Len(s) - k
      /\ \A i \in 1..(Len(s) - k) : t[i] = s[k + i]
  <2>1. k + 1 \in Int /\ Len(s) \in Int /\ \A i \in (k + 1)..Len(s) : s[i] \in Nat
    BY <1>1
  <2>2. /\ t \in Seq(Nat)
        /\ Len(t) = IF k + 1 <= Len(s) THEN Len(s) - (k + 1) + 1 ELSE 0
        /\ \A i \in 1..(Len(s) - (k + 1) + 1) : t[i] = s[(k + 1) + i - 1]
    BY <2>1, SubSeqProperties
  <2> HIDE DEF t
  <2>3. Len(s) - (k + 1) + 1 = Len(s) - k /\ k + 1 <= Len(s)
    BY <1>1
  <2>4. \A i \in 1..(Len(s) - k) : (k + 1) + i - 1 = k + i
    BY <1>1
  <2>5. QED
    BY <2>2, <2>3, <2>4
<1>3. ASSUME NEW i \in 1..Len(t)
      PROVE  t[i] = (n - Len(t)) + i
  <2> HIDE DEF t
  <2>1. k + i \in 1..Len(s) /\ t[i] = s[k + i]
    BY <1>1, <1>2
  <2>2. s[k + i] = (n - Len(s)) + (k + i)
    BY <2>1 DEF EndsAt
  <2>3. QED
    BY <1>1, <1>2, <2>1, <2>2
<1> HIDE DEF t
<1>4. Len(t) # 0
  BY <1>1, <1>2
<1>5. t \in Seq(Nat) /\ EndsAt(t, n)
  BY <1>2, <1>3, <1>4 DEF EndsAt
<1>6. QED
  BY <1>5 DEF t

\* appendProcessJobLog keeps the stored entries, and those of the job's
\* subscribers, consecutive up to the new one.
LEMMA AppendLogEntries ==
    ASSUME TypeOK, KeptOK, LogsOK, StreamsOK, StreamHasNoGap, NEW j \in Jobs, AppendLog(j)
    PROVE  /\ logs' \in [Jobs -> Seq(Nat)] /\ nextLogId' \in [Jobs -> Nat]
           /\ expired' \in [Jobs -> BOOLEAN] /\ received' \in [Clients -> Seq(Nat)]
           /\ LogsOK' /\ StreamHasNoGap'
           /\ StreamsOK'
<1> USE JobsAssumption DEF TypeOK
<1> DEFINE n == nextLogId[j] - 1
           all == Append(logs[j], nextLogId[j])
           excess == IF Len(all) > MaxLogs THEN Len(all) - MaxLogs ELSE 0
<1>1. n \in Nat /\ n + 1 = nextLogId[j] /\ logs[j] \in Seq(Nat) /\ EndsAt(logs[j], n)
  BY DEF LogsOK
<1>2. all \in Seq(Nat) /\ EndsAt(all, nextLogId[j]) /\ Len(all) \in Nat \ {0}
  <2>1. all \in Seq(Nat) /\ EndsAt(all, nextLogId[j])
    BY <1>1, AppendEndsAt
  <2>2. Len(all) = Len(logs[j]) + 1 /\ Len(logs[j]) \in Nat
    BY <1>1
  <2>3. QED
    BY <2>1, <2>2
<1>3. excess \in Nat /\ excess < Len(all)
  BY <1>2
<1>4. /\ SubSeq(all, excess + 1, Len(all)) \in Seq(Nat)
      /\ EndsAt(SubSeq(all, excess + 1, Len(all)), nextLogId[j])
  <2> HIDE DEF all, excess
  <2>1. QED
    BY <1>1, <1>2, <1>3, DropEndsAt
<1>5. /\ logs' = [logs EXCEPT ![j] = SubSeq(all, excess + 1, Len(all))]
      /\ nextLogId' = [nextLogId EXCEPT ![j] = nextLogId[j] + 1]
  BY DEF AppendLog, Trimmed
<1>6. logs' \in [Jobs -> Seq(Nat)] /\ nextLogId' \in [Jobs -> Nat] /\ LogsOK'
  <2> HIDE DEF all, excess
  <2>1. logs' \in [Jobs -> Seq(Nat)] /\ nextLogId' \in [Jobs -> Nat]
    BY <1>4, <1>5
  <2>2. ASSUME NEW i \in Jobs PROVE nextLogId'[i] >= 1 /\ EndsAt(logs'[i], nextLogId'[i] - 1)
    <3>1. CASE i = j
      BY <1>1, <1>4, <1>5, <3>1
    <3>2. CASE i # j
      BY <1>5, <3>2 DEF LogsOK
    <3>3. QED
      BY <3>1, <3>2
  <2>3. QED
    BY <2>1, <2>2 DEF LogsOK
<1>7. \A c \in Clients : c \in Subscribers(j) =>
          /\ received'[c] = Append(received[c], nextLogId[j])
          /\ received'[c] \in Seq(Nat) /\ EndsAt(received'[c], nextLogId[j])
  <2> SUFFICES ASSUME NEW c \in Clients, c \in Subscribers(j)
               PROVE  /\ received'[c] = Append(received[c], nextLogId[j])
                      /\ received'[c] \in Seq(Nat) /\ EndsAt(received'[c], nextLogId[j])
    OBVIOUS
  <2>1. EndsAt(received[c], n)
    BY DEF Subscribers, StreamsOK
  <2>2. received'[c] = Append(received[c], nextLogId[j])
    BY DEF AppendLog
  <2>3. QED
    BY <1>1, <2>1, <2>2, AppendEndsAt
<1>8. \A c \in Clients : c \notin Subscribers(j) => received'[c] = received[c]
  BY DEF AppendLog
<1>9. received' \in [Clients -> Seq(Nat)]
  <2>1. \A c \in Clients : received'[c] \in Seq(Nat)
    BY <1>7, <1>8
  <2>2. received' = [c \in Clients |-> received'[c]]
    BY DEF AppendLog
  <2>3. QED
    BY <2>1, <2>2
<1>10. StreamsOK'
  <2>1. ASSUME NEW c \in Clients, stream'[c] = "open"
        PROVE  EndsAt(received'[c], nextLogId'[watched'[c]] - 1)
    <3>1. stream[c] = "open" /\ watched'[c] = watched[c] /\ watched[c] \in Jobs
      BY <2>1 DEF AppendLog, KeptOK
    <3>2. CASE watched[c] = j
      <4>1. c \in Subscribers(j)
        BY <3>1, <3>2 DEF Subscribers
      <4>2. nextLogId'[watched'[c]] - 1 = nextLogId[j]
        BY <1>1, <1>5, <3>1, <3>2
      <4>3. QED
        BY <1>7, <4>1, <4>2
    <3>3. CASE watched[c] # j
      BY <1>5, <1>8, <3>1, <3>3 DEF Subscribers, StreamsOK
    <3>4. QED
      BY <3>2, <3>3
  <2>2. \A c \in Clients : stream'[c] = "ended" => lastStatus'[c] \in Terminal
    BY DEF AppendLog, StreamsOK
  <2>3. QED
    BY <2>1, <2>2 DEF StreamsOK
<1>11. StreamHasNoGap'
  <2>1. ASSUME NEW c \in Clients, NEW i \in 1..(Len(received'[c]) - 1)
        PROVE  received'[c][i + 1] = received'[c][i] + 1
    <3>1. CASE c \in Subscribers(j)
      <4>1. Len(received'[c]) \in Nat /\ i \in 1..Len(received'[c]) /\ i + 1 \in 1..Len(received'[c])
        BY <1>7, <2>1, <3>1
      <4>2. /\ received'[c][i] = (nextLogId[j] - Len(received'[c])) + i
            /\ received'[c][i + 1] = (nextLogId[j] - Len(received'[c])) + (i + 1)
        BY <1>7, <3>1, <4>1 DEF EndsAt
      <4>3. i \in Int /\ nextLogId[j] \in Int
        BY <1>1, <4>1
      <4> DEFINE len == Len(received'[c])
                 last == nextLogId[j]
      <4>4. i \in Int /\ last \in Int /\ len \in Int
        BY <4>1, <4>3
      <4>5. (last - len) + (i + 1) = ((last - len) + i) + 1
        <5> HIDE DEF len, last
        <5> QED
          BY ONLY <4>4
      <4> HIDE DEF n, all, excess
      <4>6. QED
        BY <4>2, <4>5, Zenon
    <3>2. CASE c \notin Subscribers(j)
      BY <1>8, <2>1, <3>2 DEF StreamHasNoGap
    <3>3. QED
      BY <3>1, <3>2
  <2>2. QED
    BY <2>1 DEF StreamHasNoGap
<1>12. expired' \in [Jobs -> BOOLEAN]
  BY DEF AppendLog
<1>13. QED
  BY <1>6, <1>9, <1>10, <1>11, <1>12

-----------------------------------------------------------------------------
(* The steps: the map, the runner and what they say of the job's status    *)

\* pruneJobs() drops neither a job that is not finished nor one with a
\* subscriber.
LEMMA KeptKeeps ==
    ASSUME TypeOK, KeptOK
    PROVE  /\ Kept \subseteq jobs
           /\ \A j \in Jobs : status[j] \notin Terminal \cup {"none"} => j \in Kept
           /\ \A c \in Clients : stream[c] = "open" => watched[c] \in Kept
BY DEF TypeOK, KeptOK, Kept, Prunable, Subscribers

LEMMA CreateInductive ==
    ASSUME Inv, NEW j \in Jobs, CreateProcessJob(j)
    PROVE  Inv'
<1> USE JobsAssumption DEF Inv, TypeOK, Statuses, Terminal
<1>1. TypeOK'
  BY KeptKeeps DEF CreateProcessJob, streamVars
<1>2. RunnerOK'
  BY DEF CreateProcessJob, Idle, RunnerOK
<1>3. KeptOK'
  BY KeptKeeps DEF CreateProcessJob, KeptOK, streamVars
<1>4. LogsOK' /\ StreamsOK' /\ StreamHasNoGap'
  BY DEF CreateProcessJob, streamVars, LogsOK, StreamsOK, StreamHasNoGap
<1>5. QED
  BY <1>1, <1>2, <1>3, <1>4

LEMMA GetInductive ==
    ASSUME Inv, GetProcessJob
    PROVE  Inv'
<1> USE JobsAssumption DEF Inv, TypeOK, Statuses, Terminal
<1>1. TypeOK' /\ KeptOK'
  BY KeptKeeps DEF GetProcessJob, KeptOK, streamVars, runVars
<1>2. RunnerOK' /\ LogsOK' /\ StreamsOK' /\ StreamHasNoGap'
  BY DEF GetProcessJob, streamVars, runVars, RunnerOK, LogsOK, StreamsOK, StreamHasNoGap
<1>3. QED
  BY <1>1, <1>2

LEMMA CancelInductive ==
    ASSUME Inv, NEW j \in Jobs, CancelProcessJob(j)
    PROVE  Inv'
<1> USE JobsAssumption DEF Inv, TypeOK, Statuses, Terminal
<1>1. j \in Kept /\ jobs' = Kept /\ Kept \subseteq jobs /\ scheduled = None
      /\ UNCHANGED <<cancelFn, handler, scheduled>>
  BY KeptKeeps DEF CancelProcessJob, Idle
<1>2. CASE status[j] \in Terminal \cup {"cancelling"}
  <2>1. UNCHANGED <<status, logs, nextLogId, reason, expired, aborted, streamVars>>
    BY <1>2 DEF CancelProcessJob
  <2>2. TypeOK' /\ KeptOK'
    BY <1>1, <2>1, KeptKeeps DEF KeptOK, streamVars
  <2>3. RunnerOK' /\ LogsOK' /\ StreamsOK' /\ StreamHasNoGap'
    BY <1>1, <2>1 DEF streamVars, RunnerOK, LogsOK, StreamsOK, StreamHasNoGap
  <2>4. QED
    BY <2>2, <2>3
<1>3. CASE status[j] \notin Terminal \cup {"cancelling"}
  <2>1. /\ reason' = [reason EXCEPT ![j] = TRUE]
        /\ aborted' = [aborted EXCEPT ![j] = aborted[j] \/ cancelFn[j]]
        /\ status' = [status EXCEPT ![j] = "cancelling"]
        /\ AppendLog(j)
    BY <1>3 DEF CancelProcessJob, Update, AbortedBy, Idle
  <2>2. status[j] = "running"
    BY <1>1, <1>3 DEF RunnerOK, KeptOK
  <2>3. /\ logs' \in [Jobs -> Seq(Nat)] /\ nextLogId' \in [Jobs -> Nat]
        /\ expired' \in [Jobs -> BOOLEAN] /\ received' \in [Clients -> Seq(Nat)]
        /\ LogsOK' /\ StreamHasNoGap' /\ StreamsOK'
    BY <2>1, AppendLogEntries
  <2>4. UNCHANGED <<stream, watched, lastStatus>>
    BY <2>1 DEF AppendLog
  <2>5. TypeOK'
    BY <1>1, <2>1, <2>3, <2>4
  <2>6. RunnerOK'
    BY <1>1, <2>1, <2>2 DEF RunnerOK
  <2>7. KeptOK'
    BY <1>1, <2>1, <2>4, KeptKeeps DEF KeptOK
  <2>8. QED
    BY <2>3, <2>5, <2>6, <2>7
<1>4. QED
  BY <1>2, <1>3

LEMMA ExpireInductive ==
    ASSUME Inv, NEW j \in Jobs, Expire(j)
    PROVE  Inv'
<1> USE JobsAssumption DEF Inv, TypeOK, Statuses, Terminal, Expire, streamVars, runVars
<1>1. TypeOK' /\ KeptOK'
  BY DEF KeptOK
<1>2. RunnerOK' /\ LogsOK' /\ StreamsOK' /\ StreamHasNoGap'
  BY DEF RunnerOK, LogsOK, StreamsOK, StreamHasNoGap
<1>3. QED
  BY <1>1, <1>2

\* The runner finds the job as the creation left it.
LEMMA StartInductive ==
    ASSUME Inv, NEW j \in Jobs, Start(j)
    PROVE  Inv'
<1> USE JobsAssumption DEF Inv, TypeOK, Statuses, Terminal
<1>1. status[j] = "queued" /\ scheduled = j /\ scheduled' = None
      /\ UNCHANGED <<jobs, reason, aborted>>
  BY DEF Start, RunnerOK
<1>2. /\ cancelFn' = [cancelFn EXCEPT ![j] = TRUE]
      /\ handler' = [handler EXCEPT ![j] = "running"]
      /\ status' = [status EXCEPT ![j] = "running"]
      /\ AppendLog(j)
  BY <1>1 DEF Start, Update
<1>3. /\ logs' \in [Jobs -> Seq(Nat)] /\ nextLogId' \in [Jobs -> Nat]
      /\ expired' \in [Jobs -> BOOLEAN] /\ received' \in [Clients -> Seq(Nat)]
      /\ LogsOK' /\ StreamHasNoGap' /\ StreamsOK'
  BY <1>2, AppendLogEntries
<1>4. UNCHANGED <<stream, watched, lastStatus>>
  BY <1>2 DEF AppendLog
<1>5. TypeOK'
  BY <1>1, <1>2, <1>3, <1>4
<1>6. RunnerOK'
  BY <1>1, <1>2 DEF RunnerOK
<1>7. KeptOK'
  BY <1>1, <1>2, <1>4 DEF KeptOK
<1>8. QED
  BY <1>3, <1>5, <1>6, <1>7

LEMMA OutputInductive ==
    ASSUME Inv, NEW j \in Jobs, CommandOutput(j)
    PROVE  Inv'
<1> USE JobsAssumption DEF Inv, TypeOK, Statuses, Terminal
<1>1. AppendLog(j) /\ UNCHANGED <<jobs, status, cancelFn, reason, aborted, handler, scheduled>>
  BY DEF CommandOutput, runVars
<1>2. /\ logs' \in [Jobs -> Seq(Nat)] /\ nextLogId' \in [Jobs -> Nat]
      /\ expired' \in [Jobs -> BOOLEAN] /\ received' \in [Clients -> Seq(Nat)]
      /\ LogsOK' /\ StreamHasNoGap' /\ StreamsOK'
  BY <1>1, AppendLogEntries
<1>3. UNCHANGED <<stream, watched, lastStatus>>
  BY <1>1 DEF AppendLog
<1>4. TypeOK' /\ KeptOK'
  BY <1>1, <1>2, <1>3 DEF KeptOK
<1>5. RunnerOK'
  BY <1>1 DEF RunnerOK
<1>6. QED
  BY <1>2, <1>4, <1>5

\* The status the response gives the job: that of the branch taken.
LEMMA RespondInductive ==
    ASSUME Inv, NEW j \in Jobs, NEW response \in {"ok", "failed"}, Respond(j, response)
    PROVE  Inv'
<1> USE JobsAssumption DEF Inv, TypeOK, Statuses, Terminal
<1>1. PICK s \in Terminal : status' = [status EXCEPT ![j] = s]
  BY DEF Respond, Update, Verdict
<1>2. AppendLog(j) /\ handler[j] = "running" /\ handler' = [handler EXCEPT ![j] = "over"]
      /\ UNCHANGED <<jobs, cancelFn, reason, aborted, scheduled>>
  BY DEF Respond, Update
<1>3. /\ logs' \in [Jobs -> Seq(Nat)] /\ nextLogId' \in [Jobs -> Nat]
      /\ expired' \in [Jobs -> BOOLEAN] /\ received' \in [Clients -> Seq(Nat)]
      /\ LogsOK' /\ StreamHasNoGap' /\ StreamsOK'
  BY <1>2, AppendLogEntries
<1>4. UNCHANGED <<stream, watched, lastStatus>>
  BY <1>2 DEF AppendLog
<1>5. TypeOK'
  BY <1>1, <1>2, <1>3, <1>4
<1>6. RunnerOK'
  BY <1>1, <1>2 DEF RunnerOK
<1>7. KeptOK'
  BY <1>1, <1>2, <1>4 DEF KeptOK
<1>8. QED
  BY <1>3, <1>5, <1>6, <1>7

\* The replay gives a new stream what every open stream of the job has.
LEMMA OpenInductive ==
    ASSUME Inv, NEW c \in Clients, NEW j \in Jobs, OpenStream(c, j)
    PROVE  Inv'
<1> USE JobsAssumption DEF Inv, TypeOK, Statuses, Terminal
<1>1. j \in Kept /\ Kept \subseteq jobs /\ status[j] # "none"
  BY KeptKeeps DEF OpenStream, KeptOK
<1>2. TypeOK'
  BY <1>1 DEF OpenStream, Replay, runVars
<1>3. RunnerOK' /\ LogsOK'
  BY DEF OpenStream, runVars, RunnerOK, LogsOK
<1>4. KeptOK'
  BY <1>1, KeptKeeps DEF OpenStream, KeptOK
<1>5. StreamsOK'
  BY DEF OpenStream, Replay, StreamsOK, LogsOK
<1>6. StreamHasNoGap'
  <2>1. ASSUME NEW i \in 1..(Len(logs[j]) - 1)
        PROVE  logs[j][i + 1] = logs[j][i] + 1
    <3>1. /\ Len(logs[j]) \in Nat /\ nextLogId[j] \in Nat /\ i \in Nat
          /\ i \in 1..Len(logs[j]) /\ i + 1 \in 1..Len(logs[j])
      BY <2>1
    <3>2. /\ logs[j][i] = (nextLogId[j] - 1 - Len(logs[j])) + i
          /\ logs[j][i + 1] = (nextLogId[j] - 1 - Len(logs[j])) + (i + 1)
      BY <3>1 DEF LogsOK, EndsAt
    <3>3. QED
      BY <3>1, <3>2
  <2>2. \A d \in Clients : received'[d] = IF d = c THEN logs[j] ELSE received[d]
    BY DEF OpenStream, Replay
  <2>3. ASSUME NEW d \in Clients, NEW i \in 1..(Len(received'[d]) - 1)
        PROVE  received'[d][i + 1] = received'[d][i] + 1
    <3>1. CASE d = c
      BY <2>1, <2>2, <2>3, <3>1
    <3>2. CASE d # c
      <4>1. received'[d] = received[d]
        BY <2>2, <3>2
      <4>2. QED
        BY <2>3, <4>1 DEF StreamHasNoGap
    <3>3. QED
      BY <3>1, <3>2
  <2>4. QED
    BY <2>3 DEF StreamHasNoGap
<1>7. QED
  BY <1>2, <1>3, <1>4, <1>5, <1>6

LEMMA IntervalInductive ==
    ASSUME Inv, NEW c \in Clients, StatusInterval(c)
    PROVE  Inv'
<1> USE JobsAssumption DEF Inv, TypeOK, Statuses, Terminal
<1>1. stream[c] = "open" /\ watched[c] \in jobs /\ status[watched[c]] # "none"
      /\ UNCHANGED <<jobVars, runVars, watched, received>>
  BY DEF StatusInterval, KeptOK
<1>2. TypeOK'
  BY <1>1 DEF StatusInterval, jobVars, runVars
<1>3. RunnerOK' /\ LogsOK' /\ StreamHasNoGap'
  BY <1>1 DEF jobVars, runVars, RunnerOK, LogsOK, StreamHasNoGap
<1>4. KeptOK'
  BY <1>1 DEF StatusInterval, jobVars, KeptOK
<1>5. StreamsOK'
  BY <1>1 DEF StatusInterval, Ends, jobVars, StreamsOK
<1>6. QED
  BY <1>2, <1>3, <1>4, <1>5

LEMMA CloseInductive ==
    ASSUME Inv, NEW c \in Clients, CloseStream(c)
    PROVE  Inv'
<1> USE JobsAssumption DEF Inv, TypeOK, Statuses, Terminal, CloseStream, jobVars, runVars
<1>1. TypeOK' /\ KeptOK'
  BY DEF KeptOK
<1>2. RunnerOK' /\ LogsOK' /\ StreamsOK' /\ StreamHasNoGap'
  BY DEF RunnerOK, LogsOK, StreamsOK, StreamHasNoGap
<1>3. QED
  BY <1>1, <1>2

LEMMA InvInductive == Inv /\ [Next]_vars => Inv'
<1> SUFFICES ASSUME Inv, [Next]_vars PROVE Inv'
  OBVIOUS
<1>1. CASE UNCHANGED vars
  BY <1>1 DEF vars, jobVars, runVars, streamVars, Inv, TypeOK, RunnerOK, KeptOK, LogsOK,
              StreamsOK, StreamHasNoGap
<1>2. CASE Next
  BY <1>2, CreateInductive, CancelInductive, ExpireInductive, StartInductive,
     OutputInductive, RespondInductive, OpenInductive, IntervalInductive,
     CloseInductive, GetInductive DEF Next
<1>3. QED
  BY <1>1, <1>2

THEOREM Invariance == Spec => []Inv
<1>1. Init => Inv
  <2> SUFFICES ASSUME Init PROVE Inv
    OBVIOUS
  <2> USE JobsAssumption DEF Init, Statuses, Terminal
  <2>1. TypeOK
    BY DEF TypeOK
  <2>2. RunnerOK /\ KeptOK
    BY DEF RunnerOK, KeptOK
  <2>3. LogsOK /\ StreamsOK /\ StreamHasNoGap
    BY DEF LogsOK, StreamsOK, StreamHasNoGap, EndsAt
  <2>4. QED
    BY <2>1, <2>2, <2>3 DEF Inv
<1>2. QED
  BY <1>1, InvInductive, PTL DEF Spec

-----------------------------------------------------------------------------
(* The properties                                                          *)

\* The variables of the job service, the runner and the streams keep their
\* types.
THEOREM TypeCorrect == Spec => []TypeOK
<1>1. Inv => TypeOK
  BY DEF Inv
<1>2. QED
  BY <1>1, Invariance, PTL

\* A job being cancelled has had its abort signal set: cancelProcessJob never
\* comes between the creation of a job and the setting of job.cancel.
THEOREM CancelReachesCommands == Spec => []CancellingAborts
<1>1. Inv => CancellingAborts
  BY DEF Inv, RunnerOK, CancellingAborts
<1>2. QED
  BY <1>1, Invariance, PTL

\* Only finished jobs are pruned.
THEOREM UnfinishedNeverPruned == Spec => []UnfinishedIsKept
<1>1. Inv => UnfinishedIsKept
  BY DEF Inv, KeptOK, UnfinishedIsKept
<1>2. QED
  BY <1>1, Invariance, PTL

\* A stream shows every entry of its job once and in order from the first one
\* still stored when it was opened.
THEOREM StreamsConsecutive == Spec => []StreamHasNoGap
<1>1. Inv => StreamHasNoGap
  BY DEF Inv
<1>2. QED
  BY <1>1, Invariance, PTL

\* An open stream has every entry appended since it was opened, and its job
\* has not been pruned from under it.
THEOREM StreamsUpToDate == Spec => []StreamUpToDate
<1>1. Inv => StreamUpToDate
  <2> SUFFICES ASSUME Inv, NEW c \in Clients, stream[c] = "open"
               PROVE  /\ watched[c] \in jobs
                      /\ IF received[c] = <<>> THEN nextLogId[watched[c]] = 1
                         ELSE Last(received[c]) = nextLogId[watched[c]] - 1
    BY DEF StreamUpToDate
  <2>1. /\ watched[c] \in jobs /\ nextLogId[watched[c]] \in Nat /\ received[c] \in Seq(Nat)
        /\ EndsAt(received[c], nextLogId[watched[c]] - 1)
    BY DEF Inv, TypeOK, KeptOK, StreamsOK
  <2>2. CASE received[c] = <<>>
    BY <2>1, <2>2 DEF EndsAt
  <2>3. CASE received[c] # <<>>
    <3>1. Len(received[c]) \in 1..Len(received[c]) /\ Len(received[c]) \in Nat
      BY <2>1, <2>3
    <3>2. received[c][Len(received[c])]
            = ((nextLogId[watched[c]] - 1) - Len(received[c])) + Len(received[c])
      BY <2>1, <3>1 DEF EndsAt
    <3>3. Last(received[c]) = nextLogId[watched[c]] - 1
      BY <2>1, <3>1, <3>2 DEF Last
    <3>4. QED
      BY <2>1, <2>3, <3>3
  <2>4. QED
    BY <2>1, <2>2, <2>3
<1>2. QED
  BY <1>1, Invariance, PTL

\* A stream is ended by the interval only after the final status was written.
THEOREM StreamsEndFinal == Spec => []EndedWithFinalStatus
<1>1. Inv => EndedWithFinalStatus
  BY DEF Inv, StreamsOK, EndedWithFinalStatus
<1>2. QED
  BY <1>1, Invariance, PTL

\* A requested cancellation decides the job, and a finished job stays as it is.
THEOREM CancellationIsFinal == Spec => CancellationDecides
<1> DEFINE Decides == \A j \in Jobs :
         /\ status[j] = "cancelling" => status'[j] \in {"cancelling", "cancelled"}
         /\ status[j] \in Terminal => status'[j] = status[j]
<1>1. Inv /\ [Next]_vars => [Decides]_vars
  <2> SUFFICES ASSUME Inv, Next PROVE Decides
    OBVIOUS
  <2> USE DEF Inv, TypeOK, Terminal
  <2>1. ASSUME NEW j \in Jobs, CreateProcessJob(j) PROVE Decides
    BY <2>1 DEF CreateProcessJob
  <2>2. ASSUME NEW j \in Jobs, CancelProcessJob(j) PROVE Decides
    BY <2>2 DEF CancelProcessJob, Update
  <2>3. ASSUME NEW j \in Jobs, Start(j) PROVE Decides
    BY <2>3 DEF Start, Update, RunnerOK
  <2>4. ASSUME NEW j \in Jobs, NEW response \in {"ok", "failed"}, Respond(j, response)
        PROVE  Decides
    BY <2>4 DEF Respond, Update, Verdict, RunnerOK
  <2>5. CASE UNCHANGED status
    BY <2>5
  <2>6. QED
    BY <2>1, <2>2, <2>3, <2>4, <2>5
       DEF Next, Expire, CommandOutput, OpenStream, StatusInterval, CloseStream, GetProcessJob, jobVars
<1>2. QED
  BY <1>1, Invariance, PTL DEF Spec, CancellationDecides

=============================================================================
