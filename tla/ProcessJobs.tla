---------------------------- MODULE ProcessJobs ----------------------------
(***************************************************************************)
(* Process jobs: services/process-job.service.ts, the runner that carries  *)
(* a container deployment or rebuild out as a job (runInjectedContainerJob *)
(* in routes/containers.ts) and the job routes: poll, cancel and the event *)
(* stream.                                                                 *)
(*                                                                         *)
(* A job's log entries are their ids; what they say is left out.  Jobs and *)
(* streams live in memory only.  The runner starts in the microtask after  *)
(* the route that created the job, before any other request is handled.    *)
(***************************************************************************)
EXTENDS Naturals, Sequences, SequencesExt

CONSTANTS
    Jobs,       \* job ids: each is a fresh randomUUID()
    Heeding,    \* the jobs of which every command has its turn and heeds an abort
    Clients,    \* connections to the stream route: each streams once
    MaxLogs,    \* MAX_LOGS_PER_JOB
    MaxLogId,   \* bound: log entries a job's commands make it append
    None

ASSUME JobsAssumption ==
    Heeding \subseteq Jobs /\ MaxLogs \in Nat \ {0} /\ MaxLogId \in Nat /\ None \notin Jobs

VARIABLES
    jobs,       \* the map's keys
    status,     \* job.status
    logs,       \* job.logs
    nextLogId,  \* job.nextLogId
    cancelFn,   \* job.cancel is set
    reason,     \* job.cancelReason is set
    expired,    \* job.updatedAt is more than JOB_TTL_MS ago
    aborted,    \* the runner's AbortSignal
    handler,    \* the injected request
    scheduled,  \* the job whose runner is the pending microtask
    stream,     \* each client's response
    watched,    \* the job it streams
    received,   \* the log entries written to it
    lastStatus  \* the status last written to it

jobVars == <<jobs, status, logs, nextLogId, cancelFn, reason, expired>>
runVars == <<aborted, handler, scheduled>>
streamVars == <<stream, watched, received, lastStatus>>
vars == <<jobVars, runVars, streamVars>>

Terminal == {"success", "error", "cancelled"}
Statuses == {"queued", "running", "cancelling"} \cup Terminal

TypeOK ==
    /\ jobs \subseteq Jobs
    /\ status \in [Jobs -> Statuses \cup {"none"}]
    /\ logs \in [Jobs -> Seq(Nat)]
    /\ nextLogId \in [Jobs -> Nat]
    /\ cancelFn \in [Jobs -> BOOLEAN] /\ reason \in [Jobs -> BOOLEAN]
    /\ expired \in [Jobs -> BOOLEAN] /\ aborted \in [Jobs -> BOOLEAN]
    /\ handler \in [Jobs -> {"none", "running", "over"}]
    /\ scheduled \in Jobs \cup {None}
    /\ stream \in [Clients -> {"none", "open", "ended", "closed"}]
    /\ watched \in [Clients -> Jobs \cup {None}]
    /\ received \in [Clients -> Seq(Nat)]
    /\ lastStatus \in [Clients -> Statuses \cup {"none"}]

Init ==
    /\ jobs = {}
    /\ status = [j \in Jobs |-> "none"]
    /\ logs = [j \in Jobs |-> <<>>]
    /\ nextLogId = [j \in Jobs |-> 1]
    /\ cancelFn = [j \in Jobs |-> FALSE] /\ reason = [j \in Jobs |-> FALSE]
    /\ expired = [j \in Jobs |-> FALSE] /\ aborted = [j \in Jobs |-> FALSE]
    /\ handler = [j \in Jobs |-> "none"]
    /\ scheduled = None
    /\ stream = [c \in Clients |-> "none"]
    /\ watched = [c \in Clients |-> None]
    /\ received = [c \in Clients |-> <<>>]
    /\ lastStatus = [c \in Clients |-> "none"]

-----------------------------------------------------------------------------
(* process-job.service.ts.  The Wrong... forms, here and below, are        *)
(* mistakes the code could make; no definition uses them: they show that   *)
(* the properties can fail.                                                *)

\* Requests are handled when no microtask is pending.
WrongRequestsFirst == TRUE
Idle == scheduled = None

Subscribers(j) == {c \in Clients : stream[c] = "open" /\ watched[c] = j}

\* pruneJobs(), run by every creation and every lookup, spares the others.
Prunable(j) == Subscribers(j) = {} /\ status[j] \in Terminal /\ expired[j]
Kept == {j \in jobs : ~Prunable(j)}

\* The entries kept of `all`: the oldest beyond MAX_LOGS_PER_JOB go.
WrongNewestTrimmed(all) == SubSeq(all, 1, IF Len(all) > MaxLogs THEN MaxLogs ELSE Len(all))
Trimmed(all) ==
    LET excess == IF Len(all) > MaxLogs THEN Len(all) - MaxLogs ELSE 0
    IN  SubSeq(all, excess + 1, Len(all))

\* appendProcessJobLog(job, message): the entry is numbered and stored, and
\* every subscriber called.
AppendLog(j) ==
    /\ nextLogId' = [nextLogId EXCEPT ![j] = @ + 1]
    /\ logs' = [logs EXCEPT ![j] = Trimmed(Append(@, nextLogId[j]))]
    /\ expired' = [expired EXCEPT ![j] = FALSE]
    /\ received' = [c \in Clients |-> IF c \in Subscribers(j)
                                      THEN Append(received[c], nextLogId[j])
                                      ELSE received[c]]
    /\ UNCHANGED <<stream, watched, lastStatus>>

\* updateProcessJob(job, { status }), then the entry that says so.
Update(j, s) ==
    /\ status' = [status EXCEPT ![j] = s]
    /\ AppendLog(j)

\* createProcessJob() by a job route, which hands the job to the runner.
CreateProcessJob(j) ==
    /\ Idle
    /\ status[j] = "none"
    /\ jobs' = Kept \cup {j}
    /\ status' = [status EXCEPT ![j] = "queued"]
    /\ scheduled' = j
    /\ UNCHANGED <<logs, nextLogId, cancelFn, reason, expired, aborted, handler, streamVars>>

\* getProcessJob() by the poll route, or of a job that is not there.
GetProcessJob ==
    /\ Idle
    /\ Kept # jobs
    /\ jobs' = Kept
    /\ UNCHANGED <<status, logs, nextLogId, cancelFn, reason, expired, runVars, streamVars>>

\* job.cancel?.(reason): job.cancel is the runner's abort().
WrongNoCancelCall(j) == aborted[j]
AbortedBy(j) == aborted[j] \/ cancelFn[j]

\* The cancel route: getProcessJob and cancelProcessJob.
CancelProcessJob(j) ==
    /\ Idle
    /\ j \in Kept
    /\ jobs' = Kept
    /\ IF status[j] \in Terminal \cup {"cancelling"}
       THEN UNCHANGED <<status, logs, nextLogId, reason, expired, aborted, streamVars>>
       ELSE /\ reason' = [reason EXCEPT ![j] = TRUE]
            /\ aborted' = [aborted EXCEPT ![j] = AbortedBy(j)]
            /\ Update(j, "cancelling")
    /\ UNCHANGED <<cancelFn, handler, scheduled>>

\* An hour passes without an update of the job.
Expire(j) ==
    /\ Idle
    /\ j \in jobs /\ ~expired[j]
    /\ expired' = [expired EXCEPT ![j] = TRUE]
    /\ UNCHANGED <<jobs, status, logs, nextLogId, cancelFn, reason, runVars, streamVars>>

-----------------------------------------------------------------------------
(* runInjectedContainerJob                                                 *)

\* The microtask: a job cancelled by then ends, another starts.
Start(j) ==
    /\ scheduled = j
    /\ scheduled' = None
    /\ IF status[j] = "cancelling"
       THEN Update(j, "cancelled") /\ UNCHANGED <<cancelFn, handler>>
       ELSE /\ cancelFn' = [cancelFn EXCEPT ![j] = TRUE]
            /\ handler' = [handler EXCEPT ![j] = "running"]
            /\ Update(j, "running")
    /\ UNCHANGED <<jobs, reason, aborted>>

\* A command of the job writes to the log sink.  Some may do so after the
\* request was answered: those it issued together with one that failed.
CommandOutput(j) ==
    /\ Idle
    /\ handler[j] # "none"
    /\ nextLogId[j] < MaxLogId
    /\ AppendLog(j)
    /\ UNCHANGED <<jobs, status, cancelFn, reason, runVars>>

\* What the runner makes of the response.
WrongResponseDecides(j, response) == IF response = "ok" THEN "success" ELSE "error"
WrongStatusName(j, response) ==
    IF aborted[j] \/ status[j] = "cancelling" THEN "cancelled"
    ELSE IF response = "ok" THEN "success" ELSE response
Verdict(j, response) ==
    IF aborted[j] \/ status[j] = "cancelling" THEN "cancelled"
    ELSE IF response = "ok" THEN "success" ELSE "error"

\* app.inject() returns the handler's response.
Respond(j, response) ==
    /\ Idle
    /\ handler[j] = "running"
    /\ handler' = [handler EXCEPT ![j] = "over"]
    /\ Update(j, Verdict(j, response))
    /\ UNCHANGED <<jobs, cancelFn, reason, aborted, scheduled>>

-----------------------------------------------------------------------------
(* GET /jobs/:jobId/stream                                                 *)

\* The entries a new stream is sent at once.
WrongNoReplay(j) == <<>>
Replay(j) == logs[j]

\* The interval ends the stream of a job in one of these statuses.
WrongEndsOnCancel(s) == s \in Terminal \cup {"cancelling"}
Ends(s) == s \in Terminal

\* The status, the stored entries, then a subscription and the interval.
OpenStream(c, j) ==
    /\ Idle
    /\ stream[c] = "none"
    /\ j \in Kept
    /\ jobs' = Kept
    /\ stream' = [stream EXCEPT ![c] = "open"]
    /\ watched' = [watched EXCEPT ![c] = j]
    /\ lastStatus' = [lastStatus EXCEPT ![c] = status[j]]
    /\ received' = [received EXCEPT ![c] = Replay(j)]
    /\ UNCHANGED <<status, logs, nextLogId, cancelFn, reason, expired, runVars>>

\* The interval writes the status and ends the stream of a finished job.
StatusInterval(c) ==
    /\ Idle
    /\ stream[c] = "open"
    /\ lastStatus' = [lastStatus EXCEPT ![c] = status[watched[c]]]
    /\ IF Ends(status[watched[c]])
       THEN stream' = [stream EXCEPT ![c] = "ended"]
       ELSE UNCHANGED stream
    /\ UNCHANGED <<jobVars, runVars, watched, received>>

\* The client goes: req.raw emits 'close'.
CloseStream(c) ==
    /\ Idle
    /\ stream[c] = "open"
    /\ stream' = [stream EXCEPT ![c] = "closed"]
    /\ UNCHANGED <<jobVars, runVars, watched, received, lastStatus>>

Next ==
    \/ \E j \in Jobs : CreateProcessJob(j) \/ CancelProcessJob(j) \/ Expire(j)
    \/ \E j \in Jobs : Start(j) \/ CommandOutput(j)
    \/ \E j \in Jobs, response \in {"ok", "failed"} : Respond(j, response)
    \/ \E c \in Clients, j \in Jobs : OpenStream(c, j)
    \/ \E c \in Clients : StatusInterval(c) \/ CloseStream(c)
    \/ GetProcessJob

Spec == Init /\ [][Next]_vars

\* The event loop runs microtasks and intervals.  The request of an aborted job
\* is answered if its commands heed the signal, as those of execStrict do once
\* it is their turn (StreamCommand: AbortSettles); any other may hang for ever:
\* exec passes no signal on, and a command may hang that is before them.
FairSpec ==
    /\ Spec
    /\ \A j \in Jobs : WF_vars(Start(j))
    /\ \A j \in Heeding : WF_vars(aborted[j] /\ \E r \in {"ok", "failed"} : Respond(j, r))
    /\ \A c \in Clients : WF_vars(StatusInterval(c))

-----------------------------------------------------------------------------
(* Properties                                                              *)

\* Once requested, a cancellation decides the job: a request that completes
\* anyway cannot turn it into a success or an error; and a finished job stays
\* what it is.
CancellationDecides ==
    [][\A j \in Jobs :
         /\ status[j] = "cancelling" => status'[j] \in {"cancelling", "cancelled"}
         /\ status[j] \in Terminal => status'[j] = status[j]]_vars

\* A job being cancelled has had its commands told: there is no moment at
\* which a request can cancel it before job.cancel is there to be called.
CancellingAborts ==
    \A j \in Jobs : status[j] = "cancelling" => aborted[j]

\* A stream shows every entry once and in order, without a gap where the
\* replay of the stored entries meets the subscription.
StreamHasNoGap ==
    \A c \in Clients : \A i \in 1..(Len(received[c]) - 1) :
        received[c][i + 1] = received[c][i] + 1

\* An open stream is up to date: it lacks only entries that had been dropped
\* when it was opened.  In particular what a job logs as it ends is in the
\* stream before the interval ends that.
StreamUpToDate ==
    \A c \in Clients : stream[c] = "open" =>
        /\ watched[c] \in jobs
        /\ IF received[c] = <<>> THEN nextLogId[watched[c]] = 1
                                 ELSE Last(received[c]) = nextLogId[watched[c]] - 1

\* A stream is ended only with the job's final status written to it.
EndedWithFinalStatus ==
    \A c \in Clients : stream[c] = "ended" => lastStatus[c] \in Terminal

\* Only finished jobs are forgotten.
UnfinishedIsKept ==
    \A j \in Jobs : status[j] \notin Terminal \cup {"none"} => j \in jobs

\* A cancelled job whose commands heed an abort reaches its end, whatever the
\* commands of other jobs do.
CancelledJobEnds ==
    \A j \in Heeding : status[j] = "cancelling" ~> status[j] = "cancelled"

=============================================================================
