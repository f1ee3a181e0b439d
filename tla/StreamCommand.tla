--------------------------- MODULE StreamCommand ---------------------------
(***************************************************************************)
(* One streamCommand() call of ssh-services/commands.ts, from its place in *)
(* the stream queue to its settling, with the remote side of it: the       *)
(* wrapper script of buildTrackedCommand, the command it forks, and the    *)
(* script that terminateTrackedRemoteCommand runs over a connection of its *)
(* own.  exec() and execStrict() call it when a process job's log sink is  *)
(* set: execStrict with the job's run id and abort signal and the caller's *)
(* timeout, exec with no options at all.                                   *)
(*                                                                         *)
(* The channel's 'end' and 'close' events may come in either order: ssh2   *)
(* is not part of the repository, and the handlers are written for both.   *)
(***************************************************************************)
EXTENDS Naturals

VARIABLES
    options,     \* the options passed: runId, signal, timeoutMs given or not
    killable,    \* the host lets the panel's account signal the command, with sudo -n if need be
    local,       \* how far the call has come
    outcome,     \* how its promise settled
    exitCode,    \* what onClose was told
    aborted,     \* the job's AbortSignal
    listener,    \* the abort listener is registered
    commandTimer, \* the command timeout is armed
    connection,  \* the pooled connection the channel is on is alive
    channel,     \* the channel's events: which are still to come
    wrapper,     \* the wrapper script
    child,       \* the command
    pidFile,     \* the file through which the terminating script finds it
    killer,      \* the terminating script
    early        \* history: the call was stopped before the wrapper had recorded the PID

streamVars ==
    <<options, killable, local, outcome, exitCode, aborted, listener, commandTimer, connection,
      channel, wrapper, child, pidFile, killer, early>>

callVars == <<local, outcome, exitCode, listener, commandTimer>>
remoteVars == <<wrapper, child, pidFile>>
given == <<options, killable>>
termination == <<killer, early>>

Strict(timed) == [runId |-> TRUE, signal |-> TRUE, timeoutMs |-> timed]
Bare == [runId |-> FALSE, signal |-> FALSE, timeoutMs |-> FALSE]

StreamTypeOK ==
    /\ options \in {Strict(TRUE), Strict(FALSE), Bare}
    /\ killable \in BOOLEAN /\ early \in BOOLEAN
    /\ local \in {"queued", "connecting", "opening", "streaming", "settled"}
    /\ outcome \in {"none", "resolved", "cancelled", "timedout", "failed"}
    /\ exitCode \in {"none", "zero", "nonzero"}
    /\ aborted \in BOOLEAN /\ listener \in BOOLEAN /\ commandTimer \in BOOLEAN
    /\ connection \in BOOLEAN
    /\ channel \in {"none", "open", "ended", "closed"}
    /\ wrapper \in {"none", "started", "forked", "recording", "waiting", "exited"}
    /\ child \in {"none", "running", "succeeded", "failed", "killed"}
    /\ pidFile \in {"absent", "empty", "pid"}
    /\ killer \in {"none", "connecting", "termed", "done", "missed", "failed"}

StreamInit ==
    /\ options \in {Strict(TRUE), Strict(FALSE), Bare} /\ killable \in BOOLEAN
    /\ local = "queued" /\ outcome = "none" /\ exitCode = "none"
    /\ aborted = FALSE /\ listener = FALSE /\ commandTimer = FALSE
    /\ connection = FALSE /\ channel = "none"
    /\ wrapper = "none" /\ child = "none" /\ pidFile = "absent" /\ killer = "none"
    /\ early = FALSE

-----------------------------------------------------------------------------
(* Settling: finish(), fail(), cleanup() and terminate().  The Wrong...    *)
(* forms, here and below, are mistakes the code could make; no definition  *)
(* uses them: they show that the properties can fail.                      *)

\* cleanup(): the timer, the abort listener and the stream listeners go.
Cleanup == commandTimer' = FALSE /\ listener' = FALSE

\* fail(error): reject, unless settled.
Fail(o) ==
    IF local = "settled" THEN UNCHANGED callVars
    ELSE /\ local' = "settled" /\ outcome' = o
         /\ Cleanup
         /\ UNCHANGED exitCode

\* finish(code): onClose(code) and resolve, unless settled.
Finish(code) ==
    IF local = "settled" THEN UNCHANGED callVars
    ELSE /\ local' = "settled" /\ outcome' = "resolved" /\ exitCode' = code
         /\ Cleanup

\* terminate(reason): the remote kill is started and not awaited, the stream
\* destroyed and the server's pooled connection closed.
Terminate ==
    /\ killer' = IF options.runId THEN "connecting" ELSE killer
    /\ early' = (wrapper \in {"none", "started", "forked", "recording"})
    /\ channel' = "closed"
    /\ connection' = FALSE

-----------------------------------------------------------------------------
(* The call                                                                *)

\* The stream queue reaches the call, which asks for the pooled connection.
Dequeue ==
    /\ local = "queued"
    /\ local' = "connecting"
    /\ UNCHANGED <<given, outcome, exitCode, aborted, listener, commandTimer, connection,
                   channel, remoteVars, termination>>

\* getConnection() resolves and the command is sent over it, or it rejects.
Connected ==
    /\ local = "connecting"
    /\ local' = "opening"
    /\ connection' = TRUE
    /\ UNCHANGED <<given, outcome, exitCode, aborted, listener, commandTimer, channel,
                   remoteVars, termination>>

ConnectFails ==
    /\ local = "connecting"
    /\ Fail("failed")
    /\ UNCHANGED <<given, aborted, connection, channel, remoteVars, termination>>

\* connection.exec calls back with an error.
OpenFails ==
    /\ local = "opening"
    /\ Fail("failed")
    /\ UNCHANGED <<given, aborted, connection, channel, remoteVars, termination>>

\* The signal has been aborted before the channel was open.
WrongEarlyAbortMissed == FALSE
AbortedEarly == options.signal /\ aborted

\* connection.exec calls back with the stream, the remote side having begun:
\* a signal aborted by then is heeded here, a later abort by the listener.
Opened ==
    /\ local = "opening" /\ connection
    /\ IF options.runId
       THEN wrapper' = "started" /\ UNCHANGED child
       ELSE child' = "running" /\ UNCHANGED wrapper
    /\ IF AbortedEarly
       THEN Terminate /\ Fail("cancelled")
       ELSE /\ local' = "streaming" /\ channel' = "open"
            /\ listener' = options.signal
            /\ commandTimer' = options.timeoutMs
            /\ UNCHANGED <<outcome, exitCode, connection, termination>>
    /\ UNCHANGED <<given, aborted, pidFile>>

\* The job is cancelled: abort() runs the listener at once.
Abort ==
    /\ ~aborted
    /\ aborted' = TRUE
    /\ IF listener
       THEN Terminate /\ Fail("cancelled")
       ELSE UNCHANGED <<callVars, termination, channel, connection>>
    /\ UNCHANGED <<given, remoteVars>>

\* The command timeout fires.
TimeoutFires ==
    /\ commandTimer
    /\ Terminate /\ Fail("timedout")
    /\ UNCHANGED <<given, aborted, remoteVars>>

\* The remote side of the channel is through.
RemoteEnded == IF options.runId THEN wrapper = "exited"
                                ELSE child \notin {"none", "running"}

\* The exit status sshd reports: that of the wrapper, which is the child's.
WrongRemoteCode == IF child = "succeeded" THEN "zero" ELSE child
RemoteCode == IF child = "succeeded" THEN "zero" ELSE "nonzero"

\* 'end': all output has been read.
StreamEnd ==
    /\ channel = "open" /\ connection /\ RemoteEnded
    /\ channel' = "ended"
    /\ Finish("zero")
    /\ UNCHANGED <<given, aborted, connection, remoteVars, termination>>

\* 'close' with the exit code.
StreamClose ==
    /\ channel \in {"open", "ended"} /\ connection /\ RemoteEnded
    /\ channel' = "closed"
    /\ Finish(RemoteCode)
    /\ UNCHANGED <<given, aborted, connection, remoteVars, termination>>

\* The connection goes, closed by another command or by the network: an open
\* channel emits 'error', or 'close' with no code, which finish takes for 0;
\* a channel being opened fails (OpenFails).
ConnectionLost ==
    /\ connection
    /\ connection' = FALSE
    /\ channel' = IF channel = "none" THEN "none" ELSE "closed"
    /\ IF local = "streaming" THEN Finish("zero") \/ Fail("failed") ELSE UNCHANGED callVars
    /\ UNCHANGED <<given, aborted, remoteVars, termination>>

-----------------------------------------------------------------------------
(* The remote side                                                         *)

\* setsid bash -lc "command" &
Fork ==
    /\ wrapper = "started"
    /\ wrapper' = "forked" /\ child' = "running"
    /\ UNCHANGED <<given, callVars, aborted, connection, channel, pidFile, termination>>

\* printf "%s" "$child" > "$PID_FILE": the shell creates the file, then writes.
CreatePidFile ==
    /\ wrapper = "forked"
    /\ wrapper' = "recording" /\ pidFile' = "empty"
    /\ UNCHANGED <<given, callVars, aborted, connection, channel, child, termination>>

WritePid ==
    /\ wrapper = "recording"
    /\ wrapper' = "waiting"
    /\ pidFile' = IF pidFile = "empty" THEN "pid" ELSE pidFile
    /\ UNCHANGED <<given, callVars, aborted, connection, channel, child, termination>>

\* The command ends by itself, or on SIGTERM.
ChildExits(how) ==
    /\ child = "running"
    /\ how = "killed" => killer = "termed" /\ killable
    /\ child' = how
    /\ UNCHANGED <<given, callVars, aborted, connection, channel, wrapper, pidFile, termination>>

\* wait "$child" returns, and the EXIT trap removes the PID file.
WrapperExits ==
    /\ wrapper = "waiting" /\ child # "running"
    /\ wrapper' = "exited" /\ pidFile' = "absent"
    /\ UNCHANGED <<given, callVars, aborted, connection, channel, child, termination>>

\* The terminating script reads the PID file: with none, or no number in it,
\* it exits (and removes it); otherwise it sends SIGTERM and sleeps.
KillerLooks ==
    /\ killer = "connecting"
    /\ IF pidFile = "pid"
       THEN killer' = "termed" /\ UNCHANGED pidFile
       ELSE killer' = "missed" /\ pidFile' = "absent"
    /\ UNCHANGED <<given, callVars, aborted, connection, channel, wrapper, child, early>>

\* The command after SIGKILL, which the host may refuse: "|| true" ends the attempts to send it.
WrongNoKill == child
Killed == IF child = "running" /\ killable THEN "killed" ELSE child

\* After the sleep: SIGKILL, and the PID file is removed, whatever became of the command.
KillerKills ==
    /\ killer = "termed"
    /\ killer' = "done"
    /\ child' = Killed
    /\ pidFile' = "absent"
    /\ UNCHANGED <<given, callVars, aborted, connection, channel, wrapper, early>>

\* Its own connection fails before or during it: a warning is logged.
KillerFails ==
    /\ killer \in {"connecting", "termed"}
    /\ killer' = "failed"
    /\ UNCHANGED <<given, callVars, aborted, connection, channel, remoteVars, early>>

\* The call has settled and nothing of it is left running.
Over ==
    /\ local = "settled" /\ aborted
    /\ wrapper \in {"none", "exited"} /\ child # "running"
    /\ UNCHANGED streamVars

StreamNext ==
    \/ Dequeue \/ Connected \/ ConnectFails \/ OpenFails \/ Opened
    \/ Abort \/ TimeoutFires \/ StreamEnd \/ StreamClose \/ ConnectionLost
    \/ Fork \/ CreatePidFile \/ WritePid \/ WrapperExits
    \/ \E how \in {"succeeded", "failed", "killed"} : ChildExits(how)
    \/ KillerLooks \/ KillerKills \/ KillerFails
    \/ Over

StreamSpec == StreamInit /\ [][StreamNext]_streamVars

\* ssh2 answers every request or fails it (readyTimeout, keepalive) and remote
\* scripts run; nothing is assumed of the command itself, which may never end,
\* nor of the queue, which may be behind one that never does.  That a server which
\* is there answers the opening of a channel is assumed as well: before, nothing of
\* the call listens to its signal (SshExec does without this assumption).
StreamFairSpec ==
    /\ StreamSpec
    /\ WF_streamVars(Connected \/ ConnectFails)
    /\ WF_streamVars(Opened \/ OpenFails)
    /\ WF_streamVars(Fork) /\ WF_streamVars(CreatePidFile) /\ WF_streamVars(WritePid)
    /\ WF_streamVars(KillerLooks \/ KillerFails) /\ WF_streamVars(KillerKills \/ KillerFails)
    /\ WF_streamVars(TimeoutFires)

-----------------------------------------------------------------------------
(* Properties                                                              *)

\* An abort is never missed: not when it comes before the channel is open,
\* when there is no listener yet, and not when it comes later.
AbortHeeded == options.signal /\ aborted => local # "streaming"

\* What becomes of a tracked command whose call was cancelled or timed out.  The terminating
\* script has been begun.  When it is through it has killed the command, if the host allows
\* that, or has met one that was over; it misses a command that is still running, or still to
\* be forked, only if the call was stopped before the wrapper had recorded the PID.
StoppedCommandAccounted ==
    outcome \in {"cancelled", "timedout"} /\ options.runId =>
        /\ killer # "none"
        /\ killer = "done" /\ killable => child # "running"
        /\ killer = "missed" /\ child \in {"none", "running"} => early

\* A cancelled strict call that has its turn in the queue settles, wherever it
\* is and even when its command never ends.
AbortSettles == (options.signal /\ aborted /\ local # "queued") ~> (local = "settled")

\* "Execute command, throw on non-zero exit" (commands.ts:377): execStrict
\* returns when onClose was told 0.  Of a command whose output has been read to
\* its end over a live connection, onClose is told 0 only if it succeeded.
NonZeroExitThrows ==
    options # Bare /\ channel = "ended" /\ outcome = "resolved" /\ exitCode = "zero"
        => child = "succeeded"

=============================================================================
