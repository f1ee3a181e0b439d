------------------------------- MODULE SshExec -------------------------------
(***************************************************************************)
(* Commands on the shared connection of one server (ssh-services/          *)
(* commands.ts: exec with its timeout and its retry, streamCommand with    *)
(* its timeout), composed with the pool they take the connection from.     *)
(*                                                                         *)
(* CommandQueue shows that each of the two queues of a server runs one     *)
(* call at a time: the user Exec of the pool is the present call of        *)
(* commandQueues, Stream that of streamCommandQueues.  The other users of  *)
(* the pool (shells, metrics) take a connection as an untimed call does,   *)
(* and are not among the users here.  A call whose connection was granted  *)
(* has its command on it.                                                  *)
(***************************************************************************)
EXTENDS ConnectionPool

CONSTANTS Exec, Stream,
          MaxCalls,     \* bound on calls
          MaxCloses     \* bound: closings after which no route closes any more

ASSUME ExecAssumption ==
    /\ Users = {Exec, Stream} /\ Exec # Stream
    /\ MaxCalls \in Nat /\ MaxCloses \in Nat /\ 2 * MaxCalls <= MaxAttempts

VARIABLES
    call,   \* of each queue: the attempts its call has made, whether it has a timeout,
            \* whether streamCommand's callback has armed that, and whether it has fired
    calls   \* calls begun so far

execVars == <<pool, connectionPromise, conn, request, attempts, closes, call, calls>>

NoCall == [attempt |-> 0, timed |-> FALSE, armed |-> FALSE, timedOut |-> FALSE]

ExecTypeOK ==
    /\ TypeOK
    /\ call \in [Users -> [attempt : 0..2, timed : BOOLEAN, armed : BOOLEAN, timedOut : BOOLEAN]]
    /\ calls \in 0..MaxCalls

ExecInit == Init /\ call = [q \in Users |-> NoCall] /\ calls = 0

-----------------------------------------------------------------------------
(* Operations                                                              *)

\* The call's turn has come: it asks for the connection.
BeginCall(q, timed) ==
    /\ request[q].state = "none"
    /\ calls < MaxCalls /\ calls' = calls + 1
    /\ GetConnection(q)
    /\ call' = [call EXCEPT ![q] = [NoCall EXCEPT !.attempt = 1, !.timed = timed]]

\* The call is answered, and the next of its queue may run.
EndCall(q) == Release(q) /\ call' = [call EXCEPT ![q] = NoCall] /\ UNCHANGED calls

Running(q) == request[q].state = "granted" /\ call[q].attempt # 0 /\ ~call[q].timedOut

\* connection.exec hands the channel of a streamed command to its callback, which arms the
\* timeout, if there is one: the opening of the channel itself has none.
ChannelOpens(q) ==
    /\ q = Stream /\ Running(q) /\ call[q].timed /\ ~call[q].armed /\ conn[request[q].on] = "open"
    /\ call' = [call EXCEPT ![q].armed = TRUE]
    /\ UNCHANGED <<vars, calls>>

\* The command ends, or its channel does, or is refused: when the connection under it goes,
\* the promise of execCommand is resolved without an exit code, or rejected.
CommandEnds(q) == Running(q) /\ EndCall(q)

\* exec's first attempt is rejected with an error that counts as
\* recoverable: no connection, one that went, or one that opens no channel.
Retries(q) == q = Exec /\ call[q].attempt = 1 /\ ~call[q].timedOut
Retry(q) ==
    /\ Retries(q)
    /\ Reconnect(q)
    /\ call' = [call EXCEPT ![q].attempt = 2]
    /\ UNCHANGED calls

\* The handshake failed for another reason, or a second time.
ConnectionRefused(q) ==
    /\ request[q].state = "failed" /\ call[q].attempt # 0
    /\ EndCall(q)

\* The command's timeout fires: closeConnection(server.id) closes whatever
\* the pool holds, and with it the other queue's command.
WrongHasTimeout(q) == call[q].timed /\ call[q].attempt = 1 /\ (q = Stream => call[q].armed)
HasTimeout(q) == call[q].timed /\ (q = Stream => call[q].armed)
CommandTimesOut(q) ==
    /\ Running(q) /\ HasTimeout(q)
    /\ CloseConnection
    /\ call' = [call EXCEPT ![q].timedOut = TRUE]
    /\ UNCHANGED calls

\* "Command timed out after ..." is not recoverable: the call ends with it.
AnswerTimeout(q) == call[q].timedOut /\ EndCall(q)

-----------------------------------------------------------------------------
(* Routes that close the connection, and the network.                      *)

RouteCloses == closes < MaxCloses /\ CloseConnection /\ UNCHANGED <<call, calls>>

Handshake(c) == (ConnectOk(c) \/ ConnectFail(c)) /\ UNCHANGED <<call, calls>>
ConnectionEnds(c) == (Drop(c) \/ LifecycleEvent(c)) /\ UNCHANGED <<call, calls>>

Step(q) ==
    \/ ChannelOpens(q) \/ CommandEnds(q) \/ Retry(q) \/ ConnectionRefused(q)
    \/ CommandTimesOut(q) \/ AnswerTimeout(q)

ExecNext ==
    \/ \E q \in Users, timed \in BOOLEAN : BeginCall(q, timed)
    \/ \E q \in Users : Step(q)
    \/ \E c \in Conns : Handshake(c) \/ ConnectionEnds(c)
    \/ RouteCloses

ExecSpec == ExecInit /\ [][ExecNext]_execVars

\* Every handshake ends, at the latest when readyTimeout expires; the event
\* loop runs what follows a rejected promise, and timers.  Nothing is
\* assumed of a command, nor of the opening of a channel: both may hang for
\* ever.  As there are finitely many handshakes and calls, it is enough that
\* one of these steps happens while one is possible.
AfterFailure(q) == request[q].state = "failed" /\ (Retry(q) \/ ConnectionRefused(q))
Progress ==
    \/ \E c \in Conns : Handshake(c)
    \/ \E q \in Users : AfterFailure(q) \/ CommandTimesOut(q) \/ AnswerTimeout(q)
ExecFairSpec == ExecSpec /\ WF_execVars(Progress)

-----------------------------------------------------------------------------
(* Properties                                                              *)

\* A call of exec with a command timeout is answered, whatever becomes of the
\* connection under it: it may go at any moment, be closed by the timeout of
\* the other queue or by late events of an older one, and the call may be
\* on its second attempt.  So is a streamed one that has its channel.
TimedCallsSettle ==
    \A q \in Users :
        call[q].timed /\ call[q].attempt # 0 /\ (q = Stream => call[q].armed) ~> call[q].attempt = 0

\* The timeoutMs of streamCommand bounds the call: not so while its channel is being opened.
TimedStreamsSettle == call[Stream].timed /\ call[Stream].attempt # 0 ~> call[Stream].attempt = 0

=============================================================================
