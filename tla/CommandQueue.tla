---------------------------- MODULE CommandQueue ----------------------------
(***************************************************************************)
(* The per-server command queue of ssh-services/commands.ts.               *)
(*                                                                         *)
(* enqueueCommand() keeps, for every server id, the promise of the last    *)
(* task it was given, and chains each new task after it.  A caller may     *)
(* bound the time its task waits in the queue.  The code has two such maps *)
(* with the same code: commandQueues (exec, execStrict) and                *)
(* streamCommandQueues (streamCommand).                                    *)
(*                                                                         *)
(* A step is what runs between two returns to the event loop, or one       *)
(* promise reaction of the chain.  Timers are macrotasks: they fire only   *)
(* when no reaction of the chain is pending (Quiet).                       *)
(***************************************************************************)
EXTENDS Naturals

CONSTANTS
    Servers,    \* server ids, the keys of the map
    Tasks,      \* one element per call of enqueueCommand
    NoTask        \* an absent map entry, or no predecessor

ASSUME NoTaskAssumption == NoTask \notin Tasks \cup Servers

VARIABLES
    queue,      \* the map: server -> the task whose `queued` promise is the tail
    server,     \* the server a task was enqueued for
    previous,   \* the task whose `queued` promise this one is chained after
    phase,      \* where the task is in its promise chain
    result,     \* how `next` settled
    started,    \* the closure variable `started`
    cancelled,  \* the closure variable `cancelled`
    timer,      \* the queue timeout is armed: set, not fired and not cleared
    promise,    \* the promise the caller holds
    order,      \* history: a task's arrival number, 0 before the call
    arrivals    \* history: the number of calls so far

queueVars == <<queue, server, previous, phase, result, started, cancelled, timer,
          promise, order, arrivals>>

Phases == {"idle",     \* enqueueCommand not called yet
           "chained",  \* waits for `previous`
           "running",  \* task() has been called and has not settled
           "settled",  \* `next` settled, its finally() reaction is pending
           "done"}     \* `queued` settled

QueueTypeOK ==
    /\ queue \in [Servers -> Tasks \cup {NoTask}]
    /\ server \in [Tasks -> Servers \cup {NoTask}]
    /\ previous \in [Tasks -> Tasks \cup {NoTask}]
    /\ phase \in [Tasks -> Phases]
    /\ result \in [Tasks -> {"none", "value", "error"}]
    /\ started \in [Tasks -> BOOLEAN]
    /\ cancelled \in [Tasks -> BOOLEAN]
    /\ timer \in [Tasks -> BOOLEAN]
    /\ promise \in [Tasks -> {"none", "pending", "value", "error", "timeout"}]
    /\ order \in [Tasks -> Nat]
    /\ arrivals \in Nat

QueueInit ==
    /\ queue = [s \in Servers |-> NoTask]
    /\ server = [t \in Tasks |-> NoTask]
    /\ previous = [t \in Tasks |-> NoTask]
    /\ phase = [t \in Tasks |-> "idle"]
    /\ result = [t \in Tasks |-> "none"]
    /\ started = [t \in Tasks |-> FALSE]
    /\ cancelled = [t \in Tasks |-> FALSE]
    /\ timer = [t \in Tasks |-> FALSE]
    /\ promise = [t \in Tasks |-> "none"]
    /\ order = [t \in Tasks |-> 0]
    /\ arrivals = 0

-----------------------------------------------------------------------------
(* Conditions of the code, and mistakes it could make (the Wrong... forms   *)
(* are used by no definition: they show that the properties can fail)      *)

\* The task's turn: its predecessor's promise has settled, or it had none.
WrongRunnable(t) == phase[t] = "chained"
Runnable(t) ==
    /\ phase[t] = "chained"
    /\ previous[t] # NoTask => phase[previous[t]] = "done"

\* No promise reaction of a chain is pending.
Quiet == \A t \in Tasks : ~Runnable(t) /\ phase[t] # "settled"

\* The map once t is done: the entry goes only while it is still t's.
WrongEntryAlwaysRemoved(t) == [queue EXCEPT ![server[t]] = NoTask]
WrongEntryKept(t) == queue
WrongEntryServer(t) == [queue EXCEPT ![server[t]] = server[t]]
EntryRemoved(t) ==
    IF queue[server[t]] = t THEN [queue EXCEPT ![server[t]] = NoTask] ELSE queue

\* A task cancelled before its turn is not called.
WrongNeverSkipped(t) == FALSE
Skipped(t) == cancelled[t]

\* The caller is owed the result of `queued`: it has no answer yet.
Owed(t) == promise[t] = "pending"

\* The queue timeout rejects a call that has not started.
WrongTimeoutAtTurn(t) == promise[t] = "pending" /\ Runnable(t)
TimesOut(t) == promise[t] = "pending" /\ ~started[t]

-----------------------------------------------------------------------------
(* Operations                                                              *)

\* enqueueCommand(queue, server, command, task, { queueTimeoutMs }): `timed`
\* says whether the caller passed a positive queueTimeoutMs.
Enqueue(t, s, timed) ==
    /\ phase[t] = "idle"
    /\ server' = [server EXCEPT ![t] = s]
    /\ previous' = [previous EXCEPT ![t] = queue[s]]
    /\ queue' = [queue EXCEPT ![s] = t]
    /\ phase' = [phase EXCEPT ![t] = "chained"]
    /\ timer' = [timer EXCEPT ![t] = timed]
    /\ promise' = [promise EXCEPT ![t] = "pending"]
    /\ arrivals' = arrivals + 1
    /\ order' = [order EXCEPT ![t] = arrivals + 1]
    /\ UNCHANGED <<result, started, cancelled>>

\* The reaction to `previous`: a task cancelled in the meantime rejects
\* without being called.
RunNext(t) ==
    /\ Runnable(t)
    /\ IF Skipped(t)
       THEN /\ phase' = [phase EXCEPT ![t] = "settled"]
            /\ result' = [result EXCEPT ![t] = "error"]
            /\ UNCHANGED started
       ELSE /\ phase' = [phase EXCEPT ![t] = "running"]
            /\ started' = [started EXCEPT ![t] = TRUE]
            /\ UNCHANGED result
    /\ UNCHANGED <<queue, server, previous, cancelled, timer, promise, order, arrivals>>

\* The promise returned by task() settles.
TaskSettles(t, r) ==
    /\ phase[t] = "running"
    /\ phase' = [phase EXCEPT ![t] = "settled"]
    /\ result' = [result EXCEPT ![t] = r]
    /\ UNCHANGED <<queue, server, previous, started, cancelled, timer, promise,
                   order, arrivals>>

\* next.finally(): the entry is removed only while it is still this task's;
\* then `queued` settles, and with it a caller that has no answer yet.
Finally(t) ==
    /\ phase[t] = "settled"
    /\ phase' = [phase EXCEPT ![t] = "done"]
    /\ queue' = EntryRemoved(t)
    /\ IF Owed(t)
       THEN /\ promise' = [promise EXCEPT ![t] = result[t]]
            /\ timer' = [timer EXCEPT ![t] = FALSE]
       ELSE UNCHANGED <<promise, timer>>
    /\ UNCHANGED <<server, previous, result, started, cancelled, order, arrivals>>

\* The queue timeout fires: nothing happens once the task has started.
QueueTimeout(t) ==
    /\ timer[t]
    /\ Quiet
    /\ timer' = [timer EXCEPT ![t] = FALSE]
    /\ IF TimesOut(t)
       THEN /\ cancelled' = [cancelled EXCEPT ![t] = TRUE]
            /\ promise' = [promise EXCEPT ![t] = "timeout"]
       ELSE UNCHANGED <<cancelled, promise>>
    /\ UNCHANGED <<queue, server, previous, phase, result, started, order, arrivals>>

\* Every call has been made and has run its course.
Quiescent ==
    /\ \A t \in Tasks : phase[t] = "done" /\ ~timer[t]
    /\ UNCHANGED queueVars

QueueNext ==
    \/ \E t \in Tasks, s \in Servers, timed \in BOOLEAN : Enqueue(t, s, timed)
    \/ \E t \in Tasks : RunNext(t)
    \/ \E t \in Tasks, r \in {"value", "error"} : TaskSettles(t, r)
    \/ \E t \in Tasks : Finally(t)
    \/ \E t \in Tasks : QueueTimeout(t)
    \/ Quiescent

QueueSpec == QueueInit /\ [][QueueNext]_queueVars

\* The event loop runs every promise reaction and every timer; nothing is
\* assumed of the commands: one without a timeout may hang.
LoopFairness == \A t \in Tasks : /\ WF_queueVars(RunNext(t))
                                 /\ WF_queueVars(Finally(t))
                                 /\ WF_queueVars(QueueTimeout(t))

LoopSpec == QueueSpec /\ LoopFairness

-----------------------------------------------------------------------------
(* Properties                                                              *)

\* enqueueCommand's tasks are serialised: no two tasks of one server have
\* been called and not yet settled, whatever calls arrive while the map
\* entry is being handed over or removed.
MutualExclusion ==
    \A t, u \in Tasks :
        t # u /\ phase[t] = "running" /\ phase[u] = "running" => server[t] # server[u]

\* A caller told that its command timed out in the queue can rely on the
\* command not having run, and on it never running later.
TimedOutNeverRuns ==
    \A t \in Tasks : promise[t] = "timeout" => ~started[t]

\* The map is neither leaked nor lost: a server has an entry exactly while
\* it has a task that is not done, and the entry is the latest of them.
TailIsLatest ==
    \A s \in Servers :
        LET active == {t \in Tasks : server[t] = s /\ phase[t] # "done"}
        IN  IF queue[s] = NoTask
            THEN active = {}
            ELSE queue[s] \in active /\ \A t \in active : order[t] <= order[queue[s]]

\* Tasks of one server are called in the order in which they were enqueued;
\* the ones skipped are those whose callers were answered with a timeout.
StartsInOrder ==
    [][\A t, u \in Tasks :
          /\ started'[t] /\ ~started[t]
          /\ server[u] = server[t] /\ 0 < order[u] /\ order[u] < order[t]
          => phase[u] = "done"]_queueVars

\* A call with a queue timeout does not wait behind a hung command: either it
\* starts or its caller is answered.
TimedCallNotStuck ==
    \A t \in Tasks : (timer[t] /\ promise[t] = "pending")
                        ~> (started[t] \/ promise[t] # "pending")

-----------------------------------------------------------------------------
(* The abstract specification                                              *)

\* A task is submitted while it is chained and not cancelled; it is the server's active task
\* from its call to the settling of `queued`.
Submitted(s) == {t \in Tasks : server[t] = s /\ phase[t] = "chained" /\ ~cancelled[t]}
Called(s) == {t \in Tasks : server[t] = s /\ started[t] /\ phase[t] # "done"}
ActiveTask(s) == IF Called(s) = {} THEN NoTask ELSE CHOOSE t \in Called(s) : TRUE

Executor == INSTANCE SerialExecutor WITH
    None <- NoTask,
    waiting <- [s \in Servers |-> Submitted(s)],
    active <- [s \in Servers |-> ActiveTask(s)],
    answer <- promise,
    place <- order,
    submissions <- arrivals

\* The chained promises of enqueueCommand implement the serial executor, its fairness
\* included: serial per server, in order of arrival, the next called when one has settled,
\* withdrawn only while waiting, answered once.
ImplementsSerialExecutor == Executor!Spec
=============================================================================
