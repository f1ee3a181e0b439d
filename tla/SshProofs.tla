------------------------------ MODULE SshProofs ------------------------------
(***************************************************************************)
(* Proofs about the ways a command takes to a server: CommandQueue and its *)
(* implementing SerialExecutor, for any sets of servers and of calls;      *)
(* ConnectionPool and SshExec, which implements it, for any users and any  *)
(* number of handshakes; and StreamCommand.                                *)
(*                                                                         *)
(* Queues.  Mutual exclusion is not inductive: that two tasks of a server  *)
(* are never both running follows from the shape of the chain of promises, *)
(* which history variable `order` makes explicit.  Indexed by arrival, the *)
(* tasks of a server that are not done are exactly those no earlier than   *)
(* the one running, the map entry is the latest of them (TailOK), a task's *)
(* predecessor is the latest that was not done when it arrived (ChainOK),  *)
(* and a task is called when every earlier one is done (TurnOK).  With     *)
(* what a call's answer says of its task (AnswerOK), every step of the     *)
(* queue is a step of SerialExecutor or a stutter.                         *)
(*                                                                         *)
(* Connections.  That closings account for connections is not inductive.   *)
(* A connection is stray when it is alive, or becoming so, and neither     *)
(* pooled nor awaited: closeConnection makes a stray of the handshake it   *)
(* forgets, and a stray that is ready takes the place of the pooled        *)
(* connection or of the attempt awaited, which becomes the stray instead.  *)
(* The pool and the attempt awaited are never both there, so that strays   *)
(* are all but one of the connections.                                     *)
(*                                                                         *)
(* The streamed command.  That a stopped call accounts for its command     *)
(* needs what the terminating script can have met: before the channel is   *)
(* open there is nothing to terminate (NotBegun), and the PID is in its    *)
(* file only while the wrapper waits for the command (Found).              *)
(***************************************************************************)
EXTENDS CommandQueue, StreamCommand, SshExec, FiniteSetTheorems, TLAPS

-----------------------------------------------------------------------------
(* The queue: its inductive invariant *)

OrderOK ==
    /\ \A t \in Tasks : order[t] <= arrivals
    /\ \A t \in Tasks : phase[t] = "idle" <=> order[t] = 0
    /\ \A t \in Tasks : phase[t] = "idle" <=> server[t] = NoTask
    /\ \A t, u \in Tasks : order[t] = order[u] /\ order[t] # 0 => t = u

TailOK ==
    /\ \A s \in Servers : queue[s] = NoTask =>
          \A t \in Tasks : server[t] = s => phase[t] = "done"
    /\ \A s \in Servers : queue[s] # NoTask =>
          /\ server[queue[s]] = s
          /\ phase[queue[s]] # "done"
          /\ \A t \in Tasks : server[t] = s => order[t] <= order[queue[s]]

ChainOK ==
    /\ \A t \in Tasks : previous[t] # NoTask =>
          /\ server[previous[t]] = server[t]
          /\ order[previous[t]] < order[t]
    /\ \A t, u \in Tasks :
          server[u] = server[t] /\ order[u] < order[t] =>
            \/ phase[u] = "done"
            \/ previous[t] # NoTask /\ order[u] <= order[previous[t]]

TurnOK ==
    \A t, u \in Tasks :
        /\ phase[t] \in {"running", "settled", "done"}
        /\ server[u] = server[t] /\ order[u] < order[t]
        => phase[u] = "done"

CancelOK ==
    /\ \A t \in Tasks : phase[t] \in {"idle", "chained"} => ~started[t]
    /\ \A t \in Tasks : cancelled[t] => ~started[t]
    /\ \A t \in Tasks : promise[t] = "timeout" => cancelled[t]

QueueInv == QueueTypeOK /\ OrderOK /\ TailOK /\ ChainOK /\ TurnOK /\ CancelOK

-----------------------------------------------------------------------------
(* Type correctness of the queue *)

\* The variables keep their types under every step of the event loop.
LEMMA QueueTypeInductive == QueueTypeOK /\ [QueueNext]_queueVars => QueueTypeOK'
<1> SUFFICES ASSUME QueueTypeOK, [QueueNext]_queueVars PROVE QueueTypeOK'
  OBVIOUS
<1> USE DEF QueueTypeOK, Phases
<1>1. ASSUME NEW t \in Tasks, NEW s \in Servers, NEW timed \in BOOLEAN, Enqueue(t, s, timed) PROVE QueueTypeOK'
  BY <1>1 DEF Enqueue
<1>2. ASSUME NEW t \in Tasks, RunNext(t) PROVE QueueTypeOK'
  BY <1>2 DEF RunNext, Skipped
<1>3. ASSUME NEW t \in Tasks, NEW r \in {"value", "error"}, TaskSettles(t, r) PROVE QueueTypeOK'
  BY <1>3 DEF TaskSettles
<1>4. ASSUME NEW t \in Tasks, Finally(t) PROVE QueueTypeOK'
  BY <1>4 DEF Finally, EntryRemoved, Owed
<1>5. ASSUME NEW t \in Tasks, QueueTimeout(t) PROVE QueueTypeOK'
  BY <1>5 DEF QueueTimeout, TimesOut
<1>6. CASE UNCHANGED queueVars
  BY <1>6 DEF queueVars
<1>7. CASE Quiescent
  BY <1>6, <1>7 DEF Quiescent
<1>8. QED
  BY <1>1, <1>2, <1>3, <1>4, <1>5, <1>6, <1>7 DEF QueueNext

\* The queue's variables keep their types in every behaviour (runServerTask and what it leaves
\* to the event loop).
THEOREM QueueTypeCorrect == QueueSpec => []QueueTypeOK
<1>1. QueueInit => QueueTypeOK
  BY DEF QueueInit, QueueTypeOK, Phases
<1>2. QED
  BY <1>1, QueueTypeInductive, PTL DEF QueueSpec

-----------------------------------------------------------------------------
(* Invariance *)

\* A new task becomes the last of its server and is chained after the one
\* that was.
LEMMA EnqueueInductive ==
    ASSUME QueueInv, NEW t \in Tasks, NEW s \in Servers, NEW timed \in BOOLEAN,
           Enqueue(t, s, timed)
    PROVE  OrderOK' /\ TailOK' /\ ChainOK' /\ TurnOK' /\ CancelOK'
<1> USE NoTaskAssumption DEF QueueInv, QueueTypeOK, Phases
<1>1. /\ order[t] = 0 /\ server[t] = NoTask /\ t # NoTask /\ s # NoTask
      /\ \A u \in Tasks : order[u] < arrivals + 1
  BY DEF Enqueue, OrderOK
<1>2. OrderOK'
  BY <1>1 DEF Enqueue, OrderOK
<1>3. TailOK'
  <2>1. \A v \in Servers : v # s => queue'[v] = queue[v] /\ (queue[v] # NoTask => queue[v] # t)
    BY <1>1 DEF Enqueue, TailOK
  <2>2. queue'[s] = t /\ server'[t] = s /\ phase'[t] = "chained" /\ order'[t] = arrivals + 1
    BY DEF Enqueue
  <2>3. \A u \in Tasks \ {t} : server'[u] = server[u] /\ phase'[u] = phase[u] /\ order'[u] = order[u]
    BY DEF Enqueue
  <2>4. QED
    BY <1>1, <2>1, <2>2, <2>3 DEF TailOK
<1>4. ChainOK'
  <2>1. \A u \in Tasks \ {t} : /\ server'[u] = server[u] /\ phase'[u] = phase[u]
                               /\ order'[u] = order[u] /\ previous'[u] = previous[u]
    BY DEF Enqueue
  <2>2. /\ server'[t] = s /\ order'[t] = arrivals + 1 /\ previous'[t] = queue[s]
    BY DEF Enqueue
  <2>3. \A u \in Tasks : previous[u] # NoTask => previous[u] # t
    BY <1>1 DEF ChainOK, OrderOK
  <2>4. queue[s] # NoTask => queue[s] # t /\ server[queue[s]] = s /\ order[queue[s]] < arrivals + 1
    BY <1>1 DEF TailOK
  <2>5. ASSUME NEW u \in Tasks, server'[u] = s, u # t
        PROVE  phase[u] = "done" \/ (queue[s] # NoTask /\ order[u] <= order[queue[s]])
    BY <2>1, <2>5 DEF TailOK
  <2>6. QED
    BY <1>1, <2>1, <2>2, <2>3, <2>4, <2>5 DEF ChainOK
<1>5. TurnOK'
  BY <1>1 DEF Enqueue, TurnOK
<1>6. CancelOK'
  BY DEF Enqueue, CancelOK
<1>7. QED
  BY <1>2, <1>3, <1>4, <1>5, <1>6

\* When its predecessor is done, every earlier task of the server is.
LEMMA RunnableIsFirst ==
    ASSUME QueueInv, NEW t \in Tasks, Runnable(t), NEW u \in Tasks,
           server[u] = server[t], order[u] < order[t]
    PROVE  phase[u] = "done"
<1> USE NoTaskAssumption DEF QueueInv, QueueTypeOK
<1>1. CASE previous[t] = NoTask
  BY <1>1 DEF ChainOK
<1>2. CASE previous[t] # NoTask
  <2>1. previous[t] \in Tasks /\ phase[previous[t]] = "done" /\ server[previous[t]] = server[t]
    BY <1>2 DEF Runnable, ChainOK
  <2>2. phase[u] = "done" \/ order[u] <= order[previous[t]]
    BY DEF ChainOK
  <2>3. CASE order[u] < order[previous[t]]
    BY <2>1, <2>3 DEF TurnOK
  <2>4. CASE order[u] = order[previous[t]]
    <3>1. order[previous[t]] # 0
      BY <2>1 DEF OrderOK
    <3>2. u = previous[t]
      BY <2>1, <2>4, <3>1 DEF OrderOK
    <3>3. QED
      BY <2>1, <3>2
  <2>5. QED
    BY <2>1, <2>2, <2>3, <2>4
<1>3. QED
  BY <1>1, <1>2

\* A task that is called, or skipped because its call has timed out, follows those that are done.
LEMMA RunNextInductive ==
    ASSUME QueueInv, NEW t \in Tasks, RunNext(t)
    PROVE  OrderOK' /\ TailOK' /\ ChainOK' /\ TurnOK' /\ CancelOK'
<1> USE NoTaskAssumption DEF QueueInv, QueueTypeOK, Phases
<1>1. /\ phase[t] = "chained" /\ phase' = [phase EXCEPT ![t] = phase'[t]]
      /\ phase'[t] \in {"running", "settled"}
      /\ UNCHANGED <<queue, server, previous, order, arrivals>>
  BY DEF RunNext, Skipped, Runnable
<1>2. OrderOK'
  BY <1>1 DEF OrderOK
<1>3. TailOK'
  BY <1>1 DEF TailOK
<1>4. ChainOK'
  BY <1>1 DEF ChainOK
<1>5. TurnOK'
  <2>1. \A u \in Tasks : server[u] = server[t] /\ order[u] < order[t] => phase[u] = "done"
    BY RunnableIsFirst DEF RunNext, Skipped
  <2>2. QED
    BY <1>1, <2>1 DEF TurnOK
<1>6. CancelOK'
  BY DEF RunNext, Skipped, Runnable, CancelOK
<1>7. QED
  BY <1>2, <1>3, <1>4, <1>5, <1>6

\* A task that settles keeps its place until its finally callback.
LEMMA TaskSettlesInductive ==
    ASSUME QueueInv, NEW t \in Tasks, NEW r \in {"value", "error"}, TaskSettles(t, r)
    PROVE  OrderOK' /\ TailOK' /\ ChainOK' /\ TurnOK' /\ CancelOK'
<1> USE NoTaskAssumption DEF QueueInv, QueueTypeOK, Phases, TaskSettles
<1>1. OrderOK'
  BY DEF OrderOK
<1>2. TailOK'
  BY DEF TailOK
<1>3. ChainOK'
  BY DEF ChainOK
<1>4. TurnOK'
  BY DEF TurnOK
<1>5. CancelOK'
  BY DEF CancelOK
<1>6. QED
  BY <1>1, <1>2, <1>3, <1>4, <1>5

\* The entry goes only when its task is the last: then every task of the
\* server is done.
LEMMA FinallyInductive ==
    ASSUME QueueInv, NEW t \in Tasks, Finally(t)
    PROVE  OrderOK' /\ TailOK' /\ ChainOK' /\ TurnOK' /\ CancelOK'
<1> USE NoTaskAssumption DEF QueueInv, QueueTypeOK, Phases
<1>1. /\ phase[t] = "settled" /\ phase' = [phase EXCEPT ![t] = "done"]
      /\ server[t] \in Servers
      /\ UNCHANGED <<server, previous, order, arrivals>>
  BY DEF Finally, EntryRemoved, OrderOK
<1>2. OrderOK'
  BY <1>1 DEF OrderOK
<1>3. TailOK'
  <2>1. ASSUME NEW v \in Servers, queue[v] # t
        PROVE  queue'[v] = queue[v]
    BY <1>1, <2>1 DEF Finally, EntryRemoved, Owed
  <2>2. ASSUME NEW v \in Servers, queue[v] = t
        PROVE  queue'[v] = NoTask /\ \A u \in Tasks : server[u] = v => u = t \/ phase[u] = "done"
    <3>1. server[t] = v /\ \A u \in Tasks : server[u] = v => order[u] <= order[t]
      BY <2>2 DEF TailOK
    <3>2. queue'[v] = NoTask
      BY <2>2, <3>1 DEF Finally, EntryRemoved, Owed
    <3>3. ASSUME NEW u \in Tasks, server[u] = v, u # t
          PROVE  order[u] < order[t]
      BY <1>1, <3>1, <3>3 DEF OrderOK
    <3>4. QED
      BY <1>1, <3>1, <3>2, <3>3 DEF TurnOK
  <2>3. QED
    BY <1>1, <2>1, <2>2 DEF TailOK
<1>4. ChainOK'
  BY <1>1 DEF ChainOK
<1>5. TurnOK'
  BY <1>1 DEF TurnOK
<1>6. CancelOK'
  BY DEF Finally, Owed, CancelOK
<1>7. QED
  BY <1>2, <1>3, <1>4, <1>5, <1>6

\* A timeout answers the call of a task that has not started, and leaves the chain alone.
LEMMA QueueTimeoutInductive ==
    ASSUME QueueInv, NEW t \in Tasks, QueueTimeout(t)
    PROVE  OrderOK' /\ TailOK' /\ ChainOK' /\ TurnOK' /\ CancelOK'
<1> USE NoTaskAssumption DEF QueueInv, QueueTypeOK, Phases
<1>1. UNCHANGED <<queue, server, previous, phase, order, arrivals>>
  BY DEF QueueTimeout, TimesOut
<1>2. OrderOK' /\ TailOK' /\ ChainOK' /\ TurnOK'
  BY <1>1 DEF OrderOK, TailOK, ChainOK, TurnOK
<1>3. CancelOK'
  BY DEF QueueTimeout, TimesOut, CancelOK
<1>4. QED
  BY <1>2, <1>3

\* Every step of the event loop keeps the chain's invariant.
LEMMA QueueInvInductive == QueueInv /\ [QueueNext]_queueVars => QueueInv'
<1> SUFFICES ASSUME QueueInv, [QueueNext]_queueVars PROVE QueueInv'
  OBVIOUS
<1>1. QueueTypeOK'
  BY QueueTypeInductive DEF QueueInv
<1>2. OrderOK' /\ TailOK' /\ ChainOK' /\ TurnOK' /\ CancelOK'
  <2>1. CASE UNCHANGED queueVars
    BY <2>1 DEF QueueInv, queueVars, OrderOK, TailOK, ChainOK, TurnOK, CancelOK
  <2>2. CASE Quiescent
    BY <2>1, <2>2 DEF Quiescent
  <2>3. QED
    BY <2>1, <2>2, EnqueueInductive, RunNextInductive, TaskSettlesInductive,
       FinallyInductive, QueueTimeoutInductive DEF QueueNext
<1>3. QED
  BY <1>1, <1>2 DEF QueueInv

\* The chain of promises that runServerTask builds keeps its shape.
THEOREM QueueInvariance == QueueSpec => []QueueInv
<1>1. QueueInit => QueueInv
  BY NoTaskAssumption DEF QueueInit, QueueInv, QueueTypeOK, Phases, OrderOK, TailOK, ChainOK, TurnOK, CancelOK
<1>2. QED
  BY <1>1, QueueInvInductive, PTL DEF QueueSpec

-----------------------------------------------------------------------------
(* The properties of the queue *)

\* Two tasks of one server are never both between their call and their
\* settling (enqueueCommand's chain).
THEOREM Serialised == QueueSpec => []MutualExclusion
<1>1. QueueInv => MutualExclusion
  <2> SUFFICES ASSUME QueueInv, NEW t \in Tasks, NEW u \in Tasks, t # u,
                      phase[t] = "running", phase[u] = "running", server[t] = server[u]
               PROVE  FALSE
    BY DEF MutualExclusion
  <2>1. order[t] \in Nat /\ order[u] \in Nat /\ order[t] # order[u]
    BY DEF QueueInv, QueueTypeOK, OrderOK
  <2>2. QED
    BY <2>1 DEF QueueInv, TurnOK
<1>2. QED
  BY <1>1, QueueInvariance, PTL

\* A caller answered with a queue timeout can rely on its command never
\* having been called.
THEOREM TimeoutIsFinal == QueueSpec => []TimedOutNeverRuns
<1>1. QueueInv => TimedOutNeverRuns
  BY DEF QueueInv, CancelOK, TimedOutNeverRuns
<1>2. QED
  BY <1>1, QueueInvariance, PTL

\* The map holds, for every server, its latest task that is not done, and
\* nothing when there is none: no entry leaks and no chain is lost.
THEOREM TailExact == QueueSpec => []TailIsLatest
<1>1. QueueInv => TailIsLatest
  <2> SUFFICES ASSUME QueueInv, NEW s \in Servers
               PROVE  LET active == {t \in Tasks : server[t] = s /\ phase[t] # "done"}
                      IN  IF queue[s] = NoTask
                          THEN active = {}
                          ELSE queue[s] \in active /\ \A t \in active : order[t] <= order[queue[s]]
    BY DEF TailIsLatest
  <2>1. CASE queue[s] = NoTask
    BY <2>1 DEF QueueInv, TailOK
  <2>2. CASE queue[s] # NoTask
    <3>1. queue[s] \in Tasks
      BY <2>2 DEF QueueInv, QueueTypeOK
    <3>2. QED
      BY <2>2, <3>1 DEF QueueInv, TailOK
  <2>3. QED
    BY <2>1, <2>2
<1>2. QED
  BY <1>1, QueueInvariance, PTL

\* Tasks of a server are called in the order of their enqueueCommand calls.
THEOREM FirstComeFirstServed == QueueSpec => StartsInOrder
<1> DEFINE InOrder == \A t, u \in Tasks :
             /\ started'[t] /\ ~started[t]
             /\ server[u] = server[t] /\ 0 < order[u] /\ order[u] < order[t]
             => phase[u] = "done"
<1>1. QueueInv /\ [QueueNext]_queueVars => [InOrder]_queueVars
  <2> SUFFICES ASSUME QueueInv, QueueNext, NEW t \in Tasks, started'[t], ~started[t],
                      NEW u \in Tasks, server[u] = server[t], order[u] < order[t]
               PROVE  phase[u] = "done"
    OBVIOUS
  <2>1. RunNext(t)
    BY DEF QueueNext, Enqueue, RunNext, TaskSettles, Finally, QueueTimeout, Quiescent, queueVars, QueueInv, QueueTypeOK
  <2>2. QED
    BY <2>1, RunnableIsFirst DEF RunNext, Skipped
<1>2. QED
  BY <1>1, QueueInvariance, PTL DEF QueueSpec, StartsInOrder
-----------------------------------------------------------------------------
(* The queue implements SerialExecutor *)

\* How a call's answer goes with where its task is.
AnswerOK ==
    /\ \A t \in Tasks : phase[t] = "idle" <=> promise[t] = "none"
    /\ \A t \in Tasks : phase[t] = "chained" => promise[t] = "pending" \/ cancelled[t]
    /\ \A t \in Tasks : phase[t] = "settled" => result[t] \in {"value", "error"}
    /\ \A t \in Tasks : cancelled[t] => promise[t] = "timeout"
    /\ \A t \in Tasks : started[t] /\ phase[t] # "done" => promise[t] = "pending"
    /\ \A t \in Tasks : phase[t] = "running" => started[t]
    /\ \A t \in Tasks : phase[t] \in {"settled", "done"} => started[t] \/ cancelled[t]

\* Every step of the event loop keeps answers and tasks together.
LEMMA AnswerInductive == QueueInv /\ AnswerOK /\ [QueueNext]_queueVars => AnswerOK'
<1> SUFFICES ASSUME QueueInv, AnswerOK, [QueueNext]_queueVars PROVE AnswerOK'
  OBVIOUS
<1> USE DEF QueueInv, QueueTypeOK, Phases
<1>1. ASSUME NEW t \in Tasks, NEW s \in Servers, NEW timed \in BOOLEAN, Enqueue(t, s, timed) PROVE AnswerOK'
  BY <1>1 DEF Enqueue, AnswerOK, CancelOK
<1>2. ASSUME NEW t \in Tasks, RunNext(t) PROVE AnswerOK'
  <2>1. phase[t] = "chained" /\ ~started[t] /\ UNCHANGED <<cancelled, promise>>
    BY <1>2 DEF RunNext, Runnable, CancelOK
  <2>2. CASE cancelled[t]
    <3>1. /\ phase' = [phase EXCEPT ![t] = "settled"] /\ started' = started
          /\ result' = [result EXCEPT ![t] = "error"]
      BY <1>2, <2>2 DEF RunNext, Skipped
    <3>2. QED
      BY <2>1, <2>2, <3>1 DEF AnswerOK
  <2>3. CASE ~cancelled[t]
    <3>1. /\ phase' = [phase EXCEPT ![t] = "running"] /\ started' = [started EXCEPT ![t] = TRUE]
          /\ result' = result
      BY <1>2, <2>3 DEF RunNext, Skipped
    <3>2. promise[t] = "pending"
      BY <2>1, <2>3 DEF AnswerOK
    <3>3. QED
      BY <2>1, <3>1, <3>2 DEF AnswerOK
  <2>4. QED
    BY <2>2, <2>3
<1>3. ASSUME NEW t \in Tasks, NEW r \in {"value", "error"}, TaskSettles(t, r) PROVE AnswerOK'
  BY <1>3 DEF TaskSettles, AnswerOK
<1>4. ASSUME NEW t \in Tasks, Finally(t) PROVE AnswerOK'
  BY <1>4 DEF Finally, Owed, AnswerOK, CancelOK
<1>5. ASSUME NEW t \in Tasks, QueueTimeout(t) PROVE AnswerOK'
  BY <1>5 DEF QueueTimeout, TimesOut, AnswerOK, CancelOK
<1>6. CASE UNCHANGED queueVars
  BY <1>6 DEF queueVars, AnswerOK
<1>7. CASE Quiescent
  BY <1>6, <1>7 DEF Quiescent
<1>8. QED
  BY <1>1, <1>2, <1>3, <1>4, <1>5, <1>6, <1>7 DEF QueueNext

\* The chain and the answers in every behaviour.
LEMMA AnswersInvariant == QueueSpec => [](QueueInv /\ AnswerOK)
<1>1. QueueInit => AnswerOK
  BY DEF QueueInit, AnswerOK
<1>2. QED
  BY <1>1, QueueInvariance, AnswerInductive, PTL DEF QueueSpec

\* A server has one task called at most, and that is the one active.
LEMMA ActiveIs ==
    ASSUME QueueInv, NEW s \in Servers
    PROVE  /\ \A t, u \in Called(s) : t = u
           /\ \A t \in Called(s) : ActiveTask(s) = t
           /\ ActiveTask(s) = NoTask <=> Called(s) = {}
           /\ ActiveTask(s) # NoTask => ActiveTask(s) \in Called(s)
<1>1. ASSUME NEW t \in Called(s), NEW u \in Called(s), t # u PROVE FALSE
  <2>1. /\ t \in Tasks /\ u \in Tasks /\ server[t] = server[u]
        /\ phase[t] \in {"running", "settled"} /\ phase[u] \in {"running", "settled"}
    BY DEF Called, QueueInv, QueueTypeOK, Phases, CancelOK
  <2>2. order[t] \in Nat /\ order[u] \in Nat /\ order[t] # order[u]
    BY <1>1, <2>1 DEF QueueInv, QueueTypeOK, OrderOK
  <2>3. QED
    BY <2>1, <2>2 DEF QueueInv, TurnOK
<1>2. Called(s) \subseteq Tasks
  BY DEF Called
<1>3. Called(s) # {} => ActiveTask(s) \in Called(s)
  BY DEF ActiveTask
<1>4. QED
  BY <1>1, <1>2, <1>3, NoTaskAssumption DEF ActiveTask

\* What a step changes of the tasks submitted and called decides what it is for the executor.
SameCalled == \A s \in Servers : Called(s)' = Called(s)
SameSubmitted == \A s \in Servers : Submitted(s)' = Submitted(s)

\* With the same tasks called, every server is busy with the same task.
LEMMA SameActive == SameCalled => UNCHANGED [s \in Servers |-> ActiveTask(s)]
<1> SUFFICES ASSUME SameCalled, NEW s \in Servers PROVE ActiveTask(s)' = ActiveTask(s)
  OBVIOUS
<1>1. Called(s)' = Called(s)
  BY DEF SameCalled
<1>2. QED
  BY <1>1 DEF ActiveTask

\* With the same tasks submitted, every server has the same tasks waiting.
LEMMA SameWaiting == SameSubmitted => UNCHANGED [s \in Servers |-> Submitted(s)]
BY DEF SameSubmitted

\* Enqueueing is the executor's submission.
LEMMA EnqueueSubmits ==
    ASSUME QueueInv, AnswerOK, NEW t \in Tasks, NEW s \in Servers, NEW timed \in BOOLEAN, Enqueue(t, s, timed)
    PROVE  Executor!Submit(t, s)
<1> USE DEF QueueInv, QueueTypeOK
<1>1. /\ phase[t] = "idle" /\ promise[t] = "none" /\ ~started[t] /\ ~cancelled[t] /\ server[t] \notin Servers
  BY NoTaskAssumption DEF Enqueue, AnswerOK, CancelOK, OrderOK
<1>2. SameCalled
  BY <1>1 DEF Enqueue, SameCalled, Called
<1>3. \A v \in Servers : Submitted(v)' = IF v = s THEN Submitted(s) \cup {t} ELSE Submitted(v)
  BY <1>1 DEF Enqueue, Submitted
<1>4. [v \in Servers |-> Submitted(v)]' = [[v \in Servers |-> Submitted(v)] EXCEPT ![s] = @ \cup {t}]
  BY <1>3
<1>5. promise' = [promise EXCEPT ![t] = "pending"] /\ arrivals' = arrivals + 1
      /\ order' = [order EXCEPT ![t] = arrivals']
  BY DEF Enqueue
<1>6. QED
  BY <1>1, <1>2, <1>4, <1>5, SameActive DEF Executor!Submit

\* The reaction to the predecessor calls the first of the tasks that wait, or a withdrawn
\* task is passed over.
LEMMA RunNextCalls ==
    ASSUME QueueInv, AnswerOK, NEW t \in Tasks, RunNext(t)
    PROVE  (\E s \in Servers : Executor!Call(s)) \/ UNCHANGED Executor!vars
<1> USE DEF QueueInv, QueueTypeOK
<1>1. /\ phase[t] = "chained" /\ ~started[t] /\ server[t] \in Servers
      /\ UNCHANGED <<server, cancelled, promise, order, arrivals>>
  BY NoTaskAssumption DEF RunNext, Runnable, CancelOK, OrderOK
<1>2. CASE cancelled[t]
  <2>1. phase' = [phase EXCEPT ![t] = "settled"] /\ started' = started
    BY <1>2 DEF RunNext, Skipped
  <2>2. SameCalled
    BY <1>1, <2>1 DEF SameCalled, Called
  <2>3. SameSubmitted
    BY <1>1, <1>2, <2>1 DEF SameSubmitted, Submitted
  <2>4. QED
    BY <1>1, <2>2, <2>3, SameActive, SameWaiting DEF Executor!vars
<1>3. CASE ~cancelled[t]
  <2>0. PICK s \in Servers : s = server[t]
    BY <1>1
  <2>1. phase' = [phase EXCEPT ![t] = "running"] /\ started' = [started EXCEPT ![t] = TRUE]
    BY <2>0, <1>3 DEF RunNext, Skipped
  <2>2. \A u \in Tasks : server[u] = s /\ order[u] < order[t] => phase[u] = "done"
    BY <2>0, RunnableIsFirst DEF RunNext
  <2>3. Called(s) = {}
    <3> SUFFICES ASSUME NEW u \in Called(s) PROVE FALSE
      OBVIOUS
    <3>1. u \in Tasks /\ server[u] = s /\ phase[u] # "done" /\ phase[u] \in {"running", "settled"} /\ u # t
      BY <2>0, <1>1 DEF Called, Phases, CancelOK
    <3>2. order[t] # order[u]
      BY <2>0, <1>1, <3>1 DEF OrderOK
    <3>3. ~(order[u] < order[t])
      BY <2>0, <2>2, <3>1
    <3>4. order[t] \in Nat /\ order[u] \in Nat
      BY <2>0, <3>1
    <3>5. order[t] < order[u]
      BY <2>0, <3>2, <3>3, <3>4
    <3>6. QED
      BY <2>0, <1>1, <3>1, <3>5 DEF TurnOK
  <2>4. t \in Submitted(s) /\ \A u \in Submitted(s) : order[t] <= order[u]
    BY <2>0, <1>1, <1>3, <2>2 DEF Submitted
  <2>5. \A v \in Servers : /\ Submitted(v)' = IF v = s THEN Submitted(s) \ {t} ELSE Submitted(v)
                           /\ Called(v)' = IF v = s THEN {t} ELSE Called(v)
    <3>1. \A v \in Servers : Submitted(v)' = IF v = s THEN Submitted(s) \ {t} ELSE Submitted(v)
      BY <2>0, <1>1, <2>1 DEF Submitted
    <3>2. \A v \in Servers : Called(v)' = IF v = s THEN Called(s) \cup {t} ELSE Called(v)
      BY <2>0, <1>1, <2>1 DEF Called
    <3>3. QED
      BY <2>0, <2>3, <3>1, <3>2
  <2>6. \A v \in Servers : ActiveTask(v)' = IF v = s THEN t ELSE ActiveTask(v)
    <3>1. ASSUME NEW v \in Servers, v # s PROVE ActiveTask(v)' = ActiveTask(v)
      <4>1. Called(v)' = Called(v)
        BY <2>0, <2>5, <3>1
      <4>2. QED
        BY <2>0, <4>1 DEF ActiveTask
    <3>2. ActiveTask(s)' = t
      <4>1. Called(s)' = {t}
        BY <2>0, <1>1, <2>5
      <4>2. QED
        BY <2>0, <4>1 DEF ActiveTask
    <3>3. QED
      BY <2>0, <3>1, <3>2
  <2>7. ActiveTask(s) = NoTask
    BY <2>0, <2>3 DEF ActiveTask
  <2>8. [v \in Servers |-> ActiveTask(v)]' = [[v \in Servers |-> ActiveTask(v)] EXCEPT ![s] = t]
    BY <2>0, <2>6
  <2>9. [v \in Servers |-> Submitted(v)]' = [[v \in Servers |-> Submitted(v)] EXCEPT ![s] = @ \ {t}]
    BY <2>0, <2>5
  <2>10. Executor!Call(s)
    BY <2>0, <1>1, <2>4, <2>7, <2>8, <2>9 DEF Executor!Call
  <2>11. QED
    BY <2>0, <1>1, <2>10
<1>4. QED
  BY <1>2, <1>3

\* The executor takes no step when a task settles: it does when the call is answered.
LEMMA SettlingIsSilent ==
    ASSUME QueueInv, AnswerOK, NEW t \in Tasks, NEW r \in {"value", "error"}, TaskSettles(t, r)
    PROVE  UNCHANGED Executor!vars
<1> USE DEF QueueInv, QueueTypeOK, TaskSettles
<1>1. SameCalled
  BY DEF SameCalled, Called
<1>2. SameSubmitted
  BY DEF SameSubmitted, Submitted
<1>3. QED
  BY <1>1, <1>2, SameActive, SameWaiting DEF Executor!vars

\* `queued` settles: the executor's task returns, or one that was withdrawn is forgotten.
LEMMA FinallyReturns ==
    ASSUME QueueInv, AnswerOK, NEW t \in Tasks, Finally(t)
    PROVE  (\E s \in Servers, r \in {"value", "error"} : Executor!Return(s, r)) \/ UNCHANGED Executor!vars
<1> USE DEF QueueInv, QueueTypeOK
<1>1. /\ phase[t] = "settled" /\ phase' = [phase EXCEPT ![t] = "done"] /\ server[t] \in Servers
      /\ UNCHANGED <<server, cancelled, started, order, arrivals>>
  BY NoTaskAssumption DEF Finally, OrderOK
<1>2. SameSubmitted
  BY <1>1 DEF SameSubmitted, Submitted
<1>3. CASE ~started[t]
  <2>1. promise' = promise
    BY <1>1, <1>3 DEF Finally, Owed, AnswerOK
  <2>2. SameCalled
    BY <1>1, <1>3 DEF SameCalled, Called
  <2>3. QED
    BY <1>1, <1>2, <2>1, <2>2, SameActive, SameWaiting DEF Executor!vars
<1>4. CASE started[t]
  <2>0. PICK s \in Servers : s = server[t]
    BY <1>1
  <2>1. t \in Called(s)
    BY <2>0, <1>1, <1>4 DEF Called
  <2>2. ActiveTask(s) = t /\ t # NoTask /\ \A u \in Called(s) : u = t
    BY <2>0, <1>1, <2>1, ActiveIs, NoTaskAssumption
  <2>3. \A v \in Servers : Called(v)' = IF v = s THEN {} ELSE Called(v)
    <3>1. \A v \in Servers : Called(v)' = IF v = s THEN Called(s) \ {t} ELSE Called(v)
      BY <2>0, <1>1 DEF Called
    <3>2. QED
      BY <2>0, <2>2, <3>1
  <2>4. \A v \in Servers : ActiveTask(v)' = IF v = s THEN NoTask ELSE ActiveTask(v)
    <3>1. ASSUME NEW v \in Servers, v # s PROVE ActiveTask(v)' = ActiveTask(v)
      <4>1. Called(v)' = Called(v)
        BY <2>0, <2>3, <3>1
      <4>2. QED
        BY <2>0, <4>1 DEF ActiveTask
    <3>2. ActiveTask(s)' = NoTask
      BY <2>0, <1>1, <2>3 DEF ActiveTask
    <3>3. QED
      BY <2>0, <3>1, <3>2
  <2>5. [v \in Servers |-> ActiveTask(v)]' = [[v \in Servers |-> ActiveTask(v)] EXCEPT ![s] = NoTask]
    BY <2>0, <2>4
  <2>6. result[t] \in {"value", "error"} /\ promise' = [promise EXCEPT ![t] = result[t]]
    BY <2>0, <1>1, <1>4 DEF Finally, Owed, AnswerOK
  <2>7. Executor!Return(s, result[t])
    BY <2>0, <1>1, <1>2, <2>2, <2>5, <2>6, SameWaiting DEF Executor!Return
  <2>8. QED
    BY <2>0, <1>1, <2>6, <2>7
<1>5. QED
  BY <1>3, <1>4

\* A timeout of a task that still waits withdraws it; a later one finds the answer given.
LEMMA TimeoutWithdraws ==
    ASSUME QueueInv, AnswerOK, NEW t \in Tasks, QueueTimeout(t)
    PROVE  (\E s \in Servers : Executor!Withdraw(s, t)) \/ UNCHANGED Executor!vars
<1> USE DEF QueueInv, QueueTypeOK
<1>1. UNCHANGED <<server, phase, started, order, arrivals>>
  BY DEF QueueTimeout
<1>2. SameCalled
  BY <1>1 DEF SameCalled, Called
<1>3. CASE ~TimesOut(t)
  <2>1. UNCHANGED <<cancelled, promise>>
    BY <1>3 DEF QueueTimeout
  <2>2. SameSubmitted
    BY <1>1, <2>1 DEF SameSubmitted, Submitted
  <2>3. QED
    BY <1>1, <1>2, <2>1, <2>2, SameActive, SameWaiting DEF Executor!vars
<1>4. CASE TimesOut(t)
  <2>0. PICK s \in Servers : s = server[t]
    BY <1>4, NoTaskAssumption DEF TimesOut, AnswerOK, OrderOK
  <2>1. cancelled' = [cancelled EXCEPT ![t] = TRUE] /\ promise' = [promise EXCEPT ![t] = "timeout"]
    BY <2>0, <1>4 DEF QueueTimeout
  <2>2. phase[t] = "chained" /\ ~cancelled[t] /\ s \in Servers
    BY <2>0, <1>4, NoTaskAssumption DEF TimesOut, AnswerOK, OrderOK, Phases
  <2>3. t \in Submitted(s)
    BY <2>0, <2>2 DEF Submitted
  <2>4. \A v \in Servers : Submitted(v)' = IF v = s THEN Submitted(s) \ {t} ELSE Submitted(v)
    BY <2>0, <1>1, <2>1 DEF Submitted
  <2>5. [v \in Servers |-> Submitted(v)]' = [[v \in Servers |-> Submitted(v)] EXCEPT ![s] = @ \ {t}]
    BY <2>0, <2>4
  <2>6. Executor!Withdraw(s, t)
    BY <2>0, <1>1, <1>2, <2>1, <2>2, <2>3, <2>5, SameActive DEF Executor!Withdraw
  <2>7. QED
    BY <2>0, <2>2, <2>6
<1>5. QED
  BY <1>3, <1>4

\* Every step of the queue is one of the serial executor or none: it calls what was submitted
\* one at a time per server and in order, withdraws only what waits, and answers each once.
THEOREM QueueImplementsExecutor == QueueSpec => Executor!SafeSpec
<1>1. QueueInit => Executor!Init
  <2> SUFFICES ASSUME QueueInit PROVE Executor!Init
    OBVIOUS
  <2>1. \A s \in Servers : Submitted(s) = {} /\ Called(s) = {}
    BY DEF QueueInit, Submitted, Called
  <2>2. [s \in Servers |-> Submitted(s)] = [s \in Servers |-> {}]
    BY <2>1
  <2>3. [s \in Servers |-> ActiveTask(s)] = [s \in Servers |-> NoTask]
    BY <2>1 DEF ActiveTask
  <2>4. QED
    BY <2>2, <2>3 DEF QueueInit, Executor!Init
<1>2. QueueInv /\ AnswerOK /\ [QueueNext]_queueVars => [Executor!Next]_(Executor!vars)
  <2> SUFFICES ASSUME QueueInv, AnswerOK, [QueueNext]_queueVars
               PROVE  Executor!Next \/ UNCHANGED Executor!vars
    OBVIOUS
  <2>1. CASE UNCHANGED queueVars
    <3>1. SameCalled /\ SameSubmitted
      BY <2>1 DEF queueVars, SameCalled, SameSubmitted, Called, Submitted
    <3>2. QED
      BY <2>1, <3>1, SameActive, SameWaiting DEF queueVars, Executor!vars
  <2>2. CASE Quiescent
    BY <2>1, <2>2 DEF Quiescent
  <2>3. ASSUME NEW t \in Tasks, NEW s \in Servers, NEW timed \in BOOLEAN, Enqueue(t, s, timed)
        PROVE  Executor!Next \/ UNCHANGED Executor!vars
    BY <2>3, EnqueueSubmits DEF Executor!Next
  <2>4. ASSUME NEW t \in Tasks, RunNext(t)
        PROVE  Executor!Next \/ UNCHANGED Executor!vars
    BY <2>4, RunNextCalls DEF Executor!Next
  <2>5. ASSUME NEW t \in Tasks, NEW r \in {"value", "error"}, TaskSettles(t, r)
        PROVE  Executor!Next \/ UNCHANGED Executor!vars
    BY <2>5, SettlingIsSilent
  <2>6. ASSUME NEW t \in Tasks, Finally(t)
        PROVE  Executor!Next \/ UNCHANGED Executor!vars
    BY <2>6, FinallyReturns DEF Executor!Next
  <2>7. ASSUME NEW t \in Tasks, QueueTimeout(t)
        PROVE  Executor!Next \/ UNCHANGED Executor!vars
    BY <2>7, TimeoutWithdraws DEF Executor!Next
  <2>8. QED
    BY <2>1, <2>2, <2>3, <2>4, <2>5, <2>6, <2>7 DEF QueueNext
<1>3. QED
  BY <1>1, <1>2, AnswersInvariant, PTL DEF QueueSpec, Executor!SafeSpec

-----------------------------------------------------------------------------
(* The connection pool *)

Live == {c \in Conns : conn[c] \in {"connecting", "open"}}
Stray == Live \ {pool, connectionPromise}

Fresh == \A c \in Conns : c > attempts => conn[c] = "new"
NotBoth == pool = None \/ connectionPromise = None
StraysAccounted == IsFiniteSet(Stray) /\ Cardinality(Stray) <= closes

PoolInv == TypeOK /\ Fresh /\ PoolIsAlive /\ PendingInFlight /\ NotBoth

-----------------------------------------------------------------------------
(* Types and the shape of the pool *)

\* The variables keep their types, whatever the users do.
LEMMA TypeInductive == TypeOK /\ [Next]_vars => TypeOK'
<1> SUFFICES ASSUME TypeOK, [Next]_vars PROVE TypeOK'
  OBVIOUS
<1> USE PoolAssumption DEF TypeOK, Conns, Transports, NoRequest
<1>1. ASSUME NEW u \in Users, GetExisting(u) PROVE TypeOK'
  BY <1>1 DEF GetExisting, IsConnected
<1>2. ASSUME NEW u \in Users, JoinPending(u) PROVE TypeOK'
  BY <1>2 DEF JoinPending
<1>3. ASSUME NEW u \in Users, Connect(u) PROVE TypeOK'
  BY <1>3 DEF Connect
<1>4. ASSUME NEW u \in Users, Release(u) PROVE TypeOK'
  BY <1>4 DEF Release
<1>5. ASSUME NEW u \in Users, Reconnect(u) PROVE TypeOK'
  BY <1>5 DEF Reconnect, Disposed, PoolAfterClose
<1>6. ASSUME NEW c \in Conns, ConnectOk(c) PROVE TypeOK'
  BY <1>6 DEF ConnectOk, PromiseAfterSettling, Answered
<1>7. ASSUME NEW c \in Conns, ConnectFail(c) PROVE TypeOK'
  BY <1>7 DEF ConnectFail, PromiseAfterSettling, Answered
<1>8. ASSUME NEW T \in [Conns -> Transports], Close(T) PROVE TypeOK'
  BY <1>8 DEF Close, Disposed, PoolAfterClose
<1>9. ASSUME NEW c \in Conns, Drop(c) \/ LifecycleEvent(c) PROVE TypeOK'
  BY <1>8, <1>9 DEF Drop, LifecycleEvent
<1>10. CASE CloseConnection
  BY <1>8, <1>10 DEF CloseConnection
<1>11. CASE UNCHANGED vars
  BY <1>11 DEF vars
<1> QED
  BY <1>1, <1>2, <1>3, <1>4, <1>5, <1>6, <1>7, <1>9, <1>10, <1>11 DEF Next, GetConnection

\* Init and every step establish the shape of the pool: a pooled connection
\* is open, an attempt awaited is in flight, and there is one of them at most.
LEMMA ShapeInductive == PoolInv /\ [Next]_vars => PoolInv'
<1> SUFFICES ASSUME PoolInv, [Next]_vars PROVE PoolInv'
  OBVIOUS
<1>0. TypeOK'
  BY TypeInductive DEF PoolInv
<1> USE PoolAssumption
        DEF PoolInv, Fresh, PoolIsAlive, PendingInFlight, NotBoth, TypeOK, Conns, Transports
<1>1. ASSUME NEW u \in Users, GetExisting(u) PROVE PoolInv'
  BY <1>0, <1>1 DEF GetExisting
<1>2. ASSUME NEW u \in Users, JoinPending(u) PROVE PoolInv'
  BY <1>0, <1>2 DEF JoinPending
<1>3. ASSUME NEW u \in Users, Connect(u) PROVE PoolInv'
  BY <1>0, <1>3 DEF Connect, IsConnected, AttemptPending
<1>4. ASSUME NEW u \in Users, Release(u) PROVE PoolInv'
  BY <1>0, <1>4 DEF Release
<1>5. ASSUME NEW u \in Users, Reconnect(u) PROVE PoolInv'
  BY <1>0, <1>5 DEF Reconnect, Disposed, PoolAfterClose
<1>6. ASSUME NEW c \in Conns, ConnectOk(c) PROVE PoolInv'
  BY <1>0, <1>6 DEF ConnectOk, PromiseAfterSettling
<1>7. ASSUME NEW c \in Conns, ConnectFail(c) PROVE PoolInv'
  BY <1>0, <1>7 DEF ConnectFail, PromiseAfterSettling
<1>8. ASSUME NEW T \in [Conns -> Transports], Close(T),
             \A c \in Conns : c > attempts => T[c] = "new"
      PROVE PoolInv'
  BY <1>0, <1>8 DEF Close, Disposed, PoolAfterClose
<1>9. ASSUME NEW c \in Conns, Drop(c) \/ LifecycleEvent(c) PROVE PoolInv'
  BY <1>8, <1>9 DEF Drop, LifecycleEvent
<1>10. CASE CloseConnection
  BY <1>8, <1>10 DEF CloseConnection
<1>11. CASE UNCHANGED vars
  BY <1>0, <1>11 DEF vars
<1> QED
  BY <1>1, <1>2, <1>3, <1>4, <1>5, <1>6, <1>7, <1>9, <1>10, <1>11 DEF Next, GetConnection

\* An empty pool has its shape.
LEMMA ShapeInitial == Init => PoolInv
BY PoolAssumption DEF Init, PoolInv, TypeOK, Fresh, PoolIsAlive, PendingInFlight, NotBoth, Conns,
                      Transports, NoRequest

\* The maps of connection.ts, the transports and the requests keep their types.
THEOREM PoolTypeCorrect == Spec => []TypeOK
<1>1. PoolInv => TypeOK
  BY DEF PoolInv
<1> QED
  BY ShapeInitial, ShapeInductive, <1>1, PTL DEF Spec

\* The pool never serves a connection that has ended or been disposed,
\* whatever events of older connections arrive.
THEOREM PoolAlive == Spec => []PoolIsAlive
<1>1. PoolInv => PoolIsAlive
  BY DEF PoolInv
<1> QED
  BY ShapeInitial, ShapeInductive, <1>1, PTL DEF Spec

\* connectionPromises never keeps an attempt that has settled.
THEOREM PendingSettles == Spec => []PendingInFlight
<1>1. PoolInv => PendingInFlight
  BY DEF PoolInv
<1> QED
  BY ShapeInitial, ShapeInductive, <1>1, PTL DEF Spec

-----------------------------------------------------------------------------
(* Counting the strays *)

\* A set that gains one element at most.
LEMMA Grows ==
  ASSUME NEW S, NEW T, NEW x, IsFiniteSet(S), T \subseteq S \cup {x}
  PROVE  IsFiniteSet(T) /\ Cardinality(T) <= Cardinality(S) + 1
<1>1. /\ IsFiniteSet(S \cup {x})
      /\ Cardinality(S \cup {x}) = IF x \in S THEN Cardinality(S) ELSE Cardinality(S) + 1
  BY FS_AddElement
<1>2. IsFiniteSet(T) /\ Cardinality(T) <= Cardinality(S \cup {x})
  BY <1>1, FS_Subset
<1>3. Cardinality(S) \in Nat /\ Cardinality(T) \in Nat
  BY <1>2, FS_CardinalityType
<1> QED
  BY <1>1, <1>2, <1>3

\* A set in which one element takes the place of another.
LEMMA Swaps ==
  ASSUME NEW S, NEW T, NEW x, NEW c \in S, IsFiniteSet(S), T \subseteq (S \ {c}) \cup {x}
  PROVE  IsFiniteSet(T) /\ Cardinality(T) <= Cardinality(S)
<1>1. IsFiniteSet(S \ {c}) /\ Cardinality(S \ {c}) = Cardinality(S) - 1
  BY FS_RemoveElement
<1>2. IsFiniteSet(T) /\ Cardinality(T) <= Cardinality(S \ {c}) + 1
  BY <1>1, Grows
<1>3. Cardinality(S) \in Nat /\ Cardinality(T) \in Nat
  BY <1>2, FS_CardinalityType
<1> QED
  BY <1>1, <1>2, <1>3

\* One more stray for a run of closeConnection, none for anything else.
LEMMA StraysInductive == PoolInv /\ StraysAccounted /\ [Next]_vars => StraysAccounted'
<1> SUFFICES ASSUME PoolInv, StraysAccounted, [Next]_vars PROVE StraysAccounted'
  OBVIOUS
<1>t. IsFiniteSet(Stray) /\ Cardinality(Stray) \in Nat /\ Cardinality(Stray) <= closes /\ closes \in Nat
  BY FS_CardinalityType DEF StraysAccounted, PoolInv, TypeOK
<1>k. ASSUME Stray' \subseteq Stray, closes' = closes PROVE StraysAccounted'
  <2>1. IsFiniteSet(Stray') /\ Cardinality(Stray') <= Cardinality(Stray)
    BY <1>t, <1>k, FS_Subset
  <2>2. Cardinality(Stray') \in Nat
    BY <2>1, FS_CardinalityType
  <2> QED
    BY <1>t, <1>k, <2>1, <2>2 DEF StraysAccounted
<1>g. ASSUME NEW x, Stray' \subseteq Stray \cup {x}, closes' = closes + 1 PROVE StraysAccounted'
  <2>1. IsFiniteSet(Stray') /\ Cardinality(Stray') <= Cardinality(Stray) + 1
    BY <1>t, <1>g, Grows
  <2>2. Cardinality(Stray') \in Nat
    BY <2>1, FS_CardinalityType
  <2> QED
    BY <1>t, <1>g, <2>1, <2>2 DEF StraysAccounted
<1>s. ASSUME NEW x, NEW c \in Stray, Stray' \subseteq (Stray \ {c}) \cup {x}, closes' = closes
      PROVE StraysAccounted'
  <2>1. IsFiniteSet(Stray') /\ Cardinality(Stray') <= Cardinality(Stray)
    BY <1>t, <1>s, Swaps
  <2>2. Cardinality(Stray') \in Nat
    BY <2>1, FS_CardinalityType
  <2> QED
    BY <1>t, <1>s, <2>1, <2>2 DEF StraysAccounted
<1> USE PoolAssumption
        DEF Stray, Live, PoolInv, Fresh, PoolIsAlive, PendingInFlight, NotBoth, TypeOK, Conns, Transports
<1>1. ASSUME NEW u \in Users, GetExisting(u) \/ JoinPending(u) \/ Release(u) PROVE StraysAccounted'
  BY <1>k, <1>1 DEF GetExisting, JoinPending, Release
<1>2. ASSUME NEW u \in Users, Connect(u) PROVE StraysAccounted'
  BY <1>k, <1>2 DEF Connect, IsConnected, AttemptPending
<1>3. ASSUME NEW u \in Users, Reconnect(u) PROVE StraysAccounted'
  <2>1. Stray' \subseteq Stray \cup {connectionPromise}
    BY <1>3 DEF Reconnect, Disposed, PoolAfterClose
  <2> QED
    BY <1>g, <1>3, <2>1 DEF Reconnect
<1>4. ASSUME NEW c \in Conns, ConnectOk(c) PROVE StraysAccounted'
  <2>1. CASE c = connectionPromise
    <3>1. Stray' \subseteq Stray
      BY <1>4, <2>1 DEF ConnectOk, PromiseAfterSettling
    <3> QED
      BY <1>k, <1>4, <3>1 DEF ConnectOk
  <2>2. CASE c # connectionPromise
    <3>1. c \in Stray
      BY <1>4, <2>2 DEF ConnectOk
    <3>2. \E x : Stray' \subseteq (Stray \ {c}) \cup {x}
      <4>1. CASE pool = None
        <5>1. Stray' \subseteq (Stray \ {c}) \cup {connectionPromise}
          BY <1>4, <4>1 DEF ConnectOk, PromiseAfterSettling
        <5> QED
          BY <5>1
      <4>2. CASE connectionPromise = None
        <5>1. Stray' \subseteq (Stray \ {c}) \cup {pool}
          BY <1>4, <4>2 DEF ConnectOk, PromiseAfterSettling
        <5> QED
          BY <5>1
      <4> QED
        BY <4>1, <4>2
    <3> QED
      BY <1>s, <1>4, <3>1, <3>2 DEF ConnectOk
  <2> QED
    BY <2>1, <2>2
<1>5. ASSUME NEW c \in Conns, ConnectFail(c) PROVE StraysAccounted'
  <2>1. CASE c = connectionPromise
    <3>1. Stray' \subseteq Stray
      BY <1>5, <2>1 DEF ConnectFail, PromiseAfterSettling
    <3> QED
      BY <1>k, <1>5, <3>1 DEF ConnectFail
  <2>2. CASE c # connectionPromise
    <3>1. c \in Stray
      BY <1>5, <2>2 DEF ConnectFail
    <3>2. Stray' \subseteq (Stray \ {c}) \cup {connectionPromise}
      BY <1>5, <2>2 DEF ConnectFail, PromiseAfterSettling
    <3> QED
      BY <1>s, <1>5, <3>1, <3>2 DEF ConnectFail
  <2> QED
    BY <2>1, <2>2
<1>6. ASSUME NEW T \in [Conns -> Transports], Close(T),
             \A c \in Conns : T[c] \in {"connecting", "open"} => T[c] = conn[c]
      PROVE StraysAccounted'
  <2>1. pool # None /\ T[pool] \in {"connecting", "open"} => T[pool] = "open"
    BY <1>6
  <2>2. Stray' \subseteq Stray \cup {connectionPromise}
    BY <1>6, <2>1 DEF Close, Disposed, PoolAfterClose
  <2> QED
    BY <1>g, <1>6, <2>2 DEF Close
<1>7. ASSUME NEW c \in Conns, Drop(c) \/ LifecycleEvent(c) PROVE StraysAccounted'
  BY <1>6, <1>7 DEF Drop, LifecycleEvent
<1>8. CASE CloseConnection
  BY <1>6, <1>8 DEF CloseConnection
<1>9. CASE UNCHANGED vars
  BY <1>k, <1>9 DEF vars
<1> QED
  BY <1>1, <1>2, <1>3, <1>4, <1>5, <1>7, <1>8, <1>9 DEF Next, GetConnection

\* There is no stray before the first attempt.
LEMMA StraysInitial == Init => StraysAccounted
<1> SUFFICES ASSUME Init PROVE StraysAccounted
  OBVIOUS
<1>1. Stray = {}
  BY DEF Init, Stray, Live
<1> QED
  BY <1>1, FS_EmptySet DEF Init, StraysAccounted

\* Strays are all the connections there are but the pooled or awaited one.
LEMMA StraysBound == PoolInv /\ StraysAccounted => ClosesAccountForConnections
<1> SUFFICES ASSUME PoolInv, StraysAccounted PROVE Cardinality(Live) <= 1 + closes
  BY DEF ClosesAccountForConnections, Live
<1>1. \E x : Live \subseteq Stray \cup {x}
  <2>1. CASE pool = None
    <3>1. Live \subseteq Stray \cup {connectionPromise}
      BY <2>1, PoolAssumption DEF Stray, Live, Conns
    <3> QED
      BY <3>1
  <2>2. CASE connectionPromise = None
    <3>1. Live \subseteq Stray \cup {pool}
      BY <2>2, PoolAssumption DEF Stray, Live, Conns
    <3> QED
      BY <3>1
  <2> QED
    BY <2>1, <2>2 DEF PoolInv, NotBoth
<1>2. IsFiniteSet(Live) /\ Cardinality(Live) <= Cardinality(Stray) + 1
  BY <1>1, Grows DEF StraysAccounted
<1>3. Cardinality(Live) \in Nat /\ Cardinality(Stray) \in Nat /\ closes \in Nat
  BY <1>2, FS_CardinalityType DEF StraysAccounted, PoolInv, TypeOK
<1> QED
  BY <1>2, <1>3 DEF StraysAccounted

\* Beyond the first, every connection alive or being made has a run of
\* closeConnection of its own, for any users and any number of handshakes.
THEOREM ClosesAccounted == Spec => []ClosesAccountForConnections
<1>1. Init => PoolInv /\ StraysAccounted
  BY ShapeInitial, StraysInitial
<1>2. PoolInv /\ StraysAccounted /\ [Next]_vars => (PoolInv /\ StraysAccounted)'
  BY ShapeInductive, StraysInductive
<1> QED
  BY <1>1, <1>2, StraysBound, PTL DEF Spec

-----------------------------------------------------------------------------
(* The commands on top of the pool *)

\* Every step of exec and streamCommand is a step of the pool, or leaves it
\* alone: in particular the retry is one of its reconnections.
THEOREM ExecImplementsPool == ExecSpec => Spec
<1>1. ExecInit => Init
  BY DEF ExecInit
<1>2. [ExecNext]_execVars => [Next]_vars
  <2> SUFFICES ASSUME [ExecNext]_execVars PROVE [Next]_vars
    OBVIOUS
  <2>1. ASSUME NEW q \in Users, NEW timed \in BOOLEAN, BeginCall(q, timed) PROVE Next
    BY <2>1 DEF BeginCall, Next
  <2>2. ASSUME NEW q \in Users, Step(q) PROVE [Next]_vars
    <3>1. CASE ChannelOpens(q)
      BY <3>1 DEF ChannelOpens
    <3> QED
      BY <2>2, <3>1 DEF Step, CommandEnds, Retry, ConnectionRefused, CommandTimesOut, AnswerTimeout, EndCall, Next
  <2>3. ASSUME NEW c \in Conns, Handshake(c) \/ ConnectionEnds(c) PROVE Next
    BY <2>3 DEF Handshake, ConnectionEnds, Next
  <2>4. CASE RouteCloses
    BY <2>4 DEF RouteCloses, Next
  <2>5. CASE UNCHANGED execVars
    BY <2>5 DEF execVars, vars
  <2> QED
    BY <2>1, <2>2, <2>3, <2>4, <2>5 DEF ExecNext
<1> QED
  BY <1>1, <1>2, PTL DEF ExecSpec, Spec

\* What holds of the pool holds under the commands: the connection a call is
\* given from the pool is alive, and connections are accounted for.
THEOREM ExecKeepsPool == ExecSpec => [](PoolIsAlive /\ ClosesAccountForConnections)
BY ExecImplementsPool, PoolAlive, ClosesAccounted, PTL
-----------------------------------------------------------------------------
(* The streamed command *)

\* A call that has not opened its channel has begun nothing on the host.
NotBegun == local \in {"queued", "connecting", "opening"} => wrapper = "none" /\ killer = "none"

\* The listener and the timer are there while the call streams, and an abort ends that.
Watched ==
    /\ listener \/ commandTimer => local = "streaming"
    /\ local = "streaming" /\ options.signal => listener /\ ~aborted

\* Until the terminating script has looked, the PID is in its file exactly while the wrapper waits
\* for the command: a script that finds it kills the one command there will be, and one that does
\* not comes after that command, or was begun before the wrapper had recorded the PID.
Found ==
    /\ pidFile = "pid" => wrapper = "waiting"
    /\ killer # "none" => options.runId
    /\ killer \in {"termed", "done"} => wrapper \in {"waiting", "exited"}
    /\ killer = "done" /\ killable => child # "running"
    /\ wrapper = "waiting" /\ killer \in {"none", "connecting"} => pidFile = "pid"
    /\ wrapper = "recording" /\ killer \in {"none", "connecting"} => pidFile = "empty"
    /\ wrapper \in {"forked", "recording", "waiting", "exited"} => child # "none"
    /\ wrapper = "exited" => child # "running"
    /\ killer # "none" /\ wrapper \in {"none", "started", "forked", "recording"} => early
    /\ killer = "missed" /\ child \in {"none", "running"} => early

\* A call that was stopped has begun the terminating script, and no other call has.
Stopped ==
    /\ outcome \in {"cancelled", "timedout"} => local = "settled" /\ (options.runId => killer # "none")
    /\ killer # "none" => local = "settled"

StreamInv == StreamTypeOK /\ NotBegun /\ Watched /\ Found /\ Stopped

\* Both ways of calling pass each option or leave it out.
LEMMA OptionsAre ==
    ASSUME StreamTypeOK
    PROVE  options.signal \in BOOLEAN /\ options.runId \in BOOLEAN /\ options.timeoutMs \in BOOLEAN
<1>1. options = Strict(TRUE) \/ options = Strict(FALSE) \/ options = Bare
  BY DEF StreamTypeOK
<1>2. ASSUME NEW b \in BOOLEAN, options = Strict(b)
      PROVE  options.signal = TRUE /\ options.runId = TRUE /\ options.timeoutMs = b
  BY <1>2 DEF Strict
<1>3. CASE options = Bare
  BY <1>3 DEF Bare
<1>4. QED
  <2>1. CASE options = Strict(TRUE)
    BY <1>2, <2>1
  <2>2. CASE options = Strict(FALSE)
    BY <1>2, <2>2
  <2>3. QED
    BY <1>1, <1>3, <2>1, <2>2

\* The types of what changes: the options a call is made with do not.
ChangingTypeOK ==
    /\ local \in {"queued", "connecting", "opening", "streaming", "settled"}
    /\ outcome \in {"none", "resolved", "cancelled", "timedout", "failed"}
    /\ exitCode \in {"none", "zero", "nonzero"}
    /\ aborted \in BOOLEAN /\ early \in BOOLEAN
    /\ listener \in BOOLEAN /\ commandTimer \in BOOLEAN
    /\ connection \in BOOLEAN
    /\ channel \in {"none", "open", "ended", "closed"}
    /\ wrapper \in {"none", "started", "forked", "recording", "waiting", "exited"}
    /\ child \in {"none", "running", "succeeded", "failed", "killed"}
    /\ pidFile \in {"absent", "empty", "pid"}
    /\ killer \in {"none", "connecting", "termed", "done", "missed", "failed"}

\* The variables keep their types, whatever the call, the server and the job do.
LEMMA StreamTypes == StreamTypeOK /\ [StreamNext]_streamVars => StreamTypeOK'
<1> SUFFICES ASSUME StreamTypeOK, [StreamNext]_streamVars PROVE StreamTypeOK'
  OBVIOUS
<1>0. /\ options.signal \in BOOLEAN /\ options.runId \in BOOLEAN /\ options.timeoutMs \in BOOLEAN
      /\ ChangingTypeOK
  BY OptionsAre DEF StreamTypeOK, ChangingTypeOK
<1> SUFFICES UNCHANGED given /\ ChangingTypeOK'
  BY DEF StreamTypeOK, ChangingTypeOK, given
<1>stopped. ASSUME Terminate PROVE early' \in BOOLEAN
  <2>1. (wrapper \in {"none", "started", "forked", "recording"}) \in BOOLEAN
    OBVIOUS
  <2>2. QED
    BY <1>stopped, <2>1 DEF Terminate
<1>term. ASSUME Terminate
         PROVE  /\ killer' \in {"none", "connecting", "termed", "done", "missed", "failed"}
                /\ early' \in BOOLEAN /\ channel' = "closed" /\ connection' \in BOOLEAN
  <2>1. killer \in {"none", "connecting", "termed", "done", "missed", "failed"}
    BY <1>0 DEF ChangingTypeOK
  <2>2. QED
    BY <1>stopped, <1>term, <2>1 DEF Terminate
<1> USE <1>0 DEF ChangingTypeOK, callVars, remoteVars, given, termination
<1>1. CASE Dequeue \/ Connected
  BY <1>1 DEF Dequeue, Connected
<1>fail. ASSUME NEW o \in {"cancelled", "timedout", "failed"}, Fail(o)
         PROVE  /\ local' \in {"queued", "connecting", "opening", "streaming", "settled"}
                /\ outcome' \in {"none", "resolved", "cancelled", "timedout", "failed"}
                /\ exitCode' \in {"none", "zero", "nonzero"}
                /\ listener' \in BOOLEAN /\ commandTimer' \in BOOLEAN
  BY <1>fail DEF Fail, Cleanup
<1>2. CASE ConnectFails \/ OpenFails
  BY <1>2, <1>fail DEF ConnectFails, OpenFails
<1>3. CASE Opened
  <2>1. CASE AbortedEarly
    BY <1>3, <1>fail, <1>term, <2>1 DEF Opened
  <2>2. CASE ~AbortedEarly
    BY <1>3, <2>2 DEF Opened
  <2>3. QED
    BY <2>1, <2>2
<1>4. CASE Abort
  <2>1. CASE listener
    BY <1>4, <1>fail, <1>term, <2>1 DEF Abort
  <2>2. CASE ~listener
    BY <1>4, <2>2 DEF Abort
  <2>3. QED
    BY <2>1, <2>2
<1>5. CASE TimeoutFires
  BY <1>5, <1>fail, <1>term DEF TimeoutFires
<1>6. CASE StreamEnd \/ StreamClose
  BY <1>6 DEF StreamEnd, StreamClose, Finish, Cleanup, RemoteCode
<1>7. CASE ConnectionLost
  <2>1. /\ UNCHANGED given /\ UNCHANGED <<aborted, wrapper, child, pidFile, killer, early>>
        /\ connection' \in BOOLEAN
        /\ channel' \in {"none", "open", "ended", "closed"}
    BY <1>7 DEF ConnectionLost
  <2>2. /\ local' \in {"queued", "connecting", "opening", "streaming", "settled"}
        /\ outcome' \in {"none", "resolved", "cancelled", "timedout", "failed"}
        /\ exitCode' \in {"none", "zero", "nonzero"}
    BY <1>7 DEF ConnectionLost, Finish, Fail
  <2>3. listener' \in BOOLEAN /\ commandTimer' \in BOOLEAN
    <3>1. UNCHANGED <<listener, commandTimer>> \/ Cleanup
      BY <1>7 DEF ConnectionLost, Finish, Fail
    <3>2. QED
      BY <3>1 DEF Cleanup
  <2>4. QED
    BY <2>1, <2>2, <2>3
<1>8. CASE Fork \/ CreatePidFile \/ WritePid \/ WrapperExits
  BY <1>8 DEF Fork, CreatePidFile, WritePid, WrapperExits
<1>9. ASSUME NEW how \in {"succeeded", "failed", "killed"}, ChildExits(how)
      PROVE  UNCHANGED given /\ ChangingTypeOK'
  BY <1>9 DEF ChildExits
<1>10. CASE KillerLooks \/ KillerKills \/ KillerFails
  BY <1>10 DEF KillerLooks, KillerKills, KillerFails, Killed
<1>11. CASE UNCHANGED streamVars
  BY <1>11 DEF streamVars
<1>12. QED
  BY <1>1, <1>2, <1>3, <1>4, <1>5, <1>6, <1>7, <1>8, <1>9, <1>10, <1>11 DEF StreamNext, Over

\* What begins, streams or settles a call.
LEMMA CallKeeps ==
    ASSUME StreamInv,
           \/ Dequeue \/ Connected \/ ConnectFails \/ OpenFails \/ StreamEnd \/ StreamClose \/ ConnectionLost
    PROVE  NotBegun' /\ Watched' /\ Found' /\ Stopped'
<1>0. NotBegun /\ Watched /\ Found /\ Stopped
  BY DEF StreamInv
<1>1. UNCHANGED <<options, killable, aborted, wrapper, child, pidFile, killer, early>>
  BY DEF Dequeue, Connected, ConnectFails, OpenFails, StreamEnd, StreamClose, ConnectionLost, remoteVars, given, termination
<1>2. Found'
  BY <1>0, <1>1 DEF Found
<1>3. CASE Dequeue \/ Connected
  BY <1>0, <1>1, <1>2, <1>3 DEF Dequeue, Connected, NotBegun, Watched, Stopped
<1>4. CASE ConnectFails \/ OpenFails
  BY <1>0, <1>1, <1>2, <1>4 DEF ConnectFails, OpenFails, Fail, Cleanup, NotBegun, Watched, Stopped
<1>5. CASE UNCHANGED callVars
  BY <1>0, <1>1, <1>2, <1>5 DEF callVars, NotBegun, Watched, Stopped
<1>6. ASSUME local' = "settled", outcome' \in {"resolved", "failed"}, Cleanup
      PROVE  NotBegun' /\ Watched' /\ Stopped'
  BY <1>6 DEF Cleanup, NotBegun, Watched, Stopped
<1>7. CASE StreamEnd \/ StreamClose \/ ConnectionLost
  BY <1>2, <1>5, <1>6, <1>7 DEF StreamEnd, StreamClose, ConnectionLost, Finish, Fail
<1>8. QED
  BY <1>3, <1>4, <1>7

\* An abort, a timeout and an abort that was early begin the terminating script.
LEMMA TerminationKeeps ==
    ASSUME StreamInv, Opened \/ Abort \/ TimeoutFires
    PROVE  NotBegun' /\ Watched' /\ Found' /\ Stopped'
<1>0. /\ NotBegun /\ Watched /\ Found /\ Stopped
      /\ options.signal \in BOOLEAN /\ options.runId \in BOOLEAN /\ options.timeoutMs \in BOOLEAN
  BY OptionsAre DEF StreamInv
<1>1. UNCHANGED <<options, killable>>
  BY DEF Opened, Abort, TimeoutFires, given
<1>2. ASSUME Terminate, Fail("cancelled") \/ Fail("timedout"), local # "settled", pidFile' = pidFile,
             \/ UNCHANGED <<wrapper, child>>
             \/ wrapper = "none" /\ wrapper' \in {"none", "started"} /\ pidFile # "pid"
      PROVE  NotBegun' /\ Watched' /\ Found' /\ Stopped'
  <2>1. /\ local' = "settled" /\ ~listener' /\ ~commandTimer'
        /\ outcome' \in {"cancelled", "timedout"} /\ killer' = IF options.runId THEN "connecting" ELSE killer
    BY <1>2 DEF Terminate, Fail, Cleanup
  <2>2. /\ killer = "none" /\ killer' \in {"none", "connecting"} /\ (killer' # "none" <=> options.runId)
        /\ early' = (wrapper \in {"none", "started", "forked", "recording"})
    BY <1>0, <1>2, <2>1 DEF Stopped, Terminate
  <2>3. Found'
    BY <1>0, <1>1, <1>2, <2>2 DEF Found
  <2>4. QED
    BY <1>0, <1>1, <1>2, <2>1, <2>2, <2>3 DEF NotBegun, Watched, Stopped
<1>3. CASE Opened
  <2>1. /\ local = "opening" /\ wrapper = "none" /\ killer = "none" /\ pidFile # "pid"
        /\ UNCHANGED <<aborted, pidFile>>
    BY <1>0, <1>3 DEF Opened, NotBegun, Found
  <2>2. CASE AbortedEarly
    BY <1>2, <1>3, <2>1, <2>2 DEF Opened
  <2>3. CASE ~AbortedEarly
    <3>1. /\ local' = "streaming" /\ listener' = options.signal /\ UNCHANGED <<outcome, killer, early>>
          /\ wrapper' \in {"none", "started"}
      BY <1>3, <2>1, <2>3 DEF Opened, termination
    <3>2. options.signal => ~aborted
      BY <2>3 DEF AbortedEarly
    <3>3. QED
      BY <1>0, <1>1, <2>1, <3>1, <3>2 DEF NotBegun, Watched, Found, Stopped
  <2>4. QED
    BY <2>2, <2>3
<1>4. CASE Abort
  <2>1. CASE listener
    BY <1>0, <1>2, <1>4, <2>1 DEF Abort, remoteVars, Watched
  <2>2. CASE ~listener
    BY <1>0, <1>1, <1>4, <2>2 DEF Abort, remoteVars, callVars, termination, NotBegun, Watched, Found, Stopped
  <2>3. QED
    BY <2>1, <2>2
<1>5. CASE TimeoutFires
  BY <1>0, <1>2, <1>5 DEF TimeoutFires, remoteVars, Watched
<1>6. QED
  BY <1>3, <1>4, <1>5

\* The wrapper, the command and the terminating script.
LEMMA RemoteKeeps ==
    ASSUME StreamInv,
           \/ Fork \/ CreatePidFile \/ WritePid \/ WrapperExits
           \/ \E how \in {"succeeded", "failed", "killed"} : ChildExits(how)
           \/ KillerLooks \/ KillerKills \/ KillerFails
    PROVE  NotBegun' /\ Watched' /\ Found' /\ Stopped'
<1>0. NotBegun /\ Watched /\ Found /\ Stopped
  BY DEF StreamInv
<1>1. UNCHANGED <<options, killable, local, outcome, aborted, listener, commandTimer, early>>
  BY DEF Fork, CreatePidFile, WritePid, WrapperExits, ChildExits, KillerLooks, KillerKills, KillerFails,
         callVars, given, termination
<1>2. Watched'
  BY <1>0, <1>1 DEF Watched
<1>3. ASSUME Fork \/ CreatePidFile \/ WritePid \/ WrapperExits
      PROVE  NotBegun' /\ Found' /\ Stopped'
  <2>1. killer' = killer
    BY <1>3 DEF Fork, CreatePidFile, WritePid, WrapperExits, termination
  <2>2. CASE Fork
    BY <1>0, <1>1, <2>1, <2>2 DEF Fork, NotBegun, Found, Stopped
  <2>3. CASE CreatePidFile
    BY <1>0, <1>1, <2>1, <2>3 DEF CreatePidFile, NotBegun, Found, Stopped
  <2>4. CASE WritePid
    BY <1>0, <1>1, <2>1, <2>4 DEF WritePid, NotBegun, Found, Stopped
  <2>5. CASE WrapperExits
    BY <1>0, <1>1, <2>1, <2>5 DEF WrapperExits, NotBegun, Found, Stopped
  <2>6. QED
    BY <1>3, <2>2, <2>3, <2>4, <2>5
<1>4. ASSUME NEW how \in {"succeeded", "failed", "killed"}, ChildExits(how)
      PROVE  NotBegun' /\ Found' /\ Stopped'
  BY <1>0, <1>1, <1>4 DEF ChildExits, termination, NotBegun, Found, Stopped
<1>5. CASE KillerLooks
  BY <1>0, <1>1, <1>2, <1>5 DEF KillerLooks, StreamInv, StreamTypeOK, NotBegun, Found, Stopped
<1>6. CASE KillerKills
  BY <1>0, <1>1, <1>2, <1>6 DEF KillerKills, Killed, NotBegun, Found, Stopped
<1>7. CASE KillerFails
  BY <1>0, <1>1, <1>2, <1>7 DEF KillerFails, remoteVars, NotBegun, Found, Stopped
<1>8. QED
  BY <1>2, <1>3, <1>4, <1>5, <1>6, <1>7

\* The invariant in every behaviour.
LEMMA StreamInvariant == StreamSpec => []StreamInv
<1>1. StreamInit => StreamInv
  BY DEF StreamInit, StreamInv, StreamTypeOK, NotBegun, Watched, Found, Stopped
<1>2. StreamInv /\ [StreamNext]_streamVars => StreamInv'
  <2>1. StreamInv /\ UNCHANGED streamVars => StreamInv'
    <3>1. StreamInv /\ UNCHANGED streamVars => StreamTypeOK'
      BY StreamTypes DEF StreamInv
    <3>2. StreamInv /\ UNCHANGED streamVars => NotBegun' /\ Watched' /\ Found' /\ Stopped'
      BY DEF streamVars, StreamInv, NotBegun, Watched, Found, Stopped
    <3>3. QED
      BY <3>1, <3>2 DEF StreamInv
  <2>2. StreamInv /\ StreamNext => StreamTypeOK'
    BY StreamTypes DEF StreamInv
  <2>3. QED
    BY <2>1, <2>2, CallKeeps, TerminationKeeps, RemoteKeeps DEF StreamNext, Over, StreamInv
<1>3. QED
  BY <1>1, <1>2, PTL DEF StreamSpec

\* Wherever a tracked command's call was when it was cancelled or timed out, the terminating
\* script (terminateTrackedRemoteCommand) is through only with a command that is over, that the
\* host does not let it kill, or that was stopped before its PID was recorded.
THEOREM StoppedAccounted == StreamSpec => []StoppedCommandAccounted
<1>1. StreamInv => StoppedCommandAccounted
  BY DEF StreamInv, Found, Stopped, StoppedCommandAccounted
<1>2. QED
  BY <1>1, StreamInvariant, PTL

\* A call never streams on with its signal aborted, whether the abort came before its channel
\* was open or after (streamCommand's check of signal.aborted, and its listener).
THEOREM AbortIsHeeded == StreamSpec => []AbortHeeded
<1>1. StreamInv => AbortHeeded
  BY DEF StreamInv, Watched, AbortHeeded
<1>2. QED
  BY <1>1, StreamInvariant, PTL
=============================================================================
