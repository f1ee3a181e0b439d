--------------------------- MODULE SerialExecutor ---------------------------
(***************************************************************************)
(* What a command queue promises its callers, without promises, chains or  *)
(* a map: every server runs the tasks submitted to it one at a time and in *)
(* order of submission, the next as soon as none runs, and a task may be   *)
(* withdrawn, with a timeout for an answer, only while it waits.           *)
(***************************************************************************)
EXTENDS Naturals

CONSTANTS Servers, Tasks, None

VARIABLES
    waiting,    \* server -> the tasks submitted and neither called nor withdrawn
    active,     \* server -> the task being run
    answer,     \* task -> what its caller was told
    place,      \* task -> its place among the submissions
    submissions \* how many there have been

vars == <<waiting, active, answer, place, submissions>>

Init ==
    /\ waiting = [s \in Servers |-> {}]
    /\ active = [s \in Servers |-> None]
    /\ answer = [t \in Tasks |-> "none"]
    /\ place = [t \in Tasks |-> 0] /\ submissions = 0

Submit(t, s) ==
    /\ answer[t] = "none"
    /\ waiting' = [waiting EXCEPT ![s] = @ \cup {t}]
    /\ answer' = [answer EXCEPT ![t] = "pending"]
    /\ submissions' = submissions + 1
    /\ place' = [place EXCEPT ![t] = submissions']
    /\ UNCHANGED active

\* The first of those that wait is called.
Call(s) ==
    /\ active[s] = None
    /\ \E t \in waiting[s] :
          /\ \A u \in waiting[s] : place[t] <= place[u]
          /\ active' = [active EXCEPT ![s] = t]
          /\ waiting' = [waiting EXCEPT ![s] = @ \ {t}]
    /\ UNCHANGED <<answer, place, submissions>>

Return(s, r) ==
    /\ active[s] # None
    /\ active' = [active EXCEPT ![s] = None]
    /\ answer' = [answer EXCEPT ![active[s]] = r]
    /\ UNCHANGED <<waiting, place, submissions>>

Withdraw(s, t) ==
    /\ t \in waiting[s]
    /\ waiting' = [waiting EXCEPT ![s] = @ \ {t}]
    /\ answer' = [answer EXCEPT ![t] = "timeout"]
    /\ UNCHANGED <<active, place, submissions>>

Next ==
    \/ \E t \in Tasks, s \in Servers : Submit(t, s)
    \/ \E s \in Servers : Call(s)
    \/ \E s \in Servers, r \in {"value", "error"} : Return(s, r)
    \/ \E s \in Servers, t \in Tasks : Withdraw(s, t)

SafeSpec == Init /\ [][Next]_vars

Spec == SafeSpec /\ \A s \in Servers : WF_vars(Call(s))
=============================================================================
