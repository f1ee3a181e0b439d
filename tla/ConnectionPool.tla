--------------------------- MODULE ConnectionPool ---------------------------
(***************************************************************************)
(* The pool of SSH connections of ssh-services/connection.ts, for one      *)
(* server id: both maps are only ever read and written at the id at hand.  *)
(*                                                                         *)
(* `pool` holds the NodeSSH object last connected, `connectionPromises`    *)
(* the attempt in flight.  A connection is numbered by the attempt that    *)
(* made it.  A transport that ends emits 'error' or 'end', then 'close';   *)
(* one that is disposed emits 'end' and 'close' later.  Each of these runs *)
(* closeConnection(serverId).                                              *)
(***************************************************************************)
EXTENDS Naturals, FiniteSets

CONSTANTS
    Users,          \* calls of getConnection, over and over
    MaxAttempts,    \* bound: handshakes begun
    None

ASSUME PoolAssumption == MaxAttempts \in Nat /\ None \notin Nat

VARIABLES
    pool,               \* the pool's entry
    connectionPromise,  \* the connectionPromises entry: the attempt awaited
    conn,               \* the transport of every connection
    request,            \* what each user's last getConnection call has come to
    attempts,           \* handshakes begun so far
    closes              \* history: how often closeConnection has run

vars == <<pool, connectionPromise, conn, request, attempts, closes>>

Conns == 1..MaxAttempts

Transports == {"new", "connecting", "open",
               "ending",   \* disposed: 'end' and 'close' are outstanding
               "closing",  \* 'close' is outstanding
               "gone"}

TypeOK ==
    /\ pool \in Conns \cup {None}
    /\ connectionPromise \in Conns \cup {None}
    /\ conn \in [Conns -> Transports]
    /\ request \in [Users -> [state : {"none", "waiting", "granted", "failed"},
                              on : Conns \cup {None}]]
    /\ attempts \in 0..MaxAttempts
    /\ closes \in Nat

NoRequest == [state |-> "none", on |-> None]

Init ==
    /\ pool = None
    /\ connectionPromise = None
    /\ conn = [c \in Conns |-> "new"]
    /\ request = [u \in Users |-> NoRequest]
    /\ attempts = 0
    /\ closes = 0

\* NodeSSH.isConnected(): the transport has neither been disposed nor ended.
IsConnected(c) == c # None /\ conn[c] = "open"

-----------------------------------------------------------------------------
(* Pieces of the operations.  The Wrong... forms are mistakes the code     *)
(* could make; no definition uses them: they show that the properties can  *)
(* fail.                                                                   *)

\* An attempt is registered that a caller can await.
WrongNeverPending == FALSE
AttemptPending == connectionPromise # None

\* connectionPromises after an attempt settled: finally() removes the entry,
\* whichever attempt it is of.
WrongPromiseKept == connectionPromise
PromiseAfterSettling == None

\* The pool after closeConnection.
WrongPoolKept == pool
PoolAfterClose == None

\* Those who awaited attempt c, answered.
Answered(c, state) ==
    [u \in Users |-> IF request[u].state = "waiting" /\ request[u].on = c
                     THEN [request[u] EXCEPT !.state = state] ELSE request[u]]

\* dispose() of the pooled connection, as closeConnection does it.
Disposed(transports) ==
    IF pool # None /\ transports[pool] = "open"
    THEN [transports EXCEPT ![pool] = "ending"] ELSE transports

-----------------------------------------------------------------------------
(* Operations                                                              *)

\* getConnection(server): an alive connection, the attempt in flight, or a
\* new attempt.
GetExisting(u) ==
    /\ IsConnected(pool)
    /\ request' = [request EXCEPT ![u] = [state |-> "granted", on |-> pool]]
    /\ UNCHANGED <<pool, connectionPromise, conn, attempts, closes>>

JoinPending(u) ==
    /\ ~IsConnected(pool)
    /\ AttemptPending
    /\ request' = [request EXCEPT ![u] = [state |-> "waiting", on |-> connectionPromise]]
    /\ UNCHANGED <<pool, connectionPromise, conn, attempts, closes>>

Connect(u) ==
    /\ ~IsConnected(pool)
    /\ ~AttemptPending
    /\ attempts < MaxAttempts
    /\ attempts' = attempts + 1
    /\ conn' = [conn EXCEPT ![attempts'] = "connecting"]
    /\ connectionPromise' = attempts'
    /\ request' = [request EXCEPT ![u] = [state |-> "waiting", on |-> attempts']]
    /\ UNCHANGED <<pool, closes>>

GetConnection(u) == GetExisting(u) \/ JoinPending(u) \/ Connect(u)

\* The handshake succeeds: the connection enters the pool over whatever is
\* there, and finally() removes whatever attempt is registered.
ConnectOk(c) ==
    /\ conn[c] = "connecting"
    /\ conn' = [conn EXCEPT ![c] = "open"]
    /\ pool' = c
    /\ connectionPromise' = PromiseAfterSettling
    /\ request' = Answered(c, "granted")
    /\ UNCHANGED <<attempts, closes>>

\* It fails, or readyTimeout expires.
ConnectFail(c) ==
    /\ conn[c] = "connecting"
    /\ conn' = [conn EXCEPT ![c] = "gone"]
    /\ connectionPromise' = PromiseAfterSettling
    /\ request' = Answered(c, "failed")
    /\ UNCHANGED <<pool, attempts, closes>>

\* closeConnection(serverId), the transports being `transports`.
Close(transports) ==
    /\ conn' = Disposed(transports)
    /\ pool' = PoolAfterClose
    /\ connectionPromise' = None
    /\ closes' = closes + 1
    /\ UNCHANGED <<request, attempts>>

\* A command that failed or timed out, or a route, closes the connection.
CloseConnection == Close(conn)

\* The same, and getConnection right after it: a new handshake, since the
\* pool and the attempts are empty.
Reconnect(u) ==
    /\ request[u].state \in {"granted", "failed"}
    /\ attempts < MaxAttempts
    /\ attempts' = attempts + 1
    /\ conn' = [Disposed(conn) EXCEPT ![attempts'] = "connecting"]
    /\ pool' = PoolAfterClose
    /\ connectionPromise' = attempts'
    /\ closes' = closes + 1
    /\ request' = [request EXCEPT ![u] = [state |-> "waiting", on |-> attempts']]

\* The server or the network ends connection c: 'error' or 'end'.
Drop(c) == conn[c] = "open" /\ Close([conn EXCEPT ![c] = "closing"])

\* attachConnectionLifecycle: a later event of connection c closes whatever
\* the pool holds for the server by then.
LifecycleEvent(c) ==
    \/ conn[c] = "ending" /\ Close([conn EXCEPT ![c] = "closing"])
    \/ conn[c] = "closing" /\ Close([conn EXCEPT ![c] = "gone"])

\* A user is through with its connection: nothing tells the pool.
Release(u) ==
    /\ request[u].state \in {"granted", "failed"}
    /\ request' = [request EXCEPT ![u] = NoRequest]
    /\ UNCHANGED <<pool, connectionPromise, conn, attempts, closes>>

Next ==
    \/ \E u \in Users : request[u].state = "none" /\ GetConnection(u)
    \/ \E u \in Users : Release(u) \/ Reconnect(u)
    \/ \E c \in Conns : ConnectOk(c) \/ ConnectFail(c)
    \/ \E c \in Conns : Drop(c) \/ LifecycleEvent(c)
    \/ CloseConnection

Spec == Init /\ [][Next]_vars

-----------------------------------------------------------------------------
(* Properties                                                              *)

\* connectionPromises never keeps an attempt that has settled: its rejection
\* would be served to every later caller.
PendingInFlight ==
    connectionPromise # None => conn[connectionPromise] = "connecting"

\* The pooled connection is alive: the events of its own transport evict it,
\* however many connections have replaced one another in the pool.
PoolIsAlive == pool # None => conn[pool] = "open"

\* Callers share one handshake and one connection per server: beyond the
\* first, each needs a run of closeConnection of its own.
ClosesAccountForConnections ==
    Cardinality({c \in Conns : conn[c] \in {"connecting", "open"}}) <= 1 + closes

\* "Pool: serverId -> active SSH connection" (connection.ts:5): with no
\* handshake or lifecycle event outstanding, and nobody using one, a live
\* connection is the pooled one, so that closeConnection can close it.
LiveConnectionsArePooled ==
    /\ \A c \in Conns : conn[c] \notin {"connecting", "ending", "closing"}
    /\ \A u \in Users : request[u] = NoRequest
    => \A c \in Conns : conn[c] = "open" => pool = c

=============================================================================
