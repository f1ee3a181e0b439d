-------------------------- MODULE TerminalSessions --------------------------
(***************************************************************************)
(* Interactive terminals (routes/terminal.ts) and the one-shot tickets     *)
(* that open them (services/terminal-ticket.service.ts).  A browser gets a *)
(* ticket over HTTP, opens a web socket with it, and the socket is         *)
(* attached to a shell that may outlive it: a `shell` session waits, with  *)
(* no socket, for another socket that names the same session id; a         *)
(* `command` session ends with its socket.                                 *)
(*                                                                         *)
(* Access to the server and the opening of the shell are awaited between   *)
(* the arrival of a socket and its attachment, and the socket's handlers   *)
(* are registered only then.  A TerminalSession object and its shell are   *)
(* one number of Shells, and the map terminalSessions is the set           *)
(* `sessions` of the objects in it.  A session without an id given by the  *)
(* client has a random one, its number here, which its socket is told and  *)
(* later tickets may name.                                                 *)
(*                                                                         *)
(* Servers are not told apart.  A ticket presented for another server than *)
(* its own is refused, and spent, as one for another session id is; which  *)
(* server a session is on does not matter to the one who joins it.         *)
(***************************************************************************)
EXTENDS Naturals, FiniteSets

CONSTANTS Sockets,    \* the web sockets that are admitted
          Tickets,    \* the tickets issued
          Users,
          Ids,        \* session ids chosen by clients
          MaxShells,  \* bound on the shells opened
          None

Shells == 1..MaxShells  \* in the order they are opened
SessionIds == Ids \cup Shells
Kinds  == {"shell", "command"}

ASSUME TerminalAssumption ==
    /\ MaxShells \in Nat
    /\ None \notin Sockets \cup Tickets \cup Users \cup Ids \cup (0..MaxShells)
    /\ Ids \cap (0..MaxShells) = {}

VARIABLES
    ticket,     \* terminalSocketTickets, with those issued and gone
    socket,     \* the requests to /ws/:serverId
    shell,      \* the TerminalSession objects and their streams
    sessions,   \* the objects in terminalSessions
    contended   \* history: the ids two sockets were alive under together, or under which a
                \* shell was put over one with a socket that had gone before it was attached

vars == <<ticket, socket, shell, sessions, contended>>

NoTicket     == [state |-> "none", user |-> None, id |-> None, kind |-> "shell"]
TicketStates == {"none", "issued", "gone"}
Steps        == {"none", "checking", "creating", "attached", "refused"}
\* A shell ended unattended ("unseen"), by a user's deletion, with a socket, or
\* otherwise: its own end is seen, or its session is pruned.
Endings      == {"unseen", "deleted", "closed", "ended"}

\* Every record is of its type; a session in the map was created.
TypeOK ==
    /\ ticket \in [Tickets -> [state : TicketStates, user : Users \cup {None},
                               id : SessionIds \cup {None}, kind : Kinds]]
    /\ socket \in [Sockets -> [step : Steps, ws : {"none", "open", "closing", "closed"},
                               ticket : Tickets \cup {None}, shell : 0..MaxShells]]
    /\ shell \in [Shells -> [state : {"none", "live"} \cup Endings, by : Tickets \cup {None},
                             attached : Sockets \cup {None}, idle : BOOLEAN]]
    /\ sessions \subseteq {s \in Shells : shell[s].state # "none"}
    /\ contended \subseteq SessionIds

Init ==
    /\ ticket = [t \in Tickets |-> NoTicket]
    /\ socket = [w \in Sockets |-> [step |-> "none", ws |-> "none", ticket |-> None, shell |-> 0]]
    /\ shell = [s \in Shells |-> [state |-> "none", by |-> None, attached |-> None, idle |-> FALSE]]
    /\ sessions = {}
    /\ contended = {}

-----------------------------------------------------------------------------
(* Helpers.  The Wrong... forms are mistakes the code could make; the      *)
(* project's mutants put them in the place of the operator they precede.   *)

TicketOf(s) == ticket[shell[s].by]
Used        == {s \in Shells : shell[s].state # "none"}

\* The key of terminalSessions: the client's id, or the session's own.
IdOf(s) == IF TicketOf(s).id = None THEN s ELSE TicketOf(s).id
SameKey(s, r) == IdOf(s) = IdOf(r)

\* The key a socket's session has, or is to have; 0 as long as nobody knows it.
KeyOf(w) ==
    IF ticket[socket[w].ticket].id = None THEN socket[w].shell ELSE ticket[socket[w].ticket].id

\* The ids a client may name: any of its own, or one it was told.
Known == Ids \cup {IdOf(s) : s \in Used}

\* terminalSessions.set: an older session under the same id is forgotten.
Replaced(by) == {r \in sessions : IdOf(r) = by.id}
Put(s, by) == (sessions \ Replaced(by)) \cup {s}

\* detachSocket(session)
Detached(shells, s) == [shells EXCEPT ![s].attached = None]

\* destroySession(session.id): whatever the map holds under the id of s is
\* detached, its stream ended, and it leaves the map; nobody asks any more how
\* long it has been idle.
Victims(s) == {r \in sessions : SameKey(r, s)}
WrongLeftRunning(victims, how) ==
    [s \in Shells |-> IF s \in victims THEN [shell[s] EXCEPT !.attached = None] ELSE shell[s]]
Destroyed(victims, how) ==
    [s \in Shells |->
        IF s \in victims
        THEN [shell[s] EXCEPT !.attached = None, !.idle = FALSE,
                              !.state = IF @ = "live" THEN how ELSE @]
        ELSE shell[s]]

\* pruneExpiredSessions: idle sessions without a socket.
WrongExpired == {s \in sessions : shell[s].idle}
ExpiredSessions == {s \in sessions : shell[s].attached = None /\ shell[s].idle}

\* attachSocket(session, socket)
WrongAttached(shells, s, w) == [Detached(shells, s) EXCEPT ![s].idle = FALSE]
Attached(shells, s, w) ==
    [Detached(shells, s) EXCEPT ![s].attached = w, ![s].idle = FALSE]

\* consumeTerminalSocketTicket: whatever the answer, the ticket is deleted.
WrongNotConsumed(t) == ticket
Consumed(t) == [ticket EXCEPT ![t].state = IF @ = "none" THEN @ ELSE "gone"]

\* The session a ticket's user may join.
WrongAnyUser(t) == {s \in sessions : IdOf(s) = ticket[t].id}
Joinable(t) ==
    {s \in sessions : IdOf(s) = ticket[t].id /\ TicketOf(s).user = ticket[t].user}

\* A request that still does, or may still do, something.
Active(w) ==
    \/ socket[w].step \in {"checking", "creating"}
    \/ socket[w].step = "attached" /\ socket[w].ws # "closed"

\* The sockets of the session that ticket t names which are alive when w comes with it.
Rivals(w, t) == {v \in Sockets \ {w} : Active(v) /\ KeyOf(v) = ticket[t].id}

-----------------------------------------------------------------------------
(* The HTTP side                                                           *)

\* POST /ws-ticket by a user who may use the server.
IssueTicket(t, u, i, k) ==
    /\ ticket[t].state = "none"
    /\ ticket' = [ticket EXCEPT ![t] = [state |-> "issued", user |-> u, id |-> i, kind |-> k]]
    /\ UNCHANGED <<socket, shell, sessions, contended>>

\* A minute passes: every use of the map first prunes what has expired, so an
\* expired ticket is already gone.
TicketExpires(t) ==
    /\ ticket[t].state = "issued"
    /\ ticket' = [ticket EXCEPT ![t] = [NoTicket EXCEPT !.state = "gone"]]
    /\ UNCHANGED <<socket, shell, sessions, contended>>

\* GET /sessions: expired sessions are destroyed before the list is made.
ListSessions ==
    /\ ExpiredSessions # {}
    /\ shell' = Destroyed(ExpiredSessions, "ended")
    /\ sessions' = sessions \ ExpiredSessions
    /\ UNCHANGED <<ticket, socket, contended>>

\* DELETE /sessions/:id by the user of the session.
DeleteSession(s) ==
    /\ s \in sessions
    /\ shell' = Destroyed(Victims(s), "deleted")
    /\ sessions' = sessions \ Victims(s)
    /\ UNCHANGED <<ticket, socket, contended>>

-----------------------------------------------------------------------------
(* A web socket                                                            *)

\* GET /ws/:serverId with ticket t and session id i.  Without a ticket that is
\* valid for them the request is answered with an error, and closed.
Open(w, t, i) ==
    /\ socket[w].step = "none"
    /\ shell' = Destroyed(ExpiredSessions, "ended")
    /\ sessions' = sessions \ ExpiredSessions
    /\ ticket' = Consumed(t)
    /\ IF ticket[t].state = "issued" /\ ticket[t].id = i
       THEN /\ socket' = [socket EXCEPT ![w] = [step |-> "checking", ws |-> "open",
                                                ticket |-> t, shell |-> 0]]
            /\ contended' = IF Rivals(w, t) = {} THEN contended ELSE contended \cup {i}
       ELSE UNCHANGED <<socket, contended>>

\* getAccessibleServer or the opening of the shell failed: an error is sent.
Refuse(w) ==
    /\ socket[w].step \in {"checking", "creating"}
    /\ socket' = [socket EXCEPT ![w].step = "refused", ![w].ws = "closed"]
    /\ UNCHANGED <<ticket, shell, sessions, contended>>

\* The user has access: join the session of that id, or open a shell.
Join(w) ==
    /\ socket[w].step = "checking"
    /\ \E s \in Joinable(socket[w].ticket) :
          /\ shell' = Attached(shell, s, w)
          /\ socket' = [socket EXCEPT ![w].step = "attached", ![w].shell = s]
    /\ UNCHANGED <<ticket, sessions, contended>>

Create(w) ==
    /\ socket[w].step = "checking"
    /\ Joinable(socket[w].ticket) = {}
    /\ Cardinality(Used) < MaxShells
    /\ socket' = [socket EXCEPT ![w].step = "creating"]
    /\ UNCHANGED <<ticket, shell, sessions, contended>>

\* createTerminalSession answers: the session is put in the map, the socket
\* attached (closed or not) and its handlers registered.
ShellOpened(w) ==
    LET s == Cardinality(Used) + 1
        by == ticket[socket[w].ticket]
        opened == [shell EXCEPT ![s] = [state |-> "live", by |-> socket[w].ticket,
                                        attached |-> None, idle |-> FALSE]]
    IN  /\ socket[w].step = "creating"
        /\ s \in Shells
        /\ shell' = Attached(opened, s, w)
        /\ sessions' = Put(s, by)
        /\ socket' = [socket EXCEPT ![w].step = "attached", ![w].shell = s]
        /\ contended' = IF \E r \in Replaced(by) : shell[r].attached # None
                        THEN contended \cup {by.id} ELSE contended
        /\ UNCHANGED ticket

\* The browser closes the socket, or is gone and the server notices.
ClientLeaves(w) ==
    /\ socket[w].ws = "open"
    /\ socket' = [socket EXCEPT ![w].ws = "closing"]
    /\ UNCHANGED <<ticket, shell, sessions, contended>>

\* The 'close' event.  Before the handlers are registered nobody sees it;
\* the handler does not ask whether the session is still attached to w.
WrongClosed(s) == Destroyed(Victims(s), "closed")
AfterClose(s) ==
    IF TicketOf(s).kind = "command"
    THEN Destroyed(Victims(s), "closed")
    ELSE [Detached(shell, s) EXCEPT ![s].idle = FALSE]

CloseEvent(w) ==
    LET s == socket[w].shell
    IN  /\ socket[w].ws = "closing"
        /\ socket' = [socket EXCEPT ![w].ws = "closed"]
        /\ IF socket[w].step # "attached"
           THEN UNCHANGED <<shell, sessions>>
           ELSE /\ shell' = AfterClose(s)
                /\ sessions' = IF TicketOf(s).kind = "command"
                               THEN sessions \ Victims(s) ELSE sessions
        /\ UNCHANGED <<ticket, contended>>

-----------------------------------------------------------------------------
(* A shell                                                                 *)

\* The shell ends on its own, or its connection does.  Only while a socket is
\* attached does somebody listen: the socket is told and closed, and the
\* session under that id destroyed.  Otherwise the session stays in the map
\* with a dead stream, unseen by those who join it.
ShellExits(s) ==
    LET w == shell[s].attached
    IN  /\ shell[s].state = "live"
        /\ IF w = None
           THEN /\ shell' = [shell EXCEPT ![s].state = "unseen"]
                /\ UNCHANGED <<socket, sessions>>
           ELSE /\ socket' = [socket EXCEPT ![w].ws = IF @ = "open" THEN "closing" ELSE @]
                /\ shell' = [Destroyed(Victims(s), "closed") EXCEPT ![s].state = "ended"]
                /\ sessions' = sessions \ Victims(s)
        /\ UNCHANGED <<ticket, contended>>

\* Half an hour without input, attachment or closing.
Idles(s) ==
    /\ s \in sessions
    /\ ~shell[s].idle
    /\ shell' = [shell EXCEPT ![s].idle = TRUE]
    /\ UNCHANGED <<ticket, socket, sessions, contended>>

\* Input or a resize arrives at an open socket.
Input(w) ==
    /\ socket[w].step = "attached"
    /\ socket[w].ws = "open"
    /\ shell[socket[w].shell].idle
    /\ shell' = [shell EXCEPT ![socket[w].shell].idle = FALSE]
    /\ UNCHANGED <<ticket, socket, sessions, contended>>

Next ==
    \/ \E t \in Tickets, u \in Users, i \in Known \cup {None}, k \in Kinds : IssueTicket(t, u, i, k)
    \/ \E t \in Tickets : TicketExpires(t)
    \/ ListSessions
    \/ \E w \in Sockets, t \in Tickets, i \in SessionIds \cup {None} : Open(w, t, i)
    \/ \E w \in Sockets : \/ Refuse(w) \/ Join(w) \/ Create(w) \/ ShellOpened(w)
                          \/ ClientLeaves(w) \/ CloseEvent(w) \/ Input(w)
    \/ \E s \in Shells : DeleteSession(s) \/ ShellExits(s) \/ Idles(s)

Spec == Init /\ [][Next]_vars

-----------------------------------------------------------------------------
(* Safety                                                                  *)

\* terminal-ticket.service: a ticket admits at most one socket, whatever is
\* presented how often and whenever it expires.
TicketAdmitsOne ==
    \A t \in Tickets : Cardinality({w \in Sockets : socket[w].ticket = t}) <= 1

\* A socket is attached only to a shell its own user opened, under the id its
\* own ticket names, if it names one, although the session is looked up after
\* an await.
AttachedToOwnShell ==
    \A w \in Sockets : socket[w].step = "attached" =>
        LET s == socket[w].shell
            t == ticket[socket[w].ticket]
        IN  /\ TicketOf(s).user = t.user
            /\ IF t.id = None THEN shell[s].by = socket[w].ticket ELSE IdOf(s) = t.id

\* A live shell can be reached through the map and so be listed, closed and
\* pruned, unless a later session was put over it under the same id.
LiveShellReachable ==
    \A s \in Shells : shell[s].state = "live" /\ s \notin sessions =>
        \E r \in Used : r > s /\ SameKey(r, s)

\* An open socket has a live shell, which sends its output to it, and its
\* session is in the map: neither pruning, nor what sockets that are gone left
\* behind, nor other users of the id before it, take it away.  Not so if the
\* shell was deleted or ended unseen, if two sockets were alive under its id
\* together, or if a shell was put over one that a user's socket left before
\* its handlers were registered: nobody detaches that one, and its end
\* destroys whatever then has its id.
OnlyOverlapDisturbs ==
    \A w \in Sockets :
        LET s == socket[w].shell
        IN  socket[w].step = "attached" /\ socket[w].ws = "open"
              /\ KeyOf(w) \notin contended
              /\ shell[s].state \notin {"deleted", "unseen"}
            => shell[s].state = "live" /\ shell[s].attached = w /\ s \in sessions

\* Of several sockets of one session, one that is open and has no output while
\* the shell lives lost it to another socket that was attached to the same one.
OutputLostToAnother ==
    \A w \in Sockets :
        LET s == socket[w].shell
        IN  socket[w].step = "attached" /\ socket[w].ws = "open"
              /\ shell[s].state = "live" /\ shell[s].attached # w
            => \E v \in Sockets \ {w} : socket[v].shell = s

\* Closing sockets ends no interactive shell, unless a command is run under
\* the same id.
ClosingKeepsShells ==
    \A s \in Used : TicketOf(s).kind = "shell" /\ shell[s].state = "closed" =>
        \E r \in Used \ {s} : SameKey(r, s)

=============================================================================
