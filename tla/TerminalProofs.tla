--------------------------- MODULE TerminalProofs ---------------------------
(***************************************************************************)
(* Proofs about TerminalSessions, for any sockets, tickets, users, ids and *)
(* number of shells.                                                       *)
(*                                                                         *)
(* What a socket and a shell were given is read through their tickets, so  *)
(* the invariant says that those are spent, and ShellsKept that a spent    *)
(* ticket and the ticket of a shell never change again: what was checked   *)
(* before an await is still true of the session found after it.            *)
(*                                                                         *)
(* That an open socket keeps its shell, under an id that is not contended, *)
(* rests on a second invariant (Tidy): who could take it away would have   *)
(* to be alive, or have an attached session, under the same key.           *)
(***************************************************************************)
EXTENDS TerminalSessions, FiniteSetTheorems, TLAPS

TicketsSpent ==
    \A w \in Sockets :
        /\ socket[w].step = "none" => socket[w].ticket = None
        /\ socket[w].step # "none" =>
              socket[w].ticket \in Tickets /\ ticket[socket[w].ticket].state = "gone"

ShellsOpened ==
    \A s \in Shells : shell[s].state # "none" =>
        shell[s].by \in Tickets /\ ticket[shell[s].by].state = "gone"

\* The shells opened are the first ones.
Numbered == \A s \in Shells : shell[s].state # "none" <=> s <= Cardinality(Used)

OneEach ==
    \A w, v \in Sockets :
        socket[w].ticket = socket[v].ticket /\ socket[w].ticket # None => w = v

AttachedUsed ==
    \A w \in Sockets :
        IF socket[w].step = "attached"
        THEN socket[w].shell \in Shells /\ shell[socket[w].shell].state # "none"
        ELSE socket[w].shell = 0

\* What AttachedToOwnShell says of one socket.
Own(w, s) ==
    /\ TicketOf(s).user = ticket[socket[w].ticket].user
    /\ IF ticket[socket[w].ticket].id = None THEN shell[s].by = socket[w].ticket
                                            ELSE IdOf(s) = ticket[socket[w].ticket].id

\* A random id is named only after its session was opened.
Named == \A t \in Tickets : ticket[t].id \in Shells => shell[ticket[t].id].state # "none"

Inv ==
    /\ TypeOK /\ TicketsSpent /\ ShellsOpened /\ Numbered /\ OneEach /\ AttachedUsed
    /\ Named /\ AttachedToOwnShell /\ LiveShellReachable

\* The records of TypeOK.
WsStates     == {"none", "open", "closing", "closed"}
ShellNumbers == 0..MaxShells
TicketType == [state : TicketStates, user : Users \cup {None}, id : SessionIds \cup {None}, kind : Kinds]
SocketType == [step : Steps, ws : WsStates, ticket : Tickets \cup {None}, shell : ShellNumbers]
ShellType  == [state : {"none", "live"} \cup Endings, by : Tickets \cup {None},
               attached : Sockets \cup {None}, idle : BOOLEAN]

-----------------------------------------------------------------------------
(* The helpers *)

\* A socket, a shell or a ticket with a new value of a field is still one.
LEMMA SocketSet ==
  ASSUME NEW f \in [Sockets -> SocketType], NEW w,
         NEW a \in Steps, NEW b \in WsStates, NEW d \in ShellNumbers
  PROVE  /\ [f EXCEPT ![w].step = a] \in [Sockets -> SocketType]
         /\ [f EXCEPT ![w].ws = b] \in [Sockets -> SocketType]
         /\ [f EXCEPT ![w].step = a, ![w].ws = b] \in [Sockets -> SocketType]
         /\ [f EXCEPT ![w].step = a, ![w].shell = d] \in [Sockets -> SocketType]
BY DEF SocketType

LEMMA ShellSet ==
  ASSUME NEW f \in [Shells -> ShellType], NEW s,
         NEW a \in {"none", "live"} \cup Endings, NEW i \in BOOLEAN
  PROVE  /\ [f EXCEPT ![s].state = a] \in [Shells -> ShellType]
         /\ [f EXCEPT ![s].idle = i] \in [Shells -> ShellType]
BY DEF ShellType

LEMMA TicketSet ==
  ASSUME NEW f \in [Tickets -> TicketType], NEW t, NEW a \in TicketStates
  PROVE  [f EXCEPT ![t].state = a] \in [Tickets -> TicketType]
BY DEF TicketType

\* Destroying sessions leaves shells shells, of the tickets that opened them,
\* ends those it is about, and starts none.
LEMMA DestroyedShells ==
  ASSUME TypeOK, NEW victims \in SUBSET sessions, NEW how \in Endings
  PROVE  /\ Destroyed(victims, how) \in [Shells -> ShellType]
         /\ \A s \in Shells :
              /\ Destroyed(victims, how)[s].by = shell[s].by
              /\ Destroyed(victims, how)[s].state = "none" <=> shell[s].state = "none"
              /\ Destroyed(victims, how)[s].state = "live" => shell[s].state = "live" /\ s \notin victims
              /\ s \notin victims => Destroyed(victims, how)[s] = shell[s]
<1> DEFINE D(s) == IF s \in victims
                   THEN [shell[s] EXCEPT !.attached = None, !.idle = FALSE,
                                         !.state = IF @ = "live" THEN how ELSE @]
                   ELSE shell[s]
<1>1. ASSUME NEW s \in Shells
      PROVE  /\ D(s) \in ShellType
             /\ D(s).by = shell[s].by
             /\ D(s).state = "none" <=> shell[s].state = "none"
             /\ D(s).state = "live" => shell[s].state = "live" /\ s \notin victims
             /\ s \notin victims => D(s) = shell[s]
  <2>1. shell[s] \in ShellType /\ how \notin {"none", "live"}
    BY DEF TypeOK, ShellType, Endings
  <2>2. CASE s \in victims
    BY <2>1, <2>2 DEF ShellType
  <2>3. CASE s \notin victims
    BY <2>1, <2>3
  <2> QED
    BY <2>2, <2>3
<1>2. Destroyed(victims, how) = [s \in Shells |-> D(s)]
  BY DEF Destroyed
<1> HIDE DEF D
<1> QED
  BY <1>1, <1>2

\* So does the end of a socket.
LEMMA ClosedShells ==
  ASSUME TypeOK, NEW s \in Shells
  PROVE  /\ AfterClose(s) \in [Shells -> ShellType]
         /\ \A r \in Shells :
              /\ AfterClose(s)[r].by = shell[r].by
              /\ AfterClose(s)[r].state = "none" <=> shell[r].state = "none"
              /\ AfterClose(s)[r].state = "live" =>
                   shell[r].state = "live" /\ (TicketOf(s).kind = "command" => r \notin Victims(s))
<1>1. Victims(s) \subseteq sessions
  BY DEF Victims
<1>2. CASE TicketOf(s).kind = "command"
  BY <1>1, <1>2, DestroyedShells DEF AfterClose, Endings
<1>3. CASE TicketOf(s).kind # "command"
  BY ZenonT(30), <1>3 DEF AfterClose, Detached, TypeOK, ShellType
<1> QED
  BY <1>2, <1>3

\* Attaching a socket changes nothing else.
LEMMA AttachedShells ==
  ASSUME NEW shells \in [Shells -> ShellType], NEW s \in Shells, NEW w \in Sockets
  PROVE  /\ Attached(shells, s, w) \in [Shells -> ShellType]
         /\ \A r \in Shells : /\ Attached(shells, s, w)[r].by = shells[r].by
                              /\ Attached(shells, s, w)[r].state = shells[r].state
BY ZenonT(30) DEF Attached, Detached, ShellType

-----------------------------------------------------------------------------
(* Types *)

\* TypeOK, by the types of its records.
LEMMA Types ==
  TypeOK <=> /\ ticket \in [Tickets -> TicketType]
             /\ socket \in [Sockets -> SocketType]
             /\ shell \in [Shells -> ShellType]
             /\ sessions \subseteq {s \in Shells : shell[s].state # "none"}
             /\ contended \subseteq SessionIds
BY DEF TypeOK, TicketType, SocketType, ShellType, WsStates, ShellNumbers

\* Keys are session ids, or 0.
LEMMA KeyTypes ==
  ASSUME TypeOK, ShellsOpened
  PROVE  /\ \A s \in Used : IdOf(s) \in SessionIds
         /\ Known \subseteq SessionIds
         /\ \A w \in Sockets : socket[w].ticket \in Tickets => KeyOf(w) \in SessionIds \cup {0}
         /\ None \notin SessionIds \cup {0}
<1>1. ticket \in [Tickets -> TicketType] /\ socket \in [Sockets -> SocketType]
  BY Types
<1>2. \A t \in Tickets : ticket[t].id \in SessionIds \cup {None}
  BY <1>1 DEF TicketType
<1>3. \A s \in Used : IdOf(s) \in SessionIds
  BY <1>2 DEF ShellsOpened, IdOf, TicketOf, Used, SessionIds
<1>4. ShellNumbers = Shells \cup {0}
  BY TerminalAssumption DEF ShellNumbers, Shells
<1>5. \A w \in Sockets : socket[w].shell \in SessionIds \cup {0}
  BY <1>1, <1>4 DEF SocketType, SessionIds
<1>6. None \notin SessionIds \cup {0}
  BY <1>4, TerminalAssumption DEF ShellNumbers, SessionIds
<1> QED
  BY <1>2, <1>3, <1>5, <1>6 DEF KeyOf, Known, SessionIds

\* The sockets, tickets, shells and sessions keep their types.
LEMMA TypeInductive ==
    TypeOK /\ TicketsSpent /\ ShellsOpened /\ AttachedUsed /\ [Next]_vars => TypeOK'
<1> DEFINE Typed == /\ ticket' \in [Tickets -> TicketType]
                    /\ socket' \in [Sockets -> SocketType]
                    /\ shell' \in [Shells -> ShellType]
                    /\ sessions' \subseteq {s \in Shells : shell'[s].state # "none"}
                    /\ contended' \subseteq SessionIds
<1>t. Typed <=> TypeOK'
  BY DEF TypeOK, TicketType, SocketType, ShellType, WsStates, ShellNumbers
<1> SUFFICES ASSUME TypeOK, TicketsSpent, ShellsOpened, AttachedUsed, [Next]_vars PROVE Typed
  BY <1>t
<1> HIDE <1>t
<1>a. /\ ticket \in [Tickets -> TicketType]
      /\ socket \in [Sockets -> SocketType]
      /\ shell \in [Shells -> ShellType]
      /\ sessions \subseteq {s \in Shells : shell[s].state # "none"}
      /\ contended \subseteq SessionIds
  BY Types
<1>e. ExpiredSessions \in SUBSET sessions
  BY DEF ExpiredSessions
<1>v. ASSUME NEW s \in Shells PROVE Victims(s) \in SUBSET sessions
  BY DEF Victims
<1>h. {"ended", "deleted", "closed", "unseen"} \subseteq Endings /\ "none" \notin Endings
  BY DEF Endings
<1>s. /\ {"checking", "creating", "attached", "refused"} \subseteq Steps
      /\ {"issued", "gone"} \subseteq TicketStates
      /\ WsStates = {"none", "open", "closing", "closed"}
      /\ "shell" \in Kinds
  BY DEF Steps, TicketStates, Kinds, WsStates
<1>n. \A n \in Shells : n \in ShellNumbers
  BY TerminalAssumption DEF Shells, ShellNumbers
<1>0. 0 \in ShellNumbers
  BY TerminalAssumption DEF ShellNumbers
<1>d. ASSUME NEW victims \in SUBSET sessions, NEW how \in Endings,
             shell' = Destroyed(victims, how), sessions' = sessions \ victims
      PROVE  /\ shell' \in [Shells -> ShellType]
             /\ sessions' \subseteq {s \in Shells : shell'[s].state # "none"}
  <2>1. /\ Destroyed(victims, how) \in [Shells -> ShellType]
        /\ \A s \in Shells :
             Destroyed(victims, how)[s].state = "none" <=> shell[s].state = "none"
    BY DestroyedShells
  <2> QED
    BY <1>a, <1>d, <2>1
<1>1. ASSUME NEW t \in Tickets, NEW u \in Users, NEW i \in Known \cup {None}, NEW k \in Kinds,
             IssueTicket(t, u, i, k) PROVE Typed
  <2>1. i \in SessionIds \cup {None}
    BY KeyTypes
  <2> QED
    BY <1>1, <1>a, <1>s, <2>1 DEF IssueTicket, TicketType
<1>2. ASSUME NEW t \in Tickets, TicketExpires(t) PROVE Typed
  BY <1>2, <1>a, <1>s DEF TicketExpires, NoTicket, TicketType
<1>3. CASE ListSessions
  BY <1>3, <1>a, <1>e, <1>h, <1>d DEF ListSessions
<1>4. ASSUME NEW s \in Shells, DeleteSession(s) PROVE Typed
  BY <1>4, <1>a, <1>v, <1>h, <1>d DEF DeleteSession
<1>5. ASSUME NEW w \in Sockets, NEW t \in Tickets, NEW i \in SessionIds \cup {None}, Open(w, t, i) PROVE Typed
  <2>1. /\ shell' \in [Shells -> ShellType]
        /\ sessions' \subseteq {s \in Shells : shell'[s].state # "none"}
    BY <1>5, <1>e, <1>h, <1>d DEF Open
  <2>2. ticket' \in [Tickets -> TicketType]
    <3>1. ticket' = [ticket EXCEPT ![t].state =
                       IF ticket[t].state = "none" THEN ticket[t].state ELSE "gone"]
      BY <1>5 DEF Open, Consumed
    <3>2. "none" \in TicketStates
      BY DEF TicketStates
    <3> QED
      BY <1>a, <1>s, <3>1, <3>2, TicketSet
  <2>3. socket' \in [Sockets -> SocketType]
    <3>1. [step |-> "checking", ws |-> "open", ticket |-> t, shell |-> 0] \in SocketType
      BY <1>s, <1>0 DEF SocketType
    <3>2. socket' = socket
          \/ socket' = [socket EXCEPT ![w] = [step |-> "checking", ws |-> "open",
                                              ticket |-> t, shell |-> 0]]
      BY <1>5 DEF Open
    <3> QED
      BY <1>a, <3>1, <3>2
  <2>4. contended' \subseteq SessionIds
    <3>1. CASE i = None
      <4>1. \A v \in Sockets : Active(v) => socket[v].ticket \in Tickets
        BY DEF Active, TicketsSpent
      <4>2. \A v \in Sockets : Active(v) => KeyOf(v) # None
        BY <4>1, KeyTypes
      <4>3. ticket[t].id = i => Rivals(w, t) = {}
        BY <3>1, <4>2 DEF Rivals
      <4> QED
        BY <1>5, <1>a, <4>3 DEF Open
    <3>2. CASE i # None
      BY <1>5, <1>a, <3>2 DEF Open
    <3> QED
      BY <3>1, <3>2
  <2> QED
    BY <2>1, <2>2, <2>3, <2>4
<1>6. ASSUME NEW w \in Sockets, Refuse(w) \/ Create(w) \/ ClientLeaves(w) PROVE Typed
  <2>1. \/ socket' = [socket EXCEPT ![w].step = "refused", ![w].ws = "closed"]
        \/ socket' = [socket EXCEPT ![w].step = "creating"]
        \/ socket' = [socket EXCEPT ![w].ws = "closing"]
    BY <1>6 DEF Refuse, Create, ClientLeaves
  <2>2. socket' \in [Sockets -> SocketType]
    <3>1. "refused" \in Steps /\ "creating" \in Steps /\ "closed" \in WsStates /\ "closing" \in WsStates
      BY <1>s
    <3>2. /\ [socket EXCEPT ![w].step = "refused", ![w].ws = "closed"] \in [Sockets -> SocketType]
          /\ [socket EXCEPT ![w].step = "creating"] \in [Sockets -> SocketType]
          /\ [socket EXCEPT ![w].ws = "closing"] \in [Sockets -> SocketType]
      BY <1>a, <1>0, <3>1, SocketSet
    <3> QED
      BY <2>1, <3>2
  <2> QED
    BY <1>6, <1>a, <2>2 DEF Refuse, Create, ClientLeaves
<1>7. ASSUME NEW w \in Sockets, Join(w) PROVE Typed
  <2>1. PICK s \in Joinable(socket[w].ticket) :
           /\ shell' = Attached(shell, s, w)
           /\ socket' = [socket EXCEPT ![w].step = "attached", ![w].shell = s]
    BY <1>7 DEF Join
  <2>2. s \in Shells
    BY <1>a DEF Joinable
  <2>3. /\ shell' \in [Shells -> ShellType]
        /\ \A r \in Shells : shell'[r].state = shell[r].state
    BY <1>a, <2>1, <2>2, AttachedShells
  <2>4. s \in ShellNumbers
    BY <1>n, <2>2
  <2>5. socket' \in [Sockets -> SocketType]
    BY <1>a, <1>s, <2>1, <2>4, SocketSet
  <2> QED
    BY <1>7, <1>a, <2>3, <2>5 DEF Join
<1>8. ASSUME NEW w \in Sockets, ShellOpened(w) PROVE Typed
  <2> DEFINE n == Cardinality(Used) + 1
             opened == [shell EXCEPT ![n] = [state |-> "live", by |-> socket[w].ticket,
                                             attached |-> None, idle |-> FALSE]]
  <2>1. n \in Shells /\ shell' = Attached(opened, n, w)
    BY <1>8 DEF ShellOpened
  <2>2. socket[w].ticket \in Tickets \cup {None}
    BY <1>a DEF SocketType
  <2>3. opened \in [Shells -> ShellType]
    BY <1>a, <2>1, <2>2 DEF ShellType
  <2>4. /\ opened[n].state = "live"
        /\ \A r \in Shells \ {n} : opened[r] = shell[r]
    BY <1>a, <2>1
  <2>5. /\ socket' = [socket EXCEPT ![w].step = "attached", ![w].shell = n]
        /\ sessions' \subseteq sessions \cup {n}
        /\ UNCHANGED ticket
    BY <1>8 DEF ShellOpened, Put
  <2>10. contended' \subseteq SessionIds
    <3>1. PICK i : i = ticket[socket[w].ticket].id
      OBVIOUS
    <3>2. \/ contended' = contended
          \/ (\E r \in sessions : IdOf(r) = i) /\ contended' = contended \cup {i}
      BY <1>8, <3>1 DEF ShellOpened, Replaced
    <3>3. \A r \in sessions : IdOf(r) \in SessionIds
      BY <1>a, KeyTypes DEF Used
    <3> QED
      BY <1>a, <3>2, <3>3
  <2> HIDE DEF opened
  <2>6. /\ shell' \in [Shells -> ShellType]
        /\ \A r \in Shells : shell'[r].state = opened[r].state
    BY <2>1, <2>3, AttachedShells
  <2>7. sessions' \subseteq {s \in Shells : shell'[s].state # "none"}
    BY <1>a, <2>1, <2>4, <2>5, <2>6
  <2>8. n \in ShellNumbers
    BY <1>n, <2>1
  <2> HIDE DEF n
  <2>9. socket' \in [Sockets -> SocketType]
    BY <1>a, <1>s, <2>5, <2>8, SocketSet
  <2> QED
    BY <1>a, <2>5, <2>6, <2>7, <2>9, <2>10
<1>9. ASSUME NEW w \in Sockets, CloseEvent(w) PROVE Typed
  <2>1. /\ socket' = [socket EXCEPT ![w].ws = "closed"]
        /\ UNCHANGED <<ticket, contended>>
    BY <1>9 DEF CloseEvent
  <2>2. socket' \in [Sockets -> SocketType]
    BY <1>a, <1>s, <1>0, <2>1, SocketSet
  <2>3. CASE socket[w].step # "attached"
    BY <1>9, <1>a, <2>1, <2>2, <2>3 DEF CloseEvent
  <2>4. CASE socket[w].step = "attached"
    <3>1. socket[w].shell \in Shells
      BY <2>4 DEF AttachedUsed
    <3>2. /\ shell' = AfterClose(socket[w].shell)
          /\ sessions' \subseteq sessions
      BY <1>9, <2>4 DEF CloseEvent
    <3>3. /\ shell' \in [Shells -> ShellType]
          /\ \A r \in Shells : shell'[r].state = "none" <=> shell[r].state = "none"
      BY <3>1, <3>2, ClosedShells
    <3> QED
      BY <1>a, <2>1, <2>2, <3>2, <3>3
  <2> QED
    BY <2>3, <2>4
<1>10. ASSUME NEW w \in Sockets, Input(w) PROVE Typed
  <2>1. /\ shell' = [shell EXCEPT ![socket[w].shell].idle = FALSE]
        /\ UNCHANGED <<ticket, socket, sessions, contended>>
    BY <1>10 DEF Input
  <2>2. shell' \in [Shells -> ShellType]
    BY <1>a, <2>1, ShellSet
  <2>3. \A s \in Shells : shell'[s].state = shell[s].state
    BY <1>a, <2>1 DEF ShellType
  <2> QED
    BY <1>a, <2>1, <2>2, <2>3
<1>11. ASSUME NEW s \in Shells, ShellExits(s) PROVE Typed
  <2>1. shell[s].state = "live" /\ UNCHANGED <<ticket, contended>>
    BY <1>11 DEF ShellExits
  <2>2. CASE shell[s].attached = None
    <3>1. /\ shell' = [shell EXCEPT ![s].state = "unseen"]
          /\ UNCHANGED <<socket, sessions>>
      BY <1>11, <2>2 DEF ShellExits
    <3>2. shell' \in [Shells -> ShellType]
      BY <1>a, <1>h, <3>1, ShellSet
    <3>3. \A r \in Shells : shell'[r].state = "none" => shell[r].state = "none"
      BY <1>a, <3>1 DEF ShellType
    <3> QED
      BY <1>a, <2>1, <3>1, <3>2, <3>3
  <2>3. CASE shell[s].attached # None
    <3> DEFINE D == Destroyed(Victims(s), "closed")
               w == shell[s].attached
    <3>1. /\ shell' = [D EXCEPT ![s].state = "ended"]
          /\ sessions' \subseteq sessions
          /\ socket' = [socket EXCEPT ![w].ws = IF socket[w].ws = "open" THEN "closing"
                                                ELSE socket[w].ws]
      BY <1>11, <2>3 DEF ShellExits
    <3>2. /\ D \in [Shells -> ShellType]
          /\ \A r \in Shells : D[r].state = "none" <=> shell[r].state = "none"
      BY <1>v, <1>h, DestroyedShells
    <3> HIDE DEF D
    <3>3. shell' \in [Shells -> ShellType]
      BY <1>h, <3>1, <3>2, ShellSet
    <3>4. \A r \in Shells : shell'[r].state = "none" => shell[r].state = "none"
      BY <3>1, <3>2 DEF ShellType
    <3>5. w \in Sockets
      BY <1>a, <2>3 DEF ShellType
    <3>6. PICK b \in WsStates : socket' = [socket EXCEPT ![w].ws = b]
      BY <1>s, <1>a, <3>1, <3>5 DEF SocketType
    <3>7. socket' \in [Sockets -> SocketType]
      BY <1>a, <1>s, <1>0, <3>6, SocketSet
    <3> QED
      BY <1>a, <2>1, <3>1, <3>3, <3>4, <3>7
  <2> QED
    BY <2>2, <2>3
<1>12. ASSUME NEW s \in Shells, Idles(s) PROVE Typed
  <2>1. /\ shell' = [shell EXCEPT ![s].idle = TRUE]
        /\ UNCHANGED <<ticket, socket, sessions, contended>>
    BY <1>12 DEF Idles
  <2>2. shell' \in [Shells -> ShellType]
    BY <1>a, <2>1, ShellSet
  <2>3. \A r \in Shells : shell'[r].state = shell[r].state
    BY <1>a, <2>1 DEF ShellType
  <2> QED
    BY <1>a, <2>1, <2>2, <2>3
<1>13. CASE UNCHANGED vars
  BY <1>13, <1>a DEF vars
<1> QED
  BY <1>1, <1>2, <1>3, <1>4, <1>5, <1>6, <1>7, <1>8, <1>9, <1>10, <1>11, <1>12, <1>13 DEF Next

-----------------------------------------------------------------------------
(* Steps that open no shell *)

\* Spent tickets, and what a shell was opened for, stay; no live shell is lost.
ShellsKept ==
    /\ \A t \in Tickets : ticket[t].state = "gone" => ticket'[t] = ticket[t]
    /\ \A s \in Shells :
          /\ shell'[s].by = shell[s].by
          /\ shell'[s].state = "none" <=> shell[s].state = "none"
          /\ shell'[s].state = "live" /\ s \notin sessions' =>
                shell[s].state = "live" /\ s \notin sessions

\* No socket is admitted, or attached to a shell.
SocketsKept ==
    \A w \in Sockets :
        /\ socket'[w].ticket = socket[w].ticket
        /\ socket'[w].shell = socket[w].shell
        /\ socket'[w].step = "none" <=> socket[w].step = "none"
        /\ socket'[w].step = "attached" <=> socket[w].step = "attached"

\* Ending the sessions of the map that are given loses no live shell.
LEMMA DestroyedKeep ==
  ASSUME TypeOK, NEW victims \in SUBSET sessions, NEW how \in Endings,
         \A t \in Tickets : ticket[t].state = "gone" => ticket'[t] = ticket[t],
         shell' = Destroyed(victims, how), sessions' = sessions \ victims
  PROVE  ShellsKept
<1>1. \A s \in Shells :
         /\ Destroyed(victims, how)[s].by = shell[s].by
         /\ Destroyed(victims, how)[s].state = "none" <=> shell[s].state = "none"
         /\ Destroyed(victims, how)[s].state = "live" => shell[s].state = "live" /\ s \notin victims
  BY DestroyedShells
<1> QED
  BY <1>1 DEF ShellsKept

\* The part of the invariant that is about the shells.
LEMMA ShellsInvariant ==
  ASSUME Inv, ShellsKept
  PROVE  /\ ShellsOpened' /\ Numbered' /\ LiveShellReachable'
         /\ \A s \in Shells : shell[s].state # "none" => TicketOf(s)' = TicketOf(s)
<1>1. Used' = Used
  BY DEF ShellsKept, Used
<1>2. ASSUME NEW s \in Shells, shell[s].state # "none"
      PROVE  TicketOf(s)' = TicketOf(s) /\ shell'[s].by \in Tickets
             /\ ticket'[shell'[s].by].state = "gone"
  BY <1>2 DEF Inv, ShellsOpened, ShellsKept, TicketOf
<1>3. ShellsOpened'
  BY <1>2 DEF ShellsOpened, ShellsKept
<1>4. Numbered'
  BY <1>1 DEF Inv, Numbered, ShellsKept
<1>5. LiveShellReachable'
  <2> SUFFICES ASSUME NEW s \in Shells, shell'[s].state = "live", s \notin sessions'
               PROVE  \E r \in Used' : r > s /\ SameKey(r, s)'
    BY DEF LiveShellReachable
  <2>1. shell[s].state = "live" /\ s \notin sessions
    BY DEF ShellsKept
  <2>2. PICK r \in Used : r > s /\ SameKey(r, s)
    BY <2>1 DEF Inv, LiveShellReachable
  <2>3. TicketOf(s)' = TicketOf(s) /\ TicketOf(r)' = TicketOf(r)
    BY <1>2, <2>1 DEF Used
  <2> QED
    BY <1>1, <2>2, <2>3 DEF SameKey, IdOf
<1> QED
  BY <1>2, <1>3, <1>4, <1>5

\* A ticket keeps its id, or gets one that may be named.
LEMMA NamedKept ==
  ASSUME Inv, ShellsKept,
         \A t \in Tickets : ticket'[t].id = ticket[t].id \/ ticket'[t].id \in Known \cup {None}
  PROVE  Named'
<1> SUFFICES ASSUME NEW t \in Tickets, ticket'[t].id \in Shells PROVE shell'[ticket'[t].id].state # "none"
  BY DEF Named
<1>1. CASE ticket'[t].id = ticket[t].id
  BY <1>1 DEF Inv, Named, ShellsKept
<1>2. CASE ticket'[t].id \in Known \cup {None}
  <2>1. ticket'[t].id \notin Ids \cup {None}
    BY TerminalAssumption DEF Shells
  <2>2. PICK s \in Used : ticket'[t].id = IdOf(s)
    BY <1>2, <2>1 DEF Known
  <2>3. s \in Shells /\ shell[s].state # "none" /\ shell[s].by \in Tickets
    BY DEF Used, Inv, ShellsOpened
  <2>4. shell[IdOf(s)].state # "none"
    BY <2>2, <2>3 DEF IdOf, TicketOf, Inv, Named
  <2> QED
    BY <2>2, <2>4 DEF ShellsKept
<1> QED
  BY <1>1, <1>2

\* An attached socket whose ticket and shell stay the same stays with its own.
LEMMA OwnKept ==
  ASSUME Inv, NEW w \in Sockets, NEW s, socket[w].step = "attached", socket[w].shell = s,
         TicketOf(s)' = TicketOf(s), shell'[s].by = shell[s].by,
         socket'[w].ticket = socket[w].ticket, ticket'[socket[w].ticket] = ticket[socket[w].ticket]
  PROVE  Own(w, s)'
<1>1. Own(w, s)
  BY DEF Inv, AttachedToOwnShell, Own
<1>2. IdOf(s)' = IdOf(s)
  BY DEF IdOf
<1> QED
  BY <1>1, <1>2 DEF Own

\* A step that keeps the shells and the sockets keeps the invariant.
LEMMA KeptInvariant ==
  ASSUME Inv, TypeOK', Named', ShellsKept, SocketsKept PROVE Inv'
<1>1. /\ ShellsOpened' /\ Numbered' /\ LiveShellReachable'
      /\ \A s \in Shells : shell[s].state # "none" => TicketOf(s)' = TicketOf(s)
  BY ShellsInvariant
<1>2. TicketsSpent'
  BY DEF Inv, TicketsSpent, ShellsKept, SocketsKept
<1>3. OneEach'
  BY DEF Inv, OneEach, SocketsKept
<1>4. AttachedUsed'
  BY DEF Inv, AttachedUsed, ShellsKept, SocketsKept
<1>5. AttachedToOwnShell'
  <2> SUFFICES ASSUME NEW w \in Sockets, socket'[w].step = "attached",
                      NEW s, s = socket'[w].shell
               PROVE  Own(w, s)'
    BY DEF AttachedToOwnShell, Own
  <2>1. /\ socket[w].step = "attached"
        /\ socket'[w].ticket = socket[w].ticket
        /\ socket[w].shell = s
    BY DEF SocketsKept
  <2>2. ticket'[socket[w].ticket] = ticket[socket[w].ticket]
    BY <2>1 DEF Inv, TicketsSpent, ShellsKept
  <2>3. s \in Shells /\ shell[s].state # "none"
    BY <2>1 DEF Inv, AttachedUsed
  <2>4. TicketOf(s)' = TicketOf(s) /\ shell'[s].by = shell[s].by
    BY <1>1, <2>3 DEF ShellsKept
  <2> QED
    BY <2>1, <2>2, <2>4, OwnKept
<1> QED
  BY <1>1, <1>2, <1>3, <1>4, <1>5 DEF Inv

-----------------------------------------------------------------------------
(* The steps *)

\* A ticket that is presented was not spent before, and pruning loses no live shell.
LEMMA OpenKeepsShells ==
  ASSUME Inv, NEW w \in Sockets, NEW t \in Tickets, NEW i \in SessionIds \cup {None}, Open(w, t, i)
  PROVE  ShellsKept
<1>1. \A r \in Tickets : ticket[r].state = "gone" => ticket'[r] = ticket[r]
  BY DEF Open, Consumed, Inv, TypeOK
<1>2. ExpiredSessions \in SUBSET sessions /\ "ended" \in Endings
  BY DEF ExpiredSessions, Endings
<1> QED
  BY <1>1, <1>2, DestroyedKeep DEF Open, Inv

\* A socket is admitted with a ticket that is not spent, and spends it.
LEMMA OpenInvariant ==
  ASSUME Inv, TypeOK', NEW w \in Sockets, NEW t \in Tickets, NEW i \in SessionIds \cup {None},
         Open(w, t, i)
  PROVE  Inv'
<1>1. ShellsKept
  BY OpenKeepsShells
<1>4. Named'
  <2>1. \A r \in Tickets : ticket'[r].id = ticket[r].id
    BY DEF Open, Consumed, Inv, TypeOK
  <2> QED
    BY <1>1, <2>1, NamedKept
<1>2. CASE ~(ticket[t].state = "issued" /\ ticket[t].id = i)
  <2>1. SocketsKept
    BY <1>2 DEF Open, SocketsKept
  <2> QED
    BY <1>1, <1>4, <2>1, KeptInvariant
<1>3. CASE ticket[t].state = "issued" /\ ticket[t].id = i
  <2>1. /\ socket' = [socket EXCEPT ![w] = [step |-> "checking", ws |-> "open",
                                            ticket |-> t, shell |-> 0]]
        /\ ticket' = [ticket EXCEPT ![t].state = IF @ = "none" THEN @ ELSE "gone"]
    BY <1>3 DEF Open, Consumed
  <2>2. /\ socket'[w].ticket = t /\ socket'[w].step = "checking" /\ socket'[w].shell = 0
        /\ \A v \in Sockets \ {w} : socket'[v] = socket[v]
        /\ ticket'[t].state = "gone"
    BY <1>3, <2>1 DEF Inv, TypeOK
  <2>3. /\ ShellsOpened' /\ Numbered' /\ LiveShellReachable'
        /\ \A s \in Shells : shell[s].state # "none" => TicketOf(s)' = TicketOf(s)
    BY <1>1, ShellsInvariant
  <2>4. \A v \in Sockets : socket[v].ticket # t
    BY <1>3, TerminalAssumption DEF Inv, TicketsSpent
  <2>5. OneEach'
    BY <2>2, <2>4 DEF OneEach, Inv
  <2>6. ASSUME NEW v \in Sockets, v # w
        PROVE  /\ socket'[v].ticket = socket[v].ticket /\ socket'[v].shell = socket[v].shell
               /\ socket'[v].step = socket[v].step
               /\ socket[v].step # "none" => ticket'[socket[v].ticket] = ticket[socket[v].ticket]
    BY <1>1, <2>2, <2>6 DEF Inv, TicketsSpent, ShellsKept
  <2>7. TicketsSpent'
    BY <2>2, <2>6 DEF TicketsSpent, Inv
  <2>8. AttachedUsed'
    BY <1>1, <2>2, <2>6 DEF AttachedUsed, Inv, ShellsKept
  <2>9. AttachedToOwnShell'
    <3> SUFFICES ASSUME NEW v \in Sockets, socket'[v].step = "attached",
                        NEW s, s = socket'[v].shell
                 PROVE  Own(v, s)'
      BY DEF AttachedToOwnShell, Own
    <3>1. v # w
      BY <2>2
    <3>2. socket[v].step = "attached" /\ socket[v].shell = s
      BY <2>6, <3>1
    <3>3. s \in Shells /\ shell[s].state # "none"
      BY <3>2 DEF Inv, AttachedUsed
    <3>4. shell'[s].by = shell[s].by
      BY <1>1, <3>3 DEF ShellsKept
    <3> QED
      BY <2>3, <2>6, <3>1, <3>2, <3>3, <3>4, OwnKept
  <2> QED
    BY <1>4, <2>3, <2>5, <2>7, <2>8, <2>9 DEF Inv
<1> QED
  BY <1>2, <1>3

\* A socket that was awaiting access joins the session of its user and id.
LEMMA JoinInvariant ==
  ASSUME Inv, TypeOK', NEW w \in Sockets, Join(w) PROVE Inv'
<1>1. PICK n \in Joinable(socket[w].ticket) :
         /\ shell' = Attached(shell, n, w)
         /\ socket' = [socket EXCEPT ![w].step = "attached", ![w].shell = n]
  BY DEF Join
<1>2. UNCHANGED <<ticket, sessions, contended>>
  BY DEF Join
<1>3. n \in sessions /\ n \in Shells /\ shell[n].state # "none"
  BY DEF Joinable, Inv, TypeOK
<1>4. shell \in [Shells -> ShellType]
  BY Types DEF Inv
<1>5. \A r \in Shells : shell'[r].by = shell[r].by /\ shell'[r].state = shell[r].state
  BY <1>1, <1>3, <1>4, AttachedShells
<1>6. ShellsKept
  BY <1>2, <1>5 DEF ShellsKept
<1>7. /\ ShellsOpened' /\ Numbered' /\ LiveShellReachable'
      /\ \A s \in Shells : shell[s].state # "none" => TicketOf(s)' = TicketOf(s)
  BY <1>6, ShellsInvariant
<1>8. /\ socket[w].step = "checking" /\ socket'[w].step = "attached" /\ socket'[w].shell = n
      /\ \A v \in Sockets : socket'[v].ticket = socket[v].ticket
      /\ \A v \in Sockets \ {w} : socket'[v] = socket[v]
  BY <1>1 DEF Inv, TypeOK, Join
<1>9. TicketsSpent' /\ OneEach'
  BY <1>2, <1>8 DEF Inv, TicketsSpent, OneEach
<1>10. AttachedUsed'
  BY <1>3, <1>5, <1>8 DEF Inv, AttachedUsed
<1>11. AttachedToOwnShell'
  <2> SUFFICES ASSUME NEW v \in Sockets, socket'[v].step = "attached",
                      NEW s, s = socket'[v].shell
               PROVE  Own(v, s)'
    BY DEF AttachedToOwnShell, Own
  <2>1. CASE v = w
    <3>1. s = n /\ TicketOf(s)' = TicketOf(s) /\ socket'[v].ticket = socket[v].ticket
      BY <1>3, <1>7, <1>8, <2>1
    <3>2. TicketOf(s).user = ticket[socket[w].ticket].user /\ IdOf(s) = ticket[socket[w].ticket].id
      BY <3>1 DEF Joinable
    <3>3. IdOf(s) # None
      BY <1>3, <3>1, KeyTypes DEF Inv, Used
    <3>4. IdOf(s)' = IdOf(s)
      BY <3>1 DEF IdOf
    <3> QED
      BY <1>2, <2>1, <3>1, <3>2, <3>3, <3>4 DEF Own
  <2>2. CASE v # w
    <3>1. s \in Shells /\ shell[s].state # "none" /\ socket[v].step = "attached"
          /\ s = socket[v].shell
      BY <1>8, <2>2 DEF Inv, AttachedUsed
    <3> QED
      BY <1>2, <1>5, <1>7, <1>8, <3>1, OwnKept
  <2> QED
    BY <2>1, <2>2
<1>12. Named'
  BY <1>2, <1>6, NamedKept
<1> QED
  BY <1>7, <1>9, <1>10, <1>11, <1>12 DEF Inv

\* A shell is opened and its session put in the map, perhaps over another one.
LEMMA OpenedInvariant ==
  ASSUME Inv, TypeOK', NEW w \in Sockets, ShellOpened(w) PROVE Inv'
<1> DEFINE n == Cardinality(Used) + 1
           by == socket[w].ticket
           opened == [shell EXCEPT ![n] = [state |-> "live", by |-> by,
                                           attached |-> None, idle |-> FALSE]]
<1>1. /\ socket[w].step = "creating"
      /\ n \in Shells
      /\ shell' = Attached(opened, n, w)
      /\ sessions' = Put(n, ticket[by])
      /\ socket' = [socket EXCEPT ![w].step = "attached", ![w].shell = n]
      /\ UNCHANGED ticket
  BY DEF ShellOpened
<1>2. by \in Tickets /\ ticket[by].state = "gone"
  BY <1>1 DEF Inv, TicketsSpent
<1>3. /\ shell \in [Shells -> ShellType] /\ opened \in [Shells -> ShellType]
      /\ opened[n].state = "live" /\ opened[n].by = by
      /\ \A r \in Shells \ {n} : opened[r] = shell[r]
  <2>1. shell \in [Shells -> ShellType]
    BY Types DEF Inv
  <2>2. [state |-> "live", by |-> by, attached |-> None, idle |-> FALSE] \in ShellType
    BY <1>2 DEF ShellType
  <2> QED
    BY <1>1, <2>1, <2>2
<1> HIDE DEF opened
<1>4. \A r \in Shells : shell'[r].by = opened[r].by /\ shell'[r].state = opened[r].state
  BY <1>1, <1>3, AttachedShells
<1>5. Used \subseteq Shells /\ IsFiniteSet(Used) /\ Cardinality(Used) \in Nat
  <2>1. IsFiniteSet(Shells)
    BY FS_Interval, TerminalAssumption DEF Shells
  <2> QED
    BY <2>1, FS_Subset, FS_CardinalityType DEF Used
<1>6. shell[n].state = "none"
  <2>1. ~(n <= Cardinality(Used))
    BY <1>5
  <2> QED
    BY <1>1, <2>1 DEF Inv, Numbered
<1>7. Used' = Used \cup {n} /\ n \notin Used
  BY <1>1, <1>3, <1>4, <1>6 DEF Used
<1>8. Cardinality(Used') = n
  BY <1>5, <1>7, FS_AddElement
<1>9. \A r \in Shells : shell'[r].state # "none" <=> r = n \/ r <= Cardinality(Used)
  BY <1>1, <1>3, <1>4 DEF Inv, Numbered
<1>10. Numbered'
  <2>1. \A r \in Shells : r = n \/ r <= Cardinality(Used) <=> r <= n
    BY <1>5 DEF Shells
  <2> QED
    BY <1>8, <1>9, <2>1 DEF Numbered
<1>11. ShellsOpened'
  BY <1>1, <1>2, <1>3, <1>4 DEF Inv, ShellsOpened
<1>12. /\ \A s \in Shells : s = n => TicketOf(s)' = ticket[by]
       /\ \A s \in Used : TicketOf(s)' = TicketOf(s)
  <2>1. shell'[n].by = by /\ ticket' = ticket
    BY <1>1, <1>3, <1>4
  <2>2. \A s \in Used : shell'[s].by = shell[s].by
    BY <1>3, <1>4, <1>5, <1>7
  <2> QED
    BY <2>1, <2>2 DEF TicketOf
<1>13. LiveShellReachable'
  <2> SUFFICES ASSUME NEW s \in Shells, shell'[s].state = "live", s \notin sessions'
               PROVE  \E r \in Used' : r > s /\ SameKey(r, s)'
    BY DEF LiveShellReachable
  <2>1. s # n
    BY <1>1 DEF Put
  <2>2. shell[s].state = "live" /\ s \in Used
    BY <1>3, <1>4, <2>1 DEF Used
  <2>3. CASE s \notin sessions
    <3>1. PICK r \in Used : r > s /\ SameKey(r, s)
      BY <2>2, <2>3 DEF Inv, LiveShellReachable
    <3> QED
      BY <1>7, <1>12, <2>2, <3>1 DEF SameKey, IdOf
  <2>4. CASE s \in sessions
    <3>1. IdOf(s) = ticket[by].id
      BY <1>1, <2>4 DEF Put, Replaced
    <3>4. ticket[by].id # None
      BY <2>2, <3>1, KeyTypes DEF Inv
    <3>2. n > s
      <4>1. s <= Cardinality(Used)
        BY <2>2 DEF Inv, Numbered
      <4> QED
        BY <1>5, <4>1 DEF Shells
    <3>3. \A r \in Shells : r = n => SameKey(r, s)'
      BY <1>12, <2>2, <3>1, <3>4 DEF SameKey, IdOf
    <3> HIDE DEF n
    <3> QED
      BY <1>1, <1>7, <3>2, <3>3
  <2> QED
    BY <2>3, <2>4
<1>14. /\ socket'[w].step = "attached" /\ socket'[w].shell = n
       /\ \A v \in Sockets : socket'[v].ticket = socket[v].ticket
       /\ \A v \in Sockets \ {w} : socket'[v] = socket[v]
  BY <1>1 DEF Inv, TypeOK
<1> HIDE DEF n
<1>15. TicketsSpent' /\ OneEach'
  <2>1. ticket' = ticket /\ socket[w].step # "none"
    BY <1>1
  <2> QED
    BY <1>14, <2>1 DEF Inv, TicketsSpent, OneEach
<1>16. AttachedUsed'
  <2>1. ASSUME NEW v \in Sockets \ {w}
        PROVE  IF socket'[v].step = "attached"
               THEN socket'[v].shell \in Shells /\ shell'[socket'[v].shell].state # "none"
               ELSE socket'[v].shell = 0
    BY <1>3, <1>4, <1>14, <2>1 DEF Inv, AttachedUsed
  <2>2. socket'[w].shell \in Shells /\ shell'[socket'[w].shell].state # "none"
    BY <1>1, <1>3, <1>4, <1>14
  <2> QED
    BY <1>14, <2>1, <2>2 DEF AttachedUsed
<1>17. AttachedToOwnShell'
  <2> SUFFICES ASSUME NEW v \in Sockets, socket'[v].step = "attached",
                      NEW s, s = socket'[v].shell
               PROVE  Own(v, s)'
    BY DEF AttachedToOwnShell, Own
  <2>1. CASE v = w
    <3>1. s \in Shells /\ s = n /\ socket'[v].ticket = by /\ ticket' = ticket
      BY <1>1, <1>14, <2>1
    <3> HIDE DEF by
    <3>2. TicketOf(s)' = ticket[by] /\ shell'[s].by = by
      BY <1>3, <1>4, <1>12, <3>1
    <3>3. ticket[by].id = None \/ IdOf(s)' = ticket[by].id
      BY <3>2 DEF IdOf
    <3> QED
      BY <3>1, <3>2, <3>3 DEF Own
  <2>2. CASE v # w
    <3>1. s \in Used /\ socket[v].step = "attached" /\ s = socket[v].shell
      BY <1>14, <2>2 DEF Inv, AttachedUsed, Used
    <3> QED
      <4>1. TicketOf(s)' = TicketOf(s) /\ ticket' = ticket
            /\ socket'[v].ticket = socket[v].ticket /\ shell'[s].by = shell[s].by
        BY <1>1, <1>3, <1>4, <1>5, <1>7, <1>12, <1>14, <3>1
      <4> QED
        BY <3>1, <4>1, OwnKept
  <2> QED
    BY <2>1, <2>2
<1>18. Named'
  BY <1>1, <1>3, <1>4 DEF Inv, Named
<1> QED
  BY <1>10, <1>11, <1>13, <1>15, <1>16, <1>17, <1>18 DEF Inv

-----------------------------------------------------------------------------
(* The theorems *)

\* Initially there is no socket and no shell.
LEMMA InitInv == Init => Inv
<1> SUFFICES ASSUME Init PROVE Inv
  OBVIOUS
<1>1. Used = {}
  BY DEF Init, Used
<1>2. TypeOK
  BY TerminalAssumption
     DEF Init, TypeOK, NoTicket, TicketStates, Kinds, Steps, Endings
<1>3. Numbered
  <2>1. Cardinality(Used) = 0
    BY <1>1, FS_EmptySet
  <2> QED
    BY <2>1 DEF Init, Numbered, Shells
<1>4. Named
  BY TerminalAssumption DEF Init, Named, NoTicket, Shells
<1> QED
  BY <1>1, <1>2, <1>3, <1>4
     DEF Inv, Init, Named, NoTicket, TicketsSpent, ShellsOpened, OneEach, AttachedUsed, AttachedToOwnShell,
         LiveShellReachable

\* Every other step keeps shells and sockets.
LEMMA KeptSteps ==
  ASSUME Inv,
         \/ \E t \in Tickets, u \in Users, i \in Known \cup {None}, k \in Kinds : IssueTicket(t, u, i, k)
         \/ \E t \in Tickets : TicketExpires(t)
         \/ ListSessions
         \/ \E w \in Sockets : Refuse(w) \/ Create(w) \/ ClientLeaves(w) \/ CloseEvent(w) \/ Input(w)
         \/ \E s \in Shells : DeleteSession(s) \/ ShellExits(s) \/ Idles(s)
         \/ UNCHANGED vars
  PROVE  ShellsKept /\ SocketsKept
<1> DEFINE Kept == ShellsKept /\ SocketsKept
<1>y. TypeOK
  BY DEF Inv
<1>d. ASSUME NEW victims \in SUBSET sessions, NEW how \in Endings,
             shell' = Destroyed(victims, how), sessions' = sessions \ victims,
             UNCHANGED <<ticket, socket>>
      PROVE  Kept
  <2>1. ShellsKept
    BY <1>d, <1>y, DestroyedKeep
  <2>2. SocketsKept
    BY <1>d DEF SocketsKept
  <2> QED
    BY <2>1, <2>2
<1>v. ASSUME NEW s \in Shells PROVE Victims(s) \in SUBSET sessions
  BY DEF Victims
<1>h. {"ended", "deleted", "closed"} \subseteq Endings
  BY DEF Endings
<1>1. ASSUME NEW t \in Tickets, NEW u \in Users, NEW i \in Known \cup {None}, NEW k \in Kinds,
             IssueTicket(t, u, i, k) PROVE Kept
  <2>1. ShellsKept
    BY <1>1, <1>y DEF IssueTicket, ShellsKept, TypeOK
  <2>2. SocketsKept
    BY <1>1 DEF IssueTicket, SocketsKept
  <2> QED
    BY <2>1, <2>2
<1>1a. ASSUME NEW t \in Tickets, TicketExpires(t) PROVE Kept
  <2>1. ShellsKept
    BY <1>1a, <1>y DEF TicketExpires, ShellsKept, TypeOK
  <2>2. SocketsKept
    BY <1>1a DEF TicketExpires, SocketsKept
  <2> QED
    BY <2>1, <2>2
<1>2. CASE ListSessions
  <2>1. ExpiredSessions \in SUBSET sessions
    BY DEF ExpiredSessions
  <2> QED
    BY <1>2, <1>d, <1>h, <2>1 DEF ListSessions
<1>3. ASSUME NEW s \in Shells, DeleteSession(s) PROVE Kept
  BY <1>3, <1>d, <1>v, <1>h DEF DeleteSession
<1>5. ASSUME NEW w \in Sockets, Refuse(w) \/ Create(w) \/ ClientLeaves(w) PROVE Kept
  <2>1. ShellsKept
    BY <1>5 DEF Refuse, Create, ClientLeaves, ShellsKept
  <2>2. SocketsKept
    <3>1. /\ \A v \in Sockets \ {w} : socket'[v] = socket[v]
          /\ socket'[w].ticket = socket[w].ticket /\ socket'[w].shell = socket[w].shell
      BY <1>5, <1>y DEF TypeOK, Refuse, Create, ClientLeaves
    <3>2. \/ socket[w].step \in {"checking", "creating"} /\ socket'[w].step \in {"refused", "creating"}
          \/ socket'[w].step = socket[w].step
      BY <1>5, <1>y DEF TypeOK, Refuse, Create, ClientLeaves
    <3> QED
      BY <3>1, <3>2 DEF SocketsKept
  <2> QED
    BY <2>1, <2>2
<1>8. ASSUME NEW w \in Sockets, CloseEvent(w) PROVE Kept
  <2>1. socket' = [socket EXCEPT ![w].ws = "closed"] /\ ticket' = ticket
    BY <1>8 DEF CloseEvent
  <2>2. SocketsKept
    BY <1>y, <2>1 DEF TypeOK, SocketsKept
  <2>3. CASE socket[w].step # "attached"
    <3>1. ShellsKept
      BY <1>8, <2>1, <2>3 DEF CloseEvent, ShellsKept
    <3> QED
      BY <2>2, <3>1
  <2>4. CASE socket[w].step = "attached"
    <3> DEFINE s == socket[w].shell
    <3>1. s \in Shells
      BY <2>4 DEF Inv, AttachedUsed
    <3>2. /\ shell' = AfterClose(s)
          /\ sessions' = IF TicketOf(s).kind = "command" THEN sessions \ Victims(s) ELSE sessions
      BY <1>8, <2>4 DEF CloseEvent
    <3> HIDE DEF s
    <3>3. \A r \in Shells :
             /\ AfterClose(s)[r].by = shell[r].by
             /\ AfterClose(s)[r].state = "none" <=> shell[r].state = "none"
             /\ AfterClose(s)[r].state = "live" =>
                  shell[r].state = "live" /\ (TicketOf(s).kind = "command" => r \notin Victims(s))
      BY <1>y, <3>1, ClosedShells
    <3>4. ShellsKept
      BY <2>1, <3>2, <3>3 DEF ShellsKept
    <3> QED
      BY <2>2, <3>4
  <2> QED
    BY <2>3, <2>4
<1>9. ASSUME NEW w \in Sockets, Input(w) PROVE Kept
  <2>1. ShellsKept
    BY <1>9, <1>y DEF TypeOK, Input, ShellsKept
  <2>2. SocketsKept
    BY <1>9 DEF Input, SocketsKept
  <2> QED
    BY <2>1, <2>2
<1>10. ASSUME NEW s \in Shells, Idles(s) PROVE Kept
  <2>1. ShellsKept
    BY <1>10, <1>y DEF TypeOK, Idles, ShellsKept
  <2>2. SocketsKept
    BY <1>10 DEF Idles, SocketsKept
  <2> QED
    BY <2>1, <2>2
<1>11. ASSUME NEW s \in Shells, ShellExits(s) PROVE Kept
  <2>1. shell[s].state = "live" /\ ticket' = ticket
    BY <1>11 DEF ShellExits
  <2>2. CASE shell[s].attached = None
    <3>1. shell' = [shell EXCEPT ![s].state = "unseen"] /\ UNCHANGED <<socket, sessions>>
      BY <1>11, <2>2 DEF ShellExits
    <3>2. ShellsKept
      BY <1>y, <2>1, <3>1 DEF TypeOK, ShellsKept
    <3>3. SocketsKept
      BY <3>1 DEF SocketsKept
    <3> QED
      BY <3>2, <3>3
  <2>3. CASE shell[s].attached # None
    <3> DEFINE D == Destroyed(Victims(s), "closed")
    <3>1. /\ shell' = [D EXCEPT ![s].state = "ended"]
          /\ sessions' = sessions \ Victims(s)
          /\ socket' = [socket EXCEPT ![shell[s].attached].ws = IF @ = "open" THEN "closing" ELSE @]
      BY <1>11, <2>3 DEF ShellExits
    <3>2. /\ D \in [Shells -> ShellType]
          /\ \A r \in Shells : /\ D[r].by = shell[r].by
                               /\ D[r].state = "none" <=> shell[r].state = "none"
                               /\ D[r].state = "live" => shell[r].state = "live" /\ r \notin Victims(s)
      BY <1>y, <1>v, <1>h, DestroyedShells
    <3> HIDE DEF D
    <3>3. ShellsKept
      BY <2>1, <3>1, <3>2 DEF ShellsKept, ShellType
    <3>4. SocketsKept
      BY <1>y, <3>1 DEF TypeOK, SocketsKept
    <3> QED
      BY <3>3, <3>4
  <2> QED
    BY <2>2, <2>3
<1>12. CASE UNCHANGED vars
  <2>1. ShellsKept /\ SocketsKept
    BY <1>12 DEF vars, ShellsKept, SocketsKept
  <2> QED
    BY <2>1
<1> QED
  BY <1>1, <1>1a, <1>2, <1>3, <1>5, <1>8, <1>9, <1>10, <1>11, <1>12

\* Every step keeps the invariant.
LEMMA NextInv == Inv /\ [Next]_vars => Inv'
<1> SUFFICES ASSUME Inv, [Next]_vars PROVE Inv'
  OBVIOUS
<1>t. TypeOK'
  BY TypeInductive DEF Inv
<1>1. ASSUME NEW w \in Sockets, NEW t \in Tickets, NEW i \in SessionIds \cup {None}, Open(w, t, i) PROVE Inv'
  BY <1>1, <1>t, OpenInvariant
<1>2. ASSUME NEW w \in Sockets, Join(w) PROVE Inv'
  BY <1>2, <1>t, JoinInvariant
<1>3. ASSUME NEW w \in Sockets, ShellOpened(w) PROVE Inv'
  BY <1>3, <1>t, OpenedInvariant
<1>4. CASE \/ \E t \in Tickets, u \in Users, i \in Known \cup {None}, k \in Kinds : IssueTicket(t, u, i, k)
           \/ \E t \in Tickets : TicketExpires(t)
           \/ ListSessions
           \/ \E w \in Sockets : Refuse(w) \/ Create(w) \/ ClientLeaves(w) \/ CloseEvent(w) \/ Input(w)
           \/ \E s \in Shells : DeleteSession(s) \/ ShellExits(s) \/ Idles(s)
           \/ UNCHANGED vars
  <2>1. ShellsKept /\ SocketsKept
    BY <1>4, KeptSteps
  <2>2. \A t \in Tickets : ticket'[t].id = ticket[t].id \/ ticket'[t].id \in Known \cup {None}
    <3>1. ASSUME NEW t \in Tickets, NEW u \in Users, NEW i \in Known \cup {None}, NEW k \in Kinds,
                 IssueTicket(t, u, i, k)
          PROVE  \A r \in Tickets : ticket'[r].id = ticket[r].id \/ ticket'[r].id \in Known \cup {None}
      BY <3>1 DEF Inv, TypeOK, IssueTicket
    <3>2. ASSUME NEW t \in Tickets, TicketExpires(t)
          PROVE  \A r \in Tickets : ticket'[r].id = ticket[r].id \/ ticket'[r].id \in Known \cup {None}
      BY <3>2 DEF Inv, TypeOK, TicketExpires, NoTicket
    <3>3. CASE ticket' = ticket
      BY <3>3
    <3> QED
      BY <1>4, <3>1, <3>2, <3>3
         DEF ListSessions, Refuse, Create, ClientLeaves, CloseEvent, Input, DeleteSession, ShellExits, Idles, vars
  <2> QED
    BY <1>t, <2>1, <2>2, NamedKept, KeptInvariant
<1> QED
  BY <1>1, <1>2, <1>3, <1>4 DEF Next

\* The invariant holds throughout.
LEMMA Invariant == Spec => []Inv
BY InitInv, NextInv, PTL DEF Spec

\* Sockets, tickets, shells and sessions are of their types in every run.
THEOREM TerminalTypeCorrect == Spec => []TypeOK
<1>1. Inv => TypeOK
  BY DEF Inv
<1> QED
  BY <1>1, Invariant, PTL

\* A ticket admits at most one socket, whoever presents it and whenever.
THEOREM OneSocketPerTicket == Spec => []TicketAdmitsOne
<1>1. Inv => TicketAdmitsOne
  <2> SUFFICES ASSUME Inv, NEW t \in Tickets
               PROVE  Cardinality({w \in Sockets : socket[w].ticket = t}) <= 1
    BY DEF TicketAdmitsOne
  <2> DEFINE S == {w \in Sockets : socket[w].ticket = t}
  <2>1. t # None
    BY TerminalAssumption
  <2>2. CASE S = {}
    BY <2>2, FS_EmptySet
  <2>3. CASE S # {}
    <3>1. PICK w \in Sockets : S = {w}
      BY <2>1, <2>3 DEF Inv, OneEach
    <3> QED
      <4>1. Cardinality({w}) = 1
        BY FS_Singleton
      <4>2. Cardinality(S) = 1
        <5> HIDE DEF S
        <5> QED
          BY <3>1, <4>1
      <4> QED
        BY <4>2
  <2> QED
    BY <2>2, <2>3
<1> QED
  BY <1>1, Invariant, PTL

\* A socket is attached to a shell its own user opened under its own id.
THEOREM OwnShell == Spec => []AttachedToOwnShell
<1>1. Inv => AttachedToOwnShell
  BY DEF Inv
<1> QED
  BY <1>1, Invariant, PTL

\* A shell that lives is reached through the map, or a later one is in its place.
THEOREM ShellsReachable == Spec => []LiveShellReachable
<1>1. Inv => LiveShellReachable
  BY DEF Inv
<1> QED
  BY <1>1, Invariant, PTL

-----------------------------------------------------------------------------
(* What an open socket keeps *)

\* A key of terminalSessions names one session, whose end nobody has seen.
Keyed ==
    /\ \A r, s \in sessions : SameKey(r, s) => r = s
    /\ \A s \in sessions : shell[s].state \in {"live", "unseen"}

\* Of two sockets of one key only one is alive, unless it is contended.
Contends(v, w) == Active(v) /\ Active(w) /\ KeyOf(v) = KeyOf(w) /\ KeyOf(w) \in SessionIds \ contended
SoleActive == \A v, w \in Sockets : Contends(v, w) => v = w

\* No live shell with a socket is put out of the map, unless its key is contended.
NoneCovered ==
    \A s \in Shells : shell[s].state = "live" /\ shell[s].attached # None /\ IdOf(s) \notin contended =>
        s \in sessions

Tidy == Keyed /\ SoleActive /\ NoneCovered /\ OnlyOverlapDisturbs

\* No step changes a spent ticket, or the ticket of a shell, or admits a contended id again.
Aged ==
    /\ \A t \in Tickets : ticket[t].state = "gone" => ticket'[t] = ticket[t]
    /\ \A s \in Used : shell'[s].by = shell[s].by /\ shell'[s].state # "none"
    /\ contended \subseteq contended'

LEMMA AgedTickets ==
  ASSUME Inv, Aged
  PROVE  /\ \A w \in Sockets : socket[w].ticket # None =>
               socket[w].ticket \in Tickets /\ ticket'[socket[w].ticket] = ticket[socket[w].ticket]
         /\ \A s \in Used : TicketOf(s)' = TicketOf(s) /\ s \in Used'
<1>1. \A w \in Sockets : socket[w].ticket # None => 
         socket[w].ticket \in Tickets /\ ticket[socket[w].ticket].state = "gone"
  BY DEF Inv, TicketsSpent
<1>2. \A s \in Used : shell[s].by \in Tickets /\ ticket[shell[s].by].state = "gone"
  BY DEF Inv, ShellsOpened, Used
<1>3. \A s \in Used : TicketOf(s)' = TicketOf(s) /\ s \in Used'
  BY <1>2 DEF Aged, TicketOf, Used
<1> QED
  BY <1>1, <1>3 DEF Aged

LEMMA SessionsUsed ==
  ASSUME Inv
  PROVE  sessions \subseteq Used
BY DEF Inv, TypeOK, Used

LEMMA KeyedStays ==
  ASSUME Inv, Aged, Keyed, sessions' \subseteq sessions,
         \A s \in sessions' : shell'[s].state \in {"live", "unseen"}
  PROVE  Keyed'
<1>1. \A s \in sessions : TicketOf(s)' = TicketOf(s)
  BY AgedTickets, SessionsUsed
<1>2. \A r, s \in sessions' : SameKey(r, s)' => SameKey(r, s)
  BY <1>1 DEF SameKey, IdOf
<1> QED
  BY <1>2 DEF Keyed

\* The key of a socket that is alive is a session id, or not known yet, and stays the same.
LEMMA KeyStays ==
  ASSUME Inv, Aged, NEW w \in Sockets, socket[w].ticket # None,
         socket'[w].ticket = socket[w].ticket, socket'[w].shell = socket[w].shell
  PROVE  KeyOf(w)' = KeyOf(w)
BY AgedTickets DEF KeyOf

LEMMA SoleStays ==
  ASSUME Inv, Aged, SoleActive, NEW v \in Sockets, NEW w \in Sockets, Contends(v, w)',
         \A u \in {v, w} : /\ socket'[u].ticket = socket[u].ticket /\ socket'[u].shell = socket[u].shell
                           /\ Active(u)' => Active(u)
  PROVE  v = w
<1>1. Active(v) /\ Active(w)
  BY DEF Contends
<1>2. socket[v].ticket # None /\ socket[w].ticket # None
  BY <1>1, TerminalAssumption DEF Active, Inv, TicketsSpent
<1>3. KeyOf(v)' = KeyOf(v) /\ KeyOf(w)' = KeyOf(w)
  BY <1>2, KeyStays
<1> QED
  BY <1>1, <1>3 DEF Contends, Aged, SoleActive

LEMMA CoveredStays ==
  ASSUME Inv, Aged, NoneCovered,
         \A s \in Shells : shell'[s].state = "live" /\ shell'[s].attached # None /\ s \notin sessions' =>
             shell[s].state = "live" /\ shell[s].attached # None /\ s \notin sessions
  PROVE  NoneCovered'
<1> SUFFICES ASSUME NEW s \in Shells, shell'[s].state = "live", shell'[s].attached # None,
                    IdOf(s)' \notin contended', s \notin sessions'
             PROVE  FALSE
  BY DEF NoneCovered
<1>1. shell[s].state = "live" /\ shell[s].attached # None /\ s \notin sessions
  OBVIOUS
<1>2. IdOf(s)' = IdOf(s)
  BY <1>1, AgedTickets DEF Used, IdOf
<1> QED
  BY <1>1, <1>2 DEF NoneCovered, Aged

\* An open socket of an id that is not contended, and what it was given.
Held(w, s) ==
    /\ socket[w].step = "attached" /\ socket[w].ws = "open" /\ socket[w].shell = s
    /\ KeyOf(w) \notin contended
HasShell(w, s) == shell[s].state = "live" /\ shell[s].attached = w /\ s \in sessions
Gone(s) == shell[s].state \in {"deleted", "unseen"}

LEMMA HeldMeans ==
    OnlyOverlapDisturbs <=>
        \A w \in Sockets : \A s \in {socket[w].shell} : Held(w, s) => Gone(s) \/ HasShell(w, s)
BY DEF OnlyOverlapDisturbs, Held, HasShell, Gone

\* A step that takes no shell from a socket that was given it before.
LEMMA HeldStays ==
  ASSUME Inv, Aged, OnlyOverlapDisturbs,
         \A w \in Sockets : socket'[w].step = "attached" /\ socket'[w].ws = "open" =>
             /\ socket[w].step = "attached" /\ socket[w].ws = "open"
             /\ socket'[w].ticket = socket[w].ticket /\ socket'[w].shell = socket[w].shell,
         \A s \in Shells : Gone(s) => Gone(s)',
         \A w \in Sockets : \A s \in Shells : Held(w, s) /\ HasShell(w, s) /\ socket'[w].ws = "open" =>
             Gone(s)' \/ HasShell(w, s)'
  PROVE  OnlyOverlapDisturbs'
<1> SUFFICES ASSUME NEW w \in Sockets, NEW s, s = socket'[w].shell,
                    socket'[w].step = "attached",
                    socket'[w].ws = "open", KeyOf(w)' \notin contended'
             PROVE  Gone(s)' \/ HasShell(w, s)'
  BY DEF OnlyOverlapDisturbs, HasShell, Gone
<1>1. /\ socket[w].step = "attached" /\ socket[w].ws = "open"
      /\ socket'[w].ticket = socket[w].ticket /\ socket[w].shell = s
  OBVIOUS
<1>2. s \in Shells /\ socket[w].ticket # None
  BY <1>1, TerminalAssumption DEF Inv, AttachedUsed, TicketsSpent
<1>3. KeyOf(w)' = KeyOf(w)
  BY <1>1, <1>2, KeyStays
<1>4. Held(w, s)
  BY <1>1, <1>3 DEF Held, Aged
<1>5. Gone(s) \/ HasShell(w, s)
  BY <1>4, HeldMeans DEF Held
<1> QED
  BY <1>2, <1>4, <1>5

\* An attached socket has the key of its session.
LEMMA AttachedKey ==
  ASSUME Inv, NEW w \in Sockets, socket[w].step = "attached"
  PROVE  /\ KeyOf(w) = IdOf(socket[w].shell) /\ KeyOf(w) \in SessionIds
         /\ socket[w].shell \in Used
<1>1. socket[w].shell \in Used
  BY DEF Inv, AttachedUsed, Used
<1>2. KeyOf(w) = IdOf(socket[w].shell)
  BY DEF KeyOf, IdOf, TicketOf, Inv, AttachedToOwnShell
<1> QED
  BY <1>1, <1>2, KeyTypes DEF Inv

\* Nobody else is alive under the key of a socket that holds its shell.
LEMMA NobodyElse ==
  ASSUME Inv, Tidy, NEW w \in Sockets, NEW s, Held(w, s),
         NEW v \in Sockets, Active(v), KeyOf(v) = IdOf(s)
  PROVE  v = w
<1>1. KeyOf(w) = IdOf(s) /\ KeyOf(w) \in SessionIds
  BY AttachedKey DEF Held
<1>2. Active(w) /\ KeyOf(w) \notin contended
  BY DEF Held, Active
<1> QED
  BY <1>1, <1>2 DEF Contends, Tidy, SoleActive

\* A step that opens no shell and neither admits a socket nor attaches one.
SocketsStill ==
    \A w \in Sockets : /\ socket'[w].step = "attached" <=> socket[w].step = "attached"
                       /\ socket'[w].ws = "open" => socket[w].ws = "open"
                       /\ Active(w)' => Active(w)
ShellsStill ==
    /\ sessions' \subseteq sessions
    /\ \A s \in sessions' : shell'[s].state \in {"live", "unseen"}
    /\ \A s \in Shells : Gone(s) => Gone(s)'
    /\ \A w \in Sockets : \A s \in Shells : Held(w, s) /\ HasShell(w, s) /\ socket'[w].ws = "open" =>
          Gone(s)' \/ HasShell(w, s)'
    /\ \A s \in Shells : shell'[s].attached # None => shell'[s].attached = shell[s].attached

LEMMA ShellsAge ==
  ASSUME ShellsKept, contended \subseteq contended'
  PROVE  Aged /\ Used' = Used
BY DEF ShellsKept, Aged, Used

LEMMA StillTidy ==
  ASSUME Inv, Tidy, ShellsKept, SocketsKept, contended' = contended, SocketsStill, ShellsStill
  PROVE  Tidy'
<1>1. Aged /\ Used' = Used
  BY ShellsAge
<1>2. Keyed'
  BY <1>1, KeyedStays DEF Tidy, ShellsStill
<1>3. SoleActive'
  <2> SUFFICES ASSUME NEW v \in Sockets, NEW w \in Sockets, Contends(v, w)'
               PROVE  v = w
    BY DEF SoleActive
  <2> QED
    BY <1>1, SoleStays DEF Tidy, SocketsStill, SocketsKept
<1>6. NoneCovered'
  BY <1>1, CoveredStays DEF Tidy, ShellsKept, ShellsStill
<1>7. OnlyOverlapDisturbs'
  BY <1>1, HeldStays DEF Tidy, SocketsStill, SocketsKept, ShellsStill
<1> QED
  BY <1>2, <1>3, <1>6, <1>7 DEF Tidy

\* A step that leaves the sockets as they are.
LEMMA SocketsUnchanged ==
  ASSUME UNCHANGED socket
  PROVE  SocketsKept /\ SocketsStill
BY DEF SocketsKept, SocketsStill, Active

\* One that changes neither the state of a shell nor its socket.
LEMMA ShellsUnchanged ==
  ASSUME Keyed, UNCHANGED sessions, sessions \subseteq Shells,
         \A s \in Shells : shell'[s].state = shell[s].state /\ shell'[s].attached = shell[s].attached
  PROVE  ShellsStill
BY DEF ShellsStill, Keyed, Gone, HasShell

\* Destroying sessions, if the shell of a socket that holds it is not among them or was deleted.
LEMMA DestroyedStill ==
  ASSUME Inv, Tidy, NEW victims \in SUBSET sessions, NEW how \in Endings,
         shell' = Destroyed(victims, how), sessions' = sessions \ victims,
         \A w \in Sockets : \A s \in victims : Held(w, s) /\ HasShell(w, s) /\ socket'[w].ws = "open" =>
               how = "deleted"
  PROVE  ShellsStill
<1>1. sessions \subseteq Shells /\ TypeOK
  BY DEF Inv, TypeOK
<1>2. \A s \in Shells : s \notin victims => shell'[s] = shell[s]
  BY <1>1, DestroyedShells
<1>3. ASSUME NEW s \in victims
      PROVE  shell'[s].state = (IF shell[s].state = "live" THEN how ELSE shell[s].state) /\ shell'[s].attached = None
  <2>1. shell[s] \in ShellType /\ s \in Shells
    BY <1>1, Types
  <2>2. shell'[s] = [shell[s] EXCEPT !.attached = None, !.idle = FALSE, !.state = IF @ = "live" THEN how ELSE @]
    BY <2>1 DEF Destroyed
  <2> QED
    BY <2>1, <2>2 DEF ShellType
<1>4. \A s \in sessions' : shell'[s].state \in {"live", "unseen"}
  BY <1>1, <1>2 DEF Tidy, Keyed
<1>5. \A s \in Shells : Gone(s) => Gone(s)'
  BY <1>2, <1>3 DEF Gone
<1>6. ASSUME NEW w \in Sockets, NEW s \in Shells, Held(w, s), HasShell(w, s), socket'[w].ws = "open"
      PROVE  Gone(s)' \/ HasShell(w, s)'
  <2>1. CASE s \in victims
    BY <1>3, <1>6, <2>1 DEF Gone, HasShell
  <2>2. CASE s \notin victims
    BY <1>2, <1>6, <2>2 DEF HasShell
  <2> QED
    BY <2>1, <2>2
<1>7. \A s \in Shells : shell'[s].attached # None => shell'[s].attached = shell[s].attached
  BY <1>2, <1>3
<1> QED
  BY <1>4, <1>5, <1>6, <1>7 DEF ShellsStill

\* Pruning, which every use of the map begins with: a socket that holds a session is attached to it.
LEMMA PruneStill ==
  ASSUME Inv, Tidy, shell' = Destroyed(ExpiredSessions, "ended"), sessions' = sessions \ ExpiredSessions
  PROVE  ShellsStill
<1>1. ExpiredSessions \in SUBSET sessions /\ "ended" \in Endings
  BY DEF ExpiredSessions, Endings
<1>2. \A w \in Sockets : \A s \in ExpiredSessions : ~HasShell(w, s)
  BY TerminalAssumption DEF ExpiredSessions, HasShell
<1> QED
  BY <1>1, <1>2, DestroyedStill

\* The end of a socket.
LEMMA CloseTidy ==
  ASSUME Inv, Tidy, NEW w \in Sockets, CloseEvent(w), ShellsKept, SocketsKept
  PROVE  Tidy'
<1>1. /\ socket[w].ws = "closing" /\ contended' = contended
      /\ socket'[w].ws = "closed" /\ socket'[w].step = socket[w].step
      /\ \A v \in Sockets \ {w} : socket'[v] = socket[v]
  BY DEF CloseEvent, Inv, TypeOK
<1>2. SocketsStill
  BY <1>1 DEF SocketsStill, Active
<1>3. CASE socket[w].step # "attached"
  <2>1. UNCHANGED <<shell, sessions>>
    BY <1>3 DEF CloseEvent
  <2>2. ShellsStill
    BY <2>1, ShellsUnchanged DEF Inv, TypeOK, Tidy
  <2> QED
    BY <1>1, <1>2, <2>2, StillTidy
<1>4. ASSUME socket[w].step = "attached", NEW s, s = socket[w].shell
      PROVE  Tidy'
  <2>1. s \in Shells /\ shell \in [Shells -> ShellType] /\ sessions \subseteq Shells
    BY <1>4, Types DEF Inv, AttachedUsed
  <2>2. /\ shell' = AfterClose(s)
        /\ sessions' = IF TicketOf(s).kind = "command" THEN sessions \ Victims(s) ELSE sessions
    BY <1>4 DEF CloseEvent
  <2>3. Active(w)
    BY <1>1, <1>4 DEF Active
  <2>4. ASSUME NEW v \in Sockets, NEW r, Held(v, r), SameKey(r, s), socket'[v].ws = "open"
        PROVE  FALSE
    <3>1. v = w
      BY <1>4, <2>3, <2>4, AttachedKey, NobodyElse DEF SameKey
    <3> QED
      BY <1>1, <2>4, <3>1
  <2>5. ShellsStill
    <3>1. CASE TicketOf(s).kind = "command"
      <4>1. Victims(s) \in SUBSET sessions /\ "closed" \in Endings
        BY DEF Victims, Endings
      <4>2. shell' = Destroyed(Victims(s), "closed") /\ sessions' = sessions \ Victims(s)
        BY <2>2, <3>1 DEF AfterClose
      <4>3. \A v \in Sockets : \A r \in Victims(s) : ~(Held(v, r) /\ socket'[v].ws = "open")
        BY <2>4 DEF Victims
      <4> QED
        BY <4>1, <4>2, <4>3, DestroyedStill
    <3>2. CASE TicketOf(s).kind # "command"
      <4>1. shell' = [Detached(shell, s) EXCEPT ![s].idle = FALSE] /\ sessions' = sessions
        BY <2>2, <3>2 DEF AfterClose
      <4>2. /\ \A r \in Shells : /\ shell'[r].state = shell[r].state
                                 /\ r # s => shell'[r].attached = shell[r].attached
            /\ shell'[s].attached = None
        BY <2>1, <4>1 DEF Detached, ShellType
      <4>3. SameKey(s, s)
        BY DEF SameKey, IdOf
      <4>4. \A v \in Sockets : ~(Held(v, s) /\ socket'[v].ws = "open")
        BY <2>4, <4>3
      <4>5. \A r \in sessions : shell[r].state \in {"live", "unseen"}
        BY DEF Tidy, Keyed
      <4> QED
        BY <2>1, <4>1, <4>2, <4>4, <4>5 DEF ShellsStill, Gone, HasShell
    <3> QED
      BY <3>1, <3>2
  <2> QED
    BY <1>1, <1>2, <2>5, StillTidy
<1> QED
  BY <1>3, <1>4

\* The end of a shell: a shell that lives is in the map, so that no other has its key.
LEMMA ExitTidy ==
  ASSUME Inv, Tidy, NEW s \in Shells, ShellExits(s), ShellsKept, SocketsKept
  PROVE  Tidy'
<1>1. shell[s].state = "live" /\ contended' = contended
  BY DEF ShellExits
<1>2. shell \in [Shells -> ShellType] /\ socket \in [Sockets -> SocketType] /\ sessions \subseteq Shells
  BY Types DEF Inv
<1>3. CASE shell[s].attached = None
  <2>1. shell' = [shell EXCEPT ![s].state = "unseen"] /\ UNCHANGED <<socket, sessions>>
    BY <1>3 DEF ShellExits
  <2>2. /\ shell'[s].state = "unseen"
        /\ \A r \in Shells \ {s} : shell'[r] = shell[r]
    BY <1>2, <2>1 DEF ShellType
  <2>3. ShellsStill
    BY <1>2, <2>1, <2>2 DEF ShellsStill, Gone, HasShell, Tidy, Keyed
  <2> QED
    BY <1>1, <2>1, <2>3, SocketsUnchanged, StillTidy
<1>4. CASE shell[s].attached # None
  <2>1. PICK w : w = shell[s].attached
    OBVIOUS
  <2>2. /\ socket' = [socket EXCEPT ![w].ws = IF @ = "open" THEN "closing" ELSE @]
        /\ shell' = [Destroyed(Victims(s), "closed") EXCEPT ![s].state = "ended"]
        /\ sessions' = sessions \ Victims(s)
    BY <1>4, <2>1 DEF ShellExits
  <2>3. w \in Sockets
    BY <1>2, <1>4, <2>1 DEF ShellType
  <2>4. /\ socket'[w].ws # "open" /\ socket'[w].step = socket[w].step
        /\ socket'[w].ws = "closed" <=> socket[w].ws = "closed"
        /\ \A v \in Sockets \ {w} : socket'[v] = socket[v]
    BY <1>2, <2>2, <2>3 DEF SocketType
  <2>5. SocketsStill
    BY <2>4 DEF SocketsStill, Active
  <2>6. /\ Victims(s) \in SUBSET sessions /\ "closed" \in Endings /\ TypeOK
    BY DEF Victims, Endings, Inv
  <2>7. /\ Destroyed(Victims(s), "closed") \in [Shells -> ShellType]
        /\ \A r \in Shells : r \notin Victims(s) => Destroyed(Victims(s), "closed")[r] = shell[r]
    BY <2>6, DestroyedShells
  <2>8. \A r \in Shells \ {s} : r \notin Victims(s) => shell'[r] = shell[r]
    BY <2>2, <2>7
  <2>9. s \notin sessions'
    BY <2>2 DEF Victims, SameKey
  <2>10. ASSUME NEW v \in Sockets, NEW r \in Shells, Held(v, r), HasShell(v, r), socket'[v].ws = "open"
         PROVE  r # s /\ r \notin Victims(s)
    <3>1. r # s
      BY <2>1, <2>4, <2>10 DEF HasShell
    <3>2. CASE r \in Victims(s)
      <4>1. IdOf(s) = IdOf(r) /\ r \in sessions
        BY <3>2 DEF Victims, SameKey
      <4>2. IdOf(r) \notin contended
        BY <2>10, AttachedKey DEF Held
      <4>3. s \in sessions
        BY <1>1, <1>4, <4>1, <4>2 DEF Tidy, NoneCovered
      <4>4. r = s
        BY <3>2, <4>1, <4>3 DEF Victims, Tidy, Keyed
      <4> QED
        BY <3>1, <4>4
    <3> QED
      BY <3>1, <3>2
  <2>11. ASSUME NEW r \in Shells, Gone(r)
         PROVE  Gone(r)'
    <3>1. r # s
      BY <1>1, <2>11 DEF Gone
    <3>2. CASE r \in Victims(s)
      <4>1. Destroyed(Victims(s), "closed")[r] =
              [shell[r] EXCEPT !.attached = None, !.idle = FALSE, !.state = IF @ = "live" THEN "closed" ELSE @]
        BY <3>2, <2>11 DEF Destroyed
      <4>2. Destroyed(Victims(s), "closed")[r].state = shell[r].state
        <5>1. shell[r] \in ShellType /\ shell[r].state # "live"
          BY <1>2, <2>11 DEF Gone
        <5> QED
          BY <4>1, <5>1 DEF ShellType
      <4>3. shell'[r] = Destroyed(Victims(s), "closed")[r]
        BY <2>2, <2>7, <3>1
      <4> QED
        BY <2>11, <4>2, <4>3 DEF Gone
    <3>3. CASE r \notin Victims(s)
      BY <2>8, <2>11, <3>1, <3>3 DEF Gone
    <3> QED
      BY <3>2, <3>3
  <2>12. \A r \in sessions' : shell'[r].state \in {"live", "unseen"}
    BY <1>2, <2>2, <2>8, <2>9 DEF Tidy, Keyed
  <2>14. ASSUME NEW r \in Shells, shell'[r].attached # None
         PROVE  shell'[r].attached = shell[r].attached
    <3>1. CASE r \in Victims(s)
      <4>1. shell'[r].attached = Destroyed(Victims(s), "closed")[r].attached
        BY <2>2, <2>7, <3>1 DEF ShellType
      <4>2. Destroyed(Victims(s), "closed")[r].attached = None
        <5>1. shell[r] \in ShellType
          BY <1>2
        <5> QED
          BY <3>1, <5>1 DEF Destroyed, ShellType
      <4> QED
        BY <2>14, <4>1, <4>2
    <3>2. CASE r \notin Victims(s)
      BY <2>2, <2>7, <3>2 DEF ShellType
    <3> QED
      BY <3>1, <3>2
  <2>13. ShellsStill
    <3>1. \A v \in Sockets : \A r \in Shells : Held(v, r) /\ HasShell(v, r) /\ socket'[v].ws = "open" =>
                HasShell(v, r)'
      BY <2>2, <2>8, <2>10 DEF HasShell
    <3> QED
      BY <2>2, <2>11, <2>12, <2>14, <3>1 DEF ShellsStill
  <2> QED
    BY <1>1, <2>5, <2>13, StillTidy
<1> QED
  BY <1>3, <1>4

\* An admitted socket is alone under its id, or the id is contended from now on.
LEMMA OpenTidy ==
  ASSUME Inv, Tidy, NEW w \in Sockets, NEW t \in Tickets, NEW i \in SessionIds \cup {None}, Open(w, t, i),
         ShellsKept
  PROVE  Tidy'
<1>1. /\ socket[w].step = "none" /\ ShellsStill
  BY PruneStill DEF Open
<1>2. CASE ~(ticket[t].state = "issued" /\ ticket[t].id = i)
  <2>1. UNCHANGED <<socket, contended>>
    BY <1>2 DEF Open
  <2> QED
    BY <1>1, <2>1, SocketsUnchanged, StillTidy
<1>3. CASE ticket[t].state = "issued" /\ ticket[t].id = i
  <2>1. /\ socket' = [socket EXCEPT ![w] = [step |-> "checking", ws |-> "open", ticket |-> t, shell |-> 0]]
        /\ ticket' = [ticket EXCEPT ![t].state = IF @ = "none" THEN @ ELSE "gone"]
        /\ contended' = IF Rivals(w, t) = {} THEN contended ELSE contended \cup {i}
    BY <1>3 DEF Open, Consumed
  <2>2. /\ socket'[w].ticket = t /\ socket'[w].step = "checking" /\ socket'[w].shell = 0
        /\ \A v \in Sockets \ {w} : socket'[v] = socket[v]
        /\ ticket'[t].id = i
    BY <1>3, <2>1 DEF Inv, TypeOK
  <2>3. Aged /\ Used' = Used
    BY <2>1, ShellsAge
  <2>4. \A v \in Sockets \ {w} : Active(v)' => Active(v) /\ KeyOf(v)' = KeyOf(v)
    <3> SUFFICES ASSUME NEW v \in Sockets \ {w}, Active(v)' PROVE Active(v) /\ KeyOf(v)' = KeyOf(v)
      OBVIOUS
    <3>1. Active(v) /\ socket'[v] = socket[v]
      BY <2>2 DEF Active
    <3>2. socket[v].ticket # None
      BY <3>1, TerminalAssumption DEF Active, Inv, TicketsSpent
    <3> QED
      BY <2>3, <3>1, <3>2, KeyStays
  <2>5. ASSUME NEW v \in Sockets \ {w}, Active(v)', KeyOf(v)' = KeyOf(w)', KeyOf(w)' \in SessionIds \ contended'
        PROVE  FALSE
    <3>1. KeyOf(w)' = IF i = None THEN 0 ELSE i
      BY <2>2 DEF KeyOf
    <3>2. KeyOf(w)' = i
      BY <2>5, <3>1, TerminalAssumption DEF SessionIds, Shells
    <3>3. v \in Rivals(w, t)
      BY <1>3, <2>4, <2>5, <3>2 DEF Rivals
    <3> QED
      BY <2>1, <2>5, <3>2, <3>3
  <2>6. SoleActive'
    <3> SUFFICES ASSUME NEW v \in Sockets, NEW u \in Sockets, Contends(v, u)', v # u PROVE FALSE
      BY DEF SoleActive
    <3>1. CASE v = w \/ u = w
      BY <2>5, <3>1 DEF Contends
    <3>2. CASE v # w /\ u # w
      <4>1. Contends(v, u)
        BY <2>3, <2>4, <3>2 DEF Contends, Aged
      <4> QED
        BY <4>1 DEF Tidy, SoleActive
    <3> QED
      BY <3>1, <3>2
  <2>7. Keyed'
    BY <1>1, <2>3, KeyedStays DEF Tidy, ShellsStill
  <2>8. NoneCovered'
    BY <1>1, <2>3, CoveredStays DEF Tidy, ShellsKept, ShellsStill
  <2>9. OnlyOverlapDisturbs'
    <3>1. \A v \in Sockets : socket'[v].step = "attached" /\ socket'[v].ws = "open" =>
             /\ socket[v].step = "attached" /\ socket[v].ws = "open"
             /\ socket'[v].ticket = socket[v].ticket /\ socket'[v].shell = socket[v].shell
      BY <2>2
    <3> QED
      BY <1>1, <2>3, <3>1, HeldStays DEF Tidy, ShellsStill
  <2> QED
    BY <2>6, <2>7, <2>8, <2>9 DEF Tidy
<1> QED
  BY <1>2, <1>3

\* A socket that joins takes the session from nobody who is still there.
LEMMA JoinTidy ==
  ASSUME Inv, Tidy, NEW w \in Sockets, Join(w)
  PROVE  Tidy'
<1>1. PICK n \in Joinable(socket[w].ticket) :
         /\ shell' = Attached(shell, n, w)
         /\ socket' = [socket EXCEPT ![w].step = "attached", ![w].shell = n]
  BY DEF Join
<1>2. UNCHANGED <<ticket, sessions, contended>> /\ socket[w].step = "checking"
  BY DEF Join
<1>3. /\ n \in sessions /\ n \in Shells /\ n \in Used
      /\ IdOf(n) = ticket[socket[w].ticket].id /\ IdOf(n) # None
  <2>1. n \in sessions /\ n \in Shells /\ n \in Used /\ IdOf(n) = ticket[socket[w].ticket].id
    BY SessionsUsed DEF Joinable, Used
  <2> QED
    BY <2>1, KeyTypes DEF Inv
<1>4. shell \in [Shells -> ShellType] /\ socket \in [Sockets -> SocketType] /\ sessions \subseteq Shells
  BY Types DEF Inv
<1>5. /\ shell'[n].attached = w
      /\ \A r \in Shells : /\ shell'[r].by = shell[r].by /\ shell'[r].state = shell[r].state
                           /\ r # n => shell'[r] = shell[r]
  BY <1>1, <1>3, <1>4 DEF Attached, Detached, ShellType
<1>6. /\ socket'[w].step = "attached" /\ socket'[w].shell = n
      /\ socket'[w].ticket = socket[w].ticket /\ socket'[w].ws = socket[w].ws
      /\ \A v \in Sockets \ {w} : socket'[v] = socket[v]
  BY <1>1, <1>4 DEF SocketType
<1>7. Aged /\ Used' = Used
  <2>1. Used' = Used
    BY <1>5 DEF Used
  <2> QED
    BY <1>2, <1>5, <2>1 DEF Aged, Used
<1>8. Active(w) /\ KeyOf(w) = IdOf(n) /\ \A v \in Sockets : (Active(v)' => Active(v)) /\ KeyOf(v)' = KeyOf(v)
  <2>1. Active(w) /\ \A v \in Sockets : Active(v)' => Active(v)
    BY <1>2, <1>6 DEF Active
  <2>2. KeyOf(w) = IdOf(n) /\ KeyOf(w)' = IdOf(n)
    BY <1>2, <1>3, <1>6 DEF KeyOf
  <2>3. \A v \in Sockets \ {w} : KeyOf(v)' = KeyOf(v)
    BY <1>2, <1>6 DEF KeyOf
  <2> QED
    BY <2>1, <2>2, <2>3
<1>9. Keyed'
  BY <1>2, <1>4, <1>5, <1>7, KeyedStays DEF Tidy, Keyed
<1>10. SoleActive'
  BY <1>2, <1>8 DEF SoleActive, Contends, Tidy
<1>11. \A s \in Used : IdOf(s)' = IdOf(s)
  BY <1>7, AgedTickets DEF IdOf
<1>12. NoneCovered'
  BY <1>2, <1>3, <1>5, <1>11 DEF NoneCovered, Tidy, Used
<1>13. OnlyOverlapDisturbs'
  <2> SUFFICES ASSUME NEW v \in Sockets, NEW s, s = socket'[v].shell,
                      socket'[v].step = "attached", socket'[v].ws = "open", KeyOf(v)' \notin contended'
               PROVE  Gone(s)' \/ HasShell(v, s)'
    BY DEF OnlyOverlapDisturbs, HasShell, Gone
  <2>1. CASE v = w
    <3>1. s = n /\ shell'[s].state = shell[s].state /\ shell[s].state \in {"live", "unseen"}
      BY <1>3, <1>5, <1>6, <2>1 DEF Tidy, Keyed
    <3> QED
      BY <1>2, <1>3, <1>5, <2>1, <3>1 DEF Gone, HasShell
  <2>2. CASE v # w
    <3>1. socket'[v] = socket[v]
      BY <1>6, <2>2
    <3>2. Held(v, s) /\ s \in Shells
      BY <1>2, <1>8, <3>1 DEF Held, Inv, AttachedUsed
    <3>3. Gone(s) \/ HasShell(v, s)
      BY <3>2, HeldMeans DEF Held, Tidy
    <3>4. s # n
      BY <1>8, <2>2, <3>2, NobodyElse
    <3> QED
      BY <1>2, <1>5, <3>2, <3>3, <3>4 DEF Gone, HasShell
  <2> QED
    BY <2>1, <2>2
<1> QED
  BY <1>9, <1>10, <1>12, <1>13 DEF Tidy

\* A new shell is nobody's but the socket's that opened it, and a key of its own is new.
LEMMA OpenedShell ==
  ASSUME Inv, NEW w \in Sockets, ShellOpened(w)
  PROVE  \E n \in Shells :
           /\ n \notin Used /\ Used' = Used \cup {n} /\ sessions' = Put(n, ticket[socket[w].ticket])
           /\ shell'[n].state = "live" /\ shell'[n].attached = w /\ shell'[n].by = socket[w].ticket
           /\ \A r \in Shells \ {n} : shell'[r] = shell[r]
           /\ socket'[w].step = "attached" /\ socket'[w].shell = n
<1> DEFINE n == Cardinality(Used) + 1
           opened == [shell EXCEPT ![n] = [state |-> "live", by |-> socket[w].ticket,
                                           attached |-> None, idle |-> FALSE]]
<1>1. /\ n \in Shells /\ shell' = Attached(opened, n, w) /\ sessions' = Put(n, ticket[socket[w].ticket])
      /\ socket' = [socket EXCEPT ![w].step = "attached", ![w].shell = n]
  BY DEF ShellOpened
<1>2. shell \in [Shells -> ShellType] /\ socket \in [Sockets -> SocketType]
  BY Types DEF Inv
<1>3. n \notin Used
  <2>1. IsFiniteSet(Shells)
    BY FS_Interval, TerminalAssumption DEF Shells
  <2>2. Cardinality(Used) \in Nat
    BY <2>1, FS_Subset, FS_CardinalityType DEF Used
  <2>3. ~(n <= Cardinality(Used))
    BY <2>2
  <2> QED
    BY <1>1, <2>3 DEF Inv, Numbered, Used
<1> HIDE DEF n
<1>4. /\ opened[n].state = "live" /\ opened[n].by = socket[w].ticket
      /\ \A r \in Shells \ {n} : opened[r] = shell[r]
      /\ opened \in [Shells -> [state : {"live", "none"} \cup Endings, by : Tickets \cup {None},
                                attached : Sockets \cup {None}, idle : BOOLEAN]]
  <2>1. socket[w].ticket \in Tickets \cup {None}
    BY <1>2 DEF SocketType
  <2> QED
    BY <1>1, <1>2, <2>1 DEF ShellType
<1> HIDE DEF opened
<1>5. /\ shell'[n].state = "live" /\ shell'[n].attached = w /\ shell'[n].by = socket[w].ticket
      /\ \A r \in Shells \ {n} : shell'[r] = shell[r]
  BY <1>1, <1>4 DEF Attached, Detached
<1>6. Used' = Used \cup {n}
  BY <1>1, <1>5 DEF Used
<1>7. socket'[w].step = "attached" /\ socket'[w].shell = n
  BY <1>1, <1>2 DEF SocketType
<1> QED
  BY <1>1, <1>3, <1>5, <1>6, <1>7

\* Nobody knows the key of a shell before it is opened.
LEMMA KeyUsed ==
  ASSUME Inv
  PROVE  /\ \A v \in Sockets : Active(v) => KeyOf(v) \notin Shells \ Used
         /\ \A s \in Used : IdOf(s) \notin Shells \ Used
<1>1. \A t \in Tickets : ticket[t].id \notin Shells \ Used
  BY DEF Inv, Named, Used
<1>2. \A v \in Sockets : socket[v].shell \notin Shells \ Used
  <2>1. 0 \notin Shells
    BY DEF Shells
  <2> QED
    BY <2>1 DEF Inv, AttachedUsed, Used
<1>3. \A v \in Sockets : Active(v) => socket[v].ticket \in Tickets
  BY DEF Active, Inv, TicketsSpent
<1>4. \A s \in Used : shell[s].by \in Tickets
  BY DEF Inv, ShellsOpened, Used
<1> QED
  BY <1>1, <1>2, <1>3, <1>4 DEF KeyOf, IdOf, TicketOf

LEMMA OpenedTidy ==
  ASSUME Inv, Tidy, NEW w \in Sockets, ShellOpened(w)
  PROVE  Tidy'
<1>1. PICK n \in Shells :
           /\ n \notin Used /\ Used' = Used \cup {n} /\ sessions' = Put(n, ticket[socket[w].ticket])
           /\ shell'[n].state = "live" /\ shell'[n].attached = w /\ shell'[n].by = socket[w].ticket
           /\ \A r \in Shells \ {n} : shell'[r] = shell[r]
           /\ socket'[w].step = "attached" /\ socket'[w].shell = n
  BY OpenedShell
<1>2. /\ socket[w].step = "creating" /\ UNCHANGED ticket
      /\ \A v \in Sockets \ {w} : socket'[v] = socket[v]
      /\ socket'[w].ticket = socket[w].ticket /\ socket'[w].ws = socket[w].ws
  BY DEF ShellOpened, Inv, TypeOK
<1>3. PICK i : i = ticket[socket[w].ticket].id
  OBVIOUS
<1>4. /\ sessions' = (sessions \ {r \in sessions : IdOf(r) = i}) \cup {n}
      /\ contended \subseteq contended'
      /\ \A r \in sessions : IdOf(r) = i /\ shell[r].attached # None => i \in contended'
  BY <1>1, <1>3 DEF Put, Replaced, ShellOpened
<1>5. sessions \subseteq Used /\ Used \subseteq Shells
  BY SessionsUsed DEF Used
<1>6. Aged /\ \A s \in Used : s # n /\ shell'[s] = shell[s] /\ TicketOf(s)' = TicketOf(s) /\ IdOf(s)' = IdOf(s)
  <2>1. \A s \in Used : s # n /\ shell'[s] = shell[s]
    BY <1>1, <1>5
  <2>2. Aged
    BY <1>2, <1>4, <2>1 DEF Aged, Used
  <2> QED
    BY <2>1, <2>2, AgedTickets DEF IdOf
<1>7. socket[w].ticket \in Tickets /\ i \in SessionIds \cup {None} /\ socket[w].shell = 0
  BY <1>2, <1>3 DEF Inv, TicketsSpent, TypeOK, AttachedUsed
<1>8. TicketOf(n)' = ticket[socket[w].ticket] /\ IdOf(n)' = IF i = None THEN n ELSE i
  BY <1>1, <1>2, <1>3 DEF TicketOf, IdOf
<1>9. KeyOf(w)' = IdOf(n)' /\ \A v \in Sockets \ {w} : KeyOf(v)' = KeyOf(v) /\ (Active(v)' => Active(v))
  BY <1>1, <1>2, <1>3, <1>8 DEF KeyOf, Active
<1>10. Active(w) /\ (i # None => KeyOf(w) = i)
  BY <1>2, <1>3 DEF Active, KeyOf
<1>11. None \notin SessionIds
  BY KeyTypes DEF Inv
\* Who has the new session's key has it by the ticket's id.
<1>12. ASSUME NEW r \in sessions, IdOf(r) = IdOf(n)'
       PROVE  r \notin sessions'
  BY <1>1, <1>4, <1>5, <1>6, <1>8, <1>12, KeyUsed
<1>13. Keyed'
  <2>1. ASSUME NEW r \in sessions', NEW s \in sessions', SameKey(r, s)', r # s
        PROVE  FALSE
    <3>1. CASE r = n \/ s = n
      BY <1>4, <1>5, <1>6, <1>12, <2>1, <3>1 DEF SameKey
    <3>2. CASE r # n /\ s # n
      BY <1>4, <1>5, <1>6, <2>1, <3>2 DEF SameKey, Tidy, Keyed
    <3> QED
      BY <3>1, <3>2
  <2>2. \A s \in sessions' : shell'[s].state \in {"live", "unseen"}
    BY <1>1, <1>4, <1>5, <1>6 DEF Tidy, Keyed
  <2> QED
    BY <2>1, <2>2 DEF Keyed
<1>14. SoleActive'
  <2>1. ASSUME NEW v \in Sockets \ {w}, Active(v)', KeyOf(v)' = KeyOf(w)', KeyOf(w)' \in SessionIds \ contended'
        PROVE  FALSE
    <3>1. Active(v) /\ KeyOf(v) = IdOf(n)'
      BY <1>9, <2>1
    <3>2. i # None /\ KeyOf(v) = i
      BY <1>1, <1>8, <3>1, KeyUsed
    <3>3. Contends(v, w)
      BY <1>4, <1>8, <1>9, <1>10, <2>1, <3>1, <3>2 DEF Contends
    <3> QED
      BY <3>3 DEF Tidy, SoleActive
  <2> SUFFICES ASSUME NEW v \in Sockets, NEW u \in Sockets, Contends(v, u)', v # u PROVE FALSE
    BY DEF SoleActive
  <2>2. CASE v = w \/ u = w
    BY <2>1, <2>2 DEF Contends
  <2>3. CASE v # w /\ u # w
    <3>1. Contends(v, u)
      BY <1>4, <1>9, <2>3 DEF Contends
    <3> QED
      BY <3>1 DEF Tidy, SoleActive
  <2> QED
    BY <2>2, <2>3
<1>15. NoneCovered'
  <2> SUFFICES ASSUME NEW s \in Shells, shell'[s].state = "live", shell'[s].attached # None,
                      IdOf(s)' \notin contended', s # n, s \notin sessions'
               PROVE  FALSE
    BY <1>4 DEF NoneCovered
  <2>1. shell[s].state = "live" /\ shell[s].attached # None /\ s \in Used
    BY <1>1 DEF Used
  <2>2. IdOf(s) \notin contended'
    BY <1>6, <2>1
  <2>3. s \in sessions
    BY <1>4, <2>1, <2>2 DEF Tidy, NoneCovered
  <2> QED
    BY <1>4, <2>1, <2>2, <2>3
<1>16. OnlyOverlapDisturbs'
  <2> SUFFICES ASSUME NEW v \in Sockets, NEW s, s = socket'[v].shell,
                      socket'[v].step = "attached", socket'[v].ws = "open", KeyOf(v)' \notin contended'
               PROVE  Gone(s)' \/ HasShell(v, s)'
    BY DEF OnlyOverlapDisturbs, HasShell, Gone
  <2>1. CASE v = w
    BY <1>1, <1>4, <2>1 DEF HasShell
  <2>2. CASE v # w
    <3>1. socket'[v] = socket[v] /\ KeyOf(v) \notin contended'
      BY <1>2, <1>9, <2>2
    <3>2. Held(v, s) /\ s \in Used /\ IdOf(s) \notin contended'
      BY <1>4, <3>1, AttachedKey DEF Held
    <3>3. Gone(s) \/ HasShell(v, s)
      BY <3>2, HeldMeans DEF Held, Tidy
    <3>4. s \in sessions /\ shell[s].attached = v => s \in sessions'
      BY <1>4, <3>2, TerminalAssumption
    <3> QED
      BY <1>6, <3>2, <3>3, <3>4 DEF Gone, HasShell
  <2> QED
    BY <2>1, <2>2
<1> QED
  BY <1>13, <1>14, <1>15, <1>16 DEF Tidy

LEMMA InitTidy == Init => Tidy
<1> SUFFICES ASSUME Init PROVE Tidy
  OBVIOUS
<1>1. Keyed /\ NoneCovered /\ OnlyOverlapDisturbs
  BY DEF Init, Keyed, NoneCovered, OnlyOverlapDisturbs
<1>2. SoleActive
  BY DEF Init, SoleActive, Contends, Active
<1> QED
  BY <1>1, <1>2 DEF Tidy

LEMMA NextTidy == Inv /\ Tidy /\ [Next]_vars => Tidy'
<1> SUFFICES ASSUME Inv, Tidy, [Next]_vars PROVE Tidy'
  OBVIOUS
<1>a. shell \in [Shells -> ShellType] /\ socket \in [Sockets -> SocketType] /\ sessions \subseteq Shells
        /\ Keyed
  BY Types DEF Inv, Tidy
<1>1. ASSUME NEW w \in Sockets, NEW t \in Tickets, NEW i \in SessionIds \cup {None}, Open(w, t, i) PROVE Tidy'
  BY <1>1, OpenKeepsShells, OpenTidy
<1>2. ASSUME NEW w \in Sockets, Join(w) PROVE Tidy'
  BY <1>2, JoinTidy
<1>3. ASSUME NEW w \in Sockets, ShellOpened(w) PROVE Tidy'
  BY <1>3, OpenedTidy
<1>4. CASE \/ \E t \in Tickets, u \in Users, i \in Known \cup {None}, k \in Kinds : IssueTicket(t, u, i, k)
           \/ \E t \in Tickets : TicketExpires(t)
           \/ UNCHANGED vars
  <2>1. ShellsKept /\ SocketsKept
    BY <1>4, KeptSteps
  <2>2. UNCHANGED <<socket, shell, sessions, contended>>
    BY <1>4 DEF IssueTicket, TicketExpires, vars
  <2> QED
    BY <1>a, <2>1, <2>2, SocketsUnchanged, ShellsUnchanged, StillTidy
<1>5. CASE ListSessions
  <2>1. ShellsKept /\ SocketsKept
    BY <1>5, KeptSteps
  <2> QED
    BY <1>5, <2>1, SocketsUnchanged, PruneStill, StillTidy DEF ListSessions
<1>6. ASSUME NEW s \in Shells, DeleteSession(s) PROVE Tidy'
  <2>1. ShellsKept /\ SocketsKept
    BY <1>6, KeptSteps
  <2>2. Victims(s) \in SUBSET sessions /\ "deleted" \in Endings
    BY DEF Victims, Endings
  <2>3. ShellsStill
    BY <1>6, <2>2, DestroyedStill DEF DeleteSession
  <2> QED
    BY <1>6, <2>1, <2>3, SocketsUnchanged, StillTidy DEF DeleteSession
<1>7. ASSUME NEW w \in Sockets, Refuse(w) \/ Create(w) \/ ClientLeaves(w) PROVE Tidy'
  <2>1. ShellsKept /\ SocketsKept
    BY <1>7, KeptSteps
  <2>2. UNCHANGED <<shell, sessions, contended>>
    BY <1>7 DEF Refuse, Create, ClientLeaves
  <2>3. \A v \in Sockets \ {w} : socket'[v] = socket[v]
    BY <1>7, <1>a DEF Refuse, Create, ClientLeaves
  <2>4. \/ /\ socket[w].step \in {"checking", "creating"}
           /\ socket'[w].step = "refused" /\ socket'[w].ws = "closed"
        \/ /\ socket[w].step = "checking"
           /\ socket'[w].step = "creating" /\ socket'[w].ws = socket[w].ws
        \/ /\ socket[w].ws = "open"
           /\ socket'[w].step = socket[w].step /\ socket'[w].ws = "closing"
    BY <1>7, <1>a DEF Refuse, Create, ClientLeaves, SocketType
  <2>5. SocketsStill
    BY <2>3, <2>4 DEF SocketsStill, Active
  <2> QED
    BY <1>a, <2>1, <2>2, <2>5, ShellsUnchanged, StillTidy
<1>9. ASSUME NEW w \in Sockets, CloseEvent(w) PROVE Tidy'
  BY <1>9, KeptSteps, CloseTidy
<1>10. ASSUME NEW s \in Shells, ShellExits(s) PROVE Tidy'
  BY <1>10, KeptSteps, ExitTidy
<1>11. ASSUME NEW w \in Sockets, Input(w) PROVE Tidy'
  <2>1. ShellsKept /\ SocketsKept
    BY <1>11, KeptSteps
  <2>2. UNCHANGED <<ticket, socket, sessions, contended>>
    BY <1>11 DEF Input
  <2>3. \A r \in Shells : shell'[r].state = shell[r].state /\ shell'[r].attached = shell[r].attached
    BY <1>11, <1>a DEF Input, ShellType
  <2> QED
    BY <1>a, <2>1, <2>2, <2>3, SocketsUnchanged, ShellsUnchanged, StillTidy
<1>12. ASSUME NEW s \in Shells, Idles(s) PROVE Tidy'
  <2>1. ShellsKept /\ SocketsKept
    BY <1>12, KeptSteps
  <2>2. UNCHANGED <<ticket, socket, sessions, contended>>
    BY <1>12 DEF Idles
  <2>3. \A r \in Shells : shell'[r].state = shell[r].state /\ shell'[r].attached = shell[r].attached
    BY <1>12, <1>a DEF Idles, ShellType
  <2> QED
    BY <1>a, <2>1, <2>2, <2>3, SocketsUnchanged, ShellsUnchanged, StillTidy
<1> QED
  <2>1. CASE Next
    BY <2>1, <1>1, <1>2, <1>3, <1>4, <1>5, <1>6, <1>7, <1>9, <1>10, <1>11, <1>12 DEF Next
  <2>2. CASE UNCHANGED vars
    BY <1>4, <2>2
  <2> QED
    BY <2>1, <2>2

LEMMA TidyThroughout == Spec => []Tidy
<1> QED
  BY InitTidy, NextTidy, Invariant, PTL DEF Spec

\* Nothing but the user or the end of the shell takes an open socket's shell away: neither
\* pruning, nor the late close of an older socket, nor the end of a shell that another user had
\* under the same id before.  Excepted are ids under which two sockets were alive together, or
\* a shell was put over one whose socket had gone before its handlers were registered
\* (routes/terminal.ts destroySession, attachSocket).
THEOREM SoleSocketKeepsShell == Spec => []OnlyOverlapDisturbs
<1>1. Tidy => OnlyOverlapDisturbs
  BY DEF Tidy
<1> QED
  BY <1>1, TidyThroughout, PTL
=============================================================================
