------------------------- MODULE MCTerminalSessions -------------------------
(* TerminalSessions with interchangeable sockets, tickets and users.       *)
EXTENDS TerminalSessions, TLC

Symmetry == Permutations(Sockets) \cup Permutations(Tickets) \cup Permutations(Users)
=============================================================================
