SPECIFICATION Spec
CONSTANTS
    Sockets = {w1, w2, w3}
    Tickets = {t1, t2, t3}
    Users = {u1, u2}
    Ids = {i1}
    MaxShells = 2
    None = None
SYMMETRY Symmetry
INVARIANTS TicketAdmitsOne AttachedToOwnShell LiveShellReachable OnlyOverlapDisturbs
CHECK_DEADLOCK FALSE
