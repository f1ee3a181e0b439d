CONSTANTS
    Jobs = {j1, j2}
    Heeding = {j1}
    Clients = {c1, c2}
    MaxLogs = 1
    MaxLogId = 3
    None = None
SPECIFICATION FairSpec
INVARIANTS CancellingAborts StreamHasNoGap StreamUpToDate
PROPERTIES CancellationDecides CancelledJobEnds
CHECK_DEADLOCK FALSE
