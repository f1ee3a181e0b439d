CONSTANTS
    Users = {exec, stream}
    Exec = exec
    Stream = stream
    MaxAttempts = 6
    MaxCalls = 3
    MaxCloses = 1
    None = None
SPECIFICATION ExecFairSpec
INVARIANTS PoolIsAlive ClosesAccountForConnections
PROPERTIES TimedCallsSettle
CHECK_DEADLOCK FALSE
