CONSTANTS
    Servers = {s1, s2}
    Tasks = {t1, t2, t3}
    NoTask = NoTask
SPECIFICATION LoopSpec
INVARIANTS MutualExclusion TimedOutNeverRuns
PROPERTIES StartsInOrder TimedCallNotStuck ImplementsSerialExecutor
