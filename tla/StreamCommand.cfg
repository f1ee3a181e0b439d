SPECIFICATION StreamFairSpec
INVARIANTS StoppedCommandAccounted
PROPERTIES AbortSettles
