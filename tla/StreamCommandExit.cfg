SPECIFICATION StreamSpec
INVARIANTS NonZeroExitThrows
CHECK_DEADLOCK FALSE
