CONSTANT MaxClones = 0
SPECIFICATION PingSpec
CHECK_DEADLOCK FALSE
INVARIANT
    PingRunsWhileHeld
