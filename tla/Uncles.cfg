SPECIFICATION UnclesSpec
CONSTANTS
    Window = 3
    maxUncles = 2
    MaxHeaders = 5
INVARIANTS UncleOnce UncleBesideChain
CHECK_DEADLOCK FALSE
