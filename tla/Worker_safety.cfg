SPECIFICATION Spec
CONSTANTS
    t1 = t1
    StaleThreshold = 2
    AdjustCap = 10
    HeadCap = 10
    ResultCap = 10
    Txs = {t1}
    Local = {}
    Pooled = {}
    MaxImports = 1
    MaxSides = 1
    MaxSeals = 0
    MaxStarts = 1
    MaxStops = 1
    MayClose = FALSE
    MaxImportsClosing = 0
    MaxRefused = 1
    MaxUnwritten = 0
INVARIANTS QuiescentOnHead SealsForCoinbase
PROPERTIES DiscardedIsReplaced
CHECK_DEADLOCK FALSE
