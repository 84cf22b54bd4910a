SPECIFICATION FairSpec
CONSTANTS
    t1 = t1
    StaleThreshold = 0
    AdjustCap = 1
    HeadCap = 10
    ResultCap = 10
    Txs = {t1}
    Local = {t1}
    Pooled = {t1}
    MaxImports = 1
    MaxSides = 0
    MaxSeals = 2
    MaxStarts = 1
    MaxStops = 0
    MayClose = TRUE
    MaxImportsClosing = 0
    MaxRefused = 0
    MaxUnwritten = 1
PROPERTIES SealsOnHead HeadBlockNotDiscarded CloseEndsTaskAndResult
CHECK_DEADLOCK FALSE
