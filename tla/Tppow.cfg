SPECIFICATION FairSpec
CONSTANTS
    maxLuck = 2
    initBasis = 40
    initDifficultyAlpha = 30
    HashMax = 100
    difficultyAjustBlock = 2
    GasFloor = 8000000
    GasCeil = 8000000
    NonceSpace = 3
    Hashes = {0, 30, 41}
    GenesisGas = {5119, 9000000}
    Ticks = {22}
    MaxTime = 22
    MaxHeight = 2
INVARIANTS MinedAccepted FieldsForced
PROPERTIES SealLeavesNoMiner
CHECK_DEADLOCK FALSE
