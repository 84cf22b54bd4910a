SPECIFICATION Spec
CONSTANTS
    Diffs = {0, 1, 2}
    TriesInMemory = 2
    MaxBlocks = 3
    MaxBatch = 2
    MaxUnseen = 2
    MaxCrashes = 1
    MaxStops = 1
INVARIANTS CanonToHead HeadHasState HeaviestHead LookupExact HeaderOnHead
CHECK_DEADLOCK FALSE
