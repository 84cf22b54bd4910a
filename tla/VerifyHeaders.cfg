SPECIFICATION FairSpec
CONSTANTS
    N = 3
    MaxProcs = 2
    CheckFreq = 2
    BatchKinds = {"valid", "badSeal", "banned"}
INVARIANTS TypeOK ResultsInOrder ErrorSlotsUnshared FirstFailureReported AcceptedBatchVerified SealSampled
PROPERTIES CallerReturns WorkersExitAfterDelivery ImplementsOrdered
CHECK_DEADLOCK FALSE
