SPECIFICATION FairSpec
CONSTANTS
    Users = {u1, u2}
    Address = address
    Zero = zero
    Calls = {"start", "stop", "set", "shutdown", "close"}
    MaxSyncs = 2
INVARIANTS ForbiddenOnlyInSync
PROPERTIES ResumesAfterSync StartTakesEffect PostsReturn
CHECK_DEADLOCK FALSE
