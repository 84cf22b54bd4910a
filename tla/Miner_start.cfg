SPECIFICATION FairSpec
CONSTANTS
    Users = {u1}
    Address = address
    Zero = zero
    Calls = {"start", "stop", "set", "shutdown", "close"}
    MaxSyncs = 1

PROPERTIES StartsAfterSync
CHECK_DEADLOCK FALSE
