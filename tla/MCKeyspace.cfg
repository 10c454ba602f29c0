CONSTANTS
    Keys = {"x", "y", "z"}
    IntMembers = {"1", "2", "3"}
    LongMembers = {"long"}
    MaxEntries = 2
    MaxTime = 3
    Setups <- MCSetups
SPECIFICATION Spec
INVARIANTS KeyspaceSound ReplaySame
CHECK_DEADLOCK FALSE
