SPECIFICATION Spec
CONSTANTS
    None = None
    Start <- Starts
    Setups <- SafetySetups
INVARIANTS ElectionsSound ConfigSound FailNeedsMajority
PROPERTY ManualFailoverKeepsWrites
CHECK_DEADLOCK FALSE
