SPECIFICATION Spec
CONSTANTS
    A = A
    B = B
    C = C
    Hosts = {A, B, C}
    NoOne = NoOne
    BacklogSize = 2
    Setups <- SafetySetups
INVARIANTS LinkStates HistoryAgrees ReplicaConverges
CHECK_DEADLOCK FALSE
