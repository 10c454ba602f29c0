SPECIFICATION FairSpec
CONSTANTS
    A = A
    B = B
    C = C
    Hosts = {A, B, C}
    NoOne = NoOne
    BacklogSize = 2
    Setups <- LiveSetups
PROPERTY EventuallySynced
CHECK_DEADLOCK FALSE
