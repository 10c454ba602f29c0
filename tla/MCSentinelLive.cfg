SPECIFICATION LiveSpec
CONSTANTS
    s1 = s1
    s2 = s2
    s3 = s3
    A = A
    B = B
    C = C
    None = None
    Sentinels = {s1, s2}
    Instances = {A, B, C}
    Quorum = 2
    Setups <- LiveSetups
PROPERTY FailoverCompletes
CHECK_DEADLOCK FALSE
