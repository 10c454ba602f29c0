SPECIFICATION LiveSpec
CONSTANTS
    None = None
    Start <- Starts
    Setups <- LiveSetups
PROPERTY ConfigsConverge
CHECK_DEADLOCK FALSE
