SPECIFICATION Spec
CONSTANTS
    BioKeys = {"k1", "k2"}
    BioObjs = {1, 2}
    BioSetups <- MCBioSetups
    BioMaxJobs = 3
    AeFds = {0, 1}
    AeTimerIds = {0, 1, 2}
    AeSecond = 2
    AeMaxNow = 4
    AeMaxOps = 3
    AePeriods = {1}
    ClIds = {"a", "b", "c"}
    ClBuf = 2
    ClChunk = 2
    ClHard = 6
    ClSoft = 3
    ClSoftSeconds = 1
    ClMaxClients = 2
    ClSetups <- MCClSetups
    RsNodes = {1, 2, 3}
    RsKeys = {"k", "l"}
    RsSetups <- MCRsSetups
    RsMaxFaults = 1
    CfgKb = 2
    CfgDirs = {"/", "/data"}
    CfgSetups <- MCCfgSetups
INVARIANTS
    ReshardSound
    AeSound
    ServerSound
PROPERTY
    BioEnds
CHECK_DEADLOCK FALSE
