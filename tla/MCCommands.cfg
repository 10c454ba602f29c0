SPECIFICATION MCSpec
CONSTANTS
    k1 = k1
    k2 = k2
    Keys = {k1, k2}
    Setups <- SafetySetups
    RdbByte = 5
    RdbWord = 3
    RdbIntChars = 6
    RdbLzfMin = 6
    RdbDbs = 2
    RdbModuleKinds <- MCModuleKinds
    SnSetups <- MCSnSetups
    SnFiles <- OldFiles
    SnSavePoint = 2
    SnInfo <- MCSnInfo
    ScKeys = {k1, k2}
    ScCacheMax = 1
    ScScripts <- MCScripts
    ScSetups <- MCScSetups
INVARIANTS
    ReplayExact
    BlockedSound
    ExecRefused
    NoForgottenInput
    SnapshotsSound
    ScriptsSound
CHECK_DEADLOCK FALSE
