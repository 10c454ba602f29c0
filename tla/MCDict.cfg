SPECIFICATION MCFairSpec
CONSTANTS
    Keys = {2, 5, 6}
    Vals = {"a", "b"}
    Hash <- MCHash
    InitialSize = 1
    MaxDoublings = 3
    ForceRatio = 1
    MinFill = 60
    EmptyVisits = 1
    CronBatch = 2
    MaxIterators = 1
    CursorBits = 4
INVARIANTS
    TablesConsistent LookupExact ExpandNeverFails IterSound
PROPERTIES RehashEnds MapSpec IterOnce ScanComplete
