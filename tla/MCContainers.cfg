SPECIFICATION Spec
CONSTANTS
    ZipValues <- MCZipValues
    ZipMaxLen = 3
    ZipMaxEntries = 4
    QlSetups <- MCQlSetups
    QlValues = {"a", "b"}
    QlMaxEntries = 5
    IntBase = 4
    IntNumbers <- MCIntNumbers
    IntMaxLen = 5
    ZMembers = {1, 2, 3}
    ZScores <- MCZScores
    ZInf = 9
    ZMaxLevel = 3
    ZMaxEntries = 1
    ZLong = {3}
    RaxKeys <- MCRaxKeys
    RaxValues = {"v"}
    RaxMaxKeys = 4
    HllKeys = {"one", "two"}
    HllAdds <- MCHllAdds
    HllMerges <- MCHllMerges
    HLL_REGISTERS = 7
    HLL_BITS = 3
    HllByte = 4
    ValMaxValue = 4
    ValMaxLen = 2
    ZeroMaxLen = 2
    XZeroMaxLen = 8
    SparseMaxBytes = 6
    BitKeys = {"a", "b"}
    BitByte = 2
    BitWord = 2
    BitFast = 2
    BitInt = 4
    BitSets <- MCBitSets
    BitOps <- MCBitOps
    BitFields <- MCBitFields
    BitMaxBytes = 3
    SdsLimit <- MCSdsLimit
    SdsMaxPrealloc = 3
    SdsBytes = {0, 1, 2}
    SdsTexts <- MCSdsTexts
    SdsPlaces <- MCSdsPlaces
    SdsMaxLen = 5
INVARIANTS
    CompactExact
    OrderedExact
    SdsSound
CHECK_DEADLOCK FALSE
