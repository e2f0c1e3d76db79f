SPECIFICATION Spec
CONSTANTS
    kBaseCaseSize = 1
    kLogBuckets = 3
    kEqualBucketsThreshold = 2
    kAllowEqualBuckets = TRUE
    kOversampling = 50
    kBaseCaseMultiplier = 1
    Inputs <- MCInputs
    Entries <- MCEntries
INVARIANTS
    ClassifiedByRank
    ClassifierFree
    SortsInput
PROPERTY
    RecursionShrinks
