SPECIFICATION FairSpec
CONSTANTS
    NumThreads = 3
    NumBuckets = 4
    kBlockSize = 1
    kMinParallelBlocksPerThread = 1
    kBaseCaseSize = 1
    kSingleLevelThreshold = 4
    Sizes = {2, 7}
    MaxSorts = 2
INVARIANTS
    SameTask
    EachPlaceOnce
PROPERTY
    EverySortEnds
