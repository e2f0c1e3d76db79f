CONSTANTS
    T = 3
    N = 6
    NumBuckets = 8
    Jobs <- FirstLevelJobs
    BaseCase = 2
    Stale = {0}
    Trivial = TRUE
SPECIFICATION Spec
INVARIANTS
    BucketsNotShared
