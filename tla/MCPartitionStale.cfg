CONSTANTS
    T = 4
    N = 5
    NumBuckets = 8
    Jobs <- FirstLevelJobs
    BaseCase = 2
    Stale = {0, 1}
    Trivial = TRUE
SPECIFICATION Spec
INVARIANTS
    BoundariesRight
