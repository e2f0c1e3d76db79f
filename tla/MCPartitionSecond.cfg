CONSTANTS
    T = 3
    N = 6
    NumBuckets = 8
    Jobs <- SecondLevelJobs
    BaseCase = 2
    Stale = {0}
    Trivial = FALSE
SPECIFICATION Spec
INVARIANTS
    Placement
