CONSTANTS
    T = 3
    N = 6
    NumBuckets = 8
    Jobs <- AllJobs
    BaseCase = 2
    Stale = {1}
    Trivial = TRUE
SPECIFICATION Spec
INVARIANTS
    TypeOK
    BoundariesRight
    SortedAlone
    Placement
