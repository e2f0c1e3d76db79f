CONSTANTS
    T = 4
    Size = 8
    BaseCase = 2
    SingleLevel = 3
    MaxBuckets = 2
SPECIFICATION FairSpec
INVARIANTS
    GroupComplete
    GroupDataStable
    AllPoolsDone
    QueuedDisjoint
PROPERTIES
    QueueOfHeldThread
    AllReachSmallTasks
