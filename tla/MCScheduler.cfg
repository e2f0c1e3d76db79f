CONSTANTS
    Thread = {t1, t2, t3}
    NumThreads = 3
    Job <- MCJob
    Root <- MCRoot
    Subtasks <- MCSubtasks
    NoJob = NoJob
    MaxSorts = 2
SPECIFICATION FairSpec
INVARIANTS
    TypeOK
    IdleCount
    NoTaskForgotten
    NoWorkAtExit
    OneOwner
PROPERTIES
    ImplementsPool
    EverySortEnds
