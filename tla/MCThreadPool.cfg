CONSTANTS
    N = 4
    MaxJobs = 3
SPECIFICATION FairSpec
INVARIANTS
    JobsComplete
    TeamMatches
PROPERTIES
    WritesAlone
    PoolEnds
