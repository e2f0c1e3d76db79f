SPECIFICATION Spec
CONSTANTS
    BlockSize = 4
    Inputs <- MCInputs
INVARIANTS
    TypeOK
    FullBlocksFirst
    BlocksExclusive
    OverflowForeseen
    Partitioned
PROPERTY
    StepEnds
