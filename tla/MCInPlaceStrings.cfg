SPECIFICATION Spec
CONSTANTS
    BlockSize = 4
    Inputs <- MCStrings
INVARIANT
    Partitioned
