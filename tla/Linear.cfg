SPECIFICATION Spec
CONSTANTS
    Files <- MCFiles
    Options <- MCOptions
    Overread = 2
INVARIANTS ChunkConsistent YieldsFile RequestsBounded
PROPERTY Finishes
CHECK_DEADLOCK FALSE
