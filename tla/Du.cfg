SPECIFICATION Spec
CONSTANTS
    Files <- MCFiles
    Parallelism = 3
INVARIANTS WorkersConsistent ApproximateClose
PROPERTY DuEnds
CHECK_DEADLOCK FALSE
