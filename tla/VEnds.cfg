SPECIFICATION Spec
CONSTANTS
    Files <- MCFiles
    Options <- MCOptions
    Overread = 0
INVARIANT EndsBetweenRecords
CHECK_DEADLOCK FALSE
