SPECIFICATION Spec
CONSTANTS
    Files <- MCFiles
    Jobs <- MCJobs
    MaxCount = 3
    Page = 4
    MaxRuns = 2
INVARIANTS AlwaysRecoverable HintRestores AmendedExact
PROPERTY HalfAmendedRefused
CHECK_DEADLOCK FALSE
