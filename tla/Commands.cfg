SPECIFICATION Spec
CONSTANTS
    Inputs <- MCInputs
    Commands <- MCCommandLines
    MaxTime = 9
    MaxId = 6
    OverflowChecks = FALSE
INVARIANTS
    RecoverExact
    CopiesExact
    ShownExact
    DoctorExact
    OutputsHealthy

    
CHECK_DEADLOCK FALSE
