SPECIFICATION Spec
CONSTANTS
    Inputs <- MCInputs
    Commands <- MCDoctor
    MaxTime = 9
    MaxId = 6
    OverflowChecks = FALSE
PROPERTIES
    DoctorFinishes
CHECK_DEADLOCK FALSE
