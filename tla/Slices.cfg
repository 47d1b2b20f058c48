SPECIFICATION SliceSpec
CONSTANTS
    Files = {}
    Options = {}
    Overread = 0
    U64 = 64
    MaxErrors = 4
    Mcaps <- MCMcaps
    Calls <- MCCalls
INVARIANTS StreamsExact ByIndexExact
PROPERTY SliceFinishes
CHECK_DEADLOCK FALSE
