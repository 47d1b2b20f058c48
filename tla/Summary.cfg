SPECIFICATION SummarySpec
CONSTANTS
    Files <- MCFiles
    Options = {}
    Overread = 1
    Sizes = {TRUE, FALSE}
    Limits = {2, 1000}
    MaxDetours = 2
INVARIANTS StreamConsistent SummaryAnswers
PROPERTY SummaryFinishes
CHECK_DEADLOCK FALSE
