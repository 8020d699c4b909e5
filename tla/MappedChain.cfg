\* A past turn, one input, one notice, two rounds of calls, one stop of the process.
SPECIFICATION ChainSpec
CONSTANTS
    Inputs = {i0, i1}
    Past = {i0}
    Notices = {n1}
    KeepRecent = 1
    Threshold = 3
    MaxCalls = 2
    MaxCrashes = 1
    NoFact = NoFact
CHECK_DEADLOCK FALSE
INVARIANTS
    NoTurnLost
PROPERTIES
    InputIsRead
    FoldSurvives
