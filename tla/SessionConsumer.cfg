\* Two invocations, two processes, one failure, segments of up to two decisions.
SPECIFICATION Spec
CONSTANTS
    Inputs = {i1, i2}
    MaxRounds = 1
    MaxFails = 1
    MaxProcesses = 2
CHECK_DEADLOCK FALSE
INVARIANTS
    TypeOK
    OneAnswer
PROPERTIES
    NoRestInFlight
    InvokeReturns
