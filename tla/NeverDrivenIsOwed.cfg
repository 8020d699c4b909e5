\* Two invocations and one close.
SPECIFICATION Spec
CONSTANTS
    Inputs = {i1, i2}
    MaxRounds = 1
    MaxFails = 0
    MaxProcesses = 1
CHECK_DEADLOCK FALSE
INVARIANTS
    NeverDrivenIsOwed
