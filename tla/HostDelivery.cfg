\* One body or two failure notices, one caller, one failed write and two stops.
SPECIFICATION Spec
CONSTANTS
    Bodies = {b1}
    Failures = {f1, f2}
    Callers = {c1}
    Nil = Nil
    MaxFaults = 1
    MaxStops = 2
CHECK_DEADLOCK FALSE
INVARIANTS
    TypeOK
    AccountTellsTheBody
    CleanDecisionStands
PROPERTIES
    OwedLeaves
