\* One task through re-entries, rollbacks, a stop and the sweep.
SPECIFICATION Spec
CONSTANTS
    Home = home
    Targets = {home, other}
    Inputs = {in1}
    Nil = Nil
    Tasks = {t1}
    Keys = {k1}
    Limit = 1
    MaxRound = 3
    MaxRevision = 6
CHECK_DEADLOCK FALSE
INVARIANTS
    TypeOK
    ToolOwedWhileInFlight
    NoNoticeLost
    FactsFormChain
PROPERTIES
    TerminalStands
