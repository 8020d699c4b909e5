\* Crashes and restarts over storage that answers.
SPECIFICATION Spec
CONSTANTS
    Home = home
    Targets = {home, other}
    Inputs = {}
    Nil = Nil
    Tasks = {t1}
    Faults = {}
    MaxRound = 2
    MaxRevision = 6
    MaxCrashes = 2
CHECK_DEADLOCK FALSE
INVARIANTS
    RestartAgrees

