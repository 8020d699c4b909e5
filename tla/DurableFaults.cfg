\* Storage faults, crashes and restarts over one task.
SPECIFICATION Spec
CONSTANTS
    Home = home
    Targets = {home}
    Inputs = {}
    Nil = Nil
    Tasks = {t1}
    Faults = {"failed", "uncertain"}
    MaxRound = 2
    MaxRevision = 4
    MaxCrashes = 1
CHECK_DEADLOCK FALSE
INVARIANTS
    TypeOK
    NoticeOwedOrAnswered

PROPERTIES
    ConsumedNotReplayed
