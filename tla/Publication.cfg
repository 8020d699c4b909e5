\* Three candidates, two documents, two requests and one delegated call.
SPECIFICATION Spec
CONSTANTS
    Turns = {t1, t2}
    Pins = {p1}
    Docs = {d1, d2}
    Nil = Nil
    MaxAttempts = 3
CHECK_DEADLOCK FALSE
INVARIANTS
    NoLostPublication
PROPERTIES
    IsGenerationLife
    DrainsOnItsOwn
