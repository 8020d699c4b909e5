\* One gate and one batch over two pairs, two requests, one failed write, two restarts.
SPECIFICATION BookSpec
CONSTANTS
    Gates = {g1}
    Batches = {b1}
    None = None
    MaxRequests = 2
    MaxFaults = 1
    MaxStops = 2
CHECK_DEADLOCK FALSE
INVARIANTS
    BookTypeOK
    NothingRunsUnapproved
    OneQuestionPerPair
PROPERTIES
    RuledBatchEnds
