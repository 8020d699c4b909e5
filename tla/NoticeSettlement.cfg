\* One notice and one input, two processes, one refused write or turn without a result.
SPECIFICATION Spec
CONSTANTS
    Notices = {n1}
    Inputs = {u1}
    Nil = Nil
    MaxBoots = 2
    MaxUpsets = 1
CHECK_DEADLOCK FALSE
INVARIANTS
    TypeOK
    OneTurnPerProcess
    OneFaceSettles
PROPERTIES
    NoticeSettled
