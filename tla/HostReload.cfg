\* Three documents, three reloads, one refused close, a call and two streams.
SPECIFICATION Spec
CONSTANTS
    a = a
    b = b
    v1 = v1
    v2 = v2
    Names = {1}
    Decls = {a, b}
    Calls = {k1}
    Absent = Absent
    MaxRefusals = 1
    Versions = {v1, v2}
    Streams = {s1, s2}
    Unserved = Unserved
    Docs <- Documents
    Boot <- First
    MaxReloads = 3
CHECK_DEADLOCK FALSE
INVARIANTS
    TypeOK
    ConnectionOutlivesItsCalls
    ModelOutlivesItsLeases
    AnswerFollowsDocument
