\* One task, two callers that admit it and re-enter it, three rounds, one refused commit
\* and one stop of the process.
CONSTANTS
    Tasks = {t1}
    Callers = {c1, c2}
    Bodies = {b1}
    Nil = Nil
    MaxRounds = 3
    MaxFaults = 1
    MaxStops = 1

SPECIFICATION Spec
INVARIANTS
    TypeOK
    OpenIsBooked
    OneRoundServes
    InFlightIsServed
PROPERTIES
    CloseLands
