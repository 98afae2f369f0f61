\* Two callers and a single broken connection.
SPECIFICATION Spec
CONSTANTS
    None = None
    Callers = {p1, p2}
    Listeners = {}
    RunAttempts = 4
    DialAttempts = 2
    Closes = FALSE
    ConnId = {c1, c2, c3, c4}
    MaxFaults = 1
INVARIANTS FaultsMasked

