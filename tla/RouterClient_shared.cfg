\* A caller, a listener and Close share one connection; two faults.
SPECIFICATION FairSpec
CONSTANTS
    None = None
    Callers = {p1}
    Listeners = {l1}
    RunAttempts = 2
    DialAttempts = 2
    Closes = TRUE
    ConnId = {c1, c2, c3, c4}
    MaxFaults = 2
INVARIANTS NoConnectionLost
PROPERTIES RunsReturn
