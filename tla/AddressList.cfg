\* Two callers over two clients, two entries, an outsider, two lost commands,
\* lost replies, denials or cancellations.
SPECIFICATION FairSpec
CONSTANTS
    None = None
    Proc = {p1, p2}
    Key = {k1, k2}
    Client = {c1, c2}
    Outsider = TRUE
    Attempts = 2
    MaxId = 1
    MaxFaults = 2
INVARIANTS OkMeansDone NeverRefused
PROPERTIES ImplementsAddressSet CallsReturn
