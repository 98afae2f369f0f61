\* A PATCH of the enabled flag and one of the state leave the router in another
\* state than the stored one.
SPECIFICATION Spec
CONSTANTS
    None = None
    Device = {d1}
    Global = global
    Cap = {c1}
    State = {"on", "off"}
    Fact = {fact}
    fact = fact
    second = second
    Scenario <- Internal
    Requests = {r1, r2}
    Sync = sync
INVARIANTS RouterFollowsState
