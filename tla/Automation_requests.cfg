\* A request, the sync loop, template edits, router changes and devices that
\* come and go interleave, then the outside keeps quiet; or one client at a
\* time sends requests and nobody else changes anything.
SPECIFICATION FairSpec
CONSTANTS
    None = None
    Device = {d1}
    Global = global
    Cap = {c1}
    State = {"on", "off", "high"}
    Fact = {fact, second}
    fact = fact
    second = second
    Scenario <- Both
    Requests = {r1}
    Sync = sync
INVARIANTS StoredStateDeclared RouterFollowsState
PROPERTIES SyncAligns
