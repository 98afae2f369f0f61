\* One fault between the two deletes orphans the new-device cache row.
SPECIFICATION Spec
CONSTANTS
    None = None
    MAC = {m1}
    KnownVendor = {}
    Names = {}
    Seen <- SeenPair
    OfflineHard = 1
    MaxTime = 2
    QuietAfter = 2
    MaxFaults = 1
INVARIANTS StaleCacheDeleted
