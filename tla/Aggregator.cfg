\* Every snapshot with at most two leases, two radios, one ARP entry and one
\* bridge host over two devices.  Aggregate ends, so the run deadlocks.
SPECIFICATION Spec
CONSTANTS
    None = None
    a = a
    b = b
    ip1 = ip1
    ip2 = ip2
    MAC = {a, b}
    IP = {ip1, ip2}
    Now = 9
    WiFiIdle = 1
    DHCPRecent = 2
    Snapshots <- SnapshotsMC
INVARIANTS HandsOverObservations LastSeenByPriority OnlineByEvidence
CHECK_DEADLOCK FALSE
