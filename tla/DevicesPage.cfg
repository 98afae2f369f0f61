SPECIFICATION FairSpec
CONSTANTS
    None = None
    Mac = {1, 2, 3}
    Term = {"x", "lan"}
    Vendor = {"acme"}
    Source = {"dhcp", "arp"}
    Subnet = {"lan"}
    Link = {"ether1", "ether2"}
    PageSize = 1
    Searches <- Typed
    World <- Worlds
    MaxViews = 2
    Scenario <- Scenarios
INVARIANTS PageInRange SearchFollowsInput ViewsPersist
PROPERTIES PageKept ShownConverges
CHECK_DEADLOCK FALSE
