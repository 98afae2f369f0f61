SPECIFICATION FairSpec
CONSTANTS
    None = None
    Id = {"vpn.a", "vpn.b", "vpn.copy"}
    Text = {"t", "u"}
    Typed = {"", " on", "off", "x"}
    Padded <- Blanks
    Schema <- Schemas
    FirstSource = "membership"
    ParamText = {"", "x", "{{device.ip}}"}
    DeviceRefs <- Refs
    MaxOptions = 4
    MaxActions = 2
    Copies = {"vpn.copy"}
    Searched = "u"
    Foreign <- Templates
    MaxOps = 2
    Scenario <- Scenarios
INVARIANTS DraftConsistent OwnTemplate SettledIsTrue
PROPERTIES EditsKept EditsAreLocal RequestsEnd
CHECK_DEADLOCK FALSE
