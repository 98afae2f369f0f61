SPECIFICATION FairSpec
CONSTANTS
    None = None
    n1 = n1
    n2 = n2
    wifi = wifi
    Name = {n1, n2}
    Icon = {wifi}
    Form <- Forms
    MaxOps = 2
    Scenario <- Scenarios
INVARIANTS SavesShown NoPhantomDevice TogglesShown
PROPERTIES RefusalsExplained RequestsEnd ShownConverges
