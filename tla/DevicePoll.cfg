\* One device, every kind of observation, four clock ticks, the last two
\* on a silent network, and one fault.
SPECIFICATION FairSpec
CONSTANTS
    None = None
    MAC = {m1}
    KnownVendor = {m1}
    Names = {n1}
    Seen <- SeenAll
    OfflineHard = 1
    MaxTime = 4
    QuietAfter = 2
    MaxFaults = 1
INVARIANTS RowsCoherent StatusJustified PollEffect
PROPERTIES SinceMarksStreak SettledRowsSurvive QuietNetworkSettles
