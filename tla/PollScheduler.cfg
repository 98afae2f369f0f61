\* Two configurations, three changes of the options file.  After a shutdown
\* the program ends.
SPECIFICATION ScheduleFairSpec
CONSTANTS
    NoConfig = NoConfig
    Config = {c1, c2}
    Blank = Blank
    Missing = Missing
    Unreadable = Unreadable
    EnvConfig = c1
    MaxEdits = 3
INVARIANTS RefreshKept ChangeAnnounced
PROPERTIES RefreshServed OptionsTakeEffect ShutdownStops
CHECK_DEADLOCK FALSE
