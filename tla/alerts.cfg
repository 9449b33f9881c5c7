CONSTANTS
    p = p
    Panels <- MCPanels
    PrefChoices <- MCPrefs
    MaxWaits = 2
    MaxStops = 1
    MaxRestarts = 1
SPECIFICATION FairSpec
INVARIANT OneBannerPerWait
PROPERTY ArmedWaitsAreShown
CHECK_DEADLOCK FALSE
