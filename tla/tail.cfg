CONSTANTS
    f1 = f1
    Files <- MCFiles
    InitialOld <- MCOld
    MaxLines = 2
    MaxWatchers = 2
    MaxChain = 1
    MaxFaults = 1
    MaxRebuilds = 1
SPECIFICATION FairSpec
INVARIANTS NoSilentSkip OncePerLine RebuildIsComplete
PROPERTIES NoLineOvertakes WrittenLinesArrive OldFilesAreIndexed
CHECK_DEADLOCK FALSE
