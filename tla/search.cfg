CONSTANTS
    f1 = f1
    r1 = r1
    c1 = c1
    Files = {f1}
    Roots = {r1}
    RootOf <- MCRootOf
    Calls = {c1}
    MaxLines = 2
    MaxInbox = 1
    MaxScans = 2
    MaxSwaps = 1
    MaxFaults = 1
SPECIFICATION FairSpec
INVARIANT DocsMatchTheOffset
PROPERTIES EveryCallSettles IndexCatchesUp
CHECK_DEADLOCK FALSE
