CONSTANTS
    s1 = s1
    s2 = s2
    c1 = c1
    g1 = g1
    r1 = r1
    r2 = r2
    r3 = r3
    r4 = r4
    NoPane = NoPane
    Parents <- MCParents
    Subagents <- MCSubagents
    ParentOf <- MCParentOf
    PaneOf <- MCPaneOf
    ProjectOf <- MCProjectOf
    Records <- MCRecords
    PanelOf <- MCPanelOf
    ClassOf <- MCClassOf
    TsOf <- MCTsOf
    OutsideKinds = {"ingest", "session_start", "session_pid", "restart"}
    IdleSeconds = 1
    MiniSeconds = 1
    RemoveAfterSeconds = 1
    GraceSeconds = 2
    Freshness = 1
    SupersedeWithin = 2
    SupersedeMinIdle = 0
    SupersedeMiniDelay = 1
    HydrateWindow = 0
    EventsCap = 2
    Evict = 1
    MaxTime = 2
    QuietFrom = 1
SPECIFICATION Spec
PROPERTY
    EndedIsFinal
