CONSTANTS
    s1 = s1
    c1 = c1
    r1 = r1
    r2 = r2
    r3 = r3
    r4 = r4
    NoPane = NoPane
    Parents <- MCParents
    Subagents <- MCSubagents
    ParentOf <- MCParentOf
    PaneOf <- MCPaneOf
    ProjectOf <- MCProjectOf
    Records <- MCRecords
    PanelOf <- MCPanelOf
    ClassOf <- MCClassOf
    TsOf <- MCTsOf
    OutsideKinds = {"ingest", "stop", "subagent_stop", "session_end", "restart", "process"}
    IdleSeconds = 1
    MiniSeconds = 1
    RemoveAfterSeconds = 1
    GraceSeconds = 2
    Freshness = 1
    SupersedeWithin = 2
    SupersedeMinIdle = 0
    SupersedeMiniDelay = 1
    HydrateWindow = 2
    EventsCap = 2
    Evict = 1
    MaxTime = 6
    QuietFrom = 1
SPECIFICATION FairSpec
PROPERTIES
    ReapLeavesNoOrphan
    QuietPanelsDock
    QuietEndedPanelsGo
