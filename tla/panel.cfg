CONSTANTS
    s1 = s1
    r1 = r1
    r2 = r2
    r3 = r3
    r4 = r4
    NoPane = NoPane
    Parents <- MCParents
    Subagents <- MCSubagents
    ParentOf <- MCParentOf
    PaneOf <- MCPaneOf
    ProjectOf <- MCProjectOf
    Records <- MCRecords
    PanelOf <- MCPanelOf
    ClassOf <- MCClassOf
    TsOf <- MCTsOf
    OutsideKinds = {"ingest", "force", "bin", "remove", "teardown", "stop", "subagent_stop", "session_end", "notification", "session_start", "restart", "process"}
    IdleSeconds = 1
    MiniSeconds = 1
    RemoveAfterSeconds = 1
    GraceSeconds = 2
    Freshness = 1
    SupersedeWithin = 2
    SupersedeMinIdle = 0
    SupersedeMiniDelay = 1
    HydrateWindow = 2
    EventsCap = 2
    Evict = 1
    MaxTime = 4
    QuietFrom = 4
SPECIFICATION Spec
INVARIANTS
    StampsBounded
    DockedMeansUntouched
    NoStaleArming
PROPERTIES
    NoResurrection
    NoiseNeverUndocks
    ActivityNeverRewinds
