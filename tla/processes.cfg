CONSTANTS
    c = c
    d = d
    s1 = s1
    NoPid = NoPid
    NoSession = NoSession
    Pids <- MCPids
    Sessions <- MCSessions
    Lives <- MCLives
    Starters <- MCStarters
    Claudes <- MCClaudes
    Backgrounds <- MCBackgrounds
    Brief <- MCBrief
    Binders <- MCBinders
    Near <- MCNear
SPECIFICATION FairSpec
INVARIANT NoGhostRows
PROPERTIES LiveStaysLive DeadSessionsDropOut OrphansAreFound
CHECK_DEADLOCK FALSE
