CONSTANTS
    c = c
    s1 = s1
    s2 = s2
    NoPid = NoPid
    NoSession = NoSession
    Pids <- MCPids
    Sessions <- MCSessions
    Lives <- MCLives
    Starters <- MCStarters
    Claudes <- Ids
    Backgrounds = {}
    Brief = {}
    Binders = {}
    Near <- MCNear
SPECIFICATION FairSpec
PROPERTY PidFollowsTheSession
