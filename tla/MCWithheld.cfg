\* What becomes of a new listing that is left to the confirmation of a ghost.
SPECIFICATION RadarSpec
CONSTANTS
    s1 = s1
    s2 = s2
    c1 = c1
    o1 = o1
    o2 = o2
    Null = Null
    Signal = {s1, s2}
    Official = {o1, o2}
    Company = {c1}
    KeyOf <- MCKeyOf
    Legacy = {}
    Offered <- EngineRequest
    Task = {t1}
    MaxAttempts = 1
    PendingLimit = 2
    MaxLost = 0
    MaxTries = 0
    Scoped <- MCScoped
    Unscoped <- MCUnscoped
    Strong = {s1, s2}
    Rank <- MCSameRank
    GhostLimit = 2
    Doubtful = {}
    Batches <- MCPosts
    Crawls <- MCCrawls
INVARIANT
    WithheldConfirmed
VIEW MCView
CHECK_DEADLOCK FALSE
