\* Detection, official snapshots, reconciliation and flushes in every order; handlers
\* fail and the process crashes between any two transactions.  One ghost more than
\* list_ghosts returns; later rules refuse the one that scores more.
SPECIFICATION RadarSpec
CONSTANTS
    s1 = s1
    s2 = s2
    c1 = c1
    o1 = o1
    o2 = o2
    Null = Null
    Signal = {s1, s2}
    Official = {o1, o2}
    Company = {c1}
    KeyOf <- MCKeyOf
    Legacy = {}
    Offered <- EngineRequest
    Task = {t1}
    MaxAttempts = 1
    PendingLimit = 2
    MaxLost = 1
    MaxTries = 0
    Scoped <- MCScoped
    Unscoped <- MCUnscoped
    Strong = {s1, s2}
    Rank <- MCSecondHigher
    GhostLimit = 1
    Doubtful = {s2}
    Batches <- MCBatches
    Crawls <- MCCrawls
INVARIANTS
    RadarTypeOK
    CorroborationsThreaded
    GhostsAnnounced
    ConfirmationsAnnounced
    ConfirmedFollowsEarly
    ReconcileComplete
    WithheldAnswered
PROPERTIES
    StatusHistory
    RadarUsesOutbox
VIEW MCView
CHECK_DEADLOCK FALSE
