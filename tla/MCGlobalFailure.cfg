\* Whether a failure that is not the message's own can retire an alert.
SPECIFICATION OutboxSpec
CONSTANTS
    s1 = s1
    s2 = s2
    s3 = s3
    c1 = c1
    c2 = c2
    o1 = o1
    Offered <- MCOffered
    Null = Null
    Signal = {s1, s2, s3}
    Official = {o1}
    Company = {c1, c2}
    KeyOf <- MCKeyOf
    Legacy = {s3}
    Task = {t1, t2}
    MaxAttempts = 3
    PendingLimit = 2
    MaxLost = 0
    MaxTries = 3
SYMMETRY TaskSymmetry
INVARIANT
    GlobalFailureNeverKills
CHECK_DEADLOCK FALSE
