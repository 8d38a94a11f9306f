\* Two tasks flush while alerts of every kind are queued; one accepted message may
\* go unanswered, one row may be kept from dying by a crash, and every accepted alert
\* is finished in the end.
SPECIFICATION OutboxLiveSpec
CONSTANTS
    s1 = s1
    s2 = s2
    s3 = s3
    c1 = c1
    c2 = c2
    o1 = o1
    Offered <- MCOffered
    Null = Null
    Signal = {s1, s2, s3}
    Official = {o1}
    Company = {c1, c2}
    KeyOf <- MCKeyOf
    Legacy = {s3}
    Task = {t1, t2}
    MaxAttempts = 2
    PendingLimit = 2
    MaxLost = 1
    MaxTries = 2
INVARIANTS
    OutboxTypeOK
    NoDoubleDelivery
    SentMeansDelivered
    InOrder
    OnlyOldestCharged
    ThreadsMatchCompany
PROPERTIES
    OutboxDelivers
    EveryAlertSettles
CHECK_DEADLOCK FALSE
