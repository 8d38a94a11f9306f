\* A directory, a social source and the reconciler, with the intervals of config.py;
\* the runs of the reconciler may hang.
SPECIFICATION SchedLiveSpec
CONSTANTS
    yc = yc
    x = x
    ghosts = ghosts
    Official = {yc}
    Social = {x}
    Reconciler = ghosts
    Interval <- MCInterval
    WaitingRetry = 60
    FirstRetry = 300
    MaxBackoff = 3600
    CountedUpTo = 2
    Hanging = {ghosts}
    None = None
INVARIANTS
    SchedTypeOK
    HealthTruthful
PROPERTIES
    BacksOff
    KeepsRunning
    HuntsOnceTold
CHECK_DEADLOCK FALSE
