\* Two posts, two sets of targets, two runs that may overlap, and one fault; a page
\* holds one post.
SPECIFICATION CollLiveSpec
CONSTANTS
    r1 = r1
    r2 = r2
    F26 = F26
    claim = claim
    backing = backing
    cohort = cohort
    nocode = nocode
    Post = {1, 2}
    Words <- MCWords
    Code <- MCCode
    NoCode = nocode
    Targets <- MCTargets
    YcClaims <- MCYcClaims
    YcBacking <- MCYcBacking
    SpeedrunClaims <- MCSpeedrunClaims
    Run = {r1, r2}
    PageSize = 1
    HasIndexKey = TRUE
    Adapters = {"x", "linkedin"}
    MaxFaults = 1
INVARIANTS
    CollTypeOK
    EveryPostAccounted
PROPERTIES
    ClaimsFound
CHECK_DEADLOCK FALSE
