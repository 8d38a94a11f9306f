\* Three requests at a time, two of them for one run id; scans overlap, answers and
\* saves are lost, requests are cut off.
SPECIFICATION PondLiveSpec
CONSTANTS
    r1 = r1
    r2 = r2
    scan1 = scan1
    scan2 = scan2
    status1 = status1
    RunId = {r1, r2}
    Body = {scan1, scan2, status1}
    IdOf <- MCIdOf
    Scans = {scan1, scan2}
    Handler = {h1, h2, h3}
    Null = Null
    MaxUnsaved = 1
INVARIANTS
    PondTypeOK
    ExecutedOnce
    ConflictsJustified
    OneScan
PROPERTIES
    RunsDecidedOnce
    RequestsEnd
