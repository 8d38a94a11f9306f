\* Both adapters over three companies, of which the second is not published yet; two
\* runs of the source may overlap, and the directory changes once.
SPECIFICATION DirSpec
CONSTANTS
    r1 = r1
    r2 = r2
    nobatch = nobatch
    Company = {1, 2, 3}
    Batch = {1, 2}
    BatchOf <- MCBatchOf
    NoBatch = nobatch
    Run = {r1, r2}
    Tolerance = 1
    RecentSize = 1
    ActiveCount = 1
    ApiLimit = 3
    Shown = {1, 3}
    Adapters = {"yc_directory", "speedrun"}
    MaxChanges = 1
    None = None
SYMMETRY Symmetry
VIEW MCView
INVARIANTS
    DirTypeOK
    AdditionsAnnounced
    SnapshotCited
    BaselineFull
PROPERTIES
    RetiredWasGone
CHECK_DEADLOCK FALSE
