\* Two runs of Speedrun overlap; the directory changes once.
SPECIFICATION DirSpec
CONSTANTS
    r1 = r1
    r2 = r2
    nobatch = nobatch
    Company = {1, 2, 3}
    Batch = {1, 2}
    BatchOf <- MCBatchOf
    NoBatch = nobatch
    Run = {r1, r2}
    Tolerance = 1
    RecentSize = 1
    ActiveCount = 1
    ApiLimit = 4
    Shown = {1, 3}
    Adapters = {"speedrun"}
    MaxChanges = 1
    None = None
SYMMETRY Symmetry
PROPERTIES
    SliceRetiresNothing
CHECK_DEADLOCK FALSE
