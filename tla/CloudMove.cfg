\* Two requests interleave and fail.
SPECIFICATION MoveSpec
CONSTANTS
    Dirs = {d1, d2, d3}
    Names = {n1, n2}
    Requests = {r1, r2}
    NoKey = NoKey
    MaxOldVersions = 1
    MaxFiles = 2
    MaxOps = 2
SYMMETRY MoveSymmetry
INVARIANTS
    OneCopy
PROPERTY
    NothingLost
CHECK_DEADLOCK FALSE
