\* Two requests interleave.
SPECIFICATION FolderSpec
CONSTANTS
    Paths <- MCPaths
    Items = {i1}
    Requests = {r1, r2}
    Gone = Gone
    NoCache = NoCache
    NoPath = NoPath
    MaxOps = 3
    MaxRaced = 2
SYMMETRY FolderSymmetry
INVARIANTS
    MarksFollowContent
    CacheIsFresh
    UnlockOpens
CHECK_DEADLOCK FALSE
