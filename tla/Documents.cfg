\* Drafts: two requests interleave and fail; every second save is persisted.
\* Lock: two requests of three users interleave, fail and lose their answers.
\* Versions: two operations on an object interleave and stop anywhere.
SPECIFICATION DocumentsSpec
CONSTANTS
    Requests = {r1, r2}
    Interval = 2
    MaxSaves = 4
    MaxClears = 2
    Users = {u1, u2, u3}
    LockRequests = {q1, q2}
    NoUser = NoUser
    LockTTL = 2
    Tasks = {t1, t2}
    MaxOldVersions = 1
    PageSize = 2
    MaxVersions = 4
INVARIANTS
    ClearedDraftsGo
    FallbackLags
    GrantsAreBacked
    HistoryKept
    HistoryBounded
    PurgeIsComplete
PROPERTIES
    AbandonedLockLapses
    ImplementsContestedLock
    CurrentSurvives
CHECK_DEADLOCK FALSE
