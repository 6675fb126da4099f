\* Two users ask for the lock at the same time.
SPECIFICATION LockSpec
CONSTANTS
    Users = {u1, u2}
    LockRequests = {q1, q2}
    NoUser = NoUser
    LockTTL = 2
INVARIANT
    MutualExclusion
