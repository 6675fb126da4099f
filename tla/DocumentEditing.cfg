\* Two requests write at the same time.
SPECIFICATION EditSpec
CONSTANTS
    Users = {u1, u2}
    NoUser = NoUser
    LockTTL = 2
    Requests = {r1, r2}
    Texts = {x1, x2}
    NoHash = NoHash
SYMMETRY EditSymmetry
PROPERTIES
    StaleBaseNeverWrites
    LockedOutNeverWrites
    RestoreYieldsVersion
