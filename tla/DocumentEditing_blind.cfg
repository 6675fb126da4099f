\* Two saves of the same content at the same time.
SPECIFICATION EditSpec
CONSTANTS
    Users = {u1}
    NoUser = NoUser
    LockTTL = 1
    Requests = {r1, r2}
    Texts = {x1, x2}
    NoHash = NoHash
PROPERTY
    NoBlindOverwrite
