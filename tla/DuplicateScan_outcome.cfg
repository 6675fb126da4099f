\* Two scans of one owner and their cancels; twice, a request or a scan fails or
\* the process crashes.
SPECIFICATION MCScanSpec
CONSTANTS
    Scans = {s1, s2}
    NoScan = NoScan
    Concurrency = 1
    MaxStalls = 1
    MaxFaults = 2
INVARIANTS
    OutcomeAnnounced
PROPERTIES
    EveryScanSettles
    LockIsReleased
CHECK_DEADLOCK FALSE
