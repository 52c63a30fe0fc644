\* Two processes that are found by a scan, one that is not, and one command.
CONSTANTS
    Proc = {b1, b2, f1}
    Scannable = {b1, b2}
    Cmd = {c1}
    Nobody = Nobody
    NoLock = NoLock
    MaxAttempts = 2
SPECIFICATION FairSpec
INVARIANTS
    ScannableExclude
    FreshStartsExclude
PROPERTIES
    NobodyLockedOut
CHECK_DEADLOCK FALSE
