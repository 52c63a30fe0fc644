\* Three processes started by hand, nothing else.
CONSTANTS
    Proc = {f1, f2, f3}
    Scannable = {}
    Cmd = {}
    Nobody = Nobody
    NoLock = NoLock
    MaxAttempts = 5
SPECIFICATION Spec
INVARIANT
    AtMostOneOwner
CHECK_DEADLOCK FALSE
