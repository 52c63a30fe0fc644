\* One connection and two deletions compete for one gate, with the heartbeat and
\* the expiry pass.
CONSTANTS
    Conn = {c1}
    Team = {t1}
    Deleter = {d1, d2}
    Expirer = expirer
    NoTeam = NoTeam
    Nobody = Nobody
    MaxPeers = 2
SPECIFICATION FairSpec
INVARIANTS
    ExpiryFindsNoPeers
    LeaveIsComplete
PROPERTIES
    ClosedHandlerEnds
    DeleteReturns
    SilentConnIsEvicted
