\* One joining connection and the heartbeat.
CONSTANTS
    Conn = {c1}
    Team = {t1}
    Deleter = {}
    Expirer = expirer
    NoTeam = NoTeam
    Nobody = Nobody
    MaxPeers = 2
SPECIFICATION NoExpirySpec
INVARIANTS
    NoGhostPeer
