\* Two clients, one room.
CONSTANTS
    Heartbeat = heartbeat
    Closer = closer
    NoTeam = NoTeam
    Nobody = Nobody
    Conn = {c1, c2}
    Team = {t1}
    MaxQueue = 3
    MaxBatches = 0
SPECIFICATION Spec
INVARIANT
    PresenceSettles
CHECK_DEADLOCK FALSE
