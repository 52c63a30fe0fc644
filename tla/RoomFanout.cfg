\* Two clients, one room: every goroutine but without activity, or the clients and two
\* batches each.
CONSTANTS
    Heartbeat = heartbeat
    Closer = closer
    NoTeam = NoTeam
    Nobody = Nobody
    Conn = {c1, c2}
    Team = {t1}
    MaxQueue = 1
    MaxBatches = 2
SPECIFICATION SceneSpec
SYMMETRY Symmetry
PROPERTIES
    OnlySlowPeersAreClosed
    DeletedPeersAreClosed
    ActivityInOrder
CHECK_DEADLOCK FALSE
