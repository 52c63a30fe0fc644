\* Two connections, one sender besides the batches, one event.
CONSTANTS
    Conn = {c1, c2}
    NoConn = NoConn
    Sender = {s1}
    Nobody = Nobody
    LocalCap = 1
    MaxEvents = 1
SPECIFICATION HalfOpenSpec
CHECK_DEADLOCK FALSE
PROPERTY
    HalfOpenIsDropped
