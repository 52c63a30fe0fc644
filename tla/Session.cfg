\* The session: two connections, one sender besides the batches, two events.  The sounds:
\* two goroutines that change the tone, a queue of two.
CONSTANTS
    Conn = {c1, c2}
    NoConn = NoConn
    Sender = {s1}
    Nobody = Nobody
    LocalCap = 1
    MaxEvents = 2
    Updater = {u1, u2}
    Tone = {rain}
    Off = Off
    Worker = {w1}
    QueueCap = 2
    MaxPlayers = 3
    MaxSounds = 2
SPECIFICATION PartsFairSpec
INVARIANTS
    JoinIsFirst
    OneConnection
    BatchesInOrder
    AmbientSettles
PROPERTIES
    StoppedSessionEnds
    CloseIsQuiet
CHECK_DEADLOCK FALSE
