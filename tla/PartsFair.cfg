\* Three goroutines on two teams at the gates; two settings and clients; channels of one
\* event, which three inputs overfill: the second of them is a click.
CONSTANTS
    Proc = {p1, p2, p3}
    Team = {t1, t2}
    Gate = {g1, g2, g3}
    NoGate = NoGate
    NoTeam = NoTeam
    Nobody = Nobody
    Listening = {l1, l2}
    Presence = {r1, r2}
    MaxChanges = 2
    Client = {c1, c2}
    Device = {d1}
    MaxOutside = 4
    EventCap = 1
    MaxInputs = 3
    Clicks = {2}
SPECIFICATION PartsFairSpec
INVARIANTS
    BurstsArrive
PROPERTIES
    ImplementsTeamLock
    WaiterGetsIn
    SessionFollows
    HelperSettles
    CaptureEnds
CHECK_DEADLOCK FALSE
