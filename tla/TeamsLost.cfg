\* Two teams; a session and a command.
CONSTANTS
    Team = {t1, t2}
    NoTeam = NoTeam
    MaxPids = 1
    Actor = {a1}
SPECIFICATION HandoffSpec
PROPERTIES TeamsAreKept
CHECK_DEADLOCK FALSE
