\* One address with a budget of two in a window of four ticks; two goroutines, processes
\* or deletions in every other part.
CONSTANTS
    Key = {k1}
    Window = 4
    MaxRequests = 2
    CleanupEvery = 2
    Lag = 1
    MaxTime = 9
    Id = {i1, i2, i3}
    Code = {c1, c2}
    Deletion = {d1, d2}
    NoId = NoId
    Process = {q1, q2}
    MaxEdits = 3
    Setter = {g1, g2}
    MaxViews = 2
    Sender = {s1, s2}
    MaxNames = 4
    MaxFingers = 5
    Level <- Levels
    MaxCommands = 2
    Team = {t1}
    NoTeam = NoTeam
    MaxPids = 3
    Actor = {a1}
SPECIFICATION PartsSpec
INVARIANTS
    TwoBudgetsAtMost
    RefusedOnlyOverBudget
    ReadyIsMigrated
    PersistedUnlessOverlapping
    CommandsInOrder
    SetIsKept
    SetupIsComplete
    LockedForACommand
    TransitionsWait
PROPERTIES
    StoreImplementsTeams
    OnlyItsTeamEnds
    
    TapsAreTrue
CHECK_DEADLOCK FALSE
