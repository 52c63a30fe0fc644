\* Three connections compete for two seats in each of two teams and migrate
\* between them while one deletion at a time runs.
CONSTANTS
    Conn = {c1, c2, c3}
    Team = {t1, t2}
    Deleter = {d1}
    Expirer = expirer
    NoTeam = NoTeam
    Nobody = Nobody
    MaxPeers = 2
SPECIFICATION JoinDeleteSpec
SYMMETRY Symmetry
INVARIANTS
    MembershipAgrees
    DeletedTeamHasNoRoom
PROPERTIES
    JoinsOnlyLiveTeams
    ImplementsMembership
