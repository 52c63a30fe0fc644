------------------------------ MODULE MCRoomHub ------------------------------
(* RoomHub on small instances.  Some runs leave out a process that has no part *)
(* in their question, to afford a larger instance of the others.               *)
EXTENDS RoomHub, TLC

\* Connections, teams and deletions are interchangeable; only used in the
\* configurations that check no liveness.
Symmetry == Permutations(Conn) \cup Permutations(Team) \cup Permutations(Deleter)

\* Joins, migrations and deletions, with neither heartbeat nor expiry.
JoinDeleteNext ==
    \/ \E c \in Conn : ConnNext(c)
    \/ \E d \in Deleter : DeleteNext(d)

JoinDeleteSpec == Init /\ [][JoinDeleteNext]_vars

\* Without the expiry pass.
NoExpiryNext == JoinDeleteNext \/ HeartbeatNext

NoExpirySpec == Init /\ [][NoExpiryNext]_vars
=============================================================================
