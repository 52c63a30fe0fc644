------------------------------- MODULE TeamLock -------------------------------
(***************************************************************************)
(* What a lifecycle gate promises: for each team at most one join or       *)
(* deletion at a time, and no relation between different teams.            *)
(***************************************************************************)
CONSTANTS Proc, Team, Nobody

VARIABLE owner      \* who runs inside each team's gate

Init == owner = [t \in Team |-> Nobody]

Take(p, t) ==
    /\ owner[t] = Nobody
    /\ owner' = [owner EXCEPT ![t] = p]

Give(p, t) ==
    /\ owner[t] = p
    /\ owner' = [owner EXCEPT ![t] = Nobody]

Next == \E p \in Proc, t \in Team : Take(p, t) \/ Give(p, t)

Spec == Init /\ [][Next]_owner
=============================================================================
