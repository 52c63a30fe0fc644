------------------------------ MODULE Membership ------------------------------
(***************************************************************************)
(* What the relay promises about rooms: every connection is in at most one *)
(* room, a room never holds more than MaxPeers connections, and a step     *)
(* moves one connection in, moves one out, or empties one room.  RoomHub   *)
(* implements it (server/hub.go join, leave, closeRoom).                   *)
(***************************************************************************)
EXTENDS Naturals, FiniteSets

CONSTANTS Conn, Team, NoTeam, MaxPeers

VARIABLE room       \* the room of each connection

Members(t) == {c \in Conn : room[c] = t}

Init == room = [c \in Conn |-> NoTeam]

\* Enter a room with a free seat; the seat in another room is given up at once.
Enter(c, t) ==
    /\ room[c] # t
    /\ Cardinality(Members(t)) < MaxPeers
    /\ room' = [room EXCEPT ![c] = t]

Exit(c) ==
    /\ room[c] # NoTeam
    /\ room' = [room EXCEPT ![c] = NoTeam]

\* A deleted or expired team loses all its connections in one step.
Empty(t) ==
    /\ Members(t) # {}
    /\ room' = [c \in Conn |-> IF room[c] = t THEN NoTeam ELSE room[c]]

Next ==
    \/ \E c \in Conn : Exit(c) \/ \E t \in Team : Enter(c, t)
    \/ \E t \in Team : Empty(t)

Spec == Init /\ [][Next]_room
=============================================================================
