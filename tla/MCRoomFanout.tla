----------------------------- MODULE MCRoomFanout -----------------------------
(* RoomFanout on small instances.                                              *)
EXTENDS RoomFanout, TLC

VARIABLES scene     \* which goroutines there are; the same in all of a behaviour

sceneVars == <<vars, scene>>

Symmetry == Permutations(Conn) \cup Permutations(Team)

SceneInit == scene \in {"relay", "clients"} /\ Init

\* Everything but the batches of activity.
WithoutActivity == scene = "relay" /\ Next /\ UNCHANGED <<batches, scene>>

\* The clients and the relay's handlers and writers.
ClientsNext ==
    /\ scene = "clients" /\ UNCHANGED scene
    /\ \E c \in Conn : ConnNext(c) \/ WriterNext(c) \/ SendNext(c)

SceneSpec == SceneInit /\ [][WithoutActivity \/ ClientsNext]_sceneVars
=============================================================================
