------------------------------- MODULE TeamGate -------------------------------
(***************************************************************************)
(* RoomHub.lockTeam (server/hub.go): the reference-counted gate of a team. *)
(*                                                                         *)
(* A gate is an object with a mutex and a count of the goroutines that     *)
(* hold it or wait for it; the map teamGates holds the gate of a team only *)
(* while that count is positive, so that gates of teams nobody joins or    *)
(* deletes are freed.  What can go wrong is a gate dropped from the map    *)
(* while somebody still uses it: a later caller would make a second gate,  *)
(* and two goroutines would be inside.  RoomHub uses the gate through the  *)
(* abstraction TeamLock, which this module implements.                     *)
(***************************************************************************)
EXTENDS Naturals, FiniteSets

CONSTANTS
    Proc,       \* goroutines in join or DeleteTeam
    Team,       \* team codes
    Gate,       \* teamGate objects: one per goroutine suffices for a fresh one
    NoGate,     \* no entry in the map
    NoTeam,     \* a goroutine with no gate
    Nobody      \* an unlocked mutex

ASSUME GateAssumption ==
    NoGate \notin Gate /\ NoTeam \notin Team /\ Nobody \notin Proc

VARIABLES
    teamGates,  \* RoomHub.teamGates
    refs,       \* teamGate.refs
    mutex,      \* teamGate.mu: who has locked it
    pc,         \* where each goroutine stands in lockTeam and its unlock function
    team,       \* its teamCode
    gate        \* its gate

vars == <<teamGates, refs, mutex, pc, team, gate>>

TypeOK ==
    /\ teamGates \in [Team -> Gate \cup {NoGate}]
    /\ refs \in [Gate -> Nat]
    /\ mutex \in [Gate -> Proc \cup {Nobody}]
    /\ pc \in [Proc -> {"idle", "locking", "inside", "unlocked"}]
    /\ team \in [Proc -> Team \cup {NoTeam}]
    /\ gate \in [Proc -> Gate \cup {NoGate}]

Init ==
    /\ teamGates = [t \in Team |-> NoGate]
    /\ refs = [g \in Gate |-> 0]
    /\ mutex = [g \in Gate |-> Nobody]
    /\ pc = [p \in Proc |-> "idle"]
    /\ team = [p \in Proc |-> NoTeam]
    /\ gate = [p \in Proc |-> NoGate]

\* A new teamGate is an object no goroutine and no map entry refers to.
Unused(g) == (\A p \in Proc : gate[p] # g) /\ (\A t \in Team : teamGates[t] # g)

\* The section under gateMu: find or make the team's gate and count ourselves.
Acquire(p, t) ==
    /\ pc[p] = "idle"
    /\ \E g \in Gate :
         /\ IF teamGates[t] = NoGate
            THEN /\ Unused(g)
                 /\ refs' = [refs EXCEPT ![g] = 1]
            ELSE /\ g = teamGates[t]
                 /\ refs' = [refs EXCEPT ![g] = @ + 1]
         /\ teamGates' = [teamGates EXCEPT ![t] = g]
         /\ gate' = [gate EXCEPT ![p] = g]
    /\ team' = [team EXCEPT ![p] = t]
    /\ pc' = [pc EXCEPT ![p] = "locking"]
    /\ UNCHANGED mutex

\* gate.mu.Lock(): lockTeam returns.
Lock(p) ==
    /\ pc[p] = "locking"
    /\ mutex[gate[p]] = Nobody
    /\ mutex' = [mutex EXCEPT ![gate[p]] = p]
    /\ pc' = [pc EXCEPT ![p] = "inside"]
    /\ UNCHANGED <<teamGates, refs, team, gate>>

\* Mutant: the mutex stays locked.
UnlockForgets(p) ==
    /\ pc[p] = "inside"
    /\ pc' = [pc EXCEPT ![p] = "unlocked"]
    /\ UNCHANGED <<teamGates, refs, mutex, team, gate>>

\* gate.mu.Unlock(), first half of the returned function.
Unlock(p) ==
    /\ pc[p] = "inside"
    /\ mutex' = [mutex EXCEPT ![gate[p]] = Nobody]
    /\ pc' = [pc EXCEPT ![p] = "unlocked"]
    /\ UNCHANGED <<teamGates, refs, team, gate>>

\* Mutant: the gate is dropped from the map whoever still waits for it.
ReleaseAlways(p) ==
    /\ pc[p] = "unlocked"
    /\ refs' = [refs EXCEPT ![gate[p]] = @ - 1]
    /\ teamGates' = [teamGates EXCEPT ![team[p]] = NoGate]
    /\ pc' = [pc EXCEPT ![p] = "idle"]
    /\ team' = [team EXCEPT ![p] = NoTeam]
    /\ gate' = [gate EXCEPT ![p] = NoGate]
    /\ UNCHANGED mutex

\* The second section under gateMu: the last reference drops the gate.
Release(p) ==
    LET g == gate[p]
        t == team[p]
    IN  /\ pc[p] = "unlocked"
        /\ refs' = [refs EXCEPT ![g] = @ - 1]
        /\ teamGates' = IF refs[g] = 1 /\ teamGates[t] = g
                        THEN [teamGates EXCEPT ![t] = NoGate]
                        ELSE teamGates
        /\ pc' = [pc EXCEPT ![p] = "idle"]
        /\ team' = [team EXCEPT ![p] = NoTeam]
        /\ gate' = [gate EXCEPT ![p] = NoGate]
        /\ UNCHANGED mutex

Next == \E p \in Proc : (\E t \in Team : Acquire(p, t)) \/ Lock(p) \/ Unlock(p) \/ Release(p)

Spec == Init /\ [][Next]_vars

\* Go hands a contended mutex to a waiter (no starvation); joins and deletions
\* end, because their store calls do.  Nobody has to call lockTeam.
Fairness ==
    \A p \in Proc : SF_vars(Lock(p)) /\ WF_vars(Unlock(p)) /\ WF_vars(Release(p))

FairSpec == Spec /\ Fairness

-----------------------------------------------------------------------------
\* Two goroutines inside the gate of one team are the same goroutine (lockTeam;
\* "join and delete operations for the same team are serialized").
MutualExclusion ==
    \A p, q \in Proc :
        pc[p] = "inside" /\ pc[q] = "inside" /\ team[p] = team[q] => p = q

\* The map holds a gate for a team exactly while some goroutine uses it: gates do
\* not leak, and a gate in use is the one every later caller finds.
GatesAreInUse ==
    \A t \in Team : teamGates[t] # NoGate <=> \E p \in Proc : team[p] = t

\* The gates implement one lock per team, over all gate objects ever made for it.
Inside(t) == {p \in Proc : pc[p] = "inside" /\ team[p] = t}

TheOne(S) == IF S = {} THEN Nobody ELSE CHOOSE p \in S : TRUE

Owner == [t \in Team |-> TheOne(Inside(t))]

PerTeam == INSTANCE TeamLock WITH owner <- Owner

ImplementsTeamLock == PerTeam!Spec

\* Whoever asks for a gate gets in, whatever joins and deletions come and go.
WaiterGetsIn == \A p \in Proc : pc[p] = "locking" ~> pc[p] = "inside"
=============================================================================
