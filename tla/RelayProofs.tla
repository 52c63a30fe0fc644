------------------------------ MODULE RelayProofs ------------------------------
(* Theorems about the relay beside its rooms: the gates of the teams, the team       *)
(* store and the rate limiter; for any sets of goroutines, gates, teams, codes,      *)
(* deletions and clients.                                                            *)
EXTENDS TeamGate, TeamStore, RateLimiter, FiniteSetTheorems, TLAPS

-----------------------------------------------------------------------------
(* TeamGate: the reference-counted gates exclude each other per team, are dropped  *)
(* exactly when unused, and implement TeamLock.                                    *)

Users(g) == {p \in Proc : gate[p] = g}

\* A goroutine under way has a team and that team's gate; gates are not shared
\* between teams.
MapInv ==
    /\ \A p \in Proc : IF pc[p] = "idle"
                       THEN gate[p] = NoGate /\ team[p] = NoTeam
                       ELSE /\ gate[p] \in Gate /\ team[p] \in Team
                            /\ teamGates[team[p]] = gate[p]
    /\ \A t, u \in Team : teamGates[t] \in Gate /\ teamGates[t] = teamGates[u] => t = u
    /\ \A t \in Team : teamGates[t] \in Gate => Users(teamGates[t]) # {}

\* refs counts the users.
CountInv ==
    \A g \in Gate : IsFiniteSet(Users(g)) /\ refs[g] = Cardinality(Users(g))

\* A mutex is locked by the one goroutine that is inside with this gate.
MutexInv ==
    /\ \A p \in Proc : pc[p] = "inside" => mutex[gate[p]] = p
    /\ \A g \in Gate : mutex[g] # Nobody => pc[mutex[g]] = "inside" /\ gate[mutex[g]] = g

GateInv == TypeOK /\ MapInv /\ CountInv /\ MutexInv

LEMMA InitGate == Init => GateInv
<1> SUFFICES ASSUME Init PROVE GateInv
  OBVIOUS
<1>1. \A g \in Gate : Users(g) = {}
  BY GateAssumption DEF Init, Users
<1>2. CountInv
  BY <1>1, FS_EmptySet DEF Init, CountInv
<1> QED BY <1>2, GateAssumption DEF Init, GateInv, TypeOK, MapInv, MutexInv

\* What taking a gate does to its users and its count.
LEMMA AcquireCounts ==
  ASSUME GateInv, NEW p \in Proc, NEW t \in Team, Acquire(p, t)
  PROVE  /\ CountInv'
         /\ \A g \in Gate : Users(g)' = IF g = gate'[p] THEN Users(g) \cup {p} ELSE Users(g)
<1>1. PICK g \in Gate :
        /\ IF teamGates[t] = NoGate
           THEN Unused(g) /\ refs' = [refs EXCEPT ![g] = 1]
           ELSE g = teamGates[t] /\ refs' = [refs EXCEPT ![g] = @ + 1]
        /\ gate' = [gate EXCEPT ![p] = g]
  BY DEF Acquire
<1>2. gate[p] = NoGate /\ gate \in [Proc -> Gate \cup {NoGate}] /\ refs \in [Gate -> Nat]
  BY DEF Acquire, GateInv, MapInv, TypeOK
<1>3. \A h \in Gate : Users(h)' = IF h = g THEN Users(h) \cup {p} ELSE Users(h)
  BY <1>1, <1>2, GateAssumption DEF Users
<1>4. ASSUME NEW h \in Gate
      PROVE  IsFiniteSet(Users(h)') /\ refs'[h] = Cardinality(Users(h)')
  <2>1. IsFiniteSet(Users(h)) /\ refs[h] = Cardinality(Users(h)) /\ p \notin Users(h)
    BY <1>2, GateAssumption DEF GateInv, CountInv, Users
  <2>2. CASE h # g
    BY <1>1, <1>2, <1>3, <2>1, <2>2
  <2>3. CASE h = g
    <3>1. IsFiniteSet(Users(h) \cup {p}) /\ Cardinality(Users(h) \cup {p}) = Cardinality(Users(h)) + 1
      BY <2>1, FS_AddElement
    <3>2. refs'[h] = refs[h] + 1
      <4>1. CASE teamGates[t] = NoGate
        <5>1. Users(h) = {}
          BY <1>1, <2>3, <4>1 DEF Unused, Users
        <5>2. refs[h] = 0
          BY <2>1, <5>1, FS_EmptySet
        <5> QED BY <1>1, <1>2, <2>3, <4>1, <5>2
      <4>2. CASE teamGates[t] # NoGate
        BY <1>1, <1>2, <2>3, <4>2
      <4> QED BY <4>1, <4>2
    <3> QED BY <1>3, <2>1, <2>3, <3>1, <3>2
  <2> QED BY <2>2, <2>3
<1>5. gate'[p] = g
  BY <1>1, <1>2
<1> QED BY <1>3, <1>4, <1>5 DEF CountInv

LEMMA AcquireKeeps ==
  ASSUME GateInv, NEW p \in Proc, NEW t \in Team, Acquire(p, t)
  PROVE  GateInv'
<1>1. CountInv' /\ \A g \in Gate : Users(g) \subseteq Users(g)' /\ (g = gate'[p] => p \in Users(g)')
  BY AcquireCounts
<1>2. TypeOK'
  BY DEF Acquire, GateInv, TypeOK
<1>3. PICK g \in Gate :
        /\ teamGates[t] = NoGate => Unused(g)
        /\ teamGates[t] # NoGate => g = teamGates[t]
        /\ teamGates' = [teamGates EXCEPT ![t] = g]
        /\ gate' = [gate EXCEPT ![p] = g]
  BY DEF Acquire
<1>4. MapInv'
  <2>1. \A q \in Proc : IF pc'[q] = "idle" THEN gate'[q] = NoGate /\ team'[q] = NoTeam
                        ELSE /\ gate'[q] \in Gate /\ team'[q] \in Team
                             /\ teamGates'[team'[q]] = gate'[q]
    <3> SUFFICES ASSUME NEW q \in Proc
                 PROVE  IF pc'[q] = "idle" THEN gate'[q] = NoGate /\ team'[q] = NoTeam
                        ELSE /\ gate'[q] \in Gate /\ team'[q] \in Team
                             /\ teamGates'[team'[q]] = gate'[q]
      OBVIOUS
    <3>1. CASE q = p
      BY <1>3, <3>1 DEF Acquire, GateInv, TypeOK
    <3>2. CASE q # p
      BY <1>3, <3>2, GateAssumption DEF Acquire, GateInv, TypeOK, MapInv
    <3> QED BY <3>1, <3>2
  <2>2. \A u, v \in Team : teamGates'[u] \in Gate /\ teamGates'[u] = teamGates'[v] => u = v
    BY <1>3 DEF GateInv, TypeOK, MapInv, Unused
  <2>3. \A u \in Team : teamGates'[u] \in Gate => Users(teamGates[u])' # {}
    <3> SUFFICES ASSUME NEW u \in Team, teamGates'[u] \in Gate PROVE Users(teamGates[u])' # {}
      OBVIOUS
    <3>1. CASE u = t
      BY <1>1, <1>3, <3>1 DEF GateInv, TypeOK
    <3>2. CASE u # t
      BY <1>1, <1>3, <3>2 DEF GateInv, TypeOK, MapInv
    <3> QED BY <3>1, <3>2
  <2> QED BY <2>1, <2>2, <2>3 DEF MapInv
<1>5. MutexInv'
  BY <1>3, GateAssumption DEF Acquire, GateInv, TypeOK, MapInv, MutexInv
<1> QED BY <1>1, <1>2, <1>4, <1>5 DEF GateInv

LEMMA LockKeeps ==
  ASSUME GateInv, NEW p \in Proc, Lock(p) \/ Unlock(p)
  PROVE  GateInv'
<1>1. \A g \in Gate : Users(g)' = Users(g)
  BY DEF Lock, Unlock, Users
<1>2. CountInv'
  BY <1>1 DEF Lock, Unlock, GateInv, CountInv
<1>3. TypeOK'
  BY DEF Lock, Unlock, GateInv, TypeOK
<1>4. MapInv'
  BY <1>1 DEF Lock, Unlock, GateInv, TypeOK, MapInv
<1>5. MutexInv'
  BY GateAssumption DEF Lock, Unlock, GateInv, TypeOK, MapInv, MutexInv
<1> QED BY <1>2, <1>3, <1>4, <1>5 DEF GateInv

LEMMA ReleaseKeeps ==
  ASSUME GateInv, NEW p \in Proc, Release(p)
  PROVE  GateInv'
<1> DEFINE g == gate[p]
           t == team[p]
<1>1. g \in Gate /\ t \in Team /\ teamGates[t] = g
  BY DEF Release, GateInv, MapInv
<1>2. /\ refs' = [refs EXCEPT ![g] = @ - 1]
      /\ teamGates' = IF refs[g] = 1 THEN [teamGates EXCEPT ![t] = NoGate] ELSE teamGates
      /\ gate' = [gate EXCEPT ![p] = NoGate]
      /\ team' = [team EXCEPT ![p] = NoTeam]
      /\ pc' = [pc EXCEPT ![p] = "idle"]
      /\ pc[p] = "unlocked"
      /\ mutex' = mutex
  BY <1>1 DEF Release
<1>3. \A h \in Gate : IsFiniteSet(Users(h)) /\ refs[h] = Cardinality(Users(h)) /\ refs[h] \in Nat
  BY DEF GateInv, CountInv, TypeOK
<1>4. p \in Users(g)
  BY DEF Users
<1> HIDE DEF g, t
<1>5. \A h \in Gate : Users(h)' = IF h = g THEN Users(h) \ {p} ELSE Users(h)
  BY <1>2, GateAssumption DEF GateInv, TypeOK, Users, g
<1>6. /\ IsFiniteSet(Users(g) \ {p}) /\ Cardinality(Users(g) \ {p}) = refs[g] - 1
      /\ refs[g] = 1 <=> Users(g) \ {p} = {}
  <2>1. IsFiniteSet(Users(g) \ {p}) /\ Cardinality(Users(g) \ {p}) = refs[g] - 1
    BY <1>1, <1>3, <1>4, FS_RemoveElement
  <2>2. refs[g] - 1 = 0 <=> Users(g) \ {p} = {}
    BY <2>1, FS_EmptySet
  <2> QED BY <1>1, <1>3, <2>1, <2>2
<1>7. CountInv'
  BY <1>1, <1>2, <1>3, <1>5, <1>6 DEF CountInv, GateInv, TypeOK
<1>8. TypeOK'
  <2>1. refs[g] - 1 \in Nat
    BY <1>6, FS_CardinalityType
  <2>2. refs' \in [Gate -> Nat]
    BY <1>1, <1>2, <2>1 DEF GateInv, TypeOK
  <2>3. /\ teamGates' \in [Team -> Gate \cup {NoGate}]
        /\ pc' \in [Proc -> {"idle", "locking", "inside", "unlocked"}]
        /\ team' \in [Proc -> Team \cup {NoTeam}]
        /\ gate' \in [Proc -> Gate \cup {NoGate}]
    BY <1>2 DEF GateInv, TypeOK
  <2> QED BY <1>2, <2>2, <2>3 DEF GateInv, TypeOK
<1>9. MapInv'
  <2>1. ASSUME NEW q \in Proc, q # p, pc[q] # "idle"
        PROVE  teamGates'[team[q]] = gate[q]
    <3>1. teamGates[team[q]] = gate[q] /\ team[q] \in Team /\ gate[q] \in Gate
      BY <2>1 DEF GateInv, MapInv
    <3>2. CASE refs[g] # 1
      BY <1>2, <3>1, <3>2
    <3>3. CASE refs[g] = 1
      <4>1. gate[q] # g
        BY <1>6, <2>1, <3>3 DEF Users
      <4> QED BY <1>1, <1>2, <3>1, <3>3, <4>1 DEF GateInv, TypeOK
    <3> QED BY <3>2, <3>3
  <2>2. \A q \in Proc : IF pc'[q] = "idle" THEN gate'[q] = NoGate /\ team'[q] = NoTeam
                        ELSE /\ gate'[q] \in Gate /\ team'[q] \in Team
                             /\ teamGates'[team'[q]] = gate'[q]
    BY <1>2, <2>1 DEF GateInv, TypeOK, MapInv
  <2>3. \A u \in Team : teamGates'[u] \in Gate => teamGates'[u] = teamGates[u]
    BY <1>2, GateAssumption DEF GateInv, TypeOK
  <2>4. \A u, v \in Team : teamGates'[u] \in Gate /\ teamGates'[u] = teamGates'[v] => u = v
    BY <2>3 DEF GateInv, MapInv
  <2>5. ASSUME NEW u \in Team, teamGates'[u] \in Gate
        PROVE  Users(teamGates[u])' # {}
    <3>1. teamGates'[u] = teamGates[u] /\ Users(teamGates[u]) # {}
      BY <2>3, <2>5 DEF GateInv, MapInv
    <3>2. CASE teamGates[u] # g
      BY <1>5, <2>5, <3>1, <3>2 DEF Users
    <3>3. CASE teamGates[u] = g
      <4>1. u = t
        BY <1>1, <3>3 DEF GateInv, MapInv
      <4>2. refs[g] # 1
        BY <1>1, <1>2, <2>5, <4>1, GateAssumption DEF GateInv, TypeOK
      <4> QED BY <1>1, <1>5, <1>6, <3>1, <3>3, <4>2 DEF Users
    <3> QED BY <3>2, <3>3
  <2> QED BY <2>2, <2>4, <2>5 DEF MapInv
<1>10. MutexInv'
  BY <1>2, GateAssumption DEF Release, GateInv, TypeOK, MapInv, MutexInv
<1> QED BY <1>7, <1>8, <1>9, <1>10 DEF GateInv

LEMMA StepGate == GateInv /\ [Next]_vars => GateInv'
<1>1. ASSUME GateInv, UNCHANGED vars PROVE GateInv'
  <2>1. \A g : Users(g)' = Users(g)
    BY <1>1 DEF vars, Users
  <2>2. CountInv'
    BY <1>1, <2>1 DEF GateInv, CountInv, vars
  <2>3. MapInv'
    BY <1>1, <2>1 DEF GateInv, MapInv, vars
  <2> QED BY <1>1, <2>2, <2>3 DEF vars, GateInv, TypeOK, MutexInv
<1> QED BY <1>1, AcquireKeeps, LockKeeps, ReleaseKeeps DEF Next

LEMMA GateHolds == Spec => []GateInv
  BY InitGate, StepGate, PTL DEF Spec

\* Two goroutines inside a team's gate are one (RoomHub.lockTeam).
THEOREM GateExcludes == Spec => []MutualExclusion
<1>1. GateInv => MutualExclusion
  BY DEF GateInv, MapInv, MutexInv, MutualExclusion
<1> QED BY <1>1, GateHolds, PTL

\* The map holds exactly the gates in use.
THEOREM GatesDoNotLeak == Spec => []GatesAreInUse
<1>1. GateInv => GatesAreInUse
  BY GateAssumption DEF GateInv, TypeOK, MapInv, Users, GatesAreInUse
<1> QED BY <1>1, GateHolds, PTL

\* Through the owner of each team's gate the gates are a lock per team.
LEMMA OwnerOfTeam ==
  ASSUME GateInv, NEW t \in Team
  PROVE  /\ Owner[t] \in Proc \cup {Nobody}
         /\ \A p \in Proc : Owner[t] = p <=> p \in Inside(t)
<1>1. \A p, q \in Inside(t) : p = q
  BY DEF GateInv, MapInv, MutexInv, Inside
<1>2. CASE Inside(t) = {}
  BY <1>2, GateAssumption DEF Owner, TheOne, Inside
<1>3. CASE Inside(t) # {}
  <2>1. Owner[t] \in Inside(t)
    BY <1>3 DEF Owner, TheOne
  <2> QED BY <1>1, <2>1 DEF Inside
<1> QED BY <1>2, <1>3

LEMMA OwnerStep ==
  ASSUME GateInv, GateInv', [Next]_vars
  PROVE  [PerTeam!Next]_Owner
<1>1. ASSUME UNCHANGED <<pc, team>> PROVE Owner' = Owner
  BY <1>1 DEF Owner, Inside
<1>2. ASSUME NEW p \in Proc, pc[p] # "inside", pc'[p] # "inside",
             \A q \in Proc \ {p} : pc'[q] = pc[q] /\ team'[q] = team[q]
      PROVE  Owner' = Owner
  <2>1. \A t \in Team : Inside(t)' = Inside(t)
    BY <1>2 DEF Inside
  <2> QED BY <2>1 DEF Owner
<1>3. ASSUME NEW p \in Proc, NEW t \in Team, Acquire(p, t) PROVE Owner' = Owner
  BY <1>2, <1>3 DEF Acquire, GateInv, TypeOK
<1>4. ASSUME NEW p \in Proc, Release(p) PROVE Owner' = Owner
  BY <1>2, <1>4 DEF Release, GateInv, TypeOK
<1>5. ASSUME NEW p \in Proc, Lock(p) PROVE PerTeam!Take(p, team[p])
  <2>1. team[p] \in Team /\ teamGates[team[p]] = gate[p] /\ gate[p] \in Gate
    BY <1>5 DEF Lock, GateInv, MapInv
  <2>2. Inside(team[p]) = {}
    BY <1>5, <2>1, GateAssumption DEF Lock, Inside, GateInv, MapInv, MutexInv
  <2>3. \A t \in Team : Inside(t)' = IF t = team[p] THEN {p} ELSE Inside(t)
    BY <1>5, <2>2 DEF Lock, Inside, GateInv, TypeOK
  <2>4. Owner[team[p]] = Nobody
    BY <2>1, <2>2 DEF Owner, TheOne
  <2>5. Owner' = [Owner EXCEPT ![team[p]] = p]
    <3>1. TheOne({p}) = p
      BY DEF TheOne
    <3> QED BY <2>1, <2>3, <3>1 DEF Owner
  <2> QED BY <2>4, <2>5 DEF PerTeam!Take
<1>6. ASSUME NEW p \in Proc, Unlock(p) PROVE PerTeam!Give(p, team[p])
  <2>1. team[p] \in Team /\ p \in Inside(team[p])
    BY <1>6 DEF Unlock, Inside, GateInv, MapInv
  <2>2. Inside(team[p]) = {p}
    BY <2>1 DEF GateInv, MapInv, MutexInv, Inside
  <2>3. \A t \in Team : Inside(t)' = IF t = team[p] THEN {} ELSE Inside(t)
    BY <1>6, <2>2 DEF Unlock, Inside, GateInv, TypeOK
  <2>4. Owner[team[p]] = p
    BY <2>1, OwnerOfTeam
  <2>5. Owner' = [Owner EXCEPT ![team[p]] = Nobody]
    <3>1. TheOne({}) = Nobody
      BY DEF TheOne
    <3> QED BY <2>1, <2>3, <3>1 DEF Owner
  <2> QED BY <2>4, <2>5 DEF PerTeam!Give
<1>7. ASSUME NEW p \in Proc, Lock(p) \/ Unlock(p) PROVE team[p] \in Team
  BY <1>7 DEF Lock, Unlock, GateInv, MapInv
<1>8. ASSUME UNCHANGED vars PROVE Owner' = Owner
  BY <1>1, <1>8 DEF vars
<1> QED BY <1>3, <1>4, <1>5, <1>6, <1>7, <1>8 DEF Next, PerTeam!Next

\* lockTeam's gates, map and counters together implement TeamLock.
THEOREM GatesImplementTeamLock == Spec => ImplementsTeamLock
<1>1. Init => PerTeam!Init
  BY DEF Init, PerTeam!Init, Owner, TheOne, Inside
<1>2. GateInv /\ GateInv' /\ [Next]_vars => [PerTeam!Next]_Owner
  BY OwnerStep
<1> QED BY <1>1, <1>2, GateHolds, PTL DEF Spec, ImplementsTeamLock, PerTeam!Spec

-----------------------------------------------------------------------------
(* TeamStore: what is read is there, an insert is under way at most once per code,  *)
(* and the start's steps leave the schema they promise.                            *)

\* A deletion has read a team that was there.
Checked == \A d \in Deletion : checking[d] # NoId => rows[checking[d]].state # "none"

\* How far init is, and what of the schema there must be by then: an older relay's insert
\* undoes the filling only while the column has no default.
Progress ==
    /\ migration >= 1 => "table" \in schema
    /\ migration >= 2 => "codeKey" \notin schema
    /\ migration >= 3 => "column" \in schema
    /\ migration >= 5 => "default" \in schema
    /\ migration >= 6 => {"filled", "notNull"} \subseteq schema
    /\ migration >= 7 => "index" \in schema

RowsOK  == rows \in [Id -> [state : {"none", "live", "deleted", "replaced"}, code : Code, idle : BOOLEAN]]
ChecksOK == checking \in [Deletion -> Id \cup {NoId}]
SchemaOK == schema \subseteq Parts /\ migration \in 0 .. 7

Inv == StoreTypeOK /\ Checked /\ Progress

-----------------------------------------------------------------------------
(* The schema. *)

\* A statement leaves a schema, and the progress init has made then is true of it.
LEMMA StatementProgress ==
    ASSUME SchemaOK, Progress, Migrate
    PROVE  SchemaOK' /\ Progress'
<1>1. migration \in 0 .. 6 /\ migration' = migration + 1 /\ schema' = After(migration + 1)
  BY DEF SchemaOK, Migrate, Ready
<1>2. CASE migration = 0
  BY <1>1, <1>2 DEF SchemaOK, Progress, After, Parts
<1>3. CASE migration = 1
  BY <1>1, <1>3 DEF SchemaOK, Progress, After, Parts
<1>4. CASE migration = 2
  BY <1>1, <1>4 DEF SchemaOK, Progress, After, Parts
<1>5. CASE migration = 3
  BY <1>1, <1>5 DEF SchemaOK, Progress, After, Parts
<1>6. CASE migration = 4
  BY <1>1, <1>6 DEF SchemaOK, Progress, After, Parts
<1>7. CASE migration = 5
  BY <1>1, <1>7 DEF SchemaOK, Progress, After, Parts, Migrate
<1>8. CASE migration = 6
  BY <1>1, <1>8 DEF SchemaOK, Progress, After, Parts
<1>9. QED  BY <1>1, <1>2, <1>3, <1>4, <1>5, <1>6, <1>7, <1>8

LEMMA SchemaStep ==
    ASSUME SchemaOK, Progress, [StoreNext]_storeVars
    PROVE  SchemaOK' /\ Progress'
<1>1. CASE Migrate  BY <1>1, StatementProgress
<1>2. CASE MigrateFails
  BY <1>2 DEF SchemaOK, Progress, MigrateFails
<1>3. CASE OldInsert
  BY <1>3 DEF SchemaOK, Progress, OldInsert
<1>4. CASE UNCHANGED <<schema, migration>>
  BY <1>4 DEF SchemaOK, Progress
<1>5. Migrate \/ MigrateFails \/ OldInsert \/ UNCHANGED <<schema, migration>>
  BY DEF StoreNext, storeVars, MemoryCreate, PostgresCreate, SupabaseCreate, JoinTouch, Touch, Expire,
         ReadForDelete, RefuseDelete, MemoryDelete, PostgresDelete, SupabaseDelete, Idle
<1>6. QED  BY <1>1, <1>2, <1>3, <1>4, <1>5

-----------------------------------------------------------------------------
(* The rows and the deletions under way. *)

LEMMA RowsStep ==
    ASSUME RowsOK, ChecksOK, Checked, [StoreNext]_storeVars
    PROVE  RowsOK' /\ ChecksOK' /\ Checked'
<1> USE StoreAssumption DEF RowsOK, ChecksOK, Checked
<1>1. ASSUME NEW i \in Id, NEW c \in Code, MemoryCreate(i, c)
      PROVE  RowsOK' /\ ChecksOK' /\ Checked'
  BY <1>1 DEF MemoryCreate, Inserted, Recorded
<1>2. ASSUME NEW i \in Id, NEW c \in Code, rows' = Inserted(i, c), UNCHANGED checking
      PROVE  RowsOK' /\ ChecksOK' /\ Checked'
  BY <1>2 DEF Inserted
<1>3. ASSUME NEW c \in Code, rows' = Touched(c), UNCHANGED checking
      PROVE  RowsOK' /\ ChecksOK' /\ Checked'
  BY <1>3 DEF Touched
<1>4. ASSUME Expire
      PROVE  RowsOK' /\ ChecksOK' /\ Checked'
  BY <1>4 DEF Expire, Expired
<1>5. ASSUME NEW d \in Deletion, NEW i \in Id, ReadForDelete(d, i)
      PROVE  RowsOK' /\ ChecksOK' /\ Checked'
  BY <1>5 DEF ReadForDelete
<1>6. ASSUME NEW d \in Deletion, RefuseDelete(d)
      PROVE  RowsOK' /\ ChecksOK' /\ Checked'
  BY <1>6 DEF RefuseDelete
<1>7. ASSUME NEW d \in Deletion, MemoryDelete(d)
      PROVE  RowsOK' /\ ChecksOK' /\ Checked'
  BY <1>7 DEF MemoryDelete, Recorded
<1>8. ASSUME NEW d \in Deletion, checking[d] # NoId, rows' = Deleted(checking[d]),
             checking' = [checking EXCEPT ![d] = NoId]
      PROVE  RowsOK' /\ ChecksOK' /\ Checked'
  BY <1>8 DEF Deleted
<1>9. ASSUME NEW i \in Id, Idle(i)
      PROVE  RowsOK' /\ ChecksOK' /\ Checked'
  BY <1>9 DEF Idle
<1>10. CASE UNCHANGED <<rows, checking>>
  BY <1>10
<1>11. QED
  BY <1>1, <1>2, <1>3, <1>4, <1>5, <1>6, <1>7, <1>8, <1>9, <1>10
     DEF StoreNext, storeVars, Migrate, MigrateFails, OldInsert, PostgresCreate, SupabaseCreate,
         JoinTouch, Touch, PostgresDelete, SupabaseDelete

LEMMA InitInv == StoreInit => Inv
<1> SUFFICES ASSUME StoreInit PROVE Inv
  OBVIOUS
<1>1. SchemaOK /\ Progress
  BY DEF StoreInit, SchemaOK, Progress, Parts
<1>2. store \in [kind : {"memory", "postgres", "supabase"}, expires : BOOLEAN]
  BY DEF StoreInit
<1>3. RowsOK
  <2>1. PICK c \in Code, S \in SUBSET Id :
          rows = [i \in Id |-> [state |-> IF i \in S THEN "live" ELSE "none", code |-> c, idle |-> FALSE]]
    BY DEF StoreInit
  <2>2. QED  BY <2>1 DEF RowsOK
<1>4. ChecksOK /\ Checked
  BY StoreAssumption DEF StoreInit, ChecksOK, Checked
<1>5. QED  BY <1>1, <1>2, <1>3, <1>4 DEF Inv, StoreTypeOK, SchemaOK, RowsOK, ChecksOK

LEMMA StepInv == Inv /\ [StoreNext]_storeVars => Inv'
<1> SUFFICES ASSUME Inv, [StoreNext]_storeVars PROVE Inv'
  OBVIOUS
<1>1. SchemaOK /\ RowsOK /\ ChecksOK /\ Checked /\ Progress
  BY DEF Inv, StoreTypeOK, SchemaOK, RowsOK, ChecksOK
<1>2. store' = store
  BY DEF StoreNext, storeVars, Migrate, MigrateFails, OldInsert, MemoryCreate, PostgresCreate,
         SupabaseCreate, JoinTouch, Touch, Expire, ReadForDelete, RefuseDelete, MemoryDelete,
         PostgresDelete, SupabaseDelete, Idle
<1>3. SchemaOK' /\ Progress'  BY <1>1, SchemaStep
<1>4. RowsOK' /\ ChecksOK' /\ Checked'  BY <1>1, RowsStep
<1>5. QED  BY <1>2, <1>3, <1>4 DEF Inv, StoreTypeOK, SchemaOK, RowsOK, ChecksOK

\* Types, the teams of deletions under way and the progress of init, for any teams, codes
\* and deletions (PostgresTeamStore.init, DeleteTeam).
THEOREM StoreInvariant == StoreSpec => []Inv
  BY InitInv, StepInv, PTL DEF StoreSpec

\* When init has returned the schema is the new one, wherever it failed and whatever an
\* older relay inserted meanwhile (PostgresTeamStore.init).
THEOREM ReadyMeansMigrated == StoreSpec => []ReadyIsMigrated
<1>1. ASSUME Inv, Ready PROVE schema = Parts \ {"codeKey"}
  <2>1. schema \subseteq Parts /\ "codeKey" \notin schema
    BY <1>1 DEF Inv, StoreTypeOK, Progress, Ready
  <2>2. {"table", "column", "filled", "default", "notNull", "index"} \subseteq schema
    BY <1>1 DEF Inv, Progress, Ready
  <2>3. Parts \ {"codeKey"} \subseteq schema  BY <2>2 DEF Parts
  <2>4. QED  BY <2>1, <2>3
<1>2. Inv => ReadyIsMigrated  BY <1>1 DEF ReadyIsMigrated
<1>3. QED  BY <1>2, StoreInvariant, PTL

-----------------------------------------------------------------------------
(* What ends a team, and the refinement. *)

\* In the databases (DeleteTeam, ExpireInactiveTeams) a team ends by its own deletion or
\* its own idleness.
THEOREM TeamsEndByThemselves == StoreSpec => OnlyItsTeamEnds
<1> DEFINE Ends ==
      Sql => \A i \in Id : rows[i].state = "live" /\ rows'[i].state # "live" =>
        \/ store.expires /\ rows[i].idle
        \/ \E d \in Deletion : checking[d] = i /\ checking'[d] = NoId
<1>1. ASSUME Inv, [StoreNext]_storeVars PROVE [Ends]_storeVars
  <2> SUFFICES ASSUME Sql, NEW i \in Id, rows[i].state = "live", rows'[i].state # "live"
               PROVE  \/ store.expires /\ rows[i].idle
                      \/ \E d \in Deletion : checking[d] = i /\ checking'[d] = NoId
    OBVIOUS
  <2>1. RowsOK /\ ChecksOK  BY <1>1 DEF Inv, StoreTypeOK, RowsOK, ChecksOK
  <2>2. ASSUME NEW j \in Id, NEW c \in Code, rows' = Inserted(j, c) PROVE FALSE
    BY <2>1, <2>2 DEF Inserted, RowsOK
  <2>3. ASSUME NEW c \in Code, rows' = Touched(c) PROVE FALSE
    BY <2>1, <2>3 DEF Touched, RowsOK
  <2>4. CASE Expire
    BY <2>1, <2>4 DEF Expire, Expired, RowsOK
  <2>5. ASSUME NEW d \in Deletion, checking[d] # NoId, rows' = Deleted(checking[d]),
               checking' = [checking EXCEPT ![d] = NoId]
        PROVE  checking[d] = i /\ checking'[d] = NoId
    BY <2>1, <2>5 DEF Deleted, RowsOK, ChecksOK
  <2>6. ASSUME NEW j \in Id, Idle(j) PROVE FALSE
    BY <2>1, <2>6 DEF Idle, RowsOK
  <2>7. rows' # rows /\ store.kind # "memory"  BY DEF Sql
  <2>8. QED
    BY <1>1, <2>2, <2>3, <2>4, <2>5, <2>6, <2>7
       DEF StoreNext, storeVars, Migrate, MigrateFails, OldInsert, MemoryCreate, PostgresCreate,
           SupabaseCreate, JoinTouch, Touch, ReadForDelete, RefuseDelete, MemoryDelete,
           PostgresDelete, SupabaseDelete
<1>2. QED  BY <1>1, StoreInvariant, PTL DEF StoreSpec, OnlyItsTeamEnds

statusOf == [i \in Id |-> Standing(i)]
codes    == [i \in Id |-> rows[i].code]

LEMMA Standings ==
    ASSUME RowsOK, NEW i \in Id
    PROVE  /\ statusOf[i] = Standing(i)
           /\ Standing(i) \in {"none", "live", "gone"}
           /\ Standing(i) = "none" <=> rows[i].state = "none"
           /\ Standing(i) = "live" <=> rows[i].state = "live"
  BY DEF RowsOK, Standing, statusOf

\* Rows whose standing and code stay: a stutter.
LEMMA SameRows ==
    ASSUME RowsOK, RowsOK', \A i \in Id : Standing(i)' = Standing(i) /\ rows'[i].code = rows[i].code
    PROVE  UNCHANGED <<statusOf, codes>>
  BY DEF RowsOK, statusOf, codes

\* Some live teams end, and nothing else is to be told: a Finish of Teams or a stutter.
LEMMA SomeEnd ==
    ASSUME RowsOK, RowsOK', NEW S \in SUBSET Id,
           \A i \in S : rows[i].state = "live" /\ rows'[i].state \in {"deleted", "replaced"},
           \A i \in Id \ S : Standing(i)' = Standing(i),
           \A i \in Id : rows'[i].code = rows[i].code
    PROVE  [T!TeamsNext]_<<statusOf, codes>>
<1>1. \A i \in S : Standing(i) = "live" /\ Standing(i)' = "gone"
  BY DEF Standing
<1>2. codes' = codes  BY DEF codes, RowsOK
<1>3. statusOf' = [i \in Id |-> IF i \in S THEN "gone" ELSE statusOf[i]]
  BY <1>1 DEF statusOf
<1>4. \A i \in S : statusOf[i] = "live"
  BY <1>1 DEF statusOf
<1>5. T!Finish(S)
  BY <1>2, <1>3, <1>4 DEF T!Finish, statusOf, codes
<1>6. QED  BY <1>2, <1>5 DEF T!TeamsNext, statusOf, codes

\* A team begins.
LEMMA OneBegins ==
    ASSUME RowsOK, RowsOK', NEW i \in Id, NEW c \in Code, rows[i].state = "none", Live(c) = {},
           rows'[i].state = "live", rows'[i].code = c,
           \A j \in Id \ {i} : Standing(j)' = Standing(j) /\ rows'[j].code = rows[j].code
    PROVE  [T!TeamsNext]_<<statusOf, codes>>
<1>1. Standing(i) = "none" /\ Standing(i)' = "live"
  BY DEF Standing
<1>2. codes' = [codes EXCEPT ![i] = c]
  BY DEF codes
<1>3. statusOf' = [statusOf EXCEPT ![i] = "live"]
  BY <1>1 DEF statusOf
<1>4. T!Named(c) = {}
  <2> SUFFICES ASSUME NEW j \in Id, statusOf[j] = "live", codes[j] = c PROVE FALSE
    BY DEF T!Named, statusOf, codes
  <2>1. rows[j].state = "live" /\ rows[j].code = c
    BY Standings DEF codes
  <2>2. QED  BY <2>1 DEF Live
<1>5. statusOf[i] = "none"
  BY <1>1 DEF statusOf
<1>6. T!Begin(i, c)
  BY <1>2, <1>3, <1>4, <1>5 DEF T!Begin, statusOf, codes
<1>7. statusOf' # statusOf
  BY <1>1, <1>5 DEF statusOf
<1>8. QED  BY <1>6, <1>7 DEF T!TeamsNext, statusOf, codes

LEMMA RefinesStep ==
    ASSUME RowsOK, RowsOK', ChecksOK, Checked, [StoreNext]_storeVars
    PROVE  [T!TeamsNext]_<<statusOf, codes>>
<1>1. ASSUME NEW i \in Id, NEW c \in Code, MemoryCreate(i, c)
      PROVE  [T!TeamsNext]_<<statusOf, codes>>
  <2>1. rows[i].state = "none" /\ Live(c) = {} /\ i \notin Recorded(c)
    BY <1>1 DEF MemoryCreate, Recorded
  <2>2. rows'[i] = [state |-> "live", code |-> c, idle |-> FALSE]
    BY <1>1, <2>1 DEF MemoryCreate, Inserted, RowsOK
  <2>3. ASSUME NEW j \in Id \ {i} PROVE Standing(j)' = Standing(j) /\ rows'[j].code = rows[j].code
    <3>1. CASE j \in Recorded(c)
      <4>1. rows[j].state = "deleted"  BY <2>1, <3>1 DEF Recorded, Live
      <4>2. rows'[j] = [rows[j] EXCEPT !.state = "replaced"]  BY <1>1, <3>1 DEF MemoryCreate
      <4>3. rows'[j].state = "replaced" /\ rows'[j].code = rows[j].code  BY <4>2 DEF RowsOK
      <4>4. QED  BY <4>1, <4>3 DEF Standing
    <3>2. CASE j \notin Recorded(c)
      <4>1. rows'[j] = rows[j]  BY <1>1, <3>2 DEF MemoryCreate, Inserted, RowsOK
      <4>2. QED  BY <4>1 DEF Standing
    <3>3. QED  BY <3>1, <3>2
  <2>4. QED  BY <2>1, <2>2, <2>3, OneBegins
<1>2. ASSUME NEW i \in Id, NEW c \in Code, rows[i].state = "none", Live(c) = {}, rows' = Inserted(i, c)
      PROVE  [T!TeamsNext]_<<statusOf, codes>>
  <2>1. rows'[i] = [state |-> "live", code |-> c, idle |-> FALSE]
    BY <1>2 DEF Inserted, RowsOK
  <2>2. \A j \in Id \ {i} : rows'[j] = rows[j]
    BY <1>2 DEF Inserted, RowsOK
  <2>3. \A j \in Id \ {i} : Standing(j)' = Standing(j) /\ rows'[j].code = rows[j].code
    BY <2>2 DEF Standing
  <2>4. QED  BY <1>2, <2>1, <2>3, OneBegins
<1>3. ASSUME NEW c \in Code, rows' = Touched(c)
      PROVE  [T!TeamsNext]_<<statusOf, codes>>
  <2>1. \A j \in Id : rows'[j].state = rows[j].state /\ rows'[j].code = rows[j].code
    BY <1>3 DEF Touched, RowsOK
  <2>2. \A j \in Id : Standing(j)' = Standing(j)  BY <2>1 DEF Standing
  <2>3. QED  BY <2>1, <2>2, SameRows
<1>4. CASE Expire
  <2>1. \A j \in Expired : rows[j].state = "live" /\ rows'[j].state = "deleted" /\ rows'[j].code = rows[j].code
    BY <1>4 DEF Expire, Expired, RowsOK
  <2>2. \A j \in Id \ Expired : rows'[j] = rows[j]
    BY <1>4 DEF Expire, RowsOK
  <2>3. \A j \in Id \ Expired : Standing(j)' = Standing(j)  BY <2>2 DEF Standing
  <2>4. Expired \in SUBSET Id  BY DEF Expired
  <2>5. \A j \in Id : rows'[j].code = rows[j].code  BY <2>1, <2>2
  <2>6. QED  BY <2>1, <2>3, <2>4, <2>5, SomeEnd
<1>5. ASSUME NEW d \in Deletion, MemoryDelete(d)
      PROVE  [T!TeamsNext]_<<statusOf, codes>>
  <2> DEFINE i == checking[d]
             R == {i} \cup Recorded(rows[i].code)
             S == {j \in R : rows[j].state = "live"}
  <2>1. i \in Id /\ rows[i].state # "none"
    BY <1>5 DEF MemoryDelete, ChecksOK, Checked
  <2>2. R \subseteq Id /\ \A j \in R : rows[j].state # "none"
    BY <2>1 DEF Recorded
  <2>3. \A j \in R : rows'[j].state \in {"deleted", "replaced"} /\ rows'[j].code = rows[j].code
    BY <1>5, <2>1 DEF MemoryDelete, Recorded, RowsOK
  <2>4. \A j \in Id \ R : rows'[j] = rows[j]
    BY <1>5, <2>1 DEF MemoryDelete, RowsOK
  <2>5. \A j \in R \ S : Standing(j)' = Standing(j)
    BY <2>2, <2>3 DEF Standing
  <2>6. \A j \in Id \ R : Standing(j)' = Standing(j)
    BY <2>4 DEF Standing
  <2>7. \A j \in Id : rows'[j].code = rows[j].code  BY <2>3, <2>4
  <2>8. \A j \in Id \ S : Standing(j)' = Standing(j)  BY <2>5, <2>6
  <2>9. S \in SUBSET Id /\ \A j \in S : rows[j].state = "live" /\ rows'[j].state \in {"deleted", "replaced"}
    BY <2>2, <2>3
  <2>10. QED
    <3> HIDE DEF S
    <3> QED  BY <2>7, <2>8, <2>9, SomeEnd
<1>6. ASSUME NEW d \in Deletion, checking[d] # NoId, rows' = Deleted(checking[d])
      PROVE  [T!TeamsNext]_<<statusOf, codes>>
  <2> DEFINE i == checking[d]
             S == {j \in {i} : rows[j].state = "live"}
  <2>1. i \in Id /\ rows[i].state # "none"
    BY <1>6 DEF ChecksOK, Checked
  <2>2. rows'[i].state = "deleted" /\ rows'[i].code = rows[i].code
    BY <1>6, <2>1 DEF Deleted, RowsOK
  <2>3. \A j \in Id \ {i} : rows'[j] = rows[j]
    BY <1>6, <2>1 DEF Deleted, RowsOK
  <2>4. \A j \in Id \ S : Standing(j)' = Standing(j)
    BY <2>1, <2>2, <2>3 DEF Standing
  <2>5. \A j \in Id : rows'[j].code = rows[j].code  BY <2>2, <2>3
  <2>6. S \in SUBSET Id /\ \A j \in S : rows[j].state = "live" /\ rows'[j].state \in {"deleted", "replaced"}
    BY <2>1, <2>2
  <2>7. QED
    <3> HIDE DEF S
    <3> QED  BY <2>4, <2>5, <2>6, SomeEnd
<1>7. ASSUME NEW i \in Id, Idle(i)
      PROVE  [T!TeamsNext]_<<statusOf, codes>>
  <2>1. \A j \in Id : rows'[j].state = rows[j].state /\ rows'[j].code = rows[j].code
    BY <1>7 DEF Idle, RowsOK
  <2>2. \A j \in Id : Standing(j)' = Standing(j)  BY <2>1 DEF Standing
  <2>3. QED  BY <2>1, <2>2, SameRows
<1>8. CASE rows' = rows
  <2>1. \A j \in Id : Standing(j)' = Standing(j)  BY <1>8 DEF Standing
  <2>2. QED  BY <1>8, <2>1, SameRows
<1>9. QED
  BY <1>1, <1>2, <1>3, <1>4, <1>5, <1>6, <1>7, <1>8
     DEF StoreNext, storeVars, Migrate, MigrateFails, OldInsert, PostgresCreate, SupabaseCreate,
         JoinTouch, Touch, ReadForDelete, RefuseDelete, PostgresDelete, SupabaseDelete

LEMMA RefinesInit == StoreInit => T!TeamsInit
<1> SUFFICES ASSUME StoreInit PROVE T!TeamsInit
  OBVIOUS
<1>1. PICK c \in Code, S \in SUBSET Id :
        /\ \A i, j \in S : i = j
        /\ rows = [i \in Id |-> [state |-> IF i \in S THEN "live" ELSE "none", code |-> c, idle |-> FALSE]]
  BY DEF StoreInit
<1>2. \A i \in Id : Standing(i) = IF i \in S THEN "live" ELSE "none"
  BY <1>1 DEF Standing
<1>3. statusOf \in [Id -> {"none", "live"}] /\ codes \in [Id -> Code]
  BY <1>1, <1>2 DEF statusOf, codes
<1>4. \A i \in Id : statusOf[i] = "live" => i \in S
  BY <1>2 DEF statusOf
<1>5. QED  BY <1>1, <1>3, <1>4 DEF T!TeamsInit, T!Named, statusOf, codes

\* Each of the three stores is as good as Teams: a code names one live team, and a team
\* that is gone stays gone (store.go: CreateTeam, DeleteTeam, ExpireInactiveTeams).
THEOREM StoresImplementTeams == StoreSpec => StoreImplementsTeams
<1>1. Inv /\ Inv' /\ [StoreNext]_storeVars => [T!TeamsNext]_(T!teamsVars)
  <2> SUFFICES ASSUME Inv, Inv', [StoreNext]_storeVars PROVE [T!TeamsNext]_(T!teamsVars)
    OBVIOUS
  <2>1. RowsOK /\ RowsOK' /\ ChecksOK /\ Checked
    BY DEF Inv, StoreTypeOK, RowsOK, ChecksOK
  <2>2. [T!TeamsNext]_<<statusOf, codes>>  BY <2>1, RefinesStep
  <2>3. QED  BY <2>2 DEF T!teamsVars, statusOf, codes
<1>2. QED
  BY <1>1, RefinesInit, StoreInvariant, PTL DEF StoreSpec, StoreImplementsTeams, T!TeamsSpec

-----------------------------------------------------------------------------
(* RateLimiter: an entry knows what its key was granted since its window opened,  *)
(* up to the lag of the clock that opened it.                                     *)

Hits == [count : Nat, resetAt : 0 .. MaxTime + Window]

LimiterTypes ==
    /\ clock \in Lag .. MaxTime /\ hits \in [Key -> Hits]
    /\ nextCleanup \in 0 .. MaxTime + CleanupEvery
    /\ grants \in [Key -> [Time -> Nat]]
    /\ answer \in {None} \cup [call : {"Allow", "Blocked"}, key : Key, yes : BOOLEAN]

\* The history is one: it never falls, and does not know the future.
History ==
    \A k \in Key, t, u \in Time :
        /\ t <= u => grants[k][t] <= grants[k][u]
        /\ clock <= t => grants[k][t] = grants[k][clock]

\* The requests granted from a tick until now.
Since(k, t) == grants[k][clock] - Before(k, t)

\* What an entry counts of a budget.
Used(hit) == IF hit.count < MaxRequests THEN hit.count ELSE MaxRequests

\* Whoever opens a window now, or did before, has not used more than a budget and what
\* the entry counts in the time no two windows can open in; a window that has been opened
\* was opened within the lag before its start and now, and all it counts was granted since.
HitOK(k, hit) ==
    /\ \A t \in Time : t + Window > clock + Lag => Since(k, t) <= MaxRequests + Used(hit)
    /\ hit.count > 0 =>
         /\ Window <= hit.resetAt /\ hit.resetAt <= clock + Window
         /\ \A t \in Time : /\ t + Window > hit.resetAt + Lag => Since(k, t) <= Used(hit)
                            /\ t + Window <= hit.resetAt => Since(k, t) >= Used(hit)

LimiterInv ==
    /\ LimiterTypes /\ History
    /\ \A k \in Key : HitOK(k, hits[k])
    /\ TwoBudgetsAtMost /\ RefusedOnlyOverBudget

LEMMA HitFields ==
    ASSUME NEW hit \in Hits
    PROVE  hit.count \in Nat /\ hit.resetAt \in Nat /\ Used(hit) \in 0 .. MaxRequests
BY LimiterAssumption DEF Hits, Used

LEMMA NoHitIs == NoHit \in Hits /\ NoHit.count = 0 /\ NoHit.resetAt = 0 /\ Used(NoHit) = 0
BY LimiterAssumption DEF Hits, NoHit, Used

LEMMA SinceIs ==
    ASSUME LimiterTypes, NEW k \in Key, NEW t \in Time
    PROVE  Before(k, t) \in Nat /\ grants[k][clock] \in Nat
BY LimiterAssumption DEF LimiterTypes, Before, Time

\* An entry whose window is over may be dropped.
LEMMA DropOK ==
    ASSUME LimiterTypes, NEW k \in Key, NEW hit \in Hits, HitOK(k, hit), hit.resetAt <= clock
    PROVE  HitOK(k, NoHit)
<1>1. SUFFICES ASSUME NEW t \in Time, t + Window > clock + Lag
              PROVE  Since(k, t) <= MaxRequests
  BY NoHitIs, LimiterAssumption DEF HitOK
<1>2. CASE hit.count = 0
  BY <1>1, <1>2, LimiterAssumption DEF HitOK, Used
<1>3. CASE hit.count > 0
  <2>1. t + Window > hit.resetAt + Lag
    BY <1>1, HitFields, LimiterAssumption DEF LimiterTypes, Time
  <2>2. QED  BY <1>1, <1>3, <2>1, HitFields, SinceIs, LimiterAssumption DEF HitOK, Since
<1>4. QED  BY <1>2, <1>3, HitFields

LEMMA PrunedOK ==
    ASSUME LimiterTypes, NEW now \in Now, \A k \in Key : HitOK(k, hits[k])
    PROVE  Pruned(now) \in [Key -> Hits] /\ \A k \in Key : HitOK(k, Pruned(now)[k])
<1>1. now \in Nat /\ now <= clock
  BY LimiterAssumption DEF Now, LimiterTypes
<1>2. ASSUME NEW k \in Key PROVE Pruned(now)[k] \in Hits /\ HitOK(k, Pruned(now)[k])
  <2>1. hits[k] \in Hits
    BY DEF LimiterTypes
  <2>2. CASE hits[k].resetAt > now
    BY <2>1, <2>2 DEF Pruned
  <2>3. CASE ~(hits[k].resetAt > now)
    <3>1. hits[k].resetAt <= clock
      BY <1>1, <2>1, <2>3, HitFields, LimiterAssumption DEF LimiterTypes
    <3>2. Pruned(now)[k] = NoHit
      BY <2>3 DEF Pruned
    <3>3. QED  BY <2>1, <3>1, <3>2, DropOK, NoHitIs
  <2>4. QED  BY <2>2, <2>3
<1>3. QED  BY <1>2 DEF Pruned

LEMMA PreparedOK ==
    ASSUME LimiterTypes, NEW now \in Now, \A k \in Key : HitOK(k, hits[k])
    PROVE  Prepared(now) \in [Key -> Hits] /\ \A k \in Key : HitOK(k, Prepared(now)[k])
BY PrunedOK DEF Prepared, LimiterTypes

\* While nothing is granted and no time passes, entries are right as before.
LEMMA QuietOK ==
    ASSUME NEW k \in Key, NEW hit, HitOK(k, hit), grants' = grants, clock' = clock
    PROVE  HitOK(k, hit)'
BY DEF HitOK, Since, Before, Used

LEMMA QuietHistory ==
    ASSUME History, TwoBudgetsAtMost, grants' = grants, clock' = clock
    PROVE  History' /\ TwoBudgetsAtMost'
BY DEF History, TwoBudgetsAtMost, Granted, Before

LEMMA SinceNatural ==
    ASSUME LimiterTypes, History, NEW k \in Key, NEW t \in Time
    PROVE  Since(k, t) \in Nat /\ (t > clock => Since(k, t) = 0)
<1>1. clock \in Time /\ Time \subseteq Nat
  BY LimiterAssumption DEF LimiterTypes, Time
<1>2. CASE t = 0
  BY <1>1, <1>2, SinceIs DEF Since, Before
<1>3. CASE t # 0
  <2>1. t - 1 \in Time
    BY <1>3, LimiterAssumption DEF Time
  <2>2. grants[k][t - 1] <= grants[k][clock] /\ (t > clock => grants[k][t - 1] = grants[k][clock])
    BY <1>1, <2>1 DEF History
  <2>3. QED  BY <1>1, <1>3, <2>1, <2>2, SinceIs DEF Since, Before
<1>4. QED  BY <1>2, <1>3

LEMMA GrantIs ==
    ASSUME LimiterTypes, NEW k \in Key, grants' = OneMoreGrant(k), clock' = clock
    PROVE  /\ grants' \in [Key -> [Time -> Nat]]
           /\ \A t \in Time : grants'[k][t] = IF t < clock THEN grants[k][t] ELSE grants[k][t] + 1
           /\ \A j \in Key \ {k} : grants'[j] = grants[j]
BY LimiterAssumption DEF LimiterTypes, OneMoreGrant, Time

LEMMA GrantHistory ==
    ASSUME LimiterTypes, History, NEW k \in Key, grants' = OneMoreGrant(k), clock' = clock
    PROVE  History'
<1>1. SUFFICES ASSUME NEW j \in Key, NEW t \in Time, NEW u \in Time
              PROVE  /\ t <= u => grants'[j][t] <= grants'[j][u]
                     /\ clock <= t => grants'[j][t] = grants'[j][clock]
  BY DEF History
<1>2. clock \in Time /\ Time \subseteq Nat
  BY LimiterAssumption DEF LimiterTypes, Time
<1>3. /\ t <= u => grants[j][t] <= grants[j][u]
      /\ clock <= t => grants[j][t] = grants[j][clock]
  BY DEF History
<1>4. grants[j][t] \in Nat /\ grants[j][u] \in Nat /\ grants[j][clock] \in Nat
  BY <1>2 DEF LimiterTypes
<1>5. CASE j = k
  <2>1. /\ grants'[j][t] = IF t < clock THEN grants[j][t] ELSE grants[j][t] + 1
        /\ grants'[j][u] = IF u < clock THEN grants[j][u] ELSE grants[j][u] + 1
        /\ grants'[j][clock] = grants[j][clock] + 1
    BY <1>2, <1>5, GrantIs
  <2>2. t \in Nat /\ u \in Nat /\ clock \in Nat
    BY <1>2
  <2>3. QED  BY <1>3, <1>4, <2>1, <2>2
<1>6. CASE j # k
  BY <1>2, <1>3, <1>6, GrantIs
<1>7. QED  BY <1>5, <1>6

LEMMA SinceGrows ==
    ASSUME LimiterTypes, History, NEW k \in Key, grants' = OneMoreGrant(k), clock' = clock,
           NEW t \in Time
    PROVE  Since(k, t)' = IF t <= clock THEN Since(k, t) + 1 ELSE 0
<1>1. clock \in Time /\ Time \subseteq Nat
  BY LimiterAssumption DEF LimiterTypes, Time
<1>2. grants'[k][clock] = grants[k][clock] + 1
  BY <1>1, GrantIs
<1>3. CASE t = 0
  BY <1>1, <1>2, <1>3, SinceIs DEF Since, Before
<1>4. CASE t # 0
  <2>1. t - 1 \in Time
    BY <1>4, LimiterAssumption DEF Time
  <2>2. grants'[k][t - 1] = IF t - 1 < clock THEN grants[k][t - 1] ELSE grants[k][t - 1] + 1
    BY <2>1, GrantIs
  <2>3. grants[k][clock] \in Nat /\ grants[k][t - 1] \in Nat
    BY <1>1, <2>1 DEF LimiterTypes
  <2>4. Since(k, t)' = grants'[k][clock] - grants'[k][t - 1] /\ Since(k, t) = grants[k][clock] - grants[k][t - 1]
    BY <1>4 DEF Since, Before
  <2>5. t > clock => Since(k, t) = 0
    BY SinceNatural
  <2>6. QED  BY <1>1, <1>2, <1>4, <2>1, <2>2, <2>3, <2>4, <2>5
<1>5. QED  BY <1>3, <1>4

\* The first request of a window.
LEMMA OpenedOK ==
    ASSUME LimiterTypes, History, NEW k \in Key, NEW hit \in Hits, HitOK(k, hit), NEW now \in Now,
           Opens(hit, now), grants' = OneMoreGrant(k), clock' = clock
    PROVE  HitOK(k, [count |-> 1, resetAt |-> now + Window])'
<1> DEFINE new == [count |-> 1, resetAt |-> now + Window]
<1>1. /\ now \in Nat /\ now <= clock /\ clock <= now + Lag
      /\ clock \in Time /\ Time \subseteq Nat
  BY LimiterAssumption DEF Now, LimiterTypes, Time
<1>2. new.count = 1 /\ new.resetAt = now + Window /\ Used(new) = 1
  BY LimiterAssumption DEF Used
<1>3. HitOK(k, NoHit)
  <2>1. CASE hit.count = 0
    BY <2>1, NoHitIs, LimiterAssumption DEF HitOK, Used
  <2>2. CASE hit.count # 0
    BY <1>1, <2>2, HitFields, DropOK DEF Opens
  <2>3. QED  BY <2>1, <2>2
<1>4. ASSUME NEW t \in Time
      PROVE  /\ t + Window > clock + Lag => Since(k, t)' <= MaxRequests + 1
             /\ t + Window > now + Window + Lag => Since(k, t)' <= 1
             /\ t + Window <= now + Window => Since(k, t)' >= 1
  <2>1. Since(k, t)' = IF t <= clock THEN Since(k, t) + 1 ELSE 0
    BY SinceGrows
  <2>2. Since(k, t) \in Nat
    BY SinceNatural
  <2>3. t + Window > clock + Lag => Since(k, t) <= MaxRequests
    BY <1>3, NoHitIs, LimiterAssumption DEF HitOK
  <2>4. QED  BY <1>1, <2>1, <2>2, <2>3, LimiterAssumption
<1>5. HitOK(k, new)'
  <2>1. now + Window \in Nat /\ Window <= now + Window /\ now + Window <= clock + Window
    BY <1>1, LimiterAssumption
  <2>2. QED  BY <1>2, <1>4, <2>1 DEF HitOK, Used
<1>6. QED  BY <1>5

\* A further one within the budget.
LEMMA CountedOK ==
    ASSUME LimiterTypes, History, NEW k \in Key, NEW hit \in Hits, HitOK(k, hit), NEW now \in Now,
           ~Opens(hit, now), Within(hit, now), grants' = OneMoreGrant(k), clock' = clock
    PROVE  HitOK(k, Counted(hit, now))'
<1> DEFINE new == Counted(hit, now)
<1>1. clock \in Time /\ Time \subseteq Nat
  BY LimiterAssumption DEF LimiterTypes, Time
<1>2. /\ new.count = hit.count + 1 /\ new.resetAt = hit.resetAt /\ hit.count > 0
      /\ Used(hit) = hit.count /\ Used(new) = hit.count + 1
  BY HitFields, LimiterAssumption DEF Used, Counted, Within, Opens, Hits
<1>3. ASSUME NEW t \in Time
      PROVE  /\ t + Window > clock + Lag => Since(k, t)' <= MaxRequests + hit.count + 1
             /\ t + Window > hit.resetAt + Lag => Since(k, t)' <= hit.count + 1
             /\ t + Window <= hit.resetAt => Since(k, t)' >= hit.count + 1
  <2>1. Since(k, t)' = IF t <= clock THEN Since(k, t) + 1 ELSE 0
    BY SinceGrows
  <2>2. Since(k, t) \in Nat
    BY SinceNatural
  <2>3. /\ t + Window > clock + Lag => Since(k, t) <= MaxRequests + hit.count
        /\ t + Window > hit.resetAt + Lag => Since(k, t) <= hit.count
        /\ t + Window <= hit.resetAt => Since(k, t) >= hit.count
        /\ hit.resetAt <= clock + Window
    BY <1>2 DEF HitOK
  <2>4. QED  BY <1>1, <2>1, <2>2, <2>3, HitFields, LimiterAssumption
<1>4. HitOK(k, new)'
  <2>1. Window <= hit.resetAt /\ hit.resetAt <= clock + Window
    BY <1>2 DEF HitOK
  <2>2. QED  BY <1>2, <1>3, <2>1, HitFields, LimiterAssumption DEF HitOK, Used
<1>5. QED  BY <1>4

\* One over the budget leaves everything as it is but the count.
LEMMA RefusedOK ==
    ASSUME LimiterTypes, NEW k \in Key, NEW hit \in Hits, HitOK(k, hit), NEW now \in Now,
           ~Within(hit, now), grants' = grants, clock' = clock
    PROVE  HitOK(k, Counted(hit, now))'
<1> DEFINE new == Counted(hit, now)
<1>1. /\ new.count = hit.count + 1 /\ new.resetAt = hit.resetAt /\ hit.count > 0
      /\ Used(hit) = MaxRequests /\ Used(new) = MaxRequests
  BY HitFields, LimiterAssumption DEF Used, Counted, Within, Opens, Hits
<1>2. HitOK(k, new)
  BY <1>1, HitFields, LimiterAssumption DEF HitOK
<1>3. QED  BY <1>2, QuietOK

\* The hits after a call of Allow.
LEMMA AllowHits ==
    ASSUME LimiterTypes, History, \A j \in Key : HitOK(j, hits[j]),
           NEW k \in Key, NEW now \in Now, Allow(k, now)
    PROVE  \A j \in Key : HitOK(j, hits[j])'
<1>1. PICK hit \in Hits : hit = Prepared(now)[k] /\ HitOK(k, hit)
  BY PreparedOK
<1>2. /\ hits' = [Prepared(now) EXCEPT ![k] = IF Opens(hit, now) THEN [count |-> 1, resetAt |-> now + Window]
                                              ELSE Counted(hit, now)]
      /\ grants' = IF Within(hit, now) THEN OneMoreGrant(k) ELSE grants
      /\ clock' = clock
  BY <1>1 DEF Allow
<1>3. Prepared(now) \in [Key -> Hits]
  BY PreparedOK
<1>4. Opens(hit, now) => Within(hit, now)
  BY DEF Within
<1>5. hits'[k] = IF Opens(hit, now) THEN [count |-> 1, resetAt |-> now + Window] ELSE Counted(hit, now)
  BY <1>2, <1>3
<1>6. ASSUME NEW j \in Key \ {k} PROVE HitOK(j, hits[j])'
  <2>1. hits'[j] = Prepared(now)[j]
    BY <1>2, <1>3
  <2>2. HitOK(j, Prepared(now)[j])
    BY PreparedOK
  <2>3. CASE Within(hit, now)
    <3>1. HitOK(j, hits'[j])
      BY <2>1, <2>2
    <3>2. grants' = OneMoreGrant(k)
      BY <1>2, <2>3
    <3>3. grants'[j] = grants[j]
      BY <3>2, <1>2, GrantIs
    <3>4. QED  BY <3>1, <3>3, <1>2 DEF HitOK, Since, Before, Used
  <2>4. CASE ~Within(hit, now)
    BY <1>2, <2>1, <2>2, <2>4 DEF HitOK, Since, Before, Used
  <2>5. QED  BY <2>3, <2>4
<1>7. HitOK(k, hits[k])'
  <2>1. CASE Opens(hit, now)
    <3>1. hits'[k] = [count |-> 1, resetAt |-> now + Window]
      BY <1>5, <2>1
    <3>2. HitOK(k, [count |-> 1, resetAt |-> now + Window])'
      BY <1>1, <1>2, <1>4, <2>1, OpenedOK
    <3>3. QED  BY <3>1, <3>2 DEF HitOK, Used
  <2>2. CASE ~Opens(hit, now) /\ Within(hit, now)
    <3>1. hits'[k] = Counted(hit, now)
      BY <1>5, <2>2
    <3>2. HitOK(k, Counted(hit, now))'
      BY <1>1, <1>2, <2>2, CountedOK
    <3>3. QED  BY <3>1, <3>2 DEF HitOK, Used
  <2>3. CASE ~Within(hit, now)
    <3>1. hits'[k] = Counted(hit, now)
      BY <1>4, <1>5, <2>3
    <3>2. HitOK(k, Counted(hit, now))'
      BY <1>1, <1>2, <2>3, RefusedOK
    <3>3. QED  BY <3>1, <3>2 DEF HitOK, Used
  <2>4. QED  BY <2>1, <2>2, <2>3
<1>8. QED  BY <1>6, <1>7

LEMMA AllowTypes ==
    ASSUME LimiterTypes, \A j \in Key : HitOK(j, hits[j]),
           NEW k \in Key, NEW now \in Now, Allow(k, now)
    PROVE  LimiterTypes'
<1>1. now \in Nat /\ now <= clock /\ clock \in Lag .. MaxTime
  BY LimiterAssumption DEF Now, LimiterTypes
<1>2. hits' \in [Key -> Hits]
  <2>1. PICK hit \in Hits : hit = Prepared(now)[k]
    BY PreparedOK
  <2>2. [count |-> 1, resetAt |-> now + Window] \in Hits
    BY <1>1, LimiterAssumption DEF Hits
  <2>3. Counted(hit, now) \in Hits
    BY LimiterAssumption DEF Counted, Hits
  <2>4. QED  BY <2>1, <2>2, <2>3, PreparedOK DEF Allow
<1>3. nextCleanup' \in 0 .. MaxTime + CleanupEvery
  BY <1>1, LimiterAssumption DEF Allow, NextCleanup, LimiterTypes
<1>4. grants' \in [Key -> [Time -> Nat]]
  BY GrantIs DEF Allow, LimiterTypes
<1>5. answer' \in {None} \cup [call : {"Allow", "Blocked"}, key : Key, yes : BOOLEAN]
  <2>1. Within(Prepared(now)[k], now) \in BOOLEAN
    BY DEF Within, Opens
  <2>2. QED  BY <2>1 DEF Allow
<1>6. QED  BY <1>1, <1>2, <1>3, <1>4, <1>5 DEF LimiterTypes, Allow

\* No interval in which one window can open at most has more than two budgets: the future
\* has none, the past keeps what it had, and any other ends now.
LEMMA GrantBudgets ==
    ASSUME LimiterTypes, History, TwoBudgetsAtMost, NEW k \in Key,
           grants' = OneMoreGrant(k), clock' = clock, LimiterTypes', HitOK(k, hits[k])'
    PROVE  TwoBudgetsAtMost'
<1>1. SUFFICES ASSUME NEW j \in Key, NEW t \in Time
              PROVE  Granted(j, t, t + (Window - Lag) - 1)' <= 2 * MaxRequests
  BY DEF TwoBudgetsAtMost
<1> DEFINE end == IF t + (Window - Lag) - 1 < MaxTime THEN t + (Window - Lag) - 1 ELSE MaxTime
<1>2. clock \in Time /\ Time \subseteq Nat /\ end \in Time /\ t <= end
  BY LimiterAssumption DEF LimiterTypes, Time
<1>3. /\ Granted(j, t, t + (Window - Lag) - 1) = grants[j][end] - Before(j, t)
      /\ Granted(j, t, t + (Window - Lag) - 1)' = grants'[j][end] - Before(j, t)'
  BY DEF Granted
<1>4. Granted(j, t, t + (Window - Lag) - 1) <= 2 * MaxRequests
  BY DEF TwoBudgetsAtMost
<1>5. CASE j # k
  BY <1>3, <1>4, <1>5, GrantIs DEF Before
<1>6. CASE j = k /\ end < clock
  <2>1. grants'[j][end] = grants[j][end]
    BY <1>2, <1>6, GrantIs
  <2>2. Before(j, t)' = Before(j, t)
    <3>1. t # 0 => t - 1 \in Time /\ t - 1 < clock
      BY <1>2, <1>6, LimiterAssumption DEF Time
    <3>2. QED  BY <1>6, <3>1, GrantIs DEF Before
  <2>3. QED  BY <1>3, <1>4, <2>1, <2>2
<1>7. CASE j = k /\ clock <= end
  <2>1. History'
    BY GrantHistory
  <2>2. grants'[j][end] = grants'[j][clock]
    BY <1>2, <1>7, <2>1 DEF History
  <2>3. Granted(j, t, t + (Window - Lag) - 1)' = Since(k, t)'
    BY <1>3, <1>7, <2>2 DEF Since
  <2>4. CASE t <= clock
    <3>1. t + Window > clock + Lag
      BY <1>2, <1>7, LimiterAssumption DEF Time
    <3>2. hits'[k] \in Hits
      BY DEF LimiterTypes
    <3>3. Since(k, t)' <= MaxRequests + Used(hits[k])'
      BY <3>1 DEF HitOK
    <3>4. Used(hits[k])' \in 0 .. MaxRequests
      BY <3>2, LimiterAssumption DEF Used, Hits
    <3>5. Since(k, t)' \in Int
      BY <2>4, SinceGrows, SinceNatural
    <3>6. QED  BY <2>3, <3>3, <3>4, <3>5, LimiterAssumption
  <2>5. CASE t > clock
    BY <1>2, <2>3, <2>5, SinceGrows, LimiterAssumption
  <2>6. QED  BY <1>2, <2>4, <2>5
<1>8. end < clock \/ clock <= end
  BY <1>2, LimiterAssumption DEF Time
<1>9. QED  BY <1>5, <1>6, <1>7, <1>8

\* What the entry counts was granted within the window and the lag before it.
LEMMA RefusalIsDue ==
    ASSUME LimiterTypes, History, NEW k \in Key, NEW hit \in Hits, HitOK(k, hit), NEW now \in Now,
           hit.count >= MaxRequests, now <= hit.resetAt
    PROVE  Granted(k, IF clock > Window + Lag THEN clock - Window - Lag ELSE 0, clock) >= MaxRequests
<1> DEFINE from == IF clock > Window + Lag THEN clock - Window - Lag ELSE 0
<1>1. clock \in Time /\ Time \subseteq Nat /\ from \in Time /\ clock <= MaxTime
  BY LimiterAssumption DEF LimiterTypes, Time
<1>2. hit.count > 0 /\ Used(hit) = MaxRequests /\ Window <= hit.resetAt
  BY HitFields, LimiterAssumption DEF Used, HitOK
<1>3. from + Window <= hit.resetAt
  BY <1>1, <1>2, HitFields, LimiterAssumption DEF Now
<1>4. Since(k, from) >= MaxRequests
  BY <1>1, <1>2, <1>3 DEF HitOK
<1>5. Granted(k, from, clock) = Since(k, from)
  <2>1. (IF clock < MaxTime THEN clock ELSE MaxTime) = clock
    BY <1>1, LimiterAssumption DEF Time
  <2>2. QED  BY <2>1 DEF Granted, Since
<1>6. QED  BY <1>4, <1>5

LEMMA AllowInv ==
    ASSUME LimiterInv, NEW k \in Key, NEW now \in Now, Allow(k, now)
    PROVE  LimiterInv'
<1>1. LimiterTypes /\ History /\ TwoBudgetsAtMost /\ \A j \in Key : HitOK(j, hits[j])
  BY DEF LimiterInv
<1>2. LimiterTypes' /\ \A j \in Key : HitOK(j, hits[j])'
  BY <1>1, AllowTypes, AllowHits
<1>3. PICK hit \in Hits : hit = Prepared(now)[k] /\ HitOK(k, hit)
  BY <1>1, PreparedOK
<1>4. clock' = clock /\ grants' = IF Within(hit, now) THEN OneMoreGrant(k) ELSE grants
  BY <1>3 DEF Allow
<1>5. History' /\ TwoBudgetsAtMost'
  <2>1. CASE Within(hit, now)
    BY <1>1, <1>2, <1>4, <2>1, GrantHistory, GrantBudgets
  <2>2. CASE ~Within(hit, now)
    BY <1>1, <1>4, <2>2, QuietHistory
  <2>3. QED  BY <2>1, <2>2
<1>6. RefusedOnlyOverBudget'
  <2>1. answer' = [call |-> "Allow", key |-> k, yes |-> Within(hit, now)]
    BY <1>3 DEF Allow
  <2>2. Within(hit, now) \in BOOLEAN
    BY DEF Within, Opens
  <2>3. CASE Within(hit, now)
    BY <2>1, <2>3 DEF RefusedOnlyOverBudget
  <2>4. CASE ~Within(hit, now)
    <3>1. hit.count >= MaxRequests /\ now <= hit.resetAt
      BY <2>4, HitFields, LimiterAssumption DEF Within, Opens, Now, LimiterTypes
    <3>2. Granted(k, IF clock > Window + Lag THEN clock - Window - Lag ELSE 0, clock) >= MaxRequests
      BY <1>1, <1>3, <3>1, RefusalIsDue
    <3>3. QED  BY <1>4, <2>1, <2>4, <3>2 DEF RefusedOnlyOverBudget, Granted, Before
  <2>5. QED  BY <2>3, <2>4
<1>7. QED  BY <1>2, <1>5, <1>6 DEF LimiterInv

\* Blocked and PruneExpired grant nothing: what was refused stays refused.
LEMMA QuietInv ==
    ASSUME LimiterInv, UNCHANGED <<clock, grants>>, NEW now \in Now,
           hits' \in {Prepared(now), Pruned(now)},
           nextCleanup' \in {NextCleanup(now), now + CleanupEvery}
    PROVE  /\ History' /\ TwoBudgetsAtMost' /\ \A k \in Key : HitOK(k, hits[k])'
           /\ answer' \in {None} \cup [call : {"Allow", "Blocked"}, key : Key, yes : BOOLEAN]
                => LimiterTypes'
<1>1. LimiterTypes /\ History /\ TwoBudgetsAtMost /\ \A k \in Key : HitOK(k, hits[k])
  BY DEF LimiterInv
<1>2. hits' \in [Key -> Hits] /\ \A k \in Key : HitOK(k, hits'[k])
  BY <1>1, PreparedOK, PrunedOK
<1>3. now \in Nat /\ now <= MaxTime
  BY <1>1, LimiterAssumption DEF Now, LimiterTypes
<1>4. nextCleanup' \in 0 .. MaxTime + CleanupEvery
  BY <1>1, <1>3, LimiterAssumption DEF NextCleanup, LimiterTypes
<1>5. \A k \in Key : HitOK(k, hits[k])'
  BY <1>2 DEF HitOK, Since, Before, Used
<1>6. QED  BY <1>1, <1>2, <1>4, <1>5, QuietHistory DEF LimiterTypes

LEMMA BlockedInv ==
    ASSUME LimiterInv, NEW k \in Key, NEW now \in Now, Blocked(k, now)
    PROVE  LimiterInv'
<1>1. LimiterTypes /\ History /\ \A j \in Key : HitOK(j, hits[j])
  BY DEF LimiterInv
<1>2. PICK hit \in Hits : hit = Prepared(now)[k] /\ HitOK(k, hit)
  BY <1>1, PreparedOK
<1>3. /\ UNCHANGED <<clock, grants>> /\ hits' = Prepared(now) /\ nextCleanup' = NextCleanup(now)
      /\ answer' = [call |-> "Blocked", key |-> k, yes |-> BlockedBy(hit, now)]
  BY <1>2 DEF Blocked
<1>4. answer' \in [call : {"Allow", "Blocked"}, key : Key, yes : BOOLEAN]
  BY <1>3 DEF BlockedBy
<1>5. History' /\ TwoBudgetsAtMost' /\ LimiterTypes' /\ \A j \in Key : HitOK(j, hits[j])'
  BY <1>3, <1>4, QuietInv
<1>6. RefusedOnlyOverBudget'
  <2>1. CASE BlockedBy(hit, now)
    <3>1. hit.count >= MaxRequests /\ now <= hit.resetAt
      BY <1>1, <2>1, HitFields, LimiterAssumption DEF BlockedBy, Now, LimiterTypes
    <3>2. Granted(k, IF clock > Window + Lag THEN clock - Window - Lag ELSE 0, clock) >= MaxRequests
      BY <1>1, <1>2, <3>1, RefusalIsDue
    <3>3. QED  BY <1>3, <3>2 DEF RefusedOnlyOverBudget, Granted, Before
  <2>2. CASE ~BlockedBy(hit, now)
    BY <1>3, <2>2 DEF RefusedOnlyOverBudget, BlockedBy
  <2>3. QED  BY <2>1, <2>2
<1>7. QED  BY <1>5, <1>6 DEF LimiterInv

LEMMA PruneInv ==
    ASSUME LimiterInv, NEW now \in Now, PruneExpired(now)
    PROVE  LimiterInv'
<1>1. LimiterTypes /\ RefusedOnlyOverBudget
  BY DEF LimiterInv
<1>2. /\ UNCHANGED <<clock, grants, answer>> /\ hits' = Pruned(now)
      /\ nextCleanup' = now + CleanupEvery
  BY DEF PruneExpired
<1>3. History' /\ TwoBudgetsAtMost' /\ LimiterTypes' /\ \A j \in Key : HitOK(j, hits[j])'
  BY <1>1, <1>2, QuietInv DEF LimiterTypes
<1>4. RefusedOnlyOverBudget'
  BY <1>1, <1>2 DEF RefusedOnlyOverBudget, Granted, Before
<1>5. QED  BY <1>3, <1>4 DEF LimiterInv

LEMMA TickInv == ASSUME LimiterInv, Tick PROVE LimiterInv'
<1>1. LimiterTypes /\ History /\ TwoBudgetsAtMost
  BY DEF LimiterInv
<1>2. /\ clock' = clock + 1 /\ answer' = None /\ UNCHANGED <<hits, nextCleanup, grants>>
      /\ clock \in Time /\ clock' \in Time /\ Time \subseteq Nat /\ clock' \in Lag .. MaxTime
  BY <1>1, LimiterAssumption DEF Tick, LimiterTypes, Time
<1>3. LimiterTypes'
  BY <1>1, <1>2 DEF LimiterTypes
<1>4. \A k \in Key : grants[k][clock + 1] = grants[k][clock]
  BY <1>1, <1>2 DEF History
<1>5. History'
  <2>1. SUFFICES ASSUME NEW k \in Key, NEW t \in Time, NEW u \in Time
                PROVE  /\ t <= u => grants[k][t] <= grants[k][u]
                       /\ clock + 1 <= t => grants[k][t] = grants[k][clock + 1]
    BY <1>2 DEF History
  <2>2. clock + 1 <= t => clock <= t
    BY <1>2
  <2>3. QED  BY <1>1, <1>2, <1>4, <2>2 DEF History
<1>6. TwoBudgetsAtMost'
  BY <1>1, <1>2 DEF TwoBudgetsAtMost, Granted, Before
<1>7. ASSUME NEW k \in Key PROVE HitOK(k, hits[k])'
  <2>1. HitOK(k, hits[k]) /\ hits[k] \in Hits
    BY <1>1 DEF LimiterInv, LimiterTypes
  <2>2. \A t \in Time : Since(k, t)' = Since(k, t)
    BY <1>2, <1>4 DEF Since, Before
  <2>3. ASSUME NEW t \in Time, t + Window > clock + 1 + Lag PROVE Since(k, t) <= MaxRequests + Used(hits[k])
    BY <1>2, <2>1, <2>3, LimiterAssumption DEF HitOK
  <2>4. hits[k].resetAt <= clock + Window => hits[k].resetAt <= clock + 1 + Window
    BY <1>2, <2>1, HitFields, LimiterAssumption
  <2>5. QED  BY <1>2, <2>1, <2>2, <2>3, <2>4 DEF HitOK, Used
<1>8. RefusedOnlyOverBudget'
  BY <1>2 DEF RefusedOnlyOverBudget
<1>9. QED  BY <1>3, <1>5, <1>6, <1>7, <1>8 DEF LimiterInv

LEMMA LimiterStep == LimiterInv /\ [LimiterNext]_limiterVars => LimiterInv'
<1> SUFFICES ASSUME LimiterInv, [LimiterNext]_limiterVars PROVE LimiterInv'
  OBVIOUS
<1>1. CASE Tick
  BY <1>1, TickInv
<1>2. ASSUME NEW now \in Now, NEW k \in Key, Allow(k, now) PROVE LimiterInv'
  BY <1>2, AllowInv
<1>3. ASSUME NEW now \in Now, NEW k \in Key, Blocked(k, now) PROVE LimiterInv'
  BY <1>3, BlockedInv
<1>4. ASSUME NEW now \in Now, PruneExpired(now) PROVE LimiterInv'
  BY <1>4, PruneInv
<1>5. CASE UNCHANGED limiterVars
  <2>1. UNCHANGED <<clock, hits, nextCleanup, grants, answer>>
    BY <1>5 DEF limiterVars
  <2>2. QED
    BY <2>1 DEF LimiterInv, LimiterTypes, History, HitOK, Since, Before, Used,
                TwoBudgetsAtMost, RefusedOnlyOverBudget, Granted, Time
<1>6. QED  BY <1>1, <1>2, <1>3, <1>4, <1>5 DEF LimiterNext

LEMMA LimiterStart == LimiterInit => LimiterInv
<1> SUFFICES ASSUME LimiterInit PROVE LimiterInv
  OBVIOUS
<1>1. clock \in Time /\ clock \in Lag .. MaxTime /\ Time \subseteq Nat
  BY LimiterAssumption DEF LimiterInit, Time
<1>2. LimiterTypes
  BY <1>1, NoHitIs, LimiterAssumption DEF LimiterInit, LimiterTypes
<1>3. \A k \in Key, t \in Time : grants[k][t] = 0 /\ Before(k, t) = 0
  <2>1. \A t \in Time : t # 0 => t - 1 \in Time
    BY LimiterAssumption DEF Time
  <2>2. QED  BY <2>1 DEF LimiterInit, Before
<1>4. History
  BY <1>1, <1>3 DEF History
<1>5. ASSUME NEW k \in Key PROVE HitOK(k, hits[k])
  <2>1. hits[k] = NoHit
    BY DEF LimiterInit
  <2>2. \A t \in Time : Since(k, t) = 0
    BY <1>1, <1>3 DEF Since
  <2>3. QED  BY <2>1, <2>2, NoHitIs, LimiterAssumption DEF HitOK
<1>6. TwoBudgetsAtMost
  <2>1. ASSUME NEW t \in Time, NEW k \in Key PROVE Granted(k, t, t + (Window - Lag) - 1) <= 2 * MaxRequests
    <3>1. (IF t + (Window - Lag) - 1 < MaxTime THEN t + (Window - Lag) - 1 ELSE MaxTime) \in Time
      BY LimiterAssumption DEF Time
    <3>2. Granted(k, t, t + (Window - Lag) - 1) = 0 - 0
      BY <1>3, <3>1 DEF Granted
    <3>3. QED  BY <3>2, LimiterAssumption
  <2>2. QED  BY <2>1 DEF TwoBudgetsAtMost
<1>7. RefusedOnlyOverBudget
  BY DEF LimiterInit, RefusedOnlyOverBudget
<1>8. QED  BY <1>2, <1>4, <1>5, <1>6, <1>7 DEF LimiterInv

\* Wherever the windows, the pruning, the ticks and the late calls fall, an address gets two
\* budgets at most in the time of a window less the lag (limiter.go, Allow).
THEOREM BudgetsAreKept == LimiterSpec => []TwoBudgetsAtMost
<1>1. LimiterInv => TwoBudgetsAtMost
  BY DEF LimiterInv
<1>2. QED  BY <1>1, LimiterStart, LimiterStep, PTL DEF LimiterSpec

\* Nobody is refused, by Allow or by Blocked, who has not used a whole budget within the last
\* window and the lag.
THEOREM RefusalsAreDue == LimiterSpec => []RefusedOnlyOverBudget
<1>1. LimiterInv => RefusedOnlyOverBudget
  BY DEF LimiterInv
<1>2. QED  BY <1>1, LimiterStart, LimiterStep, PTL DEF LimiterSpec

=============================================================================
