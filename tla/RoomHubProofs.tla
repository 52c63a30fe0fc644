---------------------------- MODULE RoomHubProofs ----------------------------
(***************************************************************************)
(* Proofs about RoomHub, for any sets of connections, teams and deletion   *)
(* requests and any room size.                                             *)
(***************************************************************************)
EXTENDS RoomHub, FiniteSetTheorems, TLAPS

-----------------------------------------------------------------------------
(* Typing *)

\* A handler inside join has a team, a deletion under way has a target.
Busy == {"locking", "loading", "touching", "inserting", "unlocking"}

Typed ==
    /\ TypeOK
    /\ \A c \in Conn : handler[c] \in Busy => req[c] \in Team
    /\ \A d \in Deleter : deleter[d] # "idle" => target[d] \in Team

LEMMA InitTyped == Init => Typed
  BY DEF Init, Typed, TypeOK, Busy, HandlerState, DeleterState

\* One step of a connection's handler or socket preserves typing.
LEMMA ConnTyped ==
  ASSUME Typed, NEW c \in Conn, ConnNext(c)
  PROVE  Typed'
<1> USE NamesAssumption DEF Typed, TypeOK, Busy, HandlerState, connVars, roomVars,
        others, deleteVars, hbVars, expVars, Goto
<1>1. CASE Connect(c)         BY <1>1 DEF Connect
<1>2. CASE Pong(c)            BY <1>2 DEF Pong
<1>3. CASE RejectJoin(c)      BY <1>3 DEF RejectJoin, SendClose
<1>4. ASSUME NEW t \in Team, RecvJoin(c, t) PROVE Typed'
  BY <1>4 DEF RecvJoin
<1>5. CASE LockTeam(c)        BY <1>5 DEF LockTeam
<1>6. CASE GetTeam(c)         BY <1>6 DEF GetTeam
<1>7. CASE GetTeamFails(c)    BY <1>7 DEF GetTeamFails, SendClose
<1>8. CASE TouchTeam(c)       BY <1>8 DEF TouchTeam
<1>9. CASE TouchTeamFails(c)  BY <1>9 DEF TouchTeamFails, SendClose, MayTouch
<1>10. CASE InsertFull(c)     BY <1>10 DEF InsertFull, SendClose
<1>11. CASE Insert(c)         BY <1>11 DEF Insert, PeersOf
<1>12. CASE UnlockTeam(c)     BY <1>12 DEF UnlockTeam
<1>13. CASE ReadFails(c)      BY <1>13 DEF ReadFails
<1>14. CASE RateLimited(c)    BY <1>14 DEF RateLimited
<1>15. CASE Leave(c)          BY <1>15 DEF Leave, LeaveRoom
<1>16. CASE Forget(c)         BY <1>16 DEF Forget
<1>17. CASE CloseConn(c)      BY <1>17 DEF CloseConn
<1>18. CASE WriterCloses(c)   BY <1>18 DEF WriterCloses
<1> QED BY <1>1, <1>2, <1>3, <1>4, <1>5, <1>6, <1>7, <1>8, <1>9, <1>10, <1>11,
           <1>12, <1>13, <1>14, <1>15, <1>16, <1>17, <1>18 DEF ConnNext

\* One step of a deletion preserves typing.
LEMMA DeleteTyped ==
  ASSUME Typed, NEW d \in Deleter, DeleteNext(d)
  PROVE  Typed'
<1> USE NamesAssumption DEF Typed, TypeOK, Busy, DeleterState, connVars, roomVars,
        hbVars, expVars, GotoD
<1>1. ASSUME NEW t \in Team, StartDelete(d, t) PROVE Typed'
  BY <1>1 DEF StartDelete
<1>2. CASE LockForDelete(d)     BY <1>2 DEF LockForDelete
<1>3. CASE DeleteStored(d)      BY <1>3 DEF DeleteStored
<1>4. CASE DeleteRefused(d)     BY <1>4 DEF DeleteRefused
<1>5. CASE CloseDeletedRoom(d)  BY <1>5 DEF CloseDeletedRoom, CloseRoom, PeersOf
<1>6. CASE TellDeleted(d)       BY <1>6 DEF TellDeleted, SendClose
<1>7. CASE UnlockAfterDelete(d) BY <1>7 DEF UnlockAfterDelete
<1>8. CASE DeleteLost(d)        BY <1>8 DEF DeleteLost
<1> QED BY <1>1, <1>2, <1>3, <1>4, <1>5, <1>6, <1>7, <1>8 DEF DeleteNext

\* One step of the heartbeat or of the expiry pass preserves typing.
LEMMA TimerTyped ==
  ASSUME Typed, HeartbeatNext \/ ExpiryNext
  PROVE  Typed'
<1> USE NamesAssumption DEF Typed, TypeOK, Busy, connVars, roomVars, others, deleteVars,
        hbVars, expVars
<1>1. CASE HeartbeatScan         BY <1>1 DEF HeartbeatScan
<1>2. ASSUME NEW c \in Conn, HeartbeatLeave(c) PROVE Typed'
  BY <1>2 DEF HeartbeatLeave, LeaveRoom
<1>3. CASE HeartbeatForget       BY <1>3 DEF HeartbeatForget
<1>4. CASE HeartbeatClose        BY <1>4 DEF HeartbeatClose
<1>5. CASE ExpirySnapshot        BY <1>5 DEF ExpirySnapshot
<1>6. ASSUME NEW t \in Team, ExpiryTouch(t) PROVE Typed'
  BY <1>6 DEF ExpiryTouch
<1>7. ASSUME NEW t \in Team, ExpiryTouchFails(t) PROVE Typed'
  BY <1>7 DEF ExpiryTouchFails, MayTouch
<1>8. CASE ExpireStored          BY <1>8 DEF ExpireStored, Expired
<1>9. CASE ExpireStoredFails     BY <1>9 DEF ExpireStoredFails, Expired
<1>10. ASSUME NEW t \in Team, CloseExpiredRoom(t) PROVE Typed'
  BY <1>10 DEF CloseExpiredRoom, CloseRoom, PeersOf
<1>11. CASE TellExpired          BY <1>11 DEF TellExpired, SendClose
<1>12. ASSUME NEW t \in Team, GrowIdle(t) PROVE Typed'
  BY <1>12 DEF GrowIdle
<1> QED BY <1>1, <1>2, <1>3, <1>4, <1>5, <1>6, <1>7, <1>8, <1>9, <1>10, <1>11,
           <1>12 DEF HeartbeatNext, ExpiryNext

LEMMA StepTyped == Typed /\ [Next]_vars => Typed'
<1>1. CASE UNCHANGED vars
  BY <1>1 DEF Typed, TypeOK, vars, connVars, roomVars, others, deleteVars, hbVars, expVars
<1> QED BY <1>1, ConnTyped, DeleteTyped, TimerTyped DEF Next

\* Every variable keeps its type (hub.go, all of it).
THEOREM TypeCorrect == Spec => []TypeOK
<1>1. Typed => TypeOK
  BY DEF Typed
<1> QED BY <1>1, InitTyped, StepTyped, PTL DEF Spec

-----------------------------------------------------------------------------
(* Rooms.  Whatever the step, h.rooms and the roomCodes change in one of four  *)
(* ways; the invariants of the rooms are shown once for each.                  *)

LEMMA RoomSteps ==
  ASSUME Typed, [Next]_vars
  PROVE  \/ UNCHANGED roomVars
         \/ \E c \in Conn : LeaveRoom(c)
         \/ \E t \in Team, who \in Deleter \cup {Expirer} : CloseRoom(t, who)
         \/ \E c \in Conn : Insert(c) \/ InsertFull(c)
<1>1. CASE UNCHANGED vars
  BY <1>1 DEF vars, roomVars
<1>2. ASSUME NEW c \in Conn, ConnNext(c)
      PROVE  UNCHANGED roomVars \/ LeaveRoom(c) \/ Insert(c) \/ InsertFull(c)
  BY <1>2 DEF ConnNext, Connect, Pong, RejectJoin, RecvJoin, LockTeam, GetTeam,
     GetTeamFails, TouchTeam, TouchTeamFails, UnlockTeam, ReadFails, RateLimited,
     Leave, Forget, CloseConn, WriterCloses
<1>3. ASSUME NEW d \in Deleter, DeleteNext(d)
      PROVE  UNCHANGED roomVars \/ (target[d] \in Team /\ CloseRoom(target[d], d))
  BY <1>3 DEF DeleteNext, StartDelete, LockForDelete, DeleteStored, DeleteLost, DeleteRefused,
     CloseDeletedRoom, TellDeleted, UnlockAfterDelete, GotoD, Typed
<1>4. ASSUME HeartbeatNext
      PROVE  UNCHANGED roomVars \/ \E c \in Conn : LeaveRoom(c)
  BY <1>4 DEF HeartbeatNext, HeartbeatScan, HeartbeatLeave, HeartbeatForget,
     HeartbeatClose
<1>5. ASSUME ExpiryNext
      PROVE  UNCHANGED roomVars \/ \E t \in Team : CloseRoom(t, Expirer)
  BY <1>5 DEF ExpiryNext, ExpirySnapshot, ExpiryTouch, ExpiryTouchFails,
     ExpireStored, ExpireStoredFails, CloseExpiredRoom, TellExpired, GrowIdle
<1> QED BY <1>1, <1>2, <1>3, <1>4, <1>5 DEF Next

\* The seats of every room, as RoomCap counts them: the set is finite too.
SeatsInv == \A t \in Team : IsFiniteSet(peers[t]) /\ Cardinality(peers[t]) <= MaxPeers

RoomInv == Typed /\ MembershipAgrees /\ RoomsAreOccupied /\ SeatsInv

LEMMA InitRoomInv == Init => RoomInv
<1>1. Init => SeatsInv
  BY FS_EmptySet, MaxPeersAssumption DEF Init, SeatsInv
<1> QED BY <1>1, InitTyped, NamesAssumption
        DEF RoomInv, Init, MembershipAgrees, RoomsAreOccupied

\* A room that refuses a newcomer exists: an empty one is never full.
LEMMA FullRoomExists ==
  ASSUME RoomInv, NEW c \in Conn, NEW t \in Team, IsFull(c, t)
  PROVE  t \in rooms
  BY FS_EmptySet, MaxPeersAssumption DEF IsFull, PeersOf

\* Seats: taking a connection out never overfills a set within the cap, and
\* putting one in does not when it is there already or a seat is free.
LEMMA SeatArithmetic ==
  ASSUME NEW S, NEW c, IsFiniteSet(S), Cardinality(S) <= MaxPeers
  PROVE  /\ IsFiniteSet(S \ {c}) /\ Cardinality(S \ {c}) <= MaxPeers
         /\ c \in S \/ Cardinality(S) < MaxPeers =>
               IsFiniteSet(S \cup {c}) /\ Cardinality(S \cup {c}) <= MaxPeers
<1>1. Cardinality(S) \in Nat
  BY FS_CardinalityType
<1>2. /\ IsFiniteSet(S \ {c})
      /\ Cardinality(S \ {c}) = IF c \in S THEN Cardinality(S) - 1 ELSE Cardinality(S)
  BY FS_RemoveElement
<1>3. /\ IsFiniteSet(S \cup {c})
      /\ Cardinality(S \cup {c}) = IF c \in S THEN Cardinality(S) ELSE Cardinality(S) + 1
  BY FS_AddElement
<1> QED BY <1>1, <1>2, <1>3, MaxPeersAssumption

\* A step that leaves the three room variables alone keeps the invariants.
LEMMA RoomsUnchanged ==
  ASSUME RoomInv, Typed', UNCHANGED roomVars
  PROVE  RoomInv'
  BY DEF RoomInv, MembershipAgrees, RoomsAreOccupied, SeatsInv, roomVars

LEMMA LeaveKeepsRooms ==
  ASSUME RoomInv, Typed', NEW c \in Conn, LeaveRoom(c)
  PROVE  RoomInv'
<1>1. CASE ~(c \in conns /\ roomCode[c] # NoTeam)
  BY <1>1, RoomsUnchanged DEF LeaveRoom
<1>2. CASE c \in conns /\ roomCode[c] # NoTeam
  <2> DEFINE t == roomCode[c]
  <2>1. t \in Team /\ c \in peers[t] /\ t \in rooms
    BY <1>2 DEF RoomInv, Typed, TypeOK, MembershipAgrees, RoomsAreOccupied
  <2>2. /\ roomCode' = [roomCode EXCEPT ![c] = NoTeam]
        /\ peers' = [peers EXCEPT ![t] = @ \ {c}]
        /\ rooms' = IF peers[t] \ {c} = {} THEN rooms \ {t} ELSE rooms
    BY <1>2, <2>1 DEF LeaveRoom
  <2> HIDE DEF t
  <2>3. MembershipAgrees'
    BY <2>1, <2>2, NamesAssumption DEF RoomInv, MembershipAgrees, Typed, TypeOK, t
  <2>4. RoomsAreOccupied'
    BY <2>1, <2>2 DEF RoomInv, RoomsAreOccupied, Typed, TypeOK
  <2>5. SeatsInv'
    <3> SUFFICES ASSUME NEW u \in Team
                 PROVE  IsFiniteSet(peers'[u]) /\ Cardinality(peers'[u]) <= MaxPeers
      BY DEF SeatsInv
    <3>1. CASE u # t
      BY <3>1, <2>2 DEF RoomInv, SeatsInv, Typed, TypeOK
    <3>2. CASE u = t
      <4>1. peers'[u] = peers[u] \ {c}
        BY <3>2, <2>1, <2>2 DEF RoomInv, Typed, TypeOK
      <4> QED BY <4>1, SeatArithmetic DEF RoomInv, SeatsInv
    <3> QED BY <3>1, <3>2
  <2> QED BY <2>3, <2>4, <2>5 DEF RoomInv
<1> QED BY <1>1, <1>2

LEMMA CloseKeepsRooms ==
  ASSUME RoomInv, Typed', NEW t \in Team, NEW who, CloseRoom(t, who)
  PROVE  RoomInv'
<1>1. /\ roomCode' = [c \in Conn |-> IF c \in peers[t] THEN NoTeam ELSE roomCode[c]]
      /\ peers' = [peers EXCEPT ![t] = {}]
      /\ rooms' = rooms \ {t}
  BY DEF CloseRoom, PeersOf, RoomInv, RoomsAreOccupied, Typed, TypeOK
<1>2. MembershipAgrees'
  BY <1>1, NamesAssumption DEF RoomInv, MembershipAgrees, Typed, TypeOK
<1>3. RoomsAreOccupied'
  BY <1>1 DEF RoomInv, RoomsAreOccupied, Typed, TypeOK
<1>4. SeatsInv'
  BY <1>1, FS_EmptySet, MaxPeersAssumption DEF RoomInv, SeatsInv, Typed, TypeOK
<1> QED BY <1>2, <1>3, <1>4 DEF RoomInv

LEMMA InsertKeepsRooms ==
  ASSUME RoomInv, Typed', NEW c \in Conn, Insert(c)
  PROVE  RoomInv'
<1> DEFINE t == req[c]
           prev == roomCode[c]
<1>1. t \in Team /\ ~IsFull(c, t) /\ PeersOf(t) = peers[t]
  BY DEF Insert, Goto, RoomInv, Typed, Busy, PeersOf, RoomsAreOccupied
<1>2. /\ roomCode' = [roomCode EXCEPT ![c] = t]
      /\ peers' = [u \in Team |-> IF u = t THEN peers[t] \cup {c}
                                  ELSE IF u \in rooms /\ u = prev THEN peers[u] \ {c}
                                  ELSE peers[u]]
      /\ rooms' = (rooms \ {u \in rooms : u = prev /\ u # t /\ peers[u] \ {c} = {}}) \cup {t}
  BY <1>1 DEF Insert
<1> HIDE DEF t, prev
<1>3. \A u \in Team : u \notin rooms => peers[u] = {}
  BY DEF RoomInv, RoomsAreOccupied
<1>4. MembershipAgrees'
  BY <1>1, <1>2, <1>3, NamesAssumption DEF RoomInv, MembershipAgrees, Typed, TypeOK, prev
<1>5. RoomsAreOccupied'
  BY <1>1, <1>2, <1>3 DEF RoomInv, RoomsAreOccupied, Typed, TypeOK
<1>6. SeatsInv'
  <2> SUFFICES ASSUME NEW u \in Team
               PROVE  IsFiniteSet(peers'[u]) /\ Cardinality(peers'[u]) <= MaxPeers
    BY DEF SeatsInv
  <2>1. IsFiniteSet(peers[u]) /\ Cardinality(peers[u]) <= MaxPeers
    BY DEF RoomInv, SeatsInv
  <2>2. Cardinality(peers[u]) \in Nat
    BY <2>1, FS_CardinalityType
  <2>3. CASE u = t
    <3>1. c \in peers[u] \/ Cardinality(peers[u]) < MaxPeers
      BY <1>1, <2>2, <2>3, MaxPeersAssumption DEF IsFull
    <3>2. peers'[u] = peers[u] \cup {c}
      BY <1>2, <2>3
    <3> QED BY <2>1, <3>1, <3>2, SeatArithmetic
  <2>4. CASE u # t
    <3>1. peers'[u] = peers[u] \ {c} \/ peers'[u] = peers[u]
      BY <1>2, <2>4
    <3> QED BY <2>1, <3>1, SeatArithmetic
  <2> QED BY <2>3, <2>4
<1> QED BY <1>4, <1>5, <1>6 DEF RoomInv

LEMMA InsertFullKeepsRooms ==
  ASSUME RoomInv, Typed', NEW c \in Conn, InsertFull(c)
  PROVE  RoomInv'
<1>1. req[c] \in Team /\ IsFull(c, req[c])
  BY DEF InsertFull, Goto, RoomInv, Typed, Busy
<1>2. req[c] \in rooms
  BY <1>1, FullRoomExists
<1> QED BY <1>2, RoomsUnchanged DEF InsertFull, roomVars

LEMMA StepRoomInv == RoomInv /\ [Next]_vars => RoomInv'
<1> SUFFICES ASSUME RoomInv, [Next]_vars PROVE RoomInv'
  OBVIOUS
<1>1. Typed /\ Typed'
  BY StepTyped DEF RoomInv
<1> QED BY <1>1, RoomSteps, RoomsUnchanged, LeaveKeepsRooms, CloseKeepsRooms,
           InsertKeepsRooms, InsertFullKeepsRooms

LEMMA RoomInvHolds == Spec => []RoomInv
  BY InitRoomInv, StepRoomInv, PTL DEF Spec

\* A connection is in the room its roomCode names and in no other (hub.go join,
\* leave, closeRoom): joining another room migrates it.
THEOREM ConnectionInOneRoom == Spec => []MembershipAgrees
  BY RoomInvHolds, PTL DEF RoomInv

\* h.rooms has an entry for a team exactly while the room has peers.
THEOREM NoEmptyRooms == Spec => []RoomsAreOccupied
  BY RoomInvHolds, PTL DEF RoomInv

\* No room exceeds maxPeers, for every number of connections and every maxPeers.
THEOREM RoomsAreCapped == Spec => []RoomCap
<1>1. RoomInv => RoomCap
  BY DEF RoomInv, SeatsInv, RoomCap
<1> QED BY <1>1, RoomInvHolds, PTL

-----------------------------------------------------------------------------
(* Deletion and expiry against joins *)

\* Holding a gate is exclusive: the gate names its one holder.
GateInv ==
    /\ \A c \in Conn : handler[c] \in JoinHoldsGate => teamGates[req[c]] = c
    /\ \A d \in Deleter : deleter[d] \in DeleteHoldsGate => teamGates[target[d]] = d

\* A join about to insert has just touched its team, and no deletion can have
\* removed it since, because the join holds the gate.
TouchedInv == \A c \in Conn : handler[c] = "inserting" => store[req[c]] = "live"

\* During an expiry pass, an occupied room of an idle team is still to be touched;
\* teams already expired are gone and have no room.
ExpiryInv ==
    /\ expPc = "touch" => \A t \in rooms : store[t] = "idle" => t \in expCodes
    /\ expPc \in {"close", "tell"} => \A t \in expCodes : store[t] = "gone" /\ t \notin rooms
    /\ told[Expirer] = {}

LifecycleInv == GateInv /\ TouchedInv /\ ExpiryInv /\ DeletedTeamHasNoRoom

LEMMA InitLifecycle == Init => LifecycleInv
  BY DEF Init, LifecycleInv, GateInv, TouchedInv, ExpiryInv, DeletedTeamHasNoRoom,
     JoinHoldsGate, DeleteHoldsGate

\* Steps of a connection other than Insert add no room; Insert adds a live team's.
LEMMA ConnLifecycle ==
  ASSUME RoomInv, LifecycleInv, NEW c \in Conn, ConnNext(c)
  PROVE  LifecycleInv'
<1> USE NamesAssumption DEF RoomInv, Typed, TypeOK, Busy, LifecycleInv, GateInv,
        TouchedInv, ExpiryInv, DeletedTeamHasNoRoom, JoinHoldsGate, DeleteHoldsGate,
        connVars, roomVars, others, deleteVars, hbVars, expVars, Goto
<1>1. CASE Connect(c)         BY <1>1 DEF Connect
<1>2. CASE Pong(c)            BY <1>2 DEF Pong
<1>3. CASE RejectJoin(c)      BY <1>3 DEF RejectJoin
<1>4. ASSUME NEW t \in Team, RecvJoin(c, t) PROVE LifecycleInv'
  BY <1>4 DEF RecvJoin
<1>5. CASE LockTeam(c)        BY <1>5 DEF LockTeam
<1>6. CASE GetTeam(c)         BY <1>6 DEF GetTeam
<1>7. CASE GetTeamFails(c)    BY <1>7 DEF GetTeamFails
<1>8. CASE TouchTeam(c)       BY <1>8 DEF TouchTeam, Has
<1>9. CASE TouchTeamFails(c)  BY <1>9 DEF TouchTeamFails, MayTouch, Has
<1>10. CASE InsertFull(c)
  <2>1. req[c] \in rooms
    BY <1>10, FullRoomExists DEF InsertFull
  <2> QED BY <1>10, <2>1 DEF InsertFull
<1>11. CASE Insert(c)
  <2>1. req[c] \in Team /\ store[req[c]] = "live"
    BY <1>11 DEF Insert
  <2>2. \A t \in Team : t \in rooms' => t \in rooms \/ t = req[c]
    BY <1>11 DEF Insert
  <2> QED BY <1>11, <2>1, <2>2 DEF Insert
<1>12. CASE UnlockTeam(c)     BY <1>12 DEF UnlockTeam
<1>13. CASE ReadFails(c)      BY <1>13 DEF ReadFails
<1>14. CASE RateLimited(c)    BY <1>14 DEF RateLimited
<1>15. CASE Leave(c)          BY <1>15 DEF Leave, LeaveRoom
<1>16. CASE Forget(c)         BY <1>16 DEF Forget
<1>17. CASE CloseConn(c)      BY <1>17 DEF CloseConn
<1>18. CASE WriterCloses(c)   BY <1>18 DEF WriterCloses
<1> QED BY <1>1, <1>2, <1>3, <1>4, <1>5, <1>6, <1>7, <1>8, <1>9, <1>10, <1>11,
           <1>12, <1>13, <1>14, <1>15, <1>16, <1>17, <1>18 DEF ConnNext

\* A deletion removes a team from the store only while it holds the gate, so with
\* no join past its touch.
LEMMA DeleteLifecycle ==
  ASSUME RoomInv, LifecycleInv, NEW d \in Deleter, DeleteNext(d)
  PROVE  LifecycleInv'
<1> USE NamesAssumption DEF RoomInv, Typed, TypeOK, Busy, LifecycleInv, GateInv,
        TouchedInv, ExpiryInv, DeletedTeamHasNoRoom, JoinHoldsGate, DeleteHoldsGate,
        connVars, roomVars, others, deleteVars, hbVars, expVars, GotoD, DeleterState
<1>1. ASSUME NEW t \in Team, StartDelete(d, t) PROVE LifecycleInv'
  BY <1>1 DEF StartDelete
<1>2. CASE LockForDelete(d)     BY <1>2 DEF LockForDelete
<1>3. CASE DeleteStored(d)      BY <1>3 DEF DeleteStored
<1>4. CASE DeleteRefused(d)     BY <1>4 DEF DeleteRefused
<1>5. CASE CloseDeletedRoom(d)  BY <1>5 DEF CloseDeletedRoom, CloseRoom
<1>6. CASE TellDeleted(d)       BY <1>6 DEF TellDeleted
<1>7. CASE UnlockAfterDelete(d) BY <1>7 DEF UnlockAfterDelete
<1>8. CASE DeleteLost(d)        BY <1>8 DEF DeleteLost, Has
<1> QED BY <1>1, <1>2, <1>3, <1>4, <1>5, <1>6, <1>7, <1>8 DEF DeleteNext

LEMMA TimerLifecycle ==
  ASSUME RoomInv, LifecycleInv, HeartbeatNext \/ ExpiryNext
  PROVE  LifecycleInv'
<1> USE NamesAssumption DEF RoomInv, Typed, TypeOK, Busy, LifecycleInv, GateInv,
        TouchedInv, ExpiryInv, DeletedTeamHasNoRoom, JoinHoldsGate, DeleteHoldsGate,
        connVars, roomVars, others, deleteVars, hbVars, expVars
<1>1. CASE HeartbeatScan         BY <1>1 DEF HeartbeatScan
<1>2. ASSUME NEW c \in Conn, HeartbeatLeave(c) PROVE LifecycleInv'
  BY <1>2 DEF HeartbeatLeave, LeaveRoom
<1>3. CASE HeartbeatForget       BY <1>3 DEF HeartbeatForget
<1>4. CASE HeartbeatClose        BY <1>4 DEF HeartbeatClose
<1>5. CASE ExpirySnapshot        BY <1>5 DEF ExpirySnapshot
<1>6. ASSUME NEW t \in Team, ExpiryTouch(t) PROVE LifecycleInv'
  BY <1>6 DEF ExpiryTouch
<1>7. ASSUME NEW t \in Team, ExpiryTouchFails(t) PROVE LifecycleInv'
  BY <1>7 DEF ExpiryTouchFails, MayTouch, Has
<1>8. CASE ExpireStored          BY <1>8 DEF ExpireStored, Expired
<1>9. CASE ExpireStoredFails     BY <1>9 DEF ExpireStoredFails, Expired
<1>10. ASSUME NEW t \in Team, CloseExpiredRoom(t) PROVE LifecycleInv'
  BY <1>10 DEF CloseExpiredRoom, CloseRoom, PeersOf
<1>11. CASE TellExpired          BY <1>11 DEF TellExpired
<1>12. ASSUME NEW t \in Team, GrowIdle(t) PROVE LifecycleInv'
  BY <1>12 DEF GrowIdle
<1> QED BY <1>1, <1>2, <1>3, <1>4, <1>5, <1>6, <1>7, <1>8, <1>9, <1>10, <1>11,
           <1>12 DEF HeartbeatNext, ExpiryNext

LEMMA LifecycleHolds == Spec => [](RoomInv /\ LifecycleInv)
<1>1. RoomInv /\ LifecycleInv /\ [Next]_vars => LifecycleInv'
  <2> SUFFICES ASSUME RoomInv, LifecycleInv, [Next]_vars PROVE LifecycleInv'
    OBVIOUS
  <2>1. CASE UNCHANGED vars
    BY <2>1 DEF LifecycleInv, GateInv, TouchedInv, ExpiryInv, DeletedTeamHasNoRoom,
       vars, connVars, roomVars, others, deleteVars, expVars
  <2> QED BY <2>1, ConnLifecycle, DeleteLifecycle, TimerLifecycle DEF Next
<1> QED BY <1>1, InitRoomInv, InitLifecycle, StepRoomInv, PTL DEF Spec

\* Once a deletion whose store call succeeded has closed the room of its team, or an
\* expiry has removed the team, the team has no room (DeleteTeam, join, lockTeam,
\* expireInactiveTeams); what a store call that reported an error removed is "lost".
THEOREM DeletionIsFinal == Spec => []DeletedTeamHasNoRoom
  BY LifecycleHolds, PTL DEF LifecycleInv

\* The expiry pass closes no room anybody sits in (expireInactiveTeams, closeRoom).
THEOREM ExpirySparesPeers == Spec => []ExpiryFindsNoPeers
<1>1. LifecycleInv => ExpiryFindsNoPeers
  BY DEF LifecycleInv, ExpiryInv, ExpiryFindsNoPeers
<1> QED BY <1>1, LifecycleHolds, PTL

\* A step that adds a peer to a room finds the team live in the store.
THEOREM JoinsAreLive == Spec => JoinsOnlyLiveTeams
<1>1. ASSUME RoomInv, LifecycleInv, [Next]_vars
      PROVE  [\A t \in Team : peers'[t] \subseteq peers[t] \/ store[t] = "live"]_vars
  <2> SUFFICES ASSUME NEW t \in Team, ~(peers'[t] \subseteq peers[t])
               PROVE  store[t] = "live"
    OBVIOUS
  <2>1. ~UNCHANGED roomVars
    BY DEF roomVars
  <2>2. ~\E c \in Conn : LeaveRoom(c)
    BY <1>1 DEF LeaveRoom, RoomInv, Typed, TypeOK, roomVars
  <2>3. ~\E u \in Team, who \in Deleter \cup {Expirer} : CloseRoom(u, who)
    BY <1>1 DEF CloseRoom, RoomInv, Typed, TypeOK
  <2>4. ~\E c \in Conn : InsertFull(c)
    BY DEF InsertFull
  <2>5. PICK c \in Conn : Insert(c)
    BY <1>1, <2>1, <2>2, <2>3, <2>4, RoomSteps DEF RoomInv
  <2>6. t = req[c]
    <3>1. t \in rooms => PeersOf(t) = peers[t]
      BY DEF PeersOf
    <3> QED BY <1>1, <2>5 DEF Insert, RoomInv, Typed, TypeOK
  <2> QED BY <1>1, <2>5, <2>6 DEF Insert, Goto, LifecycleInv, TouchedInv
<1> QED BY <1>1, LifecycleHolds, PTL DEF Spec, JoinsOnlyLiveTeams

-----------------------------------------------------------------------------
(* The hub implements the abstract membership of module Membership. *)

\* The abstract members of a room are its peers.
LEMMA MembersArePeers ==
  ASSUME RoomInv, NEW t \in Team
  PROVE  Rooms!Members(t) = peers[t]
  BY DEF RoomInv, MembershipAgrees, Typed, TypeOK, Rooms!Members

LEMMA MembershipStep ==
  ASSUME RoomInv, [Next]_vars
  PROVE  [Rooms!Next]_roomCode
<1>1. CASE UNCHANGED roomVars
  BY <1>1 DEF roomVars
<1>2. ASSUME NEW c \in Conn, LeaveRoom(c)
      PROVE  [Rooms!Next]_roomCode
  <2>1. CASE UNCHANGED roomVars
    BY <2>1 DEF roomVars
  <2>2. CASE ~UNCHANGED roomVars
    BY <1>2, <2>2 DEF LeaveRoom, Rooms!Next, Rooms!Exit
  <2> QED BY <2>1, <2>2
<1>3. ASSUME NEW t \in Team, NEW who, CloseRoom(t, who)
      PROVE  [Rooms!Next]_roomCode
  <2>1. PeersOf(t) = peers[t]
    BY DEF PeersOf, RoomInv, RoomsAreOccupied
  <2>2. roomCode' = [c \in Conn |-> IF roomCode[c] = t THEN NoTeam ELSE roomCode[c]]
    BY <1>3, <2>1 DEF CloseRoom, RoomInv, MembershipAgrees
  <2>3. CASE peers[t] = {}
    <3>1. roomCode' = roomCode
      BY <2>2, <2>3 DEF RoomInv, MembershipAgrees, Typed, TypeOK
    <3> QED BY <3>1
  <2>4. CASE peers[t] # {}
    BY <2>2, <2>4, MembersArePeers DEF Rooms!Next, Rooms!Empty
  <2> QED BY <2>3, <2>4
<1>4. ASSUME NEW c \in Conn, Insert(c)
      PROVE  [Rooms!Next]_roomCode
  <2> DEFINE t == req[c]
  <2>1. /\ t \in Team /\ ~IsFull(c, t) /\ PeersOf(t) = peers[t]
        /\ roomCode' = [roomCode EXCEPT ![c] = t]
    BY <1>4 DEF Insert, Goto, RoomInv, Typed, Busy, PeersOf, RoomsAreOccupied
  <2> HIDE DEF t
  <2>2. CASE roomCode[c] = t
    BY <2>1, <2>2 DEF RoomInv, Typed, TypeOK
  <2>3. CASE roomCode[c] # t
    <3>1. c \notin peers[t]
      BY <2>1, <2>3 DEF RoomInv, MembershipAgrees
    <3>2. Cardinality(peers[t]) \in Nat
      BY <2>1, FS_CardinalityType DEF RoomInv, SeatsInv
    <3>3. Cardinality(Rooms!Members(t)) < MaxPeers
      BY <2>1, <3>1, <3>2, MembersArePeers, MaxPeersAssumption DEF IsFull
    <3>4. Rooms!Cardinality(Rooms!Members(t)) = Cardinality(Rooms!Members(t))
      BY DEF Cardinality, Rooms!Cardinality
    <3>5. Rooms!Enter(c, t)
      BY <2>1, <2>3, <3>3, <3>4 DEF Rooms!Enter
    <3> QED BY <2>1, <3>5 DEF Rooms!Next
  <2> QED BY <2>2, <2>3
<1>5. ASSUME NEW c \in Conn, InsertFull(c)
      PROVE  [Rooms!Next]_roomCode
  BY <1>5 DEF InsertFull
<1> QED BY <1>1, <1>2, <1>3, <1>4, <1>5, RoomSteps DEF RoomInv

\* Every behaviour of the hub is, seen through roomCode, a behaviour of the
\* abstract membership.
THEOREM HubImplementsMembership == Spec => ImplementsMembership
<1>1. Init => Rooms!Init
  BY DEF Init, Rooms!Init
<1> QED BY <1>1, RoomInvHolds, MembershipStep, PTL
        DEF Spec, ImplementsMembership, Rooms!Spec

-----------------------------------------------------------------------------
(* The deferred leave: once it has run, the room has forgotten the connection.     *)

\* The roomCode of a connection is set by its own Insert alone.
LEMMA RoomCodeIsOwn ==
  ASSUME Typed, [Next]_vars, NEW c \in Conn
  PROVE  roomCode'[c] \in {roomCode[c], NoTeam} \/ Insert(c)
<1>1. CASE UNCHANGED roomVars
  BY <1>1 DEF roomVars
<1>2. ASSUME NEW d \in Conn, LeaveRoom(d) PROVE roomCode'[c] \in {roomCode[c], NoTeam}
  BY <1>2 DEF LeaveRoom, roomVars, Typed, TypeOK
<1>3. ASSUME NEW t \in Team, NEW who, CloseRoom(t, who) PROVE roomCode'[c] \in {roomCode[c], NoTeam}
  BY <1>3 DEF CloseRoom
<1>4. ASSUME NEW d \in Conn, Insert(d) \/ InsertFull(d)
      PROVE  roomCode'[c] \in {roomCode[c], NoTeam} \/ Insert(c)
  BY <1>4 DEF Insert, InsertFull, Typed, TypeOK
<1> QED BY <1>1, <1>2, <1>3, <1>4, RoomSteps

\* A handler stands before Forget after its own Leave alone, registered before if still.
LEMMA ForgetsAfterLeave ==
  ASSUME Typed, [Next]_vars, NEW c \in Conn, handler'[c] = "forgetting", c \in conns'
  PROVE  c \in conns /\ (handler[c] = "forgetting" \/ Leave(c))
<1>1. CASE UNCHANGED <<handler, conns>>
  BY <1>1
<1>2. ASSUME NEW d \in Conn, ConnNext(d), ~UNCHANGED <<handler, conns>>
      PROVE  c \in conns /\ (handler[c] = "forgetting" \/ Leave(c))
  <2> USE DEF Typed, TypeOK, Goto
  <2>1. CASE Connect(d)  BY <2>1 DEF Connect
  <2>2. CASE Leave(d)    BY <2>2 DEF Leave
  <2>3. CASE Forget(d)   BY <2>3 DEF Forget
  <2>4. CASE CloseConn(d) \/ ReadFails(d) \/ RateLimited(d) \/ UnlockTeam(d)
    BY <2>4 DEF CloseConn, ReadFails, RateLimited, UnlockTeam
  <2>5. CASE \E t \in Team : RecvJoin(d, t)
    BY <2>5 DEF RecvJoin
  <2>6. CASE LockTeam(d) \/ GetTeam(d) \/ GetTeamFails(d) \/ TouchTeam(d) \/ TouchTeamFails(d)
    BY <2>6 DEF LockTeam, GetTeam, GetTeamFails, TouchTeam, TouchTeamFails
  <2>7. CASE InsertFull(d) \/ Insert(d)
    BY <2>7 DEF InsertFull, Insert
  <2> QED BY <1>2, <2>1, <2>2, <2>3, <2>4, <2>5, <2>6, <2>7
          DEF ConnNext, Pong, RejectJoin, WriterCloses
<1>3. CASE \E d \in Deleter : DeleteNext(d)
  <2>1. UNCHANGED <<handler, conns>>
    BY <1>3 DEF DeleteNext, StartDelete, LockForDelete, DeleteStored, DeleteLost, DeleteRefused, CloseDeletedRoom,
       TellDeleted, UnlockAfterDelete, connVars
  <2> QED BY <2>1
<1>4. CASE HeartbeatNext
  <2>1. handler' = handler /\ conns' \subseteq conns
    BY <1>4 DEF HeartbeatNext, HeartbeatScan, HeartbeatLeave, HeartbeatForget, HeartbeatClose, connVars
  <2> QED BY <2>1
<1>5. CASE ExpiryNext
  <2>1. UNCHANGED <<handler, conns>>
    BY <1>5 DEF ExpiryNext, ExpirySnapshot, ExpiryTouch, ExpiryTouchFails, ExpireStored, ExpireStoredFails,
       CloseExpiredRoom, TellExpired, GrowIdle, connVars
  <2> QED BY <2>1
<1>6. CASE UNCHANGED vars
  BY <1>6 DEF vars, connVars
<1> QED BY <1>1, <1>2, <1>3, <1>4, <1>5, <1>6 DEF Next

LEMMA StepLeave == Typed /\ LeaveIsComplete /\ [Next]_vars => LeaveIsComplete'
<1> SUFFICES ASSUME Typed, LeaveIsComplete, [Next]_vars, NEW c \in Conn,
                    handler'[c] = "forgetting", c \in conns'
             PROVE  roomCode'[c] = NoTeam
  BY DEF LeaveIsComplete
<1>1. c \in conns /\ (handler[c] = "forgetting" \/ Leave(c))
  BY ForgetsAfterLeave
<1>2. CASE Leave(c)
  BY <1>1, <1>2 DEF Leave, LeaveRoom, roomVars, Typed, TypeOK
<1>3. CASE handler[c] = "forgetting"
  <2>1. roomCode[c] = NoTeam
    BY <1>1, <1>3 DEF LeaveIsComplete
  <2>2. ~Insert(c)
    BY <1>3 DEF Insert, Goto
  <2> QED BY <2>1, <2>2, RoomCodeIsOwn
<1> QED BY <1>1, <1>2, <1>3

\* A connection that its own handler still finds registered after the deferred leave is in
\* no room from then on, whatever heartbeats, deletions, expiries and other connections did
\* meanwhile (hub.go, HandleWebSocket, leave).
THEOREM LeavesAreComplete == Spec => []LeaveIsComplete
<1>1. Init => LeaveIsComplete
  BY DEF Init, LeaveIsComplete
<1> QED BY <1>1, InitTyped, StepTyped, StepLeave, PTL DEF Spec

=============================================================================
