------------------------------- MODULE RoomHub -------------------------------
(***************************************************************************)
(* Room membership of the Cliks relay (server/hub.go, server/main.go):     *)
(* which WebSocket connection sits in which team room while connection     *)
(* handlers, team deletions, the heartbeat loop and the team expiry pass   *)
(* run concurrently.                                                       *)
(*                                                                         *)
(* A step is one critical section of RoomHub.mu, one call of the store,    *)
(* one acquisition or release of a team's lifecycle gate, or one event of  *)
(* the socket; between two steps every other process may run.  Frames are  *)
(* abstracted to the one fact membership depends on: whether a frame with  *)
(* closeAfter is queued ("closing") and whether the socket is closed.      *)
(* Who receives which frame, and in which order, is module RoomFanout.     *)
(***************************************************************************)
EXTENDS Naturals, FiniteSets

CONSTANTS
    Conn,       \* connections (clientConn); one value is one connection's life
    Team,       \* team codes of well-formed joins and deletions
    Deleter,    \* HTTP requests that run RoomHub.DeleteTeam
    Expirer,    \* the goroutine of teamExpiryLoop
    NoTeam,     \* roomCode ""
    Nobody,     \* an unlocked gate; "no connection"
    MaxPeers    \* RoomHub.maxPeers

ASSUME MaxPeersAssumption == MaxPeers \in Nat \ {0}
ASSUME NamesAssumption    == /\ NoTeam \notin Team
                             /\ Nobody \notin Conn \cup Deleter
                             /\ Conn \cap Deleter = {}
                             /\ Expirer \notin Deleter

VARIABLES
    conns,      \* keys of RoomHub.conns
    sock,       \* clientConn.done and the queued closeAfter frame
    alive,      \* clientConn.alive
    roomCode,   \* clientConn.roomCode
    handler,    \* where the goroutine of HandleWebSocket stands
    req,        \* the team its current join is about
    rooms,      \* keys of RoomHub.rooms
    peers,      \* room.peers of each room
    teamGates,  \* holder of each team's gate
    store,      \* what the team store holds for each code; a team is "gone" when its
                \* deletion or expiry said so, "lost" when the deletion that removed
                \* it reported an error
    deleter,    \* where each DeleteTeam request stands
    target,     \* the team it deletes
    told,       \* peers a closeRoom call has collected and still has to tell
    hbPc, hbStale, hbConn,      \* heartbeatTick: place, stale list, current conn
    expPc, expCodes             \* expireInactiveTeams: place, codes left to handle

connVars   == <<conns, sock, alive, handler, req>>
roomVars   == <<roomCode, rooms, peers>>
deleteVars == <<deleter, target>>
hbVars     == <<hbPc, hbStale, hbConn>>
expVars    == <<expPc, expCodes>>
others     == <<deleteVars, told, hbVars, expVars>>
vars == <<connVars, roomVars, teamGates, store, others>>

HandlerState == {"new", "reading", "locking", "loading", "touching", "inserting",
                 "unlocking", "leaving", "forgetting", "closing", "gone"}
DeleterState == {"idle", "locking", "deleting", "closing", "telling", "unlocking"}

\* Where a join or a deletion holds its team's gate.
JoinHoldsGate   == {"loading", "touching", "inserting", "unlocking"}
DeleteHoldsGate == {"deleting", "closing", "telling", "unlocking"}

TypeOK ==
    /\ conns \in SUBSET Conn
    /\ sock \in [Conn -> {"open", "closing", "closed"}]
    /\ alive \in [Conn -> BOOLEAN]
    /\ handler \in [Conn -> HandlerState]
    /\ req \in [Conn -> Team \cup {NoTeam}]
    /\ roomCode \in [Conn -> Team \cup {NoTeam}]
    /\ rooms \in SUBSET Team
    /\ peers \in [Team -> SUBSET Conn]
    /\ teamGates \in [Team -> Conn \cup Deleter \cup {Nobody}]
    /\ store \in [Team -> {"live", "idle", "gone", "lost"}]
    /\ deleter \in [Deleter -> DeleterState]
    /\ target \in [Deleter -> Team \cup {NoTeam}]
    /\ told \in [Deleter \cup {Expirer} -> SUBSET Conn]
    /\ hbPc \in {"wait", "leave", "forget", "close"}
    /\ hbStale \in SUBSET Conn
    /\ hbConn \in Conn \cup {Nobody}
    /\ expPc \in {"wait", "touch", "close", "tell"}
    /\ expCodes \in SUBSET Team

Init ==
    /\ conns = {}
    /\ sock = [c \in Conn |-> "open"]
    /\ alive = [c \in Conn |-> TRUE]
    /\ handler = [c \in Conn |-> "new"]
    /\ req = [c \in Conn |-> NoTeam]
    /\ roomCode = [c \in Conn |-> NoTeam]
    /\ rooms = {}
    /\ peers = [t \in Team |-> {}]
    /\ teamGates = [t \in Team |-> Nobody]
    /\ store = [t \in Team |-> "live"]
    /\ deleter = [d \in Deleter |-> "idle"]
    /\ target = [d \in Deleter |-> NoTeam]
    /\ told = [x \in Deleter \cup {Expirer} |-> {}]
    /\ hbPc = "wait" /\ hbStale = {} /\ hbConn = Nobody
    /\ expPc = "wait" /\ expCodes = {}

\* The store finds the team.
Has(t) == store[t] \in {"live", "idle"}

\* A store call that fails, its context cancelled or its answer lost, may have been
\* applied all the same.
MayTouch(t) ==
    \/ UNCHANGED store
    \/ Has(t) /\ store' = [store EXCEPT ![t] = "live"]

-----------------------------------------------------------------------------
(* Sections under RoomHub.mu that several operations share. *)

\* sendJSONAndClose to every connection of cs: the writer closes the socket
\* behind that frame.  A closed socket takes no frame.
SendClose(cs) ==
    sock' = [c \in Conn |-> IF c \in cs /\ sock[c] = "open" THEN "closing" ELSE sock[c]]

\* The peers of an existing room; a room that join has just made has none.
PeersOf(t) == IF t \in rooms THEN peers[t] ELSE {}

\* Mutant: the leaving connection keeps its roomCode.
LeaveRoomKeepsCode(c) ==
    IF c \in conns /\ roomCode[c] \in rooms
    THEN LET t == roomCode[c]
         IN  /\ peers' = [peers EXCEPT ![t] = @ \ {c}]
             /\ rooms' = IF peers[t] \ {c} = {} THEN rooms \ {t} ELSE rooms
             /\ UNCHANGED roomCode
    ELSE UNCHANGED roomVars

\* leave: looks the connection up in h.conns, takes it out of its room and
\* drops a room that becomes empty.  Without an entry in h.conns it does nothing.
LeaveRoom(c) ==
    IF c \in conns /\ roomCode[c] # NoTeam
    THEN LET t == roomCode[c]
         IN  /\ roomCode' = [roomCode EXCEPT ![c] = NoTeam]
             /\ IF t \in rooms
                THEN /\ peers' = [peers EXCEPT ![t] = @ \ {c}]
                     /\ rooms' = IF peers[t] \ {c} = {} THEN rooms \ {t} ELSE rooms
                ELSE UNCHANGED <<peers, rooms>>
    ELSE UNCHANGED roomVars

\* The locked part of closeRoom: forget the room and every peer's roomCode, and
\* keep the list of peers for the frames sent after the unlock.
CloseRoom(t, who) ==
    /\ told' = [told EXCEPT ![who] = PeersOf(t)]
    /\ roomCode' = [c \in Conn |-> IF c \in PeersOf(t) THEN NoTeam ELSE roomCode[c]]
    /\ peers' = IF t \in rooms THEN [peers EXCEPT ![t] = {}] ELSE peers
    /\ rooms' = rooms \ {t}

-----------------------------------------------------------------------------
(* HandleWebSocket, handleMessage and join. *)

Goto(c, from, to) ==
    /\ handler[c] = from
    /\ handler' = [handler EXCEPT ![c] = to]

\* The upgrade: a new clientConn is alive and registered in h.conns.
Connect(c) ==
    /\ Goto(c, "new", "reading")
    /\ conns' = conns \cup {c}
    /\ UNCHANGED <<sock, alive, req, roomVars, teamGates, store, others>>

\* The pong handler runs inside ReadMessage, so only while the handler reads.
Pong(c) ==
    /\ handler[c] = "reading" /\ sock[c] # "closed" /\ ~alive[c]
    /\ alive' = [alive EXCEPT ![c] = TRUE]
    /\ UNCHANGED <<conns, sock, handler, req, roomVars, teamGates, store, others>>

\* A join whose code is well formed and whose address is not blocked asks for
\* the team's gate.  A frame already buffered is still read after the close.
RecvJoin(c, t) ==
    /\ Goto(c, "reading", "locking")
    /\ req' = [req EXCEPT ![c] = t]
    /\ UNCHANGED <<conns, sock, alive, roomVars, teamGates, store, others>>

\* A join of a blocked address, or with an empty or overlong code, is answered
\* with a closing frame before any gate is taken.
RejectJoin(c) ==
    /\ handler[c] = "reading" /\ sock[c] = "open"
    /\ SendClose({c})
    /\ UNCHANGED <<conns, alive, handler, req, roomVars, teamGates, store, others>>

\* Mutant: join goes on without waiting for the gate.
LockTeamNoWait(c) ==
    /\ Goto(c, "locking", "loading")
    /\ teamGates' = [teamGates EXCEPT ![req[c]] = c]
    /\ UNCHANGED <<conns, sock, alive, req, roomVars, store, others>>

LockTeam(c) ==
    /\ Goto(c, "locking", "loading")
    /\ teamGates[req[c]] = Nobody
    /\ teamGates' = [teamGates EXCEPT ![req[c]] = c]
    /\ UNCHANGED <<conns, sock, alive, req, roomVars, store, others>>

\* GetTeamByCode.  A team idle for 48 hours is still found by the memory store
\* and no longer by Postgres, so for that one both outcomes are possible.
GetTeam(c) ==
    /\ Goto(c, "loading", "touching")
    /\ Has(req[c])
    /\ UNCHANGED <<conns, sock, alive, req, roomVars, teamGates, store, others>>

\* Mutant: the early return forgets the deferred unlock.
GetTeamFailsKeepsGate(c) ==
    /\ Goto(c, "loading", "reading")
    /\ SendClose({c})
    /\ UNCHANGED <<conns, alive, req, roomVars, teamGates, store, others>>

\* The store fails, or does not know the team: a closing frame and no join.
GetTeamFails(c) ==
    /\ Goto(c, "loading", "unlocking")
    /\ SendClose({c})
    /\ UNCHANGED <<conns, alive, req, roomVars, teamGates, store, others>>

\* TouchTeam restarts the 48 hours.
TouchTeam(c) ==
    /\ Goto(c, "touching", "inserting")
    /\ Has(req[c])
    /\ store' = [store EXCEPT ![req[c]] = "live"]
    /\ UNCHANGED <<conns, sock, alive, req, roomVars, teamGates, others>>

\* Mutant: the early return forgets the deferred unlock.
TouchTeamFailsKeepsGate(c) ==
    /\ Goto(c, "touching", "reading")
    /\ SendClose({c})
    /\ UNCHANGED <<conns, alive, req, roomVars, teamGates, store, others>>

\* A closing frame and no join, whether or not the store was touched.
TouchTeamFails(c) ==
    /\ Goto(c, "touching", "unlocking")
    /\ SendClose({c})
    /\ MayTouch(req[c])
    /\ UNCHANGED <<conns, alive, req, roomVars, teamGates, others>>

\* Mutant: off by one.
IsFullOffByOne(c, t) == Cardinality(PeersOf(t)) > MaxPeers /\ c \notin PeersOf(t)

IsFull(c, t) == Cardinality(PeersOf(t)) >= MaxPeers /\ c \notin PeersOf(t)

\* The locked section of join, room full: the peer keeps its previous room.
InsertFull(c) ==
    /\ Goto(c, "inserting", "unlocking")
    /\ IsFull(c, req[c])
    /\ rooms' = rooms \cup {req[c]}
    /\ SendClose({c})
    /\ UNCHANGED <<conns, alive, req, roomCode, peers, teamGates, store, others>>

\* Mutant: the previous room keeps the migrating peer.
InsertKeepsPrevious(c) ==
    LET t == req[c]
    IN  /\ Goto(c, "inserting", "unlocking")
        /\ ~IsFull(c, t)
        /\ peers' = [peers EXCEPT ![t] = PeersOf(t) \cup {c}]
        /\ rooms' = rooms \cup {t}
        /\ roomCode' = [roomCode EXCEPT ![c] = t]
        /\ UNCHANGED <<conns, sock, alive, req, teamGates, store, others>>

\* The locked section of join: leave the previous room, dropping it when it is
\* empty, and enter the new one.  It does not look at h.conns.
Insert(c) ==
    LET t    == req[c]
        prev == roomCode[c]
        left == {u \in rooms : u = prev /\ u # t}
    IN  /\ Goto(c, "inserting", "unlocking")
        /\ ~IsFull(c, t)
        /\ peers' = [u \in Team |-> IF u = t THEN PeersOf(t) \cup {c}
                                    ELSE IF u \in left THEN peers[u] \ {c}
                                    ELSE peers[u]]
        /\ rooms' = (rooms \ {u \in left : peers[u] \ {c} = {}}) \cup {t}
        /\ roomCode' = [roomCode EXCEPT ![c] = t]
        /\ UNCHANGED <<conns, sock, alive, req, teamGates, store, others>>

\* The deferred unlock of the gate: join returns and the handler reads again.
UnlockTeam(c) ==
    /\ Goto(c, "unlocking", "reading")
    /\ teamGates' = [teamGates EXCEPT ![req[c]] = Nobody]
    /\ req' = [req EXCEPT ![c] = NoTeam]
    /\ UNCHANGED <<conns, sock, alive, roomVars, store, others>>

\* ReadMessage returns an error: the client is gone or the socket is closed.
ReadFails(c) ==
    /\ Goto(c, "reading", "leaving")
    /\ UNCHANGED <<conns, sock, alive, req, roomVars, teamGates, store, others>>

\* Too many frames in a second: a closing frame, a wait for the close, return.
RateLimited(c) ==
    /\ Goto(c, "reading", "leaving")
    /\ sock' = [sock EXCEPT ![c] = "closed"]
    /\ UNCHANGED <<conns, alive, req, roomVars, teamGates, store, others>>

\* The deferred function of HandleWebSocket: leave, delete from h.conns, close.
Leave(c) ==
    /\ Goto(c, "leaving", "forgetting")
    /\ LeaveRoom(c)
    /\ UNCHANGED <<conns, sock, alive, req, teamGates, store, others>>

Forget(c) ==
    /\ Goto(c, "forgetting", "closing")
    /\ conns' = conns \ {c}
    /\ UNCHANGED <<sock, alive, req, roomVars, teamGates, store, others>>

CloseConn(c) ==
    /\ Goto(c, "closing", "gone")
    /\ sock' = [sock EXCEPT ![c] = "closed"]
    /\ UNCHANGED <<conns, alive, req, roomVars, teamGates, store, others>>

\* writeLoop or enqueue closes the socket: a closing frame is written, a write
\* fails, or the outbound buffer is full.
WriterCloses(c) ==
    /\ handler[c] \notin {"new", "gone"} /\ sock[c] # "closed"
    /\ sock' = [sock EXCEPT ![c] = "closed"]
    /\ UNCHANGED <<conns, alive, handler, req, roomVars, teamGates, store, others>>

-----------------------------------------------------------------------------
(* RoomHub.DeleteTeam, called by the HTTP handler of DELETE /api/teams/. *)

GotoD(d, from, to) ==
    /\ deleter[d] = from
    /\ deleter' = [deleter EXCEPT ![d] = to]

StartDelete(d, t) ==
    /\ GotoD(d, "idle", "locking")
    /\ target' = [target EXCEPT ![d] = t]
    /\ UNCHANGED <<connVars, roomVars, teamGates, store, told, hbVars, expVars>>

\* Mutant: the deletion does not wait for joins of the team.
LockForDeleteNoWait(d) ==
    /\ GotoD(d, "locking", "deleting")
    /\ teamGates' = [teamGates EXCEPT ![target[d]] = d]
    /\ UNCHANGED <<connVars, roomVars, store, target, told, hbVars, expVars>>

LockForDelete(d) ==
    /\ GotoD(d, "locking", "deleting")
    /\ teamGates[target[d]] = Nobody
    /\ teamGates' = [teamGates EXCEPT ![target[d]] = d]
    /\ UNCHANGED <<connVars, roomVars, store, target, told, hbVars, expVars>>

DeleteStored(d) ==
    /\ GotoD(d, "deleting", "closing")
    /\ Has(target[d])
    /\ store' = [store EXCEPT ![target[d]] = "gone"]
    /\ UNCHANGED <<connVars, roomVars, teamGates, target, told, hbVars, expVars>>

\* The store removes the team and the call reports an error: the request's context
\* ended, or the answer got lost.  The deletion returns and closes no room.
DeleteLost(d) ==
    /\ GotoD(d, "deleting", "unlocking")
    /\ Has(target[d])
    /\ store' = [store EXCEPT ![target[d]] = "lost"]
    /\ UNCHANGED <<connVars, roomVars, teamGates, target, told, hbVars, expVars>>

\* Wrong password, unknown team or a store error that removed nothing.
DeleteRefused(d) ==
    /\ GotoD(d, "deleting", "unlocking")
    /\ UNCHANGED <<connVars, roomVars, teamGates, store, target, told, hbVars, expVars>>

CloseDeletedRoom(d) ==
    /\ GotoD(d, "closing", "telling")
    /\ CloseRoom(target[d], d)
    /\ UNCHANGED <<connVars, teamGates, store, target, hbVars, expVars>>

TellDeleted(d) ==
    /\ GotoD(d, "telling", "unlocking")
    /\ SendClose(told[d])
    /\ told' = [told EXCEPT ![d] = {}]
    /\ UNCHANGED <<conns, alive, handler, req, roomVars, teamGates, store, target,
                   hbVars, expVars>>

UnlockAfterDelete(d) ==
    /\ GotoD(d, "unlocking", "idle")
    /\ teamGates' = [teamGates EXCEPT ![target[d]] = Nobody]
    /\ target' = [target EXCEPT ![d] = NoTeam]
    /\ UNCHANGED <<connVars, roomVars, store, told, hbVars, expVars>>

-----------------------------------------------------------------------------
(* heartbeatTick. *)

\* Mutant: connections are not marked pending before the ping.
HeartbeatScanNoPending ==
    /\ hbPc = "wait"
    /\ hbStale' = {c \in conns : ~alive[c]}
    /\ hbPc' = IF hbStale' = {} THEN "wait" ELSE "leave"
    /\ UNCHANGED <<connVars, roomVars, teamGates, store, deleteVars, told, hbConn,
                   expVars>>

\* One locked pass: collect the connections that did not answer, mark the
\* others pending.  Their pings only matter for the pongs they provoke.
HeartbeatScan ==
    /\ hbPc = "wait"
    /\ hbStale' = {c \in conns : ~alive[c]}
    /\ alive' = [c \in Conn |-> IF c \in conns THEN FALSE ELSE alive[c]]
    /\ hbPc' = IF hbStale' = {} THEN "wait" ELSE "leave"
    /\ UNCHANGED <<conns, sock, handler, req, roomVars, teamGates, store, deleteVars,
                   told, hbConn, expVars>>

HeartbeatLeave(c) ==
    /\ hbPc = "leave" /\ c \in hbStale
    /\ LeaveRoom(c)
    /\ hbPc' = "forget" /\ hbConn' = c /\ hbStale' = hbStale \ {c}
    /\ UNCHANGED <<connVars, teamGates, store, deleteVars, told, expVars>>

HeartbeatForget ==
    /\ hbPc = "forget"
    /\ conns' = conns \ {hbConn}
    /\ hbPc' = "close"
    /\ UNCHANGED <<sock, alive, handler, req, roomVars, teamGates, store, deleteVars,
                   told, hbStale, hbConn, expVars>>

HeartbeatClose ==
    /\ hbPc = "close"
    /\ sock' = [sock EXCEPT ![hbConn] = "closed"]
    /\ hbPc' = IF hbStale = {} THEN "wait" ELSE "leave"
    /\ hbConn' = Nobody
    /\ UNCHANGED <<conns, alive, handler, req, roomVars, teamGates, store, deleteVars,
                   told, hbStale, expVars>>

-----------------------------------------------------------------------------
(* expireInactiveTeams, which takes no gate. *)

\* Mutant: the pass does not refresh occupied rooms.
ExpirySnapshotEmpty ==
    /\ expPc = "wait"
    /\ expPc' = "touch" /\ expCodes' = {}
    /\ UNCHANGED <<connVars, roomVars, teamGates, store, deleteVars, told, hbVars>>

\* ActiveTeamCodes: a snapshot of the occupied rooms.
ExpirySnapshot ==
    /\ expPc = "wait"
    /\ expPc' = "touch" /\ expCodes' = rooms
    /\ UNCHANGED <<connVars, roomVars, teamGates, store, deleteVars, told, hbVars>>

ExpiryTouch(t) ==
    /\ expPc = "touch" /\ t \in expCodes
    /\ Has(t)
    /\ store' = [store EXCEPT ![t] = "live"]
    /\ expCodes' = expCodes \ {t}
    /\ UNCHANGED <<connVars, roomVars, teamGates, deleteVars, told, hbVars, expPc>>

\* The first failing touch (store error, or a team deleted since the snapshot)
\* ends the whole pass.
ExpiryTouchFails(t) ==
    /\ expPc = "touch" /\ t \in expCodes
    /\ expPc' = "wait" /\ expCodes' = {}
    /\ MayTouch(t)
    /\ UNCHANGED <<connVars, roomVars, teamGates, deleteVars, told, hbVars>>

\* The store without its idle teams.
Expired == [t \in Team |-> IF store[t] = "idle" THEN "gone" ELSE store[t]]

ExpireStored ==
    /\ expPc = "touch" /\ expCodes = {}
    /\ LET expired == {t \in Team : store[t] = "idle"}
       IN  /\ store' = Expired
           /\ expCodes' = expired
           /\ expPc' = IF expired = {} THEN "wait" ELSE "close"
    /\ UNCHANGED <<connVars, roomVars, teamGates, deleteVars, told, hbVars>>

\* ExpireInactiveTeams fails after the touches, its statement applied or not.
ExpireStoredFails ==
    /\ expPc = "touch" /\ expCodes = {}
    /\ expPc' = "wait"
    /\ store' \in {store, Expired}
    /\ UNCHANGED <<connVars, roomVars, teamGates, deleteVars, told, hbVars, expCodes>>

CloseExpiredRoom(t) ==
    /\ expPc = "close" /\ t \in expCodes
    /\ CloseRoom(t, Expirer)
    /\ expCodes' = expCodes \ {t}
    /\ expPc' = "tell"
    /\ UNCHANGED <<connVars, teamGates, store, deleteVars, hbVars>>

TellExpired ==
    /\ expPc = "tell"
    /\ SendClose(told[Expirer])
    /\ told' = [told EXCEPT ![Expirer] = {}]
    /\ expPc' = IF expCodes = {} THEN "wait" ELSE "close"
    /\ UNCHANGED <<conns, alive, handler, req, roomVars, teamGates, store, deleteVars,
                   hbVars, expCodes>>

\* 48 hours pass since a team's last touch.  An expiry pass is cut off after 30
\* seconds and a join inserts right after its own touch, so neither spans them.
GrowIdle(t) ==
    /\ store[t] = "live"
    /\ expPc = "wait"
    /\ \A c \in Conn : ~(handler[c] = "inserting" /\ req[c] = t)
    /\ store' = [store EXCEPT ![t] = "idle"]
    /\ UNCHANGED <<connVars, roomVars, teamGates, others>>

-----------------------------------------------------------------------------
ConnNext(c) ==
    \/ Connect(c) \/ Pong(c) \/ RejectJoin(c)
    \/ \E t \in Team : RecvJoin(c, t)
    \/ LockTeam(c) \/ GetTeam(c) \/ GetTeamFails(c)
    \/ TouchTeam(c) \/ TouchTeamFails(c)
    \/ InsertFull(c) \/ Insert(c) \/ UnlockTeam(c)
    \/ ReadFails(c) \/ RateLimited(c)
    \/ Leave(c) \/ Forget(c) \/ CloseConn(c) \/ WriterCloses(c)

DeleteNext(d) ==
    \/ \E t \in Team : StartDelete(d, t)
    \/ LockForDelete(d) \/ DeleteStored(d) \/ DeleteLost(d) \/ DeleteRefused(d)
    \/ CloseDeletedRoom(d) \/ TellDeleted(d) \/ UnlockAfterDelete(d)

HeartbeatNext ==
    \/ HeartbeatScan
    \/ \E c \in Conn : HeartbeatLeave(c)
    \/ HeartbeatForget \/ HeartbeatClose

ExpiryNext ==
    \/ ExpirySnapshot
    \/ \E t \in Team : \/ ExpiryTouch(t) \/ ExpiryTouchFails(t)
                       \/ CloseExpiredRoom(t) \/ GrowIdle(t)
    \/ ExpireStored \/ ExpireStoredFails \/ TellExpired

Next ==
    \/ \E c \in Conn : ConnNext(c)
    \/ \E d \in Deleter : DeleteNext(d)
    \/ HeartbeatNext
    \/ ExpiryNext

Spec == Init /\ [][Next]_vars

\* What the Go runtime and the store grant: a handler, a deletion and a heartbeat
\* that started go on (store calls carry timeouts), a blocked gate is handed over
\* (sync.Mutex does not starve a waiter), a queued closing frame is written or its
\* 5-second deadline fails, and a read of a closed socket fails once the frames
\* buffered before the close are used up.  Clients owe nothing.
HandlerSteps(c) ==
    \/ GetTeam(c) \/ GetTeamFails(c) \/ TouchTeam(c) \/ TouchTeamFails(c)
    \/ InsertFull(c) \/ Insert(c) \/ UnlockTeam(c)
    \/ Leave(c) \/ Forget(c) \/ CloseConn(c)

DeleterSteps(d) ==
    \/ DeleteStored(d) \/ DeleteLost(d) \/ DeleteRefused(d)
    \/ CloseDeletedRoom(d) \/ TellDeleted(d) \/ UnlockAfterDelete(d)

HandlerFairness ==
    \A c \in Conn : /\ WF_vars(HandlerSteps(c))
                    /\ SF_vars(LockTeam(c))
                    /\ SF_vars(sock[c] = "closed" /\ ReadFails(c))
                    /\ WF_vars(sock[c] = "closing" /\ WriterCloses(c))

DeleterFairness ==
    \A d \in Deleter : WF_vars(DeleterSteps(d)) /\ SF_vars(LockForDelete(d))

Fairness == HandlerFairness /\ DeleterFairness /\ WF_vars(HeartbeatNext)

FairSpec == Spec /\ Fairness

-----------------------------------------------------------------------------
(* Safety *)

\* "One WebSocket connection can belong to only one room; joining another room
\* atomically migrates it": a connection sits in a room exactly when its roomCode
\* names that room, whatever joins, leaves, deletions, expiries and heartbeats do.
MembershipAgrees ==
    \A c \in Conn, t \in Team : c \in peers[t] <=> roomCode[c] = t

\* "Rooms exist only while at least one client is connected": RoomHub.rooms has
\* an entry for a code exactly while that room has peers.
RoomsAreOccupied ==
    \A t \in Team : t \in rooms <=> peers[t] # {}

\* No room ever holds more than maxPeers peers, rejoins and migrations included.
RoomCap ==
    \A t \in Team : Cardinality(peers[t]) <= MaxPeers

\* A team whose deletion or expiry the store reported keeps no live room, except until
\* that deletion reaches its closeRoom: no join that read the team before can bring
\* the room back, and no expired team had one.  A team that is "lost" is outside of
\* it: see DroppedTeamHasNoRoom.
DeletedTeamHasNoRoom ==
    \A t \in Team :
        (store[t] = "gone" /\ t \in rooms)
          => \E d \in Deleter : deleter[d] = "closing" /\ target[d] = t

\* "When a team is deleted successfully, the relay closes any live room for that
\* code": with no deletion of it under way, a team the store has no more has no room.
\* NOT a property of the code: when the store's call removes the team and then
\* reports an error, the deletion returns before closeRoom.  The room stays, a
\* repeated deletion finds no team, and every expiry pass stops at its touch.
DroppedTeamHasNoRoom ==
    \A t \in Team : ~Has(t) /\ t \in rooms => \E d \in Deleter : target[d] = t

\* The expiry pass refreshes occupied rooms before it expires idle teams: the
\* rooms it closes are empty, nobody is thrown out of a room in use.
ExpiryFindsNoPeers ==
    told[Expirer] = {} /\ (expPc \in {"close", "tell"} => expCodes \cap rooms = {})

\* The deferred leave is complete: a connection still registered when its own
\* handler reaches the end is in no room from then on.
LeaveIsComplete ==
    \A c \in Conn :
        handler[c] = "forgetting" /\ c \in conns => roomCode[c] = NoTeam

\* A room gains a peer only for a team the store has, even with a deletion or an
\* expiry of the same team running ("a join cannot publish stale team data after
\* deletion").
JoinsOnlyLiveTeams ==
    [][\A t \in Team : peers'[t] \subseteq peers[t] \/ store[t] = "live"]_vars

\* "A connection is removed if it has not answered by the next heartbeat, so
\* stale presence is bounded to roughly 20 seconds": a connection whose handler
\* has ended is in no room.  NOT a property of the code: the heartbeat can evict a
\* connection while its join waits, and the join then inserts a peer whose entry
\* in h.conns is gone, which no later leave finds.
NoGhostPeer ==
    \A c \in Conn, t \in Team : c \in peers[t] => handler[c] # "gone"

\* The hub implements the abstract room membership: seen from outside, each
\* locked section moves one connection into a room with a free seat, moves one
\* out, or empties one room.
Rooms == INSTANCE Membership WITH room <- roomCode

ImplementsMembership == Rooms!Spec

-----------------------------------------------------------------------------
(* Liveness *)

\* A handler whose socket was closed (slow peer, rejected join, deleted team,
\* missed heartbeat) ends, even if it was waiting for a gate or the store.
ClosedHandlerEnds ==
    \A c \in Conn : sock[c] # "open" ~> handler[c] = "gone"

\* A DeleteTeam request returns whatever joins compete for the team's gate.
DeleteReturns ==
    \A d \in Deleter : deleter[d] = "locking" ~> deleter[d] = "idle"

\* A connection that stays registered forever is asked for a sign of life, and gives
\* it, again and again: one that goes silent is evicted by the heartbeat.
SilentConnIsEvicted ==
    \A c \in Conn : <>[](c \in conns) => []<><<Pong(c)>>_vars
=============================================================================
