------------------------------ MODULE RoomFanout ------------------------------
(***************************************************************************)
(* Who is told what (server/hub.go): every membership change or message    *)
(* collects its recipients in one section under RoomHub.mu and sends after *)
(* the unlock, one non-blocking enqueue per recipient, while other         *)
(* goroutines do the same.  Each connection has a bounded outbound queue   *)
(* and one writer.                                                         *)
(*                                                                         *)
(* Gates, store and room cap are module RoomHub's; here a join that enters *)
(* a room is one step.  What a client has been told is kept as its last    *)
(* roster and the last activity batch it got of each peer: that is what    *)
(* the CLI keeps of these frames (cli/session.go).                         *)
(***************************************************************************)
EXTENDS Naturals, Sequences, FiniteSets

CONSTANTS
    Conn,       \* connections
    Team,
    Heartbeat,  \* the goroutine of heartbeatLoop
    Closer,     \* a goroutine that calls closeRoom
    NoTeam, Nobody,
    MaxQueue,   \* webSocketOutboundBuffer
    MaxBatches  \* bound: activity batches each client sends

ASSUME FanoutAssumption ==
    /\ MaxQueue \in Nat \ {0} /\ MaxBatches \in Nat
    /\ NoTeam \notin Team /\ Nobody \notin Conn
    /\ Heartbeat \notin Conn /\ Closer \notin Conn /\ Heartbeat # Closer

VARIABLES
    conns,      \* keys of RoomHub.conns
    roomCode,   \* clientConn.roomCode; the peers of a room are those that name it
    out,        \* clientConn.outbound
    done,       \* clientConn.done
    handler,    \* HandleWebSocket: reading frames, leaving, or gone
    evicting,   \* the stale connection heartbeatTick is at
    todo,       \* the sends each goroutine still has to make, in order
    batches,    \* activity batches each client has sent
    roster,     \* client: the peers of the last presence frame
    heard       \* client: the last batch it got of each peer

vars == <<conns, roomCode, out, done, handler, evicting, todo, batches, roster, heard>>

Goroutine == Conn \cup {Heartbeat, Closer}

\* A "notice" is a frame that changes nothing of what is kept here: the welcome,
\* a reaction, a ping.
Frame == [kind : {"presence", "activity", "notice", "closing"},
          who : SUBSET Conn, n : 0 .. MaxBatches]
Send  == [to : SUBSET Conn, frame : Frame]

TypeOK ==
    /\ conns \in SUBSET Conn
    /\ roomCode \in [Conn -> Team \cup {NoTeam}]
    /\ \A c \in Conn : out[c] \in Seq(Frame) /\ Len(out[c]) <= MaxQueue
    /\ done \in [Conn -> BOOLEAN]
    /\ handler \in [Conn -> {"reading", "leaving", "gone"}]
    /\ evicting \in Conn \cup {Nobody}
    /\ \A g \in Goroutine : todo[g] \in Seq(Send)
    /\ batches \in [Conn -> 0 .. MaxBatches]
    /\ roster \in [Conn -> SUBSET Conn]
    /\ heard \in [Conn -> [Conn -> 0 .. MaxBatches]]

Init ==
    /\ conns = Conn
    /\ roomCode = [c \in Conn |-> NoTeam]
    /\ out = [c \in Conn |-> <<>>]
    /\ done = [c \in Conn |-> FALSE]
    /\ handler = [c \in Conn |-> "reading"]
    /\ evicting = Nobody
    /\ todo = [g \in Goroutine |-> <<>>]
    /\ batches = [c \in Conn |-> 0]
    /\ roster = [c \in Conn |-> {}]
    /\ heard = [c \in Conn |-> [d \in Conn |-> 0]]

-----------------------------------------------------------------------------
(* Sections under RoomHub.mu: each returns with the sends it has collected. *)

PeersOf(t) == {c \in Conn : roomCode[c] = t /\ t # NoTeam}

Plain(k)     == [kind |-> k, who |-> {}, n |-> 0]
Presence(S)  == [kind |-> "presence", who |-> S, n |-> 0]
Batch(c, n)  == [kind |-> "activity", who |-> {c}, n |-> n]

\* sendToPeers does nothing for a nil payload, or with nobody to tell.
SendTo(S, frame) == IF S = {} THEN <<>> ELSE <<[to |-> S, frame |-> frame]>>

\* The goroutine has finished its previous fan-out.
Idle(g) == todo[g] = <<>>

Handles(c) == handler[c] = "reading" /\ Idle(c)

\* join: leave the previous room, enter the new one; then tell the old room, the
\* connection itself and the new room.
Join(c, t) ==
    /\ Handles(c)
    /\ LET prev == IF roomCode[c] = t THEN {} ELSE PeersOf(roomCode[c]) \ {c}
           now  == PeersOf(t) \cup {c}
       IN  todo' = [todo EXCEPT ![c] =
                      SendTo(prev, Presence(prev)) \o SendTo({c}, Plain("notice"))
                        \o SendTo(now, Presence(now))]
    /\ roomCode' = [roomCode EXCEPT ![c] = t]
    /\ UNCHANGED <<conns, out, done, handler, evicting, batches, roster, heard>>

\* updatePeerProfile: the room gets a new roster.
Profile(c) ==
    /\ Handles(c)
    /\ c \in conns /\ roomCode[c] # NoTeam
    /\ todo' = [todo EXCEPT ![c] = SendTo(PeersOf(roomCode[c]), Presence(PeersOf(roomCode[c])))]
    /\ UNCHANGED <<conns, roomCode, out, done, handler, evicting, batches, roster, heard>>

\* Mutant: the batch is fanned out on the side, so that a later one may overtake it.
ActivityAside(c, tag) ==
    /\ handler[c] = "reading" /\ batches[c] < MaxBatches
    /\ batches' = [batches EXCEPT ![c] = @ + 1]
    /\ c \in conns /\ roomCode[c] # NoTeam /\ tag \in {NoTeam, roomCode[c]}
    /\ todo' = [todo EXCEPT ![c] =
         SendTo(PeersOf(roomCode[c]) \ {c}, Batch(c, batches'[c])) \o @]
    /\ UNCHANGED <<conns, roomCode, out, done, handler, evicting, roster, heard>>

\* forwardActivity: a batch tagged with another team than the current one is
\* dropped; the others go to the rest of the room.
Activity(c, tag) ==
    /\ Handles(c) /\ batches[c] < MaxBatches
    /\ batches' = [batches EXCEPT ![c] = @ + 1]
    /\ LET heardBy == IF c \in conns /\ tag \in {NoTeam, roomCode[c]}
                      THEN PeersOf(roomCode[c]) \ {c} ELSE {}
       IN  todo' = [todo EXCEPT ![c] = SendTo(heardBy, Batch(c, batches'[c]))]
    /\ UNCHANGED <<conns, roomCode, out, done, handler, evicting, roster, heard>>

\* forwardReaction, for a reaction its rate window accepts: the sender is told too.
React(c) ==
    /\ Handles(c)
    /\ c \in conns /\ roomCode[c] # NoTeam
    /\ todo' = [todo EXCEPT ![c] = SendTo(PeersOf(roomCode[c]), Plain("notice"))]
    /\ UNCHANGED <<conns, roomCode, out, done, handler, evicting, batches, roster, heard>>

\* leave, run by goroutine g for connection c.
LeaveRoom(c, g) ==
    IF c \in conns /\ roomCode[c] # NoTeam
    THEN LET left == PeersOf(roomCode[c]) \ {c}
         IN  /\ todo' = [todo EXCEPT ![g] = SendTo(left, Presence(left))]
             /\ roomCode' = [roomCode EXCEPT ![c] = NoTeam]
    ELSE UNCHANGED <<todo, roomCode>>

\* The read loop ends (socket closed or client gone): the deferred leave.
Leave(c) ==
    /\ handler[c] = "reading" /\ Idle(c)
    /\ handler' = [handler EXCEPT ![c] = "leaving"]
    /\ LeaveRoom(c, c)
    /\ UNCHANGED <<conns, out, done, evicting, batches, roster, heard>>

\* close: done is closed, frames still queued are never written.
ShutDown(c) ==
    /\ done' = [done EXCEPT ![c] = TRUE]
    /\ out' = [out EXCEPT ![c] = <<>>]

\* The rest of that deferred function, after the leave has told the room.
End(c) ==
    /\ handler[c] = "leaving" /\ Idle(c)
    /\ handler' = [handler EXCEPT ![c] = "gone"]
    /\ conns' = conns \ {c}
    /\ ShutDown(c)
    /\ UNCHANGED <<roomCode, evicting, todo, batches, roster, heard>>

\* heartbeatTick on a connection that missed its pong: leave, then forget and close.
Evict(c) ==
    /\ evicting = Nobody /\ c \in conns /\ Idle(Heartbeat)
    /\ evicting' = c
    /\ LeaveRoom(c, Heartbeat)
    /\ UNCHANGED <<conns, out, done, handler, batches, roster, heard>>

EvictEnds ==
    /\ evicting # Nobody /\ Idle(Heartbeat)
    /\ conns' = conns \ {evicting}
    /\ ShutDown(evicting)
    /\ evicting' = Nobody
    /\ UNCHANGED <<roomCode, handler, todo, batches, roster, heard>>

\* heartbeatTick on the others: a ping, through the same queue.
PingAll ==
    /\ evicting = Nobody /\ conns # {} /\ Idle(Heartbeat)
    /\ todo' = [todo EXCEPT ![Heartbeat] = SendTo(conns, Plain("notice"))]
    /\ UNCHANGED <<conns, roomCode, out, done, handler, evicting, batches, roster, heard>>

\* closeRoom, for a deleted or expired team: every peer gets a closing frame.
CloseRoom(t) ==
    /\ Idle(Closer)
    /\ todo' = [todo EXCEPT ![Closer] = SendTo(PeersOf(t), Plain("closing"))]
    /\ roomCode' = [c \in Conn |-> IF c \in PeersOf(t) THEN NoTeam ELSE roomCode[c]]
    /\ UNCHANGED <<conns, out, done, handler, evicting, batches, roster, heard>>

-----------------------------------------------------------------------------
(* Sending, outside the lock. *)

\* The goroutine goes on with the rest of its recipients, in no fixed order.
Told(g, c) ==
    LET s == Head(todo[g])
    IN  todo' = [todo EXCEPT ![g] = IF s.to = {c} THEN Tail(@)
                                    ELSE <<[s EXCEPT !.to = @ \ {c}]>> \o Tail(@)]

\* Mutant: a failed send closes the sender too.
EnqueueClosesBoth(g, c) ==
    /\ todo[g] # <<>> /\ c \in Head(todo[g]).to
    /\ Told(g, c)
    /\ \/ done[c] /\ UNCHANGED <<out, done>>
       \/ /\ ~done[c] /\ Len(out[c]) < MaxQueue
          /\ out' = [out EXCEPT ![c] = Append(@, Head(todo[g]).frame)]
          /\ UNCHANGED done
       \/ /\ ~done[c] /\ Len(out[c]) = MaxQueue
          /\ done' = [d \in Conn |-> d \in {c, g} \/ done[d]]
          /\ out' = [d \in Conn |-> IF d \in {c, g} THEN <<>> ELSE out[d]]
    /\ UNCHANGED <<conns, roomCode, handler, evicting, batches, roster, heard>>

\* enqueue: never waits; a closed connection takes nothing, a full queue closes it.
Enqueue(g, c) ==
    /\ todo[g] # <<>> /\ c \in Head(todo[g]).to
    /\ Told(g, c)
    /\ \/ done[c] /\ UNCHANGED <<out, done>>
       \/ /\ ~done[c] /\ Len(out[c]) < MaxQueue
          /\ out' = [out EXCEPT ![c] = Append(@, Head(todo[g]).frame)]
          /\ UNCHANGED done
       \/ ~done[c] /\ Len(out[c]) = MaxQueue /\ ShutDown(c)
    /\ UNCHANGED <<conns, roomCode, handler, evicting, batches, roster, heard>>

\* What the client makes of a frame.  The CLI takes over the peers of any presence
\* frame, whatever its teamCode.
Receive(c, f) ==
    /\ roster' = IF f.kind = "presence" THEN [roster EXCEPT ![c] = f.who] ELSE roster
    /\ heard'  = [heard EXCEPT ![c] =
                    [d \in Conn |-> IF f.kind = "activity" /\ d \in f.who THEN f.n ELSE @[d]]]

\* Mutant: the closing frame does not close.
WriteKeepsOpen(c) ==
    /\ ~done[c] /\ out[c] # <<>>
    /\ Receive(c, Head(out[c]))
    /\ out' = [out EXCEPT ![c] = Tail(@)]
    /\ UNCHANGED <<conns, roomCode, done, handler, evicting, todo, batches>>

\* writeLoop: one frame to the socket; a closing frame ends the connection.
Write(c) ==
    /\ ~done[c] /\ out[c] # <<>>
    /\ Receive(c, Head(out[c]))
    /\ IF Head(out[c]).kind = "closing" THEN ShutDown(c)
       ELSE out' = [out EXCEPT ![c] = Tail(@)] /\ UNCHANGED done
    /\ UNCHANGED <<conns, roomCode, handler, evicting, todo, batches>>

\* The write fails or runs into its 5-second deadline.
WriteFails(c) ==
    /\ ~done[c] /\ out[c] # <<>>
    /\ ShutDown(c)
    /\ UNCHANGED <<conns, roomCode, handler, evicting, todo, batches, roster, heard>>

-----------------------------------------------------------------------------
ConnNext(c) ==
    \/ \E t \in Team : Join(c, t)
    \/ \E tag \in Team \cup {NoTeam} : Activity(c, tag)
    \/ Profile(c) \/ React(c) \/ Leave(c) \/ End(c)

RelayNext ==
    \/ \E c \in Conn : Evict(c)
    \/ EvictEnds \/ PingAll
    \/ \E t \in Team : CloseRoom(t)

SendNext(g) == \E c \in Conn : Enqueue(g, c)

WriterNext(c) == Write(c) \/ WriteFails(c)

Next ==
    \/ \E c \in Conn : ConnNext(c) \/ WriterNext(c)
    \/ RelayNext
    \/ \E g \in Goroutine : SendNext(g)

Spec == Init /\ [][Next]_vars

-----------------------------------------------------------------------------
\* The next frame to c is a batch of d, and it is written.
Hears(c, d) ==
    /\ out[c] # <<>> /\ Head(out[c]).kind = "activity" /\ d \in Head(out[c]).who
    /\ out'[c] = Tail(out[c]) /\ ~done'[c]

\* A peer's activity reaches each listener in the order it was sent, without
\* repetition, through migrations, evictions and room closings: a batch is always newer
\* than all that was heard of the peer before.
ActivityInOrder ==
    [][\A c, d \in Conn : IF Hears(c, d) THEN heard'[c][d] > heard[c][d]
                                         ELSE heard'[c][d] = heard[c][d]]_vars

\* "A full queue or 5-second write timeout closes only the slow connection": a
\* connection with nothing queued that is neither ending nor being evicted is not
\* closed by anybody's fan-out.
OnlySlowPeersAreClosed ==
    [][\A c \in Conn : out[c] = <<>> /\ handler[c] = "reading" /\ evicting # c
                         => done'[c] = done[c]]_vars

\* A closing frame on its way to c: still to be sent, or queued.
Closing(c) ==
    \/ \E i \in DOMAIN todo[Closer] : c \in todo[Closer][i].to
    \/ \E i \in DOMAIN out[c] : out[c][i].kind = "closing"

\* A peer of a deleted or expired room is disconnected: the notice on its way to it
\* is not lost unless its connection is closed, whatever else is queued, whatever
\* the peer joins meanwhile and even when the notice itself does not fit.
DeletedPeersAreClosed ==
    [][\A c \in Conn : Closing(c) => Closing(c)' \/ done'[c]]_vars

\* "Sending another valid join migrates that connection to the new room and emits
\* updated presence to both rooms"; "stale presence is bounded to roughly 20
\* seconds": once all sends are over and no peer is about to leave, every peer's
\* roster is its room.
\* NOT a property of the code: rosters are taken under the lock and sent after it,
\* so that an older roster can arrive last, and nothing sends another one.
PresenceSettles ==
    (\A g \in Goroutine : Idle(g)) /\ (\A c \in Conn : out[c] = <<>> /\ ~done[c])
      => \A c \in Conn : roomCode[c] # NoTeam => roster[c] = PeersOf(roomCode[c])
=============================================================================
