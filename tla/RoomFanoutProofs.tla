--------------------------- MODULE RoomFanoutProofs ---------------------------
(* Proofs about RoomFanout: who may be closed by a fan-out, that a closing      *)
(* frame is not lost, and that activity arrives in order.                       *)
EXTENDS RoomFanout, TLAPS

-----------------------------------------------------------------------------
(* The inductive invariants: the types, what closeRoom sends, and further down  *)
(* the order of the batches.                                                    *)

\* TypeOK, with the queues and the sends as functions.
TypeInv ==
    /\ TypeOK
    /\ out \in [Conn -> Seq(Frame)]
    /\ todo \in [Goroutine -> Seq(Send)]

\* closeRoom sends nothing but closing frames.
CloserInv == \A i \in DOMAIN todo[Closer] : todo[Closer][i].frame.kind = "closing"

-----------------------------------------------------------------------------
(* What the steps do to the queues and to the sends.                            *)

\* Every frame of q is of one of the kinds in K.
Carries(q, K) == \A i \in DOMAIN q : q[i].frame.kind \in K

\* A handler collects its sends: no batch among them, and only closeRoom's are closing.
Collects ==
    \E g \in Goroutine : \E q \in Seq(Send) :
        /\ Idle(g)
        /\ todo' = [todo EXCEPT ![g] = q]
        /\ Carries(q, IF g = Closer THEN {"closing"} ELSE {"presence", "notice"})
        /\ UNCHANGED <<out, done, batches, heard>>

\* A connection is closed, for one of the reasons there are outside a fan-out.
Closes ==
    \E c \in Conn :
        /\ out[c] # <<>> \/ handler[c] = "leaving" \/ evicting = c
        /\ ShutDown(c)
        /\ UNCHANGED <<todo, batches, heard>>

\* The frames of the handlers.
LEMMA FramesAreFrames ==
    /\ \A k \in {"notice", "closing"} : Plain(k) \in Frame
    /\ \A S \in SUBSET Conn : Presence(S) \in Frame
    /\ \A c \in Conn, n \in 0 .. MaxBatches : Batch(c, n) \in Frame
    /\ \A k : Plain(k).kind = k
    /\ \A S : Presence(S).kind = "presence"
    /\ \A c, n : Batch(c, n).kind = "activity" /\ Batch(c, n).who = {c} /\ Batch(c, n).n = n
<1>1. 0 \in 0 .. MaxBatches
  BY FanoutAssumption
<1> QED
  BY <1>1 DEF Plain, Presence, Batch, Frame

\* sendToPeers collects one send, or none.
LEMMA SendToFacts ==
    ASSUME NEW S \in SUBSET Conn, NEW f \in Frame
    PROVE  /\ SendTo(S, f) \in Seq(Send)
           /\ SendTo(S, f) # <<>> => Len(SendTo(S, f)) = 1
           /\ \A i \in DOMAIN SendTo(S, f) : i = 1 /\ SendTo(S, f)[i] = [to |-> S, frame |-> f]
<1>1. [to |-> S, frame |-> f] \in Send
  BY DEF Send
<1>2. CASE S = {}
  BY <1>2 DEF SendTo
<1>3. CASE S # {}
  <2>1. PICK x \in Send : x = [to |-> S, frame |-> f]
    BY <1>1
  <2>2. SendTo(S, f) = <<x>>
    BY <1>3, <2>1 DEF SendTo
  <2>3. <<x>> \in Seq(Send) /\ Len(<<x>>) = 1 /\ DOMAIN <<x>> = {1} /\ <<x>>[1] = x
    BY <2>1
  <2> QED
    BY <2>1, <2>2, <2>3
<1> QED
  BY <1>2, <1>3

LEMMA CarriesOne ==
    ASSUME NEW S \in SUBSET Conn, NEW f \in Frame, NEW K, f.kind \in K
    PROVE  Carries(SendTo(S, f), K)
BY SendToFacts DEF Carries

LEMMA CarriesBoth ==
    ASSUME NEW q \in Seq(Send), NEW r \in Seq(Send), NEW K, Carries(q, K), Carries(r, K)
    PROVE  q \o r \in Seq(Send) /\ Carries(q \o r, K)
<1>1. q \o r \in Seq(Send) /\ Len(q \o r) = Len(q) + Len(r)
  OBVIOUS
<1>2. ASSUME NEW i \in DOMAIN (q \o r)
      PROVE  (q \o r)[i].frame.kind \in K
  <2>1. i \in 1 .. Len(q) + Len(r) /\ Len(q) \in Nat /\ Len(r) \in Nat
    BY <1>1
  <2>2. CASE i <= Len(q)
    <3>1. (q \o r)[i] = q[i] /\ i \in DOMAIN q
      BY <2>1, <2>2
    <3> QED
      BY <3>1 DEF Carries
  <2>3. CASE i > Len(q)
    <3>1. (q \o r)[i] = r[i - Len(q)] /\ i - Len(q) \in DOMAIN r
      BY <2>1, <2>3
    <3> QED
      BY <3>1 DEF Carries
  <2> QED
    BY <2>1, <2>2, <2>3
<1> QED
  BY <1>1, <1>2 DEF Carries

\* A connection is told by its goroutine: what is left to send are the other sends, and the
\* other recipients of this one.
LEMMA ToldFacts ==
    ASSUME NEW g \in Goroutine, NEW c \in Conn, todo \in [Goroutine -> Seq(Send)],
           todo[g] # <<>>, c \in Head(todo[g]).to, Told(g, c)
    PROVE  /\ todo' \in [Goroutine -> Seq(Send)]
           /\ \A h \in Goroutine : h # g => todo'[h] = todo[h]
           /\ Len(todo'[g]) <= Len(todo[g])
           /\ \A j \in DOMAIN todo'[g] : \E i \in DOMAIN todo[g] :
                /\ todo'[g][j].frame = todo[g][i].frame
                /\ todo'[g][j].to \subseteq todo[g][i].to
                /\ i = 1 => c \notin todo'[g][j].to
           /\ \A i \in DOMAIN todo[g] : \A d \in Conn :
                d \in todo[g][i].to /\ (i # 1 \/ d # c) =>
                  \E j \in DOMAIN todo'[g] : d \in todo'[g][j].to
<1>1. PICK q \in Seq(Send) : q = todo[g]
  OBVIOUS
<1>2. PICK s \in Send : s = Head(q) /\ s = q[1]
  BY <1>1
<1>0. q # <<>> /\ Tail(q) \in Seq(Send)
  BY <1>1
<1>3. PICK r \in Seq(Send) : r = Tail(q)
  BY <1>0
<1>4. Len(q) \in Nat \ {0} /\ Len(r) = Len(q) - 1 /\ \A k \in 1 .. Len(r) : r[k] = q[k + 1]
  BY <1>0, <1>3
<1>5. \A h \in Goroutine : h # g => todo'[h] = todo[h]
  BY DEF Told
<1>6. CASE s.to = {c}
  <2>1. todo' = [todo EXCEPT ![g] = r]
    BY <1>1, <1>2, <1>3, <1>6 DEF Told
  <2>2. todo'[g] = r
    BY <2>1
  <2>3. ASSUME NEW j \in DOMAIN r
        PROVE  \E i \in DOMAIN q : r[j].frame = q[i].frame /\ r[j].to \subseteq q[i].to /\ i # 1
    <3>1. j \in Nat /\ j >= 1 /\ j + 1 \in DOMAIN q /\ r[j] = q[j + 1] /\ j + 1 # 1
      BY <1>4
    <3> QED
      BY <3>1
  <2>4. ASSUME NEW i \in DOMAIN q, NEW d \in Conn, d \in q[i].to, i # 1 \/ d # c
        PROVE  \E j \in DOMAIN r : d \in r[j].to
    <3>1. i # 1
      BY <1>2, <1>6, <2>4
    <3>2. i - 1 \in DOMAIN r /\ r[i - 1] = q[i]
      BY <1>4, <3>1
    <3> QED
      BY <2>4, <3>2
  <2>5. todo' \in [Goroutine -> Seq(Send)] /\ Len(r) <= Len(q)
    BY <2>1, <1>4
  <2> QED
    <3>1. todo'[g] = r /\ todo[g] = q
      BY <1>1, <2>2
    <3> QED
      BY <1>5, <2>3, <2>4, <2>5, <3>1
<1>7. CASE s.to # {c}
  <2>1. PICK t \in Send : t = [s EXCEPT !.to = @ \ {c}]
    BY <1>2 DEF Send
  <2>2. t.frame = s.frame /\ t.to = s.to \ {c}
    BY <2>1, <1>2 DEF Send
  <2>10. <<t>> \in Seq(Send) /\ <<t>> \o r \in Seq(Send)
    BY <2>1
  <2>3. PICK z \in Seq(Send) : z = <<t>> \o r
    BY <2>10
  <2>4. todo' = [todo EXCEPT ![g] = z]
    BY <1>1, <1>2, <1>3, <1>7, <2>1, <2>3 DEF Told
  <2>5. todo'[g] = z
    BY <2>4
  <2>6. Len(z) = Len(q) /\ z[1] = t /\ \A k \in 2 .. Len(q) : z[k] = q[k]
    BY <1>4, <2>3
  <2>7. ASSUME NEW j \in DOMAIN z
        PROVE  \E i \in DOMAIN q : /\ z[j].frame = q[i].frame
                                   /\ z[j].to \subseteq q[i].to
                                   /\ i = 1 => c \notin z[j].to
    <3>1. j \in DOMAIN q /\ j \in 1 .. Len(q)
      BY <2>6
    <3>2. CASE j = 1
      BY <3>1, <3>2, <2>6, <2>2, <1>2
    <3>3. CASE j # 1
      <4>1. z[j] = q[j]
        BY <2>6, <3>1, <3>3
      <4> QED
        BY <3>1, <3>3, <4>1
    <3> QED
      BY <3>2, <3>3
  <2>8. ASSUME NEW i \in DOMAIN q, NEW d \in Conn, d \in q[i].to, i # 1 \/ d # c
        PROVE  \E j \in DOMAIN z : d \in z[j].to
    <3>1. i \in DOMAIN z /\ i \in 1 .. Len(q)
      BY <2>6
    <3>2. CASE i = 1
      BY <3>1, <3>2, <2>6, <2>2, <2>8, <1>2
    <3>3. CASE i # 1
      <4>1. z[i] = q[i]
        BY <2>6, <3>1, <3>3
      <4> QED
        BY <3>1, <4>1, <2>8
    <3> QED
      BY <3>2, <3>3
  <2>9. todo' \in [Goroutine -> Seq(Send)] /\ Len(z) <= Len(q)
    BY <2>4, <2>6, <1>4
  <2> QED
    <3>1. todo'[g] = z /\ todo[g] = q
      BY <1>1, <2>5
    <3>2. ASSUME NEW j \in DOMAIN todo'[g]
          PROVE  \E i \in DOMAIN todo[g] : /\ todo'[g][j].frame = todo[g][i].frame
                                           /\ todo'[g][j].to \subseteq todo[g][i].to
                                           /\ i = 1 => c \notin todo'[g][j].to
      <4>1. PICK i \in DOMAIN q : /\ z[j].frame = q[i].frame
                                  /\ z[j].to \subseteq q[i].to
                                  /\ i = 1 => c \notin z[j].to
        BY <2>7, <3>1
      <4> QED
        BY <3>1, <4>1
    <3>3. \A i \in DOMAIN todo[g] : \A d \in Conn :
                d \in todo[g][i].to /\ (i # 1 \/ d # c) =>
                  \E j \in DOMAIN todo'[g] : d \in todo'[g][j].to
      BY <2>8, <3>1, Zenon
    <3> QED
      BY <1>5, <2>9, <3>1, <3>2, <3>3
<1> QED
  BY <1>6, <1>7

-----------------------------------------------------------------------------
(* Every step is of one of five kinds.                                          *)

LEMMA LeaveCollects ==
    ASSUME TypeInv, NEW c \in Conn, NEW g \in Conn \cup {Heartbeat}, Idle(g),
           LeaveRoom(c, g), UNCHANGED <<out, done, batches, heard>>
    PROVE  Collects
<1>1. g \in Goroutine /\ g # Closer
  BY FanoutAssumption DEF Goroutine
<1>2. CASE c \in conns /\ roomCode[c] # NoTeam
  <2>1. PICK S \in SUBSET Conn : S = PeersOf(roomCode[c]) \ {c}
    BY DEF PeersOf
  <2>2. Presence(S) \in Frame /\ Presence(S).kind \in {"presence", "notice"}
    BY FramesAreFrames
  <2>3. todo' = [todo EXCEPT ![g] = SendTo(S, Presence(S))]
    BY <1>2, <2>1 DEF LeaveRoom
  <2>4. SendTo(S, Presence(S)) \in Seq(Send)
        /\ Carries(SendTo(S, Presence(S)), {"presence", "notice"})
    BY <2>2, SendToFacts, CarriesOne
  <2> QED
    BY <1>1, <2>3, <2>4 DEF Collects
<1>3. CASE ~(c \in conns /\ roomCode[c] # NoTeam)
  <2>1. todo' = [todo EXCEPT ![g] = <<>>]
    BY <1>1, <1>3 DEF LeaveRoom, Idle, TypeInv
  <2>2. <<>> \in Seq(Send) /\ Carries(<<>>, {"presence", "notice"})
    BY DEF Carries
  <2> QED
    BY <1>1, <2>1, <2>2 DEF Collects
<1> QED
  BY <1>2, <1>3

LEMMA StepKinds ==
    ASSUME TypeInv, Next
    PROVE  \/ Collects
           \/ Closes
           \/ \E c \in Conn, tag \in Team \cup {NoTeam} : Activity(c, tag)
           \/ \E g \in Goroutine, c \in Conn : Enqueue(g, c)
           \/ \E c \in Conn : Write(c)
<1> USE FramesAreFrames
<1>1. ASSUME NEW c \in Conn, NEW t \in Team, Join(c, t)
      PROVE  Collects
  <2>1. PICK S \in SUBSET Conn :
          S = IF roomCode[c] = t THEN {} ELSE PeersOf(roomCode[c]) \ {c}
    BY DEF PeersOf
  <2>2. PICK T \in SUBSET Conn : T = PeersOf(t) \cup {c}
    BY DEF PeersOf
  <2>3. PICK x \in Seq(Send) : x = SendTo(S, Presence(S))
    BY SendToFacts
  <2>4. PICK y \in Seq(Send) : y = SendTo({c}, Plain("notice"))
    BY SendToFacts
  <2>5. PICK z \in Seq(Send) : z = SendTo(T, Presence(T))
    BY SendToFacts
  <2>6. /\ Carries(x, {"presence", "notice"})
        /\ Carries(y, {"presence", "notice"})
        /\ Carries(z, {"presence", "notice"})
    BY <2>3, <2>4, <2>5, CarriesOne
  <2>7. x \o y \in Seq(Send) /\ Carries(x \o y, {"presence", "notice"})
    BY <2>6, CarriesBoth
  <2>8. (x \o y) \o z \in Seq(Send) /\ Carries((x \o y) \o z, {"presence", "notice"})
    BY <2>6, <2>7, CarriesBoth
  <2>9. todo' = [todo EXCEPT ![c] = (x \o y) \o z]
    BY <1>1, <2>1, <2>2, <2>3, <2>4, <2>5 DEF Join
  <2> QED
    BY <1>1, <2>8, <2>9, FanoutAssumption DEF Join, Collects, Handles, Goroutine
<1>2. ASSUME NEW c \in Conn, Profile(c)
      PROVE  Collects
  <2>1. PICK S \in SUBSET Conn : S = PeersOf(roomCode[c])
    BY DEF PeersOf
  <2>2. SendTo(S, Presence(S)) \in Seq(Send)
        /\ Carries(SendTo(S, Presence(S)), {"presence", "notice"})
    <3>1. Presence(S) \in Frame /\ Presence(S).kind \in {"presence", "notice"}
      OBVIOUS
    <3> QED
      BY <3>1, SendToFacts, CarriesOne
  <2> QED
    BY <1>2, <2>1, <2>2, FanoutAssumption DEF Profile, Collects, Handles, Goroutine
<1>3. ASSUME NEW c \in Conn, React(c)
      PROVE  Collects
  <2>1. PICK S \in SUBSET Conn : S = PeersOf(roomCode[c])
    BY DEF PeersOf
  <2>2. SendTo(S, Plain("notice")) \in Seq(Send)
        /\ Carries(SendTo(S, Plain("notice")), {"presence", "notice"})
    BY SendToFacts, CarriesOne
  <2> QED
    BY <1>3, <2>1, <2>2, FanoutAssumption DEF React, Collects, Handles, Goroutine
<1>4. ASSUME NEW c \in Conn, Leave(c)
      PROVE  Collects
  BY <1>4, LeaveCollects DEF Leave
<1>5. ASSUME NEW c \in Conn, Evict(c)
      PROVE  Collects
  BY <1>5, LeaveCollects DEF Evict
<1>6. ASSUME PingAll
      PROVE  Collects
  <2>1. conns \in SUBSET Conn
    BY DEF TypeInv, TypeOK
  <2>2. SendTo(conns, Plain("notice")) \in Seq(Send)
        /\ Carries(SendTo(conns, Plain("notice")), {"presence", "notice"})
    BY <2>1, SendToFacts, CarriesOne
  <2> QED
    BY <1>6, <2>2, FanoutAssumption DEF PingAll, Collects, Goroutine
<1>7. ASSUME NEW t \in Team, CloseRoom(t)
      PROVE  Collects
  <2>1. PICK S \in SUBSET Conn : S = PeersOf(t)
    BY DEF PeersOf
  <2>2. SendTo(S, Plain("closing")) \in Seq(Send)
        /\ Carries(SendTo(S, Plain("closing")), {"closing"})
    BY SendToFacts, CarriesOne
  <2> QED
    BY <1>7, <2>1, <2>2 DEF CloseRoom, Collects, Goroutine
<1>8. ASSUME NEW c \in Conn, End(c) \/ WriteFails(c)
      PROVE  Closes
  BY <1>8 DEF End, WriteFails, Closes
<1>9. ASSUME EvictEnds
      PROVE  Closes
  BY <1>9 DEF EvictEnds, Closes, TypeInv, TypeOK
<1> QED
  BY <1>1, <1>2, <1>3, <1>4, <1>5, <1>6, <1>7, <1>8, <1>9
     DEF Next, ConnNext, WriterNext, RelayNext, SendNext

-----------------------------------------------------------------------------
(* The types.                                                                   *)

LEMMA InitType == Init => TypeInv
<1> SUFFICES ASSUME Init PROVE TypeInv
  OBVIOUS
<1>1. <<>> \in Seq(Frame) /\ <<>> \in Seq(Send) /\ Len(<<>>) = 0
  OBVIOUS
<1>2. out \in [Conn -> Seq(Frame)] /\ todo \in [Goroutine -> Seq(Send)]
  BY <1>1 DEF Init
<1>3. \A c \in Conn : Len(out[c]) <= MaxQueue
  BY <1>1, FanoutAssumption DEF Init
<1>4. 0 \in 0 .. MaxBatches
  BY FanoutAssumption
<1> QED
  BY <1>2, <1>3, <1>4, FanoutAssumption DEF Init, TypeInv, TypeOK

\* The parts no send depends on.
Places ==
    /\ conns \in SUBSET Conn
    /\ roomCode \in [Conn -> Team \cup {NoTeam}]
    /\ handler \in [Conn -> {"reading", "leaving", "gone"}]
    /\ evicting \in Conn \cup {Nobody}
    /\ roster \in [Conn -> SUBSET Conn]

Queues ==
    /\ out \in [Conn -> Seq(Frame)] /\ \A c \in Conn : Len(out[c]) <= MaxQueue
    /\ todo \in [Goroutine -> Seq(Send)]
    /\ done \in [Conn -> BOOLEAN]
    /\ batches \in [Conn -> 0 .. MaxBatches]
    /\ heard \in [Conn -> [Conn -> 0 .. MaxBatches]]

LEMMA TypeParts == TypeInv <=> Places /\ Queues
BY DEF TypeInv, TypeOK, Places, Queues

LEMMA StepPlaces == TypeInv /\ Next => Places'
<1> SUFFICES ASSUME TypeInv, Next PROVE Places'
  OBVIOUS
<1>1. Places /\ Queues
  BY TypeParts
<1> USE <1>1
<1>2. ASSUME NEW c \in Conn, NEW g \in Goroutine, LeaveRoom(c, g)
      PROVE  roomCode' \in [Conn -> Team \cup {NoTeam}]
  BY <1>2 DEF LeaveRoom, Places
<1>3. ASSUME NEW c \in Conn, ConnNext(c)
      PROVE  Places'
  <2>1. CASE \E t \in Team : Join(c, t)
    BY <2>1 DEF Join, Places
  <2>2. CASE \E tag \in Team \cup {NoTeam} : Activity(c, tag)
    BY <2>2 DEF Activity, Places
  <2>3. CASE Profile(c) \/ React(c)
    BY <2>3 DEF Profile, React, Places
  <2>4. CASE Leave(c)
    <3>1. roomCode' \in [Conn -> Team \cup {NoTeam}]
      BY <1>2, <2>4 DEF Leave, Goroutine
    <3> QED
      BY <2>4, <3>1 DEF Leave, Places
  <2>5. CASE End(c)
    BY <2>5 DEF End, Places
  <2> QED
    BY <1>3, <2>1, <2>2, <2>3, <2>4, <2>5 DEF ConnNext
<1>4. ASSUME NEW c \in Conn, WriterNext(c)
      PROVE  Places'
  <2>1. CASE WriteFails(c)
    BY <2>1 DEF WriteFails, Places
  <2>2. CASE Write(c)
    <3>1. PICK f \in Frame : f = Head(out[c])
      BY <2>2 DEF Write, Queues
    <3>2. f.who \in SUBSET Conn
      BY DEF Frame
    <3>3. roster' \in [Conn -> SUBSET Conn]
      BY <2>2, <3>1, <3>2 DEF Write, Receive, Places
    <3> QED
      BY <2>2, <3>3 DEF Write, Places
  <2> QED
    BY <1>4, <2>1, <2>2 DEF WriterNext
<1>5. ASSUME RelayNext
      PROVE  Places'
  <2>1. ASSUME NEW c \in Conn, Evict(c)
        PROVE  Places'
    <3>1. roomCode' \in [Conn -> Team \cup {NoTeam}]
      BY <1>2, <2>1 DEF Evict, Goroutine
    <3> QED
      BY <2>1, <3>1 DEF Evict, Places
  <2>2. CASE EvictEnds \/ PingAll
    BY <2>2 DEF EvictEnds, PingAll, Places
  <2>3. CASE \E t \in Team : CloseRoom(t)
    BY <2>3 DEF CloseRoom, Places
  <2> QED
    BY <1>5, <2>1, <2>2, <2>3 DEF RelayNext
<1>6. ASSUME NEW g \in Goroutine, SendNext(g)
      PROVE  Places'
  BY <1>6 DEF SendNext, Enqueue, Places
<1> QED
  BY <1>3, <1>4, <1>5, <1>6 DEF Next

LEMMA StepQueues == TypeInv /\ Next => Queues'
<1> SUFFICES ASSUME TypeInv, Next PROVE Queues'
  OBVIOUS
<1>1. Queues
  BY TypeParts
<1> USE <1>1
<1>2. ASSUME NEW c \in Conn, ShutDown(c)
      PROVE  /\ out' \in [Conn -> Seq(Frame)] /\ \A d \in Conn : Len(out'[d]) <= MaxQueue
             /\ done' \in [Conn -> BOOLEAN]
  <2>1. <<>> \in Seq(Frame) /\ Len(<<>>) = 0
    OBVIOUS
  <2>2. out' \in [Conn -> Seq(Frame)] /\ done' \in [Conn -> BOOLEAN]
    BY <1>2, <2>1 DEF ShutDown, Queues
  <2>3. ASSUME NEW d \in Conn PROVE Len(out'[d]) <= MaxQueue
    BY <1>2, <2>1, FanoutAssumption DEF ShutDown, Queues
  <2> QED
    BY <2>2, <2>3
<1>3. CASE Collects
  BY <1>3 DEF Collects, Queues
<1>4. CASE Closes
  <2>1. PICK c \in Conn : ShutDown(c) /\ UNCHANGED <<todo, batches, heard>>
    BY <1>4 DEF Closes
  <2> QED
    BY <2>1, <1>2 DEF Queues
<1>5. ASSUME NEW c \in Conn, NEW tag \in Team \cup {NoTeam}, Activity(c, tag)
      PROVE  Queues'
  <2>1. batches' \in [Conn -> 0 .. MaxBatches] /\ batches'[c] \in 0 .. MaxBatches
    BY <1>5, FanoutAssumption DEF Activity, Queues
  <2>2. PICK S \in SUBSET Conn : todo' = [todo EXCEPT ![c] = SendTo(S, Batch(c, batches'[c]))]
    BY <1>5 DEF Activity, PeersOf
  <2>3. SendTo(S, Batch(c, batches'[c])) \in Seq(Send)
    BY <2>1, SendToFacts, FramesAreFrames
  <2>4. todo' \in [Goroutine -> Seq(Send)]
    BY <2>2, <2>3 DEF Queues
  <2> QED
    BY <1>5, <2>1, <2>4 DEF Activity, Queues
<1>6. ASSUME NEW g \in Goroutine, NEW c \in Conn, Enqueue(g, c)
      PROVE  Queues'
  <2>1. todo' \in [Goroutine -> Seq(Send)]
    BY <1>6, ToldFacts DEF Enqueue, Queues
  <2>2. CASE done[c] /\ UNCHANGED <<out, done>>
    BY <1>6, <2>1, <2>2 DEF Enqueue, Queues
  <2>3. CASE ~done[c] /\ Len(out[c]) = MaxQueue /\ ShutDown(c)
    BY <1>6, <1>2, <2>1, <2>3 DEF Enqueue, Queues
  <2>4. CASE /\ ~done[c] /\ Len(out[c]) < MaxQueue
             /\ out' = [out EXCEPT ![c] = Append(@, Head(todo[g]).frame)]
             /\ UNCHANGED done
    <3>1. Head(todo[g]) \in Send
      BY <1>6 DEF Enqueue, Queues
    <3>2. PICK f \in Frame : f = Head(todo[g]).frame
      BY <3>1 DEF Send
    <3>3. out[c] \in Seq(Frame) /\ out' = [out EXCEPT ![c] = Append(out[c], f)]
      BY <2>4, <3>2 DEF Queues
    <3>4. Append(out[c], f) \in Seq(Frame) /\ Len(Append(out[c], f)) = Len(out[c]) + 1
      BY <3>3
    <3>5. Len(out[c]) + 1 <= MaxQueue
      BY <2>4, <3>3, FanoutAssumption
    <3>6. out' \in [Conn -> Seq(Frame)] /\ \A d \in Conn : Len(out'[d]) <= MaxQueue
      BY <3>3, <3>4, <3>5 DEF Queues
    <3> QED
      BY <1>6, <2>1, <2>4, <3>6 DEF Enqueue, Queues
  <2> QED
    BY <1>6, <2>2, <2>3, <2>4 DEF Enqueue
<1>7. ASSUME NEW c \in Conn, Write(c)
      PROVE  Queues'
  <2>1. out[c] \in Seq(Frame) /\ out[c] # <<>>
    BY <1>7 DEF Write, Queues
  <2>2. PICK f \in Frame : f = Head(out[c])
    BY <2>1
  <2>3. f.n \in 0 .. MaxBatches
    BY DEF Frame
  <2>4. heard' \in [Conn -> [Conn -> 0 .. MaxBatches]]
    BY <1>7, <2>2, <2>3 DEF Write, Receive, Queues
  <2>5. CASE ShutDown(c)
    BY <1>7, <1>2, <2>4, <2>5 DEF Write, Queues
  <2>6. CASE out' = [out EXCEPT ![c] = Tail(@)] /\ UNCHANGED done
    <3>1. Tail(out[c]) \in Seq(Frame) /\ Len(Tail(out[c])) = Len(out[c]) - 1
      BY <2>1
    <3>2. Len(out[c]) - 1 <= MaxQueue
      BY <2>1, FanoutAssumption DEF Queues
    <3>3. out' \in [Conn -> Seq(Frame)] /\ \A d \in Conn : Len(out'[d]) <= MaxQueue
      BY <2>6, <3>1, <3>2 DEF Queues
    <3> QED
      BY <1>7, <2>4, <2>6, <3>3 DEF Write, Queues
  <2> QED
    BY <1>7, <2>5, <2>6 DEF Write
<1> QED
  BY <1>3, <1>4, <1>5, <1>6, <1>7, StepKinds

LEMMA StepType == TypeInv /\ [Next]_vars => TypeInv'
<1>1. ASSUME TypeInv, UNCHANGED vars PROVE TypeInv'
  BY <1>1 DEF vars, TypeInv, TypeOK
<1>2. (Places' /\ Queues') => TypeInv'
  BY DEF TypeInv, TypeOK, Places, Queues
<1> QED
  BY <1>1, <1>2, StepPlaces, StepQueues

\* Every reachable state of the fan-out has its types; no queue exceeds its bound.
THEOREM FanoutIsTyped == Spec => []TypeOK
<1>1. TypeInv => TypeOK
  BY DEF TypeInv
<1> QED
  BY <1>1, InitType, StepType, PTL DEF Spec

\* A fan-out closes nobody else: a connection with nothing queued that is neither ending nor
\* being evicted stays as it is.
THEOREM SlowPeersOnly == Spec => OnlySlowPeersAreClosed
<1>1. ASSUME TypeInv, [Next]_vars, NEW c \in Conn,
             out[c] = <<>>, handler[c] = "reading", evicting # c
      PROVE  done'[c] = done[c]
  <2>1. Len(out[c]) = 0 /\ MaxQueue # 0
    BY <1>1, FanoutAssumption
  <2>2. ASSUME NEW d \in Conn, d # c, ShutDown(d) PROVE done'[c] = done[c]
    BY <1>1, <2>2 DEF ShutDown, TypeInv, TypeOK
  <2>3. CASE Collects
    BY <2>3 DEF Collects
  <2>4. CASE Closes
    BY <1>1, <2>2, <2>4 DEF Closes
  <2>5. CASE \E d \in Conn, tag \in Team \cup {NoTeam} : Activity(d, tag)
    BY <2>5 DEF Activity
  <2>6. CASE \E g \in Goroutine, d \in Conn : Enqueue(g, d)
    BY <2>1, <2>2, <2>6 DEF Enqueue
  <2>7. CASE \E d \in Conn : Write(d)
    BY <1>1, <2>2, <2>7 DEF Write
  <2>8. CASE UNCHANGED vars
    BY <2>8 DEF vars
  <2> QED
    BY <1>1, <2>3, <2>4, <2>5, <2>6, <2>7, <2>8, StepKinds
<1>2. TypeInv /\ [Next]_vars =>
        [\A c \in Conn : out[c] = <<>> /\ handler[c] = "reading" /\ evicting # c
                           => done'[c] = done[c]]_vars
  BY <1>1
<1> QED
  BY <1>2, InitType, StepType, PTL DEF Spec, OnlySlowPeersAreClosed

-----------------------------------------------------------------------------
(* The closing frames.                                                          *)

LEMMA StepCloser == TypeInv /\ CloserInv /\ [Next]_vars => CloserInv'
<1> SUFFICES ASSUME TypeInv, CloserInv, [Next]_vars PROVE CloserInv'
  OBVIOUS
<1>1. Closer \in Goroutine /\ Closer \notin Conn /\ todo \in [Goroutine -> Seq(Send)]
  BY FanoutAssumption DEF Goroutine, TypeInv
<1>2. CASE Collects
  <2>1. PICK g \in Goroutine, q \in Seq(Send) :
          /\ todo' = [todo EXCEPT ![g] = q]
          /\ Carries(q, IF g = Closer THEN {"closing"} ELSE {"presence", "notice"})
    BY <1>2 DEF Collects
  <2>2. CASE g = Closer
    BY <1>1, <2>1, <2>2 DEF Carries, CloserInv
  <2>3. CASE g # Closer
    BY <1>1, <2>1, <2>3 DEF CloserInv
  <2> QED
    BY <2>2, <2>3
<1>3. CASE Closes
  BY <1>3 DEF Closes, CloserInv
<1>4. ASSUME NEW c \in Conn, NEW tag \in Team \cup {NoTeam}, Activity(c, tag)
      PROVE  CloserInv'
  <2>1. todo'[Closer] = todo[Closer]
    BY <1>1, <1>4 DEF Activity
  <2> QED
    BY <2>1 DEF CloserInv
<1>5. ASSUME NEW g \in Goroutine, NEW c \in Conn, Enqueue(g, c)
      PROVE  CloserInv'
  <2>1. CASE g = Closer
    BY <1>1, <1>5, <2>1, ToldFacts DEF Enqueue, CloserInv
  <2>2. CASE g # Closer
    <3>1. todo'[Closer] = todo[Closer]
      BY <1>1, <1>5, <2>2, ToldFacts DEF Enqueue
    <3> QED
      BY <3>1 DEF CloserInv
  <2> QED
    BY <2>1, <2>2
<1>6. ASSUME NEW c \in Conn, Write(c)
      PROVE  CloserInv'
  BY <1>6 DEF Write, CloserInv
<1>7. CASE UNCHANGED vars
  BY <1>7 DEF vars, CloserInv
<1> QED
  BY <1>2, <1>3, <1>4, <1>5, <1>6, <1>7, StepKinds

\* A frame that is queued behind the first stays queued when the first is written.
LEMMA Written ==
    ASSUME NEW q \in Seq(Frame), q # <<>>, NEW r, r = Tail(q)
    PROVE  /\ r \in Seq(Frame) /\ Len(q) \in Nat /\ Len(r) = Len(q) - 1
           /\ Head(q) = q[1] /\ 1 \in DOMAIN q
           /\ \A i \in DOMAIN q : i # 1 => i - 1 \in DOMAIN r /\ r[i - 1] = q[i]
           /\ \A i \in DOMAIN r : i + 1 \in DOMAIN q /\ r[i] = q[i + 1]
OBVIOUS

\* The notice of a deleted team is not lost: as long as it is on its way to c, either it still
\* is after the step, or c is closed.
LEMMA StepClosing ==
    ASSUME TypeInv, CloserInv, [Next]_vars, NEW c \in Conn, Closing(c)
    PROVE  Closing(c)' \/ done'[c]
<1>1. /\ Closer \in Goroutine /\ Closer \notin Conn
      /\ todo \in [Goroutine -> Seq(Send)]
      /\ out \in [Conn -> Seq(Frame)]
      /\ done \in [Conn -> BOOLEAN]
  BY FanoutAssumption DEF Goroutine, TypeInv, TypeOK
<1>2. ASSUME out'[c] = out[c], todo'[Closer] = todo[Closer]
      PROVE  Closing(c)'
  BY <1>2 DEF Closing
<1>3. ASSUME NEW d \in Conn, ShutDown(d), todo'[Closer] = todo[Closer]
      PROVE  Closing(c)' \/ done'[c]
  <2>1. CASE d = c
    BY <1>1, <1>3, <2>1 DEF ShutDown
  <2>2. CASE d # c
    <3>1. out'[c] = out[c]
      BY <1>1, <1>3, <2>2 DEF ShutDown
    <3> QED
      BY <1>2, <1>3, <3>1
  <2> QED
    BY <2>1, <2>2
<1>4. CASE Collects
  <2>1. PICK g \in Goroutine, q \in Seq(Send) :
          todo[g] = <<>> /\ todo' = [todo EXCEPT ![g] = q] /\ UNCHANGED out
    BY <1>4 DEF Collects, Idle
  <2>2. CASE g = Closer
    <3>1. DOMAIN todo[Closer] = {}
      BY <2>1, <2>2
    <3> QED
      BY <2>1, <3>1 DEF Closing
  <2>3. CASE g # Closer
    BY <1>1, <1>2, <2>1, <2>3
  <2> QED
    BY <2>2, <2>3
<1>5. CASE Closes
  BY <1>3, <1>5 DEF Closes
<1>6. ASSUME NEW d \in Conn, NEW tag \in Team \cup {NoTeam}, Activity(d, tag)
      PROVE  Closing(c)'
  BY <1>1, <1>2, <1>6 DEF Activity
<1>7. ASSUME NEW d \in Conn, Write(d)
      PROVE  Closing(c)' \/ done'[c]
  <2>1. CASE ShutDown(d)
    BY <1>3, <1>7, <2>1 DEF Write
  <2>2. CASE d # c /\ out' = [out EXCEPT ![d] = Tail(@)]
    BY <1>1, <1>2, <1>7, <2>2 DEF Write
  <2>3. CASE /\ d = c /\ Head(out[c]).kind # "closing"
             /\ out' = [out EXCEPT ![c] = Tail(out[c])]
    <3>1. out'[c] = Tail(out[c]) /\ out[c] \in Seq(Frame) /\ out[c] # <<>>
      BY <1>1, <1>7, <2>3 DEF Write
    <3>2. CASE \E i \in DOMAIN todo[Closer] : c \in todo[Closer][i].to
      BY <1>7, <3>2 DEF Write, Closing
    <3>3. CASE \E i \in DOMAIN out[c] : out[c][i].kind = "closing"
      <4>1. PICK i \in DOMAIN out[c] : out[c][i].kind = "closing"
        BY <3>3
      <4>2. i # 1
        BY <2>3, <3>1, <4>1, Written
      <4>3. i - 1 \in DOMAIN out'[c] /\ out'[c][i - 1] = out[c][i]
        BY <3>1, <4>2, Written
      <4> QED
        BY <4>1, <4>3 DEF Closing
    <3> QED
      BY <3>2, <3>3 DEF Closing
  <2> QED
    BY <1>7, <2>1, <2>2, <2>3 DEF Write
<1>8. ASSUME NEW g \in Goroutine, NEW d \in Conn, Enqueue(g, d)
      PROVE  Closing(c)' \/ done'[c]
  <2>1. PICK f \in Frame : f = Head(todo[g]).frame
    <3>1. Head(todo[g]) \in Send
      BY <1>1, <1>8 DEF Enqueue
    <3> QED
      BY <3>1 DEF Send
  <2>2. CASE done[c]
    BY <1>1, <1>8, <2>2 DEF Enqueue, ShutDown
  <2>3. CASE d = c /\ ShutDown(c)
    BY <1>1, <2>3 DEF ShutDown
  <2>4. CASE /\ ~done[c]
             /\ d # c \/ out' = [out EXCEPT ![d] = Append(@, f)]
    <3>1. CASE \E i \in DOMAIN out[c] : out[c][i].kind = "closing"
      <4>1. PICK i \in DOMAIN out[c] : out[c][i].kind = "closing"
        BY <3>1
      <4>2. CASE d = c
        <5>1. out'[c] = Append(out[c], f) /\ out[c] \in Seq(Frame)
          BY <1>1, <2>4, <4>2
        <5>2. i \in DOMAIN out'[c] /\ out'[c][i] = out[c][i]
          BY <5>1
        <5> QED
          BY <4>1, <5>2 DEF Closing
      <4>3. CASE d # c
        <5>1. out'[c] = out[c]
          BY <1>1, <1>8, <4>3 DEF Enqueue, ShutDown
        <5> QED
          BY <4>1, <5>1 DEF Closing
      <4> QED
        BY <4>2, <4>3
    <3>2. CASE \E i \in DOMAIN todo[Closer] : c \in todo[Closer][i].to
      <4>1. PICK i \in DOMAIN todo[Closer] : c \in todo[Closer][i].to
        BY <3>2
      <4>2. CASE g # Closer
        <5>1. todo'[Closer] = todo[Closer]
          BY <1>1, <1>8, <4>2, ToldFacts DEF Enqueue
        <5> QED
          BY <4>1, <5>1 DEF Closing
      <4>3. CASE g = Closer /\ (i # 1 \/ c # d)
        <5>1. \E j \in DOMAIN todo'[Closer] : c \in todo'[Closer][j].to
          BY <1>1, <1>8, <4>1, <4>3, ToldFacts DEF Enqueue
        <5> QED
          BY <5>1 DEF Closing
      <4>4. CASE g = Closer /\ i = 1 /\ c = d
        <5>1. out'[c] = Append(out[c], f) /\ out[c] \in Seq(Frame)
          BY <1>1, <2>4, <4>4
        <5>2. f.kind = "closing"
          <6>1. Head(todo[g]) = todo[g][1]
            BY <1>1, <1>8 DEF Enqueue
          <6> QED
            BY <2>1, <4>1, <4>4, <6>1 DEF CloserInv
        <5>3. Len(out[c]) + 1 \in DOMAIN out'[c] /\ out'[c][Len(out[c]) + 1] = f
          BY <5>1
        <5> QED
          BY <5>2, <5>3 DEF Closing
      <4> QED
        BY <4>2, <4>3, <4>4
    <3> QED
      BY <3>1, <3>2 DEF Closing
  <2> QED
    BY <1>8, <2>1, <2>2, <2>3, <2>4 DEF Enqueue
<1>9. CASE UNCHANGED vars
  BY <1>2, <1>9 DEF vars
<1> QED
  BY <1>4, <1>5, <1>6, <1>7, <1>8, <1>9, StepKinds

\* A peer of a deleted or expired room is disconnected: the closing frame on its way to it is
\* not lost unless the connection is closed.
THEOREM DeletedPeersClose == Spec => DeletedPeersAreClosed
<1>1. Init => TypeInv /\ CloserInv
  <2>1. Init => CloserInv
    BY FanoutAssumption DEF Init, CloserInv, Goroutine
  <2> QED
    BY <2>1, InitType
<1>2. TypeInv /\ CloserInv /\ [Next]_vars => TypeInv' /\ CloserInv'
  BY StepType, StepCloser
<1>3. TypeInv /\ CloserInv /\ [Next]_vars =>
        [\A c \in Conn : Closing(c) => Closing(c)' \/ done'[c]]_vars
  BY StepClosing
<1> QED
  BY <1>1, <1>2, <1>3, PTL DEF Spec, DeletedPeersAreClosed

-----------------------------------------------------------------------------
(* The order of the batches.                                                    *)

IsBatch(f, d) == f.kind = "activity" /\ d \in f.who

\* A batch for d's listeners still to be sent is its sender's only send and its newest batch:
\* none of the recipients left has heard it, or has anything as new in its queue.
Pending(g, d) ==
    \A i \in DOMAIN todo[g] : IsBatch(todo[g][i].frame, d) =>
        /\ g = d /\ Len(todo[g]) = 1
        /\ todo[g][i].frame.n = batches[d]
        /\ \A c \in todo[g][i].to :
              /\ heard[c][d] < batches[d]
              /\ \A j \in DOMAIN out[c] : IsBatch(out[c][j], d) => out[c][j].n < batches[d]

\* The batches of d queued for c are newer than what c has heard of d, and in order.
Queued(c, d) ==
    /\ heard[c][d] <= batches[d]
    /\ \A i \in DOMAIN out[c] : IsBatch(out[c][i], d) =>
          /\ heard[c][d] < out[c][i].n /\ out[c][i].n <= batches[d]
          /\ \A j \in DOMAIN out[c] :
                i < j /\ IsBatch(out[c][j], d) => out[c][i].n < out[c][j].n

OrderInv ==
    /\ \A g \in Goroutine : \A d \in Conn : Pending(g, d)
    /\ \A c, d \in Conn : Queued(c, d)

LEMMA InitOrder == Init => OrderInv
<1> SUFFICES ASSUME Init PROVE OrderInv
  OBVIOUS
<1>1. DOMAIN <<>> = {}
  OBVIOUS
<1>2. ASSUME NEW g \in Goroutine, NEW d \in Conn PROVE Pending(g, d)
  BY <1>1 DEF Init, Pending
<1>3. ASSUME NEW c \in Conn, NEW d \in Conn PROVE Queued(c, d)
  BY <1>1 DEF Init, Queued
<1> QED
  BY <1>2, <1>3 DEF OrderInv

\* The members of the queues and of the sends, and the numbers compared.
LEMMA Members ==
    ASSUME TypeInv
    PROVE  /\ \A c \in Conn : \A i \in DOMAIN out[c] : out[c][i] \in Frame /\ out[c][i].n \in Nat
           /\ \A g \in Goroutine : \A i \in DOMAIN todo[g] :
                todo[g][i] \in Send /\ todo[g][i].to \in SUBSET Conn /\ todo[g][i].frame \in Frame
           /\ \A c, d \in Conn : heard[c][d] \in Nat /\ batches[d] \in Nat
<1>1. ASSUME NEW c \in Conn, NEW i \in DOMAIN out[c]
      PROVE  out[c][i] \in Frame /\ out[c][i].n \in Nat
  <2>1. out[c] \in Seq(Frame)
    BY DEF TypeInv
  <2>2. out[c][i] \in Frame
    BY <2>1
  <2> QED
    BY <2>2, FanoutAssumption DEF Frame
<1>2. ASSUME NEW g \in Goroutine, NEW i \in DOMAIN todo[g]
      PROVE  todo[g][i] \in Send /\ todo[g][i].to \in SUBSET Conn /\ todo[g][i].frame \in Frame
  <2>1. todo[g] \in Seq(Send)
    BY DEF TypeInv
  <2>2. todo[g][i] \in Send
    BY <2>1
  <2> QED
    BY <2>2 DEF Send
<1>3. \A c, d \in Conn : heard[c][d] \in Nat /\ batches[d] \in Nat
  BY FanoutAssumption DEF TypeInv, TypeOK
<1> QED
  BY <1>1, <1>2, <1>3

\* What the listeners are still to get of d stays in order when their queues lose frames and
\* they hear nothing.
LEMMA QueuedLoses ==
    ASSUME NEW c \in Conn, NEW d \in Conn, Queued(c, d),
           out'[c] = out[c] \/ out'[c] = <<>>, UNCHANGED <<batches, heard>>
    PROVE  Queued(c, d)'
<1>1. CASE out'[c] = out[c]
  BY <1>1 DEF Queued
<1>2. CASE out'[c] = <<>>
  <2>1. DOMAIN out'[c] = {}
    BY <1>2
  <2> QED
    BY <2>1 DEF Queued
<1> QED
  BY <1>1, <1>2

LEMMA PendingLoses ==
    ASSUME TypeInv, NEW g \in Goroutine, NEW d \in Conn, Pending(g, d), todo'[g] = todo[g],
           \A c \in Conn : out'[c] = out[c] \/ out'[c] = <<>>, UNCHANGED <<batches, heard>>
    PROVE  Pending(g, d)'
<1> SUFFICES ASSUME NEW i \in DOMAIN todo[g], IsBatch(todo[g][i].frame, d),
                    NEW c \in todo[g][i].to
             PROVE  \A j \in DOMAIN out'[c] : IsBatch(out'[c][j], d) => out'[c][j].n < batches[d]
  BY DEF Pending
<1>1. c \in Conn
  BY Members
<1>2. CASE out'[c] = out[c]
  BY <1>2 DEF Pending
<1>3. CASE out'[c] = <<>>
  <2>1. DOMAIN out'[c] = {}
    BY <1>3
  <2> QED
    BY <2>1
<1> QED
  BY <1>1, <1>2, <1>3

LEMMA CollectsOrder == TypeInv /\ OrderInv /\ Collects => OrderInv'
<1> SUFFICES ASSUME TypeInv, OrderInv, Collects PROVE OrderInv'
  OBVIOUS
<1>1. PICK g \in Goroutine, q \in Seq(Send) :
        /\ todo' = [todo EXCEPT ![g] = q]
        /\ Carries(q, IF g = Closer THEN {"closing"} ELSE {"presence", "notice"})
        /\ UNCHANGED <<out, done, batches, heard>>
  BY DEF Collects
<1>2. \A h \in Goroutine : todo'[h] = IF h = g THEN q ELSE todo[h]
  BY <1>1 DEF TypeInv
<1>3. \A i \in DOMAIN q : q[i].frame.kind # "activity"
  BY <1>1 DEF Carries
<1>4. ASSUME NEW h \in Goroutine, NEW d \in Conn PROVE Pending(h, d)'
  <2>1. CASE h = g
    BY <1>2, <1>3, <2>1 DEF Pending, IsBatch
  <2>2. CASE h # g
    <3>1. Pending(h, d) /\ todo'[h] = todo[h]
      BY <1>2, <2>2 DEF OrderInv
    <3> QED
      BY <1>1, <3>1, PendingLoses
  <2> QED
    BY <2>1, <2>2
<1>5. ASSUME NEW c \in Conn, NEW d \in Conn PROVE Queued(c, d)'
  BY <1>1, QueuedLoses DEF OrderInv
<1> QED
  BY <1>4, <1>5 DEF OrderInv

LEMMA ShutDownOrder ==
    ASSUME TypeInv, OrderInv, NEW x \in Conn, ShutDown(x), UNCHANGED <<todo, batches, heard>>
    PROVE  OrderInv'
<1>1. \A c \in Conn : out'[c] = out[c] \/ out'[c] = <<>>
  BY DEF ShutDown, TypeInv
<1>2. ASSUME NEW h \in Goroutine, NEW d \in Conn PROVE Pending(h, d)'
  BY <1>1, PendingLoses DEF OrderInv
<1>3. ASSUME NEW c \in Conn, NEW d \in Conn PROVE Queued(c, d)'
  BY <1>1, QueuedLoses DEF OrderInv
<1> QED
  BY <1>2, <1>3 DEF OrderInv

\* A new batch is newer than all that is queued or heard of its sender.
LEMMA ActivityOrder ==
    ASSUME TypeInv, OrderInv, NEW x \in Conn, NEW tag, Activity(x, tag)
    PROVE  OrderInv'
<1>1. PICK S \in SUBSET Conn : todo' = [todo EXCEPT ![x] = SendTo(S, Batch(x, batches'[x]))]
  BY DEF Activity, PeersOf
<1>2. /\ x \in Goroutine
      /\ batches' = [batches EXCEPT ![x] = batches[x] + 1]
      /\ UNCHANGED <<out, heard>>
  BY DEF Activity, Goroutine
<1>3. /\ batches \in [Conn -> 0 .. MaxBatches] /\ batches[x] \in Nat /\ batches[x] < MaxBatches
      /\ batches'[x] = batches[x] + 1 /\ \A d \in Conn : d # x => batches'[d] = batches[d]
  BY <1>2, FanoutAssumption DEF Activity, TypeInv, TypeOK
<1>4. Batch(x, batches'[x]) \in Frame /\ IsBatch(Batch(x, batches'[x]), x)
      /\ Batch(x, batches'[x]).n = batches'[x]
      /\ \A d \in Conn : IsBatch(Batch(x, batches'[x]), d) => d = x
  <2>1. batches'[x] \in 0 .. MaxBatches
    BY <1>3, FanoutAssumption
  <2> QED
    BY <2>1, FramesAreFrames DEF IsBatch
<1>5. ASSUME NEW c \in Conn, NEW d \in Conn PROVE Queued(c, d)'
  <2>1. CASE d = x
    <3>1. heard[c][d] \in Nat /\ batches'[d] = batches[d] + 1 /\ batches[d] \in Nat
      BY <1>3, <2>1, FanoutAssumption DEF TypeInv, TypeOK
    <3>2. ASSUME NEW i \in DOMAIN out[c] PROVE out[c][i].n \in Nat
      BY Members
    <3> QED
      BY <1>2, <3>1, <3>2 DEF OrderInv, Queued
  <2>2. CASE d # x
    <3>1. batches'[d] = batches[d]
      BY <1>3, <2>2
    <3> QED
      BY <1>2, <3>1 DEF OrderInv, Queued
  <2> QED
    BY <2>1, <2>2
<1>6. ASSUME NEW g \in Goroutine, NEW d \in Conn PROVE Pending(g, d)'
  <2>1. CASE g = x /\ d = x
    <3>1. PICK f \in Frame : f = Batch(x, batches'[x])
      BY <1>4
    <3>2. PICK q \in Seq(Send) : q = SendTo(S, f)
      BY SendToFacts
    <3>3. todo'[x] = q
      BY <1>1, <1>2, <3>1, <3>2 DEF TypeInv
    <3> SUFFICES ASSUME NEW i \in DOMAIN q
                 PROVE  /\ Len(q) = 1
                        /\ q[i].frame.n = batches'[x]
                        /\ \A c \in q[i].to :
                             /\ heard[c][x] < batches'[x]
                             /\ \A j \in DOMAIN out[c] :
                                  IsBatch(out[c][j], x) => out[c][j].n < batches'[x]
      BY <1>2, <2>1, <3>3 DEF Pending
    <3>4. q # <<>>
      OBVIOUS
    <3>5. Len(q) = 1 /\ q[i].to = S /\ q[i].frame = f
      BY <3>2, <3>4, SendToFacts
    <3>6. ASSUME NEW c \in S
          PROVE  /\ heard[c][x] < batches'[x]
                 /\ \A j \in DOMAIN out[c] : IsBatch(out[c][j], x) => out[c][j].n < batches'[x]
      <4>1. c \in Conn /\ heard[c][x] \in Nat /\ heard[c][x] <= batches[x]
        BY FanoutAssumption DEF TypeInv, TypeOK, OrderInv, Queued
      <4>2. ASSUME NEW j \in DOMAIN out[c], IsBatch(out[c][j], x)
            PROVE  out[c][j].n \in Nat /\ out[c][j].n <= batches[x]
        BY <4>1, <4>2, Members DEF OrderInv, Queued
      <4> QED
        BY <1>3, <4>1, <4>2
    <3> QED
      BY <1>4, <3>1, <3>5, <3>6
  <2>2. CASE g = x /\ d # x
    <3>1. PICK f \in Frame : f = Batch(x, batches'[x])
      BY <1>4
    <3>2. todo'[x] = SendTo(S, f)
      BY <1>1, <1>2, <3>1 DEF TypeInv
    <3>3. \A i \in DOMAIN todo'[x] : todo'[x][i].frame = f
      BY <3>2, SendToFacts
    <3> QED
      BY <1>4, <2>2, <3>1, <3>3 DEF Pending
  <2>3. CASE g # x
    <3>1. todo'[g] = todo[g]
      BY <1>1, <2>3 DEF TypeInv
    <3>2. CASE d = x
      <4>1. \A i \in DOMAIN todo[g] : ~IsBatch(todo[g][i].frame, d)
        BY <2>3, <3>2 DEF OrderInv, Pending
      <4> QED
        BY <3>1, <4>1 DEF Pending
    <3>3. CASE d # x
      <4>1. batches'[d] = batches[d]
        BY <1>3, <3>3
      <4> QED
        BY <1>2, <3>1, <4>1 DEF OrderInv, Pending
    <3> QED
      BY <3>2, <3>3
  <2> QED
    BY <2>1, <2>2, <2>3
<1> QED
  BY <1>5, <1>6 DEF OrderInv

\* A batch goes to the end of a queue where all batches of its sender are older.
LEMMA EnqueueOrder ==
    ASSUME TypeInv, OrderInv, NEW g \in Goroutine, NEW x \in Conn, Enqueue(g, x)
    PROVE  OrderInv'
<1>1. /\ todo[g] # <<>> /\ x \in Head(todo[g]).to /\ Told(g, x)
      /\ todo \in [Goroutine -> Seq(Send)] /\ UNCHANGED <<batches, heard>>
  BY DEF Enqueue, TypeInv
<1>2. 1 \in DOMAIN todo[g] /\ Head(todo[g]) = todo[g][1]
  BY <1>1
<1>3. PICK f \in Frame : f = todo[g][1].frame
  BY <1>2, Members
<1>4. \A c \in Conn : c # x => out'[c] = out[c]
  BY DEF Enqueue, ShutDown, TypeInv
<1>5. \/ out'[x] = out[x] \/ out'[x] = <<>>
      \/ out'[x] = Append(out[x], f)
  BY <1>2, <1>3 DEF Enqueue, ShutDown, TypeInv
<1>6. ASSUME NEW d \in Conn, IsBatch(f, d)
      PROVE  /\ g = d /\ Len(todo[g]) = 1 /\ f.n = batches[d]
             /\ heard[x][d] < batches[d]
             /\ \A j \in DOMAIN out[x] : IsBatch(out[x][j], d) => out[x][j].n < batches[d]
  BY <1>1, <1>2, <1>3, <1>6 DEF OrderInv, Pending
<1>7. ASSUME out'[x] = Append(out[x], f)
      PROVE  /\ \A j \in DOMAIN out[x] : j \in DOMAIN out'[x] /\ out'[x][j] = out[x][j]
             /\ out'[x][Len(out[x]) + 1] = f
             /\ DOMAIN out[x] = 1 .. Len(out[x]) /\ Len(out[x]) \in Nat
             /\ DOMAIN out'[x] = 1 .. Len(out[x]) + 1
  <2>1. out[x] \in Seq(Frame)
    BY DEF TypeInv
  <2> QED
    BY <1>7, <2>1
<1>8. ASSUME NEW c \in Conn, NEW d \in Conn PROVE Queued(c, d)'
  <2>1. Queued(c, d)
    BY DEF OrderInv
  <2>2. CASE out'[c] = out[c] \/ out'[c] = <<>>
    BY <1>1, <2>1, <2>2, QueuedLoses
  <2>3. CASE c = x /\ out'[x] = Append(out[x], f)
    <3> DEFINE m == Len(out[x]) + 1
    <3>1. UNCHANGED <<batches, heard>> /\ heard[x][d] <= batches[d]
      BY <1>1, <2>1, <2>3 DEF Queued
    <3>2. ASSUME NEW i \in DOMAIN out'[x], IsBatch(out'[x][i], d)
          PROVE  heard[x][d] < out'[x][i].n /\ out'[x][i].n <= batches[d]
      <4>1. CASE i = m
        <5>1. IsBatch(f, d) /\ out'[x][i] = f
          BY <1>7, <2>3, <3>2, <4>1
        <5>2. heard[x][d] < f.n /\ f.n <= batches[d]
          BY <1>6, <5>1, Members
        <5> QED
          BY <5>1, <5>2
      <4>2. CASE i # m
        <5>1. i \in DOMAIN out[x] /\ out'[x][i] = out[x][i]
          BY <1>7, <2>3, <4>2
        <5> QED
          BY <2>1, <2>3, <3>2, <5>1 DEF Queued
      <4> QED
        BY <4>1, <4>2
    <3>3. ASSUME NEW i \in DOMAIN out'[x], IsBatch(out'[x][i], d),
                 NEW j \in DOMAIN out'[x], IsBatch(out'[x][j], d), i < j
          PROVE  out'[x][i].n < out'[x][j].n
      <4>1. i \in DOMAIN out[x] /\ out'[x][i] = out[x][i]
        BY <1>7, <2>3, <3>3
      <4>2. CASE j = m
        <5>1. IsBatch(f, d) /\ out'[x][j] = f
          BY <1>7, <2>3, <3>3, <4>2
        <5>2. out[x][i].n < f.n
          BY <1>6, <3>3, <4>1, <5>1
        <5> QED
          BY <4>1, <5>1, <5>2
      <4>3. CASE j # m
        <5>1. j \in DOMAIN out[x] /\ out'[x][j] = out[x][j]
          BY <1>7, <2>3, <4>3
        <5> QED
          BY <2>1, <2>3, <3>3, <4>1, <5>1 DEF Queued
      <4> QED
        BY <4>2, <4>3
    <3> QED
      BY <2>3, <3>1, <3>2, <3>3 DEF Queued
  <2> QED
    BY <1>4, <1>5, <2>2, <2>3
<1>9. ASSUME NEW h \in Goroutine, NEW d \in Conn PROVE Pending(h, d)'
  <2> SUFFICES ASSUME NEW j \in DOMAIN todo'[h], IsBatch(todo'[h][j].frame, d)
               PROVE  /\ h = d /\ Len(todo'[h]) = 1
                      /\ todo'[h][j].frame.n = batches[d]
                      /\ \A c \in todo'[h][j].to :
                           /\ heard[c][d] < batches[d]
                           /\ \A k \in DOMAIN out'[c] :
                                IsBatch(out'[c][k], d) => out'[c][k].n < batches[d]
    BY <1>1 DEF Pending
  <2>1. PICK i \in DOMAIN todo[h] :
          /\ todo'[h][j].frame = todo[h][i].frame
          /\ todo'[h][j].to \subseteq todo[h][i].to
          /\ h = g /\ i = 1 => x \notin todo'[h][j].to
    <3>1. CASE h = g
      BY <1>1, <3>1, ToldFacts
    <3>2. CASE h # g
      <4>1. todo'[h] = todo[h]
        BY <1>1, <3>2, ToldFacts
      <4> QED
        BY <3>2, <4>1
    <3> QED
      BY <3>1, <3>2
  <2>2. /\ h = d /\ Len(todo[h]) = 1 /\ todo[h][i].frame.n = batches[d]
        /\ \A c \in todo[h][i].to :
             /\ heard[c][d] < batches[d]
             /\ \A k \in DOMAIN out[c] : IsBatch(out[c][k], d) => out[c][k].n < batches[d]
    BY <2>1 DEF OrderInv, Pending
  <2>3. Len(todo'[h]) = 1 /\ i = 1
    <3>1. todo'[h] \in Seq(Send) /\ todo[h] \in Seq(Send) /\ Len(todo'[h]) <= Len(todo[h])
      <4>1. CASE h = g
        BY <1>1, <4>1, ToldFacts
      <4>2. CASE h # g
        BY <1>1, <4>2, ToldFacts
      <4> QED
        BY <4>1, <4>2
    <3> QED
      BY <2>2, <3>1
  <2>4. ASSUME NEW c \in todo'[h][j].to, NEW k \in DOMAIN out'[c], IsBatch(out'[c][k], d)
        PROVE  out'[c][k].n < batches[d]
    <3>1. c \in Conn /\ c \in todo[h][i].to
      BY <2>1, Members
    <3>2. CASE k \in DOMAIN out[c] /\ out'[c][k] = out[c][k]
      BY <2>2, <2>4, <3>1, <3>2
    <3>3. CASE c = x /\ out'[x] = Append(out[x], f) /\ out'[c][k] = f
      <4>1. g = d
        BY <1>6, <2>4, <3>3
      <4> QED
        BY <2>1, <2>2, <2>3, <2>4, <3>3, <4>1
    <3>4. CASE out'[c] = <<>>
      BY <2>4, <3>4
    <3> QED
      BY <1>4, <1>5, <1>7, <3>1, <3>2, <3>3, <3>4
  <2> QED
    BY <2>1, <2>2, <2>3, <2>4
<1> QED
  BY <1>8, <1>9 DEF OrderInv

\* The frame that is written, if it is a batch, is the oldest of its sender in the queue and
\* newer than what was heard.
LEMMA WriteOrder ==
    ASSUME TypeInv, OrderInv, NEW x \in Conn, Write(x)
    PROVE  /\ OrderInv'
           /\ \A c, d \in Conn : IF Hears(c, d) THEN heard'[c][d] > heard[c][d]
                                                ELSE heard'[c][d] = heard[c][d]
<1>1. /\ ~done[x] /\ out[x] # <<>> /\ out[x] \in Seq(Frame) /\ out \in [Conn -> Seq(Frame)]
      /\ done \in [Conn -> BOOLEAN] /\ heard \in [Conn -> [Conn -> 0 .. MaxBatches]]
      /\ UNCHANGED <<batches, todo>>
  BY DEF Write, TypeInv, TypeOK
<1>2. PICK f \in Frame : f = Head(out[x]) /\ f = out[x][1] /\ 1 \in DOMAIN out[x]
  BY <1>1
<1>3. \A c, d \in Conn :
        heard'[c][d] = IF c = x /\ IsBatch(f, d) THEN f.n ELSE heard[c][d]
  BY <1>1, <1>2 DEF Write, Receive, IsBatch
<1>4. \A c \in Conn : c # x => out'[c] = out[c]
  BY <1>1 DEF Write, ShutDown
<1>5. ASSUME NEW i \in DOMAIN out'[x]
      PROVE  /\ f.kind # "closing" /\ i \in Nat \ {0}
             /\ i + 1 \in DOMAIN out[x] /\ out'[x][i] = out[x][i + 1]
  <2>1. f.kind # "closing"
    BY <1>1, <1>2, <1>5 DEF Write, ShutDown
  <2>2. out'[x] = Tail(out[x])
    BY <1>1, <1>2, <2>1 DEF Write
  <2>3. Tail(out[x]) \in Seq(Frame)
    BY <1>1
  <2> QED
    BY <1>1, <1>5, <2>1, <2>2, <2>3, Written
<1>6. ASSUME NEW d \in Conn, IsBatch(f, d)
      PROVE  heard[x][d] < f.n /\ f.n <= batches[d]
  BY <1>2, <1>6 DEF OrderInv, Queued
<1>7. ASSUME NEW c \in Conn, NEW d \in Conn PROVE Queued(c, d)'
  <2>1. Queued(c, d)
    BY DEF OrderInv
  <2>2. CASE c # x
    <3>1. out'[c] = out[c] /\ heard'[c][d] = heard[c][d] /\ UNCHANGED batches
      BY <1>1, <1>3, <1>4, <2>2
    <3> QED
      BY <2>1, <3>1 DEF Queued
  <2>3. CASE c = x
    <3>1. heard'[x][d] <= batches[d]
      BY <1>3, <1>6, <2>1, <2>3 DEF Queued
    <3>2. ASSUME NEW i \in DOMAIN out'[x], IsBatch(out'[x][i], d)
          PROVE  heard'[x][d] < out'[x][i].n /\ out'[x][i].n <= batches[d]
      <4>1. i + 1 \in DOMAIN out[x] /\ out'[x][i] = out[x][i + 1] /\ 1 < i + 1
        <5>1. i \in Nat /\ i # 0
          BY <1>5
        <5> QED
          BY <1>5, <5>1
      <4>2. heard[x][d] < out[x][i + 1].n /\ out[x][i + 1].n <= batches[d]
        BY <2>1, <2>3, <3>2, <4>1 DEF Queued
      <4>3. CASE IsBatch(f, d)
        BY <1>2, <1>3, <2>1, <2>3, <3>2, <4>1, <4>2, <4>3 DEF Queued
      <4>4. CASE ~IsBatch(f, d)
        BY <1>3, <4>1, <4>2, <4>4
      <4> QED
        BY <4>3, <4>4
    <3>3. ASSUME NEW i \in DOMAIN out'[x], IsBatch(out'[x][i], d),
                 NEW j \in DOMAIN out'[x], IsBatch(out'[x][j], d), i < j
          PROVE  out'[x][i].n < out'[x][j].n
      <4>1. i + 1 < j + 1
        BY <1>5, <3>3
      <4> QED
        BY <1>5, <2>1, <2>3, <3>3, <4>1 DEF Queued
    <3> QED
      BY <1>1, <2>3, <3>1, <3>2, <3>3 DEF Queued
  <2> QED
    BY <2>2, <2>3
<1>8. ASSUME NEW g \in Goroutine, NEW d \in Conn PROVE Pending(g, d)'
  <2> SUFFICES ASSUME NEW i \in DOMAIN todo[g], IsBatch(todo[g][i].frame, d)
               PROVE  /\ g = d /\ Len(todo[g]) = 1
                      /\ todo[g][i].frame.n = batches[d]
                      /\ \A c \in todo[g][i].to :
                           /\ heard'[c][d] < batches[d]
                           /\ \A j \in DOMAIN out'[c] :
                                IsBatch(out'[c][j], d) => out'[c][j].n < batches[d]
    BY <1>1 DEF Pending
  <2>1. /\ g = d /\ Len(todo[g]) = 1
        /\ todo[g][i].frame.n = batches[d]
        /\ \A c \in todo[g][i].to :
             /\ heard[c][d] < batches[d]
             /\ \A j \in DOMAIN out[c] : IsBatch(out[c][j], d) => out[c][j].n < batches[d]
    BY DEF OrderInv, Pending
  <2>2. ASSUME NEW c \in todo[g][i].to
        PROVE  /\ heard'[c][d] < batches[d]
               /\ \A j \in DOMAIN out'[c] : IsBatch(out'[c][j], d) => out'[c][j].n < batches[d]
    <3>1. c \in Conn
      BY Members
    <3>2. CASE c = x
      <4>1. heard'[x][d] < batches[d]
        BY <1>2, <1>3, <2>1, <2>2, <3>2
      <4>2. ASSUME NEW j \in DOMAIN out'[x], IsBatch(out'[x][j], d)
            PROVE  out'[x][j].n < batches[d]
        BY <1>5, <2>1, <2>2, <3>2, <4>2
      <4> QED
        BY <3>2, <4>1, <4>2
    <3>3. CASE c # x
      BY <1>3, <1>4, <2>1, <2>2, <3>1, <3>3
    <3> QED
      BY <3>2, <3>3
  <2> QED
    BY <2>1, <2>2
<1>9. ASSUME NEW c \in Conn, NEW d \in Conn
      PROVE  IF Hears(c, d) THEN heard'[c][d] > heard[c][d] ELSE heard'[c][d] = heard[c][d]
  <2>1. CASE c = x /\ IsBatch(f, d)
    <3>1. Hears(c, d)
      BY <1>1, <1>2, <2>1 DEF Hears, IsBatch, Write
    <3>2. heard'[c][d] = f.n /\ heard[c][d] < f.n
      BY <1>3, <1>6, <2>1
    <3> QED
      BY <3>1, <3>2, Members
  <2>2. CASE c = x /\ ~IsBatch(f, d)
    <3>1. ~Hears(c, d)
      BY <1>2, <2>2 DEF Hears, IsBatch
    <3> QED
      BY <1>3, <2>2, <3>1
  <2>3. CASE c # x
    <3>1. out'[c] = out[c]
      BY <1>4, <2>3
    <3>2. out[c] # <<>> => out[c] # Tail(out[c])
      <4>1. out[c] \in Seq(Frame)
        BY <1>1
      <4>2. out[c] # <<>> => Len(Tail(out[c])) # Len(out[c])
        BY <4>1, Written
      <4> QED
        BY <4>2
    <3>3. ~Hears(c, d)
      BY <3>1, <3>2 DEF Hears
    <3> QED
      BY <1>3, <2>3, <3>3
  <2> QED
    BY <2>1, <2>2, <2>3
<1> QED
  BY <1>7, <1>8, <1>9 DEF OrderInv

\* Nothing is heard in a step that leaves heard alone: the writer of c does not take the head
\* of its queue and keep the connection.
LEMMA NothingHeard ==
    ASSUME TypeInv, UNCHANGED heard, NEW c \in Conn, NEW d \in Conn,
           out[c] # <<>> => \/ out'[c] = out[c] \/ done'[c]
                            \/ Len(out'[c]) > Len(out[c])
    PROVE  IF Hears(c, d) THEN heard'[c][d] > heard[c][d] ELSE heard'[c][d] = heard[c][d]
<1>1. out[c] \in Seq(Frame)
  BY DEF TypeInv
<1>2. ~Hears(c, d)
  <2>1. CASE out[c] # <<>> /\ out'[c] = Tail(out[c])
    <3>1. Len(out[c]) \in Nat /\ Len(out'[c]) = Len(out[c]) - 1
      BY <1>1, <2>1, Written
    <3>2. out'[c] # out[c] /\ ~(Len(out'[c]) > Len(out[c]))
      BY <3>1
    <3>3. done'[c]
      BY <2>1, <3>2
    <3> QED
      BY <3>3, Zenon DEF Hears
  <2> QED
    BY <2>1, Zenon DEF Hears
<1> QED
  BY <1>2

LEMMA StepOrder ==
    ASSUME TypeInv, OrderInv, [Next]_vars
    PROVE  /\ OrderInv'
           /\ \A c, d \in Conn : IF Hears(c, d) THEN heard'[c][d] > heard[c][d]
                                                ELSE heard'[c][d] = heard[c][d]
<1>1. ASSUME NEW x \in Conn, ShutDown(x), NEW c \in Conn
      PROVE  out'[c] = out[c] \/ done'[c]
  BY <1>1 DEF ShutDown, TypeInv, TypeOK
<1>2. CASE Collects
  <2>1. UNCHANGED <<out, heard>>
    BY <1>2 DEF Collects
  <2> QED
    BY <1>2, <2>1, CollectsOrder, NothingHeard
<1>3. CASE Closes
  <2>1. PICK x \in Conn : ShutDown(x) /\ UNCHANGED <<todo, batches, heard>>
    BY <1>3 DEF Closes
  <2> QED
    BY <2>1, <1>1, ShutDownOrder, NothingHeard
<1>4. ASSUME NEW x \in Conn, NEW tag \in Team \cup {NoTeam}, Activity(x, tag)
      PROVE  /\ OrderInv'
             /\ \A c, d \in Conn : IF Hears(c, d) THEN heard'[c][d] > heard[c][d]
                                                  ELSE heard'[c][d] = heard[c][d]
  <2>1. UNCHANGED <<out, heard>>
    BY <1>4 DEF Activity
  <2> QED
    BY <1>4, <2>1, ActivityOrder, NothingHeard
<1>5. ASSUME NEW g \in Goroutine, NEW x \in Conn, Enqueue(g, x)
      PROVE  /\ OrderInv'
             /\ \A c, d \in Conn : IF Hears(c, d) THEN heard'[c][d] > heard[c][d]
                                                  ELSE heard'[c][d] = heard[c][d]
  <2>1. UNCHANGED heard
    BY <1>5 DEF Enqueue
  <2>2. ASSUME NEW c \in Conn
        PROVE  out'[c] = out[c] \/ done'[c] \/ Len(out'[c]) > Len(out[c])
    <3>1. PICK f : f = Head(todo[g]).frame
      OBVIOUS
    <3>2. CASE out' = [out EXCEPT ![x] = Append(@, f)] /\ c = x
      <4>1. out[c] \in Seq(Frame)
        BY DEF TypeInv
      <4>2. out'[c] = Append(out[c], f)
        BY <3>2 DEF TypeInv
      <4>3. f \in Frame
        <5>1. Head(todo[g]) \in Send
          BY <1>5 DEF Enqueue, TypeInv
        <5> QED
          BY <3>1, <5>1 DEF Send
      <4> QED
        BY <4>1, <4>2, <4>3
    <3>3. CASE out' = [out EXCEPT ![x] = Append(@, f)] /\ c # x
      BY <3>3 DEF TypeInv
    <3> QED
      BY <1>1, <1>5, <3>1, <3>2, <3>3 DEF Enqueue
  <2> QED
    BY <1>5, <2>1, <2>2, EnqueueOrder, NothingHeard
<1>6. CASE \E x \in Conn : Write(x)
  BY <1>6, WriteOrder
<1>7. CASE UNCHANGED vars
  <2>1. UNCHANGED <<out, todo, batches, heard>>
    BY <1>7 DEF vars
  <2>2. OrderInv'
    BY <2>1 DEF OrderInv, Pending, Queued
  <2> QED
    BY <2>1, <2>2, NothingHeard
<1> QED
  BY <1>2, <1>3, <1>4, <1>5, <1>6, <1>7, StepKinds

\* A peer's activity reaches each listener in the order it was sent, without repetition: a
\* batch that is heard is newer than all that was heard of that peer before.
THEOREM ActivityKeepsOrder == Spec => ActivityInOrder
<1>1. Init => TypeInv /\ OrderInv
  BY InitType, InitOrder
<1>2. TypeInv /\ OrderInv /\ [Next]_vars => TypeInv' /\ OrderInv'
  BY StepType, StepOrder
<1>3. TypeInv /\ OrderInv /\ [Next]_vars =>
        [\A c, d \in Conn : IF Hears(c, d) THEN heard'[c][d] > heard[c][d]
                                           ELSE heard'[c][d] = heard[c][d]]_vars
  BY StepOrder
<1> QED
  BY <1>1, <1>2, <1>3, PTL DEF Spec, ActivityInOrder

=============================================================================
