---------------------------- MODULE SessionProofs ----------------------------
(* What goes out first on a connection of Session, and that there is never more *)
(* than one, for any number of connections, senders and events.                 *)
EXTENDS Session, SequenceTheorems, TLAPS

\* Where connectLoop has a connection of its own.
Holding == {"dialed", "joining", "failed", "unsettingFailed", "greeting", "reading",
            "detaching", "unsetting", "closing"}

\* Where that connection may be published in s.ws.
Published == {"joining", "failed", "unsettingFailed", "greeting", "reading",
              "detaching", "unsetting"}

\* The mutex is held by whoever writes, and only then.
Mutex ==
    /\ mu = "loop" <=> loop = "joining"
    /\ mu = "batcher" <=> batcher \in {"writing", "writingLast"}
    /\ \A s \in Sender : mu = s <=> sender[s] = "writing"

\* s.ws is the connection of the loop or nothing, and something for those who write.
Publishing ==
    /\ loop \in Holding => conn \in Conn
    /\ ws # NoConn => ws = conn /\ loop \in Published
    /\ mu # Nobody => ws # NoConn

\* An open connection in s.ws on which the join is not being written has had it.
Joined == ws # NoConn /\ mu # "loop" /\ sock[ws] = "open" => first[ws] = "join"

\* A connection that is not closed is that of the loop.
Owned == \A c \in Conn : sock[c] # "closed" => c = conn /\ loop \in Holding

\* A failed join leaves a connection that takes no frame, later none at all.
Failed ==
    /\ loop = "failed" => sock[conn] # "open"
    /\ loop = "unsettingFailed" => sock[conn] = "closed"

SocketInv == Mutex /\ Publishing /\ Joined /\ Owned /\ Failed /\ JoinIsFirst

IInv == Shape /\ SocketInv

-----------------------------------------------------------------------------
LEMMA InitIInv == Init => IInv
<1> USE SessionAssumption
<1>1. Init => Shape
  <2>1. <<>> \in Seq(1 .. MaxEvents)
    OBVIOUS
  <2> QED BY <2>1 DEF Init, Shape
<1>2. Init => SocketInv
  BY DEF Init, SocketInv, Mutex, Publishing, Joined, Owned, Failed, JoinIsFirst, Holding, Published
<1> QED BY <1>1, <1>2 DEF IInv

\* The loop keeps the types.
LEMMA LoopTyped ==
  ASSUME Shape, Connects \/ Joins \/ Drops \/ Locks \/ RecvFatal \/ RecvLimited \/ ReadDies
  PROVE  Shape'
<1> USE SessionAssumption DEF Shape, Goto, Close, FirstFrame, connVars, batchVars
<1>1. CASE Connects
  <2>1. CASE Top  BY <2>1 DEF Top
  <2>2. CASE WaitLimited  BY <2>2 DEF WaitLimited
  <2>3. ASSUME NEW c \in Conn, Dial(c) PROVE Shape'  BY <2>3 DEF Dial, Free
  <2>4. CASE DialFails  BY <2>4 DEF DialFails
  <2>5. CASE DialLimited  BY <2>5 DEF DialLimited
  <2>6. CASE EndPause  BY <2>6 DEF EndPause
  <2> QED BY <1>1, <2>1, <2>2, <2>3, <2>4, <2>5, <2>6 DEF Connects
<1>2. CASE Joins
  <2>1. CASE Join  BY <2>1 DEF Join
  <2>2. CASE JoinFails  BY <2>2 DEF JoinFails
  <2>3. CASE CloseFailed  BY <2>3 DEF CloseFailed
  <2>4. CASE Greet  BY <2>4 DEF Greet
  <2> QED BY <1>2, <2>1, <2>2, <2>3, <2>4 DEF Joins
<1>3. CASE Drops
  <2>1. CASE ReadFails  BY <2>1 DEF ReadFails
  <2>2. CASE Detach  BY <2>2 DEF Detach
  <2>3. CASE CloseConn  BY <2>3 DEF CloseConn
  <2>4. CASE Sleep  BY <2>4 DEF Sleep
  <2> QED BY <1>3, <2>1, <2>2, <2>3, <2>4 DEF Drops
<1>4. CASE Locks
  <2>1. CASE LockForJoin  BY <2>1 DEF LockForJoin
  <2>2. CASE UnsetFailed  BY <2>2 DEF UnsetFailed
  <2>3. CASE Unset  BY <2>3 DEF Unset
  <2> QED BY <1>4, <2>1, <2>2, <2>3 DEF Locks
<1>5. CASE RecvFatal  BY <1>5 DEF RecvFatal
<1>6. CASE RecvLimited  BY <1>6 DEF RecvLimited
<1>7. CASE ReadDies  BY <1>7 DEF ReadDies
<1> QED BY <1>1, <1>2, <1>3, <1>4, <1>5, <1>6, <1>7

\* So do the batches.
LEMMA BatchTyped ==
  ASSUME Shape,
         Capture \/ Collect \/ Expire \/ LeaveBatches \/ LockForBatch \/ SendBatch \/ SendBatchFails
  PROVE  Shape'
<1> USE SessionAssumption DEF Shape, FirstFrame, connVars, batchVars, batchRest, AfterFlush
<1>0. <<>> \in Seq(1 .. MaxEvents)
  OBVIOUS
<1>1. CASE Capture
  <2>1. captured' \in 1 .. MaxEvents /\ local' \in Seq(1 .. MaxEvents)
    BY <1>1 DEF Capture
  <2> QED BY <1>1, <2>1 DEF Capture
<1>2. CASE Collect
  <2>1. Head(local) \in 1 .. MaxEvents /\ Tail(local) \in Seq(1 .. MaxEvents)
    BY <1>2 DEF Collect
  <2> QED BY <1>2, <2>1 DEF Collect
<1>3. CASE Expire  BY <1>3 DEF Expire
<1>4. CASE LeaveBatches  BY <1>4 DEF LeaveBatches
<1>5. CASE LockForBatch  BY <1>0, <1>5 DEF LockForBatch
<1>6. CASE SendBatch
  <2>1. sent \o batch \in Seq(1 .. MaxEvents)
    OBVIOUS
  <2> QED BY <1>0, <1>6, <2>1 DEF SendBatch
<1>7. CASE SendBatchFails  BY <1>0, <1>7 DEF SendBatchFails
<1> QED BY <1>1, <1>2, <1>3, <1>4, <1>5, <1>6, <1>7

\* And everybody else.
LEMMA StepTyped == Shape /\ [Next]_vars => Shape'
<1> SUFFICES ASSUME Shape, [Next]_vars PROVE Shape'
  OBVIOUS
<1>1. CASE Connects \/ Joins \/ Drops \/ Locks \/ RecvFatal \/ RecvLimited \/ ReadDies
  BY <1>1, LoopTyped
<1>2. CASE Capture \/ Collect \/ Expire \/ LeaveBatches \/ LockForBatch \/ SendBatch \/ SendBatchFails
  BY <1>2, BatchTyped
<1> USE SessionAssumption DEF Shape, Close, FirstFrame, connVars, batchVars
<1>3. ASSUME NEW c \in Conn PROVE WatcherCloses(c) \/ WatcherEnds(c) => Shape'
  <2>1. CASE WatcherCloses(c)  BY <2>1 DEF WatcherCloses
  <2>2. CASE WatcherEnds(c)  BY <2>2 DEF WatcherEnds
  <2> QED BY <2>1, <2>2
<1>4. ASSUME NEW s \in Sender PROVE Wake(s) \/ SenderEnds(s) \/ LockForSend(s) \/ Send(s) \/ SendFails(s) => Shape'
  <2>1. CASE Wake(s) \/ SenderEnds(s)  BY <2>1 DEF Wake, SenderEnds
  <2>2. CASE LockForSend(s)  BY <2>2 DEF LockForSend
  <2>3. CASE Send(s)  BY <2>3 DEF Send
  <2>4. CASE SendFails(s)  BY <2>4 DEF SendFails
  <2> QED BY <2>1, <2>2, <2>3, <2>4
<1>5. CASE Reload  BY <1>5 DEF Reload
<1>6. CASE Stop  BY <1>6 DEF Stop
<1>7. CASE LockForStop  BY <1>7 DEF LockForStop
<1>8. CASE WindowEnds  BY <1>8 DEF WindowEnds
<1>9. CASE UNCHANGED vars  BY <1>9 DEF vars
<1> QED BY <1>1, <1>2, <1>3, <1>4, <1>5, <1>6, <1>7, <1>8, <1>9 DEF Next

-----------------------------------------------------------------------------
\* The loop publishes its connection and joins under one hold of the mutex.
LEMMA LoopSockets ==
  ASSUME IInv, Connects \/ Joins \/ Drops \/ Locks \/ RecvFatal \/ RecvLimited \/ ReadDies
  PROVE  SocketInv'
<1> USE SessionAssumption DEF IInv, Shape, SocketInv, Mutex, Publishing, Joined, Owned, Failed,
        JoinIsFirst, Holding, Published, Goto, Close, FirstFrame, connVars, batchVars
<1>1. CASE Connects
  <2>1. CASE Top  BY <2>1 DEF Top
  <2>2. CASE WaitLimited  BY <2>2 DEF WaitLimited
  <2>3. ASSUME NEW c \in Conn, Dial(c) PROVE SocketInv'  BY <2>3 DEF Dial, Free
  <2>4. CASE DialFails  BY <2>4 DEF DialFails
  <2>5. CASE DialLimited  BY <2>5 DEF DialLimited
  <2>6. CASE EndPause  BY <2>6 DEF EndPause
  <2> QED BY <1>1, <2>1, <2>2, <2>3, <2>4, <2>5, <2>6 DEF Connects
<1>2. CASE Joins
  <2>1. CASE Join  BY <2>1 DEF Join
  <2>2. CASE JoinFails  BY <2>2 DEF JoinFails
  <2>3. CASE CloseFailed  BY <2>3 DEF CloseFailed
  <2>4. CASE Greet  BY <2>4 DEF Greet
  <2> QED BY <1>2, <2>1, <2>2, <2>3, <2>4 DEF Joins
<1>3. CASE Drops
  <2>1. CASE ReadFails  BY <2>1 DEF ReadFails
  <2>2. CASE Detach  BY <2>2 DEF Detach
  <2>3. CASE CloseConn  BY <2>3 DEF CloseConn
  <2>4. CASE Sleep  BY <2>4 DEF Sleep
  <2> QED BY <1>3, <2>1, <2>2, <2>3, <2>4 DEF Drops
<1>4. CASE Locks
  <2>1. CASE LockForJoin  BY <2>1 DEF LockForJoin
  <2>2. CASE UnsetFailed  BY <2>2 DEF UnsetFailed
  <2>3. CASE Unset  BY <2>3 DEF Unset
  <2> QED BY <1>4, <2>1, <2>2, <2>3 DEF Locks
<1>5. CASE RecvFatal  BY <1>5 DEF RecvFatal
<1>6. CASE RecvLimited  BY <1>6 DEF RecvLimited
<1>7. CASE ReadDies  BY <1>7 DEF ReadDies
<1> QED BY <1>1, <1>2, <1>3, <1>4, <1>5, <1>6, <1>7

\* The others only write to a connection that has had its join, or close it.
LEMMA OtherSockets ==
  ASSUME IInv, Next, ~(Connects \/ Joins \/ Drops \/ Locks \/ RecvFatal \/ RecvLimited \/ ReadDies)
  PROVE  SocketInv'
<1> USE SessionAssumption DEF IInv, Shape, SocketInv, Mutex, Publishing, Joined, Owned, Failed,
        JoinIsFirst, Holding, Published, Close, FirstFrame, connVars, batchVars, batchRest, AfterFlush
<1>1. ASSUME NEW c \in Conn, WatcherCloses(c) \/ WatcherEnds(c) PROVE SocketInv'
  BY <1>1 DEF WatcherCloses, WatcherEnds
<1>2. ASSUME NEW s \in Sender
      PROVE  Wake(s) \/ SenderEnds(s) \/ LockForSend(s) \/ Send(s) \/ SendFails(s) => SocketInv'
  <2>1. CASE Wake(s) \/ SenderEnds(s)  BY <2>1 DEF Wake, SenderEnds
  <2>2. CASE LockForSend(s)  BY <2>2 DEF LockForSend
  <2>3. CASE Send(s)  BY <2>3 DEF Send
  <2>4. CASE SendFails(s)  BY <2>4 DEF SendFails
  <2> QED BY <2>1, <2>2, <2>3, <2>4
<1>3. CASE Reload  BY <1>3 DEF Reload
<1>4. CASE Capture  BY <1>4 DEF Capture
<1>5. CASE Collect  BY <1>5 DEF Collect
<1>6. CASE Expire  BY <1>6 DEF Expire
<1>7. CASE LeaveBatches  BY <1>7 DEF LeaveBatches
<1>8. CASE LockForBatch  BY <1>8 DEF LockForBatch
<1>9. CASE SendBatch  BY <1>9 DEF SendBatch
<1>10. CASE SendBatchFails  BY <1>10 DEF SendBatchFails
<1>11. CASE Stop  BY <1>11 DEF Stop
<1>12. CASE LockForStop  BY <1>12 DEF LockForStop
<1>13. CASE WindowEnds  BY <1>13 DEF WindowEnds
<1> QED
  BY <1>1, <1>2, <1>3, <1>4, <1>5, <1>6, <1>7, <1>8, <1>9, <1>10, <1>11, <1>12, <1>13 DEF Next

LEMMA StepIInv == IInv /\ [Next]_vars => IInv'
<1> SUFFICES ASSUME IInv, [Next]_vars PROVE IInv'
  OBVIOUS
<1>1. Shape'
  BY StepTyped DEF IInv
<1>2. CASE Next
  BY <1>1, <1>2, LoopSockets, OtherSockets DEF IInv
<1>3. CASE UNCHANGED vars
  BY <1>3 DEF vars, connVars, batchVars, IInv, Shape, SocketInv, Mutex, Publishing, Joined,
              Owned, Failed, JoinIsFirst
<1> QED BY <1>2, <1>3

-----------------------------------------------------------------------------
\* The first frame on every connection is its join.
THEOREM JoinGoesFirst == Spec => []JoinIsFirst
<1>1. IInv => JoinIsFirst
  BY DEF IInv, SocketInv
<1> QED BY InitIInv, StepIInv, <1>1, PTL DEF Spec

\* There is one connection at a time.
THEOREM OneConnectionAtATime == Spec => []OneConnection
<1>1. IInv => OneConnection
  BY DEF IInv, SocketInv, Owned, OneConnection
<1> QED BY InitIInv, StepIInv, <1>1, PTL DEF Spec

\* The flags are Boolean whatever happens, which needs nothing of the rest.
LEMMA StepFlags == Flags /\ [Next]_vars => Flags'
<1> SUFFICES ASSUME Flags, [Next]_vars PROVE Flags'
  OBVIOUS
<1> USE DEF Flags, Goto, connVars, batchVars, batchRest
<1>1. CASE Connects
  BY <1>1 DEF Connects, Top, WaitLimited, Dial, DialFails, DialLimited, EndPause
<1>2. CASE Joins
  BY <1>2 DEF Joins, Join, JoinFails, CloseFailed, Greet
<1>3. CASE Drops
  BY <1>3 DEF Drops, ReadFails, Detach, CloseConn, Sleep
<1>4. CASE Locks
  BY <1>4 DEF Locks, LockForJoin, UnsetFailed, Unset
<1>5. CASE RecvFatal \/ RecvLimited \/ ReadDies \/ Reload
  BY <1>5 DEF RecvFatal, RecvLimited, ReadDies, Reload
<1>6. CASE \E c \in Conn : WatcherCloses(c) \/ WatcherEnds(c)
  BY <1>6 DEF WatcherCloses, WatcherEnds
<1>7. CASE \E s \in Sender : Wake(s) \/ SenderEnds(s) \/ LockForSend(s) \/ Send(s) \/ SendFails(s)
  BY <1>7 DEF Wake, SenderEnds, LockForSend, Send, SendFails
<1>8. CASE Capture \/ Collect \/ Expire \/ LeaveBatches
  BY <1>8 DEF Capture, Collect, Expire, LeaveBatches
<1>9. CASE LockForBatch \/ SendBatch \/ SendBatchFails
  BY <1>9 DEF LockForBatch, SendBatch, SendBatchFails
<1>10. CASE Stop \/ LockForStop \/ WindowEnds
  BY <1>10 DEF Stop, LockForStop, WindowEnds
<1>11. CASE UNCHANGED vars
  BY <1>11 DEF vars
<1> QED BY <1>1, <1>2, <1>3, <1>4, <1>5, <1>6, <1>7, <1>8, <1>9, <1>10, <1>11 DEF Next

\* Types: TypeOK, for any instance.
THEOREM SessionIsTyped == Spec => []TypeOK
<1>1. Init => Flags
  BY DEF Init, Flags
<1>2. IInv /\ Flags => TypeOK
  BY DEF IInv, TypeOK
<1> QED BY InitIInv, StepIInv, <1>1, <1>2, StepFlags, PTL DEF Spec

-----------------------------------------------------------------------------
(* The events: what was sent is before what is collected, and that before what waits. *)

Rising(q)   == \A i, j \in DOMAIN q : i < j => q[i] < q[j]
Before(q, r) == \A i \in DOMAIN q, j \in DOMAIN r : q[i] < r[j]
UpTo(q, n)  == \A i \in DOMAIN q : q[i] <= n

Ordered ==
    /\ Rising(sent) /\ Rising(batch) /\ Rising(local)
    /\ Before(sent, batch) /\ Before(sent, local) /\ Before(batch, local)
    /\ UpTo(sent, captured) /\ UpTo(batch, captured) /\ UpTo(local, captured)

\* The timer runs as long as something waits to be sent, and not while it is sent.
Timed ==
    /\ batcher = "select" => (timer = (batch # <<>>))
    /\ batcher \in {"flushing", "writing"} => timer = FALSE

BatchInv == Ordered /\ Timed

LEMMA EmptyOrder ==
    ASSUME NEW q, NEW n
    PROVE  Rising(<<>>) /\ Before(<<>>, q) /\ Before(q, <<>>) /\ UpTo(<<>>, n)
BY DEF Rising, Before, UpTo

LEMMA Indexed ==
    ASSUME NEW q \in Seq(1 .. MaxEvents)
    PROVE  Len(q) \in Nat /\ DOMAIN q = 1 .. Len(q) /\ \A i \in DOMAIN q : q[i] \in 1 .. MaxEvents /\ q[i] \in Nat
<1>1. Len(q) \in Nat /\ q \in [1 .. Len(q) -> 1 .. MaxEvents] /\ DOMAIN q = 1 .. Len(q)
  BY LenProperties
<1>2. \A i \in 1 .. Len(q) : q[i] \in 1 .. MaxEvents
  BY <1>1
<1>3. 1 .. MaxEvents \subseteq Nat
  BY SessionAssumption
<1>4. QED  BY <1>1, <1>2, <1>3

LEMMA Appended ==
    ASSUME NEW q \in Seq(1 .. MaxEvents), NEW n \in 1 .. MaxEvents
    PROVE  /\ DOMAIN Append(q, n) = 1 .. Len(q) + 1
           /\ \A i \in 1 .. Len(q) : Append(q, n)[i] = q[i]
           /\ Append(q, n)[Len(q) + 1] = n
<1>1. /\ Append(q, n) \in Seq(1 .. MaxEvents) /\ Len(Append(q, n)) = Len(q) + 1
      /\ \A i \in 1 .. Len(q) : Append(q, n)[i] = q[i]
      /\ Append(q, n)[Len(q) + 1] = n
  BY AppendProperties
<1>2. QED  BY <1>1, Indexed

\* A later event at the end.
LEMMA LaterAtTheEnd ==
    ASSUME NEW q \in Seq(1 .. MaxEvents), NEW n \in 1 .. MaxEvents, NEW m \in Nat, Rising(q),
           UpTo(q, m), m < n
    PROVE  Rising(Append(q, n)) /\ UpTo(Append(q, n), n)
<1>1. /\ Len(q) \in Nat /\ DOMAIN q = 1 .. Len(q) /\ \A i \in 1 .. Len(q) : q[i] \in Nat
      /\ DOMAIN Append(q, n) = 1 .. Len(q) + 1
      /\ \A i \in 1 .. Len(q) : Append(q, n)[i] = q[i]
      /\ Append(q, n)[Len(q) + 1] = n /\ n \in Nat
  BY Indexed, Appended, SessionAssumption
<1>2. \A i \in 1 .. Len(q) : q[i] < n
  BY <1>1 DEF UpTo
<1>3. QED  BY <1>1, <1>2 DEF Rising, UpTo

\* The head of what waits goes to the end of what is collected.
LEMMA HeadCollected ==
    ASSUME NEW q \in Seq(1 .. MaxEvents), NEW r \in Seq(1 .. MaxEvents), NEW s \in Seq(1 .. MaxEvents),
           NEW n \in Nat, r # <<>>, Rising(q), Rising(r), Before(q, r), Before(s, q), Before(s, r),
           UpTo(q, n), UpTo(r, n)
    PROVE  /\ Rising(Append(q, Head(r))) /\ Rising(Tail(r))
           /\ Before(Append(q, Head(r)), Tail(r)) /\ Before(s, Append(q, Head(r))) /\ Before(s, Tail(r))
           /\ UpTo(Append(q, Head(r)), n) /\ UpTo(Tail(r), n)
<1>1. /\ Len(q) \in Nat /\ DOMAIN q = 1 .. Len(q) /\ \A i \in 1 .. Len(q) : q[i] \in Nat
      /\ Len(r) \in Nat \ {0} /\ DOMAIN r = 1 .. Len(r) /\ \A i \in 1 .. Len(r) : r[i] \in Nat
      /\ Head(r) = r[1] /\ Head(r) \in 1 .. MaxEvents
  BY Indexed, EmptySeq, HeadTailProperties
<1>2. /\ DOMAIN Append(q, Head(r)) = 1 .. Len(q) + 1
      /\ \A i \in 1 .. Len(q) : Append(q, Head(r))[i] = q[i]
      /\ Append(q, Head(r))[Len(q) + 1] = r[1]
  BY <1>1, Appended
<1>3. DOMAIN Tail(r) = 1 .. Len(r) - 1 /\ \A i \in 1 .. Len(r) - 1 : Tail(r)[i] = r[i + 1]
  BY <1>1, Indexed, HeadTailProperties
<1>4. /\ \A i \in 1 .. Len(q) : q[i] < r[1] /\ q[i] <= n
      /\ r[1] <= n /\ \A i \in 2 .. Len(r) : r[1] < r[i]
  <2>1. 1 \in DOMAIN r
    BY <1>1
  <2>2. \A i \in DOMAIN q : q[i] < r[1] /\ q[i] <= n
    BY <2>1 DEF Before, UpTo
  <2>3. r[1] <= n
    BY <2>1 DEF UpTo
  <2>4. \A i \in DOMAIN r : 1 < i => r[1] < r[i]
    BY <2>1 DEF Rising
  <2>5. \A i \in 2 .. Len(r) : i \in DOMAIN r /\ 1 < i
    BY <1>1
  <2>6. QED  BY <1>1, <2>2, <2>3, <2>4, <2>5
<1>A. PICK a \in Seq(1 .. MaxEvents) : a = Append(q, Head(r))
  BY <1>1, AppendProperties
<1>B. DOMAIN a = 1 .. Len(q) + 1 /\ (\A i \in 1 .. Len(q) : a[i] = q[i]) /\ a[Len(q) + 1] = r[1]
  BY <1>2, <1>A
<1>C. Rising(a)
  BY <1>1, <1>4, <1>B DEF Rising
<1>D. UpTo(a, n)
  BY <1>1, <1>4, <1>B DEF UpTo
<1>E. Before(a, Tail(r))
  <2> SUFFICES ASSUME NEW i \in DOMAIN a, NEW j \in DOMAIN Tail(r)
               PROVE  a[i] < Tail(r)[j]
    BY DEF Before
  <2>1. Tail(r)[j] = r[j + 1] /\ j + 1 \in DOMAIN r /\ j + 1 \in 2 .. Len(r)
    BY <1>1, <1>3
  <2>2. (i \in DOMAIN q /\ a[i] = q[i]) \/ a[i] = r[1]
    BY <1>1, <1>B
  <2>3. QED  BY <1>4, <2>1, <2>2 DEF Before
<1>F. Before(s, a)
  <2> SUFFICES ASSUME NEW i \in DOMAIN s, NEW j \in DOMAIN a
               PROVE  s[i] < a[j]
    BY DEF Before
  <2>1. (j \in DOMAIN q /\ a[j] = q[j]) \/ (1 \in DOMAIN r /\ a[j] = r[1])
    BY <1>1, <1>B
  <2>2. QED  BY <2>1 DEF Before
<1>5. Rising(Tail(r)) /\ UpTo(Tail(r), n) /\ Before(s, Tail(r))
  <2>1. \A i \in DOMAIN Tail(r) : Tail(r)[i] = r[i + 1] /\ i + 1 \in DOMAIN r /\ i \in Int
    BY <1>1, <1>3
  <2>2. Rising(Tail(r))
    BY <1>1, <2>1 DEF Rising
  <2>3. UpTo(Tail(r), n)
    BY <2>1 DEF UpTo
  <2>4. Before(s, Tail(r))
    BY <2>1 DEF Before
  <2>5. QED  BY <2>2, <2>3, <2>4
<1>6. QED  BY <1>5, <1>A, <1>C, <1>D, <1>E, <1>F

\* What is collected goes to the end of what was sent.
LEMMA BatchSent ==
    ASSUME NEW s \in Seq(1 .. MaxEvents), NEW q \in Seq(1 .. MaxEvents), NEW r, NEW n,
           Rising(s), Rising(q), Before(s, q), Before(s, r), Before(q, r), UpTo(s, n), UpTo(q, n)
    PROVE  Rising(s \o q) /\ Before(s \o q, r) /\ UpTo(s \o q, n)
<1>1. Len(s) \in Nat /\ DOMAIN s = 1 .. Len(s) /\ Len(q) \in Nat /\ DOMAIN q = 1 .. Len(q)
  BY Indexed
<1>2. /\ DOMAIN (s \o q) = 1 .. Len(s) + Len(q)
      /\ \A i \in 1 .. Len(s) + Len(q) :
            (s \o q)[i] = IF i <= Len(s) THEN s[i] ELSE q[i - Len(s)]
  BY <1>1, ConcatProperties, Indexed
<1>3. \A i \in DOMAIN (s \o q) : \/ i \in DOMAIN s /\ (s \o q)[i] = s[i]
                                 \/ i - Len(s) \in DOMAIN q /\ (s \o q)[i] = q[i - Len(s)] /\ i > Len(s)
  BY <1>1, <1>2
<1>4. Before(s \o q, r) /\ UpTo(s \o q, n)
  BY <1>3 DEF Before, UpTo
<1>5. Rising(s \o q)
  <2> SUFFICES ASSUME NEW i \in DOMAIN (s \o q), NEW j \in DOMAIN (s \o q), i < j
               PROVE  (s \o q)[i] < (s \o q)[j]
    BY DEF Rising
  <2>1. i \in Nat /\ j \in Nat /\ i <= Len(s) + Len(q) /\ j <= Len(s) + Len(q) /\ i > 0
    BY <1>1, <1>2
  <2>2. CASE j \in DOMAIN s /\ (s \o q)[j] = s[j]
    BY <1>1, <1>2, <2>1, <2>2 DEF Rising
  <2>3. CASE i - Len(s) \in DOMAIN q /\ (s \o q)[i] = q[i - Len(s)] /\ i > Len(s)
    BY <1>1, <1>2, <2>1, <2>3 DEF Rising
  <2>4. QED  BY <1>3, <2>2, <2>3 DEF Before
<1>6. QED  BY <1>4, <1>5

LEMMA BatchStart == Init => BatchInv
BY EmptyOrder DEF Init, BatchInv, Ordered, Timed

\* Whoever does not touch the events.
LEMMA EventsStay ==
    ASSUME BatchInv, UNCHANGED <<captured, local, batch, sent>>, Timed'
    PROVE  BatchInv'
BY DEF BatchInv, Ordered, Rising, Before, UpTo

LEMMA OthersKeepEvents ==
    ASSUME BatchInv, [Next]_vars,
           ~(Capture \/ Collect \/ Expire \/ LeaveBatches \/ LockForBatch \/ SendBatch \/ SendBatchFails)
    PROVE  BatchInv'
<1>1. CASE Connects \/ Joins \/ Drops \/ Locks
  <2>1. UNCHANGED batchVars
    BY <1>1 DEF Connects, Joins, Drops, Locks, Top, WaitLimited, Dial, DialFails, DialLimited, EndPause, Join,
             JoinFails, CloseFailed, Greet, ReadFails, Detach, CloseConn, Sleep, LockForJoin, UnsetFailed, Unset
  <2>2. QED  BY <2>1, EventsStay DEF batchVars, BatchInv, Timed
<1>2. CASE ~(Connects \/ Joins \/ Drops \/ Locks)
  <2>1. UNCHANGED batchVars
    BY <1>2 DEF Next, vars, RecvFatal, RecvLimited, ReadDies, WatcherCloses, WatcherEnds, Wake, SenderEnds,
             LockForSend, Send, SendFails, Reload, Stop, LockForStop, WindowEnds
  <2>2. QED  BY <2>1, EventsStay DEF batchVars, BatchInv, Timed
<1>3. QED  BY <1>1, <1>2

LEMMA EventsMove ==
    ASSUME Shape, BatchInv,
           Capture \/ Collect \/ Expire \/ LeaveBatches \/ LockForBatch \/ SendBatch \/ SendBatchFails
    PROVE  BatchInv'
<1>1. /\ captured \in 0 .. MaxEvents /\ local \in Seq(1 .. MaxEvents) /\ batch \in Seq(1 .. MaxEvents)
      /\ sent \in Seq(1 .. MaxEvents) /\ captured \in Nat
  BY SessionAssumption DEF Shape
<1>2. Ordered /\ Timed
  BY DEF BatchInv
<1>3. CASE Capture
  <2>1. /\ captured' = captured + 1 /\ captured < captured + 1 /\ captured + 1 \in 1 .. MaxEvents
        /\ local' = Append(local, captured + 1) /\ UNCHANGED <<batcher, batch, timer, sent>>
    BY <1>1, <1>3, SessionAssumption DEF Capture
  <2>2. Rising(local') /\ UpTo(local', captured')
    BY <1>1, <1>2, <2>1, LaterAtTheEnd DEF Ordered
  <2>3. \A q \in {sent, batch} : UpTo(q, captured') /\ Before(q, local')
    <3> SUFFICES ASSUME NEW q \in Seq(1 .. MaxEvents), UpTo(q, captured), Before(q, local)
                 PROVE  UpTo(q, captured') /\ Before(q, local')
      BY <1>1, <1>2 DEF Ordered
    <3>1. /\ DOMAIN local' = 1 .. Len(local) + 1 /\ DOMAIN local = 1 .. Len(local) /\ Len(local) \in Nat
          /\ \A i \in 1 .. Len(local) : local'[i] = local[i]
          /\ local'[Len(local) + 1] = captured + 1
      BY <1>1, <2>1, Indexed, Appended
    <3>2. \A i \in DOMAIN q : q[i] \in Nat
      BY Indexed
    <3>3. QED  BY <1>1, <2>1, <3>1, <3>2 DEF UpTo, Before
  <2>4. Ordered'
    BY <1>2, <2>1, <2>2, <2>3 DEF Ordered
  <2>5. QED  BY <1>2, <2>1, <2>4 DEF BatchInv, Timed
<1>4. CASE Collect
  <2>1. /\ batcher = "select" /\ local # <<>> /\ timer' = TRUE
        /\ batch' = Append(batch, Head(local)) /\ local' = Tail(local)
        /\ UNCHANGED <<batcher, captured, sent>>
    BY <1>4 DEF Collect
  <2>2. Ordered'
    BY <1>1, <1>2, <2>1, HeadCollected DEF Ordered
  <2>3. batch' # <<>>
    BY <1>1, <2>1, AppendProperties, HeadTailProperties
  <2>4. QED  BY <2>1, <2>2, <2>3 DEF BatchInv, Timed
<1>5. CASE Expire \/ LeaveBatches
  BY <1>2, <1>5, EventsStay DEF Expire, LeaveBatches, Timed
<1>6. CASE LockForBatch /\ UNCHANGED batch
  BY <1>2, <1>6, EventsStay DEF LockForBatch, AfterFlush, Timed
<1>7. CASE (LockForBatch /\ batch' = <<>>) \/ SendBatchFails
  <2>1. batch' = <<>> /\ UNCHANGED <<captured, local, timer, sent>>
    BY <1>7 DEF LockForBatch, SendBatchFails
  <2>2. Ordered'
    BY <1>2, <2>1, EmptyOrder DEF Ordered
  <2>3. Timed'
    BY <1>2, <1>7, <2>1 DEF Timed, LockForBatch, SendBatchFails, AfterFlush
  <2>4. QED  BY <2>2, <2>3 DEF BatchInv
<1>8. CASE SendBatch
  <2>1. batch' = <<>> /\ sent' = sent \o batch /\ UNCHANGED <<captured, local, timer>>
    BY <1>8 DEF SendBatch
  <2>2. Rising(sent') /\ Before(sent', local) /\ UpTo(sent', captured)
    BY <1>1, <1>2, <2>1, BatchSent DEF Ordered
  <2>3. Ordered'
    BY <1>2, <2>1, <2>2, EmptyOrder DEF Ordered
  <2>4. Timed'
    BY <1>2, <1>8, <2>1 DEF Timed, SendBatch, AfterFlush
  <2>5. QED  BY <2>3, <2>4 DEF BatchInv
<1>9. CASE LockForBatch
  <2>1. batch' = <<>> \/ UNCHANGED batch
    BY <1>9 DEF LockForBatch
  <2>2. QED  BY <1>6, <1>7, <1>9, <2>1
<1>10. QED  BY <1>3, <1>4, <1>5, <1>7, <1>8, <1>9

\* Events leave in the order of their capture, each at most once, whatever is lost, and a
\* batch that is being collected always has a timer (session.go, batchLoop, sendBatch).
THEOREM EventsKeepOrder == Spec => []BatchesInOrder
<1>1. BatchInv => BatchesInOrder
  BY DEF BatchInv, Ordered, Timed, Rising, BatchesInOrder
<1>2. IInv /\ BatchInv /\ [Next]_vars => BatchInv'
  <2> SUFFICES ASSUME IInv, BatchInv, [Next]_vars PROVE BatchInv'
    OBVIOUS
  <2>1. QED  BY EventsMove, OthersKeepEvents DEF IInv
<1>3. QED  BY InitIInv, StepIInv, BatchStart, <1>1, <1>2, PTL DEF Spec

=============================================================================
