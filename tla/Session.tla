------------------------------- MODULE Session -------------------------------
(* One running session of the client (cli/session.go): the loop that connects,   *)
(* joins, reads and retries; the batch loop; the goroutines that send something  *)
(* else on the same socket; the watcher that closes it when the session ends;    *)
(* and stop.  They share s.ws under the mutex wsMu, which is held over writes:   *)
(* a write that nobody reads blocks everybody who needs the mutex.               *)
EXTENDS Naturals, Sequences

CONSTANTS
    Conn,        \* connections, used again and again
    NoConn,
    Sender,      \* goroutines that send profiles, reactions and pings
    Nobody,      \* wsMu is free
    LocalCap,    \* capacity of the channel s.local
    MaxEvents    \* bound: how many events are captured

ASSUME SessionAssumption ==
    /\ NoConn \notin Conn
    /\ Nobody \notin Sender \cup {"loop", "batcher"}
    /\ Sender \cap {"loop", "batcher"} = {}
    /\ LocalCap \in Nat /\ MaxEvents \in Nat

VARIABLES
    loop,        \* where connectLoop is
    conn,        \* its connection
    fatal,       \* what readLoop returned
    limited,     \* rateLimitedUntil, or the Retry-After being slept, lies in the future
    ws,          \* s.ws
    mu,          \* who holds wsMu
    sock,        \* the client's end of each connection; broken: a write has failed
    first,       \* history: the first frame written to it
    watcher,     \* closeWebSocketOnContext of each connection; told: its channel is closed
    cancelled,   \* s.ctx
    stopper,     \* where stop is
    sender,      \* where each sender is
    batcher,     \* where batchLoop is
    captured,    \* events captured so far, numbered
    local,       \* s.local
    batch,       \* the batch being collected or sent
    timer,       \* whether its timer runs
    sent         \* history: the events written

connVars == <<ws, mu, sock, first, watcher>>
batchVars == <<batcher, captured, local, batch, timer, sent>>
vars == <<loop, conn, fatal, limited, connVars, cancelled, stopper, sender, batchVars>>

Flags == fatal \in BOOLEAN /\ limited \in BOOLEAN /\ cancelled \in BOOLEAN /\ timer \in BOOLEAN

Shape ==
    /\ loop \in {"top", "limited", "pausing", "dialing", "dialed", "joining", "failed",
                 "unsettingFailed", "greeting", "reading", "detaching", "unsetting",
                 "closing", "sleeping", "ended"}
    /\ conn \in Conn \cup {NoConn} /\ ws \in Conn \cup {NoConn}
    /\ mu \in Sender \cup {"loop", "batcher", Nobody}
    /\ sock \in [Conn -> {"open", "broken", "closed"}]
    /\ first \in [Conn -> {"nothing", "join", "other"}]
    /\ watcher \in [Conn -> {"off", "on", "told"}]
    /\ stopper \in {"no", "locking", "done"}
    /\ sender \in [Sender -> {"idle", "locking", "writing", "ended"}]
    /\ batcher \in {"select", "flushing", "writing", "leaving", "writingLast", "ended"}
    /\ captured \in 0 .. MaxEvents
    /\ local \in Seq(1 .. MaxEvents) /\ batch \in Seq(1 .. MaxEvents)
    /\ sent \in Seq(1 .. MaxEvents)

TypeOK == Shape /\ Flags

Init ==
    /\ loop = "top" /\ conn = NoConn /\ fatal = FALSE /\ limited = FALSE
    /\ ws = NoConn /\ mu = Nobody
    /\ sock = [c \in Conn |-> "closed"]
    /\ first = [c \in Conn |-> "nothing"]
    /\ watcher = [c \in Conn |-> "off"]
    /\ cancelled = FALSE /\ stopper = "no"
    /\ sender = [s \in Sender |-> "idle"]
    /\ batcher = "select" /\ captured = 0
    /\ local = <<>> /\ batch = <<>> /\ timer = FALSE /\ sent = <<>>

Goto(from, to) == loop = from /\ loop' = to

\* What was written to a connection is forgotten with it.
Close(c) ==
    /\ sock' = [sock EXCEPT ![c] = "closed"]
    /\ first' = [first EXCEPT ![c] = "nothing"]

\* A frame reaches the socket; what goes out after the first one does not matter.
FirstFrame(c, kind) ==
    [first EXCEPT ![c] = IF @ = "nothing" THEN kind ELSE @]

-----------------------------------------------------------------------------
(* connectLoop. *)

Top ==
    /\ loop = "top"
    /\ loop' = IF cancelled THEN "ended" ELSE IF limited THEN "limited" ELSE "dialing"
    /\ UNCHANGED <<conn, fatal, limited, connVars, cancelled, stopper, sender, batchVars>>

\* The wait at the top of the loop, until the window ends or the session does.
WaitLimited ==
    /\ loop = "limited" /\ (cancelled \/ ~limited)
    /\ loop' = IF cancelled THEN "ended" ELSE "dialing"
    /\ UNCHANGED <<conn, fatal, limited, connVars, cancelled, stopper, sender, batchVars>>

Free(c) == sock[c] = "closed" /\ watcher[c] = "off"

\* The dial succeeds, possibly while the session is being cancelled.  One free name is
\* as good for the new connection as another.
Dial(c) ==
    /\ Goto("dialing", "dialed")
    /\ Free(c) /\ c = CHOOSE d \in Conn : Free(d)
    /\ conn' = c
    /\ sock' = [sock EXCEPT ![c] = "open"]
    /\ UNCHANGED <<fatal, limited, ws, mu, first, watcher, cancelled, stopper, sender, batchVars>>

DialFails ==
    /\ Goto("dialing", "sleeping")
    /\ UNCHANGED <<conn, fatal, limited, connVars, cancelled, stopper, sender, batchVars>>

\* HTTP 429: enterRateLimit sleeps by itself and the loop goes on at its top.
DialLimited ==
    /\ Goto("dialing", "pausing")
    /\ limited' = TRUE
    /\ UNCHANGED <<conn, fatal, connVars, cancelled, stopper, sender, batchVars>>

EndPause ==
    /\ Goto("pausing", "top") /\ (cancelled \/ ~limited)
    /\ limited' = FALSE
    /\ UNCHANGED <<conn, fatal, connVars, cancelled, stopper, sender, batchVars>>

\* Mutant: the connection is published before the join is written under the mutex.
PublishUnlocked ==
    /\ Goto("dialed", "joining")
    /\ mu = Nobody
    /\ ws' = conn
    /\ UNCHANGED <<conn, fatal, limited, mu, sock, first, watcher, cancelled, stopper, sender, batchVars>>

\* s.ws is set and the join written under one hold of the mutex.
LockForJoin ==
    /\ Goto("dialed", "joining")
    /\ mu = Nobody /\ mu' = "loop"
    /\ ws' = conn
    /\ UNCHANGED <<conn, fatal, limited, sock, first, watcher, cancelled, stopper, sender, batchVars>>

Join ==
    /\ Goto("joining", "greeting")
    /\ sock[conn] = "open"
    /\ first' = FirstFrame(conn, "join")
    /\ mu' = Nobody
    /\ UNCHANGED <<conn, fatal, limited, ws, sock, watcher, cancelled, stopper, sender, batchVars>>

\* The socket library refuses every write after one that has failed.
JoinFails ==
    /\ Goto("joining", "failed")
    /\ sock' = [sock EXCEPT ![conn] = IF @ = "open" THEN "broken" ELSE @]
    /\ mu' = Nobody
    /\ UNCHANGED <<conn, fatal, limited, ws, first, watcher, cancelled, stopper, sender, batchVars>>

CloseFailed ==
    /\ Goto("failed", "unsettingFailed")
    /\ Close(conn)
    /\ UNCHANGED <<conn, fatal, limited, ws, mu, watcher, cancelled, stopper, sender, batchVars>>

UnsetFailed ==
    /\ Goto("unsettingFailed", "sleeping")
    /\ mu = Nobody
    /\ ws' = IF ws = conn THEN NoConn ELSE ws
    /\ conn' = NoConn
    /\ UNCHANGED <<fatal, limited, mu, sock, first, watcher, cancelled, stopper, sender, batchVars>>

\* Mutant: nobody watches the context for the connection.
GreetUnwatched ==
    /\ Goto("greeting", "reading")
    /\ UNCHANGED <<conn, fatal, limited, connVars, cancelled, stopper, sender, batchVars>>

\* The goroutines of the connection are started.
Greet ==
    /\ Goto("greeting", "reading")
    /\ watcher' = [watcher EXCEPT ![conn] = "on"]
    /\ UNCHANGED <<conn, fatal, limited, ws, mu, sock, first, cancelled, stopper, sender, batchVars>>

\* readLoop: the frames that only change what is shown or heard are left out.  A frame
\* that has been received is read even from a socket closed since.
\* team_deleted, team_unavailable, room_full.
RecvFatal ==
    /\ Goto("reading", "detaching")
    /\ fatal' = TRUE
    /\ UNCHANGED <<conn, limited, connVars, cancelled, stopper, sender, batchVars>>

\* An error that names a rate limit.
RecvLimited ==
    /\ Goto("reading", "detaching")
    /\ limited' = TRUE
    /\ UNCHANGED <<conn, fatal, connVars, cancelled, stopper, sender, batchVars>>

\* The socket was closed on this side ...
ReadFails ==
    /\ Goto("reading", "detaching")
    /\ sock[conn] = "closed"
    /\ UNCHANGED <<conn, fatal, limited, connVars, cancelled, stopper, sender, batchVars>>

\* ... or by the relay, or nothing came for 75 seconds.
ReadDies ==
    /\ Goto("reading", "detaching")
    /\ sock[conn] # "closed"
    /\ UNCHANGED <<conn, fatal, limited, connVars, cancelled, stopper, sender, batchVars>>

\* close(closed)
Detach ==
    /\ Goto("detaching", "unsetting")
    /\ watcher' = [watcher EXCEPT ![conn] = IF @ = "on" THEN "told" ELSE @]
    /\ UNCHANGED <<conn, fatal, limited, ws, mu, sock, first, cancelled, stopper, sender, batchVars>>

Unset ==
    /\ Goto("unsetting", "closing")
    /\ mu = Nobody
    /\ ws' = IF ws = conn THEN NoConn ELSE ws
    /\ UNCHANGED <<conn, fatal, limited, mu, sock, first, watcher, cancelled, stopper, sender, batchVars>>

\* Mutant: the connection is left to the watcher.
LeaveOpen ==
    /\ loop = "closing"
    /\ loop' = IF fatal THEN "ended" ELSE "sleeping"
    /\ conn' = NoConn
    /\ cancelled' = (cancelled \/ fatal)
    /\ UNCHANGED <<fatal, limited, connVars, stopper, sender, batchVars>>

\* A fatal answer cancels the session.
CloseConn ==
    /\ loop = "closing"
    /\ Close(conn) /\ conn' = NoConn
    /\ loop' = IF fatal THEN "ended" ELSE "sleeping"
    /\ cancelled' = (cancelled \/ fatal)
    /\ UNCHANGED <<fatal, limited, ws, mu, watcher, stopper, sender, batchVars>>

\* The reconnect delay, at most 30 seconds, is over or cut short.
Sleep ==
    /\ Goto("sleeping", "top")
    /\ UNCHANGED <<conn, fatal, limited, connVars, cancelled, stopper, sender, batchVars>>

-----------------------------------------------------------------------------
(* closeWebSocketOnContext.  With both reasons to end it takes either. *)

WatcherCloses(c) ==
    /\ watcher[c] # "off" /\ cancelled
    /\ watcher' = [watcher EXCEPT ![c] = "off"]
    /\ Close(c)
    /\ UNCHANGED <<loop, conn, fatal, limited, ws, mu, cancelled, stopper, sender, batchVars>>

WatcherEnds(c) ==
    /\ watcher[c] = "told"
    /\ watcher' = [watcher EXCEPT ![c] = "off"]
    /\ UNCHANGED <<loop, conn, fatal, limited, ws, mu, sock, first, cancelled, stopper, sender, batchVars>>

-----------------------------------------------------------------------------
(* configLoop, commandLoop and pingLoop: each wakes up until the session ends, and *)
(* when both are due takes either.                                                 *)

Wake(s) ==
    /\ sender[s] = "idle"
    /\ sender' = [sender EXCEPT ![s] = "locking"]
    /\ UNCHANGED <<loop, conn, fatal, limited, connVars, cancelled, stopper, batchVars>>

SenderEnds(s) ==
    /\ sender[s] = "idle" /\ cancelled
    /\ sender' = [sender EXCEPT ![s] = "ended"]
    /\ UNCHANGED <<loop, conn, fatal, limited, connVars, cancelled, stopper, batchVars>>

LockForSend(s) ==
    /\ sender[s] = "locking" /\ mu = Nobody
    /\ \/ /\ ws = NoConn
          /\ sender' = [sender EXCEPT ![s] = "idle"]
          /\ UNCHANGED mu
       \/ /\ ws # NoConn
          /\ sender' = [sender EXCEPT ![s] = "writing"]
          /\ mu' = s
    /\ UNCHANGED <<loop, conn, fatal, limited, ws, sock, first, watcher, cancelled, stopper, batchVars>>

Send(s) ==
    /\ sender[s] = "writing" /\ sock[ws] = "open"
    /\ sender' = [sender EXCEPT ![s] = "idle"]
    /\ mu' = Nobody
    /\ first' = FirstFrame(ws, "other")
    /\ UNCHANGED <<loop, conn, fatal, limited, ws, sock, watcher, cancelled, stopper, batchVars>>

SendFails(s) ==
    /\ sender[s] = "writing"
    /\ sender' = [sender EXCEPT ![s] = "idle"]
    /\ mu' = Nobody
    /\ sock' = [sock EXCEPT ![ws] = IF @ = "open" THEN "broken" ELSE @]
    /\ UNCHANGED <<loop, conn, fatal, limited, ws, first, watcher, cancelled, stopper, batchVars>>

\* reload_connection closes the connection there is.
Reload ==
    /\ mu = Nobody /\ ws # NoConn
    /\ Close(ws)
    /\ UNCHANGED <<loop, conn, fatal, limited, ws, mu, watcher, cancelled, stopper, sender, batchVars>>

-----------------------------------------------------------------------------
(* batchLoop and sendBatch. *)

batchRest == <<loop, conn, fatal, limited, ws, watcher, cancelled, stopper, sender>>

\* recordLocalActivity: the event waits for room in s.local, or is lost when the
\* session ends.
Capture ==
    /\ captured < MaxEvents /\ Len(local) < LocalCap
    /\ captured' = captured + 1
    /\ local' = Append(local, captured + 1)
    /\ UNCHANGED <<batchRest, mu, sock, first, batcher, batch, timer, sent>>

Collect ==
    /\ batcher = "select" /\ local # <<>>
    /\ batch' = Append(batch, Head(local))
    /\ local' = Tail(local)
    /\ timer' = TRUE
    /\ UNCHANGED <<batchRest, mu, sock, first, batcher, captured, sent>>

Expire ==
    /\ batcher = "select" /\ timer
    /\ timer' = FALSE
    /\ batcher' = IF batch = <<>> THEN "select" ELSE "flushing"
    /\ UNCHANGED <<batchRest, mu, sock, first, captured, local, batch, sent>>

\* The session ends: one last flush.
LeaveBatches ==
    /\ batcher = "select" /\ cancelled
    /\ batcher' = IF batch = <<>> THEN "ended" ELSE "leaving"
    /\ UNCHANGED <<batchRest, mu, sock, first, captured, local, batch, timer, sent>>

AfterFlush == IF batcher \in {"flushing", "writing"} THEN "select" ELSE "ended"

\* Without a connection the batch is dropped.
LockForBatch ==
    /\ batcher \in {"flushing", "leaving"} /\ mu = Nobody
    /\ \/ /\ ws = NoConn
          /\ batcher' = AfterFlush
          /\ batch' = <<>>
          /\ UNCHANGED mu
       \/ /\ ws # NoConn
          /\ batcher' = IF batcher = "flushing" THEN "writing" ELSE "writingLast"
          /\ mu' = "batcher"
          /\ UNCHANGED batch
    /\ UNCHANGED <<batchRest, sock, first, captured, local, timer, sent>>

\* Mutant: the batch is kept for the next flush.
SendBatchKeeping ==
    /\ batcher \in {"writing", "writingLast"} /\ sock[ws] = "open"
    /\ batcher' = AfterFlush
    /\ mu' = Nobody
    /\ first' = FirstFrame(ws, "other")
    /\ sent' = sent \o batch
    /\ UNCHANGED <<batchRest, sock, captured, local, batch, timer>>

SendBatch ==
    /\ batcher \in {"writing", "writingLast"} /\ sock[ws] = "open"
    /\ batcher' = AfterFlush
    /\ batch' = <<>>
    /\ mu' = Nobody
    /\ first' = FirstFrame(ws, "other")
    /\ sent' = sent \o batch
    /\ UNCHANGED <<batchRest, sock, captured, local, timer>>

\* The error is ignored, the batch is lost.
SendBatchFails ==
    /\ batcher \in {"writing", "writingLast"}
    /\ batcher' = AfterFlush
    /\ batch' = <<>>
    /\ mu' = Nobody
    /\ sock' = [sock EXCEPT ![ws] = IF @ = "open" THEN "broken" ELSE @]
    /\ UNCHANGED <<batchRest, first, captured, local, timer, sent>>

-----------------------------------------------------------------------------
(* stop, by the user, a signal, or the end of the context. *)

Stop ==
    /\ stopper = "no" /\ stopper' = "locking"
    /\ cancelled' = TRUE
    /\ UNCHANGED <<loop, conn, fatal, limited, connVars, sender, batchVars>>

\* What follows, closing the audio, writing the state and releasing the instance, meets
\* nobody here.
LockForStop ==
    /\ stopper = "locking" /\ stopper' = "done"
    /\ mu = Nobody
    /\ IF ws = NoConn THEN UNCHANGED <<sock, first>> ELSE Close(ws)
    /\ UNCHANGED <<loop, conn, fatal, limited, ws, mu, watcher, cancelled, sender, batchVars>>

\* The window of a rate limit ends.
WindowEnds ==
    /\ limited /\ limited' = FALSE
    /\ UNCHANGED <<loop, conn, fatal, connVars, cancelled, stopper, sender, batchVars>>

-----------------------------------------------------------------------------
Connects == Top \/ WaitLimited \/ (\E c \in Conn : Dial(c)) \/ DialFails \/ DialLimited \/ EndPause
Joins == Join \/ JoinFails \/ CloseFailed \/ Greet
Drops == ReadFails \/ Detach \/ CloseConn \/ Sleep
Locks == LockForJoin \/ UnsetFailed \/ Unset

Next ==
    \/ Connects \/ Joins \/ Drops \/ Locks
    \/ RecvFatal \/ RecvLimited \/ ReadDies
    \/ \E c \in Conn : WatcherCloses(c) \/ WatcherEnds(c)
    \/ \E s \in Sender : Wake(s) \/ SenderEnds(s) \/ LockForSend(s) \/ Send(s) \/ SendFails(s)
    \/ Reload
    \/ Capture \/ Collect \/ Expire \/ LeaveBatches \/ LockForBatch
    \/ SendBatch \/ SendBatchFails
    \/ Stop \/ LockForStop \/ WindowEnds

Spec == Init /\ [][Next]_vars

\* Goroutines go on; a mutex that is free again and again is got, and a branch of a
\* select that is ready again and again is taken; the end of the context stops a
\* session without a terminal.  Nothing is said of the relay, the user and the keyboard.
Fairness ==
    /\ WF_vars(Connects \/ Joins \/ Drops) /\ SF_vars(Locks)
    /\ WF_vars(\E c \in Conn : WatcherCloses(c) \/ WatcherEnds(c))
    /\ \A s \in Sender : SF_vars(SenderEnds(s)) /\ SF_vars(LockForSend(s))
    /\ WF_vars(Expire \/ LeaveBatches) /\ SF_vars(LockForBatch)
    /\ WF_vars(cancelled /\ Stop) /\ SF_vars(LockForStop)
    /\ WF_vars(WindowEnds)

\* A write on an open socket ends when the relay reads, which it may not.
HalfOpenSpec ==
    /\ Spec /\ Fairness
    /\ WF_vars(SendBatchFails /\ sock[ws] # "open")
    /\ \A s \in Sender : WF_vars(SendFails(s) /\ sock[ws] # "open")

\* Every write ends, since the system gives up one that blocks.
WritesEnd ==
    /\ WF_vars(SendBatch \/ SendBatchFails)
    /\ \A s \in Sender : WF_vars(Send(s) \/ SendFails(s))

-----------------------------------------------------------------------------
\* The first frame on a connection is its join, whoever else has something to send
\* at that moment.
JoinIsFirst == \A c \in Conn : first[c] # "other"

\* The device never has two connections, in whatever way the previous one was lost.
OneConnection == \A c, d \in Conn : sock[c] # "closed" /\ sock[d] # "closed" => c = d

\* Events go out in the order of their capture and at most once; and what has been
\* collected has a timer that will send it.
BatchesInOrder ==
    /\ \A i, j \in DOMAIN sent : i < j => sent[i] < sent[j]
    /\ batcher = "select" => (timer <=> batch # <<>>)

\* A session that is stopped, or told that its team is gone, ends: no goroutine and no
\* socket of it is left, even if the stop meets a dial, a join or a write that blocks.
Over ==
    /\ loop = "ended" /\ batcher = "ended" /\ stopper = "done"
    /\ \A s \in Sender : sender[s] = "ended"
    /\ \A c \in Conn : sock[c] = "closed" /\ watcher[c] = "off"
StoppedSessionEnds == cancelled \/ fatal ~> Over

\* "... enforce read deadlines so half-open connections are cleaned up promptly."
\* NOT a property of the code: a write that blocks on such a connection holds the
\* mutex that the loop takes before it closes the connection.
HalfOpenIsDropped ==
    loop = "unsetting" /\ ~fatal /\ ~limited /\ sock[conn] = "open" ~> loop # "unsetting"
===============================================================================
