---------------------------- MODULE CaptureHelper ----------------------------
(***************************************************************************)
(* The Linux capture helper (cli/linux-capture-helper/main.go): it reads the *)
(* input devices as they come and go and writes a token per key or click to  *)
(* every verified client, while the user's session is on an active seat.     *)
(* A client is known by its connection and by a pidfd of its process.        *)
(***************************************************************************)
EXTENDS Naturals

CONSTANTS
    Client,     \* processes that connect
    Device,
    MaxOutside  \* bound: devices plugged in or out, processes that end, seats switched

VARIABLES
    client,     \* how far the helper is with it, and what of it is open
    process,    \* of the client: alive; its end of the connection, which a child may keep
    device,     \* plugged in; in opened; its reader, and whether what it reads is there
    seat,       \* active seat; activeSeatGate: what it last found, and found lately
    outside

helperVars == <<client, process, device, seat, outside>>

HelperTypeOK ==
    /\ client \in [Client -> [at : {"none", "accepted", "verified", "ready", "in", "out"},
                              conn : BOOLEAN, pidfd : BOOLEAN]]
    /\ process \in [Client -> [alive : BOOLEAN, conn : BOOLEAN]]
    /\ device \in [Device -> [plugged : BOOLEAN, opened : BOOLEAN, reader : BOOLEAN, there : BOOLEAN]]
    /\ seat \in [ours : BOOLEAN, active : BOOLEAN, fresh : BOOLEAN]
    /\ outside \in 0 .. MaxOutside

HelperInit ==
    /\ client = [c \in Client |-> [at |-> "none", conn |-> FALSE, pidfd |-> FALSE]]
    /\ process = [c \in Client |-> [alive |-> TRUE, conn |-> FALSE]]
    /\ device = [d \in Device |-> [plugged |-> FALSE, opened |-> FALSE, reader |-> FALSE, there |-> FALSE]]
    /\ seat = [ours |-> TRUE, active |-> FALSE, fresh |-> FALSE]
    /\ outside = 0

\* clients.items
Items == {c \in Client : client[c].at = "in"}

Outside == outside < MaxOutside /\ outside' = outside + 1

-----------------------------------------------------------------------------
(* The accept loop: one client at a time. *)

Accepting == \E c \in Client : client[c].at \in {"accepted", "verified", "ready"}

Accept(c) ==
    /\ client[c].at = "none" /\ process[c].alive /\ ~Accepting
    /\ client' = [client EXCEPT ![c] = [at |-> "accepted", conn |-> TRUE, pidfd |-> FALSE]]
    /\ process' = [process EXCEPT ![c].conn = TRUE]
    /\ UNCHANGED <<device, seat, outside>>

Becomes(c, from, to) == client[c].at = from /\ client' = [client EXCEPT ![c].at = to]

\* Another user, another program, a process that is gone: not a client.
Refuse(c) ==
    /\ client[c].at = "accepted"
    /\ client' = [client EXCEPT ![c] = [at |-> "out", conn |-> FALSE, pidfd |-> FALSE]]
    /\ UNCHANGED <<process, device, seat, outside>>

Verify(c) ==
    /\ client[c].at = "accepted" /\ process[c].alive
    /\ client' = [client EXCEPT ![c].at = "verified", ![c].pidfd = TRUE]
    /\ UNCHANGED <<process, device, seat, outside>>

Greet(c) ==
    /\ process[c].conn /\ Becomes(c, "verified", "ready")
    /\ UNCHANGED <<process, device, seat, outside>>

\* "ready" cannot be written: only the connection is closed.
GreetFails(c) ==
    /\ ~process[c].conn /\ client[c].at = "verified"
    /\ client' = [client EXCEPT ![c].at = "out", ![c].conn = FALSE]
    /\ UNCHANGED <<process, device, seat, outside>>

Add(c) ==
    /\ Becomes(c, "ready", "in")
    /\ UNCHANGED <<process, device, seat, outside>>

-----------------------------------------------------------------------------
(* The two goroutines of a client, and remove. *)

Without(S) ==
    [c \in Client |-> IF c \in S THEN [at |-> "out", conn |-> FALSE, pidfd |-> FALSE] ELSE client[c]]

\* Mutant: it waits for the end of the connection too.
WatchBoth(c) ==
    /\ c \in Items /\ ~process[c].alive /\ ~process[c].conn
    /\ client' = Without({c}) /\ UNCHANGED <<process, device, seat, outside>>

\* The pidfd says that the process has ended, though its connection is still open.
WatchProcess(c) ==
    /\ c \in Items /\ ~process[c].alive
    /\ client' = Without({c}) /\ UNCHANGED <<process, device, seat, outside>>

\* The connection ends; or there is a byte on it, which no client writes.
WatchConn(c) ==
    /\ c \in Items /\ ~process[c].conn
    /\ client' = Without({c}) /\ UNCHANGED <<process, device, seat, outside>>

-----------------------------------------------------------------------------
(* The devices. *)

\* Every three seconds: what is there and not in opened, if it can be opened.
Scan(d) ==
    /\ device[d].plugged /\ ~device[d].opened
    /\ device' = [device EXCEPT ![d] = [@ EXCEPT !.opened = TRUE, !.reader = TRUE, !.there = TRUE]]
    /\ UNCHANGED <<client, process, seat, outside>>

\* Mutant: the path stays in opened.
ReaderKeepsPath(d) ==
    /\ device[d].reader /\ ~device[d].there
    /\ device' = [device EXCEPT ![d].reader = FALSE]
    /\ UNCHANGED <<client, process, seat, outside>>

\* What the reader has open is gone, even when the same path is there again.
ReaderEndsOn(d) ==
    /\ device[d].reader /\ ~device[d].there
    /\ device' = [device EXCEPT ![d] = [@ EXCEPT !.reader = FALSE, !.opened = FALSE]]
    /\ UNCHANGED <<client, process, seat, outside>>

\* activeSeatGate.allowed, asked at most every 1.5 seconds.
Looked == IF seat.fresh THEN seat ELSE [seat EXCEPT !.active = seat.ours, !.fresh = TRUE]

\* A key or click: a token to every client; one that cannot be written to in 100 ms is
\* removed.
Token(d) ==
    /\ device[d].reader /\ device[d].there
    /\ seat' = Looked
    /\ \E stuck \in SUBSET Items :
         client' = IF Looked.active THEN Without(stuck \cup {c \in Items : ~process[c].conn}) ELSE client
    /\ UNCHANGED <<process, device, outside>>

-----------------------------------------------------------------------------
(* What happens outside. *)

Plug(d) ==
    /\ Outside /\ device' = [device EXCEPT ![d] = [@ EXCEPT !.plugged = ~@,
                                                           !.there = @ /\ ~device[d].plugged]]
    /\ UNCHANGED <<client, process, seat>>

\* A process ends, or only closes its connection; a child it has started may keep that.
EndClient(c) ==
    /\ Outside /\ process[c].alive
    /\ \E p \in [alive : BOOLEAN, conn : BOOLEAN] :
         /\ p.conn => process[c].conn
         /\ ~(p.alive /\ p.conn)
         /\ process' = [process EXCEPT ![c] = p]
    /\ UNCHANGED <<client, device, seat>>

SwitchSeat ==
    /\ Outside /\ seat' = [seat EXCEPT !.ours = ~@]
    /\ UNCHANGED <<client, process, device>>

SeatIsOld ==
    /\ seat.fresh /\ seat' = [seat EXCEPT !.fresh = FALSE]
    /\ UNCHANGED <<client, process, device, outside>>

-----------------------------------------------------------------------------
AcceptStep(c) == Refuse(c) \/ Verify(c) \/ Greet(c) \/ GreetFails(c) \/ Add(c)
WatchStep(c)  == WatchProcess(c) \/ WatchConn(c)
DeviceStep(d) == Scan(d) \/ ReaderEndsOn(d)

HelperNext ==
    \/ \E c \in Client : Accept(c) \/ AcceptStep(c) \/ WatchStep(c) \/ EndClient(c)
    \/ \E d \in Device : DeviceStep(d) \/ Token(d) \/ Plug(d)
    \/ SwitchSeat \/ SeatIsOld

\* The goroutines of every client, the scan and the readers go on.
HelperFair ==
    /\ \A c \in Client : /\ WF_helperVars(AcceptStep(c))
                         /\ WF_helperVars(WatchStep(c))
    /\ \A d \in Device : WF_helperVars(DeviceStep(d))

-----------------------------------------------------------------------------
\* "Its socket authorization is bound to the verified Cliks process lifetime with a Linux
\* pidfd" (README.md:109): a client whose process has ended is removed, also when it ended
\* while it was being verified or when a child keeps its connection open; and a device
\* that is there is read, also when it was plugged out and in again before its reader or
\* the scan saw that.
HelperSettles ==
    <>[](/\ \A c \in Client : ~process[c].alive => ~client[c].conn
         /\ \A d \in Device : device[d].plugged => device[d].reader /\ device[d].there)
=============================================================================
