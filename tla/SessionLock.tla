------------------------------ MODULE SessionLock ------------------------------
(***************************************************************************)
(* Which process of a device owns the connection (cli/instance.go,         *)
(* cli/background.go, cli/session_process_unix.go).  Session processes     *)
(* compete for the file session.lock, created exclusively and filled       *)
(* afterwards; before that, each looks for a session that already runs: in *)
(* the lock, in background.pid and among the processes of the device.      *)
(* Commands ask for the state, stop the session, or launch a background    *)
(* one.                                                                    *)
(*                                                                         *)
(* A step is one access to the files or the process table.  A value of     *)
(* Proc is one pid with one life: a process that starts a second session   *)
(* counts as another one.  session.json, which the display reads, is left  *)
(* out; so are the command directory and the deferred stop.                *)
(***************************************************************************)
EXTENDS Naturals, FiniteSets

CONSTANTS
    Proc,        \* session processes, by pid
    Scannable,   \* those that findSiblingStartProcesses recognises: started with
                 \* the path of the executable, as background and login starts are
    Cmd,         \* processes of other commands
    Nobody,      \* no pid
    NoLock,      \* no file session.lock
    MaxAttempts  \* maxAttempts of acquireSessionInstance

Lock == [by : Proc, full : BOOLEAN, young : BOOLEAN]

ASSUME SessionAssumption ==
    /\ Scannable \subseteq Proc
    /\ Proc \cap Cmd = {}
    /\ Nobody \notin Proc /\ NoLock \notin Lock
    /\ MaxAttempts \in Nat \ {0}

VARIABLES
    pc,          \* where each process is
    lock,        \* session.lock: who created it, is its content complete, and while it
                 \* is not, is it younger than the two seconds of grace
    background,  \* background.pid
    attempts,    \* attempts to create the lock
    active,      \* the pid a command acts on
    duplicates,  \* the other pids it found
    stopped      \* history: some command has stopped a session

vars == <<pc, lock, background, attempts, active, duplicates, stopped>>
cmdVars == <<active, duplicates, stopped>>

SessionPc == {"new", "reading", "cleaning", "scanning", "creating", "writing",
              "classifying", "recleaning", "owning", "unlocking", "clearing",
              "refused", "failed", "error", "done", "crashed"}
CmdPc == {"idle", "reading", "cleaning", "scanning", "signalling", "removing",
          "awaiting", "spawning", "recording", "watching"}

TypeOK ==
    /\ pc \in [Proc \cup Cmd -> SessionPc \cup CmdPc]
    /\ \A p \in Proc : pc[p] \in SessionPc
    /\ \A c \in Cmd : pc[c] \in CmdPc
    /\ lock \in Lock \cup {NoLock}
    /\ background \in Proc \cup {Nobody}
    /\ attempts \in [Proc -> 0 .. MaxAttempts]
    /\ active \in [Cmd -> Proc \cup {Nobody}]
    /\ duplicates \in [Cmd -> SUBSET Proc]
    /\ stopped \in BOOLEAN

Init ==
    /\ pc = [a \in Proc \cup Cmd |-> IF a \in Proc THEN "new" ELSE "idle"]
    /\ lock = NoLock
    /\ background = Nobody
    /\ attempts = [p \in Proc |-> 0]
    /\ active = [c \in Cmd |-> Nobody]
    /\ duplicates = [c \in Cmd |-> {}]
    /\ stopped = FALSE

Goto(a, from, to) == pc[a] = from /\ pc' = [pc EXCEPT ![a] = to]

\* processLooksAlive.
Alive(p) == p \in Proc /\ pc[p] \notin {"new", "error", "done", "crashed"}

\* readSessionFile accepts only a complete lock.
Readable == lock # NoLock /\ lock.full

\* findSiblingStartProcesses, asked by a.
Siblings(a) == {p \in Scannable : Alive(p) /\ p # a}

-----------------------------------------------------------------------------
(* activeSession, run by a session process or a command. *)

\* What the caller does with the session found: a session process is turned away
\* (alreadyRunningError).  A command that only asks ends here, and so does a launch
\* for the team of that session; a stop, and a launch for another team, signal it.
Found(a, p) ==
    IF a \in Proc
    THEN /\ pc' = [pc EXCEPT ![a] = "refused"]
         /\ UNCHANGED <<active, duplicates>>
    ELSE \/ /\ pc' = [pc EXCEPT ![a] = "idle"]
            /\ UNCHANGED <<active, duplicates>>
         \/ /\ pc' = [pc EXCEPT ![a] = "signalling"]
            /\ active' = [active EXCEPT ![a] = p]
            /\ duplicates' = [duplicates EXCEPT ![a] = Siblings(a) \ {p}]

\* What it does when there is none: a session process tries to create the lock, or
\* fails if that was its last look; a command ends or launches (the two looks in a
\* row of a launch are one here).
NotFound(a) ==
    \E next \in IF a \in Cmd THEN {"idle", "spawning"}
               ELSE IF attempts[a] < MaxAttempts THEN {"creating"} ELSE {"failed"} :
        pc' = [pc EXCEPT ![a] = next]

\* Mutant: a complete lock is live, whatever became of its process.
ReadTrusting(a) ==
    /\ pc[a] = "reading"
    /\ IF Readable THEN Found(a, lock.by)
       ELSE Goto(a, "reading", "scanning") /\ UNCHANGED <<active, duplicates>>
    /\ UNCHANGED <<lock, background, attempts, stopped>>

ReadLock(a) ==
    /\ pc[a] = "reading"
    /\ IF Readable /\ Alive(lock.by) THEN Found(a, lock.by)
       ELSE /\ pc' = [pc EXCEPT ![a] = IF Readable THEN "cleaning" ELSE "scanning"]
            /\ UNCHANGED <<active, duplicates>>
    /\ UNCHANGED <<lock, background, attempts, stopped>>

\* cleanupStaleSession: whatever the lock is by now.
CleanUp ==
    /\ lock' = NoLock
    /\ background' = IF Alive(background) THEN background ELSE Nobody

CleanStale(a) ==
    /\ Goto(a, "cleaning", "scanning")
    /\ CleanUp
    /\ UNCHANGED <<attempts, cmdVars>>

\* Mutant: siblings are not looked for.
ScanPidFileOnly(a) ==
    /\ pc[a] = "scanning"
    /\ IF Alive(background) /\ background # a THEN Found(a, background)
       ELSE NotFound(a) /\ UNCHANGED <<active, duplicates>>
    /\ UNCHANGED <<lock, background, attempts, stopped>>

\* background.pid first, then the processes of the device.
Scan(a) ==
    /\ pc[a] = "scanning"
    /\ IF Alive(background) /\ background # a THEN Found(a, background)
       ELSE IF Siblings(a) # {} THEN \E p \in Siblings(a) : Found(a, p)
       ELSE NotFound(a) /\ UNCHANGED <<active, duplicates>>
    /\ UNCHANGED <<lock, background, attempts, stopped>>

-----------------------------------------------------------------------------
(* acquireSessionInstance. *)

\* A process starts, by hand or at login, and calls activeSession first.
Start(p) ==
    /\ Goto(p, "new", "reading")
    /\ UNCHANGED <<lock, background, attempts, cmdVars>>

\* OpenFile with O_EXCL.
Create(p) ==
    /\ attempts' = [attempts EXCEPT ![p] = @ + 1]
    /\ IF lock = NoLock
       THEN /\ Goto(p, "creating", "writing")
            /\ lock' = [by |-> p, full |-> FALSE, young |-> TRUE]
       ELSE /\ Goto(p, "creating", "classifying")
            /\ UNCHANGED lock
    /\ UNCHANGED <<background, cmdVars>>

\* The state directory or the file cannot be made.
CreateFails(p) ==
    /\ Goto(p, "creating", "error")
    /\ UNCHANGED <<lock, background, attempts, cmdVars>>

\* The payload goes to the file p created, which may have been removed meanwhile;
\* p takes itself for the owner either way.
WritePayload(p) ==
    /\ Goto(p, "writing", "owning")
    /\ lock' = IF lock # NoLock /\ lock.by = p THEN [by |-> p, full |-> TRUE, young |-> FALSE] ELSE lock
    /\ UNCHANGED <<background, attempts, cmdVars>>

\* Write, Sync or Close fails: p removes the file by name and gives up.
WriteFails(p) ==
    /\ Goto(p, "writing", "error")
    /\ lock' = NoLock
    /\ UNCHANGED <<background, attempts, cmdVars>>

\* The loop goes on, or ends in a last look for an active session.
NextAttempt(p) == IF attempts[p] < MaxAttempts THEN "creating" ELSE "reading"

\* Mutant: an incomplete lock is stale, however young.
ClassifyImpatient(p) ==
    /\ pc[p] = "classifying"
    /\ pc' = [pc EXCEPT ![p] = IF Readable /\ Alive(lock.by) THEN "refused" ELSE "recleaning"]
    /\ UNCHANGED <<lock, background, attempts, cmdVars>>

\* classifySessionLock after a collision: live, wait (a young incomplete lock), or
\* stale (dead, old and incomplete, or gone).
Classify(p) ==
    /\ pc[p] = "classifying"
    /\ pc' = [pc EXCEPT ![p] =
                IF Readable THEN IF Alive(lock.by) THEN "refused" ELSE "recleaning"
                ELSE IF lock # NoLock /\ lock.young THEN NextAttempt(p)
                ELSE "recleaning"]
    /\ UNCHANGED <<lock, background, attempts, cmdVars>>

\* The stale lock is removed by name, in a step of its own.
CleanCollision(p) ==
    /\ Goto(p, "recleaning", NextAttempt(p))
    /\ CleanUp
    /\ UNCHANGED <<attempts, cmdVars>>

\* A refused or failed process ends, sooner or later: it may attach to the session
\* it found and stay.
Exit(p) ==
    /\ pc[p] \in {"refused", "failed"}
    /\ pc' = [pc EXCEPT ![p] = "done"]
    /\ UNCHANGED <<lock, background, attempts, cmdVars>>

-----------------------------------------------------------------------------
(* release, on exit of the session or on a signal. *)

\* The lock is read ...
Release(p) ==
    /\ Goto(p, "owning", IF Readable /\ lock.by = p THEN "unlocking" ELSE "clearing")
    /\ UNCHANGED <<lock, background, attempts, cmdVars>>

\* ... and removed by name.
Unlock(p) ==
    /\ Goto(p, "unlocking", "clearing")
    /\ lock' = NoLock
    /\ UNCHANGED <<background, attempts, cmdVars>>

Clear(p) ==
    /\ Goto(p, "clearing", "done")
    /\ background' = IF background = p THEN Nobody ELSE background
    /\ UNCHANGED <<lock, attempts, cmdVars>>

-----------------------------------------------------------------------------
(* Commands. *)

\* Status, stop and launch all begin with activeSession.
Begin(c) ==
    /\ Goto(c, "idle", "reading")
    /\ UNCHANGED <<lock, background, attempts, cmdVars>>

\* stopSessionPIDs.  An owner has a handler for the signal and releases some time
\* later, unless it gets it before the handler is installed; another process dies.
Signal(c) ==
    /\ pc[c] = "signalling"
    /\ \E dying \in SUBSET ({active[c]} \cup duplicates[c]) :
         /\ \A p \in {active[c]} \cup duplicates[c] :
              Alive(p) /\ pc[p] \notin {"owning", "unlocking", "clearing"} => p \in dying
         /\ \A p \in dying : Alive(p) /\ pc[p] \notin {"unlocking", "clearing"}
         /\ pc' = [a \in Proc \cup Cmd |-> IF a = c THEN "removing"
                                           ELSE IF a \in dying THEN "crashed" ELSE pc[a]]
    /\ UNCHANGED <<lock, background, attempts, cmdVars>>

\* stopActiveSession removes the files without waiting for the process it signalled.
\* A launch (disconnectActiveSessionForTransition) then waits for it.
RemoveFiles(c, next) ==
    /\ next \in {"idle", "awaiting"} /\ Goto(c, "removing", next)
    /\ lock' = NoLock /\ background' = Nobody
    /\ stopped' = TRUE
    /\ duplicates' = [duplicates EXCEPT ![c] = {}]
    /\ active' = IF next = "awaiting" THEN active ELSE [active EXCEPT ![c] = Nobody]
    /\ UNCHANGED attempts

\* Then startBackgroundForTeam looks again.
Gone(c) ==
    /\ Goto(c, "awaiting", "reading")
    /\ ~Alive(active[c])
    /\ active' = [active EXCEPT ![c] = Nobody]
    /\ UNCHANGED <<lock, background, attempts, duplicates, stopped>>

\* Three seconds were not enough.
NotGone(c) ==
    /\ Goto(c, "awaiting", "idle")
    /\ active' = [active EXCEPT ![c] = Nobody]
    /\ UNCHANGED <<lock, background, attempts, duplicates, stopped>>

\* startBackgroundForTeam: start the process, then write background.pid.
Spawn(c, p) ==
    /\ pc[c] = "spawning"
    /\ p \in Scannable /\ pc[p] = "new"
    /\ pc' = [pc EXCEPT ![c] = "recording", ![p] = "reading"]
    /\ active' = [active EXCEPT ![c] = p]
    /\ UNCHANGED <<lock, background, attempts, duplicates, stopped>>

SpawnFails(c) ==
    /\ Goto(c, "spawning", "idle")
    /\ UNCHANGED <<lock, background, attempts, cmdVars>>

Record(c) ==
    /\ Goto(c, "recording", "watching")
    /\ background' = active[c]
    /\ UNCHANGED <<lock, attempts, cmdVars>>

\* waitForBackgroundReady: the lock is the child's.
Ready(c) ==
    /\ Goto(c, "watching", "idle")
    /\ Readable /\ lock.by = active[c]
    /\ active' = [active EXCEPT ![c] = Nobody]
    /\ UNCHANGED <<lock, background, attempts, duplicates, stopped>>

\* The child has exited, or two seconds are over: it is killed.
Kill(c) ==
    /\ pc[c] = "watching"
    /\ pc' = [a \in Proc \cup Cmd |-> IF a = c THEN "idle"
                ELSE IF a = active[c] /\ Alive(a) THEN "crashed" ELSE pc[a]]
    /\ active' = [active EXCEPT ![c] = Nobody]
    /\ UNCHANGED <<lock, background, attempts, duplicates, stopped>>

-----------------------------------------------------------------------------
(* The device. *)

\* A session process is killed, or the power fails and it is not started again.
Crash(p) ==
    /\ Alive(p)
    /\ pc' = [pc EXCEPT ![p] = "crashed"]
    /\ UNCHANGED <<lock, background, attempts, cmdVars>>

\* Two seconds pass.  A live process has completed its lock before.
Age ==
    /\ lock # NoLock /\ lock.young /\ pc[lock.by] # "writing"
    /\ lock' = [lock EXCEPT !.young = FALSE]
    /\ UNCHANGED <<pc, background, attempts, cmdVars>>

-----------------------------------------------------------------------------
AskActive(a) == ReadLock(a) \/ CleanStale(a) \/ Scan(a)

SessionNext(p) ==
    \/ Start(p) \/ AskActive(p)
    \/ Create(p) \/ CreateFails(p) \/ WritePayload(p) \/ WriteFails(p)
    \/ Classify(p) \/ CleanCollision(p)
    \/ Exit(p) \/ Release(p) \/ Unlock(p) \/ Clear(p)

CmdNext(c) ==
    \/ Begin(c) \/ AskActive(c) \/ Signal(c)
    \/ \E next \in {"idle", "awaiting"} : RemoveFiles(c, next)
    \/ Gone(c) \/ NotGone(c)
    \/ \E p \in Proc : Spawn(c, p)
    \/ SpawnFails(c) \/ Record(c) \/ Ready(c) \/ Kill(c)

Next ==
    \/ \E p \in Proc : SessionNext(p) \/ Crash(p)
    \/ \E c \in Cmd : CmdNext(c)
    \/ Age

Spec == Init /\ [][Next]_vars

\* A process that has started goes on to own the device or to give up.
Acquires(p) ==
    AskActive(p) \/ Create(p) \/ WritePayload(p) \/ Classify(p) \/ CleanCollision(p)

FairSpec == Spec /\ \A p \in Proc : WF_vars(Acquires(p))

-----------------------------------------------------------------------------
Owners == {p \in Proc : pc[p] = "owning"}

\* "One session lock prevents foreground, background, and login-started copies
\* from connecting at the same time."  NOT a property of the code: a stale lock is
\* recognised in one step and removed by name in another, so that a process can
\* remove the lock another one has just made; and a stop removes the lock of a
\* session that still runs.
AtMostOneOwner == \A p, q \in Owners : p = q

\* Background and login starts exclude each other all the same, whatever crashes,
\* stops, kills and stale files there are: each looks for the others among the
\* processes of the device after it has become visible there itself.
ScannableExclude == \A p, q \in Owners \cap Scannable : p = q

\* Nobody has crashed, ended or been stopped yet.
Undisturbed ==
    /\ \A p \in Proc : pc[p] \notin {"crashed", "error", "done", "unlocking", "clearing"}
    /\ ~stopped

\* However many processes start together on a free device, one at most gets it
\* ("a young lock with incomplete metadata is not removed speculatively").
FreshStartsExclude == Undisturbed => AtMostOneOwner

\* Nobody else runs a session, and no incomplete lock is less than two seconds old.
Alone(p) ==
    /\ \A q \in Proc \ {p} : ~Alive(q)
    /\ lock # NoLock => ~lock.young \/ lock.by = p

\* A process that starts on a device where no session runs, and stays alone, gets the
\* device, whatever files crashed and killed processes have left at whatever point
\* ("Stale locks are removed when the pid is gone").
NobodyLockedOut ==
    \A p \in Proc :
        pc[p] = "reading" /\ Alone(p) /\ attempts[p] = 0
          ~> pc[p] \in {"owning", "error", "crashed"} \/ ~Alone(p)
================================================================================
