-------------------------------- MODULE Handoff --------------------------------
(***************************************************************************)
(* Which rooms a device is in, is to be in, and remembers: the session       *)
(* processes with their copies of the configuration, and the commands and    *)
(* screens that join, launch, switch, stop and delete (cli/main.go,          *)
(* cli/background.go, cli/session.go, cli/instance.go, cli/autostart.go,      *)
(* cli/setup.go).  SessionLock has the files behind activeSession, and        *)
(* ConfigStore those behind loadConfig and saveConfig: here each is a step.   *)
(* A process that starts a second session counts as another one; the list of  *)
(* teams is a set (the thirteenth team, which drops the oldest, is left out);   *)
(* and AutostartWanted is left open.                                           *)
(***************************************************************************)
EXTENDS Naturals

CONSTANTS
    Team, NoTeam,
    MaxPids,        \* bound: session processes, each with one life
    Actor           \* commands and screens

Pid   == 1 .. MaxPids
NoPid == 0

VARIABLES
    exists,     \* the teams the relay has
    file,       \* config.json: the saved teams and the current one
    launcher,   \* the team the login launcher names
    lock,       \* session.lock
    session,    \* the session processes
    actor       \* where each command is

handoffVars == <<exists, file, launcher, lock, session, actor>>

Places == [teams : SUBSET Team, current : Team \cup {NoTeam}]
Empty  == [teams |-> {}, current |-> NoTeam]

\* named is the team in session.lock; a process is listed if findSiblingStartProcesses knows
\* it, as any but one started inside a screen is.
HandoffTypeOK ==
    /\ exists \subseteq Team /\ file \in Places /\ launcher \in Team \cup {NoTeam}
    /\ lock \in Pid \cup {NoPid}
    /\ session \in [Pid -> [at : {"new", "starting", "up", "ending", "dead"}, listed : BOOLEAN,
                            cfg : Places, named : Team \cup {NoTeam}]]
    /\ actor \in [Actor -> [at : {"idle", "answered", "remembered", "look", "await", "again", "open",
                                  "reload", "own", "deleted", "forgotten"},
                            goal : {"stay", "launch", "start", "solo"},
                            team : Team \cup {NoTeam}, pid : Pid \cup {NoPid}]]

Free == [at |-> "idle", goal |-> "stay", team |-> NoTeam, pid |-> NoPid]

\* The same for every device that is not in a room.
HandoffInit ==
    /\ exists = Team /\ file = Empty /\ launcher = NoTeam /\ lock = NoPid
    /\ session = [p \in Pid |-> [at |-> "new", listed |-> FALSE, cfg |-> Empty, named |-> NoTeam]]
    /\ actor = [a \in Actor |-> Free]

\* Nothing is left of a process that is gone.
Dead == [at |-> "dead", listed |-> FALSE, cfg |-> Empty, named |-> NoTeam]

Alive(p) == session[p].at \in {"starting", "up", "ending"}

\* activeSession, asked by a process that is not p: the one the lock names, else a listed one.
Active(p) ==
    IF lock # NoPid /\ Alive(lock) THEN {lock}
    ELSE {q \in Pid \ {p} : Alive(q) /\ session[q].listed}

\* The team of the session found: its own if the lock names it, else that of a session.json
\* which may be an older session's, or none.
TeamOf(q) == IF q = lock THEN {session[q].named} ELSE Team \cup {NoTeam}

\* stopActiveSession: the process found and every listed one is told to end, and the lock
\* removed at once.
Stopped(q) ==
    /\ lock' = NoPid
    /\ session' = [p \in Pid |-> IF ~Alive(p) \/ (p # q /\ ~session[p].listed) THEN session[p]
                                 ELSE IF session[p].at = "starting" THEN Dead
                                 ELSE [session[p] EXCEPT !.at = "ending"]]

\* forgetTeam.
Without(f, t) ==
    LET rest == f.teams \ {t}
    IN  {[f EXCEPT !.teams = rest, !.current = c] :
            c \in IF f.current # t THEN {f.current} ELSE IF rest = {} THEN {NoTeam} ELSE rest}

\* The next process starts a session with configuration c.
Spawns(c, listed) ==
    \E p \in Pid : /\ session[p].at = "new" /\ \A q \in 1 .. p - 1 : session[q].at # "new"
                   /\ session' = [session EXCEPT ![p].at = "starting", ![p].cfg = c, ![p].listed = listed]

Does(a, from) == actor[a].at = from
Becomes(a, rec) == actor' = [actor EXCEPT ![a] = rec]
Ends(a) == Becomes(a, Free)
Moves(a, to) == actor' = [actor EXCEPT ![a].at = to]

-----------------------------------------------------------------------------
(* Joining: cmdJoin, cmdCreate, cmdStart with a code, and the forms of the screen. *)

\* The relay knows the team; what follows is to launch a session in the background, to
\* start one here, or nothing.
Ask(a, t, goal) ==
    /\ Does(a, "idle") /\ t \in exists /\ goal \in {"stay", "launch", "start"}
    /\ goal = "start" => \A q \in Active(NoPid) : t \in TeamOf(q)
    /\ Becomes(a, [at |-> "answered", goal |-> goal, team |-> t, pid |-> NoPid])
    /\ UNCHANGED <<exists, file, launcher, lock, session>>

\* rememberTeam.
RememberTeam(a) ==
    /\ Does(a, "answered") /\ Moves(a, "remembered")
    /\ file' = [file EXCEPT !.teams = @ \cup {actor[a].team}, !.current = actor[a].team]
    /\ UNCHANGED <<exists, launcher, lock, session>>

\* enableWantedAutostart asks the relay once more.
EnableWanted(a) ==
    /\ Does(a, "remembered")
    /\ launcher' \in {launcher} \cup (exists \cap {actor[a].team})
    /\ CASE actor[a].goal = "launch" -> Moves(a, "look")
         [] actor[a].goal = "start"  -> Moves(a, "open")
         [] actor[a].goal = "stay"   -> Ends(a)
    /\ UNCHANGED <<exists, file, lock, session>>

-----------------------------------------------------------------------------
(* startBackgroundForTeam, and Solo Desk, which has no team. *)

\* cliks background start, or Solo Desk from the screen.
Launch(a, t) ==
    /\ Does(a, "idle") /\ t \in Team \cup {NoTeam}
    /\ Becomes(a, [at |-> "look", goal |-> IF t = NoTeam THEN "solo" ELSE "launch", team |-> t, pid |-> NoPid])
    /\ UNCHANGED <<exists, file, launcher, lock, session>>

\* disconnectActiveSessionForTransition: a session in another room is stopped.
Disconnect(a) ==
    /\ Does(a, "look")
    /\ \/ /\ Active(NoPid) = {} /\ Moves(a, "again") /\ UNCHANGED <<lock, session>>
       \/ \E q \in Active(NoPid) :
            \/ /\ actor[a].goal = "launch" /\ actor[a].team \in TeamOf(q)
               /\ Ends(a) /\ UNCHANGED <<lock, session>>
            \/ /\ actor[a].goal = "launch" => TeamOf(q) # {actor[a].team}
               /\ Stopped(q) /\ Becomes(a, [actor[a] EXCEPT !.at = "await", !.pid = q])
    /\ UNCHANGED <<exists, file, launcher>>

\* waitForProcessExit.
Exited(a) ==
    /\ Does(a, "await") /\ ~Alive(actor[a].pid)
    /\ Moves(a, "again")
    /\ UNCHANGED <<exists, file, launcher, lock, session>>

\* Mutant: three seconds are enough.
NotExitedGoesOn(a) ==
    /\ Does(a, "await") /\ Alive(actor[a].pid)
    /\ Moves(a, "again")
    /\ UNCHANGED <<exists, file, launcher, lock, session>>

\* Three seconds were not enough.
NotExited(a) ==
    /\ Does(a, "await") /\ Alive(actor[a].pid)
    /\ Ends(a)
    /\ UNCHANGED <<exists, file, launcher, lock, session>>

\* The child gets the team by CLIKS_AUTOSTART_TEAM, and is given up if it does not own the
\* device within two seconds; a session that has appeared meanwhile is as good.
Open(a) ==
    /\ Does(a, "again") /\ Ends(a)
    /\ IF actor[a].goal = "solo" \/ Active(NoPid) # {}
       THEN UNCHANGED session
       ELSE Spawns([file EXCEPT !.current = actor[a].team], TRUE)
    /\ UNCHANGED <<exists, file, launcher, lock>>

-----------------------------------------------------------------------------
(* Switching. *)

\* cliks switch, and Team in the screen: the file only.
Select(t) ==
    /\ t \in file.teams
    /\ file' = [file EXCEPT !.current = t]
    /\ UNCHANGED <<exists, launcher, lock, session, actor>>

\* team-connect on the control screen, and a team in the menu of an attached view: whatever
\* is active is stopped, and a session started right away.
SwitchHere(a, t) ==
    /\ Does(a, "idle") /\ t \in file.teams
    /\ file' = [file EXCEPT !.current = t]
    /\ Becomes(a, [at |-> "open", goal |-> "start", team |-> t, pid |-> NoPid])
    /\ \/ Active(NoPid) = {} /\ UNCHANGED <<lock, session>>
       \/ \E q \in Active(NoPid) : TeamOf(q) # {t} /\ Stopped(q)
    /\ UNCHANGED <<exists, launcher>>

\* startSession: cliks start is listed, a session of the screen is not.
StartHere(a) ==
    /\ Does(a, "open") /\ Ends(a)
    /\ \E listed \in BOOLEAN : Spawns([file EXCEPT !.current = actor[a].team], listed)
    /\ UNCHANGED <<exists, file, launcher, lock>>

\* A foreground session is left for another room, or closed: with Keep Running the room goes
\* to a background session.
LeaveLive(a, p, t) ==
    /\ Does(a, "idle") /\ session[p].at = "up"
    /\ t = session[p].cfg.current \/ t \in file.teams
    /\ file' = IF t = session[p].cfg.current THEN file ELSE [file EXCEPT !.current = t]
    /\ session' = [session EXCEPT ![p].at = "ending", ![p].cfg.current = t]
    /\ \E goal \in {"launch", "start"} :
         Becomes(a, [at |-> "own", goal |-> goal, team |-> t, pid |-> p])
    /\ UNCHANGED <<exists, launcher, lock>>

\* The process has stopped its own session before it goes on.
OwnIsOver(a) ==
    /\ Does(a, "own") /\ ~Alive(actor[a].pid)
    /\ Becomes(a, [actor[a] EXCEPT !.at = IF actor[a].goal = "launch" THEN "look" ELSE "open", !.pid = NoPid])
    /\ UNCHANGED <<exists, file, launcher, lock, session>>

\* A session of an older version is replaced: an attached view selects its team as well.
Upgrade(a) ==
    /\ Does(a, "idle")
    /\ \E q \in Active(NoPid) : \E t \in TeamOf(q) \ {NoTeam} :
         /\ Stopped(q)
         /\ Becomes(a, [at |-> "await", goal |-> "launch", team |-> t, pid |-> q])
         /\ file' \in {file, [file EXCEPT !.current = t]}
    /\ UNCHANGED <<exists, launcher>>

\* cliks service stop, Stop on a screen, and a session's own end.
StopActive ==
    /\ \E q \in Active(NoPid) : Stopped(q)
    /\ UNCHANGED <<exists, file, launcher, actor>>

-----------------------------------------------------------------------------
(* Deleting, and launching at login. *)

Delete(a, t) ==
    /\ Does(a, "idle") /\ t \in exists
    /\ exists' = exists \ {t}
    /\ Becomes(a, [at |-> "deleted", goal |-> "stay", team |-> t, pid |-> NoPid])
    /\ UNCHANGED <<file, launcher, lock, session>>

ForgetTeam(a) ==
    /\ Does(a, "deleted") /\ Moves(a, "forgotten")
    /\ file' \in Without(file, actor[a].team)
    /\ UNCHANGED <<exists, launcher, lock, session>>

\* stopDeletedTeamSession.
StopDeleted(a) ==
    /\ Does(a, "forgotten") /\ Ends(a)
    /\ \/ \E q \in Active(NoPid) : actor[a].team \in TeamOf(q) /\ Stopped(q)
       \/ (\A q \in Active(NoPid) : TeamOf(q) # {actor[a].team}) /\ UNCHANGED <<lock, session>>
    /\ UNCHANGED <<exists, file, launcher>>

\* cliks autostart enable and disable.
Autostart(t) ==
    /\ t = NoTeam \/ t \in exists
    /\ launcher' = t
    /\ UNCHANGED <<exists, file, lock, session, actor>>

Login ==
    /\ launcher # NoTeam /\ Spawns([file EXCEPT !.current = launcher], TRUE)
    /\ UNCHANGED <<exists, file, launcher, lock, actor>>

-----------------------------------------------------------------------------
(* A session process. *)

\* acquireSessionInstance.
Acquire(p) ==
    /\ session[p].at = "starting"
    /\ IF Active(p) \ {p} # {}
       THEN session' = [session EXCEPT ![p] = Dead] /\ UNCHANGED lock
       ELSE /\ session' = [session EXCEPT ![p].at = "up", ![p].named = session[p].cfg.current]
            /\ lock' = p
    /\ UNCHANGED <<exists, file, launcher, actor>>

\* team_deleted or team_unavailable of the room it is in, or of the one it connects to:
\* handleTeamUnavailable.
TeamUnavailable(p) ==
    /\ session[p].at = "up"
    /\ \E t \in {session[p].named, session[p].cfg.current} :
         /\ t \in Team \ exists
         /\ file' \in Without(file, t)
         /\ session' = [session EXCEPT ![p].cfg = file']
    /\ launcher' = NoTeam
    /\ UNCHANGED <<exists, lock, actor>>

\* A control of the live view saves the session's copy of everything; one of them takes the
\* next saved team for the current one.
Setting(p) ==
    /\ session[p].at = "up"
    /\ \E t \in session[p].cfg.teams \cup {session[p].cfg.current} :
         session' = [session EXCEPT ![p].cfg.current = t]
    /\ file' = session'[p].cfg
    /\ UNCHANGED <<exists, launcher, lock, actor>>

\* controller.stop, release.
EndSession(p) ==
    /\ session[p].at = "ending"
    /\ session' = [session EXCEPT ![p] = Dead]
    /\ lock' = IF lock = p THEN NoPid ELSE lock
    /\ UNCHANGED <<exists, file, launcher, actor>>

HandoffNext ==
    \/ \E a \in Actor, t \in Team :
         \/ \E goal \in {"stay", "launch", "start"} : Ask(a, t, goal)
         \/ SwitchHere(a, t) \/ Delete(a, t)
         \/ \E p \in Pid : LeaveLive(a, p, t)
    \/ \E a \in Actor, t \in Team \cup {NoTeam} : Launch(a, t)
    \/ \E a \in Actor : \/ RememberTeam(a) \/ EnableWanted(a) \/ Disconnect(a) \/ Exited(a) \/ NotExited(a)
                        \/ Open(a) \/ StartHere(a) \/ OwnIsOver(a) \/ Upgrade(a)
                        \/ ForgetTeam(a) \/ StopDeleted(a)
    \/ \E t \in Team : Select(t)
    \/ \E t \in Team \cup {NoTeam} : Autostart(t)
    \/ \E p \in Pid : \/ Acquire(p) \/ TeamUnavailable(p) \/ Setting(p) \/ EndSession(p)
    \/ StopActive \/ Login

HandoffSpec == HandoffInit /\ [][HandoffNext]_handoffVars

-----------------------------------------------------------------------------
\* A launch, and Solo Desk, open only when the session they stopped is gone ("the old process
\* must be gone before a new room or Solo Desk opens").
TransitionsWait ==
    \A a \in Actor : actor[a].at = "again" /\ actor[a].pid # NoPid => ~Alive(actor[a].pid)

\* "Only an authoritative missing/deleted response removes the selected team from local
\* config."  NOT a property of the code: a control of a running session saves the copy of
\* the configuration it started with, without the team that has been joined since.
TeamsAreKept == [][\A t \in file.teams \ file'.teams : t \notin exists]_handoffVars
================================================================================
