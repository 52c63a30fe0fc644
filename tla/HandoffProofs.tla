----------------------------- MODULE HandoffProofs -----------------------------
(* Theorems about Handoff, for any sets of teams and commands and any number of   *)
(* session processes.                                                              *)
EXTENDS Handoff, TLAPS

\* Solo Desk, the only goal without a team, joins none; who has not looked yet waits for
\* no process.
Joins(rec) ==
    /\ rec.at \in {"answered", "remembered", "look"} => rec.pid = NoPid
    /\ rec.at = "answered" => rec.team \in Team
    /\ rec.at \in {"answered", "remembered"} => rec.goal # "solo"

ActorOK ==
    /\ actor \in [Actor -> [at : {"idle", "answered", "remembered", "look", "await", "again", "open",
                                  "reload", "own", "deleted", "forgotten"},
                            goal : {"stay", "launch", "start", "solo"},
                            team : Team \cup {NoTeam}, pid : Pid \cup {NoPid}]]
    /\ \A a \in Actor : Joins(actor[a])

SessionOK ==
    session \in [Pid -> [at : {"new", "starting", "up", "ending", "dead"}, listed : BOOLEAN,
                         cfg : Places, named : Team \cup {NoTeam}]]

PlacesOK == exists \subseteq Team /\ file \in Places /\ launcher \in Team \cup {NoTeam}
LockOK   == lock \in Pid \cup {NoPid}

\* A process somebody waits for has been started, and is gone when the wait is over.
Waits ==
    \A a \in Actor :
      /\ actor[a].at \in {"await", "again"} /\ actor[a].pid # NoPid => session[actor[a].pid].at # "new"
      /\ actor[a].at = "again" /\ actor[a].pid # NoPid => session[actor[a].pid].at = "dead"

Inv == PlacesOK /\ LockOK /\ SessionOK /\ ActorOK /\ Waits

LEMMA PidNoPid == NoPid \notin Pid
  BY DEF Pid, NoPid

LEMMA ActiveAre ==
    ASSUME LockOK, SessionOK, NEW p \in Pid \cup {NoPid}
    PROVE  \A q \in Active(p) : q \in Pid /\ Alive(q)
  BY DEF LockOK, Active

LEMMA WithoutOK ==
    ASSUME NEW f \in Places, NEW t \in Team \cup {NoTeam}
    PROVE  Without(f, t) \subseteq Places
<1>1. f.teams \ {t} \subseteq Team /\ f.current \in Team \cup {NoTeam}
  BY DEF Places
<1>2. SUFFICES ASSUME NEW c \in Team \cup {NoTeam}
               PROVE  [f EXCEPT !.teams = f.teams \ {t}, !.current = c] \in Places
  BY <1>1 DEF Without
<1>3. QED  BY <1>1 DEF Places

\* Lives go one way: a process that is new is started once, one that is dead stays so.
OneWay ==
    \A p \in Pid : /\ session[p].at # "new" => session'[p].at # "new"
                   /\ session[p].at = "dead" => session'[p].at = "dead"

LEMMA StoppedOneWay ==
    ASSUME LockOK, SessionOK, NEW q \in Pid, Stopped(q)
    PROVE  LockOK' /\ SessionOK' /\ OneWay
<1>1. Dead \in [at : {"dead"}, listed : BOOLEAN, cfg : Places, named : Team \cup {NoTeam}]
  BY DEF Dead, Empty, Places
<1>2. SessionOK'
  BY <1>1 DEF Stopped, SessionOK, Alive
<1>3. OneWay
  BY <1>1 DEF Stopped, OneWay, SessionOK, Alive
<1>4. QED  BY <1>2, <1>3 DEF Stopped, LockOK

LEMMA SpawnsOneWay ==
    ASSUME SessionOK, NEW c \in Places, NEW listed \in BOOLEAN, Spawns(c, listed)
    PROVE  SessionOK' /\ OneWay
<1>1. PICK p \in Pid : /\ session[p].at = "new"
                       /\ session' = [session EXCEPT ![p].at = "starting", ![p].cfg = c, ![p].listed = listed]
  BY DEF Spawns
<1>2. SessionOK'  BY <1>1 DEF SessionOK
<1>3. OneWay  BY <1>1 DEF OneWay, SessionOK
<1>4. QED  BY <1>2, <1>3

\* While processes go one way, who waits and does not change may go on.
LEMMA WaitsStay ==
    ASSUME ActorOK, Waits, OneWay, NEW a \in Actor, actor'[a] = actor[a]
    PROVE  /\ actor'[a].at \in {"await", "again"} /\ actor'[a].pid # NoPid => session'[actor'[a].pid].at # "new"
           /\ actor'[a].at = "again" /\ actor'[a].pid # NoPid => session'[actor'[a].pid].at = "dead"
  BY DEF ActorOK, Waits, OneWay

LEMMA OnlyOneMoves ==
    ASSUME ActorOK, Waits, OneWay, NEW a \in Actor,
           \A b \in Actor \ {a} : actor'[b] = actor[b],
           /\ actor'[a].at \in {"await", "again"} /\ actor'[a].pid # NoPid => session'[actor'[a].pid].at # "new"
           /\ actor'[a].at = "again" /\ actor'[a].pid # NoPid => session'[actor'[a].pid].at = "dead"
    PROVE  Waits'
  BY WaitsStay DEF Waits

LEMMA SameSession ==
    ASSUME SessionOK, UNCHANGED session
    PROVE  SessionOK' /\ OneWay
  BY DEF SessionOK, OneWay

LEMMA InitInv == HandoffInit => Inv
<1> SUFFICES ASSUME HandoffInit PROVE Inv
  OBVIOUS
<1>1. PlacesOK /\ LockOK  BY DEF HandoffInit, PlacesOK, LockOK, Places, Empty
<1>2. SessionOK  BY DEF HandoffInit, SessionOK, Places, Empty
<1>3. ActorOK /\ Waits  BY DEF HandoffInit, ActorOK, Waits, Free, Joins
<1>4. QED  BY <1>1, <1>2, <1>3 DEF Inv

-----------------------------------------------------------------------------
(* The steps of commands and screens. *)

\* Not waiting for a process, nor just done with it.
Moving == [at : {"idle", "answered", "remembered", "look", "open", "reload", "own", "deleted", "forgotten"},
           goal : {"stay", "launch", "start", "solo"},
           team : Team \cup {NoTeam}, pid : Pid \cup {NoPid}]

\* A command starts, or goes on, without a process to wait for.
LEMMA PlainStep ==
    ASSUME Inv, OneWay, SessionOK', PlacesOK', LockOK', NEW a \in Actor, NEW rec,
           Becomes(a, rec),
           rec \in Moving, Joins(rec)
    PROVE  Inv'
<1>1. ActorOK /\ Waits  BY DEF Inv
<1>2. ActorOK'  BY <1>1 DEF ActorOK, Becomes, Joins, Moving
<1>3. actor'[a] = rec /\ \A b \in Actor \ {a} : actor'[b] = actor[b]
  BY <1>1 DEF ActorOK, Becomes
<1>4. Waits'  BY <1>1, <1>3, OnlyOneMoves DEF Moving
<1>5. QED  BY <1>2, <1>4 DEF Inv

LEMMA MovesIs ==
    ASSUME ActorOK, NEW a \in Actor, NEW to, Moves(a, to)
    PROVE  Becomes(a, [actor[a] EXCEPT !.at = to])
  BY DEF ActorOK, Moves, Becomes

\* The session it waits for has been told to end.
LEMMA AwaitStep ==
    ASSUME Inv, NEW a \in Actor, NEW q \in Pid, Alive(q), Stopped(q), PlacesOK', NEW rec,
           Becomes(a, rec), rec.at = "await", rec.pid = q,
           rec \in [at : {"await"}, goal : {"stay", "launch", "start", "solo"},
                    team : Team \cup {NoTeam}, pid : Pid]
    PROVE  Inv'
<1>1. ActorOK /\ Waits /\ SessionOK /\ LockOK  BY DEF Inv
<1>2. LockOK' /\ SessionOK' /\ OneWay  BY <1>1, StoppedOneWay
<1>3. ActorOK'  BY <1>1 DEF ActorOK, Becomes, Joins
<1>4. actor'[a] = rec /\ \A b \in Actor \ {a} : actor'[b] = actor[b]
  BY <1>1 DEF ActorOK, Becomes
<1>5. session'[q].at # "new"  BY <1>2 DEF OneWay, Alive
<1>6. Waits'  BY <1>1, <1>2, <1>4, <1>5, OnlyOneMoves
<1>7. QED  BY <1>2, <1>3, <1>6 DEF Inv

\* Nobody moves.
LEMMA NobodyMoves ==
    ASSUME Inv, OneWay, SessionOK', PlacesOK', LockOK', UNCHANGED actor
    PROVE  Inv'
<1>1. ActorOK /\ Waits  BY DEF Inv
<1>2. ActorOK'  BY <1>1 DEF ActorOK
<1>3. Waits'  BY <1>1, WaitsStay DEF Waits
<1>4. QED  BY <1>2, <1>3 DEF Inv

LEMMA FreeIs ==
    Free \in [at : {"idle"}, goal : {"stay"}, team : {NoTeam}, pid : {NoPid}]
  BY DEF Free

LEMMA JoinSteps ==
    ASSUME Inv, NEW a \in Actor
    PROVE  /\ \A t \in Team, goal \in {"stay", "launch", "start"} : Ask(a, t, goal) => Inv'
           /\ RememberTeam(a) => Inv'
           /\ EnableWanted(a) => Inv'
<1>1. PlacesOK /\ LockOK /\ SessionOK /\ ActorOK  BY DEF Inv
<1>2. ASSUME NEW t \in Team, NEW goal \in {"stay", "launch", "start"}, Ask(a, t, goal) PROVE Inv'
  <2>1. SessionOK' /\ OneWay  BY <1>1, <1>2, SameSession DEF Ask
  <2>2. PlacesOK' /\ LockOK'  BY <1>1, <1>2 DEF Ask, PlacesOK, LockOK
  <2>3. QED  BY <1>2, <2>1, <2>2, PlainStep DEF Ask, Joins, Moving
<1>3. ASSUME RememberTeam(a) PROVE Inv'
  <2>1. SessionOK' /\ OneWay  BY <1>1, <1>3, SameSession DEF RememberTeam
  <2>2. actor[a].team \in Team
    BY <1>1, <1>3 DEF RememberTeam, Does, ActorOK, Joins
  <2>3. file' \in Places
    BY <1>1, <1>3, <2>2 DEF RememberTeam, PlacesOK, Places
  <2>4. PlacesOK' /\ LockOK'  BY <1>1, <1>3, <2>3 DEF RememberTeam, PlacesOK, LockOK
  <2>5. Becomes(a, [actor[a] EXCEPT !.at = "remembered"])
    BY <1>1, <1>3, MovesIs DEF RememberTeam
  <2>6. [actor[a] EXCEPT !.at = "remembered"] \in Moving
    BY <1>1 DEF ActorOK, Moving
  <2>7. Joins([actor[a] EXCEPT !.at = "remembered"])
    BY <1>1, <1>3 DEF RememberTeam, Does, ActorOK, Joins
  <2>8. QED  BY <2>1, <2>4, <2>5, <2>6, <2>7, PlainStep
<1>4. ASSUME EnableWanted(a) PROVE Inv'
  <2>1. SessionOK' /\ OneWay  BY <1>1, <1>4, SameSession DEF EnableWanted
  <2>2. PlacesOK' /\ LockOK'  BY <1>1, <1>4 DEF EnableWanted, PlacesOK, LockOK
  <2>3. CASE Moves(a, "look")
    <3>1. Becomes(a, [actor[a] EXCEPT !.at = "look"])  BY <1>1, <2>3, MovesIs
    <3>2. [actor[a] EXCEPT !.at = "look"] \in Moving  BY <1>1 DEF ActorOK, Moving
    <3>3. Joins([actor[a] EXCEPT !.at = "look"])
      BY <1>1, <1>4 DEF EnableWanted, Does, ActorOK, Joins
    <3>4. QED  BY <2>1, <2>2, <3>1, <3>2, <3>3, PlainStep
  <2>4. CASE Moves(a, "open")
    <3>1. Becomes(a, [actor[a] EXCEPT !.at = "open"])  BY <1>1, <2>4, MovesIs
    <3>2. QED  BY <1>1, <2>1, <2>2, <3>1, PlainStep DEF ActorOK, Joins, Moving
  <2>5. CASE Ends(a)
    BY <2>1, <2>2, <2>5, FreeIs, PlainStep DEF Moving, Ends, Joins
  <2>6. QED
    <3>1. actor[a].goal \in {"launch", "start", "stay"} => Moves(a, "look") \/ Moves(a, "open") \/ Ends(a)
      BY <1>4 DEF EnableWanted
    <3>2. actor[a].goal \in {"launch", "start", "stay"}
      BY <1>1, <1>4 DEF EnableWanted, Does, ActorOK, Joins
    <3>3. QED  BY <2>3, <2>4, <2>5, <3>1, <3>2
<1>5. QED  BY <1>2, <1>3, <1>4

LEMMA LaunchSteps ==
    ASSUME Inv, NEW a \in Actor
    PROVE  /\ \A t \in Team \cup {NoTeam} : Launch(a, t) => Inv'
           /\ Disconnect(a) => Inv'
           /\ Exited(a) => Inv'
           /\ NotExited(a) => Inv'
           /\ Open(a) => Inv'
<1>1. PlacesOK /\ LockOK /\ SessionOK /\ ActorOK /\ Waits  BY DEF Inv
<1>2. ASSUME NEW t \in Team \cup {NoTeam}, Launch(a, t) PROVE Inv'
  <2>1. SessionOK' /\ OneWay  BY <1>1, <1>2, SameSession DEF Launch
  <2>2. PlacesOK' /\ LockOK'  BY <1>1, <1>2 DEF Launch, PlacesOK, LockOK
  <2>3. QED  BY <1>2, <2>1, <2>2, PlainStep DEF Launch, Joins, Moving
<1>3. ASSUME Disconnect(a) PROVE Inv'
  <2>1. PlacesOK'  BY <1>1, <1>3 DEF Disconnect, PlacesOK
  <2>2. CASE Active(NoPid) = {} /\ Moves(a, "again") /\ UNCHANGED <<lock, session>>
    <3>1. SessionOK' /\ LockOK' /\ OneWay  BY <1>1, <2>2, SameSession DEF LockOK
    <3>2. /\ actor'[a] = [actor[a] EXCEPT !.at = "again"]
          /\ \A b \in Actor \ {a} : actor'[b] = actor[b]
      BY <1>1, <2>2 DEF ActorOK, Moves
    <3>3. actor'[a].pid = NoPid
      BY <1>1, <1>3, <3>2 DEF Disconnect, Does, ActorOK, Joins
    <3>4. ActorOK'  BY <1>1, <2>2 DEF ActorOK, Moves, Joins
    <3>5. Waits'  BY <1>1, <3>1, <3>2, <3>3, OnlyOneMoves
    <3>6. QED  BY <2>1, <3>1, <3>4, <3>5 DEF Inv
  <2>3. ASSUME NEW q \in Active(NoPid), Ends(a), UNCHANGED <<lock, session>> PROVE Inv'
    <3>1. SessionOK' /\ LockOK' /\ OneWay  BY <1>1, <2>3, SameSession DEF LockOK
    <3>2. QED  BY <2>1, <2>3, <3>1, FreeIs, PlainStep DEF Moving, Ends, Joins
  <2>4. ASSUME NEW q \in Active(NoPid), Stopped(q), Becomes(a, [actor[a] EXCEPT !.at = "await", !.pid = q])
        PROVE  Inv'
    <3>1. q \in Pid /\ Alive(q)  BY <1>1, ActiveAre
    <3>2. [actor[a] EXCEPT !.at = "await", !.pid = q]
            \in [at : {"await"}, goal : {"stay", "launch", "start", "solo"}, team : Team \cup {NoTeam}, pid : Pid]
      BY <1>1, <3>1 DEF ActorOK
    <3>3. QED  BY <1>1, <2>1, <2>4, <3>1, <3>2, AwaitStep DEF ActorOK
  <2>5. QED  BY <1>3, <2>2, <2>3, <2>4 DEF Disconnect
<1>4. ASSUME Exited(a) PROVE Inv'
  <2>1. SessionOK' /\ OneWay  BY <1>1, <1>4, SameSession DEF Exited
  <2>2. PlacesOK' /\ LockOK'  BY <1>1, <1>4 DEF Exited, PlacesOK, LockOK
  <2>3. /\ actor'[a] = [actor[a] EXCEPT !.at = "again"]
        /\ \A b \in Actor \ {a} : actor'[b] = actor[b]
    BY <1>1, <1>4 DEF ActorOK, Exited, Moves
  <2>4. actor'[a].pid = actor[a].pid /\ actor[a].pid \in Pid \cup {NoPid}
    BY <1>1, <2>3 DEF ActorOK
  <2>5. actor'[a].pid # NoPid => session'[actor'[a].pid].at = "dead"
    BY <1>1, <1>4, <2>4 DEF Exited, Does, Waits, Alive, SessionOK
  <2>6. ActorOK'  BY <1>1, <1>4 DEF ActorOK, Exited, Moves, Joins
  <2>7. Waits'  BY <1>1, <2>1, <2>3, <2>5, OnlyOneMoves
  <2>8. QED  BY <2>1, <2>2, <2>6, <2>7 DEF Inv
<1>5. ASSUME NotExited(a) PROVE Inv'
  <2>1. SessionOK' /\ OneWay  BY <1>1, <1>5, SameSession DEF NotExited
  <2>2. PlacesOK' /\ LockOK'  BY <1>1, <1>5 DEF NotExited, PlacesOK, LockOK
  <2>3. QED  BY <1>5, <2>1, <2>2, FreeIs, PlainStep DEF Moving, NotExited, Ends, Joins
<1>6. ASSUME Open(a) PROVE Inv'
  <2>1. PlacesOK' /\ LockOK'  BY <1>1, <1>6 DEF Open, PlacesOK, LockOK
  <2>2. SessionOK' /\ OneWay
    <3>1. CASE UNCHANGED session  BY <1>1, <3>1, SameSession
    <3>2. CASE Spawns([file EXCEPT !.current = actor[a].team], TRUE)
      <4>1. [file EXCEPT !.current = actor[a].team] \in Places
        BY <1>1 DEF PlacesOK, Places, ActorOK
      <4>2. QED  BY <1>1, <3>2, <4>1, SpawnsOneWay
    <3>3. QED  BY <1>6, <3>1, <3>2 DEF Open
  <2>3. QED  BY <1>6, <2>1, <2>2, FreeIs, PlainStep DEF Moving, Open, Ends, Joins
<1>7. QED  BY <1>2, <1>3, <1>4, <1>5, <1>6

LEMMA SwitchSteps ==
    ASSUME Inv, NEW a \in Actor
    PROVE  /\ \A t \in Team : SwitchHere(a, t) => Inv'
           /\ StartHere(a) => Inv'
           /\ \A t \in Team, p \in Pid : LeaveLive(a, p, t) => Inv'
           /\ OwnIsOver(a) => Inv'
           /\ Upgrade(a) => Inv'
<1>1. PlacesOK /\ LockOK /\ SessionOK /\ ActorOK /\ Waits  BY DEF Inv
<1>2. ASSUME NEW t \in Team, SwitchHere(a, t) PROVE Inv'
  <2>1. PlacesOK'  BY <1>1, <1>2 DEF SwitchHere, PlacesOK, Places
  <2>2. SessionOK' /\ LockOK' /\ OneWay
    <3>1. CASE UNCHANGED <<lock, session>>  BY <1>1, <3>1, SameSession DEF LockOK
    <3>2. ASSUME NEW q \in Active(NoPid), Stopped(q) PROVE SessionOK' /\ LockOK' /\ OneWay
      BY <1>1, <3>2, ActiveAre, StoppedOneWay
    <3>3. QED  BY <1>2, <3>1, <3>2 DEF SwitchHere
  <2>3. QED  BY <1>2, <2>1, <2>2, PlainStep DEF SwitchHere, Joins, Moving
<1>3. ASSUME StartHere(a) PROVE Inv'
  <2>1. PlacesOK' /\ LockOK'  BY <1>1, <1>3 DEF StartHere, PlacesOK, LockOK
  <2>2. [file EXCEPT !.current = actor[a].team] \in Places
    BY <1>1 DEF PlacesOK, Places, ActorOK
  <2>3. SessionOK' /\ OneWay
    BY <1>1, <1>3, <2>2, SpawnsOneWay DEF StartHere
  <2>4. QED  BY <1>3, <2>1, <2>3, FreeIs, PlainStep DEF Moving, StartHere, Ends, Joins
<1>4. ASSUME NEW t \in Team, NEW p \in Pid, LeaveLive(a, p, t) PROVE Inv'
  <2>1. PlacesOK' /\ LockOK'  BY <1>1, <1>4 DEF LeaveLive, PlacesOK, LockOK, Places
  <2>2. SessionOK'
    <3> DEFINE cfg == [session[p].cfg EXCEPT !.current = t]
    <3>1. cfg \in Places  BY <1>1 DEF SessionOK, Places
    <3>2. session' = [session EXCEPT ![p] = [session[p] EXCEPT !.at = "ending", !.cfg = cfg]]
      BY <1>1, <1>4 DEF LeaveLive, SessionOK, Places
    <3>3. QED
      <4> HIDE DEF cfg
      <4> QED  BY <1>1, <3>1, <3>2 DEF SessionOK
  <2>3. OneWay  BY <1>1, <1>4 DEF LeaveLive, SessionOK, OneWay
  <2>4. PICK goal \in {"launch", "start"} : Becomes(a, [at |-> "own", goal |-> goal, team |-> t, pid |-> p])
    BY <1>4 DEF LeaveLive
  <2>5. QED  BY <2>1, <2>2, <2>3, <2>4, PlainStep DEF Joins, Moving
<1>5. ASSUME OwnIsOver(a) PROVE Inv'
  <2>1. SessionOK' /\ OneWay  BY <1>1, <1>5, SameSession DEF OwnIsOver
  <2>2. PlacesOK' /\ LockOK'  BY <1>1, <1>5 DEF OwnIsOver, PlacesOK, LockOK
  <2>3. PICK to \in {"look", "open"} : Becomes(a, [actor[a] EXCEPT !.at = to, !.pid = NoPid])
    BY <1>5 DEF OwnIsOver
  <2>4. QED  BY <1>1, <2>1, <2>2, <2>3, PlainStep DEF ActorOK, Joins, Moving
<1>6. ASSUME Upgrade(a) PROVE Inv'
  <2>1. PICK q \in Active(NoPid), t \in Team \cup {NoTeam} :
          /\ t # NoTeam /\ Stopped(q)
          /\ Becomes(a, [at |-> "await", goal |-> "launch", team |-> t, pid |-> q])
          /\ file' \in {file, [file EXCEPT !.current = t]}
    <3>1. \A q \in Active(NoPid) : TeamOf(q) \subseteq Team \cup {NoTeam}
      BY <1>1, ActiveAre DEF TeamOf, SessionOK
    <3>2. QED  BY <1>6, <3>1 DEF Upgrade
  <2>2. q \in Pid /\ Alive(q)  BY <1>1, ActiveAre
  <2>3. PlacesOK'  BY <1>1, <1>6, <2>1 DEF Upgrade, PlacesOK, Places
  <2>4. QED  BY <2>1, <2>2, <2>3, AwaitStep
<1>7. QED  BY <1>2, <1>3, <1>4, <1>5, <1>6

LEMMA DeleteSteps ==
    ASSUME Inv, NEW a \in Actor
    PROVE  /\ \A t \in Team : Delete(a, t) => Inv'
           /\ ForgetTeam(a) => Inv'
           /\ StopDeleted(a) => Inv'
<1>1. PlacesOK /\ LockOK /\ SessionOK /\ ActorOK /\ Waits  BY DEF Inv
<1>2. ASSUME NEW t \in Team, Delete(a, t) PROVE Inv'
  <2>1. SessionOK' /\ OneWay  BY <1>1, <1>2, SameSession DEF Delete
  <2>2. PlacesOK' /\ LockOK'  BY <1>1, <1>2 DEF Delete, PlacesOK, LockOK
  <2>3. QED  BY <1>2, <2>1, <2>2, PlainStep DEF Delete, Joins, Moving
<1>3. ASSUME ForgetTeam(a) PROVE Inv'
  <2>1. SessionOK' /\ OneWay  BY <1>1, <1>3, SameSession DEF ForgetTeam
  <2>2. actor[a].team \in Team \cup {NoTeam}  BY <1>1 DEF ActorOK
  <2>3. file' \in Places  BY <1>1, <1>3, <2>2, WithoutOK DEF ForgetTeam, PlacesOK
  <2>4. PlacesOK' /\ LockOK'  BY <1>1, <1>3, <2>3 DEF ForgetTeam, PlacesOK, LockOK
  <2>5. Becomes(a, [actor[a] EXCEPT !.at = "forgotten"])
    BY <1>1, <1>3, MovesIs DEF ForgetTeam
  <2>6. [actor[a] EXCEPT !.at = "forgotten"] \in Moving /\ Joins([actor[a] EXCEPT !.at = "forgotten"])
    BY <1>1 DEF ActorOK, Moving, Joins
  <2>7. QED  BY <2>1, <2>4, <2>5, <2>6, PlainStep
<1>4. ASSUME StopDeleted(a) PROVE Inv'
  <2>1. PlacesOK'  BY <1>1, <1>4 DEF StopDeleted, PlacesOK
  <2>2. SessionOK' /\ LockOK' /\ OneWay
    <3>1. CASE UNCHANGED <<lock, session>>  BY <1>1, <3>1, SameSession DEF LockOK
    <3>2. ASSUME NEW q \in Active(NoPid), Stopped(q) PROVE SessionOK' /\ LockOK' /\ OneWay
      BY <1>1, <3>2, ActiveAre, StoppedOneWay
    <3>3. QED  BY <1>4, <3>1, <3>2 DEF StopDeleted
  <2>3. QED  BY <1>4, <2>1, <2>2, FreeIs, PlainStep DEF StopDeleted, Ends, Joins, Moving
<1>5. QED  BY <1>2, <1>3, <1>4

LEMMA OtherSteps ==
    ASSUME Inv
    PROVE  /\ \A t \in Team : Select(t) => Inv'
           /\ StopActive => Inv'
           /\ \A t \in Team \cup {NoTeam} : Autostart(t) => Inv'
           /\ Login => Inv'
<1>1. PlacesOK /\ LockOK /\ SessionOK /\ ActorOK /\ Waits  BY DEF Inv
<1>2. ASSUME NEW t \in Team, Select(t) PROVE Inv'
  <2>1. SessionOK' /\ OneWay  BY <1>1, <1>2, SameSession DEF Select
  <2>2. PlacesOK' /\ LockOK'  BY <1>1, <1>2 DEF Select, PlacesOK, LockOK, Places
  <2>3. QED  BY <1>2, <2>1, <2>2, NobodyMoves DEF Select
<1>3. ASSUME StopActive PROVE Inv'
  <2>1. PICK q \in Active(NoPid) : Stopped(q)  BY <1>3 DEF StopActive
  <2>2. SessionOK' /\ LockOK' /\ OneWay  BY <1>1, <2>1, ActiveAre, StoppedOneWay
  <2>3. PlacesOK'  BY <1>1, <1>3 DEF StopActive, PlacesOK
  <2>4. QED  BY <1>3, <2>2, <2>3, NobodyMoves DEF StopActive
<1>4. ASSUME NEW t \in Team \cup {NoTeam}, Autostart(t) PROVE Inv'
  <2>1. SessionOK' /\ OneWay  BY <1>1, <1>4, SameSession DEF Autostart
  <2>2. PlacesOK' /\ LockOK'  BY <1>1, <1>4 DEF Autostart, PlacesOK, LockOK
  <2>3. QED  BY <1>4, <2>1, <2>2, NobodyMoves DEF Autostart
<1>5. ASSUME Login PROVE Inv'
  <2>1. PlacesOK' /\ LockOK'  BY <1>1, <1>5 DEF Login, PlacesOK, LockOK
  <2>2. [file EXCEPT !.current = launcher] \in Places  BY <1>1 DEF PlacesOK, Places
  <2>3. SessionOK' /\ OneWay  BY <1>1, <1>5, <2>2, SpawnsOneWay DEF Login
  <2>4. QED  BY <1>5, <2>1, <2>3, NobodyMoves DEF Login
<1>6. QED  BY <1>2, <1>3, <1>4, <1>5

-----------------------------------------------------------------------------
(* The steps of a session process. *)

LEMMA ProcessSteps ==
    ASSUME Inv, NEW p \in Pid
    PROVE  Acquire(p) \/ TeamUnavailable(p) \/ Setting(p) \/ EndSession(p) => Inv'
<1>1. PlacesOK /\ LockOK /\ SessionOK /\ ActorOK /\ Waits  BY DEF Inv
<1>2. Dead \in [at : {"dead"}, listed : BOOLEAN, cfg : Places, named : Team \cup {NoTeam}]
  BY DEF Dead, Empty, Places
<1>3. session[p].cfg.current \in Team \cup {NoTeam}  BY <1>1 DEF SessionOK, Places
<1>4. CASE Acquire(p)
  <2>1. SessionOK'  BY <1>1, <1>2, <1>3, <1>4 DEF Acquire, SessionOK
  <2>2. OneWay  BY <1>1, <1>2, <1>4 DEF Acquire, SessionOK, OneWay
  <2>3. PlacesOK' /\ LockOK'  BY <1>1, <1>4 DEF Acquire, PlacesOK, LockOK
  <2>4. QED  BY <1>4, <2>1, <2>2, <2>3, NobodyMoves DEF Acquire
<1>5. CASE TeamUnavailable(p)
  <2>1. PICK t \in Team : file' \in Without(file, t) /\ session' = [session EXCEPT ![p].cfg = file']
    BY <1>5 DEF TeamUnavailable
  <2>2. file' \in Places  BY <1>1, <2>1, WithoutOK DEF PlacesOK
  <2>3. SessionOK'  BY <1>1, <2>1, <2>2 DEF SessionOK
  <2>4. OneWay  BY <1>1, <2>1 DEF SessionOK, OneWay
  <2>5. PlacesOK' /\ LockOK'  BY <1>1, <1>5, <2>2 DEF TeamUnavailable, PlacesOK, LockOK
  <2>6. QED  BY <1>5, <2>3, <2>4, <2>5, NobodyMoves DEF TeamUnavailable
<1>6. CASE Setting(p)
  <2>1. PICK t \in Team \cup {NoTeam} : session' = [session EXCEPT ![p].cfg.current = t]
    <3>1. session[p].cfg.teams \subseteq Team  BY <1>1 DEF SessionOK, Places
    <3>2. QED  BY <1>3, <1>6, <3>1 DEF Setting
  <2> DEFINE cfg == [session[p].cfg EXCEPT !.current = t]
  <2>2. cfg \in Places  BY <1>1 DEF SessionOK, Places
  <2>3. session' = [session EXCEPT ![p] = [session[p] EXCEPT !.cfg = cfg]]
    BY <1>1, <2>1 DEF SessionOK, Places
  <2> HIDE DEF cfg
  <2>4. SessionOK'  BY <1>1, <2>2, <2>3 DEF SessionOK
  <2>5. OneWay  BY <1>1, <2>3 DEF SessionOK, OneWay
  <2>6. file' \in Places  BY <1>6, <2>4 DEF Setting, SessionOK
  <2>7. PlacesOK' /\ LockOK'  BY <1>1, <1>6, <2>6 DEF Setting, PlacesOK, LockOK
  <2>8. QED  BY <1>6, <2>4, <2>5, <2>7, NobodyMoves DEF Setting
<1>7. CASE EndSession(p)
  <2>1. SessionOK'  BY <1>1, <1>2, <1>7 DEF EndSession, SessionOK
  <2>2. OneWay  BY <1>1, <1>2, <1>7 DEF EndSession, SessionOK, OneWay
  <2>3. PlacesOK' /\ LockOK'  BY <1>1, <1>7 DEF EndSession, PlacesOK, LockOK
  <2>4. QED  BY <1>7, <2>1, <2>2, <2>3, NobodyMoves DEF EndSession
<1>8. QED  BY <1>4, <1>5, <1>6, <1>7

-----------------------------------------------------------------------------
LEMMA StepInv == Inv /\ [HandoffNext]_handoffVars => Inv'
<1> SUFFICES ASSUME Inv, [HandoffNext]_handoffVars PROVE Inv'
  OBVIOUS
<1>1. CASE UNCHANGED handoffVars
  <2>1. SessionOK' /\ OneWay  BY <1>1, SameSession DEF Inv, handoffVars
  <2>2. PlacesOK' /\ LockOK'  BY <1>1 DEF Inv, handoffVars, PlacesOK, LockOK
  <2>3. QED  BY <1>1, <2>1, <2>2, NobodyMoves DEF handoffVars
<1>2. CASE HandoffNext
  BY <1>2, JoinSteps, LaunchSteps, SwitchSteps, DeleteSteps, OtherSteps, ProcessSteps DEF HandoffNext
<1>3. QED  BY <1>1, <1>2

\* Types, and that what a launch waits for has been started and is gone afterwards, for
\* any teams, commands and processes.
THEOREM HandoffInvariant == HandoffSpec => []Inv
  BY InitInv, StepInv, PTL DEF HandoffSpec

\* A launch, and Solo Desk, open only when the session they have stopped is gone
\* (disconnectActiveSessionForTransition, waitForProcessExit).
THEOREM LaunchesWait == HandoffSpec => []TransitionsWait
<1>1. Inv => TransitionsWait
  BY DEF Inv, Waits, TransitionsWait, Alive
<1>2. QED  BY <1>1, HandoffInvariant, PTL
================================================================================
