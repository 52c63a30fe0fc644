----------------------------- MODULE AudioEngine -----------------------------
(***************************************************************************)
(* The life of an audio engine (cli/audio.go, cli/ambient.go): its workers   *)
(* play queued sounds, its ambient controller keeps one looping player for   *)
(* the room tone, replaced when the tone changes, and Close ends them all.   *)
(* The terminal UI and configLoop may change the tone at the same time, and  *)
(* may do so after Close.  A tone is a mode with a volume.                   *)
(***************************************************************************)
EXTENDS Naturals, FiniteSets

CONSTANTS
    Updater,    \* goroutines that call updateListening
    Tone, Off,
    Worker,
    QueueCap,   \* 96
    MaxPlayers, \* bound: changes of the tone
    MaxSounds   \* bound: sounds scheduled

ASSUME AudioAssumption == MaxPlayers \in Nat /\ MaxSounds \in Nat /\ QueueCap \in Nat

VARIABLES
    tone,       \* ambientController.mode and volume
    slot,       \* the player it has the cancel function of; 0: none
    player,     \* every player made, numbered
    updater,    \* what each goroutine is doing in update, for which tone and former player
    closer,     \* what Close is doing, and the player it ends
    ctxDone,    \* the context of the engine is cancelled
    timers, scheduled,  \* sounds waiting for their time; all there were
    queue,      \* jobs
    worker

audioVars == <<tone, slot, player, updater, closer, ctxDone, timers, scheduled, queue, worker>>

sounds == <<timers, scheduled, queue, worker>>

Player == 1 .. MaxPlayers

AudioTypeOK ==
    /\ tone \in Tone \cup {Off} /\ slot \in Player \cup {0}
    /\ player \in [Player -> [state : {"none", "playing", "ended"}, tone : Tone \cup {Off}, cancelled : BOOLEAN]]
    /\ updater \in [Updater -> [at : {"idle", "wait", "register"}, tone : Tone \cup {Off}, old : Player \cup {0}]]
    /\ closer \in [at : {"open", "ambient", "cancel", "workers", "closed"}, old : Player \cup {0}]
    /\ ctxDone \in BOOLEAN
    /\ timers \in 0 .. MaxSounds /\ scheduled \in 0 .. MaxSounds /\ queue \in 0 .. QueueCap
    /\ worker \in [Worker -> {"select", "play", "ended"}]

AudioInit ==
    /\ tone = Off /\ slot = 0
    /\ player = [p \in Player |-> [state |-> "none", tone |-> Off, cancelled |-> FALSE]]
    /\ updater = [u \in Updater |-> [at |-> "idle", tone |-> Off, old |-> 0]]
    /\ closer = [at |-> "open", old |-> 0] /\ ctxDone = FALSE
    /\ timers = 0 /\ scheduled = 0 /\ queue = 0
    /\ worker = [w \in Worker |-> "select"]

-----------------------------------------------------------------------------
(* ambientController.update. *)

\* Bound: as many changes under way as there are players left.
Spare == {p \in Player : player[p].state = "none"}
Busy  == {u \in Updater : updater[u].at # "idle"}

\* Under the mutex: another tone, and the former player is nobody's now.
SetTone(u, t) ==
    /\ updater[u].at = "idle" /\ t # tone /\ Cardinality(Busy) < Cardinality(Spare)
    /\ tone' = t /\ slot' = 0
    /\ updater' = [updater EXCEPT ![u] = [at |-> "wait", tone |-> t, old |-> slot]]
    /\ player' = IF slot = 0 THEN player ELSE [player EXCEPT ![slot].cancelled = TRUE]
    /\ UNCHANGED <<closer, ctxDone, sounds>>

HasEnded(p) == p # 0 => player[p].state = "ended"

\* The former player has ended.
WaitOld(u) ==
    /\ updater[u].at = "wait" /\ HasEnded(updater[u].old)
    /\ updater' = [updater EXCEPT ![u].at = IF updater[u].tone = Off THEN "idle" ELSE "register"]
    /\ UNCHANGED <<tone, slot, player, closer, ctxDone, sounds>>

Started(p, t) == [player EXCEPT ![p] = [state |-> "playing", tone |-> t, cancelled |-> FALSE]]

\* One is as good as another.
NewPlayer == CHOOSE p \in Spare : TRUE

\* Mutant: the tone is not looked at again.
RegisterAnyway(u) ==
    /\ updater[u].at = "register"
    /\ slot' = NewPlayer /\ player' = Started(slot', updater[u].tone)
    /\ updater' = [updater EXCEPT ![u].at = "idle"]
    /\ UNCHANGED <<tone, closer, ctxDone, sounds>>

\* Under the mutex again: unless the tone has changed meanwhile, a new player.
Register(u) ==
    /\ updater[u].at = "register"
    /\ IF tone # updater[u].tone
       THEN UNCHANGED <<slot, player>>
       ELSE slot' = NewPlayer /\ player' = Started(slot', tone)
    /\ updater' = [updater EXCEPT ![u].at = "idle"]
    /\ UNCHANGED <<tone, closer, ctxDone, sounds>>

\* Mutant: a player has a context of its own.
CancelledAlone(p) == player[p].cancelled

Cancelled(p) == player[p].cancelled \/ ctxDone

Ended(p) == player' = [player EXCEPT ![p].state = "ended"]

PlayerEnds(p) ==
    /\ player[p].state = "playing" /\ Cancelled(p) /\ Ended(p)
    /\ UNCHANGED <<tone, slot, updater, closer, ctxDone, sounds>>

\* No such command, no such device.
PlayerFails(p) ==
    /\ player[p].state = "playing" /\ Ended(p)
    /\ UNCHANGED <<tone, slot, updater, closer, ctxDone, sounds>>

-----------------------------------------------------------------------------
(* The queue and its workers. *)

ambient == <<tone, slot, player, updater>>

\* scheduleBatch, scheduleReaction: each sound at its offset.
Schedule ==
    /\ scheduled < MaxSounds /\ scheduled' = scheduled + 1 /\ timers' = timers + 1
    /\ UNCHANGED <<ambient, closer, ctxDone, queue, worker>>

\* enqueueScaled: a key may be left out above half of the queue; a full queue loses its
\* oldest job.
Enqueue ==
    /\ timers > 0 /\ timers' = timers - 1
    /\ \/ ctxDone /\ UNCHANGED queue
       \/ ~ctxDone /\ queue' = IF queue < QueueCap THEN queue + 1 ELSE queue
       \/ ~ctxDone /\ 2 * queue > QueueCap /\ UNCHANGED queue
    /\ UNCHANGED <<ambient, closer, ctxDone, scheduled, worker>>

Work(w, from, to) == worker[w] = from /\ worker' = [worker EXCEPT ![w] = to]

TakeJob(w) ==
    /\ Work(w, "select", "play") /\ queue > 0 /\ queue' = queue - 1
    /\ UNCHANGED <<ambient, closer, ctxDone, timers, scheduled>>

\* Played, cancelled, or over its two seconds.
JobEnds(w) ==
    /\ Work(w, "play", "select")
    /\ UNCHANGED <<ambient, closer, ctxDone, timers, scheduled, queue>>

WorkerEnds(w) ==
    /\ ctxDone /\ Work(w, "select", "ended")
    /\ UNCHANGED <<ambient, closer, ctxDone, timers, scheduled, queue>>

-----------------------------------------------------------------------------
(* Close. *)

CloseAmbient ==
    /\ closer.at = "open" /\ closer' = [at |-> "ambient", old |-> slot]
    /\ tone' = Off /\ slot' = 0
    /\ player' = IF slot = 0 THEN player ELSE [player EXCEPT ![slot].cancelled = TRUE]
    /\ UNCHANGED <<updater, ctxDone, sounds>>

Cancel ==
    /\ closer.at = "ambient" /\ HasEnded(closer.old)
    /\ closer' = [closer EXCEPT !.at = "workers"] /\ ctxDone' = TRUE
    /\ UNCHANGED <<ambient, sounds>>

Closed ==
    /\ closer.at = "workers" /\ \A w \in Worker : worker[w] = "ended"
    /\ closer' = [closer EXCEPT !.at = "closed"]
    /\ UNCHANGED <<ambient, ctxDone, sounds>>

-----------------------------------------------------------------------------
UpdaterStep == \E u \in Updater : WaitOld(u) \/ Register(u)
PlayerStep  == \E p \in Player : PlayerEnds(p)

AudioNext ==
    \/ (\E u \in Updater, t \in Tone \cup {Off} : SetTone(u, t)) \/ UpdaterStep
    \/ PlayerStep \/ (\E p \in Player : PlayerFails(p))
    \/ Schedule \/ Enqueue
    \/ \E w \in Worker : TakeJob(w) \/ JobEnds(w) \/ WorkerEnds(w)
    \/ CloseAmbient \/ Cancel \/ Closed

\* Goroutines go on, and a cancelled command is killed.  A worker that finds both a job
\* and the end of the context takes either, but once cancelled no more jobs come.
AudioFair ==
    /\ WF_audioVars(UpdaterStep) /\ WF_audioVars(PlayerStep)
    /\ \A w \in Worker : WF_audioVars(JobEnds(w)) /\ WF_audioVars(WorkerEnds(w))
    /\ WF_audioVars(Cancel) /\ WF_audioVars(Closed)

-----------------------------------------------------------------------------
\* When the changes of the tone are done, the player the controller would stop plays the
\* tone last set, though changes wait for former players to end and then find another
\* tone (ambientController.update).
AmbientSettles ==
    Busy = {} => IF tone = Off THEN slot = 0 ELSE slot # 0 /\ player[slot].tone = tone

\* "Session teardown cancels active playback and waits for workers" (architecture.md:112):
\* Close returns, and then no room tone goes on, not one that two changes at a time left
\* without anybody to stop it, nor one set after Close.
CloseIsQuiet ==
    closer.at # "open" ~> closer.at = "closed" /\ \A p \in Player : player[p].state # "playing"
=============================================================================
