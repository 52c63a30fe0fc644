------------------------------- MODULE Settings -------------------------------
(***************************************************************************)
(* How settings reach a running session: other cliks processes save the     *)
(* configuration file whole; the session polls it (configLoop), is told by  *)
(* a command to reconnect (commandLoop), has controls of its own that save  *)
(* its copy of everything (toggle, cyclePresence), and tells the relay its  *)
(* profile, by a frame or by the next join (cli/session.go).                *)
(* A nickname goes the way of the presence; a setting is one of a few.      *)
(***************************************************************************)
EXTENDS Naturals

CONSTANTS
    Listening,  \* volume, mute, density, ...: what the audio engine is given
    Presence,
    MaxChanges  \* bound: saves by other processes, uses of a control and lost connections

ASSUME SettingsAssumption == Listening # {} /\ Presence # {} /\ MaxChanges \in Nat

VARIABLES
    file,       \* config.json
    editor,     \* another process: idle, or holding the configuration it will save
    changes, pressed,   \* how many changes so far; whether a control was used
    cfg,        \* s.cfg
    shown,      \* s.state.Listening
    audio,      \* what the audio engine plays by
    window,     \* batchLoop's window
    poll,       \* where configLoop is, and the file it read
    control,    \* where the control in use is
    reload,     \* a reload_connection command waits
    link        \* the connection, the server it goes to, the profile the relay has

settingsVars == <<file, editor, changes, pressed, cfg, shown, audio, window, poll,
                  control, reload, link>>

Server == {"public", "own"}
Batch  == {500, 200}
SessionConfig == [server : Server, batch : Batch, listening : Listening, presence : Presence]

\* normalizeConfig: the public relay is used with batches of 500 ms.
Normal(c) == IF c.server = "public" THEN [c EXCEPT !.batch = 500] ELSE c

SettingsTypeOK ==
    /\ file \in SessionConfig /\ cfg \in SessionConfig
    /\ editor \in [at : {"idle", "cli", "tui"}, holds : SessionConfig]
    /\ changes \in 0 .. MaxChanges /\ pressed \in BOOLEAN
    /\ shown \in Listening /\ audio \in Listening /\ window \in Batch
    /\ poll \in [at : {"off", "idle", "read", "send", "listening", "play", "show"}, read : SessionConfig]
    /\ control \in {"idle", "play", "save", "savePresence", "tell"}
    /\ reload \in BOOLEAN
    /\ link \in [at : {"off", "down", "dialing", "up"}, server : Server, presence : Presence]

\* The defaults, and no session yet.
SettingsInit ==
    /\ file = [server |-> "public", batch |-> 500, listening |-> CHOOSE l \in Listening : TRUE,
               presence |-> CHOOSE p \in Presence : TRUE]
    /\ cfg = file /\ shown = file.listening /\ audio = file.listening /\ window = file.batch
    /\ editor = [at |-> "idle", holds |-> file]
    /\ changes = 0 /\ pressed = FALSE
    /\ poll = [at |-> "off", read |-> file]
    /\ control = "idle" /\ reload = FALSE
    /\ link = [at |-> "off", server |-> file.server, presence |-> file.presence]

Running == poll.at # "off"

\* runSession: it starts with what has been saved so far, of one or another server; other
\* listening settings or another presence would be no different.
Run ==
    /\ ~Running
    /\ \E s \in Server, b \in Batch : file' = Normal([file EXCEPT !.server = s, !.batch = b])
    /\ cfg' = file' /\ window' = file'.batch
    /\ editor' = [editor EXCEPT !.holds = file']
    /\ poll' = [at |-> "idle", read |-> file']
    /\ link' = [link EXCEPT !.at = "down", !.server = file'.server]
    /\ UNCHANGED <<changes, pressed, shown, audio, control, reload>>

OneMore == Running /\ changes < MaxChanges /\ changes' = changes + 1

-----------------------------------------------------------------------------
(* Another process: `cliks set`, or the settings of a terminal UI. *)

Edited(c, d) == \* one key changed; the setters refuse another batch on the public relay
    \/ d = [c EXCEPT !.listening = d.listening] \/ d = [c EXCEPT !.presence = d.presence]
    \/ d = Normal([c EXCEPT !.server = d.server])
    \/ c.server = "own" /\ d = [c EXCEPT !.batch = d.batch]

\* cmdSet loads the file and changes a setting; the UI changes the copy it has.
Edit(kind) ==
    /\ editor.at = "idle" /\ OneMore
    /\ \E d \in SessionConfig : d # file /\ Edited(file, d) /\ editor' = [at |-> kind, holds |-> d]
    /\ UNCHANGED <<file, pressed, cfg, shown, audio, window, poll, control, reload, link>>

\* Only cmdSet tells the running session that the server is another one.
Save ==
    /\ editor.at # "idle"
    /\ file' = Normal(editor.holds)
    /\ reload' = (reload \/ (editor.at = "cli" /\ file'.server # file.server))
    /\ editor' = [at |-> "idle", holds |-> file']
    /\ UNCHANGED <<changes, pressed, cfg, shown, audio, window, poll, control, link>>

-----------------------------------------------------------------------------
(* configLoop. *)

Polled == <<file, editor, changes, pressed, window, control, reload>>

PollGo(from, to) == poll.at = from /\ poll' = [poll EXCEPT !.at = to]

PollRead ==
    /\ poll.at = "idle" /\ poll' = [at |-> "read", read |-> file]
    /\ UNCHANGED <<Polled, cfg, shown, audio, link>>

\* A changed nickname or presence is taken over before the relay is told.
PollPresence ==
    /\ PollGo("read", IF poll.read.presence # cfg.presence THEN "send" ELSE "listening")
    /\ cfg' = [cfg EXCEPT !.presence = poll.read.presence]
    /\ UNCHANGED <<Polled, shown, audio, link>>

\* sendProfile: without a connection the frame is not sent; the next join says it.
Told(p) == [link EXCEPT !.presence = IF link.at = "up" THEN p ELSE @]

PollSend ==
    /\ PollGo("send", "listening") /\ link' = Told(poll.read.presence)
    /\ UNCHANGED <<Polled, cfg, shown, audio>>

PollListening ==
    /\ PollGo("listening", IF poll.read.listening # cfg.listening THEN "play" ELSE "idle")
    /\ cfg' = [cfg EXCEPT !.listening = poll.read.listening]
    /\ UNCHANGED <<Polled, shown, audio, link>>

PollPlay ==
    /\ PollGo("play", "show") /\ audio' = poll.read.listening
    /\ UNCHANGED <<Polled, cfg, shown, link>>

PollShow ==
    /\ PollGo("show", "idle") /\ shown' = poll.read.listening
    /\ UNCHANGED <<Polled, cfg, audio, link>>

PollStep == PollRead \/ PollPresence \/ PollSend \/ PollListening \/ PollPlay \/ PollShow

-----------------------------------------------------------------------------
(* The controls of the live view: each saves the session's copy of all settings. *)

Pressed == <<editor, window, poll, reload>>

Toggle(l) ==
    /\ control = "idle" /\ OneMore /\ l # shown
    /\ control' = "play" /\ pressed' = TRUE
    /\ shown' = l /\ cfg' = [cfg EXCEPT !.listening = l]
    /\ UNCHANGED <<Pressed, file, audio, link>>

ControlPlay ==
    /\ control = "play" /\ control' = "save" /\ audio' = shown
    /\ UNCHANGED <<Pressed, changes, pressed, file, cfg, shown, link>>

ControlSave ==
    /\ control \in {"save", "savePresence"} /\ file' = Normal(cfg)
    /\ control' = IF control = "save" THEN "idle" ELSE "tell"
    /\ UNCHANGED <<Pressed, changes, pressed, cfg, shown, audio, link>>

CyclePresence(p) ==
    /\ control = "idle" /\ OneMore /\ p # cfg.presence
    /\ control' = "savePresence" /\ pressed' = TRUE
    /\ cfg' = [cfg EXCEPT !.presence = p]
    /\ UNCHANGED <<Pressed, file, shown, audio, link>>

TellPresence ==
    /\ control = "tell" /\ control' = "idle" /\ link' = Told(cfg.presence)
    /\ UNCHANGED <<Pressed, changes, pressed, file, cfg, shown, audio>>

-----------------------------------------------------------------------------
(* commandLoop and connectLoop. *)

Connecting == <<file, editor, pressed, shown, audio, window, poll, control>>

\* The current connection is closed, if there is one.
Reload ==
    /\ reload /\ reload' = FALSE
    /\ cfg' = [cfg EXCEPT !.server = file.server, !.batch = file.batch]
    /\ link' = [link EXCEPT !.at = IF @ = "up" THEN "down" ELSE @]
    /\ UNCHANGED <<Connecting, changes>>

DialServer ==
    /\ link.at = "down" /\ link' = [link EXCEPT !.at = "dialing", !.server = cfg.server]
    /\ UNCHANGED <<Connecting, changes, cfg, reload>>

\* Mutant: the join says nothing of the presence, which the relay starts at its default.
SendBareJoin ==
    /\ link.at = "dialing"
    /\ link' = [link EXCEPT !.at = "up", !.presence = CHOOSE p \in Presence : TRUE]
    /\ UNCHANGED <<Connecting, changes, cfg, reload>>

\* The join is written, and s.ws set, under one hold of wsMu.
SendJoin ==
    /\ link.at = "dialing" /\ link' = [link EXCEPT !.at = "up", !.presence = cfg.presence]
    /\ UNCHANGED <<Connecting, changes, cfg, reload>>

Lose ==
    /\ link.at = "up" /\ OneMore
    /\ link' = [link EXCEPT !.at = "down"]
    /\ UNCHANGED <<Connecting, cfg, reload>>

-----------------------------------------------------------------------------
ControlStep == ControlPlay \/ ControlSave \/ TellPresence

SettingsNext ==
    \/ Run \/ Edit("cli") \/ Edit("tui") \/ Save
    \/ PollStep
    \/ (\E l \in Listening : Toggle(l)) \/ (\E p \in Presence : CyclePresence(p)) \/ ControlStep
    \/ Reload \/ DialServer \/ SendJoin \/ Lose

\* Everything but the changes and losses goes on (goroutines with
\* tickers; a dial ends).
SettingsFair ==
    /\ WF_settingsVars(PollStep) /\ WF_settingsVars(Save)
    /\ WF_settingsVars(ControlStep) /\ WF_settingsVars(Reload)
    /\ WF_settingsVars(DialServer) /\ WF_settingsVars(SendJoin)

\* A session whose own controls are left alone ends up playing by the saved settings and
\* known to the relay by the saved presence, though saves fall between the steps of the
\* poll, and while there is no connection or one is being dialed.
SessionFollows ==
    <>[](Running /\ ~pressed => /\ audio = file.listening /\ shown = file.listening
                                   /\ link.at = "up" /\ link.presence = file.presence)

\* Whenever there is a connection and configLoop is not about to send a profile, the relay
\* knows the presence the session has taken over, wherever the poll, the loss of a
\* connection and the next join fall; its own controls left alone (configLoop, connectLoop).
ProfileIsTold ==
    ~pressed /\ link.at = "up" /\ poll.at # "send" => link.presence = cfg.presence

\* "500 ms activity batches. These limits cannot be reduced or raised from a client
\* pointed at the public backend" (docs/setup.md:134).  NOT a property of the code: a
\* reload changes the server, and batchLoop keeps the window it started with.
PublicBatchesAre500 == link.at = "up" /\ link.server = "public" => window = 500
=============================================================================
