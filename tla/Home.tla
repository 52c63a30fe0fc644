--------------------------------- MODULE Home ---------------------------------
(***************************************************************************)
(* The control screen (homeModel in cli/tui.go): its menus and forms, the    *)
(* first setup, and the commands that run beside it and answer later.  Only  *)
(* activate and updateForm look at busy: Esc, the doctor's refresh and the    *)
(* settings do not, so that an answer may find another screen than the one    *)
(* that asked.  Other processes do not change the configuration meanwhile.    *)
(* Of the eight questions of the first setup three are kept: the name, which  *)
(* opens a form, the permission, which runs a command, and one of the rest.   *)
(* Left out: cursors, mouse, text editing and help, which change no mode, and *)
(* a key within the 90 ms of the launch tick.                                 *)
(***************************************************************************)
EXTENDS Naturals

CONSTANTS MaxCommands    \* bound: commands under way

VARIABLES
    disk,       \* the configuration file
    screen,     \* homeModel
    command,    \* the commands under way
    answered    \* history: the questions answered on this device

homeVars == <<disk, screen, command, answered>>

Questions  == 3
NameStep   == 0
PermitStep == 1

\* What is told apart of a configuration: the question the setup is at, and its end.
Settled  == [step : 0 .. Questions - 1, seen : BOOLEAN]
Defaults == [step |-> 0, seen |-> FALSE]

Menus == {"menu", "team", "connection", "diagnostics", "advanced", "factory-reset", "preferences"}
LocalForms == {"nickname", "audio-device", "batch-window", "backend-url"}
TeamForms  == {"join", "create", "delete"}
Forms == LocalForms \cup TeamForms
Reports  == {"setup", "doctor"}
Plain    == {"sound", "notification-test", "stop-connection", "autostart-toggle", "autostart-status"}
Commands == Reports \cup Plain \cup {"permission"}
Leaving  == {"start", "solo", "team-connect", "quit"}

\* Commands whose answers are treated alike are of a kind.
KindOf(item) ==
    CASE item \in Reports -> "report" [] item \in Plain -> "plain" [] item \in {"create", "delete"} -> "team"
      [] OTHER -> item
NoCommand == [kind |-> "none", ok |-> FALSE, done |-> FALSE, cfg |-> Defaults]

HomeTypeOK ==
    /\ disk \in Settled
    /\ screen \in [open : BOOLEAN, splash : BOOLEAN, busy : BOOLEAN, pending : BOOLEAN,
                   step : 0 .. Questions - 1, cfg : Settled,
                   mode : {"home", "first-setup", "doctor-report"} \cup Menus \cup Forms,
                   return : {"home", "first-setup"} \cup Menus]
    /\ command \in [1 .. MaxCommands -> [kind : {"none", "report", "plain", "permission", "join", "team"},
                                         ok : BOOLEAN, done : BOOLEAN, cfg : Settled]]
    /\ answered \subseteq 0 .. Questions - 1

\* A new homeModel over the configuration of that moment.
Opened == [open |-> TRUE, splash |-> TRUE, busy |-> FALSE, pending |-> ~disk.seen,
           step |-> disk.step, cfg |-> disk, mode |-> "home", return |-> "home"]

\* Nothing of it is left when the program ends.
Closed == [open |-> FALSE, splash |-> FALSE, busy |-> FALSE, pending |-> FALSE,
           step |-> 0, cfg |-> Defaults, mode |-> "home", return |-> "home"]

HomeInit ==
    /\ disk = Defaults /\ screen = Opened
    /\ command = [n \in 1 .. MaxCommands |-> NoCommand]
    /\ answered = {}

\* items; whether there is a team, and a session to stop, decides which of home's are there.
Items ==
    CASE screen.mode = "menu" -> {"preferences", "backend-url", "advanced", "team", "connection",
                                  "diagnostics", "back"}
      [] screen.mode = "team" -> {"nickname", "join", "create", "delete", "team-connect", "back"}
      [] screen.mode = "connection" -> {"background-toggle", "stop-connection", "autostart-toggle",
                                        "autostart-status", "back"}
      [] screen.mode = "diagnostics" -> {"setup", "sound", "notification-test", "doctor", "back"}
      [] screen.mode = "advanced" -> {"backend-url", "nickname", "audio-device", "batch-window",
                                      "factory-reset", "back"}
      [] screen.mode = "factory-reset" -> {"reset-confirm", "back"}
      [] screen.mode = "first-setup" -> {"answer"}
                                          \cup IF screen.step = NameStep THEN {"nickname"} ELSE {}
                                          \cup IF screen.step = PermitStep THEN {"permission"} ELSE {}
      [] screen.mode = "home" -> {"start", "solo", "background-toggle", "stop-connection", "menu", "quit"}
                                   \cup {"join", "create", "sound", "doctor"}
      [] OTHER -> {}

Shown == screen.open /\ ~screen.splash

\* activate: an item is chosen, by Enter or with the mouse.
Chosen(item) == Shown /\ ~screen.busy /\ item \in Items

\* saveConfig(m.cfg): the screen's copy, whatever the file has by now.
SavedScreen(s) == screen' = s /\ disk' = s.cfg

\* Mutant: the setup is over when the last question comes up.
AdvanceEarly(s) ==
    IF s.step >= Questions - 2
    THEN [s EXCEPT !.cfg.seen = TRUE, !.cfg.step = 0, !.pending = FALSE, !.mode = "home"]
    ELSE [s EXCEPT !.step = @ + 1, !.cfg.step = s.step + 1]

\* advanceOnboarding.
Advance(s) ==
    IF s.step >= Questions - 1
    THEN [s EXCEPT !.cfg.seen = TRUE, !.cfg.step = 0, !.pending = FALSE, !.mode = "home"]
    ELSE [s EXCEPT !.step = @ + 1, !.cfg.step = s.step + 1]

\* A command starts in the first free place.
Started(kind) ==
    \E n \in 1 .. MaxCommands :
        /\ command[n] = NoCommand /\ \A k \in 1 .. n - 1 : command[k] # NoCommand
        /\ command' = [command EXCEPT ![n].kind = KindOf(kind)]

-----------------------------------------------------------------------------
(* Keys and clicks. *)

\* The launch screen ends, by itself or by a key.
FinishLaunch ==
    /\ screen.open /\ screen.splash
    /\ screen' = [screen EXCEPT !.splash = FALSE,
                                !.mode = IF screen.pending THEN "first-setup" ELSE @]
    /\ UNCHANGED <<disk, command, answered>>

OpenMenu(item) ==
    /\ item \in Menus /\ Chosen(item)
    /\ screen' = [screen EXCEPT !.mode = item]
    /\ UNCHANGED <<disk, command, answered>>

\* Where a form goes back to is decided when it opens.
ReturnOf(item, from) ==
    CASE item = "nickname" -> IF from \in {"advanced", "first-setup"} THEN from ELSE "team"
      [] item \in {"join", "create"} -> IF from = "home" THEN "home" ELSE "team"
      [] item = "delete" -> "team"
      [] item = "backend-url" -> IF from \in {"menu", "preferences", "first-setup"} THEN from ELSE "advanced"
      [] OTHER -> "advanced"

OpenForm(item) ==
    /\ item \in Forms /\ Chosen(item)
    /\ screen' = [screen EXCEPT !.mode = item, !.return = ReturnOf(item, screen.mode)]
    /\ UNCHANGED <<disk, command, answered>>

\* Preferences: a setting is changed and saved at once, also while a command runs.
ChangeSetting ==
    /\ Shown /\ screen.mode = "preferences"
    /\ \/ SavedScreen(screen)
       \/ screen' = [screen EXCEPT !.mode = "backend-url", !.return = "preferences"] /\ UNCHANGED disk
    /\ UNCHANGED <<command, answered>>

\* background-toggle.
ToggleKeepRunning ==
    /\ Chosen("background-toggle")
    /\ SavedScreen(screen)
    /\ UNCHANGED <<command, answered>>

Run(item) ==
    /\ item \in Commands /\ Chosen(item)
    /\ Started(item)
    /\ screen' = [screen EXCEPT !.busy = TRUE]
    /\ answered' = IF item = "permission" THEN answered \cup {screen.step} ELSE answered
    /\ UNCHANGED <<disk>>

\* r in the doctor's report, busy or not.
Refresh ==
    /\ Shown /\ screen.mode = "doctor-report"
    /\ Started("doctor")
    /\ screen' = [screen EXCEPT !.busy = TRUE]
    /\ UNCHANGED <<disk, answered>>

\* An answer of the first setup that needs nothing else.
Answer ==
    /\ Chosen("answer")
    /\ SavedScreen(Advance(screen))
    /\ answered' = answered \cup {screen.step}
    /\ UNCHANGED <<command>>

\* The first setup's way back; at the first question it leads nowhere.
PreviousQuestion ==
    /\ Shown /\ screen.mode = "first-setup" /\ screen.step > 0
    /\ SavedScreen([screen EXCEPT !.step = @ - 1, !.cfg.step = screen.step - 1])
    /\ UNCHANGED <<command, answered>>

\* back, by the item or by Esc, busy or not.
Back ==
    /\ Shown /\ screen.mode \in {"doctor-report"} \cup Menus
    /\ screen' = [screen EXCEPT !.mode =
         CASE screen.mode = "doctor-report" -> "diagnostics"
           [] screen.mode \in {"preferences", "team", "connection", "diagnostics", "advanced",
                               "factory-reset"} -> "menu"
           [] OTHER -> "home"]
    /\ UNCHANGED <<disk, command, answered>>

CancelForm ==
    /\ Shown /\ ~screen.busy /\ screen.mode \in Forms
    /\ screen' = [screen EXCEPT !.mode = screen.return, !.return = "home"]
    /\ UNCHANGED <<disk, command, answered>>

\* submitForm of a form about this device only; what cannot be used keeps the form.
SubmitLocal ==
    /\ Shown /\ ~screen.busy /\ screen.mode \in LocalForms
    /\ LET after == [screen EXCEPT !.return = "home", !.mode = IF @ \in {"nickname", "backend-url"}
                                                            THEN screen.return ELSE "advanced"]
           names == screen.mode = "nickname" /\ screen.return = "first-setup"
       IN  /\ SavedScreen(IF names THEN Advance(after) ELSE after)
           /\ answered' = IF names THEN answered \cup {screen.step} ELSE answered
    /\ UNCHANGED <<command>>

\* submitForm of a form about a team; an empty field, or less than three seconds since the
\* last one, keeps the form.
SubmitTeam ==
    /\ Shown /\ ~screen.busy /\ screen.mode \in TeamForms
    /\ Started(screen.mode)
    /\ screen' = [screen EXCEPT !.busy = TRUE]
    /\ UNCHANGED <<disk, answered>>

\* factoryResetDevice; what it could not remove stays, and so does the screen.
Reset ==
    /\ Chosen("reset-confirm")
    /\ disk' = Defaults
    /\ screen' = [screen EXCEPT !.cfg = Defaults, !.mode = "home", !.pending = TRUE, !.step = 0,
                                !.splash = TRUE]
    /\ UNCHANGED <<command, answered>>

\* Quit, and every item that ends the program to open something; its commands end with it.
Close(file) ==
    /\ screen' = Closed
    /\ disk' = file
    /\ command' = [n \in 1 .. MaxCommands |-> NoCommand]
    /\ UNCHANGED <<answered>>

LeaveScreen ==
    \/ \E item \in Leaving : Chosen(item) /\ Close(IF item = "team-connect" THEN screen.cfg ELSE disk)
    \/ Shown /\ screen.mode \in {"home", "first-setup", "doctor-report"} \cup Forms /\ Close(disk)

\* runHomeControlLoop goes round, or the program is started again.
Reopen ==
    /\ ~screen.open
    /\ screen' = Opened
    /\ UNCHANGED <<disk, command, answered>>

-----------------------------------------------------------------------------
(* What comes by itself. *)

\* refreshRuntime, each second: a form keeps the configuration it was opened with.
RefreshRuntime ==
    /\ screen.open /\ screen.mode \notin Forms
    /\ screen' = [screen EXCEPT !.cfg = disk]
    /\ UNCHANGED <<disk, command, answered>>

\* A command about a team comes to an end; it answers with the file it has saved its
\* change in.
Finish(n) ==
    /\ command[n].kind \in {"join", "team"} /\ ~command[n].done
    /\ \/ command' = [command EXCEPT ![n].done = TRUE]
       \/ command' = [command EXCEPT ![n].done = TRUE, ![n].ok = TRUE, ![n].cfg = disk]
    /\ UNCHANGED <<disk, screen, answered>>

\* Command n, of one of those kinds, ends and its answer is taken.
Taken(n, kinds) ==
    /\ screen.open /\ command[n].kind \in kinds
    /\ command' = [command EXCEPT ![n] = NoCommand]

\* commandDoneMsg: a report takes the screen, wherever it is.
CommandDone(n) ==
    /\ Taken(n, {"report", "plain"})
    /\ screen' = [screen EXCEPT !.busy = FALSE, !.cfg = disk,
                     !.mode = IF command[n].kind = "report" THEN "doctor-report" ELSE @,
                     !.return = IF command[n].kind = "report" THEN "home" ELSE @]
    /\ UNCHANGED <<disk, answered>>

\* onboardingPermissionMsg: the next question, from wherever the setup is by now.
PermissionDone(n) ==
    /\ Taken(n, {"permission"})
    /\ SavedScreen(Advance([screen EXCEPT !.busy = FALSE]))
    /\ UNCHANGED <<answered>>

\* What a team command that failed leaves: the error, with the form as it is.
Failed(s) == [s EXCEPT !.busy = FALSE, !.cfg = IF s.mode \in Forms THEN @ ELSE disk]

\* What one that succeeded leaves; a joined team opens unless a session is active.
Succeeded(n) ==
    \/ /\ screen' = [screen EXCEPT !.busy = FALSE, !.cfg = command[n].cfg, !.mode = "home", !.return = "home"]
       /\ command' = [command EXCEPT ![n] = NoCommand]
    \/ /\ command[n].kind = "join"
       /\ screen' = Closed
       /\ command' = [k \in 1 .. MaxCommands |-> NoCommand]

\* Mutant: an error leaves the form locked.
FormDoneKeepsBusy(n) ==
    /\ screen.open /\ command[n].done /\ command[n].kind \in {"join", "team"}
    /\ IF command[n].ok
       THEN Succeeded(n)
       ELSE command' = [command EXCEPT ![n] = NoCommand] /\ UNCHANGED screen
    /\ UNCHANGED <<disk, answered>>

\* formDoneMsg.
FormDone(n) ==
    /\ screen.open /\ command[n].done /\ command[n].kind \in {"join", "team"}
    /\ IF command[n].ok
       THEN Succeeded(n)
       ELSE command' = [command EXCEPT ![n] = NoCommand] /\ screen' = Failed(screen)
    /\ UNCHANGED <<disk, answered>>

HomeNext ==
    \/ FinishLaunch \/ ChangeSetting \/ ToggleKeepRunning \/ Refresh \/ Answer \/ PreviousQuestion
    \/ Back \/ CancelForm \/ SubmitLocal \/ SubmitTeam \/ Reset \/ LeaveScreen \/ Reopen
    \/ \E item \in Menus : OpenMenu(item)
    \/ \E item \in Forms : OpenForm(item)
    \/ \E item \in Commands : Run(item)
    \/ \E n \in 1 .. MaxCommands : Finish(n) \/ CommandDone(n) \/ PermissionDone(n) \/ FormDone(n)
    \/ RefreshRuntime

HomeSpec == HomeInit /\ [][HomeNext]_homeVars

-----------------------------------------------------------------------------
\* The first setup counts as done only when each of its questions has been answered on
\* this device, over restarts, ways back, late answers and stale copies of the file.
\* Answers given before a factory reset count: after one, a command left from before it can
\* unlock the screen while the permission's runs, whose answer then skips a question.
SetupIsComplete == disk.seen => answered = 0 .. Questions - 1

\* The screen is locked only while a command is under way whose answer will unlock it.
LockedForACommand == screen.busy => \E n \in 1 .. MaxCommands : command[n] # NoCommand
=============================================================================
