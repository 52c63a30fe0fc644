------------------------------- MODULE HomeProofs -------------------------------
(* Theorems about Home, for any number of commands under way.                      *)
EXTENDS Home, TLAPS

Asked == 0 .. Questions - 1
Modes == {"home", "first-setup", "doctor-report"} \cup Menus \cup Forms
Places == {"home", "first-setup"} \cup Menus
Screens == [open : BOOLEAN, splash : BOOLEAN, busy : BOOLEAN, pending : BOOLEAN,
            step : Asked, cfg : Settled, mode : Modes, return : Places]
CommandRecs == [kind : {"none", "report", "plain", "permission", "join", "team"},
                ok : BOOLEAN, done : BOOLEAN, cfg : Settled]

Types ==
    /\ disk \in Settled
    /\ screen \in Screens
    /\ command \in [1 .. MaxCommands -> CommandRecs]
    /\ answered \subseteq Asked

LEMMA TypesAre == HomeTypeOK <=> Types
  BY DEF HomeTypeOK, Types, Screens, CommandRecs, Modes, Places, Asked

LEMMA FirstAsked == 0 \in Asked
  BY DEF Asked, Questions

LEMMA DefaultsOK == Defaults \in Settled
  BY DEF Defaults, Settled, Questions

LEMMA NoCommandOK == NoCommand \in CommandRecs
  BY DefaultsOK DEF NoCommand, CommandRecs

LEMMA OpenedOK == ASSUME disk \in Settled PROVE Opened \in Screens
<1>1. disk.step \in Asked
  BY DEF Settled, Asked
<1>2. (~disk.seen) \in BOOLEAN
  OBVIOUS
<1>3. QED  BY <1>1, <1>2 DEF Opened, Screens, Modes, Places

LEMMA ClosedOK == Closed \in Screens
  BY DefaultsOK DEF Closed, Screens, Modes, Places, Asked, Questions

\* The next question, or the end of the setup.
LEMMA AdvanceOK ==
    ASSUME NEW s \in Screens
    PROVE  Advance(s) \in Screens
<1>1. CASE s.step >= Questions - 1
  <2> DEFINE cfg == [s.cfg EXCEPT !.seen = TRUE, !.step = 0]
  <2>1. cfg \in Settled
    <3>1. s.cfg \in Settled
      BY DEF Screens
    <3>2. QED  BY <3>1, FirstAsked DEF Settled, Asked
  <2>2. Advance(s) = [s EXCEPT !.cfg = cfg, !.pending = FALSE, !.mode = "home"]
    BY <1>1 DEF Advance, Screens
  <2> HIDE DEF cfg
  <2>3. QED  BY <2>1, <2>2 DEF Screens, Modes
<1>2. CASE ~ s.step >= Questions - 1
  <2> DEFINE cfg == [s.cfg EXCEPT !.step = s.step + 1]
  <2>1. s.step + 1 \in Asked
    BY <1>2 DEF Screens, Asked, Questions
  <2>2. cfg \in Settled
    BY <2>1 DEF Screens, Settled, Questions, Asked
  <2>3. Advance(s) = [s EXCEPT !.step = s.step + 1, !.cfg = cfg]
    BY <1>2 DEF Advance, Screens
  <2> HIDE DEF cfg
  <2>4. QED  BY <2>1, <2>2, <2>3 DEF Screens
<1>3. QED  BY <1>1, <1>2

LEMMA ReturnOK ==
    ASSUME NEW item \in Forms, NEW from \in Places \cup {"doctor-report"} \cup Forms
    PROVE  ReturnOf(item, from) \in Places
  BY DEF ReturnOf, Places, Menus, Forms, LocalForms, TeamForms

\* A command is of one of five kinds.
LEMMA KindOK ==
    ASSUME NEW item \in Commands \cup TeamForms
    PROVE  KindOf(item) \in {"report", "plain", "permission", "join", "team"}
  BY DEF KindOf, Commands, Reports, Plain, TeamForms

LEMMA StartedOK ==
    ASSUME command \in [1 .. MaxCommands -> CommandRecs], NEW item \in Commands \cup TeamForms,
           Started(item)
    PROVE  /\ command' \in [1 .. MaxCommands -> CommandRecs]
           /\ \E n \in 1 .. MaxCommands :
                 /\ command[n] = NoCommand
                 /\ command'[n].kind = KindOf(item)
                 /\ \A k \in 1 .. MaxCommands : k # n => command'[k] = command[k]
<1>1. PICK n \in 1 .. MaxCommands :
         command[n] = NoCommand /\ command' = [command EXCEPT ![n].kind = KindOf(item)]
  BY DEF Started
<1>2. command' = [command EXCEPT ![n] = [command[n] EXCEPT !.kind = KindOf(item)]]
  BY <1>1
<1>3. [command[n] EXCEPT !.kind = KindOf(item)] \in CommandRecs
  BY KindOK DEF CommandRecs
<1>4. [command[n] EXCEPT !.kind = KindOf(item)].kind = KindOf(item)
  BY DEF CommandRecs
<1>5. QED  BY <1>1, <1>2, <1>3, <1>4

-----------------------------------------------------------------------------
LEMMA TypeKeys ==
    ASSUME Types,
           \/ FinishLaunch \/ ChangeSetting \/ ToggleKeepRunning \/ PreviousQuestion
           \/ Back \/ CancelForm \/ Reopen \/ RefreshRuntime \/ LeaveScreen \/ Reset
           \/ \E item \in Menus : OpenMenu(item)
           \/ \E item \in Forms : OpenForm(item)
    PROVE  Types'
<1> USE DEF Types
<1>1. CASE FinishLaunch
  BY <1>1 DEF FinishLaunch, Screens, Modes
<1>2. CASE ChangeSetting
  <2>1. screen' \in Screens
    BY <1>2 DEF ChangeSetting, SavedScreen, Screens, Modes, Places, Menus, Forms, LocalForms
  <2>2. disk' \in Settled
    BY <1>2 DEF ChangeSetting, SavedScreen, Screens
  <2>3. QED  BY <1>2, <2>1, <2>2 DEF ChangeSetting
<1>3. CASE ToggleKeepRunning
  BY <1>3 DEF ToggleKeepRunning, SavedScreen, Screens
<1>4. CASE PreviousQuestion
  <2> DEFINE cfg == [screen.cfg EXCEPT !.step = screen.step - 1]
  <2>1. screen.step - 1 \in Asked /\ cfg \in Settled
    BY <1>4 DEF PreviousQuestion, Screens, Settled, Asked, Questions
  <2>2. screen' = [screen EXCEPT !.step = screen.step - 1, !.cfg = cfg]
    BY <1>4 DEF PreviousQuestion, SavedScreen, Screens
  <2>3. disk' = screen'.cfg /\ UNCHANGED <<command, answered>>
    BY <1>4 DEF PreviousQuestion, SavedScreen
  <2> HIDE DEF cfg
  <2>4. QED  BY <2>1, <2>2, <2>3 DEF Screens
<1>5. CASE Back
  BY <1>5 DEF Back, Screens, Modes, Menus
<1>6. CASE CancelForm
  BY <1>6 DEF CancelForm, Screens, Modes, Places
<1>7. CASE Reopen
  BY <1>7, OpenedOK DEF Reopen
<1>8. CASE RefreshRuntime
  BY <1>8 DEF RefreshRuntime, Screens
<1>9. CASE LeaveScreen
  <2>1. screen.cfg \in Settled
    BY DEF Screens
  <2>2. PICK file \in Settled : Close(file)
    BY <1>9, <2>1 DEF LeaveScreen
  <2>3. QED  BY <2>2, ClosedOK, NoCommandOK DEF Close
<1>10. CASE Reset
  <2>1. screen' \in Screens
    BY <1>10, DefaultsOK, FirstAsked DEF Reset, Screens, Modes
  <2>2. QED  BY <1>10, <2>1, DefaultsOK DEF Reset
<1>11. ASSUME NEW item \in Menus, OpenMenu(item) PROVE Types'
  BY <1>11 DEF OpenMenu, Screens, Modes
<1>12. ASSUME NEW item \in Forms, OpenForm(item) PROVE Types'
  <2>1. screen.mode \in Places \cup {"doctor-report"} \cup Forms
    BY DEF Screens, Modes, Places
  <2>2. ReturnOf(item, screen.mode) \in Places
    BY <2>1, ReturnOK
  <2>3. QED  BY <1>12, <2>2 DEF OpenForm, Screens, Modes
<1>13. QED
  BY <1>1, <1>2, <1>3, <1>4, <1>5, <1>6, <1>7, <1>8, <1>9, <1>10, <1>11, <1>12

LEMMA TypeCommands ==
    ASSUME Types,
           \/ Refresh \/ Answer \/ SubmitLocal \/ SubmitTeam
           \/ \E item \in Commands : Run(item)
           \/ \E n \in 1 .. MaxCommands : Finish(n) \/ CommandDone(n) \/ PermissionDone(n) \/ FormDone(n)
    PROVE  Types'
<1> USE DEF Types
<1>1. CASE Refresh
  <2>1. command' \in [1 .. MaxCommands -> CommandRecs]
    BY <1>1, StartedOK DEF Refresh, Commands, Reports
  <2>2. QED  BY <1>1, <2>1 DEF Refresh, Screens
<1>2. CASE Answer
  <2>1. screen' \in Screens /\ disk' \in Settled
    BY <1>2, AdvanceOK DEF Answer, SavedScreen, Screens
  <2>2. screen.step \in Asked
    BY DEF Screens
  <2>3. QED  BY <1>2, <2>1, <2>2 DEF Answer
<1>3. CASE SubmitLocal
  <2> DEFINE after == [screen EXCEPT !.return = "home",
                          !.mode = IF @ \in {"nickname", "backend-url"} THEN screen.return ELSE "advanced"]
             names == screen.mode = "nickname" /\ screen.return = "first-setup"
  <2>1. after \in Screens
    BY DEF Screens, Modes, Places, Menus
  <2>2. /\ screen' = IF names THEN Advance(after) ELSE after
        /\ disk' = screen'.cfg /\ UNCHANGED command
        /\ answered' = IF names THEN answered \cup {screen.step} ELSE answered
    BY <1>3 DEF SubmitLocal, SavedScreen
  <2> HIDE DEF after
  <2>3. screen' \in Screens
    BY <2>1, <2>2, AdvanceOK
  <2>4. screen.step \in Asked /\ screen'.cfg \in Settled
    BY <2>3 DEF Screens
  <2>5. QED  BY <2>2, <2>3, <2>4
<1>4. CASE SubmitTeam
  <2>1. command' \in [1 .. MaxCommands -> CommandRecs]
    BY <1>4, StartedOK DEF SubmitTeam
  <2>2. QED  BY <1>4, <2>1 DEF SubmitTeam, Screens
<1>5. ASSUME NEW item \in Commands, Run(item) PROVE Types'
  <2>1. command' \in [1 .. MaxCommands -> CommandRecs]
    BY <1>5, StartedOK DEF Run
  <2>2. answered' \subseteq Asked
    BY <1>5 DEF Run, Screens
  <2>3. QED  BY <1>5, <2>1, <2>2 DEF Run, Screens
<1>6. ASSUME NEW n \in 1 .. MaxCommands,
             Finish(n) \/ CommandDone(n) \/ PermissionDone(n) \/ FormDone(n)
      PROVE  Types'
  <2>1. [command EXCEPT ![n] = NoCommand] \in [1 .. MaxCommands -> CommandRecs]
    BY NoCommandOK
  <2>2. CASE Finish(n)
    <3>1. PICK c \in CommandRecs : command' = [command EXCEPT ![n] = c]
      <4>1. [command[n] EXCEPT !.done = TRUE] \in CommandRecs
        BY DEF CommandRecs
      <4>2. [command[n] EXCEPT !.done = TRUE, !.ok = TRUE, !.cfg = disk] \in CommandRecs
        BY DEF CommandRecs
      <4>3. \/ command' = [command EXCEPT ![n] = [command[n] EXCEPT !.done = TRUE]]
            \/ command' = [command EXCEPT ![n] = [command[n] EXCEPT !.done = TRUE, !.ok = TRUE, !.cfg = disk]]
        BY <2>2 DEF Finish
      <4>4. QED  BY <4>1, <4>2, <4>3
    <3>2. QED  BY <2>2, <3>1 DEF Finish
  <2>3. CASE CommandDone(n)
    BY <2>1, <2>3 DEF CommandDone, Taken, Screens, Modes, Places
  <2>4. CASE PermissionDone(n)
    <3>1. [screen EXCEPT !.busy = FALSE] \in Screens
      BY DEF Screens
    <3>2. screen' \in Screens /\ disk' = screen'.cfg
      BY <2>4, <3>1, AdvanceOK DEF PermissionDone, SavedScreen
    <3>3. QED  BY <2>1, <2>4, <3>2 DEF PermissionDone, Taken, Screens
  <2>5. CASE FormDone(n)
    <3>1. command[n].cfg \in Settled
      BY DEF CommandRecs
    <3>2. Failed(screen) \in Screens
      BY DEF Failed, Screens
    <3>3. [screen EXCEPT !.busy = FALSE, !.cfg = command[n].cfg, !.mode = "home", !.return = "home"] \in Screens
      BY <3>1 DEF Screens, Modes, Places
    <3>4. screen' \in Screens /\ command' \in [1 .. MaxCommands -> CommandRecs]
      BY <2>1, <2>5, <3>2, <3>3, ClosedOK, NoCommandOK DEF FormDone, Succeeded
    <3>5. QED  BY <2>5, <3>4 DEF FormDone
  <2>6. QED  BY <1>6, <2>2, <2>3, <2>4, <2>5
<1>7. QED  BY <1>1, <1>2, <1>3, <1>4, <1>5, <1>6

\* Types of the control screen, its commands and its answers (homeModel).
THEOREM HomeTypes == HomeSpec => []HomeTypeOK
<1>1. HomeInit => Types
  BY OpenedOK, DefaultsOK, NoCommandOK DEF HomeInit, Types
<1>2. Types /\ [HomeNext]_homeVars => Types'
  <2>1. ASSUME Types, UNCHANGED homeVars PROVE Types'
    BY <2>1 DEF Types, homeVars
  <2>2. ASSUME Types, HomeNext PROVE Types'
    BY <2>2, TypeKeys, TypeCommands DEF HomeNext
  <2>3. QED  BY <2>1, <2>2
<1>3. QED  BY <1>1, <1>2, TypesAre, PTL DEF HomeSpec

-----------------------------------------------------------------------------
(* The lock of the screen. *)

LEMMA AdvanceKeeps ==
    ASSUME NEW s \in Screens
    PROVE  Advance(s).busy = s.busy /\ Advance(s).open = s.open
  BY DEF Advance, Screens

\* A form about this device is submitted: the screen goes where it came from, and on to
\* the next question when the first setup asked.
LEMMA SubmittedIs ==
    ASSUME Types, SubmitLocal
    PROVE  \E after \in Screens :
             /\ ~after.busy /\ after.open = screen.open /\ after.splash = screen.splash
             /\ after.pending = screen.pending
             /\ after.step = screen.step /\ after.cfg = screen.cfg
             /\ screen.mode = "nickname" => after.mode = screen.return
             /\ disk' = screen'.cfg /\ UNCHANGED command
             /\ IF screen.mode = "nickname" /\ screen.return = "first-setup"
                THEN screen' = Advance(after) /\ answered' = answered \cup {screen.step}
                ELSE screen' = after /\ answered' = answered
<1> DEFINE after == [screen EXCEPT !.return = "home",
                        !.mode = IF @ \in {"nickname", "backend-url"} THEN screen.return ELSE "advanced"]
<1>1. screen \in Screens
  BY DEF Types
<1>2. after \in Screens
  BY <1>1 DEF Screens, Modes, Places, Menus
<1>3. /\ ~after.busy /\ after.open = screen.open /\ after.splash = screen.splash
      /\ after.pending = screen.pending
      /\ after.step = screen.step /\ after.cfg = screen.cfg
      /\ screen.mode = "nickname" => after.mode = screen.return
  BY <1>1 DEF Screens, SubmitLocal
<1>4. /\ disk' = screen'.cfg /\ UNCHANGED command
      /\ IF screen.mode = "nickname" /\ screen.return = "first-setup"
         THEN screen' = Advance(after) /\ answered' = answered \cup {screen.step}
         ELSE screen' = after /\ answered' = answered
  BY DEF SubmitLocal, SavedScreen
<1> HIDE DEF after
<1>5. QED  BY <1>2, <1>3, <1>4

LEMMA LockKeys ==
    ASSUME Types, LockedForACommand,
           \/ FinishLaunch \/ ChangeSetting \/ ToggleKeepRunning \/ PreviousQuestion
           \/ Back \/ CancelForm \/ Reopen \/ RefreshRuntime \/ LeaveScreen \/ Reset
           \/ Answer \/ SubmitLocal
           \/ \E item \in Menus : OpenMenu(item)
           \/ \E item \in Forms : OpenForm(item)
    PROVE  LockedForACommand'
<1> USE DEF LockedForACommand
<1>1. screen \in Screens
  BY DEF Types
<1>2. CASE Answer
  BY <1>1, <1>2, AdvanceKeeps DEF Answer, SavedScreen
<1>3. CASE SubmitLocal
  BY <1>3, SubmittedIs, AdvanceKeeps
<1>4. CASE LeaveScreen
  <2>1. screen' = Closed
    BY <1>4 DEF LeaveScreen, Close
  <2>2. QED  BY <2>1 DEF Closed
<1>5. CASE Reopen
  BY <1>5 DEF Reopen, Opened
<1>6. CASE FinishLaunch \/ Reset \/ Back \/ CancelForm \/ RefreshRuntime
  BY <1>1, <1>6 DEF FinishLaunch, Reset, Back, CancelForm, RefreshRuntime, Screens
<1>7. CASE ChangeSetting \/ ToggleKeepRunning \/ PreviousQuestion
  BY <1>1, <1>7 DEF ChangeSetting, ToggleKeepRunning, PreviousQuestion, SavedScreen, Screens
<1>8. CASE (\E item \in Menus : OpenMenu(item)) \/ (\E item \in Forms : OpenForm(item))
  BY <1>1, <1>8 DEF OpenMenu, OpenForm, Screens
<1>9. QED  BY <1>2, <1>3, <1>4, <1>5, <1>6, <1>7, <1>8

LEMMA LockCommands ==
    ASSUME Types, LockedForACommand,
           \/ Refresh \/ SubmitTeam
           \/ \E item \in Commands : Run(item)
           \/ \E n \in 1 .. MaxCommands : Finish(n) \/ CommandDone(n) \/ PermissionDone(n) \/ FormDone(n)
    PROVE  LockedForACommand'
<1> USE DEF LockedForACommand
<1>1. screen \in Screens /\ command \in [1 .. MaxCommands -> CommandRecs]
  BY DEF Types
<1>2. ASSUME NEW item \in Commands \cup TeamForms, Started(item) PROVE LockedForACommand'
  BY <1>1, <1>2, StartedOK, KindOK DEF NoCommand
<1>3. CASE Refresh
  BY <1>2, <1>3 DEF Refresh, Commands, Reports
<1>4. CASE SubmitTeam
  BY <1>2, <1>4 DEF SubmitTeam
<1>5. ASSUME NEW item \in Commands, Run(item) PROVE LockedForACommand'
  BY <1>2, <1>5 DEF Run
<1>6. ASSUME NEW n \in 1 .. MaxCommands, Finish(n) PROVE LockedForACommand'
  <2>1. command[n].kind # "none" /\ command'[n].kind = command[n].kind
    BY <1>1, <1>6 DEF Finish, CommandRecs
  <2>2. QED  BY <1>6, <2>1 DEF NoCommand
<1>7. ASSUME NEW n \in 1 .. MaxCommands, CommandDone(n) PROVE ~screen'.busy
  BY <1>1, <1>7 DEF CommandDone, Screens
<1>8. ASSUME NEW n \in 1 .. MaxCommands, PermissionDone(n) PROVE ~screen'.busy
  <2>1. [screen EXCEPT !.busy = FALSE] \in Screens /\ ~[screen EXCEPT !.busy = FALSE].busy
    BY <1>1 DEF Screens
  <2>2. QED  BY <1>8, <2>1, AdvanceKeeps DEF PermissionDone, SavedScreen
<1>9. ASSUME NEW n \in 1 .. MaxCommands, FormDone(n) PROVE ~screen'.busy
  <2>1. ~Failed(screen).busy
    BY <1>1 DEF Failed, Screens
  <2>2. ASSUME Succeeded(n) PROVE ~screen'.busy
    <3> DEFINE home == [screen EXCEPT !.busy = FALSE, !.cfg = command[n].cfg, !.mode = "home",
                                      !.return = "home"]
    <3>1. ~home.busy /\ ~Closed.busy
      BY <1>1 DEF Closed, Screens
    <3>2. screen' = home \/ screen' = Closed
      BY <2>2 DEF Succeeded
    <3>3. QED  BY <3>1, <3>2
  <2>3. QED  BY <1>9, <2>1, <2>2 DEF FormDone
<1>10. QED  BY <1>3, <1>4, <1>5, <1>6, <1>7, <1>8, <1>9

\* However keys, answers and the one-second refresh interleave, and over any number of
\* commands under way, busy is set only while one is whose answer will clear it
\* (commandDoneMsg, formDoneMsg, onboardingPermissionMsg).
THEOREM LockIsACommands == HomeSpec => []LockedForACommand
<1>1. HomeInit => Types /\ LockedForACommand
  BY OpenedOK, DefaultsOK, NoCommandOK DEF HomeInit, Types, LockedForACommand, Opened
<1>2. Types /\ LockedForACommand /\ [HomeNext]_homeVars => Types' /\ LockedForACommand'
  <2>1. ASSUME Types, LockedForACommand, UNCHANGED homeVars PROVE Types' /\ LockedForACommand'
    BY <2>1 DEF Types, LockedForACommand, homeVars
  <2>2. ASSUME Types, LockedForACommand, HomeNext PROVE Types' /\ LockedForACommand'
    BY <2>2, TypeKeys, TypeCommands, LockKeys, LockCommands DEF HomeNext
  <2>3. QED  BY <2>1, <2>2
<1>3. QED  BY <1>1, <1>2, PTL DEF HomeSpec

-----------------------------------------------------------------------------
(* The first setup.  Until every question has been answered, the screen is the    *)
(* launch, the setup itself or its form, and only the permission's command can be  *)
(* under way: what would disturb it, reports, menus and settings, cannot be reached.*)

\* Every question before this one has been answered.
Behind(step, done) == \A q \in Asked : q < step => q \in done

InSetup(s) == s.mode = "first-setup" \/ (s.mode = "nickname" /\ s.return = "first-setup")

Asks(s, done) ==
    /\ ~s.cfg.seen /\ Behind(s.cfg.step, done)
    /\ Behind(s.step, done)
    /\ s.open => s.pending
    /\ s.open /\ s.splash => s.mode = "home"
    /\ s.open /\ ~s.splash => InSetup(s)

Permission(n) == command[n].kind = "permission"

\* The permission's command locks the screen at its question, or before it.
OnlyPermission ==
    \A n \in 1 .. MaxCommands :
      /\ Permission(n) \/ command[n].kind = "none"
      /\ Permission(n) => /\ Shown /\ screen.busy /\ screen.mode = "first-setup"
                          /\ screen.step \in answered
                          /\ \A m \in 1 .. MaxCommands : Permission(m) => m = n

Unfinished ==
    /\ ~disk.seen /\ Behind(disk.step, answered)
    /\ Asks(screen, answered)
    /\ OnlyPermission

Setup == answered # Asked => Unfinished

LEMMA MoreBehind ==
    ASSUME NEW step, NEW some, NEW more, some \subseteq more, Behind(step, some)
    PROVE  Behind(step, more)
  BY DEF Behind

\* Going on from a question that has been answered: unless it was the last missing one,
\* the setup goes on.
LEMMA AdvanceAsks ==
    ASSUME NEW s \in Screens, NEW done, done \subseteq Asked, done # Asked,
           s.open, ~s.splash, s.pending, s.mode = "first-setup", ~s.cfg.seen,
           Behind(s.step, done), s.step \in done
    PROVE  /\ Asks(Advance(s), done)
           /\ Advance(s).mode = "first-setup" /\ Advance(s).cfg.step = s.step + 1
<1>1. s.step \in 0 .. 2 /\ Asked = {0, 1, 2}
  BY DEF Screens, Asked, Questions
<1>2. s.step # 2
  <2>1. SUFFICES ASSUME s.step = 2 PROVE FALSE
    OBVIOUS
  <2>2. \A q \in Asked : q \in done
    <3>1. \A q \in {0, 1, 2} : q < 2 \/ q = 2
      OBVIOUS
    <3>2. QED  BY <1>1, <2>1, <3>1 DEF Behind
  <2>3. QED  BY <2>2
<1>3. s.step < Questions - 1
  BY <1>1, <1>2 DEF Questions
<1> DEFINE cfg == [s.cfg EXCEPT !.step = s.step + 1]
<1>4. cfg.step = s.step + 1 /\ ~cfg.seen
  BY DEF Screens, Settled
<1>5. Advance(s) = [s EXCEPT !.step = s.step + 1, !.cfg = cfg]
  BY <1>3, <1>1 DEF Advance, Screens, Questions
<1> HIDE DEF cfg
<1>6. Behind(s.step + 1, done)
  BY <1>1 DEF Behind
<1>7. QED  BY <1>4, <1>5, <1>6 DEF Asks, InSetup, Screens

\* What can be chosen while the setup shows.
LEMMA SetupItems ==
    ASSUME InSetup(screen), NEW item \in Items
    PROVE  item \in {"answer", "nickname", "permission"} /\ screen.mode = "first-setup"
  BY DEF InSetup, Items

\* While the setup is unfinished no command is under way on a screen that is not locked.
LEMMA NoneUnlocked ==
    ASSUME Unfinished, ~screen.busy, NEW n \in 1 .. MaxCommands
    PROVE  command[n].kind = "none"
  BY DEF Unfinished, OnlyPermission

LEMMA NoneUnlockedThen ==
    ASSUME \A n \in 1 .. MaxCommands : command'[n].kind = "none"
    PROVE  OnlyPermission'
  BY DEF OnlyPermission, Permission

LEMMA SetupKeys ==
    ASSUME Types, Types', Unfinished, answered' # Asked,
           \/ FinishLaunch \/ ChangeSetting \/ ToggleKeepRunning \/ PreviousQuestion
           \/ Back \/ CancelForm \/ Reopen \/ RefreshRuntime \/ LeaveScreen \/ Reset
           \/ \E item \in Menus : OpenMenu(item)
           \/ \E item \in Forms : OpenForm(item)
    PROVE  Unfinished'
<1>1. /\ screen \in Screens /\ command \in [1 .. MaxCommands -> CommandRecs] /\ disk \in Settled
      /\ Asks(screen, answered) /\ OnlyPermission /\ ~disk.seen /\ Behind(disk.step, answered)
  BY DEF Types, Unfinished
<1>2. Shown => InSetup(screen)
  BY <1>1 DEF Asks, Shown
<1>3. ~ \E item \in Menus \cup {"reset-confirm", "background-toggle"} \cup Leaving : Chosen(item)
  BY <1>2, SetupItems DEF Chosen, Menus, Leaving
<1>4. ~ ChangeSetting /\ ~ ToggleKeepRunning /\ ~ Back /\ ~ Reset
      /\ ~ \E item \in Menus : OpenMenu(item)
  <2>1. ~ (Shown /\ screen.mode \in {"doctor-report"} \cup Menus)
    BY <1>2 DEF InSetup, Menus
  <2>2. QED  BY <1>3, <2>1 DEF ChangeSetting, ToggleKeepRunning, Back, Reset, OpenMenu, Menus
<1>5. CASE FinishLaunch
  <2>1. screen' = [screen EXCEPT !.splash = FALSE, !.mode = "first-setup"]
    BY <1>1, <1>5 DEF FinishLaunch, Asks
  <2>2. Asks(screen', answered')
    BY <1>1, <1>5, <2>1 DEF FinishLaunch, Asks, Screens, InSetup
  <2>3. \A n \in 1 .. MaxCommands : command'[n].kind = "none"
    BY <1>1, <1>5 DEF FinishLaunch, OnlyPermission, Shown
  <2>4. QED  BY <1>1, <1>5, <2>2, <2>3, NoneUnlockedThen DEF FinishLaunch, Unfinished
<1>6. CASE PreviousQuestion
  <2> DEFINE cfg == [screen.cfg EXCEPT !.step = screen.step - 1]
  <2>1. /\ screen' = [screen EXCEPT !.step = screen.step - 1, !.cfg = cfg]
        /\ disk' = screen'.cfg /\ UNCHANGED <<command, answered>>
        /\ screen.mode = "first-setup" /\ Shown /\ screen.step > 0
    BY <1>6 DEF PreviousQuestion, SavedScreen
  <2>2. cfg.step = screen.step - 1 /\ ~cfg.seen /\ screen.step \in 0 .. 2
    BY <1>1 DEF Asks, Screens, Settled, Asked, Questions
  <2> HIDE DEF cfg
  <2>3. Behind(screen.step - 1, answered)
    BY <1>1, <2>2 DEF Behind, Asks, Asked, Questions
  <2>4. Asks(screen', answered') /\ ~disk'.seen /\ Behind(disk'.step, answered')
    BY <1>1, <2>1, <2>2, <2>3 DEF Asks, Screens, InSetup, Shown
  <2>5. OnlyPermission'
    <3>1. ASSUME NEW n \in 1 .. MaxCommands, Permission(n) PROVE screen'.step \in answered'
      <4>1. screen.step - 1 \in Asked /\ screen.step - 1 < screen.step
        BY <2>1, <2>2 DEF Asked, Questions
      <4>2. QED  BY <1>1, <2>1, <4>1 DEF Behind, Asks, Screens
    <3>2. Shown' /\ screen'.busy = screen.busy /\ screen'.mode = "first-setup"
      BY <1>1, <2>1 DEF Shown, Screens
    <3>3. QED  BY <1>1, <2>1, <3>1, <3>2 DEF OnlyPermission, Permission
  <2>6. QED  BY <2>4, <2>5 DEF Unfinished
<1>7. CASE CancelForm
  <2>1. \A n \in 1 .. MaxCommands : command'[n].kind = "none"
    BY <1>7, NoneUnlocked DEF CancelForm
  <2>2. screen.mode = "nickname" /\ screen.return = "first-setup"
    BY <1>2, <1>7 DEF CancelForm, InSetup, Forms, LocalForms, TeamForms
  <2>3. Asks(screen', answered')
    BY <1>1, <1>7, <2>2 DEF CancelForm, Asks, Screens, InSetup, Shown
  <2>4. QED  BY <1>1, <1>7, <2>1, <2>3, NoneUnlockedThen DEF CancelForm, Unfinished
<1>8. CASE Reopen
  <2>1. Asks(Opened, answered)
    BY <1>1 DEF Opened, Asks
  <2>2. \A n \in 1 .. MaxCommands : command'[n].kind = "none"
    BY <1>1, <1>8 DEF Reopen, OnlyPermission, Shown
  <2>3. QED  BY <1>1, <1>8, <2>1, <2>2, NoneUnlockedThen DEF Reopen, Unfinished
<1>9. CASE RefreshRuntime
  <2>1. Asks(screen', answered')
    BY <1>1, <1>9 DEF RefreshRuntime, Asks, Screens, InSetup
  <2>2. screen' = [screen EXCEPT !.cfg = disk] /\ UNCHANGED <<disk, command, answered>>
    BY <1>9 DEF RefreshRuntime
  <2>3. OnlyPermission'
    BY <1>1, <2>2 DEF OnlyPermission, Permission, Shown, Screens
  <2>4. QED  BY <1>1, <2>1, <2>2, <2>3 DEF Unfinished
<1>10. CASE LeaveScreen
  <2>1. Close(disk)
    BY <1>3, <1>10 DEF LeaveScreen
  <2>2. Asks(Closed, answered)
    BY DEF Closed, Asks, Behind, Defaults, Asked
  <2>3. \A n \in 1 .. MaxCommands : command'[n].kind = "none"
    BY <2>1 DEF Close, NoCommand
  <2>4. QED  BY <1>1, <2>1, <2>2, <2>3, NoneUnlockedThen DEF Close, Unfinished
<1>11. ASSUME NEW item \in Forms, OpenForm(item) PROVE Unfinished'
  <2>1. item = "nickname" /\ screen.mode = "first-setup" /\ ~screen.busy
    BY <1>2, <1>11, SetupItems DEF OpenForm, Chosen, Forms, LocalForms, TeamForms
  <2>2. screen' = [screen EXCEPT !.mode = "nickname", !.return = "first-setup"]
    BY <1>11, <2>1 DEF OpenForm, ReturnOf
  <2>3. Asks(screen', answered')
    BY <1>1, <1>11, <2>2 DEF OpenForm, Asks, Screens, InSetup, Chosen, Shown
  <2>4. \A n \in 1 .. MaxCommands : command'[n].kind = "none"
    BY <1>11, <2>1, NoneUnlocked DEF OpenForm
  <2>5. QED  BY <1>1, <1>11, <2>3, <2>4, NoneUnlockedThen DEF OpenForm, Unfinished
<1>12. QED  BY <1>4, <1>5, <1>6, <1>7, <1>8, <1>9, <1>10, <1>11

LEMMA SetupCommands ==
    ASSUME Types, Types', Unfinished, answered' # Asked,
           \/ Refresh \/ Answer \/ SubmitLocal \/ SubmitTeam
           \/ \E item \in Commands : Run(item)
           \/ \E n \in 1 .. MaxCommands : Finish(n) \/ CommandDone(n) \/ PermissionDone(n) \/ FormDone(n)
    PROVE  Unfinished'
<1>1. /\ screen \in Screens /\ command \in [1 .. MaxCommands -> CommandRecs] /\ disk \in Settled
      /\ Asks(screen, answered) /\ OnlyPermission /\ ~disk.seen /\ Behind(disk.step, answered)
      /\ answered \subseteq Asked /\ answered' \subseteq Asked
  BY DEF Types, Unfinished
<1>2. Shown => InSetup(screen)
  BY <1>1 DEF Asks, Shown
<1>3. \A n \in 1 .. MaxCommands : command[n].kind \in {"none", "permission"}
  BY <1>1 DEF OnlyPermission, Permission
<1>4. ~ Refresh /\ ~ SubmitTeam
  BY <1>2 DEF Refresh, SubmitTeam, InSetup, TeamForms
<1>5. ~ \E n \in 1 .. MaxCommands : Finish(n) \/ CommandDone(n) \/ FormDone(n)
  BY <1>3 DEF Finish, CommandDone, FormDone, Taken
<1>6. CASE Answer
  <2>1. /\ InSetup(screen) /\ ~screen.busy /\ Shown /\ screen.mode = "first-setup"
    BY <1>2, <1>6, SetupItems DEF Answer, Chosen
  <2>2. /\ Behind(screen.step, answered') /\ screen.step \in answered'
    BY <1>1, <1>6, MoreBehind DEF Answer, Asks
  <2>3. /\ Asks(Advance(screen), answered') /\ Advance(screen).cfg.step = screen.step + 1
        /\ Advance(screen).mode = "first-setup"
    BY <1>1, <2>1, <2>2, AdvanceAsks DEF Asks, Shown
  <2>4. screen' = Advance(screen) /\ disk' = screen'.cfg /\ UNCHANGED command
    BY <1>6 DEF Answer, SavedScreen
  <2>5. \A n \in 1 .. MaxCommands : command'[n].kind = "none"
    BY <2>1, <2>4, NoneUnlocked
  <2>6. QED  BY <2>3, <2>4, <2>5, NoneUnlockedThen DEF Unfinished, Asks
<1>7. CASE SubmitLocal
  <2>1. screen.mode = "nickname" /\ screen.return = "first-setup" /\ ~screen.busy /\ Shown
    BY <1>2, <1>7 DEF SubmitLocal, InSetup, LocalForms
  <2>2. PICK after \in Screens :
           /\ ~after.busy /\ after.open = screen.open /\ after.splash = screen.splash
           /\ after.pending = screen.pending
           /\ after.step = screen.step /\ after.cfg = screen.cfg
           /\ after.mode = "first-setup"
           /\ disk' = screen'.cfg /\ UNCHANGED command
           /\ screen' = Advance(after) /\ answered' = answered \cup {screen.step}
    BY <1>7, <2>1, SubmittedIs
  <2>3. Behind(after.step, answered') /\ after.step \in answered'
    BY <1>1, <2>2, MoreBehind DEF Asks
  <2>4. Asks(screen', answered')
    BY <1>1, <2>1, <2>2, <2>3, AdvanceAsks DEF Asks, Shown
  <2>5. \A n \in 1 .. MaxCommands : command'[n].kind = "none"
    BY <2>1, <2>2, NoneUnlocked
  <2>6. QED  BY <2>2, <2>4, <2>5, NoneUnlockedThen DEF Unfinished, Asks
<1>8. ASSUME NEW item \in Commands, Run(item) PROVE Unfinished'
  <2>1. item = "permission" /\ screen.mode = "first-setup" /\ ~screen.busy /\ Shown
    BY <1>2, <1>8, SetupItems DEF Run, Chosen, Commands, Reports, Plain
  <2>2. \A n \in 1 .. MaxCommands : command[n].kind = "none"
    BY <2>1, NoneUnlocked
  <2>3. PICK n \in 1 .. MaxCommands :
           /\ command'[n].kind = KindOf(item)
           /\ \A k \in 1 .. MaxCommands : k # n => command'[k] = command[k]
    BY <1>1, <1>8, StartedOK DEF Run
  <2>4. command'[n].kind = "permission"
    BY <2>1, <2>3 DEF KindOf, Reports, Plain
  <2>5. /\ screen' = [screen EXCEPT !.busy = TRUE] /\ UNCHANGED disk
        /\ answered' = answered \cup {screen.step}
    BY <1>8, <2>1 DEF Run
  <2>6. Behind(disk'.step, answered') /\ Asks(screen', answered')
    BY <1>1, <2>5, MoreBehind DEF Asks, Screens, InSetup
  <2>7. /\ Shown' /\ screen'.busy /\ screen'.mode = "first-setup" /\ screen'.step \in answered'
    BY <1>1, <2>1, <2>5 DEF Shown, Screens
  <2>8. OnlyPermission'
    BY <2>2, <2>3, <2>4, <2>7 DEF OnlyPermission, Permission
  <2>9. QED  BY <1>1, <2>5, <2>6, <2>8 DEF Unfinished
<1>9. ASSUME NEW n \in 1 .. MaxCommands, PermissionDone(n) PROVE Unfinished'
  <2> DEFINE s == [screen EXCEPT !.busy = FALSE]
  <2>1. Permission(n) /\ command' = [command EXCEPT ![n] = NoCommand] /\ UNCHANGED answered
    BY <1>9 DEF PermissionDone, Taken, Permission
  <2>2. /\ Shown /\ screen.mode = "first-setup" /\ screen.step \in answered
        /\ \A m \in 1 .. MaxCommands : Permission(m) => m = n
    BY <1>1, <2>1 DEF OnlyPermission
  <2>3. /\ s \in Screens /\ s.open = screen.open /\ s.splash = screen.splash
        /\ s.pending = screen.pending /\ s.mode = screen.mode
        /\ s.step = screen.step /\ s.cfg = screen.cfg
    BY <1>1 DEF Screens
  <2>4. screen' = Advance(s) /\ disk' = screen'.cfg
    BY <1>9 DEF PermissionDone, SavedScreen
  <2> HIDE DEF s
  <2>5. Asks(screen', answered')
    BY <1>1, <2>1, <2>2, <2>3, <2>4, AdvanceAsks DEF Asks, Shown
  <2>6. \A m \in 1 .. MaxCommands : command'[m].kind = "none"
    BY <1>1, <1>3, <2>1, <2>2 DEF Permission, NoCommand
  <2>7. QED  BY <2>4, <2>5, <2>6, NoneUnlockedThen DEF Unfinished, Asks
<1>10. QED  BY <1>4, <1>5, <1>6, <1>7, <1>8, <1>9

LEMMA MoreAnswered ==
    ASSUME HomeNext
    PROVE  answered \subseteq answered'
  BY DEF HomeNext, FinishLaunch, ChangeSetting, ToggleKeepRunning, Refresh, Answer, PreviousQuestion,
         Back, CancelForm, SubmitLocal, SubmitTeam, Reset, LeaveScreen, Close, Reopen, OpenMenu, OpenForm,
         Run, Finish, CommandDone, PermissionDone, FormDone, RefreshRuntime

LEMMA SetupStep ==
    ASSUME Types, Setup, [HomeNext]_homeVars
    PROVE  Types' /\ Setup'
<1>1. CASE UNCHANGED homeVars
  BY <1>1 DEF homeVars, Types, Setup, Unfinished, OnlyPermission, Permission, Shown
<1>2. CASE HomeNext
  <2>1. Types'
    BY <1>2, TypeKeys, TypeCommands DEF HomeNext
  <2>2. ASSUME answered' # Asked PROVE Unfinished'
    <3>1. answered # Asked
      BY <1>2, <2>1, <2>2, MoreAnswered DEF Types
    <3>2. Unfinished
      BY <3>1 DEF Setup
    <3>3. QED  BY <1>2, <2>1, <2>2, <3>2, SetupKeys, SetupCommands DEF HomeNext
  <2>3. QED  BY <2>1, <2>2 DEF Setup
<1>3. QED  BY <1>1, <1>2

\* Over restarts, ways back, late answers and the one-second refresh of the copy, the file
\* says the first setup is done only once every one of its questions has been answered
\* (advanceOnboarding, refreshRuntime).
THEOREM SetupAsksEverything == HomeSpec => []SetupIsComplete
<1>1. HomeInit => Types /\ Setup
  <2>1. ASSUME HomeInit PROVE Types
    BY <2>1, OpenedOK, DefaultsOK, NoCommandOK DEF HomeInit, Types
  <2>2. ASSUME HomeInit PROVE Unfinished
    <3>1. ~Defaults.seen /\ Behind(Defaults.step, answered)
      BY DEF Defaults, Behind, Asked
    <3>2. Asks(Opened, answered)
      BY <2>2, <3>1 DEF HomeInit, Opened, Asks
    <3>3. OnlyPermission
      BY <2>2 DEF HomeInit, OnlyPermission, Permission, NoCommand
    <3>4. QED  BY <2>2, <3>1, <3>2, <3>3 DEF HomeInit, Unfinished
  <2>3. QED  BY <2>1, <2>2 DEF Setup
<1>2. Types /\ Setup /\ [HomeNext]_homeVars => Types' /\ Setup'
  BY SetupStep
<1>3. Setup => SetupIsComplete
  BY DEF Setup, Unfinished, SetupIsComplete, Asked
<1>4. QED  BY <1>1, <1>2, <1>3, PTL DEF HomeSpec

=============================================================================
