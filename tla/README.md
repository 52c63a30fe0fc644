# Cliks: formal models and proofs

Cliks relays "activity shape" (a key was pressed, a mouse button was clicked, and
when within half a second) between the members of a small team. A Go relay
(`src/server`) keeps live rooms; a Go command-line client (`src/cli`) captures
activity, talks to the relay over one WebSocket and plays what it hears. This
directory holds TLA+ modules of the relay's and the client's control logic, TLC
configurations that check them on small instances, and TLAPS proofs for all
instances. References of the form `hub.go:302` are to the files under `src/`.

## 1. The system: components, state, operations

| Component | State | Operations | Talks to |
|---|---|---|---|
| Relay, room membership (`server/hub.go`) | `conns`, `rooms`, each room's `peers`, each connection's `roomCode`, `alive` | connect, join/migrate, leave, heartbeat, `closeRoom` | store, gates, fan-out |
| Relay, lifecycle gates (`hub.go: lockTeam`) | `teamGates`: one mutex and reference count per team in use | lock, unlock | joins and deletions |
| Relay, fan-out (`hub.go: sendToPeers`, `enqueue`, `writeLoop`) | one bounded queue and one writer per connection | presence, welcome, activity, reaction, ping, closing frames | client |
| Relay, limiters (`server/limiter.go`) | `hits` per address, `nextCleanup` | `Allow`, `Blocked`, `PruneExpired` | join and HTTP handlers |
| Relay, team store (`server/store.go`) | teams with `deleted_at`, `last_connected_at` | create, get, touch, expire, delete | Postgres, Supabase or memory |
| Relay, HTTP API (`server/main.go`) | none of its own | create, look up, delete a team; hourly expiry loop | store, hub, limiters |
| CLI, session ownership (`cli/instance.go`) | `session.lock`, `session.json`, `background.pid`, `stop-on-exit.json` | acquire, update, release, stop, deferred stop | other processes of the device |
| CLI, session (`cli/session.go`) | socket, view state, local event channel, timers | connect and retry, join, batch and send, read, reload, stop | relay, audio, command files |
| CLI, command queue (`cli/session_bridge.go`) | files of a command directory | send, consume | attached terminals |
| CLI, configuration (`cli/config.go`, `atomic_write.go`) | `config.json` and its backup | load (migrate, restore), save, remember/forget a team | every CLI process |
| CLI, audio and room tone (`cli/audio.go`, `ambient.go`) | playback queue, player process | schedule, merge, play, update, close | speakers |
| CLI, capture (`cli/capture*.go`, `linux-capture-helper`) | per-platform hooks, dispatcher queue, helper socket clients | start, push, stop | operating system |
| CLI, terminal UI and Solo Desk (`cli/tui.go`, `solo.go`) | screen, forms, commands under way | key and mouse handlers, answers of commands | session, configuration |
| CLI, commands (`cli/main.go`, `setup.go`, `autostart.go`, `background.go`) | none of their own; the login launcher | join, create, switch, start, stop, delete, set, launch | configuration, session processes, relay |
| Website, installers, deployment | - | presentation and configuration | relay's HTTP API |

How they interact on the relay: every WebSocket connection has a handler goroutine
(reads frames, runs joins and fan-outs) and a writer goroutine; HTTP handlers run
deletions; one goroutine runs the heartbeat, one the hourly expiry. They share
`RoomHub.mu` (short sections, never held while sending or calling the store), the
gates (held over store calls) and the bounded queues.

How they interact on a device: the control screen, one-off commands, a login launcher
and at most one session are processes of their own. They share files only: the
configuration (each process reads and writes it whole), `session.lock`, `background.pid`
and `session.json`, and a directory of commands for the session. Inside the session some ten
goroutines share the socket (`wsMu`), the view, the audio engine and, without a lock,
`s.cfg`; capture feeds it through two bounded channels.

What is hard on the relay: operations span several critical sections, with store calls,
gate waits and sends between them; recipients are collected under the lock and
used after it; a connection can be evicted, closed, deleted from under its own
join; the expiry pass takes no gate; queues fill up in the middle of a fan-out. On the
device: processes end between two writes; a check of a file or a process is old when it is
used; timers, pollers and keys change the same configuration; `stop` may come between any
two steps of a start; answers arrive when the screen that asked is gone. The list of hazards, each at its line and with the properties that cover it, is
`hazards` in `PROJECT.json`.

## 2. Modules

| Module | Models | Kind |
|---|---|---|
| `RoomHub` | room membership under concurrent handlers, deletions, heartbeat and expiry | detailed |
| `Membership` | what the hub promises: each connection in at most one room, rooms capped | abstract |
| `TeamGate` | `lockTeam`: gates as objects with a mutex and a reference count | detailed |
| `TeamLock` | one lock per team | abstract |
| `RoomFanout` | who is told what, through bounded queues, with overlapping fan-outs | detailed |
| `RateLimiter` | fixed windows, pruning, calls with a slightly old clock | detailed |
| `TeamStore` | the memory, Postgres and Supabase stores and the migration of the schema | detailed |
| `Teams` | what the relay expects of a store: codes and the lives of teams | abstract |
| `SessionLock` | which process owns the device: the lock, the sibling scan, stop and launch | detailed |
| `Handoff` | which rooms a device is in and remembers: commands that join, launch, switch, stop, delete | detailed |
| `Session` | one running session of the client: reconnect loop, senders, batches, watcher, stop | detailed |
| `Settings` | how settings reach a running session and the relay | detailed |
| `SessionView` | how the state of a session gets into `session.json` | detailed |
| `CommandQueue` | the directory of commands for the session | detailed |
| `ConfigStore` | the configuration file, its backup, recovery and migration | detailed |
| `ConfigRules` | what a configuration means: normalisation, settings, presets | pure operators |
| `AudioEngine` | workers, queue, room-tone player and `Close` | detailed |
| `Capture` | sources of events, their channels, start and stop of capture | detailed |
| `Touchpad` | the tap detector | detailed |
| `CaptureHelper` | the Linux helper: clients, devices, the active seat | detailed |
| `Home` | the control screen: menus, forms, first setup, late answers | detailed |
| `MCRoomHub`, `MCRoomFanout` | symmetry sets and sub-specifications for TLC | model checking |
| `MCParts`, `MCPartsFair`, `MCSession` | one run each for several parts that share no state, without and with fairness | model checking |
| `RoomHubProofs`, `RoomFanoutProofs`, `SessionLockProofs`, `SessionProofs`, `HandoffProofs`, `HomeProofs` | theorems about the module of that name | proofs |
| `RelayProofs` | theorems about `TeamGate`, `TeamStore` and `RateLimiter` | proofs |
| `PartsProofs` | theorems about `Touchpad`, `SessionView`, `ConfigStore`, `ConfigRules`, `CommandQueue`, `AudioEngine`, `Capture` and `Settings` | proofs |

`Membership`, `TeamLock` and `Teams` are implemented by `RoomHub`, `TeamGate` and
`TeamStore`. `RoomHub` uses a gate as if it were `TeamLock`'s. `Handoff` is built over what
`SessionLock` (who is active) and `ConfigStore` (load and save are whole) show in detail.

### RoomHub

One value of `Conn` is one connection from upgrade to end. A step is one section of
`RoomHub.mu`, one store call, one acquisition or release of a gate, or one event of
the socket. `handler[c]` is the program counter of the connection's goroutine:
`reading` (in `ReadMessage`), `locking`, `loading`, `touching`, `inserting`,
`unlocking` (the stages of `join`), `leaving`, `forgetting`, `closing` (its deferred
function), `gone`. `deleter` and `target` do the same for `DeleteTeam`, `hbPc`,
`hbStale`, `hbConn` for `heartbeatTick`, `expPc`, `expCodes` for
`expireInactiveTeams`; `told` holds the peers `closeRoom` collected under the lock
and tells after it.

`conns`, `rooms`, `peers`, `roomCode`, `alive` and `teamGates` are the fields of the
same name; a gate is its holder here (module `TeamGate` shows that the real one is
as good as that). `store[t]` is `live`, `idle` (48 hours without a connection, due to
expire), `gone`, or `lost`: gone by a deletion or an expiry whose call then reported an error,
as Postgres and Supabase can when the context ends or the answer does not arrive. Every failing store
call may have been applied. `sock` abstracts frames to what membership depends on: `closing`
means a frame with `closeAfter` is queued. A join can be rejected before the gate
(limiter, malformed code), by the store, by the cap; each early return is an action
of its own and passes through the deferred unlock.

Assumptions in the actions: a frame may be read after the socket was closed (it was
buffered), so a handler with a closed socket can start another join; `GrowIdle` does
not fall inside an expiry pass (its context ends after 30 seconds, and a touched
team needs 48 hours) nor between a join's touch and its insertion; a store call whose
context has ended is applied before it returns or not at all, so that a statement which
reaches the database later is not modelled.

### TeamGate

`Gate` is a pool of gate objects; a new gate is one that no goroutine and no map entry
refers to. `Acquire` is the first section under `gateMu`, `Lock` the mutex, `Unlock`
and `Release` the two halves of the returned function. Which goroutine runs inside a
team's gate is the refinement mapping `Owner` to `TeamLock`.

### RoomFanout

Each operation (join, profile, activity, reaction, leave, eviction, pings, `closeRoom`)
is one section under `RoomHub.mu` that leaves in `todo[g]` the sends its goroutine `g`
makes afterwards, in order; `Enqueue` is one of them, in any order within one
recipient list (map iteration). A batch has the number its sender gave it. `out` is the bounded channel, `Write` and `WriteFails` the
writer. The client keeps of these frames its last roster and, here, the number of the
last batch it got of each peer. `welcome`, `peer_reaction` and pings are one kind of
frame, `notice`. Closing is one step (`done` and the socket together).

### RateLimiter

Time in ticks, bounded by `MaxTime`; every call decides with any clock value at most `Lag`
old, since it reads the clock before it waits for the mutex. `grants` and `answer` are
history. `Reset` has no caller outside the tests and is left out.

### TeamStore

A value of `Id` is a team, `rows` what the store has of it; `store.kind` says which of the
three it is. Creation, lookup, touch and expiry are one statement or one hold of the mutex; a
deletion reads the team, compares the password (`checking`) and writes, and everything else
may fall in between. Codes are random and come again. `schema` and `migration` follow the seven statements
of `init`, any of which may fail and be tried again from the first, while `OldInsert`
stands for a relay of the version before that writes to the same table. `Standing` is
what its users can tell of a team, and the refinement mapping to `Teams`.

### SessionLock

A value of `Proc` is one session process of the device, from its start to its end; one of
`Cmd` is a caller of `status`, `stop` or a launch, again and again. A step is one access to
a file, to the process table or a signal. `pc` follows `activeSession` (`reading`, `cleaning`,
`scanning`), `acquireSessionInstance` (`creating`, `writing`, `classifying`, `recleaning`,
`owning`) and `release` (`unlocking`, `clearing`); for commands `stopActiveSession`
(`signalling`, `removing`), the wait of a launch (`awaiting`) and `startBackgroundForTeam`
(`spawning`, `recording`, `watching`). `lock` is `session.lock` with its creator, whether it is
complete and whether it is younger than the two seconds of grace; `background` is
`background.pid`. Both are removed by name, whatever they hold by then. `Scannable` are
the processes `findSiblingStartProcesses` recognises: those started with the path of the
executable, as background and login starts are; one started by hand is found only by its
lock. A signal makes an owner release some time later (its handler) or kills a process that
has no handler yet. `Crash` is a kill or a power failure at any point.

Assumed: pids are not reused; a live process completes its lock within the two seconds of
grace (`Age`); `processLooksAlive` tells the truth. `session.json` is in `SessionView` and
`Handoff`, the command directory in `CommandQueue`. `stop-on-exit.json` is left out: nothing schedules
a deferred stop.

### Handoff

`file` is the configuration as far as rooms go, `launcher` the team the login launcher names,
`session` the session processes with their own copies of the configuration, `actor` where
each command or screen is between its steps: the relay's answer, `rememberTeam`,
`enableWantedAutostart`, then `startBackgroundForTeam` (`look`, `await`, `again`) or
`startSession` (`open`). `Active` is what `activeSession` answers; `TeamOf` is the team it
reports, which is that of an older `session.json` when the lock is not the process's.
Load and save of the configuration are one step each; the thirteenth saved team, which drops
the oldest, is left out.

### Session

One `sessionController` of `session.go`, from `start` to the end of all its goroutines. `loop`
follows `connectLoop`, one step per dial, per hold of `wsMu`, per close; `readLoop` is the
state `reading` and its ways out. `ws` is `s.ws`; `mu` says who holds `wsMu`, which every
goroutine holds over its write, so that locking and writing are two steps and a write that
blocks blocks whoever needs the mutex. `sock` is the client's end of each connection: `open`,
`broken` (a write has failed, gorilla refuses the next ones) or `closed` on this side; what the
relay does to it shows as failing reads and writes, which may happen at any time. `Conn` are
names, used again when the socket is closed and its watcher gone: two suffice for a new
connection to meet the leftovers of the old one. `watcher` is `closeWebSocketOnContext`, which
with the context done and its channel closed takes either branch. `Sender` stands for
`configLoop`, `commandLoop`, `pingLoop` and the terminal's `cyclePresence`, which differ in the
frame only; `Reload` is the other thing `commandLoop` does. Of `batchLoop` everything is there:
channel, batch, timer, the last flush; events are numbers. `stopper` is `stop`, called by the
user, a signal, or by `runSession` when the context ends.

Left out: payloads. `s.cfg` is in `Settings`, the view in `SessionView`, audio and capture in
`AudioEngine` and `Capture`. A session in a terminal that is told its team is gone stays on
screen until the user leaves it; the fairness of `Stop` is that of a session without one.

### Settings, SessionView, CommandQueue

`Settings`: `file` is `config.json`, which an `editor` (`cliks set`, the control screen) reads and
saves whole; `cfg` is `s.cfg`, `shown` and `audio` its copies in the view and the audio
engine. `poll` follows `configLoop` from the read of the file through each comparison and
copy, `control` the keys of the terminal, `reload` is the command to reconnect, `link` the connection with the
server it goes to and the presence the relay has been told. A nickname travels like
the presence and is left out.

`SessionView`: views are numbered. `set` writes at once or starts the timer (`Throttle`); a flush
stops the timer, reads the view, puts it into the instance, marshals what is there then and renames a file, each a step,
and none under a lock; `stop` flushes a last time and releases. `overlapped` is history: somebody
looked at the view while another was between its look and its rename (`Writing`).

`CommandQueue`: names are times, so that two processes may name commands in one order and
put them into the directory in the other; `listed` is what one pass of
`consumeSessionCommands` has still to read and remove.

### ConfigStore, ConfigRules

`ConfigStore` has the three files `config.json`, its backup and that of earlier versions. A file
is missing, damaged (not JSON, or JSON with a wrong type that fills in some fields first)
or a saved configuration, known by the number of its edit and whether it has a nickname, the one field
a file may leave out. Each read and each rename is a step; a process may end between any two,
and a hand edit may damage the file at any time. The backup is decoded over what was decoded of the
damaged file (`Over`). `saved` is history: the configurations completely saved, to both files.

`ConfigRules` is `normalizeConfig`, what a load makes of the URLs (`Renamed`, `Overridden`),
`applyConfigSetting` and the presets as operators over records of fields; levels are in hundredths,
and the two URLs are one field that names the public relay, the former one or another. Fields
that are only checked against a list of names are left out, and the switches a preset sets to the
same value always. Its state machine finds any file and applies settings to it, one at a time, in
any environment; `cliks set` with several pairs is not modelled.

### AudioEngine, Capture, Touchpad, CaptureHelper

`AudioEngine`: `ambientController.update` has two sections under its mutex and waits for the
former player in between; several goroutines may be in it, and in `Close`. Players are numbered; the one
whose cancel function the controller holds is `slot`. Scheduled sounds, the bounded queue
and the workers are counts: which sound, how loud and from where is left out.

`Capture`: `starter` follows `startCaptureAsync`, `stopper` `stop`, `source` the goroutine that emits:
dispatcher, helper or terminal reader; `events` and `local` are the two bounded channels to
`recordLocalActivity` and `batchLoop`. Inputs are numbered, and `Clicks` says which are clicks. Native
hooks and the helper make one event of each; one read of the terminal takes any number of those that
have piled up and makes of them its clicks, in order, and then one keyboard event, number 0. The
helper drops a client whose socket stays full, for good (`HelperDrops`). The terminal is raw or not;
capture and Bubble Tea (`ui`, in an interactive session only, external) each put it in raw mode and
restore what they found, in either order, and Bubble Tea takes inputs from the reader of the
fallback. The process may end (`Exit`) as soon as `stop` has returned, whatever its goroutines
are at; `stopper` is `missed` when `stop` found no capture published. Left out: mouse reporting, and the
events Bubble Tea records itself of what it reads.

`Touchpad`: the environment is a hand, `detector` the fields of `touchpadTapDetector`; drivers
report the tool before or after the touch, and positions before it, after it or, when they have not
changed, not at all. The positions of all fingers go into one, so those of another finger may be near
to where the touch began or far from it; `placed` says that the touch is of one finger whose position
was known when it began. Times are short or long. The detector does not look at the tool of five fingers
(`MaxFingers` is five).

`CaptureHelper`: `client` is how far the accept loop is with a connection and whether the
connection and the pidfd are open, `process` what is left on the other side, `device` a
device with the reader and the descriptor the helper has for it, `seat` the answer of logind
and the cached one.

### Home

`screen` is `homeModel`: its mode, the mode forms return to, the question of the first setup,
`busy`, its copy of the configuration. `command` holds the commands under way with the
configuration they will answer with. Only `activate` and `updateForm` look at `busy`. Three of the
eight questions are kept (a form, a command, a plain one). Other processes do not change
the configuration here; they do in `ConfigStore`, `Settings` and `Handoff`. `answered` is not
cleared by a factory reset, and `SetupIsComplete` would be false if it were: a command left from
before the reset (a second refresh of the doctor's report) can unlock the screen while the
permission's command runs; the user answers that question himself, and the late answer then
skips the next one.

## 3. Runs

| Run | Instance | Shows |
|---|---|---|
| `RoomHub` | 3 connections, 2 seats, 2 teams, joins, migrations and deletions | `MembershipAgrees`, `DeletedTeamHasNoRoom`, `JoinsOnlyLiveTeams`, `ImplementsMembership` (with the cap) |
| `RoomHubFair` | 1 connection, 2 deletions at a time, heartbeat, expiry, fair | `ExpiryFindsNoPeers`, `LeaveIsComplete`, `ClosedHandlerEnds`, `DeleteReturns`, `SilentConnIsEvicted` |
| `RoomHubGhost` | heartbeat and joins | `NoGhostPeer` fails (finding) |
| `RoomFanout` | 2 clients, 1 room, queues of 1: every goroutine, or the clients with 2 batches each | `OnlySlowPeersAreClosed`, `DeletedPeersAreClosed`, `ActivityInOrder` |
| `RoomFanoutStale` | 2 clients | `PresenceSettles` fails (finding) |
| `SessionLock` | 3 processes, 2 of them visible to a scan, 1 command, 2 attempts, fair | `ScannableExclude`, `FreshStartsExclude`, `NobodyLockedOut` |
| `SessionLockRace` | 3 processes started by hand | `AtMostOneOwner` fails (finding) |
| `Session` | `Session`: 2 connections, 1 sender, 2 events, channel of 1; or `AudioEngine`: 2 goroutines that change the tone, 3 players, 1 worker, 2 sounds; fair | `JoinIsFirst`, `OneConnection`, `BatchesInOrder`, `StoppedSessionEnds`; `AmbientSettles`, `CloseIsQuiet` |
| `SessionHalfOpen` | `Session` with 1 event; blocked writes stay blocked | `HalfOpenIsDropped` fails (finding) |
| `Parts` | nine parts, one at a time (below) | the properties of each part |
| `PartsFair` | four parts, one at a time, fair (below) | the properties of each part |
| `TeamsLost` | `Handoff` with 2 teams, 1 session, 1 command | `TeamsAreKept` fails (finding) |

The parts of `Parts` and `PartsFair`, and the two of `Session`, share no variable: `part` is chosen in the initial
state, the steps are those of that part, and the others stay as they start (beside the sounds: a session that is over,
of which fairness asks nothing). A property of a part is
checked of its behaviours, and of one constant state of the others.

| Part of `Parts` | Instance | Shows |
|---|---|---|
| `RateLimiter` | 1 address, budget 2, window 4 ticks, clock up to 9 | `TwoBudgetsAtMost`: at most twice the budget in any window's length less the lag; `RefusedOnlyOverBudget` |
| `TeamStore` | 3 teams, 2 codes, 2 deletions at a time, each kind of store | `StoreImplementsTeams`, `OnlyItsTeamEnds`, `ReadyIsMigrated` |
| `ConfigStore` | 2 processes, 3 edits | `DamageIsRecovered`: after a completed save a damaged file yields a configuration that was completely saved, but for the damaged file's nickname |
| `ConfigRules` | any file, and settings, with levels of -1, 0 and 500: too low, unset or silent, too high | `SetIsKept`: a setting or preset is saved with the value it means, with every other setting of the file, and is what the next load gives; exceptions below |
| `SessionView` | 2 goroutines besides the timer and `stop`, 2 changes | `PersistedUnlessOverlapping`: `session.json` ends up with the newest view as long as no two goroutines write it at the same time |
| `CommandQueue` | 2 processes, 4 commands | `CommandsInOrder`: none twice, each process's in order |
| `Touchpad` | up to 5 fingers | `TapsAreTrue`: a touch clicks nothing or what its fingers are worth; one finger whose position was known clicks if and only if it has not moved |
| `Home` | 2 commands under way | `SetupIsComplete`, `LockedForACommand` |
| `Handoff` | 1 team and Solo Desk, 3 processes, 1 command | `TransitionsWait`: nothing opens before what was stopped is gone |

| Part of `PartsFair` | Instance | Shows |
|---|---|---|
| `TeamGate` | 3 goroutines, 2 teams, 3 gate objects | `ImplementsTeamLock`, `WaiterGetsIn` |
| `Settings` | 2 settings, 2 presences, 2 servers, 2 changes from outside | `SessionFollows`: a session ends up playing by, and telling, what is saved |
| `CaptureHelper` | 2 clients, 1 device, 4 events from outside | `HelperSettles` |
| `Capture` | 3 inputs, the second a click, channels of 1, each source, with Bubble Tea and without | `BurstsArrive`, `CaptureEnds` |

What `SetIsKept` leaves open it says in `Keeps`, and it is wide: minutes out of range are accepted
without a word and saved in range (main.go:702, config.go); the URLs of the environment are saved
with whatever setting is changed, and with the public relay goes its batch window of 500 ms; and
what a setting or the file would switch off entirely (sharing, hearing) is switched on again.

`TransitionsWait` is about launches and Solo Desk, which wait. Two ways to switch start the new session without
waiting for the one they have stopped: that of an attached screen (session.go:216) and that of the
control screen (tui.go:279). `SessionFollows` is about sessions whose own controls are left alone: a
control saves the whole of `s.cfg` (see the finding `TeamsLost`). `OnlyItsTeamEnds` is about the
databases: the memory store writes back the record it has read, over a team that was given
the same code meanwhile.

`BurstsArrive` counts what is read, and makes three exceptions: keys that pile up in the terminal are one
event, after the clicks; what Bubble Tea reads; and what comes after the helper gave up. `CaptureEnds` holds
while the process lives; at its end the terminal is as capture found it if `stop` found the capture. When `stop` comes
between `MakeRaw` and the publication of the capture (session.go:338) and the process ends, nobody
restores the terminal.

Why the bounds are enough: the membership properties relate at most two connections
and two teams at a time (a migration, a deletion racing a join); the cap needs one
connection more than seats. The run with every process has one connection, which meets
the heartbeat, the expiry pass and two deletions; that more connections change nothing
for the safety properties is what the proofs add. A connection joins, migrates and rejoins any
number of times, deletions and expiries repeat: only identities are bounded. Two
fan-outs overlap with two clients, and each list of recipients has two members; batches
are bounded (`MaxBatches`), and are checked without the heartbeat and the closer, which send none.
The limiter's clock covers two windows and a tick, so that every window boundary and pruning
falls at every offset; the refused attempts of an address are counted up to one over its budget
(`CountBound`).

Exclusion on the device needs two owners and a third that leaves a stale lock or cleans up;
two attempts reach every branch of the loop (a retry and the last look). In `Session` the
connection, its predecessor's watcher, one sender, the batch loop and stop are the parties
that meet; two events make an event arrive while the other is being sent, and order matter.
Reconnects, rate limits and reloads are unbounded.

In the parts, two processes or goroutines race and a third object is what they leave behind: a
third team that takes a code again, a third player nobody stops, a third session
process. Two changes of a setting make one fall inside the poll of the other; three
inputs are more than the channels of one event, the recorder's hand and the source take at each place, and are
enough for a read of key, click and key. Processes in `Handoff` live
once, so `MaxPids` bounds its behaviours; three let a second start while the first ends and a
third takes its place. `Settings`, `SessionView`, `ConfigStore`, `CommandQueue`, `AudioEngine` and
`CaptureHelper` bound the changes from outside (`MaxChanges`, `MaxViews`, `MaxEdits`, `MaxNames`,
`MaxPlayers`, `MaxSounds`, `MaxOutside`).

Deadlock is checked in `RoomHub`, where the relay never stops. It is not in `RoomFanout` (clients
may all be gone), in `SessionLock` and `Session` (every process or goroutine may have
ended), nor in `Capture` and the parts, whose bounds end their behaviours.

### Fairness

Handlers, deletions and the heartbeat go on once started (`WF`): they are goroutines, and
store calls carry contexts or timeouts. A goroutine that waits for a gate gets it if it
becomes free again and again (`SF`): Go's `sync.Mutex` hands over to a starved waiter. A
queued closing frame is written or its 5-second deadline fails (`WF`), and a handler reads
the error of a closed socket once the frames buffered before the close are used up
(`SF`). No client has to do anything: neither to read, nor to answer a ping, nor to
leave. In `SessionLock` a session process that has started goes on until it owns the device or
gives up (`WF` of `Acquires`): it is one sequential function. Nobody has to start, stop or
ask. In `Session` goroutines go on (`WF`), dials end (a handshake timeout), `wsMu` is got by who
waits for it and a branch of a `select` that is ready again and again is taken (`SF`: Go picks
at random). `WritesEnd`, for the run `Session`, also lets every write end: the system gives up a connection whose peer
answers nothing, after minutes. `HalfOpenSpec` does without that: there a write on an open
socket may stay, one on a closed or broken socket fails. `RoomFanout` and the parts of `Parts`
assume none; their properties are safety.

`SettingsFair`: the poll and the reload are goroutines with tickers, a control that was used
finishes, dials end; nobody has to save or press anything, and a connection need not be
lost. `AudioFair`: updates, players and workers go on, and a player whose context is cancelled ends,
since its command is killed. `CaptureFair`: the start, the source and the goroutine that stops the capture go
on while the process lives, which may end right after `stop`; no key has to be pressed. The recorder and `batchLoop` get none: the capture must end although nobody takes its
events. `HelperFair`: the goroutines of each client, the scan of
devices and their readers go on; no process has to connect or end.

### Findings

* **Ghost peers** (`RoomHubGhost`, hub.go:302). A join that waits for the gate or the store
  while the heartbeat evicts its connection inserts the peer afterwards, without a look at
  `conns`. The deferred `leave` and every later one look the connection up in `conns`, find
  nothing and do nothing: the peer stays in the room, in its roster and in its count of
  seats. `protocol.md:174` promises that stale presence is bounded to about 20 seconds.
* **Rosters can settle on an old one** (`RoomFanoutStale`, hub.go:305-315). Rosters are taken
  under the lock and sent after it; of two overlapping changes the older can be queued last,
  and the client, which replaces its roster with every presence frame, keeps it until the
  next change.

* **Two owners** (`SessionLockRace`, instance.go:294). A stale `session.lock` is recognised in
  one step and removed by name in another. Of two starts that both find it stale, the slower
  one removes the lock the faster has just made, and both run. `README.md:356` promises that
  one lock prevents two copies from connecting. Background and login starts are saved by the
  scan for siblings (`ScannableExclude`, proved); so is everybody on a device where nothing
  has crashed, ended or been stopped (`FreshStartsExclude`, proved).
* **Half-open connections stay** (`SessionHalfOpen`, session.go:791). Writes of batches, profiles
  and reactions have no deadline and are made under `wsMu`. When one blocks because the other
  side is gone, the read deadline of 75 seconds ends `readLoop`, but `connectLoop` closes `closed`
  first, which ends the watcher, and then waits for `wsMu` before it closes the connection. Nobody
  is left to close it: no reconnect, and `stop` waits too, until the operating system gives the
  write up. `README.md:217` promises that read deadlines clean half-open connections up promptly.
* **Saved teams can be lost** (`TeamsLost`, session.go:472). The controls of a live session (volume,
  density, mute, its preferences) save `s.cfg`, the configuration the session started with, of which
  `configLoop` refreshes only nickname, presence, notifications and listening. A team that another
  process has saved since (`cliks join --no-start`, the control screen) is gone from `config.json`
  and its backup with the next volume key. `README.md:217` promises that only an authoritative
  answer of the relay removes a team.

### Divergences without a run of their own

Each of these is stated in its module by a definition whose comment says that it is not a property; no
run checks it. TLC finds each violated when it is given as the property of a configuration with the
constants named here.

* **A room without a team** (`DroppedTeamHasNoRoom`, hub.go:435). `DeleteTeam` returns before `closeRoom`
  when the store reports an error, also when the update was applied (`DeleteLost`: Postgres with the request's
  context, store.go:232; Supabase over HTTP, store.go:487). The team is gone, its room stays; another deletion
  finds no team, and every expiry pass ends at the touch of that room's code (main.go:115), so that nothing
  expires until the room is empty. `protocol.md:178` promises that a deletion closes the live room.
  `DeletedTeamHasNoRoom` is therefore about deletions the store reports. (`MCRoomHub`, `JoinDeleteSpec`, one
  connection, team and deletion.)
* **An older state is the last in session.json** (`FinalStateIsPersisted`, instance.go:225). `update`,
  the marshalling of the instance and the rename are under no lock: of two flushes that overlap the one that
  looked first can be the last to write. The comment at session.go:432 says: "always persist the final state
  after a burst of updates". `PersistedUnlessOverlapping` is what holds. (`SessionView`, two goroutines, two views.)
* **A recovered configuration is a mixture** (`RecoveredWasSaved`, config.go:231). The backup is decoded over what
  could be decoded of the damaged file; the nickname, which a file may leave out, stays that of the damaged one.
  The warning says that settings were recovered "from the last-known-good backup". `DamageIsRecovered` makes
  the exception. (`ConfigStore`, two processes, three edits.)
* **A tap of two fingers is lost** (`TwoFingersClickRight`, capture.go:400). The positions of all fingers go into
  one: a second finger that lands more than 90 units away is a move of the first. `architecture.md:164` says that
  a "short stationary two-finger tap maps to right click". `TapsAreTrue` says what holds. (`Touchpad`, five
  fingers.)
* **The terminal can stay raw** (`TerminalIsRestored`, session.go:328). The fallback to terminal capture runs beside
  Bubble Tea on the same terminal: what it saves to restore may be Bubble Tea's raw mode, and `stop` restores that
  after Bubble Tea has restored the shell's. `architecture.md:110` speaks of the original state.
  (`Capture`, `CaptureSpec`, constants of `PartsFair`.)

Read in the code, and not modelled: the batch window is that of the configuration a
session started with, so that a reload from a server of one's own to the public relay keeps a
window other than 500 ms (`batchLoop`, session.go:523, against `docs/setup.md:134`).
`stopDeletedTeamSession` (main.go:767) compares the team of one look at the active session and
stops what a second look finds.

## 4. Proofs

All statements are for any values of the constants (connections, teams, deletions,
goroutines, gates, processes, fingers, lengths of queues, `MaxPeers`, windows and budgets);
they rest only on the named assumptions of the modules (`MaxPeersAssumption`,
`NamesAssumption`, `GateAssumption`, `StoreAssumption`, `SessionAssumption`,
`FanoutAssumption`, `LimiterAssumption`, `CommandAssumption`, `AudioAssumption`,
`CaptureAssumption`, `SettingsAssumption`, `LevelAssumption`). These say that a capacity or a bound is a natural number, a level an integer, a capacity that
has to hold something is not zero, there is some setting, and the names for "none" are no names of anything. Two say more: a
call of the limiter waits for its mutex less than a window (`Lag < Window`), and the clock starts
late enough to be read with that lag.

Every invariant and every action property of a passing run, and every refinement, is stated by
a theorem.

`RoomHubProofs`. The safety properties of `RoomHub` follow from one inductive invariant. Its
parts: types; a connection is in a room's `peers` exactly when its `roomCode` names that
room, and `rooms` are the occupied ones (so the three tables of the hub never disagree);
the holder of each gate is exactly the join or deletion whose program counter is inside;
a team whose join is about to insert is `live`; a `gone` team has no room unless its
deletion is about to close it (of one that is `lost` nothing is said, and nothing holds: see section 3); during an expiry pass the teams still to be touched cover
the idle ones with a room, and what is expired has no room. The gate part makes the others
inductive: a deletion can only make a team `gone` while no join is past its touch. From it
follow `TypeCorrect`, `ConnectionInOneRoom`, `NoEmptyRooms`, `RoomsAreCapped`, `DeletionIsFinal`,
`ExpirySparesPeers`, `JoinsAreLive` (an action property), and `HubImplementsMembership`, the
refinement with `room <- roomCode`. `LeavesAreComplete` needs two more facts, both about one step:
only a connection's own join gives it a room, and its handler gets to `forgetting`, still registered, by its
own leave alone, which has just taken it out of its room.

`RoomFanoutProofs`. Every step is of one of five kinds (`StepKinds`): a handler collects its
sends, none of them a batch; a connection closes for a reason of its own; a batch is fanned out; a
frame is queued; a frame is written. `SlowPeersOnly` needs the types and the kinds. For
`DeletedPeersClose` the invariant adds that `closeRoom`'s goroutine sends nothing but closing
frames, so that what it queues for a peer takes the place of what it had still to send. `ActivityKeepsOrder` needs to
know where the batches are (`OrderInv`): a batch still to be sent is its sender's only send and
its newest, and no recipient left has heard or queued anything as new (`Pending`); what is queued
of a peer rises, and is newer than what was heard of it (`Queued`). A batch is fanned out before
its sender reads its next frame: without that (mutant `ActivityAside`) it is false.

`RelayProofs`, gates. The inductive invariant says that a goroutine under way uses the gate the map
has for its team, that no gate serves two teams, that `refs` counts exactly the users of a
gate, and that a locked mutex belongs to the one goroutine inside. It yields `GateExcludes`,
`GatesDoNotLeak`, and `GatesImplementTeamLock`.

`RelayProofs`, stores. The invariant adds to the types that a deletion which has compared a password
has read a team that was there (`Checked`), and what the schema has at each point of `init`
(`Progress`): an older relay's insert undoes the filling of the column only while it has no
default. That is enough for `StoresImplementTeams`: each statement of each store is one step
of `Teams` or none. `TeamsEndByThemselves` and `ReadyMeansMigrated` follow too.

`RelayProofs`, limiter. For `BudgetsAreKept` and `RefusalsAreDue` an entry is related to what its
address was granted (`HitOK`): since the earliest tick at which its window can have been opened, no more
than the entry counts, since the latest, no less; and back to the tick before which no
window can still be open, at most one budget more. Pruning drops an entry only when this follows without it.
With the lag, "a window" is `Window - Lag` ticks for the first and `Window + Lag` for the
second: a call that has waited opens its window in the past.

`SessionLockProofs`. Two arguments. `ScannableSessionsExclude`: a process is visible to scans
from its start, and goes past its own scan only if it saw no other; so of the visible ones
at most one is past it (`OnePast`), whatever happens to the files. `FreshSessionsExclude`:
while nothing has crashed, ended or been stopped, nobody cleans up and the lock is the
file of the one process that writes or owns (`FreshLock`); it needs that an incomplete
lock of a live process is young. `SessionTypes` carries along that a process that tries has
attempts left.

`SessionProofs`. `wsMu` is held exactly by who writes; `s.ws` is the connection of the loop, between
publishing and unsetting; an open connection in `s.ws` has had its join unless the loop holds the
mutex to write it; and whatever is not closed is the connection of the loop. From these follow
`JoinGoesFirst` and `OneConnectionAtATime`. After a failed join the connection stays published
for a moment, and it matters that it takes no frame any more (`Failed`). The flags are
Boolean by an argument of their own, since nothing depends on them. `EventsKeepOrder`: what was
sent comes before what is being collected, and that before what waits in the channel (`Ordered`); the
timer runs exactly while something is collected and not being sent (`Timed`).

`HandoffProofs`. The lives of processes go one way (`OneWay`), so a process somebody waits for
is never new again, and one that is dead stays dead; `Waits` says that of every waiting
command, and `LaunchesWait` is its last part. `Joins` keeps apart who already has a process to wait for
or a team to join.

`HomeProofs`. `LockIsACommands`: whoever sets `busy` starts a command in the same step, and whoever
takes an answer clears it. `SetupAsksEverything` is not inductive by itself: the permission's
answer advances the setup wherever it is by then. Until all questions have been answered
(`Unfinished`) the screen is the launch, the setup or its one form; no other command can be
started from there; the permission's locks the screen; and the only way to move is back, to a
question that has been answered. Every copy of the configuration is at a question before which
all have been (`Behind`).

`PartsProofs`. `TapsAreWhatTheyWere`: the detector agrees with the history of the touch, counts fingers
right up to two and remembers three or four (`Counts`), whether the tool or the touch is reported
first; and what it takes for travel is the finger's as long as there is one whose position was known
(`SameSeen`). `NewestIsPersisted`: as long as nobody looked while another wrote, one goroutine writes at a time
(`OneWrites`), what it holds is no older than the instance (`WritesForward`), the file has what the instance has
when nobody writes (`FileFollows`), and a view the instance lacks is on its way (`OnItsWay`): a timer runs,
some goroutine has not looked yet, or one holds this very view. `DamageGetsTheBackup`: from the first completed
save on the backup is one of the configurations completely saved (`Backed`), so that what a process
recovers is one of them but for the name it had decoded before. `NormalizesOnce` and `SettingsAreKept`: what
`normalizeConfig` gives is in range, heard and shared (`IsNormal`), and it leaves alone what is; a load gives such a
configuration with the environment's server in it, and a setting takes it to one that is normal but for the
minutes, hearing and sharing, which the save makes normal as `Keeps` says. `CommandsKeepOrder`: what a process is about to put into the
directory is later than all it has put there, listed or handled; the list is in order, and what came
into the directory since is later; what is in the directory is later than what was handled of
that process (`HandledIsPast`). `LastToneSettles`: if the tone is on and the controller has no player, a
change to this very tone is under way (`ToneIsMeant`). `BurstsAreKept`: `BurstsArrive` is inductive with the
fact that a goroutine holds events only while it hands them over (`HandsFree`), which needs that no read of the
terminal makes nothing (`ReadTerminalInv`). `RelayKnowsProfile`:
a presence the poll has taken over and the relay lacks is the one the poll holds to send
(`ProfileInv`); while there is no connection nothing is sent, and the next join says what the session has.
It is stated of a session whose own controls are left alone: a control saves before it tells.

`NoEmptyRooms`, `RoomsAreCapped`, `GateExcludes`, `GatesDoNotLeak`, `ProfileIsTold` and the type invariants
are proved and in no run; `ImplementsMembership` and `ImplementsTeamLock` say of their instances that rooms
are capped and gates exclude.

Only model-checked: the liveness properties (`ClosedHandlerEnds`, `DeleteReturns`,
`SilentConnIsEvicted`, `NobodyLockedOut`, `StoppedSessionEnds`, `WaiterGetsIn`, `SessionFollows`,
`CloseIsQuiet`, `CaptureEnds`, `HelperSettles`), since fairness and `ENABLED` are outside the prover; with
them `CaptureHelper`, whose one property is of this kind. What the
findings show to be false is not proved either.

## 5. What is left

Proofs: that the invariants are the strongest worth having (types of the modules whose types no
theorem states, `CloseIsQuiet` without fairness: what has ended stays ended); facts about the stages of
`Settings` and `CaptureHelper` that liveness rests on. Models: the effects of presence, reactions and
notifications in the client (`readLoop`), whose state is only followed as far as rosters and the
order of batches; playback (merging, offsets, placement) as operators with reference definitions;
`Handoff` over `SessionLock` as one specification instead of two.

## 6. Not modelled

Byte formats, wording, rendering, mouse and sliders, the simulated coworkers of Solo Desk,
logging and health counters; the website, installers and deployment files; doctor,
notifications and clipboard; operating-system hooks for capture, notification and playback. Of the
relay, request parsing and panics with their recovery (a recovered panic ends a handler
like a read error). `Reset` of the limiter, which only tests call, and the deferred stop (`stop-on-exit.json`), which
nothing schedules.
