------------------------------- MODULE Capture -------------------------------
(***************************************************************************)
(* Capture in a session (cli/capture.go, capture_native_dispatch.go,        *)
(* session.go): keys and clicks come from native hooks through a dispatcher, *)
(* from the Linux helper, or from the terminal put in raw mode; one          *)
(* goroutine emits them into a bounded channel, the session's recorder moves *)
(* them to another one, batchLoop takes them.  stop may come while capture   *)
(* is still starting, Ctrl-C in the terminal ends the capture alone, and the *)
(* process may end as soon as stop has returned.                             *)
(* In an interactive session Bubble Tea has the same terminal in raw mode    *)
(* and reads from it; what it records itself of the keys it takes (tui.go)   *)
(* fills the second channel like anything else, and is not followed.         *)
(***************************************************************************)
EXTENDS Naturals, Sequences, FiniteSets

CONSTANTS
    EventCap,   \* 1024: of each channel
    MaxInputs,  \* bound
    Clicks      \* the inputs that are clicks; the others are keys

ASSUME CaptureAssumption == EventCap \in Nat \ {0} /\ MaxInputs \in Nat /\ Clicks \subseteq Nat

VARIABLES
    mode,       \* where keys and clicks come from; "dropped": from a helper that gave up on us
    cancelled,  \* the context of the capture; it also ends with the session's
    sessionDone,
    starter, stopper, waiter,   \* startCaptureAsync, stop, the goroutine that stops the capture
    ui,         \* Bubble Tea, in an interactive session
    exited,     \* the process has
    terminal,   \* in raw mode; and as capture (once saved) and Bubble Tea found it
    source,     \* the goroutine that emits, and its events
    inputs,     \* the dispatcher's queue, or what the source has yet to read
    pushed,     \* keys and clicks so far
    read,       \* history: the events of what was read
    events,     \* ActivityCapture.Events
    recorder, local,    \* recordLocalActivity; s.local
    batcher, batched    \* batchLoop; what it has taken

captureVars == <<mode, cancelled, sessionDone, starter, stopper, waiter, ui, exited, terminal, source,
                 inputs, pushed, read, events, recorder, local, batcher, batched>>

Input == 1 .. MaxInputs

\* An event is that of one input; 0 is the keyboard event of a read of the terminal.
Event == 0 .. MaxInputs

CaptureTypeOK ==
    /\ mode \in {"native", "helper", "dropped", "terminal"}
    /\ cancelled \in BOOLEAN /\ sessionDone \in BOOLEAN /\ exited \in BOOLEAN
    /\ starter \in {"idle", "start", "raw", "saved", "started", "published"}
    /\ stopper \in {"idle", "cancelled", "stopped", "missed"} /\ waiter \in {"none", "waiting", "ended"}
    /\ ui \in {"none", "starting", "running", "quit"}
    /\ terminal \in [raw : BOOLEAN, saved : BOOLEAN, before : BOOLEAN, beforeUi : BOOLEAN]
    /\ source \in [at : {"none", "read", "emit", "restore", "ended"}, holds : Seq(Event)]
    /\ recorder \in [at : {"none", "select", "record", "ended"}, holds : Seq(Event)]
    /\ inputs \in Seq(Input) /\ \A q \in {read, events, local, batched} : q \in Seq(Event)
    /\ pushed \in 0 .. MaxInputs /\ batcher \in {"select", "ended"}

CaptureInit ==
    /\ mode = "native" /\ cancelled = FALSE /\ sessionDone = FALSE
    /\ starter = "idle" /\ stopper = "idle" /\ waiter = "none" /\ ui = "none" /\ exited = FALSE
    /\ terminal = [raw |-> FALSE, saved |-> FALSE, before |-> FALSE, beforeUi |-> FALSE]
    /\ source = [at |-> "none", holds |-> <<>>] /\ recorder = [at |-> "none", holds |-> <<>>]
    /\ inputs = <<>> /\ pushed = 0 /\ read = <<>> /\ events = <<>> /\ local = <<>>
    /\ batcher = "select" /\ batched = <<>>

CtxDone == cancelled \/ sessionDone

flow    == <<inputs, pushed, read, events, local, batched, batcher>>
Control == <<mode, cancelled, sessionDone, starter, stopper, waiter, ui, terminal>>

\* restoreTerminal: once, and only when the state to go back to is known.
Restored == IF terminal.saved THEN [terminal EXCEPT !.raw = terminal.before, !.saved = FALSE] ELSE terminal

-----------------------------------------------------------------------------
(* startCaptureAsync. *)

Starting == <<cancelled, sessionDone, stopper, waiter, recorder, flow>>

\* Which source it will be, the program finds out; an interactive session that is to
\* capture in its terminal leaves that to Bubble Tea, and nothing of this starts.
Begin ==
    /\ starter = "idle" /\ starter' = "start"
    /\ ui' \in {"none", "starting"} /\ mode' \in {"native", "helper", "terminal"}
    /\ mode' = "terminal" => ui' = "none"
    /\ UNCHANGED <<Starting, terminal, source>>

Start ==
    /\ starter = "start" /\ mode # "terminal" /\ starter' = "started"
    /\ source' = [source EXCEPT !.at = "read"]
    /\ UNCHANGED <<Starting, mode, ui, terminal>>

\* No helper, no hooks: an interactive session captures in its terminal.
FallBack ==
    /\ starter = "start" /\ mode # "terminal" /\ ui # "none" /\ mode' = "terminal"
    /\ UNCHANGED <<Starting, starter, ui, terminal, source>>

\* And if there is no terminal either, the session goes on without.
StartFails ==
    /\ starter = "start" /\ starter' = "started"
    /\ source' = [source EXCEPT !.at = "ended"]
    /\ UNCHANGED <<Starting, mode, ui, terminal>>

\* startTerminal: raw mode, then the state to restore, then the reader.
MakeRaw ==
    /\ starter = "start" /\ mode = "terminal" /\ starter' = "raw"
    /\ terminal' = [terminal EXCEPT !.raw = TRUE, !.before = terminal.raw]
    /\ UNCHANGED <<Starting, mode, ui, source>>

SaveState ==
    /\ starter = "raw" /\ starter' = "saved"
    /\ terminal' = [terminal EXCEPT !.saved = TRUE]
    /\ UNCHANGED <<Starting, mode, ui, source>>

StartReader ==
    /\ starter = "saved" /\ starter' = "started"
    /\ source' = [source EXCEPT !.at = "read"]
    /\ UNCHANGED <<Starting, mode, ui, terminal>>

\* There is no reader: the terminal is restored, and nothing is captured.
ReaderFails ==
    /\ starter = "saved" /\ starter' = "started" /\ terminal' = Restored
    /\ source' = [source EXCEPT !.at = "ended"]
    /\ UNCHANGED <<Starting, mode, ui>>

\* s.capture, the recorder, and the goroutine that waits for the session to end.
Publish ==
    /\ starter = "started" /\ starter' = "published"
    /\ recorder' = [recorder EXCEPT !.at = "select"] /\ waiter' = "waiting"
    /\ UNCHANGED <<mode, cancelled, sessionDone, stopper, ui, terminal, source, flow>>

-----------------------------------------------------------------------------
(* Bubble Tea, and stop, whenever it comes. *)

Beside == <<mode, starter, source, recorder>>

\* program.Run: raw mode too, while capture starts.
UiStarts ==
    /\ ui = "starting" /\ ui' = "running"
    /\ terminal' = [terminal EXCEPT !.raw = TRUE, !.beforeUi = terminal.raw]
    /\ UNCHANGED <<Beside, flow, cancelled, sessionDone, stopper, waiter>>

\* Its reader and that of the fallback have one terminal.
UiTakes ==
    /\ ui = "running" /\ mode = "terminal" /\ inputs # <<>> /\ inputs' = Tail(inputs)
    /\ UNCHANGED <<Control, source, recorder, pushed, read, events, local, batched, batcher>>

UiQuits ==
    /\ ui = "running" /\ ui' = "quit"
    /\ terminal' = [terminal EXCEPT !.raw = terminal.beforeUi]
    /\ UNCHANGED <<Beside, flow, cancelled, sessionDone, stopper, waiter>>

StopSession ==
    /\ starter # "idle" /\ ui \in {"none", "quit"}
    /\ stopper = "idle" /\ stopper' = "cancelled" /\ sessionDone' = TRUE
    /\ UNCHANGED <<Beside, flow, cancelled, waiter, ui, terminal>>

\* The capture is stopped too, if it is published yet.
StopCapture ==
    /\ stopper = "cancelled"
    /\ IF starter = "published" THEN stopper' = "stopped" /\ cancelled' = TRUE /\ terminal' = Restored
                                ELSE stopper' = "missed" /\ UNCHANGED <<cancelled, terminal>>
    /\ UNCHANGED <<Beside, flow, sessionDone, waiter, ui>>

WaiterStops ==
    /\ waiter = "waiting" /\ sessionDone /\ waiter' = "ended"
    /\ cancelled' = TRUE /\ terminal' = Restored
    /\ UNCHANGED <<Beside, flow, sessionDone, stopper, ui>>

\* runSession returns: the process ends, or goes on to another session.
Exit ==
    /\ stopper \in {"stopped", "missed"} /\ exited' = TRUE
    /\ UNCHANGED <<Control, source, recorder, flow>>

-----------------------------------------------------------------------------
(* The source. *)

Behind == <<recorder, local, batcher, batched>>

Press ==
    /\ pushed < MaxInputs /\ source.at \in {"read", "emit"} /\ mode # "dropped"
    /\ pushed' = pushed + 1 /\ inputs' = Append(inputs, pushed')
    /\ UNCHANGED <<Control, Behind, source, read, events>>

\* The helper's reader looks at the context before it emits, the dispatcher does not.
Read ==
    /\ mode # "terminal" /\ source.at = "read" /\ inputs # <<>> /\ (mode # "native" => ~CtxDone)
    /\ source' = [at |-> "emit", holds |-> <<Head(inputs)>>] /\ inputs' = Tail(inputs)
    /\ read' = Append(read, Head(inputs))
    /\ UNCHANGED <<Control, Behind, pushed, events>>

\* In the order they came.
InOrder(S) == {s \in [1 .. Cardinality(S) -> S] : \A i, j \in DOMAIN s : i < j => s[i] < s[j]}

\* A read of the terminal takes n of what has piled up: its clicks, then one keyboard
\* event for all the keys.
ReadTerminal(n) ==
    /\ mode = "terminal" /\ source.at = "read" /\ n \in 1 .. Len(inputs) /\ ~CtxDone
    /\ LET taken == {inputs[i] : i \in 1 .. n}
       IN  \E clicks \in InOrder(taken \cap Clicks) :
              source' = [at |-> "emit", holds |-> IF taken \subseteq Clicks THEN clicks ELSE clicks \o <<0>>]
    /\ inputs' = SubSeq(inputs, n + 1, Len(inputs))
    /\ read' = read \o source'.holds
    /\ UNCHANGED <<Control, Behind, pushed, events>>

\* The first of its events is out of its hands.
Emitted ==
    LET rest == Tail(source.holds)
    IN  source' = [at |-> IF rest = <<>> THEN "read" ELSE "emit", holds |-> rest]

\* Mutant: what finds the channel full is dropped.
EmitOrDrop ==
    /\ source.at = "emit" /\ Emitted
    /\ events' = IF Len(events) < EventCap THEN Append(events, Head(source.holds)) ELSE events
    /\ UNCHANGED <<Control, Behind, inputs, pushed, read>>

Emit ==
    /\ source.at = "emit" /\ Len(events) < EventCap /\ Emitted
    /\ events' = Append(events, Head(source.holds))
    /\ UNCHANGED <<Control, Behind, inputs, pushed, read>>

EmitCancelled ==
    /\ source.at = "emit" /\ CtxDone /\ Emitted
    /\ UNCHANGED <<Control, Behind, inputs, pushed, read, events>>

\* The hooks are removed and the dispatcher stopped, what is left in it with it.
DispatcherEnds ==
    /\ mode = "native" /\ CtxDone /\ source.at = "read"
    /\ source' = [source EXCEPT !.at = "ended"] /\ inputs' = <<>>
    /\ UNCHANGED <<Control, Behind, pushed, read, events>>

\* The helper's send found no room for 100 ms: it closes the connection.
HelperDrops ==
    /\ mode = "helper" /\ inputs # <<>> /\ mode' = "dropped"
    /\ UNCHANGED <<cancelled, sessionDone, starter, stopper, waiter, ui, terminal, Behind, source,
                   inputs, pushed, read, events>>

\* Its reader sees the end at the next token only, or that of the connection.
HelperEnds ==
    /\ mode \in {"helper", "dropped"} /\ source.at = "read"
    /\ IF inputs # <<>> THEN CtxDone ELSE mode = "dropped"
    /\ source' = [source EXCEPT !.at = "ended"]
    /\ UNCHANGED <<Control, Behind, inputs, pushed, read, events>>

ReaderEnds ==
    /\ mode = "terminal" /\ CtxDone /\ source.at = "read"
    /\ source' = [source EXCEPT !.at = "restore"]
    /\ UNCHANGED <<Control, Behind, inputs, pushed, read, events>>

CtrlC ==
    /\ mode = "terminal" /\ source.at = "read" /\ cancelled' = TRUE
    /\ source' = [source EXCEPT !.at = "restore"]
    /\ UNCHANGED <<mode, sessionDone, starter, stopper, waiter, ui, terminal, Behind, inputs, pushed,
                   read, events>>

\* Mutant: the reader leaves the terminal to stop.
ReaderLeaves ==
    /\ source.at = "restore" /\ source' = [source EXCEPT !.at = "ended"]
    /\ UNCHANGED <<Control, Behind, inputs, pushed, read, events>>

\* Its deferred calls.
ReaderRestores ==
    /\ source.at = "restore" /\ source' = [source EXCEPT !.at = "ended"]
    /\ terminal' = Restored
    /\ UNCHANGED <<mode, cancelled, sessionDone, starter, stopper, waiter, ui, Behind, inputs, pushed,
                   read, events>>

-----------------------------------------------------------------------------
(* The recorder and batchLoop. *)

Ahead == <<Control, source, inputs, pushed, read>>

RecorderTakes ==
    /\ recorder.at = "select" /\ events # <<>>
    /\ recorder' = [at |-> "record", holds |-> <<Head(events)>>] /\ events' = Tail(events)
    /\ UNCHANGED <<Ahead, local, batcher, batched>>

Record ==
    /\ recorder.at = "record" /\ Len(local) < EventCap
    /\ recorder' = [at |-> "select", holds |-> <<>>] /\ local' = local \o recorder.holds
    /\ UNCHANGED <<Ahead, events, batcher, batched>>

RecorderEnds ==
    /\ recorder.at \in {"select", "record"} /\ sessionDone
    /\ recorder' = [at |-> IF recorder.at = "record" THEN "select" ELSE "ended", holds |-> <<>>]
    /\ UNCHANGED <<Ahead, events, local, batcher, batched>>

BatcherTakes ==
    /\ batcher = "select" /\ local # <<>>
    /\ batched' = Append(batched, Head(local)) /\ local' = Tail(local)
    /\ UNCHANGED <<Ahead, events, recorder, batcher>>

BatcherEnds ==
    /\ batcher = "select" /\ sessionDone /\ batcher' = "ended"
    /\ UNCHANGED <<Ahead, events, recorder, local, batched>>

-----------------------------------------------------------------------------
StarterStep ==
    /\ ~exited /\ UNCHANGED exited
    /\ Start \/ FallBack \/ StartFails \/ MakeRaw \/ SaveState \/ StartReader \/ ReaderFails \/ Publish

SourceStep ==
    /\ ~exited /\ UNCHANGED exited
    /\ \/ Read \/ \E n \in 1 .. MaxInputs : ReadTerminal(n)
       \/ Emit \/ EmitCancelled \/ DispatcherEnds \/ ReaderEnds \/ ReaderRestores

WaiterStep == ~exited /\ UNCHANGED exited /\ WaiterStops

OtherStep ==
    /\ ~exited /\ UNCHANGED exited
    /\ \/ Begin \/ StopSession \/ StopCapture
       \/ UiStarts \/ UiTakes \/ UiQuits
       \/ Press \/ HelperDrops \/ HelperEnds \/ CtrlC
       \/ RecorderTakes \/ Record \/ RecorderEnds \/ BatcherTakes \/ BatcherEnds

CaptureNext == StarterStep \/ SourceStep \/ WaiterStep \/ OtherStep \/ (~exited /\ Exit)

CaptureSpec == CaptureInit /\ [][CaptureNext]_captureVars

\* Goroutines go on while the process does; nobody has to press a key or to stop the session.
CaptureFair ==
    /\ WF_captureVars(StarterStep) /\ WF_captureVars(SourceStep)
    /\ WF_captureVars(WaiterStep)

CaptureFairSpec == CaptureSpec /\ CaptureFair

-----------------------------------------------------------------------------
\* "Human typing/click bursts wait briefly for the batch consumer instead of being
\* silently discarded" (architecture.md:160): while the capture runs, every event of what
\* its source has read has been batched or is on its way, once and in order, whichever
\* channel is full; and native hooks and the helper make one event of each key and click
\* that is handed over, in order.  A terminal's keys that pile up are one event, after the
\* clicks; what Bubble Tea reads, or comes after the helper gave up, is not captured.
BurstsArrive ==
    ~CtxDone =>
        /\ batched \o local \o recorder.holds \o events \o source.holds = read
        /\ mode # "terminal" => read \o inputs = [i \in 1 .. pushed |-> i]

\* "Terminal capture stores its original state [...] and restores it through deferred,
\* idempotent cleanup" (architecture.md:110), and no source waits for ever to emit, also
\* when stop comes between any two steps of the start or Ctrl-C ends the capture alone: once
\* the capture is over and for as long as the process goes on; and by the time it ends, if
\* stop found the capture.  Restored is what capture found, which is the shell's terminal
\* when there is no Bubble Tea.
CaptureEnds ==
    <>[](CtxDone =>
            /\ ~exited => mode \in {"helper", "dropped"} \/ source.at = "ended"
            /\ ~exited \/ stopper = "stopped" => ~terminal.saved /\ (ui = "none" => ~terminal.raw))

\* "Original": the terminal is not left in raw mode by a process that stopped its capture.
\* NOT a property: what capture found may be Bubble Tea's raw mode, which stop restores after
\* Bubble Tea has restored the shell's.
TerminalIsRestored == exited /\ stopper = "stopped" => ~terminal.raw
=============================================================================
