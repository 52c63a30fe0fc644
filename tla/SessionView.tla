------------------------------ MODULE SessionView ------------------------------
(***************************************************************************)
(* How the state of a session gets into session.json: every goroutine that   *)
(* changes it (set) writes it at once or leaves it to a timer, and stop      *)
(* writes a last time before the instance is released (cli/session.go,       *)
(* cli/instance.go).  Views are numbered.  The instance has no lock: a       *)
(* goroutine may find there what another one has just put.                   *)
(***************************************************************************)
EXTENDS Naturals

CONSTANTS
    Setter,     \* goroutines that call set; the last flush of stop is another one's
    MaxViews    \* bound

Writer == Setter \cup {"timer", "stop"}

VARIABLES
    view,       \* s.state
    writer,     \* what each goroutine is doing and the view it holds
    delay,      \* stateWriteTimer
    instance,   \* the view in the instance; released
    stateFile,  \* session.json
    overlapped  \* history: a goroutine looked at the view while another was writing it

viewVars == <<view, writer, delay, instance, stateFile, overlapped>>

ViewTypeOK ==
    /\ view \in 0 .. MaxViews /\ overlapped \in BOOLEAN
    /\ writer \in [Writer -> [at : {"idle", "throttle", "flush", "view", "update", "marshal",
                                    "rename", "release", "stopped"},
                              holds : 0 .. MaxViews]]
    /\ delay \in {"off", "on"}
    /\ instance \in [view : 0 .. MaxViews, released : BOOLEAN]
    /\ stateFile \in [view : 0 .. MaxViews, stopped : BOOLEAN]

ViewInit ==
    /\ view = 0 /\ overlapped = FALSE /\ delay = "off"
    /\ writer = [w \in Writer |-> [at |-> "idle", holds |-> 0]]
    /\ instance = [view |-> 0, released |-> FALSE]
    /\ stateFile = [view |-> 0, stopped |-> FALSE]

Turn(w, from, to) == writer[w].at = from /\ writer' = [writer EXCEPT ![w].at = to]

Holding(w, from, to, v) == writer[w].at = from /\ writer' = [writer EXCEPT ![w] = [at |-> to, holds |-> v]]

\* set: a change of the connection status, of the capture mode or of the notice is
\* written at once, another one when the last write is 250 ms old.
Set(w) ==
    /\ w \in Setter /\ view < MaxViews /\ view' = view + 1
    /\ \E to \in {"flush", "throttle"} : Holding(w, "idle", to, view')
    /\ UNCHANGED <<delay, instance, stateFile, overlapped>>

\* writeSessionState: else a timer does it; one that runs starts again.
Throttle(w) ==
    /\ Turn(w, "throttle", "idle") /\ delay' = "on"
    /\ UNCHANGED <<view, instance, stateFile, overlapped>>

Fire ==
    /\ delay = "on" /\ Turn("timer", "idle", "flush") /\ delay' = "off"
    /\ UNCHANGED <<view, instance, stateFile, overlapped>>

Stop ==
    /\ Turn("stop", "idle", "flush")
    /\ UNCHANGED <<view, delay, instance, stateFile, overlapped>>

\* flushSessionState stops the timer and then looks at the view.
StopTimer(w) ==
    /\ Turn(w, "flush", "view") /\ delay' = "off"
    /\ UNCHANGED <<view, instance, stateFile, overlapped>>

\* Between looking at the view and having it in the file.
Writing(w) == writer[w].at \in {"update", "marshal", "rename"}

\* Mutant: the view that set made is written, although the timer of a newer one was stopped.
KeepView(w) ==
    /\ Holding(w, "view", "update", IF w \in Setter THEN writer[w].holds ELSE view)
    /\ overlapped' = (overlapped \/ \E v \in Writer : Writing(v))
    /\ UNCHANGED <<view, delay, instance, stateFile>>

ReadView(w) ==
    /\ Holding(w, "view", "update", view)
    /\ overlapped' = (overlapped \/ \E v \in Writer : Writing(v))
    /\ UNCHANGED <<view, delay, instance, stateFile>>

Afterwards(w) == IF w = "stop" THEN "release" ELSE "idle"

\* sessionInstance.update: into the instance,
Update(w) ==
    /\ ~instance.released /\ Turn(w, "update", "marshal")
    /\ instance' = [instance EXCEPT !.view = writer[w].holds]
    /\ UNCHANGED <<view, delay, stateFile, overlapped>>

\* nothing after the release,
UpdateReleased(w) ==
    /\ instance.released /\ Turn(w, "update", Afterwards(w))
    /\ UNCHANGED <<view, delay, instance, stateFile, overlapped>>

\* and from the instance, whoever wrote there last, into the file.
Marshal(w) ==
    /\ Holding(w, "marshal", "rename", instance.view)
    /\ UNCHANGED <<view, delay, instance, stateFile, overlapped>>

Rename(w) ==
    /\ Turn(w, "rename", Afterwards(w))
    /\ stateFile' = [view |-> writer[w].holds, stopped |-> FALSE]
    /\ UNCHANGED <<view, delay, instance, overlapped>>

\* sessionInstance.release
Release ==
    /\ Turn("stop", "release", "stopped")
    /\ instance' = [instance EXCEPT !.released = TRUE]
    /\ stateFile' = [view |-> instance.view, stopped |-> TRUE]
    /\ UNCHANGED <<view, delay, overlapped>>

ViewNext ==
    \/ \E w \in Writer : \/ Set(w) \/ Throttle(w) \/ StopTimer(w) \/ ReadView(w) \/ Update(w)
                         \/ UpdateReleased(w) \/ Marshal(w) \/ Rename(w)
    \/ Fire \/ Stop \/ Release

ViewSpec == ViewInit /\ [][ViewNext]_viewVars

-----------------------------------------------------------------------------
AtRest == delay = "off" /\ \A w \in Writer : writer[w].at \in {"idle", "stopped"}

\* Flushes that do not overlap persist the newest view: when nothing is under way and no
\* timer runs, session.json holds it, although a flush stops the timer that another
\* goroutine has just set, throttled changes have no flush of their own and the view
\* changes while it is written.
PersistedUnlessOverlapping ==
    AtRest /\ ~instance.released /\ ~overlapped => stateFile.view = view

\* "Trailing-edge debounce: always persist the final state after a burst of updates"
\* (cli/session.go:432).  NOT a property of the code: of two goroutines that flush at the
\* same time the one that looked first can be the last to write, for update, the marshalling
\* and the rename of session.json are under no lock.
FinalStateIsPersisted == AtRest /\ ~instance.released => stateFile.view = view
=============================================================================
