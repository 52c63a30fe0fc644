------------------------------- MODULE Touchpad -------------------------------
(***************************************************************************)
(* touchpadTapDetector (cli/capture.go): it sees the key and position events *)
(* of one touchpad and reports a short, still touch of one finger as a left  *)
(* click and of two as a right click.  The touchpad is modelled by what it   *)
(* reports of a hand: fingers more or less, a move, the button under it.     *)
(* Drivers report the tool (how many fingers) before or after the touch, and *)
(* a position before the touch, after it or, if it has not changed, not at   *)
(* all; the positions of all fingers go to the detector's one.               *)
(***************************************************************************)
EXTENDS Naturals

CONSTANTS MaxFingers

VARIABLES
    detector,   \* touching, fingerCount, tooManyFingers, buttonDuringTouch, far: from the start
    hand,       \* fingers on the pad
    touch,      \* history of this touch: how many fingers it had, where it began, what it was
    clicked     \* what was reported last: a tap, the button, nothing

touchpadVars == <<detector, hand, touch, clicked>>

Nothing == "nothing"
Fresh   == [counts |-> {}, placed |-> FALSE, pressed |-> FALSE, moved |-> FALSE, long |-> FALSE]

TouchpadTypeOK ==
    /\ detector \in [touching : BOOLEAN, fingerCount : 0 .. 2, tooManyFingers : BOOLEAN,
                     buttonDuringTouch : BOOLEAN, far : BOOLEAN, late : BOOLEAN]
    /\ hand \in 0 .. MaxFingers
    /\ touch \in [counts : SUBSET (1 .. MaxFingers), placed : BOOLEAN, pressed : BOOLEAN,
                  moved : BOOLEAN, long : BOOLEAN]
    /\ clicked \in {Nothing, "left", "right", "button"}

TouchpadInit ==
    /\ detector = [touching |-> FALSE, fingerCount |-> 0, tooManyFingers |-> FALSE,
                   buttonDuringTouch |-> FALSE, far |-> FALSE, late |-> FALSE]
    /\ hand = 0 /\ touch = Fresh /\ clicked = Nothing

-----------------------------------------------------------------------------
(* handle, per key. *)

\* BTN_TOOL_FINGER, BTN_TOOL_DOUBLETAP, BTN_TOOL_TRIPLETAP and _QUADTAP, pressed; it does
\* not look at the tool of five fingers.
Tool(d, n) ==
    CASE n = 1 /\ ~d.touching -> [d EXCEPT !.fingerCount = IF @ < 1 THEN 1 ELSE @,
                                           !.tooManyFingers = FALSE, !.buttonDuringTouch = FALSE]
      [] n = 1 /\ d.touching  -> d
      [] n = 2                -> [d EXCEPT !.fingerCount = 2]
      [] n \in {3, 4}         -> [d EXCEPT !.tooManyFingers = TRUE]
      [] n > 4                -> d

\* Mutant: the touch starts as if it were of few fingers.
TouchDownFew(d) ==
    [d EXCEPT !.touching = TRUE, !.fingerCount = IF @ = 0 THEN 1 ELSE @, !.tooManyFingers = FALSE,
              !.buttonDuringTouch = FALSE, !.far = FALSE, !.late = FALSE]

\* BTN_TOUCH, pressed and released.
TouchDown(d) ==
    [d EXCEPT !.touching = TRUE, !.fingerCount = IF @ = 0 THEN 1 ELSE @,
              !.buttonDuringTouch = FALSE, !.far = FALSE, !.late = FALSE]

TouchUp(d) ==
    [d EXCEPT !.touching = FALSE, !.fingerCount = 0, !.tooManyFingers = FALSE,
              !.buttonDuringTouch = FALSE]

\* tapButton
TapButton(d) ==
    IF d.tooManyFingers \/ d.buttonDuringTouch \/ d.late \/ d.far THEN Nothing
    ELSE IF d.fingerCount = 2 THEN "right" ELSE "left"

-----------------------------------------------------------------------------
(* The hand. *)

\* Position events: the position becomes that of any finger, near to where the touch began
\* or far from it, but that of the one finger there is as far as it moved.
Far(d, b) == [d EXCEPT !.far = b]

\* A touch begins.  Of one finger, its position may have been reported before (placed).
FirstDown(n) ==
    /\ hand = 0 /\ hand' = n
    /\ \E placed, far \in BOOLEAN :
          /\ placed => n = 1 /\ ~far
          /\ detector' \in {Far(TouchDown(Tool(detector, n)), far), Far(Tool(TouchDown(detector), n), far)}
          /\ touch' = [Fresh EXCEPT !.counts = {n}, !.placed = placed]
    /\ clicked' = Nothing

\* Fingers come down or are lifted while others stay: another tool, and other positions.
Fingers(n) ==
    /\ hand > 0 /\ n # hand /\ hand' = n
    /\ \E far \in BOOLEAN : detector' = Far(Tool(detector, n), far)
    /\ touch' = [touch EXCEPT !.counts = @ \cup {n}, !.placed = FALSE]
    /\ clicked' = Nothing

\* All are lifted: the touch ends.
LiftAll ==
    /\ hand > 0 /\ hand' = 0
    /\ clicked' = TapButton(detector)
    /\ detector' = TouchUp(detector)
    /\ touch' = Fresh

\* The button under the pad is a click of its own.
Button ==
    /\ hand > 0 /\ ~touch.pressed
    /\ detector' = [detector EXCEPT !.buttonDuringTouch = TRUE]
    /\ touch' = [touch EXCEPT !.pressed = TRUE]
    /\ clicked' = "button" /\ UNCHANGED hand

\* More than 90 units from where the touch started, and perhaps back.
Move ==
    /\ hand > 0
    /\ \E far, moved \in BOOLEAN : /\ touch.placed => far = moved
                                   /\ detector' = Far(detector, far)
                                   /\ touch' = [touch EXCEPT !.moved = moved]
    /\ clicked' = Nothing /\ UNCHANGED hand

\* 260 ms pass.
Wait ==
    /\ hand > 0
    /\ detector' = [detector EXCEPT !.late = TRUE] /\ touch' = [touch EXCEPT !.long = TRUE]
    /\ clicked' = Nothing /\ UNCHANGED hand

TouchpadNext ==
    \/ \E n \in 1 .. MaxFingers : FirstDown(n) \/ Fingers(n)
    \/ LiftAll \/ Button \/ Move \/ Wait

TouchpadSpec == TouchpadInit /\ [][TouchpadNext]_touchpadVars

-----------------------------------------------------------------------------
\* What a still touch is worth.
Worth(t) ==
    IF t.pressed \/ t.long \/ 3 \in t.counts \/ 4 \in t.counts THEN Nothing
    ELSE IF 2 \in t.counts THEN "right" ELSE "left"

LiftsOff == hand > 0 /\ hand' = 0

\* In whatever order fingers come, go and are reported, a touch that was long, pressed the
\* button or had three or four fingers clicks nothing, and no other click is reported than
\* that of its fingers.  Of one finger whose position was known when it came down, it is
\* reported if and only if the finger has not moved.
TapsAreTrue ==
    [][LiftsOff => /\ clicked' \in {Nothing, Worth(touch)}
                   /\ touch.placed => clicked' = IF touch.moved THEN Nothing ELSE Worth(touch)]_touchpadVars

\* "Short stationary two-finger tap maps to right click" (architecture.md:164).  NOT a
\* property: where a second finger comes down counts as travel of the first.
TwoFingersClickRight ==
    [][LiftsOff /\ touch.counts = {1, 2}
         /\ ~touch.moved /\ ~touch.long /\ ~touch.pressed => clicked' = "right"]_touchpadVars
=============================================================================
