------------------------------ MODULE PartsProofs ------------------------------
(* Theorems about the small parts of a client: taps on a touchpad, the state of a  *)
(* session in its file, the configuration, its files and its rules, the queue of   *)
(* commands, the ambient player, the way from the keys to a batch and from a saved *)
(* profile to the relay; for any number of fingers, goroutines, processes, views,  *)
(* edits, names, inputs and settings.                                              *)
EXTENDS Touchpad, SessionView, ConfigStore, ConfigRules, CommandQueue, AudioEngine, Capture,
        Settings, FiniteSetTheorems, SequenceTheorems, TLAPS

-----------------------------------------------------------------------------
(* Touchpad: what the detector has agrees with what the touch was so far: it has seen  *)
(* the tool of two fingers, or of three or four, if and only if the hand had as many;  *)
(* and of one finger whose position it knew it has what the finger moved.              *)

Detectors == [touching : BOOLEAN, fingerCount : 0 .. 2, tooManyFingers : BOOLEAN,
              buttonDuringTouch : BOOLEAN, far : BOOLEAN, late : BOOLEAN]
Touches == [counts : SUBSET Nat, placed : BOOLEAN, pressed : BOOLEAN, moved : BOOLEAN, long : BOOLEAN]

TouchTypes == detector \in Detectors /\ hand \in Nat /\ touch \in Touches

\* Between two touches nothing is left but what the next one starts with.
Untouched == /\ ~detector.touching /\ detector.fingerCount = 0
             /\ ~detector.tooManyFingers /\ ~detector.buttonDuringTouch

Counts(d, counts) == /\ d.touching
                     /\ d.tooManyFingers <=> 3 \in counts \/ 4 \in counts
                     /\ d.fingerCount = 2 <=> 2 \in counts

SameSeen(d, t) == /\ d.buttonDuringTouch = t.pressed /\ d.late = t.long
                  /\ t.placed => d.far = t.moved

Touched == Counts(detector, touch.counts) /\ SameSeen(detector, touch)

TouchInv == TouchTypes /\ (hand = 0 => Untouched) /\ (hand > 0 => Touched)

\* What the fields of a detector are after a tool or a position is reported.
LEMMA ToolFields ==
    ASSUME NEW d \in Detectors, NEW b \in BOOLEAN
    PROVE  /\ [d EXCEPT !.fingerCount = 2] \in Detectors
           /\ [d EXCEPT !.fingerCount = 2].fingerCount = 2
           /\ [d EXCEPT !.tooManyFingers = TRUE] \in Detectors
           /\ [d EXCEPT !.tooManyFingers = TRUE].fingerCount = d.fingerCount
           /\ Far(d, b) \in Detectors
           /\ Far(d, b).fingerCount = d.fingerCount
<1>1. [d EXCEPT !.fingerCount = 2] \in Detectors /\ [d EXCEPT !.fingerCount = 2].fingerCount = 2
  BY DEF Detectors
<1>2. [d EXCEPT !.tooManyFingers = TRUE] \in Detectors
  BY DEF Detectors
<1>3. [d EXCEPT !.tooManyFingers = TRUE].fingerCount = d.fingerCount
  BY DEF Detectors
<1>4. Far(d, b) \in Detectors
  BY DEF Detectors, Far
<1>5. Far(d, b).fingerCount = d.fingerCount
  BY DEF Detectors, Far
<1>6. QED  BY <1>1, <1>2, <1>3, <1>4, <1>5

SameFlags(e, d) == e.buttonDuringTouch = d.buttonDuringTouch /\ e.late = d.late

LEMMA ToolFlags ==
    ASSUME NEW d \in Detectors
    PROVE  /\ SameFlags([d EXCEPT !.fingerCount = 2], d)
           /\ [d EXCEPT !.fingerCount = 2].touching = d.touching
           /\ [d EXCEPT !.fingerCount = 2].tooManyFingers = d.tooManyFingers
           /\ SameFlags([d EXCEPT !.tooManyFingers = TRUE], d)
           /\ [d EXCEPT !.tooManyFingers = TRUE].touching = d.touching
           /\ [d EXCEPT !.tooManyFingers = TRUE].tooManyFingers
  BY Zenon DEF Detectors, SameFlags

\* A position changes nothing else.
LEMMA FarFlags ==
    ASSUME NEW d \in Detectors, NEW b \in BOOLEAN
    PROVE  /\ Far(d, b).far = b /\ SameFlags(Far(d, b), d)
           /\ Far(d, b).touching = d.touching /\ Far(d, b).tooManyFingers = d.tooManyFingers
  BY Zenon DEF Detectors, SameFlags, Far

LEMMA FarCounts ==
    ASSUME NEW d \in Detectors, NEW b \in BOOLEAN, NEW counts, Counts(d, counts)
    PROVE  /\ Far(d, b) \in Detectors /\ Counts(Far(d, b), counts)
           /\ Far(d, b).far = b /\ SameFlags(Far(d, b), d)
  BY ToolFields, FarFlags DEF Counts

\* A tool during a touch.
LEMMA ToolCounts ==
    ASSUME NEW d \in Detectors, NEW counts, NEW n \in Nat, n > 0, Counts(d, counts),
           n = 1 => d.touching
    PROVE  /\ Tool(d, n) \in Detectors
           /\ Counts(Tool(d, n), counts \cup {n})
           /\ SameFlags(Tool(d, n), d)
<1> DEFINE two == [d EXCEPT !.fingerCount = 2]
           many == [d EXCEPT !.tooManyFingers = TRUE]
<1>1. /\ two \in Detectors /\ SameFlags(two, d) /\ two.fingerCount = 2
      /\ two.touching = d.touching /\ two.tooManyFingers = d.tooManyFingers
      /\ many \in Detectors /\ SameFlags(many, d) /\ many.fingerCount = d.fingerCount
      /\ many.touching = d.touching /\ many.tooManyFingers
  BY ToolFields, ToolFlags
<1>2. n = 2 => Tool(d, n) = two
  BY DEF Tool
<1>3. n \in {3, 4} => Tool(d, n) = many
  BY DEF Tool
<1>4. n = 1 \/ n > 4 => Tool(d, n) = d
  BY DEF Tool, Counts
<1> HIDE DEF two, many
<1>c. /\ d.touching /\ d.tooManyFingers <=> 3 \in counts \/ 4 \in counts
      /\ d.fingerCount = 2 <=> 2 \in counts
  BY DEF Counts
<1>5. CASE n = 2
  <2>1. /\ 2 \in counts \cup {n}
        /\ 3 \in counts \cup {n} <=> 3 \in counts
        /\ 4 \in counts \cup {n} <=> 4 \in counts
    BY <1>5
  <2>2. Counts(two, counts \cup {n})
    BY <1>1, <1>c, <2>1, Zenon DEF Counts
  <2>3. QED  BY <1>1, <1>2, <1>5, <2>2
<1>6. CASE n \in {3, 4}
  <2>1. /\ 3 \in counts \cup {n} \/ 4 \in counts \cup {n}
        /\ 2 \in counts \cup {n} <=> 2 \in counts
    BY <1>6
  <2>2. Counts(many, counts \cup {n})
    BY <1>1, <1>c, <2>1, Zenon DEF Counts
  <2>3. QED  BY <1>1, <1>3, <1>6, <2>2
<1>7. CASE n = 1 \/ n > 4
  BY <1>4, <1>7 DEF Counts, SameFlags
<1>8. QED  BY <1>5, <1>6, <1>7

NoFlags(d) == ~d.buttonDuringTouch /\ ~d.late

LEMMA DownCounts ==
    ASSUME NEW d \in Detectors
    PROVE  /\ TouchDown(d) \in Detectors /\ TouchDown(d).touching /\ NoFlags(TouchDown(d))
           /\ TouchDown(d).tooManyFingers = d.tooManyFingers
           /\ TouchDown(d).fingerCount = IF d.fingerCount = 0 THEN 1 ELSE d.fingerCount
<1> DEFINE c == IF d.fingerCount = 0 THEN 1 ELSE d.fingerCount
<1>1. c \in 0 .. 2
  BY DEF Detectors
<1>2. TouchDown(d) = [d EXCEPT !.touching = TRUE, !.fingerCount = c, !.buttonDuringTouch = FALSE,
                               !.far = FALSE, !.late = FALSE]
  BY DEF TouchDown
<1> HIDE DEF c
<1>3. TouchDown(d) \in Detectors
  BY <1>1, <1>2 DEF Detectors
<1>4. TouchDown(d).touching /\ NoFlags(TouchDown(d))
  BY <1>2, Zenon DEF Detectors, NoFlags
<1>5. TouchDown(d).tooManyFingers = d.tooManyFingers /\ TouchDown(d).fingerCount = c
  BY <1>2, Zenon DEF Detectors
<1>6. QED  BY <1>3, <1>4, <1>5 DEF c

\* A touch starts with the count it was told of before.
LEMMA StartCounts ==
    ASSUME NEW d \in Detectors, NEW counts,
           d.fingerCount = 2 <=> 2 \in counts,
           d.tooManyFingers <=> 3 \in counts \/ 4 \in counts
    PROVE  TouchDown(d) \in Detectors /\ Counts(TouchDown(d), counts) /\ NoFlags(TouchDown(d))
<1> DEFINE e == TouchDown(d)
<1>1. e \in Detectors /\ e.touching /\ NoFlags(e) /\ e.tooManyFingers = d.tooManyFingers
  BY DownCounts
<1>2. e.fingerCount = 2 <=> d.fingerCount = 2
  BY DownCounts
<1> HIDE DEF e
<1>3. QED  BY <1>1, <1>2 DEF Counts, e

\* The first touch, whichever of the tool and the touch is reported first.
LEMMA FirstCounts ==
    ASSUME TouchTypes, Untouched, NEW n \in Nat, n > 0,
           NEW d \in {TouchDown(Tool(detector, n)), Tool(TouchDown(detector), n)}
    PROVE  d \in Detectors /\ Counts(d, {n}) /\ NoFlags(d)
<1>1. detector \in Detectors /\ ~detector.touching /\ detector.fingerCount = 0 /\ ~detector.tooManyFingers
  BY DEF TouchTypes, Untouched
<1>2. CASE d = Tool(TouchDown(detector), n)
  <2>1. TouchDown(detector) \in Detectors /\ Counts(TouchDown(detector), {}) /\ NoFlags(TouchDown(detector))
    BY <1>1, StartCounts
  <2>2. /\ Tool(TouchDown(detector), n) \in Detectors
        /\ Counts(Tool(TouchDown(detector), n), {} \cup {n})
        /\ SameFlags(Tool(TouchDown(detector), n), TouchDown(detector))
    <3>1. TouchDown(detector).touching
      BY <2>1 DEF Counts
    <3>2. QED  BY <2>1, <3>1, ToolCounts
  <2>3. {} \cup {n} = {n}
    OBVIOUS
  <2>4. QED  BY <1>2, <2>1, <2>2, <2>3 DEF NoFlags, SameFlags
<1>3. CASE d = TouchDown(Tool(detector, n))
  <2>1. CASE n = 1
    <3> DEFINE one == [detector EXCEPT !.fingerCount = 1, !.tooManyFingers = FALSE,
                                       !.buttonDuringTouch = FALSE]
    <3>1. Tool(detector, n) = one
      BY <1>1, <2>1 DEF Tool, Detectors
    <3>2. 1 \in 0 .. 2
      OBVIOUS
    <3>3. one \in Detectors
      BY <1>1, <3>2 DEF Detectors
    <3>4. one.fingerCount = 1 /\ ~one.tooManyFingers
      BY <1>1, Zenon DEF Detectors
    <3> HIDE DEF one
    <3>5. QED  BY <1>3, <2>1, <3>1, <3>3, <3>4, StartCounts
  <2>2. CASE n = 2
    <3> DEFINE two == [detector EXCEPT !.fingerCount = 2]
    <3>1. Tool(detector, n) = two
      BY <1>1, <2>2 DEF Tool
    <3>2. two \in Detectors /\ two.fingerCount = 2
      BY <1>1, ToolFields
    <3>3. ~two.tooManyFingers
      BY <1>1, ToolFlags, Zenon
    <3> HIDE DEF two
    <3>4. QED  BY <1>3, <2>2, <3>1, <3>2, <3>3, StartCounts
  <2>3. CASE n \in {3, 4}
    <3> DEFINE many == [detector EXCEPT !.tooManyFingers = TRUE]
    <3>1. Tool(detector, n) = many
      BY <1>1, <2>3 DEF Tool
    <3>2. many \in Detectors /\ many.tooManyFingers /\ many.fingerCount = 0
      BY <1>1, ToolFields, ToolFlags
    <3> HIDE DEF many
    <3>3. QED  BY <1>3, <2>3, <3>1, <3>2, StartCounts
  <2>4. CASE n > 4
    <3>1. Tool(detector, n) = detector
      BY <1>1, <2>4 DEF Tool
    <3>2. QED  BY <1>1, <1>3, <2>4, <3>1, StartCounts
  <2>5. QED  BY <2>1, <2>2, <2>3, <2>4
<1>4. QED  BY <1>2, <1>3

LEMMA TouchInit == TouchpadInit => TouchInv
  BY DEF TouchpadInit, TouchInv, TouchTypes, Detectors, Touches, Fresh, Untouched

LEMMA TouchStep ==
    ASSUME TouchInv, TouchpadNext
    PROVE  TouchInv'
<1>1. /\ detector \in Detectors /\ hand \in Nat /\ touch \in Touches
      /\ hand = 0 => Untouched
      /\ hand > 0 => Touched
  BY DEF TouchInv, TouchTypes
<1>2. ASSUME NEW n \in 1 .. MaxFingers, FirstDown(n) PROVE TouchInv'
  <2>1. n \in Nat /\ n > 0 /\ hand = 0 /\ hand' = n
    BY <1>2 DEF FirstDown
  <2>2. PICK placed \in BOOLEAN, far \in BOOLEAN :
            /\ placed => n = 1 /\ ~far
            /\ detector' \in {Far(TouchDown(Tool(detector, n)), far), Far(Tool(TouchDown(detector), n), far)}
            /\ touch' = [Fresh EXCEPT !.counts = {n}, !.placed = placed]
    BY <1>2 DEF FirstDown
  <2>3. PICK d \in {TouchDown(Tool(detector, n)), Tool(TouchDown(detector), n)} : detector' = Far(d, far)
    BY <2>2
  <2>4. d \in Detectors /\ Counts(d, {n}) /\ NoFlags(d)
    BY <1>1, <2>1, <2>3, FirstCounts DEF TouchTypes
  <2>5. /\ detector' \in Detectors /\ Counts(detector', {n}) /\ detector'.far = far
        /\ SameFlags(detector', d)
    BY <2>3, <2>4, FarCounts
  <2>6. touch' = [counts |-> {n}, placed |-> placed, pressed |-> FALSE, moved |-> FALSE, long |-> FALSE]
    BY <2>2 DEF Fresh
  <2>7. touch' \in Touches
    BY <2>1, <2>6 DEF Touches
  <2>8. SameSeen(detector', touch')
    <3>1. ~touch'.pressed /\ ~touch'.moved /\ ~touch'.long /\ touch'.placed = placed
      BY <2>6, Zenon
    <3>2. ~detector'.buttonDuringTouch /\ ~detector'.late
      BY <2>4, <2>5 DEF NoFlags, SameFlags
    <3>3. /\ detector'.buttonDuringTouch \in BOOLEAN /\ detector'.late \in BOOLEAN
          /\ touch'.pressed \in BOOLEAN /\ touch'.long \in BOOLEAN /\ touch'.moved \in BOOLEAN
      BY <2>5, <2>7, Zenon DEF Detectors, Touches
    <3>4. QED  BY <2>2, <2>5, <3>1, <3>2, <3>3, Zenon DEF SameSeen
  <2>9. touch'.counts = {n}
    BY <2>6
  <2>10. QED  BY <2>1, <2>5, <2>7, <2>8, <2>9 DEF TouchInv, TouchTypes, Touched
<1>3. ASSUME NEW n \in 1 .. MaxFingers, Fingers(n) PROVE TouchInv'
  <2>1. n \in Nat /\ n > 0 /\ hand > 0 /\ hand' = n
    BY <1>3 DEF Fingers
  <2>2. PICK far \in BOOLEAN : detector' = Far(Tool(detector, n), far)
    BY <1>3 DEF Fingers
  <2>3. touch' = [touch EXCEPT !.counts = touch.counts \cup {n}, !.placed = FALSE]
    BY <1>3 DEF Fingers
  <2>4. Counts(detector, touch.counts) /\ SameSeen(detector, touch) /\ detector.touching
    BY <1>1, <2>1 DEF Touched, Counts
  <2>5. /\ Tool(detector, n) \in Detectors /\ Counts(Tool(detector, n), touch.counts \cup {n})
        /\ SameFlags(Tool(detector, n), detector)
    BY <1>1, <2>1, <2>4, ToolCounts
  <2>6. /\ detector' \in Detectors /\ Counts(detector', touch.counts \cup {n})
        /\ SameFlags(detector', Tool(detector, n))
    BY <2>2, <2>5, FarCounts
  <2>7. touch' \in Touches /\ touch'.counts = touch.counts \cup {n}
    BY <1>1, <2>1, <2>3 DEF Touches
  <2>8. ~touch'.placed /\ touch'.pressed = touch.pressed /\ touch'.long = touch.long
    BY <1>1, <2>3, Zenon DEF Touches
  <2>9. SameSeen(detector', touch')
    BY <2>4, <2>5, <2>6, <2>8 DEF SameSeen, SameFlags
  <2>10. QED  BY <2>1, <2>6, <2>7, <2>9 DEF TouchInv, TouchTypes, Touched
<1>4. CASE LiftAll
  <2>1. hand' = 0 /\ touch' = Fresh /\ detector' = TouchUp(detector)
    BY <1>4 DEF LiftAll
  <2>2. detector' \in Detectors /\ Untouched'
    <3> DEFINE up == [detector EXCEPT !.touching = FALSE, !.fingerCount = 0,
                                      !.tooManyFingers = FALSE, !.buttonDuringTouch = FALSE]
    <3>1. up \in Detectors
      <4>1. 0 \in 0 .. 2
        OBVIOUS
      <4>2. QED  BY <1>1, <4>1 DEF Detectors
    <3>2. up.fingerCount = 0 /\ ~up.touching /\ ~up.tooManyFingers /\ ~up.buttonDuringTouch
      BY <1>1, Zenon DEF Detectors
    <3> HIDE DEF up
    <3>3. detector' = up
      BY <2>1 DEF TouchUp, up
    <3>4. QED  BY <2>1, <3>1, <3>2, <3>3 DEF Untouched
  <2>3. QED  BY <2>1, <2>2 DEF TouchInv, TouchTypes, Touches, Fresh
<1>5. CASE Move
  <2>1. PICK far \in BOOLEAN, moved \in BOOLEAN :
            /\ touch.placed => far = moved
            /\ detector' = Far(detector, far) /\ touch' = [touch EXCEPT !.moved = moved]
    BY <1>5 DEF Move
  <2>2. hand > 0 /\ UNCHANGED hand /\ Counts(detector, touch.counts) /\ SameSeen(detector, touch)
    BY <1>1, <1>5 DEF Move, Touched
  <2>3. /\ detector' \in Detectors /\ Counts(detector', touch.counts) /\ detector'.far = far
        /\ SameFlags(detector', detector)
    BY <1>1, <2>1, <2>2, FarCounts
  <2>4. touch' \in Touches /\ touch'.counts = touch.counts
    BY <1>1, <2>1 DEF Touches
  <2>5. /\ touch'.moved = moved /\ touch'.placed = touch.placed
        /\ touch'.pressed = touch.pressed /\ touch'.long = touch.long
    BY <1>1, <2>1, Zenon DEF Touches
  <2>6. SameSeen(detector', touch')
    BY <2>1, <2>2, <2>3, <2>5 DEF SameSeen, SameFlags
  <2>7. QED  BY <1>1, <2>2, <2>3, <2>4, <2>6 DEF TouchInv, TouchTypes, Touched
<1>6. CASE Button \/ Wait
  <2>1. hand > 0 /\ UNCHANGED hand
    BY <1>6 DEF Button, Wait
  <2>2. detector' \in Detectors /\ touch' \in Touches
    BY <1>1, <1>6 DEF Button, Wait, Detectors, Touches
  <2>3. touch'.counts = touch.counts /\ detector'.fingerCount = detector.fingerCount
    BY <1>1, <1>6 DEF Button, Wait, Detectors, Touches
  <2>4. detector'.touching = detector.touching /\ detector'.tooManyFingers = detector.tooManyFingers
    BY <1>1, <1>6, Zenon DEF Button, Wait, Detectors
  <2>5. Counts(detector', touch'.counts)
    BY <1>1, <2>1, <2>3, <2>4 DEF Touched, Counts
  <2>6. SameSeen(detector', touch')
    <3>1. SameSeen(detector, touch)
      BY <1>1, <2>1 DEF Touched
    <3>2. CASE Button
      BY <1>1, <3>1, <3>2, Zenon DEF Button, SameSeen, Detectors, Touches
    <3>3. CASE Wait
      BY <1>1, <3>1, <3>3, Zenon DEF Wait, SameSeen, Detectors, Touches
    <3>4. QED  BY <1>6, <3>2, <3>3
  <2>7. QED  BY <1>1, <2>1, <2>2, <2>5, <2>6 DEF TouchInv, TouchTypes, Touched
<1>7. QED  BY <1>2, <1>3, <1>4, <1>5, <1>6 DEF TouchpadNext

\* A click is what the whole touch was, in whatever order fingers come, go and are reported
\* and wherever they are; of one finger whose position was known, there is one unless it
\* moved (touchpadTapDetector.handle, tapButton).
THEOREM TapsAreWhatTheyWere == TouchpadSpec => TapsAreTrue
<1>1. TouchInv /\ UNCHANGED touchpadVars => TouchInv'
  BY DEF touchpadVars, TouchInv, TouchTypes, Untouched, Touched, Counts
<1>2. TouchInv /\ [TouchpadNext]_touchpadVars => TouchInv'
  BY <1>1, TouchStep
<1>3. ASSUME TouchInv, [TouchpadNext]_touchpadVars, LiftsOff
      PROVE  /\ clicked' \in {Nothing, Worth(touch)}
             /\ touch.placed => clicked' = IF touch.moved THEN Nothing ELSE Worth(touch)
  <2>1. clicked' = TapButton(detector)
    <3>1. LiftAll \/ \E n \in 1 .. MaxFingers : FirstDown(n) \/ Fingers(n)
      BY <1>3 DEF LiftsOff, TouchpadNext, Button, Move, Wait, touchpadVars
    <3>2. ASSUME NEW n \in 1 .. MaxFingers, FirstDown(n) \/ Fingers(n) PROVE hand' # 0
      <4>1. hand' = n
        BY <3>2 DEF FirstDown, Fingers
      <4>2. QED  BY <4>1
    <3>3. LiftAll
      BY <1>3, <3>1, <3>2 DEF LiftsOff
    <3>4. QED  BY <3>3 DEF LiftAll
  <2>2. Touched
    BY <1>3 DEF LiftsOff, TouchInv
  <2>3. TapButton(detector) = IF detector.far THEN Nothing ELSE Worth(touch)
    <3>1. CASE detector.far
      BY <3>1 DEF TapButton
    <3>2. CASE ~detector.far
      BY <2>2, <3>2 DEF TapButton, Worth, Touched, Counts, SameSeen
    <3>3. QED  BY <3>1, <3>2
  <2>4. touch.placed => detector.far = touch.moved
    BY <2>2 DEF Touched, SameSeen
  <2>5. QED  BY <2>1, <2>3, <2>4
<1>4. TouchInv /\ [TouchpadNext]_touchpadVars =>
         [LiftsOff => /\ clicked' \in {Nothing, Worth(touch)}
                      /\ touch.placed => clicked' = IF touch.moved THEN Nothing ELSE Worth(touch)]_touchpadVars
  BY <1>3
<1>5. QED  BY <1>2, <1>4, TouchInit, PTL DEF TouchpadSpec, TapsAreTrue

-----------------------------------------------------------------------------
(* SessionView: as long as no two goroutines write at the same time, what the file     *)
(* lacks is in the hands of the one that writes, and a view that neither the instance  *)
(* nor the writer has is on its way: a timer will look at it, a goroutine has not      *)
(* looked yet.                                                                         *)

WriterAt == {"idle", "throttle", "flush", "view", "update", "marshal", "rename", "release", "stopped"}

Writers == [at : WriterAt, holds : Nat]

ViewTypes == /\ view \in Nat /\ overlapped \in BOOLEAN
             /\ writer \in [Writer -> Writers]
             /\ \A w \in Writer : writer[w].holds <= view
             /\ instance \in [view : Nat, released : BOOLEAN] /\ instance.view <= view

OnItsWay == \/ delay = "on"
            \/ \E w \in Writer : \/ writer[w].at \in {"throttle", "flush", "view"}
                                 \/ writer[w].at = "update" /\ writer[w].holds = view

OneWrites == \A v, w \in Writer : Writing(v) /\ Writing(w) => v = w

\* Nobody holds an older view than the instance, and what is renamed is the instance's.
WritesForward ==
    \A w \in Writer : /\ writer[w].at = "update" => writer[w].holds >= instance.view
                      /\ writer[w].at = "rename" => writer[w].holds = instance.view

FileFollows == (\A w \in Writer : writer[w].at \notin {"marshal", "rename"}) => stateFile.view = instance.view

Alone == /\ OneWrites /\ WritesForward /\ FileFollows
         /\ instance.view # view => OnItsWay

ViewInv == ViewTypes /\ (~instance.released /\ ~overlapped => Alone)

\* The others are where they were.
LEMMA TurnIs ==
    ASSUME ViewTypes, NEW w \in Writer, NEW from, NEW to \in WriterAt, Turn(w, from, to)
    PROVE  /\ writer' \in [Writer -> Writers]
           /\ writer[w].at = from /\ writer'[w].at = to /\ writer'[w].holds = writer[w].holds
           /\ \A v \in Writer : v # w => writer'[v] = writer[v]
<1>1. writer \in [Writer -> Writers] /\ writer[w] \in Writers
  BY DEF ViewTypes
<1>2. writer' = [writer EXCEPT ![w] = [writer[w] EXCEPT !.at = to]]
  BY DEF Turn
<1>3. /\ [writer[w] EXCEPT !.at = to] \in Writers
      /\ [writer[w] EXCEPT !.at = to].at = to
      /\ [writer[w] EXCEPT !.at = to].holds = writer[w].holds
  BY <1>1 DEF Writers
<1>4. QED  BY <1>1, <1>2, <1>3 DEF Turn

LEMMA HoldingIs ==
    ASSUME ViewTypes, NEW w \in Writer, NEW from, NEW v \in Nat, NEW to \in WriterAt,
           Holding(w, from, to, v)
    PROVE  /\ writer' \in [Writer -> Writers]
           /\ writer[w].at = from /\ writer'[w].at = to /\ writer'[w].holds = v
           /\ \A u \in Writer : u # w => writer'[u] = writer[u]
  BY DEF ViewTypes, Holding, Writers, WriterAt

\* Of a step of one goroutine outside its writing, which gives the instance and the file
\* nothing: what was on its way still is.
LEMMA StillOnItsWay ==
    ASSUME ViewInv, NEW w \in Writer, UNCHANGED <<view, stateFile, overlapped>>,
           writer' \in [Writer -> Writers], writer'[w].holds <= view,
           \A v \in Writer : v # w => writer'[v] = writer[v],
           instance' \in [view : Nat, released : BOOLEAN], instance'.view = instance.view,
           instance.released => instance'.released,
           ~instance'.released => ~Writing(w) /\ ~Writing(w)',
           delay = "on" /\ delay' # "on" => writer'[w].at \in {"flush", "view"},
           writer[w].at = "throttle" => delay' = "on",
           writer[w].at = "flush" => writer'[w].at = "view",
           writer[w].at # "view"
    PROVE  ViewInv'
<1>1. ViewTypes'
  BY DEF ViewInv, ViewTypes
<1>2. ASSUME ~instance'.released, ~overlapped' PROVE Alone'
  <2>1. Alone /\ ~instance.released /\ instance' = instance
    BY <1>2 DEF ViewInv, ViewTypes
  <2>2. OneWrites' /\ WritesForward' /\ FileFollows'
    BY <1>2, <2>1 DEF Alone, OneWrites, WritesForward, FileFollows, Writing
  <2>3. ASSUME instance'.view # view' PROVE OnItsWay'
    <3>1. OnItsWay
      BY <2>1, <2>3 DEF Alone
    <3>2. CASE delay = "on"
      BY <3>2 DEF OnItsWay
    <3>3. CASE delay # "on"
      <4>1. PICK v \in Writer : \/ writer[v].at \in {"throttle", "flush", "view"}
                                \/ writer[v].at = "update" /\ writer[v].holds = view
        BY <3>1, <3>3 DEF OnItsWay
      <4>2. CASE v # w
        BY <4>1, <4>2 DEF OnItsWay
      <4>3. CASE v = w
        BY <1>2, <4>1, <4>3 DEF OnItsWay, Writing
      <4>4. QED  BY <4>2, <4>3
    <3>4. QED  BY <3>2, <3>3
  <2>4. QED  BY <2>2, <2>3 DEF Alone
<1>3. QED  BY <1>1, <1>2 DEF ViewInv

LEMMA ViewStep ==
    ASSUME ViewInv, ViewNext
    PROVE  ViewInv'
<1>1. ViewTypes /\ "timer" \in Writer /\ "stop" \in Writer
  BY DEF ViewInv, Writer
<1>2. \A w \in Writer : writer[w].holds <= view /\ writer[w].holds \in Nat
  BY <1>1 DEF ViewTypes, Writers
<1>3. ASSUME NEW w \in Writer, Set(w) PROVE ViewInv'
  <2>1. view' = view + 1 /\ UNCHANGED <<instance, stateFile, overlapped>>
    BY <1>3 DEF Set
  <2>2. view' \in Nat
    BY <1>1, <2>1 DEF ViewTypes
  <2>3. PICK to \in {"flush", "throttle"} : Holding(w, "idle", to, view')
    BY <1>3 DEF Set
  <2>4. /\ writer' \in [Writer -> Writers] /\ writer[w].at = "idle"
        /\ writer'[w].at = to /\ writer'[w].holds = view'
        /\ \A u \in Writer : u # w => writer'[u] = writer[u]
    BY <1>1, <2>2, <2>3, HoldingIs DEF WriterAt
  <2>5. ViewTypes'
    BY <1>1, <1>2, <2>1, <2>2, <2>4 DEF ViewTypes
  <2>6. OnItsWay'
    BY <2>4 DEF OnItsWay
  <2>7. Alone => OneWrites' /\ WritesForward' /\ FileFollows'
    BY <2>1, <2>4 DEF Alone, OneWrites, WritesForward, FileFollows, Writing
  <2>8. QED  BY <2>1, <2>5, <2>6, <2>7 DEF ViewInv, Alone
<1>4. ASSUME NEW w \in Writer, Throttle(w) PROVE ViewInv'
  <2>1. Turn(w, "throttle", "idle") /\ delay' = "on" /\ UNCHANGED <<view, instance, stateFile, overlapped>>
    BY <1>4 DEF Throttle
  <2>2. QED  BY <1>1, <1>2, <2>1, TurnIs, StillOnItsWay DEF ViewTypes, WriterAt, Writing
<1>5. CASE Fire
  <2>1. Turn("timer", "idle", "flush") /\ delay' = "off" /\ UNCHANGED <<view, instance, stateFile, overlapped>>
    BY <1>5 DEF Fire
  <2>2. QED  BY <1>1, <1>2, <2>1, TurnIs, StillOnItsWay DEF ViewTypes, WriterAt, Writing
<1>6. CASE Stop
  <2>1. Turn("stop", "idle", "flush") /\ UNCHANGED <<view, delay, instance, stateFile, overlapped>>
    BY <1>6 DEF Stop
  <2>2. QED  BY <1>1, <1>2, <2>1, TurnIs, StillOnItsWay DEF ViewTypes, WriterAt, Writing
<1>7. ASSUME NEW w \in Writer, StopTimer(w) PROVE ViewInv'
  <2>1. Turn(w, "flush", "view") /\ delay' = "off" /\ UNCHANGED <<view, instance, stateFile, overlapped>>
    BY <1>7 DEF StopTimer
  <2>2. QED  BY <1>1, <1>2, <2>1, TurnIs, StillOnItsWay DEF ViewTypes, WriterAt, Writing
<1>8. ASSUME NEW w \in Writer, ReadView(w) PROVE ViewInv'
  <2>1. /\ Holding(w, "view", "update", view) /\ UNCHANGED <<view, delay, instance, stateFile>>
        /\ overlapped' = (overlapped \/ \E v \in Writer : Writing(v))
    BY <1>8 DEF ReadView
  <2>2. view \in Nat
    BY <1>1 DEF ViewTypes
  <2>3. /\ writer' \in [Writer -> Writers] /\ writer[w].at = "view"
        /\ writer'[w].at = "update" /\ writer'[w].holds = view
        /\ \A u \in Writer : u # w => writer'[u] = writer[u]
    BY <1>1, <2>1, <2>2, HoldingIs DEF WriterAt
  <2>4. ViewTypes'
    BY <1>1, <1>2, <2>1, <2>2, <2>3 DEF ViewTypes
  <2>5. ASSUME Alone, ~overlapped' PROVE Alone'
    <3>1. \A v \in Writer : ~Writing(v)
      BY <2>1, <2>5
    <3>2. OneWrites'
      BY <2>3, <3>1 DEF OneWrites, Writing
    <3>3. WritesForward' /\ FileFollows'
      BY <1>1, <2>1, <2>3, <2>5, <3>1 DEF Alone, WritesForward, FileFollows, Writing, ViewTypes
    <3>4. OnItsWay'
      BY <2>1, <2>3 DEF OnItsWay
    <3>5. QED  BY <3>2, <3>3, <3>4 DEF Alone
  <2>6. QED  BY <2>1, <2>4, <2>5 DEF ViewInv
<1>9. ASSUME NEW w \in Writer, Update(w) PROVE ViewInv'
  <2>1. /\ Turn(w, "update", "marshal") /\ UNCHANGED <<view, delay, stateFile, overlapped>>
        /\ instance' = [instance EXCEPT !.view = writer[w].holds]
    BY <1>9 DEF Update
  <2>2. /\ writer' \in [Writer -> Writers] /\ writer[w].at = "update" /\ writer'[w].at = "marshal"
        /\ writer'[w].holds = writer[w].holds
        /\ \A v \in Writer : v # w => writer'[v] = writer[v]
    BY <1>1, <2>1, TurnIs DEF WriterAt
  <2>3. /\ instance' \in [view : Nat, released : BOOLEAN] /\ instance'.released = instance.released
        /\ instance'.view = writer[w].holds
    BY <1>1, <1>2, <2>1 DEF ViewTypes
  <2>4. ViewTypes'
    BY <1>1, <1>2, <2>1, <2>2, <2>3 DEF ViewTypes
  <2>5. ASSUME Alone PROVE Alone'
    <3>1. \A v \in Writer : v # w => ~Writing(v) /\ ~Writing(v)'
      BY <2>2, <2>5 DEF Alone, OneWrites, Writing
    <3>2. OneWrites' /\ WritesForward' /\ FileFollows'
      BY <2>2, <3>1 DEF OneWrites, WritesForward, FileFollows, Writing
    <3>3. ASSUME instance'.view # view' PROVE OnItsWay'
      <4>1. writer[w].holds # view
        BY <2>1, <2>3, <3>3
      <4>2. WritesForward
        BY <2>5 DEF Alone
      <4>3. writer[w].holds >= instance.view
        BY <2>2, <4>2 DEF WritesForward
      <4>4. instance.view # view
        BY <1>1, <1>2, <4>1, <4>3 DEF ViewTypes
      <4>5. OnItsWay
        BY <2>5, <4>4 DEF Alone
      <4>6. QED  BY <2>1, <2>2, <4>1, <4>5 DEF OnItsWay
    <3>4. QED  BY <3>2, <3>3 DEF Alone
  <2>6. QED  BY <2>1, <2>3, <2>4, <2>5 DEF ViewInv
<1>10. ASSUME NEW w \in Writer, UpdateReleased(w) PROVE ViewInv'
  <2>1. /\ Turn(w, "update", Afterwards(w)) /\ UNCHANGED <<view, delay, instance, stateFile, overlapped>>
        /\ Afterwards(w) \in {"idle", "release"}
    BY <1>10 DEF UpdateReleased, Afterwards
  <2>2. instance'.released
    BY <1>10, Zenon DEF UpdateReleased
  <2>3. /\ writer' \in [Writer -> Writers] /\ writer'[w].holds = writer[w].holds
        /\ \A v \in Writer : v # w => writer'[v] = writer[v]
    BY <1>1, <2>1, TurnIs DEF WriterAt
  <2>4. ViewTypes'
    BY <1>1, <1>2, <2>1, <2>3 DEF ViewTypes
  <2>5. QED  BY <2>2, <2>4 DEF ViewInv
<1>11. ASSUME NEW w \in Writer, Marshal(w) PROVE ViewInv'
  <2>1. /\ Holding(w, "marshal", "rename", instance.view)
        /\ UNCHANGED <<view, delay, instance, stateFile, overlapped>>
    BY <1>11 DEF Marshal
  <2>2. instance.view \in Nat /\ instance.view <= view
    BY <1>1 DEF ViewTypes
  <2>3. /\ writer' \in [Writer -> Writers] /\ writer[w].at = "marshal"
        /\ writer'[w].at = "rename" /\ writer'[w].holds = instance.view
        /\ \A u \in Writer : u # w => writer'[u] = writer[u]
    BY <1>1, <2>1, <2>2, HoldingIs DEF WriterAt
  <2>4. ViewTypes'
    BY <1>1, <1>2, <2>1, <2>2, <2>3 DEF ViewTypes
  <2>5. Alone => OneWrites' /\ WritesForward' /\ FileFollows'
    BY <2>1, <2>3 DEF Alone, OneWrites, WritesForward, FileFollows, Writing
  <2>6. OnItsWay => OnItsWay'
    BY <2>1, <2>3 DEF OnItsWay
  <2>7. QED  BY <2>1, <2>4, <2>5, <2>6 DEF ViewInv, Alone
<1>12. ASSUME NEW w \in Writer, Rename(w) PROVE ViewInv'
  <2>1. /\ Turn(w, "rename", Afterwards(w)) /\ UNCHANGED <<view, delay, instance, overlapped>>
        /\ Afterwards(w) \in {"idle", "release"} /\ stateFile'.view = writer[w].holds
    BY <1>12 DEF Rename, Afterwards
  <2>2. /\ writer' \in [Writer -> Writers] /\ writer[w].at = "rename" /\ writer'[w].at = Afterwards(w)
        /\ writer'[w].holds = writer[w].holds
        /\ \A v \in Writer : v # w => writer'[v] = writer[v]
    BY <1>1, <2>1, TurnIs DEF WriterAt
  <2>3. ViewTypes'
    BY <1>1, <1>2, <2>1, <2>2 DEF ViewTypes
  <2>4. Alone => OneWrites' /\ WritesForward' /\ FileFollows'
    BY <2>1, <2>2 DEF Alone, OneWrites, WritesForward, FileFollows, Writing
  <2>5. OnItsWay => OnItsWay'
    BY <2>1, <2>2 DEF OnItsWay
  <2>6. QED  BY <2>1, <2>3, <2>4, <2>5 DEF ViewInv, Alone
<1>13. CASE Release
  <2>1. /\ Turn("stop", "release", "stopped") /\ UNCHANGED <<view, delay, overlapped>>
        /\ instance' = [instance EXCEPT !.released = TRUE]
    BY <1>13 DEF Release
  <2>2. /\ instance' \in [view : Nat, released : BOOLEAN] /\ instance'.view = instance.view
        /\ instance'.released
    BY <1>1, <2>1 DEF ViewTypes
  <2>3. /\ writer' \in [Writer -> Writers] /\ writer'["stop"].holds = writer["stop"].holds
        /\ \A v \in Writer : v # "stop" => writer'[v] = writer[v]
    BY <1>1, <2>1, TurnIs DEF WriterAt
  <2>4. ViewTypes'
    BY <1>1, <1>2, <2>1, <2>2, <2>3 DEF ViewTypes
  <2>5. QED  BY <2>2, <2>4 DEF ViewInv
<1>14. QED
  BY <1>3, <1>4, <1>5, <1>6, <1>7, <1>8, <1>9, <1>10, <1>11, <1>12, <1>13 DEF ViewNext

\* As long as flushes do not overlap, the newest view is in session.json when everything is
\* at rest: no flush that stops another goroutine's timer loses one, for any number of
\* goroutines (writeSessionState, flushSessionState, update).
THEOREM NewestIsPersisted == ViewSpec => []PersistedUnlessOverlapping
<1>1. ASSUME ViewInit PROVE ViewInv
  <2>1. writer \in [Writer -> Writers] /\ \A w \in Writer : writer[w].at = "idle" /\ writer[w].holds = 0
    BY <1>1 DEF ViewInit, Writers, WriterAt
  <2>2. ViewTypes
    <3>1. view = 0 /\ overlapped = FALSE /\ instance = [view |-> 0, released |-> FALSE]
      BY <1>1 DEF ViewInit
    <3>2. instance \in [view : Nat, released : BOOLEAN] /\ instance.view <= view
      BY <3>1
    <3>3. QED  BY <2>1, <3>1, <3>2 DEF ViewTypes
  <2>3. Alone
    BY <1>1, <2>1 DEF ViewInit, Alone, OneWrites, WritesForward, FileFollows, Writing
  <2>4. QED  BY <2>2, <2>3 DEF ViewInv
<1>2. ViewInv /\ UNCHANGED viewVars => ViewInv'
  BY DEF viewVars, ViewInv, ViewTypes, Alone, OneWrites, WritesForward, FileFollows, Writing, OnItsWay
<1>3. ViewInv /\ [ViewNext]_viewVars => ViewInv'
  BY <1>2, ViewStep
<1>4. ViewInv => PersistedUnlessOverlapping
  BY DEF ViewInv, Alone, FileFollows, OnItsWay, PersistedUnlessOverlapping, AtRest
<1>5. QED  BY <1>1, <1>3, <1>4, PTL DEF ViewSpec

-----------------------------------------------------------------------------
(* ConfigStore: from the first completed save on the backup is a configuration that *)
(* somebody saved, for only SaveBackup writes it.                                    *)

Backed == saved # {} => backup.kind = "saved" /\ backup.config \in saved

\* All that is needed of the types: a process is somewhere, with what it found and holds.
Procs == /\ proc = [p \in Process |-> proc[p]]
         /\ \A p \in Process : proc[p] = [at |-> proc[p].at, found |-> proc[p].found,
                                          config |-> proc[p].config]

ConfigInv == Procs /\ Backed

\* A process goes on with what it holds, and the others stay.
LEMMA StepIs ==
    ASSUME Procs, NEW p \in Process, NEW from, NEW to, Step(p, from, to)
    PROVE  /\ Procs'
           /\ proc[p].at = from /\ proc'[p].at = to /\ proc'[p].config = proc[p].config
           /\ \A q \in Process : q # p => proc'[q] = proc[q]
<1>1. proc[p] = [at |-> proc[p].at, found |-> proc[p].found, config |-> proc[p].config]
  BY DEF Procs
<1>2. [proc[p] EXCEPT !.at = to] = [at |-> to, found |-> proc[p].found, config |-> proc[p].config]
  BY <1>1
<1>3. proc' = [proc EXCEPT ![p] = [at |-> to, found |-> proc[p].found, config |-> proc[p].config]]
  BY <1>2 DEF Step
<1>4. QED  BY <1>3 DEF Procs, Step

\* What it does and holds is replaced.
LEMMA BecomesIs ==
    ASSUME Procs, NEW p \in Process, NEW at, NEW found, NEW config,
           proc' = [proc EXCEPT ![p] = [at |-> at, found |-> found, config |-> config]]
    PROVE  /\ Procs'
           /\ proc'[p].at = at /\ proc'[p].config = config
           /\ \A q \in Process : q # p => proc'[q] = proc[q]
  BY DEF Procs

\* Only the second half of a save matters to the invariant.
LEMMA NoSave ==
    ASSUME ConfigInv, Procs', UNCHANGED <<backup, saved>>
    PROVE  ConfigInv'
  BY DEF ConfigInv, Backed

Recovers(p) ==
    saved # {} /\ Recovered(p) =>
        \E c \in saved : proc'[p].config = [c EXCEPT !.named = @ \/ proc[p].config.named]

LEMMA ConfigStep ==
    ASSUME ConfigInv, ConfigNext
    PROVE  ConfigInv' /\ \A p \in Process : Recovers(p)
<1>1. Procs /\ Backed
  BY DEF ConfigInv
<1>2. ASSUME NEW p \in Process, \A q \in Process : q # p => proc'[q] = proc[q], proc[p].at # "recover"
      PROVE  \A q \in Process : Recovers(q)
  BY <1>2 DEF Recovers, Recovered
<1>3. ASSUME NEW p \in Process, Load(p) PROVE ConfigInv' /\ \A q \in Process : Recovers(q)
  <2> DEFINE at == CASE primary = Missing -> "migrate"
                     [] primary.kind = "damaged" -> "recover"
                     [] OTHER -> "loaded"
  <2>1. /\ proc' = [proc EXCEPT ![p] = [at |-> at, found |-> Missing,
              config |-> IF primary = Missing THEN Default ELSE Over(Default, primary)]]
        /\ UNCHANGED <<backup, saved>> /\ proc[p].at = "idle"
    BY <1>3 DEF Load
  <2> HIDE DEF at
  <2>3. Procs' /\ proc'[p].at = at /\ \A q \in Process : q # p => proc'[q] = proc[q]
    BY <1>1, <2>1, BecomesIs
  <2>4. QED  BY <1>2, <2>1, <2>3, NoSave
<1>4. ASSUME NEW p \in Process, ReadLegacy(p) PROVE ConfigInv' /\ \A q \in Process : Recovers(q)
  <2> DEFINE at == IF legacy = Missing THEN "loaded" ELSE "migrateWrite"
  <2>1. /\ proc' = [proc EXCEPT ![p] = [at |-> at, found |-> legacy,
              config |-> IF legacy = Missing THEN Default ELSE Over(Default, legacy)]]
        /\ UNCHANGED <<backup, saved>> /\ proc[p].at = "migrate"
    BY <1>4 DEF ReadLegacy
  <2> HIDE DEF at
  <2>3. Procs' /\ proc'[p].at = at /\ \A q \in Process : q # p => proc'[q] = proc[q]
    BY <1>1, <2>1, BecomesIs
  <2>4. QED  BY <1>2, <2>1, <2>3, NoSave
<1>5. ASSUME NEW p \in Process, CopyLegacy(p) PROVE ConfigInv' /\ \A q \in Process : Recovers(q)
  <2>1. /\ proc' = [proc EXCEPT ![p] = [at |-> "loaded", found |-> Missing, config |-> proc[p].config]]
        /\ UNCHANGED <<backup, saved>> /\ proc[p].at = "migrateWrite"
    BY <1>5 DEF CopyLegacy, PutBack
  <2>2. Procs' /\ proc'[p].at = "loaded" /\ \A q \in Process : q # p => proc'[q] = proc[q]
    BY <1>1, <2>1, BecomesIs
  <2>3. QED  BY <1>2, <2>1, <2>2, NoSave
<1>6. ASSUME NEW p \in Process, Recover(p) PROVE ConfigInv' /\ \A q \in Process : Recovers(q)
  <2>1. /\ proc' = [proc EXCEPT ![p] = [at |-> "loaded", found |-> Missing, config |-> proc[p].config]]
        /\ UNCHANGED <<backup, saved>> /\ proc[p].at = "recoverWrite"
    BY <1>6 DEF Recover, PutBack
  <2>2. Procs' /\ proc'[p].at = "loaded" /\ \A q \in Process : q # p => proc'[q] = proc[q]
    BY <1>1, <2>1, BecomesIs
  <2>3. QED  BY <1>2, <2>1, <2>2, NoSave
<1>7. ASSUME NEW p \in Process, ReadBackup(p) PROVE ConfigInv' /\ \A q \in Process : Recovers(q)
  <2>1. UNCHANGED <<backup, saved>> /\ proc[p].at = "recover"
    BY <1>7 DEF ReadBackup
  <2>2. CASE backup.kind = "saved"
    <3> DEFINE config == Over(proc[p].config, backup)
    <3>1. config = [backup.config EXCEPT !.named = @ \/ proc[p].config.named]
      BY <2>2 DEF Over
    <3>2. proc' = [proc EXCEPT ![p] = [at |-> "recoverWrite", found |-> backup, config |-> config]]
      BY <1>7, <2>2 DEF ReadBackup
    <3> HIDE DEF config
    <3>3. /\ Procs' /\ proc'[p].at = "recoverWrite" /\ proc'[p].config = config
          /\ \A q \in Process : q # p => proc'[q] = proc[q]
      BY <1>1, <3>2 DEF Procs
    <3>4. ASSUME NEW q \in Process, saved # {}, Recovered(q)
          PROVE  \E c \in saved : proc'[q].config = [c EXCEPT !.named = @ \/ proc[q].config.named]
      <4>1. q = p /\ backup.config \in saved
        BY <1>1, <3>3, <3>4 DEF Recovered, Backed
      <4>2. QED  BY <3>1, <3>3, <4>1
    <3>5. QED  BY <2>1, <3>3, <3>4, NoSave DEF Recovers
  <2>3. CASE backup.kind # "saved"
    <3>1. proc' = [proc EXCEPT ![p] = [at |-> "loaded", found |-> Missing, config |-> Default]] /\ saved = {}
      BY <1>1, <1>7, <2>3 DEF ReadBackup, Backed
    <3>2. Procs' /\ proc'[p].at = "loaded" /\ \A q \in Process : q # p => proc'[q] = proc[q]
      BY <1>1, <3>1, BecomesIs
    <3>3. QED  BY <2>1, <3>1, <3>2, NoSave DEF Recovers
  <2>4. QED  BY <2>2, <2>3
<1>8. ASSUME NEW p \in Process, Alter(p) PROVE ConfigInv' /\ \A q \in Process : Recovers(q)
  <2>1. PICK b \in BOOLEAN : proc' = [proc EXCEPT ![p].config = [edit |-> edits', named |-> b]]
    BY <1>8 DEF Alter
  <2> DEFINE config == [edit |-> edits', named |-> b]
  <2>2. proc[p] = [at |-> proc[p].at, found |-> proc[p].found, config |-> proc[p].config]
    BY <1>1 DEF Procs
  <2> HIDE DEF config
  <2>3. [proc[p] EXCEPT !.config = config] = [at |-> proc[p].at, found |-> proc[p].found, config |-> config]
    BY <2>2
  <2>4. proc' = [proc EXCEPT ![p] = [at |-> proc[p].at, found |-> proc[p].found, config |-> config]]
    BY <2>1, <2>3 DEF config
  <2>5. UNCHANGED <<backup, saved>> /\ proc[p].at = "loaded"
    BY <1>8 DEF Alter
  <2>6. Procs' /\ proc'[p].at = "loaded" /\ \A q \in Process : q # p => proc'[q] = proc[q]
    BY <1>1, <2>4, <2>5, BecomesIs
  <2>7. QED  BY <1>2, <2>5, <2>6, NoSave
<1>9. ASSUME NEW p \in Process, SavePrimary(p) PROVE ConfigInv' /\ \A q \in Process : Recovers(q)
  <2>1. Step(p, "loaded", "backup") /\ UNCHANGED <<backup, saved>>
    BY <1>9 DEF SavePrimary
  <2>2. /\ Procs' /\ proc[p].at = "loaded" /\ proc'[p].config = proc[p].config
        /\ \A q \in Process : q # p => proc'[q] = proc[q]
    BY <1>1, <2>1, StepIs
  <2>3. QED  BY <1>2, <2>1, <2>2, NoSave
<1>10. ASSUME NEW p \in Process, SaveBackup(p) PROVE ConfigInv' /\ \A q \in Process : Recovers(q)
  <2>1. /\ Step(p, "backup", "loaded") /\ backup' = Saved(proc[p].config)
        /\ saved' = saved \cup {proc[p].config}
    BY <1>10 DEF SaveBackup
  <2>2. /\ Procs' /\ proc[p].at = "backup" /\ proc'[p].at = "loaded"
        /\ \A q \in Process : q # p => proc'[q] = proc[q]
    BY <1>1, <2>1, StepIs
  <2>3. Backed'
    BY <2>1 DEF Backed, Saved
  <2>4. QED  BY <1>2, <2>2, <2>3 DEF ConfigInv
<1>11. ASSUME NEW p \in Process, End(p) PROVE ConfigInv' /\ \A q \in Process : Recovers(q)
  <2>1. /\ proc' = [proc EXCEPT ![p] = [at |-> "idle", found |-> Missing, config |-> Default]]
        /\ UNCHANGED <<backup, saved>>
    BY <1>11 DEF End
  <2>2. Procs' /\ proc'[p].at = "idle" /\ \A q \in Process : q # p => proc'[q] = proc[q]
    BY <1>1, <2>1, BecomesIs
  <2>3. QED  BY <1>1, <2>1, <2>2, NoSave DEF Recovers, Recovered
<1>12. CASE Damage
  BY <1>1, <1>12 DEF Damage, ConfigInv, Procs, Backed, Recovers, Recovered
<1>13. QED
  BY <1>3, <1>4, <1>5, <1>6, <1>7, <1>8, <1>9, <1>10, <1>11, <1>12 DEF ConfigNext

\* Whoever saves, ends or recovers meanwhile, a process that finds the file damaged after a
\* completed save gets a configuration that somebody saved, but for a nickname left in what is
\* damaged (loadConfig, saveConfig).
THEOREM DamageGetsTheBackup == ConfigSpec => DamageIsRecovered
<1>1. ConfigInit => ConfigInv
  BY DEF ConfigInit, ConfigInv, Procs, Backed
<1>2. ConfigInv /\ UNCHANGED configVars => ConfigInv'
  BY DEF configVars, ConfigInv, Procs, Backed
<1>3. ConfigInv /\ [ConfigNext]_configVars => ConfigInv'
  BY <1>2, ConfigStep
<1>4. ConfigInv /\ [ConfigNext]_configVars =>
        [\A p \in Process : saved # {} /\ Recovered(p) =>
           \E c \in saved : proc'[p].config = [c EXCEPT !.named = @ \/ proc[p].config.named]]_configVars
  BY ConfigStep DEF Recovers
<1>5. QED  BY <1>1, <1>3, <1>4, PTL DEF ConfigSpec, DamageIsRecovered

-----------------------------------------------------------------------------
(* ConfigRules: what normalizeConfig gives is what it leaves alone.                *)

IsConfig(c) ==
    /\ c = [f \in Field |-> c[f]]
    /\ \A f \in Switches : c[f] \in BOOLEAN
    /\ \A f \in Numbers : c[f] \in Int
    /\ c["server"] \in Servers

\* In range and, on the public server, with its batches; shared and heard.
IsNormal(c) ==
    /\ IsConfig(c) /\ c["volumeConfigured"] = TRUE
    /\ c["volume"] \in 0 .. 100 /\ c["density"] \in 15 .. 100
    /\ c["spatial.shuffleMinutes"] \in 1 .. 60 /\ c["solo.people"] \in 1 .. 12
    /\ c["batch.ms"] # 0 /\ (c["server"] = "public" => c["batch.ms"] = 500)
    /\ Audible(c) /\ Shares(c)

\* Field by field.
FieldsOf(d, c) ==
    /\ d = [f \in Field |-> d[f]]
    /\ d["volume"] = NormalVolume(c) /\ d["volumeConfigured"] = TRUE
    /\ d["density"] = Clamped(OrDefault(c["density"], 80), 15, 100)
    /\ d["spatial.shuffleMinutes"] = Clamped(OrDefault(c["spatial.shuffleMinutes"], 10), 1, 60)
    /\ d["solo.people"] = Clamped(OrDefault(c["solo.people"], 4), 1, 12)
    /\ d["batch.ms"] = NormalBatch(c)
    /\ d["share.keyboard"] = NormalKeyboard(c) /\ d["share.mouse"] = NormalMouse(c)
    /\ d["hear.keyboard"] = (c["hear.keyboard"] \/ Deaf(c))
    /\ d["hear.mouse"] = (c["hear.mouse"] \/ Deaf(c))
    /\ d["muted"] = c["muted"] /\ d["server"] = c["server"]

LEMMA NormalFields ==
    ASSUME NEW c, IsConfig(c)
    PROVE  FieldsOf(NormalConfig(c), c)
<1> PICK d : d = NormalConfig(c)
  OBVIOUS
<1>1. d = [f \in Field |-> d[f]]
  BY DEF NormalConfig, IsConfig
<1> USE DEF NormalConfig, IsConfig, Field, Switches, Numbers
<1>2. d["volume"] = NormalVolume(c) /\ d["volumeConfigured"] = TRUE
  OBVIOUS
<1>3. d["density"] = Clamped(OrDefault(c["density"], 80), 15, 100)
  OBVIOUS
<1>4. d["spatial.shuffleMinutes"] = Clamped(OrDefault(c["spatial.shuffleMinutes"], 10), 1, 60)
  OBVIOUS
<1>5. d["solo.people"] = Clamped(OrDefault(c["solo.people"], 4), 1, 12) /\ d["batch.ms"] = NormalBatch(c)
  OBVIOUS
<1>6. d["share.keyboard"] = NormalKeyboard(c) /\ d["share.mouse"] = NormalMouse(c)
  OBVIOUS
<1>7. d["hear.keyboard"] = (c["hear.keyboard"] \/ Deaf(c))
  OBVIOUS
<1>8. d["hear.mouse"] = (c["hear.mouse"] \/ Deaf(c))
  OBVIOUS
<1>9. d["muted"] = c["muted"] /\ d["server"] = c["server"]
  OBVIOUS
<1> HIDE DEF NormalConfig, IsConfig, Field, Switches, Numbers
<1>10. QED  BY <1>1, <1>2, <1>3, <1>4, <1>5, <1>6, <1>7, <1>8, <1>9 DEF FieldsOf

LEMMA SameFields ==
    ASSUME NEW c, NEW d, IsConfig(c), d = [f \in Field |-> d[f]], \A f \in Field : d[f] = c[f]
    PROVE  d = c
BY DEF IsConfig

LEMMA NormalIsNormal ==
    ASSUME NEW c, IsConfig(c)
    PROVE  IsNormal(NormalConfig(c))
<1>d. PICK d : d = NormalConfig(c) /\ FieldsOf(d, c)
  BY NormalFields DEF IsNormal
<1>1. /\ c["density"] \in Int /\ c["spatial.shuffleMinutes"] \in Int /\ c["solo.people"] \in Int
      /\ c["volume"] \in Int /\ c["batch.ms"] \in Int
  BY DEF IsConfig, Numbers
<1>2. \A f \in {"share.keyboard", "share.mouse", "hear.keyboard", "hear.mouse", "muted"} : c[f] \in BOOLEAN
  BY DEF IsConfig, Switches
<1>3. d["volume"] \in 0 .. 100
  <2>1. Clamped(c["volume"], 0, 100) \in 0 .. 100
    BY <1>1 DEF Clamped
  <2>2. QED  BY <2>1, <1>d DEF FieldsOf, NormalVolume
<1>3a. /\ d["density"] \in 15 .. 100 /\ d["spatial.shuffleMinutes"] \in 1 .. 60
       /\ d["solo.people"] \in 1 .. 12
  <2>1. /\ OrDefault(c["density"], 80) \in Int /\ OrDefault(c["spatial.shuffleMinutes"], 10) \in Int
        /\ OrDefault(c["solo.people"], 4) \in Int
    BY <1>1 DEF OrDefault
  <2>2. /\ Clamped(OrDefault(c["density"], 80), 15, 100) \in 15 .. 100
        /\ Clamped(OrDefault(c["spatial.shuffleMinutes"], 10), 1, 60) \in 1 .. 60
        /\ Clamped(OrDefault(c["solo.people"], 4), 1, 12) \in 1 .. 12
    BY <2>1 DEF Clamped
  <2>3. QED  BY <2>2, <1>d DEF FieldsOf
<1>4. d["batch.ms"] \in Int /\ d["batch.ms"] # 0 /\ (d["server"] = "public" => d["batch.ms"] = 500)
  <2>1. d["batch.ms"] = NormalBatch(c) /\ d["server"] = c["server"]
    BY <1>d DEF FieldsOf
  <2>2. QED  BY <1>1, <2>1 DEF NormalBatch, OrDefault
<1>5. Audible(d) /\ d["hear.keyboard"] \in BOOLEAN /\ d["hear.mouse"] \in BOOLEAN
  BY <1>2, <1>d DEF FieldsOf, Audible, Deaf
<1>6. Shares(d) /\ d["share.keyboard"] \in BOOLEAN /\ d["share.mouse"] \in BOOLEAN
  BY <1>2, <1>d DEF FieldsOf, Shares, NormalKeyboard, NormalMouse
<1>7. d["volumeConfigured"] = TRUE /\ d["muted"] \in BOOLEAN /\ d["server"] \in Servers
  BY <1>2, <1>d DEF FieldsOf, IsConfig
<1>8. d = [f \in Field |-> d[f]]
  BY <1>d DEF FieldsOf
<1>9. IsConfig(d)
  <2>1. \A f \in Switches : d[f] \in BOOLEAN
    BY <1>5, <1>6, <1>7 DEF Switches
  <2>2. \A f \in Numbers : d[f] \in Int
    BY <1>3, <1>3a, <1>4 DEF Numbers
  <2>3. QED  BY <1>7, <1>8, <2>1, <2>2 DEF IsConfig
<1>10. IsNormal(d)
  BY <1>3, <1>3a, <1>4, <1>5, <1>6, <1>7, <1>9 DEF IsNormal
<1>11. QED  BY <1>10, <1>d

LEMMA NormalStays ==
    ASSUME NEW c, IsNormal(c)
    PROVE  NormalConfig(c) = c
<1>d. PICK d : d = NormalConfig(c) /\ FieldsOf(d, c)
  BY NormalFields DEF IsNormal
<1>1. IsConfig(c) /\ \A f \in Switches : c[f] \in BOOLEAN
  BY DEF IsNormal, IsConfig
<1>2. d["volume"] = c["volume"] /\ d["volumeConfigured"] = c["volumeConfigured"]
  <2>1. c["volume"] \in 0 .. 100 /\ c["volume"] \in Int /\ c["volumeConfigured"] = TRUE
    BY DEF IsNormal
  <2>2. Clamped(c["volume"], 0, 100) = c["volume"]
    BY <2>1 DEF Clamped
  <2>3. QED  BY <1>1, <2>1, <2>2, <1>d DEF FieldsOf, NormalVolume
<1>3. /\ d["density"] = c["density"] /\ d["spatial.shuffleMinutes"] = c["spatial.shuffleMinutes"]
      /\ d["solo.people"] = c["solo.people"]
  <2>1. /\ c["density"] \in 15 .. 100 /\ c["spatial.shuffleMinutes"] \in 1 .. 60
        /\ c["solo.people"] \in 1 .. 12
    BY DEF IsNormal
  <2>2. /\ OrDefault(c["density"], 80) = c["density"] /\ OrDefault(c["solo.people"], 4) = c["solo.people"]
        /\ OrDefault(c["spatial.shuffleMinutes"], 10) = c["spatial.shuffleMinutes"]
    BY <2>1 DEF OrDefault
  <2>3. /\ Clamped(c["density"], 15, 100) = c["density"] /\ Clamped(c["solo.people"], 1, 12) = c["solo.people"]
        /\ Clamped(c["spatial.shuffleMinutes"], 1, 60) = c["spatial.shuffleMinutes"]
    BY <2>1 DEF Clamped
  <2>4. QED  BY <1>1, <2>2, <2>3, <1>d DEF FieldsOf
<1>4. d["batch.ms"] = c["batch.ms"] /\ d["server"] = c["server"] /\ d["muted"] = c["muted"]
  BY <1>1, <1>d DEF FieldsOf, IsNormal, NormalBatch, OrDefault
<1>5. d["share.keyboard"] = c["share.keyboard"] /\ d["share.mouse"] = c["share.mouse"]
  <2>1. c["share.keyboard"] \in BOOLEAN /\ c["share.mouse"] \in BOOLEAN /\ Shares(c)
    BY <1>1 DEF IsNormal, Switches
  <2>2. NormalKeyboard(c) = c["share.keyboard"] /\ NormalMouse(c) = c["share.mouse"]
    BY <2>1 DEF Shares, NormalKeyboard, NormalMouse
  <2>3. QED  BY <1>1, <2>2, <1>d DEF FieldsOf
<1>6. d["hear.keyboard"] = c["hear.keyboard"] /\ d["hear.mouse"] = c["hear.mouse"]
  <2>1. c["hear.keyboard"] \in BOOLEAN /\ c["hear.mouse"] \in BOOLEAN /\ ~Deaf(c)
    BY <1>1 DEF IsNormal, Audible, Switches
  <2>2. (c["hear.keyboard"] \/ Deaf(c)) = c["hear.keyboard"] /\ (c["hear.mouse"] \/ Deaf(c)) = c["hear.mouse"]
    BY <2>1
  <2>3. QED  BY <1>1, <2>2, <1>d DEF FieldsOf
<1>7. d = [f \in Field |-> d[f]]
  BY <1>1, <1>d DEF FieldsOf
<1>8. \A f \in Field : d[f] = c[f]
  BY <1>2, <1>3, <1>4, <1>5, <1>6 DEF Field, Switches, Numbers
<1>9. QED  BY <1>1, <1>7, <1>8, <1>d, SameFields

\* What normalizeConfig leaves alone, field by field.
LEMMA FieldsStay ==
    ASSUME NEW a, IsConfig(a), a["volumeConfigured"] = TRUE, a["volume"] \in 0 .. 100,
           a["density"] \in 15 .. 100, a["solo.people"] \in 1 .. 12
    PROVE  LET d == NormalConfig(a)
           IN  /\ \A f \in {"volume", "volumeConfigured", "density", "solo.people", "muted", "server"} : d[f] = a[f]
               /\ Shares(a) => d["share.keyboard"] = a["share.keyboard"] /\ d["share.mouse"] = a["share.mouse"]
               /\ Audible(a) => d["hear.keyboard"] = a["hear.keyboard"] /\ d["hear.mouse"] = a["hear.mouse"]
               /\ a["spatial.shuffleMinutes"] \in 1 .. 60 => d["spatial.shuffleMinutes"] = a["spatial.shuffleMinutes"]
               /\ d["batch.ms"] = NormalBatch(a)
<1>d. PICK d : d = NormalConfig(a) /\ FieldsOf(d, a)
  BY NormalFields
<1>0. \A f \in {"share.keyboard", "share.mouse", "hear.keyboard", "hear.mouse"} : a[f] \in BOOLEAN
  BY DEF IsConfig, Switches
<1>1. d["volume"] = a["volume"] /\ d["volumeConfigured"] = a["volumeConfigured"]
  <2>1. Clamped(a["volume"], 0, 100) = a["volume"]
    BY DEF Clamped
  <2>2. QED  BY <1>d, <2>1 DEF FieldsOf, NormalVolume
<1>2. d["density"] = a["density"] /\ d["solo.people"] = a["solo.people"]
  <2>1. OrDefault(a["density"], 80) = a["density"] /\ OrDefault(a["solo.people"], 4) = a["solo.people"]
    BY DEF OrDefault
  <2>2. Clamped(a["density"], 15, 100) = a["density"] /\ Clamped(a["solo.people"], 1, 12) = a["solo.people"]
    BY DEF Clamped
  <2>3. QED  BY <1>d, <2>1, <2>2 DEF FieldsOf
<1>3. d["muted"] = a["muted"] /\ d["server"] = a["server"] /\ d["batch.ms"] = NormalBatch(a)
  BY <1>d DEF FieldsOf
<1>4. ASSUME Shares(a) PROVE d["share.keyboard"] = a["share.keyboard"] /\ d["share.mouse"] = a["share.mouse"]
  <2>1. NormalKeyboard(a) = a["share.keyboard"] /\ NormalMouse(a) = a["share.mouse"]
    BY <1>0, <1>4 DEF Shares, NormalKeyboard, NormalMouse
  <2>2. QED  BY <1>d, <2>1 DEF FieldsOf
<1>5. ASSUME Audible(a) PROVE d["hear.keyboard"] = a["hear.keyboard"] /\ d["hear.mouse"] = a["hear.mouse"]
  BY <1>0, <1>5, <1>d DEF FieldsOf, Audible
<1>6. ASSUME a["spatial.shuffleMinutes"] \in 1 .. 60
      PROVE  d["spatial.shuffleMinutes"] = a["spatial.shuffleMinutes"]
  <2>1. OrDefault(a["spatial.shuffleMinutes"], 10) = a["spatial.shuffleMinutes"]
    BY <1>6 DEF OrDefault
  <2>2. Clamped(a["spatial.shuffleMinutes"], 1, 60) = a["spatial.shuffleMinutes"]
    BY <1>6 DEF Clamped
  <2>3. QED  BY <1>d, <2>1, <2>2 DEF FieldsOf
<1>7. QED  BY <1>d, <1>1, <1>2, <1>3, <1>4, <1>5, <1>6

\* A load gives a normal configuration: the file's but for the server and its batch window.
LEMMA LoadedIsNormal ==
    ASSUME NEW s, IsConfig(s), NEW env \in Environment
    PROVE  LET c == NormalConfig(s)
               l == Loaded(s, env)
           IN  /\ IsNormal(c) /\ IsNormal(l)
               /\ \A f \in Field \ {"server", "batch.ms"} : l[f] = c[f]
               /\ l["server"] = ServerFor(c, env)
               /\ l["batch.ms"] = IF ServerFor(c, env) = "public" THEN 500 ELSE c["batch.ms"]
<1>1. PICK c : c = NormalConfig(s) /\ IsNormal(c)
  BY NormalIsNormal
<1>2. PICK r : /\ r = Renamed(c) /\ IsConfig(r) /\ \A f \in Field \ {"server"} : r[f] = c[f]
               /\ r["server"] \in Servers
  <2>1. IsConfig(c)
    BY <1>1 DEF IsNormal
  <2>2. CASE c["server"] = "legacy"
    <3>1. PICK r : r = [c EXCEPT !["server"] = "public"]
      OBVIOUS
    <3>2. /\ r = [f \in Field |-> r[f]] /\ r["server"] = "public"
          /\ \A f \in Field \ {"server"} : r[f] = c[f]
      BY <2>1, <3>1 DEF IsConfig, Field
    <3>3. IsConfig(r)
      BY <2>1, <3>2 DEF IsConfig, Field, Switches, Numbers, Servers
    <3>4. QED  BY <2>2, <3>1, <3>2, <3>3 DEF Renamed, Servers
  <2>3. CASE c["server"] # "legacy"
    BY <2>1, <2>3 DEF Renamed, IsConfig
  <2>4. QED  BY <2>2, <2>3
<1>3. PICK server : server = ServerFor(c, env) /\ server \in Servers
  BY <1>2 DEF ServerFor, Environment, Servers
<1>4. PICK l : l = Loaded(s, env)
  OBVIOUS
<1>5. l = [r EXCEPT !["server"] = server, !["batch.ms"] = IF server = "public" THEN 500 ELSE @]
  <2>1. l = Overridden(r, env)
    BY <1>1, <1>2, <1>4 DEF Loaded
  <2>2. server = IF env = "unset" THEN r["server"] ELSE env
    BY <1>2, <1>3 DEF ServerFor
  <2>3. QED  BY <2>1, <2>2 DEF Overridden
<1>6. /\ l = [f \in Field |-> l[f]] /\ \A f \in Field \ {"server", "batch.ms"} : l[f] = c[f]
      /\ l["server"] = server /\ l["batch.ms"] = IF server = "public" THEN 500 ELSE c["batch.ms"]
  BY <1>2, <1>5 DEF IsConfig, Field, Numbers
<1>7. IsConfig(l)
  <2>1. \A f \in Switches : f \in Field /\ f \notin {"server", "batch.ms"} /\ c[f] \in BOOLEAN
    BY <1>1 DEF IsNormal, IsConfig, Field, Switches
  <2>2. \A f \in Numbers : l[f] \in {c[f], 500} /\ c[f] \in Int
    BY <1>1, <1>6 DEF IsNormal, IsConfig, Field, Numbers
  <2>3. QED  BY <1>3, <1>6, <2>1, <2>2 DEF IsConfig
<1>8. IsNormal(l)
  BY <1>1, <1>6, <1>7 DEF IsNormal, Audible, Deaf, Shares, Field, Switches, Numbers
<1>9. QED  BY <1>1, <1>3, <1>4, <1>6, <1>8

\* Some settings of a loaded configuration are given other values, in range but for the minutes.
LEMMA ChangesAreKept ==
    ASSUME stored # NoFile, IsConfig(stored), NEW env \in Environment,
           NEW ks \in SUBSET Field, NEW said, NEW a, IsConfig(a),
           a["volumeConfigured"] = TRUE, a["volume"] \in 0 .. 100,
           a["density"] \in 15 .. 100, a["solo.people"] \in 1 .. 12,
           "volumeConfigured" \notin ks,
           \A f \in Field \ (ks \cup {"batch.ms"}) : a[f] = Loaded(stored, env)[f],
           "batch.ms" \notin ks =>
               a["batch.ms"] = IF "server" \in ks /\ a["server"] = "public" THEN 500 ELSE Loaded(stored, env)["batch.ms"],
           \A f \in ks \ TurnedOn(a) : NormalConfig(a)[f] = said[f]
    PROVE  Keeps(a, ks, said, env)
<1>1. PICK c, l : /\ c = NormalConfig(stored) /\ l = Loaded(stored, env) /\ IsNormal(c) /\ IsNormal(l)
                  /\ \A f \in Field \ {"server", "batch.ms"} : l[f] = c[f]
                  /\ l["server"] = ServerFor(c, env)
                  /\ l["batch.ms"] = IF ServerFor(c, env) = "public" THEN 500 ELSE c["batch.ms"]
  BY LoadedIsNormal
<1>2. PICK d : d = NormalConfig(a) /\ IsNormal(d)
  BY NormalIsNormal
<1>3. NormalConfig(d) = d /\ Shares(d) /\ Audible(d)
  BY <1>2, NormalStays DEF IsNormal
<1>4. /\ \A f \in {"volume", "volumeConfigured", "density", "solo.people", "muted", "server"} : d[f] = a[f]
      /\ Shares(a) => d["share.keyboard"] = a["share.keyboard"] /\ d["share.mouse"] = a["share.mouse"]
      /\ Audible(a) => d["hear.keyboard"] = a["hear.keyboard"] /\ d["hear.mouse"] = a["hear.mouse"]
      /\ a["spatial.shuffleMinutes"] \in 1 .. 60 => d["spatial.shuffleMinutes"] = a["spatial.shuffleMinutes"]
      /\ d["batch.ms"] = NormalBatch(a)
  BY <1>2, FieldsStay
<1>5. ASSUME NEW f \in Field \ (ks \cup TurnedOn(a) \cup {"server", "batch.ms"}) PROVE d[f] = c[f]
  <2>1. a[f] = c[f]
    BY <1>1, <1>5
  <2>2. CASE f \in {"volume", "volumeConfigured", "density", "solo.people", "muted"}
    BY <1>4, <2>1, <2>2
  <2>3. CASE f = "spatial.shuffleMinutes"
    BY <1>1, <1>4, <2>1, <2>3 DEF IsNormal
  <2>4. CASE f \in {"share.keyboard", "share.mouse"}
    BY <1>4, <1>5, <2>1, <2>4 DEF TurnedOn
  <2>5. CASE f \in {"hear.keyboard", "hear.mouse"}
    BY <1>4, <1>5, <2>1, <2>5 DEF TurnedOn
  <2>6. QED  BY <1>5, <2>2, <2>3, <2>4, <2>5 DEF Field, Switches, Numbers
<1>6. "server" \notin ks => d["server"] = ServerFor(c, env)
  BY <1>1, <1>4 DEF Field
<1>7. ASSUME "batch.ms" \notin ks
      PROVE  d["batch.ms"] = IF "public" \in {ServerFor(c, env), d["server"]} THEN 500 ELSE c["batch.ms"]
  <2>1. c["batch.ms"] \in Int /\ c["batch.ms"] # 0
    BY <1>1 DEF IsNormal, IsConfig, Numbers
  <2>2. d["server"] = a["server"] /\ d["batch.ms"] = IF a["server"] = "public" THEN 500 ELSE OrDefault(a["batch.ms"], 500)
    BY <1>4 DEF NormalBatch
  <2>3. CASE a["server"] = "public"
    BY <2>2, <2>3
  <2>4. CASE a["server"] # "public"
    BY <1>1, <1>7, <2>1, <2>2, <2>4 DEF OrDefault
  <2>5. QED  BY <2>3, <2>4
<1>8. QED  BY <1>1, <1>2, <1>3, <1>5, <1>6, <1>7 DEF Keeps

\* One setting of a normal configuration.
AppliedAs(a, c, k, v) ==
    /\ IsConfig(a) /\ a["volumeConfigured"] = TRUE
    /\ a[k] = IF k = "spatial.shuffleMinutes" THEN v ELSE Meant(k, v)
    /\ \A f \in Field \ {k, "batch.ms"} : a[f] = c[f]
    /\ k # "batch.ms" => a["batch.ms"] = IF k = "server" /\ v = "public" THEN 500 ELSE c["batch.ms"]

LEMMA AppliedFields ==
    ASSUME NEW c, IsNormal(c), NEW k \in Keys, NEW v \in Values(k)
    PROVE  AppliedAs(Applied(c, k, v), c, k, v)
<1> SUFFICES ASSUME NEW a, a = Applied(c, k, v) PROVE AppliedAs(a, c, k, v)
  OBVIOUS
<1> USE DEF AppliedAs
<1>0. IsConfig(c) /\ c = [f \in Field |-> c[f]] /\ c["volumeConfigured"] = TRUE
  BY DEF IsNormal, IsConfig
<1>v. /\ k \in Switches => v \in BOOLEAN
      /\ k \in Numbers => v \in Int /\ Meant(k, v) \in Int
      /\ k = "server" => v \in Servers
  BY LevelAssumption DEF Keys, Values, Switches, Numbers, Meant, Clamped, OrDefault
<1>1. CASE k \in Switches
  <2>1. a = [c EXCEPT ![k] = v] /\ k # "volumeConfigured" /\ Meant(k, v) = v
    BY <1>1 DEF Applied, Meant, Switches, Keys
  <2>2. /\ a = [f \in Field |-> a[f]] /\ a[k] = v /\ \A f \in Field \ {k} : a[f] = c[f]
    BY <1>0, <1>1, <2>1 DEF Field
  <2>3. IsConfig(a)
    BY <1>0, <1>1, <1>v, <2>2 DEF IsConfig, Field, Switches, Numbers
  <2>4. QED  BY <1>0, <1>1, <2>1, <2>2, <2>3 DEF Field, Switches, Numbers
<1>2. CASE k = "server"
  <2>1. a = [c EXCEPT !["server"] = v, !["batch.ms"] = IF v = "public" THEN 500 ELSE @] /\ Meant(k, v) = v
    BY <1>2 DEF Applied, Meant
  <2>2. /\ a = [f \in Field |-> a[f]] /\ \A f \in Field \ {"server", "batch.ms"} : a[f] = c[f]
        /\ a["server"] = v /\ a["batch.ms"] = IF v = "public" THEN 500 ELSE c["batch.ms"]
    BY <1>0, <2>1 DEF Field, Numbers
  <2>3. \A f \in Switches : a[f] = c[f]
    BY <2>2 DEF Field, Switches
  <2>4. \A f \in Numbers : a[f] \in Int
    BY <1>0, <2>2 DEF IsConfig, Field, Numbers
  <2>5. IsConfig(a)
    BY <1>0, <1>2, <1>v, <2>2, <2>3, <2>4 DEF IsConfig
  <2>6. QED  BY <1>0, <1>2, <2>1, <2>2, <2>5 DEF Field, Switches
<1>3. CASE k \in Numbers
  <2>1. PICK n \in Int :
            /\ n = IF k = "spatial.shuffleMinutes" THEN v ELSE Meant(k, v)
            /\ \/ a = [c EXCEPT ![k] = n]
               \/ k = "volume" /\ a = [c EXCEPT ![k] = n, !["volumeConfigured"] = TRUE]
    <3>1. v \in Int /\ Meant(k, v) \in Int
      BY <1>3, <1>v
    <3>2. CASE k = "volume"
      <4>1. a = [c EXCEPT ![k] = Meant(k, v), !["volumeConfigured"] = TRUE]
        BY <3>2 DEF Applied, Meant
      <4>2. QED  BY <3>1, <3>2, <4>1
    <3>3. CASE k \in {"density", "solo.people", "batch.ms"}
      <4>1. k = "density" => Applied(c, k, v) = [c EXCEPT ![k] = Clamped(v, 15, 100)] /\ Meant(k, v) = Clamped(v, 15, 100)
        BY DEF Applied, Meant
      <4>2. k = "solo.people" => Applied(c, k, v) = [c EXCEPT ![k] = Clamped(v, 1, 12)] /\ Meant(k, v) = Clamped(v, 1, 12)
        BY DEF Applied, Meant
      <4>3. k = "batch.ms" => Applied(c, k, v) = [c EXCEPT ![k] = Clamped(v, 100, 2000)] /\ Meant(k, v) = Clamped(v, 100, 2000)
        BY DEF Applied, Meant
      <4>4. a = [c EXCEPT ![k] = Meant(k, v)]
        BY <3>3, <4>1, <4>2, <4>3
      <4>5. QED  BY <3>1, <3>3, <4>4
    <3>4. CASE k = "spatial.shuffleMinutes"
      BY <3>1, <3>4 DEF Applied
    <3>5. QED  BY <1>3, <3>2, <3>3, <3>4 DEF Numbers
  <2>2. /\ a = [f \in Field |-> a[f]] /\ a[k] = n /\ \A f \in Field \ {k} : a[f] = c[f]
    <3>1. k \in Field /\ "volumeConfigured" \in Field /\ k # "volumeConfigured"
      BY <1>3 DEF Field, Switches, Numbers
    <3>2. CASE a = [c EXCEPT ![k] = n]
      BY <1>0, <3>1, <3>2
    <3>3. CASE k = "volume" /\ a = [c EXCEPT ![k] = n, !["volumeConfigured"] = TRUE]
      BY <1>0, <3>1, <3>3
    <3>4. QED  BY <2>1, <3>2, <3>3
  <2>3. /\ \A f \in Switches \cup {"server"} : a[f] = c[f]
        /\ \A f \in Numbers : a[f] \in {c[f], n}
    BY <1>3, <2>2 DEF Field, Switches, Numbers
  <2>4. IsConfig(a)
    BY <1>0, <2>2, <2>3 DEF IsConfig
  <2>5. a["volumeConfigured"] = TRUE
    BY <1>0, <2>3 DEF Switches
  <2>6. QED  BY <1>3, <2>1, <2>2, <2>4, <2>5 DEF Field, Numbers
<1>4. QED  BY <1>1, <1>2, <1>3 DEF Keys, Field

LEMMA SetKeyKeeps ==
    ASSUME stored # NoFile, IsConfig(stored), NEW env \in Environment,
           NEW k \in Keys, NEW v \in Values(k), ~Refused(Loaded(stored, env), k, v)
    PROVE  Keeps(Applied(Loaded(stored, env), k, v), {k}, [f \in {k} |-> Meant(k, v)], env)
<1>1. PICK l : l = Loaded(stored, env) /\ IsNormal(l)
  BY LoadedIsNormal
<1>2. PICK a : /\ a = Applied(l, k, v) /\ IsConfig(a) /\ a["volumeConfigured"] = TRUE
               /\ a[k] = IF k = "spatial.shuffleMinutes" THEN v ELSE Meant(k, v)
               /\ \A f \in Field \ {k, "batch.ms"} : a[f] = l[f]
               /\ k # "batch.ms" => a["batch.ms"] = IF k = "server" /\ v = "public" THEN 500 ELSE l["batch.ms"]
  <2>1. AppliedAs(Applied(l, k, v), l, k, v)
    BY <1>1, AppliedFields
  <2>2. QED  BY <2>1 DEF AppliedAs
<1>3. a["volume"] \in 0 .. 100 /\ a["density"] \in 15 .. 100 /\ a["solo.people"] \in 1 .. 12
  <2>1. l["volume"] \in 0 .. 100 /\ l["density"] \in 15 .. 100 /\ l["solo.people"] \in 1 .. 12
    BY <1>1 DEF IsNormal
  <2>2. k = "volume" => Meant(k, v) \in 0 .. 100
    BY LevelAssumption DEF Meant, Clamped, Values, Numbers
  <2>3. k = "density" => Meant(k, v) \in 15 .. 100
    BY LevelAssumption DEF Meant, Clamped, Values, Numbers
  <2>4. k = "solo.people" => Meant(k, v) \in 1 .. 12
    BY LevelAssumption DEF Meant, Clamped, Values, Numbers
  <2>5. QED  BY <1>2, <2>1, <2>2, <2>3, <2>4 DEF Field, Numbers
<1>4. PICK d : d = NormalConfig(a) /\ FieldsOf(d, a)
  BY <1>2, NormalFields
<1>5. ASSUME k \notin TurnedOn(a) PROVE d[k] = Meant(k, v)
  <2>1. /\ \A f \in {"volume", "volumeConfigured", "density", "solo.people", "muted", "server"} : d[f] = a[f]
        /\ Shares(a) => d["share.keyboard"] = a["share.keyboard"] /\ d["share.mouse"] = a["share.mouse"]
        /\ Audible(a) => d["hear.keyboard"] = a["hear.keyboard"] /\ d["hear.mouse"] = a["hear.mouse"]
        /\ d["batch.ms"] = NormalBatch(a)
    BY <1>2, <1>3, <1>4, FieldsStay
  <2>2. CASE k \in {"volume", "density", "solo.people", "muted", "server"}
    BY <1>2, <2>1, <2>2
  <2>3. CASE k \in {"share.keyboard", "share.mouse"}
    BY <1>2, <1>5, <2>1, <2>3 DEF TurnedOn
  <2>4. CASE k \in {"hear.keyboard", "hear.mouse"}
    BY <1>2, <1>5, <2>1, <2>4 DEF TurnedOn
  <2>5. CASE k = "spatial.shuffleMinutes"
    BY <1>2, <1>4, <2>5 DEF FieldsOf, Meant
  <2>6. CASE k = "batch.ms"
    <3>1. v \in Int /\ a["batch.ms"] = Meant(k, v) /\ a["server"] = l["server"]
      BY <1>2, <2>6, LevelAssumption DEF Values, Numbers, Field
    <3>2. Meant(k, v) \in 100 .. 2000 /\ (v = 500 => Meant(k, v) = 500)
      BY <2>6, <3>1 DEF Meant, Clamped
    <3>3. l["server"] = "public" => v = 500
      BY <1>1, <2>6 DEF Refused
    <3>4. QED  BY <2>1, <2>6, <3>1, <3>2, <3>3 DEF NormalBatch, OrDefault
  <2>7. QED  BY <2>2, <2>3, <2>4, <2>5, <2>6 DEF Keys, Field, Switches, Numbers
<1>6. k = "server" => a["server"] = v
  BY <1>2 DEF Meant
<1>7. {k} \in SUBSET Field /\ "volumeConfigured" \notin {k}
  BY DEF Keys, Field
<1>8. \A f \in {k} \ TurnedOn(a) : NormalConfig(a)[f] = [g \in {k} |-> Meant(k, v)][f]
  BY <1>4, <1>5
<1>9. "batch.ms" \notin {k} =>
          a["batch.ms"] = IF "server" \in {k} /\ a["server"] = "public" THEN 500 ELSE l["batch.ms"]
  BY <1>2, <1>6
<1>10. \A f \in Field \ ({k} \cup {"batch.ms"}) : a[f] = l[f]
  BY <1>2
<1> DEFINE said == [g \in {k} |-> Meant(k, v)]
<1> HIDE DEF said
<1>11. Keeps(a, {k}, said, env)
  BY <1>1, <1>2, <1>3, <1>7, <1>8, <1>9, <1>10, ChangesAreKept DEF said
<1>12. QED  BY <1>1, <1>2, <1>11 DEF said

LEMMA PresetKeeps ==
    ASSUME stored # NoFile, IsConfig(stored), NEW env \in Environment, NEW p \in Presets
    PROVE  /\ IsConfig(WithPreset(Loaded(stored, env), p))
           /\ Keeps(WithPreset(Loaded(stored, env), p), {"volume", "density", "muted"},
                    [volume |-> p[1], density |-> p[2], muted |-> FALSE], env)
<1>1. PICK l : l = Loaded(stored, env) /\ IsNormal(l) /\ IsConfig(l)
  BY LoadedIsNormal DEF IsNormal
<1>2. p[1] \in 0 .. 100 /\ p[2] \in 15 .. 100
  BY DEF Presets
<1>3. PICK a : a = WithPreset(l, p)
  OBVIOUS
<1>4. /\ a = [f \in Field |-> a[f]]
      /\ \A f \in Field \ {"volume", "density", "muted"} : a[f] = l[f]
      /\ a["volume"] = p[1] /\ a["density"] = p[2] /\ a["muted"] = FALSE
  BY <1>1, <1>3 DEF WithPreset, IsConfig, Field, Switches, Numbers
<1>5. IsConfig(a)
  <2>1. \A f \in Switches : a[f] \in BOOLEAN
    <3>1. \A f \in Switches : f \in Field /\ f \notin {"volume", "density"} /\ l[f] \in BOOLEAN
      BY <1>1 DEF IsConfig, Field, Switches
    <3>2. QED  BY <1>4, <3>1
  <2>2. \A f \in Numbers : a[f] \in Int
    BY <1>1, <1>2, <1>4 DEF IsConfig, Field, Numbers
  <2>3. QED  BY <1>1, <1>4, <2>1, <2>2 DEF IsConfig, Field
<1>6. /\ a["volumeConfigured"] = TRUE /\ a["volume"] \in 0 .. 100 /\ a["density"] \in 15 .. 100
      /\ a["solo.people"] \in 1 .. 12 /\ a["batch.ms"] = l["batch.ms"]
  BY <1>1, <1>2, <1>4 DEF IsNormal, Field, Switches, Numbers
<1> DEFINE ks == {"volume", "density", "muted"}
           said == [volume |-> p[1], density |-> p[2], muted |-> FALSE]
<1>7. \A f \in ks \ TurnedOn(a) : NormalConfig(a)[f] = said[f]
  <2>1. \A f \in {"volume", "density", "muted"} : NormalConfig(a)[f] = a[f]
    <3> HIDE DEF ks, said
    <3> QED  BY <1>5, <1>6, FieldsStay
  <2>2. said["volume"] = p[1] /\ said["density"] = p[2] /\ said["muted"] = FALSE
    OBVIOUS
  <2>3. QED  BY <1>4, <2>1, <2>2
<1>8. ks \in SUBSET Field /\ "volumeConfigured" \notin ks /\ "server" \notin ks /\ "batch.ms" \notin ks
  BY DEF Field, Switches, Numbers
<1>9. \A f \in Field \ (ks \cup {"batch.ms"}) : a[f] = l[f]
  BY <1>4
<1> HIDE DEF ks, said
<1>10. Keeps(a, ks, said, env)
  BY <1>1, <1>5, <1>6, <1>7, <1>8, <1>9, ChangesAreKept
<1>11. QED  BY <1>1, <1>3, <1>5, <1>10 DEF ks, said

StoredInv == stored # NoFile => IsConfig(stored)

LEMMA StoredStep == StoredInv /\ [RulesNext]_rulesVars => StoredInv'
<1> SUFFICES ASSUME StoredInv, [RulesNext]_rulesVars PROVE StoredInv'
  OBVIOUS
<1>1. CASE UNCHANGED rulesVars
  BY <1>1 DEF StoredInv, rulesVars, NoFile
<1>2. CASE FindFile
  <2>1. PICK s \in [Switches \ {"muted"} -> BOOLEAN], v, b, n \in Level,
             server \in Servers : stored' = OldFile(s, v, b, server, n)
    BY <1>2 DEF FindFile
  <2>2. IsConfig(OldFile(s, v, b, server, n))
    BY LevelAssumption DEF OldFile, IsConfig, Field, Switches, Numbers, Servers
  <2>3. QED  BY <2>1, <2>2 DEF StoredInv
<1>3. ASSUME NEW k \in Keys, NEW v \in Values(k), NEW env \in Environment, SetKey(k, v, env) PROVE StoredInv'
  <2>1. IsConfig(stored) /\ stored' = NormalConfig(Applied(Loaded(stored, env), k, v))
    BY <1>3 DEF SetKey, StoredInv
  <2>2. IsConfig(Applied(Loaded(stored, env), k, v))
    BY <2>1, LoadedIsNormal, AppliedFields DEF AppliedAs
  <2>3. QED  BY <2>1, <2>2, NormalIsNormal DEF StoredInv, IsNormal
<1>4. ASSUME NEW p \in Presets, NEW env \in Environment, Preset(p, env) PROVE StoredInv'
  <2>1. stored # NoFile /\ IsConfig(stored) /\ stored' = NormalConfig(WithPreset(Loaded(stored, env), p))
    BY <1>4 DEF Preset, StoredInv
  <2>2. IsConfig(WithPreset(Loaded(stored, env), p))
    BY <2>1, PresetKeeps
  <2>3. QED  BY <2>1, <2>2, NormalIsNormal DEF StoredInv, IsNormal
<1>5. CASE SaveRenamed
  <2>1. IsConfig(stored) /\ stored' = NormalConfig(Renamed(NormalConfig(stored)))
    BY <1>5 DEF SaveRenamed, StoredInv
  <2>2. IsConfig(NormalConfig(stored))
    BY <2>1, NormalIsNormal DEF IsNormal
  <2>3. IsConfig(Renamed(NormalConfig(stored)))
    BY <2>2 DEF Renamed, IsConfig, Field, Switches, Numbers, Servers
  <2>4. QED  BY <2>1, <2>3, NormalIsNormal DEF StoredInv, IsNormal
<1>6. QED  BY <1>1, <1>2, <1>3, <1>4, <1>5 DEF RulesNext

\* Loading what was saved changes nothing more: normalizeConfig twice is normalizeConfig, for
\* every configuration and every number in it.
THEOREM NormalizesOnce == \A c : IsConfig(c) => NormalConfig(NormalConfig(c)) = NormalConfig(c)
BY NormalIsNormal, NormalStays

\* One setting given to `cliks set`, or a preset, on any file the program can find and in any
\* environment, saves the value it means and every other setting of the file, with the
\* exceptions that Keeps names: the server in use, the public relay's batch window, and what
\* is turned on again when nothing would be shared or heard (config.go, loadConfig,
\* normalizeConfig, applyEnvURLOverrides; main.go, applyConfigSetting, cmdPreset).
THEOREM SettingsAreKept == RulesInit /\ [][RulesNext]_rulesVars => []SetIsKept
<1>1. RulesInit => StoredInv
  BY DEF RulesInit, StoredInv
<1>2. StoredInv => SetIsKept
  BY SetKeyKeeps, PresetKeeps DEF StoredInv, SetIsKept
<1>3. QED  BY <1>1, <1>2, StoredStep, PTL

-----------------------------------------------------------------------------
(* CommandQueue: what a sender is about to name, has in the directory, in the list   *)
(* and handled is in the order of its names, and what is handled is gone from the    *)
(* directory for good.                                                               *)

CommandTypes == CommandTypeOK /\ IsFiniteSet(dir)

\* Names are given once.
NamesAreFresh ==
    /\ \A s \in Sender : naming[s] <= time
    /\ \A r, s \in Sender : naming[r] # 0 /\ naming[r] = naming[s] => r = s
    /\ \A x \in dir : x.name <= time
    /\ \A i \in DOMAIN listed : listed[i].name <= time
    /\ \A i \in DOMAIN handled : handled[i].name <= time

\* What a sender has still to put there is later than all it has put.
LaterThanPut(s) ==
    naming[s] # 0 =>
      /\ \A x \in dir : x.name # naming[s] /\ (x.from = s => x.name < naming[s])
      /\ \A i \in DOMAIN listed : listed[i].from = s => listed[i].name < naming[s]
      /\ \A i \in DOMAIN handled : handled[i].from = s => handled[i].name < naming[s]

\* The list is in order, and what came into the directory since is later than its own.
ListIsSorted ==
    /\ \A i, j \in DOMAIN listed : i < j => listed[i].name < listed[j].name
    /\ \A x \in dir, i \in DOMAIN listed :
         x.from = listed[i].from => x.name > listed[i].name \/ \E j \in DOMAIN listed : x = listed[j]

\* What is in the directory has not been handled, nor has anything later.
HandledIsPast ==
    \A x \in dir, i \in DOMAIN handled : x.from = handled[i].from => x.name > handled[i].name

CommandInv ==
    /\ CommandTypes /\ NamesAreFresh /\ (\A s \in Sender : LaterThanPut(s))
    /\ ListIsSorted /\ HandledIsPast /\ CommandsInOrder

LEMMA ByNameIs ==
    ASSUME NEW S, S \subseteq Command, IsFiniteSet(S), NEW q \in ByName(S)
    PROVE  /\ q \in Seq(Command) /\ \A i \in DOMAIN q : q[i] \in S
           /\ \A i, j \in DOMAIN q : i < j => q[i].name < q[j].name
           /\ \A x \in S : \E i \in DOMAIN q : x = q[i]
<1>1. /\ Cardinality(S) \in Nat /\ q \in [1 .. Cardinality(S) -> S]
      /\ \A i, j \in DOMAIN q : i < j => q[i].name < q[j].name
  BY FS_CardinalityType DEF ByName
<1>2. q \in Seq(Command)
  BY <1>1
<1>3. IsInjective(q)
  <2>1. SUFFICES ASSUME NEW i \in DOMAIN q, NEW j \in DOMAIN q, i # j PROVE q[i] # q[j]
    BY DEF IsInjective
  <2>2. q[i].name \in Nat /\ q[j].name \in Nat /\ i \in Nat /\ j \in Nat
    BY <1>1 DEF Command
  <2>3. q[i].name < q[j].name \/ q[j].name < q[i].name
    BY <1>1, <2>1, <2>2
  <2>4. QED  BY <2>2, <2>3
<1>4. Cardinality(1 .. Cardinality(S)) = Cardinality(S)
  BY <1>1, FS_Interval
<1>5. q \in Injection(1 .. Cardinality(S), S)
  BY <1>1, <1>3 DEF Injection
<1>6. q \in Surjection(1 .. Cardinality(S), S)
  BY <1>4, <1>5, FS_Injection
<1>7. QED  BY <1>1, <1>2, <1>6 DEF Surjection

LEMMA SequenceIs ==
    ASSUME NEW q \in Seq(Command)
    PROVE  /\ Len(q) \in Nat /\ DOMAIN q = 1 .. Len(q)
           /\ \A i \in DOMAIN q : q[i] \in Command /\ q[i].name \in Nat /\ q[i].from \in Sender
<1>1. Len(q) \in Nat /\ DOMAIN q = 1 .. Len(q) /\ \A i \in DOMAIN q : q[i] \in Command
  BY LenProperties, ElementOfSeq
<1>2. QED  BY <1>1 DEF Command

LEMMA NamesAre ==
    ASSUME CommandTypes
    PROVE  /\ time \in 0 .. MaxNames /\ naming \in [Sender -> 0 .. MaxNames]
           /\ \A x \in dir : x.name \in Nat
           /\ \A i \in DOMAIN listed : listed[i].name \in Nat
           /\ \A i \in DOMAIN handled : handled[i].name \in Nat
<1>1. \A x \in Command : x.name \in Nat
  BY CommandAssumption DEF Command
<1>2. QED  BY <1>1, SequenceIs DEF CommandTypes, CommandTypeOK

LEMMA CommandStart == CommandInit => CommandInv
<1> SUFFICES ASSUME CommandInit PROVE CommandInv
  OBVIOUS
<1>1. CommandTypes
  BY FS_EmptySet, CommandAssumption DEF CommandInit, CommandTypes, CommandTypeOK
<1>2. /\ dir = {} /\ DOMAIN listed = {} /\ DOMAIN handled = {} /\ time = 0
      /\ \A s \in Sender : naming[s] = 0
  BY DEF CommandInit
<1>3. handled = <<>>
  BY DEF CommandInit
<1>4. NamesAreFresh /\ ListIsSorted /\ HandledIsPast /\ \A s \in Sender : LaterThanPut(s)
  BY <1>2 DEF NamesAreFresh, LaterThanPut, ListIsSorted, HandledIsPast
<1>5. CommandsInOrder
  BY <1>3 DEF CommandsInOrder
<1>6. QED  BY <1>1, <1>4, <1>5 DEF CommandInv

LEMMA NameInv == ASSUME CommandInv, NEW s \in Sender, Name(s) PROVE CommandInv'
<1>1. /\ CommandTypes /\ NamesAreFresh /\ ListIsSorted /\ HandledIsPast /\ CommandsInOrder
      /\ UNCHANGED <<dir, listed, running, handled>>
      /\ naming[s] = 0 /\ time < MaxNames /\ time' = time + 1 /\ naming' = [naming EXCEPT ![s] = time + 1]
  BY DEF CommandInv, Name
<1>2. /\ time \in Nat /\ naming \in [Sender -> Nat] /\ \A x \in dir : x.name \in Nat
      /\ \A i \in DOMAIN listed : listed[i].name \in Nat
      /\ \A i \in DOMAIN handled : handled[i].name \in Nat
  BY <1>1, NamesAre, CommandAssumption
<1>3. CommandTypes'
  BY <1>1, <1>2, CommandAssumption DEF CommandTypes, CommandTypeOK
<1>4. NamesAreFresh'
  <2>1. \A r \in Sender : naming[r] < time + 1
    BY <1>1, <1>2 DEF NamesAreFresh
  <2>2. \A r \in Sender \ {s} : naming'[r] = naming[r]
    BY <1>1, <1>2
  <2>3. \A r, t \in Sender : naming'[r] # 0 /\ naming'[r] = naming'[t] => r = t
    BY <1>1, <1>2, <2>1, <2>2 DEF NamesAreFresh
  <2>4. QED  BY <1>1, <1>2, <2>1, <2>2, <2>3 DEF NamesAreFresh
<1>5. ASSUME NEW r \in Sender PROVE LaterThanPut(r)'
  <2>1. CASE r = s
    <3>1. naming'[r] = time + 1
      BY <1>1, <1>2, <2>1
    <3>2. QED  BY <1>1, <1>2, <3>1 DEF LaterThanPut, NamesAreFresh
  <2>2. CASE r # s
    <3>1. naming'[r] = naming[r] /\ LaterThanPut(r)
      BY <1>1, <1>2, <2>2 DEF CommandInv
    <3>2. QED  BY <1>1, <3>1 DEF LaterThanPut
  <2>3. QED  BY <2>1, <2>2
<1>6. ListIsSorted' /\ HandledIsPast' /\ CommandsInOrder'
  BY <1>1 DEF ListIsSorted, HandledIsPast, CommandsInOrder
<1>7. QED  BY <1>3, <1>4, <1>5, <1>6 DEF CommandInv

LEMMA PutInv == ASSUME CommandInv, NEW s \in Sender, Put(s) PROVE CommandInv'
<1> DEFINE new == [name |-> naming[s], from |-> s]
<1>1. /\ CommandTypes /\ NamesAreFresh /\ ListIsSorted /\ HandledIsPast /\ CommandsInOrder
      /\ LaterThanPut(s) /\ \A r \in Sender : LaterThanPut(r)
      /\ UNCHANGED <<time, listed, running, handled>> /\ naming[s] # 0
      /\ dir' = dir \cup {new} /\ naming' = [naming EXCEPT ![s] = 0]
  BY DEF CommandInv, Put
<1>2. /\ time \in 0 .. MaxNames /\ naming \in [Sender -> 0 .. MaxNames] /\ \A x \in dir : x.name \in Nat
      /\ \A i \in DOMAIN listed : listed[i].name \in Nat
      /\ \A i \in DOMAIN handled : handled[i].name \in Nat
  BY <1>1, NamesAre, CommandAssumption
<1>3. CommandTypes'
  <2>1. new \in Command
    BY <1>1, <1>2 DEF Command
  <2>2. naming' \in [Sender -> 0 .. MaxNames]
    BY <1>1, <1>2, CommandAssumption
  <2>3. dir' \subseteq Command /\ IsFiniteSet(dir')
    BY <1>1, <2>1, FS_AddElement DEF CommandTypes, CommandTypeOK
  <2>4. QED  BY <1>1, <2>2, <2>3 DEF CommandTypes, CommandTypeOK
<1>4. NamesAreFresh'
  BY <1>1, <1>2 DEF NamesAreFresh
<1>5. ASSUME NEW r \in Sender PROVE LaterThanPut(r)'
  BY <1>1, <1>2 DEF LaterThanPut, NamesAreFresh
<1>6. ListIsSorted'
  BY <1>1, <1>2 DEF ListIsSorted, LaterThanPut
<1>7. HandledIsPast'
  BY <1>1, <1>2 DEF HandledIsPast, LaterThanPut
<1>8. CommandsInOrder'
  BY <1>1 DEF CommandsInOrder
<1>9. QED  BY <1>3, <1>4, <1>5, <1>6, <1>7, <1>8 DEF CommandInv

LEMMA ListInv == ASSUME CommandInv, List PROVE CommandInv'
<1>1. /\ CommandTypes /\ NamesAreFresh /\ HandledIsPast /\ CommandsInOrder
      /\ \A r \in Sender : LaterThanPut(r)
      /\ UNCHANGED <<time, naming, dir, running, handled>> /\ listed' \in ByName(dir)
  BY DEF CommandInv, List
<1>2. /\ listed' \in Seq(Command) /\ \A i \in DOMAIN listed' : listed'[i] \in dir
      /\ \A i, j \in DOMAIN listed' : i < j => listed'[i].name < listed'[j].name
      /\ \A x \in dir : \E i \in DOMAIN listed' : x = listed'[i]
  BY <1>1, ByNameIs DEF CommandTypes, CommandTypeOK
<1>3. CommandTypes' /\ HandledIsPast' /\ CommandsInOrder'
  BY <1>1, <1>2 DEF CommandTypes, CommandTypeOK, HandledIsPast, CommandsInOrder
<1>4. NamesAreFresh' /\ \A r \in Sender : LaterThanPut(r)'
  BY <1>1, <1>2 DEF NamesAreFresh, LaterThanPut
<1>5. ListIsSorted'
  BY <1>1, <1>2 DEF ListIsSorted
<1>6. QED  BY <1>3, <1>4, <1>5 DEF CommandInv

\* The head of the list is handled if it is still there, and nothing earlier of its sender
\* is in the directory.
LEMMA ConsumeInv == ASSUME CommandInv, Consume PROVE CommandInv'
<1> DEFINE h == Head(listed)
<1>1. /\ CommandTypes /\ NamesAreFresh /\ ListIsSorted /\ HandledIsPast /\ CommandsInOrder
      /\ \A r \in Sender : LaterThanPut(r)
      /\ UNCHANGED <<time, naming, running>> /\ listed # <<>> /\ listed' = Tail(listed)
      /\ dir' = dir \ {h} /\ handled' = IF h \in dir THEN Append(handled, h) ELSE handled
  BY DEF CommandInv, Consume
<1>2. /\ listed \in Seq(Command) /\ handled \in Seq(Command) /\ dir \subseteq Command /\ IsFiniteSet(dir)
      /\ \A x \in dir : x.name \in Nat
      /\ time \in Nat /\ naming \in [Sender -> 0 .. MaxNames]
  BY <1>1, NamesAre, CommandAssumption DEF CommandTypes, CommandTypeOK
<1>3. /\ 1 \in DOMAIN listed /\ h = listed[1] /\ h \in Command /\ h.name \in Nat /\ h.from \in Sender
      /\ listed' \in Seq(Command)
      /\ \A i \in DOMAIN listed' : i + 1 \in DOMAIN listed /\ i + 1 > 1 /\ listed'[i] = listed[i + 1]
      /\ \A j \in DOMAIN listed : j # 1 => j - 1 \in DOMAIN listed' /\ listed[j] = listed'[j - 1]
  <2>1. Len(listed) \in Nat \ {0} /\ DOMAIN listed = 1 .. Len(listed)
    BY <1>1, <1>2, EmptySeq, LenProperties
  <2>2. /\ listed' \in Seq(Command) /\ DOMAIN listed' = 1 .. Len(listed) - 1
        /\ \A i \in 1 .. Len(listed) - 1 : listed'[i] = listed[i + 1]
    BY <1>1, <1>2, HeadTailProperties, LenProperties
  <2>3. h = listed[1]
    BY <1>1, <1>2
  <2>4. QED  BY <1>2, <2>1, <2>2, <2>3, SequenceIs
<1>4. /\ handled' \in Seq(Command)
      /\ \A i \in DOMAIN handled' : \/ i \in DOMAIN handled /\ handled'[i] = handled[i]
                                    \/ i \notin DOMAIN handled /\ h \in dir /\ handled'[i] = h
      /\ \A i, j \in DOMAIN handled' : i < j => i \in DOMAIN handled
  <2>1. CASE h \in dir
    <3>1. /\ handled' \in Seq(Command) /\ Len(handled') = Len(handled) + 1
          /\ \A i \in 1 .. Len(handled) : handled'[i] = handled[i]
          /\ handled'[Len(handled) + 1] = h
      BY <1>1, <1>2, <1>3, <2>1, AppendProperties
    <3>2. Len(handled) \in Nat /\ DOMAIN handled = 1 .. Len(handled) /\ DOMAIN handled' = 1 .. Len(handled) + 1
      BY <1>2, <3>1, LenProperties
    <3>3. QED  BY <2>1, <3>1, <3>2
  <2>2. CASE h \notin dir
    BY <1>1, <1>2, <2>2
  <2>3. QED  BY <2>1, <2>2
<1>5. CommandTypes'
  BY <1>1, <1>2, <1>3, <1>4, FS_RemoveElement DEF CommandTypes, CommandTypeOK
<1>6. NamesAreFresh'
  BY <1>1, <1>3, <1>4 DEF NamesAreFresh
<1>7. ASSUME NEW r \in Sender PROVE LaterThanPut(r)'
  BY <1>1, <1>3, <1>4 DEF LaterThanPut
<1>8. ListIsSorted'
  <2>1. ASSUME NEW i \in DOMAIN listed', NEW j \in DOMAIN listed', i < j
        PROVE  listed'[i].name < listed'[j].name
    <3>1. i \in Nat /\ j \in Nat
      BY <1>3, SequenceIs
    <3>2. i + 1 \in DOMAIN listed /\ j + 1 \in DOMAIN listed /\ i + 1 < j + 1
      BY <1>3, <2>1, <3>1
    <3>3. QED  BY <1>1, <1>3, <3>2 DEF ListIsSorted
  <2>2. ASSUME NEW x \in dir', NEW i \in DOMAIN listed', x.from = listed'[i].from
        PROVE  x.name > listed'[i].name \/ \E j \in DOMAIN listed' : x = listed'[j]
    <3>1. x.name > listed[i + 1].name \/ \E j \in DOMAIN listed : x = listed[j]
      BY <1>1, <1>3, <2>2 DEF ListIsSorted
    <3>2. ASSUME NEW j \in DOMAIN listed, x = listed[j] PROVE \E k \in DOMAIN listed' : x = listed'[k]
      BY <1>1, <1>3, <3>2
    <3>3. QED  BY <1>3, <3>1, <3>2
  <2>3. QED  BY <2>1, <2>2 DEF ListIsSorted
<1>9. ASSUME h \in dir, NEW x \in dir \ {h}, x.from = h.from PROVE x.name > h.name
  <2>1. x.name > h.name \/ \E j \in DOMAIN listed : x = listed[j]
    BY <1>1, <1>3, <1>9 DEF ListIsSorted
  <2>2. ASSUME NEW j \in DOMAIN listed, x = listed[j] PROVE x.name > h.name
    <3>1. j # 1 /\ j \in Nat /\ 1 <= j
      BY <1>2, <1>3, <1>9, <2>2, SequenceIs
    <3>2. h.name < x.name
      BY <1>1, <1>3, <2>2, <3>1 DEF ListIsSorted
    <3>3. QED  BY <1>2, <1>3, <1>9, <3>2
  <2>3. QED  BY <2>1, <2>2
<1>10. HandledIsPast'
  BY <1>1, <1>4, <1>9 DEF HandledIsPast
<1>11. CommandsInOrder'
  <2>1. SUFFICES ASSUME NEW i \in DOMAIN handled', NEW j \in DOMAIN handled', i < j
                PROVE  /\ handled'[i] # handled'[j]
                       /\ handled'[i].from = handled'[j].from => handled'[i].name < handled'[j].name
    BY <1>4, LenProperties DEF CommandsInOrder
  <2>2. i \in DOMAIN handled /\ handled'[i] = handled[i] /\ handled[i] \in Command /\ handled[i].name \in Nat
    BY <1>2, <1>4, <2>1, SequenceIs
  <2>3. CASE j \in DOMAIN handled
    <3>1. handled'[j] = handled[j]
      BY <1>4, <2>3
    <3>2. DOMAIN handled = 1 .. Len(handled)
      BY <1>2, LenProperties
    <3>3. QED  BY <1>1, <2>1, <2>2, <2>3, <3>1, <3>2 DEF CommandsInOrder
  <2>4. CASE j \notin DOMAIN handled
    <3>1. h \in dir /\ handled'[j] = h
      BY <1>4, <2>4
    <3>2. h.from = handled[i].from => h.name > handled[i].name
      BY <1>1, <2>2, <3>1 DEF HandledIsPast
    <3>3. QED  BY <1>3, <2>2, <3>1, <3>2
  <2>5. QED  BY <2>3, <2>4
<1>12. QED  BY <1>5, <1>6, <1>7, <1>8, <1>10, <1>11 DEF CommandInv

LEMMA SessionsInv == ASSUME CommandInv, Leave \/ Restart PROVE CommandInv'
<1>1. /\ CommandTypes /\ NamesAreFresh /\ ListIsSorted /\ HandledIsPast /\ CommandsInOrder
      /\ \A r \in Sender : LaterThanPut(r)
      /\ UNCHANGED <<time, naming, handled>> /\ running' \in BOOLEAN
      /\ dir' \in {dir, {}} /\ listed' \in {listed, <<>>}
  BY DEF CommandInv, Leave, Restart
<1>2. <<>> \in Seq(Command) /\ DOMAIN <<>> = {}
  BY EmptySeq
<1>3. CommandTypes'
  BY <1>1, <1>2, FS_EmptySet DEF CommandTypes, CommandTypeOK
<1>4. NamesAreFresh' /\ HandledIsPast' /\ \A r \in Sender : LaterThanPut(r)'
  BY <1>1, <1>2 DEF NamesAreFresh, HandledIsPast, LaterThanPut
<1>5. ListIsSorted'
  BY <1>1, <1>2 DEF ListIsSorted
<1>6. QED  BY <1>1, <1>3, <1>4, <1>5 DEF CommandInv, CommandsInOrder

LEMMA CommandStep == CommandInv /\ [CommandNext]_commandVars => CommandInv'
<1> SUFFICES ASSUME CommandInv, [CommandNext]_commandVars PROVE CommandInv'
  OBVIOUS
<1>1. CASE UNCHANGED commandVars
  BY <1>1 DEF commandVars, CommandInv, CommandTypes, CommandTypeOK, NamesAreFresh, LaterThanPut,
              ListIsSorted, HandledIsPast, CommandsInOrder
<1>2. QED
  BY <1>1, NameInv, PutInv, ListInv, ConsumeInv, SessionsInv DEF CommandNext

\* No command is handled twice and those of a process are handled in the order they were sent,
\* by whichever sessions and in however many passes (session_bridge.go, consumeSessionCommands).
THEOREM CommandsKeepOrder == CommandSpec => []CommandsInOrder
<1>1. CommandInv => CommandsInOrder
  BY DEF CommandInv
<1>2. QED  BY <1>1, CommandStart, CommandStep, PTL DEF CommandSpec

-----------------------------------------------------------------------------
(* AudioEngine: a tone without a player is on the hands of whoever set it last.    *)

Players  == [state : {"none", "playing", "ended"}, tone : Tone \cup {Off}, cancelled : BOOLEAN]
Updaters == [at : {"idle", "wait", "register"}, tone : Tone \cup {Off}, old : Player \cup {0}]

AmbientTypes ==
    /\ tone \in Tone \cup {Off} /\ slot \in Player \cup {0}
    /\ player \in [Player -> Players] /\ updater \in [Updater -> Updaters]

\* The bound leaves a player for every change under way.
EnoughPlayers == IsFiniteSet(Busy) /\ Cardinality(Busy) <= Cardinality(Spare)

\* Nobody registers silence, the controller has no player for another tone than its own,
\* and if it has none for its own a change to this very tone is under way.
ToneIsMeant ==
    /\ \A u \in Updater : updater[u].at = "register" => updater[u].tone # Off
    /\ slot # 0 => tone # Off /\ player[slot].tone = tone
    /\ slot = 0 /\ tone # Off => \E u \in Busy : updater[u].tone = tone

AmbientInv == AmbientTypes /\ EnoughPlayers /\ ToneIsMeant

LEMMA SpareFinite ==
    ASSUME AmbientTypes
    PROVE  IsFiniteSet(Spare) /\ Cardinality(Spare) \in Nat
<1>1. IsFiniteSet(Player)
  BY AudioAssumption, FS_Interval DEF Player
<1>2. QED  BY <1>1, FS_Subset, FS_CardinalityType DEF Spare

LEMMA AmbientStart == AudioInit => AmbientInv
<1> SUFFICES ASSUME AudioInit PROVE AmbientInv
  OBVIOUS
<1>1. AmbientTypes /\ ToneIsMeant
  BY DEF AudioInit, AmbientTypes, ToneIsMeant, Players, Updaters
<1>2. Busy = {}
  BY DEF AudioInit, Busy
<1>3. EnoughPlayers
  BY <1>1, <1>2, SpareFinite, FS_EmptySet DEF EnoughPlayers
<1>4. QED  BY <1>1, <1>3 DEF AmbientInv

\* A step that changes nobody's tone and makes no player.
LEMMA SameAmbient ==
    ASSUME AmbientInv, UNCHANGED <<tone, slot, updater>>, player' \in [Player -> Players],
           \A p \in Player : /\ player'[p].tone = player[p].tone
                             /\ player'[p].state = "none" <=> player[p].state = "none"
    PROVE  AmbientInv'
<1>1. Spare' = Spare /\ Busy' = Busy
  BY DEF Spare, Busy
<1>2. QED
  BY <1>1 DEF AmbientInv, AmbientTypes, EnoughPlayers, ToneIsMeant

\* Updater u has nothing more to do, and whoever else was busy still is.
LEMMA NotBusy ==
    ASSUME AmbientTypes, EnoughPlayers, NEW u \in Busy,
           updater' = [updater EXCEPT ![u].at = "idle"]
    PROVE  /\ Busy' = Busy \ {u} /\ IsFiniteSet(Busy')
           /\ Cardinality(Busy') = Cardinality(Busy) - 1 /\ Cardinality(Busy) \in Nat
<1>1. Busy' = Busy \ {u}
  BY DEF Busy, AmbientTypes, Updaters
<1>2. QED  BY <1>1, FS_RemoveElement, FS_CardinalityType DEF EnoughPlayers

LEMMA SetToneInv ==
    ASSUME AmbientInv, NEW u \in Updater, NEW t \in Tone \cup {Off}, SetTone(u, t)
    PROVE  AmbientInv'
<1>1. AmbientTypes /\ EnoughPlayers /\ ToneIsMeant
  BY DEF AmbientInv
<1>2. /\ updater[u].at = "idle" /\ tone' = t /\ slot' = 0 /\ Cardinality(Busy) < Cardinality(Spare)
      /\ updater' = [updater EXCEPT ![u] = [at |-> "wait", tone |-> t, old |-> slot]]
      /\ player' = IF slot = 0 THEN player ELSE [player EXCEPT ![slot].cancelled = TRUE]
  BY DEF SetTone
<1>3. AmbientTypes'
  BY <1>1, <1>2 DEF AmbientTypes, Players, Updaters
<1>4. Busy' = Busy \cup {u} /\ u \notin Busy
  BY <1>1, <1>2 DEF Busy, AmbientTypes, Updaters
<1>5. Spare' = Spare
  BY <1>1, <1>2 DEF Spare, AmbientTypes, Players
<1>6. EnoughPlayers'
  <2>1. IsFiniteSet(Busy) /\ Cardinality(Busy) \in Nat /\ Cardinality(Spare) \in Nat
    BY <1>1, SpareFinite, FS_CardinalityType DEF EnoughPlayers
  <2>2. IsFiniteSet(Busy \cup {u}) /\ Cardinality(Busy \cup {u}) = Cardinality(Busy) + 1
    BY <1>4, <2>1, FS_AddElement
  <2>3. IsFiniteSet(Busy') /\ Cardinality(Busy') = Cardinality(Busy) + 1
    BY <1>4, <2>2
  <2>4. Cardinality(Spare') = Cardinality(Spare)
    BY <1>5
  <2>5. Cardinality(Busy') <= Cardinality(Spare')
    BY <1>2, <2>1, <2>3, <2>4
  <2>6. QED  BY <2>3, <2>5 DEF EnoughPlayers
<1>7. ToneIsMeant'
  BY <1>1, <1>2, <1>4 DEF ToneIsMeant, AmbientTypes, Updaters
<1>8. QED  BY <1>3, <1>6, <1>7 DEF AmbientInv

LEMMA WaitOldInv ==
    ASSUME AmbientInv, NEW u \in Updater, WaitOld(u)
    PROVE  AmbientInv'
<1>1. AmbientTypes /\ EnoughPlayers /\ ToneIsMeant
  BY DEF AmbientInv
<1>2. /\ updater[u].at = "wait" /\ UNCHANGED <<tone, slot, player>> /\ Spare' = Spare /\ u \in Busy
      /\ updater' = [updater EXCEPT ![u].at = IF updater[u].tone = Off THEN "idle" ELSE "register"]
  BY DEF WaitOld, Spare, Busy
<1>3. AmbientTypes'
  BY <1>1, <1>2 DEF AmbientTypes, Updaters
<1>4. CASE updater[u].tone = Off
  <2>1. updater' = [updater EXCEPT ![u].at = "idle"]
    BY <1>2, <1>4
  <2>2. /\ Busy' = Busy \ {u} /\ IsFiniteSet(Busy')
        /\ Cardinality(Busy') = Cardinality(Busy) - 1 /\ Cardinality(Busy) \in Nat
    BY <1>1, <1>2, <2>1, NotBusy
  <2>3. EnoughPlayers'
    <3>1. Cardinality(Spare') = Cardinality(Spare) /\ Cardinality(Spare) \in Nat
      BY <1>1, <1>2, SpareFinite
    <3>2. Cardinality(Busy) <= Cardinality(Spare)
      BY <1>1 DEF EnoughPlayers
    <3>3. Cardinality(Busy') <= Cardinality(Spare')
      BY <2>2, <3>1, <3>2
    <3>4. QED  BY <2>2, <3>3 DEF EnoughPlayers
  <2>4. ToneIsMeant'
    <3>1. \A v \in Updater : updater'[v].tone = updater[v].tone
      BY <1>1, <2>1 DEF AmbientTypes, Updaters
    <3>2. \A v \in Updater : updater'[v].at = "register" => updater'[v].tone # Off
      BY <1>1, <2>1 DEF ToneIsMeant, AmbientTypes, Updaters
    <3>3. slot' = 0 /\ tone' # Off => \E v \in Busy' : updater'[v].tone = tone'
      BY <1>1, <1>2, <1>4, <2>2, <3>1 DEF ToneIsMeant, Busy
    <3>4. QED  BY <1>1, <1>2, <3>2, <3>3 DEF ToneIsMeant
  <2>5. QED  BY <1>3, <2>3, <2>4 DEF AmbientInv
<1>5. CASE updater[u].tone # Off
  <2>1. Busy' = Busy
    BY <1>1, <1>2, <1>5 DEF Busy, AmbientTypes, Updaters
  <2>2. EnoughPlayers' /\ ToneIsMeant'
    BY <1>1, <1>2, <1>5, <2>1 DEF EnoughPlayers, ToneIsMeant, AmbientTypes, Updaters
  <2>3. QED  BY <1>3, <2>2 DEF AmbientInv
<1>6. QED  BY <1>4, <1>5

LEMMA RegisterInv ==
    ASSUME AmbientInv, NEW u \in Updater, Register(u)
    PROVE  AmbientInv'
<1>1. AmbientTypes /\ EnoughPlayers /\ ToneIsMeant
  BY DEF AmbientInv
<1>2. /\ updater[u].at = "register" /\ u \in Busy /\ updater[u].tone # Off
      /\ tone' = tone /\ updater' = [updater EXCEPT ![u].at = "idle"]
  BY <1>1 DEF Register, Busy, ToneIsMeant
<1>3. updater' \in [Updater -> Updaters] /\ \A v \in Updater : updater'[v].tone = updater[v].tone
  BY <1>1, <1>2 DEF AmbientTypes, Updaters
<1>4. \A v \in Updater : updater'[v].at = "register" => updater'[v].tone # Off
  BY <1>1, <1>2 DEF ToneIsMeant, AmbientTypes, Updaters
<1>5. /\ Busy' = Busy \ {u} /\ IsFiniteSet(Busy')
      /\ Cardinality(Busy') = Cardinality(Busy) - 1 /\ Cardinality(Busy) \in Nat
  BY <1>1, <1>2, NotBusy
<1>6. CASE tone # updater[u].tone
  <2>1. UNCHANGED <<slot, player>> /\ Spare' = Spare
    BY <1>6 DEF Register, Spare
  <2>2. EnoughPlayers'
    <3>1. Cardinality(Spare') = Cardinality(Spare) /\ Cardinality(Spare) \in Nat
      BY <1>1, <2>1, SpareFinite
    <3>2. Cardinality(Busy) <= Cardinality(Spare)
      BY <1>1 DEF EnoughPlayers
    <3>3. Cardinality(Busy') <= Cardinality(Spare')
      BY <1>5, <3>1, <3>2
    <3>4. QED  BY <1>5, <3>3 DEF EnoughPlayers
  <2>3. ToneIsMeant'
    BY <1>1, <1>2, <1>3, <1>4, <1>5, <1>6, <2>1 DEF ToneIsMeant, Busy
  <2>4. QED  BY <1>1, <1>2, <1>3, <2>1, <2>2, <2>3 DEF AmbientInv, AmbientTypes
<1>7. CASE tone = updater[u].tone
  <2>1. Spare # {}
    BY <1>1, <1>2, <1>5, FS_EmptySet, SpareFinite DEF EnoughPlayers
  <2>2. PICK p \in Spare : slot' = p /\ player' = Started(p, tone)
    BY <1>7, <2>1 DEF Register, NewPlayer
  <2>3. p \in Player /\ p # 0
    BY AudioAssumption DEF Spare, Player
  <2>4. AmbientTypes' /\ player'[p].tone = tone
    BY <1>1, <1>2, <1>3, <2>2, <2>3 DEF AmbientTypes, Started, Players
  <2>5. Spare' = Spare \ {p}
    BY <1>1, <2>2, <2>3 DEF Spare, Started, AmbientTypes, Players
  <2>6. EnoughPlayers'
    <3>1. IsFiniteSet(Spare) /\ Cardinality(Spare) \in Nat /\ Cardinality(Busy) <= Cardinality(Spare)
      BY <1>1, SpareFinite DEF EnoughPlayers
    <3>2. Cardinality(Spare \ {p}) = Cardinality(Spare) - 1
      BY <3>1, FS_RemoveElement
    <3>3. Cardinality(Spare') = Cardinality(Spare) - 1
      BY <2>5, <3>2
    <3>4. Cardinality(Busy') <= Cardinality(Spare')
      BY <1>5, <3>1, <3>3
    <3>5. QED  BY <1>5, <3>4 DEF EnoughPlayers
  <2>7. ToneIsMeant'
    BY <1>2, <1>4, <1>7, <2>2, <2>3, <2>4 DEF ToneIsMeant
  <2>8. QED  BY <2>4, <2>6, <2>7 DEF AmbientInv
<1>8. QED  BY <1>6, <1>7

LEMMA PlayersInv ==
    ASSUME AmbientInv, NEW p \in Player, PlayerEnds(p) \/ PlayerFails(p)
    PROVE  AmbientInv'
<1>1. /\ player[p].state = "playing" /\ player' = [player EXCEPT ![p].state = "ended"]
      /\ UNCHANGED <<tone, slot, updater>> /\ player \in [Player -> Players]
  BY DEF AmbientInv, AmbientTypes, PlayerEnds, PlayerFails, Ended
<1>2. player' \in [Player -> Players]
  BY <1>1 DEF Players
<1>3. \A q \in Player : /\ player'[q].tone = player[q].tone
                        /\ player'[q].state = "none" <=> player[q].state = "none"
  BY <1>1 DEF Players
<1>4. QED  BY <1>1, <1>2, <1>3, SameAmbient

LEMMA CloseAmbientInv == ASSUME AmbientInv, CloseAmbient PROVE AmbientInv'
<1>1. AmbientTypes /\ EnoughPlayers /\ ToneIsMeant
  BY DEF AmbientInv
<1>2. /\ tone' = Off /\ slot' = 0 /\ updater' = updater
      /\ player' = IF slot = 0 THEN player ELSE [player EXCEPT ![slot].cancelled = TRUE]
  BY DEF CloseAmbient
<1>3. AmbientTypes'
  BY <1>1, <1>2 DEF AmbientTypes, Players
<1>4. Spare' = Spare /\ Busy' = Busy
  BY <1>1, <1>2 DEF Spare, Busy, AmbientTypes, Players
<1>5. EnoughPlayers' /\ ToneIsMeant'
  BY <1>1, <1>2, <1>4 DEF EnoughPlayers, ToneIsMeant
<1>6. QED  BY <1>3, <1>5 DEF AmbientInv

LEMMA AmbientStep == AmbientInv /\ [AudioNext]_audioVars => AmbientInv'
<1> SUFFICES ASSUME AmbientInv, [AudioNext]_audioVars PROVE AmbientInv'
  OBVIOUS
<1>1. UNCHANGED <<tone, slot, player, updater>> => AmbientInv'
  BY DEF AmbientInv, AmbientTypes, EnoughPlayers, ToneIsMeant, Busy, Spare
<1>2. CASE UNCHANGED audioVars
  BY <1>1, <1>2 DEF audioVars
<1>3. CASE Schedule \/ Enqueue \/ Cancel \/ Closed
  BY <1>1, <1>3 DEF Schedule, Enqueue, Cancel, Closed, ambient
<1>4. CASE \E w \in Worker : TakeJob(w) \/ JobEnds(w) \/ WorkerEnds(w)
  BY <1>1, <1>4 DEF TakeJob, JobEnds, WorkerEnds, ambient
<1>5. QED
  BY <1>2, <1>3, <1>4, SetToneInv, WaitOldInv, RegisterInv, PlayersInv, CloseAmbientInv
     DEF AudioNext, UpdaterStep, PlayerStep

\* Between two changes of the tone the controller has the player of the tone last set, or
\* none when it was set to silence, with any number of goroutines that change it and however
\* their waits for former players fall (ambient.go, update).
THEOREM LastToneSettles == AudioInit /\ [][AudioNext]_audioVars => []AmbientSettles
<1>1. AmbientInv => AmbientSettles
  BY DEF AmbientInv, ToneIsMeant, AmbientSettles
<1>2. QED  BY <1>1, AmbientStart, AmbientStep, PTL

-----------------------------------------------------------------------------
(* Capture: what is read moves from one sequence to the next.                      *)

\* A goroutine has events only while it hands them over, and runs only once it was started.
HandsFree ==
    /\ (source.at = "emit") <=> (source.holds # <<>>)
    /\ recorder.at # "record" => recorder.holds = <<>>
    /\ starter \in {"idle", "start", "raw", "saved"} => source.at = "none"
    /\ starter = "idle" => mode = "native"
    /\ starter # "published" => recorder.at = "none"

FlowTypes ==
    /\ inputs \in Seq(Event) /\ read \in Seq(Event)
    /\ events \in Seq(Event) /\ local \in Seq(Event) /\ batched \in Seq(Event)
    /\ source \in [at : {"none", "read", "emit", "restore", "ended"}, holds : Seq(Event)]
    /\ recorder \in [at : {"none", "select", "record", "ended"}, holds : Seq(Event)]
    /\ pushed \in 0 .. MaxInputs

CaptureInv == FlowTypes /\ HandsFree /\ BurstsArrive

\* The pressed keys and clicks.
LEMMA Regrouped == \A x, q, r \in Seq(Event) : x \o (q \o r) = (x \o q) \o r
<1> TAKE x, q, r \in Seq(Event)
<1>1. QED  BY ConcatAssociative

LEMMA OneMorePressed ==
    ASSUME NEW n \in 0 .. MaxInputs, n < MaxInputs
    PROVE  /\ [i \in 1 .. n + 1 |-> i] = [i \in 1 .. n |-> i] \o <<n + 1>>
           /\ [i \in 1 .. n |-> i] \in Seq(Event) /\ n + 1 \in Event
<1>1. n \in Nat /\ n + 1 \in Event /\ \A k \in 1 .. n : k \in Event
  BY CaptureAssumption DEF Event
<1>2. [i \in 1 .. n |-> i] \in Seq(Event) /\ [i \in 1 .. n + 1 |-> i] \in Seq(Event)
  BY <1>1
<1>3. /\ [i \in 1 .. n |-> i] \o <<n + 1>> \in Seq(Event)
      /\ Len([i \in 1 .. n |-> i] \o <<n + 1>>) = n + 1
      /\ \A k \in 1 .. n + 1 : ([i \in 1 .. n |-> i] \o <<n + 1>>)[k] = k
  BY <1>1, <1>2
<1>4. Len([i \in 1 .. n + 1 |-> i]) = n + 1
  BY <1>1, <1>2
<1>5. QED  BY <1>1, <1>2, <1>3, <1>4, SeqEqual

\* An element leaves the sequence behind for the end of the one ahead.
LEMMA HeadMoves ==
    \A x, q \in Seq(Event) : q # <<>> =>
        /\ x \o q = (x \o <<Head(q)>>) \o Tail(q)
        /\ Head(q) \in Event /\ Tail(q) \in Seq(Event) /\ <<Head(q)>> \in Seq(Event)
<1> SUFFICES ASSUME NEW x \in Seq(Event), NEW q \in Seq(Event), q # <<>>
             PROVE  /\ x \o q = (x \o <<Head(q)>>) \o Tail(q)
                    /\ Head(q) \in Event /\ Tail(q) \in Seq(Event) /\ <<Head(q)>> \in Seq(Event)
  OBVIOUS
<1>1. /\ Head(q) \in Event /\ Tail(q) \in Seq(Event) /\ <<Head(q)>> \in Seq(Event)
      /\ Len(q) \in Nat /\ Len(Tail(q)) = Len(q) - 1
      /\ Len(<<Head(q)>>) = 1 /\ <<Head(q)>>[1] = q[1]
      /\ \A i \in 1 .. Len(Tail(q)) : Tail(q)[i] = q[i + 1]
  BY HeadTailProperties, LenProperties
<1>2. <<Head(q)>> \o Tail(q) = q
  <2>1. /\ <<Head(q)>> \o Tail(q) \in Seq(Event)
        /\ Len(<<Head(q)>> \o Tail(q)) = Len(q)
        /\ \A i \in 1 .. Len(q) :
              (<<Head(q)>> \o Tail(q))[i] = IF i <= 1 THEN <<Head(q)>>[i] ELSE Tail(q)[i - 1]
    BY <1>1, ConcatProperties
  <2>2. \A i \in 1 .. Len(q) : (<<Head(q)>> \o Tail(q))[i] = q[i]
    BY <1>1, <2>1
  <2>3. QED  BY <2>1, <2>2, SeqEqual
<1>3. QED  BY <1>1, <1>2, ConcatAssociative

\* What a goroutine has in its hands arrives at the end of the sequence ahead.
LEMMA HandedOver ==
    \A x, q, r \in Seq(Event) :
        q \o r \in Seq(Event) /\ (x \o q) \o r = (x \o (q \o r)) \o <<>>
<1> SUFFICES ASSUME NEW x \in Seq(Event), NEW q \in Seq(Event), NEW r \in Seq(Event)
             PROVE  q \o r \in Seq(Event) /\ (x \o q) \o r = (x \o (q \o r)) \o <<>>
  OBVIOUS
<1>1. q \o r \in Seq(Event) /\ (x \o q) \o r = x \o (q \o r)
  BY ConcatProperties, ConcatAssociative
<1>2. x \o (q \o r) \in Seq(Event)
  BY <1>1, ConcatProperties
<1>3. QED  BY <1>1, <1>2, ConcatEmptySeq

LEMMA CaptureStart == CaptureInit => CaptureInv
<1> SUFFICES ASSUME CaptureInit PROVE CaptureInv
  OBVIOUS
<1>1. FlowTypes /\ HandsFree
  <2>1. <<>> \in Seq(Event) /\ 0 \in 0 .. MaxInputs
    BY CaptureAssumption
  <2>2. QED  BY <2>1 DEF CaptureInit, FlowTypes, HandsFree
<1>2. [i \in 1 .. 0 |-> i] = <<>>
  OBVIOUS
<1>3. batched = <<>> /\ local = <<>> /\ events = <<>> /\ inputs = <<>> /\ read = <<>> /\ pushed = 0
      /\ source.holds = <<>> /\ recorder.holds = <<>>
  BY DEF CaptureInit
<1>4. <<>> \o <<>> = <<>>
  BY ConcatEmptySeq, EmptySeq
<1>5. QED  BY <1>1, <1>2, <1>3, <1>4 DEF CaptureInv, BurstsArrive

\* Steps that leave what was read where it is: start, stop, the ends.
LEMMA NothingMoves ==
    ASSUME CaptureInv, FlowTypes', HandsFree', CtxDone => CtxDone',
           CtxDone' \/ /\ UNCHANGED <<inputs, pushed, read, events, local, batched>>
                       /\ source'.holds = source.holds /\ recorder'.holds = recorder.holds
                       /\ mode' # "terminal" => mode # "terminal"
    PROVE  CaptureInv'
BY DEF CaptureInv, BurstsArrive

LEMMA StarterInv ==
    ASSUME CaptureInv,
           Begin \/ Start \/ FallBack \/ StartFails \/ MakeRaw \/ SaveState \/ StartReader
                 \/ ReaderFails \/ Publish
    PROVE  CaptureInv'
<1>1. FlowTypes /\ HandsFree
  BY DEF CaptureInv
<1>2. UNCHANGED <<flow, cancelled, sessionDone>>
  BY DEF Begin, Start, FallBack, StartFails, MakeRaw, SaveState, StartReader, ReaderFails, Publish, Starting
<1>3. FlowTypes' /\ source'.holds = source.holds /\ recorder'.holds = recorder.holds
  <2>1. /\ \/ source' = source \/ source' = [source EXCEPT !.at = "read"]
           \/ source' = [source EXCEPT !.at = "ended"]
        /\ recorder' = recorder \/ recorder' = [recorder EXCEPT !.at = "select"]
    BY DEF Begin, Start, FallBack, StartFails, MakeRaw, SaveState, StartReader, ReaderFails, Publish, Starting
  <2>2. QED  BY <1>1, <1>2, <2>1 DEF FlowTypes, flow
<1>4. HandsFree'
  BY <1>1 DEF HandsFree, FlowTypes, Begin, Start, FallBack, StartFails, MakeRaw, SaveState, StartReader,
           ReaderFails, Publish, Starting
<1>5. mode' # "terminal" => mode # "terminal"
  BY <1>1 DEF HandsFree, Begin, Start, FallBack, StartFails, MakeRaw, SaveState, StartReader, ReaderFails,
           Publish
<1>6. QED  BY <1>2, <1>3, <1>4, <1>5, NothingMoves DEF CtxDone, flow

LEMMA StopperInv ==
    ASSUME CaptureInv, StopSession \/ StopCapture \/ WaiterStops \/ UiStarts \/ UiQuits \/ Exit
    PROVE  CaptureInv'
<1>1. FlowTypes /\ HandsFree
  BY DEF CaptureInv
<1>2. UNCHANGED <<mode, starter, source, recorder, flow>>
  BY DEF StopSession, StopCapture, WaiterStops, UiStarts, UiQuits, Exit, Beside, Control
<1>3. FlowTypes'
  BY <1>1, <1>2 DEF FlowTypes, flow
<1>4. HandsFree'
  BY <1>1, <1>2 DEF HandsFree
<1>5. CtxDone => CtxDone'
  BY DEF CtxDone, StopSession, StopCapture, WaiterStops, UiStarts, UiQuits, Exit, Control
<1>6. QED  BY <1>2, <1>3, <1>4, <1>5, NothingMoves DEF flow

\* The source ends, or its helper.
LEMMA EndsInv ==
    ASSUME CaptureInv, DispatcherEnds \/ HelperDrops \/ HelperEnds \/ ReaderEnds \/ CtrlC \/ ReaderRestores
    PROVE  CaptureInv'
<1>1. FlowTypes /\ HandsFree
  BY DEF CaptureInv
<1>2. /\ UNCHANGED <<starter, Behind, pushed, read, events>> /\ inputs' \in {inputs, <<>>}
      /\ inputs' = inputs \/ CtxDone'
      /\ CtxDone => CtxDone'
      /\ mode' # "terminal" => mode # "terminal"
      /\ starter = "idle" => mode' = mode
  BY <1>1 DEF DispatcherEnds, HelperDrops, HelperEnds, ReaderEnds, CtrlC, ReaderRestores, Control, Behind,
           CtxDone, HandsFree
<1>3. /\ source' \in {source, [source EXCEPT !.at = "ended"], [source EXCEPT !.at = "restore"]}
      /\ source' = source \/ source.at \in {"read", "restore"}
  BY DEF DispatcherEnds, HelperDrops, HelperEnds, ReaderEnds, CtrlC, ReaderRestores
<1>4. inputs' \in Seq(Event)
  <2>1. <<>> \in Seq(Event)
    OBVIOUS
  <2>2. QED  BY <1>1, <1>2, <2>1 DEF FlowTypes
<1>5. FlowTypes' /\ source'.holds = source.holds
  BY <1>1, <1>2, <1>3, <1>4 DEF FlowTypes, Behind
<1>6. HandsFree'
  BY <1>1, <1>2, <1>3 DEF FlowTypes, HandsFree, Behind
<1>7. QED  BY <1>2, <1>5, <1>6, NothingMoves DEF Behind

\* What is in a goroutine's hands when the context ends is lost.
LEMMA GivenUpInv == ASSUME CaptureInv, EmitCancelled \/ RecorderEnds \/ BatcherEnds PROVE CaptureInv'
<1>1. FlowTypes /\ HandsFree
  BY DEF CaptureInv
<1>2. CtxDone'
  BY DEF EmitCancelled, RecorderEnds, BatcherEnds, CtxDone, Control, Ahead
<1>3. CASE EmitCancelled
  <2>1. /\ UNCHANGED <<Control, Behind, inputs, pushed, read, events>> /\ source.at = "emit"
        /\ source' = [at |-> IF Tail(source.holds) = <<>> THEN "read" ELSE "emit", holds |-> Tail(source.holds)]
    BY <1>3 DEF EmitCancelled, Emitted
  <2>2. Tail(source.holds) \in Seq(Event)
    <3>1. source.holds \in Seq(Event) /\ source.holds # <<>>
      BY <1>1, <2>1 DEF FlowTypes, HandsFree
    <3>2. QED  BY <3>1, HeadMoves
  <2>3. FlowTypes' /\ HandsFree'
    BY <1>1, <2>1, <2>2 DEF FlowTypes, HandsFree, Control, Behind
  <2>4. QED  BY <1>2, <2>3, NothingMoves
<1>4. CASE RecorderEnds
  <2>1. /\ UNCHANGED <<Ahead, events, local, batcher, batched>>
        /\ recorder' = [at |-> IF recorder.at = "record" THEN "select" ELSE "ended", holds |-> <<>>]
        /\ recorder.at \in {"select", "record"}
    BY <1>4 DEF RecorderEnds
  <2>2. <<>> \in Seq(Event)
    OBVIOUS
  <2>3. /\ recorder' \in [at : {"none", "select", "record", "ended"}, holds : Seq(Event)]
        /\ recorder'.holds = <<>>
    BY <2>1, <2>2
  <2>4. starter = "published"
    BY <1>1, <2>1 DEF HandsFree
  <2>5. FlowTypes' /\ HandsFree'
    BY <1>1, <2>1, <2>3, <2>4 DEF FlowTypes, HandsFree, Ahead, Control
  <2>6. QED  BY <1>2, <2>5, NothingMoves
<1>5. CASE BatcherEnds
  <2>1. FlowTypes' /\ HandsFree'
    BY <1>1, <1>5 DEF FlowTypes, HandsFree, BatcherEnds, Ahead, Control
  <2>2. QED  BY <1>2, <2>1, NothingMoves
<1>6. QED  BY <1>3, <1>4, <1>5

LEMMA UiTakesInv == ASSUME CaptureInv, UiTakes PROVE CaptureInv'
<1>1. FlowTypes /\ HandsFree /\ BurstsArrive
  BY DEF CaptureInv
<1>2. /\ UNCHANGED <<Control, source, recorder, pushed, read, events, local, batched>>
      /\ mode = "terminal" /\ inputs # <<>> /\ inputs' = Tail(inputs)
  BY DEF UiTakes
<1>3. inputs' \in Seq(Event)
  BY <1>1, <1>2, HeadMoves DEF FlowTypes
<1>4. FlowTypes' /\ HandsFree'
  BY <1>1, <1>2, <1>3 DEF FlowTypes, HandsFree, Control
<1>5. BurstsArrive'
  BY <1>1, <1>2 DEF BurstsArrive, CtxDone, Control
<1>6. QED  BY <1>4, <1>5 DEF CaptureInv

LEMMA PressInv == ASSUME CaptureInv, Press PROVE CaptureInv'
<1>1. FlowTypes /\ HandsFree /\ BurstsArrive
  BY DEF CaptureInv
<1>2. /\ UNCHANGED <<Control, Behind, source, read, events>> /\ pushed < MaxInputs /\ pushed \in 0 .. MaxInputs
      /\ pushed' = pushed + 1 /\ inputs' = Append(inputs, pushed + 1)
  BY <1>1 DEF Press, FlowTypes
<1>3. /\ pushed + 1 \in Event
      /\ [i \in 1 .. pushed + 1 |-> i] = [i \in 1 .. pushed |-> i] \o <<pushed + 1>>
  BY <1>2, OneMorePressed
<1>4. /\ inputs \in Seq(Event) /\ read \in Seq(Event) /\ <<pushed + 1>> \in Seq(Event)
      /\ inputs' = inputs \o <<pushed + 1>> /\ inputs' \in Seq(Event)
  BY <1>1, <1>2, <1>3, AppendIsConcat, AppendProperties DEF FlowTypes
<1>5. FlowTypes' /\ HandsFree'
  BY <1>1, <1>2, <1>4, CaptureAssumption DEF FlowTypes, HandsFree, Control, Behind
<1>6. read \o (inputs \o <<pushed + 1>>) = (read \o inputs) \o <<pushed + 1>>
  BY <1>4, Regrouped
<1>7. BurstsArrive'
  BY <1>1, <1>2, <1>3, <1>4, <1>6 DEF BurstsArrive, CtxDone, Control, Behind
<1>8. QED  BY <1>5, <1>7 DEF CaptureInv

\* What the source has read is in its hands alone.
LEMMA TakenUp ==
    ASSUME CaptureInv, NEW taken \in Seq(Event), taken # <<>>, inputs' \in Seq(Event),
           source.at = "read", source' = [at |-> "emit", holds |-> taken], read' = read \o taken,
           UNCHANGED <<Control, Behind, pushed, events>>,
           mode # "terminal" => read' \o inputs' = read \o inputs
    PROVE  CaptureInv'
<1>1. FlowTypes /\ HandsFree /\ BurstsArrive
  BY DEF CaptureInv
<1>2. source.holds = <<>> /\ read \in Seq(Event)
  BY <1>1 DEF HandsFree, FlowTypes
<1>P. PICK ahead \in Seq(Event) : ahead = batched \o local \o recorder.holds \o events
  BY <1>1, ConcatProperties DEF FlowTypes
<1>3. read' \in Seq(Event) /\ ahead \o <<>> = ahead
  BY <1>2, <1>P, ConcatProperties, ConcatEmptySeq
<1>4. FlowTypes' /\ HandsFree'
  BY <1>1, <1>3 DEF FlowTypes, HandsFree, Control, Behind
<1>5. BurstsArrive'
  <2> SUFFICES ASSUME ~CtxDone' PROVE BurstsArrive'
    BY DEF BurstsArrive
  <2>1. ~CtxDone /\ mode' = mode /\ pushed' = pushed /\ source'.holds = taken
    BY DEF CtxDone, Control
  <2>2. ahead = read /\ (mode # "terminal" => read \o inputs = [i \in 1 .. pushed |-> i])
    BY <1>P, <1>1, <1>2, <1>3, <2>1 DEF BurstsArrive
  <2>3. batched' \o local' \o recorder'.holds \o events' = ahead
    BY <1>P DEF Behind
  <2>4. batched' \o local' \o recorder'.holds \o events' \o source'.holds = read'
    BY <2>1, <2>2, <2>3
  <2>5. QED  BY <2>1, <2>2, <2>4 DEF BurstsArrive
<1>6. QED  BY <1>4, <1>5 DEF CaptureInv

LEMMA ReadInv == ASSUME CaptureInv, Read PROVE CaptureInv'
<1>1. inputs \in Seq(Event) /\ read \in Seq(Event) /\ inputs # <<>>
  BY DEF CaptureInv, FlowTypes, Read
<1>2. /\ read \o inputs = (read \o <<Head(inputs)>>) \o Tail(inputs)
      /\ Head(inputs) \in Event /\ <<Head(inputs)>> \in Seq(Event) /\ Tail(inputs) \in Seq(Event)
  BY <1>1, HeadMoves
<1>3. read' = read \o <<Head(inputs)>>
  BY <1>1, <1>2, AppendIsConcat DEF Read
<1>4. <<Head(inputs)>> # <<>>
  OBVIOUS
<1>5. QED  BY <1>2, <1>3, <1>4, TakenUp DEF Read

\* What one read of the terminal makes of its clicks and keys is not empty.
LEMMA ReadTerminalInv == ASSUME CaptureInv, NEW n \in 1 .. MaxInputs, ReadTerminal(n) PROVE CaptureInv'
<1> DEFINE taken == {inputs[i] : i \in 1 .. n}
<1>1. /\ inputs \in Seq(Event) /\ read \in Seq(Event) /\ n \in 1 .. Len(inputs)
      /\ Len(inputs) \in Nat /\ n \in Nat
  BY DEF CaptureInv, FlowTypes, ReadTerminal
<1>2. PICK clicks \in InOrder(taken \cap Clicks) :
             source' = [at |-> "emit", holds |-> IF taken \subseteq Clicks THEN clicks ELSE clicks \o <<0>>]
  BY DEF ReadTerminal
<1>3. taken \subseteq Event /\ taken # {}
  <2>1. \A i \in 1 .. n : inputs[i] \in Event
    BY <1>1
  <2>2. inputs[1] \in taken
    BY <1>1
  <2>3. QED  BY <2>1, <2>2
<1>4. /\ IsFiniteSet(taken \cap Clicks) /\ Cardinality(taken \cap Clicks) \in Nat
      /\ Cardinality(taken \cap Clicks) = 0 <=> taken \cap Clicks = {}
  <2>1. IsFiniteSet(Event)
    <3>1. 0 \in Int /\ MaxInputs \in Int
      BY CaptureAssumption
    <3>2. QED  BY <3>1, FS_Interval DEF Event
  <2>2. taken \cap Clicks \subseteq Event
    BY <1>3
  <2>3. QED  BY <2>1, <2>2, FS_Subset, FS_CardinalityType, FS_EmptySet
<1>5. clicks \in [1 .. Cardinality(taken \cap Clicks) -> taken \cap Clicks]
  BY <1>2 DEF InOrder
<1>6. clicks \in Seq(Event) /\ Len(clicks) = Cardinality(taken \cap Clicks)
  <2>1. clicks \in [1 .. Cardinality(taken \cap Clicks) -> Event]
    BY <1>3, <1>5
  <2>2. \A k \in Nat : \A f \in [1 .. k -> Event] : f \in Seq(Event) /\ Len(f) = k
    OBVIOUS
  <2>3. QED  BY <1>4, <2>1, <2>2
<1>7. source'.holds \in Seq(Event) /\ source'.holds # <<>>
  <2>1. CASE taken \subseteq Clicks
    <3>1. taken \cap Clicks # {}
      BY <1>3, <2>1
    <3>2. Len(clicks) # 0
      BY <1>4, <1>6, <3>1
    <3>3. source'.holds = clicks
      BY <1>2, <2>1
    <3>4. QED  BY <1>6, <3>2, <3>3
  <2>2. CASE ~(taken \subseteq Clicks)
    <3>1. <<0>> \in Seq(Event) /\ Len(<<0>>) = 1
      BY CaptureAssumption DEF Event
    <3>2. clicks \o <<0>> \in Seq(Event) /\ Len(clicks \o <<0>>) = Len(clicks) + 1 /\ Len(clicks) \in Nat
      BY <1>4, <1>6, <3>1, ConcatProperties
    <3>3. source'.holds = clicks \o <<0>>
      BY <1>2, <2>2
    <3>4. QED  BY <3>2, <3>3
  <2>3. QED  BY <2>1, <2>2
<1>8. source' = [at |-> "emit", holds |-> source'.holds]
  BY <1>2
<1>9. inputs' \in Seq(Event)
  <2>1. inputs' = SubSeq(inputs, n + 1, Len(inputs))
    BY DEF ReadTerminal
  <2>2. QED  BY <1>1, <2>1, SubSeqProperties
<1>10. /\ source.at = "read" /\ read' = read \o source'.holds /\ mode = "terminal"
       /\ UNCHANGED <<Control, Behind, pushed, events>>
  BY DEF ReadTerminal
<1>11. QED  BY <1>7, <1>8, <1>9, <1>10, TakenUp

LEMMA EmitInv == ASSUME CaptureInv, Emit PROVE CaptureInv'
<1>1. FlowTypes /\ HandsFree /\ BurstsArrive
  BY DEF CaptureInv
<1>2. /\ UNCHANGED <<Control, Behind, inputs, pushed, read>> /\ source.at = "emit"
      /\ source' = [at |-> IF Tail(source.holds) = <<>> THEN "read" ELSE "emit", holds |-> Tail(source.holds)]
      /\ events' = Append(events, Head(source.holds))
  BY DEF Emit, Emitted
<1>3. events \in Seq(Event) /\ source.holds \in Seq(Event) /\ source.holds # <<>>
  BY <1>1, <1>2 DEF FlowTypes, HandsFree
<1>P. PICK ahead \in Seq(Event) : ahead = batched \o local \o recorder.holds
  BY <1>1, ConcatProperties DEF FlowTypes
<1>4. ahead \o events \in Seq(Event)
  BY <1>P, <1>3, ConcatProperties
<1>5. /\ (ahead \o events) \o source.holds = ((ahead \o events) \o <<Head(source.holds)>>) \o Tail(source.holds)
      /\ Head(source.holds) \in Event /\ Tail(source.holds) \in Seq(Event)
      /\ <<Head(source.holds)>> \in Seq(Event)
  BY <1>3, <1>4, HeadMoves
<1>6. events' \in Seq(Event) /\ events' = events \o <<Head(source.holds)>>
  BY <1>2, <1>3, <1>5, AppendIsConcat, AppendProperties
<1>7. (ahead \o events) \o <<Head(source.holds)>> = ahead \o events'
  <2>1. ahead \o (events \o <<Head(source.holds)>>) = (ahead \o events) \o <<Head(source.holds)>>
    BY <1>P, <1>3, <1>5, Regrouped
  <2>2. QED  BY <1>6, <2>1
<1>8. FlowTypes' /\ HandsFree'
  BY <1>1, <1>2, <1>5, <1>6 DEF FlowTypes, HandsFree, Control, Behind
<1>9. BurstsArrive'
  <2>1. source'.holds = Tail(source.holds)
    BY <1>2
  <2>2. (ahead \o events') \o source'.holds = (ahead \o events) \o source.holds
    BY <1>5, <1>7, <2>1
  <2>3. QED  BY <1>P, <1>1, <1>2, <2>2 DEF BurstsArrive, CtxDone, Control, Behind
<1>10. QED  BY <1>8, <1>9 DEF CaptureInv

LEMMA RecorderTakesInv == ASSUME CaptureInv, RecorderTakes PROVE CaptureInv'
<1>1. FlowTypes /\ HandsFree /\ BurstsArrive
  BY DEF CaptureInv
<1>2. /\ UNCHANGED <<Ahead, local, batcher, batched>> /\ events # <<>> /\ recorder.holds = <<>>
      /\ recorder.at = "select"
      /\ recorder' = [at |-> "record", holds |-> <<Head(events)>>] /\ events' = Tail(events)
  BY <1>1 DEF RecorderTakes, HandsFree
<1>P. PICK ahead \in Seq(Event) : ahead = batched \o local
  BY <1>1, ConcatProperties DEF FlowTypes
<1>3. events \in Seq(Event) /\ ahead \o <<>> = ahead
  BY <1>P, <1>1, ConcatEmptySeq DEF FlowTypes
<1>4. /\ ahead \o events = (ahead \o <<Head(events)>>) \o Tail(events)
      /\ <<Head(events)>> \in Seq(Event) /\ Tail(events) \in Seq(Event)
  BY <1>P, <1>2, <1>3, HeadMoves
<1>5. FlowTypes' /\ HandsFree'
  BY <1>P, <1>1, <1>2, <1>4 DEF FlowTypes, HandsFree, Ahead, Control
<1>6. BurstsArrive'
  <2>1. ahead \o recorder'.holds \o events' = ahead \o recorder.holds \o events
    BY <1>2, <1>3, <1>4
  <2>2. QED  BY <1>P, <1>1, <1>2, <2>1 DEF BurstsArrive, CtxDone, Ahead, Control
<1>7. QED  BY <1>5, <1>6 DEF CaptureInv

LEMMA RecordInv == ASSUME CaptureInv, Record PROVE CaptureInv'
<1>1. FlowTypes /\ HandsFree /\ BurstsArrive
  BY DEF CaptureInv
<1>2. /\ UNCHANGED <<Ahead, events, batcher, batched>> /\ recorder.at = "record"
      /\ recorder' = [at |-> "select", holds |-> <<>>] /\ local' = local \o recorder.holds
  BY DEF Record
<1>3. local \in Seq(Event) /\ recorder.holds \in Seq(Event) /\ batched \in Seq(Event) /\ <<>> \in Seq(Event)
  BY <1>1, EmptySeq DEF FlowTypes
<1>4. /\ local \o recorder.holds \in Seq(Event)
      /\ (batched \o local) \o recorder.holds = (batched \o (local \o recorder.holds)) \o <<>>
  BY <1>3, HandedOver
<1>5. FlowTypes' /\ HandsFree'
  BY <1>1, <1>2, <1>3, <1>4 DEF FlowTypes, HandsFree, Ahead, Control
<1>6. BurstsArrive'
  BY <1>1, <1>2, <1>4 DEF BurstsArrive, CtxDone, Ahead, Control
<1>7. QED  BY <1>5, <1>6 DEF CaptureInv

LEMMA BatcherTakesInv == ASSUME CaptureInv, BatcherTakes PROVE CaptureInv'
<1>1. FlowTypes /\ HandsFree /\ BurstsArrive
  BY DEF CaptureInv
<1>2. /\ UNCHANGED <<Ahead, events, recorder, batcher>> /\ local # <<>>
      /\ batched' = Append(batched, Head(local)) /\ local' = Tail(local)
  BY DEF BatcherTakes
<1>3. local \in Seq(Event) /\ batched \in Seq(Event)
  BY <1>1 DEF FlowTypes
<1>4. /\ batched \o local = (batched \o <<Head(local)>>) \o Tail(local)
      /\ Head(local) \in Event /\ Tail(local) \in Seq(Event)
  BY <1>2, <1>3, HeadMoves
<1>5. batched' = batched \o <<Head(local)>> /\ batched' \in Seq(Event)
  BY <1>2, <1>3, <1>4, AppendIsConcat, AppendProperties
<1>6. FlowTypes' /\ HandsFree'
  BY <1>1, <1>2, <1>4, <1>5 DEF FlowTypes, HandsFree, Ahead, Control
<1>7. BurstsArrive'
  BY <1>1, <1>2, <1>4, <1>5 DEF BurstsArrive, CtxDone, Ahead, Control
<1>8. QED  BY <1>6, <1>7 DEF CaptureInv

LEMMA CaptureStep == CaptureInv /\ [CaptureNext]_captureVars => CaptureInv'
<1> SUFFICES ASSUME CaptureInv, [CaptureNext]_captureVars PROVE CaptureInv'
  OBVIOUS
<1>1. CASE UNCHANGED captureVars
  BY <1>1 DEF captureVars, CaptureInv, FlowTypes, HandsFree, BurstsArrive, CtxDone
<1>2. CASE StarterStep \/ WaiterStep
  BY <1>2, StarterInv, StopperInv DEF StarterStep, WaiterStep
<1>3. CASE SourceStep
  BY <1>3, ReadInv, ReadTerminalInv, EmitInv, GivenUpInv, EndsInv DEF SourceStep
<1>4. CASE OtherStep
  BY <1>4, StarterInv, StopperInv, UiTakesInv, PressInv, EndsInv, GivenUpInv, RecorderTakesInv, RecordInv,
     BatcherTakesInv DEF OtherStep
<1>5. QED  BY <1>1, <1>2, <1>3, <1>4, StopperInv DEF CaptureNext

\* While the capture runs, every event of what its source has read was batched or is on its
\* way, once and in order, however full the channels are; from native hooks and the helper
\* these are the keys and clicks handed over, one by one, from the terminal what the reader
\* makes of each read, its clicks and then one event for its keys (capture.go, emit,
\* startTerminal; session.go, recordLocalActivity).
THEOREM BurstsAreKept == CaptureInit /\ [][CaptureNext]_captureVars => []BurstsArrive
<1>1. CaptureInv => BurstsArrive
  BY DEF CaptureInv
<1>2. QED  BY <1>1, CaptureStart, CaptureStep, PTL

-----------------------------------------------------------------------------
(* Settings: a session whose controls are left alone has told the relay its        *)
(* presence, or configLoop holds the profile it is about to send.                  *)

Links == [at : {"off", "down", "dialing", "up"}, server : Server, presence : Presence]
Editors == [at : {"idle", "cli", "tui"}, holds : SessionConfig]
Polls == [at : {"off", "idle", "read", "send", "listening", "play", "show"}, read : SessionConfig]

ProfileTypes == /\ file \in SessionConfig /\ cfg \in SessionConfig /\ editor \in Editors
                /\ shown \in Listening /\ poll \in Polls /\ link \in Links

\* Without a use of a control none is under way, and what is to be sent is what was taken over.
ProfileInv == /\ ProfileTypes
              /\ ~pressed => /\ control = "idle"
                             /\ poll.at = "send" => cfg.presence = poll.read.presence
              /\ ProfileIsTold

LEMMA NormalKeeps ==
    ASSUME NEW c \in SessionConfig
    PROVE  Normal(c) \in SessionConfig
  BY DEF Normal, SessionConfig, Batch, Server

LEMMA ProfileStart == SettingsInit => ProfileInv
<1> SUFFICES ASSUME SettingsInit PROVE ProfileInv
  OBVIOUS
<1>1. (CHOOSE l \in Listening : TRUE) \in Listening /\ (CHOOSE p \in Presence : TRUE) \in Presence
  BY SettingsAssumption
<1>2. file \in SessionConfig
  BY <1>1 DEF SettingsInit, SessionConfig, Server, Batch
<1>3. ProfileTypes
  BY <1>1, <1>2 DEF SettingsInit, ProfileTypes, Editors, Polls, Links, Server, SessionConfig
<1>4. QED  BY <1>3 DEF SettingsInit, ProfileInv, ProfileIsTold

LEMMA RunProfile == ASSUME ProfileInv, Run PROVE ProfileInv'
<1>1. file \in SessionConfig /\ editor \in Editors /\ poll \in Polls /\ link \in Links /\ shown \in Listening
  BY DEF ProfileInv, ProfileTypes
<1>2. PICK s \in Server, b \in Batch : file' = Normal([file EXCEPT !.server = s, !.batch = b])
  BY DEF Run
<1>3. [file EXCEPT !.server = s, !.batch = b] \in SessionConfig
  BY <1>1 DEF SessionConfig
<1>4. file' \in SessionConfig
  BY <1>2, <1>3, NormalKeeps
<1>5. /\ cfg' = file' /\ editor' = [editor EXCEPT !.holds = file'] /\ poll' = [at |-> "idle", read |-> file']
      /\ link' = [link EXCEPT !.at = "down", !.server = file'.server]
      /\ UNCHANGED <<pressed, shown, control>>
  BY DEF Run
<1>6. editor' \in Editors
  BY <1>1, <1>4, <1>5 DEF Editors
<1>7. link' \in Links /\ link'.at = "down" /\ poll' \in Polls /\ poll'.at = "idle"
  BY <1>1, <1>4, <1>5 DEF Links, Polls, SessionConfig
<1>8. QED  BY <1>1, <1>4, <1>5, <1>6, <1>7 DEF ProfileInv, ProfileTypes, ProfileIsTold

LEMMA OthersProfile == ASSUME ProfileInv, Edit("cli") \/ Edit("tui") \/ Save PROVE ProfileInv'
<1>1. ProfileTypes /\ editor.holds \in SessionConfig
  BY DEF ProfileInv, ProfileTypes, Editors
<1>2. UNCHANGED <<pressed, cfg, shown, poll, control, link>>
  BY DEF Edit, Save
<1>3. file' \in SessionConfig /\ editor' \in Editors
  <2>1. ASSUME NEW kind \in {"cli", "tui"}, Edit(kind) PROVE file' \in SessionConfig /\ editor' \in Editors
    BY <1>1, <2>1 DEF Edit, Editors, ProfileTypes
  <2>2. CASE Save
    <3>1. file' \in SessionConfig
      BY <1>1, <2>2, NormalKeeps DEF Save
    <3>2. QED  BY <2>2, <3>1 DEF Save, Editors
  <2>3. QED  BY <2>1, <2>2
<1>4. QED  BY <1>1, <1>2, <1>3 DEF ProfileInv, ProfileTypes, ProfileIsTold

\* A step of configLoop changes where it is, and of the configuration one part.
LEMMA PollFields ==
    ASSUME NEW p \in Polls, NEW a \in {"send", "listening", "play", "show", "idle"}, NEW c \in SessionConfig
    PROVE  /\ [p EXCEPT !.at = a] \in Polls
           /\ [p EXCEPT !.at = a].at = a /\ [p EXCEPT !.at = a].read = p.read
           /\ [c EXCEPT !.presence = p.read.presence] \in SessionConfig
           /\ [c EXCEPT !.presence = p.read.presence].presence = p.read.presence
           /\ [c EXCEPT !.listening = p.read.listening] \in SessionConfig
           /\ [c EXCEPT !.listening = p.read.listening].presence = c.presence
<1>1. p.read \in SessionConfig /\ p.read.presence \in Presence /\ p.read.listening \in Listening
  BY DEF Polls, SessionConfig
<1>2. [p EXCEPT !.at = a] \in Polls /\ [p EXCEPT !.at = a].at = a /\ [p EXCEPT !.at = a].read = p.read
  BY DEF Polls
<1>3. QED  BY <1>1, <1>2 DEF SessionConfig

\* What the relay is told is told over a connection only.
LEMMA ToldIs ==
    ASSUME NEW p \in Presence, link \in Links
    PROVE  /\ Told(p) \in Links /\ Told(p).at = link.at
           /\ link.at = "up" => Told(p).presence = p
  BY DEF Told, Links

LEMMA PollProfile == ASSUME ProfileInv, PollStep PROVE ProfileInv'
<1>1. ProfileTypes /\ poll \in Polls /\ cfg \in SessionConfig /\ link \in Links
  BY DEF ProfileInv, ProfileTypes
<1>2. CASE PollRead
  <2>1. poll' = [at |-> "read", read |-> file] /\ poll.at = "idle" /\ poll' \in Polls /\ poll'.at = "read"
    BY <1>1, <1>2 DEF PollRead, Polls, ProfileTypes
  <2>2. QED  BY <1>1, <1>2, <2>1 DEF PollRead, Polled, ProfileInv, ProfileTypes, ProfileIsTold
<1>3. CASE PollPresence
  <2>1. CASE poll.read.presence # cfg.presence
    <3>1. /\ poll' = [poll EXCEPT !.at = "send"] /\ cfg' = [cfg EXCEPT !.presence = poll.read.presence]
          /\ UNCHANGED <<file, editor, pressed, control, shown, link>>
      BY <1>3, <2>1 DEF PollPresence, PollGo, Polled
    <3>2. poll' \in Polls /\ poll'.at = "send" /\ poll'.read = poll.read /\ cfg' \in SessionConfig
          /\ cfg'.presence = poll.read.presence
      BY <1>1, <3>1, PollFields
    <3>3. QED  BY <1>1, <3>1, <3>2 DEF ProfileInv, ProfileTypes, ProfileIsTold
  <2>2. CASE poll.read.presence = cfg.presence
    <3>1. /\ poll' = [poll EXCEPT !.at = "listening"] /\ cfg' = [cfg EXCEPT !.presence = poll.read.presence]
          /\ poll.at = "read" /\ UNCHANGED <<file, editor, pressed, control, shown, link>>
      BY <1>3, <2>2 DEF PollPresence, PollGo, Polled
    <3>2. poll' \in Polls /\ poll'.at = "listening" /\ cfg' \in SessionConfig
          /\ cfg'.presence = cfg.presence
      BY <1>1, <2>2, <3>1, PollFields
    <3>3. QED  BY <1>1, <3>1, <3>2 DEF ProfileInv, ProfileTypes, ProfileIsTold
  <2>3. QED  BY <2>1, <2>2
<1>4. CASE PollSend
  <2>1. /\ poll.at = "send" /\ poll' = [poll EXCEPT !.at = "listening"]
        /\ link' = Told(poll.read.presence) /\ UNCHANGED <<file, editor, pressed, control, cfg, shown>>
    BY <1>4 DEF PollSend, PollGo, Polled
  <2>2. poll' \in Polls /\ poll'.at = "listening" /\ poll.read.presence \in Presence
    BY <1>1, <2>1, PollFields DEF Polls, SessionConfig
  <2>3. link' \in Links /\ link'.at = link.at /\ (link.at = "up" => link'.presence = poll.read.presence)
    BY <1>1, <2>1, <2>2, ToldIs
  <2>4. QED  BY <1>1, <2>1, <2>2, <2>3 DEF ProfileInv, ProfileTypes, ProfileIsTold
<1>5. CASE PollListening
  <2>1. PICK a \in {"send", "listening", "play", "show", "idle"} : poll' = [poll EXCEPT !.at = a] /\ a # "send"
    BY <1>5 DEF PollListening, PollGo
  <2>2. /\ poll.at = "listening" /\ cfg' = [cfg EXCEPT !.listening = poll.read.listening]
        /\ UNCHANGED <<file, editor, pressed, control, shown, link>>
    BY <1>5 DEF PollListening, PollGo, Polled
  <2>3. poll' \in Polls /\ poll'.at # "send" /\ cfg' \in SessionConfig /\ cfg'.presence = cfg.presence
    BY <1>1, <2>1, <2>2, PollFields
  <2>4. QED  BY <1>1, <2>2, <2>3 DEF ProfileInv, ProfileTypes, ProfileIsTold
<1>6. CASE PollPlay \/ PollShow
  <2>1. PICK a \in {"send", "listening", "play", "show", "idle"} : poll' = [poll EXCEPT !.at = a] /\ a # "send"
    BY <1>6 DEF PollPlay, PollShow, PollGo
  <2>2. /\ poll.at \in {"play", "show"} /\ shown' \in {shown, poll.read.listening}
        /\ UNCHANGED <<file, editor, pressed, control, cfg, link>>
    BY <1>6 DEF PollPlay, PollShow, PollGo, Polled
  <2>3. poll' \in Polls /\ poll'.at # "send"
    BY <1>1, <2>1, PollFields
  <2>4. shown' \in Listening
    BY <1>1, <2>2 DEF ProfileTypes, Polls, SessionConfig
  <2>5. QED  BY <1>1, <2>2, <2>3, <2>4 DEF ProfileInv, ProfileTypes, ProfileIsTold
<1>7. QED  BY <1>2, <1>3, <1>4, <1>5, <1>6 DEF PollStep

\* A control marks the session as no longer left alone, or is that session's next step.
LEMMA ControlsProfile ==
    ASSUME ProfileInv,
           (\E l \in Listening : Toggle(l)) \/ (\E p \in Presence : CyclePresence(p)) \/ ControlStep
    PROVE  ProfileInv'
<1>1. ProfileTypes /\ cfg \in SessionConfig /\ link \in Links /\ cfg.presence \in Presence
  BY DEF ProfileInv, ProfileTypes, SessionConfig
<1>2. ASSUME NEW l \in Listening, Toggle(l) PROVE ProfileTypes' /\ pressed'
  BY <1>1, <1>2 DEF Toggle, Pressed, ProfileTypes, SessionConfig
<1>3. ASSUME NEW p \in Presence, CyclePresence(p) PROVE ProfileTypes' /\ pressed'
  BY <1>1, <1>3 DEF CyclePresence, Pressed, ProfileTypes, SessionConfig
<1>4. ASSUME ControlStep PROVE ProfileTypes' /\ pressed'
  <2>1. control # "idle" /\ pressed /\ pressed' = pressed
    BY <1>4, Zenon DEF ControlStep, ControlPlay, ControlSave, TellPresence, Pressed, ProfileInv
  <2>2. ProfileTypes'
    BY <1>1, <1>4, NormalKeeps, ToldIs DEF ControlStep, ControlPlay, ControlSave, TellPresence, Pressed, ProfileTypes
  <2>3. QED  BY <2>1, <2>2
<1>5. ProfileTypes' /\ pressed'
  BY <1>2, <1>3, <1>4
<1>6. QED  BY <1>5 DEF ProfileInv, ProfileIsTold

LEMMA LinkProfile == ASSUME ProfileInv, Reload \/ DialServer \/ SendJoin \/ Lose PROVE ProfileInv'
<1>1. /\ ProfileTypes /\ file \in SessionConfig /\ cfg \in SessionConfig /\ link \in Links
      /\ cfg.presence \in Presence
  BY DEF ProfileInv, ProfileTypes, SessionConfig
<1>2. UNCHANGED <<file, editor, pressed, shown, poll, control>>
  BY DEF Reload, DialServer, SendJoin, Lose, Connecting
<1>3. cfg' \in SessionConfig /\ cfg'.presence = cfg.presence
  BY <1>1 DEF Reload, DialServer, SendJoin, Lose, SessionConfig
<1>4. link' \in Links /\ (link'.at = "up" => link'.presence = cfg.presence)
  BY <1>1 DEF Reload, DialServer, SendJoin, Lose, Links, SessionConfig
<1>5. QED  BY <1>1, <1>2, <1>3, <1>4 DEF ProfileInv, ProfileTypes, ProfileIsTold

LEMMA ProfileStep == ProfileInv /\ [SettingsNext]_settingsVars => ProfileInv'
<1> SUFFICES ASSUME ProfileInv, [SettingsNext]_settingsVars PROVE ProfileInv'
  OBVIOUS
<1>1. CASE UNCHANGED settingsVars
  BY <1>1 DEF settingsVars, ProfileInv, ProfileTypes, ProfileIsTold
<1>2. QED
  BY <1>1, RunProfile, OthersProfile, PollProfile, ControlsProfile, LinkProfile DEF SettingsNext

\* Over every connection the relay knows the presence the session has taken over, or is
\* about to be told it, wherever the poll, a loss of the connection and the next join fall
\* (session.go, configLoop, sendProfile and connectOnce).
THEOREM RelayKnowsProfile == SettingsInit /\ [][SettingsNext]_settingsVars => []ProfileIsTold
<1>1. ProfileInv => ProfileIsTold
  BY DEF ProfileInv
<1>2. QED  BY <1>1, ProfileStart, ProfileStep, PTL

=============================================================================
