----------------------------- MODULE RangeSlider -----------------------------
(***************************************************************************)
(* The slider of jquery-ui.js with two handles and a range between them,   *)
(* on top of ui.mouse: the handles are moved with the mouse, with the keys *)
(* and by the page, all of which may overlap.  Releases of the button or   *)
(* of a key may get lost, and the page's start and slide callbacks may     *)
(* refuse.  A place of the mouse is the value that it stands for.          *)
(***************************************************************************)
EXTENDS Integers

CONSTANTS
    ValueMin, ValueMax, Step, PageStep,  \* PageStep is a fifth of the whole
    RangePlaces,                         \* of the mouse, and what the page sets
    MaxStrokes                           \* the bound on what is done to the slider

ASSUME RangeAssumption ==
    /\ ValueMin \in Int /\ ValueMax \in Int /\ ValueMin < ValueMax
    /\ Step \in Nat \ {0} /\ PageStep \in Nat /\ 5 * PageStep = ValueMax - ValueMin
    /\ RangePlaces \subseteq ValueMin..ValueMax /\ MaxStrokes \in Nat

VARIABLES
    slider,      \* the widget, a record:
                 \*   values       options.values, as they were set, of the handles
                 \*   third        whether there is a third one, without a handle
                 \*   keySliding, mouseSliding   _keySliding, _mouseSliding
                 \*   index        _handleIndex, 0 for null
                 \*   started      _mouseStarted
                 \*   listening    whether the document's mousemove is bound
                 \*   delayMet     mouseDelayMet
                 \*   waiting      whether a delay timer is set
                 \*   delayed, disabled   the options
    hand,        \* the user: [button, key], whether one is down; and the ones
                 \* of them whose release the slider has not been told: lost
    toldValues,  \* the values of the last change event
    crossed,     \* whether the page put the handles in the wrong order
    strokes

rangeVars == <<slider, hand, toldValues, crossed, strokes>>

Handles == 1..2
OtherHandle(i) == 3 - i

\* _trimAlignValue: the nearest step, counted from the minimum.
TrimAlign(v) ==
    LET rest == (v - ValueMin) % Step
    IN  IF v <= ValueMin THEN ValueMin
        ELSE IF v >= ValueMax THEN ValueMax
        ELSE v - rest + (IF 2 * rest >= Step THEN Step ELSE 0)

Values(s) == [i \in Handles |-> TrimAlign(s.values[i])]

RangeInit ==
    /\ slider \in [values : {<<ValueMin, ValueMax>>}, third : {FALSE}, keySliding : {FALSE},
                   mouseSliding : {FALSE}, index : {0}, started : {FALSE},
                   listening : {FALSE}, delayMet : {FALSE}, waiting : {FALSE},
                   delayed : BOOLEAN, disabled : {FALSE}]
    /\ hand = [button |-> FALSE, key |-> FALSE, lost |-> {}]
    /\ toldValues = Values(slider)
    /\ crossed = FALSE
    /\ strokes = 0

Stroke == strokes < MaxStrokes /\ strokes' = strokes + 1

\* _change announces the values when nothing slides any more.
Changed(s, before) == IF s.keySliding \/ s.mouseSliding THEN before ELSE Values(s)

\* mutant: the other handle does not stop this one.
HeldByNothing(s, i, v) == v

(***************************************************************************)
(* _slide: a handle goes no further than the other one, as long as there   *)
(* are two values; the page's slide callback may cancel.                   *)
(***************************************************************************)
Held(s, i, v) ==
    LET other == Values(s)[OtherHandle(i)]
    IN  IF ~s.third /\ ((i = 1 /\ v > other) \/ (i = 2 /\ v < other)) THEN other ELSE v

\* The handle that _mouseCapture looks for beyond the second.  Its value is a
\* third of options.values: no handle shows it, but they are not two any more.
NoHandle == 3

SlideHandle(s, i, v, allowed) ==
    IF ~allowed THEN s
    ELSE IF i = NoHandle THEN [s EXCEPT !.third = TRUE]
    ELSE IF i \in Handles /\ Held(s, i, v) # Values(s)[i]
    THEN [s EXCEPT !.values[i] = TrimAlign(Held(s, i, v))] ELSE s

Slid(s, t) == crossed' = (crossed /\ s.values = t.values)

-----------------------------------------------------------------------------
(* The mouse.                                                              *)

\* _mouseCapture takes the nearer handle, the first of two; if both are at
\* the minimum the second.
Closest(s, v) ==
    LET far(i) == IF v > Values(s)[i] THEN v - Values(s)[i] ELSE Values(s)[i] - v
        near == IF far(1) <= far(2) THEN 1 ELSE 2
    IN  IF Values(s)[2] = ValueMin THEN near + 1 ELSE near

\* With handles that have crossed there may be no handle to take: the place of
\* none is asked for if the button goes down on a handle, and that raises.
Raises(i, over) == i = NoHandle /\ over

\* _mouseCapture goes on: unless a handle is hovered, the one it took is moved.
Taken(s, i, v, over, hovered, allowed) ==
    LET sliding == [s EXCEPT !.mouseSliding = TRUE, !.index = i]
    IN  IF hovered \/ Raises(i, over) THEN sliding ELSE SlideHandle(sliding, i, v, allowed)

\* _mouseUp and _mouseStop.
StoppedDrag(s) ==
    IF s.started THEN [s EXCEPT !.listening = FALSE, !.started = FALSE,
                                !.mouseSliding = FALSE, !.index = 0]
    ELSE [s EXCEPT !.listening = FALSE]

(***************************************************************************)
(* _mouseDown: a release that was missed is made up for.  The callback     *)
(* start has run and _mouseSliding is set when an exception leaves the     *)
(* function; over tells whether the event's target is a handle, hovered    *)
(* whether one has the class.                                              *)
(***************************************************************************)
Down(v, over, hovered, start, allowed) ==
    /\ Stroke /\ ~hand.button
    /\ LET s     == IF slider.started THEN StoppedDrag(slider) ELSE slider
           i     == Closest(s, v)
           taken == ~s.disabled /\ start
           met   == ~s.delayed
           raised == taken /\ Raises(i, over)
           moved == Taken(s, i, v, over, hovered, allowed)
       IN  /\ slider' = IF ~taken THEN s
                        ELSE IF raised THEN moved
                        ELSE [moved EXCEPT !.delayMet = met, !.started = met,
                                           !.waiting = @ \/ ~met, !.listening = TRUE]
           /\ Slid(s, slider')
           /\ toldValues' = IF slider.started THEN Changed(s, toldValues) ELSE toldValues
           /\ hand' = [hand EXCEPT !.button = TRUE,
                          !.lost = IF raised THEN @ \cup {"button"}
                                   ELSE IF slider.started THEN @ \ {"button"} ELSE @]

\* _mouseMove: the drag starts once the delay is over.
DragHandle(v, allowed) ==
    /\ Stroke /\ slider.listening
    /\ slider.started \/ slider.delayMet
    /\ slider' = SlideHandle([slider EXCEPT !.started = TRUE], slider.index, v, allowed)
    /\ Slid(slider, slider')
    /\ UNCHANGED <<hand, toldValues>>

\* The timer of the delay is never cleared.
DragDelayOver ==
    /\ slider.waiting
    /\ slider' = [slider EXCEPT !.waiting = FALSE, !.delayMet = TRUE]
    /\ UNCHANGED <<hand, toldValues, crossed, strokes>>

\* The button is released; only a drag that has started is stopped.
ButtonUp ==
    /\ hand.button
    /\ slider' = IF slider.listening THEN StoppedDrag(slider) ELSE slider
    /\ toldValues' = IF slider.listening /\ slider.started THEN Changed(slider', toldValues)
                     ELSE toldValues
    /\ hand' = [hand EXCEPT !.button = FALSE,
                   !.lost = IF ~slider.listening THEN @
                            ELSE IF slider.started THEN @ \ {"button"} ELSE @ \cup {"button"}]
    /\ UNCHANGED <<crossed, strokes>>

\* "we may have missed mouseup (out of window)"
UpMissed ==
    /\ hand.button
    /\ hand' = [hand EXCEPT !.button = FALSE,
                   !.lost = IF slider.listening THEN @ \cup {"button"} ELSE @]
    /\ UNCHANGED <<slider, toldValues, crossed, strokes>>

-----------------------------------------------------------------------------
(* The keys.                                                               *)

RangeKeys == {"home", "end", "pageUp", "pageDown", "up", "down"}
KeyTarget(key, v) ==
    CASE key = "home"     -> ValueMin
      [] key = "end"      -> ValueMax
      [] key = "pageUp"   -> TrimAlign(v + PageStep)
      [] key = "pageDown" -> TrimAlign(v - PageStep)
      [] key = "up"       -> TrimAlign(v + Step)
      [] key = "down"     -> TrimAlign(v - Step)

\* A handle at the end takes no step further.
AtEnd(key, v) == (key = "up" /\ v = ValueMax) \/ (key = "down" /\ v = ValueMin)

\* The start callback is asked for the first of the repeated events only,
\* and a refusal ends that event, not the key's sliding.
KeyDown(i, key, start, allowed) ==
    /\ Stroke /\ ~slider.disabled
    /\ LET sliding == [slider EXCEPT !.keySliding = TRUE]
       IN  slider' = IF ~slider.keySliding /\ ~start THEN sliding
                     ELSE SlideHandle(sliding, i, KeyTarget(key, Values(slider)[i]),
                                      allowed /\ ~AtEnd(key, Values(slider)[i]))
    /\ Slid(slider, slider')
    /\ hand' = [hand EXCEPT !.key = TRUE]
    /\ UNCHANGED toldValues

KeyUp ==
    /\ hand.key
    /\ slider' = [slider EXCEPT !.keySliding = FALSE]
    /\ toldValues' = IF slider.keySliding THEN Changed(slider', toldValues) ELSE toldValues
    /\ hand' = [hand EXCEPT !.key = FALSE, !.lost = @ \ {"key"}]
    /\ UNCHANGED <<crossed, strokes>>

\* The focus has gone elsewhere in between.
KeyUpElsewhere ==
    /\ hand.key
    /\ hand' = [hand EXCEPT !.key = FALSE,
                            !.lost = IF slider.keySliding THEN @ \cup {"key"} ELSE @]
    /\ UNCHANGED <<slider, toldValues, crossed, strokes>>

-----------------------------------------------------------------------------
(* The page.                                                               *)

Set(s) ==
    /\ slider' = s
    /\ toldValues' = Changed(s, toldValues)
    /\ crossed' = (Values(s)[1] > Values(s)[2])
    /\ UNCHANGED hand

\* values(i, v), and option("values", [v, w]), which does not align them.
SetValue(i, v) == Stroke /\ Set([slider EXCEPT !.values[i] = TrimAlign(v)])
SetOption(v, w) == Stroke /\ Set([slider EXCEPT !.values = <<v, w>>, !.third = FALSE])

DisableRange(d) ==
    /\ Stroke /\ d # slider.disabled
    /\ slider' = [slider EXCEPT !.disabled = d]
    /\ UNCHANGED <<hand, toldValues, crossed>>

RangeNext ==
    \/ \E v \in RangePlaces, allowed \in BOOLEAN :
        \/ \E over, hovered, start \in BOOLEAN : Down(v, over, hovered, start, allowed)
        \/ DragHandle(v, allowed)
    \/ DragDelayOver \/ ButtonUp \/ UpMissed
    \/ \E i \in Handles, key \in RangeKeys, start, allowed \in BOOLEAN :
          KeyDown(i, key, start, allowed)
    \/ KeyUp \/ KeyUpElsewhere
    \/ \E i \in Handles, v \in RangePlaces : SetValue(i, v)
    \/ \E v, w \in RangePlaces : SetOption(v, w)
    \/ \E d \in BOOLEAN : DisableRange(d)

RangeSpec == RangeInit /\ [][RangeNext]_rangeVars

-----------------------------------------------------------------------------
RangeTypeOK ==
    /\ slider.values \in [Handles -> ValueMin..ValueMax + Step]
    /\ slider.index \in 0..NoHandle /\ slider.started \in BOOLEAN /\ slider.third \in BOOLEAN
    /\ slider.keySliding \in BOOLEAN /\ slider.mouseSliding \in BOOLEAN
    /\ hand.lost \subseteq {"button", "key"}
    /\ strokes \in 0..MaxStrokes

(***************************************************************************)
(* The range is never negative: whoever moves which handle while the other *)
(* one is moved too, the first stays left of the second, unless the page   *)
(* itself has set them otherwise and nobody has moved one since.  A button *)
(* that goes down on the track beside handles that the page has crossed    *)
(* may leave a third value, and handles that pass each other from then on, *)
(* until the page sets the option again.                                   *)
(***************************************************************************)
HandlesInOrder == ~crossed /\ ~slider.third => Values(slider)[1] <= Values(slider)[2]

(***************************************************************************)
(* A page that listens to change knows the values: once the button and the *)
(* keys are up and no release got lost, the last change event told them.   *)
(***************************************************************************)
ValuesAreTold ==
    ~hand.button /\ ~hand.key /\ hand.lost = {} => toldValues = Values(slider)
=============================================================================
