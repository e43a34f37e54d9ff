------------------------------ MODULE Effects ------------------------------
(***************************************************************************)
(* The animation queues of jquery.js, which the animations of the site's   *)
(* scripts go through: queue, dequeue and delay, animate and the timers    *)
(* that carry it, stop, and show and hide without a duration.              *)
(*                                                                         *)
(* A browser runs one function at a time, but jQuery calls the page back   *)
(* from the middle of its own loops: the callback of an animation runs     *)
(* inside the tick that ended it.  fx.frames is that stack of half finished*)
(* loops, its head the innermost; the page and the browser's timers act    *)
(* only while it is empty.                                                 *)
(***************************************************************************)
EXTENDS Naturals, Sequences, FiniteSets, SequencesExt

CONSTANTS
    FxElements,  \* the animated elements
    FxKinds,     \* what the page animates: "show", "hide", "toggle", "move"
    Props,       \* the properties of an animation: one fx object each
    Callbacks,   \* what complete callbacks do: "none", "stop", "animate"
    MaxCalls     \* the bound on calls of the page

ASSUME EffectsAssumption ==
    /\ FxKinds \subseteq {"show", "hide", "toggle", "move"}
    /\ Callbacks \subseteq {"none", "stop", "animate"}
    /\ Props \in Nat \ {0} /\ MaxCalls \in Nat

VARIABLES
    fx,        \* what jQuery and the document hold, a record:
               \*   queue    the fx queue of each element, sentinel included
               \*   shown    whether each element is displayed
               \*   timers   jQuery.timers, the fx objects being stepped
               \*   ticking  whether the interval that calls fx.tick is set
               \*   waiting  the delays whose timeout has not expired
               \*   left     what each started animation has still to finish
               \*   frames   the loops and callbacks under way
    calls,     \* the calls of the page so far
    disturbed  \* elements whose queue was moved on behind its back

fxVars == <<fx, calls, disturbed>>

Ids == 1..MaxCalls
Sentinel == [kind |-> "inprogress", id |-> 0, cb |-> "none"]
NoTimer == [elem |-> "none", id |-> 0, prop |-> 0]

(***************************************************************************)
(* An animation that would hide a hidden element or show a shown one calls *)
(* its complete function at once, which dequeues the next one.             *)
(***************************************************************************)
Immediate(item, visible) ==
    \/ item.kind = "hide" /\ ~visible
    \/ item.kind = "show" /\ visible

Unsentinelled(q) == IF q # <<>> /\ Head(q) = Sentinel THEN Tail(q) ELSE q

CallbackFrames(e, items) ==
    LET called(cb) == IF cb = "none" THEN <<>>
                      ELSE <<[op |-> "callback", elem |-> e, cb |-> cb]>>
    IN  FlattenSeq(Reverse([i \in 1..Len(items) |-> called(items[i].cb)]))

\* The fx objects of an animation, one for each property.
TimersOf(e, item, kind) ==
    [p \in 1..Props |-> [elem |-> e, id |-> item.id, prop |-> p,
                         hide |-> kind = "hide", cb |-> item.cb]]

(***************************************************************************)
(* jQuery.dequeue: drops the sentinel, takes the next function and calls   *)
(* it behind a new sentinel.  The function of animate looks at the element *)
(* only then; it starts a timer for each property.  That of delay sets a   *)
(* timeout.  s is the state at the call, the result that at the return.    *)
(***************************************************************************)
Dequeued(s, e) ==
    LET rest == Unsentinelled(s.queue[e])
        k    == SelectInSeq(rest, LAMBDA item : ~Immediate(item, s.shown[e]))
        over == IF k = 0 THEN rest ELSE SubSeq(rest, 1, k - 1)
        item == rest[k]
        kind == IF item.kind # "toggle" THEN item.kind
                ELSE IF s.shown[e] THEN "hide" ELSE "show"
        back == CallbackFrames(e, over) \o s.frames
        next == [s.queue EXCEPT ![e] =
                    <<Sentinel>> \o SubSeq(rest, k + 1, Len(rest))]
    IN  CASE k = 0 -> [s EXCEPT !.queue[e] = <<>>, !.frames = back]
          [] k > 0 /\ kind = "delay" ->
                [s EXCEPT !.queue = next, !.frames = back,
                          !.waiting = @ \cup {[elem |-> e, id |-> item.id]}]
          [] OTHER ->
                [s EXCEPT !.queue = next, !.frames = back,
                          !.timers = @ \o TimersOf(e, item, kind),
                          !.left[item.id] = 1..Props,
                          !.shown[e] = @ \/ kind = "show",
                          !.ticking = TRUE]

\* queue(fn): the function waits behind the sentinel or is called at once.
Queued(s, e, item) ==
    LET q == [s EXCEPT !.queue[e] = Append(@, item)]
    IN  IF Head(q.queue[e]) = Sentinel THEN q ELSE Dequeued(q, e)

(***************************************************************************)
(* The last step of an fx object.  When it is the last of its animation    *)
(* the element is hidden if that was asked for, the complete function      *)
(* dequeues the next animation and then calls the page's own callback.     *)
(***************************************************************************)
LastStep(s, t) ==
    LET marked == [s EXCEPT !.left[t.id] = @ \ {t.prop}]
        hidden == [marked EXCEPT !.shown[t.elem] = @ /\ ~t.hide]
        called == IF t.cb = "none" THEN hidden
                  ELSE [hidden EXCEPT !.frames =
                          <<[op |-> "callback", elem |-> t.elem, cb |-> t.cb]>> \o @]
    IN  IF marked.left[t.id] # {} THEN marked ELSE Dequeued(called, t.elem)

\* stop() begins a loop over the timers, from the last one to the first.
StopFrame(s, e, toEnd) ==
    [op |-> "stop", elem |-> e, at |-> Len(s.timers), toEnd |-> toEnd,
     ended |-> NoTimer]

DelayedIn(s) == {d.elem : d \in s.waiting}
RunningIn(s, e) ==
    {s.timers[i].id : i \in {j \in DOMAIN s.timers :
                                s.timers[j].elem = e /\ s.left[s.timers[j].id] # {}}}
    \cup {d.id : d \in {w \in s.waiting : w.elem = e}}

-----------------------------------------------------------------------------
FxInit ==
    /\ fx \in [queue : {[e \in FxElements |-> <<>>]},
               shown : [FxElements -> BOOLEAN],
               timers : {<<>>}, ticking : {FALSE}, waiting : {{}},
               left : {[i \in Ids |-> {}]}, frames : {<<>>}]
    /\ calls = 0
    /\ disturbed = {}

(* What the page calls. *)
FxIdle == fx.frames = <<>>
Call == FxIdle /\ calls < MaxCalls /\ calls' = calls + 1

Animate(e, kind, cb) ==
    /\ Call
    /\ fx' = Queued(fx, e, [kind |-> kind, id |-> calls', cb |-> cb])
    /\ UNCHANGED disturbed

Delay(e) ==
    /\ Call
    /\ fx' = Queued(fx, e, [kind |-> "delay", id |-> calls', cb |-> "none"])
    /\ UNCHANGED disturbed

\* show() and hide() without a duration do not look at the queue.
ShowOrHide(e, visible) ==
    /\ Call
    /\ fx' = [fx EXCEPT !.shown[e] = visible]
    /\ UNCHANGED disturbed

\* clearQueue(): the sentinel goes with the rest of the queue.
ClearQueue(e) ==
    /\ Call
    /\ fx' = [fx EXCEPT !.queue[e] = <<>>]
    /\ disturbed' = IF RunningIn(fx, e) # {} THEN disturbed \cup {e} ELSE disturbed

\* stop() does not cancel a delay: its timeout will dequeue once more.
Stop(e, clear, toEnd) ==
    /\ Call
    /\ LET s == IF clear THEN [fx EXCEPT !.queue[e] = <<>>] ELSE fx
       IN  fx' = [s EXCEPT !.frames = <<StopFrame(fx, e, toEnd)>>]
    /\ disturbed' = IF e \in DelayedIn(fx) /\ (clear \/ ~toEnd)
                    THEN disturbed \cup {e} ELSE disturbed

(* What the browser calls. *)
DelayOver(d) ==
    /\ FxIdle /\ d \in fx.waiting
    /\ fx' = Dequeued([fx EXCEPT !.waiting = @ \ {d}], d.elem)
    /\ UNCHANGED <<calls, disturbed>>

Tick ==
    /\ FxIdle /\ fx.ticking
    /\ fx' = [fx EXCEPT !.frames = <<[op |-> "tick", at |-> 1, ended |-> NoTimer]>>]
    /\ UNCHANGED <<calls, disturbed>>

-----------------------------------------------------------------------------
(* The loops.                                                              *)

Frame == Head(fx.frames)
TopFrame(op) == fx.frames # <<>> /\ Frame.op = op
Return(s) == [s EXCEPT !.frames = Tail(@)]
FrameNow(frame) == [fx EXCEPT !.frames = <<frame>> \o Tail(@)]

\* An fx object that ended is spliced out by its index, whatever the page's
\* callbacks have made of the array in the meantime.
Spliced(s, i) == IF i \in DOMAIN s.timers
                 THEN [s EXCEPT !.timers = RemoveAt(@, i)] ELSE s
WronglySpliced(s, i, ended) ==
    IF i \in DOMAIN s.timers /\ s.timers[i] = ended THEN {}
    ELSE {ended.elem} \cup (IF i \in DOMAIN s.timers THEN {s.timers[i].elem} ELSE {})

TickRuns == TopFrame("tick") /\ Frame.ended = NoTimer /\ Frame.at \in DOMAIN fx.timers

TickStep ==
    /\ TickRuns
    /\ fx' = FrameNow([Frame EXCEPT !.at = @ + 1])
    /\ UNCHANGED <<calls, disturbed>>

TickLastStep ==
    /\ TickRuns
    /\ LET t == fx.timers[Frame.at]
       IN  fx' = LastStep(FrameNow([Frame EXCEPT !.ended = t]), t)
    /\ UNCHANGED <<calls, disturbed>>

\* timers.splice(i--, 1), then i++
TickSplice ==
    /\ TopFrame("tick") /\ Frame.ended # NoTimer
    /\ fx' = Spliced(FrameNow([Frame EXCEPT !.ended = NoTimer]), Frame.at)
    /\ disturbed' = disturbed \cup WronglySpliced(fx, Frame.at, Frame.ended)
    /\ UNCHANGED calls

\* mutant: the interval is cleared while there is one fx object left.
TickReturnsEarly ==
    /\ TopFrame("tick") /\ Frame.ended = NoTimer /\ Frame.at \notin DOMAIN fx.timers
    /\ fx' = Return([fx EXCEPT !.ticking = Len(fx.timers) > 1])
    /\ UNCHANGED <<calls, disturbed>>

TickReturns ==
    /\ TopFrame("tick") /\ Frame.ended = NoTimer /\ Frame.at \notin DOMAIN fx.timers
    /\ fx' = Return([fx EXCEPT !.ticking = fx.timers # <<>>])
    /\ UNCHANGED <<calls, disturbed>>

\* One turn of stop's loop for an fx object of another element or, without
\* gotoEnd, of this one.
StopStep ==
    /\ TopFrame("stop") /\ Frame.ended = NoTimer /\ Frame.at \in DOMAIN fx.timers
    /\ LET mine == fx.timers[Frame.at].elem = Frame.elem
           next == FrameNow([Frame EXCEPT !.at = @ - 1])
       IN  /\ ~(mine /\ Frame.toEnd)
           /\ fx' = IF mine THEN Spliced(next, Frame.at) ELSE next
    /\ UNCHANGED <<calls, disturbed>>

StopLastStep ==
    /\ TopFrame("stop") /\ Frame.ended = NoTimer /\ Frame.at \in DOMAIN fx.timers
    /\ LET t == fx.timers[Frame.at]
       IN  /\ t.elem = Frame.elem /\ Frame.toEnd
           /\ fx' = LastStep(FrameNow([Frame EXCEPT !.ended = t]), t)
    /\ UNCHANGED <<calls, disturbed>>

StopSplice ==
    /\ TopFrame("stop") /\ Frame.ended # NoTimer
    /\ fx' = Spliced(FrameNow([Frame EXCEPT !.ended = NoTimer, !.at = @ - 1]), Frame.at)
    /\ disturbed' = disturbed \cup WronglySpliced(fx, Frame.at, Frame.ended)
    /\ UNCHANGED calls

StopReturns ==
    /\ TopFrame("stop") /\ Frame.ended = NoTimer /\ Frame.at = 0
    /\ fx' = IF Frame.toEnd THEN Return(fx) ELSE Dequeued(Return(fx), Frame.elem)
    /\ UNCHANGED <<calls, disturbed>>

\* The callback shortened the array under the loop: timers[i].elem raises
\* and nothing of what is on the stack is finished.
StopRaises ==
    /\ TopFrame("stop") /\ Frame.ended = NoTimer /\ Frame.at > Len(fx.timers)
    /\ fx' = [fx EXCEPT !.frames = <<>>]
    /\ disturbed' = FxElements
    /\ UNCHANGED calls

\* The callback stops an element or queues one more animation.
CallbackStops(e) ==
    /\ TopFrame("callback") /\ Frame.cb = "stop"
    /\ fx' = FrameNow(StopFrame(fx, e, FALSE))
    /\ disturbed' = IF e \in DelayedIn(fx) THEN disturbed \cup {e} ELSE disturbed
    /\ UNCHANGED calls

CallbackAnimates(e) ==
    /\ TopFrame("callback") /\ Frame.cb = "animate"
    /\ fx' = IF calls = MaxCalls THEN Return(fx)
             ELSE Queued(Return(fx), e, [kind |-> "move", id |-> calls + 1, cb |-> "none"])
    /\ calls' = IF calls = MaxCalls THEN calls ELSE calls + 1
    /\ UNCHANGED disturbed

-----------------------------------------------------------------------------
Loops ==
    \/ TickSplice \/ TickReturns
    \/ StopStep \/ StopLastStep \/ StopSplice \/ StopReturns \/ StopRaises
    \/ \E e \in FxElements : CallbackStops(e) \/ CallbackAnimates(e)

FxPage ==
    \E e \in FxElements :
        \/ \E kind \in FxKinds, cb \in Callbacks : Animate(e, kind, cb)
        \/ \E visible \in BOOLEAN : ShowOrHide(e, visible)
        \/ \E clear, toEnd \in BOOLEAN : Stop(e, clear, toEnd)
        \/ Delay(e) \/ ClearQueue(e)

FxNext ==
    \/ FxPage
    \/ Tick \/ TickStep \/ TickLastStep
    \/ \E d \in fx.waiting : DelayOver(d)
    \/ Loops

(***************************************************************************)
(* The browser fires the interval and the timeouts, runs every function to *)
(* its end, and an animation ends once its duration is over.               *)
(***************************************************************************)
FxFairness ==
    /\ WF_fxVars(Tick) /\ WF_fxVars(Loops) /\ WF_fxVars(TickStep \/ TickLastStep)
    /\ SF_fxVars(TickLastStep)
    /\ WF_fxVars(\E d \in fx.waiting : DelayOver(d))

FxSpec == FxInit /\ [][FxNext]_fxVars /\ FxFairness

-----------------------------------------------------------------------------
FxTypeOK ==
    /\ \A e \in FxElements : \A i \in DOMAIN fx.queue[e] :
          fx.queue[e][i].kind \in FxKinds \cup {"inprogress", "delay", "move"}
    /\ fx.shown \in [FxElements -> BOOLEAN]
    /\ \A i \in DOMAIN fx.timers : fx.timers[i].elem \in FxElements
    /\ fx.left \in [Ids -> SUBSET (1..Props)]
    /\ \A d \in fx.waiting : d.elem \in FxElements
    /\ fx.ticking \in BOOLEAN
    /\ calls \in 0..MaxCalls
    /\ disturbed \subseteq FxElements

(***************************************************************************)
(* The sentinel tells the truth: unless its queue was disturbed, exactly   *)
(* one animation or delay of an element is under way when the head of its  *)
(* queue says so, and none otherwise.  A stop that is under way has        *)
(* removed timers and not yet moved the queue on.                          *)
(***************************************************************************)
SentinelTellsTruth ==
    \A e \in FxElements \ disturbed :
        \/ \E i \in DOMAIN fx.frames :
              fx.frames[i].op = "stop" /\ fx.frames[i].elem = e
        \/ Cardinality(RunningIn(fx, e)) =
              IF fx.queue[e] # <<>> /\ Head(fx.queue[e]) = Sentinel THEN 1 ELSE 0

(***************************************************************************)
(* Every queue that is not disturbed drains: no animation waits for ever   *)
(* behind a sentinel nobody removes.                                       *)
(***************************************************************************)
QueuesDrain == \A e \in FxElements : <>[](e \in disturbed \/ fx.queue[e] = <<>>)
=============================================================================
