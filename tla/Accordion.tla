------------------------------ MODULE Accordion ------------------------------
(***************************************************************************)
(* The accordion of jquery-ui.js: headers of which at most one is active,  *)
(* and their panels, which slide open and shut.  Users click and press     *)
(* keys and the page activates, disables and destroys while panels still   *)
(* slide; the page may also hide the whole accordion (veil it).            *)
(***************************************************************************)
EXTENDS Integers, Sequences, SequencesExt

CONSTANTS
    Headers,  \* how many
    MaxTurns  \* the bound on what users and the page do

ASSUME AccordionAssumption == Headers \in Nat \ {0} /\ MaxTurns \in Nat

VARIABLES
    acc,          \* the widget and its elements, a record:
                  \*   animated, collapsible, disabled   the options
                  \*   active     the active header, 0 for none
                  \*   running    the count of elements being animated
                  \*   toShow, toHide, newHeader         of the latest _toggle
                  \*   open       the panels that are displayed
                  \*   flat       of them the ones of no height
                  \*   content    the panels of class ui-accordion-content-active
                  \*   expanded   the headers with aria-expanded
                  \*   tabbable   the headers in the tab order
                  \*   alive      whether it has not been destroyed
    panelSlides,  \* the fx queue of each panel, the first animation is under way
    veiled,       \* whether the page hides the accordion
    toldHeader,   \* newHeader of the last change event
    hurried,      \* whether the page closed or destroyed it during an animation,
                  \* or it was used while it was veiled
    shut,         \* whether the page has closed all panels
    turns

accVars == <<acc, panelSlides, veiled, toldHeader, hurried, shut, turns>>

Panels == 1..Headers
Slides == [kind : {"show", "hide"}, with : 0..Headers]
Only(i) == {i} \ {0}

AccordionInit ==
    /\ acc \in [animated : BOOLEAN, collapsible : BOOLEAN, disabled : {FALSE},
                active : {1}, running : {0}, toShow : {0}, toHide : {0}, newHeader : {1},
                open : {{1}}, flat : {{}}, content : {{1}}, expanded : {{1}},
                tabbable : {{1}}, alive : {TRUE}]
    /\ panelSlides = [i \in Panels |-> <<>>]
    /\ veiled = FALSE /\ toldHeader = 1 /\ hurried = FALSE /\ shut = FALSE /\ turns = 0

Sliding == \E i \in Panels : panelSlides[i] # <<>>

-----------------------------------------------------------------------------
(* What a call does is worked out on <<acc, panelSlides, toldHeader>>.     *)

Now == [acc |-> acc, slides |-> panelSlides, told |-> toldHeader]
Becomes(n) == acc' = n.acc /\ panelSlides' = n.slides /\ toldHeader' = n.told

\* completed, so many times.
Completed(n, times, cancel) ==
    LET last == cancel \/ n.acc.running \in 1..times
    IN  [n EXCEPT !.acc.running = IF cancel THEN 0 ELSE @ - times,
                  !.acc.content = IF last THEN @ \ {n.acc.toHide} ELSE @,
                  !.told = IF last THEN n.acc.newHeader ELSE @]

(***************************************************************************)
(* animate: what is hidden need not be hidden, nor shown what is seen; its *)
(* complete is called at once.  The next of the queue then begins.         *)
(***************************************************************************)
Seen(n, i) == i \in n.acc.open /\ ~veiled

BeginSlide(n, i) ==
    LET queue    == n.slides[i]
        needless == Max({k \in 0..Len(queue) :
                            \A j \in 1..k : Seen(n, i) = (queue[j].kind = "show")})
        rest     == Completed([n EXCEPT !.slides[i] = SubSeq(@, needless + 1, Len(@)),
                                        !.acc.flat = @ \ {queue[j].with : j \in 1..needless}],
                              needless, FALSE)
    IN  IF rest.slides[i] # <<>> /\ Head(rest.slides[i]).kind = "show"
        THEN [rest EXCEPT !.acc.open = @ \cup {i}] ELSE rest

Enqueue(n, i, slide) ==
    LET m == [n EXCEPT !.slides[i] = Append(@, slide)]
    IN  IF n.slides[i] = <<>> THEN BeginSlide(m, i) ELSE m

\* animations.slide: the panel to show grows as the other one shrinks.
SlidePanels(n, show, hide) ==
    IF hide = 0 THEN IF show = 0 THEN n
                     ELSE Enqueue(n, show, [kind |-> "show", with |-> 0])
    ELSE IF show = 0 THEN Enqueue(n, hide, [kind |-> "hide", with |-> 0])
    ELSE LET flat == [n EXCEPT !.acc.open = @ \cup {show}, !.acc.flat = @ \cup {show}]
         IN  IF Seen(n, hide) THEN Enqueue(flat, hide, [kind |-> "hide", with |-> show])
             ELSE Completed(flat, 1, FALSE)

(***************************************************************************)
(* _toggle.  A click that closes the active panel has it as toShow and as  *)
(* toHide.                                                                 *)
(***************************************************************************)
Toggle(n, show, hide, new) ==
    LET same == show = hide
        set  == [n EXCEPT !.acc.toShow = show, !.acc.toHide = hide, !.acc.newHeader = new,
                          !.acc.running = IF hide = 0 /\ show = 0 THEN 0 ELSE 1]
        done == IF n.acc.animated THEN SlidePanels(set, IF same THEN 0 ELSE show, hide)
                ELSE Completed([set EXCEPT !.acc.open =
                                   IF same /\ show \in @ THEN @ \ {show}
                                   ELSE (@ \ {hide}) \cup Only(show)], 1, TRUE)
    IN  [done EXCEPT !.acc.expanded = (@ \ {hide}) \cup Only(show),
                     !.acc.tabbable = (@ \ {hide}) \cup Only(show)]

Turn == turns < MaxTurns /\ turns' = turns + 1

-----------------------------------------------------------------------------
(* The operations.                                                         *)

\* mutant: a click during an animation is not ignored.
ClickHeaderAnyTime(i) ==
    /\ Turn /\ acc.alive /\ ~acc.disabled
    /\ acc.collapsible \/ i # acc.active
    /\ LET closes  == i = acc.active
           clicked == [Now EXCEPT !.acc.active = IF closes THEN 0 ELSE i,
                                  !.acc.content = IF closes THEN @ ELSE @ \cup {i}]
       IN  Becomes(Toggle(clicked, i, acc.active, IF closes THEN 0 ELSE i))
    /\ hurried' = (hurried \/ veiled)
    /\ UNCHANGED <<veiled, shut>>

\* _clickHandler for a header: by a click, by the keyboard's space or enter,
\* or by activate(i).
ClickHeader(i) ==
    /\ Turn /\ acc.alive /\ ~acc.disabled
    /\ acc.running = 0 /\ (acc.collapsible \/ i # acc.active)
    /\ LET closes  == i = acc.active
           clicked == [Now EXCEPT !.acc.active = IF closes THEN 0 ELSE i,
                                  !.acc.content = IF closes THEN @ ELSE @ \cup {i}]
       IN  Becomes(Toggle(clicked, i, acc.active, IF closes THEN 0 ELSE i))
    /\ hurried' = (hurried \/ veiled)
    /\ UNCHANGED <<veiled, shut>>

\* _clickHandler for activate(false), which does not look at running.
CloseAll ==
    /\ Turn /\ acc.alive /\ ~acc.disabled /\ acc.collapsible
    /\ LET clicked == [Now EXCEPT !.acc.active = 0, !.acc.content = @ \cup Only(acc.active)]
       IN  Becomes(Toggle(clicked, 0, acc.active, 0))
    /\ hurried' = (hurried \/ veiled \/ Sliding)
    /\ shut' = TRUE
    /\ UNCHANGED veiled

\* An animation ends; their durations may differ.
PanelStops(i) ==
    /\ panelSlides[i] # <<>>
    /\ LET slide == Head(panelSlides[i])
           ended == [Now EXCEPT !.slides[i] = Tail(@), !.acc.flat = @ \ {slide.with},
                                !.acc.open = IF slide.kind = "hide" THEN @ \ {i} ELSE @]
       IN  Becomes(Completed(BeginSlide(ended, i), 1, FALSE))
    /\ UNCHANGED <<veiled, hurried, shut, turns>>

\* _keydown: the arrows go round the headers.
Arrow(i, d) ==
    /\ Turn /\ acc.alive /\ ~acc.disabled
    /\ LET to == ((i - 1 + d + Headers) % Headers) + 1
       IN  acc' = [acc EXCEPT !.tabbable = (@ \ {i}) \cup {to}]
    /\ UNCHANGED <<panelSlides, veiled, toldHeader, hurried, shut>>

DisableAccordion(d) ==
    /\ Turn /\ acc.alive /\ acc.disabled # d
    /\ acc' = [acc EXCEPT !.disabled = d]
    /\ UNCHANGED <<panelSlides, veiled, toldHeader, hurried, shut>>

\* destroy stops no animation.
DestroyAccordion ==
    /\ Turn /\ acc.alive
    /\ acc' = [acc EXCEPT !.alive = FALSE, !.open = Panels, !.content = {},
                          !.expanded = {}, !.tabbable = Panels]
    /\ hurried' = (hurried \/ Sliding)
    /\ UNCHANGED <<panelSlides, veiled, toldHeader, shut>>

Veil(v) ==
    /\ Turn /\ veiled # v
    /\ veiled' = v
    /\ UNCHANGED <<acc, panelSlides, toldHeader, hurried, shut>>

AccordionNext ==
    \/ \E i \in Panels : ClickHeader(i) \/ PanelStops(i)
    \/ \E i \in Panels, d \in {-1, 1} : Arrow(i, d)
    \/ CloseAll \/ DestroyAccordion
    \/ \E v \in BOOLEAN : DisableAccordion(v) \/ Veil(v)

AccordionSpec == AccordionInit /\ [][AccordionNext]_accVars

-----------------------------------------------------------------------------
AccordionTypeOK ==
    /\ acc.active \in 0..Headers /\ acc.running \in -MaxTurns..1
    /\ acc.toShow \in 0..Headers /\ acc.toHide \in 0..Headers
    /\ acc.flat \subseteq Panels /\ acc.open \subseteq Panels /\ acc.content \subseteq Panels
    /\ panelSlides \in [Panels -> Seq(Slides)]
    /\ toldHeader \in 0..Headers /\ turns \in 0..MaxTurns

(***************************************************************************)
(* When all has come to rest, the accordion takes clicks again, the panel  *)
(* of the active header and no other is open, at its height, and the last  *)
(* change event told of it; aria-expanded agrees in an accordion that is   *)
(* not collapsible.  Some header stays in the tab order unless the page    *)
(* closed them all, and destroy leaves all panels open.                    *)
(***************************************************************************)
AtRest ==
    /\ acc.running = 0 /\ acc.flat = {}
    /\ toldHeader = acc.active
    /\ acc.alive => /\ acc.open = Only(acc.active) /\ acc.content = acc.open
                    /\ acc.collapsible \/ acc.expanded = {acc.active}
    /\ ~acc.alive => acc.open = Panels

AccordionAgrees ==
    /\ ~Sliding /\ ~hurried => AtRest
    /\ ~shut => acc.tabbable # {}
=============================================================================
