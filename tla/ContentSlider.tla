--------------------------- MODULE ContentSlider ---------------------------
(***************************************************************************)
(* jquery.contentslider.js: articles side by side, one of them in view,    *)
(* and two buttons that slide and fade.  inuse keeps a click from starting *)
(* a slide while another one runs; it is shared by everything the plugin   *)
(* moves and cleared by the slide's own callback only.  The animations of  *)
(* an element run one after the other (module Effects), those of different *)
(* elements end independently of each other.                               *)
(***************************************************************************)
EXTENDS Integers, Sequences

CONSTANTS N,         \* the number of articles
          MaxClicks  \* the bound on clicks

ASSUME SliderAssumption == N \in Nat \ {0} /\ MaxClicks \in Nat

VARIABLES position,   \* how many widths the articles are shifted to the left
          inuse,      \* the flag of the plugin
          pending,    \* positions the slider is still to be animated to
          shown,      \* whether each button is displayed
          opacity,    \* "0", "1" or something between
          fades,      \* the animations queued for each button
          clicks,     \* clicks so far
          overlapped  \* whether a slide began while a button was animated

sliderVars == <<position, inuse, pending, shown, opacity, fades, clicks, overlapped>>

Buttons == {"left", "right"}
OtherButton(b) == CHOOSE c \in Buttons : c # b
LastArticle == N - 1

SliderInit ==
    /\ position = 0
    /\ inuse = FALSE
    /\ pending = <<>>
    /\ shown = [b \in Buttons |-> b = "right"]
    /\ opacity = [b \in Buttons |-> IF b = "right" THEN "1" ELSE "0"]
    /\ fades = [b \in Buttons |-> IF b = "right" THEN <<"entrance">> ELSE <<>>]
    /\ clicks = 0
    /\ overlapped = FALSE

ArticleBeyond(b) == IF b = "right" THEN position + 1 ELSE position - 1

\* mutant: without the check whether there is an article to move to.
moveSliderAnywhere(b) ==
    LET m     == ArticleBeyond(b)
        enter == opacity[OtherButton(b)] = "0"
    IN  /\ pending' = Append(pending, m)
        /\ fades' = [fades EXCEPT
               ![b] = IF m \in {0, LastArticle} THEN Append(@, "out") ELSE @,
               ![OtherButton(b)] = IF enter THEN Append(@, "in") ELSE @]
        /\ shown' = IF enter THEN [shown EXCEPT ![OtherButton(b)] = TRUE] ELSE shown
        /\ overlapped' = (overlapped \/ \E c \in Buttons : fades[c] # <<>>)
        /\ UNCHANGED opacity

\* moveSlider: nothing at all happens when there is no article to move to.
moveSlider(b) ==
    LET m     == ArticleBeyond(b)
        leave == m \in {0, LastArticle}
        enter == opacity[OtherButton(b)] = "0"
    IN  IF m \notin 0..LastArticle
        THEN UNCHANGED <<pending, shown, opacity, fades, overlapped>>
        ELSE /\ pending' = Append(pending, m)
             /\ fades' = [fades EXCEPT
                    ![b] = IF leave THEN Append(@, "out") ELSE @,
                    ![OtherButton(b)] = IF enter THEN Append(@, "in") ELSE @]
             /\ shown' = IF enter THEN [shown EXCEPT ![OtherButton(b)] = TRUE] ELSE shown
             /\ overlapped' = (overlapped \/ \E c \in Buttons : fades[c] # <<>>)
             /\ UNCHANGED opacity

\* mutant: a click during a slide begins another one.
ClickButtonAnyTime(b) ==
    /\ shown[b] /\ clicks < MaxClicks
    /\ clicks' = clicks + 1
    /\ inuse' = TRUE
    /\ moveSlider(b)
    /\ UNCHANGED position

ClickButton(b) ==
    /\ shown[b] /\ clicks < MaxClicks
    /\ clicks' = clicks + 1
    /\ inuse' = TRUE
    /\ IF inuse THEN UNCHANGED <<pending, shown, opacity, fades, overlapped>>
       ELSE moveSlider(b)
    /\ UNCHANGED position

ArticlesStop ==
    /\ pending # <<>>
    /\ position' = Head(pending)
    /\ pending' = Tail(pending)
    /\ inuse' = FALSE
    /\ UNCHANGED <<shown, opacity, fades, clicks, overlapped>>

\* The first fade of a button leaves its opacity between the two ends.
ButtonFadeStep(b) ==
    /\ fades[b] # <<>> /\ Head(fades[b]) # "entrance"
    /\ opacity' = [opacity EXCEPT ![b] = "between"]
    /\ UNCHANGED <<position, inuse, pending, shown, fades, clicks, overlapped>>

ButtonFadeEnds(b) ==
    /\ fades[b] # <<>>
    /\ opacity' = [opacity EXCEPT ![b] =
            CASE Head(fades[b]) = "out" -> "0" [] Head(fades[b]) = "in" -> "1"
              [] OTHER -> @]
    /\ shown' = [shown EXCEPT ![b] = @ /\ Head(fades[b]) # "out"]
    /\ fades' = [fades EXCEPT ![b] = Tail(@)]
    /\ UNCHANGED <<position, inuse, pending, clicks, overlapped>>

SliderNext ==
    \/ \E b \in Buttons : ClickButton(b) \/ ButtonFadeStep(b) \/ ButtonFadeEnds(b)
    \/ ArticlesStop

SliderSpec == SliderInit /\ [][SliderNext]_sliderVars /\ WF_sliderVars(ArticlesStop)
        /\ \A b \in Buttons : SF_sliderVars(ButtonFadeEnds(b))

-----------------------------------------------------------------------------
SliderTypeOK ==
    /\ position \in 0..LastArticle
    /\ inuse \in BOOLEAN /\ overlapped \in BOOLEAN
    /\ pending \in Seq(0..LastArticle)
    /\ shown \in [Buttons -> BOOLEAN]
    /\ opacity \in [Buttons -> {"0", "between", "1"}]
    /\ fades \in [Buttons -> Seq({"entrance", "out", "in"})]
    /\ clicks \in 0..MaxClicks

\* The flag prevents colliding animations: one slide at a time, and only
\* while the flag is up.
OneSlide == Len(pending) <= 1 /\ (pending # <<>> => inuse)

\* A slider that takes no more clicks has been clicked on at one of its ends.
StuckAtAnEnd == inuse /\ pending = <<>> => position \in {0, LastArticle}

\* A slider nobody hurried shows the buttons that lead somewhere.
ButtonsLead ==
    ~overlapped /\ pending = <<>> /\ (\A b \in Buttons : fades[b] = <<>>) /\ N > 1 =>
        /\ shown["left"] <=> position > 0
        /\ shown["right"] <=> position < LastArticle

\* A slider is never lost between two articles: it slides once at a time,
\* stops taking clicks only at its ends, and its buttons lead on.
SliderLeads == OneSlide /\ StuckAtAnEnd /\ ButtonsLead
=============================================================================
