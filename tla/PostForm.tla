------------------------------ MODULE PostForm ------------------------------
(***************************************************************************)
(* A form of the site with the scripts application.js attaches to it:      *)
(* form_toggle shows and enables its buttons while there is something to   *)
(* send, inputlimiter cuts long texts and shows one box for all of them,   *)
(* TextAreaExpander sizes a text area to its content, and the Clear button *)
(* resets the form and is asked about by rails.js afterwards.              *)
(*                                                                         *)
(* The three scripts bind to the same events of the same text areas, so    *)
(* one event is one action that does what all of them do.                  *)
(***************************************************************************)
EXTENDS Integers, FiniteSetsExt

CONSTANTS Texts,         \* the text areas of the form
          Limit,         \* how long a text may be
          MaxLength,     \* the bound on what is pasted
          MaxFormEvents  \* the bound on events

ASSUME FormAssumption ==
    /\ Limit \in Nat \ {0} /\ MaxLength \in Nat /\ Limit < MaxLength
    /\ MaxFormEvents \in Nat

VARIABLES focus,      \* the text area, "file", "select" or "clear"; else "none"
          length,     \* the length of each text
          default,    \* the length the form came with
          file,       \* whether a file is chosen
          chosen,     \* whether the select differs from what it came with
          on,         \* toggle_on: buttons shown and enabled
          permanent,  \* permanent_toggle
          box,        \* where the limiter's box is, "none" while it is hidden
          fading,     \* whether a fadeOut of the box is under way
          sizedFor,   \* the length each text area is sized for, -1 for none
          submitted,  \* whether the form was submitted
          events

formVars == <<focus, length, default, file, chosen, on, permanent, box, fading,
          sizedFor, submitted, events>>

FormPlaces == Texts \cup {"file", "select", "clear", "none"}

IsEmpty(len, f) == ~f /\ \A t \in Texts : len[t] = 0

\* check_toggle, unless a select has made the toggle permanent: on exactly
\* when there is something in the form.
check_toggle(len, f) == on' = IF permanent THEN on ELSE ~IsEmpty(len, f)

\* The loading page shows the buttons, then checks.
FormInit ==
    /\ focus = "none"
    /\ length \in [Texts -> 0..1]
    /\ default = length
    /\ file = FALSE /\ chosen = FALSE
    /\ permanent = FALSE
    /\ on = ~IsEmpty(length, file)
    /\ box = "none" /\ fading = FALSE
    /\ sizedFor = [t \in Texts |-> IF length[t] = 0 THEN -1 ELSE length[t]]
    /\ submitted = FALSE
    /\ events = 0

FormEvent == ~submitted /\ events < MaxFormEvents /\ events' = events + 1

\* mutant: leaving a text area does not check what is in it.
MoveFocusUnchecked(to) ==
    /\ FormEvent /\ to # focus
    /\ to = "clear" => on
    /\ focus' = to
    /\ fading' = (fading \/ (focus \in Texts /\ box # "none"))
    /\ sizedFor' = [t \in Texts |->
            IF t = focus /\ length[t] = 0 THEN -1
            ELSE IF t = to THEN length[t] ELSE sizedFor[t]]
    /\ IF to \in Texts THEN on' = TRUE ELSE UNCHANGED on
    /\ UNCHANGED <<length, default, file, chosen, permanent, box, submitted>>

(***************************************************************************)
(* The focus moves: the text area that loses it lets the box fade, resets  *)
(* its height if it is empty and checks the toggle; the one that gets it   *)
(* resizes and forces the toggle on.                                       *)
(***************************************************************************)
MoveFocus(to) ==
    /\ FormEvent /\ to # focus
    /\ to = "clear" => on
    /\ focus' = to
    /\ fading' = (fading \/ (focus \in Texts /\ box # "none"))
    /\ sizedFor' = [t \in Texts |->
            IF t = focus /\ length[t] = 0 THEN -1
            ELSE IF t = to THEN length[t] ELSE sizedFor[t]]
    /\ IF to \in Texts THEN on' = TRUE
       ELSE IF focus \in Texts THEN check_toggle(length, file) ELSE UNCHANGED on
    /\ UNCHANGED <<length, default, file, chosen, permanent, box, submitted>>

\* keydown resizes for the text before the key, keyup cuts the text and
\* shows the box under it.
Key(by) ==
    /\ FormEvent /\ focus \in Texts
    /\ LET typed == Max({0, length[focus] + by})
       IN  length' = [length EXCEPT ![focus] = Min({typed, Limit})]
    /\ sizedFor' = [sizedFor EXCEPT ![focus] = length[focus]]
    /\ box' = focus
    /\ UNCHANGED <<focus, default, file, chosen, on, permanent, fading, submitted>>

\* Text that is pasted with the mouse raises no key event.
Paste(n) ==
    /\ FormEvent /\ focus \in Texts
    /\ length' = [length EXCEPT ![focus] = n]
    /\ UNCHANGED <<focus, default, file, chosen, on, permanent, box, fading, sizedFor, submitted>>

\* The end of the fade hides the box, even if it has been shown again.
BoxFades ==
    /\ fading
    /\ fading' = FALSE /\ box' = "none"
    /\ UNCHANGED <<focus, length, default, file, chosen, on, permanent, sizedFor, submitted,
                   events>>

ChooseFile(f) ==
    /\ FormEvent /\ focus = "file" /\ f # file
    /\ file' = f
    /\ check_toggle(length, f)
    /\ UNCHANGED <<focus, length, default, chosen, permanent, box, fading, sizedFor, submitted>>

\* A changed select forces the toggle on for good, if it is off.
ChangeSelect(c) ==
    /\ FormEvent /\ focus = "select" /\ c # chosen
    /\ chosen' = c
    /\ on' = TRUE
    /\ permanent' = (permanent \/ ~on)
    /\ UNCHANGED <<focus, length, default, file, box, fading, sizedFor, submitted>>

(***************************************************************************)
(* The Clear button resets the form from its own onclick, before the click *)
(* reaches the body, where rails.js asks; the handlers of the reset run    *)
(* before the browser puts the values back.                                *)
(***************************************************************************)
Clear ==
    /\ FormEvent /\ focus = "clear" /\ on
    /\ permanent' = FALSE
    /\ on' = FALSE
    /\ length' = default /\ file' = FALSE /\ chosen' = FALSE
    /\ UNCHANGED <<focus, default, box, fading, sizedFor, submitted>>

Submit ==
    /\ FormEvent /\ on
    /\ submitted' = TRUE
    /\ UNCHANGED <<focus, length, default, file, chosen, on, permanent, box, fading, sizedFor>>

FormNext ==
    \/ \E to \in FormPlaces : MoveFocus(to)
    \/ \E by \in {-1, 1} : Key(by)
    \/ \E n \in 0..MaxLength : Paste(n)
    \/ \E f \in BOOLEAN : ChooseFile(f) \/ ChangeSelect(f)
    \/ BoxFades \/ Clear \/ Submit

FormSpec == FormInit /\ [][FormNext]_formVars /\ WF_formVars(BoxFades)

-----------------------------------------------------------------------------
FormTypeOK ==
    /\ focus \in FormPlaces
    /\ length \in [Texts -> 0..MaxLength] /\ default \in [Texts -> 0..MaxLength]
    /\ file \in BOOLEAN /\ chosen \in BOOLEAN /\ on \in BOOLEAN
    /\ permanent \in BOOLEAN /\ fading \in BOOLEAN /\ submitted \in BOOLEAN
    /\ box \in Texts \cup {"none"}
    /\ sizedFor \in [Texts -> -1..MaxLength]
    /\ events \in 0..MaxFormEvents

(***************************************************************************)
(* What the user has written can be sent and nothing else: away from the   *)
(* text areas the buttons are off only for an empty form or one that was   *)
(* just cleared, and on only for something to send or a select that was    *)
(* changed.                                                                *)
(***************************************************************************)
DraftCanBeSent ==
    focus \notin Texts =>
        /\ ~on => IsEmpty(length, file) \/ length = default
        /\ on /\ ~permanent => ~IsEmpty(length, file) \/ chosen

\* The limiter's box does not stay behind when the text areas are left.
BoxGoes == focus \notin Texts /\ box # "none" => fading

\* The form does not lie: neither its buttons nor the box of the limiter.
FormHolds == DraftCanBeSent /\ BoxGoes
=============================================================================
