---------------------------- MODULE RemoteForms ----------------------------
(***************************************************************************)
(* rails.js: links and forms that ask before they act, that are sent by    *)
(* jQuery.ajax (module Ajax), that use another method than GET, and whose  *)
(* button is disabled while they are under way.  All of it hangs on        *)
(* handlers that are bound once the document is ready: until then an       *)
(* element does what the browser makes of it.                              *)
(***************************************************************************)
EXTENDS Ajax, Sequences

CONSTANTS
    Forms,         \* forms with a submit button
    Links,
    IsRemote,      \* elements with data-remote
    WithMethod,    \* links with data-method
    DisablesWith,  \* forms whose button has data-disable-with
    MaxUses        \* the bound on what one page sends by itself

ASSUME RailsAssumption ==
    /\ Forms \cap Links = {} /\ "nobody" \notin Forms \cup Links
    /\ WithMethod \subseteq Links /\ DisablesWith \subseteq Forms
    /\ IsRemote \subseteq Forms \cup Links
    /\ MaxUses \in Nat

VARIABLES
    bound,   \* whether the document is ready and the handlers are bound
    button,  \* each form's button: whether it is disabled, its label and
             \* what data("enable-with") remembers
    owner,   \* the element each request was made for
    sentTo   \* what the window was sent to: [elem, method, handled] records

railsVars == <<net, raised, bound, button, owner, sentTo>>

RailsElements == Forms \cup Links

RailsInit ==
    /\ AjaxInit
    /\ bound = FALSE
    /\ button = [f \in Forms |->
                    [disabled |-> FALSE, label |-> "own", saved |-> "undefined"]]
    /\ owner = [r \in Requests |-> "nobody"]
    /\ sentTo = <<>>

BindHandlers == ~bound /\ bound' = TRUE /\ UNCHANGED <<net, raised, button, owner, sentTo>>

\* disable_with_input_function.
Disabled(b) == [disabled |-> TRUE, label |-> "wait", saved |-> b.label]

\* The handler of ajax:complete: val(undefined) empties the label.
Enabled(b) == [b EXCEPT !.disabled = FALSE,
                        !.label = IF b.saved = "undefined" THEN "empty" ELSE b.saved]

\* Neither a click nor the Enter key submits a form whose button is disabled.
Usable(e) == e \in Forms => ~button[e].disabled

\* The forms of the requests that complete in this step.
buttonsAfter(owns) ==
    LET completing == {owns[r] : r \in {q \in Requests :
                                    net'.completed[q] > net.completed[q]}}
    IN  [f \in Forms |-> IF f \in DisablesWith \cap IsRemote \cap completing
                         THEN Enabled(button[f]) ELSE button[f]]

(***************************************************************************)
(* callRemote.  The handlers for ajax:beforeSend may refuse the request;   *)
(* one that cannot be sent completes at once.  Nothing disables the button *)
(* of a remote form: that handler waits for "ajax:before", which nobody    *)
(* triggers.                                                               *)
(***************************************************************************)
callRemote(e) ==
    \E r \in Requests :
        /\ Send(r) \/ Veto(r) \/ SendRaises(r)
        /\ owner' = [owner EXCEPT ![r] = IF r \in net'.begun THEN e ELSE @]
        /\ button' = buttonsAfter(owner')

(***************************************************************************)
(* The handlers are bound.  A click on an element with data-confirm asks   *)
(* first, at the body; what the user refuses gets neither to the live      *)
(* handlers of the document nor to the browser, and is no step here.       *)
(***************************************************************************)
UseRemote(e) ==
    /\ bound /\ Usable(e) /\ e \in IsRemote
    /\ callRemote(e)
    /\ UNCHANGED <<bound, sentTo>>

Sends(e, method, handled) ==
    /\ Len(sentTo) < MaxUses
    /\ sentTo' = Append(sentTo, [elem |-> e, method |-> method, handled |-> handled])

\* A form that is not remote disables its button and goes its way; a link
\* with a method is sent as a hidden form, one without is followed.
UseOrdinary(e) ==
    /\ bound /\ Usable(e) /\ e \notin IsRemote
    /\ Sends(e, IF e \in Forms THEN "post" ELSE
                IF e \in WithMethod THEN "data-method" ELSE "get", TRUE)
    /\ button' = IF e \in DisablesWith THEN [button EXCEPT ![e] = Disabled(@)] ELSE button
    /\ UNCHANGED <<net, raised, bound, owner>>

\* Before the handlers are bound the browser submits the form or follows
\* the link; so it does for a click with another than the left button.
UseUnhandled(e) ==
    /\ Usable(e)
    /\ ~bound \/ e \in Links
    /\ Sends(e, IF e \in Forms THEN "post" ELSE "get", FALSE)
    /\ UNCHANGED <<net, raised, bound, button, owner>>

\* What ends a request of jQuery.ajax; no complete callback starts another.
RequestEnds ==
    /\ \E r \in Requests : Ends(r) \/ \E calls \in BOOLEAN : AbortRequest(r, calls)
    /\ net'.begun = net.begun
    /\ button' = buttonsAfter(owner)
    /\ UNCHANGED <<bound, owner, sentTo>>

RailsNext ==
    \/ BindHandlers
    \/ \E e \in RailsElements : UseRemote(e) \/ UseOrdinary(e) \/ UseUnhandled(e)
    \/ RequestEnds

RailsSpec == RailsInit /\ [][RailsNext]_railsVars

-----------------------------------------------------------------------------
RailsTypeOK ==
    /\ AjaxTypeOK
    /\ bound \in BOOLEAN
    /\ button \in [Forms -> [disabled : BOOLEAN, label : {"own", "wait", "empty"},
                             saved : {"undefined", "own", "wait", "empty"}]]
    /\ owner \in [Requests -> RailsElements \cup {"nobody"}]
    /\ sentTo \in Seq([elem : RailsElements, method : {"get", "post", "data-method"},
                     handled : BOOLEAN])

Times(e) == Cardinality({i \in DOMAIN sentTo : sentTo[i].elem = e /\ sentTo[i].handled})

(***************************************************************************)
(* A form that disables its button is sent once, however often it is       *)
(* clicked, and its button waits with the label to put back.               *)
(***************************************************************************)
OnceOnly == \A f \in DisablesWith \ IsRemote :
    /\ Times(f) <= 1
    /\ button[f].disabled <=> Times(f) = 1
    /\ button[f].disabled => button[f].saved = "own"

CameBack(e) == \E r \in Requests : owner[r] = e /\ net.completed[r] > 0

(***************************************************************************)
(* The button of a remote form is never disabled, as nothing triggers      *)
(* "ajax:before", and has its own label until a request of the form is     *)
(* over: then what nobody saved is put back, and it has no label any more. *)
(***************************************************************************)
LabelsLast == \A f \in DisablesWith \cap IsRemote :
    /\ ~button[f].disabled
    /\ button[f].label = IF CameBack(f) THEN "empty" ELSE "own"
=============================================================================
