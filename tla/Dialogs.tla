------------------------------- MODULE Dialogs -------------------------------
(***************************************************************************)
(* The dialogs of jquery-ui.js: which of several dialogs are open, how they *)
(* are stacked, and the overlays that keep the rest of the page from the   *)
(* user while a modal one is open.  Overlay elements are used again.       *)
(***************************************************************************)
EXTENDS Integers, Sequences, SequencesExt, FiniteSetsExt

CONSTANTS
    Dialogs, Modal,  \* 1..n, and which of them are modal
    HidesSlowly,     \* the ones whose option hide is an animation
    ZIndex,          \* the option, of all of them
    MaxDialogMoves   \* the bound on what users and the page do

ASSUME DialogsAssumption ==
    IsFiniteSet(Dialogs) /\ Modal \subseteq Dialogs /\ HidesSlowly \subseteq Dialogs
    /\ 0 \notin Dialogs /\ ZIndex \in Nat /\ MaxDialogMoves \in Nat

VARIABLES
    dialog,    \* for each dialog a record:
               \*   alive     not destroyed
               \*   open      _isOpen
               \*   visible   whether uiDialog is displayed
               \*   hiding    whether its hide animation is under way
               \*   z         its z-index
               \*   overlay   the element of its latest overlay, 0 for none
    overlays,  \* $.ui.dialog.overlay, a record:
               \*   instances, old   sequences of elements
               \*   attached  the elements that are in the document
               \*   z         the z-index of each
               \*   maxZ      overlay.maxZ
               \*   pending   how many timers are to bind the guard
               \*   guarded   whether events below are cancelled
               \*   escCloses the dialog that the document's escape closes, 0 for none
    maxZ,      \* $.ui.dialog.maxZ
    misused,   \* whether a modal dialog was closed or destroyed when it was
               \* closed, by the page or by the document's escape
    revived,   \* the dialogs that were opened while they were being hidden
    dialogMoves

dialogVars == <<dialog, overlays, maxZ, misused, revived, dialogMoves>>

OverlayElements == 1..Cardinality(Dialogs)
Instances(o) == {o.instances[i] : i \in DOMAIN o.instances}

DialogsInit ==
    /\ dialog = [d \in Dialogs |-> [alive |-> TRUE, open |-> FALSE, visible |-> FALSE,
                                    hiding |-> FALSE, z |-> ZIndex, overlay |-> 0]]
    /\ overlays = [instances |-> <<>>, old |-> <<>>, attached |-> {},
                   z |-> [e \in OverlayElements |-> 0], maxZ |-> 0, pending |-> 0,
                   guarded |-> FALSE, escCloses |-> 0]
    /\ maxZ = 0 /\ misused = FALSE /\ revived = {} /\ dialogMoves = 0

-----------------------------------------------------------------------------
(* overlay.create, which takes the old instance that was put away last, and *)
(* overlay.destroy.                                                        *)

Created(o, d) ==
    LET e == IF o.old # <<>> THEN Last(o.old)
             ELSE CHOOSE f \in OverlayElements \ Instances(o) : TRUE
    IN  [o EXCEPT !.instances = Append(@, e), !.attached = @ \cup {e},
                  !.old = IF @ = <<>> THEN @ ELSE Front(@),
                  !.pending = IF o.instances = <<>> THEN @ + 1 ELSE @,
                  !.escCloses = IF o.instances = <<>> THEN d ELSE @]

OverlayDestroyed(o, e) ==
    LET left == RemoveFirst(o.instances, e)
    IN  [o EXCEPT !.instances = left, !.attached = @ \ {e},
                  !.old = IF e \in Instances(o) THEN Append(@, e) ELSE @,
                  !.guarded = @ /\ left # <<>>,
                  !.escCloses = IF left = <<>> THEN 0 ELSE @,
                  !.maxZ = Max({0} \cup {o.z[left[i]] : i \in DOMAIN left})]

(***************************************************************************)
(* close, which does not ask whether the dialog is open, on a record of    *)
(* all of the state.                                                       *)
(***************************************************************************)
Everything == [dialog |-> dialog, overlays |-> overlays, maxZ |-> maxZ, misused |-> misused]
BecomesAll(n) == /\ dialog' = n.dialog /\ overlays' = n.overlays
                 /\ maxZ' = n.maxZ /\ misused' = n.misused

ClosedDialog(n, d) ==
    LET me   == n.dialog[d]
        slow == d \in HidesSlowly /\ me.visible
    IN  [dialog   |-> [n.dialog EXCEPT ![d].open = FALSE, ![d].hiding = slow,
                                       ![d].visible = slow],
         overlays |-> IF me.overlay = 0 THEN n.overlays
                      ELSE OverlayDestroyed(n.overlays, me.overlay),
         maxZ     |-> IF d \notin Modal THEN n.maxZ
                      ELSE LET others == {c \in Dialogs \ {d} : n.dialog[c].alive}
                           IN  Max({0} \cup {n.dialog[c].z : c \in others}),
         misused  |-> n.misused \/ (d \in Modal /\ ~me.open)]

DoneByPage == dialogMoves < MaxDialogMoves /\ dialogMoves' = dialogMoves + 1

-----------------------------------------------------------------------------
\* open, with moveToTop(true).
Open(d) ==
    /\ DoneByPage /\ dialog[d].alive /\ ~dialog[d].open
    /\ LET o    == IF d \in Modal THEN Created(overlays, d) ELSE overlays
           e    == Last(o.instances)
           base == IF ZIndex > maxZ THEN ZIndex ELSE maxZ
           top  == IF d \in Modal THEN base + 1 ELSE base
       IN  /\ overlays' = IF d \in Modal THEN [o EXCEPT !.z[e] = top, !.maxZ = top] ELSE o
           /\ maxZ' = top + 1
           /\ dialog' = [dialog EXCEPT ![d].open = TRUE, ![d].visible = TRUE, ![d].z = top + 1,
                                       ![d].overlay = IF d \in Modal THEN e ELSE 0]
    /\ revived' = IF dialog[d].hiding THEN revived \cup {d} ELSE revived \ {d}
    /\ UNCHANGED misused

Close(d) ==
    /\ DoneByPage /\ dialog[d].alive
    /\ BecomesAll(ClosedDialog(Everything, d))
    /\ UNCHANGED revived

\* The mouse goes down in a dialog: moveToTop() leaves modal dialogs alone.
Raise(d) ==
    /\ DoneByPage /\ dialog[d].open /\ dialog[d].visible /\ d \notin Modal
    /\ LET base == IF ZIndex > maxZ THEN ZIndex ELSE maxZ
       IN  maxZ' = base + 1 /\ dialog' = [dialog EXCEPT ![d].z = base + 1]
    /\ UNCHANGED <<overlays, misused, revived>>

(***************************************************************************)
(* The escape key in dialog d, or outside of all of them: the event rises  *)
(* to the document, whose handler may have gone meanwhile.  The callback   *)
(* beforeClose of the ones in keep refuses.                                *)
(***************************************************************************)
Escape(d, keep) ==
    /\ DoneByPage
    /\ d \in Dialogs => dialog[d].visible
    /\ LET first  == IF d = 0 \/ d \in keep THEN Everything ELSE ClosedDialog(Everything, d)
           second == first.overlays.escCloses
       IN  BecomesAll(IF second = 0 \/ second \in keep THEN first
                      ELSE ClosedDialog(first, second))
    /\ UNCHANGED revived

\* destroy, which leaves maxZ.
DestroyDialog(d) ==
    /\ DoneByPage /\ dialog[d].alive
    /\ dialog' = [dialog EXCEPT ![d].alive = FALSE, ![d].open = FALSE, ![d].visible = FALSE,
                                ![d].hiding = FALSE]
    /\ overlays' = IF dialog[d].overlay = 0 THEN overlays
                   ELSE OverlayDestroyed(overlays, dialog[d].overlay)
    /\ misused' = (misused \/ (dialog[d].overlay # 0 /\ ~dialog[d].open))
    /\ UNCHANGED <<maxZ, revived>>

\* The hide animation ends; open in the meantime did not stop it.
HideEnds(d) ==
    /\ dialog[d].hiding
    /\ dialog' = [dialog EXCEPT ![d].hiding = FALSE, ![d].visible = FALSE]
    /\ UNCHANGED <<overlays, maxZ, misused, revived, dialogMoves>>

\* The timer of one millisecond.
BindGuard ==
    /\ overlays.pending > 0
    /\ overlays' = [overlays EXCEPT !.pending = @ - 1, !.guarded = @ \/ overlays.instances # <<>>]
    /\ UNCHANGED <<dialog, maxZ, misused, revived, dialogMoves>>

DialogsNext ==
    \/ \E d \in Dialogs : Open(d) \/ Close(d) \/ Raise(d) \/ DestroyDialog(d) \/ HideEnds(d)
    \/ \E d \in Dialogs \cup {0}, keep \in SUBSET Dialogs : Escape(d, keep)
    \/ BindGuard

DialogsSpec == DialogsInit /\ [][DialogsNext]_dialogVars

-----------------------------------------------------------------------------
DialogsTypeOK ==
    /\ \A d \in Dialogs : dialog[d].overlay \in 0..Cardinality(Dialogs) /\ dialog[d].z \in Nat
    /\ overlays.attached \subseteq OverlayElements /\ Instances(overlays) \subseteq OverlayElements
    /\ overlays.escCloses \in Dialogs \cup {0} /\ dialogMoves \in 0..MaxDialogMoves

(***************************************************************************)
(* Every open modal dialog has an overlay of its own right below it, and   *)
(* there are no others; no two open dialogs are at one height and none is  *)
(* above maxZ; the highest overlay is where overlay.maxZ says, its events  *)
(* are guarded, or will be, while there is one and only then; and who is   *)
(* open is seen unless he was opened while he was being hidden.            *)
(***************************************************************************)
OverlaysFit ==
    LET open   == {d \in Dialogs : dialog[d].open}
        modal  == open \cap Modal
        needed == {dialog[d].overlay : d \in modal}
    IN  /\ Cardinality(needed) = Cardinality(modal) /\ Len(overlays.instances) = Cardinality(modal)
        /\ Instances(overlays) = needed /\ overlays.attached = needed
        /\ \A d \in modal : dialog[d].z = overlays.z[dialog[d].overlay] + 1
        /\ \A d \in open : dialog[d].z <= maxZ
        /\ \A c, d \in open : dialog[c].z = dialog[d].z => c = d
        /\ overlays.maxZ = Max({0} \cup {overlays.z[e] : e \in needed})
        /\ (overlays.escCloses # 0) = (modal # {})
        /\ overlays.guarded => modal # {}
        /\ modal # {} => overlays.guarded \/ overlays.pending > 0

DialogsFit ==
    /\ ~misused => OverlaysFit
    /\ \A d \in Dialogs \ revived : dialog[d].open => dialog[d].visible
=============================================================================
