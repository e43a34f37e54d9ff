------------------------------ MODULE Selectable ------------------------------
(***************************************************************************)
(* The selectable of jquery-ui.js: items are selected by drawing a lasso   *)
(* over them, with or without the meta key, which may change meanwhile; a  *)
(* release of the button may get lost, and the page disables the widget    *)
(* and selects items by itself.  The items stand in a row, the mouse is at *)
(* one of them or at either end of the row.                                *)
(***************************************************************************)
EXTENDS Integers

CONSTANTS
    RowLength,  \* of items
    MaxPulls    \* the bound on what the user and the page do

ASSUME SelectableAssumption == RowLength \in Nat /\ MaxPulls \in Nat

VARIABLES
    row,    \* the elements and their data, a record of sets of items:
            \*   selected, selecting, unselecting      the classes
            \*   wasSelected, wasSelecting, wasUnselecting, startselected
            \*                                         selectable-item
    lasso,  \* the widget: [started, opos, disabled, autoRefresh, fit]
    drag,   \* what the user does: [before, target, at, meta, pure, moved, woken],
            \* pure while neither the key nor the option disabled changes; woken
            \* once the widget was enabled with the button down
    heard,  \* the items that a page believes selected that listens to
            \* selected and unselected
    pulls

selectableVars == <<row, lasso, drag, heard, pulls>>

Row == 1..RowLength
Spots == 0..(RowLength + 1)

Selecting(S) == [selected |-> S, selecting |-> {}, unselecting |-> {}, wasSelected |-> S,
                 wasSelecting |-> {}, wasUnselecting |-> {}, startselected |-> {}]

SelectableInit ==
    /\ \E S \in SUBSET Row : row = Selecting(S) /\ heard = S
    /\ lasso \in [started : {FALSE}, opos : {0}, disabled : {FALSE},
                  autoRefresh : BOOLEAN, fit : BOOLEAN]
    /\ drag = [before |-> {}, target |-> 0, at |-> 0, meta |-> FALSE, pure |-> FALSE,
               moved |-> FALSE, woken |-> FALSE]
    /\ pulls = 0

Pull == pulls < MaxPulls /\ pulls' = pulls + 1

\* _mouseStop: who is being selected is, and the page hears of it.
StoppedRow(r) ==
    [r EXCEPT !.selected = @ \cup r.selecting, !.selecting = {}, !.unselecting = {},
              !.wasUnselecting = @ \ r.unselecting, !.wasSelecting = @ \ r.selecting,
              !.wasSelected = @ \cup r.selecting,
              !.startselected = (@ \ r.unselecting) \cup r.selecting]
StoppedHeard(r, h) == (h \ r.unselecting) \cup r.selecting

\* refresh: the data are read from the classes.
Refreshed(r) ==
    [r EXCEPT !.wasSelected = r.selected, !.wasSelecting = r.selecting,
              !.wasUnselecting = r.unselecting, !.startselected = {}]

(***************************************************************************)
(* _mouseStart: without the meta key the selected items are about to be    *)
(* unselected; then the item under the mouse changes its side.             *)
(***************************************************************************)
LassoStarted(r, meta, t) ==
    LET fresh == IF lasso.autoRefresh THEN Refreshed(r) ELSE r
        on    == fresh.selected
        begun == [fresh EXCEPT !.startselected = @ \cup on]
        freed == IF meta THEN begun
                 ELSE [begun EXCEPT !.selected = {}, !.wasSelected = @ \ on,
                                    !.unselecting = @ \cup on, !.wasUnselecting = @ \cup on]
    IN  IF t \notin Row THEN freed
        ELSE IF ~meta \/ t \notin freed.selected
        THEN [freed EXCEPT !.unselecting = @ \ {t}, !.wasUnselecting = @ \ {t},
                           !.selecting = @ \cup {t}, !.wasSelecting = @ \cup {t},
                           !.wasSelected = @ \cup {t}]
        ELSE [freed EXCEPT !.selected = @ \ {t}, !.wasSelected = @ \ {t},
                           !.unselecting = @ \cup {t}, !.wasUnselecting = @ \cup {t},
                           !.wasSelecting = @ \ {t}]

\* The lasso from a to b touches an item or has it inside.
Hits(a, b) ==
    {i \in Row : IF lasso.fit THEN (a < i /\ i < b) \/ (b < i /\ i < a)
                 ELSE (a <= i /\ i <= b) \/ (b <= i /\ i <= a)}

\* _mouseDrag, from the data of all items.
Dragged(r, hit, meta) ==
    LET out     == Row \ hit
        left    == out \cap r.wasSelecting
        back    == IF meta THEN left \cap r.startselected ELSE {}
        dropped == left \ back
        pushed  == IF meta THEN {} ELSE (out \cap r.wasSelected) \ r.startselected
        leaving == (dropped \cap r.startselected) \cup pushed
    IN  [r EXCEPT
           !.selected = ((@ \ (hit \cap r.wasSelected)) \cup back) \ pushed,
           !.wasSelected = ((@ \ hit) \cup back) \ pushed,
           !.unselecting = (@ \ (hit \cap r.wasUnselecting)) \cup leaving,
           !.wasUnselecting = (@ \ hit) \cup leaving,
           !.selecting = (@ \cup (hit \ r.wasSelecting)) \ left,
           !.wasSelecting = (@ \cup hit) \ left]

-----------------------------------------------------------------------------
\* The button goes down at p; a release that was missed comes first.
Press(p, meta) ==
    /\ Pull
    /\ LET r == IF lasso.started THEN StoppedRow(row) ELSE row
       IN  /\ row' = IF lasso.disabled THEN r ELSE LassoStarted(r, meta, p)
           /\ drag' = [before |-> r.selected, target |-> p, at |-> p, meta |-> meta,
                       pure |-> ~lasso.disabled, moved |-> FALSE,
                       woken |-> drag.woken]
    /\ lasso' = [lasso EXCEPT !.started = TRUE, !.opos = p]
    /\ heard' = IF lasso.started THEN StoppedHeard(row, heard) ELSE heard

Pulled(p, meta) ==
    /\ Pull /\ lasso.started
    /\ row' = IF lasso.disabled THEN row ELSE Dragged(row, Hits(lasso.opos, p), meta)
    /\ drag' = [drag EXCEPT !.at = p, !.moved = TRUE, !.pure = @ /\ meta = drag.meta]
    /\ UNCHANGED <<lasso, heard>>

ReleaseLasso ==
    /\ lasso.started
    /\ row' = StoppedRow(row) /\ heard' = StoppedHeard(row, heard)
    /\ lasso' = [lasso EXCEPT !.started = FALSE]
    /\ UNCHANGED <<drag, pulls>>

DisableSelectable(d) ==
    /\ Pull /\ lasso.disabled # d
    /\ lasso' = [lasso EXCEPT !.disabled = d]
    /\ drag' = [drag EXCEPT !.pure = FALSE, !.woken = @ \/ (lasso.started /\ ~d)]
    /\ UNCHANGED <<row, heard>>

\* The page sets or removes the class ui-selected when nothing is dragged, and
\* calls refresh unless every drag does.
PageSelects(i) ==
    /\ Pull /\ ~lasso.started
    /\ LET S == IF i \in row.selected THEN row.selected \ {i} ELSE row.selected \cup {i}
           r == [row EXCEPT !.selected = S]
       IN  row' = (IF lasso.autoRefresh THEN r ELSE Refreshed(r)) /\ heard' = S
    /\ drag' = [drag EXCEPT !.pure = FALSE]
    /\ UNCHANGED lasso

SelectableNext ==
    \/ \E p \in Spots, meta \in BOOLEAN : Press(p, meta) \/ Pulled(p, meta)
    \/ ReleaseLasso
    \/ \E d \in BOOLEAN : DisableSelectable(d)
    \/ \E i \in Row : PageSelects(i)

SelectableSpec == SelectableInit /\ [][SelectableNext]_selectableVars

-----------------------------------------------------------------------------
SelectableTypeOK ==
    /\ \A k \in DOMAIN row : row[k] \subseteq Row
    /\ lasso.opos \in Spots /\ heard \subseteq Row /\ pulls \in 0..MaxPulls

(***************************************************************************)
(* Where a drag ends decides what it selects, not the way it took: the     *)
(* items in the lasso and, with the meta key, the ones selected before,    *)
(* without the one it began at; a mere click selects the item alone or,    *)
(* with the key, turns it over.                                            *)
(***************************************************************************)
Expected ==
    LET t == {drag.target} \cap Row
    IN  IF drag.moved
        THEN Hits(lasso.opos, drag.at) \cup (IF drag.meta THEN drag.before \ t ELSE {})
        ELSE IF drag.meta THEN (drag.before \ t) \cup (t \ drag.before) ELSE t

(***************************************************************************)
(* Between the drags no item is half selected; the page has heard of every *)
(* selection and of every end of one, unless the widget was once enabled   *)
(* in the middle of a drag, whose items then do not know that they were    *)
(* selected at its start; and where the last drag ended has decided it if  *)
(* the meta key was not pressed or released on the way.                    *)
(***************************************************************************)
LassoDecides ==
    ~lasso.started =>
        /\ row.selecting = {} /\ row.unselecting = {}
        /\ drag.woken \/ heard = row.selected
        /\ drag.pure => row.selected = Expected
=============================================================================
