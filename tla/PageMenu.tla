------------------------------ MODULE PageMenu ------------------------------
(***************************************************************************)
(* What follows the mouse in application.js: the drop down menus with the  *)
(* timer that closes them, the rows that are highlighted or show buttons   *)
(* while the mouse is over them, and the rows that are links.              *)
(*                                                                         *)
(* A place of the pointer is the element it is over and the row whose box  *)
(* it is in: the two differ when an open menu or the limiter's box lies    *)
(* over a row.                                                             *)
(***************************************************************************)
EXTENDS Naturals, FiniteSets

CONSTANTS Items,           \* the li of the menu bar
          WithList,        \* those with a nested ul to drop down
          Rows,            \* rows with hover_highlight, hover_visibility_toggle ...
          MaxPointerMoves  \* the bound on moves of the mouse

ASSUME MenuAssumption ==
    /\ WithList \subseteq Items /\ "page" \notin Items \cup Rows
    /\ MaxPointerMoves \in Nat

VARIABLES over,        \* the item, row or button the pointer is over, or "page"
          within,      \* the row whose box the pointer is in, or "none"
          open,        \* the items whose ul is visible
          ddmenuitem,  \* the item that was opened last, "none" before the first
          closetimer,  \* the timer the script knows, 0 for none
          timers,      \* the timeouts that will call jsddm_close
          lit,         \* the rows with the class hover_highlighted
          buttons,     \* the rows whose hover_visibility_visible items show
          wentTo,      \* the row whose url the window was sent to, or "none"
          pointerMoves

menuVars == <<over, within, open, ddmenuitem, closetimer, timers, lit, buttons,
          wentTo, pointerMoves>>

MenuInit ==
    /\ over = "page" /\ within = "none"
    /\ open = {} /\ ddmenuitem = "none" /\ closetimer = 0 /\ timers = {}
    /\ lit = {} /\ buttons = {} /\ wentTo = "none"
    /\ pointerMoves = 0

ItemClosed(o) == o \ {ddmenuitem}

\* mutant: the timer is cancelled on the way out too, once it is set.
jsddmCancelled(from, to) ==
    LET timed == IF from \in Items THEN timers \cup {pointerMoves + 1} ELSE timers
        known == IF from \in Items THEN pointerMoves + 1 ELSE closetimer
    IN  /\ timers' = timed \ {known}
        /\ closetimer' = 0
        /\ IF to \in Items
           THEN /\ open' = ItemClosed(open) \cup ({to} \cap WithList)
                /\ ddmenuitem' = to
           ELSE UNCHANGED <<open, ddmenuitem>>

\* jsddm_timer on the way out of an item, then jsddm_open on the way into
\* one: the timer is cancelled and the last item closed before the next opens.
jsddm(from, to) ==
    LET timed == IF from \in Items THEN timers \cup {pointerMoves + 1} ELSE timers
        known == IF from \in Items THEN pointerMoves + 1 ELSE closetimer
    IN  IF to \in Items
        THEN /\ timers' = timed \ {known}
             /\ closetimer' = 0
             /\ open' = ItemClosed(open) \cup ({to} \cap WithList)
             /\ ddmenuitem' = to
        ELSE /\ timers' = timed
             /\ closetimer' = known
             /\ UNCHANGED <<open, ddmenuitem>>

\* safe_hover undoes nothing while the pointer is in the box of the row, and
\* hover does not care.
hover_highlight(from, to, box) ==
    lit' = (IF from \in Rows /\ box # from THEN lit \ {from} ELSE lit)
           \cup ({to} \cap Rows)

hover_visibility_toggle(from, to) ==
    buttons' = (buttons \ {from}) \cup ({to} \cap Rows)

\* The pointer moves: over a row means within its box, and a menu or
\* anything else may cover a part of a row.
MovePointer(to, box) ==
    /\ pointerMoves < MaxPointerMoves
    /\ to # over \/ box # within
    /\ to \in Rows => box = to
    /\ pointerMoves' = pointerMoves + 1
    /\ over' = to /\ within' = box
    /\ IF to = over THEN UNCHANGED <<open, ddmenuitem, closetimer, timers, lit, buttons>>
       ELSE /\ jsddm(over, to)
            /\ hover_highlight(over, to, box) /\ hover_visibility_toggle(over, to)
    /\ UNCHANGED wentTo

\* A timeout calls jsddm_close; the script still thinks that it is pending.
TimerExpires(t) ==
    /\ t \in timers
    /\ timers' = timers \ {t}
    /\ open' = ItemClosed(open)
    /\ UNCHANGED <<over, within, ddmenuitem, closetimer, lit, buttons, wentTo, pointerMoves>>

\* A click on a row goes to its url and no further, unless there is a link,
\* an input or a button on the way up to the row; any other click reaches
\* the document and closes the menu.
ClickPage(onButton) ==
    /\ IF over \in Rows /\ ~onButton
       THEN wentTo' = over /\ UNCHANGED open
       ELSE open' = ItemClosed(open) /\ UNCHANGED wentTo
    /\ UNCHANGED <<over, within, ddmenuitem, closetimer, timers, lit, buttons, pointerMoves>>

MenuNext ==
    \/ \E to \in Items \cup Rows \cup {"page"}, box \in Rows \cup {"none"} :
          MovePointer(to, box)
    \/ \E t \in timers : TimerExpires(t)
    \/ \E onButton \in BOOLEAN : ClickPage(onButton)

\* The browser's timeouts expire.
MenuFairness == WF_menuVars(\E t \in timers : TimerExpires(t))

MenuSpec == MenuInit /\ [][MenuNext]_menuVars /\ MenuFairness

-----------------------------------------------------------------------------
MenuTypeOK ==
    /\ over \in Items \cup Rows \cup {"page"}
    /\ within \in Rows \cup {"none"} /\ wentTo \in Rows \cup {"none"}
    /\ open \subseteq WithList
    /\ ddmenuitem \in Items \cup {"none"}
    /\ closetimer \in 0..MaxPointerMoves /\ timers \subseteq 1..MaxPointerMoves
    /\ lit \subseteq Rows /\ buttons \subseteq Rows

\* No timer left from an earlier visit closes a menu under the pointer, and
\* no second menu is open beside it.
OpenUnderPointer ==
    /\ Cardinality(open) <= 1
    /\ over \in Items => timers = {} /\ open \subseteq {over}

\* A menu the pointer has left is closed in the end.
MenuCloses == over \notin Items ~> (open = {} \/ over \in Items)

\* The row under the pointer is highlighted and shows its buttons, and no
\* other row does: only the highlight may stay, where safe_hover undid nothing.
RowsFollowPointer ==
    /\ buttons = {over} \cap Rows
    /\ buttons \subseteq lit
=============================================================================
