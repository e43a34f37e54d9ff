--------------------------- MODULE FloatingItems ---------------------------
(***************************************************************************)
(* What application.js moves around with the window: items that follow the *)
(* scrolling (follow_display) and an item that is shown while the mouse is *)
(* over its row, or only while it is not, as near to that row as its       *)
(* container and the window allow (hover_display_toggle and                *)
(* floating_toggle).  Lengths are in lines.                                *)
(***************************************************************************)
EXTENDS Integers, Sequences

CONSTANTS
    Followers,  \* the items that follow, in the order they were bound:
                \* [top, edge, offset], edge is "top" or "bottom"
    Float,      \* the floating item: [height, home, top, bottom, center], its
                \* place in the page, its offsets, the middle of its row
    Container,  \* where it may float, [top, height]
    ViewHeight, PageHeight

ASSUME FloatAssumption ==
    /\ ViewHeight \in Nat /\ PageHeight \in Nat /\ ViewHeight <= PageHeight
    /\ Followers \in Seq([top : Nat, edge : {"top", "bottom"}, offset : Nat])
    /\ Float \in [height : Nat, home : Nat, top : Int, bottom : Int, center : Int]
    /\ Container \in [top : Nat, height : Nat]

VARIABLES
    view_top,   \* how far the window is scrolled
    fixed,      \* the followers with follow_display_fixed
    sized,      \* the followers with the size of their placeholder
    behind,     \* followers the last scroll did not get to
    gives_way,  \* whether the floating item is a hover_display_hidden
    visible,    \* whether it is displayed
    shift,      \* its css top, 0 while it is hidden
    placed_in,  \* where the window was when the item was placed
    placings    \* how often it was placed since it was hidden, 2 for more

floatVars == <<view_top, fixed, sized, behind, gives_way, visible, shift, placed_in,
               placings>>

Least(a, b) == IF a < b THEN a ELSE b
Most(a, b) == IF a > b THEN a ELSE b

FloatInit ==
    /\ view_top = 0
    /\ fixed = {} /\ sized = {} /\ behind = {}
    /\ gives_way \in BOOLEAN /\ visible = gives_way
    /\ shift = 0 /\ placed_in = 0 /\ placings = 0

-----------------------------------------------------------------------------
(* follow_display.                                                         *)

ToBeFixed(i, view) ==
    LET item == Followers[i]
    IN  IF item.edge = "top" THEN view > item.top + item.offset
        ELSE view < item.top - item.offset

\* A follower at the bottom edge that changes names a variable that does
\* not exist: the exception ends the event for all that were bound later.
RaisingFollowers(view) == {i \in DOMAIN Followers :
    Followers[i].edge = "bottom" /\ ToBeFixed(i, view) # (i \in fixed)}

Reached(view) == {i \in DOMAIN Followers : \A j \in RaisingFollowers(view) : i <= j}

\* Scrolling, or resizing the window, runs the handlers of all followers.
\* An item takes the size of its placeholder and gives it back at the end,
\* if it is not fixed.
Scroll(view) ==
    /\ view_top' = view
    /\ LET reached == Reached(view)
       IN  /\ fixed' = (fixed \ reached) \cup {i \in reached : ToBeFixed(i, view)}
           /\ sized' = (sized \ reached)
                       \cup {i \in reached : i \in fixed' \/ i \in RaisingFollowers(view)}
           /\ behind' = DOMAIN Followers \ reached
    /\ UNCHANGED <<gives_way, visible, shift, placed_in, placings>>

-----------------------------------------------------------------------------
(* floating_toggle.                                                        *)

\* What the container and the window leave to an item that is at offset.
target_top(offset) ==
    Most(Most(Container.top, offset), view_top + Float.top)
target_bottom(offset) ==
    Least(Most(Container.top, offset) + Container.height,
          view_top + Float.top + ViewHeight - Float.bottom)

\* Its middle is moved towards the middle of the row.
target_offset(offset) ==
    LET first == target_top(offset)
        last  == target_bottom(offset) - Float.height
    IN  IF first >= last THEN first
        ELSE Most(first, Least(Float.center - Float.height \div 2, last))

(***************************************************************************)
(* An item that is displayed is placed, whether it was displayed or not.   *)
(* The shift is relative to the place it has without one, but computed     *)
(* from where it is.                                                       *)
(***************************************************************************)
floating_toggle(display) ==
    /\ visible' = display
    /\ LET offset == Float.home + shift
       IN  shift' = IF display THEN target_offset(offset) - offset ELSE 0
    /\ placed_in' = IF display THEN view_top ELSE placed_in
    /\ placings' = IF display THEN Least(placings + 1, 2) ELSE 0
    /\ UNCHANGED <<view_top, fixed, sized, behind, gives_way>>

EnterRow == floating_toggle(~gives_way)

\* safe_hover: nothing is undone before the mouse leaves the box of the row,
\* not when it goes to something that covers a part of it.
LeaveRow == visible # gives_way /\ floating_toggle(gives_way)

FloatNext ==
    \/ \E view \in 0..PageHeight - ViewHeight : Scroll(view)
    \/ EnterRow \/ LeaveRow

FloatSpec == FloatInit /\ [][FloatNext]_floatVars

-----------------------------------------------------------------------------
FloatTypeOK ==
    /\ view_top \in 0..PageHeight - ViewHeight
    /\ fixed \cup sized \cup behind \subseteq DOMAIN Followers
    /\ gives_way \in BOOLEAN /\ visible \in BOOLEAN /\ placings \in 0..2
    /\ shift \in Int /\ placed_in \in 0..PageHeight - ViewHeight

(***************************************************************************)
(* An item that was placed once since it was hidden lies in the window as  *)
(* it was then, if the window leaves room for it, and never above its      *)
(* container; one that was not placed since then is where it belongs, and  *)
(* is hidden, unless the mouse has not been on the row yet.                *)
(***************************************************************************)
FloatsInSight ==
    /\ placings = 0 => shift = 0
    /\ placings > 0 => visible
    /\ placings = 1 =>
        /\ Float.home + shift >= Most(Container.top, placed_in + Float.top)
        /\ LET room == Least(Most(Container.top, Float.home) + Container.height,
                             placed_in + Float.top + ViewHeight - Float.bottom)
           IN  Float.height <= room - Most(Most(Container.top, Float.home),
                                           placed_in + Float.top)
               => Float.home + shift + Float.height <= room

\* A follower at the top edge that the last scroll got to is fixed exactly
\* when the window has passed it, and has the size of its placeholder only
\* then, whatever those at the bottom edge did to the scrolls before.
FollowersFollow == \A i \in DOMAIN Followers \ behind :
    Followers[i].edge = "top" =>
        /\ i \in fixed <=> ToBeFixed(i, view_top)
        /\ i \in sized <=> i \in fixed
=============================================================================
