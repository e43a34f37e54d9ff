-------------------------------- MODULE Tabs --------------------------------
(***************************************************************************)
(* The tabs of jquery-ui.js.  Users click tabs and the page selects, loads, *)
(* adds, removes, enables and disables them while panels are animated and  *)
(* a remote panel is being loaded; the steps of a selection wait in the    *)
(* queue "tabs" of the element.                                            *)
(***************************************************************************)
EXTENDS Integers, Sequences, SequencesExt, FiniteSets

CONSTANTS
    TabIds,      \* 1..n, of all tabs there ever are
    RemoteTabs,  \* of them the ones whose panel is loaded
    MaxActs      \* the bound on what users and the page do

ASSUME TabsAssumption ==
    /\ IsFiniteSet(TabIds) /\ TabIds = 1..Cardinality(TabIds) /\ {1, 2} \subseteq TabIds
    /\ RemoteTabs \subseteq TabIds /\ MaxActs \in Nat

VARIABLES
    tabs,  \* the widget and its elements, a record:
           \*   collapsible, fx, cache   the options
           \*   order       lis, anchors and panels: a sequence of tabs
           \*   selected    options.selected, an index, 0 for none
           \*   disabled    options.disabled, a set of indices
           \*   selClass, disClass, processing   the tabs of class
           \*       ui-tabs-selected, ui-state-disabled, ui-state-processing
           \*   shown       the panels without the class ui-tabs-hide
           \*   queue       the queue "tabs", of [do, who]
           \*   anims       the animations under way, of [do, who]
           \*   loading     the tab that is being loaded, 0 for none
           \*   cached      the tabs with cache.tabs
           \*   filled      the remote panels that were answered
           \*   alive       whether it has not been destroyed
    torn,  \* whether a list was rebuilt in the middle of a selection, or a
           \* load by the page cut off the one of the selected tab
    acts

tabsVars == <<tabs, torn, acts>>

Lis(n) == {n.order[i] : i \in DOMAIN n.order}
IndexOf(n, t) == CHOOSE i \in DOMAIN n.order : n.order[i] = t
Switching(n) == n.queue # <<>> \/ n.anims # {}

-----------------------------------------------------------------------------
(* The queue, on a record n of the widget.                                 *)

(***************************************************************************)
(* hideTab and showTab.  Without fx a hidden panel dequeues at once; with   *)
(* fx each panel does it when its animation ends.                          *)
(***************************************************************************)
Hidden(n, panels) == [n EXCEPT !.selClass = {}, !.shown = @ \ panels]

Perform(n, job) ==
    CASE job.do = "tell" -> n
      [] job.do = "show" ->
            [n EXCEPT !.selClass = @ \cup job.who, !.shown = @ \cup job.who,
                      !.anims = IF n.fx THEN @ \cup {job} ELSE @]
      [] job.do = "hide" ->
            IF n.fx THEN [n EXCEPT !.anims = @ \cup {[do |-> "hide", who |-> {p}] : p \in job.who}]
            ELSE Hidden(n, job.who)

Pop(n) == IF n.queue = <<>> THEN n
          ELSE Perform([n EXCEPT !.queue = Tail(@)], Head(n.queue))
DequeueTabs(n) ==
    IF n.queue # <<>> /\ Head(n.queue).do = "hide" /\ ~n.fx THEN Pop(Pop(n)) ELSE Pop(n)

\* The callback of an animation.
Finished(n, anim) ==
    LET m == [n EXCEPT !.anims = @ \ {anim}]
    IN  IF anim.do = "hide" THEN DequeueTabs(Hidden(m, anim.who)) ELSE m

\* panels.stop(false, true): one panel after the other jumps to its end, and
\* may start the animation of a later one.
Stopped(n, t) ==
    LET End(m, what) == IF [do |-> what, who |-> {t}] \in n.anims
                        THEN Finished(m, [do |-> what, who |-> {t}]) ELSE m
    IN  End(End(n, "hide"), "show")

StopPanels(n) ==
    LET upTo[i \in 0..Len(n.order)] == IF i = 0 THEN n ELSE Stopped(upTo[i - 1], n.order[i])
    IN  upTo[Len(n.order)]

LastTwo(q) == IF Len(q) <= 2 THEN q ELSE SubSeq(q, Len(q) - 1, Len(q))

AbortTabs(n) == [StopPanels(n) EXCEPT !.queue = LastTwo(@), !.loading = 0, !.processing = {}]

LoadTab(n, t) ==
    LET m == AbortTabs(n)
    IN  DequeueTabs(IF t \notin RemoteTabs \/ (m.queue # <<>> /\ t \in m.cached) THEN m
                    ELSE [m EXCEPT !.loading = t, !.processing = {t}])

(***************************************************************************)
(* The handler of a tab's event, and the conditions on which it goes on.   *)
(***************************************************************************)
Takes(n, t) ==
    /\ n.collapsible \/ t \notin n.selClass
    /\ t \notin n.disClass \cup n.processing
    /\ \A a \in n.anims : a.who \cap Lis(n) = {}

Selected(n, t) ==
    LET hide == [do |-> "hide", who |-> n.shown \cap Lis(n)]
        show == [do |-> "show", who |-> {t}]
        m    == AbortTabs([n EXCEPT !.selected = IndexOf(n, t)])
    IN  IF t \in n.selClass
        THEN DequeueTabs([m EXCEPT !.selected = 0, !.queue = Append(@, hide)])
        ELSE LoadTab([m EXCEPT !.queue = IF hide.who = {} THEN Append(@, show)
                                         ELSE @ \o <<hide, show>>], t)

\* _tabify, after the list or an option has changed.
Tabify(n) ==
    LET on == {i \in DOMAIN n.order : n.order[i] \in n.selClass}
    IN  [n EXCEPT !.selected = IF on = {} THEN 0 ELSE CHOOSE i \in on : \A j \in on : i <= j,
                  !.disClass = {n.order[i] : i \in n.disabled \cap DOMAIN n.order} \ n.selClass,
                  !.cached = IF n.cache THEN @ ELSE {}]

-----------------------------------------------------------------------------
(* _create with the first tab selected.                                    *)
TabsInit ==
    /\ \E collapsible, fx, cache \in BOOLEAN, disabled \in SUBSET {2} :
        tabs = LoadTab([collapsible |-> collapsible, fx |-> fx, cache |-> cache,
                        order |-> <<1, 2>>, selected |-> 1, disabled |-> disabled,
                        selClass |-> {1}, disClass |-> disabled, processing |-> {},
                        shown |-> {1}, queue |-> <<[do |-> "tell", who |-> {1}]>>,
                        anims |-> {}, loading |-> 0, cached |-> {}, filled |-> {},
                        alive |-> TRUE], 1)
    /\ torn = FALSE /\ acts = 0

ByPage(n, t) ==
    /\ tabs.alive /\ acts < MaxActs
    /\ tabs' = n /\ torn' = (torn \/ t) /\ acts' = acts + 1

\* A click, or select(index) of the page.
SelectTab(t) == t \in Lis(tabs) /\ Takes(tabs, t) /\ ByPage(Selected(tabs, t), FALSE)

Load(t) ==
    /\ t \in Lis(tabs)
    /\ ByPage(LoadTab(tabs, t), tabs.loading \notin {0, t})

Shift(S, i, d) == {IF j >= i THEN j + d ELSE j : j \in S}

\* add: the only tab is selected.
Add(i) ==
    LET new  == CHOOSE t \in TabIds \ Lis(tabs) : TRUE
        at   == IF i > Len(tabs.order) THEN Len(tabs.order) + 1 ELSE i
        list == Tabify([tabs EXCEPT !.order = InsertAt(@, at, new),
                                    !.filled = @ \ {new}, !.cached = @ \ {new},
                                    !.disabled = Shift(@, at, 1)])
    IN  /\ TabIds \ Lis(tabs) # {}
        /\ ByPage(IF Len(list.order) > 1 THEN list
                  ELSE LoadTab([list EXCEPT !.selected = 1, !.selClass = @ \cup {new},
                                   !.shown = @ \cup {new},
                                   !.queue = Append(@, [do |-> "tell", who |-> {new}])], new),
                  Switching(tabs))

\* remove: the neighbour of a selected tab is clicked.
RemoveTab(i) ==
    LET t    == tabs.order[i]
        next == IF i < Len(tabs.order) THEN i + 1 ELSE i - 1
        sel  == IF t \in tabs.selClass /\ next > 0 /\ Takes(tabs, tabs.order[next])
                THEN Selected(tabs, tabs.order[next]) ELSE tabs
        gone == [sel EXCEPT !.order = RemoveAt(@, i), !.selClass = @ \ {t}, !.shown = @ \ {t},
                            !.processing = @ \ {t}, !.disabled = Shift(@ \ {i}, i, -1)]
    IN  i \in DOMAIN tabs.order /\ ByPage(Tabify(gone), Switching(tabs) \/ Switching(sel))

Enable(i) ==
    /\ i \in tabs.disabled
    /\ ByPage([tabs EXCEPT !.disabled = @ \ {i}, !.disClass = @ \ {tabs.order[i]}], FALSE)

DisableTab(i) ==
    /\ i \in DOMAIN tabs.order \ {tabs.selected}
    /\ ByPage([tabs EXCEPT !.disabled = @ \cup {i}, !.disClass = @ \cup {tabs.order[i]}], FALSE)

\* option("disabled", S).
SetDisabled(S) ==
    ByPage(Tabify([tabs EXCEPT !.disabled = S]), Switching(tabs))

Url(t) == t \in tabs.cached /\ ByPage([tabs EXCEPT !.cached = @ \ {t}], FALSE)

DestroyTabs ==
    LET n == AbortTabs(tabs)
    IN  ByPage([n EXCEPT !.alive = FALSE, !.selClass = {}, !.disClass = {}, !.cached = {},
                         !.shown = @ \cup Lis(n)], FALSE)

AnimationEnds(a) == tabs' = Finished(tabs, a) /\ UNCHANGED <<torn, acts>>

\* success and error; an error fills the cache no more than an abort does.
Answered(ok) ==
    /\ tabs.loading # 0
    /\ tabs' = [tabs EXCEPT !.loading = 0, !.processing = {}, !.filled = @ \cup {tabs.loading},
                            !.cached = IF ok /\ tabs.cache THEN @ \cup {tabs.loading} ELSE @]
    /\ UNCHANGED <<torn, acts>>

TabsNext ==
    \/ \E t \in TabIds : SelectTab(t) \/ Load(t) \/ Url(t)
    \/ \E i \in 1..Cardinality(TabIds) : Add(i) \/ RemoveTab(i) \/ Enable(i) \/ DisableTab(i)
    \/ \E S \in SUBSET (DOMAIN tabs.order \ {tabs.selected}) : SetDisabled(S)
    \/ DestroyTabs
    \/ \E a \in tabs.anims : AnimationEnds(a)
    \/ \E ok \in BOOLEAN : Answered(ok)

TabsSpec == TabsInit /\ [][TabsNext]_tabsVars

-----------------------------------------------------------------------------
TabsTypeOK ==
    /\ tabs.order \in Seq(TabIds) /\ IsInjective(tabs.order)
    /\ tabs.selected \in 0..Len(tabs.order) /\ tabs.disabled \subseteq DOMAIN tabs.order
    /\ tabs.selClass \subseteq TabIds /\ tabs.shown \subseteq TabIds
    /\ tabs.loading \in {0} \cup RemoteTabs
    /\ acts \in 0..MaxActs

(***************************************************************************)
(* Once no selection is under way the option selected, the highlighted tab *)
(* and the visible panel name the same tab, it is not disabled, the class  *)
(* of disabled tabs follows the option, the spinner turns on the tab being *)
(* loaded, and the remote panel that is seen was answered or will be.      *)
(***************************************************************************)
TabsAgree ==
    tabs.alive /\ ~torn /\ ~Switching(tabs) =>
        LET on == IF tabs.selected = 0 THEN {} ELSE {tabs.order[tabs.selected]}
        IN  /\ tabs.selClass = on /\ tabs.shown = on
            /\ tabs.selected \notin tabs.disabled
            /\ tabs.disClass = {tabs.order[i] : i \in tabs.disabled}
            /\ tabs.processing \subseteq {tabs.loading}
            /\ on \cap RemoteTabs \subseteq tabs.filled \cup {tabs.loading}
=============================================================================
