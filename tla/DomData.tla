------------------------------ MODULE DomData ------------------------------
(***************************************************************************)
(* What jquery.js keeps beside the document: the data of an element lies   *)
(* in jQuery.cache under the number in the element's expando property; its *)
(* event handlers are part of that data, and the browser's listeners call  *)
(* a function that looks them up there.  Elements are inserted, moved,     *)
(* cloned and removed meanwhile, and no collector clears the cache.        *)
(***************************************************************************)
EXTENDS Naturals

CONSTANTS
    Nodes,     \* the elements, the copies that clone makes included
    Copies,    \* each element that is cloned and its copy, a function
    RootNode,  \* an element that stays in the document
    DataKeys,  \* names of data
    DomTypes,  \* types of events
    MaxIds     \* the bound on numbers given out

ASSUME DomAssumption ==
    /\ DOMAIN Copies \cup {Copies[n] : n \in DOMAIN Copies} \subseteq Nodes
    /\ RootNode \in Nodes /\ RootNode \notin DOMAIN Copies
    /\ "none" \notin Nodes /\ "fragment" \notin Nodes
    /\ MaxIds \in Nat

VARIABLES
    parent,  \* of each element; "none", or "fragment" for a lost one
    dom,     \* what jQuery and the browser hold, a record:
             \*   uuid       the last number given out
             \*   expando    the number of each element, 0 for none
             \*   cache      the numbers with an entry, and what it holds:
             \*              data, the types with handlers, whether there
             \*              is a handle
             \*   listeners  of each element: [type, handle] pairs, the
             \*              handle named by the entry it was made for
    leaked,  \* numbers whose element let go of them
    cleaned  \* elements that were cleaned and not used since

domVars == <<parent, dom, leaked, cleaned>>

NoEntry == [data |-> {}, events |-> {}, handle |-> FALSE]

DomInit ==
    /\ parent = [n \in Nodes |->
                    IF n \in {RootNode} \cup {Copies[m] : m \in DOMAIN Copies} THEN "none"
                    ELSE RootNode]
    /\ dom = [uuid |-> 0, expando |-> [n \in Nodes |-> 0],
              cache |-> [i \in {} |-> NoEntry], listeners |-> [n \in Nodes |-> {}]]
    /\ leaked = {} /\ cleaned = {}

-----------------------------------------------------------------------------
(* Data and handlers of one element.                                       *)

Entry(d, n) == IF d.expando[n] \in DOMAIN d.cache THEN d.cache[d.expando[n]] ELSE NoEntry

\* jQuery.data(n): an element that has no number gets one, and an entry.
Numbered(d, n) ==
    IF d.expando[n] # 0 THEN d
    ELSE [d EXCEPT !.uuid = @ + 1, !.expando[n] = d.uuid + 1,
                   !.cache = [i \in DOMAIN @ \cup {d.uuid + 1} |->
                                IF i \in DOMAIN @ THEN @[i] ELSE NoEntry]]

Stored(d, n, entry) == [d EXCEPT !.cache[d.expando[n]] = entry]

WithData(d, n, keys) ==
    LET e == Numbered(d, n)
    IN  Stored(e, n, [Entry(e, n) EXCEPT !.data = @ \cup keys])

WithHandler(d, n, t) ==
    LET e == Numbered(d, n)
        new == t \notin Entry(e, n).events
    IN  [Stored(e, n, [Entry(e, n) EXCEPT !.events = @ \cup {t}, !.handle = TRUE])
            EXCEPT !.listeners[n] = IF new THEN @ \cup {[type |-> t, handle |-> e.expando[n]]}
                                    ELSE @]

\* removeData(n): the element forgets its number; the entry stays.
Forgotten(d, n) == [d EXCEPT !.expando[n] = 0]

\* An entry with nothing left in it is given up.
Shrunk(d, n, entry) ==
    LET e == Stored(d, n, entry) IN IF entry = NoEntry THEN Forgotten(e, n) ELSE e

WithoutHandler(d, n, t) ==
    LET entry == Entry(d, n)
        left  == entry.events \ {t}
    IN  Shrunk([d EXCEPT !.listeners[n] = @ \ {[type |-> t, handle |-> d.expando[n]]}],
               n, [entry EXCEPT !.events = left, !.handle = left # {}])

\* mutant: the entries stay.
cleanDataKeepingEntries(d, elems) ==
    [d EXCEPT
        !.listeners = [n \in Nodes |-> IF n \notin elems THEN @[n]
            ELSE {l \in @[n] : l.handle # d.expando[n] \/ l.type \notin Entry(d, n).events}],
        !.expando = [n \in Nodes |-> IF n \in elems THEN 0 ELSE @[n]]]

\* cleanData: listeners, numbers and entries of the elements go.
cleanData(d, elems) ==
    [d EXCEPT
        !.listeners = [n \in Nodes |-> IF n \notin elems THEN @[n]
            ELSE {l \in @[n] : l.handle # d.expando[n] \/ l.type \notin Entry(d, n).events}],
        !.expando = [n \in Nodes |-> IF n \in elems THEN 0 ELSE @[n]],
        !.cache = [i \in DOMAIN @ \ {d.expando[n] : n \in elems} |-> @[i]]]

\* The numbers that lose their element between two states and keep an entry.
Leaks(d, e) == {d.expando[n] : n \in {m \in Nodes : d.expando[m] # e.expando[m]}}
               \cap DOMAIN e.cache

-----------------------------------------------------------------------------
(* The document.                                                           *)

\* An element and everything inside of it: what belongs to each set that has
\* the element and, with an element, its children.
InsideOf(n) ==
    {m \in Nodes : \A S \in SUBSET Nodes :
        n \in S /\ (\A x \in Nodes : parent[x] \in S => x \in S) => m \in S}

Exists(n) == n = RootNode \/ parent[n] # "none"

Use(n, d) ==
    /\ Exists(n) /\ d.uuid <= MaxIds
    /\ dom' = d
    /\ leaked' = leaked \cup Leaks(dom, d)
    /\ cleaned' = cleaned \ {n}
    /\ UNCHANGED parent

SetData(n, k) == Use(n, WithData(dom, n, {k}))
DomBind(n, t) == Use(n, WithHandler(dom, n, t))
DomUnbind(n, t) == t \in Entry(dom, n).events /\ Use(n, WithoutHandler(dom, n, t))
RemoveData(n, k) ==
    /\ k \in Entry(dom, n).data
    /\ Use(n, Shrunk(dom, n, [Entry(dom, n) EXCEPT !.data = @ \ {k}]))
RemoveAllData(n) == dom.expando[n] # 0 /\ Use(n, Forgotten(dom, n))

Cleans(elems) ==
    /\ dom' = cleanData(dom, elems)
    /\ cleaned' = cleaned \cup elems
    /\ UNCHANGED leaked

\* remove() cleans the element and its contents, detach() does not.
TakeOut(n) ==
    /\ n # RootNode /\ Exists(n)
    /\ Cleans(InsideOf(n))
    /\ parent' = [parent EXCEPT ![n] = "fragment"]

Detach(n) ==
    /\ n # RootNode /\ Exists(n)
    /\ parent' = [parent EXCEPT ![n] = "fragment"]
    /\ UNCHANGED <<dom, leaked, cleaned>>

\* empty(), and html() with a string: the contents go, the element stays.
Empty(n) ==
    /\ Exists(n)
    /\ Cleans(InsideOf(n) \ {n})
    /\ parent' = [m \in Nodes |-> IF parent[m] = n THEN "fragment" ELSE parent[m]]

\* append() and its kin move an element to one target; for several targets
\* copies without data are inserted and the element itself is left out.
Insert(n, to) ==
    /\ n # RootNode /\ Exists(n) /\ to \notin InsideOf(n)
    /\ to \in Nodes => Exists(to)
    /\ parent' = [parent EXCEPT ![n] = to]
    /\ UNCHANGED <<dom, leaked, cleaned>>

\* replaceWith(): the new element is detached first, so that it keeps its
\* data even if it comes from the inside of the one that is removed.
ReplaceWith(n, m) ==
    /\ n # RootNode /\ m # RootNode /\ n # m /\ Exists(m)
    /\ parent[n] \in Nodes /\ n \notin InsideOf(m)
    /\ Cleans(InsideOf(n) \ InsideOf(m))
    /\ parent' = [parent EXCEPT ![m] = parent[n], ![n] = "fragment"]

(***************************************************************************)
(* clone(), with the data and handlers or without: the copy of an element  *)
(* has an entry and a handle of its own, and so has the original then.     *)
(***************************************************************************)
Copied(d, n) ==
    LET c == Copies[n]
        e == Numbered(Numbered(d, n), c)
        entry == Entry(e, n)
    IN  [Stored(e, c, entry) EXCEPT
            !.listeners[c] = {[type |-> t, handle |-> e.expando[c]] : t \in entry.events}]

Clone(n, events) ==
    /\ n \in DOMAIN Copies /\ parent[Copies[n]] = "none"
    /\ parent' = [parent EXCEPT ![Copies[n]] = "fragment"]
    /\ dom' = IF events THEN Copied(dom, n) ELSE dom
    /\ dom'.uuid <= MaxIds
    /\ cleaned' = cleaned \ (IF events THEN {n, Copies[n]} ELSE {})
    /\ UNCHANGED leaked

DomNext ==
    \E n \in Nodes :
        \/ \E k \in DataKeys : SetData(n, k) \/ RemoveData(n, k)
        \/ \E t \in DomTypes : DomBind(n, t) \/ DomUnbind(n, t)
        \/ RemoveAllData(n)
        \/ TakeOut(n) \/ Detach(n) \/ Empty(n)
        \/ \E to \in Nodes \cup {"fragment"} : Insert(n, to)
        \/ \E m \in Nodes : ReplaceWith(n, m)
        \/ \E events \in BOOLEAN : Clone(n, events)

DomSpec == DomInit /\ [][DomNext]_domVars

-----------------------------------------------------------------------------
DomTypeOK ==
    /\ parent \in [Nodes -> Nodes \cup {"none", "fragment"}]
    /\ dom.uuid \in 0..MaxIds
    /\ dom.expando \in [Nodes -> 0..dom.uuid]
    /\ DOMAIN dom.cache \subseteq 1..dom.uuid
    /\ \A i \in DOMAIN dom.cache :
          dom.cache[i] \in [data : SUBSET DataKeys, events : SUBSET DomTypes, handle : BOOLEAN]
    /\ leaked \subseteq 1..dom.uuid /\ cleaned \subseteq Nodes

(***************************************************************************)
(* The cache fits the elements: each number belongs to one element and has *)
(* an entry, and an entry without an element was let go of by removeData.  *)
(* The browser listens for an element's handlers with the handle of its    *)
(* entry, and for nothing else but what removeData left behind.  Nothing   *)
(* is left of an element that was removed or inside of one.                *)
(***************************************************************************)
CacheFits ==
    /\ \A n, m \in Nodes : dom.expando[n] # 0 =>
          /\ dom.expando[n] \in DOMAIN dom.cache
          /\ dom.expando[m] = dom.expando[n] => m = n
    /\ DOMAIN dom.cache = ({dom.expando[n] : n \in Nodes} \ {0}) \cup leaked
    /\ \A n \in Nodes :
          /\ {l \in dom.listeners[n] : l.handle \notin leaked}
             = {[type |-> t, handle |-> dom.expando[n]] : t \in Entry(dom, n).events}
          /\ Entry(dom, n).handle <=> Entry(dom, n).events # {}
    /\ \A n \in cleaned : dom.expando[n] = 0
=============================================================================
