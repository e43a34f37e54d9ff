------------------------------- MODULE Events -------------------------------
(***************************************************************************)
(* The event system of jquery.js: handlers bound, bound for one run or     *)
(* bound live to a selector, namespaces, the special event mouseenter, and *)
(* the dispatch of the browser's events and of triggered ones.             *)
(*                                                                         *)
(* A handler may return false, unbind, bind or trigger the same event once *)
(* more; so a dispatch is cut between any two handlers, and dispatching is *)
(* the stack of those under way, its head the innermost.                   *)
(***************************************************************************)
EXTENDS Naturals, Sequences, FiniteSets, SequencesExt

CONSTANTS
    Path,      \* the elements, innermost first, with the document at last
    Guids,     \* the functions of the page
    Does,      \* what each does, of "false", "unbind", "trigger"
    Names,     \* namespaces
    MaxBinds,  \* the bound on handlers that are bound
    MaxEvents  \* the bound on events the page or the browser fires

ASSUME EventsAssumption ==
    /\ Path \in Seq(Range(Path)) /\ Path # <<>> /\ IsInjective(Path)
    /\ Does \in [Guids -> SUBSET {"false", "unbind", "trigger"}]
    /\ MaxBinds \in Nat /\ MaxEvents \in Nat

VARIABLES
    bus,           \* what jQuery and the browser hold, a record:
                   \*   lists   the handlers of each element, by type
                   \*   native  the types each element has a listener for
    dispatching,   \* the events under way
    binds, fired,  \* counters of the bounds
    cut,           \* elements where unbind took what a live handler needs
    ran            \* what has run, a record:
                   \*   spent   handlers of one() that have run
                   \*   again   handlers that have run once too often
                   \*   nested  an event was triggered from a handler

eventVars == <<bus, dispatching, binds, fired, cut, ran>>

PathNodes == Range(Path)
EventTypes == {"click", "mouseenter", "mouseover", "live"}
Level(n) == CHOOSE i \in DOMAIN Path : Path[i] = n

EventsInit ==
    /\ bus = [lists  |-> [n \in PathNodes |-> [t \in EventTypes |-> <<>>]],
              native |-> [n \in PathNodes |-> {}]]
    /\ dispatching = <<>>
    /\ binds = 0 /\ fired = 0
    /\ cut = {}
    /\ ran = [spent |-> {}, again |-> {}, nested |-> FALSE]

-----------------------------------------------------------------------------
(* jQuery.event.add and jQuery.event.remove.                               *)

\* The first handler of a type sets the listener; that of mouseenter is the
\* handler withinElement of mouseover.
PlainAdd(b, n, t, entry) ==
    [lists  |-> [b.lists EXCEPT ![n][t] = Append(@, entry)],
     native |-> [b.native EXCEPT ![n] = IF b.lists[n][t] = <<>> THEN @ \cup {t} ELSE @]]

Within == [kind |-> "within", guid |-> "withinElement", names |-> {}, sel |-> "none", id |-> 0]

event_add(b, n, t, entry) ==
    CASE t = "mouseenter" ->
            LET heard == IF b.lists[n][t] = <<>> THEN PlainAdd(b, n, "mouseover", Within) ELSE b
            IN  [lists  |-> [heard.lists EXCEPT ![n][t] = Append(@, entry)],
                 native |-> heard.native]
      [] t = "live" ->
            PlainAdd(PlainAdd(b, n, "click", [entry EXCEPT !.kind = "liveHandler"]),
                     n, "live", entry)
      [] OTHER -> PlainAdd(b, n, t, entry)

\* The handlers of a list that are wanted, in the order of the list.
Keeping(list, wanted) ==
    FlattenSeq([i \in 1..Len(list) |-> IF list[i] \in wanted THEN <<list[i]>> ELSE <<>>])

\* The last handler of a type that goes takes the listener with it.
PlainRemove(b, n, t, gone) ==
    LET list == Keeping(b.lists[n][t], Range(b.lists[n][t]) \ gone)
    IN  [lists  |-> [b.lists EXCEPT ![n][t] = list],
         native |-> [b.native EXCEPT ![n] = IF list = <<>> THEN @ \ {t} ELSE @]]

\* A live handler goes with the liveHandler entries of its function,
\* selector and namespaces, whichever call they came from.
Serving(b, n, gone) ==
    {entry \in Range(b.lists[n].click) :
        /\ entry.kind = "liveHandler"
        /\ \E live \in gone : /\ live.guid = entry.guid /\ live.sel = entry.sel
                              /\ live.names \subseteq entry.names}

event_remove(b, n, t, gone) ==
    LET less == PlainRemove(b, n, t, gone)
    IN  CASE t = "mouseenter" /\ b.lists[n][t] # <<>> /\ less.lists[n][t] = <<>> ->
                PlainRemove(less, n, "mouseover", {Within})
          [] t = "live" -> PlainRemove(less, n, "click", Serving(b, n, gone))
          [] OTHER -> less

\* Elements whose live handlers nobody calls any more.
Cut(b) == {n \in PathNodes : \E live \in Range(b.lists[n].live) :
    ~\E entry \in Range(b.lists[n].click) :
        entry.kind = "liveHandler" /\ entry.id = live.id}

-----------------------------------------------------------------------------
(* What the page calls, from the outside or from a handler.                *)

NoEvent == dispatching = <<>>
NewBind == NoEvent /\ binds < MaxBinds /\ binds' = binds + 1

BindHandler(n, t, g, name, kind) ==
    /\ NewBind
    /\ bus' = event_add(bus, n, t, [kind |-> kind, guid |-> g, names |-> name,
                              sel |-> "none", id |-> binds'])
    /\ UNCHANGED <<dispatching, fired, cut, ran>>

\* live() from the document, delegate() from another element.
Live(n, sel, g, name) ==
    /\ NewBind
    /\ Level(sel) < Level(n)
    /\ bus' = event_add(bus, n, "live", [kind |-> "live", guid |-> g, names |-> name,
                                   sel |-> sel, id |-> binds'])
    /\ UNCHANGED <<dispatching, fired, cut, ran>>

\* unbind(type.name, fn), each part of which may be missing; die() is the
\* same for the live handlers of a selector.
ChosenHandlers(list, g, name, sel) ==
    {entry \in Range(list) :
        /\ entry.kind # "within"
        /\ g # "any" => entry.guid = g
        /\ name \subseteq entry.names
        /\ sel # "none" => entry.sel = sel}

UnbindHandler(n, t, g, name, sel) ==
    /\ NoEvent /\ bus.lists[n][t] # <<>>
    /\ sel # "none" => t = "live"
    /\ bus' = event_remove(bus, n, t, ChosenHandlers(bus.lists[n][t], g, name, sel))
    /\ cut' = IF t = "live" THEN cut ELSE cut \cup Cut(bus')
    /\ UNCHANGED <<dispatching, binds, fired, ran>>

-----------------------------------------------------------------------------
(* Dispatch.                                                               *)

Listed(b, n, t, names) ==
    Keeping(b.lists[n][t], {entry \in Range(b.lists[n][t]) : names \subseteq entry.names})

\* The handle of an element goes with its last handler.
HasHandle(b, n) == \E t \in EventTypes : b.lists[n][t] # <<>>

\* An event that gets to the element at a level of its path.  The namespaces
\* are taken off its type at the first element with a handle: handlers
\* further up are not asked for them, only live ones are.
Reaches(e, b, level) ==
    LET n == Path[level]
        t == IF e.byBrowser THEN e.original ELSE e.type
    IN  [e EXCEPT !.at = level, !.type = t,
                  !.liveFired = IF e.byBrowser THEN "none" ELSE @,
                  !.rest = IF e.byBrowser /\ t \notin b.native[n] THEN <<>>
                           ELSE Listed(b, n, t, e.filter),
                  !.filter = IF HasHandle(b, n) THEN {} ELSE @]

\* related is where the mouse came from, names the namespaces of a trigger;
\* seen are the live handlers that have run for this event.
EventAt(b, t, n, names, related, byBrowser) ==
    Reaches([type |-> t, original |-> t, target |-> n, names |-> names, filter |-> names,
             related |-> related, byBrowser |-> byBrowser, at |-> 0, rest |-> <<>>,
             lives |-> <<>>, maxLevel |-> Len(Path), stop |-> FALSE,
             stopped |-> FALSE, liveFired |-> "none", seen |-> {}],
            b, Level(n))

BeginEvent(event) ==
    /\ NoEvent /\ fired < MaxEvents
    /\ fired' = fired + 1
    /\ dispatching' = <<event>>
    /\ UNCHANGED <<bus, binds, cut, ran>>

Fire(t, n, related) == BeginEvent(EventAt(bus, t, n, {}, related, TRUE))
Trigger(t, n, names) == BeginEvent(EventAt(bus, t, n, names, "none", FALSE))

TopEvent == Head(dispatching)
Here == Path[TopEvent.at]
GoesOn(event) ==
    /\ dispatching' = <<event>> \o Tail(dispatching)
    /\ UNCHANGED <<bus, binds, fired, cut, ran>>

(***************************************************************************)
(* A function g runs on the element n; b is what it finds, e the event as  *)
(* it goes on afterwards.  If it triggers the event once more, that one is *)
(* dispatched first.                                                       *)
(***************************************************************************)
Runs(g, n, b, e) ==
    LET again == "trigger" \in Does[g] /\ fired < MaxEvents
    IN  /\ bus' = IF "unbind" \notin Does[g] THEN b
                  ELSE event_remove(b, n, e.type,
                                    ChosenHandlers(b.lists[n][e.type], "any", {}, "none"))
        /\ cut' = cut \cup Cut(bus')
        /\ fired' = IF again THEN fired + 1 ELSE fired
        /\ dispatching' =
              (IF again THEN <<EventAt(bus', e.type, e.target, {}, "none", FALSE)>> ELSE <<>>)
              \o <<e>> \o Tail(dispatching)
        /\ UNCHANGED binds

\* Handlers are called from the copy of the list that was made when the
\* event got to the element.
NextIs(kind) ==
    /\ dispatching # <<>> /\ TopEvent.lives = <<>> /\ TopEvent.rest # <<>>
    /\ Head(TopEvent.rest).kind = kind
Rest == [TopEvent EXCEPT !.rest = Tail(@)]
Ret(e, g) == [e EXCEPT !.stopped = @ \/ "false" \in Does[g]]

CallHandler ==
    /\ NextIs("page")
    /\ LET entry == Head(TopEvent.rest)
       IN  Runs(entry.guid, Here, bus, Ret(Rest, entry.guid))
    /\ ran' = [ran EXCEPT !.nested = @ \/ Len(dispatching') > Len(dispatching)]

\* one(): the function unbinds every handler of its guid and type, then runs.
CallOne ==
    /\ NextIs("one")
    /\ LET entry == Head(TopEvent.rest)
           same  == ChosenHandlers(bus.lists[Here][TopEvent.type], entry.guid, {}, "none")
       IN  /\ Runs(entry.guid, Here, event_remove(bus, Here, TopEvent.type, same),
                   Ret(Rest, entry.guid))
           /\ ran' = [spent  |-> ran.spent \cup {entry.id},
                      again  |-> ran.again \cup ({entry.id} \cap ran.spent),
                      nested |-> ran.nested \/ Len(dispatching') > Len(dispatching)]

\* withinElement: a mouse that comes from inside the element has not entered
\* it.  The event keeps the type mouseenter.
CallWithin ==
    /\ NextIs("within")
    /\ GoesOn(IF TopEvent.related \in {Path[i] : i \in 1..TopEvent.at} THEN Rest
              ELSE [Rest EXCEPT !.type = "mouseenter",
                                !.rest = Listed(bus, Here, "mouseenter", {}) \o @])

\* liveHandler: once for an element and event, the live handlers whose
\* selectors match on the way from the target, those of inner elements first.
Matching(e) ==
    LET live == Listed(bus, Here, "live", e.names)
        from == Level(e.target)
        at(level) == Keeping(live, {entry \in Range(live) : entry.sel = Path[level]})
    IN  FlattenSeq([i \in 1..(e.at - from) |-> at(from + i - 1)])

CallLiveHandler ==
    /\ NextIs("liveHandler")
    /\ GoesOn(IF TopEvent.liveFired = Here THEN Rest
              ELSE [Rest EXCEPT !.liveFired = Here, !.lives = Matching(TopEvent),
                                !.maxLevel = Len(Path), !.stop = FALSE])

\* The return values take effect when liveHandler returns.
Returned(e) == IF e.lives # <<>> THEN e ELSE [e EXCEPT !.stopped = @ \/ e.stop]

CallLive ==
    /\ dispatching # <<>> /\ TopEvent.lives # <<>>
    /\ LET entry == Head(TopEvent.lives)
           level == Level(entry.sel)
           no    == "false" \in Does[entry.guid]
           e     == [TopEvent EXCEPT !.lives = Tail(@), !.seen = @ \cup {entry.id},
                                !.stop = @ \/ no,
                                !.maxLevel = IF no \/ TopEvent.stopped THEN level ELSE @]
       IN  IF level > TopEvent.maxLevel
           THEN GoesOn(Returned([TopEvent EXCEPT !.lives = <<>>]))
           ELSE /\ Runs(entry.guid, entry.sel, bus, Returned(e))
                /\ ran' = [ran EXCEPT !.again = @ \cup ({entry.id} \cap TopEvent.seen),
                                      !.nested = @ \/ Len(dispatching') > Len(dispatching)]

Bubble ==
    /\ dispatching # <<>> /\ TopEvent.rest = <<>> /\ TopEvent.lives = <<>>
    /\ IF ~TopEvent.stopped /\ TopEvent.at < Len(Path)
       THEN GoesOn(Reaches(TopEvent, bus, TopEvent.at + 1))
       ELSE /\ dispatching' = Tail(dispatching)
            /\ UNCHANGED <<bus, binds, fired, cut, ran>>

-----------------------------------------------------------------------------
EventsNext ==
    \/ \E n \in PathNodes, g \in Guids, name \in SUBSET Names :
        \/ \E t \in {"click", "mouseenter"}, kind \in {"page", "one"} :
              BindHandler(n, t, g, name, kind)
        \/ \E sel \in PathNodes : Live(n, sel, g, name)
    \/ \E n \in PathNodes, t \in EventTypes \ {"mouseover"}, name \in SUBSET Names :
        \/ \E g \in Guids \cup {"any"}, sel \in PathNodes \cup {"none"} :
              UnbindHandler(n, t, g, name, sel)
        \/ t = "click" /\ Trigger(t, n, name)
    \/ \E n \in PathNodes, related \in PathNodes \cup {"none"} : Fire("mouseover", n, related)
    \/ \E n \in PathNodes : Fire("click", n, "none")
    \/ CallHandler \/ CallOne \/ CallWithin \/ CallLiveHandler \/ CallLive \/ Bubble

EventsSpec == EventsInit /\ [][EventsNext]_eventVars

-----------------------------------------------------------------------------
EventsTypeOK ==
    /\ \A n \in PathNodes, t \in EventTypes : \A i \in DOMAIN bus.lists[n][t] :
          bus.lists[n][t][i].kind \in {"page", "one", "within", "live", "liveHandler"}
    /\ bus.native \in [PathNodes -> SUBSET EventTypes]
    /\ \A i \in DOMAIN dispatching : dispatching[i].at \in DOMAIN Path
    /\ binds \in 0..MaxBinds /\ fired \in 0..MaxEvents
    /\ cut \subseteq PathNodes /\ ran.nested \in BOOLEAN

(***************************************************************************)
(* An element listens to what it has handlers for and to nothing else;     *)
(* mouseover is handled for mouseenter while that has handlers, and every  *)
(* live handler has somebody to call it, unless an unbind took it away.    *)
(***************************************************************************)
ListenersMatch == \A n \in PathNodes :
    LET lists == bus.lists[n]
    IN  /\ \A t \in EventTypes \ {"mouseenter"} : t \in bus.native[n] <=> lists[t] # <<>>
        /\ lists["mouseover"] = IF lists["mouseenter"] = <<>> THEN <<>> ELSE <<Within>>
        /\ n \notin cut =>
              {e.id : e \in {l \in Range(lists.click) : l.kind = "liveHandler"}}
              = {l.id : l \in Range(lists.live)}

\* A live handler runs once for an event, however many of them there are; a
\* handler of one() runs once, unless a handler triggers in between.
RunsOnce == ran.nested \/ ran.again = {}
=============================================================================
