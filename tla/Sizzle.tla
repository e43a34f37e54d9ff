------------------------------- MODULE Sizzle -------------------------------
(***************************************************************************)
(* The selector engine of jquery.js and the traversal functions built on   *)
(* it.  An element is a number; a selector is a sequence of groups (what   *)
(* stands between the commas), a group a sequence of parts: compounds and, *)
(* where it is not the blank, the relation between two of them.            *)
(*                                                                         *)
(* The engine works from the right: it finds the elements of the last      *)
(* compound and replaces each, part by part, with the relative that the    *)
(* part asks for.  While it climbs it leaves marks on the elements of the  *)
(* page, sizcache and nodeIndex, that later queries, and queries on a page *)
(* that has changed, find there.                                           *)
(***************************************************************************)
EXTENDS Integers, Sequences, FiniteSets, SequencesExt

CONSTANTS
    Elements,   \* the elements, numbers above 0
    Tag, Id,    \* the tag and the id of each
    Marks,      \* the classes, attributes and states that selectors ask for
    Docs,       \* the shapes of the page: order and parent, 0 the document
    Selectors,  \* the selectors that scripts use
    Natives,    \* whether the browser has querySelectorAll
    MaxQueries  \* the bound on the calls

ASSUME SizzleAssumption ==
    /\ Elements \subseteq Nat \ {0} /\ Natives \subseteq BOOLEAN /\ MaxQueries \in Nat
    /\ \A d \in Docs : ToSet(d.order) = Elements /\ IsInjective(d.order)

VARIABLES
    doc,     \* the page, one of Docs
    cache,   \* the marks: name is sizcache, set is sizset, index is
             \* nodeIndex, done the next name
    asked,   \* the last call
    found,   \* what it returned
    queries  \* how many there were

sizzleVars == <<doc, cache, asked, found, queries>>

Rel(r) == [rel |-> r, tag |-> "", id |-> "", marks |-> {}, nots |-> {},
           nth |-> 0, pos |-> "", node |-> -1]
Star == Rel("")
Node(n) == [Star EXCEPT !.node = n]

\* The elements of the page, by place.
Place(e)       == SelectInSeq(doc.order, LAMBDA x : x = e)
Up(e)          == LET up[x \in Elements \cup {0}] ==
                          IF x = 0 THEN <<>> ELSE <<x>> \o up[doc.parent[x]]
                  IN  IF e = 0 THEN <<>> ELSE up[doc.parent[e]]
contains(a, e) == a = 0 \/ a \in ToSet(Up(e))
Inside(a)      == SelectSeq(doc.order, LAMBDA e : contains(a, e))
Siblings(e)    == SelectSeq(doc.order, LAMBDA x : doc.parent[x] = doc.parent[e])
After(e)       == SelectSeq(Siblings(e), LAMBDA x : Place(x) > Place(e))
Before(e)      == Reverse(SelectSeq(Siblings(e), LAMBDA x : Place(x) < Place(e)))
Foremost(seq)  == IF seq = <<>> THEN <<>> ELSE <<Head(seq)>>
InOrder(set)   == SelectSeq(<<0>> \o doc.order, LAMBDA e : e \in set)

-----------------------------------------------------------------------------
(* Filters.                                                                *)

False == -1
True  == -2

IsTag(part) == part.node = -1 /\ part.tag \notin {"", "*"} /\ part.id = ""
               /\ part.marks \cup part.nots = {} /\ part.nth = 0 /\ part.pos = ""

Fits(e, part, c) ==
    /\ part.tag \in {"", "*", Tag[e]} /\ part.id \in {"", Id[e]}
    /\ part.marks \subseteq Marks[e] /\ part.nots \cap Marks[e] = {}
    /\ part.nth \in {0, c.index[e]}

\* mutant: children that were numbered once are not numbered again.
CHILDNumberedOnce(part, seq, c) ==
    IF part.nth = 0 THEN c
    ELSE FoldLeft(LAMBDA acc, e :
            IF acc.index[e] = 0
            THEN [acc EXCEPT
                    !.index = [x \in Elements |-> IF x \in ToSet(Siblings(e))
                                    THEN Len(Before(x)) + 1 ELSE acc.index[x]],
                    !.name[doc.parent[e]] = c.done]
            ELSE acc,
         [c EXCEPT !.done = @ + 1], seq)

\* :nth-child numbers the children of a parent that it has not met under
\* this name, which is new for every filter.
CHILD(part, seq, c) ==
    IF part.nth = 0 THEN c
    ELSE FoldLeft(LAMBDA acc, e :
            IF acc.name[doc.parent[e]] # c.done \/ acc.index[e] = 0
            THEN [acc EXCEPT
                    !.index = [x \in Elements |-> IF x \in ToSet(Siblings(e))
                                    THEN Len(Before(x)) + 1 ELSE acc.index[x]],
                    !.name[doc.parent[e]] = c.done]
            ELSE acc,
         [c EXCEPT !.done = @ + 1], seq)

POS(pos, seq) ==
    CASE pos = "first" -> Foremost(seq)
      [] pos = "even"  -> [k \in 1..((Len(seq) + 1) \div 2) |-> seq[2 * k - 1]]
      [] OTHER -> seq

\* Sizzle.find: what the browser finds by the id or, where there is none or
\* the search begins at an element, by the tag.
FindFirst(part, context) ==
    SelectSeq(Inside(context), LAMBDA e :
        IF part.id # "" /\ context = 0 THEN Id[e] = part.id
        ELSE part.tag \in {"", "*", Tag[e]})

Filter(part, seq, c) ==
    LET Left(counted) ==
            [set |-> POS(part.pos, SelectSeq(seq, LAMBDA e : Fits(e, part, counted))),
             c |-> counted]
    IN  Left(CHILD(part, seq, c))

\* The same in place, where what does not fit becomes false.
FilterInPlace(part, check, c) ==
    LET Left(counted) ==
            [check |-> [i \in DOMAIN check |->
                IF check[i] > 0 /\ Fits(check[i], part, counted) THEN check[i] ELSE False],
             c |-> counted]
    IN  Left(CHILD(part, SelectSeq(check, LAMBDA e : e > 0), c))

-----------------------------------------------------------------------------
(* Expr.relative: what becomes of the candidates at one part.              *)

\* ">" and "+" look at one relative.
OneStep(rel, part, check, c) ==
    LET before(e, all) == IF all = <<>> THEN False ELSE all[1]
        next(e) == IF rel = ">" THEN doc.parent[e] ELSE before(e, Before(e))
        Moved(to) ==
            IF part.node >= 0
            THEN [check |-> [i \in DOMAIN check |-> IF to[i] = part.node THEN True ELSE False],
                  c |-> c]
            ELSE IF IsTag(part)
            THEN [check |-> [i \in DOMAIN check |->
                      IF to[i] > 0 /\ Tag[to[i]] = part.tag THEN to[i] ELSE False],
                  c |-> c]
            ELSE FilterInPlace(part, [i \in DOMAIN check |->
                                        IF to[i] > 0 THEN to[i] ELSE False], c)
    IN  Moved([i \in DOMAIN check |-> IF check[i] > 0 THEN next(check[i]) ELSE False])

\* dirCheck and dirNodeCheck: "" and "~" climb until a relative fits, or was
\* met in this climb already and knows the answer.
dirCheck(rel, part, check, c) ==
    LET name == c.done
        line(e) == IF rel = "~" THEN Before(e) ELSE Up(e)
        fits(n, tested) == IF part.node >= 0 THEN n = part.node
                           ELSE IF IsTag(part) THEN Tag[n] = part.tag
                           ELSE tested.set # <<>>
        Met(n, acc, tested) ==
            [acc EXCEPT !.c = tested.c, !.stop = fits(n, tested),
                        !.match = IF ~fits(n, tested) THEN @
                                  ELSE IF part.node >= 0 THEN True ELSE n]
        Test(n, marked) == IF part.node >= 0 \/ IsTag(part)
                           THEN [set |-> <<>>, c |-> marked]
                           ELSE Filter(part, <<n>>, marked)
        Visit(i, acc, n) ==
            IF acc.stop THEN acc
            ELSE IF acc.c.name[n] = name
            THEN [acc EXCEPT !.stop = TRUE, !.match = acc.check[acc.c.set[n]]]
            ELSE Met(n, acc, Test(n, [acc.c EXCEPT !.name[n] = name, !.set[n] = i]))
        Top(acc, i, top) == [check |-> [acc.check EXCEPT ![i] = top.match], c |-> top.c]
        Climb(acc, i) ==
            IF acc.check[i] <= 0 THEN acc
            ELSE Top(acc, i, FoldLeft(LAMBDA a, n : Visit(i, a, n),
                                      [check |-> acc.check, c |-> acc.c, stop |-> FALSE,
                                       match |-> False], line(acc.check[i])))
    IN  FoldLeft(Climb, [check |-> check, c |-> [c EXCEPT !.done = @ + 1]],
                 [i \in 1..Len(check) |-> i])

relative(step, check, c) ==
    IF step.rel \in {">", "+"} THEN OneStep(step.rel, step.part, check, c)
                             ELSE dirCheck(step.rel, step.part, check, c)

-----------------------------------------------------------------------------
(* Sizzle.                                                                 *)

\* The parts left of the last one, popped from the right.
Pops(left, context) ==
    LET compounds == SelectSeq([k \in 1..Len(left) |-> Len(left) + 1 - k],
                               LAMBDA i : left[i].rel = "")
        steps == [k \in DOMAIN compounds |->
                    LET i == compounds[k]
                    IN  [rel |-> IF i < Len(left) THEN left[i + 1].rel ELSE "",
                         part |-> left[i]]]
    IN  IF left # <<>> /\ left[1].rel # ""
        THEN Append(steps, [rel |-> left[1].rel, part |-> Node(context)])
        ELSE steps

\* A first compound with an id becomes the context.
FromRight(parts, context, c) ==
    LET Root(first) == [root |-> IF first.set = <<>> THEN False ELSE first.set[1],
                        rest |-> Tail(parts), c |-> first.c]
        Stays(root, left, check) ==
            \/ left = <<>>
            \/ check > 0 /\ contains(root, check)
            \/ check = True /\ root > 0
        Kept(root, left, last, walked) ==
            LET kept == SelectSeq([i \in 1..Len(last) |-> i],
                                  LAMBDA i : Stays(root, left, walked.check[i]))
            IN  [set |-> [k \in DOMAIN kept |-> last[kept[k]]], c |-> walked.c]
        Walk(root, left, last) ==
            Kept(root, left, last.set,
                 FoldLeft(LAMBDA acc, step : relative(step, acc.check, acc.c),
                          [check |-> last.set, c |-> last.c], Pops(left, root)))
        Search(root, left, part, at) ==
            LET beside == Len(left) = 1 /\ left[1].rel \in {"+", "~"} /\ root > 0
            IN  Walk(root, left,
                     Filter(part, FindFirst(part, IF beside THEN doc.parent[root] ELSE root), at))
        Begin(at) == IF at.root = False THEN [set |-> <<>>, c |-> at.c]
                     ELSE Search(at.root, Front(at.rest), Last(at.rest), at.c)
        short == Len(parts) > 1 /\ context = 0 /\ parts[1].id # "" /\ Last(parts).id = ""
    IN  Begin(IF short THEN Root(Filter(parts[1], FindFirst(parts[1], 0), c))
                       ELSE [root |-> context, rest |-> parts, c |-> c])

\* Positions are counted after the other parts, so these go from the left.
posProcess(parts, roots, c) ==
    LET part    == Last(parts)
        later   == [Star EXCEPT !.nots = part.nots, !.nth = part.nth, !.pos = part.pos]
        earlier == Append(Front(parts), [part EXCEPT !.nots = {}, !.nth = 0, !.pos = ""])
        Also(acc, one) == [set |-> acc.set \o one.set, c |-> one.c]
        Counted(all) == Filter(later, all.set, all.c)
    IN  Counted(FoldLeft(LAMBDA acc, root : Also(acc, FromRight(earlier, root, acc.c)),
                         [set |-> <<>>, c |-> c], roots))

FromLeft(parts, context, c) ==
    LET start == IF parts[1].rel # "" THEN [set |-> <<context>>, c |-> c]
                 ELSE FromRight(<<parts[1]>>, context, c)
        Joined(i) == IF i > 1 /\ parts[i - 1].rel # "" THEN <<parts[i - 1], parts[i]>>
                     ELSE <<parts[i]>>
        rest  == SelectSeq([i \in 1..Len(parts) |-> i],
                           LAMBDA i : parts[i].rel = "" /\ i > 1)
    IN  FoldLeft(LAMBDA acc, i : posProcess(Joined(i), acc.set, acc.c), start, rest)

Positional(groups) == \E g \in Range(groups) : \E p \in Range(g) : p.pos # ""

\* Several groups are sorted and freed of duplicates.
uniqueSort(seq) == InOrder(ToSet(seq))

Engine(groups, context, c) ==
    LET Positioned(k) == Len(groups[k]) > 1 /\ Positional(SubSeq(groups, k, Len(groups)))
        Also(acc, one) == [set |-> acc.set \o one.set, c |-> one.c]
        Group(acc, k) ==
            Also(acc, IF Positioned(k) THEN FromLeft(groups[k], context, acc.c)
                                       ELSE FromRight(groups[k], context, acc.c))
        Sorted(all) == IF Len(groups) > 1 THEN [all EXCEPT !.set = uniqueSort(@)] ELSE all
    IN  Sorted(FoldLeft(Group, [set |-> <<>>, c |-> c], [k \in 1..Len(groups) |-> k]))

-----------------------------------------------------------------------------
(* What a selector means: the chains of elements, from the left.           *)

Related(rel, a, e) ==
    CASE rel = ">" -> doc.parent[e] = a
      [] rel = "+" -> a # 0 /\ After(a) # <<>> /\ After(a)[1] = e
      [] rel = "~" -> a # 0 /\ e \in ToSet(After(a))
      [] OTHER     -> contains(a, e)

Means(e, part) == Fits(e, part, [index |-> [x \in Elements |-> Len(Before(x)) + 1]])

Css(parts, context) ==
    FoldLeft(LAMBDA acc, p :
        IF p.rel # "" THEN [acc EXCEPT !.rel = p.rel]
        ELSE [rel |-> "", set |-> {e \in Elements : Means(e, p) /\
                                     \E a \in acc.set : Related(acc.rel, a, e)}],
      [rel |-> "", set |-> {context}], parts).set

\* querySelectorAll of the browser.  Asked of an element, the selector gets
\* an id of that element in front: of the first group only.
Understands(groups, context) ==
    /\ ~Positional(groups)
    /\ \A k \in DOMAIN groups : groups[k][1].rel = "" \/ (k = 1 /\ context # 0)

querySelectorAll(groups, context) ==
    InOrder({e \in ToSet(Inside(context)) :
        \E k \in DOMAIN groups : e \in Css(groups[k], IF k = 1 THEN context ELSE 0)})

-----------------------------------------------------------------------------
(* The calls.                                                              *)

SizzleInit ==
    /\ doc \in Docs
    /\ cache = [name |-> [x \in Elements \cup {0} |-> -1], set |-> [x \in Elements |-> 0],
                index |-> [x \in Elements |-> 0], done |-> 0]
    /\ asked = [op |-> "nothing"] /\ found = <<>> /\ queries = 0

Asking == queries < MaxQueries /\ queries' = queries + 1 /\ UNCHANGED doc

Query(groups, context, native) ==
    LET qsa == native /\ Understands(groups, context)
        Answer(own) == /\ found' = IF qsa THEN querySelectorAll(groups, context) ELSE own.set
                       /\ cache' = IF qsa THEN cache ELSE own.c
    IN  /\ Asking
        /\ asked' = [op |-> "query", groups |-> groups, context |-> context, native |-> qsa]
        /\ Answer(Engine(groups, context, cache))

\* find() of a set asks every element of it and leaves out what is there.
find(groups) ==
    LET Also(acc, own) ==
            LET new == IF acc.set = <<>> THEN own.set
                       ELSE SelectSeq(own.set, LAMBDA x : x \notin ToSet(acc.set))
            IN  [set |-> acc.set \o new, c |-> own.c]
        Answer(all) == found' = all.set /\ cache' = all.c
    IN  /\ Asking /\ found # <<>>
        /\ asked' = [op |-> "find", groups |-> groups, from |-> found]
        /\ Answer(FoldLeft(LAMBDA acc, e : Also(acc, Engine(groups, e, acc.c)),
                           [set |-> <<>>, c |-> cache], found))

\* A bound: no page filters a set with the document in it, or asks for the
\* siblings of the document, which would raise.
WithoutDocument == found # <<>> /\ 0 \notin ToSet(found)

\* filter(), not() and is() with a compound.
winnow(part, keep) ==
    LET all == Filter(part, found, cache)
    IN  /\ Asking /\ WithoutDocument
        /\ asked' = [op |-> "winnow", part |-> part, keep |-> keep, from |-> found]
        /\ found' = IF keep THEN all.set
                    ELSE SelectSeq(found, LAMBDA e : e \notin ToSet(all.set))
        /\ cache' = all.c

\* The parent of the top element is the document, which has only children.
Relatives(op, e) ==
    CASE op = "children" -> SelectSeq(doc.order, LAMBDA x : doc.parent[x] = e)
      [] e = 0           -> <<>>
      [] op = "parent"   -> <<doc.parent[e]>>
      [] op = "parents"  -> Up(e)
      [] op = "next"     -> Foremost(After(e))
      [] op = "prev"     -> Foremost(Before(e))
      [] op = "nextAll"  -> After(e)
      [] op = "prevAll"  -> Before(e)
      [] op = "siblings" -> SelectSeq(Siblings(e), LAMBDA x : x # e)

Traversals == {"parent", "parents", "next", "prev", "nextAll", "prevAll", "siblings",
               "children"}

\* Nearest first; a set of several is sorted, and then turned for the
\* functions that look back.
traverse(op) ==
    LET all  == FoldLeft(LAMBDA acc, e : acc \o Relatives(op, e), <<>>, found)
        many == Len(found) > 1
        set  == IF many THEN uniqueSort(all) ELSE all
    IN  /\ Asking /\ found # <<>> /\ (op = "siblings" => WithoutDocument)
        /\ asked' = [op |-> op, from |-> found]
        /\ found' = IF many /\ op \in {"parents", "prevAll"} THEN Reverse(set) ELSE set
        /\ UNCHANGED cache

\* closest(): the element or the nearest one above that fits.
closest(part) ==
    LET First(acc, e) ==
            LET Try(a, n) == IF a.hit > 0 THEN a
                             ELSE LET one == Filter(part, <<n>>, a.c)
                                  IN  [hit |-> IF one.set = <<>> THEN 0 ELSE n, c |-> one.c]
                got == FoldLeft(Try, [hit |-> 0, c |-> acc.c], <<e>> \o Up(e))
            IN  [set |-> IF got.hit = 0 THEN acc.set ELSE Append(acc.set, got.hit), c |-> got.c]
        all == FoldLeft(First, [set |-> <<>>, c |-> cache], found)
    IN  /\ Asking /\ WithoutDocument
        /\ asked' = [op |-> "closest", part |-> part, from |-> found]
        /\ found' = IF Len(all.set) > 1 THEN uniqueSort(all.set) ELSE all.set
        /\ cache' = all.c

\* A script moves an element.
Rearranged(d) ==
    /\ d # doc /\ queries < MaxQueries
    /\ doc' = d /\ asked' = [op |-> "nothing"] /\ found' = <<>>
    /\ UNCHANGED <<cache, queries>>

Compounds == {p \in UNION {Range(g) : g \in UNION {Range(s) : s \in Selectors}} :
                p.rel = "" /\ p.pos = ""}

SizzleNext ==
    \/ \E s \in Selectors, context \in Elements \cup {0}, native \in Natives :
          Query(s, context, native)
    \/ \E s \in Selectors : find(s)
    \/ \E p \in Compounds : closest(p) \/ \E keep \in BOOLEAN : winnow(p, keep)
    \/ \E op \in Traversals : traverse(op)
    \/ \E d \in Docs : Rearranged(d)

SizzleSpec == SizzleInit /\ [][SizzleNext]_sizzleVars

-----------------------------------------------------------------------------
SizzleTypeOK ==
    /\ doc \in Docs /\ queries \in 0..MaxQueries
    /\ ToSet(found) \subseteq Elements \cup {0} /\ cache.done \in Nat
    /\ cache.name \in [Elements \cup {0} -> -1..(cache.done - 1)]

\* The relation in front of each compound, the blank where there is none.
Relations(parts) ==
    LET compounds == SelectSeq([i \in 1..Len(parts) |-> i], LAMBDA i : parts[i].rel = "")
    IN  [k \in DOMAIN compounds |->
            IF compounds[k] > 1 THEN parts[compounds[k] - 1].rel ELSE ""]

\* The engine takes the nearest relative that fits and never another one:
\* what stands left of it may then fail.  And it looks for the last compound
\* inside the context, also where the selector leads out of it.
Hasty(parts, context) ==
    LET rel == Relations(parts)
    IN  \/ \E k \in 2..Len(rel) : \/ rel[k] = "" /\ rel[k - 1] \in {">", "+", "~"}
                                  \/ rel[k] = "~" /\ rel[k - 1] = "+"
        \/ parts[1].rel # "" /\ (context = 0 \/ rel[1] # ">")
        \/ parts[1].id # "" /\ \E k \in 3..Len(rel) : rel[2] \in {"+", "~"}

(***************************************************************************)
(* Whatever marks earlier queries left on the elements and however the     *)
(* page has changed since: the engine finds nothing that the selector does *)
(* not mean, each element once and in the order of the page, and all of    *)
(* them unless the selector is one where the nearest relative may be the   *)
(* wrong one.                                                              *)
(***************************************************************************)
SelectsLikeCss ==
    asked.op = "query" /\ ~(asked.native /\ asked.context # 0) =>
        LET meant == UNION {Css(g, asked.context) : g \in Range(asked.groups)}
        IN  /\ ToSet(found) \subseteq meant
            /\ ~Positional(asked.groups) =>
                 /\ found = InOrder(ToSet(found))
                 /\ (\A g \in Range(asked.groups) : ~Hasty(g, asked.context))
                       => ToSet(found) = meant

(***************************************************************************)
(* A traversal returns each relative once, nearest first where it looks    *)
(* back, and a filter keeps or drops exactly what fits, whatever counting  *)
(* of children an earlier call has left behind.                            *)
(***************************************************************************)
TraversesTheTree ==
    /\ asked.op \in Traversals /\ IsInjective(asked.from) =>
         LET meant == UNION {ToSet(Relatives(asked.op, e)) : e \in ToSet(asked.from)}
         IN  found = IF asked.op \in {"parents", "prevAll"} THEN Reverse(InOrder(meant))
                     ELSE InOrder(meant)
    /\ asked.op = "winnow" =>
         found = SelectSeq(asked.from, LAMBDA e : Means(e, asked.part) = asked.keep)
    /\ asked.op = "closest" =>
         ToSet(found) = UNION {ToSet(Foremost(SelectSeq(<<e>> \o Up(e),
                                  LAMBDA x : Means(x, asked.part)))) : e \in ToSet(asked.from)}
=============================================================================
