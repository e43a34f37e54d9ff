--------------------------- MODULE Scripts_proofs ---------------------------
EXTENDS MCScripts, TLAPS, FiniteSetTheorems, SequenceTheorems

-----------------------------------------------------------------------------
(* Sets of numbers and lists.                                              *)

\* A set of indices that is not empty has a smallest one.
LEMMA LeastIndex ==
  ASSUME NEW n \in Nat, NEW places \in SUBSET (1..n), places # {}
  PROVE  Min(places) \in places /\ \A i \in places : Min(places) <= i
<1> DEFINE below == {1..i : i \in places}
<1>1. below \subseteq SUBSET (1..n) /\ below # {}
  <2>1. \A i \in places : 1..i \in SUBSET (1..n)
    OBVIOUS
  <2>2. PICK i \in places : TRUE
    OBVIOUS
  <2>3. 1..i \in below
    BY <2>2
  <2> QED BY <2>1, <2>3
<1>2. IsFiniteSet(1..n)
  <2>1. 1 \in Int /\ n \in Int
    OBVIOUS
  <2> QED BY <2>1, FS_Interval
<1>3. IsWellFoundedOn(StrictSubsetOrdering(1..n), SUBSET (1..n))
  BY <1>2, FS_StrictSubsetOrderingWellFounded, FS_FiniteSubsetsOfFinite
<1>4. PICK shortest \in below : \A u \in below : <<u, shortest>> \notin StrictSubsetOrdering(1..n)
  BY <1>1, <1>3, WFMin
<1>5. PICK m \in places : shortest = 1..m
  BY <1>4
<1>6. ASSUME NEW i \in places, i < m PROVE FALSE
  <2>1. 1..i \in below /\ 1..i \subseteq shortest /\ m \in shortest /\ m \notin 1..i
    BY <1>5, <1>6
  <2>2. <<1..i, shortest>> \in StrictSubsetOrdering(1..n)
    BY <1>1, <1>4, <2>1 DEF StrictSubsetOrdering
  <2> QED BY <1>4, <2>1, <2>2
<1>7. \A i \in places : m <= i
  BY <1>6
<1> QED BY <1>5, <1>7 DEF Min

\* What holds of 0 and is handed on from each number to the next holds up to n.
LEMMA StepByStep ==
  ASSUME NEW n \in Nat, NEW good, 0 \in good,
         ASSUME NEW i \in 0..n, i < n, i \in good PROVE i + 1 \in good
  PROVE  0..n \subseteq good
<1> DEFINE bad == {i \in 1..n : i \notin good}
<1> SUFFICES ASSUME bad # {} PROVE FALSE
  OBVIOUS
<1>1. Min(bad) \in bad /\ \A i \in bad : Min(bad) <= i
  BY LeastIndex
<1>2. Min(bad) - 1 \in 0..n /\ Min(bad) - 1 < n /\ Min(bad) - 1 \notin bad
  BY <1>1
<1>3. Min(bad) - 1 \in good
  BY <1>2
<1> QED BY <1>1, <1>2, <1>3

\* The greatest of finitely many numbers, 0 among them.
LEMMA GreatestOf ==
  ASSUME NEW set \in SUBSET Nat, IsFiniteSet(set)
  PROVE  /\ Max({0} \cup set) \in {0} \cup set
         /\ \A x \in {0} \cup set : x <= Max({0} \cup set)
         /\ Max({0} \cup set) \in Nat
<1> DEFINE Tops == {t \in SUBSET set : \E x \in {0} \cup t : \A y \in {0} \cup t : x >= y}
<1>1. set \in Tops
  <2>1. ASSUME NEW t \in SUBSET set, IsFiniteSet(t), \A u \in SUBSET t : u # t => u \in Tops
        PROVE  t \in Tops
    <3>1. CASE t = {}
      BY <3>1
    <3>2. CASE t # {}
      <4>1. PICK x \in t : TRUE
        BY <3>2
      <4>2. t \ {x} \in Tops
        BY <2>1, <4>1
      <4>3. PICK m \in {0} \cup (t \ {x}) : \A y \in {0} \cup (t \ {x}) : m >= y
        BY <4>2
      <4>4. m \in Nat /\ x \in Nat /\ t \subseteq Nat
        BY <2>1, <4>1, <4>3
      <4>5. CASE x >= m
        <5>1. \A y \in {0} \cup t : x >= y
          BY <4>3, <4>4, <4>5
        <5> QED BY <2>1, <4>1, <5>1
      <4>6. CASE ~(x >= m)
        <5>1. \A y \in {0} \cup t : m >= y
          BY <4>3, <4>4, <4>6
        <5> QED BY <2>1, <4>3, <5>1
      <4> QED BY <4>5, <4>6
    <3> QED BY <3>1, <3>2
  <2> HIDE DEF Tops
  <2> DEFINE bad == (SUBSET set) \ Tops
  <2>2. SUFFICES ASSUME bad # {} PROVE FALSE
    OBVIOUS
  <2>3. IsWellFoundedOn(StrictSubsetOrdering(set), SUBSET set)
    BY FS_StrictSubsetOrderingWellFounded, FS_FiniteSubsetsOfFinite
  <2>4. PICK t \in bad : \A u \in bad : <<u, t>> \notin StrictSubsetOrdering(set)
    BY <2>2, <2>3, WFMin
  <2>5. \A u \in SUBSET t : u # t => u \in Tops
    BY <2>4 DEF StrictSubsetOrdering
  <2>6. IsFiniteSet(t)
    BY <2>4, FS_Subset
  <2> QED BY <2>1, <2>4, <2>5, <2>6
<1>2. \E x \in {0} \cup set : \A y \in {0} \cup set : x >= y
  BY <1>1
<1>3. Max({0} \cup set) \in {0} \cup set /\ \A y \in {0} \cup set : Max({0} \cup set) >= y
  BY <1>2 DEF Max
<1>4. Max({0} \cup set) \in Nat
  <2>1. \A y \in {0} \cup set : y \in Nat
    OBVIOUS
  <2>2. Max({0} \cup set) \in {0} \cup set
    BY <1>3
  <2> QED BY ONLY <2>1, <2>2
<1> QED BY <1>3, <1>4

\* What splice leaves of a list.
LEMMA Removed ==
  ASSUME NEW S, NEW s \in Seq(S), NEW i \in 1..Len(s)
  PROVE  /\ RemoveAt(s, i) \in Seq(S)
         /\ Len(RemoveAt(s, i)) = Len(s) - 1
         /\ \A j \in 1..Len(s) - 1 : RemoveAt(s, i)[j] = IF j < i THEN s[j] ELSE s[j + 1]
<1> DEFINE a == SubSeq(s, 1, i - 1)
           b == SubSeq(s, i + 1, Len(s))
<1>1. a \in Seq(S) /\ Len(a) = i - 1 /\ \A j \in 1..i - 1 : a[j] = s[j]
  OBVIOUS
<1>2. b \in Seq(S) /\ Len(b) = Len(s) - i /\ \A j \in 1..Len(s) - i : b[j] = s[i + j]
  OBVIOUS
<1> HIDE DEF a, b
<1>3. a \o b \in Seq(S) /\ Len(a \o b) = Len(s) - 1
  <2>1. a \o b \in Seq(S) /\ Len(a \o b) = Len(a) + Len(b)
    BY <1>1, <1>2, ConcatProperties
  <2>2. Len(s) \in Nat
    OBVIOUS
  <2> QED BY <1>1, <1>2, <2>1, <2>2
<1> DEFINE c == a \o b
<1>4. \A k \in 1..Len(a) + Len(b) : c[k] = IF k <= Len(a) THEN a[k] ELSE b[k - Len(a)]
  BY <1>1, <1>2, ConcatProperties
<1> HIDE DEF c
<1>5. Len(s) \in Nat /\ i \in Int
  OBVIOUS
<1>6. \A j \in 1..Len(s) - 1 : c[j] = IF j < i THEN s[j] ELSE s[j + 1]
  <2> SUFFICES ASSUME NEW j \in 1..Len(s) - 1
               PROVE  c[j] = IF j < i THEN s[j] ELSE s[j + 1]
    OBVIOUS
  <2>1. CASE j < i
    <3>1. j \in 1..Len(a) + Len(b) /\ j <= Len(a) /\ j \in 1..i - 1
      BY <1>1, <1>2, <1>5, <2>1
    <3> QED BY <1>1, <1>4, <2>1, <3>1
  <2>2. CASE ~(j < i)
    <3>1. j \in 1..Len(a) + Len(b) /\ ~(j <= Len(a)) /\ j - Len(a) \in 1..Len(s) - i
      BY <1>1, <1>2, <1>5, <2>2
    <3>2. c[j] = b[j - Len(a)]
      BY <1>4, <3>1
    <3>3. b[j - Len(a)] = s[i + (j - Len(a))] /\ i + (j - Len(a)) = j + 1
      BY <1>1, <1>2, <1>5, <3>1
    <3> QED BY <2>2, <3>2, <3>3
  <2> QED BY <2>1, <2>2
<1> QED BY <1>3, <1>6 DEF RemoveAt, a, b, c

\* Of a list without doubles splice takes the element and no other.
LEMMA RemovedApart ==
  ASSUME NEW S, NEW s \in Seq(S), IsInjective(s), NEW i \in 1..Len(s)
  PROVE  IsInjective(RemoveAt(s, i)) /\ ToSet(RemoveAt(s, i)) = ToSet(s) \ {s[i]}
<1> DEFINE r == RemoveAt(s, i)
<1>1. /\ r \in Seq(S) /\ Len(r) = Len(s) - 1 /\ DOMAIN r = 1..Len(s) - 1 /\ DOMAIN s = 1..Len(s)
      /\ \A j \in 1..Len(s) - 1 : r[j] = IF j < i THEN s[j] ELSE s[j + 1]
  BY Removed
<1> HIDE DEF r
<1>2. \A j, k \in 1..Len(s) : s[j] = s[k] => j = k
  BY <1>1 DEF IsInjective
<1>3. IsInjective(r)
  BY <1>1, <1>2 DEF IsInjective
<1>4. ToSet(r) \subseteq ToSet(s) \ {s[i]}
  BY <1>1, <1>2 DEF ToSet
<1>5. ASSUME NEW x \in ToSet(s), x # s[i] PROVE x \in ToSet(r)
  <2>1. PICK j \in 1..Len(s) : s[j] = x
    BY <1>1 DEF ToSet
  <2>2. CASE j < i
    BY <1>1, <2>1, <2>2 DEF ToSet
  <2>3. CASE j > i
    <3>1. j - 1 \in 1..Len(s) - 1 /\ r[j - 1] = x
      BY <1>1, <2>1, <2>3
    <3> QED BY <1>1, <3>1 DEF ToSet
  <2> QED BY <1>5, <2>1, <2>2, <2>3
<1> QED BY <1>3, <1>4, <1>5 DEF r

\* The first e of a list without doubles is the only one.
LEMMA RemovedFirst ==
  ASSUME NEW S, NEW s \in Seq(S), IsInjective(s), NEW e
  PROVE  /\ RemoveFirst(s, e) \in Seq(S) /\ IsInjective(RemoveFirst(s, e))
         /\ ToSet(RemoveFirst(s, e)) = ToSet(s) \ {e}
<1>0. DOMAIN s = 1..Len(s) /\ Len(s) \in Nat
  OBVIOUS
<1>1. CASE e \in ToSet(s)
  <2> DEFINE places == {i \in 1..Len(s) : s[i] = e}
  <2>1. places # {} /\ \E i \in 1..Len(s) : s[i] = e
    BY <1>0, <1>1 DEF ToSet
  <2>2. Min(places) \in 1..Len(s) /\ s[Min(places)] = e
    BY <1>0, <2>1, LeastIndex
  <2>3. RemoveFirst(s, e) = RemoveAt(s, Min(places))
    BY <2>1 DEF RemoveFirst, SelectInSeq
  <2> HIDE DEF places
  <2> QED BY <2>2, <2>3, Removed, RemovedApart
<1>2. CASE e \notin ToSet(s)
  <2>1. RemoveFirst(s, e) = s
    BY <1>0, <1>2 DEF RemoveFirst, ToSet
  <2> QED BY <1>2, <2>1
<1> QED BY <1>1, <1>2

LEMMA AppendedApart ==
  ASSUME NEW S, NEW s \in Seq(S), IsInjective(s), NEW e \in S, e \notin ToSet(s)
  PROVE  /\ Append(s, e) \in Seq(S) /\ IsInjective(Append(s, e))
         /\ ToSet(Append(s, e)) = ToSet(s) \cup {e}
<1> DEFINE r == Append(s, e)
<1>1. /\ r \in Seq(S) /\ Len(r) = Len(s) + 1 /\ DOMAIN r = 1..Len(s) + 1 /\ DOMAIN s = 1..Len(s)
      /\ \A j \in 1..Len(s) : r[j] = s[j]
      /\ r[Len(s) + 1] = e
  OBVIOUS
<1> HIDE DEF r
<1>2. Len(s) \in Nat /\ \A j \in 1..Len(s) : s[j] # e
  BY <1>1 DEF ToSet
<1>3. \A j, k \in 1..Len(s) : s[j] = s[k] => j = k
  BY <1>1 DEF IsInjective
<1>4. \A j \in 1..Len(s) + 1 : j \in 1..Len(s) \/ j = Len(s) + 1
  BY <1>2
<1>5. IsInjective(r)
  BY <1>1, <1>2, <1>3, <1>4 DEF IsInjective
<1>6. ToSet(r) = ToSet(s) \cup {e}
  <2>1. \A x \in ToSet(r) : x \in ToSet(s) \cup {e}
    BY <1>1, <1>4 DEF ToSet
  <2>2. \A x \in ToSet(s) : x \in ToSet(r)
    BY <1>1, <1>2 DEF ToSet
  <2>3. e \in ToSet(r)
    BY <1>1, <1>2 DEF ToSet
  <2> QED BY <2>1, <2>2, <2>3
<1> QED BY <1>1, <1>5, <1>6 DEF r

\* A list that is not empty is its front and its last element.
LEMMA FrontAndLast ==
  ASSUME NEW S, NEW s \in Seq(S), IsInjective(s), s # <<>>
  PROVE  /\ Front(s) \in Seq(S) /\ IsInjective(Front(s)) /\ Last(s) \in S
         /\ Last(s) \in ToSet(s) /\ ToSet(Front(s)) = ToSet(s) \ {Last(s)}
<1> DEFINE r == Front(s)
<1>1. Len(s) \in Nat \ {0} /\ DOMAIN s = 1..Len(s)
  OBVIOUS
<1>2. /\ r \in Seq(S) /\ Len(r) = Len(s) - 1 /\ DOMAIN r = 1..Len(s) - 1
      /\ \A j \in 1..Len(s) - 1 : r[j] = s[j]
  BY <1>1 DEF Front
<1>3. Last(s) = s[Len(s)] /\ Last(s) \in S /\ Last(s) \in ToSet(s)
  BY <1>1 DEF Last, ToSet
<1> HIDE DEF r
<1>4. \A j, k \in 1..Len(s) : s[j] = s[k] => j = k
  BY <1>1 DEF IsInjective
<1>5. IsInjective(r)
  BY <1>1, <1>2, <1>4 DEF IsInjective
<1>6. \A x \in ToSet(r) : x \in ToSet(s) \ {Last(s)}
  BY <1>1, <1>2, <1>3, <1>4 DEF ToSet
<1>7. ASSUME NEW x \in ToSet(s), x # Last(s) PROVE x \in ToSet(r)
  <2>1. PICK j \in 1..Len(s) : s[j] = x
    BY <1>1 DEF ToSet
  <2>2. j \in 1..Len(s) - 1
    BY <1>1, <1>3, <1>7, <2>1
  <2> QED BY <1>2, <2>1, <2>2 DEF ToSet
<1> QED BY <1>2, <1>3, <1>5, <1>6, <1>7 DEF r

\* A list without doubles is as long as the set of its elements is large.
LEMMA AsManyAsLong ==
  ASSUME NEW S, NEW s \in Seq(S), IsInjective(s)
  PROVE  IsFiniteSet(ToSet(s)) /\ Cardinality(ToSet(s)) = Len(s)
<1>1. DOMAIN s = 1..Len(s) /\ 1 \in Int /\ Len(s) \in Nat /\ Len(s) \in Int
  OBVIOUS
<1>2. IsFiniteSet(1..Len(s)) /\ Cardinality(1..Len(s)) = Len(s)
  BY <1>1, FS_Interval
<1>3. s \in Bijection(1..Len(s), ToSet(s))
  BY <1>1 DEF Bijection, Injection, Surjection, IsInjective, ToSet
<1>4. ExistsBijection(1..Len(s), ToSet(s))
  BY <1>3 DEF ExistsBijection
<1> QED BY <1>2, <1>4, FS_Bijection

-----------------------------------------------------------------------------
(* The content slider.                                                     *)

\* The article the slider is on its way to.
Heading == IF pending = <<>> THEN position ELSE Head(pending)
LeadsOn(b, p) == IF b = "left" THEN p > 0 ELSE p < LastArticle

(***************************************************************************)
(* A slide that begins while the buttons stand still gives each of them at *)
(* most one animation, at whose end it is shown if it leads on from where  *)
(* the slider is heading; one that stands still is opaque or not there.    *)
(***************************************************************************)
ButtonSettles(b) ==
    /\ fades[b] \in {<<>>, <<"entrance">>, <<"in">>, <<"out">>}
    /\ fades[b] \in {<<>>, <<"entrance">>} =>
         opacity[b] = (IF shown[b] THEN "1" ELSE "0")
    /\ fades[b] = <<"in">> => shown[b]
    /\ (shown[b] /\ fades[b] # <<"out">>) <=> LeadsOn(b, Heading)

SliderInv ==
    /\ SliderTypeOK /\ OneSlide /\ StuckAtAnEnd
    /\ ~overlapped /\ N > 1 => \A b \in Buttons : ButtonSettles(b)

LEMMA Singletons ==
  ASSUME NEW x
  PROVE  /\ Append(<<>>, x) = <<x>> /\ Head(<<x>>) = x /\ Tail(<<x>>) = <<>>
         /\ Len(<<x>>) = 1 /\ <<x>> # <<>> /\ Len(<<>>) = 0
  OBVIOUS

LEMMA ShortSequence ==
  ASSUME NEW S, NEW s \in Seq(S), Len(s) <= 1, s # <<>>
  PROVE  Head(s) \in S /\ Tail(s) = <<>> /\ s = <<Head(s)>>
<1>1. Len(s) = 1
  <2>1. Len(s) \in Nat /\ s \in [1..Len(s) -> S]
    OBVIOUS
  <2>2. ASSUME Len(s) = 0 PROVE FALSE
    <3>1. DOMAIN s = {}
      BY <2>1, <2>2
    <3>2. s = <<>>
      BY <2>1, <3>1
    <3> QED BY <3>2
  <2> QED BY <2>1, <2>2
<1>2. s \in [1..1 -> S]
  BY <1>1
<1>3. Tail(s) \in Seq(S) /\ Len(Tail(s)) = 0
  BY <1>1
<1>4. Head(s) = s[1]
  BY <1>1
<1>5. s = <<s[1]>>
  BY <1>2
<1> QED BY <1>2, <1>3, <1>4, <1>5

LEMMA SliderStarts == SliderInit => SliderInv
<1> SUFFICES ASSUME SliderInit PROVE SliderInv
  OBVIOUS
<1>0. N \in Nat /\ N > 0 /\ MaxClicks \in Nat
  BY SliderAssumption
<1>1. SliderTypeOK
  <2>1. fades \in [Buttons -> Seq({"entrance", "out", "in"})]
    BY DEF SliderInit, Buttons
  <2>2. shown \in [Buttons -> BOOLEAN] /\ opacity \in [Buttons -> {"0", "between", "1"}]
    BY DEF SliderInit, Buttons
  <2>3. pending \in Seq(0..LastArticle) /\ position \in 0..LastArticle /\ clicks \in 0..MaxClicks
    BY <1>0 DEF SliderInit, LastArticle
  <2> QED BY <2>1, <2>2, <2>3 DEF SliderInit, SliderTypeOK
<1>2. OneSlide /\ StuckAtAnEnd
  BY DEF SliderInit, OneSlide, StuckAtAnEnd
<1>3. N > 1 => \A b \in Buttons : ButtonSettles(b)
  <2> SUFFICES ASSUME N > 1, NEW b \in Buttons PROVE ButtonSettles(b)
    OBVIOUS
  <2>1. Heading = 0 /\ LeadsOn("right", 0) /\ ~LeadsOn("left", 0)
    BY <1>0 DEF SliderInit, Heading, LeadsOn, LastArticle
  <2>2. CASE b = "right"
    <3>1. shown[b] /\ fades[b] = <<"entrance">> /\ opacity[b] = "1"
      BY <2>2 DEF SliderInit
    <3> QED BY <2>1, <2>2, <3>1, Singletons DEF ButtonSettles
  <2>3. CASE b = "left"
    <3>1. ~shown[b] /\ fades[b] = <<>> /\ opacity[b] = "0"
      BY <2>3 DEF SliderInit
    <3> QED BY <2>1, <2>3, <3>1, Singletons DEF ButtonSettles
  <2> QED BY <2>2, <2>3 DEF Buttons
<1> QED BY <1>1, <1>2, <1>3 DEF SliderInv

\* A slide begins: from b, to the article m.
SlideBegins(b, m) ==
    /\ m \in 0..LastArticle
    /\ pending' = Append(pending, m)
    /\ fades' = [fades EXCEPT
           ![b] = IF m \in {0, LastArticle} THEN Append(@, "out") ELSE @,
           ![OtherButton(b)] = IF opacity[OtherButton(b)] = "0" THEN Append(@, "in") ELSE @]
    /\ shown' = IF opacity[OtherButton(b)] = "0" THEN [shown EXCEPT ![OtherButton(b)] = TRUE]
                ELSE shown
    /\ overlapped' = (overlapped \/ \E c \in Buttons : fades[c] # <<>>)
    /\ opacity' = opacity

LEMMA TwoButtons ==
  /\ Buttons = {"left", "right"}
  /\ OtherButton("left") = "right" /\ OtherButton("right") = "left"
  BY DEF Buttons, OtherButton

LEMMA SlideBeginsWell ==
  ASSUME SliderInv, NEW b \in Buttons, shown[b], ~inuse, inuse' = TRUE, position' = position,
         clicks' \in 0..MaxClicks, SlideBegins(b, ArticleBeyond(b))
  PROVE  SliderInv'
<1> DEFINE m == ArticleBeyond(b)
           c == OtherButton(b)
<1>0. N \in Nat /\ N > 0
  BY SliderAssumption
<1>1. SliderTypeOK /\ OneSlide /\ StuckAtAnEnd
  BY DEF SliderInv
<1>2. pending = <<>>
  BY <1>1 DEF OneSlide, SliderTypeOK
<1>3. c \in Buttons /\ c # b /\ \A d \in Buttons : d = b \/ d = c
  BY TwoButtons
<1>4. pending' = <<m>> /\ m \in 0..LastArticle
  BY <1>2, Singletons DEF SlideBegins
<1> HIDE DEF c
<1>5. SliderTypeOK'
  <2>1. pending' \in Seq(0..LastArticle)
    BY <1>4
  <2>2. fades' \in [Buttons -> Seq({"entrance", "out", "in"})]
    <3>1. \A d \in Buttons, x \in {"out", "in"} :
            Append(fades[d], x) \in Seq({"entrance", "out", "in"})
      BY <1>1 DEF SliderTypeOK
    <3>2. fades' = [fades EXCEPT
                      ![b] = IF m \in {0, LastArticle} THEN Append(fades[b], "out") ELSE @,
                      ![c] = IF opacity[c] = "0" THEN Append(fades[c], "in") ELSE @]
      BY <1>1, <1>3 DEF SlideBegins, c, SliderTypeOK
    <3> HIDE DEF m
    <3> QED BY <1>1, <1>3, <3>1, <3>2 DEF SliderTypeOK
  <2>3. shown' \in [Buttons -> BOOLEAN]
    BY <1>1, <1>3 DEF SlideBegins, SliderTypeOK
  <2>4. overlapped' \in BOOLEAN
    BY DEF SlideBegins
  <2>5. opacity' = opacity
    BY DEF SlideBegins
  <2> QED BY <1>1, <2>1, <2>2, <2>3, <2>4, <2>5 DEF SliderTypeOK
<1>6. OneSlide' /\ StuckAtAnEnd'
  BY <1>4, Singletons DEF OneSlide, StuckAtAnEnd
<1>7. ASSUME ~overlapped', N > 1 PROVE \A d \in Buttons : ButtonSettles(d)'
  <2>1. ~overlapped /\ \A d \in Buttons : fades[d] = <<>>
    BY <1>7 DEF SlideBegins
  <2>2. \A d \in Buttons : ButtonSettles(d)
    BY <1>7, <2>1 DEF SliderInv
  <2>3. \A d \in Buttons : /\ opacity[d] = (IF shown[d] THEN "1" ELSE "0")
                           /\ shown[d] <=> LeadsOn(d, position)
    BY <1>2, <2>1, <2>2 DEF ButtonSettles, Heading
  <2>4. Heading' = m
    BY <1>4, Singletons DEF Heading
  <2>5. position \in Int
    BY <1>0, <1>1 DEF SliderTypeOK, LastArticle
  <2>6. /\ fades'[b] = (IF m \in {0, LastArticle} THEN <<"out">> ELSE <<>>)
        /\ fades'[c] = (IF opacity[c] = "0" THEN <<"in">> ELSE <<>>)
    BY <1>1, <1>3, <2>1, Singletons DEF SlideBegins, SliderTypeOK, c
  <2>7. shown'[b] = shown[b] /\ shown'[c] = TRUE
    BY <1>1, <1>3, <2>3 DEF SlideBegins, SliderTypeOK, c
  <2>8. opacity' = opacity
    BY DEF SlideBegins
  <2>9. ButtonSettles(b)'
    <3>1. m \in {0, LastArticle} <=> ~LeadsOn(b, m)
      <4>0. position \in 0..LastArticle /\ LeadsOn(b, position)
        BY <1>1, <2>3 DEF SliderTypeOK
      <4>1. CASE b = "left"
        <5>1. m = position - 1
          BY <4>1 DEF ArticleBeyond
        <5> QED BY <1>0, <4>0, <4>1, <5>1 DEF LeadsOn, LastArticle
      <4>2. CASE b = "right"
        <5>1. m = position + 1
          BY <4>2 DEF ArticleBeyond
        <5> QED BY <1>0, <4>0, <4>2, <5>1 DEF LeadsOn, LastArticle
      <4> QED BY <4>1, <4>2 DEF Buttons
    <3>2. opacity[b] = "1"
      BY <2>3
    <3> HIDE DEF m
    <3> QED BY <2>4, <2>6, <2>7, <2>8, <3>1, <3>2, Singletons DEF ButtonSettles
  <2>10. ButtonSettles(c)'
    <3>1. LeadsOn(c, m)
      <4>0. position \in 0..LastArticle
        BY <1>1 DEF SliderTypeOK
      <4>1. CASE b = "left"
        <5>1. m = position - 1 /\ c = "right"
          BY <4>1, TwoButtons DEF ArticleBeyond, c
        <5> QED BY <1>0, <4>0, <5>1 DEF LeadsOn, LastArticle
      <4>2. CASE b = "right"
        <5>1. m = position + 1 /\ c = "left"
          BY <4>2, TwoButtons DEF ArticleBeyond, c
        <5> QED BY <1>0, <4>0, <5>1 DEF LeadsOn, LastArticle
      <4> QED BY <4>1, <4>2 DEF Buttons
    <3>2. opacity[c] = "0" \/ (opacity[c] = "1" /\ shown[c])
      BY <1>3, <2>3
    <3> HIDE DEF m
    <3> QED BY <2>4, <2>6, <2>7, <2>8, <3>1, <3>2, Singletons DEF ButtonSettles
  <2> QED BY <1>3, <2>9, <2>10
<1> QED BY <1>5, <1>6, <1>7 DEF SliderInv

LEMMA SliderSteps == SliderInv /\ [SliderNext]_sliderVars => SliderInv'
<1> SUFFICES ASSUME SliderInv, [SliderNext]_sliderVars PROVE SliderInv'
  OBVIOUS
<1>0. N \in Nat /\ N > 0 /\ MaxClicks \in Nat
  BY SliderAssumption
<1>1. SliderTypeOK /\ OneSlide /\ StuckAtAnEnd
  BY DEF SliderInv
<1>2. ASSUME NEW b \in Buttons, ClickButton(b) PROVE SliderInv'
  <2>1. clicks' \in 0..MaxClicks /\ inuse' = TRUE /\ position' = position /\ shown[b]
    BY <1>0, <1>1, <1>2 DEF ClickButton, SliderTypeOK
  <2>2. CASE UNCHANGED <<pending, shown, opacity, fades, overlapped>>
             /\ (inuse \/ ArticleBeyond(b) \notin 0..LastArticle)
    <3>1. SliderTypeOK' /\ OneSlide'
      BY <1>1, <2>1, <2>2 DEF SliderTypeOK, OneSlide
    <3>2. StuckAtAnEnd'
      BY <1>0, <1>1, <2>1, <2>2 DEF StuckAtAnEnd, SliderTypeOK, ArticleBeyond, LastArticle
    <3>3. ~overlapped' /\ N > 1 => \A d \in Buttons : ButtonSettles(d)'
      BY <2>1, <2>2 DEF SliderInv, ButtonSettles, Heading
    <3> QED BY <3>1, <3>2, <3>3 DEF SliderInv
  <2>3. CASE ~inuse /\ SlideBegins(b, ArticleBeyond(b))
    BY <2>1, <2>3, SlideBeginsWell
  <2> QED BY <1>2, <2>2, <2>3 DEF ClickButton, moveSlider, SlideBegins
<1>3. CASE ArticlesStop
  <2>1. pending # <<>> /\ position' = Head(pending) /\ pending' = Tail(pending) /\ inuse' = FALSE
        /\ UNCHANGED <<shown, opacity, fades, clicks, overlapped>>
    BY <1>3 DEF ArticlesStop
  <2>2. Head(pending) \in 0..LastArticle /\ Tail(pending) = <<>>
    <3>1. pending \in Seq(0..LastArticle) /\ Len(pending) <= 1
      BY <1>1 DEF SliderTypeOK, OneSlide
    <3> QED BY <2>1, <3>1, ShortSequence
  <2>a. pending' = <<>>
    BY <2>1, <2>2
  <2>b. position' \in 0..LastArticle
    BY <2>1, <2>2
  <2>3. SliderTypeOK'
    <3>1. pending' \in Seq(0..LastArticle)
      BY <2>a
    <3> QED BY <1>1, <2>1, <2>b, <3>1 DEF SliderTypeOK
  <2>c. inuse' = FALSE
    BY <2>1
  <2>4. OneSlide' /\ StuckAtAnEnd'
    BY <2>a, <2>c, Singletons DEF OneSlide, StuckAtAnEnd
  <2>5. Heading' = Heading
    BY <2>1, <2>a DEF Heading
  <2>6. ~overlapped' /\ N > 1 => \A d \in Buttons : ButtonSettles(d)'
    BY <2>1, <2>5 DEF SliderInv, ButtonSettles
  <2> QED BY <2>3, <2>4, <2>6 DEF SliderInv
<1>4. ASSUME NEW b \in Buttons, ButtonFadeStep(b) PROVE SliderInv'
  <2>1. opacity' \in [Buttons -> {"0", "between", "1"}]
    BY <1>1, <1>4 DEF ButtonFadeStep, SliderTypeOK
  <2>2. SliderTypeOK' /\ OneSlide' /\ StuckAtAnEnd'
    BY <1>1, <1>4, <2>1 DEF ButtonFadeStep, SliderTypeOK, OneSlide, StuckAtAnEnd
  <2>3. Heading' = Heading
    BY <1>4 DEF ButtonFadeStep, Heading
  <2>4. ASSUME ~overlapped', N > 1, NEW d \in Buttons PROVE ButtonSettles(d)'
    <3>1. ButtonSettles(d) /\ ButtonSettles(b)
      BY <1>4, <2>4 DEF SliderInv, ButtonFadeStep
    <3>2. fades[b] \in {<<"in">>, <<"out">>}
      BY <1>4, <3>1, Singletons DEF ButtonFadeStep, ButtonSettles
    <3>3. d # b => opacity'[d] = opacity[d]
      BY <1>1, <1>4 DEF ButtonFadeStep, SliderTypeOK
    <3>4. <<"in">> \notin {<<>>, <<"entrance">>} /\ <<"out">> \notin {<<>>, <<"entrance">>}
      BY Singletons
    <3>5. shown' = shown /\ fades' = fades
      BY <1>4 DEF ButtonFadeStep
    <3> QED BY <2>3, <3>1, <3>2, <3>3, <3>4, <3>5 DEF ButtonSettles
  <2> QED BY <2>2, <2>4 DEF SliderInv
<1>5. ASSUME NEW b \in Buttons, ButtonFadeEnds(b) PROVE SliderInv'
  <2> DEFINE h == Head(fades[b])
             o == CASE h = "out" -> "0" [] h = "in" -> "1" [] OTHER -> opacity[b]
  <2>0. /\ fades[b] # <<>> /\ fades[b] \in Seq({"entrance", "out", "in"})
        /\ opacity' = [opacity EXCEPT ![b] = o]
        /\ shown' = [shown EXCEPT ![b] = shown[b] /\ h # "out"]
        /\ fades' = [fades EXCEPT ![b] = Tail(fades[b])]
        /\ UNCHANGED <<position, inuse, pending, clicks, overlapped>>
    BY <1>1, <1>5 DEF ButtonFadeEnds, SliderTypeOK
  <2>1. h \in {"entrance", "out", "in"} /\ Tail(fades[b]) \in Seq({"entrance", "out", "in"})
    BY <2>0
  <2>2. o \in {"0", "between", "1"}
    BY <1>1, <2>1 DEF SliderTypeOK
  <2> HIDE DEF h, o
  <2>3. SliderTypeOK'
    <3>1. opacity' \in [Buttons -> {"0", "between", "1"}]
      BY <1>1, <2>0, <2>2 DEF SliderTypeOK
    <3>2. shown' \in [Buttons -> BOOLEAN]
      BY <1>1, <2>0 DEF SliderTypeOK
    <3>3. fades' \in [Buttons -> Seq({"entrance", "out", "in"})]
      BY <1>1, <2>0, <2>1 DEF SliderTypeOK
    <3> QED BY <1>1, <2>0, <3>1, <3>2, <3>3 DEF SliderTypeOK
  <2>4. OneSlide' /\ StuckAtAnEnd'
    BY <1>1, <2>0 DEF OneSlide, StuckAtAnEnd
  <2>5. Heading' = Heading
    BY <2>0 DEF Heading
  <2>6. ASSUME ~overlapped', N > 1, NEW d \in Buttons PROVE ButtonSettles(d)'
    <3>1. ButtonSettles(d) /\ ButtonSettles(b)
      BY <2>0, <2>6 DEF SliderInv
    <3>2. CASE d # b
      <4>1. fades'[d] = fades[d] /\ shown'[d] = shown[d] /\ opacity'[d] = opacity[d]
        BY <1>1, <2>0, <3>2 DEF SliderTypeOK
      <4> QED BY <2>5, <3>1, <4>1 DEF ButtonSettles
    <3>3. CASE d = b
      <4>1. fades'[b] = Tail(fades[b]) /\ opacity'[b] = o /\ shown'[b] = (shown[b] /\ h # "out")
        BY <1>1, <2>0 DEF SliderTypeOK
      <4>2. fades[b] = <<h>> /\ h \in {"entrance", "in", "out"}
        BY <2>0, <3>1, Singletons DEF ButtonSettles, h
      <4>3. fades'[b] = <<>>
        BY <4>1, <4>2, Singletons
      <4>4. o = IF h = "out" THEN "0" ELSE IF h = "in" THEN "1" ELSE opacity[b]
        BY <2>1 DEF o
      <4>5. o = IF shown'[b] THEN "1" ELSE "0"
        BY <3>1, <4>1, <4>2, <4>4, Singletons DEF ButtonSettles
      <4>6. shown'[b] <=> LeadsOn(b, Heading)
        BY <3>1, <4>1, <4>2, Singletons DEF ButtonSettles
      <4> QED BY <2>5, <3>3, <4>1, <4>3, <4>5, <4>6, Singletons DEF ButtonSettles
    <3> QED BY <3>2, <3>3
  <2> QED BY <2>3, <2>4, <2>6 DEF SliderInv
<1>6. CASE UNCHANGED sliderVars
  <2> USE <1>6 DEF sliderVars
  <2>1. SliderTypeOK' /\ OneSlide' /\ StuckAtAnEnd'
    BY <1>1 DEF SliderTypeOK, OneSlide, StuckAtAnEnd
  <2>2. ~overlapped' /\ N > 1 => \A d \in Buttons : ButtonSettles(d)'
    BY DEF SliderInv, ButtonSettles, Heading
  <2> QED BY <2>1, <2>2 DEF SliderInv
<1> QED BY <1>2, <1>3, <1>4, <1>5, <1>6 DEF SliderNext

LEMMA SliderHolds == SliderInv => SliderTypeOK /\ SliderLeads
<1> SUFFICES ASSUME SliderInv PROVE SliderTypeOK /\ SliderLeads
  OBVIOUS
<1>1. ButtonsLead
  <2> SUFFICES ASSUME ~overlapped, pending = <<>>, \A b \in Buttons : fades[b] = <<>>, N > 1
               PROVE  /\ shown["left"] <=> position > 0
                      /\ shown["right"] <=> position < LastArticle
    BY DEF ButtonsLead
  <2>1. \A b \in Buttons : ButtonSettles(b)
    BY DEF SliderInv
  <2>2. \A b \in Buttons : shown[b] <=> LeadsOn(b, position)
    BY <2>1, Singletons DEF ButtonSettles, Heading
  <2> QED BY <2>2 DEF Buttons, LeadsOn
<1> QED BY <1>1 DEF SliderInv, SliderLeads

-----------------------------------------------------------------------------
(* What floats with the mouse and follows the window.                      *)

FloatInv == FloatTypeOK /\ FloatsInSight /\ FollowersFollow

LEMMA FloatConstants ==
  /\ ViewHeight \in Nat /\ PageHeight \in Nat /\ ViewHeight <= PageHeight
  /\ \A i \in DOMAIN Followers : /\ Followers[i].edge \in {"top", "bottom"}
                                 /\ Followers[i].top \in Nat /\ Followers[i].offset \in Nat
  /\ Float.height \in Nat /\ Float.home \in Nat /\ Float.top \in Int
  /\ Float.bottom \in Int /\ Float.center \in Int
  /\ Container.top \in Nat /\ Container.height \in Nat
<1>1. ViewHeight \in Nat /\ PageHeight \in Nat /\ ViewHeight <= PageHeight
  BY FloatAssumption
<1>2. \A i \in DOMAIN Followers :
        Followers[i] \in [top : Nat, edge : {"top", "bottom"}, offset : Nat]
  <2> DEFINE S == [top : Nat, edge : {"top", "bottom"}, offset : Nat]
  <2>1. Followers \in Seq(S)
    BY FloatAssumption
  <2> HIDE DEF S
  <2>2. \A i \in DOMAIN Followers : Followers[i] \in S
    BY <2>1
  <2> QED BY <2>2 DEF S
<1>3. /\ Float.height \in Nat /\ Float.home \in Nat /\ Float.top \in Int
      /\ Float.bottom \in Int /\ Float.center \in Int
  BY FloatAssumption
<1>4. Container.top \in Nat /\ Container.height \in Nat
  BY FloatAssumption
<1>5. \A i \in DOMAIN Followers : /\ Followers[i].edge \in {"top", "bottom"}
                                  /\ Followers[i].top \in Nat /\ Followers[i].offset \in Nat
  BY <1>2
<1> QED BY <1>1, <1>3, <1>4, <1>5

\* Placed where it belongs, the item is in sight if the window leaves room.
LEMMA PlacedInSight ==
  ASSUME view_top \in Int
  PROVE  LET first == Most(Most(Container.top, Float.home), view_top + Float.top)
             room  == Least(Most(Container.top, Float.home) + Container.height,
                            view_top + Float.top + ViewHeight - Float.bottom)
             place == target_offset(Float.home)
         IN  /\ place \in Int /\ place >= first
             /\ first >= Most(Container.top, view_top + Float.top)
             /\ Float.height <= room - first => place + Float.height <= room
<1> DEFINE first == Most(Most(Container.top, Float.home), view_top + Float.top)
           room  == Least(Most(Container.top, Float.home) + Container.height,
                          view_top + Float.top + ViewHeight - Float.bottom)
           wish  == Float.center - Float.height \div 2
           place == target_offset(Float.home)
<1>1. \A a, b \in Int : /\ Most(a, b) \in {a, b} /\ Most(a, b) >= a /\ Most(a, b) >= b
                        /\ Least(a, b) \in {a, b} /\ Least(a, b) <= a /\ Least(a, b) <= b
  BY DEF Most, Least
<1>2. first \in Int /\ room \in Int /\ first >= Most(Container.top, view_top + Float.top)
  BY <1>1, FloatConstants
<1>3. wish \in Int /\ Float.height \in Nat
  BY FloatConstants
<1>4. place = IF first >= room - Float.height THEN first
              ELSE Most(first, Least(wish, room - Float.height))
  BY DEF target_offset, target_top, target_bottom
<1> HIDE DEF first, room, wish, place
<1>5. place \in Int /\ place >= first
      /\ (Float.height <= room - first => place + Float.height <= room)
  BY <1>1, <1>2, <1>3, <1>4
<1> QED BY <1>2, <1>5 DEF first, room, place

LEMMA FloatStarts == FloatInit => FloatInv
<1> SUFFICES ASSUME FloatInit PROVE FloatInv
  OBVIOUS
<1>0. 0 \in 0..PageHeight - ViewHeight
  BY FloatConstants
<1>b. view_top \in 0..PageHeight - ViewHeight /\ placed_in \in 0..PageHeight - ViewHeight
  BY <1>0 DEF FloatInit
<1>c. fixed \cup sized \cup behind \subseteq DOMAIN Followers
  BY DEF FloatInit
<1>d. gives_way \in BOOLEAN /\ visible \in BOOLEAN
  BY Zenon DEF FloatInit
<1>e. shift \in Int /\ placings \in 0..2
  BY DEF FloatInit
<1>a. FloatTypeOK
  BY <1>b, <1>c, <1>d, <1>e DEF FloatTypeOK
<1>1. FloatTypeOK /\ FloatsInSight
  BY <1>a DEF FloatInit, FloatsInSight
<1>2. FollowersFollow
  BY FloatConstants DEF FloatInit, FollowersFollow, ToBeFixed
<1> QED BY <1>1, <1>2 DEF FloatInv

LEMMA FloatSteps == FloatInv /\ [FloatNext]_floatVars => FloatInv'
<1> SUFFICES ASSUME FloatInv, [FloatNext]_floatVars PROVE FloatInv'
  OBVIOUS
<1>0. FloatTypeOK /\ FloatsInSight /\ FollowersFollow
  BY DEF FloatInv
<1>1. ASSUME NEW view \in 0..PageHeight - ViewHeight, Scroll(view) PROVE FloatInv'
  <2>1. FloatTypeOK'
    BY <1>0, <1>1 DEF Scroll, Reached, FloatTypeOK
  <2>2. FloatsInSight'
    BY <1>0, <1>1 DEF Scroll, FloatsInSight
  <2>3. FollowersFollow'
    <3> SUFFICES ASSUME NEW i \in DOMAIN Followers, i \notin behind', Followers[i].edge = "top"
                 PROVE  /\ i \in fixed' <=> ToBeFixed(i, view_top)'
                        /\ i \in sized' <=> i \in fixed'
      BY DEF FollowersFollow
    <3>1. i \in Reached(view) /\ i \notin RaisingFollowers(view)
      BY <1>1 DEF Scroll, RaisingFollowers
    <3>2. ToBeFixed(i, view_top)' <=> ToBeFixed(i, view)
      BY <1>1 DEF Scroll, ToBeFixed
    <3> QED BY <1>1, <3>1, <3>2 DEF Scroll
  <2> QED BY <2>1, <2>2, <2>3 DEF FloatInv
<1>2. ASSUME NEW display \in BOOLEAN, floating_toggle(display) PROVE FloatInv'
  <2>1. shift' \in Int
    <3>1. \A a, b \in Int : Most(a, b) \in Int /\ Least(a, b) \in Int
      BY DEF Most, Least
    <3>2. Float.home + shift \in Int /\ view_top \in Int
      BY <1>0, FloatConstants DEF FloatTypeOK
    <3>3. target_top(Float.home + shift) \in Int /\ target_bottom(Float.home + shift) \in Int
      <4> DEFINE at == Most(Container.top, Float.home + shift)
      <4>0. Container.top \in Int
        BY FloatConstants
      <4>1. at \in Int
        BY <3>1, <3>2, <4>0
      <4>2. view_top + Float.top \in Int /\ at + Container.height \in Int
            /\ view_top + Float.top + ViewHeight - Float.bottom \in Int
        BY <3>2, <4>1, FloatConstants
      <4> HIDE DEF at
      <4>3. Most(at, view_top + Float.top) \in Int
            /\ Least(at + Container.height, view_top + Float.top + ViewHeight - Float.bottom)
                 \in Int
        BY <3>1, <4>1, <4>2
      <4> QED BY <4>3 DEF target_top, target_bottom, at
    <3>4. target_offset(Float.home + shift) \in Int
      <4> DEFINE wish == Float.center - Float.height \div 2
                 last == target_bottom(Float.home + shift) - Float.height
                 first == target_top(Float.home + shift)
      <4>1. wish \in Int /\ last \in Int /\ first \in Int
        BY <3>3, FloatConstants
      <4>2. target_offset(Float.home + shift) \in {first, Most(first, Least(wish, last))}
        BY DEF target_offset
      <4> HIDE DEF wish, last, first
      <4> QED BY <3>1, <4>1, <4>2
    <3> QED BY <1>2, <3>2, <3>4 DEF floating_toggle
  <2>a. placings' \in 0..2 /\ (display /\ placings = 0 => placings' = 1)
        /\ (display /\ placings # 0 => placings' = 2) /\ (~display => placings' = 0)
    BY <1>0, <1>2 DEF floating_toggle, FloatTypeOK, Least
  <2>b. gives_way' \in BOOLEAN /\ visible' \in BOOLEAN /\ visible' = display
    BY <1>0, <1>2, Zenon DEF floating_toggle, FloatTypeOK
  <2>2. FloatTypeOK'
    BY <1>0, <1>2, <2>1, <2>a, <2>b DEF floating_toggle, FloatTypeOK
  <2>3. FloatsInSight'
    <3>1. CASE ~(display /\ placings = 0)
      <4>1. placings' # 1 /\ (placings' = 0 => ~display) /\ (placings' > 0 => visible')
        BY <1>0, <2>a, <2>b, <3>1 DEF FloatTypeOK
      <4> QED BY <1>2, <4>1 DEF floating_toggle, FloatsInSight
    <3>2. CASE display /\ placings = 0
      <4>1. shift = 0 /\ view_top \in Int
        BY <1>0, <3>2 DEF FloatsInSight, FloatTypeOK
      <4>2. Float.home + shift = Float.home
        BY <4>1, FloatConstants
      <4>3. shift' = target_offset(Float.home) - Float.home
        BY <1>2, <3>2, <4>2 DEF floating_toggle
      <4> DEFINE place == target_offset(Float.home)
      <4>4. place \in Int
        BY <4>1, PlacedInSight
      <4> HIDE DEF place
      <4>5. Float.home + shift' = place
        BY <4>3, <4>4, FloatConstants DEF place
      <4> DEFINE first == Most(Most(Container.top, Float.home), view_top + Float.top)
                 floor == Most(Container.top, view_top + Float.top)
                 room  == Least(Most(Container.top, Float.home) + Container.height,
                                view_top + Float.top + ViewHeight - Float.bottom)
      <4>6. /\ place >= first /\ first >= floor
            /\ Float.height <= room - first => place + Float.height <= room
        BY <4>1, PlacedInSight DEF place
      <4>7. first \in Int /\ floor \in Int
        BY <4>1, FloatConstants DEF Most
      <4>8. visible' /\ placed_in' = view_top
        BY <1>2, <3>2 DEF floating_toggle
      <4> HIDE DEF first, floor, room
      <4>9. place >= floor
        BY <4>4, <4>6, <4>7
      <4>10. Float.home + shift' >= floor
             /\ (Float.height <= room - first => Float.home + shift' + Float.height <= room)
        BY <4>5, <4>6, <4>9
      <4> QED BY <2>a, <3>2, <4>8, <4>10 DEF FloatsInSight, first, floor, room
    <3> QED BY <3>1, <3>2
  <2>4. FollowersFollow'
    BY <1>0, <1>2 DEF floating_toggle, FollowersFollow, ToBeFixed
  <2> QED BY <2>2, <2>3, <2>4 DEF FloatInv
<1>3. CASE UNCHANGED floatVars
  <2>0. /\ view_top' = view_top /\ fixed' = fixed /\ sized' = sized /\ behind' = behind
        /\ visible' = visible /\ shift' = shift /\ placed_in' = placed_in
        /\ gives_way' = gives_way /\ placings' = placings
    BY <1>3 DEF floatVars
  <2>a. fixed' \cup sized' \cup behind' \subseteq DOMAIN Followers
    BY <1>0, <2>0 DEF FloatTypeOK
  <2>b. view_top' \in 0..PageHeight - ViewHeight /\ placed_in' \in 0..PageHeight - ViewHeight
    BY <1>0, <2>0 DEF FloatTypeOK
  <2>c. gives_way' \in BOOLEAN /\ visible' \in BOOLEAN /\ shift' \in Int /\ placings' \in 0..2
    BY <1>0, <2>0 DEF FloatTypeOK
  <2>1. FloatTypeOK'
    BY <2>a, <2>b, <2>c DEF FloatTypeOK
  <2>2. FloatsInSight' /\ FollowersFollow'
    BY <1>0, <2>0 DEF FloatsInSight, FollowersFollow, ToBeFixed
  <2> QED BY <2>1, <2>2 DEF FloatInv
<1>4. gives_way \in BOOLEAN /\ (~gives_way) \in BOOLEAN
  <2>1. gives_way \in BOOLEAN
    BY <1>0 DEF FloatTypeOK
  <2> QED BY <2>1, Zenon
<1>5. CASE EnterRow \/ LeaveRow
  <2>1. CASE EnterRow
    BY <1>2, <1>4, <2>1, Zenon DEF EnterRow
  <2>2. CASE LeaveRow
    BY <1>2, <1>4, <2>2, Zenon DEF LeaveRow
  <2> QED BY <1>5, <2>1, <2>2
<1> QED BY <1>1, <1>3, <1>5 DEF FloatNext

-----------------------------------------------------------------------------
(* The menu bar and the rows.                                              *)

(***************************************************************************)
(* No menu but the last one opened is open, it is the one under the        *)
(* pointer, and the one timeout that may be pending is the one that the    *)
(* script knows: it can be cancelled.                                      *)
(***************************************************************************)
LastIsOpen   == open \subseteq {ddmenuitem} /\ (over \in Items => ddmenuitem = over)
TimerIsKnown == timers \subseteq {closetimer} /\ (over \in Items => timers = {})
MenuInv ==
    /\ MenuTypeOK /\ pointerMoves \in 0..MaxPointerMoves
    /\ LastIsOpen /\ TimerIsKnown /\ RowsFollowPointer

LEMMA MenuStarts == MenuInit => MenuInv
<1> SUFFICES ASSUME MenuInit PROVE MenuInv
  OBVIOUS
<1>1. MenuTypeOK /\ pointerMoves \in 0..MaxPointerMoves
  BY MenuAssumption DEF MenuInit, MenuTypeOK
<1>2. LastIsOpen /\ TimerIsKnown /\ RowsFollowPointer
  BY MenuAssumption DEF MenuInit, LastIsOpen, TimerIsKnown, RowsFollowPointer
<1> QED BY <1>1, <1>2 DEF MenuInv

LEMMA MenuSteps == MenuInv /\ [MenuNext]_menuVars => MenuInv'
<1> SUFFICES ASSUME MenuInv, [MenuNext]_menuVars PROVE MenuInv'
  OBVIOUS
<1>0. /\ MenuTypeOK /\ pointerMoves \in 0..MaxPointerMoves
      /\ LastIsOpen /\ TimerIsKnown /\ RowsFollowPointer
      /\ MaxPointerMoves \in Nat /\ WithList \subseteq Items
  BY MenuAssumption DEF MenuInv
<1>1. ASSUME NEW to \in Items \cup Rows \cup {"page"}, NEW line \in Rows \cup {"none"},
             MovePointer(to, line)
      PROVE  MenuInv'
  <2>0. /\ pointerMoves < MaxPointerMoves /\ pointerMoves' = pointerMoves + 1
        /\ over' = to /\ within' = line /\ wentTo' = wentTo
    BY <1>1 DEF MovePointer
  <2>1. CASE to = over
    <3>1. UNCHANGED <<open, ddmenuitem, closetimer, timers, lit, buttons>>
      BY <1>1, <2>1 DEF MovePointer
    <3>2. MenuTypeOK' /\ pointerMoves' \in 0..MaxPointerMoves
      BY <1>0, <2>0, <3>1 DEF MenuTypeOK
    <3>3. LastIsOpen' /\ TimerIsKnown' /\ RowsFollowPointer'
      BY <1>0, <2>0, <2>1, <3>1 DEF LastIsOpen, TimerIsKnown, RowsFollowPointer
    <3> QED BY <3>2, <3>3 DEF MenuInv
  <2>2. CASE to # over
    <3> DEFINE timed == IF over \in Items THEN timers \cup {pointerMoves + 1} ELSE timers
               known == IF over \in Items THEN pointerMoves + 1 ELSE closetimer
    <3>1. /\ jsddm(over, to) /\ hover_highlight(over, to, line)
          /\ hover_visibility_toggle(over, to)
      BY <1>1, <2>2 DEF MovePointer
    <3>2. timed \subseteq {known} /\ known \in 0..MaxPointerMoves
          /\ timed \subseteq 1..MaxPointerMoves
      BY <1>0, <2>0 DEF TimerIsKnown, MenuTypeOK
    <3>3. /\ to \in Items => /\ timers' = timed \ {known} /\ closetimer' = 0
                             /\ open' = ItemClosed(open) \cup ({to} \cap WithList)
                             /\ ddmenuitem' = to
          /\ to \notin Items => /\ timers' = timed /\ closetimer' = known
                                /\ open' = open /\ ddmenuitem' = ddmenuitem
      BY <3>1 DEF jsddm
    <3> HIDE DEF timed, known
    <3>4. ItemClosed(open) = {}
      BY <1>0 DEF ItemClosed, LastIsOpen
    <3>5. LastIsOpen'
      BY <1>0, <2>0, <3>3, <3>4 DEF LastIsOpen
    <3>6. TimerIsKnown'
      BY <2>0, <3>2, <3>3 DEF TimerIsKnown
    <3>7. RowsFollowPointer'
      BY <1>0, <2>0, <3>1 DEF RowsFollowPointer, hover_highlight, hover_visibility_toggle
    <3>8. open' \subseteq WithList /\ ddmenuitem' \in Items \cup {"none"}
      BY <1>0, <3>3, <3>4 DEF MenuTypeOK
    <3>9. closetimer' \in 0..MaxPointerMoves /\ timers' \subseteq 1..MaxPointerMoves
      <4>1. CASE to \in Items
        <5>1. timers' = timed \ {known} /\ closetimer' = 0
          BY <3>3, <4>1
        <5>2. 0 \in 0..MaxPointerMoves
          BY <1>0
        <5> QED BY <3>2, <5>1, <5>2
      <4>2. CASE to \notin Items
        BY <3>2, <3>3, <4>2
      <4> QED BY <4>1, <4>2
    <3>10. lit' \subseteq Rows /\ buttons' \subseteq Rows
      BY <1>0, <3>1 DEF MenuTypeOK, hover_highlight, hover_visibility_toggle
    <3>11. MenuTypeOK' /\ pointerMoves' \in 0..MaxPointerMoves
      BY <1>0, <2>0, <3>8, <3>9, <3>10 DEF MenuTypeOK
    <3> QED BY <3>5, <3>6, <3>7, <3>11 DEF MenuInv
  <2> QED BY <2>1, <2>2
<1>2. ASSUME NEW t \in timers, TimerExpires(t) PROVE MenuInv'
  <2>1. MenuTypeOK' /\ pointerMoves' \in 0..MaxPointerMoves
    BY <1>0, <1>2 DEF TimerExpires, ItemClosed, MenuTypeOK
  <2>2. LastIsOpen' /\ TimerIsKnown' /\ RowsFollowPointer'
    BY <1>0, <1>2 DEF TimerExpires, ItemClosed, LastIsOpen, TimerIsKnown, RowsFollowPointer
  <2> QED BY <2>1, <2>2 DEF MenuInv
<1>3. ASSUME NEW onButton \in BOOLEAN, ClickPage(onButton) PROVE MenuInv'
  <2>1. open' \subseteq open /\ wentTo' \in Rows \cup {"none"}
    BY <1>0, <1>3 DEF ClickPage, ItemClosed, MenuTypeOK
  <2>2. UNCHANGED <<over, within, ddmenuitem, closetimer, timers, lit, buttons, pointerMoves>>
    BY <1>3 DEF ClickPage
  <2>3. MenuTypeOK' /\ pointerMoves' \in 0..MaxPointerMoves
    BY <1>0, <2>1, <2>2 DEF MenuTypeOK
  <2>4. LastIsOpen' /\ TimerIsKnown' /\ RowsFollowPointer'
    BY <1>0, <2>1, <2>2 DEF LastIsOpen, TimerIsKnown, RowsFollowPointer
  <2> QED BY <2>3, <2>4 DEF MenuInv
<1>4. CASE UNCHANGED menuVars
  <2>1. MenuTypeOK' /\ pointerMoves' \in 0..MaxPointerMoves
    BY <1>0, <1>4 DEF menuVars, MenuTypeOK
  <2>2. LastIsOpen' /\ TimerIsKnown' /\ RowsFollowPointer'
    BY <1>0, <1>4 DEF menuVars, LastIsOpen, TimerIsKnown, RowsFollowPointer
  <2> QED BY <2>1, <2>2 DEF MenuInv
<1> QED BY <1>1, <1>2, <1>3, <1>4 DEF MenuNext

LEMMA MenuHolds == MenuInv => MenuTypeOK /\ OpenUnderPointer /\ RowsFollowPointer
<1> SUFFICES ASSUME MenuInv PROVE MenuTypeOK /\ OpenUnderPointer /\ RowsFollowPointer
  OBVIOUS
<1>1. open = {} \/ open = {ddmenuitem}
  BY DEF MenuInv, LastIsOpen
<1>2. Cardinality(open) <= 1
  <2>1. CASE open = {}
    BY <2>1, FS_EmptySet
  <2>2. CASE open = {ddmenuitem}
    <3>1. Cardinality({ddmenuitem}) = 1
      BY FS_Singleton
    <3> QED BY <2>2, <3>1
  <2> QED BY <1>1, <2>1, <2>2
<1> QED BY <1>2 DEF MenuInv, LastIsOpen, TimerIsKnown, OpenUnderPointer

-----------------------------------------------------------------------------
(* The slider with two handles.                                            *)

\* The range is a whole number of steps.
WholeSteps == (ValueMax - ValueMin) % Step = 0

LEMMA DivMod ==
  ASSUME NEW x \in Int, NEW s \in Nat \ {0}
  PROVE  x \div s \in Int /\ x % s \in 0..s-1 /\ x = s * (x \div s) + (x % s)
  OBVIOUS

LEMMA MoreIsMore ==
  ASSUME NEW s \in Nat \ {0}, NEW j \in Int, NEW k \in Int, j < k
  PROVE  s * j + s <= s * k
<1>1. s * k = s * j + s * (k - j)
  OBVIOUS
<1>2. s * (k - j) = s + s * (k - j - 1)
  OBVIOUS
<1>3. k - j - 1 \in Nat
  OBVIOUS
<1>4. s * (k - j - 1) \in Nat
  BY <1>3
<1> QED BY <1>1, <1>2, <1>4

LEMMA RangeConstants ==
  /\ ValueMin \in Int /\ ValueMax \in Int /\ ValueMin < ValueMax
  /\ Step \in Nat \ {0} /\ PageStep \in Int /\ MaxStrokes \in Nat
  /\ RangePlaces \subseteq ValueMin..ValueMax
  BY RangeAssumption

(***************************************************************************)
(* _trimAlignValue returns a step of the range, not further from what it   *)
(* was given than half a step unless that was out of range.                *)
(***************************************************************************)
LEMMA AlignedToStep ==
  ASSUME WholeSteps, NEW v \in Int
  PROVE  \E k \in Int :
           /\ TrimAlign(v) = ValueMin + Step * k
           /\ ValueMin <= TrimAlign(v) /\ TrimAlign(v) <= ValueMax
           /\ v <= ValueMin => TrimAlign(v) = ValueMin
           /\ v >= ValueMax => TrimAlign(v) = ValueMax
           /\ ValueMin <= v /\ v <= ValueMax =>
                2 * (v - TrimAlign(v)) < Step /\ 2 * (TrimAlign(v) - v) <= Step
<1> DEFINE K == (ValueMax - ValueMin) \div Step
           q == (v - ValueMin) \div Step
           r == (v - ValueMin) % Step
<1>0. K \in Int /\ q \in Int /\ r \in 0..Step-1
      /\ ValueMax - ValueMin = Step * K /\ v - ValueMin = Step * q + r
  <2> DEFINE L == ValueMax - ValueMin
             x == v - ValueMin
  <2>1. L \in Int /\ x \in Int /\ Step \in Nat \ {0}
    BY RangeConstants
  <2>2. L % Step = 0
    BY DEF WholeSteps
  <2> HIDE DEF L, x
  <2>3. /\ L \div Step \in Int /\ L % Step \in 0..Step-1 /\ L = Step * (L \div Step) + (L % Step)
        /\ x \div Step \in Int /\ x % Step \in 0..Step-1 /\ x = Step * (x \div Step) + (x % Step)
    BY <2>1, DivMod
  <2>4. L = Step * (L \div Step)
    BY <2>1, <2>2, <2>3
  <2> QED BY <2>3, <2>4 DEF L, x
<1>1. TrimAlign(v) = IF v <= ValueMin THEN ValueMin
                     ELSE IF v >= ValueMax THEN ValueMax
                     ELSE v - r + (IF 2 * r >= Step THEN Step ELSE 0)
  BY DEF TrimAlign
<1> HIDE DEF K, q, r
<1>2. CASE v <= ValueMin
  <2>1. ValueMin = ValueMin + Step * 0
    BY RangeConstants
  <2> QED BY <1>1, <1>2, <2>1, RangeConstants
<1>3. CASE v >= ValueMax
  <2>1. ValueMax = ValueMin + Step * K
    BY <1>0, RangeConstants
  <2> QED BY <1>0, <1>1, <1>3, <2>1, RangeConstants
<1>4. CASE ValueMin < v /\ v < ValueMax
  <2>0. Step \in Nat \ {0} /\ Step * q \in Int /\ Step * K \in Int
        /\ ValueMin \in Int /\ ValueMax \in Int /\ r \in Int /\ 0 <= r /\ r < Step
    BY <1>0, RangeConstants
  <2>1. q < K
    <3>1. ASSUME q >= K PROVE FALSE
      <4>1. Step * K <= Step * q
        BY <1>0, <2>0, <3>1, MoreIsMore
      <4> QED BY <1>0, <1>4, <2>0, <4>1
    <3> QED BY <1>0, <3>1
  <2>2. Step * q + Step <= Step * K
    BY <1>0, <2>0, <2>1, MoreIsMore
  <2>3. Step * q >= 0
    <3>1. ASSUME q < 0 PROVE FALSE
      <4>1. Step * q + Step <= Step * 0
        BY <1>0, <2>0, <3>1, MoreIsMore
      <4> QED BY <1>0, <1>4, <2>0, <4>1
    <3>2. q = 0 \/ q > 0
      BY <1>0, <3>1
    <3>3. q > 0 => Step * 0 + Step <= Step * q
      BY <1>0, <2>0, MoreIsMore
    <3> QED BY <2>0, <3>2, <3>3
  <2>4. CASE 2 * r >= Step
    <3>1. TrimAlign(v) = ValueMin + (Step * q + Step)
      BY <1>0, <1>1, <1>4, <2>0, <2>4
    <3>2. Step * q + Step = Step * (q + 1)
      BY <1>0, <2>0
    <3>3. /\ ValueMin <= TrimAlign(v) /\ TrimAlign(v) <= ValueMax
          /\ 2 * (v - TrimAlign(v)) < Step /\ 2 * (TrimAlign(v) - v) <= Step
      BY <1>0, <2>0, <2>2, <2>3, <2>4, <3>1
    <3>4. q + 1 \in Int /\ TrimAlign(v) = ValueMin + Step * (q + 1)
      BY <1>0, <3>1, <3>2
    <3>5. ~(v <= ValueMin) /\ ~(v >= ValueMax)
      BY <1>4, <2>0
    <3> QED BY <3>3, <3>4, <3>5
  <2>5. CASE ~(2 * r >= Step)
    <3>1. TrimAlign(v) = ValueMin + Step * q
      BY <1>0, <1>1, <1>4, <2>0, <2>5
    <3>2. /\ ValueMin <= TrimAlign(v) /\ TrimAlign(v) <= ValueMax
          /\ 2 * (v - TrimAlign(v)) < Step /\ 2 * (TrimAlign(v) - v) <= Step
      BY <1>0, <2>0, <2>2, <2>3, <2>5, <3>1
    <3>3. ~(v <= ValueMin) /\ ~(v >= ValueMax)
      BY <1>4, <2>0
    <3> QED BY <1>0, <3>1, <3>2, <3>3
  <2> QED BY <2>4, <2>5
<1> QED BY <1>2, <1>3, <1>4, RangeConstants

\* It leaves what it returned as it is, and keeps the order of what it is given.
LEMMA AlignedTwice ==
  ASSUME WholeSteps, NEW v \in Int
  PROVE  TrimAlign(v) \in Int /\ TrimAlign(TrimAlign(v)) = TrimAlign(v)
<1>1. PICK k \in Int : /\ TrimAlign(v) = ValueMin + Step * k
                       /\ ValueMin <= TrimAlign(v) /\ TrimAlign(v) <= ValueMax
  BY AlignedToStep
<1> DEFINE a == TrimAlign(v)
           b == TrimAlign(a)
<1>2. a \in Int /\ ValueMin <= a /\ a <= ValueMax
  BY <1>1, RangeConstants
<1> HIDE DEF a
<1>3. PICK j \in Int : /\ b = ValueMin + Step * j
                       /\ 2 * (a - b) < Step /\ 2 * (b - a) <= Step
  BY <1>2, AlignedToStep
<1> HIDE DEF b
<1>4. Step \in Nat \ {0} /\ Step * k \in Int /\ Step * j \in Int /\ ValueMin \in Int
  BY RangeConstants
<1>5. a = ValueMin + Step * k
  BY <1>1 DEF a
<1>6. ~(j < k) /\ ~(k < j)
  BY <1>3, <1>4, <1>5, MoreIsMore
<1>7. j = k
  BY <1>6
<1>8. b = a
  BY <1>3, <1>5, <1>7
<1> QED BY <1>2, <1>8 DEF a, b

LEMMA AlignedInOrder ==
  ASSUME WholeSteps, NEW v \in Int, NEW w \in Int, v <= w
  PROVE  TrimAlign(v) <= TrimAlign(w)
<1> DEFINE a == TrimAlign(v)
           b == TrimAlign(w)
<1>1. PICK j \in Int :
           /\ a = ValueMin + Step * j
           /\ ValueMin <= a /\ a <= ValueMax
           /\ v <= ValueMin => a = ValueMin
           /\ v >= ValueMax => a = ValueMax
           /\ ValueMin <= v /\ v <= ValueMax => 2 * (v - a) < Step /\ 2 * (a - v) <= Step
  BY AlignedToStep
<1>2. PICK k \in Int :
           /\ b = ValueMin + Step * k
           /\ ValueMin <= b /\ b <= ValueMax
           /\ w <= ValueMin => b = ValueMin
           /\ w >= ValueMax => b = ValueMax
           /\ ValueMin <= w /\ w <= ValueMax => 2 * (w - b) < Step /\ 2 * (b - w) <= Step
  BY AlignedToStep
<1> HIDE DEF a, b
<1>3. Step \in Nat \ {0} /\ Step * j \in Int /\ Step * k \in Int
      /\ ValueMin \in Int /\ ValueMax \in Int
  BY RangeConstants
<1>4. v <= ValueMin \/ w >= ValueMax => a <= b
  BY <1>1, <1>2, <1>3
<1>5. ASSUME ValueMin < v, w < ValueMax PROVE a <= b
  <2>1. 2 * (a - v) <= Step /\ 2 * (w - b) < Step
    BY <1>1, <1>2, <1>3, <1>5
  <2>2. a - b < Step
    BY <1>1, <1>2, <1>3, <2>1
  <2>3. ~(k < j)
    BY <1>1, <1>2, <1>3, <2>2, MoreIsMore
  <2>4. j = k \/ j < k
    BY <2>3
  <2>5. j < k => Step * j + Step <= Step * k
    BY <1>3, MoreIsMore
  <2>6. a <= b
    BY <1>1, <1>2, <1>3, <2>4, <2>5
  <2> QED BY <2>6
<1>6. a <= b
  BY <1>3, <1>4, <1>5
<1> QED BY <1>6 DEF a, b

RangeRecord ==
    [values : [Handles -> ValueMin..ValueMax + Step], third : BOOLEAN, keySliding : BOOLEAN,
     mouseSliding : BOOLEAN, index : 0..NoHandle, started : BOOLEAN, listening : BOOLEAN,
     delayMet : BOOLEAN, waiting : BOOLEAN, delayed : BOOLEAN, disabled : BOOLEAN]
HandRecord == [button : BOOLEAN, key : BOOLEAN, lost : SUBSET {"button", "key"}]

Sorted(s) == Values(s)[1] <= Values(s)[2]

\* What a slide from s to t may do: a third value stays; as long as there is
\* none, the values are left alone or get into order.
FairSlide(s, t) ==
    /\ s.third => t.third
    /\ WholeSteps => t.third \/ t.values = s.values \/ Sorted(t)

(***************************************************************************)
(* The values have been told unless something slides; what slides does so  *)
(* while the button or the key is down, or its release got lost; and a     *)
(* drag that nobody listens for any more is one whose release got lost.    *)
(***************************************************************************)
ToldUnlessSliding ==
    /\ ~slider.keySliding /\ ~slider.mouseSliding => toldValues = Values(slider)
    /\ slider.keySliding => hand.key \/ "key" \in hand.lost
    /\ slider.mouseSliding => hand.button \/ "button" \in hand.lost
    /\ slider.listening => slider.mouseSliding
    /\ slider.mouseSliding /\ ~slider.listening => "button" \in hand.lost

RangeShape == slider \in RangeRecord /\ hand \in HandRecord /\ strokes \in 0..MaxStrokes
RangeInv == RangeShape /\ ToldUnlessSliding /\ (WholeSteps => HandlesInOrder)

\* What is aligned stays within a step of the range.
LEMMA AlignedInRange ==
  ASSUME NEW v \in Int PROVE TrimAlign(v) \in ValueMin..ValueMax + Step
<1> DEFINE r == (v - ValueMin) % Step
           q == (v - ValueMin) \div Step
<1>1. r \in 0..Step-1 /\ q \in Int /\ v - ValueMin = Step * q + r
  <2> DEFINE x == v - ValueMin
  <2>1. x \in Int /\ Step \in Nat \ {0}
    BY RangeConstants
  <2> HIDE DEF x
  <2>2. x \div Step \in Int /\ x % Step \in 0..Step-1
        /\ x = Step * (x \div Step) + (x % Step)
    BY <2>1, DivMod
  <2> QED BY <2>2 DEF x
<1>2. TrimAlign(v) = IF v <= ValueMin THEN ValueMin
                     ELSE IF v >= ValueMax THEN ValueMax
                     ELSE v - r + (IF 2 * r >= Step THEN Step ELSE 0)
  BY DEF TrimAlign
<1> HIDE DEF r, q
<1>3. Step * q \in Int /\ Step \in Nat \ {0} /\ ValueMin \in Int /\ ValueMax \in Int
      /\ ValueMin < ValueMax
  BY <1>1, RangeConstants
<1>4. v > ValueMin => Step * q >= 0
  <2> SUFFICES ASSUME v > ValueMin PROVE Step * q >= 0
    OBVIOUS
  <2>1. ASSUME q < 0 PROVE FALSE
    <3>1. Step * q + Step <= Step * 0
      BY <1>1, <1>3, <2>1, MoreIsMore
    <3> QED BY <1>1, <1>3, <3>1
  <2>2. q > 0 => Step * 0 + Step <= Step * q
    BY <1>1, <1>3, MoreIsMore
  <2>3. q = 0 => Step * q = 0
    BY <1>3
  <2> QED BY <1>1, <1>3, <2>1, <2>2, <2>3
<1> QED BY <1>1, <1>2, <1>3, <1>4

\* A slide moves one handle, up to the other one, or adds a third value; s is
\* left as it is if not.
LEMMA SlideFields ==
  ASSUME NEW s \in RangeRecord, NEW i, NEW v \in Int, NEW allowed \in BOOLEAN
  PROVE  LET t == SlideHandle(s, i, v, allowed) IN
         /\ t \in RangeRecord
         /\ t.keySliding = s.keySliding /\ t.mouseSliding = s.mouseSliding
         /\ t.index = s.index /\ t.started = s.started /\ t.listening = s.listening
         /\ t.delayMet = s.delayMet /\ t.waiting = s.waiting
         /\ t.delayed = s.delayed /\ t.disabled = s.disabled
         /\ FairSlide(s, t)
<1> DEFINE h == Held(s, i, v)
           a == TrimAlign(h)
           t == SlideHandle(s, i, v, allowed)
<1>1. CASE t = s
  BY <1>1 DEF FairSlide
<1>3. CASE t = [s EXCEPT !.third = TRUE]
  <2> HIDE DEF t
  <2>1. t \in RangeRecord
    BY <1>3 DEF RangeRecord
  <2>2. /\ t.keySliding = s.keySliding /\ t.mouseSliding = s.mouseSliding
        /\ t.index = s.index /\ t.started = s.started /\ t.listening = s.listening
        /\ t.delayMet = s.delayMet /\ t.waiting = s.waiting
        /\ t.delayed = s.delayed /\ t.disabled = s.disabled /\ t.third
    BY <1>3 DEF RangeRecord
  <2> QED BY <2>1, <2>2 DEF FairSlide, t
<1>2. CASE i \in Handles /\ t = [s EXCEPT !.values[i] = a]
  <2>1. i \in Handles /\ t = [s EXCEPT !.values[i] = a]
    BY <1>2
  <2>2. \A j \in Handles : s.values[j] \in Int /\ Values(s)[j] \in Int
                           /\ Values(s)[j] = TrimAlign(s.values[j])
    <3> SUFFICES ASSUME NEW j \in Handles
                 PROVE  s.values[j] \in Int /\ Values(s)[j] \in Int
                        /\ Values(s)[j] = TrimAlign(s.values[j])
      OBVIOUS
    <3>1. s.values[j] \in ValueMin..ValueMax + Step
      BY DEF RangeRecord
    <3>2. s.values[j] \in Int
      BY <3>1, RangeConstants
    <3>3. TrimAlign(s.values[j]) \in Int
      BY <3>2, AlignedInRange, RangeConstants
    <3> QED BY <3>2, <3>3 DEF Values
  <2>3. h \in Int
    BY <2>1, <2>2 DEF Held, Handles, OtherHandle
  <2>4. a \in ValueMin..ValueMax + Step
    BY <2>3, AlignedInRange
  <2> HIDE DEF a, t, h
  <2>5. t \in RangeRecord
    BY <2>1, <2>4 DEF RangeRecord
  <2>6. /\ t.keySliding = s.keySliding /\ t.mouseSliding = s.mouseSliding
        /\ t.index = s.index /\ t.started = s.started /\ t.listening = s.listening
        /\ t.delayMet = s.delayMet /\ t.waiting = s.waiting
        /\ t.delayed = s.delayed /\ t.disabled = s.disabled /\ t.third = s.third
        /\ t.values = [s.values EXCEPT ![i] = a]
    BY <2>1 DEF RangeRecord
  <2>7. WholeSteps /\ ~s.third => Sorted(t)
    <3> SUFFICES ASSUME WholeSteps, ~s.third PROVE Sorted(t)
      OBVIOUS
    <3> DEFINE w == Values(s)[3 - i]
    <3>1. 3 - i \in Handles /\ i \in {1, 2}
      BY <2>1 DEF Handles
    <3>2. s.values \in [Handles -> ValueMin..ValueMax + Step]
      BY DEF RangeRecord
    <3>3. t.values[i] = a /\ t.values[3 - i] = s.values[3 - i]
      BY <2>1, <2>6, <3>1, <3>2
    <3>4. Values(t)[i] = TrimAlign(a) /\ Values(t)[3 - i] = w
      BY <2>1, <2>2, <3>1, <3>3 DEF Values
    <3>5. TrimAlign(a) = a
      BY <2>3, AlignedTwice DEF a
    <3>6. w \in Int /\ TrimAlign(w) = w
      BY <2>2, <3>1, AlignedTwice
    <3>7. i = 1 => h <= w
      BY <2>2, <2>3, <3>1 DEF h, Held, OtherHandle
    <3>8. i = 2 => h >= w
      BY <2>2, <2>3, <3>1 DEF h, Held, OtherHandle
    <3> HIDE DEF w
    <3>9. i = 1 => a <= w
      BY <2>3, <3>6, <3>7, AlignedInOrder DEF a
    <3>10. i = 2 => a >= w
      BY <2>3, <3>6, <3>8, AlignedInOrder DEF a
    <3>11. i = 1 => Values(t)[1] = a /\ Values(t)[2] = w
      BY <3>4, <3>5
    <3>12. i = 2 => Values(t)[2] = a /\ Values(t)[1] = w
      BY <3>4, <3>5
    <3> QED BY <3>1, <3>9, <3>10, <3>11, <3>12 DEF Sorted
  <2>8. FairSlide(s, t)
    BY <2>6, <2>7 DEF FairSlide
  <2> QED BY <2>5, <2>6, <2>8 DEF t
<1>4. t = s \/ t = [s EXCEPT !.third = TRUE] \/ (i \in Handles /\ t = [s EXCEPT !.values[i] = a])
  BY DEF SlideHandle
<1> QED BY <1>1, <1>2, <1>3, <1>4

LEMMA StoppedDragFields ==
  ASSUME NEW s \in RangeRecord
  PROVE  LET t == StoppedDrag(s) IN
         /\ t \in RangeRecord /\ t.values = s.values /\ t.keySliding = s.keySliding
         /\ t.listening = FALSE /\ t.started = FALSE
         /\ t.mouseSliding = (s.mouseSliding /\ ~s.started)
         /\ t.delayed = s.delayed /\ t.disabled = s.disabled /\ t.third = s.third
<1> DEFINE t == StoppedDrag(s)
<1>0. s.started \in BOOLEAN /\ s.mouseSliding \in BOOLEAN
  BY DEF RangeRecord
<1>1. CASE s.started
  <2>1. t = [s EXCEPT !.listening = FALSE, !.started = FALSE,
                      !.mouseSliding = FALSE, !.index = 0]
    BY <1>1 DEF StoppedDrag
  <2> HIDE DEF t
  <2>2. t \in RangeRecord
    <3> DEFINE u == [s EXCEPT !.listening = FALSE, !.started = FALSE]
               w == [u EXCEPT !.mouseSliding = FALSE]
    <3>1. u \in RangeRecord
      BY DEF RangeRecord
    <3> HIDE DEF u
    <3>2. w \in RangeRecord
      BY <3>1 DEF RangeRecord
    <3>3. t = [w EXCEPT !.index = 0]
      BY <2>1 DEF u
    <3> HIDE DEF w
    <3>4. 0 \in 0..NoHandle
      BY DEF NoHandle
    <3> QED BY <3>2, <3>3, <3>4 DEF RangeRecord
  <2>3. /\ t.values = s.values /\ t.keySliding = s.keySliding
        /\ t.listening = FALSE /\ t.started = FALSE /\ t.mouseSliding = FALSE
        /\ t.delayed = s.delayed /\ t.disabled = s.disabled /\ t.third = s.third
    BY <2>1 DEF RangeRecord
  <2> QED BY <1>0, <1>1, <2>2, <2>3 DEF t
<1>2. CASE ~s.started
  <2>1. t = [s EXCEPT !.listening = FALSE]
    BY <1>2 DEF StoppedDrag
  <2> HIDE DEF t
  <2>2. t \in RangeRecord
    BY <2>1 DEF RangeRecord
  <2>3. /\ t.values = s.values /\ t.keySliding = s.keySliding
        /\ t.listening = FALSE /\ t.started = s.started /\ t.mouseSliding = s.mouseSliding
        /\ t.delayed = s.delayed /\ t.disabled = s.disabled /\ t.third = s.third
    BY <2>1 DEF RangeRecord
  <2> QED BY <1>0, <1>2, <2>2, <2>3 DEF t
<1> QED BY <1>1, <1>2

LEMMA RangeStarts == RangeInit => RangeInv
<1> SUFFICES ASSUME RangeInit PROVE RangeInv
  OBVIOUS
<1>1. /\ slider.values = <<ValueMin, ValueMax>>
      /\ slider.keySliding = FALSE /\ slider.mouseSliding = FALSE /\ slider.listening = FALSE
  BY DEF RangeInit
<1>2. slider \in RangeRecord
  <2>1. <<ValueMin, ValueMax>> \in [Handles -> ValueMin..ValueMax + Step]
    BY RangeConstants DEF Handles
  <2>2. 0 \in 0..NoHandle
    BY DEF NoHandle
  <2> QED BY <2>1, <2>2 DEF RangeInit, RangeRecord
<1>3. RangeShape
  BY <1>2, RangeConstants DEF RangeInit, RangeShape, HandRecord
<1>4. ToldUnlessSliding
  BY <1>1 DEF RangeInit, ToldUnlessSliding
<1>5. HandlesInOrder
  <2>1. TrimAlign(ValueMin) = ValueMin /\ TrimAlign(ValueMax) = ValueMax
    BY RangeConstants DEF TrimAlign
  <2>2. Values(slider)[1] = ValueMin /\ Values(slider)[2] = ValueMax
    BY <1>1, <2>1 DEF Values, Handles
  <2> QED BY <2>2, RangeConstants DEF HandlesInOrder
<1> QED BY <1>3, <1>4, <1>5 DEF RangeInv

\* Who slides a handle leaves them in order; who does not leaves the order alone.
LEMMA OrderKept ==
  ASSUME HandlesInOrder, WholeSteps, NEW s, s.values = slider.values, s.third = slider.third,
         Slid(s, slider'), FairSlide(s, slider')
  PROVE  HandlesInOrder'
<1>0. /\ s.third => slider'.third
      /\ slider'.third \/ slider'.values = s.values \/ Sorted(slider')
  BY DEF FairSlide
<1>3. CASE slider'.third
  BY <1>3 DEF HandlesInOrder
<1>1. CASE Sorted(slider')
  BY <1>1 DEF Sorted, HandlesInOrder
<1>2. CASE slider'.values = s.values
  <2>1. Values(slider') = Values(slider)
    BY <1>2 DEF Values
  <2>2. crossed' = (crossed /\ TRUE)
    BY <1>2 DEF Slid
  <2> QED BY <1>0, <2>1, <2>2 DEF HandlesInOrder
<1> QED BY <1>0, <1>1, <1>2, <1>3

LEMMA SameValues ==
  ASSUME NEW s, NEW t, s.values = t.values
  PROVE  Values(s) = Values(t)
  BY DEF Values

\* The button goes down.
LEMMA DownKeeps ==
  ASSUME RangeInv, NEW v \in RangePlaces, NEW handle \in BOOLEAN, NEW hovered \in BOOLEAN,
         NEW start \in BOOLEAN, NEW allowed \in BOOLEAN, Down(v, handle, hovered, start, allowed)
  PROVE  RangeInv'
<1> DEFINE s     == IF slider.started THEN StoppedDrag(slider) ELSE slider
           i     == Closest(s, v)
           taken == ~s.disabled /\ start
           met   == ~s.delayed
           raises == taken /\ Raises(i, handle)
           moved == Taken(s, i, v, handle, hovered, allowed)
<1>0. slider \in RangeRecord /\ hand \in HandRecord /\ strokes \in 0..MaxStrokes
      /\ ToldUnlessSliding /\ (WholeSteps => HandlesInOrder)
  BY DEF RangeInv, RangeShape
<1>1. /\ s \in RangeRecord /\ s.values = slider.values /\ s.keySliding = slider.keySliding
      /\ s.third = slider.third
      /\ slider.started => s.mouseSliding = FALSE
      /\ ~slider.started => s = slider
  BY <1>0, StoppedDragFields
<1>2. /\ slider' = IF ~taken THEN s
                   ELSE IF raises THEN moved
                   ELSE [moved EXCEPT !.delayMet = met, !.started = met,
                                      !.waiting = @ \/ ~met, !.listening = TRUE]
      /\ Slid(s, slider')
      /\ toldValues' = IF slider.started THEN Changed(s, toldValues) ELSE toldValues
      /\ hand' = [hand EXCEPT !.button = TRUE,
                     !.lost = IF raises THEN @ \cup {"button"}
                              ELSE IF slider.started THEN @ \ {"button"} ELSE @]
      /\ strokes' \in 0..MaxStrokes
  BY <1>0, RangeConstants DEF Down, Stroke
<1> HIDE DEF s
<1>3. i \in 0..NoHandle
  BY DEF Closest, NoHandle
<1>4. v \in Int
  BY RangeConstants
<1> HIDE DEF i, raises
<1>b. raises => taken
  BY DEF raises
<1> DEFINE w == [s EXCEPT !.mouseSliding = TRUE, !.index = i]
<1>5. w \in RangeRecord /\ w.values = s.values /\ w.keySliding = s.keySliding
      /\ w.mouseSliding = TRUE /\ w.listening = s.listening /\ w.third = s.third
  BY <1>1, <1>3 DEF RangeRecord
<1>6. moved = w \/ moved = SlideHandle(w, i, v, allowed)
  BY DEF Taken
<1> HIDE DEF w, moved
<1>7. /\ moved \in RangeRecord /\ moved.keySliding = s.keySliding /\ moved.mouseSliding = TRUE
      /\ FairSlide(s, moved)
  BY <1>4, <1>5, <1>6, SlideFields DEF FairSlide
<1>8. ASSUME taken, ~raises
      PROVE  /\ slider' \in RangeRecord /\ slider'.values = moved.values
             /\ slider'.third = moved.third
             /\ slider'.keySliding = s.keySliding
             /\ slider'.mouseSliding = TRUE /\ slider'.listening = TRUE
  <2> HIDE DEF taken
  <2>1. slider' = [moved EXCEPT !.delayMet = met, !.started = met,
                                !.waiting = @ \/ ~met, !.listening = TRUE]
    BY <1>2, <1>8
  <2>2. met \in BOOLEAN
    OBVIOUS
  <2> HIDE DEF met
  <2>3. slider' \in RangeRecord
    BY <1>7, <2>1, <2>2 DEF RangeRecord
  <2> QED BY <1>7, <2>1, <2>3 DEF RangeRecord
<1>9. /\ slider' \in RangeRecord
      /\ FairSlide(s, slider')
  <2> HIDE DEF taken
  <2>1. CASE ~taken
    BY <1>1, <1>2, <1>b, <2>1 DEF FairSlide
  <2>2. CASE raises
    BY <1>2, <1>7, <1>b, <2>2
  <2>3. CASE taken /\ ~raises
    BY <1>7, <1>8, <2>3, SameValues DEF Sorted, FairSlide
  <2> QED BY <2>1, <2>2, <2>3
<1>10. hand' \in HandRecord /\ hand'.button = TRUE /\ hand'.key = hand.key
       /\ hand'.lost = IF raises THEN hand.lost \cup {"button"}
                       ELSE IF slider.started THEN hand.lost \ {"button"} ELSE hand.lost
  <2> HIDE DEF taken
  <2> QED BY <1>0, <1>2 DEF HandRecord
<1>11. ToldUnlessSliding'
  <2> HIDE DEF taken
  <2>1. CASE ~taken
    <3>1. slider' = s
      BY <1>2, <1>b, <2>1
    <3>2. CASE slider.started
      <4>1. toldValues' = IF s.keySliding \/ s.mouseSliding THEN toldValues ELSE Values(s)
        BY <1>2, <3>2 DEF Changed
      <4>2. s.listening = FALSE
        BY <1>0, <3>2, StoppedDragFields DEF s
      <4> QED BY <1>0, <1>1, <1>10, <1>b, <2>1, <3>1, <3>2, <4>1, <4>2 DEF ToldUnlessSliding
    <3>3. CASE ~slider.started
      <4>1. toldValues' = toldValues /\ slider' = slider /\ hand'.lost = hand.lost
        BY <1>1, <1>2, <1>10, <1>b, <2>1, <3>1, <3>3
      <4> QED BY <1>0, <1>10, <4>1 DEF ToldUnlessSliding
    <3> QED BY <3>2, <3>3
  <2>2. CASE raises
    <3>1. slider' = moved /\ "button" \in hand'.lost
      BY <1>2, <1>10, <1>b, <2>2
    <3>2. slider'.mouseSliding = TRUE /\ slider'.keySliding = slider.keySliding
      BY <1>1, <1>7, <3>1
    <3>3. hand.lost \subseteq hand'.lost
      BY <1>10, <2>2
    <3> QED BY <1>0, <1>10, <3>1, <3>2, <3>3 DEF ToldUnlessSliding
  <2>3. CASE taken /\ ~raises
    <3>1. /\ slider'.keySliding = slider.keySliding
          /\ slider'.mouseSliding = TRUE /\ slider'.listening = TRUE
      BY <1>1, <1>8, <2>3
    <3>2. "key" \in hand.lost => "key" \in hand'.lost
      BY <1>10, <2>3
    <3> QED BY <1>0, <1>10, <3>1, <3>2 DEF ToldUnlessSliding
  <2> QED BY <2>1, <2>2, <2>3
<1>12. WholeSteps => HandlesInOrder'
  <2> SUFFICES ASSUME WholeSteps PROVE HandlesInOrder'
    OBVIOUS
  <2> QED BY <1>0, <1>1, <1>2, <1>9, OrderKept
<1> QED BY <1>2, <1>9, <1>10, <1>11, <1>12 DEF RangeInv, RangeShape

\* Flags alone change neither the values nor their order.
LEMMA FlagsKeepOrder ==
  ASSUME HandlesInOrder, slider'.values = slider.values, slider'.third = slider.third,
         crossed' = crossed
  PROVE  HandlesInOrder' /\ Values(slider') = Values(slider)
<1>1. Values(slider') = Values(slider)
  BY SameValues
<1> QED BY <1>1 DEF HandlesInOrder

LEMMA DragKeeps ==
  ASSUME RangeInv, NEW v \in RangePlaces, NEW allowed \in BOOLEAN, DragHandle(v, allowed)
  PROVE  RangeInv'
<1> DEFINE s == [slider EXCEPT !.started = TRUE]
<1>0. slider \in RangeRecord /\ hand \in HandRecord /\ strokes \in 0..MaxStrokes
      /\ ToldUnlessSliding /\ (WholeSteps => HandlesInOrder)
  BY DEF RangeInv, RangeShape
<1>1. /\ slider' = SlideHandle(s, slider.index, v, allowed) /\ Slid(slider, slider')
      /\ hand' = hand /\ toldValues' = toldValues /\ strokes' \in 0..MaxStrokes
      /\ slider.listening
  BY <1>0, RangeConstants DEF DragHandle, Stroke
<1>2. /\ s \in RangeRecord /\ s.values = slider.values /\ s.keySliding = slider.keySliding
      /\ s.mouseSliding = slider.mouseSliding /\ s.listening = slider.listening
      /\ s.third = slider.third
  BY <1>0 DEF RangeRecord
<1> HIDE DEF s
<1>3. v \in Int
  BY RangeConstants
<1>4. /\ slider' \in RangeRecord /\ slider'.keySliding = slider.keySliding
      /\ slider'.mouseSliding = slider.mouseSliding /\ slider'.listening = slider.listening
      /\ FairSlide(slider, slider')
  <2>1. /\ slider' \in RangeRecord /\ slider'.keySliding = s.keySliding
        /\ slider'.mouseSliding = s.mouseSliding /\ slider'.listening = s.listening
        /\ FairSlide(s, slider')
    BY <1>1, <1>2, <1>3, SlideFields
  <2> QED BY <1>2, <2>1 DEF FairSlide
<1>5. ToldUnlessSliding'
  BY <1>0, <1>1, <1>4 DEF ToldUnlessSliding
<1>6. WholeSteps => HandlesInOrder'
  BY <1>0, <1>1, <1>4, OrderKept
<1> QED BY <1>0, <1>1, <1>4, <1>5, <1>6 DEF RangeInv, RangeShape

LEMMA KeyDownKeeps ==
  ASSUME RangeInv, NEW i \in Handles, NEW key \in RangeKeys, NEW start \in BOOLEAN,
         NEW allowed \in BOOLEAN, KeyDown(i, key, start, allowed)
  PROVE  RangeInv'
<1> DEFINE s == [slider EXCEPT !.keySliding = TRUE]
           target == KeyTarget(key, Values(slider)[i])
           may == allowed /\ ~AtEnd(key, Values(slider)[i])
<1>0. slider \in RangeRecord /\ hand \in HandRecord /\ strokes \in 0..MaxStrokes
      /\ ToldUnlessSliding /\ (WholeSteps => HandlesInOrder)
  BY DEF RangeInv, RangeShape
<1>1. /\ slider' \in {s, SlideHandle(s, i, target, may)} /\ Slid(slider, slider')
      /\ hand' = [hand EXCEPT !.key = TRUE]
      /\ toldValues' = toldValues /\ strokes' \in 0..MaxStrokes
  BY <1>0, RangeConstants DEF KeyDown, Stroke
<1>2. /\ s \in RangeRecord /\ s.values = slider.values /\ s.keySliding = TRUE
      /\ s.mouseSliding = slider.mouseSliding /\ s.listening = slider.listening
      /\ s.third = slider.third
  BY <1>0 DEF RangeRecord
<1>3. target \in Int
  <2>1. slider.values[i] \in ValueMin..ValueMax + Step
    BY <1>0 DEF RangeRecord
  <2>2. slider.values[i] \in Int
    BY <2>1, RangeConstants
  <2>3. \A x \in Int : TrimAlign(x) \in Int
    BY AlignedInRange, RangeConstants
  <2>4. Values(slider)[i] \in Int
    BY <2>2, <2>3 DEF Values
  <2> DEFINE n == Values(slider)[i]
  <2>5. n + PageStep \in Int /\ n - PageStep \in Int /\ n + Step \in Int /\ n - Step \in Int
    BY <2>4, RangeConstants
  <2> HIDE DEF n
  <2>6. KeyTarget(key, n) \in {ValueMin, ValueMax, TrimAlign(n + PageStep),
                               TrimAlign(n - PageStep), TrimAlign(n + Step),
                               TrimAlign(n - Step)}
    BY DEF KeyTarget, RangeKeys
  <2>7. KeyTarget(key, n) \in Int
    BY <2>3, <2>5, <2>6, RangeConstants
  <2> QED BY <2>7 DEF n
<1>4. may \in BOOLEAN
  OBVIOUS
<1> HIDE DEF s, target, may
<1>5. /\ slider' \in RangeRecord /\ slider'.keySliding = TRUE
      /\ slider'.mouseSliding = slider.mouseSliding /\ slider'.listening = slider.listening
      /\ FairSlide(slider, slider')
  <2>1. CASE slider' = s
    BY <1>2, <2>1 DEF FairSlide
  <2>2. CASE slider' = SlideHandle(s, i, target, may)
    BY <1>2, <1>3, <1>4, <2>2, SlideFields DEF FairSlide
  <2> QED BY <1>1, <2>1, <2>2
<1>6. hand' \in HandRecord /\ hand'.key = TRUE /\ hand'.button = hand.button
      /\ hand'.lost = hand.lost
  BY <1>0, <1>1 DEF HandRecord
<1>7. ToldUnlessSliding'
  BY <1>0, <1>1, <1>5, <1>6 DEF ToldUnlessSliding
<1>8. WholeSteps => HandlesInOrder'
  BY <1>0, <1>1, <1>5, OrderKept
<1> QED BY <1>1, <1>5, <1>6, <1>7, <1>8 DEF RangeInv, RangeShape

\* What the releases, the timer and the option disabled do.
LEMMA ReleasesKeep ==
  ASSUME RangeInv,
         \/ DragDelayOver \/ ButtonUp \/ UpMissed \/ KeyUp \/ KeyUpElsewhere
         \/ \E d \in BOOLEAN : DisableRange(d)
  PROVE  RangeInv'
<1>0. slider \in RangeRecord /\ hand \in HandRecord /\ strokes \in 0..MaxStrokes
      /\ ToldUnlessSliding /\ (WholeSteps => HandlesInOrder)
  BY DEF RangeInv, RangeShape
<1>h. /\ hand.button \in BOOLEAN /\ hand.key \in BOOLEAN
      /\ hand.lost \subseteq {"button", "key"}
  BY <1>0 DEF HandRecord
<1>f. \A b, k \in BOOLEAN : \A L \in SUBSET {"button", "key"} :
        [hand EXCEPT !.button = b, !.key = k, !.lost = L] \in HandRecord
  BY <1>0 DEF HandRecord
<1>s. ASSUME slider' \in RangeRecord, hand' \in HandRecord, slider'.values = slider.values,
             slider'.third = slider.third, crossed' = crossed, strokes' \in 0..MaxStrokes, ToldUnlessSliding'
      PROVE  RangeInv'
  <2>1. WholeSteps => HandlesInOrder'
    BY <1>0, <1>s, FlagsKeepOrder
  <2> QED BY <1>s, <2>1 DEF RangeInv, RangeShape
<1>1. CASE DragDelayOver
  <2>1. /\ slider' = [slider EXCEPT !.waiting = FALSE, !.delayMet = TRUE]
        /\ UNCHANGED <<hand, toldValues, crossed, strokes>>
    BY <1>1 DEF DragDelayOver
  <2>2. /\ slider' \in RangeRecord /\ slider'.values = slider.values
        /\ slider'.third = slider.third
        /\ slider'.keySliding = slider.keySliding
        /\ slider'.mouseSliding = slider.mouseSliding /\ slider'.listening = slider.listening
    BY <1>0, <2>1 DEF RangeRecord
  <2>3. ToldUnlessSliding'
    BY <1>0, <2>1, <2>2, SameValues DEF ToldUnlessSliding
  <2> QED BY <1>0, <1>s, <2>1, <2>2, <2>3
<1>2. CASE ButtonUp
  <2>1. /\ hand.button
        /\ slider' = IF slider.listening THEN StoppedDrag(slider) ELSE slider
        /\ toldValues' = IF slider.listening /\ slider.started
                         THEN Changed(slider', toldValues) ELSE toldValues
        /\ hand' = [hand EXCEPT !.button = FALSE,
                       !.lost = IF ~slider.listening THEN @
                                ELSE IF slider.started THEN @ \ {"button"}
                                ELSE @ \cup {"button"}]
        /\ UNCHANGED <<crossed, strokes>>
    BY <1>2 DEF ButtonUp
  <2>2. /\ hand' \in HandRecord /\ hand'.button = FALSE /\ hand'.key = hand.key
        /\ hand'.lost = IF ~slider.listening THEN hand.lost
                        ELSE IF slider.started THEN hand.lost \ {"button"}
                        ELSE hand.lost \cup {"button"}
    BY <1>0, <2>1 DEF HandRecord
  <2>3. CASE ~slider.listening
    <3>1. slider' = slider /\ toldValues' = toldValues /\ hand'.lost = hand.lost
      BY <2>1, <2>2, <2>3
    <3>2. ToldUnlessSliding'
      BY <1>0, <2>2, <2>3, <3>1 DEF ToldUnlessSliding
    <3> QED BY <1>0, <1>s, <2>1, <2>2, <3>1, <3>2
  <2>4. CASE slider.listening
    <3>1. /\ slider' \in RangeRecord /\ slider'.values = slider.values
          /\ slider'.third = slider.third
          /\ slider'.keySliding = slider.keySliding
          /\ slider'.listening = FALSE
          /\ slider'.mouseSliding = (slider.mouseSliding /\ ~slider.started)
      BY <1>0, <2>1, <2>4, StoppedDragFields
    <3>2. Values(slider') = Values(slider)
      BY <3>1, SameValues
    <3>3. ToldUnlessSliding'
      <4>1. CASE slider.started
        <5>1. toldValues' = IF slider'.keySliding \/ slider'.mouseSliding THEN toldValues
                            ELSE Values(slider')
          BY <2>1, <2>4, <4>1 DEF Changed
        <5>2. slider'.mouseSliding = FALSE /\ hand'.lost = hand.lost \ {"button"}
          BY <2>2, <2>4, <3>1, <4>1
        <5> QED BY <1>0, <2>2, <3>1, <5>1, <5>2 DEF ToldUnlessSliding
      <4>2. CASE ~slider.started
        <5>1. toldValues' = toldValues /\ hand'.lost = hand.lost \cup {"button"}
          BY <2>1, <2>2, <2>4, <4>2
        <5>2. slider.mouseSliding /\ slider'.mouseSliding
          BY <1>0, <2>4, <3>1, <4>2 DEF ToldUnlessSliding
        <5> QED BY <1>0, <2>2, <3>1, <5>1, <5>2 DEF ToldUnlessSliding
      <4> QED BY <4>1, <4>2
    <3> QED BY <1>0, <1>s, <2>1, <2>2, <3>1, <3>3
  <2> QED BY <2>3, <2>4
<1>3. CASE UpMissed
  <2>1. /\ hand' = [hand EXCEPT !.button = FALSE,
                       !.lost = IF slider.listening THEN @ \cup {"button"} ELSE @]
        /\ UNCHANGED <<slider, toldValues, crossed, strokes>>
    BY <1>3 DEF UpMissed
  <2>2. /\ hand' \in HandRecord /\ hand'.button = FALSE /\ hand'.key = hand.key
        /\ hand'.lost = IF slider.listening THEN hand.lost \cup {"button"} ELSE hand.lost
    BY <1>0, <2>1 DEF HandRecord
  <2>3. ToldUnlessSliding'
    BY <1>0, <2>1, <2>2 DEF ToldUnlessSliding
  <2> QED BY <1>0, <1>s, <2>1, <2>2, <2>3
<1>4. CASE KeyUp
  <2>1. /\ slider' = [slider EXCEPT !.keySliding = FALSE]
        /\ toldValues' = IF slider.keySliding THEN Changed(slider', toldValues) ELSE toldValues
        /\ hand' = [hand EXCEPT !.key = FALSE, !.lost = @ \ {"key"}]
        /\ UNCHANGED <<crossed, strokes>>
    BY <1>4 DEF KeyUp
  <2>2. /\ hand' \in HandRecord /\ hand'.key = FALSE /\ hand'.button = hand.button
        /\ hand'.lost = hand.lost \ {"key"}
    BY <1>0, <2>1 DEF HandRecord
  <2>3. /\ slider' \in RangeRecord /\ slider'.values = slider.values
        /\ slider'.third = slider.third
        /\ slider'.keySliding = FALSE
        /\ slider'.mouseSliding = slider.mouseSliding /\ slider'.listening = slider.listening
    BY <1>0, <2>1 DEF RangeRecord
  <2>4. Values(slider') = Values(slider)
    BY <2>3, SameValues
  <2>5. toldValues' = IF slider.keySliding /\ ~slider'.mouseSliding THEN Values(slider')
                      ELSE toldValues
    BY <2>1, <2>3 DEF Changed
  <2>6. ToldUnlessSliding'
    BY <1>0, <2>2, <2>3, <2>4, <2>5 DEF ToldUnlessSliding
  <2> QED BY <1>0, <1>s, <2>1, <2>2, <2>3, <2>6
<1>5. CASE KeyUpElsewhere
  <2>1. /\ hand' = [hand EXCEPT !.key = FALSE,
                       !.lost = IF slider.keySliding THEN @ \cup {"key"} ELSE @]
        /\ UNCHANGED <<slider, toldValues, crossed, strokes>>
    BY <1>5 DEF KeyUpElsewhere
  <2>2. /\ hand' \in HandRecord /\ hand'.key = FALSE /\ hand'.button = hand.button
        /\ hand'.lost = IF slider.keySliding THEN hand.lost \cup {"key"} ELSE hand.lost
    BY <1>0, <2>1 DEF HandRecord
  <2>3. ToldUnlessSliding'
    BY <1>0, <2>1, <2>2 DEF ToldUnlessSliding
  <2> QED BY <1>0, <1>s, <2>1, <2>2, <2>3
<1>6. ASSUME NEW d \in BOOLEAN, DisableRange(d) PROVE RangeInv'
  <2>1. /\ slider' = [slider EXCEPT !.disabled = d] /\ strokes' \in 0..MaxStrokes
        /\ UNCHANGED <<hand, toldValues, crossed>>
    BY <1>0, <1>6, RangeConstants DEF DisableRange, Stroke
  <2>2. /\ slider' \in RangeRecord /\ slider'.values = slider.values
        /\ slider'.third = slider.third
        /\ slider'.keySliding = slider.keySliding
        /\ slider'.mouseSliding = slider.mouseSliding /\ slider'.listening = slider.listening
    BY <1>0, <2>1 DEF RangeRecord
  <2>3. ToldUnlessSliding'
    BY <1>0, <2>1, <2>2, SameValues DEF ToldUnlessSliding
  <2> QED BY <1>0, <1>s, <2>1, <2>2, <2>3
<1> QED BY <1>1, <1>2, <1>3, <1>4, <1>5, <1>6

\* The page sets the values.
LEMMA SetKeeps ==
  ASSUME RangeInv, NEW s \in RangeRecord, s.keySliding = slider.keySliding,
         s.mouseSliding = slider.mouseSliding, s.listening = slider.listening, Stroke, Set(s)
  PROVE  RangeInv'
<1>0. slider \in RangeRecord /\ hand \in HandRecord /\ strokes \in 0..MaxStrokes
      /\ ToldUnlessSliding
  BY DEF RangeInv, RangeShape
<1>1. /\ slider' = s /\ toldValues' = Changed(s, toldValues)
      /\ crossed' = (Values(s)[1] > Values(s)[2]) /\ hand' = hand
      /\ strokes' \in 0..MaxStrokes
  BY <1>0, RangeConstants DEF Set, Stroke
<1>3. toldValues' = IF s.keySliding \/ s.mouseSliding THEN toldValues ELSE Values(s)
  BY <1>1 DEF Changed
<1>4. ToldUnlessSliding'
  BY <1>0, <1>1, <1>3 DEF ToldUnlessSliding
<1>5. HandlesInOrder'
  <2>1. \A j \in Handles : Values(s)[j] \in Int
    <3> SUFFICES ASSUME NEW j \in Handles PROVE Values(s)[j] \in Int
      OBVIOUS
    <3>1. s.values[j] \in ValueMin..ValueMax + Step
      BY DEF RangeRecord
    <3>2. s.values[j] \in Int
      BY <3>1, RangeConstants
    <3> QED BY <3>2, AlignedInRange, RangeConstants DEF Values
  <2>2. Values(s)[1] \in Int /\ Values(s)[2] \in Int
    BY <2>1 DEF Handles
  <2>3. ASSUME ~crossed' PROVE Values(s)[1] <= Values(s)[2]
    <3>1. ~(Values(s)[1] > Values(s)[2])
      BY <1>1, <2>3, Zenon
    <3> QED BY <2>2, <3>1
  <2>4. Values(slider)' = Values(s)
    BY <1>1 DEF Values
  <2> QED BY <2>3, <2>4 DEF HandlesInOrder
<1> QED BY <1>0, <1>1, <1>4, <1>5 DEF RangeInv, RangeShape

LEMMA RangeSteps == RangeInv /\ [RangeNext]_rangeVars => RangeInv'
<1> SUFFICES ASSUME RangeInv, [RangeNext]_rangeVars PROVE RangeInv'
  OBVIOUS
<1>0. slider \in RangeRecord
  BY DEF RangeInv, RangeShape
<1>1. ASSUME NEW i \in Handles, NEW v \in RangePlaces, SetValue(i, v) PROVE RangeInv'
  <2> DEFINE vals == [slider.values EXCEPT ![i] = TrimAlign(v)]
  <2>1. TrimAlign(v) \in ValueMin..ValueMax + Step
    BY AlignedInRange, RangeConstants
  <2>2. slider.values \in [Handles -> ValueMin..ValueMax + Step]
    BY <1>0 DEF RangeRecord
  <2>3. vals \in [Handles -> ValueMin..ValueMax + Step]
    BY <2>1, <2>2
  <2> DEFINE s == [slider EXCEPT !.values = vals]
  <2>4. [slider EXCEPT !.values[i] = TrimAlign(v)] = s
    OBVIOUS
  <2>5. Stroke /\ Set(s)
    BY <1>1, <2>4 DEF SetValue
  <2> HIDE DEF vals
  <2>6. /\ s \in RangeRecord /\ s.keySliding = slider.keySliding
        /\ s.mouseSliding = slider.mouseSliding /\ s.listening = slider.listening
    BY <1>0, <2>3 DEF RangeRecord
  <2> HIDE DEF s
  <2> QED BY <2>5, <2>6, SetKeeps
<1>2. ASSUME NEW v \in RangePlaces, NEW w \in RangePlaces, SetOption(v, w) PROVE RangeInv'
  <2>1. <<v, w>> \in [Handles -> ValueMin..ValueMax + Step]
    BY RangeConstants DEF Handles
  <2> DEFINE s == [slider EXCEPT !.values = <<v, w>>, !.third = FALSE]
  <2>2. Stroke /\ Set(s)
    BY <1>2 DEF SetOption
  <2>3. /\ s \in RangeRecord /\ s.keySliding = slider.keySliding
        /\ s.mouseSliding = slider.mouseSliding /\ s.listening = slider.listening
    BY <1>0, <2>1 DEF RangeRecord
  <2> HIDE DEF s
  <2> QED BY <2>2, <2>3, SetKeeps
<1>3. CASE UNCHANGED rangeVars
  <2>1. RangeShape' /\ ToldUnlessSliding' /\ (WholeSteps => HandlesInOrder')
    BY <1>3 DEF rangeVars, RangeInv, RangeShape, ToldUnlessSliding, HandlesInOrder
  <2> QED BY <2>1 DEF RangeInv
<1> QED BY <1>1, <1>2, <1>3, DownKeeps, DragKeeps, KeyDownKeeps, ReleasesKeep DEF RangeNext

LEMMA RangeHolds ==
  RangeInv => RangeTypeOK /\ ValuesAreTold /\ (WholeSteps => HandlesInOrder)
<1> SUFFICES ASSUME RangeInv PROVE RangeTypeOK /\ ValuesAreTold
  BY DEF RangeInv
<1>1. RangeTypeOK
  BY DEF RangeInv, RangeShape, RangeTypeOK, RangeRecord, HandRecord
<1>2. ValuesAreTold
  BY DEF RangeInv, ToldUnlessSliding, ValuesAreTold
<1> QED BY <1>1, <1>2

-----------------------------------------------------------------------------
(***************************************************************************)
(* Selectable items.  Who is being selected or unselected is always known  *)
(* to the items' data.  While a drag goes on that began with the widget    *)
(* enabled, the items that the page has heard of are the ones the drag     *)
(* started with, which is why an item the lasso leaves is treated right;   *)
(* and while the key stays as it was, what is selected follows from the    *)
(* place of the mouse.                                                     *)
(***************************************************************************)
RowSets == {"selected", "selecting", "unselecting", "wasSelected", "wasSelecting",
            "wasUnselecting", "startselected"}

RowRecord == [selected : SUBSET Row, selecting : SUBSET Row, unselecting : SUBSET Row,
              wasSelected : SUBSET Row, wasSelecting : SUBSET Row,
              wasUnselecting : SUBSET Row, startselected : SUBSET Row]

LassoRecord == [started : BOOLEAN, opos : Spots, disabled : BOOLEAN,
                autoRefresh : BOOLEAN, fit : BOOLEAN]

DragRecord == [before : SUBSET Row, target : Spots, at : Spots, meta : BOOLEAN,
               pure : BOOLEAN, moved : BOOLEAN, woken : BOOLEAN]

LassoShape ==
    /\ row \in RowRecord /\ lasso \in LassoRecord /\ drag \in DragRecord
    /\ heard \subseteq Row /\ pulls \in 0..MaxPulls

\* The data of the items that are half selected are right.
HalfKnown(r) == r.wasSelecting = r.selecting /\ r.wasUnselecting = r.unselecting

\* An item that was selected at the start is, or is about to be or not to be, and
\* the data know of the ones that are.
StartsKnown(r) ==
    /\ r.startselected \subseteq r.selected \cup r.selecting \cup r.unselecting
    /\ r.selected \subseteq r.wasSelected

\* What the page will have heard at the end of the drag is what is selected.
Told(r, h) ==
    \A i \in Row : i \in r.selecting
                     \/ ((i \in r.selected) <=> (i \in h /\ i \notin r.unselecting))

\* A drag that knows what was selected at its start.
Aware(r, h) ==
    /\ r.startselected = h
    /\ r.selected \subseteq r.wasSelected
    /\ r.selected \cap r.selecting = {}
    /\ r.selected \cap r.unselecting = {}
    /\ r.selecting \cap r.unselecting = {}

Target(d) == {d.target} \cap Row

\* What is selected by a drag with one key, moved or not.
Follows(r, l, d) ==
    /\ r.startselected = d.before /\ l.opos = d.target /\ ~l.disabled
    /\ d.moved => r.selecting = Hits(l.opos, d.at)
    /\ ~d.moved => r.selecting = IF d.meta THEN Target(d) \ d.before ELSE Target(d)
    /\ d.meta => /\ r.selected \subseteq d.before \ Target(d)
                 /\ d.before \ Target(d) \subseteq r.selected \cup r.selecting
                 /\ ~d.moved => r.selected = d.before \ Target(d)
    /\ ~d.meta => r.selected = {}

LassoInv ==
    /\ LassoShape
    /\ HalfKnown(row)
    /\ lasso.autoRefresh \/ StartsKnown(row)
    /\ ~lasso.started => row.selecting = {} /\ row.unselecting = {}
    /\ ~lasso.started => (drag.woken \/ heard = row.selected)
    /\ ~lasso.started => (drag.pure => row.selected = Expected)
    /\ lasso.started => (drag.woken \/ Told(row, heard))
    /\ lasso.started => (lasso.disabled \/ drag.woken \/ Aware(row, heard))
    /\ lasso.started => (drag.pure => Follows(row, lasso, drag))

LEMMA LassoStarts == SelectableInit => LassoInv
<1> SUFFICES ASSUME SelectableInit PROVE LassoInv
  OBVIOUS
<1>1. PICK S \in SUBSET Row : row = Selecting(S) /\ heard = S
  BY DEF SelectableInit
<1>2. /\ lasso.started = FALSE /\ lasso.opos = 0 /\ lasso.disabled = FALSE
      /\ lasso \in [started : {FALSE}, opos : {0}, disabled : {FALSE},
                    autoRefresh : BOOLEAN, fit : BOOLEAN]
  BY DEF SelectableInit
<1>3. 0 \in Spots /\ 0 \in 0..MaxPulls
  BY SelectableAssumption DEF Spots
<1>4. lasso \in LassoRecord
  BY <1>2, <1>3 DEF LassoRecord
<1>5. drag \in DragRecord /\ drag.pure = FALSE
  BY <1>3 DEF SelectableInit, DragRecord
<1>6. row \in RowRecord
  BY <1>1 DEF Selecting, RowRecord
<1>7. HalfKnown(row) /\ StartsKnown(row) /\ row.selecting = {} /\ row.unselecting = {}
      /\ heard = row.selected
  BY <1>1 DEF Selecting, HalfKnown, StartsKnown
<1>8. LassoShape
  BY <1>1, <1>3, <1>4, <1>5, <1>6 DEF LassoShape, SelectableInit
<1> QED BY <1>2, <1>5, <1>7, <1>8 DEF LassoInv

\* What the end of a drag makes of the items.
LEMMA StoppedRowIs ==
  ASSUME NEW r \in RowRecord
  PROVE  /\ StoppedRow(r) \in RowRecord
         /\ StoppedRow(r).selected = r.selected \cup r.selecting
         /\ StoppedRow(r).selecting = {} /\ StoppedRow(r).unselecting = {}
         /\ StoppedRow(r).wasSelected = r.wasSelected \cup r.selecting
         /\ StoppedRow(r).wasSelecting = r.wasSelecting \ r.selecting
         /\ StoppedRow(r).wasUnselecting = r.wasUnselecting \ r.unselecting
         /\ StoppedRow(r).startselected
              = (r.startselected \ r.unselecting) \cup r.selecting
BY DEF StoppedRow, RowRecord

\* The items between two drags.
Resting(r) == r \in RowRecord /\ HalfKnown(r) /\ r.selecting = {} /\ r.unselecting = {}

LEMMA StoppedRests ==
  ASSUME NEW r \in RowRecord, HalfKnown(r)
  PROVE  /\ Resting(StoppedRow(r))
         /\ StartsKnown(r) => StartsKnown(StoppedRow(r))
<1>2. /\ StoppedRow(r) \in RowRecord
      /\ StoppedRow(r).selecting = {} /\ StoppedRow(r).unselecting = {}
  BY StoppedRowIs
<1>4. r.wasSelecting \ r.selecting = {} /\ r.wasUnselecting \ r.unselecting = {}
  BY DEF HalfKnown
<1>1. HalfKnown(StoppedRow(r))
  BY <1>2, <1>4, StoppedRowIs DEF HalfKnown
<1>3. ASSUME StartsKnown(r) PROVE StartsKnown(StoppedRow(r))
  <2>1. (r.startselected \ r.unselecting) \cup r.selecting
          \subseteq r.selected \cup r.selecting
    BY <1>3 DEF StartsKnown
  <2>2. r.selected \cup r.selecting \subseteq r.wasSelected \cup r.selecting
    BY <1>3 DEF StartsKnown
  <2> QED BY <2>1, <2>2, StoppedRowIs DEF StartsKnown
<1> QED BY <1>1, <1>2, <1>3 DEF Resting

LEMMA StoppedTold ==
  ASSUME NEW r \in RowRecord, NEW h \in SUBSET Row, Told(r, h)
  PROVE  StoppedHeard(r, h) = StoppedRow(r).selected
<1>1. r.selected \subseteq Row /\ r.selecting \subseteq Row
  BY DEF RowRecord
<1> QED BY <1>1, StoppedRowIs DEF Told, StoppedHeard

\* What a refresh reads.
LEMMA RefreshedFields ==
  ASSUME NEW r \in RowRecord
  PROVE  /\ Refreshed(r) \in RowRecord
         /\ Refreshed(r).selected = r.selected /\ Refreshed(r).wasSelected = r.selected
         /\ Refreshed(r).selecting = r.selecting /\ Refreshed(r).unselecting = r.unselecting
         /\ HalfKnown(Refreshed(r)) /\ Refreshed(r).startselected = {}
BY DEF Refreshed, RowRecord, HalfKnown

\* What a drag finds: the items, with the key or without.
Marked(r, f, was, meta, t) ==
    /\ f \in RowRecord /\ HalfKnown(f)
    /\ f.startselected = was
    /\ t \in Row => f.selecting = IF meta THEN {t} \ was ELSE {t}
    /\ t \notin Row => f.selecting = {}
    /\ f.selected = IF meta THEN was \ {t} ELSE {}
    /\ f.unselecting = IF meta THEN was \cap {t} ELSE was \ {t}
    /\ r.selected \subseteq r.wasSelected => f.selected \subseteq f.wasSelected

\* The beginning of a drag over items of which the data say what was selected.
LEMMA BegunFields ==
  ASSUME NEW r \in RowRecord, Resting(r), NEW meta \in BOOLEAN, NEW t \in Spots,
         lasso.autoRefresh \/ StartsKnown(r)
  PROVE  Marked(IF lasso.autoRefresh THEN Refreshed(r) ELSE r, LassoStarted(r, meta, t),
                r.selected, meta, t)
<1> DEFINE fresh == IF lasso.autoRefresh THEN Refreshed(r) ELSE r
           was    == fresh.selected
           begun == [fresh EXCEPT !.startselected = @ \cup was]
           freed == IF meta THEN begun
                    ELSE [begun EXCEPT !.selected = {}, !.wasSelected = @ \ was,
                                       !.unselecting = @ \cup was,
                                       !.wasUnselecting = @ \cup was]
<1>1. /\ fresh \in RowRecord /\ HalfKnown(fresh) /\ was = r.selected
      /\ fresh.selecting = {} /\ fresh.unselecting = {}
      /\ fresh.startselected \subseteq was
  <2>1. CASE lasso.autoRefresh
    BY <2>1, RefreshedFields DEF Resting
  <2>2. CASE ~lasso.autoRefresh
    BY <2>2 DEF Resting, StartsKnown
  <2> QED BY <2>1, <2>2
<1>2. fresh.startselected \cup was = was
  BY <1>1
<1>4. LassoStarted(r, meta, t) =
        IF t \notin Row THEN freed
        ELSE IF ~meta \/ t \notin freed.selected
        THEN [freed EXCEPT !.unselecting = @ \ {t}, !.wasUnselecting = @ \ {t},
                           !.selecting = @ \cup {t}, !.wasSelecting = @ \cup {t},
                           !.wasSelected = @ \cup {t}]
        ELSE [freed EXCEPT !.selected = @ \ {t}, !.wasSelected = @ \ {t},
                           !.unselecting = @ \cup {t}, !.wasUnselecting = @ \cup {t},
                           !.wasSelecting = @ \ {t}]
  BY DEF LassoStarted
<1> HIDE DEF fresh
<1>5. /\ was \subseteq Row /\ begun \in RowRecord /\ HalfKnown(begun)
      /\ begun.startselected = was /\ begun.selected = was
      /\ begun.selecting = {} /\ begun.unselecting = {}
      /\ begun.wasSelected = fresh.wasSelected
  BY <1>1, <1>2 DEF RowRecord, HalfKnown
<1> HIDE DEF begun
<1>6. /\ freed \in RowRecord /\ HalfKnown(freed) /\ freed.startselected = was
      /\ freed.selecting = {}
      /\ freed.selected = (IF meta THEN was ELSE {})
      /\ freed.unselecting = (IF meta THEN {} ELSE was)
      /\ fresh.selected \subseteq fresh.wasSelected => freed.selected \subseteq freed.wasSelected
  <2>1. CASE meta
    BY <1>5, <2>1
  <2>2. CASE ~meta
    <3>1. /\ freed.startselected = was /\ freed.selecting = {} /\ freed.selected = {}
          /\ freed.unselecting = was
      BY <1>5, <2>2 DEF RowRecord
    <3>2. HalfKnown(freed)
      BY <1>5, <2>2 DEF RowRecord, HalfKnown
    <3>3. freed \in RowRecord
      BY <1>5, <2>2 DEF RowRecord
    <3> QED BY <2>2, <3>1, <3>2, <3>3
  <2> QED BY <2>1, <2>2
<1> HIDE DEF freed
<1>7. ASSUME t \notin Row PROVE Marked(fresh, LassoStarted(r, meta, t), was, meta, t)
  <2>1. was \ {t} = was /\ was \cap {t} = {}
    BY <1>5, <1>7
  <2> QED BY <1>4, <1>6, <1>7, <2>1 DEF Marked
<1>8. ASSUME t \in Row, ~meta \/ t \notin was
      PROVE  Marked(fresh, LassoStarted(r, meta, t), was, meta, t)
  <2> DEFINE f == [freed EXCEPT !.unselecting = @ \ {t}, !.wasUnselecting = @ \ {t},
                                !.selecting = @ \cup {t}, !.wasSelecting = @ \cup {t},
                                !.wasSelected = @ \cup {t}]
  <2>1. LassoStarted(r, meta, t) = f
    BY <1>4, <1>6, <1>8
  <2>2. /\ f \in RowRecord /\ f.startselected = was /\ f.selecting = {t}
        /\ f.selected = freed.selected /\ f.unselecting = freed.unselecting \ {t}
        /\ f.wasSelected = freed.wasSelected \cup {t}
    BY <1>6, <1>8 DEF RowRecord
  <2>3. HalfKnown(f)
    BY <1>6 DEF RowRecord, HalfKnown
  <2>4. f.selecting = IF meta THEN {t} \ was ELSE {t}
    BY <1>8, <2>2
  <2>5. f.selected = IF meta THEN was \ {t} ELSE {}
    BY <1>6, <1>8, <2>2
  <2>6. f.unselecting = IF meta THEN was \cap {t} ELSE was \ {t}
    BY <1>6, <1>8, <2>2
  <2>7. fresh.selected \subseteq fresh.wasSelected => f.selected \subseteq f.wasSelected
    BY <1>6, <2>2
  <2> HIDE DEF f
  <2> QED BY <1>8, <2>1, <2>2, <2>3, <2>4, <2>5, <2>6, <2>7 DEF Marked
<1>9. ASSUME t \in Row, meta, t \in was
      PROVE  Marked(fresh, LassoStarted(r, meta, t), was, meta, t)
  <2> DEFINE f == [freed EXCEPT !.selected = @ \ {t}, !.wasSelected = @ \ {t},
                                !.unselecting = @ \cup {t}, !.wasUnselecting = @ \cup {t},
                                !.wasSelecting = @ \ {t}]
  <2>1. LassoStarted(r, meta, t) = f
    BY <1>4, <1>6, <1>9
  <2>2. /\ f \in RowRecord /\ f.startselected = was /\ f.selecting = {}
        /\ f.selected = was \ {t} /\ f.unselecting = {t}
        /\ f.wasSelected = freed.wasSelected \ {t}
    BY <1>6, <1>9 DEF RowRecord
  <2>3. HalfKnown(f)
    BY <1>6 DEF RowRecord, HalfKnown
  <2>4. {t} \ was = {} /\ was \cap {t} = {t}
    BY <1>9
  <2>5. fresh.selected \subseteq fresh.wasSelected => f.selected \subseteq f.wasSelected
    BY <1>6, <1>9, <2>2
  <2> HIDE DEF f
  <2> QED BY <1>9, <2>1, <2>2, <2>3, <2>4, <2>5 DEF Marked
<1>10. Marked(fresh, LassoStarted(r, meta, t), was, meta, t)
  BY <1>7, <1>8, <1>9
<1> QED BY <1>1, <1>10 DEF fresh

\* The items that the lasso leaves, the ones that are selected again as they were
\* before, the selected ones it never touched, and who is to be unselected.
LeftOut(r, hit) == r.selecting \ hit
TakenBack(r, hit, meta) == IF meta THEN LeftOut(r, hit) \cap r.startselected ELSE {}
PushedOff(r, hit, meta) ==
    IF meta THEN {} ELSE (r.wasSelected \ hit) \ r.startselected
LeavingNow(r, hit, meta) ==
    ((LeftOut(r, hit) \ TakenBack(r, hit, meta)) \cap r.startselected)
      \cup PushedOff(r, hit, meta)

\* What a movement with the button down makes of the items.
LEMMA DraggedFields ==
  ASSUME NEW r \in RowRecord, HalfKnown(r), NEW hit \in SUBSET Row, NEW meta \in BOOLEAN
  PROVE  /\ Dragged(r, hit, meta) \in RowRecord /\ HalfKnown(Dragged(r, hit, meta))
         /\ Dragged(r, hit, meta).startselected = r.startselected
         /\ Dragged(r, hit, meta).selecting = hit
         /\ Dragged(r, hit, meta).selected
              = ((r.selected \ (hit \cap r.wasSelected)) \cup TakenBack(r, hit, meta))
                  \ PushedOff(r, hit, meta)
         /\ Dragged(r, hit, meta).wasSelected
              = ((r.wasSelected \ hit) \cup TakenBack(r, hit, meta))
                  \ PushedOff(r, hit, meta)
         /\ Dragged(r, hit, meta).unselecting
              = (r.unselecting \ hit) \cup LeavingNow(r, hit, meta)
<1> DEFINE out == Row \ hit
           left == out \cap r.wasSelecting
           back == IF meta THEN left \cap r.startselected ELSE {}
           gone == left \ back
           pushed == IF meta THEN {} ELSE (out \cap r.wasSelected) \ r.startselected
           leaving == (gone \cap r.startselected) \cup pushed
           d == Dragged(r, hit, meta)
<1>1. d = [r EXCEPT
             !.selected = ((@ \ (hit \cap r.wasSelected)) \cup back) \ pushed,
             !.wasSelected = ((@ \ hit) \cup back) \ pushed,
             !.unselecting = (@ \ (hit \cap r.wasUnselecting)) \cup leaving,
             !.wasUnselecting = (@ \ hit) \cup leaving,
             !.selecting = (@ \cup (hit \ r.wasSelecting)) \ left,
             !.wasSelecting = (@ \cup hit) \ left]
  BY DEF Dragged
<1>2. /\ r.selected \subseteq Row /\ r.selecting \subseteq Row /\ r.unselecting \subseteq Row
      /\ r.wasSelected \subseteq Row /\ r.startselected \subseteq Row
      /\ r.wasSelecting = r.selecting /\ r.wasUnselecting = r.unselecting
  BY DEF RowRecord, HalfKnown
<1>3. /\ left = r.selecting \ hit /\ back \subseteq Row
      /\ pushed = (IF meta THEN {} ELSE (r.wasSelected \ hit) \ r.startselected)
      /\ leaving \subseteq Row
  BY <1>2
<1>4. /\ (r.selecting \cup (hit \ r.wasSelecting)) \ left = hit
      /\ (r.wasSelecting \cup hit) \ left = hit
      /\ r.unselecting \ (hit \cap r.wasUnselecting) = r.unselecting \ hit
      /\ r.wasUnselecting \ hit = r.unselecting \ hit
  BY <1>2, <1>3
<1> HIDE DEF d, left, back, pushed, leaving, gone
<1>5. d = [r EXCEPT
             !.selected = ((@ \ (hit \cap r.wasSelected)) \cup back) \ pushed,
             !.wasSelected = ((@ \ hit) \cup back) \ pushed,
             !.unselecting = (r.unselecting \ hit) \cup leaving,
             !.wasUnselecting = (r.unselecting \ hit) \cup leaving,
             !.selecting = hit,
             !.wasSelecting = hit]
  BY <1>1, <1>4
<1>6. /\ d.startselected = r.startselected /\ d.selecting = hit
      /\ d.selected = ((r.selected \ (hit \cap r.wasSelected)) \cup back) \ pushed
      /\ d.wasSelected = ((r.wasSelected \ hit) \cup back) \ pushed
      /\ d.unselecting = (r.unselecting \ hit) \cup leaving
      /\ HalfKnown(d)
  BY <1>5 DEF RowRecord, HalfKnown
<1>7. d \in RowRecord
  <2> DEFINE a == ((r.selected \ (hit \cap r.wasSelected)) \cup back) \ pushed
             b == ((r.wasSelected \ hit) \cup back) \ pushed
             c == (r.unselecting \ hit) \cup leaving
  <2>1. a \subseteq Row /\ b \subseteq Row /\ c \subseteq Row
    BY <1>2, <1>3
  <2>2. d = [r EXCEPT !.selected = a, !.wasSelected = b, !.unselecting = c,
                      !.wasUnselecting = c, !.selecting = hit, !.wasSelecting = hit]
    BY <1>5
  <2> HIDE DEF a, b, c
  <2> QED BY <2>1, <2>2 DEF RowRecord
<1>8. left = LeftOut(r, hit) /\ pushed = PushedOff(r, hit, meta)
  BY <1>3 DEF LeftOut, PushedOff
<1>9. back = TakenBack(r, hit, meta)
  BY <1>8 DEF back, TakenBack
<1>10. leaving = LeavingNow(r, hit, meta)
  BY <1>8, <1>9 DEF leaving, gone, LeavingNow
<1> QED BY <1>6, <1>7, <1>8, <1>9, <1>10 DEF d

LEMMA HitsInRow == ASSUME NEW a \in Spots, NEW b \in Spots PROVE Hits(a, b) \subseteq Row
BY DEF Hits

\* The item a drag begins at stays in the lasso, or out of it.
LEMMA HitsStart ==
  ASSUME NEW a \in Spots, NEW b \in Spots, NEW c \in Spots
  PROVE  a \in Hits(a, b) <=> a \in Hits(a, c)
<1>1. a \in Int /\ b \in Int /\ c \in Int
  BY SelectableAssumption DEF Spots
<1> QED BY <1>1 DEF Hits

\* A drag goes on telling what it knows.
LEMMA DraggedTold ==
  ASSUME NEW r \in RowRecord, HalfKnown(r), NEW hit \in SUBSET Row, NEW meta \in BOOLEAN,
         NEW h \in SUBSET Row, Aware(r, h), Told(r, h)
  PROVE  Aware(Dragged(r, hit, meta), h) /\ Told(Dragged(r, hit, meta), h)
<1> DEFINE d       == Dragged(r, hit, meta)
           back    == TakenBack(r, hit, meta)
           pushed  == PushedOff(r, hit, meta)
           leaving == LeavingNow(r, hit, meta)
<1>1. /\ d.startselected = r.startselected /\ d.selecting = hit
      /\ d.selected = ((r.selected \ (hit \cap r.wasSelected)) \cup back) \ pushed
      /\ d.wasSelected = ((r.wasSelected \ hit) \cup back) \ pushed
      /\ d.unselecting = (r.unselecting \ hit) \cup leaving
  BY DraggedFields
<1>2. /\ r.startselected = h /\ r.selected \subseteq r.wasSelected
      /\ r.selected \cap r.selecting = {} /\ r.selected \cap r.unselecting = {}
      /\ r.selecting \cap r.unselecting = {}
  BY DEF Aware
<1>3. r.selected \ (hit \cap r.wasSelected) = r.selected \ hit
  BY <1>2
<1> HIDE DEF d
<1>4. d.selected = ((r.selected \ hit) \cup back) \ pushed
  BY <1>1, <1>3
<1>5. d.selected \subseteq d.wasSelected
  BY <1>1, <1>2, <1>4
<1>6. d.selected \cap d.selecting = {}
  BY <1>1, <1>4 DEF TakenBack, LeftOut
<1>7. d.selected \cap d.unselecting = {}
  BY <1>1, <1>2, <1>4 DEF LeftOut, TakenBack, PushedOff, LeavingNow
<1>8. d.selecting \cap d.unselecting = {}
  BY <1>1 DEF LeftOut, TakenBack, PushedOff, LeavingNow
<1>9. Aware(d, h)
  BY <1>1, <1>2, <1>5, <1>6, <1>7, <1>8 DEF Aware
<1>10. Told(d, h)
  <2> SUFFICES ASSUME NEW i \in Row, i \notin hit
               PROVE  (i \in d.selected) <=> (i \in h /\ i \notin d.unselecting)
    BY <1>1 DEF Told
  <2>1. i \in r.selecting \/ ((i \in r.selected) <=> (i \in h /\ i \notin r.unselecting))
    BY DEF Told
  <2> QED BY <1>1, <1>2, <1>4, <2>1 DEF LeftOut, TakenBack, PushedOff, LeavingNow
<1> QED BY <1>9, <1>10 DEF d

\* The items that were selected at the start do not get lost.
LEMMA DraggedKnown ==
  ASSUME NEW r \in RowRecord, HalfKnown(r), NEW hit \in SUBSET Row, NEW meta \in BOOLEAN,
         StartsKnown(r)
  PROVE  StartsKnown(Dragged(r, hit, meta))
<1> DEFINE d       == Dragged(r, hit, meta)
           back    == TakenBack(r, hit, meta)
           pushed  == PushedOff(r, hit, meta)
           leaving == LeavingNow(r, hit, meta)
<1>1. /\ d.startselected = r.startselected /\ d.selecting = hit
      /\ d.selected = ((r.selected \ (hit \cap r.wasSelected)) \cup back) \ pushed
      /\ d.unselecting = (r.unselecting \ hit) \cup leaving
  BY DraggedFields
<1>5. d.wasSelected = ((r.wasSelected \ hit) \cup back) \ pushed
  BY DraggedFields
<1> HIDE DEF d
<1>2. r.startselected \subseteq r.selected \cup r.selecting \cup r.unselecting
  BY DEF StartsKnown
<1>3. d.startselected \subseteq d.selected \cup d.selecting \cup d.unselecting
  BY <1>1, <1>2 DEF LeftOut, TakenBack, PushedOff, LeavingNow
<1>4. d.selected \subseteq d.wasSelected
  <2>1. r.selected \subseteq r.wasSelected
    BY DEF StartsKnown
  <2> HIDE DEF back, pushed
  <2> QED BY <1>1, <1>5, <2>1
<1> QED BY <1>3, <1>4 DEF d, StartsKnown

\* What a drag with one key selects follows from where the mouse is.
LEMMA DraggedFollows ==
  ASSUME NEW r \in RowRecord, HalfKnown(r), NEW d \in DragRecord, NEW p \in Spots,
         Follows(r, lasso, d)
  PROVE  Follows(Dragged(r, Hits(lasso.opos, p), d.meta), lasso,
                 [d EXCEPT !.at = p, !.moved = TRUE])
<1> DEFINE e       == [d EXCEPT !.at = p, !.moved = TRUE]
           hit     == Hits(lasso.opos, p)
           x       == Dragged(r, hit, d.meta)
           back    == TakenBack(r, hit, d.meta)
           pushed  == PushedOff(r, hit, d.meta)
<1>1. /\ e.before = d.before /\ e.target = d.target /\ e.meta = d.meta
      /\ e.at = p /\ e.moved /\ d.meta \in BOOLEAN /\ d.at \in Spots /\ d.target \in Spots
  BY DEF DragRecord
<1>2. hit \in SUBSET Row
  BY DEF Hits
<1>3. /\ x.startselected = r.startselected /\ x.selecting = hit
      /\ x.selected = ((r.selected \ (hit \cap r.wasSelected)) \cup back) \ pushed
  <2> DEFINE meta == d.meta
  <2>1. meta \in BOOLEAN
    BY <1>1
  <2> HIDE DEF meta, hit
  <2>2. /\ Dragged(r, hit, meta).startselected = r.startselected
        /\ Dragged(r, hit, meta).selecting = hit
        /\ Dragged(r, hit, meta).selected
             = ((r.selected \ (hit \cap r.wasSelected)) \cup TakenBack(r, hit, meta))
                 \ PushedOff(r, hit, meta)
    BY <1>2, <2>1, DraggedFields
  <2> QED BY <2>2 DEF meta
<1>4. /\ r.startselected = d.before /\ lasso.opos = d.target /\ ~lasso.disabled
      /\ d.moved => r.selecting = Hits(lasso.opos, d.at)
      /\ ~d.moved => r.selecting = IF d.meta THEN Target(d) \ d.before ELSE Target(d)
      /\ d.meta => /\ r.selected \subseteq d.before \ Target(d)
                   /\ d.before \ Target(d) \subseteq r.selected \cup r.selecting
      /\ ~d.meta => r.selected = {}
  BY DEF Follows
<1>5. d.target \in Hits(lasso.opos, d.at) <=> d.target \in hit
  BY <1>1, <1>4, HitsStart
<1>6. Target(e) = Target(d)
  BY <1>1 DEF Target
<1> HIDE DEF x, e, hit
<1>7. ASSUME d.meta
      PROVE  /\ x.selected \subseteq d.before \ Target(d)
             /\ d.before \ Target(d) \subseteq x.selected \cup x.selecting
  <2>1. pushed = {} /\ back = (r.selecting \ hit) \cap d.before
    BY <1>4, <1>7 DEF LeftOut, TakenBack, PushedOff
  <2>2. back \cap Target(d) = {}
    <3>1. CASE d.moved
      BY <1>4, <1>5, <2>1, <3>1 DEF Target
    <3>2. CASE ~d.moved
      BY <1>4, <1>7, <2>1, <3>2
    <3> QED BY <3>1, <3>2
  <2> HIDE DEF back, pushed
  <2>3. x.selected = (r.selected \ (hit \cap r.wasSelected)) \cup back
    BY <1>3, <2>1
  <2>4. x.selected \subseteq d.before \ Target(d)
    BY <1>4, <1>7, <2>1, <2>2, <2>3
  <2>5. d.before \ Target(d) \subseteq x.selected \cup x.selecting
    BY <1>3, <1>4, <1>7, <2>1, <2>3
  <2> QED BY <2>4, <2>5
<1>8. ASSUME ~d.meta PROVE x.selected = {}
  BY <1>3, <1>4, <1>8 DEF TakenBack
<1>9. Follows(x, lasso, e)
  BY <1>1, <1>3, <1>4, <1>6, <1>7, <1>8 DEF Follows, hit
<1> QED BY <1>9 DEF x, e, hit

\* Where a drag is, is what it selects.
LEMMA FollowsExpected ==
  ASSUME row \in RowRecord, drag \in DragRecord, Follows(row, lasso, drag)
  PROVE  row.selected \cup row.selecting = Expected
<1>1. Target(drag) = {drag.target} \cap Row
  BY DEF Target
<1>2. CASE drag.moved /\ drag.meta
  BY <1>1, <1>2 DEF Follows, Expected
<1>3. CASE drag.moved /\ ~drag.meta
  BY <1>1, <1>3 DEF Follows, Expected
<1>4. CASE ~drag.moved /\ drag.meta
  BY <1>1, <1>4 DEF Follows, Expected
<1>5. CASE ~drag.moved /\ ~drag.meta
  BY <1>1, <1>5 DEF Follows, Expected
<1> QED BY <1>2, <1>3, <1>4, <1>5

LEMMA PullCounts ==
  ASSUME pulls \in 0..MaxPulls, Pull
  PROVE  pulls' \in 0..MaxPulls
BY SelectableAssumption DEF Pull

\* The button goes down.
LEMMA PressKeeps ==
  ASSUME LassoInv, NEW p \in Spots, NEW meta \in BOOLEAN, Press(p, meta)
  PROVE  LassoInv'
<1> DEFINE r == IF lasso.started THEN StoppedRow(row) ELSE row
<1>1. /\ row \in RowRecord /\ lasso \in LassoRecord /\ drag \in DragRecord
      /\ heard \subseteq Row /\ HalfKnown(row) /\ pulls' \in 0..MaxPulls
  BY PullCounts DEF LassoInv, LassoShape, Press
<1>2. Resting(r) /\ (lasso.autoRefresh \/ StartsKnown(r))
  <2>1. CASE lasso.started
    BY <1>1, <2>1, StoppedRests DEF LassoInv
  <2>2. CASE ~lasso.started
    BY <1>1, <2>2 DEF LassoInv, Resting
  <2> QED BY <2>1, <2>2
<1>3. heard' \subseteq Row /\ (drag.woken \/ heard' = r.selected)
  <2>1. CASE lasso.started
    <3>1. heard' = StoppedHeard(row, heard)
      BY <2>1 DEF Press
    <3>2. StoppedHeard(row, heard) \subseteq Row
      BY <1>1 DEF StoppedHeard, RowRecord
    <3>3. drag.woken \/ Told(row, heard)
      BY <2>1 DEF LassoInv
    <3> QED BY <1>1, <2>1, <3>1, <3>2, <3>3, StoppedTold
  <2>2. CASE ~lasso.started
    BY <1>1, <2>2 DEF LassoInv, Press
  <2> QED BY <2>1, <2>2
<1>4. /\ row' = IF lasso.disabled THEN r ELSE LassoStarted(r, meta, p)
      /\ drag' = [before |-> r.selected, target |-> p, at |-> p, meta |-> meta,
                  pure |-> ~lasso.disabled, moved |-> FALSE, woken |-> drag.woken]
      /\ lasso' = [lasso EXCEPT !.started = TRUE, !.opos = p]
  BY DEF Press
<1> HIDE DEF r
<1>5. r \in RowRecord /\ r.selected \subseteq Row
  BY <1>2 DEF Resting, RowRecord
<1>6. /\ lasso' \in LassoRecord /\ lasso'.started /\ lasso'.opos = p
      /\ lasso'.disabled = lasso.disabled /\ lasso'.autoRefresh = lasso.autoRefresh
  BY <1>1, <1>4 DEF LassoRecord
<1>7. /\ drag'.before = r.selected /\ drag'.target = p /\ drag'.meta = meta
      /\ drag'.pure = ~lasso.disabled /\ drag'.moved = FALSE /\ drag'.woken = drag.woken
  BY <1>4
<1>8. drag' \in DragRecord
  <2>1. drag.woken \in BOOLEAN /\ (~lasso.disabled) \in BOOLEAN
    BY <1>1 DEF DragRecord
  <2>2. r.selected \in SUBSET Row
    BY <1>5
  <2> QED BY <1>4, <2>1, <2>2 DEF DragRecord
<1>9. CASE lasso.disabled
  <2>1. row' = r
    BY <1>4, <1>9
  <2>2. drag'.woken \/ Told(row', heard')
    BY <1>2, <1>3, <1>7, <2>1 DEF Told, Resting
  <2>3. LassoShape'
    BY <1>1, <1>3, <1>5, <1>6, <1>8, <2>1 DEF LassoShape
  <2>4. HalfKnown(row') /\ (lasso'.autoRefresh \/ StartsKnown(row'))
    BY <1>2, <1>6, <2>1 DEF Resting
  <2> QED BY <1>6, <1>7, <1>9, <2>2, <2>3, <2>4 DEF LassoInv
<1>10. CASE ~lasso.disabled
  <2> DEFINE fresh == IF lasso.autoRefresh THEN Refreshed(r) ELSE r
             f     == LassoStarted(r, meta, p)
             was    == r.selected
  <2>1. row' = f
    BY <1>4, <1>10
  <2>2. Marked(fresh, f, was, meta, p)
    BY <1>2, <1>5, BegunFields
  <2>3. fresh.selected \subseteq fresh.wasSelected
    <3>1. CASE lasso.autoRefresh
      BY <1>5, <3>1, RefreshedFields
    <3>2. CASE ~lasso.autoRefresh
      BY <1>2, <3>2 DEF StartsKnown
    <3> QED BY <3>1, <3>2
  <2> HIDE DEF f, fresh
  <2>4. /\ f \in RowRecord /\ HalfKnown(f) /\ f.startselected = was
        /\ p \in Row => f.selecting = IF meta THEN {p} \ was ELSE {p}
        /\ p \notin Row => f.selecting = {}
        /\ f.selected = IF meta THEN was \ {p} ELSE {}
        /\ f.unselecting = IF meta THEN was \cap {p} ELSE was \ {p}
        /\ f.selected \subseteq f.wasSelected
    BY <2>2, <2>3 DEF Marked
  <2>5. f.selecting = IF meta THEN Target(drag') \ was ELSE Target(drag')
    <3>1. Target(drag') = {p} \cap Row
      BY <1>7 DEF Target
    <3>2. CASE p \in Row
      BY <2>4, <3>1, <3>2
    <3>3. CASE p \notin Row
      BY <2>4, <3>1, <3>3
    <3> QED BY <3>2, <3>3
  <2>6. StartsKnown(f)
    <3>1. CASE p \in Row
      BY <2>4, <3>1 DEF StartsKnown
    <3>2. CASE p \notin Row
      BY <1>5, <2>4, <3>2 DEF StartsKnown
    <3> QED BY <3>1, <3>2
  <2>7. Aware(f, was)
    <3>1. f.selected \cap f.selecting = {} /\ f.selected \cap f.unselecting = {}
      BY <2>4
    <3>2. f.selecting \cap f.unselecting = {}
      BY <2>4
    <3> QED BY <2>4, <3>1, <3>2 DEF Aware
  <2>8. Told(f, was)
    <3> SUFFICES ASSUME NEW i \in Row, i \notin f.selecting
                 PROVE  (i \in f.selected) <=> (i \in was /\ i \notin f.unselecting)
      BY DEF Told
    <3>1. CASE meta
      BY <2>4, <3>1
    <3>2. CASE ~meta
      BY <2>4, <3>2
    <3> QED BY <3>1, <3>2
  <2>9. Follows(row, lasso, drag)'
    <3>1. was \ Target(drag') = was \ {p}
      BY <1>5, <1>7 DEF Target
    <3>2. /\ f.startselected = drag'.before /\ lasso'.opos = drag'.target
          /\ ~lasso'.disabled /\ ~drag'.moved
      BY <1>6, <1>7, <1>10, <2>4
    <3>3. drag'.meta => /\ f.selected \subseteq drag'.before \ Target(drag')
                        /\ drag'.before \ Target(drag') \subseteq f.selected \cup f.selecting
                        /\ ~drag'.moved => f.selected = drag'.before \ Target(drag')
      BY <1>7, <2>4, <3>1
    <3>4. ~drag'.meta => f.selected = {}
      BY <1>7, <2>4
    <3>5. f.selecting = IF drag'.meta THEN Target(drag') \ drag'.before ELSE Target(drag')
      BY <1>7, <2>5
    <3>6. Target(drag)' = Target(drag')
      BY DEF Target
    <3> HIDE DEF was
    <3> QED BY <2>1, <3>2, <3>3, <3>4, <3>5, <3>6 DEF Follows
  <2>10. drag'.woken \/ (Told(row', heard') /\ Aware(row', heard'))
    BY <1>3, <1>7, <2>1, <2>7, <2>8
  <2>11. LassoShape'
    BY <1>1, <1>3, <1>6, <1>8, <2>1, <2>4 DEF LassoShape
  <2>12. HalfKnown(row') /\ StartsKnown(row')
    BY <2>1, <2>4, <2>6
  <2> QED BY <1>6, <2>9, <2>10, <2>11, <2>12 DEF LassoInv
<1> QED BY <1>9, <1>10

\* The mouse moves with the button down.
LEMMA PulledKeeps ==
  ASSUME LassoInv, NEW p \in Spots, NEW meta \in BOOLEAN, Pulled(p, meta)
  PROVE  LassoInv'
<1>1. /\ row \in RowRecord /\ lasso \in LassoRecord /\ drag \in DragRecord
      /\ heard \in SUBSET Row /\ HalfKnown(row) /\ pulls' \in 0..MaxPulls
  BY PullCounts DEF LassoInv, LassoShape, Pulled
<1>2. /\ lasso' = lasso /\ heard' = heard /\ lasso.started
      /\ drag' = [drag EXCEPT !.at = p, !.moved = TRUE, !.pure = @ /\ meta = drag.meta]
  BY DEF Pulled
<1>3. /\ drag' \in DragRecord /\ drag'.woken = drag.woken
      /\ drag'.pure => drag.pure /\ meta = drag.meta
  BY <1>1, <1>2 DEF DragRecord
<1>4. CASE lasso.disabled
  <2>1. row' = row
    BY <1>4 DEF Pulled
  <2>2. ~drag.pure
    BY <1>2, <1>4 DEF LassoInv, Follows
  <2>3. LassoShape'
    BY <1>1, <1>2, <1>3, <2>1 DEF LassoShape
  <2>4. HalfKnown(row)' /\ (lasso.autoRefresh \/ StartsKnown(row))'
    BY <1>2, <2>1 DEF LassoInv, HalfKnown, StartsKnown
  <2>5. (drag.woken \/ Told(row, heard))'
    BY <1>2, <1>3, <2>1 DEF LassoInv, Told
  <2> QED BY <1>2, <1>3, <1>4, <2>2, <2>3, <2>4, <2>5 DEF LassoInv
<1>5. CASE ~lasso.disabled
  <2> DEFINE hit == Hits(lasso.opos, p)
             f   == Dragged(row, hit, meta)
  <2>1. row' = f
    BY <1>5 DEF Pulled
  <2>2. hit \in SUBSET Row
    BY DEF Hits
  <2>3. drag'.pure => Follows(row, lasso, drag)'
    <3>1. SUFFICES ASSUME drag'.pure PROVE Follows(row, lasso, drag)'
      OBVIOUS
    <3> DEFINE e == [drag EXCEPT !.at = p, !.moved = TRUE]
    <3>2. meta = drag.meta /\ Follows(row, lasso, drag)
      BY <1>2, <1>3, <3>1 DEF LassoInv
    <3>3. Follows(f, lasso, e)
      BY <1>1, <3>2, DraggedFollows
    <3>4. /\ drag'.before = e.before /\ drag'.target = e.target /\ drag'.at = e.at
          /\ drag'.meta = e.meta /\ drag'.moved = e.moved
      BY <1>1, <1>2 DEF DragRecord
    <3> HIDE DEF e, f, hit
    <3>5. Target(drag)' = Target(e)
      BY <3>4 DEF Target
    <3>6. Hits(lasso.opos, drag.at)' = Hits(lasso.opos, e.at)
      BY <1>2, <3>4 DEF Hits
    <3> QED BY <1>2, <2>1, <3>3, <3>4, <3>5, <3>6 DEF Follows
  <2> HIDE DEF hit
  <2>4. f \in RowRecord /\ HalfKnown(f)
    BY <1>1, <2>2, DraggedFields
  <2>5. lasso.autoRefresh \/ StartsKnown(f)
    BY <1>1, <2>2, DraggedKnown DEF LassoInv
  <2>6. drag.woken \/ (Aware(f, heard) /\ Told(f, heard))
    BY <1>1, <1>2, <1>5, <2>2, DraggedTold DEF LassoInv
  <2> HIDE DEF f
  <2>7. LassoShape'
    BY <1>1, <1>2, <1>3, <2>1, <2>4 DEF LassoShape
  <2>8. HalfKnown(row)' /\ (lasso.autoRefresh \/ StartsKnown(row))'
    BY <1>2, <2>1, <2>4, <2>5 DEF HalfKnown, StartsKnown
  <2>9. (drag.woken \/ (Aware(row, heard) /\ Told(row, heard)))'
    BY <1>2, <1>3, <2>1, <2>6 DEF Aware, Told
  <2> QED BY <1>2, <2>3, <2>7, <2>8, <2>9 DEF LassoInv
<1> QED BY <1>4, <1>5

\* The button goes up.
LEMMA ReleaseKeeps == ASSUME LassoInv, ReleaseLasso PROVE LassoInv'
<1>1. /\ row \in RowRecord /\ lasso \in LassoRecord /\ drag \in DragRecord
      /\ heard \in SUBSET Row /\ HalfKnown(row) /\ pulls \in 0..MaxPulls
  BY DEF LassoInv, LassoShape
<1>2. /\ lasso.started /\ lasso' = [lasso EXCEPT !.started = FALSE]
      /\ drag' = drag /\ pulls' = pulls
      /\ row' = StoppedRow(row) /\ heard' = StoppedHeard(row, heard)
  BY DEF ReleaseLasso
<1>3. Resting(row') /\ (StartsKnown(row) => StartsKnown(row'))
  BY <1>1, <1>2, StoppedRests
<1>4. /\ lasso' \in LassoRecord /\ ~lasso'.started
      /\ lasso'.opos = lasso.opos /\ lasso'.fit = lasso.fit
      /\ lasso'.autoRefresh = lasso.autoRefresh
  BY <1>1, <1>2 DEF LassoRecord
<1>5. heard' \subseteq Row
  BY <1>1, <1>2 DEF StoppedHeard, RowRecord
<1>6. drag.woken \/ heard' = row'.selected
  BY <1>1, <1>2, StoppedTold DEF LassoInv
<1>7. Expected' = Expected
  BY <1>2, <1>4 DEF Expected, Hits
<1>8. drag.pure => row'.selected = Expected'
  BY <1>1, <1>2, <1>7, StoppedRowIs, FollowsExpected DEF LassoInv
<1>9. LassoShape'
  BY <1>1, <1>2, <1>3, <1>4, <1>5 DEF LassoShape, Resting
<1>10. HalfKnown(row)' /\ (lasso.autoRefresh \/ StartsKnown(row))'
       /\ row'.selecting = {} /\ row'.unselecting = {}
  BY <1>3, <1>4 DEF Resting, HalfKnown, StartsKnown, LassoInv
<1> QED BY <1>2, <1>4, <1>6, <1>8, <1>9, <1>10 DEF LassoInv

\* The page enables or disables the widget.
LEMMA DisableKeeps ==
  ASSUME LassoInv, NEW d \in BOOLEAN, DisableSelectable(d)
  PROVE  LassoInv'
<1>1. /\ row \in RowRecord /\ lasso \in LassoRecord /\ drag \in DragRecord
      /\ heard \in SUBSET Row /\ pulls' \in 0..MaxPulls
  BY PullCounts DEF LassoInv, LassoShape, DisableSelectable
<1>2. /\ lasso' = [lasso EXCEPT !.disabled = d] /\ row' = row /\ heard' = heard
      /\ drag' = [drag EXCEPT !.pure = FALSE, !.woken = @ \/ (lasso.started /\ ~d)]
  BY DEF DisableSelectable
<1>3. /\ lasso' \in LassoRecord /\ lasso'.started = lasso.started
      /\ lasso'.autoRefresh = lasso.autoRefresh /\ lasso'.disabled = d
  BY <1>1, <1>2 DEF LassoRecord
<1>4. /\ drag' \in DragRecord /\ ~drag'.pure
      /\ drag.woken => drag'.woken
      /\ lasso.started /\ ~d => drag'.woken
  BY <1>1, <1>2 DEF DragRecord, LassoRecord
<1>5. LassoShape'
  BY <1>1, <1>2, <1>3, <1>4 DEF LassoShape
<1>6. HalfKnown(row)' /\ (lasso.autoRefresh \/ StartsKnown(row))'
  BY <1>2, <1>3 DEF LassoInv, HalfKnown, StartsKnown
<1>7. ASSUME ~lasso'.started
      PROVE  row'.selecting = {} /\ row'.unselecting = {}
             /\ (drag'.woken \/ heard' = row'.selected)
  BY <1>2, <1>3, <1>4, <1>7 DEF LassoInv
<1>8. ASSUME lasso'.started
      PROVE  (drag.woken \/ Told(row, heard))' /\ (lasso'.disabled \/ drag'.woken)
  BY <1>2, <1>3, <1>4, <1>8 DEF LassoInv, Told
<1> QED BY <1>4, <1>5, <1>6, <1>7, <1>8 DEF LassoInv

\* The page selects an item or removes its selection.
LEMMA PageKeeps ==
  ASSUME LassoInv, NEW i \in Row, PageSelects(i)
  PROVE  LassoInv'
<1> DEFINE S == IF i \in row.selected THEN row.selected \ {i} ELSE row.selected \cup {i}
           r == [row EXCEPT !.selected = S]
<1>1. /\ row \in RowRecord /\ lasso \in LassoRecord /\ drag \in DragRecord
      /\ pulls' \in 0..MaxPulls /\ HalfKnown(row) /\ ~lasso.started
      /\ row.selecting = {} /\ row.unselecting = {}
  BY PullCounts DEF LassoInv, LassoShape, PageSelects
<1>2. /\ row' = (IF lasso.autoRefresh THEN r ELSE Refreshed(r)) /\ heard' = S
      /\ lasso' = lasso /\ drag' = [drag EXCEPT !.pure = FALSE]
  BY DEF PageSelects
<1>3. S \in SUBSET Row
  BY <1>1 DEF RowRecord
<1> HIDE DEF S
<1>4. /\ r \in RowRecord /\ r.selected = S /\ HalfKnown(r)
      /\ r.selecting = {} /\ r.unselecting = {}
  BY <1>1, <1>3 DEF RowRecord, HalfKnown
<1> HIDE DEF r
<1>5. /\ row' \in RowRecord /\ row'.selected = S
      /\ HalfKnown(row') /\ row'.selecting = {} /\ row'.unselecting = {}
  BY <1>2, <1>4, RefreshedFields
<1>6. lasso.autoRefresh \/ StartsKnown(row')
  BY <1>2, <1>4, RefreshedFields DEF StartsKnown
<1>7. drag' \in DragRecord /\ ~drag'.pure
  BY <1>1, <1>2 DEF DragRecord
<1>8. LassoShape'
  BY <1>1, <1>2, <1>3, <1>5, <1>7 DEF LassoShape
<1>9. HalfKnown(row)' /\ (lasso.autoRefresh \/ StartsKnown(row))'
  BY <1>2, <1>5, <1>6 DEF HalfKnown, StartsKnown
<1> QED BY <1>1, <1>2, <1>5, <1>7, <1>8, <1>9 DEF LassoInv

LEMMA LassoSteps == LassoInv /\ [SelectableNext]_selectableVars => LassoInv'
<1> SUFFICES ASSUME LassoInv, [SelectableNext]_selectableVars PROVE LassoInv'
  OBVIOUS
<1>1. CASE UNCHANGED selectableVars
  BY <1>1 DEF selectableVars, LassoInv, LassoShape, HalfKnown, StartsKnown, Told, Aware,
     Follows, Target, Expected, Hits
<1> QED BY <1>1, PressKeeps, PulledKeeps, ReleaseKeeps, DisableKeeps, PageKeeps
        DEF SelectableNext

LEMMA LassoHolds == LassoInv => SelectableTypeOK /\ LassoDecides
<1> SUFFICES ASSUME LassoInv PROVE SelectableTypeOK /\ LassoDecides
  OBVIOUS
<1>1. DOMAIN row = RowSets
  BY DEF LassoInv, LassoShape, RowRecord, RowSets
<1>2. SelectableTypeOK
  BY <1>1 DEF LassoInv, LassoShape, RowRecord, LassoRecord, RowSets, SelectableTypeOK
<1>3. LassoDecides
  BY DEF LassoInv, LassoDecides
<1> QED BY <1>2, <1>3

-----------------------------------------------------------------------------
(***************************************************************************)
(* The field with suggestions.  An unfocused field whose menu is open has a *)
(* timer that will close it, or an excuse; and what the page was told last *)
(* is what the field had when it got the focus, or what it has now.        *)
(***************************************************************************)
FieldRecord == [value : Words, term : Words, previous : Words, focused : BOOLEAN,
                searching : BOOLEAN]
MenuRecord == [visible : BOOLEAN, items : Seq(Words), active : Nat]

\* The record a handler of the field works on.
Handled == [field : FieldRecord, menu : MenuRecord, requests : SUBSET Words,
            loading : BOOLEAN, asked : Words, own : BOOLEAN]

WellMade(n) == n \in Handled /\ n.menu.active <= Len(n.menu.items)

Oddities == {"cut", "hasty", "held", "hushed", "late"}
Excused(S) == S \cap {"hasty", "hushed", "late"} # {}

FieldShape ==
    /\ source \in {"array", "url", "function"}
    /\ WellMade(All)
    /\ closing \in [own : BOOLEAN, lost : Nat, keep : BOOLEAN]
    /\ closing.lost <= inputs
    /\ outside \in BOOLEAN /\ toldTerm \in Words /\ odd \subseteq Oddities
    /\ inputs \in 0..MaxInputs

\* What the last search answer is shown, and is awaited while it is loading;
\* who awaits it without that has cut another search off, as o says.
BooksHold(s, n, o) ==
    /\ s = "array" => n.requests = {}
    /\ s = "url" => n.requests \subseteq {n.asked}
    /\ s # "function" /\ n.loading => n.requests # {}
    /\ s # "function" /\ n.requests # {} => n.loading \/ "cut" \in o
    /\ s # "function" /\ n.menu.visible /\ ~n.loading => n.menu.items = Matches[n.asked]

TimersKnown ==
    /\ field.searching => field.focused
    /\ closing.keep => "held" \in odd
    /\ field.focused /\ closing.own => "hasty" \in odd
    /\ closing.lost > 0 => "hasty" \in odd

WillClose ==
    menu.visible /\ ~field.focused => closing.own \/ closing.lost > 0
                                        \/ "late" \in odd \/ "held" \in odd

\* The page knows what the field had at first, or what it has and will keep.
KnownFirst == toldTerm = field.previous
KnownNow == /\ ~field.focused /\ ~closing.own /\ closing.lost = 0 /\ ~menu.visible
            /\ toldTerm = field.value

WillTell ==
    \/ Excused(odd)
    \/ /\ KnownFirst \/ KnownNow
       /\ field.focused \/ closing.own \/ "held" \in odd \/ toldTerm = field.value

FieldInv == FieldShape /\ BooksHold(source, All, odd) /\ TimersKnown /\ WillClose /\ WillTell

LEMMA WordsOk ==
  /\ NoText \in Words /\ MaxInputs \in Nat
  /\ \A w \in Words : Matches[w] \in Seq(Words)
BY AutocompleteAssumption

LEMMA FieldStarts == AutocompleteInit => FieldInv
<1> SUFFICES ASSUME AutocompleteInit PROVE FieldInv
  OBVIOUS
<1>1. /\ field \in FieldRecord /\ menu \in MenuRecord /\ menu.active = 0
      /\ menu.visible = FALSE /\ menu.items = <<>>
      /\ field.focused = FALSE /\ field.searching = FALSE /\ field.value = NoText
      /\ field.previous = NoText /\ toldTerm = NoText
  BY WordsOk DEF AutocompleteInit, FieldRecord, MenuRecord
<1>2. All \in Handled /\ All.menu = menu /\ All.requests = {} /\ All.loading = FALSE
  BY <1>1, WordsOk DEF AutocompleteInit, All, Handled
<1>3. Len(menu.items) = 0
  BY <1>1
<1>4. WellMade(All)
  BY <1>1, <1>2, <1>3 DEF WellMade
<1>5. FieldShape
  <2>1. /\ closing \in [own : BOOLEAN, lost : Nat, keep : BOOLEAN] /\ closing.lost = 0
        /\ source \in {"array", "url", "function"}
    BY DEF AutocompleteInit
  <2>2. inputs = 0 /\ outside \in BOOLEAN /\ toldTerm \in Words /\ odd = {}
    BY <1>1, WordsOk DEF AutocompleteInit
  <2>3. inputs \in 0..MaxInputs /\ closing.lost <= inputs
    BY <2>1, <2>2, WordsOk
  <2>4. odd \subseteq Oddities
    BY <2>2
  <2> QED BY <1>4, <2>1, <2>2, <2>3, <2>4 DEF FieldShape
<1>6. BooksHold(source, All, odd)
  BY <1>1, <1>2 DEF BooksHold
<1>7. TimersKnown /\ WillClose /\ WillTell
  BY <1>1 DEF AutocompleteInit, TimersKnown, WillClose, WillTell, KnownFirst
<1> QED BY <1>5, <1>6, <1>7 DEF FieldInv

\* What the steps of a handler leave of the record.
LEMMA AllFields ==
  /\ All.field = field /\ All.menu = menu /\ All.requests = requests
  /\ All.loading = loading /\ All.asked = askedTerm /\ All.own = closing.own
BY DEF All

LEMMA ShutIs ==
  ASSUME NEW n \in Handled
  PROVE  /\ Shut(n) \in Handled /\ Shut(n).field = n.field /\ Shut(n).own = FALSE
         /\ Shut(n).menu.visible = FALSE /\ Shut(n).menu.items = n.menu.items
         /\ Shut(n).menu.active \in {0, n.menu.active}
         /\ Shut(n).requests = n.requests /\ Shut(n).loading = n.loading
         /\ Shut(n).asked = n.asked
<1>1. n.menu \in MenuRecord
  BY DEF Handled
<1> DEFINE a == IF n.menu.visible THEN 0 ELSE n.menu.active
           m == [n.menu EXCEPT !.visible = FALSE, !.active = a]
<1>2. Shut(n) = [n EXCEPT !.own = FALSE, !.menu = m]
  BY <1>1 DEF Shut, Handled, MenuRecord
<1>3. m \in MenuRecord /\ m.visible = FALSE /\ m.items = n.menu.items
      /\ m.active \in {0, n.menu.active}
  BY <1>1 DEF MenuRecord
<1> HIDE DEF m
<1> QED BY <1>2, <1>3 DEF Handled

LEMMA DeactivatedIs ==
  ASSUME NEW n \in Handled
  PROVE  /\ Deactivated(n) \in Handled /\ Deactivated(n).own = n.own
         /\ Deactivated(n).menu.visible = n.menu.visible
         /\ Deactivated(n).menu.items = n.menu.items /\ Deactivated(n).menu.active = 0
         /\ Deactivated(n).field.focused = n.field.focused
         /\ Deactivated(n).field.searching = n.field.searching
         /\ Deactivated(n).field.previous = n.field.previous
         /\ Deactivated(n).requests = n.requests /\ Deactivated(n).loading = n.loading
         /\ Deactivated(n).asked = n.asked
<1>1. n.menu \in MenuRecord /\ n.field \in FieldRecord
  BY DEF Handled
<1>2. CASE n.menu.active = 0
  BY <1>2 DEF Deactivated
<1>3. CASE n.menu.active # 0
  <2> DEFINE m == [n.menu EXCEPT !.active = 0]
             f == [n.field EXCEPT !.value = TermRestored(n)]
  <2>1. Deactivated(n) = [n EXCEPT !.menu = m, !.field = f]
    BY <1>1, <1>3 DEF Deactivated, Handled, MenuRecord, FieldRecord
  <2>2. TermRestored(n) \in Words
    BY <1>1 DEF TermRestored, FieldRecord
  <2>3. m \in MenuRecord /\ m.visible = n.menu.visible /\ m.items = n.menu.items /\ m.active = 0
    BY <1>1 DEF MenuRecord
  <2>4. /\ f \in FieldRecord /\ f.focused = n.field.focused
        /\ f.searching = n.field.searching /\ f.previous = n.field.previous
    BY <1>1, <2>2 DEF FieldRecord
  <2> HIDE DEF m, f
  <2> QED BY <2>1, <2>3, <2>4 DEF Handled
<1> QED BY <1>2, <1>3

\* What an answer with items makes of a record n: the record m.
Answers(n, items, m) ==
    /\ WellMade(m) /\ m.loading = FALSE
    /\ m.requests = n.requests /\ m.asked = n.asked
    /\ m.field.focused = n.field.focused
    /\ m.field.searching = n.field.searching
    /\ m.field.previous = n.field.previous
    /\ items = <<>> => m.own = FALSE /\ m.menu.visible = FALSE /\ m.field = n.field
    /\ items # <<>> => m.own = n.own /\ m.menu.visible = TRUE /\ m.menu.items = items

LEMMA RespondedIs ==
  ASSUME NEW n, WellMade(n), NEW items \in Seq(Words)
  PROVE  Answers(n, items, Responded(n, items))
<1> DEFINE m == Responded(n, items)
<1>1. n \in Handled /\ n.menu.active <= Len(n.menu.items) /\ n.menu \in MenuRecord
      /\ n.menu.active \in Nat
  BY DEF WellMade, Handled, MenuRecord
<1>2. CASE items = <<>>
  <2>1. m = [Shut(n) EXCEPT !.loading = FALSE]
    BY <1>2 DEF Responded
  <2> HIDE DEF m
  <2>2. Shut(n).menu.active <= Len(Shut(n).menu.items)
    <3>1. Len(n.menu.items) \in Nat
      BY <1>1 DEF MenuRecord
    <3>2. Shut(n).menu.items = n.menu.items /\ Shut(n).menu.active \in {0, n.menu.active}
      BY <1>1, ShutIs
    <3> QED BY <1>1, <3>1, <3>2
  <2> DEFINE k == Shut(n)
  <2>3. /\ k \in Handled /\ k.field = n.field /\ k.own = FALSE
        /\ k.menu.visible = FALSE /\ k.requests = n.requests /\ k.asked = n.asked
        /\ k.menu.active <= Len(k.menu.items)
    BY <1>1, <2>2, ShutIs
  <2> HIDE DEF k
  <2>4. /\ m \in Handled /\ m.field = k.field /\ m.own = k.own /\ m.menu = k.menu
        /\ m.loading = FALSE /\ m.requests = k.requests /\ m.asked = k.asked
    <3>1. m = [k EXCEPT !.loading = FALSE]
      BY <2>1 DEF k
    <3> QED BY <2>3, <3>1 DEF Handled
  <2> QED BY <1>2, <2>3, <2>4 DEF WellMade, Answers, m
<1>3. CASE items # <<>>
  <2> DEFINE v == [n.menu EXCEPT !.items = items]
             k == [n EXCEPT !.menu.items = items]
             d == Deactivated(k)
             w == [d.menu EXCEPT !.visible = TRUE]
  <2>1. k = [n EXCEPT !.menu = v]
    BY <1>1 DEF Handled
  <2>2. v \in MenuRecord /\ v.items = items /\ v.active = n.menu.active
    BY <1>1 DEF MenuRecord
  <2>3. /\ k \in Handled /\ k.menu = v /\ k.field = n.field /\ k.own = n.own
        /\ k.requests = n.requests /\ k.asked = n.asked
    <3> HIDE DEF v, k
    <3> QED BY <1>1, <2>1, <2>2 DEF Handled
  <2> HIDE DEF v, k
  <2>4. /\ d \in Handled /\ d.own = n.own /\ d.menu.items = items /\ d.menu.active = 0
        /\ d.field.focused = n.field.focused /\ d.field.searching = n.field.searching
        /\ d.field.previous = n.field.previous
        /\ d.requests = n.requests /\ d.asked = n.asked
    BY <2>2, <2>3, DeactivatedIs
  <2> HIDE DEF d
  <2>5. d.menu \in MenuRecord
    BY <2>4 DEF Handled
  <2>6. w \in MenuRecord /\ w.visible = TRUE /\ w.items = items /\ w.active = 0
    BY <2>4, <2>5 DEF MenuRecord
  <2>7. m = [d EXCEPT !.menu = w, !.loading = FALSE]
    <3>1. [d EXCEPT !.menu.visible = TRUE, !.loading = FALSE]
            = [d EXCEPT !.menu = w, !.loading = FALSE]
      BY <2>4 DEF Handled
    <3> QED BY <1>3, <3>1 DEF Responded, d, k
  <2> HIDE DEF w, m
  <2>8. /\ m \in Handled /\ m.menu = w /\ m.loading = FALSE /\ m.own = d.own
        /\ m.field = d.field /\ m.requests = d.requests /\ m.asked = d.asked
    BY <2>4, <2>6, <2>7 DEF Handled
  <2>9. Len(items) \in Nat
    OBVIOUS
  <2>10. WellMade(m)
    BY <2>6, <2>8, <2>9 DEF WellMade
  <2> QED BY <1>3, <2>4, <2>6, <2>8, <2>10 DEF Answers, m
<1> QED BY <1>2, <1>3

\* What cutting off the request on its way leaves of a record g.
CutKeeps(g, c, back) ==
    /\ WellMade(c) /\ c.own = FALSE /\ c.asked = g.asked
    /\ c.field.focused = g.field.focused /\ c.field.searching = g.field.searching
    /\ c.field.previous = g.field.previous
    /\ c.loading \/ (CutsOff(g, back) /\ c.menu.visible = FALSE)

LEMMA CutIs ==
  ASSUME NEW g, WellMade(g), g.own = FALSE, g.loading = TRUE, NEW back \in BOOLEAN
  PROVE  CutKeeps(g, CutShort(g, back), back)
<1>1. CutShort(g, back) = IF CutsOff(g, back) THEN Responded(g, <<>>) ELSE g
  BY DEF CutShort
<1>2. Answers(g, <<>>, Responded(g, <<>>))
  <2>1. <<>> \in Seq(Words)
    OBVIOUS
  <2> QED BY <2>1, RespondedIs
<1> QED BY <1>1, <1>2 DEF Answers, CutKeeps

\* What a search makes of a record n and of odd.
SearchOdd(n, back) ==
    IF n.field.value = NoText THEN odd
    ELSE IF CutsOff(n, back) THEN odd \cup {"cut"} ELSE odd \ {"cut"}
Searches(n, m, o) ==
    /\ WellMade(m) /\ BooksHold(source, m, o) /\ m.own = FALSE
    /\ m.field.focused = n.field.focused
    /\ m.field.searching = n.field.searching
    /\ m.field.previous = n.field.previous

LEMMA SearchedIs ==
  ASSUME NEW n, WellMade(n), BooksHold(source, n, odd), source \in {"array", "url", "function"},
         NEW back \in BOOLEAN
  PROVE  Searches(n, Searched(n, back), SearchOdd(n, back))
<1> DEFINE m == Searched(n, back)
           o == SearchOdd(n, back)
<1> DEFINE t    == n.field.value
           f    == [n.field EXCEPT !.term = t]
           term == [n EXCEPT !.field.term = t]
           go   == [term EXCEPT !.own = FALSE, !.loading = TRUE, !.asked = t]
<1>1. n \in Handled /\ n.field \in FieldRecord /\ t \in Words /\ n.menu \in MenuRecord
      /\ n.menu.active <= Len(n.menu.items)
  BY DEF WellMade, Handled, FieldRecord
<1>2. /\ f \in FieldRecord /\ f.focused = n.field.focused
      /\ f.searching = n.field.searching /\ f.previous = n.field.previous
  BY <1>1 DEF FieldRecord
<1>3. term = [n EXCEPT !.field = f]
  BY <1>1 DEF Handled
<1>4. /\ term \in Handled /\ term.field = f /\ term.menu = n.menu
      /\ term.requests = n.requests /\ term.loading = n.loading /\ term.asked = n.asked
  <2> HIDE DEF f, term
  <2> QED BY <1>1, <1>2, <1>3 DEF Handled
<1>5. m = IF t = NoText THEN Shut(term)
                    ELSE CASE source = "array"    -> Responded(go, Matches[t])
                           [] source = "url"      -> [CutShort(go, back) EXCEPT !.requests = {t}]
                           [] source = "function" -> [go EXCEPT !.requests = @ \cup {t}]
  BY DEF Searched
<1>o. o = IF t = NoText THEN odd ELSE IF CutsOff(n, back) THEN odd \cup {"cut"} ELSE odd \ {"cut"}
  BY DEF SearchOdd
<1> HIDE DEF f, term, m, o
<1>6. /\ go \in Handled /\ go.field = f /\ go.menu = n.menu /\ go.own = FALSE
      /\ go.loading = TRUE /\ go.asked = t /\ go.requests = n.requests
  <2> HIDE DEF t
  <2> QED BY <1>1, <1>4 DEF Handled
<1> HIDE DEF go
<1>7. WellMade(go)
  BY <1>1, <1>6 DEF WellMade
<1>8. ASSUME t = NoText PROVE Searches(n, m, o)
  <2>1. m = Shut(term)
    BY <1>5, <1>8
  <2>2. /\ m \in Handled /\ m.field = f /\ m.own = FALSE /\ m.menu.visible = FALSE
        /\ m.menu.items = n.menu.items /\ m.menu.active \in {0, n.menu.active}
        /\ m.requests = n.requests /\ m.loading = n.loading /\ m.asked = n.asked
    BY <1>4, <2>1, ShutIs
  <2>3. WellMade(m)
    BY <1>1, <2>2 DEF WellMade, MenuRecord
  <2>4. BooksHold(source, m, o)
    BY <1>o, <1>8, <2>2 DEF BooksHold
  <2> QED BY <1>2, <2>2, <2>3, <2>4 DEF Searches
<1>9. ASSUME t # NoText, source = "array" PROVE Searches(n, m, o)
  <2>1. m = Responded(go, Matches[t])
    BY <1>5, <1>9
  <2>2. Matches[t] \in Seq(Words)
    BY <1>1, WordsOk
  <2>3. /\ WellMade(m) /\ m.loading = FALSE /\ m.requests = n.requests /\ m.asked = t
        /\ m.field.focused = f.focused /\ m.field.searching = f.searching
        /\ m.field.previous = f.previous
        /\ Matches[t] = <<>> => m.own = FALSE /\ m.menu.visible = FALSE
        /\ Matches[t] # <<>> => m.own = FALSE /\ m.menu.items = Matches[t]
    <3>1. Answers(go, Matches[t], m)
      BY <1>7, <2>1, <2>2, RespondedIs
    <3> QED BY <1>6, <3>1 DEF Answers
  <2>4. m.requests = {}
    BY <1>9, <2>3 DEF BooksHold
  <2>5. BooksHold(source, m, o)
    BY <1>9, <2>3, <2>4 DEF BooksHold
  <2> QED BY <1>2, <2>3, <2>5 DEF Searches
<1>10. ASSUME t # NoText, source = "url" PROVE Searches(n, m, o)
  <2> DEFINE c == CutShort(go, back)
  <2>1. m = [c EXCEPT !.requests = {t}]
    BY <1>5, <1>10
  <2>2. /\ WellMade(c) /\ c.own = FALSE /\ c.asked = t
        /\ c.field.focused = f.focused /\ c.field.searching = f.searching
        /\ c.field.previous = f.previous
        /\ c.loading \/ (CutsOff(n, back) /\ c.menu.visible = FALSE)
    <3>1. CutKeeps(go, c, back)
      BY <1>6, <1>7, CutIs
    <3>2. CutsOff(go, back) = CutsOff(n, back)
      BY <1>6 DEF CutsOff
    <3> QED BY <1>6, <3>1, <3>2 DEF CutKeeps
  <2> HIDE DEF c
  <2>3. /\ m \in Handled /\ m.field = c.field /\ m.own = FALSE /\ m.menu = c.menu
        /\ m.requests = {t} /\ m.loading = c.loading /\ m.asked = t
    <3>1. {t} \in SUBSET Words
      BY <1>1
    <3> QED BY <2>1, <2>2, <3>1 DEF WellMade, Handled
  <2>4. CutsOff(n, back) => "cut" \in o
    BY <1>o, <1>10
  <2>5. WellMade(m) /\ BooksHold(source, m, o)
    BY <1>10, <2>2, <2>3, <2>4 DEF WellMade, BooksHold
  <2> QED BY <1>2, <2>2, <2>3, <2>5 DEF Searches
<1>11. ASSUME t # NoText, source = "function" PROVE Searches(n, m, o)
  <2>1. m = [go EXCEPT !.requests = @ \cup {t}]
    BY <1>5, <1>11
  <2>2. m \in Handled /\ m.field = f /\ m.own = FALSE /\ m.menu = n.menu
    <3>1. go.requests \cup {t} \in SUBSET Words
      BY <1>1, <1>6 DEF Handled
    <3> QED BY <1>6, <2>1, <3>1 DEF Handled
  <2>3. WellMade(m) /\ BooksHold(source, m, o)
    BY <1>1, <1>11, <2>2 DEF WellMade, BooksHold
  <2> QED BY <1>2, <2>2, <2>3 DEF Searches
<1>12. Searches(n, m, o)
  BY <1>8, <1>9, <1>10, <1>11
<1> QED BY <1>12 DEF m, o

-----------------------------------------------------------------------------
\* What moving about in the menu leaves as it was.
SameBooks(n, m) ==
    /\ WellMade(m) /\ m.own = n.own
    /\ m.menu.visible = n.menu.visible /\ m.menu.items = n.menu.items
    /\ m.requests = n.requests /\ m.loading = n.loading /\ m.asked = n.asked
    /\ m.field.focused = n.field.focused /\ m.field.previous = n.field.previous
    /\ m.field.searching = n.field.searching

LEMMA BooksStay ==
  ASSUME NEW s, NEW n, NEW m, NEW o, SameBooks(n, m), BooksHold(s, n, o)
  PROVE  BooksHold(s, m, o)
BY DEF SameBooks, BooksHold

LEMMA DeactivatedKeeps ==
  ASSUME NEW n, WellMade(n)
  PROVE  SameBooks(n, Deactivated(n))
<1>1. n \in Handled /\ n.menu \in MenuRecord
  BY DEF WellMade, Handled
<1>2. Len(n.menu.items) \in Nat
  BY <1>1 DEF MenuRecord
<1> QED BY <1>1, <1>2, DeactivatedIs DEF SameBooks, WellMade

LEMMA ActivatedKeeps ==
  ASSUME NEW n, WellMade(n), NEW i \in 1..Len(n.menu.items), NEW key \in BOOLEAN
  PROVE  SameBooks(n, Activated(n, i, key))
<1> DEFINE d == Deactivated(n)
           v == IF key THEN d.menu.items[i] ELSE d.field.value
           f == [d.field EXCEPT !.value = v]
           w == [d.menu EXCEPT !.active = i]
           m == Activated(n, i, key)
<1>1. SameBooks(n, d)
  BY DeactivatedKeeps
<1>2. m = [d EXCEPT !.menu.active = i, !.field.value = v]
  BY DEF Activated
<1> HIDE DEF d, m
<1>3. d \in Handled /\ d.menu \in MenuRecord /\ d.field \in FieldRecord
  BY <1>1 DEF SameBooks, WellMade, Handled
<1>4. d.menu.items \in Seq(Words) /\ i \in 1..Len(d.menu.items) /\ i \in Nat
  <2>1. d.menu.items = n.menu.items
    BY <1>1 DEF SameBooks
  <2>2. d.menu.items \in Seq(Words)
    BY <1>3 DEF MenuRecord
  <2> QED BY <2>1, <2>2
<1>5. v \in Words
  <2>1. d.menu.items[i] \in Words
    BY <1>4
  <2> QED BY <1>3, <2>1 DEF FieldRecord
<1> HIDE DEF v
<1>6. m = [d EXCEPT !.menu = w, !.field = f]
  BY <1>2, <1>3 DEF Handled
<1>7. w \in MenuRecord /\ w.visible = d.menu.visible /\ w.items = d.menu.items /\ w.active = i
  BY <1>3, <1>4 DEF MenuRecord
<1>8. /\ f \in FieldRecord /\ f.focused = d.field.focused
      /\ f.searching = d.field.searching /\ f.previous = d.field.previous
  BY <1>3, <1>5 DEF FieldRecord
<1> HIDE DEF w, f
<1>9. /\ m \in Handled /\ m.menu = w /\ m.field = f /\ m.own = d.own
      /\ m.requests = d.requests /\ m.loading = d.loading /\ m.asked = d.asked
  BY <1>3, <1>6, <1>7, <1>8 DEF Handled
<1>10. WellMade(m)
  <2>1. m.menu.active = i /\ m.menu.items = d.menu.items
    BY <1>7, <1>9
  <2> QED BY <1>4, <1>9, <2>1 DEF WellMade
<1>11. SameBooks(n, m)
  BY <1>1, <1>7, <1>8, <1>9, <1>10 DEF SameBooks
<1> QED BY <1>11 DEF m

\* What closing makes of a record, and what choosing an item does.
Closes(n, m) ==
    /\ WellMade(m) /\ m.own = FALSE /\ m.menu.visible = FALSE
    /\ m.requests = n.requests /\ m.loading = n.loading /\ m.asked = n.asked
    /\ m.field.previous = n.field.previous /\ m.field.searching = n.field.searching

LEMMA ClosedHold ==
  ASSUME NEW s, NEW n, NEW m, NEW o, Closes(n, m), BooksHold(s, n, o)
  PROVE  BooksHold(s, m, o)
BY DEF Closes, BooksHold

LEMMA ShutCloses ==
  ASSUME NEW n, WellMade(n)
  PROVE  Closes(n, Shut(n)) /\ Shut(n).field = n.field
<1>1. n \in Handled /\ n.menu \in MenuRecord /\ n.menu.active <= Len(n.menu.items)
  BY DEF WellMade, Handled
<1>2. Len(n.menu.items) \in Nat /\ n.menu.active \in Nat
  BY <1>1 DEF MenuRecord
<1>3. /\ Shut(n).menu.items = n.menu.items
      /\ Shut(n).menu.active \in {0, n.menu.active}
  BY <1>1, ShutIs
<1>4. Shut(n).menu.active <= Len(Shut(n).menu.items)
  BY <1>1, <1>2, <1>3
<1> QED BY <1>1, <1>4, ShutIs DEF Closes, WellMade

LEMMA ChosenCloses ==
  ASSUME NEW n, WellMade(n), NEW i \in 1..Len(n.menu.items)
  PROVE  Closes(n, ChosenItem(n, i)) /\ ChosenItem(n, i).field.focused = TRUE
<1> DEFINE w == n.menu.items[i]
           f == [n.field EXCEPT !.focused = TRUE, !.value = w, !.term = w]
           k == [n EXCEPT !.field.focused = TRUE, !.field.value = w, !.field.term = w]
<1>1. n \in Handled /\ n.menu \in MenuRecord /\ n.field \in FieldRecord
      /\ n.menu.active <= Len(n.menu.items)
  BY DEF WellMade, Handled
<1>2. w \in Words
  BY <1>1 DEF MenuRecord
<1>3. ChosenItem(n, i) = Shut(k)
  BY DEF ChosenItem
<1> HIDE DEF w
<1>4. k = [n EXCEPT !.field = f]
  BY <1>1, <1>2 DEF Handled, FieldRecord
<1>5. /\ f \in FieldRecord /\ f.focused = TRUE /\ f.previous = n.field.previous
      /\ f.searching = n.field.searching
  BY <1>1, <1>2 DEF FieldRecord
<1> HIDE DEF f, k
<1>6. /\ k \in Handled /\ k.menu = n.menu /\ k.field = f /\ k.requests = n.requests
      /\ k.loading = n.loading /\ k.asked = n.asked
  BY <1>1, <1>4, <1>5 DEF Handled
<1>7. WellMade(k)
  BY <1>1, <1>6 DEF WellMade
<1>8. Closes(k, Shut(k)) /\ Shut(k).field = f
  BY <1>6, <1>7, ShutCloses
<1> QED BY <1>3, <1>5, <1>6, <1>8 DEF Closes
-----------------------------------------------------------------------------
\* The record after a step is what the handler made of it.
LEMMA NextRecord ==
  ASSUME NEW m \in Handled, Sets(m), closing'.own = m.own
  PROVE  All' = m
<1>1. All' = [field |-> m.field, menu |-> m.menu, requests |-> m.requests,
              loading |-> m.loading, asked |-> m.asked, own |-> m.own]
  BY DEF All, Sets
<1> QED BY <1>1 DEF Handled

LEMMA NowMade ==
  ASSUME FieldInv
  PROVE  /\ WellMade(All) /\ All \in Handled
         /\ field \in FieldRecord /\ menu \in MenuRecord
         /\ closing \in [own : BOOLEAN, lost : Nat, keep : BOOLEAN]
         /\ Len(menu.items) \in Nat
<1>1. WellMade(All) /\ All \in Handled
  BY DEF FieldInv, FieldShape, WellMade
<1>2. field \in FieldRecord /\ menu \in MenuRecord
  BY <1>1, AllFields DEF Handled
<1>3. Len(menu.items) \in Nat
  BY <1>2 DEF MenuRecord
<1> QED BY <1>1, <1>2, <1>3 DEF FieldInv, FieldShape

\* A step of a field that has the focus and keeps it, and starts no timer.
LEMMA FocusKeptBut ==
  ASSUME FieldInv, field.focused,
         NEW m, WellMade(m), BooksHold(source, m, odd'), KeptBut(m),
         odd' \subseteq odd \cup {"cut"}, odd \subseteq odd' \cup {"cut"},
         m.field.focused = TRUE, m.field.previous = field.previous,
         m.own => closing.own,
         inputs' \in inputs..MaxInputs
  PROVE  FieldInv'
<1>1. m \in Handled /\ m.field \in FieldRecord /\ m.own \in BOOLEAN
  BY DEF WellMade, Handled
<1>2. /\ closing \in [own : BOOLEAN, lost : Nat, keep : BOOLEAN]
      /\ closing.lost <= inputs /\ inputs \in 0..MaxInputs
  BY DEF FieldInv, FieldShape
<1>3. /\ closing' \in [own : BOOLEAN, lost : Nat, keep : BOOLEAN]
      /\ closing'.own = m.own /\ closing'.lost = closing.lost
      /\ closing'.keep = closing.keep
  BY <1>1, <1>2 DEF KeptBut
<1>4. All' = m
  BY <1>1, <1>3, NextRecord DEF KeptBut
<1>5. /\ UNCHANGED <<source, outside, toldTerm>>
      /\ field' = m.field
  BY DEF KeptBut, Sets
<1>6. inputs' \in 0..MaxInputs /\ closing'.lost <= inputs'
  BY <1>2, <1>3, WordsOk
<1>7. FieldShape'
  <2>1. WellMade(All)'
    BY <1>4 DEF WellMade, All
  <2>2. odd' \subseteq Oddities
    BY DEF FieldInv, FieldShape, Oddities
  <2> QED BY <1>3, <1>5, <1>6, <2>1, <2>2 DEF FieldInv, FieldShape
<1>8. BooksHold(source, All, odd)'
  BY <1>4, <1>5 DEF BooksHold, All
<1>9. TimersKnown'
  BY <1>3, <1>5 DEF FieldInv, TimersKnown
<1>10. WillClose'
  BY <1>5 DEF WillClose
<1>11. WillTell'
  BY <1>5 DEF FieldInv, WillTell, KnownFirst, KnownNow, Excused
<1> QED BY <1>7, <1>8, <1>9, <1>10, <1>11 DEF FieldInv

\* ... and that does not search.
LEMMA FocusKept ==
  ASSUME FieldInv, field.focused,
         NEW m, WellMade(m), BooksHold(source, m, odd), Kept(m),
         m.field.focused = TRUE, m.field.previous = field.previous,
         m.own => closing.own,
         inputs' \in inputs..MaxInputs
  PROVE  FieldInv'
<1>1. KeptBut(m) /\ odd' = odd
  BY DEF Kept
<1> QED BY <1>1, FocusKeptBut

\* A step that may search, from a record n.
LEMMA SearchKept ==
  ASSUME FieldInv, field.focused, NEW searches \in BOOLEAN, NEW back \in BOOLEAN,
         NEW n, WellMade(n), BooksHold(source, n, odd), KeptSearching(n, searches, back),
         n.field.focused = TRUE, n.field.previous = field.previous,
         n.own => closing.own,
         inputs' \in inputs..MaxInputs
  PROVE  FieldInv'
<1> DEFINE m == Searched(n, back)
<1>1. CASE ~searches
  <2>1. Kept(n)
    BY <1>1 DEF KeptSearching, Kept
  <2> QED BY <2>1, FocusKept
<1>2. CASE searches
  <2>1. KeptBut(m) /\ odd' = SearchOdd(n, back)
    BY <1>2 DEF KeptSearching, SearchOdd
  <2>2. Searches(n, m, odd')
    <3>1. source \in {"array", "url", "function"}
      BY DEF FieldInv, FieldShape
    <3>2. Searches(n, m, SearchOdd(n, back))
      BY <3>1, SearchedIs
    <3> QED BY <2>1, <3>2
  <2> HIDE DEF m
  <2>3. odd' \subseteq odd \cup {"cut"} /\ odd \subseteq odd' \cup {"cut"}
    BY <2>1 DEF SearchOdd
  <2> QED BY <2>1, <2>2, <2>3, FocusKeptBut DEF Searches
<1> QED BY <1>1, <1>2

LEMMA InputCounts ==
  ASSUME FieldInv, Input
  PROVE  inputs' \in inputs..MaxInputs /\ inputs' = inputs + 1 /\ ~closing.keep
BY WordsOk DEF FieldInv, FieldShape, Input

LEMMA TypeKeeps ==
  ASSUME FieldInv, NEW w \in Words, Type(w)
  PROVE  FieldInv'
<1> DEFINE f == [field EXCEPT !.value = w, !.searching = TRUE]
           m == [All EXCEPT !.field.value = w, !.field.searching = TRUE]
<1>1. Input /\ field.focused /\ Sets(m) /\ Still
  BY DEF Type
<1>2. WellMade(All) /\ All \in Handled /\ field \in FieldRecord
      /\ closing \in [own : BOOLEAN, lost : Nat, keep : BOOLEAN]
  BY NowMade
<1>3. m = [All EXCEPT !.field = f]
  BY <1>2, AllFields DEF Handled, FieldRecord
<1>4. f \in FieldRecord /\ f.focused = field.focused /\ f.previous = field.previous
  BY <1>2 DEF FieldRecord
<1> HIDE DEF f, m
<1>5. /\ m \in Handled /\ m.field = f /\ m.menu = menu /\ m.requests = requests
      /\ m.loading = loading /\ m.asked = askedTerm /\ m.own = closing.own
  BY <1>2, <1>3, <1>4, AllFields DEF Handled
<1>6. WellMade(m) /\ BooksHold(source, m, odd)
  BY <1>2, <1>5, AllFields DEF FieldInv, WellMade, BooksHold
<1>7. Kept(m)
  BY <1>1, <1>2, <1>5 DEF Still, Kept, KeptBut
<1>8. inputs' \in inputs..MaxInputs
  BY <1>1, InputCounts
<1>9. m.field.focused = TRUE
  BY <1>1, <1>2, <1>4, <1>5 DEF FieldRecord
<1> QED BY <1>1, <1>4, <1>5, <1>6, <1>7, <1>8, <1>9, FocusKept

LEMMA SearchTimerKeeps ==
  ASSUME FieldInv, NEW back \in BOOLEAN, SearchTimer(back)
  PROVE  FieldInv'
<1> DEFINE f == [field EXCEPT !.searching = FALSE]
           n == [All EXCEPT !.field.searching = FALSE]
           searches == field.term # field.value
<1>1. field.searching /\ KeptSearching(n, searches, back) /\ inputs' = inputs
  BY DEF SearchTimer
<1>2. WellMade(All) /\ All \in Handled /\ field \in FieldRecord
      /\ closing \in [own : BOOLEAN, lost : Nat, keep : BOOLEAN]
      /\ source \in {"array", "url", "function"} /\ inputs \in 0..MaxInputs
  BY NowMade DEF FieldInv, FieldShape
<1>3. field.focused
  BY <1>1 DEF FieldInv, TimersKnown
<1>4. n = [All EXCEPT !.field = f]
  BY <1>2, AllFields DEF Handled, FieldRecord
<1>5. /\ f \in FieldRecord /\ f.focused = field.focused /\ f.previous = field.previous
  BY <1>2 DEF FieldRecord
<1> HIDE DEF f, n
<1>6. /\ n \in Handled /\ n.field = f /\ n.menu = menu /\ n.requests = requests
      /\ n.loading = loading /\ n.asked = askedTerm /\ n.own = closing.own
  BY <1>2, <1>4, <1>5, AllFields DEF Handled
<1>7. WellMade(n) /\ BooksHold(source, n, odd)
  BY <1>2, <1>6, AllFields DEF FieldInv, WellMade, BooksHold
<1>8. n.field.focused = TRUE /\ n.field.previous = field.previous
  BY <1>2, <1>3, <1>5, <1>6 DEF FieldRecord
<1>9. inputs' \in inputs..MaxInputs
  BY <1>1, <1>2, WordsOk
<1>10. searches \in BOOLEAN
  OBVIOUS
<1> HIDE DEF searches
<1> QED BY <1>1, <1>3, <1>6, <1>7, <1>8, <1>9, <1>10, SearchKept

LEMMA EnterKeyKeeps == ASSUME FieldInv, EnterKey PROVE FieldInv'
<1> DEFINE m == ChosenItem(All, menu.active)
<1>1. Input /\ field.focused /\ menu.active # 0 /\ Kept(m)
  BY DEF EnterKey
<1>2. menu.active \in 1..Len(All.menu.items) /\ WellMade(All)
  <2>1. WellMade(All) /\ menu \in MenuRecord /\ Len(menu.items) \in Nat
    BY NowMade
  <2>2. menu.active \in Nat /\ menu.active <= Len(menu.items)
    BY <2>1, AllFields DEF WellMade, MenuRecord
  <2> QED BY <1>1, <2>1, <2>2, AllFields
<1>3. Closes(All, m) /\ m.field.focused = TRUE
  BY <1>2, ChosenCloses
<1> HIDE DEF m
<1>4. BooksHold(source, m, odd)
  BY <1>3, ClosedHold DEF FieldInv
<1>5. WellMade(m) /\ m.own = FALSE /\ m.field.previous = field.previous
  BY <1>3, AllFields DEF Closes
<1>6. inputs' \in inputs..MaxInputs
  BY <1>1, InputCounts
<1> QED BY <1>1, <1>3, <1>4, <1>5, <1>6, FocusKept

LEMMA EscapeKeyKeeps == ASSUME FieldInv, EscapeKey PROVE FieldInv'
<1> DEFINE f == [field EXCEPT !.value = field.term]
           n == [All EXCEPT !.field.value = field.term]
           m == Shut(n)
<1>1. Input /\ field.focused /\ Kept(m)
  BY DEF EscapeKey
<1>2. WellMade(All) /\ All \in Handled /\ field \in FieldRecord
  BY NowMade
<1>3. n = [All EXCEPT !.field = f]
  BY <1>2, AllFields DEF Handled, FieldRecord
<1>4. f \in FieldRecord /\ f.focused = TRUE /\ f.previous = field.previous
  BY <1>1, <1>2 DEF FieldRecord
<1> HIDE DEF f, n
<1>5. /\ n \in Handled /\ n.field = f /\ n.menu = menu /\ n.requests = requests
      /\ n.loading = loading /\ n.asked = askedTerm /\ n.own = closing.own
  BY <1>2, <1>3, <1>4, AllFields DEF Handled
<1>6. WellMade(n) /\ BooksHold(source, n, odd)
  BY <1>2, <1>5, AllFields DEF FieldInv, WellMade, BooksHold
<1>7. Closes(n, m) /\ m.field = n.field
  BY <1>6, ShutCloses
<1> HIDE DEF m
<1>8. WellMade(m) /\ BooksHold(source, m, odd) /\ m.own = FALSE
  BY <1>6, <1>7, ClosedHold DEF Closes
<1>9. inputs' \in inputs..MaxInputs
  BY <1>1, InputCounts
<1> QED BY <1>1, <1>4, <1>5, <1>7, <1>8, <1>9, FocusKept

LEMMA MoveActiveKeeps ==
  ASSUME FieldInv, NEW d \in {-1, 1}, NEW back \in BOOLEAN, MoveActive(d, back)
  PROVE  FieldInv'
<1> DEFINE next == NextItem(d)
           f == [field EXCEPT !.value = field.term]
           n == [All EXCEPT !.field.value = field.term]
           m == IF next \in 1..Len(menu.items) THEN Activated(All, next, TRUE)
                ELSE Deactivated(n)
<1>1. /\ Input /\ field.focused
      /\ ~menu.visible => KeptSearching(All, TRUE, back)
      /\ menu.visible => Kept(m)
  BY DEF MoveActive
<1>2. WellMade(All) /\ All \in Handled /\ field \in FieldRecord
      /\ source \in {"array", "url", "function"} /\ BooksHold(source, All, odd)
  BY NowMade DEF FieldInv, FieldShape
<1>3. n = [All EXCEPT !.field = f]
  BY <1>2, AllFields DEF Handled, FieldRecord
<1>4. f \in FieldRecord /\ f.focused = TRUE /\ f.previous = field.previous
  BY <1>1, <1>2 DEF FieldRecord
<1> HIDE DEF f, n, next
<1>5. /\ n \in Handled /\ n.field = f /\ n.menu = menu /\ n.requests = requests
      /\ n.loading = loading /\ n.asked = askedTerm /\ n.own = closing.own
  BY <1>2, <1>3, <1>4, AllFields DEF Handled
<1>6. WellMade(n) /\ BooksHold(source, n, odd)
  BY <1>2, <1>5, AllFields DEF WellMade, BooksHold
<1>7. field.focused = TRUE
  BY <1>1, <1>2 DEF FieldRecord
<1>8. /\ WellMade(m) /\ BooksHold(source, m, odd) /\ (m.own => closing.own)
      /\ m.field.focused = TRUE /\ m.field.previous = field.previous
  <2>2. ASSUME m = Activated(All, next, TRUE), next \in 1..Len(menu.items)
        PROVE  /\ WellMade(m) /\ BooksHold(source, m, odd) /\ (m.own => closing.own)
               /\ m.field.focused = TRUE /\ m.field.previous = field.previous
    <3>1. SameBooks(All, Activated(All, next, TRUE))
      BY <1>2, <2>2, AllFields, ActivatedKeeps
    <3>2. SameBooks(All, m)
      BY <2>2, <3>1
    <3> HIDE DEF m
    <3> QED BY <1>2, <1>7, <3>2, AllFields, BooksStay DEF SameBooks
  <2>3. CASE m = Deactivated(n)
    <3>1. SameBooks(n, m)
      BY <1>6, <2>3, DeactivatedKeeps
    <3> HIDE DEF m
    <3> QED BY <1>4, <1>5, <1>6, <3>1, BooksStay DEF SameBooks
  <2> QED BY <2>2, <2>3
<1> HIDE DEF m
<1>9. inputs' \in inputs..MaxInputs
  BY <1>1, InputCounts
<1>10. CASE menu.visible
  BY <1>1, <1>8, <1>9, <1>10, FocusKept
<1>11. CASE ~menu.visible
  <2>1. All.field.focused = TRUE /\ All.field.previous = field.previous /\ All.own = closing.own
    BY <1>7, AllFields
  <2> QED BY <1>1, <1>2, <1>9, <1>11, <2>1, SearchKept
<1> QED BY <1>10, <1>11
-----------------------------------------------------------------------------
\* What is left to show of a step once its record is known.
LEMMA ShapeStays ==
  ASSUME FieldInv, NEW m, WellMade(m), Sets(m), source' = source,
         closing' \in [own : BOOLEAN, lost : Nat, keep : BOOLEAN], closing'.own = m.own,
         closing'.lost <= inputs', inputs' \in 0..MaxInputs,
         outside' \in BOOLEAN, toldTerm' \in Words, odd' \subseteq Oddities
  PROVE  All' = m /\ FieldShape'
<1>1. All' = m
  BY NextRecord DEF WellMade
<1>2. WellMade(All)'
  BY <1>1 DEF WellMade, All
<1> QED BY <1>1, <1>2 DEF FieldInv, FieldShape

LEMMA NowTyped ==
  ASSUME FieldInv
  PROVE  /\ closing.lost <= inputs /\ inputs \in 0..MaxInputs /\ inputs \in Nat
         /\ outside \in BOOLEAN /\ toldTerm \in Words /\ odd \subseteq Oddities
         /\ source \in {"array", "url", "function"} /\ BooksHold(source, All, odd)
BY WordsOk DEF FieldInv, FieldShape

LEMMA BlurredIs ==
  ASSUME closing \in [own : BOOLEAN, lost : Nat, keep : BOOLEAN]
  PROVE  /\ Blurred \in [own : BOOLEAN, lost : Nat, keep : BOOLEAN]
         /\ Blurred.own = TRUE /\ Blurred.keep = closing.keep
         /\ closing.own => Blurred.lost = closing.lost + 1
         /\ ~closing.own => Blurred.lost = closing.lost
<1> DEFINE l == IF closing.own THEN closing.lost + 1 ELSE closing.lost
<1>1. l \in Nat
  OBVIOUS
<1>2. Blurred = [closing EXCEPT !.own = TRUE, !.lost = l]
  BY DEF Blurred
<1>3. /\ closing.own => l = closing.lost + 1
      /\ ~closing.own => l = closing.lost
  OBVIOUS
<1> HIDE DEF l
<1>4. /\ Blurred \in [own : BOOLEAN, lost : Nat, keep : BOOLEAN]
      /\ Blurred.own = TRUE /\ Blurred.keep = closing.keep /\ Blurred.lost = l
  BY <1>1, <1>2
<1> QED BY <1>3, <1>4

\* The record of the field when only its focus and its search timer change.
LEMMA Refocused ==
  ASSUME FieldInv, NEW f \in FieldRecord, NEW own \in BOOLEAN
  PROVE  /\ WellMade([All EXCEPT !.field = f, !.own = own])
         /\ BooksHold(source, [All EXCEPT !.field = f, !.own = own], odd)
         /\ [All EXCEPT !.field = f, !.own = own].field = f
         /\ [All EXCEPT !.field = f, !.own = own].menu = menu
         /\ [All EXCEPT !.field = f, !.own = own].own = own
         /\ [All EXCEPT !.field = f, !.own = own].requests = requests
         /\ [All EXCEPT !.field = f, !.own = own].loading = loading
         /\ [All EXCEPT !.field = f, !.own = own].asked = askedTerm
<1> DEFINE m == [All EXCEPT !.field = f, !.own = own]
<1>1. WellMade(All) /\ All \in Handled
  BY NowMade
<1>2. /\ m \in Handled /\ m.field = f /\ m.menu = menu /\ m.requests = requests
      /\ m.loading = loading /\ m.asked = askedTerm /\ m.own = own
  BY <1>1, AllFields DEF Handled
<1> HIDE DEF m
<1>3. WellMade(m) /\ BooksHold(source, m, odd)
  BY <1>1, <1>2, AllFields DEF FieldInv, WellMade, BooksHold
<1> QED BY <1>2, <1>3 DEF m

LEMMA LeaveFieldKeeps == ASSUME FieldInv, LeaveField PROVE FieldInv'
<1> DEFINE f == [field EXCEPT !.focused = FALSE, !.searching = FALSE]
           m == [All EXCEPT !.field = f, !.own = TRUE]
<1>1. /\ Input /\ field.focused /\ field' = f /\ closing' = Blurred
      /\ UNCHANGED <<source, menu, requests, loading, askedTerm, outside, toldTerm, odd>>
  BY DEF LeaveField
<1>2. field \in FieldRecord
      /\ closing \in [own : BOOLEAN, lost : Nat, keep : BOOLEAN]
  BY NowMade
<1>3. /\ f \in FieldRecord /\ f.focused = FALSE /\ f.searching = FALSE
      /\ f.previous = field.previous
  BY <1>2 DEF FieldRecord
<1> HIDE DEF f
<1>4. /\ closing' \in [own : BOOLEAN, lost : Nat, keep : BOOLEAN]
      /\ closing'.own = TRUE /\ closing'.keep = closing.keep
      /\ closing.own => closing'.lost = closing.lost + 1
      /\ ~closing.own => closing'.lost = closing.lost
  BY <1>1, <1>2, BlurredIs
<1>5. WellMade(m) /\ BooksHold(source, m, odd) /\ Sets(m) /\ m.own = TRUE
  BY <1>1, <1>3, Refocused DEF Sets
<1> HIDE DEF m
<1>6. closing'.lost <= inputs' /\ inputs' \in 0..MaxInputs
  <2>1. inputs' = inputs + 1 /\ inputs' \in inputs..MaxInputs
    BY <1>1, InputCounts
  <2> QED BY <1>2, <1>4, <2>1, NowTyped, WordsOk
<1>7. All' = m /\ FieldShape'
  BY <1>1, <1>4, <1>5, <1>6, NowTyped, ShapeStays
<1>8. BooksHold(source, All, odd)'
  BY <1>1, <1>5, <1>7 DEF BooksHold, All
<1>9. TimersKnown'
  BY <1>1, <1>3, <1>4 DEF FieldInv, TimersKnown
<1>10. WillClose' /\ WillTell'
  BY <1>1, <1>3, <1>4 DEF FieldInv, WillClose, WillTell, KnownFirst, KnownNow
<1> QED BY <1>7, <1>8, <1>9, <1>10 DEF FieldInv

LEMMA EnterFieldKeeps == ASSUME FieldInv, EnterField PROVE FieldInv'
<1> DEFINE f == [field EXCEPT !.focused = TRUE, !.previous = field.value]
           m == [All EXCEPT !.field = f, !.own = closing.own]
<1>1. /\ Input /\ ~field.focused /\ field' = f /\ outside' = FALSE
      /\ odd' = IF toldTerm = field.value /\ ~closing.own /\ closing.lost = 0 THEN odd
                ELSE odd \cup {"hasty"}
      /\ UNCHANGED <<source, menu, requests, loading, askedTerm, closing, toldTerm>>
  BY DEF EnterField
<1>2. field \in FieldRecord
      /\ closing \in [own : BOOLEAN, lost : Nat, keep : BOOLEAN]
  BY NowMade
<1>3. /\ f \in FieldRecord /\ f.focused = TRUE /\ f.searching = field.searching
      /\ f.previous = field.value
  BY <1>2 DEF FieldRecord
<1> HIDE DEF f
<1>4. WellMade(m) /\ BooksHold(source, m, odd) /\ Sets(m) /\ m.own = closing.own
  BY <1>1, <1>2, <1>3, Refocused DEF Sets
<1> HIDE DEF m
<1>5. closing'.lost <= inputs' /\ inputs' \in 0..MaxInputs
  <2>1. inputs' = inputs + 1 /\ inputs' \in inputs..MaxInputs
    BY <1>1, InputCounts
  <2> QED BY <1>1, <1>2, <2>1, NowTyped, WordsOk
<1>6. odd \subseteq odd' /\ odd' \subseteq Oddities
  BY <1>1, NowTyped DEF Oddities
<1>7. All' = m /\ FieldShape'
  BY <1>1, <1>2, <1>4, <1>5, <1>6, NowTyped, ShapeStays
<1>8. BooksHold(source, All, odd)'
  BY <1>1, <1>4, <1>6, <1>7 DEF BooksHold, All
<1>9. TimersKnown'
  <2>1. closing.keep => "held" \in odd'
    BY <1>6 DEF FieldInv, TimersKnown
  <2>2. closing.own \/ closing.lost > 0 => "hasty" \in odd'
    BY <1>1, <1>2
  <2> QED BY <1>1, <1>2, <1>3, <2>1, <2>2 DEF TimersKnown
<1>10. WillClose'
  BY <1>1, <1>3 DEF WillClose
<1>11. WillTell'
  <2>1. CASE toldTerm = field.value
    BY <1>1, <1>3, <2>1 DEF WillTell, KnownFirst
  <2>2. CASE toldTerm # field.value
    BY <1>1, <2>2 DEF WillTell, Excused
  <2> QED BY <2>1, <2>2
<1> QED BY <1>7, <1>8, <1>9, <1>10, <1>11 DEF FieldInv

\* An open menu without a timer to close it has an excuse, when it is not held.
LEMMA OpenIsExcused ==
  ASSUME FieldInv, menu.visible, ~field.focused, ~closing.own, "held" \notin odd
  PROVE  Excused(odd)
BY DEF FieldInv, WillClose, TimersKnown, Excused

LEMMA HoverKeeps == ASSUME FieldInv, NEW i, Hover(i) PROVE FieldInv'
<1> DEFINE m == IF i = 0 THEN Deactivated(All) ELSE Activated(All, i, FALSE)
<1>1. Input /\ menu.visible /\ i \in 0..Len(menu.items) /\ Kept(m)
  BY DEF Hover
<1>2. /\ WellMade(All) /\ All \in Handled /\ Len(menu.items) \in Nat
      /\ closing \in [own : BOOLEAN, lost : Nat, keep : BOOLEAN]
  BY NowMade
<1>3. SameBooks(All, m)
  <2>1. CASE i = 0
    BY <1>2, <2>1, DeactivatedKeeps
  <2>2. ASSUME i # 0 PROVE SameBooks(All, m)
    <3>1. i \in 1..Len(All.menu.items)
      BY <1>1, <1>2, <2>2, AllFields
    <3> QED BY <1>2, <2>2, <3>1, ActivatedKeeps
  <2> QED BY <2>1, <2>2
<1> HIDE DEF m
<1>4. /\ WellMade(m) /\ BooksHold(source, m, odd) /\ m.own = closing.own
      /\ m.field.focused = field.focused /\ m.field.previous = field.previous
      /\ m.field.searching = field.searching /\ m.menu.visible = menu.visible
  BY <1>3, NowTyped, BooksStay, AllFields DEF SameBooks
<1>5. /\ Sets(m) /\ UNCHANGED <<source, outside, toldTerm, odd>>
      /\ closing' = closing
  BY <1>1, <1>2, <1>4 DEF Kept, KeptBut
<1>6. closing'.lost <= inputs' /\ inputs' \in 0..MaxInputs
  <2>1. inputs' = inputs + 1 /\ inputs' \in inputs..MaxInputs
    BY <1>1, InputCounts
  <2> QED BY <1>2, <1>5, <2>1, NowTyped, WordsOk
<1>7. All' = m /\ FieldShape'
  BY <1>2, <1>4, <1>5, <1>6, NowTyped, ShapeStays
<1>8. BooksHold(source, All, odd)'
  BY <1>4, <1>5, <1>7 DEF BooksHold, All
<1>9. field' = m.field /\ menu' = m.menu
  BY <1>5 DEF Sets
<1>10. TimersKnown' /\ WillClose'
  BY <1>4, <1>5, <1>9 DEF FieldInv, TimersKnown, WillClose
<1>11. WillTell'
  <2>1. CASE Excused(odd)
    BY <1>5, <2>1 DEF WillTell
  <2>2. CASE ~Excused(odd)
    <3>1. field.focused \/ closing.own \/ "held" \in odd
      BY <1>1, <2>2, OpenIsExcused
    <3>2. KnownFirst
      BY <1>1, <2>2 DEF FieldInv, WillTell, KnownNow
    <3> QED BY <1>4, <1>5, <1>9, <3>1, <3>2 DEF WillTell, KnownFirst
  <2> QED BY <2>1, <2>2
<1> QED BY <1>7, <1>8, <1>10, <1>11 DEF FieldInv

LEMMA MenuDownKeeps ==
  ASSUME FieldInv, NEW item \in BOOLEAN, MenuDown(item)
  PROVE  FieldInv'
<1> DEFINE f == [field EXCEPT !.focused = FALSE, !.searching = @ /\ ~field.focused]
           b == IF field.focused THEN Blurred ELSE closing
           m == [All EXCEPT !.field = f, !.own = b.own]
<1>1. /\ Input /\ menu.visible /\ field' = f /\ closing' = [b EXCEPT !.keep = TRUE]
      /\ outside' = (outside \/ ~item) /\ odd' = odd \cup {"held"}
      /\ UNCHANGED <<source, menu, requests, loading, askedTerm, toldTerm>>
  BY DEF MenuDown
<1>2. field \in FieldRecord
      /\ closing \in [own : BOOLEAN, lost : Nat, keep : BOOLEAN]
  BY NowMade
<1>3. /\ f \in FieldRecord /\ f.focused = FALSE /\ f.searching = FALSE
      /\ f.previous = field.previous
  <2>1. field.searching => field.focused
    BY DEF FieldInv, TimersKnown
  <2> QED BY <1>2, <2>1 DEF FieldRecord
<1>4. /\ b \in [own : BOOLEAN, lost : Nat, keep : BOOLEAN]
      /\ closing.own => b.own /\ b.lost <= closing.lost + 1
      /\ ~closing.own => b.lost = closing.lost
      /\ b.lost # closing.lost => field.focused /\ closing.own
  <2>1. CASE field.focused
    <3>1. b = Blurred
      BY <2>1
    <3>2. closing.lost \in Nat /\ closing.own \in BOOLEAN
      BY <1>2
    <3> HIDE DEF b
    <3>3. /\ b \in [own : BOOLEAN, lost : Nat, keep : BOOLEAN] /\ b.own
          /\ closing.own => b.lost = closing.lost + 1
          /\ ~closing.own => b.lost = closing.lost
      BY <1>2, <3>1, BlurredIs
    <3>4. CASE closing.own
      BY <2>1, <3>2, <3>3, <3>4
    <3>5. CASE ~closing.own
      BY <2>1, <3>2, <3>3, <3>5
    <3> QED BY <3>4, <3>5
  <2>2. CASE ~field.focused
    <3>1. b = closing /\ closing.lost \in Nat
      BY <1>2, <2>2
    <3> HIDE DEF b
    <3> QED BY <1>2, <3>1
  <2> QED BY <2>1, <2>2
<1> HIDE DEF f, b
<1>5. /\ closing' \in [own : BOOLEAN, lost : Nat, keep : BOOLEAN]
      /\ closing'.own = b.own /\ closing'.lost = b.lost
  BY <1>1, <1>4
<1>6. WellMade(m) /\ BooksHold(source, m, odd) /\ Sets(m) /\ m.own = b.own
  <2>1. b.own \in BOOLEAN
    BY <1>4
  <2> QED BY <1>1, <1>3, <2>1, Refocused DEF Sets
<1> HIDE DEF m
<1>7. closing'.lost <= inputs' /\ inputs' \in 0..MaxInputs
  <2>1. inputs' = inputs + 1 /\ inputs' \in inputs..MaxInputs
    BY <1>1, InputCounts
  <2> QED BY <1>2, <1>4, <1>5, <2>1, NowTyped, WordsOk
<1>8. /\ odd' \subseteq Oddities /\ outside' \in BOOLEAN
      /\ Excused(odd) => Excused(odd')
  BY <1>1, NowTyped DEF Oddities, Excused
<1>9. All' = m /\ FieldShape'
  BY <1>1, <1>5, <1>6, <1>7, <1>8, NowTyped, ShapeStays
<1>10. BooksHold(source, All, odd)'
  BY <1>1, <1>6, <1>9 DEF BooksHold, All
<1>11. TimersKnown'
  <2>1. closing'.lost > 0 => "hasty" \in odd
    <3>1. CASE b.lost = closing.lost
      BY <1>5, <3>1 DEF FieldInv, TimersKnown
    <3>2. CASE b.lost # closing.lost
      BY <1>4, <3>2 DEF FieldInv, TimersKnown
    <3> QED BY <3>1, <3>2
  <2> QED BY <1>1, <1>3, <2>1 DEF TimersKnown
<1>12. WillClose'
  BY <1>1 DEF WillClose
<1>13. WillTell'
  <2>1. CASE Excused(odd)
    BY <1>8, <2>1 DEF WillTell
  <2>2. CASE ~Excused(odd)
    <3>1. KnownFirst
      BY <1>1, <2>2 DEF FieldInv, WillTell, KnownNow
    <3> QED BY <1>1, <1>3, <3>1 DEF WillTell, KnownFirst
  <2> QED BY <2>1, <2>2
<1> QED BY <1>9, <1>10, <1>11, <1>12, <1>13 DEF FieldInv

LEMMA KeepTimerKeeps == ASSUME FieldInv, KeepTimer PROVE FieldInv'
<1> DEFINE m == [All EXCEPT !.field = field, !.own = FALSE]
<1>1. /\ closing.keep /\ closing' = [closing EXCEPT !.keep = FALSE, !.own = FALSE]
      /\ UNCHANGED <<source, field, menu, requests, loading, askedTerm, outside,
                     toldTerm, odd, inputs>>
  BY DEF KeepTimer
<1>2. field \in FieldRecord
      /\ closing \in [own : BOOLEAN, lost : Nat, keep : BOOLEAN]
  BY NowMade
<1>3. /\ closing' \in [own : BOOLEAN, lost : Nat, keep : BOOLEAN]
      /\ closing'.own = FALSE /\ closing'.keep = FALSE /\ closing'.lost = closing.lost
  BY <1>1, <1>2
<1>4. WellMade(m) /\ BooksHold(source, m, odd) /\ Sets(m) /\ m.own = FALSE
  BY <1>1, <1>2, Refocused DEF Sets
<1> HIDE DEF m
<1>5. All' = m /\ FieldShape'
  BY <1>1, <1>3, <1>4, NowTyped, ShapeStays
<1>6. BooksHold(source, All, odd)'
  BY <1>1, <1>4, <1>5 DEF BooksHold, All
<1>7. "held" \in odd
  BY <1>1 DEF FieldInv, TimersKnown
<1>8. TimersKnown' /\ WillClose' /\ WillTell'
  BY <1>1, <1>3, <1>7
     DEF FieldInv, TimersKnown, WillClose, WillTell, KnownFirst, KnownNow
<1> QED BY <1>5, <1>6, <1>8 DEF FieldInv

LEMMA MenuClickKeeps == ASSUME FieldInv, MenuClick PROVE FieldInv'
<1> DEFINE m == ChosenItem(All, menu.active)
<1>1. /\ Input /\ menu.visible /\ menu.active # 0 /\ Sets(m)
      /\ closing' = [closing EXCEPT !.own = FALSE] /\ odd' = odd \ {"held"}
      /\ UNCHANGED <<source, outside, toldTerm>>
  BY DEF MenuClick
<1>2. /\ menu.active \in 1..Len(All.menu.items) /\ WellMade(All)
      /\ closing \in [own : BOOLEAN, lost : Nat, keep : BOOLEAN]
  <2>1. WellMade(All) /\ menu \in MenuRecord /\ Len(menu.items) \in Nat
    BY NowMade
  <2>2. menu.active \in Nat /\ menu.active <= Len(menu.items)
    BY <2>1, AllFields DEF WellMade, MenuRecord
  <2> QED BY <1>1, <2>1, <2>2, AllFields, NowMade
<1>3. Closes(All, m) /\ m.field.focused = TRUE
  BY <1>2, ChosenCloses
<1> HIDE DEF m
<1>4. /\ WellMade(m) /\ BooksHold(source, m, odd) /\ m.own = FALSE /\ m.menu.visible = FALSE
      /\ m.field.previous = field.previous
  BY <1>3, ClosedHold, AllFields, NowTyped DEF Closes
<1>5. /\ closing' \in [own : BOOLEAN, lost : Nat, keep : BOOLEAN]
      /\ closing'.own = FALSE /\ closing'.keep = closing.keep
      /\ closing'.lost = closing.lost
  BY <1>1, <1>2
<1>6. closing'.lost <= inputs' /\ inputs' \in 0..MaxInputs /\ ~closing.keep
  <2>1. inputs' = inputs + 1 /\ inputs' \in inputs..MaxInputs /\ ~closing.keep
    BY <1>1, InputCounts
  <2> QED BY <1>2, <1>5, <2>1, NowTyped, WordsOk
<1>7. /\ odd' \subseteq Oddities /\ ("hasty" \in odd' <=> "hasty" \in odd)
      /\ Excused(odd') <=> Excused(odd)
  BY <1>1, NowTyped DEF Oddities, Excused
<1>8. All' = m /\ FieldShape'
  BY <1>1, <1>4, <1>5, <1>6, <1>7, NowTyped, ShapeStays
<1>9. BooksHold(source, All, odd)'
  BY <1>1, <1>4, <1>8 DEF BooksHold, All
<1>10. field' = m.field /\ menu' = m.menu
  BY <1>1 DEF Sets
<1>11. TimersKnown' /\ WillClose'
  BY <1>3, <1>4, <1>5, <1>6, <1>7, <1>10 DEF FieldInv, TimersKnown, WillClose
<1>12. WillTell'
  <2>1. CASE Excused(odd)
    BY <1>7, <2>1 DEF WillTell
  <2>2. CASE ~Excused(odd)
    <3>1. KnownFirst
      BY <1>1, <2>2 DEF FieldInv, WillTell, KnownNow
    <3> QED BY <1>1, <1>3, <1>4, <1>10, <3>1 DEF WillTell, KnownFirst
  <2> QED BY <2>1, <2>2
<1> QED BY <1>8, <1>9, <1>11, <1>12 DEF FieldInv

LEMMA OutsideDownKeeps == ASSUME FieldInv, OutsideDown PROVE FieldInv'
<1> DEFINE m == Shut(All)
<1>1. /\ Input /\ Sets(m) /\ closing' = [closing EXCEPT !.own = FALSE]
      /\ outside' = FALSE
      /\ odd' = IF closing.own /\ ~field.focused THEN odd \cup {"hushed"} ELSE odd
      /\ UNCHANGED <<source, toldTerm>>
  BY DEF OutsideDown
<1>2. WellMade(All) /\ closing \in [own : BOOLEAN, lost : Nat, keep : BOOLEAN]
  BY NowMade
<1>3. Closes(All, m) /\ m.field = field
  BY <1>2, ShutCloses, AllFields
<1> HIDE DEF m
<1>4. WellMade(m) /\ BooksHold(source, m, odd) /\ m.own = FALSE /\ m.menu.visible = FALSE
  BY <1>3, ClosedHold, NowTyped DEF Closes
<1>5. /\ closing' \in [own : BOOLEAN, lost : Nat, keep : BOOLEAN]
      /\ closing'.own = FALSE /\ closing'.keep = closing.keep
      /\ closing'.lost = closing.lost
  BY <1>1, <1>2
<1>6. closing'.lost <= inputs' /\ inputs' \in 0..MaxInputs
  <2>1. inputs' = inputs + 1 /\ inputs' \in inputs..MaxInputs
    BY <1>1, InputCounts
  <2> QED BY <1>2, <1>5, <2>1, NowTyped, WordsOk
<1>7. odd \subseteq odd' /\ odd' \subseteq Oddities
  BY <1>1, NowTyped DEF Oddities
<1>8. All' = m /\ FieldShape'
  BY <1>1, <1>4, <1>5, <1>6, <1>7, NowTyped, ShapeStays
<1>9. BooksHold(source, All, odd)'
  BY <1>1, <1>4, <1>7, <1>8 DEF BooksHold, All
<1>10. field' = field /\ menu'.visible = FALSE
  BY <1>1, <1>3, <1>4 DEF Sets
<1>11. TimersKnown' /\ WillClose'
  BY <1>5, <1>7, <1>10 DEF FieldInv, TimersKnown, WillClose
<1>12. WillTell'
  <2>1. CASE Excused(odd')
    BY <2>1 DEF WillTell
  <2>2. CASE ~Excused(odd')
    <3>1. odd' = odd /\ (closing.own => field.focused) /\ ~Excused(odd)
      BY <1>1, <2>2 DEF Excused
    <3>2. KnownFirst \/ KnownNow
      BY <3>1 DEF FieldInv, WillTell
    <3>3. field.focused \/ "held" \in odd \/ toldTerm = field.value
      BY <3>1 DEF FieldInv, WillTell
    <3>4. KnownFirst' \/ KnownNow'
      BY <1>1, <1>5, <1>10, <3>2 DEF KnownFirst, KnownNow
    <3> QED BY <1>1, <1>10, <3>1, <3>3, <3>4 DEF WillTell
  <2> QED BY <2>1, <2>2
<1> QED BY <1>8, <1>9, <1>11, <1>12 DEF FieldInv

LEMMA ClosingTimerKeeps == ASSUME FieldInv, ClosingTimer PROVE FieldInv'
<1> DEFINE m == Shut(All)
<1>1. /\ closing.own \/ closing.lost > 0 
      /\ Sets(m)
      /\ closing' = [closing EXCEPT !.own = FALSE, !.lost = IF @ > 0 THEN @ - 1 ELSE 0]
      /\ toldTerm' = IF field.previous # field.value THEN field.value ELSE toldTerm
      /\ UNCHANGED <<source, outside, odd, inputs>>
  BY DEF ClosingTimer, TellsChange
<1>2. /\ WellMade(All) /\ closing \in [own : BOOLEAN, lost : Nat, keep : BOOLEAN]
      /\ field \in FieldRecord
  BY NowMade
<1>3. Closes(All, m) /\ m.field = field
  BY <1>2, ShutCloses, AllFields
<1> HIDE DEF m
<1>4. WellMade(m) /\ BooksHold(source, m, odd) /\ m.own = FALSE /\ m.menu.visible = FALSE
  BY <1>3, ClosedHold, NowTyped DEF Closes
<1>5. /\ closing' \in [own : BOOLEAN, lost : Nat, keep : BOOLEAN]
      /\ closing'.own = FALSE /\ closing'.keep = closing.keep
      /\ closing'.lost <= closing.lost
      /\ closing.lost = 0 => closing'.lost = 0
  <2> DEFINE l == IF closing.lost > 0 THEN closing.lost - 1 ELSE 0
  <2>1. l \in Nat /\ l <= closing.lost /\ (closing.lost = 0 => l = 0)
    BY <1>2
  <2>2. closing' = [closing EXCEPT !.own = FALSE, !.lost = l]
    BY <1>1
  <2> HIDE DEF l
  <2>3. /\ closing' \in [own : BOOLEAN, lost : Nat, keep : BOOLEAN]
        /\ closing'.own = FALSE /\ closing'.keep = closing.keep /\ closing'.lost = l
    BY <1>2, <2>1, <2>2
  <2> QED BY <2>1, <2>3
<1>6. closing'.lost <= inputs' /\ inputs' \in 0..MaxInputs /\ toldTerm' \in Words
  BY <1>1, <1>2, <1>5, NowTyped, WordsOk DEF FieldRecord
<1>7. All' = m /\ FieldShape'
  BY <1>1, <1>4, <1>5, <1>6, NowTyped, ShapeStays
<1>8. BooksHold(source, All, odd)'
  BY <1>1, <1>4, <1>7 DEF BooksHold, All
<1>9. field' = field /\ menu'.visible = FALSE
  BY <1>1, <1>3, <1>4 DEF Sets
<1>10. TimersKnown' /\ WillClose'
  BY <1>1, <1>2, <1>5, <1>9 DEF FieldInv, TimersKnown, WillClose
<1>11. WillTell'
  <2>1. CASE Excused(odd)
    BY <1>1, <2>1 DEF WillTell
  <2>2. CASE ~Excused(odd)
    <3>1. closing.lost = 0 /\ closing.own
      <4>1. ~(closing.lost > 0)
        BY <2>2 DEF FieldInv, TimersKnown, Excused
      <4> QED BY <1>1, <1>2, <4>1
    <3>2. ~field.focused
      BY <2>2, <3>1 DEF FieldInv, TimersKnown, Excused
    <3>3. toldTerm = field.previous
      BY <2>2, <3>1 DEF FieldInv, WillTell, KnownFirst, KnownNow
    <3>4. toldTerm' = field.value
      BY <1>1, <3>3
    <3> QED BY <1>5, <1>9, <3>1, <3>2, <3>4 DEF WillTell, KnownNow
  <2> QED BY <2>1, <2>2
<1> QED BY <1>7, <1>8, <1>10, <1>11 DEF FieldInv

LEMMA AnswerSearchKeeps ==
  ASSUME FieldInv, NEW t \in Words, NEW ok \in BOOLEAN, AnswerSearch(t, ok)
  PROVE  FieldInv'
<1> DEFINE n     == [All EXCEPT !.requests = @ \ {t}]
           answer == IF ok THEN Matches[t] ELSE <<>>
           m     == Responded(n, answer)
<1>1. /\ t \in requests /\ Sets(m) /\ closing' = [closing EXCEPT !.own = m.own]
      /\ odd' = IF field.focused \/ closing'.own THEN odd
                ELSE odd \cup {IF closing.own THEN "hushed" ELSE "late"}
      /\ UNCHANGED <<source, outside, toldTerm, inputs>>
  BY DEF AnswerSearch
<1>2. /\ WellMade(All) /\ All \in Handled
      /\ closing \in [own : BOOLEAN, lost : Nat, keep : BOOLEAN]
  BY NowMade
<1>3. answer \in Seq(Words)
  BY WordsOk
<1>4. /\ n \in Handled /\ n.field = field /\ n.menu = menu /\ n.own = closing.own
      /\ n.requests = requests \ {t} /\ n.asked = askedTerm
  BY <1>2, AllFields DEF Handled
<1> HIDE DEF n
<1>5. WellMade(n)
  BY <1>2, <1>4, AllFields DEF WellMade
<1>6. Answers(n, answer, m)
  BY <1>3, <1>5, RespondedIs
<1> HIDE DEF m
<1>7. /\ WellMade(m) /\ m.loading = FALSE /\ m.requests = requests \ {t}
      /\ m.asked = askedTerm
      /\ m.field.focused = field.focused /\ m.field.searching = field.searching
      /\ m.field.previous = field.previous
      /\ answer = <<>> => m.own = FALSE /\ m.menu.visible = FALSE
      /\ answer # <<>> => m.own = closing.own /\ m.menu.items = answer
  BY <1>4, <1>6 DEF Answers
<1>8. BooksHold(source, m, odd)
  <2>1. ASSUME source = "url" PROVE BooksHold(source, m, odd)
    <3>1. requests = {t} /\ askedTerm = t /\ m.requests = {}
      BY <1>1, <1>7, <2>1, NowTyped, AllFields DEF BooksHold
    <3>2. m.menu.visible => m.menu.items = Matches[t]
      BY <1>7
    <3> QED BY <1>7, <2>1, <3>1, <3>2 DEF BooksHold
  <2>2. source # "array"
    BY <1>1, NowTyped, AllFields DEF BooksHold
  <2>3. CASE source = "function"
    BY <2>3 DEF BooksHold
  <2> QED BY <2>1, <2>2, <2>3, NowTyped
<1> HIDE DEF answer
<1>9. /\ closing' \in [own : BOOLEAN, lost : Nat, keep : BOOLEAN]
      /\ closing'.own = m.own /\ closing'.keep = closing.keep
      /\ closing'.lost = closing.lost
  BY <1>1, <1>2, <1>7 DEF WellMade, Handled
<1>10. odd \subseteq odd' /\ odd' \subseteq Oddities
  BY <1>1, NowTyped DEF Oddities
<1>11. All' = m /\ FieldShape'
  <2>1. closing'.lost <= inputs' /\ inputs' \in 0..MaxInputs
    BY <1>1, <1>9, NowTyped
  <2> QED BY <1>1, <1>7, <1>9, <1>10, <2>1, NowTyped, ShapeStays
<1>12. BooksHold(source, All, odd)'
  BY <1>1, <1>8, <1>10, <1>11 DEF BooksHold, All
<1>13. field' = m.field /\ menu' = m.menu
  BY <1>1 DEF Sets
<1>14. m.own => closing.own
  BY <1>7
<1>15. TimersKnown'
  BY <1>7, <1>9, <1>10, <1>13, <1>14 DEF FieldInv, TimersKnown
<1>16. CASE field.focused
  <2>1. WillClose'
    BY <1>7, <1>13, <1>16 DEF WillClose
  <2>2. WillTell'
    BY <1>1, <1>7, <1>13, <1>16 DEF FieldInv, WillTell, KnownFirst, KnownNow
  <2> QED BY <1>11, <1>12, <1>15, <2>1, <2>2 DEF FieldInv
<1>17. CASE ~field.focused /\ m.own
  <2>1. WillClose'
    BY <1>9, <1>17 DEF WillClose
  <2>2. WillTell'
    BY <1>1, <1>7, <1>9, <1>13, <1>14, <1>17
       DEF FieldInv, WillTell, KnownFirst, KnownNow
  <2> QED BY <1>11, <1>12, <1>15, <2>1, <2>2 DEF FieldInv
<1>18. CASE ~field.focused /\ ~m.own
  <2>1. /\ "hushed" \in odd' \/ "late" \in odd'
        /\ ~closing.own => "late" \in odd'
    BY <1>1, <1>9, <1>18
  <2>2. WillTell'
    BY <2>1 DEF WillTell, Excused
  <2>3. closing.own => m.menu.visible = FALSE
    BY <1>7, <1>18
  <2>4. WillClose'
    BY <1>13, <2>1, <2>3 DEF WillClose
  <2> QED BY <1>11, <1>12, <1>15, <2>2, <2>4 DEF FieldInv
<1> QED BY <1>16, <1>17, <1>18

LEMMA FieldSteps == FieldInv /\ [AutocompleteNext]_acVars => FieldInv'
<1> SUFFICES ASSUME FieldInv, [AutocompleteNext]_acVars PROVE FieldInv'
  OBVIOUS
<1>1. CASE UNCHANGED acVars
  BY <1>1 DEF acVars, FieldInv, FieldShape, WellMade, All, BooksHold, TimersKnown, WillClose,
              WillTell, KnownFirst, KnownNow
<1>2. ASSUME NEW w \in Words, Type(w) PROVE FieldInv'
  BY <1>2, TypeKeeps
<1>3. ASSUME NEW d \in {-1, 1}, NEW back \in BOOLEAN, MoveActive(d, back) PROVE FieldInv'
  BY <1>3, MoveActiveKeeps
<1>4. ASSUME NEW i, Hover(i) PROVE FieldInv'
  BY <1>4, HoverKeeps
<1>5. ASSUME NEW item \in BOOLEAN, MenuDown(item) PROVE FieldInv'
  BY <1>5, MenuDownKeeps
<1>6. ASSUME NEW t \in Words, NEW ok \in BOOLEAN, AnswerSearch(t, ok) PROVE FieldInv'
  BY <1>6, AnswerSearchKeeps
<1> QED BY <1>1, <1>2, <1>3, <1>4, <1>5, <1>6, SearchTimerKeeps, EnterKeyKeeps,
           EscapeKeyKeeps, LeaveFieldKeeps, EnterFieldKeeps, KeepTimerKeeps,
           MenuClickKeeps, OutsideDownKeeps, ClosingTimerKeeps DEF AutocompleteNext

LEMMA FieldHolds ==
  ASSUME FieldInv
  PROVE  AutocompleteTypeOK /\ SuggestionsFit /\ FieldSettles
<1>1. /\ field \in FieldRecord /\ menu \in MenuRecord /\ Len(menu.items) \in Nat
      /\ menu.active <= Len(menu.items) /\ All \in Handled
      /\ closing \in [own : BOOLEAN, lost : Nat, keep : BOOLEAN]
  BY NowMade, AllFields DEF WellMade
<1>2. AutocompleteTypeOK
  <2>1. closing.lost \in 0..MaxInputs
    BY <1>1, NowTyped, WordsOk
  <2>2. menu.items \in Seq(Words) /\ menu.active \in 0..Len(menu.items)
    BY <1>1 DEF MenuRecord
  <2>3. requests \subseteq Words /\ askedTerm \in Words
    BY <1>1, AllFields DEF Handled
  <2> QED BY <1>1, <2>1, <2>2, <2>3, NowTyped DEF AutocompleteTypeOK, FieldRecord
<1>3. SuggestionsFit
  BY NowTyped, AllFields DEF SuggestionsFit, BooksHold
<1>4. FieldSettles
  BY <1>1 DEF FieldInv, FieldSettles, WillClose, WillTell, Excused
<1> QED BY <1>2, <1>3, <1>4

-----------------------------------------------------------------------------
(* The dialogs.                                                            *)

DialogRecords == [alive : BOOLEAN, open : BOOLEAN, visible : BOOLEAN, hiding : BOOLEAN,
                  z : Nat, overlay : 0..Cardinality(Dialogs)]
OverlayRecords == [instances : Seq(OverlayElements), old : Seq(OverlayElements),
                   attached : SUBSET OverlayElements, z : [OverlayElements -> Nat],
                   maxZ : Nat, pending : Nat, guarded : BOOLEAN,
                   escCloses : Dialogs \cup {0}]
Everythings == [dialog : [Dialogs -> DialogRecords], overlays : OverlayRecords,
                maxZ : Nat, misused : BOOLEAN]

OpenOnes(n)   == {d \in Dialogs : n.dialog[d].open}
OpenModals(n) == OpenOnes(n) \cap Modal

\* Where the highest of the overlays that are shown is.
Highest(o) == Max({0} \cup {o.z[e] : e \in ToSet(o.instances)})

(***************************************************************************)
(* An overlay is shown or put away, once, and each that is shown is that   *)
(* of an open dialog; so there is always one more to show.                 *)
(***************************************************************************)
OverlaysKept(n) ==
    /\ n \in Everythings
    /\ IsInjective(n.overlays.instances) /\ IsInjective(n.overlays.old)
    /\ ToSet(n.overlays.instances) \cap ToSet(n.overlays.old) = {}
    /\ \A e \in ToSet(n.overlays.instances) : \E d \in OpenModals(n) : n.dialog[d].overlay = e
    /\ \A d \in Dialogs \ Modal : n.dialog[d].overlay = 0

(***************************************************************************)
(* OverlaysFit by the elements: the overlay of each open modal dialog is   *)
(* one of those shown and nobody else's.                                   *)
(***************************************************************************)
EachHasItsOwn(n) ==
    /\ \A d \in OpenModals(n) : n.dialog[d].overlay \in ToSet(n.overlays.instances)
    /\ \A c, d \in OpenModals(n) : n.dialog[c].overlay = n.dialog[d].overlay => c = d
    /\ n.overlays.attached = ToSet(n.overlays.instances)
    /\ \A d \in OpenModals(n) : n.dialog[d].z = n.overlays.z[n.dialog[d].overlay] + 1
    /\ \A d \in OpenOnes(n) : n.dialog[d].z <= n.maxZ /\ n.dialog[d].alive
    /\ \A c, d \in OpenOnes(n) : n.dialog[c].z = n.dialog[d].z => c = d
    /\ n.overlays.maxZ = Highest(n.overlays)

EventsGuarded(n) ==
    /\ (n.overlays.escCloses # 0) <=> (n.overlays.instances # <<>>)
    /\ n.overlays.guarded => n.overlays.instances # <<>>
    /\ n.overlays.instances # <<>> => n.overlays.guarded \/ n.overlays.pending > 0

DialogsSound(n) ==
    /\ OverlaysKept(n)
    /\ n.misused \/ (EachHasItsOwn(n) /\ EventsGuarded(n))

\* Who is open is seen, and not being hidden, unless he was opened meanwhile.
SeenIfOpen(dl, excused) ==
    \A d \in Dialogs \ excused : /\ dl[d].open => dl[d].visible
                                 /\ dl[d].hiding => ~dl[d].open

DialogsInv ==
    /\ DialogsSound(Everything)
    /\ SeenIfOpen(dialog, revived)
    /\ dialogMoves \in 0..MaxDialogMoves

LEMMA OverlayElementsFinite ==
  /\ Cardinality(Dialogs) \in Nat
  /\ IsFiniteSet(OverlayElements) /\ Cardinality(OverlayElements) = Cardinality(Dialogs)
  /\ 0 \notin OverlayElements /\ OverlayElements \subseteq 0..Cardinality(Dialogs)
<1>1. Cardinality(Dialogs) \in Nat
  BY DialogsAssumption, FS_CardinalityType
<1>2. 1 \in Int /\ Cardinality(Dialogs) \in Int
  BY <1>1
<1> QED BY <1>1, <1>2, FS_Interval DEF OverlayElements

\* The heights of the overlays of a list, the greatest of which is maxZ.
LEMMA HeightsOf ==
  ASSUME NEW z \in [OverlayElements -> Nat], NEW els \in SUBSET OverlayElements
  PROVE  /\ Max({0} \cup {z[e] : e \in els}) \in Nat
         /\ Max({0} \cup {z[e] : e \in els}) \in {0} \cup {z[e] : e \in els}
         /\ \A x \in {0} \cup {z[e] : e \in els} : x <= Max({0} \cup {z[e] : e \in els})
<1> DEFINE all == {z[e] : e \in els}
<1>1. all \in SUBSET Nat
  OBVIOUS
<1>2. IsFiniteSet(all)
  <2>1. IsFiniteSet(els)
    BY OverlayElementsFinite, FS_Subset
  <2>2. [e \in els |-> z[e]] \in Surjection(els, all)
    BY DEF Surjection
  <2> HIDE DEF all
  <2> QED BY <2>1, <2>2, FS_Surjection
<1> HIDE DEF all
<1>3. Max({0} \cup all) \in {0} \cup all /\ \A x \in {0} \cup all : x <= Max({0} \cup all)
  BY <1>1, <1>2, GreatestOf
<1> QED BY <1>1, <1>3 DEF all

\* overlay.destroy: the element goes from the instances to the old ones.
LEMMA OverlayGoes ==
  ASSUME NEW o \in OverlayRecords, IsInjective(o.instances), IsInjective(o.old),
         ToSet(o.instances) \cap ToSet(o.old) = {}, NEW e, NEW p, p = OverlayDestroyed(o, e)
  PROVE  /\ p \in OverlayRecords /\ IsInjective(p.instances) /\ IsInjective(p.old)
         /\ ToSet(p.instances) \cap ToSet(p.old) = {}
         /\ ToSet(p.instances) = ToSet(o.instances) \ {e}
         /\ p.attached = o.attached \ {e} /\ p.z = o.z /\ p.pending = o.pending
         /\ p.guarded = (o.guarded /\ p.instances # <<>>)
         /\ p.escCloses = IF p.instances = <<>> THEN 0 ELSE o.escCloses
         /\ p.maxZ = Highest(p)
<1> DEFINE left == RemoveFirst(o.instances, e)
           olds == IF e \in ToSet(o.instances) THEN Append(o.old, e) ELSE o.old
           highest == Max({0} \cup {o.z[x] : x \in ToSet(left)})
<1>0. /\ o.instances \in Seq(OverlayElements) /\ o.old \in Seq(OverlayElements)
      /\ o.z \in [OverlayElements -> Nat] /\ o.attached \subseteq OverlayElements
  BY DEF OverlayRecords
<1>1. left \in Seq(OverlayElements) /\ IsInjective(left) /\ ToSet(left) = ToSet(o.instances) \ {e}
  BY <1>0, RemovedFirst
<1>2. ToSet(o.instances) \subseteq OverlayElements
  BY <1>0 DEF ToSet
<1>3. olds \in Seq(OverlayElements) /\ IsInjective(olds)
      /\ ToSet(olds) = ToSet(o.old) \cup (ToSet(o.instances) \cap {e})
  <2>1. CASE e \in ToSet(o.instances)
    <3>1. e \notin ToSet(o.old) /\ e \in OverlayElements
      BY <2>1, <1>2
    <3>2. /\ Append(o.old, e) \in Seq(OverlayElements) /\ IsInjective(Append(o.old, e))
          /\ ToSet(Append(o.old, e)) = ToSet(o.old) \cup {e}
      BY <1>0, <3>1, AppendedApart
    <3> QED BY <2>1, <3>2
  <2>2. CASE e \notin ToSet(o.instances)
    BY <1>0, <2>2
  <2> QED BY <2>1, <2>2
<1>4. highest \in Nat
  BY <1>0, <1>1, <1>2, HeightsOf
<1>5. {o.z[left[i]] : i \in DOMAIN left} = {o.z[x] : x \in ToSet(left)}
  BY DEF ToSet
<1>6. p = [o EXCEPT !.instances = left, !.attached = @ \ {e}, !.old = olds,
                    !.guarded = @ /\ left # <<>>,
                    !.escCloses = IF left = <<>> THEN 0 ELSE @, !.maxZ = highest]
  BY <1>5 DEF OverlayDestroyed, Instances, ToSet, OverlayRecords
<1> HIDE DEF left, olds, highest
<1>7. /\ p.instances = left /\ p.attached = o.attached \ {e} /\ p.old = olds
      /\ p.guarded = (o.guarded /\ left # <<>>)
      /\ p.escCloses = IF left = <<>> THEN 0 ELSE o.escCloses
      /\ p.maxZ = highest /\ p.z = o.z /\ p.pending = o.pending
  BY <1>6 DEF OverlayRecords
<1>8. (o.guarded /\ left # <<>>) \in BOOLEAN
      /\ (IF left = <<>> THEN 0 ELSE o.escCloses) \in Dialogs \cup {0}
      /\ o.attached \ {e} \in SUBSET OverlayElements /\ o.pending \in Nat
  BY DEF OverlayRecords
<1>9. p \in OverlayRecords
  <2>1. p = [instances |-> left, old |-> olds, attached |-> o.attached \ {e}, z |-> o.z,
             maxZ |-> highest, pending |-> o.pending, guarded |-> p.guarded,
             escCloses |-> p.escCloses]
    BY <1>6 DEF OverlayRecords
  <2>2. p.guarded \in BOOLEAN /\ p.escCloses \in Dialogs \cup {0}
    BY <1>7, <1>8
  <2> QED BY <2>1, <2>2, <1>0, <1>1, <1>3, <1>4, <1>8 DEF OverlayRecords
<1>10. /\ IsInjective(p.instances) /\ IsInjective(p.old)
       /\ ToSet(p.instances) = ToSet(o.instances) \ {e}
       /\ ToSet(p.instances) \cap ToSet(p.old) = {}
  BY <1>1, <1>3, <1>7
<1>11. p.maxZ = Highest(p)
  BY <1>7 DEF highest, Highest
<1> QED BY <1>7, <1>9, <1>10, <1>11

\* What becomes of the overlays o when e is shown for d.
OverlayAdded(o, p, e, d) ==
    /\ p \in OverlayRecords /\ IsInjective(p.instances) /\ IsInjective(p.old)
    /\ ToSet(p.instances) \cap ToSet(p.old) = {}
    /\ e \in OverlayElements \ ToSet(o.instances) /\ p.instances # <<>>
    /\ ToSet(p.instances) = ToSet(o.instances) \cup {e}
    /\ p.attached = o.attached \cup {e} /\ p.z = o.z
    /\ p.guarded = o.guarded
    /\ p.pending = (IF o.instances = <<>> THEN o.pending + 1 ELSE o.pending)
    /\ p.escCloses = (IF o.instances = <<>> THEN d ELSE o.escCloses)

\* overlay.create, while one more element is free.
LEMMA OverlayComes ==
  ASSUME NEW o \in OverlayRecords, IsInjective(o.instances), IsInjective(o.old),
         ToSet(o.instances) \cap ToSet(o.old) = {}, OverlayElements \ ToSet(o.instances) # {},
         NEW d \in Dialogs
  PROVE  OverlayAdded(o, Created(o, d), Last(Created(o, d).instances), d)
<1> DEFINE p == Created(o, d)
           e == Last(p.instances)
<1> DEFINE f == IF o.old # <<>> THEN Last(o.old)
                ELSE CHOOSE x \in OverlayElements \ Instances(o) : TRUE
           olds == IF o.old = <<>> THEN o.old ELSE Front(o.old)
           more == Append(o.instances, f)
<1>0. /\ o.instances \in Seq(OverlayElements) /\ o.old \in Seq(OverlayElements)
      /\ o.z \in [OverlayElements -> Nat] /\ o.attached \subseteq OverlayElements
      /\ o.pending \in Nat /\ o.maxZ \in Nat /\ o.guarded \in BOOLEAN
      /\ o.escCloses \in Dialogs \cup {0}
  BY DEF OverlayRecords
<1>1. Instances(o) = ToSet(o.instances)
  BY DEF Instances, ToSet
<1>2. f \in OverlayElements \ ToSet(o.instances) /\ olds \in Seq(OverlayElements)
      /\ IsInjective(olds) /\ ToSet(olds) = ToSet(o.old) \ {f}
  <2>1. CASE o.old = <<>>
    <3>1. f \in OverlayElements \ ToSet(o.instances)
      BY <1>1, <2>1
    <3>2. ToSet(o.old) = {}
      BY <2>1 DEF ToSet
    <3> QED BY <1>0, <2>1, <3>1, <3>2
  <2>2. CASE o.old # <<>>
    <3>1. /\ Front(o.old) \in Seq(OverlayElements) /\ IsInjective(Front(o.old))
          /\ Last(o.old) \in OverlayElements /\ Last(o.old) \in ToSet(o.old)
          /\ ToSet(Front(o.old)) = ToSet(o.old) \ {Last(o.old)}
      BY <1>0, <2>2, FrontAndLast
    <3> QED BY <2>2, <3>1
  <2> QED BY <2>1, <2>2
<1>3. p = [o EXCEPT !.instances = more, !.attached = @ \cup {f}, !.old = olds,
                    !.pending = IF o.instances = <<>> THEN @ + 1 ELSE @,
                    !.escCloses = IF o.instances = <<>> THEN d ELSE @]
  BY DEF Created, OverlayRecords
<1>a. e = Last(p.instances)
  OBVIOUS
<1> HIDE DEF f, olds, p, e
<1>4. more \in Seq(OverlayElements) /\ IsInjective(more)
      /\ ToSet(more) = ToSet(o.instances) \cup {f}
  BY <1>0, <1>2, AppendedApart
<1>5. Last(more) = f /\ more # <<>>
  BY <1>0, <1>2 DEF Last
<1> HIDE DEF more
<1>6. /\ p.instances = more /\ p.attached = o.attached \cup {f} /\ p.old = olds
      /\ p.z = o.z /\ p.maxZ = o.maxZ /\ p.guarded = o.guarded
      /\ p.pending = IF o.instances = <<>> THEN o.pending + 1 ELSE o.pending
      /\ p.escCloses = IF o.instances = <<>> THEN d ELSE o.escCloses
  BY <1>3 DEF OverlayRecords
<1>7. e = f
  BY <1>5, <1>6, <1>a
<1>8. p.pending \in Nat
  BY <1>0, <1>6
<1>9. p.escCloses \in Dialogs \cup {0}
  BY <1>0, <1>6
<1>10. p = [instances |-> more, old |-> olds, attached |-> o.attached \cup {f}, z |-> o.z,
            maxZ |-> o.maxZ, pending |-> p.pending, guarded |-> o.guarded,
            escCloses |-> p.escCloses]
  BY <1>3 DEF OverlayRecords
<1>11. p \in OverlayRecords
  BY <1>10, <1>0, <1>2, <1>4, <1>8, <1>9 DEF OverlayRecords
<1>12. ToSet(p.instances) \cap ToSet(p.old) = {}
  BY <1>2, <1>4, <1>6
<1>13. OverlayAdded(o, p, e, d)
  BY <1>2, <1>4, <1>5, <1>6, <1>7, <1>11, <1>12 DEF OverlayAdded
<1> QED BY <1>13 DEF p, e

\* Finitely many dialogs are open.
LEMMA OpenOnesFinite ==
  ASSUME NEW n
  PROVE  IsFiniteSet(OpenOnes(n)) /\ IsFiniteSet(OpenModals(n))
BY DialogsAssumption, FS_Subset DEF OpenOnes, OpenModals

(***************************************************************************)
(* A dialog d goes: it is not open any more, its overlay goes with it and  *)
(* maxZ stays above the others.                                            *)
(***************************************************************************)
LEMMA DialogGoes ==
  ASSUME NEW n, DialogsSound(n), NEW d \in Dialogs, NEW r \in DialogRecords,
         ~r.open, r.z = n.dialog[d].z, r.overlay = n.dialog[d].overlay,
         NEW m \in [dialog : {[n.dialog EXCEPT ![d] = r]},
                    overlays : {IF r.overlay = 0 THEN n.overlays
                                ELSE OverlayDestroyed(n.overlays, r.overlay)},
                    maxZ : Nat, misused : BOOLEAN],
         n.misused => m.misused,
         r.overlay # 0 /\ ~n.dialog[d].open => m.misused,
         \A c \in OpenOnes(n) \ {d} :
            n.dialog[c].z <= n.maxZ /\ n.dialog[c].alive => n.dialog[c].z <= m.maxZ
  PROVE  DialogsSound(m)
<1> DEFINE o == n.overlays
           p == m.overlays
           e == r.overlay
<1>0. /\ n \in Everythings /\ o \in OverlayRecords /\ n.dialog \in [Dialogs -> DialogRecords]
      /\ IsInjective(o.instances) /\ IsInjective(o.old)
      /\ ToSet(o.instances) \cap ToSet(o.old) = {}
      /\ \A x \in ToSet(o.instances) : \E c \in OpenModals(n) : n.dialog[c].overlay = x
      /\ \A c \in Dialogs \ Modal : n.dialog[c].overlay = 0
  BY DEF DialogsSound, OverlaysKept, Everythings
<1>1. /\ m.dialog = [n.dialog EXCEPT ![d] = r] /\ m.maxZ \in Nat /\ m.misused \in BOOLEAN
      /\ p = (IF e = 0 THEN o ELSE OverlayDestroyed(o, e))
      /\ m = [dialog |-> m.dialog, overlays |-> p, maxZ |-> m.maxZ, misused |-> m.misused]
  OBVIOUS
<1>a. p = m.overlays /\ o = n.overlays /\ e = r.overlay /\ e = n.dialog[d].overlay
  OBVIOUS
<1> HIDE DEF o, p, e
<1> USE <1>a
<1>2. /\ \A c \in Dialogs : m.dialog[c] = IF c = d THEN r ELSE n.dialog[c]
      /\ m.dialog \in [Dialogs -> DialogRecords]
      /\ OpenOnes(m) = OpenOnes(n) \ {d} /\ OpenModals(m) = OpenModals(n) \ {d}
  <2>1. \A c \in Dialogs : m.dialog[c] = IF c = d THEN r ELSE n.dialog[c]
    BY <1>0, <1>1
  <2>2. m.dialog \in [Dialogs -> DialogRecords]
    BY <1>0, <1>1
  <2> QED BY <2>1, <2>2 DEF OpenOnes, OpenModals
<1>b. ASSUME e # 0
      PROVE  /\ p \in OverlayRecords /\ IsInjective(p.instances) /\ IsInjective(p.old)
             /\ ToSet(p.instances) \cap ToSet(p.old) = {}
             /\ ToSet(p.instances) = ToSet(o.instances) \ {e}
             /\ p.attached = o.attached \ {e} /\ p.z = o.z /\ p.pending = o.pending
             /\ p.guarded = (o.guarded /\ p.instances # <<>>)
             /\ p.escCloses = IF p.instances = <<>> THEN 0 ELSE o.escCloses
             /\ p.maxZ = Highest(p)
  <2>1. p = OverlayDestroyed(o, e)
    BY <1>1, <1>b
  <2> HIDE <1>a
  <2>2. /\ o \in OverlayRecords /\ IsInjective(o.instances) /\ IsInjective(o.old)
        /\ ToSet(o.instances) \cap ToSet(o.old) = {}
    BY <1>0
  <2>3. p \in OverlayRecords
    BY ONLY <2>1, <2>2, OverlayGoes
  <2>4. IsInjective(p.instances) /\ IsInjective(p.old)
        /\ ToSet(p.instances) \cap ToSet(p.old) = {}
    BY ONLY <2>1, <2>2, OverlayGoes
  <2>5. /\ ToSet(p.instances) = ToSet(o.instances) \ {e}
        /\ p.attached = o.attached \ {e} /\ p.z = o.z /\ p.pending = o.pending
    BY ONLY <2>1, <2>2, OverlayGoes
  <2>6. p.guarded = (o.guarded /\ p.instances # <<>>)
    BY ONLY <2>1, <2>2, OverlayGoes
  <2>7. /\ p.escCloses = IF p.instances = <<>> THEN 0 ELSE o.escCloses
        /\ p.maxZ = Highest(p)
    BY ONLY <2>1, <2>2, OverlayGoes
  <2> QED BY ONLY <2>3, <2>4, <2>5, <2>6, <2>7
<1>3. /\ p \in OverlayRecords /\ IsInjective(p.instances) /\ IsInjective(p.old)
      /\ ToSet(p.instances) \cap ToSet(p.old) = {}
      /\ ToSet(p.instances) = ToSet(o.instances) \ {e}
      /\ p.z = o.z /\ p.pending = o.pending
  <2>1. CASE e = 0
    <3>1. ToSet(o.instances) \subseteq OverlayElements
      BY <1>0 DEF ToSet, OverlayRecords
    <3> QED BY <1>0, <1>1, <2>1, <3>1, OverlayElementsFinite
  <2>2. CASE e # 0
    BY <1>b, <2>2
  <2> QED BY <2>1, <2>2
<1>4. m \in Everythings
  BY <1>1, <1>2, <1>3 DEF Everythings
<1>5. ASSUME NEW x \in ToSet(p.instances)
      PROVE  \E c \in OpenModals(m) : m.dialog[c].overlay = x
  <2>1. x \in ToSet(o.instances) /\ x # e
    BY <1>3, <1>5
  <2>2. PICK c \in OpenModals(n) : n.dialog[c].overlay = x
    BY <1>0, <2>1
  <2>3. c # d /\ c \in Dialogs
    BY <2>1, <2>2 DEF OpenModals, OpenOnes
  <2> QED BY <1>2, <2>2, <2>3
<1>6. \A c \in Dialogs \ Modal : m.dialog[c].overlay = 0
  BY <1>0, <1>2
<1>7. OverlaysKept(m)
  BY <1>3, <1>4, <1>5, <1>6 DEF OverlaysKept
<1>8. ASSUME ~m.misused PROVE EachHasItsOwn(m) /\ EventsGuarded(m)
  <2>1. EachHasItsOwn(n) /\ EventsGuarded(n)
    BY <1>0, <1>8 DEF DialogsSound, Everythings
  <2>2. e # 0 => d \in OpenModals(n)
    BY <1>0, <1>8 DEF OpenModals, OpenOnes
  <2>3. \A c \in OpenModals(m) : c \in OpenModals(n) /\ c # d /\ m.dialog[c] = n.dialog[c]
                                 /\ n.dialog[c].overlay \in ToSet(o.instances)
    BY <1>2, <2>1 DEF OpenModals, OpenOnes, EachHasItsOwn
  <2>4. \A c \in OpenModals(m) : m.dialog[c].overlay \in ToSet(p.instances)
    BY <1>3, <2>1, <2>2, <2>3 DEF EachHasItsOwn
  <2>5. p.attached = ToSet(p.instances)
        /\ p.maxZ = Highest(p)
    <3>1. CASE e = 0
      BY <1>1, <2>1, <3>1 DEF EachHasItsOwn
    <3>2. CASE e # 0
      <4>1. p.attached = o.attached \ {e}
            /\ p.maxZ = Highest(p)
        BY <1>b, <3>2
      <4> QED BY <1>3, <2>1, <4>1 DEF EachHasItsOwn
    <3> QED BY <3>1, <3>2
  <2>6. \A c \in OpenOnes(m) : c \in OpenOnes(n) /\ c # d /\ m.dialog[c] = n.dialog[c]
    BY <1>2 DEF OpenOnes
  <2>7. \A c \in OpenModals(m) : m.dialog[c].z = p.z[m.dialog[c].overlay] + 1
    BY <1>3, <2>1, <2>3 DEF EachHasItsOwn
  <2>8. \A c \in OpenOnes(m) : m.dialog[c].z <= m.maxZ /\ m.dialog[c].alive
    BY <2>1, <2>6 DEF EachHasItsOwn
  <2>9. /\ \A b, c \in OpenModals(m) : m.dialog[b].overlay = m.dialog[c].overlay => b = c
        /\ \A b, c \in OpenOnes(m) : m.dialog[b].z = m.dialog[c].z => b = c
    BY <2>1, <2>3, <2>6 DEF EachHasItsOwn
  <2>10. EachHasItsOwn(m)
    BY <2>4, <2>5, <2>7, <2>8, <2>9 DEF EachHasItsOwn
  <2>11. EventsGuarded(m)
    <3>1. CASE e = 0
      BY <1>1, <2>1, <3>1 DEF EventsGuarded
    <3>2. CASE e # 0
      <4>1. /\ p.guarded = (o.guarded /\ p.instances # <<>>)
            /\ p.escCloses = IF p.instances = <<>> THEN 0 ELSE o.escCloses
        BY <1>b, <3>2
      <4>2. o.instances # <<>>
        <5>1. e \in ToSet(o.instances)
          BY <2>1, <2>2, <3>2 DEF EachHasItsOwn
        <5> QED BY <5>1 DEF ToSet
      <4> QED BY <1>3, <2>1, <4>1, <4>2 DEF EventsGuarded
    <3> QED BY <3>1, <3>2
  <2> QED BY <2>10, <2>11
<1> QED BY <1>7, <1>8 DEF DialogsSound

LEMMA ClosingIsSound ==
  ASSUME NEW n, DialogsSound(n), NEW d \in Dialogs
  PROVE  DialogsSound(ClosedDialog(n, d))
<1> DEFINE slow   == d \in HidesSlowly /\ n.dialog[d].visible
           others == {c \in Dialogs \ {d} : n.dialog[c].alive}
           zs     == {n.dialog[c].z : c \in others}
           top    == IF d \notin Modal THEN n.maxZ ELSE Max({0} \cup zs)
           mis    == n.misused \/ (d \in Modal /\ ~n.dialog[d].open)
           r      == [n.dialog[d] EXCEPT !.open = FALSE, !.hiding = slow, !.visible = slow]
           m      == ClosedDialog(n, d)
<1>0. /\ n.dialog \in [Dialogs -> DialogRecords] /\ n.dialog[d] \in DialogRecords
      /\ n.maxZ \in Nat /\ n.misused \in BOOLEAN
      /\ \A c \in Dialogs \ Modal : n.dialog[c].overlay = 0
  BY DEF DialogsSound, OverlaysKept, Everythings
<1>1. slow \in BOOLEAN
  BY <1>0 DEF DialogRecords
<1> HIDE DEF slow
<1>2. /\ r \in DialogRecords /\ ~r.open /\ r.z = n.dialog[d].z
      /\ r.overlay = n.dialog[d].overlay
  BY <1>0, <1>1 DEF DialogRecords
<1>3. zs \in SUBSET Nat /\ IsFiniteSet(zs)
  <2>1. IsFiniteSet(others)
    BY DialogsAssumption, FS_Subset
  <2>2. [c \in others |-> n.dialog[c].z] \in Surjection(others, zs)
    BY DEF Surjection
  <2>3. zs \in SUBSET Nat
    BY <1>0 DEF DialogRecords
  <2> HIDE DEF zs, others
  <2> QED BY <2>1, <2>2, <2>3, FS_Surjection
<1>4. Max({0} \cup zs) \in Nat /\ \A x \in zs : x <= Max({0} \cup zs)
  <2> HIDE DEF zs
  <2> QED BY <1>3, GreatestOf
<1>5. mis \in BOOLEAN /\ top \in Nat
  BY <1>0, <1>4
<1>6. m.dialog = [n.dialog EXCEPT ![d] = r]
  BY <1>0 DEF ClosedDialog, slow, DialogRecords
<1>7. /\ m.overlays = IF r.overlay = 0 THEN n.overlays
                      ELSE OverlayDestroyed(n.overlays, r.overlay)
      /\ m.maxZ = top /\ m.misused = mis
      /\ m = [dialog |-> m.dialog, overlays |-> m.overlays, maxZ |-> m.maxZ,
              misused |-> m.misused]
  BY <1>2 DEF ClosedDialog
<1> HIDE DEF m, r
<1>8. m \in [dialog : {[n.dialog EXCEPT ![d] = r]},
             overlays : {IF r.overlay = 0 THEN n.overlays
                         ELSE OverlayDestroyed(n.overlays, r.overlay)},
             maxZ : Nat, misused : BOOLEAN]
  BY <1>5, <1>6, <1>7
<1>9. n.misused => m.misused
  BY <1>7
<1>10. r.overlay # 0 /\ ~n.dialog[d].open => m.misused
  BY <1>0, <1>2, <1>7
<1>11. ASSUME NEW c \in OpenOnes(n) \ {d}, n.dialog[c].z <= n.maxZ, n.dialog[c].alive
       PROVE  n.dialog[c].z <= m.maxZ
  <2>1. c \in others
    BY <1>11 DEF OpenOnes
  <2>2. n.dialog[c].z \in zs
    BY <2>1
  <2> QED BY <1>4, <1>7, <1>11, <2>2
<1> HIDE DEF others, zs, top, mis
<1> QED BY <1>2, <1>8, <1>9, <1>10, <1>11, DialogGoes DEF m

\* While a dialog is closed not all of the elements are shown.
LEMMA OneIsFree ==
  ASSUME NEW n, DialogsSound(n), NEW d \in Dialogs, ~n.dialog[d].open
  PROVE  OverlayElements \ ToSet(n.overlays.instances) # {}
<1> DEFINE held == ToSet(n.overlays.instances)
           ours  == {c \in OpenModals(n) : n.dialog[c].overlay \in held}
           f     == [c \in ours |-> n.dialog[c].overlay]
<1> SUFFICES ASSUME OverlayElements \subseteq held PROVE FALSE
  OBVIOUS
<1>1. /\ \A e \in held : \E c \in OpenModals(n) : n.dialog[c].overlay = e
      /\ held \subseteq OverlayElements
  <2>1. n.overlays.instances \in Seq(OverlayElements)
    BY DEF DialogsSound, OverlaysKept, Everythings, OverlayRecords
  <2>2. held \subseteq OverlayElements
    BY <2>1 DEF ToSet
  <2> QED BY <2>2 DEF DialogsSound, OverlaysKept
<1>2. f \in Surjection(ours, held)
  <2>1. f \in [ours -> held]
    OBVIOUS
  <2>2. ASSUME NEW e \in held PROVE \E c \in ours : f[c] = e
    BY <1>1
  <2> QED BY <2>1, <2>2 DEF Surjection
<1>3. ours \subseteq Dialogs \ {d}
  BY DEF OpenModals, OpenOnes
<1>4. IsFiniteSet(Dialogs \ {d}) /\ Cardinality(Dialogs \ {d}) = Cardinality(Dialogs) - 1
  BY DialogsAssumption, FS_RemoveElement
<1> HIDE DEF f, ours, held
<1>5. IsFiniteSet(ours) /\ Cardinality(ours) <= Cardinality(Dialogs \ {d})
  BY <1>3, <1>4, FS_Subset
<1>6. Cardinality(held) <= Cardinality(ours)
  BY <1>2, <1>5, FS_Surjection
<1>7. held = OverlayElements
  BY <1>1
<1>b. Cardinality(held) = Cardinality(Dialogs)
  BY <1>7, OverlayElementsFinite
<1>9. Cardinality(ours) \in Nat /\ Cardinality(Dialogs) \in Nat
  BY <1>5, FS_CardinalityType, OverlayElementsFinite
<1> QED BY <1>4, <1>5, <1>6, <1>b, <1>9

\* The same at height top.
OverlayShown(b, p, e, top, d) ==
    /\ IsInjective(p.instances) /\ IsInjective(p.old)
    /\ ToSet(p.instances) \cap ToSet(p.old) = {}
    /\ e \in OverlayElements \ ToSet(b.instances) /\ p.instances # <<>>
    /\ ToSet(p.instances) = ToSet(b.instances) \cup {e}
    /\ p.attached = b.attached \cup {e}
    /\ p.maxZ = top /\ p.z = [b.z EXCEPT ![e] = top]
    /\ p.guarded = b.guarded
    /\ p.pending = (IF b.instances = <<>> THEN b.pending + 1 ELSE b.pending)
    /\ p.escCloses = (IF b.instances = <<>> THEN d ELSE b.escCloses)

(***************************************************************************)
(* A dialog d comes to the top, at height top + 1: with an overlay e of    *)
(* its own right below it if it is modal, and above all that are open.     *)
(***************************************************************************)
LEMMA DialogComes ==
  ASSUME NEW n, DialogsSound(n), NEW d \in Dialogs, d \notin OpenOnes(n),
         NEW top \in Nat, top >= n.maxZ, d \in Modal => top > n.maxZ,
         NEW r \in DialogRecords, r.open, r.alive, r.z = top + 1,
         d \notin Modal => r.overlay = 0,
         NEW m \in Everythings, m.dialog = [n.dialog EXCEPT ![d] = r], m.maxZ = top + 1,
         m.misused = n.misused,
         d \notin Modal => m.overlays = n.overlays,
         d \in Modal => OverlayShown(n.overlays, m.overlays, r.overlay, top, d)
  PROVE  DialogsSound(m)
<1> DEFINE b == n.overlays
           p == m.overlays
           e == r.overlay
<1>0. /\ n \in Everythings /\ b \in OverlayRecords /\ n.dialog \in [Dialogs -> DialogRecords]
      /\ n.dialog[d] \in DialogRecords /\ n.maxZ \in Nat /\ n.misused \in BOOLEAN
      /\ IsInjective(b.instances) /\ IsInjective(b.old)
      /\ ToSet(b.instances) \cap ToSet(b.old) = {}
      /\ \A x \in ToSet(b.instances) : \E c \in OpenModals(n) : n.dialog[c].overlay = x
      /\ \A c \in Dialogs \ Modal : n.dialog[c].overlay = 0
  BY DEF DialogsSound, OverlaysKept, Everythings
<1>a. d \notin Modal => p = b
  OBVIOUS
<1>b. p \in OverlayRecords
  BY DEF Everythings
<1>c. b = n.overlays /\ p = m.overlays /\ e = r.overlay
  OBVIOUS
<1>3. ASSUME d \in Modal
      PROVE  /\ IsInjective(p.instances) /\ IsInjective(p.old)
             /\ ToSet(p.instances) \cap ToSet(p.old) = {}
             /\ e \in OverlayElements \ ToSet(b.instances) /\ p.instances # <<>>
             /\ ToSet(p.instances) = ToSet(b.instances) \cup {e}
             /\ p.attached = b.attached \cup {e}
             /\ p.maxZ = top /\ p.z = [b.z EXCEPT ![e] = top]
             /\ p.guarded = b.guarded
             /\ p.pending = (IF b.instances = <<>> THEN b.pending + 1 ELSE b.pending)
             /\ p.escCloses = (IF b.instances = <<>> THEN d ELSE b.escCloses)
  BY <1>3 DEF OverlayShown
<1> HIDE DEF b, p, e
<1> USE <1>c
<1>6. /\ \A c \in Dialogs : m.dialog[c] = IF c = d THEN r ELSE n.dialog[c]
      /\ m.dialog \in [Dialogs -> DialogRecords]
  BY <1>0
<1>7. /\ OpenOnes(m) = OpenOnes(n) \cup {d} /\ d \notin OpenOnes(n)
      /\ OpenModals(m) = OpenModals(n) \cup (Modal \cap {d}) /\ d \notin OpenModals(n)
  BY <1>6 DEF OpenOnes, OpenModals
<1>9. OverlaysKept(m)
  <2>1. /\ IsInjective(p.instances) /\ IsInjective(p.old)
        /\ ToSet(p.instances) \cap ToSet(p.old) = {}
    BY <1>0, <1>3, <1>a
  <2>2. ASSUME NEW x \in ToSet(p.instances)
        PROVE  \E c \in OpenModals(m) : m.dialog[c].overlay = x
    <3>1. CASE d \in Modal /\ x = e
      BY <1>6, <1>7, <3>1
    <3>2. CASE ~(d \in Modal /\ x = e)
      <4>1. x \in ToSet(b.instances)
        BY <1>3, <1>a, <2>2, <3>2
      <4>2. PICK c \in OpenModals(n) : n.dialog[c].overlay = x
        BY <1>0, <4>1
      <4> QED BY <1>6, <1>7, <4>2 DEF OpenModals, OpenOnes
    <3> QED BY <3>1, <3>2
  <2>3. \A c \in Dialogs \ Modal : m.dialog[c].overlay = 0
    BY <1>0, <1>6
  <2> QED BY <1>b, <1>c, <2>1, <2>2, <2>3 DEF OverlaysKept
<1>10. ASSUME ~n.misused PROVE EachHasItsOwn(m) /\ EventsGuarded(m)
  <2>1. EachHasItsOwn(n) /\ EventsGuarded(n)
    BY <1>10 DEF DialogsSound
  <2>2. /\ \A c \in OpenOnes(n) : m.dialog[c] = n.dialog[c] /\ n.dialog[c].z <= n.maxZ
                                  /\ n.dialog[c].z \in Nat /\ n.dialog[c].alive
        /\ \A c \in OpenModals(n) : n.dialog[c].overlay \in ToSet(b.instances)
                                    /\ c \in OpenOnes(n)
                                    /\ n.dialog[c].z = b.z[n.dialog[c].overlay] + 1
        /\ m.dialog[d] = r
    BY <1>0, <1>6, <1>7, <1>c, <2>1 DEF EachHasItsOwn, OpenOnes, OpenModals, DialogRecords
  <2>3. \A c \in OpenModals(m) : m.dialog[c].overlay \in ToSet(p.instances)
    BY <1>3, <1>7, <1>a, <2>2
  <2>4. \A x, y \in OpenModals(m) : m.dialog[x].overlay = m.dialog[y].overlay => x = y
    BY <1>3, <1>7, <2>1, <2>2 DEF EachHasItsOwn
  <2>5. p.attached = ToSet(p.instances)
    <3>1. b.attached = ToSet(b.instances)
      BY <2>1 DEF EachHasItsOwn
    <3> QED BY <3>1, <1>3, <1>a, <1>c, <2>1 DEF EachHasItsOwn
  <2>6. \A c \in OpenModals(m) : m.dialog[c].z = p.z[m.dialog[c].overlay] + 1
    <3>1. CASE d \in Modal
      <4>1. b.z \in [OverlayElements -> Nat] /\ e \in OverlayElements
            /\ ToSet(b.instances) \subseteq OverlayElements /\ e \notin ToSet(b.instances)
        BY <1>0, <1>3, <3>1 DEF OverlayRecords, ToSet
      <4> QED BY <1>3, <1>7, <2>2, <3>1, <4>1
    <3>2. CASE d \notin Modal
      BY <1>7, <1>a, <2>2, <3>2
    <3> QED BY <3>1, <3>2
  <2>7. \A c \in OpenOnes(m) : m.dialog[c].z <= m.maxZ /\ m.dialog[c].alive
    BY <1>0, <1>7, <1>a, <2>2
  <2>8. \A x, y \in OpenOnes(m) : m.dialog[x].z = m.dialog[y].z => x = y
    BY <1>0, <1>7, <2>1, <2>2 DEF EachHasItsOwn
  <2>9. p.maxZ = Highest(p)
    <3>1. CASE d \in Modal
      <4>1. /\ p.z \in [OverlayElements -> Nat] /\ ToSet(p.instances) \subseteq OverlayElements
            /\ e \in ToSet(p.instances) /\ p.z[e] = top /\ p.maxZ = top
        <5>1. p.z \in [OverlayElements -> Nat] /\ p.instances \in Seq(OverlayElements)
              /\ b.z \in [OverlayElements -> Nat]
          BY <1>0, <1>b DEF OverlayRecords
        <5>2. ToSet(p.instances) \subseteq OverlayElements
          BY <5>1 DEF ToSet
        <5>3. /\ e \in OverlayElements /\ e \in ToSet(p.instances) /\ p.maxZ = top
              /\ p.z = [b.z EXCEPT ![e] = top]
          BY <1>3, <3>1
        <5>4. p.z[e] = top
          BY <5>1, <5>3
        <5> QED BY <5>1, <5>2, <5>3, <5>4
      <4> DEFINE hs == {p.z[x] : x \in ToSet(p.instances)}
      <4>2. ASSUME NEW x \in ToSet(p.instances), x # e PROVE p.z[x] <= top
        <5>1. x \in ToSet(b.instances)
          BY <1>3, <3>1, <4>2
        <5>2. PICK c \in OpenModals(n) : n.dialog[c].overlay = x
          BY <1>0, <5>1
        <5>3. /\ p.z[x] \in Nat /\ c \in OpenModals(m) /\ m.dialog[c].z = p.z[x] + 1
              /\ m.dialog[c].z <= n.maxZ
          BY <1>7, <2>2, <2>6, <4>1, <5>2
        <5> QED BY <1>0, <5>3
      <4>3. top \in hs /\ \A y \in {0} \cup hs : y <= top
        BY <4>1, <4>2
      <4>4. /\ Max({0} \cup hs) \in {0} \cup hs /\ \A y \in {0} \cup hs : y <= Max({0} \cup hs)
            /\ Max({0} \cup hs) \in Nat
        BY <4>1, HeightsOf
      <4> HIDE DEF hs
      <4>5. Max({0} \cup hs) <= top /\ top <= Max({0} \cup hs)
        BY <4>3, <4>4
      <4> DEFINE high == Max({0} \cup hs)
      <4> HIDE DEF high
      <4>6. high \in Nat /\ high <= top /\ top <= high
        BY <4>4, <4>5 DEF high
      <4>7. high = top
        BY ONLY <4>6, top \in Nat
      <4> QED BY <4>1, <4>7 DEF hs, Highest, high
    <3>2. CASE d \notin Modal
      BY <1>a, <1>c, <2>1, <3>2 DEF EachHasItsOwn
    <3> QED BY <3>1, <3>2
  <2>10. EachHasItsOwn(m)
    BY <1>c, <2>3, <2>4, <2>5, <2>6, <2>7, <2>8, <2>9 DEF EachHasItsOwn
  <2>11. EventsGuarded(m)
    <3>1. CASE d \in Modal
      <4>1. b.pending \in Nat /\ d # 0
        BY <1>0, DialogsAssumption DEF OverlayRecords
      <4> QED BY <1>3, <1>c, <2>1, <3>1, <4>1 DEF EventsGuarded
    <3>2. CASE d \notin Modal
      BY <1>a, <1>c, <2>1, <3>2 DEF EventsGuarded
    <3> QED BY <3>1, <3>2
  <2> QED BY <2>10, <2>11
<1> QED BY <1>9, <1>10, <1>a DEF DialogsSound

LEMMA DialogsInvInit == DialogsInit => DialogsInv
<1> SUFFICES ASSUME DialogsInit PROVE DialogsInv
  OBVIOUS
<1> DEFINE n == Everything
           dl == [d \in Dialogs |-> [alive |-> TRUE, open |-> FALSE, visible |-> FALSE,
                                     hiding |-> FALSE, z |-> ZIndex, overlay |-> 0]]
           o == [instances |-> <<>>, old |-> <<>>, attached |-> {},
                 z |-> [e \in OverlayElements |-> 0], maxZ |-> 0, pending |-> 0,
                 guarded |-> FALSE, escCloses |-> 0]
<1>1. /\ n = [dialog |-> dl, overlays |-> o, maxZ |-> 0, misused |-> FALSE]
      /\ dialog = dl /\ revived = {} /\ dialogMoves = 0
  BY DEF DialogsInit, Everything
<1>2. 0 \in 0..Cardinality(Dialogs) /\ 0 \in 0..MaxDialogMoves
  BY OverlayElementsFinite, DialogsAssumption
<1>3. dl \in [Dialogs -> DialogRecords]
  BY <1>2, DialogsAssumption DEF DialogRecords
<1>4. ToSet(o.instances) = {} /\ ToSet(o.old) = {} /\ o.instances = <<>> /\ o.attached = {}
      /\ IsInjective(o.instances) /\ IsInjective(o.old) /\ o.maxZ = 0 /\ o.escCloses = 0
      /\ o.guarded = FALSE
  BY DEF ToSet, IsInjective
<1>5. o \in OverlayRecords
  <2>1. <<>> \in Seq(OverlayElements) /\ [e \in OverlayElements |-> 0] \in [OverlayElements -> Nat]
    OBVIOUS
  <2> QED BY <2>1 DEF OverlayRecords
<1>6. \A d \in Dialogs : dl[d].open = FALSE /\ dl[d].overlay = 0 /\ dl[d].hiding = FALSE
  OBVIOUS
<1>7. Highest(o) = 0
  <2>1. o.z \in [OverlayElements -> Nat] /\ ToSet(o.instances) = {}
    BY <1>4
  <2>2. {o.z[e] : e \in ToSet(o.instances)} = {}
    BY <2>1
  <2>3. Max({0} \cup {}) \in {0} \cup {}
    BY FS_EmptySet, GreatestOf
  <2> QED BY <2>2, <2>3 DEF Highest
<1> HIDE DEF o, dl
<1>8. n.dialog = dl /\ n.overlays = o /\ n.maxZ = 0 /\ n.misused = FALSE
  BY <1>1
<1>9. n \in Everythings
  BY <1>1, <1>3, <1>5 DEF Everythings
<1> HIDE DEF n
<1>10. OpenOnes(n) = {} /\ OpenModals(n) = {}
  BY <1>6, <1>8 DEF OpenOnes, OpenModals
<1>11. OverlaysKept(n)
  BY <1>4, <1>6, <1>8, <1>9 DEF OverlaysKept
<1>12. EachHasItsOwn(n)
  BY <1>4, <1>7, <1>8, <1>10 DEF EachHasItsOwn
<1>13. EventsGuarded(n)
  BY <1>4, <1>8 DEF EventsGuarded
<1>14. SeenIfOpen(dl, revived)
  BY <1>6 DEF SeenIfOpen
<1> QED BY <1>1, <1>2, <1>11, <1>12, <1>13, <1>14 DEF DialogsInv, DialogsSound, n

LEMMA OpenKeeps ==
  ASSUME DialogsInv, NEW d \in Dialogs, Open(d)
  PROVE  DialogsInv'
<1> DEFINE n    == Everything
           o    == IF d \in Modal THEN Created(overlays, d) ELSE overlays
           e    == Last(o.instances)
           base == IF ZIndex > maxZ THEN ZIndex ELSE maxZ
           top  == IF d \in Modal THEN base + 1 ELSE base
           v    == IF d \in Modal THEN e ELSE 0
           r    == [dialog[d] EXCEPT !.open = TRUE, !.visible = TRUE, !.z = top + 1, !.overlay = v]
           m    == [dialog |-> dialog', overlays |-> overlays', maxZ |-> maxZ',
                    misused |-> misused']
<1>1. /\ dialogMoves < MaxDialogMoves /\ dialogMoves' = dialogMoves + 1
      /\ dialog[d].alive /\ ~dialog[d].open
      /\ overlays' = IF d \in Modal THEN [o EXCEPT !.z[e] = top, !.maxZ = top] ELSE o
      /\ maxZ' = top + 1 /\ misused' = misused
      /\ dialog' = [dialog EXCEPT ![d].open = TRUE, ![d].visible = TRUE, ![d].z = top + 1,
                                  ![d].overlay = v]
      /\ revived' = IF dialog[d].hiding THEN revived \cup {d} ELSE revived \ {d}
  BY DEF Open, DoneByPage
<1>2. /\ n = [dialog |-> dialog, overlays |-> overlays, maxZ |-> maxZ, misused |-> misused]
      /\ n.dialog = dialog /\ n.overlays = overlays /\ n.maxZ = maxZ /\ n.misused = misused
      /\ DialogsSound(n) /\ n \in Everythings
  BY DEF DialogsInv, DialogsSound, OverlaysKept, Everything
<1>3. /\ dialog \in [Dialogs -> DialogRecords] /\ dialog[d] \in DialogRecords
      /\ overlays \in OverlayRecords /\ maxZ \in Nat /\ misused \in BOOLEAN
      /\ IsInjective(overlays.instances) /\ IsInjective(overlays.old)
      /\ ToSet(overlays.instances) \cap ToSet(overlays.old) = {}
  BY <1>2 DEF DialogsSound, OverlaysKept, Everythings
<1>4. /\ top \in Nat /\ top >= maxZ
      /\ d \in Modal => top > maxZ
  BY <1>3, DialogsAssumption
<1>5. d \in Modal => o = Created(overlays, d) /\ e = Last(o.instances)
  OBVIOUS
<1>6. OverlayElements \ ToSet(overlays.instances) # {}
  BY <1>1, <1>2, OneIsFree
<1>7. d \notin Modal => o = overlays /\ v = 0
  OBVIOUS
<1>8. d \in Modal => v = e
  OBVIOUS
<1>9. m.dialog = [dialog EXCEPT ![d] = r]
  BY <1>1, <1>3 DEF DialogRecords
<1>10. m.overlays = overlays' /\ m.maxZ = top + 1 /\ m.misused = misused /\ Everything' = m
       /\ m = [dialog |-> m.dialog, overlays |-> m.overlays, maxZ |-> m.maxZ, misused |-> m.misused]
  BY <1>1 DEF Everything
<1>a. r = [dialog[d] EXCEPT !.open = TRUE, !.visible = TRUE, !.z = top + 1, !.overlay = v]
  OBVIOUS
<1> HIDE DEF n, o, e, base, top, v, r, m
<1>11. ASSUME d \in Modal
       PROVE  /\ overlays' \in OverlayRecords /\ e \in OverlayElements
              /\ OverlayShown(overlays, overlays', e, top, d)
  <2>1. OverlayAdded(overlays, o, e, d)
    BY ONLY <1>3, <1>5, <1>6, <1>11, OverlayComes
  <2>2. o \in OverlayRecords /\ e \in OverlayElements /\ o.z = overlays.z
    BY <2>1 DEF OverlayAdded
  <2>6. overlays' = [o EXCEPT !.z[e] = top, !.maxZ = top]
    BY <1>1, <1>11
  <2>7. /\ overlays' \in OverlayRecords /\ overlays'.instances = o.instances
        /\ overlays'.old = o.old /\ overlays'.attached = o.attached
        /\ overlays'.maxZ = top /\ overlays'.z = [o.z EXCEPT ![e] = top]
        /\ overlays'.pending = o.pending /\ overlays'.escCloses = o.escCloses
    BY ONLY <1>4, <2>2, <2>6 DEF OverlayRecords
  <2>8. overlays'.guarded = o.guarded
    BY ONLY <2>2, <2>6 DEF OverlayRecords
  <2> QED BY ONLY <2>1, <2>2, <2>7, <2>8 DEF OverlayShown, OverlayAdded
<1>12. v \in 0..Cardinality(Dialogs)
  <2>1. CASE d \in Modal
    BY <1>8, <1>11, <2>1, OverlayElementsFinite
  <2>2. CASE d \notin Modal
    BY <1>7, <2>2, OverlayElementsFinite
  <2> QED BY <2>1, <2>2
<1>13. /\ r \in DialogRecords /\ r.open /\ r.alive /\ r.z = top + 1 /\ r.overlay = v
       /\ r.visible /\ r.hiding = dialog[d].hiding
  <2>1. top + 1 \in Nat
    BY <1>4
  <2> QED BY ONLY <1>1, <1>3, <1>12, <1>a, <2>1 DEF DialogRecords
<1>14. m.dialog \in [Dialogs -> DialogRecords] /\ dialog' = m.dialog
  BY <1>3, <1>9, <1>13 DEF m
<1>15. overlays' \in OverlayRecords
  BY <1>1, <1>3, <1>7, <1>11
<1>16. m \in Everythings
  <2>1. top + 1 \in Nat
    BY <1>4
  <2> QED BY ONLY <1>3, <1>10, <1>14, <1>15, <2>1 DEF Everythings
<1>17. DialogsSound(m)
  <2>1. d \notin OpenOnes(n)
    BY <1>1, <1>2 DEF OpenOnes
  <2>2. d \notin Modal => m.overlays = n.overlays /\ r.overlay = 0
    BY <1>1, <1>2, <1>7, <1>10, <1>13
  <2>3. d \in Modal => OverlayShown(n.overlays, m.overlays, r.overlay, top, d)
    BY <1>2, <1>8, <1>10, <1>11, <1>13
  <2>4. m.dialog = [n.dialog EXCEPT ![d] = r] /\ m.maxZ = top + 1 /\ m.misused = n.misused
    BY <1>2, <1>9, <1>10
  <2> QED BY ONLY <1>2, <1>4, <1>13, <1>16, <2>1, <2>2, <2>3, <2>4, d \in Dialogs, DialogComes
<1>18. SeenIfOpen(dialog', revived')
  BY <1>1, <1>3, <1>9, <1>13, <1>14 DEF DialogsInv, SeenIfOpen
<1>19. dialogMoves' \in 0..MaxDialogMoves
  BY <1>1, DialogsAssumption DEF DialogsInv
<1> QED BY <1>10, <1>17, <1>18, <1>19 DEF DialogsInv

\* A record of everything, as the actions write it.
LEMMA EverythingBecomes ==
  ASSUME NEW m, m = [dialog |-> m.dialog, overlays |-> m.overlays, maxZ |-> m.maxZ,
                     misused |-> m.misused],
         BecomesAll(m)
  PROVE  Everything' = m /\ dialog' = m.dialog
BY DEF BecomesAll, Everything

LEMMA ClosedIsARecord ==
  ASSUME NEW n, NEW d
  PROVE  ClosedDialog(n, d) = [dialog |-> ClosedDialog(n, d).dialog,
                               overlays |-> ClosedDialog(n, d).overlays,
                               maxZ |-> ClosedDialog(n, d).maxZ,
                               misused |-> ClosedDialog(n, d).misused]
BY DEF ClosedDialog

LEMMA ClosingKeepsSeen ==
  ASSUME NEW n, DialogsSound(n), NEW d \in Dialogs, NEW excused, SeenIfOpen(n.dialog, excused)
  PROVE  SeenIfOpen(ClosedDialog(n, d).dialog, excused)
<1>1. n.dialog \in [Dialogs -> DialogRecords]
  BY DEF DialogsSound, OverlaysKept, Everythings
<1> QED BY <1>1 DEF SeenIfOpen, ClosedDialog, DialogRecords

LEMMA OneMoreMove ==
  ASSUME DialogsInv, DoneByPage PROVE dialogMoves' \in 0..MaxDialogMoves
BY DialogsAssumption DEF DialogsInv, DoneByPage

LEMMA CloseKeeps ==
  ASSUME DialogsInv, NEW d \in Dialogs, Close(d)
  PROVE  DialogsInv'
<1> DEFINE n == Everything
           m == ClosedDialog(n, d)
<1>1. DialogsSound(n) /\ SeenIfOpen(n.dialog, revived)
  BY DEF DialogsInv, Everything
<1>2. BecomesAll(m) /\ revived' = revived
  BY DEF Close
<1>3. DialogsSound(m) /\ SeenIfOpen(m.dialog, revived)
  BY <1>1, ClosingIsSound, ClosingKeepsSeen
<1>4. Everything' = m /\ dialog' = m.dialog
  BY <1>2, ClosedIsARecord, EverythingBecomes
<1>5. dialogMoves' \in 0..MaxDialogMoves
  BY OneMoreMove DEF Close
<1> HIDE DEF m
<1> QED BY <1>2, <1>3, <1>4, <1>5 DEF DialogsInv

LEMMA EscapeKeeps ==
  ASSUME DialogsInv, NEW d \in Dialogs \cup {0}, NEW keep \in SUBSET Dialogs, Escape(d, keep)
  PROVE  DialogsInv'
<1> DEFINE n      == Everything
           first  == IF d = 0 \/ d \in keep THEN n ELSE ClosedDialog(n, d)
           second == first.overlays.escCloses
           m      == IF second = 0 \/ second \in keep THEN first ELSE ClosedDialog(first, second)
<1>1. /\ DialogsSound(n) /\ SeenIfOpen(n.dialog, revived)
      /\ n = [dialog |-> n.dialog, overlays |-> n.overlays, maxZ |-> n.maxZ,
              misused |-> n.misused]
  BY DEF DialogsInv, Everything
<1>2. BecomesAll(m) /\ revived' = revived
  BY DEF Escape
<1>3. /\ DialogsSound(first) /\ SeenIfOpen(first.dialog, revived)
      /\ first = [dialog |-> first.dialog, overlays |-> first.overlays, maxZ |-> first.maxZ,
                  misused |-> first.misused]
  <2>1. CASE d = 0 \/ d \in keep
    <3>1. first = n
      BY <2>1
    <3> HIDE DEF first, n
    <3> QED BY <1>1, <3>1
  <2>2. CASE ~(d = 0 \/ d \in keep)
    <3>1. first = ClosedDialog(n, d) /\ d \in Dialogs
      BY <2>2
    <3>2. DialogsSound(ClosedDialog(n, d)) /\ SeenIfOpen(ClosedDialog(n, d).dialog, revived)
      BY <1>1, <3>1, ClosingIsSound, ClosingKeepsSeen
    <3> HIDE DEF first, n
    <3> QED BY <3>1, <3>2, ClosedIsARecord
  <2> QED BY <2>1, <2>2
<1> HIDE DEF first
<1>4. second \in Dialogs \cup {0}
  BY <1>3 DEF DialogsSound, OverlaysKept, Everythings, OverlayRecords
<1>5. /\ DialogsSound(m) /\ SeenIfOpen(m.dialog, revived)
      /\ m = [dialog |-> m.dialog, overlays |-> m.overlays, maxZ |-> m.maxZ,
              misused |-> m.misused]
  <2>1. CASE second = 0 \/ second \in keep
    <3>1. m = first
      BY <2>1
    <3> HIDE DEF m
    <3> QED BY <1>3, <3>1
  <2>2. CASE ~(second = 0 \/ second \in keep)
    <3>1. m = ClosedDialog(first, second) /\ second \in Dialogs
      BY <1>4, <2>2
    <3>2. DialogsSound(ClosedDialog(first, second))
          /\ SeenIfOpen(ClosedDialog(first, second).dialog, revived)
      BY <1>3, <3>1, ClosingIsSound, ClosingKeepsSeen
    <3> HIDE DEF m
    <3> QED BY <3>1, <3>2, ClosedIsARecord
  <2> QED BY <2>1, <2>2
<1> HIDE DEF m
<1>6. Everything' = m /\ dialog' = m.dialog
  BY <1>2, <1>5, EverythingBecomes
<1>7. dialogMoves' \in 0..MaxDialogMoves
  BY OneMoreMove DEF Escape
<1> QED BY <1>2, <1>5, <1>6, <1>7 DEF DialogsInv

\* What DialogsInv says of the variables themselves.
LEMMA DialogsTyped ==
  ASSUME DialogsInv
  PROVE  /\ dialog \in [Dialogs -> DialogRecords] /\ overlays \in OverlayRecords
         /\ maxZ \in Nat /\ misused \in BOOLEAN
BY DEF DialogsInv, DialogsSound, OverlaysKept, Everythings, Everything

LEMMA DestroyKeeps ==
  ASSUME DialogsInv, NEW d \in Dialogs, DestroyDialog(d)
  PROVE  DialogsInv'
<1> DEFINE n == Everything
           r == [dialog[d] EXCEPT !.alive = FALSE, !.open = FALSE, !.visible = FALSE,
                                  !.hiding = FALSE]
           m == [dialog |-> dialog', overlays |-> overlays', maxZ |-> maxZ',
                 misused |-> misused']
<1>1. /\ overlays' = (IF dialog[d].overlay = 0 THEN overlays
                      ELSE OverlayDestroyed(overlays, dialog[d].overlay))
      /\ misused' = (misused \/ (dialog[d].overlay # 0 /\ ~dialog[d].open))
      /\ maxZ' = maxZ /\ revived' = revived
      /\ dialog' = [dialog EXCEPT ![d].alive = FALSE, ![d].open = FALSE, ![d].visible = FALSE,
                                  ![d].hiding = FALSE]
  BY DEF DestroyDialog
<1>2. dialog \in [Dialogs -> DialogRecords] /\ dialog[d] \in DialogRecords /\ maxZ \in Nat
      /\ misused \in BOOLEAN
  BY DialogsTyped
<1>3. dialog' = [dialog EXCEPT ![d] = r]
  BY <1>1, <1>2 DEF DialogRecords
<1>4. /\ r \in DialogRecords /\ ~r.open /\ ~r.hiding /\ r.z = dialog[d].z
      /\ r.overlay = dialog[d].overlay
  BY <1>2 DEF DialogRecords
<1>5. /\ DialogsSound(n) /\ n.dialog = dialog /\ n.overlays = overlays /\ n.maxZ = maxZ
      /\ n.misused = misused
  BY DEF DialogsInv, Everything
<1> HIDE DEF n, r
<1>6. m \in [dialog : {[n.dialog EXCEPT ![d] = r]},
             overlays : {IF r.overlay = 0 THEN n.overlays
                         ELSE OverlayDestroyed(n.overlays, r.overlay)},
             maxZ : Nat, misused : BOOLEAN]
  BY <1>1, <1>2, <1>3, <1>4, <1>5
<1>7. m.misused = misused' /\ m.maxZ = maxZ /\ Everything' = m
  BY <1>1 DEF Everything
<1> HIDE DEF m
<1>8. DialogsSound(m)
  <2>1. n.misused => m.misused
    BY <1>1, <1>5, <1>7
  <2>2. r.overlay # 0 /\ ~n.dialog[d].open => m.misused
    BY <1>1, <1>4, <1>5, <1>7
  <2>3. \A c \in OpenOnes(n) \ {d} :
           n.dialog[c].z <= n.maxZ /\ n.dialog[c].alive => n.dialog[c].z <= m.maxZ
    BY <1>5, <1>7
  <2>4. r.z = n.dialog[d].z /\ r.overlay = n.dialog[d].overlay
    BY <1>4, <1>5
  <2> QED BY <1>4, <1>5, <1>6, <2>1, <2>2, <2>3, <2>4, DialogGoes
<1>9. SeenIfOpen(dialog', revived')
  BY <1>1, <1>2, <1>3, <1>4 DEF DialogsInv, SeenIfOpen
<1>10. dialogMoves' \in 0..MaxDialogMoves
  BY OneMoreMove DEF DestroyDialog
<1> QED BY <1>7, <1>8, <1>9, <1>10 DEF DialogsInv

\* The mouse raises a dialog that has no overlay; nobody else is as high.
LEMMA RaiseKeeps ==
  ASSUME DialogsInv, NEW d \in Dialogs, Raise(d)
  PROVE  DialogsInv'
<1> DEFINE n    == Everything
           base == IF ZIndex > maxZ THEN ZIndex ELSE maxZ
           m    == [dialog |-> dialog', overlays |-> overlays, maxZ |-> base + 1,
                    misused |-> misused]
<1>1. /\ dialog[d].open /\ dialog[d].visible /\ d \notin Modal
      /\ maxZ' = base + 1 /\ dialog' = [dialog EXCEPT ![d].z = base + 1]
      /\ overlays' = overlays /\ misused' = misused /\ revived' = revived
  BY DEF Raise
<1>2. /\ dialog \in [Dialogs -> DialogRecords] /\ dialog[d] \in DialogRecords
      /\ overlays \in OverlayRecords /\ maxZ \in Nat /\ misused \in BOOLEAN
  BY DialogsTyped
<1>3. base \in Nat /\ base >= maxZ /\ base + 1 \in Nat /\ base + 1 > maxZ
  BY <1>2, DialogsAssumption
<1>4. /\ m.dialog = dialog' /\ m.overlays = overlays /\ m.maxZ = base + 1
      /\ m.misused = misused /\ Everything' = m
  BY <1>1 DEF Everything
<1>5. /\ n.dialog = dialog /\ n.overlays = overlays /\ n.maxZ = maxZ /\ n.misused = misused
      /\ DialogsSound(n)
  BY DEF DialogsInv, Everything
<1>6. /\ dialog' \in [Dialogs -> DialogRecords] /\ dialog'[d].z = base + 1
      /\ \A c \in Dialogs : /\ c # d => dialog'[c] = dialog[c]
                            /\ dialog'[c].open = dialog[c].open
                            /\ dialog'[c].alive = dialog[c].alive
                            /\ dialog'[c].visible = dialog[c].visible
                            /\ dialog'[c].hiding = dialog[c].hiding
                            /\ dialog'[c].overlay = dialog[c].overlay
  <2>1. dialog'[d] = [dialog[d] EXCEPT !.z = base + 1]
        /\ \A c \in Dialogs : c # d => dialog'[c] = dialog[c]
    BY <1>1, <1>2
  <2> HIDE DEF base
  <2>2. dialog'[d] \in DialogRecords
    BY <1>2, <1>3, <2>1 DEF DialogRecords
  <2>3. dialog' \in [Dialogs -> DialogRecords]
    BY <1>1, <1>2, <2>2
  <2> QED BY <1>2, <2>1, <2>3 DEF DialogRecords
<1> HIDE DEF n, base
<1>7. m \in Everythings
  BY <1>2, <1>3, <1>6 DEF Everythings
<1> HIDE DEF m
<1>8. OpenOnes(m) = OpenOnes(n) /\ OpenModals(m) = OpenModals(n)
      /\ OpenModals(n) \subseteq OpenOnes(n) \ {d} /\ OpenOnes(n) \subseteq Dialogs
  BY <1>1, <1>4, <1>5, <1>6 DEF OpenOnes, OpenModals
<1>9. OverlaysKept(m)
  BY <1>4, <1>5, <1>6, <1>7, <1>8 DEF DialogsSound, OverlaysKept
<1>10. ASSUME ~n.misused PROVE EachHasItsOwn(m) /\ EventsGuarded(m)
  <2>1. EachHasItsOwn(n) /\ EventsGuarded(n)
    BY <1>5, <1>10 DEF DialogsSound
  <2>2. \A c \in OpenOnes(n) : dialog[c].z \in Nat /\ dialog[c].z <= maxZ /\ dialog[c].alive
    BY <1>2, <1>5, <1>8, <2>1 DEF EachHasItsOwn, DialogRecords
  <2>3. \A c \in OpenOnes(m) : m.dialog[c].z <= m.maxZ /\ m.dialog[c].alive
    BY <1>2, <1>3, <1>4, <1>6, <1>8, <2>2
  <2>4. \A c \in OpenOnes(n) : c # d => m.dialog[c].z # m.dialog[d].z
    BY <1>2, <1>3, <1>4, <1>6, <1>8, <2>2
  <2>5. \A b, c \in OpenOnes(m) : m.dialog[b].z = m.dialog[c].z => b = c
    <3>1. \A b, c \in OpenOnes(n) : dialog[b].z = dialog[c].z => b = c
      BY <1>5, <2>1 DEF EachHasItsOwn
    <3> QED BY <1>4, <1>6, <1>8, <2>4, <3>1
  <2>6. EachHasItsOwn(m)
    BY <1>4, <1>5, <1>6, <1>8, <2>1, <2>3, <2>5 DEF EachHasItsOwn
  <2>7. EventsGuarded(m)
    BY <1>4, <1>5, <2>1 DEF EventsGuarded
  <2> QED BY <2>6, <2>7
<1>11. DialogsSound(m)
  BY <1>4, <1>5, <1>9, <1>10 DEF DialogsSound
<1>12. SeenIfOpen(dialog', revived')
  BY <1>1, <1>6 DEF DialogsInv, SeenIfOpen
<1>13. dialogMoves' \in 0..MaxDialogMoves
  BY OneMoreMove DEF Raise
<1> QED BY <1>4, <1>11, <1>12, <1>13 DEF DialogsInv

LEMMA HideEndsKeeps ==
  ASSUME DialogsInv, NEW d \in Dialogs, HideEnds(d)
  PROVE  DialogsInv'
<1> DEFINE n == Everything
           m == [dialog |-> dialog', overlays |-> overlays, maxZ |-> maxZ, misused |-> misused]
<1>1. /\ dialog[d].hiding /\ dialog' = [dialog EXCEPT ![d].hiding = FALSE, ![d].visible = FALSE]
      /\ overlays' = overlays /\ maxZ' = maxZ /\ misused' = misused /\ revived' = revived
      /\ dialogMoves' = dialogMoves
  BY DEF HideEnds
<1>2. /\ dialog \in [Dialogs -> DialogRecords] /\ dialog[d] \in DialogRecords
      /\ overlays \in OverlayRecords /\ maxZ \in Nat /\ misused \in BOOLEAN
  BY DialogsTyped
<1>3. m.dialog = dialog' /\ m.overlays = overlays /\ m.maxZ = maxZ /\ m.misused = misused
      /\ Everything' = m
  BY <1>1 DEF Everything
<1>4. n.dialog = dialog /\ n.overlays = overlays /\ n.maxZ = maxZ /\ n.misused = misused
      /\ DialogsSound(n)
  BY DEF DialogsInv, Everything
<1>5. /\ dialog' \in [Dialogs -> DialogRecords] /\ ~dialog'[d].hiding
      /\ \A c \in Dialogs : /\ c # d => dialog'[c] = dialog[c]
                            /\ dialog'[c].open = dialog[c].open
                            /\ dialog'[c].alive = dialog[c].alive
                            /\ dialog'[c].z = dialog[c].z
                            /\ dialog'[c].overlay = dialog[c].overlay
  BY <1>1, <1>2 DEF DialogRecords
<1>6. m \in Everythings
  BY <1>2, <1>5 DEF Everythings
<1> HIDE DEF m, n
<1>7. OpenOnes(m) = OpenOnes(n) /\ OpenModals(m) = OpenModals(n) /\ OpenOnes(n) \subseteq Dialogs
      /\ OpenModals(n) \subseteq Dialogs
  BY <1>3, <1>4, <1>5 DEF OpenOnes, OpenModals
<1>8. OverlaysKept(m)
  BY <1>3, <1>4, <1>5, <1>6, <1>7 DEF DialogsSound, OverlaysKept
<1>9. EachHasItsOwn(n) => EachHasItsOwn(m)
  BY <1>3, <1>4, <1>5, <1>7 DEF EachHasItsOwn
<1>10. EventsGuarded(n) => EventsGuarded(m)
  BY <1>3, <1>4 DEF EventsGuarded
<1>11. DialogsSound(m)
  BY <1>3, <1>4, <1>8, <1>9, <1>10 DEF DialogsSound
<1>12. SeenIfOpen(dialog', revived')
  BY <1>1, <1>5 DEF DialogsInv, SeenIfOpen
<1> QED BY <1>1, <1>3, <1>11, <1>12 DEF DialogsInv

LEMMA BindGuardKeeps ==
  ASSUME DialogsInv, BindGuard
  PROVE  DialogsInv'
<1> DEFINE n == Everything
           m == [dialog |-> dialog, overlays |-> overlays', maxZ |-> maxZ, misused |-> misused]
           g == overlays.guarded \/ overlays.instances # <<>>
<1>1. /\ overlays.pending > 0
      /\ overlays' = [overlays EXCEPT !.pending = @ - 1, !.guarded = @ \/ overlays.instances # <<>>]
      /\ dialog' = dialog /\ maxZ' = maxZ /\ misused' = misused /\ revived' = revived
      /\ dialogMoves' = dialogMoves
  BY DEF BindGuard
<1>2. /\ dialog \in [Dialogs -> DialogRecords] /\ overlays \in OverlayRecords
      /\ maxZ \in Nat /\ misused \in BOOLEAN
  BY DialogsTyped
<1>3. /\ m.dialog = dialog /\ m.overlays = overlays' /\ m.maxZ = maxZ /\ m.misused = misused
      /\ Everything' = m
  BY <1>1 DEF Everything
<1>4. n.dialog = dialog /\ n.overlays = overlays /\ n.maxZ = maxZ /\ n.misused = misused
      /\ DialogsSound(n)
  BY DEF DialogsInv, Everything
<1>5. overlays.pending \in Nat /\ g \in BOOLEAN
  BY <1>2 DEF OverlayRecords
<1>6. overlays.pending - 1 \in Nat
  BY <1>1, <1>5
<1>7. overlays' = [overlays EXCEPT !.pending = overlays.pending - 1, !.guarded = g]
  BY <1>1, <1>2 DEF OverlayRecords
<1>g. g = (overlays.guarded \/ overlays.instances # <<>>)
  OBVIOUS
<1> HIDE DEF g
<1>8. /\ overlays' \in OverlayRecords /\ overlays'.instances = overlays.instances
      /\ overlays'.old = overlays.old /\ overlays'.attached = overlays.attached
      /\ overlays'.z = overlays.z /\ overlays'.maxZ = overlays.maxZ
      /\ overlays'.escCloses = overlays.escCloses
  BY <1>2, <1>5, <1>6, <1>7 DEF OverlayRecords
<1>9. overlays'.guarded = g
  BY <1>2, <1>7 DEF OverlayRecords
<1>10. m \in Everythings
  BY <1>2, <1>8 DEF Everythings
<1> HIDE DEF m, n
<1>11. OpenOnes(m) = OpenOnes(n) /\ OpenModals(m) = OpenModals(n)
  BY <1>3, <1>4 DEF OpenOnes, OpenModals
<1>12. OverlaysKept(m)
  BY <1>3, <1>4, <1>8, <1>10, <1>11 DEF DialogsSound, OverlaysKept
<1>13. Highest(overlays') = Highest(overlays)
  BY <1>8 DEF Highest
<1>14. EachHasItsOwn(n) => EachHasItsOwn(m)
  BY <1>3, <1>4, <1>8, <1>11, <1>13 DEF EachHasItsOwn
<1>15. EventsGuarded(n) => EventsGuarded(m)
  BY <1>3, <1>4, <1>8, <1>9, <1>g DEF EventsGuarded
<1>16. DialogsSound(m)
  BY <1>3, <1>4, <1>12, <1>14, <1>15 DEF DialogsSound
<1> QED BY <1>1, <1>3, <1>16 DEF DialogsInv

LEMMA DialogsInvStep == DialogsInv /\ [DialogsNext]_dialogVars => DialogsInv'
<1> SUFFICES ASSUME DialogsInv, [DialogsNext]_dialogVars PROVE DialogsInv'
  OBVIOUS
<1>1. CASE UNCHANGED dialogVars
  BY <1>1 DEF dialogVars, DialogsInv, Everything, SeenIfOpen
<1>2. CASE BindGuard
  BY <1>2, BindGuardKeeps
<1>3. CASE \E d \in Dialogs \cup {0}, keep \in SUBSET Dialogs : Escape(d, keep)
  BY <1>3, EscapeKeeps
<1>4. ASSUME NEW d \in Dialogs,
             Open(d) \/ Close(d) \/ Raise(d) \/ DestroyDialog(d) \/ HideEnds(d)
      PROVE  DialogsInv'
  BY <1>4, OpenKeeps, CloseKeeps, RaiseKeeps, DestroyKeeps, HideEndsKeeps
<1> QED BY <1>1, <1>2, <1>3, <1>4 DEF DialogsNext

LEMMA DialogsInvFits == DialogsInv => DialogsFit
<1> SUFFICES ASSUME DialogsInv PROVE DialogsFit
  OBVIOUS
<1> DEFINE n      == Everything
           open1  == {d \in Dialogs : dialog[d].open}
           modal  == open1 \cap Modal
           needed == {dialog[d].overlay : d \in modal}
<1>1. /\ n.dialog = dialog /\ n.overlays = overlays /\ n.maxZ = maxZ /\ n.misused = misused
      /\ OverlaysKept(n)
      /\ misused \/ (EachHasItsOwn(n) /\ EventsGuarded(n))
      /\ \A d \in Dialogs \ revived : dialog[d].open => dialog[d].visible
  BY DEF DialogsInv, DialogsSound, Everything, SeenIfOpen
<1>2. OpenOnes(n) = open1 /\ OpenModals(n) = modal
  BY <1>1 DEF OpenOnes, OpenModals
<1>3. Instances(overlays) = ToSet(overlays.instances)
  BY DEF Instances, ToSet
<1>4. overlays.instances \in Seq(OverlayElements) /\ IsInjective(overlays.instances)
  BY <1>1, DialogsTyped DEF OverlaysKept, OverlayRecords
<1>5. ASSUME ~misused PROVE OverlaysFit
  <2>1. EachHasItsOwn(n) /\ EventsGuarded(n)
    BY <1>1, <1>5
  <2>2. ToSet(overlays.instances) = needed
    BY <1>1, <1>2, <2>1 DEF OverlaysKept, EachHasItsOwn
  <2>3. Cardinality(needed) = Cardinality(modal)
    <3> DEFINE f == [d \in modal |-> dialog[d].overlay]
    <3>1. f \in Bijection(modal, needed)
      <4>1. \A c, d \in modal : f[c] = f[d] => c = d
        BY <1>1, <1>2, <2>1 DEF EachHasItsOwn
      <4> QED BY <4>1 DEF Bijection, Injection, Surjection, IsInjective
    <3>2. IsFiniteSet(modal)
      BY <1>2, OpenOnesFinite
    <3> HIDE DEF f, modal, needed
    <3>3. ExistsBijection(modal, needed)
      BY <3>1 DEF ExistsBijection
    <3> QED BY <3>2, <3>3, FS_Bijection
  <2>4. Len(overlays.instances) = Cardinality(needed)
    BY <1>4, <2>2, AsManyAsLong
  <2>5. overlays.instances # <<>> <=> modal # {}
    <3>1. overlays.instances # <<>> <=> ToSet(overlays.instances) # {}
      <4> DEFINE s == overlays.instances
      <4> HIDE DEF s
      <4>1. s \in Seq(OverlayElements)
        BY <1>4 DEF s
      <4>2. s # <<>> => s[1] \in ToSet(s)
        BY <4>1 DEF ToSet
      <4>3. s = <<>> => ToSet(s) = {}
        BY <4>1 DEF ToSet
      <4> QED BY <4>2, <4>3 DEF s
    <3> QED BY <2>2, <3>1
  <2>6. /\ overlays.attached = needed
        /\ \A d \in modal : dialog[d].z = overlays.z[dialog[d].overlay] + 1
        /\ \A d \in open1 : dialog[d].z <= maxZ
        /\ \A c, d \in open1 : dialog[c].z = dialog[d].z => c = d
    BY <1>1, <1>2, <2>1, <2>2 DEF EachHasItsOwn
  <2>7. overlays.maxZ = Max({0} \cup {overlays.z[e] : e \in needed})
    BY <1>1, <2>1, <2>2 DEF EachHasItsOwn, Highest
  <2>8. /\ (overlays.escCloses # 0) = (modal # {})
        /\ overlays.guarded => modal # {}
        /\ modal # {} => overlays.guarded \/ overlays.pending > 0
    BY <1>1, <2>1, <2>5 DEF EventsGuarded
  <2> QED BY <1>3, <2>2, <2>3, <2>4, <2>6, <2>7, <2>8 DEF OverlaysFit
<1> QED BY <1>1, <1>5 DEF DialogsFit

-----------------------------------------------------------------------------
(* The accordion.                                                          *)

AccRecords == [animated : BOOLEAN, collapsible : BOOLEAN, disabled : BOOLEAN,
               active : 0..Headers, running : Int, toShow : 0..Headers, toHide : 0..Headers,
               newHeader : 0..Headers, open : SUBSET Panels, flat : SUBSET Panels,
               content : SUBSET Panels, expanded : SUBSET Panels, tabbable : SUBSET Panels,
               alive : BOOLEAN]
AccStates == [acc : AccRecords, slides : [Panels -> Seq(Slides)], told : 0..Headers]

(***************************************************************************)
(* While it is not hurried one panel slides at the most, and what will be  *)
(* when it stops is what is to be at rest.                                 *)
(***************************************************************************)
Active(n) == n.acc.alive /\ (n.acc.collapsible \/ (n.acc.active # 0 /\ n.acc.expanded = {n.acc.active}))

OneSlides(n, p, slide) ==
    /\ Active(n) /\ n.acc.running = 1 /\ n.acc.newHeader = n.acc.active
    /\ n.slides = [i \in Panels |-> IF i = p THEN <<slide>> ELSE <<>>]
    /\ n.acc.flat \subseteq {slide.with}
    /\ n.acc.content \ {n.acc.toHide} = Only(n.acc.active)
    /\ (IF slide.kind = "hide" THEN n.acc.open \ {p} ELSE n.acc.open) = Only(n.acc.active)

NoneSlides(n) ==
    /\ n.slides = [i \in Panels |-> <<>>]
    /\ n.acc.running = 0 /\ n.acc.flat = {} /\ n.told = n.acc.active
    /\ n.acc.alive => Active(n) /\ n.acc.open = Only(n.acc.active)
                      /\ n.acc.content = n.acc.open
    /\ ~n.acc.alive => n.acc.open = Panels

Calm(n) == NoneSlides(n) \/ \E p \in Panels, slide \in Slides : OneSlides(n, p, slide)

AccordionInv ==
    /\ Now \in AccStates
    /\ ~hurried => Calm(Now)
    /\ ~shut => acc.tabbable # {}
    /\ turns \in 0..MaxTurns

LEMMA PanelsAre ==
  /\ Headers \in Nat /\ 0 \in 0..Headers /\ 0 \notin Panels
  /\ \A i : i \in Panels <=> i \in 0..Headers /\ i # 0
  /\ \A i \in 0..Headers : Only(i) \in SUBSET Panels /\ (i # 0 => Only(i) = {i}) /\ Only(0) = {}
BY AccordionAssumption DEF Panels, Only

\* What complete leaves: the count, and, if it is the last one, what it tells.
CompletedTo(n, c, left, last) ==
    /\ c \in AccStates /\ c.slides = n.slides
    /\ c.told = (IF last THEN n.acc.newHeader ELSE n.told)
    /\ c.acc = [n.acc EXCEPT !.running = left,
                             !.content = IF last THEN n.acc.content \ {n.acc.toHide}
                                         ELSE n.acc.content]

LEMMA CompletedIs ==
  ASSUME NEW n \in AccStates, NEW times \in Nat
  PROVE  /\ CompletedTo(n, Completed(n, times, FALSE), n.acc.running - times,
                        n.acc.running \in 1..times)
         /\ CompletedTo(n, Completed(n, times, TRUE), 0, TRUE)
<1>1. /\ n.acc \in AccRecords /\ n.slides \in [Panels -> Seq(Slides)] /\ n.told \in 0..Headers
      /\ n = [acc |-> n.acc, slides |-> n.slides, told |-> n.told]
  BY DEF AccStates, AccRecords
<1>2. n.acc.running \in Int /\ n.acc.content \in SUBSET Panels /\ n.acc.newHeader \in 0..Headers
  BY <1>1 DEF AccRecords
<1>3. ASSUME NEW left \in Int, NEW last \in BOOLEAN, NEW c,
             c = [n EXCEPT !.acc.running = left,
                           !.acc.content = IF last THEN @ \ {n.acc.toHide} ELSE @,
                           !.told = IF last THEN n.acc.newHeader ELSE @]
      PROVE  CompletedTo(n, c, left, last)
  <2> DEFINE rest == IF last THEN n.acc.content \ {n.acc.toHide} ELSE n.acc.content
             told == IF last THEN n.acc.newHeader ELSE n.told
  <2>1. rest \in SUBSET Panels /\ told \in 0..Headers
    BY <1>1, <1>2
  <2>2. c = [n EXCEPT !.acc.running = left, !.acc.content = rest, !.told = told]
    BY <1>1, <1>2, <1>3 DEF AccRecords
  <2> HIDE DEF rest, told
  <2>3. /\ c.acc = [n.acc EXCEPT !.running = left, !.content = rest] /\ c.slides = n.slides
        /\ c.told = told /\ c = [acc |-> c.acc, slides |-> c.slides, told |-> c.told]
    BY <1>1, <2>2 DEF AccRecords
  <2>4. c.acc \in AccRecords
    BY <1>1, <2>1, <2>3 DEF AccRecords
  <2>5. c \in AccStates
    BY <1>1, <2>1, <2>3, <2>4 DEF AccStates
  <2> QED BY <2>3, <2>5 DEF rest, told, CompletedTo
<1> DEFINE last == n.acc.running \in 1..times
<1>4. CompletedTo(n, Completed(n, times, FALSE), n.acc.running - times, last)
  <2> DEFINE left == n.acc.running - times
             c    == Completed(n, times, FALSE)
  <2>1. c = [n EXCEPT !.acc.running = left,
                      !.acc.content = IF last THEN @ \ {n.acc.toHide} ELSE @,
                      !.told = IF last THEN n.acc.newHeader ELSE @]
    BY <1>1, <1>2 DEF Completed, AccRecords
  <2>2. left \in Int /\ last \in BOOLEAN
    BY <1>2
  <2> HIDE DEF left, last, c
  <2>3. CompletedTo(n, c, left, last)
    BY <1>3, <2>1, <2>2
  <2> QED BY <2>3 DEF left, c
<1>5. CompletedTo(n, Completed(n, times, TRUE), 0, TRUE)
  <2> DEFINE c   == Completed(n, times, TRUE)
             yes == TRUE
             none == 0
  <2>1. c = [n EXCEPT !.acc.running = none,
                      !.acc.content = IF yes THEN @ \ {n.acc.toHide} ELSE @,
                      !.told = IF yes THEN n.acc.newHeader ELSE @]
    BY <1>1, <1>2 DEF Completed, AccRecords
  <2>2. yes \in BOOLEAN /\ yes /\ none \in Int
    OBVIOUS
  <2> HIDE DEF c, yes, none
  <2>3. CompletedTo(n, c, none, yes)
    BY <1>3, <2>1, <2>2
  <2>5. CompletedTo(n, c, 0, TRUE)
    BY <2>2, <2>3 DEF CompletedTo, none
  <2> QED BY <2>5 DEF c
<1> QED BY <1>4, <1>5

\* As many as the first slides of a queue that need not be made.
Needless(n, i) == {k \in 0..Len(n.slides[i]) :
                      \A j \in 1..k : Seen(n, i) = (n.slides[i][j].kind = "show")}

LEMMA NeedlessOnes ==
  ASSUME NEW n \in AccStates, NEW i \in Panels
  PROVE  /\ n.slides[i] \in Seq(Slides) /\ Len(n.slides[i]) \in Nat
         /\ Max(Needless(n, i)) \in Needless(n, i) /\ Needless(n, i) \subseteq 0..Len(n.slides[i])
<1> DEFINE q    == n.slides[i]
           some == Needless(n, i)
<1>1. q \in Seq(Slides) /\ Len(q) \in Nat
  BY DEF AccStates
<1>2. 0 \in some /\ some \subseteq 0..Len(q) /\ some \in SUBSET Nat
  BY <1>1 DEF Needless
<1>3. IsFiniteSet(0..Len(q))
  BY <1>1, FS_Interval
<1>4. IsFiniteSet(some)
  BY <1>2, <1>3, FS_Subset
<1> HIDE DEF some
<1>5. {0} \cup some = some
  BY <1>2
<1>6. Max({0} \cup some) \in {0} \cup some
  BY <1>2, <1>4, GreatestOf
<1> QED BY <1>1, <1>2, <1>5, <1>6 DEF some

Shortened(n, i, left, flat) == [n EXCEPT !.slides[i] = left, !.acc.flat = flat]

LEMMA ShortenedIs ==
  ASSUME NEW n \in AccStates, NEW i \in Panels, NEW left, NEW flat,
         NEW m, m = Shortened(n, i, left, flat)
  PROVE  /\ m.slides = [n.slides EXCEPT ![i] = left] /\ m.acc = [n.acc EXCEPT !.flat = flat]
         /\ m.told = n.told /\ m = [acc |-> m.acc, slides |-> m.slides, told |-> m.told]
BY DEF AccStates, Shortened

LEMMA BeginSlideIs ==
  ASSUME NEW n \in AccStates, NEW i \in Panels, NEW b, b = BeginSlide(n, i)
  PROVE  /\ b \in AccStates /\ b.acc.tabbable = n.acc.tabbable
         /\ \A j \in Panels \ {i} : b.slides[j] = n.slides[j]
         /\ n.slides[i] = <<>> => b.slides = n.slides /\ b.told = n.told /\ b.acc = n.acc
         /\ \A slide \in Slides :
               n.slides[i] = <<slide>> /\ Seen(n, i) # (slide.kind = "show") =>
                  /\ b.slides = n.slides /\ b.told = n.told
                  /\ b.acc = (IF slide.kind = "show" THEN [n.acc EXCEPT !.open = @ \cup {i}]
                              ELSE n.acc)
<1> DEFINE q    == n.slides[i]
           k    == Max(Needless(n, i))
           left == SubSeq(q, k + 1, Len(q))
           flat == n.acc.flat \ {q[j].with : j \in 1..k}
           short == Shortened(n, i, left, flat)
           rest == Completed(short, k, FALSE)
<1>1. /\ n.acc \in AccRecords /\ n.slides \in [Panels -> Seq(Slides)] /\ n.told \in 0..Headers
      /\ n = [acc |-> n.acc, slides |-> n.slides, told |-> n.told]
  BY DEF AccStates, AccRecords
<1>2. q \in Seq(Slides) /\ Len(q) \in Nat /\ k \in Needless(n, i) /\ k \in 0..Len(q)
  BY NeedlessOnes
<1>3. left \in Seq(Slides) /\ (k = 0 => left = q)
  <2> HIDE DEF k, q
  <2>1. left \in Seq(Slides)
    BY <1>2
  <2>2. k = 0 => left = q
    BY <1>2
  <2> QED BY <2>1, <2>2
<1>4. flat \in SUBSET Panels /\ (k = 0 => flat = n.acc.flat)
  BY <1>1, <1>2 DEF AccRecords
<1>5. b = IF rest.slides[i] # <<>> /\ Head(rest.slides[i]).kind = "show"
          THEN [rest EXCEPT !.acc.open = @ \cup {i}] ELSE rest
  BY DEF BeginSlide, Needless, Shortened
<1>k. k = Max(Needless(n, i)) /\ q = n.slides[i]
  OBVIOUS
<1> HIDE DEF left, flat, k, q
<1>6. /\ short.slides = [n.slides EXCEPT ![i] = left] /\ short.acc = [n.acc EXCEPT !.flat = flat]
      /\ short.told = n.told
      /\ short = [acc |-> short.acc, slides |-> short.slides, told |-> short.told]
  <2>1. short = Shortened(n, i, left, flat)
    OBVIOUS
  <2> HIDE DEF short
  <2> QED BY ONLY <2>1, n \in AccStates, i \in Panels, ShortenedIs
<1> HIDE DEF short
<1>7. short.acc \in AccRecords
  BY <1>1, <1>4, <1>6 DEF AccRecords
<1>8. short.slides \in [Panels -> Seq(Slides)] /\ short.slides[i] = left
      /\ \A j \in Panels \ {i} : short.slides[j] = n.slides[j]
  BY <1>1, <1>3, <1>6
<1>9. short \in AccStates
  BY <1>1, <1>6, <1>7, <1>8 DEF AccStates
<1>a. k \in Nat
  BY <1>2
<1>10. CompletedTo(short, rest, short.acc.running - k, short.acc.running \in 1..k)
  BY <1>9, <1>a, CompletedIs
<1> HIDE DEF rest
<1>11. rest.acc \in AccRecords /\ rest.acc.tabbable = n.acc.tabbable
       /\ rest = [acc |-> rest.acc, slides |-> rest.slides, told |-> rest.told]
  <2>1. rest.acc.tabbable = short.acc.tabbable
    BY <1>7, <1>10 DEF AccRecords, CompletedTo
  <2>2. short.acc.tabbable = n.acc.tabbable
    BY <1>1, <1>6 DEF AccRecords
  <2> QED BY <1>10, <2>1, <2>2 DEF AccStates, CompletedTo
<1>12. /\ b.slides = rest.slides /\ b.told = rest.told
       /\ b = [acc |-> b.acc, slides |-> b.slides, told |-> b.told]
       /\ b.acc = (IF left # <<>> /\ Head(left).kind = "show"
                   THEN [rest.acc EXCEPT !.open = @ \cup {i}] ELSE rest.acc)
  BY <1>5, <1>8, <1>10, <1>11 DEF CompletedTo
<1>13. b.acc \in AccRecords /\ b.acc.tabbable = n.acc.tabbable
  BY <1>11, <1>12 DEF AccRecords
<1>14. b \in AccStates
  BY <1>10, <1>11, <1>12, <1>13 DEF AccStates, CompletedTo
<1>15. ASSUME k = 0
       PROVE  b.slides = n.slides /\ b.told = n.told /\ left = q /\ rest.acc = n.acc
  <2>1. left = q /\ flat = n.acc.flat
    BY <1>3, <1>4, <1>15
  <2>2. short.slides = n.slides /\ short.acc = n.acc /\ short.told = n.told
    BY <1>1, <1>6, <2>1, <1>k DEF AccRecords
  <2>3. short.acc.running - k = short.acc.running /\ ~(short.acc.running \in 1..k)
    BY <1>7, <1>15 DEF AccRecords
  <2>4. rest.told = short.told
    BY <1>10, <2>3 DEF CompletedTo
  <2>5. rest.acc = [short.acc EXCEPT !.running = short.acc.running, !.content = short.acc.content]
    BY <1>10, <2>3 DEF CompletedTo
  <2>6. rest.acc = short.acc
    BY <1>7, <2>5 DEF AccRecords
  <2>7. rest.acc = short.acc /\ rest.told = short.told
    BY <2>4, <2>6
  <2> QED BY <1>10, <1>12, <2>1, <2>2, <2>7 DEF CompletedTo
<1>16. ASSUME n.slides[i] = <<>>
       PROVE  b.slides = n.slides /\ b.told = n.told /\ b.acc = n.acc
  <2>1. k = 0
    BY <1>2, <1>16, <1>k
  <2> QED BY <1>12, <1>15, <1>16, <1>k, <2>1
<1>17. ASSUME NEW slide \in Slides, n.slides[i] = <<slide>>, Seen(n, i) # (slide.kind = "show")
       PROVE  /\ b.slides = n.slides /\ b.told = n.told
              /\ b.acc = (IF slide.kind = "show" THEN [n.acc EXCEPT !.open = @ \cup {i}]
                          ELSE n.acc)
  <2>1. k = 0
    <3>1. Len(q) = 1 /\ q[1] = slide
      BY <1>17, <1>k
    <3>2. ASSUME k = 1 PROVE FALSE
      <4>1. 1 \in Needless(n, i) /\ 1 \in 1..1
        BY <1>2, <3>2
      <4>2. Seen(n, i) = (n.slides[i][1].kind = "show")
        BY <4>1 DEF Needless
      <4> QED BY <1>17, <1>k, <3>1, <4>2
    <3> QED BY <1>2, <3>1, <3>2
  <2>2. left = <<slide>> /\ left # <<>> /\ Head(left) = slide
    BY <1>15, <1>17, <1>k, <2>1
  <2> QED BY <1>12, <1>15, <2>1, <2>2
<1> QED BY <1>8, <1>10, <1>12, <1>13, <1>14, <1>16, <1>17 DEF CompletedTo

LEMMA AStateIs ==
  ASSUME NEW m, m = [acc |-> m.acc, slides |-> m.slides, told |-> m.told],
         m.acc \in AccRecords, m.slides \in [Panels -> Seq(Slides)], m.told \in 0..Headers
  PROVE  m \in AccStates
BY DEF AccStates

LEMMA AState ==
  ASSUME NEW m \in AccStates
  PROVE  /\ m = [acc |-> m.acc, slides |-> m.slides, told |-> m.told]
         /\ m.acc \in AccRecords /\ m.slides \in [Panels -> Seq(Slides)] /\ m.told \in 0..Headers
BY DEF AccStates

\* What a slide makes of a panel: it begins, if it is needed and none goes on.
EnqueuedTo(n, i, slide, m) ==
    /\ m \in AccStates /\ m.acc.tabbable = n.acc.tabbable
    /\ n.slides[i] = <<>> /\ Seen(n, i) # (slide.kind = "show") =>
          /\ m.slides = [n.slides EXCEPT ![i] = <<slide>>] /\ m.told = n.told
          /\ m.acc = (IF slide.kind = "show" THEN [n.acc EXCEPT !.open = @ \cup {i}]
                      ELSE n.acc)

LEMMA EnqueueIs ==
  ASSUME NEW n \in AccStates, NEW i \in Panels, NEW slide \in Slides
  PROVE  EnqueuedTo(n, i, slide, Enqueue(n, i, slide))
<1> DEFINE q == Append(n.slides[i], slide)
           a == [n EXCEPT !.slides[i] = q]
           m == Enqueue(n, i, slide)
<1>1. /\ n.acc \in AccRecords /\ n.slides \in [Panels -> Seq(Slides)] /\ n.told \in 0..Headers
      /\ n = [acc |-> n.acc, slides |-> n.slides, told |-> n.told]
  BY AState
<1>3. m = IF n.slides[i] = <<>> THEN BeginSlide(a, i) ELSE a
  BY <1>1 DEF Enqueue
<1>q. q = Append(n.slides[i], slide)
  OBVIOUS
<1>a. a = [n EXCEPT !.slides[i] = q]
  OBVIOUS
<1> HIDE DEF a, q
<1> SUFFICES EnqueuedTo(n, i, slide, m)
  OBVIOUS
<1> HIDE DEF m
<1>2. /\ a.slides = [n.slides EXCEPT ![i] = q] /\ a.acc = n.acc
      /\ a.told = n.told /\ a = [acc |-> a.acc, slides |-> a.slides, told |-> a.told]
  BY <1>a DEF AccStates
<1>4. n.slides[i] \in Seq(Slides) /\ q \in Seq(Slides)
  BY <1>1, <1>q
<1>5. a \in AccStates /\ a.slides[i] = q
  <2>1. a.slides \in [Panels -> Seq(Slides)] /\ a.slides[i] = q
    BY <1>1, <1>2, <1>4
  <2> QED BY <1>1, <1>2, <2>1, AStateIs
<1>6. CASE n.slides[i] # <<>>
  BY <1>2, <1>3, <1>5, <1>6 DEF EnqueuedTo
<1>7. CASE n.slides[i] = <<>>
  <2>1. m = BeginSlide(a, i)
    BY <1>3, <1>7
  <2>2. m \in AccStates /\ m.acc.tabbable = a.acc.tabbable
    BY <1>5, <2>1, BeginSlideIs
  <2>3. q = <<slide>>
    BY <1>7, <1>q
  <2>4. a.slides[i] = <<slide>> /\ Seen(a, i) = Seen(n, i)
    BY <1>2, <1>5, <2>3 DEF Seen
  <2>5. ASSUME Seen(n, i) # (slide.kind = "show")
        PROVE  /\ m.slides = a.slides /\ m.told = a.told
               /\ m.acc = (IF slide.kind = "show" THEN [a.acc EXCEPT !.open = @ \cup {i}]
                           ELSE a.acc)
    BY <1>5, <2>1, <2>4, <2>5, BeginSlideIs
  <2> QED BY <1>2, <2>2, <2>3, <2>5 DEF EnqueuedTo
<1> QED BY <1>6, <1>7

\* The panel to show is displayed and of no height.
Flattened(n, show) == [n EXCEPT !.acc.open = @ \cup {show}, !.acc.flat = @ \cup {show}]

LEMMA FlattenedIs ==
  ASSUME NEW n \in AccStates, NEW show, NEW f, f = Flattened(n, show)
  PROVE  /\ f.acc = [n.acc EXCEPT !.open = n.acc.open \cup {show},
                                  !.flat = n.acc.flat \cup {show}]
         /\ f.slides = n.slides /\ f.told = n.told
         /\ f = [acc |-> f.acc, slides |-> f.slides, told |-> f.told]
<1> DEFINE open1 == n.acc.open \cup {show}
           flat1 == n.acc.flat \cup {show}
<1>1. f = [n EXCEPT !.acc.open = open1, !.acc.flat = flat1]
  BY DEF Flattened, AccStates, AccRecords
<1> HIDE DEF open1, flat1
<1>2. /\ f.acc = [n.acc EXCEPT !.open = open1, !.flat = flat1]
      /\ f.slides = n.slides /\ f.told = n.told
      /\ f = [acc |-> f.acc, slides |-> f.slides, told |-> f.told]
  BY <1>1 DEF AccStates, AccRecords
<1> QED BY <1>2 DEF open1, flat1

\* What SlidePanels begins when nothing slides: one animation.
SlidTo(n, show, hide, m) ==
    /\ m \in AccStates /\ m.acc.tabbable = n.acc.tabbable
    /\ hide = 0 /\ show = 0 => m = n
    /\ ~veiled /\ n.slides = [i \in Panels |-> <<>>] /\ hide = 0 /\ show # 0
          /\ show \notin n.acc.open =>
          /\ m.slides = [n.slides EXCEPT ![show] = <<[kind |-> "show", with |-> 0]>>]
          /\ m.told = n.told /\ m.acc = [n.acc EXCEPT !.open = @ \cup {show}]
    /\ ~veiled /\ n.slides = [i \in Panels |-> <<>>] /\ hide # 0
          /\ hide \in n.acc.open /\ show # hide =>
          /\ m.slides = [n.slides EXCEPT ![hide] = <<[kind |-> "hide", with |-> show]>>]
          /\ m.told = n.told
          /\ m.acc = [n.acc EXCEPT !.open = @ \cup Only(show), !.flat = @ \cup Only(show)]

LEMMA SlidePanelsIs ==
  ASSUME NEW n \in AccStates, NEW show \in 0..Headers, NEW hide \in 0..Headers
  PROVE  SlidTo(n, show, hide, SlidePanels(n, show, hide))
<1> DEFINE m == SlidePanels(n, show, hide)
<1>m. m = SlidePanels(n, show, hide)
  OBVIOUS
<1> HIDE DEF m
<1> SUFFICES SlidTo(n, show, hide, m)
  BY DEF m
<1>1. /\ n.acc \in AccRecords /\ n.slides \in [Panels -> Seq(Slides)] /\ n.told \in 0..Headers
      /\ n = [acc |-> n.acc, slides |-> n.slides, told |-> n.told]
  BY AState
<1>2. \A k \in {"show", "hide"}, w \in 0..Headers :
         /\ [kind |-> k, with |-> w] \in Slides
         /\ [kind |-> k, with |-> w].kind = k
  BY DEF Slides
<1>3. CASE hide = 0 /\ show = 0
  <2>1. m = n
    BY <1>m, <1>3 DEF SlidePanels
  <2> QED BY <1>3, <2>1 DEF SlidTo
<1>4. CASE hide = 0 /\ show # 0
  <2> DEFINE slide == [kind |-> "show", with |-> 0]
  <2>1. m = Enqueue(n, show, slide)
    BY <1>m, <1>4 DEF SlidePanels
  <2>2. show \in Panels /\ slide \in Slides /\ slide.kind = "show"
    BY <1>2, <1>4, PanelsAre
  <2> HIDE DEF slide
  <2>e. EnqueuedTo(n, show, slide, m)
    BY <2>1, <2>2, EnqueueIs
  <2>3. m \in AccStates /\ m.acc.tabbable = n.acc.tabbable
    BY <2>e DEF EnqueuedTo
  <2>4. ASSUME ~veiled, n.slides = [i \in Panels |-> <<>>], show \notin n.acc.open
        PROVE  /\ m.slides = [n.slides EXCEPT ![show] = <<slide>>]
               /\ m.told = n.told /\ m.acc = [n.acc EXCEPT !.open = @ \cup {show}]
    <3>1. n.slides[show] = <<>>
      BY <2>2, <2>4
    <3>2. Seen(n, show) # (slide.kind = "show")
      BY <2>2, <2>4 DEF Seen
    <3> QED BY <2>2, <2>e, <3>1, <3>2 DEF EnqueuedTo
  <2> QED BY <1>4, <2>3, <2>4 DEF slide, SlidTo
<1>5. CASE hide # 0 /\ show = 0
  <2> DEFINE slide == [kind |-> "hide", with |-> 0]
  <2>1. m = Enqueue(n, hide, slide)
    BY <1>m, <1>5 DEF SlidePanels
  <2>2. hide \in Panels /\ slide \in Slides /\ slide.kind = "hide" /\ Only(show) = {}
    BY <1>2, <1>5, PanelsAre
  <2>a. slide = [kind |-> "hide", with |-> show]
    BY <1>5
  <2> HIDE DEF slide
  <2>e. EnqueuedTo(n, hide, slide, m)
    BY <2>1, <2>2, EnqueueIs
  <2>3. m \in AccStates /\ m.acc.tabbable = n.acc.tabbable
    BY <2>e DEF EnqueuedTo
  <2>4. ASSUME ~veiled, n.slides = [i \in Panels |-> <<>>], hide \in n.acc.open
        PROVE  /\ m.slides = [n.slides EXCEPT ![hide] = <<slide>>]
               /\ m.told = n.told
               /\ m.acc = [n.acc EXCEPT !.open = @ \cup Only(show), !.flat = @ \cup Only(show)]
    <3>1. n.slides[hide] = <<>>
      BY <2>2, <2>4
    <3>2. Seen(n, hide) # (slide.kind = "show") /\ slide.kind # "show"
      BY <2>2, <2>4 DEF Seen
    <3>3. m.slides = [n.slides EXCEPT ![hide] = <<slide>>] /\ m.told = n.told /\ m.acc = n.acc
      BY <2>2, <2>e, <3>1, <3>2 DEF EnqueuedTo
    <3>4. n.acc.open \cup Only(show) = n.acc.open /\ n.acc.flat \cup Only(show) = n.acc.flat
      BY <2>2
    <3> QED BY <1>1, <3>3, <3>4 DEF AccRecords
  <2> QED BY <1>5, <2>3, <2>4, <2>a DEF SlidTo
<1>6. CASE hide # 0 /\ show # 0
  <2> DEFINE slide == [kind |-> "hide", with |-> show]
             f     == Flattened(n, show)
  <2>1. m = IF Seen(n, hide) THEN Enqueue(f, hide, slide) ELSE Completed(f, 1, FALSE)
    BY <1>m, <1>6 DEF SlidePanels, Flattened
  <2>2. /\ hide \in Panels /\ show \in Panels /\ slide \in Slides /\ slide.kind = "hide"
        /\ Only(show) = {show}
    BY <1>2, <1>6, PanelsAre
  <2>3. /\ f.acc = [n.acc EXCEPT !.open = @ \cup {show}, !.flat = @ \cup {show}]
        /\ f.slides = n.slides /\ f.told = n.told
        /\ f = [acc |-> f.acc, slides |-> f.slides, told |-> f.told]
    BY FlattenedIs
  <2>a. slide = [kind |-> "hide", with |-> show]
    OBVIOUS
  <2> HIDE DEF f, slide
  <2>4. f.acc \in AccRecords /\ f.acc.tabbable = n.acc.tabbable
        /\ f.acc.open = n.acc.open \cup {show}
    <3> DEFINE open1 == n.acc.open \cup {show}
               flat1 == n.acc.flat \cup {show}
    <3>1. open1 \in SUBSET Panels /\ flat1 \in SUBSET Panels
      BY <1>1, <2>2 DEF AccRecords
    <3>2. f.acc = [n.acc EXCEPT !.open = open1, !.flat = flat1]
      BY <2>3
    <3> HIDE DEF open1, flat1
    <3>3. f.acc \in AccRecords /\ f.acc.tabbable = n.acc.tabbable /\ f.acc.open = open1
      BY <1>1, <3>1, <3>2 DEF AccRecords
    <3> QED BY <3>3 DEF open1
  <2>5. f \in AccStates
    BY <1>1, <2>3, <2>4, AStateIs
  <2>e. Seen(n, hide) => EnqueuedTo(f, hide, slide, m)
    BY <2>1, <2>2, <2>5, EnqueueIs
  <2>6. m \in AccStates /\ m.acc.tabbable = n.acc.tabbable
    <3>1. CASE Seen(n, hide)
      BY <2>e, <2>4, <3>1 DEF EnqueuedTo
    <3>2. CASE ~Seen(n, hide)
      <4>1. CompletedTo(f, m, f.acc.running - 1, f.acc.running \in 1..1)
        BY <2>1, <2>5, <3>2, CompletedIs
      <4>2. m.acc.tabbable = f.acc.tabbable
        BY <2>4, <4>1 DEF CompletedTo, AccRecords
      <4> QED BY <2>4, <4>1, <4>2 DEF CompletedTo
    <3> QED BY <3>1, <3>2
  <2>7. ASSUME ~veiled, n.slides = [i \in Panels |-> <<>>], hide \in n.acc.open
        PROVE  /\ m.slides = [n.slides EXCEPT ![hide] = <<slide>>]
               /\ m.told = n.told
               /\ m.acc = [n.acc EXCEPT !.open = @ \cup Only(show), !.flat = @ \cup Only(show)]
    <3>1. f.slides[hide] = <<>>
      BY <2>2, <2>3, <2>7
    <3>2. Seen(n, hide) /\ Seen(f, hide) # (slide.kind = "show") /\ slide.kind # "show"
      BY <2>2, <2>4, <2>7 DEF Seen
    <3>3. m.slides = [f.slides EXCEPT ![hide] = <<slide>>] /\ m.told = f.told /\ m.acc = f.acc
      BY <2>e, <2>2, <3>1, <3>2 DEF EnqueuedTo
    <3> QED BY <2>2, <2>3, <3>3
  <2> QED BY <1>6, <2>6, <2>7, <2>a DEF SlidTo
<1> QED BY <1>3, <1>4, <1>5, <1>6

\* _toggle has been told what to show and what to hide.
Prepared(n, show, hide, new) ==
    [n EXCEPT !.acc.toShow = show, !.acc.toHide = hide, !.acc.newHeader = new,
              !.acc.running = IF hide = 0 /\ show = 0 THEN 0 ELSE 1]

PreparedTo(n, show, hide, new, m) ==
    /\ m \in AccStates /\ m.slides = n.slides /\ m.told = n.told
    /\ m.acc = [n.acc EXCEPT !.toShow = show, !.toHide = hide, !.newHeader = new,
                             !.running = m.acc.running]
    /\ m.acc.running = IF hide = 0 /\ show = 0 THEN 0 ELSE 1

LEMMA PreparedIs ==
  ASSUME NEW n \in AccStates, NEW show \in 0..Headers, NEW hide \in 0..Headers,
         NEW new \in 0..Headers
  PROVE  PreparedTo(n, show, hide, new, Prepared(n, show, hide, new))
<1> DEFINE run == IF hide = 0 /\ show = 0 THEN 0 ELSE 1
           m   == Prepared(n, show, hide, new)
<1>1. run \in Int
  OBVIOUS
<1>2. m = [n EXCEPT !.acc.toShow = show, !.acc.toHide = hide, !.acc.newHeader = new,
                    !.acc.running = run]
  BY DEF Prepared
<1> HIDE DEF run, m
<1>3. /\ m.slides = n.slides /\ m.told = n.told
      /\ m.acc = [n.acc EXCEPT !.toShow = show, !.toHide = hide, !.newHeader = new,
                               !.running = run]
      /\ m = [acc |-> m.acc, slides |-> m.slides, told |-> m.told]
  BY <1>2 DEF AccStates, AccRecords
<1>4. m.acc \in AccRecords /\ m.acc.running = run
  BY <1>1, <1>3, AState DEF AccRecords
<1>5. m \in AccStates
  BY <1>3, <1>4, AState, AStateIs
<1>6. PreparedTo(n, show, hide, new, m)
  BY <1>3, <1>4, <1>5 DEF run, PreparedTo
<1> QED BY <1>6 DEF m

\* Without an animation the one goes and the other comes at once.
Swapped(n, show, hide) ==
    [n EXCEPT !.acc.open = IF show = hide /\ show \in @ THEN @ \ {show}
                           ELSE (@ \ {hide}) \cup Only(show)]

SwappedTo(n, show, hide, m) ==
    /\ m \in AccStates /\ m.slides = n.slides /\ m.told = n.told
    /\ m.acc = [n.acc EXCEPT !.open = m.acc.open]
    /\ m.acc.open = IF show = hide /\ show \in n.acc.open THEN n.acc.open \ {show}
                    ELSE (n.acc.open \ {hide}) \cup Only(show)

LEMMA SwappedIs ==
  ASSUME NEW n \in AccStates, NEW show \in 0..Headers, NEW hide \in 0..Headers
  PROVE  SwappedTo(n, show, hide, Swapped(n, show, hide))
<1> DEFINE m == Swapped(n, show, hide)
<1> DEFINE open1 == IF show = hide /\ show \in n.acc.open THEN n.acc.open \ {show}
                    ELSE (n.acc.open \ {hide}) \cup Only(show)
<1>1. open1 \in SUBSET Panels
  BY PanelsAre, AState DEF AccRecords
<1>2. m = [n EXCEPT !.acc.open = open1]
  BY DEF Swapped, AccStates, AccRecords
<1> HIDE DEF open1, m
<1>3. /\ m.slides = n.slides /\ m.told = n.told /\ m.acc = [n.acc EXCEPT !.open = open1]
      /\ m = [acc |-> m.acc, slides |-> m.slides, told |-> m.told]
  BY <1>2 DEF AccStates, AccRecords
<1>4. m.acc \in AccRecords /\ m.acc.open = open1
  BY <1>1, <1>3, AState DEF AccRecords
<1>5. m \in AccStates
  BY <1>3, <1>4, AState, AStateIs
<1>6. SwappedTo(n, show, hide, m)
  BY <1>3, <1>4, <1>5 DEF open1, SwappedTo
<1> QED BY <1>6 DEF m

\* What _toggle has done before it looks after the headers.
Shown(n, show, hide, new) ==
    LET set == Prepared(n, show, hide, new)
    IN  IF n.acc.animated THEN SlidePanels(set, IF show = hide THEN 0 ELSE show, hide)
        ELSE Completed(Swapped(set, show, hide), 1, TRUE)

ToggledTo(n, show, hide, done, m) ==
    /\ done \in AccStates /\ done.acc.tabbable = n.acc.tabbable
    /\ m \in AccStates /\ m.slides = done.slides /\ m.told = done.told
    /\ m.acc = [done.acc EXCEPT !.expanded = (done.acc.expanded \ {hide}) \cup Only(show),
                                !.tabbable = (done.acc.tabbable \ {hide}) \cup Only(show)]

LEMMA ToggleIs ==
  ASSUME NEW n \in AccStates, NEW show \in 0..Headers, NEW hide \in 0..Headers,
         NEW new \in 0..Headers
  PROVE  ToggledTo(n, show, hide, Shown(n, show, hide, new), Toggle(n, show, hide, new))
<1> DEFINE done  == Shown(n, show, hide, new)
           m     == Toggle(n, show, hide, new)
           set   == Prepared(n, show, hide, new)
           other == IF show = hide THEN 0 ELSE show
           swap  == Swapped(set, show, hide)
           wide  == (done.acc.expanded \ {hide}) \cup Only(show)
           tab   == (done.acc.tabbable \ {hide}) \cup Only(show)
<1>1. done = IF n.acc.animated THEN SlidePanels(set, other, hide) ELSE Completed(swap, 1, TRUE)
  BY DEF Shown
<1>2. m = [done EXCEPT !.acc.expanded = (@ \ {hide}) \cup Only(show),
                       !.acc.tabbable = (@ \ {hide}) \cup Only(show)]
  BY DEF Toggle, Shown, Prepared, Swapped
<1>3. other \in 0..Headers
  BY PanelsAre
<1>p. PreparedTo(n, show, hide, new, set)
  BY PreparedIs
<1> HIDE DEF set, done, m
<1>4. /\ set \in AccStates
      /\ set.acc = [n.acc EXCEPT !.toShow = show, !.toHide = hide, !.newHeader = new,
                                 !.running = set.acc.running]
  BY <1>p DEF PreparedTo
<1>s. SwappedTo(set, show, hide, swap)
  BY <1>4, SwappedIs
<1> HIDE DEF swap, other
<1>5. swap \in AccStates /\ swap.acc = [set.acc EXCEPT !.open = swap.acc.open]
  BY <1>s DEF SwappedTo
<1>6. set.acc.tabbable = n.acc.tabbable /\ swap.acc.tabbable = n.acc.tabbable
  BY <1>4, <1>5, AState DEF AccRecords
<1>7. done \in AccStates /\ done.acc.tabbable = n.acc.tabbable
  <2>1. CASE n.acc.animated
    <3>1. done = SlidePanels(set, other, hide)
      BY <1>1, <2>1
    <3>2. SlidTo(set, other, hide, done)
      BY <1>3, <1>4, <3>1, SlidePanelsIs
    <3> QED BY <1>6, <3>2 DEF SlidTo
  <2>2. CASE ~n.acc.animated
    <3>1. done = Completed(swap, 1, TRUE)
      BY <1>1, <2>2
    <3>2. CompletedTo(swap, done, 0, TRUE)
      BY <1>5, <3>1, CompletedIs
    <3> QED BY <1>5, <1>6, <3>2, AState DEF CompletedTo, AccRecords
  <2> QED BY <2>1, <2>2
<1>8. wide \in SUBSET Panels /\ tab \in SUBSET Panels
  BY <1>7, PanelsAre, AState DEF AccRecords
<1>9. m = [done EXCEPT !.acc.expanded = wide, !.acc.tabbable = tab]
  BY <1>2, <1>7 DEF AccStates, AccRecords
<1>a. /\ wide = (done.acc.expanded \ {hide}) \cup Only(show)
      /\ tab = (done.acc.tabbable \ {hide}) \cup Only(show)
  OBVIOUS
<1> HIDE DEF wide, tab
<1>10. /\ m.slides = done.slides /\ m.told = done.told
       /\ m.acc = [done.acc EXCEPT !.expanded = wide, !.tabbable = tab]
       /\ m = [acc |-> m.acc, slides |-> m.slides, told |-> m.told]
  BY <1>7, <1>9 DEF AccStates, AccRecords
<1>11. m.acc \in AccRecords
  BY <1>7, <1>8, <1>10, AState DEF AccRecords
<1>12. m \in AccStates
  BY <1>7, <1>10, <1>11, AState, AStateIs
<1>13. ToggledTo(n, show, hide, done, m)
  BY <1>7, <1>10, <1>12, <1>a DEF ToggledTo
<1> QED BY <1>13 DEF done, m

\* A header that is shown comes into the tab order.
LEMMA ToggleTabs ==
  ASSUME NEW n \in AccStates, NEW show \in 0..Headers \ {0}, NEW hide \in 0..Headers,
         NEW new \in 0..Headers
  PROVE  Toggle(n, show, hide, new).acc.tabbable # {}
<1> DEFINE done == Shown(n, show, hide, new)
           m    == Toggle(n, show, hide, new)
<1>t. ToggledTo(n, show, hide, done, m)
  BY ToggleIs
<1> HIDE DEF done, m
<1>1. /\ done \in AccStates
      /\ m.acc = [done.acc EXCEPT !.expanded = (done.acc.expanded \ {hide}) \cup Only(show),
                                  !.tabbable = (done.acc.tabbable \ {hide}) \cup Only(show)]
  BY <1>t DEF ToggledTo
<1>2. m.acc.tabbable = (done.acc.tabbable \ {hide}) \cup Only(show)
  BY <1>1, AState DEF AccRecords
<1> QED BY <1>2, PanelsAre DEF m

(***************************************************************************)
(* _toggle of an accordion at rest: the active header was the one to hide, *)
(* and the one to show is the active one now unless both are the same.     *)
(***************************************************************************)
LEMMA ToggleCalms ==
  ASSUME NEW n \in AccStates, ~veiled, n.slides = [i \in Panels |-> <<>>],
         NEW show \in 0..Headers, NEW hide \in 0..Headers,
         NEW new \in 0..Headers, new = (IF show = hide THEN 0 ELSE show),
         n.acc.alive, n.acc.flat = {}, n.acc.open = Only(hide), n.told = hide,
         n.acc.active = new, n.acc.content \ {hide} = Only(new),
         n.acc.collapsible \/ (new # 0 /\ n.acc.expanded = {hide})
  PROVE  Calm(Toggle(n, show, hide, new))
<1> DEFINE done  == Shown(n, show, hide, new)
           m     == Toggle(n, show, hide, new)
           set   == Prepared(n, show, hide, new)
           swap  == Swapped(set, show, hide)
<1>1. n.acc \in AccRecords /\ n.slides \in [Panels -> Seq(Slides)] /\ n.told \in 0..Headers
  BY AState
<1>2. PreparedTo(n, show, hide, new, set)
  BY PreparedIs
<1>3. ToggledTo(n, show, hide, done, m)
  BY ToggleIs
<1>4. done = IF n.acc.animated THEN SlidePanels(set, IF show = hide THEN 0 ELSE show, hide)
             ELSE Completed(swap, 1, TRUE)
  BY DEF Shown
<1>5. set \in AccStates
  BY <1>2 DEF PreparedTo
<1>6. SwappedTo(set, show, hide, swap)
  BY <1>5, SwappedIs
<1> HIDE DEF done, m, set, swap
<1> SUFFICES Calm(m)
  BY DEF m
<1>7. /\ set.acc \in AccRecords /\ set.slides = n.slides /\ set.told = hide
      /\ set.acc.alive /\ set.acc.flat = {} /\ set.acc.open = Only(hide)
      /\ set.acc.active = new /\ set.acc.content \ {hide} = Only(new)
      /\ set.acc.collapsible = n.acc.collapsible /\ set.acc.expanded = n.acc.expanded
      /\ set.acc.toShow = show /\ set.acc.toHide = hide /\ set.acc.newHeader = new
      /\ set.acc.content = n.acc.content
      /\ set.acc.running = IF hide = 0 /\ show = 0 THEN 0 ELSE 1
  BY <1>1, <1>2, AState DEF PreparedTo, AccRecords
<1>8. /\ done \in AccStates /\ m \in AccStates /\ m.slides = done.slides /\ m.told = done.told
      /\ m.acc = [done.acc EXCEPT !.expanded = (done.acc.expanded \ {hide}) \cup Only(show),
                                  !.tabbable = (done.acc.tabbable \ {hide}) \cup Only(show)]
  BY <1>3 DEF ToggledTo
<1>9. /\ m.acc.running = done.acc.running /\ m.acc.open = done.acc.open
      /\ m.acc.flat = done.acc.flat /\ m.acc.content = done.acc.content
      /\ m.acc.alive = done.acc.alive /\ m.acc.active = done.acc.active
      /\ m.acc.newHeader = done.acc.newHeader /\ m.acc.toHide = done.acc.toHide
      /\ m.acc.collapsible = done.acc.collapsible
      /\ m.acc.expanded = (done.acc.expanded \ {hide}) \cup Only(show)
  BY <1>8, AState DEF AccRecords
<1>10. ASSUME done.acc.collapsible = n.acc.collapsible, done.acc.expanded = n.acc.expanded,
              done.acc.alive, done.acc.active = new
       PROVE  Active(m)
  <2>1. ASSUME ~n.acc.collapsible PROVE m.acc.expanded = {m.acc.active}
    <3>1. show = new /\ new # 0 /\ n.acc.expanded = {hide}
      BY <2>1
    <3> QED BY <1>9, <1>10, <3>1, PanelsAre
  <2> QED BY <1>9, <1>10, <2>1 DEF Active
<1>11. CASE ~n.acc.animated
  <2>1. CompletedTo(swap, done, 0, TRUE)
    <3>1. swap \in AccStates
      BY <1>6 DEF SwappedTo
    <3> QED BY <1>4, <1>11, <3>1, CompletedIs
  <2>2. /\ swap.acc \in AccRecords /\ swap.slides = n.slides /\ swap.acc.alive
        /\ swap.acc.flat = {} /\ swap.acc.active = new
        /\ swap.acc.content = n.acc.content
        /\ swap.acc.collapsible = n.acc.collapsible /\ swap.acc.expanded = n.acc.expanded
        /\ swap.acc.toHide = hide /\ swap.acc.newHeader = new
    BY <1>6, <1>7, AState DEF SwappedTo, AccRecords
  <2>3. swap.acc.open = Only(new)
    <3>1. swap.acc.open = IF show = hide /\ show \in Only(hide) THEN Only(hide) \ {show}
                          ELSE (Only(hide) \ {hide}) \cup Only(show)
      BY <1>6, <1>7 DEF SwappedTo
    <3> QED BY <3>1 DEF Only
  <2>4. /\ done.acc.running = 0 /\ done.acc.content = Only(new) /\ done.acc.flat = {}
        /\ done.acc.open = Only(new) /\ done.acc.alive /\ done.acc.active = new
        /\ done.acc.collapsible = n.acc.collapsible /\ done.acc.expanded = n.acc.expanded
        /\ done.told = new /\ done.slides = n.slides
    BY <2>1, <2>2, <2>3 DEF CompletedTo, AccRecords
  <2>5. Active(m)
    BY <1>10, <2>4
  <2>6. NoneSlides(m)
    BY <1>8, <1>9, <2>4, <2>5 DEF NoneSlides
  <2> QED BY <2>6 DEF Calm
<1>12. CASE n.acc.animated
  <2> DEFINE other == IF show = hide THEN 0 ELSE show
  <2>1. other = new
    OBVIOUS
  <2>2. SlidTo(set, new, hide, done)
    <3>1. done = SlidePanels(set, new, hide)
      BY <1>4, <1>12, <2>1
    <3> QED BY <1>5, <3>1, SlidePanelsIs
  <2>3. set.slides = [i \in Panels |-> <<>>]
    BY <1>7
  <2>4. CASE hide = 0 /\ new = 0
    <3>1. show = 0 /\ done = set
      BY <2>2, <2>4 DEF SlidTo
    <3>2. Active(m)
      BY <1>7, <1>10, <3>1
    <3>3. set.acc.running = 0 /\ set.acc.content = {} /\ Only(0) = {}
      BY <1>7, <2>4, <3>1, PanelsAre, AState DEF AccRecords
    <3>4. /\ m.slides = [i \in Panels |-> <<>>] /\ m.told = 0 /\ m.acc.active = 0
          /\ m.acc.alive /\ m.acc.flat = {} /\ m.acc.open = {} /\ m.acc.content = {}
          /\ m.acc.running = 0
      BY <1>7, <1>8, <1>9, <2>3, <2>4, <3>1, <3>3
    <3>5. NoneSlides(m)
      BY <3>2, <3>3, <3>4 DEF NoneSlides
    <3> QED BY <3>5 DEF Calm
  <2>5. CASE hide = 0 /\ new # 0
    <3> DEFINE slide == [kind |-> "show", with |-> 0]
    <3>1. new \in Panels /\ Only(hide) = {} /\ Only(new) = {new} /\ slide \in Slides
          /\ slide.kind = "show" /\ slide.kind # "hide"
      BY <2>5, PanelsAre DEF Slides
    <3>2. /\ done.slides = [set.slides EXCEPT ![new] = <<slide>>]
          /\ done.told = set.told /\ done.acc = [set.acc EXCEPT !.open = set.acc.open \cup {new}]
      BY <1>7, <2>2, <2>3, <2>5, <3>1 DEF SlidTo
    <3> HIDE DEF slide
    <3>3. done.slides = [i \in Panels |-> IF i = new THEN <<slide>> ELSE <<>>]
      BY <2>3, <3>1, <3>2
    <3>4. /\ done.acc.open = Only(new) /\ done.acc.running = 1 /\ done.acc.flat = {}
          /\ done.acc.content = set.acc.content /\ done.acc.alive /\ done.acc.active = new
          /\ done.acc.collapsible = n.acc.collapsible /\ done.acc.expanded = n.acc.expanded
          /\ done.acc.toHide = hide /\ done.acc.newHeader = new
      BY <1>7, <2>5, <3>1, <3>2 DEF AccRecords
    <3>5. Active(m)
      BY <1>10, <3>4
    <3>6. OneSlides(m, new, slide)
      BY <1>7, <1>8, <1>9, <3>1, <3>3, <3>4, <3>5 DEF OneSlides, slide
    <3> QED BY <3>1, <3>6 DEF Calm
  <2>6. CASE hide # 0
    <3> DEFINE slide == [kind |-> "hide", with |-> new]
    <3>1. hide \in Panels /\ Only(hide) = {hide} /\ slide \in Slides /\ slide.kind = "hide"
          /\ slide.with = new /\ Only(new) \subseteq {new} /\ new # hide /\ hide \notin Only(new)
      BY <2>6, PanelsAre DEF Slides, Only
    <3>2. /\ done.slides = [set.slides EXCEPT ![hide] = <<slide>>]
          /\ done.told = set.told
          /\ done.acc = [set.acc EXCEPT !.open = set.acc.open \cup Only(new),
                                        !.flat = set.acc.flat \cup Only(new)]
      BY <1>7, <2>2, <2>3, <2>6, <3>1 DEF SlidTo
    <3> HIDE DEF slide
    <3>3. done.slides = [i \in Panels |-> IF i = hide THEN <<slide>> ELSE <<>>]
      BY <2>3, <3>1, <3>2
    <3>4. /\ done.acc.open = {hide} \cup Only(new) /\ done.acc.running = 1
          /\ done.acc.flat = Only(new)
          /\ done.acc.content = set.acc.content /\ done.acc.alive /\ done.acc.active = new
          /\ done.acc.collapsible = n.acc.collapsible /\ done.acc.expanded = n.acc.expanded
          /\ done.acc.toHide = hide /\ done.acc.newHeader = new
      BY <1>7, <2>6, <3>1, <3>2 DEF AccRecords
    <3>5. Active(m)
      BY <1>10, <3>4
    <3>6. m.acc.open \ {hide} = Only(new)
      BY <1>9, <3>1, <3>4
    <3>7. OneSlides(m, hide, slide)
      BY <1>7, <1>8, <1>9, <3>1, <3>3, <3>4, <3>5, <3>6 DEF OneSlides
    <3> QED BY <3>1, <3>7 DEF Calm
  <2> QED BY <2>4, <2>5, <2>6
<1> QED BY <1>11, <1>12

LEMMA AccordionInvInit == AccordionInit => AccordionInv
<1> SUFFICES ASSUME AccordionInit PROVE AccordionInv
  OBVIOUS
<1>1. /\ acc \in [animated : BOOLEAN, collapsible : BOOLEAN, disabled : {FALSE},
                  active : {1}, running : {0}, toShow : {0}, toHide : {0}, newHeader : {1},
                  open : {{1}}, flat : {{}}, content : {{1}}, expanded : {{1}},
                  tabbable : {{1}}, alive : {TRUE}]
      /\ panelSlides = [i \in Panels |-> <<>>]
      /\ veiled = FALSE /\ toldHeader = 1 /\ hurried = FALSE /\ shut = FALSE /\ turns = 0
  BY DEF AccordionInit
<1>2. 1 \in Panels /\ 1 \in 0..Headers /\ 0 \in 0..Headers /\ Only(1) = {1}
  BY AccordionAssumption DEF Panels, Only
<1>3. /\ acc.animated \in BOOLEAN /\ acc.collapsible \in BOOLEAN /\ acc.disabled = FALSE
      /\ acc.active = 1 /\ acc.running = 0 /\ acc.toShow = 0 /\ acc.toHide = 0
      /\ acc.newHeader = 1 /\ acc.open = {1} /\ acc.flat = {} /\ acc.content = {1}
      /\ acc.expanded = {1} /\ acc.tabbable = {1} /\ acc.alive = TRUE
      /\ acc = [animated |-> acc.animated, collapsible |-> acc.collapsible,
                disabled |-> acc.disabled, active |-> acc.active, running |-> acc.running,
                toShow |-> acc.toShow, toHide |-> acc.toHide, newHeader |-> acc.newHeader,
                open |-> acc.open, flat |-> acc.flat, content |-> acc.content,
                expanded |-> acc.expanded, tabbable |-> acc.tabbable, alive |-> acc.alive]
  BY <1>1
<1>r. acc \in AccRecords
  <2>1. /\ {1} \in SUBSET Panels /\ {} \in SUBSET Panels /\ 0 \in Int
        /\ TRUE \in BOOLEAN /\ FALSE \in BOOLEAN
    BY <1>2
  <2> QED BY <1>2, <1>3, <2>1 DEF AccRecords
<1>4. /\ Now.acc = acc /\ Now.slides = panelSlides /\ Now.told = toldHeader
      /\ Now = [acc |-> Now.acc, slides |-> Now.slides, told |-> Now.told]
  BY DEF Now
<1>5. panelSlides \in [Panels -> Seq(Slides)]
  BY <1>1
<1>6. Now \in AccStates
  BY <1>1, <1>2, <1>r, <1>4, <1>5, AStateIs
<1>f. /\ Now.slides = [i \in Panels |-> <<>>] /\ Now.told = 1 /\ Now.acc.active = 1
      /\ Now.acc.running = 0 /\ Now.acc.open = {1} /\ Now.acc.flat = {}
      /\ Now.acc.content = {1} /\ Now.acc.expanded = {1} /\ Now.acc.alive
  BY <1>1, <1>3, <1>4
<1>7. NoneSlides(Now)
  BY <1>2, <1>f DEF NoneSlides, Active
<1> QED BY <1>1, <1>3, <1>6, <1>7, AccordionAssumption DEF AccordionInv, Calm

LEMMA NowIs ==
  /\ Now.acc = acc /\ Now.slides = panelSlides /\ Now.told = toldHeader
  /\ Now = [acc |-> acc, slides |-> panelSlides, told |-> toldHeader]
BY DEF Now

LEMMA NowBecomes ==
  ASSUME NEW m \in AccStates, Becomes(m)
  PROVE  Now' = m /\ acc' = m.acc
BY AState DEF Becomes, Now

LEMMA OneMoreTurn ==
  ASSUME AccordionInv, Turn PROVE turns' \in 0..MaxTurns
BY AccordionAssumption DEF AccordionInv, Turn

\* Only an accordion at rest counts nobody.
LEMMA CalmAtZero ==
  ASSUME NEW n, Calm(n), n.acc.running = 0
  PROVE  NoneSlides(n)
BY DEF Calm, OneSlides

\* The headers are told first what will be.
Clicked(n, new, c) == [n EXCEPT !.acc.active = new, !.acc.content = c]

ClickedTo(n, new, c, m) ==
    /\ m.slides = n.slides /\ m.told = n.told
    /\ m.acc = [n.acc EXCEPT !.active = new, !.content = c]
    /\ m = [acc |-> m.acc, slides |-> m.slides, told |-> m.told]

LEMMA ClickedIs ==
  ASSUME NEW n \in AccStates, NEW new, NEW c
  PROVE  ClickedTo(n, new, c, Clicked(n, new, c))
<1> DEFINE m == Clicked(n, new, c)
<1>1. m = [n EXCEPT !.acc.active = new, !.acc.content = c]
  BY DEF Clicked, AccStates, AccRecords
<1> HIDE DEF m
<1>2. /\ m.slides = n.slides /\ m.told = n.told
      /\ m.acc = [n.acc EXCEPT !.active = new, !.content = c]
      /\ m = [acc |-> m.acc, slides |-> m.slides, told |-> m.told]
  BY <1>1 DEF AccStates
<1>3. ClickedTo(n, new, c, m)
  BY <1>2 DEF ClickedTo
<1> QED BY <1>3 DEF m

\* A click: the active header and the panels to be are settled before.
LEMMA ClickHeaderKeeps ==
  ASSUME AccordionInv, NEW i \in Panels, ClickHeader(i)
  PROVE  AccordionInv'
<1> DEFINE closes  == i = acc.active
           new     == IF closes THEN 0 ELSE i
           c       == IF closes THEN acc.content ELSE acc.content \cup {i}
           clicked == Clicked(Now, new, c)
           m       == Toggle(clicked, i, acc.active, new)
<1>1. /\ Turn /\ acc.alive /\ acc.running = 0 /\ (acc.collapsible \/ i # acc.active)
      /\ hurried' = (hurried \/ veiled) /\ veiled' = veiled /\ shut' = shut
  BY DEF ClickHeader
<1>2. Now \in AccStates /\ acc \in AccRecords /\ (~hurried => Calm(Now))
  BY NowIs, AState DEF AccordionInv
<1>3. Becomes(m)
  BY <1>2, NowIs DEF ClickHeader, Clicked, AccStates, AccRecords
<1>4. i \in 0..Headers \ {0} /\ acc.active \in 0..Headers /\ new \in 0..Headers
      /\ c \in SUBSET Panels
  BY <1>2, PanelsAre DEF AccRecords
<1>a. /\ new = (IF i = acc.active THEN 0 ELSE i)
      /\ c = (IF i = acc.active THEN acc.content ELSE acc.content \cup {i})
  OBVIOUS
<1> HIDE DEF new, c, closes
<1>5. /\ clicked.slides = panelSlides /\ clicked.told = toldHeader
      /\ clicked.acc = [acc EXCEPT !.active = new, !.content = c]
      /\ clicked = [acc |-> clicked.acc, slides |-> clicked.slides, told |-> clicked.told]
  <2>1. ClickedTo(Now, new, c, clicked)
    BY <1>2, ClickedIs
  <2> HIDE DEF clicked
  <2> QED BY <2>1, NowIs DEF ClickedTo
<1> HIDE DEF clicked
<1>6. /\ clicked.acc \in AccRecords
      /\ clicked.acc.alive = acc.alive /\ clicked.acc.collapsible = acc.collapsible
      /\ clicked.acc.open = acc.open /\ clicked.acc.flat = acc.flat
      /\ clicked.acc.expanded = acc.expanded /\ clicked.acc.active = new
      /\ clicked.acc.content = c
  BY <1>2, <1>4, <1>5 DEF AccRecords
<1>7. clicked \in AccStates
  BY <1>2, <1>5, <1>6, NowIs, AState, AStateIs
<1>8. m \in AccStates /\ m.acc.tabbable # {}
  <2>1. ToggledTo(clicked, i, acc.active, Shown(clicked, i, acc.active, new), m)
    BY <1>4, <1>7, ToggleIs
  <2>2. m.acc.tabbable # {}
    BY <1>4, <1>7, ToggleTabs
  <2> QED BY <2>1, <2>2 DEF ToggledTo
<1>9. ASSUME ~hurried, ~veiled PROVE Calm(m)
  <2>1. /\ panelSlides = [j \in Panels |-> <<>>] /\ acc.flat = {} /\ toldHeader = acc.active
        /\ acc.collapsible \/ (acc.active # 0 /\ acc.expanded = {acc.active})
        /\ acc.open = Only(acc.active) /\ acc.content = acc.open
    BY <1>1, <1>2, <1>9, NowIs, CalmAtZero DEF NoneSlides, Active
  <2>2. c \ {acc.active} = Only(new)
    BY <1>4, <1>a, <2>1, PanelsAre DEF Only
  <2>3. acc.collapsible \/ (new # 0 /\ acc.expanded = {acc.active})
    BY <1>1, <1>4, <1>a, <2>1
  <2>4. /\ clicked.slides = [j \in Panels |-> <<>>] /\ clicked.acc.alive
        /\ clicked.acc.flat = {} /\ clicked.acc.open = Only(acc.active)
        /\ clicked.told = acc.active /\ clicked.acc.active = new
        /\ clicked.acc.content \ {acc.active} = Only(new)
        /\ clicked.acc.collapsible \/ (new # 0 /\ clicked.acc.expanded = {acc.active})
    BY <1>1, <1>5, <1>6, <2>1, <2>2, <2>3
  <2> QED BY <1>4, <1>7, <1>9, <1>a, <2>4, ToggleCalms
<1> HIDE DEF m
<1>10. Now' = m /\ acc' = m.acc
  BY <1>3, <1>8, NowBecomes
<1>11. turns' \in 0..MaxTurns
  BY <1>1, OneMoreTurn
<1> QED BY <1>1, <1>8, <1>9, <1>10, <1>11 DEF AccordionInv

LEMMA SlidingIs ==
  /\ NoneSlides(Now) => ~Sliding
  /\ \A p \in Panels, slide \in Slides : OneSlides(Now, p, slide) => Sliding
BY NowIs DEF NoneSlides, OneSlides, Sliding

\* activate(false) of an accordion at rest; of one that slides, it is hurried.
LEMMA CloseAllKeeps ==
  ASSUME AccordionInv, CloseAll
  PROVE  AccordionInv'
<1> DEFINE c       == acc.content \cup Only(acc.active)
           clicked == Clicked(Now, 0, c)
           m       == Toggle(clicked, 0, acc.active, 0)
<1>1. /\ Turn /\ acc.alive /\ acc.collapsible
      /\ hurried' = (hurried \/ veiled \/ Sliding) /\ veiled' = veiled /\ shut' = TRUE
  BY DEF CloseAll
<1>2. Now \in AccStates /\ acc \in AccRecords /\ (~hurried => Calm(Now))
  BY NowIs, AState DEF AccordionInv
<1>3. Becomes(m)
  BY <1>2, NowIs DEF CloseAll, Clicked, AccStates, AccRecords
<1>4. acc.active \in 0..Headers /\ 0 \in 0..Headers /\ c \in SUBSET Panels
  BY <1>2, PanelsAre DEF AccRecords
<1>5. ClickedTo(Now, 0, c, clicked)
  BY <1>2, ClickedIs
<1>a. c = acc.content \cup Only(acc.active)
  OBVIOUS
<1> HIDE DEF c, clicked
<1>6. /\ clicked.slides = panelSlides /\ clicked.told = toldHeader
      /\ clicked.acc = [acc EXCEPT !.active = 0, !.content = c]
      /\ clicked = [acc |-> clicked.acc, slides |-> clicked.slides, told |-> clicked.told]
  BY <1>5, NowIs DEF ClickedTo
<1>7. /\ clicked.acc \in AccRecords
      /\ clicked.acc.alive = acc.alive /\ clicked.acc.collapsible = acc.collapsible
      /\ clicked.acc.open = acc.open /\ clicked.acc.flat = acc.flat
      /\ clicked.acc.expanded = acc.expanded /\ clicked.acc.active = 0
      /\ clicked.acc.content = c
  BY <1>2, <1>4, <1>6 DEF AccRecords
<1>8. clicked \in AccStates
  BY <1>2, <1>6, <1>7, NowIs, AState, AStateIs
<1>9. m \in AccStates
  <2>1. ToggledTo(clicked, 0, acc.active, Shown(clicked, 0, acc.active, 0), m)
    BY <1>4, <1>8, ToggleIs
  <2> QED BY <2>1 DEF ToggledTo
<1>10. ASSUME ~hurried, ~veiled, ~Sliding PROVE Calm(m)
  <2>1. NoneSlides(Now)
    BY <1>2, <1>10, SlidingIs DEF Calm
  <2>2. /\ panelSlides = [j \in Panels |-> <<>>] /\ acc.flat = {} /\ toldHeader = acc.active
        /\ acc.open = Only(acc.active) /\ acc.content = acc.open
    BY <1>1, <2>1, NowIs DEF NoneSlides
  <2>3. c \ {acc.active} = Only(0) /\ 0 = (IF 0 = acc.active THEN 0 ELSE 0)
    BY <1>4, <1>a, <2>2, PanelsAre DEF Only
  <2>4. /\ clicked.slides = [j \in Panels |-> <<>>] /\ clicked.acc.alive
        /\ clicked.acc.flat = {} /\ clicked.acc.open = Only(acc.active)
        /\ clicked.told = acc.active /\ clicked.acc.active = 0
        /\ clicked.acc.content \ {acc.active} = Only(0)
        /\ clicked.acc.collapsible
    BY <1>1, <1>6, <1>7, <2>2, <2>3
  <2> QED BY <1>4, <1>8, <1>10, <2>3, <2>4, ToggleCalms
<1> HIDE DEF m
<1>11. Now' = m /\ acc' = m.acc
  BY <1>3, <1>9, NowBecomes
<1>12. turns' \in 0..MaxTurns
  BY <1>1, OneMoreTurn
<1> QED BY <1>1, <1>9, <1>10, <1>11, <1>12 DEF AccordionInv

\* An animation is over: the next of its queue has not begun.
Ended(n, i, slide) ==
    [n EXCEPT !.slides[i] = Tail(@), !.acc.flat = @ \ {slide.with},
              !.acc.open = IF slide.kind = "hide" THEN @ \ {i} ELSE @]

EndedTo(n, i, slide, m) ==
    /\ m \in AccStates /\ m.slides = [n.slides EXCEPT ![i] = Tail(n.slides[i])]
    /\ m.told = n.told
    /\ m.acc = [n.acc EXCEPT !.flat = n.acc.flat \ {slide.with}, !.open = m.acc.open]
    /\ m.acc.open = IF slide.kind = "hide" THEN n.acc.open \ {i} ELSE n.acc.open

LEMMA EndedIs ==
  ASSUME NEW n \in AccStates, NEW i \in Panels, NEW slide \in Slides, n.slides[i] # <<>>
  PROVE  EndedTo(n, i, slide, Ended(n, i, slide))
<1> DEFINE q    == Tail(n.slides[i])
           flat == n.acc.flat \ {slide.with}
           op   == IF slide.kind = "hide" THEN n.acc.open \ {i} ELSE n.acc.open
           m    == Ended(n, i, slide)
<1>1. n.acc \in AccRecords /\ n.slides \in [Panels -> Seq(Slides)] /\ n.told \in 0..Headers
  BY AState
<1>2. flat \in SUBSET Panels /\ op \in SUBSET Panels
  BY <1>1 DEF AccRecords
<1>3. q \in Seq(Slides)
  <2>1. n.slides[i] \in Seq(Slides)
    BY <1>1
  <2> QED BY <2>1
<1>4. m = [n EXCEPT !.slides[i] = q, !.acc.flat = flat, !.acc.open = op]
  BY DEF Ended, AccStates, AccRecords
<1>a. /\ q = Tail(n.slides[i]) /\ flat = n.acc.flat \ {slide.with}
      /\ op = IF slide.kind = "hide" THEN n.acc.open \ {i} ELSE n.acc.open
  OBVIOUS
<1> HIDE DEF q, flat, op, m
<1>5. /\ m.slides = [n.slides EXCEPT ![i] = q] /\ m.told = n.told
      /\ m.acc = [n.acc EXCEPT !.flat = flat, !.open = op]
      /\ m = [acc |-> m.acc, slides |-> m.slides, told |-> m.told]
  BY <1>4 DEF AccStates, AccRecords
<1>6. m.acc \in AccRecords /\ m.acc.open = op
  BY <1>1, <1>2, <1>5 DEF AccRecords
<1>7. m.slides \in [Panels -> Seq(Slides)]
  BY <1>1, <1>3, <1>5
<1>8. m \in AccStates
  BY <1>1, <1>5, <1>6, <1>7, AStateIs
<1>9. EndedTo(n, i, slide, m)
  BY <1>5, <1>6, <1>8, <1>a DEF EndedTo
<1> QED BY <1>9 DEF m

LEMMA PanelStopsKeeps ==
  ASSUME AccordionInv, NEW i \in Panels, PanelStops(i)
  PROVE  AccordionInv'
<1> DEFINE slide == Head(panelSlides[i])
           ended == Ended(Now, i, slide)
           begun == BeginSlide(ended, i)
           m     == Completed(begun, 1, FALSE)
<1>1. /\ panelSlides[i] # <<>> /\ veiled' = veiled /\ hurried' = hurried /\ shut' = shut
      /\ turns' = turns
  BY DEF PanelStops
<1>2. Now \in AccStates /\ acc \in AccRecords /\ panelSlides \in [Panels -> Seq(Slides)]
  BY NowIs, AState DEF AccordionInv
<1>3. Becomes(m)
  BY <1>2, NowIs DEF PanelStops, Ended
<1>4. slide \in Slides
  <2>1. panelSlides[i] \in Seq(Slides)
    BY <1>2
  <2> QED BY <1>1, <2>1
<1>5. EndedTo(Now, i, slide, ended)
  BY <1>1, <1>2, <1>4, NowIs, EndedIs
<1>s. slide = Head(panelSlides[i])
  OBVIOUS
<1> HIDE DEF slide, ended
<1>6. /\ ended \in AccStates /\ ended.slides = [panelSlides EXCEPT ![i] = Tail(panelSlides[i])]
      /\ ended.acc = [acc EXCEPT !.flat = acc.flat \ {slide.with}, !.open = ended.acc.open]
      /\ ended.acc.open = IF slide.kind = "hide" THEN acc.open \ {i} ELSE acc.open
      /\ ended.told = toldHeader
  BY <1>5, NowIs DEF EndedTo
<1>b. begun = BeginSlide(ended, i)
  OBVIOUS
<1> HIDE DEF begun
<1>e. ended \in AccStates
  BY <1>6
<1>7. begun \in AccStates /\ begun.acc.tabbable = ended.acc.tabbable
  BY <1>e, <1>b, BeginSlideIs
<1>c. ASSUME ended.slides[i] = <<>>
      PROVE  begun.slides = ended.slides /\ begun.told = ended.told /\ begun.acc = ended.acc
  BY <1>e, <1>b, <1>c, BeginSlideIs
<1>8. CompletedTo(begun, m, begun.acc.running - 1, begun.acc.running \in 1..1)
  BY <1>7, CompletedIs
<1> HIDE DEF m
<1>9. m \in AccStates /\ m.acc.tabbable = acc.tabbable
  <2>1. m.acc.tabbable = begun.acc.tabbable
    BY <1>7, <1>8, AState DEF CompletedTo, AccRecords
  <2>2. ended.acc.tabbable = acc.tabbable
    BY <1>2, <1>6 DEF AccRecords
  <2> QED BY <1>7, <1>8, <2>1, <2>2 DEF CompletedTo
<1>10. ASSUME ~hurried PROVE Calm(m)
  <2>1. ~NoneSlides(Now)
    BY <1>1, NowIs, SlidingIs DEF Sliding
  <2>2. PICK p \in Panels, s \in Slides : OneSlides(Now, p, s)
    BY <1>10, <2>1 DEF AccordionInv, Calm
  <2>3. panelSlides = [j \in Panels |-> IF j = p THEN <<s>> ELSE <<>>]
    BY <2>2, NowIs DEF OneSlides
  <2>4. i = p /\ slide = s /\ Tail(panelSlides[i]) = <<>>
    BY <1>1, <1>s, <2>3
  <2>5. ended.slides = [j \in Panels |-> <<>>]
    BY <1>6, <2>3, <2>4
  <2>6. begun.slides = ended.slides /\ begun.told = ended.told /\ begun.acc = ended.acc
    BY <1>c, <2>5
  <2>7. /\ acc.alive /\ (acc.collapsible \/ (acc.active # 0 /\ acc.expanded = {acc.active}))
        /\ acc.running = 1 /\ acc.newHeader = acc.active /\ acc.flat \subseteq {slide.with}
        /\ acc.content \ {acc.toHide} = Only(acc.active)
        /\ (IF slide.kind = "hide" THEN acc.open \ {i} ELSE acc.open) = Only(acc.active)
    BY <2>2, <2>4, NowIs DEF OneSlides, Active
  <2>e. /\ ended.acc.flat = acc.flat \ {slide.with} /\ ended.acc.open = Only(acc.active)
        /\ ended.acc.alive = acc.alive /\ ended.acc.collapsible = acc.collapsible
        /\ ended.acc.active = acc.active /\ ended.acc.expanded = acc.expanded
        /\ ended.acc.running = acc.running /\ ended.acc.newHeader = acc.newHeader
        /\ ended.acc.content = acc.content /\ ended.acc.toHide = acc.toHide
    <3>1. ended.acc.open = Only(acc.active)
      BY <1>6, <2>7
    <3> DEFINE open1 == ended.acc.open
               flat1 == acc.flat \ {slide.with}
    <3>2. ended.acc = [acc EXCEPT !.flat = flat1, !.open = open1]
      BY <1>6
    <3> HIDE DEF open1, flat1
    <3>3. /\ ended.acc.flat = flat1
          /\ ended.acc.alive = acc.alive /\ ended.acc.collapsible = acc.collapsible
          /\ ended.acc.active = acc.active /\ ended.acc.expanded = acc.expanded
          /\ ended.acc.running = acc.running /\ ended.acc.newHeader = acc.newHeader
          /\ ended.acc.content = acc.content /\ ended.acc.toHide = acc.toHide
      BY <1>2, <3>2 DEF AccRecords
    <3> QED BY <3>1, <3>3 DEF flat1
  <2>8. /\ begun.acc.flat = {} /\ begun.acc.open = Only(acc.active)
        /\ begun.acc.alive /\ begun.acc.collapsible = acc.collapsible
        /\ begun.acc.active = acc.active /\ begun.acc.expanded = acc.expanded
        /\ begun.acc.running = 1 /\ begun.acc.newHeader = acc.active
        /\ begun.acc.content = acc.content /\ begun.acc.toHide = acc.toHide
    BY <2>e, <2>6, <2>7
  <2>9. begun.acc \in AccRecords /\ begun.acc.running \in 1..1 /\ begun.acc.running - 1 = 0
    BY <1>7, <2>8, AState
  <2>10. /\ m.slides = begun.slides /\ m.told = acc.active
         /\ m.acc = [begun.acc EXCEPT !.running = 0,
                                      !.content = begun.acc.content \ {begun.acc.toHide}]
    BY <1>8, <2>8, <2>9 DEF CompletedTo
  <2>11. /\ m.acc.flat = {} /\ m.acc.open = Only(acc.active)
         /\ m.acc.alive /\ m.acc.collapsible = acc.collapsible
         /\ m.acc.active = acc.active /\ m.acc.expanded = acc.expanded
         /\ m.acc.running = 0 /\ m.acc.content = Only(acc.active)
    BY <2>7, <2>8, <2>9, <2>10 DEF AccRecords
  <2>12. Active(m)
    BY <2>7, <2>11 DEF Active
  <2>13. NoneSlides(m)
    BY <2>5, <2>6, <2>10, <2>11, <2>12 DEF NoneSlides
  <2> QED BY <2>13 DEF Calm
<1>11. Now' = m /\ acc' = m.acc
  BY <1>3, <1>9, NowBecomes
<1> QED BY <1>1, <1>9, <1>10, <1>11 DEF AccordionInv

\* What the state of the accordion hangs on when only the widget changes.
LEMMA OnlyTheWidget ==
  ASSUME AccordionInv, UNCHANGED <<panelSlides, toldHeader>>, acc' \in AccRecords
  PROVE  /\ Now' \in AccStates /\ Now'.acc = acc' /\ Now'.slides = panelSlides
         /\ Now'.told = toldHeader
<1>1. Now' = [acc |-> acc', slides |-> panelSlides, told |-> toldHeader]
  BY DEF Now
<1>2. panelSlides \in [Panels -> Seq(Slides)] /\ toldHeader \in 0..Headers
  BY NowIs, AState DEF AccordionInv
<1> QED BY <1>1, <1>2, AStateIs

LEMMA ArrowKeeps ==
  ASSUME AccordionInv, NEW i \in Panels, NEW d \in {-1, 1}, Arrow(i, d)
  PROVE  AccordionInv'
<1> DEFINE to  == ((i - 1 + d + Headers) % Headers) + 1
           tab == (acc.tabbable \ {i}) \cup {to}
<1>1. /\ Turn /\ acc' = [acc EXCEPT !.tabbable = tab]
      /\ UNCHANGED <<panelSlides, veiled, toldHeader, hurried, shut>>
  BY DEF Arrow
<1>2. acc \in AccRecords
  BY NowIs, AState DEF AccordionInv
<1>3. to \in Panels
  <2>1. i \in Int /\ i - 1 + d + Headers \in Int /\ Headers \in Nat \ {0}
    BY AccordionAssumption DEF Panels
  <2> DEFINE x == i - 1 + d + Headers
  <2>2. x \in Int
    BY <2>1
  <2> HIDE DEF x
  <2>3. x % Headers \in 0..Headers - 1
    BY <2>1, <2>2
  <2>4. (x % Headers) + 1 \in 1..Headers
    BY <2>1, <2>3
  <2> QED BY <2>4 DEF Panels, x
<1>4. tab \in SUBSET Panels /\ tab # {}
  BY <1>2, <1>3 DEF AccRecords
<1> HIDE DEF tab, to
<1>5. /\ acc' \in AccRecords /\ acc'.tabbable = tab
      /\ acc'.alive = acc.alive /\ acc'.collapsible = acc.collapsible
      /\ acc'.active = acc.active /\ acc'.expanded = acc.expanded
      /\ acc'.running = acc.running /\ acc'.newHeader = acc.newHeader
      /\ acc'.flat = acc.flat /\ acc'.open = acc.open
      /\ acc'.content = acc.content /\ acc'.toHide = acc.toHide
  BY <1>1, <1>2, <1>4 DEF AccRecords
<1>6. /\ Now' \in AccStates /\ Now'.acc = acc' /\ Now'.slides = panelSlides
      /\ Now'.told = toldHeader
  BY <1>1, <1>5, OnlyTheWidget
<1>s. Now.slides = panelSlides /\ Now.acc = acc /\ Now.told = toldHeader
  BY NowIs
<1>7. ASSUME NEW n, n = Now', Calm(Now) PROVE Calm(n)
  <2>1. Active(Now) => Active(n)
    BY <1>5, <1>6, <1>7, <1>s DEF Active
  <2>2. NoneSlides(Now) => NoneSlides(n)
    BY <1>5, <1>6, <1>7, <1>s, <2>1 DEF NoneSlides
  <2>3. ASSUME NEW p \in Panels, NEW slide \in Slides, OneSlides(Now, p, slide)
        PROVE  OneSlides(n, p, slide)
    BY <1>5, <1>6, <1>7, <1>s, <2>1, <2>3 DEF OneSlides
  <2> QED BY <1>7, <2>2, <2>3 DEF Calm
<1>8. turns' \in 0..MaxTurns
  BY <1>1, OneMoreTurn
<1> QED BY <1>1, <1>4, <1>5, <1>6, <1>7, <1>8 DEF AccordionInv

LEMMA DisableKeepsAccordion ==
  ASSUME AccordionInv, NEW d \in BOOLEAN, DisableAccordion(d)
  PROVE  AccordionInv'
<1>1. /\ Turn /\ acc' = [acc EXCEPT !.disabled = d]
      /\ UNCHANGED <<panelSlides, veiled, toldHeader, hurried, shut>>
  BY DEF DisableAccordion
<1>2. acc \in AccRecords
  BY NowIs, AState DEF AccordionInv
<1>5. /\ acc' \in AccRecords /\ acc'.tabbable = acc.tabbable
      /\ acc'.alive = acc.alive /\ acc'.collapsible = acc.collapsible
      /\ acc'.active = acc.active /\ acc'.expanded = acc.expanded
      /\ acc'.running = acc.running /\ acc'.newHeader = acc.newHeader
      /\ acc'.flat = acc.flat /\ acc'.open = acc.open
      /\ acc'.content = acc.content /\ acc'.toHide = acc.toHide
  BY <1>1, <1>2 DEF AccRecords
<1>6. /\ Now' \in AccStates /\ Now'.acc = acc' /\ Now'.slides = panelSlides
      /\ Now'.told = toldHeader
  BY <1>1, <1>5, OnlyTheWidget
<1>s. Now.slides = panelSlides /\ Now.acc = acc /\ Now.told = toldHeader
  BY NowIs
<1>7. ASSUME NEW n, n = Now', Calm(Now) PROVE Calm(n)
  <2>1. Active(Now) => Active(n)
    BY <1>5, <1>6, <1>7, <1>s DEF Active
  <2>2. NoneSlides(Now) => NoneSlides(n)
    BY <1>5, <1>6, <1>7, <1>s, <2>1 DEF NoneSlides
  <2>3. ASSUME NEW p \in Panels, NEW slide \in Slides, OneSlides(Now, p, slide)
        PROVE  OneSlides(n, p, slide)
    BY <1>5, <1>6, <1>7, <1>s, <2>1, <2>3 DEF OneSlides
  <2> QED BY <1>7, <2>2, <2>3 DEF Calm
<1>8. turns' \in 0..MaxTurns
  BY <1>1, OneMoreTurn
<1> QED BY <1>1, <1>5, <1>6, <1>7, <1>8 DEF AccordionInv

\* destroy opens all panels; those that slide make it a hurry.
LEMMA DestroyAccordionKeeps ==
  ASSUME AccordionInv, DestroyAccordion
  PROVE  AccordionInv'
<1>1. /\ Turn /\ acc' = [acc EXCEPT !.alive = FALSE, !.open = Panels, !.content = {},
                                    !.expanded = {}, !.tabbable = Panels]
      /\ hurried' = (hurried \/ Sliding)
      /\ UNCHANGED <<panelSlides, veiled, toldHeader, shut>>
  BY DEF DestroyAccordion
<1>2. acc \in AccRecords
  BY NowIs, AState DEF AccordionInv
<1>3. Panels # {}
  BY AccordionAssumption DEF Panels
<1>5. /\ acc' \in AccRecords /\ acc'.tabbable = Panels
      /\ acc'.alive = FALSE /\ acc'.active = acc.active
      /\ acc'.running = acc.running
      /\ acc'.flat = acc.flat /\ acc'.open = Panels
  BY <1>1, <1>2 DEF AccRecords
<1>6. /\ Now' \in AccStates /\ Now'.acc = acc' /\ Now'.slides = panelSlides
      /\ Now'.told = toldHeader
  BY <1>1, <1>5, OnlyTheWidget
<1>7. ASSUME NEW n, n = Now', NoneSlides(Now) PROVE NoneSlides(n)
  BY <1>5, <1>6, <1>7, NowIs DEF NoneSlides
<1>8. ~hurried' => Calm(Now')
  <2>1. ASSUME ~hurried' PROVE NoneSlides(Now)
    BY <1>1, <2>1, SlidingIs DEF AccordionInv, Calm
  <2> QED BY <1>7, <2>1 DEF Calm
<1>9. turns' \in 0..MaxTurns
  BY <1>1, OneMoreTurn
<1> QED BY <1>3, <1>5, <1>6, <1>8, <1>9 DEF AccordionInv

LEMMA VeilKeeps ==
  ASSUME AccordionInv, NEW v \in BOOLEAN, Veil(v)
  PROVE  AccordionInv'
<1>1. Turn /\ UNCHANGED <<acc, panelSlides, toldHeader, hurried, shut>>
  BY DEF Veil
<1>2. Now' = Now
  BY <1>1 DEF Now
<1>3. turns' \in 0..MaxTurns
  BY <1>1, OneMoreTurn
<1> QED BY <1>1, <1>2, <1>3 DEF AccordionInv

LEMMA AccordionInvStep == AccordionInv /\ [AccordionNext]_accVars => AccordionInv'
<1> SUFFICES ASSUME AccordionInv, [AccordionNext]_accVars PROVE AccordionInv'
  OBVIOUS
<1>1. CASE UNCHANGED accVars
  <2>1. Now' = Now
    BY <1>1 DEF Now, accVars
  <2> QED BY <1>1, <2>1 DEF accVars, AccordionInv
<1>2. ASSUME NEW i \in Panels, ClickHeader(i) PROVE AccordionInv'
  BY <1>2, ClickHeaderKeeps
<1>3. ASSUME NEW i \in Panels, PanelStops(i) PROVE AccordionInv'
  BY <1>3, PanelStopsKeeps
<1>4. ASSUME NEW i \in Panels, NEW d \in {-1, 1}, Arrow(i, d) PROVE AccordionInv'
  BY <1>4, ArrowKeeps
<1>5. CASE CloseAll
  BY <1>5, CloseAllKeeps
<1>6. CASE DestroyAccordion
  BY <1>6, DestroyAccordionKeeps
<1>7. ASSUME NEW v \in BOOLEAN, DisableAccordion(v) PROVE AccordionInv'
  BY <1>7, DisableKeepsAccordion
<1>8. ASSUME NEW v \in BOOLEAN, Veil(v) PROVE AccordionInv'
  BY <1>8, VeilKeeps
<1> QED BY <1>1, <1>2, <1>3, <1>4, <1>5, <1>6, <1>7, <1>8 DEF AccordionNext

LEMMA AccordionInvAgrees == AccordionInv => AccordionAgrees
<1> SUFFICES ASSUME AccordionInv PROVE AccordionAgrees
  OBVIOUS
<1>1. acc \in AccRecords /\ (~shut => acc.tabbable # {})
  BY NowIs, AState DEF AccordionInv
<1>2. ASSUME ~Sliding, ~hurried PROVE AtRest
  <2>1. NoneSlides(Now)
    BY <1>2, SlidingIs DEF AccordionInv, Calm
  <2>2. /\ acc.running = 0 /\ acc.flat = {} /\ toldHeader = acc.active
        /\ (acc.alive => /\ acc.open = Only(acc.active) /\ acc.content = acc.open
                         /\ (acc.collapsible \/ acc.expanded = {acc.active}))
        /\ (~acc.alive => acc.open = Panels)
    BY <2>1, NowIs DEF NoneSlides, Active
  <2> QED BY <2>2 DEF AtRest
<1> QED BY <1>1, <1>2 DEF AccordionAgrees

-----------------------------------------------------------------------------
(* The tabs.                                                               *)

TabFields == {"collapsible", "fx", "cache", "order", "selected", "disabled", "selClass",
              "disClass", "processing", "shown", "queue", "anims", "loading", "cached",
              "filled", "alive"}
IsWidget(n) == DOMAIN n = TabFields /\ n = [f \in TabFields |-> n[f]]

On(n) == IF n.selected = 0 THEN {} ELSE {n.order[n.selected]}
Hide(p) == [do |-> "hide", who |-> {p}]
Show(n) == [do |-> "show", who |-> On(n)]

\* The list, the options and what hangs on them, whatever is animated.
Settled(n) ==
    /\ n.order \in Seq(TabIds)
    /\ \A i, j \in 1..Len(n.order) : n.order[i] = n.order[j] => i = j
    /\ n.selected \in 0..Len(n.order) /\ n.disabled \subseteq 1..Len(n.order)
    /\ n.selected \notin n.disabled
    /\ n.disClass = {n.order[i] : i \in n.disabled}
    /\ n.cached \subseteq n.filled

\* The panel of the selected tab was answered or will be.
WillBeSeen(n) ==
    /\ n.processing \subseteq {n.loading}
    /\ On(n) \cap RemoteTabs \subseteq n.filled \cup {n.loading}

(***************************************************************************)
(* A selection: the old panel goes, with fx the new one comes when it has  *)
(* gone, and then all is at ease.                                          *)
(***************************************************************************)
AtEase(n) == n.queue = <<>> /\ n.anims = {} /\ n.selClass = On(n) /\ n.shown = On(n)
Leaving(n, p) == /\ n.fx /\ p \in Lis(n) /\ n.anims = {Hide(p)} /\ n.shown = {p}
                 /\ n.queue = IF n.selected = 0 THEN <<>> ELSE <<Show(n)>>
Coming(n) == /\ n.fx /\ n.selected # 0 /\ n.queue = <<>> /\ n.anims = {Show(n)}
             /\ n.selClass = On(n) /\ n.shown = On(n)
Phase(n) == AtEase(n) \/ Coming(n) \/ \E p \in TabIds : Leaving(n, p)

Fine(n) == IsWidget(n) /\ n.alive /\ Settled(n) /\ WillBeSeen(n) /\ Phase(n)
Gone(n) == IsWidget(n) /\ ~n.alive /\ n.queue = <<>> /\ \A a \in n.anims : a.do = "show"

TabsInv == torn \in BOOLEAN /\ (torn \/ Fine(tabs) \/ Gone(tabs))

\* The panels, one after the other.
UpTo(n, f) ==
    f = [i \in 0..Len(n.order) |-> IF i = 0 THEN n ELSE Stopped(f[i - 1], n.order[i])]

LEMMA StopPanelsIs ==
  ASSUME NEW n, Len(n.order) \in Nat
  PROVE  \E f : UpTo(n, f) /\ StopPanels(n) = f[Len(n.order)]
<1> DEFINE L    == Len(n.order)
           g(f, k) == f = [i \in 0..k |-> IF i = 0 THEN n ELSE Stopped(f[i - 1], n.order[i])]
           good == {k \in 0..L : \E f : g(f, k)}
<1>1. 0 \in good
  <2> DEFINE f == [i \in 0..0 |-> n]
  <2>1. f = [i \in 0..0 |-> IF i = 0 THEN n ELSE Stopped(f[i - 1], n.order[i])]
    <3>1. \A i \in 0..0 : i = 0
      OBVIOUS
    <3> QED BY <3>1
  <2> HIDE DEF f
  <2>2. \E h : g(h, 0)
    BY <2>1
  <2> QED BY <2>2
<1>2. ASSUME NEW k \in 0..L, k < L, k \in good PROVE k + 1 \in good
  <2>1. PICK f : g(f, k)
    BY <1>2
  <2> DEFINE h == [i \in 0..k + 1 |-> IF i \in 0..k THEN f[i] ELSE Stopped(f[k], n.order[k + 1])]
  <2>2. ASSUME NEW i \in 0..k + 1
        PROVE  h[i] = IF i = 0 THEN n ELSE Stopped(h[i - 1], n.order[i])
    <3>1. CASE i = 0
      <4>1. h[i] = f[0] /\ f[0] = n
        BY <2>1, <3>1
      <4> QED BY <3>1, <4>1
    <3>2. CASE i \in 1..k
      <4>1. i - 1 \in 0..k /\ i \in 0..k /\ i # 0 /\ i - 1 \in 0..k + 1
        BY <3>2
      <4>2. h[i] = f[i] /\ h[i - 1] = f[i - 1]
        BY <4>1
      <4>3. f[i] = Stopped(f[i - 1], n.order[i])
        BY <2>1, <4>1
      <4> QED BY <4>1, <4>2, <4>3
    <3>3. CASE i = k + 1
      <4>1. i - 1 = k /\ k \in 0..k /\ k \in 0..k + 1 /\ i \notin 0..k /\ i # 0
        BY <3>3
      <4>2. h[i] = Stopped(f[k], n.order[i]) /\ h[i - 1] = f[k]
        BY <3>3, <4>1
      <4> QED BY <4>1, <4>2
    <3> QED BY <3>1, <3>2, <3>3
  <2>3. h = [i \in 0..k + 1 |-> h[i]]
    OBVIOUS
  <2> HIDE DEF h
  <2>4. g(h, k + 1)
    BY <2>2, <2>3
  <2> QED BY <1>2, <2>4
<1>3. L \in good
  <2> HIDE DEF good
  <2>1. 0..L \subseteq good
    BY <1>1, <1>2, StepByStep
  <2> QED BY <2>1
<1>4. PICK f : g(f, L)
  BY <1>3
<1> DEFINE upTo == CHOOSE h : g(h, L)
<1>5. g(upTo, L)
  BY <1>4
<1>6. StopPanels(n) = upTo[L]
  BY DEF StopPanels
<1>7. UpTo(n, upTo)
  BY <1>5 DEF UpTo
<1> QED BY <1>6, <1>7

\* All but what is seen and what is to be done.
Kin(n, m) ==
    /\ IsWidget(m) /\ m.collapsible = n.collapsible /\ m.fx = n.fx /\ m.cache = n.cache
    /\ m.order = n.order /\ m.selected = n.selected /\ m.disabled = n.disabled
    /\ m.disClass = n.disClass /\ m.processing = n.processing /\ m.loading = n.loading
    /\ m.cached = n.cached /\ m.filled = n.filled /\ m.alive = n.alive

LEMMA KinShares ==
  ASSUME NEW n, NEW m, Kin(n, m)
  PROVE  /\ On(m) = On(n) /\ Lis(m) = Lis(n) /\ Show(m) = Show(n)
         /\ Settled(n) => Settled(m)
         /\ WillBeSeen(n) => WillBeSeen(m)
<1>1. On(m) = On(n) /\ Lis(m) = Lis(n)
  BY DEF Kin, On, Lis
<1>2. Settled(n) => Settled(m)
  BY DEF Kin, Settled
<1>3. WillBeSeen(n) => WillBeSeen(m)
  BY <1>1 DEF Kin, WillBeSeen
<1> QED BY <1>1, <1>2, <1>3 DEF Show

LEMMA KinOfKin ==
  ASSUME NEW n, NEW m, NEW k, Kin(n, m), Kin(m, k)
  PROVE  Kin(n, k)
BY DEF Kin

\* What is seen and what is to be done.
Seeing(m, queue, anims, sel, inView) ==
    m.queue = queue /\ m.anims = anims /\ m.selClass = sel /\ m.shown = inView

LEMMA HiddenIs ==
  ASSUME NEW n, IsWidget(n), NEW ps
  PROVE  /\ Kin(n, Hidden(n, ps))
         /\ Seeing(Hidden(n, ps), n.queue, n.anims, {}, n.shown \ ps)
<1> DEFINE m == Hidden(n, ps)
           left == n.shown \ ps
<1>1. m = [n EXCEPT !.selClass = {}, !.shown = left]
  BY DEF Hidden, IsWidget, TabFields
<1> HIDE DEF m, left
<1>2. Kin(n, m) /\ Seeing(m, n.queue, n.anims, {}, left)
  BY <1>1 DEF Kin, IsWidget, TabFields, Seeing
<1> QED BY <1>2 DEF m, left

LEMMA SeeingIs ==
  ASSUME NEW n, IsWidget(n), NEW queue, NEW anims, NEW sel, NEW inView, NEW m,
         m = [n EXCEPT !.queue = queue, !.anims = anims, !.selClass = sel, !.shown = inView]
  PROVE  Kin(n, m) /\ Seeing(m, queue, anims, sel, inView)
BY DEF Kin, IsWidget, TabFields, Seeing

Hides(who) == {[do |-> "hide", who |-> {p}] : p \in who}

\* What a step of the queue does.
PoppedTo(n, job, rest, m) ==
    /\ Kin(n, m)
    /\ job.do = "tell" => Seeing(m, rest, n.anims, n.selClass, n.shown)
    /\ job.do = "show" =>
          Seeing(m, rest, IF n.fx THEN n.anims \cup {job} ELSE n.anims,
                 n.selClass \cup job.who, n.shown \cup job.who)
    /\ job.do = "hide" /\ n.fx =>
          Seeing(m, rest, n.anims \cup Hides(job.who), n.selClass, n.shown)
    /\ job.do = "hide" /\ ~n.fx => Seeing(m, rest, n.anims, {}, n.shown \ job.who)

LEMMA PopIs ==
  ASSUME NEW n, IsWidget(n), n.queue # <<>>, NEW job, job = Head(n.queue),
         job.do \in {"tell", "show", "hide"}
  PROVE  PoppedTo(n, job, Tail(n.queue), Pop(n))
<1> DEFINE rest == Tail(n.queue)
           a    == [n EXCEPT !.queue = rest]
           m    == Pop(n)
<1>1. m = Perform(a, job)
  BY DEF Pop, IsWidget, TabFields
<1> HIDE DEF rest
<1>2. Kin(n, a) /\ Seeing(a, rest, n.anims, n.selClass, n.shown)
  BY DEF Kin, IsWidget, TabFields, Seeing
<1> HIDE DEF a, m
<1>3. IsWidget(a) /\ a.fx = n.fx
  BY <1>2 DEF Kin
<1>4. CASE job.do = "tell"
  <2>1. m = a
    BY <1>1, <1>4 DEF Perform
  <2> QED BY <1>2, <1>4, <2>1 DEF PoppedTo, m, rest
<1>5. CASE job.do = "show"
  <2> DEFINE sel   == a.selClass \cup job.who
             inView == a.shown \cup job.who
             anims == IF a.fx THEN a.anims \cup {job} ELSE a.anims
  <2>1. m = [a EXCEPT !.selClass = sel, !.shown = inView, !.anims = anims]
    BY <1>1, <1>3, <1>5 DEF Perform, IsWidget, TabFields
  <2> HIDE DEF sel, inView, anims
  <2>2. Kin(a, m) /\ Seeing(m, a.queue, anims, sel, inView)
    BY <1>3, <2>1 DEF Kin, IsWidget, TabFields, Seeing
  <2>3. Kin(n, m)
    BY <1>2, <2>2, KinOfKin
  <2>4. Seeing(m, rest, IF n.fx THEN n.anims \cup {job} ELSE n.anims,
               n.selClass \cup job.who, n.shown \cup job.who)
    BY <1>2, <1>3, <2>2 DEF Seeing, sel, inView, anims
  <2> QED BY <1>5, <2>3, <2>4 DEF PoppedTo, m, rest
<1>6. CASE job.do = "hide" /\ n.fx
  <2> DEFINE anims == a.anims \cup Hides(job.who)
  <2>1. m = [a EXCEPT !.anims = anims]
    BY <1>1, <1>3, <1>6 DEF Perform, IsWidget, TabFields, Hides
  <2> HIDE DEF anims
  <2>2. Kin(a, m) /\ Seeing(m, a.queue, anims, a.selClass, a.shown)
    BY <1>3, <2>1 DEF Kin, IsWidget, TabFields, Seeing
  <2>3. Kin(n, m)
    BY <1>2, <2>2, KinOfKin
  <2>4. Seeing(m, rest, n.anims \cup Hides(job.who), n.selClass, n.shown)
    BY <1>2, <2>2 DEF Seeing, anims
  <2> QED BY <1>6, <2>3, <2>4 DEF PoppedTo, m, rest
<1>7. CASE job.do = "hide" /\ ~n.fx
  <2>1. m = Hidden(a, job.who)
    BY <1>1, <1>3, <1>7 DEF Perform
  <2>2. Kin(a, m) /\ Seeing(m, a.queue, a.anims, {}, a.shown \ job.who)
    BY <1>3, <2>1, HiddenIs
  <2>3. Kin(n, m)
    BY <1>2, <2>2, KinOfKin
  <2>4. Seeing(m, rest, n.anims, {}, n.shown \ job.who)
    BY <1>2, <2>2 DEF Seeing
  <2> QED BY <1>7, <2>3, <2>4 DEF PoppedTo, m, rest
<1> QED BY <1>4, <1>5, <1>6, <1>7

LEMMA DequeueNone ==
  ASSUME NEW n, n.queue = <<>>
  PROVE  DequeueTabs(n) = n
BY DEF DequeueTabs, Pop

\* What dequeue makes of the queues there are.
LEMMA DequeueTell ==
  ASSUME NEW n, IsWidget(n), NEW w, n.queue = <<[do |-> "tell", who |-> w]>>
  PROVE  /\ Kin(n, DequeueTabs(n))
         /\ Seeing(DequeueTabs(n), <<>>, n.anims, n.selClass, n.shown)
<1> DEFINE job == [do |-> "tell", who |-> w]
<1>1. n.queue # <<>> /\ Head(n.queue) = job /\ Tail(n.queue) = <<>> /\ job.do = "tell"
  OBVIOUS
<1> HIDE DEF job
<1>2. DequeueTabs(n) = Pop(n)
  BY <1>1 DEF DequeueTabs
<1>3. PoppedTo(n, job, <<>>, Pop(n))
  BY <1>1, PopIs
<1> QED BY <1>1, <1>2, <1>3 DEF PoppedTo

LEMMA DequeueShow ==
  ASSUME NEW n, IsWidget(n), NEW w, n.queue = <<[do |-> "show", who |-> w]>>
  PROVE  /\ Kin(n, DequeueTabs(n))
         /\ n.fx => Seeing(DequeueTabs(n), <<>>, n.anims \cup {[do |-> "show", who |-> w]},
                           n.selClass \cup w, n.shown \cup w)
         /\ ~n.fx => Seeing(DequeueTabs(n), <<>>, n.anims, n.selClass \cup w, n.shown \cup w)
<1> DEFINE job == [do |-> "show", who |-> w]
<1>1. /\ n.queue # <<>> /\ Head(n.queue) = job /\ Tail(n.queue) = <<>> /\ job.do = "show"
      /\ job.who = w /\ job = [do |-> "show", who |-> w]
  OBVIOUS
<1> HIDE DEF job
<1>2. DequeueTabs(n) = Pop(n)
  BY <1>1 DEF DequeueTabs
<1>3. PoppedTo(n, job, <<>>, Pop(n))
  BY <1>1, PopIs
<1> QED BY <1>1, <1>2, <1>3 DEF PoppedTo

LEMMA DequeueHideSlowly ==
  ASSUME NEW n, IsWidget(n), n.fx, NEW w, n.queue # <<>>,
         Head(n.queue) = [do |-> "hide", who |-> w]
  PROVE  /\ Kin(n, DequeueTabs(n))
         /\ Seeing(DequeueTabs(n), Tail(n.queue), n.anims \cup Hides(w), n.selClass, n.shown)
<1> DEFINE job == [do |-> "hide", who |-> w]
<1>1. Head(n.queue) = job /\ job.do = "hide" /\ job.who = w
  OBVIOUS
<1> HIDE DEF job
<1>2. DequeueTabs(n) = Pop(n)
  BY <1>1 DEF DequeueTabs
<1>3. PoppedTo(n, job, Tail(n.queue), Pop(n))
  BY <1>1, PopIs
<1> QED BY <1>1, <1>2, <1>3 DEF PoppedTo

\* Without fx the hidden panel dequeues at once.
LEMMA DequeueHideAtOnce ==
  ASSUME NEW n, IsWidget(n), ~n.fx, NEW w, n.queue = <<[do |-> "hide", who |-> w]>>
  PROVE  /\ Kin(n, DequeueTabs(n))
         /\ Seeing(DequeueTabs(n), <<>>, n.anims, {}, n.shown \ w)
<1> DEFINE job == [do |-> "hide", who |-> w]
           m   == Pop(n)
<1>1. /\ n.queue # <<>> /\ Head(n.queue) = job /\ Tail(n.queue) = <<>> /\ job.do = "hide"
      /\ job.who = w
  OBVIOUS
<1> HIDE DEF job
<1>2. DequeueTabs(n) = Pop(m)
  BY <1>1 DEF DequeueTabs
<1>3. PoppedTo(n, job, <<>>, m)
  BY <1>1, PopIs
<1> HIDE DEF m
<1>4. Kin(n, m) /\ Seeing(m, <<>>, n.anims, {}, n.shown \ w)
  BY <1>1, <1>3 DEF PoppedTo
<1>5. Pop(m) = m
  BY <1>4 DEF Pop, Seeing
<1> QED BY <1>2, <1>4, <1>5

LEMMA DequeueBothAtOnce ==
  ASSUME NEW n, IsWidget(n), ~n.fx, NEW w, NEW v,
         n.queue = <<[do |-> "hide", who |-> w], [do |-> "show", who |-> v]>>
  PROVE  /\ Kin(n, DequeueTabs(n))
         /\ Seeing(DequeueTabs(n), <<>>, n.anims, v, (n.shown \ w) \cup v)
<1> DEFINE job  == [do |-> "hide", who |-> w]
           next == [do |-> "show", who |-> v]
           m    == Pop(n)
           k    == Pop(m)
<1>1. /\ n.queue # <<>> /\ Head(n.queue) = job /\ Tail(n.queue) = <<next>> /\ job.do = "hide"
      /\ job.who = w /\ next.do = "show" /\ next.who = v
  OBVIOUS
<1> HIDE DEF job, next
<1>2. DequeueTabs(n) = k
  BY <1>1 DEF DequeueTabs
<1>3. PoppedTo(n, job, <<next>>, m)
  BY <1>1, PopIs
<1> HIDE DEF m
<1>4. Kin(n, m) /\ Seeing(m, <<next>>, n.anims, {}, n.shown \ w) /\ IsWidget(m) /\ ~m.fx
  BY <1>1, <1>3 DEF PoppedTo, Kin
<1>5. m.queue # <<>> /\ Head(m.queue) = next /\ Tail(m.queue) = <<>>
  BY <1>4 DEF Seeing
<1>6. PoppedTo(m, next, <<>>, k)
  BY <1>1, <1>4, <1>5, PopIs
<1> HIDE DEF k
<1>7. Kin(m, k) /\ Seeing(k, <<>>, n.anims, v, (n.shown \ w) \cup v)
  BY <1>1, <1>4, <1>6 DEF PoppedTo, Seeing
<1> QED BY <1>2, <1>4, <1>7, KinOfKin

LEMMA JobsDiffer ==
  /\ \A p, q : Hide(p) = Hide(q) => p = q
  /\ \A p, n : Hide(p) # Show(n)
  /\ \A p : Hide(p).do = "hide" /\ Hide(p).who = {p}
  /\ \A n : Show(n).do = "show" /\ Show(n).who = On(n)
<1>1. ASSUME NEW p, NEW q, Hide(p) = Hide(q) PROVE p = q
  <2>1. Hide(p).who = Hide(q).who
    BY <1>1
  <2> QED BY <2>1 DEF Hide
<1>2. ASSUME NEW p, NEW n PROVE Hide(p) # Show(n)
  <2>1. Hide(p).do # Show(n).do
    BY DEF Hide, Show
  <2> QED BY <2>1
<1> QED BY <1>1, <1>2 DEF Hide, Show

\* An animation of a selection ends: the old panel's begins the new one's.
LEMMA FinishedIs ==
  ASSUME NEW n, IsWidget(n), Phase(n), NEW a \in n.anims
  PROVE  /\ Kin(n, Finished(n, a)) /\ (AtEase(Finished(n, a)) \/ Coming(Finished(n, a)))
<1> DEFINE left == n.anims \ {a}
           m    == [n EXCEPT !.anims = left]
           k    == Finished(n, a)
<1>1. k = IF a.do = "hide" THEN DequeueTabs(Hidden(m, a.who)) ELSE m
  BY DEF Finished, IsWidget, TabFields
<1>l. left = n.anims \ {a}
  OBVIOUS
<1> HIDE DEF left
<1>2. Kin(n, m) /\ Seeing(m, n.queue, left, n.selClass, n.shown)
  BY DEF Kin, IsWidget, TabFields, Seeing
<1> HIDE DEF m, k
<1>3. IsWidget(m) /\ m.fx = n.fx /\ On(m) = On(n) /\ Show(m) = Show(n) /\ m.selected = n.selected
  BY <1>2, KinShares DEF Kin
<1>4. CASE Coming(n)
  <2>1. a = Show(n) /\ a.do # "hide" /\ left = {}
    BY <1>4, <1>l, JobsDiffer DEF Coming
  <2>2. k = m
    BY <1>1, <2>1
  <2>3. AtEase(m)
    BY <1>2, <1>3, <1>4, <2>1 DEF Coming, AtEase, Seeing
  <2> QED BY <1>2, <2>2, <2>3 DEF k
<1>5. ASSUME NEW p \in TabIds, Leaving(n, p) PROVE Kin(n, k) /\ (AtEase(k) \/ Coming(k))
  <2> DEFINE h == Hidden(m, a.who)
  <2>1. a = Hide(p) /\ a.do = "hide" /\ a.who = {p} /\ left = {}
    BY <1>5, <1>l, JobsDiffer DEF Leaving
  <2>2. k = DequeueTabs(h)
    BY <1>1, <2>1
  <2>3. Kin(m, h) /\ Seeing(h, m.queue, m.anims, {}, m.shown \ a.who)
    BY <1>3, HiddenIs
  <2> HIDE DEF h
  <2>4. Kin(n, h) /\ Seeing(h, n.queue, {}, {}, {})
    <3>1. m.shown \ a.who = {}
      BY <1>2, <1>5, <2>1 DEF Leaving, Seeing
    <3>2. Kin(n, h)
      BY <1>2, <2>3, KinOfKin
    <3> QED BY <1>2, <2>1, <2>3, <3>1, <3>2 DEF Seeing
  <2>5. /\ IsWidget(h) /\ h.fx /\ On(h) = On(n) /\ Show(h) = Show(n)
        /\ h.selected = n.selected
    BY <1>5, <2>4, KinShares DEF Kin, Leaving
  <2>6. CASE n.selected = 0
    <3>1. h.queue = <<>>
      BY <1>5, <2>4, <2>6 DEF Leaving, Seeing
    <3>2. k = h
      BY <2>2, <3>1, DequeueNone
    <3>3. On(h) = {}
      BY <2>5, <2>6 DEF On
    <3>4. AtEase(h)
      BY <2>4, <3>1, <3>3 DEF AtEase, Seeing
    <3> QED BY <2>4, <3>2, <3>4
  <2>7. CASE n.selected # 0
    <3> DEFINE w == On(n)
    <3>1. h.queue = <<[do |-> "show", who |-> w]>>
      BY <1>5, <2>4, <2>7 DEF Leaving, Seeing, Show
    <3>w. w = On(n)
      OBVIOUS
    <3> HIDE DEF w
    <3>2. /\ Kin(h, k)
          /\ Seeing(k, <<>>, h.anims \cup {[do |-> "show", who |-> w]},
                    h.selClass \cup w, h.shown \cup w)
      BY <2>2, <2>5, <3>1, DequeueShow
    <3>3. Kin(n, k)
      BY <2>4, <3>2, KinOfKin
    <3>4. On(k) = w /\ k.fx /\ k.selected # 0 /\ Show(k) = [do |-> "show", who |-> w]
      BY <1>5, <2>7, <3>3, <3>w, KinShares DEF Kin, Leaving, Show
    <3>5. Coming(k)
      BY <2>4, <3>2, <3>4 DEF Coming, Seeing
    <3> QED BY <3>3, <3>5
  <2> QED BY <2>6, <2>7
<1>6. ~AtEase(n)
  BY DEF AtEase
<1> QED BY <1>4, <1>5, <1>6 DEF Phase, k

LEMMA StoppedQuiet ==
  ASSUME NEW n, n.anims = {}, NEW t
  PROVE  Stopped(n, t) = n
BY DEF Stopped

\* A panel that is stopped does not go on leaving.
LEMMA StoppedIs ==
  ASSUME NEW n, IsWidget(n), Phase(n), NEW t
  PROVE  /\ Kin(n, Stopped(n, t)) /\ Phase(Stopped(n, t))
         /\ \A p \in TabIds : Leaving(Stopped(n, t), p) => Leaving(n, p) /\ p # t
<1> DEFINE hide == [do |-> "hide", who |-> {t}]
           show == [do |-> "show", who |-> {t}]
           m    == IF hide \in n.anims THEN Finished(n, hide) ELSE n
           k    == IF show \in n.anims THEN Finished(m, show) ELSE m
<1>1. Stopped(n, t) = k
  BY DEF Stopped
<1>2. hide = Hide(t) /\ hide # show
  <2>1. hide.do # show.do
    OBVIOUS
  <2> QED BY <2>1 DEF Hide
<1> HIDE DEF hide, show
<1>3. \A a, b \in n.anims : a = b
  BY DEF Phase, AtEase, Coming, Leaving
<1>4. CASE hide \in n.anims
  <2>1. show \notin n.anims
    BY <1>2, <1>3, <1>4
  <2>2. k = Finished(n, hide)
    BY <1>4, <2>1
  <2> HIDE DEF k
  <2>3. Kin(n, k) /\ (AtEase(k) \/ Coming(k))
    BY <1>4, <2>2, FinishedIs
  <2>4. \A p \in TabIds : ~Leaving(k, p)
    BY <2>3, JobsDiffer DEF AtEase, Coming, Leaving
  <2> QED BY <1>1, <2>3, <2>4 DEF Phase
<1>5. CASE show \in n.anims
  <2>1. hide \notin n.anims
    BY <1>2, <1>3, <1>5
  <2>2. k = Finished(n, show)
    BY <1>5, <2>1
  <2> HIDE DEF k
  <2>3. Kin(n, k) /\ (AtEase(k) \/ Coming(k))
    BY <1>5, <2>2, FinishedIs
  <2>4. \A p \in TabIds : ~Leaving(k, p)
    BY <2>3, JobsDiffer DEF AtEase, Coming, Leaving
  <2> QED BY <1>1, <2>3, <2>4 DEF Phase
<1>6. CASE hide \notin n.anims /\ show \notin n.anims
  <2>1. k = n
    BY <1>6
  <2> HIDE DEF k
  <2>2. Kin(n, n)
    BY DEF Kin
  <2>3. \A p \in TabIds : Leaving(n, p) => p # t
    BY <1>2, <1>6 DEF Leaving
  <2> QED BY <1>1, <2>1, <2>2, <2>3
<1> QED BY <1>4, <1>5, <1>6

LEMMA StopPanelsQuiet ==
  ASSUME NEW n, Len(n.order) \in Nat, n.anims = {}
  PROVE  StopPanels(n) = n
<1> DEFINE L == Len(n.order)
<1>1. PICK f : UpTo(n, f) /\ StopPanels(n) = f[L]
  BY StopPanelsIs
<1> DEFINE good == {i \in 0..L : f[i] = n}
<1>2. 0 \in good
  BY <1>1 DEF UpTo
<1>3. ASSUME NEW i \in 0..L, i < L, i \in good PROVE i + 1 \in good
  <2>1. i + 1 \in 0..L /\ i + 1 # 0 /\ i + 1 - 1 = i
    BY <1>3
  <2>2. f[i + 1] = Stopped(f[i], n.order[i + 1])
    BY <1>1, <2>1 DEF UpTo
  <2>3. f[i] = n
    BY <1>3
  <2>4. f[i + 1] = n
    BY <2>2, <2>3, StoppedQuiet
  <2> QED BY <2>1, <2>4
<1> HIDE DEF good
<1>4. 0..L \subseteq good
  BY <1>2, <1>3, StepByStep
<1> QED BY <1>1, <1>4 DEF good

\* All panels have been stopped: none goes on leaving.
LEMMA StopPanelsCalms ==
  ASSUME NEW n, IsWidget(n), n.order \in Seq(TabIds), Phase(n)
  PROVE  /\ Kin(n, StopPanels(n)) /\ (AtEase(StopPanels(n)) \/ Coming(StopPanels(n)))
<1> DEFINE L == Len(n.order)
<1>l. L \in Nat /\ DOMAIN n.order = 1..L
  OBVIOUS
<1>1. PICK f : UpTo(n, f) /\ StopPanels(n) = f[L]
  BY <1>l, StopPanelsIs
<1> DEFINE ok(i) == /\ Kin(n, f[i]) /\ Phase(f[i])
                    /\ \A p \in TabIds : Leaving(f[i], p) => \A j \in 1..i : n.order[j] # p
           good == {i \in 0..L : ok(i)}
<1>2. 0 \in good
  <2>1. f[0] = n /\ Kin(n, n)
    BY <1>1 DEF UpTo, Kin
  <2> QED BY <2>1
<1>3. ASSUME NEW i \in 0..L, i < L, i \in good PROVE i + 1 \in good
  <2> DEFINE t == n.order[i + 1]
             m == f[i]
             k == f[i + 1]
  <2>1. i + 1 \in 0..L /\ i + 1 # 0 /\ i + 1 - 1 = i
    BY <1>3
  <2>2. k = Stopped(m, t)
    BY <1>1, <2>1 DEF UpTo
  <2>3. Kin(n, m) /\ Phase(m) /\ (\A p \in TabIds : Leaving(m, p) => \A j \in 1..i : n.order[j] # p)
    BY <1>3
  <2>t. t = n.order[i + 1]
    OBVIOUS
  <2>g. Kin(n, k) /\ Phase(k) /\ (\A p \in TabIds : Leaving(k, p) => \A j \in 1..i + 1 : n.order[j] # p)
    <3> HIDE DEF t, m, k
    <3>1. IsWidget(m)
      BY <2>3 DEF Kin
    <3>2. /\ Kin(m, k) /\ Phase(k)
          /\ \A p \in TabIds : Leaving(k, p) => Leaving(m, p) /\ p # t
      BY <2>2, <2>3, <3>1, StoppedIs
    <3>3. Kin(n, k)
      BY <2>3, <3>2, KinOfKin
    <3>4. ASSUME NEW p \in TabIds, Leaving(k, p), NEW j \in 1..i + 1 PROVE n.order[j] # p
      <4>1. j \in 1..i \/ j = i + 1
        OBVIOUS
      <4> QED BY <2>3, <2>t, <3>2, <3>4, <4>1
    <3> QED BY <3>2, <3>3, <3>4
  <2> QED BY <2>1, <2>g
<1>4. ok(L)
  <2> HIDE DEF good
  <2>1. 0..L \subseteq good
    BY <1>l, <1>2, <1>3, StepByStep
  <2>2. L \in good
    BY <1>l, <2>1
  <2> QED BY <2>2 DEF good
<1> DEFINE k == f[L]
<1>5. ASSUME NEW p \in TabIds, Leaving(k, p) PROVE FALSE
  <2>1. p \in Lis(n)
    BY <1>4, <1>5, KinShares DEF Leaving
  <2>2. PICK j \in DOMAIN n.order : n.order[j] = p
    BY <2>1 DEF Lis
  <2> QED BY <1>l, <1>4, <1>5, <2>2
<1>6. AtEase(k) \/ Coming(k)
  BY <1>4, <1>5 DEF Phase
<1> QED BY <1>1, <1>4, <1>6

\* All but what is seen, what is to be done and what is loaded.
Same(n, m) ==
    /\ IsWidget(m) /\ m.collapsible = n.collapsible /\ m.fx = n.fx /\ m.cache = n.cache
    /\ m.order = n.order /\ m.selected = n.selected /\ m.disabled = n.disabled
    /\ m.disClass = n.disClass /\ m.cached = n.cached /\ m.filled = n.filled
    /\ m.alive = n.alive

LEMMA SameShares ==
  ASSUME NEW n, NEW m, Same(n, m)
  PROVE  /\ On(m) = On(n) /\ Lis(m) = Lis(n) /\ Show(m) = Show(n)
         /\ Settled(n) => Settled(m)
<1>1. On(m) = On(n) /\ Lis(m) = Lis(n)
  BY DEF Same, On, Lis
<1>2. Settled(n) => Settled(m)
  BY DEF Same, Settled
<1> QED BY <1>1, <1>2 DEF Show

LEMMA SameOfKin ==
  ASSUME NEW n, NEW m, NEW k
  PROVE  /\ Kin(n, m) => Same(n, m)
         /\ Same(n, m) /\ Same(m, k) => Same(n, k)
BY DEF Kin, Same

\* A load is under way for t, or it need not be loaded.
Fetches(n, t) ==
    /\ n.processing \subseteq {n.loading}
    /\ t \in RemoteTabs => n.loading = t \/ t \in n.cached

Idle(n) == n.loading = 0 /\ n.processing = {}

LEMMA LastTwoIs ==
  /\ LastTwo(<<>>) = <<>>
  /\ \A a : LastTwo(<<a>>) = <<a>>
  /\ \A a, b : LastTwo(<<a, b>>) = <<a, b>>
<1>1. LastTwo(<<>>) = <<>>
  BY DEF LastTwo
<1>2. \A a : LastTwo(<<a>>) = <<a>>
  BY DEF LastTwo
<1>3. \A a, b : LastTwo(<<a, b>>) = <<a, b>>
  BY DEF LastTwo
<1> QED BY <1>1, <1>2, <1>3

LEMMA AbortOf ==
  ASSUME NEW n, NEW k, k = StopPanels(n), IsWidget(k), LastTwo(k.queue) = k.queue
  PROVE  /\ Same(k, AbortTabs(n)) /\ Idle(AbortTabs(n))
         /\ Seeing(AbortTabs(n), k.queue, k.anims, k.selClass, k.shown)
<1> DEFINE q == LastTwo(k.queue)
           m == AbortTabs(n)
<1>1. m = [k EXCEPT !.queue = q, !.loading = 0, !.processing = {}]
  BY DEF AbortTabs, IsWidget, TabFields
<1>2. q = k.queue
  OBVIOUS
<1> HIDE DEF q, m
<1>3. Same(k, m) /\ Idle(m) /\ Seeing(m, k.queue, k.anims, k.selClass, k.shown)
  BY <1>1, <1>2 DEF Same, Idle, Seeing, IsWidget, TabFields
<1> QED BY <1>3 DEF m

LEMMA AbortQuiet ==
  ASSUME NEW n, IsWidget(n), Len(n.order) \in Nat, n.anims = {}, LastTwo(n.queue) = n.queue
  PROVE  /\ Same(n, AbortTabs(n)) /\ Idle(AbortTabs(n))
         /\ Seeing(AbortTabs(n), n.queue, {}, n.selClass, n.shown)
<1>1. StopPanels(n) = n
  BY StopPanelsQuiet
<1> QED BY <1>1, AbortOf

LEMMA AbortCalms ==
  ASSUME NEW n, IsWidget(n), n.order \in Seq(TabIds), Phase(n)
  PROVE  /\ Same(n, AbortTabs(n)) /\ Idle(AbortTabs(n))
         /\ (AtEase(AbortTabs(n)) \/ Coming(AbortTabs(n)))
<1> DEFINE k == StopPanels(n)
           m == AbortTabs(n)
<1>1. Kin(n, k) /\ (AtEase(k) \/ Coming(k))
  BY StopPanelsCalms
<1>2. k = StopPanels(n)
  OBVIOUS
<1> HIDE DEF k
<1>3. IsWidget(k) /\ k.queue = <<>> /\ LastTwo(k.queue) = k.queue
  BY <1>1, LastTwoIs DEF Kin, AtEase, Coming
<1>4. Same(k, m) /\ Idle(m) /\ Seeing(m, k.queue, k.anims, k.selClass, k.shown)
  BY <1>2, <1>3, AbortOf
<1> HIDE DEF m
<1>5. Same(n, m)
  BY <1>1, <1>4, SameOfKin
<1>6. On(m) = On(k) /\ Show(m) = Show(k) /\ m.fx = k.fx /\ m.selected = k.selected
  BY <1>4, SameShares DEF Same
<1>7. AtEase(m) \/ Coming(m)
  BY <1>1, <1>4, <1>6 DEF AtEase, Coming, Seeing
<1> QED BY <1>4, <1>5, <1>7 DEF m

\* LoadTab before it dequeues.
Asked(n, t) ==
    LET m == AbortTabs(n)
    IN  IF t \notin RemoteTabs \/ (m.queue # <<>> /\ t \in m.cached) THEN m
        ELSE [m EXCEPT !.loading = t, !.processing = {t}]

LEMMA AskedIs ==
  ASSUME NEW n, NEW t, NEW m, m = AbortTabs(n), IsWidget(m), Idle(m)
  PROVE  /\ LoadTab(n, t) = DequeueTabs(Asked(n, t))
         /\ Same(m, Asked(n, t)) /\ Fetches(Asked(n, t), t)
         /\ t \in RemoteTabs /\ m.queue = <<>> => Asked(n, t).loading = t
         /\ Asked(n, t).loading \in {0, t}
         /\ Seeing(Asked(n, t), m.queue, m.anims, m.selClass, m.shown)
<1> DEFINE k == Asked(n, t)
<1>1. LoadTab(n, t) = DequeueTabs(k)
  BY DEF LoadTab, Asked
<1>2. k = IF t \notin RemoteTabs \/ (m.queue # <<>> /\ t \in m.cached) THEN m
          ELSE [m EXCEPT !.loading = t, !.processing = {t}]
  BY DEF Asked
<1> HIDE DEF k
<1>3. /\ Same(m, k) /\ Fetches(k, t)
      /\ (t \in RemoteTabs /\ m.queue = <<>> => k.loading = t)
      /\ k.loading \in {0, t}
      /\ Seeing(k, m.queue, m.anims, m.selClass, m.shown)
  <2>1. CASE t \notin RemoteTabs \/ (m.queue # <<>> /\ t \in m.cached)
    <3>1. k = m
      BY <1>2, <2>1
    <3> QED BY <2>1, <3>1 DEF Same, Fetches, Idle, Seeing
  <2>2. CASE ~(t \notin RemoteTabs \/ (m.queue # <<>> /\ t \in m.cached))
    <3>1. k = [m EXCEPT !.loading = t, !.processing = {t}]
      BY <1>2, <2>2
    <3> QED BY <2>2, <3>1 DEF Same, Fetches, Seeing, IsWidget, TabFields
  <2> QED BY <2>1, <2>2
<1> QED BY <1>1, <1>3 DEF k

\* load of a tab by the page, whatever is animated.
LEMMA LoadCalms ==
  ASSUME NEW n, IsWidget(n), n.order \in Seq(TabIds), Phase(n), NEW t
  PROVE  /\ Same(n, LoadTab(n, t)) /\ Phase(LoadTab(n, t))
         /\ LoadTab(n, t).processing \subseteq {LoadTab(n, t).loading}
         /\ t \in RemoteTabs => LoadTab(n, t).loading = t
<1> DEFINE m == AbortTabs(n)
           k == Asked(n, t)
<1>1. Same(n, m) /\ Idle(m) /\ (AtEase(m) \/ Coming(m))
  BY AbortCalms
<1>a. m = AbortTabs(n)
  OBVIOUS
<1> HIDE DEF m
<1>2. IsWidget(m) /\ m.queue = <<>>
  BY <1>1 DEF Same, AtEase, Coming
<1>3. /\ LoadTab(n, t) = DequeueTabs(k) /\ Same(m, k) /\ Fetches(k, t)
      /\ (t \in RemoteTabs => k.loading = t)
      /\ Seeing(k, m.queue, m.anims, m.selClass, m.shown)
  BY <1>1, <1>2, <1>a, AskedIs
<1> HIDE DEF k
<1>4. LoadTab(n, t) = k
  BY <1>2, <1>3, DequeueNone DEF Seeing
<1>5. On(m) = On(k) /\ Show(m) = Show(k) /\ m.fx = k.fx /\ m.selected = k.selected
  BY <1>3, SameShares DEF Same
<1>6. AtEase(k) \/ Coming(k)
  BY <1>1, <1>3, <1>5 DEF AtEase, Coming, Seeing
<1>7. Same(n, k)
  BY <1>1, <1>3, SameOfKin
<1> QED BY <1>3, <1>4, <1>6, <1>7 DEF Phase, Fetches

LEMMA FetchesOfKin ==
  ASSUME NEW n, NEW m, NEW t, Fetches(n, t), Kin(n, m)
  PROVE  Fetches(m, t)
BY DEF Fetches, Kin

\* What a selection of t begins with: a word to its handlers, t alone, or the
\* one that is shown and t.
Begun(n, t) ==
    \/ \E w : n.queue = <<[do |-> "tell", who |-> w]>> /\ n.selClass = {t} /\ n.shown = {t}
    \/ n.queue = <<[do |-> "show", who |-> {t}]>> /\ n.selClass = {} /\ n.shown = {}
    \/ \E p \in TabIds :
          /\ n.queue = <<[do |-> "hide", who |-> {p}], [do |-> "show", who |-> {t}]>>
          /\ p \in Lis(n) /\ n.shown = {p}

LEMMA DequeueBegun ==
  ASSUME NEW n, IsWidget(n), NEW t \in TabIds, n.anims = {}, n.selected # 0, On(n) = {t},
         Begun(n, t)
  PROVE  Kin(n, DequeueTabs(n)) /\ Phase(DequeueTabs(n))
<1> DEFINE m == DequeueTabs(n)
<1>m. m = DequeueTabs(n)
  OBVIOUS
<1> HIDE DEF m
<1> SUFFICES Kin(n, m) /\ Phase(m)
  BY DEF m
<1>s. Show(n) = [do |-> "show", who |-> {t}]
  BY DEF Show
<1>0. ASSUME Kin(n, m)
      PROVE  /\ On(m) = {t} /\ m.fx = n.fx /\ m.selected # 0 /\ Lis(m) = Lis(n)
             /\ Show(m) = [do |-> "show", who |-> {t}]
  BY <1>0, <1>s, KinShares DEF Kin
<1>1. ASSUME NEW w, n.queue = <<[do |-> "tell", who |-> w]>>, n.selClass = {t}, n.shown = {t}
      PROVE  Kin(n, m) /\ Phase(m)
  <2>1. Kin(n, m) /\ Seeing(m, <<>>, n.anims, n.selClass, n.shown)
    BY <1>m, <1>1, DequeueTell
  <2>2. AtEase(m)
    BY <1>0, <1>1, <2>1 DEF AtEase, Seeing
  <2> QED BY <2>1, <2>2 DEF Phase
<1>2. ASSUME n.queue = <<[do |-> "show", who |-> {t}]>>, n.selClass = {}, n.shown = {}
      PROVE  Kin(n, m) /\ Phase(m)
  <2>1. CASE n.fx
    <3>1. /\ Kin(n, m)
          /\ Seeing(m, <<>>, n.anims \cup {[do |-> "show", who |-> {t}]}, n.selClass \cup {t},
                    n.shown \cup {t})
      BY <1>m, <1>2, <2>1, DequeueShow
    <3>2. Coming(m)
      BY <1>0, <1>2, <2>1, <3>1 DEF Coming, Seeing
    <3> QED BY <3>1, <3>2 DEF Phase
  <2>2. CASE ~n.fx
    <3>1. Kin(n, m) /\ Seeing(m, <<>>, n.anims, n.selClass \cup {t}, n.shown \cup {t})
      BY <1>m, <1>2, <2>2, DequeueShow
    <3>2. AtEase(m)
      BY <1>0, <1>2, <3>1 DEF AtEase, Seeing
    <3> QED BY <3>1, <3>2 DEF Phase
  <2> QED BY <2>1, <2>2
<1>3. ASSUME NEW p \in TabIds,
             n.queue = <<[do |-> "hide", who |-> {p}], [do |-> "show", who |-> {t}]>>,
             p \in Lis(n), n.shown = {p}
      PROVE  Kin(n, m) /\ Phase(m)
  <2>1. CASE n.fx
    <3> DEFINE next == [do |-> "show", who |-> {t}]
    <3>1. n.queue # <<>> /\ Head(n.queue) = [do |-> "hide", who |-> {p}] /\ Tail(n.queue) = <<next>>
      BY <1>3
    <3> HIDE DEF next
    <3>2. Kin(n, m) /\ Seeing(m, <<next>>, n.anims \cup Hides({p}), n.selClass, n.shown)
      BY <1>m, <2>1, <3>1, DequeueHideSlowly
    <3>3. Hides({p}) = {Hide(p)}
      BY DEF Hides, Hide
    <3>4. m.queue = <<Show(m)>>
      BY <1>0, <3>2 DEF Seeing, next
    <3>5. m.fx /\ p \in Lis(m) /\ m.anims = {Hide(p)} /\ m.shown = {p} /\ m.selected # 0
      BY <1>0, <1>3, <2>1, <3>2, <3>3 DEF Seeing
    <3>6. Leaving(m, p)
      BY <3>4, <3>5 DEF Leaving
    <3> QED BY <3>2, <3>6 DEF Phase
  <2>2. CASE ~n.fx
    <3>1. Kin(n, m) /\ Seeing(m, <<>>, n.anims, {t}, (n.shown \ {p}) \cup {t})
      BY <1>m, <1>3, <2>2, DequeueBothAtOnce
    <3>2. AtEase(m)
      BY <1>0, <1>3, <3>1 DEF AtEase, Seeing
    <3> QED BY <3>1, <3>2 DEF Phase
  <2> QED BY <2>1, <2>2
<1> QED BY <1>1, <1>2, <1>3 DEF Begun

LEMMA LoadBegun ==
  ASSUME NEW n, IsWidget(n), Len(n.order) \in Nat, NEW t \in TabIds, n.anims = {},
         n.selected # 0, On(n) = {t}, Begun(n, t)
  PROVE  /\ Same(n, LoadTab(n, t)) /\ Phase(LoadTab(n, t)) /\ Fetches(LoadTab(n, t), t)
<1> DEFINE m == AbortTabs(n)
           k == Asked(n, t)
           d == DequeueTabs(k)
<1>1. LastTwo(n.queue) = n.queue
  BY LastTwoIs DEF Begun
<1>2. Same(n, m) /\ Idle(m) /\ Seeing(m, n.queue, {}, n.selClass, n.shown)
  BY <1>1, AbortQuiet
<1>a. m = AbortTabs(n)
  OBVIOUS
<1> HIDE DEF m
<1>3. IsWidget(m)
  BY <1>2 DEF Same
<1>4. /\ LoadTab(n, t) = d /\ Same(m, k) /\ Fetches(k, t)
      /\ Seeing(k, m.queue, m.anims, m.selClass, m.shown)
  BY <1>2, <1>3, <1>a, AskedIs
<1> HIDE DEF k, d
<1>5. Same(n, k) /\ Seeing(k, n.queue, {}, n.selClass, n.shown)
  BY <1>2, <1>4, SameOfKin DEF Seeing
<1>6. /\ IsWidget(k) /\ k.anims = {} /\ k.selected # 0 /\ On(k) = {t} /\ Lis(k) = Lis(n)
      /\ k.queue = n.queue /\ k.selClass = n.selClass /\ k.shown = n.shown
  BY <1>5, SameShares DEF Same, Seeing
<1>7. Begun(k, t)
  BY <1>6 DEF Begun
<1>8. Kin(k, d) /\ Phase(d)
  BY <1>6, <1>7, DequeueBegun DEF d
<1>9. Same(n, d)
  BY <1>5, <1>8, SameOfKin
<1>10. Fetches(d, t)
  BY <1>4, <1>8, FetchesOfKin
<1> QED BY <1>4, <1>8, <1>9, <1>10

\* What is loaded for t is what is to be seen.
LEMMA FetchedIsSeen ==
  ASSUME NEW n, Settled(n), NEW t, On(n) \subseteq {t}, Fetches(n, t)
  PROVE  WillBeSeen(n)
BY DEF Settled, Fetches, WillBeSeen

LEMMA OnIs ==
  ASSUME NEW n, Settled(n)
  PROVE  /\ On(n) \subseteq Lis(n) /\ Lis(n) \subseteq TabIds
         /\ \/ n.selected = 0 /\ On(n) = {}
            \/ n.selected \in 1..Len(n.order) /\ On(n) = {n.order[n.selected]}
<1>1. DOMAIN n.order = 1..Len(n.order) /\ Len(n.order) \in Nat /\ \A i \in DOMAIN n.order : n.order[i] \in TabIds
  BY DEF Settled
<1>2. CASE n.selected = 0
  BY <1>1, <1>2 DEF On, Lis
<1>3. CASE n.selected # 0
  <2>1. n.selected \in 1..Len(n.order)
    BY <1>1, <1>3 DEF Settled
  <2> QED BY <1>1, <1>3, <2>1 DEF On, Lis
<1> QED BY <1>2, <1>3

LEMMA OntoNothing ==
  /\ \A a : Append(<<>>, a) = <<a>>
  /\ \A a, b : <<>> \o <<a, b>> = <<a, b>>
<1>1. \A a : Append(<<>>, a) = <<a>>
  OBVIOUS
<1>2. \A a, b : <<>> \o <<a, b>> = <<a, b>>
  OBVIOUS
<1> QED BY <1>1, <1>2

\* What a selection leaves as it was.
Unselected(n, m) ==
    /\ IsWidget(m) /\ m.collapsible = n.collapsible /\ m.fx = n.fx /\ m.cache = n.cache
    /\ m.order = n.order /\ m.disabled = n.disabled /\ m.disClass = n.disClass
    /\ m.cached = n.cached /\ m.filled = n.filled /\ m.alive = n.alive

\* Another tab is the selected one; nothing else has been done yet.
Chosen(n, i) == [n EXCEPT !.selected = i]

LEMMA ChosenIs ==
  ASSUME NEW n, IsWidget(n), NEW i
  PROVE  /\ Unselected(n, Chosen(n, i)) /\ Chosen(n, i).selected = i
         /\ Seeing(Chosen(n, i), n.queue, n.anims, n.selClass, n.shown)
BY DEF Chosen, IsWidget, TabFields, Unselected, Seeing

\* The queue before it begins.
WithJobs(n, queue) == [n EXCEPT !.queue = queue]

LEMMA QueuedIs ==
  ASSUME NEW n, IsWidget(n), NEW queue
  PROVE  /\ Same(n, WithJobs(n, queue)) /\ (Idle(n) => Idle(WithJobs(n, queue)))
         /\ Seeing(WithJobs(n, queue), queue, n.anims, n.selClass, n.shown)
BY DEF WithJobs, IsWidget, TabFields, Same, Idle, Seeing

LEMMA UnselectedOf ==
  ASSUME NEW n, NEW m, NEW k
  PROVE  /\ Same(n, m) => Unselected(n, m)
         /\ Unselected(n, m) /\ Unselected(m, k) => Unselected(n, k)
BY DEF Unselected, Same

LEMMA IndexOfIs ==
  ASSUME NEW n, Settled(n), NEW t \in Lis(n)
  PROVE  IndexOf(n, t) \in 1..Len(n.order) /\ n.order[IndexOf(n, t)] = t
<1>1. DOMAIN n.order = 1..Len(n.order)
  BY DEF Settled
<1>2. \E i \in DOMAIN n.order : n.order[i] = t
  BY DEF Lis
<1> QED BY <1>1, <1>2 DEF IndexOf

\* select when all is at ease.
LEMMA SelectedIs ==
  ASSUME NEW n, IsWidget(n), Settled(n), AtEase(n), NEW t \in Lis(n), t \notin n.disClass
  PROVE  /\ Unselected(n, Selected(n, t)) /\ Settled(Selected(n, t))
         /\ WillBeSeen(Selected(n, t)) /\ Phase(Selected(n, t))
         /\ On(Selected(n, t)) = (IF t \in n.selClass THEN {} ELSE {t})
<1> DEFINE i    == IndexOf(n, t)
           c    == Chosen(n, i)
           m    == AbortTabs(c)
           hide == [do |-> "hide", who |-> n.shown \cap Lis(n)]
           show == [do |-> "show", who |-> {t}]
           s    == Selected(n, t)
<1>0. i \in 1..Len(n.order) /\ n.order[i] = t /\ Len(n.order) \in Nat /\ t \in TabIds /\ i # 0
  BY IndexOfIs, OnIs DEF Settled
<1>1. i \notin n.disabled
  BY <1>0 DEF Settled
<1>2. n.shown \cap Lis(n) = On(n) /\ n.selClass = On(n)
  BY OnIs DEF AtEase
<1>s. s = IF t \in n.selClass
          THEN DequeueTabs([m EXCEPT !.selected = 0, !.queue = Append(@, hide)])
          ELSE LoadTab([m EXCEPT !.queue = IF hide.who = {} THEN Append(@, show)
                                           ELSE @ \o <<hide, show>>], t)
  BY DEF Selected, Chosen
<1>c. c = Chosen(n, i)
  OBVIOUS
<1> HIDE DEF i, s
<1>3. /\ Unselected(n, c) /\ c.selected = i /\ IsWidget(c) /\ Len(c.order) \in Nat
      /\ Seeing(c, <<>>, {}, On(n), On(n))
  BY <1>0, <1>c, ChosenIs DEF Unselected, AtEase, Seeing
<1> HIDE DEF c
<1>4. LastTwo(c.queue) = c.queue /\ c.anims = {}
  BY <1>3, LastTwoIs DEF Seeing
<1>5. Same(c, m) /\ Idle(m) /\ Seeing(m, c.queue, {}, c.selClass, c.shown)
  BY <1>3, <1>4, AbortQuiet
<1> HIDE DEF m
<1>6. /\ Unselected(n, m) /\ m.selected = i /\ IsWidget(m) /\ Idle(m)
      /\ Seeing(m, <<>>, {}, On(n), On(n))
  BY <1>3, <1>5, UnselectedOf DEF Same, Seeing
<1> SUFFICES /\ Unselected(n, s) /\ Settled(s) /\ WillBeSeen(s) /\ Phase(s)
             /\ On(s) = (IF t \in n.selClass THEN {} ELSE {t})
  BY DEF s
<1>7. CASE t \in n.selClass
  <2>1. On(n) = {t}
    BY <1>2, <1>7, OnIs
  <2> DEFINE job == <<[do |-> "hide", who |-> {t}]>>
             z   == Chosen(m, 0)
             q   == WithJobs(z, job)
  <2>2. s = DequeueTabs(q)
    <3>1. Append(m.queue, hide) = job
      <4>1. m.queue = <<>> /\ hide = [do |-> "hide", who |-> {t}]
        BY <1>2, <1>6, <2>1 DEF Seeing
      <4> HIDE DEF hide
      <4>2. Append(m.queue, hide) = <<hide>>
        BY <4>1, OntoNothing
      <4> QED BY <4>1, <4>2
    <3>2. s = DequeueTabs([m EXCEPT !.selected = 0, !.queue = Append(@, hide)])
      BY <1>s, <1>7
    <3> HIDE DEF job
    <3>3. [m EXCEPT !.selected = 0, !.queue = Append(@, hide)] = WithJobs(z, job)
      BY <1>6, <3>1 DEF WithJobs, Chosen, IsWidget, TabFields
    <3> QED BY <3>2, <3>3
  <2>j. job = <<[do |-> "hide", who |-> {t}]>>
    OBVIOUS
  <2> HIDE DEF job
  <2>3. Unselected(m, z) /\ z.selected = 0 /\ Seeing(z, m.queue, m.anims, m.selClass, m.shown)
    BY <1>6, ChosenIs
  <2>z. z = Chosen(m, 0)
    OBVIOUS
  <2>i. Idle(z)
    BY <1>6 DEF Chosen, Idle, IsWidget, TabFields
  <2> HIDE DEF z
  <2>4. IsWidget(z)
    BY <2>3 DEF Unselected
  <2>5. Same(z, q) /\ Idle(q) /\ Seeing(q, job, z.anims, z.selClass, z.shown)
    BY <2>4, <2>i, QueuedIs
  <2> HIDE DEF q
  <2>6. /\ Unselected(n, q) /\ q.selected = 0 /\ IsWidget(q) /\ Idle(q)
        /\ Seeing(q, job, {}, {t}, {t})
    <3>1. Unselected(n, q)
      BY <1>6, <2>3, <2>5, UnselectedOf
    <3> QED BY <1>6, <2>1, <2>3, <2>5, <3>1 DEF Same, Seeing
  <2>7. ASSUME Kin(q, s), Phase(s)
        PROVE  /\ Unselected(n, s) /\ Settled(s) /\ WillBeSeen(s) /\ Phase(s)
               /\ On(s) = {}
    <3>1. Unselected(n, s)
      BY <2>6, <2>7, SameOfKin, UnselectedOf
    <3>2. On(s) = {} /\ s.selected = 0
      BY <2>6, <2>7 DEF On, Kin
    <3>3. Settled(s)
      <4>1. 0 \in 0..Len(n.order) /\ 0 \notin n.disabled
        BY <1>0 DEF Settled
      <4> QED BY <3>1, <3>2, <4>1 DEF Settled, Unselected
    <3>4. WillBeSeen(s)
      BY <2>6, <2>7, <3>2 DEF WillBeSeen, Kin, Idle
    <3> QED BY <2>7, <3>1, <3>2, <3>3, <3>4
  <2>8. CASE q.fx
    <3>1. q.queue # <<>> /\ Head(q.queue) = [do |-> "hide", who |-> {t}] /\ Tail(q.queue) = <<>>
      BY <2>6, <2>j DEF Seeing
    <3>2. Kin(q, s) /\ Seeing(s, <<>>, q.anims \cup Hides({t}), q.selClass, q.shown)
      BY <2>2, <2>6, <2>8, <3>1, DequeueHideSlowly
    <3>3. Hides({t}) = {Hide(t)}
      BY DEF Hides, Hide
    <3>4. /\ s.fx /\ s.anims = {Hide(t)} /\ s.shown = {t} /\ s.queue = <<>> /\ s.selected = 0
      BY <2>6, <2>8, <3>2, <3>3 DEF Seeing, Kin
    <3>5. t \in Lis(s)
      <4>1. s.order = n.order
        BY <2>6, <3>2 DEF Unselected, Kin
      <4> QED BY <4>1 DEF Lis
    <3>6. Leaving(s, t)
      BY <3>4, <3>5 DEF Leaving
    <3>7. Phase(s)
      BY <1>0, <3>6 DEF Phase
    <3> QED BY <1>7, <2>7, <3>2, <3>7
  <2>9. CASE ~q.fx
    <3>1. q.queue = <<[do |-> "hide", who |-> {t}]>>
      BY <2>6, <2>j DEF Seeing
    <3>2. Kin(q, s) /\ Seeing(s, <<>>, q.anims, {}, q.shown \ {t})
      BY <2>2, <2>6, <2>9, <3>1, DequeueHideAtOnce
    <3>3. On(s) = {}
      BY <2>6, <3>2 DEF On, Kin
    <3>4. AtEase(s)
      BY <2>6, <3>2, <3>3 DEF AtEase, Seeing
    <3>5. Phase(s)
      BY <3>4 DEF Phase
    <3> QED BY <1>7, <2>7, <3>2, <3>5
  <2> QED BY <2>8, <2>9
<1>8. CASE t \notin n.selClass
  <2> DEFINE jobs == IF On(n) = {} THEN <<show>>
                     ELSE <<[do |-> "hide", who |-> On(n)], show>>
             q    == WithJobs(m, jobs)
  <2>1. s = LoadTab(q, t)
    <3>1. (IF hide.who = {} THEN Append(m.queue, show) ELSE m.queue \o <<hide, show>>) = jobs
      <4>1. m.queue = <<>> /\ hide = [do |-> "hide", who |-> On(n)] /\ hide.who = On(n)
        BY <1>2, <1>6 DEF Seeing
      <4> HIDE DEF hide, show
      <4>2. Append(m.queue, show) = <<show>> /\ m.queue \o <<hide, show>> = <<hide, show>>
        BY <4>1, OntoNothing
      <4> QED BY <4>1, <4>2
    <3>2. s = LoadTab([m EXCEPT !.queue = IF hide.who = {} THEN Append(@, show)
                                          ELSE @ \o <<hide, show>>], t)
      BY <1>s, <1>8
    <3> HIDE DEF jobs, hide, show
    <3>3. [m EXCEPT !.queue = IF hide.who = {} THEN Append(@, show) ELSE @ \o <<hide, show>>]
          = WithJobs(m, jobs)
      BY <1>6, <3>1 DEF WithJobs, IsWidget, TabFields
    <3> QED BY <3>2, <3>3
  <2>j. jobs = IF On(n) = {} THEN <<show>>
               ELSE <<[do |-> "hide", who |-> On(n)], show>>
    OBVIOUS
  <2> HIDE DEF jobs
  <2>2. Same(m, q) /\ Seeing(q, jobs, m.anims, m.selClass, m.shown)
    BY <1>6, QueuedIs
  <2> HIDE DEF q
  <2>3. /\ Unselected(n, q) /\ q.selected = i /\ IsWidget(q)
        /\ Seeing(q, jobs, {}, On(n), On(n))
    <3>1. Unselected(n, q)
      BY <1>6, <2>2, UnselectedOf
    <3> QED BY <1>6, <2>2, <3>1 DEF Same, Seeing
  <2>4. /\ q.order = n.order /\ q.disabled = n.disabled /\ Lis(q) = Lis(n)
        /\ On(q) = {t} /\ q.selected # 0 /\ q.anims = {} /\ Len(q.order) \in Nat
    BY <1>0, <2>3 DEF Unselected, Lis, On, Seeing
  <2>5. Settled(q)
    <3>1. q.selected \in 0..Len(q.order) /\ q.selected \notin q.disabled
      BY <1>0, <1>1, <2>3, <2>4
    <3> QED BY <2>3, <3>1 DEF Settled, Unselected
  <2>6. Begun(q, t)
    <3>1. CASE On(n) = {}
      BY <2>3, <2>j, <3>1 DEF Begun, Seeing
    <3>2. CASE On(n) # {}
      <4>1. PICK p : On(n) = {p} /\ p \in Lis(n) /\ p \in TabIds
        BY <3>2, OnIs
      <4>2. /\ q.queue = <<[do |-> "hide", who |-> {p}], [do |-> "show", who |-> {t}]>>
            /\ q.shown = {p} /\ p \in Lis(q)
        BY <2>3, <2>4, <2>j, <3>2, <4>1 DEF Seeing
      <4> QED BY <4>1, <4>2 DEF Begun
    <3> QED BY <3>1, <3>2
  <2>7. Same(q, s) /\ Phase(s) /\ Fetches(s, t)
    BY <1>0, <2>1, <2>3, <2>4, <2>6, LoadBegun
  <2>8. On(s) = {t} /\ Settled(s)
    BY <2>4, <2>5, <2>7, SameShares
  <2>9. WillBeSeen(s)
    BY <2>7, <2>8, FetchedIsSeen
  <2>10. Unselected(n, s)
    BY <2>3, <2>7, UnselectedOf
  <2> QED BY <1>8, <2>7, <2>8, <2>9, <2>10
<1> QED BY <1>7, <1>8

LEMMA TabIdsAre ==
  /\ Cardinality(TabIds) \in Nat /\ TabIds = 1..Cardinality(TabIds)
  /\ 0 \notin TabIds /\ 1 \in TabIds /\ 2 \in TabIds /\ RemoteTabs \subseteq TabIds
<1>1. Cardinality(TabIds) \in Nat
  BY TabsAssumption, FS_CardinalityType
<1> QED BY <1>1, TabsAssumption

(***************************************************************************)
(* What _tabify is given: a list, of which one tab or none is highlighted  *)
(* and seen, and that one is not disabled.                                 *)
(***************************************************************************)
TabsListed(n) ==
    /\ n.order \in Seq(TabIds)
    /\ \A i, j \in 1..Len(n.order) : n.order[i] = n.order[j] => i = j
    /\ n.disabled \subseteq 1..Len(n.order)
    /\ n.cached \subseteq n.filled /\ n.processing \subseteq {n.loading}
    /\ n.queue = <<>> /\ n.anims = {} /\ n.shown = n.selClass
    /\ n.selClass \cap RemoteTabs \subseteq n.filled \cup {n.loading}
    /\ \/ n.selClass = {}
       \/ \E k \in 1..Len(n.order) \ n.disabled : n.selClass = {n.order[k]}

TabifiedTo(n, m) ==
    /\ IsWidget(m) /\ m.fx = n.fx /\ m.alive = n.alive /\ m.order = n.order
    /\ m.disabled = n.disabled /\ m.processing = n.processing /\ m.loading = n.loading
    /\ m.filled = n.filled /\ m.cached \subseteq n.cached /\ On(m) = n.selClass
    /\ Settled(m) /\ WillBeSeen(m) /\ AtEase(m)

LEMMA TabifyIs ==
  ASSUME NEW n, IsWidget(n), TabsListed(n)
  PROVE  TabifiedTo(n, Tabify(n))
<1> DEFINE marked   == {i \in DOMAIN n.order : n.order[i] \in n.selClass}
           sel  == IF marked = {} THEN 0 ELSE CHOOSE i \in marked : \A j \in marked : i <= j
           dis  == {n.order[i] : i \in n.disabled \cap DOMAIN n.order} \ n.selClass
           keep == IF n.cache THEN n.cached ELSE {}
           m    == Tabify(n)
<1>1. m = [n EXCEPT !.selected = sel, !.disClass = dis, !.cached = keep]
  BY DEF Tabify, IsWidget, TabFields
<1>2. DOMAIN n.order = 1..Len(n.order) /\ Len(n.order) \in Nat
  BY DEF TabsListed
<1>3. \/ sel = 0 /\ n.selClass = {}
      \/ sel \in 1..Len(n.order) /\ sel \notin n.disabled /\ n.selClass = {n.order[sel]}
  <2>1. CASE n.selClass = {}
    BY <2>1
  <2>2. ASSUME NEW k \in 1..Len(n.order), k \notin n.disabled, n.selClass = {n.order[k]}
        PROVE  sel = k
    <3>1. marked = {k}
      BY <1>2, <2>2 DEF TabsListed
    <3> HIDE DEF marked
    <3>2. sel = CHOOSE i \in {k} : \A j \in {k} : i <= j
      BY <3>1
    <3>3. k <= k
      BY <1>2
    <3> QED BY <3>2, <3>3
  <2> QED BY <2>1, <2>2 DEF TabsListed
<1>4. dis = {n.order[i] : i \in n.disabled}
  <2>1. n.disabled \cap DOMAIN n.order = n.disabled
    BY <1>2 DEF TabsListed
  <2>2. ASSUME NEW i \in n.disabled PROVE n.order[i] \notin n.selClass
    <3>1. i \in 1..Len(n.order)
      BY <2>2 DEF TabsListed
    <3> QED BY <2>2, <3>1 DEF TabsListed
  <2> QED BY <2>1, <2>2
<1>5. keep \subseteq n.cached
  OBVIOUS
<1> HIDE DEF marked, sel, dis, keep, m
<1>6. /\ IsWidget(m) /\ m.fx = n.fx /\ m.alive = n.alive /\ m.order = n.order
      /\ m.disabled = n.disabled /\ m.processing = n.processing /\ m.loading = n.loading
      /\ m.filled = n.filled /\ m.cached = keep /\ m.selected = sel /\ m.disClass = dis
      /\ m.queue = n.queue /\ m.anims = n.anims /\ m.selClass = n.selClass
      /\ m.shown = n.shown
  BY <1>1 DEF IsWidget, TabFields
<1>7. On(m) = n.selClass
  <2>1. CASE sel = 0 /\ n.selClass = {}
    BY <1>6, <2>1 DEF On
  <2>2. CASE sel \in 1..Len(n.order) /\ n.selClass = {n.order[sel]}
    <3>1. sel # 0
      BY <1>2, <2>2
    <3>2. On(m) = {m.order[m.selected]}
      BY <1>6, <3>1 DEF On
    <3> QED BY <1>6, <2>2, <3>2
  <2> QED BY <1>3, <2>1, <2>2
<1>8. Settled(m)
  <2>1. m.selected \in 0..Len(m.order) /\ m.selected \notin m.disabled
    BY <1>2, <1>3, <1>6 DEF TabsListed
  <2> QED BY <1>4, <1>5, <1>6, <2>1 DEF Settled, TabsListed
<1>9. WillBeSeen(m) /\ AtEase(m)
  BY <1>6, <1>7 DEF WillBeSeen, AtEase, TabsListed
<1> QED BY <1>5, <1>6, <1>7, <1>8, <1>9 DEF TabifiedTo, m

\* At ease nothing is under way, and only then.
LEMMA EaseIsRest ==
  ASSUME NEW n, Phase(n)
  PROVE  ~Switching(n) <=> AtEase(n)
BY DEF Phase, AtEase, Coming, Leaving, Switching

\* A tab takes a click only when all is at ease.
LEMMA TakesAtEase ==
  ASSUME NEW n, Settled(n), Phase(n), NEW t, Takes(n, t)
  PROVE  AtEase(n) /\ t \notin n.disClass
<1>1. \A a \in n.anims : a.who \cap Lis(n) = {}
  BY DEF Takes
<1>2. ~Coming(n)
  <2>1. ASSUME Coming(n) PROVE FALSE
    <3>1. On(n) # {} /\ On(n) \subseteq Lis(n)
      BY <2>1, OnIs DEF Coming
    <3>2. Show(n) \in n.anims /\ Show(n).who = On(n)
      BY <2>1, JobsDiffer DEF Coming
    <3> QED BY <1>1, <3>1, <3>2
  <2> QED BY <2>1
<1>3. ASSUME NEW p \in TabIds, Leaving(n, p) PROVE FALSE
  <2>1. Hide(p) \in n.anims /\ Hide(p).who = {p} /\ p \in Lis(n)
    BY <1>3, JobsDiffer DEF Leaving
  <2> QED BY <1>1, <2>1
<1> QED BY <1>2, <1>3 DEF Phase, Takes

LEMMA InTheList ==
  ASSUME NEW n, Settled(n), NEW i \in 1..Len(n.order)
  PROVE  n.order[i] \in Lis(n) /\ n.order[i] \in TabIds
BY DEF Settled, Lis

\* Only a whole widget takes calls, until it was torn.
LEMMA FineOrGone ==
  ASSUME TabsInv, ~torn
  PROVE  (tabs.alive => Fine(tabs)) /\ (~tabs.alive => Gone(tabs))
BY DEF TabsInv, Fine, Gone

LEMMA SelectTabKeeps ==
  ASSUME TabsInv, NEW t \in TabIds, SelectTab(t)
  PROVE  TabsInv'
<1> DEFINE s == Selected(tabs, t)
<1>1. /\ t \in Lis(tabs) /\ Takes(tabs, t) /\ tabs.alive /\ tabs' = s
      /\ torn' = (torn \/ FALSE)
  BY DEF SelectTab, ByPage
<1> HIDE DEF s
<1>2. torn' = torn /\ torn \in BOOLEAN
  BY <1>1 DEF TabsInv
<1>3. ASSUME ~torn PROVE Fine(s)
  <2>1. IsWidget(tabs) /\ Settled(tabs) /\ Phase(tabs)
    BY <1>1, <1>3, FineOrGone DEF Fine
  <2>2. AtEase(tabs) /\ t \notin tabs.disClass
    BY <1>1, <2>1, TakesAtEase
  <2>3. Unselected(tabs, s) /\ Settled(s) /\ WillBeSeen(s) /\ Phase(s)
    BY <1>1, <2>1, <2>2, SelectedIs DEF s
  <2> QED BY <1>1, <2>3 DEF Fine, Unselected
<1> QED BY <1>1, <1>2, <1>3 DEF TabsInv

LEMMA LoadKeeps ==
  ASSUME TabsInv, NEW t \in TabIds, Load(t)
  PROVE  TabsInv'
<1> DEFINE s == LoadTab(tabs, t)
<1>1. tabs.alive /\ tabs' = s /\ torn' = (torn \/ tabs.loading \notin {0, t})
  BY DEF Load, ByPage
<1>2. torn' \in BOOLEAN /\ (~torn' => ~torn /\ tabs.loading \in {0, t})
  BY <1>1 DEF TabsInv
<1>3. ASSUME ~torn' PROVE Fine(s)
  <2>1. IsWidget(tabs) /\ Settled(tabs) /\ Phase(tabs) /\ WillBeSeen(tabs)
    BY <1>1, <1>2, <1>3, FineOrGone DEF Fine
  <2>2. /\ Same(tabs, s) /\ Phase(s) /\ s.processing \subseteq {s.loading}
        /\ (t \in RemoteTabs => s.loading = t)
    BY <2>1, LoadCalms DEF Settled
  <2> HIDE DEF s
  <2>3. Settled(s) /\ On(s) = On(tabs) /\ s.filled = tabs.filled
    BY <2>1, <2>2, SameShares DEF Same
  <2>4. WillBeSeen(s)
    <3>1. ASSUME NEW x \in On(s) \cap RemoteTabs PROVE x \in s.filled \cup {s.loading}
      <4>1. x \in tabs.filled \cup {tabs.loading} /\ x # 0
        BY <2>1, <2>3, <3>1, TabIdsAre DEF WillBeSeen
      <4> QED BY <1>2, <1>3, <2>2, <2>3, <3>1, <4>1
    <3> QED BY <2>2, <3>1 DEF WillBeSeen
  <2> QED BY <1>1, <2>2, <2>3, <2>4 DEF Fine, Same
<1> QED BY <1>1, <1>2, <1>3 DEF TabsInv

LEMMA UrlKeeps ==
  ASSUME TabsInv, NEW t \in TabIds, Url(t)
  PROVE  TabsInv'
<1> DEFINE s == [tabs EXCEPT !.cached = @ \ {t}]
<1>1. tabs.alive /\ tabs' = s /\ torn' = (torn \/ FALSE)
  BY DEF Url, ByPage
<1>2. torn' = torn /\ torn \in BOOLEAN
  BY <1>1 DEF TabsInv
<1>3. ASSUME ~torn PROVE Fine(s)
  <2>1. IsWidget(tabs) /\ Settled(tabs) /\ Phase(tabs) /\ WillBeSeen(tabs)
    BY <1>1, <1>3, FineOrGone DEF Fine
  <2> DEFINE left == tabs.cached \ {t}
  <2>2. s = [tabs EXCEPT !.cached = left]
    BY <2>1 DEF IsWidget, TabFields
  <2>3. left \subseteq tabs.filled
    BY <2>1 DEF Settled
  <2> HIDE DEF s, left
  <2>4. /\ IsWidget(s) /\ s.fx = tabs.fx /\ s.alive = tabs.alive /\ s.order = tabs.order
        /\ s.selected = tabs.selected /\ s.disabled = tabs.disabled
        /\ s.disClass = tabs.disClass /\ s.processing = tabs.processing
        /\ s.loading = tabs.loading /\ s.filled = tabs.filled /\ s.cached = left
        /\ Seeing(s, tabs.queue, tabs.anims, tabs.selClass, tabs.shown)
    BY <2>1, <2>2 DEF IsWidget, TabFields, Seeing
  <2>5. On(s) = On(tabs) /\ Lis(s) = Lis(tabs) /\ Show(s) = Show(tabs)
    BY <2>4 DEF On, Lis, Show
  <2>6. Settled(s) /\ WillBeSeen(s)
    BY <2>1, <2>3, <2>4, <2>5 DEF Settled, WillBeSeen
  <2>7. Phase(s)
    BY <2>1, <2>4, <2>5 DEF Phase, AtEase, Coming, Leaving, Seeing
  <2> QED BY <1>1, <2>4, <2>6, <2>7 DEF Fine
<1> QED BY <1>1, <1>2, <1>3 DEF TabsInv

\* Whether a tab is disabled and whether it looks it are told together.
Barred(n, dis, class) == [n EXCEPT !.disabled = dis, !.disClass = class]

LEMMA BarredIsFine ==
  ASSUME NEW n, Fine(n), NEW dis, dis \subseteq 1..Len(n.order), n.selected \notin dis
  PROVE  Fine(Barred(n, dis, {n.order[j] : j \in dis}))
<1> DEFINE class == {n.order[j] : j \in dis}
           s == Barred(n, dis, class)
<1>1. IsWidget(n) /\ Settled(n) /\ Phase(n) /\ WillBeSeen(n) /\ n.alive
  BY DEF Fine
<1>c. class = {n.order[j] : j \in dis}
  OBVIOUS
<1> HIDE DEF class
<1>2. s = [n EXCEPT !.disabled = dis, !.disClass = class]
  BY DEF Barred
<1> HIDE DEF s
<1>4. /\ IsWidget(s) /\ s.fx = n.fx /\ s.alive = n.alive /\ s.order = n.order
      /\ s.selected = n.selected /\ s.disabled = dis
      /\ s.disClass = class /\ s.processing = n.processing
      /\ s.loading = n.loading /\ s.filled = n.filled /\ s.cached = n.cached
      /\ Seeing(s, n.queue, n.anims, n.selClass, n.shown)
  BY <1>1, <1>2 DEF IsWidget, TabFields, Seeing
<1>5. On(s) = On(n) /\ Lis(s) = Lis(n) /\ Show(s) = Show(n)
  BY <1>4 DEF On, Lis, Show
<1>6. Settled(s) /\ WillBeSeen(s)
  BY <1>1, <1>c, <1>4, <1>5 DEF Settled, WillBeSeen
<1>7. Phase(s)
  BY <1>1, <1>4, <1>5 DEF Phase, AtEase, Coming, Leaving, Seeing
<1>8. Fine(s)
  BY <1>1, <1>4, <1>6, <1>7 DEF Fine
<1> QED BY <1>8 DEF s, class

LEMMA EnableKeeps ==
  ASSUME TabsInv, NEW i, Enable(i)
  PROVE  TabsInv'
<1> DEFINE dis   == tabs.disabled \ {i}
           class == tabs.disClass \ {tabs.order[i]}
<1>1. /\ tabs.alive /\ i \in tabs.disabled /\ torn' = (torn \/ FALSE)
      /\ tabs' = [tabs EXCEPT !.disabled = @ \ {i}, !.disClass = @ \ {tabs.order[i]}]
  BY DEF Enable, ByPage
<1>2. torn' = torn /\ torn \in BOOLEAN
  BY <1>1 DEF TabsInv
<1>3. ASSUME ~torn PROVE Fine(tabs')
  <2>1. Fine(tabs) /\ IsWidget(tabs) /\ Settled(tabs)
    BY <1>1, <1>3, FineOrGone DEF Fine
  <2>2. dis \subseteq 1..Len(tabs.order) /\ tabs.selected \notin dis
    BY <2>1 DEF Settled
  <2>3. class = {tabs.order[j] : j \in dis}
    <3>1. \A j \in tabs.disabled : tabs.order[j] = tabs.order[i] => j = i
      BY <1>1, <2>1 DEF Settled
    <3>2. tabs.disClass = {tabs.order[j] : j \in tabs.disabled}
      BY <2>1 DEF Settled
    <3> QED BY <3>1, <3>2
  <2>4. tabs' = Barred(tabs, dis, class)
    BY <1>1, <2>1 DEF Barred, IsWidget, TabFields
  <2> HIDE DEF dis, class
  <2>5. tabs' = Barred(tabs, dis, {tabs.order[j] : j \in dis})
    BY <2>3, <2>4
  <2> QED BY <2>1, <2>2, <2>5, BarredIsFine
<1> QED BY <1>1, <1>2, <1>3 DEF TabsInv

LEMMA DisableTabKeeps ==
  ASSUME TabsInv, NEW i, DisableTab(i)
  PROVE  TabsInv'
<1> DEFINE dis   == tabs.disabled \cup {i}
           class == tabs.disClass \cup {tabs.order[i]}
<1>1. /\ tabs.alive /\ i \in DOMAIN tabs.order \ {tabs.selected} /\ torn' = (torn \/ FALSE)
      /\ tabs' = [tabs EXCEPT !.disabled = @ \cup {i}, !.disClass = @ \cup {tabs.order[i]}]
  BY DEF DisableTab, ByPage
<1>2. torn' = torn /\ torn \in BOOLEAN
  BY <1>1 DEF TabsInv
<1>3. ASSUME ~torn PROVE Fine(tabs')
  <2>1. Fine(tabs) /\ IsWidget(tabs) /\ Settled(tabs)
    BY <1>1, <1>3, FineOrGone DEF Fine
  <2>2. dis \subseteq 1..Len(tabs.order) /\ tabs.selected \notin dis
    <3>1. DOMAIN tabs.order = 1..Len(tabs.order)
      BY <2>1 DEF Settled
    <3> QED BY <1>1, <2>1, <3>1 DEF Settled
  <2>3. class = {tabs.order[j] : j \in dis}
    <3>2. tabs.disClass = {tabs.order[j] : j \in tabs.disabled}
      BY <2>1 DEF Settled
    <3> QED BY <3>2
  <2>4. tabs' = Barred(tabs, dis, class)
    BY <1>1, <2>1 DEF Barred, IsWidget, TabFields
  <2> HIDE DEF dis, class
  <2>5. tabs' = Barred(tabs, dis, {tabs.order[j] : j \in dis})
    BY <2>3, <2>4
  <2> QED BY <2>1, <2>2, <2>5, BarredIsFine
<1> QED BY <1>1, <1>2, <1>3 DEF TabsInv

LEMMA SetDisabledKeeps ==
  ASSUME TabsInv, NEW S \in SUBSET (DOMAIN tabs.order \ {tabs.selected}), SetDisabled(S)
  PROVE  TabsInv'
<1> DEFINE n == [tabs EXCEPT !.disabled = S]
           s == Tabify(n)
<1>1. tabs.alive /\ tabs' = s /\ torn' = (torn \/ Switching(tabs))
  BY DEF SetDisabled, ByPage
<1>2. torn' \in BOOLEAN /\ (~torn' => ~torn /\ ~Switching(tabs))
  BY <1>1 DEF TabsInv, Switching
<1>3. ASSUME ~torn' PROVE Fine(s)
  <2>1. IsWidget(tabs) /\ Settled(tabs) /\ Phase(tabs) /\ WillBeSeen(tabs)
    BY <1>1, <1>2, <1>3, FineOrGone DEF Fine
  <2>2. AtEase(tabs)
    BY <1>2, <1>3, <2>1, EaseIsRest
  <2>3. S \subseteq 1..Len(tabs.order) /\ tabs.selected \notin S
    BY <2>1 DEF Settled
  <2> HIDE DEF s
  <2>4. /\ IsWidget(n) /\ n.fx = tabs.fx /\ n.alive = tabs.alive /\ n.order = tabs.order
        /\ n.selected = tabs.selected /\ n.disabled = S
        /\ n.processing = tabs.processing
        /\ n.loading = tabs.loading /\ n.filled = tabs.filled /\ n.cached = tabs.cached
        /\ Seeing(n, tabs.queue, tabs.anims, tabs.selClass, tabs.shown)
    BY <2>1 DEF IsWidget, TabFields, Seeing
  <2> HIDE DEF n
  <2>5. \/ n.selClass = {}
        \/ \E k \in 1..Len(n.order) \ n.disabled : n.selClass = {n.order[k]}
    BY <2>1, <2>2, <2>3, <2>4, OnIs DEF AtEase, Seeing
  <2>6. TabsListed(n)
    BY <2>1, <2>2, <2>3, <2>4, <2>5 DEF TabsListed, AtEase, Seeing, Settled, WillBeSeen
  <2>7. TabifiedTo(n, s)
    BY <2>4, <2>6, TabifyIs DEF s
  <2> QED BY <1>1, <2>4, <2>7 DEF TabifiedTo, Fine, Phase
<1> QED BY <1>1, <1>2, <1>3 DEF TabsInv

\* destroy stops all panels, of which the new one may yet come to its end.
LEMMA DestroyTabsKeeps ==
  ASSUME TabsInv, DestroyTabs
  PROVE  TabsInv'
<1> DEFINE n == AbortTabs(tabs)
           s == [n EXCEPT !.alive = FALSE, !.selClass = {}, !.disClass = {}, !.cached = {},
                          !.shown = @ \cup Lis(n)]
<1>1. tabs.alive /\ tabs' = s /\ torn' = (torn \/ FALSE)
  BY DEF DestroyTabs, ByPage
<1>2. torn' = torn /\ torn \in BOOLEAN
  BY <1>1 DEF TabsInv
<1>3. ASSUME ~torn PROVE Gone(s)
  <2>1. IsWidget(tabs) /\ Settled(tabs) /\ Phase(tabs)
    BY <1>1, <1>3, FineOrGone DEF Fine
  <2>2. Same(tabs, n) /\ (AtEase(n) \/ Coming(n))
    BY <2>1, AbortCalms DEF Settled
  <2> HIDE DEF n
  <2>3. IsWidget(n) /\ n.queue = <<>> /\ \A a \in n.anims : a.do = "show"
    BY <2>2, JobsDiffer DEF Same, AtEase, Coming
  <2> DEFINE all == n.shown \cup Lis(n)
  <2>4. s = [n EXCEPT !.alive = FALSE, !.selClass = {}, !.disClass = {}, !.cached = {},
                      !.shown = all]
    BY <2>3 DEF IsWidget, TabFields
  <2> HIDE DEF s, all
  <2>5. IsWidget(s) /\ s.alive = FALSE /\ s.queue = n.queue /\ s.anims = n.anims
    BY <2>3, <2>4 DEF IsWidget, TabFields
  <2> QED BY <2>3, <2>5 DEF Gone
<1> QED BY <1>1, <1>2, <1>3 DEF TabsInv

LEMMA AnimationEndsKeeps ==
  ASSUME TabsInv, NEW a \in tabs.anims, AnimationEnds(a)
  PROVE  TabsInv'
<1> DEFINE s == Finished(tabs, a)
<1>1. tabs' = s /\ torn' = torn
  BY DEF AnimationEnds
<1>2. ASSUME Fine(tabs) PROVE Fine(s)
  <2>1. IsWidget(tabs) /\ Settled(tabs) /\ Phase(tabs) /\ WillBeSeen(tabs) /\ tabs.alive
    BY <1>2 DEF Fine
  <2>2. Kin(tabs, s) /\ (AtEase(s) \/ Coming(s))
    BY <2>1, FinishedIs
  <2> HIDE DEF s
  <2>3. Settled(s) /\ WillBeSeen(s)
    BY <2>1, <2>2, KinShares
  <2> QED BY <2>1, <2>2, <2>3 DEF Fine, Phase, Kin
<1>3. ASSUME Gone(tabs) PROVE Gone(s)
  <2> DEFINE left == tabs.anims \ {a}
  <2>1. a.do = "show" /\ IsWidget(tabs)
    BY <1>3 DEF Gone
  <2>2. s = [tabs EXCEPT !.anims = left]
    BY <2>1 DEF Finished, IsWidget, TabFields
  <2>l. left \subseteq tabs.anims
    OBVIOUS
  <2> HIDE DEF s, left
  <2>3. IsWidget(s) /\ s.alive = tabs.alive /\ s.queue = tabs.queue /\ s.anims = left
    BY <2>1, <2>2 DEF IsWidget, TabFields
  <2> QED BY <1>3, <2>l, <2>3 DEF Gone
<1> QED BY <1>1, <1>2, <1>3 DEF TabsInv

LEMMA AnsweredKeeps ==
  ASSUME TabsInv, NEW ok \in BOOLEAN, Answered(ok)
  PROVE  TabsInv'
<1> DEFINE filled == tabs.filled \cup {tabs.loading}
           cached == IF ok /\ tabs.cache THEN tabs.cached \cup {tabs.loading} ELSE tabs.cached
           s      == tabs'
<1>1. /\ torn' = torn
      /\ tabs' = [tabs EXCEPT !.loading = 0, !.processing = {}, !.filled = @ \cup {tabs.loading},
                              !.cached = IF ok /\ tabs.cache THEN @ \cup {tabs.loading} ELSE @]
  BY DEF Answered
<1>2. ASSUME IsWidget(tabs)
      PROVE  /\ IsWidget(s) /\ s.fx = tabs.fx /\ s.alive = tabs.alive /\ s.order = tabs.order
             /\ s.selected = tabs.selected /\ s.disabled = tabs.disabled
             /\ s.disClass = tabs.disClass /\ s.processing = {}
             /\ s.loading = 0 /\ s.filled = filled /\ s.cached = cached
             /\ Seeing(s, tabs.queue, tabs.anims, tabs.selClass, tabs.shown)
  <2>1. s = [tabs EXCEPT !.loading = 0, !.processing = {}, !.filled = filled, !.cached = cached]
    BY <1>1, <1>2 DEF IsWidget, TabFields
  <2> HIDE DEF s, filled, cached
  <2> QED BY <1>2, <2>1 DEF IsWidget, TabFields, Seeing
<1>a. /\ filled = tabs.filled \cup {tabs.loading}
      /\ cached \subseteq tabs.cached \cup {tabs.loading}
  OBVIOUS
<1>s. s = tabs'
  OBVIOUS
<1> HIDE DEF s, filled, cached
<1>3. ASSUME Fine(tabs) PROVE Fine(s)
  <2>1. IsWidget(tabs) /\ Settled(tabs) /\ Phase(tabs) /\ WillBeSeen(tabs) /\ tabs.alive
    BY <1>3 DEF Fine
  <2>5. On(s) = On(tabs) /\ Lis(s) = Lis(tabs) /\ Show(s) = Show(tabs)
    BY <1>2, <2>1 DEF On, Lis, Show
  <2>6. Settled(s) /\ WillBeSeen(s)
    BY <1>2, <1>a, <2>1, <2>5 DEF Settled, WillBeSeen
  <2>7. Phase(s)
    BY <1>2, <2>1, <2>5 DEF Phase, AtEase, Coming, Leaving, Seeing
  <2> QED BY <1>2, <2>1, <2>6, <2>7 DEF Fine
<1>4. ASSUME Gone(tabs) PROVE Gone(s)
  BY <1>2, <1>4 DEF Gone, Seeing
<1> QED BY <1>1, <1>s, <1>3, <1>4 DEF TabsInv

LEMMA TabsInvInit == TabsInit => TabsInv
<1> SUFFICES ASSUME TabsInit PROVE TabsInv
  OBVIOUS
<1>1. PICK collapsible \in BOOLEAN, anim \in BOOLEAN, keep \in BOOLEAN, disabled \in SUBSET {2} :
        tabs = LoadTab([collapsible |-> collapsible, fx |-> anim, cache |-> keep,
                        order |-> <<1, 2>>, selected |-> 1, disabled |-> disabled,
                        selClass |-> {1}, disClass |-> disabled, processing |-> {},
                        shown |-> {1}, queue |-> <<[do |-> "tell", who |-> {1}]>>,
                        anims |-> {}, loading |-> 0, cached |-> {}, filled |-> {},
                        alive |-> TRUE], 1)
  BY DEF TabsInit
<1> DEFINE list == <<1, 2>>
           job  == <<[do |-> "tell", who |-> {1}]>>
           n    == [collapsible |-> collapsible, fx |-> anim, cache |-> keep,
                    order |-> list, selected |-> 1, disabled |-> disabled,
                    selClass |-> {1}, disClass |-> disabled, processing |-> {},
                    shown |-> {1}, queue |-> job,
                    anims |-> {}, loading |-> 0, cached |-> {}, filled |-> {},
                    alive |-> TRUE]
<1>2. list \in Seq(TabIds) /\ Len(list) = 2 /\ list[1] = 1 /\ list[2] = 2
  BY TabIdsAre
<1>3. tabs = LoadTab(n, 1)
  BY <1>1
<1>j. job = <<[do |-> "tell", who |-> {1}]>>
  OBVIOUS
<1> HIDE DEF list, job
<1>4. /\ IsWidget(n) /\ n.fx = anim /\ n.order = list /\ n.selected = 1 /\ n.disabled = disabled
      /\ n.selClass = {1} /\ n.disClass = disabled /\ n.shown = {1} /\ n.queue = job
      /\ n.anims = {} /\ n.cached = {} /\ n.filled = {} /\ n.alive = TRUE
  BY DEF IsWidget, TabFields
<1> HIDE DEF n
<1>5. On(n) = {1} /\ n.selected # 0
  BY <1>2, <1>4 DEF On
<1>6. Settled(n)
  <2>1. disabled = {} \/ disabled = {2}
    OBVIOUS
  <2>2. \A i, j \in 1..2 : list[i] = list[j] => i = j
    BY <1>2
  <2>3. disabled = {list[i] : i \in disabled}
    BY <1>2, <2>1
  <2>4. 1 \in 0..2 /\ 1 \notin disabled /\ disabled \subseteq 1..2
    BY <2>1
  <2>5. n.order \in Seq(TabIds) /\ Len(n.order) = 2 /\ n.selected \in 0..2
    BY <1>2, <1>4, <2>4
  <2>6. n.disClass = {n.order[i] : i \in n.disabled}
    BY <1>4, <2>3
  <2>7. \A i, j \in 1..2 : n.order[i] = n.order[j] => i = j
    BY <1>4, <2>2
  <2>8. n.disabled \subseteq 1..2 /\ n.selected \notin n.disabled /\ n.cached \subseteq n.filled
    BY <1>4, <2>4
  <2> QED BY <2>5, <2>6, <2>7, <2>8 DEF Settled
<1>7. Begun(n, 1)
  BY <1>4, <1>j DEF Begun
<1>8. Same(n, tabs) /\ Phase(tabs) /\ Fetches(tabs, 1)
  BY <1>2, <1>3, <1>4, <1>5, <1>7, TabIdsAre, LoadBegun
<1>9. Settled(tabs) /\ On(tabs) = {1}
  BY <1>5, <1>6, <1>8, SameShares
<1>10. WillBeSeen(tabs)
  BY <1>8, <1>9, FetchedIsSeen
<1>11. Fine(tabs)
  BY <1>4, <1>8, <1>9, <1>10 DEF Fine, Same
<1> QED BY <1>11 DEF TabsInit, TabsInv

\* What splice makes of a list with one more element.
LEMMA Inserted ==
  ASSUME NEW S, NEW s \in Seq(S), NEW i \in 1..Len(s) + 1, NEW e \in S
  PROVE  /\ InsertAt(s, i, e) \in Seq(S)
         /\ Len(InsertAt(s, i, e)) = Len(s) + 1
         /\ \A j \in 1..Len(s) + 1 :
               InsertAt(s, i, e)[j] = IF j < i THEN s[j] ELSE IF j = i THEN e ELSE s[j - 1]
<1> DEFINE a == SubSeq(s, 1, i - 1)
           b == SubSeq(s, i, Len(s))
           c == a \o <<e>>
           d == c \o b
<1>0. Len(s) \in Nat /\ i \in Int
  OBVIOUS
<1>1. a \in Seq(S) /\ Len(a) = i - 1 /\ \A j \in 1..i - 1 : a[j] = s[j]
  OBVIOUS
<1>2. b \in Seq(S) /\ Len(b) = Len(s) - i + 1 /\ \A j \in 1..Len(s) - i + 1 : b[j] = s[i + j - 1]
  BY <1>0
<1> HIDE DEF a, b
<1>3. c \in Seq(S) /\ Len(c) = i /\ \A j \in 1..i : c[j] = IF j < i THEN s[j] ELSE e
  <2>1. <<e>> \in Seq(S) /\ Len(<<e>>) = 1 /\ <<e>>[1] = e
    OBVIOUS
  <2>2. c \in Seq(S) /\ Len(c) = Len(a) + 1
    BY <1>1, <2>1, ConcatProperties
  <2>3. \A k \in 1..Len(a) + 1 : c[k] = IF k <= Len(a) THEN a[k] ELSE <<e>>[k - Len(a)]
    BY <1>1, <2>1, ConcatProperties
  <2> HIDE DEF c
  <2>4. ASSUME NEW j \in 1..i PROVE c[j] = IF j < i THEN s[j] ELSE e
    <3>1. CASE j < i
      <4>1. j \in 1..Len(a) + 1 /\ j <= Len(a) /\ j \in 1..i - 1
        BY <1>0, <1>1, <3>1
      <4> QED BY <1>1, <2>3, <3>1, <4>1
    <3>2. CASE j = i
      <4>1. j \in 1..Len(a) + 1 /\ ~(j <= Len(a)) /\ j - Len(a) = 1
        BY <1>0, <1>1, <3>2
      <4>2. c[j] = <<e>>[j - Len(a)]
        BY <2>3, <4>1
      <4> QED BY <2>1, <3>2, <4>1, <4>2
    <3> QED BY <1>0, <3>1, <3>2
  <2> QED BY <1>0, <1>1, <2>2, <2>4
<1> HIDE DEF c
<1>4. d \in Seq(S) /\ Len(d) = Len(c) + Len(b)
  BY <1>2, <1>3, ConcatProperties
<1>5. \A k \in 1..Len(c) + Len(b) : d[k] = IF k <= Len(c) THEN c[k] ELSE b[k - Len(c)]
  BY <1>2, <1>3, ConcatProperties
<1> HIDE DEF d
<1>6. Len(d) = Len(s) + 1
  BY <1>0, <1>2, <1>3, <1>4
<1>7. ASSUME NEW j \in 1..Len(s) + 1
      PROVE  d[j] = IF j < i THEN s[j] ELSE IF j = i THEN e ELSE s[j - 1]
  <2>1. j \in 1..Len(c) + Len(b)
    BY <1>0, <1>2, <1>3
  <2>2. CASE j <= i
    <3>1. j <= Len(c) /\ j \in 1..i
      BY <1>0, <1>3, <2>2
    <3>2. d[j] = c[j]
      BY <1>5, <2>1, <3>1
    <3> QED BY <1>0, <1>3, <2>2, <3>1, <3>2
  <2>3. CASE j > i
    <3>1. ~(j <= Len(c)) /\ j - Len(c) \in 1..Len(s) - i + 1 /\ i + (j - Len(c)) - 1 = j - 1
      BY <1>0, <1>3, <2>3
    <3>2. d[j] = b[j - Len(c)]
      BY <1>5, <2>1, <3>1
    <3>3. b[j - Len(c)] = s[j - 1]
      BY <1>2, <3>1
    <3> QED BY <1>0, <2>3, <3>2, <3>3
  <2> QED BY <1>0, <2>2, <2>3
<1> QED BY <1>4, <1>6, <1>7 DEF InsertAt, a, b, c, d

\* The list with a tab more, and with a tab less.
Longer(n, at, new) ==
    [n EXCEPT !.order = InsertAt(@, at, new), !.filled = @ \ {new}, !.cached = @ \ {new},
              !.disabled = Shift(@, at, 1)]
Shorter(n, i, t) ==
    [n EXCEPT !.order = RemoveAt(@, i), !.selClass = @ \ {t}, !.shown = @ \ {t},
              !.processing = @ \ {t}, !.disabled = Shift(@ \ {i}, i, -1)]

LEMMA LongerIs ==
  ASSUME NEW n, IsWidget(n), Settled(n), WillBeSeen(n), AtEase(n),
         NEW new \in TabIds \ Lis(n), NEW at \in 1..Len(n.order) + 1
  PROVE  /\ IsWidget(Longer(n, at, new)) /\ TabsListed(Longer(n, at, new))
         /\ Longer(n, at, new).order = InsertAt(n.order, at, new)
         /\ Longer(n, at, new).selClass = On(n) /\ Longer(n, at, new).alive = n.alive
<1> DEFINE o   == InsertAt(n.order, at, new)
           f   == n.filled \ {new}
           c   == n.cached \ {new}
           dis == Shift(n.disabled, at, 1)
           m   == Longer(n, at, new)
           L   == Len(n.order)
<1>0. L \in Nat /\ n.order \in Seq(TabIds) /\ at \in Int
  BY DEF Settled
<1>1. /\ o \in Seq(TabIds) /\ Len(o) = L + 1
      /\ \A j \in 1..L + 1 : o[j] = IF j < at THEN n.order[j] ELSE IF j = at THEN new
                                     ELSE n.order[j - 1]
  BY <1>0, Inserted
<1>d. dis = {IF j >= at THEN j + 1 ELSE j : j \in n.disabled}
  BY DEF Shift
<1>2. m = [n EXCEPT !.order = o, !.filled = f, !.cached = c, !.disabled = dis]
  BY DEF Longer, IsWidget, TabFields
<1>f. f = n.filled \ {new} /\ c = n.cached \ {new} /\ o = InsertAt(n.order, at, new)
      /\ L = Len(n.order)
  OBVIOUS
<1> HIDE DEF o, f, c, dis, m, L
<1>3. /\ IsWidget(m) /\ m.alive = n.alive /\ m.order = o /\ m.disabled = dis
      /\ m.filled = f /\ m.cached = c /\ m.processing = n.processing /\ m.loading = n.loading
      /\ Seeing(m, <<>>, {}, On(n), On(n))
  BY <1>2 DEF IsWidget, TabFields, Seeing, AtEase
<1>4. \A j \in 1..L : n.order[j] # new
  BY <1>f, InTheList
<1>5. ASSUME NEW j \in 1..L + 1, NEW k \in 1..L + 1, o[j] = o[k] PROVE j = k
  <2>1. \A x, y \in 1..L : n.order[x] = n.order[y] => x = y
    BY <1>f DEF Settled
  <2>2. \A x \in 1..L + 1 : /\ x < at => x \in 1..L /\ o[x] = n.order[x]
                            /\ x = at => o[x] = new
                            /\ x > at => x - 1 \in 1..L /\ o[x] = n.order[x - 1]
    BY <1>0, <1>1, <1>f
  <2>3. CASE j = at
    <3>1. ~(k < at) /\ ~(k > at)
      BY <1>4, <1>5, <2>2, <2>3
    <3> QED BY <1>0, <2>3, <3>1
  <2>4. CASE j < at
    <3>1. o[j] = n.order[j] /\ j \in 1..L
      BY <2>2, <2>4
    <3>2. k # at
      BY <1>4, <1>5, <2>2, <3>1
    <3>3. CASE k < at
      BY <1>5, <2>1, <2>2, <3>1, <3>3
    <3>4. CASE k > at
      <4>1. n.order[j] = n.order[k - 1] /\ k - 1 \in 1..L
        BY <1>5, <2>2, <3>1, <3>4
      <4>2. j = k - 1
        BY <2>1, <3>1, <4>1
      <4> QED BY <1>0, <2>4, <3>4, <4>2
    <3> QED BY <1>0, <3>2, <3>3, <3>4
  <2>5. CASE j > at
    <3>1. o[j] = n.order[j - 1] /\ j - 1 \in 1..L
      BY <2>2, <2>5
    <3>2. k # at
      BY <1>4, <1>5, <2>2, <3>1
    <3>3. CASE k < at
      <4>1. n.order[j - 1] = n.order[k] /\ k \in 1..L
        BY <1>5, <2>2, <3>1, <3>3
      <4>2. j - 1 = k
        BY <2>1, <3>1, <4>1
      <4> QED BY <1>0, <2>5, <3>3, <4>2
    <3>4. CASE k > at
      <4>1. n.order[j - 1] = n.order[k - 1] /\ k - 1 \in 1..L
        BY <1>5, <2>2, <3>1, <3>4
      <4>2. j - 1 = k - 1
        BY <2>1, <3>1, <4>1
      <4> QED BY <1>0, <4>2
    <3> QED BY <1>0, <3>2, <3>3, <3>4
  <2> QED BY <1>0, <2>3, <2>4, <2>5
<1>6. dis \subseteq 1..L + 1
  BY <1>0, <1>d, <1>f DEF Settled
<1>7. c \subseteq f
  BY <1>f DEF Settled
<1>8. On(n) \cap RemoteTabs \subseteq f \cup {n.loading}
  <2>1. new \notin On(n)
    BY OnIs
  <2> QED BY <1>f, <2>1 DEF WillBeSeen
<1>9. On(n) = {} \/ \E k \in 1..L + 1 : k \notin dis /\ On(n) = {o[k]}
  <2>1. CASE n.selected \in 1..L /\ On(n) = {n.order[n.selected]}
    <3> DEFINE k == IF n.selected < at THEN n.selected ELSE n.selected + 1
    <3>1. n.selected \in Int
      BY <1>0, <2>1
    <3>2. k \in 1..L + 1 /\ o[k] = n.order[n.selected]
      BY <1>0, <1>1, <2>1, <3>1
    <3>3. k \notin dis
      <4>1. ASSUME NEW j \in n.disabled, k = (IF j >= at THEN j + 1 ELSE j) PROVE FALSE
        <5>1. j \in Int /\ j # n.selected
          BY <1>0, <1>f DEF Settled
        <5> QED BY <1>0, <3>1, <4>1, <5>1
      <4> QED BY <1>d, <4>1
    <3> QED BY <2>1, <3>2, <3>3
  <2> QED BY <1>f, <2>1, OnIs
<1>10. TabsListed(m)
  <2>1. \A j, k \in 1..Len(m.order) : m.order[j] = m.order[k] => j = k
    BY <1>1, <1>3, <1>5
  <2>2. m.disabled \subseteq 1..Len(m.order) /\ m.order \in Seq(TabIds)
    BY <1>1, <1>3, <1>6
  <2>3. \/ m.selClass = {}
        \/ \E k \in 1..Len(m.order) \ m.disabled : m.selClass = {m.order[k]}
    BY <1>1, <1>3, <1>9 DEF Seeing
  <2>4. m.processing \subseteq {m.loading}
    BY <1>3 DEF WillBeSeen
  <2> QED BY <1>3, <1>7, <1>8, <2>1, <2>2, <2>3, <2>4 DEF TabsListed, Seeing
<1> QED BY <1>3, <1>10, <1>f DEF Seeing, m

LEMMA ShorterIs ==
  ASSUME NEW n, IsWidget(n), Settled(n), WillBeSeen(n), AtEase(n),
         NEW i \in 1..Len(n.order), NEW t, t = n.order[i]
  PROVE  /\ IsWidget(Shorter(n, i, t)) /\ TabsListed(Shorter(n, i, t))
         /\ Shorter(n, i, t).alive = n.alive
<1> DEFINE o   == RemoveAt(n.order, i)
           sel == n.selClass \ {t}
           sh  == n.shown \ {t}
           pr  == n.processing \ {t}
           dis == Shift(n.disabled \ {i}, i, -1)
           m   == Shorter(n, i, t)
           L   == Len(n.order)
<1>0. L \in Nat /\ n.order \in Seq(TabIds) /\ i \in Int
  BY DEF Settled
<1>1. /\ o \in Seq(TabIds) /\ Len(o) = L - 1
      /\ \A j \in 1..L - 1 : o[j] = IF j < i THEN n.order[j] ELSE n.order[j + 1]
  BY <1>0, Removed
<1>d. dis = {IF j >= i THEN j + (-1) ELSE j : j \in n.disabled \ {i}}
  BY DEF Shift
<1>2. m = [n EXCEPT !.order = o, !.selClass = sel, !.shown = sh, !.processing = pr,
                    !.disabled = dis]
  BY DEF Shorter, IsWidget, TabFields
<1>f. /\ o = RemoveAt(n.order, i) /\ L = Len(n.order) /\ sel = On(n) \ {t} /\ sh = On(n) \ {t}
      /\ pr = n.processing \ {t}
  BY DEF AtEase
<1> HIDE DEF o, sel, sh, pr, dis, m, L
<1>3. /\ IsWidget(m) /\ m.alive = n.alive /\ m.order = o /\ m.disabled = dis
      /\ m.filled = n.filled /\ m.cached = n.cached /\ m.processing = pr
      /\ m.loading = n.loading /\ Seeing(m, <<>>, {}, sel, sh)
  BY <1>2 DEF IsWidget, TabFields, Seeing, AtEase
<1>4. \A x, y \in 1..L : n.order[x] = n.order[y] => x = y
  BY <1>f DEF Settled
<1>5. ASSUME NEW j \in 1..L - 1, NEW k \in 1..L - 1, o[j] = o[k] PROVE j = k
  <2>1. \A x \in 1..L - 1 : /\ x < i => x \in 1..L /\ o[x] = n.order[x]
                            /\ ~(x < i) => x + 1 \in 1..L /\ o[x] = n.order[x + 1]
    BY <1>0, <1>1, <1>f
  <2>2. CASE j < i /\ k < i
    BY <1>4, <1>5, <2>1, <2>2
  <2>3. CASE ~(j < i) /\ ~(k < i)
    <3>1. j + 1 = k + 1
      BY <1>4, <1>5, <2>1, <2>3
    <3> QED BY <1>0, <3>1
  <2>4. CASE j < i /\ ~(k < i)
    <3>1. j = k + 1
      BY <1>4, <1>5, <2>1, <2>4
    <3> QED BY <1>0, <2>4, <3>1
  <2>5. CASE ~(j < i) /\ k < i
    <3>1. j + 1 = k
      BY <1>4, <1>5, <2>1, <2>5
    <3> QED BY <1>0, <2>5, <3>1
  <2> QED BY <2>2, <2>3, <2>4, <2>5
<1>6. dis \subseteq 1..L - 1
  BY <1>0, <1>d, <1>f DEF Settled
<1>7. sel = {} \/ \E k \in 1..L - 1 : k \notin dis /\ sel = {o[k]}
  <2>1. CASE n.selected \in 1..L /\ On(n) = {n.order[n.selected]} /\ n.selected # i
    <3> DEFINE k == IF n.selected < i THEN n.selected ELSE n.selected - 1
    <3>1. n.selected \in Int
      BY <1>0, <2>1
    <3>2. k \in 1..L - 1 /\ o[k] = n.order[n.selected]
      <4>1. i \in 1..L
        BY <1>f
      <4>2. CASE n.selected < i
        <5>1. k = n.selected /\ k \in 1..L - 1
          BY <1>0, <2>1, <3>1, <4>1, <4>2
        <5> QED BY <1>1, <4>2, <5>1
      <4>3. CASE n.selected > i
        <5>1. k = n.selected - 1 /\ k \in 1..L - 1 /\ ~(k < i) /\ k + 1 = n.selected
          BY <1>0, <2>1, <3>1, <4>1, <4>3
        <5> HIDE DEF k
        <5>2. o[k] = n.order[k + 1]
          BY <1>1, <5>1
        <5> QED BY <5>1, <5>2
      <4> QED BY <1>0, <2>1, <3>1, <4>2, <4>3
    <3>3. k \notin dis
      <4>1. ASSUME NEW j \in n.disabled \ {i}, k = (IF j >= i THEN j + (-1) ELSE j) PROVE FALSE
        <5>1. j \in Int /\ j # n.selected /\ j # i
          BY <1>0, <1>f DEF Settled
        <5> QED BY <1>0, <2>1, <3>1, <4>1, <5>1
      <4> QED BY <1>d, <4>1
    <3>4. sel = {o[k]}
      <4>1. n.order[n.selected] # t
        BY <1>0, <1>4, <1>f, <2>1
      <4> QED BY <1>f, <2>1, <3>2, <4>1
    <3> QED BY <3>2, <3>3, <3>4
  <2>2. CASE n.selected = i /\ On(n) = {n.order[n.selected]}
    BY <1>f, <2>2
  <2> QED BY <1>f, <2>1, <2>2, OnIs
<1>8. TabsListed(m)
  <2>1. \A j, k \in 1..Len(m.order) : m.order[j] = m.order[k] => j = k
    BY <1>1, <1>3, <1>5
  <2>2. m.disabled \subseteq 1..Len(m.order) /\ m.order \in Seq(TabIds)
    BY <1>1, <1>3, <1>6
  <2>3. \/ m.selClass = {}
        \/ \E k \in 1..Len(m.order) \ m.disabled : m.selClass = {m.order[k]}
    BY <1>1, <1>3, <1>7 DEF Seeing
  <2>4. m.processing \subseteq {m.loading}
    BY <1>3, <1>f DEF WillBeSeen
  <2>5. m.selClass \cap RemoteTabs \subseteq m.filled \cup {m.loading} /\ m.cached \subseteq m.filled
    BY <1>3, <1>f DEF WillBeSeen, Settled, Seeing
  <2>6. m.queue = <<>> /\ m.anims = {} /\ m.shown = m.selClass
    BY <1>3, <1>f DEF Seeing
  <2> QED BY <2>1, <2>2, <2>3, <2>4, <2>5, <2>6 DEF TabsListed
<1> QED BY <1>3, <1>8 DEF m

\* add: the only tab is selected.
LEMMA AddKeeps ==
  ASSUME TabsInv, NEW i \in 1..Cardinality(TabIds), Add(i)
  PROVE  TabsInv'
<1> DEFINE new  == CHOOSE t \in TabIds \ Lis(tabs) : TRUE
           at   == IF i > Len(tabs.order) THEN Len(tabs.order) + 1 ELSE i
           long == Longer(tabs, at, new)
           list == Tabify(long)
           one  == [list EXCEPT !.selected = 1, !.selClass = @ \cup {new},
                                !.shown = @ \cup {new},
                                !.queue = Append(@, [do |-> "tell", who |-> {new}])]
           load == LoadTab(one, new)
<1>1. /\ TabIds \ Lis(tabs) # {} /\ tabs.alive
      /\ tabs' = (IF Len(list.order) > 1 THEN list ELSE load)
      /\ torn' = (torn \/ Switching(tabs))
  BY DEF Add, ByPage, Longer
<1>2. torn' \in BOOLEAN /\ (~torn' => ~torn /\ ~Switching(tabs))
  BY <1>1 DEF TabsInv, Switching
<1>3. new \in TabIds \ Lis(tabs)
  BY <1>1
<1>a. at = IF i > Len(tabs.order) THEN Len(tabs.order) + 1 ELSE i
  OBVIOUS
<1> HIDE DEF new, at
<1>4. ASSUME ~torn' PROVE Fine(tabs')
  <2>1. IsWidget(tabs) /\ Settled(tabs) /\ Phase(tabs) /\ WillBeSeen(tabs)
    BY <1>1, <1>2, <1>4, FineOrGone DEF Fine
  <2>2. AtEase(tabs)
    BY <1>2, <1>4, <2>1, EaseIsRest
  <2>3. Len(tabs.order) \in Nat /\ tabs.order \in Seq(TabIds) /\ i \in Nat \ {0}
    BY <2>1, TabIdsAre DEF Settled
  <2>4. at \in 1..Len(tabs.order) + 1
    BY <1>a, <2>3
  <2>5. /\ IsWidget(long) /\ TabsListed(long) /\ long.order = InsertAt(tabs.order, at, new)
        /\ long.selClass = On(tabs) /\ long.alive = tabs.alive
    BY <1>3, <2>1, <2>2, <2>4, LongerIs
  <2> HIDE DEF long
  <2>6. TabifiedTo(long, list)
    BY <2>5, TabifyIs
  <2> HIDE DEF list
  <2>7. Fine(list)
    BY <1>1, <2>5, <2>6 DEF TabifiedTo, Fine, Phase
  <2>8. CASE Len(list.order) > 1
    BY <1>1, <2>7, <2>8
  <2>9. CASE ~(Len(list.order) > 1)
    <3>1. /\ Len(list.order) = Len(tabs.order) + 1
          /\ list.order[at] = new
      <4>1. list.order = InsertAt(tabs.order, at, new)
        BY <2>5, <2>6 DEF TabifiedTo
      <4>2. InsertAt(tabs.order, at, new)[at] = new /\ at \in Int
        BY <1>3, <2>3, <2>4, Inserted
      <4> QED BY <1>3, <2>3, <2>4, <4>1, <4>2, Inserted
    <3>2. Len(tabs.order) = 0 /\ at = 1 /\ Len(list.order) = 1
      BY <2>3, <2>4, <2>9, <3>1
    <3>3. On(tabs) = {}
      BY <2>1, <3>2, OnIs
    <3>4. Settled(list) /\ WillBeSeen(list) /\ AtEase(list) /\ On(list) = {} /\ IsWidget(list)
          /\ list.alive
      BY <1>1, <2>5, <2>6, <3>3 DEF TabifiedTo
    <3>5. list.selected = 0
      BY <3>4, OnIs
    <3> DEFINE job == <<[do |-> "tell", who |-> {new}]>>
    <3>6. one = [list EXCEPT !.selected = 1, !.selClass = {new}, !.shown = {new}, !.queue = job]
      <4>1. list.selClass \cup {new} = {new} /\ list.shown \cup {new} = {new}
            /\ Append(list.queue, [do |-> "tell", who |-> {new}]) = job
        BY <3>4, OntoNothing DEF AtEase
      <4> HIDE DEF job
      <4> QED BY <3>4, <4>1 DEF IsWidget, TabFields
    <3>j. job = <<[do |-> "tell", who |-> {new}]>>
      OBVIOUS
    <3> HIDE DEF one, job
    <3>7. /\ IsWidget(one) /\ one.fx = list.fx /\ one.alive = list.alive
          /\ one.order = list.order /\ one.disabled = list.disabled
          /\ one.disClass = list.disClass /\ one.cached = list.cached
          /\ one.filled = list.filled /\ one.selected = 1
          /\ Seeing(one, job, {}, {new}, {new})
      BY <3>4, <3>6 DEF IsWidget, TabFields, Seeing, AtEase
    <3>8. list.disabled = {}
      <4>1. list.disabled = long.disabled /\ list.order = long.order
        BY <2>6 DEF TabifiedTo
      <4>2. tabs.disabled = {}
        BY <2>1, <3>2 DEF Settled
      <4>3. long.disabled = Shift(tabs.disabled, at, 1)
        BY <2>1 DEF long, Longer, IsWidget, TabFields
      <4> QED BY <4>1, <4>2, <4>3 DEF Shift
    <3>9. Settled(one)
      <4>0. one.selected = 1 /\ Len(one.order) = 1 /\ one.disabled = {}
        BY <3>2, <3>7, <3>8
      <4>1. one.selected \in 0..Len(one.order) /\ one.selected \notin one.disabled
        BY <4>0
      <4> QED BY <3>4, <3>7, <4>1 DEF Settled
    <3>10. On(one) = {new} /\ one.selected # 0
      BY <3>1, <3>2, <3>7 DEF On
    <3>11. Begun(one, new)
      BY <3>7, <3>j DEF Begun, Seeing
    <3>12. Len(one.order) \in Nat /\ one.anims = {}
      BY <3>2, <3>7 DEF Seeing
    <3>13. Same(one, load) /\ Phase(load) /\ Fetches(load, new)
      BY <1>3, <3>7, <3>10, <3>11, <3>12, LoadBegun
    <3> HIDE DEF load
    <3>14. Settled(load) /\ On(load) = {new}
      BY <3>9, <3>10, <3>13, SameShares
    <3>15. WillBeSeen(load)
      BY <3>13, <3>14, FetchedIsSeen
    <3>16. Fine(load)
      BY <3>4, <3>7, <3>13, <3>14, <3>15 DEF Fine, Same
    <3> QED BY <1>1, <2>9, <3>16
  <2> QED BY <2>8, <2>9
<1> QED BY <1>2, <1>4 DEF TabsInv

\* remove: if the tab was selected and its neighbour takes the click, the
\* neighbour has been selected before.
LEMMA RemoveTabKeeps ==
  ASSUME TabsInv, NEW i, RemoveTab(i)
  PROVE  TabsInv'
<1> DEFINE t    == tabs.order[i]
           next == IF i < Len(tabs.order) THEN i + 1 ELSE i - 1
           sel  == IF t \in tabs.selClass /\ next > 0 /\ Takes(tabs, tabs.order[next])
                   THEN Selected(tabs, tabs.order[next]) ELSE tabs
           gone == Shorter(sel, i, t)
           list == Tabify(gone)
<1>1. /\ i \in DOMAIN tabs.order /\ tabs.alive /\ tabs' = list
      /\ torn' = (torn \/ (Switching(tabs) \/ Switching(sel)))
  BY DEF RemoveTab, ByPage, Shorter
<1>2. torn' \in BOOLEAN /\ (~torn' => ~torn /\ ~Switching(tabs) /\ ~Switching(sel))
  BY <1>1 DEF TabsInv, Switching
<1>s. sel = IF t \in tabs.selClass /\ next > 0 /\ Takes(tabs, tabs.order[next])
            THEN Selected(tabs, tabs.order[next]) ELSE tabs
  OBVIOUS
<1>t. t = tabs.order[i] /\ next = IF i < Len(tabs.order) THEN i + 1 ELSE i - 1
  OBVIOUS
<1> HIDE DEF t, next, sel
<1>3. ASSUME ~torn' PROVE Fine(list)
  <2>1. IsWidget(tabs) /\ Settled(tabs) /\ Phase(tabs) /\ WillBeSeen(tabs)
    BY <1>1, <1>2, <1>3, FineOrGone DEF Fine
  <2>2. AtEase(tabs)
    BY <1>2, <1>3, <2>1, EaseIsRest
  <2>3. Len(tabs.order) \in Nat /\ DOMAIN tabs.order = 1..Len(tabs.order) /\ i \in 1..Len(tabs.order)
    BY <1>1, <2>1 DEF Settled
  <2>4. /\ IsWidget(sel) /\ Settled(sel) /\ WillBeSeen(sel) /\ Phase(sel)
        /\ sel.order = tabs.order /\ sel.alive = tabs.alive
    <3>1. CASE t \in tabs.selClass /\ next > 0 /\ Takes(tabs, tabs.order[next])
      <4> DEFINE u == tabs.order[next]
      <4>1. next \in 1..Len(tabs.order)
        BY <1>t, <2>3, <3>1
      <4>2. u \in Lis(tabs) /\ u \notin tabs.disClass
        BY <2>1, <3>1, <4>1, InTheList, TakesAtEase
      <4>3. sel = Selected(tabs, u)
        BY <1>s, <3>1
      <4> HIDE DEF u
      <4>4. Unselected(tabs, sel) /\ Settled(sel) /\ WillBeSeen(sel) /\ Phase(sel)
        BY <2>1, <2>2, <4>2, <4>3, SelectedIs
      <4> QED BY <4>4 DEF Unselected
    <3>2. CASE ~(t \in tabs.selClass /\ next > 0 /\ Takes(tabs, tabs.order[next]))
      <4>1. sel = tabs
        BY <1>s, <3>2
      <4> QED BY <2>1, <4>1
    <3> QED BY <3>1, <3>2
  <2>5. AtEase(sel)
    BY <1>2, <1>3, <2>4, EaseIsRest
  <2>6. i \in 1..Len(sel.order) /\ t = sel.order[i]
    BY <1>t, <2>3, <2>4
  <2>7. IsWidget(gone) /\ TabsListed(gone) /\ gone.alive = sel.alive
    BY <2>4, <2>5, <2>6, ShorterIs
  <2> HIDE DEF gone
  <2>8. TabifiedTo(gone, list)
    BY <2>7, TabifyIs
  <2> HIDE DEF list
  <2> QED BY <1>1, <2>4, <2>7, <2>8 DEF TabifiedTo, Fine, Phase
<1> QED BY <1>1, <1>2, <1>3 DEF TabsInv

LEMMA TabsInvStep == TabsInv /\ [TabsNext]_tabsVars => TabsInv'
<1> SUFFICES ASSUME TabsInv, [TabsNext]_tabsVars PROVE TabsInv'
  OBVIOUS
<1>1. CASE UNCHANGED tabsVars
  BY <1>1 DEF tabsVars, TabsInv
<1>2. ASSUME NEW t \in TabIds, SelectTab(t) PROVE TabsInv'
  BY <1>2, SelectTabKeeps
<1>3. ASSUME NEW t \in TabIds, Load(t) PROVE TabsInv'
  BY <1>3, LoadKeeps
<1>4. ASSUME NEW t \in TabIds, Url(t) PROVE TabsInv'
  BY <1>4, UrlKeeps
<1>5. ASSUME NEW i \in 1..Cardinality(TabIds), Add(i) PROVE TabsInv'
  BY <1>5, AddKeeps
<1>6. ASSUME NEW i \in 1..Cardinality(TabIds), RemoveTab(i) PROVE TabsInv'
  BY <1>6, RemoveTabKeeps
<1>7. ASSUME NEW i \in 1..Cardinality(TabIds), Enable(i) PROVE TabsInv'
  BY <1>7, EnableKeeps
<1>8. ASSUME NEW i \in 1..Cardinality(TabIds), DisableTab(i) PROVE TabsInv'
  BY <1>8, DisableTabKeeps
<1>9. ASSUME NEW S \in SUBSET (DOMAIN tabs.order \ {tabs.selected}), SetDisabled(S)
      PROVE  TabsInv'
  BY <1>9, SetDisabledKeeps
<1>10. CASE DestroyTabs
  BY <1>10, DestroyTabsKeeps
<1>11. ASSUME NEW a \in tabs.anims, AnimationEnds(a) PROVE TabsInv'
  BY <1>11, AnimationEndsKeeps
<1>12. ASSUME NEW ok \in BOOLEAN, Answered(ok) PROVE TabsInv'
  BY <1>12, AnsweredKeeps
<1> QED BY <1>1, <1>2, <1>3, <1>4, <1>5, <1>6, <1>7, <1>8, <1>9, <1>10, <1>11, <1>12
        DEF TabsNext

LEMMA TabsInvAgrees == TabsInv => TabsAgree
<1> SUFFICES ASSUME TabsInv, tabs.alive, ~torn, ~Switching(tabs) PROVE TabsAgree
  BY DEF TabsAgree
<1>1. Settled(tabs) /\ Phase(tabs) /\ WillBeSeen(tabs)
  BY FineOrGone DEF Fine
<1>2. AtEase(tabs)
  BY <1>1, EaseIsRest
<1>3. /\ tabs.selClass = On(tabs) /\ tabs.shown = On(tabs)
      /\ tabs.selected \notin tabs.disabled
      /\ tabs.disClass = {tabs.order[i] : i \in tabs.disabled}
      /\ tabs.processing \subseteq {tabs.loading}
      /\ On(tabs) \cap RemoteTabs \subseteq tabs.filled \cup {tabs.loading}
  BY <1>1, <1>2 DEF AtEase, Settled, WillBeSeen
<1> QED BY <1>3 DEF TabsAgree, On
-----------------------------------------------------------------------------
(***************************************************************************)
(* The scripts together.  A step of the page is a step of one script, or   *)
(* of none, so that each keeps its own invariant.                          *)
(***************************************************************************)
ScriptsInv ==
    /\ SliderInv /\ MenuInv /\ FloatInv /\ RangeInv /\ LassoInv /\ FieldInv
    /\ TabsInv /\ AccordionInv /\ DialogsInv

LEMMA ScriptsStart == Init => ScriptsInv
<1> SUFFICES ASSUME Init PROVE ScriptsInv
  OBVIOUS
<1>1. /\ SliderInit /\ MenuInit /\ FloatInit /\ RangeInit /\ SelectableInit
      /\ AutocompleteInit /\ TabsInit /\ AccordionInit /\ DialogsInit
  BY DEF Init
<1> QED BY <1>1, SliderStarts, MenuStarts, FloatStarts, RangeStarts, LassoStarts,
           FieldStarts, TabsInvInit, AccordionInvInit, DialogsInvInit DEF ScriptsInv

\* Every script but the one whose turn it is stays as it is.
LEMMA OneAtATime ==
  ASSUME Next
  PROVE  /\ [SliderNext]_sliderVars /\ [MenuNext]_menuVars
         /\ [FloatNext]_floatVars /\ [RangeNext]_rangeVars
         /\ [SelectableNext]_selectableVars /\ [AutocompleteNext]_acVars
         /\ [TabsNext]_tabsVars /\ [AccordionNext]_accVars /\ [DialogsNext]_dialogVars
<1>1. ASSUME NEW s, In(s)
      PROVE  /\ s = "slider" \/ UNCHANGED sliderVars
             /\ s = "menu" \/ UNCHANGED menuVars
             /\ s = "float" \/ UNCHANGED floatVars
             /\ s = "range" \/ UNCHANGED rangeVars
             /\ s = "selectable" \/ UNCHANGED selectableVars
             /\ s = "autocomplete" \/ UNCHANGED acVars
             /\ s = "tabs" \/ UNCHANGED tabsVars
             /\ s = "accordion" \/ UNCHANGED accVars
             /\ s = "dialogs" \/ UNCHANGED dialogVars
  BY <1>1 DEF In
<1>2. [SliderNext]_sliderVars
  BY <1>1 DEF Next
<1>3. [MenuNext]_menuVars
  BY <1>1 DEF Next
<1>4. [FloatNext]_floatVars
  BY <1>1 DEF Next
<1>5. [RangeNext]_rangeVars
  BY <1>1 DEF Next
<1>6. [SelectableNext]_selectableVars
  BY <1>1 DEF Next
<1>7. [AutocompleteNext]_acVars
  BY <1>1 DEF Next
<1>8. [TabsNext]_tabsVars
  BY <1>1 DEF Next
<1>9. [AccordionNext]_accVars
  BY <1>1 DEF Next
<1>10. [DialogsNext]_dialogVars
  BY <1>1 DEF Next
<1> QED BY <1>2, <1>3, <1>4, <1>5, <1>6, <1>7, <1>8, <1>9, <1>10

LEMMA ScriptsStep == ScriptsInv /\ [Next]_vars => ScriptsInv'
<1> SUFFICES ASSUME ScriptsInv, [Next]_vars PROVE ScriptsInv'
  OBVIOUS
<1>1. /\ [SliderNext]_sliderVars /\ [MenuNext]_menuVars
      /\ [FloatNext]_floatVars /\ [RangeNext]_rangeVars
      /\ [SelectableNext]_selectableVars /\ [AutocompleteNext]_acVars
      /\ [TabsNext]_tabsVars /\ [AccordionNext]_accVars /\ [DialogsNext]_dialogVars
  <2>1. CASE Next
    BY <2>1, OneAtATime
  <2>2. CASE UNCHANGED vars
    BY <2>2 DEF vars
  <2> QED BY <2>1, <2>2
<1>2. SliderInv' /\ MenuInv' /\ FloatInv' /\ RangeInv' /\ LassoInv' /\ FieldInv'
  BY <1>1, SliderSteps, MenuSteps, FloatSteps, RangeSteps, LassoSteps, FieldSteps
     DEF ScriptsInv
<1>3. TabsInv' /\ AccordionInv' /\ DialogsInv'
  BY <1>1, TabsInvStep, AccordionInvStep, DialogsInvStep DEF ScriptsInv
<1> QED BY <1>2, <1>3 DEF ScriptsInv

LEMMA ScriptsHold == Spec => []ScriptsInv
BY ScriptsStart, ScriptsStep, PTL DEF Spec

(***************************************************************************)
(* The content slider, the menu, the rows that light up and what floats    *)
(* with the mouse and the window are where they should be, for any number  *)
(* of articles and items, any heights and any row of events: the flag      *)
(* inuse, the one timer of the menu and the lit rows of application.js and *)
(* jquery.contentslider.js never disagree with what is on the page.        *)
(***************************************************************************)
THEOREM AlwaysShownInPlace == Spec => []ShownInPlace
<1>1. ScriptsInv => ShownInPlace
  BY SliderHolds, MenuHolds DEF ScriptsInv, FloatInv, ShownInPlace
<1> QED BY <1>1, ScriptsHold, PTL

(***************************************************************************)
(* The handles of a slider whose values are whole steps apart stay in      *)
(* order and the page knows where they are, and a lasso selects by where   *)
(* it ends: for any values, any number of items, any strokes of the mouse  *)
(* and the keys, lost releases of the button among them.  Where the range  *)
(* is no whole number of steps the slider puts a handle beyond its end,    *)
(* and the handles may be in the wrong order.                              *)
(***************************************************************************)
THEOREM MouseAlwaysDecides ==
  ASSUME WholeSteps
  PROVE  Spec => []MouseDecides
<1>1. ScriptsInv => MouseDecides
  BY RangeHolds, LassoHolds DEF ScriptsInv, MouseDecides
<1> QED BY <1>1, ScriptsHold, PTL

(***************************************************************************)
(* The menu of a field with suggestions shows what the last search found,  *)
(* and the field says it is loading while an answer is awaited; a field    *)
(* that was left closes its menu and tells the page of a change, for any   *)
(* words, any suggestions and any row of keys, clicks and answers, the     *)
(* exceptions being those that the property names (the autocomplete of     *)
(* jquery-ui.js).                                                          *)
(***************************************************************************)
THEOREM FieldAndMenuAlwaysAgree == Spec => []FieldAndMenuAgree
<1>1. ScriptsInv => FieldAndMenuAgree
  BY FieldHolds DEF ScriptsInv, FieldAndMenuAgree
<1> QED BY <1>1, ScriptsHold, PTL

(***************************************************************************)
(* The tabs, the accordion and the dialogs of jquery-ui.js are consistent  *)
(* whenever they are at rest, for any number of tabs, headers and dialogs  *)
(* and any row of clicks, calls of the page, ends of animations and        *)
(* answers: the option, the highlighted tab and the visible panel name the *)
(* same tab, the one open panel is the active header's, and the overlays   *)
(* lie under the modal dialogs they belong to.  Each action is one step of *)
(* the event loop; the exceptions are those that the properties name.      *)
(***************************************************************************)
THEOREM WidgetsAlwaysRest == Spec => []WidgetsAtRest
<1>1. ScriptsInv => WidgetsAtRest
  BY TabsInvAgrees, AccordionInvAgrees, DialogsInvFits DEF ScriptsInv, WidgetsAtRest
<1> QED BY <1>1, ScriptsHold, PTL
=============================================================================
