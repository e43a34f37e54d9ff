--------------------------- MODULE Library_proofs ---------------------------
EXTENDS MCScripts, TLAPS, FiniteSetTheorems, SequenceTheorems

-----------------------------------------------------------------------------
(* Sets of numbers and lists.                                              *)

\* A set of indices that is not empty has a smallest one.
LEMMA LeastIndex ==
  ASSUME NEW n \in Nat, NEW places \in SUBSET (1..n), places # {}
  PROVE  Min(places) \in places /\ \A i \in places : Min(places) <= i
<1> DEFINE below == {1..i : i \in places}
<1>1. below \subseteq SUBSET (1..n) /\ below # {}
  <2>1. \A i \in places : 1..i \in SUBSET (1..n)
    OBVIOUS
  <2>2. PICK i \in places : TRUE
    OBVIOUS
  <2>3. 1..i \in below
    BY <2>2
  <2> QED BY <2>1, <2>3
<1>2. IsFiniteSet(1..n)
  <2>1. 1 \in Int /\ n \in Int
    OBVIOUS
  <2> QED BY <2>1, FS_Interval
<1>3. IsWellFoundedOn(StrictSubsetOrdering(1..n), SUBSET (1..n))
  BY <1>2, FS_StrictSubsetOrderingWellFounded, FS_FiniteSubsetsOfFinite
<1>4. PICK shortest \in below : \A u \in below : <<u, shortest>> \notin StrictSubsetOrdering(1..n)
  BY <1>1, <1>3, WFMin
<1>5. PICK m \in places : shortest = 1..m
  BY <1>4
<1>6. ASSUME NEW i \in places, i < m PROVE FALSE
  <2>1. 1..i \in below /\ 1..i \subseteq shortest /\ m \in shortest /\ m \notin 1..i
    BY <1>5, <1>6
  <2>2. <<1..i, shortest>> \in StrictSubsetOrdering(1..n)
    BY <1>1, <1>4, <2>1 DEF StrictSubsetOrdering
  <2> QED BY <1>4, <2>1, <2>2
<1>7. \A i \in places : m <= i
  BY <1>6
<1> QED BY <1>5, <1>7 DEF Min

\* What holds of 0 and is handed on from each number to the next holds up to n.
LEMMA StepByStep ==
  ASSUME NEW n \in Nat, NEW good, 0 \in good,
         ASSUME NEW i \in 0..n, i < n, i \in good PROVE i + 1 \in good
  PROVE  0..n \subseteq good
<1> DEFINE bad == {i \in 1..n : i \notin good}
<1> SUFFICES ASSUME bad # {} PROVE FALSE
  OBVIOUS
<1>1. Min(bad) \in bad /\ \A i \in bad : Min(bad) <= i
  BY LeastIndex
<1>2. Min(bad) - 1 \in 0..n /\ Min(bad) - 1 < n /\ Min(bad) - 1 \notin bad
  BY <1>1
<1>3. Min(bad) - 1 \in good
  BY <1>2
<1> QED BY <1>1, <1>2, <1>3

\* What splice leaves of a list.
LEMMA Removed ==
  ASSUME NEW S, NEW s \in Seq(S), NEW i \in 1..Len(s)
  PROVE  /\ RemoveAt(s, i) \in Seq(S)
         /\ Len(RemoveAt(s, i)) = Len(s) - 1
         /\ \A j \in 1..Len(s) - 1 : RemoveAt(s, i)[j] = IF j < i THEN s[j] ELSE s[j + 1]
<1> DEFINE a == SubSeq(s, 1, i - 1)
           b == SubSeq(s, i + 1, Len(s))
<1>1. a \in Seq(S) /\ Len(a) = i - 1 /\ \A j \in 1..i - 1 : a[j] = s[j]
  OBVIOUS
<1>2. b \in Seq(S) /\ Len(b) = Len(s) - i /\ \A j \in 1..Len(s) - i : b[j] = s[i + j]
  OBVIOUS
<1> HIDE DEF a, b
<1>3. a \o b \in Seq(S) /\ Len(a \o b) = Len(s) - 1
  <2>1. a \o b \in Seq(S) /\ Len(a \o b) = Len(a) + Len(b)
    BY <1>1, <1>2, ConcatProperties
  <2>2. Len(s) \in Nat
    OBVIOUS
  <2> QED BY <1>1, <1>2, <2>1, <2>2
<1> DEFINE c == a \o b
<1>4. \A k \in 1..Len(a) + Len(b) : c[k] = IF k <= Len(a) THEN a[k] ELSE b[k - Len(a)]
  BY <1>1, <1>2, ConcatProperties
<1> HIDE DEF c
<1>5. Len(s) \in Nat /\ i \in Int
  OBVIOUS
<1>6. \A j \in 1..Len(s) - 1 : c[j] = IF j < i THEN s[j] ELSE s[j + 1]
  <2> SUFFICES ASSUME NEW j \in 1..Len(s) - 1
               PROVE  c[j] = IF j < i THEN s[j] ELSE s[j + 1]
    OBVIOUS
  <2>1. CASE j < i
    <3>1. j \in 1..Len(a) + Len(b) /\ j <= Len(a) /\ j \in 1..i - 1
      BY <1>1, <1>2, <1>5, <2>1
    <3> QED BY <1>1, <1>4, <2>1, <3>1
  <2>2. CASE ~(j < i)
    <3>1. j \in 1..Len(a) + Len(b) /\ ~(j <= Len(a)) /\ j - Len(a) \in 1..Len(s) - i
      BY <1>1, <1>2, <1>5, <2>2
    <3>2. c[j] = b[j - Len(a)]
      BY <1>4, <3>1
    <3>3. b[j - Len(a)] = s[i + (j - Len(a))] /\ i + (j - Len(a)) = j + 1
      BY <1>1, <1>2, <1>5, <3>1
    <3> QED BY <2>2, <3>2, <3>3
  <2> QED BY <2>1, <2>2
<1> QED BY <1>3, <1>6 DEF RemoveAt, a, b, c

\* Of a list without doubles splice takes the element and no other.
LEMMA RemovedApart ==
  ASSUME NEW S, NEW s \in Seq(S), IsInjective(s), NEW i \in 1..Len(s)
  PROVE  IsInjective(RemoveAt(s, i)) /\ ToSet(RemoveAt(s, i)) = ToSet(s) \ {s[i]}
<1> DEFINE r == RemoveAt(s, i)
<1>1. /\ r \in Seq(S) /\ Len(r) = Len(s) - 1 /\ DOMAIN r = 1..Len(s) - 1 /\ DOMAIN s = 1..Len(s)
      /\ \A j \in 1..Len(s) - 1 : r[j] = IF j < i THEN s[j] ELSE s[j + 1]
  BY Removed
<1> HIDE DEF r
<1>2. \A j, k \in 1..Len(s) : s[j] = s[k] => j = k
  BY <1>1 DEF IsInjective
<1>3. IsInjective(r)
  BY <1>1, <1>2 DEF IsInjective
<1>4. ToSet(r) \subseteq ToSet(s) \ {s[i]}
  BY <1>1, <1>2 DEF ToSet
<1>5. ASSUME NEW x \in ToSet(s), x # s[i] PROVE x \in ToSet(r)
  <2>1. PICK j \in 1..Len(s) : s[j] = x
    BY <1>1 DEF ToSet
  <2>2. CASE j < i
    BY <1>1, <2>1, <2>2 DEF ToSet
  <2>3. CASE j > i
    <3>1. j - 1 \in 1..Len(s) - 1 /\ r[j - 1] = x
      BY <1>1, <2>1, <2>3
    <3> QED BY <1>1, <3>1 DEF ToSet
  <2> QED BY <1>5, <2>1, <2>2, <2>3
<1> QED BY <1>3, <1>4, <1>5 DEF r

LEMMA AppendedApart ==
  ASSUME NEW S, NEW s \in Seq(S), IsInjective(s), NEW e \in S, e \notin ToSet(s)
  PROVE  /\ Append(s, e) \in Seq(S) /\ IsInjective(Append(s, e))
         /\ ToSet(Append(s, e)) = ToSet(s) \cup {e}
<1> DEFINE r == Append(s, e)
<1>1. /\ r \in Seq(S) /\ Len(r) = Len(s) + 1 /\ DOMAIN r = 1..Len(s) + 1 /\ DOMAIN s = 1..Len(s)
      /\ \A j \in 1..Len(s) : r[j] = s[j]
      /\ r[Len(s) + 1] = e
  OBVIOUS
<1> HIDE DEF r
<1>2. Len(s) \in Nat /\ \A j \in 1..Len(s) : s[j] # e
  BY <1>1 DEF ToSet
<1>3. \A j, k \in 1..Len(s) : s[j] = s[k] => j = k
  BY <1>1 DEF IsInjective
<1>4. \A j \in 1..Len(s) + 1 : j \in 1..Len(s) \/ j = Len(s) + 1
  BY <1>2
<1>5. IsInjective(r)
  BY <1>1, <1>2, <1>3, <1>4 DEF IsInjective
<1>6. ToSet(r) = ToSet(s) \cup {e}
  <2>1. \A x \in ToSet(r) : x \in ToSet(s) \cup {e}
    BY <1>1, <1>4 DEF ToSet
  <2>2. \A x \in ToSet(s) : x \in ToSet(r)
    BY <1>1, <1>2 DEF ToSet
  <2>3. e \in ToSet(r)
    BY <1>1, <1>2 DEF ToSet
  <2> QED BY <2>1, <2>2, <2>3
<1> QED BY <1>1, <1>5, <1>6 DEF r

LEMMA HeadAndTail ==
  ASSUME NEW S, NEW s \in Seq(S), s # <<>>
  PROVE  /\ Head(s) \in S /\ Head(s) \in Range(s) /\ Tail(s) \in Seq(S)
         /\ Len(s) \in Nat \ {0} /\ Len(Tail(s)) = Len(s) - 1
         /\ Range(Tail(s)) \subseteq Range(s)
         /\ \A i \in 1..Len(s) - 1 : i + 1 \in 1..Len(s) /\ Tail(s)[i] = s[i + 1]
<1>1. /\ Len(s) \in Nat \ {0} /\ DOMAIN s = 1..Len(s) /\ Head(s) = s[1] /\ Head(s) \in S
      /\ Tail(s) \in Seq(S) /\ Len(Tail(s)) = Len(s) - 1 /\ DOMAIN Tail(s) = 1..Len(s) - 1
      /\ \A i \in 1..Len(s) - 1 : Tail(s)[i] = s[i + 1]
  OBVIOUS
<1>2. \A i \in 1..Len(s) - 1 : i + 1 \in 1..Len(s)
  BY <1>1
<1>3. 1 \in 1..Len(s)
  BY <1>1
<1>4. Head(s) \in Range(s)
  BY <1>1, <1>3 DEF Range
<1>5. Range(Tail(s)) \subseteq Range(s)
  BY <1>1, <1>2 DEF Range
<1> QED BY <1>1, <1>2, <1>4, <1>5

TailFits(s) ==
    /\ IsInjective(Tail(s)) /\ Head(s) \notin Range(Tail(s))

LEMMA TailApart ==
  ASSUME NEW S, NEW s \in Seq(S), s # <<>>, IsInjective(s)
  PROVE  TailFits(s)
<1>1. /\ Len(s) \in Nat \ {0} /\ DOMAIN s = 1..Len(s) /\ Head(s) = s[1]
      /\ DOMAIN Tail(s) = 1..Len(s) - 1 /\ \A i \in 1..Len(s) - 1 : Tail(s)[i] = s[i + 1]
  OBVIOUS
<1>2. \A i \in 1..Len(s) - 1 : i + 1 \in 1..Len(s) /\ i + 1 # 1
  BY <1>1
<1>3. \A i, j \in 1..Len(s) : s[i] = s[j] => i = j
  BY <1>1 DEF IsInjective
<1>4. 1 \in 1..Len(s)
  BY <1>1
<1>5. Head(s) \notin Range(Tail(s))
  BY <1>1, <1>2, <1>3, <1>4 DEF Range
<1>6. ASSUME NEW i \in 1..Len(s) - 1, NEW j \in 1..Len(s) - 1, Tail(s)[i] = Tail(s)[j] PROVE i = j
  <2>1. s[i + 1] = s[j + 1] /\ i + 1 \in 1..Len(s) /\ j + 1 \in 1..Len(s)
    BY <1>1, <1>2, <1>6
  <2>2. i + 1 = j + 1
    BY <1>3, <2>1
  <2> QED BY <2>2
<1>7. IsInjective(Tail(s))
  BY <1>1, <1>6 DEF IsInjective
<1> QED BY <1>5, <1>7 DEF TailFits

-----------------------------------------------------------------------------
(* The post form.                                                          *)

(***************************************************************************)
(* What FormHolds rests on: away from the text areas the buttons are on    *)
(* for something to send or for good, and what a select has made permanent *)
(* is on.                                                                  *)
(***************************************************************************)
OnForSomething == focus \notin Texts /\ on /\ ~permanent => ~IsEmpty(length, file)
PermanentIsOn  == permanent => on
FormInv == FormTypeOK /\ FormHolds /\ OnForSomething /\ PermanentIsOn

(* A key leaves a text no longer than the limit.                           *)
LEMMA TypedFits ==
  ASSUME NEW n \in 0..MaxLength, NEW by \in {-1, 1}
  PROVE  Min({Max({0, n + by}), Limit}) \in 0..MaxLength
<1>1. \A S \in {{a, b} : a, b \in Int} : Max(S) \in S /\ Min(S) \in S
  <2> SUFFICES ASSUME NEW a \in Int, NEW b \in Int
               PROVE  Max({a, b}) \in {a, b} /\ Min({a, b}) \in {a, b}
    OBVIOUS
  <2>1. \E x \in {a, b} : \A y \in {a, b} : x >= y
    OBVIOUS
  <2>2. \E x \in {a, b} : \A y \in {a, b} : x =< y
    OBVIOUS
  <2> QED BY <2>1, <2>2 DEF Max, Min
<1>2. Max({0, n + by}) \in {0, n + by} /\ Max({0, n + by}) >= 0
  <2>1. \E x \in {0, n + by} : \A y \in {0, n + by} : x >= y
    OBVIOUS
  <2> QED BY <2>1 DEF Max
<1> DEFINE typed == Max({0, n + by})
<1>3. typed \in Nat
  BY <1>2
<1> HIDE DEF typed
<1>4. Limit \in Nat /\ Limit < MaxLength /\ MaxLength \in Nat
  BY FormAssumption
<1>5. Min({typed, Limit}) \in {typed, Limit} /\ Min({typed, Limit}) =< Limit
  <2>1. \E x \in {typed, Limit} : \A y \in {typed, Limit} : x =< y
    BY <1>3, <1>4
  <2> QED BY <2>1 DEF Min
<1> QED BY <1>3, <1>4, <1>5 DEF typed

LEMMA FormStarts == FormInit => FormInv
<1> SUFFICES ASSUME FormInit PROVE FormInv
  OBVIOUS
<1>1. MaxLength \in Nat /\ MaxLength > 1 /\ MaxFormEvents \in Nat
  BY FormAssumption
<1>2. length \in [Texts -> 0..MaxLength] /\ sizedFor \in [Texts -> -1..MaxLength]
  BY <1>1 DEF FormInit
<1>a. on \in BOOLEAN
  BY DEF FormInit, IsEmpty
<1>b. default \in [Texts -> 0..MaxLength]
  BY <1>2 DEF FormInit
<1>3. focus \in FormPlaces /\ box \in Texts \cup {"none"} /\ events \in 0..MaxFormEvents
  BY <1>1 DEF FormInit, FormPlaces
<1>c. file \in BOOLEAN /\ chosen \in BOOLEAN /\ permanent \in BOOLEAN /\ fading \in BOOLEAN
      /\ submitted \in BOOLEAN
  BY DEF FormInit
<1>5. FormTypeOK
  BY <1>2, <1>3, <1>a, <1>b, <1>c DEF FormTypeOK
<1>4. FormHolds /\ OnForSomething /\ PermanentIsOn
  BY DEF FormInit, FormHolds, DraftCanBeSent, BoxGoes, OnForSomething, PermanentIsOn
<1> QED BY <1>4, <1>5 DEF FormInv

LEMMA FormSteps == FormInv /\ [FormNext]_formVars => FormInv'
<1> SUFFICES ASSUME FormInv, [FormNext]_formVars PROVE FormInv'
  OBVIOUS
<1> USE DEF FormInv, FormTypeOK, FormHolds, DraftCanBeSent, BoxGoes, OnForSomething,
            PermanentIsOn, IsEmpty, FormEvent
<1>0. MaxLength \in Nat /\ MaxFormEvents \in Nat
  BY FormAssumption
<1>1. ASSUME NEW to \in FormPlaces, MoveFocus(to) PROVE FormInv'
  <2>1. sizedFor' \in [Texts -> -1..MaxLength]
    BY <1>0, <1>1 DEF MoveFocus
  <2>a. on' \in BOOLEAN
    BY <1>1 DEF MoveFocus, check_toggle
  <2>b. fading' \in BOOLEAN
    BY <1>1 DEF MoveFocus
  <2>c. events' \in 0..MaxFormEvents
    BY <1>0, <1>1 DEF MoveFocus
  <2>2. on' \in BOOLEAN /\ fading' \in BOOLEAN /\ events' \in 0..MaxFormEvents
    BY <2>a, <2>b, <2>c
  <2>3. FormTypeOK'
    BY <1>0, <1>1, <2>1, <2>2 DEF MoveFocus
  <2>4. BoxGoes'
    BY <1>1 DEF MoveFocus
  <2>5. DraftCanBeSent' /\ OnForSomething' /\ PermanentIsOn'
    BY <1>1 DEF MoveFocus, check_toggle
  <2> QED BY <2>3, <2>4, <2>5
<1>2. ASSUME NEW by \in {-1, 1}, Key(by) PROVE FormInv'
  <2>1. focus \in Texts /\ length[focus] \in 0..MaxLength
    BY <1>2 DEF Key
  <2>2. Min({Max({0, length[focus] + by}), Limit}) \in 0..MaxLength
    BY <2>1, TypedFits
  <2> QED BY <1>0, <1>2, <2>1, <2>2 DEF Key
<1>3. ASSUME NEW n \in 0..MaxLength, Paste(n) PROVE FormInv'
  BY <1>0, <1>3 DEF Paste
<1>4. ASSUME NEW f \in BOOLEAN, ChooseFile(f) PROVE FormInv'
  <2>1. FormTypeOK'
    BY <1>0, <1>4 DEF ChooseFile, check_toggle
  <2>2. DraftCanBeSent' /\ BoxGoes' /\ OnForSomething' /\ PermanentIsOn'
    BY <1>4 DEF ChooseFile, check_toggle
  <2> QED BY <2>1, <2>2
<1>5. ASSUME NEW c \in BOOLEAN, ChangeSelect(c) PROVE FormInv'
  BY <1>0, <1>5 DEF ChangeSelect
<1>6. CASE BoxFades
  BY <1>6 DEF BoxFades
<1>7. CASE Clear
  <2>a. events' \in 0..MaxFormEvents
    BY <1>0, <1>7 DEF Clear
  <2>b. length' \in [Texts -> 0..MaxLength] /\ default' = default
    BY <1>7 DEF Clear
  <2>1. FormTypeOK'
    BY <1>7, <2>a, <2>b DEF Clear
  <2>2. DraftCanBeSent'
    BY <1>7 DEF Clear
  <2>3. BoxGoes'
    BY <1>7 DEF Clear
  <2>4. OnForSomething' /\ PermanentIsOn'
    BY <1>7 DEF Clear
  <2> QED BY <2>1, <2>2, <2>3, <2>4
<1>8. CASE Submit
  BY <1>0, <1>8 DEF Submit
<1>9. CASE UNCHANGED formVars
  BY <1>9 DEF formVars
<1> QED BY <1>1, <1>2, <1>3, <1>4, <1>5, <1>6, <1>7, <1>8, <1>9 DEF FormNext

-----------------------------------------------------------------------------
(* The requests of jQuery.ajax.                                            *)

NetRecord ==
    [begun : SUBSET Requests, xhr : SUBSET Requests, done : SUBSET Requests,
     timeouts : SUBSET Timed, jsonp : SUBSET Jsonp, active : Int, announced : Int,
     succeeded : [Requests -> Nat], failed : [Requests -> Nat],
     completed : [Requests -> Nat]]

\* The requests that have not completed.
OpenRequests(s) == {r \in s.begun : s.completed[r] = 0}

(***************************************************************************)
(* jQuery.active counts the open requests, and the page was told whether   *)
(* there are any, until a request that could not be sent completes again.  *)
(***************************************************************************)
ActiveCounts(s, R) ==
    (\A r \in R : s.completed[r] = 1) =>
        /\ s.active = Cardinality(OpenRequests(s))
        /\ s.announced = IF s.active = 0 THEN 0 ELSE 1

\* A request that is not done has answered nobody; one that is has done so once.
CallsOnce(s, R) ==
    \A r \in Requests \ R :
        /\ s.completed[r] <= 1 /\ s.succeeded[r] + s.failed[r] <= 1
        /\ r \notin s.done => s.completed[r] = 0 /\ s.succeeded[r] + s.failed[r] = 0

NetGood(s, R) ==
    /\ s \in NetRecord
    /\ s.xhr \subseteq s.begun /\ s.done \subseteq s.begun /\ R \subseteq s.begun
    /\ IsFiniteSet(s.begun)
    /\ \A r \in R : s.completed[r] >= 1
    /\ CallsOnce(s, R)
    /\ ActiveCounts(s, R)

\* A request never completes less often than it did.
NetGrows(s, t) == \A q \in Requests : t.completed[q] >= s.completed[q]

AjaxInv == NetGood(net, raised)

(***************************************************************************)
(* What the callbacks of a request do to the record: t comes after s, the  *)
(* request r has completed once more, while the requests then begin, or    *)
(* not at all.                                                             *)
(***************************************************************************)
Calls(s, t, r, then) ==
    /\ t \in NetRecord
    /\ t.begun = s.begun \cup then /\ t.xhr \subseteq s.xhr \cup then
    /\ s.done \subseteq t.done /\ t.done \subseteq s.done \cup {r}
    /\ t.succeeded[r] + t.failed[r] <= s.succeeded[r] + s.failed[r] + 1
    /\ \A q \in Requests \ {r} :
         t.succeeded[q] = s.succeeded[q] /\ t.failed[q] = s.failed[q]
           /\ t.completed[q] = s.completed[q]
    /\ \/ /\ t.completed[r] = s.completed[r] /\ then = {}
          /\ t.active = s.active /\ t.announced = s.announced
       \/ /\ t.completed[r] = s.completed[r] + 1
          /\ then = {}
          /\ t.active = s.active - 1
          /\ t.announced = IF s.active = 1 THEN s.announced - 1 ELSE s.announced
       \/ /\ t.completed[r] = s.completed[r] + 1
          /\ \E q : then = {q} /\ q \notin s.begun
          /\ t.active = s.active
          /\ t.announced = IF s.active = 0 THEN s.announced + 1 - 1 ELSE s.announced

\* What ends it: the request is done as well.
NetEnds(s, t, r, then) == Calls(s, t, r, then) /\ t.done = s.done \cup {r}

\* What comes before it completes.
Settles(s, u, r) ==
    /\ s \in NetRecord /\ u \in NetRecord
    /\ u.begun = s.begun /\ u.xhr = s.xhr
    /\ s.done \subseteq u.done /\ u.done \subseteq s.done \cup {r}
    /\ u.completed = s.completed /\ u.active = s.active /\ u.announced = s.announced
    /\ u.succeeded[r] + u.failed[r] <= s.succeeded[r] + s.failed[r] + 1
    /\ \A q \in Requests \ {r} :
         u.succeeded[q] = s.succeeded[q] /\ u.failed[q] = s.failed[q]

\* Nothing but the two counters changes.
LEMMA CountersOnly ==
  ASSUME NEW s \in NetRecord, NEW a \in Int, NEW b \in Int
  PROVE  [s EXCEPT !.active = a, !.announced = b] \in NetRecord
  BY DEF NetRecord

LEMMA BeganFields ==
  ASSUME NEW s \in NetRecord, NEW r \in Requests
  PROVE  LET t == Began(s, r) IN
         /\ t \in NetRecord
         /\ t.begun = s.begun \cup {r} /\ t.xhr \subseteq s.xhr \cup {r} /\ t.done = s.done
         /\ t.succeeded = s.succeeded /\ t.failed = s.failed /\ t.completed = s.completed
         /\ t.active = s.active + 1
         /\ t.announced = IF s.active = 0 THEN s.announced + 1 ELSE s.announced
<1> DEFINE u == ActivityStarted(s)
           t == Began(s, r)
<1>0. s.active \in Int /\ s.announced \in Int
  BY DEF NetRecord
<1>a. u \in NetRecord
  <2> DEFINE b == IF s.active = 0 THEN s.announced + 1 ELSE s.announced
  <2>1. b \in Int /\ s.active + 1 \in Int
    BY <1>0
  <2>2. u = [s EXCEPT !.active = s.active + 1, !.announced = b]
    BY DEF ActivityStarted
  <2> HIDE DEF b, u
  <2> QED BY <2>1, <2>2, CountersOnly
<1>1. /\ u \in NetRecord /\ u.begun = s.begun /\ u.xhr = s.xhr /\ u.done = s.done
      /\ u.succeeded = s.succeeded /\ u.failed = s.failed /\ u.completed = s.completed
      /\ u.active = s.active + 1
      /\ u.announced = IF s.active = 0 THEN s.announced + 1 ELSE s.announced
  <2>1. /\ u.begun = s.begun /\ u.xhr = s.xhr /\ u.done = s.done
        /\ u.succeeded = s.succeeded /\ u.failed = s.failed /\ u.completed = s.completed
    BY DEF ActivityStarted, NetRecord
  <2>2. u.active = s.active + 1
    BY DEF ActivityStarted, NetRecord
  <2>3. u.announced = IF s.active = 0 THEN s.announced + 1 ELSE s.announced
    BY DEF ActivityStarted, NetRecord
  <2> QED BY <1>a, <2>1, <2>2, <2>3
<1>2. t = [u EXCEPT !.begun = @ \cup {r},
             !.xhr = IF r \in Remote THEN @ ELSE @ \cup {r},
             !.timeouts = IF r \in Timed \ Remote THEN @ \cup {r} ELSE @,
             !.jsonp = IF r \in Jsonp THEN @ \cup {r} ELSE @]
  BY DEF Began
<1> HIDE DEF u, t
<1>3. t \in NetRecord
  BY <1>1, <1>2 DEF NetRecord
<1>4. /\ t.begun = u.begun \cup {r} /\ t.xhr \subseteq u.xhr \cup {r} /\ t.done = u.done
      /\ t.succeeded = u.succeeded /\ t.failed = u.failed /\ t.completed = u.completed
      /\ t.active = u.active /\ t.announced = u.announced
  BY <1>1, <1>2 DEF NetRecord
<1>5. /\ t.begun = s.begun \cup {r} /\ t.xhr \subseteq s.xhr \cup {r} /\ t.done = s.done
      /\ t.succeeded = s.succeeded /\ t.failed = s.failed /\ t.completed = s.completed
      /\ t.active = s.active + 1
      /\ t.announced = IF s.active = 0 THEN s.announced + 1 ELSE s.announced
  BY <1>1, <1>4
<1> QED BY <1>3, <1>5 DEF t

\* A request the page may begin while another one completes.
LEMMA ThenIsNew ==
  ASSUME NEW s \in NetRecord, NEW then \in Then(s)
  PROVE  then = {} \/ \E q \in Requests : q \notin s.begun /\ then = {q}
  BY DEF Then

LEMMA StoppedFields ==
  ASSUME NEW s \in NetRecord
  PROVE  LET t == ActivityStopped(s) IN
         /\ t \in NetRecord /\ t.begun = s.begun /\ t.xhr = s.xhr /\ t.done = s.done
         /\ t.succeeded = s.succeeded /\ t.failed = s.failed /\ t.completed = s.completed
         /\ t.active = s.active - 1
         /\ t.announced = IF s.active = 1 THEN s.announced - 1 ELSE s.announced
<1> DEFINE t == ActivityStopped(s)
<1>1. s.active \in Int /\ s.announced \in Int
  BY DEF NetRecord
<1>2. t \in NetRecord
  <2> DEFINE b == IF s.active = 1 THEN s.announced - 1 ELSE s.announced
  <2>1. b \in Int /\ s.active - 1 \in Int
    BY <1>1
  <2>2. t = [s EXCEPT !.active = s.active - 1, !.announced = b]
    BY DEF ActivityStopped
  <2> HIDE DEF b, t
  <2> QED BY <2>1, <2>2, CountersOnly
<1>3. /\ t.begun = s.begun /\ t.xhr = s.xhr /\ t.done = s.done
      /\ t.succeeded = s.succeeded /\ t.failed = s.failed /\ t.completed = s.completed
  BY DEF ActivityStopped, NetRecord
<1>4. t.active = s.active - 1
  BY DEF ActivityStopped, NetRecord
<1>5. t.announced = IF s.active = 1 THEN s.announced - 1 ELSE s.announced
  BY DEF ActivityStopped, NetRecord
<1> QED BY <1>2, <1>3, <1>4, <1>5

LEMMA CountedFields ==
  ASSUME NEW s \in NetRecord, NEW r \in Requests
  PROVE  LET t == [s EXCEPT !.completed[r] = @ + 1] IN
         /\ t \in NetRecord /\ t.begun = s.begun /\ t.xhr = s.xhr /\ t.done = s.done
         /\ t.succeeded = s.succeeded /\ t.failed = s.failed
         /\ t.completed[r] = s.completed[r] + 1
         /\ \A q \in Requests \ {r} : t.completed[q] = s.completed[q]
         /\ t.active = s.active /\ t.announced = s.announced
  BY DEF NetRecord

\* handleComplete counts the request and begins the one that follows it.
LEMMA CompleteFields ==
  ASSUME NEW s \in NetRecord, NEW r \in Requests, NEW then,
         then = {} \/ \E q \in Requests : q \notin s.begun /\ then = {q}
  PROVE  LET t == handleComplete(s, r, then) IN
         /\ t \in NetRecord
         /\ t.begun = s.begun \cup then /\ t.xhr \subseteq s.xhr \cup then /\ t.done = s.done
         /\ t.succeeded = s.succeeded /\ t.failed = s.failed
         /\ t.completed[r] = s.completed[r] + 1
         /\ \A q \in Requests \ {r} : t.completed[q] = s.completed[q]
         /\ \/ /\ then = {}
               /\ t.active = s.active - 1
               /\ t.announced = IF s.active = 1 THEN s.announced - 1 ELSE s.announced
            \/ /\ \E q : then = {q} /\ q \notin s.begun
               /\ t.active = s.active
               /\ t.announced = IF s.active = 0 THEN s.announced + 1 - 1 ELSE s.announced
<1> DEFINE c == [s EXCEPT !.completed[r] = @ + 1]
           t == handleComplete(s, r, then)
<1>1. /\ c \in NetRecord /\ c.begun = s.begun /\ c.xhr = s.xhr /\ c.done = s.done
      /\ c.succeeded = s.succeeded /\ c.failed = s.failed
      /\ c.completed[r] = s.completed[r] + 1
      /\ \A q \in Requests \ {r} : c.completed[q] = s.completed[q]
      /\ c.active = s.active /\ c.announced = s.announced
  BY CountedFields
<1>2. t = ActivityStopped(IF then = {} THEN c ELSE Began(c, CHOOSE q \in then : TRUE))
  BY DEF handleComplete
<1>0. s.active \in Int /\ s.announced \in Int
  BY DEF NetRecord
<1> HIDE DEF c, t
<1>3. CASE then = {}
  <2>1. t = ActivityStopped(c)
    BY <1>2, <1>3
  <2> QED BY <1>1, <1>3, <2>1, StoppedFields DEF t
<1>4. CASE then # {}
  <2>1. PICK q \in Requests : q \notin s.begun /\ then = {q}
    BY <1>4
  <2> DEFINE b == Began(c, q)
  <2>2. t = ActivityStopped(b)
    BY <1>2, <2>1
  <2>3. /\ b \in NetRecord
        /\ b.begun = c.begun \cup {q} /\ b.xhr \subseteq c.xhr \cup {q} /\ b.done = c.done
        /\ b.succeeded = c.succeeded /\ b.failed = c.failed /\ b.completed = c.completed
        /\ b.active = c.active + 1
        /\ b.announced = IF c.active = 0 THEN c.announced + 1 ELSE c.announced
    BY <1>1, BeganFields
  <2> HIDE DEF b
  <2>4. /\ t \in NetRecord /\ t.begun = b.begun /\ t.xhr = b.xhr /\ t.done = b.done
        /\ t.succeeded = b.succeeded /\ t.failed = b.failed /\ t.completed = b.completed
        /\ t.active = b.active - 1
        /\ t.announced = IF b.active = 1 THEN b.announced - 1 ELSE b.announced
    BY <2>2, <2>3, StoppedFields
  <2>5. /\ t.active = s.active
        /\ t.announced = IF s.active = 0 THEN s.announced + 1 - 1 ELSE s.announced
    BY <1>0, <1>1, <2>3, <2>4
  <2> QED BY <1>1, <2>1, <2>3, <2>4, <2>5 DEF t
<1> QED BY <1>3, <1>4

\* Whatever ends a request that is not done leaves the record good.
LEMMA EndsWell ==
  ASSUME NEW s, NEW R, NetGood(s, R), NEW r \in s.begun \ s.done, NEW t, NEW then,
         NetEnds(s, t, r, then)
  PROVE  NetGood(t, R) /\ NetGrows(s, t)
<1> USE DEF NetGood
<1>0. /\ s \in NetRecord /\ t \in NetRecord /\ r \in Requests /\ r \in s.begun
      /\ t.begun = s.begun \cup then /\ t.done = s.done \cup {r}
      /\ then = {} \/ \E q : then = {q} /\ q \notin s.begun
      /\ R \subseteq s.begun /\ s.begun \subseteq Requests
  BY DEF NetEnds, Calls, NetRecord
<1>1. /\ s.completed \in [Requests -> Nat] /\ t.completed \in [Requests -> Nat]
      /\ s.succeeded \in [Requests -> Nat] /\ t.succeeded \in [Requests -> Nat]
      /\ s.failed \in [Requests -> Nat] /\ t.failed \in [Requests -> Nat]
      /\ s.active \in Int /\ s.announced \in Int /\ t.active \in Int
  BY <1>0 DEF NetRecord
<1>2. t.xhr \subseteq t.begun /\ t.done \subseteq t.begun /\ R \subseteq t.begun
  BY <1>0 DEF NetEnds, Calls
<1>3. IsFiniteSet(t.begun)
  <2>1. CASE then = {}
    BY <1>0, <2>1
  <2>2. CASE then # {}
    BY <1>0, <2>2, FS_AddElement
  <2> QED BY <2>1, <2>2
<1>4. /\ \A q \in Requests \ {r} : t.completed[q] = s.completed[q]
      /\ t.completed[r] \in {s.completed[r], s.completed[r] + 1}
  BY DEF NetEnds, Calls
<1>8. \/ /\ t.completed[r] = s.completed[r] /\ then = {}
         /\ t.active = s.active /\ t.announced = s.announced
      \/ /\ t.completed[r] = s.completed[r] + 1
         /\ then = {}
         /\ t.active = s.active - 1
         /\ t.announced = IF s.active = 1 THEN s.announced - 1 ELSE s.announced
      \/ /\ t.completed[r] = s.completed[r] + 1
         /\ \E q : then = {q} /\ q \notin s.begun
         /\ t.active = s.active
         /\ t.announced = IF s.active = 0 THEN s.announced + 1 - 1 ELSE s.announced
  BY Zenon DEF NetEnds, Calls
<1>9. s.completed[r] \in Nat
  BY <1>0, <1>1
<1>5. \A q \in R : t.completed[q] >= 1
  BY <1>0, <1>1, <1>4
<1>6. CallsOnce(t, R)
  <2> SUFFICES ASSUME NEW q \in Requests \ R
               PROVE  /\ t.completed[q] <= 1 /\ t.succeeded[q] + t.failed[q] <= 1
                      /\ q \notin t.done => t.completed[q] = 0
                                            /\ t.succeeded[q] + t.failed[q] = 0
    BY DEF CallsOnce
  <2>1. CASE q = r
    BY <1>0, <1>1, <1>4, <2>1 DEF NetEnds, Calls, CallsOnce
  <2>2. CASE q # r
    BY <1>0, <2>2 DEF NetEnds, Calls, CallsOnce
  <2> QED BY <2>1, <2>2
<1>7. ActiveCounts(t, R)
  <2> SUFFICES ASSUME \A q \in R : t.completed[q] = 1
               PROVE  /\ t.active = Cardinality(OpenRequests(t))
                      /\ t.announced = IF t.active = 0 THEN 0 ELSE 1
    BY DEF ActiveCounts
  <2>1. \A q \in R : s.completed[q] = 1
    BY <1>0, <1>1, <1>4
  <2> DEFINE A == OpenRequests(s)
             B == OpenRequests(t)
  <2>2. s.active = Cardinality(A) /\ s.announced = IF s.active = 0 THEN 0 ELSE 1
    BY <2>1 DEF ActiveCounts
  <2>3. IsFiniteSet(A) /\ Cardinality(A) \in Nat
    BY FS_Subset, FS_CardinalityType DEF OpenRequests
  <2>4. CASE t.completed[r] = s.completed[r]
    <3>1. then = {} /\ t.active = s.active /\ t.announced = s.announced
      BY <1>8, <1>9, <2>4
    <3>2. B = A
      BY <1>0, <1>4, <2>4, <3>1 DEF OpenRequests
    <3> QED BY <2>2, <3>1, <3>2
  <2>5. CASE t.completed[r] = s.completed[r] + 1
    <3>1. r \notin R
      BY <1>0, <1>1, <2>1, <2>5
    <3>2. s.completed[r] = 0
      BY <1>0, <3>1 DEF CallsOnce
    <3>3. r \in A
      BY <1>0, <3>2 DEF OpenRequests
    <3>4. Cardinality(A) >= 1 /\ IsFiniteSet(A \ {r})
          /\ Cardinality(A \ {r}) = Cardinality(A) - 1
      <4>1. Cardinality(A) # 0
        BY <2>3, <3>3, FS_EmptySet
      <4> QED BY <2>3, <3>3, <4>1, FS_RemoveElement
    <3>5. CASE then = {}
      <4>1. B = A \ {r}
        BY <1>0, <1>1, <1>4, <2>5, <3>2, <3>5 DEF OpenRequests
      <4>2. /\ t.active = s.active - 1
            /\ t.announced = IF s.active = 1 THEN s.announced - 1 ELSE s.announced
        BY <1>8, <1>9, <2>5, <3>5
      <4> HIDE DEF A, B
      <4>3. t.active = Cardinality(B) /\ t.announced = IF t.active = 0 THEN 0 ELSE 1
        BY <1>1, <2>2, <2>3, <3>4, <4>1, <4>2
      <4> QED BY <4>3 DEF B
    <3>6. CASE then # {}
      <4>1. PICK q : then = {q} /\ q \notin s.begun
        BY <1>0, <3>6
      <4>2. q \in Requests /\ q \notin R /\ q # r
        BY <1>0, <4>1 DEF NetRecord
      <4>3. t.completed[q] = 0
        BY <1>0, <1>4, <4>1, <4>2 DEF CallsOnce
      <4>4. B = (A \ {r}) \cup {q} /\ q \notin A
        BY <1>0, <1>1, <1>4, <2>5, <3>2, <4>1, <4>2, <4>3 DEF OpenRequests
      <4>5. /\ t.active = s.active
            /\ t.announced = IF s.active = 0 THEN s.announced + 1 - 1 ELSE s.announced
        BY <1>8, <1>9, <2>5, <3>6
      <4> HIDE DEF A, B
      <4>6. Cardinality(B) = Cardinality(A \ {r}) + 1
        BY <3>4, <4>4, FS_AddElement
      <4>7. t.active = Cardinality(B) /\ t.announced = IF t.active = 0 THEN 0 ELSE 1
        BY <1>1, <2>2, <2>3, <3>4, <4>5, <4>6
      <4> QED BY <4>7 DEF B
    <3> QED BY <3>5, <3>6
  <2> QED BY <1>4, <2>4, <2>5
<1>10. NetGrows(s, t)
  BY <1>1, <1>4 DEF NetGrows
<1> QED BY <1>0, <1>2, <1>3, <1>5, <1>6, <1>7, <1>10

LEMMA DoneFields ==
  ASSUME NEW s \in NetRecord, NEW r \in s.begun
  PROVE  LET t == [s EXCEPT !.done = @ \cup {r}] IN
         /\ t \in NetRecord /\ t.begun = s.begun /\ t.xhr = s.xhr /\ t.done = s.done \cup {r}
         /\ t.succeeded = s.succeeded /\ t.failed = s.failed /\ t.completed = s.completed
         /\ t.active = s.active /\ t.announced = s.announced
  BY DEF NetRecord

LEMMA XhrFields ==
  ASSUME NEW s \in NetRecord, NEW r
  PROVE  LET t == [s EXCEPT !.xhr = @ \ {r}] IN
         /\ t \in NetRecord /\ t.begun = s.begun /\ t.xhr \subseteq s.xhr /\ t.done = s.done
         /\ t.succeeded = s.succeeded /\ t.failed = s.failed /\ t.completed = s.completed
         /\ t.active = s.active /\ t.announced = s.announced
  BY DEF NetRecord

LEMMA JsonpFields ==
  ASSUME NEW s \in NetRecord, NEW r
  PROVE  LET t == [s EXCEPT !.jsonp = @ \ {r}] IN
         /\ t \in NetRecord /\ t.begun = s.begun /\ t.xhr = s.xhr /\ t.done = s.done
         /\ t.succeeded = s.succeeded /\ t.failed = s.failed /\ t.completed = s.completed
         /\ t.active = s.active /\ t.announced = s.announced
  BY DEF NetRecord

LEMMA CallbackFields ==
  ASSUME NEW s \in NetRecord, NEW r \in Requests, NEW t,
         t \in {handleSuccess(s, r), handleError(s, r)}
  PROVE  /\ t \in NetRecord /\ t.begun = s.begun /\ t.xhr = s.xhr /\ t.done = s.done
         /\ t.completed = s.completed /\ t.active = s.active /\ t.announced = s.announced
         /\ t.succeeded[r] + t.failed[r] = s.succeeded[r] + s.failed[r] + 1
         /\ \A q \in Requests \ {r} :
              t.succeeded[q] = s.succeeded[q] /\ t.failed[q] = s.failed[q]
<1>1. CASE t = handleSuccess(s, r)
  <2>1. t \in NetRecord
    BY <1>1 DEF handleSuccess, NetRecord
  <2> QED BY <1>1, <2>1 DEF handleSuccess, NetRecord
<1>2. CASE t = handleError(s, r)
  <2>1. t \in NetRecord
    BY <1>2 DEF handleError, NetRecord
  <2> QED BY <1>2, <2>1 DEF handleError, NetRecord
<1> QED BY <1>1, <1>2

\* A request that was marked may stay as it is, or complete.
LEMMA MarksCall ==
  ASSUME NEW s, NEW u, NEW r \in Requests, Settles(s, u, r), NEW then,
         then = {} \/ \E q \in Requests : q \notin s.begun /\ then = {q}
  PROVE  Calls(s, u, r, {}) /\ Calls(s, handleComplete(u, r, then), r, then)
<1>1. Calls(s, u, r, {})
  BY DEF Settles, Calls
<1> DEFINE t == handleComplete(u, r, then)
<1>2. /\ t \in NetRecord
      /\ t.begun = u.begun \cup then /\ t.xhr \subseteq u.xhr \cup then /\ t.done = u.done
      /\ t.succeeded = u.succeeded /\ t.failed = u.failed
      /\ t.completed[r] = u.completed[r] + 1
      /\ \A q \in Requests \ {r} : t.completed[q] = u.completed[q]
      /\ \/ /\ then = {}
            /\ t.active = u.active - 1
            /\ t.announced = IF u.active = 1 THEN u.announced - 1 ELSE u.announced
         \/ /\ \E q : then = {q} /\ q \notin u.begun
            /\ t.active = u.active
            /\ t.announced = IF u.active = 0 THEN u.announced + 1 - 1 ELSE u.announced
  BY CompleteFields DEF Settles
<1> HIDE DEF t
<1>3. Calls(s, t, r, then)
  BY <1>2 DEF Settles, Calls
<1> QED BY <1>1, <1>3 DEF t

\* The changes of the closure's own variables.
LEMMA CallsThenDone ==
  ASSUME NEW s \in NetRecord, NEW t, NEW r \in s.begun, NEW then, Calls(s, t, r, then)
  PROVE  NetEnds(s, [t EXCEPT !.done = @ \cup {r}], r, then)
<1> DEFINE v == [t EXCEPT !.done = @ \cup {r}]
<1>1. t \in NetRecord /\ r \in t.begun
  BY DEF Calls
<1>2. /\ v \in NetRecord /\ v.begun = t.begun /\ v.xhr = t.xhr /\ v.done = t.done \cup {r}
      /\ v.succeeded = t.succeeded /\ v.failed = t.failed /\ v.completed = t.completed
      /\ v.active = t.active /\ v.announced = t.announced
  BY <1>1, DoneFields
<1> HIDE DEF v
<1>3. Calls(s, v, r, then) /\ v.done = s.done \cup {r}
  BY <1>2 DEF Calls
<1> QED BY <1>3 DEF v, NetEnds

LEMMA EndsThenNull ==
  ASSUME NEW s, NEW t, NEW r, NEW then, NetEnds(s, t, r, then)
  PROVE  NetEnds(s, [t EXCEPT !.xhr = @ \ {r}], r, then)
<1> DEFINE v == [t EXCEPT !.xhr = @ \ {r}]
<1>1. t \in NetRecord
  BY DEF NetEnds, Calls
<1>2. /\ v \in NetRecord /\ v.begun = t.begun /\ v.xhr \subseteq t.xhr /\ v.done = t.done
      /\ v.succeeded = t.succeeded /\ v.failed = t.failed /\ v.completed = t.completed
      /\ v.active = t.active /\ v.announced = t.announced
  BY <1>1, XhrFields
<1> HIDE DEF v
<1>3. NetEnds(s, v, r, then)
  BY <1>2 DEF NetEnds, Calls
<1> QED BY <1>3 DEF v

NewThen(s, then) == then = {} \/ \E q \in Requests : q \notin s.begun /\ then = {q}

LEMMA TransferEnds ==
  ASSUME NEW s \in NetRecord, NEW r \in s.begun, NEW ok \in BOOLEAN, NEW raises \in BOOLEAN,
         NEW then, NewThen(s, then)
  PROVE  \E th : NetEnds(s, Transferred(s, r, ok, raises, then), r, th)
<1> DEFINE ended == [s EXCEPT !.done = @ \cup {r}]
           answered == IF ~ok THEN handleError(ended, r)
                     ELSE IF r \in Jsonp THEN ended ELSE handleSuccess(ended, r)
           t == Transferred(s, r, ok, raises, then)
<1>0. r \in Requests
  BY DEF NetRecord
<1>1. /\ ended \in NetRecord /\ ended.begun = s.begun /\ ended.xhr = s.xhr
      /\ ended.done = s.done \cup {r}
      /\ ended.succeeded = s.succeeded /\ ended.failed = s.failed
      /\ ended.completed = s.completed
      /\ ended.active = s.active /\ ended.announced = s.announced
  BY DoneFields
<1>2. s.succeeded[r] \in Nat /\ s.failed[r] \in Nat
  BY <1>0 DEF NetRecord
<1>3. t = IF raises THEN answered
          ELSE [(IF r \in Jsonp THEN answered ELSE handleComplete(answered, r, then))
                  EXCEPT !.xhr = @ \ {r}]
  BY DEF Transferred
<1> HIDE DEF ended, t
<1>4. Settles(s, answered, r)
  <2>1. CASE answered = ended
    BY <1>1, <1>2, <2>1 DEF Settles
  <2>2. CASE answered \in {handleSuccess(ended, r), handleError(ended, r)}
    <3> DEFINE u == answered
    <3>1. /\ u \in NetRecord /\ u.begun = ended.begun /\ u.xhr = ended.xhr
          /\ u.done = ended.done /\ u.completed = ended.completed
          /\ u.active = ended.active /\ u.announced = ended.announced
          /\ u.succeeded[r] + u.failed[r] = ended.succeeded[r] + ended.failed[r] + 1
          /\ \A q \in Requests \ {r} :
               u.succeeded[q] = ended.succeeded[q] /\ u.failed[q] = ended.failed[q]
      BY <1>0, <1>1, <2>2, CallbackFields
    <3> HIDE DEF answered
    <3> QED BY <1>1, <1>2, <3>1 DEF Settles
  <2> QED BY <2>1, <2>2
<1>5. answered.done = s.done \cup {r}
  <2>1. answered.done = ended.done
    BY <1>0, <1>1, CallbackFields
  <2> QED BY <1>1, <2>1
<1> HIDE DEF answered
<1>6. Calls(s, answered, r, {}) /\ Calls(s, handleComplete(answered, r, then), r, then)
  BY <1>0, <1>4, MarksCall DEF NewThen
<1>7. handleComplete(answered, r, then).done = answered.done
  BY <1>0, <1>4, CompleteFields DEF Settles, NewThen
<1>8. NetEnds(s, answered, r, {}) /\ NetEnds(s, handleComplete(answered, r, then), r, then)
  BY <1>5, <1>6, <1>7 DEF NetEnds
<1>9. /\ NetEnds(s, [answered EXCEPT !.xhr = @ \ {r}], r, {})
      /\ NetEnds(s, [handleComplete(answered, r, then) EXCEPT !.xhr = @ \ {r}], r, then)
  BY <1>8, EndsThenNull
<1> QED BY <1>3, <1>8, <1>9 DEF t

\* A successful completion: of a script without a function, or by one.
LEMMA SuccessCalls ==
  ASSUME NEW s \in NetRecord, NEW r \in s.begun, NEW then, NewThen(s, then)
  PROVE  /\ Calls(s, handleComplete(handleSuccess(s, r), r, then), r, then)
         /\ Calls(s, JsonpCalled(s, r, then), r, then)
<1> DEFINE j == [s EXCEPT !.jsonp = @ \ {r}]
           u == handleSuccess(s, r)
           w == handleSuccess(j, r)
<1>0. r \in Requests /\ s.succeeded[r] \in Nat /\ s.failed[r] \in Nat
  BY DEF NetRecord
<1>1. /\ j \in NetRecord /\ j.begun = s.begun /\ j.xhr = s.xhr /\ j.done = s.done
      /\ j.succeeded = s.succeeded /\ j.failed = s.failed /\ j.completed = s.completed
      /\ j.active = s.active /\ j.announced = s.announced
  BY JsonpFields
<1>2. JsonpCalled(s, r, then) = handleComplete(w, r, then)
  BY DEF JsonpCalled
<1> HIDE DEF j
<1>3. /\ u \in NetRecord /\ u.begun = s.begun /\ u.xhr = s.xhr /\ u.done = s.done
      /\ u.completed = s.completed /\ u.active = s.active /\ u.announced = s.announced
      /\ u.succeeded[r] + u.failed[r] = s.succeeded[r] + s.failed[r] + 1
      /\ \A q \in Requests \ {r} :
           u.succeeded[q] = s.succeeded[q] /\ u.failed[q] = s.failed[q]
  BY <1>0, CallbackFields
<1>4. /\ w \in NetRecord /\ w.begun = j.begun /\ w.xhr = j.xhr /\ w.done = j.done
      /\ w.completed = j.completed /\ w.active = j.active /\ w.announced = j.announced
      /\ w.succeeded[r] + w.failed[r] = j.succeeded[r] + j.failed[r] + 1
      /\ \A q \in Requests \ {r} :
           w.succeeded[q] = j.succeeded[q] /\ w.failed[q] = j.failed[q]
  BY <1>0, <1>1, CallbackFields
<1> HIDE DEF u, w
<1>5. Settles(s, u, r) /\ Settles(s, w, r)
  BY <1>0, <1>1, <1>3, <1>4 DEF Settles
<1>6. Calls(s, handleComplete(u, r, then), r, then)
      /\ Calls(s, handleComplete(w, r, then), r, then)
  BY <1>0, <1>5, MarksCall DEF NewThen
<1> QED BY <1>2, <1>6 DEF u

\* The script of a JSONP answer calls its function, then the transfer is over.
LEMMA JsonpEnds ==
  ASSUME NEW s \in NetRecord, NEW r \in s.begun, r \in Jsonp, NEW raises \in BOOLEAN,
         NEW then, NewThen(s, then)
  PROVE  NetEnds(s, Transferred(JsonpCalled(s, r, then), r, TRUE, raises, {}), r, then)
<1> DEFINE u == JsonpCalled(s, r, then)
           d == [u EXCEPT !.done = @ \cup {r}]
<1>1. Transferred(u, r, TRUE, raises, {}) = IF raises THEN d ELSE [d EXCEPT !.xhr = @ \ {r}]
  BY DEF Transferred
<1>2. Calls(s, u, r, then)
  BY SuccessCalls
<1> HIDE DEF u
<1>3. NetEnds(s, d, r, then)
  BY <1>2, CallsThenDone
<1> HIDE DEF d
<1>4. NetEnds(s, [d EXCEPT !.xhr = @ \ {r}], r, then)
  BY <1>3, EndsThenNull
<1> QED BY <1>1, <1>3, <1>4 DEF u

LEMMA AbortEnds ==
  ASSUME NEW s \in NetRecord, NEW r \in s.begun, r \notin s.done, NEW then, NewThen(s, then)
  PROVE  NetEnds(s, Aborted(s, r, then), r, then)
<1>0. r \in Requests /\ s.succeeded[r] \in Nat /\ s.failed[r] \in Nat
  BY DEF NetRecord
<1>1. Settles(s, s, r)
  BY <1>0 DEF Settles
<1>2. Calls(s, handleComplete(s, r, then), r, then)
  BY <1>0, <1>1, MarksCall DEF NewThen
<1>3. NetEnds(s, [handleComplete(s, r, then) EXCEPT !.done = @ \cup {r}], r, then)
  BY <1>2, CallsThenDone
<1> QED BY <1>3 DEF Aborted

LEMMA AjaxStarts == AjaxInit => AjaxInv
<1> SUFFICES ASSUME AjaxInit PROVE AjaxInv
  OBVIOUS
<1>1. net \in NetRecord
  BY DEF AjaxInit, NetRecord
<1>2. /\ net.begun = {} /\ net.xhr = {} /\ net.done = {} /\ raised = {}
      /\ net.active = 0 /\ net.announced = 0
      /\ \A r \in Requests : net.completed[r] = 0 /\ net.succeeded[r] = 0 /\ net.failed[r] = 0
  BY DEF AjaxInit
<1>3. CallsOnce(net, raised)
  BY <1>2 DEF CallsOnce
<1>4. OpenRequests(net) = {}
  BY <1>2 DEF OpenRequests
<1>5. ActiveCounts(net, raised)
  BY <1>2, <1>4, FS_EmptySet DEF ActiveCounts
<1> QED BY <1>1, <1>2, <1>3, <1>5, FS_EmptySet DEF AjaxInv, NetGood

\* A request nobody knows has answered nobody.
LEMMA NewIsQuiet ==
  ASSUME NEW s, NEW R, NetGood(s, R), NEW r \in Requests, r \notin s.begun, r \notin R
  PROVE  /\ s.completed[r] = 0 /\ s.succeeded[r] = 0 /\ s.failed[r] = 0
         /\ r \notin OpenRequests(s)
         /\ IsFiniteSet(OpenRequests(s)) /\ Cardinality(OpenRequests(s)) \in Nat
<1>1. r \notin s.done
  BY DEF NetGood
<1>2. s.succeeded[r] \in Nat /\ s.failed[r] \in Nat
  BY DEF NetGood, NetRecord
<1>3. s.completed[r] = 0 /\ s.succeeded[r] + s.failed[r] = 0
  BY <1>1 DEF NetGood, CallsOnce
<1>4. IsFiniteSet(OpenRequests(s)) /\ Cardinality(OpenRequests(s)) \in Nat
  BY FS_Subset, FS_CardinalityType DEF NetGood, OpenRequests
<1> QED BY <1>2, <1>3, <1>4 DEF OpenRequests

LEMMA SendsWell ==
  ASSUME NEW s, NEW R, NetGood(s, R), NEW r \in Requests, r \notin s.begun, r \notin R
  PROVE  NetGood(Began(s, r), R) /\ NetGrows(s, Began(s, r))
<1> DEFINE t == Began(s, r)
<1>1. s \in NetRecord
  BY DEF NetGood
<1>2. /\ t \in NetRecord
      /\ t.begun = s.begun \cup {r} /\ t.xhr \subseteq s.xhr \cup {r} /\ t.done = s.done
      /\ t.succeeded = s.succeeded /\ t.failed = s.failed /\ t.completed = s.completed
      /\ t.active = s.active + 1
      /\ t.announced = IF s.active = 0 THEN s.announced + 1 ELSE s.announced
  BY <1>1, BeganFields
<1> HIDE DEF t
<1>3. /\ s.completed[r] = 0 /\ s.succeeded[r] = 0 /\ s.failed[r] = 0
      /\ r \notin OpenRequests(s)
      /\ IsFiniteSet(OpenRequests(s)) /\ Cardinality(OpenRequests(s)) \in Nat
  BY NewIsQuiet
<1>4. OpenRequests(t) = OpenRequests(s) \cup {r}
  BY <1>2, <1>3 DEF OpenRequests
<1>5. Cardinality(OpenRequests(t)) = Cardinality(OpenRequests(s)) + 1
  BY <1>3, <1>4, FS_AddElement
<1>6. ActiveCounts(t, R)
  BY <1>2, <1>3, <1>5 DEF NetGood, ActiveCounts
<1>7. CallsOnce(t, R)
  BY <1>2 DEF NetGood, CallsOnce
<1>8. IsFiniteSet(t.begun)
  BY <1>2, FS_AddElement DEF NetGood
<1>9. NetGood(t, R) /\ NetGrows(s, t)
  BY <1>1, <1>2, <1>6, <1>7, <1>8 DEF NetGood, NetGrows, NetRecord
<1> QED BY <1>9 DEF t

LEMMA RaisesWell ==
  ASSUME NEW s, NEW R, NetGood(s, R), NEW r \in Requests, r \notin s.begun, r \notin R
  PROVE  LET t == handleComplete(handleError(Began(s, r), r), r, {})
         IN  NetGood(t, R \cup {r}) /\ NetGrows(s, t)
<1> DEFINE b == Began(s, r)
           e == handleError(b, r)
           t == handleComplete(e, r, {})
<1>1. s \in NetRecord
  BY DEF NetGood
<1>2. /\ b \in NetRecord
      /\ b.begun = s.begun \cup {r} /\ b.xhr \subseteq s.xhr \cup {r} /\ b.done = s.done
      /\ b.succeeded = s.succeeded /\ b.failed = s.failed /\ b.completed = s.completed
      /\ b.active = s.active + 1
      /\ b.announced = IF s.active = 0 THEN s.announced + 1 ELSE s.announced
  BY <1>1, BeganFields
<1> HIDE DEF b
<1>3. /\ e \in NetRecord /\ e.begun = b.begun /\ e.xhr = b.xhr /\ e.done = b.done
      /\ e.completed = b.completed /\ e.active = b.active /\ e.announced = b.announced
      /\ \A q \in Requests \ {r} :
           e.succeeded[q] = b.succeeded[q] /\ e.failed[q] = b.failed[q]
  BY <1>2, CallbackFields
<1> HIDE DEF e
<1>4. /\ t \in NetRecord
      /\ t.begun = e.begun /\ t.xhr \subseteq e.xhr /\ t.done = e.done
      /\ t.succeeded = e.succeeded /\ t.failed = e.failed
      /\ t.completed[r] = e.completed[r] + 1
      /\ \A q \in Requests \ {r} : t.completed[q] = e.completed[q]
      /\ t.active = e.active - 1
      /\ t.announced = IF e.active = 1 THEN e.announced - 1 ELSE e.announced
  <2> DEFINE then == {}
  <2>1. t = handleComplete(e, r, then)
    OBVIOUS
  <2>2. then = {} \/ \E q \in Requests : q \notin e.begun /\ then = {q}
    OBVIOUS
  <2>3. ~\E q : then = {q}
    OBVIOUS
  <2> HIDE DEF t, then
  <2>4. /\ t \in NetRecord
        /\ t.begun = e.begun \cup then /\ t.xhr \subseteq e.xhr \cup then /\ t.done = e.done
        /\ t.succeeded = e.succeeded /\ t.failed = e.failed
        /\ t.completed[r] = e.completed[r] + 1
        /\ \A q \in Requests \ {r} : t.completed[q] = e.completed[q]
        /\ \/ /\ then = {}
              /\ t.active = e.active - 1
              /\ t.announced = IF e.active = 1 THEN e.announced - 1 ELSE e.announced
           \/ /\ \E q : then = {q} /\ q \notin e.begun
              /\ t.active = e.active
              /\ t.announced = IF e.active = 0 THEN e.announced + 1 - 1 ELSE e.announced
    BY <1>3, <2>1, <2>2, CompleteFields
  <2> QED BY <2>3, <2>4 DEF then
<1> HIDE DEF t
<1>5. /\ s.completed[r] = 0 /\ s.succeeded[r] = 0 /\ s.failed[r] = 0
      /\ r \notin OpenRequests(s)
      /\ IsFiniteSet(OpenRequests(s)) /\ Cardinality(OpenRequests(s)) \in Nat
  BY NewIsQuiet
<1>6. /\ t.begun = s.begun \cup {r} /\ t.xhr \subseteq s.xhr \cup {r} /\ t.done = s.done
      /\ t.completed[r] = 1
      /\ \A q \in Requests \ {r} : /\ t.completed[q] = s.completed[q]
                                   /\ t.succeeded[q] = s.succeeded[q]
                                   /\ t.failed[q] = s.failed[q]
  BY <1>2, <1>3, <1>4, <1>5
<1>7. s.active \in Int /\ s.announced \in Int
  BY <1>1 DEF NetRecord
<1>8. t.active = s.active /\ t.announced = s.announced
  BY <1>2, <1>3, <1>4, <1>7
<1>9. OpenRequests(t) = OpenRequests(s)
  BY <1>1, <1>5, <1>6 DEF OpenRequests, NetRecord
<1>10. R \subseteq s.begun /\ s.begun \subseteq Requests
  BY DEF NetGood, NetRecord
<1>11. ActiveCounts(t, R \cup {r})
  <2> SUFFICES ASSUME \A q \in R \cup {r} : t.completed[q] = 1
               PROVE  /\ t.active = Cardinality(OpenRequests(t))
                      /\ t.announced = IF t.active = 0 THEN 0 ELSE 1
    BY DEF ActiveCounts
  <2>1. \A q \in R : s.completed[q] = 1
    BY <1>6, <1>10
  <2> QED BY <1>8, <1>9, <2>1 DEF NetGood, ActiveCounts
<1>12. CallsOnce(t, R \cup {r})
  BY <1>6 DEF NetGood, CallsOnce
<1>13. \A q \in R \cup {r} : t.completed[q] >= 1
  BY <1>6, <1>10 DEF NetGood
<1>14. IsFiniteSet(t.begun)
  BY <1>6, FS_AddElement DEF NetGood
<1>15. NetGood(t, R \cup {r})
  BY <1>4, <1>6, <1>11, <1>12, <1>13, <1>14 DEF NetGood
<1>16. NetGrows(s, t)
  BY <1>1, <1>5, <1>6 DEF NetGrows, NetRecord
<1> QED BY <1>15, <1>16 DEF t, e, b

LEMMA TimeoutFields ==
  ASSUME NEW s, NEW R, NetGood(s, R), NEW r
  PROVE  LET t == [s EXCEPT !.timeouts = @ \ {r}] IN
         NetGood(t, R) /\ t.completed = s.completed /\ t.begun = s.begun /\ t.xhr = s.xhr /\ t.done = s.done
<1> DEFINE t == [s EXCEPT !.timeouts = @ \ {r}]
<1>1. /\ t \in NetRecord /\ t.begun = s.begun /\ t.xhr = s.xhr /\ t.done = s.done
      /\ t.succeeded = s.succeeded /\ t.failed = s.failed /\ t.completed = s.completed
      /\ t.active = s.active /\ t.announced = s.announced
  BY DEF NetGood, NetRecord
<1> HIDE DEF t
<1>2. OpenRequests(t) = OpenRequests(s)
  BY <1>1 DEF OpenRequests
<1>3. CallsOnce(t, R) /\ ActiveCounts(t, R)
  BY <1>1, <1>2 DEF NetGood, CallsOnce, ActiveCounts
<1>4. NetGood(t, R)
  BY <1>1, <1>3 DEF NetGood
<1> QED BY <1>1, <1>4 DEF t

\* A veto counts the request up and down.
LEMMA VetoIsQuiet ==
  ASSUME NEW s \in NetRecord
  PROVE  LET t == ActivityStopped(ActivityStarted(s)) IN
         /\ t \in NetRecord /\ t.begun = s.begun /\ t.xhr = s.xhr /\ t.done = s.done
         /\ t.succeeded = s.succeeded /\ t.failed = s.failed /\ t.completed = s.completed
         /\ t.active = s.active /\ t.announced = s.announced
<1> DEFINE u == ActivityStarted(s)
           b == IF s.active = 0 THEN s.announced + 1 ELSE s.announced
<1>1. s.active \in Int /\ s.announced \in Int
  BY DEF NetRecord
<1>2. u = [s EXCEPT !.active = s.active + 1, !.announced = b]
  BY DEF ActivityStarted
<1>3. b \in Int /\ s.active + 1 \in Int
  BY <1>1
<1>4. u \in NetRecord
  BY <1>2, <1>3, CountersOnly
<1>5. /\ u.begun = s.begun /\ u.xhr = s.xhr /\ u.done = s.done
      /\ u.succeeded = s.succeeded /\ u.failed = s.failed /\ u.completed = s.completed
      /\ u.active = s.active + 1 /\ u.announced = b
  BY <1>2 DEF NetRecord
<1> HIDE DEF u
<1> DEFINE t == ActivityStopped(u)
<1>6. /\ t \in NetRecord /\ t.begun = u.begun /\ t.xhr = u.xhr /\ t.done = u.done
      /\ t.succeeded = u.succeeded /\ t.failed = u.failed /\ t.completed = u.completed
      /\ t.active = u.active - 1
      /\ t.announced = IF u.active = 1 THEN u.announced - 1 ELSE u.announced
  BY <1>4, StoppedFields
<1> HIDE DEF t
<1>7. t.active = s.active /\ t.announced = s.announced
  BY <1>1, <1>5, <1>6
<1> QED BY <1>5, <1>6, <1>7 DEF t, u

LEMMA VetoWell ==
  ASSUME NEW s, NEW R, NetGood(s, R)
  PROVE  LET t == ActivityStopped(ActivityStarted(s)) IN NetGood(t, R) /\ NetGrows(s, t)
<1> DEFINE t == ActivityStopped(ActivityStarted(s))
<1>1. /\ t \in NetRecord /\ t.begun = s.begun /\ t.xhr = s.xhr /\ t.done = s.done
      /\ t.succeeded = s.succeeded /\ t.failed = s.failed /\ t.completed = s.completed
      /\ t.active = s.active /\ t.announced = s.announced
  BY VetoIsQuiet DEF NetGood
<1> HIDE DEF t
<1>2. OpenRequests(t) = OpenRequests(s)
  BY <1>1 DEF OpenRequests
<1>3. CallsOnce(t, R) /\ ActiveCounts(t, R)
  BY <1>1, <1>2 DEF NetGood, CallsOnce, ActiveCounts
<1>4. NetGood(t, R) /\ NetGrows(s, t)
  BY <1>1, <1>3 DEF NetGood, NetGrows, NetRecord
<1> QED BY <1>4 DEF t

LEMMA AjaxSteps == AjaxInv /\ [AjaxNext]_ajaxVars => AjaxInv' /\ NetGrows(net, net')
<1> SUFFICES ASSUME AjaxInv, [AjaxNext]_ajaxVars PROVE AjaxInv' /\ NetGrows(net, net')
  OBVIOUS
<1>0. /\ NetGood(net, raised) /\ net \in NetRecord
      /\ net.xhr \subseteq net.begun /\ net.done \subseteq net.begun /\ raised \subseteq net.begun
      /\ net.begun \subseteq Requests
  BY DEF AjaxInv, NetGood, NetRecord
<1>t. \A s \in NetRecord : \A then \in Then(s) :
        then = {} \/ \E q \in Requests : q \notin s.begun /\ then = {q}
  BY ThenIsNew
<1>n. \A then \in Then(net) : NewThen(net, then)
  BY <1>0, <1>t DEF NewThen
<1>1. ASSUME NEW r \in Requests, Send(r) PROVE AjaxInv' /\ NetGrows(net, net')
  <2>1. NetGood(Began(net, r), raised) /\ NetGrows(net, Began(net, r))
    BY <1>0, <1>1, SendsWell DEF Send, New
  <2> QED BY <1>1, <2>1 DEF Send, AjaxInv
<1>2. ASSUME NEW r \in Requests, Veto(r) PROVE AjaxInv' /\ NetGrows(net, net')
  <2> DEFINE t == ActivityStopped(ActivityStarted(net))
  <2>1. NetGood(t, raised) /\ NetGrows(net, t)
    BY <1>0, VetoWell
  <2> QED BY <1>2, <2>1 DEF Veto, AjaxInv
<1>3. ASSUME NEW r \in Requests, SendRaises(r) PROVE AjaxInv' /\ NetGrows(net, net')
  <2> DEFINE t == handleComplete(handleError(Began(net, r), r), r, {})
  <2>1. NetGood(t, raised \cup {r}) /\ NetGrows(net, t)
    BY <1>0, <1>3, RaisesWell DEF SendRaises, New
  <2> QED BY <1>3, <2>1 DEF SendRaises, AjaxInv
<1>4. ASSUME NEW r \in Requests, NEW ok \in BOOLEAN, NEW raises \in BOOLEAN,
             AnswerArrives(r, ok, raises)
      PROVE  AjaxInv' /\ NetGrows(net, net')
  <2>1. r \in net.begun \ net.done /\ raised' = raised
    BY <1>0, <1>4 DEF AnswerArrives
  <2>2. PICK then \in Then(net) :
          LET s == IF ok /\ r \in Jsonp /\ r \in net.jsonp
                   THEN JsonpCalled(net, r, then) ELSE net
          IN  net' = Transferred(s, r, ok, raises, IF r \in Jsonp THEN {} ELSE then)
    BY <1>4 DEF AnswerArrives
  <2>3. \E th : NetEnds(net, net', r, th)
    <3>1. CASE ok /\ r \in Jsonp /\ r \in net.jsonp
      <4>1. net' = Transferred(JsonpCalled(net, r, then), r, TRUE, raises, {})
        BY <2>2, <3>1
      <4>2. NetEnds(net, Transferred(JsonpCalled(net, r, then), r, TRUE, raises, {}), r, then)
        BY <1>0, <1>n, <2>1, <3>1, JsonpEnds
      <4> QED BY <4>1, <4>2
    <3>2. CASE ~(ok /\ r \in Jsonp /\ r \in net.jsonp)
      <4>1. PICK th : th \in {{}, then}
                      /\ net' = Transferred(net, r, ok, raises, th)
        BY <2>2, <3>2
      <4>2. NewThen(net, th)
        BY <1>n, <4>1 DEF NewThen
      <4> QED BY <1>0, <2>1, <4>1, <4>2, TransferEnds
    <3> QED BY <3>1, <3>2
  <2>4. NetGood(net', raised) /\ NetGrows(net, net')
    BY <1>0, <2>1, <2>3, EndsWell
  <2> QED BY <2>1, <2>4 DEF AjaxInv
<1>5. ASSUME NEW r \in Requests, ScriptLoads(r) PROVE AjaxInv' /\ NetGrows(net, net')
  <2>1. r \in net.begun \ net.done /\ raised' = raised
    BY <1>5 DEF ScriptLoads
  <2>2. PICK then \in Then(net) :
          net' \in {[JsonpCalled(net, r, then) EXCEPT !.done = @ \cup {r}],
                    [handleComplete(handleSuccess(net, r), r, then) EXCEPT !.done = @ \cup {r}]}
    BY <1>5 DEF ScriptLoads
  <2>3. /\ Calls(net, handleComplete(handleSuccess(net, r), r, then), r, then)
        /\ Calls(net, JsonpCalled(net, r, then), r, then)
    BY <1>0, <1>n, <2>1, SuccessCalls
  <2>4. NetEnds(net, net', r, then)
    BY <1>0, <2>1, <2>2, <2>3, CallsThenDone
  <2>5. NetGood(net', raised) /\ NetGrows(net, net')
    BY <1>0, <2>1, <2>4, EndsWell
  <2> QED BY <2>1, <2>5 DEF AjaxInv
<1>6. ASSUME NEW r \in Requests, Timeout(r) PROVE AjaxInv' /\ NetGrows(net, net')
  <2> DEFINE s == [net EXCEPT !.timeouts = @ \ {r}]
  <2>1. NetGood(s, raised) /\ s.begun = net.begun /\ s.xhr = net.xhr /\ s.done = net.done
        /\ s.completed = net.completed
    BY <1>0, TimeoutFields
  <2>2. /\ raised' = raised
        /\ IF r \in net.xhr \ net.done
           THEN \E then \in Then(net) : net' = Transferred(s, r, FALSE, FALSE, then)
           ELSE net' = s
    BY <1>6 DEF Timeout
  <2> HIDE DEF s
  <2>3. CASE r \in net.xhr \ net.done
    <3>1. PICK then \in Then(net) : net' = Transferred(s, r, FALSE, FALSE, then)
      BY <2>2, <2>3
    <3>2. NewThen(s, then) /\ s \in NetRecord /\ r \in s.begun \ s.done
      BY <1>0, <1>n, <2>1, <2>3 DEF NewThen, NetGood
    <3>3. \E th : NetEnds(s, net', r, th)
      BY <3>1, <3>2, TransferEnds
    <3>4. NetGood(net', raised) /\ NetGrows(net, net')
      BY <2>1, <3>2, <3>3, EndsWell DEF NetGrows
    <3> QED BY <2>2, <3>4 DEF AjaxInv
  <2>4. CASE r \notin net.xhr \ net.done
    <3>1. net' = s /\ raised' = raised
      BY <2>2, <2>4
    <3>2. NetGrows(net, s)
      BY <1>0, <2>1 DEF NetGrows, NetRecord
    <3> QED BY <2>1, <3>1, <3>2 DEF AjaxInv
  <2> QED BY <2>3, <2>4
<1>7. ASSUME NEW r \in Requests, NEW back \in BOOLEAN, AbortRequest(r, back) PROVE AjaxInv' /\ NetGrows(net, net')
  <2>1. r \in net.begun /\ raised' = raised
    BY <1>7 DEF AbortRequest
  <2>2. PICK then \in Then(net) :
          net' = IF back /\ r \in net.xhr \ (net.done \cup raised)
                 THEN Transferred(net, r, FALSE, FALSE, then)
                 ELSE Aborted(net, r, then)
    BY <1>7 DEF AbortRequest
  <2>3. CASE back /\ r \in net.xhr \ (net.done \cup raised)
    <3>1. \E th : NetEnds(net, net', r, th)
      BY <1>0, <1>n, <2>1, <2>2, <2>3, TransferEnds
    <3>2. NetGood(net', raised) /\ NetGrows(net, net')
      BY <1>0, <2>1, <2>3, <3>1, EndsWell
    <3> QED BY <2>1, <3>2 DEF AjaxInv
  <2>4. CASE ~(back /\ r \in net.xhr \ (net.done \cup raised)) /\ r \notin net.done
    <3>1. NetEnds(net, net', r, then)
      BY <1>0, <1>n, <2>1, <2>2, <2>4, AbortEnds
    <3>2. NetGood(net', raised) /\ NetGrows(net, net')
      BY <1>0, <2>1, <2>4, <3>1, EndsWell
    <3> QED BY <2>1, <3>2 DEF AjaxInv
  <2>5. CASE r \in net.done
    <3>1. net' = net
      BY <2>2, <2>5 DEF Aborted
    <3> QED BY <1>0, <2>1, <3>1 DEF AjaxInv, NetGrows, NetRecord
  <2> QED BY <2>3, <2>4, <2>5
<1>8. CASE UNCHANGED ajaxVars
  BY <1>0, <1>8 DEF ajaxVars, AjaxInv, NetGrows, NetRecord
<1>9. CASE AjaxNext
  <2>1. PICK r \in Requests :
          \/ Send(r) \/ Veto(r) \/ SendRaises(r)
          \/ Ends(r)
          \/ \E back \in BOOLEAN : AbortRequest(r, back)
    BY <1>9 DEF AjaxNext
  <2> QED BY <1>1, <1>2, <1>3, <1>4, <1>5, <1>6, <1>7, <2>1 DEF Ends
<1> QED BY <1>8, <1>9

(***************************************************************************)
(* What the invariant says of the page: the types, that a request ends     *)
(* once, and that the first and the last one are announced.                *)
(***************************************************************************)
LEMMA AjaxHolds == AjaxInv => AjaxTypeOK /\ EndsOnce /\ ActivityAnnounced
<1> SUFFICES ASSUME AjaxInv PROVE AjaxTypeOK /\ EndsOnce /\ ActivityAnnounced
  OBVIOUS
<1> USE DEF AjaxInv, NetGood
<1>1. AjaxTypeOK
  BY DEF AjaxTypeOK, NetRecord
<1>2. EndsOnce
  BY DEF EndsOnce, CallsOnce
<1>3. ActivityAnnounced
  <2> SUFFICES ASSUME \A r \in raised : net.completed[r] = 1
               PROVE  net.announced = IF \E r \in net.begun : net.completed[r] = 0
                                      THEN 1 ELSE 0
    BY DEF ActivityAnnounced
  <2>1. /\ net.active = Cardinality(OpenRequests(net))
        /\ net.announced = IF net.active = 0 THEN 0 ELSE 1
    BY DEF ActiveCounts
  <2>2. IsFiniteSet(OpenRequests(net))
    BY FS_Subset DEF OpenRequests
  <2>3. net.active = 0 <=> OpenRequests(net) = {}
    BY <2>1, <2>2, FS_EmptySet
  <2> QED BY <2>1, <2>3 DEF OpenRequests
<1> QED BY <1>1, <1>2, <1>3

-----------------------------------------------------------------------------
(* The forms and links of rails.js.                                        *)

Sending == [elem : RailsElements, method : {"get", "post", "data-method"},
            handled : BOOLEAN]
ButtonState == [disabled : BOOLEAN, label : {"own", "wait", "empty"},
                saved : {"undefined", "own", "wait", "empty"}]

RailsShape ==
    /\ bound \in BOOLEAN
    /\ button \in [Forms -> ButtonState]
    /\ owner \in [Requests -> RailsElements \cup {"nobody"}]
    /\ sentTo \in Seq(Sending)

(***************************************************************************)
(* A form that is sent once has its own label on the button until then:    *)
(* without that, what is saved would not be the label to put back.         *)
(***************************************************************************)
SentByButton == \A f \in DisablesWith \ IsRemote :
    /\ Times(f) = (IF button[f].disabled THEN 1 ELSE 0)
    /\ IF button[f].disabled THEN button[f].saved = "own" ELSE button[f].label = "own"

\* The button of a remote form while nothing, and after something, came back.
Unsaved(b, label) == ~b.disabled /\ b.saved = "undefined" /\ b.label = label
EmptiedByAnswer == \A f \in DisablesWith \cap IsRemote :
    Unsaved(button[f], IF CameBack(f) THEN "empty" ELSE "own")

RailsInv == AjaxInv /\ RailsShape /\ SentByButton /\ EmptiedByAnswer

\* The entries of the window's history that are handled ones of an element.
SendsOf(s, e) == {i \in DOMAIN s : s[i].elem = e /\ s[i].handled}

LEMMA OneMoreSending ==
  ASSUME NEW s \in Seq(Sending), NEW x \in Sending, NEW e
  PROVE  Cardinality(SendsOf(Append(s, x), e)) =
           Cardinality(SendsOf(s, e)) + (IF x.elem = e /\ x.handled THEN 1 ELSE 0)
<1> DEFINE t == Append(s, x)
           n == Len(s) + 1
<1>1. /\ Len(s) \in Nat /\ DOMAIN s = 1..Len(s) /\ DOMAIN t = 1..n
      /\ \A i \in 1..Len(s) : t[i] = s[i]
      /\ t[n] = x
  OBVIOUS
<1>2. IsFiniteSet(SendsOf(s, e)) /\ Cardinality(SendsOf(s, e)) \in Nat
  <2>1. IsFiniteSet(1..Len(s))
    BY <1>1, FS_Interval
  <2>2. SendsOf(s, e) \subseteq 1..Len(s)
    BY <1>1 DEF SendsOf
  <2>3. IsFiniteSet(SendsOf(s, e))
    BY <2>1, <2>2, FS_Subset
  <2> QED BY <2>3, FS_CardinalityType
<1>3. n \notin SendsOf(s, e)
  BY <1>1 DEF SendsOf
<1> HIDE DEF t
<1>4. CASE x.elem = e /\ x.handled
  <2>1. SendsOf(t, e) = SendsOf(s, e) \cup {n}
    BY <1>1, <1>4 DEF SendsOf
  <2> HIDE DEF n
  <2>2. Cardinality(SendsOf(t, e)) = Cardinality(SendsOf(s, e)) + 1
    BY <1>2, <1>3, <2>1, FS_AddElement
  <2> QED BY <1>4, <2>2 DEF t
<1>5. CASE ~(x.elem = e /\ x.handled)
  <2>1. SendsOf(t, e) = SendsOf(s, e)
    BY <1>1, <1>5 DEF SendsOf
  <2> QED BY <1>2, <1>5, <2>1 DEF t
<1> QED BY <1>4, <1>5

LEMMA RailsStarts == RailsInit => RailsInv
<1> SUFFICES ASSUME RailsInit PROVE RailsInv
  OBVIOUS
<1>1. AjaxInv
  BY AjaxStarts DEF RailsInit
<1>2. RailsShape
  <2>1. button \in [Forms -> ButtonState]
    BY DEF RailsInit, ButtonState
  <2>2. owner \in [Requests -> RailsElements \cup {"nobody"}]
    BY DEF RailsInit
  <2>3. sentTo \in Seq(Sending)
    BY DEF RailsInit
  <2> QED BY <2>1, <2>2, <2>3 DEF RailsInit, RailsShape
<1>3. \A f \in DisablesWith \ IsRemote : Times(f) = 0
  <2> SUFFICES ASSUME NEW f \in DisablesWith \ IsRemote PROVE Times(f) = 0
    OBVIOUS
  <2>1. {i \in DOMAIN sentTo : sentTo[i].elem = f /\ sentTo[i].handled} = {}
    BY DEF RailsInit
  <2> QED BY <2>1, FS_EmptySet DEF Times
<1>4. SentByButton
  BY <1>3, RailsAssumption DEF RailsInit, SentByButton
<1>5. EmptiedByAnswer
  BY RailsAssumption DEF RailsInit, AjaxInit, EmptiedByAnswer, Unsaved, CameBack
<1> QED BY <1>1, <1>2, <1>4, <1>5 DEF RailsInv

\* What completes enables the buttons of remote forms only.
LEMMA ButtonsAfterShape ==
  ASSUME button \in [Forms -> ButtonState], NEW owns
  PROVE  LET new == buttonsAfter(owns) IN
         /\ new \in [Forms -> ButtonState]
         /\ \A f \in DisablesWith \ IsRemote : new[f] = button[f]
<1>1. \A b \in ButtonState : Enabled(b) \in ButtonState
  BY DEF Enabled, ButtonState
<1> QED BY <1>1, RailsAssumption DEF buttonsAfter

(***************************************************************************)
(* The label of a remote form's button goes with the first request that    *)
(* completes, if no request changes hands once it has completed.           *)
(***************************************************************************)
LEMMA AnswerEmpties ==
  ASSUME RailsInv, net'.completed \in [Requests -> Nat], NetGrows(net, net'),
         \A r \in Requests : owner'[r] = owner[r] \/ net.completed[r] = 0,
         button' = buttonsAfter(owner')
  PROVE  EmptiedByAnswer'
<1> SUFFICES ASSUME NEW f \in DisablesWith \cap IsRemote
             PROVE  Unsaved(button'[f], IF CameBack(f)' THEN "empty" ELSE "own")
  BY DEF EmptiedByAnswer
<1> DEFINE comes == \E r \in Requests : owner'[r] = f /\ net'.completed[r] > net.completed[r]
<1>1. /\ Unsaved(button[f], IF CameBack(f) THEN "empty" ELSE "own")
      /\ f \in Forms /\ button[f] \in ButtonState
  BY RailsAssumption DEF RailsInv, RailsShape, EmptiedByAnswer
<1>2. button'[f] = IF comes THEN Enabled(button[f]) ELSE button[f]
  BY <1>1 DEF buttonsAfter
<1>3. net.completed \in [Requests -> Nat]
  BY DEF RailsInv, AjaxInv, NetGood, NetRecord
<1>4. CameBack(f)' <=> CameBack(f) \/ comes
  <2>1. ASSUME NEW r \in Requests, owner'[r] = f, net'.completed[r] > 0
        PROVE  CameBack(f) \/ comes
    BY <1>3, <2>1 DEF CameBack, NetGrows
  <2>2. ASSUME NEW r \in Requests, owner[r] = f, net.completed[r] > 0 PROVE CameBack(f)'
    BY <1>3, <2>2 DEF CameBack, NetGrows
  <2>3. ASSUME NEW r \in Requests, owner'[r] = f, net'.completed[r] > net.completed[r]
        PROVE  CameBack(f)'
    BY <1>3, <2>3 DEF CameBack
  <2> QED BY <2>1, <2>2, <2>3 DEF CameBack
<1> HIDE DEF comes
<1>5. CASE comes
  BY <1>1, <1>2, <1>4, <1>5 DEF Unsaved, Enabled, ButtonState
<1>6. CASE ~comes
  BY <1>1, <1>2, <1>4, <1>6 DEF Unsaved
<1> QED BY <1>5, <1>6

\* Without a request that completes every button has the label it had.
LEMMA QuietLabels ==
  ASSUME EmptiedByAnswer, UNCHANGED <<net, owner>>,
         \A f \in DisablesWith \cap IsRemote : button'[f] = button[f]
  PROVE  EmptiedByAnswer'
  BY DEF EmptiedByAnswer, CameBack

\* The history and the buttons that count stay as they are.
LEMMA QuietRails ==
  ASSUME SentByButton, sentTo' = sentTo,
         \A f \in DisablesWith \ IsRemote : button'[f] = button[f]
  PROVE  SentByButton'
  BY DEF SentByButton, Times

LEMMA SendingWell ==
  ASSUME NEW e \in RailsElements, NEW m \in {"get", "post", "data-method"},
         NEW h \in BOOLEAN, RailsShape, Sends(e, m, h)
  PROVE  /\ sentTo' \in Seq(Sending)
         /\ \A f : Times(f)' = Times(f) + (IF e = f /\ h THEN 1 ELSE 0)
<1> DEFINE x == [elem |-> e, method |-> m, handled |-> h]
<1>1. x \in Sending /\ x.elem = e /\ x.handled = h
  BY DEF Sending
<1>2. sentTo \in Seq(Sending) /\ sentTo' = Append(sentTo, x)
  BY DEF Sends, RailsShape
<1> HIDE DEF x
<1>3. \A f : Cardinality(SendsOf(sentTo', f)) =
               Cardinality(SendsOf(sentTo, f)) + (IF e = f /\ h THEN 1 ELSE 0)
  BY <1>1, <1>2, OneMoreSending
<1>4. \A f : Times(f)' = Cardinality(SendsOf(sentTo', f))
             /\ Times(f) = Cardinality(SendsOf(sentTo, f))
  BY DEF Times, SendsOf
<1> QED BY <1>1, <1>2, <1>3, <1>4

LEMMA RailsSteps == RailsInv /\ [RailsNext]_railsVars => RailsInv'
<1> SUFFICES ASSUME RailsInv, [RailsNext]_railsVars PROVE RailsInv'
  OBVIOUS
<1> USE DEF RailsInv
<1>0. AjaxInv /\ RailsShape /\ SentByButton /\ button \in [Forms -> ButtonState]
      /\ EmptiedByAnswer /\ owner \in [Requests -> RailsElements \cup {"nobody"}]
  BY DEF RailsShape
<1>c. AjaxInv' => net'.completed \in [Requests -> Nat]
  BY DEF AjaxInv, NetGood, NetRecord
<1>1. CASE BindHandlers \/ UNCHANGED railsVars
  <2>1. UNCHANGED <<ajaxVars, button, owner, sentTo>> /\ bound' \in BOOLEAN
    BY <1>0, <1>1 DEF BindHandlers, railsVars, ajaxVars, RailsShape
  <2>2. AjaxInv'
    BY <1>0, <2>1, AjaxSteps
  <2>3. EmptiedByAnswer'
    BY <1>0, <2>1, QuietLabels DEF ajaxVars
  <2> QED BY <1>0, <2>1, <2>2, <2>3, QuietRails DEF RailsShape
<1>2. ASSUME NEW e \in RailsElements, UseRemote(e) PROVE RailsInv'
  <2>1. PICK r \in Requests :
          /\ Send(r) \/ Veto(r) \/ SendRaises(r)
          /\ owner' = [owner EXCEPT ![r] = IF r \in net'.begun THEN e ELSE @]
          /\ button' = buttonsAfter(owner')
    BY <1>2 DEF UseRemote, callRemote
  <2>2. AjaxInv' /\ NetGrows(net, net')
    BY <1>0, <2>1, AjaxSteps DEF AjaxNext
  <2>3. /\ button' \in [Forms -> ButtonState]
        /\ \A f \in DisablesWith \ IsRemote : button'[f] = button[f]
    BY <1>0, <2>1, ButtonsAfterShape
  <2>4. owner' \in [Requests -> RailsElements \cup {"nobody"}]
    BY <1>0, <2>1 DEF RailsShape
  <2>5. net.completed[r] = 0
    BY <1>0, <2>1, NewIsQuiet DEF AjaxInv, Send, Veto, SendRaises, New
  <2>6. EmptiedByAnswer'
    BY <1>0, <1>c, <2>1, <2>2, <2>5, AnswerEmpties
  <2> QED BY <1>0, <1>2, <2>2, <2>3, <2>4, <2>6, QuietRails DEF UseRemote, RailsShape
<1>3. ASSUME NEW e \in RailsElements, UseOrdinary(e) PROVE RailsInv'
  <2>1. PICK m \in {"get", "post", "data-method"} : Sends(e, m, TRUE)
    BY <1>3 DEF UseOrdinary
  <2>2. /\ sentTo' \in Seq(Sending)
        /\ \A f : Times(f)' = Times(f) + (IF e = f /\ TRUE THEN 1 ELSE 0)
    BY <1>0, <2>1, SendingWell
  <2>3. button' = IF e \in DisablesWith THEN [button EXCEPT ![e] = Disabled(@)] ELSE button
    BY <1>3 DEF UseOrdinary
  <2>4. \A b \in ButtonState : Disabled(b) \in ButtonState
    BY DEF Disabled, ButtonState
  <2>5. button' \in [Forms -> ButtonState]
    BY <1>0, <2>3, <2>4, RailsAssumption
  <2>6. AjaxInv'
    BY <1>0, <1>3, AjaxSteps DEF UseOrdinary, ajaxVars
  <2>7. SentByButton'
    <3> SUFFICES ASSUME NEW f \in DisablesWith \ IsRemote
                 PROVE  /\ Times(f)' = (IF button'[f].disabled THEN 1 ELSE 0)
                        /\ IF button'[f].disabled THEN button'[f].saved = "own"
                                                  ELSE button'[f].label = "own"
      BY DEF SentByButton
    <3>1. /\ Times(f) = (IF button[f].disabled THEN 1 ELSE 0)
          /\ IF button[f].disabled THEN button[f].saved = "own" ELSE button[f].label = "own"
          /\ f \in Forms
      BY <1>0, RailsAssumption DEF SentByButton
    <3>2. CASE f = e
      <4>1. button'[f] = Disabled(button[f])
        BY <1>0, <2>3, <3>1, <3>2
      <4>2. ~button[f].disabled
        BY <1>3, <3>1, <3>2 DEF UseOrdinary, Usable
      <4>3. button'[f].disabled /\ button'[f].saved = "own"
        BY <3>1, <4>1, <4>2 DEF Disabled
      <4>4. Times(f)' = 1
        BY <2>2, <3>1, <3>2, <4>2
      <4> QED BY <4>3, <4>4
    <3>3. CASE f # e
      <4>1. button'[f] = button[f]
        BY <1>0, <2>3, <3>1, <3>3
      <4>2. Times(f)' = Times(f)
        BY <2>2, <3>1, <3>3
      <4> QED BY <3>1, <4>1, <4>2
    <3> QED BY <3>2, <3>3
  <2>8. EmptiedByAnswer'
    <3>1. UNCHANGED <<net, owner>> /\ e \notin IsRemote
      BY <1>3 DEF UseOrdinary
    <3> QED BY <1>0, <2>3, <3>1, QuietLabels
  <2> QED BY <1>0, <1>3, <2>2, <2>5, <2>6, <2>7, <2>8 DEF UseOrdinary, RailsShape
<1>4. ASSUME NEW e \in RailsElements, UseUnhandled(e) PROVE RailsInv'
  <2>1. PICK m \in {"get", "post", "data-method"} : Sends(e, m, FALSE)
    BY <1>4 DEF UseUnhandled
  <2>2. /\ sentTo' \in Seq(Sending)
        /\ \A f : Times(f)' = Times(f) + (IF e = f /\ FALSE THEN 1 ELSE 0)
    BY <1>0, <2>1, SendingWell
  <2>3. AjaxInv'
    BY <1>0, <1>4, AjaxSteps DEF UseUnhandled, ajaxVars
  <2>4. button' = button
    BY <1>4 DEF UseUnhandled
  <2>5. SentByButton'
    BY <1>0, <2>2, <2>4 DEF SentByButton
  <2>6. EmptiedByAnswer'
    BY <1>0, <1>4, <2>4, QuietLabels DEF UseUnhandled
  <2> QED BY <1>0, <1>4, <2>2, <2>3, <2>5, <2>6 DEF UseUnhandled, RailsShape
<1>5. CASE RequestEnds
  <2>1. PICK r \in Requests : Ends(r) \/ \E back \in BOOLEAN : AbortRequest(r, back)
    BY <1>5 DEF RequestEnds
  <2>2. AjaxInv' /\ NetGrows(net, net')
    BY <1>0, <2>1, AjaxSteps DEF AjaxNext
  <2>3. /\ button' \in [Forms -> ButtonState]
        /\ \A f \in DisablesWith \ IsRemote : button'[f] = button[f]
    BY <1>0, <1>5, ButtonsAfterShape DEF RequestEnds
  <2>4. owner' = owner /\ button' = buttonsAfter(owner')
    BY <1>5 DEF RequestEnds
  <2>5. EmptiedByAnswer'
    BY <1>0, <1>c, <2>2, <2>4, AnswerEmpties
  <2> QED BY <1>0, <1>5, <2>2, <2>3, <2>5, QuietRails DEF RequestEnds, RailsShape
<1> QED BY <1>1, <1>2, <1>3, <1>4, <1>5 DEF RailsNext

\* Requests that nobody made for a form leave the forms as they are.
Nobodys == \A r \in Requests : owner[r] = "nobody"

LEMMA AjaxKeepsRails ==
  RailsInv /\ Nobodys /\ [AjaxNext]_ajaxVars /\ UNCHANGED <<bound, button, owner, sentTo>>
    => RailsInv'
<1> SUFFICES ASSUME RailsInv, Nobodys, [AjaxNext]_ajaxVars,
                    UNCHANGED <<bound, button, owner, sentTo>>
             PROVE  RailsInv'
  OBVIOUS
<1>1. AjaxInv'
  BY AjaxSteps DEF RailsInv
<1>2. \A f \in Forms : ~CameBack(f) /\ ~CameBack(f)'
  BY RailsAssumption DEF Nobodys, CameBack
<1>3. EmptiedByAnswer'
  BY <1>2, RailsAssumption DEF RailsInv, EmptiedByAnswer
<1> QED BY <1>1, <1>3, QuietRails DEF RailsInv, RailsShape

LEMMA RailsHolds == RailsInv => RailsTypeOK /\ OnceOnly /\ LabelsLast
<1> SUFFICES ASSUME RailsInv PROVE RailsTypeOK /\ OnceOnly /\ LabelsLast
  OBVIOUS
<1>1. RailsTypeOK
  BY AjaxHolds DEF RailsInv, RailsShape, RailsTypeOK, Sending, ButtonState
<1>2. OnceOnly
  BY RailsAssumption DEF RailsInv, RailsShape, ButtonState, SentByButton, OnceOnly
<1>3. LabelsLast
  BY DEF RailsInv, EmptiedByAnswer, Unsaved, LabelsLast
<1> QED BY <1>1, <1>2, <1>3

-----------------------------------------------------------------------------
(***************************************************************************)
(* The functions that wait for the document.  readyWait is one more than   *)
(* the holds until the document is ready, and as many as the holds until   *)
(* the list has been run; no function is twice in what was called and what *)
(* waits.                                                                  *)
(***************************************************************************)
ReadyRecord == [bound : BOOLEAN, isReady : BOOLEAN, readyWait : Int,
                list : Seq(Functions), gone : BOOLEAN]

ReadyShape ==
    /\ state \in {"loading", "interactive", "complete"} /\ body \in BOOLEAN
    /\ jq \in ReadyRecord
    /\ holds \in [now : Nat, ever : Nat] /\ holds.now <= holds.ever
    /\ called \in Seq(Functions) /\ dropped \subseteq Functions

\* No function twice, and none in both.
Apart(s, t) ==
    /\ IsInjective(s) /\ IsInjective(t)
    /\ \A i \in DOMAIN s, j \in DOMAIN t : s[i] # t[j]

HoldsCount ==
    /\ jq.isReady => body
    /\ ~jq.isReady => jq.readyWait = holds.now + 1
    /\ jq.isReady /\ ~jq.gone => jq.readyWait = holds.now /\ holds.now > 0
    /\ jq.gone => jq.isReady /\ jq.list = <<>> /\ holds.now = 0 /\ jq.readyWait <= 0

RunInTime ==
    /\ called # <<>> => body
    /\ dropped # {} => ToSet(called) \cap Raising # {}

ReadyInv == ReadyShape /\ Apart(called, jq.list) /\ HoldsCount /\ RunInTime

LEMMA ReadyStarts == ReadyInit => ReadyInv
<1> SUFFICES ASSUME ReadyInit PROVE ReadyInv
  OBVIOUS
<1>1. /\ jq \in ReadyRecord /\ jq.isReady = FALSE /\ jq.gone = FALSE /\ jq.readyWait = 1
      /\ jq.list = <<>>
  BY DEF ReadyInit, ReadyRecord
<1>2. holds \in [now : Nat, ever : Nat] /\ holds.now = 0 /\ holds.ever = 0
  BY DEF ReadyInit
<1>3. called = <<>> /\ dropped = {}
  BY DEF ReadyInit
<1>4. ReadyShape
  <2>1. holds.now <= holds.ever
    BY <1>2
  <2>2. called \in Seq(Functions) /\ dropped \subseteq Functions
    BY <1>3
  <2>3. state \in {"loading", "interactive", "complete"} /\ body \in BOOLEAN
    BY DEF ReadyInit
  <2> QED BY <1>1, <1>2, <2>1, <2>2, <2>3 DEF ReadyShape
<1>5. Apart(called, jq.list)
  <2>1. DOMAIN called = {} /\ DOMAIN jq.list = {}
    BY <1>1, <1>3
  <2> QED BY <2>1 DEF Apart, IsInjective
<1> QED BY <1>1, <1>2, <1>3, <1>4, <1>5 DEF ReadyInv, HoldsCount, RunInTime

LEMMA ApartAppend ==
  ASSUME NEW s \in Seq(Functions), NEW t \in Seq(Functions), Apart(s, t),
         NEW f \in Functions, f \notin ToSet(s), f \notin ToSet(t)
  PROVE  Apart(Append(s, f), t) /\ Apart(s, Append(t, f))
<1>1. (\A i \in DOMAIN s : s[i] # f) /\ (\A i \in DOMAIN t : t[i] # f)
  BY DEF ToSet
<1>2. /\ DOMAIN Append(s, f) = 1..Len(s) + 1 /\ DOMAIN s = 1..Len(s)
      /\ \A i \in 1..Len(s) + 1 : Append(s, f)[i] = IF i \in 1..Len(s) THEN s[i] ELSE f
  OBVIOUS
<1>3. /\ DOMAIN Append(t, f) = 1..Len(t) + 1 /\ DOMAIN t = 1..Len(t)
      /\ \A i \in 1..Len(t) + 1 : Append(t, f)[i] = IF i \in 1..Len(t) THEN t[i] ELSE f
  OBVIOUS
<1>4. Len(s) \in Nat /\ Len(t) \in Nat
  OBVIOUS
<1>5. IsInjective(Append(s, f))
  BY <1>1, <1>2, <1>4 DEF Apart, IsInjective
<1>6. IsInjective(Append(t, f))
  BY <1>1, <1>3, <1>4 DEF Apart, IsInjective
<1>7. \A i \in DOMAIN Append(s, f), j \in DOMAIN t : Append(s, f)[i] # t[j]
  BY <1>1, <1>2, <1>4 DEF Apart
<1>8. \A i \in DOMAIN s, j \in DOMAIN Append(t, f) : s[i] # Append(t, f)[j]
  BY <1>1, <1>3, <1>4 DEF Apart
<1> QED BY <1>5, <1>6, <1>7, <1>8 DEF Apart

LEMMA ApartJoined ==
  ASSUME NEW s \in Seq(Functions), NEW t \in Seq(Functions), Apart(s, t),
         NEW k \in 0..Len(t)
  PROVE  /\ s \o SubSeq(t, 1, k) \in Seq(Functions) /\ IsInjective(s \o SubSeq(t, 1, k))
         /\ ToSet(s) \subseteq ToSet(s \o SubSeq(t, 1, k))
         /\ \A j \in 1..k : t[j] \in ToSet(s \o SubSeq(t, 1, k))
<1> DEFINE u == SubSeq(t, 1, k)
           v == s \o u
<1>1. Len(s) \in Nat /\ Len(t) \in Nat /\ k \in Nat
      /\ DOMAIN s = 1..Len(s) /\ DOMAIN t = 1..Len(t)
  OBVIOUS
<1>2. u \in Seq(Functions) /\ Len(u) = k /\ \A j \in 1..k : u[j] = t[j]
  BY <1>1
<1> HIDE DEF u
<1>3. /\ v \in Seq(Functions) /\ DOMAIN v = 1..Len(s) + k
      /\ \A i \in 1..Len(s) + k : v[i] = IF i <= Len(s) THEN s[i] ELSE u[i - Len(s)]
  BY <1>1, <1>2
<1> HIDE DEF v
<1>4. \A i \in 1..Len(s) : v[i] = s[i]
  BY <1>1, <1>3
<1>5. \A j \in 1..k : Len(s) + j \in DOMAIN v /\ v[Len(s) + j] = t[j]
  <2> SUFFICES ASSUME NEW j \in 1..k
               PROVE  Len(s) + j \in DOMAIN v /\ v[Len(s) + j] = t[j]
    OBVIOUS
  <2>1. Len(s) + j \in 1..Len(s) + k /\ ~(Len(s) + j <= Len(s)) /\ Len(s) + j - Len(s) = j
    BY <1>1
  <2>2. v[Len(s) + j] = u[j]
    BY <1>3, <2>1
  <2> QED BY <1>2, <1>3, <2>1, <2>2
<1>6. IsInjective(v)
  <2> SUFFICES ASSUME NEW i \in DOMAIN v, NEW j \in DOMAIN v, v[i] = v[j] PROVE i = j
    BY DEF IsInjective
  <2>1. CASE i <= Len(s) /\ j <= Len(s)
    BY <1>1, <1>3, <2>1 DEF Apart, IsInjective
  <2>2. CASE i > Len(s) /\ j > Len(s)
    <3>1. /\ i - Len(s) \in 1..k /\ j - Len(s) \in 1..k
          /\ i - Len(s) \in DOMAIN t /\ j - Len(s) \in DOMAIN t
      BY <1>1, <1>3, <2>2
    <3>2. t[i - Len(s)] = t[j - Len(s)]
      BY <1>1, <1>2, <1>3, <2>2, <3>1
    <3>3. i - Len(s) = j - Len(s)
      BY <3>1, <3>2 DEF Apart, IsInjective
    <3> QED BY <1>1, <1>3, <3>3
  <2>3. ASSUME NEW p \in DOMAIN v, NEW q \in DOMAIN v, p <= Len(s), q > Len(s)
        PROVE  v[p] # v[q]
    <3>1. q - Len(s) \in 1..k /\ q - Len(s) \in DOMAIN t /\ p \in DOMAIN s
      BY <1>1, <1>3, <2>3
    <3>2. v[p] = s[p] /\ v[q] = t[q - Len(s)]
      BY <1>1, <1>2, <1>3, <2>3, <3>1
    <3> QED BY <3>1, <3>2 DEF Apart
  <2> QED BY <1>1, <1>3, <2>1, <2>2, <2>3
<1>7. ToSet(s) \subseteq ToSet(v)
  BY <1>1, <1>3, <1>4 DEF ToSet
<1>8. \A j \in 1..k : t[j] \in ToSet(v)
  BY <1>5 DEF ToSet
<1> QED BY <1>3, <1>6, <1>7, <1>8 DEF v, u

LEMMA RunCalls ==
  ASSUME jq.list \in Seq(Functions), called \in Seq(Functions), dropped \subseteq Functions,
         Apart(called, jq.list), Run
  PROVE  /\ called' \in Seq(Functions) /\ IsInjective(called') /\ dropped' \subseteq Functions
         /\ ToSet(called) \subseteq ToSet(called')
         /\ dropped' # dropped => ToSet(called') \cap Raising # {}
         /\ jq.list = <<>> => called' = called /\ dropped' = dropped
<1> DEFINE t == jq.list
           Places == {i \in 1..Len(t) : t[i] \in Raising}
           k == IF Places # {} THEN Min(Places) ELSE 0
           runs == IF k = 0 THEN t ELSE SubSeq(t, 1, k)
           n == IF k = 0 THEN Len(t) ELSE k
<1>1. /\ called' = called \o runs
      /\ dropped' = dropped \cup (ToSet(t) \ ToSet(runs))
  BY DEF Run, SelectInSeq
<1>2. Len(t) \in Nat /\ t = SubSeq(t, 1, Len(t))
  OBVIOUS
<1>3. Places # {} => k \in Places
  BY <1>2, LeastIndex
<1> HIDE DEF k
<1>4. k \in 0..Len(t) /\ (k # 0 => t[k] \in Raising)
  <2>1. CASE Places = {}
    BY <1>2, <2>1 DEF k
  <2>2. CASE Places # {}
    BY <1>2, <1>3, <2>2
  <2> QED BY <2>1, <2>2
<1>5. n \in 0..Len(t) /\ runs = SubSeq(t, 1, n)
  BY <1>2, <1>4
<1>6. \A i \in DOMAIN t : t[i] \in Functions
  OBVIOUS
<1>7. ToSet(t) \subseteq Functions
  BY <1>6 DEF ToSet
<1> HIDE DEF t, Places, n, runs
<1>8. /\ called' \in Seq(Functions) /\ IsInjective(called')
      /\ ToSet(called) \subseteq ToSet(called')
      /\ \A j \in 1..n : t[j] \in ToSet(called')
  BY <1>1, <1>5, ApartJoined DEF t
<1>9. ASSUME dropped' # dropped PROVE ToSet(called') \cap Raising # {}
  <2>1. k # 0
    BY <1>1, <1>9 DEF runs
  <2>2. n = k /\ k \in 1..n
    BY <1>2, <1>4, <2>1 DEF n
  <2> QED BY <1>4, <1>8, <2>1, <2>2
<1>10. ASSUME t = <<>> PROVE called' = called /\ dropped' = dropped
  <2>1. Len(t) = 0 /\ ToSet(t) = {}
    BY <1>10 DEF ToSet
  <2>2. runs = <<>>
    BY <1>4, <1>10, <2>1 DEF runs
  <2> QED BY <1>1, <2>1, <2>2
<1> QED BY <1>1, <1>7, <1>8, <1>9, <1>10 DEF t

LEMMA ReadyKeeps ==
  ASSUME ReadyInv, NEW wait \in BOOLEAN, NEW others, ready(wait, others),
         UNCHANGED <<state, body>>,
         wait => holds.now > 0 /\ holds' = [holds EXCEPT !.now = @ - 1],
         ~wait => holds' = holds
  PROVE  ReadyInv'
<1> DEFINE pushed == IF wait THEN jq.readyWait - 1 ELSE jq.readyWait
           left   == IF wait THEN pushed ELSE pushed - 1
           fires  == pushed = 0 \/ (~wait /\ ~jq.isReady)
<1>1. /\ jq \in ReadyRecord /\ jq.readyWait \in Int /\ jq.isReady \in BOOLEAN
      /\ jq.gone \in BOOLEAN /\ jq.list \in Seq(Functions)
      /\ holds \in [now : Nat, ever : Nat] /\ holds.now <= holds.ever
      /\ called \in Seq(Functions) /\ dropped \subseteq Functions /\ body \in BOOLEAN
  BY DEF ReadyInv, ReadyShape, ReadyRecord
<1>2. /\ holds' \in [now : Nat, ever : Nat] /\ holds'.now <= holds'.ever
      /\ wait => holds'.now = holds.now - 1 /\ holds.now > 0
      /\ ~wait => holds'.now = holds.now
  <2>1. CASE wait
    BY <1>1, <2>1
  <2>2. CASE ~wait
    BY <1>1, <2>2
  <2> QED BY <2>1, <2>2
<1>3. /\ pushed \in Int /\ left \in Int
      /\ wait => pushed = jq.readyWait - 1 /\ left = pushed
      /\ ~wait => pushed = jq.readyWait /\ left = pushed - 1
  BY <1>1
<1>4. \/ ~fires /\ jq' = [jq EXCEPT !.readyWait = pushed] /\ UNCHANGED <<called, dropped>>
      \/ fires /\ ~body /\ jq' = [jq EXCEPT !.readyWait = pushed]
           /\ UNCHANGED <<called, dropped>>
      \/ fires /\ body /\ left > 0
           /\ jq' = [jq EXCEPT !.readyWait = left, !.isReady = TRUE]
           /\ UNCHANGED <<called, dropped>>
      \/ fires /\ body /\ ~(left > 0)
           /\ jq' = [jq EXCEPT !.readyWait = left, !.isReady = TRUE, !.list = <<>>,
                               !.gone = TRUE]
           /\ Run
  BY DEF ready
<1>5. fires <=> pushed = 0 \/ (~wait /\ ~jq.isReady)
  OBVIOUS
<1> HIDE DEF pushed, left, fires
<1>6. ASSUME jq' = [jq EXCEPT !.readyWait = pushed], UNCHANGED <<called, dropped>>,
             ~fires \/ ~body
      PROVE  ReadyInv'
  <2>1. /\ jq' \in ReadyRecord /\ jq'.readyWait = pushed /\ jq'.isReady = jq.isReady
        /\ jq'.gone = jq.gone /\ jq'.list = jq.list
    BY <1>1, <1>3, <1>6 DEF ReadyRecord
  <2>2. ReadyShape'
    BY <1>1, <1>2, <1>6, <2>1 DEF ReadyInv, ReadyShape
  <2>3. Apart(called, jq.list)'
    BY <1>6, <2>1 DEF ReadyInv, Apart
  <2>4. CASE wait
    <3>1. /\ holds'.now = holds.now - 1 /\ holds.now > 0 /\ pushed = jq.readyWait - 1
          /\ holds.now \in Nat
      BY <1>1, <1>2, <1>3, <2>4
    <3>2. ~jq.isReady => pushed = holds'.now + 1
      BY <1>1, <3>1 DEF ReadyInv, HoldsCount
    <3>3. jq.isReady /\ ~jq.gone => pushed = holds'.now /\ holds'.now > 0
      <4> SUFFICES ASSUME jq.isReady, ~jq.gone PROVE pushed = holds'.now /\ holds'.now > 0
        OBVIOUS
      <4>1. jq.readyWait = holds.now /\ body
        BY DEF ReadyInv, HoldsCount
      <4>2. pushed # 0
        BY <1>5, <1>6, <4>1
      <4> QED BY <3>1, <4>1, <4>2
    <3>4. ~jq.gone
      BY <3>1 DEF ReadyInv, HoldsCount
    <3>5. HoldsCount'
      BY <2>1, <3>2, <3>3, <3>4 DEF ReadyInv, HoldsCount
    <3> QED BY <1>6, <2>2, <2>3, <3>5 DEF ReadyInv, RunInTime
  <2>5. CASE ~wait
    BY <1>2, <1>3, <1>6, <2>1, <2>2, <2>3, <2>5 DEF ReadyInv, HoldsCount, RunInTime
  <2> QED BY <2>4, <2>5
<1>7. ASSUME fires, body, left > 0, jq' = [jq EXCEPT !.readyWait = left, !.isReady = TRUE],
             UNCHANGED <<called, dropped>>
      PROVE  ReadyInv'
  <2>1. /\ jq' \in ReadyRecord /\ jq'.readyWait = left /\ jq'.isReady = TRUE
        /\ jq'.gone = jq.gone /\ jq'.list = jq.list
    BY <1>1, <1>3, <1>7 DEF ReadyRecord
  <2>2. ReadyShape'
    BY <1>1, <1>2, <1>7, <2>1 DEF ReadyInv, ReadyShape
  <2>3. Apart(called, jq.list)'
    BY <1>7, <2>1 DEF ReadyInv, Apart
  <2>4. ~wait /\ pushed = jq.readyWait /\ left = pushed - 1
    BY <1>3, <1>5, <1>7
  <2>5. ~jq.isReady
    BY <1>3, <1>5, <1>7, <2>4
  <2>6. ~jq.gone /\ left = holds'.now /\ holds'.now > 0
    BY <1>1, <1>2, <1>7, <2>4, <2>5 DEF ReadyInv, HoldsCount
  <2>7. HoldsCount'
    BY <1>7, <2>1, <2>6 DEF HoldsCount
  <2> QED BY <1>7, <2>2, <2>3, <2>7 DEF ReadyInv, RunInTime
<1>8. ASSUME fires, body, ~(left > 0), Run,
             jq' = [jq EXCEPT !.readyWait = left, !.isReady = TRUE, !.list = <<>>,
                              !.gone = TRUE]
      PROVE  ReadyInv'
  <2>1. /\ jq' \in ReadyRecord /\ jq'.readyWait = left /\ jq'.isReady = TRUE
        /\ jq'.gone = TRUE /\ jq'.list = <<>>
    <3>1. <<>> \in Seq(Functions)
      OBVIOUS
    <3> QED BY <1>1, <1>3, <1>8, <3>1 DEF ReadyRecord
  <2>2. /\ called' \in Seq(Functions) /\ IsInjective(called') /\ dropped' \subseteq Functions
        /\ ToSet(called) \subseteq ToSet(called')
        /\ dropped' # dropped => ToSet(called') \cap Raising # {}
    BY <1>1, <1>8, RunCalls DEF ReadyInv
  <2>3. ReadyShape'
    BY <1>1, <1>2, <2>1, <2>2 DEF ReadyInv, ReadyShape
  <2>4. Apart(called, jq.list)'
    <3>1. IsInjective(<<>>) /\ DOMAIN <<>> = {}
      BY DEF IsInjective
    <3> QED BY <2>1, <2>2, <3>1 DEF Apart
  <2>5. holds'.now = 0
    <3>1. CASE wait
      <4>1. /\ holds'.now = holds.now - 1 /\ holds.now > 0 /\ jq.readyWait = 1
            /\ holds.now \in Nat
        BY <1>1, <1>2, <1>3, <1>5, <1>8, <3>1
      <4>2. jq.isReady
        BY <4>1 DEF ReadyInv, HoldsCount
      <4>3. ~jq.gone
        BY <4>1 DEF ReadyInv, HoldsCount
      <4>4. jq.readyWait = holds.now
        BY <4>2, <4>3 DEF ReadyInv, HoldsCount
      <4> QED BY <4>1, <4>4
    <3>2. CASE ~wait
      <4>1. holds'.now = holds.now /\ holds.now \in Nat /\ pushed = jq.readyWait
            /\ left = jq.readyWait - 1
        BY <1>1, <1>2, <1>3, <3>2
      <4>2. CASE ~jq.isReady
        BY <1>1, <1>8, <4>1, <4>2 DEF ReadyInv, HoldsCount
      <4>3. CASE jq.isReady
        <5>1. jq.readyWait = 0
          BY <1>5, <1>8, <4>1, <4>3
        <5> QED BY <4>1, <4>3, <5>1 DEF ReadyInv, HoldsCount
      <4> QED BY <4>2, <4>3
    <3> QED BY <3>1, <3>2
  <2>6. HoldsCount'
    <3>1. left <= 0
      BY <1>3, <1>8
    <3> QED BY <1>8, <2>1, <2>5, <3>1 DEF HoldsCount
  <2>7. RunInTime'
    <3>1. CASE dropped' = dropped
      BY <1>8, <2>2, <3>1 DEF ReadyInv, RunInTime
    <3>2. CASE dropped' # dropped
      BY <1>8, <2>2, <3>2 DEF RunInTime
    <3> QED BY <3>1, <3>2
  <2> QED BY <2>3, <2>4, <2>6, <2>7 DEF ReadyInv
<1> QED BY <1>4, <1>6, <1>7, <1>8

LEMMA RegisterKeeps ==
  ASSUME ReadyInv, NEW f \in Functions, Register(f)
  PROVE  ReadyInv'
<1>1. /\ jq \in ReadyRecord /\ jq.isReady \in BOOLEAN
      /\ jq.list \in Seq(Functions) /\ called \in Seq(Functions)
  BY DEF ReadyInv, ReadyShape, ReadyRecord
<1>2. /\ f \notin ToSet(called) /\ f \notin ToSet(jq.list)
      /\ UNCHANGED <<state, body, holds, dropped>>
      /\ jq' = [jq EXCEPT !.bound = TRUE,
                          !.list = IF jq.isReady THEN jq.list ELSE Append(jq.list, f)]
      /\ called' = IF jq.isReady THEN Append(called, f) ELSE called
  BY DEF Register, Passed
<1>3. /\ Append(jq.list, f) \in Seq(Functions) /\ Append(called, f) \in Seq(Functions)
      /\ Append(called, f) # <<>>
  BY <1>1
<1>4. Apart(Append(called, f), jq.list) /\ Apart(called, Append(jq.list, f))
  BY <1>1, <1>2, ApartAppend DEF ReadyInv
<1>5. CASE jq.isReady
  <2>1. /\ jq' \in ReadyRecord /\ jq'.list = jq.list /\ jq'.isReady = jq.isReady
        /\ jq'.gone = jq.gone /\ jq'.readyWait = jq.readyWait /\ called' = Append(called, f)
    BY <1>1, <1>2, <1>5 DEF ReadyRecord
  <2>2. ReadyShape'
    BY <1>2, <1>3, <2>1 DEF ReadyInv, ReadyShape
  <2>3. Apart(called, jq.list)'
    BY <1>4, <2>1 DEF Apart
  <2>4. HoldsCount'
    BY <1>2, <2>1 DEF ReadyInv, HoldsCount
  <2>5. ToSet(called) \subseteq ToSet(called')
    <3>1. \A i \in DOMAIN called : i \in DOMAIN called' /\ called'[i] = called[i]
      BY <1>1, <2>1
    <3> QED BY <3>1 DEF ToSet
  <2>6. RunInTime'
    BY <1>2, <1>5, <2>5 DEF ReadyInv, HoldsCount, RunInTime
  <2> QED BY <2>2, <2>3, <2>4, <2>6 DEF ReadyInv
<1>6. CASE ~jq.isReady
  <2>1. /\ jq' \in ReadyRecord /\ jq'.list = Append(jq.list, f) /\ jq'.isReady = jq.isReady
        /\ jq'.gone = jq.gone /\ jq'.readyWait = jq.readyWait /\ called' = called
    BY <1>1, <1>2, <1>3, <1>6 DEF ReadyRecord
  <2>2. ReadyShape'
    BY <1>2, <2>1 DEF ReadyInv, ReadyShape
  <2>3. Apart(called, jq.list)'
    BY <1>4, <2>1 DEF Apart
  <2>4. HoldsCount' /\ RunInTime'
    BY <1>2, <1>6, <2>1 DEF ReadyInv, HoldsCount, RunInTime
  <2> QED BY <2>2, <2>3, <2>4 DEF ReadyInv
<1> QED BY <1>5, <1>6

LEMMA HoldKeeps == ASSUME ReadyInv, Hold PROVE ReadyInv'
<1>1. /\ jq \in ReadyRecord /\ jq.readyWait \in Int
      /\ holds \in [now : Nat, ever : Nat] /\ holds.now <= holds.ever
  BY DEF ReadyInv, ReadyShape, ReadyRecord
<1>2. /\ ~jq.isReady /\ holds' = [now |-> holds.now + 1, ever |-> holds.ever + 1]
      /\ jq' = [jq EXCEPT !.readyWait = @ + 1]
      /\ UNCHANGED <<state, body, called, dropped>>
  BY DEF Hold
<1>3. /\ jq' \in ReadyRecord /\ jq'.list = jq.list /\ jq'.isReady = jq.isReady
      /\ jq'.gone = jq.gone /\ jq'.readyWait = jq.readyWait + 1
  BY <1>1, <1>2 DEF ReadyRecord
<1>4. /\ holds' \in [now : Nat, ever : Nat] /\ holds'.now <= holds'.ever
      /\ holds'.now = holds.now + 1
  BY <1>1, <1>2
<1>5. ReadyShape'
  BY <1>2, <1>3, <1>4 DEF ReadyInv, ReadyShape
<1>6. Apart(called, jq.list)'
  BY <1>2, <1>3 DEF ReadyInv, Apart
<1>7. HoldsCount' /\ RunInTime'
  BY <1>1, <1>2, <1>3, <1>4 DEF ReadyInv, HoldsCount, RunInTime
<1> QED BY <1>5, <1>6, <1>7 DEF ReadyInv

LEMMA ReadySteps == ReadyInv /\ [ReadyNext]_readyVars => ReadyInv'
<1> SUFFICES ASSUME ReadyInv, [ReadyNext]_readyVars PROVE ReadyInv'
  OBVIOUS
<1>1. CASE UNCHANGED readyVars
  BY <1>1 DEF readyVars, ReadyInv, ReadyShape, Apart, HoldsCount, RunInTime
<1>2. ASSUME NEW f \in Functions, Register(f) PROVE ReadyInv'
  BY <1>2, RegisterKeeps
<1>3. CASE ReleaseHold
  <2>1. /\ holds.now > 0 /\ holds' = [holds EXCEPT !.now = @ - 1] /\ ready(TRUE, callers)
        /\ UNCHANGED <<state, body>>
    BY <1>3 DEF ReleaseHold
  <2> QED BY <2>1, ReadyKeeps
<1>4. CASE BodyParsed
  <2>1. body' = TRUE /\ UNCHANGED <<state, jq, holds, called, dropped>>
    BY <1>4 DEF BodyParsed
  <2> QED BY <2>1 DEF ReadyInv, ReadyShape, Apart, HoldsCount, RunInTime
<1>5. CASE DocumentProceeds
  <2>1. /\ state' \in {"loading", "interactive", "complete"}
        /\ UNCHANGED <<body, jq, holds, called, dropped>>
    BY <1>5 DEF DocumentProceeds
  <2> QED BY <2>1 DEF ReadyInv, ReadyShape, Apart, HoldsCount, RunInTime
<1>6. ASSUME NEW caller, ReadyEvent(caller) \/ IEEvent(caller) PROVE ReadyInv'
  <2>1. ready(FALSE, callers \ {caller}) /\ UNCHANGED <<state, body, holds>>
    BY <1>6 DEF ReadyEvent, IEEvent
  <2> QED BY <2>1, ReadyKeeps
<1> QED BY <1>1, <1>2, <1>3, <1>4, <1>5, <1>6, HoldKeeps DEF ReadyNext

LEMMA ReadyHolds == ReadyInv => ReadyTypeOK /\ ReadyOnce
<1> SUFFICES ASSUME ReadyInv PROVE ReadyTypeOK /\ ReadyOnce
  OBVIOUS
<1>1. /\ jq.list \in Seq(Functions) /\ called \in Seq(Functions) /\ dropped \subseteq Functions
      /\ jq.readyWait \in Int /\ jq.isReady \in BOOLEAN /\ jq.gone \in BOOLEAN
  BY DEF ReadyInv, ReadyShape, ReadyRecord
<1>2. ToSet(jq.list) \subseteq Functions /\ ToSet(called) \subseteq Functions
  <2>1. /\ \A i \in DOMAIN jq.list : jq.list[i] \in Functions
        /\ \A i \in DOMAIN called : called[i] \in Functions
    BY <1>1
  <2> QED BY <2>1 DEF ToSet
<1>3. ReadyTypeOK
  BY <1>1, <1>2 DEF ReadyInv, ReadyShape, ReadyTypeOK
<1>4. holds.now = 0 /\ jq.list # <<>> => ~jq.isReady
  BY DEF ReadyInv, HoldsCount
<1>5. ReadyOnce
  BY <1>4 DEF ReadyInv, Apart, HoldsCount, RunInTime, ReadyOnce
<1> QED BY <1>3, <1>5

-----------------------------------------------------------------------------
(* The data of elements (DomData).                                         *)

IsEntry(x) ==
    x = [data |-> x.data, events |-> x.events, handle |-> x.handle] /\ x.handle \in BOOLEAN

\* What the browser calls for an element, leaving out what removeData left behind.
Heard(d, n, lost) == {l \in d.listeners[n] : l.handle \notin lost}
Owed(d, n) == {[type |-> t, handle |-> d.expando[n]] : t \in Entry(d, n).events}

IsDom(d) ==
    /\ d = [uuid |-> d.uuid, expando |-> d.expando, cache |-> d.cache,
            listeners |-> d.listeners]
    /\ d.uuid \in Nat /\ d.expando \in [Nodes -> 0..d.uuid]
    /\ DOMAIN d.cache \subseteq 1..d.uuid
    /\ d.cache = [i \in DOMAIN d.cache |-> d.cache[i]]
    /\ \A i \in DOMAIN d.cache : IsEntry(d.cache[i])
    /\ d.listeners = [n \in Nodes |-> d.listeners[n]]
    /\ \A n \in Nodes : \A l \in d.listeners[n] : l.handle \in 1..d.uuid

\* Each number has one element and an entry, or the element let go of it.
Numbers(d, lost) ==
    /\ \A n \in Nodes : d.expando[n] \notin lost
    /\ \A n \in Nodes : d.expando[n] # 0 => d.expando[n] \in DOMAIN d.cache
    /\ \A n, m \in Nodes : d.expando[n] # 0 /\ d.expando[m] = d.expando[n] => m = n
    /\ DOMAIN d.cache = ({d.expando[n] : n \in Nodes} \ {0}) \cup lost

InTune(d, lost, n) ==
    /\ Heard(d, n, lost) = Owed(d, n)
    /\ Entry(d, n).handle <=> Entry(d, n).events # {}

DataFits(d, lost) == IsDom(d) /\ Numbers(d, lost) /\ \A n \in Nodes : InTune(d, lost, n)

DomInv ==
    /\ DataFits(dom, leaked)
    /\ cleaned \subseteq Nodes /\ \A n \in cleaned : dom.expando[n] = 0

LEMMA DomInvFits == DomInv => CacheFits
BY DEF DomInv, DataFits, Numbers, InTune, Heard, Owed, CacheFits

\* An element without a number has no entry.
LEMMA NoNumber ==
  ASSUME NEW d, IsDom(d), NEW n \in Nodes, d.expando[n] = 0
  PROVE  Entry(d, n) = NoEntry /\ 0 \notin DOMAIN d.cache
BY DEF IsDom, Entry

\* What an element says depends on its own entry and listeners.
LEMMA AnswersAlike ==
  ASSUME NEW d, NEW e, NEW lost, NEW n \in Nodes, InTune(d, lost, n),
         e.expando[n] = d.expando[n], e.listeners[n] = d.listeners[n], Entry(e, n) = Entry(d, n)
  PROVE  InTune(e, lost, n)
BY DEF InTune, Heard, Owed

\* An element has its entry, and gets one if it had no number.
GivenNumber(d, e, n, lost) ==
    /\ DataFits(e, lost) /\ e.expando[n] # 0 /\ e.listeners = d.listeners /\ d.uuid <= e.uuid
    /\ \A m \in Nodes : e.expando[m] # d.expando[m] => d.expando[m] = 0
    /\ \A m \in Nodes \ {n} : e.expando[m] = d.expando[m]
    /\ Entry(e, n) = Entry(d, n)

LEMMA NumberedFits ==
  ASSUME NEW d, NEW lost, DataFits(d, lost), NEW n \in Nodes
  PROVE  GivenNumber(d, Numbered(d, n), n, lost)
<1> DEFINE e == Numbered(d, n)
<1>0. IsDom(d) /\ Numbers(d, lost) /\ \A m \in Nodes : InTune(d, lost, m)
  BY DEF DataFits
<1>1. CASE d.expando[n] # 0
  <2>1. e = d
    BY <1>1 DEF Numbered
  <2> QED BY <1>0, <1>1, <2>1 DEF GivenNumber, IsDom
<1>2. CASE d.expando[n] = 0
  <2> DEFINE k  == d.uuid + 1
             ex == [d.expando EXCEPT ![n] = k]
             ca == [i \in DOMAIN d.cache \cup {k} |-> IF i \in DOMAIN d.cache THEN d.cache[i]
                                                      ELSE NoEntry]
  <2>1. e = [uuid |-> k, expando |-> ex, cache |-> ca, listeners |-> d.listeners]
    BY <1>0, <1>2 DEF Numbered, IsDom
  <2>2. /\ e.uuid = k /\ e.expando = ex /\ e.cache = ca /\ e.listeners = d.listeners
        /\ k \in Nat /\ k = d.uuid + 1 /\ d.uuid \in Nat
    BY <1>0, <2>1 DEF IsDom
  <2>3. /\ ex \in [Nodes -> 0..k] /\ ex[n] = k /\ \A m \in Nodes \ {n} : ex[m] = d.expando[m]
        /\ \A m \in Nodes : d.expando[m] \in 0..d.uuid
    BY <1>0, <2>2 DEF IsDom
  <2>4. /\ DOMAIN ca = DOMAIN d.cache \cup {k} /\ k \notin DOMAIN d.cache /\ k # 0
        /\ \A i \in DOMAIN d.cache : ca[i] = d.cache[i]
        /\ ca[k] = NoEntry /\ DOMAIN d.cache \subseteq 1..d.uuid
    BY <1>0, <2>2 DEF IsDom
  <2>5. IsEntry(NoEntry) /\ NoEntry.events = {} /\ NoEntry.handle = FALSE
    BY DEF IsEntry, NoEntry
  <2>c. ca = [i \in DOMAIN ca |-> ca[i]]
    OBVIOUS
  <2> HIDE DEF k, ex, ca, e
  <2>6. IsDom(e)
    <3>1. DOMAIN ca \subseteq 1..k
      BY <2>2, <2>4
    <3>2. \A i \in DOMAIN ca : IsEntry(ca[i])
      BY <1>0, <2>4, <2>5 DEF IsDom
    <3>3. e = [uuid |-> e.uuid, expando |-> e.expando, cache |-> e.cache,
               listeners |-> e.listeners]
      BY <2>1, <2>2
    <3>4. \A m \in Nodes : \A l \in d.listeners[m] : l.handle \in 1..k
      BY <1>0, <2>2 DEF IsDom
    <3> QED BY <1>0, <2>2, <2>3, <2>c, <3>1, <3>2, <3>3, <3>4 DEF IsDom
  <2>7. k \notin lost /\ lost \subseteq DOMAIN d.cache
    BY <1>0, <2>4 DEF Numbers
  <2>8. Numbers(e, lost)
    <3>1. {ex[m] : m \in Nodes} \ {0} = ({d.expando[m] : m \in Nodes} \ {0}) \cup {k}
      BY <1>2, <2>3, <2>4
    <3>2. DOMAIN e.cache = ({e.expando[m] : m \in Nodes} \ {0}) \cup lost
      BY <1>0, <2>2, <2>4, <3>1 DEF Numbers
    <3>3. \A x, y \in Nodes : ex[x] # 0 /\ ex[y] = ex[x] => y = x
      BY <1>0, <2>2, <2>3 DEF Numbers
    <3> QED BY <1>0, <2>2, <2>3, <2>4, <2>7, <3>2, <3>3 DEF Numbers
  <2>9. ASSUME NEW m \in Nodes PROVE InTune(e, lost, m) /\ Entry(e, m) = Entry(d, m)
    <3>1. CASE m # n
      <4>1. d.expando[m] # k
        BY <2>2, <2>3
      <4>2. Entry(e, m) = Entry(d, m)
        BY <2>2, <2>3, <2>4, <3>1, <4>1 DEF Entry
      <4> QED BY <1>0, <2>2, <2>3, <3>1, <4>2, AnswersAlike
    <3>2. CASE m = n
      <4>1. Entry(e, n) = NoEntry /\ Entry(d, n) = NoEntry
        BY <1>0, <1>2, <2>2, <2>3, <2>4, NoNumber DEF Entry
      <4>2. Heard(d, n, lost) = {}
        BY <1>0, <2>5, <4>1 DEF InTune, Owed
      <4>3. Heard(e, n, lost) = {}
        BY <2>2, <4>2 DEF Heard
      <4> QED BY <2>5, <3>2, <4>1, <4>3 DEF InTune, Owed
    <3> QED BY <3>1, <3>2
  <2>10. DataFits(e, lost)
    BY <2>6, <2>8, <2>9 DEF DataFits
  <2>11. d.uuid <= e.uuid /\ e.expando[n] # 0
    BY <2>2, <2>3, <2>4
  <2> QED BY <1>2, <2>2, <2>3, <2>9, <2>10, <2>11 DEF GivenNumber, e
<1> QED BY <1>1, <1>2

\* An element's entry and its listeners change together.
\* The listeners ls of an element are those that its entry asks for.
Serve(ls, d, n, entry, lost) ==
    /\ \A l \in ls : l.handle \in 1..d.uuid
    /\ {l \in ls : l.handle \notin lost}
         = {[type |-> t, handle |-> d.expando[n]] : t \in entry.events}
    /\ IsEntry(entry) /\ (entry.handle <=> entry.events # {})

Rewritten(d, e, n, entry, ls) ==
    e = [d EXCEPT !.cache = [@ EXCEPT ![d.expando[n]] = entry],
                  !.listeners = [@ EXCEPT ![n] = ls]]

KeepsNumbers(d, e, lost) == DataFits(e, lost) /\ e.expando = d.expando /\ e.uuid = d.uuid

LEMMA StoredFits ==
  ASSUME NEW d, NEW lost, DataFits(d, lost), NEW n \in Nodes, d.expando[n] # 0,
         NEW entry, NEW ls, Serve(ls, d, n, entry, lost),
         NEW e, Rewritten(d, e, n, entry, ls)
  PROVE  KeepsNumbers(d, e, lost)
<1> DEFINE k  == d.expando[n]
           ca == [d.cache EXCEPT ![k] = entry]
           li == [d.listeners EXCEPT ![n] = ls]
<1>0. IsDom(d) /\ Numbers(d, lost) /\ \A m \in Nodes : InTune(d, lost, m)
  BY DEF DataFits
<1>1. e = [uuid |-> d.uuid, expando |-> d.expando, cache |-> ca, listeners |-> li]
  BY <1>0 DEF IsDom, Rewritten
<1>2. e.uuid = d.uuid /\ e.expando = d.expando /\ e.cache = ca /\ e.listeners = li
  BY <1>1
<1>3. /\ k \in DOMAIN d.cache /\ DOMAIN ca = DOMAIN d.cache /\ ca[k] = entry
      /\ \A i \in DOMAIN d.cache \ {k} : ca[i] = d.cache[i]
  BY <1>0 DEF Numbers
<1>4. li[n] = ls /\ \A m \in Nodes \ {n} : li[m] = d.listeners[m]
  BY <1>0 DEF IsDom
<1>c. ca = [i \in DOMAIN ca |-> ca[i]] /\ li = [m \in Nodes |-> li[m]]
  BY <1>0 DEF IsDom
<1>d. \A m \in Nodes \ {n} : d.expando[m] # k
  BY <1>0 DEF Numbers
<1>e. k = d.expando[n]
  OBVIOUS
<1>f. /\ \A l \in ls : l.handle \in 1..d.uuid
      /\ {l \in ls : l.handle \notin lost}
           = {[type |-> t, handle |-> d.expando[n]] : t \in entry.events}
      /\ IsEntry(entry) /\ (entry.handle <=> entry.events # {})
  BY DEF Serve
<1> HIDE DEF ca, li, k
<1>5. IsDom(e)
  <2>1. \A i \in DOMAIN ca : IsEntry(ca[i])
    BY <1>0, <1>3, <1>f DEF IsDom
  <2>2. \A m \in Nodes : \A l \in li[m] : l.handle \in 1..d.uuid
    BY <1>0, <1>4, <1>f DEF IsDom
  <2>3. e = [uuid |-> e.uuid, expando |-> e.expando, cache |-> e.cache, listeners |-> e.listeners]
    BY <1>1, <1>2
  <2> QED BY <1>0, <1>2, <1>3, <1>c, <2>1, <2>2, <2>3 DEF IsDom
<1>6. Numbers(e, lost)
  BY <1>0, <1>2, <1>3 DEF Numbers
<1>7. Entry(e, n) = entry
  BY <1>2, <1>3, <1>e DEF Entry
<1>8. ASSUME NEW m \in Nodes PROVE InTune(e, lost, m)
  <2>1. CASE m = n
    <3>1. Heard(e, n, lost) = {l \in ls : l.handle \notin lost}
      BY <1>2, <1>4 DEF Heard
    <3>2. Owed(e, n) = {[type |-> t, handle |-> d.expando[n]] : t \in entry.events}
      BY <1>2, <1>7 DEF Owed
    <3> QED BY <1>7, <1>f, <2>1, <3>1, <3>2 DEF InTune
  <2>2. CASE m # n
    <3>1. Entry(e, m) = Entry(d, m)
      BY <1>2, <1>3, <1>d, <2>2 DEF Entry
    <3>2. /\ e.expando[m] = d.expando[m] /\ e.listeners[m] = d.listeners[m]
          /\ InTune(d, lost, m)
      BY <1>0, <1>2, <1>4, <2>2
    <3> QED BY <3>1, <3>2, AnswersAlike
  <2> QED BY <2>1, <2>2
<1> QED BY <1>2, <1>5, <1>6, <1>8 DEF DataFits, KeepsNumbers

\* The element that lets go of its number leaves an entry behind.
LEMMA ForgottenFits ==
  ASSUME NEW d, NEW lost, DataFits(d, lost), NEW n \in Nodes, d.expando[n] # 0
  PROVE  /\ DataFits(Forgotten(d, n), lost \cup {d.expando[n]})
         /\ Forgotten(d, n).expando[n] = 0
         /\ \A m \in Nodes \ {n} : Forgotten(d, n).expando[m] = d.expando[m]
         /\ Forgotten(d, n).cache = d.cache
<1> DEFINE e    == Forgotten(d, n)
           k    == d.expando[n]
           all  == lost \cup {k}
           ex   == [d.expando EXCEPT ![n] = 0]
<1>0. IsDom(d) /\ Numbers(d, lost) /\ \A m \in Nodes : InTune(d, lost, m)
  BY DEF DataFits
<1>1. e = [uuid |-> d.uuid, expando |-> ex, cache |-> d.cache, listeners |-> d.listeners]
  BY <1>0 DEF IsDom, Forgotten
<1>2. e.uuid = d.uuid /\ e.expando = ex /\ e.cache = d.cache /\ e.listeners = d.listeners
  BY <1>1
<1>3. /\ ex \in [Nodes -> 0..d.uuid] /\ ex[n] = 0
      /\ \A m \in Nodes \ {n} : ex[m] = d.expando[m]
  BY <1>0 DEF IsDom
<1>4. /\ k # 0 /\ k \in DOMAIN d.cache /\ k \notin lost /\ 0 \notin DOMAIN d.cache
      /\ \A m \in Nodes \ {n} : d.expando[m] # k
  BY <1>0 DEF Numbers, IsDom
<1>e. k = d.expando[n]
  OBVIOUS
<1> HIDE DEF e, ex, k
<1>5. IsDom(e)
  <2>1. e = [uuid |-> e.uuid, expando |-> e.expando, cache |-> e.cache, listeners |-> e.listeners]
    BY <1>1, <1>2
  <2> QED BY <1>0, <1>2, <1>3, <2>1 DEF IsDom
<1>6. Numbers(e, all)
  <2>1. {ex[m] : m \in Nodes} \ {0} = ({d.expando[m] : m \in Nodes} \ {0}) \ {k}
    BY <1>3, <1>4, <1>e
  <2>2. DOMAIN e.cache = ({e.expando[m] : m \in Nodes} \ {0}) \cup all
    <3> DEFINE S == {d.expando[m] : m \in Nodes}
    <3>1. k \in S
      BY <1>e
    <3>2. DOMAIN d.cache = (S \ {0}) \cup lost
      BY <1>0 DEF Numbers
    <3>3. {e.expando[m] : m \in Nodes} \ {0} = (S \ {0}) \ {k}
      BY <1>2, <2>1
    <3> HIDE DEF S
    <3>4. (S \ {0}) \cup lost = ((S \ {0}) \ {k}) \cup (lost \cup {k})
      BY <1>4, <3>1
    <3> QED BY <1>2, <3>2, <3>3, <3>4
  <2>3. \A m \in Nodes : ex[m] \notin all
    BY <1>0, <1>3, <1>4 DEF Numbers
  <2>4. \A x, y \in Nodes : ex[x] # 0 /\ ex[y] = ex[x] => y = x
    BY <1>0, <1>3 DEF Numbers
  <2>5. \A m \in Nodes : ex[m] # 0 => ex[m] \in DOMAIN d.cache
    BY <1>0, <1>3 DEF Numbers
  <2> QED BY <1>2, <2>2, <2>3, <2>4, <2>5 DEF Numbers
<1>7. ASSUME NEW m \in Nodes PROVE InTune(e, all, m)
  <2>1. CASE m = n
    <3>1. Entry(e, n) = NoEntry
      BY <1>2, <1>3, <1>4 DEF Entry
    <3>2. \A l \in Heard(d, n, lost) : l.handle = k
      BY <1>0, <1>e DEF InTune, Owed
    <3>3. Heard(e, n, all) = {}
      BY <1>2, <3>2 DEF Heard
    <3> QED BY <2>1, <3>1, <3>3 DEF InTune, Owed, NoEntry
  <2>2. CASE m # n
    <3>1. Entry(e, m) = Entry(d, m) /\ e.expando[m] = d.expando[m]
      BY <1>2, <1>3, <2>2 DEF Entry
    <3>2. \A l \in Heard(d, m, lost) : l.handle # k
      BY <1>0, <1>4, <2>2 DEF InTune, Owed
    <3>3. Heard(e, m, all) = Heard(d, m, lost)
      BY <1>2, <3>2 DEF Heard
    <3>4. Owed(e, m) = Owed(d, m)
      BY <3>1 DEF Owed
    <3> QED BY <1>0, <3>1, <3>3, <3>4 DEF InTune
  <2> QED BY <2>1, <2>2
<1>8. DataFits(e, all)
  BY <1>5, <1>6, <1>7 DEF DataFits
<1> QED BY <1>2, <1>3, <1>8, <1>e DEF e

\* The numbers that leak when at most n lets go of its number.
LEMMA NoneLeaks ==
  ASSUME NEW d, NEW e, IsDom(e), \A m \in Nodes : e.expando[m] # d.expando[m] => d.expando[m] = 0
  PROVE  Leaks(d, e) = {}
BY DEF Leaks, IsDom

LEMMA OneLeaks ==
  ASSUME NEW d, NEW e, IsDom(e), NEW n \in Nodes, d.expando[n] \in DOMAIN e.cache,
         e.expando[n] # d.expando[n],
         \A m \in Nodes \ {n} : e.expando[m] # d.expando[m] => d.expando[m] = 0
  PROVE  Leaks(d, e) = {d.expando[n]}
BY DEF Leaks, IsDom

\* An element that is used: what it had and what leaks still fits.
Used(d, e, n, lost) ==
    /\ DataFits(e, lost \cup Leaks(d, e))
    /\ \A m \in Nodes \ {n} : d.expando[m] = 0 => e.expando[m] = 0

LEMMA WithDataFits ==
  ASSUME NEW d, NEW lost, DataFits(d, lost), NEW n \in Nodes, NEW keys
  PROVE  Used(d, WithData(d, n, keys), n, lost)
<1> DEFINE e     == Numbered(d, n)
           old   == Entry(e, n)
           entry == [old EXCEPT !.data = @ \cup keys]
           a     == WithData(d, n, keys)
<1>1. GivenNumber(d, e, n, lost)
  BY NumberedFits
<1>2. DataFits(e, lost) /\ IsDom(e) /\ InTune(e, lost, n) /\ e.expando[n] # 0
  BY <1>1 DEF GivenNumber, DataFits
<1>3. old = e.cache[e.expando[n]] /\ IsEntry(old)
  BY <1>2 DEF DataFits, Numbers, Entry, IsDom
<1>4. /\ entry = [data |-> old.data \cup keys, events |-> old.events, handle |-> old.handle]
  BY <1>3 DEF IsEntry
<1>5. IsEntry(entry) /\ entry.events = old.events /\ entry.handle = old.handle
  BY <1>3, <1>4 DEF IsEntry
<1>6. Rewritten(e, a, n, entry, e.listeners[n])
  <2>1. e.listeners = [e.listeners EXCEPT ![n] = e.listeners[n]]
    BY <1>2 DEF IsDom
  <2>2. a = [e EXCEPT !.cache[e.expando[n]] = entry]
    BY DEF WithData, Stored
  <2> QED BY <1>2, <2>1, <2>2 DEF IsDom, Rewritten
<1>7. Serve(e.listeners[n], e, n, entry, lost)
  BY <1>2, <1>5 DEF IsDom, InTune, Heard, Owed, Serve
<1> HIDE DEF e, old, entry, a
<1>k. KeepsNumbers(e, a, lost)
  BY <1>2, <1>6, <1>7, StoredFits
<1>8. DataFits(a, lost) /\ a.expando = e.expando
  BY <1>k DEF KeepsNumbers
<1>9. Leaks(d, a) = {}
  <2>1. IsDom(a)
    BY <1>8 DEF DataFits
  <2>2. \A m \in Nodes : a.expando[m] # d.expando[m] => d.expando[m] = 0
    BY <1>1, <1>8 DEF GivenNumber
  <2> QED BY <2>1, <2>2, NoneLeaks
<1>10. lost \cup {} = lost
  OBVIOUS
<1> QED BY <1>1, <1>8, <1>9, <1>10 DEF Used, GivenNumber, a

LEMMA WithHandlerFits ==
  ASSUME NEW d, NEW lost, DataFits(d, lost), NEW n \in Nodes, NEW t
  PROVE  Used(d, WithHandler(d, n, t), n, lost)
<1> DEFINE e     == Numbered(d, n)
           k     == e.expando[n]
           old   == Entry(e, n)
           entry == [old EXCEPT !.events = @ \cup {t}, !.handle = TRUE]
           mine  == [type |-> t, handle |-> k]
           ls    == IF t \notin old.events THEN e.listeners[n] \cup {mine} ELSE e.listeners[n]
           a     == WithHandler(d, n, t)
<1>1. GivenNumber(d, e, n, lost)
  BY NumberedFits
<1>2. DataFits(e, lost) /\ IsDom(e) /\ Numbers(e, lost) /\ InTune(e, lost, n) /\ k # 0
  BY <1>1 DEF GivenNumber, DataFits
<1>3. old = e.cache[k] /\ IsEntry(old)
  BY <1>2 DEF Numbers, Entry, IsDom
<1>4. entry = [data |-> old.data, events |-> old.events \cup {t}, handle |-> TRUE]
  <2>1. old = [data |-> old.data, events |-> old.events, handle |-> old.handle]
    BY <1>3 DEF IsEntry
  <2> HIDE DEF old
  <2>2. DOMAIN old = {"data", "events", "handle"}
    BY <2>1
  <2>3. /\ DOMAIN entry = {"data", "events", "handle"} /\ entry.data = old.data
        /\ entry.events = old.events \cup {t} /\ entry.handle = TRUE
        /\ entry = [f \in {"data", "events", "handle"} |-> entry[f]]
    BY <2>2
  <2> HIDE DEF entry
  <2> QED BY <2>3
<1>5. IsEntry(entry) /\ entry.events = old.events \cup {t} /\ entry.handle = TRUE
  BY <1>4 DEF IsEntry
<1>6. Rewritten(e, a, n, entry, ls)
  <2>1. a = [[e EXCEPT !.cache[k] = entry]
               EXCEPT !.listeners[n] = IF t \notin old.events THEN @ \cup {mine} ELSE @]
    BY DEF WithHandler, Stored
  <2> QED BY <1>2, <2>1 DEF IsDom, Rewritten
<1>7. {l \in ls : l.handle \notin lost} = {[type |-> u, handle |-> k] : u \in entry.events}
  <2>1. {l \in e.listeners[n] : l.handle \notin lost}
          = {[type |-> u, handle |-> k] : u \in old.events}
    BY <1>2 DEF InTune, Heard, Owed
  <2>2. mine = [type |-> t, handle |-> k] /\ mine.handle = k /\ k \notin lost
    BY <1>2 DEF Numbers
  <2> HIDE DEF mine, k, old, entry
  <2>3. CASE t \in old.events
    <3>1. entry.events = old.events
      BY <1>5, <2>3
    <3> QED BY <2>1, <2>3, <3>1
  <2>4. CASE t \notin old.events
    <3>1. {l \in ls : l.handle \notin lost}
            = {l \in e.listeners[n] : l.handle \notin lost} \cup {mine}
      BY <2>2, <2>4
    <3>2. {[type |-> u, handle |-> k] : u \in entry.events}
            = {[type |-> u, handle |-> k] : u \in old.events} \cup {mine}
      BY <1>5, <2>2
    <3> QED BY <2>1, <3>1, <3>2
  <2> QED BY <2>3, <2>4
<1>8. \A l \in ls : l.handle \in 1..e.uuid
  <2>1. k \in 1..e.uuid /\ \A l \in e.listeners[n] : l.handle \in 1..e.uuid
    BY <1>2 DEF IsDom
  <2> QED BY <2>1
<1>e. k = e.expando[n] /\ (entry.handle <=> entry.events # {})
  BY <1>5
<1> HIDE DEF e, k, old, entry, ls, a
<1>s. Serve(ls, e, n, entry, lost)
  BY <1>5, <1>7, <1>8, <1>e DEF Serve
<1>k. KeepsNumbers(e, a, lost)
  BY <1>2, <1>6, <1>e, <1>s, StoredFits
<1>9. DataFits(a, lost) /\ a.expando = e.expando
  BY <1>k DEF KeepsNumbers
<1>10. Leaks(d, a) = {}
  <2>1. IsDom(a)
    BY <1>9 DEF DataFits
  <2>2. \A m \in Nodes : a.expando[m] # d.expando[m] => d.expando[m] = 0
    BY <1>1, <1>9 DEF GivenNumber
  <2> QED BY <2>1, <2>2, NoneLeaks
<1>11. lost \cup {} = lost
  OBVIOUS
<1> QED BY <1>1, <1>9, <1>10, <1>11 DEF Used, GivenNumber, a

\* What becomes of an element whose entry shrinks, and may go.
LEMMA ShrunkFits ==
  ASSUME NEW d, NEW lost, DataFits(d, lost), NEW n \in Nodes, d.expando[n] # 0,
         NEW entry, NEW ls, Serve(ls, d, n, entry, lost),
         NEW c, c = [d EXCEPT !.listeners = [@ EXCEPT ![n] = ls]]
  PROVE  Used(d, Shrunk(c, n, entry), n, lost)
<1> DEFINE k == d.expando[n]
           e == Stored(c, n, entry)
           a == Shrunk(c, n, entry)
<1>1. IsDom(d) /\ Numbers(d, lost)
  BY DEF DataFits
<1>2. Rewritten(d, e, n, entry, ls)
  <2>1. c.expando = d.expando /\ c.cache = d.cache
    BY <1>1 DEF IsDom
  <2>2. e = [c EXCEPT !.cache[k] = entry]
    BY <2>1 DEF Stored
  <2> QED BY <1>1, <2>1, <2>2 DEF IsDom, Rewritten
<1>4. a = IF entry = NoEntry THEN Forgotten(e, n) ELSE e
  BY DEF Shrunk
<1>e. k = d.expando[n]
  OBVIOUS
<1> HIDE DEF e, a, k
<1>3. KeepsNumbers(d, e, lost)
  BY <1>2, StoredFits
<1>5. DataFits(e, lost) /\ e.expando = d.expando
  BY <1>3 DEF KeepsNumbers
<1>6. IsDom(e) /\ k \in DOMAIN e.cache
  BY <1>1, <1>5, <1>e DEF DataFits, Numbers
<1>7. CASE entry # NoEntry
  <2>1. Leaks(d, e) = {}
    BY <1>5, <1>6, NoneLeaks
  <2>2. lost \cup {} = lost
    OBVIOUS
  <2> QED BY <1>4, <1>5, <1>7, <2>1, <2>2 DEF Used, a
<1>8. CASE entry = NoEntry
  <2>1. a = Forgotten(e, n)
    BY <1>4, <1>8
  <2>2. /\ DataFits(a, lost \cup {k}) /\ a.expando[n] = 0 /\ a.cache = e.cache
        /\ \A m \in Nodes \ {n} : a.expando[m] = e.expando[m]
    BY <1>5, <1>e, <2>1, ForgottenFits
  <2>3. IsDom(a)
    BY <2>2 DEF DataFits
  <2>4. Leaks(d, a) = {k}
    BY <1>5, <1>6, <1>e, <2>2, <2>3, OneLeaks
  <2> QED BY <1>5, <2>2, <2>4 DEF Used, a
<1> QED BY <1>7, <1>8

LEMMA RemoveDataFits ==
  ASSUME NEW d, NEW lost, DataFits(d, lost), NEW n \in Nodes, NEW k, k \in Entry(d, n).data
  PROVE  Used(d, Shrunk(d, n, [Entry(d, n) EXCEPT !.data = @ \ {k}]), n, lost)
<1> DEFINE old   == Entry(d, n)
           entry == [old EXCEPT !.data = @ \ {k}]
<1>1. IsDom(d) /\ Numbers(d, lost) /\ InTune(d, lost, n)
  BY DEF DataFits
<1>2. d.expando[n] # 0
  BY <1>1, NoNumber DEF NoEntry
<1>3. IsEntry(old)
  BY <1>1, <1>2 DEF Numbers, Entry, IsDom
<1>4. IsEntry(entry) /\ entry.events = old.events /\ entry.handle = old.handle
  BY <1>3 DEF IsEntry
<1>5. Serve(d.listeners[n], d, n, entry, lost)
  BY <1>1, <1>4 DEF IsDom, InTune, Heard, Owed, Serve
<1>6. d = [d EXCEPT !.listeners = [@ EXCEPT ![n] = d.listeners[n]]]
  BY <1>1 DEF IsDom
<1> HIDE DEF entry
<1> QED BY <1>2, <1>5, <1>6, ShrunkFits DEF entry

LEMMA WithoutHandlerFits ==
  ASSUME NEW d, NEW lost, DataFits(d, lost), NEW n \in Nodes, NEW t, t \in Entry(d, n).events
  PROVE  Used(d, WithoutHandler(d, n, t), n, lost)
<1> DEFINE old   == Entry(d, n)
           left  == old.events \ {t}
           entry == [old EXCEPT !.events = left, !.handle = left # {}]
           mine  == [type |-> t, handle |-> d.expando[n]]
           ls    == d.listeners[n] \ {mine}
           c     == [d EXCEPT !.listeners[n] = @ \ {mine}]
<1>1. IsDom(d) /\ Numbers(d, lost) /\ InTune(d, lost, n)
  BY DEF DataFits
<1>2. d.expando[n] # 0
  BY <1>1, NoNumber DEF NoEntry
<1>3. IsEntry(old)
  BY <1>1, <1>2 DEF Numbers, Entry, IsDom
<1>4. IsEntry(entry) /\ entry.events = left /\ (entry.handle <=> left # {})
  <2>1. DOMAIN old = {"data", "events", "handle"}
    BY <1>3 DEF IsEntry
  <2>2. /\ DOMAIN entry = {"data", "events", "handle"}
        /\ entry.events = left /\ entry.handle = (left # {})
        /\ entry = [f \in {"data", "events", "handle"} |-> entry[f]]
    BY <2>1
  <2> HIDE DEF entry, left
  <2> QED BY <2>2 DEF IsEntry
<1>5. {l \in ls : l.handle \notin lost} = {[type |-> u, handle |-> d.expando[n]] : u \in left}
  <2>1. {l \in d.listeners[n] : l.handle \notin lost}
          = {[type |-> u, handle |-> d.expando[n]] : u \in old.events}
    BY <1>1 DEF InTune, Heard, Owed
  <2>2. {l \in ls : l.handle \notin lost} = {l \in d.listeners[n] : l.handle \notin lost} \ {mine}
    OBVIOUS
  <2>3. {[type |-> u, handle |-> d.expando[n]] : u \in left}
          = {[type |-> u, handle |-> d.expando[n]] : u \in old.events} \ {mine}
    OBVIOUS
  <2> QED BY <2>1, <2>2, <2>3
<1>6. Serve(ls, d, n, entry, lost)
  <2>1. \A l \in ls : l.handle \in 1..d.uuid
    BY <1>1 DEF IsDom
  <2> HIDE DEF ls, entry, left
  <2> QED BY <1>4, <1>5, <2>1 DEF Serve
<1>7. c = [d EXCEPT !.listeners = [@ EXCEPT ![n] = ls]]
  BY <1>1 DEF IsDom
<1>8. WithoutHandler(d, n, t) = Shrunk(c, n, entry)
  BY DEF WithoutHandler
<1> HIDE DEF entry, ls, c
<1> QED BY <1>2, <1>6, <1>7, <1>8, ShrunkFits

\* removeData lets go of the number.
LEMMA RemoveAllFits ==
  ASSUME NEW d, NEW lost, DataFits(d, lost), NEW n \in Nodes, d.expando[n] # 0
  PROVE  Used(d, Forgotten(d, n), n, lost)
<1> DEFINE a == Forgotten(d, n)
<1>1. /\ DataFits(a, lost \cup {d.expando[n]}) /\ a.expando[n] = 0 /\ a.cache = d.cache
      /\ \A m \in Nodes \ {n} : a.expando[m] = d.expando[m]
  BY ForgottenFits
<1> HIDE DEF a
<1>2. IsDom(a) /\ d.expando[n] \in DOMAIN a.cache
  BY <1>1 DEF DataFits, Numbers
<1>3. Leaks(d, a) = {d.expando[n]}
  BY <1>1, <1>2, OneLeaks
<1> QED BY <1>1, <1>3 DEF Used, a

\* cleanData leaves nothing of the elements.
LEMMA CleanFits ==
  ASSUME NEW d, NEW lost, DataFits(d, lost), NEW elems \in SUBSET Nodes
  PROVE  /\ DataFits(cleanData(d, elems), lost)
         /\ \A n \in Nodes : cleanData(d, elems).expando[n] = IF n \in elems THEN 0
                                                              ELSE d.expando[n]
<1> DEFINE gone == {d.expando[n] : n \in elems}
           kept(n) == {l \in d.listeners[n] : l.handle # d.expando[n]
                                              \/ l.type \notin Entry(d, n).events}
           li   == [n \in Nodes |-> IF n \notin elems THEN d.listeners[n] ELSE kept(n)]
           ex   == [n \in Nodes |-> IF n \in elems THEN 0 ELSE d.expando[n]]
           ca   == [i \in DOMAIN d.cache \ gone |-> d.cache[i]]
           e    == cleanData(d, elems)
<1>0. IsDom(d) /\ Numbers(d, lost) /\ \A m \in Nodes : InTune(d, lost, m)
  BY DEF DataFits
<1>1. e = [uuid |-> d.uuid, expando |-> ex, cache |-> ca, listeners |-> li]
  <2> DEFINE fields == {"uuid", "expando", "cache", "listeners"}
  <2>1. DOMAIN d = fields
    BY <1>0 DEF IsDom
  <2>2. DOMAIN e = fields /\ e = [f \in fields |-> e[f]]
    BY <2>1 DEF cleanData
  <2>3. e.uuid = d.uuid /\ e.expando = ex /\ e.cache = ca /\ e.listeners = li
    BY <2>1 DEF cleanData
  <2> HIDE DEF e, ex, ca, li
  <2> QED BY <2>2, <2>3
<1>2. e.uuid = d.uuid /\ e.expando = ex /\ e.cache = ca /\ e.listeners = li
  BY <1>1
<1>3. ex \in [Nodes -> 0..d.uuid] /\ \A n \in Nodes : ex[n] = IF n \in elems THEN 0 ELSE d.expando[n]
  BY <1>0 DEF IsDom
<1>4. DOMAIN ca = DOMAIN d.cache \ gone /\ \A i \in DOMAIN ca : ca[i] = d.cache[i]
  OBVIOUS
<1>5. \A n \in Nodes : li[n] = IF n \notin elems THEN d.listeners[n] ELSE kept(n)
  OBVIOUS
<1>c. ca = [i \in DOMAIN ca |-> ca[i]] /\ li = [m \in Nodes |-> li[m]]
  OBVIOUS
<1>d. \A m \in Nodes \ elems : d.expando[m] # 0 => d.expando[m] \notin gone
  BY <1>0 DEF Numbers
<1>g. \A n \in elems : d.expando[n] \in gone
  OBVIOUS
<1>h. gone \subseteq {d.expando[m] : m \in Nodes} /\ gone \cap lost = {} /\ 0 \notin DOMAIN d.cache
  BY <1>0 DEF Numbers, IsDom
<1> HIDE DEF e, ex, ca, li, gone
<1>6. IsDom(e)
  <2>1. \A i \in DOMAIN ca : IsEntry(ca[i]) /\ i \in 1..d.uuid
    BY <1>0, <1>4 DEF IsDom
  <2>2. \A m \in Nodes : \A l \in li[m] : l.handle \in 1..d.uuid
    BY <1>0, <1>5 DEF IsDom
  <2>3. e = [uuid |-> e.uuid, expando |-> e.expando, cache |-> e.cache, listeners |-> e.listeners]
    BY <1>1, <1>2
  <2> QED BY <1>0, <1>2, <1>3, <1>c, <2>1, <2>2, <2>3 DEF IsDom
<1>7. Numbers(e, lost)
  <2> DEFINE S == {d.expando[m] : m \in Nodes}
             R == {ex[m] : m \in Nodes}
  <2>1. R \ {0} = (S \ {0}) \ gone
    <3>1. ASSUME NEW x \in R \ {0} PROVE x \in (S \ {0}) \ gone
      <4>1. PICK m \in Nodes : x = ex[m]
        BY <3>1
      <4> QED BY <1>3, <1>d, <3>1, <4>1
    <3>2. ASSUME NEW x \in (S \ {0}) \ gone PROVE x \in R \ {0}
      <4>1. PICK m \in Nodes : x = d.expando[m]
        BY <3>2
      <4>2. x = ex[m]
        BY <1>3, <1>g, <3>2, <4>1
      <4> QED BY <3>2, <4>2
    <3> HIDE DEF S, R
    <3> QED BY <3>1, <3>2
  <2>2. DOMAIN d.cache = (S \ {0}) \cup lost
    BY <1>0 DEF Numbers
  <2>3. {e.expando[m] : m \in Nodes} = R
    BY <1>2
  <2> HIDE DEF S, R
  <2>4. DOMAIN e.cache = ({e.expando[m] : m \in Nodes} \ {0}) \cup lost
    BY <1>2, <1>4, <1>h, <2>1, <2>2, <2>3
  <2>5. \A m \in Nodes : ex[m] \notin lost
    BY <1>0, <1>3, <1>h, <2>2 DEF Numbers
  <2>6. \A m \in Nodes : ex[m] # 0 => ex[m] \in DOMAIN ca
    BY <1>0, <1>3, <1>4, <1>d DEF Numbers
  <2>7. \A x, y \in Nodes : ex[x] # 0 /\ ex[y] = ex[x] => y = x
    BY <1>0, <1>3 DEF Numbers
  <2> QED BY <1>2, <2>4, <2>5, <2>6, <2>7 DEF Numbers
<1>8. ASSUME NEW m \in Nodes PROVE InTune(e, lost, m)
  <2>1. CASE m \in elems
    <3>1. Entry(e, m) = NoEntry
      BY <1>2, <1>3, <1>4, <1>h, <2>1 DEF Entry
    <3>2. \A l \in Heard(d, m, lost) : l.handle = d.expando[m] /\ l.type \in Entry(d, m).events
      BY <1>0 DEF InTune, Owed
    <3>3. Heard(e, m, lost) = {}
      BY <1>2, <1>5, <2>1, <3>2 DEF Heard
    <3> QED BY <3>1, <3>3 DEF InTune, Owed, NoEntry
  <2>2. CASE m \notin elems
    <3>1. e.expando[m] = d.expando[m] /\ e.listeners[m] = d.listeners[m]
      BY <1>2, <1>3, <1>5, <2>2
    <3>2. Entry(e, m) = Entry(d, m)
      BY <1>2, <1>4, <1>d, <1>h, <2>2, <3>1 DEF Entry
    <3> QED BY <1>0, <3>1, <3>2, AnswersAlike
  <2> QED BY <2>1, <2>2
<1>9. DataFits(e, lost)
  BY <1>6, <1>7, <1>8 DEF DataFits
<1> QED BY <1>2, <1>3, <1>9 DEF e

\* The copy of an element gets an entry and a handle of its own.
LEMMA CopiedFits ==
  ASSUME NEW d, NEW lost, DataFits(d, lost), NEW n \in Nodes, NEW c \in Nodes, c = Copies[n]
  PROVE  /\ DataFits(Copied(d, n), lost)
         /\ \A m \in Nodes \ {n, c} : Copied(d, n).expando[m] = d.expando[m]
<1> DEFINE e0    == Numbered(d, n)
           e     == Numbered(e0, c)
           entry == Entry(e, n)
           ls    == {[type |-> t, handle |-> e.expando[c]] : t \in entry.events}
           a     == Copied(d, n)
<1>1. GivenNumber(d, e0, n, lost)
  BY NumberedFits
<1>2. GivenNumber(e0, e, c, lost)
  <2> HIDE DEF e0
  <2>1. DataFits(e0, lost)
    BY <1>1 DEF GivenNumber
  <2> QED BY <2>1, NumberedFits
<1>3. /\ DataFits(e, lost) /\ IsDom(e) /\ Numbers(e, lost) /\ InTune(e, lost, n)
      /\ e.expando[c] # 0 /\ e.expando[n] # 0
      /\ \A m \in Nodes \ {n, c} : e.expando[m] = d.expando[m]
  BY <1>1, <1>2 DEF GivenNumber, DataFits
<1>4. a = [[e EXCEPT !.cache[e.expando[c]] = entry] EXCEPT !.listeners[c] = ls]
  BY DEF Copied, Stored
<1>5. Rewritten(e, a, c, entry, ls)
  BY <1>3, <1>4 DEF IsDom, Rewritten
<1>6. IsEntry(entry) /\ (entry.handle <=> entry.events # {})
  BY <1>3 DEF Numbers, Entry, IsDom, InTune
<1>7. e.expando[c] \in 1..e.uuid /\ e.expando[c] \notin lost
  BY <1>3 DEF IsDom, Numbers
<1>8. Serve(ls, e, c, entry, lost)
  <2>1. \A l \in ls : l.handle \in 1..e.uuid /\ l.handle \notin lost
    BY <1>7
  <2>2. {l \in ls : l.handle \notin lost} = ls
    BY <2>1
  <2> QED BY <1>6, <2>1, <2>2 DEF Serve
<1> HIDE DEF e0, e, entry, ls, a
<1>9. KeepsNumbers(e, a, lost)
  BY <1>3, <1>5, <1>8, StoredFits
<1> QED BY <1>3, <1>9 DEF KeepsNumbers, a

\* What the page does with the data and handlers of an element.
LEMMA UseKeeps ==
  ASSUME DomInv, NEW n \in Nodes, NEW d, Use(n, d), Used(dom, d, n, leaked)
  PROVE  DomInv'
<1>1. dom' = d /\ leaked' = leaked \cup Leaks(dom, d) /\ cleaned' = cleaned \ {n}
  BY DEF Use
<1>2. DataFits(dom', leaked')
  BY <1>1 DEF Used
<1>3. cleaned' \subseteq Nodes /\ \A m \in cleaned' : dom'.expando[m] = 0
  BY <1>1 DEF Used, DomInv
<1> QED BY <1>2, <1>3 DEF DomInv

LEMMA CleansKeeps ==
  ASSUME DomInv, NEW elems \in SUBSET Nodes, Cleans(elems)
  PROVE  DomInv'
<1>1. dom' = cleanData(dom, elems) /\ cleaned' = cleaned \cup elems /\ leaked' = leaked
  BY DEF Cleans
<1>2. DataFits(dom', leaked')
  BY <1>1, CleanFits DEF DomInv
<1>3. \A n \in Nodes : dom'.expando[n] = IF n \in elems THEN 0 ELSE dom.expando[n]
  BY <1>1, CleanFits DEF DomInv
<1>4. cleaned' \subseteq Nodes /\ \A m \in cleaned' : dom'.expando[m] = 0
  BY <1>1, <1>3 DEF DomInv
<1> QED BY <1>2, <1>4 DEF DomInv

LEMMA CloneKeeps ==
  ASSUME DomInv, NEW n \in Nodes, NEW withEvents \in BOOLEAN, Clone(n, withEvents)
  PROVE  DomInv'
<1>1. /\ n \in DOMAIN Copies /\ leaked' = leaked
      /\ dom' = IF withEvents THEN Copied(dom, n) ELSE dom
      /\ cleaned' = cleaned \ (IF withEvents THEN {n, Copies[n]} ELSE {})
  BY DEF Clone
<1>2. Copies[n] \in Nodes
  BY <1>1, DomAssumption
<1>3. CASE withEvents
  <2>1. DataFits(dom', leaked')
    BY <1>1, <1>2, <1>3, CopiedFits DEF DomInv
  <2>2. \A m \in Nodes \ {n, Copies[n]} : dom'.expando[m] = dom.expando[m]
    BY <1>1, <1>2, <1>3, CopiedFits DEF DomInv
  <2>3. cleaned' \subseteq Nodes /\ \A m \in cleaned' : dom'.expando[m] = 0
    BY <1>1, <1>3, <2>2 DEF DomInv
  <2> QED BY <2>1, <2>3 DEF DomInv
<1>4. CASE ~withEvents
  BY <1>1, <1>4 DEF DomInv
<1> QED BY <1>3, <1>4

LEMMA DomInvInit == DomInit => DomInv
<1> SUFFICES ASSUME DomInit PROVE DomInv
  OBVIOUS
<1> DEFINE ex == [n \in Nodes |-> 0]
           li == [n \in Nodes |-> {}]
           ca == [i \in {} |-> NoEntry]
<1>1. /\ dom.uuid = 0 /\ dom.expando = ex /\ dom.cache = ca /\ dom.listeners = li
      /\ dom = [uuid |-> dom.uuid, expando |-> dom.expando, cache |-> dom.cache,
                listeners |-> dom.listeners]
      /\ leaked = {} /\ cleaned = {}
  BY DEF DomInit
<1>2. /\ ex \in [Nodes -> 0..0] /\ \A n \in Nodes : ex[n] = 0 /\ li[n] = {}
      /\ DOMAIN ca = {} /\ ca = [i \in DOMAIN ca |-> ca[i]] /\ li = [n \in Nodes |-> li[n]]
  OBVIOUS
<1> HIDE DEF ex, li, ca
<1>3. IsDom(dom)
  BY <1>1, <1>2 DEF IsDom
<1>4. Numbers(dom, {})
  BY <1>1, <1>2 DEF Numbers
<1>5. ASSUME NEW n \in Nodes PROVE InTune(dom, {}, n)
  <2>1. Entry(dom, n) = NoEntry
    BY <1>1, <1>2 DEF Entry
  <2>2. Heard(dom, n, {}) = {}
    BY <1>1, <1>2 DEF Heard
  <2> QED BY <2>1, <2>2 DEF InTune, Owed, NoEntry
<1> QED BY <1>1, <1>3, <1>4, <1>5 DEF DomInv, DataFits

LEMMA DomInvStep == DomInv /\ [DomNext]_domVars => DomInv'
<1> SUFFICES ASSUME DomInv, [DomNext]_domVars PROVE DomInv'
  OBVIOUS
<1>0. DataFits(dom, leaked)
  BY DEF DomInv
<1>1. CASE UNCHANGED domVars
  BY <1>1 DEF domVars, DomInv
<1>2. ASSUME NEW n \in Nodes, NEW k \in DataKeys, SetData(n, k) PROVE DomInv'
  BY <1>0, <1>2, WithDataFits, UseKeeps DEF SetData
<1>3. ASSUME NEW n \in Nodes, NEW k \in DataKeys, RemoveData(n, k) PROVE DomInv'
  <2> DEFINE d == Shrunk(dom, n, [Entry(dom, n) EXCEPT !.data = @ \ {k}])
  <2>1. Use(n, d) /\ k \in Entry(dom, n).data
    BY <1>3 DEF RemoveData
  <2>2. Used(dom, d, n, leaked)
    BY <1>0, <2>1, RemoveDataFits
  <2> HIDE DEF d
  <2> QED BY <2>1, <2>2, UseKeeps
<1>4. ASSUME NEW n \in Nodes, NEW t \in DomTypes, DomBind(n, t) PROVE DomInv'
  BY <1>0, <1>4, WithHandlerFits, UseKeeps DEF DomBind
<1>5. ASSUME NEW n \in Nodes, NEW t \in DomTypes, DomUnbind(n, t) PROVE DomInv'
  BY <1>0, <1>5, WithoutHandlerFits, UseKeeps DEF DomUnbind
<1>6. ASSUME NEW n \in Nodes, RemoveAllData(n) PROVE DomInv'
  BY <1>0, <1>6, RemoveAllFits, UseKeeps DEF RemoveAllData
<1>7. ASSUME NEW n \in Nodes, TakeOut(n) \/ Empty(n) PROVE DomInv'
  <2>1. InsideOf(n) \in SUBSET Nodes /\ InsideOf(n) \ {n} \in SUBSET Nodes
    BY DEF InsideOf
  <2> QED BY <1>7, <2>1, CleansKeeps DEF TakeOut, Empty
<1>8. ASSUME NEW n \in Nodes, Detach(n) \/ (\E to \in Nodes \cup {"fragment"} : Insert(n, to))
      PROVE DomInv'
  <2>1. UNCHANGED <<dom, leaked, cleaned>>
    BY <1>8 DEF Detach, Insert
  <2> QED BY <2>1 DEF DomInv
<1>9. ASSUME NEW n \in Nodes, NEW m \in Nodes, ReplaceWith(n, m) PROVE DomInv'
  <2>1. InsideOf(n) \ InsideOf(m) \in SUBSET Nodes
    BY DEF InsideOf
  <2> QED BY <1>9, <2>1, CleansKeeps DEF ReplaceWith
<1>10. ASSUME NEW n \in Nodes, NEW withEvents \in BOOLEAN, Clone(n, withEvents) PROVE DomInv'
  BY <1>10, CloneKeeps
<1> QED BY <1>1, <1>2, <1>3, <1>4, <1>5, <1>6, <1>7, <1>8, <1>9, <1>10 DEF DomNext

-----------------------------------------------------------------------------
(* Lists put together from others.                                         *)

Joins(S, s, t, r) ==
    /\ r \in Seq(S) /\ Range(r) = Range(s) \cup Range(t)
    /\ IsInjective(s) /\ IsInjective(t) /\ Range(s) \cap Range(t) = {} => IsInjective(r)

LEMMA JoinedApart ==
  ASSUME NEW S, NEW s \in Seq(S), NEW t \in Seq(S)
  PROVE  Joins(S, s, t, s \o t)
<1> DEFINE r == s \o t
           a == Len(s)
           b == Len(t)
<1>1. /\ r \in Seq(S) /\ DOMAIN r = 1..a + b /\ DOMAIN s = 1..a /\ DOMAIN t = 1..b
      /\ a \in Nat /\ b \in Nat
      /\ \A i \in 1..a + b : r[i] = IF i <= a THEN s[i] ELSE t[i - a]
  BY ConcatProperties
<1> HIDE DEF r, a, b
<1>2. \A i \in 1..a : i \in 1..a + b /\ r[i] = s[i]
  BY <1>1
<1>3. \A i \in 1..b : i + a \in 1..a + b /\ ~(i + a <= a) /\ (i + a) - a = i
  BY <1>1
<1>4. \A i \in 1..b : r[i + a] = t[i]
  BY <1>1, <1>3
<1>5. \A i \in 1..a + b : i \in 1..a \/ \E j \in 1..b : i = j + a
  <2> SUFFICES ASSUME NEW i \in 1..a + b, i \notin 1..a PROVE \E j \in 1..b : i = j + a
    OBVIOUS
  <2>1. i - a \in 1..b /\ i = (i - a) + a
    BY <1>1
  <2> QED BY <2>1
<1>6. Range(r) = Range(s) \cup Range(t)
  <2>0. /\ Range(r) = {r[i] : i \in 1..a + b} /\ Range(s) = {s[i] : i \in 1..a}
        /\ Range(t) = {t[i] : i \in 1..b}
    BY <1>1 DEF Range
  <2>1. ASSUME NEW x \in Range(r) PROVE x \in Range(s) \cup Range(t)
    <3>1. PICK i \in 1..a + b : x = r[i]
      BY <2>0, <2>1
    <3> QED BY <1>2, <1>4, <1>5, <2>0, <3>1
  <2>2. ASSUME NEW x \in Range(s) PROVE x \in Range(r)
    BY <1>2, <2>0, <2>2
  <2>3. ASSUME NEW x \in Range(t) PROVE x \in Range(r)
    <3>1. PICK i \in 1..b : x = t[i]
      BY <2>0, <2>3
    <3>2. i + a \in 1..a + b /\ x = r[i + a]
      BY <1>3, <1>4, <3>1
    <3> QED BY <2>0, <3>2
  <2> QED BY <2>1, <2>2, <2>3
<1>7. ASSUME IsInjective(s), IsInjective(t), Range(s) \cap Range(t) = {} PROVE IsInjective(r)
  <2>1. ASSUME NEW i \in 1..a + b, NEW j \in 1..a + b, r[i] = r[j] PROVE i = j
    <3>1. CASE i \in 1..a /\ j \in 1..a
      BY <1>1, <1>2, <1>7, <2>1, <3>1 DEF IsInjective
    <3>2. CASE i \notin 1..a /\ j \notin 1..a
      <4>1. PICK k \in 1..b, l \in 1..b : i = k + a /\ j = l + a
        BY <1>5, <3>2
      <4>2. t[k] = t[l]
        BY <1>4, <2>1, <4>1
      <4> QED BY <1>1, <1>7, <4>1, <4>2 DEF IsInjective
    <3>3. CASE i \in 1..a /\ j \notin 1..a
      <4>1. PICK l \in 1..b : j = l + a
        BY <1>5, <3>3
      <4>2. s[i] = t[l]
        BY <1>2, <1>4, <2>1, <3>3, <4>1
      <4> QED BY <1>1, <1>7, <3>3, <4>1, <4>2 DEF Range
    <3>4. CASE i \notin 1..a /\ j \in 1..a
      <4>1. PICK l \in 1..b : i = l + a
        BY <1>5, <3>4
      <4>2. s[j] = t[l]
        BY <1>2, <1>4, <2>1, <3>4, <4>1
      <4> QED BY <1>1, <1>7, <3>4, <4>1, <4>2 DEF Range
    <3> QED BY <3>1, <3>2, <3>3, <3>4
  <2> QED BY <1>1, <2>1 DEF IsInjective
<1> QED BY <1>1, <1>6, <1>7 DEF r, Joins

\* The lists of a list of lists have no doubles, on their own or together.
NoDoubles(lists) ==
    /\ \A i \in 1..Len(lists) : IsInjective(lists[i])
    /\ \A i, j \in 1..Len(lists) : i # j => Range(lists[i]) \cap Range(lists[j]) = {}

OneAfterTheOther(f, lists, k) ==
    f = [i \in 1..k |-> IF i = 1 THEN lists[i] ELSE f[i - 1] \o lists[i]]

LEMMA FlatteningIs ==
  ASSUME NEW lists, NEW k \in Nat
  PROVE  \E f : OneAfterTheOther(f, lists, k)
<1> DEFINE good == {j \in 0..k : \E f : OneAfterTheOther(f, lists, j)}
<1>1. 0 \in good
  <2> DEFINE f == [i \in {} |-> 0]
  <2>1. \A g : f = [i \in 1..0 |-> IF i = 1 THEN lists[i] ELSE g[i - 1] \o lists[i]]
    <3>1. 1..0 = {}
      OBVIOUS
    <3> QED BY <3>1
  <2> HIDE DEF f
  <2>2. OneAfterTheOther(f, lists, 0)
    BY <2>1 DEF OneAfterTheOther
  <2> QED BY <2>2
<1>2. ASSUME NEW j \in 0..k, j < k, j \in good PROVE j + 1 \in good
  <2>1. PICK f : OneAfterTheOther(f, lists, j)
    BY <1>2
  <2>0. \A i \in 1..j : f[i] = IF i = 1 THEN lists[i] ELSE f[i - 1] \o lists[i]
    BY <2>1 DEF OneAfterTheOther
  <2> DEFINE new == IF j = 0 THEN lists[1] ELSE f[j] \o lists[j + 1]
             g   == [i \in 1..j + 1 |-> IF i \in 1..j THEN f[i] ELSE new]
  <2>2. ASSUME NEW i \in 1..j + 1
        PROVE  g[i] = IF i = 1 THEN lists[i] ELSE g[i - 1] \o lists[i]
    <3>1. CASE i \in 1..j /\ i = 1
      BY <2>0, <3>1
    <3>2. CASE i \in 1..j /\ i # 1
      <4>1. i - 1 \in 1..j /\ i - 1 \in 1..j + 1
        BY <3>2
      <4>2. g[i] = f[i] /\ g[i - 1] = f[i - 1]
        BY <3>2, <4>1
      <4> QED BY <2>0, <3>2, <4>2
    <3>3. CASE i \notin 1..j
      <4>1. i = j + 1 /\ g[i] = new
        BY <3>3
      <4>2. CASE j = 0
        BY <4>1, <4>2
      <4>3. CASE j # 0
        <5>1. j \in 1..j /\ j \in 1..j + 1 /\ i - 1 = j /\ i # 1
          BY <4>1, <4>3
        <5>2. g[i - 1] = f[j]
          BY <5>1
        <5> QED BY <4>1, <4>3, <5>1, <5>2
      <4> QED BY <4>2, <4>3
    <3> QED BY <3>1, <3>2, <3>3
  <2>3. g = [i \in 1..j + 1 |-> g[i]]
    OBVIOUS
  <2> HIDE DEF g
  <2>4. OneAfterTheOther(g, lists, j + 1)
    BY <2>2, <2>3 DEF OneAfterTheOther
  <2> QED BY <1>2, <2>4
<1> HIDE DEF good
<1>3. 0..k \subseteq good
  BY <1>1, <1>2, StepByStep
<1>4. k \in good
  BY <1>3
<1> QED BY <1>4 DEF good

\* What is in a list of lists is in the one list they make.
Flat(S, lists, r) ==
    /\ r \in Seq(S)
    /\ Range(r) = UNION {Range(lists[i]) : i \in 1..Len(lists)}
    /\ NoDoubles(lists) => IsInjective(r)

LEMMA FlatAre ==
  ASSUME NEW S, NEW lists \in Seq(Seq(S))
  PROVE  Flat(S, lists, FlattenSeq(lists))
<1> DEFINE n == Len(lists)
<1>0. n \in Nat /\ DOMAIN lists = 1..n /\ \A i \in 1..n : lists[i] \in Seq(S)
  OBVIOUS
<1>1. CASE n = 0
  <2>1. lists = <<>> /\ FlattenSeq(lists) = lists /\ 1..n = {}
    BY <1>0, <1>1 DEF FlattenSeq
  <2>2. <<>> \in Seq(S) /\ Range(<<>>) = {} /\ IsInjective(<<>>)
    BY DEF Range, IsInjective
  <2> QED BY <2>1, <2>2 DEF Flat
<1>2. CASE n # 0
  <2> DEFINE f == CHOOSE g : OneAfterTheOther(g, lists, n)
  <2>1. OneAfterTheOther(f, lists, n)
    BY <1>0, FlatteningIs
  <2>2. FlattenSeq(lists) = f[n]
    BY <1>2 DEF FlattenSeq, OneAfterTheOther
  <2> HIDE DEF f
  <2>3. \A i \in 1..n : f[i] = IF i = 1 THEN lists[i] ELSE f[i - 1] \o lists[i]
    BY <2>1 DEF OneAfterTheOther
  <2> DEFINE all(k) == UNION {Range(lists[i]) : i \in 1..k}
             good   == {k \in 0..n : k # 0 => /\ f[k] \in Seq(S) /\ Range(f[k]) = all(k)
                                              /\ NoDoubles(lists) => IsInjective(f[k])}
  <2>4. ASSUME NEW k \in 0..n, k < n, k \in good PROVE k + 1 \in good
    <3>1. k + 1 \in 1..n /\ lists[k + 1] \in Seq(S)
      BY <1>0, <2>4
    <3>2. all(k + 1) = all(k) \cup Range(lists[k + 1])
      <4>1. 1..k + 1 = (1..k) \cup {k + 1}
        BY <2>4
      <4> QED BY <4>1
    <3>3. CASE k = 0
      <4>1. k + 1 = 1 /\ f[1] = lists[1] /\ all(0) = {}
        BY <2>3, <3>1, <3>3
      <4>2. all(1) = Range(lists[1])
        BY <3>2, <3>3, <4>1
      <4>3. NoDoubles(lists) => IsInjective(lists[1])
        BY <3>1, <4>1 DEF NoDoubles
      <4> HIDE DEF all
      <4> QED BY <3>1, <3>3, <4>1, <4>2, <4>3
    <3>4. CASE k # 0
      <4>1. /\ k \in 1..n /\ k + 1 # 1 /\ (k + 1) - 1 = k /\ f[k] \in Seq(S)
            /\ Range(f[k]) = all(k)
            /\ NoDoubles(lists) => IsInjective(f[k])
        BY <2>4, <3>4
      <4>2. f[k + 1] = f[k] \o lists[k + 1]
        BY <2>3, <3>1, <4>1
      <4>3. f[k + 1] \in Seq(S) /\ Range(f[k + 1]) = all(k + 1)
        <5>1. Joins(S, f[k], lists[k + 1], f[k] \o lists[k + 1])
          BY <3>1, <4>1, JoinedApart
        <5>2. f[k + 1] \in Seq(S) /\ Range(f[k + 1]) = Range(f[k]) \cup Range(lists[k + 1])
          BY <4>2, <5>1 DEF Joins
        <5> HIDE DEF all
        <5> QED BY <3>2, <4>1, <5>2
      <4>4. ASSUME NoDoubles(lists) PROVE IsInjective(f[k + 1])
        <5>1. IsInjective(lists[k + 1])
          BY <3>1, <4>4 DEF NoDoubles
        <5>2. \A i \in 1..k : i \in 1..n /\ i # k + 1
          BY <4>1
        <5>3. \A i \in 1..k : Range(lists[i]) \cap Range(lists[k + 1]) = {}
          BY <3>1, <4>4, <5>2 DEF NoDoubles
        <5>4. all(k) \cap Range(lists[k + 1]) = {}
          BY <5>3
        <5> HIDE DEF all
        <5>5. Joins(S, f[k], lists[k + 1], f[k] \o lists[k + 1])
          BY <3>1, <4>1, JoinedApart
        <5>6. Range(f[k]) \cap Range(lists[k + 1]) = {} /\ IsInjective(f[k])
          BY <4>1, <4>4, <5>4
        <5> QED BY <4>2, <5>1, <5>5, <5>6 DEF Joins
      <4> HIDE DEF all
      <4> QED BY <3>1, <4>3, <4>4
    <3> QED BY <3>3, <3>4
  <2>5. 0 \in good
    BY <1>0
  <2> HIDE DEF good
  <2>6. n \in good
    <3>1. 0..n \subseteq good
      BY <1>0, <2>4, <2>5, StepByStep
    <3> QED BY <1>0, <3>1
  <2> QED BY <1>2, <2>2, <2>6 DEF good, Flat
<1> QED BY <1>1, <1>2

\* The elements of a list that are wanted.
Keeps(S, list, wanted, r) ==
    /\ r \in Seq(S)
    /\ Range(r) = Range(list) \cap wanted
    /\ IsInjective(list) => IsInjective(r)

LEMMA KeptAre ==
  ASSUME NEW S, NEW list \in Seq(S), NEW wanted
  PROVE  Keeps(S, list, wanted, Keeping(list, wanted))
<1> DEFINE n     == Len(list)
           piece(i) == IF list[i] \in wanted THEN <<list[i]>> ELSE <<>>
           parts == [i \in 1..n |-> piece(i)]
<1>0. n \in Nat /\ DOMAIN list = 1..n /\ \A i \in 1..n : list[i] \in S
  OBVIOUS
<1>1. \A x \in S : <<x>> \in Seq(S) /\ Range(<<x>>) = {x} /\ IsInjective(<<x>>)
  BY DEF Range, IsInjective
<1>2. <<>> \in Seq(S) /\ Range(<<>>) = {} /\ IsInjective(<<>>)
  BY DEF Range, IsInjective
<1>3. \A i \in 1..n : /\ piece(i) \in Seq(S) /\ IsInjective(piece(i))
                      /\ Range(piece(i)) = {list[i]} \cap wanted
  BY <1>0, <1>1, <1>2
<1> HIDE DEF piece
<1>4. parts \in Seq(Seq(S)) /\ Len(parts) = n /\ \A i \in 1..n : parts[i] = piece(i)
  BY <1>0, <1>3
<1>5. Keeping(list, wanted) = FlattenSeq(parts)
  BY DEF Keeping, piece
<1> HIDE DEF parts
<1>6. Flat(S, parts, FlattenSeq(parts))
  BY <1>4, FlatAre
<1>7. UNION {Range(parts[i]) : i \in 1..Len(parts)} = Range(list) \cap wanted
  <2>1. UNION {Range(parts[i]) : i \in 1..Len(parts)} = UNION {{list[i]} \cap wanted : i \in 1..n}
    BY <1>3, <1>4
  <2>2. Range(list) = {list[i] : i \in 1..n}
    BY <1>0 DEF Range
  <2> QED BY <2>1, <2>2
<1>8. IsInjective(list) => NoDoubles(parts)
  <2> SUFFICES ASSUME IsInjective(list) PROVE NoDoubles(parts)
    OBVIOUS
  <2>1. \A i \in 1..n : IsInjective(parts[i]) /\ Range(parts[i]) = {list[i]} \cap wanted
    BY <1>3, <1>4
  <2>2. \A i, j \in 1..n : i # j => list[i] # list[j]
    BY <1>0 DEF IsInjective
  <2>3. \A i, j \in 1..n : i # j => Range(parts[i]) \cap Range(parts[j]) = {}
    BY <2>1, <2>2
  <2> QED BY <1>4, <2>1, <2>3 DEF NoDoubles
<1> QED BY <1>5, <1>6, <1>7, <1>8 DEF Flat, Keeps

-----------------------------------------------------------------------------
(* The handlers of events (Events).                                        *)

EventEntries == [kind : {"page", "one", "within", "live", "liveHandler"},
                 guid : Guids \cup {"withinElement"}, names : SUBSET Names,
                 sel : PathNodes \cup {"none"}, id : Nat]
Buses == [lists  : [PathNodes -> [EventTypes -> Seq(EventEntries)]],
          native : [PathNodes -> SUBSET EventTypes]]

\* What kinds of handlers there are for a type.
KindsFor(t) == CASE t = "click"      -> {"page", "one", "liveHandler"}
                 [] t = "mouseenter" -> {"page", "one"}
                 [] t = "mouseover"  -> {"within"}
                 [] OTHER            -> {"live"}

As(entry, kind) == [entry EXCEPT !.kind = kind]

Tuned(b, n, t) == t \in b.native[n] <=> b.lists[n][t] # <<>>

\* The listener of mouseenter, and the handlers of a type as they are bound.
EntersWithin(b, n) ==
    b.lists[n]["mouseover"] = IF b.lists[n]["mouseenter"] = <<>> THEN <<>> ELSE <<Within>>
ListFits(b, n, t, top) ==
    /\ IsInjective(b.lists[n][t])
    /\ \A x \in Range(b.lists[n][t]) :
          /\ x.kind \in KindsFor(t)
          /\ t # "mouseover" => x.id \in 1..top
          /\ t = "live" => x.sel \in PathNodes
          /\ x.kind = "within" => x = Within

\* No handler is bound twice.
BoundOnce(b) ==
    \A n, m \in PathNodes, t, u \in EventTypes :
        \A x \in Range(b.lists[n][t]), y \in Range(b.lists[m][u]) :
            x.kind = y.kind /\ x.id = y.id /\ t # "mouseover"
                => n = m /\ t = u /\ x = y

\* Who calls the live handlers of an element, and for whom.
HasLive(b, n) ==
    \A x \in Range(b.lists[n]["click"]) :
        x.kind = "liveHandler" => As(x, "live") \in Range(b.lists[n]["live"])
HasCaller(b, n) ==
    \A x \in Range(b.lists[n]["live"]) : As(x, "liveHandler") \in Range(b.lists[n]["click"])

BusFits(b, lost, top) ==
    /\ b \in Buses
    /\ \A n \in PathNodes : EntersWithin(b, n) /\ HasLive(b, n)
    /\ \A n \in PathNodes \ lost : HasCaller(b, n)
    /\ \A n \in PathNodes, t \in EventTypes : ListFits(b, n, t, top)
    /\ \A n \in PathNodes, t \in EventTypes \ {"mouseenter"} : Tuned(b, n, t)
    /\ BoundOnce(b)

BusEvents == [type : EventTypes, original : EventTypes, target : PathNodes,
              names : SUBSET Names, filter : SUBSET Names,
              related : PathNodes \cup {"none"}, byBrowser : BOOLEAN,
              at : DOMAIN Path, rest : Seq(EventEntries), lives : Seq(EventEntries),
              maxLevel : Nat, stop : BOOLEAN, stopped : BOOLEAN,
              liveFired : PathNodes \cup {"none"}, seen : SUBSET Nat]

\* What an event under way has still to call.
EventFits(e) ==
    /\ e \in BusEvents
    /\ e.type \in {"click", "mouseenter", "mouseover"}
    /\ e.original \in {"click", "mouseenter", "mouseover"}
    /\ ~e.byBrowser => e.type = e.original /\ e.original # "mouseover"
    /\ IsInjective(e.rest)
    /\ \A x \in Range(e.rest) : x.kind \in KindsFor(e.type) /\ (x.kind = "within" => x = Within)
    /\ \A x \in Range(e.lives) : x.kind = "live" /\ x.sel \in PathNodes
    /\ e.lives # <<>> => e.type = "click" /\ e.liveFired = Path[e.at]

\* A handler of one() that an event will call has not run, and is bound where
\* the event is if it is bound at all.
OnesFit(e, b, spent, top) ==
    \A x \in Range(e.rest) : x.kind = "one" =>
        /\ x.id \in (1..top) \ spent
        /\ \A y \in Range(e.rest) : y.kind = "one" /\ y.id = x.id => y = x
        /\ \A n \in PathNodes, t \in EventTypes : \A y \in Range(b.lists[n][t]) :
              y.kind = "one" /\ y.id = x.id => n = Path[e.at] /\ t = e.type /\ y = x

LiveIds(b, level) == {x.id : x \in Range(b.lists[Path[level]]["live"])}

\* A live handler that an event will call has not run for it.
LivesFit(e, b) ==
    /\ \A i, j \in DOMAIN e.lives : e.lives[i].id = e.lives[j].id => i = j
    /\ \A x \in Range(e.lives) : x.id \notin e.seen
    /\ \A level \in DOMAIN Path : level > e.at =>
          /\ LiveIds(b, level) \cap e.seen = {}
          /\ \A x \in Range(e.lives) : x.id \notin LiveIds(b, level)
    /\ e.liveFired # Path[e.at] => LiveIds(b, e.at) \cap e.seen = {}

RunsFit(b, under, r, top) ==
    /\ r.again = {} /\ r.spent \subseteq 1..top
    /\ Len(under) <= 1
    /\ \A n \in PathNodes, t \in EventTypes : \A x \in Range(b.lists[n][t]) :
          x.kind = "one" => x.id \notin r.spent
    /\ under # <<>> => OnesFit(Head(under), b, r.spent, top) /\ LivesFit(Head(under), b)

EventsInv ==
    /\ binds \in Nat /\ BusFits(bus, cut, binds)
    /\ dispatching \in Seq(BusEvents) /\ \A i \in DOMAIN dispatching : EventFits(dispatching[i])
    /\ ran = [spent |-> ran.spent, again |-> ran.again, nested |-> ran.nested]
    /\ ran.nested \in BOOLEAN
    /\ ~ran.nested => RunsFit(bus, dispatching, ran, binds)

-----------------------------------------------------------------------------
(* Binding and unbinding.                                                  *)

LEMMA AppendedRange ==
  ASSUME NEW S, NEW s \in Seq(S), NEW x \in S
  PROVE  /\ Append(s, x) \in Seq(S) /\ Append(s, x) # <<>>
         /\ Range(Append(s, x)) = Range(s) \cup {x}
<1> DEFINE r == Append(s, x)
<1>1. /\ r \in Seq(S) /\ Len(r) = Len(s) + 1 /\ DOMAIN r = 1..Len(s) + 1 /\ DOMAIN s = 1..Len(s)
      /\ \A j \in 1..Len(s) : r[j] = s[j]
      /\ r[Len(s) + 1] = x /\ Len(s) \in Nat
  OBVIOUS
<1> HIDE DEF r
<1>2. 1..Len(s) + 1 = (1..Len(s)) \cup {Len(s) + 1}
  BY <1>1
<1>3. Range(r) = {r[j] : j \in 1..Len(s) + 1} /\ Range(s) = {s[j] : j \in 1..Len(s)}
  BY <1>1 DEF Range
<1>4. Range(r) = Range(s) \cup {x}
  BY <1>1, <1>2, <1>3
<1>5. r # <<>>
  BY <1>1
<1> QED BY <1>1, <1>4, <1>5 DEF r

LEMMA AppendedInjective ==
  ASSUME NEW S, NEW s \in Seq(S), NEW x \in S, IsInjective(s), x \notin Range(s)
  PROVE  IsInjective(Append(s, x))
<1>1. x \notin ToSet(s)
  BY DEF ToSet, Range
<1> QED BY <1>1, AppendedApart

\* A list has a first element if it has any.
LEMMA EmptyRange ==
  ASSUME NEW S, NEW s \in Seq(S)
  PROVE  s = <<>> <=> Range(s) = {}
<1>1. DOMAIN s = 1..Len(s) /\ Len(s) \in Nat
  OBVIOUS
<1>2. CASE s # <<>>
  <2>1. 1 \in DOMAIN s
    BY <1>1, <1>2
  <2> QED BY <1>2, <2>1 DEF Range
<1>3. CASE s = <<>>
  BY <1>3 DEF Range
<1> QED BY <1>2, <1>3

\* The list of one element and type is another one, all else is as it was.
Exchanged(b, c, n, t, list) ==
    /\ c \in Buses
    /\ c.lists[n][t] = list
    /\ \A m \in PathNodes, u \in EventTypes : m # n \/ u # t =>
          c.lists[m][u] = b.lists[m][u] /\ (u \in c.native[m] <=> u \in b.native[m])
Retuned(b, c, n, t, list) ==
    /\ Exchanged(b, c, n, t, list)
    /\ Tuned(b, n, t) => Tuned(c, n, t)

\* The listeners of an element are others for one type at most.
SameFor(b, n, t, natives) ==
    natives \in SUBSET EventTypes /\ \A u \in EventTypes : u # t => (u \in natives <=> u \in b.native[n])
Relisted(b, n, t, list, natives) ==
    [lists |-> [b.lists EXCEPT ![n][t] = list], native |-> [b.native EXCEPT ![n] = natives]]
SwappedFor(b, c, n, t, list, natives) == Exchanged(b, c, n, t, list) /\ c.native[n] = natives

LEMMA SwappedLists ==
  ASSUME NEW b \in Buses, NEW n \in PathNodes, NEW t \in EventTypes,
         NEW list \in Seq(EventEntries), NEW natives, SameFor(b, n, t, natives)
  PROVE  SwappedFor(b, Relisted(b, n, t, list, natives), n, t, list, natives)
<1> DEFINE c == Relisted(b, n, t, list, natives)
<1>0. natives \in SUBSET EventTypes /\ \A u \in EventTypes : u # t => (u \in natives <=> u \in b.native[n])
  BY DEF SameFor
<1>1. c.lists = [b.lists EXCEPT ![n][t] = list] /\ c.native = [b.native EXCEPT ![n] = natives]
      /\ c = [lists |-> c.lists, native |-> c.native]
  BY DEF Relisted
<1> HIDE DEF c
<1>2. b.lists \in [PathNodes -> [EventTypes -> Seq(EventEntries)]]
      /\ b.native \in [PathNodes -> SUBSET EventTypes]
  BY DEF Buses
<1>3. c.lists \in [PathNodes -> [EventTypes -> Seq(EventEntries)]]
      /\ c.native \in [PathNodes -> SUBSET EventTypes]
  BY <1>0, <1>1, <1>2
<1>4. c \in Buses
  BY <1>1, <1>3 DEF Buses
<1>5. c.lists[n][t] = list /\ c.native[n] = natives
  BY <1>1, <1>2
<1>6. ASSUME NEW m \in PathNodes, NEW u \in EventTypes, m # n \/ u # t
      PROVE  c.lists[m][u] = b.lists[m][u] /\ (u \in c.native[m] <=> u \in b.native[m])
  BY <1>0, <1>1, <1>2, <1>5, <1>6
<1> QED BY <1>4, <1>5, <1>6 DEF Exchanged, SwappedFor, c

LEMMA AddedPlain ==
  ASSUME NEW b \in Buses, NEW n \in PathNodes, NEW t \in EventTypes, NEW x \in EventEntries
  PROVE  Retuned(b, PlainAdd(b, n, t, x), n, t, Append(b.lists[n][t], x))
<1> DEFINE c == PlainAdd(b, n, t, x)
           list == Append(b.lists[n][t], x)
           natives == IF b.lists[n][t] = <<>> THEN b.native[n] \cup {t} ELSE b.native[n]
<1>1. b.lists[n][t] \in Seq(EventEntries) /\ b.native[n] \in SUBSET EventTypes
      /\ b.native \in [PathNodes -> SUBSET EventTypes]
      /\ b.lists \in [PathNodes -> [EventTypes -> Seq(EventEntries)]]
  BY DEF Buses
<1>2. list \in Seq(EventEntries) /\ list # <<>>
  BY <1>1, AppendedRange
<1>3. c = Relisted(b, n, t, list, natives)
  BY <1>1 DEF PlainAdd, Relisted
<1>4. SameFor(b, n, t, natives)
  BY <1>1 DEF SameFor
<1>5. Tuned(b, n, t) => t \in natives
  BY DEF Tuned
<1> HIDE DEF c, list, natives
<1>6. Exchanged(b, c, n, t, list) /\ c.native[n] = natives
  BY <1>2, <1>3, <1>4, SwappedLists DEF SwappedFor
<1>7. Tuned(b, n, t) => Tuned(c, n, t)
  BY <1>2, <1>5, <1>6 DEF Tuned, Exchanged
<1> QED BY <1>6, <1>7 DEF Retuned, c, list

Left(b, n, t, gone) == Keeping(b.lists[n][t], Range(b.lists[n][t]) \ gone)

LEMMA LeftFits ==
  ASSUME NEW b \in Buses, NEW n \in PathNodes, NEW t \in EventTypes, NEW gone
  PROVE  /\ Left(b, n, t, gone) \in Seq(EventEntries)
         /\ Range(Left(b, n, t, gone)) = Range(b.lists[n][t]) \ gone
         /\ IsInjective(b.lists[n][t]) => IsInjective(Left(b, n, t, gone))
<1> DEFINE old == b.lists[n][t]
<1>1. old \in Seq(EventEntries)
  BY DEF Buses
<1> HIDE DEF old
<1>2. Keeps(EventEntries, old, Range(old) \ gone, Keeping(old, Range(old) \ gone))
  BY <1>1, KeptAre
<1>3. Left(b, n, t, gone) = Keeping(old, Range(old) \ gone)
  BY DEF Left, old
<1>4. Range(old) \cap (Range(old) \ gone) = Range(old) \ gone
  OBVIOUS
<1> QED BY <1>2, <1>3, <1>4 DEF Keeps, old

LEMMA RemovedPlain ==
  ASSUME NEW b \in Buses, NEW n \in PathNodes, NEW t \in EventTypes, NEW gone
  PROVE  Retuned(b, PlainRemove(b, n, t, gone), n, t, Left(b, n, t, gone))
<1> DEFINE c == PlainRemove(b, n, t, gone)
           list == Left(b, n, t, gone)
           natives == IF list = <<>> THEN b.native[n] \ {t} ELSE b.native[n]
<1>1. b.lists[n][t] \in Seq(EventEntries) /\ b.native[n] \in SUBSET EventTypes
      /\ b.native \in [PathNodes -> SUBSET EventTypes]
      /\ b.lists \in [PathNodes -> [EventTypes -> Seq(EventEntries)]]
  BY DEF Buses
<1>2. list \in Seq(EventEntries) /\ Range(list) \subseteq Range(b.lists[n][t])
  BY LeftFits
<1>3. c = Relisted(b, n, t, list, natives)
  BY <1>1 DEF PlainRemove, Left, Relisted
<1>4. SameFor(b, n, t, natives)
  BY <1>1 DEF SameFor
<1>5. list # <<>> => b.lists[n][t] # <<>>
  BY <1>1, <1>2, EmptyRange
<1>6. Tuned(b, n, t) => (t \in natives <=> list # <<>>)
  BY <1>5 DEF Tuned
<1> HIDE DEF c, list, natives
<1>7. Exchanged(b, c, n, t, list) /\ c.native[n] = natives
  BY <1>2, <1>3, <1>4, SwappedLists DEF SwappedFor
<1>8. Tuned(b, n, t) => Tuned(c, n, t)
  BY <1>6, <1>7 DEF Tuned, Exchanged
<1> QED BY <1>7, <1>8 DEF Retuned, c, list

\* Lists that are as they should be, whatever the listeners are.
ListsFit(b, top) ==
    /\ b \in Buses /\ top \in Nat
    /\ \A n \in PathNodes, t \in EventTypes : ListFits(b, n, t, top)
    /\ BoundOnce(b)

LEMMA KindsDiffer ==
  ASSUME NEW t \in EventTypes, NEW u \in EventTypes, NEW kind,
         kind \in KindsFor(t), kind \in KindsFor(u), t # u
  PROVE  {t, u} = {"click", "mouseenter"}
BY DEF KindsFor, EventTypes

\* A handler that nobody has bound.
Unbound(b, t, x, top) ==
    /\ x \in EventEntries /\ x.kind \in KindsFor(t)
    /\ t # "mouseover" => x.id \in 1..top
    /\ t = "live" => x.sel \in PathNodes
    /\ x.kind = "within" => x = Within
    /\ t # "mouseover" => \A m \in PathNodes, u \in EventTypes :
          \A y \in Range(b.lists[m][u]) : y.kind = x.kind => y.id # x.id

LEMMA AppendedFits ==
  ASSUME NEW b, NEW top, ListsFit(b, top), NEW c, NEW n \in PathNodes, NEW t \in EventTypes,
         NEW x, Unbound(b, t, x, top), x \notin Range(b.lists[n][t]),
         Exchanged(b, c, n, t, Append(b.lists[n][t], x))
  PROVE  ListsFit(c, top)
<1> DEFINE new(m, u) == IF m = n /\ u = t THEN {x} ELSE {}
<1>0. /\ b \in Buses /\ top \in Nat /\ c \in Buses /\ x \in EventEntries /\ x.kind \in KindsFor(t)
      /\ b.lists[n][t] \in Seq(EventEntries)
  BY DEF ListsFit, Exchanged, Unbound, Buses
<1>1. \A m \in PathNodes, u \in EventTypes : m # n \/ u # t => c.lists[m][u] = b.lists[m][u]
  BY DEF Exchanged
<1>2. c.lists[n][t] = Append(b.lists[n][t], x)
  BY DEF Exchanged
<1>3. Range(c.lists[n][t]) = Range(b.lists[n][t]) \cup {x}
  BY <1>0, <1>2, AppendedRange
<1>4. \A m \in PathNodes, u \in EventTypes :
         \A y \in Range(c.lists[m][u]) : y \in Range(b.lists[m][u]) \/ (m = n /\ u = t /\ y = x)
  BY <1>1, <1>3
<1>5. ASSUME NEW m \in PathNodes, NEW u \in EventTypes PROVE ListFits(c, m, u, top)
  <2>0. ListFits(b, m, u, top)
    BY DEF ListsFit
  <2>1. CASE m = n /\ u = t
    <3>1. IsInjective(c.lists[n][t])
      BY <1>0, <1>2, <2>0, <2>1, AppendedInjective DEF ListFits
    <3>2. \A y \in Range(b.lists[n][t]) : /\ y.kind \in KindsFor(t)
                                          /\ t # "mouseover" => y.id \in 1..top
                                          /\ t = "live" => y.sel \in PathNodes
                                          /\ y.kind = "within" => y = Within
      BY <2>0, <2>1 DEF ListFits
    <3> QED BY <1>3, <2>1, <3>1, <3>2 DEF ListFits, Unbound
  <2>2. CASE m # n \/ u # t
    BY <1>1, <2>0, <2>2 DEF ListFits
  <2> QED BY <2>1, <2>2
<1>6. ASSUME NEW m \in PathNodes, NEW l \in PathNodes, NEW u \in EventTypes, NEW v \in EventTypes,
             NEW y \in Range(c.lists[m][u]), NEW z \in Range(c.lists[l][v]),
             y.kind = z.kind, y.id = z.id, u # "mouseover"
      PROVE  m = l /\ u = v /\ y = z
  <2>0. BoundOnce(b)
    BY DEF ListsFit
  <2>1. CASE y \in Range(b.lists[m][u]) /\ z \in Range(b.lists[l][v])
    BY <1>6, <2>0, <2>1 DEF BoundOnce
  <2>2. CASE y \in Range(b.lists[m][u]) /\ z \notin Range(b.lists[l][v])
    <3>1. l = n /\ v = t /\ z = x
      BY <1>4, <2>2
    <3>2. y.kind \in KindsFor(u) /\ z.kind \in KindsFor(t)
      BY <1>0, <1>5, <1>6, <3>1 DEF ListFits
    <3>3. t # "mouseover"
      BY <1>6, <3>2 DEF KindsFor, EventTypes
    <3> QED BY <1>6, <2>2, <3>1, <3>3 DEF Unbound
  <2>3. CASE y \notin Range(b.lists[m][u]) /\ z \in Range(b.lists[l][v])
    <3>1. m = n /\ u = t /\ y = x
      BY <1>4, <2>3
    <3> QED BY <1>6, <2>3, <3>1 DEF Unbound
  <2>4. CASE y \notin Range(b.lists[m][u]) /\ z \notin Range(b.lists[l][v])
    BY <1>4, <2>4
  <2> QED BY <2>1, <2>2, <2>3, <2>4
<1>7. BoundOnce(c)
  BY <1>6 DEF BoundOnce
<1> QED BY <1>0, <1>5, <1>7 DEF ListsFit

LEMMA MoreRoom ==
  ASSUME NEW b, NEW top, ListsFit(b, top)
  PROVE  ListsFit(b, top + 1) /\ top + 1 \in 1..top + 1
<1>1. top \in Nat /\ top + 1 \in Nat /\ \A i \in 1..top : i \in 1..top + 1
  BY DEF ListsFit
<1>2. \A n \in PathNodes, t \in EventTypes : ListFits(b, n, t, top + 1)
  BY <1>1 DEF ListsFit, ListFits
<1> QED BY <1>1, <1>2 DEF ListsFit

LEMMA NewIsUnbound ==
  ASSUME NEW b, NEW top, ListsFit(b, top), NEW n \in PathNodes, NEW t \in EventTypes, t # "mouseover",
         NEW x \in EventEntries, x.kind \in KindsFor(t), x.id = top + 1, t = "live" => x.sel \in PathNodes
  PROVE  Unbound(b, t, x, top + 1) /\ x \notin Range(b.lists[n][t])
<1>1. top \in Nat /\ top + 1 \in 1..top + 1 /\ ~(top + 1 \in 1..top)
  BY DEF ListsFit
<1>2. ASSUME NEW m \in PathNodes, NEW u \in EventTypes, NEW y \in Range(b.lists[m][u]), y.kind = x.kind
      PROVE  y.id # x.id
  <2>1. y.kind \in KindsFor(u) /\ (u # "mouseover" => y.id \in 1..top)
    BY DEF ListsFit, ListFits
  <2>2. u # "mouseover"
    BY <1>2, <2>1 DEF KindsFor, EventTypes
  <2> QED BY <1>1, <2>1, <2>2
<1>3. x.kind # "within"
  BY DEF KindsFor, EventTypes
<1>4. Unbound(b, t, x, top + 1)
  BY <1>1, <1>2, <1>3 DEF Unbound
<1> QED BY <1>2, <1>4

LEMMA WithinIsUnbound ==
  ASSUME NEW b, NEW top, ListsFit(b, top), NEW n \in PathNodes, b.lists[n]["mouseover"] = <<>>
  PROVE  Unbound(b, "mouseover", Within, top) /\ Within \notin Range(b.lists[n]["mouseover"])
<1>1. Within \in EventEntries /\ Within.kind = "within"
  BY DEF Within, EventEntries
<1>2. Range(<<>>) = {}
  BY DEF Range
<1> QED BY <1>1, <1>2 DEF Unbound, KindsFor, EventTypes

LEMMA BusIs ==
  ASSUME NEW b, NEW lost, NEW top \in Nat
  PROVE  BusFits(b, lost, top) <=>
            /\ ListsFit(b, top)
            /\ \A n \in PathNodes : EntersWithin(b, n) /\ HasLive(b, n)
            /\ \A n \in PathNodes \ lost : HasCaller(b, n)
            /\ \A n \in PathNodes, t \in EventTypes \ {"mouseenter"} : Tuned(b, n, t)
BY DEF BusFits, ListsFit

BusSays(b, lost, top, n) ==
    /\ EventTypes = {"click", "mouseenter", "mouseover", "live"}
    /\ b \in Buses /\ ListsFit(b, top) /\ ListsFit(b, top + 1) /\ top + 1 \in Nat
    /\ \A u \in EventTypes : b.lists[n][u] \in Seq(EventEntries)
    /\ \A m \in PathNodes : EntersWithin(b, m) /\ HasLive(b, m)
    /\ \A m \in PathNodes \ lost : HasCaller(b, m)
    /\ \A m \in PathNodes, u \in EventTypes \ {"mouseenter"} : Tuned(b, m, u)

LEMMA BusIsSound ==
  ASSUME NEW b, NEW lost, NEW top \in Nat, BusFits(b, lost, top), NEW n \in PathNodes
  PROVE  BusSays(b, lost, top, n)
<1>1. /\ \A m \in PathNodes : EntersWithin(b, m) /\ HasLive(b, m)
      /\ \A m \in PathNodes \ lost : HasCaller(b, m)
      /\ \A m \in PathNodes, u \in EventTypes \ {"mouseenter"} : Tuned(b, m, u)
  BY DEF BusFits
<1>2. ListsFit(b, top) /\ b \in Buses
  BY DEF BusFits, ListsFit
<1>3. ListsFit(b, top + 1) /\ top + 1 \in Nat
  BY <1>2, MoreRoom
<1>4. \A u \in EventTypes : b.lists[n][u] \in Seq(EventEntries)
  BY <1>2 DEF Buses
<1> QED BY <1>1, <1>2, <1>3, <1>4 DEF BusSays, EventTypes

\* What an element says about its lists depends on these lists.
LEMMA SaysAlike ==
  ASSUME NEW b, NEW c, NEW m \in PathNodes, \A u \in EventTypes : c.lists[m][u] = b.lists[m][u]
  PROVE  /\ EntersWithin(c, m) <=> EntersWithin(b, m)
         /\ HasLive(c, m) <=> HasLive(b, m)
         /\ HasCaller(c, m) <=> HasCaller(b, m)
BY DEF EntersWithin, HasLive, HasCaller, EventTypes

LEMMA TunedAfter ==
  ASSUME NEW b, NEW c, NEW n \in PathNodes, NEW t \in EventTypes, NEW list,
         Retuned(b, c, n, t, list),
         \A m \in PathNodes, u \in EventTypes \ {"mouseenter"} : Tuned(b, m, u)
  PROVE  \A m \in PathNodes, u \in EventTypes \ {"mouseenter"} : Tuned(c, m, u)
<1> SUFFICES ASSUME NEW m \in PathNodes, NEW u \in EventTypes \ {"mouseenter"} PROVE Tuned(c, m, u)
  OBVIOUS
<1>1. CASE m = n /\ u = t
  BY <1>1 DEF Retuned
<1>2. CASE m # n \/ u # t
  <2>1. c.lists[m][u] = b.lists[m][u] /\ (u \in c.native[m] <=> u \in b.native[m])
    BY <1>2 DEF Retuned, Exchanged
  <2> QED BY <2>1 DEF Tuned
<1> QED BY <1>1, <1>2

\* What binding leaves: the handlers there were, and the new one.
Binds(b, c, lost, top) ==
    /\ BusFits(c, lost, top + 1)
    /\ \A m \in PathNodes, u \in EventTypes : \A x \in Range(c.lists[m][u]) :
          x \in Range(b.lists[m][u]) \/ x.id = top + 1 \/ x.kind = "within"

LEMMA ClickBound ==
  ASSUME NEW b, NEW lost, NEW top \in Nat, BusFits(b, lost, top), NEW n \in PathNodes,
         NEW x \in EventEntries, x.kind \in {"page", "one"}, x.id = top + 1
  PROVE  Binds(b, event_add(b, n, "click", x), lost, top)
<1> DEFINE c == PlainAdd(b, n, "click", x)
           list == b.lists[n]["click"]
<1>0. event_add(b, n, "click", x) = c
  BY DEF event_add
<1>1. /\ "click" \in EventTypes /\ b \in Buses /\ ListsFit(b, top) /\ ListsFit(b, top + 1)
      /\ list \in Seq(EventEntries) /\ top + 1 \in Nat
      /\ \A m \in PathNodes : EntersWithin(b, m) /\ HasLive(b, m)
      /\ \A m \in PathNodes \ lost : HasCaller(b, m)
      /\ \A m \in PathNodes, u \in EventTypes \ {"mouseenter"} : Tuned(b, m, u)
  BY BusIsSound DEF BusSays
<1>2. Retuned(b, c, n, "click", Append(list, x)) /\ Exchanged(b, c, n, "click", Append(list, x))
  BY <1>1, AddedPlain DEF Retuned
<1> HIDE DEF c
<1>3. x.kind \in KindsFor("click")
  BY DEF KindsFor
<1>4. ListsFit(c, top + 1)
  BY <1>1, <1>2, <1>3, NewIsUnbound, AppendedFits
<1>5. c.lists[n]["click"] = Append(list, x) /\ Range(c.lists[n]["click"]) = Range(list) \cup {x}
  BY <1>1, <1>2, AppendedRange DEF Exchanged
<1>6. \A m \in PathNodes, u \in EventTypes : m # n \/ u # "click" => c.lists[m][u] = b.lists[m][u]
  BY <1>2 DEF Exchanged
<1>7. \A m \in PathNodes : m # n => \A u \in EventTypes : c.lists[m][u] = b.lists[m][u]
  BY <1>6
<1>8. /\ c.lists[n]["live"] = b.lists[n]["live"] /\ c.lists[n]["mouseover"] = b.lists[n]["mouseover"]
      /\ c.lists[n]["mouseenter"] = b.lists[n]["mouseenter"]
  BY <1>6 DEF EventTypes
<1>9. EntersWithin(c, n) /\ HasLive(c, n)
  BY <1>1, <1>5, <1>8 DEF EntersWithin, HasLive
<1>10. HasCaller(b, n) => HasCaller(c, n)
  BY <1>5, <1>8 DEF HasCaller
<1>11. \A m \in PathNodes : EntersWithin(c, m) /\ HasLive(c, m)
  BY <1>1, <1>7, <1>9, SaysAlike
<1>12. \A m \in PathNodes \ lost : HasCaller(c, m)
  BY <1>1, <1>7, <1>10, SaysAlike
<1>13. \A m \in PathNodes, u \in EventTypes \ {"mouseenter"} : Tuned(c, m, u)
  BY <1>1, <1>2, TunedAfter
<1>14. BusFits(c, lost, top + 1)
  BY <1>1, <1>4, <1>11, <1>12, <1>13, BusIs
<1> QED BY <1>0, <1>5, <1>6, <1>14 DEF Binds

LEMMA LiveBound ==
  ASSUME NEW b, NEW lost, NEW top \in Nat, BusFits(b, lost, top), NEW n \in PathNodes,
         NEW x \in EventEntries, x.kind = "live", x.id = top + 1, x.sel \in PathNodes
  PROVE  Binds(b, event_add(b, n, "live", x), lost, top)
<1> DEFINE y == As(x, "liveHandler")
           d == PlainAdd(b, n, "click", y)
           c == PlainAdd(d, n, "live", x)
           list == b.lists[n]["click"]
           lives == b.lists[n]["live"]
<1>0. event_add(b, n, "live", x) = c
  BY DEF event_add, As
<1>1. /\ "click" \in EventTypes /\ "live" \in EventTypes
      /\ b \in Buses /\ ListsFit(b, top) /\ ListsFit(b, top + 1)
      /\ list \in Seq(EventEntries) /\ lives \in Seq(EventEntries) /\ top + 1 \in Nat
      /\ \A m \in PathNodes : EntersWithin(b, m) /\ HasLive(b, m)
      /\ \A m \in PathNodes \ lost : HasCaller(b, m)
      /\ \A m \in PathNodes, u \in EventTypes \ {"mouseenter"} : Tuned(b, m, u)
  BY BusIsSound DEF BusSays
<1>2. y \in EventEntries /\ y.kind = "liveHandler" /\ y.id = x.id /\ y.sel = x.sel /\ As(y, "live") = x
  BY DEF As, EventEntries
<1> HIDE DEF y
<1>3. Retuned(b, d, n, "click", Append(list, y)) /\ Exchanged(b, d, n, "click", Append(list, y))
  BY <1>1, <1>2, AddedPlain DEF Retuned
<1> HIDE DEF d
<1>4. y.kind \in KindsFor("click") /\ x.kind \in KindsFor("live")
  BY <1>2 DEF KindsFor
<1>5. ListsFit(d, top + 1)
  BY <1>1, <1>2, <1>3, <1>4, NewIsUnbound, AppendedFits
<1>6. d.lists[n]["click"] = Append(list, y) /\ Range(d.lists[n]["click"]) = Range(list) \cup {y}
  BY <1>1, <1>2, <1>3, AppendedRange DEF Exchanged
<1>7. \A m \in PathNodes, u \in EventTypes : m # n \/ u # "click" => d.lists[m][u] = b.lists[m][u]
  BY <1>3 DEF Exchanged
<1>8. d \in Buses /\ d.lists[n]["live"] = lives
  BY <1>1, <1>3, <1>7 DEF Exchanged
<1>9. Retuned(d, c, n, "live", Append(lives, x)) /\ Exchanged(d, c, n, "live", Append(lives, x))
  BY <1>1, <1>8, AddedPlain DEF Retuned
<1> HIDE DEF c
<1>10. Unbound(b, "live", x, top + 1) /\ x \notin Range(lives)
  BY <1>1, <1>4, NewIsUnbound
<1>11. Unbound(d, "live", x, top + 1)
  <2>1. \A m \in PathNodes, u \in EventTypes : \A z \in Range(d.lists[m][u]) :
           z \in Range(b.lists[m][u]) \/ z = y
    BY <1>6, <1>7
  <2> QED BY <1>2, <1>10, <2>1 DEF Unbound
<1>12. ListsFit(c, top + 1)
  BY <1>1, <1>5, <1>8, <1>9, <1>10, <1>11, AppendedFits
<1>13. c.lists[n]["live"] = Append(lives, x) /\ Range(c.lists[n]["live"]) = Range(lives) \cup {x}
  BY <1>1, <1>9, AppendedRange DEF Exchanged
<1>14. \A m \in PathNodes, u \in EventTypes : m # n \/ u # "live" => c.lists[m][u] = d.lists[m][u]
  BY <1>9 DEF Exchanged
<1>15. \A m \in PathNodes : m # n => \A u \in EventTypes : c.lists[m][u] = b.lists[m][u]
  BY <1>7, <1>14
<1>16. /\ Range(c.lists[n]["click"]) = Range(list) \cup {y}
       /\ c.lists[n]["mouseover"] = b.lists[n]["mouseover"]
       /\ c.lists[n]["mouseenter"] = b.lists[n]["mouseenter"]
  BY <1>6, <1>7, <1>14 DEF EventTypes
<1>17. EntersWithin(c, n) /\ HasLive(c, n)
  BY <1>1, <1>2, <1>13, <1>16 DEF EntersWithin, HasLive
<1>18. HasCaller(b, n) => HasCaller(c, n)
  <2>1. As(x, "liveHandler") = y
    BY DEF y
  <2> QED BY <1>13, <1>16, <2>1 DEF HasCaller
<1>19. \A m \in PathNodes : EntersWithin(c, m) /\ HasLive(c, m)
  BY <1>1, <1>15, <1>17, SaysAlike
<1>20. \A m \in PathNodes \ lost : HasCaller(c, m)
  BY <1>1, <1>15, <1>18, SaysAlike
<1>21. \A m \in PathNodes, u \in EventTypes \ {"mouseenter"} : Tuned(d, m, u)
  BY <1>1, <1>3, TunedAfter
<1>22. \A m \in PathNodes, u \in EventTypes \ {"mouseenter"} : Tuned(c, m, u)
  BY <1>1, <1>9, <1>21, TunedAfter
<1>23. BusFits(c, lost, top + 1)
  BY <1>1, <1>12, <1>19, <1>20, <1>22, BusIs
<1>24. ASSUME NEW m \in PathNodes, NEW u \in EventTypes, NEW z \in Range(c.lists[m][u])
       PROVE  z \in Range(b.lists[m][u]) \/ z.id = top + 1
  <2>1. CASE m = n /\ u = "live"
    BY <1>13, <1>24, <2>1
  <2>2. CASE m = n /\ u = "click"
    BY <1>2, <1>16, <1>24, <2>2
  <2>3. CASE m # n \/ u \notin {"live", "click"}
    BY <1>7, <1>14, <1>24, <2>3
  <2> QED BY <2>1, <2>2, <2>3
<1> QED BY <1>0, <1>23, <1>24 DEF Binds

LEMMA EnterBound ==
  ASSUME NEW b, NEW lost, NEW top \in Nat, BusFits(b, lost, top), NEW n \in PathNodes,
         NEW x \in EventEntries, x.kind \in {"page", "one"}, x.id = top + 1
  PROVE  Binds(b, event_add(b, n, "mouseenter", x), lost, top)
<1> DEFINE enters == b.lists[n]["mouseenter"]
           d == IF enters = <<>> THEN PlainAdd(b, n, "mouseover", Within) ELSE b
           c == Relisted(d, n, "mouseenter", Append(enters, x), d.native[n])
<1>1. /\ "mouseover" \in EventTypes /\ "mouseenter" \in EventTypes
      /\ b \in Buses /\ ListsFit(b, top) /\ ListsFit(b, top + 1)
      /\ enters \in Seq(EventEntries) /\ top + 1 \in Nat
      /\ b.lists[n]["mouseover"] \in Seq(EventEntries)
      /\ \A m \in PathNodes : EntersWithin(b, m) /\ HasLive(b, m)
      /\ \A m \in PathNodes \ lost : HasCaller(b, m)
      /\ \A m \in PathNodes, u \in EventTypes \ {"mouseenter"} : Tuned(b, m, u)
  BY BusIsSound DEF BusSays
<1>2. Within \in EventEntries
  BY DEF Within, EventEntries
<1>3. /\ d \in Buses /\ ListsFit(d, top + 1)
      /\ d.lists[n]["mouseover"] = <<Within>>
      /\ \A m \in PathNodes, u \in EventTypes : m # n \/ u # "mouseover" => d.lists[m][u] = b.lists[m][u]
      /\ \A m \in PathNodes, u \in EventTypes \ {"mouseenter"} : Tuned(d, m, u)
  <2>1. CASE enters = <<>>
    <3>0. d = PlainAdd(b, n, "mouseover", Within)
      BY <2>1
    <3>1. b.lists[n]["mouseover"] = <<>>
      BY <1>1, <2>1 DEF EntersWithin
    <3>2. Retuned(b, d, n, "mouseover", Append(b.lists[n]["mouseover"], Within))
      BY <1>1, <1>2, <3>0, AddedPlain
    <3> HIDE DEF d
    <3>3. Exchanged(b, d, n, "mouseover", Append(b.lists[n]["mouseover"], Within))
      BY <3>2 DEF Retuned
    <3>4. Unbound(b, "mouseover", Within, top + 1) /\ Within \notin Range(b.lists[n]["mouseover"])
      BY <1>1, <3>1, WithinIsUnbound
    <3>5. ListsFit(d, top + 1)
      BY <1>1, <3>3, <3>4, AppendedFits
    <3>6. Append(<<>>, Within) = <<Within>>
      OBVIOUS
    <3>7. /\ d \in Buses /\ d.lists[n]["mouseover"] = <<Within>>
          /\ \A m \in PathNodes, u \in EventTypes : m # n \/ u # "mouseover" => d.lists[m][u] = b.lists[m][u]
      BY <3>1, <3>3, <3>6 DEF Exchanged
    <3>8. \A m \in PathNodes, u \in EventTypes \ {"mouseenter"} : Tuned(d, m, u)
      BY <1>1, <3>2, TunedAfter
    <3> QED BY <3>5, <3>7, <3>8
  <2>2. CASE enters # <<>>
    <3>1. d = b /\ b.lists[n]["mouseover"] = <<Within>>
      BY <1>1, <2>2 DEF EntersWithin
    <3> QED BY <1>1, <3>1
  <2> QED BY <2>1, <2>2
<1>4. event_add(b, n, "mouseenter", x) = c
  <2>1. d.lists[n]["mouseenter"] = enters
    BY <1>1, <1>3
  <2>2. event_add(b, n, "mouseenter", x)
        = [lists |-> [d.lists EXCEPT ![n]["mouseenter"] = Append(@, x)], native |-> d.native]
    BY DEF event_add
  <2> HIDE DEF d
  <2>3. d.native = [d.native EXCEPT ![n] = d.native[n]]
    BY <1>3 DEF Buses
  <2>4. [d.lists EXCEPT ![n]["mouseenter"] = Append(@, x)]
        = [d.lists EXCEPT ![n]["mouseenter"] = Append(enters, x)]
    BY <2>1
  <2> QED BY <2>2, <2>3, <2>4 DEF Relisted
<1> HIDE DEF d
<1>5. SameFor(d, n, "mouseenter", d.native[n])
  BY <1>3 DEF SameFor, Buses
<1>6. Append(enters, x) \in Seq(EventEntries) /\ Append(enters, x) # <<>>
  BY <1>1, AppendedRange
<1>7. SwappedFor(d, c, n, "mouseenter", Append(enters, x), d.native[n])
  BY <1>1, <1>3, <1>5, <1>6, SwappedLists
<1> HIDE DEF c
<1>8. Exchanged(d, c, n, "mouseenter", Append(enters, x)) /\ d.lists[n]["mouseenter"] = enters
  BY <1>1, <1>3, <1>7 DEF SwappedFor
<1>9. Unbound(d, "mouseenter", x, top + 1) /\ x \notin Range(enters)
  <2>1. x.kind \in KindsFor("mouseenter") /\ x.kind # "within"
    BY DEF KindsFor
  <2>2. Unbound(b, "mouseenter", x, top + 1) /\ x \notin Range(enters)
    BY <1>1, <2>1, NewIsUnbound
  <2>3. \A m \in PathNodes, u \in EventTypes : \A z \in Range(d.lists[m][u]) :
           z \in Range(b.lists[m][u]) \/ z = Within
    <3>1. Range(<<Within>>) = {Within}
      BY DEF Range
    <3> QED BY <1>3, <3>1
  <2>4. Within.kind = "within"
    BY DEF Within
  <2> QED BY <2>1, <2>2, <2>3, <2>4 DEF Unbound
<1>10. ListsFit(c, top + 1)
  BY <1>1, <1>3, <1>8, <1>9, AppendedFits
<1>11. \A m \in PathNodes, u \in EventTypes : m # n \/ u # "mouseenter" =>
          c.lists[m][u] = d.lists[m][u] /\ (u \in c.native[m] <=> u \in d.native[m])
  BY <1>8 DEF Exchanged
<1>12. \A m \in PathNodes : m # n => \A u \in EventTypes : c.lists[m][u] = b.lists[m][u]
  BY <1>3, <1>11
<1>13. /\ c.lists[n]["click"] = b.lists[n]["click"] /\ c.lists[n]["live"] = b.lists[n]["live"]
       /\ c.lists[n]["mouseover"] = <<Within>> /\ c.lists[n]["mouseenter"] # <<>>
  BY <1>3, <1>6, <1>8, <1>11 DEF EventTypes, Exchanged
<1>14. EntersWithin(c, n) /\ HasLive(c, n) /\ (HasCaller(b, n) => HasCaller(c, n))
  BY <1>1, <1>13 DEF EntersWithin, HasLive, HasCaller
<1>15. \A m \in PathNodes : EntersWithin(c, m) /\ HasLive(c, m)
  BY <1>1, <1>12, <1>14, SaysAlike
<1>16. \A m \in PathNodes \ lost : HasCaller(c, m)
  BY <1>1, <1>12, <1>14, SaysAlike
<1>17. \A m \in PathNodes, u \in EventTypes \ {"mouseenter"} : Tuned(c, m, u)
  BY <1>3, <1>11 DEF Tuned
<1>18. BusFits(c, lost, top + 1)
  BY <1>1, <1>10, <1>15, <1>16, <1>17, BusIs
<1>19. Range(c.lists[n]["mouseenter"]) = Range(enters) \cup {x}
  BY <1>1, <1>8, AppendedRange DEF Exchanged
<1>20. Range(<<Within>>) = {Within} /\ Within.kind = "within"
  BY DEF Range, Within
<1>21. ASSUME NEW m \in PathNodes, NEW u \in EventTypes, NEW y \in Range(c.lists[m][u])
       PROVE  y \in Range(b.lists[m][u]) \/ y.id = top + 1 \/ y.kind = "within"
  <2>1. CASE m = n /\ u = "mouseenter"
    BY <1>19, <1>21, <2>1
  <2>2. CASE m = n /\ u = "mouseover"
    BY <1>13, <1>20, <1>21, <2>2
  <2>3. CASE m # n \/ u \notin {"mouseenter", "mouseover"}
    BY <1>3, <1>11, <1>21, <2>3
  <2> QED BY <2>1, <2>2, <2>3
<1> QED BY <1>4, <1>18, <1>21 DEF Binds

LEMMA AsIs ==
  ASSUME NEW x \in EventEntries, NEW kind
  PROVE  /\ As(x, kind).kind = kind /\ As(x, kind).guid = x.guid /\ As(x, kind).names = x.names
         /\ As(x, kind).sel = x.sel /\ As(x, kind).id = x.id
         /\ As(As(x, kind), x.kind) = x
<1>1. x = [kind |-> x.kind, guid |-> x.guid, names |-> x.names, sel |-> x.sel, id |-> x.id]
  BY DEF EventEntries
<1>2. As(x, kind) = [kind |-> kind, guid |-> x.guid, names |-> x.names, sel |-> x.sel, id |-> x.id]
  BY <1>1 DEF As
<1>3. As(As(x, kind), x.kind) = [kind |-> x.kind, guid |-> x.guid, names |-> x.names, sel |-> x.sel,
                                 id |-> x.id]
  <2> DEFINE y == As(x, kind)
  <2>1. y = [kind |-> kind, guid |-> x.guid, names |-> x.names, sel |-> x.sel, id |-> x.id]
    BY <1>2
  <2> HIDE DEF y
  <2>2. As(y, x.kind) = [kind |-> x.kind, guid |-> x.guid, names |-> x.names, sel |-> x.sel, id |-> x.id]
    BY <2>1 DEF As
  <2> QED BY <2>2 DEF y
<1> QED BY <1>1, <1>2, <1>3

\* Lists that only lose handlers.
Fewer(b, c) ==
    /\ c \in Buses
    /\ \A m \in PathNodes, u \in EventTypes :
          /\ IsInjective(c.lists[m][u])
          /\ Range(c.lists[m][u]) \subseteq Range(b.lists[m][u])

LEMMA FewerFits ==
  ASSUME NEW b, NEW top, ListsFit(b, top), NEW c, Fewer(b, c)
  PROVE  ListsFit(c, top)
<1>1. \A m \in PathNodes, u \in EventTypes : ListFits(c, m, u, top)
  BY DEF Fewer, ListsFit, ListFits
<1>2. BoundOnce(c)
  BY DEF Fewer, ListsFit, BoundOnce
<1> QED BY <1>1, <1>2 DEF Fewer, ListsFit

Loses(b, c, n, t, gone) ==
    Fewer(b, c) /\ Range(c.lists[n][t]) = Range(b.lists[n][t]) \ gone

LEMMA FewerLeft ==
  ASSUME NEW b, NEW top, ListsFit(b, top), NEW c, NEW n \in PathNodes, NEW t \in EventTypes, NEW gone,
         Retuned(b, c, n, t, Left(b, n, t, gone))
  PROVE  Loses(b, c, n, t, gone)
<1>1. b \in Buses /\ \A m \in PathNodes, u \in EventTypes : IsInjective(b.lists[m][u])
  BY DEF ListsFit, ListFits
<1>2. c \in Buses /\ c.lists[n][t] = Left(b, n, t, gone)
  BY DEF Retuned, Exchanged
<1>3. Range(c.lists[n][t]) = Range(b.lists[n][t]) \ gone /\ IsInjective(c.lists[n][t])
  BY <1>1, <1>2, LeftFits
<1>4. \A m \in PathNodes, u \in EventTypes : m # n \/ u # t => c.lists[m][u] = b.lists[m][u]
  BY DEF Retuned, Exchanged
<1> QED BY <1>1, <1>2, <1>3, <1>4 DEF Fewer, Loses

\* Where cut is not extended, every live handler has somebody to call it.
LEMMA UncutHasCaller ==
  ASSUME NEW c, NEW top, ListsFit(c, top), NEW n \in PathNodes, HasLive(c, n), n \notin Cut(c)
  PROVE  HasCaller(c, n)
<1>1. "click" \in EventTypes /\ "live" \in EventTypes
  BY DEF EventTypes
<1>2. \A u \in EventTypes : Range(c.lists[n][u]) \subseteq EventEntries
  <2>1. \A u \in EventTypes : c.lists[n][u] \in Seq(EventEntries)
    BY DEF ListsFit, Buses
  <2> QED BY <2>1 DEF Range
<1>3. ASSUME NEW l \in Range(c.lists[n]["live"])
      PROVE  As(l, "liveHandler") \in Range(c.lists[n]["click"])
  <2>1. PICK x \in Range(c.lists[n]["click"]) : x.kind = "liveHandler" /\ x.id = l.id
    BY <1>3 DEF Cut
  <2>2. As(x, "live") \in Range(c.lists[n]["live"])
    BY <2>1 DEF HasLive
  <2>3. x \in EventEntries /\ l \in EventEntries
    BY <1>1, <1>2, <1>3, <2>1
  <2>4. l.kind \in KindsFor("live")
    BY <1>1, <1>3 DEF ListsFit, ListFits
  <2>5. As(x, "live").kind = l.kind /\ As(x, "live").id = l.id
    BY <2>1, <2>3, <2>4, AsIs DEF KindsFor
  <2>6. As(x, "live") = l
    BY <1>1, <1>3, <2>2, <2>5 DEF ListsFit, BoundOnce
  <2>7. As(l, "liveHandler") = x
    BY <2>1, <2>3, <2>6, AsIs
  <2> QED BY <2>1, <2>7
<1> QED BY <1>3 DEF HasCaller

\* What unbinding some of the handlers of an element leaves.
Unbinds(b, c, n, t, gone, lost, top) ==
    /\ BusFits(c, lost, top) /\ Fewer(b, c)
    /\ Range(c.lists[n][t]) \cap gone = {}

LEMMA ClickUnbound ==
  ASSUME NEW b, NEW lost, NEW top \in Nat, BusFits(b, lost, top), NEW n \in PathNodes, NEW gone,
         NEW c, c = event_remove(b, n, "click", gone)
  PROVE  Unbinds(b, c, n, "click", gone, lost \cup Cut(c), top)
<1>1. BusSays(b, lost, top, n)
  BY BusIsSound
<1>2. "click" \in EventTypes /\ b \in Buses /\ ListsFit(b, top)
  BY <1>1 DEF BusSays
<1>3. c = PlainRemove(b, n, "click", gone)
  BY DEF event_remove
<1>4. Retuned(b, c, n, "click", Left(b, n, "click", gone))
  BY <1>2, <1>3, RemovedPlain
<1>5. Fewer(b, c) /\ Range(c.lists[n]["click"]) = Range(b.lists[n]["click"]) \ gone
  <2>1. Loses(b, c, n, "click", gone)
    BY <1>2, <1>4, FewerLeft
  <2> QED BY <2>1 DEF Loses
<1>6. ListsFit(c, top)
  BY <1>2, <1>5, FewerFits
<1>7. \A m \in PathNodes, u \in EventTypes : m # n \/ u # "click" => c.lists[m][u] = b.lists[m][u]
  BY <1>4 DEF Retuned, Exchanged
<1>8. \A m \in PathNodes : m # n => \A u \in EventTypes : c.lists[m][u] = b.lists[m][u]
  BY <1>7
<1>9. /\ c.lists[n]["live"] = b.lists[n]["live"] /\ c.lists[n]["mouseover"] = b.lists[n]["mouseover"]
      /\ c.lists[n]["mouseenter"] = b.lists[n]["mouseenter"]
  BY <1>7 DEF EventTypes
<1>10. \A m \in PathNodes : EntersWithin(b, m) /\ HasLive(b, m)
  BY <1>1 DEF BusSays
<1>11. EntersWithin(c, n) /\ HasLive(c, n)
  BY <1>5, <1>9, <1>10 DEF EntersWithin, HasLive
<1>12. \A m \in PathNodes : EntersWithin(c, m) /\ HasLive(c, m)
  BY <1>8, <1>10, <1>11, SaysAlike
<1>13. \A m \in PathNodes \ (lost \cup Cut(c)) : HasCaller(c, m)
  BY <1>6, <1>12, UncutHasCaller
<1>14. \A m \in PathNodes, u \in EventTypes \ {"mouseenter"} : Tuned(c, m, u)
  BY <1>1, <1>2, <1>4, TunedAfter DEF BusSays
<1>15. BusFits(c, lost \cup Cut(c), top)
  BY <1>6, <1>12, <1>13, <1>14, BusIs
<1> QED BY <1>5, <1>15 DEF Unbinds

LEMMA EnterUnbound ==
  ASSUME NEW b, NEW lost, NEW top \in Nat, BusFits(b, lost, top), NEW n \in PathNodes, NEW gone,
         NEW c, c = event_remove(b, n, "mouseenter", gone)
  PROVE  Unbinds(b, c, n, "mouseenter", gone, lost, top)
<1> DEFINE less == PlainRemove(b, n, "mouseenter", gone)
<1>1. BusSays(b, lost, top, n)
  BY BusIsSound
<1>2. "mouseenter" \in EventTypes /\ "mouseover" \in EventTypes /\ b \in Buses /\ ListsFit(b, top)
      /\ b.lists[n]["mouseenter"] \in Seq(EventEntries)
  BY <1>1 DEF BusSays
<1>3. Retuned(b, less, n, "mouseenter", Left(b, n, "mouseenter", gone))
  BY <1>2, RemovedPlain
<1>4. c = IF b.lists[n]["mouseenter"] # <<>> /\ less.lists[n]["mouseenter"] = <<>>
          THEN PlainRemove(less, n, "mouseover", {Within}) ELSE less
  BY DEF event_remove
<1> HIDE DEF less
<1>5. Fewer(b, less) /\ Range(less.lists[n]["mouseenter"]) = Range(b.lists[n]["mouseenter"]) \ gone
  <2>1. Loses(b, less, n, "mouseenter", gone)
    BY <1>2, <1>3, FewerLeft
  <2> QED BY <2>1 DEF Loses
<1>6. ListsFit(less, top) /\ less \in Buses /\ less.lists[n]["mouseover"] \in Seq(EventEntries)
      /\ less.lists[n]["mouseenter"] \in Seq(EventEntries)
  <2>1. less \in Buses /\ ListsFit(less, top)
    BY <1>2, <1>5, FewerFits DEF Fewer
  <2> QED BY <1>2, <2>1 DEF Buses
<1>7. \A m \in PathNodes, u \in EventTypes : m # n \/ u # "mouseenter" => less.lists[m][u] = b.lists[m][u]
  BY <1>3 DEF Retuned, Exchanged
<1>8. /\ less.lists[n]["live"] = b.lists[n]["live"] /\ less.lists[n]["click"] = b.lists[n]["click"]
      /\ less.lists[n]["mouseover"] = b.lists[n]["mouseover"]
  BY <1>7 DEF EventTypes
<1>9. \A m \in PathNodes, u \in EventTypes \ {"mouseenter"} : Tuned(less, m, u)
  BY <1>1, <1>2, <1>3, TunedAfter DEF BusSays
<1>10. /\ ListsFit(c, top) /\ Fewer(b, c)
       /\ c.lists[n]["mouseenter"] = less.lists[n]["mouseenter"]
       /\ \A m \in PathNodes, u \in EventTypes : m # n \/ u # "mouseover" => c.lists[m][u] = less.lists[m][u]
       /\ \A m \in PathNodes, u \in EventTypes \ {"mouseenter"} : Tuned(c, m, u)
       /\ EntersWithin(c, n)
  <2>0. EntersWithin(b, n)
    BY <1>1 DEF BusSays
  <2>1. CASE b.lists[n]["mouseenter"] # <<>> /\ less.lists[n]["mouseenter"] = <<>>
    <3>1. c = PlainRemove(less, n, "mouseover", {Within})
      BY <1>4, <2>1
    <3>2. Retuned(less, c, n, "mouseover", Left(less, n, "mouseover", {Within}))
      BY <1>2, <1>6, <3>1, RemovedPlain
    <3>3. Fewer(less, c)
          /\ Range(c.lists[n]["mouseover"]) = Range(less.lists[n]["mouseover"]) \ {Within}
      <4>1. Loses(less, c, n, "mouseover", {Within})
        BY <1>2, <1>6, <3>2, FewerLeft
      <4> QED BY <4>1 DEF Loses
    <3>4. ListsFit(c, top) /\ c \in Buses /\ c.lists[n]["mouseover"] \in Seq(EventEntries)
      <4>1. c \in Buses /\ ListsFit(c, top)
        BY <1>6, <3>3, FewerFits DEF Fewer
      <4> QED BY <1>2, <4>1 DEF Buses
    <3>5. Fewer(b, c)
      BY <1>5, <3>3 DEF Fewer
    <3>6. \A m \in PathNodes, u \in EventTypes : m # n \/ u # "mouseover" => c.lists[m][u] = less.lists[m][u]
      BY <3>2 DEF Retuned, Exchanged
    <3>7. \A m \in PathNodes, u \in EventTypes \ {"mouseenter"} : Tuned(c, m, u)
      BY <1>2, <1>9, <3>2, TunedAfter
    <3>8. c.lists[n]["mouseenter"] = less.lists[n]["mouseenter"]
      BY <1>2, <3>6
    <3>9. c.lists[n]["mouseover"] = <<>>
      <4>1. less.lists[n]["mouseover"] = <<Within>>
        BY <1>8, <2>0, <2>1 DEF EntersWithin
      <4>2. Range(<<Within>>) = {Within}
        BY DEF Range
      <4>3. Range(c.lists[n]["mouseover"]) = {}
        BY <3>3, <4>1, <4>2
      <4> QED BY <3>4, <4>3, EmptyRange
    <3>10. EntersWithin(c, n)
      BY <2>1, <3>8, <3>9 DEF EntersWithin
    <3> QED BY <3>4, <3>5, <3>6, <3>7, <3>8, <3>10
  <2>2. CASE ~(b.lists[n]["mouseenter"] # <<>> /\ less.lists[n]["mouseenter"] = <<>>)
    <3>1. c = less
      BY <1>4, <2>2
    <3>2. Range(<<>>) = {}
      BY DEF Range
    <3>3. b.lists[n]["mouseenter"] = <<>> => less.lists[n]["mouseenter"] = <<>>
      BY <1>5, <1>6, <3>2, EmptyRange
    <3>4. EntersWithin(less, n)
      BY <1>8, <2>0, <2>2, <3>3 DEF EntersWithin
    <3> QED BY <1>5, <1>6, <1>9, <3>1, <3>4
  <2> QED BY <2>1, <2>2
<1>11. \A m \in PathNodes : m # n => \A u \in EventTypes : c.lists[m][u] = b.lists[m][u]
  BY <1>7, <1>10
<1>12. c.lists[n]["live"] = b.lists[n]["live"] /\ c.lists[n]["click"] = b.lists[n]["click"]
  BY <1>8, <1>10 DEF EventTypes
<1>13. (HasLive(b, n) => HasLive(c, n)) /\ (HasCaller(b, n) => HasCaller(c, n))
  BY <1>12 DEF HasLive, HasCaller
<1>14. \A m \in PathNodes : EntersWithin(c, m) /\ HasLive(c, m)
  BY <1>1, <1>10, <1>11, <1>13, SaysAlike DEF BusSays
<1>15. \A m \in PathNodes \ lost : HasCaller(c, m)
  <2>1. \A m \in PathNodes \ lost : HasCaller(b, m)
    BY <1>1 DEF BusSays
  <2> QED BY <1>11, <1>13, <2>1, SaysAlike
<1>16. BusFits(c, lost, top)
  BY <1>10, <1>14, <1>15, BusIs
<1>17. Range(c.lists[n]["mouseenter"]) \cap gone = {}
  BY <1>5, <1>10
<1> QED BY <1>10, <1>16, <1>17 DEF Unbinds

LEMMA LiveUnbound ==
  ASSUME NEW b, NEW lost, NEW top \in Nat, BusFits(b, lost, top), NEW n \in PathNodes,
         NEW g, NEW name, NEW sel, NEW gone, gone = ChosenHandlers(b.lists[n]["live"], g, name, sel),
         NEW c, c = event_remove(b, n, "live", gone)
  PROVE  Unbinds(b, c, n, "live", gone, lost, top)
<1> DEFINE less  == PlainRemove(b, n, "live", gone)
           serve == Serving(b, n, gone)
<1>1. BusSays(b, lost, top, n)
  BY BusIsSound
<1>2. "click" \in EventTypes /\ "live" \in EventTypes /\ b \in Buses /\ ListsFit(b, top)
  BY <1>1 DEF BusSays
<1>3. c = PlainRemove(less, n, "click", serve)
  BY DEF event_remove
<1>4. Retuned(b, less, n, "live", Left(b, n, "live", gone))
  BY <1>2, RemovedPlain
<1> HIDE DEF less, serve
<1>5. Fewer(b, less) /\ Range(less.lists[n]["live"]) = Range(b.lists[n]["live"]) \ gone
  <2>1. Loses(b, less, n, "live", gone)
    BY <1>2, <1>4, FewerLeft
  <2> QED BY <2>1 DEF Loses
<1>6. ListsFit(less, top) /\ less \in Buses
  BY <1>2, <1>5, FewerFits DEF Fewer
<1>7. Retuned(less, c, n, "click", Left(less, n, "click", serve))
  BY <1>2, <1>3, <1>6, RemovedPlain
<1>8. Fewer(less, c) /\ Range(c.lists[n]["click"]) = Range(less.lists[n]["click"]) \ serve
  <2>1. Loses(less, c, n, "click", serve)
    BY <1>2, <1>6, <1>7, FewerLeft
  <2> QED BY <2>1 DEF Loses
<1>9. ListsFit(c, top)
  BY <1>6, <1>8, FewerFits
<1>10. Fewer(b, c)
  BY <1>5, <1>8 DEF Fewer
<1>11. \A m \in PathNodes, u \in EventTypes : m # n \/ u # "live" => less.lists[m][u] = b.lists[m][u]
  BY <1>4 DEF Retuned, Exchanged
<1>12. \A m \in PathNodes, u \in EventTypes : m # n \/ u # "click" => c.lists[m][u] = less.lists[m][u]
  BY <1>7 DEF Retuned, Exchanged
<1>13. \A m \in PathNodes : m # n => \A u \in EventTypes : c.lists[m][u] = b.lists[m][u]
  BY <1>11, <1>12
<1>14. /\ Range(c.lists[n]["click"]) = Range(b.lists[n]["click"]) \ serve
       /\ Range(c.lists[n]["live"]) = Range(b.lists[n]["live"]) \ gone
       /\ c.lists[n]["mouseover"] = b.lists[n]["mouseover"]
       /\ c.lists[n]["mouseenter"] = b.lists[n]["mouseenter"]
  BY <1>5, <1>8, <1>11, <1>12 DEF EventTypes
<1>15. Range(b.lists[n]["click"]) \subseteq EventEntries /\ Range(b.lists[n]["live"]) \subseteq EventEntries
  <2>1. b.lists[n]["click"] \in Seq(EventEntries) /\ b.lists[n]["live"] \in Seq(EventEntries)
    BY <1>2 DEF Buses
  <2> QED BY <2>1 DEF Range
<1>16. \A l \in Range(b.lists[n]["live"]) : l.kind = "live"
  <2>1. \A l \in Range(b.lists[n]["live"]) : l.kind \in KindsFor("live")
    BY <1>2 DEF ListsFit, ListFits
  <2> QED BY <2>1 DEF KindsFor
<1>17. EntersWithin(b, n) => EntersWithin(c, n)
  BY <1>14 DEF EntersWithin
<1>18. ASSUME HasLive(b, n) PROVE HasLive(c, n)
  <2>1. ASSUME NEW x \in Range(c.lists[n]["click"]), x.kind = "liveHandler"
        PROVE  As(x, "live") \in Range(c.lists[n]["live"])
    <3>1. x \in Range(b.lists[n]["click"]) /\ x \notin serve /\ x \in EventEntries
      BY <1>14, <1>15, <2>1
    <3>2. As(x, "live") \in Range(b.lists[n]["live"])
      BY <1>18, <2>1, <3>1 DEF HasLive
    <3>3. As(x, "live").guid = x.guid /\ As(x, "live").sel = x.sel /\ As(x, "live").names \subseteq x.names
      BY <3>1, AsIs
    <3>4. As(x, "live") \notin gone
      BY <2>1, <3>1, <3>3 DEF serve, Serving
    <3> QED BY <1>14, <3>2, <3>4
  <2> QED BY <2>1 DEF HasLive
<1>19. ASSUME HasCaller(b, n) PROVE HasCaller(c, n)
  <2>1. ASSUME NEW l \in Range(c.lists[n]["live"])
        PROVE  As(l, "liveHandler") \in Range(c.lists[n]["click"])
    <3> DEFINE y == As(l, "liveHandler")
    <3>1. l \in Range(b.lists[n]["live"]) /\ l \notin gone /\ l \in EventEntries /\ l.kind = "live"
      BY <1>14, <1>15, <1>16, <2>1
    <3>2. y \in Range(b.lists[n]["click"])
      BY <1>19, <3>1 DEF HasCaller
    <3>3. y.guid = l.guid /\ y.sel = l.sel /\ y.names = l.names
      BY <3>1, AsIs
    <3> HIDE DEF y
    <3>4. ASSUME NEW m \in gone, m.guid = y.guid, m.sel = y.sel, m.names \subseteq y.names PROVE FALSE
      <4>1. /\ g # "any" => m.guid = g
            /\ name \subseteq m.names
            /\ sel # "none" => m.sel = sel
        BY <3>4 DEF ChosenHandlers
      <4>2. /\ l.kind # "within"
            /\ g # "any" => l.guid = g
            /\ name \subseteq l.names
            /\ sel # "none" => l.sel = sel
        BY <3>1, <3>3, <3>4, <4>1
      <4> QED BY <3>1, <4>2 DEF ChosenHandlers
    <3>5. y \notin serve
      BY <3>4 DEF serve, Serving
    <3> QED BY <1>14, <3>2, <3>5 DEF y
  <2> QED BY <2>1 DEF HasCaller
<1>20. \A m \in PathNodes : EntersWithin(c, m) /\ HasLive(c, m)
  BY <1>1, <1>13, <1>17, <1>18, SaysAlike DEF BusSays
<1>21. \A m \in PathNodes \ lost : HasCaller(c, m)
  <2>1. \A m \in PathNodes \ lost : HasCaller(b, m)
    BY <1>1 DEF BusSays
  <2> QED BY <1>13, <1>19, <2>1, SaysAlike
<1>22. \A m \in PathNodes, u \in EventTypes \ {"mouseenter"} : Tuned(less, m, u)
  BY <1>1, <1>2, <1>4, TunedAfter DEF BusSays
<1>23. \A m \in PathNodes, u \in EventTypes \ {"mouseenter"} : Tuned(c, m, u)
  BY <1>2, <1>7, <1>22, TunedAfter
<1>24. BusFits(c, lost, top)
  BY <1>9, <1>20, <1>21, <1>23, BusIs
<1>25. Range(c.lists[n]["live"]) \cap gone = {}
  BY <1>14
<1> QED BY <1>10, <1>24, <1>25 DEF Unbinds

-----------------------------------------------------------------------------
(* Events under way.                                                       *)

LEMMA OnThePath ==
  /\ Path \in Seq(PathNodes) /\ DOMAIN Path = 1..Len(Path) /\ Len(Path) \in Nat \ {0}
  /\ \A i \in DOMAIN Path : Path[i] \in PathNodes
  /\ \A i, j \in DOMAIN Path : Path[i] = Path[j] => i = j
  /\ \A n \in PathNodes : Level(n) \in DOMAIN Path /\ Path[Level(n)] = n
<1>1. Path \in Seq(PathNodes) /\ Path # <<>> /\ IsInjective(Path)
  BY EventsAssumption DEF PathNodes
<1>2. DOMAIN Path = 1..Len(Path) /\ Len(Path) \in Nat \ {0}
  BY <1>1
<1>3. \A i \in DOMAIN Path : Path[i] \in PathNodes
  BY <1>1, <1>2
<1>4. \A i, j \in DOMAIN Path : Path[i] = Path[j] => i = j
  BY <1>1 DEF IsInjective
<1>5. \A n \in PathNodes : Level(n) \in DOMAIN Path /\ Path[Level(n)] = n
  BY DEF PathNodes, Range, Level
<1> QED BY <1>1, <1>2, <1>3, <1>4, <1>5

\* An event that may be on no element yet.
RawEvents == [type : EventTypes, original : EventTypes, target : PathNodes,
              names : SUBSET Names, filter : SUBSET Names,
              related : PathNodes \cup {"none"}, byBrowser : BOOLEAN,
              at : Nat, rest : Seq(EventEntries), lives : Seq(EventEntries),
              maxLevel : Nat, stop : BOOLEAN, stopped : BOOLEAN,
              liveFired : PathNodes \cup {"none"}, seen : SUBSET Nat]

ReachedAs(e, r, at, type, last, rest) ==
    /\ r \in BusEvents
    /\ r.at = at /\ r.type = type /\ r.liveFired = last /\ r.rest = rest
    /\ r.original = e.original /\ r.byBrowser = e.byBrowser /\ r.lives = e.lives /\ r.seen = e.seen
    /\ r.names = e.names /\ r.target = e.target

LEMMA ReachedEvent ==
  ASSUME NEW e \in RawEvents, NEW at \in DOMAIN Path, NEW type \in EventTypes,
         NEW last \in PathNodes \cup {"none"}, NEW rest \in Seq(EventEntries),
         NEW filter \in SUBSET Names
  PROVE  ReachedAs(e, [e EXCEPT !.at = at, !.type = type, !.liveFired = last, !.rest = rest,
                                !.filter = filter],
                   at, type, last, rest)
BY DEF RawEvents, BusEvents, ReachedAs

\* What is listed for a type is bound for it.
ListedFrom(list, S) == list \in Seq(EventEntries) /\ Range(list) \subseteq S /\ IsInjective(list)

LEMMA ListedFits ==
  ASSUME NEW b, NEW top, ListsFit(b, top), NEW n \in PathNodes, NEW t \in EventTypes, NEW names
  PROVE  ListedFrom(Listed(b, n, t, names), Range(b.lists[n][t]))
<1> DEFINE list == b.lists[n][t]
           want == {entry \in Range(list) : names \subseteq entry.names}
<1>1. list \in Seq(EventEntries) /\ IsInjective(list)
  BY DEF ListsFit, ListFits, Buses
<1>2. Listed(b, n, t, names) = Keeping(list, want)
  BY DEF Listed
<1> HIDE DEF list, want
<1>3. Keeps(EventEntries, list, want, Keeping(list, want))
  BY <1>1, KeptAre
<1> QED BY <1>1, <1>2, <1>3 DEF Keeps, ListedFrom, list

\* An event that gets to an element has its handlers still to call.
Arrives(r, b, level, seen) ==
    /\ EventFits(r) /\ r.at = level /\ r.lives = <<>> /\ r.seen = seen
    /\ Range(r.rest) \subseteq Range(b.lists[Path[level]][r.type])

MayArrive(e) ==
    /\ e \in RawEvents /\ e.lives = <<>>
    /\ e.type \in {"click", "mouseenter", "mouseover"}
    /\ e.original \in {"click", "mouseenter", "mouseover"}
    /\ ~e.byBrowser => e.type = e.original /\ e.original # "mouseover"

LEMMA ReachesFits ==
  ASSUME NEW b, NEW top, ListsFit(b, top), NEW e, MayArrive(e), NEW level \in DOMAIN Path
  PROVE  Arrives(Reaches(e, b, level), b, level, e.seen)
<1> DEFINE n == Path[level]
           t == IF e.byBrowser THEN e.original ELSE e.type
           last == IF e.byBrowser THEN "none" ELSE e.liveFired
           list == Listed(b, n, t, e.filter)
           rest == IF e.byBrowser /\ t \notin b.native[n] THEN <<>> ELSE list
           names == IF HasHandle(b, n) THEN {} ELSE e.filter
           r == [e EXCEPT !.at = level, !.type = t, !.liveFired = last, !.rest = rest,
                          !.filter = names]
<1>0. e \in RawEvents /\ e.lives = <<>>
  BY DEF MayArrive
<1>1. n \in PathNodes /\ t \in EventTypes /\ last \in PathNodes \cup {"none"}
      /\ t \in {"click", "mouseenter", "mouseover"} /\ e.original \in {"click", "mouseenter", "mouseover"}
      /\ (~e.byBrowser => t = e.original /\ e.original # "mouseover")
  BY OnThePath DEF MayArrive, RawEvents, EventTypes
<1>2. Reaches(e, b, level) = r
  BY <1>0 DEF Reaches, RawEvents
<1>9. names \in SUBSET Names
  BY <1>0 DEF RawEvents
<1> HIDE DEF n, t, last, names
<1>3. ListedFrom(list, Range(b.lists[n][t]))
  BY <1>1, ListedFits
<1> HIDE DEF list
<1>4. ListedFrom(rest, Range(b.lists[n][t]))
  <2>1. <<>> \in Seq(EventEntries) /\ Range(<<>>) = {} /\ IsInjective(<<>>)
    BY DEF Range, IsInjective
  <2> QED BY <1>3, <2>1 DEF ListedFrom
<1> HIDE DEF rest
<1>5. ReachedAs(e, r, level, t, last, rest)
  BY <1>0, <1>1, <1>4, <1>9, ReachedEvent DEF ListedFrom
<1> HIDE DEF r
<1>6. \A x \in Range(rest) : x.kind \in KindsFor(t) /\ (x.kind = "within" => x = Within)
  BY <1>1, <1>4 DEF ListedFrom, ListsFit, ListFits
<1>7. Range(<<>>) = {}
  BY DEF Range
<1>8. EventFits(r)
  BY <1>0, <1>1, <1>4, <1>5, <1>6, <1>7 DEF EventFits, ReachedAs, ListedFrom
<1> QED BY <1>0, <1>2, <1>4, <1>5, <1>8 DEF Arrives, ReachedAs, ListedFrom, n

LEMMA EventAtFits ==
  ASSUME NEW b, NEW top, ListsFit(b, top), NEW t \in {"click", "mouseenter", "mouseover"},
         NEW n \in PathNodes, NEW names \in SUBSET Names, NEW related \in PathNodes \cup {"none"},
         NEW byBrowser \in BOOLEAN, byBrowser \/ t # "mouseover"
  PROVE  Arrives(EventAt(b, t, n, names, related, byBrowser), b, Level(n), {})
<1> DEFINE e == [type |-> t, original |-> t, target |-> n, names |-> names,
                 filter |-> names, related |-> related, byBrowser |-> byBrowser, at |-> 0, rest |-> <<>>,
                 lives |-> <<>>, maxLevel |-> Len(Path), stop |-> FALSE,
                 stopped |-> FALSE, liveFired |-> "none", seen |-> {}]
<1>1. <<>> \in Seq(EventEntries) /\ {} \in SUBSET Nat /\ 0 \in Nat /\ Len(Path) \in Nat
      /\ t \in EventTypes
  BY OnThePath DEF EventTypes
<1>2. e \in RawEvents
  BY <1>1 DEF RawEvents
<1>3. MayArrive(e) /\ e.seen = {}
  BY <1>2 DEF MayArrive
<1>4. EventAt(b, t, n, names, related, byBrowser) = Reaches(e, b, Level(n))
  BY DEF EventAt
<1> HIDE DEF e
<1>5. Level(n) \in DOMAIN Path
  BY OnThePath
<1> QED BY <1>3, <1>4, <1>5, ReachesFits

-----------------------------------------------------------------------------
(* What the page and the browser do while no event is under way.           *)

NoOneSpent(b, spent) ==
    \A n \in PathNodes, t \in EventTypes : \A x \in Range(b.lists[n][t]) :
        x.kind = "one" => x.id \notin spent

LEMMA BindKeeps ==
  ASSUME EventsInv, NEW n \in PathNodes, NEW t \in EventTypes, NEW x, NewBind,
         bus' = event_add(bus, n, t, x), Binds(bus, bus', cut, binds),
         UNCHANGED <<dispatching, fired, cut, ran>>
  PROVE  EventsInv'
<1>1. dispatching = <<>> /\ binds' = binds + 1 /\ binds \in Nat
  BY DEF NewBind, NoEvent, EventsInv
<1>2. binds' \in Nat /\ BusFits(bus', cut', binds')
  BY <1>1 DEF Binds
<1>4. ASSUME ~ran.nested PROVE RunsFit(bus', dispatching', ran', binds')
  <2>1. RunsFit(bus, dispatching, ran, binds)
    BY <1>4 DEF EventsInv
  <2>0. ran'.spent \subseteq 1..binds' /\ binds + 1 \notin ran.spent
    BY <1>1, <2>1 DEF RunsFit
  <2>2. \A m \in PathNodes, u \in EventTypes : \A y \in Range(bus'.lists[m][u]) :
           y \in Range(bus.lists[m][u]) \/ y.id = binds + 1 \/ y.kind = "within"
    BY DEF Binds
  <2>3. \A m \in PathNodes, u \in EventTypes : \A y \in Range(bus'.lists[m][u]) :
           y.kind = "one" => y.id \notin ran'.spent
    BY <2>0, <2>1, <2>2 DEF RunsFit
  <2> QED BY <1>1, <2>0, <2>1, <2>3 DEF RunsFit
<1> QED BY <1>1, <1>2, <1>4 DEF EventsInv

LEMMA HandlerKeeps ==
  ASSUME EventsInv, NEW n \in PathNodes, NEW t \in {"click", "mouseenter"}, NEW g \in Guids,
         NEW name \in SUBSET Names, NEW kind \in {"page", "one"}, BindHandler(n, t, g, name, kind)
  PROVE  EventsInv'
<1> DEFINE x == [kind |-> kind, guid |-> g, names |-> name, sel |-> "none", id |-> binds']
<1>1. NewBind /\ UNCHANGED <<dispatching, fired, cut, ran>> /\ bus' = event_add(bus, n, t, x)
  BY DEF BindHandler
<1>2. binds \in Nat /\ BusFits(bus, cut, binds) /\ binds' = binds + 1
  BY <1>1 DEF EventsInv, NewBind
<1>3. x \in EventEntries /\ x.kind \in {"page", "one"} /\ x.id = binds + 1
  BY <1>2 DEF EventEntries
<1> HIDE DEF x
<1>4. Binds(bus, bus', cut, binds)
  BY <1>1, <1>2, <1>3, ClickBound, EnterBound
<1>5. t \in EventTypes
  BY DEF EventTypes
<1> QED BY <1>1, <1>4, <1>5, BindKeeps

LEMMA LiveKeeps ==
  ASSUME EventsInv, NEW n \in PathNodes, NEW sel \in PathNodes, NEW g \in Guids,
         NEW name \in SUBSET Names, Live(n, sel, g, name)
  PROVE  EventsInv'
<1> DEFINE x == [kind |-> "live", guid |-> g, names |-> name, sel |-> sel, id |-> binds']
<1>1. NewBind /\ UNCHANGED <<dispatching, fired, cut, ran>> /\ bus' = event_add(bus, n, "live", x)
  BY DEF Live
<1>2. binds \in Nat /\ BusFits(bus, cut, binds) /\ binds' = binds + 1
  BY <1>1 DEF EventsInv, NewBind
<1>3. x \in EventEntries /\ x.kind = "live" /\ x.id = binds + 1 /\ x.sel \in PathNodes
  BY <1>2 DEF EventEntries
<1> HIDE DEF x
<1>4. Binds(bus, bus', cut, binds)
  BY <1>1, <1>2, <1>3, LiveBound
<1>5. "live" \in EventTypes
  BY DEF EventTypes
<1> QED BY <1>1, <1>4, <1>5, BindKeeps

\* Losing handlers does no harm to an event under way.
LEMMA FewerOnes ==
  ASSUME NEW b, NEW c, Fewer(b, c), NEW e, NEW spent, NEW top, OnesFit(e, b, spent, top)
  PROVE  OnesFit(e, c, spent, top)
BY DEF Fewer, OnesFit

LEMMA FewerLives ==
  ASSUME NEW b, NEW c, Fewer(b, c), NEW e \in BusEvents, LivesFit(e, b)
  PROVE  LivesFit(e, c)
<1>1. \A level \in DOMAIN Path : LiveIds(c, level) \subseteq LiveIds(b, level)
  BY OnThePath DEF LiveIds, Fewer, EventTypes
<1>2. e.at \in DOMAIN Path
  BY DEF BusEvents
<1> QED BY <1>1, <1>2 DEF LivesFit

LEMMA FewerSpent ==
  ASSUME NEW b, NEW c, Fewer(b, c), NEW spent, NoOneSpent(b, spent)
  PROVE  NoOneSpent(c, spent)
BY DEF Fewer, NoOneSpent

LEMMA UnbindKeeps ==
  ASSUME EventsInv, NEW n \in PathNodes, NEW t \in EventTypes \ {"mouseover"}, NEW g, NEW name, NEW sel,
         UnbindHandler(n, t, g, name, sel)
  PROVE  EventsInv'
<1> DEFINE gone == ChosenHandlers(bus.lists[n][t], g, name, sel)
<1>1. dispatching = <<>> /\ UNCHANGED <<dispatching, binds, fired, ran>>
      /\ bus' = event_remove(bus, n, t, gone)
      /\ cut' = IF t = "live" THEN cut ELSE cut \cup Cut(bus')
  BY DEF UnbindHandler, NoEvent
<1>2. binds \in Nat /\ BusFits(bus, cut, binds)
  BY DEF EventsInv
<1>3. BusFits(bus', cut', binds) /\ Fewer(bus, bus')
  <2> HIDE DEF gone
  <2>1. CASE t = "click"
    <3>1. Unbinds(bus, bus', n, "click", gone, cut \cup Cut(bus'), binds)
      BY <1>1, <1>2, <2>1, ClickUnbound
    <3> QED BY <1>1, <2>1, <3>1 DEF Unbinds
  <2>2. CASE t = "live"
    <3>1. Unbinds(bus, bus', n, "live", gone, cut, binds)
      BY <1>1, <1>2, <2>2, LiveUnbound DEF gone
    <3> QED BY <1>1, <2>2, <3>1 DEF Unbinds
  <2>3. CASE t = "mouseenter"
    <3>1. Unbinds(bus, bus', n, "mouseenter", gone, cut, binds)
      BY <1>1, <1>2, <2>3, EnterUnbound
    <3>2. BusFits(bus', cut \cup Cut(bus'), binds)
      BY <3>1 DEF BusFits, Unbinds
    <3> QED BY <1>1, <2>3, <3>1, <3>2 DEF Unbinds
  <2> QED BY <2>1, <2>2, <2>3 DEF EventTypes
<1>4. BusFits(bus', cut', binds') /\ Fewer(bus, bus')
  BY <1>1, <1>3
<1>5. ASSUME ~ran.nested PROVE RunsFit(bus', dispatching', ran', binds')
  BY <1>1, <1>4, <1>5 DEF EventsInv, RunsFit, Fewer
<1> QED BY <1>1, <1>2, <1>4, <1>5 DEF EventsInv

\* A handler of one() that is listed is bound where it is listed.
LEMMA ListedOnes ==
  ASSUME NEW b, NEW top, ListsFit(b, top), NEW e, NEW level \in DOMAIN Path, NEW seen,
         Arrives(e, b, level, seen), NEW spent, NoOneSpent(b, spent)
  PROVE  OnesFit(e, b, spent, top)
<1> DEFINE n == Path[level]
<1>1. n \in PathNodes /\ e.at = level /\ e.type \in EventTypes
      /\ Range(e.rest) \subseteq Range(b.lists[n][e.type])
      /\ \A x \in Range(e.rest) : x.kind \in KindsFor(e.type)
  BY OnThePath DEF Arrives, EventFits, EventTypes
<1>2. ASSUME NEW x \in Range(e.rest), x.kind = "one" PROVE e.type # "mouseover" /\ x \in Range(b.lists[n][e.type])
  BY <1>1, <1>2 DEF KindsFor
<1> QED BY <1>1, <1>2 DEF OnesFit, ListsFit, ListFits, BoundOnce, NoOneSpent

LEMMA NewLives ==
  ASSUME NEW e, NEW b, e.lives = <<>>, e.seen = {}
  PROVE  LivesFit(e, b)
<1>1. DOMAIN e.lives = {} /\ Range(e.lives) = {}
  BY DEF Range
<1> QED BY <1>1 DEF LivesFit

LEMMA BeginKeeps ==
  ASSUME EventsInv, NEW e, NEW level \in DOMAIN Path, Arrives(e, bus, level, {}), BeginEvent(e)
  PROVE  EventsInv'
<1>1. dispatching' = <<e>> /\ UNCHANGED <<bus, binds, cut, ran>> /\ dispatching = <<>>
  BY DEF BeginEvent, NoEvent
<1>2. EventFits(e) /\ e \in BusEvents /\ e.lives = <<>> /\ e.seen = {}
  BY DEF Arrives, EventFits
<1>3. /\ dispatching' \in Seq(BusEvents) /\ DOMAIN dispatching' = {1} /\ dispatching'[1] = e
      /\ Len(dispatching') = 1 /\ Head(dispatching') = e
  BY <1>1, <1>2
<1>4. binds \in Nat /\ ListsFit(bus, binds)
  BY BusIs DEF EventsInv
<1>5. ASSUME ~ran.nested PROVE RunsFit(bus', dispatching', ran', binds')
  <2>1. RunsFit(bus, dispatching, ran, binds) /\ NoOneSpent(bus, ran.spent)
    BY <1>5 DEF EventsInv, RunsFit, NoOneSpent
  <2>2. OnesFit(e, bus, ran.spent, binds) /\ LivesFit(e, bus)
    BY <1>2, <1>4, <2>1, ListedOnes, NewLives
  <2> QED BY <1>1, <1>3, <2>1, <2>2 DEF RunsFit
<1> QED BY <1>1, <1>2, <1>3, <1>5 DEF EventsInv

-----------------------------------------------------------------------------
(* Dispatch.                                                               *)

StackFits(s) == s \in Seq(BusEvents) /\ \A i \in DOMAIN s : EventFits(s[i])

Pushed(e, s, r) ==
    /\ StackFits(r) /\ Len(r) = Len(s) + 1 /\ r # <<>>
    /\ Head(r) = e /\ Tail(r) = s

LEMMA PushedFits ==
  ASSUME NEW s, StackFits(s), NEW e, EventFits(e)
  PROVE  Pushed(e, s, <<e>> \o s)
<1> DEFINE r == <<e>> \o s
<1>1. s \in Seq(BusEvents) /\ e \in BusEvents /\ <<e>> \in Seq(BusEvents)
  BY DEF StackFits, EventFits
<1>2. /\ r \in Seq(BusEvents) /\ Len(r) = Len(s) + 1 /\ Len(s) \in Nat
      /\ DOMAIN r = 1..Len(s) + 1 /\ DOMAIN s = 1..Len(s)
      /\ r[1] = e /\ \A i \in 1..Len(s) : r[i + 1] = s[i]
  BY <1>1
<1>3. Tail(r) = s
  BY <1>1
<1>4. ASSUME NEW i \in DOMAIN r PROVE EventFits(r[i])
  <2>1. CASE i = 1
    BY <1>2, <2>1
  <2>2. CASE i # 1
    <3>1. i - 1 \in 1..Len(s) /\ (i - 1) + 1 = i
      BY <1>2, <2>2
    <3>2. r[i] = s[i - 1]
      BY <1>2, <3>1
    <3> QED BY <1>2, <3>1, <3>2 DEF StackFits
  <2> QED BY <2>1, <2>2
<1>5. Head(r) = e /\ r # <<>>
  BY <1>2
<1> HIDE DEF r
<1>6. StackFits(r)
  BY <1>2, <1>4 DEF StackFits
<1> QED BY <1>2, <1>3, <1>5, <1>6 DEF Pushed, r

\* The event that is dispatched.
TopIs ==
    /\ TopEvent \in BusEvents /\ EventFits(TopEvent)
    /\ StackFits(Tail(dispatching)) /\ Len(Tail(dispatching)) = Len(dispatching) - 1
    /\ Len(dispatching) \in Nat \ {0}
    /\ Here \in PathNodes /\ TopEvent.at \in DOMAIN Path
    /\ binds \in Nat /\ BusFits(bus, cut, binds) /\ ListsFit(bus, binds)

LEMMA TopFits ==
  ASSUME EventsInv, dispatching # <<>>
  PROVE  TopIs
<1>1. dispatching \in Seq(BusEvents) /\ \A i \in DOMAIN dispatching : EventFits(dispatching[i])
      /\ DOMAIN dispatching = 1..Len(dispatching) /\ Len(dispatching) \in Nat \ {0}
  BY DEF EventsInv
<1>2. TopEvent = dispatching[1] /\ 1 \in DOMAIN dispatching
  BY <1>1 DEF TopEvent
<1>3. TopEvent \in BusEvents /\ EventFits(TopEvent)
  BY <1>1, <1>2
<1>4. /\ Tail(dispatching) \in Seq(BusEvents) /\ Len(Tail(dispatching)) = Len(dispatching) - 1
      /\ \A i \in 1..Len(dispatching) - 1 : i + 1 \in 1..Len(dispatching)
                                            /\ Tail(dispatching)[i] = dispatching[i + 1]
  BY <1>1, HeadAndTail
<1>5. DOMAIN Tail(dispatching) = 1..Len(dispatching) - 1
  BY <1>1, <1>4
<1>6. StackFits(Tail(dispatching))
  BY <1>1, <1>4, <1>5 DEF StackFits
<1>7. TopEvent.at \in DOMAIN Path /\ Here \in PathNodes
  BY <1>3, OnThePath DEF BusEvents, Here
<1>8. binds \in Nat /\ BusFits(bus, cut, binds)
  BY DEF EventsInv
<1>9. ListsFit(bus, binds)
  BY <1>8, BusIs
<1> QED BY <1>1, <1>3, <1>4, <1>6, <1>7, <1>8, <1>9 DEF TopIs

\* While no event was triggered from a handler, one is under way at most.
OnlyOne ==
    /\ Len(dispatching) = 1 /\ Tail(dispatching) = <<>>
    /\ ran.again = {} /\ NoOneSpent(bus, ran.spent) /\ ran.spent \subseteq 1..binds
    /\ OnesFit(TopEvent, bus, ran.spent, binds) /\ LivesFit(TopEvent, bus)

LEMMA NotNested ==
  ASSUME EventsInv, dispatching # <<>>, ~ran.nested
  PROVE  OnlyOne
<1>1. RunsFit(bus, dispatching, ran, binds)
  BY DEF EventsInv
<1>2. Len(dispatching) = 1
  BY <1>1, TopFits DEF TopIs, RunsFit
<1>3. Tail(dispatching) = <<>>
  <2> DEFINE s == Tail(dispatching)
  <2>1. s \in Seq(BusEvents) /\ Len(s) = 0
    BY <1>2, TopFits DEF TopIs, StackFits
  <2> HIDE DEF s
  <2>2. s = <<>>
    BY <2>1
  <2> QED BY <2>2 DEF s
<1> QED BY <1>1, <1>2, <1>3 DEF RunsFit, OnlyOne, NoOneSpent, TopEvent

\* The event goes on.
StillRuns(e) == ~ran.nested => OnesFit(e, bus, ran.spent, binds) /\ LivesFit(e, bus)

LEMMA GoesOnKeeps ==
  ASSUME EventsInv, dispatching # <<>>, NEW e, EventFits(e), StillRuns(e), GoesOn(e)
  PROVE  EventsInv'
<1>1. dispatching' = <<e>> \o Tail(dispatching) /\ UNCHANGED <<bus, binds, cut, ran>>
  BY DEF GoesOn
<1>2. StackFits(Tail(dispatching))
  BY TopFits DEF TopIs
<1>3. Pushed(e, Tail(dispatching), dispatching')
  BY <1>1, <1>2, PushedFits
<1>4. ASSUME ~ran.nested PROVE RunsFit(bus', dispatching', ran', binds')
  <2>1. OnlyOne
    BY <1>4, NotNested
  <2>2. Len(Tail(dispatching)) = 0
    BY <2>1, TopFits DEF TopIs, OnlyOne
  <2>3. OnesFit(e, bus, ran.spent, binds) /\ LivesFit(e, bus)
    BY <1>4 DEF StillRuns
  <2>4. Len(dispatching') = 1 /\ Head(dispatching') = e
    BY <1>3, <2>2 DEF Pushed
  <2> QED BY <1>1, <2>1, <2>3, <2>4 DEF RunsFit, OnlyOne, NoOneSpent
<1>5. StackFits(dispatching')
  BY <1>3 DEF Pushed
<1> QED BY <1>1, <1>4, <1>5 DEF EventsInv, StackFits

\* The handlers of a function's own event and element go, or none.
RanOn(b, e) ==
    /\ BusFits(bus', cut', binds) /\ Fewer(b, bus') /\ binds' = binds
    /\ StackFits(dispatching')
    /\ \/ Len(dispatching') > Len(dispatching)
       \/ Pushed(e, Tail(dispatching), dispatching')

LEMMA RunsKeep ==
  ASSUME EventsInv, dispatching # <<>>, NEW b, NEW lost, BusFits(b, lost, binds), NEW g,
         NEW n \in PathNodes, NEW e, EventFits(e), e.type \in {"click", "mouseenter"}, Runs(g, n, b, e)
  PROVE  RanOn(b, e)
<1> DEFINE gone == ChosenHandlers(b.lists[n][e.type], "any", {}, "none")
           nested == "trigger" \in Does[g] /\ fired < MaxEvents
           new == EventAt(bus', e.type, e.target, {}, "none", FALSE)
           stack == <<e>> \o Tail(dispatching)
<1>0. binds \in Nat /\ StackFits(Tail(dispatching)) /\ Len(Tail(dispatching)) = Len(dispatching) - 1
      /\ Len(dispatching) \in Nat
  BY TopFits DEF TopIs
<1>1. /\ bus' = IF "unbind" \notin Does[g] THEN b ELSE event_remove(b, n, e.type, gone)
      /\ cut' = cut \cup Cut(bus') /\ binds' = binds
      /\ dispatching' = (IF nested THEN <<new>> ELSE <<>>) \o <<e>> \o Tail(dispatching)
  BY DEF Runs
<1>2. \E l : BusFits(bus', l, binds) /\ Fewer(b, bus')
  <2> HIDE DEF gone
  <2>1. CASE bus' = b
    <3>1. ListsFit(b, binds)
      BY <1>0, BusIs
    <3>2. Fewer(b, b)
      BY <3>1 DEF ListsFit, ListFits, Fewer
    <3> QED BY <2>1, <3>2
  <2>2. CASE bus' = event_remove(b, n, e.type, gone)
    <3>1. CASE e.type = "click"
      <4>1. Unbinds(b, bus', n, "click", gone, lost \cup Cut(bus'), binds)
        BY <1>0, <2>2, <3>1, ClickUnbound
      <4> QED BY <4>1 DEF Unbinds
    <3>2. CASE e.type = "mouseenter"
      <4>1. Unbinds(b, bus', n, "mouseenter", gone, lost, binds)
        BY <1>0, <2>2, <3>2, EnterUnbound
      <4> QED BY <4>1 DEF Unbinds
    <3> QED BY <3>1, <3>2
  <2> QED BY <1>1, <2>1, <2>2
<1>3. ListsFit(bus', binds) /\ Fewer(b, bus')
  BY <1>0, <1>2, BusIs
<1>4. BusFits(bus', cut', binds)
  <2>1. PICK l : BusFits(bus', l, binds)
    BY <1>2
  <2>2. /\ \A m \in PathNodes : EntersWithin(bus', m) /\ HasLive(bus', m)
        /\ \A m \in PathNodes, u \in EventTypes \ {"mouseenter"} : Tuned(bus', m, u)
    BY <2>1 DEF BusFits
  <2>3. \A m \in PathNodes \ cut' : HasCaller(bus', m)
    BY <1>1, <1>3, <2>2, UncutHasCaller
  <2> QED BY <1>0, <1>3, <2>2, <2>3, BusIs
<1>5. Pushed(e, Tail(dispatching), stack)
  BY <1>0, PushedFits
<1>6. CASE nested
  <2>1. e.target \in PathNodes /\ {} \in SUBSET Names
    BY DEF EventFits, BusEvents
  <2>2. Arrives(new, bus', Level(e.target), {})
    BY <1>3, <2>1, EventAtFits
  <2>3. EventFits(new)
    BY <2>2 DEF Arrives
  <2>4. dispatching' = <<new>> \o stack
    <3>1. new \in BusEvents /\ e \in BusEvents /\ Tail(dispatching) \in Seq(BusEvents)
      BY <1>0, <2>3 DEF EventFits, StackFits
    <3> HIDE DEF new
    <3> QED BY <1>1, <1>6, <3>1
  <2> HIDE DEF new, stack
  <2>5. Pushed(new, stack, dispatching')
    BY <1>5, <2>3, <2>4, PushedFits DEF Pushed
  <2>6. StackFits(dispatching') /\ Len(dispatching') > Len(dispatching)
    BY <1>0, <1>5, <2>5 DEF Pushed
  <2> QED BY <1>1, <1>3, <1>4, <2>6 DEF RanOn
<1>7. CASE ~nested
  <2>1. dispatching' = stack
    <3>1. e \in BusEvents /\ Tail(dispatching) \in Seq(BusEvents)
      BY <1>0 DEF EventFits, StackFits
    <3> QED BY <1>1, <1>7, <3>1
  <2> HIDE DEF stack
  <2> QED BY <1>1, <1>3, <1>4, <1>5, <2>1 DEF RanOn, Pushed
<1> QED BY <1>6, <1>7

\* A function has run, and its event goes on.
RanFits(b, e, spent) == ~ran.nested =>
    /\ ran'.again = {} /\ spent \subseteq 1..binds /\ NoOneSpent(b, spent)
    /\ OnesFit(e, b, spent, binds) /\ LivesFit(e, b)

LEMMA RanKeeps ==
  ASSUME EventsInv, dispatching # <<>>, NEW b, NEW e, EventFits(e), RanOn(b, e), NEW spent,
         RanFits(b, e, spent), NEW twice,
         ran' = [spent |-> spent, again |-> twice,
                 nested |-> ran.nested \/ Len(dispatching') > Len(dispatching)]
  PROVE  EventsInv'
<1>1. /\ BusFits(bus', cut', binds') /\ binds' = binds /\ binds \in Nat /\ StackFits(dispatching')
      /\ Fewer(b, bus') /\ ran'.spent = spent
      /\ ran' = [spent |-> ran'.spent, again |-> ran'.again, nested |-> ran'.nested]
      /\ ran'.nested = (ran.nested \/ Len(dispatching') > Len(dispatching))
  BY TopFits DEF RanOn, RanFits, TopIs
<1>2. ran'.nested \in BOOLEAN
  BY <1>1
<1>3. ASSUME ~ran'.nested PROVE RunsFit(bus', dispatching', ran', binds')
  <2>1. ~ran.nested /\ Pushed(e, Tail(dispatching), dispatching')
    BY <1>1, <1>3 DEF RanOn
  <2>2. OnlyOne
    BY <2>1, NotNested
  <2>3. Len(dispatching') = 1 /\ Head(dispatching') = e
    BY <2>1, <2>2, TopFits DEF Pushed, OnlyOne, TopIs
  <2>4. ran'.again = {} /\ NoOneSpent(b, spent) /\ OnesFit(e, b, spent, binds) /\ LivesFit(e, b) /\ e \in BusEvents
        /\ spent \subseteq 1..binds
    BY <2>1 DEF RanFits, EventFits
  <2>5. NoOneSpent(bus', spent) /\ OnesFit(e, bus', spent, binds) /\ LivesFit(e, bus')
    BY <1>1, <2>4, FewerOnes, FewerLives, FewerSpent
  <2> QED BY <1>1, <2>3, <2>4, <2>5 DEF RunsFit, NoOneSpent
<1> QED BY <1>1, <1>2, <1>3 DEF EventsInv, StackFits

\* The event without the first of its handlers.
LessFirst(e, r) ==
    /\ r \in BusEvents /\ r.at = e.at /\ r.type = e.type /\ r.original = e.original
    /\ r.byBrowser = e.byBrowser /\ r.lives = e.lives /\ r.liveFired = e.liveFired /\ r.seen = e.seen
    /\ r.rest = Tail(e.rest)

LEMMA ShorterEvent ==
  ASSUME NEW e \in BusEvents, e.rest # <<>>, NEW stopped \in BOOLEAN
  PROVE  /\ LessFirst(e, [e EXCEPT !.rest = Tail(@)])
         /\ LessFirst(e, [[e EXCEPT !.rest = Tail(@)] EXCEPT !.stopped = stopped])
<1> DEFINE rest == Tail(e.rest)
<1>1. rest \in Seq(EventEntries)
  BY HeadAndTail DEF BusEvents
<1>2. [e EXCEPT !.rest = Tail(@)] = [e EXCEPT !.rest = rest]
  OBVIOUS
<1>3. [e EXCEPT !.rest = Tail(@)].rest = rest
  BY DEF BusEvents
<1> DEFINE r == [e EXCEPT !.rest = rest]
<1> HIDE DEF rest
<1>4. r \in BusEvents /\ r.rest = rest /\ r.at = e.at /\ r.type = e.type /\ r.original = e.original
      /\ r.byBrowser = e.byBrowser /\ r.lives = e.lives /\ r.liveFired = e.liveFired /\ r.seen = e.seen
  BY <1>1 DEF BusEvents
<1> HIDE DEF r
<1> DEFINE q == [r EXCEPT !.stopped = stopped]
<1>5. q \in BusEvents /\ q.rest = r.rest /\ q.at = r.at /\ q.type = r.type /\ q.original = r.original
      /\ q.byBrowser = r.byBrowser /\ q.lives = r.lives /\ q.liveFired = r.liveFired /\ q.seen = r.seen
  BY <1>4 DEF BusEvents
<1> HIDE DEF q
<1>6. LessFirst(e, r) /\ LessFirst(e, q)
  BY <1>4, <1>5 DEF LessFirst, rest
<1> QED BY <1>2, <1>6 DEF r, q

LEMMA ShorterFits ==
  ASSUME NEW e, EventFits(e), e.rest # <<>>, NEW r, LessFirst(e, r)
  PROVE  EventFits(r) /\ Head(e.rest) \in Range(e.rest) /\ Head(e.rest) \in EventEntries
         /\ Head(e.rest) \notin Range(r.rest) /\ Range(r.rest) \subseteq Range(e.rest)
<1>1. e.rest \in Seq(EventEntries) /\ IsInjective(e.rest)
  BY DEF EventFits, BusEvents
<1>2. TailFits(e.rest)
  BY <1>1, TailApart
<1>3. /\ Head(e.rest) \in Range(e.rest) /\ Head(e.rest) \in EventEntries
      /\ Range(Tail(e.rest)) \subseteq Range(e.rest)
  BY <1>1, HeadAndTail
<1>4. EventFits(r)
  BY <1>2, <1>3 DEF EventFits, LessFirst, TailFits
<1> QED BY <1>2, <1>3, <1>4 DEF LessFirst, TailFits

LEMMA ShorterRuns ==
  ASSUME NEW e, EventFits(e), e.rest # <<>>, NEW r, LessFirst(e, r), NEW b, NEW spent, NEW top
  PROVE  /\ OnesFit(e, b, spent, top) => OnesFit(r, b, spent, top)
         /\ LivesFit(e, b) => LivesFit(r, b)
<1>1. Range(r.rest) \subseteq Range(e.rest)
  BY ShorterFits
<1>2. OnesFit(e, b, spent, top) => OnesFit(r, b, spent, top)
  BY <1>1 DEF OnesFit, LessFirst
<1>3. LivesFit(e, b) => LivesFit(r, b)
  BY DEF LivesFit, LessFirst
<1> QED BY <1>2, <1>3

LEMMA CallHandlerKeeps ==
  ASSUME EventsInv, CallHandler
  PROVE  EventsInv'
<1> DEFINE entry == Head(TopEvent.rest)
           r == Ret(Rest, entry.guid)
<1>0. dispatching # <<>> /\ TopEvent.rest # <<>> /\ entry.kind = "page"
  BY DEF CallHandler, NextIs
<1>1. TopIs
  BY <1>0, TopFits
<1>2. TopEvent \in BusEvents /\ EventFits(TopEvent) /\ Here \in PathNodes
      /\ BusFits(bus, cut, binds) /\ ListsFit(bus, binds) /\ binds \in Nat
  BY <1>1 DEF TopIs
<1>3. Runs(entry.guid, Here, bus, r)
      /\ ran' = [ran EXCEPT !.nested = @ \/ Len(dispatching') > Len(dispatching)]
  BY DEF CallHandler
<1>4. LessFirst(TopEvent, r)
  <2> DEFINE s == Rest.stopped \/ "false" \in Does[entry.guid]
  <2>1. r = [[TopEvent EXCEPT !.rest = Tail(@)] EXCEPT !.stopped = s]
    BY DEF Ret, Rest
  <2>2. s \in BOOLEAN
    BY <1>2 DEF Rest, BusEvents
  <2> HIDE DEF s
  <2> QED BY <1>0, <1>2, <2>1, <2>2, ShorterEvent
<1> HIDE DEF r
<1>5. EventFits(r) /\ entry \in Range(TopEvent.rest)
  BY <1>0, <1>2, <1>4, ShorterFits
<1>6. r.type \in {"click", "mouseenter"}
  BY <1>0, <1>2, <1>4, <1>5 DEF EventFits, KindsFor, LessFirst
<1>7. RanOn(bus, r)
  BY <1>0, <1>2, <1>3, <1>5, <1>6, RunsKeep
<1>8. ran = [spent |-> ran.spent, again |-> ran.again, nested |-> ran.nested]
  BY DEF EventsInv
<1>9. ran' = [spent |-> ran.spent, again |-> ran.again,
              nested |-> ran.nested \/ Len(dispatching') > Len(dispatching)]
  BY <1>3, <1>8
<1>10. RanFits(bus, r, ran.spent)
  <2>1. ASSUME ~ran.nested PROVE OnlyOne
    BY <1>0, <2>1, NotNested
  <2>2. ran'.again = ran.again
    BY <1>9
  <2> QED BY <1>0, <1>2, <1>4, <1>8, <2>1, <2>2, ShorterRuns DEF RanFits, OnlyOne
<1> QED BY <1>0, <1>5, <1>7, <1>9, <1>10, RanKeeps

LEMMA CallOneKeeps ==
  ASSUME EventsInv, CallOne
  PROVE  EventsInv'
<1> DEFINE entry == Head(TopEvent.rest)
           same  == ChosenHandlers(bus.lists[Here][TopEvent.type], entry.guid, {}, "none")
           b == event_remove(bus, Here, TopEvent.type, same)
           r == Ret(Rest, entry.guid)
           spent == ran.spent \cup {entry.id}
<1>0. dispatching # <<>> /\ TopEvent.rest # <<>> /\ entry.kind = "one"
  BY DEF CallOne, NextIs
<1>1. TopIs
  BY <1>0, TopFits
<1>2. TopEvent \in BusEvents /\ EventFits(TopEvent) /\ Here \in PathNodes
      /\ BusFits(bus, cut, binds) /\ ListsFit(bus, binds) /\ binds \in Nat
  BY <1>1 DEF TopIs
<1>3. Runs(entry.guid, Here, b, r)
      /\ ran' = [spent  |-> spent,
                 again  |-> ran.again \cup ({entry.id} \cap ran.spent),
                 nested |-> ran.nested \/ Len(dispatching') > Len(dispatching)]
  BY DEF CallOne
<1>4. LessFirst(TopEvent, r)
  <2> DEFINE s == Rest.stopped \/ "false" \in Does[entry.guid]
  <2>1. r = [[TopEvent EXCEPT !.rest = Tail(@)] EXCEPT !.stopped = s]
    BY DEF Ret, Rest
  <2>2. s \in BOOLEAN
    BY <1>2 DEF Rest, BusEvents
  <2> HIDE DEF s
  <2> QED BY <1>0, <1>2, <2>1, <2>2, ShorterEvent
<1> HIDE DEF r
<1>5. EventFits(r) /\ entry \in Range(TopEvent.rest) /\ entry \notin Range(r.rest)
      /\ Range(r.rest) \subseteq Range(TopEvent.rest)
  BY <1>0, <1>2, <1>4, ShorterFits
<1>6. r.type \in {"click", "mouseenter"} /\ TopEvent.type \in {"click", "mouseenter"}
  BY <1>0, <1>2, <1>4, <1>5 DEF EventFits, KindsFor, LessFirst
<1>7. \E l : BusFits(b, l, binds) /\ Fewer(bus, b) /\ Range(b.lists[Here][TopEvent.type]) \cap same = {}
  <2> HIDE DEF same, b
  <2>0. b = event_remove(bus, Here, TopEvent.type, same)
    BY DEF b
  <2>1. CASE TopEvent.type = "click"
    <3>1. Unbinds(bus, b, Here, "click", same, cut \cup Cut(b), binds)
      BY <1>2, <2>0, <2>1, ClickUnbound
    <3> QED BY <2>1, <3>1 DEF Unbinds
  <2>2. CASE TopEvent.type = "mouseenter"
    <3>1. Unbinds(bus, b, Here, "mouseenter", same, cut, binds)
      BY <1>2, <2>0, <2>2, EnterUnbound
    <3> QED BY <2>2, <3>1 DEF Unbinds
  <2> QED BY <1>6, <2>1, <2>2
<1> HIDE DEF b
<1>8. Fewer(bus, b) /\ Range(b.lists[Here][TopEvent.type]) \cap same = {}
  BY <1>7
<1>9. RanOn(b, r)
  BY <1>0, <1>2, <1>3, <1>5, <1>6, <1>7, RunsKeep
<1>11. RanFits(b, r, spent)
  <2>2. ASSUME ~ran.nested
        PROVE  ran'.again = {} /\ NoOneSpent(b, spent) /\ OnesFit(r, b, spent, binds) /\ LivesFit(r, b)
               /\ spent \subseteq 1..binds
    <3>1. /\ ran.again = {} /\ NoOneSpent(bus, ran.spent) /\ ran.spent \subseteq 1..binds
          /\ OnesFit(TopEvent, bus, ran.spent, binds) /\ LivesFit(TopEvent, bus)
      BY <1>0, <2>2, NotNested DEF OnlyOne
    <3>2. /\ entry.id \notin ran.spent /\ entry.id \in 1..binds
          /\ \A y \in Range(TopEvent.rest) : y.kind = "one" /\ y.id = entry.id => y = entry
          /\ \A n \in PathNodes, t \in EventTypes : \A y \in Range(bus.lists[n][t]) :
                y.kind = "one" /\ y.id = entry.id => n = Here /\ t = TopEvent.type /\ y = entry
      BY <1>0, <1>5, <3>1 DEF OnesFit, Here
    <3>3. ran'.again = {}
      BY <1>3, <3>1, <3>2
    <3>4. ASSUME NEW n \in PathNodes, NEW t \in EventTypes, NEW y \in Range(b.lists[n][t]), y.kind = "one"
          PROVE  y.id \notin spent
      <4>1. y \in Range(bus.lists[n][t])
        BY <1>8 DEF Fewer
      <4>2. y.id \notin ran.spent
        BY <3>1, <3>4, <4>1 DEF NoOneSpent
      <4>3. ASSUME y.id = entry.id PROVE FALSE
        <5>1. n = Here /\ t = TopEvent.type /\ y = entry
          BY <3>2, <3>4, <4>1, <4>3
        <5>2. entry \in same
          BY <1>0, <4>1, <5>1 DEF ChosenHandlers
        <5> QED BY <1>8, <5>1, <5>2
      <4> QED BY <4>2, <4>3
    <3>5. OnesFit(r, bus, ran.spent, binds) /\ LivesFit(r, bus)
      BY <1>0, <1>2, <1>4, <3>1, ShorterRuns
    <3>6. OnesFit(r, b, ran.spent, binds) /\ LivesFit(r, b)
      BY <1>5, <1>8, <3>5, FewerOnes, FewerLives DEF EventFits
    <3>7. \A x \in Range(r.rest) : x.kind = "one" => x.id # entry.id
      BY <1>5, <3>2
    <3>8. OnesFit(r, b, spent, binds)
      BY <3>6, <3>7 DEF OnesFit
    <3> QED BY <3>1, <3>2, <3>3, <3>4, <3>6, <3>8 DEF NoOneSpent
  <2> QED BY <2>2 DEF RanFits
<1> QED BY <1>0, <1>3, <1>5, <1>9, <1>11, RanKeeps

\* An event whose lists of handlers to call are others.
Redone(e, r, type, rest, lives, last, seen) ==
    /\ r \in BusEvents /\ r.at = e.at /\ r.original = e.original /\ r.byBrowser = e.byBrowser
    /\ r.type = type /\ r.rest = rest /\ r.lives = lives /\ r.liveFired = last /\ r.seen = seen

LEMMA WithinEvent ==
  ASSUME NEW e \in BusEvents, NEW rest \in Seq(EventEntries), NEW list
  PROVE  Redone(e, [e EXCEPT !.type = "mouseenter", !.rest = rest],
                "mouseenter", rest, e.lives, e.liveFired, e.seen)
BY DEF BusEvents, Redone, EventTypes

LEMMA LiveHandlerEvent ==
  ASSUME NEW e \in BusEvents, NEW lives \in Seq(EventEntries), NEW n \in PathNodes, NEW k \in Nat
  PROVE  Redone(e, [e EXCEPT !.liveFired = n, !.lives = lives, !.maxLevel = k, !.stop = FALSE],
                e.type, e.rest, lives, n, e.seen)
BY DEF BusEvents, Redone

LEMMA LiveCalledEvent ==
  ASSUME NEW e \in BusEvents, NEW lives \in Seq(EventEntries), NEW seen \in SUBSET Nat,
         NEW stop \in BOOLEAN, NEW k \in Nat
  PROVE  Redone(e, [e EXCEPT !.lives = lives, !.seen = seen, !.stop = stop, !.maxLevel = k],
                e.type, e.rest, lives, e.liveFired, seen)
BY DEF BusEvents, Redone

LEMMA LivesLeftEvent ==
  ASSUME NEW e \in BusEvents
  PROVE  Redone(e, [e EXCEPT !.lives = <<>>], e.type, e.rest, <<>>, e.liveFired, e.seen)
<1>1. <<>> \in Seq(EventEntries)
  OBVIOUS
<1> DEFINE none == <<>>
<1> HIDE DEF none
<1>2. none \in Seq(EventEntries)
  BY <1>1 DEF none
<1>3. Redone(e, [e EXCEPT !.lives = none], e.type, e.rest, none, e.liveFired, e.seen)
  BY <1>2 DEF BusEvents, Redone
<1> QED BY <1>3 DEF none

LEMMA ReturnedEvent ==
  ASSUME NEW e \in BusEvents
  PROVE  Redone(e, Returned(e), e.type, e.rest, e.lives, e.liveFired, e.seen)
<1>1. CASE e.lives # <<>>
  BY <1>1 DEF Returned, Redone
<1>2. CASE e.lives = <<>>
  <2> DEFINE s == e.stopped \/ e.stop
  <2>1. s \in BOOLEAN /\ Returned(e) = [e EXCEPT !.stopped = s]
    BY <1>2 DEF Returned, BusEvents
  <2> HIDE DEF s
  <2> QED BY <2>1 DEF BusEvents, Redone
<1> QED BY <1>1, <1>2

LEMMA OnesListed ==
  ASSUME NEW b, NEW top, ListsFit(b, top), NEW e, Path[e.at] \in PathNodes,
         e.type \in EventTypes \ {"mouseover"}, Range(e.rest) \subseteq Range(b.lists[Path[e.at]][e.type]),
         NEW spent, NoOneSpent(b, spent)
  PROVE  OnesFit(e, b, spent, top)
BY DEF OnesFit, ListsFit, ListFits, BoundOnce, NoOneSpent

\* A mouse that has entered: the handlers of mouseenter come first.
LEMMA CallWithinKeeps ==
  ASSUME EventsInv, CallWithin
  PROVE  EventsInv'
<1> DEFINE list == Listed(bus, Here, "mouseenter", {})
           q == Rest
           r == [Rest EXCEPT !.type = "mouseenter", !.rest = list \o @]
<1>0. dispatching # <<>> /\ TopEvent.rest # <<>> /\ TopEvent.lives = <<>>
      /\ Head(TopEvent.rest).kind = "within"
  BY DEF CallWithin, NextIs
<1>1. TopIs
  BY <1>0, TopFits
<1>2. TopEvent \in BusEvents /\ EventFits(TopEvent) /\ Here \in PathNodes
      /\ ListsFit(bus, binds) /\ binds \in Nat
  BY <1>1 DEF TopIs
<1>3. GoesOn(q) \/ GoesOn(r)
  BY DEF CallWithin
<1>4. LessFirst(TopEvent, q)
  BY <1>0, <1>2, ShorterEvent DEF Rest
<1>5. EventFits(q) /\ Head(TopEvent.rest) \in Range(TopEvent.rest)
      /\ Range(q.rest) \subseteq Range(TopEvent.rest) /\ Head(TopEvent.rest) \notin Range(q.rest)
  BY <1>0, <1>2, <1>4, ShorterFits
<1>6. StillRuns(q)
  <2> SUFFICES ASSUME ~ran.nested PROVE OnesFit(q, bus, ran.spent, binds) /\ LivesFit(q, bus)
    BY DEF StillRuns
  <2>1. OnesFit(TopEvent, bus, ran.spent, binds) /\ LivesFit(TopEvent, bus)
    BY <1>0, NotNested DEF OnlyOne
  <2> QED BY <1>0, <1>2, <1>4, <2>1, ShorterRuns
<1>7. CASE GoesOn(q)
  <2> HIDE DEF q
  <2> QED BY <1>0, <1>5, <1>6, <1>7, GoesOnKeeps
<1>8. CASE GoesOn(r)
  <2>1. TopEvent.type = "mouseover" /\ q.type = "mouseover"
    BY <1>0, <1>2, <1>4, <1>5 DEF EventFits, KindsFor, LessFirst
  <2>2. ListedFrom(list, Range(bus.lists[Here]["mouseenter"]))
    BY <1>2, ListedFits DEF EventTypes
  <2> DEFINE rest == list \o q.rest
  <2>3. r = [q EXCEPT !.type = "mouseenter", !.rest = rest]
    OBVIOUS
  <2>4. q \in BusEvents /\ q.rest \in Seq(EventEntries) /\ q.lives = <<>> /\ q.seen = TopEvent.seen
        /\ q.at = TopEvent.at /\ q.original = TopEvent.original /\ q.byBrowser = TopEvent.byBrowser
        /\ q.liveFired = TopEvent.liveFired /\ IsInjective(q.rest)
        /\ \A x \in Range(q.rest) : x.kind \in KindsFor("mouseover")
    BY <1>0, <1>4, <1>5, <2>1 DEF LessFirst, BusEvents, EventFits
  <2> HIDE DEF q, list
  <2>5. \A x \in Range(list) : x.kind \in KindsFor("mouseenter")
    BY <1>2, <2>2 DEF ListedFrom, ListsFit, ListFits, EventTypes
  <2>6. Range(rest) = Range(list)
    <3>1. \A x \in Range(TopEvent.rest) : x = Within
      BY <1>2, <2>1 DEF EventFits, KindsFor
    <3>2. Range(q.rest) = {}
      BY <1>5, <3>1
    <3>3. Joins(EventEntries, list, q.rest, rest)
      BY <2>2, <2>4, JoinedApart DEF ListedFrom
    <3> QED BY <3>2, <3>3 DEF Joins
  <2>7. rest \in Seq(EventEntries) /\ IsInjective(rest)
    <3>1. \A x \in Range(TopEvent.rest) : x = Within
      BY <1>2, <2>1 DEF EventFits, KindsFor
    <3>2. Range(q.rest) = {}
      BY <1>5, <3>1
    <3>3. Joins(EventEntries, list, q.rest, rest)
      BY <2>2, <2>4, JoinedApart DEF ListedFrom
    <3> QED BY <2>2, <2>4, <3>2, <3>3 DEF Joins, ListedFrom
  <2> HIDE DEF rest
  <2>8. Redone(q, r, "mouseenter", rest, q.lives, q.liveFired, q.seen)
    BY <2>3, <2>4, <2>7, WithinEvent
  <2> HIDE DEF r
  <2>9. \A x \in Range(rest) : x.kind \in KindsFor("mouseenter") /\ x.kind # "within"
    BY <2>5, <2>6 DEF KindsFor
  <2>10. EventFits(r)
    <3>1. Range(<<>>) = {}
      BY DEF Range
    <3> QED BY <1>2, <2>1, <2>4, <2>7, <2>8, <2>9, <3>1 DEF EventFits, Redone
  <2>11. StillRuns(r)
    <3> SUFFICES ASSUME ~ran.nested PROVE OnesFit(r, bus, ran.spent, binds) /\ LivesFit(r, bus)
      BY DEF StillRuns
    <3>1. NoOneSpent(bus, ran.spent) /\ LivesFit(TopEvent, bus)
      BY <1>0, NotNested DEF OnlyOne
    <3>2. LivesFit(r, bus)
      BY <1>0, <2>4, <2>8, <3>1 DEF LivesFit, Redone
    <3>3. r.at = TopEvent.at /\ r.type = "mouseenter" /\ Range(r.rest) \subseteq Range(bus.lists[Here]["mouseenter"])
      BY <2>2, <2>4, <2>6, <2>8 DEF Redone, ListedFrom
    <3>4. OnesFit(r, bus, ran.spent, binds)
      BY <1>2, <3>1, <3>3, OnesListed DEF Here, EventTypes
    <3> QED BY <3>2, <3>4
  <2> QED BY <1>0, <1>8, <2>10, <2>11, GoesOnKeeps
<1> QED BY <1>3, <1>7, <1>8

\* The live handlers that match on the way are live handlers of the element.
LEMMA MatchingFits ==
  ASSUME EventsInv, dispatching # <<>>
  PROVE  ListedFrom(Matching(TopEvent), Range(bus.lists[Here]["live"]))
<1> DEFINE live == Listed(bus, Here, "live", TopEvent.names)
           from == Level(TopEvent.target)
           n    == IF TopEvent.at >= from THEN TopEvent.at - from ELSE 0
           wanted(level) == {entry \in Range(live) : entry.sel = Path[level]}
           piece(i) == Keeping(live, wanted(from + i - 1))
           parts == [i \in 1..n |-> piece(i)]
<1>1. TopIs
  BY TopFits
<1>2. TopEvent.at \in 1..Len(Path) /\ from \in 1..Len(Path) /\ Len(Path) \in Nat
  BY <1>1, OnThePath DEF TopIs, EventFits, BusEvents
<1>3. n \in Nat /\ 1..n = 1..(TopEvent.at - from)
      /\ \A i \in 1..n : from + i - 1 \in DOMAIN Path
  BY <1>2, OnThePath
<1>4. ListedFrom(live, Range(bus.lists[Here]["live"]))
  BY <1>1, ListedFits DEF TopIs, EventTypes
<1>5. Matching(TopEvent) = FlattenSeq(parts)
  <2>1. Matching(TopEvent) = FlattenSeq([i \in 1..(TopEvent.at - from) |-> piece(i)])
    BY DEF Matching
  <2> QED BY <1>3, <2>1
<1> HIDE DEF live, n, from
<1>6. \A level : Keeps(EventEntries, live, wanted(level), Keeping(live, wanted(level)))
  <2>1. live \in Seq(EventEntries)
    BY <1>4 DEF ListedFrom
  <2> SUFFICES ASSUME NEW level PROVE Keeps(EventEntries, live, wanted(level), Keeping(live, wanted(level)))
    OBVIOUS
  <2> DEFINE these == wanted(level)
  <2> HIDE DEF wanted, these
  <2>2. Keeps(EventEntries, live, these, Keeping(live, these))
    BY <2>1, KeptAre
  <2> QED BY <2>2 DEF these
<1>7. \A i \in 1..n : /\ piece(i) \in Seq(EventEntries) /\ IsInjective(piece(i))
                      /\ Range(piece(i)) = wanted(from + i - 1)
  <2>1. \A level : /\ Keeping(live, wanted(level)) \in Seq(EventEntries)
                   /\ Range(Keeping(live, wanted(level))) = Range(live) \cap wanted(level)
                   /\ IsInjective(Keeping(live, wanted(level)))
    <3> HIDE DEF wanted
    <3> QED BY <1>4, <1>6 DEF Keeps, ListedFrom
  <2> QED BY <2>1
<1> HIDE DEF piece
<1>8. parts \in Seq(Seq(EventEntries)) /\ Len(parts) = n /\ \A i \in 1..n : parts[i] = piece(i)
  BY <1>3, <1>7
<1> HIDE DEF parts
<1>9. Flat(EventEntries, parts, FlattenSeq(parts))
  BY <1>8, FlatAre
<1>10. \A i \in 1..n : Range(parts[i]) = wanted(from + i - 1) /\ IsInjective(parts[i])
  BY <1>7, <1>8
<1>11. UNION {Range(parts[i]) : i \in 1..Len(parts)} \subseteq Range(live)
  BY <1>8, <1>10
<1>12. ASSUME NEW i \in 1..n, NEW j \in 1..n, i # j
       PROVE  Range(parts[i]) \cap Range(parts[j]) = {}
  <2>1. from + i - 1 \in DOMAIN Path /\ from + j - 1 \in DOMAIN Path /\ from + i - 1 # from + j - 1
    BY <1>2, <1>3, <1>12
  <2>2. Path[from + i - 1] # Path[from + j - 1]
    BY <2>1, OnThePath
  <2> QED BY <1>10, <2>2
<1>13. NoDoubles(parts)
  BY <1>8, <1>10, <1>12 DEF NoDoubles
<1> QED BY <1>4, <1>5, <1>9, <1>11, <1>13 DEF Flat, ListedFrom

\* The live handlers of an element are called once for an event.
LEMMA CallLiveHandlerKeeps ==
  ASSUME EventsInv, CallLiveHandler
  PROVE  EventsInv'
<1> DEFINE q == Rest
           lives == Matching(TopEvent)
           r == [Rest EXCEPT !.liveFired = Here, !.lives = lives, !.maxLevel = Len(Path), !.stop = FALSE]
<1>0. dispatching # <<>> /\ TopEvent.rest # <<>> /\ TopEvent.lives = <<>>
      /\ Head(TopEvent.rest).kind = "liveHandler"
  BY DEF CallLiveHandler, NextIs
<1>1. TopIs
  BY <1>0, TopFits
<1>2. TopEvent \in BusEvents /\ EventFits(TopEvent) /\ Here \in PathNodes /\ TopEvent.at \in DOMAIN Path
      /\ ListsFit(bus, binds) /\ binds \in Nat
  BY <1>1 DEF TopIs
<1>3. \/ GoesOn(q)
      \/ TopEvent.liveFired # Here /\ GoesOn(r)
  BY DEF CallLiveHandler
<1>4. LessFirst(TopEvent, q)
  BY <1>0, <1>2, ShorterEvent DEF Rest
<1>5. EventFits(q) /\ Head(TopEvent.rest) \in Range(TopEvent.rest)
  BY <1>0, <1>2, <1>4, ShorterFits
<1>6. StillRuns(q)
  <2> SUFFICES ASSUME ~ran.nested PROVE OnesFit(q, bus, ran.spent, binds) /\ LivesFit(q, bus)
    BY DEF StillRuns
  <2>1. OnesFit(TopEvent, bus, ran.spent, binds) /\ LivesFit(TopEvent, bus)
    BY <1>0, NotNested DEF OnlyOne
  <2> QED BY <1>0, <1>2, <1>4, <2>1, ShorterRuns
<1>7. CASE GoesOn(q)
  <2> HIDE DEF q
  <2> QED BY <1>0, <1>5, <1>6, <1>7, GoesOnKeeps
<1>8. CASE TopEvent.liveFired # Here /\ GoesOn(r)
  <2>1. q.type = "click"
    BY <1>0, <1>2, <1>4, <1>5 DEF EventFits, KindsFor, LessFirst
  <2>2. ListedFrom(lives, Range(bus.lists[Here]["live"]))
    BY <1>0, MatchingFits
  <2>3. q \in BusEvents /\ q.lives = <<>> /\ q.seen = TopEvent.seen /\ q.at = TopEvent.at
        /\ Len(Path) \in Nat
    BY <1>0, <1>4, OnThePath DEF LessFirst
  <2>4. r = [q EXCEPT !.liveFired = Here, !.lives = lives, !.maxLevel = Len(Path), !.stop = FALSE]
    OBVIOUS
  <2> HIDE DEF q, lives
  <2>5. Redone(q, r, q.type, q.rest, lives, Here, q.seen)
    BY <1>2, <2>2, <2>3, <2>4, LiveHandlerEvent DEF ListedFrom
  <2> HIDE DEF r
  <2>6. \A x \in Range(lives) : x \in Range(bus.lists[Here]["live"]) /\ x.kind = "live" /\ x.sel \in PathNodes
    <3>1. ListFits(bus, Here, "live", binds) /\ "live" \in EventTypes
      BY <1>2 DEF ListsFit, EventTypes
    <3> QED BY <2>2, <3>1 DEF ListFits, KindsFor, ListedFrom
  <2>7. EventFits(r)
    BY <1>5, <2>1, <2>3, <2>5, <2>6 DEF EventFits, Redone, Here
  <2>8. StillRuns(r)
    <3> SUFFICES ASSUME ~ran.nested PROVE OnesFit(r, bus, ran.spent, binds) /\ LivesFit(r, bus)
      BY DEF StillRuns
    <3>1. OnesFit(q, bus, ran.spent, binds) /\ LivesFit(TopEvent, bus)
      BY <1>0, <1>6, NotNested DEF OnlyOne, StillRuns
    <3>2. OnesFit(r, bus, ran.spent, binds)
      BY <3>1, <2>5 DEF OnesFit, Redone
    <3>3. BoundOnce(bus)
      BY <1>2 DEF ListsFit
    <3>4. \A x, y \in Range(lives) : x.id = y.id => x = y
      <4>1. "live" \in EventTypes
        BY DEF EventTypes
      <4> QED BY <1>2, <2>6, <3>3, <4>1 DEF BoundOnce
    <3>5. \A i, j \in DOMAIN lives : lives[i].id = lives[j].id => i = j
      <4>1. IsInjective(lives) /\ \A i \in DOMAIN lives : lives[i] \in Range(lives)
        BY <2>2 DEF ListedFrom, Range
      <4> QED BY <3>4, <4>1 DEF IsInjective
    <3>6. \A x \in Range(lives) : x.id \in LiveIds(bus, TopEvent.at)
      BY <2>6 DEF LiveIds, Here
    <3>7. LiveIds(bus, TopEvent.at) \cap TopEvent.seen = {}
      BY <1>8, <3>1 DEF LivesFit, Here
    <3>8. ASSUME NEW level \in DOMAIN Path, level > TopEvent.at, NEW x \in Range(lives)
          PROVE  x.id \notin LiveIds(bus, level)
      <4> SUFFICES ASSUME NEW y \in Range(bus.lists[Path[level]]["live"]), y.id = x.id PROVE FALSE
        BY DEF LiveIds
      <4>1. Path[level] \in PathNodes /\ Path[level] # Here
        BY <1>2, <3>8, OnThePath DEF Here
      <4>2. "live" \in EventTypes /\ y.kind = "live"
        BY <1>2, <4>1 DEF EventTypes, ListsFit, ListFits, KindsFor
      <4> QED BY <1>2, <2>6, <3>3, <4>1, <4>2 DEF BoundOnce
    <3>9. \A level \in DOMAIN Path : level > TopEvent.at => LiveIds(bus, level) \cap TopEvent.seen = {}
      BY <3>1 DEF LivesFit
    <3>10. LivesFit(r, bus)
      BY <2>3, <2>5, <3>5, <3>6, <3>7, <3>8, <3>9 DEF LivesFit, Redone, Here
    <3> QED BY <3>2, <3>10
  <2> QED BY <1>0, <1>8, <2>7, <2>8, GoesOnKeeps
<1> QED BY <1>3, <1>7, <1>8

\* A live handler is called, or the ones that are left are further out than
\* the one that returned false.
LEMMA CallLiveKeeps ==
  ASSUME EventsInv, CallLive
  PROVE  EventsInv'
<1> DEFINE entry == Head(TopEvent.lives)
           level == Level(entry.sel)
           no    == "false" \in Does[entry.guid]
           stop  == TopEvent.stop \/ no
           last  == IF no \/ TopEvent.stopped THEN level ELSE TopEvent.maxLevel
           lives == Tail(TopEvent.lives)
           seen  == TopEvent.seen \cup {entry.id}
           none  == [TopEvent EXCEPT !.lives = <<>>]
           e     == [TopEvent EXCEPT !.lives = lives, !.seen = seen, !.stop = stop, !.maxLevel = last]
           q     == Returned(none)
           r     == Returned(e)
<1>0. dispatching # <<>> /\ TopEvent.lives # <<>>
  BY DEF CallLive
<1>1. TopIs
  BY <1>0, TopFits
<1>2. TopEvent \in BusEvents /\ EventFits(TopEvent) /\ Here \in PathNodes
      /\ ListsFit(bus, binds) /\ binds \in Nat /\ BusFits(bus, cut, binds)
  BY <1>1 DEF TopIs
<1>3. \/ GoesOn(q)
      \/ /\ Runs(entry.guid, entry.sel, bus, r)
         /\ ran' = [ran EXCEPT !.again = @ \cup ({entry.id} \cap TopEvent.seen),
                               !.nested = @ \/ Len(dispatching') > Len(dispatching)]
  BY DEF CallLive
<1>4. TopEvent.lives \in Seq(EventEntries) /\ TopEvent.seen \in SUBSET Nat
      /\ TopEvent.stop \in BOOLEAN /\ TopEvent.maxLevel \in Nat
  BY <1>2 DEF BusEvents
<1>5. /\ entry \in EventEntries /\ entry \in Range(TopEvent.lives) /\ lives \in Seq(EventEntries)
      /\ Len(TopEvent.lives) \in Nat \ {0} /\ Len(lives) = Len(TopEvent.lives) - 1
      /\ Range(lives) \subseteq Range(TopEvent.lives)
      /\ \A i \in 1..Len(TopEvent.lives) - 1 :
            i + 1 \in 1..Len(TopEvent.lives) /\ lives[i] = TopEvent.lives[i + 1]
  BY <1>0, <1>4, HeadAndTail
<1>6. entry.sel \in PathNodes /\ entry.id \in Nat /\ level \in Nat /\ TopEvent.type = "click"
      /\ TopEvent.liveFired = Here
  <2>1. entry.sel \in PathNodes
    BY <1>2, <1>5 DEF EventFits
  <2> QED BY <1>0, <1>2, <1>5, <2>1, OnThePath DEF EventFits, EventEntries, Here
<1>7. CASE GoesOn(q)
  <2>1. Redone(TopEvent, none, "click", TopEvent.rest, <<>>, Here, TopEvent.seen)
    BY <1>2, <1>6, LivesLeftEvent
  <2> HIDE DEF none
  <2>2. Redone(none, q, none.type, none.rest, none.lives, none.liveFired, none.seen)
    BY <2>1, ReturnedEvent DEF Redone
  <2>3. Redone(TopEvent, q, "click", TopEvent.rest, <<>>, Here, TopEvent.seen)
    BY <2>1, <2>2 DEF Redone
  <2> HIDE DEF q
  <2>4. Range(<<>>) = {} /\ DOMAIN <<>> = {}
    BY DEF Range
  <2>5. EventFits(q)
    BY <1>2, <1>6, <2>3, <2>4 DEF EventFits, Redone
  <2>6. StillRuns(q)
    <3> SUFFICES ASSUME ~ran.nested PROVE OnesFit(q, bus, ran.spent, binds) /\ LivesFit(q, bus)
      BY DEF StillRuns
    <3>1. OnesFit(TopEvent, bus, ran.spent, binds) /\ LivesFit(TopEvent, bus)
      BY <1>0, NotNested DEF OnlyOne
    <3>2. OnesFit(q, bus, ran.spent, binds)
      BY <1>6, <2>3, <3>1 DEF OnesFit, Redone
    <3>3. LivesFit(q, bus)
      BY <1>6, <2>3, <2>4, <3>1 DEF LivesFit, Redone, Here
    <3> QED BY <3>2, <3>3
  <2> QED BY <1>0, <1>7, <2>5, <2>6, GoesOnKeeps
<1>8. CASE /\ Runs(entry.guid, entry.sel, bus, r)
           /\ ran' = [ran EXCEPT !.again = @ \cup ({entry.id} \cap TopEvent.seen),
                                 !.nested = @ \/ Len(dispatching') > Len(dispatching)]
  <2>1. seen \in SUBSET Nat /\ stop \in BOOLEAN /\ last \in Nat
    BY <1>4, <1>6
  <2> HIDE DEF stop, last
  <2>2. Redone(TopEvent, e, "click", TopEvent.rest, lives, Here, seen)
    <3> HIDE DEF lives, seen
    <3> QED BY <1>2, <1>5, <1>6, <2>1, LiveCalledEvent
  <2> HIDE DEF e
  <2>3. Redone(e, r, e.type, e.rest, e.lives, e.liveFired, e.seen)
    BY <2>2, ReturnedEvent DEF Redone
  <2>4. Redone(TopEvent, r, "click", TopEvent.rest, lives, Here, seen)
    <3> HIDE DEF lives, seen
    <3> QED BY <2>2, <2>3 DEF Redone
  <2> HIDE DEF r
  <2>5. EventFits(r)
    <3> HIDE DEF lives, seen
    <3> QED BY <1>2, <1>5, <1>6, <2>4 DEF EventFits, Redone, Here
  <2>6. RanOn(bus, r)
    <3>1. r.type = "click"
      BY <2>4 DEF Redone
    <3> HIDE DEF entry
    <3> QED BY <1>0, <1>2, <1>6, <1>8, <2>5, <3>1, RunsKeep
  <2>7. RanFits(bus, r, ran.spent)
    <3> SUFFICES ASSUME ~ran.nested
                 PROVE  /\ ran'.again = {} /\ ran.spent \subseteq 1..binds /\ NoOneSpent(bus, ran.spent)
                        /\ OnesFit(r, bus, ran.spent, binds) /\ LivesFit(r, bus)
      BY DEF RanFits
    <3>1. /\ ran.again = {} /\ NoOneSpent(bus, ran.spent) /\ ran.spent \subseteq 1..binds
          /\ OnesFit(TopEvent, bus, ran.spent, binds) /\ LivesFit(TopEvent, bus)
      BY <1>0, NotNested DEF OnlyOne
    <3>2. entry.id \notin TopEvent.seen
      BY <1>5, <3>1 DEF LivesFit
    <3>3. ran'.again = {}
      BY <1>8, <3>1, <3>2 DEF EventsInv
    <3>4. OnesFit(r, bus, ran.spent, binds)
      BY <1>6, <2>4, <3>1 DEF OnesFit, Redone
    <3>5. LivesFit(r, bus)
      <4>1. DOMAIN TopEvent.lives = 1..Len(TopEvent.lives) /\ DOMAIN lives = 1..Len(TopEvent.lives) - 1
        BY <1>4, <1>5
      <4>2. \A i, j \in DOMAIN TopEvent.lives : TopEvent.lives[i].id = TopEvent.lives[j].id => i = j
        BY <3>1 DEF LivesFit
      <4>3. \A i, j \in DOMAIN lives : lives[i].id = lives[j].id => i = j
        <5> SUFFICES ASSUME NEW i \in DOMAIN lives, NEW j \in DOMAIN lives, lives[i].id = lives[j].id
                     PROVE  i = j
          OBVIOUS
        <5> DEFINE a == i + 1
                   c == j + 1
        <5>0. i \in Nat /\ j \in Nat
          BY <1>5, <4>1
        <5>1. /\ a \in DOMAIN TopEvent.lives /\ c \in DOMAIN TopEvent.lives
              /\ lives[i] = TopEvent.lives[a] /\ lives[j] = TopEvent.lives[c]
          BY <1>5, <4>1
        <5> HIDE DEF a, c
        <5>2. a = c
          BY <4>2, <5>1
        <5> QED BY <5>0, <5>2 DEF a, c
      <4>4. \A x \in Range(lives) : x.id # entry.id
        <5> SUFFICES ASSUME NEW i \in DOMAIN lives PROVE lives[i].id # entry.id
          BY DEF Range
        <5>1. i + 1 # 1 /\ 1 \in DOMAIN TopEvent.lives /\ i + 1 \in DOMAIN TopEvent.lives
              /\ lives[i] = TopEvent.lives[i + 1]
          BY <1>5, <4>1
        <5>2. entry = TopEvent.lives[1]
          BY <1>4, <1>0
        <5> QED BY <4>2, <5>1, <5>2
      <4>5. \A x \in Range(lives) : x.id \notin seen
        BY <1>5, <3>1, <4>4 DEF LivesFit
      <4>6. \A k \in DOMAIN Path : k > TopEvent.at =>
               /\ LiveIds(bus, k) \cap seen = {}
               /\ \A x \in Range(lives) : x.id \notin LiveIds(bus, k)
        BY <1>5, <3>1 DEF LivesFit
      <4> HIDE DEF lives, seen
      <4> QED BY <2>4, <4>3, <4>5, <4>6 DEF LivesFit, Redone, Here
    <3> QED BY <3>1, <3>3, <3>4, <3>5
  <2> DEFINE twice == ran.again \cup ({entry.id} \cap TopEvent.seen)
  <2>8. ran' = [spent |-> ran.spent, again |-> twice,
                nested |-> ran.nested \/ Len(dispatching') > Len(dispatching)]
    <3> DEFINE more == Len(dispatching') > Len(dispatching)
    <3>1. ran = [spent |-> ran.spent, again |-> ran.again, nested |-> ran.nested]
      BY DEF EventsInv
    <3>2. ran' = [ran EXCEPT !.again = twice, !.nested = ran.nested \/ more]
      BY <1>8
    <3> HIDE DEF twice, more
    <3>3. ran' = [spent |-> ran.spent, again |-> twice, nested |-> ran.nested \/ more]
      BY <3>1, <3>2
    <3> QED BY <3>3 DEF more
  <2> HIDE DEF twice
  <2> QED BY <1>0, <2>5, <2>6, <2>7, <2>8, RanKeeps
<1> QED BY <1>3, <1>7, <1>8

\* An event gets to the next element, or is over.
LEMMA BubbleKeeps ==
  ASSUME EventsInv, Bubble
  PROVE  EventsInv'
<1>0. dispatching # <<>> /\ TopEvent.rest = <<>> /\ TopEvent.lives = <<>>
  BY DEF Bubble
<1>1. TopIs
  BY <1>0, TopFits
<1>2. TopEvent \in BusEvents /\ EventFits(TopEvent) /\ TopEvent.at \in DOMAIN Path
      /\ ListsFit(bus, binds) /\ binds \in Nat
  BY <1>1 DEF TopIs
<1>3. CASE TopEvent.at < Len(Path) /\ GoesOn(Reaches(TopEvent, bus, TopEvent.at + 1))
  <2> DEFINE level == TopEvent.at + 1
             r == Reaches(TopEvent, bus, level)
  <2>1. level \in DOMAIN Path /\ level > TopEvent.at
    BY <1>2, <1>3, OnThePath
  <2>2. TopEvent \in RawEvents
    <3>1. TopEvent.at \in Nat
      BY <1>2, OnThePath
    <3> QED BY <1>2, <3>1 DEF BusEvents, RawEvents
  <2>3. MayArrive(TopEvent)
    BY <1>0, <1>2, <2>2 DEF MayArrive, EventFits
  <2> HIDE DEF level
  <2>4. Arrives(r, bus, level, TopEvent.seen)
    BY <1>2, <2>1, <2>3, ReachesFits
  <2> HIDE DEF r
  <2>5. StillRuns(r)
    <3> SUFFICES ASSUME ~ran.nested PROVE OnesFit(r, bus, ran.spent, binds) /\ LivesFit(r, bus)
      BY DEF StillRuns
    <3>1. NoOneSpent(bus, ran.spent) /\ LivesFit(TopEvent, bus)
      BY <1>0, NotNested DEF OnlyOne
    <3>2. OnesFit(r, bus, ran.spent, binds)
      BY <1>2, <2>1, <2>4, <3>1, ListedOnes
    <3>3. r.at = level /\ r.lives = <<>> /\ r.seen = TopEvent.seen
      BY <2>4 DEF Arrives
    <3>4. Range(<<>>) = {} /\ DOMAIN <<>> = {}
      BY DEF Range
    <3>5. \A k \in DOMAIN Path : k >= level => LiveIds(bus, k) \cap TopEvent.seen = {}
      <4>1. \A k \in DOMAIN Path : k >= level => k > TopEvent.at
        BY <1>2, <2>1, OnThePath
      <4> QED BY <3>1, <4>1 DEF LivesFit
    <3>6. level >= level /\ \A k \in DOMAIN Path : k > level => k >= level
      BY <2>1, OnThePath
    <3>7. LivesFit(r, bus)
      BY <2>1, <3>3, <3>4, <3>5, <3>6 DEF LivesFit
    <3> QED BY <3>2, <3>7
  <2>6. EventFits(r) /\ GoesOn(r)
    BY <1>3, <2>4 DEF Arrives, r, level
  <2> QED BY <1>0, <2>5, <2>6, GoesOnKeeps
<1>4. CASE dispatching' = Tail(dispatching) /\ UNCHANGED <<bus, binds, fired, cut, ran>>
  <2>1. StackFits(dispatching')
    BY <1>1, <1>4 DEF TopIs
  <2>2. ASSUME ~ran.nested PROVE RunsFit(bus, <<>>, ran, binds) /\ dispatching' = <<>>
    <3>1. OnlyOne
      BY <1>0, <2>2, NotNested
    <3>2. Len(<<>>) = 0
      OBVIOUS
    <3> QED BY <1>4, <3>1, <3>2 DEF OnlyOne, RunsFit, NoOneSpent
  <2> QED BY <1>4, <2>1, <2>2 DEF EventsInv, StackFits
<1> QED BY <1>3, <1>4 DEF Bubble

-----------------------------------------------------------------------------
(* The invariant of the events.                                            *)

LEMMA EventsInvInit ==
  ASSUME EventsInit
  PROVE  EventsInv
<1>1. /\ bus = [lists |-> [n \in PathNodes |-> [t \in EventTypes |-> <<>>]],
                native |-> [n \in PathNodes |-> {}]]
      /\ dispatching = <<>> /\ binds = 0 /\ cut = {}
      /\ ran = [spent |-> {}, again |-> {}, nested |-> FALSE]
  BY DEF EventsInit
<1>2. <<>> \in Seq(EventEntries) /\ Range(<<>>) = {} /\ IsInjective(<<>>) /\ DOMAIN <<>> = {}
      /\ <<>> \in Seq(BusEvents) /\ Len(<<>>) = 0
  BY DEF Range, IsInjective
<1> DEFINE none == <<>>
<1> HIDE DEF none
<1>3. /\ bus.lists = [n \in PathNodes |-> [t \in EventTypes |-> none]]
      /\ bus.native = [n \in PathNodes |-> {}]
      /\ bus = [lists |-> bus.lists, native |-> bus.native]
      /\ none \in Seq(EventEntries) /\ Range(none) = {} /\ IsInjective(none)
  BY <1>1, <1>2 DEF none
<1>4. bus \in Buses
  <2>1. bus.lists \in [PathNodes -> [EventTypes -> Seq(EventEntries)]]
    BY <1>3
  <2>2. bus.native \in [PathNodes -> SUBSET EventTypes]
    BY <1>3
  <2> QED BY <1>3, <2>1, <2>2 DEF Buses
<1>5. \A n \in PathNodes, t \in EventTypes : bus.lists[n][t] = none /\ bus.native[n] = {}
  BY <1>3
<1>6. ListsFit(bus, binds)
  <2>1. \A n \in PathNodes, t \in EventTypes : ListFits(bus, n, t, binds)
    BY <1>3, <1>5 DEF ListFits
  <2>2. BoundOnce(bus)
    BY <1>3, <1>5 DEF BoundOnce
  <2> QED BY <1>1, <1>4, <2>1, <2>2 DEF ListsFit
<1>7. \A n \in PathNodes : EntersWithin(bus, n) /\ HasLive(bus, n) /\ HasCaller(bus, n)
  <2>1. EventTypes = {"click", "mouseenter", "mouseover", "live"}
    BY DEF EventTypes
  <2> SUFFICES ASSUME NEW n \in PathNodes PROVE EntersWithin(bus, n) /\ HasLive(bus, n) /\ HasCaller(bus, n)
    OBVIOUS
  <2>2. \A t \in EventTypes : bus.lists[n][t] = none
    BY <1>5
  <2>3. EntersWithin(bus, n)
    BY <2>1, <2>2 DEF EntersWithin, none
  <2>4. HasLive(bus, n) /\ HasCaller(bus, n)
    BY <1>3, <2>1, <2>2 DEF HasLive, HasCaller
  <2> QED BY <2>3, <2>4
<1>8. \A n \in PathNodes, t \in EventTypes \ {"mouseenter"} : Tuned(bus, n, t)
  BY <1>5 DEF Tuned, none
<1>9. BusFits(bus, cut, binds)
  BY <1>1, <1>6, <1>7, <1>8, BusIs
<1>10. RunsFit(bus, dispatching, ran, binds)
  <2>1. \A n \in PathNodes, t \in EventTypes : \A x \in Range(bus.lists[n][t]) : x.kind = "one" => x.id \notin ran.spent
    BY <1>3, <1>5
  <2> QED BY <1>1, <1>2, <2>1 DEF RunsFit
<1> QED BY <1>1, <1>2, <1>9, <1>10 DEF EventsInv

LEMMA FireKeeps ==
  ASSUME EventsInv, NEW t \in {"click", "mouseover"}, NEW n \in PathNodes,
         NEW related \in PathNodes \cup {"none"}, Fire(t, n, related)
  PROVE  EventsInv'
<1>1. ListsFit(bus, binds) /\ {} \in SUBSET Names /\ Level(n) \in DOMAIN Path
  BY BusIs, OnThePath DEF EventsInv
<1>2. Arrives(EventAt(bus, t, n, {}, related, TRUE), bus, Level(n), {})
  BY <1>1, EventAtFits
<1> QED BY <1>1, <1>2, BeginKeeps DEF Fire

LEMMA TriggerKeeps ==
  ASSUME EventsInv, NEW n \in PathNodes, NEW name \in SUBSET Names, Trigger("click", n, name)
  PROVE  EventsInv'
<1>1. ListsFit(bus, binds) /\ Level(n) \in DOMAIN Path
  BY BusIs, OnThePath DEF EventsInv
<1>2. Arrives(EventAt(bus, "click", n, name, "none", FALSE), bus, Level(n), {})
  BY <1>1, EventAtFits
<1> QED BY <1>1, <1>2, BeginKeeps DEF Trigger

LEMMA EventsInvStep ==
  ASSUME EventsInv, [EventsNext]_eventVars
  PROVE  EventsInv'
<1>1. ASSUME NEW n \in PathNodes, NEW g \in Guids, NEW name \in SUBSET Names,
             NEW t \in {"click", "mouseenter"}, NEW kind \in {"page", "one"},
             BindHandler(n, t, g, name, kind)
      PROVE  EventsInv'
  BY <1>1, HandlerKeeps
<1>2. ASSUME NEW n \in PathNodes, NEW g \in Guids, NEW name \in SUBSET Names, NEW sel \in PathNodes,
             Live(n, sel, g, name)
      PROVE  EventsInv'
  BY <1>2, LiveKeeps
<1>3. ASSUME NEW n \in PathNodes, NEW t \in EventTypes \ {"mouseover"}, NEW name \in SUBSET Names,
             NEW g \in Guids \cup {"any"}, NEW sel \in PathNodes \cup {"none"},
             UnbindHandler(n, t, g, name, sel)
      PROVE  EventsInv'
  BY <1>3, UnbindKeeps
<1>4. ASSUME NEW n \in PathNodes, NEW name \in SUBSET Names, Trigger("click", n, name)
      PROVE  EventsInv'
  BY <1>4, TriggerKeeps
<1>5. ASSUME NEW n \in PathNodes, NEW related \in PathNodes \cup {"none"}, Fire("mouseover", n, related)
      PROVE  EventsInv'
  BY <1>5, FireKeeps
<1>6. ASSUME NEW n \in PathNodes, Fire("click", n, "none")
      PROVE  EventsInv'
  BY <1>6, FireKeeps
<1>7. CASE CallHandler \/ CallOne \/ CallWithin \/ CallLiveHandler \/ CallLive \/ Bubble
  BY <1>7, CallHandlerKeeps, CallOneKeeps, CallWithinKeeps, CallLiveHandlerKeeps, CallLiveKeeps, BubbleKeeps
<1>8. CASE UNCHANGED eventVars
  BY <1>8 DEF eventVars, EventsInv, BusFits, Buses, ListFits, Tuned, EntersWithin, HasLive, HasCaller,
              BoundOnce, RunsFit, OnesFit, LivesFit, LiveIds, EventFits
<1> QED BY <1>1, <1>2, <1>3, <1>4, <1>5, <1>6, <1>7, <1>8 DEF EventsNext

\* Listeners, and who calls the live handlers.
LEMMA EventsInvListens ==
  ASSUME EventsInv
  PROVE  ListenersMatch
<1>1. binds \in Nat /\ BusFits(bus, cut, binds)
  BY DEF EventsInv
<1>2. SUFFICES ASSUME NEW n \in PathNodes
      PROVE  /\ \A t \in EventTypes \ {"mouseenter"} : t \in bus.native[n] <=> bus.lists[n][t] # <<>>
             /\ bus.lists[n]["mouseover"] = IF bus.lists[n]["mouseenter"] = <<>> THEN <<>> ELSE <<Within>>
             /\ n \notin cut =>
                   {e.id : e \in {l \in Range(bus.lists[n].click) : l.kind = "liveHandler"}}
                   = {l.id : l \in Range(bus.lists[n].live)}
  BY DEF ListenersMatch
<1>3. /\ \A t \in EventTypes \ {"mouseenter"} : t \in bus.native[n] <=> bus.lists[n][t] # <<>>
      /\ bus.lists[n]["mouseover"] = IF bus.lists[n]["mouseenter"] = <<>> THEN <<>> ELSE <<Within>>
  BY <1>1 DEF BusFits, Tuned, EntersWithin
<1>4. HasLive(bus, n) /\ (n \notin cut => HasCaller(bus, n))
  BY <1>1 DEF BusFits
<1>5. /\ Range(bus.lists[n]["click"]) \subseteq EventEntries
      /\ Range(bus.lists[n]["live"]) \subseteq EventEntries
  <2>1. bus.lists[n]["click"] \in Seq(EventEntries) /\ bus.lists[n]["live"] \in Seq(EventEntries)
    BY <1>1 DEF BusFits, Buses, EventTypes
  <2> QED BY <2>1 DEF Range
<1>6. \A x \in EventEntries, kind \in {"live", "liveHandler"} :
         As(x, kind).kind = kind /\ As(x, kind).id = x.id
  BY AsIs
<1>7. ASSUME n \notin cut
      PROVE  {e.id : e \in {l \in Range(bus.lists[n].click) : l.kind = "liveHandler"}}
             = {l.id : l \in Range(bus.lists[n].live)}
  <2>1. ASSUME NEW x \in Range(bus.lists[n]["click"]), x.kind = "liveHandler"
        PROVE  \E l \in Range(bus.lists[n]["live"]) : l.id = x.id
    <3>1. As(x, "live") \in Range(bus.lists[n]["live"])
      BY <1>4, <2>1 DEF HasLive
    <3> QED BY <1>5, <1>6, <3>1
  <2>2. ASSUME NEW x \in Range(bus.lists[n]["live"])
        PROVE  \E e \in Range(bus.lists[n]["click"]) : e.kind = "liveHandler" /\ e.id = x.id
    <3>1. As(x, "liveHandler") \in Range(bus.lists[n]["click"])
      BY <1>4, <1>7, <2>2 DEF HasCaller
    <3> QED BY <1>5, <1>6, <3>1
  <2> QED BY <2>1, <2>2
<1> QED BY <1>3, <1>7

LEMMA EventsInvRunsOnce ==
  ASSUME EventsInv
  PROVE  RunsOnce
BY DEF EventsInv, RunsFit, RunsOnce

-----------------------------------------------------------------------------
(* Animations (Effects).                                                   *)

CallbackNames == Callbacks \cup {"none"}
FxItems == [kind : FxKinds \cup {"delay", "move"}, id : Ids, cb : CallbackNames]
FxTimers == [elem : FxElements, id : Ids, prop : 1..Props, hide : BOOLEAN, cb : CallbackNames]
FxDelays == [elem : FxElements, id : Ids]
TickFrames == [op : {"tick"}, at : Nat, ended : FxTimers \cup {NoTimer}]
StopFrames == [op : {"stop"}, elem : FxElements, at : Nat, toEnd : BOOLEAN,
               ended : FxTimers \cup {NoTimer}]
CallFrames == [op : {"callback"}, elem : FxElements, cb : CallbackNames]
FxFrames == TickFrames \cup StopFrames \cup CallFrames
FxStates == [queue   : [FxElements -> Seq(FxItems \cup {Sentinel})],
             shown   : [FxElements -> BOOLEAN], timers : Seq(FxTimers), ticking : BOOLEAN,
             waiting : SUBSET FxDelays, left : [Ids -> SUBSET (1..Props)],
             frames  : Seq(FxFrames)]

\* What waits in the queue of an element, behind the sentinel.
ItemsOf(s, e) == Unsentinelled(s.queue[e])
HasSentinel(s, e) == s.queue[e] # <<>> /\ Head(s.queue[e]) = Sentinel
Guarded(s, e) == s.queue[e] = <<>> \/ Head(s.queue[e]) = Sentinel

\* Each animation is of one element, and it waits, runs or is delayed once.
OneEach(q) == \A i, j \in DOMAIN q : q[i].id = q[j].id => i = j
ItemsFit(s) ==
    /\ \A e \in FxElements : ItemsOf(s, e) \in Seq(FxItems) /\ OneEach(ItemsOf(s, e))
    /\ \A e, f \in FxElements : \A x \in Range(ItemsOf(s, e)), y \in Range(ItemsOf(s, f)) :
          x.id = y.id => e = f
NumbersFit(s, ended, last) ==
    /\ \A e \in FxElements : \A x \in Range(ItemsOf(s, e)) :
          /\ x.id <= last
          /\ \A t \in Range(s.timers) \cup s.waiting \cup ended : t.id # x.id
    /\ \A t \in Range(s.timers) \cup s.waiting \cup ended : t.id <= last
    /\ \A t \in Range(s.timers), w \in s.waiting : t.id # w.id
TimersFit(fxs) ==
    /\ IsInjective(fxs)
    /\ \A t, u \in Range(fxs) : t.id = u.id => t.elem = u.elem /\ (t.prop = u.prop => t = u)
IdsFit(s, ended, last) ==
    /\ s \in FxStates /\ ended \subseteq FxTimers
    /\ ItemsFit(s) /\ NumbersFit(s, ended, last) /\ TimersFit(s.timers)

\* The fx objects of an element that have not ended have something left to do.
TimersLive(s, ended, e) ==
    \A t \in Range(s.timers) : t.elem = e => (t.prop \in s.left[t.id] <=> t \notin ended)
\* What is left to do, an fx object will do.
TimersWhole(s, e) ==
    \A t \in Range(s.timers) : t.elem = e =>
        \A p \in s.left[t.id] : \E u \in Range(s.timers) : u.elem = e /\ u.id = t.id /\ u.prop = p

\* The animations and delays that run, one or none of them as the sentinel says.
RunsNow(s, e) == {t.id : t \in {u \in Range(s.timers) : u.elem = e /\ s.left[u.id] # {}}}
                 \cup {w.id : w \in {d \in s.waiting : d.elem = e}}
TellsTruth(s, e) == IF HasSentinel(s, e) THEN \E id \in Ids : RunsNow(s, e) = {id} ELSE RunsNow(s, e) = {}

\* All the fx objects of an element are still ahead of stop's loop.
Ahead(s, e, at) ==
    /\ \A i \in DOMAIN s.timers : s.timers[i].elem = e => i <= at
    /\ \A w \in s.waiting : w.elem # e
Cleared(s, e, at) ==
    s.queue[e] = <<>> /\ Ahead(s, e, at) /\ \E id \in Ids : RunsNow(s, e) = {id}

EndedIn(frames) == {frames[i].ended : i \in {j \in DOMAIN frames : frames[j].op # "callback"}} \ {NoTimer}

Stops(s, toEnd) == s.frames # <<>> /\ Head(s.frames).op = "stop" /\ Head(s.frames).toEnd = toEnd

\* An element that no stop is about, and one that is being stopped.
InStep(s, ended, e) == TimersLive(s, ended, e) /\ TimersWhole(s, e) /\ TellsTruth(s, e)
FxFits(s, ended, e) ==
    IF Stops(s, FALSE) /\ Head(s.frames).elem = e
    THEN TimersLive(s, ended, e) /\ Ahead(s, e, Head(s.frames).at)
    ELSE \/ InStep(s, ended, e)
         \/ /\ Stops(s, TRUE) /\ Head(s.frames).elem = e /\ Len(s.frames) = 1
            /\ TimersLive(s, ended, e) /\ TimersWhole(s, e) /\ Cleared(s, e, Head(s.frames).at)

\* The loops and callbacks under way: callbacks, on a loop in which an fx
\* object has ended or on none, and a stop that the innermost one called.
StackOk(frames) ==
    /\ \A i \in DOMAIN frames :
          /\ frames[i].op = "stop" /\ ~frames[i].toEnd => i = 1 /\ frames[i].ended = NoTimer
          /\ frames[i].op = "stop" /\ frames[i].ended # NoTimer => frames[i].at > 0
          /\ frames[i].op # "callback" => i = 1 \/ (i = Len(frames) /\ frames[i].ended # NoTimer)
    /\ Len(frames) > 1 /\ frames[1].op # "callback" => frames[1].op = "stop" /\ ~frames[1].toEnd

FxFitsAll(s, last, moved) ==
    /\ IdsFit(s, EndedIn(s.frames), last) /\ StackOk(s.frames)
    /\ \A e \in FxElements : Guarded(s, e)
    /\ \A e \in FxElements \ moved : FxFits(s, EndedIn(s.frames), e)

FxInv == calls \in 0..MaxCalls /\ disturbed \subseteq FxElements /\ FxFitsAll(fx, calls, disturbed)

\* The loops that wait for the callbacks of what was over at once.
LEMMA CallbacksAre ==
  ASSUME NEW e \in FxElements, NEW items \in Seq(FxItems)
  PROVE  CallbackFrames(e, items) \in Seq(CallFrames)
<1> DEFINE calling(cb) == IF cb = "none" THEN <<>>
                         ELSE <<[op |-> "callback", elem |-> e, cb |-> cb]>>
           n == Len(items)
           parts == [i \in 1..n |-> calling(items[i].cb)]
           back == Reverse(parts)
<1>1. n \in Nat /\ \A i \in 1..n : items[i].cb \in CallbackNames
  <2>1. n \in Nat /\ \A i \in 1..n : items[i] \in FxItems
    OBVIOUS
  <2> QED BY <2>1 DEF FxItems
<1>2. \A cb \in CallbackNames : calling(cb) \in Seq(CallFrames)
  <2> SUFFICES ASSUME NEW cb \in CallbackNames PROVE calling(cb) \in Seq(CallFrames)
    OBVIOUS
  <2> DEFINE f == [op |-> "callback", elem |-> e, cb |-> cb]
  <2>1. f \in CallFrames
    BY DEF CallFrames
  <2> HIDE DEF f
  <2>2. <<f>> \in Seq(CallFrames) /\ <<>> \in Seq(CallFrames)
    BY <2>1
  <2> QED BY <2>2 DEF f
<1>3. CallbackFrames(e, items) = FlattenSeq(back)
  BY DEF CallbackFrames
<1> HIDE DEF calling
<1>4. parts \in Seq(Seq(CallFrames)) /\ Len(parts) = n
  BY <1>1, <1>2
<1> HIDE DEF parts
<1>5. back \in Seq(Seq(CallFrames))
  BY <1>1, <1>4 DEF Reverse
<1> HIDE DEF back
<1>6. Flat(CallFrames, back, FlattenSeq(back))
  BY <1>5, FlatAre
<1> QED BY <1>3, <1>6 DEF Flat

\* The state of the animations with some of its parts replaced.
StateOf(s, r, queue, showing, fxs, ticking, waiting, left, frames) ==
    /\ r \in FxStates
    /\ r.queue = queue /\ r.shown = showing /\ r.timers = fxs /\ r.ticking = ticking
    /\ r.waiting = waiting /\ r.left = left /\ r.frames = frames

LEMMA EmptiedState ==
  ASSUME NEW s \in FxStates, NEW e \in FxElements, NEW back \in Seq(FxFrames)
  PROVE  StateOf(s, [s EXCEPT !.queue[e] = <<>>, !.frames = back],
                 [s.queue EXCEPT ![e] = <<>>], s.shown, s.timers, s.ticking, s.waiting, s.left, back)
<1> DEFINE none == <<>>
<1>1. none \in Seq(FxItems \cup {Sentinel})
  OBVIOUS
<1> HIDE DEF none
<1>2. StateOf(s, [s EXCEPT !.queue[e] = none, !.frames = back],
              [s.queue EXCEPT ![e] = none], s.shown, s.timers, s.ticking, s.waiting, s.left, back)
  BY <1>1 DEF FxStates, StateOf
<1> QED BY <1>2 DEF none

LEMMA DelayedState ==
  ASSUME NEW s \in FxStates, NEW queue \in [FxElements -> Seq(FxItems \cup {Sentinel})],
         NEW back \in Seq(FxFrames), NEW d \in FxDelays
  PROVE  StateOf(s, [s EXCEPT !.queue = queue, !.frames = back, !.waiting = @ \cup {d}],
                 queue, s.shown, s.timers, s.ticking, s.waiting \cup {d}, s.left, back)
BY DEF FxStates, StateOf

LEMMA StartedState ==
  ASSUME NEW s \in FxStates, NEW queue \in [FxElements -> Seq(FxItems \cup {Sentinel})],
         NEW back \in Seq(FxFrames), NEW news \in Seq(FxTimers), NEW id \in Ids, NEW e \in FxElements,
         NEW seen \in BOOLEAN
  PROVE  StateOf(s, [s EXCEPT !.queue = queue, !.frames = back, !.timers = @ \o news,
                              !.left[id] = 1..Props, !.shown[e] = @ \/ seen, !.ticking = TRUE],
                 queue, [s.shown EXCEPT ![e] = @ \/ seen], s.timers \o news, TRUE, s.waiting,
                 [s.left EXCEPT ![id] = 1..Props], back)
<1> DEFINE fxs == s.timers \o news
           left == [s.left EXCEPT ![id] = 1..Props]
           shown1 == [s.shown EXCEPT ![e] = @ \/ seen]
           r == [s EXCEPT !.queue = queue, !.frames = back, !.timers = @ \o news,
                          !.left[id] = 1..Props, !.shown[e] = @ \/ seen, !.ticking = TRUE]
<1>1. fxs \in Seq(FxTimers)
  <2>1. s.timers \in Seq(FxTimers)
    BY DEF FxStates
  <2> QED BY <2>1
<1>2. left \in [Ids -> SUBSET (1..Props)]
  BY DEF FxStates
<1>3. shown1 \in [FxElements -> BOOLEAN]
  <2>1. s.shown \in [FxElements -> BOOLEAN]
    BY DEF FxStates
  <2>2. s.shown[e] \in BOOLEAN
    BY <2>1
  <2>3. (s.shown[e] \/ seen) \in BOOLEAN
    BY <2>2
  <2> QED BY <2>1, <2>3
<1>4. r = [s EXCEPT !.queue = queue, !.frames = back, !.timers = fxs,
                    !.left = left, !.shown = shown1, !.ticking = TRUE]
  BY DEF FxStates
<1> HIDE DEF fxs, left, shown1, r
<1>5. StateOf(s, r, queue, shown1, fxs, TRUE, s.waiting, left, back)
  BY <1>1, <1>2, <1>3, <1>4 DEF FxStates, StateOf
<1> QED BY <1>5 DEF fxs, left, shown1, r

\* The fx objects of an animation.
NewTimers(news, e, id) ==
    /\ news \in Seq(FxTimers) /\ IsInjective(news)
    /\ \A t \in Range(news) : t.elem = e /\ t.id = id
    /\ \A t, u \in Range(news) : t.prop = u.prop => t = u
    /\ \A p \in 1..Props : \E t \in Range(news) : t.prop = p

LEMMA TimersAre ==
  ASSUME NEW e \in FxElements, NEW item \in FxItems, NEW kind
  PROVE  NewTimers(TimersOf(e, item, kind), e, item.id)
<1> DEFINE hide == kind = "hide"
           one(p) == [elem |-> e, id |-> item.id, prop |-> p, hide |-> hide, cb |-> item.cb]
           news == [p \in 1..Props |-> one(p)]
<1>1. TimersOf(e, item, kind) = news
  BY DEF TimersOf
<1>2. item.id \in Ids /\ item.cb \in CallbackNames /\ hide \in BOOLEAN /\ Props \in Nat
  BY EffectsAssumption DEF FxItems
<1> HIDE DEF hide
<1>3. \A p \in 1..Props : one(p) \in FxTimers /\ one(p).elem = e /\ one(p).id = item.id /\ one(p).prop = p
  BY <1>2 DEF FxTimers
<1> HIDE DEF one
<1>4. news \in Seq(FxTimers) /\ DOMAIN news = 1..Props /\ \A p \in 1..Props : news[p] = one(p)
  BY <1>2, <1>3
<1> HIDE DEF news
<1>5. IsInjective(news)
  BY <1>3, <1>4 DEF IsInjective
<1>6. \A t \in Range(news) : \E p \in 1..Props : t = one(p)
  BY <1>4 DEF Range
<1>7. \A p \in 1..Props : one(p) \in Range(news)
  BY <1>4 DEF Range
<1>8. \A t, u \in Range(news) : t.prop = u.prop => t = u
  BY <1>3, <1>6
<1>9. \A p \in 1..Props : \E t \in Range(news) : t.prop = p
  BY <1>3, <1>7
<1> QED BY <1>1, <1>3, <1>4, <1>5, <1>6, <1>8, <1>9 DEF NewTimers

\* What is left behind one that is called.
Behind(q, k, n) ==
    /\ n \in Seq(FxItems) /\ Range(n) \subseteq Range(q) /\ q[k] \in Range(q) /\ q[k] \in FxItems
    /\ \A i, j \in DOMAIN n : n[i].id = n[j].id => i = j
    /\ \A x \in Range(n) : x.id # q[k].id

LEMMA BehindIs ==
  ASSUME NEW q \in Seq(FxItems), NEW k \in 1..Len(q),
         \A i, j \in DOMAIN q : q[i].id = q[j].id => i = j
  PROVE  Behind(q, k, SubSeq(q, k + 1, Len(q)))
<1> DEFINE n == SubSeq(q, k + 1, Len(q))
<1>1. /\ Len(q) \in Nat /\ DOMAIN q = 1..Len(q) /\ k \in Nat /\ q[k] \in FxItems
      /\ n \in Seq(FxItems) /\ DOMAIN n = 1..Len(q) - k
      /\ \A i \in 1..Len(q) - k : n[i] = q[k + i]
  OBVIOUS
<1> HIDE DEF n
<1>2. \A i \in 1..Len(q) - k : k + i \in 1..Len(q) /\ k + i # k
  BY <1>1
<1>3. Range(n) \subseteq Range(q) /\ q[k] \in Range(q)
  BY <1>1, <1>2 DEF Range
<1>4. ASSUME NEW i \in 1..Len(q) - k, NEW j \in 1..Len(q) - k, n[i].id = n[j].id PROVE i = j
  <2>1. q[k + i].id = q[k + j].id /\ k + i \in 1..Len(q) /\ k + j \in 1..Len(q)
    BY <1>1, <1>2, <1>4
  <2>2. k + i = k + j
    BY <1>1, <2>1
  <2> QED BY <1>1, <2>2
<1>5. \A x \in Range(n) : x.id # q[k].id
  BY <1>1, <1>2 DEF Range
<1> QED BY <1>1, <1>3, <1>4, <1>5 DEF n, Behind

\* A queue behind its sentinel.
BehindSentinel(n, q) ==
    /\ q \in Seq(FxItems \cup {Sentinel}) /\ q # <<>> /\ Head(q) = Sentinel
    /\ Unsentinelled(q) = n

LEMMA SentinelFirst ==
  ASSUME NEW n \in Seq(FxItems)
  PROVE  BehindSentinel(n, <<Sentinel>> \o n)
<1> DEFINE S == FxItems \cup {Sentinel}
<1>1. n \in Seq(S) /\ Sentinel \in S
  OBVIOUS
<1> HIDE DEF S
<1>2. <<Sentinel>> \o n \in Seq(S) /\ <<Sentinel>> \o n # <<>> /\ Head(<<Sentinel>> \o n) = Sentinel
      /\ Tail(<<Sentinel>> \o n) = n
  BY <1>1
<1> QED BY <1>2 DEF BehindSentinel, Unsentinelled, S

LEMMA NotSentinel ==
  ASSUME NEW x \in FxItems
  PROVE  x # Sentinel
BY EffectsAssumption DEF FxItems, Sentinel

\* What dequeue makes of a state: the queue is empty, or one of its functions
\* is called and the sentinel stands in front of those behind it.
EmptiedAt(s, e, r) ==
    r.queue[e] = <<>> /\ r.timers = s.timers /\ r.waiting = s.waiting /\ r.left = s.left
TakenAt(s, e, k, r) ==
    Behind(ItemsOf(s, e), k, ItemsOf(r, e)) /\ HasSentinel(r, e)
DelayedAt(s, e, id, r) ==
    r.waiting = s.waiting \cup {[elem |-> e, id |-> id]} /\ r.timers = s.timers /\ r.left = s.left
StartedAt(s, e, id, r) ==
    /\ r.waiting = s.waiting /\ r.left = [s.left EXCEPT ![id] = 1..Props]
    /\ \E news : NewTimers(news, e, id) /\ r.timers = s.timers \o news
Dequeues(s, e, r) ==
    /\ r \in FxStates
    /\ \A f \in FxElements \ {e} : r.queue[f] = s.queue[f]
    /\ \E back \in Seq(CallFrames) : r.frames = back \o s.frames
    /\ \/ EmptiedAt(s, e, r)
       \/ \E k \in 1..Len(ItemsOf(s, e)) :
             /\ TakenAt(s, e, k, r)
             /\ \/ DelayedAt(s, e, ItemsOf(s, e)[k].id, r)
                \/ StartedAt(s, e, ItemsOf(s, e)[k].id, r)

LEMMA DequeuedIs ==
  ASSUME NEW s \in FxStates, NEW e \in FxElements, ItemsOf(s, e) \in Seq(FxItems),
         OneEach(ItemsOf(s, e))
  PROVE  Dequeues(s, e, Dequeued(s, e))
<1> DEFINE rest == Unsentinelled(s.queue[e])
           inView == s.shown[e]
           k    == SelectInSeq(rest, LAMBDA item : ~Immediate(item, inView))
           done == IF k = 0 THEN rest ELSE SubSeq(rest, 1, k - 1)
           item == rest[k]
           kind == IF item.kind # "toggle" THEN item.kind
                   ELSE IF inView THEN "hide" ELSE "show"
           calledBack == CallbackFrames(e, done)
           back == calledBack \o s.frames
           next == [s.queue EXCEPT ![e] = <<Sentinel>> \o SubSeq(rest, k + 1, Len(rest))]
           r == Dequeued(s, e)
<1>1. rest = ItemsOf(s, e) /\ rest \in Seq(FxItems) /\ Len(rest) \in Nat /\ inView \in BOOLEAN
      /\ \A i, j \in DOMAIN rest : rest[i].id = rest[j].id => i = j
  BY DEF ItemsOf, FxStates, OneEach
<1>2. r = CASE k = 0 -> [s EXCEPT !.queue[e] = <<>>, !.frames = back]
            [] k > 0 /\ kind = "delay" ->
                 [s EXCEPT !.queue = next, !.frames = back,
                           !.waiting = @ \cup {[elem |-> e, id |-> item.id]}]
            [] OTHER ->
                 [s EXCEPT !.queue = next, !.frames = back,
                           !.timers = @ \o TimersOf(e, item, kind),
                           !.left[item.id] = 1..Props,
                           !.shown[e] = @ \/ kind = "show",
                           !.ticking = TRUE]
  BY DEF Dequeued
<1> HIDE DEF rest, inView, r
<1>3. k \in 0..Len(rest)
  <2> DEFINE places == {i \in 1..Len(rest) : ~Immediate(rest[i], inView)}
  <2>1. k = IF places # {} THEN Min(places) ELSE 0
    BY DEF SelectInSeq
  <2>2. places \in SUBSET (1..Len(rest))
    OBVIOUS
  <2> HIDE DEF places, k
  <2>3. places # {} => Min(places) \in places
    BY <1>1, <2>2, LeastIndex
  <2>4. CASE places = {}
    BY <1>1, <2>1, <2>4
  <2>5. CASE places # {}
    <3>1. k \in 1..Len(rest)
      BY <2>1, <2>2, <2>3, <2>5
    <3> QED BY <1>1, <3>1
  <2> QED BY <2>4, <2>5
<1> HIDE DEF k
<1>4. done \in Seq(FxItems)
  BY <1>1, <1>3
<1> HIDE DEF done
<1>5. calledBack \in Seq(CallFrames)
  BY <1>4, CallbacksAre
<1> HIDE DEF calledBack
<1>6. back \in Seq(FxFrames) /\ \E b \in Seq(CallFrames) : back = b \o s.frames
  <2>1. s.frames \in Seq(FxFrames) /\ calledBack \in Seq(FxFrames)
    BY <1>5 DEF FxStates, FxFrames
  <2> QED BY <1>5, <2>1
<1> HIDE DEF back
<1>7. CASE k = 0
  <2>1. r = [s EXCEPT !.queue[e] = <<>>, !.frames = back]
    BY <1>2, <1>7
  <2>2. StateOf(s, r, [s.queue EXCEPT ![e] = <<>>], s.shown, s.timers, s.ticking, s.waiting, s.left, back)
    BY <1>6, <2>1, EmptiedState
  <2>3. r \in FxStates /\ r.queue = [s.queue EXCEPT ![e] = <<>>] /\ r.timers = s.timers
        /\ r.waiting = s.waiting /\ r.left = s.left /\ r.frames = back
    BY <2>2 DEF StateOf
  <2>4. DOMAIN s.queue = FxElements
    BY DEF FxStates
  <2>5. r.queue[e] = <<>> /\ \A f \in FxElements \ {e} : r.queue[f] = s.queue[f]
    BY <2>3, <2>4
  <2> QED BY <1>6, <2>3, <2>5 DEF Dequeues, EmptiedAt, r
<1>8. CASE k # 0
  <2>0. k \in 1..Len(rest)
    BY <1>1, <1>3, <1>8
  <2> DEFINE n == SubSeq(rest, k + 1, Len(rest))
  <2>1. Behind(rest, k, n)
    BY <1>1, <2>0, BehindIs
  <2> HIDE DEF n
  <2>2. n \in Seq(FxItems) /\ item \in FxItems /\ item.id \in Ids
    BY <2>1 DEF Behind, FxItems
  <2> DEFINE q == <<Sentinel>> \o n
  <2>3. BehindSentinel(n, q)
    BY <2>2, SentinelFirst
  <2>4. next = [s.queue EXCEPT ![e] = q]
    BY DEF n
  <2> HIDE DEF q, next
  <2>5. s.queue \in [FxElements -> Seq(FxItems \cup {Sentinel})] /\ q \in Seq(FxItems \cup {Sentinel})
    BY <2>3 DEF FxStates, BehindSentinel
  <2>6. next \in [FxElements -> Seq(FxItems \cup {Sentinel})]
        /\ next[e] = q /\ \A f \in FxElements \ {e} : next[f] = s.queue[f]
    BY <2>4, <2>5
  <2>7. ASSUME r.queue = next PROVE TakenAt(s, e, k, r)
    <3>1. ItemsOf(r, e) = n /\ HasSentinel(r, e)
      BY <2>3, <2>6, <2>7 DEF ItemsOf, HasSentinel, BehindSentinel
    <3> QED BY <1>1, <2>1, <3>1 DEF TakenAt
  <2> HIDE DEF item, kind
  <2>8. CASE kind = "delay"
    <3> DEFINE d == [elem |-> e, id |-> item.id]
    <3>1. r = [s EXCEPT !.queue = next, !.frames = back, !.waiting = @ \cup {d}]
      BY <1>1, <1>2, <2>0, <2>8
    <3>2. d \in FxDelays
      BY <2>2 DEF FxDelays
    <3>d. d = [elem |-> e, id |-> item.id]
      OBVIOUS
    <3> HIDE DEF d
    <3>3. StateOf(s, r, next, s.shown, s.timers, s.ticking, s.waiting \cup {d}, s.left, back)
      BY <1>6, <2>6, <3>1, <3>2, DelayedState
    <3>4. r \in FxStates /\ r.queue = next /\ r.timers = s.timers
          /\ r.waiting = s.waiting \cup {d} /\ r.left = s.left /\ r.frames = back
      BY <3>3 DEF StateOf
    <3>5. DelayedAt(s, e, item.id, r)
      BY <3>4, <3>d DEF DelayedAt
    <3> QED BY <1>1, <1>6, <2>0, <2>6, <2>7, <3>4, <3>5 DEF Dequeues, r, item
  <2>9. CASE kind # "delay"
    <3> DEFINE news == TimersOf(e, item, kind)
               seen == kind = "show"
               id == item.id
    <3>1. r = [s EXCEPT !.queue = next, !.frames = back, !.timers = @ \o news,
                        !.left[id] = 1..Props, !.shown[e] = @ \/ seen, !.ticking = TRUE]
      BY <1>1, <1>2, <1>8, <2>0, <2>9
    <3>2. NewTimers(news, e, id)
      BY <2>2, TimersAre
    <3>3. news \in Seq(FxTimers) /\ id \in Ids /\ seen \in BOOLEAN
      BY <2>2, <3>2 DEF NewTimers
    <3> HIDE DEF news, seen, id
    <3>4. StateOf(s, r, next, [s.shown EXCEPT ![e] = @ \/ seen], s.timers \o news, TRUE, s.waiting,
                  [s.left EXCEPT ![id] = 1..Props], back)
      BY <1>6, <2>6, <3>1, <3>3, StartedState
    <3>5. r \in FxStates /\ r.queue = next /\ r.timers = s.timers \o news
          /\ r.waiting = s.waiting /\ r.left = [s.left EXCEPT ![id] = 1..Props] /\ r.frames = back
      BY <3>4 DEF StateOf
    <3>6. StartedAt(s, e, id, r)
      BY <3>2, <3>5 DEF StartedAt
    <3> QED BY <1>1, <1>6, <2>0, <2>6, <2>7, <3>5, <3>6 DEF Dequeues, r, item, id
  <2> QED BY <2>8, <2>9
<1> QED BY <1>7, <1>8

\* Queues that only lose items.
FewerItems(s, r) ==
    \A f \in FxElements : /\ ItemsOf(r, f) \in Seq(FxItems) /\ OneEach(ItemsOf(r, f))
                          /\ Range(ItemsOf(r, f)) \subseteq Range(ItemsOf(s, f))

LEMMA FewerItemsFit ==
  ASSUME NEW s, NEW r, ItemsFit(s), FewerItems(s, r)
  PROVE  ItemsFit(r)
BY DEF ItemsFit, FewerItems

LEMMA NoItems ==
  /\ Unsentinelled(<<>>) = <<>> /\ <<>> \in Seq(FxItems) /\ OneEach(<<>>) /\ Range(<<>>) = {}
BY DEF Unsentinelled, OneEach, Range

\* Dequeuing lets each animation be once, as before.
LEMMA DequeueNumbers ==
  ASSUME NEW s, NEW ended, NEW last, IdsFit(s, ended, last), NEW e \in FxElements,
         NEW r, Dequeues(s, e, r)
  PROVE  IdsFit(r, ended, last) /\ FewerItems(s, r)
<1>1. s \in FxStates /\ r \in FxStates /\ ended \subseteq FxTimers
      /\ ItemsFit(s) /\ NumbersFit(s, ended, last) /\ TimersFit(s.timers)
  BY DEF IdsFit, Dequeues
<1>2. \A f \in FxElements \ {e} : ItemsOf(r, f) = ItemsOf(s, f)
  BY DEF Dequeues, ItemsOf
<1>3. CASE EmptiedAt(s, e, r)
  <2>1. ItemsOf(r, e) = <<>>
    BY <1>3, NoItems DEF EmptiedAt, ItemsOf
  <2>2. FewerItems(s, r)
    BY <1>1, <1>2, <2>1, NoItems DEF FewerItems, ItemsFit
  <2>3. r.timers = s.timers /\ r.waiting = s.waiting
    BY <1>3 DEF EmptiedAt
  <2>4. NumbersFit(r, ended, last)
    BY <1>1, <2>2, <2>3 DEF NumbersFit, FewerItems
  <2> QED BY <1>1, <2>2, <2>3, <2>4, FewerItemsFit DEF IdsFit
<1>4. ASSUME NEW k \in 1..Len(ItemsOf(s, e)), TakenAt(s, e, k, r),
             DelayedAt(s, e, ItemsOf(s, e)[k].id, r) \/ StartedAt(s, e, ItemsOf(s, e)[k].id, r)
      PROVE  IdsFit(r, ended, last) /\ FewerItems(s, r)
  <2> DEFINE x == ItemsOf(s, e)[k]
             n == ItemsOf(r, e)
  <2>1. /\ n \in Seq(FxItems) /\ OneEach(n) /\ Range(n) \subseteq Range(ItemsOf(s, e))
        /\ x \in Range(ItemsOf(s, e)) /\ x \in FxItems
        /\ \A y \in Range(n) : y.id # x.id
    BY <1>4 DEF TakenAt, Behind, OneEach
  <2>2. DelayedAt(s, e, x.id, r) \/ StartedAt(s, e, x.id, r)
    BY <1>4
  <2> HIDE DEF x, n
  <2>3. FewerItems(s, r)
    BY <1>1, <1>2, <2>1 DEF FewerItems, ItemsFit, n
  <2>4. ASSUME NEW f \in FxElements, NEW y \in Range(ItemsOf(r, f)) PROVE y.id # x.id
    <3>1. CASE f = e
      BY <2>1, <2>4, <3>1 DEF n
    <3>2. CASE f # e
      BY <1>1, <1>2, <2>1, <2>4, <3>2 DEF ItemsFit
    <3> QED BY <3>1, <3>2
  <2>5. /\ x.id <= last
        /\ \A t \in Range(s.timers) \cup s.waiting \cup ended : t.id # x.id
    BY <1>1, <2>1 DEF NumbersFit
  <2>6. CASE DelayedAt(s, e, x.id, r)
    <3> DEFINE d == [elem |-> e, id |-> x.id]
    <3>1. r.timers = s.timers /\ r.waiting = s.waiting \cup {d} /\ d.id = x.id
      BY <2>6 DEF DelayedAt
    <3> HIDE DEF d
    <3>2. NumbersFit(r, ended, last)
      <4>1. \A f \in FxElements : \A y \in Range(ItemsOf(r, f)) : y \in Range(ItemsOf(s, f))
        BY <2>3 DEF FewerItems
      <4>2. \A f \in FxElements : \A y \in Range(ItemsOf(r, f)) :
               /\ y.id <= last
               /\ \A t \in Range(r.timers) \cup r.waiting \cup ended : t.id # y.id
        BY <1>1, <2>4, <3>1, <4>1 DEF NumbersFit
      <4>3. \A t \in Range(r.timers) \cup r.waiting \cup ended : t.id <= last
        BY <1>1, <2>5, <3>1 DEF NumbersFit
      <4>4. \A t \in Range(r.timers), w \in r.waiting : t.id # w.id
        BY <1>1, <2>5, <3>1 DEF NumbersFit
      <4> QED BY <4>2, <4>3, <4>4 DEF NumbersFit
    <3> QED BY <1>1, <2>3, <3>1, <3>2, FewerItemsFit DEF IdsFit
  <2>7. CASE StartedAt(s, e, x.id, r)
    <3>1. PICK news : NewTimers(news, e, x.id) /\ r.timers = s.timers \o news
      BY <2>7 DEF StartedAt
    <3>2. r.waiting = s.waiting
      BY <2>7 DEF StartedAt
    <3>3. /\ news \in Seq(FxTimers) /\ s.timers \in Seq(FxTimers)
          /\ \A t \in Range(news) : t.elem = e /\ t.id = x.id
          /\ \A t, u \in Range(news) : t.prop = u.prop => t = u
          /\ IsInjective(news) /\ IsInjective(s.timers)
      BY <1>1, <3>1 DEF NewTimers, FxStates, TimersFit
    <3>4. Joins(FxTimers, s.timers, news, r.timers)
      BY <3>1, <3>3, JoinedApart
    <3>5. Range(r.timers) = Range(s.timers) \cup Range(news) /\ Range(s.timers) \cap Range(news) = {}
      BY <2>5, <3>3, <3>4 DEF Joins
    <3>6. TimersFit(r.timers)
      <4>1. IsInjective(r.timers)
        BY <3>3, <3>4, <3>5 DEF Joins
      <4>2. \A t, u \in Range(r.timers) : t.id = u.id => t.elem = u.elem /\ (t.prop = u.prop => t = u)
        BY <1>1, <2>5, <3>3, <3>5 DEF TimersFit
      <4> QED BY <4>1, <4>2 DEF TimersFit
    <3>7. NumbersFit(r, ended, last)
      <4>1. \A f \in FxElements : \A y \in Range(ItemsOf(r, f)) : y \in Range(ItemsOf(s, f))
        BY <2>3 DEF FewerItems
      <4>2. \A f \in FxElements : \A y \in Range(ItemsOf(r, f)) :
               /\ y.id <= last
               /\ \A t \in Range(r.timers) \cup r.waiting \cup ended : t.id # y.id
        BY <1>1, <2>4, <3>2, <3>3, <3>5, <4>1 DEF NumbersFit
      <4>3. \A t \in Range(r.timers) \cup r.waiting \cup ended : t.id <= last
        BY <1>1, <2>5, <3>2, <3>3, <3>5 DEF NumbersFit
      <4>4. \A t \in Range(r.timers), w \in r.waiting : t.id # w.id
        BY <1>1, <2>5, <3>2, <3>3, <3>5 DEF NumbersFit
      <4> QED BY <4>2, <4>3, <4>4 DEF NumbersFit
    <3> QED BY <1>1, <2>3, <3>6, <3>7, FewerItemsFit DEF IdsFit
  <2> QED BY <2>2, <2>6, <2>7
<1> QED BY <1>3, <1>4 DEF Dequeues

\* What dequeue starts: nothing, a delay or the fx objects of an animation.
Added(s, e, r, news, wait) ==
    /\ r.timers = s.timers \o news /\ news \in Seq(FxTimers) /\ s.timers \in Seq(FxTimers)
    /\ Range(r.timers) = Range(s.timers) \cup Range(news)
    /\ r.waiting = s.waiting \cup wait
    /\ \A t \in Range(news) \cup wait : t.elem = e
    /\ \A t \in Range(s.timers) : r.left[t.id] = s.left[t.id]
AddsDelay(s, e, r, id) == Added(s, e, r, <<>>, {[elem |-> e, id |-> id]}) /\ HasSentinel(r, e)
AddsTimers(s, ended, e, r, id, news) ==
    /\ Added(s, e, r, news, {}) /\ NewTimers(news, e, id) /\ HasSentinel(r, e)
    /\ r.left[id] = 1..Props /\ \A t \in ended : t.id # id
Adds(s, ended, e, r) ==
    \/ Added(s, e, r, <<>>, {}) /\ ~HasSentinel(r, e)
    \/ \E id \in Ids : AddsDelay(s, e, r, id)
    \/ \E id \in Ids : \E news : AddsTimers(s, ended, e, r, id, news)

LEMMA DequeueAdds ==
  ASSUME NEW s, NEW ended, NEW last, IdsFit(s, ended, last), NEW e \in FxElements,
         NEW r, Dequeues(s, e, r)
  PROVE  Adds(s, ended, e, r)
<1>1. s \in FxStates /\ s.timers \in Seq(FxTimers) /\ s.left \in [Ids -> SUBSET (1..Props)]
      /\ s.timers \o <<>> = s.timers /\ <<>> \in Seq(FxTimers) /\ Range(<<>>) = {}
      /\ \A t \in Range(s.timers) : t.id \in Ids
  <2>1. s \in FxStates /\ s.timers \in Seq(FxTimers) /\ s.left \in [Ids -> SUBSET (1..Props)]
    BY DEF IdsFit, FxStates
  <2>2. s.timers \o <<>> = s.timers /\ <<>> \in Seq(FxTimers) /\ Range(<<>>) = {}
    BY <2>1 DEF Range
  <2>3. Range(s.timers) \subseteq FxTimers
    BY <2>1 DEF Range
  <2> QED BY <2>1, <2>2, <2>3 DEF FxTimers
<1>2. CASE EmptiedAt(s, e, r)
  <2>1. Added(s, e, r, <<>>, {}) /\ ~HasSentinel(r, e)
    BY <1>1, <1>2 DEF EmptiedAt, Added, HasSentinel
  <2> QED BY <2>1 DEF Adds
<1>3. ASSUME NEW k \in 1..Len(ItemsOf(s, e)), TakenAt(s, e, k, r),
             DelayedAt(s, e, ItemsOf(s, e)[k].id, r) \/ StartedAt(s, e, ItemsOf(s, e)[k].id, r)
      PROVE  Adds(s, ended, e, r)
  <2> DEFINE x == ItemsOf(s, e)[k]
             id == x.id
  <2>1. x \in Range(ItemsOf(s, e)) /\ x \in FxItems /\ HasSentinel(r, e) /\ x.id \in Ids
    BY <1>3 DEF TakenAt, Behind, FxItems
  <2>2. DelayedAt(s, e, id, r) \/ StartedAt(s, e, id, r)
    BY <1>3
  <2>3. \A t \in Range(s.timers) \cup s.waiting \cup ended : t.id # x.id
    BY <2>1 DEF IdsFit, NumbersFit
  <2>4. id = x.id
    OBVIOUS
  <2> HIDE DEF x, id
  <2>5. CASE DelayedAt(s, e, id, r)
    <3> DEFINE d == [elem |-> e, id |-> id]
    <3>1. Added(s, e, r, <<>>, {d})
      BY <1>1, <2>5 DEF DelayedAt, Added
    <3>2. AddsDelay(s, e, r, id)
      BY <2>1, <3>1 DEF AddsDelay
    <3> QED BY <2>1, <2>4, <3>2 DEF Adds
  <2>6. CASE StartedAt(s, e, id, r)
    <3>1. PICK news : NewTimers(news, e, id) /\ r.timers = s.timers \o news
      BY <2>6 DEF StartedAt
    <3>2. r.waiting = s.waiting /\ r.left = [s.left EXCEPT ![id] = 1..Props]
      BY <2>6 DEF StartedAt
    <3>3. news \in Seq(FxTimers) /\ \A t \in Range(news) : t.elem = e
      BY <3>1 DEF NewTimers
    <3>4. Range(r.timers) = Range(s.timers) \cup Range(news)
      BY <1>1, <3>1, <3>3, JoinedApart DEF Joins
    <3>5. r.left[id] = 1..Props /\ \A t \in Range(s.timers) : r.left[t.id] = s.left[t.id]
      BY <1>1, <2>1, <2>3, <2>4, <3>2
    <3>6. Added(s, e, r, news, {})
      BY <1>1, <3>1, <3>2, <3>3, <3>4, <3>5 DEF Added
    <3>7. AddsTimers(s, ended, e, r, id, news)
      BY <2>1, <2>3, <2>4, <3>1, <3>5, <3>6 DEF AddsTimers
    <3> QED BY <2>1, <2>4, <3>7 DEF Adds
  <2> QED BY <2>2, <2>5, <2>6
<1> QED BY <1>2, <1>3 DEF Dequeues

\* Nothing changes for the other elements.
LikeFor(s, r, ended, f) ==
    /\ r.queue[f] = s.queue[f] /\ RunsNow(r, f) = RunsNow(s, f)
    /\ TimersLive(s, ended, f) => TimersLive(r, ended, f)
    /\ TimersWhole(s, f) => TimersWhole(r, f)
    /\ \A at \in Nat : Ahead(s, f, at) => Ahead(r, f, at)

LEMMA AddedOthers ==
  ASSUME NEW s, NEW ended, NEW e \in FxElements, NEW r, NEW news, NEW wait, Added(s, e, r, news, wait),
         NEW f \in FxElements \ {e}, r.queue[f] = s.queue[f]
  PROVE  LikeFor(s, r, ended, f)
<1>1. /\ r.timers = s.timers \o news /\ news \in Seq(FxTimers) /\ s.timers \in Seq(FxTimers)
      /\ Range(r.timers) = Range(s.timers) \cup Range(news)
      /\ r.waiting = s.waiting \cup wait
      /\ \A t \in Range(news) \cup wait : t.elem # f
      /\ \A t \in Range(s.timers) : r.left[t.id] = s.left[t.id]
  BY DEF Added
<1>2. RunsNow(r, f) = RunsNow(s, f)
  BY <1>1 DEF RunsNow
<1>3. /\ TimersLive(s, ended, f) => TimersLive(r, ended, f)
      /\ TimersWhole(s, f) => TimersWhole(r, f)
  <2>1. \A t \in Range(r.timers) : t.elem = f =>
           t \in Range(s.timers) /\ r.left[t.id] = s.left[t.id]
    BY <1>1
  <2>2. TimersLive(s, ended, f) => TimersLive(r, ended, f)
    BY <2>1 DEF TimersLive
  <2>3. ASSUME TimersWhole(s, f), NEW t \in Range(r.timers), t.elem = f, NEW p \in r.left[t.id]
        PROVE  \E u \in Range(r.timers) : u.elem = f /\ u.id = t.id /\ u.prop = p
    <3>1. \E u \in Range(s.timers) : u.elem = f /\ u.id = t.id /\ u.prop = p
      BY <2>1, <2>3 DEF TimersWhole
    <3> QED BY <1>1, <3>1
  <2> QED BY <2>2, <2>3 DEF TimersWhole
<1>4. ASSUME NEW at \in Nat, Ahead(s, f, at) PROVE Ahead(r, f, at)
  <2>1. ASSUME NEW i \in DOMAIN r.timers, r.timers[i].elem = f PROVE i <= at
    <3> DEFINE a == Len(s.timers)
               b == Len(news)
    <3>1. /\ a \in Nat /\ b \in Nat /\ DOMAIN r.timers = 1..a + b /\ DOMAIN s.timers = 1..a
          /\ \A j \in 1..a + b : r.timers[j] = IF j <= a THEN s.timers[j] ELSE news[j - a]
      BY <1>1, ConcatProperties
    <3>2. \A j \in 1..b : news[j] \in Range(news)
      BY <1>1 DEF Range
    <3> HIDE DEF a, b
    <3>3. i <= a
      <4> SUFFICES ASSUME ~(i <= a) PROVE FALSE
        OBVIOUS
      <4>1. i - a \in 1..b /\ r.timers[i] = news[i - a]
        BY <2>1, <3>1
      <4> QED BY <1>1, <2>1, <3>2, <4>1
    <3> QED BY <1>4, <2>1, <3>1, <3>3 DEF Ahead
  <2> QED BY <1>1, <1>4, <2>1 DEF Ahead
<1> QED BY <1>2, <1>3, <1>4 DEF LikeFor

LEMMA DequeueOthers ==
  ASSUME NEW s, NEW ended, NEW last, IdsFit(s, ended, last), NEW e \in FxElements,
         NEW r, Dequeues(s, e, r), NEW f \in FxElements \ {e}
  PROVE  LikeFor(s, r, ended, f)
<1>1. \E news, wait : Added(s, e, r, news, wait)
  BY DequeueAdds DEF Adds, AddsDelay, AddsTimers
<1>2. r.queue[f] = s.queue[f]
  BY DEF Dequeues
<1> QED BY <1>1, <1>2, AddedOthers

\* Where nothing runs, dequeue leaves what runs to the sentinel.
LEMMA DequeueCalms ==
  ASSUME NEW s, NEW ended, NEW last, IdsFit(s, ended, last), NEW e \in FxElements,
         NEW r, Dequeues(s, e, r), RunsNow(s, e) = {}, TimersLive(s, ended, e), TimersWhole(s, e)
  PROVE  InStep(r, ended, e)
<1>0. Range(<<>>) = {}
  BY DEF Range
<1>1. CASE Added(s, e, r, <<>>, {}) /\ ~HasSentinel(r, e)
  <2>1. RunsNow(r, e) = {}
    BY <1>0, <1>1 DEF Added, RunsNow
  <2>2. TimersLive(r, ended, e) /\ TimersWhole(r, e)
    BY <1>0, <1>1 DEF Added, TimersLive, TimersWhole
  <2> QED BY <1>1, <2>1, <2>2 DEF InStep, TellsTruth
<1>2. ASSUME NEW id \in Ids, AddsDelay(s, e, r, id)
      PROVE  InStep(r, ended, e)
  <2> DEFINE d == [elem |-> e, id |-> id]
  <2>0. d.elem = e /\ d.id = id
    OBVIOUS
  <2>1. Range(r.timers) = Range(s.timers) /\ r.waiting = s.waiting \cup {d}
        /\ \A t \in Range(s.timers) : r.left[t.id] = s.left[t.id]
    BY <1>0, <1>2 DEF Added, AddsDelay
  <2> HIDE DEF d
  <2>2. RunsNow(r, e) = {id}
    <3>1. {t.id : t \in {u \in Range(r.timers) : u.elem = e /\ r.left[u.id] # {}}} = {}
      BY <2>1 DEF RunsNow
    <3>2. {w.id : w \in {v \in r.waiting : v.elem = e}} = {id}
      BY <2>0, <2>1 DEF RunsNow
    <3> QED BY <3>1, <3>2 DEF RunsNow
  <2>3. TimersLive(r, ended, e) /\ TimersWhole(r, e)
    BY <2>1 DEF TimersLive, TimersWhole
  <2> QED BY <1>2, <2>2, <2>3 DEF InStep, TellsTruth, AddsDelay
<1>3. ASSUME NEW id \in Ids, NEW news, AddsTimers(s, ended, e, r, id, news)
      PROVE  InStep(r, ended, e)
  <2>0. /\ Added(s, e, r, news, {}) /\ NewTimers(news, e, id) /\ HasSentinel(r, e)
        /\ r.left[id] = 1..Props /\ \A t \in ended : t.id # id
    BY <1>3 DEF AddsTimers
  <2>1. /\ Range(r.timers) = Range(s.timers) \cup Range(news) /\ r.waiting = s.waiting
        /\ \A t \in Range(s.timers) : r.left[t.id] = s.left[t.id]
    BY <2>0 DEF Added
  <2>2. /\ \A t \in Range(news) : t.elem = e /\ t.id = id /\ t.prop \in 1..Props
        /\ \A p \in 1..Props : \E t \in Range(news) : t.prop = p
    <3>1. Range(news) \subseteq FxTimers
      BY <2>0 DEF NewTimers, Range
    <3> QED BY <2>0, <3>1 DEF NewTimers, FxTimers
  <2>3. 1 \in 1..Props
    BY EffectsAssumption
  <2>4. RunsNow(r, e) = {id}
    <3>1. {w.id : w \in {v \in r.waiting : v.elem = e}} = {}
      BY <2>1 DEF RunsNow
    <3>2. \A t \in Range(s.timers) : t.elem = e => r.left[t.id] = {}
      BY <2>1 DEF RunsNow
    <3>3. {t.id : t \in {u \in Range(r.timers) : u.elem = e /\ r.left[u.id] # {}}} \subseteq {id}
      BY <2>1, <2>2, <3>2
    <3>4. id \in {t.id : t \in {u \in Range(r.timers) : u.elem = e /\ r.left[u.id] # {}}}
      <4>1. PICK t \in Range(news) : t.prop = 1
        BY <2>2, <2>3
      <4>2. r.left[t.id] # {}
        BY <2>0, <2>2, <2>3, <4>1
      <4> QED BY <2>1, <2>2, <4>1, <4>2
    <3> QED BY <3>1, <3>3, <3>4 DEF RunsNow
  <2>5. TimersLive(r, ended, e)
    <3>1. \A t \in Range(s.timers) : t.elem = e => (t.prop \in r.left[t.id] <=> t \notin ended)
      BY <2>1 DEF TimersLive
    <3>2. \A t \in Range(news) : t.prop \in r.left[t.id] /\ t \notin ended
      BY <2>0, <2>2
    <3> QED BY <2>1, <3>1, <3>2 DEF TimersLive
  <2>6. TimersWhole(r, e)
    <3>1. \A t \in Range(s.timers) : t.elem = e => r.left[t.id] = {}
      BY <2>1 DEF RunsNow
    <3>2. ASSUME NEW t \in Range(r.timers), t.elem = e, NEW p \in r.left[t.id]
          PROVE  \E u \in Range(r.timers) : u.elem = e /\ u.id = t.id /\ u.prop = p
      <4>1. t \in Range(news) /\ t.id = id /\ p \in 1..Props
        BY <2>0, <2>1, <2>2, <3>1, <3>2
      <4> QED BY <2>1, <2>2, <4>1
    <3> QED BY <3>2 DEF TimersWhole
  <2>7. TellsTruth(r, e)
    <3>1. HasSentinel(r, e)
      BY <2>0
    <3> QED BY <2>4, <3>1 DEF TellsTruth
  <2> QED BY <2>5, <2>6, <2>7 DEF InStep
<1> QED BY <1>1, <1>2, <1>3, DequeueAdds DEF Adds

-----------------------------------------------------------------------------
(* Loops and callbacks.                                                    *)

IsLoop(f) == f \in TickFrames \cup StopFrames

LEMMA FrameKinds ==
  ASSUME NEW f \in FxFrames
  PROVE  /\ f.op \in {"tick", "stop", "callback"}
         /\ f \in TickFrames <=> f.op = "tick"
         /\ f \in StopFrames <=> f.op = "stop"
         /\ f \in CallFrames <=> f.op = "callback"
BY DEF FxFrames, TickFrames, StopFrames, CallFrames

\* A stack with one more frame on it.
OneMore(f, s, r) ==
    /\ r \in Seq(FxFrames) /\ r # <<>> /\ Head(r) = f /\ Tail(r) = s
    /\ Len(s) \in Nat /\ Len(r) = Len(s) + 1 /\ DOMAIN r = 1..Len(s) + 1 /\ DOMAIN s = 1..Len(s)
    /\ r[1] = f /\ \A i \in 1..Len(s) : r[i + 1] = s[i]

LEMMA OneMoreIs ==
  ASSUME NEW f \in FxFrames, NEW s \in Seq(FxFrames)
  PROVE  OneMore(f, s, <<f>> \o s)
BY DEF OneMore

LEMMA OneLess ==
  ASSUME NEW r \in Seq(FxFrames), r # <<>>
  PROVE  OneMore(Head(r), Tail(r), r) /\ Head(r) \in FxFrames /\ Tail(r) \in Seq(FxFrames)
         /\ Head(r) = r[1] /\ Len(r) \in Nat \ {0}
<1>1. Head(r) \in FxFrames /\ Tail(r) \in Seq(FxFrames) /\ Len(r) \in Nat \ {0} /\ Head(r) = r[1]
      /\ Len(Tail(r)) = Len(r) - 1 /\ DOMAIN r = 1..Len(r) /\ DOMAIN Tail(r) = 1..Len(r) - 1
      /\ \A i \in 1..Len(r) - 1 : Tail(r)[i] = r[i + 1]
  OBVIOUS
<1> QED BY <1>1 DEF OneMore

\* The fx objects that have ended in the loops.
EndsOf(f) == IF f.op = "callback" \/ f.ended = NoTimer THEN {} ELSE {f.ended}

LEMMA NothingEnded ==
  EndedIn(<<>>) = {}
BY DEF EndedIn

LEMMA EndedMore ==
  ASSUME NEW f \in FxFrames, NEW s \in Seq(FxFrames), NEW r, OneMore(f, s, r)
  PROVE  EndedIn(r) = EndsOf(f) \cup EndedIn(s)
<1>1. /\ Len(s) \in Nat /\ DOMAIN r = 1..Len(s) + 1 /\ DOMAIN s = 1..Len(s)
      /\ r[1] = f /\ \A i \in 1..Len(s) : r[i + 1] = s[i]
  BY DEF OneMore
<1>2. ASSUME NEW x \in EndedIn(r) PROVE x \in EndsOf(f) \cup EndedIn(s)
  <2>1. PICK i \in DOMAIN r : r[i].op # "callback" /\ x = r[i].ended /\ x # NoTimer
    BY <1>2 DEF EndedIn
  <2>2. CASE i = 1
    BY <1>1, <2>1, <2>2 DEF EndsOf
  <2>3. CASE i # 1
    <3> DEFINE j == i - 1
    <3>1. j \in 1..Len(s) /\ i = j + 1
      BY <1>1, <2>1, <2>3
    <3>2. r[i] = s[j] /\ j \in DOMAIN s
      BY <1>1, <3>1
    <3> QED BY <2>1, <3>2 DEF EndedIn
  <2> QED BY <2>2, <2>3
<1>3. ASSUME NEW x \in EndsOf(f) PROVE x \in EndedIn(r)
  <2>1. 1 \in DOMAIN r /\ r[1].op # "callback" /\ x = r[1].ended /\ x # NoTimer
    BY <1>1, <1>3 DEF EndsOf
  <2> QED BY <2>1 DEF EndedIn
<1>4. ASSUME NEW x \in EndedIn(s) PROVE x \in EndedIn(r)
  <2>1. PICK i \in DOMAIN s : s[i].op # "callback" /\ x = s[i].ended /\ x # NoTimer
    BY <1>4 DEF EndedIn
  <2>2. i + 1 \in DOMAIN r /\ r[i + 1] = s[i]
    BY <1>1, <2>1
  <2> QED BY <2>1, <2>2 DEF EndedIn
<1> QED BY <1>2, <1>3, <1>4

\* Where a callback may be called from.
CanCall(s) ==
    s # <<>> => \/ Head(s).op = "callback"
                \/ /\ Len(s) = 1 /\ Head(s).ended # NoTimer
                   /\ Head(s).op = "stop" => Head(s).toEnd

\* A stack with the callbacks of what is over on it.
Called(s, r) ==
    /\ r \in Seq(FxFrames) /\ StackOk(r) /\ CanCall(r) /\ EndedIn(r) = EndedIn(s)
    /\ r = s \/ (r # <<>> /\ Head(r).op = "callback")

LEMMA CalledOn ==
  ASSUME NEW back \in Seq(CallFrames), NEW s \in Seq(FxFrames), StackOk(s), CanCall(s)
  PROVE  Called(s, back \o s)
<1> DEFINE r == back \o s
           a == Len(s)
           b == Len(back)
<1>1. back \in Seq(FxFrames) /\ \A i \in 1..b : back[i].op = "callback"
  <2>1. CallFrames \subseteq FxFrames
    BY DEF FxFrames
  <2>2. \A i \in 1..b : back[i] \in CallFrames
    OBVIOUS
  <2> QED BY <2>1, <2>2 DEF CallFrames
<1>2. /\ a \in Nat /\ b \in Nat /\ r \in Seq(FxFrames) /\ Len(r) = a + b
      /\ DOMAIN r = 1..a + b /\ DOMAIN s = 1..a
      /\ \A i \in 1..a + b : r[i] = IF i <= b THEN back[i] ELSE s[i - b]
  BY <1>1, ConcatProperties
<1>3. /\ b = 0 => r = s
      /\ b > 0 => r # <<>> /\ Head(r).op = "callback" /\ r[1].op = "callback"
  <2>1. CASE b = 0
    <3>1. back = <<>>
      BY <2>1
    <3>2. r = s
      BY <3>1
    <3> QED BY <2>1, <3>2
  <2>2. CASE b > 0
    <3>1. 1 \in 1..b /\ 1 \in 1..a + b
      BY <1>2, <2>2
    <3>2. r[1] = back[1] /\ r # <<>> /\ Head(r) = r[1]
      BY <1>2, <3>1
    <3> QED BY <1>1, <2>2, <3>1, <3>2
  <2> QED BY <1>2, <2>1, <2>2
<1>n. a \in Nat /\ b \in Nat /\ Len(s) = a
  BY <1>2
<1> HIDE DEF r, a, b
<1>4. ASSUME b = 0 PROVE Called(s, r)
  <2>1. r = s /\ r \in Seq(FxFrames)
    BY <1>2, <1>3, <1>4
  <2> QED BY <2>1 DEF Called
<1>5. ASSUME b > 0 PROVE Called(s, r)
  <2>1. ASSUME NEW i \in DOMAIN r
        PROVE  /\ r[i].op = "stop" /\ ~r[i].toEnd => i = 1 /\ r[i].ended = NoTimer
               /\ r[i].op = "stop" /\ r[i].ended # NoTimer => r[i].at > 0
               /\ r[i].op # "callback" => i = 1 \/ (i = Len(r) /\ r[i].ended # NoTimer)
    <3>1. CASE i <= b
      <4>1. i \in 1..b /\ r[i] = back[i]
        BY <1>2, <2>1, <3>1
      <4> QED BY <1>1, <4>1
    <3>2. CASE ~(i <= b)
      <4> DEFINE j == i - b
      <4>1. j \in DOMAIN s /\ i = j + b /\ r[i] = s[j] /\ j \in Nat
        BY <1>2, <2>1, <3>2
      <4> HIDE DEF j
      <4>2. /\ s[j].op = "stop" /\ ~s[j].toEnd => j = 1 /\ s[j].ended = NoTimer
            /\ s[j].op = "stop" /\ s[j].ended # NoTimer => s[j].at > 0
            /\ s[j].op # "callback" => j = 1 \/ (j = a /\ s[j].ended # NoTimer)
        BY <1>n, <4>1 DEF StackOk
      <4>3. j = 1 => s[j] = Head(s) /\ s # <<>>
        BY <1>2, <4>1
      <4>4. j = 1 /\ s[j].op # "callback" => j = a /\ s[j].ended # NoTimer /\ (s[j].op = "stop" => s[j].toEnd)
        BY <1>n, <4>3 DEF CanCall
      <4> QED BY <1>2, <4>1, <4>2, <4>4
    <3> QED BY <3>1, <3>2
  <2>2. StackOk(r)
    BY <1>3, <1>5, <2>1 DEF StackOk
  <2>3. ASSUME NEW x \in EndedIn(r) PROVE x \in EndedIn(s)
    <3>1. PICK i \in DOMAIN r : r[i].op # "callback" /\ x = r[i].ended /\ x # NoTimer
      BY <2>3 DEF EndedIn
    <3>2. ~(i <= b)
      <4> SUFFICES ASSUME i <= b PROVE FALSE
        OBVIOUS
      <4>1. i \in 1..b /\ r[i] = back[i]
        BY <1>2, <3>1
      <4> QED BY <1>1, <3>1, <4>1
    <3> DEFINE j == i - b
    <3>3. j \in DOMAIN s /\ r[i] = s[j]
      BY <1>2, <3>1, <3>2
    <3> QED BY <3>1, <3>3 DEF EndedIn
  <2>4. ASSUME NEW x \in EndedIn(s) PROVE x \in EndedIn(r)
    <3>1. PICK j \in DOMAIN s : s[j].op # "callback" /\ x = s[j].ended /\ x # NoTimer
      BY <2>4 DEF EndedIn
    <3> DEFINE i == j + b
    <3>2. i \in 1..a + b /\ ~(i <= b) /\ i - b = j
      BY <1>2, <3>1
    <3>3. i \in DOMAIN r /\ r[i] = s[j]
      BY <1>2, <3>2
    <3> QED BY <3>1, <3>3 DEF EndedIn
  <2> QED BY <1>2, <1>3, <1>5, <2>2, <2>3, <2>4 DEF Called, CanCall
<1>6. Called(s, r)
  BY <1>n, <1>4, <1>5
<1> QED BY <1>6 DEF r

\* What a loop or a callback leaves on the stack when it returns.
LEMMA ReturnsTo ==
  ASSUME NEW r \in Seq(FxFrames), r # <<>>, StackOk(r)
  PROVE  /\ StackOk(Tail(r)) /\ Tail(r) \in Seq(FxFrames)
         /\ EndedIn(r) = EndsOf(Head(r)) \cup EndedIn(Tail(r))
         /\ Head(r).op = "callback" \/ (Head(r).op = "stop" /\ ~Head(r).toEnd)
               => CanCall(Tail(r)) /\ EndsOf(Head(r)) = {}
         /\ ~(Head(r).op = "callback" \/ (Head(r).op = "stop" /\ ~Head(r).toEnd))
               => Len(r) = 1 /\ Tail(r) = <<>>
<1> DEFINE f == Head(r)
           s == Tail(r)
<1>1. /\ OneMore(f, s, r) /\ f \in FxFrames /\ s \in Seq(FxFrames) /\ f = r[1]
      /\ Len(r) \in Nat \ {0}
  BY OneLess
<1> HIDE DEF f, s
<1>2. /\ Len(s) \in Nat /\ Len(r) = Len(s) + 1 /\ DOMAIN r = 1..Len(s) + 1 /\ DOMAIN s = 1..Len(s)
      /\ r[1] = f /\ \A i \in 1..Len(s) : r[i + 1] = s[i]
  BY <1>1 DEF OneMore
<1>3. \A i \in DOMAIN s : /\ s[i].op = "stop" => s[i].toEnd
                          /\ s[i].op = "stop" /\ s[i].ended # NoTimer => s[i].at > 0
                          /\ s[i].op # "callback" => i = Len(s) /\ s[i].ended # NoTimer
  <2> SUFFICES ASSUME NEW i \in DOMAIN s
               PROVE  /\ s[i].op = "stop" => s[i].toEnd
                      /\ s[i].op = "stop" /\ s[i].ended # NoTimer => s[i].at > 0
                      /\ s[i].op # "callback" => i = Len(s) /\ s[i].ended # NoTimer
    OBVIOUS
  <2> DEFINE j == i + 1
  <2>1. j \in DOMAIN r /\ j # 1 /\ r[j] = s[i] /\ i \in Nat
    BY <1>2
  <2>2. j = Len(r) => i = Len(s)
    BY <1>2, <2>1
  <2> HIDE DEF j
  <2>3. /\ r[j].op = "stop" /\ ~r[j].toEnd => j = 1 /\ r[j].ended = NoTimer
        /\ r[j].op = "stop" /\ r[j].ended # NoTimer => r[j].at > 0
        /\ r[j].op # "callback" => j = 1 \/ (j = Len(r) /\ r[j].ended # NoTimer)
    BY <2>1 DEF StackOk
  <2> QED BY <2>1, <2>2, <2>3
<1>4. StackOk(s)
  <2>1. Len(s) > 1 => 1 \in DOMAIN s /\ Len(s) # 1
    BY <1>2
  <2> QED BY <1>3, <2>1 DEF StackOk
<1>5. CanCall(s)
  <2> SUFFICES ASSUME s # <<>> PROVE \/ Head(s).op = "callback"
                                     \/ /\ Len(s) = 1 /\ Head(s).ended # NoTimer
                                        /\ Head(s).op = "stop" => Head(s).toEnd
    BY DEF CanCall
  <2>1. 1 \in DOMAIN s /\ Head(s) = s[1]
    BY <1>1, <1>2
  <2> QED BY <1>3, <2>1
<1>6. EndedIn(r) = EndsOf(f) \cup EndedIn(s)
  BY <1>1, EndedMore
<1>7. f.op \in {"tick", "stop", "callback"} /\ 1 \in DOMAIN r
  BY <1>1, <1>2, FrameKinds
<1>8. f.op = "callback" \/ (f.op = "stop" /\ ~f.toEnd) => EndsOf(f) = {}
  BY <1>2, <1>7 DEF StackOk, EndsOf
<1>9. ~(f.op = "callback" \/ (f.op = "stop" /\ ~f.toEnd)) => Len(r) = 1 /\ s = <<>>
  <2> SUFFICES ASSUME ~(f.op = "callback" \/ (f.op = "stop" /\ ~f.toEnd)) PROVE Len(r) = 1 /\ s = <<>>
    OBVIOUS
  <2>1. ~(Len(r) > 1)
    BY <1>2, <1>7 DEF StackOk
  <2>2. Len(s) = 0 /\ Len(r) = 1
    BY <1>2, <2>1
  <2> QED BY <1>1, <2>2
<1> QED BY <1>1, <1>4, <1>5, <1>6, <1>8, <1>9 DEF f, s

\* A frame that may stand on others.
MayStand(f, s) ==
    \/ CanCall(s) /\ f.op = "callback"
    \/ CanCall(s) /\ f.op = "stop" /\ ~f.toEnd /\ f.ended = NoTimer
    \/ s = <<>> /\ f.op = "tick"
    \/ s = <<>> /\ f.op = "stop" /\ f.toEnd /\ (f.ended # NoTimer => f.at > 0)
Stands(f, s, r) ==
    /\ r \in Seq(FxFrames) /\ r # <<>> /\ Head(r) = f /\ Tail(r) = s /\ Len(r) = Len(s) + 1
    /\ StackOk(r) /\ EndedIn(r) = EndsOf(f) \cup EndedIn(s)
    /\ f.op = "callback" => CanCall(r)

LEMMA FrameStands ==
  ASSUME NEW f \in FxFrames, NEW s \in Seq(FxFrames), StackOk(s), MayStand(f, s)
  PROVE  Stands(f, s, <<f>> \o s)
<1> DEFINE r == <<f>> \o s
<1>1. OneMore(f, s, r)
  BY OneMoreIs
<1> HIDE DEF r
<1>2. EndedIn(r) = EndsOf(f) \cup EndedIn(s)
  BY <1>1, EndedMore
<1>3. /\ r \in Seq(FxFrames) /\ r # <<>> /\ Head(r) = f /\ Tail(r) = s
      /\ Len(s) \in Nat /\ Len(r) = Len(s) + 1 /\ DOMAIN r = 1..Len(s) + 1 /\ DOMAIN s = 1..Len(s)
      /\ r[1] = f /\ \A i \in 1..Len(s) : r[i + 1] = s[i]
  BY <1>1 DEF OneMore
<1>4. s # <<>> => Head(s) = s[1]
  OBVIOUS
<1>5. ASSUME NEW i \in DOMAIN r
      PROVE  /\ r[i].op = "stop" /\ ~r[i].toEnd => i = 1 /\ r[i].ended = NoTimer
             /\ r[i].op = "stop" /\ r[i].ended # NoTimer => r[i].at > 0
             /\ r[i].op # "callback" => i = 1 \/ (i = Len(r) /\ r[i].ended # NoTimer)
  <2>1. CASE i = 1
    BY <1>3, <2>1 DEF MayStand
  <2>2. CASE i # 1
    <3> DEFINE j == i - 1
    <3>1. j \in DOMAIN s /\ r[i] = s[j] /\ i = j + 1 /\ s # <<>>
      <4>1. j \in 1..Len(s) /\ i = j + 1
        BY <1>3, <1>5, <2>2
      <4> QED BY <1>3, <4>1
    <3> HIDE DEF j
    <3>2. /\ s[j].op = "stop" /\ ~s[j].toEnd => j = 1 /\ s[j].ended = NoTimer
          /\ s[j].op = "stop" /\ s[j].ended # NoTimer => s[j].at > 0
          /\ s[j].op # "callback" => j = 1 \/ (j = Len(s) /\ s[j].ended # NoTimer)
      BY <3>1 DEF StackOk
    <3>3. CanCall(s)
      BY <3>1 DEF MayStand
    <3>4. j = 1 /\ s[j].op # "callback" =>
             j = Len(s) /\ s[j].ended # NoTimer /\ (s[j].op = "stop" => s[j].toEnd)
      BY <1>4, <3>1, <3>3 DEF CanCall
    <3> QED BY <1>3, <3>1, <3>2, <3>4
  <2> QED BY <2>1, <2>2
<1>6. Len(r) > 1 /\ r[1].op # "callback" => r[1].op = "stop" /\ ~r[1].toEnd
  <2>1. Len(r) > 1 => s # <<>>
    BY <1>3
  <2> QED BY <1>3, <2>1 DEF MayStand
<1>7. StackOk(r)
  BY <1>5, <1>6 DEF StackOk
<1>8. f.op = "callback" => CanCall(r)
  BY <1>3 DEF CanCall
<1> QED BY <1>2, <1>3, <1>7, <1>8 DEF Stands, r

LEMMA EmptyStack == StackOk(<<>>) /\ CanCall(<<>>) /\ EndedIn(<<>>) = {} /\ <<>> \in Seq(FxFrames)
BY DEF StackOk, CanCall, EndedIn

-----------------------------------------------------------------------------
(* What dequeue keeps.                                                     *)

\* The parts of a state that say what runs.
SameRuns(s, r) == r.timers = s.timers /\ r.waiting = s.waiting /\ r.left = s.left

LEMMA SameForAll ==
  ASSUME NEW s, NEW r, SameRuns(s, r), NEW ended, NEW f, r.queue[f] = s.queue[f]
  PROVE  LikeFor(s, r, ended, f)
BY DEF SameRuns, LikeFor, RunsNow, TimersLive, TimersWhole, Ahead

LEMMA LikeCalm ==
  ASSUME NEW s, NEW r, NEW ended, NEW f, LikeFor(s, r, ended, f), InStep(s, ended, f)
  PROVE  InStep(r, ended, f)
BY DEF LikeFor, InStep, TellsTruth, HasSentinel

\* Nothing is left of an element under way that a callback may look at.
LEMMA CalmFits ==
  ASSUME NEW s, CanCall(s.frames), NEW ended, NEW f, InStep(s, ended, f)
  PROVE  FxFits(s, ended, f)
BY DEF CanCall, FxFits, Stops

\* The state of a queue whose next function is called.
MayDequeue(s, e, last, moved) ==
    /\ IdsFit(s, EndedIn(s.frames), last) /\ StackOk(s.frames) /\ CanCall(s.frames)
    /\ \A f \in FxElements \ {e} : Guarded(s, f)
    /\ \A f \in FxElements \ moved : f # e => InStep(s, EndedIn(s.frames), f)
    /\ e \notin moved => /\ RunsNow(s, e) = {} /\ TimersLive(s, EndedIn(s.frames), e)
                         /\ TimersWhole(s, e)

LEMMA DequeueKeeps ==
  ASSUME NEW s, NEW e \in FxElements, NEW last, NEW moved, MayDequeue(s, e, last, moved)
  PROVE  FxFitsAll(Dequeued(s, e), last, moved)
<1> DEFINE r == Dequeued(s, e)
           ended == EndedIn(s.frames)
<1>1. /\ IdsFit(s, ended, last) /\ s \in FxStates /\ StackOk(s.frames) /\ CanCall(s.frames)
      /\ s.frames \in Seq(FxFrames)
  BY DEF MayDequeue, IdsFit, FxStates
<1>2. ItemsOf(s, e) \in Seq(FxItems) /\ OneEach(ItemsOf(s, e))
  BY <1>1 DEF IdsFit, ItemsFit
<1>3. Dequeues(s, e, r)
  BY <1>1, <1>2, DequeuedIs
<1> HIDE DEF r
<1>4. PICK back \in Seq(CallFrames) : r.frames = back \o s.frames
  BY <1>3 DEF Dequeues
<1>5. Called(s.frames, r.frames)
  BY <1>1, <1>4, CalledOn
<1>6. StackOk(r.frames) /\ CanCall(r.frames) /\ EndedIn(r.frames) = ended
  BY <1>5 DEF Called
<1> HIDE DEF ended
<1>7. IdsFit(r, ended, last)
  BY <1>1, <1>3, DequeueNumbers
<1>8. ASSUME NEW f \in FxElements PROVE Guarded(r, f)
  <2>1. CASE f = e
    BY <1>3, <2>1 DEF Dequeues, EmptiedAt, TakenAt, HasSentinel, Guarded
  <2>2. CASE f # e
    <3>1. Guarded(s, f)
      BY <2>2 DEF MayDequeue
    <3> QED BY <1>3, <2>2, <3>1 DEF Dequeues, Guarded
  <2> QED BY <2>1, <2>2
<1>9. ASSUME NEW f \in FxElements \ moved PROVE FxFits(r, ended, f)
  <2>1. InStep(r, ended, f)
    <3>1. CASE f = e
      <4>1. RunsNow(s, e) = {} /\ TimersLive(s, ended, e) /\ TimersWhole(s, e)
        BY <1>9, <3>1 DEF MayDequeue, ended
      <4> QED BY <1>1, <1>3, <3>1, <4>1, DequeueCalms
    <3>2. CASE f # e
      <4>1. InStep(s, ended, f)
        BY <1>9, <3>2 DEF MayDequeue, ended
      <4>2. LikeFor(s, r, ended, f)
        BY <1>1, <1>3, <1>9, <3>2, DequeueOthers
      <4> QED BY <4>1, <4>2, LikeCalm
    <3> QED BY <3>1, <3>2
  <2> QED BY <1>6, <2>1, CalmFits
<1>10. FxFitsAll(r, last, moved)
  BY <1>6, <1>7, <1>8, <1>9 DEF FxFitsAll
<1> QED BY <1>10 DEF r

-----------------------------------------------------------------------------
(* The steps that call no function of a queue.                             *)

\* Queues, fx objects and delays only go.
Shrinks(s, r) ==
    /\ r \in FxStates /\ FewerItems(s, r) /\ TimersFit(r.timers)
    /\ Range(r.timers) \subseteq Range(s.timers) /\ r.waiting \subseteq s.waiting

LEMMA FewerNumbers ==
  ASSUME NEW s, NEW ended, NEW last, IdsFit(s, ended, last), NEW r, Shrinks(s, r),
         NEW ends, ends \subseteq ended \cup Range(s.timers)
  PROVE  IdsFit(r, ends, last)
<1>1. s \in FxStates /\ ended \subseteq FxTimers /\ ItemsFit(s) /\ NumbersFit(s, ended, last)
  BY DEF IdsFit
<1>2. Range(s.timers) \subseteq FxTimers
  <2>1. s.timers \in Seq(FxTimers)
    BY <1>1 DEF FxStates
  <2> QED BY <2>1 DEF Range
<1>3. /\ \A f \in FxElements : Range(ItemsOf(r, f)) \subseteq Range(ItemsOf(s, f))
      /\ Range(r.timers) \subseteq Range(s.timers) /\ r.waiting \subseteq s.waiting
  BY DEF Shrinks, FewerItems
<1>4. NumbersFit(r, ends, last)
  BY <1>1, <1>3 DEF NumbersFit
<1> QED BY <1>1, <1>2, <1>4, FewerItemsFit DEF IdsFit, Shrinks

LEMMA SameItems ==
  ASSUME NEW s, ItemsFit(s), NEW r, r.queue = s.queue
  PROVE  FewerItems(s, r)
BY DEF ItemsFit, FewerItems, ItemsOf

\* Another stack.
OnlyFrames(s, r, frames) ==
    r \in FxStates /\ r.queue = s.queue /\ SameRuns(s, r) /\ r.frames = frames

LEMMA WithFrames ==
  ASSUME NEW s \in FxStates, NEW frames \in Seq(FxFrames)
  PROVE  OnlyFrames(s, [s EXCEPT !.frames = frames], frames)
BY DEF OnlyFrames, SameRuns, FxStates

LEMMA OnlyFramesFit ==
  ASSUME NEW s, NEW ended, NEW last, IdsFit(s, ended, last), NEW r, NEW frames, OnlyFrames(s, r, frames),
         NEW ends, ends \subseteq ended \cup Range(s.timers)
  PROVE  /\ IdsFit(r, ends, last)
         /\ \A f \in FxElements : Guarded(r, f) <=> Guarded(s, f)
         /\ \A f \in FxElements : LikeFor(s, r, ends, f)
<1>1. ItemsFit(s) /\ TimersFit(s.timers)
  BY DEF IdsFit
<1>2. r \in FxStates /\ r.queue = s.queue /\ SameRuns(s, r)
  BY DEF OnlyFrames
<1>3. r.timers = s.timers /\ r.waiting = s.waiting
  BY <1>2 DEF SameRuns
<1>4. Shrinks(s, r)
  BY <1>1, <1>2, <1>3, SameItems DEF Shrinks
<1>5. \A f \in FxElements : Guarded(r, f) <=> Guarded(s, f)
  BY <1>2 DEF Guarded
<1> QED BY <1>2, <1>4, <1>5, FewerNumbers, SameForAll

\* Who is calm.
LEMMA WhoIsCalm ==
  ASSUME NEW s, NEW last, NEW moved, FxFitsAll(s, last, moved), NEW f \in FxElements \ moved,
         s.frames # <<>> => Head(s.frames).op # "stop" \/ Head(s.frames).elem # f
  PROVE  InStep(s, EndedIn(s.frames), f)
BY DEF FxFitsAll, FxFits, Stops

LEMMA WhoFits ==
  ASSUME NEW s, NEW ended, NEW f, InStep(s, ended, f),
         s.frames # <<>> => \/ Head(s.frames).op # "stop" \/ Head(s.frames).elem # f
                            \/ Head(s.frames).toEnd
  PROVE  FxFits(s, ended, f)
BY DEF FxFits, Stops

LEMMA SameAsRunning ==
  ASSUME NEW s, NEW e
  PROVE  RunningIn(s, e) = RunsNow(s, e)
BY DEF RunningIn, RunsNow, Range

LEMMA FxInvInit == FxInit => FxInv
<1> SUFFICES ASSUME FxInit PROVE FxInv
  OBVIOUS
<1>1. /\ fx.queue = [e \in FxElements |-> <<>>] /\ fx.shown \in [FxElements -> BOOLEAN]
      /\ fx.timers = <<>> /\ fx.ticking = FALSE /\ fx.waiting = {}
      /\ fx.left = [i \in Ids |-> {}] /\ fx.frames = <<>>
      /\ calls = 0 /\ disturbed = {}
      /\ fx = [queue |-> fx.queue, shown |-> fx.shown, timers |-> fx.timers, ticking |-> fx.ticking,
               waiting |-> fx.waiting, left |-> fx.left, frames |-> fx.frames]
  BY DEF FxInit
<1>2. fx.queue \in [FxElements -> Seq(FxItems \cup {Sentinel})] /\ fx.left \in [Ids -> SUBSET (1..Props)]
      /\ fx.timers \in Seq(FxTimers) /\ fx.frames \in Seq(FxFrames)
  <2>1. <<>> \in Seq(FxItems \cup {Sentinel}) /\ <<>> \in Seq(FxTimers) /\ <<>> \in Seq(FxFrames)
    OBVIOUS
  <2>2. {} \in SUBSET (1..Props)
    OBVIOUS
  <2> QED BY <1>1, <2>1, <2>2
<1>3. fx \in FxStates
  BY <1>1, <1>2 DEF FxStates
<1>4. \A e \in FxElements : fx.queue[e] = <<>> /\ ItemsOf(fx, e) = <<>>
  BY <1>1, NoItems DEF ItemsOf
<1>5. Range(fx.timers) = {}
  BY <1>1 DEF Range
<1>6. TimersFit(fx.timers)
  BY <1>1, <1>5 DEF TimersFit, IsInjective
<1>7. ItemsFit(fx)
  BY <1>4, NoItems DEF ItemsFit
<1>8. NumbersFit(fx, {}, calls)
  BY <1>1, <1>4, <1>5, NoItems DEF NumbersFit
<1>9. IdsFit(fx, {}, calls)
  BY <1>3, <1>6, <1>7, <1>8 DEF IdsFit
<1>10. ASSUME NEW e \in FxElements PROVE Guarded(fx, e) /\ FxFits(fx, {}, e)
  <2>1. RunsNow(fx, e) = {}
    BY <1>1, <1>5 DEF RunsNow
  <2>2. ~HasSentinel(fx, e) /\ Guarded(fx, e)
    BY <1>4 DEF HasSentinel, Guarded
  <2>3. InStep(fx, {}, e)
    BY <1>5, <2>1, <2>2 DEF InStep, TimersLive, TimersWhole, TellsTruth
  <2> QED BY <1>1, <2>2, <2>3, WhoFits
<1>11. FxFitsAll(fx, calls, disturbed)
  BY <1>1, <1>9, <1>10, EmptyStack DEF FxFitsAll
<1>12. calls \in 0..MaxCalls
  BY <1>1, EffectsAssumption
<1> QED BY <1>1, <1>11, <1>12 DEF FxInv

LEMMA FxInvParts ==
  ASSUME FxInv
  PROVE  /\ calls \in 0..MaxCalls /\ disturbed \subseteq FxElements /\ FxFitsAll(fx, calls, disturbed)
         /\ IdsFit(fx, EndedIn(fx.frames), calls) /\ StackOk(fx.frames)
         /\ \A e \in FxElements : Guarded(fx, e)
         /\ fx \in FxStates /\ fx.frames \in Seq(FxFrames) /\ fx.timers \in Seq(FxTimers)
BY DEF FxInv, FxFitsAll, IdsFit, FxStates

\* A number that is not given yet will do no harm.
LEMMA EarlierNumbers ==
  ASSUME NEW s, NEW ended, NEW last \in Nat, IdsFit(s, ended, last)
  PROVE  IdsFit(s, ended, last + 1)
<1>1. s \in FxStates /\ NumbersFit(s, ended, last) /\ ItemsFit(s)
  BY DEF IdsFit
<1>2. \A t \in Range(s.timers) \cup s.waiting \cup ended : t.id \in Nat
  <2>1. Range(s.timers) \subseteq FxTimers /\ s.waiting \subseteq FxDelays /\ ended \subseteq FxTimers
    <3>1. s.timers \in Seq(FxTimers) /\ s.waiting \subseteq FxDelays
      BY <1>1 DEF FxStates
    <3> QED BY <3>1 DEF Range, IdsFit
  <2> QED BY <2>1, EffectsAssumption DEF FxTimers, FxDelays, Ids
<1>3. \A e \in FxElements : \A x \in Range(ItemsOf(s, e)) : x.id \in Nat
  <2>1. \A e \in FxElements : Range(ItemsOf(s, e)) \subseteq FxItems
    BY <1>1 DEF ItemsFit, Range
  <2> QED BY <2>1, EffectsAssumption DEF FxItems, Ids
<1>4. NumbersFit(s, ended, last + 1)
  BY <1>1, <1>2, <1>3 DEF NumbersFit
<1> QED BY <1>4 DEF IdsFit

\* When the page or the browser acts, nothing is half finished.
LEMMA IdleIsCalm ==
  ASSUME FxInv, FxIdle
  PROVE  /\ fx.frames = <<>> /\ EndedIn(fx.frames) = {} /\ IdsFit(fx, {}, calls)
         /\ \A f \in FxElements \ disturbed : InStep(fx, {}, f)
<1>1. fx.frames = <<>> /\ EndedIn(fx.frames) = {}
  BY EmptyStack DEF FxIdle
<1> QED BY <1>1, FxInvParts, WhoIsCalm

LEMMA KeptByShowOrHide ==
  ASSUME FxInv, NEW e \in FxElements, NEW seen \in BOOLEAN, ShowOrHide(e, seen)
  PROVE  FxInv'
<1>1. /\ fx.frames = <<>> /\ EndedIn(fx.frames) = {} /\ IdsFit(fx, {}, calls) /\ fx \in FxStates
      /\ \A f \in FxElements \ disturbed : InStep(fx, {}, f)
      /\ \A f \in FxElements : Guarded(fx, f)
      /\ calls \in 0..MaxCalls /\ disturbed \subseteq FxElements
  BY FxInvParts, IdleIsCalm DEF ShowOrHide, Call
<1>2. calls' = calls + 1 /\ calls < MaxCalls /\ disturbed' = disturbed
      /\ fx' = [fx EXCEPT !.shown[e] = seen]
  BY DEF ShowOrHide, Call
<1>3. fx' \in FxStates /\ fx'.queue = fx.queue /\ SameRuns(fx, fx') /\ fx'.frames = <<>>
  BY <1>1, <1>2 DEF FxStates, SameRuns
<1>4. OnlyFrames(fx, fx', <<>>)
  BY <1>3 DEF OnlyFrames
<1>5. IdsFit(fx', {}, calls) /\ \A f \in FxElements : Guarded(fx', f) /\ LikeFor(fx, fx', {}, f)
  BY <1>1, <1>4, OnlyFramesFit
<1>6. IdsFit(fx', {}, calls')
  BY <1>1, <1>2, <1>5, EarlierNumbers
<1>7. \A f \in FxElements \ disturbed : FxFits(fx', {}, f)
  BY <1>1, <1>3, <1>5, LikeCalm, WhoFits
<1>8. FxFitsAll(fx', calls', disturbed')
  BY <1>2, <1>3, <1>5, <1>6, <1>7, EmptyStack DEF FxFitsAll
<1>9. calls' \in 0..MaxCalls
  BY <1>1, <1>2, EffectsAssumption
<1> QED BY <1>1, <1>2, <1>8, <1>9 DEF FxInv

\* A step that only has another stack.
LEMMA KeptByFrames ==
  ASSUME FxInv, NEW frames, OnlyFrames(fx, fx', frames), StackOk(frames),
         EndedIn(frames) \subseteq EndedIn(fx.frames) \cup Range(fx.timers), calls' = calls,
         disturbed' \subseteq FxElements,
         \A f \in FxElements \ disturbed' : FxFits(fx', EndedIn(frames), f)
  PROVE  FxInv'
<1>1. IdsFit(fx', EndedIn(frames), calls) /\ \A f \in FxElements : Guarded(fx', f)
  BY FxInvParts, OnlyFramesFit
<1>2. fx'.frames = frames
  BY DEF OnlyFrames
<1>3. FxFitsAll(fx', calls', disturbed')
  BY <1>1, <1>2 DEF FxFitsAll
<1> QED BY <1>3, FxInvParts DEF FxInv

LEMMA KeptByTick ==
  ASSUME FxInv, Tick
  PROVE  FxInv'
<1> DEFINE f == [op |-> "tick", at |-> 1, ended |-> NoTimer]
<1>1. /\ fx.frames = <<>> /\ EndedIn(fx.frames) = {} /\ fx \in FxStates
      /\ disturbed \subseteq FxElements /\ IdsFit(fx, {}, calls)
      /\ \A g \in FxElements \ disturbed : InStep(fx, {}, g)
  BY FxInvParts, IdleIsCalm DEF Tick
<1>2. fx' = [fx EXCEPT !.frames = <<f>>] /\ calls' = calls /\ disturbed' = disturbed
  BY DEF Tick
<1>3. f \in FxFrames /\ f.op = "tick" /\ EndsOf(f) = {}
  BY DEF FxFrames, TickFrames, EndsOf
<1> HIDE DEF f
<1>4. <<f>> \o <<>> = <<f>>
  OBVIOUS
<1>5. Stands(f, <<>>, <<f>>)
  BY <1>3, <1>4, EmptyStack, FrameStands DEF MayStand
<1>6. /\ <<f>> \in Seq(FxFrames) /\ StackOk(<<f>>) /\ EndedIn(<<f>>) = {} /\ Head(<<f>>) = f
  BY <1>3, <1>5, EmptyStack DEF Stands
<1>7. OnlyFrames(fx, fx', <<f>>) /\ fx'.frames = <<f>>
  BY <1>1, <1>2, <1>6, WithFrames DEF OnlyFrames
<1>8. \A g \in FxElements \ disturbed : FxFits(fx', {}, g)
  <2>1. \A g \in FxElements : LikeFor(fx, fx', {}, g)
    BY <1>1, <1>7, OnlyFramesFit
  <2>2. \A g \in FxElements \ disturbed : InStep(fx', {}, g)
    BY <1>1, <2>1, LikeCalm
  <2> QED BY <1>3, <1>6, <1>7, <2>2, WhoFits
<1> DEFINE stack == <<f>>
<1>9. StackOk(stack) /\ EndedIn(stack) = {} /\ OnlyFrames(fx, fx', stack)
  BY <1>6, <1>7
<1> HIDE DEF stack
<1> QED BY <1>1, <1>2, <1>8, <1>9, KeptByFrames

\* The loop of tick is the only thing under way.
LEMMA TickIsAlone ==
  ASSUME FxInv, TopFrame("tick")
  PROVE  /\ fx.frames = <<Frame>> /\ Tail(fx.frames) = <<>> /\ Frame \in TickFrames
         /\ EndedIn(fx.frames) = EndsOf(Frame)
         /\ \A f \in FxElements \ disturbed : InStep(fx, EndsOf(Frame), f)
<1>1. fx.frames # <<>> /\ Frame = Head(fx.frames) /\ Frame.op = "tick" /\ fx.frames \in Seq(FxFrames)
      /\ StackOk(fx.frames)
  BY FxInvParts DEF TopFrame, Frame
<1>2. /\ EndedIn(fx.frames) = EndsOf(Frame) \cup EndedIn(Tail(fx.frames))
      /\ Len(fx.frames) = 1 /\ Tail(fx.frames) = <<>>
  BY <1>1, ReturnsTo
<1>3. fx.frames = <<Frame>>
  BY <1>1, <1>2
<1>4. Frame \in FxFrames
  BY <1>1, OneLess
<1>5. Frame \in TickFrames
  BY <1>1, <1>4, FrameKinds
<1>6. EndedIn(fx.frames) = EndsOf(Frame)
  BY <1>2, EmptyStack
<1>7. \A f \in FxElements \ disturbed : InStep(fx, EndsOf(Frame), f)
  BY <1>1, <1>6, FxInvParts, WhoIsCalm
<1> QED BY <1>2, <1>3, <1>5, <1>6, <1>7

\* The loop of tick goes on or returns.
LEMMA KeptByTickTurn ==
  ASSUME FxInv, TopFrame("tick"), Frame.ended = NoTimer, NEW frames, OnlyFrames(fx, fx', frames),
         StackOk(frames), EndedIn(frames) = {}, calls' = calls, disturbed' = disturbed,
         frames # <<>> => Head(frames).op # "stop"
  PROVE  FxInv'
<1>1. /\ EndsOf(Frame) = {} /\ EndedIn(fx.frames) = {} /\ disturbed \subseteq FxElements
      /\ IdsFit(fx, {}, calls)
      /\ \A f \in FxElements \ disturbed : InStep(fx, {}, f)
  BY TickIsAlone, FxInvParts DEF EndsOf
<1>2. \A f \in FxElements : LikeFor(fx, fx', {}, f)
  BY <1>1, FxInvParts, OnlyFramesFit
<1>3. \A f \in FxElements \ disturbed : InStep(fx', {}, f)
  BY <1>1, <1>2, LikeCalm
<1>4. \A f \in FxElements \ disturbed : FxFits(fx', {}, f)
  BY <1>3, WhoFits DEF OnlyFrames
<1> QED BY <1>1, <1>4, KeptByFrames

LEMMA KeptByTickStep ==
  ASSUME FxInv, TickStep
  PROVE  FxInv'
<1> DEFINE f == [Frame EXCEPT !.at = @ + 1]
<1>1. TopFrame("tick") /\ Frame.ended = NoTimer /\ fx' = FrameNow(f)
      /\ calls' = calls /\ disturbed' = disturbed
  BY DEF TickStep, TickRuns
<1>2. Frame \in TickFrames /\ Tail(fx.frames) = <<>> /\ fx \in FxStates
  BY <1>1, TickIsAlone, FxInvParts
<1>3. f \in FxFrames /\ f.op = "tick" /\ EndsOf(f) = {}
  BY <1>1, <1>2 DEF FxFrames, TickFrames, EndsOf
<1> HIDE DEF f
<1>4. <<f>> \o <<>> = <<f>> /\ Head(<<f>>) = f
  OBVIOUS
<1>5. Stands(f, <<>>, <<f>>)
  BY <1>3, <1>4, EmptyStack, FrameStands DEF MayStand
<1>6. <<f>> \in Seq(FxFrames) /\ StackOk(<<f>>) /\ EndedIn(<<f>>) = {}
  BY <1>3, <1>5, EmptyStack DEF Stands
<1>7. fx' = [fx EXCEPT !.frames = <<f>>]
  BY <1>1, <1>2, <1>4 DEF FrameNow
<1>8. OnlyFrames(fx, fx', <<f>>)
  BY <1>2, <1>6, <1>7, WithFrames
<1> QED BY <1>1, <1>3, <1>4, <1>6, <1>8, KeptByTickTurn

LEMMA KeptByTickReturns ==
  ASSUME FxInv, TickReturns
  PROVE  FxInv'
<1>1. TopFrame("tick") /\ Frame.ended = NoTimer /\ calls' = calls /\ disturbed' = disturbed
      /\ fx' = Return([fx EXCEPT !.ticking = fx.timers # <<>>])
  BY DEF TickReturns
<1>2. Tail(fx.frames) = <<>> /\ fx \in FxStates
  BY <1>1, TickIsAlone, FxInvParts
<1> DEFINE rings == fx.timers # <<>>
<1>3. rings \in BOOLEAN
  OBVIOUS
<1>4. fx' = [fx EXCEPT !.ticking = rings, !.frames = <<>>]
  BY <1>1, <1>2 DEF Return, FxStates
<1> HIDE DEF rings
<1>5. OnlyFrames(fx, fx', <<>>)
  BY <1>2, <1>3, <1>4, EmptyStack DEF OnlyFrames, SameRuns, FxStates
<1> QED BY <1>1, <1>5, EmptyStack, KeptByTickTurn

LEMMA KeptByStopRaises ==
  ASSUME FxInv, StopRaises
  PROVE  FxInv'
<1>1. fx' = [fx EXCEPT !.frames = <<>>] /\ disturbed' = FxElements /\ calls' = calls
  BY DEF StopRaises
<1>2. OnlyFrames(fx, fx', <<>>)
  BY <1>1, FxInvParts, EmptyStack, WithFrames
<1> QED BY <1>1, <1>2, EmptyStack, KeptByFrames

\* What a callback was called on.
LEMMA CallbackIsOn ==
  ASSUME FxInv, TopFrame("callback")
  PROVE  /\ Tail(fx.frames) \in Seq(FxFrames) /\ StackOk(Tail(fx.frames)) /\ CanCall(Tail(fx.frames))
         /\ EndedIn(Tail(fx.frames)) = EndedIn(fx.frames)
         /\ \A f \in FxElements \ disturbed : InStep(fx, EndedIn(fx.frames), f)
<1>1. fx.frames # <<>> /\ Frame = Head(fx.frames) /\ Frame.op = "callback"
      /\ fx.frames \in Seq(FxFrames) /\ StackOk(fx.frames)
  BY FxInvParts DEF TopFrame, Frame
<1>2. /\ StackOk(Tail(fx.frames)) /\ Tail(fx.frames) \in Seq(FxFrames) /\ CanCall(Tail(fx.frames))
      /\ EndedIn(fx.frames) = EndsOf(Frame) \cup EndedIn(Tail(fx.frames)) /\ EndsOf(Frame) = {}
  BY <1>1, ReturnsTo
<1>3. \A f \in FxElements \ disturbed : InStep(fx, EndedIn(fx.frames), f)
  BY <1>1, FxInvParts, WhoIsCalm
<1> QED BY <1>2, <1>3

\* The loop of a stop of the page or of a callback.
LEMMA StopFrameIs ==
  ASSUME FxInv, NEW e \in FxElements, NEW toEnd \in BOOLEAN
  PROVE  /\ StopFrame(fx, e, toEnd) \in FxFrames
         /\ StopFrame(fx, e, toEnd).op = "stop" /\ StopFrame(fx, e, toEnd).elem = e
         /\ StopFrame(fx, e, toEnd).toEnd = toEnd /\ StopFrame(fx, e, toEnd).at = Len(fx.timers)
         /\ StopFrame(fx, e, toEnd).ended = NoTimer /\ EndsOf(StopFrame(fx, e, toEnd)) = {}
<1>1. Len(fx.timers) \in Nat
  BY FxInvParts
<1> QED BY <1>1 DEF StopFrame, FxFrames, StopFrames, EndsOf

\* The loop begins behind the last fx object.
LEMMA AllAhead ==
  ASSUME FxInv, NEW e, e \notin DelayedIn(fx)
  PROVE  Ahead(fx, e, Len(fx.timers))
BY FxInvParts DEF Ahead, DelayedIn

LEMMA KeptByCallbackStops ==
  ASSUME FxInv, NEW e \in FxElements, CallbackStops(e)
  PROVE  FxInv'
<1> DEFINE f == StopFrame(fx, e, FALSE)
           rest == Tail(fx.frames)
           stack == <<f>> \o rest
           ended == EndedIn(fx.frames)
<1>1. /\ TopFrame("callback") /\ fx' = FrameNow(f) /\ calls' = calls
      /\ disturbed' = IF e \in DelayedIn(fx) THEN disturbed \cup {e} ELSE disturbed
  BY DEF CallbackStops
<1>2. /\ f \in FxFrames /\ f.op = "stop" /\ f.elem = e /\ f.toEnd = FALSE /\ f.at = Len(fx.timers)
      /\ f.ended = NoTimer /\ EndsOf(f) = {}
  BY StopFrameIs
<1>3. /\ rest \in Seq(FxFrames) /\ StackOk(rest) /\ CanCall(rest) /\ EndedIn(rest) = ended
      /\ \A g \in FxElements \ disturbed : InStep(fx, ended, g)
  BY <1>1, CallbackIsOn
<1>4. fx' = [fx EXCEPT !.frames = stack]
  BY <1>1, FxInvParts DEF FrameNow, FxStates
<1> HIDE DEF f
<1>5. Stands(f, rest, stack)
  BY <1>2, <1>3, FrameStands DEF MayStand
<1> HIDE DEF rest, stack, ended
<1>6. stack \in Seq(FxFrames) /\ StackOk(stack) /\ EndedIn(stack) = ended /\ Head(stack) = f
  BY <1>2, <1>3, <1>5 DEF Stands
<1>7. OnlyFrames(fx, fx', stack)
  BY <1>4, <1>6, FxInvParts, WithFrames
<1>8. \A g \in FxElements : LikeFor(fx, fx', ended, g)
  BY <1>7, FxInvParts, OnlyFramesFit DEF ended
<1>9. ASSUME NEW g \in FxElements \ disturbed' PROVE FxFits(fx', ended, g)
  <2>1. g \notin disturbed /\ (g = e => e \notin DelayedIn(fx))
    BY <1>1, <1>9
  <2>2. InStep(fx, ended, g) /\ InStep(fx', ended, g)
    BY <1>3, <1>8, <2>1, LikeCalm
  <2>3. CASE g = e
    <3>1. Ahead(fx, e, Len(fx.timers)) /\ Len(fx.timers) \in Nat
      BY <2>1, <2>3, AllAhead, FxInvParts
    <3>2. Ahead(fx', e, f.at)
      BY <1>2, <1>8, <3>1 DEF LikeFor
    <3>3. fx'.frames = stack
      BY <1>7 DEF OnlyFrames
    <3>4. TimersLive(fx', ended, g)
      BY <2>2 DEF InStep
    <3>5. stack # <<>>
      BY <1>5 DEF Stands
    <3>6. Stops(fx', FALSE) /\ Head(fx'.frames) = f
      BY <1>2, <1>6, <3>3, <3>5 DEF Stops
    <3> QED BY <1>2, <2>3, <3>2, <3>4, <3>6 DEF FxFits
  <2>4. CASE g # e
    BY <1>2, <1>6, <1>7, <2>2, <2>4, WhoFits DEF OnlyFrames
  <2> QED BY <2>3, <2>4
<1>10. disturbed' \subseteq FxElements
  BY <1>1, FxInvParts
<1> QED BY <1>1, <1>6, <1>7, <1>9, <1>10, KeptByFrames DEF ended

-----------------------------------------------------------------------------
(* A queue that is emptied, and a stop of the page.                        *)

WithoutQueue(s, e, r, frames) ==
    /\ r \in FxStates /\ r.queue[e] = <<>> /\ SameRuns(s, r) /\ r.frames = frames
    /\ \A f \in FxElements \ {e} : r.queue[f] = s.queue[f]

LEMMA EmptiedQueue ==
  ASSUME NEW s \in FxStates, NEW e \in FxElements, NEW frames \in Seq(FxFrames)
  PROVE  WithoutQueue(s, e, [s EXCEPT !.queue[e] = <<>>, !.frames = frames], frames)
<1> DEFINE r == [s EXCEPT !.queue[e] = <<>>, !.frames = frames]
<1>1. StateOf(s, r, [s.queue EXCEPT ![e] = <<>>], s.shown, s.timers, s.ticking, s.waiting, s.left, frames)
  BY EmptiedState
<1> HIDE DEF r
<1>2. r \in FxStates /\ r.queue = [s.queue EXCEPT ![e] = <<>>] /\ r.timers = s.timers
      /\ r.waiting = s.waiting /\ r.left = s.left /\ r.frames = frames
  BY <1>1 DEF StateOf
<1>3. DOMAIN s.queue = FxElements
  BY DEF FxStates
<1>4. r.queue[e] = <<>> /\ \A f \in FxElements \ {e} : r.queue[f] = s.queue[f]
  BY <1>2, <1>3
<1>5. WithoutQueue(s, e, r, frames)
  BY <1>2, <1>4 DEF WithoutQueue, SameRuns
<1> QED BY <1>5 DEF r

LEMMA WithoutQueueFits ==
  ASSUME NEW s, NEW ended, NEW last, IdsFit(s, ended, last), NEW e \in FxElements, NEW r, NEW frames,
         WithoutQueue(s, e, r, frames)
  PROVE  /\ IdsFit(r, ended, last)
         /\ \A f \in FxElements : Guarded(s, f) => Guarded(r, f)
         /\ \A f \in FxElements \ {e} : LikeFor(s, r, ended, f)
<1>1. ItemsFit(s) /\ TimersFit(s.timers)
  BY DEF IdsFit
<1>2. /\ r \in FxStates /\ r.queue[e] = <<>> /\ SameRuns(s, r)
      /\ \A f \in FxElements \ {e} : r.queue[f] = s.queue[f]
  BY DEF WithoutQueue
<1>3. r.timers = s.timers /\ r.waiting = s.waiting
  BY <1>2 DEF SameRuns
<1>4. FewerItems(s, r)
  <2>1. ItemsOf(r, e) = <<>>
    BY <1>2, NoItems DEF ItemsOf
  <2>2. \A f \in FxElements \ {e} : ItemsOf(r, f) = ItemsOf(s, f)
    BY <1>2 DEF ItemsOf
  <2> QED BY <1>1, <2>1, <2>2, NoItems DEF ItemsFit, FewerItems
<1>5. Shrinks(s, r)
  BY <1>1, <1>2, <1>3, <1>4 DEF Shrinks
<1>6. \A f \in FxElements : Guarded(s, f) => Guarded(r, f)
  BY <1>2 DEF Guarded
<1> QED BY <1>2, <1>5, <1>6, FewerNumbers, SameForAll

\* What runs does not depend on the queue.
LEMMA SameWithoutQueue ==
  ASSUME NEW s, NEW r, SameRuns(s, r), NEW ended, NEW f
  PROVE  /\ RunsNow(r, f) = RunsNow(s, f)
         /\ TimersLive(r, ended, f) <=> TimersLive(s, ended, f)
         /\ TimersWhole(r, f) <=> TimersWhole(s, f)
         /\ \A at : Ahead(r, f, at) <=> Ahead(s, f, at)
BY DEF SameRuns, RunsNow, TimersLive, TimersWhole, Ahead

LEMMA KeptByClearQueue ==
  ASSUME FxInv, NEW e \in FxElements, ClearQueue(e)
  PROVE  FxInv'
<1>1. /\ fx.frames = <<>> /\ IdsFit(fx, {}, calls) /\ fx \in FxStates /\ calls \in 0..MaxCalls
      /\ disturbed \subseteq FxElements
      /\ \A f \in FxElements : Guarded(fx, f)
      /\ \A f \in FxElements \ disturbed : InStep(fx, {}, f)
  BY FxInvParts, IdleIsCalm DEF ClearQueue, Call
<1>2. /\ calls' = calls + 1 /\ calls < MaxCalls /\ fx' = [fx EXCEPT !.queue[e] = <<>>]
      /\ disturbed' = IF RunsNow(fx, e) # {} THEN disturbed \cup {e} ELSE disturbed
  BY SameAsRunning DEF ClearQueue, Call
<1>3. fx' = [fx EXCEPT !.queue[e] = <<>>, !.frames = <<>>]
  BY <1>1, <1>2 DEF FxStates
<1>4. WithoutQueue(fx, e, fx', <<>>)
  BY <1>1, <1>3, EmptyStack, EmptiedQueue
<1>5. /\ IdsFit(fx', {}, calls) /\ \A f \in FxElements : Guarded(fx', f)
  BY <1>1, <1>4, WithoutQueueFits
<1>6. \A f \in FxElements \ {e} : LikeFor(fx, fx', {}, f)
  BY <1>1, <1>4, WithoutQueueFits
<1>7. IdsFit(fx', {}, calls')
  BY <1>1, <1>2, <1>5, EarlierNumbers
<1>8. fx'.frames = <<>> /\ fx'.queue[e] = <<>> /\ SameRuns(fx, fx')
  BY <1>4 DEF WithoutQueue
<1>9. ASSUME NEW f \in FxElements \ disturbed' PROVE FxFits(fx', {}, f)
  <2>1. f \notin disturbed /\ (f = e => RunsNow(fx, e) = {})
    BY <1>2, <1>9
  <2>2. InStep(fx, {}, f)
    BY <1>1, <2>1
  <2>3. InStep(fx', {}, f)
    <3>1. CASE f = e
      <4>1. RunsNow(fx', e) = {} /\ TimersLive(fx', {}, e) /\ TimersWhole(fx', e)
        BY <1>8, <2>1, <2>2, <3>1, SameWithoutQueue DEF InStep
      <4>2. ~HasSentinel(fx', e)
        BY <1>8 DEF HasSentinel
      <4> QED BY <3>1, <4>1, <4>2 DEF InStep, TellsTruth
    <3>2. CASE f # e
      BY <1>6, <2>2, <3>2, LikeCalm
    <3> QED BY <3>1, <3>2
  <2> QED BY <1>8, <2>3, WhoFits
<1>10. FxFitsAll(fx', calls', disturbed')
  BY <1>5, <1>7, <1>8, <1>9, EmptyStack DEF FxFitsAll
<1>11. calls' \in 0..MaxCalls /\ disturbed' \subseteq FxElements
  BY <1>1, <1>2, EffectsAssumption
<1> QED BY <1>10, <1>11 DEF FxInv

LEMMA KeptByStop ==
  ASSUME FxInv, NEW e \in FxElements, NEW clear \in BOOLEAN, NEW toEnd \in BOOLEAN, Stop(e, clear, toEnd)
  PROVE  FxInv'
<1> DEFINE f == StopFrame(fx, e, toEnd)
           stack == <<f>>
<1>1. /\ fx.frames = <<>> /\ IdsFit(fx, {}, calls) /\ fx \in FxStates /\ calls \in 0..MaxCalls
      /\ disturbed \subseteq FxElements /\ EndedIn(fx.frames) = {}
      /\ \A g \in FxElements : Guarded(fx, g)
      /\ \A g \in FxElements \ disturbed : InStep(fx, {}, g)
  BY FxInvParts, IdleIsCalm DEF Stop, Call
<1>2. /\ calls' = calls + 1 /\ calls < MaxCalls
      /\ fx' = IF clear THEN [fx EXCEPT !.queue[e] = <<>>, !.frames = stack]
                        ELSE [fx EXCEPT !.frames = stack]
      /\ disturbed' = IF e \in DelayedIn(fx) /\ (clear \/ ~toEnd) THEN disturbed \cup {e} ELSE disturbed
  BY DEF Stop, Call
<1>3. /\ f \in FxFrames /\ f.op = "stop" /\ f.elem = e /\ f.toEnd = toEnd /\ f.at = Len(fx.timers)
      /\ f.ended = NoTimer /\ EndsOf(f) = {}
  BY StopFrameIs
<1> HIDE DEF f
<1>4. <<f>> \o <<>> = stack
  OBVIOUS
<1>5. Stands(f, <<>>, stack)
  BY <1>3, <1>4, EmptyStack, FrameStands DEF MayStand
<1> HIDE DEF stack
<1>6. /\ stack \in Seq(FxFrames) /\ StackOk(stack) /\ EndedIn(stack) = {} /\ Head(stack) = f
      /\ stack # <<>> /\ Len(stack) = 1
  BY <1>3, <1>5, EmptyStack DEF Stands
<1>7. /\ IdsFit(fx', {}, calls) /\ SameRuns(fx, fx') /\ fx'.frames = stack
      /\ clear => fx'.queue[e] = <<>>
      /\ ~clear => fx'.queue = fx.queue
      /\ \A g \in FxElements : Guarded(fx', g)
      /\ \A g \in FxElements : g # e \/ ~clear => LikeFor(fx, fx', {}, g)
  <2>1. CASE clear
    <3>1. WithoutQueue(fx, e, fx', stack)
      BY <1>1, <1>2, <1>6, <2>1, EmptiedQueue
    <3>2. IdsFit(fx', {}, calls) /\ \A g \in FxElements : Guarded(fx', g)
      BY <1>1, <3>1, WithoutQueueFits
    <3>3. \A g \in FxElements \ {e} : LikeFor(fx, fx', {}, g)
      BY <1>1, <3>1, WithoutQueueFits
    <3> QED BY <2>1, <3>1, <3>2, <3>3 DEF WithoutQueue
  <2>2. CASE ~clear
    <3>1. OnlyFrames(fx, fx', stack)
      BY <1>1, <1>2, <1>6, <2>2, WithFrames
    <3>2. IdsFit(fx', {}, calls) /\ \A g \in FxElements : Guarded(fx', g) /\ LikeFor(fx, fx', {}, g)
      BY <1>1, <3>1, OnlyFramesFit
    <3> QED BY <2>2, <3>1, <3>2 DEF OnlyFrames
  <2> QED BY <2>1, <2>2
<1>8. ASSUME NEW g \in FxElements \ disturbed' PROVE FxFits(fx', {}, g)
  <2>1. g \notin disturbed /\ (g = e => ~(e \in DelayedIn(fx) /\ (clear \/ ~toEnd)))
    BY <1>2, <1>8
  <2>2. InStep(fx, {}, g)
    BY <1>1, <2>1
  <2>3. CASE g # e
    <3>1. InStep(fx', {}, g)
      BY <1>7, <2>2, <2>3, LikeCalm
    <3> QED BY <1>3, <1>6, <1>7, <2>3, <3>1, WhoFits
  <2>4. CASE g = e /\ toEnd /\ ~(clear /\ HasSentinel(fx, e))
    <3>1. InStep(fx', {}, g)
      <4>1. CASE ~clear
        BY <1>7, <2>2, <4>1, LikeCalm
      <4>2. CASE clear /\ ~HasSentinel(fx, e)
        <5>1. RunsNow(fx', e) = {} /\ TimersLive(fx', {}, e) /\ TimersWhole(fx', e)
          BY <1>7, <2>2, <2>4, <4>2, SameWithoutQueue DEF InStep, TellsTruth
        <5>2. ~HasSentinel(fx', e)
          BY <1>7, <4>2 DEF HasSentinel
        <5> QED BY <2>4, <5>1, <5>2 DEF InStep, TellsTruth
      <4> QED BY <2>4, <4>1, <4>2
    <3> QED BY <1>3, <1>6, <1>7, <2>4, <3>1, WhoFits
  <2>5. CASE g = e /\ toEnd /\ clear /\ HasSentinel(fx, e)
    <3>1. e \notin DelayedIn(fx)
      BY <2>1, <2>5
    <3>2. Ahead(fx, e, Len(fx.timers))
      BY <3>1, AllAhead
    <3>3. PICK id \in Ids : RunsNow(fx, e) = {id}
      BY <2>2, <2>5 DEF InStep, TellsTruth
    <3>4. RunsNow(fx', e) = {id} /\ TimersLive(fx', {}, e) /\ TimersWhole(fx', e)
          /\ Ahead(fx', e, Len(fx.timers))
      BY <1>7, <2>2, <2>5, <3>2, <3>3, SameWithoutQueue DEF InStep
    <3>5. Stops(fx', TRUE) /\ Head(fx'.frames) = f /\ Len(fx'.frames) = 1
      BY <1>3, <1>6, <1>7, <2>5 DEF Stops
    <3>6. Cleared(fx', e, Head(fx'.frames).at)
      BY <1>3, <1>7, <2>5, <3>4, <3>5 DEF Cleared
    <3>7. ~Stops(fx', FALSE)
      BY <3>5 DEF Stops
    <3> QED BY <1>3, <2>5, <3>4, <3>5, <3>6, <3>7 DEF FxFits
  <2>6. CASE g = e /\ ~toEnd
    <3>1. Ahead(fx, e, Len(fx.timers))
      BY <2>1, <2>6, AllAhead
    <3>2. Ahead(fx', e, f.at) /\ TimersLive(fx', {}, e)
      BY <1>3, <1>7, <2>2, <2>6, <3>1, SameWithoutQueue DEF InStep
    <3>3. Stops(fx', FALSE) /\ Head(fx'.frames) = f
      BY <1>3, <1>6, <1>7, <2>6 DEF Stops
    <3> QED BY <1>3, <2>6, <3>2, <3>3 DEF FxFits
  <2> QED BY <2>3, <2>4, <2>5, <2>6
<1>9. IdsFit(fx', {}, calls')
  BY <1>1, <1>2, <1>7, EarlierNumbers
<1>10. FxFitsAll(fx', calls', disturbed')
  BY <1>6, <1>7, <1>8, <1>9 DEF FxFitsAll
<1>11. calls' \in 0..MaxCalls /\ disturbed' \subseteq FxElements
  BY <1>1, <1>2, EffectsAssumption
<1> QED BY <1>10, <1>11 DEF FxInv

-----------------------------------------------------------------------------
(* Splicing fx objects out.                                                *)

SplicedOut(s, i, r, frames) ==
    /\ r \in FxStates /\ r.queue = s.queue /\ r.waiting = s.waiting /\ r.left = s.left
    /\ r.frames = frames
    /\ IsInjective(r.timers)
    /\ Range(r.timers) = IF i \in DOMAIN s.timers THEN Range(s.timers) \ {s.timers[i]}
                                                  ELSE Range(s.timers)
    /\ \A e : \A at \in Nat : Ahead(s, e, at) => Ahead(r, e, at)
    /\ \A e : i > 0 /\ Ahead(s, e, i) => Ahead(r, e, i - 1)

LEMMA SplicedIs ==
  ASSUME NEW s \in FxStates, IsInjective(s.timers), NEW i \in Nat, NEW frames \in Seq(FxFrames)
  PROVE  SplicedOut(s, i, Spliced([s EXCEPT !.frames = frames], i), frames)
<1> DEFINE r == Spliced([s EXCEPT !.frames = frames], i)
<1>1. s.timers \in Seq(FxTimers) /\ Len(s.timers) \in Nat /\ DOMAIN s.timers = 1..Len(s.timers)
  <2>1. s.timers \in Seq(FxTimers)
    BY DEF FxStates
  <2> QED BY <2>1
<1>2. CASE i \in DOMAIN s.timers
  <2> DEFINE fxs == RemoveAt(s.timers, i)
             n == Len(s.timers)
  <2>0. i \in 1..n /\ n \in Nat
    BY <1>1, <1>2
  <2>1. /\ fxs \in Seq(FxTimers) /\ Len(fxs) = n - 1 /\ DOMAIN fxs = 1..n - 1
        /\ \A j \in 1..n - 1 : fxs[j] = IF j < i THEN s.timers[j] ELSE s.timers[j + 1]
    BY <1>1, <2>0, Removed
  <2>2. IsInjective(fxs) /\ Range(fxs) = Range(s.timers) \ {s.timers[i]}
    BY <1>1, <2>0, RemovedApart DEF Range, ToSet
  <2>3. r = [s EXCEPT !.frames = frames, !.timers = fxs]
    BY <1>2 DEF Spliced, FxStates
  <2> HIDE DEF fxs, r, n
  <2>4. /\ r \in FxStates /\ r.queue = s.queue /\ r.waiting = s.waiting /\ r.left = s.left
        /\ r.frames = frames /\ r.timers = fxs
    BY <2>1, <2>3 DEF FxStates
  <2>5. ASSUME NEW e, NEW at \in Nat, Ahead(s, e, at) PROVE Ahead(r, e, at)
    <3>1. \A j \in 1..n : s.timers[j].elem = e => j <= at
      BY <1>1, <2>5 DEF Ahead, n
    <3>2. ASSUME NEW j \in 1..n - 1, fxs[j].elem = e PROVE j <= at
      <4>1. j \in 1..n /\ j + 1 \in 1..n
        BY <2>0, <3>2
      <4>2. CASE j < i
        BY <2>1, <3>1, <3>2, <4>1, <4>2
      <4>3. CASE ~(j < i)
        <5>1. s.timers[j + 1].elem = e
          BY <2>1, <3>2, <4>3
        <5>2. j + 1 <= at
          BY <3>1, <4>1, <5>1
        <5> QED BY <3>2, <5>2
      <4> QED BY <4>2, <4>3
    <3> QED BY <2>1, <2>4, <2>5, <3>2 DEF Ahead
  <2>6. ASSUME NEW e, i > 0, Ahead(s, e, i) PROVE Ahead(r, e, i - 1)
    <3>1. \A j \in 1..n : s.timers[j].elem = e => j <= i
      BY <1>1, <2>6 DEF Ahead, n
    <3>2. ASSUME NEW j \in 1..n - 1, fxs[j].elem = e PROVE j <= i - 1
      <4>1. j \in 1..n /\ j + 1 \in 1..n
        BY <2>0, <3>2
      <4>2. CASE j < i
        BY <2>0, <4>1, <4>2
      <4>3. CASE ~(j < i)
        <5>1. s.timers[j + 1].elem = e
          BY <2>1, <3>2, <4>3
        <5>2. j + 1 <= i
          BY <3>1, <4>1, <5>1
        <5> QED BY <2>0, <4>3, <4>1, <5>2
      <4> QED BY <4>2, <4>3
    <3> QED BY <2>1, <2>4, <2>6, <3>2 DEF Ahead
  <2>7. SplicedOut(s, i, r, frames)
    BY <1>2, <2>2, <2>4, <2>5, <2>6 DEF SplicedOut
  <2> QED BY <2>7 DEF r
<1>3. CASE i \notin DOMAIN s.timers
  <2>1. r = [s EXCEPT !.frames = frames]
    BY <1>3 DEF Spliced, FxStates
  <2> HIDE DEF r
  <2>2. OnlyFrames(s, r, frames)
    BY <2>1, WithFrames
  <2>3. /\ r \in FxStates /\ r.queue = s.queue /\ r.waiting = s.waiting /\ r.left = s.left
        /\ r.frames = frames /\ r.timers = s.timers
    BY <2>2 DEF OnlyFrames, SameRuns
  <2>4. \A e : \A at \in Nat : Ahead(s, e, at) => Ahead(r, e, at)
    BY <2>3 DEF Ahead
  <2>5. ASSUME NEW e, i > 0, Ahead(s, e, i) PROVE Ahead(r, e, i - 1)
    <3>1. \A j \in DOMAIN r.timers : j <= i - 1
      BY <1>1, <1>3, <2>3, <2>5
    <3> QED BY <2>3, <2>5, <3>1 DEF Ahead
  <2>6. SplicedOut(s, i, r, frames)
    BY <1>3, <2>3, <2>4, <2>5 DEF SplicedOut
  <2> QED BY <2>6 DEF r
<1> QED BY <1>2, <1>3

LEMMA CutFits ==
  ASSUME NEW s, NEW ended, NEW last, IdsFit(s, ended, last), NEW i, NEW r, NEW frames, SplicedOut(s, i, r, frames),
         NEW ends, ends \subseteq ended
  PROVE  IdsFit(r, ends, last) /\ \A f \in FxElements : Guarded(r, f) <=> Guarded(s, f)
<1>1. ItemsFit(s) /\ TimersFit(s.timers)
  BY DEF IdsFit
<1>2. /\ r \in FxStates /\ r.queue = s.queue /\ r.waiting = s.waiting
      /\ IsInjective(r.timers) /\ Range(r.timers) \subseteq Range(s.timers)
  BY DEF SplicedOut
<1>3. TimersFit(r.timers)
  BY <1>1, <1>2 DEF TimersFit
<1>4. Shrinks(s, r)
  BY <1>1, <1>2, <1>3, SameItems DEF Shrinks
<1>5. \A f \in FxElements : Guarded(r, f) <=> Guarded(s, f)
  BY <1>2 DEF Guarded
<1> QED BY <1>4, <1>5, FewerNumbers

\* The fx objects of other elements.
LEMMA CutOthers ==
  ASSUME NEW s, NEW i, NEW r, NEW frames, SplicedOut(s, i, r, frames), NEW f, NEW ended,
         i \in DOMAIN s.timers => s.timers[i].elem # f
  PROVE  LikeFor(s, r, ended, f)
<1>1. /\ r.queue = s.queue /\ r.waiting = s.waiting /\ r.left = s.left
      /\ \A at \in Nat : Ahead(s, f, at) => Ahead(r, f, at)
  BY DEF SplicedOut
<1>2. \A t : t.elem = f => (t \in Range(r.timers) <=> t \in Range(s.timers))
  <2>1. CASE i \in DOMAIN s.timers
    BY <2>1 DEF SplicedOut
  <2>2. CASE i \notin DOMAIN s.timers
    BY <2>2 DEF SplicedOut
  <2> QED BY <2>1, <2>2
<1>3. RunsNow(r, f) = RunsNow(s, f)
  BY <1>1, <1>2 DEF RunsNow
<1>4. TimersLive(s, ended, f) => TimersLive(r, ended, f)
  BY <1>1, <1>2 DEF TimersLive
<1>5. TimersWhole(s, f) => TimersWhole(r, f)
  BY <1>1, <1>2 DEF TimersWhole
<1> QED BY <1>1, <1>3, <1>4, <1>5 DEF LikeFor

\* The fx objects of an element that loses one.
LEMMA CutLive ==
  ASSUME NEW s, NEW i, NEW r, NEW frames, SplicedOut(s, i, r, frames), NEW f, NEW ended,
         TimersLive(s, ended, f)
  PROVE  TimersLive(r, ended, f)
<1>1. r.left = s.left /\ Range(r.timers) \subseteq Range(s.timers)
  BY DEF SplicedOut
<1> QED BY <1>1 DEF TimersLive

\* What has ended goes, and nothing else is lost by it.
WellCut(s, r, f) ==
    /\ r.queue = s.queue /\ RunsNow(r, f) = RunsNow(s, f)
    /\ TimersLive(r, {}, f) /\ TimersWhole(r, f)

LEMMA CutWell ==
  ASSUME NEW s, NEW i, NEW r, NEW frames, SplicedOut(s, i, r, frames), NEW t,
         NEW f, f \notin WronglySpliced(s, i, t), TimersLive(s, {t}, f), TimersWhole(s, f)
  PROVE  WellCut(s, r, f)
<1>0. r.queue = s.queue
  BY DEF SplicedOut
<1>1. CASE t.elem # f /\ (i \in DOMAIN s.timers => s.timers[i].elem # f)
  <2>1. TimersLive(s, {}, f)
    BY <1>1 DEF TimersLive
  <2>2. LikeFor(s, r, {}, f)
    BY <1>1, CutOthers
  <2> QED BY <1>0, <2>1, <2>2 DEF LikeFor, WellCut
<1>2. CASE i \in DOMAIN s.timers /\ s.timers[i] = t /\ t.elem = f
  <2>1. /\ r.waiting = s.waiting /\ r.left = s.left
        /\ Range(r.timers) = Range(s.timers) \ {t} /\ t \in Range(s.timers)
    BY <1>2 DEF SplicedOut, Range
  <2>2. t.prop \notin s.left[t.id]
    BY <1>2, <2>1 DEF TimersLive
  <2>3. TimersLive(r, {}, f)
    BY <2>1 DEF TimersLive
  <2>4. ASSUME NEW u \in Range(s.timers), u.elem = f, NEW p \in s.left[u.id]
        PROVE  \E v \in Range(r.timers) : v.elem = f /\ v.id = u.id /\ v.prop = p
    <3>1. PICK v \in Range(s.timers) : v.elem = f /\ v.id = u.id /\ v.prop = p
      BY <2>4 DEF TimersWhole
    <3>2. v # t
      BY <2>2, <2>4, <3>1
    <3> QED BY <2>1, <3>1, <3>2
  <2>5. TimersWhole(r, f)
    BY <2>1, <2>4 DEF TimersWhole
  <2>6. RunsNow(r, f) = RunsNow(s, f)
    <3>1. RunsNow(r, f) \subseteq RunsNow(s, f)
      BY <2>1 DEF RunsNow
    <3>2. ASSUME NEW u \in Range(s.timers), u.elem = f, s.left[u.id] # {}
          PROVE  \E v \in Range(r.timers) : v.elem = f /\ v.id = u.id /\ r.left[v.id] # {}
      <4>1. PICK p \in s.left[u.id] : TRUE
        BY <3>2
      <4>2. PICK v \in Range(r.timers) : v.elem = f /\ v.id = u.id
        BY <2>4, <3>2, <4>1
      <4> QED BY <2>1, <3>2, <4>2
    <3>3. RunsNow(s, f) \subseteq RunsNow(r, f)
      BY <2>1, <3>2 DEF RunsNow
    <3> QED BY <3>1, <3>3
  <2> QED BY <1>0, <2>3, <2>5, <2>6 DEF WellCut
<1>3. \/ t.elem # f /\ (i \in DOMAIN s.timers => s.timers[i].elem # f)
      \/ i \in DOMAIN s.timers /\ s.timers[i] = t
  BY DEF WronglySpliced
<1> QED BY <1>1, <1>2, <1>3

LEMMA WellCutCalm ==
  ASSUME NEW s, NEW r, NEW f, WellCut(s, r, f), NEW ended, InStep(s, ended, f)
  PROVE  InStep(r, {}, f)
BY DEF WellCut, InStep, TellsTruth, HasSentinel

LEMMA EndedHasElement ==
  ASSUME FxInv, TopFrame("tick") \/ TopFrame("stop"), Frame.ended # NoTimer
  PROVE  /\ Frame.ended \in FxTimers /\ Frame.ended.elem \in FxElements /\ Frame.at \in Nat
         /\ WronglySpliced(fx, Frame.at, Frame.ended) \subseteq FxElements
         /\ EndsOf(Frame) = {Frame.ended}
<1>1. fx.frames # <<>> /\ Frame = Head(fx.frames) /\ fx.frames \in Seq(FxFrames)
      /\ Frame.op \in {"tick", "stop"}
  BY FxInvParts DEF TopFrame, Frame
<1>2. Frame \in FxFrames
  BY <1>1, OneLess
<1>3. Frame \in TickFrames \cup StopFrames
  BY <1>1, <1>2, FrameKinds
<1>4. Frame.ended \in FxTimers /\ Frame.at \in Nat
  BY <1>3 DEF TickFrames, StopFrames
<1>5. Frame.ended.elem \in FxElements
  BY <1>4 DEF FxTimers
<1>6. \A i \in DOMAIN fx.timers : fx.timers[i].elem \in FxElements
  <2>1. \A i \in DOMAIN fx.timers : fx.timers[i] \in FxTimers
    BY FxInvParts
  <2> QED BY <2>1 DEF FxTimers
<1>7. WronglySpliced(fx, Frame.at, Frame.ended) \subseteq FxElements
  BY <1>5, <1>6 DEF WronglySpliced
<1>8. EndsOf(Frame) = {Frame.ended}
  BY <1>1 DEF EndsOf
<1> QED BY <1>4, <1>5, <1>7, <1>8

LEMMA KeptByTickSplice ==
  ASSUME FxInv, TickSplice
  PROVE  FxInv'
<1> DEFINE f == [Frame EXCEPT !.ended = NoTimer]
           stack == <<f>>
           t == Frame.ended
           wrong == WronglySpliced(fx, Frame.at, t)
<1>1. TopFrame("tick") /\ Frame.ended # NoTimer /\ fx' = Spliced(FrameNow(f), Frame.at)
      /\ calls' = calls /\ disturbed' = disturbed \cup wrong
  BY DEF TickSplice
<1>2. /\ Frame \in TickFrames /\ Tail(fx.frames) = <<>> /\ fx \in FxStates
      /\ \A g \in FxElements \ disturbed : InStep(fx, EndsOf(Frame), g)
  BY <1>1, TickIsAlone, FxInvParts
<1>e. EndedIn(fx.frames) = EndsOf(Frame)
  BY <1>1, TickIsAlone
<1>3. Frame.at \in Nat /\ wrong \subseteq FxElements /\ EndsOf(Frame) = {t}
  BY <1>1, EndedHasElement
<1>4. f \in FxFrames /\ f.op = "tick" /\ EndsOf(f) = {}
  BY <1>1, <1>2 DEF FxFrames, TickFrames, EndsOf
<1> HIDE DEF f
<1>5. <<f>> \o <<>> = stack
  OBVIOUS
<1>6. Stands(f, <<>>, stack)
  BY <1>4, <1>5, EmptyStack, FrameStands DEF MayStand
<1>7. fx' = Spliced([fx EXCEPT !.frames = stack], Frame.at)
  BY <1>1, <1>2, <1>5 DEF FrameNow
<1> HIDE DEF stack, wrong, t
<1>8. stack \in Seq(FxFrames) /\ StackOk(stack) /\ EndedIn(stack) = {} /\ Head(stack) = f
  BY <1>4, <1>6, EmptyStack DEF Stands
<1>9. IdsFit(fx, {t}, calls) /\ IsInjective(fx.timers) /\ \A g \in FxElements : Guarded(fx, g)
  BY <1>3, <1>e, FxInvParts DEF IdsFit, TimersFit
<1>10. SplicedOut(fx, Frame.at, fx', stack)
  BY <1>2, <1>3, <1>7, <1>8, <1>9, SplicedIs
<1>11. IdsFit(fx', {}, calls) /\ \A g \in FxElements : Guarded(fx', g)
  BY <1>9, <1>10, CutFits
<1>12. fx'.frames = stack
  BY <1>10 DEF SplicedOut
<1>13. ASSUME NEW g \in FxElements \ disturbed' PROVE FxFits(fx', {}, g)
  <2>1. g \notin disturbed /\ g \notin WronglySpliced(fx, Frame.at, t)
    BY <1>1, <1>13 DEF wrong
  <2>2. InStep(fx, {t}, g)
    BY <1>2, <1>3, <2>1
  <2>3. WellCut(fx, fx', g)
    BY <1>10, <2>1, <2>2, CutWell DEF InStep
  <2>4. InStep(fx', {}, g)
    BY <2>2, <2>3, WellCutCalm
  <2> QED BY <1>4, <1>8, <1>12, <2>4, WhoFits
<1>14. FxFitsAll(fx', calls', disturbed')
  BY <1>1, <1>8, <1>11, <1>12, <1>13 DEF FxFitsAll
<1>15. disturbed' \subseteq FxElements
  BY <1>1, <1>3, FxInvParts
<1> QED BY <1>1, <1>14, <1>15, FxInvParts DEF FxInv

\* An element that stop(.., true) is about, and others.
Stopping(s, ended, e, at) ==
    InStep(s, ended, e) \/ (TimersLive(s, ended, e) /\ TimersWhole(s, e) /\ Cleared(s, e, at))

\* The loop of stop is alone, or it does not go to the end and was called by
\* a callback.
StopsOn(rest, ended) ==
    /\ Frame \in StopFrames /\ Frame.elem \in FxElements /\ Frame.at \in Nat /\ Frame.toEnd \in BOOLEAN
    /\ rest \in Seq(FxFrames) /\ StackOk(rest) /\ CanCall(rest)
    /\ ended = EndsOf(Frame) \cup EndedIn(rest)
    /\ ~Frame.toEnd => EndsOf(Frame) = {}
    /\ Frame.toEnd => rest = <<>> /\ Len(fx.frames) = 1 /\ EndedIn(rest) = {}
    /\ Frame.ended # NoTimer => Frame.toEnd /\ Frame.at > 0
    /\ \A f \in FxElements \ disturbed : f # Frame.elem => InStep(fx, ended, f)
    /\ Frame.elem \notin disturbed /\ Frame.toEnd => Stopping(fx, ended, Frame.elem, Frame.at)
    /\ Frame.elem \notin disturbed /\ ~Frame.toEnd =>
          TimersLive(fx, ended, Frame.elem) /\ Ahead(fx, Frame.elem, Frame.at)

LEMMA StopIsOn ==
  ASSUME FxInv, TopFrame("stop")
  PROVE  StopsOn(Tail(fx.frames), EndedIn(fx.frames)) /\ fx.frames = <<Frame>> \o Tail(fx.frames)
<1> DEFINE rest == Tail(fx.frames)
           ended == EndedIn(fx.frames)
<1>1. fx.frames # <<>> /\ Frame = Head(fx.frames) /\ Frame.op = "stop" /\ fx.frames \in Seq(FxFrames)
      /\ StackOk(fx.frames)
  BY FxInvParts DEF TopFrame, Frame
<1>2. Frame \in StopFrames
  BY <1>1, OneLess, FrameKinds
<1>3. Frame.elem \in FxElements /\ Frame.at \in Nat /\ Frame.toEnd \in BOOLEAN
  BY <1>2 DEF StopFrames
<1>4. /\ StackOk(rest) /\ rest \in Seq(FxFrames) /\ ended = EndsOf(Frame) \cup EndedIn(rest)
      /\ ~Frame.toEnd => CanCall(rest) /\ EndsOf(Frame) = {}
      /\ Frame.toEnd => Len(fx.frames) = 1 /\ rest = <<>>
  BY <1>1, ReturnsTo
<1>5. Frame.toEnd => CanCall(rest) /\ EndedIn(rest) = {}
  BY <1>4, EmptyStack
<1>6. 1 \in DOMAIN fx.frames /\ fx.frames[1] = Frame /\ fx.frames = <<Frame>> \o rest
  BY <1>1
<1>7. Frame.ended # NoTimer => Frame.toEnd /\ Frame.at > 0
  BY <1>1, <1>6 DEF StackOk
<1>8. \A f \in FxElements \ disturbed : f # Frame.elem => InStep(fx, ended, f)
  BY <1>1, FxInvParts, WhoIsCalm
<1>9. Frame.elem \notin disturbed => FxFits(fx, ended, Frame.elem)
  BY <1>3, FxInvParts DEF FxFitsAll
<1>10. Stops(fx, TRUE) <=> Frame.toEnd
  BY <1>1, <1>3 DEF Stops
<1>11. Stops(fx, FALSE) <=> ~Frame.toEnd
  BY <1>1, <1>3 DEF Stops
<1>12. Frame.elem \notin disturbed /\ Frame.toEnd => Stopping(fx, ended, Frame.elem, Frame.at)
  BY <1>1, <1>9, <1>10, <1>11 DEF FxFits, Stopping
<1>13. Frame.elem \notin disturbed /\ ~Frame.toEnd =>
          TimersLive(fx, ended, Frame.elem) /\ Ahead(fx, Frame.elem, Frame.at)
  BY <1>1, <1>9, <1>11 DEF FxFits
<1> HIDE DEF rest, ended
<1>14. StopsOn(rest, ended)
  BY <1>2, <1>3, <1>4, <1>5, <1>7, <1>8, <1>12, <1>13 DEF StopsOn
<1> QED BY <1>6, <1>14 DEF rest, ended

\* The next turn of the loop.
Turned == [Frame EXCEPT !.ended = NoTimer, !.at = @ - 1]

LEMMA TurnedStands ==
  ASSUME NEW rest, NEW ended, StopsOn(rest, ended), Frame.at > 0
  PROVE  /\ Turned \in FxFrames /\ Turned.op = "stop" /\ Turned.elem = Frame.elem
         /\ Turned.toEnd = Frame.toEnd /\ Turned.at = Frame.at - 1 /\ EndsOf(Turned) = {}
         /\ Stands(Turned, rest, <<Turned>> \o rest)
<1>1. Frame \in StopFrames /\ Frame.at \in Nat /\ Frame.toEnd \in BOOLEAN /\ rest \in Seq(FxFrames)
      /\ StackOk(rest) /\ CanCall(rest) /\ (Frame.toEnd => rest = <<>>)
  BY DEF StopsOn
<1>2. /\ Turned \in FxFrames /\ Turned.op = "stop" /\ Turned.elem = Frame.elem
      /\ Turned.toEnd = Frame.toEnd /\ Turned.at = Frame.at - 1 /\ EndsOf(Turned) = {}
      /\ Turned.ended = NoTimer
  <2>0. Frame.at - 1 \in Nat
    BY <1>1
  <2>1. /\ Turned \in StopFrames /\ Turned.elem = Frame.elem /\ Turned.op = "stop"
        /\ Turned.toEnd = Frame.toEnd /\ Turned.at = Frame.at - 1 /\ Turned.ended = NoTimer
    BY <1>1, <2>0 DEF Turned, StopFrames
  <2> QED BY <2>1 DEF FxFrames, EndsOf
<1>3. MayStand(Turned, rest)
  BY <1>1, <1>2 DEF MayStand
<1> QED BY <1>1, <1>2, <1>3, FrameStands

\* How the elements fit the next turn.
LEMMA TurnFits ==
  ASSUME NEW rest, NEW ended, StopsOn(rest, ended), Frame.at > 0, NEW r, NEW ends,
         r.frames = <<Turned>> \o rest, NEW f \in FxElements,
         f # Frame.elem => InStep(r, ends, f),
         f = Frame.elem /\ Frame.toEnd => Stopping(r, ends, f, Frame.at - 1),
         f = Frame.elem /\ ~Frame.toEnd => TimersLive(r, ends, f) /\ Ahead(r, f, Frame.at - 1)
  PROVE  FxFits(r, ends, f)
<1>1. /\ Turned.op = "stop" /\ Turned.elem = Frame.elem
      /\ Turned.toEnd = Frame.toEnd /\ Turned.at = Frame.at - 1
      /\ Stands(Turned, rest, <<Turned>> \o rest)
  BY TurnedStands
<1>2. r.frames # <<>> /\ Head(r.frames) = Turned /\ Len(r.frames) = Len(rest) + 1
  BY <1>1 DEF Stands
<1>3. Frame.toEnd \in BOOLEAN /\ (Frame.toEnd => Len(r.frames) = 1)
  <2>1. rest = <<>> => Len(rest) + 1 = 1
    OBVIOUS
  <2> QED BY <1>2, <2>1 DEF StopsOn
<1>4. Stops(r, TRUE) <=> Frame.toEnd
  BY <1>1, <1>2, <1>3 DEF Stops
<1>5. Stops(r, FALSE) <=> ~Frame.toEnd
  BY <1>1, <1>2, <1>3 DEF Stops
<1> QED BY <1>1, <1>2, <1>3, <1>4, <1>5 DEF FxFits, Stopping

\* An fx object of another element is passed over.
LEMMA PassedOver ==
  ASSUME NEW s \in FxStates, NEW e, NEW at \in DOMAIN s.timers, s.timers[at].elem # e, Ahead(s, e, at)
  PROVE  Ahead(s, e, at - 1)
<1>1. s.timers \in Seq(FxTimers)
  BY DEF FxStates
<1>2. DOMAIN s.timers \subseteq Nat /\ at \in Nat
  BY <1>1
<1>3. ASSUME NEW i \in DOMAIN s.timers, s.timers[i].elem = e PROVE i <= at - 1
  <2>1. i <= at /\ i # at
    BY <1>3 DEF Ahead
  <2> QED BY <1>2, <2>1
<1> QED BY <1>3 DEF Ahead

LEMMA StoppingLike ==
  ASSUME NEW s, NEW r, NEW ended, NEW f, LikeFor(s, r, ended, f), NEW at, NEW next \in Nat,
         Stopping(s, ended, f, at), Ahead(s, f, at) => Ahead(s, f, next)
  PROVE  Stopping(r, ended, f, next)
<1>1. CASE InStep(s, ended, f)
  BY <1>1, LikeCalm DEF Stopping
<1>2. CASE TimersLive(s, ended, f) /\ TimersWhole(s, f) /\ Cleared(s, f, at)
  BY <1>2 DEF LikeFor, Stopping, Cleared
<1> QED BY <1>1, <1>2 DEF Stopping

LEMMA KeptByStopStep ==
  ASSUME FxInv, StopStep
  PROVE  FxInv'
<1> DEFINE rest == Tail(fx.frames)
           ended == EndedIn(fx.frames)
           stack == <<Turned>> \o rest
           e == Frame.elem
           at == Frame.at
           mine == fx.timers[at].elem = e
           next == [fx EXCEPT !.frames = stack]
<1>1. /\ TopFrame("stop") /\ Frame.ended = NoTimer /\ at \in DOMAIN fx.timers
      /\ ~(mine /\ Frame.toEnd)
      /\ calls' = calls /\ disturbed' = disturbed
  BY DEF StopStep
<1>2. StopsOn(rest, ended)
  BY <1>1, StopIsOn
<1>3. /\ fx \in FxStates /\ fx.timers \in Seq(FxTimers) /\ IdsFit(fx, ended, calls)
      /\ disturbed \subseteq FxElements /\ calls \in 0..MaxCalls
      /\ \A g \in FxElements : Guarded(fx, g)
  BY FxInvParts
<1>4. at \in Nat /\ at > 0 /\ at - 1 \in Nat /\ e \in FxElements
  BY <1>1, <1>2, <1>3 DEF StopsOn
<1>5. [Frame EXCEPT !.at = @ - 1] = Turned
  BY <1>1, <1>2 DEF Turned, StopsOn, StopFrames
<1>6. fx' = IF mine THEN Spliced(next, at) ELSE next
  <2>1. FrameNow([Frame EXCEPT !.at = @ - 1]) = next
    BY <1>3, <1>5 DEF FrameNow, FxStates
  <2> QED BY <2>1 DEF StopStep
<1>7. EndsOf(Turned) = {} /\ Stands(Turned, rest, stack)
  BY <1>2, <1>4, TurnedStands
<1>8. ended = EndedIn(rest)
  BY <1>1, <1>2 DEF StopsOn, EndsOf
<1>9. stack \in Seq(FxFrames) /\ StackOk(stack) /\ EndedIn(stack) = ended
  BY <1>7, <1>8 DEF Stands
<1> DEFINE whole == <<Turned>> \o rest
<1>w. stack = whole
  OBVIOUS
<1> HIDE DEF rest, ended, stack, e, at
<1>10. CASE ~mine
  <2>1. OnlyFrames(fx, fx', stack)
    BY <1>3, <1>6, <1>9, <1>10, WithFrames
  <2>2. IdsFit(fx', ended, calls) /\ \A g \in FxElements : Guarded(fx', g) /\ LikeFor(fx, fx', ended, g)
    BY <1>3, <2>1, OnlyFramesFit
  <2>3. Ahead(fx, e, at) => Ahead(fx, e, at - 1)
    BY <1>1, <1>3, <1>10, PassedOver
  <2>4. ASSUME NEW g \in FxElements \ disturbed PROVE FxFits(fx', ended, g)
    <3>1. LikeFor(fx, fx', ended, g)
      BY <2>2
    <3>2. g # e => InStep(fx', ended, g)
      BY <1>2, <2>4, <3>1, LikeCalm DEF StopsOn, e
    <3>3. g = e /\ Frame.toEnd => Stopping(fx', ended, g, at - 1)
      <4> SUFFICES ASSUME g = e /\ Frame.toEnd PROVE Stopping(fx', ended, g, at - 1)
        OBVIOUS
      <4>1. Stopping(fx, ended, g, at)
        BY <1>2, <2>4 DEF StopsOn, e, at
      <4> QED BY <1>4, <2>3, <3>1, <4>1, StoppingLike
    <3>4. g = e /\ ~Frame.toEnd => TimersLive(fx', ended, g) /\ Ahead(fx', g, at - 1)
      BY <1>2, <1>4, <2>3, <2>4, <3>1 DEF StopsOn, LikeFor, e, at
    <3>5. fx'.frames = <<Turned>> \o rest
      BY <1>w, <2>1 DEF OnlyFrames
    <3> QED BY <1>2, <1>4, <2>4, <3>2, <3>3, <3>4, <3>5, TurnFits DEF e, at
  <2>5. FxFitsAll(fx', calls', disturbed')
    BY <1>1, <1>9, <2>1, <2>2, <2>4 DEF FxFitsAll, OnlyFrames
  <2> QED BY <1>1, <1>3, <2>5 DEF FxInv
<1>11. CASE mine
  <2>1. IsInjective(fx.timers) /\ ~Frame.toEnd
    BY <1>1, <1>3, <1>11 DEF IdsFit, TimersFit
  <2>2. SplicedOut(fx, at, fx', stack)
    BY <1>3, <1>4, <1>6, <1>9, <1>11, <2>1, SplicedIs
  <2>3. IdsFit(fx', ended, calls) /\ \A g \in FxElements : Guarded(fx', g)
    BY <1>3, <2>2, CutFits
  <2>4. fx'.frames = stack
    BY <2>2 DEF SplicedOut
  <2>5. ASSUME NEW g \in FxElements \ disturbed PROVE FxFits(fx', ended, g)
    <3>1. g # e => InStep(fx', ended, g)
      <4> SUFFICES ASSUME g # e PROVE InStep(fx', ended, g)
        OBVIOUS
      <4>1. LikeFor(fx, fx', ended, g)
        BY <1>11, <2>2, CutOthers
      <4>2. InStep(fx, ended, g)
        BY <1>2, <2>5 DEF StopsOn, e
      <4> QED BY <4>1, <4>2, LikeCalm
    <3>2. g = e => TimersLive(fx', ended, g) /\ Ahead(fx', g, at - 1)
      <4> SUFFICES ASSUME g = e PROVE TimersLive(fx', ended, g) /\ Ahead(fx', g, at - 1)
        OBVIOUS
      <4>1. TimersLive(fx, ended, e) /\ Ahead(fx, e, at)
        BY <1>2, <2>1, <2>5 DEF StopsOn, e, at
      <4>2. TimersLive(fx', ended, e)
        BY <2>2, <4>1, CutLive
      <4> QED BY <1>4, <2>2, <4>1, <4>2 DEF SplicedOut
    <3>3. fx'.frames = <<Turned>> \o rest
      BY <1>w, <2>4
    <3> QED BY <1>2, <1>4, <2>1, <2>5, <3>1, <3>2, <3>3, TurnFits DEF e, at
  <2>6. FxFitsAll(fx', calls', disturbed')
    BY <1>1, <1>9, <2>3, <2>4, <2>5 DEF FxFitsAll
  <2> QED BY <1>1, <1>3, <2>6 DEF FxInv
<1> QED BY <1>10, <1>11

LEMMA KeptByStopSplice ==
  ASSUME FxInv, StopSplice
  PROVE  FxInv'
<1> DEFINE rest == Tail(fx.frames)
           ended == EndedIn(fx.frames)
           stack == <<Turned>> \o rest
           e == Frame.elem
           at == Frame.at
           t == Frame.ended
           wrong == WronglySpliced(fx, at, t)
<1>1. /\ TopFrame("stop") /\ t # NoTimer
      /\ fx' = Spliced(FrameNow(Turned), at)
      /\ calls' = calls /\ disturbed' = disturbed \cup wrong
  BY DEF StopSplice, Turned
<1>2. StopsOn(rest, ended)
  BY <1>1, StopIsOn
<1>3. /\ fx \in FxStates /\ fx.timers \in Seq(FxTimers) /\ IdsFit(fx, ended, calls)
      /\ disturbed \subseteq FxElements /\ calls \in 0..MaxCalls
      /\ \A g \in FxElements : Guarded(fx, g)
      /\ IsInjective(fx.timers)
  BY FxInvParts DEF IdsFit, TimersFit
<1>4. Frame.toEnd /\ at \in Nat /\ at > 0 /\ at - 1 \in Nat /\ e \in FxElements /\ EndedIn(rest) = {}
  BY <1>1, <1>2 DEF StopsOn
<1>5. wrong \subseteq FxElements /\ EndsOf(Frame) = {t}
  BY <1>1, EndedHasElement
<1>6. ended = {t}
  BY <1>2, <1>4, <1>5 DEF StopsOn
<1>7. fx' = Spliced([fx EXCEPT !.frames = stack], at)
  BY <1>1, <1>3 DEF FrameNow, FxStates
<1>8. EndsOf(Turned) = {} /\ Stands(Turned, rest, stack)
  BY <1>2, <1>4, TurnedStands
<1>9. stack \in Seq(FxFrames) /\ StackOk(stack) /\ EndedIn(stack) = {}
  BY <1>4, <1>8 DEF Stands
<1>w. stack = <<Turned>> \o rest
  OBVIOUS
<1> HIDE DEF rest, ended, stack, e, at, t, wrong
<1>10. SplicedOut(fx, at, fx', stack)
  BY <1>3, <1>4, <1>7, <1>9, SplicedIs
<1>11. IdsFit(fx', {}, calls) /\ \A g \in FxElements : Guarded(fx', g)
  BY <1>3, <1>10, CutFits
<1>12. fx'.frames = stack
  BY <1>10 DEF SplicedOut
<1>13. ASSUME NEW g \in FxElements \ disturbed' PROVE FxFits(fx', {}, g)
  <2>1. g \notin disturbed /\ g \notin WronglySpliced(fx, at, t)
    BY <1>1, <1>13 DEF wrong
  <2>2. ASSUME TimersLive(fx, ended, g), TimersWhole(fx, g) PROVE WellCut(fx, fx', g)
    BY <1>6, <1>10, <2>1, <2>2, CutWell
  <2>3. InStep(fx, ended, g) => InStep(fx', {}, g)
    <3> SUFFICES ASSUME InStep(fx, ended, g) PROVE InStep(fx', {}, g)
      OBVIOUS
    <3>1. WellCut(fx, fx', g)
      BY <2>2 DEF InStep
    <3> QED BY <3>1, WellCutCalm
  <2>4. g # e => InStep(fx', {}, g)
    BY <1>2, <1>13, <2>1, <2>3 DEF StopsOn, e
  <2>5. g = e => Stopping(fx', {}, g, at - 1)
    <3> SUFFICES ASSUME g = e PROVE Stopping(fx', {}, g, at - 1)
      OBVIOUS
    <3>1. Stopping(fx, ended, e, at)
      BY <1>2, <1>4, <2>1 DEF StopsOn, e, at
    <3>2. CASE InStep(fx, ended, e)
      BY <2>3, <3>2 DEF Stopping
    <3>3. CASE TimersLive(fx, ended, e) /\ TimersWhole(fx, e) /\ Cleared(fx, e, at)
      <4>1. WellCut(fx, fx', e)
        BY <2>2, <3>3
      <4>2. Ahead(fx', e, at - 1)
        BY <1>4, <1>10, <3>3 DEF SplicedOut, Cleared
      <4>3. Cleared(fx', e, at - 1)
        BY <3>3, <4>1, <4>2 DEF Cleared, WellCut
      <4> QED BY <4>1, <4>3 DEF WellCut, Stopping
    <3> QED BY <3>1, <3>2, <3>3 DEF Stopping
  <2>6. fx'.frames = <<Turned>> \o rest
    BY <1>w, <1>12
  <2> QED BY <1>2, <1>4, <1>13, <2>4, <2>5, <2>6, TurnFits DEF e, at
<1>14. FxFitsAll(fx', calls', disturbed')
  BY <1>1, <1>9, <1>11, <1>12, <1>13 DEF FxFitsAll
<1>15. disturbed' \subseteq FxElements
  BY <1>1, <1>3, <1>5
<1> QED BY <1>1, <1>3, <1>14, <1>15 DEF FxInv

\* Where an element has nothing that runs.
LEMMA NothingRuns ==
  ASSUME NEW s \in FxStates, NEW e, Ahead(s, e, 0)
  PROVE  /\ RunsNow(s, e) = {} /\ TimersWhole(s, e)
         /\ \A t \in Range(s.timers) : t.elem # e
<1>1. DOMAIN s.timers \subseteq Nat \ {0}
  <2>1. s.timers \in Seq(FxTimers)
    BY DEF FxStates
  <2> QED BY <2>1
<1>2. \A t \in Range(s.timers) : t.elem # e
  BY <1>1 DEF Ahead, Range
<1>3. \A w \in s.waiting : w.elem # e
  BY DEF Ahead
<1> QED BY <1>2, <1>3 DEF RunsNow, TimersWhole

LEMMA KeptByStopReturns ==
  ASSUME FxInv, StopReturns
  PROVE  FxInv'
<1> DEFINE rest == Tail(fx.frames)
           ended == EndedIn(fx.frames)
           e == Frame.elem
           s == Return(fx)
<1>1. /\ TopFrame("stop") /\ Frame.ended = NoTimer /\ Frame.at = 0
      /\ fx' = IF Frame.toEnd THEN s ELSE Dequeued(s, e)
      /\ calls' = calls /\ disturbed' = disturbed
  BY DEF StopReturns
<1>2. StopsOn(rest, ended)
  BY <1>1, StopIsOn
<1>3. /\ fx \in FxStates /\ IdsFit(fx, ended, calls)
      /\ disturbed \subseteq FxElements /\ calls \in 0..MaxCalls
      /\ \A g \in FxElements : Guarded(fx, g)
  BY FxInvParts
<1>4. s = [fx EXCEPT !.frames = rest]
  BY <1>3 DEF Return, FxStates
<1>5. ended = EndedIn(rest) /\ rest \in Seq(FxFrames) /\ StackOk(rest) /\ CanCall(rest) /\ e \in FxElements
  BY <1>1, <1>2 DEF StopsOn, EndsOf
<1> HIDE DEF rest, ended, s, e
<1>6. OnlyFrames(fx, s, rest)
  BY <1>3, <1>4, <1>5, WithFrames
<1>7. IdsFit(s, ended, calls) /\ \A g \in FxElements : Guarded(s, g) /\ LikeFor(fx, s, ended, g)
  BY <1>3, <1>6, OnlyFramesFit
<1>8. s.frames = rest /\ s \in FxStates
  BY <1>6 DEF OnlyFrames
<1>9. \A g \in FxElements \ disturbed : g # e => InStep(s, ended, g)
  <2> SUFFICES ASSUME NEW g \in FxElements \ disturbed, g # e PROVE InStep(s, ended, g)
    OBVIOUS
  <2>1. InStep(fx, ended, g)
    BY <1>2 DEF StopsOn, e
  <2> QED BY <1>7, <2>1, LikeCalm
<1>10. CASE Frame.toEnd
  <2>1. e \notin disturbed => InStep(s, ended, e)
    <3> SUFFICES ASSUME e \notin disturbed PROVE InStep(s, ended, e)
      OBVIOUS
    <3>1. Stopping(fx, ended, e, 0)
      BY <1>1, <1>2, <1>10 DEF StopsOn, e
    <3>2. ~Cleared(fx, e, 0)
      BY <1>3, NothingRuns DEF Cleared
    <3>3. InStep(fx, ended, e)
      BY <3>1, <3>2 DEF Stopping
    <3> QED BY <1>5, <1>7, <3>3, LikeCalm
  <2>2. \A g \in FxElements \ disturbed : FxFits(s, ended, g)
    BY <1>5, <1>8, <1>9, <2>1, CalmFits
  <2>3. FxFitsAll(s, calls, disturbed)
    BY <1>5, <1>7, <1>8, <2>2 DEF FxFitsAll
  <2> QED BY <1>1, <1>3, <1>10, <2>3 DEF FxInv
<1>11. CASE ~Frame.toEnd
  <2>1. e \notin disturbed => RunsNow(s, e) = {} /\ TimersLive(s, ended, e) /\ TimersWhole(s, e)
    <3> SUFFICES ASSUME e \notin disturbed
                 PROVE  RunsNow(s, e) = {} /\ TimersLive(s, ended, e) /\ TimersWhole(s, e)
      OBVIOUS
    <3>1. TimersLive(fx, ended, e) /\ Ahead(fx, e, 0)
      BY <1>1, <1>2, <1>11 DEF StopsOn, e
    <3>2. Ahead(s, e, 0) /\ TimersLive(s, ended, e)
      BY <1>5, <1>7, <3>1 DEF LikeFor
    <3> QED BY <1>8, <3>2, NothingRuns
  <2>2. MayDequeue(s, e, calls, disturbed)
    BY <1>5, <1>7, <1>8, <1>9, <2>1 DEF MayDequeue
  <2>3. FxFitsAll(Dequeued(s, e), calls, disturbed)
    BY <1>5, <2>2, DequeueKeeps
  <2> QED BY <1>1, <1>3, <1>11, <2>3 DEF FxInv
<1> QED BY <1>10, <1>11

-----------------------------------------------------------------------------
(* What is queued.                                                         *)

\* A state with one more item in a queue.
OneItem(s, e, item, q) ==
    /\ q \in FxStates /\ SameRuns(s, q) /\ q.frames = s.frames
    /\ q.queue[e] = Append(s.queue[e], item)
    /\ \A f \in FxElements \ {e} : q.queue[f] = s.queue[f]

LEMMA OneItemIs ==
  ASSUME NEW s \in FxStates, NEW e \in FxElements, NEW item \in FxItems
  PROVE  OneItem(s, e, item, [s EXCEPT !.queue[e] = Append(@, item)])
<1> DEFINE list == Append(s.queue[e], item)
           queue == [s.queue EXCEPT ![e] = list]
           q == [s EXCEPT !.queue[e] = Append(@, item)]
<1>1. s.queue \in [FxElements -> Seq(FxItems \cup {Sentinel})]
  BY DEF FxStates
<1>2. list \in Seq(FxItems \cup {Sentinel})
  BY <1>1
<1>3. q = [s EXCEPT !.queue = queue]
  BY DEF FxStates
<1>4. list = Append(s.queue[e], item)
  OBVIOUS
<1> HIDE DEF list
<1>5. queue \in [FxElements -> Seq(FxItems \cup {Sentinel})] /\ queue[e] = list
      /\ \A f \in FxElements \ {e} : queue[f] = s.queue[f]
  BY <1>1, <1>2
<1> HIDE DEF queue, q
<1>6. q \in FxStates /\ q.queue = queue /\ SameRuns(s, q) /\ q.frames = s.frames
  BY <1>3, <1>5 DEF FxStates, SameRuns
<1>7. OneItem(s, e, item, q)
  BY <1>4, <1>5, <1>6 DEF OneItem
<1> QED BY <1>7 DEF q

\* The items of a queue and one more.
OneMoreItem(n, item, m) ==
    /\ m \in Seq(FxItems) /\ OneEach(m) /\ Range(m) = Range(n) \cup {item}

LEMMA ItemAppended ==
  ASSUME NEW n \in Seq(FxItems), OneEach(n), NEW item \in FxItems, \A x \in Range(n) : x.id # item.id
  PROVE  OneMoreItem(n, item, Append(n, item))
<1> DEFINE m == Append(n, item)
           k == Len(n)
<1>1. /\ m \in Seq(FxItems) /\ k \in Nat /\ DOMAIN m = 1..k + 1 /\ DOMAIN n = 1..k
      /\ m[k + 1] = item /\ \A i \in 1..k : m[i] = n[i]
  OBVIOUS
<1> HIDE DEF m, k
<1>2. \A i \in 1..k + 1 : i \in 1..k \/ i = k + 1
  BY <1>1
<1>3. \A i \in 1..k : n[i].id # item.id
  BY <1>1 DEF Range
<1>4. OneEach(m)
  BY <1>1, <1>2, <1>3 DEF OneEach
<1>5. Range(m) = Range(n) \cup {item}
  <2>1. \A x \in Range(m) : x \in Range(n) \cup {item}
    BY <1>1, <1>2 DEF Range
  <2>2. \A x \in Range(n) : x \in Range(m)
    <3> SUFFICES ASSUME NEW i \in 1..k PROVE n[i] \in Range(m)
      BY <1>1 DEF Range
    <3>1. i \in 1..k + 1
      BY <1>1
    <3> QED BY <1>1, <3>1 DEF Range
  <2>3. item \in Range(m)
    <3>1. k + 1 \in 1..k + 1
      BY <1>1
    <3> QED BY <1>1, <3>1 DEF Range
  <2> QED BY <2>1, <2>2, <2>3
<1>6. OneMoreItem(n, item, m)
  BY <1>1, <1>4, <1>5 DEF OneMoreItem
<1> QED BY <1>6 DEF m

\* Behind the sentinel, or at the head of an empty queue.
LEMMA QueueGrows ==
  ASSUME NEW s \in FxStates, NEW e \in FxElements, NEW item \in FxItems, NEW q, OneItem(s, e, item, q),
         Guarded(s, e)
  PROVE  /\ ItemsOf(q, e) = Append(ItemsOf(s, e), item)
         /\ q.queue[e] # <<>> /\ (Head(q.queue[e]) = Sentinel <=> HasSentinel(s, e))
<1> DEFINE l == s.queue[e]
           m == q.queue[e]
           S == FxItems \cup {Sentinel}
<1>1. l \in Seq(S) /\ m = Append(l, item) /\ item \in S /\ item # Sentinel
  BY NotSentinel DEF OneItem, FxStates
<1>2. ItemsOf(q, e) = Unsentinelled(m) /\ ItemsOf(s, e) = Unsentinelled(l)
      /\ (HasSentinel(s, e) <=> l # <<>> /\ Head(l) = Sentinel) /\ (l = <<>> \/ Head(l) = Sentinel)
  BY DEF ItemsOf, HasSentinel, Guarded
<1> SUFFICES /\ Unsentinelled(m) = Append(Unsentinelled(l), item)
             /\ m # <<>> /\ (Head(m) = Sentinel <=> (l # <<>> /\ Head(l) = Sentinel))
  BY <1>2
<1> HIDE DEF l, m, S
<1>3. CASE l = <<>>
  <2>1. m = <<item>> /\ m # <<>> /\ Head(m) = item
    BY <1>1, <1>3
  <2> QED BY <1>1, <1>3, <2>1 DEF Unsentinelled
<1>4. CASE l # <<>> /\ Head(l) = Sentinel
  <2>1. m # <<>> /\ Head(m) = Head(l) /\ Tail(m) = Append(Tail(l), item)
    BY <1>1, <1>4
  <2> QED BY <1>4, <2>1 DEF Unsentinelled
<1> QED BY <1>2, <1>3, <1>4

\* A state that nothing but a callback may act on.
AllCalm(s, last, moved) ==
    /\ IdsFit(s, EndedIn(s.frames), last) /\ StackOk(s.frames) /\ CanCall(s.frames)
    /\ \A f \in FxElements : Guarded(s, f)
    /\ \A f \in FxElements \ moved : InStep(s, EndedIn(s.frames), f)

LEMMA ItemNumbers ==
  ASSUME NEW s, NEW ended, NEW last \in Nat, IdsFit(s, ended, last), NEW e \in FxElements,
         NEW item \in FxItems, item.id = last + 1, NEW q, OneItem(s, e, item, q), Guarded(s, e)
  PROVE  IdsFit(q, ended, last + 1)
<1>1. /\ s \in FxStates /\ q \in FxStates /\ ended \subseteq FxTimers
      /\ ItemsFit(s) /\ NumbersFit(s, ended, last) /\ TimersFit(s.timers)
      /\ q.timers = s.timers /\ q.waiting = s.waiting
  BY DEF IdsFit, OneItem, SameRuns
<1>2. \A f \in FxElements \ {e} : ItemsOf(q, f) = ItemsOf(s, f)
  BY DEF OneItem, ItemsOf
<1> DEFINE n == ItemsOf(s, e)
           m == ItemsOf(q, e)
<1>3. m = Append(n, item)
  BY <1>1, QueueGrows
<1>4. n \in Seq(FxItems) /\ OneEach(n)
  BY <1>1 DEF ItemsFit
<1>5. \A f \in FxElements : Range(ItemsOf(s, f)) \subseteq FxItems
  BY <1>1 DEF ItemsFit, Range
<1>6. \A f \in FxElements : \A x \in Range(ItemsOf(s, f)) : x.id \in Nat /\ x.id <= last /\ x.id # item.id
  <2>1. \A f \in FxElements : \A x \in Range(ItemsOf(s, f)) : x.id \in Nat /\ x.id <= last
    BY <1>1, <1>5, EffectsAssumption DEF NumbersFit, FxItems, Ids
  <2> QED BY <2>1
<1>7. OneMoreItem(n, item, m)
  BY <1>3, <1>4, <1>6, ItemAppended
<1>8. m \in Seq(FxItems) /\ OneEach(m) /\ Range(m) = Range(n) \cup {item}
  BY <1>7 DEF OneMoreItem
<1> HIDE DEF m, n
<1>9. ItemsFit(q)
  <2>1. \A f \in FxElements : ItemsOf(q, f) \in Seq(FxItems) /\ OneEach(ItemsOf(q, f))
    BY <1>1, <1>2, <1>8 DEF ItemsFit, m
  <2>2. ASSUME NEW f \in FxElements, NEW g \in FxElements, NEW x \in Range(ItemsOf(q, f)),
               NEW y \in Range(ItemsOf(q, g)), x.id = y.id
        PROVE  f = g
    <3>1. \A h \in FxElements : \A z \in Range(ItemsOf(q, h)) :
             z \in Range(ItemsOf(s, h)) \/ (h = e /\ z = item)
      BY <1>2, <1>8 DEF m, n
    <3>2. CASE x \in Range(ItemsOf(s, f)) /\ y \in Range(ItemsOf(s, g))
      BY <1>1, <2>2, <3>2 DEF ItemsFit
    <3>3. CASE f = e /\ x = item
      BY <1>6, <2>2, <3>1, <3>3
    <3>4. CASE g = e /\ y = item
      BY <1>6, <2>2, <3>1, <3>4
    <3> QED BY <3>1, <3>2, <3>3, <3>4
  <2> QED BY <2>1, <2>2 DEF ItemsFit
<1>10. NumbersFit(q, ended, last + 1)
  <2>1. \A t \in Range(s.timers) \cup s.waiting \cup ended : t.id \in Nat /\ t.id <= last
    <3>1. s.timers \in Seq(FxTimers) /\ s.waiting \subseteq FxDelays
      BY <1>1 DEF FxStates
    <3>2. Range(s.timers) \subseteq FxTimers
      BY <3>1 DEF Range
    <3>3. \A t \in Range(s.timers) \cup s.waiting \cup ended : t.id \in Nat
      BY <1>1, <3>1, <3>2, EffectsAssumption DEF FxTimers, FxDelays, Ids
    <3> QED BY <1>1, <3>3 DEF NumbersFit
  <2>2. ASSUME NEW f \in FxElements, NEW x \in Range(ItemsOf(q, f))
        PROVE  /\ x.id <= last + 1
               /\ \A t \in Range(s.timers) \cup s.waiting \cup ended : t.id # x.id
    <3>1. x \in Range(ItemsOf(s, f)) \/ x = item
      BY <1>2, <1>8 DEF m, n
    <3>2. CASE x \in Range(ItemsOf(s, f))
      BY <1>1, <1>6, <3>2 DEF NumbersFit
    <3>3. CASE x = item
      BY <2>1, <3>3
    <3> QED BY <3>1, <3>2, <3>3
  <2>3. \A t \in Range(s.timers), w \in s.waiting : t.id # w.id
    BY <1>1 DEF NumbersFit
  <2> QED BY <1>1, <2>1, <2>2, <2>3 DEF NumbersFit
<1> QED BY <1>1, <1>9, <1>10 DEF IdsFit

LEMMA QueuedKeeps ==
  ASSUME NEW s, NEW last \in Nat, NEW moved, AllCalm(s, last, moved), NEW e \in FxElements,
         NEW item \in FxItems, item.id = last + 1
  PROVE  FxFitsAll(Queued(s, e, item), last + 1, moved)
<1> DEFINE q == [s EXCEPT !.queue[e] = Append(@, item)]
           r == Queued(s, e, item)
           ended == EndedIn(s.frames)
<1>1. /\ IdsFit(s, ended, last) /\ s \in FxStates /\ StackOk(s.frames) /\ CanCall(s.frames)
      /\ \A f \in FxElements : Guarded(s, f)
      /\ \A f \in FxElements \ moved : InStep(s, ended, f)
  BY DEF AllCalm, IdsFit
<1>2. OneItem(s, e, item, q)
  BY <1>1, OneItemIs
<1>3. r = IF Head(q.queue[e]) = Sentinel THEN q ELSE Dequeued(q, e)
  BY DEF Queued
<1> HIDE DEF q, r
<1>4. q.queue[e] # <<>> /\ (Head(q.queue[e]) = Sentinel <=> HasSentinel(s, e))
  BY <1>1, <1>2, QueueGrows
<1>5. IdsFit(q, ended, last + 1)
  BY <1>1, <1>2, ItemNumbers
<1>6. q.frames = s.frames /\ SameRuns(s, q) /\ \A f \in FxElements \ {e} : q.queue[f] = s.queue[f]
  BY <1>2 DEF OneItem
<1>7. \A f \in FxElements \ {e} : LikeFor(s, q, ended, f) /\ Guarded(q, f)
  BY <1>1, <1>6, SameForAll DEF Guarded
<1>8. \A f \in FxElements \ moved : f # e => InStep(q, ended, f)
  BY <1>1, <1>7, LikeCalm
<1>9. CASE HasSentinel(s, e)
  <2>1. HasSentinel(q, e) /\ Guarded(q, e) /\ r = q
    BY <1>3, <1>4, <1>9 DEF HasSentinel, Guarded
  <2>2. e \notin moved => InStep(q, ended, e)
    BY <1>1, <1>6, <1>9, <2>1, SameWithoutQueue DEF InStep, TellsTruth
  <2>3. \A f \in FxElements \ moved : FxFits(q, ended, f)
    BY <1>1, <1>6, <1>8, <2>2, CalmFits
  <2>4. \A f \in FxElements : Guarded(q, f)
    BY <1>7, <2>1
  <2>5. FxFitsAll(r, last + 1, moved)
    BY <1>1, <1>5, <1>6, <2>1, <2>3, <2>4 DEF FxFitsAll
  <2> QED BY <2>5 DEF r
<1>10. CASE ~HasSentinel(s, e)
  <2>1. r = Dequeued(q, e)
    BY <1>3, <1>4, <1>10
  <2>2. e \notin moved => RunsNow(q, e) = {} /\ TimersLive(q, ended, e) /\ TimersWhole(q, e)
    BY <1>1, <1>6, <1>10, SameWithoutQueue DEF InStep, TellsTruth
  <2>3. MayDequeue(q, e, last + 1, moved)
    BY <1>1, <1>5, <1>6, <1>7, <1>8, <2>2 DEF MayDequeue
  <2>4. FxFitsAll(r, last + 1, moved)
    BY <2>1, <2>3, DequeueKeeps
  <2> QED BY <2>4 DEF r
<1> QED BY <1>9, <1>10

LEMMA IdleIsAllCalm ==
  ASSUME FxInv, FxIdle
  PROVE  AllCalm(fx, calls, disturbed)
<1>1. EndedIn(fx.frames) = {} /\ CanCall(fx.frames) /\ StackOk(fx.frames)
  BY EmptyStack DEF FxIdle
<1> QED BY <1>1, FxInvParts, IdleIsCalm DEF AllCalm

\* What the page queues.
LEMMA KeptByQueued ==
  ASSUME FxInv, Call, NEW e \in FxElements, NEW kind \in FxKinds \cup {"delay", "move"},
         NEW cb \in CallbackNames,
         fx' = Queued(fx, e, [kind |-> kind, id |-> calls', cb |-> cb]), disturbed' = disturbed
  PROVE  FxInv'
<1> DEFINE item == [kind |-> kind, id |-> calls', cb |-> cb]
<1>1. /\ calls \in Nat /\ calls' = calls + 1 /\ calls < MaxCalls /\ calls' \in 0..MaxCalls
      /\ calls' \in Ids /\ disturbed \subseteq FxElements
  BY FxInvParts, EffectsAssumption DEF Call, Ids
<1>2. item \in FxItems /\ item.id = calls + 1
  BY <1>1 DEF FxItems
<1>3. fx' = Queued(fx, e, item)
  OBVIOUS
<1> HIDE DEF item
<1>4. AllCalm(fx, calls, disturbed)
  BY IdleIsAllCalm DEF Call
<1>5. FxFitsAll(Queued(fx, e, item), calls + 1, disturbed)
  BY <1>1, <1>2, <1>4, QueuedKeeps
<1> QED BY <1>1, <1>3, <1>5 DEF FxInv

LEMMA KeptByCallbackAnimates ==
  ASSUME FxInv, NEW e \in FxElements, CallbackAnimates(e)
  PROVE  FxInv'
<1> DEFINE s == Return(fx)
           rest == Tail(fx.frames)
           ended == EndedIn(fx.frames)
           id == calls + 1
           item == [kind |-> "move", id |-> id, cb |-> "none"]
<1>1. /\ TopFrame("callback") /\ disturbed' = disturbed
      /\ fx' = IF calls = MaxCalls THEN s ELSE Queued(s, e, item)
      /\ calls' = IF calls = MaxCalls THEN calls ELSE id
  BY DEF CallbackAnimates
<1>2. /\ rest \in Seq(FxFrames) /\ StackOk(rest) /\ CanCall(rest) /\ EndedIn(rest) = ended
      /\ \A f \in FxElements \ disturbed : InStep(fx, ended, f)
  BY <1>1, CallbackIsOn
<1>3. /\ fx \in FxStates /\ IdsFit(fx, ended, calls)
      /\ disturbed \subseteq FxElements /\ calls \in 0..MaxCalls
      /\ \A g \in FxElements : Guarded(fx, g)
  BY FxInvParts
<1>4. s = [fx EXCEPT !.frames = rest]
  BY <1>3 DEF Return, FxStates
<1> HIDE DEF s, rest, ended, item, id
<1>5. OnlyFrames(fx, s, rest)
  BY <1>2, <1>3, <1>4, WithFrames
<1>6. IdsFit(s, ended, calls) /\ \A g \in FxElements : Guarded(s, g) /\ LikeFor(fx, s, ended, g)
  BY <1>3, <1>5, OnlyFramesFit
<1>7. s.frames = rest
  BY <1>5 DEF OnlyFrames
<1>8. \A f \in FxElements \ disturbed : InStep(s, ended, f)
  BY <1>2, <1>6, LikeCalm
<1>9. AllCalm(s, calls, disturbed)
  BY <1>2, <1>6, <1>7, <1>8 DEF AllCalm
<1>10. CASE calls = MaxCalls
  <2>1. \A f \in FxElements \ disturbed : FxFits(s, ended, f)
    BY <1>2, <1>7, <1>8, CalmFits
  <2>2. FxFitsAll(s, calls, disturbed)
    BY <1>2, <1>6, <1>7, <2>1 DEF FxFitsAll
  <2> QED BY <1>1, <1>3, <1>10, <2>2 DEF FxInv
<1>11. CASE calls # MaxCalls
  <2>1. calls \in Nat /\ id = calls + 1 /\ id \in Ids /\ id \in 0..MaxCalls
    BY <1>3, <1>11, EffectsAssumption DEF Ids, id
  <2>2. item \in FxItems /\ item.id = calls + 1
    BY <2>1 DEF FxItems, CallbackNames, item
  <2>3. FxFitsAll(Queued(s, e, item), calls + 1, disturbed)
    BY <1>9, <2>1, <2>2, QueuedKeeps
  <2> QED BY <1>1, <1>3, <1>11, <2>1, <2>3 DEF FxInv
<1> QED BY <1>10, <1>11

LEMMA KeptByDelayOver ==
  ASSUME FxInv, NEW d \in fx.waiting, DelayOver(d)
  PROVE  FxInv'
<1> DEFINE s == [fx EXCEPT !.waiting = @ \ {d}]
           e == d.elem
<1>1. fx' = Dequeued(s, e) /\ calls' = calls /\ disturbed' = disturbed
  BY DEF DelayOver
<1>2. /\ fx.frames = <<>> /\ EndedIn(fx.frames) = {} /\ IdsFit(fx, {}, calls)
      /\ fx \in FxStates /\ calls \in 0..MaxCalls /\ disturbed \subseteq FxElements
      /\ \A f \in FxElements : Guarded(fx, f)
      /\ \A f \in FxElements \ disturbed : InStep(fx, {}, f)
  BY FxInvParts, IdleIsCalm DEF DelayOver
<1>3. d \in FxDelays /\ d.elem \in FxElements /\ d.id \in Ids /\ d = [elem |-> d.elem, id |-> d.id]
      /\ fx.waiting \subseteq FxDelays
  BY <1>2 DEF FxStates, FxDelays
<1>4. /\ s \in FxStates /\ s.queue = fx.queue /\ s.timers = fx.timers /\ s.left = fx.left
      /\ s.waiting = fx.waiting \ {d} /\ s.frames = <<>>
  BY <1>2 DEF FxStates
<1> HIDE DEF s, e
<1>5. IdsFit(s, {}, calls)
  <2>1. ItemsFit(fx) /\ TimersFit(fx.timers)
    BY <1>2 DEF IdsFit
  <2>2. Shrinks(fx, s)
    BY <1>4, <2>1, SameItems DEF Shrinks
  <2> QED BY <1>2, <2>2, FewerNumbers
<1>6. \A f \in FxElements : Guarded(s, f)
  BY <1>2, <1>4 DEF Guarded
<1>7. ASSUME NEW f \in FxElements \ disturbed, f # e PROVE InStep(s, {}, f)
  <2>1. LikeFor(fx, s, {}, f)
    <3>1. RunsNow(s, f) = RunsNow(fx, f)
      BY <1>4, <1>7 DEF RunsNow, e
    <3>2. \A at \in Nat : Ahead(fx, f, at) => Ahead(s, f, at)
      BY <1>4 DEF Ahead
    <3> QED BY <1>4, <3>1, <3>2 DEF LikeFor, TimersLive, TimersWhole
  <2> QED BY <1>2, <1>7, <2>1, LikeCalm
<1>8. ASSUME e \notin disturbed
      PROVE  RunsNow(s, e) = {} /\ TimersLive(s, {}, e) /\ TimersWhole(s, e)
  <2>1. InStep(fx, {}, e)
    BY <1>2, <1>3, <1>8 DEF e
  <2>2. TimersLive(s, {}, e) /\ TimersWhole(s, e)
    BY <1>4, <2>1 DEF InStep, TimersLive, TimersWhole
  <2>3. d.id \in RunsNow(fx, e)
    BY DEF RunsNow, e
  <2>4. RunsNow(fx, e) = {d.id}
    BY <2>1, <2>3 DEF InStep, TellsTruth
  <2>5. \A t \in Range(fx.timers) : t.id # d.id
    BY <1>2 DEF IdsFit, NumbersFit
  <2>6. \A t \in Range(s.timers) : t.elem = e => s.left[t.id] = {}
    <3> SUFFICES ASSUME NEW t \in Range(fx.timers), t.elem = e, fx.left[t.id] # {} PROVE FALSE
      BY <1>4
    <3>1. t.id \in RunsNow(fx, e)
      BY DEF RunsNow
    <3> QED BY <2>4, <2>5, <3>1
  <2>7. \A w \in s.waiting : w.elem # e
    <3> SUFFICES ASSUME NEW w \in fx.waiting, w # d, w.elem = e PROVE FALSE
      BY <1>4
    <3>1. w.id \in RunsNow(fx, e)
      BY DEF RunsNow
    <3>2. w.id = d.id /\ w.elem = d.elem
      BY <2>4, <3>1 DEF e
    <3>3. w = [elem |-> w.elem, id |-> w.id]
      BY <1>3 DEF FxDelays
    <3> QED BY <1>3, <3>2, <3>3
  <2>8. RunsNow(s, e) = {}
    BY <2>6, <2>7 DEF RunsNow
  <2> QED BY <2>2, <2>8
<1>9. MayDequeue(s, e, calls, disturbed)
  BY <1>4, <1>5, <1>6, <1>7, <1>8, EmptyStack DEF MayDequeue
<1>10. FxFitsAll(Dequeued(s, e), calls, disturbed)
  BY <1>3, <1>9, DequeueKeeps DEF e
<1> QED BY <1>1, <1>2, <1>10 DEF FxInv

-----------------------------------------------------------------------------
(* The last step of an fx object.                                          *)

\* What it leaves: one thing less to do, and perhaps a callback to wait for.
LessToDo(n, t, u) ==
    /\ u \in FxStates /\ u.queue = n.queue /\ u.timers = n.timers /\ u.waiting = n.waiting
    /\ u.left = [n.left EXCEPT ![t.id] = @ \ {t.prop}]
DoneOne(n, f, t, r) ==
    \E u : /\ LessToDo(n, t, u) /\ StackOk(u.frames)
           /\ \/ u.left[t.id] # {} /\ r = u /\ u.frames = <<f>>
              \/ /\ u.left[t.id] = {} /\ r = Dequeued(u, t.elem)
                 /\ CanCall(u.frames) /\ EndedIn(u.frames) = {t}

LEMMA LastStepIs ==
  ASSUME NEW n \in FxStates, NEW t \in FxTimers, NEW f \in FxFrames, f.op # "callback", f.ended = t,
         t # NoTimer, Stands(f, <<>>, <<f>>), f.op = "stop" => f.toEnd,
         NEW s, OnlyFrames(n, s, <<f>>)
  PROVE  DoneOne(n, f, t, LastStep(s, t))
<1> DEFINE marked == [s EXCEPT !.left[t.id] = @ \ {t.prop}]
           hidden == [marked EXCEPT !.shown[t.elem] = @ /\ ~t.hide]
           b == [op |-> "callback", elem |-> t.elem, cb |-> t.cb]
           after == IF t.cb = "none" THEN hidden
                     ELSE [hidden EXCEPT !.frames = <<b>> \o @]
           left == [n.left EXCEPT ![t.id] = @ \ {t.prop}]
           r == LastStep(s, t)
           one == <<f>>
           two == <<b>> \o one
<1>1. r = IF marked.left[t.id] # {} THEN marked ELSE Dequeued(after, t.elem)
  BY DEF LastStep
<1>2. t.id \in Ids /\ t.elem \in FxElements /\ t.cb \in CallbackNames /\ t.hide \in BOOLEAN
  BY DEF FxTimers
<1>3. /\ one \in Seq(FxFrames) /\ StackOk(one) /\ EndedIn(one) = EndsOf(f) /\ one # <<>>
      /\ Head(one) = f /\ Len(one) = 1
  BY EmptyStack DEF Stands
<1>4. EndsOf(f) = {t}
  BY DEF EndsOf
<1>5. CanCall(one)
  BY <1>3 DEF CanCall
<1>6. b \in FxFrames /\ b.op = "callback" /\ EndsOf(b) = {}
  BY <1>2 DEF FxFrames, CallFrames, EndsOf
<1>7. s \in FxStates /\ s.queue = n.queue /\ s.timers = n.timers /\ s.waiting = n.waiting
      /\ s.left = n.left /\ s.frames = one
  BY DEF OnlyFrames, SameRuns
<1> HIDE DEF b, one
<1>8. Stands(b, one, two)
  BY <1>3, <1>5, <1>6, FrameStands DEF MayStand
<1> HIDE DEF two
<1>9. two \in Seq(FxFrames) /\ StackOk(two) /\ CanCall(two) /\ EndedIn(two) = {t}
  BY <1>3, <1>4, <1>6, <1>8 DEF Stands
<1>10. left \in [Ids -> SUBSET (1..Props)] /\ marked = [s EXCEPT !.left = left]
  BY <1>7 DEF FxStates
<1>11. left = [n.left EXCEPT ![t.id] = @ \ {t.prop}]
  OBVIOUS
<1> HIDE DEF left, marked
<1>12. /\ marked \in FxStates /\ marked.queue = n.queue /\ marked.timers = n.timers
       /\ marked.waiting = n.waiting /\ marked.left = left /\ marked.frames = one
  BY <1>7, <1>10 DEF FxStates
<1>13. LessToDo(n, t, marked)
  BY <1>11, <1>12 DEF LessToDo
<1> DEFINE shown1 == [marked.shown EXCEPT ![t.elem] = @ /\ ~t.hide]
<1>14. shown1 \in [FxElements -> BOOLEAN] /\ hidden = [marked EXCEPT !.shown = shown1]
  <2>1. marked.shown \in [FxElements -> BOOLEAN]
    BY <1>12 DEF FxStates
  <2>2. (marked.shown[t.elem] /\ ~t.hide) \in BOOLEAN
    OBVIOUS
  <2>3. shown1 \in [FxElements -> BOOLEAN]
    BY <2>1, <2>2
  <2> QED BY <1>12, <2>3 DEF FxStates
<1> HIDE DEF shown1, hidden
<1>15. /\ hidden \in FxStates /\ hidden.queue = n.queue /\ hidden.timers = n.timers
       /\ hidden.waiting = n.waiting /\ hidden.left = left /\ hidden.frames = one
  BY <1>12, <1>14 DEF FxStates
<1>16. LessToDo(n, t, after) /\ after.left = left /\ StackOk(after.frames) /\ CanCall(after.frames)
       /\ EndedIn(after.frames) = {t}
  <2>1. CASE t.cb = "none"
    BY <1>3, <1>4, <1>5, <1>11, <1>15, <2>1 DEF LessToDo
  <2>2. CASE t.cb # "none"
    <3>1. after = [hidden EXCEPT !.frames = two]
      BY <1>15, <2>2 DEF two, FxStates
    <3> HIDE DEF after
    <3>2. /\ after \in FxStates /\ after.queue = n.queue /\ after.timers = n.timers
          /\ after.waiting = n.waiting /\ after.left = left /\ after.frames = two
      BY <1>9, <1>15, <3>1 DEF FxStates
    <3> QED BY <1>9, <1>11, <3>2 DEF LessToDo
  <2> QED BY <2>1, <2>2
<1> HIDE DEF after, r
<1>17. CASE left[t.id] # {}
  <2>1. r = marked
    BY <1>1, <1>12, <1>17
  <2>2. DoneOne(n, f, t, r)
    BY <1>3, <1>12, <1>13, <1>17, <2>1 DEF DoneOne, one
  <2> QED BY <2>2 DEF r
<1>18. CASE left[t.id] = {}
  <2>1. r = Dequeued(after, t.elem)
    BY <1>1, <1>12, <1>18
  <2>2. DoneOne(n, f, t, r)
    BY <1>16, <1>18, <2>1 DEF DoneOne
  <2> QED BY <2>2 DEF r
<1> QED BY <1>17, <1>18

\* The fx object is one of those that run, if the others do not count.
LEMMA LessToDoFits ==
  ASSUME NEW n, NEW last, IdsFit(n, {}, last), NEW t \in Range(n.timers), NEW u, LessToDo(n, t, u)
  PROVE  IdsFit(u, {t}, last) /\ \A f \in FxElements : Guarded(u, f) <=> Guarded(n, f)
<1>1. ItemsFit(n) /\ TimersFit(n.timers)
  BY DEF IdsFit
<1>2. Shrinks(n, u)
  BY <1>1, SameItems DEF Shrinks, LessToDo
<1>3. {t} \subseteq {} \cup Range(n.timers)
  OBVIOUS
<1> QED BY <1>2, <1>3, FewerNumbers DEF LessToDo, Guarded

LessFor(n, t, u, f) ==
    /\ TimersLive(u, {t}, f) /\ TimersWhole(u, f)
    /\ f # t.elem => RunsNow(u, f) = RunsNow(n, f)
    /\ f = t.elem => t.id \in RunsNow(n, f)
    /\ f = t.elem /\ RunsNow(n, f) = {t.id} =>
          /\ u.left[t.id] = {} => RunsNow(u, f) = {}
          /\ u.left[t.id] # {} => RunsNow(u, f) = {t.id}

LEMMA LessToDoFor ==
  ASSUME NEW n, NEW last, IdsFit(n, {}, last), NEW t \in Range(n.timers), NEW u, LessToDo(n, t, u),
         NEW f, TimersLive(n, {}, f), TimersWhole(n, f)
  PROVE  LessFor(n, t, u, f)
<1>1. /\ u.timers = n.timers /\ u.waiting = n.waiting /\ u.left = [n.left EXCEPT ![t.id] = @ \ {t.prop}]
      /\ n.left \in [Ids -> SUBSET (1..Props)] /\ n.timers \in Seq(FxTimers)
  BY DEF LessToDo, IdsFit, FxStates
<1>2. \A x \in Range(n.timers) : x \in FxTimers /\ x.id \in Ids
  <2>1. Range(n.timers) \subseteq FxTimers
    BY <1>1 DEF Range
  <2> QED BY <2>1 DEF FxTimers
<1>3. \A x, y \in Range(n.timers) : x.id = y.id => x.elem = y.elem /\ (x.prop = y.prop => x = y)
  BY DEF IdsFit, TimersFit
<1>4. /\ u.left[t.id] = n.left[t.id] \ {t.prop}
      /\ \A x \in Range(n.timers) : x.id # t.id => u.left[x.id] = n.left[x.id]
      /\ \A x \in Range(n.timers) : u.left[x.id] \subseteq n.left[x.id]
  BY <1>1, <1>2
<1>5. TimersLive(u, {t}, f)
  <2> SUFFICES ASSUME NEW x \in Range(n.timers), x.elem = f
               PROVE  x.prop \in u.left[x.id] <=> x # t
    BY <1>1 DEF TimersLive
  <2>1. x.prop \in n.left[x.id]
    BY DEF TimersLive
  <2>2. CASE x.id = t.id
    BY <1>3, <1>4, <2>1, <2>2
  <2>3. CASE x.id # t.id
    BY <1>4, <2>1, <2>3
  <2> QED BY <2>2, <2>3
<1>6. TimersWhole(u, f)
  BY <1>1, <1>4 DEF TimersWhole
<1>7. ASSUME f # t.elem PROVE RunsNow(u, f) = RunsNow(n, f)
  <2>1. \A x \in Range(n.timers) : x.elem = f => u.left[x.id] = n.left[x.id]
    BY <1>3, <1>4, <1>7
  <2> QED BY <1>1, <2>1 DEF RunsNow
<1>8. ASSUME f = t.elem PROVE t.id \in RunsNow(n, f)
  <2>1. t.prop \in n.left[t.id]
    BY <1>8 DEF TimersLive
  <2> QED BY <1>8, <2>1 DEF RunsNow
<1>9. ASSUME f = t.elem, RunsNow(n, f) = {t.id}
      PROVE  /\ u.left[t.id] = {} => RunsNow(u, f) = {}
             /\ u.left[t.id] # {} => RunsNow(u, f) = {t.id}
  <2>1. \A w \in n.waiting : w.elem # f
    <3> SUFFICES ASSUME NEW w \in n.waiting, w.elem = f PROVE FALSE
      OBVIOUS
    <3>1. w.id \in RunsNow(n, f)
      BY DEF RunsNow
    <3>2. w.id = t.id
      BY <1>9, <3>1
    <3> QED BY <3>2 DEF IdsFit, NumbersFit
  <2>2. \A x \in Range(n.timers) : x.elem = f /\ u.left[x.id] # {} => x.id = t.id
    <3> SUFFICES ASSUME NEW x \in Range(n.timers), x.elem = f, u.left[x.id] # {} PROVE x.id = t.id
      OBVIOUS
    <3>1. n.left[x.id] # {}
      BY <1>4
    <3>2. x.id \in RunsNow(n, f)
      BY <3>1 DEF RunsNow
    <3> QED BY <1>9, <3>2
  <2>3. RunsNow(u, f) \subseteq {t.id}
    BY <1>1, <2>1, <2>2 DEF RunsNow
  <2>4. u.left[t.id] # {} => t.id \in RunsNow(u, f)
    BY <1>1, <1>9 DEF RunsNow
  <2>5. u.left[t.id] = {} => t.id \notin RunsNow(u, f)
    BY <1>1, <2>1 DEF RunsNow
  <2> QED BY <2>3, <2>4, <2>5
<1> QED BY <1>5, <1>6, <1>7, <1>8, <1>9 DEF LessFor

\* An element that is calm, or that stop is about, goes on so.
LEMMA LessToDoStopping ==
  ASSUME NEW n, NEW last, IdsFit(n, {}, last), NEW t \in Range(n.timers), NEW u, LessToDo(n, t, u),
         NEW f, NEW at, Stopping(n, {}, f, at), f # t.elem \/ u.left[t.id] # {}
  PROVE  Stopping(u, {t}, f, at) /\ (InStep(n, {}, f) => InStep(u, {t}, f))
<1>1. TimersLive(n, {}, f) /\ TimersWhole(n, f)
  BY DEF Stopping, InStep
<1>l. LessFor(n, t, u, f)
  BY <1>1, LessToDoFor
<1>2. TimersLive(u, {t}, f) /\ TimersWhole(u, f)
  BY <1>l DEF LessFor
<1>3. u.queue = n.queue /\ u.timers = n.timers /\ u.waiting = n.waiting
  BY DEF LessToDo
<1>4. ASSUME NEW id, RunsNow(n, f) = {id} PROVE RunsNow(u, f) = {id}
  <2>1. CASE f # t.elem
    BY <1>l, <1>4, <2>1 DEF LessFor
  <2>2. CASE f = t.elem
    <3>1. t.id = id
      BY <1>l, <1>4, <2>2 DEF LessFor
    <3> QED BY <1>l, <1>4, <2>2, <3>1 DEF LessFor
  <2> QED BY <2>1, <2>2
<1>5. ASSUME RunsNow(n, f) = {} PROVE RunsNow(u, f) = {}
  <2>1. f # t.elem
    BY <1>l, <1>5 DEF LessFor
  <2> QED BY <1>l, <1>5, <2>1 DEF LessFor
<1>6. TellsTruth(n, f) => TellsTruth(u, f)
  BY <1>3, <1>4, <1>5 DEF TellsTruth, HasSentinel
<1>7. Cleared(n, f, at) => Cleared(u, f, at)
  BY <1>3, <1>4 DEF Cleared, Ahead
<1> QED BY <1>2, <1>6, <1>7 DEF Stopping, InStep

\* The last animation of an element.
LEMMA LessToDoNothing ==
  ASSUME NEW n, NEW last, IdsFit(n, {}, last), NEW t \in Range(n.timers), NEW u, LessToDo(n, t, u),
         NEW at, Stopping(n, {}, t.elem, at), u.left[t.id] = {}
  PROVE  RunsNow(u, t.elem) = {} /\ TimersLive(u, {t}, t.elem) /\ TimersWhole(u, t.elem)
<1>1. TimersLive(n, {}, t.elem) /\ TimersWhole(n, t.elem)
  BY DEF Stopping, InStep
<1>2. LessFor(n, t, u, t.elem)
  BY <1>1, LessToDoFor
<1>3. RunsNow(n, t.elem) = {t.id}
  <2>1. t.id \in RunsNow(n, t.elem)
    BY <1>2 DEF LessFor
  <2> QED BY <2>1 DEF Stopping, InStep, Cleared, TellsTruth
<1> QED BY <1>2, <1>3 DEF LessFor

\* The last step in a loop that is alone.
LEMMA KeptByLastStep ==
  ASSUME FxInv, NEW at \in DOMAIN fx.timers, NEW t, t = fx.timers[at], NEW f \in FxFrames,
         f.op # "callback", f.ended = t, Stands(f, <<>>, <<f>>), f.op = "stop" => f.toEnd /\ f.elem = t.elem,
         IdsFit(fx, {}, calls),
         \A g \in FxElements \ disturbed :
            InStep(fx, {}, g) \/ (f.op = "stop" /\ g = t.elem /\ Stopping(fx, {}, g, f.at)),
         fx' = LastStep([fx EXCEPT !.frames = <<f>>], t), calls' = calls, disturbed' = disturbed
  PROVE  FxInv'
<1> DEFINE one == <<f>>
           s == [fx EXCEPT !.frames = one]
<1>1. /\ fx \in FxStates /\ fx.timers \in Seq(FxTimers) /\ calls \in 0..MaxCalls
      /\ disturbed \subseteq FxElements /\ \A g \in FxElements : Guarded(fx, g)
  BY FxInvParts
<1>2. t \in FxTimers /\ t \in Range(fx.timers) /\ t.elem \in FxElements /\ t # NoTimer
  <2>1. t \in FxTimers /\ t \in Range(fx.timers)
    BY <1>1 DEF Range
  <2>2. t.prop \in 1..Props /\ t.elem \in FxElements
    BY <2>1 DEF FxTimers
  <2>3. t.prop # 0
    BY <2>2, EffectsAssumption
  <2> QED BY <2>1, <2>2, <2>3 DEF NoTimer
<1>3. /\ one \in Seq(FxFrames) /\ StackOk(one) /\ EndedIn(one) = {t}
      /\ Head(one) = f /\ one # <<>> /\ Len(one) = 1
  BY <1>2, EmptyStack DEF Stands, EndsOf
<1>o. one = <<f>>
  OBVIOUS
<1>4. OnlyFrames(fx, s, one)
  BY <1>1, <1>3, WithFrames
<1>5. fx' = LastStep(s, t)
  OBVIOUS
<1> HIDE DEF s
<1>6. DoneOne(fx, f, t, fx')
  BY <1>1, <1>2, <1>4, <1>5, LastStepIs
<1>7. PICK u : /\ LessToDo(fx, t, u) /\ StackOk(u.frames)
               /\ \/ u.left[t.id] # {} /\ fx' = u /\ u.frames = one
                  \/ /\ u.left[t.id] = {} /\ fx' = Dequeued(u, t.elem)
                     /\ CanCall(u.frames) /\ EndedIn(u.frames) = {t}
  BY <1>6, <1>o DEF DoneOne
<1> HIDE DEF one
<1>8. IdsFit(u, {t}, calls) /\ \A g \in FxElements : Guarded(u, g)
  BY <1>1, <1>2, <1>7, LessToDoFits
<1>9. ASSUME NEW g \in FxElements \ disturbed
      PROVE  \E place : Stopping(fx, {}, g, place)
  BY <1>9 DEF Stopping
<1>10. CASE u.left[t.id] # {} /\ fx' = u /\ u.frames = one
  <2>1. ASSUME NEW g \in FxElements \ disturbed PROVE FxFits(u, {t}, g)
    <3>1. CASE InStep(fx, {}, g)
      <4>1. Stopping(fx, {}, g, 0)
        BY <3>1 DEF Stopping
      <4>2. InStep(u, {t}, g)
        BY <1>2, <1>7, <1>10, <3>1, <4>1, LessToDoStopping
      <4> QED BY <1>3, <1>10, <4>2, WhoFits
    <3>2. CASE f.op = "stop" /\ g = t.elem /\ Stopping(fx, {}, g, f.at)
      <4>1. Stopping(u, {t}, g, f.at)
        BY <1>2, <1>7, <1>10, <3>2, LessToDoStopping
      <4>2. u.frames # <<>> /\ Head(u.frames) = f /\ Len(u.frames) = 1
        BY <1>3, <1>10
      <4>3. f.toEnd /\ f.elem = g
        BY <3>2
      <4>4. CASE InStep(u, {t}, g)
        BY <4>2, <4>3, <4>4, WhoFits
      <4>5. CASE ~InStep(u, {t}, g)
        <5>1. TimersLive(u, {t}, g) /\ TimersWhole(u, g) /\ Cleared(u, g, f.at)
          BY <4>1, <4>5 DEF Stopping
        <5>2. f.toEnd = TRUE
          <6>1. f \in StopFrames
            BY <3>2, FrameKinds
          <6> QED BY <4>3, <6>1 DEF StopFrames
        <5>3. Stops(u, TRUE) /\ ~Stops(u, FALSE)
          BY <3>2, <4>2, <5>2 DEF Stops
        <5> QED BY <4>2, <4>3, <5>1, <5>3 DEF FxFits
      <4> QED BY <4>4, <4>5
    <3> QED BY <2>1, <3>1, <3>2
  <2>2. FxFitsAll(u, calls, disturbed)
    BY <1>3, <1>8, <1>10, <2>1 DEF FxFitsAll
  <2> QED BY <1>1, <1>10, <2>2 DEF FxInv
<1>11. CASE /\ u.left[t.id] = {} /\ fx' = Dequeued(u, t.elem)
            /\ CanCall(u.frames) /\ EndedIn(u.frames) = {t}
  <2>1. ASSUME NEW g \in FxElements \ disturbed, g # t.elem PROVE InStep(u, {t}, g)
    <3>1. InStep(fx, {}, g)
      BY <2>1
    <3>2. Stopping(fx, {}, g, 0)
      BY <3>1 DEF Stopping
    <3> QED BY <1>2, <1>7, <2>1, <3>1, <3>2, LessToDoStopping
  <2>2. ASSUME t.elem \notin disturbed
        PROVE  RunsNow(u, t.elem) = {} /\ TimersLive(u, {t}, t.elem) /\ TimersWhole(u, t.elem)
    <3>1. PICK place : Stopping(fx, {}, t.elem, place)
      BY <1>2, <1>9, <2>2
    <3> QED BY <1>2, <1>7, <1>11, <3>1, LessToDoNothing
  <2>3. MayDequeue(u, t.elem, calls, disturbed)
    BY <1>7, <1>8, <1>11, <2>1, <2>2 DEF MayDequeue
  <2>4. FxFitsAll(Dequeued(u, t.elem), calls, disturbed)
    BY <1>2, <2>3, DequeueKeeps
  <2> QED BY <1>1, <1>11, <2>4 DEF FxInv
<1> QED BY <1>7, <1>10, <1>11

LEMMA KeptByTickLastStep ==
  ASSUME FxInv, TickLastStep
  PROVE  FxInv'
<1> DEFINE at == Frame.at
           t == fx.timers[at]
           f == [Frame EXCEPT !.ended = t]
<1>1. /\ TopFrame("tick") /\ Frame.ended = NoTimer /\ at \in DOMAIN fx.timers
      /\ fx' = LastStep(FrameNow(f), t) /\ calls' = calls /\ disturbed' = disturbed
  BY DEF TickLastStep, TickRuns
<1>2. /\ Frame \in TickFrames /\ Tail(fx.frames) = <<>> /\ EndedIn(fx.frames) = {}
      /\ \A g \in FxElements \ disturbed : InStep(fx, {}, g)
  BY <1>1, TickIsAlone DEF EndsOf
<1>3. fx \in FxStates /\ fx.timers \in Seq(FxTimers) /\ IdsFit(fx, {}, calls)
  BY <1>2, FxInvParts
<1>4. t \in FxTimers
  BY <1>1, <1>3
<1>5. f \in FxFrames /\ f.op = "tick" /\ f.ended = t
  BY <1>2, <1>4 DEF FxFrames, TickFrames
<1> HIDE DEF f
<1>6. <<f>> \o <<>> = <<f>>
  OBVIOUS
<1>7. Stands(f, <<>>, <<f>>)
  BY <1>5, <1>6, EmptyStack, FrameStands DEF MayStand
<1>8. fx' = LastStep([fx EXCEPT !.frames = <<f>>], t)
  BY <1>1, <1>2, <1>3, <1>6 DEF FrameNow, FxStates
<1> QED BY <1>1, <1>2, <1>3, <1>5, <1>7, <1>8, KeptByLastStep

LEMMA KeptByStopLastStep ==
  ASSUME FxInv, StopLastStep
  PROVE  FxInv'
<1> DEFINE at == Frame.at
           t == fx.timers[at]
           f == [Frame EXCEPT !.ended = t]
<1>1. /\ TopFrame("stop") /\ Frame.ended = NoTimer /\ at \in DOMAIN fx.timers
      /\ t.elem = Frame.elem /\ Frame.toEnd
      /\ fx' = LastStep(FrameNow(f), t) /\ calls' = calls /\ disturbed' = disturbed
  BY DEF StopLastStep
<1>2. StopsOn(Tail(fx.frames), EndedIn(fx.frames))
  BY <1>1, StopIsOn
<1>3. /\ Frame \in StopFrames /\ Tail(fx.frames) = <<>> /\ EndedIn(fx.frames) = {}
      /\ Frame.elem \in FxElements
  <2>1. Frame \in StopFrames /\ Tail(fx.frames) = <<>> /\ EndedIn(Tail(fx.frames)) = {}
        /\ EndedIn(fx.frames) = EndsOf(Frame) \cup EndedIn(Tail(fx.frames))
        /\ Frame.elem \in FxElements
    BY <1>1, <1>2 DEF StopsOn
  <2>2. EndsOf(Frame) = {}
    BY <1>1 DEF EndsOf
  <2> QED BY <2>1, <2>2
<1>4. /\ \A g \in FxElements \ disturbed : g # Frame.elem => InStep(fx, {}, g)
      /\ Frame.elem \notin disturbed => Stopping(fx, {}, Frame.elem, at)
  BY <1>1, <1>2, <1>3 DEF StopsOn
<1>5. fx \in FxStates /\ fx.timers \in Seq(FxTimers) /\ IdsFit(fx, {}, calls)
  BY <1>3, FxInvParts
<1>6. t \in FxTimers /\ at > 0
  BY <1>1, <1>5
<1>7. f \in FxFrames /\ f.op = "stop" /\ f.ended = t /\ f.toEnd /\ f.elem = t.elem /\ f.at = at
  BY <1>1, <1>3, <1>6 DEF FxFrames, StopFrames
<1> HIDE DEF f
<1>8. <<f>> \o <<>> = <<f>>
  OBVIOUS
<1>9. Stands(f, <<>>, <<f>>)
  BY <1>6, <1>7, <1>8, EmptyStack, FrameStands DEF MayStand
<1>10. fx' = LastStep([fx EXCEPT !.frames = <<f>>], t)
  BY <1>1, <1>3, <1>5, <1>8 DEF FrameNow, FxStates
<1>11. \A g \in FxElements \ disturbed :
          InStep(fx, {}, g) \/ (f.op = "stop" /\ g = t.elem /\ Stopping(fx, {}, g, f.at))
  BY <1>1, <1>4, <1>7
<1> QED BY <1>1, <1>5, <1>7, <1>9, <1>10, <1>11, KeptByLastStep

LEMMA KeptByLoops ==
  ASSUME FxInv, Loops
  PROVE  FxInv'
BY KeptByTickSplice, KeptByTickReturns, KeptByStopStep, KeptByStopLastStep, KeptByStopSplice,
   KeptByStopReturns, KeptByStopRaises, KeptByCallbackStops, KeptByCallbackAnimates DEF Loops

LEMMA KeptByFxPage ==
  ASSUME FxInv, FxPage
  PROVE  FxInv'
<1>1. PICK e \in FxElements :
         \/ \E kind \in FxKinds, cb \in Callbacks : Animate(e, kind, cb)
         \/ \E seen \in BOOLEAN : ShowOrHide(e, seen)
         \/ \E clear, toEnd \in BOOLEAN : Stop(e, clear, toEnd)
         \/ Delay(e) \/ ClearQueue(e)
  BY DEF FxPage
<1>2. ASSUME NEW kind \in FxKinds, NEW cb \in Callbacks, Animate(e, kind, cb) PROVE FxInv'
  <2>1. kind \in FxKinds \cup {"delay", "move"} /\ cb \in CallbackNames
    BY EffectsAssumption DEF CallbackNames
  <2> QED BY <1>2, <2>1, KeptByQueued DEF Animate
<1>3. ASSUME Delay(e) PROVE FxInv'
  <2>1. "delay" \in FxKinds \cup {"delay", "move"} /\ "none" \in CallbackNames
    BY DEF CallbackNames
  <2> QED BY <1>3, <2>1, KeptByQueued DEF Delay
<1> QED BY <1>1, <1>2, <1>3, KeptByShowOrHide, KeptByStop, KeptByClearQueue

LEMMA FxInvStep == FxInv /\ [FxNext]_fxVars => FxInv'
<1> SUFFICES ASSUME FxInv, [FxNext]_fxVars PROVE FxInv'
  OBVIOUS
<1>1. CASE UNCHANGED fxVars
  <2>1. fx' = fx /\ calls' = calls /\ disturbed' = disturbed
    BY <1>1 DEF fxVars
  <2> QED BY <2>1 DEF FxInv
<1> QED BY <1>1, KeptByFxPage, KeptByTick, KeptByTickStep, KeptByTickLastStep, KeptByDelayOver,
           KeptByLoops DEF FxNext

\* The invariant says what the sentinel promises.
LEMMA FxInvTells == FxInv => SentinelTellsTruth
<1> SUFFICES ASSUME FxInv, NEW e \in FxElements \ disturbed,
                    ~\E i \in DOMAIN fx.frames : fx.frames[i].op = "stop" /\ fx.frames[i].elem = e
             PROVE  Cardinality(RunningIn(fx, e)) =
                       IF fx.queue[e] # <<>> /\ Head(fx.queue[e]) = Sentinel THEN 1 ELSE 0
  BY DEF SentinelTellsTruth
<1>1. fx.frames # <<>> => Head(fx.frames).op # "stop" \/ Head(fx.frames).elem # e
  <2>1. fx.frames # <<>> => 1 \in DOMAIN fx.frames /\ Head(fx.frames) = fx.frames[1]
    BY FxInvParts
  <2> QED BY <2>1
<1>2. InStep(fx, EndedIn(fx.frames), e)
  BY <1>1, FxInvParts, WhoIsCalm
<1>3. TellsTruth(fx, e) /\ RunningIn(fx, e) = RunsNow(fx, e)
  BY <1>2, SameAsRunning DEF InStep
<1>4. CASE HasSentinel(fx, e)
  <2>1. \E id : RunningIn(fx, e) = {id}
    BY <1>3, <1>4 DEF TellsTruth
  <2>2. Cardinality(RunningIn(fx, e)) = 1
    BY <2>1, FS_Singleton
  <2> QED BY <1>4, <2>2 DEF HasSentinel
<1>5. CASE ~HasSentinel(fx, e)
  <2>1. RunningIn(fx, e) = {}
    BY <1>3, <1>5 DEF TellsTruth
  <2>2. Cardinality(RunningIn(fx, e)) = 0
    BY <2>1, FS_EmptySet
  <2> QED BY <1>5, <2>2 DEF HasSentinel
<1> QED BY <1>4, <1>5
-----------------------------------------------------------------------------
(***************************************************************************)
(* jQuery and the forms together.  A step of the page is a step of one     *)
(* script, or of none, so that each keeps its own invariant.               *)
(***************************************************************************)
FormsInv == FormInv /\ RailsInv /\ ReadyInv /\ (scene = "ajax" => Nobodys)

LEMMA FormsStart == Init => FormsInv
<1>1. Init => FormInit /\ RailsInit /\ ReadyInit /\ Nobodys
  BY DEF Init, RailsInit, Nobodys
<1> QED BY <1>1, FormStarts, RailsStarts, ReadyStarts DEF FormsInv

\* Every script but the one whose turn it is stays as it is.
LEMMA OneAtATime ==
  ASSUME Next
  PROVE  /\ [FormNext]_formVars /\ [ReadyNext]_readyVars /\ scene' = scene
         /\ scene = "ajax" => owner' = owner
         /\ \/ [RailsNext]_railsVars
            \/ /\ [AjaxNext]_ajaxVars /\ UNCHANGED <<bound, button, owner, sentTo>>
               /\ scene = "ajax"
<1>1. ASSUME NEW s, In(s)
      PROVE  /\ scene = s /\ scene' = scene
             /\ s = "form" \/ UNCHANGED formVars
             /\ s = "rails" \/ UNCHANGED <<bound, button, owner, sentTo>>
             /\ s = "rails" \/ s = "ajax" \/ UNCHANGED ajaxVars
             /\ s = "ready" \/ UNCHANGED readyVars
  BY <1>1 DEF In
<1>2. [FormNext]_formVars
  BY <1>1 DEF Next
<1>3. \/ [RailsNext]_railsVars
      \/ /\ [AjaxNext]_ajaxVars /\ UNCHANGED <<bound, button, owner, sentTo>>
         /\ scene = "ajax"
  <2>1. CASE scene = "ajax"
    BY <1>1, <2>1 DEF Next
  <2>2. CASE scene # "ajax"
    BY <1>1, <2>2 DEF Next, railsVars, ajaxVars
  <2> QED BY <2>1, <2>2
<1>5. scene' = scene /\ (scene = "ajax" => owner' = owner)
  BY <1>1 DEF Next
<1>4. [ReadyNext]_readyVars
  BY <1>1 DEF Next
<1> QED BY <1>2, <1>3, <1>4, <1>5

LEMMA FormsStep == FormsInv /\ [Next]_vars => FormsInv'
<1> SUFFICES ASSUME FormsInv, [Next]_vars PROVE FormsInv'
  OBVIOUS
<1>1. /\ [FormNext]_formVars /\ [ReadyNext]_readyVars /\ scene' = scene
      /\ scene = "ajax" => owner' = owner
      /\ \/ [RailsNext]_railsVars
         \/ /\ [AjaxNext]_ajaxVars /\ UNCHANGED <<bound, button, owner, sentTo>>
            /\ scene = "ajax"
  <2>1. CASE Next
    BY <2>1, OneAtATime
  <2>2. CASE UNCHANGED vars
    BY <2>2 DEF vars, railsVars
  <2> QED BY <2>1, <2>2
<1>2. FormInv' /\ ReadyInv'
  BY <1>1, FormSteps, ReadySteps DEF FormsInv
<1>3. RailsInv'
  BY <1>1, RailsSteps, AjaxKeepsRails DEF FormsInv
<1>4. scene' = "ajax" => Nobodys'
  BY <1>1 DEF FormsInv, Nobodys
<1> QED BY <1>2, <1>3, <1>4 DEF FormsInv

LEMMA FormsInvHolds == Spec => []FormsInv
BY FormsStart, FormsStep, PTL DEF Spec

(***************************************************************************)
(* The buttons and the box of the post form show what its fields hold, and *)
(* a form that disables its button is sent once, whatever the user does    *)
(* before the answer comes (application.js and rails.js).                  *)
(***************************************************************************)
THEOREM FormsAlwaysHold == Spec => []FormsHold
<1>1. FormsInv => FormsHold
  BY RailsHolds DEF FormsInv, FormInv, FormsHold
<1> QED BY <1>1, FormsInvHolds, PTL

(***************************************************************************)
(* Functions of the page run once, for any functions and requests, whoever *)
(* announces the document and however often, and whatever ends a request:  *)
(* jQuery.ready and jQuery.ajax.                                           *)
(***************************************************************************)
THEOREM FunctionsAlwaysRunOnce == Spec => []FunctionsRunOnce
<1>1. FormsInv => FunctionsRunOnce
  BY AjaxHolds, ReadyHolds DEF FormsInv, RailsInv, FunctionsRunOnce
<1> QED BY <1>1, FormsInvHolds, PTL

LEMMA DomOrNothing ==
  ASSUME [Next]_vars
  PROVE  [DomNext]_domVars
<1>1. CASE Next
  <2>1. ASSUME NEW s, In(s) PROVE s = "data" \/ UNCHANGED domVars
    BY <2>1 DEF In
  <2> QED BY <1>1, <2>1 DEF Next
<1>2. CASE UNCHANGED vars
  BY <1>2 DEF vars
<1> QED BY <1>1, <1>2

(***************************************************************************)
(* The cache of jQuery fits the elements, for any elements, data and       *)
(* events and any calls of the page: each number is one element's and has  *)
(* an entry, the browser listens to an element for the handlers its entry  *)
(* knows and for no others but those removeData let go of, and nothing is  *)
(* left of an element that was removed.                                    *)
(***************************************************************************)
THEOREM CacheAlwaysFits == Spec => []CacheFits
<1>1. Init => DomInv
  BY DomInvInit DEF Init
<1>2. DomInv /\ [Next]_vars => DomInv'
  BY DomOrNothing, DomInvStep
<1> QED BY <1>1, <1>2, DomInvFits, PTL DEF Spec

LEMMA EventsOrNothing ==
  ASSUME [Next]_vars
  PROVE  [EventsNext]_eventVars
<1>1. CASE Next
  <2>1. ASSUME NEW s, In(s) PROVE s = "events" \/ UNCHANGED eventVars
    BY <2>1 DEF In
  <2> QED BY <1>1, <2>1 DEF Next
<1>2. CASE UNCHANGED vars
  BY <1>2 DEF vars
<1> QED BY <1>1, <1>2

(***************************************************************************)
(* An element listens for what it has handlers for, whatever is bound and  *)
(* unbound and whatever the handlers do while they are called: mouseover   *)
(* is handled for mouseenter, and the live handlers have somebody to call  *)
(* them.  A live handler runs once for an event, and a handler of one()    *)
(* once at all, for as long as no handler triggers an event.               *)
(***************************************************************************)
THEOREM HandlersAlwaysMatch == Spec => [](ListenersMatch /\ RunsOnce)
<1>1. Init => EventsInv
  BY EventsInvInit DEF Init
<1>2. EventsInv /\ [Next]_vars => EventsInv'
  BY EventsOrNothing, EventsInvStep
<1>3. EventsInv => ListenersMatch /\ RunsOnce
  BY EventsInvListens, EventsInvRunsOnce
<1> QED BY <1>1, <1>2, <1>3, PTL DEF Spec

LEMMA FxOrNothing ==
  ASSUME [Next]_vars
  PROVE  [FxNext]_fxVars
<1>1. CASE Next
  <2>1. ASSUME NEW s, In(s) PROVE s = "effects" \/ UNCHANGED fxVars
    BY <2>1 DEF In
  <2> QED BY <1>1, <2>1 DEF Next
<1>2. CASE UNCHANGED vars
  BY <1>2 DEF vars
<1> QED BY <1>1, <1>2

(***************************************************************************)
(* The books of jQuery are right, for any page: the sentinel at the head   *)
(* of an animation queue is there while exactly one animation or delay of  *)
(* the element is under way, whatever the callbacks of the animations stop *)
(* and start in the middle of the loops over the fx objects, but for the   *)
(* queues that were moved on behind the sentinel's back; the cache fits    *)
(* the elements and the handlers what is listened for.                     *)
(***************************************************************************)
THEOREM BooksAlwaysRight == Spec => []BooksAreRight
<1>1. Init => FxInv
  BY FxInvInit DEF Init
<1>2. FxInv /\ [Next]_vars => FxInv'
  BY FxOrNothing, FxInvStep
<1>3. Spec => []SentinelTellsTruth
  BY <1>1, <1>2, FxInvTells, PTL DEF Spec
<1>4. CacheFits /\ (ListenersMatch /\ RunsOnce) /\ SentinelTellsTruth => BooksAreRight
  BY DEF BooksAreRight
<1> QED BY <1>3, <1>4, CacheAlwaysFits, HandlersAlwaysMatch, PTL
=============================================================================
