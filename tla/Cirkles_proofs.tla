-------------------------- MODULE Cirkles_proofs --------------------------
(***************************************************************************)
(* Cirkles list their encounters, fit them, and a private cirkle stays of  *)
(* two, for any users, mposts and encounters.  All four follow from one    *)
(* induction: extract_information changes the cirkles by one step (Moved), *)
(* and an encounter in a solo or private cirkle has exactly its members.   *)
(* A second induction on top of it shows that the reference counts add up. *)
(***************************************************************************)
EXTENDS Cirkles, TLAPS, FiniteSetTheorems

UsersOf(S) == {UserOf[m] : m \in S}
RowsOf(x) == {u \in Users : x.status[u] # "none"}

\* How many a cirkle of the sort is for.
Size(sort) == IF sort = "solo" THEN 1 ELSE 2
Small == {"solo", "private"}

-----------------------------------------------------------------------------
(* The operators on rows.                                                  *)

\* Sets of users are finite.
LEMMA UserSets ==
  ASSUME NEW S \in SUBSET Users
  PROVE  IsFiniteSet(S) /\ Cardinality(S) \in Nat
  BY FS_Subset, FS_CardinalityType, DataAssumption DEF DataAssumption

\* A tally counts users, and those of the mposts only.
LEMMA TallyCounts ==
  ASSUME NEW S \in SUBSET Mposts
  PROVE  /\ Tally(S) \in [Users -> Nat]
         /\ \A u \in Users : Tally(S)[u] > 0 => u \in UsersOf(S)
<1>1. ASSUME NEW u \in Users
      PROVE  /\ Sessions(u, S) \in Nat
             /\ Sessions(u, S) > 0 => u \in UsersOf(S)
  <2> DEFINE mine == {m \in S : UserOf[m] = u}
  <2>1. IsFiniteSet(mine) /\ Cardinality(mine) \in Nat
    BY FS_Subset, FS_CardinalityType, DataAssumption DEF DataAssumption
  <2>2. Cardinality(mine) # 0 => \E m \in S : UserOf[m] = u
    BY <2>1, FS_EmptySet
  <2> QED
    BY <2>1, <2>2 DEF Sessions, UsersOf
<1> QED
  BY <1>1 DEF Tally

\* One encounter adds the users of its tally, and takes nobody's row.
LEMMA WithRow ==
  ASSUME NEW x \in Rows, NEW n \in [Users -> Nat]
  PROVE  /\ With(x, n) \in Rows
         /\ With(x, n).sort = x.sort /\ With(x, n).encounters = x.encounters
         /\ RowsOf(With(x, n)) = RowsOf(x) \union {u \in Users : n[u] > 0}
<1> DEFINE came == {u \in Users : n[u] > 0}
           new == {u \in came : x.status[u] = "none"}
           ref == [u \in Users |-> x.ref[u] + n[u]]
           status == [u \in Users |-> IF u \in came THEN "active" ELSE x.status[u]]
           count == x.usersCount + Cardinality(new)
<1>1. With(x, n) = [x EXCEPT !.ref = ref, !.status = status, !.usersCount = count]
  BY Zenon DEF With
<1>2. ref \in [Users -> Int] /\ status \in [Users -> {"none", "active", "deleted"}]
  BY DEF Rows
<1>3. count \in Int
  <2>1. Cardinality(new) \in Nat
    BY UserSets
  <2> QED
    BY <2>1 DEF Rows
<1>4. \A u \in Users : status[u] # "none" <=> x.status[u] # "none" \/ u \in came
  OBVIOUS
<1> HIDE DEF ref, status, count
<1>5. With(x, n) \in Rows /\ With(x, n).status = status
      /\ With(x, n).sort = x.sort /\ With(x, n).encounters = x.encounters
  BY <1>1, <1>2, <1>3 DEF Rows
<1> QED
  BY <1>4, <1>5 DEF RowsOf

\* Taking an encounter out keeps every row.
LEMMA WithoutRow ==
  ASSUME NEW x \in Rows, NEW n \in [Users -> Nat]
  PROVE  /\ Without(x, n) \in Rows
         /\ Without(x, n).sort = x.sort /\ Without(x, n).encounters = x.encounters
         /\ RowsOf(Without(x, n)) = RowsOf(x)
<1> DEFINE rows == {u \in Users : x.status[u] # "none"}
           gone == {u \in rows : n[u] > 0 /\ x.ref[u] - n[u] <= 0}
           ref == [u \in Users |-> IF u \in gone THEN x.ref[u] - n[u] ELSE x.ref[u]]
           status == [u \in Users |-> IF u \in gone THEN "deleted" ELSE x.status[u]]
           count == Cardinality(rows \ gone)
<1>1. Without(x, n) = [x EXCEPT !.ref = ref, !.status = status, !.usersCount = count]
  BY Zenon DEF Without
<1>2. ref \in [Users -> Int] /\ status \in [Users -> {"none", "active", "deleted"}]
  BY DEF Rows
<1>3. count \in Int
  BY UserSets
<1>4. \A u \in Users : status[u] # "none" <=> x.status[u] # "none"
  OBVIOUS
<1> HIDE DEF ref, status, count
<1>5. Without(x, n) \in Rows /\ Without(x, n).status = status
      /\ Without(x, n).sort = x.sort /\ Without(x, n).encounters = x.encounters
  BY <1>1, <1>2, <1>3 DEF Rows
<1> QED
  BY <1>4, <1>5 DEF RowsOf

\* A new row.
LEMMA NewRow ==
  ASSUME NEW sort \in Sorts
  PROVE  /\ [NoRow EXCEPT !.sort = sort] \in Rows
         /\ [NoRow EXCEPT !.sort = sort].sort = sort
         /\ RowsOf([NoRow EXCEPT !.sort = sort]) = {}
  BY DEF NoRow, Rows, RowsOf, Sorts

\* An encounter is solo or private only if nobody else is in it, not even
\* in a device list or as a user who has left.
LEMMA TypeIsSize ==
  ASSUME NEW old \in 0..3, NEW S \in SUBSET Mposts, NEW us \in SUBSET UsersOf(S)
  PROVE  /\ TypeFor(old, S, us) \in 0..3
         /\ TypeFor(old, S, us) \in {1, 2} =>
              /\ UsersOf(S) = us /\ Cardinality(us) = TypeFor(old, S, us)
<1> DEFINE named == {UserOf[m] : m \in S} \union UNION {Devs[m] : m \in S}
           modes == {HostMode[m] : m \in S}
           orphan == /\ Cardinality(us) = 1
                     /\ \/ "guest" \in modes /\ "hoster" \notin modes
                        \/ Cardinality(named) > 1
<1>1. us \subseteq UsersOf(S) /\ UsersOf(S) \subseteq named /\ named \subseteq Users
  BY DataAssumption DEF DataAssumption, UsersOf
<1>2. IsFiniteSet(us) /\ IsFiniteSet(UsersOf(S)) /\ IsFiniteSet(named)
  BY <1>1, UserSets
<1>3. Cardinality(us) \in Nat /\ Cardinality(named) \in Nat /\ (Cardinality(us) = 0 <=> us = {})
  BY <1>1, <1>2, UserSets, FS_EmptySet
<1>4. Cardinality(us) <= Cardinality(named) /\ (Cardinality(us) = Cardinality(named) => us = named)
  BY <1>1, <1>2, FS_Subset
<1>5. TypeFor(old, S, us) =
        CASE Cardinality(us) >= 3 \/ old = 3 -> 3
          [] us = {} /\ old # 3 -> 0
          [] Cardinality(us) \in 1..2 /\ old # 3 ->
               IF "creater" \in modes THEN 3
               ELSE IF orphan THEN 0
               ELSE IF Cardinality(us) = 2 /\ Cardinality(named) > 2 THEN 3
               ELSE Cardinality(us)
  BY DEF TypeFor
<1> HIDE DEF named, modes
<1>6. CASE Cardinality(us) >= 3 \/ old = 3
  BY <1>3, <1>5, <1>6
<1>7. CASE us = {} /\ old # 3
  BY <1>3, <1>5, <1>7
<1>8. CASE Cardinality(us) \in 1..2 /\ old # 3
  <2>1. TypeFor(old, S, us) = IF "creater" \in modes THEN 3
                              ELSE IF orphan THEN 0
                              ELSE IF Cardinality(us) = 2 /\ Cardinality(named) > 2 THEN 3
                              ELSE Cardinality(us)
    BY <1>3, <1>5, <1>8
  <2>2. TypeFor(old, S, us) \in {1, 2} =>
          Cardinality(named) <= Cardinality(us) /\ Cardinality(us) = TypeFor(old, S, us)
    BY <2>1, <1>3, <1>8
  <2>3. TypeFor(old, S, us) \in {1, 2} => us = named
    BY <2>2, <1>3, <1>4
  <2> QED
    BY <2>1, <2>2, <2>3, <1>1, <1>8
<1> QED
  BY <1>3, <1>6, <1>7, <1>8

-----------------------------------------------------------------------------
(* The invariant.                                                          *)

\* Encounters are in cirkles that exist, and hosters claim group cirkles.
Kinds ==
  /\ \A e \in Encounters : cirkleOf[e] # NoCirkle => cirkles[cirkleOf[e]].sort # "none"
  /\ \A m \in Mposts : claim[m] # NoCirkle => cirkles[claim[m]].sort = "group"

InSmall(e) == cirkleOf[e] # NoCirkle /\ cirkles[cirkleOf[e]].sort \in Small

\* The users of an encounter in a solo or private cirkle, those who have left
\* included, have a row there and are as many as the cirkle is for.
Paired ==
  \A e \in Encounters : InSmall(e) =>
    /\ UsersOf(MpostsOf(e)) \subseteq RowsOf(cirkles[cirkleOf[e]])
    /\ Cardinality(UsersOf(MpostsOf(e))) = Size(cirkles[cirkleOf[e]].sort)

\* No encounter has a mpost that is not posted yet.
Posted == \A m \in Mposts \ posted : meetOf[m] = NoMeet

CirkleInv ==
  TypeOK /\ Posted /\ Kinds /\ EncountersListed /\ CirkleFits /\ Paired /\ PrivateStaysPrivate

CirkleVarsInv ==
  /\ cirkleOf \in [Encounters -> CirkleIds \union {NoCirkle}] /\ cirkles \in [CirkleIds -> Rows]
  /\ Kinds /\ EncountersListed /\ CirkleFits /\ Paired /\ PrivateStaysPrivate

\* The last two in one word each.
LEMMA SmallCirkles ==
  /\ CirkleFits <=> \A e \in Encounters : InSmall(e) => meetType[e] = Size(cirkles[cirkleOf[e]].sort)
  /\ PrivateStaysPrivate <=>
       \A c \in CirkleIds : cirkles[c].sort \in Small =>
         Cardinality(RowsOf(cirkles[c])) <= Size(cirkles[c].sort)
<1>1. CirkleFits <=> \A e \in Encounters : InSmall(e) => meetType[e] = Size(cirkles[cirkleOf[e]].sort)
  BY DEF CirkleFits, InSmall, Small, Size
<1>2. \A c \in CirkleIds :
        LET rows == {u \in Users : cirkles[c].status[u] # "none"}
        IN  rows = RowsOf(cirkles[c])
  BY DEF RowsOf
<1>3. PrivateStaysPrivate <=>
        \A c \in CirkleIds :
          /\ cirkles[c].sort = "solo" => Cardinality(RowsOf(cirkles[c])) <= 1
          /\ cirkles[c].sort = "private" => Cardinality(RowsOf(cirkles[c])) <= 2
  BY DEF PrivateStaysPrivate, RowsOf
<1> QED
  BY <1>1, <1>3 DEF Small, Size

\* An encounter's mposts and type change and it goes to k, where x is a
\* cirkle's new row.
LEMMA RowChange ==
  ASSUME CirkleInv, NEW e \in Encounters, NEW S \in SUBSET Mposts, NEW type \in 0..3,
         NEW c \in CirkleIds, NEW x \in Rows, NEW k \in {c, NoCirkle},
         cirkles' = [cirkles EXCEPT ![c] = x], cirkleOf' = [cirkleOf EXCEPT ![e] = k],
         meetType' = [meetType EXCEPT ![e] = type], UNCHANGED claim,
         MpostsOf(e)' = S, \A d \in Encounters \ {e} : MpostsOf(d)' = MpostsOf(d),
         cirkles[c].sort # "none" => x.sort = cirkles[c].sort /\ RowsOf(cirkles[c]) \subseteq RowsOf(x),
         x.sort \in Small => Cardinality(RowsOf(x)) <= Size(x.sort),
         EncountersOf(c) \ {e} \subseteq x.encounters,
         k = c => /\ x.sort # "none" /\ e \in x.encounters
                  /\ x.sort \in Small => /\ type = Size(x.sort) /\ Cardinality(UsersOf(S)) = Size(x.sort)
                                         /\ UsersOf(S) \subseteq RowsOf(x)
  PROVE  CirkleVarsInv'
<1>1. /\ cirkleOf \in [Encounters -> CirkleIds \union {NoCirkle}] /\ cirkles \in [CirkleIds -> Rows]
      /\ meetType \in [Encounters -> 0..3] /\ claim \in [Mposts -> CirkleIds \union {NoCirkle}]
      /\ c # NoCirkle /\ NoCirkle \notin CirkleIds
  BY DataAssumption DEF CirkleInv, TypeOK, DataAssumption
<1>2. /\ cirkles' \in [CirkleIds -> Rows] /\ cirkleOf' \in [Encounters -> CirkleIds \union {NoCirkle}]
      /\ cirkles'[c] = x /\ \A d \in CirkleIds \ {c} : cirkles'[d] = cirkles[d]
      /\ cirkleOf'[e] = k /\ \A d \in Encounters \ {e} : cirkleOf'[d] = cirkleOf[d]
      /\ meetType'[e] = type /\ \A d \in Encounters \ {e} : meetType'[d] = meetType[d]
  BY <1>1
<1>3. \A d \in Encounters : cirkleOf'[d] # NoCirkle => cirkleOf'[d] \in CirkleIds
  BY <1>2
<1>4. Kinds'
  <2>1. ASSUME NEW d \in Encounters, cirkleOf'[d] # NoCirkle PROVE cirkles'[cirkleOf'[d]].sort # "none"
    <3>1. CASE d = e
      BY <1>2, <2>1, <3>1
    <3>2. CASE d # e
      BY <1>1, <1>2, <2>1, <3>2 DEF CirkleInv, Kinds
    <3> QED
      BY <3>1, <3>2
  <2>2. ASSUME NEW m \in Mposts, claim[m] # NoCirkle PROVE cirkles'[claim[m]].sort = "group"
    BY <1>1, <1>2, <2>2 DEF CirkleInv, Kinds
  <2> QED
    BY <2>1, <2>2 DEF Kinds
<1>5. EncountersListed'
  <2>1. ASSUME NEW d \in CirkleIds PROVE EncountersOf(d)' \subseteq cirkles'[d].encounters
    <3>1. CASE d = c
      BY <1>1, <1>2, <3>1 DEF EncountersOf
    <3>2. CASE d # c
      <4>1. EncountersOf(d)' \subseteq EncountersOf(d)
        BY <1>1, <1>2, <3>2 DEF EncountersOf
      <4> QED
        BY <1>2, <3>2, <4>1 DEF CirkleInv, EncountersListed
    <3> QED
      BY <3>1, <3>2
  <2> QED
    BY <2>1 DEF EncountersListed
\* the encounters that stay where they are
<1>6. ASSUME NEW d \in Encounters, d # e, InSmall(d)'
      PROVE  /\ InSmall(d) /\ cirkles'[cirkleOf[d]].sort = cirkles[cirkleOf[d]].sort
             /\ RowsOf(cirkles[cirkleOf[d]]) \subseteq RowsOf(cirkles'[cirkleOf[d]])
             /\ cirkleOf'[d] = cirkleOf[d] /\ meetType'[d] = meetType[d] /\ MpostsOf(d)' = MpostsOf(d)
  <2>1. cirkleOf'[d] = cirkleOf[d] /\ cirkleOf[d] \in CirkleIds
    BY <1>1, <1>2, <1>6 DEF InSmall
  <2>2. cirkles[cirkleOf[d]].sort # "none"
    BY <1>6, <2>1 DEF CirkleInv, Kinds, InSmall
  <2>3. CASE cirkleOf[d] = c
    BY <1>2, <1>6, <2>1, <2>2, <2>3 DEF InSmall
  <2>4. CASE cirkleOf[d] # c
    BY <1>2, <1>6, <2>1, <2>4 DEF InSmall
  <2> QED
    BY <2>3, <2>4
\* the one that moves
<1>7. ASSUME InSmall(e)'
      PROVE  /\ cirkleOf'[e] = c /\ cirkles'[c] = x /\ x.sort \in Small
             /\ type = Size(x.sort) /\ Cardinality(UsersOf(S)) = Size(x.sort)
             /\ UsersOf(S) \subseteq RowsOf(x)
  BY <1>2, <1>7 DEF InSmall
<1>8. CirkleFits'
  <2>1. \A d \in Encounters : InSmall(d) => meetType[d] = Size(cirkles[cirkleOf[d]].sort)
    BY SmallCirkles DEF CirkleInv
  <2>2. \A d \in Encounters : InSmall(d)' => meetType'[d] = Size(cirkles'[cirkleOf'[d]].sort)
    BY <1>2, <1>6, <1>7, <2>1
  <2>3. CirkleFits' <=> \A d \in Encounters : InSmall(d)' => meetType'[d] = Size(cirkles'[cirkleOf'[d]].sort)
    BY DEF CirkleFits, InSmall, Small, Size
  <2> QED
    BY <2>2, <2>3
<1>9. Paired'
  <2>1. ASSUME NEW d \in Encounters, InSmall(d)'
        PROVE  /\ UsersOf(MpostsOf(d)') \subseteq RowsOf(cirkles'[cirkleOf'[d]])
               /\ Cardinality(UsersOf(MpostsOf(d)')) = Size(cirkles'[cirkleOf'[d]].sort)
    <3>1. CASE d = e
      BY <1>7, <2>1, <3>1
    <3>2. CASE d # e
      BY <1>6, <2>1, <3>2 DEF CirkleInv, Paired
    <3> QED
      BY <3>1, <3>2
  <2>2. ASSUME NEW d \in Encounters
        PROVE  /\ UsersOf(MpostsOf(d))' = UsersOf(MpostsOf(d)')
               /\ RowsOf(cirkles[cirkleOf[d]])' = RowsOf(cirkles'[cirkleOf'[d]])
               /\ Size(cirkles[cirkleOf[d]].sort)' = Size(cirkles'[cirkleOf'[d]].sort)
    BY DEF UsersOf, RowsOf, Size
  <2> QED
    BY <2>1, <2>2 DEF Paired
<1>10. PrivateStaysPrivate'
  <2>1. \A d \in CirkleIds : cirkles[d].sort \in Small =>
          Cardinality(RowsOf(cirkles[d])) <= Size(cirkles[d].sort)
    BY SmallCirkles DEF CirkleInv
  <2>2. \A d \in CirkleIds : cirkles'[d].sort \in Small =>
          Cardinality(RowsOf(cirkles'[d])) <= Size(cirkles'[d].sort)
    BY <1>2, <2>1
  <2>3. \A d \in CirkleIds : RowsOf(cirkles'[d]) = {u \in Users : cirkles'[d].status[u] # "none"}
    BY DEF RowsOf
  <2> QED
    BY <2>2, <2>3 DEF PrivateStaysPrivate, Small, Size
<1> QED
  BY <1>2, <1>4, <1>5, <1>8, <1>9, <1>10 DEF CirkleVarsInv

\* Nothing but the encounter itself changes, which is not in a small cirkle.
LEMMA SameRows ==
  ASSUME CirkleInv, NEW e \in Encounters, NEW type \in 0..3, ~InSmall(e),
         UNCHANGED <<claim, cirkles, cirkleOf>>, meetType' = [meetType EXCEPT ![e] = type],
         \A d \in Encounters \ {e} : MpostsOf(d)' = MpostsOf(d)
  PROVE  CirkleVarsInv'
<1>1. ASSUME NEW d \in Encounters, InSmall(d)'
      PROVE  InSmall(d) /\ meetType'[d] = meetType[d] /\ MpostsOf(d)' = MpostsOf(d)
  BY <1>1 DEF InSmall, CirkleInv, TypeOK
<1>2. CirkleFits'
  BY <1>1 DEF CirkleInv, CirkleFits, InSmall, Small
<1>3. Paired'
  BY <1>1 DEF CirkleInv, Paired, UsersOf, RowsOf, Size
<1>4. Kinds' /\ EncountersListed' /\ PrivateStaysPrivate'
  BY DEF CirkleInv, Kinds, EncountersListed, EncountersOf, PrivateStaysPrivate
<1> QED
  BY <1>2, <1>3, <1>4 DEF CirkleInv, TypeOK, CirkleVarsInv

-----------------------------------------------------------------------------
(* extract_information.                                                    *)

\* What it does to the cirkles: S are the encounter's mposts from now on.
JoinsAs(S, sort, type) ==
  sort \in Small => type = Size(sort) /\ Cardinality(UsersOf(S)) = Size(sort)

Moved(e, S, type) ==
  \/ UNCHANGED <<cirkles, cirkleOf>> /\ ~InSmall(e)
  \/ \E n \in [Users -> Nat] : cirkleOf[e] # NoCirkle /\ DeleteEncounter(e, cirkleOf[e], n)
  \/ \E c \in CirkleIds, n \in [Users -> Nat] :
       /\ AddEncounter(e, c, n) /\ cirkles[c].sort # "none" /\ JoinsAs(S, cirkles[c].sort, type)
       /\ cirkles[c].sort \in Small =>
            /\ UsersOf(S) \subseteq RowsOf(cirkles[c])
            /\ \A u \in Users : n[u] > 0 => u \in UsersOf(S)
  \/ \E sort \in Sorts \ {"none"}, n \in [Users -> Nat] :
       /\ StartCirkle(e, sort, n) /\ JoinsAs(S, sort, type)
       /\ sort \in Small => {u \in Users : n[u] > 0} = UsersOf(S)

\* Each of these keeps the invariant.
LEMMA MovedKeeps ==
  ASSUME CirkleInv, NEW e \in Encounters, NEW S \in SUBSET Mposts, NEW type \in 0..3,
         Moved(e, S, type), meetType' = [meetType EXCEPT ![e] = type], UNCHANGED claim,
         MpostsOf(e)' = S, \A d \in Encounters \ {e} : MpostsOf(d)' = MpostsOf(d)
  PROVE  CirkleVarsInv'
<1>1. /\ cirkles \in [CirkleIds -> Rows] /\ cirkleOf \in [Encounters -> CirkleIds \union {NoCirkle}]
      /\ NoCirkle \notin CirkleIds
  BY DataAssumption DEF CirkleInv, TypeOK, DataAssumption
<1>2. \A c \in CirkleIds : cirkles[c].sort \in Small => Cardinality(RowsOf(cirkles[c])) <= Size(cirkles[c].sort)
  BY SmallCirkles DEF CirkleInv
<1>3. \A c \in CirkleIds : EncountersOf(c) \subseteq cirkles[c].encounters
  BY DEF CirkleInv, EncountersListed
<1>4. CASE UNCHANGED <<cirkles, cirkleOf>> /\ ~InSmall(e)
  BY <1>4, SameRows
<1>5. ASSUME NEW n \in [Users -> Nat], cirkleOf[e] # NoCirkle, DeleteEncounter(e, cirkleOf[e], n)
      PROVE  CirkleVarsInv'
  <2> DEFINE c == cirkleOf[e]
             x == Without(cirkles[c], n)
  <2>1. c \in CirkleIds /\ cirkles[c] \in Rows
    BY <1>1, <1>5
  <2>2. /\ x \in Rows /\ x.sort = cirkles[c].sort /\ x.encounters = cirkles[c].encounters
        /\ RowsOf(x) = RowsOf(cirkles[c])
    BY <2>1, WithoutRow
  <2>3. cirkles' = [cirkles EXCEPT ![c] = x] /\ cirkleOf' = [cirkleOf EXCEPT ![e] = NoCirkle]
    BY <1>5 DEF DeleteEncounter
  <2>4. x.sort \in Small => Cardinality(RowsOf(x)) <= Size(x.sort)
    BY <1>2, <2>1, <2>2
  <2>5. EncountersOf(c) \ {e} \subseteq x.encounters
    BY <1>3, <2>1, <2>2
  <2>6. NoCirkle # c
    BY <1>5
  <2> HIDE DEF c, x
  <2> QED
    BY <2>1, <2>2, <2>3, <2>4, <2>5, <2>6, RowChange
<1>6. ASSUME NEW c \in CirkleIds, NEW n \in [Users -> Nat],
             AddEncounter(e, c, n), cirkles[c].sort # "none", JoinsAs(S, cirkles[c].sort, type),
             cirkles[c].sort \in Small =>
               /\ UsersOf(S) \subseteq RowsOf(cirkles[c])
               /\ \A u \in Users : n[u] > 0 => u \in UsersOf(S)
      PROVE  CirkleVarsInv'
  <2> DEFINE y == With(cirkles[c], n)
             listed == IF cirkleOf[e] # c THEN EncountersOf(c) \union {e} ELSE y.encounters
             x == [y EXCEPT !.encounters = listed]
  <2>1. /\ y \in Rows /\ y.sort = cirkles[c].sort /\ y.encounters = cirkles[c].encounters
        /\ RowsOf(y) = RowsOf(cirkles[c]) \union {u \in Users : n[u] > 0}
    BY <1>1, WithRow
  <2>2. EncountersOf(c) \union {e} \subseteq listed /\ listed \subseteq Encounters
    <3>1. EncountersOf(c) \subseteq Encounters /\ y.encounters \subseteq Encounters
      BY <2>1 DEF EncountersOf, Rows
    <3>2. cirkleOf[e] = c => e \in EncountersOf(c)
      BY DEF EncountersOf
    <3> QED
      BY <1>3, <2>1, <3>1, <3>2
  <2>3. cirkles' = [cirkles EXCEPT ![c] = x] /\ cirkleOf' = [cirkleOf EXCEPT ![e] = c]
    BY <1>6 DEF AddEncounter
  <2> HIDE DEF y, listed
  <2>4. x \in Rows /\ x.sort = cirkles[c].sort /\ x.encounters = listed /\ x.status = y.status
    BY <2>1, <2>2 DEF Rows
  <2>5. RowsOf(x) = RowsOf(cirkles[c]) \union {u \in Users : n[u] > 0}
    BY <2>1, <2>4 DEF RowsOf
  <2> HIDE DEF x
  <2>6. x.sort \in Small => RowsOf(x) = RowsOf(cirkles[c])
    BY <1>6, <2>4, <2>5
  <2>7. x.sort \in Small => Cardinality(RowsOf(x)) <= Size(x.sort)
    BY <1>2, <2>4, <2>6
  <2>8. x.sort \in Small =>
          /\ type = Size(x.sort) /\ Cardinality(UsersOf(S)) = Size(x.sort)
          /\ UsersOf(S) \subseteq RowsOf(x)
    BY <1>6, <2>4, <2>6 DEF JoinsAs
  <2> QED
    BY <1>6, <2>2, <2>3, <2>4, <2>5, <2>7, <2>8, RowChange
<1>7. ASSUME NEW sort \in Sorts \ {"none"}, NEW n \in [Users -> Nat],
             StartCirkle(e, sort, n), JoinsAs(S, sort, type),
             sort \in Small => {u \in Users : n[u] > 0} = UsersOf(S)
      PROVE  CirkleVarsInv'
  <2> DEFINE z == [NoRow EXCEPT !.sort = sort]
             y == With(z, n)
             x == [y EXCEPT !.encounters = {e}]
  <2>1. PICK c \in CirkleIds :
          cirkles[c].sort = "none" /\ cirkles' = [cirkles EXCEPT ![c] = x]
          /\ cirkleOf' = [cirkleOf EXCEPT ![e] = c]
    BY <1>7 DEF StartCirkle
  <2>2. y \in Rows /\ y.sort = sort /\ RowsOf(y) = {u \in Users : n[u] > 0}
    <3>1. z \in Rows /\ z.sort = sort /\ RowsOf(z) = {}
      BY NewRow
    <3> HIDE DEF z
    <3> QED
      BY <3>1, WithRow
  <2>3. EncountersOf(c) = {}
    BY <1>1, <2>1 DEF CirkleInv, Kinds, EncountersOf
  <2> HIDE DEF y
  <2>4. x \in Rows /\ x.sort = sort /\ x.encounters = {e} /\ x.status = y.status
    BY <2>2 DEF Rows
  <2>5. RowsOf(x) = {u \in Users : n[u] > 0}
    BY <2>2, <2>4 DEF RowsOf
  <2> HIDE DEF x
  <2>6. x.sort \in Small =>
          /\ type = Size(x.sort) /\ Cardinality(UsersOf(S)) = Size(x.sort)
          /\ UsersOf(S) = RowsOf(x)
    BY <1>7, <2>4, <2>5 DEF JoinsAs
  <2>7. x.sort \in Small => Cardinality(RowsOf(x)) <= Size(x.sort)
    BY <2>6 DEF Size
  <2>8. EncountersOf(c) \ {e} \subseteq x.encounters /\ e \in x.encounters /\ x.sort # "none"
    BY <2>3, <2>4
  <2>9. x.sort \in Small => UsersOf(S) \subseteq RowsOf(x)
    BY <2>6
  <2> QED
    BY <2>1, <2>4, <2>6, <2>7, <2>8, <2>9, RowChange
<1> QED
  BY <1>4, <1>5, <1>6, <1>7 DEF Moved

\* extract_information is such a step.
LEMMA ExtractMoves ==
  ASSUME CirkleInv, NEW e \in Encounters, NEW S \in SUBSET Mposts, MpostsOf(e) \subseteq S,
         NEW new \in SUBSET S, NEW del \in SUBSET Mposts, Extract(e, S, new, del)
  PROVE  /\ deleted' \subseteq Mposts /\ collided' \subseteq Encounters
         /\ \E type \in 0..3 : meetType' = [meetType EXCEPT ![e] = type] /\ Moved(e, S, type)
<1> DEFINE claims == {claim[m] : m \in S \ del} \ {NoCirkle}
           collides == e \in collided \/ Cardinality(claims) > 1
           us == IF collides THEN {} ELSE {UserOf[m] : m \in S \ del}
           type == TypeFor(meetType[e], S, us)
<1>1. PICK cid \in IF claims = {} \/ e \in collided THEN {NoCirkle} ELSE claims :
        /\ collided' = IF collides THEN collided \union {e} ELSE collided
        /\ deleted' = IF collides THEN del \union S ELSE del
        /\ meetType' = [meetType EXCEPT ![e] = type]
        /\ CASE MustLeave(e, cid, collides, type) ->
                  DeleteEncounter(e, cirkleOf[e], Tally(IF collides THEN {} ELSE S \ new))
             [] ~MustLeave(e, cid, collides, type) /\ collides ->
                  UNCHANGED <<cirkleOf, cirkles>>
             [] ~MustLeave(e, cid, collides, type) /\ ~collides /\ cid = NoCirkle ->
                  GetCirkleForEncounter(e, S, us, type)
             [] ~MustLeave(e, cid, collides, type) /\ ~collides /\ cid # NoCirkle ->
                  AddEncounter(e, cid, Tally(IF cirkleOf[e] = NoCirkle THEN S ELSE new))
  BY DEF Extract
<1>2. /\ cirkleOf[e] \in CirkleIds \union {NoCirkle} /\ meetType[e] \in 0..3
      /\ deleted \subseteq Mposts /\ collided \subseteq Encounters /\ NoCirkle \notin CirkleIds
  BY DataAssumption DEF CirkleInv, TypeOK, DataAssumption
<1>3. cid # NoCirkle => cid \in CirkleIds /\ cirkles[cid].sort = "group"
  <2>1. \A m \in Mposts : claim[m] \in CirkleIds \union {NoCirkle}
    BY DEF CirkleInv, TypeOK
  <2> QED
    BY <2>1 DEF CirkleInv, Kinds
<1>4. us \in SUBSET UsersOf(S) /\ us \subseteq Users
  BY DataAssumption DEF DataAssumption, UsersOf
<1> HIDE DEF claims, us
<1>5. type \in 0..3 /\ (type \in {1, 2} => UsersOf(S) = us /\ Cardinality(us) = type)
  BY <1>2, <1>4, TypeIsSize
<1> HIDE DEF collides, type
<1>6. InSmall(e) => meetType[e] = Size(cirkles[cirkleOf[e]].sort) /\ meetType[e] \in {1, 2}
  BY SmallCirkles DEF CirkleInv, InSmall, Small, Size
<1>7. \A T \in SUBSET Mposts : Tally(T) \in [Users -> Nat]
  BY TallyCounts
\* the cirkle fits the new type, or the encounter leaves it
<1>8. ~MustLeave(e, cid, collides, type) /\ InSmall(e) =>
        ~collides /\ cid = NoCirkle /\ type = meetType[e]
  <2>1. "group" \notin Small
    BY DEF Small
  <2> QED
    BY <1>3, <1>6, <2>1 DEF MustLeave, InSmall
<1>9. Moved(e, S, type)
  <2>1. CASE MustLeave(e, cid, collides, type)
    <3> DEFINE n == Tally(IF collides THEN {} ELSE S \ new)
    <3>1. n \in [Users -> Nat]
      BY <1>7
    <3>2. DeleteEncounter(e, cirkleOf[e], n)
      BY <1>1, <2>1
    <3>3. cirkleOf[e] # NoCirkle
      BY <2>1 DEF MustLeave
    <3> QED
      BY <3>1, <3>2, <3>3 DEF Moved
  <2>2. CASE ~MustLeave(e, cid, collides, type) /\ collides
    <3>1. UNCHANGED <<cirkles, cirkleOf>>
      BY <1>1, <2>2
    <3> QED
      BY <1>8, <2>2, <3>1 DEF Moved
  <2>3. CASE ~MustLeave(e, cid, collides, type) /\ ~collides /\ cid # NoCirkle
    <3> DEFINE n == Tally(IF cirkleOf[e] = NoCirkle THEN S ELSE new)
    <3>1. n \in [Users -> Nat]
      BY <1>7
    <3>2. AddEncounter(e, cid, n)
      BY <1>1, <2>3
    <3>3. cirkles[cid].sort # "none" /\ cirkles[cid].sort \notin Small
      BY <1>3, <2>3 DEF Small
    <3> QED
      BY <1>3, <2>3, <3>1, <3>2, <3>3 DEF Moved, JoinsAs
  <2>4. CASE ~MustLeave(e, cid, collides, type) /\ ~collides /\ cid = NoCirkle
    <3>1. GetCirkleForEncounter(e, S, us, type)
      BY <1>1, <2>4
    <3>2. CASE type = 0
      <4>1. UNCHANGED <<cirkles, cirkleOf>>
        BY <3>1, <3>2 DEF GetCirkleForEncounter
      <4> QED
        BY <1>6, <1>8, <2>4, <3>2, <4>1 DEF Moved
    <3>3. CASE type # 0 /\ cirkleOf[e] # NoCirkle
      <4> DEFINE c == cirkleOf[e]
      <4>1. AddEncounter(e, c, Tally(S)) /\ c \in CirkleIds /\ cirkles[c].sort # "none"
        BY <1>2, <3>1, <3>3 DEF GetCirkleForEncounter, CirkleInv, Kinds
      <4>2. ASSUME cirkles[c].sort \in Small
            PROVE  /\ type = Size(cirkles[c].sort) /\ Cardinality(UsersOf(S)) = Size(cirkles[c].sort)
                   /\ UsersOf(S) \subseteq RowsOf(cirkles[c])
        <5>1. InSmall(e)
          BY <3>3, <4>2 DEF InSmall
        <5>2. type = Size(cirkles[c].sort) /\ type \in {1, 2}
          BY <1>6, <1>8, <2>4, <5>1
        <5>3. UsersOf(MpostsOf(e)) \subseteq RowsOf(cirkles[c])
              /\ Cardinality(UsersOf(MpostsOf(e))) = Size(cirkles[c].sort)
          BY <5>1 DEF CirkleInv, Paired
        <5>4. UsersOf(MpostsOf(e)) \subseteq UsersOf(S) /\ UsersOf(S) \subseteq Users
          BY DataAssumption DEF UsersOf, DataAssumption
        <5>5. Cardinality(UsersOf(S)) = type /\ IsFiniteSet(UsersOf(S))
          BY <1>5, <5>2, <5>4, UserSets
        <5>6. UsersOf(MpostsOf(e)) = UsersOf(S)
          BY <5>2, <5>3, <5>4, <5>5, FS_Subset
        <5> QED
          BY <5>2, <5>3, <5>5, <5>6
      <4>3. Tally(S) \in [Users -> Nat] /\ \A u \in Users : Tally(S)[u] > 0 => u \in UsersOf(S)
        BY TallyCounts
      <4> HIDE DEF c
      <4> QED
        BY <4>1, <4>2, <4>3 DEF Moved, JoinsAs
    <3>4. CASE type \in {1, 2} /\ cirkleOf[e] = NoCirkle
      <4> DEFINE sort == IF Cardinality(us) = 1 THEN "solo" ELSE "private"
                 found == {c \in CirkleIds : IsCirkleOf(c, sort, us)}
                 n == OneEach(us)
      <4>1. GetCirkleForUsers(e, us)
        <5>1. CASE type = 1
          BY <3>1, <3>4, <5>1 DEF GetCirkleForEncounter
        <5>2. CASE type = 2
          BY <3>1, <3>4, <5>2 DEF GetCirkleForEncounter
        <5> QED
          BY <3>4, <5>1, <5>2
      <4>2. /\ n \in [Users -> Nat] /\ UsersOf(S) = us /\ Cardinality(us) = type
            /\ {u \in Users : n[u] > 0} = UsersOf(S)
        BY <1>4, <1>5, <3>4 DEF OneEach
      <4>3. sort \in Small /\ sort \in Sorts \ {"none"} /\ JoinsAs(S, sort, type)
        BY <3>4, <4>2 DEF Small, Sorts, JoinsAs, Size
      <4>4. IF found # {} THEN \E c \in found : AddEncounter(e, c, n) ELSE StartCirkle(e, sort, n)
        BY <4>1 DEF GetCirkleForUsers
      <4>5. \A c \in found : cirkles[c].sort = sort /\ UsersOf(S) \subseteq RowsOf(cirkles[c])
        BY <1>4, <4>2 DEF IsCirkleOf, ActiveIn, RowsOf
      <4> HIDE DEF n, sort
      <4>6. CASE found # {}
        <5>1. PICK c \in found : AddEncounter(e, c, n)
          BY <4>4, <4>6
        <5>2. c \in CirkleIds /\ cirkles[c].sort = sort
          BY <4>5, <5>1
        <5> QED
          BY <4>2, <4>3, <4>5, <5>1, <5>2 DEF Moved
      <4>7. CASE found = {}
        BY <4>2, <4>3, <4>4, <4>7 DEF Moved
      <4> QED
        BY <4>6, <4>7
    <3>5. CASE type = 3 /\ cirkleOf[e] = NoCirkle
      <4>1. StartCirkle(e, "group", Tally(S)) /\ Tally(S) \in [Users -> Nat]
        BY <1>7, <3>1, <3>5 DEF GetCirkleForEncounter
      <4>2. "group" \in Sorts \ {"none"} /\ "group" \notin Small
        BY DEF Sorts, Small
      <4> QED
        BY <4>1, <4>2 DEF Moved, JoinsAs
    <3> QED
      BY <1>5, <3>2, <3>3, <3>4, <3>5
  <2> QED
    BY <2>1, <2>2, <2>3, <2>4
<1> QED
  BY <1>1, <1>2, <1>5, <1>9

-----------------------------------------------------------------------------
(* The theorems.                                                           *)

LEMMA CirkleInvInit == Init => CirkleInv
<1> SUFFICES ASSUME Init PROVE CirkleInv
  OBVIOUS
<1>1. NoRow \in Rows /\ NoRow.sort = "none"
  BY DEF NoRow, Rows, Sorts
<1>2. TypeOK
  BY <1>1 DEF Init, TypeOK
<1>3. Kinds /\ EncountersListed /\ CirkleFits /\ Paired
  BY DataAssumption
  DEF Init, Kinds, EncountersListed, EncountersOf, CirkleFits, Paired, InSmall, DataAssumption
<1>4. \A c \in CirkleIds : cirkles[c].sort = "none"
  BY <1>1 DEF Init
<1>5. PrivateStaysPrivate
  BY <1>4 DEF PrivateStaysPrivate
<1>6. Posted
  BY DEF Init, Posted
<1> QED
  BY <1>2, <1>3, <1>5, <1>6 DEF CirkleInv

LEMMA CirkleInvStep == CirkleInv /\ [Next]_vars => CirkleInv'
<1> SUFFICES ASSUME CirkleInv, [Next]_vars PROVE CirkleInv'
  OBVIOUS
<1> USE DEF mpostVars, encounterVars, historyVars
<1>0. TypeOK /\ NoMeet \notin Encounters
  BY DataAssumption DEF CirkleInv, DataAssumption
<1>1. ASSUME NEW m \in Mposts, NEW c \in CirkleIds, PostHoster(m, c) PROVE CirkleInv'
  <2>1. TypeOK'
    BY <1>0, <1>1 DEF PostHoster, TypeOK
  <2>2. UNCHANGED <<meetOf, meetType, cirkleOf, cirkles>>
    BY <1>1 DEF PostHoster
  <2>3. Kinds'
    BY <1>0, <1>1, <2>2 DEF PostHoster, CirkleInv, Kinds, TypeOK
  <2>4. EncountersListed' /\ CirkleFits' /\ Paired' /\ PrivateStaysPrivate'
    BY <2>2 DEF CirkleInv, EncountersListed, EncountersOf, CirkleFits, Paired, InSmall,
                MpostsOf, PrivateStaysPrivate, UsersOf, RowsOf, Size
  <2>5. Posted'
    BY <1>1, <2>2 DEF PostHoster, CirkleInv, Posted
  <2> QED
    BY <2>1, <2>3, <2>4, <2>5 DEF CirkleInv
\* what the three actions that extract have in common
<1>2. ASSUME NEW e \in Encounters, NEW S \in SUBSET Mposts, MpostsOf(e) \subseteq S,
             NEW new \in SUBSET S, NEW del \in SUBSET Mposts, Extract(e, S, new, del),
             posted' \subseteq Mposts, UNCHANGED <<claim, quit>>, withdrawn' \subseteq Mposts, Posted',
             meetOf' \in [Mposts -> Encounters \union {NoMeet}],
             MpostsOf(e)' = S, \A d \in Encounters \ {e} : MpostsOf(d)' = MpostsOf(d)
      PROVE  CirkleInv'
  <2>1. /\ deleted' \subseteq Mposts /\ collided' \subseteq Encounters
        /\ \E type \in 0..3 : meetType' = [meetType EXCEPT ![e] = type] /\ Moved(e, S, type)
    BY <1>2, ExtractMoves
  <2>2. CirkleVarsInv'
    BY <1>2, <2>1, MovedKeeps
  <2>3. TypeOK'
    <3>1. meetType' \in [Encounters -> 0..3]
      BY <1>0, <2>1 DEF TypeOK
    <3>2. /\ cirkleOf' \in [Encounters -> CirkleIds \union {NoCirkle}]
          /\ cirkles' \in [CirkleIds -> Rows]
      BY <2>2 DEF CirkleVarsInv
    <3> QED
      BY <1>0, <1>2, <2>1, <3>1, <3>2 DEF TypeOK
  <2> QED
    BY <1>2, <2>2, <2>3 DEF CirkleInv, CirkleVarsInv
<1>3. ASSUME NEW m \in Mposts, NEW e \in Encounters, PostCreater(m, e) PROVE CirkleInv'
  <2>1. meetOf[m] = NoMeet /\ MpostsOf(e) = {} /\ meetOf' = [meetOf EXCEPT ![m] = e]
        /\ posted' = posted \union {m}
    BY <1>3 DEF PostCreater, Fresh, CirkleInv, Posted
  <2>2. MpostsOf(e)' = {m} /\ \A d \in Encounters \ {e} : MpostsOf(d)' = MpostsOf(d)
    BY <1>0, <2>1 DEF MpostsOf, TypeOK
  <2>3. meetOf' \in [Mposts -> Encounters \union {NoMeet}] /\ posted' \subseteq Mposts /\ Posted'
    BY <1>0, <2>1 DEF TypeOK, CirkleInv, Posted
  <2>4. Extract(e, {m}, {m}, deleted) /\ UNCHANGED <<claim, historyVars>> /\ deleted \subseteq Mposts
    BY <1>0, <1>3 DEF PostCreater, TypeOK
  <2> QED
    BY <1>0, <1>2, <2>1, <2>2, <2>3, <2>4 DEF TypeOK
<1>4. ASSUME NEW S \in SUBSET Unprocessed, NEW e \in Encounters, AssignMposts(S, e) PROVE CirkleInv'
  <2> DEFINE all == MpostsOf(e) \union S
  <2>1. /\ S \subseteq posted /\ \A m \in S : meetOf[m] = NoMeet
        /\ S \subseteq Mposts /\ all \subseteq Mposts
    BY <1>0 DEF Unprocessed, TypeOK, MpostsOf
  <2>2. /\ Extract(e, all, S, deleted) /\ UNCHANGED <<posted, claim, historyVars>>
        /\ meetOf' = [m \in Mposts |-> IF m \in S THEN e ELSE meetOf[m]]
        /\ deleted \subseteq Mposts
    BY <1>0, <1>4 DEF AssignMposts, TypeOK
  <2>3. MpostsOf(e)' = all /\ \A d \in Encounters \ {e} : MpostsOf(d)' = MpostsOf(d)
    BY <1>0, <2>1, <2>2 DEF MpostsOf
  <2>4. meetOf' \in [Mposts -> Encounters \union {NoMeet}] /\ posted' \subseteq Mposts /\ Posted'
    BY <1>0, <2>1, <2>2 DEF TypeOK, CirkleInv, Posted
  <2>5. MpostsOf(e) \subseteq all /\ S \subseteq all
    OBVIOUS
  <2>6. withdrawn' \subseteq Mposts
    BY <1>0, <2>2 DEF TypeOK
  <2> HIDE DEF all
  <2> QED
    BY <1>2, <2>6, <2>1, <2>2, <2>3, <2>4, <2>5
<1>5. ASSUME NEW u \in Users \union {Admin}, NEW e \in Encounters, LeaveEncounter(u, e)
      PROVE  CirkleInv'
  <2> DEFINE del == deleted \union {m \in MpostsOf(e) : UserOf[m] = u}
  <2>1. /\ Extract(e, MpostsOf(e), {}, del) /\ UNCHANGED <<posted, claim, meetOf, quit>>
        /\ MpostsOf(e) \subseteq Mposts /\ del \subseteq Mposts
    BY <1>0, <1>5 DEF LeaveEncounter, MpostsOf, TypeOK
  <2>2. \A d \in Encounters : MpostsOf(d)' = MpostsOf(d)
    BY <2>1 DEF MpostsOf
  <2>3. meetOf' \in [Mposts -> Encounters \union {NoMeet}] /\ posted' \subseteq Mposts /\ Posted'
    BY <1>0, <2>1 DEF TypeOK, CirkleInv, Posted
  <2>4. withdrawn' \subseteq Mposts
    <3>1. withdrawn' = withdrawn \union {m \in {m \in MpostsOf(e) : UserOf[m] = u} : claim[m] # NoCirkle}
      BY <1>5 DEF LeaveEncounter
    <3> QED
      BY <1>0, <3>1 DEF MpostsOf, TypeOK
  <2> HIDE DEF del
  <2> QED
    BY <1>2, <2>1, <2>2, <2>3, <2>4
<1>6. ASSUME NEW u \in Users, NEW c \in CirkleIds, LeaveCirkle(u, c) PROVE CirkleInv'
  <2>1. /\ cirkles' = [cirkles EXCEPT ![c].status[u] = "deleted"]
        /\ UNCHANGED <<posted, claim, meetOf, deleted, meetType, collided, cirkleOf, withdrawn>>
        /\ u \in ActiveIn(c) /\ quit' = quit \union {u}
    BY <1>6 DEF LeaveCirkle
  <2>2. cirkles' \in [CirkleIds -> Rows]
    BY <1>0, <2>1 DEF TypeOK, Rows
  <2>3. \A d \in CirkleIds :
          /\ cirkles'[d].sort = cirkles[d].sort /\ cirkles'[d].encounters = cirkles[d].encounters
          /\ RowsOf(cirkles'[d]) = RowsOf(cirkles[d])
    BY <1>0, <2>1 DEF TypeOK, Rows, RowsOf, ActiveIn
  <2>4. TypeOK' /\ Posted'
    BY <1>0, <2>1, <2>2 DEF TypeOK, CirkleInv, Posted
  <2>5. \A d \in Encounters : cirkleOf[d] # NoCirkle => cirkleOf[d] \in CirkleIds
    BY <1>0 DEF TypeOK
  <2>6. Kinds'
    BY <1>0, <2>1, <2>3, <2>5 DEF TypeOK, CirkleInv, Kinds
  <2>7. EncountersListed' /\ CirkleFits'
    BY <2>1, <2>3, <2>5 DEF CirkleInv, EncountersListed, EncountersOf, CirkleFits
  <2>8. Paired'
    <3>1. \A d \in Encounters :
            /\ InSmall(d)' <=> InSmall(d)
            /\ UsersOf(MpostsOf(d))' = UsersOf(MpostsOf(d))
            /\ InSmall(d) => RowsOf(cirkles[cirkleOf[d]])' = RowsOf(cirkles[cirkleOf[d]])
            /\ InSmall(d) => Size(cirkles[cirkleOf[d]].sort)' = Size(cirkles[cirkleOf[d]].sort)
      BY <2>1, <2>3, <2>5 DEF InSmall, UsersOf, MpostsOf, RowsOf, Size
    <3> QED
      BY <3>1 DEF CirkleInv, Paired
  <2>9. PrivateStaysPrivate'
    BY <2>3 DEF CirkleInv, PrivateStaysPrivate, RowsOf
  <2> QED
    BY <2>4, <2>6, <2>7, <2>8, <2>9 DEF CirkleInv
<1>7. CASE UNCHANGED vars
  BY <1>7 DEF vars, CirkleInv, TypeOK, Posted, Kinds, EncountersListed, EncountersOf, CirkleFits,
              Paired, InSmall, MpostsOf, PrivateStaysPrivate, UsersOf, RowsOf, Size
<1> QED
  BY <1>1, <1>3, <1>4, <1>5, <1>6, <1>7 DEF Next

\* The parts of the invariant hold together.
THEOREM InvariantHolds == Spec => []CirkleInv
  BY CirkleInvInit, CirkleInvStep, PTL DEF Spec

\* Rows are well formed.
THEOREM TypeCorrect == Spec => []TypeOK
<1>1. CirkleInv => TypeOK
  BY DEF CirkleInv
<1> QED
  BY <1>1, InvariantHolds, PTL

\* A cirkle lists every encounter it has.
THEOREM EncountersAreListed == Spec => []EncountersListed
<1>1. CirkleInv => EncountersListed
  BY DEF CirkleInv
<1> QED
  BY <1>1, InvariantHolds, PTL

\* Every encounter in a solo or private cirkle is of that type: one that grows
\* or shrinks has left it.
THEOREM CirklesFit == Spec => []CirkleFits
<1>1. CirkleInv => CirkleFits
  BY DEF CirkleInv
<1> QED
  BY <1>1, InvariantHolds, PTL

\* Nobody ever joins a solo cirkle of somebody else or the private cirkle of
\* two others.
THEOREM PrivateIsForGood == Spec => []PrivateStaysPrivate
<1>1. CirkleInv => PrivateStaysPrivate
  BY DEF CirkleInv
<1> QED
  BY <1>1, InvariantHolds, PTL

-----------------------------------------------------------------------------
(* The counts.  As long as nobody has two mposts in an encounter, each     *)
(* encounter counts its users once in its cirkle and takes them off once:  *)
(* extract_information is one of the steps Stays, Leaves, Enters, Starts,  *)
(* and each of them keeps CountInv.                                        *)

\* The encounters of a cirkle that have a mpost of hers.
EncountersWith(c, u) == {e \in EncountersOf(c) \ collided : \E m \in MpostsOf(e) : UserOf[m] = u}

\* An encounter of no type yet is in a cirkle only as long as a hoster claims it.
ClaimsHold ==
  \A e \in Encounters \ collided :
    cirkleOf[e] # NoCirkle /\ meetType[e] = 0 => \E m \in MpostsOf(e) \ deleted : claim[m] # NoCirkle

\* Nobody is left in a collided encounter, and it is not in a solo or private cirkle.
CollidedInv == \A e \in collided : MpostsOf(e) \subseteq deleted /\ ~InSmall(e)

\* MembersInCirkle, for encounters of no type as well
AllMembers ==
  \A e \in Encounters \ collided :
    cirkleOf[e] # NoCirkle => ActiveUsers(e) \subseteq ActiveIn(cirkleOf[e]) \union quit

\* Both of a private cirkle come and go together: it has the two, or it is over.
Whole(c) ==
  LET x == cirkles[c]
  IN  /\ Cardinality(RowsOf(x)) = 2 /\ x.usersCount = 2
      /\ RowsOf(x) \subseteq ActiveIn(c) \union quit
      /\ \A u, v \in RowsOf(x) : x.ref[u] = x.ref[v]

Over(c) == ActiveIn(c) = {} /\ EncountersOf(c) = {}

PairsInv == \A c \in CirkleIds : cirkles[c].sort = "private" => Whole(c) \/ Over(c)

CountInv == ClaimsHold /\ CollidedInv /\ AllMembers /\ PairsInv /\ OneCirklePerPair /\ RefCovers

-----------------------------------------------------------------------------
(* Rows, when a tally counts each user once.                               *)

\* Mposts of different users are counted one each.
LEMMA TallyOne ==
  ASSUME NEW S \in SUBSET Mposts, \A m, n \in S : UserOf[m] = UserOf[n] => m = n
  PROVE  Tally(S) = OneEach(UsersOf(S))
<1>1. ASSUME NEW u \in Users PROVE Sessions(u, S) = IF u \in UsersOf(S) THEN 1 ELSE 0
  <2> DEFINE mine == {m \in S : UserOf[m] = u}
  <2>1. CASE u \in UsersOf(S)
    <3>1. PICK m \in S : UserOf[m] = u
      BY <2>1 DEF UsersOf
    <3>2. mine = {m}
      BY <3>1
    <3> QED
      BY <2>1, <3>2, FS_Singleton DEF Sessions
  <2>2. CASE u \notin UsersOf(S)
    <3>1. mine = {}
      BY <2>2 DEF UsersOf
    <3> QED
      BY <2>2, <3>1, FS_EmptySet DEF Sessions
  <2> QED
    BY <2>1, <2>2
<1> QED
  BY <1>1 DEF Tally, OneEach

\* add_encounter for the users us
LEMMA WithOne ==
  ASSUME NEW x \in Rows, NEW us \in SUBSET Users
  PROVE  /\ With(x, OneEach(us)) \in Rows
         /\ \A u \in Users :
              /\ With(x, OneEach(us)).ref[u] = IF u \in us THEN x.ref[u] + 1 ELSE x.ref[u]
              /\ With(x, OneEach(us)).status[u] = IF u \in us THEN "active" ELSE x.status[u]
         /\ With(x, OneEach(us)).usersCount = x.usersCount + Cardinality(us \ RowsOf(x))
         /\ With(x, OneEach(us)).sort = x.sort
         /\ RowsOf(With(x, OneEach(us))) = RowsOf(x) \union us
<1> DEFINE n == OneEach(us)
           came == {u \in Users : n[u] > 0}
           new == {u \in came : x.status[u] = "none"}
           ref == [u \in Users |-> x.ref[u] + n[u]]
           status == [u \in Users |-> IF u \in came THEN "active" ELSE x.status[u]]
           count == x.usersCount + Cardinality(new)
<1>1. With(x, n) = [x EXCEPT !.ref = ref, !.status = status, !.usersCount = count]
  BY Zenon DEF With
<1>2. n \in [Users -> Nat] /\ came = us /\ \A u \in Users : n[u] = IF u \in us THEN 1 ELSE 0
  BY DEF OneEach
<1>3. new = us \ RowsOf(x)
  BY <1>2 DEF RowsOf
<1>4. With(x, n) \in Rows /\ With(x, n).sort = x.sort /\ RowsOf(With(x, n)) = RowsOf(x) \union came
  BY <1>2, WithRow
<1>5. \A u \in Users : /\ ref[u] = IF u \in us THEN x.ref[u] + 1 ELSE x.ref[u]
                       /\ status[u] = IF u \in us THEN "active" ELSE x.status[u]
  <2>1. x.ref \in [Users -> Int]
    BY DEF Rows
  <2> QED
    BY <1>2, <2>1
<1> HIDE DEF ref, status, count, n
<1>6. With(x, n).ref = ref /\ With(x, n).status = status /\ With(x, n).usersCount = count
  BY <1>1 DEF Rows
<1> QED
  BY <1>2, <1>3, <1>4, <1>5, <1>6 DEF n, count

Gone(x, us) == {u \in RowsOf(x) \intersect us : x.ref[u] <= 1}

\* delete_encounter for the users us
LEMMA WithoutOne ==
  ASSUME NEW x \in Rows, NEW us \in SUBSET Users
  PROVE  /\ Without(x, OneEach(us)) \in Rows
         /\ \A u \in Users :
              /\ Without(x, OneEach(us)).ref[u] = IF u \in Gone(x, us) THEN x.ref[u] - 1 ELSE x.ref[u]
              /\ Without(x, OneEach(us)).status[u] = IF u \in Gone(x, us) THEN "deleted" ELSE x.status[u]
         /\ Without(x, OneEach(us)).usersCount = Cardinality(RowsOf(x) \ Gone(x, us))
         /\ Without(x, OneEach(us)).sort = x.sort
         /\ RowsOf(Without(x, OneEach(us))) = RowsOf(x)
<1> DEFINE n == OneEach(us)
           rows == {u \in Users : x.status[u] # "none"}
           gone == {u \in rows : n[u] > 0 /\ x.ref[u] - n[u] <= 0}
           ref == [u \in Users |-> IF u \in gone THEN x.ref[u] - n[u] ELSE x.ref[u]]
           status == [u \in Users |-> IF u \in gone THEN "deleted" ELSE x.status[u]]
           count == Cardinality(rows \ gone)
<1>1. Without(x, n) = [x EXCEPT !.ref = ref, !.status = status, !.usersCount = count]
  BY Zenon DEF Without
<1>2. n \in [Users -> Nat] /\ \A u \in Users : n[u] = IF u \in us THEN 1 ELSE 0
  BY DEF OneEach
<1>3. rows = RowsOf(x) /\ gone = Gone(x, us)
  <2>1. x.ref \in [Users -> Int]
    BY DEF Rows
  <2>2. rows = RowsOf(x)
    BY DEF RowsOf
  <2>3. ASSUME NEW u \in rows PROVE u \in gone <=> u \in Gone(x, us)
    <3>1. n[u] = (IF u \in us THEN 1 ELSE 0) /\ x.ref[u] \in Int
      BY <1>2, <2>1
    <3> QED
      BY <2>2, <3>1 DEF Gone
  <2>4. gone \subseteq rows /\ Gone(x, us) \subseteq rows
    BY <2>2 DEF Gone
  <2> QED
    BY <2>2, <2>3, <2>4
<1>4. Without(x, n) \in Rows /\ Without(x, n).sort = x.sort /\ RowsOf(Without(x, n)) = RowsOf(x)
  BY <1>2, WithoutRow
<1>5. \A u \in Users : /\ ref[u] = IF u \in Gone(x, us) THEN x.ref[u] - 1 ELSE x.ref[u]
                       /\ status[u] = IF u \in Gone(x, us) THEN "deleted" ELSE x.status[u]
  <2>1. \A u \in Gone(x, us) : n[u] = 1
    BY <1>2 DEF Gone
  <2> QED
    BY <1>3, <2>1
<1> HIDE DEF ref, status, count, n
<1>6. Without(x, n).ref = ref /\ Without(x, n).status = status /\ Without(x, n).usersCount = count
  BY <1>1 DEF Rows
<1> QED
  BY <1>3, <1>4, <1>5, <1>6 DEF n, count

\* Mposts are finitely many, so are the encounters that have one.
LEMMA MetFinite ==
  ASSUME NEW f \in [Mposts -> Encounters \union {NoMeet}], NEW E, \A e \in E : \E m \in Mposts : f[m] = e
  PROVE  IsFiniteSet(E) /\ Cardinality(E) \in Nat
<1> DEFINE met == {f[m] : m \in Mposts}
<1>1. f \in Surjection(Mposts, met)
  BY DEF Surjection
<1>2. IsFiniteSet(met)
  BY <1>1, FS_Surjection, DataAssumption DEF DataAssumption
<1>3. E \subseteq met
  OBVIOUS
<1> QED
  BY <1>2, <1>3, FS_Subset, FS_CardinalityType

-----------------------------------------------------------------------------
(* What extract_information does to the counts of encounter e, whose       *)
(* mposts are S from now on.                                               *)

\* nothing
Stays(e) ==
  /\ UNCHANGED <<cirkles, cirkleOf>>
  /\ cirkleOf[e] = NoCirkle \/ (e \in collided' /\ ~InSmall(e))

\* it leaves its cirkle
Leaves(e) ==
  /\ cirkleOf[e] # NoCirkle
  /\ DeleteEncounter(e, cirkleOf[e], OneEach(IF e \in collided' THEN {} ELSE UsersOf(MpostsOf(e))))

\* users are counted in cirkle c; everybody if it was not in it before
Enters(e, S, c, us) ==
  /\ AddEncounter(e, c, OneEach(us)) /\ cirkles[c].sort # "none"
  /\ e \notin collided' /\ cirkleOf[e] \in {c, NoCirkle} /\ us \subseteq UsersOf(S)
  /\ IF cirkleOf[e] = c THEN UsersOf(S) \ UsersOf(MpostsOf(e)) \subseteq us ELSE us = UsersOf(S)
  /\ cirkles[c].sort = "private" =>
       /\ us = UsersOf(S) /\ us \subseteq RowsOf(cirkles[c]) /\ Cardinality(us) = 2
       /\ cirkleOf[e] # c => us \subseteq ActiveIn(c)

\* it starts a cirkle, if there is none for its users
Starts(e, S, sort) ==
  /\ StartCirkle(e, sort, OneEach(UsersOf(S)))
  /\ cirkleOf[e] = NoCirkle /\ e \notin collided'
  /\ sort = "private" =>
       Cardinality(UsersOf(S)) = 2 /\ \A c \in CirkleIds : ~IsCirkleOf(c, "private", UsersOf(S))

Counts(e, S) ==
  \/ Stays(e) \/ Leaves(e)
  \/ \E c \in CirkleIds, us \in SUBSET Users : Enters(e, S, c, us)
  \/ \E sort \in Sorts \ {"none"} : Starts(e, S, sort)

\* and what else it does
Counted(e, S, del) ==
  /\ Counts(e, S)
  /\ collided \subseteq collided' /\ collided' \subseteq collided \union {e}
  /\ deleted' = IF e \in collided' THEN del \union S ELSE del
  /\ \E type \in 0..3 : meetType' = [meetType EXCEPT ![e] = type]
  /\ e \notin collided' /\ cirkleOf'[e] # NoCirkle /\ meetType'[e] = 0 =>
       \E m \in S \ del : claim[m] # NoCirkle

\* A type that is found again is that of somebody who has been there, and a group
\* stays one.
LEMMA GroupIsForGood ==
  ASSUME NEW S \in SUBSET Mposts, NEW us \in SUBSET UsersOf(S)
  PROVE  TypeFor(3, S, us) = 3
<1>1. us \in SUBSET Users
  BY DataAssumption DEF DataAssumption, UsersOf
<1>2. Cardinality(us) \in Nat
  BY <1>1, UserSets
<1> QED
  BY <1>2 DEF TypeFor

LEMMA ExtractCounts ==
  ASSUME CirkleInv, ClaimsHold, NEW e \in Encounters,
         NEW S \in SUBSET Mposts, NEW new \in SUBSET S, S \ new = MpostsOf(e),
         NEW del \in SUBSET Mposts, Extract(e, S, new, del),
         \A m, n \in S : UserOf[m] = UserOf[n] => m = n,
         \A m \in MpostsOf(e) \ deleted : claim[m] # NoCirkle => m \notin del
  PROVE  Counted(e, S, del)
<1> DEFINE claims == {claim[m] : m \in S \ del} \ {NoCirkle}
           collides == e \in collided \/ Cardinality(claims) > 1
           us == IF collides THEN {} ELSE {UserOf[m] : m \in S \ del}
           type == TypeFor(meetType[e], S, us)
<1>1. PICK cid \in IF claims = {} \/ e \in collided THEN {NoCirkle} ELSE claims :
        /\ collided' = IF collides THEN collided \union {e} ELSE collided
        /\ deleted' = IF collides THEN del \union S ELSE del
        /\ meetType' = [meetType EXCEPT ![e] = type]
        /\ CASE MustLeave(e, cid, collides, type) ->
                  DeleteEncounter(e, cirkleOf[e], Tally(IF collides THEN {} ELSE S \ new))
             [] ~MustLeave(e, cid, collides, type) /\ collides ->
                  UNCHANGED <<cirkleOf, cirkles>>
             [] ~MustLeave(e, cid, collides, type) /\ ~collides /\ cid = NoCirkle ->
                  GetCirkleForEncounter(e, S, us, type)
             [] ~MustLeave(e, cid, collides, type) /\ ~collides /\ cid # NoCirkle ->
                  AddEncounter(e, cid, Tally(IF cirkleOf[e] = NoCirkle THEN S ELSE new))
  BY DEF Extract
<1>2. /\ cirkleOf[e] \in CirkleIds \union {NoCirkle} /\ meetType[e] \in 0..3
      /\ cirkleOf \in [Encounters -> CirkleIds \union {NoCirkle}] /\ meetType \in [Encounters -> 0..3]
      /\ cirkles \in [CirkleIds -> Rows]
      /\ deleted \subseteq Mposts /\ collided \subseteq Encounters /\ NoCirkle \notin CirkleIds
  BY DataAssumption DEF CirkleInv, TypeOK, DataAssumption
<1>3. cid # NoCirkle => cid \in CirkleIds /\ cirkles[cid].sort = "group"
  <2>1. \A m \in Mposts : claim[m] \in CirkleIds \union {NoCirkle}
    BY DEF CirkleInv, TypeOK
  <2> QED
    BY <2>1 DEF CirkleInv, Kinds
<1>4. us \in SUBSET UsersOf(S) /\ us \subseteq Users
  BY DataAssumption DEF DataAssumption, UsersOf
<1>5. collides => us = {}
  OBVIOUS
<1>6. ~collides /\ cid = NoCirkle => \A m \in S \ del : claim[m] = NoCirkle
  OBVIOUS
<1>7. cid # NoCirkle => \E m \in S \ del : claim[m] # NoCirkle
  OBVIOUS
<1>8. collides \/ e \notin collided
  OBVIOUS
<1> HIDE DEF claims, us
<1>9. type \in 0..3 /\ (type \in {1, 2} => UsersOf(S) = us /\ Cardinality(us) = type)
  BY <1>2, <1>4, TypeIsSize
<1>10. meetType[e] = 3 => type = 3
  BY <1>4, GroupIsForGood
<1> HIDE DEF collides, type
<1>11. e \in collided' <=> collides
  BY <1>1, <1>8
<1>12. InSmall(e) => meetType[e] = Size(cirkles[cirkleOf[e]].sort) /\ meetType[e] \in {1, 2}
  BY SmallCirkles DEF CirkleInv, InSmall, Small, Size
<1>13. \A T \in SUBSET S : Tally(T) = OneEach(UsersOf(T))
  BY TallyOne
<1>14. ~MustLeave(e, cid, collides, type) /\ InSmall(e) =>
        ~collides /\ cid = NoCirkle /\ type = meetType[e]
  <2>1. "group" \notin Small
    BY DEF Small
  <2> QED
    BY <1>3, <1>12, <2>1 DEF MustLeave, InSmall
<1>15. UsersOf(S) \subseteq Users /\ UsersOf(new) \subseteq UsersOf(S) /\ S = MpostsOf(e) \union new
       /\ UsersOf(S) = UsersOf(MpostsOf(e)) \union UsersOf(new)
  BY DataAssumption DEF DataAssumption, UsersOf
<1>16. Counts(e, S) /\ (e \notin collided' /\ cirkleOf'[e] # NoCirkle /\ type = 0 =>
                          \E m \in S \ del : claim[m] # NoCirkle)
  <2>1. CASE MustLeave(e, cid, collides, type)
    <3> DEFINE T == IF collides THEN {} ELSE S \ new
    <3>1. T \in SUBSET S /\ UsersOf(T) = IF e \in collided' THEN {} ELSE UsersOf(MpostsOf(e))
      BY <1>11 DEF UsersOf
    <3>2. DeleteEncounter(e, cirkleOf[e], Tally(T)) /\ cirkleOf[e] # NoCirkle
      BY <1>1, <2>1 DEF MustLeave
    <3>3. Tally(T) = OneEach(UsersOf(T))
      BY <1>13, <3>1
    <3>4. Leaves(e)
      BY <3>1, <3>2, <3>3 DEF Leaves
    <3>5. cirkleOf'[e] = NoCirkle
      BY <1>2, <3>2 DEF DeleteEncounter
    <3> QED
      BY <3>4, <3>5 DEF Counts
  <2>2. CASE ~MustLeave(e, cid, collides, type) /\ collides
    <3>1. UNCHANGED <<cirkles, cirkleOf>>
      BY <1>1, <2>2
    <3>2. e \in collided' /\ ~InSmall(e)
      BY <1>11, <1>14, <2>2
    <3> QED
      BY <3>1, <3>2 DEF Counts, Stays
  <2>3. CASE ~MustLeave(e, cid, collides, type) /\ ~collides /\ cid # NoCirkle
    <3> DEFINE T == IF cirkleOf[e] = NoCirkle THEN S ELSE new
    <3>1. AddEncounter(e, cid, Tally(T)) /\ T \in SUBSET S
      BY <1>1, <2>3
    <3>2. Tally(T) = OneEach(UsersOf(T))
      BY <1>13, <3>1
    <3>3. cirkleOf[e] \in {cid, NoCirkle}
      BY <2>3 DEF MustLeave
    <3>4. cirkles[cid].sort # "none" /\ cirkles[cid].sort # "private" /\ cid \in CirkleIds
      BY <1>3, <2>3
    <3>5. UsersOf(T) \subseteq UsersOf(S) /\ UsersOf(T) \in SUBSET Users
      BY <1>15
    <3>6. IF cirkleOf[e] = cid THEN UsersOf(S) \ UsersOf(MpostsOf(e)) \subseteq UsersOf(T) ELSE UsersOf(T) = UsersOf(S)
      BY <1>15, <2>3, <3>3
    <3>7. e \notin collided'
      BY <1>11, <2>3
    <3> HIDE DEF T
    <3>8. Enters(e, S, cid, UsersOf(T))
      BY <3>1, <3>2, <3>3, <3>4, <3>5, <3>6, <3>7 DEF Enters
    <3> QED
      BY <1>7, <2>3, <3>4, <3>5, <3>8 DEF Counts
  <2>4. CASE ~MustLeave(e, cid, collides, type) /\ ~collides /\ cid = NoCirkle
    <3>0. e \notin collided' /\ e \notin collided
      BY <1>8, <1>11, <2>4
    <3>1. GetCirkleForEncounter(e, S, us, type)
      BY <1>1, <2>4
    <3>2. CASE type = 0
      <4>1. UNCHANGED <<cirkles, cirkleOf>>
        BY <3>1, <3>2 DEF GetCirkleForEncounter
      <4>2. ASSUME cirkleOf[e] # NoCirkle PROVE FALSE
        <5>1. meetType[e] = 0
          BY <1>2, <1>10, <2>4, <3>2, <4>2 DEF MustLeave
        <5>2. PICK m \in MpostsOf(e) \ deleted : claim[m] # NoCirkle
          BY <3>0, <4>2, <5>1 DEF ClaimsHold
        <5>3. m \in S \ del
          BY <1>15, <5>2
        <5> QED
          BY <1>6, <2>4, <5>2, <5>3
      <4>3. cirkleOf' = cirkleOf /\ cirkleOf[e] = NoCirkle
        BY <4>1, <4>2
      <4>4. Stays(e)
        BY <4>1, <4>3 DEF Stays
      <4> QED
        BY <4>3, <4>4 DEF Counts
    <3>3. CASE type # 0 /\ cirkleOf[e] # NoCirkle
      <4> DEFINE c == cirkleOf[e]
      <4>1. AddEncounter(e, c, OneEach(UsersOf(S))) /\ c \in CirkleIds /\ cirkles[c].sort # "none"
        BY <1>2, <1>13, <3>1, <3>3 DEF GetCirkleForEncounter, CirkleInv, Kinds
      <4>2. ASSUME cirkles[c].sort = "private"
            PROVE  UsersOf(S) \subseteq RowsOf(cirkles[c]) /\ Cardinality(UsersOf(S)) = 2
        <5>1. InSmall(e) /\ Size(cirkles[c].sort) = 2
          BY <3>3, <4>2 DEF InSmall, Small, Size
        <5>2. type = 2
          BY <1>12, <1>14, <2>4, <5>1
        <5>3. UsersOf(MpostsOf(e)) \subseteq RowsOf(cirkles[c]) /\ Cardinality(UsersOf(MpostsOf(e))) = 2
          BY <5>1 DEF CirkleInv, Paired
        <5>4. Cardinality(UsersOf(S)) = 2 /\ IsFiniteSet(UsersOf(S))
          BY <1>9, <1>15, <5>2, UserSets
        <5>5. UsersOf(MpostsOf(e)) = UsersOf(S)
          BY <1>15, <5>3, <5>4, FS_Subset
        <5> QED
          BY <5>3, <5>5
      <4> HIDE DEF c
      <4>3. Enters(e, S, c, UsersOf(S))
        <5>1. cirkleOf[e] = c
          BY DEF c
        <5> QED
          BY <1>15, <3>0, <4>1, <4>2, <5>1 DEF Enters
      <4> QED
        BY <1>15, <3>3, <4>1, <4>3 DEF Counts
    <3>4. CASE type \in {1, 2} /\ cirkleOf[e] = NoCirkle
      <4> DEFINE sort == IF Cardinality(us) = 1 THEN "solo" ELSE "private"
                 found == {c \in CirkleIds : IsCirkleOf(c, sort, us)}
      <4>1. GetCirkleForUsers(e, us)
        <5>1. CASE type = 1
          BY <3>1, <3>4, <5>1 DEF GetCirkleForEncounter
        <5>2. CASE type = 2
          BY <3>1, <3>4, <5>2 DEF GetCirkleForEncounter
        <5> QED
          BY <3>4, <5>1, <5>2
      <4>2. UsersOf(S) = us /\ Cardinality(us) = type
        BY <1>9, <3>4
      <4>3. sort \in Sorts \ {"none"} /\ (sort = "private" => Cardinality(us) = 2)
        BY <3>4, <4>2 DEF Sorts
      <4>4. IF found # {} THEN \E c \in found : AddEncounter(e, c, OneEach(us))
                          ELSE StartCirkle(e, sort, OneEach(us))
        BY <4>1 DEF GetCirkleForUsers
      <4>5. \A c \in found : /\ cirkles[c].sort = sort /\ UsersOf(S) \subseteq RowsOf(cirkles[c])
                              /\ UsersOf(S) \subseteq ActiveIn(c)
        BY <1>4, <4>2 DEF IsCirkleOf, ActiveIn, RowsOf
      <4>6. found \subseteq CirkleIds /\ (found = {} => \A c \in CirkleIds : ~IsCirkleOf(c, sort, us))
        OBVIOUS
      <4> HIDE DEF found, sort
      <4>7. CASE found # {}
        <5>1. PICK c \in found : AddEncounter(e, c, OneEach(us))
          BY <4>4, <4>7
        <5>2. c \in CirkleIds /\ cirkles[c].sort = sort /\ cirkleOf[e] # c
          BY <1>2, <3>4, <4>5, <4>6, <5>1
        <5>3. Enters(e, S, c, UsersOf(S))
          BY <3>0, <3>4, <4>2, <4>3, <4>5, <5>1, <5>2 DEF Enters
        <5>4. Counts(e, S)
          BY <1>15, <5>2, <5>3 DEF Counts
        <5> QED
          BY <3>4, <5>4
      <4>8. CASE found = {}
        <5>1. Starts(e, S, sort)
          BY <3>0, <3>4, <4>2, <4>3, <4>4, <4>6, <4>8 DEF Starts
        <5>3. Counts(e, S)
          BY <4>3, <5>1 DEF Counts
        <5> QED
          BY <3>4, <5>3
      <4> QED
        BY <4>7, <4>8
    <3>5. CASE type = 3 /\ cirkleOf[e] = NoCirkle
      <4>1. StartCirkle(e, "group", OneEach(UsersOf(S)))
        BY <1>13, <3>1, <3>5 DEF GetCirkleForEncounter
      <4>2. "group" \in Sorts \ {"none"}
        BY DEF Sorts
      <4>3. Starts(e, S, "group")
        BY <3>0, <3>5, <4>1 DEF Starts
      <4> QED
        BY <3>5, <4>2, <4>3 DEF Counts
    <3> QED
      BY <1>9, <3>2, <3>3, <3>4, <3>5
  <2> QED
    BY <2>1, <2>2, <2>3, <2>4
<1>17. meetType'[e] = type
  BY <1>1, <1>2
<1> QED
  BY <1>1, <1>9, <1>11, <1>16, <1>17 DEF Counted

\* Cirkle c is the only one that changes, e the only encounter that moves.
OnlyOne(e, c) ==
  /\ \A d \in CirkleIds \ {c} : cirkles'[d] = cirkles[d]
  /\ \A d \in Encounters \ {e} : cirkleOf'[d] = cirkleOf[d]

\* the row of the cirkle that is left
RowLess(e, c, us) ==
  LET x == cirkles[c]
      y == cirkles'[c]
  IN  /\ OnlyOne(e, c) /\ cirkleOf[e] = c /\ cirkleOf'[e] = NoCirkle
      /\ \A u \in Users : /\ y.ref[u] = IF u \in Gone(x, us) THEN x.ref[u] - 1 ELSE x.ref[u]
                          /\ y.status[u] = IF u \in Gone(x, us) THEN "deleted" ELSE x.status[u]
      /\ y.usersCount = Cardinality(RowsOf(x) \ Gone(x, us))
      /\ y.sort = x.sort /\ RowsOf(y) = RowsOf(x)

\* the row of the cirkle that is entered
RowMore(e, c, us) ==
  LET x == cirkles[c]
      y == cirkles'[c]
  IN  /\ OnlyOne(e, c) /\ cirkleOf'[e] = c
      /\ \A u \in Users : /\ y.ref[u] = IF u \in us THEN x.ref[u] + 1 ELSE x.ref[u]
                          /\ y.status[u] = IF u \in us THEN "active" ELSE x.status[u]
      /\ y.usersCount = x.usersCount + Cardinality(us \ RowsOf(x))
      /\ y.sort = x.sort /\ RowsOf(y) = RowsOf(x) \union us

\* the row of a new cirkle
RowNew(e, c, us, sort) ==
  LET y == cirkles'[c]
  IN  /\ OnlyOne(e, c) /\ cirkleOf'[e] = c /\ cirkles[c].sort = "none" /\ EncountersOf(c) = {}
      /\ \A u \in Users : /\ y.ref[u] = IF u \in us THEN 1 ELSE 0
                          /\ y.status[u] = IF u \in us THEN "active" ELSE "none"
      /\ y.usersCount = Cardinality(us) /\ y.sort = sort /\ RowsOf(y) = us

LEMMA LeavesRow ==
  ASSUME CirkleInv, NEW e \in Encounters, Leaves(e)
  PROVE  \E c \in CirkleIds : RowLess(e, c, IF e \in collided' THEN {} ELSE UsersOf(MpostsOf(e)))
<1> DEFINE c == cirkleOf[e]
           us == IF e \in collided' THEN {} ELSE UsersOf(MpostsOf(e))
           y == Without(cirkles[c], OneEach(us))
<1>1. /\ cirkles \in [CirkleIds -> Rows] /\ cirkleOf \in [Encounters -> CirkleIds \union {NoCirkle}]
      /\ c \in CirkleIds /\ us \in SUBSET Users
  BY DataAssumption DEF CirkleInv, TypeOK, Leaves, UsersOf, MpostsOf, DataAssumption
<1>2. cirkleOf' = [cirkleOf EXCEPT ![e] = NoCirkle] /\ cirkles' = [cirkles EXCEPT ![c] = y]
  BY DEF Leaves, DeleteEncounter
<1>3. PICK k \in CirkleIds, U \in SUBSET Users : k = c /\ U = us
  BY <1>1
<1>4. /\ \A u \in Users :
           /\ y.ref[u] = IF u \in Gone(cirkles[c], us) THEN cirkles[c].ref[u] - 1 ELSE cirkles[c].ref[u]
           /\ y.status[u] = IF u \in Gone(cirkles[c], us) THEN "deleted" ELSE cirkles[c].status[u]
      /\ y.usersCount = Cardinality(RowsOf(cirkles[c]) \ Gone(cirkles[c], us))
      /\ y.sort = cirkles[c].sort /\ RowsOf(y) = RowsOf(cirkles[c])
  BY <1>1, WithoutOne
<1>5. /\ cirkles'[k] = y /\ OnlyOne(e, k) /\ cirkleOf'[e] = NoCirkle /\ cirkleOf[e] = k
  BY <1>1, <1>2, <1>3 DEF OnlyOne
<1> HIDE DEF y, c, us
<1>6. RowLess(e, k, U)
  BY <1>3, <1>4, <1>5 DEF RowLess
<1> QED
  BY <1>3, <1>6 DEF us

LEMMA EntersRow ==
  ASSUME CirkleInv, NEW e \in Encounters, NEW S \in SUBSET Mposts, NEW c \in CirkleIds,
         NEW us \in SUBSET Users, Enters(e, S, c, us)
  PROVE  RowMore(e, c, us)
<1> DEFINE w == With(cirkles[c], OneEach(us))
           y == [w EXCEPT !.encounters = IF cirkleOf[e] # c THEN EncountersOf(c) \union {e} ELSE @]
<1>1. cirkles \in [CirkleIds -> Rows] /\ cirkleOf \in [Encounters -> CirkleIds \union {NoCirkle}]
  BY DEF CirkleInv, TypeOK
<1>2. cirkleOf' = [cirkleOf EXCEPT ![e] = c] /\ cirkles' = [cirkles EXCEPT ![c] = y]
  BY DEF Enters, AddEncounter
<1>3. /\ w \in Rows
      /\ \A u \in Users :
           /\ w.ref[u] = IF u \in us THEN cirkles[c].ref[u] + 1 ELSE cirkles[c].ref[u]
           /\ w.status[u] = IF u \in us THEN "active" ELSE cirkles[c].status[u]
      /\ w.usersCount = cirkles[c].usersCount + Cardinality(us \ RowsOf(cirkles[c]))
      /\ w.sort = cirkles[c].sort /\ RowsOf(w) = RowsOf(cirkles[c]) \union us
  BY <1>1, WithOne
<1> HIDE DEF w
<1>4. y.ref = w.ref /\ y.status = w.status /\ y.usersCount = w.usersCount /\ y.sort = w.sort
  BY <1>3 DEF Rows
<1>5. RowsOf(y) = RowsOf(w)
  BY <1>4 DEF RowsOf
<1> HIDE DEF y
<1>6. cirkles'[c] = y /\ OnlyOne(e, c) /\ cirkleOf'[e] = c
  BY <1>1, <1>2 DEF OnlyOne
<1> QED
  BY <1>3, <1>4, <1>5, <1>6 DEF RowMore

LEMMA StartsRow ==
  ASSUME CirkleInv, NEW e \in Encounters, NEW S \in SUBSET Mposts, NEW sort \in Sorts \ {"none"},
         Starts(e, S, sort)
  PROVE  \E c \in CirkleIds : RowNew(e, c, UsersOf(S), sort)
<1> DEFINE us == UsersOf(S)
           z == [NoRow EXCEPT !.sort = sort]
           w == With(z, OneEach(us))
           y == [w EXCEPT !.encounters = {e}]
<1>1. /\ cirkles \in [CirkleIds -> Rows] /\ cirkleOf \in [Encounters -> CirkleIds \union {NoCirkle}]
      /\ us \in SUBSET Users /\ NoCirkle \notin CirkleIds
  BY DataAssumption DEF CirkleInv, TypeOK, UsersOf, DataAssumption
<1>2. PICK c \in CirkleIds : /\ cirkles[c].sort = "none" /\ cirkleOf' = [cirkleOf EXCEPT ![e] = c]
                             /\ cirkles' = [cirkles EXCEPT ![c] = y]
  BY DEF Starts, StartCirkle
<1>3. /\ z \in Rows /\ z.sort = sort /\ RowsOf(z) = {} /\ z.usersCount = 0
      /\ \A u \in Users : z.ref[u] = 0 /\ z.status[u] = "none"
  <2>1. z \in Rows /\ z.sort = sort /\ RowsOf(z) = {}
    BY NewRow
  <2> QED
    BY <2>1 DEF NoRow
<1> HIDE DEF z
<1>4. /\ w \in Rows
      /\ \A u \in Users : /\ w.ref[u] = IF u \in us THEN 1 ELSE 0
                          /\ w.status[u] = IF u \in us THEN "active" ELSE "none"
      /\ w.usersCount = Cardinality(us) /\ w.sort = sort /\ RowsOf(w) = us
  <2>1. /\ w \in Rows
        /\ \A u \in Users : /\ w.ref[u] = IF u \in us THEN z.ref[u] + 1 ELSE z.ref[u]
                            /\ w.status[u] = IF u \in us THEN "active" ELSE z.status[u]
        /\ w.usersCount = z.usersCount + Cardinality(us \ RowsOf(z)) /\ w.sort = z.sort
        /\ RowsOf(w) = RowsOf(z) \union us
    BY <1>1, <1>3, WithOne
  <2>2. us \ RowsOf(z) = us /\ Cardinality(us) \in Nat
    BY <1>1, <1>3, UserSets
  <2> HIDE DEF w, us
  <2> QED
    BY <1>3, <2>1, <2>2
<1> HIDE DEF w
<1>5. y.ref = w.ref /\ y.status = w.status /\ y.usersCount = w.usersCount /\ y.sort = w.sort
  BY <1>4 DEF Rows
<1>6. RowsOf(y) = RowsOf(w)
  BY <1>5 DEF RowsOf
<1> HIDE DEF y
<1>7. cirkles'[c] = y /\ OnlyOne(e, c) /\ cirkleOf'[e] = c
  BY <1>1, <1>2 DEF OnlyOne
<1>8. EncountersOf(c) = {}
  BY <1>1, <1>2 DEF CirkleInv, Kinds, EncountersOf
<1> HIDE DEF us
<1>9. RowNew(e, c, us, sort)
  BY <1>2, <1>4, <1>5, <1>6, <1>7, <1>8 DEF RowNew
<1> QED
  BY <1>9 DEF us

-----------------------------------------------------------------------------
(* An extraction keeps the counts.                                         *)

\* The mposts of encounter e are S from now on; nothing happens to the others.
Changes(e, S) ==
  /\ MpostsOf(e) \subseteq S /\ MpostsOf(e)' = S
  /\ \A m, n \in S : UserOf[m] = UserOf[n] => m = n
  /\ \A d \in Encounters \ {e} :
       /\ MpostsOf(d)' = MpostsOf(d) /\ MpostsOf(d) \ deleted' = MpostsOf(d) \ deleted
       /\ meetType'[d] = meetType[d]
  /\ collided \subseteq collided' /\ collided' \subseteq collided \union {e}
  /\ deleted \subseteq deleted' /\ (e \in collided' => S \subseteq deleted')
  /\ e \notin collided' /\ cirkleOf'[e] # NoCirkle /\ meetType'[e] = 0 =>
       \E m \in S \ deleted' : claim[m] # NoCirkle
  /\ UNCHANGED <<claim, quit>>

\* The cirkles other than c keep what they have.
LEMMA OthersKeep ==
  ASSUME CirkleInv, NEW e \in Encounters, NEW S, Changes(e, S),
         NEW c \in CirkleIds \union {NoCirkle}, OnlyOne(e, c),
         cirkleOf[e] \in {c, NoCirkle}, cirkleOf'[e] \in {c, NoCirkle},
         NEW d \in CirkleIds, d # c
  PROVE  /\ EncountersOf(d)' = EncountersOf(d) /\ ActiveIn(d)' = ActiveIn(d)
         /\ \A u \in Users : EncountersWith(d, u)' = EncountersWith(d, u)
         /\ Whole(d) => Whole(d)'
         /\ Over(d) => Over(d)'
<1>1. cirkles'[d] = cirkles[d] /\ quit' = quit /\ d # NoCirkle
  BY DataAssumption DEF OnlyOne, Changes, DataAssumption
<1>2. EncountersOf(d)' = EncountersOf(d)
  BY <1>1 DEF EncountersOf, OnlyOne
<1>3. ActiveIn(d)' = ActiveIn(d)
  BY <1>1 DEF ActiveIn
<1>4. e \notin EncountersOf(d) /\ e \notin EncountersOf(d)'
  BY <1>1 DEF EncountersOf
<1>5. ASSUME NEW u \in Users PROVE EncountersWith(d, u)' = EncountersWith(d, u)
  <2>1. \A f \in EncountersOf(d) : MpostsOf(f)' = MpostsOf(f) /\ (f \in collided' <=> f \in collided)
    BY <1>4 DEF EncountersOf, Changes
  <2> QED
    BY <1>2, <2>1 DEF EncountersWith
<1>6. Whole(d) => Whole(d)'
  BY <1>1, <1>3 DEF Whole, RowsOf
<1> QED
  BY <1>2, <1>3, <1>5, <1>6 DEF Over

\* What is left to show of the cirkle that changes.
LEMMA CountsKeep ==
  ASSUME CirkleInv, CountInv, NEW e \in Encounters, NEW S \in SUBSET Mposts, Changes(e, S),
         NEW c \in CirkleIds \union {NoCirkle}, OnlyOne(e, c),
         cirkleOf[e] \in {c, NoCirkle}, cirkleOf'[e] \in {c, NoCirkle},
         e \in collided' => ~InSmall(e)',
         e \notin collided' /\ cirkleOf'[e] # NoCirkle => ActiveUsers(e)' \subseteq ActiveIn(c)' \union quit,
         c \in CirkleIds =>
           /\ cirkles[c].sort # "none" => cirkles'[c].sort = cirkles[c].sort
           /\ \A u \in Users : Cardinality(EncountersWith(c, u)') <= cirkles'[c].ref[u]
           /\ \A d \in EncountersOf(c) \ {e} :
                d \notin collided => ActiveUsers(d) \intersect ActiveIn(c) \subseteq ActiveIn(c)'
           /\ cirkles'[c].sort = "private" => Whole(c)' \/ Over(c)'
           /\ \A d \in CirkleIds \ {c} :
                /\ cirkles'[c].sort = "private" /\ cirkles[d].sort = "private"
                /\ ActiveIn(d) = ActiveIn(c)' /\ Cardinality(ActiveIn(d)) = 2
                => ActiveIn(d) \intersect quit # {}
  PROVE  CountInv'
<1>1. /\ cirkleOf \in [Encounters -> CirkleIds \union {NoCirkle}] /\ NoCirkle \notin CirkleIds
      /\ collided \subseteq Encounters
      /\ \A d \in Encounters \ {e} : cirkleOf'[d] = cirkleOf[d] /\ (d \in collided' <=> d \in collided)
      /\ quit' = quit /\ claim' = claim
  BY DataAssumption DEF CirkleInv, TypeOK, DataAssumption, OnlyOne, Changes
<1>2. \A d \in CirkleIds \ {c} : cirkles'[d] = cirkles[d]
  BY DEF OnlyOne
<1>3. \A d \in CirkleIds \ {c} :
        /\ EncountersOf(d)' = EncountersOf(d) /\ ActiveIn(d)' = ActiveIn(d)
        /\ \A u \in Users : EncountersWith(d, u)' = EncountersWith(d, u)
        /\ Whole(d) => Whole(d)'
        /\ Over(d) => Over(d)'
  BY OthersKeep
<1>4. ASSUME NEW d \in Encounters, d # e
      PROVE  /\ MpostsOf(d)' = MpostsOf(d) /\ MpostsOf(d) \ deleted' = MpostsOf(d) \ deleted
             /\ ActiveUsers(d)' = ActiveUsers(d) /\ meetType'[d] = meetType[d]
  BY <1>4 DEF Changes, ActiveUsers
<1>5. ClaimsHold'
  <2>1. ASSUME NEW d \in Encounters, d \notin collided', cirkleOf'[d] # NoCirkle, meetType'[d] = 0
        PROVE  \E m \in MpostsOf(d)' \ deleted' : claim[m] # NoCirkle
    <3>1. CASE d = e
      BY <2>1, <3>1 DEF Changes
    <3>2. CASE d # e
      BY <1>1, <1>4, <2>1, <3>2 DEF CountInv, ClaimsHold
    <3> QED
      BY <3>1, <3>2
  <2> QED
    BY <1>1, <2>1 DEF ClaimsHold
<1>6. CollidedInv'
  <2>1. ASSUME NEW d \in collided' PROVE MpostsOf(d)' \subseteq deleted' /\ ~InSmall(d)'
    <3>1. CASE d = e
      BY <2>1, <3>1 DEF Changes
    <3>2. CASE d # e
      <4>1. d \in Encounters /\ d \in collided /\ MpostsOf(d) \subseteq deleted /\ ~InSmall(d)
        BY <1>1, <3>2 DEF CountInv, CollidedInv, Changes
      <4>2. cirkleOf[d] # NoCirkle => cirkles'[cirkleOf[d]].sort = cirkles[cirkleOf[d]].sort
        BY <1>1, <1>2, <4>1 DEF CirkleInv, Kinds
      <4> QED
        BY <1>1, <1>4, <3>2, <4>1, <4>2 DEF InSmall, Changes
    <3> QED
      BY <3>1, <3>2
  <2> QED
    BY <2>1 DEF CollidedInv
<1>7. AllMembers'
  <2>1. ASSUME NEW d \in Encounters, d \notin collided', cirkleOf'[d] # NoCirkle
        PROVE  ActiveUsers(d)' \subseteq ActiveIn(cirkleOf[d])' \union quit
    <3>1. CASE d = e
      <4>1. cirkleOf'[e] = c
        BY <2>1, <3>1
      <4> QED
        BY <2>1, <3>1, <4>1 DEF ActiveIn
    <3>2. CASE d # e
      <4>1. /\ cirkleOf'[d] = cirkleOf[d] /\ cirkleOf[d] \in CirkleIds /\ d \notin collided
            /\ ActiveUsers(d) \subseteq ActiveIn(cirkleOf[d]) \union quit
        BY <1>1, <2>1, <3>2 DEF CountInv, AllMembers
      <4>2. PICK k \in CirkleIds : k = cirkleOf[d]
        BY <4>1
      <4>3. ActiveUsers(d) \intersect ActiveIn(k) \subseteq ActiveIn(k)'
        <5>1. CASE k = c
          BY <3>2, <4>1, <4>2, <5>1 DEF EncountersOf
        <5>2. CASE k # c
          BY <1>3, <5>2
        <5> QED
          BY <5>1, <5>2
      <4>4. ActiveIn(cirkleOf[d])' = ActiveIn(k)'
        BY <4>1, <4>2 DEF ActiveIn
      <4> QED
        BY <1>4, <3>2, <4>1, <4>2, <4>3, <4>4
    <3> QED
      BY <3>1, <3>2
  <2> QED
    BY <1>1, <2>1 DEF AllMembers
<1>8. PairsInv'
  <2>1. ASSUME NEW d \in CirkleIds, cirkles'[d].sort = "private" PROVE Whole(d)' \/ Over(d)'
    <3>1. CASE d = c
      BY <2>1, <3>1
    <3>2. CASE d # c
      BY <1>2, <1>3, <2>1, <3>2 DEF CountInv, PairsInv
    <3> QED
      BY <3>1, <3>2
  <2> QED
    BY <2>1 DEF PairsInv
<1>9. OneCirklePerPair'
  <2>1. ASSUME NEW k \in CirkleIds, NEW d \in CirkleIds, k # d,
               cirkles'[k].sort = "private", cirkles'[d].sort = "private",
               ActiveIn(k)' = ActiveIn(d)', Cardinality(ActiveIn(k)') = 2
        PROVE  ActiveIn(k)' \intersect quit # {}
    <3>1. CASE k = c
      BY <1>2, <1>3, <2>1, <3>1
    <3>2. CASE d = c
      BY <1>2, <1>3, <2>1, <3>2
    <3>3. CASE k # c /\ d # c
      BY <1>2, <1>3, <2>1, <3>3 DEF CountInv, OneCirklePerPair
    <3> QED
      BY <3>1, <3>2, <3>3
  <2> QED
    BY <1>1, <2>1 DEF OneCirklePerPair
<1>10. RefCovers'
  <2>1. ASSUME NEW d \in CirkleIds, NEW u \in Users
        PROVE  Cardinality(EncountersWith(d, u)') <= cirkles'[d].ref[u]
    <3>1. CASE d = c
      BY <3>1
    <3>2. CASE d # c
      <4>1. Cardinality(EncountersWith(d, u)) <= cirkles[d].ref[u]
        BY DEF CountInv, RefCovers, EncountersWith
      <4> QED
        BY <1>2, <1>3, <3>2, <4>1
    <3> QED
      BY <3>1, <3>2
  <2> QED
    BY <2>1 DEF RefCovers, EncountersWith
<1> QED
  BY <1>5, <1>6, <1>7, <1>8, <1>9, <1>10 DEF CountInv

\* Only e can come or go.
LEMMA WithChange ==
  ASSUME TypeOK, TypeOK', NEW e \in Encounters, NEW S, Changes(e, S), NEW c \in CirkleIds, OnlyOne(e, c),
         NEW u \in Users, NEW E, E = EncountersWith(c, u), NEW F, F = EncountersWith(c, u)'
  PROVE  /\ Cardinality(E) \in Nat /\ Cardinality(F) \in Nat
         /\ Cardinality(F) <= Cardinality(E) + 1
         /\ e \in E \/ e \notin F => Cardinality(F) <= Cardinality(E)
         /\ e \in E /\ e \notin F => Cardinality(F) = Cardinality(E) - 1
<1>1. F \ {e} = E \ {e}
  <2>1. \A d \in Encounters \ {e} : /\ MpostsOf(d)' = MpostsOf(d) /\ (d \in collided' <=> d \in collided)
                                    /\ cirkleOf'[d] = cirkleOf[d]
    BY DEF Changes, OnlyOne
  <2>2. \A d \in Encounters \ {e} : d \in F <=> d \in E
    BY <2>1 DEF EncountersWith, EncountersOf
  <2> QED
    BY <2>2 DEF EncountersWith, EncountersOf
<1>2. IsFiniteSet(E) /\ Cardinality(E) \in Nat /\ IsFiniteSet(F) /\ Cardinality(F) \in Nat
  <2>1. /\ \A d \in E : \E m \in Mposts : meetOf[m] = d
        /\ \A d \in F : \E m \in Mposts : meetOf'[m] = d
    BY DEF EncountersWith, MpostsOf
  <2>2. /\ meetOf \in [Mposts -> Encounters \union {NoMeet}]
        /\ meetOf' \in [Mposts -> Encounters \union {NoMeet}]
    BY DEF TypeOK
  <2> QED
    BY <2>1, <2>2, MetFinite
<1>3. IsFiniteSet(E \ {e}) /\ Cardinality(E \ {e}) = IF e \in E THEN Cardinality(E) - 1 ELSE Cardinality(E)
  BY <1>2, FS_RemoveElement
<1>4. Cardinality(F \ {e}) = IF e \in F THEN Cardinality(F) - 1 ELSE Cardinality(F)
  BY <1>2, FS_RemoveElement
<1> QED
  BY <1>1, <1>2, <1>3, <1>4

\* Somebody with two encounters is counted twice.
LEMMA TwoAreCounted ==
  ASSUME TypeOK, RefCovers, NEW c \in CirkleIds, NEW u \in Users,
         NEW d \in EncountersWith(c, u), NEW e \in EncountersWith(c, u), d # e
  PROVE  ~(cirkles[c].ref[u] <= 1)
<1>1. IsFiniteSet(EncountersWith(c, u)) /\ Cardinality(EncountersWith(c, u)) \in Nat
  <2>1. \A f \in EncountersWith(c, u) : \E m \in Mposts : meetOf[m] = f
    BY DEF EncountersWith, MpostsOf
  <2>2. meetOf \in [Mposts -> Encounters \union {NoMeet}]
    BY DEF TypeOK
  <2> QED
    BY <2>1, <2>2, MetFinite
<1>2. Cardinality({d, e}) = 2
  <2>1. IsFiniteSet({d}) /\ Cardinality({d}) = 1 /\ {d} \union {e} = {d, e}
    BY FS_Singleton
  <2> QED
    BY <2>1, FS_AddElement
<1>3. Cardinality({d, e}) <= Cardinality(EncountersWith(c, u))
  BY <1>1, FS_Subset
<1>4. Cardinality(EncountersWith(c, u)) <= cirkles[c].ref[u]
  BY DEF RefCovers, EncountersWith
<1>5. cirkles[c].ref[u] \in Int
  BY DEF TypeOK, Rows
<1> QED
  BY <1>1, <1>2, <1>3, <1>4, <1>5

\* A private cirkle has no more than two rows: two of them are all.
LEMMA TwoAreAll ==
  ASSUME PrivateStaysPrivate, NEW c \in CirkleIds, cirkles[c].sort = "private",
         NEW us \in SUBSET RowsOf(cirkles[c]), Cardinality(us) = 2
  PROVE  us = RowsOf(cirkles[c])
<1>1. IsFiniteSet(RowsOf(cirkles[c])) /\ Cardinality(RowsOf(cirkles[c])) \in Nat
  BY UserSets DEF RowsOf
<1>2. Cardinality(RowsOf(cirkles[c])) <= 2
  BY DEF PrivateStaysPrivate, RowsOf
<1> QED
  BY <1>1, <1>2, FS_Subset

LEMMA StaysKeeps ==
  ASSUME CirkleInv, CirkleInv', CountInv, NEW e \in Encounters, NEW S \in SUBSET Mposts, Changes(e, S),
         Stays(e)
  PROVE  CountInv'
<1>1. PICK c \in CirkleIds \union {NoCirkle} : c = cirkleOf[e]
  BY DEF CirkleInv, TypeOK
<1>2. OnlyOne(e, c) /\ cirkleOf'[e] = c /\ cirkles' = cirkles /\ cirkleOf' = cirkleOf
      /\ NoCirkle \notin CirkleIds /\ TypeOK /\ TypeOK'
  BY <1>1, DataAssumption DEF Stays, OnlyOne, DataAssumption, CirkleInv
<1>3. e \in collided' => ~InSmall(e)'
  BY DEF Stays, InSmall
<1>4. e \in collided' \/ cirkleOf'[e] = NoCirkle
  BY DEF Stays
<1>5. ASSUME c \in CirkleIds
      PROVE  /\ \A u \in Users : Cardinality(EncountersWith(c, u)') <= cirkles[c].ref[u]
             /\ ActiveIn(c)' = ActiveIn(c)
             /\ cirkles[c].sort = "private" => Whole(c)' \/ Over(c)'
  <2>1. ASSUME NEW u \in Users PROVE Cardinality(EncountersWith(c, u)') <= cirkles[c].ref[u]
    <3> DEFINE E == EncountersWith(c, u)
               F == EncountersWith(c, u)'
    <3>1. e \notin F
      BY <1>1, <1>2, <1>4, <1>5 DEF EncountersWith
    <3>2. Cardinality(E) \in Nat /\ Cardinality(F) \in Nat /\ Cardinality(F) <= Cardinality(E)
      BY <1>2, <1>5, <3>1, WithChange
    <3>3. Cardinality(E) <= cirkles[c].ref[u] /\ cirkles[c].ref[u] \in Int
      BY <1>2, <1>5 DEF CountInv, RefCovers, EncountersWith, TypeOK, Rows
    <3> QED
      BY <3>2, <3>3
  <2>2. ActiveIn(c)' = ActiveIn(c) /\ EncountersOf(c)' = EncountersOf(c) /\ quit' = quit
    BY <1>2 DEF ActiveIn, EncountersOf, Changes
  <2>3. (Whole(c) => Whole(c)') /\ (Over(c) => Over(c)')
    BY <1>2, <2>2 DEF Whole, Over, RowsOf
  <2> QED
    BY <1>5, <2>1, <2>2, <2>3 DEF CountInv, PairsInv
<1>6. \A d \in CirkleIds \ {c} :
        /\ c \in CirkleIds /\ cirkles[c].sort = "private" /\ cirkles[d].sort = "private"
        /\ ActiveIn(d) = ActiveIn(c) /\ Cardinality(ActiveIn(d)) = 2
        => ActiveIn(d) \intersect quit # {}
  BY DEF CountInv, OneCirklePerPair
<1> QED
  BY <1>1, <1>2, <1>3, <1>4, <1>5, <1>6, CountsKeep

LEMMA LeavesKeeps ==
  ASSUME CirkleInv, CirkleInv', CountInv, NEW e \in Encounters, NEW S \in SUBSET Mposts, Changes(e, S),
         Leaves(e)
  PROVE  CountInv'
<1>1. PICK c \in CirkleIds : RowLess(e, c, IF e \in collided' THEN {} ELSE UsersOf(MpostsOf(e)))
  BY LeavesRow
<1>2. PICK us \in SUBSET Users : us = IF e \in collided' THEN {} ELSE UsersOf(MpostsOf(e))
  BY DataAssumption DEF DataAssumption, UsersOf, MpostsOf
<1> DEFINE x == cirkles[c]
           y == cirkles'[c]
           gone == Gone(x, us)
<1>3. /\ OnlyOne(e, c) /\ cirkleOf[e] = c /\ cirkleOf'[e] = NoCirkle
      /\ \A u \in Users : /\ y.ref[u] = IF u \in gone THEN x.ref[u] - 1 ELSE x.ref[u]
                          /\ y.status[u] = IF u \in gone THEN "deleted" ELSE x.status[u]
      /\ y.usersCount = Cardinality(RowsOf(x) \ gone)
      /\ y.sort = x.sort /\ RowsOf(y) = RowsOf(x)
  BY <1>1, <1>2 DEF RowLess
<1>4. /\ NoCirkle \notin CirkleIds /\ TypeOK /\ TypeOK' /\ quit' = quit /\ x \in Rows
      /\ \A u \in Users : x.ref[u] \in Int
      /\ collided \subseteq collided' /\ RefCovers
  BY DataAssumption DEF DataAssumption, CirkleInv, Changes, TypeOK, Rows, CountInv
<1>5. \A u \in us : e \in EncountersWith(c, u)
  BY <1>2, <1>3, <1>4 DEF EncountersWith, EncountersOf, UsersOf
<1>6. gone \subseteq us /\ gone \subseteq RowsOf(x) /\ \A u \in us \intersect RowsOf(x) : u \in gone <=> x.ref[u] <= 1
  BY DEF Gone
<1>7. \A u \in gone : \A d \in EncountersWith(c, u) : d = e
  BY <1>4, <1>5, <1>6, TwoAreCounted DEF RowsOf
<1>8. ASSUME NEW u \in Users PROVE Cardinality(EncountersWith(c, u)') <= y.ref[u]
  <2> DEFINE E == EncountersWith(c, u)
             F == EncountersWith(c, u)'
  <2>1. e \notin F
    BY <1>3, <1>4 DEF EncountersWith, EncountersOf
  <2>2. /\ Cardinality(E) \in Nat /\ Cardinality(F) \in Nat /\ Cardinality(F) <= Cardinality(E)
        /\ e \in E => Cardinality(F) = Cardinality(E) - 1
    BY <1>3, <1>4, <2>1, WithChange
  <2>3. Cardinality(E) <= x.ref[u]
    BY <1>4 DEF RefCovers, EncountersWith
  <2>4. u \in gone => e \in E
    BY <1>5, <1>6
  <2>5. x.ref[u] \in Int /\ y.ref[u] = IF u \in gone THEN x.ref[u] - 1 ELSE x.ref[u]
    BY <1>3, <1>4
  <2> HIDE DEF E, F, gone, x, y
  <2>6. Cardinality(F) <= y.ref[u]
    BY <2>2, <2>3, <2>4, <2>5
  <2> QED
    BY <2>6 DEF F, y
<1>9. \A u \in ActiveIn(c) \ gone : u \in ActiveIn(c)'
  BY <1>3 DEF ActiveIn
<1>10. ActiveIn(c)' \subseteq ActiveIn(c) \ gone
  BY <1>3 DEF ActiveIn
<1>11. ASSUME NEW d \in EncountersOf(c) \ {e}, d \notin collided
       PROVE  ActiveUsers(d) \intersect ActiveIn(c) \subseteq ActiveIn(c)'
  <2>1. ASSUME NEW u \in ActiveUsers(d) \intersect ActiveIn(c), u \in gone PROVE FALSE
    <3>1. d \in EncountersWith(c, u)
      BY <1>11 DEF ActiveUsers, EncountersWith
    <3> QED
      BY <1>7, <1>11, <2>1, <3>1
  <2> QED
    BY <1>9, <2>1
\* of a private cirkle both go or none
<1>12. ASSUME x.sort = "private"
       PROVE  Whole(c) /\ Cardinality(RowsOf(x)) = 2 /\ (gone = {} \/ gone = RowsOf(x))
  <2>1. Whole(c)
    <3>1. e \in EncountersOf(c)
      BY <1>3 DEF EncountersOf
    <3> QED
      BY <1>12, <3>1 DEF CountInv, PairsInv, Over
  <2>2. Cardinality(RowsOf(x)) = 2 /\ \A u, v \in RowsOf(x) : x.ref[u] = x.ref[v]
    BY <2>1 DEF Whole
  <2>3. us = {} \/ us = RowsOf(x)
    <3>1. InSmall(e)
      BY <1>3, <1>4, <1>12 DEF InSmall, Small
    <3>2. /\ UsersOf(MpostsOf(e)) \subseteq RowsOf(x) /\ Cardinality(UsersOf(MpostsOf(e))) = 2
      BY <1>3, <1>12, <3>1 DEF CirkleInv, Paired, Size
    <3>3. UsersOf(MpostsOf(e)) = RowsOf(x)
      BY <1>12, <3>2, TwoAreAll DEF CirkleInv
    <3> QED
      BY <1>2, <3>3
  <2> QED
    BY <1>6, <2>1, <2>2, <2>3
<1>13. ASSUME x.sort = "private" PROVE Whole(c)' \/ Over(c)'
  <2>1. CASE gone = {}
    <3>1. y.usersCount = 2 /\ Cardinality(RowsOf(y)) = 2
      BY <1>3, <1>12, <1>13, <2>1
    <3>2. ActiveIn(c)' = ActiveIn(c) /\ \A u \in Users : y.ref[u] = x.ref[u]
      BY <1>3, <1>9, <1>10, <2>1
    <3>3. RowsOf(y) \subseteq ActiveIn(c)' \union quit'
      BY <1>3, <1>4, <1>12, <1>13, <3>2 DEF Whole
    <3>4. \A u, v \in RowsOf(y) : y.ref[u] = y.ref[v]
      <4>1. \A u, v \in RowsOf(x) : x.ref[u] = x.ref[v]
        BY <1>12, <1>13 DEF Whole
      <4> QED
        BY <1>3, <3>2, <4>1 DEF RowsOf
    <3>5. RowsOf(cirkles[c])' = RowsOf(y)
      BY DEF RowsOf
    <3> QED
      BY <3>1, <3>3, <3>4, <3>5 DEF Whole
  <2>2. CASE gone = RowsOf(x)
    <3>1. ActiveIn(c)' = {}
      BY <1>10, <2>2 DEF ActiveIn, RowsOf
    <3>2. ASSUME NEW d \in EncountersOf(c)' PROVE FALSE
      <4>1. d \in Encounters /\ d # e /\ cirkleOf[d] = c
        BY <1>3, <1>4, <3>2 DEF EncountersOf, OnlyOne
      <4>2. InSmall(d) /\ d \notin collided
        BY <1>4, <1>13, <4>1 DEF InSmall, Small, CountInv, CollidedInv
      <4>3. UsersOf(MpostsOf(d)) \subseteq RowsOf(x) /\ Cardinality(UsersOf(MpostsOf(d))) = 2
        BY <1>13, <4>1, <4>2 DEF CirkleInv, Paired, Size
      <4>4. PICK u \in UsersOf(MpostsOf(d)) : TRUE
        BY <4>3, FS_EmptySet
      <4>5. d \in EncountersWith(c, u) /\ u \in gone
        BY <2>2, <4>1, <4>2, <4>3, <4>4 DEF EncountersWith, EncountersOf, UsersOf
      <4> QED
        BY <1>7, <4>1, <4>5
    <3> QED
      BY <3>1, <3>2 DEF Over
  <2> QED
    BY <1>12, <1>13, <2>1, <2>2
<1>14. ASSUME NEW d \in CirkleIds \ {c}, x.sort = "private", cirkles[d].sort = "private",
              ActiveIn(d) = ActiveIn(c)', Cardinality(ActiveIn(d)) = 2
       PROVE  ActiveIn(d) \intersect quit # {}
  <2>1. ActiveIn(d) \subseteq ActiveIn(c) /\ ActiveIn(c) \subseteq RowsOf(x)
    BY <1>10, <1>14 DEF ActiveIn, RowsOf
  <2>2. ActiveIn(d) = RowsOf(x)
    BY <1>14, <2>1, TwoAreAll DEF CirkleInv
  <2>3. ActiveIn(c) = ActiveIn(d) /\ c # d
    BY <2>1, <2>2
  <2>4. OneCirklePerPair
    BY DEF CountInv
  <2>5. ActiveIn(c) \intersect quit # {}
    BY <1>14, <2>3, <2>4 DEF OneCirklePerPair
  <2> QED
    BY <2>3, <2>5
<1>15. ~InSmall(e)' /\ cirkleOf'[e] = NoCirkle
  BY <1>3 DEF InSmall
<1> HIDE DEF gone
<1> QED
  BY <1>3, <1>8, <1>11, <1>13, <1>14, <1>15, CountsKeep

LEMMA EntersKeeps ==
  ASSUME CirkleInv, CirkleInv', CountInv, NEW e \in Encounters, NEW S \in SUBSET Mposts, Changes(e, S),
         NEW c \in CirkleIds, NEW us \in SUBSET Users, Enters(e, S, c, us)
  PROVE  CountInv'
<1> DEFINE x == cirkles[c]
           y == cirkles'[c]
<1>1. /\ OnlyOne(e, c) /\ cirkleOf'[e] = c
      /\ \A u \in Users : /\ y.ref[u] = IF u \in us THEN x.ref[u] + 1 ELSE x.ref[u]
                          /\ y.status[u] = IF u \in us THEN "active" ELSE x.status[u]
      /\ y.usersCount = x.usersCount + Cardinality(us \ RowsOf(x))
      /\ y.sort = x.sort /\ RowsOf(y) = RowsOf(x) \union us
  <2>1. RowMore(e, c, us)
    BY EntersRow
  <2> QED
    BY <2>1 DEF RowMore
<1>2. /\ e \notin collided' /\ cirkleOf[e] \in {c, NoCirkle} /\ us \subseteq UsersOf(S) /\ x.sort # "none"
      /\ IF cirkleOf[e] = c THEN UsersOf(S) \ UsersOf(MpostsOf(e)) \subseteq us ELSE us = UsersOf(S)
      /\ x.sort = "private" =>
           /\ us = UsersOf(S) /\ us \subseteq RowsOf(x) /\ Cardinality(us) = 2
           /\ cirkleOf[e] # c => us \subseteq ActiveIn(c)
  BY DEF Enters
<1>3. /\ NoCirkle \notin CirkleIds /\ TypeOK /\ TypeOK' /\ quit' = quit
      /\ \A u \in Users : x.ref[u] \in Int
      /\ e \notin collided /\ MpostsOf(e) \subseteq S /\ MpostsOf(e)' = S /\ deleted \subseteq deleted'
      /\ \A m, n \in S : UserOf[m] = UserOf[n] => m = n
      /\ x.usersCount \in Int
  BY <1>2, DataAssumption DEF DataAssumption, CirkleInv, Changes, TypeOK, Rows
<1>4. ASSUME NEW u \in Users PROVE Cardinality(EncountersWith(c, u)') <= y.ref[u]
  <2> DEFINE E == EncountersWith(c, u)
             F == EncountersWith(c, u)'
  <2>1. u \in UsersOf(S) /\ u \notin us => e \in E
    BY <1>2, <1>3 DEF EncountersWith, EncountersOf, UsersOf
  <2>2. e \in F => u \in UsersOf(S)
    BY <1>3 DEF EncountersWith, UsersOf
  <2>3. /\ Cardinality(E) \in Nat /\ Cardinality(F) \in Nat /\ Cardinality(F) <= Cardinality(E) + 1
        /\ e \in E \/ e \notin F => Cardinality(F) <= Cardinality(E)
    BY <1>1, <1>3, WithChange
  <2>4. Cardinality(E) <= x.ref[u]
    BY DEF CountInv, RefCovers, EncountersWith
  <2>5. x.ref[u] \in Int /\ y.ref[u] = IF u \in us THEN x.ref[u] + 1 ELSE x.ref[u]
    BY <1>1, <1>3
  <2> HIDE DEF E, F, x, y
  <2>6. Cardinality(F) <= y.ref[u]
    BY <2>1, <2>2, <2>3, <2>4, <2>5
  <2> QED
    BY <2>6 DEF F, y
<1>5. ActiveIn(c)' = ActiveIn(c) \union us
  BY <1>1 DEF ActiveIn
<1>6. ActiveUsers(e)' \subseteq ActiveIn(c)' \union quit
  <2>1. ASSUME NEW m \in S, m \notin deleted', UserOf[m] \notin us
        PROVE  UserOf[m] \in ActiveIn(c) \union quit
    <3>1. cirkleOf[e] = c /\ UserOf[m] \in UsersOf(MpostsOf(e))
      BY <1>2, <2>1 DEF UsersOf
    <3>2. m \in MpostsOf(e) \ deleted
      BY <1>3, <2>1, <3>1 DEF UsersOf
    <3>3. UserOf[m] \in ActiveUsers(e)
      BY <3>2 DEF ActiveUsers
    <3> QED
      BY <1>3, <3>1, <3>3 DEF CountInv, AllMembers
  <2> QED
    BY <1>3, <1>5, <2>1 DEF ActiveUsers
<1>7. ASSUME x.sort = "private"
      PROVE  Whole(c) /\ us = RowsOf(x)
  <2>1. us = RowsOf(x)
    BY <1>2, <1>7, TwoAreAll DEF CirkleInv
  <2>2. us # {}
    BY <1>2, <1>7, FS_EmptySet
  <2>3. ~Over(c)
    <3>1. CASE cirkleOf[e] = c
      BY <3>1 DEF Over, EncountersOf
    <3>2. CASE cirkleOf[e] # c
      BY <1>2, <1>7, <2>2, <3>2 DEF Over
    <3> QED
      BY <3>1, <3>2
  <2> QED
    BY <1>7, <2>1, <2>3 DEF CountInv, PairsInv
<1>8. ASSUME x.sort = "private" PROVE Whole(c)' \/ Over(c)'
  <2>1. /\ us = RowsOf(x) /\ Cardinality(us) = 2 /\ x.usersCount = 2
        /\ \A u, v \in us : x.ref[u] = x.ref[v]
    BY <1>7, <1>8 DEF Whole
  <2>2. RowsOf(y) = us /\ RowsOf(y) \subseteq ActiveIn(c)'
    BY <1>1, <1>5, <2>1
  <2>3. y.usersCount = 2
    <3>1. us \ RowsOf(x) = {}
      BY <2>1
    <3> QED
      BY <1>1, <2>1, <3>1, FS_EmptySet
  <2>4. \A u, v \in RowsOf(y) : y.ref[u] = y.ref[v]
    BY <1>1, <2>1, <2>2
  <2>5. RowsOf(cirkles[c])' = RowsOf(y)
    BY DEF RowsOf
  <2> QED
    BY <2>1, <2>2, <2>3, <2>4, <2>5 DEF Whole
<1>9. ASSUME NEW d \in CirkleIds \ {c}, x.sort = "private", cirkles[d].sort = "private",
             ActiveIn(d) = ActiveIn(c)', Cardinality(ActiveIn(d)) = 2, ActiveIn(d) \intersect quit = {}
      PROVE  FALSE
  <2>1. ActiveIn(c) \subseteq us /\ us \subseteq ActiveIn(c) \union quit
    <3>1. ActiveIn(c) \subseteq RowsOf(x)
      BY DEF ActiveIn, RowsOf
    <3> QED
      BY <1>7, <1>9, <3>1 DEF Whole
  <2>2. ActiveIn(d) = us
    BY <1>5, <1>9, <2>1
  <2>3. ActiveIn(c) = us
    BY <1>9, <2>1, <2>2
  <2>4. OneCirklePerPair
    BY DEF CountInv
  <2> QED
    BY <1>9, <2>2, <2>3, <2>4 DEF OneCirklePerPair
<1> QED
  BY <1>1, <1>2, <1>4, <1>5, <1>6, <1>8, <1>9, CountsKeep

LEMMA StartsKeeps ==
  ASSUME CirkleInv, CirkleInv', CountInv, NEW e \in Encounters, NEW S \in SUBSET Mposts, Changes(e, S),
         NEW sort \in Sorts \ {"none"}, Starts(e, S, sort)
  PROVE  CountInv'
<1>1. PICK c \in CirkleIds : RowNew(e, c, UsersOf(S), sort)
  BY StartsRow
<1>2. PICK us \in SUBSET Users : us = UsersOf(S)
  BY DataAssumption DEF DataAssumption, UsersOf
<1> DEFINE y == cirkles'[c]
<1>3. /\ OnlyOne(e, c) /\ cirkleOf'[e] = c /\ cirkles[c].sort = "none" /\ EncountersOf(c) = {}
      /\ \A u \in Users : /\ y.ref[u] = IF u \in us THEN 1 ELSE 0
                          /\ y.status[u] = IF u \in us THEN "active" ELSE "none"
      /\ y.usersCount = Cardinality(us) /\ y.sort = sort /\ RowsOf(y) = us
  BY <1>1, <1>2 DEF RowNew
<1>4. /\ e \notin collided' /\ cirkleOf[e] = NoCirkle
      /\ sort = "private" => Cardinality(us) = 2 /\ \A d \in CirkleIds : ~IsCirkleOf(d, "private", us)
  BY <1>2 DEF Starts
<1>5. TypeOK /\ TypeOK' /\ quit' = quit /\ MpostsOf(e)' = S
  BY DEF CirkleInv, Changes
<1>6. ASSUME NEW u \in Users PROVE Cardinality(EncountersWith(c, u)') <= y.ref[u]
  <2> DEFINE E == EncountersWith(c, u)
             F == EncountersWith(c, u)'
  <2>1. Cardinality(E) = 0
    <3>1. E = {}
      BY <1>3 DEF EncountersWith
    <3> QED
      BY <3>1, FS_EmptySet
  <2>2. e \in F => u \in us
    BY <1>2, <1>5 DEF EncountersWith, UsersOf
  <2>3. /\ Cardinality(F) \in Nat /\ Cardinality(F) <= Cardinality(E) + 1
        /\ e \notin F => Cardinality(F) <= Cardinality(E)
    BY <1>3, <1>5, WithChange
  <2>4. y.ref[u] = IF u \in us THEN 1 ELSE 0
    BY <1>3
  <2> HIDE DEF E, F, y
  <2>5. Cardinality(F) <= y.ref[u]
    BY <2>1, <2>2, <2>3, <2>4
  <2> QED
    BY <2>5 DEF F, y
<1>7. ActiveIn(c)' = us
  BY <1>3 DEF ActiveIn
<1>8. ActiveUsers(e)' \subseteq ActiveIn(c)'
  BY <1>2, <1>5, <1>7 DEF ActiveUsers, UsersOf
<1>9. ASSUME sort = "private" PROVE Whole(c)'
  <2>1. RowsOf(cirkles[c])' = us
    BY <1>3 DEF RowsOf
  <2>2. \A u, v \in us : y.ref[u] = y.ref[v]
    BY <1>3
  <2> QED
    BY <1>3, <1>4, <1>7, <1>9, <2>1, <2>2 DEF Whole
<1>10. ASSUME NEW d \in CirkleIds \ {c}, sort = "private", cirkles[d].sort = "private",
              ActiveIn(d) = ActiveIn(c)', Cardinality(ActiveIn(d)) = 2
       PROVE  FALSE
  <2>1. ~Over(d)
    BY <1>10, FS_EmptySet DEF Over
  <2>2. cirkles[d].usersCount = 2
    BY <1>10, <2>1 DEF CountInv, PairsInv, Whole
  <2> QED
    BY <1>4, <1>7, <1>10, <2>2 DEF IsCirkleOf
<1>11. cirkleOf[e] \in {c, NoCirkle} /\ cirkleOf'[e] \in {c, NoCirkle} /\ e \notin collided'
  BY <1>3, <1>4
<1>12. \A d \in EncountersOf(c) \ {e} : d \notin collided => ActiveUsers(d) \intersect ActiveIn(c) \subseteq ActiveIn(c)'
  BY <1>3
<1> QED
  BY <1>3, <1>6, <1>8, <1>9, <1>10, <1>11, <1>12, CountsKeep

\* Whatever extract_information does, the counts add up again.
LEMMA CountsAddUp ==
  ASSUME CirkleInv, CirkleInv', CountInv, NEW e \in Encounters, NEW S \in SUBSET Mposts, Changes(e, S),
         Counts(e, S)
  PROVE  CountInv'
  BY StaysKeeps, LeavesKeeps, EntersKeeps, StartsKeeps DEF Counts

-----------------------------------------------------------------------------
(* The steps.                                                              *)

\* Regular, for one encounter
Alone(S) == \A m, n \in S : UserOf[m] = UserOf[n] => m = n

\* what the three actions that extract have in common
LEMMA ExtractionAddsUp ==
  ASSUME CirkleInv, CirkleInv', CountInv, NEW e \in Encounters, NEW S \in SUBSET Mposts, Alone(S),
         NEW new \in SUBSET S, S \ new = MpostsOf(e), MpostsOf(e)' = S,
         NEW del \in SUBSET Mposts, deleted \subseteq del, Extract(e, S, new, del),
         \A m \in MpostsOf(e) \ deleted : claim[m] # NoCirkle => m \notin del,
         \A d \in Encounters \ {e} : MpostsOf(d)' = MpostsOf(d) /\ MpostsOf(d) \intersect del \subseteq deleted,
         UNCHANGED <<claim, quit>>
  PROVE  CountInv'
<1>1. Counted(e, S, del)
  <2>1. ClaimsHold /\ \A m, n \in S : UserOf[m] = UserOf[n] => m = n
    BY DEF Alone, CountInv
  <2> QED
    BY <2>1, ExtractCounts
<1>2. \A d \in Encounters \ {e} : MpostsOf(d) \intersect S = {}
  <2>1. \A d \in Encounters \ {e} : MpostsOf(d)' \intersect MpostsOf(e)' = {}
    BY DEF MpostsOf
  <2> QED
    BY <2>1
<1>3. ASSUME NEW d \in Encounters \ {e}
      PROVE  /\ MpostsOf(d)' = MpostsOf(d) /\ MpostsOf(d) \ deleted' = MpostsOf(d) \ deleted
             /\ meetType'[d] = meetType[d]
  <2>1. meetType'[d] = meetType[d]
    BY <1>1 DEF CirkleInv, TypeOK, Counted
  <2>2. MpostsOf(d) \ deleted' = MpostsOf(d) \ deleted
    BY <1>1, <1>2 DEF Counted
  <2> QED
    BY <2>1, <2>2
<1>4. Changes(e, S)
  <2>1. MpostsOf(e) \subseteq S /\ deleted \subseteq deleted' /\ (e \in collided' => S \subseteq deleted')
    BY <1>1 DEF Counted
  <2>2. e \notin collided' => deleted' = del
    BY <1>1 DEF Counted
  <2> QED
    BY <1>1, <1>3, <2>1, <2>2 DEF Changes, Counted, Alone
<1> QED
  BY <1>1, <1>4, CountsAddUp DEF Counted

\* The counts add up as long as nobody has a second session in an encounter and
\* no hoster leaves one.
RegularInv == Regular => CountInv

LEMMA RegularInit == Init => CountInv
<1> SUFFICES ASSUME Init PROVE CountInv
  OBVIOUS
<1>1. NoMeet \notin Encounters /\ NoCirkle \notin CirkleIds
  BY DataAssumption DEF DataAssumption
<1>2. \A c \in CirkleIds : EncountersOf(c) = {} /\ cirkles[c].sort = "none" /\ \A u \in Users : cirkles[c].ref[u] = 0
  BY <1>1 DEF Init, EncountersOf, NoRow
<1>3. RefCovers
  <2>1. ASSUME NEW c \in CirkleIds, NEW u \in Users PROVE Cardinality(EncountersWith(c, u)) <= cirkles[c].ref[u]
    <3>1. EncountersWith(c, u) = {}
      BY <1>2 DEF EncountersWith
    <3> QED
      BY <1>2, <3>1, FS_EmptySet
  <2> QED
    BY <2>1 DEF RefCovers, EncountersWith
<1>4. ClaimsHold /\ CollidedInv /\ AllMembers
  BY DEF Init, ClaimsHold, CollidedInv, AllMembers
<1>5. PairsInv /\ OneCirklePerPair
  BY <1>2 DEF PairsInv, OneCirklePerPair
<1> QED
  BY <1>3, <1>4, <1>5 DEF CountInv

LEMMA RegularStep == CirkleInv /\ CirkleInv' /\ RegularInv /\ [Next]_vars => RegularInv'
<1> SUFFICES ASSUME CirkleInv, CirkleInv', RegularInv, [Next]_vars, Regular' PROVE CountInv'
  BY DEF RegularInv
<1> USE DEF mpostVars, encounterVars, historyVars
<1>0. TypeOK /\ NoMeet \notin Encounters
  BY DataAssumption DEF CirkleInv, DataAssumption
<1>1. \A d \in Encounters : Alone(MpostsOf(d)')
  BY DEF Regular, Alone
<1>2. (\A d \in Encounters : MpostsOf(d) \subseteq MpostsOf(d)') /\ withdrawn \subseteq withdrawn' => Regular
  BY <1>1 DEF Regular, Alone
<1>3. ASSUME NEW m \in Mposts, NEW c \in CirkleIds, PostHoster(m, c) PROVE CountInv'
  <2>1. /\ UNCHANGED <<meetOf, deleted, meetType, collided, cirkleOf, cirkles, quit, withdrawn>>
        /\ claim' = [claim EXCEPT ![m] = c] /\ m \notin posted
    BY <1>3 DEF PostHoster
  <2>2. Regular
    BY <1>2, <2>1 DEF MpostsOf
  <2>3. CountInv
    BY <2>2 DEF RegularInv
  <2>4. \A d \in Encounters : m \notin MpostsOf(d)
    BY <1>0, <2>1 DEF CirkleInv, Posted, MpostsOf
  <2>5. ClaimsHold'
    BY <1>0, <2>1, <2>3, <2>4 DEF CountInv, ClaimsHold, MpostsOf, TypeOK
  <2>6. CollidedInv' /\ AllMembers'
    BY <2>1, <2>3 DEF CountInv, CollidedInv, InSmall, AllMembers, ActiveUsers, ActiveIn, MpostsOf
  <2>7. RefCovers' /\ OneCirklePerPair'
    BY <2>1, <2>3 DEF CountInv, RefCovers, EncountersOf, MpostsOf, OneCirklePerPair, ActiveIn
  <2>8. PairsInv'
    BY <2>1, <2>3 DEF CountInv, PairsInv, Whole, Over, RowsOf, ActiveIn, EncountersOf
  <2> QED
    BY <2>5, <2>6, <2>7, <2>8 DEF CountInv
<1>4. ASSUME NEW m \in Mposts, NEW e \in Encounters, PostCreater(m, e) PROVE CountInv'
  <2>1. /\ meetOf[m] = NoMeet /\ MpostsOf(e) = {} /\ meetOf' = [meetOf EXCEPT ![m] = e]
        /\ Extract(e, {m}, {m}, deleted) /\ UNCHANGED <<claim, quit, withdrawn>> /\ deleted \subseteq Mposts
    BY <1>0, <1>4 DEF PostCreater, Fresh, CirkleInv, Posted, TypeOK
  <2>2. MpostsOf(e)' = {m} /\ \A d \in Encounters \ {e} : MpostsOf(d)' = MpostsOf(d)
    BY <1>0, <2>1 DEF MpostsOf, TypeOK
  <2>3. Regular
    BY <1>2, <2>1, <2>2
  <2>4. CountInv /\ Alone({m})
    BY <1>1, <2>2, <2>3 DEF RegularInv
  <2> QED
    BY <2>1, <2>2, <2>4, ExtractionAddsUp
<1>5. ASSUME NEW S \in SUBSET Unprocessed, NEW e \in Encounters, AssignMposts(S, e) PROVE CountInv'
  <2> DEFINE all == MpostsOf(e) \union S
  <2>1. /\ \A m \in S : meetOf[m] = NoMeet
        /\ S \subseteq Mposts /\ all \subseteq Mposts
    BY <1>0 DEF Unprocessed, TypeOK, MpostsOf
  <2>2. /\ Extract(e, all, S, deleted) /\ UNCHANGED <<claim, quit, withdrawn>>
        /\ meetOf' = [m \in Mposts |-> IF m \in S THEN e ELSE meetOf[m]]
        /\ deleted \subseteq Mposts
    BY <1>0, <1>5 DEF AssignMposts, TypeOK
  <2>3. MpostsOf(e)' = all /\ \A d \in Encounters \ {e} : MpostsOf(d)' = MpostsOf(d)
    BY <1>0, <2>1, <2>2 DEF MpostsOf
  <2>4. S \subseteq all /\ all \ S = MpostsOf(e)
    BY <1>0, <2>1 DEF MpostsOf
  <2>5. Regular
    BY <1>2, <2>2, <2>3, <2>4
  <2>6. CountInv /\ Alone(all)
    BY <1>1, <2>3, <2>5 DEF RegularInv
  <2> HIDE DEF all
  <2> QED
    BY <2>1, <2>2, <2>3, <2>4, <2>6, ExtractionAddsUp
<1>6. ASSUME NEW u \in Users \union {Admin}, NEW e \in Encounters, LeaveEncounter(u, e)
      PROVE  CountInv'
  <2> DEFINE own == {m \in MpostsOf(e) : UserOf[m] = u}
             del == deleted \union own
  <2>1. /\ Extract(e, MpostsOf(e), {}, del) /\ UNCHANGED <<claim, meetOf, quit>>
        /\ withdrawn' = withdrawn \union {m \in own : claim[m] # NoCirkle}
        /\ MpostsOf(e) \subseteq Mposts /\ del \subseteq Mposts
    BY <1>0, <1>6 DEF LeaveEncounter, MpostsOf, TypeOK
  <2>2. \A d \in Encounters : MpostsOf(d)' = MpostsOf(d)
    BY <2>1 DEF MpostsOf
  <2>3. Regular
    BY <1>2, <2>1, <2>2
  <2>4. \A m \in own : claim[m] = NoCirkle
    BY <2>1 DEF Regular
  <2>5. CountInv /\ Alone(MpostsOf(e))
    BY <1>1, <2>2, <2>3 DEF RegularInv
  <2>6. \A d \in Encounters \ {e} : MpostsOf(d) \intersect del \subseteq deleted
    BY DEF MpostsOf
  <2>7. \A m \in MpostsOf(e) \ deleted : claim[m] # NoCirkle => m \notin del
    BY <2>4
  <2> HIDE DEF del
  <2>8. deleted \subseteq del
    BY DEF del
  <2> QED
    BY <2>1, <2>2, <2>5, <2>6, <2>7, <2>8, ExtractionAddsUp
<1>7. ASSUME NEW u \in Users, NEW c \in CirkleIds, LeaveCirkle(u, c) PROVE CountInv'
  <2>1. /\ cirkles' = [cirkles EXCEPT ![c].status[u] = "deleted"] /\ quit' = quit \union {u}
        /\ UNCHANGED <<claim, meetOf, deleted, meetType, collided, cirkleOf, withdrawn>> /\ u \in ActiveIn(c)
    BY <1>7 DEF LeaveCirkle
  <2>2. CountInv
    <3>1. Regular
      BY <1>2, <2>1 DEF MpostsOf
    <3> QED
      BY <3>1 DEF RegularInv
  <2>3. \A d \in CirkleIds :
          /\ cirkles'[d].sort = cirkles[d].sort /\ cirkles'[d].ref = cirkles[d].ref
          /\ cirkles'[d].usersCount = cirkles[d].usersCount
          /\ RowsOf(cirkles'[d]) = RowsOf(cirkles[d])
          /\ ActiveIn(d)' = IF d = c THEN ActiveIn(d) \ {u} ELSE ActiveIn(d)
    BY <1>0, <2>1 DEF TypeOK, Rows, RowsOf, ActiveIn
  <2>4. \A d \in Encounters : cirkleOf[d] # NoCirkle => cirkleOf[d] \in CirkleIds
    BY <1>0 DEF TypeOK
  <2>5. ClaimsHold' /\ CollidedInv'
    BY <1>0, <2>1, <2>2, <2>3, <2>4 DEF CountInv, ClaimsHold, CollidedInv, InSmall, MpostsOf, TypeOK
  <2>6. RefCovers'
    BY <2>1, <2>2, <2>3 DEF CountInv, RefCovers, EncountersOf, MpostsOf
  <2>7. AllMembers'
    <3>1. ASSUME NEW d \in Encounters, d \notin collided, cirkleOf[d] # NoCirkle
          PROVE  ActiveUsers(d) \subseteq ActiveIn(cirkleOf[d])' \union quit'
      <4>1. ActiveUsers(d) \subseteq ActiveIn(cirkleOf[d]) \union quit
        BY <2>2, <3>1 DEF CountInv, AllMembers
      <4>2. PICK k \in CirkleIds : k = cirkleOf[d]
        BY <2>4, <3>1
      <4>3. ActiveIn(k) \subseteq ActiveIn(k)' \union {u}
        BY <2>3
      <4>4. ActiveIn(cirkleOf[d])' = ActiveIn(k)'
        BY <2>1, <4>2 DEF ActiveIn
      <4> QED
        BY <2>1, <4>1, <4>2, <4>3, <4>4
    <3> QED
      BY <2>1, <3>1 DEF AllMembers, ActiveUsers, MpostsOf, ActiveIn
  <2>8. PairsInv'
    <3>1. ASSUME NEW d \in CirkleIds, cirkles[d].sort = "private" PROVE Whole(d)' \/ Over(d)'
      <4>1. CASE Whole(d)
        <5>1. RowsOf(cirkles[d])' = RowsOf(cirkles[d])
          BY <2>3 DEF RowsOf
        <5>2. ActiveIn(d) \union quit \subseteq ActiveIn(d)' \union quit'
          BY <2>1, <2>3
        <5> QED
          BY <2>3, <4>1, <5>1, <5>2 DEF Whole
      <4>2. CASE Over(d)
        <5>1. ActiveIn(d)' = {}
          BY <2>3, <4>2 DEF Over
        <5> QED
          BY <2>1, <4>2, <5>1 DEF Over, EncountersOf
      <4> QED
        BY <2>2, <3>1, <4>1, <4>2 DEF CountInv, PairsInv
    <3> QED
      BY <2>3, <3>1 DEF PairsInv
  <2>9. OneCirklePerPair'
    <3>1. ASSUME cirkles[c].sort = "private" PROVE Cardinality(ActiveIn(c)') # 2
      <4>1. ActiveIn(c)' \subseteq RowsOf(cirkles[c]) /\ u \in RowsOf(cirkles[c]) /\ u \notin ActiveIn(c)'
        BY <2>1, <2>3 DEF ActiveIn, RowsOf
      <4> QED
        BY <3>1, <4>1, TwoAreAll DEF CirkleInv
    <3>2. ASSUME NEW k \in CirkleIds, NEW d \in CirkleIds, k # d,
                 cirkles'[k].sort = "private", cirkles'[d].sort = "private",
                 ActiveIn(k)' = ActiveIn(d)', Cardinality(ActiveIn(k)') = 2
          PROVE  ActiveIn(k)' \intersect quit' # {}
      <4>1. cirkles[k].sort = "private" /\ cirkles[d].sort = "private" /\ k # c /\ d # c
        BY <2>3, <3>1, <3>2
      <4>2. ActiveIn(k)' = ActiveIn(k) /\ ActiveIn(d)' = ActiveIn(d)
        BY <2>3, <4>1
      <4>3. ActiveIn(k) \intersect quit # {}
        BY <2>2, <3>2, <4>1, <4>2 DEF CountInv, OneCirklePerPair
      <4> QED
        BY <2>1, <4>2, <4>3
    <3> QED
      BY <3>2 DEF OneCirklePerPair
  <2> QED
    BY <2>5, <2>6, <2>7, <2>8, <2>9 DEF CountInv
<1>8. CASE UNCHANGED vars
  <2>1. CountInv
    <3>1. Regular
      BY <1>2, <1>8 DEF vars, MpostsOf
    <3> QED
      BY <3>1 DEF RegularInv
  <2> QED
    BY <1>8, <2>1 DEF vars, CountInv, ClaimsHold, CollidedInv, InSmall, AllMembers, ActiveUsers, ActiveIn,
                      RefCovers, EncountersOf, MpostsOf, OneCirklePerPair, PairsInv, Whole, Over, RowsOf
<1> QED
  BY <1>3, <1>4, <1>5, <1>6, <1>7, <1>8 DEF Next

\* Cirkles have the people of their encounters, each counted at least as often as
\* she has been in one, and a pair has one cirkle, whatever add_encounter and
\* delete_encounter count up and down.
THEOREM CirklesAlwaysAddUp == Spec => []CirklesAddUp
<1>1. Init => CirkleInv /\ RegularInv
  BY CirkleInvInit, RegularInit DEF RegularInv
<1>2. CirkleInv /\ RegularInv /\ [Next]_vars => (CirkleInv /\ RegularInv)'
  BY CirkleInvStep, RegularStep
<1>3. CirkleInv /\ RegularInv => CirklesAddUp
  <2> SUFFICES ASSUME CirkleInv, CountInv PROVE MembersInCirkle
    BY DEF RegularInv, CirklesAddUp, CountInv
  <2>1. ASSUME NEW e \in Encounters, cirkleOf[e] # NoCirkle
        PROVE  ActiveUsers(e) \subseteq ActiveIn(cirkleOf[e]) \union quit
    <3>1. CASE e \in collided
      BY <3>1 DEF CountInv, CollidedInv, ActiveUsers
    <3>2. CASE e \notin collided
      BY <2>1, <3>2 DEF CountInv, AllMembers
    <3> QED
      BY <3>1, <3>2
  <2> QED
    BY <2>1 DEF MembersInCirkle
<1> QED
  BY <1>1, <1>2, <1>3, PTL DEF Spec
=============================================================================
