------------------------ MODULE MeetRelation_proofs ------------------------
(***************************************************************************)
(* For any finite set of mposts, any trigger times and any relation        *)
(* between them: the group that MeetRelation seeds holds no excluded pair, *)
(* the coefficients it keeps step by step are those counted afresh, and    *)
(* the members of an existing meet stay in it.                             *)
(*                                                                         *)
(* The first section proves about SumFunctionOnSet what the others need,   *)
(* by induction over the subsets of a finite set: strict inclusion is well *)
(* founded there, so a set of counterexamples has a least one.             *)
(***************************************************************************)
EXTENDS MeetRelation, FiniteSetTheorems, TLAPS

-----------------------------------------------------------------------------
(* Sums over finite sets. *)

\* Induction over the subsets of a finite set: what is in Good with all its proper
\* subsets being in Good.
LEMMA SubsetInduction ==
  ASSUME NEW S, IsFiniteSet(S), NEW Good,
         ASSUME NEW T \in SUBSET S, IsFiniteSet(T), \A U \in SUBSET T : U # T => U \in Good
         PROVE  T \in Good
  PROVE  S \in Good
<1> DEFINE Bad == (SUBSET S) \ Good
<1> SUFFICES ASSUME Bad # {} PROVE FALSE
  OBVIOUS
<1>1. IsWellFoundedOn(StrictSubsetOrdering(S), SUBSET S)
  BY FS_StrictSubsetOrderingWellFounded, FS_FiniteSubsetsOfFinite
<1>2. PICK T \in Bad : \A U \in Bad : <<U, T>> \notin StrictSubsetOrdering(S)
  BY <1>1, WFMin
<1>3. \A U \in SUBSET T : U # T => U \in Good
  BY <1>2 DEF StrictSubsetOrdering
<1>4. IsFiniteSet(T)
  BY <1>2, FS_Subset
<1> QED
  BY <1>2, <1>3, <1>4

\* f with f applied to what it starts with
Adds(f, S, g) ==
  g = [T \in SUBSET S |-> IF T = {} THEN 0
                          ELSE f[CHOOSE x \in T : TRUE] + g[T \ {CHOOSE x \in T : TRUE}]]

LEMMA SumDef ==
  ASSUME NEW f, NEW S
  PROVE  SumFunctionOnSet(f, S) = (CHOOSE g : Adds(f, S, g))[S]
BY DEF SumFunctionOnSet, FoldFunctionOnSet, MapThenFoldSet, Adds

LEMMA AddsUnique ==
  ASSUME NEW f, NEW S, IsFiniteSet(S), NEW g, NEW h, Adds(f, S, g), Adds(f, S, h)
  PROVE  g = h
<1> DEFINE Differ == {T \in SUBSET S : g[T] # h[T]}
<1>1. DOMAIN g = SUBSET S /\ DOMAIN h = SUBSET S
  BY DEF Adds
<1>2. ASSUME Differ # {} PROVE FALSE
  <2>1. IsWellFoundedOn(StrictSubsetOrdering(S), SUBSET S)
    BY FS_StrictSubsetOrderingWellFounded, FS_FiniteSubsetsOfFinite
  <2>2. PICK T \in Differ : \A U \in Differ : <<U, T>> \notin StrictSubsetOrdering(S)
    BY <1>2, <2>1, WFMin
  <2>3. CASE T = {}
    BY <2>3, <2>2 DEF Adds
  <2>4. CASE T # {}
    <3> DEFINE x == CHOOSE y \in T : TRUE
    <3>1. x \in T
      BY <2>4
    <3>2. T \ {x} \in SUBSET S /\ <<T \ {x}, T>> \in StrictSubsetOrdering(S)
      BY <3>1, <2>2 DEF StrictSubsetOrdering
    <3>3. g[T \ {x}] = h[T \ {x}]
      BY <3>2, <2>2
    <3>4. g[T] = f[x] + g[T \ {x}] /\ h[T] = f[x] + h[T \ {x}]
      BY <2>4, <2>2 DEF Adds
    <3> QED
      BY <3>3, <3>4, <2>2
  <2> QED
    BY <2>3, <2>4
<1>3. \A T \in SUBSET S : g[T] = h[T]
  BY <1>2
<1>4. g = [T \in SUBSET S |-> g[T]] /\ h = [T \in SUBSET S |-> h[T]]
  BY DEF Adds
<1> QED
  BY <1>3, <1>4

LEMMA AddsRestrict ==
  ASSUME NEW f, NEW S, NEW g, Adds(f, S, g), NEW V \in SUBSET S
  PROVE  Adds(f, V, [W \in SUBSET V |-> g[W]])
<1>1. ASSUME NEW W \in SUBSET V
      PROVE  g[W] = IF W = {} THEN 0
                    ELSE f[CHOOSE x \in W : TRUE] + g[W \ {CHOOSE x \in W : TRUE}]
  BY DEF Adds
<1>2. \A W \in SUBSET V : W \ {CHOOSE x \in W : TRUE} \in SUBSET V
  OBVIOUS
<1> QED
  BY <1>1, <1>2 DEF Adds

LEMMA AddsExists ==
  ASSUME NEW f, NEW S, IsFiniteSet(S)
  PROVE  \E g : Adds(f, S, g)
<1> DEFINE Bad == {T \in SUBSET S : ~\E g : Adds(f, T, g)}
           The(U) == CHOOSE g : Adds(f, U, g)
<1> SUFFICES ASSUME Bad # {} PROVE FALSE
  OBVIOUS
<1>1. PICK T \in Bad : \A U \in Bad : <<U, T>> \notin StrictSubsetOrdering(S)
  <2>1. IsWellFoundedOn(StrictSubsetOrdering(S), SUBSET S)
    BY FS_StrictSubsetOrderingWellFounded, FS_FiniteSubsetsOfFinite
  <2> QED
    BY <2>1, WFMin
<1>2. ASSUME NEW U \in SUBSET T, U # T PROVE Adds(f, U, The(U))
  <2>1. <<U, T>> \in StrictSubsetOrdering(S)
    BY <1>2, <1>1 DEF StrictSubsetOrdering
  <2>2. \E g : Adds(f, U, g)
    BY <2>1, <1>1
  <2> QED
    BY <2>2
<1> DEFINE x(U) == CHOOSE y \in U : TRUE
           G == [U \in SUBSET T |->
                   IF U # T THEN The(U)[U]
                   ELSE IF T = {} THEN 0 ELSE f[x(T)] + The(T \ {x(T)})[T \ {x(T)}]]
<1> HIDE DEF The
<1>3. ASSUME NEW U \in SUBSET T
      PROVE  G[U] = IF U = {} THEN 0 ELSE f[x(U)] + G[U \ {x(U)}]
  <2>1. CASE U = T
    <3>1. T # {} => T \ {x(T)} \in SUBSET T /\ T \ {x(T)} # T
      OBVIOUS
    <3> QED
      BY <2>1, <3>1
  <2>2. CASE U # T /\ U = {}
    <3>1. Adds(f, {}, The({}))
      BY <2>2, <1>2
    <3> QED
      BY <2>2, <3>1 DEF Adds
  <2>3. CASE U # T /\ U # {}
    <3> DEFINE V == U \ {x(U)}
    <3>1. V \in SUBSET U /\ V \in SUBSET T /\ V # T
      BY <2>3
    <3>2. Adds(f, U, The(U)) /\ Adds(f, V, The(V))
      BY <2>3, <3>1, <1>2
    <3>3. Adds(f, V, [W \in SUBSET V |-> The(U)[W]])
      BY <3>1, <3>2, AddsRestrict
    <3>4. IsFiniteSet(V)
      BY <3>1, <1>1, FS_Subset
    <3> HIDE DEF V
    <3>5. The(V) = [W \in SUBSET V |-> The(U)[W]]
      BY <3>2, <3>3, <3>4, AddsUnique
    <3>6. The(V)[V] = The(U)[V]
      <4>1. V \in SUBSET V
        OBVIOUS
      <4> QED
        BY <3>5, <4>1
    <3>7. The(U)[U] = f[x(U)] + The(U)[V]
      BY <2>3, <3>2 DEF Adds, V
    <3>8. G[U] = The(U)[U] /\ G[V] = The(V)[V]
      BY <2>3, <3>1
    <3> QED
      BY <3>6, <3>7, <3>8, <2>3 DEF V
  <2> QED
    BY <2>1, <2>2, <2>3
<1>4. Adds(f, T, G)
  <2> HIDE DEF G, x
  <2>1. G = [U \in SUBSET T |-> G[U]]
    BY DEF G
  <2>2. G = [U \in SUBSET T |-> IF U = {} THEN 0 ELSE f[x(U)] + G[U \ {x(U)}]]
    BY <2>1, <1>3
  <2> QED
    BY <2>2 DEF Adds, x
<1> QED
  BY <1>4, <1>1

\* A sum takes one element out at a time.
LEMMA SumChoice ==
  ASSUME NEW f, NEW S, IsFiniteSet(S)
  PROVE  SumFunctionOnSet(f, S) =
           IF S = {} THEN 0
           ELSE LET x == CHOOSE y \in S : TRUE
                IN  f[x] + SumFunctionOnSet(f, S \ {x})
<1> DEFINE The(U) == CHOOSE g : Adds(f, U, g)
           x == CHOOSE y \in S : TRUE
           V == S \ {x}
<1>1. IsFiniteSet(V)
  BY FS_RemoveElement
<1>2. Adds(f, S, The(S)) /\ Adds(f, V, The(V))
  BY <1>1, AddsExists
<1> HIDE DEF The
<1>3. Adds(f, V, [W \in SUBSET V |-> The(S)[W]])
  BY <1>2, AddsRestrict
<1>4. The(V) = [W \in SUBSET V |-> The(S)[W]]
  BY <1>1, <1>2, <1>3, AddsUnique
<1>5. The(V)[V] = The(S)[V]
  <2>1. V \in SUBSET V
    OBVIOUS
  <2> QED
    BY <2>1, <1>4
<1>6. The(S)[S] = IF S = {} THEN 0 ELSE f[x] + The(S)[V]
  BY <1>2 DEF Adds
<1>7. SumFunctionOnSet(f, S) = The(S)[S] /\ SumFunctionOnSet(f, V) = The(V)[V]
  BY SumDef DEF The
<1> QED
  BY <1>5, <1>6, <1>7

LEMMA SumOfNone == \A f : SumFunctionOnSet(f, {}) = 0
BY SumChoice, FS_EmptySet

\* Sums of integers: integers, and any element can be taken out first.
LEMMA SumRemove ==
  ASSUME NEW f, NEW S, IsFiniteSet(S), \A s \in S : f[s] \in Int
  PROVE  /\ SumFunctionOnSet(f, S) \in Int
         /\ \A y \in S : SumFunctionOnSet(f, S) = f[y] + SumFunctionOnSet(f, S \ {y})
<1> DEFINE Good == {T \in SUBSET S :
             /\ SumFunctionOnSet(f, T) \in Int
             /\ \A y \in T : SumFunctionOnSet(f, T) = f[y] + SumFunctionOnSet(f, T \ {y})}
<1> SUFFICES ASSUME NEW T \in SUBSET S, IsFiniteSet(T),
                    \A U \in SUBSET T : U # T => U \in Good
             PROVE  T \in Good
  <2> HIDE DEF Good
  <2>1. S \in Good
    BY SubsetInduction
  <2> QED
    BY <2>1 DEF Good
<1>1. CASE T = {}
  BY <1>1, SumOfNone
<1>2. CASE T # {}
  <2> DEFINE x == CHOOSE y \in T : TRUE
  <2>1. SumFunctionOnSet(f, T) = f[x] + SumFunctionOnSet(f, T \ {x})
    BY <1>2, SumChoice
  <2>2. x \in T
    BY <1>2
  <2> HIDE DEF x
  <2>3. SumFunctionOnSet(f, T \ {x}) \in Int /\ f[x] \in Int
    BY <2>2
  <2>4. ASSUME NEW y \in T, y # x
        PROVE  SumFunctionOnSet(f, T) = f[y] + SumFunctionOnSet(f, T \ {y})
    <3> DEFINE R == (T \ {x}) \ {y}
    <3>1. T \ {x} \in Good /\ T \ {y} \in Good /\ R \in Good
      <4>1. T \ {x} # T /\ T \ {y} # T /\ R # T
        BY <2>2
      <4> HIDE DEF Good
      <4> QED
        BY <4>1
    <3>2. SumFunctionOnSet(f, T \ {x}) = f[y] + SumFunctionOnSet(f, R)
      BY <3>1, <2>4
    <3>3. R = (T \ {y}) \ {x}
      OBVIOUS
    <3>4. SumFunctionOnSet(f, T \ {y}) = f[x] + SumFunctionOnSet(f, R)
      BY <3>1, <3>3, <2>2, <2>4
    <3>5. SumFunctionOnSet(f, R) \in Int /\ f[y] \in Int
      BY <3>1
    <3> HIDE DEF R, Good
    <3> QED
      BY <2>1, <2>3, <3>2, <3>4, <3>5
  <2>5. SumFunctionOnSet(f, T) \in Int
    BY <2>1, <2>3
  <2>6. \A y \in T : SumFunctionOnSet(f, T) = f[y] + SumFunctionOnSet(f, T \ {y})
    BY <2>1, <2>4
  <2> QED
    BY <2>5, <2>6
<1> QED
  BY <1>1, <1>2

\* Two disjoint sets.
LEMMA SumUnion ==
  ASSUME NEW f, NEW S, NEW T, IsFiniteSet(S), IsFiniteSet(T), S \cap T = {},
         \A s \in S \union T : f[s] \in Int
  PROVE  SumFunctionOnSet(f, S \union T) = SumFunctionOnSet(f, S) + SumFunctionOnSet(f, T)
<1> DEFINE Good == {U \in SUBSET S :
             SumFunctionOnSet(f, U \union T) = SumFunctionOnSet(f, U) + SumFunctionOnSet(f, T)}
<1> SUFFICES ASSUME NEW U \in SUBSET S, IsFiniteSet(U),
                    \A V \in SUBSET U : V # U => V \in Good
             PROVE  U \in Good
  <2> HIDE DEF Good
  <2>1. S \in Good
    BY SubsetInduction
  <2> QED
    BY <2>1 DEF Good
<1>1. SumFunctionOnSet(f, {}) = 0 /\ SumFunctionOnSet(f, T) \in Int
  BY SumOfNone, SumRemove
<1>2. CASE U = {}
  BY <1>1, <1>2
<1>3. ASSUME NEW y \in U PROVE U \in Good
  <2>1. IsFiniteSet(U \union T) /\ IsFiniteSet(U \ {y})
    BY FS_Union, FS_RemoveElement
  <2>2. SumFunctionOnSet(f, U) = f[y] + SumFunctionOnSet(f, U \ {y})
    BY SumRemove
  <2> DEFINE W == U \union T
  <2>3. SumFunctionOnSet(f, W) = f[y] + SumFunctionOnSet(f, W \ {y})
    <3>1. IsFiniteSet(W) /\ (\A s \in W : f[s] \in Int) /\ y \in W
      BY <2>1
    <3> HIDE DEF W
    <3> QED
      BY <3>1, SumRemove
  <2>4. W \ {y} = (U \ {y}) \union T
    OBVIOUS
  <2>5. SumFunctionOnSet(f, W \ {y}) = SumFunctionOnSet(f, U \ {y}) + SumFunctionOnSet(f, T)
    BY <2>4
  <2>6. SumFunctionOnSet(f, U \ {y}) \in Int /\ f[y] \in Int
    BY <2>1, SumRemove
  <2>7. SumFunctionOnSet(f, W) = SumFunctionOnSet(f, U) + SumFunctionOnSet(f, T)
    <3> HIDE DEF W, Good
    <3> QED
      BY <1>1, <2>2, <2>3, <2>5, <2>6
  <2> QED
    BY <2>7
<1> QED
  BY <1>2, <1>3

LEMMA SumNat ==
  ASSUME NEW f, NEW S, IsFiniteSet(S), \A s \in S : f[s] \in Nat
  PROVE  SumFunctionOnSet(f, S) \in Nat
<1> DEFINE Good == {T \in SUBSET S : SumFunctionOnSet(f, T) \in Nat}
<1> SUFFICES ASSUME NEW T \in SUBSET S, IsFiniteSet(T),
                    \A U \in SUBSET T : U # T => U \in Good
             PROVE  T \in Good
  <2> HIDE DEF Good
  <2>1. S \in Good
    BY SubsetInduction
  <2> QED
    BY <2>1 DEF Good
<1>1. ASSUME NEW y \in T PROVE T \in Good
  <2>1. SumFunctionOnSet(f, T) = f[y] + SumFunctionOnSet(f, T \ {y})
    BY SumRemove
  <2> QED
    BY <2>1
<1>2. CASE T = {}
  BY <1>2, SumOfNone
<1> QED
  BY <1>1, <1>2

-----------------------------------------------------------------------------

\* Exclusion is symmetric, and nothing excludes itself.
LEMMA ExcludesSymmetric ==
  ASSUME NEW m \in Mposts, NEW n \in Mposts
  PROVE  /\ Excludes(m, n) <=> Excludes(n, m)
         /\ ~Excludes(m, m)
<1>1. Gap(m, n) = Gap(n, m)
  BY RelationAssumption DEF RelationAssumption, Gap
<1>2. {m, n} = {n, m}
  OBVIOUS
<1>3. Coeff(m, n) = Coeff(n, m)
  BY <1>1, <1>2 DEF Coeff
<1>4. Coeff(m, m) = 0
  BY DEF Coeff
<1> QED
  BY <1>3, <1>4 DEF Excludes

\* The nodes that are seeded after a promotion.
LEMMA SeededAfterPromotion ==
  ASSUME NEW n, PromoteCandidate(n)
  PROVE  Seeded' = (Seeded \union {n}) \ Exclusions(n)
<1>1. DOMAIN With(seeded, n, NodeCoeff(n)) = Seeded \union {n}
  BY DEF With, Seeded
<1>2. \A f, S : DOMAIN Without(f, S) = DOMAIN f \ S
  BY DEF Without, Restrict
<1>3. seeded' = Without(With(seeded, n, NodeCoeff(n)), Exclusions(n))
  BY DEF PromoteCandidate
<1> QED
  BY <1>1, <1>2, <1>3 DEF Seeded

\* The inductive invariant: seeded nodes are mposts.
GroupInv == Seeded \subseteq Mposts /\ NoExcludedPair

\* Seeding one node, promoting a candidate and skipping one keep the group
\* free of exclusions.
LEMMA GroupStep ==
  ASSUME GroupInv, [Next]_vars
  PROVE  GroupInv'
<1>1. CASE SeedFirstNode
  <2>1. PICK n \in SeedCandidates : seeded' = [x \in {n} |-> 1]
    BY <1>1 DEF SeedFirstNode
  <2>2. n \in Mposts /\ Seeded' = {n} /\ UNCHANGED related
    BY <1>1, <2>1 DEF SeedFirstNode, SeedCandidates, Seeded
  <2>3. ~Excludes(n, n)'
    BY <2>2 DEF Excludes, Coeff
  <2> QED
    BY <2>2, <2>3 DEF GroupInv, NoExcludedPair
<1>2. ASSUME NEW n \in Mposts, PromoteCandidate(n) PROVE GroupInv'
  <2>1. Seeded' = (Seeded \union {n}) \ Exclusions(n) /\ UNCHANGED <<related, members>>
    BY <1>2, SeededAfterPromotion DEF PromoteCandidate
  <2>2. \A m, s \in Seeded : {m, s} \subseteq members \/ ~Excludes(m, s)
    BY DEF GroupInv, NoExcludedPair
  <2>3. \A s \in Seeded \ Exclusions(n) : ~Excludes(n, s) /\ ~Excludes(s, n)
    BY ExcludesSymmetric DEF GroupInv, Exclusions
  <2>4. ~Excludes(n, n)
    BY ExcludesSymmetric
  <2>5. \A m, s \in Seeded' : {m, s} \subseteq members \/ ~Excludes(m, s)
    BY <2>1, <2>2, <2>3, <2>4
  <2>6. \A m, s : Excludes(m, s)' <=> Excludes(m, s)
    BY <2>1 DEF Excludes, Coeff
  <2> QED
    BY <2>1, <2>5, <2>6 DEF GroupInv, NoExcludedPair
<1>3. CASE UNCHANGED <<related, members, seeded>>
  BY <1>3 DEF GroupInv, NoExcludedPair, Seeded, Excludes, Coeff
<1>4. ASSUME NEW n \in Mposts, SkipCandidate(n) PROVE GroupInv'
  BY <1>3, <1>4 DEF SkipCandidate
<1>5. CASE Return \/ Done \/ UNCHANGED vars
  BY <1>3, <1>5 DEF Return, Done, vars
<1> QED
  BY <1>1, <1>2, <1>4, <1>5 DEF Next

\* No two mposts of a group exclude each other.
THEOREM GroupsHaveNoExcludedPair == Spec => []NoExcludedPair
<1>1. Init => GroupInv
  <2>1. ASSUME PopulateFromCluster PROVE GroupInv
    <3>1. Seeded = {}
      BY <2>1 DEF PopulateFromCluster, Seeded
    <3> QED
      BY <3>1 DEF GroupInv, NoExcludedPair
  <2>2. ASSUME NEW m \in Mposts, PopulateFromMeet(m) PROVE GroupInv
    <3>1. Seeded = members /\ members \subseteq Mposts
      BY <2>2 DEF PopulateFromMeet, Seeded
    <3> QED
      BY <3>1 DEF GroupInv, NoExcludedPair
  <2> QED
    BY <2>1, <2>2 DEF Init
<1>2. GroupInv => NoExcludedPair
  BY DEF GroupInv
<1> QED
  BY <1>1, <1>2, GroupStep, PTL DEF Spec

-----------------------------------------------------------------------------
(* The coefficients of the nodes. *)

LEMMA CoeffInt == \A m, n : Coeff(m, n) \in Int
BY RelationAssumption DEF Coeff, RelationAssumption

LEMMA CoeffToNone == \A n : CoeffTo(n, {}) = 0
BY SumOfNone DEF CoeffTo

LEMMA CoeffToOne ==
  ASSUME NEW n, NEW s \in Mposts
  PROVE  CoeffTo(n, {s}) = Coeff(n, s)
<1> DEFINE f == [x \in Mposts |-> Coeff(n, x)]
<1>1. IsFiniteSet({s}) /\ f[s] = Coeff(n, s) /\ f[s] \in Int
  BY CoeffInt, FS_Singleton
<1> HIDE DEF f
<1>2. SumFunctionOnSet(f, {s}) = f[s] + SumFunctionOnSet(f, {s} \ {s})
  BY <1>1, SumRemove
<1>3. {s} \ {s} = {}
  OBVIOUS
<1>4. SumFunctionOnSet(f, {s}) = f[s] + 0
  BY <1>2, <1>3, SumOfNone, Zenon
<1>5. SumFunctionOnSet(f, {s}) = f[s]
  BY <1>1, <1>4
<1> QED
  BY <1>1, <1>5 DEF CoeffTo, f

LEMMA CoeffToSplit ==
  ASSUME NEW n, NEW S \in SUBSET Mposts, NEW T \in SUBSET Mposts, S \cap T = {}
  PROVE  /\ CoeffTo(n, S) \in Int /\ CoeffTo(n, T) \in Int
         /\ CoeffTo(n, S \union T) = CoeffTo(n, S) + CoeffTo(n, T)
<1> DEFINE f == [x \in Mposts |-> Coeff(n, x)]
<1>1. IsFiniteSet(S) /\ IsFiniteSet(T)
  BY RelationAssumption, FS_Subset DEF RelationAssumption
<1>2. \A s \in Mposts : f[s] \in Int
  BY CoeffInt
<1> HIDE DEF f
<1>3. SumFunctionOnSet(f, S) \in Int /\ SumFunctionOnSet(f, T) \in Int
  BY <1>1, <1>2, SumRemove
<1>4. SumFunctionOnSet(f, S \union T) = SumFunctionOnSet(f, S) + SumFunctionOnSet(f, T)
  BY <1>1, <1>2, SumUnion
<1> QED
  BY <1>3, <1>4 DEF CoeffTo, f

\* What the coefficient of a node becomes when n is seeded and some are dropped.
LEMMA CoeffToMoved ==
  ASSUME NEW x, NEW S \in SUBSET Mposts, NEW n \in Mposts \ S, NEW out \in SUBSET S
  PROVE  CoeffTo(x, (S \union {n}) \ out) = CoeffTo(x, S) + Coeff(x, n) - CoeffTo(x, out)
<1>1. S = (S \ out) \union out /\ (S \union {n}) \ out = (S \ out) \union {n}
  OBVIOUS
<1>2. /\ CoeffTo(x, S \ out) \in Int /\ CoeffTo(x, out) \in Int
      /\ CoeffTo(x, S) = CoeffTo(x, S \ out) + CoeffTo(x, out)
  <2>1. (S \ out) \cap out = {}
    OBVIOUS
  <2> QED
    BY <1>1, <2>1, CoeffToSplit
<1>3. CoeffTo(x, (S \union {n}) \ out) = CoeffTo(x, S \ out) + CoeffTo(x, {n})
  <2>1. (S \ out) \cap {n} = {} /\ S \ out \in SUBSET Mposts /\ {n} \in SUBSET Mposts
    OBVIOUS
  <2>2. CoeffTo(x, (S \ out) \union {n}) = CoeffTo(x, S \ out) + CoeffTo(x, {n})
    BY <2>1, CoeffToSplit
  <2> QED
    BY <1>1, <2>2
<1>4. CoeffTo(x, {n}) = Coeff(x, n) /\ Coeff(x, n) \in Int
  BY CoeffToOne, CoeffInt
<1> QED
  BY <1>2, <1>3, <1>4

\* Scores of a candidate are integers, and its joins and itself cannot outweigh
\* one exclusion.
LEMMA NodeCoeffBound ==
  ASSUME Seeded \subseteq Mposts, NEW n \in Mposts \ Seeded
  PROVE  /\ NodeCoeff(n) \in Nat
         /\ Exclusions(n) # {} => NodeCoeff(n) < Infinite
<1>1. IsFiniteSet(Mposts) /\ Infinite \in Nat /\ Cardinality(Mposts) \in Nat
  BY RelationAssumption, FS_CardinalityType DEF RelationAssumption
<1>2. SeededJoins(n) \subseteq Mposts \ {n} /\ SeededJoins(n) \subseteq Mposts
  BY DEF SeededJoins
<1>3. IsFiniteSet(SeededJoins(n)) /\ Cardinality(SeededJoins(n)) \in Nat
  BY <1>1, <1>2, FS_Subset, FS_CardinalityType
<1>4. NodeCoeff(n) \in Nat /\ NodeCoeff(n) <= Cardinality(SeededJoins(n)) + 1
  BY <1>3 DEF NodeCoeff
<1>5. ASSUME NEW e \in Exclusions(n) PROVE NodeCoeff(n) < Infinite
  <2>1. e \in Mposts \ {n} /\ e \notin SeededJoins(n)
    BY <1>5, CoeffInt DEF Exclusions, SeededJoins, Excludes, Joins
  <2>2. SeededJoins(n) \in SUBSET ((Mposts \ {n}) \ {e})
    BY <1>2, <2>1
  <2>3. /\ IsFiniteSet(Mposts \ {n}) /\ IsFiniteSet((Mposts \ {n}) \ {e})
        /\ Cardinality((Mposts \ {n}) \ {e}) = Cardinality(Mposts) - 2
    <3>1. IsFiniteSet(Mposts \ {n}) /\ Cardinality(Mposts \ {n}) = Cardinality(Mposts) - 1
      BY <1>1, FS_RemoveElement
    <3>2. /\ IsFiniteSet((Mposts \ {n}) \ {e})
          /\ Cardinality((Mposts \ {n}) \ {e}) = Cardinality(Mposts \ {n}) - 1
      BY <2>1, <3>1, FS_RemoveElement
    <3> QED
      BY <1>1, <3>1, <3>2
  <2>4. Cardinality(SeededJoins(n)) <= Cardinality(Mposts) - 2
    BY <2>2, <2>3, FS_Subset
  <2> QED
    BY <1>1, <1>3, <1>4, <2>4, InfiniteAssumption DEF InfiniteAssumption
<1> QED
  BY <1>4, <1>5

LEMMA GainInt ==
  ASSUME Seeded \subseteq Mposts, NEW n \in Mposts \ Seeded, \A s \in Seeded : seeded[s] \in Int
  PROVE  /\ Gain(n) \in Int
         /\ Exclusions(n) = {} => Gain(n) = NodeCoeff(n)
<1>1. IsFiniteSet(Exclusions(n)) /\ Exclusions(n) \subseteq Seeded
  BY RelationAssumption, FS_Subset DEF RelationAssumption, Exclusions
<1>2. SumFunctionOnSet(seeded, Exclusions(n)) \in Int
  BY <1>1, SumRemove
<1>3. NodeCoeff(n) \in Nat
  BY NodeCoeffBound
<1>4. Exclusions(n) = {} => SumFunctionOnSet(seeded, Exclusions(n)) = 0
  BY SumOfNone
<1> QED
  BY <1>2, <1>3, <1>4 DEF Gain

-----------------------------------------------------------------------------
(* The inductive invariant behind the scores: in the beginning nothing is  *)
(* seeded or skipped, and the coefficients are what PendingCoeffExact says. *)

RelInv ==
  /\ TypeOK /\ PendingCoeffExact
  /\ \A s \in Seeded : seeded[s] \in Int
  /\ phase = "seed" => Seeded = {} /\ DOMAIN skipped = {}

LEMMA RelInit == Init => RelInv
<1> SUFFICES ASSUME Init PROVE RelInv
  OBVIOUS
<1>1. DOMAIN skipped = {} /\ coeffGain = 0 /\ related \subseteq Pairs
  BY DEF Init
<1>2. CASE PopulateFromCluster
  <2>1. DOMAIN pending = Mposts /\ Seeded = {} /\ members = {} /\ phase = "seed"
    BY <1>2 DEF PopulateFromCluster, Seeded
  <2>2. \A n \in Mposts : pending[n] = 0
    BY <1>2 DEF PopulateFromCluster
  <2>3. PendingCoeffExact
    BY <1>1, <2>1, <2>2, CoeffToNone DEF PendingCoeffExact, Nodes
  <2> QED
    BY <1>1, <2>1, <2>3 DEF RelInv, TypeOK, Nodes
<1>3. ASSUME NEW m \in Mposts, PopulateFromMeet(m) PROVE RelInv
  <2>1. /\ DOMAIN pending = {m} /\ Seeded = members /\ members = Mposts \ {m}
        /\ phase = "proceed" /\ pending[m] = CoeffTo(m, members)
    BY <1>3 DEF PopulateFromMeet, Seeded
  <2>2. \A s \in Seeded : seeded[s] \in Int
    BY <1>3, RelationAssumption DEF PopulateFromMeet, Seeded, RelationAssumption
  <2>3. PendingCoeffExact
    BY <1>1, <2>1 DEF PendingCoeffExact, Nodes
  <2> QED
    BY <1>1, <2>1, <2>2, <2>3 DEF RelInv, TypeOK, Nodes
<1> QED
  BY <1>2, <1>3 DEF Init

\* A coefficient depends on the relation alone.
LEMMA CoeffStable ==
  ASSUME UNCHANGED related
  PROVE  /\ \A m, n : Coeff(m, n)' = Coeff(m, n)
         /\ \A n, S : CoeffTo(n, S)' = CoeffTo(n, S)
<1>1. \A m, n : Coeff(m, n)' = Coeff(m, n)
  BY DEF Coeff
<1>2. ASSUME NEW n, NEW S PROVE CoeffTo(n, S)' = CoeffTo(n, S)
  <2>1. [s \in Mposts |-> Coeff(n, s)]' = [s \in Mposts |-> Coeff(n, s)]
    BY <1>1
  <2> QED
    BY <2>1 DEF CoeffTo
<1> QED
  BY <1>1, <1>2

LEMMA RelSeed ==
  ASSUME RelInv, SeedFirstNode
  PROVE  RelInv'
<1>1. PICK n \in SeedCandidates :
        /\ seeded' = [x \in {n} |-> 1]
        /\ pending' = [x \in DOMAIN pending \ {n} |-> pending[x] + Coeff(x, n)]
  BY DEF SeedFirstNode
<1>2. /\ n \in Mposts /\ phase = "seed" /\ phase' = "proceed"
      /\ UNCHANGED <<related, members, skipped, coeffGain>>
      /\ Seeded = {} /\ DOMAIN skipped = {}
  BY <1>1 DEF SeedFirstNode, SeedCandidates, RelInv
<1>3. Seeded' = {n} /\ seeded'[n] = 1 /\ DOMAIN pending' = DOMAIN pending \ {n}
  BY <1>1 DEF Seeded
<1>4. Nodes' = DOMAIN pending \ {n} /\ Nodes = DOMAIN pending
  BY <1>2, <1>3 DEF Nodes
<1>5. TypeOK'
  BY <1>2, <1>3, <1>4 DEF RelInv, TypeOK
<1>6. ASSUME NEW x \in DOMAIN pending \ {n} PROVE pending'[x] = CoeffTo(x, Seeded)'
  <2>1. pending[x] = 0
    BY <1>2, CoeffToNone DEF RelInv, PendingCoeffExact, Nodes
  <2>2. pending'[x] = 0 + Coeff(x, n)
    BY <1>1, <2>1
  <2>3. CoeffTo(x, Seeded)' = Coeff(x, n)
    BY <1>2, <1>3, CoeffStable, CoeffToOne
  <2> QED
    BY <2>2, <2>3, CoeffInt
<1>7. PendingCoeffExact'
  BY <1>3, <1>4, <1>6 DEF PendingCoeffExact
<1> QED
  BY <1>2, <1>3, <1>5, <1>7 DEF RelInv

LEMMA RelPromote ==
  ASSUME RelInv, NEW n \in Mposts, PromoteCandidate(n)
  PROVE  RelInv'
<1> DEFINE out == Exclusions(n)
           was(x) == IF x \in DOMAIN pending THEN pending[x] ELSE skipped[x]
<1>1. /\ phase = "proceed" /\ n \in DOMAIN pending
      /\ UNCHANGED <<related, members, phase>>
      /\ DOMAIN skipped' = {} /\ coeffGain' = coeffGain + Gain(n)
      /\ seeded' = Without(With(seeded, n, NodeCoeff(n)), out)
  BY DEF PromoteCandidate, IsCandidate
<1>2. /\ Seeded \subseteq Mposts /\ n \notin Seeded /\ out \in SUBSET Seeded
      /\ Nodes \subseteq Mposts /\ Nodes \cap Seeded = {}
  BY <1>1 DEF RelInv, TypeOK, Nodes, Exclusions
<1>3. Seeded' = (Seeded \union {n}) \ out
  BY SeededAfterPromotion
<1>4. /\ DOMAIN pending' = Nodes \ {n}
      /\ \A x \in Nodes \ {n} : pending'[x] = was(x) + Coeff(x, n) - CoeffTo(x, out)
  BY DEF PromoteCandidate
<1> HIDE DEF out
<1>5. Nodes' = Nodes \ {n}
  BY <1>1, <1>4 DEF Nodes
<1>6. \A s \in Seeded' : seeded'[s] = IF s = n THEN NodeCoeff(n) ELSE seeded[s]
  BY <1>1, <1>3 DEF Without, With, Restrict, Seeded
<1>7. NodeCoeff(n) \in Int /\ Gain(n) \in Int
  BY <1>2, NodeCoeffBound, GainInt DEF RelInv
<1>8. \A s \in Seeded' : seeded'[s] \in Int
  BY <1>3, <1>6, <1>7 DEF RelInv
<1>9. TypeOK'
  BY <1>1, <1>2, <1>3, <1>4, <1>5, <1>7 DEF RelInv, TypeOK
<1>10. ASSUME NEW x \in Nodes \ {n} PROVE pending'[x] = CoeffTo(x, Seeded)'
  <2>1. was(x) = CoeffTo(x, Seeded)
    BY DEF RelInv, PendingCoeffExact
  <2>2. CoeffTo(x, Seeded)' = CoeffTo(x, (Seeded \union {n}) \ out)
    BY <1>1, <1>3, CoeffStable
  <2>3. CoeffTo(x, (Seeded \union {n}) \ out)
          = CoeffTo(x, Seeded) + Coeff(x, n) - CoeffTo(x, out)
    BY <1>2, CoeffToMoved
  <2> QED
    BY <1>4, <2>1, <2>2, <2>3
<1>11. PendingCoeffExact'
  BY <1>4, <1>5, <1>10 DEF PendingCoeffExact
<1> QED
  BY <1>1, <1>8, <1>9, <1>11 DEF RelInv

LEMMA RelSkip ==
  ASSUME RelInv, NEW n \in Mposts, SkipCandidate(n)
  PROVE  RelInv'
<1>1. /\ phase = "proceed" /\ n \in DOMAIN pending
      /\ UNCHANGED <<related, members, phase, seeded, mean, coeffGain>>
      /\ skipped' = With(skipped, n, pending[n]) /\ pending' = Without(pending, {n})
  BY DEF SkipCandidate, IsCandidate
<1>2. n \notin DOMAIN skipped
  BY <1>1 DEF RelInv, TypeOK
<1>3. /\ DOMAIN skipped' = DOMAIN skipped \union {n}
      /\ \A x \in DOMAIN skipped' : skipped'[x] = IF x = n THEN pending[n] ELSE skipped[x]
  BY <1>1 DEF With
<1>4. /\ DOMAIN pending' = DOMAIN pending \ {n}
      /\ \A x \in DOMAIN pending' : pending'[x] = pending[x]
  BY <1>1 DEF Without, Restrict
<1>5. Nodes' = Nodes /\ Seeded' = Seeded
  BY <1>1, <1>3, <1>4 DEF Nodes, Seeded
<1>6. TypeOK'
  BY <1>1, <1>2, <1>3, <1>4, <1>5 DEF RelInv, TypeOK
<1>7. \A x \in Nodes : CoeffTo(x, Seeded)' = CoeffTo(x, Seeded)
  BY <1>1, <1>5, CoeffStable
<1>8. ASSUME NEW x \in Nodes
      PROVE  (IF x \in DOMAIN pending' THEN pending'[x] ELSE skipped'[x])
               = IF x \in DOMAIN pending THEN pending[x] ELSE skipped[x]
  BY <1>1, <1>2, <1>3, <1>4 DEF Nodes
<1>9. PendingCoeffExact'
  BY <1>5, <1>7, <1>8 DEF RelInv, PendingCoeffExact
<1> QED
  BY <1>1, <1>5, <1>6, <1>9 DEF RelInv, Seeded

LEMMA RelStep ==
  ASSUME RelInv, [Next]_vars
  PROVE  RelInv'
<1>1. CASE UNCHANGED <<related, members, pending, skipped, seeded, coeffGain>> /\ phase' \in {phase, "done"}
  <2>1. UNCHANGED <<Nodes, Seeded>>
    BY <1>1 DEF Nodes, Seeded
  <2>2. \A x : CoeffTo(x, Seeded)' = CoeffTo(x, Seeded)
    BY <1>1, <2>1, CoeffStable
  <2>3. PendingCoeffExact'
    BY <1>1, <2>1, <2>2 DEF RelInv, PendingCoeffExact
  <2> QED
    BY <1>1, <2>1, <2>3 DEF RelInv, TypeOK
<1>2. CASE Return \/ Done \/ UNCHANGED vars
  BY <1>1, <1>2 DEF Return, Done, vars
<1> QED
  BY <1>2, RelSeed, RelPromote, RelSkip DEF Next

\* Types, and that a node is pending, skipped or seeded but never two of these.
THEOREM RelationTypeCorrect == Spec => []TypeOK
<1>1. RelInv => TypeOK
  BY DEF RelInv
<1> QED
  BY <1>1, RelInit, RelStep, PTL DEF Spec

-----------------------------------------------------------------------------
(* A mpost that asks to join an existing meet is still pending, or was     *)
(* refused, or has joined; the members stay whatever happens to it.        *)

MembersJoined(m) == {n \in members : Joins(m, n)}

FitsMembers(m) == MembersJoined(m) # {} /\ \A n \in members : ~Excludes(m, n)

Asks(m) ==
  /\ DOMAIN pending = {m} /\ DOMAIN skipped = {}
  /\ Seeded = members /\ \A s \in members : seeded[s] = Infinite
  /\ coeffGain = 0

IsRefused(m) ==
  /\ DOMAIN pending = {} /\ Seeded = members /\ coeffGain = 0
  /\ ~FitsMembers(m)

HasJoined(m) ==
  /\ DOMAIN pending = {} /\ Seeded = Mposts
  /\ coeffGain = Cardinality(MembersJoined(m)) + 1 /\ FitsMembers(m)

MeetInv ==
  members # {} =>
    /\ phase # "seed"
    /\ \E m \in Mposts : /\ members = Mposts \ {m}
                         /\ Asks(m) \/ IsRefused(m) \/ HasJoined(m)

LEMMA MeetInit == Init => MeetInv
<1> SUFFICES ASSUME Init, members # {} PROVE MeetInv
  BY DEF MeetInv
<1>1. PICK m \in Mposts : PopulateFromMeet(m)
  BY DEF Init, PopulateFromCluster
<1>2. members = Mposts \ {m} /\ phase = "proceed" /\ DOMAIN skipped = {} /\ coeffGain = 0
  BY <1>1 DEF Init, PopulateFromMeet
<1>3. DOMAIN pending = {m} /\ Seeded = members /\ \A s \in members : seeded[s] = Infinite
  BY <1>1 DEF PopulateFromMeet, Seeded
<1> QED
  BY <1>2, <1>3 DEF MeetInv, Asks

\* What a mpost scores against the members: it passes exactly when it fits.
LEMMA MeetCriteria ==
  ASSUME NEW m \in Mposts, members # {}, members = Mposts \ {m}, Asks(m)
  PROVE  /\ PassCriteria(m) <=> FitsMembers(m)
         /\ FitsMembers(m) => /\ Exclusions(m) = {}
                              /\ Gain(m) = Cardinality(MembersJoined(m)) + 1
<1>1. Seeded = members /\ Seeded \subseteq Mposts /\ m \in Mposts \ Seeded
  BY DEF Asks
<1>2. \A s \in Seeded : seeded[s] = Infinite /\ seeded[s] \in Int /\ seeded[s] \in Nat
  BY RelationAssumption DEF Asks, RelationAssumption
<1>3. SeededJoins(m) = MembersJoined(m)
  BY <1>1 DEF SeededJoins, MembersJoined
<1>4. Cardinality(MembersJoined(m)) \in Nat
  <2>1. IsFiniteSet(MembersJoined(m))
    BY RelationAssumption, FS_Subset DEF RelationAssumption, MembersJoined
  <2> QED
    BY <2>1, FS_CardinalityType
<1>5. Gain(m) \in Int /\ (Exclusions(m) = {} => Gain(m) = NodeCoeff(m))
  BY <1>1, <1>2, GainInt
<1>6. NodeCoeff(m) \in Nat /\ (Exclusions(m) # {} => NodeCoeff(m) < Infinite)
  BY <1>1, NodeCoeffBound
<1>7. PassCriteria(m) <=> Gain(m) > 0
  BY DEF PassCriteria
<1>8. Exclusions(m) = {} <=> \A n \in members : ~Excludes(m, n)
  BY <1>1 DEF Exclusions
<1>9. CASE Exclusions(m) = {}
  BY <1>3, <1>4, <1>5, <1>7, <1>8, <1>9 DEF FitsMembers, NodeCoeff
<1>10. ASSUME NEW e \in Exclusions(m) PROVE Gain(m) <= 0
  <2>1. /\ IsFiniteSet(Exclusions(m)) /\ IsFiniteSet(Exclusions(m) \ {e})
        /\ Exclusions(m) \subseteq Seeded
    <3>1. Exclusions(m) \subseteq Seeded
      BY DEF Exclusions
    <3>2. Exclusions(m) \in SUBSET Mposts /\ Exclusions(m) \ {e} \in SUBSET Mposts
      BY <1>1, <3>1
    <3> QED
      BY <3>1, <3>2, RelationAssumption, FS_Subset DEF RelationAssumption
  <2>2. SumFunctionOnSet(seeded, Exclusions(m))
          = seeded[e] + SumFunctionOnSet(seeded, Exclusions(m) \ {e})
    BY <1>2, <2>1, SumRemove
  <2>3. SumFunctionOnSet(seeded, Exclusions(m) \ {e}) \in Nat
    BY <1>2, <2>1, SumNat
  <2>4. seeded[e] = Infinite /\ Infinite \in Nat
    BY <1>2, <2>1, RelationAssumption DEF RelationAssumption
  <2> QED
    BY <1>6, <2>2, <2>3, <2>4 DEF Gain
<1> QED
  BY <1>5, <1>7, <1>8, <1>9, <1>10 DEF FitsMembers

LEMMA MeetPromote ==
  ASSUME MeetInv, NEW n \in Mposts, PromoteCandidate(n)
  PROVE  MeetInv'
<1> SUFFICES ASSUME members # {} PROVE MeetInv'
  BY DEF MeetInv, PromoteCandidate
<1>1. PICK m \in Mposts : /\ members = Mposts \ {m}
                          /\ Asks(m) \/ IsRefused(m) \/ HasJoined(m)
  BY DEF MeetInv
<1>2. n = m /\ Asks(m) /\ PassCriteria(m)
  BY <1>1 DEF PromoteCandidate, IsCandidate, IsRefused, HasJoined, Asks
<1>3. FitsMembers(m) /\ Exclusions(m) = {} /\ Gain(m) = Cardinality(MembersJoined(m)) + 1
  BY <1>1, <1>2, MeetCriteria
<1>4. UNCHANGED <<related, members, phase>> /\ coeffGain' = coeffGain + Gain(m)
  BY <1>2 DEF PromoteCandidate
<1>5. Seeded' = Mposts
  <2>1. Seeded' = (Seeded \union {n}) \ Exclusions(n)
    BY SeededAfterPromotion
  <2>2. Exclusions(n) = {} /\ Seeded = Mposts \ {n}
    BY <1>1, <1>2, <1>3 DEF Asks
  <2> QED
    BY <2>1, <2>2
<1>6. DOMAIN pending' = {}
  BY <1>2 DEF PromoteCandidate, Asks, Nodes
<1>7. MembersJoined(m)' = MembersJoined(m) /\ FitsMembers(m)'
  BY <1>3, <1>4, CoeffStable DEF MembersJoined, FitsMembers, Joins, Excludes
<1>8. coeffGain' = Cardinality(MembersJoined(m)) + 1
  <2>1. Gain(m) \in Int
    <3>1. Seeded \subseteq Mposts /\ m \in Mposts \ Seeded
      BY <1>1, <1>2 DEF Asks
    <3>2. \A s \in Seeded : seeded[s] \in Int
      BY <1>2, RelationAssumption DEF Asks, RelationAssumption
    <3> QED
      BY <3>1, <3>2, GainInt
  <2> QED
    BY <1>2, <1>3, <1>4, <2>1 DEF Asks
<1>9. HasJoined(m)'
  BY <1>5, <1>6, <1>7, <1>8 DEF HasJoined
<1> QED
  BY <1>1, <1>4, <1>9 DEF MeetInv

LEMMA MeetSkip ==
  ASSUME MeetInv, NEW n \in Mposts, SkipCandidate(n)
  PROVE  MeetInv'
<1> SUFFICES ASSUME members # {} PROVE MeetInv'
  BY DEF MeetInv, SkipCandidate
<1>1. PICK m \in Mposts : /\ members = Mposts \ {m}
                          /\ Asks(m) \/ IsRefused(m) \/ HasJoined(m)
  BY DEF MeetInv
<1>2. n = m /\ Asks(m) /\ ~PassCriteria(m)
  BY <1>1 DEF SkipCandidate, IsCandidate, IsRefused, HasJoined, Asks
<1>3. ~FitsMembers(m)
  BY <1>1, <1>2, MeetCriteria
<1>4. /\ UNCHANGED <<related, members, phase, seeded, coeffGain>>
      /\ pending' = Without(pending, {m})
  BY <1>2 DEF SkipCandidate
<1>5. DOMAIN pending' = {}
  BY <1>2, <1>4 DEF Without, Restrict, Asks
<1>6. ~FitsMembers(m)'
  BY <1>3, <1>4, CoeffStable DEF MembersJoined, FitsMembers, Joins, Excludes
<1>7. IsRefused(m)'
  BY <1>2, <1>4, <1>5, <1>6 DEF IsRefused, Asks, Seeded
<1> QED
  BY <1>1, <1>4, <1>7 DEF MeetInv

LEMMA MeetStep ==
  ASSUME MeetInv, [Next]_vars
  PROVE  MeetInv'
<1>1. CASE SeedFirstNode
  BY <1>1 DEF SeedFirstNode, MeetInv
<1>2. CASE UNCHANGED <<related, members, pending, skipped, seeded, coeffGain>> /\ phase' \in {phase, "done"}
  <2>1. \A m : /\ MembersJoined(m)' = MembersJoined(m)
               /\ FitsMembers(m)' <=> FitsMembers(m)
    BY <1>2, CoeffStable DEF MembersJoined, FitsMembers, Joins, Excludes
  <2>2. \A m : Asks(m) => Asks(m)'
    BY <1>2 DEF Asks, Seeded
  <2>3. \A m : IsRefused(m) => IsRefused(m)'
    BY <1>2, <2>1 DEF IsRefused, Seeded
  <2>4. \A m : HasJoined(m) => HasJoined(m)'
    BY <1>2, <2>1 DEF HasJoined, Seeded
  <2> QED
    BY <1>2, <2>2, <2>3, <2>4 DEF MeetInv
<1>3. CASE Return \/ Done \/ UNCHANGED vars
  BY <1>2, <1>3 DEF Return, Done, vars
<1> QED
  BY <1>1, <1>3, MeetPromote, MeetSkip DEF Next

\* "No reconfiguration for processed clusters (meets)": no member of an existing
\* meet is dropped by a mpost that asks to join.
THEOREM MembersAreKept == Spec => []MembersStay
<1>1. TypeOK /\ MeetInv => MembersStay
  BY DEF TypeOK, MeetInv, MembersStay, Asks, IsRefused, HasJoined
<1> QED
  BY <1>1, RelationTypeCorrect, MeetInit, MeetStep, PTL DEF Spec

\* The coefficients kept step by step are those counted afresh, and a mpost is
\* taken into a meet, with one point per join and one for itself, exactly when
\* it joins a member and no member excludes it.
THEOREM ScoresAreExact == Spec => []ScoresExact
<1>1. RelInv => PendingCoeffExact
  BY DEF RelInv
<1>2. ASSUME MeetInv, phase = "done", phase = "done" => DOMAIN pending = {}
      PROVE  MeetScore
  <2> SUFFICES ASSUME members # {}, NEW n \in Mposts \ members
               PROVE  coeffGain = IF FitsMembers(n) THEN Cardinality(MembersJoined(n)) + 1 ELSE 0
    BY DEF MeetScore, FitsMembers, MembersJoined
  <2>1. PICK m \in Mposts : /\ members = Mposts \ {m}
                            /\ Asks(m) \/ IsRefused(m) \/ HasJoined(m)
    BY <1>2 DEF MeetInv
  <2>2. n = m
    BY <2>1
  <2>3. ~Asks(m)
    BY <1>2 DEF Asks
  <2> QED
    BY <2>1, <2>2, <2>3 DEF IsRefused, HasJoined
<1> DEFINE DoneInv == phase = "done" => DOMAIN pending = {}
<1>3. Init => DoneInv
  BY DEF Init, PopulateFromCluster, PopulateFromMeet
<1>4. DoneInv /\ [Next]_vars => DoneInv'
  BY DEF Next, vars, SeedFirstNode, PromoteCandidate, SkipCandidate, IsCandidate, Return, Done
<1>5. MeetInv /\ DoneInv => MeetScore
  BY <1>2 DEF MeetScore
<1>6. RelInv /\ MeetInv /\ DoneInv => ScoresExact
  BY <1>1, <1>5 DEF ScoresExact
<1> HIDE DEF DoneInv
<1> QED
  BY <1>3, <1>4, <1>6, RelInit, RelStep, MeetInit, MeetStep, PTL DEF Spec
=============================================================================
