---------------------------- MODULE MeetRelation ----------------------------
(***************************************************************************)
(* MeetRelation of app/models/meet_processer.rb: the greedy selection of   *)
(* the mposts that form one meet.  Starting from a seed (the best mpost of *)
(* a raw cluster, or every member of an existing meet) it promotes pending *)
(* mposts one by one, dropping seeded ones that a promoted mpost excludes, *)
(* until nothing pending improves the group.                               *)
(*                                                                         *)
(* MeetProcesser uses only the result of this selection (SeededSets, Fits  *)
(* and Gain there); the properties below say that the selection delivers   *)
(* it.  Edges are coefficients: Joins for a pair that sees each other      *)
(* within the meet duration, minus Infinite for one that is further apart. *)
(***************************************************************************)
EXTENDS Integers, FiniteSets, Functions

CONSTANTS
  Mposts,
  Trigger,      \* Mposts -> trigger_time
  MeetDuration, \* meet_duration_loose
  Infinite,     \* infinite_coeff
  Threshold     \* coeff_vs_avg_threshold is 1 / Threshold

ASSUME RelationAssumption ==
  /\ IsFiniteSet(Mposts) /\ Trigger \in [Mposts -> Nat]
  /\ MeetDuration \in Nat /\ Infinite \in Nat \ {0} /\ Threshold \in Nat \ {0}

\* what it is for: no number of joins outweighs it
ASSUME InfiniteAssumption == Cardinality(Mposts) <= Infinite

VARIABLES
  related,   \* the pairs that see each other, as sets of two mposts
  members,   \* mposts of the meet the relation is populated from, {} for a cluster
  phase,     \* "seed", "proceed", "done"
  pending,   \* pending: node |-> its coefficient to the seeded nodes
  skipped,   \* skipped: candidates refused since the last promotion
  seeded,    \* seeded: node |-> node coefficient
  mean,      \* coeff_stats[0], as the pair <<sum, size>>
  coeffGain  \* the value proceed returns

vars == <<related, members, phase, pending, skipped, seeded, mean, coeffGain>>

Pairs == {e \in SUBSET Mposts : Cardinality(e) = 2}

Gap(m, n) == IF Trigger[m] >= Trigger[n] THEN Trigger[m] - Trigger[n]
                                         ELSE Trigger[n] - Trigger[m]

\* an entry of graph; 0 stands for no entry
Coeff(m, n) ==
  IF {m, n} \notin related \/ m = n THEN 0
  ELSE IF Gap(m, n) > MeetDuration THEN -Infinite ELSE 1

Joins(m, n)    == Coeff(m, n) > 0
Excludes(m, n) == Coeff(m, n) < 0

Nodes  == DOMAIN pending \union DOMAIN skipped
Seeded == DOMAIN seeded

\* the sum of the entries that lead from a node into a set of nodes
CoeffTo(n, S) == SumFunctionOnSet([s \in Mposts |-> Coeff(n, s)], S)

MeanOf(f) == <<SumFunction(f), Cardinality(DOMAIN f)>>

Without(f, S) == Restrict(f, DOMAIN f \ S)
With(f, n, v) == [x \in DOMAIN f \union {n} |-> IF x = n THEN v ELSE f[x]]

-----------------------------------------------------------------------------
\* populate_from_cluster: every mpost pending, none seeded yet.  Pairs at
\* exactly the meet duration raise in the coefficient and never get here.
PopulateFromCluster ==
  /\ members = {}
  /\ phase = "seed"
  /\ pending = [m \in Mposts |-> 0]
  /\ seeded = <<>>
  /\ mean = <<0, 1>>

\* populate_from_meet_for_mposts: the members seeded, the new mpost pending
PopulateFromMeet(m) ==
  /\ members = Mposts \ {m}
  /\ phase = "proceed"
  /\ pending = [x \in {m} |-> CoeffTo(m, members)]
  /\ seeded = [x \in members |-> Infinite]
  /\ mean = <<0, 1>>

Init ==
  /\ related \in SUBSET Pairs
  /\ PopulateFromCluster \/ \E m \in Mposts : PopulateFromMeet(m)
  /\ skipped = <<>> /\ coeffGain = 0

\* a node counts itself and its joins, not its exclusions
SeedCoeff(n) == 1 + Cardinality({m \in Mposts : Joins(n, m)})

SeedCandidates ==
  {n \in Mposts : \A m \in Mposts : 10 * SeedCoeff(n) >= 8 * SeedCoeff(m)}

SeedFirstNode ==
  /\ phase = "seed"
  /\ \E n \in SeedCandidates :
       /\ \A m \in SeedCandidates : Trigger[n] >= Trigger[m]
       /\ seeded' = [x \in {n} |-> 1]
       /\ pending' = [x \in DOMAIN pending \ {n} |-> pending[x] + Coeff(x, n)]
       /\ mean' = <<1, 1>>
  /\ phase' = "proceed"
  /\ UNCHANGED <<related, members, skipped, coeffGain>>

IsCandidate(n) ==
  /\ phase = "proceed"
  /\ n \in DOMAIN pending
  /\ \A m \in DOMAIN pending : pending[n] >= pending[m]

Exclusions(n) == {s \in Seeded : Excludes(n, s)}
SeededJoins(n) == {s \in Seeded : Joins(n, s)}

\* the candidate counts itself once it joins anyone
NodeCoeff(n) ==
  IF SeededJoins(n) = {} THEN 0 ELSE Cardinality(SeededJoins(n)) + 1

\* mutant: what the candidate excludes costs nothing
GainOfJoins(n) == NodeCoeff(n)

Gain(n) == NodeCoeff(n) - SumFunctionOnSet(seeded, Exclusions(n))

\* pass_coeff_criteria_normal? for clusters, pass_coeff_criteria_simple? for meets
PassCriteria(n) ==
  /\ Gain(n) > 0
  /\ members # {} \/ Threshold * NodeCoeff(n) * mean[2] >= mean[1]

\* mutant: nothing is dropped for a promoted node
PromoteWithoutDropping(n) ==
  LET all == [x \in Nodes \ {n} |->
                IF x \in DOMAIN pending THEN pending[x] ELSE skipped[x]]
  IN
  /\ IsCandidate(n) /\ PassCriteria(n)
  /\ seeded' = With(seeded, n, NodeCoeff(n))
  /\ pending' = [x \in DOMAIN all |-> all[x] + Coeff(x, n)]
  /\ skipped' = <<>>
  /\ mean' = MeanOf(seeded')
  /\ coeffGain' = coeffGain + Gain(n)
  /\ UNCHANGED <<related, members, phase>>

\* mutant: the dropped nodes still count in the pending coefficients
PromoteWithStaleCoeffs(n) ==
  LET all == [x \in Nodes \ {n} |->
                IF x \in DOMAIN pending THEN pending[x] ELSE skipped[x]]
  IN
  /\ IsCandidate(n) /\ PassCriteria(n)
  /\ seeded' = Without(With(seeded, n, NodeCoeff(n)), Exclusions(n))
  /\ pending' = [x \in DOMAIN all |-> all[x] + Coeff(x, n)]
  /\ skipped' = <<>>
  /\ mean' = MeanOf(seeded')
  /\ coeffGain' = coeffGain + Gain(n)
  /\ UNCHANGED <<related, members, phase>>

\* mutant: the skipped nodes get no second chance
PromoteWithoutRestoring(n) ==
  /\ IsCandidate(n) /\ PassCriteria(n)
  /\ seeded' = Without(With(seeded, n, NodeCoeff(n)), Exclusions(n))
  /\ pending' = [x \in DOMAIN pending \ {n} |->
                   pending[x] + Coeff(x, n) - CoeffTo(x, Exclusions(n))]
  /\ mean' = MeanOf(seeded')
  /\ coeffGain' = coeffGain + Gain(n)
  /\ UNCHANGED <<related, members, phase, skipped>>

\* mutant: the promoted node stays pending
PromoteInPlace(n) ==
  /\ IsCandidate(n) /\ PassCriteria(n)
  /\ seeded' = Without(With(seeded, n, NodeCoeff(n)), Exclusions(n))
  /\ mean' = MeanOf(seeded')
  /\ coeffGain' = coeffGain + Gain(n)
  /\ UNCHANGED <<related, members, phase, pending, skipped>>

\* Promote the candidate, drop what it excludes for good, and give the
\* skipped ones another chance.
PromoteCandidate(n) ==
  LET out == Exclusions(n)
      all == [x \in Nodes \ {n} |->
                IF x \in DOMAIN pending THEN pending[x] ELSE skipped[x]]
  IN
  /\ IsCandidate(n) /\ PassCriteria(n)
  /\ seeded' = Without(With(seeded, n, NodeCoeff(n)), out)
  /\ pending' = [x \in DOMAIN all |-> all[x] + Coeff(x, n) - CoeffTo(x, out)]
  /\ skipped' = <<>>
  /\ mean' = MeanOf(seeded')
  /\ coeffGain' = coeffGain + Gain(n)
  /\ UNCHANGED <<related, members, phase>>

SkipCandidate(n) ==
  /\ IsCandidate(n) /\ ~PassCriteria(n)
  /\ skipped' = With(skipped, n, pending[n])
  /\ pending' = Without(pending, {n})
  /\ UNCHANGED <<related, members, phase, seeded, mean, coeffGain>>

Return ==
  /\ phase = "proceed" /\ DOMAIN pending = {}
  /\ phase' = "done"
  /\ UNCHANGED <<related, members, pending, skipped, seeded, mean, coeffGain>>

Done == phase = "done" /\ UNCHANGED vars

Next ==
  \/ SeedFirstNode
  \/ \E n \in Mposts : PromoteCandidate(n) \/ SkipCandidate(n)
  \/ Return
  \/ Done

Spec == Init /\ [][Next]_vars
FairSpec == Spec /\ WF_vars(Next)

-----------------------------------------------------------------------------
\* Types, and that a node is pending, skipped or seeded but never two of these.
TypeOK ==
  /\ related \subseteq Pairs /\ members \subseteq Mposts
  /\ phase \in {"seed", "proceed", "done"}
  /\ Nodes \union Seeded \subseteq Mposts
  /\ DOMAIN pending \cap DOMAIN skipped = {} /\ Nodes \cap Seeded = {}
  /\ coeffGain \in Int

\* No two mposts of a group exclude each other, however the greedy order
\* promoted and dropped them: this is what MeetProcesser!SeededSets relies on.
\* The members of an existing meet are taken as they are.
NoExcludedPair ==
  \A m, n \in Seeded : {m, n} \subseteq members \/ ~Excludes(m, n)

\* The coefficients kept incrementally are exact: a pending or skipped node
\* carries the sum of its coefficients to the nodes seeded now, after any
\* series of promotions, exclusions and restorations.
PendingCoeffExact ==
  \A n \in Nodes :
    (IF n \in DOMAIN pending THEN pending[n] ELSE skipped[n]) = CoeffTo(n, Seeded)

\* "No reconfiguration for processed clusters (meets)": no member of an
\* existing meet is dropped by a mpost that asks to join.
MembersStay == members \subseteq Seeded

\* A mpost joins an existing meet exactly when it joins a member and no member
\* excludes it, with one point per join and one for itself: this is what
\* MeetProcesser!Fits and MeetProcesser!Gain say.
MeetScore ==
  phase = "done" /\ members # {} =>
    \A m \in Mposts \ members :
      LET joins == {n \in members : Joins(m, n)}
          fits  == joins # {} /\ \A n \in members : ~Excludes(m, n)
      IN coeffGain = IF fits THEN Cardinality(joins) + 1 ELSE 0

\* What is counted step by step is what would be counted afresh: while the
\* selection goes on and, for a mpost that asks to join a meet, at its end.
ScoresExact == PendingCoeffExact /\ MeetScore

\* The selection ends, and then nobody is left out who would improve the group.
Terminates == <>(phase = "done" /\ \A n \in DOMAIN skipped : ~PassCriteria(n))
=============================================================================
