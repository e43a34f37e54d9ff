------------------------ MODULE MeetProcesser_proofs ------------------------
(***************************************************************************)
(* Safety of the meet pipeline for any set of mposts, any sightings and    *)
(* any limits.                                                             *)
(***************************************************************************)
EXTENDS MeetInvariant, TLAPS

-----------------------------------------------------------------------------
(* The process queue.                                                      *)

\* What taking the first job leaves in the queue (MeetWrapper's queue, popped
\* by the process thread).
LEMMA QueueTail ==
  ASSUME NEW q \in Seq(Jobs), q # <<>>
  PROVE  /\ Tail(q) \in Seq(Jobs)
         /\ Head(q) \in Jobs
         /\ Head(q).job = "process_mposts" =>
              /\ Head(q).mpost \in Mposts
              /\ QueuedIn(q) = QueuedIn(Tail(q)) \union {Head(q).mpost}
         /\ Head(q).job = "process_meets" =>
              /\ Head(q).at \in Nat
              /\ QueuedIn(q) = QueuedIn(Tail(q))
<1>1. Tail(q) \in Seq(Jobs) /\ Head(q) \in Jobs /\ Head(q) = q[1]
  OBVIOUS
<1>2. DOMAIN q = 1..Len(q) /\ Len(q) \in Nat \ {0} /\ Len(Tail(q)) = Len(q) - 1
  OBVIOUS
<1>3. DOMAIN Tail(q) = 1..(Len(q) - 1)
  BY <1>1, <1>2
<1>4. \A i \in 1..(Len(q) - 1) : Tail(q)[i] = q[i + 1]
  BY <1>2
<1>5. \A j \in 1..Len(q) : j = 1 \/ (j - 1 \in 1..(Len(q) - 1) /\ Tail(q)[j - 1] = q[j])
  BY <1>2, <1>4
<1>6. \A i \in 1..(Len(q) - 1) : i + 1 \in 1..Len(q)
  BY <1>2
<1>7. ASSUME Head(q).job = "process_mposts"
      PROVE  QueuedIn(q) = QueuedIn(Tail(q)) \union {Head(q).mpost}
  <2>1. ASSUME NEW m \in QueuedIn(q) PROVE m \in QueuedIn(Tail(q)) \union {Head(q).mpost}
    BY <1>1, <1>2, <1>3, <1>5, <1>7 DEF QueuedIn
  <2>2. QueuedIn(Tail(q)) \subseteq QueuedIn(q)
    BY <1>2, <1>3, <1>4, <1>6 DEF QueuedIn
  <2>3. Head(q).mpost \in QueuedIn(q)
    BY <1>1, <1>2, <1>7 DEF QueuedIn, Jobs
  <2> QED
    BY <2>1, <2>2, <2>3
<1>8. ASSUME Head(q).job = "process_meets"
      PROVE  QueuedIn(q) = QueuedIn(Tail(q))
  <2>1. ASSUME NEW m \in QueuedIn(q) PROVE m \in QueuedIn(Tail(q))
    BY <1>1, <1>2, <1>3, <1>5, <1>8 DEF QueuedIn
  <2>2. QueuedIn(Tail(q)) \subseteq QueuedIn(q)
    BY <1>2, <1>3, <1>4, <1>6 DEF QueuedIn
  <2> QED
    BY <2>1, <2>2
<1>9. Head(q).job = "process_mposts" => Head(q).mpost \in Mposts
  BY <1>1 DEF Jobs
<1>10. Head(q).job = "process_meets" => Head(q).at \in Nat
  BY <1>1 DEF Jobs
<1> QED
  BY <1>1, <1>7, <1>8, <1>9, <1>10

\* What pushing a job of either kind adds to the queue.
LEMMA QueueAppend ==
  ASSUME NEW q \in Seq(Jobs)
  PROVE  /\ \A m \in Mposts :
              LET job == [job |-> "process_mposts", mpost |-> m]
              IN  /\ Append(q, job) \in Seq(Jobs)
                  /\ QueuedIn(Append(q, job)) = QueuedIn(q) \union {m}
         /\ \A t \in Nat :
              LET job == [job |-> "process_meets", at |-> t]
              IN  /\ Append(q, job) \in Seq(Jobs)
                  /\ QueuedIn(Append(q, job)) = QueuedIn(q)
<1>1. ASSUME NEW e \in Jobs
      PROVE  /\ Append(q, e) \in Seq(Jobs)
             /\ DOMAIN Append(q, e) = 1..(Len(q) + 1)
             /\ DOMAIN q = 1..Len(q)
             /\ Append(q, e)[Len(q) + 1] = e
             /\ \A i \in 1..Len(q) : Append(q, e)[i] = q[i]
  OBVIOUS
<1>2. \A i : i \in 1..(Len(q) + 1) <=> i \in 1..Len(q) \/ i = Len(q) + 1
  OBVIOUS
<1>3. ASSUME NEW m \in Mposts
      PROVE  LET job == [job |-> "process_mposts", mpost |-> m]
             IN  /\ Append(q, job) \in Seq(Jobs)
                 /\ QueuedIn(Append(q, job)) = QueuedIn(q) \union {m}
  <2> DEFINE e == [job |-> "process_mposts", mpost |-> m]
  <2>1. e \in Jobs /\ e.job = "process_mposts" /\ e.mpost = m
    BY DEF Jobs
  <2> HIDE DEF e
  <2>2. QueuedIn(Append(q, e)) = QueuedIn(q) \union {m}
    BY <1>1, <1>2, <2>1 DEF QueuedIn
  <2> QED
    BY <1>1, <2>1, <2>2 DEF e
<1>4. ASSUME NEW t \in Nat
      PROVE  LET job == [job |-> "process_meets", at |-> t]
             IN  /\ Append(q, job) \in Seq(Jobs)
                 /\ QueuedIn(Append(q, job)) = QueuedIn(q)
  <2> DEFINE e == [job |-> "process_meets", at |-> t]
  <2>1. e \in Jobs /\ e.job = "process_meets"
    BY DEF Jobs
  <2> HIDE DEF e
  <2>2. QueuedIn(Append(q, e)) = QueuedIn(q)
    BY <1>1, <1>2, <2>1 DEF QueuedIn
  <2> QED
    BY <1>1, <2>1, <2>2 DEF e
<1> QED
  BY <1>3, <1>4

-----------------------------------------------------------------------------
(* Type correctness.                                                       *)

\* The start time that get_elapse_time would record is a time.
LEMMA StartedAtType ==
  ASSUME TypeOK
  PROVE  StartedAt \in Nat
BY DEF TypeOK, StartedAt

\* A flush changes what a processed cluster's Meet object holds, and no cluster.
SameClusters ==
  /\ warm' \subseteq [meet : Nat, mposts : SUBSET Mposts, cached : SUBSET Mposts]
  /\ \A w \in warm' : \E v \in warm : w.meet = v.meet /\ w.mposts = v.mposts
  /\ (\A v, w \in warm : v.meet = w.meet => v = w)
       => \A v, w \in warm' : v.meet = w.meet => v = w

LEMMA SameClustersStill ==
  ASSUME TypeOK, UNCHANGED warm
  PROVE  SameClusters
BY DEF SameClusters, TypeOK

LEMMA SavedThroughKeyClusters ==
  ASSUME TypeOK, NEW M, NEW added \in SUBSET Mposts, SavedThroughKey(M, added)
  PROVE  SameClusters
<1>1. CASE UNCHANGED warm
  BY <1>1, SameClustersStill
<1>2. CASE ~UNCHANGED warm
  <2>0. PICK w \in warm : \E held \in {w.cached, MembersOf(M)} :
          warm' = (warm \ {w}) \union {[w EXCEPT !.cached = held \union added]}
    BY <1>2 DEF SavedThroughKey
  <2>1. PICK held \in {w.cached, MembersOf(M)} :
          warm' = (warm \ {w}) \union {[w EXCEPT !.cached = held \union added]}
    BY <2>0
  <2> DEFINE now == [w EXCEPT !.cached = held \union added]
  <2>2. w \in [meet : Nat, mposts : SUBSET Mposts, cached : SUBSET Mposts]
    BY DEF TypeOK
  <2>3. held \in SUBSET Mposts
    BY <2>2 DEF MembersOf, TypeOK
  <2>4. /\ now \in [meet : Nat, mposts : SUBSET Mposts, cached : SUBSET Mposts]
        /\ now.meet = w.meet /\ now.mposts = w.mposts
    BY <2>2, <2>3
  <2> HIDE DEF now
  <2>5. warm' = (warm \ {w}) \union {now}
    BY <2>1 DEF now
  <2> QED
    BY <2>4, <2>5 DEF SameClusters, TypeOK
<1> QED
  BY <1>1, <1>2

\* What Abort leaves alone keeps its type, and what it resets is typed.
LEMMA AbortTypes ==
  ASSUME TypeOK, Abort, meetOf' \in [Mposts -> Nat], raw' \subseteq SUBSET Mposts,
         SameClusters, faults' \in Nat
  PROVE  TypeOK'
BY StartedAtType DEF SameClusters, TypeOK, Abort, OnlyLocal, queueVars, endVars

\* Rows of the meets table, and the meets in memory, are numbers.
LEMMA MeetsAreNumbered ==
  ASSUME TypeOK
  PROVE  MeetIds \subseteq Nat /\ WarmMeets \subseteq Nat
BY DEF TypeOK, MeetIds, WarmMeets

\* Every step, the failing ones included, keeps the types.
LEMMA TypeStep ==
  ASSUME TypeOK, [Next]_vars
  PROVE  TypeOK'
<1> USE DEF dbVars, poolVars, localVars, queueVars, jobVars, endVars, faultVars
<1>1. ASSUME NEW m \in Mposts, Post(m) PROVE TypeOK'
  BY <1>1 DEF Post, TypeOK
<1>2. ASSUME NEW m \in Mposts, Deliver(m) PROVE TypeOK'
  <2>1. jobs' \in Seq(Jobs)
    <3>1. Append(jobs, [job |-> "process_mposts", mpost |-> m]) \in Seq(Jobs)
      BY QueueAppend DEF TypeOK
    <3> QED
      BY <1>2, <3>1 DEF Deliver
  <2>2. delayed' \subseteq posted' /\ redelivered' \in Nat
    BY <1>2 DEF Deliver, TypeOK
  <2>3. disturbed' \in BOOLEAN
    BY <1>2 DEF Deliver, TypeOK
  <2> QED
    BY <1>2, <2>1, <2>2, <2>3 DEF Deliver, TypeOK
<1>3. CASE Timer
  <2>1. clock' \in Nat
    BY <1>3 DEF Timer, TypeOK
  <2> QED
    BY <1>3, <2>1, QueueAppend DEF Timer, TypeOK
<1>4. CASE ProcessMpost
  BY <1>4, QueueTail DEF ProcessMpost, TypeOK
<1>5. CASE ProcessMeets
  BY <1>5, QueueTail DEF ProcessMeets, TypeOK
<1>6. CASE SkipProcessMeets
  BY <1>6, QueueTail DEF SkipProcessMeets, TypeOK
<1>7. ASSUME NEW m \in todo, SkipProcessed(m) PROVE TypeOK'
  BY <1>7 DEF SkipProcessed, Reach, TypeOK
<1>8. ASSUME NEW m \in todo, CollectHostMode(m) PROVE TypeOK'
  BY <1>8 DEF CollectHostMode, Reach, TypeOK
<1>9. ASSUME NEW m \in todo, ReachPeer(m)
      PROVE  /\ m \in Mposts /\ todo' \subseteq Mposts
             /\ startTime' \in Nat \union {-1} /\ timeNow' \in Nat
             /\ lastRun' \in Nat \union {-1}
  BY <1>9, StartedAtType DEF ReachPeer, Reach, TypeOK
<1>10. ASSUME NEW m \in todo, AssignToWarmMeet(m) PROVE TypeOK'
  <2>1. PICK M \in BestFits(WarmMembers, m) :
          /\ pooled' = pooled \union {<<m, M>>}
          /\ warm' = {IF w.meet = M THEN [w EXCEPT !.mposts = @ \union {m}] ELSE w : w \in warm}
    BY <1>10 DEF AssignToWarmMeet
  <2>2. M \in Nat /\ m \in Mposts
    BY <1>10, MeetsAreNumbered DEF BestFits, WarmMembers, TypeOK
  <2>3. warm' \subseteq [meet : Nat, mposts : SUBSET Mposts, cached : SUBSET Mposts]
    <3>1. ASSUME NEW w \in warm
          PROVE  [w EXCEPT !.mposts = @ \union {m}]
                   \in [meet : Nat, mposts : SUBSET Mposts, cached : SUBSET Mposts]
      <4>1. w \in [meet : Nat, mposts : SUBSET Mposts, cached : SUBSET Mposts]
        BY DEF TypeOK
      <4> QED
        BY <2>2, <4>1
    <3>2. warm \subseteq [meet : Nat, mposts : SUBSET Mposts, cached : SUBSET Mposts]
      BY DEF TypeOK
    <3> QED
      BY <2>1, <3>1, <3>2
  <2>4. pooled' \subseteq Mposts \X Nat
    BY <2>1, <2>2 DEF TypeOK
  <2> QED
    BY <1>9, <1>10, <2>3, <2>4 DEF AssignToWarmMeet, TypeOK
<1>11. ASSUME NEW m \in todo, AttachToRawClusters(m) PROVE TypeOK'
  <2>1. raw' \subseteq SUBSET Mposts
    BY <1>11 DEF AttachToRawClusters, AttachedClusters, TypeOK
  <2> QED
    BY <1>9, <1>11, <2>1 DEF AttachToRawClusters, TypeOK
<1>12. ASSUME NEW m \in todo, AssignToColdMeet(m) PROVE TypeOK'
  <2>1. pooled' \subseteq Mposts \X Nat
    BY <1>12, MeetsAreNumbered DEF AssignToColdMeet, BestFits, RowMembers, TypeOK
  <2> QED
    BY <1>9, <1>12, <2>1 DEF AssignToColdMeet, TypeOK
<1>13. ASSUME NEW m \in todo, CreateOrphanMeet(m) PROVE TypeOK'
  BY <1>9, <1>13 DEF CreateOrphanMeet, TypeOK
<1>14. ASSUME NEW m \in todo, CreateRawCluster(m) PROVE TypeOK'
  BY <1>9, <1>14 DEF CreateRawCluster, TypeOK
<1>15. CASE PendingDone
  BY <1>15 DEF PendingDone, TypeOK
<1>16. ASSUME NEW M \in MeetIds, FlushMeet(M) PROVE TypeOK'
  <2>1. SameClusters
    BY <1>16, SavedThroughKeyClusters DEF FlushMeet, PooledFor
  <2>2. M \in Nat
    BY MeetsAreNumbered
  <2> QED
    BY <1>16, <2>1, <2>2 DEF FlushMeet, SameClusters, TypeOK
<1>17. CASE FlushDone
  BY <1>17 DEF FlushDone, TypeOK
<1>18. ASSUME NEW k \in 1..4, NEW m \in groups, ProcessGroup(k, HostMeet[m]) PROVE TypeOK'
  <2>1. HostMeet[m] \in Nat
    BY DataAssumption DEF DataAssumption, TypeOK
  <2>2. Group(k, HostMeet[m]) \subseteq Mposts
    BY DEF Group, TypeOK
  <2> QED
    BY <1>18, <2>1, <2>2 DEF ProcessGroup, TypeOK
<1>19. CASE GroupsDone
  BY <1>19 DEF GroupsDone, TypeOK
<1>30. ASSUME NEW m \in rejected, PutBack(m) PROVE TypeOK'
  BY <1>30 DEF PutBack, TypeOK, Modes
<1>20. ASSUME NEW c \in raw, DiscardCluster(c) PROVE TypeOK'
  BY <1>20 DEF DiscardCluster, TypeOK
<1>21. ASSUME NEW c \in raw, SkipCluster(c) PROVE TypeOK'
  BY <1>21 DEF SkipCluster, TypeOK
<1>22. ASSUME NEW c \in raw, CreateMeetFrom(c) PROVE TypeOK'
  <2>0. PICK g \in SeededSets(c) : \E P \in SplitsOf(c \ g) :
          /\ raw' = (raw \ {c}) \union P
          /\ warm' = warm \union {[meet |-> meetCount + 1, mposts |-> g, cached |-> g]}
          /\ meetOf' = [m \in Mposts |-> IF m \in g THEN meetCount + 1 ELSE meetOf[m]]
    BY <1>22 DEF CreateMeetFrom
  <2>1. PICK P \in SplitsOf(c \ g) :
          /\ raw' = (raw \ {c}) \union P
          /\ warm' = warm \union {[meet |-> meetCount + 1, mposts |-> g, cached |-> g]}
          /\ meetOf' = [m \in Mposts |-> IF m \in g THEN meetCount + 1 ELSE meetOf[m]]
    BY <2>0
  <2>2. g \subseteq Mposts /\ P \subseteq SUBSET Mposts
    BY DEF SeededSets, SplitsOf, TypeOK
  <2>3. meetCount + 1 \in Nat
    BY DEF TypeOK
  <2>4. warm' \subseteq [meet : Nat, mposts : SUBSET Mposts, cached : SUBSET Mposts] /\ raw' \subseteq SUBSET Mposts
    BY <2>1, <2>2, <2>3 DEF TypeOK
  <2>5. meetOf' \in [Mposts -> Nat]
    BY <2>1, <2>3 DEF TypeOK
  <2> QED
    BY <1>22, <2>3, <2>4, <2>5 DEF CreateMeetFrom, TypeOK
<1>23. CASE ReleaseColdMeets
  BY <1>23 DEF ReleaseColdMeets, TypeOK
<1>24. CASE RaiseOnScore
  <2>1. Abort /\ UNCHANGED <<meetOf, raw, warm>>
    BY <1>24 DEF RaiseOnScore
  <2>2. faults' \in Nat
    BY <1>24 DEF RaiseOnScore, TypeOK
  <2>3. meetOf' \in [Mposts -> Nat] /\ raw' \subseteq SUBSET Mposts
    BY <2>1 DEF TypeOK
  <2>4. SameClusters
    BY <2>1, SameClustersStill
  <2> QED
    BY <2>1, <2>2, <2>3, <2>4, AbortTypes
<1>25. CASE RaiseAnywhere
  <2>1. Abort /\ UNCHANGED <<meetOf, raw, warm>>
    BY <1>25 DEF RaiseAnywhere
  <2>2. faults' \in Nat
    BY <1>25 DEF RaiseAnywhere, Fault, TypeOK
  <2>3. meetOf' \in [Mposts -> Nat] /\ raw' \subseteq SUBSET Mposts
    BY <2>1 DEF TypeOK
  <2>4. SameClusters
    BY <2>1, SameClustersStill
  <2> QED
    BY <2>1, <2>2, <2>3, <2>4, AbortTypes
<1>26. ASSUME NEW M \in MeetIds, RaiseInFlush(M) PROVE TypeOK'
  <2>1. M \in Nat
    BY MeetsAreNumbered
  <2>2. Abort /\ faults' \in Nat /\ UNCHANGED raw
    BY <1>26 DEF RaiseInFlush, Fault, TypeOK
  <2>3. PICK S \in SUBSET PooledFor(M) :
          /\ meetOf' = [m \in Mposts |-> IF m \in S THEN M ELSE meetOf[m]]
          /\ SavedThroughKey(M, S)
    BY <1>26 DEF RaiseInFlush
  <2>4. meetOf' \in [Mposts -> Nat]
    BY <2>1, <2>3 DEF TypeOK
  <2>5. SameClusters
    BY <2>3, SavedThroughKeyClusters DEF PooledFor
  <2> QED
    BY <2>2, <2>4, <2>5, AbortTypes DEF TypeOK
<1>27. ASSUME NEW c \in raw, RaiseAfterSplit(c) PROVE TypeOK'
  <2>1. PICK g \in SeededSets(c) : \E P \in SplitsOf(c \ g) : raw' = (raw \ {c}) \union P \union {g}
    BY <1>27 DEF RaiseAfterSplit
  <2>2. raw' \subseteq SUBSET Mposts
    BY <2>1 DEF SeededSets, SplitsOf, TypeOK
  <2>3. Abort /\ faults' \in Nat /\ UNCHANGED <<meetOf, warm>>
    BY <1>27 DEF RaiseAfterSplit, Fault, TypeOK
  <2> QED
    BY <2>2, <2>3, AbortTypes, SameClustersStill DEF TypeOK
<1>28. CASE Crash
  <2>1. InMemory \subseteq Mposts
    BY DEF TypeOK, InMemory, Pooled, OnlyLocal, QueuedIn
  <2>2. lost' \subseteq Mposts /\ crashes' \in Nat
    BY <1>28, <2>1 DEF Crash, TypeOK
  <2>3. jobs' \in Seq(Jobs)
    BY <1>28 DEF Crash
  <2> QED
    BY <1>28, <2>2, <2>3 DEF Crash, TypeOK
<1>29. CASE UNCHANGED vars
  BY <1>29 DEF vars, TypeOK
<1> QED
  BY <1>1, <1>2, <1>3, <1>4, <1>5, <1>6, <1>7, <1>8, <1>10, <1>11, <1>12, <1>13,
     <1>14, <1>15, <1>16, <1>17, <1>18, <1>19, <1>20, <1>21, <1>22, <1>23, <1>24,
     <1>25, <1>26, <1>27, <1>28, <1>29, <1>30 DEF Next, Environment, ProcessThread, Failure

\* Every variable of the pipeline keeps its type, whatever is posted.
THEOREM TypeCorrect == Spec => []TypeOK
<1>1. Init => TypeOK
  <2>1. SUFFICES ASSUME Init PROVE TypeOK
    OBVIOUS
  <2>2. jobs \in Seq(Jobs)
    BY <2>1 DEF Init
  <2>3. meetOf \in [Mposts -> Nat] /\ mode \in [Mposts -> Modes]
    BY <2>1, DataAssumption DEF Init, DataAssumption, NoMeet
  <2> QED
    BY <2>1, <2>2, <2>3 DEF Init, TypeOK
<1>2. TypeOK /\ [Next]_vars => TypeOK'
  BY TypeStep
<1> QED
  BY <1>1, <1>2, PTL DEF Spec

-----------------------------------------------------------------------------
(* Nothing is forgotten.                                                   *)

\* A meet that a mpost fits is one of the meets it was scored against.
LEMMA BestFitsExist ==
  ASSUME TypeOK, Inventory, NEW m
  PROVE  /\ \A M \in BestFits(WarmMembers, m) : M \in MeetIds
         /\ \A M \in BestFits(RowMembers, m) : M \in MeetIds
BY DEF Inventory, BestFits, WarmMembers, RowMembers, WarmMeets

\* A member of @pooled_mposts is a mpost and the meet it is pooled for.
LEMMA PooledPairs ==
  ASSUME TypeOK, NEW p \in pooled
  PROVE  p = <<p[1], p[2]>> /\ p[1] \in Mposts /\ p[1] \in PooledFor(p[2])
<1>1. p \in Mposts \X Nat
  BY DEF TypeOK
<1>2. p = <<p[1], p[2]>> /\ p[1] \in Mposts
  BY <1>1
<1> QED
  BY <1>2 DEF PooledFor

\* Pooling one mpost adds that mpost and no other.
LEMMA PooledAdd ==
  ASSUME NEW m, NEW M, pooled' = pooled \union {<<m, M>>}
  PROVE  Pooled' = Pooled \union {m}
<1>1. Pooled' \subseteq Pooled \union {m}
  BY DEF Pooled
<1>2. Pooled \subseteq Pooled'
  BY DEF Pooled
<1>3. m \in Pooled'
  <2>1. <<m, M>> \in pooled' /\ <<m, M>>[1] = m
    OBVIOUS
  <2> QED
    BY <2>1 DEF Pooled
<1> QED
  BY <1>1, <1>2, <1>3

\* Splitting a cluster keeps every mpost.
LEMMA SplitCovers ==
  ASSUME NEW c, NEW g \in SeededSets(c), NEW P \in SplitsOf(c \ g)
  PROVE  c = g \union UNION P /\ g # {}
BY DEF SeededSets, SplitsOf

\* Once settled, a mpost stays settled.
LEMMA SettledStays ==
  ASSUME TypeOK, Inventory, [Next]_vars, NEW x \in Mposts, Settled(x)
  PROVE  Settled(x)'
<1> USE DEF dbVars, poolVars, localVars, queueVars, jobVars, endVars, faultVars
<1>1. CASE UNCHANGED <<meetOf, discarded, absorbed>>
  BY <1>1 DEF Settled
<1>2. ASSUME NEW m \in todo, CreateOrphanMeet(m) PROVE Settled(x)'
  BY <1>2 DEF CreateOrphanMeet, Settled, TypeOK, NoMeet
<1>3. ASSUME NEW M \in MeetIds, FlushMeet(M) PROVE Settled(x)'
  BY <1>3 DEF FlushMeet, Settled, TypeOK, NoMeet, MeetIds
<1>4. ASSUME NEW k \in 1..4, NEW m \in groups, ProcessGroup(k, HostMeet[m]) PROVE Settled(x)'
  <2>1. HostMeet[m] # NoMeet
    BY DataAssumption DEF DataAssumption, NoMeet, TypeOK
  <2> QED
    BY <1>4, <2>1 DEF ProcessGroup, Settled, TypeOK
<1>5. ASSUME NEW c \in raw, DiscardCluster(c) PROVE Settled(x)'
  BY <1>5 DEF DiscardCluster, Settled
<1>6. ASSUME NEW c \in raw, CreateMeetFrom(c) PROVE Settled(x)'
  BY <1>6 DEF CreateMeetFrom, Settled, TypeOK, NoMeet
<1>7. ASSUME NEW M \in MeetIds, RaiseInFlush(M) PROVE Settled(x)'
  BY <1>7 DEF RaiseInFlush, Abort, Settled, TypeOK, NoMeet, MeetIds
<1>8. ASSUME NEW m \in Mposts, Post(m) \/ Deliver(m) PROVE UNCHANGED <<meetOf, discarded, absorbed>>
  BY <1>8 DEF Post, Deliver
<1>9. CASE Timer \/ ProcessMpost \/ ProcessMeets \/ SkipProcessMeets
  BY <1>1, <1>9 DEF Timer, ProcessMpost, ProcessMeets, SkipProcessMeets
<1>10. ASSUME NEW m \in todo, SkipProcessed(m) \/ CollectHostMode(m) \/ AssignToWarmMeet(m)
                               \/ AttachToRawClusters(m) \/ AssignToColdMeet(m) \/ CreateRawCluster(m)
       PROVE  Settled(x)'
  BY <1>1, <1>10 DEF SkipProcessed, CollectHostMode, AssignToWarmMeet, AttachToRawClusters,
                     AssignToColdMeet, CreateRawCluster
<1>11. CASE PendingDone \/ FlushDone \/ GroupsDone \/ ReleaseColdMeets
  BY <1>1, <1>11 DEF PendingDone, FlushDone, GroupsDone, ReleaseColdMeets
<1>12. ASSUME NEW c \in raw, SkipCluster(c) \/ RaiseAfterSplit(c) PROVE Settled(x)'
  BY <1>1, <1>12 DEF SkipCluster, RaiseAfterSplit, Abort
<1>13. CASE RaiseOnScore \/ RaiseAnywhere \/ Crash
  BY <1>1, <1>13 DEF RaiseOnScore, RaiseAnywhere, Crash, Abort
<1>14. CASE UNCHANGED vars
  BY <1>1, <1>14 DEF vars
<1>15. ASSUME NEW m \in rejected, PutBack(m) PROVE Settled(x)'
  BY <1>1, <1>15 DEF PutBack
<1> QED
  BY <1>1, <1>2, <1>3, <1>4, <1>5, <1>6, <1>7, <1>8, <1>9, <1>10, <1>11, <1>12, <1>13, <1>14,
     <1>15
     DEF Next, Environment, ProcessThread, Failure

\* What is left of the pipeline's memory when a job raises.
LEMMA AbortForgetsNobody ==
  ASSUME TypeOK, InventoryInv, Abort, [Next]_vars, SameClusters, UNION raw \subseteq UNION raw'
  PROVE  InventoryInv'
<1> USE DEF queueVars, endVars
<1>1. Inventory'
  BY DEF Abort, InventoryInv, Inventory, MeetIds, SameClusters
<1>2. ASSUME NEW m \in posted', ~Settled(m)'
      PROVE  m \in (delayed \union InMemory \union lost)'
  <2>1. m \in posted /\ m \in Mposts
    BY <1>2 DEF Abort, TypeOK
  <2>2. ~Settled(m)
    BY <1>2, <2>1, SettledStays DEF InventoryInv
  <2>3. m \in delayed \union InMemory \union lost
    BY <2>1, <2>2 DEF InventoryInv, NothingForgotten
  <2>4. /\ delayed' = delayed /\ jobs' = jobs /\ pending' = pending /\ pooled' = pooled
        /\ lost' = lost \union (OnlyLocal \ pending)
    BY DEF Abort
  <2>5. Pooled' = Pooled /\ QueuedIn(jobs)' = QueuedIn(jobs)
    BY <2>4 DEF Pooled, QueuedIn
  <2> QED
    BY <2>3, <2>4, <2>5 DEF InMemory
<1> QED
  BY <1>1, <1>2 DEF InventoryInv, NothingForgotten

\* A step that posts nobody forgets nobody if each place it empties is
\* emptied into another place or into an outcome.
LEMMA PlacesSuffice ==
  ASSUME TypeOK, InventoryInv, [Next]_vars, posted' = posted,
         \A x \in Mposts : x \in delayed \union InMemory \union lost
                          => x \in (delayed \union InMemory \union lost)' \/ Settled(x)'
  PROVE  NothingForgotten'
<1>1. SUFFICES ASSUME NEW x \in posted, ~Settled(x)'
               PROVE  x \in (delayed \union InMemory \union lost)'
  BY DEF NothingForgotten
<1>2. x \in Mposts
  BY DEF TypeOK
<1>3. ~Settled(x)
  BY <1>1, <1>2, SettledStays DEF InventoryInv
<1> QED
  BY <1>1, <1>2, <1>3 DEF InventoryInv, NothingForgotten

\* Every step keeps the inventory: what leaves one place arrives in another,
\* or has an outcome, or is counted lost.
LEMMA InventoryStep ==
  ASSUME TypeOK, InventoryInv, [Next]_vars
  PROVE  InventoryInv'
<1> USE DEF dbVars, poolVars, localVars, queueVars, jobVars, endVars, faultVars
<1> DEFINE Kept == \A x \in Mposts : x \in delayed \union InMemory \union lost
                          => x \in (delayed \union InMemory \union lost)' \/ Settled(x)'
<1>a. Inventory /\ NothingForgotten
  BY DEF InventoryInv
<1>s. \A x \in Mposts : Settled(x) => Settled(x)'
  BY <1>a, SettledStays
<1>k. ASSUME Inventory', posted' = posted, Kept PROVE InventoryInv'
  BY <1>k, PlacesSuffice DEF InventoryInv
<1>q. ASSUME UNCHANGED jobs PROVE QueuedIn(jobs)' = QueuedIn(jobs)
  BY <1>q DEF QueuedIn
<1> HIDE DEF Kept
<1>1. ASSUME NEW m \in Mposts, Post(m) PROVE InventoryInv'
  <2>1. Inventory'
    BY <1>1, <1>a, <1>s DEF Post, Inventory, Reached, Settled, Pooled, MeetIds, TypeOK
  <2>2. InMemory' = InMemory
    BY <1>1, <1>q DEF Post, InMemory, Pooled, OnlyLocal
  <2>3. NothingForgotten'
    BY <1>1, <1>a, <2>2 DEF Post, NothingForgotten, Settled
  <2> QED
    BY <2>1, <2>3 DEF InventoryInv
<1>2. ASSUME NEW m \in Mposts, Deliver(m) PROVE InventoryInv'
  <2>1. Inventory'
    BY <1>2, <1>a DEF Deliver, Inventory, Reached, Settled, Pooled, MeetIds
  <2>2. QueuedIn(jobs)' = QueuedIn(jobs) \union {m}
    <3>1. QueuedIn(Append(jobs, [job |-> "process_mposts", mpost |-> m])) = QueuedIn(jobs) \union {m}
      BY QueueAppend DEF TypeOK
    <3> QED
      BY <1>2, <3>1 DEF Deliver, QueuedIn
  <2>3. InMemory' = InMemory \union {m} /\ delayed \subseteq delayed' \union {m}
    BY <1>2, <2>2 DEF Deliver, InMemory, Pooled, OnlyLocal
  <2>4. Kept
    BY <1>2, <2>3 DEF Deliver, Kept
  <2> QED
    BY <1>2, <1>k, <2>1, <2>4 DEF Deliver
<1>3. CASE Timer
  <2>1. Inventory'
    BY <1>3, <1>a DEF Timer, Inventory, Reached, Settled, Pooled, MeetIds
  <2>2. QueuedIn(jobs)' = QueuedIn(jobs)
    <3>1. clock' \in Nat
      BY <1>3 DEF Timer, TypeOK
    <3>2. QueuedIn(Append(jobs, [job |-> "process_meets", at |-> clock'])) = QueuedIn(jobs)
      BY <3>1, QueueAppend DEF TypeOK
    <3> QED
      BY <1>3, <3>2 DEF Timer, QueuedIn
  <2>3. Kept
    BY <1>3, <2>2 DEF Timer, InMemory, Pooled, OnlyLocal, Kept
  <2> QED
    BY <1>3, <1>k, <2>1, <2>3 DEF Timer
<1>4. CASE ProcessMpost
  <2>1. Inventory'
    BY <1>4, <1>a DEF ProcessMpost, Inventory, Reached, Settled, Pooled, MeetIds
  <2>2. QueuedIn(jobs) = QueuedIn(jobs)' \union {Head(jobs).mpost}
    BY <1>4, QueueTail DEF ProcessMpost, TypeOK, QueuedIn
  <2>3. Kept
    BY <1>4, <2>2 DEF ProcessMpost, InMemory, Pooled, OnlyLocal, Kept
  <2> QED
    BY <1>4, <1>k, <2>1, <2>3 DEF ProcessMpost
<1>5. CASE ProcessMeets
  <2>1. Inventory'
    BY <1>5, <1>a DEF ProcessMeets, Inventory, Reached, Settled, Pooled, MeetIds
  <2>2. QueuedIn(jobs) = QueuedIn(jobs)'
    <3>1. jobs \in Seq(Jobs) /\ jobs # <<>> /\ jobs' = Tail(jobs)
      BY <1>5 DEF ProcessMeets, TypeOK
    <3>2. QueuedIn(jobs) = QueuedIn(Tail(jobs))
      BY <1>5, <3>1, QueueTail DEF ProcessMeets
    <3> QED
      BY <3>1, <3>2 DEF QueuedIn
  <2>3. Kept
    BY <1>5, <2>2 DEF ProcessMeets, InMemory, Pooled, OnlyLocal, Kept
  <2> QED
    BY <1>5, <1>k, <2>1, <2>3 DEF ProcessMeets
<1>6. CASE SkipProcessMeets
  <2>1. Inventory'
    BY <1>6, <1>a DEF SkipProcessMeets, Inventory, Reached, Settled, Pooled, MeetIds
  <2>2. QueuedIn(jobs) = QueuedIn(jobs)'
    <3>1. jobs \in Seq(Jobs) /\ jobs # <<>> /\ jobs' = Tail(jobs)
      BY <1>6 DEF SkipProcessMeets, TypeOK
    <3>2. QueuedIn(jobs) = QueuedIn(Tail(jobs))
      BY <1>6, <3>1, QueueTail DEF SkipProcessMeets
    <3> QED
      BY <3>1, <3>2 DEF QueuedIn
  <2>3. Kept
    BY <1>6, <2>2 DEF SkipProcessMeets, InMemory, Pooled, OnlyLocal, Kept
  <2> QED
    BY <1>6, <1>k, <2>1, <2>3 DEF SkipProcessMeets
<1>7. ASSUME NEW m \in todo, SkipProcessed(m) PROVE InventoryInv'
  <2>1. Inventory'
    BY <1>7, <1>a, <1>s DEF SkipProcessed, Reach, Inventory, Reached, Settled, Pooled, MeetIds, TypeOK
  <2>2. Kept
    BY <1>7, <1>q DEF SkipProcessed, InMemory, Pooled, OnlyLocal, Kept
  <2> QED
    BY <1>7, <1>k, <2>1, <2>2 DEF SkipProcessed
<1>8. ASSUME NEW m \in todo, CollectHostMode(m) PROVE InventoryInv'
  <2>1. Inventory'
    BY <1>8, <1>a, <1>s DEF CollectHostMode, Reach, Inventory, Reached, Settled, Pooled, MeetIds, TypeOK
  <2>2. Kept
    BY <1>8, <1>q DEF CollectHostMode, InMemory, Pooled, OnlyLocal, Kept
  <2> QED
    BY <1>8, <1>k, <2>1, <2>2 DEF CollectHostMode
<1>9. ASSUME NEW m \in todo, AssignToWarmMeet(m) PROVE InventoryInv'
  <2>1. PICK M \in BestFits(WarmMembers, m) :
          /\ pooled' = pooled \union {<<m, M>>}
          /\ warm' = {IF w.meet = M THEN [w EXCEPT !.mposts = @ \union {m}] ELSE w : w \in warm}
    BY <1>9 DEF AssignToWarmMeet
  <2>2. M \in MeetIds
    BY <1>a, BestFitsExist
  <2>3. \A w \in warm' : w.meet \in MeetIds
    BY <2>1, <1>a DEF Inventory, TypeOK
  <2>4. Pooled' = Pooled \union {m}
    BY <2>1, PooledAdd
  <2>5. UNCHANGED <<dbVars, pending, raw, flushed, groups, rejected, queueVars, endVars, faultVars, phase>>
        /\ phase = "pending" /\ todo' = todo \ {m}
    BY <1>9 DEF AssignToWarmMeet, ReachPeer, Reach
  <2>6. Inventory'
    BY <1>a, <1>s, <2>1, <2>2, <2>3, <2>4, <2>5 DEF Inventory, Reached, MeetIds, TypeOK, Settled
  <2>7. Kept
    BY <1>q, <2>4, <2>5 DEF InMemory, OnlyLocal, Kept
  <2> QED
    BY <1>k, <2>5, <2>6, <2>7
<1>10. ASSUME NEW m \in todo, AttachToRawClusters(m) PROVE InventoryInv'
  <2>1. /\ UNCHANGED <<dbVars, pending, warm, pooled, flushed, groups, rejected, queueVars, endVars,
                         faultVars, phase>>
        /\ phase = "pending" /\ todo' = todo \ {m}
    BY <1>10 DEF AttachToRawClusters, ReachPeer, Reach
  <2>2. UNION raw' = (UNION raw) \union {m}
    BY <1>10 DEF AttachToRawClusters, AttachedClusters
  <2>3. Inventory'
    BY <1>a, <1>s, <2>1, <2>2 DEF Inventory, Reached, MeetIds, TypeOK, Settled, Pooled
  <2>4. Kept
    BY <1>q, <2>1, <2>2 DEF InMemory, OnlyLocal, Kept, Pooled
  <2> QED
    BY <1>k, <2>1, <2>3, <2>4
<1>11. ASSUME NEW m \in todo, AssignToColdMeet(m) PROVE InventoryInv'
  <2>1. PICK M \in BestFits(RowMembers, m) : pooled' = pooled \union {<<m, M>>}
    BY <1>11 DEF AssignToColdMeet
  <2>2. M \in MeetIds
    BY <1>a, BestFitsExist
  <2>3. Pooled' = Pooled \union {m}
    BY <2>1, PooledAdd
  <2>4. UNCHANGED <<dbVars, pending, raw, warm, flushed, groups, rejected, queueVars, endVars, faultVars, phase>>
        /\ phase = "pending" /\ todo' = todo \ {m}
    BY <1>11 DEF AssignToColdMeet, ReachPeer, Reach
  <2>5. Inventory'
    BY <1>a, <1>s, <2>1, <2>2, <2>3, <2>4 DEF Inventory, Reached, MeetIds, TypeOK, Settled
  <2>6. Kept
    BY <1>q, <2>3, <2>4 DEF InMemory, OnlyLocal, Kept
  <2> QED
    BY <1>k, <2>4, <2>5, <2>6
<1>12. ASSUME NEW m \in todo, CreateOrphanMeet(m) PROVE InventoryInv'
  <2>1. /\ UNCHANGED <<posted, mode, poolVars, flushed, groups, rejected, queueVars, endVars, faultVars, phase>>
        /\ phase = "pending" /\ todo' = todo \ {m}
        /\ meetCount' = meetCount + 1
        /\ meetOf' = [meetOf EXCEPT ![m] = meetCount + 1]
    BY <1>12 DEF CreateOrphanMeet, ReachPeer, Reach
  <2>2. Settled(m)' /\ m \in Mposts
    BY <2>1 DEF Settled, TypeOK, NoMeet
  <2>3. Inventory'
    BY <1>a, <1>s, <2>1, <2>2 DEF Inventory, Reached, MeetIds, TypeOK, Pooled, NoMeet
  <2>4. Kept
    BY <1>q, <2>1 DEF InMemory, OnlyLocal, Pooled, Kept
  <2> QED
    BY <1>k, <2>1, <2>3, <2>4
<1>13. ASSUME NEW m \in todo, CreateRawCluster(m) PROVE InventoryInv'
  <2>1. /\ UNCHANGED <<dbVars, pending, warm, pooled, flushed, groups, rejected, queueVars, endVars,
                         faultVars, phase>>
        /\ phase = "pending" /\ todo' = todo \ {m}
    BY <1>13 DEF CreateRawCluster, ReachPeer, Reach
  <2>2. UNION raw' = (UNION raw) \union {m}
    BY <1>13 DEF CreateRawCluster
  <2>3. Inventory'
    BY <1>a, <1>s, <2>1, <2>2 DEF Inventory, Reached, MeetIds, TypeOK, Settled, Pooled
  <2>4. Kept
    BY <1>q, <2>1, <2>2 DEF InMemory, OnlyLocal, Kept, Pooled
  <2> QED
    BY <1>k, <2>1, <2>3, <2>4
<1>14. CASE PendingDone
  <2>1. Inventory'
    BY <1>14, <1>a DEF PendingDone, Inventory, MeetIds
  <2>2. pending \subseteq {m \in Mposts : Settled(m)} \union (UNION raw) \union Pooled \union groups
    BY <1>14, <1>a DEF PendingDone, Inventory, Reached
  <2>3. Kept
    BY <1>14, <1>q, <1>s, <2>2 DEF PendingDone, InMemory, OnlyLocal, Pooled, Kept
  <2> QED
    BY <1>14, <1>k, <2>1, <2>3 DEF PendingDone
<1>15. ASSUME NEW M \in MeetIds, FlushMeet(M) PROVE InventoryInv'
  <2>1. \A p \in pooled : p[2] = M => p[1] \in PooledFor(M)
    BY PooledPairs
  <2>2. \A m \in PooledFor(M) : meetOf'[m] # NoMeet
    BY <1>15 DEF FlushMeet, PooledFor, MeetIds, NoMeet
  <2>3. \A m \in Mposts : meetOf[m] # NoMeet => meetOf'[m] # NoMeet
    BY <1>15, <2>2 DEF FlushMeet, TypeOK
  <2>4. Inventory'
    <3>1. SameClusters
      BY <1>15, SavedThroughKeyClusters DEF FlushMeet, PooledFor
    <3>2. \A w \in warm' : w.meet \in MeetIds
      BY <1>a, <3>1 DEF SameClusters, Inventory
    <3> QED
      BY <1>15, <1>a, <2>1, <2>2, <2>3, <3>2 DEF FlushMeet, Inventory, MeetIds, TypeOK
  <2>5. Kept
    BY <1>15, <1>q DEF FlushMeet, InMemory, OnlyLocal, Pooled, Kept
  <2> QED
    BY <1>15, <1>k, <2>4, <2>5 DEF FlushMeet
<1>16. CASE FlushDone
  <2>1. \A p \in pooled : meetOf[p[1]] # NoMeet
    <3>1. \A p \in pooled : p[1] \in PooledFor(p[2]) /\ p[2] \in MeetIds
      BY <1>a, PooledPairs DEF Inventory
    <3> QED
      BY <1>16, <1>a, <3>1 DEF FlushDone, Inventory
  <2>2. \A m \in Pooled : Settled(m)
    BY <2>1 DEF Pooled, Settled
  <2>3. Inventory'
    BY <1>16, <1>a DEF FlushDone, Inventory, MeetIds
  <2>4. Kept
    BY <1>16, <1>q, <1>s, <2>2 DEF FlushDone, InMemory, OnlyLocal, Kept
  <2> QED
    BY <1>16, <1>k, <2>3, <2>4 DEF FlushDone
<1>17. ASSUME NEW k \in 1..4, NEW m \in groups, ProcessGroup(k, HostMeet[m]) PROVE InventoryInv'
  <2> DEFINE M == HostMeet[m]
             taken == {n \in Group(k, M) : Accepts(M, n)}
             joins == IF GroupOrder[k] = "host_owner" THEN {} ELSE taken
  <2>1. /\ UNCHANGED <<posted, meetCount, mode, poolVars, todo, flushed, jobs, delayed, discarded, lost, phase>>
        /\ phase = "groups"
        /\ groups' = groups \ Group(k, M)
        /\ meetOf' = [n \in Mposts |-> IF n \in joins THEN M ELSE meetOf[n]]
        /\ absorbed' = absorbed \union (taken \ joins)
        /\ rejected' = rejected \union (Group(k, M) \ taken)
    BY <1>17 DEF ProcessGroup
  <2>2. M # NoMeet /\ m \in Mposts
    BY DataAssumption DEF DataAssumption, NoMeet, TypeOK
  <2> HIDE DEF M, taken, joins
  <2>3. \A n \in taken : n \in Mposts => Settled(n)'
    BY <2>1, <2>2 DEF Settled
  <2>4. \A n \in Mposts : meetOf[n] # NoMeet => meetOf'[n] # NoMeet
    BY <2>1, <2>2 DEF TypeOK
  <2>5. Inventory'
    BY <1>a, <2>1, <2>4 DEF Inventory, MeetIds, TypeOK
  <2>6. Kept
    BY <1>q, <2>1, <2>3 DEF InMemory, OnlyLocal, Pooled, Kept
  <2> QED
    BY <1>k, <2>1, <2>5, <2>6
<1>18. CASE GroupsDone
  <2>1. Inventory'
    BY <1>18, <1>a DEF GroupsDone, Inventory, MeetIds
  <2>2. Kept
    BY <1>18, <1>q DEF GroupsDone, InMemory, OnlyLocal, Pooled, Kept
  <2> QED
    BY <1>18, <1>k, <2>1, <2>2 DEF GroupsDone
<1>28. ASSUME NEW m \in rejected, PutBack(m) PROVE InventoryInv'
  <2>1. Inventory'
    BY <1>28, <1>a DEF PutBack, Inventory, MeetIds
  <2>2. Kept
    BY <1>28, <1>q DEF PutBack, InMemory, OnlyLocal, Pooled, Kept
  <2> QED
    BY <1>28, <1>k, <2>1, <2>2 DEF PutBack
<1>19. ASSUME NEW c \in raw, DiscardCluster(c) PROVE InventoryInv'
  <2>1. phase = "raw"
    BY <1>19 DEF DiscardCluster, Visit
  <2>2. Inventory'
    BY <1>19, <1>a, <2>1 DEF DiscardCluster, Inventory, MeetIds
  <2>3. (UNION raw) \subseteq (UNION raw') \union c /\ \A x \in c : Settled(x)'
    BY <1>19 DEF DiscardCluster, Settled
  <2>4. Kept
    BY <1>19, <1>q, <2>3 DEF DiscardCluster, InMemory, OnlyLocal, Pooled, Kept
  <2> QED
    BY <1>19, <1>k, <2>2, <2>4 DEF DiscardCluster
<1>20. ASSUME NEW c \in raw, SkipCluster(c) PROVE InventoryInv'
  <2>1. Inventory'
    BY <1>20, <1>a DEF SkipCluster, Visit, Inventory, MeetIds
  <2>2. Kept
    BY <1>20, <1>q DEF SkipCluster, InMemory, OnlyLocal, Pooled, Kept
  <2> QED
    BY <1>20, <1>k, <2>1, <2>2 DEF SkipCluster
<1>21. ASSUME NEW c \in raw, CreateMeetFrom(c) PROVE InventoryInv'
  <2>1. PICK g \in SeededSets(c) : \E P \in SplitsOf(c \ g) :
          /\ raw' = (raw \ {c}) \union P
          /\ warm' = warm \union {[meet |-> meetCount + 1, mposts |-> g, cached |-> g]}
          /\ meetOf' = [m \in Mposts |-> IF m \in g THEN meetCount + 1 ELSE meetOf[m]]
    BY <1>21 DEF CreateMeetFrom
  <2>2. PICK P \in SplitsOf(c \ g) :
          /\ raw' = (raw \ {c}) \union P
          /\ warm' = warm \union {[meet |-> meetCount + 1, mposts |-> g, cached |-> g]}
          /\ meetOf' = [m \in Mposts |-> IF m \in g THEN meetCount + 1 ELSE meetOf[m]]
    BY <2>1
  <2>3. /\ meetCount' = meetCount + 1 /\ phase = "raw"
        /\ UNCHANGED <<posted, mode, pending, pooled, todo, flushed, groups, rejected, queueVars, endVars,
                        faultVars, phase>>
    BY <1>21 DEF CreateMeetFrom, Visit
  <2>4. \A m \in g : m \in Mposts => Settled(m)'
    BY <2>2 DEF Settled, NoMeet, TypeOK
  <2>5. UNION raw \subseteq (UNION raw') \union g
    BY <2>2, SplitCovers
  <2>6. \A w \in warm' : w.meet \in 1..(meetCount + 1)
    BY <1>a, <2>2 DEF Inventory, MeetIds, TypeOK
  <2>7. Inventory'
    BY <1>a, <2>3, <2>6 DEF Inventory, MeetIds, TypeOK
  <2>8. Kept
    BY <1>q, <2>3, <2>4, <2>5 DEF InMemory, OnlyLocal, Pooled, Kept
  <2> QED
    BY <1>k, <2>3, <2>7, <2>8
<1>22. CASE ReleaseColdMeets
  <2>1. Inventory'
    BY <1>22, <1>a DEF ReleaseColdMeets, Inventory, MeetIds
  <2>2. Kept
    BY <1>22, <1>q DEF ReleaseColdMeets, InMemory, OnlyLocal, Pooled, Kept
  <2> QED
    BY <1>22, <1>k, <2>1, <2>2 DEF ReleaseColdMeets
<1>23. CASE RaiseOnScore \/ RaiseAnywhere
  BY <1>23, AbortForgetsNobody, SameClustersStill DEF RaiseOnScore, RaiseAnywhere
<1>24. ASSUME NEW M \in MeetIds, RaiseInFlush(M) PROVE InventoryInv'
  <2>1. SameClusters
    BY <1>24, SavedThroughKeyClusters DEF RaiseInFlush, PooledFor
  <2> QED
    BY <1>24, <2>1, AbortForgetsNobody DEF RaiseInFlush
<1>25. ASSUME NEW c \in raw, RaiseAfterSplit(c) PROVE InventoryInv'
  <2>1. PICK g \in SeededSets(c) : \E P \in SplitsOf(c \ g) : raw' = (raw \ {c}) \union P \union {g}
    BY <1>25 DEF RaiseAfterSplit
  <2>2. UNION raw \subseteq UNION raw'
    BY <2>1, SplitCovers
  <2> QED
    BY <1>25, <2>2, AbortForgetsNobody, SameClustersStill DEF RaiseAfterSplit
<1>26. CASE Crash
  <2>1. Inventory'
    BY <1>26 DEF Crash, Inventory, MeetIds
  <2>2. Kept
    BY <1>26, <1>s DEF Crash, Settled, Kept
  <2> QED
    BY <1>26, <1>k, <2>1, <2>2 DEF Crash
<1>27. CASE UNCHANGED vars
  BY <1>27, <1>a DEF vars, InventoryInv, Inventory, NothingForgotten, Reached, Settled, Pooled, MeetIds,
     InMemory, OnlyLocal, QueuedIn
<1> QED
  BY <1>1, <1>2, <1>3, <1>4, <1>5, <1>6, <1>7, <1>8, <1>9, <1>10, <1>11, <1>12, <1>13,
     <1>14, <1>15, <1>16, <1>17, <1>18, <1>19, <1>20, <1>21, <1>22, <1>23, <1>24, <1>25,
     <1>26, <1>27, <1>28 DEF Next, Environment, ProcessThread, Failure

\* Whatever raises, crashes, is lost or delivered twice: a posted mpost has an
\* outcome, or is still in a delayed job, in the queue or in the pool, or is
\* one of those counted lost.
THEOREM NothingIsForgotten == Spec => []NothingForgotten
<1>1. Init => InventoryInv
  BY DEF Init, InventoryInv, Inventory, NothingForgotten
<1>2. TypeOK /\ InventoryInv /\ [Next]_vars => InventoryInv'
  BY InventoryStep
<1>3. InventoryInv => NothingForgotten
  BY DEF InventoryInv
<1> QED
  BY <1>1, <1>2, <1>3, TypeCorrect, PTL DEF Spec

-----------------------------------------------------------------------------
(* Exceptions lose no mpost of peer mode.                                  *)

\* A raising job loses host and join mposts only.
LEMMA AbortLosesNoPeer ==
  ASSUME TypeOK, HostModeStays, ExceptionsLoseNoPeer, Abort
  PROVE  HostModeStays' /\ ExceptionsLoseNoPeer'
BY DEF Abort, HostModeStays, ExceptionsLoseNoPeer, OnlyLocal

\* A mpost posted in peer mode stays in peer mode and out of the groups.
LEMMA HostModeStep ==
  ASSUME TypeOK, HostModeStays, ExceptionsLoseNoPeer, [Next]_vars
  PROVE  HostModeStays' /\ ExceptionsLoseNoPeer'
<1> USE DEF dbVars, poolVars, localVars, queueVars, jobVars, endVars, faultVars
<1> DEFINE Inv == HostModeStays /\ ExceptionsLoseNoPeer
<1>1. CASE UNCHANGED <<mode, groups, rejected, lost, crashes>>
  BY <1>1 DEF HostModeStays, ExceptionsLoseNoPeer
<1>2. ASSUME NEW m \in todo, CollectHostMode(m) PROVE Inv'
  BY <1>2 DEF CollectHostMode, HostModeStays, ExceptionsLoseNoPeer, TypeOK
<1>3. ASSUME NEW k \in 1..4, NEW m \in groups, ProcessGroup(k, HostMeet[m]) PROVE Inv'
  BY <1>3 DEF ProcessGroup, Group, HostModeStays, ExceptionsLoseNoPeer
<1>4. ASSUME NEW m \in rejected, PutBack(m) PROVE Inv'
  BY <1>4 DEF PutBack, HostModeStays, ExceptionsLoseNoPeer, TypeOK
<1>5. CASE RaiseOnScore \/ RaiseAnywhere
  BY <1>5, AbortLosesNoPeer DEF RaiseOnScore, RaiseAnywhere
<1>6. ASSUME NEW M \in MeetIds, RaiseInFlush(M) PROVE Inv'
  BY <1>6, AbortLosesNoPeer DEF RaiseInFlush
<1>7. ASSUME NEW c \in raw, RaiseAfterSplit(c) PROVE Inv'
  BY <1>7, AbortLosesNoPeer DEF RaiseAfterSplit
<1>8. CASE Crash
  BY <1>8 DEF Crash, HostModeStays, ExceptionsLoseNoPeer, TypeOK
<1>9. ASSUME NEW m \in Mposts, Post(m) \/ Deliver(m) PROVE Inv'
  BY <1>1, <1>9 DEF Post, Deliver
<1>10. CASE Timer \/ ProcessMpost \/ ProcessMeets \/ SkipProcessMeets
  BY <1>1, <1>10 DEF Timer, ProcessMpost, ProcessMeets, SkipProcessMeets
<1>11. ASSUME NEW m \in todo, SkipProcessed(m) \/ AssignToWarmMeet(m) \/ AttachToRawClusters(m)
                               \/ AssignToColdMeet(m) \/ CreateOrphanMeet(m) \/ CreateRawCluster(m)
       PROVE  Inv'
  BY <1>1, <1>11 DEF SkipProcessed, AssignToWarmMeet, AttachToRawClusters, AssignToColdMeet,
                     CreateOrphanMeet, CreateRawCluster
<1>12. CASE PendingDone \/ FlushDone \/ GroupsDone \/ ReleaseColdMeets \/ UNCHANGED vars
  BY <1>1, <1>12 DEF PendingDone, FlushDone, GroupsDone, ReleaseColdMeets, vars
<1>13. ASSUME NEW M \in MeetIds, FlushMeet(M) PROVE Inv'
  BY <1>1, <1>13 DEF FlushMeet
<1>14. ASSUME NEW c \in raw, DiscardCluster(c) \/ SkipCluster(c) \/ CreateMeetFrom(c) PROVE Inv'
  BY <1>1, <1>14 DEF DiscardCluster, SkipCluster, CreateMeetFrom
<1> QED
  BY <1>1, <1>2, <1>3, <1>4, <1>5, <1>6, <1>7, <1>8, <1>9, <1>10, <1>11, <1>12, <1>13, <1>14
     DEF Next, Environment, ProcessThread, Failure

\* An exception in the process thread may lose host and join mposts, which
\* only the job's local variables hold, but never one posted in peer mode.
THEOREM PeersSurviveExceptions == Spec => []ExceptionsLoseNoPeer
<1>1. Init => HostModeStays /\ ExceptionsLoseNoPeer
  BY DEF Init, HostModeStays, ExceptionsLoseNoPeer
<1>2. TypeOK /\ HostModeStays /\ ExceptionsLoseNoPeer /\ [Next]_vars
        => HostModeStays' /\ ExceptionsLoseNoPeer'
  BY HostModeStep
<1> QED
  BY <1>1, <1>2, TypeCorrect, PTL DEF Spec

-----------------------------------------------------------------------------
(* Every place holds posted mposts only.                                   *)

\* A raising job leaves posted mposts only in the places it keeps.
LEMMA AbortOnlyPosted ==
  ASSUME TypeOK, OnlyPosted, Abort, UNION raw' \subseteq UNION raw,
         \A m \in Mposts : meetOf'[m] # NoMeet => m \in posted
  PROVE  OnlyPosted'
<1> USE DEF queueVars, endVars
<1>1. QueuedIn(jobs)' = QueuedIn(jobs) /\ Pooled' = Pooled
  BY DEF Abort, QueuedIn, Pooled
<1> QED
  BY <1>1 DEF Abort, OnlyPosted, InMemory, OnlyLocal

\* No step puts a mpost anywhere before it is posted.
LEMMA OnlyPostedStep ==
  ASSUME TypeOK, InventoryInv, OnlyPosted, [Next]_vars
  PROVE  OnlyPosted'
<1> USE DEF dbVars, poolVars, localVars, queueVars, jobVars, endVars, faultVars
<1>a. Inventory
  BY DEF InventoryInv
<1>q. ASSUME UNCHANGED jobs PROVE QueuedIn(jobs)' = QueuedIn(jobs)
  BY <1>q DEF QueuedIn
<1>u. ASSUME UNCHANGED pooled PROVE Pooled' = Pooled
  BY <1>u DEF Pooled
<1>1. ASSUME NEW m \in Mposts, Post(m) PROVE OnlyPosted'
  BY <1>1, <1>q, <1>u DEF Post, OnlyPosted, InMemory, OnlyLocal
<1>2. ASSUME NEW m \in Mposts, Deliver(m) PROVE OnlyPosted'
  <2>1. QueuedIn(Append(jobs, [job |-> "process_mposts", mpost |-> m])) = QueuedIn(jobs) \union {m}
    BY QueueAppend DEF TypeOK
  <2>2. QueuedIn(jobs)' = QueuedIn(jobs) \union {m}
    BY <1>2, <2>1 DEF Deliver, QueuedIn
  <2> QED
    BY <1>2, <1>u, <2>2 DEF Deliver, OnlyPosted, InMemory, OnlyLocal, TypeOK
<1>3. CASE Timer
  <2>1. clock' \in Nat
    BY <1>3 DEF Timer, TypeOK
  <2>2. QueuedIn(Append(jobs, [job |-> "process_meets", at |-> clock'])) = QueuedIn(jobs)
    BY <2>1, QueueAppend DEF TypeOK
  <2>3. QueuedIn(jobs)' = QueuedIn(jobs)
    BY <1>3, <2>2 DEF Timer, QueuedIn
  <2> QED
    BY <1>3, <1>u, <2>3 DEF Timer, OnlyPosted, InMemory, OnlyLocal
<1>4. CASE ProcessMpost
  <2>1. QueuedIn(jobs) = QueuedIn(jobs)' \union {Head(jobs).mpost}
    BY <1>4, QueueTail DEF ProcessMpost, TypeOK, QueuedIn
  <2> QED
    BY <1>4, <1>u, <2>1 DEF ProcessMpost, OnlyPosted, InMemory, OnlyLocal
<1>5. CASE ProcessMeets \/ SkipProcessMeets
  <2>1. QueuedIn(jobs) = QueuedIn(jobs)'
    <3>1. jobs # <<>> /\ Head(jobs).job = "process_meets" /\ jobs' = Tail(jobs)
      BY <1>5 DEF ProcessMeets, SkipProcessMeets
    <3>2. QueuedIn(jobs) = QueuedIn(Tail(jobs))
      BY <3>1, QueueTail DEF TypeOK
    <3> QED
      BY <3>1, <3>2
  <2> QED
    BY <1>5, <1>u, <2>1 DEF ProcessMeets, SkipProcessMeets, OnlyPosted, InMemory, OnlyLocal
<1>6. ASSUME NEW m \in todo, SkipProcessed(m) \/ CollectHostMode(m) PROVE OnlyPosted'
  <2>1. m \in pending
    BY <1>a DEF Inventory
  <2> QED
    BY <1>6, <1>q, <1>u, <2>1 DEF SkipProcessed, CollectHostMode, OnlyPosted, InMemory, OnlyLocal
<1>7. ASSUME NEW m \in todo, AssignToWarmMeet(m) \/ AssignToColdMeet(m) PROVE OnlyPosted'
  <2>1. m \in posted
    BY <1>a DEF Inventory, OnlyPosted, InMemory
  <2>2. \E M : pooled' = pooled \union {<<m, M>>}
    BY <1>7 DEF AssignToWarmMeet, AssignToColdMeet
  <2>3. Pooled' = Pooled \union {m}
    BY <2>2, PooledAdd
  <2> QED
    BY <1>7, <1>q, <2>1, <2>3 DEF AssignToWarmMeet, AssignToColdMeet, OnlyPosted, InMemory, OnlyLocal
<1>8. ASSUME NEW m \in todo, AttachToRawClusters(m) \/ CreateRawCluster(m) PROVE OnlyPosted'
  <2>1. m \in posted
    BY <1>a DEF Inventory, OnlyPosted, InMemory
  <2>2. UNION raw' = (UNION raw) \union {m}
    <3>1. CASE AttachToRawClusters(m)
      BY <3>1 DEF AttachToRawClusters, AttachedClusters
    <3>2. CASE CreateRawCluster(m)
      BY <3>2 DEF CreateRawCluster
    <3> QED
      BY <1>8, <3>1, <3>2
  <2> QED
    BY <1>8, <1>q, <1>u, <2>1, <2>2
       DEF AttachToRawClusters, CreateRawCluster, OnlyPosted, InMemory, OnlyLocal
<1>9. ASSUME NEW m \in todo, CreateOrphanMeet(m) PROVE OnlyPosted'
  <2>1. m \in posted
    BY <1>a DEF Inventory, OnlyPosted, InMemory
  <2> QED
    BY <1>9, <1>q, <1>u, <2>1 DEF CreateOrphanMeet, OnlyPosted, InMemory, OnlyLocal, TypeOK
<1>10. CASE PendingDone \/ GroupsDone \/ ReleaseColdMeets
  BY <1>10, <1>q, <1>u DEF PendingDone, GroupsDone, ReleaseColdMeets, OnlyPosted, InMemory, OnlyLocal
<1>22. ASSUME NEW m \in rejected, PutBack(m) PROVE OnlyPosted'
  BY <1>22, <1>q, <1>u DEF PutBack, OnlyPosted, InMemory, OnlyLocal
<1>11. ASSUME NEW M \in MeetIds, FlushMeet(M) PROVE OnlyPosted'
  <2>1. PooledFor(M) \subseteq posted
    <3>1. PooledFor(M) \subseteq Pooled
      <4>1. ASSUME NEW m \in PooledFor(M) PROVE m \in Pooled
        <5>1. <<m, M>> \in pooled /\ <<m, M>>[1] = m
          BY DEF PooledFor
        <5> QED
          BY <5>1 DEF Pooled
      <4> QED
        BY <4>1
    <3> QED
      BY <3>1 DEF OnlyPosted, InMemory
  <2> QED
    BY <1>11, <1>q, <1>u, <2>1 DEF FlushMeet, OnlyPosted, InMemory, OnlyLocal, TypeOK
<1>12. CASE FlushDone
  BY <1>12, <1>q DEF FlushDone, OnlyPosted, InMemory, OnlyLocal, Pooled
<1>13. ASSUME NEW k \in 1..4, NEW m \in groups, ProcessGroup(k, HostMeet[m]) PROVE OnlyPosted'
  <2> DEFINE group == Group(k, HostMeet[m])
             taken == {n \in group : Accepts(HostMeet[m], n)}
             joins == IF GroupOrder[k] = "host_owner" THEN {} ELSE taken
  <2>1. group \subseteq groups /\ taken \subseteq group /\ joins \subseteq taken
    BY DEF Group
  <2>2. groups \subseteq posted
    BY DEF OnlyPosted, InMemory, OnlyLocal
  <2>3. /\ UNCHANGED <<posted, pending, raw, pooled, jobs, discarded>>
        /\ groups' = groups \ group
        /\ meetOf' = [n \in Mposts |-> IF n \in joins THEN HostMeet[m] ELSE meetOf[n]]
        /\ absorbed' = absorbed \union (taken \ joins)
        /\ rejected' = rejected \union (group \ taken)
    BY <1>13 DEF ProcessGroup
  <2> HIDE DEF group, taken, joins
  <2> QED
    BY <1>q, <1>u, <2>1, <2>2, <2>3 DEF OnlyPosted, InMemory, OnlyLocal, TypeOK
<1>14. ASSUME NEW c \in raw, DiscardCluster(c) PROVE OnlyPosted'
  <2>1. UNION raw' \subseteq UNION raw /\ c \subseteq UNION raw
    BY <1>14 DEF DiscardCluster
  <2> QED
    BY <1>14, <1>q, <1>u, <2>1 DEF DiscardCluster, OnlyPosted, InMemory, OnlyLocal
<1>15. ASSUME NEW c \in raw, SkipCluster(c) PROVE OnlyPosted'
  BY <1>15, <1>q, <1>u DEF SkipCluster, OnlyPosted, InMemory, OnlyLocal
<1>16. ASSUME NEW c \in raw, CreateMeetFrom(c) PROVE OnlyPosted'
  <2>1. PICK g \in SeededSets(c) : \E P \in SplitsOf(c \ g) :
          /\ raw' = (raw \ {c}) \union P
          /\ meetOf' = [m \in Mposts |-> IF m \in g THEN meetCount + 1 ELSE meetOf[m]]
    BY <1>16 DEF CreateMeetFrom
  <2>2. PICK P \in SplitsOf(c \ g) :
          /\ raw' = (raw \ {c}) \union P
          /\ meetOf' = [m \in Mposts |-> IF m \in g THEN meetCount + 1 ELSE meetOf[m]]
    BY <2>1
  <2>3. g \subseteq UNION raw /\ UNION raw' \subseteq UNION raw
    BY <2>2, SplitCovers
  <2>4. UNCHANGED <<posted, pending, pooled, groups, rejected, jobs, discarded, absorbed>>
    BY <1>16 DEF CreateMeetFrom
  <2> QED
    BY <1>q, <1>u, <2>2, <2>3, <2>4 DEF OnlyPosted, InMemory, OnlyLocal, TypeOK
<1>17. CASE RaiseOnScore \/ RaiseAnywhere
  BY <1>17, AbortOnlyPosted DEF RaiseOnScore, RaiseAnywhere, OnlyPosted
<1>18. ASSUME NEW M \in MeetIds, RaiseInFlush(M) PROVE OnlyPosted'
  <2>1. PICK S \in SUBSET PooledFor(M) :
          meetOf' = [m \in Mposts |-> IF m \in S THEN M ELSE meetOf[m]]
    BY <1>18 DEF RaiseInFlush
  <2>2. ASSUME NEW m \in S PROVE m \in posted
    <3>1. <<m, M>> \in pooled /\ <<m, M>>[1] = m
      BY DEF PooledFor
    <3>2. m \in Pooled
      BY <3>1 DEF Pooled
    <3> QED
      BY <3>2 DEF OnlyPosted, InMemory
  <2> QED
    BY <1>18, <2>1, <2>2, AbortOnlyPosted DEF RaiseInFlush, OnlyPosted
<1>19. ASSUME NEW c \in raw, RaiseAfterSplit(c) PROVE OnlyPosted'
  <2>1. PICK g \in SeededSets(c) : \E P \in SplitsOf(c \ g) : raw' = (raw \ {c}) \union P \union {g}
    BY <1>19 DEF RaiseAfterSplit
  <2>2. UNION raw' \subseteq UNION raw
    BY <2>1, SplitCovers
  <2> QED
    BY <1>19, <2>2, AbortOnlyPosted DEF RaiseAfterSplit, OnlyPosted
<1>20. CASE Crash
  BY <1>20 DEF Crash, OnlyPosted, InMemory, OnlyLocal, Pooled, QueuedIn
<1>21. CASE UNCHANGED vars
  BY <1>21, <1>q, <1>u DEF vars, OnlyPosted, InMemory, OnlyLocal
<1> QED
  BY <1>1, <1>2, <1>3, <1>4, <1>5, <1>6, <1>7, <1>8, <1>9, <1>10, <1>11, <1>12, <1>13,
     <1>14, <1>15, <1>16, <1>17, <1>18, <1>19, <1>20, <1>21, <1>22
     DEF Next, Environment, ProcessThread, Failure

-----------------------------------------------------------------------------
(* One place for each mpost while nothing has been disturbed.              *)

\* Popping a job leaves every mpost queued at most once, and the popped one
\* not at all.
LEMMA QueuedOnceTail ==
  ASSUME NEW q \in Seq(Jobs), q # <<>>, QueuedOnce(q)
  PROVE  /\ QueuedOnce(Tail(q))
         /\ Head(q).job = "process_mposts" => Head(q).mpost \notin QueuedIn(Tail(q))
<1>1. DOMAIN q = 1..Len(q) /\ Len(q) \in Nat \ {0} /\ Head(q) = q[1]
  OBVIOUS
<1>2. DOMAIN Tail(q) = 1..(Len(q) - 1)
  BY <1>1
<1>3. \A i \in 1..(Len(q) - 1) : Tail(q)[i] = q[i + 1] /\ i + 1 \in 1..Len(q) /\ i + 1 # 1
  BY <1>1
<1>4. QueuedOnce(Tail(q))
  <2> SUFFICES ASSUME NEW i \in DOMAIN Tail(q), NEW j \in DOMAIN Tail(q),
                      Tail(q)[i].job = "process_mposts", Tail(q)[j].job = "process_mposts",
                      Tail(q)[i].mpost = Tail(q)[j].mpost
               PROVE  i = j
    BY DEF QueuedOnce
  <2>1. i + 1 = j + 1
    BY <1>1, <1>2, <1>3 DEF QueuedOnce
  <2> QED
    BY <1>1, <1>2, <2>1
<1>5. ASSUME Head(q).job = "process_mposts", Head(q).mpost \in QueuedIn(Tail(q)) PROVE FALSE
  <2>1. PICK i \in 1..(Len(q) - 1) :
          Tail(q)[i].job = "process_mposts" /\ Tail(q)[i].mpost = Head(q).mpost
    BY <1>2, <1>5 DEF QueuedIn
  <2>2. q[i + 1].job = "process_mposts" /\ q[i + 1].mpost = q[1].mpost /\ i + 1 \in DOMAIN q /\ i + 1 # 1
    BY <1>1, <1>3, <2>1
  <2> QED
    BY <1>1, <1>5, <2>2 DEF QueuedOnce
<1> QED
  BY <1>4, <1>5

\* Pushing a mpost that is not queued, or a timer job, keeps that.
LEMMA QueuedOnceAppend ==
  ASSUME NEW q \in Seq(Jobs), QueuedOnce(q)
  PROVE  /\ \A m \in Mposts \ QueuedIn(q) :
              QueuedOnce(Append(q, [job |-> "process_mposts", mpost |-> m]))
         /\ \A t \in Nat : QueuedOnce(Append(q, [job |-> "process_meets", at |-> t]))
<1>1. ASSUME NEW e \in Jobs
      PROVE  /\ DOMAIN Append(q, e) = 1..(Len(q) + 1)
             /\ DOMAIN q = 1..Len(q)
             /\ Append(q, e)[Len(q) + 1] = e
             /\ \A i \in 1..Len(q) : Append(q, e)[i] = q[i]
  OBVIOUS
<1>2. \A i : i \in 1..(Len(q) + 1) <=> i \in 1..Len(q) \/ i = Len(q) + 1
  OBVIOUS
<1>3. ASSUME NEW m \in Mposts \ QueuedIn(q)
      PROVE  QueuedOnce(Append(q, [job |-> "process_mposts", mpost |-> m]))
  <2> DEFINE e == [job |-> "process_mposts", mpost |-> m]
  <2>1. e \in Jobs /\ e.mpost = m
    BY DEF Jobs
  <2> HIDE DEF e
  <2>2. \A i \in 1..Len(q) : q[i].job = "process_mposts" => q[i].mpost # m
    BY <1>1, <2>1 DEF QueuedIn
  <2>3. QueuedOnce(Append(q, e))
    BY <1>1, <1>2, <2>1, <2>2 DEF QueuedOnce
  <2> QED
    BY <2>3 DEF e
<1>4. ASSUME NEW t \in Nat
      PROVE  QueuedOnce(Append(q, [job |-> "process_meets", at |-> t]))
  <2> DEFINE e == [job |-> "process_meets", at |-> t]
  <2>1. e \in Jobs /\ e.job = "process_meets"
    BY DEF Jobs
  <2> HIDE DEF e
  <2>2. QueuedOnce(Append(q, e))
    BY <1>1, <1>2, <2>1 DEF QueuedOnce
  <2> QED
    BY <2>2 DEF e
<1> QED
  BY <1>3, <1>4

\* A mpost of a processed cluster is in a meet or pooled.
LEMMA WarmIsPlaced ==
  ASSUME Inventory, WarmInv, NEW w \in warm, NEW m \in w.mposts
  PROVE  meetOf[m] # NoMeet \/ m \in Pooled
<1>1. w.meet # NoMeet
  BY DEF Inventory, MeetIds, NoMeet
<1>2. CASE <<m, w.meet>> \in pooled
  <2>1. <<m, w.meet>>[1] = m
    OBVIOUS
  <2> QED
    BY <1>2, <2>1 DEF Pooled
<1> QED
  BY <1>1, <1>2 DEF WarmInv

\* Steps that move nothing between clusters, meets and the pool.
LEMMA Frame ==
  ASSUME OnePlace, UNCHANGED <<meetOf, raw, pooled, warm, flushed, discarded, absorbed>>,
         phase' \in {"idle", "groups", "raw"} => pooled = {}
  PROVE  /\ RawInv' /\ PooledInv' /\ WarmInv' /\ DroppedInv'
         /\ \A m : Untouched(m) => Untouched(m)'
<1>1. Pooled' = Pooled
  BY DEF Pooled
<1>2. RawInv'
  BY <1>1 DEF OnePlace, RawInv
<1>3. PooledInv'
  BY DEF OnePlace, PooledInv
<1>4. WarmInv' /\ DroppedInv'
  BY DEF OnePlace, WarmInv, DroppedInv
<1>5. \A m : Untouched(m) => Untouched(m)'
  BY <1>1 DEF Untouched
<1> QED
  BY <1>2, <1>3, <1>4, <1>5

\* Web requests, delayed jobs and the timer keep every mpost in one place.
LEMMA CalmEnvironment ==
  ASSUME TypeOK, Inventory, OnlyPosted, OnePlace, Environment, ~disturbed'
  PROVE  OnePlace'
<1> USE DEF dbVars, poolVars, localVars, queueVars, jobVars, endVars, faultVars
<1>1. ASSUME NEW m \in Mposts, Post(m) PROVE OnePlace'
  <2>1. RawInv' /\ PooledInv' /\ WarmInv' /\ DroppedInv' /\ \A x : Untouched(x) => Untouched(x)'
    BY <1>1, Frame DEF Post, OnePlace, PooledInv
  <2>2. Untouched(m)
    <3>1. m \notin posted
      BY <1>1 DEF Post
    <3>2. meetOf[m] = NoMeet /\ m \notin UNION raw /\ m \notin Pooled /\ m \notin discarded
          /\ m \notin absorbed
      BY <3>1 DEF OnlyPosted, InMemory
    <3> QED
      BY <3>2, WarmIsPlaced DEF OnePlace, Untouched
  <2>3. QueuedIn(jobs)' = QueuedIn(jobs)
    BY <1>1 DEF Post, QueuedIn
  <2>4. Upstream' = Upstream \union {m}
    BY <1>1, <2>3 DEF Post, Upstream, Unreached
  <2>5. m \notin QueuedIn(jobs) \union pending \union groups \union rejected
    BY <1>1 DEF Post, OnlyPosted, InMemory, OnlyLocal
  <2>6. QueuedOnce(jobs)'
    BY <1>1 DEF Post, OnePlace, UpstreamInv, QueuedOnce
  <2>7. UpstreamInv'
    BY <1>1, <2>1, <2>2, <2>3, <2>4, <2>5, <2>6 DEF Post, OnePlace, UpstreamInv, Unreached
  <2> QED
    BY <2>1, <2>7 DEF OnePlace
<1>2. ASSUME NEW m \in Mposts, Deliver(m) PROVE OnePlace'
  <2>1. RawInv' /\ PooledInv' /\ WarmInv' /\ DroppedInv' /\ \A x : Untouched(x) => Untouched(x)'
    BY <1>2, Frame DEF Deliver, OnePlace, PooledInv
  <2>2. /\ m \in delayed /\ delayed' = delayed \ {m}
        /\ jobs' = Append(jobs, [job |-> "process_mposts", mpost |-> m])
        /\ UNCHANGED <<pending, todo, groups, rejected, phase>>
    BY <1>2 DEF Deliver
  <2>3. m \notin QueuedIn(jobs) \union pending \union groups \union rejected
    BY <2>2 DEF OnePlace, UpstreamInv
  <2>4. QueuedIn(Append(jobs, [job |-> "process_mposts", mpost |-> m])) = QueuedIn(jobs) \union {m}
    BY QueueAppend DEF TypeOK
  <2>5. QueuedIn(jobs)' = QueuedIn(jobs) \union {m}
    BY <2>2, <2>4 DEF QueuedIn
  <2>6. QueuedOnce(Append(jobs, [job |-> "process_mposts", mpost |-> m]))
    BY <2>3, QueuedOnceAppend DEF TypeOK, OnePlace, UpstreamInv
  <2>7. QueuedOnce(jobs)'
    BY <2>2, <2>6 DEF QueuedOnce
  <2>8. UpstreamInv'
    BY <2>1, <2>2, <2>3, <2>5, <2>7 DEF OnePlace, UpstreamInv, Upstream, Unreached
  <2> QED
    BY <2>1, <2>8 DEF OnePlace
<1>3. CASE Timer
  <2>1. RawInv' /\ PooledInv' /\ WarmInv' /\ DroppedInv' /\ \A x : Untouched(x) => Untouched(x)'
    BY <1>3, Frame DEF Timer, OnePlace, PooledInv
  <2>2. /\ clock' \in Nat
        /\ jobs' = Append(jobs, [job |-> "process_meets", at |-> clock'])
        /\ UNCHANGED <<delayed, pending, todo, groups, rejected, phase>>
    BY <1>3 DEF Timer, TypeOK
  <2>3. QueuedIn(Append(jobs, [job |-> "process_meets", at |-> clock'])) = QueuedIn(jobs)
    BY <2>2, QueueAppend DEF TypeOK
  <2>4. QueuedIn(jobs)' = QueuedIn(jobs)
    BY <2>2, <2>3 DEF QueuedIn
  <2>5. QueuedOnce(Append(jobs, [job |-> "process_meets", at |-> clock']))
    BY <2>2, QueuedOnceAppend DEF TypeOK, OnePlace, UpstreamInv
  <2>6. QueuedOnce(jobs)'
    BY <2>2, <2>5 DEF QueuedOnce
  <2>7. UpstreamInv'
    BY <2>1, <2>2, <2>4, <2>6 DEF OnePlace, UpstreamInv, Upstream, Unreached
  <2> QED
    BY <2>1, <2>7 DEF OnePlace
<1> QED
  BY <1>1, <1>2, <1>3 DEF Environment

\* Taking a job from the queue keeps every mpost in one place.
LEMMA CalmQueue ==
  ASSUME TypeOK, Inventory, OnePlace, ProcessMpost \/ ProcessMeets \/ SkipProcessMeets
  PROVE  OnePlace'
<1> USE DEF dbVars, poolVars, localVars, queueVars, jobVars, endVars, faultVars
<1>1. phase = "idle" /\ jobs # <<>> /\ jobs' = Tail(jobs) /\ pooled = {}
      /\ UNCHANGED <<delayed, groups, rejected>> /\ groups = {} /\ rejected = {}
  BY DEF ProcessMpost, ProcessMeets, SkipProcessMeets, OnePlace, PooledInv, Inventory
<1>2. RawInv' /\ PooledInv' /\ WarmInv' /\ DroppedInv' /\ \A x : Untouched(x) => Untouched(x)'
  BY <1>1, Frame DEF ProcessMpost, ProcessMeets, SkipProcessMeets
<1>3. QueuedOnce(Tail(jobs))
  BY <1>1, QueuedOnceTail DEF TypeOK, OnePlace, UpstreamInv
<1>4. QueuedOnce(jobs)'
  BY <1>1, <1>3 DEF QueuedOnce
<1>5. CASE ProcessMpost
  <2>1. QueuedIn(jobs) = QueuedIn(Tail(jobs)) \union {Head(jobs).mpost}
        /\ Head(jobs).mpost \notin QueuedIn(Tail(jobs))
    BY <1>1, <1>5, QueueTail, QueuedOnceTail DEF ProcessMpost, TypeOK, OnePlace, UpstreamInv
  <2>2. QueuedIn(jobs)' = QueuedIn(Tail(jobs))
    BY <1>1 DEF QueuedIn
  <2>3. pending' = pending \union {Head(jobs).mpost} /\ phase' = "idle"
    BY <1>1, <1>5 DEF ProcessMpost
  <2>4. Unreached = pending /\ Unreached' = pending'
    BY <1>1, <2>3 DEF Unreached
  <2>5. UpstreamInv'
    BY <1>1, <1>2, <1>4, <2>1, <2>2, <2>3, <2>4 DEF OnePlace, UpstreamInv, Upstream
  <2> QED
    BY <1>2, <2>5 DEF OnePlace
<1>6. CASE ProcessMeets \/ SkipProcessMeets
  <2>1. Head(jobs).job = "process_meets"
    BY <1>6 DEF ProcessMeets, SkipProcessMeets
  <2>2. QueuedIn(jobs) = QueuedIn(Tail(jobs))
    BY <1>1, <2>1, QueueTail DEF TypeOK
  <2>3. QueuedIn(jobs)' = QueuedIn(jobs)
    BY <1>1, <2>2 DEF QueuedIn
  <2>4. pending' = pending /\ Unreached' = Unreached
    BY <1>1, <1>6 DEF ProcessMeets, SkipProcessMeets, Unreached
  <2>5. UpstreamInv'
    BY <1>1, <1>2, <1>4, <2>3, <2>4 DEF OnePlace, UpstreamInv, Upstream
  <2> QED
    BY <1>2, <2>5 DEF OnePlace
<1> QED
  BY <1>5, <1>6

\* A mpost the pending loop reaches is in no other place, and stays out of
\* the way of all the others once it has gone where the loop sends it.
LEMMA ReachedIsAlone ==
  ASSUME TypeOK, Inventory, OnePlace, NEW m, Reach(m),
         UNCHANGED <<pending, delayed, jobs, groups, rejected, phase>>,
         \A x \in Mposts \ {m} : Untouched(x) => Untouched(x)'
  PROVE  UpstreamInv'
<1>1. /\ phase = "pending" /\ phase' = "pending" /\ m \in todo /\ todo' = todo \ {m}
      /\ m \in Mposts /\ m \in pending
  BY DEF Reach, TypeOK, Inventory
<1>2. QueuedIn(jobs)' = QueuedIn(jobs) /\ QueuedOnce(jobs)' = QueuedOnce(jobs)
  BY DEF QueuedIn, QueuedOnce
<1>3. Unreached = todo /\ Unreached' = todo \ {m}
  BY <1>1 DEF Unreached
<1>4. m \notin delayed \union QueuedIn(jobs) \union groups \union rejected
  BY <1>1, <1>3 DEF OnePlace, UpstreamInv, Inventory
<1>5. Upstream' = Upstream \ {m}
  BY <1>2, <1>3, <1>4 DEF Upstream
<1>6. Upstream \subseteq Mposts
  <2>1. Unreached \subseteq Mposts
    BY DEF Unreached, TypeOK
  <2> QED
    BY <2>1 DEF Upstream, QueuedIn, TypeOK
<1> QED
  BY <1>2, <1>3, <1>5, <1>6 DEF OnePlace, UpstreamInv

\* A step of the pending loop moves one mpost from the unreached ones to
\* exactly one of the pool, the raw clusters, a meet and the groups.
LEMMA CalmPending ==
  ASSUME TypeOK, Inventory, OnePlace,
         NEW m \in todo,
         \/ SkipProcessed(m) \/ CollectHostMode(m) \/ AssignToWarmMeet(m)
         \/ AttachToRawClusters(m) \/ AssignToColdMeet(m)
         \/ CreateOrphanMeet(m) \/ CreateRawCluster(m)
  PROVE  OnePlace'
<1> USE DEF dbVars, poolVars, localVars, queueVars, jobVars, endVars, faultVars
<1>1. Reach(m) /\ m \in Mposts /\ phase = "pending" /\ phase' = "pending" /\ flushed = {}
      /\ rejected = {} /\ todo' = todo \ {m} /\ UNCHANGED <<pending, delayed, jobs, flushed, rejected>>
  BY DEF SkipProcessed, CollectHostMode, AssignToWarmMeet, AttachToRawClusters, AssignToColdMeet,
         CreateOrphanMeet, CreateRawCluster, ReachPeer, Reach, TypeOK, Inventory
<1>2. Untouched(m)
  BY <1>1 DEF OnePlace, UpstreamInv, Upstream, Unreached
<1>3. CASE SkipProcessed(m)
  BY <1>2, <1>3 DEF SkipProcessed, Untouched
<1>4. CASE CollectHostMode(m)
  <2>1. RawInv' /\ PooledInv' /\ WarmInv' /\ DroppedInv' /\ \A x : Untouched(x) => Untouched(x)'
    BY <1>1, <1>4, Frame DEF CollectHostMode
  <2>2. QueuedIn(jobs)' = QueuedIn(jobs) /\ QueuedOnce(jobs)' = QueuedOnce(jobs)
    BY <1>1 DEF QueuedIn, QueuedOnce
  <2>3. Unreached = todo /\ Unreached' = todo \ {m} /\ groups' = groups \union {m}
    BY <1>1, <1>4 DEF Unreached, CollectHostMode
  <2>4. m \notin delayed \union QueuedIn(jobs)
    BY <1>1, <1>2 DEF OnePlace, UpstreamInv, Inventory
  <2>5. Upstream' \subseteq Upstream
    BY <1>1, <2>2, <2>3 DEF Upstream
  <2>6. UpstreamInv'
    BY <1>1, <2>1, <2>2, <2>3, <2>4, <2>5 DEF OnePlace, UpstreamInv
  <2> QED
    BY <2>1, <2>6 DEF OnePlace
<1>5. CASE AssignToWarmMeet(m)
  <2>1. PICK M \in BestFits(WarmMembers, m) :
          /\ pooled' = pooled \union {<<m, M>>}
          /\ warm' = {IF w.meet = M THEN [w EXCEPT !.mposts = @ \union {m}] ELSE w : w \in warm}
    BY <1>5 DEF AssignToWarmMeet
  <2>2. UNCHANGED <<meetOf, raw, groups, discarded, absorbed>>
    BY <1>5 DEF AssignToWarmMeet
  <2>3. Pooled' = Pooled \union {m}
    BY <2>1, PooledAdd
  <2>4. \A w \in warm' : \E v \in warm :
          /\ w.meet = v.meet
          /\ w = IF v.meet = M THEN [v EXCEPT !.mposts = @ \union {m}] ELSE v
          /\ w.mposts = IF v.meet = M THEN v.mposts \union {m} ELSE v.mposts
    BY <2>1 DEF TypeOK
  <2>5. RawInv'
    BY <1>2, <2>2, <2>3 DEF OnePlace, RawInv, Untouched
  <2>6. PooledInv'
    <3>1. \A p \in pooled : p[1] # m
      BY <1>2 DEF Untouched, Pooled
    <3>2. \A p \in pooled' : p \in pooled \/ (p = <<m, M>> /\ p[1] = m /\ p[2] = M)
      BY <2>1
    <3> QED
      BY <1>1, <1>2, <2>2, <3>1, <3>2 DEF OnePlace, PooledInv, Untouched
  <2>7. WarmInv'
    <3>1. \A v, w \in warm' : v.meet = w.meet => v = w
      <4> SUFFICES ASSUME NEW v \in warm', NEW w \in warm', v.meet = w.meet PROVE v = w
        OBVIOUS
      <4>1. PICK a \in warm : v.meet = a.meet
              /\ v = IF a.meet = M THEN [a EXCEPT !.mposts = @ \union {m}] ELSE a
        BY <2>4
      <4>2. PICK b \in warm : w.meet = b.meet
              /\ w = IF b.meet = M THEN [b EXCEPT !.mposts = @ \union {m}] ELSE b
        BY <2>4
      <4>3. a = b
        BY <4>1, <4>2 DEF OnePlace, WarmInv
      <4> QED
        BY <4>1, <4>2, <4>3
    <3>2. \A w \in warm' : \A x \in w.mposts : meetOf[x] = w.meet \/ <<x, w.meet>> \in pooled'
      <4> SUFFICES ASSUME NEW w \in warm', NEW x \in w.mposts
                   PROVE  meetOf[x] = w.meet \/ <<x, w.meet>> \in pooled'
        OBVIOUS
      <4>1. PICK v \in warm : w.meet = v.meet
              /\ w.mposts = IF v.meet = M THEN v.mposts \union {m} ELSE v.mposts
        BY <2>4
      <4>2. CASE x \in v.mposts
        BY <2>1, <4>1, <4>2 DEF OnePlace, WarmInv
      <4>3. CASE x = m /\ v.meet = M
        BY <2>1, <4>1, <4>3
      <4> QED
        BY <4>1, <4>2, <4>3
    <3> QED
      BY <2>2, <3>1, <3>2 DEF WarmInv
  <2>8. DroppedInv'
    BY <2>2 DEF OnePlace, DroppedInv
  <2>9. \A x \in Mposts \ {m} : Untouched(x) => Untouched(x)'
    BY <2>2, <2>3, <2>4 DEF Untouched
  <2> QED
    BY <1>1, <2>2, <2>5, <2>6, <2>7, <2>8, <2>9, ReachedIsAlone DEF OnePlace
<1>6. CASE AttachToRawClusters(m) \/ CreateRawCluster(m)
  <2>1. PICK S \in SUBSET raw : raw' = (raw \ S) \union {(UNION S) \union {m}}
    <3>1. CASE AttachToRawClusters(m)
      BY <3>1 DEF AttachToRawClusters, AttachedClusters
    <3>2. CASE CreateRawCluster(m)
      <4>1. raw' = (raw \ {}) \union {(UNION {}) \union {m}}
        BY <3>2 DEF CreateRawCluster
      <4> QED
        BY <4>1
    <3> QED
      BY <1>6, <3>1, <3>2
  <2>2. UNCHANGED <<meetOf, pooled, warm, groups, discarded, absorbed>>
    BY <1>6 DEF AttachToRawClusters, CreateRawCluster
  <2>3. Pooled' = Pooled
    BY <2>2 DEF Pooled
  <2>4. UNION raw' = (UNION raw) \union {m}
    BY <2>1
  <2>5. \A c \in raw : m \notin c
    BY <1>2 DEF Untouched
  <2>6. \A c, d \in raw' : c = d \/ c \cap d = {}
    <3>1. \A c, d \in raw : c = d \/ c \cap d = {}
      BY DEF OnePlace, RawInv
    <3>2. \A c \in raw \ S : c \cap ((UNION S) \union {m}) = {}
      BY <2>5, <3>1
    <3> QED
      BY <2>1, <3>1, <3>2
  <2>7. RawInv'
    BY <1>2, <2>2, <2>3, <2>4, <2>6 DEF OnePlace, RawInv, Untouched
  <2>8. PooledInv' /\ WarmInv' /\ DroppedInv'
    BY <1>1, <2>2 DEF OnePlace, PooledInv, WarmInv, DroppedInv
  <2>9. \A x \in Mposts \ {m} : Untouched(x) => Untouched(x)'
    BY <2>2, <2>3, <2>4 DEF Untouched
  <2> QED
    BY <1>1, <2>2, <2>7, <2>8, <2>9, ReachedIsAlone DEF OnePlace
<1>7. CASE AssignToColdMeet(m)
  <2>1. PICK M \in BestFits(RowMembers, m) : pooled' = pooled \union {<<m, M>>}
    BY <1>7 DEF AssignToColdMeet
  <2>2. UNCHANGED <<meetOf, raw, warm, groups, discarded, absorbed>>
    BY <1>7 DEF AssignToColdMeet
  <2>3. Pooled' = Pooled \union {m}
    BY <2>1, PooledAdd
  <2>4. RawInv'
    BY <1>2, <2>2, <2>3 DEF OnePlace, RawInv, Untouched
  <2>5. PooledInv'
    <3>1. \A p \in pooled : p[1] # m
      BY <1>2 DEF Untouched, Pooled
    <3>2. \A p \in pooled' : p \in pooled \/ (p = <<m, M>> /\ p[1] = m /\ p[2] = M)
      BY <2>1
    <3> QED
      BY <1>1, <1>2, <2>2, <3>1, <3>2 DEF OnePlace, PooledInv, Untouched
  <2>6. WarmInv' /\ DroppedInv'
    BY <2>1, <2>2 DEF OnePlace, WarmInv, DroppedInv
  <2>7. \A x \in Mposts \ {m} : Untouched(x) => Untouched(x)'
    BY <2>2, <2>3 DEF Untouched
  <2> QED
    BY <1>1, <2>2, <2>4, <2>5, <2>6, <2>7, ReachedIsAlone DEF OnePlace
<1>8. CASE CreateOrphanMeet(m)
  <2>1. UNCHANGED <<raw, pooled, warm, groups, discarded, absorbed>>
        /\ meetOf' = [meetOf EXCEPT ![m] = meetCount + 1]
    BY <1>8 DEF CreateOrphanMeet
  <2>2. Pooled' = Pooled
    BY <2>1 DEF Pooled
  <2>3. \A x \in Mposts \ {m} : meetOf'[x] = meetOf[x]
    BY <2>1 DEF TypeOK
  <2>4. RawInv'
    BY <1>2, <2>1, <2>2, <2>3 DEF OnePlace, RawInv, Untouched, TypeOK
  <2>5. PooledInv'
    <3>1. \A p \in pooled : p[1] \in Mposts \ {m}
      BY <1>2, PooledPairs DEF Untouched, Pooled
    <3> QED
      BY <1>1, <2>1, <2>3, <3>1 DEF OnePlace, PooledInv
  <2>6. WarmInv'
    <3>1. \A w \in warm : \A x \in w.mposts : x \in Mposts \ {m}
      BY <1>2 DEF Untouched, TypeOK
    <3> QED
      BY <2>1, <2>3, <3>1 DEF OnePlace, WarmInv
  <2>7. DroppedInv'
    BY <1>2, <2>1, <2>3 DEF OnePlace, DroppedInv, Untouched, TypeOK
  <2>8. \A x \in Mposts \ {m} : Untouched(x) => Untouched(x)'
    BY <2>1, <2>2, <2>3 DEF Untouched
  <2> QED
    BY <1>1, <2>1, <2>4, <2>5, <2>6, <2>7, <2>8, ReachedIsAlone DEF OnePlace
<1> QED
  BY <1>3, <1>4, <1>5, <1>6, <1>7, <1>8

\* The flush moves pooled mposts to the meet they are pooled for.
LEMMA CalmFlush ==
  ASSUME TypeOK, Inventory, OnePlace,
         PendingDone \/ FlushDone \/ \E M \in MeetIds : FlushMeet(M)
  PROVE  OnePlace'
<1> USE DEF dbVars, poolVars, localVars, queueVars, jobVars, endVars, faultVars
<1>1. CASE PendingDone
  <2>1. RawInv' /\ PooledInv' /\ WarmInv' /\ DroppedInv' /\ \A x : Untouched(x) => Untouched(x)'
    BY <1>1, Frame DEF PendingDone
  <2>2. /\ pending' = {} /\ todo = {} /\ phase' = "flush" /\ phase = "pending"
        /\ UNCHANGED <<delayed, jobs, groups, rejected, todo>>
    BY <1>1 DEF PendingDone
  <2>3. QueuedIn(jobs)' = QueuedIn(jobs) /\ QueuedOnce(jobs)' = QueuedOnce(jobs)
    BY <2>2 DEF QueuedIn, QueuedOnce
  <2>4. Unreached' = {} /\ Upstream' \subseteq Upstream
    BY <2>2, <2>3 DEF Unreached, Upstream
  <2>5. UpstreamInv'
    BY <2>1, <2>2, <2>3, <2>4 DEF OnePlace, UpstreamInv
  <2> QED
    BY <2>1, <2>5 DEF OnePlace
<1>2. ASSUME NEW M \in MeetIds, FlushMeet(M) PROVE OnePlace'
  <2>1. /\ phase = "flush" /\ M \notin flushed /\ flushed' = flushed \union {M}
        /\ meetOf' = [m \in Mposts |-> IF m \in PooledFor(M) THEN M ELSE meetOf[m]]
        /\ UNCHANGED <<delayed, jobs, pending, todo, groups, rejected, raw, pooled, phase,
                       discarded, absorbed>>
    BY <1>2 DEF FlushMeet
  <2>a. SameClusters
    BY <1>2, SavedThroughKeyClusters DEF FlushMeet, PooledFor
  <2>2. Pooled' = Pooled
    BY <2>1 DEF Pooled
  <2>3. ASSUME NEW x \in Mposts, x \notin Pooled PROVE meetOf'[x] = meetOf[x]
    <3>1. x \notin PooledFor(M)
      <4>1. <<x, M>>[1] = x
        OBVIOUS
      <4> QED
        BY <2>3, <4>1 DEF PooledFor, Pooled
    <3> QED
      BY <2>1, <3>1
  <2>4. M # NoMeet
    BY DEF MeetIds, NoMeet
  <2>5. RawInv'
    <3>1. \A m \in UNION raw : m \in Mposts
      BY DEF TypeOK
    <3> QED
      BY <2>1, <2>2, <2>3, <3>1 DEF OnePlace, RawInv
  <2>6. PooledInv'
    <3>1. ASSUME NEW p \in pooled
          PROVE  meetOf'[p[1]] = IF p[2] \in flushed' THEN p[2] ELSE NoMeet
      <4>1. p[1] \in Mposts /\ p = <<p[1], p[2]>> /\ p[1] \in PooledFor(p[2])
        BY PooledPairs
      <4>2. CASE p[2] = M
        BY <2>1, <4>1, <4>2
      <4>3. CASE p[2] # M
        <5>1. p[1] \notin PooledFor(M)
          <6>1. SUFFICES ASSUME <<p[1], M>> \in pooled PROVE FALSE
            BY DEF PooledFor
          <6>2. <<p[1], M>>[1] = p[1] /\ <<p[1], M>>[2] = M
            OBVIOUS
          <6> QED
            BY <4>3, <6>1, <6>2 DEF OnePlace, PooledInv
        <5>2. meetOf'[p[1]] = meetOf[p[1]]
          BY <2>1, <4>1, <5>1
        <5> QED
          BY <2>1, <4>3, <5>2 DEF OnePlace, PooledInv
      <4> QED
        BY <4>2, <4>3
    <3> QED
      BY <2>1, <3>1 DEF OnePlace, PooledInv
  <2>7. WarmInv'
    <3>1. ASSUME NEW w \in warm, NEW x \in w.mposts
          PROVE  meetOf'[x] = w.meet \/ <<x, w.meet>> \in pooled
      <4>1. x \in Mposts /\ w.meet # NoMeet
        BY DEF TypeOK, Inventory, MeetIds, NoMeet
      <4>2. CASE x \notin PooledFor(M)
        BY <2>1, <4>1, <4>2 DEF OnePlace, WarmInv
      <4>3. CASE x \in PooledFor(M)
        <5>1. <<x, M>> \in pooled /\ <<x, M>>[1] = x /\ <<x, M>>[2] = M
          BY <4>3 DEF PooledFor
        <5>2. meetOf[x] = NoMeet
          BY <2>1, <5>1 DEF OnePlace, PooledInv
        <5> QED
          BY <4>1, <5>2 DEF OnePlace, WarmInv
      <4> QED
        BY <4>2, <4>3
    <3>2. \A w \in warm' : \A x \in w.mposts : meetOf'[x] = w.meet \/ <<x, w.meet>> \in pooled'
      BY <2>1, <2>a, <3>1 DEF SameClusters
    <3> QED
      BY <2>a, <3>2 DEF OnePlace, WarmInv, SameClusters
  <2>8. DroppedInv'
    <3>1. \A x \in discarded \union absorbed : x \in Mposts /\ x \notin Pooled
      BY DEF TypeOK, OnePlace, PooledInv, Pooled
    <3> QED
      BY <2>1, <2>3, <3>1 DEF OnePlace, DroppedInv
  <2>9. \A x \in Mposts : Untouched(x) => Untouched(x)'
    BY <2>1, <2>2, <2>3, <2>a DEF Untouched, SameClusters
  <2>10. QueuedIn(jobs)' = QueuedIn(jobs) /\ QueuedOnce(jobs)' = QueuedOnce(jobs)
         /\ Unreached' = Unreached
    BY <2>1 DEF QueuedIn, QueuedOnce, Unreached
  <2>11. Upstream' = Upstream /\ Upstream \subseteq Mposts
    BY <2>1, <2>10 DEF Upstream, QueuedIn, Unreached, TypeOK
  <2>12. UpstreamInv'
    BY <2>1, <2>9, <2>10, <2>11 DEF OnePlace, UpstreamInv
  <2> QED
    BY <2>5, <2>6, <2>7, <2>8, <2>12 DEF OnePlace
<1>3. CASE FlushDone
  <2>1. /\ phase = "flush" /\ phase' = "groups" /\ pooled' = {} /\ flushed' = {}
        /\ UNCHANGED <<delayed, jobs, pending, todo, groups, rejected, raw, warm, meetOf,
                       discarded, absorbed>>
    BY <1>3 DEF FlushDone
  <2>2. \A p \in pooled : p[2] \in flushed
    BY <1>3, PooledPairs DEF FlushDone, Inventory
  <2>3. Pooled' = {}
    BY <2>1 DEF Pooled
  <2>4. RawInv' /\ PooledInv' /\ DroppedInv'
    BY <2>1, <2>3 DEF OnePlace, RawInv, PooledInv, DroppedInv
  <2>5. WarmInv'
    <3>1. ASSUME NEW w \in warm, NEW x \in w.mposts PROVE meetOf[x] = w.meet
      <4>1. CASE <<x, w.meet>> \in pooled
        <5>1. <<x, w.meet>>[1] = x /\ <<x, w.meet>>[2] = w.meet
          OBVIOUS
        <5> QED
          BY <2>2, <4>1, <5>1 DEF OnePlace, PooledInv
      <4> QED
        BY <4>1 DEF OnePlace, WarmInv
    <3> QED
      BY <2>1, <3>1 DEF OnePlace, WarmInv
  <2>6. \A x : Untouched(x) => Untouched(x)'
    BY <2>1, <2>3 DEF Untouched
  <2>7. QueuedIn(jobs)' = QueuedIn(jobs) /\ QueuedOnce(jobs)' = QueuedOnce(jobs)
        /\ Unreached' = Unreached
    BY <2>1 DEF QueuedIn, QueuedOnce, Unreached
  <2>8. UpstreamInv'
    BY <2>1, <2>6, <2>7 DEF OnePlace, UpstreamInv, Upstream
  <2> QED
    BY <2>4, <2>5, <2>8 DEF OnePlace
<1> QED
  BY <1>1, <1>2, <1>3

\* A host or join group moves to its meet, out of the pipeline, or back to
\* the pending mposts.
LEMMA CalmGroups ==
  ASSUME TypeOK, Inventory, OnePlace,
         \/ GroupsDone
         \/ \E m \in rejected : PutBack(m)
         \/ \E k \in 1..4, m \in groups : ProcessGroup(k, HostMeet[m])
  PROVE  OnePlace'
<1> USE DEF dbVars, poolVars, localVars, queueVars, jobVars, endVars, faultVars
<1>1. ASSUME NEW k \in 1..4, NEW m \in groups, ProcessGroup(k, HostMeet[m]) PROVE OnePlace'
  <2> DEFINE group == Group(k, HostMeet[m])
             taken == {n \in group : Accepts(HostMeet[m], n)}
             joins == IF GroupOrder[k] = "host_owner" THEN {} ELSE taken
  <2>1. group \subseteq groups /\ taken \subseteq group /\ joins \subseteq taken
        /\ (joins = {} \/ taken \ joins = {})
    BY DEF Group
  <2>2. /\ phase = "groups" /\ groups' = groups \ group
        /\ meetOf' = [n \in Mposts |-> IF n \in joins THEN HostMeet[m] ELSE meetOf[n]]
        /\ absorbed' = absorbed \union (taken \ joins)
        /\ rejected' = rejected \union (group \ taken)
        /\ UNCHANGED <<delayed, jobs, pending, todo, raw, pooled, warm, flushed, phase, discarded>>
    BY <1>1 DEF ProcessGroup
  <2> HIDE DEF group, taken, joins
  <2>3. pooled = {} /\ Pooled = {} /\ Pooled' = {}
    BY <2>2 DEF OnePlace, PooledInv, Pooled
  <2>4. \A x \in groups : Untouched(x)
    BY DEF OnePlace, UpstreamInv, Upstream
  <2>5. \A x \in Mposts \ groups : meetOf'[x] = meetOf[x]
    BY <2>1, <2>2
  <2>6. RawInv'
    <3>1. \A x \in UNION raw : x \in Mposts \ groups
      BY <2>4 DEF Untouched, TypeOK
    <3> QED
      BY <2>1, <2>2, <2>3, <2>5, <3>1 DEF OnePlace, RawInv
  <2>7. PooledInv'
    BY <2>2, <2>3 DEF PooledInv
  <2>8. WarmInv'
    <3>1. \A w \in warm : \A x \in w.mposts : x \in Mposts \ groups
      BY <2>4 DEF Untouched, TypeOK
    <3> QED
      BY <2>2, <2>5, <3>1 DEF OnePlace, WarmInv
  <2>9. DroppedInv'
    <3>1. \A x \in discarded \union absorbed : x \in Mposts \ groups
      BY <2>4 DEF Untouched, TypeOK
    <3>2. \A x \in taken \ joins : meetOf'[x] = NoMeet
      BY <2>1, <2>2, <2>4 DEF Untouched, TypeOK
    <3> QED
      BY <2>2, <2>5, <3>1, <3>2 DEF OnePlace, DroppedInv
  <2>10. \A x \in Mposts \ taken : Untouched(x) => Untouched(x)'
    BY <2>1, <2>2, <2>3 DEF Untouched
  <2>11. QueuedIn(jobs)' = QueuedIn(jobs) /\ QueuedOnce(jobs)' = QueuedOnce(jobs)
         /\ Unreached' = Unreached
    BY <2>2 DEF QueuedIn, QueuedOnce, Unreached
  <2>12. taken \cap (delayed \union QueuedIn(jobs) \union Unreached \union rejected) = {}
    BY <2>1 DEF OnePlace, UpstreamInv
  <2>13. Upstream' \subseteq Upstream \ taken
    BY <2>1, <2>2, <2>11, <2>12 DEF Upstream
  <2>14. Upstream \subseteq Mposts
    BY DEF Upstream, QueuedIn, Unreached, TypeOK
  <2>15. UpstreamInv'
    BY <2>1, <2>2, <2>10, <2>11, <2>13, <2>14 DEF OnePlace, UpstreamInv
  <2> QED
    BY <2>6, <2>7, <2>8, <2>9, <2>15 DEF OnePlace
<1>2. ASSUME NEW m \in rejected, PutBack(m) PROVE OnePlace'
  <2>1. pooled = {}
    BY <1>2 DEF PutBack, OnePlace, PooledInv
  <2>2. RawInv' /\ PooledInv' /\ WarmInv' /\ DroppedInv' /\ \A x : Untouched(x) => Untouched(x)'
    BY <1>2, <2>1, Frame DEF PutBack
  <2>3. /\ phase = "groups" /\ phase' = "groups" /\ groups = {}
        /\ rejected' = rejected \ {m} /\ pending' = pending \union {m}
        /\ UNCHANGED <<delayed, jobs, todo, groups>>
    BY <1>2 DEF PutBack
  <2>4. QueuedIn(jobs)' = QueuedIn(jobs) /\ QueuedOnce(jobs)' = QueuedOnce(jobs)
        /\ Unreached' = Unreached \union {m}
    BY <2>3 DEF QueuedIn, QueuedOnce, Unreached
  <2>5. UpstreamInv'
    BY <2>2, <2>3, <2>4 DEF OnePlace, UpstreamInv, Upstream
  <2> QED
    BY <2>2, <2>5 DEF OnePlace
<1>3. CASE GroupsDone
  <2>1. pooled = {}
    BY <1>3 DEF GroupsDone, OnePlace, PooledInv
  <2>2. RawInv' /\ PooledInv' /\ WarmInv' /\ DroppedInv' /\ \A x : Untouched(x) => Untouched(x)'
    BY <1>3, <2>1, Frame DEF GroupsDone
  <2>3. phase = "groups" /\ phase' = "raw"
        /\ UNCHANGED <<delayed, jobs, pending, todo, groups, rejected>>
    BY <1>3 DEF GroupsDone
  <2>4. QueuedIn(jobs)' = QueuedIn(jobs) /\ QueuedOnce(jobs)' = QueuedOnce(jobs)
        /\ Unreached' = Unreached
    BY <2>3 DEF QueuedIn, QueuedOnce, Unreached
  <2>5. UpstreamInv'
    BY <2>2, <2>3, <2>4 DEF OnePlace, UpstreamInv, Upstream
  <2> QED
    BY <2>2, <2>5 DEF OnePlace
<1> QED
  BY <1>1, <1>2, <1>3

\* Visiting a raw cluster moves all its mposts together: to the discarded
\* ones, or to a new meet and disjoint remainders.
LEMMA CalmRaw ==
  ASSUME TypeOK, Inventory, OnePlace,
         ReleaseColdMeets \/ \E c \in raw : DiscardCluster(c) \/ SkipCluster(c) \/ CreateMeetFrom(c)
  PROVE  OnePlace'
<1> USE DEF dbVars, poolVars, localVars, queueVars, jobVars, endVars, faultVars
<1>1. /\ phase = "raw" /\ phase' \in {"raw", "idle"}
      /\ UNCHANGED <<delayed, jobs, pending, todo, groups, rejected, pooled, flushed, absorbed>>
      /\ pooled = {}
  BY DEF ReleaseColdMeets, DiscardCluster, SkipCluster, CreateMeetFrom, Visit, OnePlace, PooledInv
<1>2. Pooled = {} /\ Pooled' = {} /\ PooledInv'
  BY <1>1 DEF Pooled, PooledInv
<1>3. ASSUME \A x \in Upstream : Untouched(x)' PROVE UpstreamInv'
  <2>1. QueuedIn(jobs)' = QueuedIn(jobs) /\ QueuedOnce(jobs)' = QueuedOnce(jobs)
        /\ Unreached' = Unreached
    BY <1>1 DEF QueuedIn, QueuedOnce, Unreached
  <2> QED
    BY <1>1, <1>3, <2>1 DEF OnePlace, UpstreamInv, Upstream
<1>4. \A x \in Upstream : Untouched(x) /\ x \in Mposts
  BY DEF OnePlace, UpstreamInv, Upstream, QueuedIn, Unreached, TypeOK
<1>5. CASE ReleaseColdMeets
  <2>1. warm' \subseteq warm /\ UNCHANGED <<raw, meetOf, discarded>>
    BY <1>5 DEF ReleaseColdMeets
  <2>2. RawInv' /\ WarmInv' /\ DroppedInv'
    BY <1>1, <1>2, <2>1 DEF OnePlace, RawInv, WarmInv, DroppedInv
  <2>3. \A x \in Upstream : Untouched(x)'
    BY <1>1, <1>2, <1>4, <2>1 DEF Untouched
  <2> QED
    BY <1>2, <1>3, <2>2, <2>3 DEF OnePlace
<1>6. ASSUME NEW c \in raw, SkipCluster(c) PROVE OnePlace'
  <2>1. UNCHANGED <<raw, warm, meetOf, discarded>>
    BY <1>6 DEF SkipCluster
  <2>2. RawInv' /\ WarmInv' /\ DroppedInv'
    BY <1>1, <1>2, <2>1 DEF OnePlace, RawInv, WarmInv, DroppedInv
  <2>3. \A x \in Upstream : Untouched(x)'
    BY <1>1, <1>2, <1>4, <2>1 DEF Untouched
  <2> QED
    BY <1>2, <1>3, <2>2, <2>3 DEF OnePlace
<1>7. ASSUME NEW c \in raw, DiscardCluster(c) PROVE OnePlace'
  <2>1. raw' = raw \ {c} /\ discarded' = discarded \union c /\ UNCHANGED <<warm, meetOf>>
    BY <1>7 DEF DiscardCluster
  <2>2. \A d \in raw' : d \cap c = {}
    BY <2>1 DEF OnePlace, RawInv
  <2>3. RawInv'
    BY <1>1, <1>2, <2>1, <2>2 DEF OnePlace, RawInv
  <2>4. WarmInv' /\ DroppedInv'
    BY <1>1, <2>1 DEF OnePlace, WarmInv, DroppedInv, RawInv
  <2>5. \A x \in Upstream : Untouched(x)'
    BY <1>1, <1>2, <1>4, <2>1 DEF Untouched
  <2> QED
    BY <1>2, <1>3, <2>3, <2>4, <2>5 DEF OnePlace
<1>8. ASSUME NEW c \in raw, CreateMeetFrom(c) PROVE OnePlace'
  <2>1. PICK g \in SeededSets(c) : \E P \in SplitsOf(c \ g) :
          /\ raw' = (raw \ {c}) \union P
          /\ warm' = warm \union {[meet |-> meetCount + 1, mposts |-> g, cached |-> g]}
          /\ meetOf' = [x \in Mposts |-> IF x \in g THEN meetCount + 1 ELSE meetOf[x]]
    BY <1>8 DEF CreateMeetFrom
  <2>2. PICK P \in SplitsOf(c \ g) :
          /\ raw' = (raw \ {c}) \union P
          /\ warm' = warm \union {[meet |-> meetCount + 1, mposts |-> g, cached |-> g]}
          /\ meetOf' = [x \in Mposts |-> IF x \in g THEN meetCount + 1 ELSE meetOf[x]]
    BY <2>1
  <2>3. discarded' = discarded
    BY <1>8 DEF CreateMeetFrom
  <2>4. g \subseteq c /\ g \subseteq Mposts /\ UNION P = c \ g
        /\ \A a, b \in P : a = b \/ a \cap b = {}
    BY DEF SeededSets, SplitsOf, TypeOK
  <2>5. \A x \in Mposts \ g : meetOf'[x] = meetOf[x]
    BY <2>2
  <2>6. \A d \in raw \ {c} : d \cap c = {}
    BY DEF OnePlace, RawInv
  <2>7. RawInv'
    <3>1. \A a, b \in raw' : a = b \/ a \cap b = {}
      <4>1. \A a \in raw \ {c}, b \in P : a \cap b = {}
        BY <2>4, <2>6
      <4>2. \A a, b \in raw \ {c} : a = b \/ a \cap b = {}
        BY DEF OnePlace, RawInv
      <4> QED
        BY <2>2, <2>4, <4>1, <4>2
    <3>2. UNION raw' \subseteq (UNION raw) \ g
      BY <2>2, <2>4, <2>6
    <3>3. \A x \in UNION raw' : x \in Mposts \ g
      BY <3>2 DEF TypeOK
    <3> QED
      BY <1>1, <1>2, <2>3, <2>5, <3>1, <3>2, <3>3 DEF OnePlace, RawInv
  <2>8. \A x \in g : meetOf[x] = NoMeet /\ x \in UNION raw /\ x \notin discarded \union absorbed
    BY <2>4 DEF OnePlace, RawInv
  <2>9. WarmInv'
    <3> DEFINE new == [meet |-> meetCount + 1, mposts |-> g, cached |-> g]
    <3>1. \A w \in warm : w.meet # meetCount + 1 /\ w.meet # NoMeet
      BY DEF Inventory, MeetIds, NoMeet, TypeOK
    <3>2. \A v, w \in warm' : v.meet = w.meet => v = w
      BY <2>2, <3>1 DEF OnePlace, WarmInv
    <3>3. ASSUME NEW w \in warm, NEW x \in w.mposts PROVE meetOf'[x] = w.meet
      <4>1. x \in Mposts /\ meetOf[x] = w.meet
        BY <1>1 DEF TypeOK, OnePlace, WarmInv
      <4> QED
        BY <2>5, <2>8, <3>1, <4>1
    <3>4. \A x \in g : meetOf'[x] = meetCount + 1
      BY <2>2, <2>4
    <3> QED
      BY <2>2, <3>2, <3>3, <3>4 DEF WarmInv
  <2>10. DroppedInv'
    <3>1. \A x \in discarded \union absorbed : x \in Mposts \ g
      BY <2>8 DEF TypeOK
    <3> QED
      BY <1>1, <2>3, <2>5, <3>1 DEF OnePlace, DroppedInv
  <2>11. \A x \in Upstream : Untouched(x)'
    <3> SUFFICES ASSUME NEW x \in Upstream PROVE Untouched(x)'
      OBVIOUS
    <3>1. Untouched(x) /\ x \in Mposts /\ x \notin UNION raw
      BY <1>4 DEF Untouched
    <3>2. x \notin c /\ x \notin g
      BY <2>4, <3>1
    <3>3. x \notin UNION raw'
      BY <2>2, <2>4, <3>1, <3>2
    <3>4. \A w \in warm' : x \notin w.mposts
      BY <2>2, <3>1, <3>2 DEF Untouched
    <3>5. meetOf'[x] = NoMeet
      BY <2>5, <3>1, <3>2 DEF Untouched
    <3> QED
      BY <1>1, <1>2, <2>3, <3>1, <3>3, <3>4, <3>5 DEF Untouched
  <2> QED
    BY <1>2, <1>3, <2>7, <2>9, <2>10, <2>11 DEF OnePlace
<1> QED
  BY <1>5, <1>6, <1>7, <1>8

\* After a crash only the delayed jobs are left, and they are still alone.
LEMMA CalmCrash ==
  ASSUME TypeOK, OnePlace, Crash
  PROVE  OnePlace'
<1>1. /\ jobs' = <<>> /\ pending' = {} /\ raw' = {} /\ warm' = {} /\ pooled' = {}
      /\ todo' = {} /\ flushed' = {} /\ groups' = {} /\ rejected' = {}
      /\ UNCHANGED <<delayed, meetOf, discarded, absorbed>>
  BY DEF Crash, dbVars, endVars
<1>2. Pooled' = {} /\ QueuedIn(jobs)' = {} /\ QueuedOnce(jobs)' /\ Unreached' = {}
  BY <1>1 DEF Pooled, QueuedIn, QueuedOnce, Unreached
<1>3. \A x \in delayed : Untouched(x)'
  BY <1>1, <1>2 DEF OnePlace, UpstreamInv, Upstream, Untouched
<1>4. UpstreamInv'
  BY <1>1, <1>2, <1>3 DEF UpstreamInv, Upstream
<1>5. RawInv' /\ PooledInv' /\ WarmInv' /\ DroppedInv'
  BY <1>1 DEF RawInv, PooledInv, WarmInv, DroppedInv, OnePlace
<1> QED
  BY <1>4, <1>5 DEF OnePlace

\* Nothing undoes a disturbance.
LEMMA DisturbedStays ==
  ASSUME [Next]_vars, ~disturbed'
  PROVE  ~disturbed
<1> USE DEF faultVars
<1>1. ~Abort
  BY DEF Abort
<1>2. ASSUME NEW m \in Mposts, Deliver(m) PROVE ~disturbed
  BY <1>2 DEF Deliver
<1>3. ASSUME NEW m \in Mposts, Post(m) PROVE ~disturbed
  BY <1>3 DEF Post
<1>4. CASE Timer
  BY <1>4 DEF Timer
<1>5. CASE ProcessThread
  BY <1>1, <1>5
     DEF ProcessThread, ProcessMpost, ProcessMeets, SkipProcessMeets, SkipProcessed, CollectHostMode,
         AssignToWarmMeet, AttachToRawClusters, AssignToColdMeet, CreateOrphanMeet, CreateRawCluster,
         PendingDone, FlushMeet, FlushDone, ProcessGroup, PutBack, GroupsDone, DiscardCluster, SkipCluster,
         CreateMeetFrom, ReleaseColdMeets, RaiseOnScore
<1>6. CASE Failure
  BY <1>1, <1>6 DEF Failure, RaiseAnywhere, RaiseInFlush, RaiseAfterSplit, Crash
<1>7. CASE UNCHANGED vars
  BY <1>7 DEF vars
<1> QED
  BY <1>2, <1>3, <1>4, <1>5, <1>6, <1>7 DEF Next, Environment

\* Every step keeps the places disjoint while nothing is disturbed.
LEMMA CalmStep ==
  ASSUME TypeOK, InventoryInv, CalmInv, [Next]_vars
  PROVE  CalmInv'
<1>1. OnlyPosted'
  BY OnlyPostedStep DEF CalmInv
<1>2. ASSUME ~disturbed' PROVE OnePlace'
  <2>1. Inventory /\ OnlyPosted
    BY DEF InventoryInv, CalmInv
  <2>2. ~Abort
    BY <1>2 DEF Abort
  <2>3. CASE UNCHANGED vars
    <3>1. UNCHANGED <<meetOf, raw, pooled, warm, flushed, discarded, absorbed, phase, jobs, pending, todo,
                      delayed, groups, rejected, disturbed>>
      BY <2>3 DEF vars, dbVars, poolVars, localVars, queueVars, jobVars, endVars, faultVars
    <3>2. OnePlace
      BY <1>2, <3>1 DEF CalmInv
    <3>3. RawInv' /\ PooledInv' /\ WarmInv' /\ DroppedInv' /\ \A x : Untouched(x) => Untouched(x)'
      BY <3>1, <3>2, Frame DEF OnePlace, PooledInv
    <3>4. QueuedIn(jobs)' = QueuedIn(jobs) /\ QueuedOnce(jobs)' = QueuedOnce(jobs)
          /\ Unreached' = Unreached
      BY <3>1 DEF QueuedIn, QueuedOnce, Unreached
    <3>5. UpstreamInv'
      BY <3>1, <3>2, <3>3, <3>4 DEF OnePlace, UpstreamInv, Upstream
    <3> QED
      BY <3>3, <3>5 DEF OnePlace
  <2>4. CASE Next
    <3>1. ~disturbed
      BY <1>2, DisturbedStays
    <3>2. OnePlace
      BY <3>1 DEF CalmInv
    <3>3. CASE Environment
      BY <1>2, <2>1, <3>2, <3>3, CalmEnvironment
    <3>4. CASE ProcessThread
      BY <2>1, <2>2, <3>2, <3>4, CalmQueue, CalmPending, CalmFlush, CalmGroups, CalmRaw
         DEF ProcessThread, RaiseOnScore
    <3>5. CASE Failure
      BY <2>2, <3>2, <3>5, CalmCrash DEF Failure, RaiseAnywhere, RaiseInFlush, RaiseAfterSplit
    <3> QED
      BY <2>4, <3>3, <3>4, <3>5 DEF Next
  <2> QED
    BY <2>3, <2>4
<1> QED
  BY <1>1, <1>2 DEF CalmInv

\* An empty pool and queue satisfy both invariants.
LEMMA CalmInit ==
  ASSUME Init
  PROVE  InventoryInv /\ CalmInv
<1>1. /\ delayed = {} /\ jobs = <<>> /\ posted = {} /\ meetOf = [m \in Mposts |-> NoMeet]
      /\ phase = "idle" /\ pending = {} /\ raw = {} /\ warm = {} /\ pooled = {}
      /\ todo = {} /\ flushed = {} /\ groups = {} /\ rejected = {} /\ discarded = {} /\ absorbed = {}
  BY DEF Init
<1>2. Pooled = {} /\ QueuedIn(jobs) = {} /\ QueuedOnce(jobs) /\ Unreached = {}
  BY <1>1 DEF Pooled, QueuedIn, QueuedOnce, Unreached
<1>3. InventoryInv
  BY <1>1 DEF InventoryInv, Inventory, NothingForgotten
<1>4. OnlyPosted
  BY <1>1, <1>2 DEF OnlyPosted, InMemory, OnlyLocal
<1>5. OnePlace
  BY <1>1, <1>2 DEF OnePlace, UpstreamInv, Upstream, RawInv, PooledInv, WarmInv, DroppedInv
<1> QED
  BY <1>3, <1>4, <1>5 DEF CalmInv

-----------------------------------------------------------------------------
(* What the invariants promise.                                            *)

SafetyInv == TypeOK /\ InventoryInv /\ CalmInv

\* The inductive invariant holds in every state the pipeline can reach.
THEOREM SafetyInvariant == Spec => []SafetyInv
<1>1. Init => InventoryInv /\ CalmInv
  BY CalmInit
<1>2. TypeOK /\ InventoryInv /\ CalmInv /\ [Next]_vars => InventoryInv' /\ CalmInv'
  BY InventoryStep, CalmStep
<1> QED
  BY <1>1, <1>2, TypeCorrect, PTL DEF Spec, SafetyInv

\* No mpost is in two clusters, and no meet in two processed clusters.
THEOREM ClustersAreDisjoint == Spec => []ClustersDisjoint
<1>1. ASSUME SafetyInv, ~disturbed
      PROVE  /\ \A c, d \in raw : c = d \/ c \cap d = {}
             /\ \A v, w \in warm : v = w \/ (v.meet # w.meet /\ v.mposts \cap w.mposts = {})
             /\ \A c \in raw, w \in warm : c \cap w.mposts = {}
  <2>1. OnePlace /\ Inventory
    BY <1>1 DEF SafetyInv, CalmInv, InventoryInv
  <2>2. ASSUME NEW v \in warm, NEW w \in warm, NEW m \in v.mposts \cap w.mposts PROVE v = w
    <3>1. v.meet # NoMeet /\ w.meet # NoMeet
      BY <2>1 DEF Inventory, MeetIds, NoMeet
    <3>2. ASSUME NEW x \in warm, m \in x.mposts, <<m, x.meet>> \in pooled
          PROVE  meetOf[m] \in {NoMeet, x.meet}
      <4>1. <<m, x.meet>>[1] = m /\ <<m, x.meet>>[2] = x.meet
        OBVIOUS
      <4> QED
        BY <2>1, <3>2, <4>1 DEF OnePlace, PooledInv
    <3>3. <<m, v.meet>> \in pooled /\ <<m, w.meet>> \in pooled => v.meet = w.meet
      <4>1. <<m, v.meet>>[1] = <<m, w.meet>>[1]
        OBVIOUS
      <4> QED
        BY <2>1, <4>1 DEF OnePlace, PooledInv
    <3>4. v.meet = w.meet
      BY <2>1, <3>1, <3>2, <3>3 DEF OnePlace, WarmInv
    <3> QED
      BY <2>1, <3>4 DEF OnePlace, WarmInv
  <2>3. \A v, w \in warm : v.meet = w.meet => v = w
    BY <2>1 DEF OnePlace, WarmInv
  <2>4. ASSUME NEW c \in raw, NEW w \in warm, NEW m \in c \cap w.mposts PROVE FALSE
    <3>1. meetOf[m] # NoMeet \/ m \in Pooled
      BY <2>1, WarmIsPlaced DEF OnePlace
    <3> QED
      BY <2>1, <3>1 DEF OnePlace, RawInv
  <2> QED
    BY <2>1, <2>2, <2>3, <2>4 DEF OnePlace, RawInv
<1>2. SafetyInv => ClustersDisjoint
  BY <1>1 DEF ClustersDisjoint
<1> QED
  BY <1>2, SafetyInvariant, PTL

\* Whatever mposts are posted, peers or hosts and joins with their guests:
\* clusters stay apart, nobody is forgotten, and exceptions lose no peer.
THEOREM HostedMeetsHold == Spec => []HostedHolds
BY NothingIsForgotten, PeersSurviveExceptions, ClustersAreDisjoint, PTL DEF HostedHolds

\* The clusters in memory agree with mposts.meet_id in the database.
THEOREM MemoryInSync == Spec => []MemoryMatchesDatabase
<1>1. SafetyInv => MemoryMatchesDatabase
  <2> SUFFICES ASSUME SafetyInv, ~disturbed
               PROVE  /\ \A w \in warm : \A m \in w.mposts : meetOf[m] = w.meet \/ <<m, w.meet>> \in pooled
                      /\ \A c \in raw : \A m \in c : meetOf[m] = NoMeet /\ \A p \in pooled : p[1] # m
    BY DEF MemoryMatchesDatabase
  <2>1. WarmInv /\ RawInv
    BY DEF SafetyInv, CalmInv, OnePlace
  <2> QED
    BY <2>1 DEF WarmInv, RawInv, Pooled
<1> QED
  BY <1>1, SafetyInvariant, PTL

\* No step that is not disturbed changes the meet of a mpost that has one.
LEMMA MeetsAreKept ==
  ASSUME SafetyInv, [Next]_vars, ~disturbed', OnePlace, NEW x \in Mposts, meetOf[x] # NoMeet
  PROVE  meetOf'[x] = meetOf[x]
<1> USE DEF dbVars, poolVars, localVars, queueVars, jobVars, endVars, faultVars
<1>a. ~Abort /\ TypeOK
  BY DEF Abort, SafetyInv
<1>1. CASE UNCHANGED meetOf
  BY <1>1
<1>2. ASSUME NEW m \in todo, CreateOrphanMeet(m) PROVE meetOf'[x] = meetOf[x]
  <2>1. meetOf[m] = NoMeet /\ meetOf' = [meetOf EXCEPT ![m] = meetCount + 1]
    BY <1>2 DEF CreateOrphanMeet, ReachPeer
  <2> QED
    BY <1>a, <2>1 DEF TypeOK
<1>3. ASSUME NEW M \in MeetIds, FlushMeet(M) PROVE meetOf'[x] = meetOf[x]
  <2>1. x \notin PooledFor(M)
    <3>1. SUFFICES ASSUME <<x, M>> \in pooled PROVE FALSE
      BY DEF PooledFor
    <3>2. <<x, M>>[1] = x /\ <<x, M>>[2] = M
      OBVIOUS
    <3> QED
      BY <1>3, <3>1, <3>2 DEF FlushMeet, OnePlace, PooledInv
  <2> QED
    BY <1>3, <2>1 DEF FlushMeet
<1>4. ASSUME NEW k \in 1..4, NEW m \in groups, ProcessGroup(k, HostMeet[m])
      PROVE  meetOf'[x] = meetOf[x]
  <2>1. x \notin Group(k, HostMeet[m])
    BY DEF Group, OnePlace, UpstreamInv, Upstream, Untouched
  <2> QED
    BY <1>4, <2>1 DEF ProcessGroup
<1>5. ASSUME NEW c \in raw, CreateMeetFrom(c) PROVE meetOf'[x] = meetOf[x]
  <2>1. x \notin c
    BY DEF OnePlace, RawInv
  <2> QED
    BY <1>5, <2>1 DEF CreateMeetFrom, SeededSets
<1>6. CASE Environment
  BY <1>1, <1>6 DEF Environment, Post, Deliver, Timer
<1>7. CASE UNCHANGED vars
  BY <1>1, <1>7 DEF vars
<1>8. CASE Failure
  BY <1>a, <1>1, <1>8 DEF Failure, RaiseAnywhere, RaiseInFlush, RaiseAfterSplit, Crash
<1>9. CASE ProcessThread
  <2>1. CASE \/ ProcessMpost \/ ProcessMeets \/ SkipProcessMeets \/ PendingDone \/ FlushDone
             \/ GroupsDone \/ ReleaseColdMeets \/ (\E m \in rejected : PutBack(m))
             \/ \E m \in todo : \/ SkipProcessed(m) \/ CollectHostMode(m) \/ AssignToWarmMeet(m)
                                \/ AttachToRawClusters(m) \/ AssignToColdMeet(m) \/ CreateRawCluster(m)
             \/ \E c \in raw : DiscardCluster(c) \/ SkipCluster(c)
    BY <1>1, <2>1 DEF ProcessMpost, ProcessMeets, SkipProcessMeets, PendingDone, FlushDone, GroupsDone,
       PutBack, ReleaseColdMeets, SkipProcessed, CollectHostMode, AssignToWarmMeet, AttachToRawClusters,
       AssignToColdMeet, CreateRawCluster, DiscardCluster, SkipCluster
  <2> QED
    BY <1>a, <1>2, <1>3, <1>4, <1>5, <1>9, <2>1 DEF ProcessThread, RaiseOnScore
<1> QED
  BY <1>6, <1>7, <1>8, <1>9 DEF Next

\* Once a mpost is in a meet it never moves to another one.
THEOREM MeetIsForGood == Spec => MeetNeverChanges
<1>1. ASSUME SafetyInv, [Next]_vars
      PROVE  [\A m \in Mposts : meetOf[m] # NoMeet /\ ~disturbed' => meetOf'[m] = meetOf[m]]_vars
  <2> SUFFICES ASSUME NEW m \in Mposts, meetOf[m] # NoMeet, ~disturbed'
               PROVE  meetOf'[m] = meetOf[m]
    OBVIOUS
  <2>1. OnePlace
    BY <1>1, DisturbedStays DEF SafetyInv, CalmInv
  <2> QED
    BY <1>1, <2>1, MeetsAreKept
<1> QED
  BY <1>1, SafetyInvariant, PTL DEF Spec, MeetNeverChanges

-----------------------------------------------------------------------------
(* The pipeline implements MpostLifecycle.                                 *)

\* What the abstract state of a mpost is, in the four cases.
LEMMA StateCases ==
  ASSUME NEW m \in Mposts
  PROVE  /\ m \notin posted => LifecycleState[m] = "new"
         /\ m \in posted /\ meetOf[m] # NoMeet => LifecycleState[m] = "grouped"
         /\ m \in posted /\ meetOf[m] = NoMeet =>
              LifecycleState[m] = IF m \in discarded \union absorbed THEN "dropped" ELSE "waiting"
BY DEF LifecycleState, Settled

\* The same in the next state.
LEMMA NextStateCases ==
  ASSUME NEW m \in Mposts
  PROVE  /\ m \notin posted' => LifecycleState'[m] = "new"
         /\ m \in posted' /\ meetOf'[m] # NoMeet => LifecycleState'[m] = "grouped"
         /\ m \in posted' /\ meetOf'[m] = NoMeet =>
              LifecycleState'[m] = IF m \in discarded' \union absorbed' THEN "dropped" ELSE "waiting"
BY DEF LifecycleState, Settled

\* The abstract state is a function on mposts, before and after a step.
LEMMA StateIsFunction ==
  /\ LifecycleState = [m \in Mposts |-> LifecycleState[m]]
  /\ LifecycleState' = [m \in Mposts |-> LifecycleState'[m]]
BY DEF LifecycleState

\* A posted mpost that has no outcome yet waits.
IsWaiting(m) ==
  m \in Mposts /\ m \in posted /\ meetOf[m] = NoMeet /\ m \notin discarded \union absorbed

\* A step that changes none of the four variables the abstraction reads is a stutter.
LEMMA Stutters ==
  ASSUME UNCHANGED <<posted, meetOf, discarded, absorbed>>
  PROVE  UNCHANGED <<LifecycleState, meetOf>>
BY DEF LifecycleState, Settled

\* Waiting mposts that get one meet together are grouped.
LEMMA Groups ==
  ASSUME TypeOK, NEW S, S # {}, \A m \in S : IsWaiting(m), NEW M, M # NoMeet,
         meetOf' = [m \in Mposts |-> IF m \in S THEN M ELSE meetOf[m]],
         UNCHANGED <<posted, discarded, absorbed>>
  PROVE  Lifecycle!Next
<1>1. S \in SUBSET Lifecycle!Waiting
  BY StateCases DEF IsWaiting, Lifecycle!Waiting
<1>2. \A m \in Mposts : LifecycleState'[m] = IF m \in S THEN "grouped" ELSE LifecycleState[m]
  <2> SUFFICES ASSUME NEW m \in Mposts
               PROVE  LifecycleState'[m] = IF m \in S THEN "grouped" ELSE LifecycleState[m]
    OBVIOUS
  <2>1. CASE m \in S
    BY <2>1, NextStateCases DEF IsWaiting
  <2>2. CASE m \notin S
    <3>1. meetOf'[m] = meetOf[m]
      BY <2>2
    <3> QED
      BY <2>2, <3>1, StateCases, NextStateCases
  <2> QED
    BY <2>1, <2>2
<1>3. Lifecycle!Become(S, "grouped")
  BY <1>2, StateIsFunction DEF Lifecycle!Become
<1>4. S \subseteq Mposts
  BY DEF IsWaiting
<1>5. Lifecycle!Group(S)
  BY <1>1, <1>3, <1>4 DEF Lifecycle!Group, NoMeet, Lifecycle!NoMeet
<1> QED
  BY <1>1, <1>5 DEF Lifecycle!Next

\* Waiting mposts that are discarded or absorbed are dropped.
LEMMA Drops ==
  ASSUME TypeOK, NEW S, S # {}, \A m \in S : IsWaiting(m),
         discarded' \union absorbed' = discarded \union absorbed \union S,
         UNCHANGED <<posted, meetOf>>
  PROVE  Lifecycle!Next
<1>1. S \in SUBSET Lifecycle!Waiting
  BY StateCases DEF IsWaiting, Lifecycle!Waiting
<1>2. \A m \in Mposts : LifecycleState'[m] = IF m \in S THEN "dropped" ELSE LifecycleState[m]
  <2> SUFFICES ASSUME NEW m \in Mposts
               PROVE  LifecycleState'[m] = IF m \in S THEN "dropped" ELSE LifecycleState[m]
    OBVIOUS
  <2>1. CASE m \in S
    BY <2>1, NextStateCases DEF IsWaiting
  <2>2. CASE m \notin S
    <3>1. m \in discarded' \union absorbed' <=> m \in discarded \union absorbed
      BY <2>2
    <3> QED
      BY <2>2, <3>1, StateCases, NextStateCases
  <2> QED
    BY <2>1, <2>2
<1>3. Lifecycle!Become(S, "dropped")
  BY <1>2, StateIsFunction DEF Lifecycle!Become
<1>4. Lifecycle!Drop(S)
  BY <1>1, <1>3 DEF Lifecycle!Drop
<1> QED
  BY <1>1, <1>4 DEF Lifecycle!Next

\* The web request that posts a mpost saves it.
LEMMA Saves ==
  ASSUME TypeOK, OnlyPosted, NEW m \in Mposts, Post(m)
  PROVE  Lifecycle!Next
<1>1. /\ m \notin posted /\ posted' = posted \union {m}
      /\ UNCHANGED <<meetOf, discarded, absorbed>>
  BY DEF Post, endVars
<1>2. meetOf[m] = NoMeet /\ m \notin discarded \union absorbed
  BY <1>1 DEF OnlyPosted
<1>3. \A x \in Mposts : LifecycleState'[x] = IF x \in {m} THEN "waiting" ELSE LifecycleState[x]
  <2> SUFFICES ASSUME NEW x \in Mposts
               PROVE  LifecycleState'[x] = IF x \in {m} THEN "waiting" ELSE LifecycleState[x]
    OBVIOUS
  <2>1. CASE x = m
    BY <1>1, <1>2, <2>1, NextStateCases
  <2>2. CASE x # m
    BY <1>1, <2>2, StateCases, NextStateCases
  <2> QED
    BY <2>1, <2>2
<1>4. Lifecycle!Become({m}, "waiting")
  BY <1>3, StateIsFunction DEF Lifecycle!Become
<1>5. LifecycleState[m] = "new"
  BY <1>1, StateCases
<1> QED
  BY <1>1, <1>4, <1>5 DEF Lifecycle!Next, Lifecycle!Save

\* What the places a step may take mposts from hold, waits.
LEMMA PlacesWait ==
  ASSUME TypeOK, Inventory, OnlyPosted, OnePlace
  PROVE  /\ phase = "pending" => \A m \in todo : IsWaiting(m)
         /\ \A M : M \notin flushed => \A m \in PooledFor(M) : IsWaiting(m)
         /\ \A m \in groups : IsWaiting(m)
         /\ \A m \in UNION raw : IsWaiting(m)
<1>1. ASSUME NEW m \in Mposts, m \in InMemory PROVE m \in posted
  BY <1>1 DEF OnlyPosted
<1>2. ASSUME phase = "pending", NEW m \in todo PROVE IsWaiting(m)
  <2>1. m \in Upstream /\ m \in Mposts /\ m \in pending
    BY <1>2 DEF Upstream, Unreached, TypeOK, Inventory
  <2>2. Untouched(m) /\ m \in InMemory
    BY <2>1 DEF OnePlace, UpstreamInv, InMemory
  <2> QED
    BY <1>1, <2>1, <2>2 DEF IsWaiting, Untouched
<1>3. ASSUME NEW M, M \notin flushed, NEW m \in PooledFor(M) PROVE IsWaiting(m)
  <2>1. <<m, M>> \in pooled /\ m \in Mposts /\ <<m, M>>[1] = m /\ <<m, M>>[2] = M
    BY DEF PooledFor
  <2>2. meetOf[m] = NoMeet /\ m \notin discarded \union absorbed
    BY <1>3, <2>1 DEF OnePlace, PooledInv
  <2>3. m \in Pooled
    BY <2>1 DEF Pooled
  <2> QED
    BY <1>1, <2>1, <2>2, <2>3 DEF IsWaiting, InMemory
<1>4. ASSUME NEW m \in groups PROVE IsWaiting(m)
  <2>1. m \in Mposts /\ Untouched(m) /\ m \in InMemory
    BY DEF TypeOK, OnePlace, UpstreamInv, Upstream, InMemory, OnlyLocal
  <2> QED
    BY <1>1, <2>1 DEF IsWaiting, Untouched
<1>5. ASSUME NEW m \in UNION raw PROVE IsWaiting(m)
  <2>1. m \in Mposts /\ m \in InMemory
    BY DEF TypeOK, InMemory
  <2> QED
    BY <1>1, <2>1 DEF IsWaiting, OnePlace, RawInv
<1> QED
  BY <1>2, <1>3, <1>4, <1>5

\* Every step of the pipeline is a step of the life of some mposts, or a stutter.
LEMMA LifecycleStep ==
  ASSUME SafetyInv, [Next]_vars, ~disturbed'
  PROVE  Lifecycle!Next \/ UNCHANGED <<LifecycleState, meetOf>>
<1> USE DEF dbVars, poolVars, localVars, queueVars, jobVars, endVars, faultVars
<1>1. TypeOK /\ Inventory /\ OnlyPosted /\ OnePlace
  BY DisturbedStays DEF SafetyInv, InventoryInv, CalmInv
<1>2. ~Abort
  BY DEF Abort
<1>3. CASE Environment
  <2>1. ASSUME NEW m \in Mposts, Post(m) PROVE Lifecycle!Next
    BY <1>1, <2>1, Saves
  <2>2. ASSUME (\E m \in Mposts : Deliver(m)) \/ Timer PROVE UNCHANGED <<LifecycleState, meetOf>>
    BY <2>2, Stutters DEF Deliver, Timer
  <2> QED
    BY <1>3, <2>1, <2>2 DEF Environment
<1>4. ASSUME NEW m \in todo, CreateOrphanMeet(m) PROVE Lifecycle!Next
  <2>1. IsWaiting(m) /\ m \in Mposts
    BY <1>1, <1>4, PlacesWait DEF CreateOrphanMeet, ReachPeer, Reach, TypeOK
  <2>2. meetCount + 1 # NoMeet
    BY <1>1 DEF TypeOK, NoMeet
  <2>3. meetOf' = [x \in Mposts |-> IF x \in {m} THEN meetCount + 1 ELSE meetOf[x]]
    BY <1>1, <1>4, <2>1 DEF CreateOrphanMeet, TypeOK
  <2>4. UNCHANGED <<posted, discarded, absorbed>>
    BY <1>4 DEF CreateOrphanMeet
  <2> QED
    BY <1>1, <2>1, <2>2, <2>3, <2>4, Groups
<1>5. ASSUME NEW M \in MeetIds, FlushMeet(M) PROVE Lifecycle!Next
  <2>1. \A m \in PooledFor(M) : IsWaiting(m)
    BY <1>1, <1>5, PlacesWait DEF FlushMeet
  <2>2. M # NoMeet
    BY DEF MeetIds, NoMeet
  <2>3. /\ PooledFor(M) # {} /\ UNCHANGED <<posted, discarded, absorbed>>
        /\ meetOf' = [m \in Mposts |-> IF m \in PooledFor(M) THEN M ELSE meetOf[m]]
    BY <1>5 DEF FlushMeet
  <2> QED
    BY <1>1, <2>1, <2>2, <2>3, Groups
<1>6. ASSUME NEW k \in 1..4, NEW m \in groups, ProcessGroup(k, HostMeet[m])
      PROVE  Lifecycle!Next \/ UNCHANGED <<LifecycleState, meetOf>>
  <2> DEFINE M == HostMeet[m]
             taken == {x \in Group(k, M) : Accepts(M, x)}
             joins == IF GroupOrder[k] = "host_owner" THEN {} ELSE taken
  <2>1. /\ meetOf' = [x \in Mposts |-> IF x \in joins THEN M ELSE meetOf[x]]
        /\ absorbed' = absorbed \union (taken \ joins)
        /\ UNCHANGED <<posted, discarded>>
    BY <1>6 DEF ProcessGroup
  <2>2. M # NoMeet
    BY <1>1, DataAssumption DEF DataAssumption, NoMeet, TypeOK
  <2>3. \A x \in taken : IsWaiting(x)
    BY <1>1, PlacesWait DEF Group
  <2> HIDE DEF M, taken
  <2>4. CASE joins # {}
    <3>1. joins = taken /\ absorbed' = absorbed
      BY <2>1, <2>4
    <3> QED
      BY <1>1, <2>1, <2>2, <2>3, <2>4, <3>1, Groups
  <2>5. CASE joins = {}
    <3>1. meetOf' = meetOf
      BY <1>1, <2>1, <2>5 DEF TypeOK
    <3>2. absorbed' = absorbed \union taken
      BY <2>1, <2>5
    <3>3. CASE taken = {}
      BY <2>1, <3>1, <3>2, <3>3, Stutters
    <3>4. CASE taken # {}
      <4>1. discarded' \union absorbed' = discarded \union absorbed \union taken
        BY <2>1, <3>2
      <4> QED
        BY <1>1, <2>1, <2>3, <3>1, <3>4, <4>1, Drops
    <3> QED
      BY <3>3, <3>4
  <2> QED
    BY <2>4, <2>5
<1>7. ASSUME NEW c \in raw, DiscardCluster(c)
      PROVE  Lifecycle!Next \/ UNCHANGED <<LifecycleState, meetOf>>
  <2>1. discarded' = discarded \union c /\ UNCHANGED <<posted, meetOf, absorbed>>
    BY <1>7 DEF DiscardCluster
  <2>2. \A m \in c : IsWaiting(m)
    BY <1>1, PlacesWait
  <2>3. CASE c = {}
    BY <2>1, <2>3, Stutters
  <2>4. CASE c # {}
    <3>1. discarded' \union absorbed' = discarded \union absorbed \union c
      BY <2>1
    <3> QED
      BY <1>1, <2>1, <2>2, <2>4, <3>1, Drops
  <2> QED
    BY <2>3, <2>4
<1>8. ASSUME NEW c \in raw, CreateMeetFrom(c) PROVE Lifecycle!Next
  <2>1. PICK g \in SeededSets(c) :
          meetOf' = [m \in Mposts |-> IF m \in g THEN meetCount + 1 ELSE meetOf[m]]
    BY <1>8 DEF CreateMeetFrom
  <2>2. UNCHANGED <<posted, discarded, absorbed>>
    BY <1>8 DEF CreateMeetFrom
  <2>3. g # {} /\ \A m \in g : IsWaiting(m)
    BY <1>1, PlacesWait DEF SeededSets
  <2>4. meetCount + 1 # NoMeet
    BY <1>1 DEF TypeOK, NoMeet
  <2> QED
    BY <1>1, <2>1, <2>2, <2>3, <2>4, Groups
<1>9. CASE ProcessThread
  <2>1. ASSUME \/ ProcessMpost \/ ProcessMeets \/ SkipProcessMeets \/ PendingDone \/ FlushDone
               \/ GroupsDone \/ ReleaseColdMeets \/ (\E m \in rejected : PutBack(m))
               \/ \E m \in todo : \/ SkipProcessed(m) \/ CollectHostMode(m) \/ AssignToWarmMeet(m)
                                  \/ AttachToRawClusters(m) \/ AssignToColdMeet(m) \/ CreateRawCluster(m)
               \/ \E c \in raw : SkipCluster(c)
        PROVE  UNCHANGED <<posted, meetOf, discarded, absorbed>>
    BY <2>1 DEF ProcessMpost, ProcessMeets, SkipProcessMeets, PendingDone, FlushDone, GroupsDone,
       PutBack, ReleaseColdMeets, SkipProcessed, CollectHostMode, AssignToWarmMeet, AttachToRawClusters,
       AssignToColdMeet, CreateRawCluster, SkipCluster
  <2> QED
    BY <1>2, <1>4, <1>5, <1>6, <1>7, <1>8, <1>9, <2>1, Stutters DEF ProcessThread, RaiseOnScore
<1>10. CASE Failure
  BY <1>2, <1>10, Stutters DEF Failure, RaiseAnywhere, RaiseInFlush, RaiseAfterSplit, Crash
<1>11. CASE UNCHANGED vars
  BY <1>11, Stutters DEF vars
<1> QED
  BY <1>3, <1>9, <1>10, <1>11 DEF Next

\* Every behaviour of the pipeline is a behaviour of MpostLifecycle, as long
\* as no job has raised and none was delivered twice.
THEOREM ImplementsLifecycle == Spec => FollowsLifecycle
<1>1. Init => Lifecycle!Init
  <2> SUFFICES ASSUME Init PROVE Lifecycle!Init
    OBVIOUS
  <2>1. posted = {} /\ meetOf = [m \in Mposts |-> NoMeet]
    BY DEF Init
  <2>2. \A m \in Mposts : LifecycleState[m] = "new"
    BY <2>1, StateCases
  <2> QED
    BY <2>1, <2>2, StateIsFunction DEF Lifecycle!Init, NoMeet, Lifecycle!NoMeet
<1>2. ASSUME SafetyInv, [Next]_vars
      PROVE  [Lifecycle!Next \/ disturbed']_<<LifecycleState, meetOf>>
  BY <1>2, LifecycleStep
<1> QED
  BY <1>1, <1>2, SafetyInvariant, PTL DEF Spec, FollowsLifecycle
=============================================================================
