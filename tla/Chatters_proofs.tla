-------------------------- MODULE Chatters_proofs --------------------------
(***************************************************************************)
(* The counters of a meet are exact once its requests are answered, for    *)
(* any number of requests, users, chatters and retries, unless a request   *)
(* died or gave up.  The argument is CounterInv of Chatters: while they    *)
(* are not exact, some request owes a save, and a request about to save    *)
(* has either counted all rows, or will find a newer version, or another   *)
(* request owes a save too.                                                *)
(*                                                                         *)
(* With one process topics and comments stay sound and a delete takes no   *)
(* comment of others.  The argument is OneByOne of ChatterProcesses: what  *)
(* the one request has read of its topic is still true when it acts on it, *)
(* and only the topic whose count it has still to save may be miscounted.  *)
(***************************************************************************)
EXTENDS ChatterProcesses, FiniteSetTheorems, TLAPS

-----------------------------------------------------------------------------
\* Initial tables and requests are well formed.
LEMMA TypeInit ==
  ASSUME Init
  PROVE  TypeOK
<1>1. rows \subseteq Ids /\ placed \subseteq Ids
  BY DEF Init, Ids
<1>2. author \in [Ids -> Users \union {Nobody}]
  BY <1>1 DEF Init
<1>3. topicOf \in [Ids -> Ids \union {NoTopic}]
  <2>1. PICK a \in [rows -> Users \union {Nobody}], t \in [rows -> rows \union {NoTopic}] :
          topicOf = [x \in Ids |-> IF x \in rows THEN t[x] ELSE NoTopic]
    BY DEF Init
  <2> QED
    BY <1>1, <2>1
<1>4. counted \in [Ids -> SUBSET Ids]
  BY <1>1 DEF Init, CommentsOf
<1>5. cached \in [topics : SUBSET Ids, chatters : SUBSET Ids]
  BY <1>1 DEF Init, Actual
<1>6. tries \in [Requests -> 0..Tries]
  BY ChattersAssumption DEF Init
<1>7. copy \in [Requests -> Copies]
  BY DEF Init, NoCopy, Copies
<1> QED
  BY <1>1, <1>2, <1>3, <1>4, <1>5, <1>6, <1>7 DEF Init, TypeOK

\* Counting the rows of the meet gives sets of ids.
LEMMA ActualType ==
  ASSUME TypeOK
  PROVE  /\ Actual \in [topics : SUBSET Ids, chatters : SUBSET Ids]
         /\ \A t : CommentsOf(t) \subseteq Ids
BY DEF TypeOK, Actual, CommentsOf

\* A copy of a chatter stays one when its parent or its count is replaced.
LEMMA CopyUpdates ==
  ASSUME NEW c \in Copies
  PROVE  /\ \A t \in Ids \union {NoTopic} : [c EXCEPT !.parent = t] \in Copies
         /\ \A S \in SUBSET Ids : [c EXCEPT !.counted = S] \in Copies
BY DEF Copies

\* A request that starts keeps the types.
LEMMA TypeStart ==
  ASSUME TypeOK, NEW r \in Requests, NEW k, NEW u \in Users \union {Nobody},
         NEW c \in Ids \union {NoTopic}, NEW next \in {"insert", "load", "save"},
         k \in {"post", "comment", "message", "delete", "touch"}, Start(r, k, u, c, next),
         copy' \in [Requests -> Copies]
  PROVE  TypeOK'
BY DEF TypeOK, Start, GoTo, rowVars, meetVars, failVars

\* Every step keeps the types.
LEMMA TypeStep ==
  ASSUME TypeOK, [Next]_vars
  PROVE  TypeOK'
<1> USE DEF rowVars, meetVars, localVars, lockVars, failVars, GoTo
<1>1. ASSUME NEW r \in Requests, Arrive(r) PROVE TypeOK'
  <2>1. ASSUME NEW u \in Users, StartPost(r, u) PROVE TypeOK'
    <3>1. copy' = copy
      BY <2>1 DEF StartPost
    <3> QED
      BY <2>1, <3>1, TypeStart DEF StartPost, TypeOK
  <2>2. ASSUME NEW u \in Users, StartMessage(r, u) PROVE TypeOK'
    <3>1. copy' = copy
      BY <2>2 DEF StartMessage
    <3> QED
      BY <2>2, <3>1, TypeStart DEF StartMessage, TypeOK
  <2>3. ASSUME NEW u \in Users, NEW c \in Ids, StartComment(r, u, c) PROVE TypeOK'
    <3>1. copy' = copy
      BY <2>3 DEF StartComment
    <3> QED
      BY <2>3, <3>1, TypeStart DEF StartComment, TypeOK
  <2>4. ASSUME NEW u \in Users, NEW c \in Ids, StartDelete(r, u, c) PROVE TypeOK'
    <3>1. [author |-> author[c], topic |-> topicOf[c], parent |-> NoTopic, counted |-> counted[c]]
            \in Copies
      BY DEF TypeOK, Copies
    <3>2. copy' \in [Requests -> Copies]
      BY <2>4, <3>1 DEF StartDelete, TypeOK
    <3> QED
      BY <2>4, <3>2, TypeStart DEF StartDelete
  <2>5. CASE StartTouch(r)
    <3>1. copy' = copy
      BY <2>5 DEF StartTouch
    <3> QED
      BY <2>5, <3>1, TypeStart DEF StartTouch, TypeOK
  <2> QED
    BY <1>1, <2>1, <2>2, <2>3, <2>4, <2>5 DEF Arrive
<1>2. ASSUME NEW r \in Requests, Create(r) PROVE TypeOK'
  <2>1. CASE Insert(r)
    BY <2>1 DEF Insert, TypeOK, Ids
  <2>2. CASE RaiseInMessage(r)
    BY <2>2 DEF RaiseInMessage, TypeOK
  <2>3. CASE Place(r)
    BY <2>3 DEF Place, TypeOK, Ids
  <2>4. CASE Attach(r)
    BY <2>4 DEF Attach, TypeOK
  <2>5. CASE CountComments(r)
    <3>1. CommentsOf(TopicOfRequest(r)) \in SUBSET Ids
      BY ActualType
    <3>2. copy' \in [Requests -> Copies]
      BY <2>5, <3>1, CopyUpdates DEF CountComments, TypeOK
    <3> QED
      BY <2>5, <3>2 DEF CountComments, TypeOK
  <2>6. CASE SaveTopic(r)
    <3>0. copy[r].counted \in SUBSET Ids
      BY DEF TypeOK, Copies
    <3>1. counted' \in [Ids -> SUBSET Ids]
      BY <2>6, <3>0 DEF SaveTopic, TypeOK
    <3> QED
      BY <2>6, <3>1 DEF SaveTopic, TypeOK
  <2> QED
    BY <1>2, <2>1, <2>2, <2>3, <2>4, <2>5, <2>6 DEF Create
<1>3. ASSUME NEW r \in Requests, Delete(r) PROVE TypeOK'
  <2>1. CASE LoadMeet(r)
    <3>0. pc' \in [Requests -> {"new", "insert", "place", "attach", "comments", "save_topic",
                               "load", "read", "drop", "ask", "destroy", "orphan",
                               "topics", "chatters", "save", "done"}]
      BY <2>1 DEF LoadMeet, TypeOK
    <3>1. (IF copy[r].topic \in rows THEN copy[r].topic ELSE NoTopic) \in Ids \union {NoTopic}
      BY DEF TypeOK
    <3>2. copy' \in [Requests -> Copies]
      BY <2>1, <3>1, CopyUpdates DEF LoadMeet, TypeOK
    <3> QED
      BY <2>1, <3>0, <3>2 DEF LoadMeet, TypeOK
  <2>2. CASE ReadComments(r)
    BY <2>2, ActualType DEF ReadComments, TypeOK
  <2>3. ASSUME NEW x \in own[r], DropOwn(r, x) PROVE TypeOK'
    BY <2>3 DEF DropOwn, TypeOK
  <2>4. CASE DropDone(r)
    BY <2>4 DEF DropDone, TypeOK
  <2>5. CASE AskEmpty(r)
    BY <2>5 DEF AskEmpty, TypeOK
  <2>6. CASE Destroy(r)
    BY <2>6 DEF Destroy, TypeOK
  <2>7. CASE Orphan(r)
    <3>0. copy[r].counted \in SUBSET Ids
      BY DEF TypeOK, Copies
    <3>1. author' \in [Ids -> Users \union {Nobody}] /\ counted' \in [Ids -> SUBSET Ids]
      BY <2>7, <3>0 DEF Orphan, TypeOK
    <3> QED
      BY <2>7, <3>1 DEF Orphan, TypeOK
  <2> QED
    BY <1>3, <2>1, <2>2, <2>3, <2>4, <2>5, <2>6, <2>7 DEF Delete
<1>4. ASSUME NEW r \in Requests, Lock(r) PROVE TypeOK'
  <2>1. CASE CountTopics(r)
    BY <2>1, ActualType DEF CountTopics, TypeOK
  <2>2. CASE CountChatters(r)
    BY <2>2, ActualType DEF CountChatters, TypeOK
  <2>3. CASE SaveMeet(r)
    BY <2>3 DEF SaveMeet, AfterSave, TypeOK
  <2>4. CASE Retry(r)
    BY <2>4, ChattersAssumption DEF Retry, TypeOK
  <2>5. CASE GiveUp(r)
    BY <2>5, ChattersAssumption DEF GiveUp, AfterSave, TypeOK
  <2> QED
    BY <1>4, <2>1, <2>2, <2>3, <2>4, <2>5 DEF Lock
<1>5. ASSUME NEW r \in Requests, Fail(r) PROVE TypeOK'
  BY <1>5 DEF Fail, TypeOK
<1>6. CASE UNCHANGED vars
  BY <1>6 DEF vars, TypeOK
<1> QED
  BY <1>1, <1>2, <1>3, <1>4, <1>5, <1>6 DEF Next, Finished

\* The rows, the counters and the requests keep their types.
THEOREM TypeCorrect == Spec => []TypeOK
<1>1. Init => TypeOK
  BY TypeInit
<1>2. TypeOK /\ [Next]_vars => TypeOK'
  BY TypeStep
<1> QED
  BY <1>1, <1>2, PTL DEF Spec

-----------------------------------------------------------------------------
\* What a step of request r leaves alone of the others.
Others(r) ==
  \A q \in Requests \ {r} :
    /\ pc'[q] = pc[q] /\ kind'[q] = kind[q] /\ owes'[q] = owes[q]
    /\ loaded'[q] = loaded[q] /\ tally'[q] = tally[q]

\* What CounterInv says of r alone, after its step.
Self(r) ==
  /\ owes[r] => r \in InFlight
  /\ loaded[r] <= version
  /\ kind[r] = "touch" => pc[r] \in {"new", "save", "done"} /\ ~owes[r]
  /\ pc[r] \in {"new", "insert", "place"} => r \notin placed /\ ~owes[r]
  /\ pc[r] = "attach" => owes[r] /\ kind[r] = "comment"
  /\ pc[r] \in {"comments", "save_topic"} /\ kind[r] = "delete" => ~owes[r]

\* The part of CounterInv that speaks of one request at a time.
LEMMA SelfStep ==
  ASSUME CounterInv, TypeOK', NEW r \in Requests, Others(r), Self(r)',
         version' \in {version, version + 1}, placed' \in {placed, placed \union {r}}
  PROVE  InFlightOwes' /\ NoFuture' /\ TouchSaves' /\ Placement'
<1>1. ASSUME NEW q \in Requests PROVE Self(q)'
  <2>1. CASE q = r
    BY <2>1
  <2>2. CASE q # r
    <3>1. /\ pc'[q] = pc[q] /\ kind'[q] = kind[q] /\ owes'[q] = owes[q]
          /\ loaded'[q] = loaded[q]
      BY <2>2 DEF Others
    <3>2. loaded'[q] <= version'
      <4>1. loaded[q] \in Nat /\ version \in Nat /\ loaded[q] <= version
        BY DEF CounterInv, TypeOK, NoFuture
      <4> QED
        BY <3>1, <4>1
    <3>3. (owes[q] => q \in InFlight)'
      BY <3>1 DEF InFlight, CounterInv, InFlightOwes
    <3>4. (kind[q] = "touch" => pc[q] \in {"new", "save", "done"} /\ ~owes[q])'
      BY <3>1 DEF CounterInv, TouchSaves
    <3>5. /\ (pc[q] \in {"new", "insert", "place"} => q \notin placed /\ ~owes[q])'
          /\ (pc[q] = "attach" => owes[q] /\ kind[q] = "comment")'
          /\ (pc[q] \in {"comments", "save_topic"} /\ kind[q] = "delete" => ~owes[q])'
      <4>1. /\ pc[q] \in {"new", "insert", "place"} => q \notin placed /\ ~owes[q]
            /\ pc[q] = "attach" => owes[q] /\ kind[q] = "comment"
            /\ pc[q] \in {"comments", "save_topic"} /\ kind[q] = "delete" => ~owes[q]
        BY DEF CounterInv, Placement
      <4>2. q \notin placed => q \notin placed'
        BY <2>2
      <4> QED
        BY <3>1, <4>1, <4>2
    <3> QED
      BY <3>2, <3>3, <3>4, <3>5 DEF Self
  <2> QED
    BY <2>1, <2>2
<1> QED
  BY <1>1 DEF Self, InFlightOwes, NoFuture, TouchSaves, Placement

\* A step that changes no row of the meet and saves no counter.
LEMMA QuietStep ==
  ASSUME CounterInv, NEW r \in Requests, Others(r),
         Actual' = Actual, UNCHANGED <<cached, version>>,
         disturbed => disturbed', owes[r] => owes'[r] \/ disturbed',
         kind'[r] # "touch" /\ loaded'[r] = version =>
           /\ pc'[r] = "chatters" => tally'[r].topics = Actual.topics \/ disturbed' \/ OtherOwes(r)
           /\ pc'[r] = "save" => tally'[r] = Actual \/ disturbed' \/ OtherOwes(r)
  PROVE  Owed' /\ Tallied'
<1>1. ASSUME NEW q \in Requests, OtherOwes(q) PROVE disturbed' \/ OtherOwes(q)'
  BY <1>1 DEF OtherOwes, Others
<1>2. Owed'
  BY DEF CounterInv, Owed, Others
<1>3. ASSUME NEW q \in Requests, kind'[q] # "touch", loaded'[q] = version'
      PROVE  /\ pc'[q] = "chatters" => (tally[q].topics = Actual.topics \/ disturbed \/ OtherOwes(q))'
             /\ pc'[q] = "save" => (tally[q] = Actual \/ disturbed \/ OtherOwes(q))'
  <2>1. CASE q = r
    BY <1>1, <1>3, <2>1
  <2>2. CASE q # r
    BY <1>1, <1>3, <2>2 DEF CounterInv, Tallied, Others
  <2> QED
    BY <2>1, <2>2
<1> QED
  BY <1>2, <1>3 DEF Tallied

\* A step that changes rows of the meet: from now on r owes a save.
LEMMA RowStep ==
  ASSUME CounterInv, NEW r \in Requests, Others(r),
         owes'[r], pc'[r] \notin {"chatters", "save"}
  PROVE  Owed' /\ Tallied'
<1>1. ASSUME NEW q \in Requests \ {r} PROVE OtherOwes(q)'
  BY <1>1 DEF OtherOwes
<1> QED
  BY <1>1 DEF Owed, Tallied

\* A save of the counters: every older copy of the meet is stale from now on.
LEMMA SaveStep ==
  ASSUME CounterInv, NEW r \in Requests, Others(r),
         Actual' = Actual, version' = version + 1, disturbed' = disturbed,
         pc'[r] \notin {"chatters", "save"},
         \/ cached' = Actual \/ disturbed \/ OtherOwes(r)
         \/ cached' = cached /\ ~owes[r]
  PROVE  Owed' /\ Tallied'
<1>1. Owed'
  BY DEF CounterInv, Owed, OtherOwes, Others
<1>2. ASSUME NEW q \in Requests \ {r} PROVE loaded'[q] # version'
  <2>1. loaded[q] \in Nat /\ version \in Nat /\ loaded[q] <= version
    BY DEF CounterInv, TypeOK, NoFuture
  <2> QED
    BY <2>1 DEF Others
<1> QED
  BY <1>1, <1>2 DEF Tallied

-----------------------------------------------------------------------------
\* A start: the request joins, with the current version and no debt.
LEMMA StartStep ==
  ASSUME CounterInv, TypeOK', NEW r \in Requests, NEW k, NEW u, NEW c,
         NEW next \in {"insert", "load", "save"}, k = "touch" <=> next = "save",
         Start(r, k, u, c, next)
  PROVE  CounterInv'
<1>1. Others(r)
  BY DEF Others, Start, GoTo, CounterInv, TypeOK
<1>2. /\ pc'[r] = next /\ kind'[r] = k /\ owes'[r] = owes[r] /\ loaded'[r] = version
      /\ pc[r] = "new"
  BY DEF Start, GoTo, CounterInv, TypeOK
<1>3. ~owes[r] /\ r \notin placed
  BY <1>2 DEF CounterInv, InFlightOwes, InFlight, Placement
<1>4. version' = version /\ version \in Nat /\ placed' = placed /\ UNCHANGED <<cached, disturbed>>
  BY DEF Start, rowVars, meetVars, failVars, CounterInv, TypeOK
<1>5. Self(r)'
  BY <1>2, <1>3, <1>4 DEF Self
<1>6. InFlightOwes' /\ NoFuture' /\ TouchSaves' /\ Placement'
  BY <1>1, <1>4, <1>5, SelfStep
<1>7. Actual' = Actual
  BY DEF Start, rowVars, Actual
<1>8. Owed' /\ Tallied'
  BY <1>1, <1>2, <1>3, <1>4, <1>7, QuietStep
<1> QED
  BY <1>6, <1>8 DEF CounterInv

\* Every way a request can start.
LEMMA ArriveStep ==
  ASSUME CounterInv, NEW r \in Requests, Arrive(r)
  PROVE  CounterInv'
<1>1. TypeOK'
  BY TypeStep DEF CounterInv, Next
<1>2. ASSUME NEW u \in Users, StartPost(r, u) PROVE CounterInv'
  BY <1>1, <1>2, StartStep DEF StartPost
<1>3. ASSUME NEW u \in Users, StartMessage(r, u) PROVE CounterInv'
  BY <1>1, <1>3, StartStep DEF StartMessage
<1>4. ASSUME NEW u \in Users, NEW c \in Ids, StartComment(r, u, c) PROVE CounterInv'
  BY <1>1, <1>4, StartStep DEF StartComment
<1>5. ASSUME NEW u \in Users, NEW c \in Ids, StartDelete(r, u, c) PROVE CounterInv'
  BY <1>1, <1>5, StartStep DEF StartDelete
<1>6. CASE StartTouch(r)
  BY <1>1, <1>6, StartStep DEF StartTouch
<1> QED
  BY <1>2, <1>3, <1>4, <1>5, <1>6 DEF Arrive

\* What CounterInv says of request r alone, before its step.
LEMMA SelfBefore ==
  ASSUME CounterInv, NEW r \in Requests
  PROVE  Self(r) /\ version \in Nat /\ loaded[r] \in Nat
BY DEF CounterInv, Self, TypeOK, InFlightOwes, NoFuture, TouchSaves, Placement

\* The steps of ChattersController#create.
LEMMA CreateStep ==
  ASSUME CounterInv, NEW r \in Requests, Create(r)
  PROVE  CounterInv'
<1> USE DEF rowVars, meetVars, localVars, lockVars, failVars
<1>1. TypeOK'
  BY TypeStep DEF CounterInv, Next
<1>2. /\ Others(r) /\ version' = version /\ cached' = cached /\ disturbed' = disturbed
      /\ placed' \in {placed, placed \union {r}}
      /\ kind'[r] = kind[r] /\ loaded'[r] = loaded[r] /\ kind[r] # "touch"
  BY SelfBefore DEF Create, Insert, RaiseInMessage, Place, Attach, CountComments, SaveTopic,
     GoTo, Others, Self, CounterInv, TypeOK
<1>3. ASSUME Self(r)', Owed', Tallied' PROVE CounterInv'
  BY <1>1, <1>2, <1>3, SelfStep DEF CounterInv
<1>4. ASSUME Self(r)', Actual' = Actual, owes'[r] = owes[r], pc'[r] \notin {"chatters", "save"}
      PROVE  CounterInv'
  BY <1>2, <1>3, <1>4, QuietStep
<1>5. ASSUME Self(r)', owes'[r], pc'[r] \notin {"chatters", "save"} PROVE CounterInv'
  BY <1>2, <1>3, <1>5, RowStep
<1>6. CASE Insert(r)
  <2>1. pc'[r] = "place" /\ owes' = owes /\ r \notin placed /\ ~owes[r]
    BY <1>6, SelfBefore DEF Insert, GoTo, Self, CounterInv, TypeOK
  <2>2. Self(r)'
    BY <1>2, <1>6, <2>1, SelfBefore DEF Insert, Self
  <2>3. Actual' = Actual
    BY <1>6, <2>1 DEF Insert, Actual
  <2> QED
    BY <1>4, <2>1, <2>2, <2>3
<1>7. CASE RaiseInMessage(r)
  <2>1. pc'[r] = "done" /\ owes' = owes /\ ~owes[r]
    BY <1>7, SelfBefore DEF RaiseInMessage, GoTo, Self, CounterInv, TypeOK
  <2>2. Self(r)' /\ Actual' = Actual
    BY <1>2, <1>7, <2>1, SelfBefore DEF RaiseInMessage, Self, Actual
  <2> QED
    BY <1>4, <2>1, <2>2
<1>8. CASE Place(r)
  <2>1. /\ pc'[r] \in {"attach", "topics"} /\ owes'[r]
        /\ pc'[r] = "attach" => kind[r] = "comment"
    BY <1>8 DEF Place, GoTo, CounterInv, TypeOK
  <2>2. Self(r)'
    BY <1>2, <2>1, SelfBefore DEF Self, InFlight
  <2> QED
    BY <1>5, <2>1, <2>2
<1>9. CASE Attach(r)
  <2>1. pc'[r] = "comments" /\ owes'[r]
    BY <1>9, SelfBefore DEF Attach, GoTo, Self, CounterInv, TypeOK
  <2>2. kind[r] = "comment"
    BY <1>9, SelfBefore DEF Attach, Self
  <2>3. Self(r)'
    BY <1>2, <2>1, <2>2, SelfBefore DEF Self, InFlight
  <2> QED
    BY <1>5, <2>1, <2>3
<1>10. CASE CountComments(r)
  <2>1. pc'[r] = "save_topic" /\ owes' = owes /\ pc[r] = "comments"
    BY <1>10 DEF CountComments, GoTo, CounterInv, TypeOK
  <2>2. Self(r)' /\ Actual' = Actual
    BY <1>2, <1>10, <2>1, SelfBefore DEF CountComments, Self, InFlight, Actual
  <2> QED
    BY <1>4, <2>1, <2>2
<1>11. CASE SaveTopic(r)
  <2>1. /\ pc'[r] = IF kind[r] = "delete" THEN "done" ELSE "topics"
        /\ owes' = owes /\ pc[r] = "save_topic"
    BY <1>11 DEF SaveTopic, GoTo, CounterInv, TypeOK
  <2>2. Self(r)' /\ Actual' = Actual
    BY <1>2, <1>11, <2>1, SelfBefore DEF SaveTopic, Self, InFlight, Actual
  <2> QED
    BY <1>4, <2>1, <2>2
<1> QED
  BY <1>6, <1>7, <1>8, <1>9, <1>10, <1>11 DEF Create

\* The steps of delete_chatters.
LEMMA DeleteStep ==
  ASSUME CounterInv, NEW r \in Requests, Delete(r)
  PROVE  CounterInv'
<1> USE DEF rowVars, meetVars, localVars, lockVars, failVars
<1>1. TypeOK'
  BY TypeStep DEF CounterInv, Next
<1>2. /\ Others(r) /\ version' = version /\ cached' = cached /\ disturbed' = disturbed
      /\ placed' = placed /\ kind'[r] = kind[r] /\ loaded'[r] \in {loaded[r], version}
      /\ pc[r] \in {"load", "read", "drop", "ask", "destroy", "orphan"}
      /\ pc'[r] \in {"read", "drop", "ask", "destroy", "orphan", "topics", "done"}
  BY DEF Delete, LoadMeet, ReadComments, DropOwn, DropDone, AskEmpty, Destroy, Orphan,
     GoTo, Others, CounterInv, TypeOK
<1>3. ASSUME owes'[r] => pc'[r] # "done" PROVE Self(r)'
  BY <1>2, <1>3, SelfBefore DEF Self, InFlight
<1>4. ASSUME Self(r)', Owed', Tallied' PROVE CounterInv'
  BY <1>1, <1>2, <1>4, SelfStep DEF CounterInv
<1>5. ASSUME Actual' = Actual, owes' = owes, owes'[r] => pc'[r] # "done" PROVE CounterInv'
  BY <1>2, <1>3, <1>4, <1>5, QuietStep
<1>6. ASSUME owes'[r], pc'[r] # "done" PROVE CounterInv'
  BY <1>2, <1>3, <1>4, <1>6, RowStep
<1>7. CASE LoadMeet(r)
  BY <1>5, <1>7 DEF LoadMeet, GoTo, Actual, CounterInv, TypeOK
<1>8. CASE ReadComments(r)
  BY <1>5, <1>8 DEF ReadComments, GoTo, Actual, CounterInv, TypeOK
<1>9. ASSUME NEW x \in own[r], DropOwn(r, x) PROVE CounterInv'
  BY <1>6, <1>9 DEF DropOwn, CounterInv, TypeOK
<1>10. CASE DropDone(r)
  BY <1>5, <1>10 DEF DropDone, GoTo, Actual, CounterInv, TypeOK
<1>11. CASE AskEmpty(r)
  BY <1>5, <1>11 DEF AskEmpty, GoTo, Actual, CounterInv, TypeOK
<1>12. CASE Destroy(r)
  BY <1>6, <1>12 DEF Destroy, GoTo, CounterInv, TypeOK
<1>13. CASE Orphan(r)
  BY <1>5, <1>13 DEF Orphan, GoTo, Actual, CounterInv, TypeOK
<1> QED
  BY <1>7, <1>8, <1>9, <1>10, <1>11, <1>12, <1>13 DEF Delete

\* The steps of opt_lock_protected, and the failures.
LEMMA LockStep ==
  ASSUME CounterInv, NEW r \in Requests, Lock(r) \/ Fail(r)
  PROVE  CounterInv'
<1> USE DEF rowVars, meetVars, localVars, lockVars, failVars
<1>1. TypeOK'
  BY TypeStep DEF CounterInv, Next
<1>2. Others(r) /\ Actual' = Actual /\ kind'[r] = kind[r] /\ placed' = placed
  <2>1. UNCHANGED <<rows, topicOf, placed, kind>>
    BY DEF Lock, CountTopics, CountChatters, SaveMeet, Retry, GiveUp, Fail
  <2>2. ASSUME NEW q \in Requests \ {r}
        PROVE  /\ pc'[q] = pc[q] /\ owes'[q] = owes[q]
               /\ loaded'[q] = loaded[q] /\ tally'[q] = tally[q]
    <3> USE DEF GoTo, CounterInv, TypeOK
    <3>1. CASE CountTopics(r) \/ CountChatters(r)
      BY <2>2, <3>1 DEF CountTopics, CountChatters
    <3>2. CASE SaveMeet(r) \/ Retry(r)
      BY <2>2, <3>2 DEF SaveMeet, Retry
    <3>3. CASE GiveUp(r) \/ Fail(r)
      BY <2>2, <3>3 DEF GiveUp, Fail
    <3> QED
      BY <3>1, <3>2, <3>3 DEF Lock
  <2> QED
    BY <2>1, <2>2 DEF Others, Actual
<1>3. ASSUME Self(r)', version' \in {version, version + 1}, Owed', Tallied' PROVE CounterInv'
  BY <1>1, <1>2, <1>3, SelfStep DEF CounterInv
<1>4. CASE CountTopics(r)
  <2>1. /\ pc[r] = "topics" /\ pc'[r] = "chatters" /\ owes' = owes /\ loaded' = loaded
        /\ version' = version /\ cached' = cached /\ disturbed' = disturbed
        /\ tally'[r].topics = Actual.topics
    BY <1>4 DEF CountTopics, GoTo, CounterInv, TypeOK
  <2>2. Self(r)'
    BY <1>2, <2>1, SelfBefore DEF Self, InFlight
  <2> QED
    BY <1>2, <1>3, <2>1, <2>2, QuietStep
<1>5. CASE CountChatters(r)
  <2>1. /\ pc[r] = "chatters" /\ pc'[r] = "save" /\ owes' = owes /\ loaded' = loaded
        /\ version' = version /\ cached' = cached /\ disturbed' = disturbed
        /\ tally'[r] = [tally[r] EXCEPT !.chatters = Actual.chatters]
        /\ tally[r] \in [topics : SUBSET Ids, chatters : SUBSET Ids]
    BY <1>5 DEF CountChatters, GoTo, CounterInv, TypeOK
  <2>2. tally[r].topics = Actual.topics => tally'[r] = Actual
    BY <2>1 DEF Actual
  <2>3. kind[r] # "touch" /\ loaded[r] = version =>
          tally'[r] = Actual \/ disturbed' \/ OtherOwes(r)
    BY <2>1, <2>2 DEF CounterInv, Tallied
  <2>4. Self(r)'
    BY <1>2, <2>1, SelfBefore DEF Self, InFlight
  <2> QED
    BY <1>2, <1>3, <2>1, <2>3, <2>4, QuietStep
<1>6. CASE SaveMeet(r)
  <2>1. /\ pc[r] = "save" /\ pc'[r] \in {"comments", "done"} /\ ~owes'[r]
        /\ loaded[r] = version /\ loaded' = loaded
        /\ version' = version + 1 /\ disturbed' = disturbed
        /\ cached' = IF kind[r] = "touch" THEN cached ELSE tally[r]
    BY <1>6 DEF SaveMeet, AfterSave, GoTo, CounterInv, TypeOK
  <2>2. \/ cached' = Actual \/ disturbed \/ OtherOwes(r)
        \/ cached' = cached /\ ~owes[r]
    BY <2>1 DEF CounterInv, Tallied, TouchSaves
  <2>3. kind[r] = "touch" => pc'[r] = "done"
    BY <1>6 DEF SaveMeet, AfterSave, GoTo, CounterInv, TypeOK
  <2>4. Self(r)'
    BY <1>2, <2>1, <2>3, SelfBefore DEF Self, InFlight
  <2> QED
    BY <1>2, <1>3, <2>1, <2>2, <2>4, SaveStep
<1>7. CASE Retry(r)
  <2>1. /\ pc[r] = "save" /\ owes' = owes /\ loaded'[r] = version
        /\ pc'[r] = IF kind[r] = "touch" THEN "save" ELSE "topics"
        /\ version' = version /\ cached' = cached /\ disturbed' = disturbed
    BY <1>7 DEF Retry, GoTo, CounterInv, TypeOK
  <2>2. Self(r)'
    BY <1>2, <2>1, SelfBefore DEF Self, InFlight
  <2> QED
    BY <1>2, <1>3, <2>1, <2>2, QuietStep
<1>8. CASE GiveUp(r) \/ Fail(r)
  <2>1. /\ pc'[r] \in {"comments", "done"} /\ ~owes'[r] /\ loaded'[r] \in {loaded[r], version}
        /\ disturbed' = (disturbed \/ owes[r])
        /\ version' = version /\ cached' = cached
        /\ kind[r] = "touch" => pc'[r] = "done"
    BY <1>8 DEF GiveUp, Fail, AfterSave, GoTo, CounterInv, TypeOK
  <2>2. Self(r)'
    BY <1>2, <2>1, SelfBefore DEF Self, InFlight
  <2> QED
    BY <1>2, <1>3, <2>1, <2>2, QuietStep
<1> QED
  BY <1>4, <1>5, <1>6, <1>7, <1>8 DEF Lock

\* The invariant holds at the start: counters are exact and nothing is owed.
LEMMA CounterInit ==
  ASSUME Init
  PROVE  CounterInv
<1>1. TypeOK
  BY TypeInit
<1>2. \A r \in Requests : pc[r] = "new" /\ kind[r] = "post" /\ ~owes[r] /\ loaded[r] = 0
  BY DEF Init
<1>3. \A r \in Requests : r \notin placed
  BY ChattersAssumption DEF Init
<1>4. cached = Actual /\ version = 0
  BY DEF Init
<1> QED
  BY <1>1, <1>2, <1>3, <1>4
     DEF CounterInv, Owed, Tallied, InFlightOwes, NoFuture, TouchSaves, Placement

\* Every step keeps the invariant.
LEMMA CounterStep ==
  ASSUME CounterInv, [Next]_vars
  PROVE  CounterInv'
<1>1. CASE UNCHANGED vars
  <2>1. TypeOK'
    BY TypeStep DEF CounterInv
  <2> QED
    BY <1>1, <2>1 DEF vars, rowVars, meetVars, localVars, lockVars, failVars, CounterInv, Owed,
       Tallied, InFlightOwes, InFlight, NoFuture, TouchSaves, Placement, OtherOwes, Actual
<1>2. CASE \E r \in Requests : Arrive(r) \/ Create(r) \/ Delete(r) \/ Lock(r) \/ Fail(r)
  BY <1>2, ArriveStep, CreateStep, DeleteStep, LockStep
<1> QED
  BY <1>1, <1>2 DEF Next, Finished

\* Once all requests are answered, the meet's counters are those of its rows, unless a
\* request died or gave up: for any number of requests, chatters, workers and retries.
THEOREM CountersAreRight == Spec => []CountersSettle
<1>1. Init => CounterInv
  BY CounterInit
<1>2. CounterInv /\ [Next]_vars => CounterInv'
  BY CounterStep
<1>3. CounterInv => CountersSettle
  BY DEF CounterInv, Owed, InFlightOwes, CountersSettle, Quiet
<1> QED
  BY <1>1, <1>2, <1>3, PTL DEF Spec

-----------------------------------------------------------------------------
(* One process: the requests come one after the other.                     *)

\* While r is answered no other request is.
LEMMA OthersRest ==
  ASSUME OneByOne, NEW r \in InFlight
  PROVE  \A q \in Requests \ {r} : pc[q] \in {"new", "done"}
BY DEF OneByOne, InFlight

\* With one process at most one request is in flight after a step of r.
LEMMA OneInFlight ==
  ASSUME OneByOne, NEW r \in Requests, \A q \in Requests \ {r} : pc'[q] = pc[q],
         Cardinality(InFlight') <= 1
  PROVE  IsFiniteSet(InFlight') /\ \A q, s \in InFlight' : q = s
<1>1. IsFiniteSet(InFlight')
  <2>1. InFlight' \in SUBSET (InFlight \union {r})
    BY DEF InFlight
  <2>2. IsFiniteSet(InFlight \union {r})
    BY FS_AddElement DEF OneByOne
  <2> QED
    BY <2>1, <2>2, FS_Subset
<1>2. ASSUME NEW q \in InFlight', NEW s \in InFlight', q # s PROVE FALSE
  <2>1. IsFiniteSet({q}) /\ Cardinality({q}) = 1
    BY FS_Singleton
  <2>2. IsFiniteSet({q} \union {s}) /\ Cardinality({q} \union {s}) = Cardinality({q}) + 1
    BY <1>2, <2>1, FS_AddElement
  <2>3. {q} \union {s} \in SUBSET InFlight'
    OBVIOUS
  <2>4. Cardinality({q} \union {s}) <= Cardinality(InFlight') /\ Cardinality(InFlight') \in Nat
    BY <1>1, <2>3, FS_Subset, FS_CardinalityType
  <2> QED
    BY <2>1, <2>2, <2>4
<1> QED
  BY <1>1, <1>2

\* What a step of r has to show; the requests that rest keep their part.
StepOf(r) ==
  /\ \A q \in Requests \ {r} : pc[q] \in {"new", "done"} /\ pc'[q] = pc[q]
  /\ \A q \in Requests \ {r} : /\ topicOf'[q] = topicOf[q]
                               /\ q \notin rows => q \notin rows' /\ counted'[q] = counted[q]
  /\ CommentsHaveTopics' /\ CommentsUnderTopics' /\ CountsDue'
  /\ Unborn(r)' /\ NewRow(r)' /\ OldRow(r)'

LEMMA StepIsEnough ==
  ASSUME OneByOne, NEW r \in Requests, StepOf(r), Cardinality(InFlight') <= 1
  PROVE  OneByOne'
<1>1. IsFiniteSet(InFlight') /\ \A q, s \in InFlight' : q = s
  BY OneInFlight DEF StepOf
<1>2. ASSUME NEW q \in Requests \ {r} PROVE Unborn(q)' /\ NewRow(q)' /\ OldRow(q)'
  <2>1. pc'[q] \in {"new", "done"} /\ pc'[q] = pc[q]
    BY DEF StepOf
  <2>2. Unborn(q)'
    BY <2>1 DEF StepOf, OneByOne, Unborn
  <2>3. NewRow(q)' /\ OldRow(q)'
    BY <2>1 DEF NewRow, OldRow, Deleting
  <2> QED
    BY <2>2, <2>3
<1>3. \A q \in Requests : Unborn(q)' /\ NewRow(q)' /\ OldRow(q)'
  BY <1>2 DEF StepOf
<1> QED
  BY <1>1, <1>3 DEF StepOf, OneByOne

\* A step that leaves the table and its topics alone.
LEMMA SameRows ==
  ASSUME OneByOne, UNCHANGED <<rows, topicOf>>
  PROVE  /\ \A t : CommentsOf(t)' = CommentsOf(t)
         /\ CommentsHaveTopics' /\ CommentsUnderTopics'
BY DEF OneByOne, CommentsOf, CommentsHaveTopics, CommentsUnderTopics

\* It keeps the counts if what was due is still due.
LEMMA SameCounts ==
  ASSUME TypeOK, OneByOne, NEW r \in Requests, UNCHANGED <<rows, topicOf, author, counted>>,
         \A q \in Requests \ {r} : pc[q] \in {"new", "done"} /\ pc'[q] = pc[q],
         failures' = 0 => failures = 0,
         r \in InFlight => Due(r) = NoTopic \/ (r \in InFlight' /\ Due(r)' = Due(r)),
         pc'[r] = "save_topic" => copy'[r].counted = CommentsOf(TopicOfRequest(r)')
  PROVE  CountsDue'
<1> SUFFICES ASSUME failures' = 0 PROVE CountsDue'
  BY DEF CountsDue
<1>1. \A t : CommentsOf(t)' = CommentsOf(t)
  BY SameRows
<1>2. NoTopic \notin rows
  BY ChattersAssumption DEF TypeOK
<1>3. ASSUME NEW t \in rows, author[t] # Nobody, counted[t] # CommentsOf(t)
      PROVE  \E q \in InFlight' : t = Due(q)'
  <2>1. PICK q \in InFlight : t = Due(q)
    BY <1>3 DEF OneByOne, CountsDue
  <2>2. q = r
    BY <2>1 DEF InFlight
  <2> QED
    BY <1>2, <2>1, <2>2
<1>4. ASSUME NEW q \in Requests, pc'[q] = "save_topic"
      PROVE  copy'[q].counted = CommentsOf(TopicOfRequest(q))'
  <2>1. q = r
    BY <1>4
  <2> QED
    BY <1>1, <1>4, <2>1
<1> QED
  BY <1>1, <1>3, <1>4 DEF CountsDue

\* A request that starts has read what is true.
LEMMA TopicsArrive ==
  ASSUME TypeOK, OneByOne, NEW r \in Requests, Arrive(r), Cardinality(InFlight') <= 1
  PROVE  OneByOne'
<1>1. /\ UNCHANGED <<rows, author, topicOf, placed, counted, failures>>
      /\ pc[r] = "new" /\ \A q \in Requests \ {r} : pc'[q] = pc[q]
      /\ pc'[r] \in {"insert", "load", "save"}
  BY DEF Arrive, StartPost, StartMessage, StartComment, StartDelete, StartTouch, Start, GoTo,
     rowVars, failVars, TypeOK
<1>2. \A q \in Requests \ {r} : pc[q] \in {"new", "done"}
  <2>1. IsFiniteSet(InFlight') /\ \A q, s \in InFlight' : q = s
    BY <1>1, OneInFlight
  <2>2. r \in InFlight'
    BY <1>1 DEF InFlight
  <2> QED
    BY <1>1, <2>1, <2>2 DEF InFlight
<1>3. CountsDue'
  BY <1>1, <1>2, SameCounts DEF InFlight
<1>4. r \notin rows /\ topicOf[r] = NoTopic /\ counted[r] = {}
  BY <1>1 DEF OneByOne, Unborn
<1>5. Unborn(r)' /\ NewRow(r)' /\ OldRow(r)'
  <2>1. CASE \E u \in Users : StartPost(r, u) \/ StartMessage(r, u)
    BY <2>1, <1>1, <1>4 DEF StartPost, StartMessage, Start, GoTo, TypeOK, Unborn, NewRow, OldRow, Deleting
  <2>2. ASSUME NEW u \in Users, NEW c \in Ids, StartComment(r, u, c)
        PROVE  Unborn(r)' /\ NewRow(r)' /\ OldRow(r)'
    BY <2>2, <1>1, <1>4 DEF StartComment, Start, GoTo, TypeOK, Unborn, NewRow, OldRow, Deleting
  <2>3. ASSUME NEW u \in Users, NEW c \in Ids, StartDelete(r, u, c)
        PROVE  Unborn(r)' /\ NewRow(r)' /\ OldRow(r)'
    BY <2>3, <1>1, <1>4 DEF StartDelete, Start, GoTo, TypeOK, Unborn, NewRow, OldRow, Deleting
  <2>4. CASE StartTouch(r)
    BY <2>4, <1>1, <1>4 DEF StartTouch, Start, GoTo, TypeOK, Unborn, NewRow, OldRow, Deleting
  <2> QED
    BY <2>1, <2>2, <2>3, <2>4 DEF Arrive
<1>6. StepOf(r)
  BY <1>1, <1>2, <1>3, <1>5, SameRows DEF StepOf
<1> QED
  BY <1>6, StepIsEnough

\* A new row comes without comments, and the topic it is attached to gets its count.
LEMMA TopicsCreate ==
  ASSUME TypeOK, OneByOne, NEW r \in Requests, Create(r)
  PROVE  StepOf(r)
<1>1. /\ UNCHANGED <<kind, by, on, failures>>
      /\ pc[r] \in {"insert", "place", "attach", "comments", "save_topic"}
      /\ \A q \in Requests \ {r} : pc'[q] = pc[q]
  BY DEF Create, Insert, RaiseInMessage, Place, Attach, CountComments, SaveTopic, GoTo, localVars,
     failVars, TypeOK
<1>2. r \in InFlight /\ r \in Ids /\ NoTopic \notin Ids /\ rows \subseteq Ids
  BY <1>1, ChattersAssumption DEF InFlight, Ids, TypeOK
<1>3. \A q \in Requests \ {r} : pc[q] \in {"new", "done"}
  BY <1>2, OthersRest
<1>4. Unborn(r) /\ NewRow(r) /\ OldRow(r) /\ CommentsHaveTopics /\ CommentsUnderTopics
  BY DEF OneByOne
<1>5. CASE Insert(r)
  <2>1. /\ pc[r] = "insert" /\ pc'[r] = "place" /\ rows' = rows \union {r}
        /\ UNCHANGED <<topicOf, counted, copy>> /\ author' = [author EXCEPT ![r] = by[r]]
        /\ r \notin rows /\ topicOf[r] = NoTopic /\ counted[r] = {} /\ kind[r] # "delete"
    BY <1>4, <1>5 DEF Insert, GoTo, TypeOK, localVars, Unborn, NewRow
  <2>2. CommentsOf(r) = {}
    BY <1>2, <1>4, <2>1 DEF CommentsHaveTopics, CommentsOf
  <2>3. \A t \in rows \union {r} : CommentsOf(t)' = CommentsOf(t)
    BY <1>2, <2>1 DEF CommentsOf
  <2>4. CommentsHaveTopics' /\ CommentsUnderTopics'
    BY <1>2, <1>4, <2>1 DEF CommentsHaveTopics, CommentsUnderTopics
  <2>5. CountsDue'
    <3>1. \A q \in Requests : Due(q) = NoTopic \/ q # r
      BY <2>1 DEF Due
    <3>2. \A t \in rows' : t # r => author'[t] = author[t]
      BY <2>1 DEF TypeOK
    <3>3. \A q \in Requests : pc'[q] # "save_topic"
      BY <1>1, <1>3, <2>1
    <3>4. failures = 0 => \A t \in rows : author[t] = Nobody \/ counted[t] = CommentsOf(t)
      BY <1>2, <1>3, <3>1 DEF OneByOne, CountsDue, InFlight
    <3> QED
      BY <1>1, <2>1, <2>2, <2>3, <3>2, <3>3, <3>4 DEF CountsDue
  <2>6. Unborn(r)' /\ NewRow(r)' /\ OldRow(r)'
    BY <1>1, <1>4, <2>1, <2>2, <2>3 DEF Unborn, NewRow, OldRow, Deleting
  <2> QED
    BY <1>1, <1>3, <2>1, <2>4, <2>5, <2>6 DEF StepOf
<1>6. CASE RaiseInMessage(r) \/ Place(r) \/ CountComments(r)
  <2>1. UNCHANGED <<rows, topicOf, author, counted>>
    BY <1>6 DEF RaiseInMessage, Place, CountComments, rowVars
  <2>2. CASE RaiseInMessage(r)
    <3>1. pc[r] = "place" /\ kind[r] = "message" /\ pc'[r] = "done"
      BY <2>2 DEF RaiseInMessage, GoTo, TypeOK
    <3>2. CountsDue'
      <4>1. Due(r) = NoTopic
        BY <3>1 DEF Due
      <4> QED
        BY <1>1, <1>3, <2>1, <3>1, <4>1, SameCounts
    <3>3. Unborn(r)' /\ NewRow(r)' /\ OldRow(r)'
      BY <3>1 DEF Unborn, NewRow, OldRow, Deleting
    <3> QED
      BY <1>1, <1>3, <2>1, <3>2, <3>3, SameRows DEF StepOf
  <2>3. CASE Place(r)
    <3>1. pc[r] = "place" /\ pc'[r] = IF kind[r] = "comment" THEN "attach" ELSE "topics"
      BY <2>3 DEF Place, GoTo, TypeOK
    <3>2. CountsDue'
      <4>1. Due(r) = NoTopic
        BY <3>1 DEF Due
      <4> QED
        BY <1>1, <1>3, <2>1, <3>1, <4>1, SameCounts
    <3>3. Unborn(r)' /\ NewRow(r)' /\ OldRow(r)'
      BY <1>1, <1>4, <2>1, <3>1, SameRows DEF Unborn, NewRow, OldRow, Deleting
    <3> QED
      BY <1>1, <1>3, <2>1, <3>2, <3>3, SameRows DEF StepOf
  <2>4. CASE CountComments(r)
    <3>1. /\ pc[r] = "comments" /\ pc'[r] = "save_topic"
          /\ copy' = [copy EXCEPT ![r].counted = CommentsOf(TopicOfRequest(r))]
      BY <2>4 DEF CountComments, GoTo, TypeOK
    <3>2. /\ copy'[r].counted = CommentsOf(TopicOfRequest(r))
          /\ copy'[r].parent = copy[r].parent /\ copy'[r].topic = copy[r].topic
      BY <3>1 DEF TypeOK, Copies
    <3>3. TopicOfRequest(r)' = TopicOfRequest(r)
      BY <1>1, <3>2 DEF TopicOfRequest
    <3>4. CountsDue'
      <4>1. Due(r)' = Due(r) /\ r \in InFlight'
        BY <1>1, <3>1, <3>2 DEF Due, InFlight
      <4> QED
        BY <1>1, <1>3, <2>1, <3>2, <3>3, <4>1, SameCounts
    <3>5. Unborn(r)' /\ NewRow(r)' /\ OldRow(r)'
      BY <3>1 DEF Unborn, NewRow, OldRow, Deleting
    <3> QED
      BY <1>1, <1>3, <2>1, <3>4, <3>5, SameRows DEF StepOf
  <2> QED
    BY <1>6, <2>2, <2>3, <2>4
<1>7. CASE Attach(r)
  <2>1. /\ pc[r] = "attach" /\ pc'[r] = "comments" /\ UNCHANGED <<rows, author, counted, copy>>
        /\ topicOf' = [topicOf EXCEPT ![r] = on[r]]
        /\ r \in rows /\ topicOf[r] = NoTopic /\ CommentsOf(r) = {} /\ kind[r] = "comment"
        /\ on[r] \in rows \ {r} /\ topicOf[on[r]] = NoTopic
    BY <1>4, <1>7 DEF Attach, GoTo, TypeOK, localVars, NewRow
  <2>2. \A x \in Ids : topicOf'[x] = IF x = r THEN on[r] ELSE topicOf[x]
    BY <2>1 DEF TypeOK
  <2>3. \A t \in rows \ {on[r]} : CommentsOf(t)' = CommentsOf(t)
    BY <1>2, <2>1, <2>2 DEF CommentsOf
  <2>4. CommentsHaveTopics' /\ CommentsUnderTopics'
    <3>1. \A x \in rows : topicOf[x] # r
      BY <2>1 DEF CommentsOf
    <3> QED
      BY <1>2, <1>4, <2>1, <2>2, <3>1 DEF CommentsHaveTopics, CommentsUnderTopics
  <2>5. CountsDue'
    <3>1. Due(r) = NoTopic /\ Due(r)' = on[r] /\ r \in InFlight'
      BY <1>1, <2>1 DEF Due, InFlight
    <3>2. \A q \in Requests : pc'[q] # "save_topic"
      BY <1>1, <1>3, <2>1
    <3>3. failures = 0 => \A t \in rows : author[t] = Nobody \/ counted[t] = CommentsOf(t)
      BY <1>2, <1>3, <3>1 DEF OneByOne, CountsDue, InFlight
    <3> QED
      BY <1>1, <2>1, <2>3, <3>1, <3>2, <3>3 DEF CountsDue
  <2>6. Unborn(r)' /\ NewRow(r)' /\ OldRow(r)'
    BY <2>1 DEF Unborn, NewRow, OldRow, Deleting
  <2>7. \A q \in Requests \ {r} : topicOf'[q] = topicOf[q]
    BY <2>2 DEF Ids
  <2> QED
    BY <1>1, <1>3, <2>1, <2>4, <2>5, <2>6, <2>7 DEF StepOf
<1>8. CASE SaveTopic(r)
  <2> DEFINE t == TopicOfRequest(r)
  <2>1. /\ pc[r] = "save_topic" /\ pc'[r] \in {"done", "topics"}
        /\ pc'[r] = "done" <=> kind[r] = "delete"
        /\ UNCHANGED <<rows, topicOf, author, copy>>
        /\ counted' = IF t \in rows THEN [counted EXCEPT ![t] = copy[r].counted] ELSE counted
    BY <1>8 DEF SaveTopic, GoTo, TypeOK, localVars
  <2>2. \A x \in Ids : counted'[x] = IF x = t /\ t \in rows THEN copy[r].counted ELSE counted[x]
    BY <2>1 DEF TypeOK
  <2>3. Due(r) \in {t, NoTopic}
    BY <2>1 DEF Due, TopicOfRequest
  <2> HIDE DEF t
  <2>4. CountsDue'
    <3> SUFFICES ASSUME failures = 0 PROVE CountsDue'
      BY <1>1 DEF CountsDue
    <3>1. copy[r].counted = CommentsOf(t)
      BY <2>1 DEF OneByOne, CountsDue, t
    <3>2. \A x \in rows \ {t} : author[x] = Nobody \/ counted[x] = CommentsOf(x)
      BY <1>2, <1>3, <2>3 DEF OneByOne, CountsDue, InFlight
    <3>3. \A q \in Requests : pc'[q] # "save_topic"
      BY <1>1, <1>3, <2>1
    <3>4. \A x : CommentsOf(x)' = CommentsOf(x)
      BY <2>1, SameRows
    <3>5. \A x \in rows : author[x] = Nobody \/ counted'[x] = CommentsOf(x)
      BY <1>2, <2>2, <3>1, <3>2
    <3> QED
      BY <2>1, <3>3, <3>4, <3>5 DEF CountsDue
  <2>5. Unborn(r)' /\ NewRow(r)' /\ OldRow(r)'
    BY <2>1 DEF Unborn, NewRow, OldRow, Deleting
  <2>6. \A q \in Requests : q \notin rows => counted'[q] = counted[q]
    BY <2>2 DEF Ids
  <2> QED
    BY <1>1, <1>3, <2>1, <2>4, <2>5, <2>6, SameRows DEF StepOf
<1> QED
  BY <1>5, <1>6, <1>7, <1>8 DEF Create

\* Nothing is below a chatter without comments.
LEMMA NothingBelow ==
  ASSUME NEW c, CommentsOf(c) = {}
  PROVE  Below(c) = {}
BY DEF Below

\* A comment has no comments.
LEMMA CommentIsLeaf ==
  ASSUME CommentsUnderTopics, NEW x \in rows, topicOf[x] # NoTopic
  PROVE  CommentsOf(x) = {}
BY DEF CommentsUnderTopics, CommentsOf

\* A row that no other row has as its topic can go.
LEMMA RowGoes ==
  ASSUME OneByOne, NEW x \in rows, CommentsOf(x) = {}, rows' = rows \ {x}, UNCHANGED topicOf
  PROVE  /\ CommentsHaveTopics' /\ CommentsUnderTopics'
         /\ \A t : CommentsOf(t)' = CommentsOf(t) \ {x}
<1>1. \A y \in rows : topicOf[y] # x
  BY DEF CommentsOf
<1> QED
  BY <1>1 DEF OneByOne, CommentsHaveTopics, CommentsUnderTopics, CommentsOf

\* A delete takes rows that have no comments left.
LEMMA TopicsDelete ==
  ASSUME TypeOK, OneByOne, NEW r \in Requests, Delete(r)
  PROVE  StepOf(r)
<1>1. /\ UNCHANGED <<kind, by, on, topicOf, failures>>
      /\ pc[r] \in Deleting
      /\ \A q \in Requests \ {r} : pc'[q] = pc[q]
  BY DEF Delete, LoadMeet, ReadComments, DropOwn, DropDone, AskEmpty, Destroy, Orphan, GoTo, rowVars,
     localVars, failVars, TypeOK, Deleting
<1>2. r \in InFlight /\ r \in Ids /\ NoTopic \notin Ids /\ rows \subseteq Ids
  BY <1>1, ChattersAssumption DEF InFlight, Ids, TypeOK, Deleting
<1>3. \A q \in Requests \ {r} : pc[q] \in {"new", "done"}
  BY <1>2, OthersRest
<1>4. Unborn(r) /\ NewRow(r) /\ OldRow(r) /\ CommentsHaveTopics /\ CommentsUnderTopics
  BY DEF OneByOne
<1>5. kind[r] = "delete" /\ on[r] \in rows /\ topicOf[on[r]] = copy[r].topic
  BY <1>1, <1>4 DEF OldRow
<1>6. ASSUME UNCHANGED <<rows, author, counted>>,
             Due(r) = NoTopic \/ (Due(r)' = Due(r) /\ pc'[r] \in Deleting), OldRow(r)',
             pc'[r] \in Deleting
      PROVE  StepOf(r)
  <2>1. r \in InFlight' /\ pc'[r] # "save_topic"
    BY <1>6 DEF InFlight, Deleting
  <2>2. CountsDue'
    BY <1>1, <1>3, <1>6, <2>1, SameCounts
  <2>3. Unborn(r)' /\ NewRow(r)'
    BY <1>6 DEF Unborn, NewRow, Deleting
  <2> QED
    BY <1>1, <1>3, <1>6, <2>2, <2>3, SameRows DEF StepOf
<1>7. CASE LoadMeet(r)
  <2>1. /\ pc[r] = "load" /\ UNCHANGED <<rows, author, counted>>
        /\ pc'[r] = CASE copy[r].topic # NoTopic -> "destroy"
                      [] copy[r].topic = NoTopic /\ copy[r].author # Nobody -> "read"
                      [] OTHER -> "ask"
        /\ copy' = [copy EXCEPT ![r].parent =
                     IF copy[r].topic \in rows THEN copy[r].topic ELSE NoTopic]
    BY <1>7 DEF LoadMeet, GoTo, TypeOK, rowVars
  <2>2. /\ pc'[r] \in {"destroy", "read", "ask"}
        /\ pc'[r] \in {"read", "ask"} <=> copy[r].topic = NoTopic
    BY <2>1
  <2>3. copy'[r].topic = copy[r].topic
    BY <2>1 DEF TypeOK, Copies
  <2>4. copy'[r].parent = copy[r].topic
    <3>1. copy'[r].parent = IF copy[r].topic \in rows THEN copy[r].topic ELSE NoTopic
      BY <2>1 DEF TypeOK, Copies
    <3>2. copy[r].topic \in rows \/ copy[r].topic = NoTopic
      BY <1>4, <1>5 DEF CommentsHaveTopics
    <3> QED
      BY <3>1, <3>2
  <2>5. OldRow(r)'
    BY <1>1, <1>5, <2>1, <2>2, <2>3, <2>4 DEF OldRow, Deleting
  <2>6. Due(r) = NoTopic /\ pc'[r] \in Deleting
    BY <2>1, <2>2 DEF Due, Deleting
  <2> QED
    BY <1>6, <2>1, <2>5, <2>6
<1>8. CASE ReadComments(r)
  <2>1. /\ pc[r] = "read" /\ pc'[r] = "drop" /\ UNCHANGED <<rows, author, counted, copy>>
        /\ own'[r] = {x \in CommentsOf(on[r]) : author[x] = copy[r].author}
        /\ rest'[r] = CommentsOf(on[r]) \ own'[r]
    BY <1>8 DEF ReadComments, GoTo, TypeOK, rowVars
  <2>2. OldRow(r)'
    BY <1>1, <1>4, <1>5, <2>1, SameRows DEF OldRow, Deleting
  <2>3. Due(r) = NoTopic /\ pc'[r] \in Deleting
    BY <2>1 DEF Due, Deleting
  <2> QED
    BY <1>6, <2>1, <2>2, <2>3
<1>9. ASSUME NEW x \in own[r], DropOwn(r, x) PROVE StepOf(r)
  <2>1. /\ pc[r] = "drop" /\ pc'[r] = "drop" /\ UNCHANGED <<author, counted, copy, rest>>
        /\ own'[r] = own[r] \ {x} /\ rows' = rows \ ({x} \union Below(x))
    BY <1>9 DEF DropOwn, TypeOK
  <2>2. /\ CommentsOf(on[r]) = own[r] \union rest[r] /\ x \notin rest[r]
        /\ copy[r].topic = NoTopic /\ on[r] # x /\ topicOf[x] = on[r] /\ x \in rows
    <3>1. CommentsOf(on[r]) = own[r] \union rest[r] /\ x \notin rest[r] /\ copy[r].topic = NoTopic
      BY <1>4, <2>1 DEF OldRow
    <3>2. x \in rows /\ topicOf[x] = on[r]
      BY <3>1 DEF CommentsOf
    <3> QED
      BY <1>2, <1>5, <3>1, <3>2
  <2>3. CommentsOf(x) = {} /\ rows' = rows \ {x}
    <3>1. topicOf[x] # NoTopic
      BY <1>2, <1>5, <2>2
    <3> QED
      BY <1>4, <2>1, <2>2, <3>1, CommentIsLeaf, NothingBelow
  <2>4. /\ CommentsHaveTopics' /\ CommentsUnderTopics'
        /\ \A t : CommentsOf(t)' = CommentsOf(t) \ {x}
    BY <1>1, <2>2, <2>3, RowGoes
  <2>5. \A t \in rows : t # on[r] => CommentsOf(t)' = CommentsOf(t)
    BY <2>2, <2>4 DEF CommentsOf
  <2>6. CountsDue'
    <3>1. Due(r) = on[r] /\ Due(r)' = on[r] /\ r \in InFlight'
      BY <1>1, <1>5, <2>1, <2>2 DEF Due, InFlight
    <3>2. \A q \in Requests : pc'[q] # "save_topic"
      BY <1>1, <1>3, <2>1
    <3>3. failures = 0 => \A t \in rows \ {on[r]} : author[t] = Nobody \/ counted[t] = CommentsOf(t)
      BY <1>2, <1>3, <3>1 DEF OneByOne, CountsDue, InFlight
    <3> QED
      BY <1>1, <2>1, <2>3, <2>5, <3>1, <3>2, <3>3 DEF CountsDue
  <2>7. OldRow(r)'
    BY <1>1, <1>4, <1>5, <2>1, <2>2, <2>3, <2>4 DEF OldRow, Deleting
  <2>8. Unborn(r)' /\ NewRow(r)'
    BY <2>1 DEF Unborn, NewRow
  <2> QED
    BY <1>1, <1>3, <2>1, <2>3, <2>4, <2>6, <2>7, <2>8 DEF StepOf
<1>10. CASE DropDone(r) \/ AskEmpty(r)
  <2>1. /\ pc[r] \in {"drop", "ask"} /\ UNCHANGED <<rows, author, counted, copy>>
        /\ pc[r] = "drop" => own[r] = {} /\ pc'[r] = IF rest[r] = {} THEN "destroy" ELSE "orphan"
        /\ pc[r] = "ask" => pc'[r] = IF CommentsOf(on[r]) = {} THEN "destroy" ELSE "orphan"
    BY <1>10 DEF DropDone, AskEmpty, GoTo, TypeOK, rowVars, localVars
  <2>2. copy[r].topic = NoTopic /\ copy[r].parent = NoTopic /\ pc'[r] \in {"destroy", "orphan"}
    BY <1>4, <2>1 DEF OldRow, Deleting
  <2>3. pc'[r] = "destroy" => CommentsOf(on[r]) = {}
    BY <1>4, <2>1 DEF OldRow
  <2>4. OldRow(r)'
    BY <1>1, <1>5, <2>1, <2>2, <2>3, SameRows DEF OldRow, Deleting
  <2>5. Due(r) = NoTopic \/ Due(r)' = Due(r)
    BY <1>1, <1>5, <2>1, <2>2 DEF Due
  <2>6. pc'[r] \in Deleting
    BY <2>2 DEF Deleting
  <2> QED
    BY <1>6, <2>1, <2>4, <2>5, <2>6
<1>11. CASE Destroy(r)
  <2>1. /\ pc[r] = "destroy" /\ pc'[r] = "topics" /\ UNCHANGED <<author, counted, copy>>
        /\ rows' = rows \ ({on[r]} \union IF IsLoaded(r) THEN {} ELSE Below(on[r]))
        /\ copy[r].parent = copy[r].topic
    BY <1>4, <1>11 DEF Destroy, GoTo, TypeOK, localVars, OldRow, Deleting
  <2>2. CommentsOf(on[r]) = {}
    BY <1>4, <1>5, <2>1, CommentIsLeaf DEF OldRow
  <2>3. rows' = rows \ {on[r]}
    BY <2>1, <2>2, NothingBelow
  <2>4. /\ CommentsHaveTopics' /\ CommentsUnderTopics'
        /\ \A t : CommentsOf(t)' = CommentsOf(t) \ {on[r]}
    BY <1>1, <1>5, <2>2, <2>3, RowGoes
  <2>5. \A t : t # copy[r].parent => CommentsOf(t)' = CommentsOf(t)
    BY <1>5, <2>1, <2>4 DEF CommentsOf
  <2>6. CountsDue'
    <3>1. Due(r) \in {on[r], NoTopic} /\ Due(r)' = copy[r].parent /\ r \in InFlight'
      BY <1>1, <1>5, <2>1 DEF Due, InFlight
    <3>2. \A q \in Requests : pc'[q] # "save_topic"
      BY <1>1, <1>3, <2>1
    <3>3. failures = 0 => \A t \in rows \ {on[r]} : author[t] = Nobody \/ counted[t] = CommentsOf(t)
      BY <1>2, <1>3, <3>1 DEF OneByOne, CountsDue, InFlight
    <3> QED
      BY <1>1, <2>1, <2>3, <2>5, <3>1, <3>2, <3>3 DEF CountsDue
  <2>7. Unborn(r)' /\ NewRow(r)' /\ OldRow(r)'
    BY <2>1 DEF Unborn, NewRow, OldRow, Deleting
  <2> QED
    BY <1>1, <1>3, <2>1, <2>3, <2>4, <2>6, <2>7 DEF StepOf
<1>12. CASE Orphan(r)
  <2>1. /\ pc[r] = "orphan" /\ pc'[r] \in {"topics", "done"} /\ UNCHANGED <<rows, copy>>
        /\ author' = [author EXCEPT ![on[r]] = Nobody]
        /\ counted' = [counted EXCEPT ![on[r]] = copy[r].counted]
        /\ copy[r].topic = NoTopic
    BY <1>4, <1>5, <1>12 DEF Orphan, GoTo, TypeOK, localVars, OldRow
  <2>2. /\ author'[on[r]] = Nobody
        /\ \A x \in Ids : x # on[r] => author'[x] = author[x] /\ counted'[x] = counted[x]
    BY <1>2, <1>5, <2>1 DEF TypeOK
  <2>3. CountsDue'
    <3>1. Due(r) = on[r]
      BY <1>5, <2>1 DEF Due
    <3>2. \A q \in Requests : pc'[q] # "save_topic"
      BY <1>1, <1>3, <2>1
    <3>3. failures = 0 => \A t \in rows \ {on[r]} : author[t] = Nobody \/ counted[t] = CommentsOf(t)
      BY <1>2, <1>3, <3>1 DEF OneByOne, CountsDue, InFlight
    <3>4. \A t : CommentsOf(t)' = CommentsOf(t)
      BY <1>1, <2>1, SameRows
    <3> QED
      BY <1>1, <1>2, <2>1, <2>2, <3>2, <3>3, <3>4 DEF CountsDue
  <2>4. Unborn(r)' /\ NewRow(r)' /\ OldRow(r)'
    BY <2>1 DEF Unborn, NewRow, OldRow, Deleting
  <2>5. \A q \in Requests : q \notin rows => counted'[q] = counted[q]
    BY <1>5, <2>2 DEF Ids
  <2> QED
    BY <1>1, <1>3, <2>1, <2>3, <2>4, <2>5, SameRows DEF StepOf
<1> QED
  BY <1>7, <1>8, <1>9, <1>10, <1>11, <1>12 DEF Delete

\* The counters of the meet and a request that dies leave the table alone.
LEMMA TopicsLock ==
  ASSUME TypeOK, OneByOne, NEW r \in Requests, Lock(r) \/ Fail(r)
  PROVE  StepOf(r)
<1>1. /\ UNCHANGED <<rows, author, topicOf, counted, kind, by, on, copy>>
      /\ r \in InFlight
      /\ \A q \in Requests \ {r} : pc'[q] = pc[q]
  BY DEF Lock, Fail, CountTopics, CountChatters, SaveMeet, Retry, GiveUp, GoTo, rowVars, localVars,
     failVars, TypeOK, InFlight
<1>2. \A q \in Requests \ {r} : pc[q] \in {"new", "done"}
  BY <1>1, OthersRest
<1>3. CASE Lock(r)
  <2>1. /\ failures' = failures /\ pc[r] \in {"topics", "chatters", "save"}
        /\ \/ pc'[r] \in {"topics", "chatters", "save"}
           \/ pc'[r] = AfterSave(r)
    BY <1>3 DEF Lock, CountTopics, CountChatters, SaveMeet, Retry, GiveUp, GoTo, TypeOK, failVars
  <2>2. pc'[r] \in {"topics", "chatters", "save", "comments", "done"}
    BY <2>1 DEF AfterSave
  <2>3. Due(r) = IF kind[r] = "delete" THEN copy[r].parent ELSE NoTopic
    BY <2>1 DEF Due
  <2>4. CASE pc'[r] = "done"
    <3>1. Due(r) = NoTopic
      BY <2>1, <2>3, <2>4 DEF AfterSave
    <3>2. CountsDue'
      BY <1>1, <1>2, <2>1, <2>4, <3>1, SameCounts
    <3>3. Unborn(r)' /\ NewRow(r)' /\ OldRow(r)'
      BY <2>4 DEF Unborn, NewRow, OldRow, Deleting
    <3> QED
      BY <1>1, <1>2, <3>2, <3>3, SameRows DEF StepOf
  <2>5. CASE pc'[r] # "done"
    <3>1. kind[r] # "delete" \/ Due(r)' = Due(r)
      BY <1>1, <2>2, <2>3, <2>5 DEF Due
    <3>2. r \in InFlight' /\ pc'[r] # "save_topic"
      BY <2>2, <2>5 DEF InFlight
    <3>3. CountsDue'
      BY <1>1, <1>2, <2>1, <2>3, <3>1, <3>2, SameCounts
    <3>4. Unborn(r)' /\ NewRow(r)' /\ OldRow(r)'
      BY <2>2 DEF Unborn, NewRow, OldRow, Deleting
    <3> QED
      BY <1>1, <1>2, <3>3, <3>4, SameRows DEF StepOf
  <2> QED
    BY <2>4, <2>5
<1>4. CASE Fail(r)
  <2>1. failures' # 0 /\ pc'[r] = "done"
    BY <1>4 DEF Fail, GoTo, TypeOK
  <2>2. CountsDue'
    BY <2>1 DEF CountsDue
  <2>3. Unborn(r)' /\ NewRow(r)' /\ OldRow(r)'
    BY <2>1 DEF Unborn, NewRow, OldRow, Deleting
  <2> QED
    BY <1>1, <1>2, <2>2, <2>3, SameRows DEF StepOf
<1> QED
  BY <1>3, <1>4

\* The tables that the requests may find are sound.
LEMMA TopicsInit ==
  ASSUME Init
  PROVE  OneByOne
<1>1. /\ \A r \in Requests : pc[r] = "new" /\ kind[r] = "post"
      /\ rows \subseteq Initial /\ NoTopic \notin rows
  BY ChattersAssumption DEF Init, Ids
<1>2. PICK a \in [rows -> Users \union {Nobody}], t \in [rows -> rows \union {NoTopic}] :
        /\ \A x \in rows : t[x] # NoTopic => t[t[x]] = NoTopic
        /\ topicOf = [x \in Ids |-> IF x \in rows THEN t[x] ELSE NoTopic]
  BY DEF Init
<1>3. /\ \A x \in rows : topicOf[x] = t[x]
      /\ \A x \in Ids \ rows : topicOf[x] = NoTopic
  BY <1>1, <1>2 DEF Ids
<1>4. CommentsHaveTopics /\ CommentsUnderTopics
  <2>1. \A x \in rows : t[x] \in rows \/ t[x] = NoTopic
    OBVIOUS
  <2> QED
    BY <1>1, <1>2, <1>3, <2>1 DEF CommentsHaveTopics, CommentsUnderTopics
<1>5. InFlight = {}
  BY <1>1 DEF InFlight
<1>6. \A x \in Ids : counted[x] = CommentsOf(x)
  BY DEF Init
<1>7. CountsDue
  BY <1>1, <1>6 DEF CountsDue, Ids
<1>8. ASSUME NEW r \in Requests PROVE Unborn(r) /\ NewRow(r) /\ OldRow(r)
  <2>1. r \in Ids \ rows /\ r # NoTopic
    BY <1>1, ChattersAssumption DEF Ids
  <2>2. CommentsOf(r) = {}
    BY <1>4, <2>1 DEF CommentsOf, CommentsHaveTopics
  <2> QED
    BY <1>1, <1>3, <1>6, <2>1, <2>2 DEF Unborn, NewRow, OldRow, Deleting
<1> QED
  BY <1>4, <1>5, <1>7, <1>8, FS_EmptySet DEF OneByOne

\* Every step of the process keeps the invariant.
LEMMA TopicsStep ==
  ASSUME TypeOK, AloneInv, [ProcessesNext]_<<vars, together>>
  PROVE  AloneInv'
<1>1. CASE UNCHANGED <<vars, together>>
  BY <1>1 DEF vars, rowVars, localVars, failVars, AloneInv, OneByOne, InFlight, CommentsHaveTopics,
     CommentsUnderTopics, CountsDue, CommentsOf, TopicOfRequest, Due, Unborn, NewRow, OldRow
<1>2. CASE ProcessesNext
  <2> SUFFICES ASSUME together = 1 PROVE OneByOne'
    BY <1>2 DEF AloneInv, ProcessesNext
  <2>1. OneByOne /\ Cardinality(InFlight') <= 1 /\ Next
    BY <1>2 DEF AloneInv, ProcessesNext
  <2>2. CASE Finished
    BY <2>1, <2>2 DEF Finished, vars, rowVars, localVars, failVars, OneByOne, InFlight,
       CommentsHaveTopics, CommentsUnderTopics, CountsDue, CommentsOf, TopicOfRequest, Due, Unborn,
       NewRow, OldRow
  <2>3. ASSUME NEW r \in Requests, Arrive(r) \/ Create(r) \/ Delete(r) \/ Lock(r) \/ Fail(r)
        PROVE  OneByOne'
    BY <2>1, <2>3, TopicsArrive, TopicsCreate, TopicsDelete, TopicsLock, StepIsEnough
  <2> QED
    BY <2>1, <2>2, <2>3 DEF Next
<1> QED
  BY <1>1, <1>2

\* A step takes rows only to delete the chatter of a request or a comment of its owner.
LEMMA TakesOwn ==
  ASSUME TypeOK, OneByOne, Next
  PROVE  KeepsOthers
<1> SUFFICES ASSUME NEW x \in rows \ rows'
             PROVE  \E r \in InFlight : kind[r] = "delete" /\ (x = on[r] \/ author[x] = copy[r].author)
  BY DEF KeepsOthers
<1>1. PICK r \in Requests : Destroy(r) \/ \E y \in own[r] : DropOwn(r, y)
  <2>1. UNCHANGED rows \/ \E r \in Requests : rows' = rows \union {r} \/ Destroy(r)
                              \/ \E y \in own[r] : DropOwn(r, y)
    BY DEF Next, Arrive, StartPost, StartMessage, StartComment, StartDelete, StartTouch, Start, Create,
       Insert, RaiseInMessage, Place, Attach, CountComments, SaveTopic, Delete, LoadMeet, ReadComments,
       DropDone, AskEmpty, Orphan, Lock, CountTopics, CountChatters, SaveMeet, Retry, GiveUp, Fail,
       Finished, vars, rowVars
  <2> QED
    BY <2>1
<1>2. r \in InFlight /\ pc[r] \in {"drop", "destroy"}
  BY <1>1 DEF Destroy, DropOwn, InFlight
<1>3. OldRow(r) /\ CommentsUnderTopics
  BY DEF OneByOne
<1>4. kind[r] = "delete" /\ on[r] \in rows /\ topicOf[on[r]] = copy[r].topic /\ NoTopic \notin rows
  BY <1>2, <1>3, ChattersAssumption DEF OldRow, Deleting, TypeOK
<1>5. CASE Destroy(r)
  <2>1. pc[r] = "destroy" /\ x \in {on[r]} \union IF IsLoaded(r) THEN {} ELSE Below(on[r])
    BY <1>5 DEF Destroy
  <2>2. CommentsOf(on[r]) = {}
    BY <1>3, <1>4, <2>1, CommentIsLeaf DEF OldRow
  <2>3. x = on[r]
    BY <2>1, <2>2, NothingBelow
  <2> QED
    BY <1>2, <1>4, <2>3
<1>6. ASSUME NEW y \in own[r], DropOwn(r, y)
      PROVE  author[x] = copy[r].author
  <2>1. pc[r] = "drop" /\ x \in {y} \union Below(y)
    BY <1>6 DEF DropOwn
  <2>2. y \in CommentsOf(on[r]) /\ author[y] = copy[r].author
    BY <1>3, <2>1 DEF OldRow
  <2>3. CommentsOf(y) = {}
    <3>1. y \in rows /\ topicOf[y] # NoTopic
      BY <1>4, <2>2 DEF CommentsOf
    <3> QED
      BY <1>3, <3>1, CommentIsLeaf
  <2>4. x = y
    BY <2>1, <2>3, NothingBelow
  <2> QED
    BY <2>2, <2>4
<1> QED
  BY <1>1, <1>2, <1>4, <1>5, <1>6

\* With one process topics and comments are sound, for any table to start with, any
\* requests that come one after the other, and any of them that dies halfway.
THEOREM TopicsStaySound == ProcessesSpec => []TopicsAreSound
<1>1. ProcessesInit => TypeOK /\ AloneInv
  BY TypeInit, TopicsInit DEF ProcessesInit, AloneInv
<1>2. TypeOK /\ AloneInv /\ [ProcessesNext]_<<vars, together>> => TypeOK' /\ AloneInv'
  <2>1. [ProcessesNext]_<<vars, together>> => [Next]_vars
    BY DEF ProcessesNext
  <2> QED
    BY <2>1, TypeStep, TopicsStep
<1>3. AloneInv => TopicsAreSound
  <2> SUFFICES ASSUME OneByOne, Quiet, failures = 0
               PROVE  \A t \in rows : author[t] # Nobody => counted[t] = CommentsOf(t)
    BY DEF AloneInv, TopicsAreSound, TopicsCounted, OneByOne
  <2> QED
    BY DEF OneByOne, CountsDue, Quiet
<1> QED
  BY <1>1, <1>2, <1>3, PTL DEF ProcessesSpec

\* With one process a delete takes the chatter it is for and its owner's comments, and
\* the comments of others stay.
THEOREM OthersKeepTheirComments == ProcessesSpec => OthersKeepTheirs
<1>1. ProcessesInit => TypeOK /\ AloneInv
  BY TypeInit, TopicsInit DEF ProcessesInit, AloneInv
<1>2. TypeOK /\ AloneInv /\ [ProcessesNext]_<<vars, together>> => TypeOK' /\ AloneInv'
  <2>1. [ProcessesNext]_<<vars, together>> => [Next]_vars
    BY DEF ProcessesNext
  <2> QED
    BY <2>1, TypeStep, TopicsStep
<1>3. TypeOK /\ AloneInv /\ [ProcessesNext]_<<vars, together>> => [together = 1 => KeepsOthers]_vars
  BY TakesOwn DEF ProcessesNext, AloneInv
<1> QED
  BY <1>1, <1>2, <1>3, PTL DEF ProcessesSpec, OthersKeepTheirs
=============================================================================
