------------------------------ MODULE Chatters ------------------------------
(***************************************************************************)
(* Topics and comments of one meet: ChattersController, delete_chatters of *)
(* ApplicationController, and the counters that Meet and Chatter cache.    *)
(*                                                                         *)
(* A request is a process whose steps are its database statements; rows    *)
(* and the meet's counters are shared by all of them.  The meet row has a  *)
(* lock_version, so that its counters are saved by opt_lock_protected; a   *)
(* chatter row has none.  The row a request inserts has the request's own  *)
(* name.  Counters are modelled by the rows that were counted.             *)
(***************************************************************************)
EXTENDS Integers, FiniteSets

CONSTANTS
  Requests,    \* requests a behavior may contain
  Initial,     \* rows that may be there from the start
  Users, Admin,
  Workers,     \* requests in flight at the same time
  Tries,       \* the retries of opt_lock_protected
  Kinds,       \* what requests do: "post", "comment", "message", "delete", "touch"
  MaxFailures, \* bound on requests that die halfway
  NoTopic, Nobody

Ids == Requests \union Initial

ASSUME ChattersAssumption ==
  /\ Requests \intersect Initial = {}
  /\ NoTopic \notin Ids /\ Nobody \notin Users
  /\ Workers \in Nat /\ MaxFailures \in Nat /\ Tries \in Nat \ {0}

VARIABLES
  rows,     \* ids of the rows of chatters
  author,   \* their user_id
  topicOf,  \* their topic_id
  placed,   \* those with a meet_id
  counted,  \* chatter |-> comments counted in its cached_info
  cached,   \* the meet's cached_info: topics and chatters counted
  version,  \* the meet's lock_version
  pc, kind, by, on, \* request: next step, what it does, its user, its chatter
  loaded,   \* the lock_version of the request's copy of the meet
  tally,    \* what its update_chatters_count has read so far
  tries,    \* its remaining retries
  copy,     \* its copy of the chatter, and the topic it has found for it (parent)
  own,      \* delete_chatters: comments of the owner still to delete
  rest,     \* delete_chatters: comments of others it has loaded
  owes,     \* it has still to save the counters of the meet (update_meets)
  failures, disturbed  \* requests that died; a save of counters was given up

rowVars == <<rows, author, topicOf, placed, counted>>
meetVars == <<cached, version>>
localVars == <<kind, by, on, copy, own, rest>>
lockVars == <<loaded, tally, tries>>
failVars == <<failures, disturbed>>
vars == <<rowVars, meetVars, pc, localVars, lockVars, owes, failVars>>

CommentsOf(t) == {x \in rows : topicOf[x] = t}
Actual == [topics   |-> {x \in rows \intersect placed : topicOf[x] = NoTopic},
           chatters |-> rows \intersect placed]

InFlight == {r \in Requests : pc[r] \notin {"new", "done"}}

\* rows a destroy reaches through the dependent comments
Below(c) ==
  {x \in rows : \A S \in SUBSET rows :
     (CommentsOf(c) \subseteq S /\ \A y \in S : CommentsOf(y) \subseteq S) => x \in S}

GoTo(r, next) == pc' = [pc EXCEPT ![r] = next]

-----------------------------------------------------------------------------
(* Any table with exact counters may be there when the requests come.      *)

NoCopy == [author |-> Nobody, topic |-> NoTopic, parent |-> NoTopic, counted |-> {}]

Init ==
  /\ rows \in SUBSET Initial
  /\ placed = rows
  /\ \E a \in [rows -> Users \union {Nobody}], t \in [rows -> rows \union {NoTopic}] :
       /\ \A x \in rows : t[x] # NoTopic => t[t[x]] = NoTopic /\ a[x] # Nobody
       /\ author  = [x \in Ids |-> IF x \in rows THEN a[x] ELSE Nobody]
       /\ topicOf = [x \in Ids |-> IF x \in rows THEN t[x] ELSE NoTopic]
  /\ counted = [x \in Ids |-> CommentsOf(x)]
  /\ cached = Actual /\ version = 0
  /\ pc = [r \in Requests |-> "new"]
  /\ kind = [r \in Requests |-> "post"]
  /\ by = [r \in Requests |-> Nobody]
  /\ on = [r \in Requests |-> NoTopic]
  /\ loaded = [r \in Requests |-> 0]
  /\ tally = [r \in Requests |-> [topics |-> {}, chatters |-> {}]]
  /\ tries = [r \in Requests |-> Tries]
  /\ copy = [r \in Requests |-> NoCopy]
  /\ own = [r \in Requests |-> {}] /\ rest = [r \in Requests |-> {}]
  /\ owes = [r \in Requests |-> FALSE]
  /\ failures = 0 /\ disturbed = FALSE

-----------------------------------------------------------------------------
(* The filters of a request load the rows it is about.                     *)

Start(r, k, u, c, next) ==
  /\ pc[r] = "new" /\ k \in Kinds
  /\ Cardinality(InFlight) < Workers
  /\ GoTo(r, next)
  /\ kind' = [kind EXCEPT ![r] = k]
  /\ by' = [by EXCEPT ![r] = u]
  /\ on' = [on EXCEPT ![r] = c]
  /\ loaded' = [loaded EXCEPT ![r] = version]
  /\ UNCHANGED <<rowVars, meetVars, own, rest, tally, tries, owes, failVars>>

\* a new topic for the meet
StartPost(r, u) ==
  Start(r, "post", u, NoTopic, "insert") /\ UNCHANGED copy

\* mutant: any chatter can be commented on
StartCommentAnywhere(r, u, t) ==
  /\ t \in rows \intersect placed
  /\ Start(r, "comment", u, t, "insert")
  /\ UNCHANGED copy

\* a comment; authorized_chatter refuses a chatter that is not a topic
StartComment(r, u, t) ==
  /\ t \in rows \intersect placed /\ topicOf[t] = NoTopic
  /\ Start(r, "comment", u, t, "insert")
  /\ UNCHANGED copy

\* a chatter for a user instead of a meet
StartMessage(r, u) ==
  Start(r, "message", u, NoTopic, "insert") /\ UNCHANGED copy

\* authorized_chatter_owner
StartDelete(r, u, c) ==
  /\ c \in rows \intersect placed
  /\ author[c] = u \/ u = Admin
  /\ Start(r, "delete", u, c, "load")
  /\ copy' = [copy EXCEPT ![r] =
               [author |-> author[c], topic |-> topicOf[c], parent |-> NoTopic,
                counted |-> counted[c]]]

\* any other save of the meet row; it writes back the cached_info it has loaded
StartTouch(r) ==
  Start(r, "touch", Nobody, NoTopic, "save") /\ UNCHANGED copy

-----------------------------------------------------------------------------
(* ChattersController#create                                               *)

Insert(r) ==
  /\ pc[r] = "insert"
  /\ rows' = rows \union {r}
  /\ author' = [author EXCEPT ![r] = by[r]]
  /\ GoTo(r, "place")
  /\ UNCHANGED <<topicOf, placed, counted, meetVars, localVars, lockVars, owes, failVars>>

\* get_cirkle_for_users raises, because there is no encounter to take the time of
RaiseInMessage(r) ==
  /\ pc[r] = "place" /\ kind[r] = "message"
  /\ GoTo(r, "done")
  /\ UNCHANGED <<rowVars, meetVars, localVars, lockVars, owes, failVars>>

Place(r) ==
  /\ pc[r] = "place" /\ kind[r] # "message"
  /\ placed' = placed \union {r}
  /\ owes' = [owes EXCEPT ![r] = TRUE]
  /\ GoTo(r, IF kind[r] = "comment" THEN "attach" ELSE "topics")
  /\ UNCHANGED <<rows, author, topicOf, counted, meetVars, localVars, lockVars, failVars>>

\* mutant: the wrong foreign key
AttachToUser(r) ==
  /\ pc[r] = "attach"
  /\ topicOf' = [topicOf EXCEPT ![r] = by[r]]
  /\ GoTo(r, "comments")
  /\ UNCHANGED <<rows, author, placed, counted, meetVars, localVars, lockVars, owes, failVars>>

Attach(r) ==
  /\ pc[r] = "attach"
  /\ topicOf' = [topicOf EXCEPT ![r] = on[r]]
  /\ GoTo(r, "comments")
  /\ UNCHANGED <<rows, author, placed, counted, meetVars, localVars, lockVars, owes, failVars>>

\* update_comments_count; a delete does it for the topic of its chatter
TopicOfRequest(r) == IF kind[r] = "delete" THEN copy[r].parent ELSE on[r]

CountComments(r) ==
  /\ pc[r] = "comments"
  /\ copy' = [copy EXCEPT ![r].counted = CommentsOf(TopicOfRequest(r))]
  /\ GoTo(r, "save_topic")
  /\ UNCHANGED <<rowVars, meetVars, kind, by, on, own, rest, lockVars, owes, failVars>>

SaveTopic(r) ==
  /\ pc[r] = "save_topic"
  /\ LET t == TopicOfRequest(r)
     IN  counted' = IF t \in rows THEN [counted EXCEPT ![t] = copy[r].counted] ELSE counted
  /\ GoTo(r, IF kind[r] = "delete" THEN "done" ELSE "topics")
  /\ UNCHANGED <<rows, author, topicOf, placed, meetVars, localVars, lockVars, owes, failVars>>

-----------------------------------------------------------------------------
(* delete_chatters, for the chatter of ChattersController#destroy          *)

\* chatter.meet and chatter.topic
LoadMeet(r) ==
  /\ pc[r] = "load"
  /\ loaded' = [loaded EXCEPT ![r] = version]
  /\ copy' = [copy EXCEPT ![r].parent =
               IF copy[r].topic \in rows THEN copy[r].topic ELSE NoTopic]
  /\ GoTo(r, CASE copy[r].topic # NoTopic -> "destroy"
               [] copy[r].topic = NoTopic /\ copy[r].author # Nobody -> "read"
               [] OTHER -> "ask")
  /\ UNCHANGED <<rowVars, meetVars, kind, by, on, own, rest, tally, tries, owes, failVars>>

\* mutant: the comments of others go as well
ReadAllAsOwn(r) ==
  /\ pc[r] = "read"
  /\ own' = [own EXCEPT ![r] = CommentsOf(on[r])]
  /\ GoTo(r, "drop")
  /\ UNCHANGED <<rowVars, meetVars, kind, by, on, copy, rest, lockVars, owes, failVars>>

\* chatter.comments.to_a; from here on the association is loaded
ReadComments(r) ==
  /\ pc[r] = "read"
  /\ LET mine == {x \in CommentsOf(on[r]) : author[x] = copy[r].author}
     IN  /\ own' = [own EXCEPT ![r] = mine]
         /\ rest' = [rest EXCEPT ![r] = CommentsOf(on[r]) \ mine]
  /\ GoTo(r, "drop")
  /\ UNCHANGED <<rowVars, meetVars, kind, by, on, copy, lockVars, owes, failVars>>

DropOwn(r, x) ==
  /\ pc[r] = "drop" /\ x \in own[r]
  /\ rows' = rows \ ({x} \union Below(x))
  /\ own' = [own EXCEPT ![r] = @ \ {x}]
  /\ owes' = [owes EXCEPT ![r] = TRUE]
  /\ UNCHANGED <<author, topicOf, placed, counted, meetVars, pc, kind, by, on, copy,
                 rest, lockVars, failVars>>

DropDone(r) ==
  /\ pc[r] = "drop" /\ own[r] = {}
  /\ GoTo(r, IF rest[r] = {} THEN "destroy" ELSE "orphan")
  /\ UNCHANGED <<rowVars, meetVars, localVars, lockVars, owes, failVars>>

\* a topic without owner: comments.empty? asks the database
AskEmpty(r) ==
  /\ pc[r] = "ask"
  /\ GoTo(r, IF CommentsOf(on[r]) = {} THEN "destroy" ELSE "orphan")
  /\ UNCHANGED <<rowVars, meetVars, localVars, lockVars, owes, failVars>>

\* the dependent comments are read now, unless ReadComments has loaded them or
\* AskEmpty has found none, which counts as loaded
IsLoaded(r) == copy[r].topic = NoTopic

Destroy(r) ==
  /\ pc[r] = "destroy"
  /\ rows' = rows \ ({on[r]} \union IF IsLoaded(r) THEN {} ELSE Below(on[r]))
  /\ owes' = [owes EXCEPT ![r] = TRUE]
  /\ GoTo(r, "topics")
  /\ UNCHANGED <<author, topicOf, placed, counted, meetVars, localVars, lockVars, failVars>>

\* the row loses its owner; every save writes the serialized cached_info as well
Orphan(r) ==
  /\ pc[r] = "orphan"
  /\ IF on[r] \in rows
     THEN /\ author' = [author EXCEPT ![on[r]] = Nobody]
          /\ counted' = [counted EXCEPT ![on[r]] = copy[r].counted]
     ELSE UNCHANGED <<author, counted>>
  /\ GoTo(r, IF owes[r] THEN "topics" ELSE "done")
  /\ UNCHANGED <<rows, topicOf, placed, meetVars, localVars, lockVars, owes, failVars>>

-----------------------------------------------------------------------------
(* opt_lock_protected { update_chatters_count; save }                      *)

CountTopics(r) ==
  /\ pc[r] = "topics"
  /\ tally' = [tally EXCEPT ![r].topics = Actual.topics]
  /\ GoTo(r, "chatters")
  /\ UNCHANGED <<rowVars, meetVars, localVars, loaded, tries, owes, failVars>>

CountChatters(r) ==
  /\ pc[r] = "chatters"
  /\ tally' = [tally EXCEPT ![r].chatters = Actual.chatters]
  /\ GoTo(r, "save")
  /\ UNCHANGED <<rowVars, meetVars, localVars, loaded, tries, owes, failVars>>

\* what comes after the block, saved or given up
AfterSave(r) ==
  IF kind[r] = "delete" /\ copy[r].parent # NoTopic THEN "comments" ELSE "done"

SaveMeet(r) ==
  /\ pc[r] = "save" /\ loaded[r] = version
  /\ version' = version + 1
  /\ cached' = IF kind[r] = "touch" THEN cached ELSE tally[r]
  /\ owes' = [owes EXCEPT ![r] = FALSE]
  /\ GoTo(r, AfterSave(r))
  /\ UNCHANGED <<rowVars, localVars, lockVars, failVars>>

\* mutant: only the save is inside the block, not the count
RetryWithoutCount(r) ==
  /\ pc[r] = "save" /\ loaded[r] # version /\ tries[r] > 1
  /\ tries' = [tries EXCEPT ![r] = @ - 1]
  /\ loaded' = [loaded EXCEPT ![r] = version]
  /\ UNCHANGED <<rowVars, meetVars, pc, localVars, tally, owes, failVars>>

\* StaleObjectError: reload, then retry if (retries -= 1) > 0
Retry(r) ==
  /\ pc[r] = "save" /\ loaded[r] # version /\ tries[r] > 1
  /\ tries' = [tries EXCEPT ![r] = @ - 1]
  /\ loaded' = [loaded EXCEPT ![r] = version]
  /\ GoTo(r, IF kind[r] = "touch" THEN "save" ELSE "topics")
  /\ UNCHANGED <<rowVars, meetVars, localVars, tally, owes, failVars>>

GiveUp(r) ==
  /\ pc[r] = "save" /\ loaded[r] # version /\ tries[r] <= 1
  /\ tries' = [tries EXCEPT ![r] = 0]
  /\ loaded' = [loaded EXCEPT ![r] = version]
  /\ owes' = [owes EXCEPT ![r] = FALSE]
  /\ disturbed' = (disturbed \/ owes[r])
  /\ GoTo(r, AfterSave(r))
  /\ UNCHANGED <<rowVars, meetVars, localVars, tally, failures>>

\* a statement raises, or the worker is killed
Fail(r) ==
  /\ r \in InFlight /\ failures < MaxFailures
  /\ failures' = failures + 1
  /\ owes' = [owes EXCEPT ![r] = FALSE]
  /\ disturbed' = (disturbed \/ owes[r])
  /\ GoTo(r, "done")
  /\ UNCHANGED <<rowVars, meetVars, localVars, lockVars>>

-----------------------------------------------------------------------------
Arrive(r) ==
  \/ \E u \in Users : StartPost(r, u) \/ StartMessage(r, u)
  \/ \E u \in Users, c \in Ids : StartComment(r, u, c) \/ StartDelete(r, u, c)
  \/ StartTouch(r)

Create(r) ==
  \/ Insert(r) \/ RaiseInMessage(r) \/ Place(r) \/ Attach(r)
  \/ CountComments(r) \/ SaveTopic(r)

Delete(r) ==
  \/ LoadMeet(r) \/ ReadComments(r) \/ (\E x \in own[r] : DropOwn(r, x)) \/ DropDone(r)
  \/ AskEmpty(r) \/ Destroy(r) \/ Orphan(r)

Lock(r) ==
  \/ CountTopics(r) \/ CountChatters(r) \/ SaveMeet(r) \/ Retry(r) \/ GiveUp(r)

\* all requests of the behavior have been answered
Finished == (\A r \in Requests : pc[r] = "done") /\ UNCHANGED vars

Next ==
  \/ \E r \in Requests : Arrive(r) \/ Create(r) \/ Delete(r) \/ Lock(r) \/ Fail(r)
  \/ Finished

Spec == Init /\ [][Next]_vars

-----------------------------------------------------------------------------
(* Properties                                                              *)

Copies == [author : Users \union {Nobody}, topic : Ids \union {NoTopic},
           parent : Ids \union {NoTopic}, counted : SUBSET Ids]

\* Rows, counters and the state of every request are well formed.
TypeOK ==
  /\ rows \subseteq Ids /\ placed \subseteq Ids
  /\ author \in [Ids -> Users \union {Nobody}]
  /\ topicOf \in [Ids -> Ids \union {NoTopic}]
  /\ counted \in [Ids -> SUBSET Ids]
  /\ cached \in [topics : SUBSET Ids, chatters : SUBSET Ids] /\ version \in Nat
  /\ pc \in [Requests -> {"new", "insert", "place", "attach", "comments", "save_topic",
                          "load", "read", "drop", "ask", "destroy", "orphan",
                          "topics", "chatters", "save", "done"}]
  /\ kind \in [Requests -> {"post", "comment", "message", "delete", "touch"}]
  /\ by \in [Requests -> Users \union {Nobody}] /\ on \in [Requests -> Ids \union {NoTopic}]
  /\ loaded \in [Requests -> Nat] /\ tries \in [Requests -> 0..Tries]
  /\ tally \in [Requests -> [topics : SUBSET Ids, chatters : SUBSET Ids]]
  /\ copy \in [Requests -> Copies]
  /\ own \in [Requests -> SUBSET Ids] /\ rest \in [Requests -> SUBSET Ids]
  /\ owes \in [Requests -> BOOLEAN]
  /\ failures \in Nat /\ disturbed \in BOOLEAN

Quiet == InFlight = {}

\* Whatever requests ran at the same time, once they are answered the counters of
\* the meet are those of its rows, unless one of them died or gave up its save
\* (opt_lock_protected around update_chatters_count).
CountersSettle == Quiet /\ ~disturbed => cached = Actual

\* No comment outlives its topic (delete_chatters keeps a topic with comments).
CommentsHaveTopics ==
  \A x \in rows : topicOf[x] # NoTopic => topicOf[x] \in rows

\* A comment is on a topic, never on another comment (authorized_chatter).
CommentsUnderTopics ==
  \A x \in rows : topicOf[x] \in rows => topicOf[topicOf[x]] = NoTopic

\* A delete takes the chatter it is for and comments of that chatter's owner; the
\* comments of others stay (the orphaned topics of delete_chatters).
KeepsOthers ==
  \A x \in rows \ rows' :
    \E r \in InFlight : kind[r] = "delete" /\ (x = on[r] \/ author[x] = copy[r].author)

\* Once all requests are answered a topic counts the comments it has, unless its
\* owner has left it to others or a request died (update_comments_count, which
\* every comment and every deleted comment has to reach).
TopicsCounted ==
  Quiet /\ failures = 0 => \A t \in rows : author[t] # Nobody => counted[t] = CommentsOf(t)

-----------------------------------------------------------------------------
(* The inductive invariant behind CountersSettle.                          *)

\* a request other than r still has to save the counters
OtherOwes(r) == \E q \in Requests \ {r} : owes[q]

\* Counters that are not exact are owed by somebody.
Owed == cached = Actual \/ disturbed \/ \E r \in Requests : owes[r]

\* A count that can still be saved is exact, or somebody else owes a save.
Tallied ==
  \A r \in Requests : kind[r] # "touch" /\ loaded[r] = version =>
    /\ pc[r] = "chatters" => tally[r].topics = Actual.topics \/ disturbed \/ OtherOwes(r)
    /\ pc[r] = "save" => tally[r] = Actual \/ disturbed \/ OtherOwes(r)

\* Only a request in flight owes a save, and nobody has loaded a version to come.
InFlightOwes == \A r \in Requests : owes[r] => r \in InFlight
NoFuture == \A r \in Requests : loaded[r] <= version
TouchSaves ==
  \A r \in Requests : kind[r] = "touch" => pc[r] \in {"new", "save", "done"} /\ ~owes[r]

\* A row is in the meet only from Place on, and its author owes a save from then;
\* a delete has paid when it comes to the topic of its chatter.
Placement ==
  \A r \in Requests :
    /\ pc[r] \in {"new", "insert", "place"} => r \notin placed /\ ~owes[r]
    /\ pc[r] = "attach" => owes[r] /\ kind[r] = "comment"
    /\ pc[r] \in {"comments", "save_topic"} /\ kind[r] = "delete" => ~owes[r]

CounterInv ==
  TypeOK /\ Owed /\ Tallied /\ InFlightOwes /\ NoFuture /\ TouchSaves /\ Placement

=============================================================================
