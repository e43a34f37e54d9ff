-------------------------- MODULE ChatterProcesses --------------------------
(***************************************************************************)
(* Chatters with the processes that handle its requests, as many of them   *)
(* as are in flight at the same time.  With several of them the counters   *)
(* of the meet settle and little else; with one, which takes a request     *)
(* when it has answered the one before, topics and comments stay sound.    *)
(***************************************************************************)
EXTENDS Chatters

VARIABLE together  \* processes that handle requests

ProcessesInit == Init /\ together \in 1..Workers

ProcessesNext ==
  /\ Next
  /\ UNCHANGED together
  /\ Cardinality(InFlight') <= together

ProcessesSpec == ProcessesInit /\ [][ProcessesNext]_<<vars, together>>

-----------------------------------------------------------------------------
\* With one process every comment is on a topic that is there, and the topic
\* counts it.  (Two processes can delete a topic while it is commented on.)
TopicsAreSound ==
  together = 1 => CommentsHaveTopics /\ CommentsUnderTopics /\ TopicsCounted

\* With one process a delete takes no comment of others.  (A comment on a chatter
\* that is not yet attached to its topic goes with it if there are two.)
OthersKeepTheirs == [][together = 1 => KeepsOthers]_vars

-----------------------------------------------------------------------------
(* The inductive invariant behind both, for the request that one process   *)
(* is answering.                                                           *)

\* the steps of delete_chatters up to the last one that changes rows
Deleting == {"load", "read", "drop", "ask", "destroy", "orphan"}

\* A row that is not inserted yet has no topic and no comments.
Unborn(r) == pc[r] \in {"new", "insert"} => r \notin rows /\ topicOf[r] = NoTopic /\ counted[r] = {}

\* A new row is a topic without comments until it is attached to the chatter that
\* it comments on, which stays a topic.
NewRow(r) ==
  /\ pc[r] \in {"insert", "place", "attach"} => kind[r] # "delete"
  /\ pc[r] \in {"place", "attach"} => r \in rows /\ topicOf[r] = NoTopic /\ CommentsOf(r) = {}
  /\ pc[r] = "attach" => kind[r] = "comment"
  /\ pc[r] \in {"insert", "place", "attach"} /\ kind[r] = "comment" =>
       on[r] \in rows \ {r} /\ topicOf[on[r]] = NoTopic

\* What a delete has read of its chatter is still true: the topic and, for a
\* topic, its comments, none of which is left when it is destroyed.
OldRow(r) ==
  /\ pc[r] \in Deleting => /\ kind[r] = "delete" /\ on[r] \in rows
                           /\ topicOf[on[r]] = copy[r].topic
  /\ pc[r] \in {"read", "drop", "ask", "orphan"} => copy[r].topic = NoTopic
  /\ pc[r] \in Deleting \ {"load"} => copy[r].parent = copy[r].topic
  /\ pc[r] = "drop" => /\ CommentsOf(on[r]) = own[r] \union rest[r]
                       /\ own[r] \intersect rest[r] = {}
                       /\ \A x \in own[r] : author[x] = copy[r].author
  /\ pc[r] = "destroy" /\ copy[r].topic = NoTopic => CommentsOf(on[r]) = {}

\* the topic whose count the request has still to save
Due(r) ==
  CASE kind[r] = "comment" /\ pc[r] \in {"comments", "save_topic"} -> on[r]
    [] kind[r] = "delete" /\ pc[r] \in {"drop", "orphan", "destroy"} /\ copy[r].topic = NoTopic -> on[r]
    [] kind[r] = "delete" /\ pc[r] \in {"topics", "chatters", "save", "comments", "save_topic"} ->
         copy[r].parent
    [] OTHER -> NoTopic

\* Until a request dies, topics with an owner count their comments, but for the
\* one that is due; the count that is saved for it is exact.
CountsDue ==
  failures = 0 =>
    /\ \A t \in rows : \/ author[t] = Nobody \/ counted[t] = CommentsOf(t)
                       \/ \E r \in InFlight : t = Due(r)
    /\ \A r \in Requests : pc[r] = "save_topic" => copy[r].counted = CommentsOf(TopicOfRequest(r))

OneByOne ==
  /\ IsFiniteSet(InFlight) /\ \A q, r \in InFlight : q = r
  /\ CommentsHaveTopics /\ CommentsUnderTopics /\ CountsDue
  /\ \A r \in Requests : Unborn(r) /\ NewRow(r) /\ OldRow(r)

AloneInv == together = 1 => OneByOne
=============================================================================
