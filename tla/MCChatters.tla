----------------------------- MODULE MCChatters -----------------------------
(* Three requests on a meet.  Handled by one process, one after the other, *)
(* they may be anything, find up to two chatters and die halfway; two      *)
(* processes race with comments, deletes and other saves of the meet row   *)
(* on a meet that has at most one chatter.                                 *)
EXTENDS ChatterProcesses, TLC

CONSTANTS ann, root, t1, t2, r1, r2, r3

MCUsers   == {ann, root}
MCInitial == {t1, t2}
MCThree   == {r1, r2, r3}
MCAll     == {"post", "comment", "message", "delete", "touch"}
Races     == {"comment", "delete", "touch"}

Symmetric == Permutations(Requests) \union Permutations(Initial)

MCInit ==
  /\ ProcessesInit
  /\ together > 1 => Cardinality(rows) <= 1

MCNext ==
  /\ ProcessesNext
  /\ together > 1 => failures' = 0 /\ \A r \in InFlight' : kind'[r] \in Races

MCSpec == MCInit /\ [][MCNext]_<<vars, together>>
=============================================================================
