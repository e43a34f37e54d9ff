----------------------------- MODULE MCRelation -----------------------------
(* Every way five mposts can have seen each other, in sessions that start  *)
(* close together or too far apart for one meet.                           *)
EXTENDS MeetRelation, TLC

CONSTANTS a, b, c, d, e

MCMposts  == {a, b, c, d, e}
MCTrigger == a :> 0 @@ b :> 2 @@ c :> 4 @@ d :> 1 @@ e :> 5
=============================================================================
