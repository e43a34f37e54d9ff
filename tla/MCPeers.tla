------------------------------ MODULE MCPeers ------------------------------
(* Phones a, b and c all see each other, in sessions that start so that b  *)
(* can meet either of the others but a and c are too far apart in time.    *)
(* Phone d only sees b, and is seen by it.                                 *)
EXTENDS MeetInvariant, TLC

CONSTANTS a, b, c, d, Phones

MCMposts  == Phones
MCDevs    == {"da", "db", "dc", "dd"}
MCUsers   == {"ua", "ub", "uc", "ud"}
MCUserOf  == "da" :> "ua" @@ "db" :> "ub" @@ "dc" :> "uc" @@ "dd" :> "ud"
MCBaseDev == [m \in Phones |-> (a :> "da" @@ b :> "db" @@ c :> "dc" @@ d :> "dd")[m]]
MCSeenAt  ==
  [m \in Phones |-> (a :> ("db" :> 4 @@ "dc" :> 5) @@ b :> ("da" :> 4 @@ "dc" :> 5 @@ "dd" :> 4)
                     @@ c :> ("da" :> 4 @@ "db" :> 5) @@ d :> ("db" :> 4))[m]]
MCTrigger  == [m \in Phones |-> (a :> 0 @@ b :> 2 @@ c :> 4 @@ d :> 1)[m]]
MCHostMode == [m \in Phones |-> "peer"]
MCHostMeet == [m \in Phones |-> 1]
MCHosterOf == [m \in Phones |-> "ua"]
=============================================================================
