------------------------------ MODULE MCHosted ------------------------------
(* A meet with its owner: h is the owner's peer sighting, o the owner's    *)
(* host_owner mpost, g a guest who sees h, q the client of a join whose    *)
(* owner never posts.                                                      *)
EXTENDS MeetInvariant, TLC

CONSTANTS h, o, g, q, Phones

MCMposts  == Phones
MCDevs    == {"dh", "dg", "dq"}
MCUsers   == {"uh", "ug", "uq"}
MCUserOf  == "dh" :> "uh" @@ "dg" :> "ug" @@ "dq" :> "uq"
MCBaseDev == [m \in Phones |-> (h :> "dh" @@ o :> "dh" @@ g :> "dg" @@ q :> "dq")[m]]
MCUserDev == [m \in Phones |-> IF m = o THEN "dh2" ELSE MCBaseDev[m]]
MCSeenAt  == [m \in Phones |-> IF m = g THEN "dh" :> 0 ELSE <<>>]
MCTrigger == [m \in Phones |-> IF m = h THEN 0 ELSE 1]
MCHostMode ==
  [m \in Phones |-> (h :> "peer" @@ o :> "host_owner" @@ g :> "host_guest" @@ q :> "join_guest")[m]]
MCHostMeet == [m \in Phones |-> 1]
MCHosterOf == [m \in Phones |-> "uh"]
=============================================================================
