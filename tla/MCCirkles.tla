----------------------------- MODULE MCCirkles -----------------------------
(* Ann and bob meet in two sessions (a1 and b1, a2 and the guest b2), cat  *)
(* comes late and saw both (c2).  Ann creates a cirkle (k) and starts an   *)
(* encounter of one (h), so does cat (i).  Mpost a3 is a second one of ann *)
(* in the second session.                                                  *)
(*                                                                         *)
(* That is one extraction at a time.  Or (overlapping) several of them add *)
(* to the cirkle that ann's encounter s has started, to which the hosters  *)
(* of t and u claim to belong; bob is invited to s and t, cat comes late.  *)
EXTENDS Cirkles, Extractions, TLC

CONSTANTS a1, b1, a2, a3, b2, c2, h, i, k, ann, bob, cat, root, s, t, u, Chosen

VARIABLE overlapping

MCMposts == Chosen
MCUsers == {ann, bob, cat}
MCUserOf ==
  [m \in Chosen |-> IF m \in {a1, a2, a3, h, k} THEN ann ELSE IF m \in {b1, b2} THEN bob ELSE cat]
MCDevs ==
  [m \in Chosen |-> (a1 :> {bob} @@ a2 :> {bob} @@ a3 :> {bob} @@ b1 :> {ann} @@ b2 :> {ann}
                     @@ c2 :> {ann, bob} @@ h :> {bob} @@ i :> {ann, bob} @@ k :> {})[m]]
MCHostMode ==
  [m \in Chosen |-> IF m \in {h, i} THEN "hoster" ELSE IF m = b2 THEN "guest"
                    ELSE IF m = k THEN "creater" ELSE "peer"]

MCInvited   == [e \in {s, t, u} |-> IF e = u THEN {} ELSE {bob}]
MCAttending == [e \in {s, t, u} |-> {ann}]

MCInit == overlapping \in BOOLEAN /\ Init /\ ExtractionsInit

\* Encounters, cirkles and threads are numbers, taken in their order.
InOrder(taken, new) == \A n \in new \ taken : 1..(n - 1) \subseteq taken

Met   == {meetOf[m] : m \in Mposts} \ {NoMeet}
Begun == {c \in CirkleIds : cirkles[c].sort # "none"}

MCNext ==
  /\ UNCHANGED overlapping
  /\ IF overlapping
     THEN ExtractionsNext /\ InOrder(UnderWay, UnderWay') /\ UNCHANGED vars
     ELSE Next /\ InOrder(Met, Met') /\ InOrder(Begun, Begun') /\ UNCHANGED exVars

MCSpec == MCInit /\ [][MCNext]_<<vars, exVars, overlapping>>
=============================================================================
