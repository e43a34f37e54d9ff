--------------------------- MODULE MpostLifecycle ---------------------------
(***************************************************************************)
(* What the pipeline promises for one mpost, whatever the clusters, queues *)
(* and threads behind it: once posted it waits, until it is put in exactly *)
(* one meet for good, together with others or alone, or is dropped.        *)
(* Mpost#processing_status shows a client this life: 0 is waiting, 1 is    *)
(* grouped.                                                                *)
(***************************************************************************)
EXTENDS Naturals

CONSTANT Mposts

VARIABLES state, meet

NoMeet == 0

vars == <<state, meet>>

Init ==
  /\ state = [m \in Mposts |-> "new"]
  /\ meet = [m \in Mposts |-> NoMeet]

Become(S, s) == state' = [m \in Mposts |-> IF m \in S THEN s ELSE state[m]]

Waiting == {m \in Mposts : state[m] = "waiting"}

Save(m) ==
  /\ state[m] = "new"
  /\ Become({m}, "waiting")
  /\ UNCHANGED meet

\* waiting mposts enter one meet together
Group(S) ==
  /\ S # {} /\ S \subseteq Waiting
  /\ Become(S, "grouped")
  /\ \A m, n \in S : meet'[m] = meet'[n] /\ meet'[m] # NoMeet
  /\ \A m \in Mposts \ S : meet'[m] = meet[m]

Drop(S) ==
  /\ S # {} /\ S \subseteq Waiting
  /\ Become(S, "dropped")
  /\ UNCHANGED meet

Next ==
  \/ \E m \in Mposts : Save(m)
  \/ \E S \in SUBSET Waiting : Group(S) \/ Drop(S)

Spec == Init /\ [][Next]_vars

\* nobody waits forever
EveryoneSettles == \A m \in Mposts : []<>(state[m] # "waiting")
=============================================================================
