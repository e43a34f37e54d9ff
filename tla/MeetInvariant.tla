---------------------------- MODULE MeetInvariant ----------------------------
(***************************************************************************)
(* The inductive invariants behind the safety properties of MeetProcesser: *)
(* what holds between two steps of the process thread and makes the next   *)
(* one safe.  Module MeetProcesser_proofs proves that they are inductive.  *)
(***************************************************************************)
EXTENDS MeetProcesser

\* where a reached mpost of the pending loop may have gone
Reached == {m \in Mposts : Settled(m)} \union (UNION raw) \union Pooled \union groups

\* The pending loop leaves nobody behind; a meet named in memory exists; the
\* flush puts every mpost pooled for a flushed meet into a meet.
Inventory ==
  /\ todo \subseteq pending
  /\ phase = "pending" => pending \subseteq todo \union Reached
  /\ \A w \in warm : w.meet \in MeetIds
  /\ \A p \in pooled : p[2] \in MeetIds
  /\ \A p \in pooled : p[2] \in flushed => meetOf[p[1]] # NoMeet
  /\ phase # "flush" => flushed = {}
  /\ phase # "groups" => rejected = {}
  /\ phase \notin {"pending", "flush", "groups"} => groups = {}

\* Only host and join mposts are held in local variables alone.
HostModeStays ==
  /\ \A m \in Mposts : HostMode[m] = "peer" => mode[m] = "peer"
  /\ \A m \in groups \union rejected : HostMode[m] # "peer"

InventoryInv == Inventory /\ NothingForgotten

-----------------------------------------------------------------------------
(* While no job has raised and none was delivered twice, a mpost is in one *)
(* place at a time on its way from the web request to its meet.            *)

\* Every place holds posted mposts only.
OnlyPosted ==
  /\ InMemory \union discarded \union absorbed \subseteq posted
  /\ \A m \in Mposts : meetOf[m] # NoMeet => m \in posted

\* mposts that no step has assigned anywhere yet
Unreached == IF phase = "pending" THEN todo ELSE pending
Upstream  == delayed \union QueuedIn(jobs) \union Unreached \union groups \union rejected

Untouched(m) ==
  /\ meetOf[m] = NoMeet
  /\ m \notin UNION raw /\ m \notin Pooled
  /\ \A w \in warm : m \notin w.mposts
  /\ m \notin discarded /\ m \notin absorbed

QueuedOnce(q) ==
  \A i, j \in DOMAIN q :
    q[i].job = "process_mposts" /\ q[j].job = "process_mposts" /\ q[i].mpost = q[j].mpost
      => i = j

UpstreamInv ==
  /\ \A m \in Upstream : Untouched(m)
  /\ delayed \cap (QueuedIn(jobs) \union pending \union groups \union rejected) = {}
  /\ QueuedIn(jobs) \cap (pending \union groups \union rejected) = {}
  /\ groups \cap (Unreached \union rejected) = {}
  /\ QueuedOnce(jobs)

\* A raw cluster shares no mpost with another place.
RawInv ==
  /\ \A c, d \in raw : c = d \/ c \cap d = {}
  /\ \A m \in UNION raw : meetOf[m] = NoMeet /\ m \notin Pooled \union discarded \union absorbed

\* A pooled mpost is pooled for one meet, and gets it when that is flushed.
PooledInv ==
  /\ \A p, r \in pooled : p[1] = r[1] => p = r
  /\ \A p \in pooled :
       /\ meetOf[p[1]] = IF p[2] \in flushed THEN p[2] ELSE NoMeet
       /\ p[1] \notin discarded \union absorbed
  /\ phase \in {"idle", "groups", "raw"} => pooled = {}

\* A processed cluster holds mposts of its meet, or pooled for it.
WarmInv ==
  /\ \A v, w \in warm : v.meet = w.meet => v = w
  /\ \A w \in warm : \A m \in w.mposts : meetOf[m] = w.meet \/ <<m, w.meet>> \in pooled

\* A dropped mpost has no meet.
DroppedInv == \A m \in discarded \union absorbed : meetOf[m] = NoMeet

OnePlace == UpstreamInv /\ RawInv /\ PooledInv /\ WarmInv /\ DroppedInv

CalmInv == OnlyPosted /\ (~disturbed => OnePlace)
=============================================================================
