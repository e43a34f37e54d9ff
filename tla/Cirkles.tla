------------------------------ MODULE Cirkles ------------------------------
(***************************************************************************)
(* Encounters and cirkles (app/models/meet.rb).  A meet that is extracted  *)
(* from mposts is an encounter; behind each encounter stands a cirkle,     *)
(* another meet, that collects the encounters of the same people: a solo   *)
(* or private cirkle by its members, a group cirkle by the first encounter *)
(* or by the id a hoster posts.  A cirkle has one mpost per user with a    *)
(* reference count, so that a user leaves with the last encounter.         *)
(*                                                                         *)
(* Every change of an encounter's mposts ends in extract_information       *)
(* (Extract here), which decides the encounter's type, may take it out of  *)
(* its cirkle and may put it into one.  Requests and jobs run one at a     *)
(* time.  A tally of mposts is a function from users to how many.          *)
(***************************************************************************)
EXTENDS Integers, FiniteSets

CONSTANTS
  Mposts,
  Users,
  UserOf,      \* Mposts -> Users
  Devs,        \* Mposts -> the users whose devices the mpost has seen
  HostMode,    \* Mposts -> "peer", "hoster", "guest", "creater"
  Admin,       \* may open every encounter
  Leavers,     \* users who delete encounters
  Quitters,    \* users who delete cirkles
  Encounters,  \* ids of meets that are extracted from mposts
  CirkleIds,   \* ids of meets that are cirkles
  MaxSessions, \* mposts of one user in an encounter
  MaxRef,      \* bound: no encounter is extracted once a count is this high
  NoMeet, NoCirkle

ASSUME DataAssumption ==
  /\ IsFiniteSet(Mposts) /\ IsFiniteSet(Users) /\ IsFiniteSet(CirkleIds)
  /\ UserOf \in [Mposts -> Users] /\ Devs \in [Mposts -> SUBSET Users]
  /\ HostMode \in [Mposts -> {"peer", "hoster", "guest", "creater"}]
  /\ NoMeet \notin Encounters /\ NoCirkle \notin CirkleIds
  /\ MaxSessions \in Nat /\ MaxRef \in Nat

VARIABLES
  posted,   \* mposts of which the server knows
  claim,    \* mposts.cirkle_id, the cirkle a hoster starts
  meetOf,   \* mposts.meet_id
  deleted,  \* mposts with status 1
  meetType, \* encounter |-> meet_type: 1 solo, 2 private, 3 group, 0 none of them yet
  collided, \* encounters with collision set
  cirkleOf, \* encounter |-> cirkle_id
  cirkles,  \* cirkle id |-> its row and its mposts
  quit,     \* history: users who have deleted a cirkle
  withdrawn \* history: hosters' mposts in encounters that the hoster has deleted

mpostVars == <<posted, claim, meetOf, deleted>>
encounterVars == <<meetType, collided, cirkleOf>>
historyVars == <<quit, withdrawn>>
vars == <<mpostVars, encounterVars, cirkles, historyVars>>

Sorts == {"none", "solo", "private", "group"}

\* an id that is not taken yet; ref and status are the cirkle's mposts by user
NoRow == [sort |-> "none", ref |-> [u \in Users |-> 0],
          status |-> [u \in Users |-> "none"], usersCount |-> 0, encounters |-> {}]

MpostsOf(e) == {m \in Mposts : meetOf[m] = e}

\* Meet#user_ids
ActiveUsers(e) == {UserOf[m] : m \in MpostsOf(e) \ deleted}

EncountersOf(c) == {e \in Encounters : cirkleOf[e] = c}

Sessions(u, S) == Cardinality({m \in S : UserOf[m] = u})
Tally(S) == [u \in Users |-> Sessions(u, S)]
OneEach(us) == [u \in Users |-> IF u \in us THEN 1 ELSE 0]

ActiveIn(c) == {u \in Users : cirkles[c].status[u] = "active"}

-----------------------------------------------------------------------------
(* The type of an encounter.                                               *)

\* extract_meet_type: S are the mposts, us the users of those not deleted
TypeFor(old, S, us) ==
  LET named == {UserOf[m] : m \in S} \union UNION {Devs[m] : m \in S}
      modes == {HostMode[m] : m \in S}
      orphan == /\ Cardinality(us) = 1
                /\ \/ "guest" \in modes /\ "hoster" \notin modes
                   \/ Cardinality(named) > 1
  IN  CASE Cardinality(us) >= 3 \/ old = 3 -> 3
        [] us = {} /\ old # 3 -> 0
        [] Cardinality(us) \in 1..2 /\ old # 3 ->
             IF "creater" \in modes THEN 3
             ELSE IF orphan THEN 0
             ELSE IF Cardinality(us) = 2 /\ Cardinality(named) > 2 THEN 3
             ELSE Cardinality(us)

-----------------------------------------------------------------------------
(* The rows of a cirkle.                                                   *)

\* mutant: only a new user's count goes up
WithNewOnly(x, n) ==
  LET new == {u \in Users : n[u] > 0 /\ x.status[u] = "none"}
  IN  [x EXCEPT !.ref = [u \in Users |-> IF u \in new THEN @[u] + n[u] ELSE @[u]],
                !.status = [u \in Users |-> IF n[u] > 0 THEN "active" ELSE @[u]],
                !.usersCount = @ + Cardinality(new)]

\* add_encounter
With(x, n) ==
  LET came == {u \in Users : n[u] > 0}
      new  == {u \in came : x.status[u] = "none"}
  IN  [x EXCEPT !.ref = [u \in Users |-> @[u] + n[u]],
                !.status = [u \in Users |-> IF u \in came THEN "active" ELSE @[u]],
                !.usersCount = @ + Cardinality(new)]

\* delete_encounter: a count that stays positive is not saved
Without(x, n) ==
  LET rows == {u \in Users : x.status[u] # "none"}
      gone == {u \in rows : n[u] > 0 /\ x.ref[u] - n[u] <= 0}
  IN  [x EXCEPT !.ref = [u \in Users |-> IF u \in gone THEN @[u] - n[u] ELSE @[u]],
                !.status = [u \in Users |-> IF u \in gone THEN "deleted" ELSE @[u]],
                !.usersCount = Cardinality(rows \ gone)]

\* mutant: encounters are counted before the new one is saved
AddEncounterAfterCount(e, c, n) ==
  /\ cirkleOf' = [cirkleOf EXCEPT ![e] = c]
  /\ cirkles' = [cirkles EXCEPT ![c] =
       [With(cirkles[c], n) EXCEPT !.encounters = IF cirkleOf[e] # c THEN EncountersOf(c) ELSE @]]

\* the end of add_encounter: a new encounter is counted
AddEncounter(e, c, n) ==
  /\ cirkleOf' = [cirkleOf EXCEPT ![e] = c]
  /\ cirkles' = [cirkles EXCEPT ![c] =
       [With(cirkles[c], n) EXCEPT !.encounters =
          IF cirkleOf[e] # c THEN EncountersOf(c) \union {e} ELSE @]]

\* update_encounters_count takes no argument and raises: the cirkle still
\* counts the encounter, and nothing after delete_encounter happens
DeleteEncounter(e, c, n) ==
  /\ cirkleOf' = [cirkleOf EXCEPT ![e] = NoCirkle]
  /\ cirkles' = [cirkles EXCEPT ![c] = Without(cirkles[c], n)]

\* a new row of add_encounter
StartCirkle(e, sort, n) ==
  \E c \in CirkleIds :
    /\ cirkles[c].sort = "none"
    /\ cirkleOf' = [cirkleOf EXCEPT ![e] = c]
    /\ cirkles' = [cirkles EXCEPT ![c] =
         [With([NoRow EXCEPT !.sort = sort], n) EXCEPT !.encounters = {e}]]

\* the search of get_cirkle_for_users
IsCirkleOf(c, sort, us) ==
  cirkles[c].sort = sort /\ us \subseteq ActiveIn(c) /\ cirkles[c].usersCount = Cardinality(us)

GetCirkleForUsers(e, us) ==
  LET sort == IF Cardinality(us) = 1 THEN "solo" ELSE "private"
      found == {c \in CirkleIds : IsCirkleOf(c, sort, us)}
  IN  IF found # {}
      THEN \E c \in found : AddEncounter(e, c, OneEach(us))
      ELSE StartCirkle(e, sort, OneEach(us))

-----------------------------------------------------------------------------
(* extract_information of encounter e with the mposts S, of which new have *)
(* just come and del are deleted.                                          *)

\* get_cirkle_for_encounter
GetCirkleForEncounter(e, S, us, type) ==
  CASE type = 0 -> UNCHANGED <<cirkleOf, cirkles>>
    [] type # 0 /\ cirkleOf[e] # NoCirkle -> AddEncounter(e, cirkleOf[e], Tally(S))
    [] type \in {1, 2} /\ cirkleOf[e] = NoCirkle -> GetCirkleForUsers(e, us)
    [] type = 3 /\ cirkleOf[e] = NoCirkle -> StartCirkle(e, "group", Tally(S))

\* mutant: an encounter that grows out of its type keeps its cirkle
MustLeaveByClaim(e, cid, collides, type) ==
  cirkleOf[e] # NoCirkle /\ cirkleOf[e] # cid /\ (collides \/ cid # NoCirkle)

\* mutant: an encounter that shrinks keeps its cirkle
MustLeaveGrown(e, cid, collides, type) ==
  /\ cirkleOf[e] # NoCirkle /\ cirkleOf[e] # cid
  /\ collides \/ cid # NoCirkle \/ (meetType[e] \in {1, 2} /\ meetType[e] < type)

\* whether the encounter has to leave the cirkle it is in
MustLeave(e, cid, collides, type) ==
  /\ cirkleOf[e] # NoCirkle /\ cirkleOf[e] # cid
  /\ collides \/ cid # NoCirkle \/ (meetType[e] \in {1, 2} /\ meetType[e] # type)

Extract(e, S, new, del) ==
  LET claims == {claim[m] : m \in S \ del} \ {NoCirkle}
      collides == e \in collided \/ Cardinality(claims) > 1
      us == IF collides THEN {} ELSE {UserOf[m] : m \in S \ del}
      type == TypeFor(meetType[e], S, us)
  IN  \E cid \in IF claims = {} \/ e \in collided THEN {NoCirkle} ELSE claims :
        /\ collided' = IF collides THEN collided \union {e} ELSE collided
        /\ deleted' = IF collides THEN del \union S ELSE del
        /\ meetType' = [meetType EXCEPT ![e] = type]
        /\ CASE MustLeave(e, cid, collides, type) ->
                  DeleteEncounter(e, cirkleOf[e], Tally(IF collides THEN {} ELSE S \ new))
             [] ~MustLeave(e, cid, collides, type) /\ collides ->
                  UNCHANGED <<cirkleOf, cirkles>>
             [] ~MustLeave(e, cid, collides, type) /\ ~collides /\ cid = NoCirkle ->
                  GetCirkleForEncounter(e, S, us, type)
             [] ~MustLeave(e, cid, collides, type) /\ ~collides /\ cid # NoCirkle ->
                  AddEncounter(e, cid, Tally(IF cirkleOf[e] = NoCirkle THEN S ELSE new))

-----------------------------------------------------------------------------
Init ==
  /\ posted = {m \in Mposts : HostMode[m] \in {"peer", "guest"}}
  /\ claim = [m \in Mposts |-> NoCirkle]
  /\ meetOf = [m \in Mposts |-> NoMeet] /\ deleted = {}
  /\ meetType = [e \in Encounters |-> 0] /\ collided = {}
  /\ cirkleOf = [e \in Encounters |-> NoCirkle]
  /\ cirkles = [c \in CirkleIds |-> NoRow]
  /\ quit = {} /\ withdrawn = {}

Fresh(e) == MpostsOf(e) = {}
InBounds == \A c \in CirkleIds, u \in Users : cirkles[c].ref[u] < MaxRef

\* a hoster chooses one of the group cirkles
PostHoster(m, c) ==
  /\ m \notin posted /\ HostMode[m] = "hoster" /\ cirkles[c].sort = "group"
  /\ posted' = posted \union {m}
  /\ claim' = [claim EXCEPT ![m] = c]
  /\ UNCHANGED <<meetOf, deleted, encounterVars, cirkles, historyVars>>

\* a creater's mpost becomes an encounter within the request
PostCreater(m, e) ==
  /\ m \notin posted /\ HostMode[m] = "creater" /\ Fresh(e) /\ InBounds
  /\ posted' = posted \union {m}
  /\ meetOf' = [meetOf EXCEPT ![m] = e]
  /\ Extract(e, {m}, {m}, deleted)
  /\ UNCHANGED <<claim, historyVars>>

\* what the processer takes for a meet of its own
IsProcessable(S) ==
  \/ \E m \in S : HostMode[m] = "hoster"
  \/ \E m, n \in S : UserOf[m] # UserOf[n]
  \/ \E m \in S : Devs[m] \subseteq {UserOf[m]}

Sees(m, n) == UserOf[n] \in Devs[m] \/ UserOf[m] \in Devs[n]

Unprocessed == {m \in posted : meetOf[m] = NoMeet}

\* assign_mposts_to_meet, for a meet of its own or one in memory
AssignMposts(S, e) ==
  LET all == MpostsOf(e) \union S
  IN  /\ S # {} /\ InBounds
      /\ \A u \in Users : Sessions(u, all) <= MaxSessions
      /\ \A m \in S : all = {m} \/ \E n \in all \ {m} : Sees(m, n)
      /\ Fresh(e) => IsProcessable(S)
      /\ meetOf' = [m \in Mposts |-> IF m \in S THEN e ELSE meetOf[m]]
      /\ Extract(e, all, S, deleted)
      /\ UNCHANGED <<posted, claim, historyVars>>

\* MeetsController#destroy of an encounter
LeaveEncounter(u, e) ==
  /\ u \in Leavers /\ u \in ActiveUsers(e) \union {Admin} /\ ~Fresh(e) /\ InBounds
  /\ LET own == {m \in MpostsOf(e) : UserOf[m] = u}
     IN  /\ Extract(e, MpostsOf(e), {}, deleted \union own)
         /\ withdrawn' = withdrawn \union {m \in own : claim[m] # NoCirkle}
  /\ UNCHANGED <<posted, claim, meetOf, quit>>

\* mutant: the wrong status
LeaveCirkleAsPending(u, c) ==
  /\ u \in Quitters /\ u \in ActiveIn(c)
  /\ cirkles' = [cirkles EXCEPT ![c].status[u] = "pending"]
  /\ quit' = quit \union {u}
  /\ UNCHANGED <<mpostVars, encounterVars, withdrawn>>

\* MeetsController#destroy of a cirkle; it is not extracted
LeaveCirkle(u, c) ==
  /\ u \in Quitters /\ u \in ActiveIn(c)
  /\ cirkles' = [cirkles EXCEPT ![c].status[u] = "deleted"]
  /\ quit' = quit \union {u}
  /\ UNCHANGED <<mpostVars, encounterVars, withdrawn>>

Next ==
  \/ \E m \in Mposts, c \in CirkleIds : PostHoster(m, c)
  \/ \E m \in Mposts, e \in Encounters : PostCreater(m, e)
  \/ \E S \in SUBSET Unprocessed, e \in Encounters : AssignMposts(S, e)
  \/ \E u \in Users \union {Admin}, e \in Encounters : LeaveEncounter(u, e)
  \/ \E u \in Users, c \in CirkleIds : LeaveCirkle(u, c)

Spec == Init /\ [][Next]_vars

-----------------------------------------------------------------------------
(* Properties                                                              *)

Rows == [sort : Sorts, ref : [Users -> Int], status : [Users -> {"none", "active", "deleted"}],
         usersCount : Int, encounters : SUBSET Encounters]

\* Rows are well formed.
TypeOK ==
  /\ posted \subseteq Mposts /\ claim \in [Mposts -> CirkleIds \union {NoCirkle}]
  /\ meetOf \in [Mposts -> Encounters \union {NoMeet}] /\ deleted \subseteq Mposts
  /\ meetType \in [Encounters -> 0..3] /\ collided \subseteq Encounters
  /\ cirkleOf \in [Encounters -> CirkleIds \union {NoCirkle}]
  /\ cirkles \in [CirkleIds -> Rows] /\ quit \subseteq Users
  /\ withdrawn \subseteq Mposts

\* Who is in an encounter is in its cirkle, unless the encounter has lost its
\* meaning or she has deleted a cirkle (the reference counts of add_encounter
\* and delete_encounter).
MembersInCirkle ==
  \A e \in Encounters :
    cirkleOf[e] # NoCirkle /\ meetType[e] # 0 =>
      ActiveUsers(e) \subseteq ActiveIn(cirkleOf[e]) \union quit

\* A solo cirkle is of one user, a private cirkle of two, for ever
\* (extract_information takes an encounter that grows out of its cirkle).
PrivateStaysPrivate ==
  \A c \in CirkleIds :
    LET rows == {u \in Users : cirkles[c].status[u] # "none"}
    IN  /\ cirkles[c].sort = "solo" => Cardinality(rows) <= 1
        /\ cirkles[c].sort = "private" => Cardinality(rows) <= 2

\* Every encounter in a solo or private cirkle is of that type.
CirkleFits ==
  \A e \in Encounters : cirkleOf[e] # NoCirkle =>
    /\ cirkles[cirkleOf[e]].sort = "solo" => meetType[e] = 1
    /\ cirkles[cirkleOf[e]].sort = "private" => meetType[e] = 2

\* "collect all encounters under same cirkle with same members": two people are
\* in one private cirkle, unless one of them has deleted a cirkle.
OneCirklePerPair ==
  \A c, d \in CirkleIds :
    c # d /\ cirkles[c].sort = "private" /\ cirkles[d].sort = "private"
          /\ ActiveIn(c) = ActiveIn(d) /\ Cardinality(ActiveIn(c)) = 2
    => ActiveIn(c) \intersect quit # {}

\* A cirkle lists every encounter it has.
EncountersListed ==
  \A c \in CirkleIds : EncountersOf(c) \subseteq cirkles[c].encounters

\* "All encounters with this user is deleted by collision, remove her from
\* cirkle": nobody else is removed (delete_encounter).
RemovedWithLastEncounter ==
  [][\A c \in CirkleIds, u \in Users \ quit' :
       cirkles[c].status[u] = "active" /\ cirkles'[c].status[u] = "deleted" =>
         \A e \in Encounters : cirkleOf'[e] = c => u \notin ActiveUsers(e)']_vars

\* A user's count in a cirkle covers the encounters she has been in
\* (cirkle_ref_count).
RefCovers ==
  \A c \in CirkleIds, u \in Users :
    Cardinality({e \in EncountersOf(c) \ collided : \E m \in MpostsOf(e) : UserOf[m] = u})
      <= cirkles[c].ref[u]

\* Users have one mpost in an encounter, and hosters stay.  (The mposts of a second
\* session are taken off a count that they were not added to; guests who come
\* after their hoster has left are not counted at all.)
Regular ==
  /\ withdrawn = {}
  /\ \A e \in Encounters : \A m, n \in MpostsOf(e) : UserOf[m] = UserOf[n] => m = n

\* Whatever is counted up and down, cirkles have the people of their encounters,
\* each at least as often as she has been in one, and a pair has one cirkle.
CirklesAddUp == Regular => MembersInCirkle /\ OneCirklePerPair /\ RefCovers
=============================================================================
