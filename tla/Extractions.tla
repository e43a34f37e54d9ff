----------------------------- MODULE Extractions -----------------------------
(***************************************************************************)
(* MaxExtractions extractions of encounters at a time that add to one cirkle: the *)
(* process thread with a late mpost, requests that confirm an invitation   *)
(* and requests that delete an encounter, statement by statement           *)
(* (add_encounter of app/models/meet.rb and what encloses it).  The rows   *)
(* of the cirkle and of the encounters have a lock_version and are saved   *)
(* by opt_lock_protected; the cirkle's mposts, one per user with a         *)
(* reference count, have none and are saved after the lock.  A copy of a   *)
(* row is stale once somebody else has saved the row, and until then the   *)
(* same as the row.                                                        *)
(*                                                                         *)
(* An encounter that nobody claims is in the cirkle it has started; one    *)
(* that is claimed (its hoster posted the cirkle's id) is formed later and *)
(* comes into it with its first extraction.  A new mpost of the cirkle is named by the        *)
(* thread that inserts it and its user: it never inserts a second one.     *)
(***************************************************************************)
EXTENDS Integers, FiniteSets, Functions

CONSTANTS
  Extractors,  \* the threads that extract
  Before,      \* what was extracted before them
  Meetings,    \* the encounters
  Claimed,     \* those whose hoster claims the cirkle
  Persons,
  Attending,   \* Meetings -> who it is formed of
  Invited,     \* Meetings -> whom they invite, with a pending mpost
  MaxExtractions, \* bound: extractions altogether
  LockTries,   \* the retries of opt_lock_protected
  MaxCount     \* bound: higher reference counts are not told apart

ASSUME ExtractionsAssumption ==
  /\ IsFiniteSet(Extractors) /\ IsFiniteSet(Persons)
  /\ Before \notin Extractors /\ Claimed \subseteq Meetings
  /\ Invited \in [Meetings -> SUBSET Persons]
  /\ Attending \in [Meetings -> (SUBSET Persons) \ {{}}]
  /\ MaxExtractions \in Nat /\ LockTries \in Nat \ {0} /\ MaxCount \in Nat \ {0, 1}

VARIABLES
  cirkle,    \* its row: [usersCount, encounters], the ones it lists
  refs,      \* its mposts: cirkle_ref_count of each, 0 for none
  meetings,  \* the encounters: [linked, people, pending]
  step,      \* the next statement of each extraction
  job,       \* what it is for, and what it has read
  stale,     \* the extractions whose copy of the cirkle is stale
  outdated,  \* those whose copy of the encounter is
  begun,     \* how many extractions have begun
  neglected  \* history: a change of the cirkle's counters was given up

exVars == <<cirkle, refs, meetings, step, job, stale, outdated, begun, neglected>>

RowIds == (Extractors \cup {Before}) \X Persons
There == {i \in RowIds : refs[i] > 0}
RowsOf(p) == {i \in There : i[2] = p}
Linked == {e \in Meetings : meetings[e].linked}
UnderWay == {x \in Extractors : step[x] # "idle"}

NoTodo == [i \in {} |-> 0]
\* on is the encounter, who are the users of the new mposts, linked what the copy
\* of the encounter says; adds are the users that add_encounter is called for, todo
\* the counts it will save.
Idle == [kind |-> "none", on |-> "none", who |-> {}, linked |-> FALSE, adds |-> {},
         todo |-> NoTodo, tally |-> {}, tries |-> LockTries, meetTries |-> LockTries]

ExtractionsInit ==
  LET came == UNION {Attending[e] : e \in Meetings \ Claimed}
  IN  /\ cirkle = [usersCount |-> Cardinality(came), encounters |-> Meetings \ Claimed]
      /\ refs = [i \in RowIds |-> IF i[1] = Before /\ i[2] \in came THEN 1 ELSE 0]
      /\ meetings = [e \in Meetings |-> IF e \in Claimed THEN [linked |-> FALSE, people |-> {}, pending |-> {}]
                        ELSE [linked |-> TRUE, people |-> Attending[e], pending |-> Invited[e]]]
      /\ step = [x \in Extractors |-> "idle"] /\ job = [x \in Extractors |-> Idle]
      /\ stale = {} /\ outdated = {} /\ begun = 0 /\ neglected = FALSE

-----------------------------------------------------------------------------
Becomes(x, s, j) ==
  /\ step' = [step EXCEPT ![x] = s]
  /\ job' = [job EXCEPT ![x] = j]

\* whose mposts are in the encounter, and who is invited
WithPeople(e, us, invited) == [meetings EXCEPT ![e].people = us, ![e].pending = invited]

\* Where an extraction begins, and begins again: the one of an invited user
\* needs a cirkle.
First(j) == IF j.kind = "confirm" /\ ~j.linked THEN "saveMeet" ELSE "load"

Begin(x, kind, e, us) ==
  LET j == [Idle EXCEPT !.kind = kind, !.on = e, !.who = us, !.linked = meetings[e].linked]
  IN  /\ step[x] = "idle" /\ begun < MaxExtractions
      /\ begun' = begun + 1
      /\ Becomes(x, First(j), j)
      /\ UNCHANGED <<cirkle, refs, stale, outdated, neglected>>

\* pending_decision
Confirm(x, e, p) ==
  /\ p \in meetings[e].pending
  /\ Begin(x, "confirm", e, {p})
  /\ UNCHANGED meetings

\* MeetsController#destroy by any of them; the deleted mposts stay with the
\* encounter
Leave(x, e) ==
  /\ meetings[e].people # {}
  /\ Begin(x, "leave", e, {})
  /\ UNCHANGED meetings

\* There is one process thread.
Assign(x, e, us) ==
  /\ \A y \in UnderWay : job[y].kind # "assign"
  /\ Begin(x, "assign", e, us)

\* assign_mposts_to_meet; the others are invited in the meantime
Form(x, e) ==
  /\ meetings[e].people = {}
  /\ Assign(x, e, Attending[e])
  /\ meetings' = WithPeople(e, Attending[e], Invited[e])

\* assign_mpost_to_meet
ComeLate(x, e, p) ==
  /\ meetings[e].people # {} /\ p \notin meetings[e].people \cup meetings[e].pending
  /\ Assign(x, e, {p})
  /\ meetings' = WithPeople(e, meetings[e].people \cup {p}, meetings[e].pending)

\* encounter.cirkle or find_by_id, and whom add_encounter is called for: whoever
\* is new, but everybody (again) unless the encounter is claimed and in the cirkle
LoadCirkle(x) ==
  LET j   == job[x]
      m   == meetings[j.on]
      all == j.kind # "confirm" /\ ~(j.on \in Claimed /\ j.linked)
  IN  /\ step[x] = "load"
      /\ Becomes(x, IF j.linked /\ j.kind # "confirm" THEN "touch" ELSE "read",
              [j EXCEPT !.adds = IF all THEN m.people \cup m.pending ELSE j.who])
      /\ stale' = stale \ {x}
      /\ UNCHANGED <<cirkle, refs, meetings, outdated, begun, neglected>>

-----------------------------------------------------------------------------
(* A save of the cirkle under its lock: a stale one loads the row again    *)
(* and repeats the block, or gives up and goes on.                         *)

\* again is where the block starts, after what follows it
Repeat(x, again, after) ==
  LET left == job[x].tries - 1
  IN  /\ Becomes(x, IF left > 0 THEN again ELSE after,
                 [job[x] EXCEPT !.tries = IF left > 0 THEN left ELSE LockTries])
      /\ stale' = stale \ {x}
      /\ UNCHANGED <<cirkle, refs, meetings, outdated, begun>>

Saved(x, row, after) ==
  /\ cirkle' = row
  /\ stale' = {y \in UnderWay : step[y] \notin {"load", "saveMeet"}} \ {x}
  /\ Becomes(x, after, [job[x] EXCEPT !.tries = LockTries, !.tally = {}])
  /\ UNCHANGED <<refs, meetings, outdated, begun>>

AfterRows(j) == IF ~j.linked THEN "link" ELSE IF j.kind = "confirm" THEN "touch" ELSE "saveMeet"

\* force_timestamping of an encounter touches its cirkle, before the rest of
\* extract_information or after that of extract_information_from_extra_user
Touch(x) ==
  LET after == IF job[x].kind = "confirm" THEN "saveMeet" ELSE "read"
  IN  /\ step[x] = "touch"
      /\ IF x \notin stale THEN Saved(x, cirkle, after) ELSE Repeat(x, "touch", after)
      /\ UNCHANGED neglected

\* the block of add_encounter: the mposts the users have in the cirkle
ReadMposts(x) ==
  LET whose(p) == IF RowsOf(p) = {} THEN {<<x, p>>} ELSE RowsOf(p)
  IN  /\ step[x] = "read"
      /\ Becomes(x, "saveUsers", [job[x] EXCEPT !.todo =
              [i \in UNION {whose(p) : p \in job[x].adds} |->
                 IF refs[i] < MaxCount THEN refs[i] + 1 ELSE MaxCount]])
      /\ UNCHANGED <<cirkle, refs, meetings, stale, outdated, begun, neglected>>

SaveUsers(x) ==
  LET j     == job[x]
      new   == {i \in DOMAIN j.todo : j.todo[i] = 1}
      after == IF j.todo = NoTodo THEN AfterRows(j) ELSE "rows"
  IN  /\ step[x] = "saveUsers"
      /\ IF x \notin stale
         THEN /\ Saved(x, [cirkle EXCEPT !.usersCount = @ + Cardinality(new)], after)
              /\ UNCHANGED neglected
         ELSE /\ Repeat(x, "read", after)
              /\ neglected' = (neglected \/ (j.tries = 1 /\ new # {}))

\* cirkle_mpost.save, of the count that was read
SaveMpost(x, i) ==
  LET left == Restrict(job[x].todo, DOMAIN job[x].todo \ {i})
  IN  /\ step[x] = "rows" /\ i \in DOMAIN job[x].todo
      /\ refs' = [refs EXCEPT ![i] = job[x].todo[i]]
      /\ Becomes(x, IF left = NoTodo THEN AfterRows(job[x]) ELSE "rows",
                 [job[x] EXCEPT !.todo = left, !.adds = {}])
      /\ UNCHANGED <<cirkle, meetings, stale, outdated, begun, neglected>>

\* the others that have loaded the encounter
Others(x) == {y \in UnderWay : job[y].on = job[x].on} \ {x}

\* encounter.cirkle = self, under the encounter's lock
Link(x) ==
  LET j == job[x]
      e == j.on
  IN  /\ step[x] = "link"
      /\ IF x \notin outdated
         THEN /\ meetings' = [meetings EXCEPT ![e].linked = TRUE]
              /\ outdated' = outdated \cup Others(x)
              /\ Becomes(x, "tally", [j EXCEPT !.linked = TRUE, !.tries = LockTries])
         ELSE /\ Becomes(x, IF j.tries > 1 THEN "link" ELSE "tally",
                    [j EXCEPT !.linked = meetings[e].linked,
                              !.tries = IF @ > 1 THEN @ - 1 ELSE LockTries])
              /\ outdated' = outdated \ {x}
              /\ UNCHANGED meetings
      /\ UNCHANGED <<cirkle, refs, stale, begun, neglected>>

\* update_encounters_count
CountEncounters(x) ==
  /\ step[x] = "tally"
  /\ Becomes(x, "saveCount", [job[x] EXCEPT !.tally = Linked])
  /\ UNCHANGED <<cirkle, refs, meetings, stale, outdated, begun, neglected>>

\* mutant: the repeated save does not count again
SaveCountAsCounted(x) ==
  /\ step[x] = "saveCount"
  /\ IF x \notin stale
     THEN /\ Saved(x, [cirkle EXCEPT !.encounters = job[x].tally], "saveMeet")
          /\ UNCHANGED neglected
     ELSE /\ Repeat(x, "saveCount", "saveMeet")
          /\ neglected' = (neglected \/ job[x].tries = 1)

SaveCount(x) ==
  /\ step[x] = "saveCount"
  /\ IF x \notin stale
     THEN /\ Saved(x, [cirkle EXCEPT !.encounters = job[x].tally], "saveMeet")
          /\ UNCHANGED neglected
     ELSE /\ Repeat(x, "tally", "saveMeet")
          /\ neglected' = (neglected \/ job[x].tries = 1)

\* The save of the encounter that encloses all this: a stale one extracts it
\* once more, unless it was for an invited user who is there by now.  The
\* pending mposts are confirmed right after the save.
SaveMeet(x) ==
  LET j == job[x]
      m == meetings[j.on]
      again == [j EXCEPT !.linked = m.linked, !.meetTries = @ - 1]
  IN  /\ step[x] = "saveMeet"
      /\ IF x \notin outdated
         THEN /\ Becomes(x, "idle", Idle)
              /\ outdated' = outdated \cup Others(x)
              /\ meetings' = IF j.kind # "confirm" THEN meetings
                             ELSE WithPeople(j.on, m.people \cup j.who, m.pending \ j.who)
         ELSE /\ IF j.meetTries = 1 \/ (j.kind = "confirm" /\ j.who \subseteq m.people)
                 THEN Becomes(x, "idle", Idle) ELSE Becomes(x, First(again), again)
              /\ outdated' = outdated \ {x}
              /\ UNCHANGED meetings
      /\ stale' = stale \ {x}
      /\ UNCHANGED <<cirkle, refs, begun, neglected>>

ExtractionsNext ==
  \E x \in Extractors :
    \/ \E e \in Meetings, p \in Persons : Confirm(x, e, p) \/ ComeLate(x, e, p)
    \/ \E e \in Meetings : Leave(x, e) \/ Form(x, e)
    \/ LoadCirkle(x) \/ Touch(x) \/ ReadMposts(x) \/ SaveUsers(x)
    \/ \E i \in RowIds : SaveMpost(x, i)
    \/ Link(x) \/ CountEncounters(x) \/ SaveCount(x) \/ SaveMeet(x)

ExtractionsSpec == ExtractionsInit /\ [][ExtractionsNext]_exVars

-----------------------------------------------------------------------------
Todos == UNION {[S -> 1..MaxCount] : S \in SUBSET RowIds}

Jobs ==
  [kind : {"none", "confirm", "leave", "assign"}, on : Meetings \cup {"none"},
   who : SUBSET Persons, linked : BOOLEAN, adds : SUBSET Persons,
   todo : Todos, tally : SUBSET Meetings,
   tries : 1..LockTries, meetTries : 1..LockTries]

Steps == {"idle", "load", "touch", "read", "saveUsers", "rows", "link", "tally", "saveCount", "saveMeet"}

MeetingRows == [linked : BOOLEAN, people : SUBSET Persons, pending : SUBSET Persons]

\* Rows and what the extractions keep of them are well formed.
ExtractionsTypeOK ==
  /\ cirkle \in [usersCount : Nat, encounters : SUBSET Meetings]
  /\ refs \in [RowIds -> 0..MaxCount]
  /\ meetings \in [Meetings -> MeetingRows]
  /\ step \in [Extractors -> Steps] /\ job \in [Extractors -> Jobs]
  /\ begun \in Nat /\ neglected \in BOOLEAN

(***************************************************************************)
(* users_count is the number of the cirkle's mposts, those included that   *)
(* add_encounter has counted and not saved yet: whatever was repeated, no  *)
(* mpost is counted twice or not at all, unless somebody gave up.          *)
(***************************************************************************)
MpostsCounted ==
  ~neglected => cirkle.usersCount =
     Cardinality(There \cup UNION {DOMAIN job[x].todo : x \in {y \in Extractors : step[y] = "rows"}})

\* Who is in an encounter of the cirkle has a mpost in it, even if a counter
\* was given up; only those whom the process thread assigns may still be on the way.
IsAssigned(e, p) ==
  \E x \in UnderWay : job[x].kind = "assign" /\ job[x].on = e /\ p \in job[x].who

PeopleFollow ==
  \A e \in Linked : \A p \in meetings[e].people : RowsOf(p) # {} \/ IsAssigned(e, p)

\* The cirkle lists the encounters it has, or somebody will still count them.
Counting == {x \in Extractors : step[x] \in {"tally", "saveCount"}}

EncountersSettle == ~neglected /\ Counting = {} => cirkle.encounters = Linked

OverlapsAddUp == MpostsCounted /\ PeopleFollow /\ EncountersSettle

-----------------------------------------------------------------------------
(* The inductive invariant behind them.                                    *)

\* A count to save is 1 for the mposts that the extraction will insert itself and
\* nobody else has; each of the users it adds is among them.
TodoInv(x) ==
  /\ \A i \in DOMAIN job[x].todo : IF job[x].todo[i] = 1 THEN i[1] = x /\ i \notin There ELSE i \in There
  /\ step[x] = "saveUsers" => \A p \in job[x].adds : \E i \in DOMAIN job[x].todo : i[2] = p

\* p has a mpost, or extraction x is on the way to save one
RowComes(x, p) ==
  \/ RowsOf(p) # {}
  \/ /\ p \in job[x].adds
     /\ step[x] \in {"read", "saveUsers"} \/ (step[x] = "touch" /\ job[x].kind # "confirm")
  \/ step[x] = "rows" /\ \E i \in DOMAIN job[x].todo : i[2] = p

\* What an extraction knows of its encounter: who is added was in it or invited, and
\* a copy that is not outdated says whether it is in the cirkle.
CopyInv(x) ==
  x \in UnderWay =>
    LET j == job[x]
        m == meetings[j.on]
    IN  /\ j.on \in Meetings /\ m.people # {}
        /\ j.who \subseteq m.people \cup m.pending
        /\ j.kind = "assign" => j.who \subseteq m.people
        /\ j.linked => m.linked
        /\ x \notin outdated => j.linked = m.linked
        /\ j.kind = "confirm" => step[x] # "link" /\ (j.linked \/ step[x] = "saveMeet")

\* The users it is for get mposts; so does everybody in an encounter that it will
\* put into the cirkle, and everybody invited.
AddsInv(x) ==
  LET j == job[x]
      m == meetings[j.on]
  IN  step[x] \notin {"idle", "load"} =>
        /\ j.kind = "assign" \/ (j.kind = "confirm" /\ j.linked) => \A p \in j.who : RowComes(x, p)
        /\ j.kind # "confirm" /\ ~j.linked =>
             \A p \in m.people \cup m.pending : RowComes(x, p) \/ IsAssigned(j.on, p)

\* A list of encounters that can still be saved is complete, or somebody else is
\* still to count them.
TallyInv(x) ==
  step[x] = "saveCount" /\ x \notin stale /\ job[x].tally # Linked => neglected \/ Counting \ {x} # {}

\* An encounter that is not formed yet has nobody.
FormedInv == \A e \in Meetings : meetings[e].people = {} => ~meetings[e].linked /\ meetings[e].pending = {}

ExtractionsInv ==
  /\ ExtractionsTypeOK /\ OverlapsAddUp /\ FormedInv
  /\ \A x \in Extractors : TodoInv(x) /\ CopyInv(x) /\ AddsInv(x) /\ TallyInv(x)
=============================================================================
