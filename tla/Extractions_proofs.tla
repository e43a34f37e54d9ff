------------------------- MODULE Extractions_proofs -------------------------
(***************************************************************************)
(* For any finite sets of extractors and persons, any encounters and any   *)
(* numbers of tries: what the overlapping extractions of a cirkle's        *)
(* encounters leave adds up.                                               *)
(*                                                                         *)
(* The first sections say what each step does to the rows and to the job   *)
(* of its extraction.  Then each conjunct of ExtractionsInv has a lemma    *)
(* for the extraction that takes the step and one for the others:          *)
(*                                                                         *)
(*   FormedInv, CopyInv      the encounters, and the copies of them that   *)
(*                           the extractions work on                       *)
(*   TodoInv, MpostsCounted  which mposts a saved users_count has counted  *)
(*   AddsInv, PeopleFollow   whoever is in an encounter gets a mpost       *)
(*   TallyInv, EncountersSettle  the list of encounters that is saved last *)
(***************************************************************************)
EXTENDS Extractions, FiniteSetTheorems, TLAPS

-----------------------------------------------------------------------------
(* Types.                                                                  *)

LEMMA NothingToDo == NoTodo \in Todos /\ DOMAIN NoTodo = {} /\ \A f \in Todos : DOMAIN f = {} => f = NoTodo
<1>1. NoTodo \in [{} -> 1..MaxCount] /\ {} \in SUBSET RowIds
  BY DEF NoTodo
<1>2. NoTodo \in Todos
  BY <1>1 DEF Todos
<1>3. ASSUME NEW f \in Todos, DOMAIN f = {} PROVE f = NoTodo
  BY <1>3 DEF Todos, NoTodo
<1> QED
  BY <1>1, <1>2, <1>3

LEMMA IdleIsJob == Idle \in Jobs
<1>1. LockTries \in 1..LockTries /\ NoTodo \in Todos
  BY ExtractionsAssumption, NothingToDo DEF ExtractionsAssumption
<1> QED
  BY <1>1 DEF Idle, Jobs

\* The updates of a job that the steps make are jobs.
LEMMA JobUpdates ==
  ASSUME NEW j \in Jobs
  PROVE  /\ \A S \in SUBSET Persons : [j EXCEPT !.adds = S] \in Jobs
         /\ \A n \in 1..LockTries : [j EXCEPT !.tries = n] \in Jobs
         /\ \A n \in 1..LockTries, S \in SUBSET Meetings : [j EXCEPT !.tries = n, !.tally = S] \in Jobs
         /\ \A f \in Todos : [j EXCEPT !.todo = f] \in Jobs
         /\ \A f \in Todos : [j EXCEPT !.todo = f, !.adds = {}] \in Jobs
         /\ \A b \in BOOLEAN, n \in 1..LockTries : [j EXCEPT !.linked = b, !.tries = n] \in Jobs
         /\ \A b \in BOOLEAN, n \in 1..LockTries : [j EXCEPT !.linked = b, !.meetTries = n] \in Jobs
         /\ \A S \in SUBSET Meetings : [j EXCEPT !.tally = S] \in Jobs
BY DEF Jobs

\* The count that an extraction will save.
LEMMA TodoLess ==
  ASSUME NEW f \in Todos, NEW i
  PROVE  /\ Restrict(f, DOMAIN f \ {i}) \in Todos
         /\ DOMAIN Restrict(f, DOMAIN f \ {i}) = DOMAIN f \ {i}
         /\ \A k \in DOMAIN f \ {i} : Restrict(f, DOMAIN f \ {i})[k] = f[k]
<1>1. PICK S \in SUBSET RowIds : f \in [S -> 1..MaxCount]
  BY DEF Todos
<1>2. Restrict(f, S \ {i}) \in [S \ {i} -> 1..MaxCount] /\ S \ {i} \in SUBSET RowIds
  BY <1>1 DEF Restrict
<1> QED
  BY <1>1, <1>2 DEF Restrict, Todos

\* There are finitely many mposts.
LEMMA RowIdsFinite == IsFiniteSet(RowIds)
<1>1. IsFiniteSet(Extractors \cup {Before}) /\ IsFiniteSet(Persons)
  BY ExtractionsAssumption, FS_AddElement DEF ExtractionsAssumption
<1> QED
  BY <1>1, FS_Product DEF RowIds

\* A step of one extraction changes nothing of the others.
LEMMA BecomesOne ==
  ASSUME ExtractionsTypeOK, NEW x \in Extractors, NEW s, NEW j, Becomes(x, s, j)
  PROVE  /\ step'[x] = s /\ job'[x] = j
         /\ \A y \in Extractors \ {x} : step'[y] = step[y] /\ job'[y] = job[y]
         /\ s \in Steps => step' \in [Extractors -> Steps]
         /\ j \in Jobs => job' \in [Extractors -> Jobs]
BY DEF Becomes, ExtractionsTypeOK

RestOfTypes ==
  /\ cirkle \in [usersCount : Nat, encounters : SUBSET Meetings]
  /\ refs \in [RowIds -> 0..MaxCount]
  /\ meetings \in [Meetings -> MeetingRows]
  /\ begun \in Nat /\ neglected \in BOOLEAN

LEMMA TypeFrom ==
  ASSUME ExtractionsTypeOK, NEW x \in Extractors, NEW s \in Steps, NEW j \in Jobs, Becomes(x, s, j),
         RestOfTypes'
  PROVE  ExtractionsTypeOK'
BY BecomesOne DEF RestOfTypes, ExtractionsTypeOK

LEMMA TypeInit == ExtractionsInit => ExtractionsTypeOK
<1> SUFFICES ASSUME ExtractionsInit PROVE ExtractionsTypeOK
  OBVIOUS
<1> DEFINE came == UNION {Attending[e] : e \in Meetings \ Claimed}
<1>1. came \in SUBSET Persons
  BY ExtractionsAssumption DEF ExtractionsAssumption
<1>2. Cardinality(came) \in Nat
  BY <1>1, ExtractionsAssumption, FS_Subset, FS_CardinalityType DEF ExtractionsAssumption
<1>3. refs \in [RowIds -> 0..MaxCount]
  BY ExtractionsAssumption DEF ExtractionsInit, ExtractionsAssumption
<1>4. meetings \in [Meetings -> MeetingRows]
  BY ExtractionsAssumption DEF ExtractionsInit, ExtractionsAssumption, MeetingRows
<1>5. step \in [Extractors -> Steps] /\ job \in [Extractors -> Jobs]
  BY IdleIsJob DEF ExtractionsInit, Steps
<1>6. cirkle \in [usersCount : Nat, encounters : SUBSET Meetings]
  BY <1>2 DEF ExtractionsInit
<1> QED
  BY <1>3, <1>4, <1>5, <1>6 DEF ExtractionsInit, ExtractionsTypeOK

\* An encounter whose people and invited are replaced.
LEMMA PeopleUpdate ==
  ASSUME meetings \in [Meetings -> MeetingRows], NEW e \in Meetings,
         NEW P \in SUBSET Persons, NEW Q \in SUBSET Persons
  PROVE  /\ WithPeople(e, P, Q) \in [Meetings -> MeetingRows]
         /\ WithPeople(e, P, Q)[e].people = P /\ WithPeople(e, P, Q)[e].pending = Q
         /\ WithPeople(e, P, Q)[e].linked = meetings[e].linked
         /\ \A d \in Meetings \ {e} : WithPeople(e, P, Q)[d] = meetings[d]
<1> DEFINE row == [meetings[e] EXCEPT !.people = P, !.pending = Q]
<1>1. row \in MeetingRows /\ row.people = P /\ row.pending = Q /\ row.linked = meetings[e].linked
  BY DEF MeetingRows
<1>2. WithPeople(e, P, Q) = [meetings EXCEPT ![e] = row]
  BY DEF WithPeople
<1> HIDE DEF row
<1> QED
  BY <1>1, <1>2

\* An encounter that comes into the cirkle.
WithLink(e) == [meetings EXCEPT ![e].linked = TRUE]

LEMMA LinkUpdate ==
  ASSUME meetings \in [Meetings -> MeetingRows], NEW e \in Meetings
  PROVE  /\ WithLink(e) \in [Meetings -> MeetingRows]
         /\ WithLink(e)[e].linked = TRUE
         /\ \A d \in Meetings : /\ WithLink(e)[d].people = meetings[d].people
                                /\ WithLink(e)[d].pending = meetings[d].pending
         /\ \A d \in Meetings \ {e} : WithLink(e)[d] = meetings[d]
<1> DEFINE row == [meetings[e] EXCEPT !.linked = TRUE]
<1>1. row \in MeetingRows /\ row.people = meetings[e].people /\ row.pending = meetings[e].pending /\ row.linked = TRUE
  BY DEF MeetingRows
<1>2. WithLink(e) = [meetings EXCEPT ![e] = row]
  BY DEF WithLink
<1> HIDE DEF row
<1> QED
  BY <1>1, <1>2

\* An extraction that begins.
LEMMA BeginTypes ==
  ASSUME ExtractionsTypeOK, NEW x \in Extractors, NEW kind \in {"confirm", "leave", "assign"},
         NEW e \in Meetings, NEW us \in SUBSET Persons, Begin(x, kind, e, us),
         meetings' \in [Meetings -> MeetingRows]
  PROVE  ExtractionsTypeOK'
<1> DEFINE j == [Idle EXCEPT !.kind = kind, !.on = e, !.who = us, !.linked = meetings[e].linked]
<1>1. j \in Jobs /\ First(j) \in Steps
  BY IdleIsJob DEF Jobs, Idle, ExtractionsTypeOK, MeetingRows, First, Steps
<1>2. RestOfTypes'
  BY DEF Begin, RestOfTypes, ExtractionsTypeOK
<1>3. Becomes(x, First(j), j)
  BY DEF Begin
<1> HIDE DEF j
<1> QED
  BY <1>1, <1>2, <1>3, TypeFrom

LEMMA BeginsTypes ==
  ASSUME ExtractionsTypeOK, NEW x \in Extractors, NEW e \in Meetings,
         (\E p \in Persons : Confirm(x, e, p) \/ ComeLate(x, e, p)) \/ Leave(x, e) \/ Form(x, e)
  PROVE  ExtractionsTypeOK'
<1>1. ASSUME NEW p \in Persons, Confirm(x, e, p) PROVE ExtractionsTypeOK'
  BY <1>1, BeginTypes DEF Confirm, ExtractionsTypeOK
<1>2. CASE Leave(x, e)
  BY <1>2, BeginTypes DEF Leave, ExtractionsTypeOK
<1>3. CASE Form(x, e)
  <2>1. Attending[e] \in SUBSET Persons /\ Invited[e] \in SUBSET Persons
    BY ExtractionsAssumption DEF ExtractionsAssumption
  <2>2. meetings' \in [Meetings -> MeetingRows]
    BY <1>3, <2>1, PeopleUpdate DEF Form, ExtractionsTypeOK
  <2> QED
    BY <1>3, <2>1, <2>2, BeginTypes DEF Form, Assign
<1>4. ASSUME NEW p \in Persons, ComeLate(x, e, p) PROVE ExtractionsTypeOK'
  <2>1. meetings' \in [Meetings -> MeetingRows]
    <3>1. meetings[e].people \cup {p} \in SUBSET Persons /\ meetings[e].pending \in SUBSET Persons
      BY DEF ExtractionsTypeOK, MeetingRows
    <3> QED
      BY <1>4, <3>1, PeopleUpdate DEF ComeLate, ExtractionsTypeOK
  <2> QED
    BY <1>4, <2>1, BeginTypes DEF ComeLate, Assign
<1> QED
  BY <1>1, <1>2, <1>3, <1>4

\* The steps of one extraction, as the lemmas on them need it: what it becomes.
LEMMA RepeatTypes ==
  ASSUME ExtractionsTypeOK, NEW x \in Extractors, NEW again \in Steps, NEW after \in Steps,
         Repeat(x, again, after), neglected' \in BOOLEAN
  PROVE  ExtractionsTypeOK'
<1> DEFINE left == job[x].tries - 1
           j == [job[x] EXCEPT !.tries = IF left > 0 THEN left ELSE LockTries]
<1>1. job[x] \in Jobs /\ job[x].tries \in 1..LockTries
  BY DEF ExtractionsTypeOK, Jobs
<1>2. (IF left > 0 THEN left ELSE LockTries) \in 1..LockTries
  BY <1>1, ExtractionsAssumption DEF ExtractionsAssumption
<1>3. j \in Jobs
  BY <1>1, <1>2, JobUpdates
<1>4. (IF left > 0 THEN again ELSE after) \in Steps
  OBVIOUS
<1>5. Becomes(x, IF left > 0 THEN again ELSE after, j)
  BY DEF Repeat
<1>6. RestOfTypes'
  BY DEF Repeat, RestOfTypes, ExtractionsTypeOK
<1> HIDE DEF left, j
<1> QED
  BY <1>3, <1>4, <1>5, <1>6, TypeFrom

LEMMA SavedTypes ==
  ASSUME ExtractionsTypeOK, NEW x \in Extractors, NEW row, NEW after \in Steps,
         row \in [usersCount : Nat, encounters : SUBSET Meetings], Saved(x, row, after),
         neglected' \in BOOLEAN
  PROVE  ExtractionsTypeOK'
<1> DEFINE j == [job[x] EXCEPT !.tries = LockTries, !.tally = {}]
<1>1. job[x] \in Jobs /\ LockTries \in 1..LockTries
  BY ExtractionsAssumption DEF ExtractionsTypeOK, ExtractionsAssumption
<1>2. j \in Jobs
  BY <1>1, JobUpdates
<1>3. Becomes(x, after, j) /\ RestOfTypes'
  BY DEF Saved, RestOfTypes, ExtractionsTypeOK
<1> HIDE DEF j
<1> QED
  BY <1>2, <1>3, TypeFrom

\* What ReadMposts finds to save.
Whose(x, p) == IF RowsOf(p) = {} THEN {<<x, p>>} ELSE RowsOf(p)
Found(x) ==
  [i \in UNION {Whose(x, p) : p \in job[x].adds} |-> IF refs[i] < MaxCount THEN refs[i] + 1 ELSE MaxCount]

LEMMA FoundTypes ==
  ASSUME ExtractionsTypeOK, NEW x \in Extractors
  PROVE  /\ Found(x) \in Todos
         /\ ReadMposts(x) => Becomes(x, "saveUsers", [job[x] EXCEPT !.todo = Found(x)])
<1>1. ASSUME NEW p \in job[x].adds PROVE Whose(x, p) \subseteq RowIds
  <2>1. <<x, p>> \in RowIds
    BY DEF ExtractionsTypeOK, Jobs, RowIds
  <2> QED
    BY <2>1 DEF Whose, RowsOf, There
<1>2. \A i \in RowIds : (IF refs[i] < MaxCount THEN refs[i] + 1 ELSE MaxCount) \in 1..MaxCount
  BY ExtractionsAssumption DEF ExtractionsTypeOK, ExtractionsAssumption
<1>3. Found(x) \in Todos
  <2> DEFINE S == UNION {Whose(x, p) : p \in job[x].adds}
  <2>1. S \in SUBSET RowIds
    BY <1>1
  <2> HIDE DEF S
  <2>2. [i \in S |-> IF refs[i] < MaxCount THEN refs[i] + 1 ELSE MaxCount] \in [S -> 1..MaxCount]
    BY <1>2, <2>1
  <2>3. Found(x) \in [S -> 1..MaxCount]
    BY <2>2 DEF Found, S
  <2> QED
    BY <2>1, <2>3 DEF Todos
<1>4. ReadMposts(x) => Becomes(x, "saveUsers", [job[x] EXCEPT !.todo = Found(x)])
  BY DEF ReadMposts, Found, Whose
<1> QED
  BY <1>3, <1>4

LEMMA TypeStep ==
  ASSUME ExtractionsTypeOK, \A x \in Extractors : CopyInv(x), [ExtractionsNext]_exVars
  PROVE  ExtractionsTypeOK'
<1>1. CASE UNCHANGED exVars
  BY <1>1 DEF exVars, ExtractionsTypeOK
<1> SUFFICES ASSUME NEW x \in Extractors,
                    \/ \E e \in Meetings, p \in Persons : Confirm(x, e, p) \/ ComeLate(x, e, p)
                    \/ \E e \in Meetings : Leave(x, e) \/ Form(x, e)
                    \/ LoadCirkle(x) \/ Touch(x) \/ ReadMposts(x) \/ SaveUsers(x)
                    \/ \E i \in RowIds : SaveMpost(x, i)
                    \/ Link(x) \/ CountEncounters(x) \/ SaveCount(x) \/ SaveMeet(x)
             PROVE  ExtractionsTypeOK'
  BY <1>1 DEF ExtractionsNext
<1>2. /\ job[x] \in Jobs /\ \A e \in Meetings : meetings[e] \in MeetingRows
      /\ job[x].tries \in 1..LockTries /\ job[x].meetTries \in 1..LockTries
      /\ LockTries \in 1..LockTries /\ cirkle.usersCount \in Nat
  BY ExtractionsAssumption DEF ExtractionsTypeOK, Jobs, ExtractionsAssumption
<1>3. AfterRows(job[x]) \in Steps /\ {"read", "tally", "touch", "saveMeet", "rows"} \subseteq Steps
  BY DEF AfterRows, Steps
<1>4. CASE LoadCirkle(x)
  <2> DEFINE j == job[x]
             m == meetings[j.on]
             all == j.kind # "confirm" /\ ~(j.on \in Claimed /\ j.linked)
             S == IF all THEN m.people \cup m.pending ELSE j.who
             s == IF j.linked /\ j.kind # "confirm" THEN "touch" ELSE "read"
  <2>1. j.on \in Meetings
    BY <1>4 DEF LoadCirkle, CopyInv, UnderWay
  <2>2. S \in SUBSET Persons
    BY <1>2, <2>1 DEF Jobs, MeetingRows
  <2>3. Becomes(x, s, [j EXCEPT !.adds = S])
    BY <1>4 DEF LoadCirkle
  <2>4. s \in Steps
    BY DEF Steps
  <2> HIDE DEF S, s
  <2>5. [j EXCEPT !.adds = S] \in Jobs
    BY <1>2, <2>2, JobUpdates
  <2>6. RestOfTypes'
    BY <1>4 DEF LoadCirkle, RestOfTypes, ExtractionsTypeOK
  <2> QED
    BY <2>3, <2>4, <2>5, <2>6, TypeFrom
<1>5. CASE Touch(x)
  <2>1. neglected' \in BOOLEAN /\ cirkle \in [usersCount : Nat, encounters : SUBSET Meetings]
    BY <1>5 DEF Touch, ExtractionsTypeOK
  <2> QED
    BY <1>3, <1>5, <2>1, RepeatTypes, SavedTypes DEF Touch
<1>6. CASE ReadMposts(x)
  <2>1. [job[x] EXCEPT !.todo = Found(x)] \in Jobs /\ "saveUsers" \in Steps
    BY <1>2, FoundTypes, JobUpdates DEF Steps
  <2>2. RestOfTypes'
    BY <1>6 DEF ReadMposts, RestOfTypes, ExtractionsTypeOK
  <2> QED
    BY <1>6, <2>1, <2>2, FoundTypes, TypeFrom
<1>7. CASE SaveUsers(x)
  <2> DEFINE new == {i \in DOMAIN job[x].todo : job[x].todo[i] = 1}
             after == IF job[x].todo = NoTodo THEN AfterRows(job[x]) ELSE "rows"
             row == [cirkle EXCEPT !.usersCount = @ + Cardinality(new)]
  <2>1. Cardinality(new) \in Nat
    <3>1. new \in SUBSET RowIds
      BY <1>2 DEF Jobs, Todos
    <3> QED
      BY <3>1, RowIdsFinite, FS_Subset, FS_CardinalityType
  <2> HIDE DEF new
  <2>2. row \in [usersCount : Nat, encounters : SUBSET Meetings]
    BY <1>2, <2>1 DEF ExtractionsTypeOK
  <2>3. neglected' \in BOOLEAN
    BY <1>7 DEF SaveUsers, ExtractionsTypeOK
  <2>4. Saved(x, row, after) \/ Repeat(x, "read", after)
    BY <1>7 DEF SaveUsers, new
  <2>5. after \in Steps
    BY <1>3
  <2> HIDE DEF row, after
  <2> QED
    BY <1>3, <2>2, <2>3, <2>4, <2>5, RepeatTypes, SavedTypes
<1>8. ASSUME NEW i \in RowIds, SaveMpost(x, i) PROVE ExtractionsTypeOK'
  <2> DEFINE left == Restrict(job[x].todo, DOMAIN job[x].todo \ {i})
             s == IF left = NoTodo THEN AfterRows(job[x]) ELSE "rows"
  <2>1. i \in DOMAIN job[x].todo /\ job[x].todo \in Todos /\ job[x].todo[i] \in 1..MaxCount
    <3>1. i \in DOMAIN job[x].todo /\ job[x].todo \in Todos
      BY <1>2, <1>8 DEF SaveMpost, Jobs
    <3>2. PICK S \in SUBSET RowIds : job[x].todo \in [S -> 1..MaxCount]
      BY <3>1 DEF Todos
    <3> QED
      BY <3>1, <3>2
  <2>2. left \in Todos /\ s \in Steps
    BY <1>3, <2>1, TodoLess
  <2>3. Becomes(x, s, [job[x] EXCEPT !.todo = left, !.adds = {}])
    BY <1>8 DEF SaveMpost
  <2>4. refs' \in [RowIds -> 0..MaxCount]
    <3>1. refs' = [refs EXCEPT ![i] = job[x].todo[i]]
      BY <1>8 DEF SaveMpost
    <3>2. job[x].todo[i] \in 0..MaxCount
      BY <2>1, ExtractionsAssumption DEF ExtractionsAssumption
    <3> QED
      BY <3>1, <3>2 DEF ExtractionsTypeOK
  <2>5. RestOfTypes'
    BY <1>8, <2>4 DEF SaveMpost, RestOfTypes, ExtractionsTypeOK
  <2> HIDE DEF left, s
  <2>6. [job[x] EXCEPT !.todo = left, !.adds = {}] \in Jobs
    BY <1>2, <2>2, JobUpdates
  <2> QED
    BY <2>2, <2>3, <2>5, <2>6, TypeFrom
<1>9. CASE Link(x)
  <2> DEFINE j == job[x]
             n == IF j.tries > 1 THEN j.tries - 1 ELSE LockTries
  <2>1. j.on \in Meetings /\ n \in 1..LockTries
    BY <1>2, <1>9, ExtractionsAssumption DEF Link, CopyInv, UnderWay, ExtractionsAssumption
  <2>2. meetings' \in [Meetings -> MeetingRows]
    <3>1. meetings' = WithLink(j.on) \/ meetings' = meetings
      BY <1>9 DEF Link, WithLink
    <3> HIDE DEF j
    <3> QED
      BY <2>1, <3>1, LinkUpdate DEF ExtractionsTypeOK
  <2>3. \/ Becomes(x, "tally", [j EXCEPT !.linked = TRUE, !.tries = LockTries])
        \/ Becomes(x, IF j.tries > 1 THEN "link" ELSE "tally",
                   [j EXCEPT !.linked = meetings[j.on].linked, !.tries = n])
    BY <1>9 DEF Link
  <2>4. meetings[j.on].linked \in BOOLEAN
    BY <1>2, <2>1 DEF MeetingRows
  <2> HIDE DEF n
  <2>5. /\ [j EXCEPT !.linked = TRUE, !.tries = LockTries] \in Jobs
        /\ [j EXCEPT !.linked = meetings[j.on].linked, !.tries = n] \in Jobs
    BY <1>2, <2>1, <2>4, JobUpdates
  <2>6. RestOfTypes'
    BY <1>9, <2>2 DEF Link, RestOfTypes, ExtractionsTypeOK
  <2>7. {"tally", "link"} \subseteq Steps
    BY DEF Steps
  <2> QED
    BY <2>3, <2>5, <2>6, <2>7, TypeFrom
<1>10. CASE CountEncounters(x)
  <2>1. [job[x] EXCEPT !.tally = Linked] \in Jobs /\ "saveCount" \in Steps
    BY <1>2, JobUpdates DEF Linked, Steps
  <2>2. RestOfTypes' /\ Becomes(x, "saveCount", [job[x] EXCEPT !.tally = Linked])
    BY <1>10 DEF CountEncounters, RestOfTypes, ExtractionsTypeOK
  <2> QED
    BY <2>1, <2>2, TypeFrom
<1>11. CASE SaveCount(x)
  <2>1. neglected' \in BOOLEAN
    BY <1>11 DEF SaveCount, ExtractionsTypeOK
  <2>2. [cirkle EXCEPT !.encounters = job[x].tally] \in [usersCount : Nat, encounters : SUBSET Meetings]
    BY <1>2 DEF ExtractionsTypeOK, Jobs
  <2> QED
    BY <1>3, <1>11, <2>1, <2>2, RepeatTypes, SavedTypes DEF SaveCount
<1>12. CASE SaveMeet(x)
  <2> DEFINE j == job[x]
             m == meetings[j.on]
             again == [j EXCEPT !.linked = m.linked, !.meetTries = @ - 1]
  <2>1. j.on \in Meetings
    BY <1>12 DEF SaveMeet, CopyInv, UnderWay
  <2>2. meetings' \in [Meetings -> MeetingRows]
    <3>1. m.people \cup j.who \in SUBSET Persons /\ m.pending \ j.who \in SUBSET Persons
      BY <1>2, <2>1 DEF MeetingRows, Jobs
    <3>2. \/ meetings' = meetings
          \/ meetings' = WithPeople(j.on, m.people \cup j.who, m.pending \ j.who)
      BY <1>12 DEF SaveMeet
    <3> HIDE DEF j, m
    <3>3. WithPeople(j.on, m.people \cup j.who, m.pending \ j.who) \in [Meetings -> MeetingRows]
      BY <2>1, <3>1, PeopleUpdate DEF ExtractionsTypeOK
    <3> QED
      BY <3>2, <3>3 DEF ExtractionsTypeOK
  <2>3. RestOfTypes'
    BY <1>12, <2>2 DEF SaveMeet, RestOfTypes, ExtractionsTypeOK
  <2>4. CASE Becomes(x, "idle", Idle)
    BY <2>3, <2>4, IdleIsJob, TypeFrom DEF Steps
  <2>5. CASE j.meetTries # 1 /\ Becomes(x, First(again), again)
    <3>1. m.linked \in BOOLEAN /\ j.meetTries - 1 \in 1..LockTries
      BY <1>2, <2>1, <2>5 DEF MeetingRows
    <3>2. again \in Jobs
      <4>1. again = [j EXCEPT !.linked = m.linked, !.meetTries = j.meetTries - 1]
        BY <1>2 DEF Jobs
      <4> QED
        BY <1>2, <3>1, <4>1, JobUpdates
    <3>3. First(again) \in Steps
      BY DEF First, Steps
    <3> HIDE DEF again
    <3> QED
      BY <2>3, <2>5, <3>2, <3>3, TypeFrom
  <2> QED
    BY <1>12, <2>4, <2>5 DEF SaveMeet
<1> QED
  BY <1>4, <1>5, <1>6, <1>7, <1>8, <1>9, <1>10, <1>11, <1>12, BeginsTypes

-----------------------------------------------------------------------------
(* What each step leaves alone.                                            *)

OthersAlone(x) == \A y \in Extractors \ {x} : step'[y] = step[y] /\ job'[y] = job[y]
KeepsTask(x) == job'[x].kind = job[x].kind /\ job'[x].on = job[x].on /\ job'[x].who = job[x].who
KeepsCopy(x) == KeepsTask(x) /\ job'[x].linked = job[x].linked
KeepsWork(x) == KeepsCopy(x) /\ job'[x].adds = job[x].adds /\ job'[x].todo = job[x].todo

\* Who is about to save a list of encounters keeps a stale copy stale.
StaleStays(x) == \A y \in Extractors \ {x} : step[y] = "saveCount" /\ y \in stale => y \in stale'

LEMMA BeginFacts ==
  ASSUME ExtractionsTypeOK, NEW x \in Extractors, NEW kind, NEW e \in Meetings, NEW us, Begin(x, kind, e, us)
  PROVE  /\ step[x] = "idle" /\ OthersAlone(x)
         /\ job'[x].kind = kind /\ job'[x].on = e /\ job'[x].who = us
         /\ job'[x].linked = meetings[e].linked /\ job'[x].todo = NoTodo
         /\ step'[x] = IF kind = "confirm" /\ ~meetings[e].linked THEN "saveMeet" ELSE "load"
         /\ UNCHANGED <<cirkle, refs, stale, outdated, neglected>>
<1> DEFINE j == [Idle EXCEPT !.kind = kind, !.on = e, !.who = us, !.linked = meetings[e].linked]
<1>1. j.kind = kind /\ j.on = e /\ j.who = us /\ j.linked = meetings[e].linked /\ j.todo = NoTodo
  BY DEF Idle
<1>2. Becomes(x, First(j), j) /\ step[x] = "idle" /\ UNCHANGED <<cirkle, refs, stale, outdated, neglected>>
  BY DEF Begin
<1>3. First(j) = IF kind = "confirm" /\ ~meetings[e].linked THEN "saveMeet" ELSE "load"
  BY <1>1 DEF First
<1> HIDE DEF j
<1> QED
  BY <1>1, <1>2, <1>3, BecomesOne DEF OthersAlone

LEMMA RepeatFacts ==
  ASSUME ExtractionsTypeOK, NEW x \in Extractors, NEW again, NEW after, Repeat(x, again, after)
  PROVE  /\ KeepsWork(x) /\ OthersAlone(x) /\ StaleStays(x)
         /\ job'[x].tally = job[x].tally
         /\ step'[x] = IF job[x].tries > 1 THEN again ELSE after
         /\ UNCHANGED <<cirkle, refs, meetings, outdated>>
<1> DEFINE left == job[x].tries - 1
           n == IF left > 0 THEN left ELSE LockTries
<1>1. job[x] \in Jobs /\ job[x].tries \in Int
  BY DEF ExtractionsTypeOK, Jobs
<1>2. left > 0 <=> job[x].tries > 1
  BY <1>1
<1>3. Becomes(x, IF left > 0 THEN again ELSE after, [job[x] EXCEPT !.tries = n])
  BY DEF Repeat
<1> HIDE DEF left, n
<1>4. /\ step'[x] = IF left > 0 THEN again ELSE after
      /\ job'[x] = [job[x] EXCEPT !.tries = n]
      /\ OthersAlone(x)
  BY <1>3, BecomesOne DEF OthersAlone
<1>5. KeepsWork(x) /\ job'[x].tally = job[x].tally
  BY <1>1, <1>4 DEF KeepsWork, KeepsCopy, KeepsTask, Jobs
<1>6. StaleStays(x) /\ UNCHANGED <<cirkle, refs, meetings, outdated>>
  BY DEF Repeat, StaleStays
<1> QED
  BY <1>2, <1>4, <1>5, <1>6

LEMMA SavedFacts ==
  ASSUME ExtractionsTypeOK, NEW x \in Extractors, NEW row, NEW after, Saved(x, row, after)
  PROVE  /\ KeepsWork(x) /\ OthersAlone(x) /\ step'[x] = after
         /\ \A y \in Extractors \ {x} : step[y] = "saveCount" => y \in stale'
         /\ cirkle' = row /\ UNCHANGED <<refs, meetings, outdated>>
<1>1. job[x] \in Jobs
  BY DEF ExtractionsTypeOK
<1>2. /\ step'[x] = after
      /\ job'[x] = [job[x] EXCEPT !.tries = LockTries, !.tally = {}]
      /\ OthersAlone(x)
  BY BecomesOne DEF OthersAlone, Saved
<1>3. KeepsWork(x)
  BY <1>1, <1>2 DEF KeepsWork, KeepsCopy, KeepsTask, Jobs
<1>4. \A y \in Extractors \ {x} : step[y] = "saveCount" => y \in stale'
  BY DEF Saved, UnderWay
<1> QED
  BY <1>2, <1>3, <1>4 DEF Saved

LEMMA LoadFacts ==
  ASSUME ExtractionsTypeOK, NEW x \in Extractors, LoadCirkle(x)
  PROVE  /\ step[x] = "load" /\ KeepsCopy(x) /\ OthersAlone(x) /\ StaleStays(x)
         /\ job'[x].todo = job[x].todo
         /\ job'[x].adds = IF job[x].kind # "confirm" /\ ~(job[x].on \in Claimed /\ job[x].linked)
                           THEN meetings[job[x].on].people \cup meetings[job[x].on].pending ELSE job[x].who
         /\ step'[x] = IF job[x].linked /\ job[x].kind # "confirm" THEN "touch" ELSE "read"
         /\ UNCHANGED <<cirkle, refs, meetings, outdated, neglected>>
<1> DEFINE j == job[x]
           S == IF j.kind # "confirm" /\ ~(j.on \in Claimed /\ j.linked)
                THEN meetings[j.on].people \cup meetings[j.on].pending ELSE j.who
           s == IF j.linked /\ j.kind # "confirm" THEN "touch" ELSE "read"
<1>1. job[x] \in Jobs
  BY DEF ExtractionsTypeOK
<1>2. Becomes(x, s, [j EXCEPT !.adds = S]) /\ step[x] = "load" /\ StaleStays(x)
  BY DEF LoadCirkle, StaleStays
<1> HIDE DEF S
<1>3. /\ step'[x] = s
      /\ job'[x] = [job[x] EXCEPT !.adds = S]
      /\ OthersAlone(x)
  BY <1>2, BecomesOne DEF OthersAlone
<1>4. KeepsCopy(x) /\ job'[x].todo = job[x].todo /\ job'[x].adds = S
  BY <1>1, <1>3 DEF KeepsCopy, KeepsTask, Jobs
<1> QED
  BY <1>2, <1>3, <1>4 DEF LoadCirkle, S

LEMMA TouchFacts ==
  ASSUME ExtractionsTypeOK, NEW x \in Extractors, Touch(x)
  PROVE  /\ step[x] = "touch" /\ KeepsWork(x) /\ OthersAlone(x) /\ StaleStays(x)
         /\ step'[x] \in {"touch", IF job[x].kind = "confirm" THEN "saveMeet" ELSE "read"}
         /\ UNCHANGED <<cirkle, refs, meetings, outdated, neglected>>
BY RepeatFacts, SavedFacts DEF Touch, StaleStays

LEMMA ReadFacts ==
  ASSUME ExtractionsTypeOK, NEW x \in Extractors, ReadMposts(x)
  PROVE  /\ step[x] = "read" /\ step'[x] = "saveUsers"
         /\ KeepsCopy(x) /\ OthersAlone(x)
         /\ job'[x].adds = job[x].adds /\ job'[x].todo = Found(x)
         /\ UNCHANGED <<cirkle, refs, meetings, stale, outdated, neglected>>
<1>1. job[x] \in Jobs
  BY DEF ExtractionsTypeOK
<1>2. /\ step'[x] = "saveUsers"
      /\ job'[x] = [job[x] EXCEPT !.todo = Found(x)]
      /\ OthersAlone(x)
  BY FoundTypes, BecomesOne DEF OthersAlone
<1>3. KeepsCopy(x) /\ job'[x].adds = job[x].adds /\ job'[x].todo = Found(x)
  BY <1>1, <1>2 DEF KeepsCopy, KeepsTask, Jobs
<1> QED
  BY <1>2, <1>3 DEF ReadMposts

LEMMA SaveUsersFacts ==
  ASSUME ExtractionsTypeOK, NEW x \in Extractors, SaveUsers(x)
  PROVE  LET new   == {i \in DOMAIN job[x].todo : job[x].todo[i] = 1}
             after == IF job[x].todo = NoTodo THEN AfterRows(job[x]) ELSE "rows"
         IN  /\ step[x] = "saveUsers" /\ KeepsWork(x) /\ OthersAlone(x) /\ StaleStays(x)
             /\ UNCHANGED <<refs, meetings, outdated>>
             /\ cirkle'.encounters = cirkle.encounters
             /\ \/ /\ step'[x] = after /\ neglected' = neglected
                   /\ cirkle'.usersCount = cirkle.usersCount + Cardinality(new)
                \/ step'[x] = "read" /\ UNCHANGED <<cirkle, neglected>>
                \/ step'[x] = after /\ cirkle' = cirkle /\ neglected' = (neglected \/ new # {})
<1> DEFINE new   == {i \in DOMAIN job[x].todo : job[x].todo[i] = 1}
           after == IF job[x].todo = NoTodo THEN AfterRows(job[x]) ELSE "rows"
           row == [cirkle EXCEPT !.usersCount = @ + Cardinality(new)]
<1>0. step[x] = "saveUsers" /\ job[x].tries \in 1..LockTries
  BY DEF SaveUsers, ExtractionsTypeOK, Jobs
<1>1. row.encounters = cirkle.encounters /\ row.usersCount = cirkle.usersCount + Cardinality(new)
  BY DEF ExtractionsTypeOK
<1>2. CASE Saved(x, row, after) /\ neglected' = neglected
  <2> HIDE DEF new, after, row
  <2>1. cirkle' = row /\ StaleStays(x)
    BY <1>2, SavedFacts DEF StaleStays
  <2> QED
    BY <1>0, <1>1, <1>2, <2>1, SavedFacts DEF new, after
<1>3. CASE Repeat(x, "read", after) /\ neglected' = (neglected \/ (job[x].tries = 1 /\ new # {}))
  <2> HIDE DEF new, after, row
  <2>1. KeepsWork(x) /\ OthersAlone(x) /\ StaleStays(x) /\ UNCHANGED <<cirkle, refs, meetings, outdated>>
    BY <1>3, RepeatFacts
  <2>2. step'[x] = IF job[x].tries > 1 THEN "read" ELSE after
    BY <1>3, RepeatFacts
  <2>3. CASE job[x].tries > 1
    <3>1. step'[x] = "read" /\ neglected' \in {neglected, neglected \/ FALSE}
      BY <1>3, <2>2, <2>3
    <3>2. neglected' = neglected
      BY <3>1 DEF ExtractionsTypeOK
    <3> QED
      BY <1>0, <2>1, <3>1, <3>2
  <2>4. CASE job[x].tries = 1
    <3>1. step'[x] = after /\ neglected' = (neglected \/ new # {})
      BY <1>3, <2>2, <2>4
    <3> QED
      BY <1>0, <2>1, <3>1 DEF new, after
  <2> QED
    BY <1>0, <2>3, <2>4
<1> QED
  BY <1>2, <1>3 DEF SaveUsers

LEMMA SaveMpostFacts ==
  ASSUME ExtractionsTypeOK, NEW x \in Extractors, NEW i \in RowIds, SaveMpost(x, i)
  PROVE  /\ step[x] = "rows" /\ i \in DOMAIN job[x].todo /\ refs' = [refs EXCEPT ![i] = job[x].todo[i]]
         /\ job'[x].todo = Restrict(job[x].todo, DOMAIN job[x].todo \ {i})
         /\ step'[x] = IF job'[x].todo = NoTodo THEN AfterRows(job[x]) ELSE "rows"
         /\ KeepsCopy(x) /\ OthersAlone(x)
         /\ UNCHANGED <<cirkle, meetings, stale, outdated, neglected>>
<1> DEFINE left == Restrict(job[x].todo, DOMAIN job[x].todo \ {i})
           s == IF left = NoTodo THEN AfterRows(job[x]) ELSE "rows"
<1>1. job[x] \in Jobs
  BY DEF ExtractionsTypeOK
<1>2. /\ Becomes(x, s, [job[x] EXCEPT !.todo = left, !.adds = {}])
      /\ step[x] = "rows" /\ i \in DOMAIN job[x].todo /\ refs' = [refs EXCEPT ![i] = job[x].todo[i]]
      /\ UNCHANGED <<cirkle, meetings, stale, outdated, neglected>>
  BY DEF SaveMpost
<1> HIDE DEF left
<1>3. step'[x] = s /\ job'[x] = [job[x] EXCEPT !.todo = left, !.adds = {}] /\ OthersAlone(x)
  BY <1>2, BecomesOne DEF OthersAlone
<1>4. KeepsCopy(x) /\ job'[x].todo = left
  BY <1>1, <1>3 DEF KeepsCopy, KeepsTask, Jobs
<1> QED
  BY <1>2, <1>3, <1>4 DEF left

LEMMA LinkFacts ==
  ASSUME ExtractionsTypeOK, NEW x \in Extractors, Link(x)
  PROVE  /\ step[x] = "link" /\ KeepsTask(x) /\ OthersAlone(x) /\ job'[x].todo = job[x].todo
         /\ UNCHANGED <<cirkle, refs, stale, neglected>>
         /\ \/ /\ x \notin outdated /\ step'[x] = "tally" /\ job'[x].linked = TRUE
               /\ meetings' = WithLink(job[x].on) /\ outdated' = outdated \cup Others(x)
            \/ /\ x \in outdated /\ step'[x] \in {"link", "tally"}
               /\ job'[x].linked = meetings[job[x].on].linked
               /\ meetings' = meetings /\ outdated' = outdated \ {x}
<1> DEFINE j == job[x]
           n == IF j.tries > 1 THEN j.tries - 1 ELSE LockTries
           s == IF j.tries > 1 THEN "link" ELSE "tally"
<1>1. job[x] \in Jobs
  BY DEF ExtractionsTypeOK
<1>2. CASE /\ x \notin outdated /\ meetings' = WithLink(j.on) /\ outdated' = outdated \cup Others(x)
           /\ Becomes(x, "tally", [j EXCEPT !.linked = TRUE, !.tries = LockTries])
  <2>1. step'[x] = "tally" /\ job'[x] = [job[x] EXCEPT !.linked = TRUE, !.tries = LockTries] /\ OthersAlone(x)
    BY <1>2, BecomesOne DEF OthersAlone
  <2>2. KeepsTask(x) /\ job'[x].linked = TRUE /\ job'[x].todo = job[x].todo
    BY <1>1, <2>1 DEF KeepsTask, Jobs
  <2> QED
    BY <1>2, <2>1, <2>2 DEF Link
<1>3. CASE /\ x \in outdated /\ meetings' = meetings /\ outdated' = outdated \ {x}
           /\ Becomes(x, s, [j EXCEPT !.linked = meetings[j.on].linked, !.tries = n])
  <2> HIDE DEF n
  <2>1. /\ step'[x] = s /\ OthersAlone(x)
        /\ job'[x] = [job[x] EXCEPT !.linked = meetings[job[x].on].linked, !.tries = n]
    BY <1>3, BecomesOne DEF OthersAlone
  <2>2. KeepsTask(x) /\ job'[x].linked = meetings[job[x].on].linked /\ job'[x].todo = job[x].todo
    BY <1>1, <2>1 DEF KeepsTask, Jobs
  <2> QED
    BY <1>3, <2>1, <2>2 DEF Link
<1> QED
  BY <1>2, <1>3 DEF Link, WithLink

LEMMA CountFacts ==
  ASSUME ExtractionsTypeOK, NEW x \in Extractors, CountEncounters(x)
  PROVE  /\ step[x] = "tally" /\ step'[x] = "saveCount" /\ job'[x].tally = Linked
         /\ KeepsWork(x) /\ OthersAlone(x)
         /\ UNCHANGED <<cirkle, refs, meetings, stale, outdated, neglected>>
<1>1. job[x] \in Jobs
  BY DEF ExtractionsTypeOK
<1>2. step'[x] = "saveCount" /\ job'[x] = [job[x] EXCEPT !.tally = Linked] /\ OthersAlone(x)
  BY BecomesOne DEF OthersAlone, CountEncounters
<1>3. KeepsWork(x) /\ job'[x].tally = Linked
  BY <1>1, <1>2 DEF KeepsWork, KeepsCopy, KeepsTask, Jobs
<1> QED
  BY <1>2, <1>3 DEF CountEncounters

LEMMA SaveCountFacts ==
  ASSUME ExtractionsTypeOK, NEW x \in Extractors, SaveCount(x)
  PROVE  /\ step[x] = "saveCount" /\ KeepsWork(x) /\ OthersAlone(x)
         /\ UNCHANGED <<refs, meetings, outdated>> /\ cirkle'.usersCount = cirkle.usersCount
         /\ \/ /\ x \notin stale /\ step'[x] = "saveMeet" /\ neglected' = neglected
               /\ cirkle'.encounters = job[x].tally
               /\ \A y \in Extractors \ {x} : step[y] = "saveCount" => y \in stale'
            \/ /\ x \in stale /\ step'[x] \in {"tally", "saveMeet"} /\ cirkle' = cirkle
               /\ StaleStays(x) /\ neglected' = (neglected \/ step'[x] = "saveMeet")
<1>1. CASE x \notin stale
  <2>1. Saved(x, [cirkle EXCEPT !.encounters = job[x].tally], "saveMeet") /\ step[x] = "saveCount" /\ neglected' = neglected
    BY <1>1 DEF SaveCount
  <2>2. cirkle' = [cirkle EXCEPT !.encounters = job[x].tally]
    BY <2>1 DEF Saved
  <2>3. cirkle'.usersCount = cirkle.usersCount /\ cirkle'.encounters = job[x].tally
    BY <2>2 DEF ExtractionsTypeOK
  <2> QED
    BY <1>1, <2>1, <2>3, SavedFacts
<1>2. CASE x \in stale
  <2>1. Repeat(x, "tally", "saveMeet") /\ step[x] = "saveCount" /\ neglected' = (neglected \/ job[x].tries = 1)
    BY <1>2 DEF SaveCount
  <2>2. step'[x] = IF job[x].tries > 1 THEN "tally" ELSE "saveMeet"
    BY <2>1, RepeatFacts
  <2>3. job[x].tries \in Nat /\ job[x].tries >= 1
    BY DEF ExtractionsTypeOK, Jobs
  <2>4. job[x].tries = 1 <=> step'[x] = "saveMeet"
    BY <2>2, <2>3
  <2>5. neglected' = (neglected \/ step'[x] = "saveMeet")
    BY <2>1, <2>4
  <2> QED
    BY <1>2, <2>1, <2>2, <2>5, RepeatFacts
<1> QED
  BY <1>1, <1>2

LEMMA SaveMeetFacts ==
  ASSUME ExtractionsTypeOK, NEW x \in Extractors, SaveMeet(x)
  PROVE  /\ step[x] = "saveMeet" /\ OthersAlone(x) /\ StaleStays(x)
         /\ UNCHANGED <<cirkle, refs, neglected>>
         /\ \/ step'[x] = "idle" /\ job'[x].todo = NoTodo
            \/ /\ x \in outdated /\ KeepsTask(x) /\ job'[x].todo = job[x].todo
               /\ job'[x].linked = meetings[job[x].on].linked
               /\ step'[x] = IF job'[x].kind = "confirm" /\ ~job'[x].linked THEN "saveMeet" ELSE "load"
         /\ \/ /\ x \notin outdated /\ job[x].kind = "confirm" /\ outdated' = outdated \cup Others(x)
               /\ meetings' = WithPeople(job[x].on, meetings[job[x].on].people \cup job[x].who,
                                         meetings[job[x].on].pending \ job[x].who)
            \/ meetings' = meetings /\ outdated \ {x} \subseteq outdated'
<1> DEFINE j == job[x]
           m == meetings[j.on]
           again == [j EXCEPT !.linked = m.linked, !.meetTries = @ - 1]
<1>1. job[x] \in Jobs
  BY DEF ExtractionsTypeOK
<1>2. /\ again.kind = j.kind /\ again.on = j.on /\ again.who = j.who
      /\ again.linked = m.linked /\ again.todo = j.todo
  BY <1>1 DEF Jobs
<1>3. step[x] = "saveMeet" /\ StaleStays(x) /\ UNCHANGED <<cirkle, refs, neglected>>
  BY DEF SaveMeet, StaleStays
<1>4. \/ Becomes(x, "idle", Idle)
      \/ x \in outdated /\ Becomes(x, First(again), again)
  BY DEF SaveMeet
<1>5. First(again) = IF again.kind = "confirm" /\ ~again.linked THEN "saveMeet" ELSE "load"
  BY DEF First
<1>6. \/ /\ x \notin outdated /\ j.kind = "confirm" /\ outdated' = outdated \cup Others(x)
         /\ meetings' = WithPeople(j.on, m.people \cup j.who, m.pending \ j.who)
      \/ meetings' = meetings /\ outdated \ {x} \subseteq outdated'
  BY DEF SaveMeet
<1> HIDE DEF again
<1>7. /\ OthersAlone(x)
      /\ \/ step'[x] = "idle" /\ job'[x] = Idle
         \/ x \in outdated /\ step'[x] = First(again) /\ job'[x] = again
  BY <1>4, BecomesOne DEF OthersAlone
<1>8. Idle.todo = NoTodo
  BY DEF Idle
<1>9. \/ step'[x] = "idle" /\ job'[x].todo = NoTodo
      \/ /\ x \in outdated /\ KeepsTask(x) /\ job'[x].todo = job[x].todo
         /\ job'[x].linked = meetings[job[x].on].linked
         /\ step'[x] = IF job'[x].kind = "confirm" /\ ~job'[x].linked THEN "saveMeet" ELSE "load"
  BY <1>2, <1>5, <1>7, <1>8 DEF KeepsTask
<1> QED
  BY <1>3, <1>6, <1>7, <1>9

StepOf(x) ==
  \/ \E e \in Meetings, p \in Persons : Confirm(x, e, p) \/ ComeLate(x, e, p)
  \/ \E e \in Meetings : Leave(x, e) \/ Form(x, e)
  \/ LoadCirkle(x) \/ Touch(x) \/ ReadMposts(x) \/ SaveUsers(x)
  \/ \E i \in RowIds : SaveMpost(x, i)
  \/ Link(x) \/ CountEncounters(x) \/ SaveCount(x) \/ SaveMeet(x)

\* An extraction of encounter e begins: who is there or invited before stays it, and
\* only those the process thread assigns are new there, unless it forms the encounter.
Beginning(x, e, kind, us) ==
  /\ step[x] = "idle" /\ OthersAlone(x)
  /\ job'[x].kind = kind /\ job'[x].on = e /\ job'[x].who = us
  /\ job'[x].linked = meetings[e].linked /\ job'[x].todo = NoTodo
  /\ step'[x] = IF kind = "confirm" /\ ~meetings[e].linked THEN "saveMeet" ELSE "load"
  /\ UNCHANGED <<cirkle, refs, stale, outdated, neglected>>
  /\ \A d \in Meetings \ {e} : meetings'[d] = meetings[d]
  /\ meetings'[e].linked = meetings[e].linked
  /\ meetings'[e].people # {} /\ us \subseteq meetings'[e].people \cup meetings'[e].pending
  /\ kind = "assign" => us \subseteq meetings'[e].people
  /\ meetings[e].people # {} =>
       /\ meetings[e].people \subseteq meetings'[e].people
       /\ meetings[e].pending = meetings'[e].pending
       /\ \A p \in meetings'[e].people \ meetings[e].people : kind = "assign" /\ p \in us

LEMMA BeginsFacts ==
  ASSUME ExtractionsTypeOK, FormedInv, NEW x \in Extractors, NEW e \in Meetings,
         (\E p \in Persons : Confirm(x, e, p) \/ ComeLate(x, e, p)) \/ Leave(x, e) \/ Form(x, e)
  PROVE  \E kind, us : Beginning(x, e, kind, us)
<1>0. meetings[e] \in MeetingRows /\ meetings \in [Meetings -> MeetingRows]
  BY DEF ExtractionsTypeOK
<1>1. ASSUME NEW p \in Persons, Confirm(x, e, p) PROVE \E kind, us : Beginning(x, e, kind, us)
  <2>1. Begin(x, "confirm", e, {p}) /\ meetings' = meetings /\ p \in meetings[e].pending
    BY <1>1 DEF Confirm
  <2>2. meetings[e].people # {}
    BY <2>1 DEF FormedInv
  <2>3. Beginning(x, e, "confirm", {p})
    BY <2>1, <2>2, BeginFacts DEF Beginning
  <2> QED
    BY <2>3
<1>2. CASE Leave(x, e)
  <2>1. Begin(x, "leave", e, {}) /\ meetings' = meetings /\ meetings[e].people # {}
    BY <1>2 DEF Leave
  <2>2. Beginning(x, e, "leave", {})
    BY <2>1, BeginFacts DEF Beginning
  <2> QED
    BY <2>2
<1>3. CASE Form(x, e)
  <2>1. Attending[e] \in SUBSET Persons /\ Invited[e] \in SUBSET Persons /\ Attending[e] # {}
    BY ExtractionsAssumption DEF ExtractionsAssumption
  <2>2. /\ Begin(x, "assign", e, Attending[e]) /\ meetings[e].people = {}
        /\ meetings' = WithPeople(e, Attending[e], Invited[e])
    BY <1>3 DEF Form, Assign
  <2>3. /\ \A d \in Meetings \ {e} : meetings'[d] = meetings[d]
        /\ meetings'[e].linked = meetings[e].linked /\ meetings'[e].people = Attending[e]
    BY <1>0, <2>1, <2>2, PeopleUpdate
  <2>4. Beginning(x, e, "assign", Attending[e])
    BY <2>1, <2>2, <2>3, BeginFacts DEF Beginning
  <2> QED
    BY <2>4
<1>4. ASSUME NEW p \in Persons, ComeLate(x, e, p) PROVE \E kind, us : Beginning(x, e, kind, us)
  <2> DEFINE P == meetings[e].people \cup {p}
             Q == meetings[e].pending
  <2>1. P \in SUBSET Persons /\ Q \in SUBSET Persons
    BY <1>0 DEF MeetingRows
  <2>2. Begin(x, "assign", e, {p}) /\ meetings' = WithPeople(e, P, Q)
    BY <1>4 DEF ComeLate, Assign
  <2> HIDE DEF P, Q
  <2>3. /\ \A d \in Meetings \ {e} : meetings'[d] = meetings[d]
        /\ meetings'[e].linked = meetings[e].linked
        /\ meetings'[e].people = P /\ meetings'[e].pending = Q
    BY <1>0, <2>1, <2>2, PeopleUpdate
  <2>4. Q = meetings[e].pending /\ meetings[e].people \subseteq P /\ p \in P /\ P \ meetings[e].people \subseteq {p}
    BY DEF P, Q
  <2>5. Beginning(x, e, "assign", {p})
    BY <2>2, <2>3, <2>4, BeginFacts DEF Beginning
  <2> QED
    BY <2>5
<1> QED
  BY <1>1, <1>2, <1>3, <1>4

\* The steps that leave the encounters alone, and what their copy says.
Working(x) ==
  /\ step[x] \notin {"idle", "saveMeet"} /\ step'[x] \notin {"idle", "load"}
  /\ KeepsCopy(x) /\ OthersAlone(x)
  /\ UNCHANGED <<meetings, outdated>>
  /\ step'[x] = "link" => ~job[x].linked

LEMMA WorkFacts ==
  ASSUME ExtractionsTypeOK, NEW x \in Extractors,
         \/ LoadCirkle(x) \/ Touch(x) \/ ReadMposts(x) \/ SaveUsers(x)
         \/ \E i \in RowIds : SaveMpost(x, i)
         \/ CountEncounters(x) \/ SaveCount(x)
  PROVE  Working(x)
<1>1. \A j : AfterRows(j) \in {"link", "touch", "saveMeet"} /\ (AfterRows(j) = "link" => ~j.linked)
  BY DEF AfterRows
<1>2. CASE LoadCirkle(x)
  BY <1>2, LoadFacts DEF Working
<1>3. CASE Touch(x)
  BY <1>3, TouchFacts DEF Working, KeepsWork
<1>4. CASE ReadMposts(x)
  BY <1>4, ReadFacts DEF Working
<1>5. CASE SaveUsers(x)
  <2>1. step'[x] \in {"rows", "read", AfterRows(job[x])} /\ step[x] = "saveUsers" /\ KeepsWork(x) /\ OthersAlone(x)
        /\ UNCHANGED <<meetings, outdated>>
    BY <1>5, SaveUsersFacts
  <2> QED
    BY <1>1, <2>1 DEF Working, KeepsWork
<1>6. ASSUME NEW i \in RowIds, SaveMpost(x, i) PROVE Working(x)
  <2>1. step'[x] \in {"rows", AfterRows(job[x])}
    BY <1>6, SaveMpostFacts
  <2> QED
    BY <1>1, <1>6, <2>1, SaveMpostFacts DEF Working
<1>7. CASE CountEncounters(x)
  BY <1>7, CountFacts DEF Working, KeepsWork
<1>8. CASE SaveCount(x)
  <2>1. step'[x] \in {"tally", "saveMeet"} /\ step[x] = "saveCount" /\ KeepsWork(x) /\ OthersAlone(x)
        /\ UNCHANGED <<meetings, outdated>>
    BY <1>8, SaveCountFacts
  <2> QED
    BY <2>1 DEF Working, KeepsWork
<1> QED
  BY <1>2, <1>3, <1>4, <1>5, <1>6, <1>7, <1>8

LEMMA StepCases ==
  ASSUME ExtractionsTypeOK, FormedInv, NEW x \in Extractors, StepOf(x)
  PROVE  \/ \E e \in Meetings : \E kind, us : Beginning(x, e, kind, us)
         \/ Working(x) \/ Link(x) \/ SaveMeet(x)
BY BeginsFacts, WorkFacts DEF StepOf

-----------------------------------------------------------------------------
(* Encounters and their copies.                                            *)

LEMMA SaveMeetPeople ==
  ASSUME ExtractionsTypeOK, NEW x \in Extractors, SaveMeet(x), CopyInv(x)
  PROVE  /\ \A d \in Meetings : /\ meetings'[d].linked = meetings[d].linked
                                /\ meetings[d].people \subseteq meetings'[d].people
                                /\ meetings'[d].people \cup meetings'[d].pending
                                     = meetings[d].people \cup meetings[d].pending
         /\ \A d \in Meetings : meetings'[d] # meetings[d] =>
              /\ d = job[x].on /\ x \notin outdated /\ job[x].kind = "confirm"
              /\ meetings'[d].people \subseteq meetings[d].people \cup job[x].who
<1> DEFINE e == job[x].on
           P == meetings[e].people \cup job[x].who
           Q == meetings[e].pending \ job[x].who
<1>1. e \in Meetings /\ job[x].who \subseteq meetings[e].people \cup meetings[e].pending
  BY SaveMeetFacts DEF CopyInv, UnderWay
<1>2. meetings \in [Meetings -> MeetingRows] /\ meetings[e] \in MeetingRows /\ job[x].who \in SUBSET Persons
  BY <1>1 DEF ExtractionsTypeOK, Jobs
<1>3. P \in SUBSET Persons /\ Q \in SUBSET Persons
  BY <1>2 DEF MeetingRows
<1>4. /\ meetings[e].people \subseteq P /\ P \cup Q = meetings[e].people \cup meetings[e].pending
      /\ P \subseteq meetings[e].people \cup job[x].who
  BY <1>1
<1>5. \/ meetings' = WithPeople(e, P, Q) /\ x \notin outdated /\ job[x].kind = "confirm"
      \/ meetings' = meetings
  BY SaveMeetFacts
<1> HIDE DEF e, P, Q
<1>6. CASE meetings' = meetings
  BY <1>6
<1>7. CASE meetings' = WithPeople(e, P, Q) /\ x \notin outdated /\ job[x].kind = "confirm"
  <2>1. /\ meetings'[e].people = P /\ meetings'[e].pending = Q /\ meetings'[e].linked = meetings[e].linked
        /\ \A d \in Meetings \ {e} : meetings'[d] = meetings[d]
    BY <1>1, <1>2, <1>3, <1>7, PeopleUpdate
  <2> QED
    BY <1>4, <1>7, <2>1 DEF e
<1> QED
  BY <1>5, <1>6, <1>7

LEMMA FormedStep ==
  ASSUME ExtractionsTypeOK, FormedInv, NEW x \in Extractors, CopyInv(x), StepOf(x)
  PROVE  FormedInv'
<1> SUFFICES ASSUME NEW d \in Meetings, meetings'[d].people = {}
             PROVE  ~meetings'[d].linked /\ meetings'[d].pending = {}
  BY DEF FormedInv
<1>1. meetings[d].people = {} => ~meetings[d].linked /\ meetings[d].pending = {}
  BY DEF FormedInv
<1>2. ASSUME NEW e \in Meetings, NEW kind, NEW us, Beginning(x, e, kind, us)
      PROVE  ~meetings'[d].linked /\ meetings'[d].pending = {}
  BY <1>1, <1>2 DEF Beginning
<1>3. CASE Working(x)
  BY <1>1, <1>3 DEF Working
<1>4. CASE Link(x)
  <2>1. job[x].on \in Meetings /\ meetings[job[x].on].people # {}
    BY <1>4, LinkFacts DEF CopyInv, UnderWay
  <2>2. meetings' = WithLink(job[x].on) \/ meetings' = meetings
    BY <1>4, LinkFacts
  <2>3. meetings \in [Meetings -> MeetingRows]
    BY DEF ExtractionsTypeOK
  <2>4. meetings'[d].people = meetings[d].people
    BY <2>1, <2>2, <2>3, LinkUpdate
  <2>5. d # job[x].on
    BY <2>1, <2>4
  <2> DEFINE e == job[x].on
  <2>6. meetings'[d] = meetings[d]
    <3> HIDE DEF e
    <3>1. CASE meetings' = WithLink(e)
      BY <2>1, <2>3, <2>5, <3>1, LinkUpdate DEF e
    <3>2. CASE meetings' = meetings
      BY <3>2
    <3> QED
      BY <2>2, <3>1, <3>2 DEF e
  <2> QED
    BY <1>1, <2>6
<1>5. CASE SaveMeet(x)
  BY <1>1, <1>5, SaveMeetPeople
<1> QED
  BY <1>2, <1>3, <1>4, <1>5, StepCases

\* The copy of an extraction that takes no step.
LEMMA CopyOfOthers ==
  ASSUME ExtractionsTypeOK, FormedInv, NEW x \in Extractors, CopyInv(x), StepOf(x),
         NEW y \in Extractors \ {x}, CopyInv(y)
  PROVE  CopyInv(y)'
<1> SUFFICES ASSUME step'[y] # "idle" PROVE CopyInv(y)'
  BY DEF CopyInv, UnderWay
<1> DEFINE j == job[y]
           d == job[y].on
<1>1. OthersAlone(x)
  BY StepCases, LinkFacts, SaveMeetFacts DEF Beginning, Working
<1>2. step'[y] = step[y] /\ job'[y] = job[y]
  BY <1>1 DEF OthersAlone
<1>3. /\ d \in Meetings /\ meetings[d].people # {} /\ y \in UnderWay
      /\ j.who \subseteq meetings[d].people \cup meetings[d].pending
      /\ j.kind = "assign" => j.who \subseteq meetings[d].people
      /\ j.linked => meetings[d].linked
      /\ y \notin outdated => j.linked = meetings[d].linked
      /\ j.kind = "confirm" => step[y] # "link" /\ (j.linked \/ step[y] = "saveMeet")
  BY <1>2 DEF CopyInv, UnderWay
<1> SUFFICES
      /\ meetings[d].people \subseteq meetings'[d].people
      /\ meetings[d].people \cup meetings[d].pending \subseteq meetings'[d].people \cup meetings'[d].pending
      /\ meetings[d].linked => meetings'[d].linked
      /\ y \notin outdated' => y \notin outdated /\ meetings'[d].linked = meetings[d].linked
  BY <1>2, <1>3 DEF CopyInv, UnderWay
<1>4. ASSUME NEW e \in Meetings, NEW kind, NEW us, Beginning(x, e, kind, us)
      PROVE  /\ meetings[d].people \subseteq meetings'[d].people
             /\ meetings[d].people \cup meetings[d].pending \subseteq meetings'[d].people \cup meetings'[d].pending
             /\ meetings'[d].linked = meetings[d].linked /\ outdated' = outdated
  BY <1>3, <1>4 DEF Beginning
<1>5. CASE Working(x)
  BY <1>5 DEF Working
<1>6. CASE Link(x)
  <2>1. job[x].on \in Meetings /\ meetings \in [Meetings -> MeetingRows]
    BY <1>6, LinkFacts DEF CopyInv, UnderWay, ExtractionsTypeOK
  <2>2. CASE meetings' = meetings /\ outdated' = outdated \ {x}
    BY <2>2
  <2>3. CASE meetings' = WithLink(job[x].on) /\ outdated' = outdated \cup Others(x)
    <3>1. /\ meetings'[d].people = meetings[d].people /\ meetings'[d].pending = meetings[d].pending
          /\ d = job[x].on => meetings'[d].linked /\ y \in outdated'
          /\ d # job[x].on => meetings'[d] = meetings[d]
      BY <1>3, <2>1, <2>3, LinkUpdate DEF Others
    <3> QED
      BY <2>3, <3>1
  <2> QED
    BY <1>6, <2>2, <2>3, LinkFacts
<1>7. CASE SaveMeet(x)
  <2>1. y \notin outdated' => y \notin outdated
    BY <1>7, SaveMeetFacts
  <2> QED
    BY <1>3, <1>7, <2>1, SaveMeetPeople
<1> QED
  BY <1>4, <1>5, <1>6, <1>7, StepCases

LEMMA CopyOfOwn ==
  ASSUME ExtractionsTypeOK, FormedInv, NEW x \in Extractors, CopyInv(x), StepOf(x)
  PROVE  CopyInv(x)'
<1>1. ASSUME NEW e \in Meetings, NEW kind, NEW us, Beginning(x, e, kind, us) PROVE CopyInv(x)'
  BY <1>1 DEF Beginning, CopyInv, UnderWay
<1>2. CASE Working(x)
  BY <1>2 DEF Working, KeepsCopy, KeepsTask, CopyInv, UnderWay
<1>3. CASE Link(x)
  <2> DEFINE e == job[x].on
  <2>1. /\ e \in Meetings /\ meetings \in [Meetings -> MeetingRows] /\ job[x].kind # "confirm"
        /\ meetings[e].people # {} /\ job[x].who \subseteq meetings[e].people \cup meetings[e].pending
        /\ job[x].kind = "assign" => job[x].who \subseteq meetings[e].people
    BY <1>3, LinkFacts DEF CopyInv, UnderWay, ExtractionsTypeOK
  <2>2. /\ job'[x].kind = job[x].kind /\ job'[x].on = e /\ job'[x].who = job[x].who
    BY <1>3, LinkFacts DEF KeepsTask
  <2>3. /\ meetings'[e].people = meetings[e].people /\ meetings'[e].pending = meetings[e].pending
        /\ job'[x].linked = meetings'[e].linked
    <3>1. CASE meetings' = WithLink(e) /\ job'[x].linked = TRUE
      <4> HIDE DEF e
      <4> QED
        BY <2>1, <3>1, LinkUpdate
    <3>2. CASE meetings' = meetings /\ job'[x].linked = meetings[e].linked
      BY <3>2
    <3> QED
      BY <1>3, <3>1, <3>2, LinkFacts
  <2> QED
    BY <2>1, <2>2, <2>3 DEF CopyInv, UnderWay
<1>4. CASE SaveMeet(x)
  <2>1. CASE step'[x] = "idle"
    BY <2>1 DEF CopyInv, UnderWay
  <2>2. CASE step'[x] # "idle"
    <3> DEFINE e == job[x].on
    <3>1. /\ KeepsTask(x) /\ x \in outdated
          /\ job'[x].linked = meetings[job[x].on].linked
          /\ step'[x] = IF job'[x].kind = "confirm" /\ ~job'[x].linked THEN "saveMeet" ELSE "load"
      BY <1>4, <2>2, SaveMeetFacts
    <3>2. /\ e \in Meetings /\ meetings[e].people # {}
          /\ job[x].who \subseteq meetings[e].people \cup meetings[e].pending
          /\ job[x].kind = "assign" => job[x].who \subseteq meetings[e].people
      BY <1>4, SaveMeetFacts DEF CopyInv, UnderWay
    <3>3. meetings'[e] = meetings[e]
      BY <1>4, <3>1, <3>2, SaveMeetPeople
    <3> QED
      BY <3>1, <3>2, <3>3 DEF CopyInv, UnderWay, KeepsTask
  <2> QED
    BY <2>1, <2>2
<1> QED
  BY <1>1, <1>2, <1>3, <1>4, StepCases

-----------------------------------------------------------------------------
(* The mposts of the cirkle, and the counts to save.                       *)

LEMMA TodoIsJob ==
  ASSUME ExtractionsTypeOK, NEW x \in Extractors
  PROVE  /\ job[x].todo \in Todos /\ DOMAIN job[x].todo \subseteq RowIds
         /\ \A i \in DOMAIN job[x].todo : job[x].todo[i] \in 1..MaxCount
         /\ IsFiniteSet(DOMAIN job[x].todo)
<1>1. job[x].todo \in Todos
  BY DEF ExtractionsTypeOK, Jobs
<1>2. PICK S \in SUBSET RowIds : job[x].todo \in [S -> 1..MaxCount]
  BY <1>1 DEF Todos
<1> QED
  BY <1>1, <1>2, RowIdsFinite, FS_Subset

LEMMA SaveLess ==
  ASSUME ExtractionsTypeOK, NEW x \in Extractors, NEW i \in RowIds, SaveMpost(x, i)
  PROVE  /\ DOMAIN job'[x].todo = DOMAIN job[x].todo \ {i}
         /\ \A k \in DOMAIN job'[x].todo : job'[x].todo[k] = job[x].todo[k]
         /\ job'[x].todo = NoTodo <=> DOMAIN job[x].todo = {i}
<1> DEFINE f == job[x].todo
           g == job'[x].todo
<1>1. f \in Todos /\ g = Restrict(f, DOMAIN f \ {i}) /\ i \in DOMAIN f
  BY TodoIsJob, SaveMpostFacts
<1> HIDE DEF f, g
<1>2. /\ g \in Todos /\ DOMAIN g = DOMAIN f \ {i}
      /\ \A k \in DOMAIN f \ {i} : g[k] = f[k]
  BY <1>1, TodoLess
<1>3. g = NoTodo <=> DOMAIN f = {i}
  BY <1>1, <1>2, NothingToDo
<1> QED
  BY <1>2, <1>3 DEF f, g

\* Only the save of a mpost changes which there are: it adds its own.
LEMMA RowsSaved ==
  ASSUME ExtractionsTypeOK, NEW x \in Extractors, NEW i \in RowIds, SaveMpost(x, i)
  PROVE  There' = There \cup {i}
<1>1. job[x].todo[i] \in 1..MaxCount /\ refs' = [refs EXCEPT ![i] = job[x].todo[i]]
  BY SaveMpostFacts, TodoIsJob
<1>2. refs'[i] > 0 /\ \A k \in RowIds \ {i} : refs'[k] = refs[k]
  BY <1>1, ExtractionsAssumption DEF ExtractionsTypeOK, ExtractionsAssumption
<1> QED
  BY <1>2 DEF There

LEMMA RowsStay ==
  ASSUME ExtractionsTypeOK, FormedInv, NEW x \in Extractors, StepOf(x)
  PROVE  /\ There' = There \/ \E i \in RowIds : SaveMpost(x, i) /\ There' = There \cup {i}
         /\ OthersAlone(x)
         /\ \A p : RowsOf(p) \subseteq RowsOf(p)'
<1>1. ASSUME NEW e \in Meetings, NEW kind, NEW us, Beginning(x, e, kind, us) PROVE refs' = refs
  BY <1>1 DEF Beginning
<1>2. refs' = refs \/ \E i \in RowIds : SaveMpost(x, i)
  BY <1>1, BeginsFacts, LoadFacts, TouchFacts, ReadFacts, SaveUsersFacts, LinkFacts, CountFacts,
     SaveCountFacts, SaveMeetFacts DEF StepOf
<1>3. There' = There \/ \E i \in RowIds : SaveMpost(x, i) /\ There' = There \cup {i}
  BY <1>2, RowsSaved DEF There
<1>4. \A p : RowsOf(p) \subseteq RowsOf(p)'
  BY <1>3 DEF RowsOf
<1> QED
  BY <1>3, <1>4, StepCases, LinkFacts, SaveMeetFacts DEF Beginning, Working

\* What is found to save: 1 for a mpost that nobody has inserted.
LEMMA FoundFacts ==
  ASSUME ExtractionsTypeOK, NEW x \in Extractors
  PROVE  /\ DOMAIN Found(x) = UNION {Whose(x, p) : p \in job[x].adds}
         /\ \A i \in DOMAIN Found(x) : IF Found(x)[i] = 1 THEN i[1] = x /\ i \notin There ELSE i \in There
         /\ \A p \in job[x].adds : \E i \in DOMAIN Found(x) : i[2] = p
<1>1. DOMAIN Found(x) = UNION {Whose(x, p) : p \in job[x].adds}
  BY DEF Found
<1>2. ASSUME NEW i \in DOMAIN Found(x)
      PROVE  IF Found(x)[i] = 1 THEN i[1] = x /\ i \notin There ELSE i \in There
  <2>1. PICK p \in job[x].adds : i \in Whose(x, p)
    BY <1>1, <1>2
  <2>2. p \in Persons
    BY DEF ExtractionsTypeOK, Jobs
  <2>3. Found(x)[i] = IF refs[i] < MaxCount THEN refs[i] + 1 ELSE MaxCount
    BY <1>1, <1>2 DEF Found
  <2>4. CASE RowsOf(p) = {}
    <3>1. i = <<x, p>> /\ i \in RowIds
      BY <2>1, <2>2, <2>4 DEF Whose, RowIds
    <3>2. i \notin There
      BY <2>4, <3>1 DEF RowsOf
    <3>3. refs[i] = 0
      BY <3>1, <3>2 DEF There, ExtractionsTypeOK
    <3> QED
      BY <2>3, <3>1, <3>2, <3>3, ExtractionsAssumption DEF ExtractionsAssumption
  <2>5. CASE RowsOf(p) # {}
    <3>1. i \in There /\ i \in RowIds
      BY <2>1, <2>5 DEF Whose, RowsOf, There
    <3>2. refs[i] \in 1..MaxCount
      BY <3>1 DEF There, ExtractionsTypeOK
    <3> QED
      BY <2>3, <3>1, <3>2, ExtractionsAssumption DEF ExtractionsAssumption
  <2> QED
    BY <2>4, <2>5
<1>3. ASSUME NEW p \in job[x].adds PROVE \E i \in DOMAIN Found(x) : i[2] = p
  <2>1. Whose(x, p) # {} /\ \A i \in Whose(x, p) : i[2] = p
    <3>1. CASE RowsOf(p) = {}
      BY <3>1 DEF Whose
    <3>2. CASE RowsOf(p) # {}
      BY <3>2 DEF Whose, RowsOf
    <3> QED
      BY <3>1, <3>2
  <2> QED
    BY <1>1, <2>1
<1> QED
  BY <1>1, <1>2, <1>3

LEMMA TodoOfOthers ==
  ASSUME ExtractionsTypeOK, FormedInv, NEW x \in Extractors, TodoInv(x), StepOf(x),
         NEW y \in Extractors \ {x}, TodoInv(y)
  PROVE  TodoInv(y)'
<1>1. step'[y] = step[y] /\ job'[y] = job[y]
  BY RowsStay DEF OthersAlone
<1>2. CASE There' = There
  BY <1>1, <1>2 DEF TodoInv
<1>3. ASSUME NEW i \in RowIds, SaveMpost(x, i), There' = There \cup {i} PROVE TodoInv(y)'
  <2>1. ASSUME NEW k \in DOMAIN job[y].todo
        PROVE  IF job[y].todo[k] = 1 THEN k[1] = y /\ k \notin There' ELSE k \in There'
    <3>1. IF job[y].todo[k] = 1 THEN k[1] = y /\ k \notin There ELSE k \in There
      BY DEF TodoInv
    <3>2. i \in There \/ i[1] = x
      BY <1>3, SaveMpostFacts DEF TodoInv
    <3> QED
      BY <1>3, <3>1, <3>2
  <2>2. step[y] = "saveUsers" => \A p \in job[y].adds : \E k \in DOMAIN job[y].todo : k[2] = p
    BY DEF TodoInv
  <2> QED
    BY <1>1, <2>1, <2>2 DEF TodoInv
<1> QED
  BY <1>2, <1>3, RowsStay

LEMMA TodoOfOwn ==
  ASSUME ExtractionsTypeOK, FormedInv, NEW x \in Extractors, TodoInv(x), StepOf(x)
  PROVE  TodoInv(x)'
<1>1. CASE job'[x].todo = NoTodo /\ step'[x] # "saveUsers"
  BY <1>1, NothingToDo DEF TodoInv
<1>2. CASE refs' = refs /\ job'[x].todo = job[x].todo /\ step'[x] # "saveUsers"
  BY <1>2 DEF TodoInv, There
<1>3. ASSUME NEW e \in Meetings, NEW kind, NEW us, Beginning(x, e, kind, us) PROVE TodoInv(x)'
  BY <1>1, <1>3 DEF Beginning
<1>4. CASE LoadCirkle(x) \/ Touch(x) \/ CountEncounters(x) \/ SaveCount(x)
  BY <1>2, <1>4, LoadFacts, TouchFacts, CountFacts, SaveCountFacts DEF KeepsWork
<1>5. CASE SaveUsers(x)
  <2>1. AfterRows(job[x]) # "saveUsers"
    BY DEF AfterRows
  <2> QED
    BY <1>2, <1>5, <2>1, SaveUsersFacts DEF KeepsWork
<1>6. CASE ReadMposts(x)
  <2>1. There' = There /\ job'[x].todo = Found(x) /\ job'[x].adds = job[x].adds
    BY <1>6, ReadFacts DEF There
  <2>2. /\ \A i \in DOMAIN job'[x].todo :
              IF job'[x].todo[i] = 1 THEN i[1] = x /\ i \notin There' ELSE i \in There'
        /\ \A p \in job'[x].adds : \E i \in DOMAIN job'[x].todo : i[2] = p
    <3>1. /\ \A i \in DOMAIN Found(x) : IF Found(x)[i] = 1 THEN i[1] = x /\ i \notin There ELSE i \in There
          /\ \A p \in job[x].adds : \E i \in DOMAIN Found(x) : i[2] = p
      BY FoundFacts
    <3> QED
      BY <2>1, <3>1, Zenon
  <2> QED
    BY <2>2 DEF TodoInv
<1>7. ASSUME NEW i \in RowIds, SaveMpost(x, i) PROVE TodoInv(x)'
  <2>1. There' = There \cup {i} /\ step'[x] # "saveUsers"
    BY <1>7, RowsSaved, SaveMpostFacts DEF AfterRows
  <2>2. /\ DOMAIN job'[x].todo = DOMAIN job[x].todo \ {i}
        /\ \A k \in DOMAIN job'[x].todo : job'[x].todo[k] = job[x].todo[k]
    BY <1>7, SaveLess
  <2> QED
    BY <2>1, <2>2 DEF TodoInv
<1>8. CASE Link(x)
  <2>1. refs' = refs /\ step[x] = "link" /\ step'[x] \in {"link", "tally"}
    BY <1>8, LinkFacts
  <2>2. job'[x].todo = job[x].todo
    BY <1>8, LinkFacts
  <2> QED
    BY <1>2, <2>1, <2>2
<1>9. CASE SaveMeet(x)
  <2>1. refs' = refs /\ step'[x] # "saveUsers" /\ job'[x].todo \in {NoTodo, job[x].todo}
    BY <1>9, SaveMeetFacts
  <2> QED
    BY <1>1, <1>2, <2>1
<1> QED
  BY <1>3, <1>4, <1>5, <1>6, <1>7, <1>8, <1>9, BeginsFacts DEF StepOf

-----------------------------------------------------------------------------
(* users_count.                                                            *)

Comers == UNION {DOMAIN job[x].todo : x \in {y \in Extractors : step[y] = "rows"}}

\* What one extraction's step makes of the mposts that are there or coming.
LEMMA ComersStep ==
  ASSUME ExtractionsTypeOK, NEW x \in Extractors, OthersAlone(x)
  PROVE  LET rest == UNION {DOMAIN job[y].todo : y \in {z \in Extractors \ {x} : step[z] = "rows"}}
         IN  /\ Comers = rest \cup (IF step[x] = "rows" THEN DOMAIN job[x].todo ELSE {})
             /\ Comers' = rest \cup (IF step'[x] = "rows" THEN DOMAIN job'[x].todo ELSE {})
<1> DEFINE rest == UNION {DOMAIN job[y].todo : y \in {z \in Extractors \ {x} : step[z] = "rows"}}
<1>1. Comers = rest \cup (IF step[x] = "rows" THEN DOMAIN job[x].todo ELSE {})
  BY DEF Comers
<1>2. rest = UNION {DOMAIN job'[y].todo : y \in {z \in Extractors \ {x} : step'[z] = "rows"}}
  BY DEF OthersAlone
<1>3. Comers' = (UNION {DOMAIN job'[y].todo : y \in {z \in Extractors \ {x} : step'[z] = "rows"}})
                 \cup (IF step'[x] = "rows" THEN DOMAIN job'[x].todo ELSE {})
  BY DEF Comers
<1> HIDE DEF rest
<1> QED
  BY <1>1, <1>2, <1>3 DEF rest

LEMMA ComersFinite == ExtractionsTypeOK => IsFiniteSet(There \cup Comers) /\ There \cup Comers \subseteq RowIds
<1> SUFFICES ASSUME ExtractionsTypeOK PROVE There \cup Comers \subseteq RowIds
  BY RowIdsFinite, FS_Subset
<1>1. \A x \in Extractors : DOMAIN job[x].todo \subseteq RowIds
  BY TodoIsJob
<1> QED
  BY <1>1 DEF Comers, There

LEMMA DisjointCount ==
  ASSUME NEW S, NEW T, IsFiniteSet(S), IsFiniteSet(T), S \cap T = {}
  PROVE  Cardinality(S \cup T) = Cardinality(S) + Cardinality(T)
<1>1. Cardinality(S \cup T) = Cardinality(S) + Cardinality(T) - Cardinality({})
  BY FS_Union
<1>2. Cardinality({}) = 0 /\ Cardinality(S) \in Nat /\ Cardinality(T) \in Nat
  BY FS_EmptySet, FS_CardinalityType
<1> QED
  BY <1>1, <1>2

\* The count that is saved is of mposts that nobody else has counted.
LEMMA UsersSaved ==
  ASSUME ExtractionsTypeOK, \A y \in Extractors : TodoInv(y), NEW x \in Extractors, SaveUsers(x)
  PROVE  LET new == {i \in DOMAIN job[x].todo : job[x].todo[i] = 1}
             all == There \cup Comers
         IN  /\ There' \cup Comers' \in {all, all \cup new}
             /\ step'[x] \in {"rows", AfterRows(job[x])} => There' \cup Comers' = all \cup new
             /\ step'[x] = "read" => There' \cup Comers' = all
             /\ all \cap new = {}
<1> DEFINE new == {i \in DOMAIN job[x].todo : job[x].todo[i] = 1}
           rest == UNION {DOMAIN job[y].todo : y \in {z \in Extractors \ {x} : step[z] = "rows"}}
           D == DOMAIN job[x].todo
<1>1. /\ There' = There /\ OthersAlone(x) /\ step[x] = "saveUsers"
      /\ job'[x].todo = job[x].todo
      /\ step'[x] \in {"read", IF job[x].todo = NoTodo THEN AfterRows(job[x]) ELSE "rows"}
  BY SaveUsersFacts DEF KeepsWork, There
<1>2. Comers = rest /\ Comers' = rest \cup (IF step'[x] = "rows" THEN D ELSE {})
  BY <1>1, ComersStep
<1>3. \A i \in D : IF i \in new THEN i[1] = x /\ i \notin There ELSE i \in There
  BY DEF TodoInv
<1>4. D \subseteq There \cup new /\ new \subseteq D
  BY <1>3
<1>5. ASSUME NEW i \in rest \cap new PROVE FALSE
  <2>1. PICK y \in Extractors \ {x} : i \in DOMAIN job[y].todo
    BY <1>5
  <2>2. IF job[y].todo[i] = 1 THEN i[1] = y /\ i \notin There ELSE i \in There
    BY <2>1 DEF TodoInv
  <2>3. i[1] = x /\ i \notin There
    BY <1>3, <1>4, <1>5
  <2> QED
    BY <2>1, <2>2, <2>3
<1>6. job[x].todo = NoTodo => D = {}
  BY NothingToDo
<1>7. AfterRows(job[x]) \notin {"rows", "read"}
  BY DEF AfterRows
<1> HIDE DEF new, rest, D
<1>8. (There \cup Comers) \cap new = {}
  BY <1>2, <1>3, <1>4, <1>5
<1>9. CASE step'[x] = "read"
  BY <1>1, <1>2, <1>7, <1>8, <1>9 DEF new
<1>10. CASE step'[x] = "rows" /\ job[x].todo # NoTodo
  BY <1>1, <1>2, <1>4, <1>7, <1>8, <1>10 DEF new
<1>11. CASE step'[x] = AfterRows(job[x]) /\ job[x].todo = NoTodo
  <2>1. new = {} /\ D = {}
    BY <1>4, <1>6, <1>11
  <2> QED
    BY <1>1, <1>2, <1>7, <1>8, <1>11, <2>1 DEF new
<1> QED
  BY <1>1, <1>9, <1>10, <1>11

LEMMA CountedStep ==
  ASSUME ExtractionsTypeOK, FormedInv, MpostsCounted, \A y \in Extractors : TodoInv(y),
         NEW x \in Extractors, StepOf(x)
  PROVE  MpostsCounted'
<1> DEFINE all == There \cup Comers
<1>0. /\ ~neglected => cirkle.usersCount = Cardinality(all)
      /\ (~neglected' => cirkle'.usersCount = Cardinality(There' \cup Comers')) => MpostsCounted'
  BY DEF MpostsCounted, Comers
<1> SUFFICES ASSUME ~neglected' PROVE cirkle'.usersCount = Cardinality(There' \cup Comers')
  BY <1>0
<1>1. OthersAlone(x)
  BY RowsStay
<1>2. CASE /\ refs' = refs /\ ~neglected /\ cirkle'.usersCount = cirkle.usersCount
           /\ step[x] # "rows" /\ step'[x] # "rows"
  <2>1. Comers' = Comers /\ There' = There
    BY <1>1, <1>2, ComersStep DEF There
  <2> QED
    BY <1>0, <1>2, <2>1
<1>3. ASSUME NEW e \in Meetings, NEW kind, NEW us, Beginning(x, e, kind, us)
      PROVE  cirkle'.usersCount = Cardinality(There' \cup Comers')
  BY <1>2, <1>3 DEF Beginning
<1>4. CASE LoadCirkle(x) \/ Touch(x) \/ ReadMposts(x) \/ Link(x) \/ CountEncounters(x) \/ SaveCount(x) \/ SaveMeet(x)
  <2>1. ~neglected
    BY <1>4, LoadFacts, TouchFacts, ReadFacts, LinkFacts, CountFacts, SaveCountFacts, SaveMeetFacts
  <2> QED
    BY <1>2, <1>4, <2>1, LoadFacts, TouchFacts, ReadFacts, LinkFacts, CountFacts, SaveCountFacts, SaveMeetFacts
<1>5. CASE SaveUsers(x)
  <2> DEFINE new == {i \in DOMAIN job[x].todo : job[x].todo[i] = 1}
  <2>1. IsFiniteSet(all) /\ IsFiniteSet(new) /\ all \cap new = {}
    BY <1>5, ComersFinite, TodoIsJob, FS_Subset, UsersSaved
  <2>2. Cardinality(all \cup new) = Cardinality(all) + Cardinality(new)
    <3> HIDE DEF all, new
    <3> QED
      BY <2>1, DisjointCount
  <2>3. step'[x] \in {"rows", AfterRows(job[x])} \/ step'[x] = "read"
    BY <1>5, SaveUsersFacts
  <2>4. CASE step'[x] = "read" /\ cirkle' = cirkle /\ ~neglected
    BY <1>0, <1>5, <2>4, UsersSaved
  <2>5. CASE /\ step'[x] \in {"rows", AfterRows(job[x])} /\ ~neglected
             /\ cirkle'.usersCount = cirkle.usersCount + Cardinality(new)
    BY <1>0, <1>5, <2>2, <2>5, UsersSaved
  <2>6. CASE step'[x] \in {"rows", AfterRows(job[x])} /\ cirkle' = cirkle /\ ~neglected /\ new = {}
    <3>1. There' \cup Comers' = all
      BY <1>5, <2>6, UsersSaved
    <3> QED
      BY <1>0, <2>6, <3>1
  <2> HIDE DEF all
  <2>7. \/ step'[x] = "read" /\ cirkle' = cirkle /\ ~neglected
        \/ /\ step'[x] \in {"rows", AfterRows(job[x])} /\ ~neglected
           /\ cirkle'.usersCount = cirkle.usersCount + Cardinality(new)
        \/ step'[x] \in {"rows", AfterRows(job[x])} /\ cirkle' = cirkle /\ ~neglected /\ new = {}
    BY <1>5, SaveUsersFacts
  <2> QED
    BY <2>4, <2>5, <2>6, <2>7
<1>6. ASSUME NEW i \in RowIds, SaveMpost(x, i) PROVE cirkle'.usersCount = Cardinality(There' \cup Comers')
  <2> DEFINE rest == UNION {DOMAIN job[y].todo : y \in {z \in Extractors \ {x} : step[z] = "rows"}}
             D == DOMAIN job[x].todo
  <2>1. /\ step[x] = "rows" /\ i \in D /\ cirkle' = cirkle /\ neglected' = neglected
        /\ step'[x] = IF job'[x].todo = NoTodo THEN AfterRows(job[x]) ELSE "rows"
    BY <1>6, SaveMpostFacts
  <2>2. There' = There \cup {i} /\ Comers = rest \cup D
        /\ Comers' = rest \cup (IF step'[x] = "rows" THEN DOMAIN job'[x].todo ELSE {})
    BY <1>1, <1>6, <2>1, RowsSaved, ComersStep
  <2>3. DOMAIN job'[x].todo = D \ {i} /\ (job'[x].todo = NoTodo <=> D = {i})
    BY <1>6, SaveLess
  <2>4. AfterRows(job[x]) # "rows"
    BY DEF AfterRows
  <2> HIDE DEF rest, D
  <2>5. There' \cup Comers' = all
    <3>1. CASE D = {i}
      BY <2>1, <2>2, <2>3, <2>4, <3>1
    <3>2. CASE D # {i}
      BY <2>1, <2>2, <2>3, <2>4, <3>2
    <3> QED
      BY <3>1, <3>2
  <2> QED
    BY <1>0, <2>1, <2>5
<1> QED
  BY <1>3, <1>4, <1>5, <1>6, BeginsFacts DEF StepOf

-----------------------------------------------------------------------------
(* Who is in an encounter of the cirkle.                                   *)

LEMMA RowComesToOthers ==
  ASSUME ExtractionsTypeOK, FormedInv, NEW x \in Extractors, StepOf(x),
         NEW y \in Extractors \ {x}, NEW p, RowComes(y, p)
  PROVE  RowComes(y, p)'
BY RowsStay DEF RowComes, OthersAlone

\* After the save of its mposts an extraction does not add any more.
LEMMA RowHasCome ==
  ASSUME NEW x \in Extractors, NEW p, RowComes(x, p),
         \/ step[x] \in {"idle", "load", "link", "tally", "saveCount", "saveMeet"}
         \/ step[x] = "touch" /\ job[x].kind = "confirm"
  PROVE  RowsOf(p) # {}
BY DEF RowComes

LEMMA RowComesToOwn ==
  ASSUME ExtractionsTypeOK, FormedInv, NEW x \in Extractors, TodoInv(x), StepOf(x),
         NEW p, RowComes(x, p), step[x] \notin {"idle", "load"}
  PROVE  RowComes(x, p)'
<1>1. RowsOf(p) # {} => RowComes(x, p)'
  BY RowsStay DEF RowComes
<1> SUFFICES ASSUME RowsOf(p) = {} PROVE RowComes(x, p)'
  BY <1>1
<1>2. CASE Touch(x)
  <2>1. p \in job[x].adds /\ job[x].kind # "confirm"
    BY <1>2, TouchFacts DEF RowComes
  <2> QED
    BY <1>2, <2>1, TouchFacts DEF RowComes, KeepsWork, KeepsCopy, KeepsTask
<1>3. CASE ReadMposts(x)
  <2>1. p \in job[x].adds
    BY <1>3, ReadFacts DEF RowComes
  <2> QED
    BY <1>3, <2>1, ReadFacts DEF RowComes
<1>4. CASE SaveUsers(x)
  <2>1. p \in job[x].adds /\ \E i \in DOMAIN job[x].todo : i[2] = p
    BY <1>4, SaveUsersFacts DEF RowComes, TodoInv
  <2>2. job[x].todo # NoTodo
    BY <2>1, NothingToDo
  <2>3. step'[x] \in {"read", "rows"} /\ job'[x].adds = job[x].adds /\ job'[x].todo = job[x].todo
    BY <1>4, <2>2, SaveUsersFacts DEF KeepsWork
  <2> QED
    BY <2>1, <2>3 DEF RowComes
<1>5. ASSUME NEW i \in RowIds, SaveMpost(x, i) PROVE RowComes(x, p)'
  <2>1. PICK k \in DOMAIN job[x].todo : k[2] = p
    BY <1>5, SaveMpostFacts DEF RowComes
  <2>2. CASE k = i
    <3>1. i \in There'
      BY <1>5, RowsSaved
    <3> QED
      BY <2>1, <2>2, <3>1 DEF RowComes, RowsOf
  <2>3. CASE k # i
    <3>1. k \in DOMAIN job'[x].todo /\ job'[x].todo # NoTodo
      BY <1>5, <2>1, <2>3, SaveLess
    <3>2. step'[x] = "rows"
      BY <1>5, <3>1, SaveMpostFacts
    <3> QED
      BY <2>1, <3>1, <3>2 DEF RowComes
  <2> QED
    BY <2>2, <2>3
<1>6. CASE step[x] \in {"idle", "load", "link", "tally", "saveCount", "saveMeet"}
  BY <1>6, RowHasCome
<1>7. ASSUME NEW e \in Meetings, NEW kind, NEW us, Beginning(x, e, kind, us) PROVE step[x] = "idle"
  BY <1>7 DEF Beginning
<1> QED
  BY <1>2, <1>3, <1>4, <1>5, <1>6, <1>7, BeginsFacts, LoadFacts, LinkFacts, CountFacts, SaveCountFacts,
     SaveMeetFacts DEF StepOf

\* Who is assigned by an extraction has a mpost when that ends.
LEMMA AssignedStays ==
  ASSUME ExtractionsTypeOK, FormedInv, NEW x \in Extractors, StepOf(x), AddsInv(x),
         NEW e \in Meetings, NEW p, IsAssigned(e, p)
  PROVE  IsAssigned(e, p)' \/ RowsOf(p)' # {}
<1>1. PICK z \in UnderWay : job[z].kind = "assign" /\ job[z].on = e /\ p \in job[z].who
  BY DEF IsAssigned
<1>2. z \in Extractors /\ step[z] # "idle"
  BY DEF UnderWay
<1>3. CASE z # x
  BY <1>1, <1>2, <1>3, RowsStay DEF OthersAlone, IsAssigned, UnderWay
<1>4. CASE z = x /\ step'[x] # "idle"
  <2>1. KeepsTask(x)
    <3>1. ASSUME NEW d \in Meetings, NEW kind, NEW us, Beginning(x, d, kind, us) PROVE FALSE
      BY <1>2, <1>4, <3>1 DEF Beginning
    <3>2. CASE Working(x)
      BY <3>2 DEF Working, KeepsCopy
    <3> QED
      BY <1>4, <3>1, <3>2, StepCases, LinkFacts, SaveMeetFacts
  <2> QED
    BY <1>1, <1>4, <2>1 DEF KeepsTask, IsAssigned, UnderWay
<1>5. CASE z = x /\ step'[x] = "idle"
  <2>1. step[x] = "saveMeet"
    <3>1. ASSUME NEW d \in Meetings, NEW kind, NEW us, Beginning(x, d, kind, us) PROVE FALSE
      BY <1>2, <1>5, <3>1 DEF Beginning
    <3>2. ~Working(x)
      BY <1>5 DEF Working
    <3>3. ~Link(x)
      BY <1>5, LinkFacts
    <3> QED
      BY <3>1, <3>2, <3>3, StepCases, SaveMeetFacts
  <2>2. RowComes(x, p)
    BY <1>1, <1>5, <2>1 DEF AddsInv
  <2>3. RowsOf(p) # {}
    BY <2>1, <2>2, RowHasCome
  <2> QED
    BY <2>3, RowsStay
<1> QED
  BY <1>3, <1>4, <1>5

\* Nobody comes into an encounter that somebody is in unless the process thread
\* assigns him.
LEMMA Newcomers ==
  ASSUME ExtractionsTypeOK, FormedInv, NEW x \in Extractors, StepOf(x), CopyInv(x),
         NEW d \in Meetings, meetings[d].people # {},
         NEW p \in meetings'[d].people \cup meetings'[d].pending
  PROVE  p \in meetings[d].people \cup meetings[d].pending \/ IsAssigned(d, p)'
<1>1. ASSUME NEW e \in Meetings, NEW kind, NEW us, Beginning(x, e, kind, us),
             p \notin meetings[d].people \cup meetings[d].pending
      PROVE  IsAssigned(d, p)'
  <2>1. e = d
    BY <1>1 DEF Beginning
  <2>2. kind = "assign" /\ p \in us
    BY <1>1, <2>1 DEF Beginning
  <2> QED
    BY <1>1, <2>1, <2>2 DEF Beginning, IsAssigned, UnderWay
<1>2. CASE Working(x)
  BY <1>2 DEF Working
<1>3. CASE Link(x)
  <2>1. job[x].on \in Meetings /\ meetings \in [Meetings -> MeetingRows]
    BY <1>3, LinkFacts DEF CopyInv, UnderWay, ExtractionsTypeOK
  <2>2. meetings' = WithLink(job[x].on) \/ meetings' = meetings
    BY <1>3, LinkFacts
  <2>3. meetings'[d].people = meetings[d].people /\ meetings'[d].pending = meetings[d].pending
    <3>1. CASE meetings' = WithLink(job[x].on)
      BY <2>1, <3>1, LinkUpdate
    <3>2. CASE meetings' = meetings
      BY <3>2
    <3> QED
      BY <2>2, <3>1, <3>2
  <2> QED
    BY <2>3
<1>4. CASE SaveMeet(x)
  BY <1>4, SaveMeetPeople
<1> QED
  BY <1>1, <1>2, <1>3, <1>4, StepCases

LEMMA FollowStep ==
  ASSUME ExtractionsTypeOK, FormedInv, PeopleFollow, NEW x \in Extractors, StepOf(x),
         CopyInv(x), AddsInv(x)
  PROVE  PeopleFollow'
<1> SUFFICES ASSUME NEW d \in Meetings, meetings'[d].linked, NEW p \in meetings'[d].people
             PROVE  RowsOf(p)' # {} \/ IsAssigned(d, p)'
  BY DEF PeopleFollow, Linked
<1>0. RowsOf(p) \subseteq RowsOf(p)' /\ (IsAssigned(d, p) => IsAssigned(d, p)' \/ RowsOf(p)' # {})
  BY RowsStay, AssignedStays
<1>1. CASE meetings[d].linked /\ p \in meetings[d].people
  BY <1>0, <1>1 DEF PeopleFollow, Linked
<1>2. meetings[d].linked => meetings[d].people # {}
  BY DEF FormedInv
<1>3. ASSUME NEW e \in Meetings, NEW kind, NEW us, Beginning(x, e, kind, us)
      PROVE  RowsOf(p)' # {} \/ IsAssigned(d, p)'
  <2>1. meetings[d].linked
    BY <1>3 DEF Beginning
  <2>2. CASE p \notin meetings[d].people
    <3>1. e = d
      BY <1>3, <2>2 DEF Beginning
    <3>2. kind = "assign" /\ p \in us
      BY <1>2, <1>3, <2>1, <2>2, <3>1 DEF Beginning
    <3> QED
      BY <1>3, <3>1, <3>2 DEF Beginning, IsAssigned, UnderWay
  <2> QED
    BY <1>1, <2>1, <2>2
<1>4. CASE Working(x)
  BY <1>1, <1>4 DEF Working
<1>5. CASE Link(x)
  <2>1. /\ job[x].on \in Meetings /\ meetings \in [Meetings -> MeetingRows]
        /\ step[x] = "link" /\ job[x].kind # "confirm"
        /\ x \notin outdated => job[x].linked = meetings[job[x].on].linked
    BY <1>5, LinkFacts DEF CopyInv, UnderWay, ExtractionsTypeOK
  <2>2. CASE meetings' = meetings
    BY <1>1, <2>2
  <2>3. CASE meetings' = WithLink(job[x].on) /\ x \notin outdated
    <3>1. p \in meetings[d].people /\ (d # job[x].on => meetings'[d] = meetings[d])
      BY <2>1, <2>3, LinkUpdate
    <3>2. CASE d = job[x].on /\ ~meetings[d].linked
      <4>1. ~job[x].linked
        BY <2>1, <2>3, <3>2
      <4>2. RowComes(x, p) \/ IsAssigned(d, p)
        BY <2>1, <3>1, <3>2, <4>1 DEF AddsInv
      <4>3. RowComes(x, p) => RowsOf(p) # {}
        BY <2>1, RowHasCome
      <4> QED
        BY <1>0, <4>2, <4>3
    <3> QED
      BY <1>1, <3>1, <3>2
  <2> QED
    BY <1>5, <2>2, <2>3, LinkFacts
<1>6. CASE SaveMeet(x)
  <2>1. meetings[d].linked
    BY <1>6, SaveMeetPeople
  <2>2. CASE p \notin meetings[d].people
    <3>1. d = job[x].on /\ x \notin outdated /\ job[x].kind = "confirm" /\ p \in job[x].who
      BY <1>6, <2>2, SaveMeetPeople
    <3>2. step[x] = "saveMeet" /\ job[x].linked
      BY <1>6, <2>1, <3>1, SaveMeetFacts DEF CopyInv, UnderWay
    <3>3. RowComes(x, p)
      BY <3>1, <3>2 DEF AddsInv
    <3> QED
      BY <1>0, <3>2, <3>3, RowHasCome
  <2> QED
    BY <1>1, <2>1, <2>2
<1> QED
  BY <1>3, <1>4, <1>5, <1>6, StepCases

\* Of those in an encounter that an extraction puts into the cirkle.
LEMMA ComesOrAssigned ==
  ASSUME ExtractionsTypeOK, FormedInv, NEW x \in Extractors, StepOf(x), CopyInv(x), AddsInv(x),
         NEW y \in Extractors, NEW d \in Meetings, meetings[d].people # {},
         NEW p \in meetings'[d].people \cup meetings'[d].pending,
         p \in meetings[d].people \cup meetings[d].pending => RowComes(y, p) \/ IsAssigned(d, p),
         RowComes(y, p) => RowComes(y, p)'
  PROVE  RowComes(y, p)' \/ IsAssigned(d, p)'
<1>1. RowsOf(p)' # {} => RowComes(y, p)'
  BY DEF RowComes
<1>2. p \in meetings[d].people \cup meetings[d].pending \/ IsAssigned(d, p)'
  BY Newcomers
<1>3. IsAssigned(d, p) => IsAssigned(d, p)' \/ RowsOf(p)' # {}
  BY AssignedStays
<1> QED
  BY <1>1, <1>2, <1>3

LEMMA AddsOfOthers ==
  ASSUME ExtractionsTypeOK, FormedInv, NEW x \in Extractors, StepOf(x), CopyInv(x), AddsInv(x),
         NEW y \in Extractors \ {x}, CopyInv(y), AddsInv(y)
  PROVE  AddsInv(y)'
<1>1. step'[y] = step[y] /\ job'[y] = job[y]
  BY RowsStay DEF OthersAlone
<1> SUFFICES ASSUME step[y] \notin {"idle", "load"} PROVE AddsInv(y)'
  BY <1>1 DEF AddsInv
<1>2. PICK d \in Meetings : d = job[y].on /\ meetings[d].people # {}
  BY DEF CopyInv, UnderWay
<1>3. ASSUME NEW p \in job[y].who, job[y].kind = "assign" \/ (job[y].kind = "confirm" /\ job[y].linked)
      PROVE  RowComes(y, p)'
  BY <1>3, RowComesToOthers DEF AddsInv
<1>4. ASSUME NEW p \in meetings'[d].people \cup meetings'[d].pending, job[y].kind # "confirm", ~job[y].linked
      PROVE  RowComes(y, p)' \/ IsAssigned(d, p)'
  <2>1. p \in meetings[d].people \cup meetings[d].pending => RowComes(y, p) \/ IsAssigned(d, p)
    BY <1>2, <1>4 DEF AddsInv
  <2>2. RowComes(y, p) => RowComes(y, p)'
    BY RowComesToOthers
  <2> QED
    BY <1>2, <1>4, <2>1, <2>2, ComesOrAssigned
<1> QED
  BY <1>1, <1>2, <1>3, <1>4 DEF AddsInv

LEMMA AddsOfOwn ==
  ASSUME ExtractionsTypeOK, FormedInv, NEW x \in Extractors, StepOf(x), CopyInv(x), AddsInv(x), TodoInv(x)
  PROVE  AddsInv(x)'
<1> SUFFICES ASSUME step'[x] \notin {"idle", "load"} PROVE AddsInv(x)'
  BY DEF AddsInv
<1>1. CASE job'[x].kind = "confirm" /\ ~job'[x].linked
  BY <1>1 DEF AddsInv
<1>2. ASSUME NEW e \in Meetings, NEW kind, NEW us, Beginning(x, e, kind, us)
      PROVE  job'[x].kind = "confirm" /\ ~job'[x].linked
  BY <1>2 DEF Beginning
<1>3. SaveMeet(x) => job'[x].kind = "confirm" /\ ~job'[x].linked
  BY SaveMeetFacts
<1>4. CASE LoadCirkle(x)
  <2> DEFINE d == job[x].on
  <2>1. /\ job'[x].kind = job[x].kind /\ job'[x].on = d /\ job'[x].who = job[x].who
        /\ job'[x].linked = job[x].linked /\ meetings' = meetings
        /\ job'[x].adds = IF job[x].kind # "confirm" /\ ~(d \in Claimed /\ job[x].linked)
                          THEN meetings[d].people \cup meetings[d].pending ELSE job[x].who
        /\ step'[x] = IF job[x].linked /\ job[x].kind # "confirm" THEN "touch" ELSE "read"
    BY <1>4, LoadFacts DEF KeepsCopy, KeepsTask
  <2>2. job[x].kind = "assign" => job[x].who \subseteq meetings[d].people
    BY <1>4, LoadFacts DEF CopyInv, UnderWay
  <2>3. \A p \in job'[x].adds : RowComes(x, p)'
    BY <2>1 DEF RowComes
  <2> QED
    BY <2>1, <2>2, <2>3 DEF AddsInv
<1>5. ASSUME Link(x) \/ (Working(x) /\ step[x] # "load") PROVE AddsInv(x)'
  <2>0. PICK d \in Meetings : d = job[x].on /\ meetings[d].people # {}
    BY <1>5, LinkFacts DEF Working, CopyInv, UnderWay
  <2>1. /\ job'[x].kind = job[x].kind /\ job'[x].on = d /\ job'[x].who = job[x].who
        /\ step[x] \notin {"idle", "load"}
        /\ job[x].kind = "confirm" /\ job'[x].linked => job[x].linked
        /\ job[x].linked => job'[x].linked
    <3>1. CASE Link(x)
      <4>1. step[x] = "link" /\ KeepsTask(x) /\ (job'[x].linked = TRUE \/ job'[x].linked = meetings[d].linked)
        BY <2>0, <3>1, LinkFacts
      <4>2. job[x].kind # "confirm" /\ (job[x].linked => meetings[d].linked)
        BY <2>0, <4>1 DEF CopyInv, UnderWay
      <4>3. job[x].linked => job'[x].linked
        BY <4>1, <4>2
      <4> QED
        BY <2>0, <4>1, <4>2, <4>3 DEF KeepsTask
    <3>2. CASE Working(x) /\ step[x] # "load"
      BY <2>0, <3>2 DEF Working, KeepsCopy, KeepsTask
    <3> QED
      BY <1>5, <3>1, <3>2
  <2>3. ASSUME NEW p \in job[x].who, job[x].kind = "assign" \/ (job[x].kind = "confirm" /\ job'[x].linked)
        PROVE  RowComes(x, p)'
    <3>1. RowComes(x, p)
      BY <2>1, <2>3 DEF AddsInv
    <3> QED
      BY <2>1, <3>1, RowComesToOwn
  <2>4. ASSUME NEW p \in meetings'[d].people \cup meetings'[d].pending, job[x].kind # "confirm", ~job'[x].linked
        PROVE  RowComes(x, p)' \/ IsAssigned(d, p)'
    <3>1. p \in meetings[d].people \cup meetings[d].pending => RowComes(x, p) \/ IsAssigned(d, p)
      BY <2>0, <2>1, <2>4 DEF AddsInv
    <3>2. RowComes(x, p) => RowComes(x, p)'
      BY <2>1, RowComesToOwn
    <3> QED
      BY <2>0, <2>4, <3>1, <3>2, ComesOrAssigned
  <2> QED
    BY <2>1, <2>3, <2>4 DEF AddsInv
<1>6. step[x] = "load" /\ Working(x) => LoadCirkle(x)
  <2> SUFFICES ASSUME step[x] = "load", Working(x) PROVE LoadCirkle(x)
    OBVIOUS
  <2>1. ASSUME NEW e \in Meetings, NEW kind, NEW us, Beginning(x, e, kind, us) PROVE FALSE
    BY <2>1 DEF Beginning
  <2> QED
    BY <2>1, BeginsFacts, TouchFacts, ReadFacts, SaveUsersFacts, SaveMpostFacts, LinkFacts, CountFacts,
       SaveCountFacts, SaveMeetFacts DEF StepOf
<1> QED
  BY <1>1, <1>2, <1>3, <1>4, <1>5, <1>6, StepCases

-----------------------------------------------------------------------------
(* The list of encounters.                                                 *)

\* What a step does to the counting of the encounters.
LEMMA CountingStep ==
  ASSUME ExtractionsTypeOK, FormedInv, NEW x \in Extractors, StepOf(x), CopyInv(x)
  PROVE  \/ /\ Counting' = Counting /\ Linked' = Linked /\ cirkle'.encounters = cirkle.encounters
            /\ (neglected => neglected') /\ StaleStays(x)
            /\ step'[x] # "saveCount"
         \/ /\ Counting \subseteq Counting' /\ x \in Counting' /\ cirkle' = cirkle
            /\ neglected' = neglected /\ StaleStays(x) /\ step'[x] = "tally"
         \/ CountEncounters(x) \/ SaveCount(x)
<1>1. OthersAlone(x)
  BY RowsStay
<1>2. ASSUME (x \in Counting) <=> (step'[x] \in {"tally", "saveCount"}) PROVE Counting' = Counting
  BY <1>1, <1>2 DEF Counting, OthersAlone
<1>3. meetings' = meetings => Linked' = Linked
  BY DEF Linked
<1>4. ASSUME NEW e \in Meetings, NEW kind, NEW us, Beginning(x, e, kind, us)
      PROVE  /\ Counting' = Counting /\ Linked' = Linked /\ cirkle'.encounters = cirkle.encounters
             /\ (neglected => neglected') /\ StaleStays(x)
             /\ step'[x] # "saveCount"
  <2>1. \A d \in Meetings : meetings'[d].linked = meetings[d].linked
    BY <1>4 DEF Beginning
  <2> QED
    BY <1>2, <1>4, <2>1 DEF Beginning, Linked, StaleStays, Counting
<1>5. AfterRows(job[x]) \notin {"tally", "saveCount"}
  BY DEF AfterRows
<1>6. CASE LoadCirkle(x)
  BY <1>2, <1>3, <1>6, LoadFacts DEF Counting
<1>7. CASE Touch(x)
  BY <1>2, <1>3, <1>7, TouchFacts DEF Counting
<1>8. CASE ReadMposts(x)
  BY <1>2, <1>3, <1>8, ReadFacts DEF Counting, StaleStays
<1>9. CASE SaveUsers(x)
  <2>1. /\ step[x] = "saveUsers" /\ step'[x] \in {"read", "rows", AfterRows(job[x])}
        /\ StaleStays(x) /\ meetings' = meetings /\ cirkle'.encounters = cirkle.encounters
        /\ neglected => neglected'
    BY <1>9, SaveUsersFacts
  <2> QED
    BY <1>2, <1>3, <1>5, <2>1 DEF Counting
<1>10. ASSUME NEW i \in RowIds, SaveMpost(x, i)
       PROVE  /\ Counting' = Counting /\ Linked' = Linked /\ cirkle'.encounters = cirkle.encounters
              /\ (neglected => neglected') /\ StaleStays(x)
              /\ step'[x] # "saveCount"
  <2>1. step[x] = "rows" /\ step'[x] \in {"rows", AfterRows(job[x])}
    BY <1>10, SaveMpostFacts
  <2> QED
    BY <1>2, <1>3, <1>5, <1>10, <2>1, SaveMpostFacts DEF Counting, StaleStays
<1>11. CASE Link(x)
  <2>1. step[x] = "link" /\ StaleStays(x) /\ UNCHANGED <<cirkle, neglected>>
    BY <1>11, LinkFacts DEF StaleStays
  <2>2. CASE step'[x] = "tally"
    BY <1>1, <2>1, <2>2 DEF Counting, OthersAlone
  <2>3. CASE step'[x] = "link"
    <3>1. meetings' = meetings
      BY <1>11, <2>3, LinkFacts
    <3> QED
      BY <1>2, <1>3, <2>1, <2>3, <3>1 DEF Counting
  <2> QED
    BY <1>11, <2>2, <2>3, LinkFacts
<1>12. CASE SaveMeet(x)
  <2>1. \A d \in Meetings : meetings'[d].linked = meetings[d].linked
    BY <1>12, SaveMeetPeople
  <2> QED
    BY <1>2, <1>12, <2>1, SaveMeetFacts DEF Linked, Counting
<1> QED
  BY <1>4, <1>6, <1>7, <1>8, <1>9, <1>10, <1>11, <1>12, BeginsFacts DEF StepOf

LEMMA SettleStep ==
  ASSUME ExtractionsTypeOK, FormedInv, NEW x \in Extractors, StepOf(x), CopyInv(x), TallyInv(x),
         EncountersSettle
  PROVE  EncountersSettle'
<1>1. CASE CountEncounters(x)
  <2>1. x \in Counting'
    BY <1>1, CountFacts DEF Counting
  <2> QED
    BY <2>1 DEF EncountersSettle
<1>2. CASE SaveCount(x)
  <2>1. step[x] = "saveCount" /\ OthersAlone(x) /\ meetings' = meetings
    BY <1>2, SaveCountFacts
  <2>2. Linked' = Linked /\ Counting \ {x} \subseteq Counting'
    BY <2>1 DEF Linked, Counting, OthersAlone
  <2>3. CASE x \in stale
    <3>1. step'[x] = "tally" => x \in Counting'
      BY DEF Counting
    <3>2. step'[x] = "saveMeet" => neglected'
      BY <1>2, <2>3, SaveCountFacts
    <3> QED
      BY <1>2, <2>3, <3>1, <3>2, SaveCountFacts DEF EncountersSettle
  <2>4. CASE x \notin stale
    <3>1. neglected' = neglected /\ cirkle'.encounters = job[x].tally
      BY <1>2, <2>4, SaveCountFacts
    <3>2. job[x].tally # Linked => neglected \/ Counting \ {x} # {}
      BY <2>1, <2>4 DEF TallyInv
    <3> QED
      BY <2>2, <3>1, <3>2 DEF EncountersSettle
  <2> QED
    BY <2>3, <2>4
<1> QED
  BY <1>1, <1>2, CountingStep DEF EncountersSettle

LEMMA TallyStep ==
  ASSUME ExtractionsTypeOK, FormedInv, NEW x \in Extractors, StepOf(x), CopyInv(x),
         NEW y \in Extractors, TallyInv(y)
  PROVE  TallyInv(y)'
<1> SUFFICES ASSUME step'[y] = "saveCount", y \notin stale', job'[y].tally # Linked'
             PROVE  neglected' \/ Counting' \ {y} # {}
  BY DEF TallyInv
<1>1. OthersAlone(x)
  BY RowsStay
<1>2. CASE y = x
  <2>1. step'[x] = "saveCount" => CountEncounters(x)
    BY CountingStep, SaveCountFacts
  <2>2. job'[x].tally = Linked'
    BY <1>2, <2>1, CountFacts DEF Linked
  <2> QED
    BY <1>2, <2>2
<1>3. CASE y # x
  <2>1. step[y] = "saveCount" /\ job'[y] = job[y] /\ y \in Extractors \ {x}
    BY <1>1, <1>3 DEF OthersAlone
  <2>2. CASE Counting' = Counting /\ Linked' = Linked /\ (neglected => neglected') /\ StaleStays(x)
    BY <2>1, <2>2 DEF TallyInv, StaleStays
  <2>3. CASE x \in Counting'
    BY <1>3, <2>3
  <2>4. CASE CountEncounters(x)
    <3>1. x \in Counting'
      BY <2>4, CountFacts DEF Counting
    <3> QED
      BY <1>3, <3>1
  <2>5. CASE SaveCount(x)
    <3>1. CASE x \notin stale
      BY <2>1, <2>5, <3>1, SaveCountFacts
    <3>2. CASE x \in stale
      <4>1. step'[x] = "tally" => x \in Counting'
        BY DEF Counting
      <4>2. step'[x] = "saveMeet" => neglected'
        BY <2>5, <3>2, SaveCountFacts
      <4> QED
        BY <1>3, <2>5, <3>2, <4>1, <4>2, SaveCountFacts
    <3> QED
      BY <3>1, <3>2
  <2> QED
    BY <2>2, <2>3, <2>4, <2>5, CountingStep
<1> QED
  BY <1>2, <1>3

-----------------------------------------------------------------------------
(* The invariant.                                                          *)

LEMMA InvInit == ExtractionsInit => ExtractionsInv
<1> SUFFICES ASSUME ExtractionsInit PROVE ExtractionsInv
  OBVIOUS
<1> DEFINE came == UNION {Attending[e] : e \in Meetings \ Claimed}
<1>1. came \in SUBSET Persons /\ \A e \in Meetings : Attending[e] # {}
  BY ExtractionsAssumption DEF ExtractionsAssumption
<1>2. /\ cirkle = [usersCount |-> Cardinality(came), encounters |-> Meetings \ Claimed]
      /\ refs = [i \in RowIds |-> IF i[1] = Before /\ i[2] \in came THEN 1 ELSE 0]
      /\ step = [x \in Extractors |-> "idle"] /\ job = [x \in Extractors |-> Idle]
      /\ neglected = FALSE
  BY DEF ExtractionsInit
<1>3. \A e \in Meetings : meetings[e] = IF e \in Claimed THEN [linked |-> FALSE, people |-> {}, pending |-> {}]
                        ELSE [linked |-> TRUE, people |-> Attending[e], pending |-> Invited[e]]
  BY DEF ExtractionsInit
<1>0. ASSUME NEW e \in Meetings
      PROVE  /\ e \in Claimed => ~meetings[e].linked /\ meetings[e].people = {} /\ meetings[e].pending = {}
             /\ e \notin Claimed => meetings[e].linked /\ meetings[e].people = Attending[e]
  <2>1. CASE e \in Claimed
    <3>1. meetings[e] = [linked |-> FALSE, people |-> {}, pending |-> {}]
      BY <1>3, <2>1
    <3> QED
      BY <2>1, <3>1
  <2>2. CASE e \notin Claimed
    <3>1. meetings[e] = [linked |-> TRUE, people |-> Attending[e], pending |-> Invited[e]]
      BY <1>3, <2>2
    <3> QED
      BY <2>2, <3>1
  <2> QED
    BY <2>1, <2>2
<1>4. There = {Before} \X came
  <2>1. \A i \in RowIds : refs[i] > 0 <=> i[1] = Before /\ i[2] \in came
    BY <1>2
  <2>2. {Before} \X came \subseteq RowIds
    BY <1>1 DEF RowIds
  <2> HIDE DEF came
  <2>3. {Before} \X came = {i \in RowIds : i[1] = Before /\ i[2] \in came}
    BY <2>2 DEF RowIds
  <2> QED
    BY <2>1, <2>3 DEF There
<1>5. Linked = Meetings \ Claimed
  <2>1. \A e \in Meetings : meetings[e].linked <=> e \notin Claimed
    BY <1>0
  <2> QED
    BY <2>1 DEF Linked
<1>6. MpostsCounted
  <2>1. UNION {DOMAIN job[x].todo : x \in {y \in Extractors : step[y] = "rows"}} = {}
    BY <1>2
  <2>2. Cardinality({Before} \X came) = Cardinality(came)
    <3>1. IsFiniteSet(came) /\ IsFiniteSet({Before}) /\ Cardinality({Before}) = 1
      BY <1>1, ExtractionsAssumption, FS_Subset, FS_Singleton DEF ExtractionsAssumption
    <3>2. Cardinality(came) \in Nat
      BY <3>1, FS_CardinalityType
    <3> HIDE DEF came
    <3>3. Cardinality({Before} \X came) = 1 * Cardinality(came)
      BY <3>1, FS_Product
    <3> QED
      BY <3>2, <3>3
  <2> QED
    BY <1>2, <1>4, <2>1, <2>2 DEF MpostsCounted
<1>7. PeopleFollow
  <2> SUFFICES ASSUME NEW e \in Linked, NEW p \in meetings[e].people PROVE RowsOf(p) # {}
    BY DEF PeopleFollow
  <2>1. p \in came
    <3>1. e \in Meetings \ Claimed
      BY <1>5
    <3> QED
      BY <1>0, <3>1
  <2>2. <<Before, p>> \in There
    BY <1>4, <2>1
  <2> QED
    BY <2>2 DEF RowsOf
<1>8. EncountersSettle
  BY <1>2, <1>5 DEF EncountersSettle
<1>9. FormedInv
  BY <1>0, <1>1 DEF FormedInv
<1>10. \A x \in Extractors : TodoInv(x) /\ CopyInv(x) /\ AddsInv(x) /\ TallyInv(x)
  <2>1. \A x \in Extractors : step[x] = "idle" /\ job[x].todo = NoTodo
    BY <1>2 DEF Idle
  <2> QED
    BY <2>1, NothingToDo DEF TodoInv, CopyInv, AddsInv, TallyInv, UnderWay
<1> QED
  BY <1>6, <1>7, <1>8, <1>9, <1>10, TypeInit DEF ExtractionsInv, OverlapsAddUp

LEMMA InvStep == ExtractionsInv /\ [ExtractionsNext]_exVars => ExtractionsInv'
<1> SUFFICES ASSUME ExtractionsInv, [ExtractionsNext]_exVars PROVE ExtractionsInv'
  OBVIOUS
<1>1. /\ ExtractionsTypeOK /\ FormedInv /\ MpostsCounted /\ PeopleFollow /\ EncountersSettle
      /\ \A x \in Extractors : TodoInv(x) /\ CopyInv(x) /\ AddsInv(x) /\ TallyInv(x)
  BY DEF ExtractionsInv, OverlapsAddUp
<1>2. ExtractionsTypeOK'
  BY <1>1, TypeStep
<1>3. CASE UNCHANGED exVars
  BY <1>1, <1>2, <1>3 DEF exVars, ExtractionsInv, OverlapsAddUp, MpostsCounted, PeopleFollow, EncountersSettle,
     FormedInv, TodoInv, CopyInv, AddsInv, TallyInv, There, RowsOf, Linked, UnderWay, Counting, IsAssigned, RowComes
<1>4. ASSUME NEW x \in Extractors, StepOf(x) PROVE ExtractionsInv'
  <2>1. FormedInv' /\ MpostsCounted' /\ PeopleFollow' /\ EncountersSettle'
    BY <1>1, <1>4, FormedStep, CountedStep, FollowStep, SettleStep
  <2>2. ASSUME NEW y \in Extractors PROVE TodoInv(y)' /\ CopyInv(y)' /\ AddsInv(y)' /\ TallyInv(y)'
    <3>1. CASE y = x
      BY <1>1, <1>4, <3>1, TodoOfOwn, CopyOfOwn, AddsOfOwn, TallyStep
    <3>2. CASE y # x
      BY <1>1, <1>4, <3>2, TodoOfOthers, CopyOfOthers, AddsOfOthers, TallyStep
    <3> QED
      BY <3>1, <3>2
  <2> QED
    BY <1>2, <2>1, <2>2 DEF ExtractionsInv, OverlapsAddUp
<1> QED
  BY <1>3, <1>4 DEF ExtractionsNext, StepOf

LEMMA ExtractionsInvariant == ExtractionsSpec => []ExtractionsInv
<1> QED
  BY InvInit, InvStep, PTL DEF ExtractionsSpec

-----------------------------------------------------------------------------
\* The rows of the cirkle and of its encounters, and what the extractions keep of
\* them, stay well formed whatever threads overlap in add_encounter.
THEOREM ExtractionsTypeCorrect == ExtractionsSpec => []ExtractionsTypeOK
<1>1. ExtractionsInv => ExtractionsTypeOK
  BY DEF ExtractionsInv
<1> QED
  BY <1>1, ExtractionsInvariant, PTL

\* However the process thread and requests overlap in add_encounter, and whatever
\* save is repeated: users_count counts every mpost of the cirkle once, who is in an
\* encounter of it has a mpost, and in the end it lists the encounters it has, unless
\* a save of its counters was given up.
THEOREM OverlapsAreSafe == ExtractionsSpec => []OverlapsAddUp
<1>1. ExtractionsInv => OverlapsAddUp
  BY DEF ExtractionsInv
<1> QED
  BY <1>1, ExtractionsInvariant, PTL
=============================================================================
