--------------------------- MODULE MeetProcesser ---------------------------
(***************************************************************************)
(* The background pipeline of app/models/meet_processer.rb: mposts         *)
(* (Bluetooth sightings posted by phones) are saved by a web request,      *)
(* handed over through a delayed job to the in-memory queue, and grouped   *)
(* into meets by the single process thread.                                *)
(*                                                                         *)
(* The process thread runs one queued job at a time.  A process_meets job  *)
(* is cut where it touches the database, because that is where it can      *)
(* raise: one step per pending mpost, per flushed meet, per host or join   *)
(* group, and per raw cluster.  Web requests, the timer thread, redelivery *)
(* and crashes interleave with those steps.                                *)
(*                                                                         *)
(* A cluster is the set of its mposts; its earliest and latest mpost and   *)
(* its master mpost are functions of that set.  A meet is its row id, and  *)
(* the column mposts.meet_id is meetOf (NoMeet is null).  A processed      *)
(* cluster has a meet and keeps its Meet object: cached are the mposts     *)
(* that object has loaded.  Time is counted in timer intervals.            *)
(***************************************************************************)
EXTENDS Integers, Sequences, FiniteSets

CONSTANTS
  Mposts,        \* the rows that phones may post
  Devs,          \* base devs: a user's session on a phone, without timestamp
  Users,
  UserOf,        \* Devs -> Users: Mpost.user_id_from_dev
  BaseDev,       \* Mposts -> Devs
  UserDev,       \* Mposts -> the whole user_dev, timestamp included
  SeenAt,        \* Mposts -> its devs hash: a function from devs to times
  Trigger,       \* Mposts -> trigger_time
  HostMode,      \* Mposts -> the mode the mpost is posted with
  HostMeet,      \* Mposts -> meet_from_host_id
  HosterOf,      \* Mposts -> hoster_from_host_id
  CirkleHosters, \* the mposts for which is_cirkle_hoster? holds
  DevTolerance, TimerInterval, HotIdle, HotThreshold, HotLimit, ColdLimit,
  ExpireLimit, ColdMargin, MeetDuration,
  MaxClock, LastPost, MaxTicks,                   \* bounds of the model
  MaxFaults, MaxRedeliveries, MaxCrashes          \* bounds of the environment

NoMeet == 0
Modes == {"peer", "host_owner", "host_guest", "join_owner", "join_guest"}
GroupOrder == <<"host_owner", "host_guest", "join_owner", "join_guest">>

ASSUME DataAssumption ==
  /\ UserOf \in [Devs -> Users]
  /\ BaseDev \in [Mposts -> Devs]
  /\ Trigger \in [Mposts -> Nat]
  /\ HostMode \in [Mposts -> Modes]
  /\ HostMeet \in [Mposts -> Nat \ {0}]
  /\ HosterOf \in [Mposts -> Users]
  /\ CirkleHosters \subseteq Mposts
  /\ \A m \in Mposts : DOMAIN SeenAt[m] \subseteq Devs
  /\ \A m, n \in Mposts : UserDev[m] = UserDev[n] => BaseDev[m] = BaseDev[n]

ASSUME LimitAssumption ==
  /\ {DevTolerance, TimerInterval, HotIdle, HotThreshold, HotLimit, ColdLimit,
      ExpireLimit, ColdMargin, MeetDuration} \subseteq Nat
  /\ {MaxClock, LastPost, MaxTicks, MaxFaults, MaxRedeliveries, MaxCrashes} \subseteq Nat

VARIABLES
  clock,        \* wall time, in timer intervals
  delayed,      \* delayed jobs not yet performed (Mpost#perform)
  posted,       \* rows of the mposts table
  meetOf,       \* mposts.meet_id
  meetCount,    \* rows of the meets table written by the processer
  mode,         \* mposts.host_mode
  jobs,         \* @tqueue_queue
  phase,        \* where the process thread is in the job it runs
  timeNow,      \* @time_now of the process_meets job
  lastRun,      \* @last_meets_process_time (-1: nil)
  startTime,    \* @start_time (-1: nil)
  pending,      \* @meet_pool.pending_mposts
  raw,          \* @meet_pool.raw_clusters
  warm,         \* @meet_pool.processed_clusters
  pooled,       \* @pooled_mposts, as <<mpost, meet>> pairs
  todo,         \* locals: pending mposts the loop has not reached,
  flushed,      \*   meets whose pooled mposts are already added,
  groups,       \*   host_owners, host_guests, join_owners, join_guests,
  rejected,     \*   ng_mposts,
  skipped,      \*   skipped_clusters
  discarded,    \* history: mposts of discarded clusters,
  absorbed,     \*   accepted owner mposts, which never get a meet,
  lost,         \*   mposts gone from memory without a meet,
  faults, redelivered, crashes,
  disturbed     \*   some job has raised or was delivered twice

dbVars    == <<posted, meetOf, meetCount, mode>>
poolVars  == <<pending, raw, warm, pooled>>
localVars == <<todo, flushed, groups, rejected, skipped>>
queueVars == <<clock, delayed, jobs>>
jobVars   == <<timeNow, lastRun, startTime>>
endVars   == <<discarded, absorbed>>
faultVars == <<lost, faults, redelivered, crashes, disturbed>>
vars == <<dbVars, poolVars, localVars, queueVars, jobVars, endVars, faultVars, phase>>

-----------------------------------------------------------------------------
(* Who saw whom.                                                           *)

SetMin(S) == CHOOSE x \in S : \A y \in S : x <= y
SetMax(S) == CHOOSE x \in S : \A y \in S : x >= y
Apart(s, t) == IF s >= t THEN s - t ELSE t - s

Sees(m, n) == BaseDev[m] = BaseDev[n] \/ BaseDev[n] \in DOMAIN SeenAt[m]

SeeEachOther(m, n) ==
  \/ UserDev[m] = UserDev[n]
  \/ /\ BaseDev[m] # BaseDev[n]
     /\ BaseDev[m] \in DOMAIN SeenAt[n]
     /\ BaseDev[n] \in DOMAIN SeenAt[m]
     /\ Apart(SeenAt[n][BaseDev[m]], SeenAt[m][BaseDev[n]]) <= DevTolerance

Gap(m, n) == Apart(Trigger[m], Trigger[n])

\* coeff_calculator gives a pair that sees each other 1, or -infinity
Joins(m, n)    == SeeEachOther(m, n) /\ Gap(m, n) < MeetDuration
Excludes(m, n) == SeeEachOther(m, n) /\ Gap(m, n) > MeetDuration
\* tight and loose duration are equal: at exactly that gap delta_time_discount
\* divides 0.0 by 0.0 and indexes an array with NaN, which raises
Unscorable(m, n) == SeeEachOther(m, n) /\ Gap(m, n) = MeetDuration

Earliest(c) == SetMin({Trigger[m] : m \in c})
Latest(c)   == SetMax({Trigger[m] : m \in c})

Age(t) == IF timeNow > t THEN timeNow - t ELSE 0

DeviceDevs(c) == UNION {DOMAIN SeenAt[m] : m \in c}

IsComplete(c) == DeviceDevs(c) \subseteq {BaseDev[m] : m \in c}

MpostUser(m) == UserOf[BaseDev[m]]

IsProcessable(c) ==
  \/ c \cap CirkleHosters # {}
  \/ \E m, n \in c : MpostUser(m) # MpostUser(n)
  \/ \A m \in c, d \in DeviceDevs(c) : UserOf[d] = MpostUser(m)

ShallDiscard(c) == ~IsProcessable(c) /\ Age(Earliest(c)) > ExpireLimit

\* mutant: a cluster that is never complete waits for ever
ShallProcessComplete(c) ==
  IsProcessable(c) /\ IsComplete(c) /\ Age(Latest(c)) > HotIdle

ShallProcess(c) ==
  /\ IsProcessable(c)
  /\ \/ Age(Earliest(c)) > HotLimit
     \/ /\ Age(Latest(c)) > HotIdle
        /\ Age(Earliest(c)) > HotThreshold
        /\ IsComplete(c)

IsDefinitelyCold(m) == Age(Trigger[m]) > ExpireLimit + ColdMargin

\* get_elapse_time sets @start_time when it is first asked
StartedAt == IF startTime = -1 THEN timeNow ELSE startTime

IsDefinitelyWarm(m) ==
  Age(Trigger[m]) < SetMin({ColdLimit, timeNow - StartedAt}) - ColdMargin

Attachable(c, m) ==
  /\ Earliest(c) - MeetDuration <= Trigger[m]
  /\ Trigger[m] <= Latest(c) + MeetDuration
  /\ \E n \in c : SeeEachOther(n, m)

-----------------------------------------------------------------------------
(* Scoring a mpost against existing meets.                                 *)

MeetIds == 1..meetCount
MembersOf(M) == {n \in posted : meetOf[n] = M}

WarmMeets == {w.meet : w \in warm}

\* the members of the meets that a mpost is scored against: what the Meet
\* objects of the pool hold, and what the database holds
WarmMembers == [M \in WarmMeets |-> (CHOOSE w \in warm : w.meet = M).cached]
RowMembers  == [M \in MeetIds |-> MembersOf(M)]

InRange(g, m) == g # {} /\ Apart(Earliest(g), Trigger[m]) <= MeetDuration

\* proceed with pass_coeff_criteria_simple?: seeded members weigh a million,
\* so one exclusion outweighs every join
Fits(g, m) ==
  /\ InRange(g, m)
  /\ \E n \in g : Joins(m, n)
  /\ \A n \in g : ~Excludes(m, n)

Gain(g, m) == Cardinality({n \in g : Joins(m, n)}) + 1

ScoresHigher(g, h, m) ==
  \/ Gain(g, m) > Gain(h, m)
  \/ Gain(g, m) = Gain(h, m) /\ Cardinality(g) > Cardinality(h)

\* the meets assign_mpost_to_meets_if_possible may choose, of those with members
BestFits(members, m) ==
  {M \in DOMAIN members :
     /\ Fits(members[M], m)
     /\ \A L \in DOMAIN members :
          Fits(members[L], m) => ~ScoresHigher(members[L], members[M], m)}

RaisesOn(members, m) ==
  \E M \in DOMAIN members :
    InRange(members[M], m) /\ \E n \in members[M] : Unscorable(m, n)

PoolEmpty == raw = {} /\ warm = {} /\ pending = {}

-----------------------------------------------------------------------------
Init ==
  /\ clock = 0 /\ delayed = {} /\ jobs = <<>>
  /\ posted = {} /\ meetCount = 0
  /\ meetOf = [m \in Mposts |-> NoMeet]
  /\ mode = HostMode
  /\ phase = "idle" /\ timeNow = 0 /\ lastRun = -1 /\ startTime = -1
  /\ pending = {} /\ raw = {} /\ warm = {} /\ pooled = {}
  /\ todo = {} /\ flushed = {} /\ groups = {} /\ rejected = {} /\ skipped = {}
  /\ discarded = {} /\ absorbed = {} /\ lost = {}
  /\ faults = 0 /\ redelivered = 0 /\ crashes = 0 /\ disturbed = FALSE

(***************************************************************************)
(* Web, delayed job and timer.                                             *)
(***************************************************************************)

\* mutant: the job is enqueued although the row is not saved
PostUnsaved(m) ==
  /\ m \notin posted
  /\ Trigger[m] <= clock /\ clock <= LastPost
  /\ delayed' = delayed \union {m}
  /\ UNCHANGED <<dbVars, poolVars, localVars, clock, jobs, jobVars, endVars,
                 faultVars, phase>>

\* MpostsController#create: save the row, then enqueue the delayed job.
\* trigger_time is never later than created_at.
Post(m) ==
  /\ m \notin posted
  /\ Trigger[m] <= clock /\ clock <= LastPost
  /\ posted' = posted \union {m}
  /\ delayed' = delayed \union {m}
  /\ UNCHANGED <<meetOf, meetCount, mode, poolVars, localVars, clock, jobs,
                 jobVars, endVars, faultVars, phase>>

\* The worker performs the job: MeetWrapper#process_mpost pushes it onto the
\* queue.  The job row is deleted after that, and performed again if it is not.
Deliver(m) ==
  /\ m \in delayed
  /\ jobs' = Append(jobs, [job |-> "process_mposts", mpost |-> m])
  /\ \/ /\ delayed' = delayed \ {m}
        /\ UNCHANGED <<redelivered, disturbed>>
     \/ /\ redelivered < MaxRedeliveries
        /\ redelivered' = redelivered + 1
        /\ disturbed' = TRUE
        /\ UNCHANGED delayed
  /\ UNCHANGED <<dbVars, poolVars, localVars, clock, jobVars, endVars, phase,
                 lost, faults, crashes>>

\* One interval passes and the timer thread pushes process_meets.
\* The clock stops at MaxClock, which stands for every later time.
Timer ==
  /\ Cardinality({i \in DOMAIN jobs : jobs[i].job = "process_meets"}) < MaxTicks
  /\ clock' = IF clock < MaxClock THEN clock + 1 ELSE clock
  /\ jobs' = Append(jobs, [job |-> "process_meets", at |-> clock'])
  /\ UNCHANGED <<dbVars, poolVars, localVars, delayed, jobVars, endVars,
                 faultVars, phase>>

(***************************************************************************)
(* The process thread takes a job.                                         *)
(***************************************************************************)

ProcessMpost ==
  /\ phase = "idle" /\ jobs # <<>>
  /\ Head(jobs).job = "process_mposts"
  /\ jobs' = Tail(jobs)
  /\ pending' = pending \union {Head(jobs).mpost}
  /\ UNCHANGED <<dbVars, raw, warm, pooled, localVars, clock, delayed, jobVars,
                 endVars, faultVars, phase>>

\* half an interval since the last run; MaxClock stands for every later time, so
\* a job stamped with it may be late enough and is taken to be
IsTimerIntervalOk(at) ==
  lastRun = -1 \/ 2 * (at - lastRun) >= TimerInterval \/ at = MaxClock

ProcessMeets ==
  /\ phase = "idle" /\ jobs # <<>>
  /\ Head(jobs).job = "process_meets"
  /\ IsTimerIntervalOk(Head(jobs).at)
  /\ jobs' = Tail(jobs)
  /\ lastRun' = Head(jobs).at
  /\ timeNow' = Head(jobs).at
  /\ UNCHANGED startTime
  /\ IF PoolEmpty THEN UNCHANGED <<phase, todo>>
                  ELSE phase' = "pending" /\ todo' = pending
  /\ UNCHANGED <<dbVars, poolVars, flushed, groups, rejected, skipped, clock,
                 delayed, endVars, faultVars>>

SkipProcessMeets ==
  /\ phase = "idle" /\ jobs # <<>>
  /\ Head(jobs).job = "process_meets"
  /\ ~IsTimerIntervalOk(Head(jobs).at)
  /\ jobs' = Tail(jobs)
  /\ UNCHANGED <<dbVars, poolVars, localVars, clock, delayed, jobVars, endVars,
                 faultVars, phase>>

(***************************************************************************)
(* process_pending_mposts: the loop over pending_mposts.                   *)
(***************************************************************************)

Reach(m) ==
  /\ phase = "pending"
  /\ m \in todo
  /\ todo' = todo \ {m}

ReachPeer(m) ==
  /\ Reach(m)
  /\ meetOf[m] = NoMeet /\ mode[m] = "peer"
  /\ startTime' = IF IsDefinitelyCold(m) THEN startTime ELSE StartedAt
  /\ UNCHANGED <<timeNow, lastRun>>

SkipProcessed(m) ==
  /\ Reach(m)
  /\ meetOf[m] # NoMeet
  /\ UNCHANGED <<dbVars, poolVars, flushed, groups, rejected, skipped,
                 queueVars, jobVars, endVars, faultVars, phase>>

CollectHostMode(m) ==
  /\ Reach(m)
  /\ meetOf[m] = NoMeet /\ mode[m] # "peer"
  /\ groups' = groups \union {m}
  /\ UNCHANGED <<dbVars, poolVars, flushed, rejected, skipped, queueVars,
                 jobVars, endVars, faultVars, phase>>

\* assign_mpost_to_clusters_if_possible, first part: the best processed meet
\* takes the mpost, its cluster at once and its row when the pool is flushed
AssignToWarmMeet(m) ==
  /\ ReachPeer(m)
  /\ ~IsDefinitelyCold(m)
  /\ ~RaisesOn(WarmMembers, m)
  /\ \E M \in BestFits(WarmMembers, m) :
       /\ pooled' = pooled \union {<<m, M>>}
       /\ warm' = {IF w.meet = M THEN [w EXCEPT !.mposts = @ \union {m}] ELSE w : w \in warm}
  /\ UNCHANGED <<dbVars, pending, raw, flushed, groups, rejected, skipped,
                 queueVars, endVars, faultVars, phase>>

FitsNoWarmMeet(m) ==
  ~IsDefinitelyCold(m) /\ ~RaisesOn(WarmMembers, m) /\ BestFits(WarmMembers, m) = {}

AttachedClusters(m) == {c \in raw : Attachable(c, m)}

\* mutant: the merged clusters stay in the pool
AttachToCopies(m) ==
  /\ ReachPeer(m)
  /\ FitsNoWarmMeet(m)
  /\ AttachedClusters(m) # {}
  /\ raw' = raw \union {{m} \union UNION AttachedClusters(m)}
  /\ UNCHANGED <<dbVars, pending, warm, pooled, flushed, groups, rejected,
                 skipped, queueVars, endVars, faultVars, phase>>

\* ... second part: merge every raw cluster the mpost can attach to
AttachToRawClusters(m) ==
  /\ ReachPeer(m)
  /\ FitsNoWarmMeet(m)
  /\ AttachedClusters(m) # {}
  /\ raw' = (raw \ AttachedClusters(m)) \union {(UNION AttachedClusters(m)) \union {m}}
  /\ UNCHANGED <<dbVars, pending, warm, pooled, flushed, groups, rejected,
                 skipped, queueVars, endVars, faultVars, phase>>

\* the branches that ask the database: a definitely cold mpost, and one no
\* cluster in memory takes unless it is definitely warm
LooksInDatabase(m) ==
  \/ IsDefinitelyCold(m)
  \/ /\ FitsNoWarmMeet(m) /\ AttachedClusters(m) = {}
     /\ ~IsDefinitelyWarm(m)

AssignToColdMeet(m) ==
  /\ ReachPeer(m)
  /\ LooksInDatabase(m) /\ ~RaisesOn(RowMembers, m)
  /\ \E M \in BestFits(RowMembers, m) : pooled' = pooled \union {<<m, M>>}
  /\ UNCHANGED <<dbVars, pending, raw, warm, flushed, groups, rejected, skipped,
                 queueVars, endVars, faultVars, phase>>

CreateOrphanMeet(m) ==
  /\ ReachPeer(m)
  /\ IsDefinitelyCold(m)
  /\ ~RaisesOn(RowMembers, m) /\ BestFits(RowMembers, m) = {}
  /\ meetCount' = meetCount + 1
  /\ meetOf' = [meetOf EXCEPT ![m] = meetCount + 1]
  /\ UNCHANGED <<posted, mode, poolVars, flushed, groups, rejected, skipped,
                 queueVars, endVars, faultVars, phase>>

CreateRawCluster(m) ==
  /\ ReachPeer(m)
  /\ FitsNoWarmMeet(m) /\ AttachedClusters(m) = {}
  /\ \/ IsDefinitelyWarm(m)
     \/ ~RaisesOn(RowMembers, m) /\ BestFits(RowMembers, m) = {}
  /\ raw' = raw \union {{m}}
  /\ UNCHANGED <<dbVars, pending, warm, pooled, flushed, groups, rejected,
                 skipped, queueVars, endVars, faultVars, phase>>

PendingDone ==
  /\ phase = "pending" /\ todo = {}
  /\ pending' = {}
  /\ phase' = "flush"
  /\ UNCHANGED <<dbVars, raw, warm, pooled, localVars, queueVars, jobVars,
                 endVars, faultVars>>

(***************************************************************************)
(* The pooled mposts, then the host and join groups.                       *)
(***************************************************************************)

PooledFor(M) == {m \in Mposts : <<m, M>> \in pooled}

\* @pooled_mposts has as its key the Meet object of the mpost that came first:
\* one just read, or the cluster's own.  The cluster's own then holds what was
\* added as well, or all rows if it was stale and had to be reloaded.
SavedThroughKey(M, added) ==
  \/ /\ \A w \in warm : w.meet = M => ~(PooledFor(M) \subseteq w.mposts)
     /\ UNCHANGED warm
  \/ \E w \in warm : \E held \in {w.cached, MembersOf(M)} :
       /\ w.meet = M /\ PooledFor(M) \cap w.mposts # {}
       /\ warm' = (warm \ {w}) \union {[w EXCEPT !.cached = held \union added]}

FlushMeet(M) ==
  /\ phase = "flush"
  /\ PooledFor(M) # {} /\ M \notin flushed
  /\ meetOf' = [m \in Mposts |-> IF m \in PooledFor(M) THEN M ELSE meetOf[m]]
  /\ SavedThroughKey(M, PooledFor(M))
  /\ flushed' = flushed \union {M}
  /\ UNCHANGED <<posted, meetCount, mode, pending, raw, pooled, todo, groups,
                 rejected, skipped, queueVars, jobVars, endVars, faultVars, phase>>

\* mutant: the pool of joining mposts is emptied before every meet is flushed
FlushDoneEarly ==
  /\ phase = "flush"
  /\ pooled' = {} /\ flushed' = {}
  /\ phase' = "groups"
  /\ UNCHANGED <<dbVars, pending, raw, warm, todo, groups, rejected, skipped,
                 queueVars, jobVars, endVars, faultVars>>

FlushDone ==
  /\ phase = "flush"
  /\ \A M \in MeetIds : PooledFor(M) # {} => M \in flushed
  /\ pooled' = {} /\ flushed' = {}
  /\ phase' = "groups"
  /\ UNCHANGED <<dbVars, pending, raw, warm, todo, groups, rejected, skipped,
                 queueVars, jobVars, endVars, faultVars>>

IncludesUser(M, m) == \E n \in MembersOf(M) : MpostUser(n) = MpostUser(m)

\* whether the group handler of the mpost's mode takes it into meet M
Accepts(M, m) ==
  /\ M \in MeetIds
  /\ mode[m] \in {"host_owner", "join_owner"} => IncludesUser(M, m)
  /\ mode[m] = "host_owner" => MpostUser(m) = HosterOf[m]
  /\ mode[m] = "host_guest" => \E n \in MembersOf(M) : Sees(n, m) \/ Sees(m, n)

Group(k, M) == {m \in groups : mode[m] = GroupOrder[k] /\ HostMeet[m] = M}

\* mutant: the accepted mposts of a group are kept for peer mode as well
ProcessGroupKeepingAll(k, M) ==
  LET group == Group(k, M)
      taken == {m \in group : Accepts(M, m)}
      joins == IF GroupOrder[k] = "host_owner" THEN {} ELSE taken
  IN
  /\ phase = "groups"
  /\ group # {}
  /\ groups' = groups \ group
  /\ meetOf' = [m \in Mposts |-> IF m \in joins THEN M ELSE meetOf[m]]
  /\ absorbed' = absorbed \union (taken \ joins)
  /\ rejected' = rejected \union group
  /\ UNCHANGED <<posted, meetCount, mode, poolVars, todo, flushed, skipped,
                 queueVars, jobVars, discarded, faultVars, phase>>

\* One group: the accepted mposts join the meet, except that an owner's mpost
\* only names its meet; the others are kept for peer mode.
ProcessGroup(k, M) ==
  LET group == Group(k, M)
      taken == {m \in group : Accepts(M, m)}
      joins == IF GroupOrder[k] = "host_owner" THEN {} ELSE taken
  IN
  /\ phase = "groups"
  /\ group # {}
  /\ \A j \in 1..(k - 1) : \A m \in groups : mode[m] # GroupOrder[j]
  /\ groups' = groups \ group
  /\ meetOf' = [m \in Mposts |-> IF m \in joins THEN M ELSE meetOf[m]]
  /\ absorbed' = absorbed \union (taken \ joins)
  /\ rejected' = rejected \union (group \ taken)
  /\ UNCHANGED <<posted, meetCount, mode, poolVars, todo, flushed, skipped,
                 queueVars, jobVars, discarded, faultVars, phase>>

\* mutant: a rejected mpost keeps its mode
PutBackSameMode(m) ==
  /\ phase = "groups" /\ groups = {}
  /\ m \in rejected
  /\ pending' = pending \union {m}
  /\ rejected' = rejected \ {m}
  /\ UNCHANGED <<dbVars, raw, warm, pooled, todo, flushed, groups, skipped,
                 queueVars, jobVars, endVars, faultVars, phase>>

\* mutant: a rejected mpost is not put back into pending_mposts
PutBackNowhere(m) ==
  /\ phase = "groups" /\ groups = {}
  /\ m \in rejected
  /\ mode' = [mode EXCEPT ![m] = "peer"]
  /\ rejected' = rejected \ {m}
  /\ UNCHANGED <<posted, meetOf, meetCount, poolVars, todo, flushed, groups,
                 skipped, queueVars, jobVars, endVars, faultVars, phase>>

\* a rejected mpost is saved in peer mode and waits for the next job
PutBack(m) ==
  /\ phase = "groups" /\ groups = {}
  /\ m \in rejected
  /\ mode' = [mode EXCEPT ![m] = "peer"]
  /\ pending' = pending \union {m}
  /\ rejected' = rejected \ {m}
  /\ UNCHANGED <<posted, meetOf, meetCount, raw, warm, pooled, todo, flushed,
                 groups, skipped, queueVars, jobVars, endVars, faultVars, phase>>

GroupsDone ==
  /\ phase = "groups" /\ groups = {} /\ rejected = {}
  /\ phase' = "raw"
  /\ UNCHANGED <<dbVars, poolVars, localVars, queueVars, jobVars, endVars, faultVars>>

(***************************************************************************)
(* process_raw_clusters, then release_cold_meets.  The passes of the       *)
(* while loop only order the visits: a cluster stays unvisited until it is *)
(* processed, discarded or skipped, and a split asks for another pass.     *)
(***************************************************************************)

Visit(c) == phase = "raw" /\ c \in raw \ skipped

\* mutant: a discarded cluster is not removed from the pool
DiscardInPlace(c) ==
  /\ Visit(c)
  /\ ShallDiscard(c)
  /\ discarded' = discarded \union c
  /\ skipped' = skipped \union {c}
  /\ UNCHANGED <<dbVars, poolVars, todo, flushed, groups, rejected, queueVars,
                 jobVars, absorbed, faultVars, phase>>

DiscardCluster(c) ==
  /\ Visit(c)
  /\ ShallDiscard(c)
  /\ raw' = raw \ {c}
  /\ discarded' = discarded \union c
  /\ UNCHANGED <<dbVars, pending, warm, pooled, localVars, queueVars, jobVars,
                 absorbed, faultVars, phase>>

SkipCluster(c) ==
  /\ Visit(c)
  /\ ~ShallDiscard(c) /\ ~ShallProcess(c)
  /\ skipped' = skipped \union {c}
  /\ UNCHANGED <<dbVars, poolVars, todo, flushed, groups, rejected, queueVars,
                 jobVars, endVars, faultVars, phase>>

\* What MeetRelation may return for a cluster: see module MeetRelation
SeededSets(c) ==
  {g \in SUBSET c : g # {} /\ \A m, n \in g : ~Excludes(m, n)}

Linked(b) ==
  b # {} /\ \A s \in SUBSET b \ {{}, b} : \E m \in s, n \in b \ s : SeeEachOther(m, n)

\* split_cluster goes on with sets of related mposts until none remains
SplitsOf(rest) ==
  {P \in SUBSET (SUBSET rest) :
     /\ UNION P = rest
     /\ \A b \in P : Linked(b)
     /\ \A a, b \in P : a = b \/ a \cap b = {}}

Scorable(c) == \A m, n \in c : ~Unscorable(m, n)

\* the group becomes a new meet; what remains of the cluster stays raw
CreateMeetFrom(c) ==
  /\ Visit(c)
  /\ ~ShallDiscard(c) /\ ShallProcess(c)
  /\ \/ Cardinality(c) = 1
     \/ Scorable(c)
  /\ \E g \in SeededSets(c) : \E P \in SplitsOf(c \ g) :
       /\ raw' = (raw \ {c}) \union P
       /\ warm' = warm \union {[meet |-> meetCount + 1, mposts |-> g, cached |-> g]}
       /\ meetOf' = [m \in Mposts |-> IF m \in g THEN meetCount + 1 ELSE meetOf[m]]
  /\ meetCount' = meetCount + 1
  /\ UNCHANGED <<posted, mode, pending, pooled, localVars, queueVars, jobVars,
                 endVars, faultVars, phase>>

IsClusterCold(w) == Age(Earliest(w.mposts)) > ColdLimit

ReleaseColdMeets ==
  /\ phase = "raw" /\ raw \subseteq skipped
  /\ warm' = {w \in warm : ~IsClusterCold(w)}
  /\ skipped' = {}
  /\ phase' = "idle"
  /\ UNCHANGED <<dbVars, pending, raw, pooled, todo, flushed, groups, rejected,
                 queueVars, jobVars, endVars, faultVars>>

(***************************************************************************)
(* Failures.  exception_protected ends the job; what the job had in local  *)
(* variables is gone, what it had put in the pool stays.                   *)
(***************************************************************************)

\* mposts that only the local variables of the running job hold
OnlyLocal == groups \union rejected

Abort ==
  /\ phase' = "idle"
  /\ todo' = {} /\ flushed' = {} /\ groups' = {} /\ rejected' = {} /\ skipped' = {}
  /\ lost' = lost \union (OnlyLocal \ pending)
  /\ disturbed' = TRUE
  /\ startTime' \in {startTime, IF todo = {} THEN startTime ELSE StartedAt}
  /\ UNCHANGED <<posted, meetCount, mode, pending, pooled, queueVars,
                 timeNow, lastRun, endVars, redelivered, crashes>>

\* a statement of the database or the mailer fails
Fault == faults < MaxFaults /\ faults' = faults + 1

RaiseAnywhere ==
  /\ phase # "idle"
  /\ Fault /\ Abort
  /\ UNCHANGED <<meetOf, raw, warm>>

\* add_mposts_to_meet saves each mpost on its own before the meet
RaiseInFlush(M) ==
  /\ phase = "flush"
  /\ PooledFor(M) # {} /\ M \notin flushed
  /\ \E S \in SUBSET PooledFor(M) :
       /\ meetOf' = [m \in Mposts |-> IF m \in S THEN M ELSE meetOf[m]]
       /\ SavedThroughKey(M, S)
  /\ Fault /\ Abort
  /\ UNCHANGED raw

\* mutant: the group leaves the pool before its meet is created
RaiseAfterPop(c) ==
  /\ Visit(c)
  /\ ~ShallDiscard(c) /\ ShallProcess(c) /\ Scorable(c) /\ Cardinality(c) > 1
  /\ \E g \in SeededSets(c) : \E P \in SplitsOf(c \ g) : raw' = (raw \ {c}) \union P
  /\ Fault /\ Abort
  /\ UNCHANGED <<meetOf, warm>>

\* the cluster is split before its meet is created
RaiseAfterSplit(c) ==
  /\ Visit(c)
  /\ ~ShallDiscard(c) /\ ShallProcess(c) /\ Scorable(c) /\ Cardinality(c) > 1
  /\ \E g \in SeededSets(c) : \E P \in SplitsOf(c \ g) : raw' = (raw \ {c}) \union P \union {g}
  /\ Fault /\ Abort
  /\ UNCHANGED <<meetOf, warm>>

\* scoring a pair exactly MeetDuration apart always raises
RaiseOnScore ==
  /\ \/ \E m \in todo :
          /\ phase = "pending"
          /\ meetOf[m] = NoMeet /\ mode[m] = "peer"
          /\ \/ ~IsDefinitelyCold(m) /\ RaisesOn(WarmMembers, m)
             \/ LooksInDatabase(m) /\ RaisesOn(RowMembers, m)
     \/ \E c \in raw :
          /\ Visit(c)
          /\ ~ShallDiscard(c) /\ ShallProcess(c) /\ Cardinality(c) > 1 /\ ~Scorable(c)
  /\ Abort
  /\ UNCHANGED <<meetOf, raw, warm, faults>>

QueuedIn(q) ==
  {m \in Mposts : \E i \in DOMAIN q : q[i].job = "process_mposts" /\ q[i].mpost = m}

Pooled == {p[1] : p \in pooled}

InMemory == pending \union (UNION raw) \union Pooled \union OnlyLocal \union QueuedIn(jobs)

\* the worker process dies and a new one starts with an empty pool and queue
Crash ==
  /\ crashes < MaxCrashes
  /\ crashes' = crashes + 1
  /\ lost' = lost \union {m \in InMemory \ delayed : meetOf[m] = NoMeet}
  /\ jobs' = <<>>
  /\ phase' = "idle" /\ timeNow' = 0 /\ lastRun' = -1 /\ startTime' = -1
  /\ pending' = {} /\ raw' = {} /\ warm' = {} /\ pooled' = {}
  /\ todo' = {} /\ flushed' = {} /\ groups' = {} /\ rejected' = {} /\ skipped' = {}
  /\ UNCHANGED <<dbVars, clock, delayed, endVars, faults, redelivered, disturbed>>

-----------------------------------------------------------------------------
ProcessThread ==
  \/ ProcessMpost
  \/ ProcessMeets
  \/ SkipProcessMeets
  \/ \E m \in todo : SkipProcessed(m)
  \/ \E m \in todo : CollectHostMode(m)
  \/ \E m \in todo : AssignToWarmMeet(m)
  \/ \E m \in todo : AttachToRawClusters(m)
  \/ \E m \in todo : AssignToColdMeet(m)
  \/ \E m \in todo : CreateOrphanMeet(m)
  \/ \E m \in todo : CreateRawCluster(m)
  \/ PendingDone
  \/ \E M \in MeetIds : FlushMeet(M)
  \/ FlushDone
  \/ \E k \in 1..4, m \in groups : ProcessGroup(k, HostMeet[m])
  \/ \E m \in rejected : PutBack(m)
  \/ GroupsDone
  \/ \E c \in raw : DiscardCluster(c)
  \/ \E c \in raw : SkipCluster(c)
  \/ \E c \in raw : CreateMeetFrom(c)
  \/ ReleaseColdMeets
  \/ RaiseOnScore

Failure ==
  \/ RaiseAnywhere
  \/ \E M \in MeetIds : RaiseInFlush(M)
  \/ \E c \in raw : RaiseAfterSplit(c)
  \/ Crash

Environment ==
  \/ \E m \in Mposts : Post(m) \/ Deliver(m)
  \/ Timer

Next == Environment \/ ProcessThread \/ Failure

\* the three kinds of threads keep running; failures are never owed
Fairness ==
  /\ WF_vars(ProcessThread)
  /\ WF_vars(Timer)
  /\ \A m \in Mposts : WF_vars(Deliver(m) /\ m \notin delayed')

Spec == Init /\ [][Next]_vars
FairSpec == Spec /\ Fairness

-----------------------------------------------------------------------------
(***************************************************************************)
(* Properties.                                                             *)
(***************************************************************************)

\* Types of the variables.
Jobs ==
  [job : {"process_mposts"}, mpost : Mposts] \union [job : {"process_meets"}, at : Nat]

TypeOK ==
  /\ clock \in Nat /\ timeNow \in Nat
  /\ lastRun \in Nat \union {-1} /\ startTime \in Nat \union {-1}
  /\ posted \subseteq Mposts /\ delayed \subseteq posted
  /\ meetOf \in [Mposts -> Nat] /\ meetCount \in Nat
  /\ mode \in [Mposts -> Modes]
  /\ jobs \in Seq(Jobs)
  /\ phase \in {"idle", "pending", "flush", "groups", "raw"}
  /\ pending \subseteq Mposts /\ raw \subseteq SUBSET Mposts
  /\ warm \subseteq [meet : Nat, mposts : SUBSET Mposts, cached : SUBSET Mposts]
  /\ pooled \subseteq Mposts \X Nat
  /\ todo \subseteq Mposts /\ flushed \subseteq Nat /\ groups \subseteq Mposts
  /\ rejected \subseteq Mposts /\ skipped \subseteq SUBSET Mposts
  /\ discarded \subseteq Mposts /\ absorbed \subseteq Mposts /\ lost \subseteq Mposts
  /\ faults \in Nat /\ redelivered \in Nat /\ crashes \in Nat /\ disturbed \in BOOLEAN

\* A mpost is never in two clusters at once, raw or processed, and no two
\* processed clusters share a meet, as long as no job has raised and none was
\* delivered twice (merge_clusters, split_cluster, move_to_processed_clusters).
ClustersDisjoint ==
  ~disturbed =>
    /\ \A c, d \in raw : c = d \/ c \cap d = {}
    /\ \A v, w \in warm : v = w \/ (v.meet # w.meet /\ v.mposts \cap w.mposts = {})
    /\ \A c \in raw, w \in warm : c \cap w.mposts = {}

\* Memory and database stay in sync: a mpost of a processed cluster belongs
\* to its meet, or is pooled for it; one of a raw cluster has no meet yet.
MemoryMatchesDatabase ==
  ~disturbed =>
    /\ \A w \in warm : \A m \in w.mposts : meetOf[m] = w.meet \/ <<m, w.meet>> \in pooled
    /\ \A c \in raw : \A m \in c : meetOf[m] = NoMeet /\ \A p \in pooled : p[1] # m

\* A mpost that is in a meet never moves to another one.
MeetNeverChanges ==
  [][\A m \in Mposts : meetOf[m] # NoMeet /\ ~disturbed' => meetOf'[m] = meetOf[m]]_vars

Settled(m) == meetOf[m] # NoMeet \/ m \in discarded \union absorbed

\* Whatever raises, crashes or is delivered twice, a posted mpost without an
\* outcome is in a delayed job, in the queue or in the pool, or is counted lost.
NothingForgotten ==
  \A m \in posted : Settled(m) \/ m \in delayed \union InMemory \union lost

\* Exceptions lose no mpost posted in peer mode: pending_mposts is cleared
\* only after every one of them is in a cluster or pooled.
ExceptionsLoseNoPeer ==
  crashes = 0 => \A m \in lost : HostMode[m] # "peer"

\* Hosts, guests and joins change nothing of what holds for peers: clusters
\* stay apart, whoever waits is known to the process thread, and a raise
\* loses host and join mposts only.
HostedHolds == ClustersDisjoint /\ NothingForgotten /\ ExceptionsLoseNoPeer

\* The life of a mpost as MpostLifecycle promises it.
LifecycleState ==
  [m \in Mposts |->
     CASE m \notin posted -> "new"
       [] m \in posted /\ meetOf[m] # NoMeet -> "grouped"
       [] m \in posted /\ meetOf[m] = NoMeet /\ Settled(m) -> "dropped"
       [] OTHER -> "waiting"]

Lifecycle == INSTANCE MpostLifecycle WITH state <- LifecycleState, meet <- meetOf

\* The pipeline implements MpostLifecycle: every step leaves each mpost where
\* it is, or moves it on along its life, while no job has raised and none was
\* delivered twice.
FollowsLifecycle ==
  Lifecycle!Init /\ [][Lifecycle!Next \/ disturbed']_<<LifecycleState, meetOf>>

\* Every posted mpost is eventually put in a meet, discarded as
\* unprocessable, or absorbed as an owner's mpost.
EverySightingSettles == Lifecycle!EveryoneSettles

\* Jobs that raise keep nobody waiting but those who were in the local variables
\* of such a job.
EverybodyElseSettles == \A m \in Mposts : []<>(LifecycleState[m] # "waiting" \/ m \in lost)

\* "If mpost violate any rule (e.g. loose_time_duration), it can not attach to
\* a processed cluster": no two members of a meet exclude each other.
MembersDoNotExclude ==
  \A m, n \in posted : meetOf[m] # NoMeet /\ meetOf[m] = meetOf[n] => ~Excludes(m, n)

\* "Can't let single error ruin the whole process" (tqueue_start): mposts that
\* raise nothing themselves settle whatever the others do.
BystandersSettle ==
  \A m \in Mposts :
    (\A n \in Mposts : ~Unscorable(m, n)) => []<>(LifecycleState[m] # "waiting")

=============================================================================
