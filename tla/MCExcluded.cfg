SPECIFICATION Spec
CONSTANTS
  a = a
  b = b
  c = c
  d = d
  Phones = {a, b, c}
  Mposts <- MCMposts
  Devs <- MCDevs
  Users <- MCUsers
  UserOf <- MCUserOf
  BaseDev <- MCBaseDev
  UserDev <- MCBaseDev
  SeenAt <- MCSeenAt
  Trigger <- MCTrigger
  HostMode <- MCHostMode
  HostMeet <- MCHostMeet
  HosterOf <- MCHosterOf
  CirkleHosters = {b}
  DevTolerance = 1
  TimerInterval = 1
  HotIdle = 0
  HotThreshold = 1
  HotLimit = 2
  ColdLimit = 4
  ExpireLimit = 5
  ColdMargin = 1
  MeetDuration = 3
  MaxClock = 12
  LastPost = 5
  MaxTicks = 1
  MaxFaults = 0
  MaxRedeliveries = 0
  MaxCrashes = 0
INVARIANT MembersDoNotExclude
