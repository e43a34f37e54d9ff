SPECIFICATION Spec
CONSTANTS
  a = a
  b = b
  c = c
  d = d
  Phones = {a, b, d}
  Mposts <- MCMposts
  Devs <- MCDevs
  Users <- MCUsers
  UserOf <- MCUserOf
  BaseDev <- MCBaseDev
  UserDev <- MCBaseDev
  SeenAt <- MCSeenAt
  Trigger <- MCTrigger
  HostMode <- MCHostMode
  HostMeet <- MCHostMeet
  HosterOf <- MCHosterOf
  CirkleHosters = {a}
  DevTolerance = 1
  TimerInterval = 1
  HotIdle = 0
  HotThreshold = 0
  HotLimit = 1
  ColdLimit = 2
  ExpireLimit = 3
  ColdMargin = 1
  MeetDuration = 2
  MaxClock = 8
  LastPost = 3
  MaxTicks = 1
  MaxFaults = 1
  MaxRedeliveries = 1
  MaxCrashes = 1
INVARIANTS NothingForgotten
