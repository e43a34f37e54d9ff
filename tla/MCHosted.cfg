SPECIFICATION FairSpec
CONSTANTS
  h = h
  o = o
  g = g
  q = q
  Phones = {h, o, g, q}
  Mposts <- MCMposts
  Devs <- MCDevs
  Users <- MCUsers
  UserOf <- MCUserOf
  BaseDev <- MCBaseDev
  UserDev <- MCUserDev
  SeenAt <- MCSeenAt
  Trigger <- MCTrigger
  HostMode <- MCHostMode
  HostMeet <- MCHostMeet
  HosterOf <- MCHosterOf
  CirkleHosters = {}
  DevTolerance = 1
  TimerInterval = 3
  HotIdle = 0
  HotThreshold = 0
  HotLimit = 1
  ColdLimit = 1
  ExpireLimit = 2
  ColdMargin = 1
  MeetDuration = 2
  MaxClock = 6
  LastPost = 2
  MaxTicks = 1
  MaxFaults = 1
  MaxRedeliveries = 0
  MaxCrashes = 0
INVARIANT HostedHolds
PROPERTIES FollowsLifecycle EverybodyElseSettles
