SPECIFICATION FairSpec
CONSTANTS
  a = a
  b = b
  c = c
  d = d
  e = e
  Mposts <- MCMposts
  Trigger <- MCTrigger
  MeetDuration = 3
  Infinite = 1000
  Threshold = 20
INVARIANTS TypeOK NoExcludedPair ScoresExact MembersStay
PROPERTY Terminates
