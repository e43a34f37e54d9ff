SPECIFICATION MCSpec
CONSTANTS
  a1 = a1
  b1 = b1
  a2 = a2
  a3 = a3
  b2 = b2
  c2 = c2
  h = h
  k = k
  i = i
  ann = ann
  bob = bob
  cat = cat
  root = root
  s = s
  t = t
  u = u
  Chosen = {a1, b1, a2, b2, c2, h, i, k}
  Mposts <- MCMposts
  Users <- MCUsers
  UserOf <- MCUserOf
  Devs <- MCDevs
  HostMode <- MCHostMode
  Admin = root
  Leavers = {bob, cat}
  Quitters = {ann}
  Encounters = {1, 2, 3}
  CirkleIds = {1, 2, 3}
  MaxSessions = 1
  MaxRef = 3
  Extractors = {1, 2}
  Before = 0
  Meetings = {s, t, u}
  Claimed = {t, u}
  Persons <- MCUsers
  Invited <- MCInvited
  Attending <- MCAttending
  MaxExtractions = 3
  LockTries = 2
  MaxCount = 2
  NoMeet = NoMeet
  NoCirkle = NoCirkle
CHECK_DEADLOCK FALSE
INVARIANTS TypeOK PrivateStaysPrivate CirkleFits EncountersListed CirklesAddUp OverlapsAddUp
