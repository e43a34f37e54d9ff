SPECIFICATION MCSpec
CONSTANTS
  ann = ann
  root = root
  t1 = t1
  t2 = t2
  r1 = r1
  r2 = r2
  r3 = r3
  Requests <- MCThree
  Initial <- MCInitial
  Users <- MCUsers
  Admin = root
  Workers = 2
  Tries = 2
  Kinds <- MCAll
  MaxFailures = 1
  NoTopic = NoTopic
  Nobody = Nobody
SYMMETRY Symmetric
INVARIANTS TypeOK CountersSettle TopicsAreSound
PROPERTY OthersKeepTheirs
