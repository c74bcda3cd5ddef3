CONSTANTS
  leader = leader
  follower = follower
  w1 = w1
  w2 = w2
  Replica <- OneReplica
  Leader <- leader
  Wait <- TwoWaits
  Absent = Absent
  Pods = 1
  Timeout = 3
  MaxSyncs = 2
  MaxChanges = 2
  MaxErrors = 1
SPECIFICATION FairSpec
INVARIANT TypeOK
PROPERTIES NoLostWakeup StatusSettles
