CONSTANTS
  leader = leader
  follower = follower
  w1 = w1
  w2 = w2
  Replica <- TwoReplicas
  Leader <- leader
  Wait <- OneWait
  Absent = Absent
  Pods = 1
  Timeout = 4
  MaxSyncs = 2
  MaxChanges = 2
  MaxErrors = 0
SPECIFICATION Spec
PROPERTY ReadyIsSeen
