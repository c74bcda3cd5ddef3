CONSTANTS
  Task = {t1}
  Node = {n1, n2}
  Msg = {m1, m2}
  Exec = {e1}
  NoTask = NoTask
  NoNode = NoNode
  Modes <- AllModes
  MaxWorkflows = 1
  ReadCount = 2
  MaxFaults <- LiveFaults
CHECK_DEADLOCK FALSE
SPECIFICATION FairSpec
PROPERTIES
  WaitingIsClaimed
  MessageIsSettled
