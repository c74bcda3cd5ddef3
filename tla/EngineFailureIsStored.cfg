CONSTANTS
  Task = {t1}
  Node = {n1, n2}
  Msg = {m1}
  Exec = {e1}
  NoTask = NoTask
  NoNode = NoNode
  Modes <- AllModes
  MaxWorkflows = 1
  ReadCount = 2
  MaxFaults <- NoFaults
CHECK_DEADLOCK FALSE
SPECIFICATION Spec
PROPERTY FailureIsStored
