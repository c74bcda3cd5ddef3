CONSTANTS
  Task = {t1}
  Node = {n1, n2}
  Msg = {m1, m2}
  Exec = {e1, e2}
  NoTask = NoTask
  NoNode = NoNode
  Modes <- AllModes
  MaxWorkflows = 1
  ReadCount = 2
  MaxFaults <- FailoverFaults
CHECK_DEADLOCK FALSE
SYMMETRY Symmetry
SPECIFICATION Spec
INVARIANTS
  TypeOK
  OneDispatchPerWait
  QueuedIsCarried
