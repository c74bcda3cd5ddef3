CONSTANTS
  Task = {t1, t2}
  Node = {n1, n2, n3}
  Msg = {m1, m2}
  Exec = {e1, e2}
  NoTask = NoTask
  NoNode = NoNode
  Modes <- AllModes
  MaxWorkflows = 1
  ReadCount = 2
  MaxFaults <- SteadyFaults
CHECK_DEADLOCK FALSE
SYMMETRY Symmetry
SPECIFICATION Spec
INVARIANTS
  OneControllerPerTask
