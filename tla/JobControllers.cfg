CONSTANTS
  j1 = j1
  j2 = j2
  n1 = n1
  n2 = n2
  p1 = p1
  p2 = p2
  a1 = a1
  a2 = a2
  x = x
  Job <- TwoJobs
  Process <- TwoProcesses
  Name <- TwoNames
  App <- TwoApps
  Value = {1, 2}
  Item <- OneItem
  Setups <- AllSetups
  Central = Central
  Foreign = Foreign
  Absent = Absent
  Nobody = Nobody
  MaxErrors = 1
  MaxForeign = 1
SPECIFICATION FairSpec
INVARIANTS TypeOK CreatedIsOwn NoOrphans SharedOnce CompletedIsApplied
PROPERTIES ForeignRbacIsKept JobEnds
