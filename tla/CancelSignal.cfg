CONSTANTS
  j1 = j1
  j2 = j2
  j3 = j3
  Job <- ThreeJobs
  Marker = Marker
  Absent = Absent
  Modes <- BothModes
  Expiry = 4
  MaxErrors = 2
SPECIFICATION FairSpec
INVARIANTS TypeOK NoSpuriousCancel
PROPERTIES LateJobsAreCancelled CancelArrives
