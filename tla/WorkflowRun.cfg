CONSTANTS
  j1 = j1
  j2 = j2
  j3 = j3
  Job <- ThreeJobs
  MaxPool = 3
  Main = Main
  NoJob = NoJob
  Plans <- SomePlans
  Limits <- SomeLimits
  Ignored <- SomeIgnored
SPECIFICATION FairSpec
INVARIANTS TypeOK BatchBarrier OneLateStart Verdict ParallelRunsAll
PROPERTY RunReturns
