--------------------------- MODULE MCWorkflowRun ---------------------------
\* Instances of WorkflowRun for TLC.
EXTENDS WorkflowRun

CONSTANTS j1, j2, j3

ThreeJobs == {j1, j2, j3}

Sequential(js) == [jobs |-> js, parallel |-> FALSE]
Parallel(js) == [jobs |-> js, parallel |-> TRUE]

\* A step with two priorities, a parallel step before and after another one, a
\* pool with fewer goroutines than jobs, and a workflow without jobs.
SomePlans ==
  { << Sequential(<<j1, j2>>), Sequential(<<j3>>) >>,
    << Parallel(<<j1, j2>>), Sequential(<<j3>>) >>,
    << Sequential(<<j1>>), Parallel(<<j2, j3>>) >>,
    << Sequential(<<j1, j2, j3>>) >>,
    << Parallel(<<j1, j2, j3>>) >>,
    << >> }

SomeLimits == {0, 2, 3}
SomeIgnored == {{}, {j2}}
=============================================================================
