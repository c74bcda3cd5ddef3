---------------------------- MODULE WorkflowRun ----------------------------
(***************************************************************************)
(* One execution of a workflow: WorkflowCtl.Run and the job pool           *)
(* (pkg/apiserver/event/workflow/controller.go and job/job.go).            *)
(*                                                                         *)
(* The controller goroutine walks the batches of the workflow, one per     *)
(* step and priority.  A batch of concurrency 1 is run by the controller   *)
(* itself, any other by a Pool: a producer (the controller), an unbuffered *)
(* channel, worker goroutines and a WaitGroup.  After each batch the       *)
(* controller looks at the jobs' statuses and goes on or gives up.         *)
(*                                                                         *)
(* What a job does to the cluster is left out; its end is an outcome.  The *)
(* writes of the task row (ack) are those of the module WorkflowEngine.    *)
(***************************************************************************)
EXTENDS Integers, Sequences, FiniteSets

CONSTANTS
  Job,     \* the jobs
  MaxPool, \* bound: the largest pool
  Main,    \* the controller goroutine, when it runs a job itself
  NoJob,   \* no job
  Plans,   \* the workflows considered: sequences of batches
  Ignored, \* the jobs whose share strategy is ignore: a set of sets
  Limits   \* values of Workflow.SequentialMaxConcurrency

\* The worker goroutines of a pool, and all goroutines that run jobs.
Slot == 1 .. MaxPool
Runner == Slot \cup {Main}

\* A batch: the jobs of one step with the same priority.  Every job of a workflow
\* is a JobTask of its own.
Batch == [jobs : Seq(Job), parallel : BOOLEAN]

ASSUME RunAssumption ==
  /\ MaxPool \in Nat \ {0}
  /\ Main \notin Slot
  /\ NoJob \notin Job
  /\ Limits \subseteq Nat
  /\ Ignored \subseteq SUBSET Job
  /\ \A p \in Plans :
       /\ p \in Seq(Batch)
       /\ \A k \in 1 .. Len(p) : Len(p[k].jobs) \in Slot
       /\ \A k, l \in 1 .. Len(p) :
            \A m \in 1 .. Len(p[k].jobs), n \in 1 .. Len(p[l].jobs) :
              p[k].jobs[m] = p[l].jobs[n] => k = l /\ m = n

VARIABLES
  plan,   \* the workflow as it is stored
  steps,  \* the batches GenerateJobTasks returned
  limit,  \* seqLimit
  pc,     \* where the controller goroutine is
  b,      \* index of the batch being run
  i,      \* index of the next job of the batch
  wg,     \* the pool's WaitGroup
  outer,  \* whether the controller's context is live
  pool,   \* whether the pool's own cancel has not been called
  runner, \* the goroutines that run jobs
  st,     \* JobTask.Status
  saved,  \* JobInfo.Status of the record of each job, "none" without a record
  late    \* history: jobs a pool that stops on failure handed out after its
          \* context ended

vars == <<plan, steps, limit, pc, b, i, wg, outer, pool, runner, st, saved, late>>

-----------------------------------------------------------------------------
\* "failed" stands for timeout and reject too, which nothing here tells apart,
\* "completed" for a job that found a shared resource and skipped, and "prepare"
\* for running.
JobStatus == {"queued", "skipped", "prepare", "completed", "failed", "cancelled"}

jobStatusFailed(s) == s \in {"cancelled", "failed"}

isJobSuccessStatus(s) == s \in {"completed", "skipped"}

\* The goroutine is inside runJob.
InRunJob(r) == runner[r].pc \in {"begin", "run", "save", "end"}

TypeOK ==
  /\ plan \in Plans
  /\ steps \in {<<>>, plan}
  /\ limit \in Limits
  /\ pc \in {"start", "batch", "seq", "produce", "send", "wait", "check",
             "completed", "failed"}
  /\ b \in Nat
  /\ i \in Nat
  /\ wg \in Nat
  /\ outer \in BOOLEAN
  /\ pool \in BOOLEAN
  /\ runner \in [Runner -> [pc : {"off", "recv", "begin", "run", "save", "end"},
                            job : Job \cup {NoJob}]]
  /\ st \in [Job -> JobStatus]
  /\ saved \in [Job -> JobStatus \cup {"none"}]
  /\ late \in Nat

Off == [pc |-> "off", job |-> NoJob]

\* NewJobTask makes a job queued, markJobSkippedIfIgnored makes it skipped.
Init ==
  /\ plan \in Plans
  /\ steps = <<>>
  /\ limit \in Limits
  /\ pc = "start"
  /\ b = 1
  /\ i = 1
  /\ wg = 0
  /\ outer = TRUE
  /\ pool = TRUE
  /\ runner = [r \in Runner |-> Off]
  /\ \E ignored \in Ignored :
       st = [j \in Job |-> IF j \in ignored THEN "skipped" ELSE "queued"]
  /\ saved = [j \in Job |-> "none"]
  /\ late = 0

-----------------------------------------------------------------------------
jobs == steps[b].jobs

\* Seeded fault: a parallel step stops on failure too.
stopOnFailureAlways == TRUE

stopOnFailure == ~steps[b].parallel

determineStepConcurrency ==
  LET n == Len(jobs)
      m == IF limit < 1 THEN 1 ELSE limit
  IN  IF steps[b].parallel THEN n ELSE IF n < m THEN n ELSE m

\* p.ctx: it is the controller's context when the pool does not stop on failure.
PoolCtxLive == outer /\ pool

-----------------------------------------------------------------------------
(***************************************************************************)
(* The environment.                                                        *)
(***************************************************************************)
\* The controller's context ends: the errgroup, the worker or the leader went.
CancelOuter ==
  /\ pc \notin {"completed", "failed"}
  /\ outer
  /\ outer' = FALSE
  /\ UNCHANGED <<plan, steps, limit, pc, b, i, wg, pool, runner, st, saved, late>>

-----------------------------------------------------------------------------
(***************************************************************************)
(* The controller.                                                         *)
(***************************************************************************)
\* Any error of GenerateJobTasks' reads is logged and there are no steps.
GenerateJobTasks ==
  /\ pc = "start"
  /\ \/ outer /\ steps' = plan
     \/ steps' = <<>>
  /\ pc' = "batch"
  /\ UNCHANGED <<plan, limit, b, i, wg, outer, pool, runner, st, saved, late>>

\* RunJobs on the next batch: the sequential loop, or NewPool and the start of
\* its goroutines.
RunJobs ==
  /\ pc = "batch"
  /\ b <= Len(steps)
  /\ i' = 1
  /\ IF determineStepConcurrency = 1
     THEN pc' = "seq" /\ UNCHANGED runner
     ELSE /\ pc' = "produce"
          /\ runner' = [r \in Runner |->
               IF r \in Slot /\ r <= determineStepConcurrency
               THEN [Off EXCEPT !.pc = "recv"] ELSE Off]
  /\ pool' = TRUE
  /\ late' = 0
  /\ UNCHANGED <<plan, steps, limit, b, wg, outer, st, saved>>

\* The sequential loop: stop at the end or at the first failed job, or run one.
RunSequential ==
  /\ pc = "seq"
  /\ runner[Main].pc = "off"
  /\ IF i > Len(jobs) \/ (i > 1 /\ jobStatusFailed(st[jobs[i - 1]]))
     THEN pc' = "check" /\ UNCHANGED <<i, runner>>
     ELSE /\ runner' = [runner EXCEPT ![Main] = [Off EXCEPT !.pc = "begin",
                                                            !.job = jobs[i]]]
          /\ i' = i + 1
          /\ UNCHANGED pc
  /\ UNCHANGED <<plan, steps, limit, b, wg, outer, pool, st, saved, late>>

\* Seeded fault: the producer does not look at the context.
ProduceBlindly ==
  /\ pc = "produce"
  /\ IF i > Len(jobs)
     THEN pc' = "wait" /\ UNCHANGED wg
     ELSE pc' = "send" /\ wg' = wg + 1
  /\ UNCHANGED <<plan, steps, limit, b, i, outer, pool, runner, st, saved, late>>

\* Seeded fault: the WaitGroup is not told of the job.
ProduceUncounted ==
  /\ pc = "produce"
  /\ pc' = IF i > Len(jobs) \/ (stopOnFailure /\ ~PoolCtxLive) THEN "wait" ELSE "send"
  /\ UNCHANGED <<plan, steps, limit, b, i, wg, outer, pool, runner, st, saved, late>>

\* The head of Pool.Run's loop.
Produce ==
  /\ pc = "produce"
  /\ IF i > Len(jobs) \/ (stopOnFailure /\ ~PoolCtxLive)
     THEN pc' = "wait" /\ UNCHANGED wg
     ELSE pc' = "send" /\ wg' = wg + 1
  /\ UNCHANGED <<plan, steps, limit, b, i, outer, pool, runner, st, saved, late>>

\* The rendezvous on jobsChan.
Send(s) ==
  /\ pc = "send"
  /\ runner[s].pc = "recv"
  /\ runner' = [runner EXCEPT ![s] = [Off EXCEPT !.pc = "begin", !.job = jobs[i]]]
  /\ i' = i + 1
  /\ pc' = "produce"
  /\ late' = IF stopOnFailure /\ ~PoolCtxLive THEN late + 1 ELSE late
  /\ UNCHANGED <<plan, steps, limit, b, wg, outer, pool, st, saved>>

\* Seeded fault: Pool.Run returns without wg.Wait.
PoolReturnEarly ==
  /\ pc = "wait"
  /\ pc' = "check"
  /\ UNCHANGED <<plan, steps, limit, b, i, wg, outer, pool, runner, st, saved, late>>

\* wg.Wait; the idle goroutines meet the closed channel and end.
PoolReturn ==
  /\ pc = "wait"
  /\ wg = 0
  /\ pc' = "check"
  /\ runner' = [r \in Runner |-> IF runner[r].pc = "recv" THEN Off ELSE runner[r]]
  /\ pool' = TRUE
  /\ UNCHANGED <<plan, steps, limit, b, i, wg, outer, st, saved, late>>

\* Seeded fault: only the failed statuses are looked for, not the jobs that
\* never started.
CheckFailed ==
  /\ pc = "check"
  /\ IF \A k \in 1 .. Len(jobs) : ~jobStatusFailed(st[jobs[k]])
     THEN pc' = "batch" /\ b' = b + 1
     ELSE pc' = "failed" /\ UNCHANGED b
  /\ UNCHANGED <<plan, steps, limit, i, wg, outer, pool, runner, st, saved, late>>

\* The statuses of the batch decide.
Check ==
  /\ pc = "check"
  /\ IF \A k \in 1 .. Len(jobs) : isJobSuccessStatus(st[jobs[k]])
     THEN pc' = "batch" /\ b' = b + 1
     ELSE pc' = "failed" /\ UNCHANGED b
  /\ UNCHANGED <<plan, steps, limit, i, wg, outer, pool, runner, st, saved, late>>

updateWorkflowStatus ==
  /\ pc = "batch"
  /\ b > Len(steps)
  /\ pc' = "completed"
  /\ UNCHANGED <<plan, steps, limit, b, i, wg, outer, pool, runner, st, saved, late>>

-----------------------------------------------------------------------------
(***************************************************************************)
(* runJob, on a goroutine of the pool or on the controller's.              *)
(***************************************************************************)
\* JobCtl.SaveInfo: the record is added, or the call fails (surely so when its
\* context has ended) and the error is logged.
SaveInfo(live, j) ==
  \/ live /\ saved' = [saved EXCEPT ![j] = st[j]]
  \/ UNCHANGED saved

\* A skipped job is only recorded.
RunSkipped(r) ==
  /\ runner[r].pc = "begin"
  /\ st[runner[r].job] = "skipped"
  /\ SaveInfo(PoolCtxLive, runner[r].job)
  /\ runner' = [runner EXCEPT ![r].pc = "end"]
  /\ UNCHANGED <<plan, steps, limit, pc, b, i, wg, outer, pool, st, late>>

\* Any other is prepared; without a controller for its type it fails at once,
\* and is not recorded.
PrepareJob(r) ==
  /\ runner[r].pc = "begin"
  /\ st[runner[r].job] # "skipped"
  /\ \/ /\ st' = [st EXCEPT ![runner[r].job] = "prepare"]
        /\ runner' = [runner EXCEPT ![r].pc = "run"]
     \/ /\ st' = [st EXCEPT ![runner[r].job] = "failed"]
        /\ runner' = [runner EXCEPT ![r].pc = "end"]
  /\ UNCHANGED <<plan, steps, limit, pc, b, i, wg, outer, pool, saved, late>>

\* JobCtl.Run returns or panics, and Clean removes what a failed job created.
\* The job's own context, which its CancelWatcher may end at any time (module
\* CancelSignal), has ended when the outcome is cancelled.
FinishJob(r, outcome) ==
  /\ runner[r].pc = "run"
  /\ st' = [st EXCEPT ![runner[r].job] = outcome]
  /\ runner' = [runner EXCEPT ![r].pc = "save"]
  /\ UNCHANGED <<plan, steps, limit, pc, b, i, wg, outer, pool, saved, late>>

\* The deferred function: the record is made with the job's own context.
RecordJob(r) ==
  /\ runner[r].pc = "save"
  /\ SaveInfo(PoolCtxLive /\ st[runner[r].job] # "cancelled", runner[r].job)
  /\ runner' = [runner EXCEPT ![r].pc = "end"]
  /\ UNCHANGED <<plan, steps, limit, pc, b, i, wg, outer, pool, st, late>>

\* runJob returns to the sequential loop.
MainReturns ==
  /\ runner[Main].pc = "end"
  /\ runner' = [runner EXCEPT ![Main] = Off]
  /\ UNCHANGED <<plan, steps, limit, pc, b, i, wg, outer, pool, st, saved, late>>

\* Seeded fault: a worker that cancelled the pool ends.
WorkReturnsOnFailure(s) ==
  LET stop == stopOnFailure /\ jobStatusFailed(st[runner[s].job]) IN
  /\ runner[s].pc = "end"
  /\ runner' = [runner EXCEPT ![s] = IF stop THEN Off ELSE [Off EXCEPT !.pc = "recv"]]
  /\ pool' = (pool /\ ~stop)
  /\ wg' = wg - 1
  /\ UNCHANGED <<plan, steps, limit, pc, b, i, outer, st, saved, late>>

\* runJob returns to Pool.work: the first failure cancels the pool, and the
\* goroutine is ready for another job.
Work(s) ==
  /\ runner[s].pc = "end"
  /\ runner' = [runner EXCEPT ![s] = [Off EXCEPT !.pc = "recv"]]
  /\ pool' = (pool /\ ~(stopOnFailure /\ jobStatusFailed(st[runner[s].job])))
  /\ wg' = wg - 1
  /\ UNCHANGED <<plan, steps, limit, pc, b, i, outer, st, saved, late>>

-----------------------------------------------------------------------------
Controller ==
  \/ GenerateJobTasks \/ RunJobs \/ RunSequential \/ Produce \/ PoolReturn
  \/ Check \/ updateWorkflowStatus \/ \E s \in Slot : Send(s)

RunJob(r) ==
  \/ RunSkipped(r) \/ PrepareJob(r) \/ RecordJob(r)
  \/ \E o \in {"completed", "failed", "cancelled"} : FinishJob(r, o)

\* Run has returned.
Returned == pc \in {"completed", "failed"} /\ UNCHANGED vars

Next ==
  \/ Controller \/ MainReturns \/ CancelOuter \/ Returned
  \/ \E s \in Slot : Work(s)
  \/ \E r \in Runner : RunJob(r)

Spec == Init /\ [][Next]_vars

\* The goroutines are scheduled, and a job ends because it has a timeout.
FairSpec ==
  /\ Spec
  /\ WF_vars(Controller)
  /\ WF_vars(MainReturns)
  /\ \A s \in Slot : WF_vars(Work(s))
  /\ \A r \in Runner : WF_vars(RunJob(r))

-----------------------------------------------------------------------------
(***************************************************************************)
(* Properties.                                                             *)
(***************************************************************************)
JobsOf(k) == {steps[k].jobs[n] : n \in 1 .. Len(steps[k].jobs)}

\* Priorities and steps are hard borders: a job runs only within its own batch,
\* when every job of every earlier batch has succeeded, and none runs while the
\* controller judges the batch or after it returned (Pool.Run's WaitGroup).
BatchBarrier ==
  \A r \in Runner : InRunJob(r) =>
    /\ pc \in {"seq", "produce", "send", "wait"}
    /\ runner[r].job \in JobsOf(b)
    /\ \A k \in 1 .. b - 1 : \A j \in JobsOf(k) : isJobSuccessStatus(st[j])

\* A pool that stops on failure hands out at most one job after its context
\* ended: the one the producer had already committed to.
OneLateStart == late <= 1

\* The verdict is that of the jobs: a completed run had all jobs of its batches
\* succeed, even when the context ended before some were handed out; a failed
\* one left the jobs of later batches untouched.
Verdict ==
  /\ pc = "completed" =>
       \A k \in 1 .. Len(steps) : \A j \in JobsOf(k) : isJobSuccessStatus(st[j])
  /\ pc = "failed" =>
       /\ \E j \in JobsOf(b) : ~isJobSuccessStatus(st[j])
       /\ \A k \in b + 1 .. Len(steps) : \A j \in JobsOf(k) :
            st[j] \in {"queued", "skipped"} /\ saved[j] = "none"

\* A parallel step runs all its jobs to the end, whatever fails among them.
ParallelRunsAll ==
  pc = "check" /\ steps[b].parallel =>
    \A j \in JobsOf(b) : st[j] \notin {"queued", "prepare"}

\* A run returns: no producer waits for ever on a channel nobody reads, no
\* WaitGroup for a job nobody ends.
RunReturns == <>(pc \in {"completed", "failed"})
=============================================================================
