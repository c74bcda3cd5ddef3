------------------------- MODULE WorkflowRunProofs -------------------------
(***************************************************************************)
(* Proofs about WorkflowRun, for every workflow, every pool size and every *)
(* limit of the sequential concurrency.                                    *)
(*                                                                         *)
(* None of the properties is inductive.  They follow from four facts kept  *)
(* together: where the controller is in the plan (Place), which goroutines *)
(* live there and what they hold (Goroutines), what the WaitGroup counts   *)
(* (Counted), and what the statuses say of the jobs before, at and after   *)
(* the index of the producer (Progress).                                   *)
(***************************************************************************)
EXTENDS WorkflowRun, FiniteSetTheorems, TLAPS

Pooling == pc \in {"produce", "send", "wait"}
InBatch == pc = "seq" \/ Pooling \/ pc = "check"

\* Where the controller is: a batch that is run or judged exists, and a parallel
\* batch is left only when all its jobs have been handed out.
Place ==
  /\ b >= 1
  /\ i >= 1
  /\ pc = "start" => steps = <<>> /\ b = 1
  /\ InBatch \/ pc = "failed" => b <= Len(steps)
  /\ pc = "completed" => b > Len(steps)
  /\ InBatch => i <= Len(jobs) + 1
  /\ pc = "send" => i <= Len(jobs)
  /\ pc = "seq" /\ steps[b].parallel => Len(jobs) = 1
  /\ pc \in {"wait", "check"} /\ steps[b].parallel => i > Len(jobs)

\* The goroutines that live are the controller's own or those of the pool, each
\* inside runJob holds one of the jobs handed out, and no two hold the same.
Goroutines ==
  /\ \A r \in Runner : runner[r].pc # "off" =>
       \/ r = Main /\ pc = "seq"
       \/ r \in Slot /\ Pooling
  /\ \A r \in Runner : InRunJob(r) =>
       \E n \in 1 .. Len(jobs) : n < i /\ runner[r].job = jobs[n]
  /\ \A r, q \in Runner :
       InRunJob(r) /\ InRunJob(q) /\ runner[r].job = runner[q].job => r = q

\* The status of a job while a goroutine holds it.
Held ==
  \A r \in Runner :
    /\ runner[r].pc = "begin" => st[runner[r].job] \in {"queued", "skipped"}
    /\ runner[r].pc = "run" => st[runner[r].job] = "prepare"
    /\ runner[r].pc \in {"save", "end"} =>
         st[runner[r].job] \notin {"queued", "prepare"}

Busy == {s \in Slot : InRunJob(s)}

\* The WaitGroup counts the goroutines inside runJob, and the job on offer.
Counted == wg = Cardinality(Busy) + (IF pc = "send" THEN 1 ELSE 0)

Untouched(j) == st[j] \in {"queued", "skipped"} /\ saved[j] = "none"

\* The jobs of earlier batches have succeeded, those handed out in this batch are
\* held or have ended, and all others are as they were created.
Progress ==
  /\ pc = "start" => \A j \in Job : Untouched(j)
  /\ \A k \in 1 .. Len(steps) : \A n \in 1 .. Len(steps[k].jobs) :
       /\ k < b => isJobSuccessStatus(st[steps[k].jobs[n]])
       /\ k > b => Untouched(steps[k].jobs[n])
       /\ k = b /\ (pc = "batch" \/ (InBatch /\ n >= i)) => Untouched(steps[k].jobs[n])
       /\ k = b /\ InBatch /\ n < i =>
            \/ st[steps[k].jobs[n]] \notin {"queued", "prepare"}
            \/ \E r \in Runner : InRunJob(r) /\ runner[r].job = steps[k].jobs[n]
  /\ pc = "failed" => \E n \in 1 .. Len(jobs) : ~isJobSuccessStatus(st[jobs[n]])

\* A job handed out late leaves the producer at the head of its loop, where it
\* meets the ended context.
LateOnce ==
  \/ late = 0
  \/ late = 1 /\ pc \in {"produce", "wait"} /\ stopOnFailure /\ ~PoolCtxLive
  \/ late = 1 /\ pc \in {"check", "batch", "completed", "failed"}

IInv == TypeOK /\ Place /\ Goroutines /\ Held /\ Counted /\ Progress /\ LateOnce

-----------------------------------------------------------------------------
(***************************************************************************)
(* The plan.                                                               *)
(***************************************************************************)
\* A batch of a workflow has the types of a batch, and at least one job.
LEMMA PlanType ==
  ASSUME NEW p \in Plans, NEW k \in 1 .. Len(p)
  PROVE  /\ p[k].jobs \in Seq(Job)
         /\ Len(p[k].jobs) \in Nat
         /\ Len(p[k].jobs) >= 1
         /\ \A n \in 1 .. Len(p[k].jobs) : p[k].jobs[n] \in Job
         /\ p[k].parallel \in BOOLEAN
<1>1. p \in Seq(Batch) /\ Len(p[k].jobs) \in Slot
  BY RunAssumption
<1>2. p[k] \in Batch
  BY <1>1
<1>3. p[k].jobs \in Seq(Job) /\ p[k].parallel \in BOOLEAN
  BY <1>2 DEF Batch
<1>4. QED
  BY <1>1, <1>3, RunAssumption DEF Slot

\* The same of a batch of the steps: GenerateJobTasks returns the plan or nothing.
LEMMA BatchType ==
  ASSUME TypeOK, NEW k \in 1 .. Len(steps)
  PROVE  /\ steps[k].jobs \in Seq(Job)
         /\ Len(steps[k].jobs) \in Nat
         /\ Len(steps[k].jobs) >= 1
         /\ \A n \in 1 .. Len(steps[k].jobs) : steps[k].jobs[n] \in Job
         /\ steps[k].parallel \in BOOLEAN
<1>1. steps = plan /\ plan \in Plans
  BY DEF TypeOK
<1>2. QED
  BY <1>1, PlanType

\* The steps are a sequence of batches.
LEMMA StepsType ==
  ASSUME TypeOK
  PROVE  steps \in Seq(Batch) /\ Len(steps) \in Nat
<1>1. plan \in Seq(Batch)
  BY RunAssumption DEF TypeOK
<1>2. steps = <<>> \/ steps = plan
  BY DEF TypeOK
<1>3. <<>> \in Seq(Batch)
  OBVIOUS
<1>4. steps \in Seq(Batch)
  BY <1>1, <1>2, <1>3
<1>5. QED
  BY <1>4

\* Every place of the plan has a job of its own.
LEMMA OwnJob ==
  ASSUME TypeOK,
         NEW k \in 1 .. Len(steps), NEW l \in 1 .. Len(steps),
         NEW m \in 1 .. Len(steps[k].jobs), NEW n \in 1 .. Len(steps[l].jobs),
         steps[k].jobs[m] = steps[l].jobs[n]
  PROVE  k = l /\ m = n
<1>1. steps = plan /\ plan \in Plans
  BY DEF TypeOK
<1>2. QED
  BY <1>1, RunAssumption

\* What a goroutine that runs jobs is made of.
RunnerState ==
  [pc : {"off", "recv", "begin", "run", "save", "end"}, job : Job \cup {NoJob}]

\* A goroutine that is handed a job begins it, and no other is disturbed.
LEMMA HandOut ==
  ASSUME NEW r \in Runner, NEW j \in Job,
         runner \in [Runner -> RunnerState],
         runner' = [runner EXCEPT ![r] = [Off EXCEPT !.pc = "begin", !.job = j]]
  PROVE  /\ runner' \in [Runner -> RunnerState]
         /\ runner'[r].pc = "begin" /\ runner'[r].job = j
         /\ \A q \in Runner : q # r => runner'[q] = runner[q]
BY DEF Off, RunnerState

\* What a step inside runJob may change: only the status and the record of the
\* job the goroutine holds, which it goes on holding.
LEMMA RunJobStep ==
  ASSUME TypeOK, Held, NEW r \in Runner, RunJob(r)
  PROVE  /\ UNCHANGED <<plan, steps, limit, pc, b, i, wg, outer, pool, late>>
         /\ InRunJob(r) /\ InRunJob(r)'
         /\ runner' \in [Runner -> RunnerState]
         /\ \A q \in Runner : runner'[q].job = runner[q].job
         /\ \A q \in Runner : q # r => runner'[q] = runner[q]
         /\ st' \in [Job -> JobStatus] /\ saved' \in [Job -> JobStatus \cup {"none"}]
         /\ \A j \in Job : j # runner[r].job => st'[j] = st[j] /\ saved'[j] = saved[j]
         /\ runner[r].job \in Job =>
              /\ runner'[r].pc = "run" => st'[runner[r].job] = "prepare"
              /\ runner'[r].pc \in {"save", "end"} =>
                   st'[runner[r].job] \notin {"queued", "prepare"}
         /\ runner'[r].pc \in {"run", "save", "end"}
<1> USE DEF TypeOK, InRunJob, JobStatus, RunnerState
<1>1. CASE RunSkipped(r)
  BY <1>1 DEF RunSkipped, SaveInfo
<1>2. CASE PrepareJob(r)
  BY <1>2 DEF PrepareJob
<1>3. CASE RecordJob(r)
  BY <1>3 DEF RecordJob, SaveInfo, Held
<1>4. ASSUME NEW o \in {"completed", "failed", "cancelled"}, FinishJob(r, o)
      PROVE  /\ UNCHANGED <<plan, steps, limit, pc, b, i, wg, outer, pool, late>>
             /\ runner[r].pc = "run"
             /\ runner' = [runner EXCEPT ![r].pc = "save"]
             /\ st' = [st EXCEPT ![runner[r].job] = o]
             /\ saved' = saved
  BY <1>4 DEF FinishJob
<1>5. QED
  BY <1>1, <1>2, <1>3, <1>4 DEF RunJob

\* The number of goroutines inside runJob is a number, and zero only if there is
\* none.
LEMMA BusyFinite ==
  /\ IsFiniteSet(Slot)
  /\ \A S \in SUBSET Slot :
       /\ IsFiniteSet(S) /\ Cardinality(S) \in Nat
       /\ Cardinality(S) = 0 <=> S = {}
       /\ \A s \in S : Cardinality(S \ {s}) = Cardinality(S) - 1
       /\ \A s \in Slot \ S : Cardinality(S \cup {s}) = Cardinality(S) + 1
<1>1. IsFiniteSet(Slot)
  BY RunAssumption, FS_Interval DEF Slot
<1>2. ASSUME NEW S \in SUBSET Slot
      PROVE  /\ IsFiniteSet(S) /\ Cardinality(S) \in Nat
             /\ Cardinality(S) = 0 <=> S = {}
  BY <1>1, FS_Subset, FS_CardinalityType, FS_EmptySet
<1>3. ASSUME NEW S \in SUBSET Slot, NEW s \in S
      PROVE  Cardinality(S \ {s}) = Cardinality(S) - 1
  BY <1>2, <1>3, FS_RemoveElement
<1>4. ASSUME NEW S \in SUBSET Slot, NEW s \in Slot \ S
      PROVE  Cardinality(S \cup {s}) = Cardinality(S) + 1
  BY <1>2, <1>4, FS_AddElement
<1>5. QED
  BY <1>1, <1>2, <1>3, <1>4

-----------------------------------------------------------------------------
(***************************************************************************)
(* Each part of the invariant is kept by every step.                       *)
(***************************************************************************)
\* The run begins before its first batch, with no goroutine and no job started.
LEMMA InitInv == Init => IInv
<1> SUFFICES ASSUME Init PROVE IInv
  OBVIOUS
<1> USE RunAssumption
<1>1. outer \in BOOLEAN /\ pool \in BOOLEAN
  BY Zenon DEF Init
<1>2. PICK ignored \in Ignored :
        st = [j \in Job |-> IF j \in ignored THEN "skipped" ELSE "queued"]
  BY DEF Init
<1>3. st \in [Job -> JobStatus] /\ saved \in [Job -> JobStatus \cup {"none"}]
      /\ \A j \in Job : Untouched(j)
  BY <1>2 DEF Init, JobStatus, Untouched
<1>4. TypeOK
  BY <1>1, <1>3 DEF Init, TypeOK, Off
<1>5. Place
  BY DEF Init, Place, InBatch, Pooling
<1>6. Goroutines /\ Held
  BY DEF Init, Goroutines, Held, InRunJob, Off
<1>7. Busy = {}
  BY DEF Init, Busy, InRunJob, Off, Runner
<1>8. Counted
  BY <1>7, BusyFinite DEF Init, Counted
<1>9. Progress /\ LateOnce
  BY <1>3 DEF Init, Progress, LateOnce
<1>10. QED
  BY <1>4, <1>5, <1>6, <1>8, <1>9 DEF IInv

\* The WaitGroup follows the goroutines: Produce adds the job on offer, Send hands
\* it to a goroutine, Work takes it off.
LEMMA CountedStep ==
  ASSUME IInv, [Next]_vars
  PROVE  Counted' /\ wg' \in Nat
<1> USE BusyFinite, RunAssumption DEF IInv, Counted, TypeOK
<1>0. Busy \in SUBSET Slot /\ Slot \subseteq Runner /\ Main \notin Slot
      /\ Main \in Runner
  BY DEF Busy, Runner
<1>1. CASE GenerateJobTasks \/ Check \/ updateWorkflowStatus \/ CancelOuter
           \/ UNCHANGED vars
  <2>1. runner' = runner /\ wg' = wg /\ (pc = "send" <=> pc' = "send")
    BY <1>1 DEF GenerateJobTasks, Check, updateWorkflowStatus, CancelOuter, vars
  <2>2. Busy' = Busy
    BY <2>1 DEF Busy, InRunJob
  <2>3. QED
    BY <2>1, <2>2, <1>0
<1>2. CASE RunJobs
  <2>1. Busy = {} /\ Busy' = {}
    BY <1>2, <1>0 DEF RunJobs, Busy, InRunJob, Off, Goroutines, Pooling
  <2>2. QED
    BY <2>1, <1>2 DEF RunJobs
<1>3. CASE RunSequential \/ MainReturns
  <2>0. \A s \in Slot : runner'[s] = runner[s]
    BY <1>3, <1>0 DEF RunSequential, MainReturns
  <2>1. Busy' = Busy
    BY <2>0 DEF Busy, InRunJob
  <2>2. wg' = wg /\ (pc = "send" <=> pc' = "send")
    BY <1>3 DEF RunSequential, MainReturns
  <2>3. QED
    BY <2>1, <2>2, <1>0
<1>4. CASE Produce
  <2>1. Busy' = Busy
    BY <1>4 DEF Produce, Busy, InRunJob
  <2>2. QED
    BY <2>1, <1>4, <1>0 DEF Produce
<1>5. ASSUME NEW s \in Slot, Send(s)
      PROVE  Counted' /\ wg' \in Nat
  <2>1. s \notin Busy
    BY <1>5 DEF Send, Busy, InRunJob
  <2>2. Busy' = Busy \cup {s}
    BY <1>5, <1>0 DEF Send, Busy, InRunJob, Off
  <2>3. Cardinality(Busy') = Cardinality(Busy) + 1
    BY <1>0, <1>5, <2>1, <2>2
  <2>4. wg' = wg /\ pc = "send" /\ pc' # "send"
    BY <1>5 DEF Send
  <2>5. QED
    BY <2>3, <2>4
<1>6. CASE PoolReturn
  <2>1. Busy' = Busy
    BY <1>6, <1>0 DEF PoolReturn, Busy, InRunJob, Off
  <2>2. QED
    BY <2>1, <1>0, <1>6 DEF PoolReturn
<1>7. ASSUME NEW s \in Slot, Work(s)
      PROVE  Counted' /\ wg' \in Nat
  <2>1. s \in Busy
    BY <1>7 DEF Work, Busy, InRunJob
  <2>2. Busy' = Busy \ {s}
    BY <1>7, <1>0 DEF Work, Busy, InRunJob, Off
  <2>3. Cardinality(Busy) \in Nat /\ Cardinality(Busy) # 0
        /\ Cardinality(Busy') = Cardinality(Busy) - 1
    BY <2>1, <2>2, <1>0
  <2>4. wg' = wg - 1 /\ pc' = pc
    BY <1>7 DEF Work
  <2>5. QED
    BY <2>3, <2>4
<1>8. ASSUME NEW r \in Runner, RunJob(r)
      PROVE  Counted' /\ wg' \in Nat
  <2>1. /\ UNCHANGED <<pc, wg>>
        /\ InRunJob(r) /\ InRunJob(r)'
        /\ \A q \in Runner : q # r => runner'[q] = runner[q]
    BY <1>8, RunJobStep
  <2>2. Busy' = Busy
    BY <2>1, <1>0 DEF Busy, InRunJob
  <2>3. QED
    BY <2>1, <2>2, <1>0
<1>9. CASE Returned
  BY <1>9, <1>1 DEF Returned
<1>10. QED
  BY <1>1, <1>2, <1>3, <1>4, <1>5, <1>6, <1>7, <1>8, <1>9 DEF Next, Controller

\* Every step keeps the types.
LEMMA TypeStep ==
  ASSUME IInv, [Next]_vars
  PROVE  TypeOK'
<1>0. wg' \in Nat
  BY CountedStep
<1> USE <1>0 DEF IInv, TypeOK
<1>1. CASE GenerateJobTasks
  BY <1>1 DEF GenerateJobTasks
<1>2. CASE RunJobs
  <2>1. runner' \in [Runner -> RunnerState]
    BY <1>2 DEF RunJobs, Off, RunnerState
  <2>2. pool' \in BOOLEAN
    BY <1>2, Zenon DEF RunJobs
  <2>3. QED
    BY <2>1, <2>2, <1>2 DEF RunJobs, RunnerState
<1>3. CASE RunSequential
  <2>1. b \in 1 .. Len(steps) /\ i >= 1
    BY <1>3, StepsType DEF RunSequential, Place, InBatch
  <2>2. Len(jobs) \in Nat /\ \A n \in 1 .. Len(jobs) : jobs[n] \in Job
    BY <2>1, BatchType DEF jobs
  <2>3. CASE i > Len(jobs) \/ (i > 1 /\ jobStatusFailed(st[jobs[i - 1]]))
    BY <2>3, <1>3 DEF RunSequential
  <2>4. CASE ~(i > Len(jobs) \/ (i > 1 /\ jobStatusFailed(st[jobs[i - 1]])))
    <3>0. ~(i > Len(jobs)) /\ i \in Nat
      BY <2>4
    <3>1. i \in 1 .. Len(jobs)
      BY <2>1, <2>2, <3>0
    <3>2. runner' = [runner EXCEPT ![Main] = [Off EXCEPT !.pc = "begin",
                                                         !.job = jobs[i]]]
      BY <2>4, <1>3 DEF RunSequential
    <3>3. runner' \in [Runner -> RunnerState]
      BY <2>2, <3>1, <3>2, HandOut DEF Runner, RunnerState
    <3>4. QED
      BY <3>3, <2>4, <1>3 DEF RunSequential, RunnerState
  <2>5. QED
    BY <2>3, <2>4
<1>4. CASE Produce
  BY <1>4 DEF Produce
<1>5. ASSUME NEW s \in Slot, Send(s)
      PROVE  TypeOK'
  <2>1. b \in 1 .. Len(steps) /\ i >= 1 /\ i <= Len(jobs)
    BY <1>5, StepsType DEF Send, Place, InBatch, Pooling
  <2>2. jobs[i] \in Job
    BY <2>1, BatchType DEF jobs
  <2>3. runner' = [runner EXCEPT ![s] = [Off EXCEPT !.pc = "begin", !.job = jobs[i]]]
    BY <1>5 DEF Send
  <2>4. runner' \in [Runner -> RunnerState]
    BY <2>2, <2>3, HandOut DEF Runner, RunnerState
  <2>5. QED
    BY <2>4, <1>5 DEF Send, RunnerState
<1>6. CASE PoolReturn
  <2>1. pool' \in BOOLEAN
    BY <1>6, Zenon DEF PoolReturn
  <2>2. QED
    BY <2>1, <1>6 DEF PoolReturn, Off
<1>7. CASE Check \/ updateWorkflowStatus
  BY <1>7 DEF Check, updateWorkflowStatus
<1>8. CASE MainReturns
  BY <1>8 DEF MainReturns, Off
<1>9. CASE CancelOuter
  <2>1. outer' \in BOOLEAN
    BY <1>9, Zenon DEF CancelOuter
  <2>2. QED
    BY <2>1, <1>9 DEF CancelOuter
<1>10. ASSUME NEW s \in Slot, Work(s)
       PROVE  TypeOK'
  <2>1. pool' \in BOOLEAN
    BY <1>10, Zenon DEF Work
  <2>2. QED
    BY <2>1, <1>10 DEF Work, Off
<1>11. ASSUME NEW r \in Runner, RunJob(r)
       PROVE  TypeOK'
  BY <1>11, RunJobStep DEF RunnerState
<1>12. CASE UNCHANGED vars \/ Returned
  BY <1>12 DEF vars, Returned
<1>13. QED
  BY <1>1, <1>2, <1>3, <1>4, <1>5, <1>6, <1>7, <1>8, <1>9, <1>10, <1>11, <1>12
     DEF Next, Controller

\* The controller stays within its plan, and leaves a parallel batch only at its
\* end: neither an ended context nor a failure breaks off its producer.
LEMMA PlaceStep ==
  ASSUME IInv, [Next]_vars
  PROVE  Place'
<1> USE StepsType DEF IInv, TypeOK, Place, InBatch, Pooling, jobs
<1>1. CASE GenerateJobTasks
  BY <1>1 DEF GenerateJobTasks
<1>2. CASE RunJobs
  <2>1. b \in 1 .. Len(steps)
    BY <1>2 DEF RunJobs
  <2>2. Len(jobs) \in Nat /\ Len(jobs) >= 1
    BY <2>1, BatchType
  <2>3. determineStepConcurrency = 1 /\ steps[b].parallel => Len(jobs) = 1
    BY <2>2 DEF determineStepConcurrency
  <2>4. QED
    BY <2>1, <2>2, <2>3, <1>2 DEF RunJobs
<1>3. CASE RunSequential
  <2>1. b \in 1 .. Len(steps)
    BY <1>3 DEF RunSequential
  <2>2. Len(jobs) \in Nat
    BY <2>1, BatchType
  <2>3. UNCHANGED <<steps, b>> /\ pc = "seq"
    BY <1>3 DEF RunSequential
  <2>4. CASE i > Len(jobs) \/ (i > 1 /\ jobStatusFailed(st[jobs[i - 1]]))
    <3>1. pc' = "check" /\ i' = i
      BY <2>4, <1>3 DEF RunSequential
    <3>2. steps[b].parallel => i > Len(jobs)
      BY <2>2, <2>3, <2>4
    <3>3. QED
      BY <2>1, <2>2, <2>3, <3>1, <3>2
  <2>5. CASE ~(i > Len(jobs) \/ (i > 1 /\ jobStatusFailed(st[jobs[i - 1]])))
    <3>1. pc' = "seq" /\ i' = i + 1
      BY <2>5, <1>3 DEF RunSequential
    <3>2. QED
      BY <2>1, <2>2, <2>3, <2>5, <3>1
  <2>6. QED
    BY <2>4, <2>5
<1>4. CASE Produce
  <2>1. b \in 1 .. Len(steps)
    BY <1>4 DEF Produce
  <2>2. Len(jobs) \in Nat
    BY <2>1, BatchType
  <2>3. QED
    BY <2>1, <2>2, <1>4 DEF Produce, stopOnFailure
<1>5. ASSUME NEW s \in Slot, Send(s)
      PROVE  Place'
  <2>1. b \in 1 .. Len(steps)
    BY <1>5 DEF Send
  <2>2. Len(jobs) \in Nat
    BY <2>1, BatchType
  <2>3. QED
    BY <2>1, <2>2, <1>5 DEF Send
<1>6. CASE PoolReturn
  BY <1>6 DEF PoolReturn
<1>7. CASE Check \/ updateWorkflowStatus
  BY <1>7 DEF Check, updateWorkflowStatus
<1>8. CASE MainReturns \/ CancelOuter
  BY <1>8 DEF MainReturns, CancelOuter
<1>9. ASSUME NEW s \in Slot, Work(s)
      PROVE  Place'
  BY <1>9 DEF Work
<1>10. ASSUME NEW r \in Runner, RunJob(r)
       PROVE  Place'
  BY <1>10, RunJobStep
<1>11. CASE UNCHANGED vars \/ Returned
  BY <1>11 DEF vars, Returned
<1>12. QED
  BY <1>1, <1>2, <1>3, <1>4, <1>5, <1>6, <1>7, <1>8, <1>9, <1>10, <1>11
     DEF Next, Controller

\* A job handed out after the pool's context ended is the last one: the context
\* does not come back to life before the pool returns.
LEMMA LateStep ==
  ASSUME IInv, [Next]_vars
  PROVE  LateOnce'
<1> USE DEF IInv, TypeOK, LateOnce, stopOnFailure, PoolCtxLive
<1>1. CASE GenerateJobTasks \/ RunJobs \/ RunSequential \/ Check
           \/ updateWorkflowStatus
  BY <1>1 DEF GenerateJobTasks, RunJobs, RunSequential, Check, updateWorkflowStatus
<1>2. CASE Produce \/ PoolReturn
  BY <1>2 DEF Produce, PoolReturn
<1>3. ASSUME NEW s \in Slot, Send(s)
      PROVE  LateOnce'
  BY <1>3 DEF Send
<1>4. CASE MainReturns \/ CancelOuter
  BY <1>4 DEF MainReturns, CancelOuter
<1>5. ASSUME NEW s \in Slot, Work(s)
      PROVE  LateOnce'
  BY <1>5 DEF Work
<1>6. ASSUME NEW r \in Runner, RunJob(r)
      PROVE  LateOnce'
  BY <1>6, RunJobStep
<1>7. CASE UNCHANGED vars \/ Returned
  BY <1>7 DEF vars, Returned
<1>8. QED
  BY <1>1, <1>2, <1>3, <1>4, <1>5, <1>6, <1>7 DEF Next, Controller

\* When wg.Wait returns no goroutine is inside runJob.
LEMMA NobodyBusy ==
  ASSUME IInv, pc \notin {"seq", "produce", "send"}, pc = "wait" => wg = 0
  PROVE  \A r \in Runner : ~InRunJob(r)
<1>1. CASE pc = "wait"
  <2>1. Cardinality(Busy) = 0
    BY <1>1, BusyFinite DEF IInv, Counted, Busy
  <2>2. Busy = {}
    BY <2>1, BusyFinite DEF Busy
  <2>3. Main \in Runner /\ Main \notin Slot
    BY RunAssumption DEF Runner
  <2>4. ~InRunJob(Main)
    BY <1>1, <2>3 DEF IInv, Goroutines, InRunJob
  <2>5. QED
    BY <2>2, <2>4 DEF Busy, Runner
<1>2. CASE pc # "wait"
  BY <1>2 DEF IInv, Goroutines, InRunJob, Pooling
<1>3. QED
  BY <1>1, <1>2

\* The goroutines hold different jobs, all of the batch being run, and none lives
\* on when the batch is judged.
LEMMA GoroutinesStep ==
  ASSUME IInv, [Next]_vars
  PROVE  Goroutines'
<1>0. Slot \subseteq Runner /\ Main \in Runner /\ Main \notin Slot
  BY RunAssumption DEF Runner
<1>a. runner \in [Runner -> RunnerState] /\ i \in Nat
  BY DEF IInv, TypeOK, RunnerState
<1>1. CASE GenerateJobTasks \/ Check \/ updateWorkflowStatus
  <2>1. runner' = runner /\ \A r \in Runner : runner[r].pc = "off"
    BY <1>1 DEF GenerateJobTasks, Check, updateWorkflowStatus, IInv, Goroutines, Pooling
  <2>2. QED
    BY <2>1 DEF Goroutines, InRunJob
<1>2. CASE CancelOuter \/ Produce \/ UNCHANGED vars \/ Returned
  <2>1. UNCHANGED <<runner, steps, b, i>> /\ (pc' = pc \/ (Pooling /\ Pooling'))
    BY <1>2 DEF CancelOuter, Produce, vars, Returned, Pooling
  <2>2. QED
    BY <2>1 DEF IInv, Goroutines, InRunJob, jobs, Pooling
<1>3. CASE RunJobs
  <2>1. \A r \in Runner : runner[r].pc = "off"
    BY <1>3 DEF RunJobs, IInv, Goroutines, Pooling
  <2>2. \A r \in Runner : ~InRunJob(r)'
    BY <1>3, <2>1 DEF RunJobs, InRunJob, Off
  <2>3. \A r \in Runner : runner'[r].pc # "off" => r \in Slot /\ Pooling'
    BY <1>3, <2>1 DEF RunJobs, Off, Pooling
  <2>4. QED
    BY <2>2, <2>3 DEF Goroutines
<1>4. ASSUME NEW r \in Runner, runner[r].pc \in {"off", "recv"},
             i \in 1 .. Len(jobs), jobs \in Seq(Job), i' = i + 1,
             UNCHANGED <<steps, b>>,
             (r = Main /\ pc' = "seq" /\ pc = "seq") \/ (r \in Slot /\ Pooling /\ Pooling'),
             runner' = [runner EXCEPT ![r] = [Off EXCEPT !.pc = "begin", !.job = jobs[i]]],
             b \in 1 .. Len(steps)
      PROVE  Goroutines'
  <2>1. jobs[i] \in Job /\ jobs' = jobs
    BY <1>4 DEF jobs
  <2>2. /\ runner'[r].pc = "begin" /\ runner'[r].job = jobs[i]
        /\ \A q \in Runner : q # r => runner'[q] = runner[q]
    BY <1>a, <1>4, <2>1, HandOut
  <2>3. \A q \in Runner : InRunJob(q) =>
          \E n \in 1 .. Len(jobs) : n < i /\ runner[q].job = jobs[n]
    BY DEF IInv, Goroutines
  <2>4. \A q \in Runner : InRunJob(q) => runner[q].job # jobs[i]
    BY <2>3, <1>4, OwnJob DEF IInv, jobs
  <2>5. \A q \in Runner : q # r => (InRunJob(q)' <=> InRunJob(q))
    BY <2>2 DEF InRunJob
  <2>6. ASSUME NEW q \in Runner, InRunJob(q)'
        PROVE  \E n \in 1 .. Len(jobs) : n < i + 1 /\ runner'[q].job = jobs[n]
    <3>1. CASE q = r
      BY <3>1, <2>2, <1>4
    <3>2. CASE q # r
      <4>1. PICK n \in 1 .. Len(jobs) : n < i /\ runner[q].job = jobs[n]
        BY <3>2, <2>3, <2>5, <2>6
      <4>2. n < i + 1
        BY <4>1, <1>a
      <4>3. QED
        BY <4>1, <4>2, <3>2, <2>2
    <3>3. QED
      BY <3>1, <3>2
  <2>7. ASSUME NEW q \in Runner, NEW p \in Runner, InRunJob(q)', InRunJob(p)',
               runner'[q].job = runner'[p].job
        PROVE  q = p
    BY <2>2, <2>4, <2>5, <2>7 DEF IInv, Goroutines
  <2>8. ASSUME NEW q \in Runner, runner'[q].pc # "off"
        PROVE  (q = Main /\ pc' = "seq") \/ (q \in Slot /\ Pooling')
    BY <2>2, <2>8, <1>4, <1>0 DEF IInv, Goroutines, Pooling
  <2>9. QED
    BY <2>1, <2>6, <2>7, <2>8, <1>4 DEF Goroutines
<1>5. CASE RunSequential
  <2>1. b \in 1 .. Len(steps)
    BY <1>5, StepsType DEF RunSequential, IInv, TypeOK, Place, InBatch
  <2>2. jobs \in Seq(Job) /\ Len(jobs) \in Nat
    BY <2>1, BatchType DEF IInv, jobs
  <2>3. CASE i > Len(jobs) \/ (i > 1 /\ jobStatusFailed(st[jobs[i - 1]]))
    <3>1. runner' = runner /\ pc = "seq" /\ runner[Main].pc = "off"
      BY <2>3, <1>5 DEF RunSequential
    <3>2. \A r \in Runner : runner[r].pc = "off"
      BY <3>1 DEF IInv, Goroutines, Pooling
    <3>3. QED
      BY <3>1, <3>2 DEF Goroutines, InRunJob
  <2>4. CASE ~(i > Len(jobs) \/ (i > 1 /\ jobStatusFailed(st[jobs[i - 1]])))
    <3>1. i \in 1 .. Len(jobs)
      BY <2>2, <2>4, <1>a DEF IInv, Place
    <3>2. QED
      BY <3>1, <2>1, <2>2, <2>4, <1>4, <1>5, <1>0 DEF RunSequential
  <2>5. QED
    BY <2>3, <2>4
<1>6. ASSUME NEW s \in Slot, Send(s)
      PROVE  Goroutines'
  <2>1. b \in 1 .. Len(steps)
    BY <1>6, StepsType DEF Send, IInv, TypeOK, Place, InBatch, Pooling
  <2>2. jobs \in Seq(Job) /\ Len(jobs) \in Nat
    BY <2>1, BatchType DEF IInv, jobs
  <2>3. i \in 1 .. Len(jobs)
    BY <2>2, <1>6, <1>a DEF IInv, Place, Send
  <2>4. QED
    BY <2>1, <2>2, <2>3, <1>4, <1>6, <1>0 DEF Send, Pooling
<1>7. CASE PoolReturn
  <2>1. \A r \in Runner : ~InRunJob(r)
    BY <1>7, NobodyBusy DEF PoolReturn
  <2>2. \A r \in Runner : runner[r].pc \in {"off", "recv"}
    BY <2>1, <1>a DEF InRunJob, RunnerState
  <2>3. \A r \in Runner : runner'[r].pc = "off"
    BY <2>2, <1>7 DEF PoolReturn, Off
  <2>4. QED
    BY <2>3 DEF Goroutines, InRunJob
<1>8. CASE MainReturns
  <2>1. UNCHANGED <<steps, b, i, pc>> /\ runner'[Main].pc = "off"
        /\ \A q \in Runner : q # Main => runner'[q] = runner[q]
    BY <1>8, <1>a, <1>0 DEF MainReturns, Off
  <2>2. QED
    BY <2>1 DEF IInv, Goroutines, InRunJob, jobs, Pooling
<1>9. ASSUME NEW s \in Slot, Work(s)
      PROVE  Goroutines'
  <2>1. UNCHANGED <<steps, b, i, pc>> /\ runner'[s].pc = "recv" /\ runner[s].pc = "end"
        /\ \A q \in Runner : q # s => runner'[q] = runner[q]
    BY <1>9, <1>a, <1>0 DEF Work, Off
  <2>2. QED
    BY <2>1, <1>0 DEF IInv, Goroutines, InRunJob, jobs, Pooling
<1>10. ASSUME NEW r \in Runner, RunJob(r)
       PROVE  Goroutines'
  <2>1. /\ UNCHANGED <<steps, b, i, pc>>
        /\ InRunJob(r)
        /\ \A q \in Runner : runner'[q].job = runner[q].job
        /\ \A q \in Runner : q # r => runner'[q] = runner[q]
    BY <1>10, RunJobStep DEF IInv
  <2>2. \A q \in Runner : /\ InRunJob(q)' => InRunJob(q)
                          /\ runner'[q].pc # "off" => runner[q].pc # "off"
    BY <2>1 DEF InRunJob
  <2>3. QED
    BY <2>1, <2>2 DEF IInv, Goroutines, jobs, Pooling
<1>11. QED
  BY <1>1, <1>2, <1>3, <1>5, <1>6, <1>7, <1>8, <1>9, <1>10 DEF Next, Controller

\* A goroutine inside runJob holds a job that was handed out in this batch.
LEMMA HeldJob ==
  ASSUME IInv, NEW r \in Runner, InRunJob(r)
  PROVE  /\ pc = "seq" \/ Pooling
         /\ b \in 1 .. Len(steps)
         /\ runner[r].job \in Job
         /\ \E n \in 1 .. Len(steps[b].jobs) : n < i /\ runner[r].job = steps[b].jobs[n]
<1>1. pc = "seq" \/ Pooling
  BY DEF IInv, Goroutines, InRunJob
<1>2. b \in 1 .. Len(steps)
  BY <1>1, StepsType DEF IInv, TypeOK, Place, InBatch
<1>3. \E n \in 1 .. Len(steps[b].jobs) : n < i /\ runner[r].job = steps[b].jobs[n]
  BY DEF IInv, Goroutines, jobs
<1>4. runner[r].job \in Job
  BY <1>2, <1>3, BatchType DEF IInv
<1>5. QED
  BY <1>1, <1>2, <1>3, <1>4

\* The job handed out next is one of the batch, and nobody has touched it.
LEMMA NextJob ==
  ASSUME IInv, InBatch, i <= Len(jobs)
  PROVE  /\ b \in 1 .. Len(steps)
         /\ i \in 1 .. Len(jobs)
         /\ jobs[i] \in Job
         /\ Untouched(jobs[i])
<1>1. b \in 1 .. Len(steps)
  BY StepsType DEF IInv, TypeOK, Place
<1>2. i \in 1 .. Len(jobs)
  BY <1>1, BatchType DEF IInv, TypeOK, Place, jobs
<1>3. jobs[i] \in Job
  BY <1>1, <1>2, BatchType DEF IInv, jobs
<1>4. Untouched(jobs[i])
  BY <1>1, <1>2 DEF IInv, Progress, jobs
<1>5. QED
  BY <1>1, <1>2, <1>3, <1>4

\* What the sequential loop and the rendezvous on jobsChan have in common: the next
\* job of the batch is handed to a goroutine that has none.
HandsOut(r) ==
  /\ InBatch /\ InBatch'
  /\ i <= Len(jobs)
  /\ runner' = [runner EXCEPT ![r] = [Off EXCEPT !.pc = "begin", !.job = jobs[i]]]
  /\ i' = i + 1
  /\ ~InRunJob(r)
  /\ UNCHANGED <<steps, b, st, saved>>

\* The status of a job is what the goroutine that holds it last wrote: no other
\* goroutine holds the same JobTask.
LEMMA HeldStep ==
  ASSUME IInv, [Next]_vars
  PROVE  Held'
<1>0. Slot \subseteq Runner /\ Main \in Runner /\ Main \notin Slot
  BY RunAssumption DEF Runner
<1>a. runner \in [Runner -> RunnerState] /\ i \in Nat
  BY DEF IInv, TypeOK, RunnerState
<1>1. CASE UNCHANGED <<runner, st>>
  BY <1>1 DEF IInv, Held
<1>2. CASE RunJobs
  <2>1. \A r \in Runner : runner[r].pc = "off"
    BY <1>2 DEF RunJobs, IInv, Goroutines, Pooling
  <2>2. \A r \in Runner : runner'[r].pc \in {"off", "recv"}
    BY <1>2, <2>1 DEF RunJobs, Off
  <2>3. QED
    BY <2>2 DEF Held
<1>3. ASSUME NEW r \in Runner, HandsOut(r)
      PROVE  Held'
  <2>1. jobs[i] \in Job /\ st[jobs[i]] \in {"queued", "skipped"}
    BY <1>3, NextJob DEF HandsOut, Untouched
  <2>2. /\ runner'[r].pc = "begin" /\ runner'[r].job = jobs[i]
        /\ \A q \in Runner : q # r => runner'[q] = runner[q]
    BY <1>a, <1>3, <2>1, HandOut DEF HandsOut
  <2>3. QED
    BY <1>3, <2>1, <2>2 DEF HandsOut, IInv, Held
<1>4. CASE PoolReturn
  <2>1. \A r \in Runner : runner'[r].pc = "off" \/ runner'[r] = runner[r]
    BY <1>4 DEF PoolReturn, Off
  <2>2. st' = st
    BY <1>4 DEF PoolReturn
  <2>3. QED
    BY <2>1, <2>2 DEF IInv, Held
<1>5. CASE MainReturns
  <2>1. st' = st /\ runner'[Main].pc = "off"
        /\ \A q \in Runner : q # Main => runner'[q] = runner[q]
    BY <1>5, <1>a, <1>0 DEF MainReturns, Off
  <2>2. QED
    BY <2>1 DEF IInv, Held
<1>6. ASSUME NEW s \in Slot, Work(s)
      PROVE  Held'
  <2>1. st' = st /\ runner'[s].pc = "recv"
        /\ \A q \in Runner : q # s => runner'[q] = runner[q]
    BY <1>6, <1>a, <1>0 DEF Work, Off
  <2>2. QED
    BY <2>1 DEF IInv, Held
<1>7. ASSUME NEW r \in Runner, RunJob(r)
      PROVE  Held'
  <2>1. /\ InRunJob(r)
        /\ \A q \in Runner : runner'[q].job = runner[q].job
        /\ \A q \in Runner : q # r => runner'[q] = runner[q]
        /\ \A j \in Job : j # runner[r].job => st'[j] = st[j]
        /\ runner[r].job \in Job =>
             /\ runner'[r].pc = "run" => st'[runner[r].job] = "prepare"
             /\ runner'[r].pc \in {"save", "end"} =>
                  st'[runner[r].job] \notin {"queued", "prepare"}
        /\ runner'[r].pc \in {"run", "save", "end"}
    BY <1>7, RunJobStep DEF IInv
  <2>2. runner[r].job \in Job
    BY <2>1, HeldJob
  <2>3. \A q \in Runner : q # r /\ InRunJob(q) => st'[runner[q].job] = st[runner[q].job]
    BY <2>1, HeldJob DEF IInv, Goroutines
  <2>4. QED
    BY <2>1, <2>2, <2>3 DEF IInv, Held, InRunJob
<1>8. CASE RunSequential
  <2>1. UNCHANGED <<runner, st>> \/ HandsOut(Main)
    BY <1>8, BatchType, StepsType
       DEF RunSequential, HandsOut, InBatch, InRunJob, IInv, TypeOK, Place, jobs
  <2>2. QED
    BY <2>1, <1>1, <1>3, <1>0
<1>9. ASSUME NEW s \in Slot, Send(s)
      PROVE  Held'
  <2>1. HandsOut(s)
    BY <1>9 DEF Send, HandsOut, InBatch, Pooling, InRunJob, IInv, Place
  <2>2. QED
    BY <2>1, <1>3, <1>0
<1>10. CASE GenerateJobTasks \/ Check \/ updateWorkflowStatus \/ CancelOuter
            \/ Produce \/ UNCHANGED vars \/ Returned
  BY <1>10, <1>1 DEF GenerateJobTasks, Check, updateWorkflowStatus, CancelOuter,
                     Produce, vars, Returned
<1>11. QED
  BY <1>2, <1>4, <1>5, <1>6, <1>7, <1>8, <1>9, <1>10 DEF Next, Controller

\* The producer's index divides the jobs of a batch into those that are held or
\* have ended and those nobody has touched, and a batch is left behind only when
\* all of it has succeeded.
LEMMA ProgressStep ==
  ASSUME IInv, [Next]_vars
  PROVE  Progress'
<1>0. Slot \subseteq Runner /\ Main \in Runner /\ Main \notin Slot
  BY RunAssumption DEF Runner
<1>a. runner \in [Runner -> RunnerState] /\ i \in Nat /\ b \in Nat
  BY DEF IInv, TypeOK, RunnerState
<1>1. CASE GenerateJobTasks
  <2>1. /\ \A j \in Job : Untouched(j)
        /\ UNCHANGED <<b, st, saved>> /\ b = 1
        /\ steps' = plan \/ steps' = <<>>
        /\ pc' = "batch"
    BY <1>1 DEF GenerateJobTasks, IInv, Progress, Place
  <2>2. ASSUME NEW k \in 1 .. Len(steps'), NEW n \in 1 .. Len(steps'[k].jobs)
        PROVE  steps'[k].jobs[n] \in Job
    BY <2>1, <2>2, PlanType DEF IInv, TypeOK
  <2>3. \A j \in Job : st'[j] \in {"queued", "skipped"} /\ saved'[j] = "none"
    BY <2>1 DEF Untouched
  <2>4. \A k \in 1 .. Len(steps') : ~(k < b')
    BY <2>1
  <2>5. QED
    BY <2>1, <2>2, <2>3, <2>4 DEF Progress, InBatch, Pooling, Untouched
<1>2. CASE RunJobs
  <2>1. /\ UNCHANGED <<steps, b, st, saved>> /\ i' = 1
        /\ pc = "batch" /\ InBatch' /\ pc' \notin {"start", "batch", "failed"}
    BY <1>2 DEF RunJobs, InBatch, Pooling
  <2>2. QED
    BY <2>1 DEF IInv, Progress, Untouched
<1>3. ASSUME NEW r \in Runner, HandsOut(r)
      PROVE  Progress'
  <2>1. jobs[i] \in Job /\ b \in 1 .. Len(steps) /\ i \in 1 .. Len(jobs)
    BY <1>3, NextJob DEF HandsOut
  <2>2. /\ runner'[r].pc = "begin" /\ runner'[r].job = jobs[i]
        /\ \A q \in Runner : q # r => runner'[q] = runner[q]
    BY <1>a, <1>3, <2>1, HandOut DEF HandsOut
  <2>3. /\ InRunJob(r)'
        /\ \A q \in Runner : InRunJob(q) => InRunJob(q)' /\ runner'[q].job = runner[q].job
    BY <2>2, <1>3 DEF InRunJob, HandsOut
  <2>4. /\ UNCHANGED <<steps, b, st, saved>> /\ i' = i + 1 /\ InBatch /\ InBatch'
        /\ pc' \notin {"start", "batch", "failed"}
    BY <1>3 DEF HandsOut, InBatch, Pooling
  <2>5. ASSUME NEW k \in 1 .. Len(steps), NEW n \in 1 .. Len(steps[k].jobs), k = b,
               n < i + 1
        PROVE  \/ st[steps[k].jobs[n]] \notin {"queued", "prepare"}
               \/ \E q \in Runner : InRunJob(q)' /\ runner'[q].job = steps[k].jobs[n]
    <3>1. CASE n = i
      BY <3>1, <2>2, <2>3, <2>5 DEF jobs
    <3>2. CASE n < i
      BY <3>2, <2>3, <2>4, <2>5 DEF IInv, Progress
    <3>3. QED
      BY <3>1, <3>2, <2>5, <1>a
  <2>6. \A k \in 1 .. Len(steps) : \A n \in 1 .. Len(steps[k].jobs) :
          k = b /\ n >= i + 1 => Untouched(steps[k].jobs[n])
    <3>1. \A n \in 1 .. Len(steps[b].jobs) : n >= i + 1 => n >= i
      BY <2>1, <1>a, BatchType DEF IInv
    <3>2. QED
      BY <3>1, <2>4 DEF IInv, Progress
  <2>7. QED
    BY <2>4, <2>5, <2>6 DEF IInv, Progress, Untouched
<1>4. ASSUME UNCHANGED <<steps, b, i, st, saved>>,
             InBatch <=> InBatch', pc' \notin {"start", "batch", "failed"},
             pc \notin {"start", "batch", "failed"},
             \A q \in Runner : InRunJob(q) =>
               \/ InRunJob(q)' /\ runner'[q].job = runner[q].job
               \/ runner[q].pc = "end"
      PROVE  Progress'
  <2>1. \A q \in Runner : InRunJob(q) =>
          \/ InRunJob(q)' /\ runner'[q].job = runner[q].job
          \/ st[runner[q].job] \notin {"queued", "prepare"}
    BY <1>4 DEF IInv, Held
  <2>2. QED
    BY <1>4, <2>1 DEF IInv, Progress, Untouched
<1>5. ASSUME NEW r \in Runner, RunJob(r)
      PROVE  Progress'
  <2>1. /\ UNCHANGED <<steps, b, i, pc>>
        /\ InRunJob(r) /\ InRunJob(r)'
        /\ \A q \in Runner : runner'[q].job = runner[q].job
        /\ \A q \in Runner : q # r => runner'[q] = runner[q]
        /\ \A j \in Job : j # runner[r].job => st'[j] = st[j] /\ saved'[j] = saved[j]
    BY <1>5, RunJobStep DEF IInv
  <2>2. /\ pc = "seq" \/ Pooling
        /\ b \in 1 .. Len(steps)
        /\ \E n \in 1 .. Len(steps[b].jobs) : n < i /\ runner[r].job = steps[b].jobs[n]
    BY <2>1, HeldJob
  <2>3. PICK m \in 1 .. Len(steps[b].jobs) : m < i /\ runner[r].job = steps[b].jobs[m]
    BY <2>2
  <2>4. ASSUME NEW k \in 1 .. Len(steps), NEW n \in 1 .. Len(steps[k].jobs),
               ~(k = b /\ n = m)
        PROVE  /\ st'[steps[k].jobs[n]] = st[steps[k].jobs[n]]
               /\ saved'[steps[k].jobs[n]] = saved[steps[k].jobs[n]]
    <3>1. steps[k].jobs[n] # runner[r].job
      BY <2>2, <2>3, <2>4, OwnJob DEF IInv
    <3>2. steps[k].jobs[n] \in Job
      BY BatchType DEF IInv
    <3>3. QED
      BY <2>1, <3>1, <3>2
  <2>5. \A q \in Runner : InRunJob(q) => InRunJob(q)'
    BY <2>1 DEF InRunJob
  <2>6. InBatch /\ InBatch' /\ pc' \notin {"start", "batch", "failed"}
    BY <2>1, <2>2 DEF InBatch, Pooling
  <2>7. ASSUME NEW k \in 1 .. Len(steps), NEW n \in 1 .. Len(steps[k].jobs)
        PROVE  /\ k < b => isJobSuccessStatus(st'[steps[k].jobs[n]])
               /\ k > b => Untouched(steps[k].jobs[n])'
               /\ k = b /\ n >= i => Untouched(steps[k].jobs[n])'
    <3>1. CASE k = b /\ n = m
      BY <3>1, <2>2, <2>3, <1>a
    <3>2. CASE ~(k = b /\ n = m)
      BY <3>2, <2>1, <2>4, <2>6 DEF IInv, Progress, Untouched
    <3>3. QED
      BY <3>1, <3>2
  <2>8. ASSUME NEW k \in 1 .. Len(steps), NEW n \in 1 .. Len(steps[k].jobs), k = b, n < i
        PROVE  \/ st'[steps[k].jobs[n]] \notin {"queued", "prepare"}
               \/ \E q \in Runner : InRunJob(q)' /\ runner'[q].job = steps[k].jobs[n]
    <3>1. CASE n = m
      BY <3>1, <2>1, <2>3, <2>8
    <3>2. CASE n # m
      BY <3>2, <2>1, <2>4, <2>5, <2>6, <2>8 DEF IInv, Progress
    <3>3. QED
      BY <3>1, <3>2
  <2>9. QED
    BY <2>1, <2>6, <2>7, <2>8 DEF Progress
<1>6. CASE Check
  <2>1. UNCHANGED <<steps, st, saved>> /\ pc = "check" /\ InBatch
    BY <1>6 DEF Check, InBatch
  <2>2. CASE \A n \in 1 .. Len(jobs) : isJobSuccessStatus(st[jobs[n]])
    <3>1. pc' = "batch" /\ b' = b + 1
      BY <2>2, <1>6 DEF Check
    <3>2. QED
      BY <3>1, <2>1, <2>2, <1>a DEF IInv, Progress, Untouched, jobs, InBatch, Pooling
  <2>3. CASE ~ \A n \in 1 .. Len(jobs) : isJobSuccessStatus(st[jobs[n]])
    <3>1. pc' = "failed" /\ b' = b
      BY <2>3, <1>6 DEF Check
    <3>2. QED
      BY <3>1, <2>1, <2>3 DEF IInv, Progress, Untouched, jobs, InBatch, Pooling
  <2>4. QED
    BY <2>2, <2>3
<1>7. CASE updateWorkflowStatus
  <2>1. UNCHANGED <<steps, b, st, saved>> /\ pc' = "completed"
    BY <1>7 DEF updateWorkflowStatus
  <2>2. QED
    BY <2>1 DEF IInv, Progress, Untouched, InBatch, Pooling
<1>8. CASE CancelOuter \/ UNCHANGED vars \/ Returned
  <2>1. UNCHANGED <<steps, b, i, st, saved, pc, runner>>
    BY <1>8 DEF CancelOuter, vars, Returned
  <2>2. QED
    BY <2>1 DEF IInv, Progress, Untouched, InBatch, Pooling, InRunJob, jobs
<1>9. CASE RunSequential
  <2>1. HandsOut(Main) \/ (UNCHANGED <<runner, steps, b, i, st, saved>>
                            /\ pc = "seq" /\ pc' = "check")
    BY <1>9, BatchType, StepsType
       DEF RunSequential, HandsOut, InBatch, InRunJob, IInv, TypeOK, Place, jobs
  <2>2. QED
    BY <2>1, <1>3, <1>4, <1>0 DEF InBatch, Pooling, InRunJob
<1>10. ASSUME NEW s \in Slot, Send(s)
       PROVE  Progress'
  <2>1. HandsOut(s)
    BY <1>10 DEF Send, HandsOut, InBatch, Pooling, InRunJob, IInv, Place
  <2>2. QED
    BY <2>1, <1>3, <1>0
<1>11. CASE Produce
  BY <1>11, <1>4 DEF Produce, InBatch, Pooling, InRunJob
<1>12. CASE PoolReturn
  <2>1. \A r \in Runner : ~InRunJob(r)
    BY <1>12, NobodyBusy DEF PoolReturn
  <2>2. QED
    BY <2>1, <1>12, <1>4 DEF PoolReturn, InBatch, Pooling
<1>13. CASE MainReturns
  <2>1. /\ UNCHANGED <<steps, b, i, st, saved, pc>> /\ runner[Main].pc = "end"
        /\ \A q \in Runner : q # Main => runner'[q] = runner[q]
    BY <1>13, <1>a, <1>0 DEF MainReturns
  <2>2. pc = "seq"
    BY <2>1, <1>0 DEF IInv, Goroutines
  <2>3. QED
    BY <2>1, <2>2, <1>4 DEF InBatch, Pooling, InRunJob
<1>14. ASSUME NEW s \in Slot, Work(s)
       PROVE  Progress'
  <2>1. /\ UNCHANGED <<steps, b, i, st, saved, pc>> /\ runner[s].pc = "end"
        /\ \A q \in Runner : q # s => runner'[q] = runner[q]
    BY <1>14, <1>a, <1>0 DEF Work
  <2>2. Pooling
    BY <2>1, <1>0 DEF IInv, Goroutines
  <2>3. QED
    BY <2>1, <2>2, <1>4 DEF InBatch, Pooling, InRunJob
<1>15. QED
  BY <1>1, <1>2, <1>5, <1>6, <1>7, <1>8, <1>9, <1>10, <1>11, <1>12, <1>13, <1>14
     DEF Next, Controller

-----------------------------------------------------------------------------
(***************************************************************************)
(* The theorems.                                                           *)
(***************************************************************************)
\* The invariant holds of every run.
LEMMA RunInv == Spec => []IInv
<1>1. IInv /\ [Next]_vars => IInv'
  BY TypeStep, PlaceStep, GoroutinesStep, HeldStep, CountedStep, ProgressStep, LateStep
     DEF IInv
<1>2. QED
  BY <1>1, InitInv, PTL DEF Spec

\* The state of a run keeps its types; in particular the WaitGroup never goes
\* below zero, which would make Done panic.
THEOREM RunTypeCorrect == Spec => []TypeOK
<1>1. IInv => TypeOK
  BY DEF IInv
<1>2. QED
  BY <1>1, RunInv, PTL

\* Priorities and steps are hard borders, for any plan and any concurrency: a job
\* runs only within its own batch and after all earlier batches succeeded, and
\* Pool.Run has no job left running when the controller judges the batch.
THEOREM BatchesAreBarriers == Spec => []BatchBarrier
<1>1. IInv => BatchBarrier
  <2> SUFFICES ASSUME IInv, NEW r \in Runner, InRunJob(r)
               PROVE  /\ pc \in {"seq", "produce", "send", "wait"}
                      /\ runner[r].job \in JobsOf(b)
                      /\ \A k \in 1 .. b - 1 : \A j \in JobsOf(k) :
                           isJobSuccessStatus(st[j])
    BY DEF BatchBarrier
  <2>1. /\ pc = "seq" \/ Pooling
        /\ b \in 1 .. Len(steps)
        /\ \E n \in 1 .. Len(steps[b].jobs) : n < i /\ runner[r].job = steps[b].jobs[n]
    BY HeldJob
  <2>2. \A k \in 1 .. b - 1 : k \in 1 .. Len(steps) /\ k < b
    BY <2>1, StepsType DEF IInv
  <2>3. QED
    BY <2>1, <2>2 DEF IInv, Progress, JobsOf, Pooling
<1>2. QED
  BY <1>1, RunInv, PTL

\* A pool that stops on failure hands out at most one job after its context ended,
\* however its goroutines and the cancellation interleave.
THEOREM AtMostOneLateStart == Spec => []OneLateStart
<1>1. IInv => OneLateStart
  BY DEF IInv, LateOnce, OneLateStart
<1>2. QED
  BY <1>1, RunInv, PTL

\* The controller's verdict is that of the jobs: completed only if every job of
\* every batch succeeded, and when it fails no job of a later batch was touched.
THEOREM VerdictIsTheJobs == Spec => []Verdict
<1>1. IInv => Verdict
  <2> SUFFICES ASSUME IInv PROVE Verdict
    OBVIOUS
  <2>1. b \in Nat /\ Len(steps) \in Nat
    BY StepsType DEF IInv, TypeOK
  <2>2. ASSUME pc = "completed", NEW k \in 1 .. Len(steps), NEW j \in JobsOf(k)
        PROVE  isJobSuccessStatus(st[j])
    <3>1. k < b
      BY <2>1, <2>2 DEF IInv, Place
    <3>2. QED
      BY <3>1 DEF IInv, Progress, JobsOf
  <2>3. ASSUME pc = "failed"
        PROVE  \E j \in JobsOf(b) : ~isJobSuccessStatus(st[j])
    BY <2>3 DEF IInv, Progress, JobsOf, jobs
  <2>4. ASSUME NEW k \in b + 1 .. Len(steps), NEW j \in JobsOf(k)
        PROVE  st[j] \in {"queued", "skipped"} /\ saved[j] = "none"
    <3>1. k \in 1 .. Len(steps) /\ k > b
      BY <2>1
    <3>2. QED
      BY <3>1 DEF IInv, Progress, JobsOf, Untouched
  <2>5. QED
    BY <2>2, <2>3, <2>4 DEF Verdict
<1>2. QED
  BY <1>1, RunInv, PTL

\* A parallel step runs all its jobs to the end: when the controller judges it, no
\* job of it is still queued or running, whatever failed and whether or not the
\* controller's context has ended.
THEOREM ParallelStepsRunAll == Spec => []ParallelRunsAll
<1>1. IInv => ParallelRunsAll
  <2> SUFFICES ASSUME IInv, pc = "check", steps[b].parallel, NEW j \in JobsOf(b)
               PROVE  st[j] \notin {"queued", "prepare"}
    BY DEF ParallelRunsAll
  <2>1. b \in 1 .. Len(steps) /\ i > Len(steps[b].jobs) /\ InBatch /\ i \in Nat
    BY StepsType DEF IInv, TypeOK, Place, InBatch, jobs
  <2>2. PICK n \in 1 .. Len(steps[b].jobs) : j = steps[b].jobs[n]
    BY DEF JobsOf
  <2>3. n < i
    BY <2>1, BatchType DEF IInv
  <2>4. \A r \in Runner : ~InRunJob(r)
    BY NobodyBusy
  <2>5. QED
    BY <2>1, <2>2, <2>3, <2>4 DEF IInv, Progress
<1>2. QED
  BY <1>1, RunInv, PTL
=============================================================================
