# TLA+ models of the KubeMin workflow engine

KubeMin-Cli is an API server that deploys applications to Kubernetes by running
workflows. Several replicas share a SQL database and a message queue; one of them
is elected leader and dispatches workflow tasks, others (or the leader itself)
execute them. This directory models the way of an application through it: the
request and the rows it becomes, the life of a task, the execution of its jobs,
what a job does to the cluster, how it learns that a workload is ready, and how a
task is cancelled.

Paths below are relative to `pkg/apiserver/` unless they start with `docs/`.

## 1. The system

| Component | State | Operations | Module |
|---|---|---|---|
| Task rows (`domain/repository/workflow.go`, `infrastructure/datastore/sql/driver.go`) | one row per task: status, times, revoker | Add, Put (unconditional), CompareAndSwap (one conditional UPDATE), List by status | WorkflowEngine |
| Task API (`domain/service/workflow.go`) | none | execute (insert a waiting row), cancel (Put cancelled, then signal), status | WorkflowEngine |
| Server and roles (`server.go`) | lease holder, `workersStarted`, `workersCancel` | election callbacks, start and stop of workers, status sync | WorkflowEngine, ReadyWaiter, ApplicationService |
| Leader loop (`event/workflow/workflow.go`, `dispatcher.go`) | listed rows, claimed row, errgroup, limiter | InitQueue, Dispatcher or WorkflowTaskSender, claim, publish, revert | WorkflowEngine |
| Queue (`infrastructure/messaging`) | entries, pending list of the consumer group | Enqueue, ReadGroup, AutoClaim, Ack | WorkflowEngine |
| Worker loop (`dispatcher.go`) | current batch | read or auto-claim, process, acknowledge | WorkflowEngine |
| Controller (`controller.go`) | snapshot of the row, step and priority | Run, ack, updateWorkflowStatus | WorkflowRun, WorkflowEngine |
| Job pool (`job/job.go`) | channel, WaitGroup, cancel function, statuses | RunJobs, Pool.Run, work, runJob | WorkflowRun |
| Cancellation signal (`workflow/signal/cancel.go`) | one Redis key per task, or a registry in the process | Watch, maintain, Cancel, Stop | CancelSignal |
| Job controllers (`job/job_*.go`, `shared.go`, `cleanup_tracker.go`) | what the job has read and created | run, wait, Clean, for twelve kinds of resources | JobControllers |
| Lockers (`infrastructure/locker`) | an owner and an expiry per key | Lock, TryLock, Unlock, Extend, AutoExtend, Close | Lock, Locker |
| Informer and readiness waiter (`infrastructure/informer`) | map of waiters, cache | register, events, resync, time-out, status sync | ReadyWaiter |
| Application service (`domain/service/application.go`) | rows of applications, components and workflows | create, refresh, update a version, replace a workflow, delete, clean up | ApplicationService, JobBuilder |
| Validation (`domain/service/validation.go`) | none | TryApplication | Traits, JobBuilder |
| Templates (`domain/service/application.go`) | none | clones of a template's components, with overrides | Templates |
| Traits (`workflow/traits`) | none | the objects, volumes and containers of a component | Traits |
| Job builder (`event/workflow/job_builder.go`, `workflow/naming`) | none | steps and components to executions of jobs | JobBuilder |
| Kafka queue, REST API, assemblers, caches, configuration, text template engine | | | none, see section 5 |

What is hard:

- The task row has no owner. The API, two generations of leaders, workers and
  controllers write it, most of them without a condition; a lease can pass on
  while the old leader is still running. Publishing and claiming are two steps,
  and so are executing and acknowledging.
- A pool hands out jobs while others fail. The cancellation key is both a claim
  and a mailbox, and it expires.
- A job talks to a cluster that others change, in calls of which each may fail
  with or without effect, under a lock that expires without telling its holder;
  when it fails it has to delete what it created and nothing else.
- Readiness comes as events that may precede the wait.
- An update of an application is a sequence of single writes without a
  transaction, and two of them may overlap.
- The same names are computed by the builder, by cleanup and by the cloning of
  templates, and the same traits are judged by validation and by the processors.

What makes each part correct, and where it is stated:

- dispatch: one dispatch each time a row becomes waiting (`OneDispatchPerWait`),
  no claimed row is forgotten (`QueuedIsCarried`), one controller at a time
  (`OneControllerPerTask`), nothing waits for ever (`WaitingIsClaimed`,
  `MessageIsSettled`);
- execution: priorities are hard borders (`BatchBarrier`), a failing pool stops
  (`OneLateStart`), a parallel one does not (`ParallelRunsAll`), the verdict is
  that of the jobs (`Verdict`), every run returns (`RunReturns`);
- cancellation: nobody is cancelled without a request (`NoSpuriousCancel`), a
  request is seen by the jobs that start later (`LateJobsAreCancelled`) and arrives
  (`CancelArrives`);
- jobs: what the tracker calls created is the job's (`CreatedIsOwn`), a failed job
  leaves nothing behind (`NoOrphans`), a shared resource is created once
  (`SharedOnce`), a completed job has its target as it wants it
  (`CompletedIsApplied`), RBAC objects of others are not written
  (`ForeignRbacIsKept`), every job ends (`JobEnds`);
- locks: a user within its time to live has the key (`HeldWithinTTL`), both
  lockers implement the abstract lock (`ImplementsLock`), Lock returns
  (`LockReturns`);
- readiness: a wait does not time out on a ready or a deleted workload
  (`NoLostWakeup`), the component's row comes to show the status of a workload that
  is there (`StatusSettles`);
- building: what is valid is stored and built, but for known disagreements
  (`ValidIsBuilt`), what a pod needs is made before it (`DependenciesFirst`), mounts
  have volumes (`MountsResolve`), clones refer to clones (`RefsFollowClones`),
  cleanup finds what was created (`CleanupCovers`);
- application rows: rows and steps stay together (`StepsCover`), a version stands
  for its components (`VersionMeansApplied`), the task an update starts sees the
  update (`AutoExecSeesUpdate`), a retry repairs (`QuietUpdateIsStored`).

`PROJECT.json` lists the components, the hazards of the code with the property
that covers each, and the source lines behind every definition.

## 2. The modules

### WorkflowEngine

The whole life of a task on `Node` replicas. A row is its status (`db`), a message
its task and its place in the consumer group (`msg`: new, pending, acked). The
steps are the atomic calls of the code: one database call, one queue call, one
start of a goroutine. So the leader loop is `TaskRunning` (the list InitQueue
reads), `InitQueue` (one Put per listed row), `Start`, `WaitingTasks` (a poll),
`Claim`, `Enqueue`, `Revert`, `EndOfBatch`; in local mode `LocalQueued` and
`LocalRun` replace `Enqueue`. The worker loop is `ReadGroup` or `AutoClaim`, then
`processDispatchMessage` and `WorkerRun` for each entry, then
`ackDispatchMessages`. A controller is its writes of the row: `RunStart`,
`JobAck`, `RunComplete`, `RunReturn`, or `RunFail`.

`mode` is the deployment: `local` (NoopQueue), `single` (fewer than three
replicas: the leader also works) or `distributed` (the followers work).

Faults, each bounded by `MaxFaults`: an election (`term`), the end of a process
(`crash`), a database call that fails or whose reply is lost (`db`), a queue call
likewise (`queue`), a live worker that holds an entry for longer than AutoClaim's
idle time (`slow`). A lease may expire while its holder goes on. The leader that
lost its lease ends by a crash, as `ExitOnLostLeader` is on by default.

`disp[n].fresh` and `msg[m].fresh` are history: they say that the row has not
become waiting again since the claim. No action reads them.

Abstracted: the other columns, the order of the list, the back-off of the read
loop (time only; by default it never gives up), the decoding of the payload (what
the dispatcher encodes the worker can decode).

### WorkflowRun

One execution. The workflow is a sequence of batches, one per step and priority;
`RunJobs` runs a batch on the controller goroutine (`RunSequential`) or with a
pool: `Produce` and `Send` are the two halves of the loop body of `Pool.Run`, with
the context check before the blocking send; `Work` is the end of a worker's turn,
`PoolReturn` is `wg.Wait`, `Check` the look at the statuses. `runJob` is
`RunSkipped`, or `PrepareJob`, `FinishJob`, `RecordJob`. The controller's context
may end at any time (`CancelOuter`), a record may fail to be stored.

A job is its status. `failed` stands for timeout and reject too. The row is not
here: `ack` is the `JobAck` of WorkflowEngine.

### CancelSignal

The key of one task. Time is counted in renewal intervals (10 s): every watcher's
ticker fires once in each, and a call that has begun ends at the latest in the next.
A key lives for 45 s after its last renewal. That is past the ends of four intervals,
`Expiry`, or of five, depending on where in its interval it is renewed: `Set` and
`Renew` give it either, so that only four are certain. `Stop`
and `Delete` are the two calls of `Stop`, `Step` and
`Renew` those of `step`, `Watch` and `Inspect` those of `Watch`. A job whose
`Watch` is refused is `unwatched`: nothing can cancel it. That is the case of all
jobs but one of a parallel batch, since they share the task's key.

`told`, `requested` and `sure` are history.

### JobControllers

Jobs of one kind of resource against a cluster. `setup` fixes for a behaviour the
kind, the locker, and what each job wants. A job goes through
`resolveSharedResource`, `acquireShareLock` and `hasSharedResources`; then `Get`
(and `GetService`, the second read of the Service controller); then one of
`Create`, `Update`, `ApplyDeployment`, `Keep` and `Refuse`, which `runExisting`
chooses by what the controller of the kind compares; then the wait (`Completed`
or `WaitEnds`); and, after a failure, `Clean`. `initJobCtl` is the table of the
twelve controllers. A resource is who created it (history), the application its
label names, the content that is compared, the part that is not, and its flags.
The content is a `core`, about which every specification says something (image,
type, rules), and the `items` it may have or leave out (variables, ports, mounts).
`Updated` replaces all of it. `Applied` does not: a Deployment is changed by a
forced server-side apply under a field manager of its own, which takes away what
the target leaves out only if nobody else owns it; `held` is what the creator, or
another user, owns.
`stale` stands for the resource version: the jobs whose target was written by
somebody else since they read or wrote it.

Calls may fail with or without effect, contexts end (`CancelContext`), processes
crash, pods come and go (`Rollout`), and others create, take over and delete
resources (`Others`). The share lock is an INSTANCE of Lock, with one place per
process for the memory locker and one place for Redis; `LockExpires` is its time
to live. `excused` and `lapsed` are history.

### Lock and Locker

Lock is what a locker promises: at most one holder of a key, released by its
holder only, and lost to its time to live without notice. Locker has the two
implementations for one key: the memory locker, in which an expired entry stays
until it is taken or revived, and the Redis locker (redsync, external), where it
is gone. A mutex goes through `NewMutex`, `LockBegins` and `Attempt` or `TryLock`,
`Extend`, `AutoExtend` and its ticker, `Unlock`; a closed locker hands out
degraded mutexes. A reply of Redis may be lost. `since` is history: how much of
the time to live is left by the user's own clock.

### ReadyWaiter

One workload, its events, the informer of the leader with its cache and its
resync (two intervals), the map of waiters of each process, and the goroutines of
the status sync. `Register` overwrites the entry of another wait for the same
workload; `Return` deletes whatever entry there is. `SyncPut` leaves zero values
alone, as GORM's Updates does. A wait is longer than a resync period (twenty
minutes against thirty seconds). `steady`, `alone` and `missed` are history.

### Traits, Templates, JobBuilder

Traits and Templates are operators only. A name is the sequence of its segments
between hyphens, so that prefixes, suffixes and replacements are what they are in
the code and the characters are left out; a quantity is one of four that tell the
regular expressions and `ParseQuantity` apart. Traits has the checks of
`validation.go` and one operator per processor, with the aggregation of their
results and their application to the workload. Of volumes, mounts and objects the
first with a key counts in the code, and nothing else depends on their order. So a
result has them as sets at positions, and `FirstBy` keeps what no earlier position
has the key of. Templates has the choice of overrides, the names of the clones and
the rewriting of their traits. `IsTraits` and `IsComponent` are the types of the API.

JobBuilder takes one application from the request through `TryApplication`,
`CreateApplications`, `GenerateJobTasks` and `RunJobs` to
`CleanupApplicationResources`. The rows are at the positions `resolveComponents`
gives them: `<<0, i>>` for the plain component i of the request, `<<h, i>>` for the
clone of the i-th component of the template that component h is the first to name.
An execution is the set of its jobs, at its step and group; their priorities are
the batches. `RunJobs` stops after any execution and batch with any part of that
batch done, since the jobs of a batch run in parallel and each may fail. The
resources that the jobs leave are the kinds, namespaces and names the builder gave
them; cleanup computes them again.

### ApplicationService

Requests on one stored application, interleaved call by call: the refresh of
`CreateApplications` (one transaction), `UpdateVersion` (from `FindByAppID` over
one action per spec, the version, `ReadSteps` and `syncWorkflowSteps` to
`execWorkflow`), `UpdateApplicationWorkflow`, `DeleteApplication`, and the worker
that reads the workflow and the components of a task. A component is its id and
name and what an update may set: image, replicas and a variable of its Properties,
each of which may have the `Zero` value. `Put` is GORM's Updates of the row that was
read, as a whole and without zero values (`Written`). The status sync of the
informer (`ListComponents`, `syncComponentStatus`) is one more writer: it puts back
a row it has listed before. A workflow is the set of its steps; their order is
JobBuilder's matter. `quiet`, `applied`, `twins`, `reverted` and `trouble` are
history.

### How they fit together

- WorkflowEngine lets a controller fail at any time; WorkflowRun shows when and how
  it does. WorkflowRun lets a job end in any way at any time; JobControllers and
  CancelSignal show when. JobControllers lets a wait end by its time-out at any
  time; ReadyWaiter shows when. ApplicationService and JobBuilder end where
  WorkflowRun begins. Each is checked against the most liberal version of the one
  below, so what holds in one does not rest on the abstraction of the other.
- JobControllers is built on Lock, and Locker implements Lock (`A == INSTANCE Lock
  WITH holder <- ...`: the key is its owner's while its time to live lasts). So
  what JobControllers shows of sharing holds for both lockers.
- JobBuilder EXTENDS Templates, which EXTENDS Traits.

## 3. The runs

| Run | Instance | What it shows |
|---|---|---|
| `engine_failover` | 1 task, 2 replicas, 2 messages, 2 controllers; 2 elections, 1 crash, 1 queue fault; three modes | `TypeOK`, `OneDispatchPerWait`, `QueuedIsCarried` |
| `engine_steady` | 2 tasks, 3 replicas, 2 messages, 2 controllers; 1 election, 1 crash, 1 database fault, 1 slow worker | `OneControllerPerTask` |
| `engine_live` | 1 task, 2 replicas, 2 messages; one of each fault but slow | `WaitingIsClaimed`, `MessageIsSettled` |
| `workflow_run` | 3 jobs, 6 workflows, limits 0, 2 and 3 | `TypeOK`, `BatchBarrier`, `OneLateStart`, `Verdict`, `ParallelRunsAll`, `RunReturns` |
| `cancel_signal` | 3 jobs, expiry 4, 2 failing calls; with and without Redis | `TypeOK`, `NoSpuriousCancel`, `LateJobsAreCancelled`, `CancelArrives` |
| `jobs` | 2 jobs, 2 processes, 2 names, 2 applications, 2 cores, 1 item; all kinds; sharing, conflicting and immutable targets, with and without an earlier resource; 1 failure, 1 change by others | `TypeOK`, `CreatedIsOwn`, `NoOrphans`, `SharedOnce`, `CompletedIsApplied`, `ForeignRbacIsKept`, `JobEnds` |
| `locker` | 3 mutexes, time to live 3, several retry counts, both lockers; 1 lost reply, 1 Extend | `TypeOK`, `HeldWithinTTL`, `ImplementsLock`, `LockReturns` |
| `ready_waiter` | 1 process, 2 waits, 2 changes, 2 syncs at a time, 1 database fault | `TypeOK`, `NoLostWakeup`, `StatusSettles` |
| `job_builder` | 392 requests: every trait on both workloads, every form of step, two templates with overrides; 1 failing delete | `ValidIsBuilt`, `DependenciesFirst`, `MountsResolve`, `RefsFollowClones`, `CleanupCovers` |
| `application` | 2 requests out of 14 operations, 3 names, 2 values, 5 starts, 1 failing call, 1 status sync | `TypeOK`, `StepsCover`, `VersionMeansApplied`, `AutoExecSeesUpdate`, `QuietUpdateIsStored` |

Bounds. Two elections are the smallest number with overlapping leaders; two
messages are a message and its duplicate; two controllers are what a duplicate
execution needs; three replicas in `engine_steady` are a leader and two workers,
so that AutoClaim has somebody to take from. When all of `Msg` is used the
dispatcher waits; the liveness run is sized so that its faults cannot use them up.
Three jobs with a pool of two are the smallest case in which the producer blocks
on a busy pool; the limits include 0, which the code turns into 1. In
`cancel_signal` three jobs give a holder, a refused one and a later one.

In `jobs` every property is about a job and one opponent, another job or
somebody else; one failing call is what the code's error paths are written for,
and one change by others can fall between any two calls. The controllers that
behave alike (RBAC) get the full set of situations once. In `locker` three
mutexes are an owner, a former owner and one that waits; a time to live of 3 has
room for an extension before and after a missed one. In `ready_waiter` the resync
period is two intervals, so that a wait of three can begin after the event and
see a resync. In `job_builder` each trait meets each workload alone, since the
processors only meet in the aggregation, and there in the pairs that share a key;
nested traits and the components of a template are the cases with more than one.
Two templates with components of the same names, one referring forwards and one
backwards, are what the name maps and the choice of overrides have to keep apart.
In `application` two requests are an overlap, and the five starts are what a
creation leaves, with and without Properties, and what an earlier overlap or failure
does, so a request and its retry fit in two, or one with a failing call and another.
Each property of it is about one disturbance at a time, so one failing call and one
status sync meet every request at every place. In `jobs` one item is enough to be
kept, dropped or owned by another manager.

Deadlock is not checked in the engine runs: a replica set with no work and no
faults left may stop. It is checked everywhere else.

Two runs expect a violation. They state what a document says, and show that the
code does something else:

- `engine_failure_is_stored`: a failed run leaves its row `running`, because the
  deferred write is skipped for terminal statuses (`event/workflow/controller.go:51`).
- `ready_is_seen`: without a running informer a job that waits for a Deployment
  or a StatefulSet does not fall back to polling (`job/job_deploy.go:225`), since
  the waiter exists in every process; on a follower it times out on a workload
  that has been ready for long.

The conditions in the passing properties are worth as much as the conclusions:
`OneControllerPerTask` and `QueuedIsCarried` hold under the first leader only,
since InitQueue requeues tasks that followers are still running; `QueuedIsCarried`
excludes a cancelled errgroup, since the first failing workflow cancels the group
and the limiter then refuses every later task on that leader; `SharedOnce` needs
one lock for all, a job that is faster than its time to live, and that no job
without a strategy has the name of one that shares by default (`LabelStays`): the
update of such a job takes the share label off, the next one does not find the
resource and makes another. This takes three jobs, and it was the attempt at a
proof that found it; TLC then confirmed it.

Two conditions of the job builder's properties were found in the same way. A
template whose components share a name, or one of which is named as another with
`tem-` before it, has one entry in the name map for both, and the clone of one is
referred to for the other: `RefsFollowClones` is about the `Unambiguous` ones. Of
rows with one name only the last is built (`componentMap`), so `ValidIsBuilt` is
about a component whose row is the one that counts (`RowOf`); and of a step with
sub-steps about the components of these, since the step's own are not looked at.

### What the models show besides

Each of these is a behaviour of a model that no property forbids, because the code
gives no guarantee there. A reader of the code may want to know of them.

Tasks:

- A message is acknowledged when its controller has been started, not when it has
  ended (`dispatcher.go:215`, `:325`), unlike
  `docs/workflow-architecture-guide.md:1024`. A worker that crashes then loses the
  task until the next election.
- A cancelled row is overwritten by a worker, by InitQueue or by a controller
  (`controller.go:61`, `event/workflow/workflow.go:90`, `:165`).
- A workflow whose definition could not be read is completed (`job_builder.go:36`).
- After a cancellation the key stays until it expires: `Stop` deletes its own token
  and not the marker (`signal/cancel.go:214`). The unit test expects it to be
  removed (`signal/cancel_test.go:51-54`), and the context to end within two seconds
  of the cancellation (`:42-44`), although the watcher looks every ten. No property
  promises the one or the other: the marker is what `LateJobsAreCancelled` needs
  while a job that was told still runs, and what cancels every job of the task that
  starts within 45 s.
- The 45 s of the key cover four renewals. One GET that fails is made up for; an
  EXPIRE that fails, or two calls in a row, can let the key expire, and the job
  takes the missing key for a cancellation (`signal/cancel.go:252`).

Jobs:

- The Service controller marks its target as created before it creates it
  (`job_service.go:175`): when another one creates it in between, Clean deletes
  that one. `docs/workflow-architecture-guide.md:823` and `:2215` have the mark
  after the create.
- `isDeploymentChanged` does not compare replicas (`job_deploy.go:406`); an update
  of replicas alone is stored and not applied, unlike
  `docs/version-update-api.md:51`.
- A variable, port or mount that a component no longer has stays in its Deployment:
  `ApplyDeployment` applies under another field manager (`job_deploy.go:396`) than
  that of the create (`:201`), which goes on owning it. `isDeploymentChanged` finds
  the difference again in every later job, which applies again without effect.
- Clean deletes by name, without the UID; a create whose reply is lost, and a
  Deployment that a forced apply revives, are not cleaned up; after a crash nothing
  is, and the StatefulSet controller then refuses (`job_statefulset.go:175`).
- The wait does not look at observedGeneration: ready pods of the old revision end
  the wait of an update.
- The share lock is never extended; with the memory locker processes do not
  exclude each other.
- Two waits for one workload in one process overwrite each other's entry; the first
  to end removes the other's.
- `ready_replicas` never returns to 0 (`server.go:574`: zero values are left out),
  unlike `docs/architecture-diagrams.md:666`, `:726`.

Building:

- Validation and processing disagree (`LeafDisagree`): `env_from` of type
  `configMap` (`validation.go:55-57`, `docs/architecture-guide-zh.md:959`), two
  probes of one type, an empty `exec` beside another handler, nameless storage,
  sizes such as 1K, the quantity of GPUs. The component is then left out of the
  workflow without an error.
- References to components are compared without case in validation and with case in the builder.
- Objects are deduplicated by a key that was meant to hold their kind
  (`traits/processor.go:236`): of a Role and a ServiceAccount with one name the
  second is dropped.
- A claim template of a Deployment is dropped and its volume stays; a host path is
  mounted without a volume.
- An override is applied whatever its target when none aims at the component
  (`application.go:403-411`, unlike `docs/template-instantiation-from-tem-id.md:134`);
  template components with one last segment get clones with one name.
- Cleanup looks for an Ingress under another name than the builder gave it
  (`application.go:1221`, `job_builder.go:219`), and deletes resources of shared
  components too.
- A long name loses the application's id at its end (`naming.go:65`).

Application rows:

- A failed update of a component is passed over, and the version is stored all the
  same; a failed add or remove leaves what was stored before it.
- An update that is reported may not be stored: `replicas: 0` is a zero value, which
  Updates leaves out (`driver.go:92`); a variable of a component without Properties
  has nothing to be merged into (`application.go:1651-1653`); and a status sync that
  listed the row before puts the old image, replicas and variables back
  (`server.go:576`). `docs/version-update-api.md:51-52` makes no exceptions. The
  reverse happens to the status: the Put of an update writes the status it has read,
  which the next resync of the informer repairs.
- An add of a component that exists is skipped and the version is stored
  (`application.go:1499`), where `docs/version-update-api.md:81` has error 10015.
- Of two overlapping updates one may lose its step; two adds make two rows of one
  name; a component added by the request itself is not found by a later spec.
- Deletion leaves components and workflows, and a refresh that has read the
  application before adds it again; the removal of a component leaves its
  resources in the cluster.

### Fairness

- Engine: weak fairness of the loops of live processes (elections, role changes,
  leader, worker) and of the start and the end of a controller. The loops have no
  exit but their context; a controller ends because each job has a timeout (60 s
  by default). Nothing is assumed of the API, of leases, crashes and faults. That
  a leader, or a worker, stays up is a premise of the two properties.
- Run: weak fairness of the controller and of every goroutine that runs a job.
- Signal: time passes, tickers fire and calls return. Jobs need not end.
- Jobs: weak fairness of each job (its calls return, its wait has a timer) and of
  the expiry of the lock. Not of readiness, of others, or of cancellation.
- Locker: time passes, Lock goes on trying, tickers fire. Owners need not unlock.
- Readiness: time passes, the watch delivers, resyncs and time-outs fire, and the
  goroutines of the sync are scheduled. The workload changes as it likes, but not
  for ever (`MaxChanges`), which `StatusSettles` needs by its meaning.

## 4. The proofs

Eight modules hold the theorems, one for each component, each named after the
module it extends. TLAPS checks them for every value of the constants
that satisfies the named assumptions: any number of tasks, replicas, messages,
controllers, jobs, mutexes, waits, requests and faults, any plan, any expiry, any
time to live, any components, traits, templates and workflows. In each module
an inductive invariant is the conjunction of
named parts; a lemma per part, or per group of actions, shows that a step keeps
it. All safety and action properties that the passing runs check are proved.

The assumptions are what the code guarantees by its constants and its types.
`ConstantsAssumption`, `SignalAssumption` and `LockerAssumption` are types and
distinct model values. `RunAssumption` also says that every place of a plan has a
job of its own (`GenerateJobTasks` makes a JobTask for each) and no batch is
empty. `JobAssumption` says that what exists before the jobs was made by none of
them. `WaiterAssumption` says that a wait is longer than a resync period.
`ServiceAssumption` gives the operations the types of their requests.
`TemplateAssumption` and `RequestAssumption` give the components of templates and
requests the types of the API (`dto/v1`, `model.Traits`), `BuilderAssumption` says
that a name keeps at least one segment, `LoweredAssumption` that what is lowered is
lower case.

### WorkflowEngineProofs

- `TypeCorrect`: `TypeOK`, one lemma per group of actions.
- `DispatchedOnce`: `OneDispatchPerWait`. The property is not inductive: a claim
  could be won while an earlier fresh claim exists. The inductive invariant adds
  that nothing fresh exists of a row that is waiting (`WaitingNotDispatched`).
  Then a claim, which the swap grants only on a waiting row, finds nothing fresh;
  publishing hands the freshness of the claim to the message; and the two steps
  that make a row waiting, InitQueue and Revert, supersede what there was. Every
  other step makes nothing fresh and no row waiting.
- `QueuedStaysCarried`: `QueuedIsCarried`. A controller that has written its row,
  or a message whose controller was started, also carries the task but may go at
  any time. The inductive `QueuedIsDue` leaves those out: a queued row has somebody
  who has yet to write it. It rests on two invariants about everything a process
  has under way: `Engaged` (who has a task, and in which task group) and
  `FirstTerm` (one leader loop, nothing dispatched before its first poll, the
  workers' contexts alive), which hold of every run of the engine.
- `OneControllerAtATime`: `OneControllerPerTask`. The invariant `Tokens` follows
  what gives a task the right to a controller: a row that waits has nothing about
  it; a dispatched one has its dispatcher or one message (`OneSource`); an entry is
  in the hands of one worker (`OneHolder`), which about to start a controller has
  processed the entry and finds no controller (`AboutToRun`); and the entry of a
  controller that runs is acknowledged, or processed by its own process (`OneRun`),
  so that neither ReadGroup nor AutoClaim hands it out to start another. AutoClaim
  after a crash is covered, since the crash takes the controllers with it.

### WorkflowRunProofs

One invariant for `RunTypeCorrect` (`TypeOK`), `BatchesAreBarriers`
(`BatchBarrier`), `AtMostOneLateStart` (`OneLateStart`), `VerdictIsTheJobs`
(`Verdict`) and `ParallelStepsRunAll` (`ParallelRunsAll`). Its core is `Counted`:
the WaitGroup is the number of goroutines inside `runJob`, plus one while a job is
on offer. So `wg.Wait` returns when no goroutine holds a job, and `Done` never
brings it below zero. `Goroutines` says that those goroutines hold different jobs
of the current batch, `Held` what a job's status is meanwhile, `Progress` that the
earlier batches have succeeded, the jobs up to the producer's index are held or
have ended and the rest are untouched, and `LateOnce` that after a late job the
producer stands before its context check.

### CancelSignalProofs

- `SignalTypeCorrect`: `TypeOK`.
- `LateJobsSeeCancellation`: `LateJobsAreCancelled`, an action property. The
  invariant adds that the key is the marker and lasts at least as long as the
  promise, and that no Stop is between its GET and its DEL while there is a promise.
  So a job that claims the key finds it taken, and its look at it finds the marker.
- `CancelIsAskedFor`: `NoSpuriousCancel`. The invariant is that before a request
  the key of a job that has claimed it is its own token, with a life that covers
  its lag: the calls under way and the failed ones so far.

### LockerProofs

- `LockerTypeCorrect`: `TypeOK`.
- `HeldIsOwned`: `HeldWithinTTL`. The invariant adds that an entry that has not
  expired has an owner (`EntryIsOwned`) and that AutoExtend runs for held mutexes
  only (`AutoIsHeld`), so that the ticker of a former owner does not touch an entry.
- `LockerImplementsLock`: `ImplementsLock`. Every step is an acquisition, a release
  or an expiry of the abstract lock, or leaves it as it is (`StepRefines`); a Tick
  that ends the time to live is an expiry, and the revival of an expired entry in
  memory is an acquisition.

### JobControllersProofs

One invariant, over lemmas that say what a step of a job may do at all: it looks,
makes its target, rewrites it or removes it, and makes stale what others have read.

- `JobsTypeCorrect`: `TypeOK`. It needs `Fresh` (what a job has read is what there
  is, or the job is stale): an update writes what was read.
- `CreatedStaysOwn` (`CreatedIsOwn`) and `FailedJobsCleanUp` (`NoOrphans`), from
  `Marked` and `Own`: a job makes its target and nothing else, its tracker knows of
  it or the job is excused, and it is gone when the job failed and cleaned up.
- `DefaultSharesOnce` (`SharedOnce`), from `Locked` (a job that shares by default
  has the lock from its list to the end of run) and `Sole` (what such a job made
  carries the label, is alone, and is not there while another is past its list).
- `CompletedMeansApplied` (`CompletedIsApplied`), from `Attained`, its form from the
  end of run on, and `Fresh`. What is made or updated is as wanted; what is applied
  has all that is wanted, and besides that what another manager holds
  (`AttainedStep`); what is kept was found equal (`SameIsWanted`). Only Deployments
  are applied (`OnlyDeploymentsApply`).
- `RbacOfOthersIsKept` (`ForeignRbacIsKept`), an action property: the label was
  looked at in an earlier call, and `Fresh` says it is still that of the
  application when the write succeeds.

### ReadyWaiterProofs

- `WaiterTypeCorrect`: `TypeOK`.
- `NoWakeupIsLost`: `NoLostWakeup`, an action property. What was delivered and what
  is to come ends with the workload as it is (`Feed`), a steadily ready workload
  has been delivered (`Settled`), the entry of a wait that never shared it is in
  the map (`Own`); then `InTime`: the steady state or the wait is younger than the
  last resync, or the wait has been woken. `Told` says the same of a deletion.

### ApplicationServiceProofs

One invariant of sixteen parts, over lemmas about the operators on rows (`Put`,
`Append`, `Delete` keep ids distinct and in order) and on workflows. What a status
sync may do to the rest is one lemma (`SyncKeeps`).

- `ServiceTypeCorrect`: `TypeOK`.
- `VersionStandsForComponents`: `VersionMeansApplied`, from `Progress`: what a
  request has handled is applied or was an update.
- `StepsFollowComponents`: `StepsCover`. Between its writes a request has rows and
  steps that differ by exactly its lists of added and removed names (`Between`),
  and the workflow it writes is the one it has read (`Synced`).
- `TaskSeesUpdate`: `AutoExecSeesUpdate`, from the same parts and from `Alone`: an
  undisturbed request is alone until its task is built.
- `UndisturbedUpdateIsStored`: `QuietUpdateIsStored`, an action property. `Standing`
  says that the last spec so far for each name stands; that there is a last one is
  shown by a least counterexample. An update works on the row in the map, so `Held`
  says that the rows of an undisturbed request agree with those of its map (`Agree`:
  but for replicas that could not be set to zero), unless a sync has put an outdated
  row; then what an update stores says what its spec sets (`UpdateSays`). `Listings`
  says that a sync puts back a row with the id and name it had.

### JobBuilderProofs

The actions follow each other in one order, and all that is hard is in what they
compute. `BuilderCorrect` says so: in `BuilderInv` the rows are a function of the
request (`resolveComponents`), the executions one of the rows and steps, a request
that was refused had a reason, and what is in the cluster was left by a job. The
properties then follow from lemmas about the operators. None needs induction over
data: a result is said by its positions, a first or last one of which exists
(`FirstPosition`, `LastPosition`, from the well-foundedness of the numbers).

- `CleanupCoversAll`: `CleanupCovers`. `JobIsDeleted`: each job of a row, but that
  of an Ingress, has a resource among those `deleteComponentResources` computes
  for that row. `CleanupStep`: what is deleted covers the executions, since every
  job in them is a row's (`JobOfRow`).
- `RefsFollowClonesAlways`: `RefsFollowClones`. `RowOrigin` and `CloneOf` say which
  template component a row is the clone of, and under which name map; `RewrittenLeaf`
  and `RewrittenTraits` what the rewriting does to a reference; `RewritesFollow` that
  the map has the clone's name for every component of an unambiguous template.
- `DependenciesFirstAlways`: `DependenciesFirst`. A pod is a job of priority Normal,
  and a job of the kinds a pod refers to (`UsedKinds`) is of one before it, whichever
  component it comes from (`JobOfComponent`).
- `MountsResolveAlways`: `MountsResolve`. Each processor gives a mount and a volume of
  one name, or a claim template (`StorageResult`, `NestedResult`, `OuterResult`); the
  aggregation drops a volume for an earlier one of its name only (`VolumeKept`); and
  the application to the workload takes a volume out for a claim template of the name
  it refers to (`PodOfResult`, `GeneratedPod`).
- `ValidIsBuiltAlways`: `ValidIsBuilt`. What validation takes the processors take,
  trait by trait (`LeafTaken`, `NestedTaken`, `TraitsTaken`), apart from the traits
  listed in `Disagree`; what it takes is not refused (`ValidAccepted`) and has a job
  (`ValidHasJob`).

### Only model-checked

- The liveness properties, since fairness and ENABLED are out of the prover's
  reach: `WaitingIsClaimed`, `MessageIsSettled`, `RunReturns`, `CancelArrives`,
  `JobEnds`, `LockReturns`, `StatusSettles`.
- What the folds compute, `dedupeStrings` and `Picks`: their definitions by
  recursion would take induction over data. The theorems hold whatever they return
  (the names a workflow's steps end up with, the overrides that are picked).

## 5. Not modelled, and the plan

Of the properties of the passing runs only liveness is left without a theorem.

Models still to write: the replica count that changes under the leader
(`workersStarted` and `workersCancel` are written by two goroutines without a
lock, `server.go:445`); the trimming of the stream (`redis_streams.go:58`), by
which entries are lost that nobody has read, and the creation of the group at its
end (`:50`); the Kafka queue, whose commit covers the earlier messages too;
`CreateWorkflowTask`, which writes four tables in sequence with a rollback; the
JobInfo records and what `GetTaskStatus` makes of them (a job whose context is
cancelled loses its record, `job/job.go:272`).

Left out for good: REST handlers and assemblers (decoding and routing), the text
template engine (`utils/template`, which nothing calls), caches and clients
(set-up), configuration, tracing, metrics, the lists and getters of the services
(they only read), the wording of errors.

## 6. How to run

    tlc -workers 2 -config EngineFailover.cfg MCWorkflowEngine
    tlapm WorkflowEngineProofs.tla

Definitions whose comment begins with "Seeded fault" are not part of the model.
Each is a variant of the definition after it, with a bug of the kind the property
named for it in `PROJECT.json` is there to catch; substituting it makes TLC report
that property violated.
