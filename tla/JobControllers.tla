--------------------------- MODULE JobControllers ---------------------------
(***************************************************************************)
(* The job controllers (pkg/apiserver/event/workflow/job/job_*.go,         *)
(* shared.go, cleanup_tracker.go), as runJob drives them.                  *)
(*                                                                         *)
(* A job brings one Kubernetes resource to what its component asks for:    *)
(* it resolves sharing under the share lock, reads the resource, creates,  *)
(* updates, applies or keeps it, waits until it is ready, and when it      *)
(* fails it deletes what the tracker says it created.  Jobs run in several *)
(* processes at once, on one cluster that others change too.               *)
(*                                                                         *)
(* Resources of different kinds never meet, so a behaviour has one kind.   *)
(***************************************************************************)
EXTENDS Naturals, FiniteSets

CONSTANTS
  Job, Process, Name, App, Value,
  Item,       \* what a specification may have or leave out: variables, ports, mounts
  Setups,     \* the situations to start from: see Setup
  Central,    \* Redis, as the place of a lock
  Foreign,    \* whoever works on the cluster besides the jobs; its label
  Absent,     \* there is no such resource
  Nobody,     \* the share lock is free
  MaxErrors,  \* bound: failing calls
  MaxForeign  \* bound: changes by others

Kind == {"deployment", "statefulset", "service", "pvc", "configmap", "secret",
         "ingress", "serviceaccount", "role", "rolebinding", "clusterrole",
         "clusterrolebinding"}

\* What the controllers compare: what every specification says something about
\* (image, type, rules), and the items that it lists.
Content == [core : Value, items : SUBSET Item]

\* A resource: who created it, the application its label names, the content that is
\* compared, what is not (replicas), the share label; and the items and the share
\* label ("label") that another field manager than that of apply owns.
Resource ==
  [by : Job \cup {Foreign}, app : App \cup {Foreign}, main : Content, extra : Value,
   shared : BOOLEAN, held : SUBSET (Item \cup {"label"}), immutable : BOOLEAN,
   ready : BOOLEAN]

Setup ==
  [kind : Kind, locker : {"redis", "memory"}, process : [Job -> Process],
   name : [Job -> Name], app : [Job -> App],
   share : [Job -> {"none", "default", "ignore", "force"}],
   main : [Job -> Content], extra : [Job -> Value],
   before : [Name -> Resource \cup {Absent}]]

\* What is there before the jobs start was created by none of them.
ASSUME JobAssumption ==
  /\ Setups \subseteq Setup
  /\ \A x \in Setups : \A n \in Name :
       x.before[n] # Absent => x.before[n].by = Foreign
  /\ Central \notin Process
  /\ Foreign \notin Job \cup App
  /\ Absent \notin Resource \cup Value /\ "label" \notin Item
  /\ Nobody \notin Job
  /\ MaxErrors \in Nat /\ MaxForeign \in Nat

VARIABLES
  setup,    \* kind and backend of the lock, targets, strategies and contents of the jobs
  cluster,  \* the resources of the kind
  lock,     \* who has the share lock, at each place where one is kept
  pc,       \* where each job is
  live,     \* the jobs whose context is not cancelled
  got,      \* what each job read last
  mark,     \* the job's entry in its cleanupTracker
  status,   \* JobTask.Status
  stale,    \* the jobs whose target was written by others since they read or wrote it
  errors,   \* calls that failed
  changes,  \* changes by others
  excused,  \* history: the jobs that cannot know of a resource they left behind
  lapsed    \* history: a live job has lost the share lock to its time to live

vars == <<setup, cluster, lock, pc, live, got, mark, status, stale, errors,
          changes, excused, lapsed>>

L == INSTANCE Lock WITH Key <- Process \cup {Central}, Client <- Job, holder <- lock

-----------------------------------------------------------------------------
TypeOK ==
  /\ setup \in Setups
  /\ cluster \in [Name -> Resource \cup {Absent}]
  /\ L!LockTypeOK
  /\ pc \in [Job -> {"run", "lock", "list", "get", "apply", "write", "wait", "clean",
                     "done", "crashed"}]
  /\ live \subseteq Job
  /\ got \in [Job -> Resource \cup {Absent}]
  /\ mark \in [Job -> {"none", "created", "observed"}]
  /\ status \in [Job -> {"running", "completed", "skipped", "failed", "cancelled",
                         "timeout"}]
  /\ stale \subseteq Job
  /\ errors \in 0 .. MaxErrors /\ changes \in 0 .. MaxForeign
  /\ excused \subseteq Job
  /\ lapsed \in BOOLEAN

Init ==
  /\ setup \in Setups
  /\ cluster = setup.before
  /\ L!LockInit
  /\ pc = [j \in Job |-> "run"]
  /\ live = Job
  /\ got = [j \in Job |-> Absent]
  /\ mark = [j \in Job |-> "none"]
  /\ status = [j \in Job |-> "running"]
  /\ stale = {}
  /\ errors = 0 /\ changes = 0
  /\ excused = {}
  /\ lapsed = FALSE

-----------------------------------------------------------------------------
(***************************************************************************)
(* The controllers.  waits is what wait waits for; marksFirst says that    *)
(* the tracker is told before the resource is created.                     *)
(***************************************************************************)
DeployJobCtl == [waits |-> "ready", marksFirst |-> FALSE]

DeployStatefulSetJobCtl == [waits |-> "ready", marksFirst |-> FALSE]

DeployServiceJobCtl == [waits |-> "exists", marksFirst |-> TRUE]

DeployPVCJobCtl == [waits |-> "exists", marksFirst |-> FALSE]

DeployIngressJobCtl == [waits |-> "exists", marksFirst |-> FALSE]

DeployConfigMapJobCtl == [waits |-> "nothing", marksFirst |-> FALSE]

DeploySecretJobCtl == [waits |-> "nothing", marksFirst |-> FALSE]

DeployServiceAccountJobCtl == [waits |-> "nothing", marksFirst |-> FALSE]

DeployRoleJobCtl == [waits |-> "nothing", marksFirst |-> FALSE]

DeployRoleBindingJobCtl == [waits |-> "nothing", marksFirst |-> FALSE]

DeployClusterRoleJobCtl == [waits |-> "nothing", marksFirst |-> FALSE]

DeployClusterRoleBindingJobCtl == [waits |-> "nothing", marksFirst |-> FALSE]

initJobCtl ==
  [deployment |-> DeployJobCtl, statefulset |-> DeployStatefulSetJobCtl,
   service |-> DeployServiceJobCtl, pvc |-> DeployPVCJobCtl,
   ingress |-> DeployIngressJobCtl, configmap |-> DeployConfigMapJobCtl,
   secret |-> DeploySecretJobCtl, serviceaccount |-> DeployServiceAccountJobCtl,
   role |-> DeployRoleJobCtl, rolebinding |-> DeployRoleBindingJobCtl,
   clusterrole |-> DeployClusterRoleJobCtl,
   clusterrolebinding |-> DeployClusterRoleBindingJobCtl]

ctl == initJobCtl[setup.kind]

Rbac == {"serviceaccount", "role", "rolebinding", "clusterrole", "clusterrolebinding"}

target(j) == setup.name[j]

-----------------------------------------------------------------------------
(***************************************************************************)
(* What run does with a resource that exists already.                      *)
(***************************************************************************)
\* Seeded fault: the comparison finds no difference.
isDeploymentChangedNot(j) == FALSE

\* Containers and volumes are compared; replicas are not.
isDeploymentChanged(j) == got[j].main # setup.main[j]

\* Size and access modes are compared.
shouldUpdatePVC(j) == got[j].main # setup.main[j]

\* Type, keys and lengths of the values are compared; a target that has any data
\* has them as StringData, which counts as a difference.
equalSecretPayload(j) == got[j].main = setup.main[j] /\ setup.main[j].items = {}

isManagedResource(j) == got[j].app = setup.app[j]

\* Labels, annotations and rules (or subjects and reference) are compared.
shouldUpdateRole(j) ==
  got[j].main # setup.main[j] \/ got[j].shared # (setup.share[j] # "none")

runDeployment(j) == IF isDeploymentChanged(j) THEN "apply" ELSE "keep"

runStatefulSet(j) == "refuse"

ApplyService(j) == "update"

runPVC(j) == IF shouldUpdatePVC(j) THEN "update" ELSE "keep"

deployConfigMap(j) == "update"

runSecret(j) ==
  CASE ~got[j].immutable -> "update"
    [] got[j].immutable /\ equalSecretPayload(j) -> "keep"
    [] OTHER -> "refuse"

runIngress(j) == "update"

runRbac(j) == IF isManagedResource(j) /\ shouldUpdateRole(j) THEN "update" ELSE "keep"

runExisting(j) ==
  CASE setup.kind = "deployment"  -> runDeployment(j)
    [] setup.kind = "statefulset" -> runStatefulSet(j)
    [] setup.kind = "service"     -> ApplyService(j)
    [] setup.kind = "pvc"         -> runPVC(j)
    [] setup.kind = "configmap"   -> deployConfigMap(j)
    [] setup.kind = "secret"      -> runSecret(j)
    [] setup.kind = "ingress"     -> runIngress(j)
    [] setup.kind \in Rbac        -> runRbac(j)

-----------------------------------------------------------------------------
(***************************************************************************)
(* How a job moves on.                                                     *)
(***************************************************************************)
\* Seeded fault: a resource that was found is taken for one that was created.
markResourceObservedCreated(j) == mark' = [mark EXCEPT ![j] = "created"]

markResourceObserved(j) ==
  mark' = IF mark[j] = "none" THEN [mark EXCEPT ![j] = "observed"] ELSE mark

\* Seeded fault: the tracker is not told.
MarkResourceCreatedNot(j) == mark' = mark

MarkResourceCreated(j) ==
  mark' = IF mark[j] = "none" THEN [mark EXCEPT ![j] = "created"] ELSE mark

\* A call fails: the API server or Redis reports an error, or the context is
\* cancelled.
CallFails(j) ==
  IF j \in live THEN errors < MaxErrors /\ errors' = errors + 1 ELSE UNCHANGED errors

\* Where the lock of the job's process is kept.
place(j) == IF setup.locker = "redis" THEN Central ELSE setup.process[j]

\* The deferred unlock of run, if the lock was taken.  Redis may not be told.
unlock(j) ==
  \/ L!Release(place(j), j)
  \/ lock[place(j)] = j /\ setup.locker = "redis" /\ UNCHANGED lock

\* run returns nil, and wait begins where there is one.
RunOk(j) ==
  /\ unlock(j)
  /\ IF ctl.waits = "nothing"
     THEN pc' = [pc EXCEPT ![j] = "done"] /\ status' = [status EXCEPT ![j] = "completed"]
     ELSE pc' = [pc EXCEPT ![j] = "wait"] /\ UNCHANGED status

\* Run returns an error: runJob calls Clean and classifies the error.
Fail(j, s) ==
  /\ pc' = [pc EXCEPT ![j] = "clean"]
  /\ status' = [status EXCEPT ![j] = s]

RunFails(j) == unlock(j) /\ Fail(j, IF j \in live THEN "failed" ELSE "cancelled")

Skip(j) ==
  /\ pc' = [pc EXCEPT ![j] = "done"]
  /\ status' = [status EXCEPT ![j] = "skipped"]

Goto(j, where) == pc' = [pc EXCEPT ![j] = where] /\ UNCHANGED status

-----------------------------------------------------------------------------
(***************************************************************************)
(* resolveSharedResource.                                                  *)
(***************************************************************************)
resolveSharedResource(j) ==
  /\ pc[j] = "run"
  /\ CASE setup.share[j] = "ignore" -> Skip(j)
       [] setup.share[j] = "default" -> Goto(j, "lock")
       [] OTHER -> Goto(j, "get")
  /\ UNCHANGED <<setup, cluster, lock, live, got, mark, stale, errors, changes,
                 excused, lapsed>>

\* Seeded fault: the lock is not taken.
acquireShareLockNot(j) ==
  /\ pc[j] = "lock"
  /\ Goto(j, "list")
  /\ UNCHANGED <<setup, cluster, lock, live, got, mark, stale, errors, changes,
                 excused, lapsed>>

\* Lock retries until it has the key or the context ends.
acquireShareLock(j) ==
  /\ pc[j] = "lock"
  /\ \/ j \in live /\ L!Acquire(place(j), j) /\ Goto(j, "list") /\ UNCHANGED errors
     \/ CallFails(j) /\ Fail(j, IF j \in live THEN "failed" ELSE "cancelled")
        /\ UNCHANGED lock
  /\ UNCHANGED <<setup, cluster, live, got, mark, stale, changes, excused, lapsed>>

\* A list by the share label; the lock is kept only if nothing is found.
hasSharedResources(j) ==
  /\ pc[j] = "list"
  /\ \/ /\ j \in live
        /\ IF \E n \in Name : cluster[n] # Absent /\ cluster[n].shared
           THEN unlock(j) /\ Skip(j)
           ELSE UNCHANGED lock /\ Goto(j, "get")
        /\ UNCHANGED errors
     \/ CallFails(j) /\ RunFails(j)
  /\ UNCHANGED <<setup, cluster, live, got, mark, stale, changes, excused, lapsed>>

-----------------------------------------------------------------------------
(***************************************************************************)
(* The rest of run.                                                        *)
(***************************************************************************)
\* The first Get.  The Service controller marks here and reads again.
Get(j) ==
  /\ pc[j] = "get"
  /\ \/ /\ j \in live
        /\ got' = [got EXCEPT ![j] = cluster[target(j)]]
        /\ stale' = stale \ {j}
        /\ IF ctl.marksFirst
           THEN /\ IF got'[j] = Absent THEN MarkResourceCreated(j)
                                       ELSE markResourceObserved(j)
                /\ Goto(j, "apply")
           ELSE UNCHANGED mark /\ Goto(j, "write")
        /\ UNCHANGED <<lock, errors>>
     \/ CallFails(j) /\ RunFails(j) /\ UNCHANGED <<got, stale, mark>>
  /\ UNCHANGED <<setup, cluster, live, changes, excused, lapsed>>

\* ApplyService, its own Get.
GetService(j) ==
  /\ pc[j] = "apply"
  /\ \/ /\ j \in live
        /\ got' = [got EXCEPT ![j] = cluster[target(j)]]
        /\ stale' = stale \ {j}
        /\ Goto(j, "write")
        /\ UNCHANGED <<lock, errors>>
     \/ CallFails(j) /\ RunFails(j) /\ UNCHANGED <<got, stale>>
  /\ UNCHANGED <<setup, cluster, live, mark, changes, excused, lapsed>>

\* Seeded fault: the resource is created without its specification.
NewBlank(j) ==
  [by |-> j, app |-> setup.app[j], main |-> Absent, extra |-> setup.extra[j],
   shared |-> setup.share[j] # "none", held |-> {}, immutable |-> FALSE, ready |-> FALSE]

\* The field manager of Create is not that of apply.
New(j) ==
  [by |-> j, app |-> setup.app[j], main |-> setup.main[j], extra |-> setup.extra[j],
   shared |-> setup.share[j] # "none",
   held |-> setup.main[j].items \cup (IF setup.share[j] # "none" THEN {"label"} ELSE {}),
   immutable |-> FALSE, ready |-> FALSE]

\* The resource as the job wants it; its status is not the job's to write.  (Only
\* Deployments are applied: here it does not matter who owns what.)
Updated(j, r) ==
  [r EXCEPT !.app = setup.app[j], !.main = setup.main[j], !.extra = setup.extra[j],
            !.shared = setup.share[j] # "none"]

\* Server-side apply: what the target says is forced upon the resource, what it
\* leaves out goes only if no other field manager owns it.
Applied(j, r) ==
  [r EXCEPT !.app = setup.app[j], !.extra = setup.extra[j],
            !.main = [core |-> setup.main[j].core,
                      items |-> setup.main[j].items \cup (r.main.items \cap r.held)],
            !.shared = setup.share[j] # "none" \/ (r.shared /\ "label" \in r.held)]

Store(j, r) ==
  /\ cluster' = [cluster EXCEPT ![target(j)] = r]
  /\ stale' = (stale \cup {k \in Job : target(k) = target(j)}) \ {j}

\* Create; refused when there is one by now.  An error reply may hide a success.
\* A Service that others deleted between the two reads stays "observed".
Create(j) ==
  /\ pc[j] = "write"
  /\ got[j] = Absent
  /\ \/ /\ j \in live
        /\ cluster[target(j)] = Absent
        /\ Store(j, New(j))
        /\ MarkResourceCreated(j)
        /\ RunOk(j)
        /\ excused' = IF mark[j] = "observed" THEN excused \cup {j} ELSE excused
        /\ UNCHANGED errors
     \/ /\ j \in live
        /\ cluster[target(j)] # Absent
        /\ RunFails(j)
        /\ UNCHANGED <<cluster, stale, mark, errors, excused>>
     \/ /\ j \in live
        /\ cluster[target(j)] = Absent
        /\ Store(j, New(j))
        /\ CallFails(j) /\ RunFails(j)
        /\ excused' = IF mark[j] = "created" THEN excused ELSE excused \cup {j}
        /\ UNCHANGED mark
     \/ /\ CallFails(j) /\ RunFails(j)
        /\ UNCHANGED <<cluster, stale, mark, excused>>
  /\ UNCHANGED <<setup, live, got, changes, lapsed>>

\* Seeded fault: the resource version is not sent.
UpdateBlindly(j) ==
  /\ pc[j] = "write"
  /\ got[j] # Absent /\ runExisting(j) = "update"
  /\ j \in live
  /\ cluster[target(j)] # Absent
  /\ Store(j, Updated(j, cluster[target(j)]))
  /\ markResourceObserved(j)
  /\ RunOk(j)
  /\ UNCHANGED <<setup, live, got, errors, changes, excused, lapsed>>

\* Update with the resource version that was read: refused if it is stale.
Update(j) ==
  /\ pc[j] = "write"
  /\ got[j] # Absent /\ runExisting(j) = "update"
  /\ \/ /\ j \in live /\ j \notin stale
        /\ Store(j, Updated(j, cluster[target(j)]))
        /\ markResourceObserved(j)
        /\ RunOk(j)
        /\ UNCHANGED errors
     \/ /\ j \in live /\ j \in stale
        /\ RunFails(j)
        /\ UNCHANGED <<cluster, stale, mark, errors>>
     \/ /\ j \in live /\ j \notin stale
        /\ Store(j, Updated(j, cluster[target(j)]))
        /\ CallFails(j) /\ RunFails(j)
        /\ UNCHANGED mark
     \/ /\ CallFails(j) /\ RunFails(j)
        /\ UNCHANGED <<cluster, stale, mark>>
  /\ UNCHANGED <<setup, live, got, changes, excused, lapsed>>

\* ApplyDeployment: a forced patch without a version.  It creates the resource
\* again if it has been deleted since, and the tracker only knows it as observed.
ApplyDeployment(j) ==
  /\ pc[j] = "write"
  /\ got[j] # Absent /\ runExisting(j) = "apply"
  /\ \/ /\ j \in live
        /\ IF cluster[target(j)] = Absent
           THEN Store(j, [New(j) EXCEPT !.held = {}]) /\ excused' = excused \cup {j}
           ELSE Store(j, Applied(j, cluster[target(j)])) /\ UNCHANGED excused
        /\ \/ markResourceObserved(j) /\ RunOk(j) /\ UNCHANGED errors
           \/ CallFails(j) /\ RunFails(j) /\ UNCHANGED mark
     \/ /\ CallFails(j) /\ RunFails(j)
        /\ UNCHANGED <<cluster, stale, mark, excused>>
  /\ UNCHANGED <<setup, live, got, changes, lapsed>>

Keep(j) ==
  /\ pc[j] = "write"
  /\ got[j] # Absent /\ runExisting(j) = "keep"
  /\ markResourceObserved(j)
  /\ RunOk(j)
  /\ UNCHANGED <<setup, cluster, live, got, stale, errors, changes, excused, lapsed>>

Refuse(j) ==
  /\ pc[j] = "write"
  /\ got[j] # Absent /\ runExisting(j) = "refuse"
  /\ RunFails(j)
  /\ UNCHANGED <<setup, cluster, live, got, mark, stale, errors, changes, excused,
                 lapsed>>

-----------------------------------------------------------------------------
(***************************************************************************)
(* wait, and Clean.                                                        *)
(***************************************************************************)
Ready(j) ==
  LET r == cluster[target(j)]
  IN  r # Absent /\ (ctl.waits = "ready" => r.ready)

Completed(j) ==
  /\ pc[j] = "wait"
  /\ Ready(j)
  /\ pc' = [pc EXCEPT ![j] = "done"]
  /\ status' = [status EXCEPT ![j] = "completed"]
  /\ UNCHANGED <<setup, cluster, lock, live, got, mark, stale, errors, changes,
                 excused, lapsed>>

\* Seeded fault: only the context and errors end the wait.
WaitEndsNoTimeout(j) ==
  /\ pc[j] = "wait"
  /\ \/ j \notin live /\ Fail(j, "cancelled") /\ UNCHANGED errors
     \/ j \in live /\ CallFails(j) /\ Fail(j, "failed")
  /\ UNCHANGED <<setup, cluster, lock, live, got, mark, stale, changes, excused,
                 lapsed>>

\* The time-out, the end of the context, or a failing look at the resource.
WaitEnds(j) ==
  /\ pc[j] = "wait"
  /\ \/ Fail(j, "timeout") /\ UNCHANGED errors
     \/ j \notin live /\ Fail(j, "cancelled") /\ UNCHANGED errors
     \/ j \in live /\ CallFails(j) /\ Fail(j, "failed")
  /\ UNCHANGED <<setup, cluster, lock, live, got, mark, stale, changes, excused,
                 lapsed>>

\* Clean deletes by name, in a context of its own; an error is only logged.
Clean(j) ==
  /\ pc[j] = "clean"
  /\ Goto(j, "done")
  /\ \/ /\ mark[j] = "created"
        /\ Store(j, Absent)
        /\ UNCHANGED <<errors, excused>>
     \/ /\ mark[j] = "created"
        /\ errors < MaxErrors /\ errors' = errors + 1
        /\ excused' = excused \cup {j}
        /\ UNCHANGED <<cluster, stale>>
     \/ /\ mark[j] # "created"
        /\ UNCHANGED <<cluster, stale, errors, excused>>
  /\ UNCHANGED <<setup, lock, live, got, mark, changes, lapsed>>

-----------------------------------------------------------------------------
(***************************************************************************)
(* The surroundings.                                                       *)
(***************************************************************************)
\* The cancellation watcher, or the pool, ends the context of a job.
CancelContext(j) ==
  /\ j \in live
  /\ pc[j] \notin {"done", "crashed"}
  /\ live' = live \ {j}
  /\ UNCHANGED <<setup, cluster, lock, pc, got, mark, status, stale, errors,
                 changes, excused, lapsed>>

\* A process ends; its locks in memory go with it.
Crash(p) ==
  /\ errors < MaxErrors /\ errors' = errors + 1
  /\ \E j \in Job : setup.process[j] = p /\ pc[j] \notin {"done", "crashed"}
  /\ pc' = [j \in Job |-> IF setup.process[j] = p /\ pc[j] # "done" THEN "crashed"
                          ELSE pc[j]]
  /\ lock' = [lock EXCEPT ![p] = Nobody]
  /\ UNCHANGED <<setup, cluster, live, got, mark, status, stale, changes, excused,
                 lapsed>>

\* The share lock is held for longer than its time to live: it is not extended.
LockExpires(k) ==
  /\ L!Expire(k)
  /\ lapsed' = (lapsed \/ pc[lock[k]] \notin {"done", "crashed"})
  /\ UNCHANGED <<setup, cluster, pc, live, got, mark, status, stale, errors,
                 changes, excused>>

\* The pods of a workload become ready, or stop being so.
Rollout(n) ==
  /\ ctl.waits = "ready"
  /\ cluster[n] # Absent
  /\ \E j \in Job : pc[j] = "wait" /\ target(j) = n
  /\ cluster' = [cluster EXCEPT ![n].ready = ~@]
  /\ UNCHANGED <<setup, lock, pc, live, got, mark, status, stale, errors, changes,
                 excused, lapsed>>

\* Somebody else creates, takes over or deletes a resource.
Others(n) ==
  /\ changes < MaxForeign /\ changes' = changes + 1
  /\ \/ /\ cluster[n] = Absent
        /\ \E c \in Content :
             cluster' = [cluster EXCEPT ![n] =
               [by |-> Foreign, app |-> Foreign, main |-> c, extra |-> c.core,
                shared |-> FALSE, held |-> c.items, immutable |-> FALSE, ready |-> FALSE]]
     \/ /\ cluster[n] # Absent
        /\ cluster' = [cluster EXCEPT ![n].app = Foreign]
     \/ /\ cluster[n] # Absent
        /\ cluster' = [cluster EXCEPT ![n] = Absent]
  /\ stale' = stale \cup {j \in Job : target(j) = n}
  /\ UNCHANGED <<setup, lock, pc, live, got, mark, status, errors, excused, lapsed>>

JobStep(j) ==
  \/ resolveSharedResource(j) \/ acquireShareLock(j) \/ hasSharedResources(j)
  \/ Get(j) \/ GetService(j) \/ Create(j) \/ Update(j) \/ ApplyDeployment(j)
  \/ Keep(j) \/ Refuse(j) \/ Completed(j) \/ WaitEnds(j) \/ Clean(j)

Terminated ==
  /\ \A j \in Job : pc[j] \in {"done", "crashed"}
  /\ UNCHANGED vars

Next ==
  \/ \E j \in Job : JobStep(j) \/ CancelContext(j)
  \/ \E p \in Process : Crash(p)
  \/ \E k \in Process \cup {Central} : LockExpires(k)
  \/ \E n \in Name : Rollout(n) \/ Others(n)
  \/ Terminated

Spec == Init /\ [][Next]_vars

\* Calls return, timers fire, and the lock of a dead process expires.
FairSpec ==
  /\ Spec
  /\ \A j \in Job : WF_vars(JobStep(j))
  /\ \A k \in Process \cup {Central} : WF_vars(LockExpires(k))

-----------------------------------------------------------------------------
(***************************************************************************)
(* Properties.                                                             *)
(***************************************************************************)
Failed(j) == status[j] \in {"failed", "cancelled", "timeout"}

\* A resource the tracker holds as created is there and is the job's own, until
\* the job cleans up, whatever the other jobs do to it: no job deletes or
\* replaces what another one is waiting for.  (The Service controller marks its
\* target before it creates it.  Deletions by others are out of its hands.)
CreatedIsOwn ==
  \A j \in Job :
    mark[j] = "created" /\ pc[j] \in {"wait", "clean"}
    /\ setup.kind # "service" /\ changes = 0
    => cluster[target(j)] # Absent /\ cluster[target(j)].by = j

\* A job that has failed, was cancelled or timed out leaves no resource behind
\* that it created, unless it could not know of it (the reply to the create was
\* lost; a forced apply, or the second read of the Service controller, revived
\* what had been deleted since the first read) or its delete failed.
NoOrphans ==
  \A j \in Job :
    pc[j] = "done" /\ Failed(j) /\ j \notin excused
    => \A n \in Name : cluster[n] # Absent => cluster[n].by # j

\* The jobs take the same lock: Redis keeps one for all processes.
OneLock == setup.locker = "redis" \/ \A j, k \in Job : setup.process[j] = setup.process[k]

\* No job without a strategy has the name of a job that shares by default: its
\* update would take the share label off.
LabelStays ==
  \A j, k \in Job : setup.share[j] = "default" /\ target(k) = target(j)
                    => setup.share[k] # "none"

MadeByDefault(n) ==
  /\ cluster[n] # Absent
  /\ cluster[n].by \in Job
  /\ setup.share[cluster[n].by] = "default"

\* Jobs that share a resource by the default strategy create it once, as long as
\* they use the same lock and hold it for less than its time to live.
SharedOnce ==
  ~lapsed /\ OneLock /\ LabelStays
  => \A n, m \in Name : MadeByDefault(n) /\ MadeByDefault(m) => n = m

\* The resource says all that the job wants, and nothing else; a Deployment may
\* have more items, but those only that another field manager holds.
AsWanted(j, r) ==
  /\ r.main.core = setup.main[j].core
  /\ setup.main[j].items \subseteq r.main.items
  /\ r.main.items \ setup.main[j].items
       \subseteq IF setup.kind = "deployment" THEN r.held ELSE {}

\* A completed job has left its target as it wants it, if nobody has written the
\* target since, whether it created, updated, applied or kept it; RBAC objects of
\* others excepted.  What the creator of a Deployment has set is not taken away by
\* a target that no longer has it.
CompletedIsApplied ==
  \A j \in Job :
    status[j] = "completed" /\ j \notin stale
    /\ (setup.kind \in Rbac /\ got[j] # Absent => isManagedResource(j))
    => cluster[target(j)] # Absent /\ AsWanted(j, cluster[target(j)])

\* No job ever writes an RBAC object that does not carry its application's label
\* at that moment, although the label is looked at in an earlier call.
ForeignRbacIsKept ==
  [][\A j \in Job, n \in Name :
       setup.kind \in Rbac /\ cluster[n] # Absent /\ cluster[n].app # setup.app[j]
       /\ target(j) = n /\ pc[j] = "write" /\ pc'[j] # "write"
       => cluster'[n] = cluster[n] \/ pc'[j] = "crashed"]_vars

\* Every job ends: calls return, and wait and the share lock give up in time.
JobEnds == \A j \in Job : <>(pc[j] \in {"done", "crashed"})
=============================================================================
