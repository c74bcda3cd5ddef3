------------------------ MODULE JobControllersProofs ------------------------
(***************************************************************************)
(* Proofs about JobControllers, for any number of jobs, processes and      *)
(* names, any mixture of kinds and share strategies, and any number of     *)
(* failing calls and of changes by others.                                 *)
(***************************************************************************)
EXTENDS JobControllers, TLAPS

\* A job that has read its target and is about to write: as long as nobody has
\* written the target since, what it read is what there is.
Fresh ==
  \A j \in Job : pc[j] = "write" /\ j \notin stale =>
    /\ cluster[target(j)] = Absent <=> got[j] = Absent
    /\ got[j] # Absent => /\ cluster[target(j)].app = got[j].app
                          /\ cluster[target(j)].main = got[j].main

\* A job is completed at its end only.
Ended == \A j \in Job : status[j] = "completed" => pc[j] = "done"

\* CompletedIsApplied, from the end of run on.
Attained ==
  \A j \in Job :
    (pc[j] = "wait" \/ status[j] = "completed") /\ j \notin stale
    /\ (setup.kind \in Rbac /\ got[j] # Absent => isManagedResource(j))
    => cluster[target(j)] # Absent /\ AsWanted(j, cluster[target(j)])

\* The tracker is told of a creation when run ends; the Service controller apart.
Marked ==
  \A j \in Job : setup.kind # "service" /\ mark[j] = "created"
                 => pc[j] \in {"wait", "clean", "done", "crashed"}

\* A job creates its target and nothing else, its tracker knows of it unless the
\* job is excused, and it is gone when the job has failed and cleaned up.
Own ==
  \A j \in Job, n \in Name : cluster[n] # Absent /\ cluster[n].by = j =>
    /\ target(j) = n
    /\ j \notin excused => mark[j] = "created" /\ ~(pc[j] = "done" /\ Failed(j))

Critical(j) == setup.share[j] = "default" /\ pc[j] \in {"list", "get", "apply", "write"}

\* A job that shares by default has the lock from its list to the end of run.
Locked == ~lapsed => \A j \in Job : Critical(j) => lock[place(j)] = j

\* What such a job created carries the share label, is not there while another one
\* is past its list, and is alone.
Sole ==
  ~lapsed /\ OneLock /\ LabelStays =>
    /\ \A n \in Name : MadeByDefault(n) => cluster[n].shared
    /\ \A j \in Job : Critical(j) /\ pc[j] # "list" => \A n \in Name : ~MadeByDefault(n)
    /\ \A n, m \in Name : MadeByDefault(n) /\ MadeByDefault(m) => n = m

IInv ==
  TypeOK /\ Fresh /\ Ended /\ Attained /\ Marked /\ CreatedIsOwn /\ Own /\ Locked /\ Sole

-----------------------------------------------------------------------------
(***************************************************************************)
(* What a step of a job does to the cluster.                               *)
(***************************************************************************)
Makes(j) ==
  /\ pc[j] = "write"
  /\ cluster[target(j)] = Absent
  /\ \/ cluster' = [cluster EXCEPT ![target(j)] = New(j)]
     \/ cluster' = [cluster EXCEPT ![target(j)] = [New(j) EXCEPT !.held = {}]]

\* Only a Deployment is applied.
Rewrites(j) ==
  /\ pc[j] = "write" /\ got[j] # Absent
  /\ cluster[target(j)] # Absent
  /\ \/ cluster' = [cluster EXCEPT ![target(j)] = Updated(j, cluster[target(j)])]
     \/ /\ setup.kind = "deployment"
        /\ cluster' = [cluster EXCEPT ![target(j)] = Applied(j, cluster[target(j)])]

Removes(j) ==
  /\ pc[j] = "clean" /\ mark[j] = "created"
  /\ cluster' = [cluster EXCEPT ![target(j)] = Absent]

\* The parts of a setup have the types of Setup.
LEMMA SetupType ==
  ASSUME TypeOK
  PROVE  /\ setup.kind \in Kind /\ setup.locker \in {"redis", "memory"}
         /\ setup.process \in [Job -> Process] /\ setup.name \in [Job -> Name]
         /\ setup.app \in [Job -> App]
         /\ setup.share \in [Job -> {"none", "default", "ignore", "force"}]
         /\ setup.main \in [Job -> Content] /\ setup.extra \in [Job -> Value]
         /\ \A j \in Job : target(j) \in Name
<1>1. setup \in Setup
  BY JobAssumption DEF TypeOK
<1>2. QED
  BY <1>1 DEF Setup, target

\* What a job creates, and what it makes of what there is, is a resource.
LEMMA WrittenType ==
  ASSUME TypeOK, NEW j \in Job
  PROVE  /\ New(j) \in Resource /\ [New(j) EXCEPT !.held = {}] \in Resource
         /\ \A r \in Resource : Updated(j, r) \in Resource /\ Applied(j, r) \in Resource
<1>0. setup.main[j] \in Content /\ setup.main[j].items \subseteq Item
      /\ setup.main[j].core \in Value
  BY SetupType DEF Content
<1>1. New(j) \in Resource
  BY <1>0, SetupType DEF New, Resource
<1>2. [New(j) EXCEPT !.held = {}] \in Resource
  BY <1>1 DEF Resource
<1>3. ASSUME NEW r \in Resource
      PROVE  Updated(j, r) \in Resource /\ Applied(j, r) \in Resource
  <2>1. Updated(j, r) \in Resource
    BY <1>0, SetupType DEF Updated, Resource
  <2>2. [core |-> setup.main[j].core,
         items |-> setup.main[j].items \cup (r.main.items \cap r.held)] \in Content
    BY <1>0 DEF Resource, Content
  <2>3. (setup.share[j] # "none" \/ (r.shared /\ "label" \in r.held)) \in BOOLEAN
    OBVIOUS
  <2>4. Applied(j, r) \in Resource
    BY <2>2, <2>3, SetupType DEF Applied, Resource
  <2>5. QED
    BY <2>1, <2>4
<1>4. QED
  BY <1>1, <1>2, <1>3

\* A job's step leaves what the other jobs know as it is; it may make what they
\* read stale.
LEMMA JobFrame ==
  ASSUME TypeOK, NEW j \in Job, JobStep(j)
  PROVE  /\ UNCHANGED <<setup, live, changes, lapsed>>
         /\ \A k \in Job : k # j =>
              /\ pc'[k] = pc[k] /\ mark'[k] = mark[k] /\ status'[k] = status[k]
              /\ got'[k] = got[k]
              /\ k \in excused' <=> k \in excused
              /\ k \in stale => k \in stale'
         /\ excused \subseteq excused'
         /\ mark[j] = "created" => mark'[j] = "created"
         /\ pc[j] \notin {"done", "crashed"}
<1> USE DEF TypeOK, RunOk, RunFails, Fail, Goto, Skip, Store, markResourceObserved,
            MarkResourceCreated
<1>1. CASE resolveSharedResource(j)
  BY <1>1 DEF resolveSharedResource
<1>2. CASE acquireShareLock(j)
  BY <1>2 DEF acquireShareLock
<1>3. CASE hasSharedResources(j)
  BY <1>3 DEF hasSharedResources
<1>4. CASE Get(j)
  BY <1>4 DEF Get
<1>5. CASE GetService(j)
  BY <1>5 DEF GetService
<1>6. CASE Create(j)
  BY <1>6 DEF Create
<1>7. CASE Update(j)
  BY <1>7 DEF Update
<1>8. CASE ApplyDeployment(j)
  BY <1>8 DEF ApplyDeployment
<1>9. CASE Keep(j) \/ Refuse(j)
  BY <1>9 DEF Keep, Refuse
<1>10. CASE Completed(j) \/ WaitEnds(j)
  BY <1>10 DEF Completed, WaitEnds
<1>11. CASE Clean(j)
  BY <1>11 DEF Clean
<1>12. QED
  BY <1>1, <1>2, <1>3, <1>4, <1>5, <1>6, <1>7, <1>8, <1>9, <1>10, <1>11 DEF JobStep

\* Only the Service controller tells its tracker before it creates.
LEMMA MarksFirst ==
  ASSUME TypeOK, setup.kind # "service"
  PROVE  ~ctl.marksFirst
<1> USE DEF ctl, initJobCtl
<1>1. CASE setup.kind \in {"deployment", "statefulset", "pvc", "ingress"}
  BY <1>1 DEF DeployJobCtl, DeployStatefulSetJobCtl, DeployPVCJobCtl, DeployIngressJobCtl
<1>2. CASE setup.kind \in {"configmap", "secret"}
  BY <1>2 DEF DeployConfigMapJobCtl, DeploySecretJobCtl
<1>3. CASE setup.kind \in Rbac
  BY <1>3 DEF Rbac, DeployServiceAccountJobCtl, DeployRoleJobCtl, DeployRoleBindingJobCtl,
              DeployClusterRoleJobCtl, DeployClusterRoleBindingJobCtl
<1>4. QED
  BY <1>1, <1>2, <1>3, SetupType DEF Kind, Rbac

\* Only the Deployment controller applies.
LEMMA OnlyDeploymentsApply ==
  ASSUME TypeOK, NEW j \in Job, runExisting(j) = "apply"
  PROVE  setup.kind = "deployment"
<1> USE DEF runExisting, Rbac
<1>0. setup.kind \in Kind
  BY SetupType
<1>1. CASE setup.kind \in {"statefulset", "service", "configmap", "ingress"}
  BY <1>1 DEF runStatefulSet, ApplyService, deployConfigMap, runIngress
<1>2. CASE setup.kind \in {"pvc", "secret"}
  BY <1>2 DEF runPVC, runSecret
<1>3. CASE setup.kind \in Rbac
  BY <1>3 DEF runRbac
<1>4. QED
  BY <1>0, <1>1, <1>2, <1>3 DEF Kind

\* What others have read of the target of j is stale, what j knows of it is not.
Stales(j) == stale' = (stale \cup {k \in Job : target(k) = target(j)}) \ {j}

\* A job looks at the cluster, creates its target, updates it or deletes it; and
\* whatever it creates it marks, completes or is excused for.
LEMMA ClusterStep ==
  ASSUME TypeOK, Fresh, NEW j \in Job, JobStep(j)
  PROVE  \/ /\ UNCHANGED cluster
            /\ \/ UNCHANGED <<stale, got>>
               \/ /\ stale' = stale \ {j}
                  /\ got' = [got EXCEPT ![j] = cluster[target(j)]]
                  /\ pc'[j] \in {"apply", "write"}
            /\ pc[j] = "clean" /\ mark[j] = "created" => j \in excused'
         \/ /\ Makes(j) /\ Stales(j) /\ UNCHANGED got
            /\ pc'[j] \in {"wait", "done", "clean"}
            /\ pc'[j] = "done" => status'[j] = "completed"
            /\ mark'[j] = "created" \/ j \in excused'
         \/ /\ Rewrites(j) /\ Stales(j) /\ UNCHANGED got
            /\ pc'[j] \in {"wait", "done", "clean"}
            /\ pc'[j] = "done" => status'[j] = "completed"
         \/ Removes(j) /\ Stales(j) /\ UNCHANGED got /\ pc'[j] = "done"
<1> USE DEF TypeOK, RunOk, RunFails, Fail, Goto, Skip, Store, Stales
<1>1. CASE resolveSharedResource(j)
  BY <1>1 DEF resolveSharedResource
<1>2. CASE acquireShareLock(j)
  BY <1>2 DEF acquireShareLock
<1>3. CASE hasSharedResources(j)
  BY <1>3 DEF hasSharedResources
<1>4. CASE Get(j)
  BY <1>4 DEF Get
<1>5. CASE GetService(j)
  BY <1>5 DEF GetService
<1>6. CASE Create(j)
  BY <1>6 DEF Create, Makes, MarkResourceCreated
<1>7. CASE Update(j)
  BY <1>7 DEF Update, Rewrites, Fresh
<1>8. CASE ApplyDeployment(j)
  BY <1>8, OnlyDeploymentsApply DEF ApplyDeployment, Makes, Rewrites
<1>9. CASE Keep(j) \/ Refuse(j)
  BY <1>9 DEF Keep, Refuse
<1>10. CASE Completed(j) \/ WaitEnds(j)
  BY <1>10 DEF Completed, WaitEnds
<1>11. CASE Clean(j)
  BY <1>11 DEF Clean, Removes
<1>12. QED
  BY <1>1, <1>2, <1>3, <1>4, <1>5, <1>6, <1>7, <1>8, <1>9, <1>10, <1>11 DEF JobStep

\* How a job moves on.
LEMMA OwnStep ==
  ASSUME TypeOK, Fresh, NEW j \in Job, JobStep(j)
  PROVE  /\ pc'[j] = "write" =>
              /\ pc[j] \in {"get", "apply"} /\ UNCHANGED cluster
              /\ got'[j] = cluster[target(j)]
         /\ pc'[j] = "done" =>
              \/ status'[j] \in {"completed", "skipped"}
              \/ pc[j] = "clean" /\ status'[j] = status[j]
         /\ status'[j] = "completed" => status[j] = "completed" \/ pc'[j] = "done"
         /\ pc'[j] = "wait" \/ status'[j] = "completed" =>
              \/ status[j] = "completed"
              \/ pc[j] = "wait" /\ UNCHANGED <<cluster, got, stale>>
              \/ Makes(j) \/ Rewrites(j)
              \/ /\ pc[j] = "write" /\ got[j] # Absent /\ runExisting(j) = "keep"
                 /\ UNCHANGED <<cluster, got, stale>>
         /\ mark'[j] = "created" /\ setup.kind # "service" =>
              mark[j] = "created" \/ (Makes(j) /\ pc'[j] \in {"wait", "done"})
         /\ pc[j] = "wait" => pc'[j] \in {"done", "clean"} /\ UNCHANGED cluster
         /\ pc[j] = "clean" => pc'[j] = "done"
<1> USE DEF TypeOK, RunOk, RunFails, Fail, Goto, Skip, Store
<1>1. CASE resolveSharedResource(j)
  BY <1>1 DEF resolveSharedResource
<1>2. CASE acquireShareLock(j)
  BY <1>2 DEF acquireShareLock
<1>3. CASE hasSharedResources(j)
  BY <1>3 DEF hasSharedResources
<1>4. CASE Get(j)
  BY <1>4, MarksFirst DEF Get
<1>5. CASE GetService(j)
  BY <1>5 DEF GetService
<1>6. CASE Create(j)
  BY <1>6 DEF Create, Makes, MarkResourceCreated
<1>7. CASE Update(j)
  BY <1>7 DEF Update, Rewrites, Fresh, markResourceObserved
<1>8. CASE ApplyDeployment(j)
  BY <1>8, OnlyDeploymentsApply DEF ApplyDeployment, Makes, Rewrites, markResourceObserved
<1>9. CASE Keep(j) \/ Refuse(j)
  BY <1>9 DEF Keep, Refuse, markResourceObserved
<1>10. CASE Completed(j) \/ WaitEnds(j)
  BY <1>10 DEF Completed, WaitEnds
<1>11. CASE Clean(j)
  BY <1>11 DEF Clean
<1>12. QED
  BY <1>1, <1>2, <1>3, <1>4, <1>5, <1>6, <1>7, <1>8, <1>9, <1>10, <1>11 DEF JobStep

\* A job takes the lock when it is free, and gives back only what it has, when it
\* is past the calls the lock is for.
LEMMA LockStep ==
  ASSUME TypeOK, NEW j \in Job, JobStep(j)
  PROVE  /\ L!LockTypeOK'
         /\ \A p \in Process \cup {Central} :
              \/ lock'[p] = lock[p]
              \/ p = place(j) /\ lock[p] = Nobody /\ lock'[p] = j
              \/ p = place(j) /\ lock[p] = j /\ lock'[p] = Nobody
         /\ Critical(j)' =>
              \/ lock'[place(j)] = j
              \/ Critical(j) /\ UNCHANGED lock
<1>0. place(j) \in Process \cup {Central} /\ j # Nobody
  BY SetupType, JobAssumption DEF place
<1> USE <1>0 DEF TypeOK, RunOk, RunFails, Fail, Goto, Skip, unlock, L!LockTypeOK, L!Acquire,
            L!Release, Critical
<1>1. CASE resolveSharedResource(j)
  BY <1>1, SetupType DEF resolveSharedResource
<1>2. CASE acquireShareLock(j)
  BY <1>2 DEF acquireShareLock
<1>3. CASE hasSharedResources(j)
  BY <1>3 DEF hasSharedResources
<1>4. CASE Get(j)
  BY <1>4 DEF Get
<1>5. CASE GetService(j)
  BY <1>5 DEF GetService
<1>6. CASE Create(j)
  BY <1>6 DEF Create
<1>7. CASE Update(j)
  BY <1>7 DEF Update
<1>8. CASE ApplyDeployment(j)
  BY <1>8 DEF ApplyDeployment
<1>9. CASE Keep(j) \/ Refuse(j)
  BY <1>9 DEF Keep, Refuse
<1>10. CASE Completed(j) \/ WaitEnds(j)
  BY <1>10 DEF Completed, WaitEnds
<1>11. CASE Clean(j)
  BY <1>11 DEF Clean
<1>12. QED
  BY <1>1, <1>2, <1>3, <1>4, <1>5, <1>6, <1>7, <1>8, <1>9, <1>10, <1>11 DEF JobStep

\* A job that shares by default goes past its list only if nothing has the label,
\* and touches nothing until it writes.
LEMMA AfterList ==
  ASSUME TypeOK, NEW j \in Job, JobStep(j), Critical(j)', pc'[j] # "list"
  PROVE  /\ UNCHANGED cluster /\ Critical(j)
         /\ pc[j] = "list" => \A n \in Name : ~(cluster[n] # Absent /\ cluster[n].shared)
<1> USE DEF TypeOK, RunOk, RunFails, Fail, Goto, Skip, Critical
<1>1. CASE resolveSharedResource(j)
  BY <1>1 DEF resolveSharedResource
<1>2. CASE acquireShareLock(j)
  BY <1>2 DEF acquireShareLock
<1>3. CASE hasSharedResources(j)
  BY <1>3 DEF hasSharedResources
<1>4. CASE Get(j) \/ GetService(j)
  BY <1>4 DEF Get, GetService
<1>5. CASE Create(j)
  BY <1>5 DEF Create
<1>6. CASE Update(j)
  BY <1>6 DEF Update
<1>7. CASE ApplyDeployment(j)
  BY <1>7 DEF ApplyDeployment
<1>8. CASE Keep(j) \/ Refuse(j) \/ Completed(j) \/ WaitEnds(j) \/ Clean(j)
  BY <1>8 DEF Keep, Refuse, Completed, WaitEnds, Clean
<1>9. QED
  BY <1>1, <1>2, <1>3, <1>4, <1>5, <1>6, <1>7, <1>8 DEF JobStep

\* The types of what only a job changes.
LEMMA LocalType ==
  ASSUME TypeOK, NEW j \in Job, JobStep(j)
  PROVE  /\ pc' \in [Job -> {"run", "lock", "list", "get", "apply", "write", "wait",
                             "clean", "done", "crashed"}]
         /\ got' \in [Job -> Resource \cup {Absent}]
         /\ mark' \in [Job -> {"none", "created", "observed"}]
         /\ status' \in [Job -> {"running", "completed", "skipped", "failed",
                                 "cancelled", "timeout"}]
         /\ stale' \subseteq Job /\ excused' \subseteq Job
         /\ errors' \in 0 .. MaxErrors
<1>0. target(j) \in Name
  BY SetupType
<1> USE <1>0, JobAssumption
        DEF TypeOK, RunOk, RunFails, Fail, Goto, Skip, Store, CallFails,
            markResourceObserved, MarkResourceCreated
<1>1. CASE resolveSharedResource(j)
  BY <1>1 DEF resolveSharedResource
<1>2. CASE acquireShareLock(j)
  BY <1>2 DEF acquireShareLock
<1>3. CASE hasSharedResources(j)
  BY <1>3 DEF hasSharedResources
<1>4. CASE Get(j)
  BY <1>4 DEF Get
<1>5. CASE GetService(j)
  BY <1>5 DEF GetService
<1>6. CASE Create(j)
  BY <1>6 DEF Create
<1>7. CASE Update(j)
  BY <1>7 DEF Update
<1>8. CASE ApplyDeployment(j)
  BY <1>8 DEF ApplyDeployment
<1>9. CASE Keep(j) \/ Refuse(j)
  BY <1>9 DEF Keep, Refuse
<1>10. CASE Completed(j) \/ WaitEnds(j)
  BY <1>10 DEF Completed, WaitEnds
<1>11. CASE Clean(j)
  BY <1>11 DEF Clean
<1>12. QED
  BY <1>1, <1>2, <1>3, <1>4, <1>5, <1>6, <1>7, <1>8, <1>9, <1>10, <1>11 DEF JobStep

\* The steps that are not a job's.
Surroundings ==
  \/ \E j \in Job : CancelContext(j)
  \/ \E p \in Process : Crash(p)
  \/ \E k \in Process \cup {Central} : LockExpires(k)
  \/ \E n \in Name : Rollout(n) \/ Others(n)
  \/ Terminated
  \/ UNCHANGED vars

\* What others make.
Made(c) ==
  [by |-> Foreign, app |-> Foreign, main |-> c, extra |-> c.core, shared |-> FALSE,
   held |-> c.items, immutable |-> FALSE, ready |-> FALSE]

\* It is a resource.
LEMMA MadeType == \A c \in Content : Made(c) \in Resource
BY DEF Made, Content, Resource

\* Somebody else deletes a resource, makes one or takes one over.
Meddled(n) ==
  /\ changes' # 0
  /\ \A j \in Job : target(j) = n => j \in stale'
  /\ \/ cluster'[n] = Absent
     \/ cluster'[n] # Absent /\ cluster'[n].by = Foreign
     \/ /\ cluster[n] # Absent /\ cluster'[n] # Absent
        /\ cluster'[n].by = cluster[n].by /\ cluster'[n].shared = cluster[n].shared

\* The surroundings end jobs and change resources, but tell no job; a lock of a job
\* that goes on is lost only by its time to live.
LEMMA SurroundingsFrame ==
  ASSUME TypeOK, Surroundings
  PROVE  /\ UNCHANGED <<setup, got, mark, status, excused>>
         /\ \A j \in Job : pc'[j] = pc[j] \/ (pc'[j] = "crashed" /\ pc[j] # "done")
         /\ stale \subseteq stale'
         /\ \A n \in Name :
              \/ cluster'[n] = cluster[n]
              \/ /\ cluster[n] # Absent /\ cluster'[n] # Absent
                 /\ cluster'[n].by = cluster[n].by /\ cluster'[n].app = cluster[n].app
                 /\ cluster'[n].main = cluster[n].main
                 /\ cluster'[n].held = cluster[n].held
                 /\ cluster'[n].shared = cluster[n].shared
              \/ Meddled(n)
         /\ changes' = 0 => changes = 0
         /\ lapsed => lapsed'
         /\ ~lapsed' => \A j \in Job : lock[place(j)] = j /\ pc'[j] \notin {"done", "crashed"}
                                       => lock'[place(j)] = j
<1>1. ASSUME NEW j \in Job, CancelContext(j)
      PROVE  UNCHANGED <<setup, cluster, lock, pc, got, mark, status, stale, changes,
                         excused, lapsed>>
  BY <1>1 DEF CancelContext
<1>2. CASE UNCHANGED vars \/ Terminated
  BY <1>2 DEF vars, Terminated
<1>3. ASSUME NEW p \in Process, Crash(p)
      PROVE  /\ UNCHANGED <<setup, cluster, got, mark, status, stale, changes, excused,
                            lapsed>>
             /\ \A j \in Job : pc'[j] = pc[j] \/ (pc'[j] = "crashed" /\ pc[j] # "done")
             /\ \A j \in Job : lock[place(j)] = j /\ pc'[j] \notin {"done", "crashed"}
                               => lock'[place(j)] = j
  <2>1. \A j \in Job : pc'[j] \notin {"done", "crashed"} => place(j) # p
    BY <1>3, SetupType, JobAssumption DEF Crash, place, TypeOK
  <2>2. QED
    BY <1>3, <2>1, SetupType DEF Crash, TypeOK, L!LockTypeOK, place
<1>4. ASSUME NEW k \in Process \cup {Central}, LockExpires(k)
      PROVE  /\ UNCHANGED <<setup, cluster, got, mark, status, stale, changes, excused, pc>>
             /\ lapsed => lapsed'
             /\ ~lapsed' => \A j \in Job :
                  lock[place(j)] = j /\ pc'[j] \notin {"done", "crashed"}
                  => lock'[place(j)] = j
  BY <1>4, SetupType DEF LockExpires, L!Expire, TypeOK, L!LockTypeOK, place
<1>5. ASSUME NEW n \in Name, Rollout(n)
      PROVE  /\ UNCHANGED <<setup, lock, pc, got, mark, status, stale, changes, excused,
                            lapsed>>
             /\ cluster[n] # Absent /\ cluster'[n] # Absent
             /\ cluster'[n].by = cluster[n].by /\ cluster'[n].app = cluster[n].app
             /\ cluster'[n].main = cluster[n].main
             /\ cluster'[n].held = cluster[n].held
             /\ cluster'[n].shared = cluster[n].shared
             /\ \A m \in Name : m # n => cluster'[m] = cluster[m]
  <2>1. cluster[n] \in Resource
    BY <1>5 DEF Rollout, TypeOK
  <2>2. [cluster[n] EXCEPT !.ready = ~@] \in Resource
    BY <2>1 DEF Resource
  <2>3. cluster'[n] = [cluster[n] EXCEPT !.ready = ~@] /\ cluster[n] # Absent
        /\ \A m \in Name : m # n => cluster'[m] = cluster[m]
    BY <1>5 DEF Rollout, TypeOK
  <2>4. cluster'[n] # Absent
    BY <2>2, <2>3, JobAssumption
  <2>5. QED
    BY <1>5, <2>1, <2>3, <2>4 DEF Rollout, Resource
<1>6. ASSUME NEW n \in Name, Others(n)
      PROVE  /\ UNCHANGED <<setup, lock, pc, got, mark, status, excused, lapsed>>
             /\ stale \subseteq stale' /\ changes' # 0
             /\ Meddled(n)
             /\ \A m \in Name : m # n => cluster'[m] = cluster[m]
  <2>1. /\ UNCHANGED <<setup, lock, pc, got, mark, status, excused, lapsed>>
        /\ stale' = stale \cup {j \in Job : target(j) = n} /\ changes' # 0
        /\ \A m \in Name : m # n => cluster'[m] = cluster[m]
    BY <1>6 DEF Others, TypeOK
  <2>2. ASSUME NEW c \in Content, cluster'[n] = Made(c)
        PROVE  cluster'[n] # Absent /\ cluster'[n].by = Foreign
    <3>1. cluster'[n] \in Resource
      BY <2>2, MadeType
    <3>2. cluster'[n] # Absent
      BY <3>1, JobAssumption
    <3>3. cluster'[n].by = Foreign
      BY <2>2 DEF Made
    <3>4. QED
      BY <3>2, <3>3
  <2>3. ASSUME cluster[n] # Absent, cluster'[n] = [cluster[n] EXCEPT !.app = Foreign]
        PROVE  /\ cluster'[n] # Absent /\ cluster'[n].by = cluster[n].by
               /\ cluster'[n].shared = cluster[n].shared
    <3>1. cluster[n] \in Resource
      BY <2>3 DEF TypeOK
    <3>2. cluster'[n] \in Resource
      BY <2>3, <3>1 DEF Resource
    <3>3. QED
      BY <2>3, <3>1, <3>2, JobAssumption DEF Resource
  <2>4. \/ \E c \in Content : cluster'[n] = Made(c)
        \/ cluster[n] # Absent /\ cluster'[n] = [cluster[n] EXCEPT !.app = Foreign]
        \/ cluster'[n] = Absent
    BY <1>6 DEF Others, TypeOK, Made
  <2>5. QED
    BY <2>1, <2>2, <2>3, <2>4 DEF Meddled
<1>7. QED
  BY <1>1, <1>2, <1>3, <1>4, <1>5, <1>6 DEF Surroundings

\* What has the content of the target is as the job wants it.
LEMMA SameIsWanted ==
  ASSUME NEW j, NEW r, r.main = setup.main[j]
  PROVE  AsWanted(j, r)
BY DEF AsWanted

\* What is written is there, with the content, the label and the maker it should
\* have; a rewritten resource keeps its maker.
LEMMA WrittenFacts ==
  ASSUME TypeOK, NEW j \in Job
  PROVE  /\ Makes(j) => /\ cluster'[target(j)] # Absent /\ cluster'[target(j)].by = j
                        /\ AsWanted(j, cluster'[target(j)])
                        /\ cluster'[target(j)].shared = (setup.share[j] # "none")
         /\ Rewrites(j) => /\ cluster'[target(j)] # Absent
                           /\ cluster'[target(j)].by = cluster[target(j)].by
                           /\ AsWanted(j, cluster'[target(j)])
                           /\ setup.share[j] # "none" => cluster'[target(j)].shared
         /\ Removes(j) => cluster'[target(j)] = Absent
         /\ Makes(j) \/ Rewrites(j) \/ Removes(j) =>
              \A n \in Name : n # target(j) => cluster'[n] = cluster[n]
<1>0. target(j) \in Name /\ cluster \in [Name -> Resource \cup {Absent}]
  BY SetupType DEF TypeOK
<1>1. ASSUME Makes(j)
      PROVE  /\ cluster'[target(j)] # Absent /\ cluster'[target(j)].by = j
             /\ AsWanted(j, cluster'[target(j)])
             /\ cluster'[target(j)].shared = (setup.share[j] # "none")
  <2>1. \/ cluster'[target(j)] = New(j)
        \/ cluster'[target(j)] = [New(j) EXCEPT !.held = {}]
    BY <1>0, <1>1 DEF Makes
  <2>2. New(j) # Absent /\ [New(j) EXCEPT !.held = {}] # Absent
    BY WrittenType, JobAssumption
  <2>3. /\ cluster'[target(j)].by = j /\ cluster'[target(j)].main = setup.main[j]
        /\ cluster'[target(j)].shared = (setup.share[j] # "none")
    BY <2>1 DEF New
  <2>4. QED
    BY <2>1, <2>2, <2>3, SameIsWanted
<1>2. ASSUME Rewrites(j)
      PROVE  /\ cluster'[target(j)] # Absent
             /\ cluster'[target(j)].by = cluster[target(j)].by
             /\ AsWanted(j, cluster'[target(j)])
             /\ setup.share[j] # "none" => cluster'[target(j)].shared
  <2> DEFINE r == cluster[target(j)]
  <2>0. r \in Resource
    BY <1>0, <1>2 DEF Rewrites
  <2>1. Updated(j, r) # Absent /\ Applied(j, r) # Absent
    BY <2>0, WrittenType, JobAssumption
  <2>2. CASE cluster'[target(j)] = Updated(j, r)
    <3>1. /\ Updated(j, r).main = setup.main[j] /\ Updated(j, r).by = r.by
          /\ setup.share[j] # "none" => Updated(j, r).shared
      BY <2>0 DEF Updated, Resource
    <3>2. QED
      BY <2>1, <2>2, <3>1, SameIsWanted
  <2>3. CASE setup.kind = "deployment" /\ cluster'[target(j)] = Applied(j, r)
    <3>1. /\ Applied(j, r).main.core = setup.main[j].core
          /\ Applied(j, r).main.items = setup.main[j].items \cup (r.main.items \cap r.held)
          /\ Applied(j, r).held = r.held /\ Applied(j, r).by = r.by
          /\ setup.share[j] # "none" => Applied(j, r).shared
      BY <2>0 DEF Applied, Resource
    <3>2. AsWanted(j, Applied(j, r))
      BY <2>3, <3>1 DEF AsWanted
    <3>3. QED
      BY <2>1, <2>3, <3>1, <3>2
  <2>4. QED
    BY <1>0, <1>2, <2>2, <2>3 DEF Rewrites
<1>3. QED
  BY <1>0, <1>1, <1>2 DEF Makes, Rewrites, Removes

-----------------------------------------------------------------------------
(***************************************************************************)
(* Each part of the invariant is kept by every step.                       *)
(***************************************************************************)
\* The jobs begin with nothing read, marked or locked.
LEMMA InitInv == Init => IInv
<1> SUFFICES ASSUME Init PROVE IInv
  OBVIOUS
<1>0. setup \in Setup /\ \A n \in Name : setup.before[n] # Absent => setup.before[n].by = Foreign
  BY JobAssumption DEF Init
<1>1. lapsed \in BOOLEAN
  BY Zenon DEF Init
<1>2. TypeOK
  BY <1>0, <1>1, JobAssumption DEF Init, TypeOK, Setup, L!LockInit, L!LockTypeOK
<1>3. Fresh /\ Ended /\ Attained /\ Marked /\ CreatedIsOwn
  BY DEF Init, Fresh, Ended, Attained, Marked, CreatedIsOwn
<1>4. \A n \in Name : cluster[n] # Absent => cluster[n].by \notin Job
  BY <1>0, JobAssumption DEF Init
<1>5. Own
  BY <1>4 DEF Own
<1>6. Locked /\ Sole
  BY <1>4 DEF Init, Locked, Sole, Critical, MadeByDefault
<1>7. QED
  BY <1>2, <1>3, <1>5, <1>6 DEF IInv

\* Every step keeps the types.
LEMMA TypeStep ==
  ASSUME IInv, [Next]_vars
  PROVE  TypeOK'
<1>0. TypeOK /\ Fresh
  BY DEF IInv
<1>1. ASSUME NEW j \in Job, JobStep(j)
      PROVE  TypeOK'
  <2>1. target(j) \in Name
    BY <1>0, SetupType
  <2>2. cluster' \in [Name -> Resource \cup {Absent}]
    <3>0. cluster \in [Name -> Resource \cup {Absent}]
      BY <1>0 DEF TypeOK
    <3>1. CASE Makes(j)
      BY <1>0, <2>1, <3>0, <3>1, WrittenType DEF Makes
    <3>2. CASE Rewrites(j)
      BY <1>0, <2>1, <3>0, <3>2, WrittenType DEF Rewrites
    <3>3. CASE Removes(j)
      BY <2>1, <3>0, <3>3 DEF Removes
    <3>4. QED
      BY <1>0, <1>1, <3>0, <3>1, <3>2, <3>3, ClusterStep
  <2>3. UNCHANGED <<setup, live, changes, lapsed>>
    BY <1>0, <1>1, JobFrame
  <2>4. QED
    BY <1>0, <1>1, <2>2, <2>3, LockStep, LocalType DEF TypeOK
<1>2. ASSUME NEW j \in Job, CancelContext(j)
      PROVE  TypeOK'
  BY <1>0, <1>2 DEF CancelContext, TypeOK, L!LockTypeOK
<1>3. ASSUME NEW p \in Process, Crash(p)
      PROVE  TypeOK'
  BY <1>0, <1>3, JobAssumption DEF Crash, TypeOK, L!LockTypeOK
<1>4. ASSUME NEW k \in Process \cup {Central}, LockExpires(k)
      PROVE  TypeOK'
  <2>1. lapsed' \in BOOLEAN
    BY <1>4, Zenon DEF LockExpires
  <2>2. QED
    BY <1>0, <1>4, <2>1 DEF LockExpires, TypeOK, L!LockTypeOK, L!Expire
<1>5. ASSUME NEW n \in Name, Rollout(n)
      PROVE  TypeOK'
  <2>0. cluster[n] \in Resource
    BY <1>0, <1>5 DEF Rollout, TypeOK
  <2>1. [cluster[n] EXCEPT !.ready = ~@] \in Resource
    BY <2>0 DEF Resource
  <2>2. cluster' \in [Name -> Resource \cup {Absent}]
    BY <1>0, <1>5, <2>1 DEF Rollout, TypeOK
  <2>3. QED
    BY <1>0, <1>5, <2>2 DEF Rollout, TypeOK, L!LockTypeOK
<1>6. ASSUME NEW n \in Name, Others(n)
      PROVE  TypeOK'
  <2>1. \A c \in Content : Made(c) \in Resource
    BY MadeType
  <2>2. cluster[n] # Absent => [cluster[n] EXCEPT !.app = Foreign] \in Resource
    BY <1>0 DEF TypeOK, Resource
  <2>3. cluster' \in [Name -> Resource \cup {Absent}]
    BY <1>0, <1>6, <2>1, <2>2 DEF Others, TypeOK, Made
  <2>4. QED
    BY <1>0, <1>6, <2>3, JobAssumption DEF Others, TypeOK, L!LockTypeOK
<1>7. CASE UNCHANGED vars \/ Terminated
  BY <1>0, <1>7 DEF vars, Terminated, TypeOK, L!LockTypeOK
<1>8. QED
  BY <1>1, <1>2, <1>3, <1>4, <1>5, <1>6, <1>7 DEF Next

\* What a job read and has not written is current, unless somebody has made it stale.
LEMMA FreshStep ==
  ASSUME IInv, [Next]_vars
  PROVE  Fresh' /\ Ended'
<1>0. TypeOK /\ Fresh /\ Ended
  BY DEF IInv
<1>1. ASSUME NEW j \in Job, JobStep(j)
      PROVE  Fresh' /\ Ended'
  <2>1. ASSUME NEW k \in Job, k # j, pc'[k] = "write", k \notin stale'
        PROVE  /\ pc[k] = "write" /\ k \notin stale /\ got'[k] = got[k]
               /\ cluster'[target(k)] = cluster[target(k)] /\ target(k)' = target(k)
    <3>1. /\ UNCHANGED setup /\ pc'[k] = pc[k] /\ got'[k] = got[k]
          /\ k \in stale => k \in stale'
      BY <1>0, <1>1, <2>1, JobFrame
    <3>2. cluster' = cluster \/ target(k) # target(j)
      BY <1>0, <1>1, <2>1, ClusterStep DEF Stales
    <3>3. cluster'[target(k)] = cluster[target(k)]
      BY <1>0, <1>1, <3>2, ClusterStep, WrittenFacts, SetupType
    <3>4. QED
      BY <2>1, <3>1, <3>3 DEF target
  <2>2. ASSUME pc'[j] = "write"
        PROVE  UNCHANGED <<cluster, setup>> /\ got'[j] = cluster[target(j)]
    BY <1>0, <1>1, <2>2, OwnStep, JobFrame
  <2>3. Fresh'
    BY <1>0, <2>1, <2>2 DEF Fresh, target
  <2>4. Ended'
    BY <1>0, <1>1, OwnStep, JobFrame DEF Ended
  <2>5. QED
    BY <2>3, <2>4
<1>2. CASE Surroundings
  <2>1. /\ UNCHANGED <<setup, got, status>>
        /\ \A j \in Job : pc'[j] = pc[j] \/ (pc'[j] = "crashed" /\ pc[j] # "done")
        /\ stale \subseteq stale'
    BY <1>0, <1>2, SurroundingsFrame
  <2>2. Ended'
    BY <1>0, <2>1 DEF Ended
  <2>3. ASSUME NEW j \in Job, j \notin stale'
        PROVE  \/ cluster'[target(j)] = cluster[target(j)]
               \/ /\ cluster[target(j)] # Absent /\ cluster'[target(j)] # Absent
                  /\ cluster'[target(j)].app = cluster[target(j)].app
                  /\ cluster'[target(j)].main = cluster[target(j)].main
    BY <1>0, <1>2, <2>3, SurroundingsFrame, SetupType DEF Meddled
  <2>4. Fresh'
    BY <1>0, <2>1, <2>3 DEF Fresh, target
  <2>5. QED
    BY <2>2, <2>4
<1>3. QED
  BY <1>1, <1>2 DEF Next, Surroundings

\* A controller keeps what exists only if it is what the job wants.
LEMMA KeptIsWanted ==
  ASSUME TypeOK, NEW j \in Job, runExisting(j) = "keep",
         setup.kind \in Rbac => isManagedResource(j)
  PROVE  got[j].main = setup.main[j]
<1> USE DEF runExisting, Rbac
<1>0. setup.kind \in Kind
  BY SetupType
<1>1. CASE setup.kind = "deployment"
  BY <1>1 DEF runDeployment, isDeploymentChanged
<1>2. CASE setup.kind \in {"statefulset", "service", "configmap", "ingress"}
  BY <1>2 DEF runStatefulSet, ApplyService, deployConfigMap, runIngress
<1>3. CASE setup.kind = "pvc"
  BY <1>3 DEF runPVC, shouldUpdatePVC
<1>4. CASE setup.kind = "secret"
  BY <1>4 DEF runSecret, equalSecretPayload
<1>5. CASE setup.kind \in Rbac
  BY <1>5 DEF runRbac, shouldUpdateRole
<1>6. QED
  BY <1>0, <1>1, <1>2, <1>3, <1>4, <1>5 DEF Kind

\* From the end of run on the target has what the job wants, until others write it.
LEMMA AttainedStep ==
  ASSUME IInv, [Next]_vars
  PROVE  Attained'
<1>0. TypeOK /\ Fresh /\ Ended /\ Attained
  BY DEF IInv
<1>1. ASSUME NEW j \in Job, JobStep(j)
      PROVE  Attained'
  <2>0. UNCHANGED setup /\ pc[j] \notin {"done", "crashed"} /\ target(j) \in Name
    BY <1>0, <1>1, JobFrame, SetupType
  <2>1. ASSUME NEW k \in Job, k # j, k \notin stale'
        PROVE  /\ k \notin stale /\ cluster'[target(k)] = cluster[target(k)]
               /\ pc'[k] = pc[k] /\ got'[k] = got[k] /\ status'[k] = status[k]
    <3>1. /\ pc'[k] = pc[k] /\ got'[k] = got[k] /\ status'[k] = status[k]
          /\ k \in stale => k \in stale'
      BY <1>0, <1>1, <2>1, JobFrame
    <3>2. cluster' = cluster \/ target(k) # target(j)
      BY <1>0, <1>1, <2>1, ClusterStep DEF Stales
    <3>3. cluster'[target(k)] = cluster[target(k)]
      BY <1>0, <1>1, <3>2, ClusterStep, WrittenFacts, SetupType
    <3>4. QED
      BY <2>1, <3>1, <3>3
  <2>2. ASSUME pc'[j] = "wait" \/ status'[j] = "completed", j \notin stale',
               setup.kind \in Rbac /\ got'[j] # Absent => got'[j].app = setup.app[j]
        PROVE  cluster'[target(j)] # Absent /\ AsWanted(j, cluster'[target(j)])
    <3>1. CASE Makes(j) \/ Rewrites(j)
      BY <3>1, <1>0, WrittenFacts
    <3>2. CASE pc[j] = "wait" /\ UNCHANGED <<cluster, got, stale>>
      BY <3>2, <2>2, <1>0 DEF Attained, isManagedResource
    <3>3. CASE /\ pc[j] = "write" /\ got[j] # Absent /\ runExisting(j) = "keep"
               /\ UNCHANGED <<cluster, got, stale>>
      <4>1. got[j].main = setup.main[j]
        BY <3>3, <2>2, <1>0, KeptIsWanted DEF isManagedResource
      <4>2. QED
        BY <4>1, <3>3, <2>2, <1>0, SameIsWanted DEF Fresh
    <3>4. status[j] # "completed"
      BY <1>0, <2>0 DEF Ended
    <3>5. QED
      BY <1>0, <1>1, <2>2, <3>1, <3>2, <3>3, <3>4, OwnStep
  <2>3. ASSUME NEW k \in Job, k # j,
               pc'[k] = "wait" \/ status'[k] = "completed", k \notin stale',
               setup.kind \in Rbac /\ got'[k] # Absent => got'[k].app = setup.app[k]
        PROVE  cluster'[target(k)] # Absent /\ AsWanted(k, cluster'[target(k)])
    BY <2>1, <2>3, <1>0 DEF Attained, isManagedResource
  <2>4. QED
    BY <2>0, <2>2, <2>3 DEF Attained, isManagedResource, target, AsWanted
<1>2. CASE Surroundings
  <2>1. /\ UNCHANGED <<setup, got, status>>
        /\ \A j \in Job : pc'[j] = pc[j] \/ (pc'[j] = "crashed" /\ pc[j] # "done")
        /\ stale \subseteq stale'
    BY <1>0, <1>2, SurroundingsFrame
  <2>2. ASSUME NEW j \in Job, j \notin stale'
        PROVE  \/ cluster'[target(j)] = cluster[target(j)]
               \/ /\ cluster[target(j)] # Absent /\ cluster'[target(j)] # Absent
                  /\ cluster'[target(j)].main = cluster[target(j)].main
                  /\ cluster'[target(j)].held = cluster[target(j)].held
    BY <1>0, <1>2, <2>2, SurroundingsFrame, SetupType DEF Meddled
  <2>3. QED
    BY <1>0, <2>1, <2>2 DEF Attained, target, isManagedResource, AsWanted
<1>3. QED
  BY <1>1, <1>2 DEF Next, Surroundings

\* A resource its job has marked as created stays: nobody else creates it, and a
\* job that cleans up deletes only what is its own.
LEMMA CreatedStep ==
  ASSUME IInv, [Next]_vars
  PROVE  Marked' /\ CreatedIsOwn'
<1>0. TypeOK /\ Fresh /\ Marked /\ CreatedIsOwn
  BY DEF IInv
<1>1. ASSUME NEW j \in Job, JobStep(j)
      PROVE  Marked' /\ CreatedIsOwn'
  <2>0. UNCHANGED <<setup, changes>> /\ target(j) \in Name
    BY <1>0, <1>1, JobFrame, SetupType
  <2>1. Marked'
    <3>1. ASSUME setup.kind # "service", mark'[j] = "created"
          PROVE  pc'[j] \in {"wait", "clean", "done", "crashed"}
      BY <3>1, <1>0, <1>1, OwnStep, JobFrame DEF Marked
    <3>2. QED
      BY <3>1, <2>0, <1>0, <1>1, JobFrame DEF Marked
  <2>2. ASSUME setup.kind # "service", mark'[j] = "created", pc'[j] \in {"wait", "clean"},
               changes = 0
        PROVE  cluster'[target(j)] # Absent /\ cluster'[target(j)].by = j
    <3>1. CASE Makes(j)
      BY <3>1, <1>0, WrittenFacts
    <3>2. CASE mark[j] = "created"
      <4>1. pc[j] = "wait" /\ UNCHANGED cluster
        BY <3>2, <2>2, <1>0, <1>1, OwnStep, JobFrame DEF Marked
      <4>2. QED
        BY <4>1, <3>2, <2>2, <1>0 DEF CreatedIsOwn
    <3>3. QED
      BY <3>1, <3>2, <2>2, <1>0, <1>1, OwnStep
  <2>3. ASSUME NEW k \in Job, k # j, setup.kind # "service", mark[k] = "created",
               pc[k] \in {"wait", "clean"}, changes = 0
        PROVE  cluster'[target(k)] # Absent /\ cluster'[target(k)].by = k
    <3>1. cluster[target(k)] # Absent /\ cluster[target(k)].by = k /\ target(k) \in Name
      BY <2>3, <1>0, SetupType DEF CreatedIsOwn
    <3>2. CASE target(k) # target(j) \/ UNCHANGED cluster
      BY <3>1, <3>2, <1>0, <1>1, ClusterStep, WrittenFacts
    <3>3. CASE target(k) = target(j) /\ Rewrites(j)
      BY <3>1, <3>3, <1>0, WrittenFacts
    <3>4. CASE target(k) = target(j) /\ Makes(j)
      BY <3>1, <3>4 DEF Makes
    <3>5. CASE target(k) = target(j) /\ Removes(j)
      BY <3>1, <3>5, <2>3, <1>0 DEF Removes, CreatedIsOwn
    <3>6. QED
      BY <3>2, <3>3, <3>4, <3>5, <1>0, <1>1, ClusterStep
  <2>4. \A k \in Job : k # j => pc'[k] = pc[k] /\ mark'[k] = mark[k]
    BY <1>0, <1>1, JobFrame
  <2>5. CreatedIsOwn'
    BY <2>0, <2>2, <2>3, <2>4 DEF CreatedIsOwn, target
  <2>6. QED
    BY <2>1, <2>5
<1>2. CASE Surroundings
  <2>1. /\ UNCHANGED <<setup, mark>>
        /\ \A j \in Job : pc'[j] = pc[j] \/ (pc'[j] = "crashed" /\ pc[j] # "done")
        /\ changes' = 0 => changes = 0
    BY <1>0, <1>2, SurroundingsFrame
  <2>2. ASSUME changes' = 0, NEW n \in Name
        PROVE  \/ cluster'[n] = cluster[n]
               \/ /\ cluster[n] # Absent /\ cluster'[n] # Absent
                  /\ cluster'[n].by = cluster[n].by
    BY <1>0, <1>2, <2>2, SurroundingsFrame DEF Meddled
  <2>3. Marked'
    BY <1>0, <2>1 DEF Marked
  <2>4. CreatedIsOwn'
    BY <1>0, <2>1, <2>2, SetupType DEF CreatedIsOwn, target
  <2>5. QED
    BY <2>3, <2>4
<1>3. QED
  BY <1>1, <1>2 DEF Next, Surroundings

\* Whoever created a resource knows of it or is excused, and has removed it if it
\* has failed.
LEMMA MakerStep ==
  ASSUME IInv, [Next]_vars
  PROVE  Own'
<1>0. TypeOK /\ Fresh /\ Own
  BY DEF IInv
<1>1. ASSUME NEW j \in Job, JobStep(j)
      PROVE  Own'
  <2>0. /\ UNCHANGED setup /\ target(j) \in Name
        /\ excused \subseteq excused'
        /\ mark[j] = "created" => mark'[j] = "created"
        /\ pc[j] \notin {"done", "crashed"}
        /\ \A k \in Job : k # j =>
             /\ pc'[k] = pc[k] /\ mark'[k] = mark[k] /\ status'[k] = status[k]
             /\ k \in excused' <=> k \in excused
    BY <1>0, <1>1, JobFrame, SetupType
  <2>1. ASSUME NEW k \in Job, NEW n \in Name, cluster'[n] # Absent, cluster'[n].by = k
        PROVE  (Makes(j) /\ n = target(j) /\ k = j)
               \/ (cluster[n] # Absent /\ cluster[n].by = k)
    <3>1. CASE cluster'[n] = cluster[n]
      BY <3>1, <2>1
    <3>2. CASE cluster'[n] # cluster[n]
      <4>1. n = target(j) /\ (Makes(j) \/ Rewrites(j) \/ Removes(j))
        BY <3>2, <1>0, <1>1, ClusterStep, WrittenFacts
      <4>2. CASE Makes(j)
        BY <4>1, <4>2, <2>1, <1>0, WrittenFacts
      <4>3. CASE Rewrites(j)
        <5>1. cluster[target(j)] # Absent
          BY <4>3 DEF Rewrites
        <5>2. QED
          BY <4>1, <4>3, <5>1, <2>1, <1>0, WrittenFacts
      <4>4. CASE Removes(j)
        BY <4>1, <4>4, <2>1, <1>0, WrittenFacts
      <4>5. QED
        BY <4>1, <4>2, <4>3, <4>4
    <3>3. QED
      BY <3>1, <3>2
  <2>2. ASSUME NEW n \in Name, cluster'[n] # Absent, cluster'[n].by = j, j \notin excused'
        PROVE  mark'[j] = "created"
    <3>1. CASE Makes(j)
      <4>1. cluster' # cluster
        BY <3>1, <1>0, WrittenFacts DEF Makes
      <4>2. ~Rewrites(j) /\ ~Removes(j)
        BY <3>1 DEF Makes, Rewrites, Removes
      <4>3. QED
        BY <4>1, <4>2, <2>2, <1>0, <1>1, ClusterStep
    <3>2. CASE ~Makes(j)
      BY <3>2, <2>0, <2>1, <2>2, <1>0 DEF Own
    <3>3. QED
      BY <3>1, <3>2
  <2>3. ASSUME NEW n \in Name, cluster'[n] # Absent, cluster'[n].by = j, j \notin excused',
               pc'[j] = "done", status'[j] \in {"failed", "cancelled", "timeout"}
        PROVE  FALSE
    <3>1. pc[j] = "clean"
      BY <2>3, <1>0, <1>1, OwnStep
    <3>2. cluster[n] # Absent /\ cluster[n].by = j
      BY <2>1, <2>3, <3>1 DEF Makes
    <3>3. n = target(j) /\ mark[j] = "created"
      BY <3>2, <2>0, <2>3, <1>0 DEF Own
    <3>4. Removes(j)
      BY <3>1, <3>3, <2>3, <1>0, <1>1, ClusterStep DEF Makes, Rewrites
    <3>5. QED
      BY <3>3, <3>4, <2>3, <1>0, WrittenFacts
  <2>4. ASSUME NEW k \in Job, NEW n \in Name, cluster'[n] # Absent, cluster'[n].by = k
        PROVE  /\ target(k) = n
               /\ k \notin excused' =>
                    /\ mark'[k] = "created"
                    /\ ~(pc'[k] = "done" /\ status'[k] \in {"failed", "cancelled", "timeout"})
    <3>1. target(k) = n
      BY <2>1, <2>4, <1>0 DEF Own
    <3>2. CASE k = j
      BY <3>1, <3>2, <2>2, <2>3, <2>4
    <3>3. CASE k # j
      BY <3>1, <3>3, <2>0, <2>1, <2>4, <1>0 DEF Own, Failed
    <3>4. QED
      BY <3>2, <3>3
  <2>5. QED
    BY <2>0, <2>4 DEF Own, Failed, target
<1>2. CASE Surroundings
  <2>1. /\ UNCHANGED <<setup, mark, status, excused>>
        /\ \A j \in Job : pc'[j] = pc[j] \/ (pc'[j] = "crashed" /\ pc[j] # "done")
    BY <1>0, <1>2, SurroundingsFrame
  <2>2. ASSUME NEW j \in Job, NEW n \in Name, cluster'[n] # Absent, cluster'[n].by = j
        PROVE  cluster[n] # Absent /\ cluster[n].by = j
    BY <1>0, <1>2, <2>2, SurroundingsFrame, JobAssumption DEF Meddled
  <2>3. QED
    BY <1>0, <2>1, <2>2 DEF Own, Failed, target
<1>3. QED
  BY <1>1, <1>2 DEF Next, Surroundings

\* The lock stays with the job from its list to the end of run, unless it lapses.
LEMMA LockedStep ==
  ASSUME IInv, [Next]_vars
  PROVE  Locked'
<1>0. TypeOK /\ Locked
  BY DEF IInv
<1>1. ASSUME NEW j \in Job, JobStep(j)
      PROVE  Locked'
  <2>0. /\ UNCHANGED <<setup, lapsed>>
        /\ \A k \in Job : k # j => pc'[k] = pc[k]
    BY <1>0, <1>1, JobFrame
  <2>1. \A k \in Job : place(k) \in Process \cup {Central} /\ k # Nobody
    BY <1>0, SetupType, JobAssumption DEF place
  <2>2. ASSUME ~lapsed, NEW k \in Job, k # j, Critical(k)
        PROVE  lock'[place(k)] = k
    <3>1. lock[place(k)] = k
      BY <2>2, <1>0 DEF Locked
    <3>2. QED
      BY <3>1, <2>1, <2>2, <1>0, <1>1, LockStep
  <2>3. ASSUME ~lapsed, Critical(j)'
        PROVE  lock'[place(j)] = j
    BY <2>3, <1>0, <1>1, LockStep DEF Locked
  <2>4. QED
    BY <2>0, <2>2, <2>3 DEF Locked, Critical, place
<1>2. CASE Surroundings
  <2>1. /\ UNCHANGED setup
        /\ \A j \in Job : pc'[j] = pc[j] \/ pc'[j] = "crashed"
        /\ lapsed => lapsed'
        /\ ~lapsed' => \A j \in Job : lock[place(j)] = j /\ pc'[j] \notin {"done", "crashed"}
                                      => lock'[place(j)] = j
    BY <1>0, <1>2, SurroundingsFrame
  <2>2. QED
    BY <1>0, <2>1 DEF Locked, Critical, place
<1>3. QED
  BY <1>1, <1>2 DEF Next, Surroundings

\* Nothing that is shared by default is made while another one is there: the job
\* that makes it has the lock, and has seen none since it has it.
LEMMA SoleStep ==
  ASSUME IInv, [Next]_vars
  PROVE  Sole'
<1>0. TypeOK /\ Fresh /\ Own /\ Locked /\ Sole
  BY DEF IInv
<1> SUFFICES ASSUME ~lapsed', OneLock', LabelStays' PROVE Sole'
  BY DEF Sole
<1>1. ASSUME NEW j \in Job, JobStep(j)
      PROVE  Sole'
  <2>0. /\ UNCHANGED <<setup, lapsed>> /\ target(j) \in Name
        /\ \A k \in Job : k # j => pc'[k] = pc[k]
    BY <1>0, <1>1, JobFrame, SetupType
  <2>1. ~lapsed /\ OneLock /\ LabelStays
    BY <2>0 DEF OneLock, LabelStays, target
  <2>2. \A k, m \in Job : place(k) = place(m)
    BY <2>1, <1>0, SetupType DEF OneLock, place
  <2>3. \A k \in Job : Critical(k) /\ Critical(j) => k = j
    BY <2>1, <2>2, <1>0 DEF Locked
  <2>4. ASSUME NEW n \in Name, MadeByDefault(n)'
        PROVE  \/ MadeByDefault(n)
               \/ n = target(j) /\ Makes(j) /\ Critical(j)
    <3>1. CASE cluster'[n] = cluster[n]
      BY <3>1, <2>0, <2>4 DEF MadeByDefault
    <3>2. CASE cluster'[n] # cluster[n]
      <4>1. n = target(j) /\ (Makes(j) \/ Rewrites(j) \/ Removes(j))
        BY <3>2, <1>0, <1>1, ClusterStep, WrittenFacts
      <4>2. CASE Makes(j)
        <5>1. cluster'[n].by = j
          BY <4>1, <4>2, <1>0, WrittenFacts
        <5>2. setup.share[j] = "default"
          BY <5>1, <2>0, <2>4 DEF MadeByDefault
        <5>3. pc[j] = "write"
          BY <4>2 DEF Makes
        <5>4. QED
          BY <4>1, <4>2, <5>2, <5>3 DEF Critical
      <4>3. CASE Rewrites(j)
        <5>1. cluster[target(j)] # Absent
          BY <4>3 DEF Rewrites
        <5>2. QED
          BY <4>1, <4>3, <5>1, <2>0, <2>4, <1>0, WrittenFacts DEF MadeByDefault
      <4>4. CASE Removes(j)
        BY <4>1, <4>4, <2>4, <1>0, WrittenFacts DEF MadeByDefault
      <4>5. QED
        BY <4>1, <4>2, <4>3, <4>4
    <3>3. QED
      BY <3>1, <3>2
  <2>5. ASSUME NEW n \in Name, MadeByDefault(n)'
        PROVE  cluster'[n].shared
    <3>1. CASE cluster'[n] = cluster[n]
      <4>1. MadeByDefault(n)
        BY <3>1, <2>0, <2>5 DEF MadeByDefault
      <4>2. QED
        BY <4>1, <3>1, <2>1, <1>0 DEF Sole
    <3>2. CASE cluster'[n] # cluster[n]
      <4>1. n = target(j) /\ (Makes(j) \/ Rewrites(j) \/ Removes(j))
        BY <3>2, <1>0, <1>1, ClusterStep, WrittenFacts
      <4>2. CASE Makes(j)
        <5>1. setup.share[j] = "default"
          BY <4>1, <4>2, <2>0, <2>5, <1>0, WrittenFacts DEF MadeByDefault
        <5>2. QED
          BY <4>1, <4>2, <5>1, <1>0, WrittenFacts
      <4>3. CASE Rewrites(j)
        <5>1. MadeByDefault(n)
          BY <4>1, <4>3, <2>4, <2>5 DEF Rewrites, Makes
        <5>2. target(cluster[n].by) = n
          BY <5>1, <1>0 DEF Own, MadeByDefault
        <5>3. setup.share[j] # "none"
          BY <4>1, <5>1, <5>2, <2>1 DEF LabelStays, MadeByDefault
        <5>4. QED
          BY <4>1, <4>3, <5>3, <1>0, WrittenFacts
      <4>4. CASE Removes(j)
        BY <4>1, <4>4, <2>5, <1>0, WrittenFacts DEF MadeByDefault
      <4>5. QED
        BY <4>1, <4>2, <4>3, <4>4
    <3>3. QED
      BY <3>1, <3>2
  <2>6. ASSUME NEW k \in Job, Critical(k)', pc'[k] # "list", NEW n \in Name,
               MadeByDefault(n)'
        PROVE  FALSE
    <3>1. CASE k # j
      <4>1. Critical(k) /\ pc[k] # "list"
        BY <3>1, <2>0, <2>6 DEF Critical
      <4>2. ~MadeByDefault(n)
        BY <4>1, <2>1, <1>0 DEF Sole
      <4>3. QED
        BY <3>1, <4>1, <4>2, <2>3, <2>4, <2>6
    <3>2. CASE k = j
      <4>1. /\ UNCHANGED cluster /\ Critical(j)
            /\ pc[j] = "list" => ~(cluster[n] # Absent /\ cluster[n].shared)
        BY <3>2, <2>6, <1>0, <1>1, AfterList
      <4>2. MadeByDefault(n)
        BY <4>1, <2>0, <2>6 DEF MadeByDefault
      <4>3. QED
        BY <4>1, <4>2, <2>1, <1>0 DEF Sole, MadeByDefault
    <3>3. QED
      BY <3>1, <3>2
  <2>7. ASSUME NEW n \in Name, NEW m \in Name, MadeByDefault(n)', MadeByDefault(m)'
        PROVE  n = m
    <3>1. CASE MadeByDefault(n) /\ MadeByDefault(m)
      BY <3>1, <2>1, <1>0 DEF Sole
    <3>2. CASE Makes(j) /\ Critical(j)
      <4>1. \A x \in Name : ~MadeByDefault(x)
        BY <3>2, <2>1, <1>0 DEF Sole, Makes
      <4>2. QED
        BY <4>1, <2>4, <2>7
    <3>3. QED
      BY <3>1, <3>2, <2>4, <2>7
  <2>8. QED
    BY <2>5, <2>6, <2>7 DEF Sole
<1>2. CASE Surroundings
  <2>1. /\ UNCHANGED setup
        /\ \A j \in Job : pc'[j] = pc[j] \/ pc'[j] = "crashed"
        /\ lapsed => lapsed'
    BY <1>0, <1>2, SurroundingsFrame
  <2>2. ~lapsed /\ OneLock /\ LabelStays
    BY <2>1 DEF OneLock, LabelStays, target
  <2>3. ASSUME NEW n \in Name, MadeByDefault(n)'
        PROVE  MadeByDefault(n) /\ cluster'[n].shared = cluster[n].shared
    BY <1>0, <1>2, <2>1, <2>3, SurroundingsFrame, JobAssumption DEF Meddled, MadeByDefault
  <2>4. QED
    BY <1>0, <2>1, <2>2, <2>3 DEF Sole, Critical
<1>3. QED
  BY <1>1, <1>2 DEF Next, Surroundings

-----------------------------------------------------------------------------
(***************************************************************************)
(* The theorems.                                                           *)
(***************************************************************************)
\* The invariant holds in every state.
LEMMA JobsInv == Spec => []IInv
<1>1. IInv /\ [Next]_vars => IInv'
  BY TypeStep, FreshStep, AttainedStep, CreatedStep, MakerStep, LockedStep, SoleStep
     DEF IInv
<1>2. QED
  BY <1>1, InitInv, PTL DEF Spec

\* The state of the jobs and of the cluster keeps its types.  It needs Fresh: an
\* update writes what it read, which must not have gone since.
THEOREM JobsTypeCorrect == Spec => []TypeOK
<1>1. IInv => TypeOK
  BY DEF IInv
<1>2. QED
  BY <1>1, JobsInv, PTL

\* A resource that a job has marked as created is there and is its own until it
\* cleans up: no other job deletes or replaces what it is waiting for.
THEOREM CreatedStaysOwn == Spec => []CreatedIsOwn
<1>1. IInv => CreatedIsOwn
  BY DEF IInv
<1>2. QED
  BY <1>1, JobsInv, PTL

\* A job that has failed leaves no resource behind that it created, whichever call
\* failed, whatever the other jobs did, and for every controller, unless it could
\* not know of it or its delete failed.
THEOREM FailedJobsCleanUp == Spec => []NoOrphans
<1>1. IInv => NoOrphans
  BY DEF IInv, Own, NoOrphans
<1>2. QED
  BY <1>1, JobsInv, PTL

\* Any number of jobs that share a resource by the default strategy, in any number
\* of processes, create it once, as long as their lock is the same and does not
\* lapse and no job without a strategy takes the label off.
THEOREM DefaultSharesOnce == Spec => []SharedOnce
<1>1. IInv => SharedOnce
  BY DEF IInv, Sole, SharedOnce
<1>2. QED
  BY <1>1, JobsInv, PTL

\* A completed job has left its target as it wants it, if nobody has written the
\* target since: "keep" is decided on a read that is still current, or the target
\* has been written by others.  What an apply leaves out and the creator of the
\* Deployment owns is still there, and nothing more is.
THEOREM CompletedMeansApplied == Spec => []CompletedIsApplied
<1>1. IInv => CompletedIsApplied
  BY DEF IInv, Attained, CompletedIsApplied
<1>2. QED
  BY <1>1, JobsInv, PTL

\* No job writes an RBAC object that is not its application's at that moment: the
\* label is looked at in an earlier call, but an update of what has changed since
\* is refused.
THEOREM RbacOfOthersIsKept == Spec => ForeignRbacIsKept
<1> DEFINE Kept ==
      \A j \in Job, n \in Name :
        setup.kind \in Rbac /\ cluster[n] # Absent /\ cluster[n].app # setup.app[j]
        /\ target(j) = n /\ pc[j] = "write" /\ pc'[j] # "write"
        => cluster'[n] = cluster[n] \/ pc'[j] = "crashed"
<1>1. IInv /\ [Next]_vars => [Kept]_vars
  <2> SUFFICES ASSUME IInv, [Next]_vars,
                      NEW j \in Job, NEW n \in Name,
                      setup.kind \in Rbac, cluster[n] # Absent,
                      cluster[n].app # setup.app[j], target(j) = n,
                      pc[j] = "write", pc'[j] # "write", pc'[j] # "crashed"
               PROVE  cluster'[n] = cluster[n]
    BY DEF Kept
  <2>0. TypeOK /\ Fresh
    BY DEF IInv
  <2>1. JobStep(j)
    <3>1. ASSUME NEW k \in Job, JobStep(k)
          PROVE  k = j
      BY <2>0, <3>1, JobFrame
    <3>2. ~Surroundings
      BY <2>0, SurroundingsFrame
    <3>3. QED
      BY <3>1, <3>2 DEF Next, Surroundings
  <2>2. ASSUME got[j] # Absent, j \notin stale
        PROVE  runExisting(j) = "keep"
    <3>1. got[j].app # setup.app[j]
      BY <2>0, <2>2 DEF Fresh
    <3>2. QED
      BY <3>1 DEF runExisting, Rbac, runRbac, isManagedResource
  <2>3. runExisting(j) # "apply"
    BY DEF runExisting, Rbac, runRbac
  <2>4. CASE Create(j)
    BY <2>4 DEF Create, Store
  <2>5. CASE Update(j)
    BY <2>2, <2>5 DEF Update
  <2>6. CASE ApplyDeployment(j)
    BY <2>3, <2>6 DEF ApplyDeployment
  <2>7. CASE Keep(j) \/ Refuse(j)
    BY <2>7 DEF Keep, Refuse
  <2>8. QED
    BY <2>1, <2>4, <2>5, <2>6, <2>7
       DEF JobStep, resolveSharedResource, acquireShareLock, hasSharedResources, Get,
           GetService, Completed, WaitEnds, Clean
<1>2. QED
  BY <1>1, JobsInv, PTL DEF Spec, ForeignRbacIsKept
=============================================================================
