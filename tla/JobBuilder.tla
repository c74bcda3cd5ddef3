----------------------------- MODULE JobBuilder -----------------------------
(***************************************************************************)
(* The way of an application from a request to jobs and back: what         *)
(* TryApplication says of the request, the rows CreateApplications stores, *)
(* the executions GenerateJobTasks makes of them, the resources the jobs   *)
(* leave in the cluster and what CleanupApplicationResources deletes.      *)
(* Validation, storing, building and cleaning up are separate code over    *)
(* the same data, and have to agree.                                       *)
(***************************************************************************)
EXTENDS Templates, FiniteSetsExt

CONSTANTS
  Requests,    \* the requests: records of name, namespace, components, steps
  AppID,       \* the id of the application, one segment
  MaxName,     \* how many segments a resource name keeps (63 characters)
  MaxFailures  \* how many deletes of a cleanup may fail

ASSUME BuilderAssumption == MaxName \in Nat \ {0} /\ MaxFailures \in Nat

\* The components have the types of the API.
ASSUME RequestAssumption == \A r \in Requests : IsComponents(r.components)

VARIABLES
  request,     \* the request
  phase,       \* how far the application has come
  verdict,     \* of TryApplication: "none" before it is asked
  components,  \* the rows of the components, at the positions of resolveComponents
  steps,       \* the steps of the default workflow, at positions of two numbers
  executions,  \* what GenerateJobTasks returned: sets of jobs, at <<step, group>>
  cluster,     \* the resources the jobs have left: [kind, scope, name]
  failed       \* the resources the cleanup reported as failed

vars == <<request, phase, verdict, components, steps, executions, cluster, failed>>

Workload == {"deployment", "statefulset"}

Init ==
  /\ request \in Requests
  /\ phase = "new" /\ verdict = "none"
  /\ components = <<>> /\ steps = <<>> /\ executions = <<>>
  /\ cluster = {} /\ failed = {}

-----------------------------------------------------------------------------
(***************************************************************************)
(* Validation of the components and of the workflow.  A step is a record   *)
(* of name, mode, components (with the policies) and subSteps.             *)
(***************************************************************************)
\* Names of one character are too short, and so is the empty one.
validateName(name) == name # <<>>

validateComponent(c) ==
  /\ validateName(c.name)
  /\ c.type \in {"webservice", "store", "config", "secret"}
  /\ c.type \in {"webservice", "store"} => c.image
  /\ validateTraits(c.traits)

\* mergeWorkflowComponents and dedupeStrings.
dedupeStrings(names) ==
  FoldLeft(LAMBDA seen, n : IF n \in {<<>>} \cup ToSet(seen) THEN seen ELSE Append(seen, n),
           <<>>, names)

validateWorkflowSteps(ss, known) ==
  LET Known(names) == \A n \in ToSet(dedupeStrings(names)) : ToLower(n) \in known
  IN  /\ Distinct(SelectSeq(ss, LAMBDA s : s.name # <<>>), LAMBDA s : ToLower(s.name))
      /\ \A s \in ToSet(ss) :
           /\ s.mode \in {"StepByStep", "DAG", ""}
           /\ dedupeStrings(s.components) # <<>> \/ s.subSteps # <<>>
           /\ Known(s.components)
           /\ \A sub \in ToSet(s.subSteps) : Known(sub.components)

Valid(r) ==
  /\ validateName(r.name)
  /\ \A c \in ToSet(r.components) : validateComponent(c)
  /\ Distinct(r.components, LAMBDA c : ToLower(c.name))
  /\ validateWorkflowSteps(r.steps, {ToLower(c.name) : c \in ToSet(r.components)})

\* The request is looked at, nothing is stored.
TryApplication ==
  /\ phase = "new" /\ verdict = "none"
  /\ verdict' = IF Valid(request) THEN "valid" ELSE "invalid"
  /\ UNCHANGED <<request, phase, components, steps, executions, cluster, failed>>

-----------------------------------------------------------------------------
(***************************************************************************)
(* CreateApplications for a new application.                               *)
(***************************************************************************)
ParseWorkflowMode(mode) == IF mode = "DAG" THEN "DAG" ELSE "StepByStep"

Rows == {components[p] : p \in DOMAIN components}

convertWorkflowStepByComponent(cs) ==
  Map(cs, LAMBDA c : [name |-> c.name, mode |-> "StepByStep",
                      components |-> <<c.name>>, subSteps |-> <<>>])

convertWorkflowStepsFromRequest(ss) ==
  [p \in {0} \X DOMAIN ss |->
    LET s == ss[p[2]]
    IN  [name |-> s.name, mode |-> ParseWorkflowMode(s.mode),
         components |-> dedupeStrings(s.components),
         subSteps |-> Map(s.subSteps, LAMBDA sub :
           [name |-> sub.name, components |-> dedupeStrings(sub.components)])]]

\* prepareComponents: the namespace is the application's.
prepareComponents(namespace, cs) == Map(cs, LAMBDA c : [c EXCEPT !.namespace = namespace])

NamespaceOf(r) == IF r.namespace = "" THEN "default" ELSE r.namespace

\* Application, components and workflow in one transaction, or an error.
CreateApplications ==
  /\ phase = "new"
  /\ LET namespace == NamespaceOf(request)
         resolved == resolveComponents(request.name, namespace, request.components)
         rows == resolved.components
         ok == resolved.ok /\ \A p \in DOMAIN rows :
                                rows[p].type \in {"webservice", "store"} => rows[p].image
     IN  IF ok
         THEN /\ phase' = "stored"
              /\ components' = prepareComponents(namespace, rows)
              /\ steps' = IF request.steps = <<>> THEN convertWorkflowStepByComponent(rows)
                          ELSE convertWorkflowStepsFromRequest(request.steps)
         ELSE phase' = "refused" /\ UNCHANGED <<components, steps>>
  /\ UNCHANGED <<request, verdict, executions, cluster, failed>>

-----------------------------------------------------------------------------
(***************************************************************************)
(* The job builder.  A job is a record of priority, kind, scope, name,     *)
(* skipped, component and, for a workload, its pod.                        *)
(***************************************************************************)
MaxHigh == 0
High == 1
Normal == 10

\* naming.buildResourceName: cut to the length Kubernetes allows, the
\* application's id at the end goes first.
buildResourceName(prefix, name) ==
  LET full == <<prefix>> \o Or(ToLower(name), <<"component">>) \o <<AppID>>
  IN  SubSeq(full, 1, IF Len(full) < MaxName THEN Len(full) ELSE MaxName)

\* The workload with the component's container, and the objects of its traits; not
\* ok when a trait cannot be processed.
Generated(c, kind, name) ==
  LET main == [name |-> ToLower(c.name), mounts |-> {}, env |-> {}, probes |-> {}]
  IN  ApplyTraits(c, [kind |-> kind, containers |-> <<main>>, inits |-> <<>>,
                      volumes |-> {}, templates |-> {}, sa |-> <<>>, name |-> name])

GenerateWebService(c) == Generated(c, "deployment", buildResourceName("deploy", c.name))

GenerateStoreService(c) == Generated(c, "statefulset", buildResourceName("store", c.name))

GenerateWorkload(c) ==
  IF c.type = "webservice" THEN GenerateWebService(c) ELSE GenerateStoreService(c)

NoPod == [containers |-> <<>>, inits |-> <<>>, volumes |-> {}, templates |-> {},
          sa |-> <<>>]

\* NewJobTask; a shared component that is ignored gets jobs that are skipped.
NewJobTask(c, priority, kind, scope, name, pod) ==
  [priority |-> priority, kind |-> kind, scope |-> scope, name |-> name, pod |-> pod,
   component |-> c.name, skipped |-> c.traits.share = "ignore"]

\* An Ingress is renamed here, the other objects keep their names.
CreateObjectJobsFromResult(c, objects) ==
  {NewJobTask(c, High, o.kind, o.scope,
              IF o.kind = "ingress" THEN buildResourceName("ing", o.name) ELSE o.name,
              NoPod) : o \in objects}

\* Seeded fault: a workload goes before the objects of its traits.
queueServiceJobsFirst(c, result) ==
  LET w == result.service
  IN  IF ~result.ok THEN {}
      ELSE CreateObjectJobsFromResult(c, result.objects)
             \cup {NewJobTask(c, MaxHigh, w.kind, c.namespace, w.name, w)}

\* A workload that could not be generated has no jobs, and nothing says so.
queueServiceJobs(c, result) ==
  LET w == result.service
  IN  IF ~result.ok THEN {}
      ELSE CreateObjectJobsFromResult(c, result.objects)
             \cup {NewJobTask(c, Normal, w.kind, c.namespace, w.name, w)}

\* A Service for a component of any type with ports, its workload or not.
ServiceJobs(c) ==
  IF c.ports
  THEN {NewJobTask(c, Normal, "service", c.namespace,
                   buildResourceName("svc", c.name), NoPod)}
  ELSE {}

buildJobsForComponent(c) ==
  (CASE c.type \in {"webservice", "store"} -> queueServiceJobs(c, GenerateWorkload(c))
     [] c.type = "config" ->
          {NewJobTask(c, MaxHigh, "configmap", c.namespace, c.name, NoPod)}
     [] c.type = "secret" ->
          {NewJobTask(c, MaxHigh, "secret", c.namespace, c.name, NoPod)}
     [] OTHER -> {})
  \cup ServiceJobs(c)

\* componentMap: of rows with one name the last counts.
RowOf(name) ==
  CHOOSE p \in DOMAIN components :
    /\ components[p].name = name
    /\ \A q \in DOMAIN components : components[q].name = name => ~Before(p, q)

\* The jobs of the components with these names, whose priorities are their
\* buckets; a name without a row is passed over.
appendComponentGroup(names) ==
  UNION {buildJobsForComponent(components[RowOf(n)]) :
           n \in names \cap {c.name : c \in Rows}}

ComponentNames(s) ==
  IF s.components = <<>> /\ s.name # <<>> THEN <<s.name>> ELSE s.components

\* The groups of component names a step makes executions of, in order.
Groups(s) ==
  LET Names(x) == ToSet(ComponentNames(x))
  IN  CASE s.subSteps # <<>> ->
             IF s.mode = "DAG" THEN <<UNION {Names(sub) : sub \in ToSet(s.subSteps)}>>
             ELSE Map(s.subSteps, Names)
        [] s.subSteps = <<>> /\ s.mode = "DAG" -> <<Names(s)>>
        [] OTHER -> Map(ComponentNames(s), LAMBDA n : {n})

\* The executions of all steps; one without jobs is as good as none.
GenerateJobTasks ==
  /\ phase = "stored"
  /\ phase' = "built"
  /\ executions' = [e \in UNION {{p} \X DOMAIN Groups(steps[p]) : p \in DOMAIN steps} |->
                     appendComponentGroup(Groups(steps[e[1]])[e[2]])]
  /\ UNCHANGED <<request, verdict, components, steps, cluster, failed>>

Resource(j) == [kind |-> j.kind, scope |-> j.scope, name |-> j.name]

\* The jobs before those of an execution's batch: one execution runs after the
\* other, and in each the jobs of one priority after those of the other.
JobsBefore(e, priority) ==
  {j \in executions[e] : j.priority < priority}
    \cup UNION {executions[f] : f \in {g \in DOMAIN executions :
                  Before(g[1], e[1]) \/ (g[1] = e[1] /\ g[2] < e[2])}}

\* What a set of jobs leaves in the cluster.
Leave(jobs) == cluster' = {Resource(j) : j \in {x \in jobs : ~x.skipped}}

\* The workflow runs, to its end or to a batch some of whose jobs, which run in
\* parallel, fail and leave nothing.
RunJobs ==
  /\ phase = "built"
  /\ phase' = "run"
  /\ \/ DOMAIN executions = {} /\ Leave({})
     \/ \E e \in DOMAIN executions, p \in {MaxHigh, High, Normal} :
          \E done \in SUBSET {j \in executions[e] : j.priority = p} :
            Leave(JobsBefore(e, p) \cup done)
  /\ UNCHANGED <<request, verdict, components, steps, executions, failed>>

-----------------------------------------------------------------------------
(***************************************************************************)
(* CleanupApplicationResources.                                            *)
(***************************************************************************)
Named(kind, scope, name) == [kind |-> kind, scope |-> scope, name |-> name]

\* Seeded fault: the Service is looked for under the component's name.
deleteServiceForComponentName(c) ==
  IF c.ports THEN {Named("service", c.namespace, ToLower(c.name))} ELSE {}

deleteServiceForComponent(c) ==
  IF c.ports THEN {Named("service", c.namespace, buildResourceName("svc", c.name))}
  ELSE {}

\* The objects as the traits name them: an Ingress under a name no job gave it.
deleteAdditionalObjects(result) ==
  {Named(o.kind, o.scope, o.name) : o \in result.objects}

\* The workload, and its objects if they can be generated.
deleteWorkload(c, result) ==
  {Named(result.service.kind, c.namespace, result.service.name)}
    \cup (IF result.ok THEN deleteAdditionalObjects(result) ELSE {})

\* What is deleted for a component, shared or not.
deleteComponentResources(c) ==
  deleteServiceForComponent(c) \cup
  (CASE c.type \in {"webservice", "store"} -> deleteWorkload(c, GenerateWorkload(c))
     [] c.type = "config" -> {Named("configmap", c.namespace, c.name)}
     [] c.type = "secret" -> {Named("secret", c.namespace, c.name)}
     [] OTHER -> {})

\* Every delete is tried.  What is not there counts as deleted; the resources
\* whose delete fails are reported.
DeleteAll(targets) ==
  \E k \in 0 .. MaxFailures : \E F \in kSubset(k, targets) :
    failed' = F /\ cluster' = cluster \ (targets \ F)

CleanupApplicationResources ==
  /\ phase = "run"
  /\ phase' = "cleaned"
  /\ DeleteAll(UNION {deleteComponentResources(c) : c \in Rows})
  /\ UNCHANGED <<request, verdict, components, steps, executions>>

Terminated == phase \in {"refused", "cleaned"} /\ UNCHANGED vars

Next ==
  \/ TryApplication \/ CreateApplications \/ GenerateJobTasks \/ RunJobs
  \/ CleanupApplicationResources \/ Terminated

Spec == Init /\ [][Next]_vars

-----------------------------------------------------------------------------
(***************************************************************************)
(* Properties.                                                             *)
(***************************************************************************)
Jobs == UNION {executions[e] : e \in DOMAIN executions}

\* The traits whose validation and processing are known to disagree.
LeafDisagree(t) ==
  \/ \E x \in ToSet(t.storage) : x.name = <<>> \/ ~ParseQuantity(x.size)
  \/ \E e \in ToSet(t.env_from) : e.type = "configMap"
  \/ \E p \in ToSet(t.probes) : Cardinality(p.handlers) # 1
  \/ ~Distinct(t.probes, LAMBDA p : p.type)
  \/ \E r \in ToSet(t.resources) : \E q \in {r.cpu, r.memory, r.gpu} : ~ParseQuantity(q)

Disagree(t) ==
  LeafDisagree(t) \/ \E x \in ToSet(t.init) \cup ToSet(t.sidecar) : LeafDisagree(x.traits)

\* A request that TryApplication finds valid is not refused later (without
\* templates, which it does not look up), and each plain component whose name is
\* in a group of a step, and not a clone's, has a job besides the one of its
\* Service, or its traits are among those known to disagree: validation.go
\* refuses what prepareComponents refuses, and what the trait processors cannot
\* process, of which the builder says nothing.
ValidIsBuilt ==
  verdict = "valid"
  => /\ (\A c \in ToSet(request.components) : c.template = NoTemplate)
        => phase # "refused"
     /\ phase \notin {"new", "refused", "stored"}
        => \A s \in DOMAIN steps, p \in DOMAIN components :
             LET c == components[p]
             IN  /\ p[1] = 0 /\ p = RowOf(c.name)
                 /\ \E g \in DOMAIN Groups(steps[s]) : c.name \in Groups(steps[s])[g]
                 /\ ~Disagree(c.traits)
                 => \E j \in Jobs : j.component = c.name /\ j.kind # "service"

\* What a pod refers to.
Uses(pod) ==
  LET containers == ToSet(pod.containers) \cup ToSet(pod.inits)
  IN  {<<v.source, v.ref>> : v \in pod.volumes}
        \cup {<<IF e.from = "config" THEN "configmap" ELSE "secret", e.ref>> :
                e \in UNION {x.env : x \in containers}}
        \cup {<<"serviceaccount", pod.sa>>}

\* Within an execution, what a pod refers to is made before the pod: the
\* configuration, claims and service account of a component, or of one that
\* runs in parallel, are never in the pod's batch or in a later one.
DependenciesFirst ==
  \A e \in DOMAIN executions : \A w, j \in executions[e] :
    w.kind \in Workload /\ <<j.kind, j.name>> \in Uses(w.pod) /\ j.scope = w.scope
    => j.priority < w.priority

\* Every mount of every container has its volume in the pod, whatever is dropped
\* as a duplicate on the way, unless a volume that refers to an existing claim is
\* taken for a claim template of the same name.
MountsResolve ==
  \A w \in Jobs :
    LET pod == w.pod
        t0 == components[RowOf(w.component)].traits
        all == ToSet(t0.storage) \cup UNION {ToSet(x.traits.storage) :
                                               x \in ToSet(t0.init) \cup ToSet(t0.sidecar)}
        plain == \A s \in all : /\ s.type # "host_mounted"
                                /\ ~s.tmpCreate => VolumeRef(s) \notin pod.templates
    IN  w.kind \in Workload /\ plain
        => \A x \in ToSet(pod.containers) \cup ToSet(pod.inits) : \A mt \in x.mounts :
             mt.volume \in {v.name : v \in pod.volumes} \cup pod.templates

\* The names by which a container's traits refer to other components.
Refs(t) ==
  [storage |-> Map(t.storage, LAMBDA s : s.sourceName),
   env_from |-> Map(t.env_from, LAMBDA e : e.sourceName),
   envs |-> Map(t.envs, LAMBDA e : e.ref)]

\* Where the traits t refer to old, the traits u refer to new.
Follows(t, u, old, new) ==
  \A f \in {"storage", "env_from", "envs"} : \A i \in DOMAIN Refs(t)[f] :
    Refs(t)[f][i] = old => Refs(u)[f][i] = new

\* No template component is called by two names of others.
Unambiguous(tcs) ==
  \A i, k \in DOMAIN tcs : tcs[i].name # <<>> /\ (tcs[i].name \in Aliases(tcs[k]) => i = k)

\* A clone refers to clones: where the template's component names another of its
\* components, the clone names that one's clone, whatever the names and the order
\* of the overrides, before and after it in the template, in its own traits and
\* in those of its containers.
RefsFollowClones ==
  \A p, q \in DOMAIN components :
    p[1] # 0 /\ q[1] = p[1]
    => LET tcs == Template[request.components[p[1]].template.id].components
           t == tcs[p[2]].traits
           u == components[p].traits
           old == tcs[q[2]].name
           new == components[q].name
       IN  Unambiguous(tcs)
           => /\ Follows(t, u, old, new)
              /\ \A kind \in {"init", "sidecar"} : \A i \in DOMAIN t[kind] :
                   Follows(t[kind][i].traits, u[kind][i].traits, old, new)

\* After a cleanup the cluster has nothing of the application left except what
\* was reported, and the Ingresses, which are looked for under another name:
\* cleanup computes the names again that the builder has computed.
CleanupCovers ==
  phase = "cleaned" => \A r \in cluster : r \in failed \/ r.kind = "ingress"
=============================================================================
