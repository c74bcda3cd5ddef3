-------------------------- MODULE JobBuilderProofs --------------------------
(***************************************************************************)
(* What holds of every request and every set of templates: proofs of the   *)
(* properties of JobBuilder.  The state is a function of the request and   *)
(* of how far the application has come (BuilderInv); the properties then   *)
(* follow from lemmas about the operators of Traits, Templates and         *)
(* JobBuilder.                                                             *)
(***************************************************************************)
EXTENDS JobBuilder, FiniteSetTheorems, WellFoundedInduction, NaturalsInduction,
        SequenceTheorems, TLAPS

-----------------------------------------------------------------------------
(***************************************************************************)
(* Positions.                                                              *)
(***************************************************************************)
\* A set of numbers with a bound has a greatest element.
LEMMA Greatest ==
  ASSUME NEW S \in SUBSET Nat, S # {}, NEW n \in Nat, \A x \in S : x <= n
  PROVE  \E x \in S : \A y \in S : y <= x
<1> DEFINE T == {k \in Nat : n - k \in S}
<1>1. T \subseteq Nat /\ T # {}
  <2>1. PICK z \in S : TRUE
    OBVIOUS
  <2>2. n - z \in T
    OBVIOUS
  <2> QED
    BY <2>2
<1>2. PICK x \in T : \A y \in T : ~(<<y, x>> \in OpToRel(<, Nat))
  BY <1>1, WFMin, NatLessThanWellFounded
<1>3. \A y \in T : ~(y < x)
  BY <1>1, <1>2 DEF OpToRel
<1>4. \A y \in S : n - y \in T
  OBVIOUS
<1> QED
  BY <1>1, <1>3, <1>4

\* A set of numbers has a least element.
LEMMA Least ==
  ASSUME NEW S \in SUBSET Nat, S # {}
  PROVE  \E x \in S : \A y \in S : x <= y
<1>0. S \subseteq Nat /\ S # {}
  OBVIOUS
<1>1. PICK x \in S : \A y \in S : ~(<<y, x>> \in OpToRel(<, Nat))
  BY <1>0, WFMin, NatLessThanWellFounded
<1>2. \A y \in S : ~(y < x)
  BY <1>0, <1>1 DEF OpToRel
<1> QED
  BY <1>0, <1>2

\* Positions with bounds: of the first number, and for each first number of the
\* second.
Bounded(S) ==
  /\ S \in SUBSET (Nat \X Nat)
  /\ \E n \in Nat : \A p \in S : p[1] <= n
  /\ \A h \in Nat : \E n \in Nat : \A p \in S : p[1] = h => p[2] <= n

\* Some of such positions have a last one.
LEMMA LastPosition ==
  ASSUME NEW T, Bounded(T), NEW S \in SUBSET T, S # {}
  PROVE  \E p \in S : \A q \in S : ~Before(p, q)
<1>0. S \in SUBSET (Nat \X Nat) /\ \A p \in S : p[1] \in Nat /\ p[2] \in Nat
  BY DEF Bounded
<1>1. PICK n \in Nat : \A p \in S : p[1] <= n
  BY DEF Bounded
<1> DEFINE H == {p[1] : p \in S}
<1>2. H \in SUBSET Nat /\ H # {} /\ \A x \in H : x <= n
  BY <1>0, <1>1
<1>3. PICK h \in H : \A x \in H : x <= h
  BY <1>2, Greatest
<1>4. PICK m \in Nat : \A p \in S : p[1] = h => p[2] <= m
  BY <1>2, <1>3 DEF Bounded
<1> DEFINE K == {p[2] : p \in {q \in S : q[1] = h}}
<1>5. K \in SUBSET Nat /\ K # {} /\ \A x \in K : x <= m
  BY <1>0, <1>4
<1>6. PICK k \in K : \A x \in K : x <= k
  BY <1>5, Greatest
<1>7. PICK p \in S : p[1] = h /\ p[2] = k
  BY <1>6
<1>8. \A q \in S : q[1] <= h /\ (q[1] = h => q[2] <= k)
  BY <1>3, <1>6
<1>9. \A q \in S : ~Before(p, q)
  BY <1>0, <1>2, <1>5, <1>7, <1>8 DEF Before
<1> QED
  BY <1>7, <1>9

\* Positions that are not empty have a first one.
LEMMA FirstPosition ==
  ASSUME NEW S \in SUBSET (Nat \X Nat), S # {}
  PROVE  \E p \in S : \A q \in S : ~Before(q, p)
<1>0. \A p \in S : p[1] \in Nat /\ p[2] \in Nat
  OBVIOUS
<1> DEFINE H == {p[1] : p \in S}
<1>1. H \in SUBSET Nat /\ H # {}
  BY <1>0
<1>2. PICK h \in H : \A x \in H : h <= x
  BY <1>1, Least
<1> DEFINE K == {p[2] : p \in {q \in S : q[1] = h}}
<1>3. K \in SUBSET Nat /\ K # {}
  BY <1>0
<1>4. PICK k \in K : \A x \in K : k <= x
  BY <1>3, Least
<1>5. PICK p \in S : p[1] = h /\ p[2] = k
  BY <1>4
<1>6. \A q \in S : h <= q[1] /\ (q[1] = h => k <= q[2])
  BY <1>2, <1>4
<1>7. \A q \in S : ~Before(q, p)
  BY <1>0, <1>1, <1>3, <1>5, <1>6 DEF Before
<1> QED
  BY <1>5, <1>7

-----------------------------------------------------------------------------
(***************************************************************************)
(* The rows.                                                               *)
(***************************************************************************)
\* A component name that has rows has a last one.
LEMMA RowOfName ==
  ASSUME Bounded(DOMAIN components), NEW n \in {c.name : c \in Rows}
  PROVE  RowOf(n) \in DOMAIN components /\ components[RowOf(n)].name = n
<1> DEFINE S == {p \in DOMAIN components : components[p].name = n}
<1>1. S # {} /\ S \in SUBSET DOMAIN components
  BY DEF Rows
<1>2. \E p \in S : \A q \in S : ~Before(p, q)
  BY <1>1, LastPosition
<1>3. \E p \in DOMAIN components :
        /\ components[p].name = n
        /\ \A q \in DOMAIN components : components[q].name = n => ~Before(p, q)
  BY <1>2
<1> QED
  BY <1>3 DEF RowOf

\* The positions of the clones of a template are those of its components, or there
\* are none.
LEMMA ClonePositions ==
  ASSUME NEW app, NEW namespace, NEW id, NEW overrides
  PROVE  \E m \in Nat :
           DOMAIN cloneComponentsFromTemplate(app, namespace, id, overrides).components = 1 .. m
<1> DEFINE clones == cloneComponentsFromTemplate(app, namespace, id, overrides)
<1>1. CASE clones.ok
  <2>1. id \in DOMAIN Template
        /\ DOMAIN clones.components = DOMAIN Template[id].components
    BY <1>1 DEF cloneComponentsFromTemplate
  <2> HIDE DEF clones
  <2>2. Template[id].components \in Seq(ToSet(Template[id].components))
    BY <2>1, TemplateAssumption DEF IsComponents
  <2> QED
    BY <2>1, <2>2 DEF clones
<1>2. CASE ~clones.ok
  <2>1. clones.components = <<>>
    BY <1>2 DEF cloneComponentsFromTemplate
  <2> HIDE DEF clones
  <2>2. DOMAIN clones.components = 1 .. 0
    BY <2>1
  <2> QED
    BY <2>2 DEF clones
<1> QED
  BY <1>1, <1>2

\* What the components resolve to is at positions with bounds.
LEMMA ResolvedBounded ==
  ASSUME NEW r \in Requests
  PROVE  Bounded(DOMAIN resolveComponents(r.name, NamespaceOf(r), r.components).components)
<1> DEFINE cs == r.components
           Id(i) == cs[i].template.id
           plain == {i \in DOMAIN cs : Id(i) = ""}
           heads == {h \in DOMAIN cs \ plain : \A k \in 1 .. h - 1 : Id(k) # Id(h)}
           Clones(h) == cloneComponentsFromTemplate(r.name, NamespaceOf(r), Id(h),
                                                    OverridesOf(cs, Id(h)))
           At == ({0} \X plain) \cup UNION {{h} \X DOMAIN Clones(h).components : h \in heads}
<1>1. PICK n \in Nat : DOMAIN cs = 1 .. n
  <2>1. cs \in Seq(ToSet(cs))
    BY RequestAssumption DEF IsComponents
  <2> QED
    BY <2>1
<1>2. plain \in SUBSET (1 .. n) /\ heads \in SUBSET (1 .. n)
  BY <1>1
<1>3. \A h \in heads : \E m \in Nat : DOMAIN Clones(h).components = 1 .. m
  BY ClonePositions
<1>4. DOMAIN resolveComponents(r.name, NamespaceOf(r), r.components).components = At
  BY DEF resolveComponents
<1> HIDE DEF cs, Id, plain, heads, Clones
<1>5. ASSUME NEW p \in At
      PROVE  \/ p \in {0} \X plain
             \/ p[1] \in heads /\ p \in {p[1]} \X DOMAIN Clones(p[1]).components
  BY <1>5
<1> HIDE DEF At
<1>6. \A p \in At : p \in Nat \X Nat /\ p[1] <= n
  <2> SUFFICES ASSUME NEW p \in At
               PROVE  p \in Nat \X Nat /\ p[1] <= n
    OBVIOUS
  <2>1. CASE p \in {0} \X plain
    <3>1. PICK x \in plain : p = <<0, x>>
      BY <2>1
    <3> QED
      BY <1>2, <3>1
  <2>2. CASE p[1] \in heads /\ p \in {p[1]} \X DOMAIN Clones(p[1]).components
    <3>1. PICK m \in Nat : DOMAIN Clones(p[1]).components = 1 .. m
      BY <1>3, <2>2
    <3> QED
      BY <1>2, <2>2, <3>1
  <2> QED
    BY <1>5, <2>1, <2>2
<1>7. ASSUME NEW h \in Nat
      PROVE  \E m \in Nat : \A p \in At : p[1] = h => p[2] <= m
  <2>1. CASE h \in heads
    <3>1. PICK m \in Nat : DOMAIN Clones(h).components = 1 .. m
      BY <1>3, <2>1
    <3>2. \A p \in At : p[1] = h => p[2] \in 1 .. m
      BY <1>2, <1>5, <2>1, <3>1
    <3> QED
      BY <3>2
  <2>2. CASE h \notin heads
    <3>1. \A p \in At : p[1] = h => p[2] \in plain
      BY <1>5, <2>2
    <3>2. \A x \in plain : x <= n
      BY <1>2
    <3>3. \A p \in At : p[1] = h => p[2] <= n
      BY <3>1, <3>2
    <3> QED
      BY <3>3
  <2> QED
    BY <2>1, <2>2
<1>8. Bounded(At)
  BY <1>6, <1>7 DEF Bounded
<1> QED
  BY <1>4, <1>8

-----------------------------------------------------------------------------
(***************************************************************************)
(* The state.                                                              *)
(***************************************************************************)
Resolved(r) == resolveComponents(r.name, NamespaceOf(r), r.components)

\* What CreateApplications asks of the resolved components.
Accepted(resolved) ==
  /\ resolved.ok
  /\ \A p \in DOMAIN resolved.components :
       resolved.components[p].type \in {"webservice", "store"} => resolved.components[p].image

\* What GenerateJobTasks makes of the rows and steps.
Executions ==
  [e \in UNION {{p} \X DOMAIN Groups(steps[p]) : p \in DOMAIN steps} |->
    appendComponentGroup(Groups(steps[e[1]])[e[2]])]

\* The rows are what the request resolves to, the executions what the rows and the
\* steps make; a request that was refused had a reason, and what is in the cluster
\* before the cleanup was left by a job.
BuilderInv ==
  /\ request \in Requests
  /\ phase \in {"new", "refused", "stored", "built", "run", "cleaned"}
  /\ verdict \in {"none", "valid", "invalid"}
  /\ verdict = "valid" => Valid(request)
  /\ phase = "refused" => ~Accepted(Resolved(request))
  /\ phase \in {"new", "refused"} => components = <<>>
  /\ phase \in {"stored", "built", "run", "cleaned"}
     => components = prepareComponents(NamespaceOf(request), Resolved(request).components)
  /\ phase \in {"new", "refused", "stored"} => executions = <<>>
  /\ phase \in {"built", "run", "cleaned"} => executions = Executions
  /\ phase = "run" => cluster \subseteq {Resource(j) : j \in Jobs}

\* It holds of a request nothing is done with.
LEMMA InitBuilder == Init => BuilderInv
BY DEF Init, BuilderInv

\* What runs is among the jobs.
LEMMA RunIsJobs ==
  ASSUME RunJobs
  PROVE  cluster' \subseteq {Resource(j) : j \in Jobs}
<1>1. CASE DOMAIN executions = {} /\ Leave({})
  BY <1>1 DEF Leave
<1>2. ASSUME NEW e \in DOMAIN executions, NEW p \in {MaxHigh, High, Normal},
             NEW done \in SUBSET {j \in executions[e] : j.priority = p},
             Leave(JobsBefore(e, p) \cup done)
      PROVE  cluster' \subseteq {Resource(j) : j \in Jobs}
  <2>1. ASSUME NEW j \in JobsBefore(e, p)
        PROVE  \E f \in DOMAIN executions : j \in executions[f]
    <3>1. \/ \E x \in {executions[f] : f \in {g \in DOMAIN executions :
                     Before(g[1], e[1]) \/ (g[1] = e[1] /\ g[2] < e[2])}} : j \in x
          \/ j \in executions[e]
      BY <2>1, Zenon DEF JobsBefore
    <3> QED
      BY <3>1, Zenon
  <2>2. \A j \in JobsBefore(e, p) \cup done : j \in Jobs
    BY <2>1 DEF Jobs
  <2> QED
    BY <1>2, <2>2 DEF Leave
<1> QED
  BY <1>1, <1>2 DEF RunJobs

\* The executions are a function of the rows and the steps.
LEMMA ExecutionsStay ==
  ASSUME UNCHANGED <<components, steps>>
  PROVE  Executions' = Executions
<1>1. \A n : RowOf(n)' = RowOf(n)
  BY DEF RowOf
<1>2. \A names : appendComponentGroup(names)' = appendComponentGroup(names)
  BY <1>1 DEF appendComponentGroup, Rows
<1> QED
  BY <1>2 DEF Executions

\* Every step keeps the state a function of the request.
LEMMA NextBuilder == BuilderInv /\ [Next]_vars => BuilderInv'
<1> SUFFICES ASSUME BuilderInv, [Next]_vars
             PROVE  BuilderInv'
  OBVIOUS
<1>1. CASE TryApplication
  BY <1>1, ExecutionsStay DEF BuilderInv, TryApplication
<1>2. CASE CreateApplications
  <2>1. CASE Accepted(Resolved(request))
    BY <1>2, <2>1 DEF BuilderInv, CreateApplications, Accepted, Resolved
  <2>2. CASE ~Accepted(Resolved(request))
    BY <1>2, <2>2 DEF BuilderInv, CreateApplications, Accepted, Resolved
  <2> QED
    BY <2>1, <2>2
<1>3. CASE GenerateJobTasks
  <2>1. executions' = Executions
    BY <1>3 DEF GenerateJobTasks, Executions
  <2> QED
    BY <1>3, <2>1, ExecutionsStay DEF BuilderInv, GenerateJobTasks
<1>4. CASE RunJobs
  <2>1. cluster' \subseteq {Resource(j) : j \in Jobs}
    BY <1>4, RunIsJobs
  <2>2. /\ phase = "built" /\ phase' = "run"
        /\ UNCHANGED <<request, verdict, components, steps, executions, failed>>
    BY <1>4 DEF RunJobs
  <2>3. Jobs' = Jobs
    BY <2>2 DEF Jobs
  <2> QED
    BY <2>1, <2>2, <2>3, ExecutionsStay DEF BuilderInv
<1>5. CASE CleanupApplicationResources
  BY <1>5, ExecutionsStay DEF BuilderInv, CleanupApplicationResources
<1>6. CASE Terminated \/ UNCHANGED vars
  <2>1. UNCHANGED vars
    BY <1>6 DEF Terminated
  <2>2. Jobs' = Jobs
    BY <2>1 DEF Jobs, vars
  <2> QED
    BY <2>1, <2>2, ExecutionsStay DEF BuilderInv, vars
<1> QED
  BY <1>1, <1>2, <1>3, <1>4, <1>5, <1>6 DEF Next

\* CreateApplications and GenerateJobTasks compute the rows and the executions from the
\* request alone, and RunJobs leaves nothing that no job made.
THEOREM BuilderCorrect == Spec => []BuilderInv
BY InitBuilder, NextBuilder, PTL DEF Spec

\* The rows are at positions with bounds: a name that has rows has a last one.
LEMMA RowsBounded ==
  ASSUME BuilderInv
  PROVE  Bounded(DOMAIN components)
<1>1. CASE components = <<>>
  <2>1. DOMAIN components = {}
    BY <1>1
  <2> QED
    BY <2>1 DEF Bounded
<1>2. CASE components = prepareComponents(NamespaceOf(request), Resolved(request).components)
  <2>1. DOMAIN components = DOMAIN Resolved(request).components
    BY <1>2 DEF prepareComponents, Map
  <2> QED
    BY <2>1, ResolvedBounded DEF BuilderInv, Resolved
<1> QED
  BY <1>1, <1>2 DEF BuilderInv

\* A job of an execution is one of a row, the last with its name.
LEMMA JobOfRow ==
  ASSUME BuilderInv, NEW e \in DOMAIN executions, NEW j \in executions[e]
  PROVE  \E p \in DOMAIN components :
           j \in buildJobsForComponent(components[p]) /\ p = RowOf(components[p].name)
<1>1. executions # <<>>
  <2>1. DOMAIN <<>> = {}
    OBVIOUS
  <2> QED
    BY <2>1
<1>2. executions = Executions
  BY <1>1 DEF BuilderInv
<1>3. j \in appendComponentGroup(Groups(steps[e[1]])[e[2]])
  BY <1>2 DEF Executions
<1>4. PICK n \in {c.name : c \in Rows} : j \in buildJobsForComponent(components[RowOf(n)])
  BY <1>3 DEF appendComponentGroup
<1>5. RowOf(n) \in DOMAIN components /\ components[RowOf(n)].name = n
  BY RowsBounded, RowOfName
<1> QED
  BY <1>4, <1>5

-----------------------------------------------------------------------------
(***************************************************************************)
(* The cleanup.                                                            *)
(***************************************************************************)
\* What a job of a component leaves is deleted with the component, but for an
\* Ingress: the same names are computed twice.
LEMMA JobIsDeleted ==
  ASSUME NEW c, NEW j \in buildJobsForComponent(c), j.kind # "ingress"
  PROVE  Resource(j) \in deleteComponentResources(c)
<1>1. CASE j \in ServiceJobs(c)
  <2>1. c.ports /\ Resource(j) = Named("service", c.namespace, buildResourceName("svc", c.name))
    BY <1>1 DEF ServiceJobs, NewJobTask, Resource, Named
  <2>2. Resource(j) \in deleteServiceForComponent(c)
    BY <2>1 DEF deleteServiceForComponent
  <2> QED
    BY <2>2 DEF deleteComponentResources
<1>2. CASE c.type \in {"webservice", "store"} /\ j \in queueServiceJobs(c, GenerateWorkload(c))
  <2> DEFINE result == GenerateWorkload(c)
             w == result.service
  <2>1. result.ok
    BY <1>2 DEF queueServiceJobs
  <2> HIDE DEF result
  <2>2. ASSUME j = NewJobTask(c, Normal, w.kind, c.namespace, w.name, w)
        PROVE  Resource(j) \in deleteWorkload(c, result)
    BY <2>2 DEF NewJobTask, Resource, Named, deleteWorkload
  <2>3. ASSUME j \in CreateObjectJobsFromResult(c, result.objects)
        PROVE  Resource(j) \in deleteWorkload(c, result)
    <3>1. PICK o \in result.objects :
            j = NewJobTask(c, High, o.kind, o.scope,
                  IF o.kind = "ingress" THEN buildResourceName("ing", o.name) ELSE o.name, NoPod)
      BY <2>3 DEF CreateObjectJobsFromResult
    <3>2. Resource(j) = Named(o.kind, o.scope, o.name)
      BY <3>1 DEF NewJobTask, Resource, Named
    <3> QED
      BY <2>1, <3>2 DEF deleteWorkload, deleteAdditionalObjects
  <2>4. Resource(j) \in deleteWorkload(c, result)
    BY <1>2, <2>1, <2>2, <2>3 DEF queueServiceJobs, result
  <2> QED
    BY <1>2, <2>4 DEF deleteComponentResources, result
<1>3. CASE c.type = "config"
           /\ j = NewJobTask(c, MaxHigh, "configmap", c.namespace, c.name, NoPod)
  <2>1. Resource(j) = Named("configmap", c.namespace, c.name)
    BY <1>3 DEF NewJobTask, Resource, Named
  <2> QED
    BY <1>3, <2>1 DEF deleteComponentResources
<1>4. CASE c.type = "secret"
           /\ j = NewJobTask(c, MaxHigh, "secret", c.namespace, c.name, NoPod)
  <2>1. Resource(j) = Named("secret", c.namespace, c.name)
    BY <1>4 DEF NewJobTask, Resource, Named
  <2> QED
    BY <1>4, <2>1 DEF deleteComponentResources
<1> QED
  BY <1>1, <1>2, <1>3, <1>4 DEF buildJobsForComponent

\* The cleanup leaves nothing but what it reported and the Ingresses.
LEMMA CleanupStep ==
  ASSUME BuilderInv, CleanupApplicationResources
  PROVE  CleanupCovers'
<1> DEFINE targets == UNION {deleteComponentResources(c) : c \in Rows}
<1>1. PICK F : failed' = F /\ cluster' = cluster \ (targets \ F)
  BY DEF CleanupApplicationResources, DeleteAll
<1>2. cluster \subseteq {Resource(j) : j \in Jobs}
  BY DEF BuilderInv, CleanupApplicationResources
<1>3. ASSUME NEW r \in cluster', r.kind # "ingress"
      PROVE  r \in failed'
  <2>1. PICK j \in Jobs : r = Resource(j)
    BY <1>1, <1>2
  <2>2. PICK e \in DOMAIN executions : j \in executions[e]
    BY DEF Jobs
  <2>3. PICK p \in DOMAIN components : j \in buildJobsForComponent(components[p])
    BY <2>2, JobOfRow
  <2>4. r.kind = j.kind
    BY <2>1 DEF Resource
  <2>5. r \in deleteComponentResources(components[p])
    BY <1>3, <2>1, <2>3, <2>4, JobIsDeleted
  <2>6. r \in targets
    BY <2>5 DEF Rows
  <2> QED
    BY <1>1, <2>6
<1> QED
  BY <1>3 DEF CleanupCovers

\* CleanupApplicationResources finds all that the jobs have left, but for the
\* Ingresses, or reports it: cleanup computes the names the builder has computed,
\* whatever the components, their traits and the length to which names are cut.
THEOREM CleanupCoversAll == Spec => []CleanupCovers
<1>1. Init => CleanupCovers
  BY DEF Init, CleanupCovers
<1>2. BuilderInv /\ CleanupCovers /\ [Next]_vars => CleanupCovers'
  <2> SUFFICES ASSUME BuilderInv, CleanupCovers, [Next]_vars
               PROVE  CleanupCovers'
    OBVIOUS
  <2>1. CASE CleanupApplicationResources
    BY <2>1, CleanupStep
  <2>2. CASE TryApplication \/ CreateApplications \/ GenerateJobTasks \/ RunJobs
    BY <2>2 DEF CleanupCovers, TryApplication, CreateApplications, GenerateJobTasks, RunJobs
  <2>3. CASE Terminated \/ UNCHANGED vars
    BY <2>3 DEF CleanupCovers, Terminated, vars
  <2> QED
    BY <2>1, <2>2, <2>3 DEF Next
<1> QED
  BY <1>1, <1>2, BuilderCorrect, PTL DEF Spec

-----------------------------------------------------------------------------
(***************************************************************************)
(* The results of the processors.                                          *)
(***************************************************************************)
ObjectKinds == {"pvc", "serviceaccount", "role", "rolebinding", "clusterrole",
                "clusterrolebinding", "ingress"}

\* The positions of the volumes of a result are numbers.
Numbered(r) == DOMAIN r.volumes \in SUBSET Nat

\* The volumes of a result are those of the storage traits in S.
VolumesAreOf(r, S) ==
  \A k \in DOMAIN r.volumes : \A v \in r.volumes[k] :
    \E s \in S : s.type \in DOMAIN StorageTypeMapping /\ v = Volume(s)

\* The objects of a result have the kinds of traits' objects.
KindsAre(r) == \A k \in DOMAIN r.objects : \A o \in r.objects[k] : o.kind \in ObjectKinds

\* The storage processor makes a volume of each type it knows, and a volume for
\* each mount but that of a host path.
LEMMA StorageResult ==
  ASSUME NEW c, NEW traits, DOMAIN traits \in SUBSET Nat
  PROVE  LET r == StorageProcessor(c, traits)
         IN  /\ Numbered(r) /\ VolumesAreOf(r, ToSet(traits)) /\ KindsAre(r)
             /\ r.inits = <<>> /\ r.containers = <<>>
             /\ \A k \in DOMAIN r.mounts :
                  /\ k \in DOMAIN traits /\ r.mounts[k] = {Mount(traits[k])}
                  /\ traits[k].type # "host_mounted"
                     => k \in DOMAIN r.volumes /\ r.volumes[k] = {Volume(traits[k])}
<1> DEFINE r == StorageProcessor(c, traits)
           vs == {i \in DOMAIN traits : \A k \in 1 .. i - 1 :
                    VolumeName(traits[k]) # VolumeName(traits[i])}
           made == {k \in vs : traits[k].type # "host_mounted"}
           claims == {k \in vs : traits[k].type = "persistent"}
           known == \A i \in vs :
                      /\ traits[i].type \in DOMAIN StorageTypeMapping
                      /\ traits[i].type = "persistent" => ParseQuantity(traits[i].size)
<1>1. CASE r = [NoResult EXCEPT !.ok = FALSE]
  <2>1. r.volumes = <<>> /\ r.mounts = <<>> /\ r.objects = <<>>
        /\ r.inits = <<>> /\ r.containers = <<>>
    BY <1>1 DEF NoResult
  <2> HIDE DEF r
  <2>2. DOMAIN r.volumes = {} /\ DOMAIN r.mounts = {} /\ DOMAIN r.objects = {}
    BY <2>1
  <2>3. Numbered(r) /\ VolumesAreOf(r, ToSet(traits)) /\ KindsAre(r)
    BY <2>2 DEF Numbered, VolumesAreOf, KindsAre
  <2> QED
    BY <2>1, <2>2, <2>3 DEF r
<1>2. CASE known /\ r = [NoResult EXCEPT
             !.volumes = [i \in made |-> {Volume(traits[i])}],
             !.mounts = [i \in vs |-> {Mount(traits[i])}],
             !.objects = [i \in claims |-> {Claim(c, traits[i])}]]
  <2>1. /\ r.volumes = [i \in made |-> {Volume(traits[i])}]
        /\ r.mounts = [i \in vs |-> {Mount(traits[i])}]
        /\ r.objects = [i \in claims |-> {Claim(c, traits[i])}]
        /\ r.inits = <<>> /\ r.containers = <<>>
    BY <1>2 DEF NoResult
  <2>2. vs \in SUBSET DOMAIN traits /\ made \in SUBSET vs /\ claims \in SUBSET vs
    OBVIOUS
  <2>3. \A i \in vs : traits[i].type \in DOMAIN StorageTypeMapping
    BY <1>2
  <2>4. \A i \in vs : traits[i].type # "host_mounted" => i \in made
    OBVIOUS
  <2> HIDE DEF r, vs, made, claims, known
  <2>5. Numbered(r)
    BY <2>1, <2>2 DEF Numbered
  <2>6. VolumesAreOf(r, ToSet(traits))
    BY <2>1, <2>2, <2>3 DEF VolumesAreOf, ToSet
  <2>7. KindsAre(r)
    <3>1. \A i : Claim(c, traits[i]).kind = "pvc"
      BY DEF Claim, Object
    <3> QED
      BY <2>1, <3>1 DEF KindsAre, ObjectKinds
  <2>8. \A k \in DOMAIN r.mounts :
          /\ k \in DOMAIN traits /\ r.mounts[k] = {Mount(traits[k])}
          /\ traits[k].type # "host_mounted"
             => k \in DOMAIN r.volumes /\ r.volumes[k] = {Volume(traits[k])}
    BY <2>1, <2>2, <2>4
  <2> QED
    BY <2>1, <2>5, <2>6, <2>7, <2>8 DEF r
<1> QED
  BY <1>1, <1>2 DEF StorageProcessor

\* A result without volumes and mounts.
Quiet(r) ==
  /\ DOMAIN r.volumes = {} /\ DOMAIN r.mounts = {} /\ KindsAre(r)
  /\ r.inits = <<>> /\ r.containers = <<>>

\* The processors of variables, resources and probes make nothing else.
LEMMA PlainResults ==
  ASSUME NEW traits
  PROVE  /\ Quiet(EnvFromProcessor(traits)) /\ Quiet(EnvsProcessor(traits))
         /\ Quiet(ResourcesProcessor(traits)) /\ Quiet(ProbeProcessor(traits))
<1>1. DOMAIN <<>> = {}
  OBVIOUS
<1>2. Quiet(EnvFromProcessor(traits))
  BY <1>1 DEF Quiet, KindsAre, NoResult, EnvFromProcessor
<1>3. Quiet(EnvsProcessor(traits))
  BY <1>1 DEF Quiet, KindsAre, NoResult, EnvsProcessor
<1>4. Quiet(ResourcesProcessor(traits))
  BY <1>1 DEF Quiet, KindsAre, NoResult, ResourcesProcessor
<1>5. Quiet(ProbeProcessor(traits))
  BY <1>1 DEF Quiet, KindsAre, NoResult, ProbeProcessor
<1> QED
  BY <1>2, <1>3, <1>4, <1>5

\* An Ingress has its kind.
LEMMA IngressResult ==
  ASSUME NEW c, NEW traits
  PROVE  Quiet(IngressProcessor(c, traits))
<1>1. DOMAIN <<>> = {}
  OBVIOUS
<1> QED
  BY <1>1 DEF Quiet, KindsAre, NoResult, IngressProcessor, Object, ObjectKinds

\* So have the objects of a policy.
LEMMA RBACResult ==
  ASSUME NEW c, NEW traits, Len(traits) \in Nat
  PROVE  Quiet(RBACProcessor(c, traits))
<1>1. DOMAIN <<>> = {}
  OBVIOUS
<1> DEFINE r == RBACProcessor(c, traits)
<1>2. DOMAIN r.volumes = {} /\ DOMAIN r.mounts = {} /\ r.inits = <<>> /\ r.containers = <<>>
  BY <1>1 DEF NoResult, RBACProcessor
<1>3. KindsAre(r)
  <2> SUFFICES ASSUME NEW k \in DOMAIN r.objects, NEW o \in r.objects[k]
               PROVE  o.kind \in ObjectKinds
    BY DEF KindsAre
  <2>1. k \in 0 .. 3 * Len(traits) - 1
    BY DEF RBACProcessor, NoResult
  <2>2. 1 + (k % 3) \in {1, 2, 3}
    BY <2>1
  <2>3. \A i : \A m \in {1, 2, 3} : PolicyObjects(c, traits, i)[m].kind \in ObjectKinds
    <3> SUFFICES ASSUME NEW i
                 PROVE  \A m \in {1, 2, 3} : PolicyObjects(c, traits, i)[m].kind \in ObjectKinds
      OBVIOUS
    <3>1. PolicyObjects(c, traits, i)[1].kind = "serviceaccount"
      BY DEF PolicyObjects, Object
    <3>2. PolicyObjects(c, traits, i)[2].kind \in {"clusterrole", "role"}
      BY DEF PolicyObjects, Object
    <3>3. PolicyObjects(c, traits, i)[3].kind \in {"clusterrolebinding", "rolebinding"}
      BY DEF PolicyObjects, Object
    <3> QED
      BY <3>1, <3>2, <3>3 DEF ObjectKinds
  <2>4. o = PolicyObjects(c, traits, 1 + (k \div 3))[1 + (k % 3)]
    BY <2>1 DEF RBACProcessor, NoResult
  <2> QED
    BY <2>2, <2>3, <2>4
<1> QED
  BY <1>2, <1>3 DEF Quiet

-----------------------------------------------------------------------------
(***************************************************************************)
(* Results together.                                                       *)
(***************************************************************************)
\* What the results have together one of them has.
LEMMA AggregateFrom ==
  ASSUME NEW results
  PROVE  LET a == aggregateTraitResults(results)
         IN  /\ \A v \in a.volumes : \E i \in DOMAIN results :
                  \E k \in DOMAIN results[i].volumes : v \in results[i].volumes[k]
             /\ \A m \in a.mounts : \E i \in DOMAIN results :
                  \E k \in DOMAIN results[i].mounts : m \in results[i].mounts[k]
             /\ \A o \in a.objects : \E i \in DOMAIN results :
                  \E k \in DOMAIN results[i].objects : o \in results[i].objects[k]
<1> DEFINE a == aggregateTraitResults(results)
<1>1. /\ a.volumes = VolumesOf(results)
      /\ a.mounts = FirstBy(results, "mounts", MountKey)
      /\ a.objects = FirstBy(results, "objects", ObjectKey)
  BY DEF aggregateTraitResults
<1> HIDE DEF a
<1>2. \A v \in a.volumes : \E i \in DOMAIN results :
        \E k \in DOMAIN results[i].volumes : v \in results[i].volumes[k]
  BY <1>1 DEF VolumesOf, FirstBy
<1>3. \A m \in a.mounts : \E i \in DOMAIN results :
        \E k \in DOMAIN results[i].mounts : m \in results[i].mounts[k]
  BY <1>1 DEF FirstBy
<1>4. \A o \in a.objects : \E i \in DOMAIN results :
        \E k \in DOMAIN results[i].objects : o \in results[i].objects[k]
  BY <1>1 DEF FirstBy
<1> QED
  BY <1>2, <1>3, <1>4 DEF a

\* Of each volume name a volume is kept, whatever is dropped as a duplicate.
LEMMA VolumeKept ==
  ASSUME NEW results, DOMAIN results \in SUBSET Nat,
         \A i \in DOMAIN results : Numbered(results[i]),
         NEW i \in DOMAIN results, NEW k \in DOMAIN results[i].volumes,
         NEW v \in results[i].volumes[k]
  PROVE  \E u \in aggregateTraitResults(results).volumes : u.name = v.name
<1> DEFINE At == UNION {{n} \X DOMAIN results[n].volumes : n \in DOMAIN results}
           List(p) == results[p[1]].volumes[p[2]]
           S == {p \in At : \E y \in List(p) : y.name = v.name}
<1>1. S \in SUBSET (Nat \X Nat)
  BY DEF Numbered
<1>2. <<i, k>> \in S
  OBVIOUS
<1>3. PICK p \in S : \A q \in S : ~Before(q, p)
  BY <1>1, <1>2, FirstPosition
<1>4. PICK u \in List(p) : u.name = v.name
  OBVIOUS
<1>5. \A q \in At : Before(q, p) => \A y \in List(q) : y.name # u.name
  BY <1>3, <1>4
<1>6. u \in VolumesOf(results)
  BY <1>4, <1>5 DEF VolumesOf, FirstBy
<1> QED
  BY <1>4, <1>6 DEF aggregateTraitResults

\* The mounts ms are of the storage traits S, and have their volumes.
MountsHave(ms, S, volumes) ==
  \A m \in ms : \E s \in S :
    m = Mount(s) /\ (s.type # "host_mounted" => \E v \in volumes : v.name = m.volume)

\* The volumes are those of the storage traits S.
VolumesFrom(volumes, S) ==
  \A v \in volumes : \E s \in S : s.type \in DOMAIN StorageTypeMapping /\ v = Volume(s)

\* The lists of traits are at numbers, those of a component's containers from 1.
LeafShape(t) == DOMAIN t.storage \in SUBSET Nat /\ Len(t.rbac) \in Nat

Shape(t) ==
  /\ LeafShape(t)
  /\ \A kind \in {"init", "sidecar"} :
       /\ \E n \in Nat : DOMAIN t[kind] = 1 .. n
       /\ \A i \in DOMAIN t[kind] : LeafShape(t[kind][i].traits)

\* A storage result among quiet ones, and ones that add no mounts.
LEMMA AggregateMounts ==
  ASSUME NEW c, NEW traits, DOMAIN traits \in SUBSET Nat,
         NEW results, DOMAIN results \in SUBSET Nat, 1 \in DOMAIN results,
         results[1] = StorageProcessor(c, traits),
         \A i \in DOMAIN results : Numbered(results[i]),
         \A i \in DOMAIN results \ {1} : DOMAIN results[i].mounts = {}
  PROVE  LET a == aggregateTraitResults(results)
         IN  MountsHave(a.mounts, ToSet(traits), a.volumes)
<1> DEFINE a == aggregateTraitResults(results)
<1> SUFFICES ASSUME NEW m \in a.mounts
             PROVE  \E s \in ToSet(traits) :
                      m = Mount(s) /\ (s.type # "host_mounted"
                                       => \E v \in a.volumes : v.name = m.volume)
  BY DEF MountsHave
<1>1. PICK i \in DOMAIN results : \E k \in DOMAIN results[i].mounts : m \in results[i].mounts[k]
  BY AggregateFrom
<1>2. i = 1
  BY <1>1
<1>3. PICK k \in DOMAIN results[1].mounts : m \in results[1].mounts[k]
  BY <1>1, <1>2
<1>4. /\ k \in DOMAIN traits /\ m = Mount(traits[k])
      /\ traits[k].type # "host_mounted"
         => k \in DOMAIN results[1].volumes /\ Volume(traits[k]) \in results[1].volumes[k]
  BY <1>3, StorageResult
<1>5. ASSUME traits[k].type # "host_mounted"
      PROVE  \E v \in a.volumes : v.name = m.volume
  <2>1. \E u \in a.volumes : u.name = Volume(traits[k]).name
    BY <1>4, <1>5, VolumeKept
  <2> QED
    BY <1>4, <2>1 DEF Mount, Volume
<1> QED
  BY <1>4, <1>5 DEF ToSet

\* The results of leaf traits and more: the storage's, five quiet ones, the others.
LeafAnd(results, c, t, more) ==
  /\ DOMAIN results = 1 .. (6 + Len(more))
  /\ results[1] = StorageProcessor(c, t.storage)
  /\ \A i \in 2 .. 6 : Quiet(results[i])
  /\ \A i \in 1 .. 6 : results[i] = LeafResults(c, t)[i]
  /\ \A i \in 1 .. Len(more) : results[6 + i] = more[i]

\* The results of a container's leaf traits come before those that are added.
LEMMA LeafList ==
  ASSUME NEW c, NEW t, LeafShape(t), NEW more, more \in Seq(ToSet(more))
  PROVE  LeafAnd(LeafResults(c, t) \o more, c, t, more)
<1> DEFINE leaf == LeafResults(c, t)
           U == ToSet(more)
           V == {leaf[i] : i \in 1 .. 6} \cup U
<1>1. Quiet(EnvFromProcessor(t.env_from)) /\ Quiet(EnvsProcessor(t.envs))
      /\ Quiet(ResourcesProcessor(t.resources)) /\ Quiet(ProbeProcessor(t.probes))
      /\ Quiet(RBACProcessor(c, t.rbac))
  BY PlainResults, RBACResult DEF LeafShape
<1>2. \A i \in 2 .. 6 : i = 2 \/ i = 3 \/ i = 4 \/ i = 5 \/ i = 6
  OBVIOUS
<1>3. leaf[1] = StorageProcessor(c, t.storage) /\ \A i \in 2 .. 6 : Quiet(leaf[i])
  BY <1>1, <1>2 DEF LeafResults
<1>4. Len(leaf) = 6 /\ leaf \in Seq({leaf[i] : i \in 1 .. 6})
  <2>1. leaf = [i \in 1 .. 6 |-> leaf[i]]
    BY DEF LeafResults
  <2> HIDE DEF leaf
  <2> QED
    BY <2>1
<1> HIDE DEF leaf, U
<1>5. leaf \in Seq(V) /\ more \in Seq(V)
  <2>1. more \in Seq(U)
    BY DEF U
  <2> QED
    BY <1>4, <2>1
<1> HIDE DEF V
<1>6. /\ DOMAIN (leaf \o more) = 1 .. (6 + Len(more))
      /\ \A i \in 1 .. 6 : (leaf \o more)[i] = leaf[i]
      /\ \A i \in 1 .. Len(more) : (leaf \o more)[6 + i] = more[i]
  <2>1. Len(more) \in Nat
    BY <1>5
  <2>2. /\ leaf \o more \in Seq(V) /\ Len(leaf \o more) = 6 + Len(more)
        /\ \A i \in 1 .. 6 + Len(more) :
             (leaf \o more)[i] = IF i <= 6 THEN leaf[i] ELSE more[i - 6]
    <3>1. /\ leaf \o more \in Seq(V) /\ Len(leaf \o more) = Len(leaf) + Len(more)
          /\ \A i \in 1 .. Len(leaf) + Len(more) :
               (leaf \o more)[i] = IF i <= Len(leaf) THEN leaf[i] ELSE more[i - Len(leaf)]
      BY <1>5, ConcatProperties, Zenon
    <3> QED
      BY <1>4, <3>1
  <2>3. DOMAIN (leaf \o more) = 1 .. (6 + Len(more))
    BY <2>2
  <2>4. \A i \in 1 .. 6 : i \in 1 .. 6 + Len(more) /\ i <= 6
    BY <2>1
  <2>5. \A i \in 1 .. Len(more) :
          6 + i \in 1 .. 6 + Len(more) /\ ~(6 + i <= 6) /\ (6 + i) - 6 = i
    BY <2>1
  <2>6. \A i \in 1 .. Len(more) : (leaf \o more)[6 + i] = more[i]
    <3> SUFFICES ASSUME NEW i \in 1 .. Len(more)
                 PROVE  (leaf \o more)[6 + i] = more[i]
      OBVIOUS
    <3>1. (leaf \o more)[6 + i] = more[(6 + i) - 6]
      BY <2>2, <2>5
    <3> QED
      BY <2>5, <3>1
  <2> QED
    BY <2>2, <2>3, <2>4, <2>6
<1>7. 1 \in 1 .. 6 /\ \A i \in 2 .. 6 : i \in 1 .. 6
  OBVIOUS
<1> QED
  BY <1>3, <1>6, <1>7 DEF leaf, LeafAnd

\* The result of a container's own traits: its volumes are those of its storage,
\* and its mounts have them.
LEMMA NestedResult ==
  ASSUME NEW c, NEW t, LeafShape(t)
  PROVE  LET n == applyNestedTraits(c, t)
         IN  /\ VolumesFrom(n.volumes, ToSet(t.storage))
             /\ \A o \in n.objects : o.kind \in ObjectKinds
             /\ MountsHave(n.mounts, ToSet(t.storage), n.volumes)
<1> DEFINE results == LeafResults(c, t) \o <<IngressProcessor(c, t.ingress)>>
           n == aggregateTraitResults(results)
<1>1. DOMAIN results = 1 .. 7 /\ results[1] = StorageProcessor(c, t.storage)
      /\ \A i \in 2 .. 7 : Quiet(results[i])
  <2> DEFINE more == <<IngressProcessor(c, t.ingress)>>
  <2>1. Len(more) = 1 /\ 1 \in 1 .. Len(more) /\ more \in Seq(ToSet(more))
    BY DEF ToSet
  <2>2. Quiet(more[1])
    BY IngressResult
  <2> HIDE DEF more
  <2>3. LeafAnd(LeafResults(c, t) \o more, c, t, more)
    BY <2>1, LeafList
  <2>4. results = LeafResults(c, t) \o more
    BY DEF more
  <2> HIDE DEF results
  <2>5. \A i \in 2 .. 7 : i \in 2 .. 6 \/ i = 6 + 1
    OBVIOUS
  <2> QED
    <3>0. LeafAnd(results, c, t, more)
      BY <2>3, <2>4
    <3>1. /\ DOMAIN results = 1 .. 7 /\ results[1] = StorageProcessor(c, t.storage)
          /\ \A i \in 2 .. 6 : Quiet(results[i])
      BY <2>1, <3>0 DEF LeafAnd
    <3>2. results[6 + 1] = more[1]
      BY <2>1, <3>0 DEF LeafAnd
    <3> QED
      BY <2>2, <2>5, <3>1, <3>2
<1> HIDE DEF results
<1>2. /\ Numbered(results[1]) /\ VolumesAreOf(results[1], ToSet(t.storage))
      /\ KindsAre(results[1])
  BY <1>1, StorageResult DEF LeafShape
<1>3. \A i \in 2 .. 7 : /\ DOMAIN results[i].volumes = {} /\ DOMAIN results[i].mounts = {}
                        /\ KindsAre(results[i])
  BY <1>1 DEF Quiet
<1>4. \A i \in 1 .. 7 : i = 1 \/ i \in 2 .. 7
  OBVIOUS
<1>5. VolumesFrom(n.volumes, ToSet(t.storage))
  <2> SUFFICES ASSUME NEW v \in n.volumes
               PROVE  \E s \in ToSet(t.storage) :
                        s.type \in DOMAIN StorageTypeMapping /\ v = Volume(s)
    BY DEF VolumesFrom
  <2>1. PICK i \in DOMAIN results : \E k \in DOMAIN results[i].volumes : v \in results[i].volumes[k]
    BY AggregateFrom
  <2>2. i = 1
    BY <1>1, <1>3, <1>4, <2>1
  <2> QED
    BY <1>2, <2>1, <2>2 DEF VolumesAreOf
<1>6. \A o \in n.objects : o.kind \in ObjectKinds
  <2> SUFFICES ASSUME NEW o \in n.objects
               PROVE  o.kind \in ObjectKinds
    OBVIOUS
  <2>1. PICK i \in DOMAIN results : \E k \in DOMAIN results[i].objects : o \in results[i].objects[k]
    BY AggregateFrom
  <2>2. KindsAre(results[i])
    BY <1>1, <1>2, <1>3, <1>4
  <2> QED
    BY <2>1, <2>2 DEF KindsAre
<1>7. MountsHave(n.mounts, ToSet(t.storage), n.volumes)
  <2>1. \A i \in DOMAIN results : Numbered(results[i])
    BY <1>1, <1>2, <1>3, <1>4 DEF Numbered
  <2>2. \A i \in DOMAIN results \ {1} : DOMAIN results[i].mounts = {}
    BY <1>1, <1>3, <1>4
  <2>3. DOMAIN results \in SUBSET Nat /\ 1 \in DOMAIN results
    BY <1>1
  <2> QED
    BY <1>1, <2>1, <2>2, <2>3, AggregateMounts DEF LeafShape
<1> QED
  BY <1>5, <1>6, <1>7 DEF applyNestedTraits, results

\* What the processors of containers add: the volumes and the objects of their
\* traits, and containers whose mounts have their volumes.
ContainersHave(containers, S, volumes) ==
  \A i \in DOMAIN containers : MountsHave(containers[i].mounts, S, volumes)

ContainersResult(r, S, containers) ==
  /\ Numbered(r) /\ VolumesAreOf(r, S) /\ KindsAre(r) /\ DOMAIN r.mounts = {}
  /\ \A i \in DOMAIN containers :
       i \in DOMAIN r.volumes /\ MountsHave(containers[i].mounts, S, r.volumes[i])

\* f is a function on D.
On(f, D) == DOMAIN f = D /\ f = [i \in D |-> f[i]]

InnerStorage(cs) == UNION {ToSet(x.traits.storage) : x \in ToSet(cs)}

\* The processors of init containers and of sidecars add their containers.
LEMMA OuterResult ==
  ASSUME NEW c, NEW cs, DOMAIN cs \in SUBSET Nat,
         \A i \in DOMAIN cs : LeafShape(cs[i].traits)
  PROVE  /\ ContainersResult(InitProcessor(c, cs), InnerStorage(cs), InitProcessor(c, cs).inits)
         /\ ContainersResult(SidecarProcessor(c, cs), InnerStorage(cs),
                             SidecarProcessor(c, cs).containers)
         /\ On(InitProcessor(c, cs).inits, DOMAIN cs)
         /\ On(SidecarProcessor(c, cs).containers, DOMAIN cs)
<1> DEFINE nested == [i \in DOMAIN cs |-> applyNestedTraits(c, cs[i].traits)]
           S == InnerStorage(cs)
<1>1. \A i \in DOMAIN cs :
        /\ VolumesFrom(nested[i].volumes, ToSet(cs[i].traits.storage))
        /\ \A o \in nested[i].objects : o.kind \in ObjectKinds
        /\ MountsHave(nested[i].mounts, ToSet(cs[i].traits.storage), nested[i].volumes)
  BY NestedResult
<1>2. \A i \in DOMAIN cs : ToSet(cs[i].traits.storage) \in SUBSET S
  BY DEF InnerStorage, ToSet
<1> HIDE DEF S
<1>3. DOMAIN <<>> = {}
  OBVIOUS
<1>4. ASSUME NEW r, NEW containers,
             r.volumes = [i \in DOMAIN cs |-> nested[i].volumes],
             r.objects = [i \in DOMAIN cs |-> nested[i].objects],
             r.mounts = <<>>, DOMAIN containers = DOMAIN cs,
             \A i \in DOMAIN cs : containers[i].mounts = nested[i].mounts
      PROVE  ContainersResult(r, S, containers)
  <2> HIDE DEF nested
  <2>1. Numbered(r) /\ DOMAIN r.mounts = {}
    BY <1>3, <1>4 DEF Numbered
  <2>2. VolumesAreOf(r, S)
    BY <1>1, <1>2, <1>4 DEF VolumesAreOf, VolumesFrom
  <2>3. KindsAre(r)
    BY <1>1, <1>4 DEF KindsAre
  <2>4. \A i \in DOMAIN containers :
          i \in DOMAIN r.volumes /\ MountsHave(containers[i].mounts, S, r.volumes[i])
    BY <1>1, <1>2, <1>4 DEF MountsHave
  <2> QED
    BY <2>1, <2>2, <2>3, <2>4 DEF ContainersResult
<1>5. /\ ContainersResult(InitProcessor(c, cs), S, InitProcessor(c, cs).inits)
      /\ On(InitProcessor(c, cs).inits, DOMAIN cs)
  <2> DEFINE r == InitProcessor(c, cs)
  <2>1. r = InitContainers(c, cs, nested)
    BY DEF InitProcessor, Map
  <2> HIDE DEF r, nested
  <2>2. /\ r.volumes = [i \in DOMAIN cs |-> nested[i].volumes]
        /\ r.objects = [i \in DOMAIN cs |-> nested[i].objects]
        /\ r.mounts = <<>>
        /\ r.inits = [i \in DOMAIN cs |->
                        Container(ContainerName(c, cs, "init", i), nested[i], {})]
    BY <2>1 DEF InitContainers, Outer, NoResult
  <2>3. DOMAIN r.inits = DOMAIN cs /\ \A i \in DOMAIN cs : r.inits[i].mounts = nested[i].mounts
    BY <2>2 DEF Container
  <2>4. On(r.inits, DOMAIN cs)
    BY <2>2 DEF On
  <2> QED
    BY <1>4, <2>2, <2>3, <2>4 DEF r
<1>6. /\ ContainersResult(SidecarProcessor(c, cs), S, SidecarProcessor(c, cs).containers)
      /\ On(SidecarProcessor(c, cs).containers, DOMAIN cs)
  <2> DEFINE r == SidecarProcessor(c, cs)
  <2>1. r = SidecarContainers(c, cs, nested)
    BY DEF SidecarProcessor, Map
  <2> HIDE DEF r, nested
  <2>2. /\ r.volumes = [i \in DOMAIN cs |-> nested[i].volumes]
        /\ r.objects = [i \in DOMAIN cs |-> nested[i].objects]
        /\ r.mounts = <<>>
        /\ r.containers = [i \in DOMAIN cs |->
             Container(ContainerName(c, cs, "sidecar", i), nested[i], nested[i].probes)]
    BY <2>1 DEF SidecarContainers, Outer, NoResult
  <2>3. /\ DOMAIN r.containers = DOMAIN cs
        /\ \A i \in DOMAIN cs : r.containers[i].mounts = nested[i].mounts
    BY <2>2 DEF Container
  <2>4. On(r.containers, DOMAIN cs)
    BY <2>2 DEF On
  <2> QED
    BY <1>4, <2>2, <2>3, <2>4 DEF r
<1> QED
  BY <1>5, <1>6 DEF S

\* The storage traits of a component and of its containers.
AllStorage(t) == ToSet(t.storage) \cup (InnerStorage(t.init) \cup InnerStorage(t.sidecar))

\* The volumes of a component are those of its storage traits and its containers';
\* no mount, of the main container, an init container or a sidecar, is without its
\* volume, unless of a host path; the objects are not workloads or Services.
ResultHas(r, S) ==
  /\ VolumesFrom(r.volumes, S)
  /\ \A o \in r.objects : o.kind \in ObjectKinds
  /\ MountsHave(r.mounts, S, r.volumes)
  /\ ContainersHave(r.inits, S, r.volumes)
  /\ ContainersHave(r.containers, S, r.volumes)

\* So are the volumes applyTraitsRecursive makes, and the mounts.
LEMMA RecursiveResult ==
  ASSUME NEW c, NEW t, Shape(t)
  PROVE  LET r == applyTraitsRecursive(c, t)
         IN  /\ ResultHas(r, AllStorage(t))
             /\ On(r.inits, DOMAIN t.init)
             /\ On(r.containers, DOMAIN t.sidecar)
<1> DEFINE inits == InitProcessor(c, t.init)
           sidecars == SidecarProcessor(c, t.sidecar)
           more == <<inits, sidecars, IngressProcessor(c, t.ingress)>>
           results == LeafResults(c, t) \o more
           a == aggregateTraitResults(results)
           r == applyTraitsRecursive(c, t)
           S == AllStorage(t)
<1>1. /\ r.volumes = a.volumes /\ r.mounts = a.mounts /\ r.objects = a.objects
      /\ r.inits = inits.inits /\ r.containers = sidecars.containers
  BY DEF applyTraitsRecursive, aggregateTraitResults
<1>2. /\ ContainersResult(inits, InnerStorage(t.init), inits.inits)
      /\ ContainersResult(sidecars, InnerStorage(t.sidecar), sidecars.containers)
      /\ On(inits.inits, DOMAIN t.init) /\ On(sidecars.containers, DOMAIN t.sidecar)
  <2>1. \A kind \in {"init", "sidecar"} :
          /\ DOMAIN t[kind] \in SUBSET Nat
          /\ \A i \in DOMAIN t[kind] : LeafShape(t[kind][i].traits)
    BY DEF Shape
  <2> QED
    BY <2>1, OuterResult
<1>3. Quiet(IngressProcessor(c, t.ingress))
  BY IngressResult
<1> HIDE DEF inits, sidecars, r
<1>4. /\ DOMAIN results = 1 .. 9 /\ results[1] = StorageProcessor(c, t.storage)
      /\ \A i \in 2 .. 6 : Quiet(results[i])
      /\ results[7] = inits /\ results[8] = sidecars /\ Quiet(results[9])
  <2>1. /\ Len(more) = 3 /\ more \in Seq(ToSet(more))
        /\ more[1] = inits /\ more[2] = sidecars /\ Quiet(more[3])
    BY <1>3 DEF ToSet
  <2> HIDE DEF more
  <2>2. LeafAnd(LeafResults(c, t) \o more, c, t, more)
    BY <2>1, LeafList DEF Shape
  <2> HIDE DEF results
  <2>3. LeafAnd(results, c, t, more)
    BY <2>2 DEF results
  <2>4. 1 \in 1 .. Len(more) /\ 2 \in 1 .. Len(more) /\ 3 \in 1 .. Len(more)
    BY <2>1
  <2>5. results[6 + 1] = more[1] /\ results[6 + 2] = more[2] /\ results[6 + 3] = more[3]
    BY <2>3, <2>4 DEF LeafAnd
  <2> QED
    BY <2>1, <2>3, <2>5 DEF LeafAnd
<1> HIDE DEF results
<1>5. /\ ToSet(t.storage) \in SUBSET S /\ InnerStorage(t.init) \in SUBSET S
      /\ InnerStorage(t.sidecar) \in SUBSET S
  BY DEF AllStorage
<1> HIDE DEF S
<1>6. \A i \in 1 .. 9 : i = 1 \/ i \in 2 .. 6 \/ i = 7 \/ i = 8 \/ i = 9
  OBVIOUS
<1>7. \A i \in DOMAIN results : /\ Numbered(results[i]) /\ VolumesAreOf(results[i], S)
                                /\ KindsAre(results[i])
  <2>1. Numbered(results[1]) /\ VolumesAreOf(results[1], S) /\ KindsAre(results[1])
    <3>1. /\ Numbered(results[1]) /\ VolumesAreOf(results[1], ToSet(t.storage))
          /\ KindsAre(results[1])
      BY <1>4, StorageResult DEF Shape, LeafShape
    <3> QED
      BY <1>5, <3>1 DEF VolumesAreOf
  <2>2. \A i \in 1 .. 9 : Quiet(results[i])
          => Numbered(results[i]) /\ VolumesAreOf(results[i], S) /\ KindsAre(results[i])
    BY DEF Quiet, Numbered, VolumesAreOf
  <2>3. Numbered(results[7]) /\ VolumesAreOf(results[7], S) /\ KindsAre(results[7])
    BY <1>2, <1>4, <1>5 DEF ContainersResult, VolumesAreOf
  <2>4. Numbered(results[8]) /\ VolumesAreOf(results[8], S) /\ KindsAre(results[8])
    BY <1>2, <1>4, <1>5 DEF ContainersResult, VolumesAreOf
  <2> QED
    BY <1>4, <1>6, <2>1, <2>2, <2>3, <2>4
<1> HIDE DEF a
<1>8. VolumesFrom(a.volumes, S)
  <2> SUFFICES ASSUME NEW v \in a.volumes
               PROVE  \E s \in S : s.type \in DOMAIN StorageTypeMapping /\ v = Volume(s)
    BY DEF VolumesFrom
  <2>1. PICK i \in DOMAIN results : \E k \in DOMAIN results[i].volumes : v \in results[i].volumes[k]
    BY AggregateFrom DEF a
  <2> QED
    BY <1>7, <2>1 DEF VolumesAreOf
<1>9. \A o \in a.objects : o.kind \in ObjectKinds
  <2> SUFFICES ASSUME NEW o \in a.objects
               PROVE  o.kind \in ObjectKinds
    OBVIOUS
  <2>1. PICK i \in DOMAIN results : \E k \in DOMAIN results[i].objects : o \in results[i].objects[k]
    BY AggregateFrom DEF a
  <2> QED
    BY <1>7, <2>1 DEF KindsAre
<1>10. MountsHave(a.mounts, S, a.volumes)
  <2>1. \A i \in DOMAIN results \ {1} : DOMAIN results[i].mounts = {}
    BY <1>2, <1>4, <1>6 DEF ContainersResult, Quiet
  <2>2. DOMAIN results \in SUBSET Nat /\ 1 \in DOMAIN results
    BY <1>4
  <2>3. MountsHave(a.mounts, ToSet(t.storage), a.volumes)
    BY <1>4, <1>7, <2>1, <2>2, AggregateMounts DEF Shape, LeafShape, a
  <2> QED
    BY <1>5, <2>3 DEF MountsHave
<1>11. ASSUME NEW i \in {7, 8}, NEW n \in DOMAIN results[i].volumes, NEW T \in SUBSET S,
              NEW ms, MountsHave(ms, T, results[i].volumes[n])
       PROVE  MountsHave(ms, S, a.volumes)
  <2>1. i \in DOMAIN results /\ DOMAIN results \in SUBSET Nat
    BY <1>4
  <2>2. \A v \in results[i].volumes[n] : \E u \in a.volumes : u.name = v.name
    BY <1>7, <2>1, VolumeKept DEF a
  <2> QED
    BY <1>11, <2>2 DEF MountsHave
<1>12. ContainersHave(inits.inits, S, a.volumes)
  <2> SUFFICES ASSUME NEW n \in DOMAIN inits.inits
               PROVE  MountsHave(inits.inits[n].mounts, S, a.volumes)
    BY DEF ContainersHave
  <2>1. n \in DOMAIN results[7].volumes
        /\ MountsHave(inits.inits[n].mounts, InnerStorage(t.init), results[7].volumes[n])
    BY <1>2, <1>4 DEF ContainersResult
  <2> QED
    BY <1>5, <1>11, <2>1
<1>13. ContainersHave(sidecars.containers, S, a.volumes)
  <2> SUFFICES ASSUME NEW n \in DOMAIN sidecars.containers
               PROVE  MountsHave(sidecars.containers[n].mounts, S, a.volumes)
    BY DEF ContainersHave
  <2>1. n \in DOMAIN results[8].volumes
        /\ MountsHave(sidecars.containers[n].mounts, InnerStorage(t.sidecar), results[8].volumes[n])
    BY <1>2, <1>4 DEF ContainersResult
  <2> QED
    BY <1>5, <1>11, <2>1
<1>14. ResultHas(r, S)
  BY <1>1, <1>8, <1>9, <1>10, <1>12, <1>13 DEF ResultHas
<1> QED
  BY <1>1, <1>2, <1>14 DEF r, S

-----------------------------------------------------------------------------
(***************************************************************************)
(* The clones of a template.                                               *)
(***************************************************************************)
\* Traits with the types of the API have a shape.
LEMMA TraitsShape ==
  ASSUME NEW t, IsTraits(t)
  PROVE  Shape(t)
<1>1. ASSUME NEW u, IsLeafTraits(u)
      PROVE  LeafShape(u)
  <2>1. \E U : u.storage \in Seq(U)
    BY <1>1 DEF IsLeafTraits
  <2>2. \E U : u.rbac \in Seq(U)
    BY <1>1 DEF IsLeafTraits
  <2>3. DOMAIN u.storage \in SUBSET Nat
    BY <2>1
  <2>4. Len(u.rbac) \in Nat
    BY <2>2
  <2> QED
    BY <2>3, <2>4 DEF LeafShape
<1>2. ASSUME NEW kind \in {"init", "sidecar"}
      PROVE  /\ \E n \in Nat : DOMAIN t[kind] = 1 .. n
             /\ \A i \in DOMAIN t[kind] : LeafShape(t[kind][i].traits)
  <2>1. /\ t[kind] \in Seq(ToSet(t[kind]))
        /\ \A x \in ToSet(t[kind]) : IsLeafTraits(x.traits)
    BY DEF IsTraits
  <2>2. \A i \in DOMAIN t[kind] : t[kind][i] \in ToSet(t[kind])
    BY DEF ToSet
  <2>3. \E n \in Nat : DOMAIN t[kind] = 1 .. n
    BY <2>1
  <2> QED
    BY <1>1, <2>1, <2>2, <2>3
<1> QED
  BY <1>1, <1>2 DEF Shape, IsTraits

\* Names are rewritten in place: each list keeps its length, and each reference is
\* rewritten by itself.
LEMMA RewrittenLeaf ==
  ASSUME NEW t, IsLeafTraits(t), NEW m
  PROVE  LET u == rewriteLeafTraits(t, m)
         IN  /\ LeafShape(u) /\ DOMAIN u = DOMAIN t
             /\ u.init = t.init /\ u.sidecar = t.sidecar
             /\ DOMAIN u.storage = DOMAIN t.storage
             /\ \A i \in DOMAIN t.storage : t.storage[i].sourceName # <<>>
                  => u.storage[i].sourceName = rewriteNameCandidate(t.storage[i].sourceName, m)
             /\ DOMAIN u.env_from = DOMAIN t.env_from
             /\ \A i \in DOMAIN t.env_from :
                  u.env_from[i].sourceName = rewriteNameCandidate(t.env_from[i].sourceName, m)
             /\ DOMAIN u.envs = DOMAIN t.envs
             /\ \A i \in DOMAIN t.envs : u.envs[i].ref = rewriteNameCandidate(t.envs[i].ref, m)
<1> DEFINE u == rewriteLeafTraits(t, m)
<1>1. DOMAIN t = {"storage", "env_from", "envs", "resources", "probes", "rbac", "init",
                  "sidecar", "ingress", "share"}
  BY DEF IsLeafTraits, NoTraits
<1>2. /\ DOMAIN u = DOMAIN t /\ u.init = t.init /\ u.sidecar = t.sidecar
      /\ u.storage = [i \in DOMAIN t.storage |->
           [t.storage[i] EXCEPT
             !.name = rewriteStorageName(t.storage[i], m),
             !.claimName = IF @ = <<>> THEN @ ELSE rewriteNameCandidate(@, m),
             !.sourceName = IF @ = <<>> THEN @ ELSE rewriteNameCandidate(@, m)]]
      /\ u.rbac = [i \in DOMAIN t.rbac |-> [t.rbac[i] EXCEPT !.namespace = m.namespace]]
      /\ u.env_from = [i \in DOMAIN t.env_from |->
           [t.env_from[i] EXCEPT !.sourceName = rewriteNameCandidate(@, m)]]
      /\ u.envs = [i \in DOMAIN t.envs |->
           [t.envs[i] EXCEPT !.ref = rewriteNameCandidate(@, m)]]
  BY <1>1 DEF rewriteLeafTraits, Map
<1> HIDE DEF u
<1>3. /\ \A i \in DOMAIN t.storage : DOMAIN t.storage[i] =
           {"name", "type", "mountPath", "tmpCreate", "size", "claimName", "sourceName"}
      /\ \A i \in DOMAIN t.env_from : DOMAIN t.env_from[i] = {"type", "sourceName"}
      /\ \A i \in DOMAIN t.envs : DOMAIN t.envs[i] = {"name", "from", "ref"}
      /\ \E n \in Nat : DOMAIN t.storage = 1 .. n
      /\ \E n \in Nat : DOMAIN t.rbac = 1 .. n
  <2> DEFINE Storage == [name : Name, type : STRING, mountPath : Name, tmpCreate : BOOLEAN,
                         size : STRING, claimName : Name, sourceName : Name]
             EnvFrom == [type : STRING, sourceName : Name]
             Env == [name : Name, from : SUBSET STRING, ref : Name]
             Policy == [rules : Seq(Nat), serviceAccount : Name, clusterScope : BOOLEAN,
                        namespace : STRING, roleName : Name, bindingName : Name]
  <2>1. /\ \A x \in Storage : DOMAIN x = {"name", "type", "mountPath", "tmpCreate", "size",
                                          "claimName", "sourceName"}
        /\ \A x \in EnvFrom : DOMAIN x = {"type", "sourceName"}
        /\ \A x \in Env : DOMAIN x = {"name", "from", "ref"}
    OBVIOUS
  <2>2. /\ t.storage \in Seq(Storage) /\ t.env_from \in Seq(EnvFrom)
        /\ t.envs \in Seq(Env) /\ t.rbac \in Seq(Policy)
    BY DEF IsLeafTraits
  <2> HIDE DEF Storage, EnvFrom, Env, Policy
  <2> QED
    BY <2>1, <2>2
<1>4. LeafShape(u)
  <2>0. DOMAIN u.storage = DOMAIN t.storage /\ DOMAIN u.rbac = DOMAIN t.rbac
    BY <1>2
  <2>1. DOMAIN u.storage \in SUBSET Nat
    BY <1>3, <2>0
  <2>2. PICK n \in Nat : DOMAIN u.rbac = 1 .. n
    BY <1>3, <2>0
  <2>3. u.rbac \in Seq({u.rbac[i] : i \in 1 .. n})
    <3>1. u.rbac = [i \in 1 .. n |-> u.rbac[i]]
      BY <1>2, <2>2
    <3> QED
      BY <3>1
  <2>4. Len(u.rbac) \in Nat
    BY <2>3
  <2> QED
    BY <2>1, <2>4 DEF LeafShape
<1>5. \A i \in DOMAIN t.storage : t.storage[i].sourceName # <<>>
        => u.storage[i].sourceName = rewriteNameCandidate(t.storage[i].sourceName, m)
  <2> SUFFICES ASSUME NEW i \in DOMAIN t.storage, t.storage[i].sourceName # <<>>
               PROVE  u.storage[i].sourceName
                        = rewriteNameCandidate(t.storage[i].sourceName, m)
    OBVIOUS
  <2> DEFINE s == t.storage[i]
  <2>1. u.storage[i] = [s EXCEPT
             !.name = rewriteStorageName(s, m),
             !.claimName = IF @ = <<>> THEN @ ELSE rewriteNameCandidate(@, m),
             !.sourceName = IF @ = <<>> THEN @ ELSE rewriteNameCandidate(@, m)]
    BY <1>2
  <2>2. "sourceName" \in DOMAIN s
    BY <1>3
  <2> QED
    BY <2>1, <2>2
<1>6. \A i \in DOMAIN t.env_from :
        u.env_from[i].sourceName = rewriteNameCandidate(t.env_from[i].sourceName, m)
  <2>1. \A i \in DOMAIN t.env_from :
          u.env_from[i] = [t.env_from[i] EXCEPT !.sourceName = rewriteNameCandidate(@, m)]
    BY <1>2
  <2>2. \A i \in DOMAIN t.env_from : "sourceName" \in DOMAIN t.env_from[i]
    BY <1>3
  <2> QED
    BY <2>1, <2>2
<1>7. \A i \in DOMAIN t.envs : u.envs[i].ref = rewriteNameCandidate(t.envs[i].ref, m)
  <2>1. \A i \in DOMAIN t.envs :
          u.envs[i] = [t.envs[i] EXCEPT !.ref = rewriteNameCandidate(@, m)]
    BY <1>2
  <2>2. \A i \in DOMAIN t.envs : "ref" \in DOMAIN t.envs[i]
    BY <1>3
  <2> QED
    BY <2>1, <2>2
<1> QED
  BY <1>2, <1>4, <1>5, <1>6, <1>7 DEF u

\* Each reference in u is that in t, rewritten.
Rewrites(t, u, m) ==
  \A f \in {"storage", "env_from", "envs"} : \A i \in DOMAIN Refs(t)[f] :
    Refs(t)[f][i] # <<>> => Refs(u)[f][i] = rewriteNameCandidate(Refs(t)[f][i], m)

\* What rewriteLeafTraits does to references.
LEMMA RewrittenRefs ==
  ASSUME NEW t, IsLeafTraits(t), NEW m, NEW u,
         u.storage = rewriteLeafTraits(t, m).storage,
         u.env_from = rewriteLeafTraits(t, m).env_from,
         u.envs = rewriteLeafTraits(t, m).envs
  PROVE  Rewrites(t, u, m)
<1>1. /\ DOMAIN u.storage = DOMAIN t.storage /\ DOMAIN u.env_from = DOMAIN t.env_from
      /\ DOMAIN u.envs = DOMAIN t.envs
      /\ \A i \in DOMAIN t.storage : t.storage[i].sourceName # <<>>
           => u.storage[i].sourceName = rewriteNameCandidate(t.storage[i].sourceName, m)
      /\ \A i \in DOMAIN t.env_from :
           u.env_from[i].sourceName = rewriteNameCandidate(t.env_from[i].sourceName, m)
      /\ \A i \in DOMAIN t.envs : u.envs[i].ref = rewriteNameCandidate(t.envs[i].ref, m)
  BY RewrittenLeaf
<1>2. ASSUME NEW v
      PROVE  /\ DOMAIN Refs(v)["storage"] = DOMAIN v.storage
             /\ \A i \in DOMAIN v.storage : Refs(v)["storage"][i] = v.storage[i].sourceName
             /\ DOMAIN Refs(v)["env_from"] = DOMAIN v.env_from
             /\ \A i \in DOMAIN v.env_from : Refs(v)["env_from"][i] = v.env_from[i].sourceName
             /\ DOMAIN Refs(v)["envs"] = DOMAIN v.envs
             /\ \A i \in DOMAIN v.envs : Refs(v)["envs"][i] = v.envs[i].ref
  BY DEF Refs, Map
<1>3. ASSUME NEW i \in DOMAIN Refs(t)["storage"], Refs(t)["storage"][i] # <<>>
      PROVE  Refs(u)["storage"][i] = rewriteNameCandidate(Refs(t)["storage"][i], m)
  <2>1. i \in DOMAIN t.storage /\ i \in DOMAIN u.storage
    <3>1. DOMAIN Refs(t)["storage"] = DOMAIN t.storage
      BY <1>2
    <3> QED
      BY <1>1, <3>1
  <2>2. /\ Refs(t)["storage"][i] = t.storage[i].sourceName
        /\ Refs(u)["storage"][i] = u.storage[i].sourceName
    BY <1>2, <2>1
  <2> QED
    BY <1>1, <1>3, <2>1, <2>2
<1>4. ASSUME NEW i \in DOMAIN Refs(t)["env_from"]
      PROVE  Refs(u)["env_from"][i] = rewriteNameCandidate(Refs(t)["env_from"][i], m)
  <2>1. i \in DOMAIN t.env_from /\ i \in DOMAIN u.env_from
    <3>1. DOMAIN Refs(t)["env_from"] = DOMAIN t.env_from
      BY <1>2
    <3> QED
      BY <1>1, <3>1
  <2>2. /\ Refs(t)["env_from"][i] = t.env_from[i].sourceName
        /\ Refs(u)["env_from"][i] = u.env_from[i].sourceName
    BY <1>2, <2>1
  <2> QED
    BY <1>1, <2>1, <2>2
<1>5. ASSUME NEW i \in DOMAIN Refs(t)["envs"]
      PROVE  Refs(u)["envs"][i] = rewriteNameCandidate(Refs(t)["envs"][i], m)
  <2>1. i \in DOMAIN t.envs /\ i \in DOMAIN u.envs
    <3>1. DOMAIN Refs(t)["envs"] = DOMAIN t.envs
      BY <1>2
    <3> QED
      BY <1>1, <3>1
  <2>2. Refs(t)["envs"][i] = t.envs[i].ref /\ Refs(u)["envs"][i] = u.envs[i].ref
    BY <1>2, <2>1
  <2> QED
    BY <1>1, <2>1, <2>2
<1> QED
  BY <1>3, <1>4, <1>5 DEF Rewrites

\* The references of a component's containers are rewritten like its own, and the
\* traits keep their shape.
LEMMA RewrittenTraits ==
  ASSUME NEW t, IsTraits(t), NEW m
  PROVE  LET u == rewriteTraitsForTemplate(t, m)
         IN  /\ Shape(u) /\ Rewrites(t, u, m)
             /\ \A kind \in {"init", "sidecar"} :
                  /\ DOMAIN u[kind] = DOMAIN t[kind]
                  /\ \A i \in DOMAIN t[kind] :
                       Rewrites(t[kind][i].traits, u[kind][i].traits, m)
<1> DEFINE u == rewriteTraitsForTemplate(t, m)
           v == rewriteLeafTraits(t, m)
           Name2(x, kind, i) ==
             IF x.name \in {<<>>, m.old} THEN m.new \o <<kind, ToString(i)>> ELSE x.name
           Inner(cs, kind) ==
             [i \in DOMAIN cs |-> [cs[i] EXCEPT !.name = Name2(cs[i], kind, i),
                                                !.traits = rewriteLeafTraits(@, m)]]
<1>1. IsLeafTraits(t)
  BY DEF IsTraits
<1>2. /\ LeafShape(v) /\ DOMAIN v = DOMAIN t /\ v.init = t.init /\ v.sidecar = t.sidecar
  BY <1>1, RewrittenLeaf
<1>3. u = [v EXCEPT !.init = Inner(t.init, "init"), !.sidecar = Inner(t.sidecar, "sidecar")]
  BY <1>2 DEF rewriteTraitsForTemplate
<1>4. DOMAIN v = {"storage", "env_from", "envs", "resources", "probes", "rbac", "init",
                  "sidecar", "ingress", "share"}
  BY <1>1, <1>2 DEF IsLeafTraits, NoTraits
<1> HIDE DEF u, v, Inner
<1>5. /\ u.storage = v.storage /\ u.rbac = v.rbac /\ u.env_from = v.env_from
      /\ u.envs = v.envs
      /\ u.init = Inner(t.init, "init") /\ u.sidecar = Inner(t.sidecar, "sidecar")
  BY <1>3, <1>4
<1>6. Rewrites(t, u, m)
  BY <1>1, <1>5, RewrittenRefs DEF v
<1>7. ASSUME NEW kind \in {"init", "sidecar"}
      PROVE  /\ DOMAIN u[kind] = DOMAIN t[kind]
             /\ \A i \in DOMAIN t[kind] :
                  /\ Rewrites(t[kind][i].traits, u[kind][i].traits, m)
                  /\ LeafShape(u[kind][i].traits)
  <2>1. u[kind] = Inner(t[kind], kind)
    BY <1>5
  <2>2. DOMAIN u[kind] = DOMAIN t[kind]
    BY <2>1 DEF Inner
  <2>3. ASSUME NEW i \in DOMAIN t[kind]
        PROVE  /\ Rewrites(t[kind][i].traits, u[kind][i].traits, m)
               /\ LeafShape(u[kind][i].traits)
    <3> DEFINE x == t[kind][i]
               y == u[kind][i]
    <3>1. IsLeafTraits(x.traits) /\ DOMAIN x = {"name", "image", "traits"}
      <4>1. x \in ToSet(t[kind])
        BY DEF ToSet
      <4> QED
        BY <4>1 DEF IsTraits
    <3>2. y = [x EXCEPT !.name = Name2(x, kind, i), !.traits = rewriteLeafTraits(@, m)]
      BY <2>1 DEF Inner
    <3> HIDE DEF x, y, Name2
    <3>3. y.traits = rewriteLeafTraits(x.traits, m)
      BY <3>1, <3>2
    <3>4. Rewrites(x.traits, y.traits, m) /\ LeafShape(y.traits)
      BY <3>1, <3>3, RewrittenRefs, RewrittenLeaf
    <3> QED
      BY <3>4 DEF x, y
  <2> QED
    BY <2>2, <2>3
<1>8. LeafShape(u)
  BY <1>2, <1>5 DEF LeafShape
<1>9. Shape(t)
  BY TraitsShape
<1>10. Shape(u)
  BY <1>7, <1>8, <1>9 DEF Shape
<1> QED
  BY <1>6, <1>7, <1>10 DEF u

\* The references of a component and those of its containers.
AllRewrite(t, u, m) ==
  /\ Rewrites(t, u, m)
  /\ \A kind \in {"init", "sidecar"} :
       /\ DOMAIN u[kind] = DOMAIN t[kind]
       /\ \A i \in DOMAIN t[kind] : Rewrites(t[kind][i].traits, u[kind][i].traits, m)

\* A clone has the name it is given, and the references of its template component,
\* rewritten.
LEMMA ConvertedClone ==
  ASSUME NEW tc, IsComponent(tc), NEW o, NEW m, NEW share
  PROVE  LET u == convertComponentFromTemplate(tc, o, m, share)
         IN  /\ DOMAIN u = DOMAIN tc /\ u.name = m.new
             /\ Shape(u.traits) /\ AllRewrite(tc.traits, u.traits, m)
<1> DEFINE u == convertComponentFromTemplate(tc, o, m, share)
           own == tc.traits
           t == IF share = "none" THEN own ELSE [own EXCEPT !.share = share]
           w == applyPropertyOverrides(tc, o)
<1>1. IsTraits(own)
  BY DEF IsComponent
<1>2. DOMAIN own = {"storage", "env_from", "envs", "resources", "probes", "rbac", "init",
                    "sidecar", "ingress", "share"}
  BY <1>1 DEF IsTraits, IsLeafTraits, NoTraits
<1>3. DOMAIN tc = {"name", "type", "namespace", "traits", "image", "ports", "env", "secret",
                   "template"}
  BY DEF IsComponent
<1>4. DOMAIN w = DOMAIN tc
  BY DEF applyPropertyOverrides
<1>5. u = [w EXCEPT !.name = m.new, !.namespace = m.namespace,
                    !.traits = rewriteTraitsForTemplate(t, m)]
  BY DEF convertComponentFromTemplate
<1> HIDE DEF w, u
<1>6. DOMAIN u = DOMAIN tc /\ u.name = m.new /\ u.traits = rewriteTraitsForTemplate(t, m)
  BY <1>3, <1>4, <1>5
<1> HIDE DEF own
<1>7. /\ DOMAIN t = DOMAIN own /\ t.storage = own.storage /\ t.env_from = own.env_from
      /\ t.envs = own.envs /\ t.resources = own.resources /\ t.probes = own.probes
      /\ t.rbac = own.rbac /\ t.ingress = own.ingress
      /\ t["init"] = own["init"] /\ t["sidecar"] = own["sidecar"]
  BY <1>2
<1> HIDE DEF t
<1>8. IsTraits(t)
  <2>1. IsLeafTraits(t)
    BY <1>1, <1>7 DEF IsTraits, IsLeafTraits
  <2> QED
    BY <1>1, <1>7, <2>1 DEF IsTraits
<1>9. Refs(t) = Refs(own)
  BY <1>7 DEF Refs
<1>10. Shape(u.traits) /\ AllRewrite(t, u.traits, m)
  BY <1>6, <1>8, RewrittenTraits DEF AllRewrite
<1>11. AllRewrite(own, u.traits, m)
  <2>1. Rewrites(own, u.traits, m)
    <3>1. Rewrites(t, u.traits, m)
      BY <1>10 DEF AllRewrite
    <3> QED
      BY <1>9, <3>1 DEF Rewrites
  <2> QED
    BY <1>7, <1>10, <2>1 DEF AllRewrite
<1> QED
  BY <1>6, <1>10, <1>11 DEF u, own

\* m takes the name of each template component to that of its clone.
TakesToClones(m, tcs, clones) ==
  \A k \in DOMAIN tcs :
    tcs[k].name \in DOMAIN m.names /\ m.names[tcs[k].name] = clones[k].name

\* The clones are at the positions of the template components, and in each the
\* references are rewritten by the names of all clones.
ClonesOf(cs, tcs) ==
  /\ DOMAIN cs = DOMAIN tcs
  /\ \A i \in DOMAIN tcs :
       /\ "traits" \in DOMAIN cs[i] /\ "name" \in DOMAIN cs[i]
       /\ Shape(cs[i].traits)
       /\ \E m : /\ AllRewrite(tcs[i].traits, cs[i].traits, m)
                 /\ Unambiguous(tcs) => TakesToClones(m, tcs, cs)

\* Such are those cloneComponentsFromTemplate makes.
LEMMA CloneOf ==
  ASSUME NEW app, NEW namespace, NEW id, NEW overrides,
         cloneComponentsFromTemplate(app, namespace, id, overrides).ok
  PROVE  ClonesOf(cloneComponentsFromTemplate(app, namespace, id, overrides).components,
                  Template[id].components)
<1> DEFINE clones == cloneComponentsFromTemplate(app, namespace, id, overrides)
           cs == clones.components
           tcs == Template[id].components
           share == ShareOf(overrides)
           shared == share # "none"
           base == IF shared THEN <<>> ELSE Or(app, Template[id].name)
           picks == Picks(overrides, tcs)
           OverrideName(i) ==
             IF picks[i] <= 0 \/ overrides[picks[i]].traits.share # "none" THEN <<>>
             ELSE overrides[picks[i]].name
           Target(i) ==
             IF shared THEN tcs[i].name
             ELSE Or(OverrideName(i), base \o lastSegment(tcs[i].name))
           LastOf(name) == CHOOSE i \in DOMAIN tcs :
                             /\ name \in Aliases(tcs[i])
                             /\ \A k \in i + 1 .. Len(tcs) : name \notin Aliases(tcs[k])
           nameMap ==
             [name \in UNION {Aliases(tcs[i]) : i \in DOMAIN tcs} |-> Target(LastOf(name))]
           M(i) == [old |-> tcs[i].name, new |-> Target(i), base |-> base,
                    namespace |-> namespace, names |-> nameMap]
           O(i) == IF picks[i] = 0 THEN NoOverride ELSE overrides[picks[i]]
           Clone(i) == convertComponentFromTemplate(tcs[i], O(i), M(i), share)
<1>1. id \in DOMAIN Template /\ cs = [i \in DOMAIN tcs |-> Clone(i)]
  BY DEF cloneComponentsFromTemplate
<1> HIDE DEF clones, share, shared, base, picks, Target, O, LastOf
<1>2. IsComponents(tcs)
  BY <1>1, TemplateAssumption
<1> HIDE DEF tcs
<1>3. \A i \in DOMAIN tcs : IsComponent(tcs[i])
  BY <1>2 DEF IsComponents, ToSet
<1>4. DOMAIN tcs = 1 .. Len(tcs) /\ Len(tcs) \in Nat
  BY <1>2 DEF IsComponents
<1>5. \A i : M(i).new = Target(i) /\ M(i).names = nameMap
  OBVIOUS
<1> HIDE DEF M
<1>6. \A i \in DOMAIN tcs :
        /\ DOMAIN cs[i] = DOMAIN tcs[i] /\ cs[i].name = Target(i) /\ Shape(cs[i].traits)
        /\ AllRewrite(tcs[i].traits, cs[i].traits, M(i))
  <2> SUFFICES ASSUME NEW i \in DOMAIN tcs
               PROVE  /\ DOMAIN cs[i] = DOMAIN tcs[i] /\ cs[i].name = Target(i)
                      /\ Shape(cs[i].traits)
                      /\ AllRewrite(tcs[i].traits, cs[i].traits, M(i))
    OBVIOUS
  <2>1. cs[i] = convertComponentFromTemplate(tcs[i], O(i), M(i), share)
    BY <1>1
  <2>2. IsComponent(tcs[i])
    BY <1>3
  <2> QED
    BY <1>5, <2>1, <2>2, ConvertedClone
<1>7. ASSUME Unambiguous(tcs), NEW k \in DOMAIN tcs
      PROVE  tcs[k].name \in DOMAIN nameMap /\ nameMap[tcs[k].name] = cs[k].name
  <2> DEFINE name == tcs[k].name
  <2>1. name \in Aliases(tcs[k])
    BY DEF Aliases
  <2>2. \A i \in DOMAIN tcs : name \in Aliases(tcs[i]) => i = k
    BY <1>7 DEF Unambiguous
  <2>3. \A i \in k + 1 .. Len(tcs) : i \in DOMAIN tcs /\ i # k
    BY <1>4
  <2> HIDE DEF name
  <2>4. LastOf(name) = k
    BY <2>1, <2>2, <2>3 DEF LastOf
  <2>5. name \in DOMAIN nameMap /\ nameMap[name] = Target(LastOf(name))
    BY <2>1
  <2> QED
    BY <1>6, <2>4, <2>5 DEF name
<1> HIDE DEF nameMap, Clone, cs
<1>8. Unambiguous(tcs) => \A i : TakesToClones(M(i), tcs, cs)
  BY <1>5, <1>7 DEF TakesToClones
<1>9. DOMAIN cs = DOMAIN tcs
  BY <1>1
<1>10. \A i \in DOMAIN tcs : "traits" \in DOMAIN cs[i] /\ "name" \in DOMAIN cs[i]
  BY <1>3, <1>6 DEF IsComponent
<1> QED
  BY <1>6, <1>8, <1>9, <1>10 DEF cs, clones, tcs, ClonesOf

\* The clones of the template the component h of the request names.
ClonesAt(h) ==
  LET id == request.components[h].template.id
  IN  cloneComponentsFromTemplate(request.name, NamespaceOf(request), id,
                                  OverridesOf(request.components, id))

InNamespace(c) == [c EXCEPT !.namespace = NamespaceOf(request)]

\* A row is a plain component of the request, or a clone of a template that one names.
LEMMA RowOrigin ==
  ASSUME BuilderInv, NEW p \in DOMAIN components
  PROVE  \/ /\ p[1] = 0 /\ p[2] \in DOMAIN request.components
            /\ components[p] = InNamespace(request.components[p[2]])
         \/ /\ p[1] # 0 /\ p[1] \in DOMAIN request.components
            /\ ClonesAt(p[1]).ok /\ p[2] \in DOMAIN ClonesAt(p[1]).components
            /\ components[p] = InNamespace(ClonesAt(p[1]).components[p[2]])
<1> DEFINE cs == request.components
           Id(i) == cs[i].template.id
           plain == {i \in DOMAIN cs : Id(i) = ""}
           heads == {h \in DOMAIN cs \ plain : \A k \in 1 .. h - 1 : Id(k) # Id(h)}
           clones == [h \in heads |->
                       cloneComponentsFromTemplate(request.name, NamespaceOf(request), Id(h),
                                                   OverridesOf(cs, Id(h)))]
           At == ({0} \X plain) \cup UNION {{h} \X DOMAIN clones[h].components : h \in heads}
<1>1. components = prepareComponents(NamespaceOf(request), Resolved(request).components)
  <2>1. components # <<>>
    <3>1. DOMAIN <<>> = {}
      OBVIOUS
    <3> QED
      BY <3>1
  <2> QED
    BY <2>1 DEF BuilderInv
<1>2. \A h \in heads : clones[h] = ClonesAt(h)
  BY DEF ClonesAt
<1>3. Resolved(request).components
        = [q \in At |-> IF q[1] = 0 THEN cs[q[2]] ELSE clones[q[1]].components[q[2]]]
  BY DEF Resolved, resolveComponents
<1> HIDE DEF clones
<1>4. cs \in Seq(ToSet(cs))
  BY RequestAssumption DEF BuilderInv, IsComponents
<1>5. heads \in SUBSET DOMAIN cs /\ plain \in SUBSET DOMAIN cs /\ 0 \notin DOMAIN cs
  <2>1. heads \in SUBSET DOMAIN cs /\ plain \in SUBSET DOMAIN cs
    OBVIOUS
  <2> HIDE DEF cs
  <2>2. 0 \notin DOMAIN cs
    BY <1>4
  <2> QED
    BY <2>1, <2>2
<1> HIDE DEF cs, plain, heads
<1>6. /\ \/ p \in {0} \X plain
         \/ p[1] \in heads /\ p[2] \in DOMAIN ClonesAt(p[1]).components
      /\ components[p] = InNamespace(IF p[1] = 0 THEN cs[p[2]]
                                     ELSE clones[p[1]].components[p[2]])
  <2>1. DOMAIN components = At
    BY <1>1, <1>3 DEF prepareComponents, Map
  <2>2. components[p] = InNamespace(Resolved(request).components[p])
    BY <1>1, <1>3, <2>1 DEF prepareComponents, Map, InNamespace
  <2>3. \/ p \in {0} \X plain
        \/ p[1] \in heads /\ p[2] \in DOMAIN clones[p[1]].components
    BY <2>1
  <2> QED
    BY <1>2, <1>3, <2>1, <2>2, <2>3
<1>7. CASE p \in {0} \X plain
  BY <1>5, <1>6, <1>7 DEF cs
<1>8. CASE p[1] \in heads /\ p[2] \in DOMAIN ClonesAt(p[1]).components
  <2>1. ClonesAt(p[1]).ok
    <3>1. DOMAIN <<>> = {}
      OBVIOUS
    <3>2. ~ClonesAt(p[1]).ok => ClonesAt(p[1]).components = <<>>
      BY DEF ClonesAt, cloneComponentsFromTemplate
    <3> QED
      BY <1>8, <3>1, <3>2
  <2> QED
    BY <1>2, <1>5, <1>6, <1>8, <2>1 DEF cs
<1> QED
  BY <1>6, <1>7, <1>8

\* The traits of every row have a shape.
LEMMA RowShape ==
  ASSUME BuilderInv, NEW p \in DOMAIN components
  PROVE  Shape(components[p].traits)
<1>1. CASE p[1] = 0 /\ p[2] \in DOMAIN request.components
           /\ components[p] = InNamespace(request.components[p[2]])
  <2>1. IsComponent(request.components[p[2]])
    BY <1>1, RequestAssumption DEF BuilderInv, IsComponents, ToSet
  <2>2. components[p].traits = request.components[p[2]].traits
    BY <1>1, <2>1 DEF InNamespace, IsComponent
  <2> QED
    BY <2>1, <2>2, TraitsShape DEF IsComponent
<1>2. CASE /\ ClonesAt(p[1]).ok /\ p[2] \in DOMAIN ClonesAt(p[1]).components
           /\ components[p] = InNamespace(ClonesAt(p[1]).components[p[2]])
  <2> DEFINE u == ClonesAt(p[1]).components[p[2]]
  <2>1. Shape(u.traits) /\ "traits" \in DOMAIN u
    BY <1>2, CloneOf DEF ClonesAt, ClonesOf
  <2> HIDE DEF u
  <2>2. components[p].traits = u.traits
    BY <1>2, <2>1 DEF InNamespace, u
  <2> QED
    BY <2>1, <2>2
<1> QED
  BY <1>1, <1>2, RowOrigin

\* Where old stands for another clone, the rewritten reference names that clone.
LEMMA RewritesFollow ==
  ASSUME NEW t, NEW u, NEW m, Rewrites(t, u, m), NEW old, old # <<>>, NEW new,
         old \in DOMAIN m.names, m.names[old] = new
  PROVE  Follows(t, u, old, new)
<1>1. rewriteNameCandidate(old, m) = new
  BY DEF rewriteNameCandidate
<1> QED
  BY <1>1 DEF Follows, Rewrites

\* The references of the clones follow from how they are made.
LEMMA RefsFollow == BuilderInv => RefsFollowClones
<1> SUFFICES ASSUME BuilderInv, NEW p \in DOMAIN components, NEW q \in DOMAIN components,
                    p[1] # 0, q[1] = p[1],
                    NEW tcs, tcs = Template[request.components[p[1]].template.id].components,
                    Unambiguous(tcs)
             PROVE  LET t == tcs[p[2]].traits
                        u == components[p].traits
                        old == tcs[q[2]].name
                        new == components[q].name
                    IN  /\ Follows(t, u, old, new)
                        /\ \A kind \in {"init", "sidecar"} : \A i \in DOMAIN t[kind] :
                             Follows(t[kind][i].traits, u[kind][i].traits, old, new)
  BY DEF RefsFollowClones
<1> DEFINE cs == ClonesAt(p[1]).components
           t == tcs[p[2]].traits
           old == tcs[q[2]].name
<1>1. /\ ClonesAt(p[1]).ok /\ p[2] \in DOMAIN cs /\ q[2] \in DOMAIN cs
      /\ components[p] = InNamespace(cs[p[2]]) /\ components[q] = InNamespace(cs[q[2]])
  BY RowOrigin
<1>2. /\ DOMAIN cs = DOMAIN tcs
      /\ \A i \in DOMAIN tcs :
           /\ "traits" \in DOMAIN cs[i] /\ "name" \in DOMAIN cs[i]
           /\ \E m : AllRewrite(tcs[i].traits, cs[i].traits, m) /\ TakesToClones(m, tcs, cs)
  <2>1. ClonesOf(cs, tcs)
    BY <1>1, CloneOf DEF ClonesAt
  <2> QED
    BY <2>1 DEF ClonesOf
<1> HIDE DEF cs
<1>3. components[p].traits = cs[p[2]].traits /\ components[q].name = cs[q[2]].name
  BY <1>1, <1>2 DEF InNamespace
<1>4. PICK m : AllRewrite(t, cs[p[2]].traits, m) /\ TakesToClones(m, tcs, cs)
  BY <1>1, <1>2
<1>5. old # <<>> /\ old \in DOMAIN m.names /\ m.names[old] = components[q].name
  <2>1. q[2] \in DOMAIN tcs
    BY <1>1, <1>2
  <2>2. old # <<>>
    BY <2>1 DEF Unambiguous
  <2>3. old \in DOMAIN m.names /\ m.names[old] = cs[q[2]].name
    BY <1>4, <2>1 DEF TakesToClones
  <2> QED
    BY <1>3, <2>2, <2>3
<1> HIDE DEF t, old
<1>6. Follows(t, components[p].traits, old, components[q].name)
  BY <1>3, <1>4, <1>5, RewritesFollow DEF AllRewrite
<1>7. ASSUME NEW kind \in {"init", "sidecar"}, NEW i \in DOMAIN t[kind]
      PROVE  Follows(t[kind][i].traits, components[p].traits[kind][i].traits, old,
                     components[q].name)
  <2>1. Rewrites(t[kind][i].traits, components[p].traits[kind][i].traits, m)
    BY <1>3, <1>4 DEF AllRewrite
  <2> QED
    BY <1>5, <2>1, RewritesFollow
<1> QED
  BY <1>6, <1>7 DEF t, old

\* In a clone every reference to a component of the template is one to that component's
\* clone, for every template whose component names are unambiguous, whatever the
\* overrides: resolveComponents has all names before it rewrites any.
THEOREM RefsFollowClonesAlways == Spec => []RefsFollowClones
BY BuilderCorrect, RefsFollow, PTL

-----------------------------------------------------------------------------
(***************************************************************************)
(* The pod of a workload.                                                  *)
(***************************************************************************)
\* What applyTraitResultToWorkload makes of a result: all mounts of all containers are
\* of storage traits and have had a volume, and only volumes whose claim has a
\* template are left out.
PodHas(pod, r, S) ==
  /\ pod.volumes = {v \in r.volumes : ~(v.source = "pvc" /\ v.ref \in pod.templates)}
  /\ \A x \in ToSet(pod.containers) \cup ToSet(pod.inits) : MountsHave(x.mounts, S, r.volumes)

\* That is so for every result that has volumes for its mounts.
LEMMA PodOfResult ==
  ASSUME NEW r, NEW S, ResultHas(r, S),
         NEW n \in Nat, On(r.containers, 1 .. n), NEW k \in Nat, On(r.inits, 1 .. k),
         NEW main, main.mounts = {}, NEW kind, NEW name
  PROVE  LET w == [kind |-> kind, containers |-> <<main>>, inits |-> <<>>,
                   volumes |-> {}, templates |-> {}, sa |-> <<>>, name |-> name]
             pod == applyTraitResultToWorkload(r, w)
         IN  PodHas(pod, r, S) /\ pod.kind = kind
<1> DEFINE w == [kind |-> kind, containers |-> <<main>>, inits |-> <<>>,
                 volumes |-> {}, templates |-> {}, sa |-> <<>>, name |-> name]
           pod == applyTraitResultToWorkload(r, w)
           own == w.containers \o r.containers
           all == own \o r.inits
           V == {main} \cup {r.containers[i] : i \in 1 .. n} \cup {r.inits[i] : i \in 1 .. k}
           at == CHOOSE i \in DOMAIN all :
                   /\ all[i].name = w.containers[1].name
                   /\ \A j \in i + 1 .. Len(all) : all[j].name # w.containers[1].name
           new == [name |-> w.containers[1].name, mounts |-> all[at].mounts \cup r.mounts,
                   env |-> all[at].env \cup r.env, probes |-> all[at].probes \cup r.probes]
           full == [all EXCEPT ![at] = new]
           templates == IF w.kind = "statefulset"
                        THEN {o.name : o \in {x \in r.objects : x.template}} ELSE {}
<1>1. /\ pod.containers = [i \in DOMAIN own |-> full[i]]
      /\ pod.inits = [i \in DOMAIN r.inits |-> full[Len(own) + i]]
      /\ pod.volumes = {v \in r.volumes : ~(v.source = "pvc" /\ v.ref \in templates)}
      /\ pod.templates = templates /\ pod.kind = kind
  <2>1. w.kind = kind
    OBVIOUS
  <2>2. DOMAIN w = {"kind", "containers", "inits", "volumes", "templates", "sa", "name"}
    OBVIOUS
  <2> HIDE DEF w
  <2>3. pod = [w EXCEPT
        !.containers = [i \in DOMAIN own |-> full[i]],
        !.inits = [i \in DOMAIN r.inits |-> full[Len(own) + i]],
        !.volumes = {v \in r.volumes : ~(v.source = "pvc" /\ v.ref \in templates)},
        !.templates = templates,
        !.sa = r.sa]
    BY DEF applyTraitResultToWorkload
  <2> HIDE DEF pod, own, full, templates
  <2> QED
    BY <2>1, <2>2, <2>3
<1>2. /\ <<main>> \in Seq(V) /\ r.containers \in Seq(V) /\ r.inits \in Seq(V)
      /\ Len(r.containers) = n /\ Len(r.inits) = k
  BY DEF On
<1>3. \A x \in V : x = main \/ MountsHave(x.mounts, S, r.volumes)
  BY DEF ResultHas, ContainersHave, On
<1>4. \A x \in V : MountsHave(x.mounts, S, r.volumes)
  <2>1. MountsHave({}, S, r.volumes)
    BY DEF MountsHave
  <2> QED
    BY <1>3, <2>1
<1> HIDE DEF pod, w, V, templates
<1>5. own \in Seq(V)
  <2>1. w.containers = <<main>>
    BY DEF w
  <2>2. w.containers \in Seq(V) /\ r.containers \in Seq(V)
    BY <1>2, <2>1
  <2> QED
    BY <2>2
<1> HIDE DEF own
<1>6. /\ all \in Seq(V) /\ Len(all) = Len(own) + Len(r.inits)
  <2>1. r.inits \in Seq(V)
    BY <1>2
  <2> QED
    BY <1>5, <2>1
<1> HIDE DEF all, at
<1>7. \A i \in DOMAIN all : all[i] \in V
  BY <1>6
<1>8. ASSUME NEW i \in DOMAIN all
      PROVE  MountsHave(full[i].mounts, S, r.volumes)
  <2>1. CASE i = at
    <3>1. full[i] = new
      BY <1>8, <2>1
    <3>2. MountsHave(all[i].mounts, S, r.volumes) /\ MountsHave(r.mounts, S, r.volumes)
      BY <1>4, <1>7, <1>8 DEF ResultHas
    <3> QED
      BY <2>1, <3>1, <3>2 DEF MountsHave
  <2>2. CASE i # at
    <3> HIDE DEF new
    <3>1. full[i] = all[i]
      BY <1>8, <2>2
    <3> QED
      BY <1>4, <1>7, <1>8, <3>1
  <2> QED
    BY <2>1, <2>2
<1> HIDE DEF full
<1>9. /\ \A i \in DOMAIN own : i \in DOMAIN all
      /\ \A i \in DOMAIN r.inits : Len(own) + i \in DOMAIN all
  BY <1>2, <1>5, <1>6 DEF On
<1>10. ASSUME NEW x \in ToSet(pod.containers) \cup ToSet(pod.inits)
       PROVE  \E i \in DOMAIN all : x = full[i]
  <2>1. CASE x \in ToSet(pod.containers)
    BY <1>1, <1>9, <2>1 DEF ToSet
  <2>2. CASE x \in ToSet(pod.inits)
    BY <1>1, <1>9, <2>2 DEF ToSet
  <2> QED
    BY <1>10, <2>1, <2>2
<1>11. \A x \in ToSet(pod.containers) \cup ToSet(pod.inits) : MountsHave(x.mounts, S, r.volumes)
  BY <1>8, <1>10
<1>12. PodHas(pod, r, S)
  BY <1>1, <1>11 DEF PodHas
<1> QED
  BY <1>1, <1>12 DEF pod, w

\* The workload of a component has its pod from the component's traits, and no object
\* of the traits is a workload or a Service.
LEMMA GeneratedPod ==
  ASSUME NEW c, Shape(c.traits), NEW kind, NEW name
  PROVE  LET g == Generated(c, kind, name)
             r == applyTraitsRecursive(c, c.traits)
         IN  /\ g.ok = r.ok /\ g.service.kind = kind
             /\ \A o \in g.objects : o.kind \in ObjectKinds
             /\ PodHas(g.service, r, AllStorage(c.traits))
<1> DEFINE r == applyTraitsRecursive(c, c.traits)
           g == Generated(c, kind, name)
           main == [name |-> ToLower(c.name), mounts |-> {}, env |-> {}, probes |-> {}]
           w == [kind |-> kind, containers |-> <<main>>, inits |-> <<>>,
                 volumes |-> {}, templates |-> {}, sa |-> <<>>, name |-> name]
           S == AllStorage(c.traits)
<1>1. /\ ResultHas(r, S) /\ On(r.inits, DOMAIN c.traits.init)
      /\ On(r.containers, DOMAIN c.traits.sidecar)
  BY RecursiveResult
<1>2. g = [ok |-> r.ok, service |-> applyTraitResultToWorkload(r, w),
           objects |-> AdditionalObjects(r)]
  BY DEF Generated, ApplyTraits, WithTraits
<1>3. main.mounts = {}
  OBVIOUS
<1> HIDE DEF r, g, S, main
<1>4. PICK n \in Nat : DOMAIN c.traits.sidecar = 1 .. n
  BY DEF Shape
<1>5. PICK k \in Nat : DOMAIN c.traits.init = 1 .. k
  BY DEF Shape
<1>6. On(r.containers, 1 .. n) /\ On(r.inits, 1 .. k)
  BY <1>1, <1>4, <1>5
<1>7. PodHas(applyTraitResultToWorkload(r, w), r, S)
      /\ applyTraitResultToWorkload(r, w).kind = kind
  BY <1>1, <1>3, <1>6, PodOfResult
<1> HIDE DEF w
<1>8. g.ok = r.ok /\ g.service = applyTraitResultToWorkload(r, w) /\ g.objects = AdditionalObjects(r)
  BY <1>2
<1>9. \A o \in g.objects : o.kind \in ObjectKinds
  BY <1>1, <1>8 DEF ResultHas, AdditionalObjects
<1> QED
  BY <1>7, <1>8, <1>9 DEF g, r, S

\* What is known of a job of the component c.
JobIs(j, c) ==
  /\ j.component = c.name
  /\ j.kind \in Workload
     => j.priority = Normal
        /\ PodHas(j.pod, applyTraitsRecursive(c, c.traits), AllStorage(c.traits))
  /\ j.kind \notin Workload \cup {"service"} => j.priority \in {MaxHigh, High}

\* Workloads and Services are jobs of normal priority, all others are higher.
LEMMA JobOfComponent ==
  ASSUME NEW c, Shape(c.traits), NEW j \in buildJobsForComponent(c)
  PROVE  JobIs(j, c)
<1>1. CASE j \in ServiceJobs(c)
  <2>1. j.kind = "service" /\ j.component = c.name
    BY <1>1 DEF ServiceJobs, NewJobTask
  <2> QED
    BY <2>1 DEF JobIs, Workload
<1>2. CASE j \in {NewJobTask(c, MaxHigh, "configmap", c.namespace, c.name, NoPod),
                  NewJobTask(c, MaxHigh, "secret", c.namespace, c.name, NoPod)}
  <2>1. j.kind \in {"configmap", "secret"} /\ j.component = c.name /\ j.priority = MaxHigh
    BY <1>2 DEF NewJobTask
  <2> QED
    BY <2>1 DEF JobIs, Workload
<1>3. CASE j \in queueServiceJobs(c, GenerateWorkload(c))
  <2> DEFINE g == GenerateWorkload(c)
             r == applyTraitsRecursive(c, c.traits)
             S == AllStorage(c.traits)
  <2>1. /\ g.service.kind \in Workload /\ PodHas(g.service, r, S)
        /\ \A o \in g.objects : o.kind \in ObjectKinds
    BY GeneratedPod DEF GenerateWorkload, GenerateWebService, GenerateStoreService, Workload
  <2> HIDE DEF g, r, S
  <2>2. \/ j = NewJobTask(c, Normal, g.service.kind, c.namespace, g.service.name, g.service)
        \/ j \in CreateObjectJobsFromResult(c, g.objects)
    BY <1>3 DEF queueServiceJobs, g
  <2>3. CASE j = NewJobTask(c, Normal, g.service.kind, c.namespace, g.service.name, g.service)
    <3>1. j.kind \in Workload /\ j.component = c.name /\ j.priority = Normal /\ j.pod = g.service
      BY <2>1, <2>3 DEF NewJobTask
    <3> QED
      BY <2>1, <3>1 DEF JobIs, r, S
  <2>4. CASE j \in CreateObjectJobsFromResult(c, g.objects)
    <3>1. j.component = c.name /\ j.priority = High /\ j.kind \in ObjectKinds
      BY <2>1, <2>4 DEF CreateObjectJobsFromResult, NewJobTask
    <3> QED
      BY <3>1 DEF JobIs, Workload, ObjectKinds
  <2> QED
    BY <2>2, <2>3, <2>4
<1> QED
  BY <1>1, <1>2, <1>3 DEF buildJobsForComponent

\* A job is one of the row that its component's name stands for.
LEMMA JobIsOfRow ==
  ASSUME BuilderInv, NEW e \in DOMAIN executions, NEW j \in executions[e]
  PROVE  LET c == components[RowOf(j.component)]
         IN  JobIs(j, c) /\ ResultHas(applyTraitsRecursive(c, c.traits), AllStorage(c.traits))
<1>1. PICK p \in DOMAIN components :
        j \in buildJobsForComponent(components[p]) /\ p = RowOf(components[p].name)
  BY JobOfRow
<1>2. JobIs(j, components[p])
  BY <1>1, RowShape, JobOfComponent
<1>3. j.component = components[p].name
  BY <1>2 DEF JobIs
<1>4. ResultHas(applyTraitsRecursive(components[p], components[p].traits),
                AllStorage(components[p].traits))
  BY RowShape, RecursiveResult
<1> QED
  BY <1>1, <1>2, <1>3, <1>4

\* What a pod refers to is never a workload or a Service.
LEMMA UsedKinds ==
  ASSUME NEW pod, NEW r, NEW S, PodHas(pod, r, S), ResultHas(r, S),
         NEW kind, NEW name, <<kind, name>> \in Uses(pod)
  PROVE  kind \notin Workload \cup {"service"}
<1>1. CASE <<kind, name>> \in {<<v.source, v.ref>> : v \in pod.volumes}
  <2>1. PICK v \in pod.volumes : kind = v.source
    BY <1>1
  <2>2. v \in r.volumes
    BY <2>1 DEF PodHas
  <2>3. PICK s \in S : s.type \in DOMAIN StorageTypeMapping /\ v = Volume(s)
    BY <2>2 DEF ResultHas, VolumesFrom
  <2>4. v.source = StorageTypeMapping[s.type]
    BY <2>3 DEF Volume
  <2>5. StorageTypeMapping[s.type] \in {"pvc", "emptyDir", "hostPath", "configmap", "secret"}
    BY <2>3 DEF StorageTypeMapping
  <2> QED
    BY <2>1, <2>4, <2>5 DEF Workload
<1>2. CASE kind \in {"configmap", "secret", "serviceaccount"}
  BY <1>2 DEF Workload
<1>3. \/ <<kind, name>> \in {<<v.source, v.ref>> : v \in pod.volumes}
      \/ kind \in {"configmap", "secret", "serviceaccount"}
  BY DEF Uses
<1> QED
  BY <1>1, <1>2, <1>3

\* The order of the batches follows from the kinds of the jobs.
LEMMA DependenciesOrder == BuilderInv => DependenciesFirst
<1> SUFFICES ASSUME BuilderInv, NEW e \in DOMAIN executions,
                    NEW w \in executions[e], NEW j \in executions[e],
                    w.kind \in Workload, <<j.kind, j.name>> \in Uses(w.pod)
             PROVE  j.priority < w.priority
  BY DEF DependenciesFirst
<1> DEFINE c == components[RowOf(w.component)]
           d == components[RowOf(j.component)]
<1>1. JobIs(w, c) /\ ResultHas(applyTraitsRecursive(c, c.traits), AllStorage(c.traits))
  BY JobIsOfRow
<1>2. JobIs(j, d)
  BY JobIsOfRow
<1> HIDE DEF c, d
<1>3. w.priority = Normal
      /\ PodHas(w.pod, applyTraitsRecursive(c, c.traits), AllStorage(c.traits))
  BY <1>1 DEF JobIs
<1>4. j.kind \notin Workload \cup {"service"}
  BY <1>1, <1>3, UsedKinds
<1>5. j.priority \in {MaxHigh, High}
  BY <1>2, <1>4 DEF JobIs
<1> QED
  BY <1>3, <1>5 DEF MaxHigh, High, Normal

\* In every execution GenerateJobTasks makes, what a pod refers to (claims, service
\* account, ConfigMaps and Secrets of its own component or of another) is in an earlier
\* batch than the pod, whatever the traits, the templates and the steps.
THEOREM DependenciesFirstAlways == Spec => []DependenciesFirst
BY BuilderCorrect, DependenciesOrder, PTL

\* A mount whose volume gave way to a claim template has the template.
LEMMA MountsHold == BuilderInv => MountsResolve
<1> SUFFICES ASSUME BuilderInv, NEW w \in Jobs, w.kind \in Workload,
                    NEW t, t = components[RowOf(w.component)].traits,
                    \A s \in ToSet(t.storage) \cup UNION {ToSet(x.traits.storage) :
                               x \in ToSet(t.init) \cup ToSet(t.sidecar)} :
                      /\ s.type # "host_mounted"
                      /\ ~s.tmpCreate => VolumeRef(s) \notin w.pod.templates,
                    NEW x \in ToSet(w.pod.containers) \cup ToSet(w.pod.inits),
                    NEW mt \in x.mounts
             PROVE  mt.volume \in {v.name : v \in w.pod.volumes} \cup w.pod.templates
  BY DEF MountsResolve
<1> DEFINE c == components[RowOf(w.component)]
           r == applyTraitsRecursive(c, c.traits)
           S == AllStorage(t)
<1>1. PICK e \in DOMAIN executions : w \in executions[e]
  BY DEF Jobs
<1>2. PodHas(w.pod, r, S) /\ ResultHas(r, S)
  BY <1>1, JobIsOfRow DEF JobIs
<1>3. \A s \in S : s.type # "host_mounted" /\ (~s.tmpCreate => VolumeRef(s) \notin w.pod.templates)
  BY DEF AllStorage, InnerStorage
<1> HIDE DEF c, r, S
<1>4. PICK s \in S : mt = Mount(s)
                     /\ (s.type # "host_mounted" => \E v \in r.volumes : v.name = mt.volume)
  BY <1>2 DEF PodHas, MountsHave
<1>5. PICK v \in r.volumes : v.name = mt.volume
  BY <1>3, <1>4
<1>6. CASE v \in w.pod.volumes
  BY <1>5, <1>6
<1>7. CASE v \notin w.pod.volumes
  <2>1. v.source = "pvc" /\ v.ref \in w.pod.templates
    BY <1>2, <1>7 DEF PodHas
  <2>2. PICK z \in S : z.type \in DOMAIN StorageTypeMapping /\ v = Volume(z)
    BY <1>2 DEF ResultHas, VolumesFrom
  <2>3. v.name = VolumeName(z) /\ v.ref = VolumeRef(z) /\ StorageTypeMapping[z.type] = "pvc"
    BY <2>1, <2>2 DEF Volume
  <2>4. z.type = "persistent"
    BY <2>2, <2>3 DEF StorageTypeMapping
  <2>5. z.tmpCreate
    BY <1>3, <2>1, <2>3
  <2>6. VolumeRef(z) = VolumeName(z)
    BY <2>4, <2>5 DEF VolumeRef, VolumeName
  <2> QED
    BY <1>5, <2>1, <2>3, <2>6
<1> QED
  BY <1>6, <1>7

\* In every pod GenerateJobTasks makes, each mount has its volume or its claim template,
\* under the conditions of MountsResolve: whatever the trait processors drop as a
\* duplicate, a volume of the name is kept.
THEOREM MountsResolveAlways == Spec => []MountsResolve
BY BuilderCorrect, MountsHold, PTL

-----------------------------------------------------------------------------
(***************************************************************************)
(* Validation and processing.                                              *)
(***************************************************************************)
\* What validateLeafTraits takes, and is not known to disagree, every processor takes.
LEMMA LeafTaken ==
  ASSUME NEW c, NEW t, validateLeafTraits(t), ~LeafDisagree(t)
  PROVE  /\ StorageProcessor(c, t.storage).ok /\ EnvFromProcessor(t.env_from).ok
         /\ EnvsProcessor(t.envs).ok /\ ResourcesProcessor(t.resources).ok
         /\ ProbeProcessor(t.probes).ok /\ RBACProcessor(c, t.rbac).ok
         /\ IngressProcessor(c, t.ingress).ok
<1>1. StorageProcessor(c, t.storage).ok
  <2>1. \A x \in ToSet(t.storage) :
          x.type \in DOMAIN StorageTypeMapping /\ x.name # <<>> /\ ParseQuantity(x.size)
    BY DEF validateLeafTraits, validateStorageTrait, LeafDisagree, StorageTypeMapping
  <2>2. \A i \in DOMAIN t.storage : t.storage[i] \in ToSet(t.storage)
    BY DEF ToSet
  <2> QED
    BY <2>1, <2>2 DEF StorageProcessor, NoResult
<1>2. EnvFromProcessor(t.env_from).ok
  <2>1. \A e \in ToSet(t.env_from) : e.sourceName # <<>> /\ e.type \in {"config", "secret"}
    BY DEF validateLeafTraits, validateEnvFromTrait, LeafDisagree
  <2> QED
    BY <2>1 DEF EnvFromProcessor, NoResult
<1>3. EnvsProcessor(t.envs).ok
  <2>1. \A e \in ToSet(t.envs) : Cardinality(e.from) = 1
    BY DEF validateLeafTraits, validateEnvsTrait
  <2>2. \A e \in ToSet(t.envs) : e.from # {}
    BY <2>1, FS_EmptySet
  <2> QED
    BY <2>2 DEF EnvsProcessor, NoResult
<1>4. ResourcesProcessor(t.resources).ok
  <2>1. \A r \in ToSet(t.resources) :
          ParseQuantity(r.cpu) /\ ParseQuantity(r.memory) /\ ParseQuantity(r.gpu)
    BY DEF LeafDisagree
  <2> QED
    BY <2>1 DEF ResourcesProcessor, NoResult
<1>5. ProbeProcessor(t.probes).ok
  <2>1. \A p \in ToSet(t.probes) :
          Cardinality(p.handlers) = 1 /\ p.type \in {"liveness", "readiness", "startup"}
    BY DEF validateLeafTraits, validateProbeTrait, LeafDisagree
  <2>2. \A i, k \in DOMAIN t.probes : t.probes[i].type = t.probes[k].type => i = k
    BY DEF LeafDisagree, Distinct
  <2> QED
    BY <2>1, <2>2 DEF ProbeProcessor, NoResult, Distinct
<1>6. RBACProcessor(c, t.rbac).ok
  <2>1. \A r \in ToSet(t.rbac) : \A n \in ToSet(r.rules) : n > 0
    BY DEF validateLeafTraits, validateRBACTrait
  <2> QED
    BY <2>1 DEF RBACProcessor, NoResult
<1>7. IngressProcessor(c, t.ingress).ok
  <2>1. \A g \in ToSet(t.ingress) : g.routes # <<>>
    BY DEF validateLeafTraits, validateIngressTrait
  <2> QED
    BY <2>1 DEF IngressProcessor, NoResult
<1> QED
  BY <1>1, <1>2, <1>3, <1>4, <1>5, <1>6, <1>7

\* The six results of leaf traits that are taken are ok.
LEMMA LeafListTaken ==
  ASSUME NEW c, NEW t, validateLeafTraits(t), ~LeafDisagree(t), NEW i \in 1 .. 6
  PROVE  LeafResults(c, t)[i].ok
<1>1. i = 1 \/ i = 2 \/ i = 3 \/ i = 4 \/ i = 5 \/ i = 6
  OBVIOUS
<1> QED
  BY <1>1, LeafTaken DEF LeafResults

\* The traits of a container that are taken make an ok result.
LEMMA NestedTaken ==
  ASSUME NEW c, NEW t, LeafShape(t), validateLeafTraits(t), ~LeafDisagree(t)
  PROVE  applyNestedTraits(c, t).ok
<1> DEFINE more == <<IngressProcessor(c, t.ingress)>>
           results == LeafResults(c, t) \o more
<1>1. Len(more) = 1 /\ more \in Seq(ToSet(more)) /\ more[1].ok
  BY LeafTaken DEF ToSet
<1> HIDE DEF more
<1>2. LeafAnd(results, c, t, more)
  BY <1>1, LeafList
<1> HIDE DEF results
<1>3. /\ DOMAIN results = 1 .. 7 /\ results[6 + 1] = more[1]
      /\ \A i \in 1 .. 6 : results[i] = LeafResults(c, t)[i]
  <2>1. 1 \in 1 .. Len(more)
    BY <1>1
  <2> QED
    BY <1>1, <1>2, <2>1 DEF LeafAnd
<1>4. \A i \in 1 .. 7 : i \in 1 .. 6 \/ i = 6 + 1
  OBVIOUS
<1>5. \A i \in DOMAIN results : results[i].ok
  BY <1>1, <1>3, <1>4, LeafListTaken
<1>6. aggregateTraitResults(results).ok
  BY <1>5 DEF aggregateTraitResults
<1> QED
  BY <1>6 DEF applyNestedTraits, results, more

\* Traits that validateTraits takes, and that are not known to disagree, can be
\* processed.
LEMMA TraitsTaken ==
  ASSUME NEW c, NEW t, Shape(t), validateTraits(t), ~Disagree(t)
  PROVE  applyTraitsRecursive(c, t).ok
<1> DEFINE inits == InitProcessor(c, t.init)
           sidecars == SidecarProcessor(c, t.sidecar)
           more == <<inits, sidecars, IngressProcessor(c, t.ingress)>>
           results == LeafResults(c, t) \o more
<1>1. LeafShape(t) /\ validateLeafTraits(t) /\ ~LeafDisagree(t)
  BY DEF Shape, validateTraits, Disagree
<1>2. ASSUME NEW kind \in {"init", "sidecar"}, NEW i \in DOMAIN t[kind]
      PROVE  /\ t[kind][i].image /\ applyNestedTraits(c, t[kind][i].traits).ok
             /\ t[kind][i].traits.sidecar = <<>>
  <2>1. t[kind][i] \in ToSet(t.init) \cup ToSet(t.sidecar)
    BY DEF ToSet
  <2>2. /\ validateContainerTrait(t[kind][i]) /\ ~LeafDisagree(t[kind][i].traits)
        /\ LeafShape(t[kind][i].traits)
    BY <2>1 DEF validateTraits, Disagree, Shape
  <2> QED
    BY <2>2, NestedTaken DEF validateContainerTrait
<1>3. inits.ok
  <2> DEFINE cs == t.init
             nested == [i \in DOMAIN cs |-> applyNestedTraits(c, cs[i].traits)]
  <2>1. inits = InitContainers(c, cs, nested)
    BY DEF InitProcessor, Map
  <2>2. \A i \in DOMAIN cs : cs[i].image /\ nested[i].ok
    BY <1>2
  <2> HIDE DEF inits, cs, nested
  <2>3. Outer(cs, nested).ok
    BY <2>2 DEF Outer, NoResult
  <2>4. "ok" \in DOMAIN Outer(cs, nested)
    BY DEF Outer, NoResult
  <2> QED
    BY <2>1, <2>3, <2>4 DEF InitContainers
<1>4. sidecars.ok
  <2> DEFINE cs == t.sidecar
             nested == [i \in DOMAIN cs |-> applyNestedTraits(c, cs[i].traits)]
  <2>1. sidecars = SidecarContainers(c, cs, nested)
    BY DEF SidecarProcessor, Map
  <2>2. \A i \in DOMAIN cs : cs[i].image /\ nested[i].ok /\ cs[i].traits.sidecar = <<>>
    BY <1>2
  <2> HIDE DEF sidecars, cs, nested
  <2>3. \A x \in ToSet(cs) : x.traits.sidecar = <<>>
    BY <2>2 DEF ToSet
  <2>4. Outer(cs, nested).ok
    BY <2>2 DEF Outer, NoResult
  <2>5. "ok" \in DOMAIN Outer(cs, nested)
    BY DEF Outer, NoResult
  <2> QED
    BY <2>1, <2>3, <2>4, <2>5 DEF SidecarContainers
<1> HIDE DEF inits, sidecars
<1>5. /\ Len(more) = 3 /\ more \in Seq(ToSet(more))
      /\ more[1].ok /\ more[2].ok /\ more[3].ok
  BY <1>1, <1>3, <1>4, LeafTaken DEF ToSet
<1> HIDE DEF more
<1>6. LeafAnd(results, c, t, more)
  BY <1>1, <1>5, LeafList
<1> HIDE DEF results
<1>7. /\ DOMAIN results = 1 .. 9
      /\ results[6 + 1] = more[1] /\ results[6 + 2] = more[2] /\ results[6 + 3] = more[3]
      /\ \A i \in 1 .. 6 : results[i] = LeafResults(c, t)[i]
  <2>1. 1 \in 1 .. Len(more) /\ 2 \in 1 .. Len(more) /\ 3 \in 1 .. Len(more)
    BY <1>5
  <2> QED
    BY <1>5, <1>6, <2>1 DEF LeafAnd
<1>8. \A i \in 1 .. 9 : i \in 1 .. 6 \/ i = 6 + 1 \/ i = 6 + 2 \/ i = 6 + 3
  OBVIOUS
<1>9. \A i \in DOMAIN results : results[i].ok
  BY <1>1, <1>5, <1>7, <1>8, LeafListTaken
<1>10. aggregateTraitResults(results).ok
  BY <1>9 DEF aggregateTraitResults
<1>11. applyTraitsRecursive(c, t)
         = [aggregateTraitResults(results) EXCEPT !.inits = inits.inits,
                                                  !.containers = sidecars.containers]
  BY DEF applyTraitsRecursive, results, more, inits, sidecars
<1>12. applyTraitsRecursive(c, t).ok = aggregateTraitResults(results).ok
  BY <1>11 DEF aggregateTraitResults
<1> QED
  BY <1>10, <1>12

\* CreateApplications accepts plain components that TryApplication finds valid.
LEMMA ValidAccepted ==
  ASSUME BuilderInv, Valid(request),
         \A c \in ToSet(request.components) : c.template = NoTemplate
  PROVE  Accepted(Resolved(request))
<1> DEFINE cs == request.components
           Id(i) == cs[i].template.id
           plain == {i \in DOMAIN cs : Id(i) = ""}
           heads == {h \in DOMAIN cs \ plain : \A k \in 1 .. h - 1 : Id(k) # Id(h)}
           clones == [h \in heads |->
                       cloneComponentsFromTemplate(request.name, NamespaceOf(request), Id(h),
                                                   OverridesOf(cs, Id(h)))]
           At == ({0} \X plain) \cup UNION {{h} \X DOMAIN clones[h].components : h \in heads}
           rows == Resolved(request).components
<1>1. \A i \in DOMAIN cs : cs[i] \in ToSet(cs)
  BY DEF ToSet
<1>2. plain = DOMAIN cs /\ heads = {}
  <2>1. \A i \in DOMAIN cs : Id(i) = ""
    <3>1. NoTemplate.id = ""
      BY DEF NoTemplate
    <3> QED
      BY <1>1, <3>1
  <2> HIDE DEF cs, Id
  <2>2. plain = DOMAIN cs
    BY <2>1
  <2>3. heads \in SUBSET (DOMAIN cs \ plain)
    OBVIOUS
  <2> HIDE DEF heads, plain
  <2> QED
    BY <2>2, <2>3
<1>3. /\ Resolved(request).ok = (\A h \in heads : clones[h].ok)
      /\ rows = [q \in At |-> IF q[1] = 0 THEN cs[q[2]] ELSE clones[q[1]].components[q[2]]]
  BY DEF Resolved, resolveComponents
<1> HIDE DEF clones, plain, heads, rows
<1>4. Resolved(request).ok
  BY <1>2, <1>3
<1>5. At = {0} \X DOMAIN cs
  BY <1>2
<1>6. \A q \in DOMAIN rows : q[2] \in DOMAIN cs /\ rows[q] = cs[q[2]]
  BY <1>3, <1>5
<1>7. \A i \in DOMAIN cs : cs[i].type \in {"webservice", "store"} => cs[i].image
  BY <1>1 DEF Valid, validateComponent
<1> QED
  BY <1>4, <1>6, <1>7 DEF Accepted, rows

\* A valid component has a job besides that of its Service.
LEMMA ValidHasJob ==
  ASSUME NEW c, Shape(c.traits), c.type \in {"webservice", "store", "config", "secret"},
         validateTraits(c.traits), ~Disagree(c.traits)
  PROVE  \E j \in buildJobsForComponent(c) : j.component = c.name /\ j.kind # "service"
<1>1. CASE c.type = "config"
  <2> DEFINE j == NewJobTask(c, MaxHigh, "configmap", c.namespace, c.name, NoPod)
  <2>1. j \in buildJobsForComponent(c)
    BY <1>1 DEF buildJobsForComponent
  <2>2. j.component = c.name /\ j.kind = "configmap"
    BY DEF NewJobTask
  <2> QED
    BY <2>1, <2>2
<1>2. CASE c.type = "secret"
  <2> DEFINE j == NewJobTask(c, MaxHigh, "secret", c.namespace, c.name, NoPod)
  <2>1. j \in buildJobsForComponent(c)
    BY <1>2 DEF buildJobsForComponent
  <2>2. j.component = c.name /\ j.kind = "secret"
    BY DEF NewJobTask
  <2> QED
    BY <2>1, <2>2
<1>3. CASE c.type \in {"webservice", "store"}
  <2> DEFINE g == GenerateWorkload(c)
             j == NewJobTask(c, Normal, g.service.kind, c.namespace, g.service.name, g.service)
  <2>1. applyTraitsRecursive(c, c.traits).ok
    BY TraitsTaken
  <2>2. g.ok /\ g.service.kind \in Workload
    BY <2>1, GeneratedPod
       DEF GenerateWorkload, GenerateWebService, GenerateStoreService, Workload
  <2> HIDE DEF g
  <2>3. j \in queueServiceJobs(c, g)
    BY <2>2 DEF queueServiceJobs
  <2>4. j \in buildJobsForComponent(c)
    BY <1>3, <2>3 DEF buildJobsForComponent, g
  <2>5. j.component = c.name /\ j.kind \in Workload
    BY <2>2 DEF NewJobTask
  <2> QED
    BY <2>4, <2>5 DEF Workload
<1> QED
  BY <1>1, <1>2, <1>3

\* What is valid is built.
LEMMA ValidBuilt == BuilderInv => ValidIsBuilt
<1> SUFFICES ASSUME BuilderInv, verdict = "valid"
             PROVE  /\ (\A c \in ToSet(request.components) : c.template = NoTemplate)
                       => phase # "refused"
                    /\ phase \notin {"new", "refused", "stored"}
                       => \A s \in DOMAIN steps, p \in DOMAIN components :
                            LET c == components[p]
                            IN  /\ p[1] = 0 /\ p = RowOf(c.name)
                                /\ \E g \in DOMAIN Groups(steps[s]) :
                                     c.name \in Groups(steps[s])[g]
                                /\ ~Disagree(c.traits)
                                => \E j \in Jobs : j.component = c.name /\ j.kind # "service"
  BY DEF ValidIsBuilt
<1>1. Valid(request)
  BY DEF BuilderInv
<1>2. (\A c \in ToSet(request.components) : c.template = NoTemplate) => phase # "refused"
  BY <1>1, ValidAccepted DEF BuilderInv
<1>3. ASSUME phase \notin {"new", "refused", "stored"},
             NEW s \in DOMAIN steps, NEW p \in DOMAIN components,
             p[1] = 0, p = RowOf(components[p].name),
             NEW g \in DOMAIN Groups(steps[s]), components[p].name \in Groups(steps[s])[g],
             ~Disagree(components[p].traits)
      PROVE  \E j \in Jobs : j.component = components[p].name /\ j.kind # "service"
  <2> DEFINE c == components[p]
             c0 == request.components[p[2]]
  <2>1. p[2] \in DOMAIN request.components /\ c = InNamespace(c0)
    BY <1>3, RowOrigin
  <2>2. c0 \in ToSet(request.components)
    BY <2>1 DEF ToSet
  <2>3. IsComponent(c0) /\ validateComponent(c0)
    BY <1>1, <2>2, RequestAssumption DEF BuilderInv, IsComponents, Valid
  <2>4. c.type = c0.type /\ c.traits = c0.traits
    BY <2>1, <2>3 DEF InNamespace, IsComponent
  <2>5. /\ c.type \in {"webservice", "store", "config", "secret"} /\ validateTraits(c.traits)
        /\ Shape(c.traits)
    BY <2>3, <2>4, RowShape DEF validateComponent
  <2>6. PICK j \in buildJobsForComponent(c) : j.component = c.name /\ j.kind # "service"
    BY <1>3, <2>5, ValidHasJob
  <2>7. j \in appendComponentGroup(Groups(steps[s])[g])
    BY <1>3, <2>6 DEF appendComponentGroup, Rows
  <2>8. executions = Executions
    BY <1>3 DEF BuilderInv
  <2>9. <<s, g>> \in DOMAIN executions /\ j \in executions[<<s, g>>]
    BY <2>7, <2>8 DEF Executions
  <2> QED
    BY <2>6, <2>9 DEF Jobs
<1> QED
  BY <1>2, <1>3

\* A request that TryApplication finds valid is not refused by CreateApplications, and
\* GenerateJobTasks has a job for each of its components a step names, except for the
\* traits whose validation and processing are known to disagree: for every request,
\* every trait and every workflow.
THEOREM ValidIsBuiltAlways == Spec => []ValidIsBuilt
BY BuilderCorrect, ValidBuilt, PTL
=============================================================================
