------------------------------- MODULE Traits -------------------------------
(***************************************************************************)
(* The traits of a component: what TryApplication accepts                  *)
(* (domain/service/validation.go) and what the processors make of them     *)
(* (pkg/apiserver/workflow/traits).  Operators only.                       *)
(*                                                                         *)
(* A name is the sequence of its segments between hyphens, <<>> when it is *)
(* empty; names have no white space.  A quantity is one of                 *)
(*   "none"  not given                                                     *)
(*   "1Gi"   well-formed                                                   *)
(*   "1K"    taken by the regular expressions, refused by ParseQuantity    *)
(*   "big"   refused by both                                               *)
(***************************************************************************)
EXTENDS Integers, Sequences, SequencesExt

CONSTANT Lowered  \* the capitalised segments, and what ToLower makes of them

ASSUME LoweredAssumption == \A s \in DOMAIN Lowered : Lowered[s] \notin DOMAIN Lowered

\* strings.ToLower, ToRFC1123Name and NormalizeLowerStrip on names as above.
ToLower(name) ==
  [i \in DOMAIN name |-> IF name[i] \in DOMAIN Lowered THEN Lowered[name[i]] ELSE name[i]]

Or(name, default) == IF name = <<>> THEN default ELSE name

Map(s, F(_)) == [i \in DOMAIN s |-> F(s[i])]

\* p goes before q: positions of two numbers, in lexicographic order.
Before(p, q) == p[1] < q[1] \/ (p[1] = q[1] /\ p[2] < q[2])

NoTraits ==
  [storage |-> <<>>, env_from |-> <<>>, envs |-> <<>>, resources |-> <<>>,
   probes |-> <<>>, rbac |-> <<>>, init |-> <<>>, sidecar |-> <<>>,
   ingress |-> <<>>, share |-> "none"]

Name == Seq(STRING)

\* The traits of a container, and those of a component.
IsLeafTraits(t) ==
  /\ DOMAIN t = DOMAIN NoTraits
  /\ t.storage \in Seq([name : Name, type : STRING, mountPath : Name, tmpCreate : BOOLEAN,
                        size : STRING, claimName : Name, sourceName : Name])
  /\ t.env_from \in Seq([type : STRING, sourceName : Name])
  /\ t.envs \in Seq([name : Name, from : SUBSET STRING, ref : Name])
  /\ t.resources \in Seq([cpu : STRING, memory : STRING, gpu : STRING])
  /\ t.probes \in Seq([type : STRING, handlers : SUBSET STRING, port : Int])
  /\ t.rbac \in Seq([rules : Seq(Nat), serviceAccount : Name, clusterScope : BOOLEAN,
                     namespace : STRING, roleName : Name, bindingName : Name])
  /\ t.ingress \in Seq([name : Name, routes : Seq(Name)])

IsTraits(t) ==
  /\ IsLeafTraits(t)
  /\ \A kind \in {"init", "sidecar"} :
       /\ t[kind] \in Seq(ToSet(t[kind]))
       /\ \A x \in ToSet(t[kind]) :
            /\ DOMAIN x = {"name", "image", "traits"}
            /\ x.name \in Name /\ x.image \in BOOLEAN
            /\ IsLeafTraits(x.traits)

-----------------------------------------------------------------------------
(***************************************************************************)
(* Validation.                                                             *)
(***************************************************************************)
isValidQuantity(q) == q \in {"none", "1Gi", "1K"}

validateStorageTrait(s) ==
  /\ s.type \in {"persistent", "ephemeral", "config", "secret"}
  /\ s.mountPath # <<>>
  /\ s.type = "persistent" /\ s.tmpCreate => isValidQuantity(s.size)
  /\ s.type \in {"config", "secret"} => s.sourceName # <<>> \/ s.name # <<>>

\* Exactly one way to probe; an exec without a command does not count.
validateProbeTrait(p) ==
  /\ p.type \in {"liveness", "readiness", "startup"}
  /\ Cardinality(p.handlers \ {"exec_empty"}) = 1
  /\ p.handlers \cap {"http_get", "tcp_socket"} # {} => p.port > 0

\* Seeded fault: a rule may have no verbs.
validateRBACTraitVerbless(r) == r.rules # <<>>

\* A rule is its number of verbs.
validateRBACTrait(r) == r.rules # <<>> /\ \A n \in ToSet(r.rules) : n > 0

\* A route is the name of its service.
validateIngressTrait(g) == g.routes # <<>> /\ \A s \in ToSet(g.routes) : s # <<>>

validateEnvFromTrait(e) == e.type \in {"secret", "configMap"} /\ e.sourceName # <<>>

validateEnvsTrait(e) ==
  /\ e.name # <<>>
  /\ Cardinality(e.from) = 1
  /\ e.from \cap {"secret", "config"} # {} => e.ref # <<>>

\* The quantity of GPUs is not looked at.
validateResourcesTrait(r) == isValidQuantity(r.cpu) /\ isValidQuantity(r.memory)

validateLeafTraits(t) ==
  /\ \A x \in ToSet(t.storage) : validateStorageTrait(x)
  /\ \A x \in ToSet(t.probes) : validateProbeTrait(x)
  /\ \A x \in ToSet(t.rbac) : validateRBACTrait(x)
  /\ \A x \in ToSet(t.ingress) : validateIngressTrait(x)
  /\ \A x \in ToSet(t.env_from) : validateEnvFromTrait(x)
  /\ \A x \in ToSet(t.envs) : validateEnvsTrait(x)
  /\ \A x \in ToSet(t.resources) : validateResourcesTrait(x)

\* validateInitTrait and validateSidecarTrait: no containers within containers.
validateContainerTrait(x) ==
  /\ x.image
  /\ x.traits.init = <<>> /\ x.traits.sidecar = <<>>
  /\ validateLeafTraits(x.traits)

validateTraits(t) ==
  /\ validateLeafTraits(t)
  /\ \A x \in ToSet(t.init) \cup ToSet(t.sidecar) : validateContainerTrait(x)

-----------------------------------------------------------------------------
(***************************************************************************)
(* The processors.  A result that is not ok is an error.  Of the volumes,  *)
(* the mounts and the objects, which are told apart by a key, the first    *)
(* with a key will count: a result has each as sets at positions, those of *)
(* one set with different keys.                                            *)
(***************************************************************************)
NoResult ==
  [ok |-> TRUE, inits |-> <<>>, containers |-> <<>>, volumes |-> <<>>, mounts |-> <<>>,
   env |-> {}, objects |-> <<>>, sa |-> <<>>, probes |-> {}]

Object(kind, scope, name) ==
  [kind |-> kind, scope |-> scope, name |-> name, template |-> FALSE]

Container(name, r, probes) ==
  [name |-> name, mounts |-> r.mounts, env |-> r.env, probes |-> probes]

\* resource.ParseQuantity, of the API machinery.
ParseQuantity(q) == q \in {"none", "1Gi"}

\* No two elements of s have one key.
Distinct(s, Key(_)) == \A i, k \in DOMAIN s : Key(s[i]) = Key(s[k]) => i = k

\* The elements at the positions of the field f of all results, without those
\* whose key has occurred before.
FirstBy(results, f, Key(_)) ==
  LET At == UNION {{i} \X DOMAIN results[i][f] : i \in DOMAIN results}
      List(p) == results[p[1]][f][p[2]]
  IN  UNION {{x \in List(p) : \A q \in At : Before(q, p)
                              => \A y \in List(q) : Key(y) # Key(x)} : p \in At}

StorageTypeMapping ==
  [persistent |-> "pvc", ephemeral |-> "emptyDir", host_mounted |-> "hostPath",
   config |-> "configmap", secret |-> "secret"]

\* What a storage trait mounts: its own claim, or what is there under a name.
VolumeRef(s) ==
  CASE s.type = "persistent" /\ s.tmpCreate -> ToLower(s.name)
    [] s.type = "persistent" /\ ~s.tmpCreate -> Or(s.claimName, s.name)
    [] s.type \in {"config", "secret"} -> Or(s.sourceName, s.name)
    [] OTHER -> <<>>

VolumeName(s) == ToLower(s.name)

Volume(s) ==
  [name |-> VolumeName(s), ref |-> VolumeRef(s), source |-> StorageTypeMapping[s.type]]

Mount(s) ==
  [volume |-> VolumeName(s), path |-> Or(s.mountPath, <<"mnt">> \o VolumeName(s))]

Claim(c, s) == [Object("pvc", c.namespace, VolumeRef(s)) EXCEPT !.template = s.tmpCreate]

\* A volume, a mount and, for a claim, an object for the first trait with a name.
\* A host path has no volume.
StorageProcessor(c, traits) ==
  LET vs == {i \in DOMAIN traits : \A k \in 1 .. i - 1 :
               VolumeName(traits[k]) # VolumeName(traits[i])}
      known == \A i \in vs :
                 /\ traits[i].type \in DOMAIN StorageTypeMapping
                 /\ traits[i].type = "persistent" => ParseQuantity(traits[i].size)
  IN  IF ~known \/ \E s \in ToSet(traits) : s.name = <<>>
      THEN [NoResult EXCEPT !.ok = FALSE]
      ELSE [NoResult EXCEPT
             !.volumes = [i \in {k \in vs : traits[k].type # "host_mounted"} |->
                            {Volume(traits[i])}],
             !.mounts = [i \in vs |-> {Mount(traits[i])}],
             !.objects = [i \in {k \in vs : traits[k].type = "persistent"} |->
                            {Claim(c, traits[i])}]]

\* The types of StorageProcessor: "configMap" is not one of them.
EnvFromProcessor(traits) ==
  [NoResult EXCEPT
    !.ok = \A e \in ToSet(traits) : e.sourceName # <<>> /\ e.type \in {"config", "secret"},
    !.env = {[from |-> e.type, ref |-> e.sourceName] : e \in ToSet(traits)}]

\* translateToNativeEnvVar: the first source in this order.
translateToNativeEnvVar(e) ==
  CASE "static" \in e.from -> [from |-> "static", ref |-> <<>>]
    [] e.from \cap {"static", "field"} = {"field"} -> [from |-> "field", ref |-> <<>>]
    [] e.from \cap {"static", "field", "secret"} = {"secret"} ->
         [from |-> "secret", ref |-> e.ref]
    [] OTHER -> [from |-> "config", ref |-> e.ref]

EnvsProcessor(traits) ==
  [NoResult EXCEPT
    !.ok = \A e \in ToSet(traits) : e.from # {},
    !.env = {translateToNativeEnvVar(e) : e \in ToSet(traits)}]

ResourcesProcessor(traits) ==
  [NoResult EXCEPT
    !.ok = \A r \in ToSet(traits) :
             ParseQuantity(r.cpu) /\ ParseQuantity(r.memory) /\ ParseQuantity(r.gpu)]

\* One probe of each type, with one handler.
ProbeProcessor(traits) ==
  [NoResult EXCEPT
    !.ok = /\ \A p \in ToSet(traits) :
                /\ Cardinality(p.handlers) = 1
                /\ p.type \in {"liveness", "readiness", "startup"}
           /\ Distinct(traits, LAMBDA p : p.type),
    !.probes = {p.type : p \in ToSet(traits)}]

Index(i) == IF i = 1 THEN <<>> ELSE <<ToString(i)>>

PolicyAccount(c, traits, i) ==
  Or(ToLower(traits[i].serviceAccount), ToLower(c.name) \o Index(i) \o <<"sa">>)

\* A service account, a role and a binding.
PolicyObjects(c, traits, i) ==
  LET r == traits[i]
      wide == r.clusterScope
      sa == PolicyAccount(c, traits, i)
      namespace == IF r.namespace # "" THEN r.namespace ELSE c.namespace
      scope == IF wide THEN "" ELSE namespace
  IN  <<Object("serviceaccount", namespace, sa),
        Object(IF wide THEN "clusterrole" ELSE "role", scope,
               Or(ToLower(r.roleName), sa \o <<"role">>)),
        Object(IF wide THEN "clusterrolebinding" ELSE "rolebinding", scope,
               Or(ToLower(r.bindingName), sa \o <<"binding">>))>>

\* Three objects for each policy, and the first one's service account for the pod.
RBACProcessor(c, traits) ==
  [NoResult EXCEPT
    !.ok = \A r \in ToSet(traits) : \A n \in ToSet(r.rules) : n > 0,
    !.sa = IF traits = <<>> THEN <<>> ELSE PolicyAccount(c, traits, 1),
    !.objects = [k \in 0 .. 3 * Len(traits) - 1 |->
                  {PolicyObjects(c, traits, 1 + (k \div 3))[1 + (k % 3)]}]]

\* applyIngressDefaults and BuildIngress.
IngressProcessor(c, traits) ==
  [NoResult EXCEPT
    !.ok = \A g \in ToSet(traits) : g.routes # <<>>,
    !.objects = [i \in DOMAIN traits |->
      {Object("ingress", c.namespace,
              Or(traits[i].name, ToLower(c.name) \o <<"ingress">> \o Index(i)))}]]

-----------------------------------------------------------------------------
\* Mounts of one container are told apart by their path.
MountKey(m) == m.path

\* The key is meant to begin with the kind, but only the Ingress has its kind set.
ObjectKey(o) == <<IF o.kind = "ingress" THEN "Ingress" ELSE "", o.scope, o.name>>

\* Seeded fault: only the first result's volumes are taken.
VolumesOfFirst(results) == UNION {results[1].volumes[i] : i \in DOMAIN results[1].volumes}

VolumesOf(results) == FirstBy(results, "volumes", LAMBDA v : v.name)

\* The last service account counts.
ServiceAccountOf(results) ==
  LET given == {i \in DOMAIN results : results[i].sa # <<>>}
  IN  IF given = {} THEN <<>>
      ELSE results[CHOOSE i \in given : \A k \in given : k <= i].sa

\* Without the containers: no two results have any.
aggregateTraitResults(results) ==
  [ok |-> \A i \in DOMAIN results : results[i].ok,
   inits |-> <<>>,
   containers |-> <<>>,
   volumes |-> VolumesOf(results),
   mounts |-> FirstBy(results, "mounts", MountKey),
   env |-> UNION {results[i].env : i \in DOMAIN results},
   objects |-> FirstBy(results, "objects", ObjectKey),
   sa |-> ServiceAccountOf(results),
   probes |-> UNION {results[i].probes : i \in DOMAIN results}]

LeafResults(c, t) ==
  <<StorageProcessor(c, t.storage), EnvFromProcessor(t.env_from), EnvsProcessor(t.envs),
    ResourcesProcessor(t.resources), ProbeProcessor(t.probes), RBACProcessor(c, t.rbac)>>

\* applyTraitsRecursive for a container: neither init nor sidecar.
applyNestedTraits(c, t) ==
  aggregateTraitResults(LeafResults(c, t) \o <<IngressProcessor(c, t.ingress)>>)

\* What InitProcessor and SidecarProcessor have in common, of the results of the
\* containers' own traits: their volumes and objects become the pod's; a service
\* account does not.
Outer(traits, nested) ==
  [NoResult EXCEPT
    !.ok = \A i \in DOMAIN traits : traits[i].image /\ nested[i].ok,
    !.volumes = [i \in DOMAIN traits |-> nested[i].volumes],
    !.objects = [i \in DOMAIN traits |-> nested[i].objects]]

ContainerName(c, traits, kind, i) == Or(traits[i].name, c.name \o <<kind, ToString(i)>>)

InitContainers(c, traits, nested) ==
  [Outer(traits, nested) EXCEPT !.inits =
    [i \in DOMAIN traits |->
      Container(ContainerName(c, traits, "init", i), nested[i], {})]]

\* A sidecar in a sidecar is an error.
SidecarContainers(c, traits, nested) ==
  [Outer(traits, nested) EXCEPT
    !.ok = @ /\ \A x \in ToSet(traits) : x.traits.sidecar = <<>>,
    !.containers =
      [i \in DOMAIN traits |->
        Container(ContainerName(c, traits, "sidecar", i), nested[i], nested[i].probes)]]

\* Containers in a container's own traits are left out.
InitProcessor(c, traits) ==
  InitContainers(c, traits, Map(traits, LAMBDA x : applyNestedTraits(c, x.traits)))

SidecarProcessor(c, traits) ==
  SidecarContainers(c, traits, Map(traits, LAMBDA x : applyNestedTraits(c, x.traits)))

\* applyTraitsRecursive, in the order of RegisterAllProcessors.
applyTraitsRecursive(c, t) ==
  LET inits == InitProcessor(c, t.init)
      sidecars == SidecarProcessor(c, t.sidecar)
  IN  [aggregateTraitResults(LeafResults(c, t)
         \o <<inits, sidecars, IngressProcessor(c, t.ingress)>>)
       EXCEPT !.inits = inits.inits, !.containers = sidecars.containers]

\* Mounts, variables and probes go to the last container with the main
\* container's name.  The claim templates of a StatefulSet take the place of
\* their volumes; those of a Deployment are dropped, and their volumes stay.
applyTraitResultToWorkload(r, w) ==
  LET main == w.containers[1].name
      own == w.containers \o r.containers
      all == own \o r.inits
      at == CHOOSE i \in DOMAIN all :
              /\ all[i].name = main
              /\ \A k \in i + 1 .. Len(all) : all[k].name # main
      full == [all EXCEPT ![at] = [name |-> main, mounts |-> @.mounts \cup r.mounts,
                                   env |-> @.env \cup r.env,
                                   probes |-> @.probes \cup r.probes]]
      templates == IF w.kind = "statefulset"
                   THEN {o.name : o \in {x \in r.objects : x.template}} ELSE {}
  IN  [w EXCEPT
        !.containers = [i \in DOMAIN own |-> full[i]],
        !.inits = [i \in DOMAIN r.inits |-> full[Len(own) + i]],
        !.volumes = {v \in r.volumes : ~(v.source = "pvc" /\ v.ref \in templates)},
        !.templates = templates,
        !.sa = r.sa]

\* The objects to create besides the workload: its claim templates are not.
AdditionalObjects(r) == {o \in r.objects : ~o.template}

\* The workload with its traits, and these objects.
WithTraits(r, w) ==
  [ok |-> r.ok, service |-> applyTraitResultToWorkload(r, w),
   objects |-> AdditionalObjects(r)]

ApplyTraits(c, w) == WithTraits(applyTraitsRecursive(c, c.traits), w)
=============================================================================
