------------------------------ MODULE Templates ------------------------------
(***************************************************************************)
(* How the components of a request are resolved: plain components are      *)
(* taken as they are, and a component that names a template stands for     *)
(* clones of all the template's components (domain/service/application.go, *)
(* resolveComponents and what it calls).  Operators only.                  *)
(*                                                                         *)
(* A component is a record of                                              *)
(*   name, type, namespace ("" when not given), traits;                    *)
(*   image, ports    whether they are given;                               *)
(*   env, secret     the variables and the secret data;                    *)
(*   template        [id, target], NoTemplate for a plain component.       *)
(***************************************************************************)
EXTENDS Traits, FiniteSets, TLC

CONSTANT Template  \* the stored template applications: id -> [enabled, name, components]

NoTemplate == [id |-> "", target |-> <<>>]

IsComponent(c) ==
  /\ DOMAIN c = {"name", "type", "namespace", "traits", "image", "ports", "env", "secret",
                 "template"}
  /\ c.name \in Name /\ c.type \in STRING /\ c.namespace \in STRING
  /\ c.image \in BOOLEAN /\ c.ports \in BOOLEAN
  /\ c.template \in [id : STRING, target : Name]
  /\ IsTraits(c.traits)

IsComponents(cs) == cs \in Seq(ToSet(cs)) /\ \A c \in ToSet(cs) : IsComponent(c)

\* The stored traits have the types of the API.
ASSUME TemplateAssumption == \A id \in DOMAIN Template : IsComponents(Template[id].components)

lastSegment(name) == <<Last(name)>>

-----------------------------------------------------------------------------
(***************************************************************************)
(* Names in the traits of a clone.  m has the names of the template        *)
(* component and of its clone (old, new), the base name, the namespace and *)
(* the name map.                                                           *)
(***************************************************************************)
\* strings.ReplaceAll(name, old, new); a name holds the old one at most once.
Renamed(name, m) == ReplaceFirstSubSeq(m.new, m.old, name)

\* Seeded fault: only the component's own name is looked for.
rewriteNameCandidateOwn(name, m) == IF name = <<>> THEN name ELSE Renamed(name, m)

rewriteNameCandidate(name, m) ==
  IF name \in DOMAIN m.names THEN m.names[name]
  ELSE IF name = <<>> THEN name ELSE Renamed(name, m)

OwnName(name, m) == IF name \in {<<>>, m.old} THEN m.new ELSE name

\* Claims of a template are set apart by a prefix.
rewriteStorageName(s, m) ==
  LET prefix == Or(m.base, m.new)
  IN  CASE s.name \in {<<>>, m.old} -> m.new
        [] s.name \notin {<<>>, m.old} /\ s.type # "persistent" ->
             rewriteNameCandidate(s.name, m)
        [] OTHER -> IF Renamed(s.name, m) # s.name THEN Renamed(s.name, m)
                    ELSE IF IsPrefix(prefix, s.name) THEN s.name
                    ELSE prefix \o s.name

rewriteLeafTraits(t, m) ==
  [t EXCEPT
    !.storage = Map(@, LAMBDA s :
      [s EXCEPT !.name = rewriteStorageName(s, m),
                !.claimName = IF @ = <<>> THEN @ ELSE rewriteNameCandidate(@, m),
                !.sourceName = IF @ = <<>> THEN @ ELSE rewriteNameCandidate(@, m)]),
    !.ingress = Map(@, LAMBDA g :
      [g EXCEPT !.name = OwnName(@, m),
                !.routes = Map(@, LAMBDA s : IF s = m.old THEN m.new ELSE s)]),
    !.rbac = Map(@, LAMBDA r : [r EXCEPT !.namespace = m.namespace]),
    !.env_from = Map(@, LAMBDA e :
      [e EXCEPT !.sourceName = rewriteNameCandidate(@, m)]),
    !.envs = Map(@, LAMBDA e : [e EXCEPT !.ref = rewriteNameCandidate(@, m)])]

rewriteTraitsForTemplate(t, m) ==
  LET Inner(cs, kind) ==
        [i \in DOMAIN cs |->
          [cs[i] EXCEPT
            !.name = IF @ \in {<<>>, m.old} THEN m.new \o <<kind, ToString(i)>> ELSE @,
            !.traits = rewriteLeafTraits(@, m)]]
  IN  [rewriteLeafTraits(t, m) EXCEPT !.init = Inner(@, "init"),
                                      !.sidecar = Inner(@, "sidecar")]

-----------------------------------------------------------------------------
(***************************************************************************)
(* Overrides: the components of the request that name one template.        *)
(***************************************************************************)
\* The one to apply to a template component: the first unused one with the
\* component as its target, or else the first unused one of its type, whatever
\* its target.  0 for none, -1 for an error.
pickOverride(overrides, used, tc) ==
  LET free == DOMAIN overrides \ used
      aimed == {i \in free : overrides[i].template.target = tc.name}
      fits == {i \in free : overrides[i].type \in {"", tc.type}}
      First(S) == CHOOSE i \in S : \A k \in S : i <= k
  IN  IF aimed # {} THEN IF First(aimed) \in fits THEN First(aimed) ELSE -1
      ELSE IF fits # {} THEN First(fits) ELSE 0

\* One override for each template component, in the order of the components.
Picks(overrides, tcs) ==
  FoldLeft(LAMBDA picked, tc : Append(picked, pickOverride(overrides, ToSet(picked), tc)),
           <<>>, tcs)

NoOverride == [env |-> {}, secret |-> {}]

applyPropertyOverrides(tc, o) ==
  [tc EXCEPT !.env = @ \cup o.env,
             !.secret = IF tc.type = "secret" THEN @ \cup o.secret ELSE @]

\* The clone, m as above; share is that of the overrides, "none" when they have none.
convertComponentFromTemplate(tc, o, m, share) ==
  LET traits == IF share = "none" THEN tc.traits ELSE [tc.traits EXCEPT !.share = share]
  IN  [applyPropertyOverrides(tc, o) EXCEPT
        !.name = m.new, !.namespace = m.namespace,
        !.traits = rewriteTraitsForTemplate(traits, m)]

\* The components of the request that name a template, and the first share of them.
OverridesOf(cs, id) == SelectSeq(cs, LAMBDA c : c.template.id = id)

ShareOf(overrides) ==
  LET shares == SelectSeq(overrides, LAMBDA o : o.traits.share # "none")
  IN  IF shares = <<>> THEN "none" ELSE shares[1].traits.share

\* The names that stand for a template component.
Aliases(tc) == {tc.name, <<"tem">> \o tc.name}

\* The clones, or not ok: no such template, not a template, an empty one, or an
\* override whose target is not there or is of another type.
cloneComponentsFromTemplate(app, namespace, id, overrides) ==
  LET tcs == Template[id].components
      share == ShareOf(overrides)
      shared == share # "none"
      base == IF shared THEN <<>> ELSE Or(app, Template[id].name)
      picks == Picks(overrides, tcs)
      OverrideName(i) ==
        IF picks[i] <= 0 \/ overrides[picks[i]].traits.share # "none" THEN <<>>
        ELSE overrides[picks[i]].name
      Target(i) ==
        IF shared THEN tcs[i].name
        ELSE Or(OverrideName(i), base \o lastSegment(tcs[i].name))
      \* Of template components with one name, the last one's clone has it.
      nameMap == [name \in UNION {Aliases(tcs[i]) : i \in DOMAIN tcs} |->
                   Target(CHOOSE i \in DOMAIN tcs :
                     /\ name \in Aliases(tcs[i])
                     /\ \A k \in i + 1 .. Len(tcs) : name \notin Aliases(tcs[k]))]
      Clone(i) ==
        convertComponentFromTemplate(tcs[i],
          IF picks[i] = 0 THEN NoOverride ELSE overrides[picks[i]],
          [old |-> tcs[i].name, new |-> Target(i), base |-> base,
           namespace |-> namespace, names |-> nameMap], share)
      ok == /\ id \in DOMAIN Template
            /\ Template[id].enabled
            /\ tcs # <<>>
            /\ -1 \notin ToSet(picks)
            /\ \A i \in DOMAIN overrides \ ToSet(picks) :
                 overrides[i].template.target = <<>>
  IN  [ok |-> ok, components |-> IF ok THEN [i \in DOMAIN tcs |-> Clone(i)] ELSE <<>>]

\* Plain components first, then template by template as they first appear: the
\* plain component i is at <<0, i>>, the clone of the i-th component of a
\* template at <<h, i>>, when h is the first component to name the template.
resolveComponents(app, namespace, reqComponents) ==
  LET Id(i) == reqComponents[i].template.id
      plain == {i \in DOMAIN reqComponents : Id(i) = ""}
      heads == {h \in DOMAIN reqComponents \ plain : \A k \in 1 .. h - 1 : Id(k) # Id(h)}
      clones == [h \in heads |->
                  cloneComponentsFromTemplate(app, namespace, Id(h),
                                              OverridesOf(reqComponents, Id(h)))]
      At == ({0} \X plain) \cup UNION {{h} \X DOMAIN clones[h].components : h \in heads}
  IN  [ok |-> \A h \in heads : clones[h].ok,
       components |-> [p \in At |-> IF p[1] = 0 THEN reqComponents[p[2]]
                                    ELSE clones[p[1]].components[p[2]]]]
==============================================================================
