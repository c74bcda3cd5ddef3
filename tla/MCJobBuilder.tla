---------------------------- MODULE MCJobBuilder ----------------------------
\* Instances of JobBuilder for TLC.
EXTENDS JobBuilder

CapitalWeb == "Web" :> "web"

Store(type, name, tmp, size) ==
  [name |-> name, type |-> type, mountPath |-> <<"data">>, tmpCreate |-> tmp,
   size |-> size, claimName |-> <<>>, sourceName |-> <<>>]

EnvFrom(type, source) == [type |-> type, sourceName |-> source]
Env(from, ref) == [name |-> <<"v">>, from |-> {from}, ref |-> ref]
Probe(type, handlers) == [type |-> type, handlers |-> handlers, port |-> 1]
Policy(sa, wide, verbs) ==
  [rules |-> <<verbs>>, serviceAccount |-> sa, clusterScope |-> wide, namespace |-> "",
   roleName |-> <<>>, bindingName |-> <<>>]
Inner(name, t) == [name |-> name, image |-> TRUE, traits |-> t]

vol == <<"vol">>
web == <<"web">>
conf == <<"conf">>
sec == <<"sec">>

\* The storage of a component: none, one of each type, two under one name or one
\* path, a claim template and a volume for the claim of its name.
StorageMenu ==
  {<<>>} \cup {<<Store(type, name, tmp, size)>> :
      type \in {"persistent", "ephemeral", "config", "host_mounted"},
      name \in {vol, <<>>}, tmp \in BOOLEAN, size \in {"1Gi", "1K", "big"}}
  \cup {<<Store("persistent", vol, TRUE, "1Gi"), Store("ephemeral", vol, FALSE, "none")>>,
        <<Store("persistent", vol, TRUE, "1Gi"),
          [Store("persistent", <<"old">>, FALSE, "none") EXCEPT !.claimName = vol,
                                                                !.mountPath = <<"old">>]>>,
        <<Store("ephemeral", vol, FALSE, "none"), Store("secret", sec, FALSE, "none")>>}

ContainerMenu ==
  {[NoTraits EXCEPT !.storage = <<Store("ephemeral", <<"tmp">>, FALSE, "none")>>],
   [NoTraits EXCEPT !.storage = <<Store("persistent", vol, TRUE, "1Gi")>>],
   [NoTraits EXCEPT !.env_from = <<EnvFrom("secret", sec)>>],
   [NoTraits EXCEPT !.env_from = <<EnvFrom("configMap", conf)>>]}

TraitMenu ==
  {[NoTraits EXCEPT !.storage = s] : s \in StorageMenu}
  \cup {[NoTraits EXCEPT !.env_from = <<EnvFrom(t, conf)>>] :
          t \in {"secret", "config", "configMap"}}
  \cup {[NoTraits EXCEPT !.probes = ps] :
          ps \in {<<Probe("liveness", {"exec"}), Probe("liveness", {"exec"})>>,
                  <<Probe("readiness", {"http_get", "exec_empty"})>>,
                  <<Probe("readiness", {"http_get", "exec"})>>, <<Probe("other", {"exec"})>>}}
  \cup {[NoTraits EXCEPT !.resources = <<[cpu |-> q, memory |-> "1Gi", gpu |-> g]>>] :
          q \in {"1Gi", "1K", "big"}, g \in {"none", "big"}}
  \cup {[NoTraits EXCEPT !.rbac = ps] :
          ps \in {<<Policy(<<>>, FALSE, 1)>>, <<Policy(<<"acc">>, TRUE, 1)>>,
                  <<Policy(<<>>, FALSE, 0)>>,
                  <<Policy(<<>>, FALSE, 1), Policy(<<>>, TRUE, 1)>>}}
  \cup {[NoTraits EXCEPT !.ingress = <<[name |-> n, routes |-> r]>>] :
          n \in {<<>>, <<"gate">>}, r \in {<<>>, <<web>>}}
  \cup {[NoTraits EXCEPT !.init = <<Inner(n, t)>>, !.storage = s] :
          n \in {<<>>, <<"pre">>}, t \in ContainerMenu,
          s \in {<<>>, <<Store("ephemeral", vol, FALSE, "none")>>}}
  \cup {[NoTraits EXCEPT !.sidecar = <<Inner(n, t)>>,
                         !.storage = <<Store("persistent", vol, FALSE, "1Gi")>>] :
          n \in {<<>>, web}, t \in ContainerMenu}

Comp(name, type, traits) ==
  [name |-> name, type |-> type, namespace |-> "", traits |-> traits, image |-> TRUE,
   ports |-> FALSE, env |-> {}, secret |-> {}, template |-> NoTemplate]

Req(cs, ss) == [name |-> <<"app">>, namespace |-> "", components |-> cs, steps |-> ss]

\* One component with each of the traits; one with none in every other form.
SingleRequests ==
  {Req(<<[Comp(web, type, t) EXCEPT !.ports = ~@]>>, <<>>) :
      type \in {"webservice", "store"}, t \in TraitMenu}
  \cup {Req(<<[Comp(web, type, [NoTraits EXCEPT !.share = share]) EXCEPT
                 !.image = image, !.ports = ports]>>, <<>>) :
          type \in {"webservice", "store", "config", "secret", "other"},
          share \in {"none", "default", "ignore"}, image, ports \in BOOLEAN}

Step(name, mode, names, subs) ==
  [name |-> name, mode |-> mode, components |-> names, subSteps |-> subs]
Sub(name, names) == [name |-> name, components |-> names]

\* A workload that uses a ConfigMap, a Secret and a claim; all kinds of steps.
MultiRequests ==
  LET uses == [NoTraits EXCEPT !.env_from = <<EnvFrom("config", conf)>>,
                               !.envs = <<Env("secret", sec), Env("static", <<>>)>>,
                               !.storage = <<Store("persistent", vol, FALSE, "1Gi")>>,
                               !.rbac = <<Policy(<<>>, FALSE, 1)>>]
      all == {<<Comp(<<cap>>, type, uses), Comp(conf, "config", NoTraits),
                Comp(sec, "secret", NoTraits)>> :
                cap \in {"web", "Web"}, type \in {"webservice", "store"}}
      Workflows ==
        {<<>>, <<Step(<<"all">>, "DAG", <<web, conf, sec, conf>>, <<>>)>>,
         <<Step(web, "", <<>>, <<>>)>>,
         <<Step(<<"a">>, "", <<conf>>, <<>>), Step(<<"b">>, "StepByStep", <<sec, web>>, <<>>)>>,
         <<Step(<<"a">>, "", <<conf>>, <<>>), Step(<<"a">>, "", <<web>>, <<>>)>>,
         <<Step(<<"a">>, "DAG", <<web, <<"gone">> >>, <<>>)>>}
        \cup {<<Step(<<"s">>, mode, names, <<Sub(<<"x">>, <<web, conf>>), Sub(sec, <<>>)>>)>> :
                mode \in {"DAG", "StepByStep", "other"}, names \in {<<>>, <<web>>}}
  IN  {Req(cs, ss) : cs \in all, ss \in Workflows}

\* A template with a workload before and a ConfigMap after what refers to them, and
\* one with components of the same names.
OneTemplate ==
  LET t == [NoTraits EXCEPT
             !.env_from = <<EnvFrom("config", <<"base", "conf">>)>>,
             !.envs = <<Env("secret", <<"tem", "base", "sec">>)>>,
             !.storage = <<Store("persistent", <<"base", "web", "vol">>, FALSE, "1Gi"),
                           [Store("config", <<"c">>, FALSE, "none") EXCEPT
                              !.sourceName = <<"base", "conf">>, !.mountPath = <<"c">>]>>,
             !.ingress = <<[name |-> <<>>, routes |-> <<<<"base", "web">>>>]>>,
             !.sidecar = <<Inner(<<>>, [NoTraits EXCEPT
                             !.env_from = <<EnvFrom("secret", <<"base", "sec">>)>>])>>]
  IN  [t1 |-> [enabled |-> TRUE, name |-> <<"base">>,
               components |-> <<Comp(<<"base", "web">>, "webservice", t),
                                Comp(<<"base", "conf">>, "config", NoTraits),
                                Comp(<<"base", "sec">>, "secret", NoTraits)>>],
       t2 |-> [enabled |-> TRUE, name |-> <<"two">>,
               components |-> <<Comp(<<"base", "conf">>, "secret", NoTraits),
                                Comp(<<"base", "web">>, "store", t)>>],
       off |-> [enabled |-> FALSE, name |-> <<"off">>, components |-> <<>>],
       empty |-> [enabled |-> TRUE, name |-> <<"empty">>, components |-> <<>>]]

Override(name, type, id, target, share) ==
  [Comp(name, type, [NoTraits EXCEPT !.share = share]) EXCEPT
    !.template = [id |-> id, target |-> target], !.env = {"k"}, !.secret = {"k"}]

TemplateRequests ==
  {Req(<<Override(n, type, "t1", target, share)>>, <<>>) :
      n \in {web, <<"mine">>}, type \in {"webservice", "config", ""},
      target \in {<<>>, <<"base", "web">>, <<"base", "conf">>, <<"gone">>},
      share \in {"none", "default", "ignore"}}
  \cup {Req(<<Override(<<"mine">>, "secret", "t1", a, "none"),
              Comp(conf, "config", NoTraits),
              Override(<<"yours">>, "", "t1", b, "none")>>, <<>>) :
          a, b \in {<<>>, <<"base", "web">>, <<"base", "sec">>}}
  \cup {Req(<<Override(n, "store", "t2", <<>>, "none"), Comp(m, "config", NoTraits),
              Override(web, "webservice", "t1", <<>>, share),
              Override(<<"more">>, "secret", "t2", <<>>, "none")>>, <<>>) :
          n \in {<<>>, <<"mine">>}, m \in {<<"app", "web">>, <<"base", "web">>},
          share \in {"none", "default"}}
  \cup {Req(<<Override(web, "webservice", id, <<>>, "none")>>, <<>>) :
          id \in {"off", "empty", "gone"}}

AllRequests == SingleRequests \cup MultiRequests \cup TemplateRequests
=============================================================================
