-------------------------- MODULE MCJobControllers --------------------------
\* Instances of JobControllers for TLC.
EXTENDS JobControllers

CONSTANTS j1, j2, n1, n2, p1, p2, a1, a2, x

TwoJobs == {j1, j2}
TwoNames == {n1, n2}
TwoProcesses == {p1, p2}
TwoApps == {a1, a2}
OneItem == {x}

Full == [core |-> 1, items |-> {x}]
Less == [core |-> 2, items |-> {}]

Pair(c, d) == [j \in TwoJobs |-> IF j = j1 THEN c ELSE d]
Before(r) == [n \in TwoNames |-> IF n = n1 THEN r ELSE Absent]

\* What earlier runs of the first application have left: as it was created, as it
\* was applied again after a deletion, and an immutable secret.
Earlier(main, held, immutable) ==
  [by |-> Foreign, app |-> a1, main |-> main, extra |-> 2, shared |-> FALSE,
   held |-> held, immutable |-> immutable, ready |-> TRUE]

Created == Earlier(Full, {x}, FALSE)
Revived == Earlier(Full, {}, FALSE)

Shared(kind, locker, process, share) ==
  [kind |-> kind, locker |-> locker, process |-> Pair(p1, process),
   name |-> Pair(n1, n2), app |-> Pair(a1, a2), share |-> share, main |-> Pair(Full, Full),
   extra |-> Pair(1, 1), before |-> Before(Absent)]

\* Two applications share a resource under two names.
Sharing ==
  {Shared("deployment", "redis", p2, Pair("default", "default"))}
  \cup {Shared("configmap", l[1], l[2], s) :
          l \in {<<"redis", p2>>, <<"memory", p1>>, <<"memory", p2>>},
          s \in {Pair("default", "default"), Pair("default", "force"),
                 Pair("ignore", "default")}}

Conflicting(kinds, apps, values, before) ==
  {[kind |-> k, locker |-> "redis", process |-> Pair(p1, p2), name |-> Pair(n1, n1),
    app |-> Pair(a1, a), share |-> Pair("none", "none"), main |-> Pair(Full, v),
    extra |-> Pair(1, 1), before |-> Before(r)] :
      k \in kinds, a \in apps, v \in values, r \in before}

\* Two jobs for one name, with or without an earlier resource.  Only the RBAC
\* controllers, which are alike, look at the application.
Conflict ==
  Conflicting(Kind \ Rbac, {a1}, {Less}, {Absent, Created})
  \cup Conflicting({"deployment"}, {a1}, {Full, Less}, {Absent, Revived})
  \cup Conflicting({"serviceaccount"}, {a1, a2}, {Full, Less}, {Absent, Created})
  \cup Conflicting(Rbac, {a2}, {Less}, {Created})

\* A secret that must not change, and that one job finds as it wants it: without data.
Immutable ==
  {[kind |-> "secret", locker |-> "redis", process |-> Pair(p1, p2),
    name |-> Pair(n1, n1), app |-> Pair(a1, a1), share |-> Pair("none", "none"),
    main |-> Pair(Full, Less), extra |-> Pair(1, 1),
    before |-> Before(Earlier(m, {}, TRUE))] : m \in {Full, Less}}

AllSetups == Sharing \cup Conflict \cup Immutable
=============================================================================
