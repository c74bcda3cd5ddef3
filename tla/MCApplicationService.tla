------------------------ MODULE MCApplicationService ------------------------
\* Instances of ApplicationService for TLC.
EXTENDS ApplicationService, TLC

CONSTANTS r1, r2, a, b, c, v1, v2

TwoRequests == {r1, r2}
Symmetry == Permutations(TwoRequests)
ThreeNames == {a, b, c}
TwoValues == {v1, v2}

\* A component as a creation leaves it, and one that was added without anything.
Full == [image |-> v1, replicas |-> v1, env |-> v1]
Bare == [image |-> Zero, replicas |-> v1, env |-> Zero]

Start(names, steps, conf) == [rows |-> names, steps |-> steps, conf |-> conf]

\* As a creation leaves it, with components that were added bare, with a component
\* an interrupted UpdateVersion has left without a step, with a step two overlapping
\* ones have left without a component, and with a component they have added twice.
SomeStarts ==
  {Start(<<a, b>>, <<a, b>>, Full), Start(<<a, b>>, <<a, b>>, Bare),
   Start(<<a, b, c>>, <<a, b>>, Full), Start(<<b>>, <<a, b>>, Full),
   Start(<<a, b, a>>, <<a, b, a>>, Full)}

Set(n, set) == [action |-> "update", name |-> n, set |-> set]
Add(n) == [action |-> "add", name |-> n, set |-> [image |-> v1]]
Drop(n) == [action |-> "remove", name |-> n, set |-> <<>>]

Image == [image |-> v2]
Scaled == [replicas |-> v2]
All == [image |-> v2, replicas |-> Zero, env |-> v2]
Version(specs, auto) == [kind |-> "version", specs |-> specs, autoExec |-> auto]

\* One and two specs, on a component that is there and on one that is not.
Versions ==
  {Version(s, TRUE) : s \in {<<Set(a, All)>>, <<Set(a, All), Set(a, Scaled)>>, <<Add(c)>>,
                             <<Drop(a)>>, <<Drop(a), Add(a)>>,
                             <<Add(c), Drop(c)>>, <<Add(c), Add(c)>>,
                             <<Set(a, Image), Add(c)>>, <<Add(c), Drop(a)>>}}
  \cup {Version(<<Add(c), Set(a, Image)>>, FALSE)}

Others ==
  {[kind |-> "refresh", names |-> <<a, c>>, conf |-> Full],
   [kind |-> "workflow", steps |-> {[name |-> c, names |-> <<a, b>>]}, fresh |-> TRUE],
   [kind |-> "workflow", steps |-> {[name |-> c, names |-> <<a, b>>]}, fresh |-> FALSE],
   [kind |-> "delete"]}

AllOps == Versions \cup Others
=============================================================================
