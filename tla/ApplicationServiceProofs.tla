----------------------- MODULE ApplicationServiceProofs -----------------------
(***************************************************************************)
(* Proofs about ApplicationService, for any number of overlapping requests *)
(* with any specs, any components and steps that earlier requests have     *)
(* left, and any number of failing database calls.                         *)
(***************************************************************************)
EXTENDS ApplicationService, SequenceTheorems, WellFoundedInduction, TLAPS

(***************************************************************************)
(* The rows: what the database calls make of the sequence and of the set   *)
(* of its elements.                                                        *)
(***************************************************************************)
Row == [id : Nat \ {0}, name : Name, conf : Conf]

\* The rows are in the order of their ids.
Ordered(rs) == \A i, k \in DOMAIN rs : i < k => rs[i].id < rs[k].id

\* An id has one row.
LEMMA OneRowPerId ==
  ASSUME NEW rs \in Seq(Row), Ordered(rs)
  PROVE  \A x, y \in ToSet(rs) : x.id = y.id => x = y
<1> SUFFICES ASSUME NEW i \in DOMAIN rs, NEW k \in DOMAIN rs, rs[i].id = rs[k].id
             PROVE  i = k
  BY DEF ToSet
<1>1. i \in Int /\ k \in Int /\ rs[i] \in Row /\ rs[k] \in Row
  OBVIOUS
<1>2. rs[i].id \in Nat /\ rs[k].id \in Nat
  BY <1>1 DEF Row
<1>3. QED
  BY <1>1, <1>2 DEF Ordered

\* A row that is written has the id and the name it is given, and in each field what it
\* is given or what it had.
LEMMA WrittenRow ==
  ASSUME NEW old \in Row, NEW row \in Row
  PROVE  /\ Written(old, row) \in Row
         /\ Written(old, row).id = row.id /\ Written(old, row).name = row.name
         /\ \A f \in Field : Written(old, row).conf[f] =
              IF row.conf[f] = Zero THEN old.conf[f] ELSE row.conf[f]
<1> DEFINE new == [f \in Field |-> IF row.conf[f] = Zero THEN old.conf[f] ELSE row.conf[f]]
<1>1. /\ row.id \in Nat \ {0} /\ row.name \in Name
      /\ old.conf \in Conf /\ row.conf \in Conf
  BY DEF Row
<1>2. new \in Conf
  BY <1>1 DEF Conf
<1>3. Written(old, row) = [row EXCEPT !.conf = new]
  BY DEF Written
<1> HIDE DEF new
<1>4. [row EXCEPT !.conf = new] = [id |-> row.id, name |-> row.name, conf |-> new]
  BY DEF Row
<1>5. Written(old, row) \in Row /\ Written(old, row).conf = new
  BY <1>1, <1>2, <1>3, <1>4 DEF Row
<1>6. Written(old, row).id = row.id /\ Written(old, row).name = row.name
  BY <1>3, <1>4
<1>7. QED
  BY <1>5, <1>6 DEF new

\* Put writes the row of the id, if there is one.
LEMMA PutRows ==
  ASSUME NEW rs \in Seq(Row), Ordered(rs), NEW row \in Row
  PROVE  /\ Put(rs, row) \in Seq(Row) /\ Ordered(Put(rs, row))
         /\ ToSet(Put(rs, row)) =
              {IF x.id = row.id THEN Written(x, row) ELSE x : x \in ToSet(rs)}
<1> DEFINE p == Put(rs, row)
<1>1. Len(rs) \in Nat /\ DOMAIN rs = 1 .. Len(rs) /\ \A i \in 1 .. Len(rs) : rs[i] \in Row
  OBVIOUS
<1>2. p = [i \in 1 .. Len(rs) |-> IF rs[i].id = row.id THEN Written(rs[i], row) ELSE rs[i]]
  BY <1>1 DEF Put
<1>w. \A i \in 1 .. Len(rs) :
        Written(rs[i], row) \in Row /\ Written(rs[i], row).id = row.id
  BY <1>1, WrittenRow
<1>3. p \in [1 .. Len(rs) -> Row]
  BY <1>1, <1>2, <1>w
<1>4. p \in Seq(Row) /\ DOMAIN p = 1 .. Len(rs)
  BY <1>1, <1>3, SeqDef
<1>5. \A i \in 1 .. Len(rs) : p[i].id = rs[i].id
  BY <1>2, <1>w
<1>6. Ordered(p)
  BY <1>1, <1>4, <1>5 DEF Ordered
<1>7. ToSet(p) = {IF x.id = row.id THEN Written(x, row) ELSE x : x \in ToSet(rs)}
  BY <1>1, <1>2, <1>4 DEF ToSet
<1>8. QED
  BY <1>4, <1>6, <1>7

\* A new row comes last.
LEMMA AppendRow ==
  ASSUME NEW rs \in Seq(Row), Ordered(rs), NEW row \in Row,
         \A x \in ToSet(rs) : x.id < row.id
  PROVE  /\ Append(rs, row) \in Seq(Row) /\ Ordered(Append(rs, row))
         /\ ToSet(Append(rs, row)) = ToSet(rs) \cup {row}
<1> DEFINE p == Append(rs, row)
<1>1. /\ p \in Seq(Row) /\ Len(p) = Len(rs) + 1 /\ Len(rs) \in Nat
      /\ \A i \in 1 .. Len(rs) : p[i] = rs[i]
      /\ p[Len(rs) + 1] = row
      /\ DOMAIN p = 1 .. Len(rs) + 1 /\ DOMAIN rs = 1 .. Len(rs)
  OBVIOUS
<1>2. \A i \in 1 .. Len(rs) : rs[i].id < row.id
  BY <1>1 DEF ToSet
<1>3. Ordered(p)
  BY <1>1, <1>2 DEF Ordered
<1>4. ToSet(p) = ToSet(rs) \cup {row}
  BY <1>1 DEF ToSet
<1>5. QED
  BY <1>1, <1>3, <1>4

\* Delete removes the row of the id.
LEMMA DeleteRow ==
  ASSUME NEW rs \in Seq(Row), Ordered(rs), NEW row \in Row,
         \E i \in DOMAIN rs : rs[i].id = row.id
  PROVE  /\ Delete(rs, row) \in Seq(Row) /\ Ordered(Delete(rs, row))
         /\ ToSet(Delete(rs, row)) = {x \in ToSet(rs) : x.id # row.id}
<1> DEFINE p == Delete(rs, row)
<1>1. PICK d \in 1 .. Len(rs) : rs[d].id = row.id /\ p = RemoveAt(rs, d)
  <2>1. DOMAIN rs = 1 .. Len(rs)
    OBVIOUS
  <2>2. QED
    BY <2>1 DEF Delete
<1> DEFINE f == SubSeq(rs, 1, d - 1)
           b == SubSeq(rs, d + 1, Len(rs))
<1>2. /\ Len(rs) \in Nat /\ DOMAIN rs = 1 .. Len(rs)
      /\ \A i \in 1 .. Len(rs) : rs[i] \in Row /\ rs[i].id \in Nat
  <2>1. \A x \in Row : x.id \in Nat
    BY DEF Row
  <2>2. QED
    BY <2>1
<1>3. f \in Seq(Row) /\ Len(f) = d - 1 /\ \A i \in 1 .. d - 1 : f[i] = rs[i]
  OBVIOUS
<1>4. b \in Seq(Row) /\ Len(b) = Len(rs) - d /\ \A i \in 1 .. Len(rs) - d : b[i] = rs[d + i]
  OBVIOUS
<1>5. p = f \o b
  BY <1>1 DEF RemoveAt
<1> HIDE DEF p, f, b
<1>6. p \in Seq(Row)
  <2>1. f \in Seq(Row) /\ b \in Seq(Row)
    BY <1>3, <1>4
  <2>2. f \o b \in Seq(Row)
    BY <2>1, ConcatProperties, Zenon
  <2>3. QED
    BY <1>5, <2>2
<1>7. Len(p) = Len(rs) - 1
  <2>1. f \in Seq(Row) /\ b \in Seq(Row)
    BY <1>3, <1>4
  <2>2. Len(f \o b) = Len(f) + Len(b)
    BY <2>1, ConcatProperties, Zenon
  <2>3. QED
    BY <1>2, <1>3, <1>4, <1>5, <2>2
<1>8. ASSUME NEW i \in 1 .. Len(rs) - 1
      PROVE  p[i] = IF i < d THEN rs[i] ELSE rs[i + 1]
  <2>1. p[i] = IF i <= Len(f) THEN f[i] ELSE b[i - Len(f)]
    <3>1. f \in Seq(Row) /\ b \in Seq(Row) /\ i \in 1 .. Len(f) + Len(b)
      BY <1>2, <1>3, <1>4
    <3>2. (f \o b)[i] = IF i <= Len(f) THEN f[i] ELSE b[i - Len(f)]
      BY <3>1, ConcatProperties, Zenon
    <3>3. QED
      BY <1>5, <3>2
  <2>2. CASE i < d
    BY <1>2, <1>3, <2>1, <2>2
  <2>3. CASE ~(i < d)
    <3>1. i - Len(f) \in 1 .. Len(rs) - d /\ d + (i - Len(f)) = i + 1
      BY <1>2, <1>3, <2>3
    <3>2. QED
      BY <1>3, <1>4, <2>1, <2>3, <3>1
  <2>4. QED
    BY <2>2, <2>3
<1>9. DOMAIN p = 1 .. Len(rs) - 1
  BY <1>6, <1>7
<1>10. Ordered(p)
  <2> SUFFICES ASSUME NEW i \in 1 .. Len(rs) - 1, NEW k \in 1 .. Len(rs) - 1, i < k
               PROVE  p[i].id < p[k].id
    BY <1>9 DEF Ordered
  <2>1. /\ i \in DOMAIN rs /\ i + 1 \in DOMAIN rs
        /\ k \in DOMAIN rs /\ k + 1 \in DOMAIN rs
        /\ i < k /\ i < k + 1 /\ i + 1 < k + 1
    BY <1>2
  <2>2. /\ rs[i].id < rs[k].id /\ rs[i].id < rs[k + 1].id
        /\ rs[i + 1].id < rs[k + 1].id
    BY <2>1 DEF Ordered
  <2>3. QED
    BY <1>8, <2>2
<1>11. ASSUME NEW i \in 1 .. Len(rs)
       PROVE  rs[i].id # row.id <=> i # d
  BY <1>1, <1>2 DEF Ordered
<1>12. ToSet(p) \subseteq {x \in ToSet(rs) : x.id # row.id}
  <2> SUFFICES ASSUME NEW i \in 1 .. Len(rs) - 1
               PROVE  p[i] \in ToSet(rs) /\ p[i].id # row.id
    BY <1>9 DEF ToSet
  <2>1. CASE i < d
    <3>1. i \in 1 .. Len(rs) /\ i # d
      BY <1>2, <2>1
    <3>2. p[i] = rs[i] /\ rs[i].id # row.id
      BY <1>8, <1>11, <2>1, <3>1
    <3>3. QED
      BY <3>1, <3>2 DEF ToSet
  <2>2. CASE ~(i < d)
    <3>1. i + 1 \in 1 .. Len(rs) /\ i + 1 # d
      BY <1>2, <2>2
    <3>2. QED
      BY <1>2, <1>8, <1>11, <2>2, <3>1 DEF ToSet
  <2>3. QED
    BY <2>1, <2>2
<1>13. {x \in ToSet(rs) : x.id # row.id} \subseteq ToSet(p)
  <2> SUFFICES ASSUME NEW i \in 1 .. Len(rs), rs[i].id # row.id
               PROVE  \E k \in 1 .. Len(rs) - 1 : p[k] = rs[i]
    BY <1>2, <1>9 DEF ToSet
  <2>1. CASE i < d
    <3>1. i \in 1 .. Len(rs) - 1
      BY <1>2, <2>1
    <3>2. QED
      BY <1>8, <2>1, <3>1
  <2>2. CASE i > d
    <3>1. i - 1 \in 1 .. Len(rs) - 1 /\ ~(i - 1 < d) /\ (i - 1) + 1 = i
      BY <1>2, <2>2
    <3>2. QED
      BY <1>8, <3>1
  <2>3. QED
    BY <1>2, <1>11, <2>1, <2>2
<1>14. QED
  BY <1>6, <1>10, <1>12, <1>13 DEF p

\* The rows of a refresh have the ids that follow.
LEMMA NewRowsMade ==
  ASSUME NEW names \in Seq(Name), NEW conf \in Conf, NEW id \in Nat
  PROVE  /\ NewRows(names, conf, id) \in Seq(Row)
         /\ Ordered(NewRows(names, conf, id))
         /\ \A x \in ToSet(NewRows(names, conf, id)) :
              x.id > id /\ x.id <= id + Len(names)
         /\ Names(ToSet(NewRows(names, conf, id))) = ToSet(names)
<1> DEFINE p == NewRows(names, conf, id)
<1>1. /\ Len(names) \in Nat /\ DOMAIN names = 1 .. Len(names)
      /\ \A i \in 1 .. Len(names) : names[i] \in Name
  OBVIOUS
<1>2. p = [i \in 1 .. Len(names) |-> [id |-> id + i, name |-> names[i], conf |-> conf]]
  BY <1>1 DEF NewRows
<1>3. p \in [1 .. Len(names) -> Row]
  BY <1>1, <1>2 DEF Row
<1>4. p \in Seq(Row) /\ DOMAIN p = 1 .. Len(names)
  BY <1>1, <1>3, SeqDef
<1>5. \A i \in 1 .. Len(names) : p[i].id = id + i /\ p[i].name = names[i]
  BY <1>2
<1>6. QED
  BY <1>1, <1>4, <1>5 DEF Ordered, ToSet, Names

\* A set of positions that is not empty has a last one.
LEMMA LastExists ==
  ASSUME NEW n \in Nat, NEW S \in SUBSET (1 .. n), S # {}
  PROVE  \E x \in S : \A y \in S : x >= y
<1> DEFINE T == {k \in Nat : n - k \in S}
<1>1. T \subseteq Nat /\ T # {}
  <2>1. PICK z \in S : TRUE
    OBVIOUS
  <2>2. n - z \in T
    OBVIOUS
  <2>3. QED
    BY <2>2
<1>2. PICK x \in T : \A y \in T : ~(<<y, x>> \in OpToRel(<, Nat))
  BY <1>1, WFMin, NatLessThanWellFounded
<1>3. \A y \in T : ~(y < x)
  BY <1>1, <1>2 DEF OpToRel
<1>4. \A y \in S : n - y \in T
  OBVIOUS
<1>5. QED
  BY <1>1, <1>3, <1>4

\* What UpdateVersion enters into its map for a name is a row of this name.
LEMMA LastIsNamed ==
  ASSUME NEW rs \in Seq(Row), NEW n \in Names(ToSet(rs))
  PROVE  LastNamed(rs, n) \in ToSet(rs) /\ LastNamed(rs, n).name = n
<1> DEFINE S == {i \in 1 .. Len(rs) : rs[i].name = n}
<1>1. Len(rs) \in Nat /\ DOMAIN rs = 1 .. Len(rs)
  OBVIOUS
<1>2. S # {} /\ S \subseteq 1 .. Len(rs)
  BY <1>1 DEF Names, ToSet
<1>3. \E x \in S : \A y \in S : x >= y
  BY <1>1, <1>2, LastExists
<1>4. Max(S) \in S
  BY <1>3 DEF Max
<1>5. SelectLastInSeq(rs, LAMBDA x : x.name = n) = Max(S)
  BY <1>2 DEF SelectLastInSeq
<1>6. LastNamed(rs, n) = rs[Max(S)]
  BY <1>5 DEF LastNamed
<1>7. QED
  BY <1>1, <1>4, <1>6 DEF ToSet

-----------------------------------------------------------------------------
(***************************************************************************)
(* The inductive invariant.  TypeOK needs the types it does not state, the *)
(* bounds of the ids in the maps of the requests and what each request is. *)
(***************************************************************************)
Label == {"idle", "refresh", "version", "specs", "sync", "write", "exec", "workflow", "put",
          "delete", "done", "error"}

Updating == {"specs", "sync", "write", "exec"}

Workflow == [id : Nat, steps : SUBSET Step]

PartialRows == UNION {[N -> Row] : N \in SUBSET Name}

\* The types of the variables.
Shape ==
  /\ op \in [Request -> Ops]
  /\ app \in [live : BOOLEAN, version : Request \cup {"first"}]
  /\ lastId \in Nat /\ rows \in Seq(Row)
  /\ wfs \in Seq(Workflow) /\ wfs # <<>>
  /\ pc \in [Request -> Label]
  /\ at \in [Request -> Nat]
  /\ map \in [Request -> PartialRows]
  /\ added \in [Request -> Seq(Name)] /\ removed \in [Request -> Seq(Name)]
  /\ read \in [Request -> Workflow \cup {<<>>}]
  /\ task \in [Request -> {"none", "waiting", "reading", "built"}]
  /\ built \in [Request -> SUBSET Name]
  /\ errors \in 0 .. MaxErrors
  /\ quiet \subseteq Request
  /\ applied \in [Request -> SUBSET Nat]

\* Ids tell the rows apart, and the workflows.
Ids ==
  /\ Ordered(rows) /\ \A x \in ToSet(rows) : x.id <= lastId
  /\ \A r \in Request : \A n \in DOMAIN map[r] : map[r][n].id <= lastId
  /\ \A i \in DOMAIN wfs : wfs[i].id <= Len(wfs)
  /\ \A i, k \in DOMAIN wfs : wfs[i].id = wfs[k].id => i = k

\* A request does what it was sent for.
Kinds ==
  \A r \in Request :
    /\ pc[r] \in {"refresh", "workflow", "delete"} => op[r].kind = pc[r]
    /\ pc[r] = "put" => op[r].kind = "workflow"
    /\ pc[r] \in Updating \cup {"version"} => op[r].kind = "version"
    /\ task[r] # "none" => op[r].kind = "version" /\ pc[r] = "done"
    /\ pc[r] \in {"idle", "version"} => at[r] = 0 /\ added[r] = <<>> /\ removed[r] = <<>>
    /\ pc[r] = "idle" => r \notin quiet

\* The workflow a request or its task has read is one of the workflows.
Readings ==
  \A r \in Request : pc[r] = "write" \/ task[r] # "none" =>
    read[r] \in Workflow /\ \E w \in ToSet(wfs) : w.id = read[r].id

\* What has been handled is applied, or was an update, and what has been added was asked
\* for.
Progress ==
  \A r \in Request : op[r].kind = "version" =>
    /\ at[r] <= Len(op[r].specs)
    /\ pc[r] \in {"sync", "write", "exec"} => at[r] = Len(op[r].specs)
    /\ \A i \in 1 .. at[r] : op[r].specs[i].action = "update" \/ i \in applied[r]
    /\ \A n \in ToSet(added[r]) :
         \E i \in 1 .. at[r] : op[r].specs[i].name = n /\ op[r].specs[i].action = "add"

\* The map of a request is about rows of these names, and not about those it has added.
Mapped ==
  \A r \in Request : \A n \in DOMAIN map[r] :
    /\ map[r][n].name = n
    /\ n \notin ToSet(added[r])
    /\ \A x \in ToSet(rows) : x.id = map[r][n].id => x.name = n

\* What a status sync has listed is about rows of these names.
Listings ==
  /\ syncs \in 0 .. MaxSyncs /\ reverted \subseteq Request
  /\ \A h \in listed :
       h \in Row /\ h.id <= lastId /\ \A x \in ToSet(rows) : x.id = h.id => x.name = h.name

\* An undisturbed request is alone until its task is built.
Pending(r) == Active(r) \/ task[r] \in {"waiting", "reading"}

Alone == \A r \in quiet : Pending(r) => \A s \in Request : Active(s) => s = r

\* The rows an undisturbed request has read are still there, and so are those it has added.
Undisturbed ==
  \A r \in quiet :
    /\ Pending(r) => ToSet(added[r]) \subseteq Names(ToSet(rows))
    /\ pc[r] = "specs" =>
         \A n \in DOMAIN map[r] : \E x \in ToSet(rows) : x.id = map[r][n].id
    /\ pc[r] = "specs" /\ ~twins =>
         Names(ToSet(rows)) \subseteq DOMAIN map[r] \cup ToSet(added[r])

\* Such a row has what the map says of it, the zero values excepted, which the map may
\* have and the row not; but a variable is in both or in neither.
Agree(x, m) ==
  /\ \A f \in Field : m.conf[f] # Zero => x.conf[f] = m.conf[f]
  /\ m.conf["env"] = Zero => x.conf["env"] = Zero

Held ==
  \A r \in quiet \ reverted : pc[r] = "specs" =>
    \A n \in DOMAIN map[r] : \A x \in ToSet(rows) : x.id = map[r][n].id => Agree(x, map[r][n])

\* Without twins a name has one row.
NoTwins ==
  ~twins => \A x, y \in ToSet(rows) : x.name = y.name => x = y

\* The components the steps of a workflow name.
Named(w) == UNION {ToSet(s.names) : s \in w.steps}

\* The workflow an undisturbed request works on is the first one, and has the steps.
Synced ==
  \A r \in quiet :
    /\ pc[r] = "write" => read[r] = wfs[1]
    /\ pc[r] = "exec" => ToSet(added[r]) \subseteq Named(wfs[1])
    /\ task[r] = "waiting" =>
         read[r].id = wfs[1].id /\ ToSet(added[r]) \subseteq Named(wfs[1])
    /\ task[r] = "reading" =>
         read[r] = wfs[1] /\ ToSet(added[r]) \subseteq Named(wfs[1])

\* While a request is under way the rows differ from the steps by its two lists.
Between ==
  ~trouble =>
    /\ wfs[1].id = 1
    /\ \A r \in Request : Active(r) => r \in quiet
    /\ ~twins =>
         /\ (\A r \in Request : ~Active(r)) => Names(ToSet(rows)) = Names(wfs[1].steps)
         /\ \A r \in Request :
              /\ pc[r] \in {"version", "specs", "sync", "write"} =>
                   Names(ToSet(rows)) = (Names(wfs[1].steps) \ ToSet(removed[r]))
                                        \cup ToSet(added[r])
              /\ pc[r] \in {"refresh", "exec", "workflow", "put", "delete"} =>
                   Names(ToSet(rows)) = Names(wfs[1].steps)

\* The last spec so far for a name stands.
Standing ==
  \A r \in quiet \ reverted : pc[r] \in Updating /\ ~twins =>
    \A i \in 1 .. at[r] :
      /\ \A k \in 1 .. i - 1 :
           op[r].specs[k].name = op[r].specs[i].name => op[r].specs[k].action # "add"
      /\ \A k \in 1 .. at[r] : op[r].specs[k].name = op[r].specs[i].name => k <= i
      => Stands(op[r].specs[i])

IInv ==
  /\ Shape /\ Ids /\ Kinds /\ Readings /\ Progress /\ Mapped /\ Listings
  /\ VersionMeansApplied /\ Alone /\ Undisturbed /\ Held /\ NoTwins /\ Synced /\ Between
  /\ Standing /\ AutoExecSeesUpdate

-----------------------------------------------------------------------------
(***************************************************************************)
(* What a step may change.                                                 *)
(***************************************************************************)
\* A step of a request or of the worker that builds its task.
StepOfRequest(r) == RequestStep(r) \/ GetWorkflow(r) \/ GenerateJobTasks(r)

\* A request is of one of four kinds.
LEMMA OpTypes ==
  ASSUME Shape, NEW r \in Request
  PROVE  /\ op[r].kind \in {"refresh", "version", "workflow", "delete"}
         /\ op[r].kind = "refresh" => op[r].names \in Seq(Name) /\ op[r].conf \in Conf
         /\ op[r].kind = "version" => op[r].specs \in Seq(ComponentUpdateSpec)
         /\ op[r].kind = "workflow" => op[r].steps \subseteq Step
<1>1. op[r] \in Ops
  BY DEF Shape
<1>2. \/ op[r].kind = "refresh" /\ op[r].names \in Seq(Name) /\ op[r].conf \in Conf
      \/ op[r].kind = "version" /\ op[r].specs \in Seq(ComponentUpdateSpec)
      \/ op[r].kind = "workflow" /\ \A s \in op[r].steps : s \in Step
      \/ op[r].kind = "delete"
  BY <1>1, ServiceAssumption, Zenon
<1>3. QED
  BY <1>2

\* What a spec sets, and the zero value only for the replicas.
SetType(set) ==
  /\ DOMAIN set \subseteq Field
  /\ \A f \in DOMAIN set :
       set[f] \in Value \cup {Zero} /\ (set[f] = Zero => f = "replicas")

LEMMA SpecType ==
  ASSUME NEW c \in ComponentUpdateSpec
  PROVE  c.action \in {"update", "add", "remove"} /\ c.name \in Name /\ SetType(c.set)
<1>1. /\ c.action \in {"update", "add", "remove"} /\ c.name \in Name
      /\ c.set \in UNION {[F -> Value \cup {Zero}] : F \in SUBSET Field}
      /\ \A f \in DOMAIN c.set : c.set[f] = Zero => f = "replicas"
  BY DEF ComponentUpdateSpec
<1>2. PICK F \in SUBSET Field : c.set \in [F -> Value \cup {Zero}]
  BY <1>1
<1>3. DOMAIN c.set = F /\ \A f \in F : c.set[f] \in Value \cup {Zero}
  BY <1>2
<1>4. QED
  BY <1>1, <1>3 DEF SetType

\* The spec a request handles next.
LEMMA CurrentType ==
  ASSUME Shape, Kinds, NEW r \in Request, pc[r] = "specs", at[r] < Len(op[r].specs)
  PROVE  /\ op[r].kind = "version" /\ op[r].specs \in Seq(ComponentUpdateSpec)
         /\ at[r] + 1 \in 1 .. Len(op[r].specs) /\ at[r] \in Nat
         /\ Current(r) = op[r].specs[at[r] + 1]
         /\ Current(r).action \in {"update", "add", "remove"}
         /\ Current(r).name \in Name /\ SetType(Current(r).set)
<1>1. op[r].kind = "version" /\ at[r] \in Nat
  BY DEF Kinds, Updating, Shape
<1>2. op[r].specs \in Seq(ComponentUpdateSpec)
  BY <1>1, OpTypes
<1>3. at[r] + 1 \in 1 .. Len(op[r].specs)
  BY <1>1, <1>2
<1>4. Current(r) \in ComponentUpdateSpec
  BY <1>2, <1>3 DEF Current
<1>5. QED
  BY <1>1, <1>2, <1>3, <1>4, SpecType DEF Current

\* A step of one request leaves what belongs to the others alone.
LEMMA OthersStay ==
  ASSUME Shape, NEW r \in Request, StepOfRequest(r)
  PROVE  /\ op' = op
         /\ \A s \in Request \ {r} :
              /\ pc'[s] = pc[s] /\ at'[s] = at[s] /\ map'[s] = map[s]
              /\ added'[s] = added[s] /\ removed'[s] = removed[s]
              /\ read'[s] = read[s] /\ task'[s] = task[s] /\ built'[s] = built[s]
              /\ applied'[s] = applied[s]
<1> USE DEF Shape, local, Goto, Succeeds, Fails, Handled
<1>1. CASE FindByID(r) \/ CreateApplications(r)
  BY <1>1 DEF FindByID, CreateApplications, Replace
<1>2. CASE FindByAppID(r) \/ SkipSpec(r)
  BY <1>2 DEF FindByAppID, SkipSpec
<1>3. CASE updateComponent(r)
  BY <1>3 DEF updateComponent
<1>4. CASE addComponent(r)
  BY <1>4 DEF addComponent, addComponentFails
<1>5. CASE removeComponent(r)
  BY <1>5 DEF removeComponent, Forget
<1>6. CASE UpdateVersion(r) \/ ReadSteps(r) \/ syncWorkflowSteps(r) \/ execWorkflow(r)
  BY <1>6 DEF UpdateVersion, ReadSteps, syncWorkflowSteps, execWorkflow
<1>7. CASE validateWorkflowComponentRefs(r) \/ UpdateApplicationWorkflow(r)
           \/ DeleteApplication(r)
  BY <1>7 DEF validateWorkflowComponentRefs, UpdateApplicationWorkflow, DeleteApplication
<1>8. CASE GetWorkflow(r) \/ GenerateJobTasks(r)
  BY <1>8 DEF GetWorkflow, GenerateJobTasks
<1>9. QED
  BY <1>1, <1>2, <1>3, <1>4, <1>5, <1>6, <1>7, <1>8 DEF StepOfRequest, RequestStep

\* Failures are counted, and a request is undisturbed from its arrival or not at all.
LEMMA FailuresAndQuiet ==
  ASSUME Shape, NEW r \in Request, StepOfRequest(r)
  PROVE  /\ errors' \in 0 .. MaxErrors
         /\ quiet' \subseteq Request
         /\ \A s \in quiet' : s \in quiet \/ (s = r /\ pc[r] = "idle")
         /\ trouble => trouble'
         /\ r \in quiet' /\ pc[r] # "idle" => Succeeds \/ UNCHANGED <<errors, quiet>>
<1> USE DEF Shape, Succeeds, Fails
<1>0. MaxErrors \in Nat
  BY ServiceAssumption
<1>1. CASE FindByID(r)
  <2>1. trouble => trouble'
    BY <1>1, Zenon DEF FindByID
  <2>2. quiet' \subseteq quiet \cup {r} /\ pc[r] = "idle"
    BY <1>1 DEF FindByID
  <2>3. errors' = errors \/ (errors < MaxErrors /\ errors' = errors + 1)
    BY <1>1, Zenon DEF FindByID
  <2>4. errors' \in 0 .. MaxErrors
    BY <1>0, <2>3
  <2>5. quiet' \subseteq Request
    BY <2>2
  <2>6. QED
    BY <2>1, <2>2, <2>4, <2>5
<1>2. CASE CreateApplications(r)
  BY <1>0, <1>2 DEF CreateApplications
<1>3. CASE FindByAppID(r) \/ SkipSpec(r)
  BY <1>0, <1>3 DEF FindByAppID, SkipSpec
<1>4. CASE updateComponent(r)
  BY <1>0, <1>4 DEF updateComponent
<1>5. CASE addComponent(r)
  <2> HIDE DEF Succeeds, Fails
  <2>1. pc[r] = "specs" /\ (Succeeds \/ Fails(r))
    BY <1>5, Zenon DEF addComponent
  <2>2. QED
    BY <1>0, <2>1 DEF Succeeds, Fails
<1>6. CASE removeComponent(r)
  <2> HIDE DEF Succeeds, Fails
  <2>1. pc[r] = "specs" /\ (Succeeds \/ Fails(r))
    BY <1>6, Zenon DEF removeComponent
  <2>2. QED
    BY <1>0, <2>1 DEF Succeeds, Fails
<1>7. CASE UpdateVersion(r) \/ ReadSteps(r) \/ syncWorkflowSteps(r) \/ execWorkflow(r)
  BY <1>0, <1>7 DEF UpdateVersion, ReadSteps, syncWorkflowSteps, execWorkflow
<1>8. CASE validateWorkflowComponentRefs(r) \/ UpdateApplicationWorkflow(r)
           \/ DeleteApplication(r)
  BY <1>0, <1>8
  DEF validateWorkflowComponentRefs, UpdateApplicationWorkflow, DeleteApplication
<1>9. CASE GetWorkflow(r) \/ GenerateJobTasks(r)
  BY <1>9 DEF GetWorkflow, GenerateJobTasks
<1>10. QED
  BY <1>1, <1>2, <1>3, <1>4, <1>5, <1>6, <1>7, <1>8, <1>9 DEF StepOfRequest, RequestStep

\* A map of UpdateVersion has rows for some of the names.
LEMMA PartialRowsType ==
  /\ \A f \in PartialRows : DOMAIN f \subseteq Name /\ \A n \in DOMAIN f : f[n] \in Row
  /\ \A N \in SUBSET Name : \A f \in [N -> Row] : f \in PartialRows
BY DEF PartialRows

\* The row a request is about to put or to delete.
LEMMA MappedRow ==
  ASSUME IInv, NEW r \in Request, NEW n \in DOMAIN map[r]
  PROVE  /\ map[r] \in PartialRows /\ n \in Name
         /\ map[r][n] \in Row /\ map[r][n].id \in Nat /\ map[r][n].id <= lastId
         /\ map[r][n].name = n
<1>1. map[r] \in PartialRows
  BY DEF IInv, Shape
<1>2. n \in Name /\ map[r][n] \in Row
  BY <1>1, PartialRowsType
<1>3. QED
  BY <1>1, <1>2 DEF IInv, Ids, Mapped, Row

\* The rows, their ids and the twins change in four kinds of steps.
LEMMA RowsStay ==
  ASSUME NEW r \in Request, StepOfRequest(r),
         ~CreateApplications(r), ~updateComponent(r), ~addComponent(r), ~removeComponent(r)
  PROVE  UNCHANGED <<rows, lastId, twins>>
BY Zenon DEF StepOfRequest, RequestStep, FindByID, FindByAppID, SkipSpec, UpdateVersion,
   ReadSteps, syncWorkflowSteps, execWorkflow, validateWorkflowComponentRefs,
   UpdateApplicationWorkflow, DeleteApplication, GetWorkflow, GenerateJobTasks

\* No request touches what the status syncs have listed.
LEMMA SyncsStay ==
  ASSUME NEW r \in Request, StepOfRequest(r)
  PROVE  UNCHANGED <<listed, syncs, reverted>>
<1>1. UNCHANGED syncing
  BY Zenon DEF StepOfRequest, RequestStep, FindByID, CreateApplications, FindByAppID, SkipSpec,
     updateComponent, addComponent, removeComponent, UpdateVersion, ReadSteps,
     syncWorkflowSteps, execWorkflow, validateWorkflowComponentRefs,
     UpdateApplicationWorkflow, DeleteApplication, GetWorkflow, GenerateJobTasks
<1>2. QED
  BY <1>1 DEF syncing

\* A refresh replaces the rows and the steps of the default workflow, or does nothing.
LEMMA RefreshRows ==
  ASSUME IInv, NEW r \in Request, CreateApplications(r), ~UNCHANGED <<rows, lastId, wfs, twins>>
  PROVE  /\ op[r].names \in Seq(Name)
         /\ rows' \in Seq(Row) /\ Ordered(rows')
         /\ lastId' \in Nat /\ lastId <= lastId'
         /\ \A x \in ToSet(rows') : x.id > lastId /\ x.id <= lastId'
         /\ Names(ToSet(rows')) = ToSet(op[r].names)
<1>1. Replace(r) /\ pc[r] = "refresh"
  BY Zenon DEF CreateApplications
<1>2. op[r].names \in Seq(Name) /\ op[r].conf \in Conf /\ lastId \in Nat
  BY <1>1, OpTypes DEF IInv, Kinds, Shape
<1>3. /\ rows' = NewRows(op[r].names, op[r].conf, lastId)
      /\ lastId' = lastId + Len(op[r].names)
  BY <1>1 DEF Replace
<1>4. Len(op[r].names) \in Nat
  BY <1>2
<1>5. /\ rows' \in Seq(Row) /\ Ordered(rows')
      /\ \A x \in ToSet(rows') : x.id > lastId /\ x.id <= lastId'
      /\ Names(ToSet(rows')) = ToSet(op[r].names)
  BY <1>2, <1>3, NewRowsMade
<1>6. QED
  BY <1>2, <1>3, <1>4, <1>5

\* A row with what is set.
LEMMA MergedRow ==
  ASSUME NEW row \in Row, NEW set, SetType(set)
  PROVE  /\ Merged(row, set) \in Row
         /\ Merged(row, set).id = row.id /\ Merged(row, set).name = row.name
         /\ \A f \in Field : Merged(row, set).conf[f] =
              IF f \in DOMAIN set /\ (f = "env" => row.conf[f] # Zero) THEN set[f]
              ELSE row.conf[f]
<1> DEFINE new == [f \in Field |->
              IF f \in DOMAIN set /\ (f = "env" => row.conf[f] # Zero) THEN set[f]
              ELSE row.conf[f]]
<1>1. row.id \in Nat \ {0} /\ row.name \in Name /\ row.conf \in Conf
  BY DEF Row
<1>2. new \in Conf
  BY <1>1 DEF Conf, SetType
<1>3. Merged(row, set) = [row EXCEPT !.conf = new]
  BY DEF Merged
<1> HIDE DEF new
<1>4. [row EXCEPT !.conf = new] = [id |-> row.id, name |-> row.name, conf |-> new]
  BY DEF Row
<1>5. Merged(row, set) \in Row /\ Merged(row, set).conf = new
  BY <1>1, <1>2, <1>3, <1>4 DEF Row
<1>6. Merged(row, set).id = row.id /\ Merged(row, set).name = row.name
  BY <1>3, <1>4
<1>7. QED
  BY <1>5, <1>6 DEF new

\* The row an update writes.
Updated(r) == Merged(map[r][Current(r).name], Current(r).set)

\* What the rows are with it.
WithUpdated(r) ==
  {IF x.id = Updated(r).id THEN Written(x, Updated(r)) ELSE x : x \in ToSet(rows)}

\* An update puts the row of its map, or nothing.
LEMMA UpdateRows ==
  ASSUME IInv, NEW r \in Request, updateComponent(r)
  PROVE  /\ UNCHANGED <<lastId, twins>>
         /\ Updated(r) \in Row /\ Updated(r).name = Current(r).name
         /\ Updated(r).id = map[r][Current(r).name].id
         /\ \A x \in ToSet(rows) : x \in Row
         /\ \A x \in ToSet(rows) : x.id = Updated(r).id => x.name = Current(r).name
         /\ rows' \in Seq(Row) /\ Ordered(rows')
         /\ rows' = rows \/ ToSet(rows') = WithUpdated(r)
         /\ r \in quiet' =>
              \/ ToSet(rows') = WithUpdated(r)
              \/ rows' = rows /\ ~Differs(map[r][Current(r).name], Current(r).set)
<1> DEFINE old == map[r][Current(r).name]
<1>1. /\ pc[r] = "specs" /\ at[r] < Len(op[r].specs)
      /\ Current(r).name \in DOMAIN map[r]
      /\ UNCHANGED <<lastId, twins>>
  BY DEF updateComponent
<1>2. /\ old \in Row /\ old.name = Current(r).name
      /\ SetType(Current(r).set)
  BY <1>1, MappedRow, CurrentType DEF IInv
<1>3. /\ Updated(r) \in Row /\ Updated(r).name = Current(r).name
      /\ Updated(r).id = old.id
  BY <1>2, MergedRow DEF Updated
<1>4. rows \in Seq(Row) /\ Ordered(rows)
  BY DEF IInv, Shape, Ids
<1>5. /\ Put(rows, Updated(r)) \in Seq(Row) /\ Ordered(Put(rows, Updated(r)))
      /\ ToSet(Put(rows, Updated(r))) = WithUpdated(r)
  BY <1>3, <1>4, PutRows DEF WithUpdated
<1>6. rows' = rows \/ rows' = Put(rows, Updated(r))
  BY Zenon DEF updateComponent, Updated
<1>7. r \in quiet' => \/ rows' = Put(rows, Updated(r))
                      \/ rows' = rows /\ ~Differs(old, Current(r).set)
  <2>1. Fails(r) => r \notin quiet'
    BY DEF Fails
  <2>2. \/ rows' = Put(rows, Updated(r)) \/ Fails(r)
        \/ rows' = rows /\ ~Differs(old, Current(r).set)
    BY Zenon DEF updateComponent, Updated
  <2>3. QED
    BY <2>1, <2>2, Zenon
<1>8. /\ \A x \in ToSet(rows) : x \in Row
      /\ \A x \in ToSet(rows) : x.id = Updated(r).id => x.name = Current(r).name
  BY <1>1, <1>3, <1>4 DEF IInv, Mapped, ToSet
<1>9. QED
  BY <1>1, <1>3, <1>4, <1>5, <1>6, <1>7, <1>8, Zenon

\* A row keeps its name in an update, and every row its id.
LEMMA UpdateKeeps ==
  ASSUME IInv, NEW r \in Request, updateComponent(r)
  PROVE  /\ \A x \in ToSet(rows') : \E y \in ToSet(rows) : y.id = x.id /\ y.name = x.name
         /\ \A y \in ToSet(rows) : \E x \in ToSet(rows') : y.id = x.id /\ y.name = x.name
<1>1. \A y \in ToSet(rows) : y.id = Updated(r).id =>
        /\ Written(y, Updated(r)).id = y.id /\ Written(y, Updated(r)).name = y.name
  BY UpdateRows, WrittenRow
<1>2. CASE rows' = rows
  BY <1>2
<1>3. CASE ToSet(rows') = WithUpdated(r)
  BY <1>1, <1>3 DEF WithUpdated
<1>4. QED
  BY <1>2, <1>3, UpdateRows

\* The row an addition makes.
Added(r) ==
  [id |-> lastId + 1, name |-> Current(r).name, conf |-> NewConf(Current(r).set)]

\* An addition appends a row with the next id, or nothing.
LEMMA AddRows ==
  ASSUME IInv, NEW r \in Request, addComponent(r)
  PROVE  /\ Current(r).name \in Name /\ Current(r).name \notin DOMAIN map[r]
         /\ Added(r).id = lastId + 1 /\ Added(r).name = Current(r).name
         /\ rows' \in Seq(Row) /\ Ordered(rows')
         /\ lastId' \in Nat /\ lastId <= lastId'
         /\ \/ UNCHANGED <<rows, lastId>>
            \/ lastId' = lastId + 1 /\ ToSet(rows') = ToSet(rows) \cup {Added(r)}
         /\ r \in quiet' => ToSet(rows') = ToSet(rows) \cup {Added(r)}
         /\ ~twins' => ~twins /\ Current(r).name \notin Names(ToSet(rows))
<1>1. /\ pc[r] = "specs" /\ at[r] < Len(op[r].specs)
      /\ Current(r).name \notin DOMAIN map[r]
  BY DEF addComponent
<1>2. Current(r).name \in Name /\ NewConf(Current(r).set) \in Conf
  <2>1. Current(r).name \in Name /\ SetType(Current(r).set)
    BY <1>1, CurrentType DEF IInv
  <2>2. QED
    BY <2>1, ServiceAssumption DEF NewConf, Conf, SetType
<1>3. rows \in Seq(Row) /\ Ordered(rows) /\ lastId \in Nat
  BY DEF IInv, Shape, Ids
<1>4. Added(r) \in Row /\ Added(r).id = lastId + 1 /\ Added(r).name = Current(r).name
  BY <1>2, <1>3 DEF Added, Row
<1>5. \A x \in ToSet(rows) : x.id < Added(r).id
  <2>1. \A x \in ToSet(rows) : x \in Row /\ x.id <= lastId
    BY <1>3 DEF IInv, Ids, ToSet
  <2>2. \A x \in Row : x.id \in Nat
    BY DEF Row
  <2>3. QED
    BY <1>3, <1>4, <2>1, <2>2
<1>6. /\ Append(rows, Added(r)) \in Seq(Row) /\ Ordered(Append(rows, Added(r)))
      /\ ToSet(Append(rows, Added(r))) = ToSet(rows) \cup {Added(r)}
  BY <1>3, <1>4, <1>5, AppendRow
<1>7. \/ rows' = Append(rows, Added(r)) /\ lastId' = lastId + 1
      \/ UNCHANGED <<rows, lastId>>
  BY DEF addComponent, Added
<1>8. r \in quiet' => rows' = Append(rows, Added(r))
  BY DEF addComponent, Added, Fails
<1>9. ~twins' => ~twins /\ Current(r).name \notin Names(ToSet(rows))
  BY Zenon DEF addComponent
<1>10. lastId' \in Nat /\ lastId <= lastId'
  BY <1>3, <1>7
<1>11. rows' \in Seq(Row) /\ Ordered(rows')
  BY <1>3, <1>6, <1>7
<1>12. QED
  BY <1>1, <1>2, <1>4, <1>6, <1>7, <1>8, <1>9, <1>10, <1>11, Zenon

\* A removal deletes the row of the map, or nothing.
LEMMA RemoveRows ==
  ASSUME IInv, NEW r \in Request, removeComponent(r)
  PROVE  /\ UNCHANGED <<lastId, twins>>
         /\ Current(r).name \in DOMAIN map[r]
         /\ rows' \in Seq(Row) /\ Ordered(rows')
         /\ \/ rows' = rows
            \/ ToSet(rows') = {x \in ToSet(rows) : x.id # map[r][Current(r).name].id}
         /\ r \in quiet' =>
              /\ ToSet(rows') = {x \in ToSet(rows) : x.id # map[r][Current(r).name].id}
              /\ pc'[r] = "specs"
<1> DEFINE row == map[r][Current(r).name]
<1>1. /\ pc[r] = "specs" /\ Current(r).name \in DOMAIN map[r]
      /\ UNCHANGED <<lastId, twins>>
  BY DEF removeComponent
<1>2. row \in Row
  BY <1>1, MappedRow
<1>3. rows \in Seq(Row) /\ Ordered(rows)
  BY DEF IInv, Shape, Ids
<1>4. ASSUME \E i \in DOMAIN rows : rows[i].id = row.id
      PROVE  /\ Delete(rows, row) \in Seq(Row) /\ Ordered(Delete(rows, row))
             /\ ToSet(Delete(rows, row)) = {x \in ToSet(rows) : x.id # row.id}
  BY <1>2, <1>3, <1>4, DeleteRow
<1>5. \/ rows' = rows
      \/ (\E i \in DOMAIN rows : rows[i].id = row.id) /\ rows' = Delete(rows, row)
  BY DEF removeComponent
<1>6. ASSUME r \in quiet'
      PROVE  /\ \E i \in DOMAIN rows : rows[i].id = row.id
             /\ rows' = Delete(rows, row) /\ pc'[r] = "specs"
  <2>1. r \in quiet
    BY <1>1, <1>6, FailuresAndQuiet DEF IInv, StepOfRequest, RequestStep
  <2>2. \E i \in DOMAIN rows : rows[i].id = row.id
    BY <1>1, <2>1 DEF IInv, Undisturbed, ToSet
  <2>3. QED
    BY <1>1, <1>6, <2>2 DEF removeComponent, Fails
<1>7. QED
  BY <1>1, <1>3, <1>4, <1>5, <1>6

\* What a list of workflows keeps when it is written: no workflow vanishes, and the ids
\* tell them apart.
Kept(ws) ==
  /\ ws \in Seq(Workflow) /\ ws # <<>>
  /\ \A i \in DOMAIN ws : ws[i].id <= Len(ws)
  /\ \A i, k \in DOMAIN ws : ws[i].id = ws[k].id => i = k
  /\ \A w \in ToSet(wfs) : \E v \in ToSet(ws) : v.id = w.id

\* A list of as many workflows with the same ids is as good.
LEMMA SameIds ==
  ASSUME IInv, NEW ws, DOMAIN ws = DOMAIN wfs, ws \in [DOMAIN wfs -> Workflow],
         \A i \in DOMAIN wfs : ws[i].id = wfs[i].id
  PROVE  Kept(ws)
<1>1. /\ wfs \in Seq(Workflow) /\ wfs # <<>>
      /\ \A i \in DOMAIN wfs : wfs[i].id <= Len(wfs)
      /\ \A i, k \in DOMAIN wfs : wfs[i].id = wfs[k].id => i = k
  BY DEF IInv, Shape, Ids
<1>2. DOMAIN wfs = 1 .. Len(wfs) /\ Len(wfs) \in Nat /\ Len(wfs) # 0
  BY <1>1
<1>3. ws \in Seq(Workflow)
  BY <1>2, SeqDef
<1>4. Len(ws) = Len(wfs) /\ ws # <<>>
  BY <1>2, <1>3
<1>5. QED
  BY <1>1, <1>2, <1>3, <1>4 DEF Kept, ToSet

\* Put on a workflow.
LEMMA PutWorkflowKeeps ==
  ASSUME IInv, NEW w \in Workflow
  PROVE  /\ Kept(PutWorkflow(w))
         /\ PutWorkflow(w)[1] = IF wfs[1].id = w.id THEN w ELSE wfs[1]
<1>1. wfs \in Seq(Workflow) /\ wfs # <<>>
  BY DEF IInv, Shape
<1>2. 1 \in DOMAIN wfs /\ \A i \in DOMAIN wfs : wfs[i] \in Workflow
  BY <1>1
<1>3. PutWorkflow(w) \in [DOMAIN wfs -> Workflow]
  BY <1>2 DEF PutWorkflow
<1>4. \A i \in DOMAIN wfs : PutWorkflow(w)[i].id = wfs[i].id
  BY DEF PutWorkflow
<1>5. QED
  BY <1>2, <1>3, <1>4, SameIds DEF PutWorkflow

\* The default steps of components name them.
LEMMA DefaultStepsType ==
  ASSUME NEW names \in Seq(Name)
  PROVE  /\ DefaultSteps(names) \in SUBSET Step
         /\ Names(DefaultSteps(names)) = ToSet(names)
         /\ \A n \in ToSet(names) : \E s \in DefaultSteps(names) : n \in ToSet(s.names)
<1>1. ASSUME NEW n \in ToSet(names)
      PROVE  /\ StepOf(n) \in Step /\ StepOf(n).name = n
             /\ StepOf(n).names = <<n>> /\ n \in ToSet(<<n>>)
  <2>1. n \in Name
    BY DEF ToSet
  <2>2. <<n>> \in Seq(Name)
    BY <2>1
  <2>3. 1 \in DOMAIN <<n>> /\ <<n>>[1] = n
    OBVIOUS
  <2>4. QED
    BY <2>1, <2>2, <2>3 DEF StepOf, Step, ToSet
<1>2. DefaultSteps(names) \in SUBSET Step
  BY <1>1 DEF DefaultSteps
<1>3. Names(DefaultSteps(names)) = {StepOf(n).name : n \in ToSet(names)}
  BY DEF DefaultSteps, Names
<1>4. {StepOf(n).name : n \in ToSet(names)} = ToSet(names)
  BY <1>1
<1>5. \A n \in ToSet(names) : \E s \in DefaultSteps(names) : n \in ToSet(s.names)
  BY <1>1 DEF DefaultSteps
<1>6. QED
  BY <1>2, <1>3, <1>4, <1>5

\* The workflows a refresh leaves.
LEMMA RefreshKeeps ==
  ASSUME IInv, NEW r \in Request, pc[r] = "refresh", Replace(r)
  PROVE  /\ Kept(wfs')
         /\ wfs[1].id = 1 =>
              wfs'[1].id = 1 /\ wfs'[1].steps = DefaultSteps(op[r].names)
<1>1. wfs \in Seq(Workflow) /\ wfs # <<>> /\ op[r].names \in Seq(Name)
  BY OpTypes DEF IInv, Shape, Kinds
<1>2. 1 \in DOMAIN wfs /\ \A i \in DOMAIN wfs : wfs[i] \in Workflow
  BY <1>1
<1>3. DefaultSteps(op[r].names) \in SUBSET Step
  BY <1>1, DefaultStepsType
<1>4. wfs' = [i \in DOMAIN wfs |->
               IF wfs[i].id = 1 THEN [wfs[i] EXCEPT !.steps = DefaultSteps(op[r].names)]
               ELSE wfs[i]]
  BY DEF Replace
<1>5. \A w \in Workflow :
        /\ [w EXCEPT !.steps = DefaultSteps(op[r].names)] \in Workflow
        /\ [w EXCEPT !.steps = DefaultSteps(op[r].names)].id = w.id
        /\ [w EXCEPT !.steps = DefaultSteps(op[r].names)].steps = DefaultSteps(op[r].names)
  BY <1>3 DEF Workflow
<1>6. wfs' \in [DOMAIN wfs -> Workflow] /\ \A i \in DOMAIN wfs : wfs'[i].id = wfs[i].id
  BY <1>2, <1>4, <1>5
<1>7. QED
  BY <1>2, <1>4, <1>5, <1>6, SameIds

\* A new workflow comes first or last, with an id of its own.
LEMMA NewWorkflowKeeps ==
  ASSUME IInv, NEW w \in Workflow, w.id = Len(wfs) + 1
  PROVE  Kept(<<w>> \o wfs) /\ Kept(Append(wfs, w))
<1>1. /\ wfs \in Seq(Workflow) /\ wfs # <<>>
      /\ \A i \in DOMAIN wfs : wfs[i].id <= Len(wfs)
      /\ \A i, k \in DOMAIN wfs : wfs[i].id = wfs[k].id => i = k
  BY DEF IInv, Shape, Ids
<1>2. /\ DOMAIN wfs = 1 .. Len(wfs) /\ Len(wfs) \in Nat
      /\ \A i \in 1 .. Len(wfs) : wfs[i] \in Workflow /\ wfs[i].id \in Nat
  <2>1. \A v \in Workflow : v.id \in Nat
    BY DEF Workflow
  <2>2. QED
    BY <1>1, <2>1
<1>3. Kept(Append(wfs, w))
  <2> DEFINE ws == Append(wfs, w)
  <2>1. /\ ws \in Seq(Workflow) /\ ws # <<>> /\ Len(ws) = Len(wfs) + 1
        /\ DOMAIN ws = 1 .. Len(wfs) + 1
        /\ \A i \in 1 .. Len(wfs) : ws[i] = wfs[i]
        /\ ws[Len(wfs) + 1] = w
    BY <1>1
  <2>2. \A i \in DOMAIN ws : ws[i].id <= Len(ws)
    BY <1>1, <1>2, <2>1
  <2>3. \A i, k \in DOMAIN ws : ws[i].id = ws[k].id => i = k
    BY <1>1, <1>2, <2>1
  <2>4. \A v \in ToSet(wfs) : v \in ToSet(ws)
    BY <1>2, <2>1 DEF ToSet
  <2>5. QED
    BY <2>1, <2>2, <2>3, <2>4 DEF Kept
<1>4. Kept(<<w>> \o wfs)
  <2> DEFINE ws == <<w>> \o wfs
  <2>0. <<w>> \in Seq(Workflow) /\ Len(<<w>>) = 1 /\ <<w>>[1] = w
    OBVIOUS
  <2>1. /\ ws \in Seq(Workflow) /\ Len(ws) = 1 + Len(wfs)
        /\ \A i \in 1 .. 1 + Len(wfs) : ws[i] = IF i <= 1 THEN <<w>>[i] ELSE wfs[i - 1]
    BY <1>1, <2>0, ConcatProperties
  <2> HIDE DEF ws
  <2>2. /\ ws # <<>> /\ DOMAIN ws = 1 .. Len(wfs) + 1
        /\ ws[1] = w
        /\ \A i \in 1 .. Len(wfs) : ws[i + 1] = wfs[i]
    BY <1>2, <2>0, <2>1
  <2>3. \A i \in DOMAIN ws : i = 1 \/ (i - 1 \in 1 .. Len(wfs) /\ ws[i] = wfs[i - 1])
    BY <1>2, <2>1, <2>2
  <2>4. \A i \in DOMAIN ws : ws[i].id <= Len(ws)
    <3>1. ws[1].id <= Len(ws)
      BY <1>2, <2>1, <2>2
    <3>2. \A i \in 1 .. Len(wfs) : wfs[i].id <= Len(ws)
      BY <1>1, <1>2, <2>1
    <3>3. QED
      BY <2>3, <3>1, <3>2
  <2>5. \A i, k \in DOMAIN ws : ws[i].id = ws[k].id => i = k
    <3> SUFFICES ASSUME NEW i \in DOMAIN ws, NEW k \in DOMAIN ws, ws[i].id = ws[k].id
                 PROVE  i = k
      OBVIOUS
    <3>1. \A m \in 1 .. Len(wfs) : wfs[m].id # w.id
      BY <1>1, <1>2
    <3>2. CASE i = 1 \/ k = 1
      BY <2>2, <2>3, <3>1, <3>2
    <3>3. CASE i # 1 /\ k # 1
      <4>1. i - 1 = k - 1
        BY <1>1, <1>2, <2>3, <3>3
      <4>2. i \in Int /\ k \in Int
        BY <1>2, <2>2
      <4>3. QED
        BY <4>1, <4>2
    <3>4. QED
      BY <3>2, <3>3
  <2>6. \A v \in ToSet(wfs) : v \in ToSet(ws)
    <3> SUFFICES ASSUME NEW i \in 1 .. Len(wfs)
                 PROVE  wfs[i] \in ToSet(ws)
      BY <1>2 DEF ToSet
    <3>1. i + 1 \in DOMAIN ws
      BY <1>2, <2>2
    <3>2. QED
      BY <2>2, <3>1 DEF ToSet
  <2>7. QED
    BY <2>1, <2>2, <2>4, <2>5, <2>6 DEF Kept, ws
<1>5. QED
  BY <1>3, <1>4

\* The workflow syncWorkflowSteps writes.
SyncedWorkflow(r) == [read[r] EXCEPT !.steps = SyncedSteps(@, removed[r], added[r])]

\* It has the id it was read with, and no step of a removed component.
LEMMA SyncedWorkflowType ==
  ASSUME IInv, NEW r \in Request, pc[r] = "write"
  PROVE  /\ SyncedWorkflow(r) \in Workflow /\ SyncedWorkflow(r).id = read[r].id
         /\ SyncedWorkflow(r).steps = {s \in read[r].steps : s.name \notin ToSet(removed[r])}
                                      \cup DefaultSteps(added[r])
<1>1. read[r] \in Workflow /\ added[r] \in Seq(Name)
  BY DEF IInv, Readings, Shape
<1>2. SyncedSteps(read[r].steps, removed[r], added[r]) \in SUBSET Step
  BY <1>1, DefaultStepsType DEF SyncedSteps, Workflow
<1>3. QED
  BY <1>1, <1>2 DEF SyncedWorkflow, Workflow, SyncedSteps

\* The workflow a user sets.
LEMMA UserWorkflow ==
  ASSUME IInv, NEW r \in Request, pc[r] = "put"
  PROVE  /\ [id |-> Len(wfs) + 1, steps |-> op[r].steps] \in Workflow
         /\ [id |-> 1, steps |-> op[r].steps] \in Workflow
<1>1. op[r].steps \subseteq Step /\ wfs \in Seq(Workflow)
  BY OpTypes DEF IInv, Kinds, Shape
<1>2. Len(wfs) + 1 \in Nat
  BY <1>1
<1>3. QED
  BY <1>1, <1>2 DEF Workflow

\* No step loses a workflow or gives two of them one id.
LEMMA WorkflowsKept ==
  ASSUME IInv, NEW r \in Request, StepOfRequest(r)
  PROVE  Kept(wfs')
<1>0. Kept(wfs)
  BY DEF IInv, Shape, Ids, Kept
<1>1. CASE CreateApplications(r)
  <2>1. pc[r] = "refresh" /\ (Replace(r) \/ wfs' = wfs)
    BY <1>1, Zenon DEF CreateApplications
  <2>2. QED
    BY <1>0, <2>1, RefreshKeeps
<1>2. CASE syncWorkflowSteps(r)
  <2>1. pc[r] = "write" /\ (wfs' = PutWorkflow(SyncedWorkflow(r)) \/ wfs' = wfs)
    BY <1>2 DEF syncWorkflowSteps, SyncedWorkflow
  <2>2. QED
    BY <1>0, <2>1, SyncedWorkflowType, PutWorkflowKeeps
<1>3. CASE UpdateApplicationWorkflow(r)
  <2>1. pc[r] = "put"
    BY <1>3 DEF UpdateApplicationWorkflow
  <2>2. \/ wfs' = wfs
        \/ wfs' = <<[id |-> Len(wfs) + 1, steps |-> op[r].steps]>> \o wfs
        \/ wfs' = Append(wfs, [id |-> Len(wfs) + 1, steps |-> op[r].steps])
        \/ wfs' = PutWorkflow([id |-> 1, steps |-> op[r].steps])
    BY <1>3 DEF UpdateApplicationWorkflow
  <2>3. QED
    BY <1>0, <2>1, <2>2, UserWorkflow, NewWorkflowKeeps, PutWorkflowKeeps
<1>4. CASE ~CreateApplications(r) /\ ~syncWorkflowSteps(r) /\ ~UpdateApplicationWorkflow(r)
  <2>1. wfs' = wfs
    BY <1>4, Zenon DEF StepOfRequest, RequestStep, FindByID, FindByAppID, SkipSpec,
       updateComponent, addComponent, removeComponent, UpdateVersion, ReadSteps, execWorkflow,
       validateWorkflowComponentRefs, DeleteApplication, GetWorkflow, GenerateJobTasks
  <2>2. QED
    BY <1>0, <2>1
<1>5. QED
  BY <1>1, <1>2, <1>3, <1>4

-----------------------------------------------------------------------------
(***************************************************************************)
(* Every step keeps the types.                                             *)
(***************************************************************************)
\* The rows and the ids given so far.
LEMMA RowsKept ==
  ASSUME IInv, NEW r \in Request, StepOfRequest(r)
  PROVE  /\ lastId' \in Nat /\ lastId <= lastId'
         /\ rows' \in Seq(Row) /\ Ordered(rows')
         /\ \A x \in ToSet(rows') : x.id <= lastId'
<1>0. /\ lastId \in Nat /\ rows \in Seq(Row) /\ Ordered(rows)
      /\ \A x \in ToSet(rows) : x \in Row /\ x.id \in Nat /\ x.id <= lastId
  <2>1. \A x \in Row : x.id \in Nat
    BY DEF Row
  <2>2. QED
    BY <2>1 DEF IInv, Shape, Ids, ToSet
<1>1. CASE CreateApplications(r)
  BY <1>0, <1>1, RefreshRows
<1>2. CASE updateComponent(r)
  BY <1>0, <1>2, UpdateRows, UpdateKeeps
<1>3. CASE addComponent(r)
  <2>1. Added(r).id <= lastId + 1
    BY <1>0, <1>3, AddRows
  <2>2. QED
    BY <1>0, <1>3, <2>1, AddRows
<1>4. CASE removeComponent(r)
  BY <1>0, <1>4, RemoveRows
<1>5. CASE UNCHANGED <<rows, lastId>>
  BY <1>0, <1>5
<1>6. QED
  BY <1>1, <1>2, <1>3, <1>4, <1>5, RowsStay

\* Where the requests stand, and how far they are.
LEMMA PlacesKept ==
  ASSUME IInv, NEW r \in Request, StepOfRequest(r)
  PROVE  /\ pc' \in [Request -> Label] /\ at' \in [Request -> Nat]
         /\ applied' \in [Request -> SUBSET Nat]
<1>0. /\ pc \in [Request -> Label] /\ at \in [Request -> Nat]
      /\ applied \in [Request -> SUBSET Nat]
  BY DEF IInv, Shape
<1>h. ASSUME /\ at' = at \/ at' = [at EXCEPT ![r] = @ + 1]
             /\ applied' = applied \/ applied' = [applied EXCEPT ![r] = @ \cup {at[r] + 1}]
      PROVE  at' \in [Request -> Nat] /\ applied' \in [Request -> SUBSET Nat]
  BY <1>0, <1>h
<1> USE DEF local, Goto, Handled, Label
<1>1. CASE FindByID(r)
  BY <1>0, <1>1, OpTypes DEF FindByID, IInv
<1>2. CASE CreateApplications(r) \/ FindByAppID(r) \/ SkipSpec(r)
  <2>1. CASE CreateApplications(r)
    BY <1>0, <2>1 DEF CreateApplications
  <2>2. CASE FindByAppID(r)
    BY <1>0, <2>2 DEF FindByAppID
  <2>3. CASE SkipSpec(r)
    BY <1>0, <2>3 DEF SkipSpec
  <2>4. QED
    BY <1>2, <2>1, <2>2, <2>3
<1>3. CASE updateComponent(r)
  <2>1. /\ at' = at \/ at' = [at EXCEPT ![r] = @ + 1]
        /\ applied' = applied \/ applied' = [applied EXCEPT ![r] = @ \cup {at[r] + 1}]
        /\ pc' = pc
    BY <1>3, Zenon DEF updateComponent
  <2>2. QED
    BY <1>0, <1>h, <2>1
<1>4. CASE addComponent(r)
  <2>1. /\ at' = at \/ at' = [at EXCEPT ![r] = @ + 1]
        /\ applied' = applied \/ applied' = [applied EXCEPT ![r] = @ \cup {at[r] + 1}]
        /\ pc' = pc \/ pc' = [pc EXCEPT ![r] = "error"]
    BY <1>4, Zenon DEF addComponent, addComponentFails
  <2>2. QED
    BY <1>0, <1>h, <2>1
<1>5. CASE removeComponent(r)
  <2>1. /\ at' = at \/ at' = [at EXCEPT ![r] = @ + 1]
        /\ applied' = applied \/ applied' = [applied EXCEPT ![r] = @ \cup {at[r] + 1}]
        /\ pc' = pc \/ pc' = [pc EXCEPT ![r] = "error"]
    BY <1>5, Zenon DEF removeComponent
  <2>2. QED
    BY <1>0, <1>h, <2>1
<1>6. CASE UpdateVersion(r) \/ ReadSteps(r) \/ syncWorkflowSteps(r) \/ execWorkflow(r)
  BY <1>0, <1>6
  DEF UpdateVersion, AfterVersion, ReadSteps, syncWorkflowSteps, execWorkflow
<1>7. CASE validateWorkflowComponentRefs(r) \/ UpdateApplicationWorkflow(r)
           \/ DeleteApplication(r)
  BY <1>0, <1>7
  DEF validateWorkflowComponentRefs, UpdateApplicationWorkflow, DeleteApplication
<1>8. CASE GetWorkflow(r) \/ GenerateJobTasks(r)
  BY <1>0, <1>8 DEF GetWorkflow, GenerateJobTasks
<1>9. QED
  BY <1>1, <1>2, <1>3, <1>4, <1>5, <1>6, <1>7, <1>8 DEF StepOfRequest, RequestStep

\* The map changes when it is filled, by an update and by a removal.
LEMMA MapSteps ==
  ASSUME IInv, NEW r \in Request, StepOfRequest(r)
  PROVE  \/ map' = map
         \/ /\ FindByAppID(r)
            /\ map' = [map EXCEPT ![r] = [n \in Names(ToSet(rows)) |-> LastNamed(rows, n)]]
         \/ updateComponent(r) /\ map' = [map EXCEPT ![r][Current(r).name] = Updated(r)]
         \/ /\ removeComponent(r)
            /\ map' = [map EXCEPT ![r] =
                         [n \in DOMAIN map[r] \ {Current(r).name} |-> map[r][n]]]
<1>1. CASE FindByAppID(r)
  BY <1>1, Zenon DEF FindByAppID
<1>2. CASE updateComponent(r)
  BY <1>2 DEF updateComponent, Updated
<1>3. CASE removeComponent(r)
  BY <1>3 DEF removeComponent, Forget
<1>4. CASE ~FindByAppID(r) /\ ~updateComponent(r) /\ ~removeComponent(r)
  BY <1>4, Zenon DEF StepOfRequest, RequestStep, FindByID, CreateApplications, SkipSpec,
     addComponent, UpdateVersion, ReadSteps, syncWorkflowSteps, execWorkflow,
     validateWorkflowComponentRefs, UpdateApplicationWorkflow, DeleteApplication, GetWorkflow,
     GenerateJobTasks, local
<1>5. QED
  BY <1>1, <1>2, <1>3, <1>4

\* The map has the types, and keeps the id and the name of an entry while it has it.
LEMMA MapKept ==
  ASSUME IInv, NEW r \in Request, StepOfRequest(r)
  PROVE  /\ map' \in [Request -> PartialRows]
         /\ \A s \in Request : \A n \in DOMAIN map'[s] :
              \/ /\ n \in DOMAIN map[s]
                 /\ map'[s][n].id = map[s][n].id /\ map'[s][n].name = map[s][n].name
              \/ /\ s = r /\ FindByAppID(r)
                 /\ map'[s][n] \in ToSet(rows) /\ map'[s][n].name = n
<1>0. map \in [Request -> PartialRows] /\ rows \in Seq(Row)
  BY DEF IInv, Shape
<1> DEFINE Entries == \A s \in Request : \A n \in DOMAIN map'[s] :
              \/ /\ n \in DOMAIN map[s]
                 /\ map'[s][n].id = map[s][n].id /\ map'[s][n].name = map[s][n].name
              \/ /\ s = r /\ FindByAppID(r)
                 /\ map'[s][n] \in ToSet(rows) /\ map'[s][n].name = n
<1> SUFFICES map' \in [Request -> PartialRows] /\ Entries
  OBVIOUS
<1>1. CASE map' = map
  BY <1>0, <1>1
<1>2. CASE /\ FindByAppID(r)
           /\ map' = [map EXCEPT ![r] = [n \in Names(ToSet(rows)) |-> LastNamed(rows, n)]]
  <2> DEFINE new == [n \in Names(ToSet(rows)) |-> LastNamed(rows, n)]
  <2>1. \A n \in Names(ToSet(rows)) :
          LastNamed(rows, n) \in ToSet(rows) /\ LastNamed(rows, n).name = n
    BY <1>0, LastIsNamed
  <2>2. \A x \in ToSet(rows) : x \in Row /\ x.name \in Name
    <3>1. \A x \in Row : x.name \in Name
      BY DEF Row
    <3>2. QED
      BY <1>0, <3>1 DEF ToSet
  <2>3. Names(ToSet(rows)) \in SUBSET Name
    BY <2>2 DEF Names
  <2>4. new \in [Names(ToSet(rows)) -> Row]
    BY <2>1, <2>2
  <2>5. new \in PartialRows
    BY <2>3, <2>4, PartialRowsType
  <2>6. map' \in [Request -> PartialRows]
    BY <1>0, <1>2, <2>5
  <2>7. \A s \in Request : map'[s] = IF s = r THEN new ELSE map[s]
    BY <1>0, <1>2
  <2>8. Entries
    BY <1>2, <2>1, <2>7
  <2>9. QED
    BY <2>6, <2>8
<1>3. CASE updateComponent(r) /\ map' = [map EXCEPT ![r][Current(r).name] = Updated(r)]
  <2> DEFINE c == Current(r).name
             new == [map[r] EXCEPT ![c] = Updated(r)]
  <2>1. c \in DOMAIN map[r] /\ map[r] \in PartialRows
    BY <1>0, <1>3 DEF updateComponent
  <2>2. /\ Updated(r) \in Row /\ Updated(r).id = map[r][c].id
        /\ Updated(r).name = map[r][c].name
    BY <1>3, <2>1, UpdateRows, MappedRow
  <2>3. map[r] \in [DOMAIN map[r] -> Row] /\ DOMAIN map[r] \in SUBSET Name
    BY <2>1 DEF PartialRows
  <2>4. new \in [DOMAIN map[r] -> Row]
    BY <2>1, <2>2, <2>3
  <2>5. new \in PartialRows
    BY <2>3, <2>4, PartialRowsType
  <2>6. \A s \in Request : map'[s] = IF s = r THEN new ELSE map[s]
    BY <1>0, <1>3
  <2>7. map' \in [Request -> PartialRows]
    BY <1>0, <1>3, <2>5
  <2>8. \A n \in DOMAIN map[r] :
          new[n].id = map[r][n].id /\ new[n].name = map[r][n].name
    BY <2>1, <2>2, <2>3
  <2>9. DOMAIN new = DOMAIN map[r]
    BY <2>4
  <2> HIDE DEF new
  <2>10. Entries
    BY <2>6, <2>8, <2>9
  <2>11. QED
    BY <2>7, <2>10
<1>4. CASE /\ removeComponent(r)
           /\ map' = [map EXCEPT ![r] =
                        [n \in DOMAIN map[r] \ {Current(r).name} |-> map[r][n]]]
  <2> DEFINE N == DOMAIN map[r] \ {Current(r).name}
             new == [n \in N |-> map[r][n]]
  <2>1. map[r] \in PartialRows
    BY <1>0
  <2>2. N \in SUBSET Name /\ new \in [N -> Row]
    BY <2>1, PartialRowsType
  <2>3. new \in PartialRows
    BY <2>2, PartialRowsType
  <2>4. map' \in [Request -> PartialRows]
    BY <1>0, <1>4, <2>3
  <2>5. \A s \in Request : map'[s] = IF s = r THEN new ELSE map[s]
    BY <1>0, <1>4
  <2>6. ASSUME NEW s \in Request, NEW n \in DOMAIN map'[s]
        PROVE  n \in DOMAIN map[s] /\ map'[s][n] = map[s][n]
    <3>1. CASE s = r
      BY <2>5, <2>6, <3>1
    <3>2. CASE s # r
      BY <2>5, <2>6, <3>2
    <3>3. QED
      BY <3>1, <3>2
  <2>7. Entries
    BY <2>6
  <2>8. QED
    BY <2>4, <2>7
<1>5. QED
  BY <1>1, <1>2, <1>3, <1>4, MapSteps

\* The lists of what was added and removed grow with the steps that do so.
LEMMA ListSteps ==
  ASSUME IInv, NEW r \in Request, StepOfRequest(r)
  PROVE  /\ \/ added' = added
            \/ /\ addComponent(r)
               /\ added' = [added EXCEPT ![r] = Append(added[r], Current(r).name)]
         /\ \/ removed' = removed
            \/ /\ removeComponent(r)
               /\ removed' = [removed EXCEPT ![r] = Append(removed[r], Current(r).name)]
<1>1. CASE addComponent(r)
  BY <1>1 DEF addComponent
<1>2. CASE removeComponent(r)
  BY <1>2 DEF removeComponent
<1>3. CASE ~addComponent(r) /\ ~removeComponent(r)
  BY <1>3, Zenon DEF StepOfRequest, RequestStep, FindByID, CreateApplications, FindByAppID,
     SkipSpec, updateComponent, UpdateVersion, ReadSteps, syncWorkflowSteps, execWorkflow,
     validateWorkflowComponentRefs, UpdateApplicationWorkflow, DeleteApplication, GetWorkflow,
     GenerateJobTasks, local
<1>4. QED
  BY <1>1, <1>2, <1>3

\* The lists have the types, and what they are as sets.
LEMMA ListsKept ==
  ASSUME IInv, NEW r \in Request, StepOfRequest(r)
  PROVE  /\ added' \in [Request -> Seq(Name)] /\ removed' \in [Request -> Seq(Name)]
         /\ \/ added' = added
            \/ /\ addComponent(r)
               /\ ToSet(added'[r]) = ToSet(added[r]) \cup {Current(r).name}
               /\ added'[r] # <<>>
         /\ \/ removed' = removed
            \/ /\ removeComponent(r)
               /\ ToSet(removed'[r]) = ToSet(removed[r]) \cup {Current(r).name}
               /\ removed'[r] # <<>>
<1>0. added \in [Request -> Seq(Name)] /\ removed \in [Request -> Seq(Name)]
  BY DEF IInv, Shape
<1>1. ASSUME NEW l \in Seq(Name), NEW n \in Name
      PROVE  /\ Append(l, n) \in Seq(Name) /\ ToSet(Append(l, n)) = ToSet(l) \cup {n}
             /\ Append(l, n) # <<>>
  <2>1. /\ Append(l, n) \in Seq(Name) /\ Append(l, n) # <<>>
        /\ DOMAIN Append(l, n) = 1 .. Len(l) + 1 /\ DOMAIN l = 1 .. Len(l) /\ Len(l) \in Nat
        /\ \A i \in 1 .. Len(l) : Append(l, n)[i] = l[i]
        /\ Append(l, n)[Len(l) + 1] = n
    OBVIOUS
  <2>2. QED
    BY <2>1 DEF ToSet
<1>2. addComponent(r) \/ removeComponent(r) => Current(r).name \in Name
  <2>1. addComponent(r) \/ removeComponent(r) => pc[r] = "specs" /\ at[r] < Len(op[r].specs)
    BY DEF addComponent, removeComponent
  <2>2. QED
    BY <2>1, CurrentType DEF IInv
<1>3. /\ added' \in [Request -> Seq(Name)]
      /\ \/ added' = added
         \/ /\ addComponent(r)
            /\ ToSet(added'[r]) = ToSet(added[r]) \cup {Current(r).name}
            /\ added'[r] # <<>>
  <2>1. CASE added' = added
    BY <1>0, <2>1
  <2>2. CASE /\ addComponent(r)
             /\ added' = [added EXCEPT ![r] = Append(added[r], Current(r).name)]
    <3>1. added[r] \in Seq(Name) /\ Current(r).name \in Name
      BY <1>0, <1>2, <2>2
    <3>2. /\ Append(added[r], Current(r).name) \in Seq(Name)
          /\ ToSet(Append(added[r], Current(r).name)) = ToSet(added[r]) \cup {Current(r).name}
          /\ Append(added[r], Current(r).name) # <<>>
      BY <1>1, <3>1
    <3>3. added'[r] = Append(added[r], Current(r).name)
      BY <1>0, <2>2
    <3>4. added' \in [Request -> Seq(Name)]
      BY <1>0, <2>2, <3>2
    <3>5. QED
      BY <2>2, <3>2, <3>3, <3>4
  <2>3. QED
    BY <2>1, <2>2, ListSteps
<1>4. /\ removed' \in [Request -> Seq(Name)]
      /\ \/ removed' = removed
         \/ /\ removeComponent(r)
            /\ ToSet(removed'[r]) = ToSet(removed[r]) \cup {Current(r).name}
            /\ removed'[r] # <<>>
  <2>1. CASE removed' = removed
    BY <1>0, <2>1
  <2>2. CASE /\ removeComponent(r)
             /\ removed' = [removed EXCEPT ![r] = Append(removed[r], Current(r).name)]
    <3>1. removed[r] \in Seq(Name) /\ Current(r).name \in Name
      BY <1>0, <1>2, <2>2
    <3>2. /\ Append(removed[r], Current(r).name) \in Seq(Name)
          /\ ToSet(Append(removed[r], Current(r).name)) =
               ToSet(removed[r]) \cup {Current(r).name}
          /\ Append(removed[r], Current(r).name) # <<>>
      BY <1>1, <3>1
    <3>3. removed'[r] = Append(removed[r], Current(r).name)
      BY <1>0, <2>2
    <3>4. removed' \in [Request -> Seq(Name)]
      BY <1>0, <2>2, <3>2
    <3>5. QED
      BY <2>2, <3>2, <3>3, <3>4
  <2>3. QED
    BY <2>1, <2>2, ListSteps
<1>5. QED
  BY <1>3, <1>4

\* What is read, and the tasks, change when the workflows are read and in the worker.
LEMMA TaskSteps ==
  ASSUME IInv, NEW r \in Request, StepOfRequest(r)
  PROVE  \/ UNCHANGED <<read, task, built>>
         \/ /\ ReadSteps(r) /\ pc[r] = "sync" /\ pc' = [pc EXCEPT ![r] = "write"]
            /\ read' = [read EXCEPT ![r] = wfs[1]] /\ UNCHANGED <<wfs, task, built>>
         \/ /\ execWorkflow(r) /\ pc[r] = "exec" /\ pc' = [pc EXCEPT ![r] = "done"]
            /\ task' = [task EXCEPT ![r] = "waiting"]
            /\ read' = [read EXCEPT ![r] = wfs[1]] /\ UNCHANGED <<wfs, built>>
         \/ /\ GetWorkflow(r) /\ task[r] = "waiting" /\ UNCHANGED <<wfs, pc, built>>
            /\ task' = [task EXCEPT ![r] = "reading"]
            /\ \E w \in ToSet(wfs) :
                 w.id = read[r].id /\ read' = [read EXCEPT ![r] = w]
         \/ /\ GenerateJobTasks(r) /\ task[r] = "reading" /\ UNCHANGED <<wfs, pc, read>>
            /\ task' = [task EXCEPT ![r] = "built"]
            /\ built' = [built EXCEPT ![r] = Named(read[r]) \cap Names(ToSet(rows))]
<1>1. CASE ReadSteps(r)
  BY <1>1, Zenon DEF ReadSteps, Goto
<1>2. CASE execWorkflow(r)
  BY <1>2, Zenon DEF execWorkflow, Goto
<1>3. CASE GetWorkflow(r)
  <2>1. task[r] = "waiting"
    BY <1>3 DEF GetWorkflow
  <2>2. \E w \in ToSet(wfs) : w.id = read[r].id
    BY <2>1 DEF IInv, Readings
  <2>3. QED
    BY <1>3, <2>2 DEF GetWorkflow
<1>4. CASE GenerateJobTasks(r)
  <2>1. built' = [built EXCEPT ![r] = Named(read[r]) \cap Names(ToSet(rows))]
    BY <1>4, Zenon DEF GenerateJobTasks, Named
  <2>2. /\ task[r] = "reading" /\ UNCHANGED <<wfs, pc, read>>
        /\ task' = [task EXCEPT ![r] = "built"]
    BY <1>4 DEF GenerateJobTasks
  <2>3. QED
    BY <1>4, <2>1, <2>2
<1>5. CASE ~ReadSteps(r) /\ ~execWorkflow(r) /\ ~GetWorkflow(r) /\ ~GenerateJobTasks(r)
  BY <1>5, Zenon DEF StepOfRequest, RequestStep, FindByID, CreateApplications, FindByAppID,
     SkipSpec, updateComponent, addComponent, removeComponent, UpdateVersion,
     syncWorkflowSteps, validateWorkflowComponentRefs, UpdateApplicationWorkflow,
     DeleteApplication
<1>6. QED
  BY <1>1, <1>2, <1>3, <1>4, <1>5

\* The application is one that is stored or deleted, with a version some request has set.
LEMMA VersionSteps ==
  ASSUME IInv, NEW r \in Request, StepOfRequest(r)
  PROVE  /\ app' \in [live : BOOLEAN, version : Request \cup {"first"}]
         /\ \/ app'.version = app.version
            \/ CreateApplications(r) /\ app'.version = r
            \/ UpdateVersion(r) /\ app'.version = r
<1>0. app \in [live : BOOLEAN, version : Request \cup {"first"}]
  BY DEF IInv, Shape
<1>1. CASE CreateApplications(r)
  <2>1. app' = app \/ app' = [live |-> TRUE, version |-> r]
    BY <1>1, Zenon DEF CreateApplications, Replace
  <2>2. /\ [live |-> TRUE, version |-> r] \in [live : BOOLEAN, version : Request \cup {"first"}]
        /\ [live |-> TRUE, version |-> r].version = r
    OBVIOUS
  <2>3. QED
    BY <1>0, <1>1, <2>1, <2>2, Zenon
<1>2. CASE UpdateVersion(r)
  BY <1>0, <1>2 DEF UpdateVersion
<1>3. CASE DeleteApplication(r)
  BY <1>0, <1>3 DEF DeleteApplication
<1>4. CASE ~CreateApplications(r) /\ ~UpdateVersion(r) /\ ~DeleteApplication(r)
  <2>1. app' = app
    BY <1>4, Zenon DEF StepOfRequest, RequestStep, FindByID, FindByAppID, SkipSpec,
       updateComponent, addComponent, removeComponent, ReadSteps, syncWorkflowSteps,
       execWorkflow, validateWorkflowComponentRefs, UpdateApplicationWorkflow, GetWorkflow,
       GenerateJobTasks
  <2>2. QED
    BY <1>0, <2>1
<1>5. QED
  BY <1>1, <1>2, <1>3, <1>4

\* The first of the workflows.
LEMMA FirstWorkflow ==
  ASSUME IInv
  PROVE  wfs[1] \in Workflow /\ wfs[1] \in ToSet(wfs)
<1>1. wfs \in Seq(Workflow) /\ wfs # <<>>
  BY DEF IInv, Shape
<1>2. 1 \in DOMAIN wfs /\ wfs[1] \in Workflow
  BY <1>1
<1>3. QED
  BY <1>2 DEF ToSet

\* All of this together.
LEMMA ShapeKept ==
  ASSUME IInv, NEW r \in Request, StepOfRequest(r)
  PROVE  Shape'
<1>0. Shape
  BY DEF IInv
<1>1. op' \in [Request -> Ops]
  BY <1>0, OthersStay DEF Shape
<1>2. wfs' \in Seq(Workflow) /\ wfs' # <<>>
  BY WorkflowsKept DEF Kept
<1>3. errors' \in 0 .. MaxErrors /\ quiet' \subseteq Request
  BY <1>0, FailuresAndQuiet
<1>4. /\ read' \in [Request -> Workflow \cup {<<>>}]
      /\ task' \in [Request -> {"none", "waiting", "reading", "built"}]
      /\ built' \in [Request -> SUBSET Name]
  <2>0. /\ read \in [Request -> Workflow \cup {<<>>}]
        /\ task \in [Request -> {"none", "waiting", "reading", "built"}]
        /\ built \in [Request -> SUBSET Name]
        /\ \A w \in ToSet(wfs) : w \in Workflow
    BY <1>0 DEF Shape, ToSet
  <2>1. Names(ToSet(rows)) \subseteq Name
    <3>1. \A x \in Row : x.name \in Name
      BY DEF Row
    <3>2. QED
      BY <1>0, <3>1 DEF Shape, ToSet, Names
  <2>2. CASE UNCHANGED <<read, task, built>>
    BY <2>0, <2>2
  <2>3. CASE /\ read' = [read EXCEPT ![r] = wfs[1]]
             /\ task' = task \/ task' = [task EXCEPT ![r] = "waiting"]
             /\ built' = built
    BY <2>0, <2>3, FirstWorkflow
  <2>4. CASE /\ task' = [task EXCEPT ![r] = "reading"] /\ built' = built
             /\ \E w \in ToSet(wfs) : read' = [read EXCEPT ![r] = w]
    BY <2>0, <2>4
  <2>5. CASE /\ task' = [task EXCEPT ![r] = "built"] /\ read' = read
             /\ built' = [built EXCEPT ![r] = Named(read[r]) \cap Names(ToSet(rows))]
    BY <2>0, <2>1, <2>5
  <2>6. QED
    BY <2>2, <2>3, <2>4, <2>5, TaskSteps
<1>5. QED
  BY <1>1, <1>2, <1>3, <1>4, RowsKept, PlacesKept, MapKept, ListsKept, VersionSteps
  DEF Shape

-----------------------------------------------------------------------------
(***************************************************************************)
(* Every step keeps the invariants that hold whatever goes wrong.          *)
(***************************************************************************)
\* The steps of a request in their order.
LEMMA PcSteps ==
  ASSUME IInv, NEW r \in Request, StepOfRequest(r)
  PROVE  \/ FindByID(r) /\ pc[r] = "idle" /\ pc'[r] \in {op[r].kind, "error"}
         \/ CreateApplications(r) /\ pc[r] = "refresh" /\ pc'[r] \in {"done", "error"}
         \/ FindByAppID(r) /\ pc[r] = "version" /\ pc'[r] \in {"specs", "error"}
         \/ /\ SkipSpec(r) \/ updateComponent(r) \/ addComponent(r) \/ removeComponent(r)
            /\ pc[r] = "specs" /\ at[r] < Len(op[r].specs) /\ pc'[r] \in {"specs", "error"}
         \/ /\ UpdateVersion(r) /\ pc[r] = "specs" /\ at[r] = Len(op[r].specs)
            /\ pc'[r] \in {AfterVersion(r), "error"}
         \/ ReadSteps(r) /\ pc[r] = "sync" /\ pc'[r] \in {"write", "exec"}
         \/ syncWorkflowSteps(r) /\ pc[r] = "write" /\ pc'[r] = "exec"
         \/ execWorkflow(r) /\ pc[r] = "exec" /\ pc'[r] = "done"
         \/ /\ validateWorkflowComponentRefs(r) /\ pc[r] = "workflow"
            /\ pc'[r] \in {"put", "error"}
         \/ UpdateApplicationWorkflow(r) /\ pc[r] = "put" /\ pc'[r] \in {"done", "error"}
         \/ DeleteApplication(r) /\ pc[r] = "delete" /\ pc'[r] \in {"done", "error"}
         \/ /\ GetWorkflow(r) \/ GenerateJobTasks(r)
            /\ pc' = pc /\ task[r] # "none" /\ pc[r] = "done"
<1>0. pc \in [Request -> Label]
  BY DEF IInv, Shape
<1> USE DEF Goto
<1>1. CASE FindByID(r)
  BY <1>0, <1>1 DEF FindByID
<1>2. CASE CreateApplications(r)
  BY <1>0, <1>2 DEF CreateApplications
<1>3. CASE FindByAppID(r)
  BY <1>0, <1>3 DEF FindByAppID
<1>4. CASE SkipSpec(r) \/ updateComponent(r)
  BY <1>0, <1>4 DEF SkipSpec, updateComponent
<1>5. CASE addComponent(r)
  BY <1>0, <1>5 DEF addComponent, addComponentFails
<1>6. CASE removeComponent(r)
  BY <1>0, <1>6 DEF removeComponent
<1>7. CASE UpdateVersion(r)
  BY <1>0, <1>7 DEF UpdateVersion
<1>8. CASE ReadSteps(r) \/ syncWorkflowSteps(r) \/ execWorkflow(r)
  BY <1>0, <1>8 DEF ReadSteps, syncWorkflowSteps, execWorkflow
<1>9. CASE validateWorkflowComponentRefs(r)
  BY <1>0, <1>9 DEF validateWorkflowComponentRefs
<1>10. CASE UpdateApplicationWorkflow(r)
  BY <1>0, <1>10 DEF UpdateApplicationWorkflow
<1>11. CASE DeleteApplication(r)
  BY <1>0, <1>11 DEF DeleteApplication
<1>12. CASE GetWorkflow(r) \/ GenerateJobTasks(r)
  <2>1. task[r] # "none" /\ pc' = pc
    BY <1>12 DEF GetWorkflow, GenerateJobTasks
  <2>2. pc[r] = "done"
    BY <2>1 DEF IInv, Kinds
  <2>3. QED
    BY <1>12, <2>1, <2>2
<1>13. QED
  BY <1>1, <1>2, <1>3, <1>4, <1>5, <1>6, <1>7, <1>8, <1>9, <1>10, <1>11, <1>12
  DEF StepOfRequest, RequestStep

\* UpdateVersion handles the specs one after the other.
LEMMA SpecSteps ==
  ASSUME IInv, NEW r \in Request, StepOfRequest(r)
  PROVE  \/ UNCHANGED <<at, applied, added>>
         \/ /\ pc[r] = "specs" /\ at[r] < Len(op[r].specs) /\ pc'[r] = "specs"
            /\ at' = [at EXCEPT ![r] = at[r] + 1]
            /\ \/ applied' = [applied EXCEPT ![r] = applied[r] \cup {at[r] + 1}]
               \/ Current(r).action = "update" /\ applied' = applied
            /\ \/ added' = added
               \/ /\ Current(r).action = "add"
                  /\ added' = [added EXCEPT ![r] = Append(added[r], Current(r).name)]
<1> USE DEF Handled
<1>1. CASE SkipSpec(r)
  BY <1>1 DEF SkipSpec
<1>2. CASE updateComponent(r)
  BY <1>2, Zenon DEF updateComponent
<1>3. CASE addComponent(r)
  BY <1>3, Zenon DEF addComponent, addComponentFails
<1>4. CASE removeComponent(r)
  BY <1>4, Zenon DEF removeComponent
<1>5. CASE ~SkipSpec(r) /\ ~updateComponent(r) /\ ~addComponent(r) /\ ~removeComponent(r)
  BY <1>5, Zenon DEF StepOfRequest, RequestStep, FindByID, CreateApplications, FindByAppID,
     UpdateVersion, ReadSteps, syncWorkflowSteps, execWorkflow,
     validateWorkflowComponentRefs, UpdateApplicationWorkflow, DeleteApplication, GetWorkflow,
     GenerateJobTasks, local
<1>6. QED
  BY <1>1, <1>2, <1>3, <1>4, <1>5

\* Ids go on telling rows and workflows apart.
LEMMA IdsKept ==
  ASSUME IInv, NEW r \in Request, StepOfRequest(r)
  PROVE  Ids'
<1>1. \A s \in Request : \A n \in DOMAIN map'[s] : map'[s][n].id <= lastId'
  <2> SUFFICES ASSUME NEW s \in Request, NEW n \in DOMAIN map'[s]
               PROVE  map'[s][n].id <= lastId'
    OBVIOUS
  <2>1. lastId \in Nat /\ lastId' \in Nat /\ lastId <= lastId'
    BY RowsKept DEF IInv, Shape
  <2>2. map'[s][n].id \in Nat
    <3>1. map'[s] \in PartialRows
      BY MapKept
    <3>2. map'[s][n] \in Row
      BY <3>1, PartialRowsType
    <3>3. QED
      BY <3>2 DEF Row
  <2>3. map'[s][n].id <= lastId
    BY MapKept DEF IInv, Ids
  <2>4. QED
    BY <2>1, <2>2, <2>3
<1>2. QED
  BY <1>1, RowsKept, WorkflowsKept DEF Ids, Kept

\* A request goes on doing what it was sent for.
LEMMA KindsKept ==
  ASSUME IInv, NEW r \in Request, StepOfRequest(r)
  PROVE  Kinds'
<1> SUFFICES ASSUME NEW s \in Request
             PROVE  /\ pc'[s] \in {"refresh", "workflow", "delete"} => op'[s].kind = pc'[s]
                    /\ pc'[s] = "put" => op'[s].kind = "workflow"
                    /\ pc'[s] \in Updating \cup {"version"} => op'[s].kind = "version"
                    /\ task'[s] # "none" => op'[s].kind = "version" /\ pc'[s] = "done"
                    /\ pc'[s] \in {"idle", "version"} =>
                         at'[s] = 0 /\ added'[s] = <<>> /\ removed'[s] = <<>>
                    /\ pc'[s] = "idle" => s \notin quiet'
  BY DEF Kinds
<1>1. /\ pc[s] \in {"refresh", "workflow", "delete"} => op[s].kind = pc[s]
      /\ pc[s] = "put" => op[s].kind = "workflow"
      /\ pc[s] \in Updating \cup {"version"} => op[s].kind = "version"
      /\ task[s] # "none" => op[s].kind = "version" /\ pc[s] = "done"
      /\ pc[s] \in {"idle", "version"} => at[s] = 0 /\ added[s] = <<>> /\ removed[s] = <<>>
      /\ pc[s] = "idle" => s \notin quiet
  BY DEF IInv, Kinds
<1>2. op' = op
  BY OthersStay DEF IInv
<1>3. CASE s # r
  BY <1>1, <1>2, <1>3, OthersStay, FailuresAndQuiet DEF IInv
<1>4. CASE s = r
  <2>1. task'[r] # "none" => task[r] # "none" \/ pc[r] = "exec"
    BY TaskSteps
  <2>2. pc[r] # "specs" => UNCHANGED <<at, added, removed>>
    BY SpecSteps, ListSteps DEF removeComponent
  <2>3. op[r].kind \in {"refresh", "version", "workflow", "delete"}
    BY OpTypes DEF IInv
  <2>4. pc'[r] # "idle"
    BY <2>3, PcSteps DEF AfterVersion
  <2>5. /\ pc'[r] \in {"refresh", "workflow", "delete"} => op[r].kind = pc'[r]
        /\ pc'[r] = "put" => op[r].kind = "workflow"
        /\ pc'[r] \in Updating \cup {"version"} => op[r].kind = "version"
    BY <1>1, <1>4, <2>3, PcSteps DEF AfterVersion, Updating
  <2>6. task'[r] # "none" => op[r].kind = "version" /\ pc'[r] = "done"
    BY <1>1, <1>4, <2>1, PcSteps DEF Updating
  <2>7. pc'[r] = "version" => pc[r] = "idle"
    BY PcSteps DEF AfterVersion
  <2>8. QED
    BY <1>1, <1>2, <1>4, <2>2, <2>4, <2>5, <2>6, <2>7
<1>5. QED
  BY <1>3, <1>4

\* What was read is still one of the workflows.
LEMMA ReadingsKept ==
  ASSUME IInv, NEW r \in Request, StepOfRequest(r)
  PROVE  Readings'
<1> SUFFICES ASSUME NEW s \in Request, pc'[s] = "write" \/ task'[s] # "none"
             PROVE  read'[s] \in Workflow /\ \E w \in ToSet(wfs') : w.id = read'[s].id
  BY DEF Readings
<1>0. \A w \in ToSet(wfs) : \E v \in ToSet(wfs') : v.id = w.id
  BY WorkflowsKept DEF Kept
<1>1. wfs[1] \in Workflow /\ wfs[1] \in ToSet(wfs)
  BY FirstWorkflow
<1>2. CASE read'[s] = read[s] /\ (pc[s] = "write" \/ task[s] # "none")
  <2>1. read[s] \in Workflow /\ \E w \in ToSet(wfs) : w.id = read[s].id
    BY <1>2 DEF IInv, Readings
  <2>2. QED
    BY <1>0, <1>2, <2>1
<1>3. CASE read'[s] = wfs[1]
  BY <1>0, <1>1, <1>3
<1>4. CASE s = r /\ GetWorkflow(r)
  <2>1. read \in [Request -> Workflow \cup {<<>>}] /\ \A w \in ToSet(wfs) : w \in Workflow
    BY DEF IInv, Shape, ToSet
  <2>2. task[r] = "waiting"
    BY <1>4 DEF GetWorkflow
  <2>3. \E w \in ToSet(wfs) : w.id = read[r].id
    BY <2>2 DEF IInv, Readings
  <2>4. \E w \in ToSet(wfs) : read'[r] = w
    BY <1>4, <2>1, <2>3 DEF GetWorkflow
  <2>5. QED
    BY <1>0, <1>4, <2>1, <2>4
<1>5. CASE s # r
  BY <1>2, <1>5, OthersStay DEF IInv
<1>6. CASE s = r /\ ~GetWorkflow(r)
  <2>1. read \in [Request -> Workflow \cup {<<>>}]
    BY DEF IInv, Shape
  <2>2. CASE pc'[r] = "write"
    <3>1. ReadSteps(r)
      BY <2>2, OpTypes, PcSteps DEF IInv, AfterVersion
    <3>2. pc' = [pc EXCEPT ![r] = "exec"] \/ read' = [read EXCEPT ![r] = wfs[1]]
      BY <3>1 DEF ReadSteps, Goto
    <3>3. pc \in [Request -> Label]
      BY DEF IInv, Shape
    <3>4. read'[r] = wfs[1]
      BY <2>1, <2>2, <3>2, <3>3
    <3>5. QED
      BY <1>3, <1>6, <3>4
  <2>3. CASE task'[r] # "none"
    <3>1. \/ task' = task /\ read' = read
          \/ task' = task /\ pc[r] = "sync"
          \/ read' = [read EXCEPT ![r] = wfs[1]]
          \/ read' = read /\ task[r] = "reading"
      BY <1>6, TaskSteps
    <3>2. task[r] # "none" => pc[r] = "done"
      BY DEF IInv, Kinds
    <3>3. QED
      BY <1>2, <1>3, <1>6, <2>1, <2>3, <3>1, <3>2
  <2>4. QED
    BY <1>6, <2>2, <2>3
<1>7. QED
  BY <1>4, <1>5, <1>6

\* What has been handled is applied, spec by spec.
LEMMA ProgressKept ==
  ASSUME IInv, NEW r \in Request, StepOfRequest(r)
  PROVE  Progress'
<1>0. op' = op
  BY OthersStay DEF IInv
<1> SUFFICES ASSUME NEW s \in Request, op[s].kind = "version"
             PROVE  /\ at'[s] <= Len(op[s].specs)
                    /\ pc'[s] \in {"sync", "write", "exec"} => at'[s] = Len(op[s].specs)
                    /\ \A i \in 1 .. at'[s] :
                         op[s].specs[i].action = "update" \/ i \in applied'[s]
                    /\ \A n \in ToSet(added'[s]) : \E i \in 1 .. at'[s] :
                         op[s].specs[i].name = n /\ op[s].specs[i].action = "add"
  BY <1>0 DEF Progress
<1>1. /\ at[s] <= Len(op[s].specs)
      /\ pc[s] \in {"sync", "write", "exec"} => at[s] = Len(op[s].specs)
      /\ \A i \in 1 .. at[s] : op[s].specs[i].action = "update" \/ i \in applied[s]
      /\ \A n \in ToSet(added[s]) : \E i \in 1 .. at[s] :
           op[s].specs[i].name = n /\ op[s].specs[i].action = "add"
  BY DEF IInv, Progress
<1>2. CASE s # r
  BY <1>1, <1>2, OthersStay DEF IInv
<1>3. CASE s = r /\ UNCHANGED <<at, applied, added>>
  <2>1. pc'[r] \in {"sync", "write", "exec"} =>
          pc[r] \in {"sync", "write", "exec"} \/ at[r] = Len(op[r].specs)
    BY <1>3, OpTypes, PcSteps DEF IInv
  <2>2. QED
    BY <1>1, <1>3, <2>1
<1>4. CASE /\ s = r /\ pc[r] = "specs" /\ at[r] < Len(op[r].specs) /\ pc'[r] = "specs"
           /\ at' = [at EXCEPT ![r] = at[r] + 1]
           /\ \/ applied' = [applied EXCEPT ![r] = applied[r] \cup {at[r] + 1}]
              \/ Current(r).action = "update" /\ applied' = applied
           /\ \/ added' = added
              \/ /\ Current(r).action = "add"
                 /\ added' = [added EXCEPT ![r] = Append(added[r], Current(r).name)]
  <2>0. /\ at \in [Request -> Nat] /\ applied \in [Request -> SUBSET Nat]
        /\ added \in [Request -> Seq(Name)]
    BY DEF IInv, Shape
  <2>1. at'[r] = at[r] + 1 /\ at[r] \in Nat /\ Current(r) = op[r].specs[at[r] + 1]
    BY <1>4, <2>0 DEF Current
  <2>2. /\ Len(op[r].specs) \in Nat /\ Current(r).name \in Name
    <3>1. op[r].specs \in Seq(ComponentUpdateSpec) /\ Current(r).name \in Name
      BY <1>4, CurrentType DEF IInv
    <3>2. QED
      BY <3>1
  <2>3. \A i \in 1 .. at'[r] : i \in 1 .. at[r] \/ i = at[r] + 1
    BY <2>1
  <2>4. \A i \in 1 .. at'[r] : op[r].specs[i].action = "update" \/ i \in applied'[r]
    BY <1>1, <1>4, <2>0, <2>1, <2>3
  <2>5. /\ \A i \in 1 .. at[r] : i \in 1 .. at'[r]
        /\ at[r] + 1 \in 1 .. at'[r]
    BY <2>1
  <2>6. \A n \in ToSet(added'[r]) :
          n \in ToSet(added[r]) \/ (n = Current(r).name /\ Current(r).action = "add")
    <3>1. CASE added' = added
      BY <3>1
    <3>2. CASE /\ Current(r).action = "add"
               /\ added' = [added EXCEPT ![r] = Append(added[r], Current(r).name)]
      <4>1. added'[r] = Append(added[r], Current(r).name) /\ added[r] \in Seq(Name)
        BY <2>0, <3>2
      <4>2. /\ DOMAIN added'[r] = 1 .. Len(added[r]) + 1
            /\ DOMAIN added[r] = 1 .. Len(added[r])
            /\ \A i \in 1 .. Len(added[r]) : added'[r][i] = added[r][i]
            /\ added'[r][Len(added[r]) + 1] = Current(r).name /\ Len(added[r]) \in Nat
        BY <2>2, <4>1
      <4>3. QED
        BY <3>2, <4>2 DEF ToSet
    <3>3. QED
      BY <1>4, <3>1, <3>2
  <2>7. \A n \in ToSet(added'[r]) : \E i \in 1 .. at'[r] :
          op[r].specs[i].name = n /\ op[r].specs[i].action = "add"
    <3> SUFFICES ASSUME NEW n \in ToSet(added'[r])
                 PROVE  \E i \in 1 .. at'[r] : /\ op[r].specs[i].name = n
                                               /\ op[r].specs[i].action = "add"
      OBVIOUS
    <3>1. CASE n \in ToSet(added[r])
      <4>1. PICK i \in 1 .. at[r] : op[r].specs[i].name = n /\ op[r].specs[i].action = "add"
        BY <1>1, <1>4, <3>1
      <4>2. i \in 1 .. at'[r]
        BY <2>5
      <4>3. QED
        BY <4>1, <4>2
    <3>2. CASE n = Current(r).name /\ Current(r).action = "add"
      BY <2>1, <2>5, <3>2
    <3>3. QED
      BY <2>6, <3>1, <3>2
  <2>8. QED
    BY <1>4, <2>1, <2>2, <2>4, <2>7
<1>5. QED
  BY <1>2, <1>3, <1>4, SpecSteps

\* A row keeps its name, and a new row has a new id.
LEMMA RowsOrigin ==
  ASSUME IInv, NEW r \in Request, StepOfRequest(r), NEW x \in ToSet(rows')
  PROVE  x.id > lastId \/ \E y \in ToSet(rows) : y.id = x.id /\ y.name = x.name
<1>0. lastId \in Nat
  BY DEF IInv, Shape
<1>1. CASE UNCHANGED <<rows, lastId, twins>>
  BY <1>1
<1>2. CASE CreateApplications(r) /\ ~UNCHANGED <<rows, lastId, twins>>
  BY <1>2, RefreshRows
<1>3. CASE updateComponent(r)
  BY <1>3, UpdateKeeps
<1>4. CASE addComponent(r)
  BY <1>0, <1>4, AddRows
<1>5. CASE removeComponent(r)
  BY <1>5, RemoveRows
<1>6. QED
  BY <1>1, <1>2, <1>3, <1>4, <1>5, RowsStay

\* The maps go on being about rows of their names.
LEMMA MappedKept ==
  ASSUME IInv, NEW r \in Request, StepOfRequest(r)
  PROVE  Mapped'
<1> SUFFICES ASSUME NEW s \in Request, NEW n \in DOMAIN map'[s]
             PROVE  /\ map'[s][n].name = n
                    /\ n \notin ToSet(added'[s])
                    /\ \A x \in ToSet(rows') : x.id = map'[s][n].id => x.name = n
  BY DEF Mapped
<1>1. CASE /\ n \in DOMAIN map[s]
           /\ map'[s][n].id = map[s][n].id /\ map'[s][n].name = map[s][n].name
  <2>1. /\ map[s][n].name = n /\ n \notin ToSet(added[s])
        /\ \A x \in ToSet(rows) : x.id = map[s][n].id => x.name = n
        /\ map[s][n].id \in Nat /\ map[s][n].id <= lastId /\ lastId \in Nat
    BY <1>1, MappedRow DEF IInv, Mapped, Shape
  <2>2. n \notin ToSet(added'[s])
    <3>1. CASE s # r
      BY <2>1, <3>1, OthersStay DEF IInv
    <3>2. CASE s = r
      <4>1. CASE added' = added
        BY <2>1, <4>1
      <4>2. CASE added' # added
        <5>1. addComponent(r) /\ ToSet(added'[r]) = ToSet(added[r]) \cup {Current(r).name}
          BY <4>2, ListsKept
        <5>2. n # Current(r).name
          BY <1>1, <3>2, <5>1, AddRows
        <5>3. QED
          BY <2>1, <3>2, <5>1, <5>2
      <4>3. QED
        BY <4>1, <4>2
    <3>3. QED
      BY <3>1, <3>2
  <2>3. ASSUME NEW x \in ToSet(rows'), x.id = map[s][n].id
        PROVE  x.name = n
    <3>1. ~(x.id > lastId)
      BY <2>1, <2>3
    <3>2. QED
      BY <2>1, <2>3, <3>1, RowsOrigin
  <2>4. QED
    BY <1>1, <2>1, <2>2, <2>3
<1>2. CASE s = r /\ FindByAppID(r) /\ map'[s][n] \in ToSet(rows) /\ map'[s][n].name = n
  <2>1. pc[r] = "version" /\ UNCHANGED <<rows, added>>
    BY <1>2 DEF FindByAppID
  <2>2. added[r] = <<>>
    BY <2>1 DEF IInv, Kinds
  <2>3. n \notin ToSet(added'[r])
    BY <2>1, <2>2 DEF ToSet
  <2>4. \A x \in ToSet(rows) : x.id = map'[s][n].id => x = map'[s][n]
    BY <1>2, OneRowPerId DEF IInv, Shape, Ids
  <2>5. QED
    BY <1>2, <2>1, <2>3, <2>4
<1>3. QED
  BY <1>1, <1>2, MapKept

\* What is listed goes on being about rows of its names.
LEMMA ListingsKept ==
  ASSUME IInv, NEW r \in Request, StepOfRequest(r)
  PROVE  Listings'
<1>1. UNCHANGED <<listed, syncs, reverted>>
  BY SyncsStay
<1>2. lastId \in Nat /\ lastId' \in Nat /\ lastId <= lastId'
  BY RowsKept DEF IInv, Shape
<1>3. ASSUME NEW h \in listed
      PROVE  /\ h \in Row /\ h.id <= lastId'
             /\ \A x \in ToSet(rows') : x.id = h.id => x.name = h.name
  <2>1. /\ h \in Row /\ h.id \in Nat /\ h.id <= lastId
        /\ \A x \in ToSet(rows) : x.id = h.id => x.name = h.name
    BY DEF IInv, Listings, Row
  <2>2. h.id <= lastId' /\ ~(h.id > lastId)
    BY <1>2, <2>1
  <2>3. QED
    BY <2>1, <2>2, RowsOrigin
<1>4. QED
  BY <1>1, <1>3 DEF IInv, Listings

\* The version of an UpdateVersion goes on standing for its components.
LEMMA VersionKept ==
  ASSUME IInv, NEW r \in Request, StepOfRequest(r)
  PROVE  VersionMeansApplied'
<1>0. op' = op
  BY OthersStay DEF IInv
<1> SUFFICES ASSUME NEW s \in Request, app'.version = s, op[s].kind = "version",
                    NEW i \in DOMAIN op[s].specs
             PROVE  op[s].specs[i].action = "update" \/ i \in applied'[s]
  BY <1>0 DEF VersionMeansApplied
<1>1. applied[s] \subseteq applied'[s]
  <2>1. applied \in [Request -> SUBSET Nat]
    BY DEF IInv, Shape
  <2>2. QED
    BY <2>1, SpecSteps
<1>2. CASE app'.version = app.version
  BY <1>1, <1>2 DEF IInv, VersionMeansApplied
<1>3. CASE CreateApplications(r) /\ app'.version = r
  <2>1. op[r].kind = "refresh"
    BY <1>3 DEF CreateApplications, IInv, Kinds
  <2>2. QED
    BY <1>3, <2>1
<1>4. CASE UpdateVersion(r) /\ app'.version = r
  <2>1. at[r] = Len(op[r].specs) /\ s = r
    BY <1>4 DEF UpdateVersion
  <2>2. op[r].specs \in Seq(ComponentUpdateSpec)
    BY <2>1, OpTypes DEF IInv
  <2>3. i \in 1 .. at[r]
    BY <2>1, <2>2
  <2>4. op[r].specs[i].action = "update" \/ i \in applied[r]
    BY <2>1, <2>3 DEF IInv, Progress
  <2>5. QED
    BY <1>1, <2>1, <2>4
<1>5. QED
  BY <1>2, <1>3, <1>4, VersionSteps

-----------------------------------------------------------------------------
(***************************************************************************)
(* Every step keeps the invariants of the undisturbed requests.            *)
(***************************************************************************)
\* Requests that are under way and their tasks are disturbed by an arrival.
LEMMA Arrival ==
  ASSUME Shape, NEW r \in Request, FindByID(r)
  PROVE  /\ \A s \in quiet' \ {r} : s \in quiet /\ (~Pending(s) \/ pc'[r] = "error")
         /\ r \in quiet' => r \in quiet \/ \A s \in Request : ~Active(s)
         /\ UNCHANGED <<rows, lastId, wfs, twins>>
<1>1. UNCHANGED <<rows, lastId, wfs, twins>>
  BY DEF FindByID
<1>2. CASE Goto(r, "error") /\ Fails(r)
  BY <1>1, <1>2 DEF Shape, Goto, Fails
<1>3. CASE quiet' = (quiet \ ({s \in Request : Active(s)}
                              \cup {s \in Request : task[s] \in {"waiting", "reading"}}))
                    \cup (IF {s \in Request : Active(s)} = {} THEN {r} ELSE {})
  <2>1. \A s \in quiet' \ {r} : s \in quiet /\ ~Pending(s)
    BY <1>3 DEF Shape, Pending
  <2>2. r \in quiet' => r \in quiet \/ \A s \in Request : ~Active(s)
    BY <1>3
  <2>3. QED
    BY <1>1, <2>1, <2>2
<1>4. QED
  BY <1>2, <1>3, Zenon DEF FindByID

\* While an undisturbed request or its task is under way, a step of another request is a
\* failed arrival or a step of a worker.
LEMMA StillQuiet ==
  ASSUME IInv, NEW r \in Request, StepOfRequest(r), NEW s \in quiet', s # r,
         Pending(s)'
  PROVE  /\ s \in quiet /\ Pending(s) /\ s \in Request
         /\ UNCHANGED <<rows, lastId, wfs, twins>>
         /\ ~Active(r) /\ ~Active(r)'
<1>1. s \in quiet /\ s \in Request
  BY FailuresAndQuiet DEF IInv
<1>2. Pending(s)
  BY <1>1, OthersStay DEF IInv, Pending, Active
<1>3. ~Active(r)
  BY <1>1, <1>2 DEF IInv, Alone
<1>4. pc[r] \in {"idle", "done", "error"}
  BY <1>3 DEF Active
<1>5. CASE FindByID(r)
  <2>1. pc'[r] = "error" /\ UNCHANGED <<rows, lastId, wfs, twins>>
    BY <1>1, <1>2, <1>5, Arrival DEF IInv
  <2>2. QED
    BY <1>1, <1>2, <1>3, <2>1 DEF Active
<1>6. CASE (GetWorkflow(r) \/ GenerateJobTasks(r)) /\ pc' = pc
  <2>1. UNCHANGED <<rows, lastId, wfs, twins>>
    BY <1>6 DEF GetWorkflow, GenerateJobTasks
  <2>2. QED
    BY <1>1, <1>2, <1>3, <1>6, <2>1 DEF Active
<1>7. QED
  BY <1>4, <1>5, <1>6, PcSteps

\* While a request is undisturbed no other is active.
LEMMA RunsAlone ==
  ASSUME IInv, NEW r \in Request, StepOfRequest(r), r \in quiet'
  PROVE  /\ \A s \in Request \ {r} : ~Active(s) /\ ~Active(s)'
         /\ FindByID(r) \/ (r \in quiet /\ Pending(r) /\ pc[r] # "idle")
<1>1. ASSUME \A s \in Request \ {r} : ~Active(s)
      PROVE  \A s \in Request \ {r} : ~Active(s) /\ ~Active(s)'
  BY <1>1, OthersStay DEF IInv, Active
<1>2. CASE pc[r] = "idle"
  <2>1. FindByID(r)
    BY <1>2, PcSteps
  <2>2. r \notin quiet
    BY <1>2 DEF IInv, Kinds
  <2>3. \A s \in Request : ~Active(s)
    BY <2>1, <2>2, Arrival DEF IInv
  <2>4. QED
    BY <1>1, <2>1, <2>3
<1>3. CASE pc[r] # "idle"
  <2>1. r \in quiet
    BY <1>3, FailuresAndQuiet DEF IInv
  <2>2. Pending(r)
    BY <1>3, PcSteps DEF Pending, Active, GetWorkflow, GenerateJobTasks
  <2>3. \A s \in Request \ {r} : ~Active(s)
    BY <2>1, <2>2 DEF IInv, Alone
  <2>4. QED
    BY <1>1, <1>3, <2>1, <2>2, <2>3
<1>4. QED
  BY <1>2, <1>3

\* An undisturbed request stays alone.
LEMMA AloneKept ==
  ASSUME IInv, NEW r \in Request, StepOfRequest(r)
  PROVE  Alone'
<1> SUFFICES ASSUME NEW s \in quiet', Pending(s)', NEW q \in Request, Active(q)'
             PROVE  q = s
  BY DEF Alone
<1>1. CASE s = r
  BY <1>1, RunsAlone
<1>2. CASE s # r
  <2>1. s \in quiet /\ Pending(s) /\ ~Active(r)'
    BY <1>2, StillQuiet
  <2>2. q # r /\ Active(q)
    BY <2>1, OthersStay DEF IInv, Active
  <2>3. QED
    BY <2>1, <2>2 DEF IInv, Alone
<1>3. QED
  BY <1>1, <1>2

\* A spec is about the rows of its name.
LEMMA SpecRows ==
  ASSUME IInv, NEW r \in Request,
         SkipSpec(r) \/ updateComponent(r) \/ addComponent(r) \/ removeComponent(r)
  PROVE  \A x : x.name # Current(r).name => (x \in ToSet(rows') <=> x \in ToSet(rows))
<1> SUFFICES ASSUME NEW x, x.name # Current(r).name
             PROVE  x \in ToSet(rows') <=> x \in ToSet(rows)
  OBVIOUS
<1>0. ASSUME Current(r).name \in DOMAIN map[r], x \in ToSet(rows)
      PROVE  x.id # map[r][Current(r).name].id
  BY <1>0 DEF IInv, Mapped
<1>1. CASE SkipSpec(r)
  BY <1>1 DEF SkipSpec
<1>2. CASE updateComponent(r)
  <2>1. Current(r).name \in DOMAIN map[r]
    BY <1>2 DEF updateComponent
  <2>2. x \in ToSet(rows) => x.id # Updated(r).id
    BY <1>0, <1>2, <2>1, UpdateRows
  <2>3. \A y \in ToSet(rows) : y.id = Updated(r).id => x # Written(y, Updated(r))
    BY <1>2, UpdateRows, WrittenRow
  <2>4. CASE rows' = rows
    BY <2>4
  <2>5. CASE ToSet(rows') = WithUpdated(r)
    BY <2>2, <2>3, <2>5 DEF WithUpdated
  <2>6. QED
    BY <1>2, <2>4, <2>5, UpdateRows
<1>3. CASE addComponent(r)
  <2>1. x # Added(r)
    BY <1>3, AddRows
  <2>2. QED
    BY <1>3, <2>1, AddRows
<1>4. CASE removeComponent(r)
  BY <1>0, <1>4, RemoveRows
<1>5. QED
  BY <1>1, <1>2, <1>3, <1>4

\* An update of an undisturbed request.
LEMMA QuietUpdate ==
  ASSUME IInv, NEW r \in Request, updateComponent(r), r \in quiet'
  PROVE  /\ Names(ToSet(rows')) = Names(ToSet(rows))
         /\ DOMAIN map'[r] = DOMAIN map[r]
         /\ map'[r][Current(r).name] = Updated(r)
         /\ \A n \in DOMAIN map[r] \ {Current(r).name} : map'[r][n] = map[r][n]
         /\ \A n \in DOMAIN map[r] : \E x \in ToSet(rows') : x.id = map'[r][n].id
         /\ UNCHANGED <<pc, added, removed, wfs, twins, task>>
         /\ at'[r] = at[r] + 1
<1> DEFINE c == Current(r).name
<1>1. StepOfRequest(r)
  BY DEF StepOfRequest, RequestStep
<1>2. c \in DOMAIN map[r] /\ pc[r] = "specs"
  BY DEF updateComponent
<1>3. r \in quiet
  BY <1>1, <1>2, FailuresAndQuiet DEF IInv
<1>4. \A n \in DOMAIN map[r] : \E x \in ToSet(rows) : x.id = map[r][n].id
  BY <1>2, <1>3 DEF IInv, Undisturbed
<1>5. Updated(r).id = map[r][c].id
  BY UpdateRows
<1>6. Names(ToSet(rows')) = Names(ToSet(rows))
  BY UpdateKeeps DEF Names
<1>7. UNCHANGED <<pc, added, removed, wfs, twins, task>>
  BY DEF updateComponent
<1>8. at'[r] = at[r] + 1
  <2>1. at' = [at EXCEPT ![r] = at[r] + 1]
    BY DEF updateComponent, Handled
  <2>2. QED
    BY <2>1 DEF IInv, Shape
<1>9. /\ DOMAIN map'[r] = DOMAIN map[r]
      /\ \A n \in DOMAIN map[r] : map'[r][n] = IF n = c THEN Updated(r) ELSE map[r][n]
  <2>1. map' = [map EXCEPT ![r][c] = Updated(r)]
    BY DEF updateComponent, Updated
  <2>2. map \in [Request -> PartialRows] /\ map[r] \in PartialRows
    BY DEF IInv, Shape
  <2>3. map[r] \in [DOMAIN map[r] -> Row]
    BY <2>2 DEF PartialRows
  <2>4. map'[r] = [map[r] EXCEPT ![c] = Updated(r)]
    BY <2>1, <2>2
  <2>5. QED
    BY <2>3, <2>4
<1>10. ASSUME NEW n \in DOMAIN map[r]
       PROVE  \E x \in ToSet(rows') : x.id = map'[r][n].id
  <2>1. map'[r][n].id = map[r][n].id
    BY <1>5, <1>9
  <2>2. QED
    BY <1>4, <2>1, UpdateKeeps
<1>11. QED
  BY <1>2, <1>6, <1>7, <1>8, <1>9, <1>10

\* An addition of an undisturbed request.
LEMMA QuietAdd ==
  ASSUME IInv, NEW r \in Request, addComponent(r), r \in quiet'
  PROVE  /\ ToSet(rows') = ToSet(rows) \cup {Added(r)}
         /\ Names(ToSet(rows')) = Names(ToSet(rows)) \cup {Current(r).name}
         /\ ToSet(added'[r]) = ToSet(added[r]) \cup {Current(r).name}
         /\ UNCHANGED <<pc, map, removed, wfs, task>>
         /\ at'[r] = at[r] + 1
<1>1. StepOfRequest(r)
  BY DEF StepOfRequest, RequestStep
<1>2. /\ added' = [added EXCEPT ![r] = Append(added[r], Current(r).name)]
      /\ UNCHANGED <<pc, map, removed, wfs, task>>
      /\ at' = [at EXCEPT ![r] = at[r] + 1]
  BY DEF addComponent, Handled, Fails
<1>3. /\ Added(r).name = Current(r).name
      /\ ToSet(rows') = ToSet(rows) \cup {Added(r)}
  BY AddRows
<1>4. Names(ToSet(rows')) = Names(ToSet(rows)) \cup {Current(r).name}
  BY <1>3 DEF Names
<1>5. at'[r] = at[r] + 1
  BY <1>2 DEF IInv, Shape
<1>6. added' # added
  <2>1. added \in [Request -> Seq(Name)] /\ Current(r).name \in Name
    BY AddRows DEF IInv, Shape
  <2>2. added'[r] = Append(added[r], Current(r).name) /\ added[r] \in Seq(Name)
    BY <1>2, <2>1
  <2>3. Len(added'[r]) = Len(added[r]) + 1 /\ Len(added[r]) \in Nat
    BY <2>1, <2>2
  <2>4. QED
    BY <2>3
<1>7. ToSet(added'[r]) = ToSet(added[r]) \cup {Current(r).name}
  BY <1>1, <1>6, ListsKept
<1>8. QED
  BY <1>2, <1>3, <1>4, <1>5, <1>7

\* A removal of an undisturbed request.
LEMMA QuietRemove ==
  ASSUME IInv, NEW r \in Request, removeComponent(r), r \in quiet'
  PROVE  /\ Names(ToSet(rows)) \ {Current(r).name} \subseteq Names(ToSet(rows'))
         /\ Names(ToSet(rows')) \subseteq Names(ToSet(rows))
         /\ ~twins => Current(r).name \notin Names(ToSet(rows'))
         /\ Current(r).name \notin ToSet(added[r])
         /\ DOMAIN map'[r] = DOMAIN map[r] \ {Current(r).name}
         /\ \A n \in DOMAIN map'[r] :
              map'[r][n] = map[r][n] /\ \E x \in ToSet(rows') : x.id = map'[r][n].id
         /\ ToSet(removed'[r]) = ToSet(removed[r]) \cup {Current(r).name}
         /\ UNCHANGED <<pc, added, wfs, twins, task>>
         /\ at'[r] = at[r] + 1
<1> DEFINE c == Current(r).name
<1>1. StepOfRequest(r)
  BY DEF StepOfRequest, RequestStep
<1>2. c \in DOMAIN map[r] /\ pc[r] = "specs" /\ UNCHANGED <<added, wfs, twins, task>>
  BY DEF removeComponent
<1>3. r \in quiet
  BY <1>1, <1>2, FailuresAndQuiet DEF IInv
<1>4. /\ \A n \in DOMAIN map[r] :
           /\ \E x \in ToSet(rows) : x.id = map[r][n].id
           /\ \A x \in ToSet(rows) : x.id = map[r][n].id => x.name = n
      /\ c \notin ToSet(added[r])
  BY <1>2, <1>3 DEF IInv, Undisturbed, Mapped
<1>5. ToSet(rows') = {x \in ToSet(rows) : x.id # map[r][c].id}
  BY RemoveRows
<1>6. /\ removed' = [removed EXCEPT ![r] = Append(removed[r], c)]
      /\ Forget(r) /\ UNCHANGED pc
      /\ at' = [at EXCEPT ![r] = at[r] + 1]
  <2>1. \E i \in DOMAIN rows : rows[i].id = map[r][c].id
    BY <1>2, <1>4 DEF ToSet
  <2>2. ~Fails(r)
    BY DEF Fails
  <2>3. QED
    BY <2>1, <2>2 DEF removeComponent, Handled
<1>7. Names(ToSet(rows)) \ {c} \subseteq Names(ToSet(rows'))
  BY <1>2, <1>4, <1>5 DEF Names
<1>8. Names(ToSet(rows')) \subseteq Names(ToSet(rows))
  BY <1>5 DEF Names
<1>9. ASSUME ~twins, NEW x \in ToSet(rows')
      PROVE  x.name # c
  <2> SUFFICES ASSUME x.name = c
               PROVE  FALSE
    OBVIOUS
  <2>1. x \in ToSet(rows) /\ x.id # map[r][c].id
    BY <1>5
  <2>2. \A y \in ToSet(rows) : x.name = y.name => x = y
    BY <1>9, <2>1 DEF IInv, NoTwins
  <2>3. PICK y \in ToSet(rows) : y.id = map[r][c].id /\ y.name = c
    BY <1>2, <1>4
  <2>4. x = y
    BY <2>2, <2>3, Zenon
  <2>5. QED
    BY <2>1, <2>3, <2>4
<1>10. /\ DOMAIN map'[r] = DOMAIN map[r] \ {c}
       /\ \A n \in DOMAIN map'[r] : map'[r][n] = map[r][n]
  BY <1>6 DEF Forget, IInv, Shape
<1>11. ASSUME NEW n \in DOMAIN map'[r]
       PROVE  \E x \in ToSet(rows') : x.id = map'[r][n].id
  <2>1. map[r][n].id # map[r][c].id
    BY <1>2, <1>4, <1>10
  <2>2. QED
    BY <1>4, <1>5, <1>10, <2>1
<1>12. at'[r] = at[r] + 1
  BY <1>6 DEF IInv, Shape
<1>13. removed' # removed
  <2>1. removed \in [Request -> Seq(Name)] /\ c \in Name
    BY <1>2, MappedRow DEF IInv, Shape
  <2>2. removed'[r] = Append(removed[r], c) /\ removed[r] \in Seq(Name)
    BY <1>6, <2>1
  <2>3. Len(removed'[r]) = Len(removed[r]) + 1 /\ Len(removed[r]) \in Nat
    BY <2>1, <2>2
  <2>4. QED
    BY <2>3
<1>14. ToSet(removed'[r]) = ToSet(removed[r]) \cup {c}
  BY <1>1, <1>13, ListsKept
<1>15. ~twins => c \notin Names(ToSet(rows'))
  BY <1>9 DEF Names
<1>16. QED
  BY <1>2, <1>4, <1>6, <1>7, <1>8, <1>10, <1>11, <1>12, <1>14, <1>15

\* What an undisturbed request has read and added stays.
LEMMA UndisturbedKept ==
  ASSUME IInv, NEW r \in Request, StepOfRequest(r)
  PROVE  Undisturbed'
<1> SUFFICES ASSUME NEW s \in quiet'
             PROVE  /\ Pending(s)' => ToSet(added'[s]) \subseteq Names(ToSet(rows'))
                    /\ pc'[s] = "specs" =>
                         \A n \in DOMAIN map'[s] : \E x \in ToSet(rows') : x.id = map'[s][n].id
                    /\ pc'[s] = "specs" /\ ~twins' =>
                         Names(ToSet(rows')) \subseteq DOMAIN map'[s] \cup ToSet(added'[s])
  BY DEF Undisturbed
<1>1. pc'[s] = "specs" => Pending(s)'
  BY DEF Pending, Active
<1> SUFFICES ASSUME Pending(s)'
             PROVE  /\ ToSet(added'[s]) \subseteq Names(ToSet(rows'))
                    /\ pc'[s] = "specs" =>
                         \A n \in DOMAIN map'[s] : \E x \in ToSet(rows') : x.id = map'[s][n].id
                    /\ pc'[s] = "specs" /\ ~twins' =>
                         Names(ToSet(rows')) \subseteq DOMAIN map'[s] \cup ToSet(added'[s])
  BY <1>1
<1>2. CASE s # r
  <2>1. s \in quiet /\ Pending(s) /\ s \in Request /\ UNCHANGED <<rows, twins>>
    BY <1>2, StillQuiet
  <2>2. pc'[s] = pc[s] /\ added'[s] = added[s] /\ map'[s] = map[s]
    BY <1>2, <2>1, OthersStay DEF IInv
  <2>3. QED
    BY <2>1, <2>2 DEF IInv, Undisturbed
<1>3. CASE s = r /\ FindByID(r)
  <2>1. pc[r] = "idle" /\ added' = added
    BY <1>3 DEF FindByID, local
  <2>2. added[r] = <<>>
    BY <2>1 DEF IInv, Kinds
  <2>3. pc'[r] # "specs"
    BY <1>3, <2>1, OpTypes, PcSteps DEF IInv
  <2>4. QED
    BY <1>3, <2>1, <2>2, <2>3 DEF ToSet
<1>4. CASE s = r /\ ~FindByID(r)
  <2>1. r \in quiet /\ Pending(r)
    BY <1>4, RunsAlone
  <2>2. /\ ToSet(added[r]) \subseteq Names(ToSet(rows))
        /\ pc[r] = "specs" =>
             \A n \in DOMAIN map[r] : \E x \in ToSet(rows) : x.id = map[r][n].id
        /\ pc[r] = "specs" /\ ~twins =>
             Names(ToSet(rows)) \subseteq DOMAIN map[r] \cup ToSet(added[r])
    BY <2>1 DEF IInv, Undisturbed
  <2>3. CASE CreateApplications(r)
    <3>1. pc[r] = "refresh" /\ task' = task
      BY <2>3 DEF CreateApplications
    <3>2. pc'[r] \in {"done", "error"}
      BY <2>3, <3>1, PcSteps
    <3>3. task[r] = "none"
      BY <3>1 DEF IInv, Kinds
    <3>4. QED
      BY <1>4, <3>1, <3>2, <3>3 DEF Pending, Active
  <2>4. CASE FindByAppID(r)
    <3>1. pc[r] = "version" /\ UNCHANGED <<rows, added, twins>>
      BY <2>4 DEF FindByAppID
    <3>2. pc'[r] = "specs" =>
            map' = [map EXCEPT ![r] = [n \in Names(ToSet(rows)) |-> LastNamed(rows, n)]]
      <4>1. pc \in [Request -> Label]
        BY DEF IInv, Shape
      <4>2. \/ map' = [map EXCEPT ![r] = [n \in Names(ToSet(rows)) |-> LastNamed(rows, n)]]
            \/ pc' = [pc EXCEPT ![r] = "error"]
        BY <2>4, Zenon DEF FindByAppID, Goto
      <4>3. QED
        BY <4>1, <4>2
    <3>3. rows \in Seq(Row) /\ map \in [Request -> PartialRows]
      BY DEF IInv, Shape
    <3>4. \A n \in Names(ToSet(rows)) : LastNamed(rows, n) \in ToSet(rows)
      BY <3>3, LastIsNamed
    <3>5. pc'[r] = "specs" => /\ DOMAIN map'[r] = Names(ToSet(rows))
                              /\ \A n \in DOMAIN map'[r] : map'[r][n] \in ToSet(rows)
      BY <3>2, <3>3, <3>4
    <3>6. QED
      BY <1>4, <2>2, <3>1, <3>5
  <2>5. CASE updateComponent(r)
    <3>1. pc[r] = "specs"
      BY <2>5 DEF updateComponent
    <3>2. QED
      BY <1>4, <2>2, <2>5, <3>1, QuietUpdate
  <2>6. CASE addComponent(r)
    <3>1. pc[r] = "specs"
      BY <2>6 DEF addComponent
    <3>2. /\ ToSet(rows) \subseteq ToSet(rows') /\ map' = map
          /\ Names(ToSet(rows')) = Names(ToSet(rows)) \cup {Current(r).name}
          /\ ToSet(added'[r]) = ToSet(added[r]) \cup {Current(r).name}
          /\ ~twins' => ~twins
      BY <1>4, <2>6, QuietAdd, AddRows
    <3>3. QED
      BY <1>4, <2>2, <3>1, <3>2
  <2>7. CASE removeComponent(r)
    <3>1. pc[r] = "specs"
      BY <2>7 DEF removeComponent
    <3>2. QED
      BY <1>4, <2>2, <2>7, <3>1, QuietRemove
  <2>8. CASE ~CreateApplications(r) /\ ~FindByAppID(r) /\ ~updateComponent(r)
             /\ ~addComponent(r) /\ ~removeComponent(r)
    <3>1. UNCHANGED <<rows, twins>>
      BY <2>8, RowsStay
    <3>2. UNCHANGED <<added, map>>
      BY <2>8, ListSteps, MapSteps
    <3>3. pc'[r] = "specs" => pc[r] = "specs"
      BY <1>4, <2>8, PcSteps DEF AfterVersion
    <3>4. QED
      BY <1>4, <2>2, <3>1, <3>2, <3>3
  <2>9. QED
    BY <2>3, <2>4, <2>5, <2>6, <2>7, <2>8
<1>5. QED
  BY <1>2, <1>3, <1>4

\* An update of an undisturbed request leaves the map agreeing with the rows.
LEMMA UpdateHeld ==
  ASSUME IInv, NEW r \in Request, updateComponent(r), r \in quiet', r \notin reverted,
         NEW n \in DOMAIN map'[r], NEW x \in ToSet(rows'), x.id = map'[r][n].id
  PROVE  Agree(x, map'[r][n])
<1> DEFINE c == Current(r).name
           set == Current(r).set
           old == map[r][c]
<1>1. c \in DOMAIN map[r] /\ pc[r] = "specs" /\ at[r] < Len(op[r].specs)
  BY DEF updateComponent
<1>2. r \in quiet
  BY <1>1, FailuresAndQuiet DEF IInv, StepOfRequest, RequestStep
<1>3. /\ n \in DOMAIN map[r]
      /\ map'[r][n] = IF n = c THEN Updated(r) ELSE map[r][n]
  BY QuietUpdate
<1>4. \A y \in ToSet(rows) : \A m \in DOMAIN map[r] :
        y.id = map[r][m].id => Agree(y, map[r][m]) /\ y.name = m
  BY <1>1, <1>2 DEF IInv, Held, Mapped
<1>5. old \in Row /\ SetType(set) /\ Updated(r).id = old.id
  BY <1>1, MappedRow, CurrentType, UpdateRows DEF IInv
<1>6. \A f \in Field : Updated(r).conf[f] =
        IF f \in DOMAIN set /\ (f = "env" => old.conf[f] # Zero) THEN set[f] ELSE old.conf[f]
  BY <1>5, MergedRow DEF Updated
<1>7. "env" \in Field
  BY DEF Field
<1>8. Updated(r).conf["env"] = Zero => old.conf["env"] = Zero
  BY <1>5, <1>6, <1>7 DEF SetType
<1>9. CASE n = c
  <2>1. CASE rows' = rows /\ ~Differs(old, set)
    <3>1. Agree(x, old)
      BY <1>1, <1>3, <1>4, <1>5, <1>9, <2>1
    <3>2. \A f \in Field : Updated(r).conf[f] = old.conf[f]
      BY <1>6, <2>1 DEF Differs
    <3>3. QED
      BY <1>3, <1>9, <3>1, <3>2, <1>7 DEF Agree
  <2>2. CASE ToSet(rows') = WithUpdated(r)
    <3>1. PICK y \in ToSet(rows) : x = IF y.id = Updated(r).id THEN Written(y, Updated(r)) ELSE y
      BY <2>2 DEF WithUpdated
    <3>2. y.id = Updated(r).id /\ x = Written(y, Updated(r))
      BY <1>3, <1>9, <3>1
    <3>3. \A f \in Field : x.conf[f] = IF Updated(r).conf[f] = Zero THEN y.conf[f]
                                       ELSE Updated(r).conf[f]
      BY <3>2, UpdateRows, WrittenRow
    <3>4. Agree(y, old)
      BY <1>1, <1>4, <1>5, <3>2
    <3>5. Agree(x, Updated(r))
      BY <1>7, <1>8, <3>3, <3>4 DEF Agree
    <3>6. QED
      BY <1>3, <1>9, <3>5
  <2>3. QED
    BY <2>1, <2>2, UpdateRows
<1>10. CASE n # c
  <2>1. \A y \in ToSet(rows) : y.id = map[r][n].id => y.id # Updated(r).id
    BY <1>1, <1>3, <1>4, <1>5, <1>10
  <2>2. \A y \in ToSet(rows) :
          y.id = Updated(r).id => Written(y, Updated(r)).id = Updated(r).id
    BY UpdateRows, WrittenRow
  <2>3. x \in ToSet(rows)
    <3>1. CASE rows' = rows
      BY <3>1
    <3>2. CASE ToSet(rows') = WithUpdated(r)
      <4>1. PICK y \in ToSet(rows) :
              x = IF y.id = Updated(r).id THEN Written(y, Updated(r)) ELSE y
        BY <3>2 DEF WithUpdated
      <4>2. y.id = x.id
        BY <2>2, <4>1
      <4>3. y.id = map[r][n].id
        BY <1>3, <1>10, <4>2
      <4>4. QED
        BY <2>1, <4>1, <4>3
    <3>3. QED
      BY <3>1, <3>2, UpdateRows
  <2>4. QED
    BY <1>3, <1>4, <1>10, <2>3
<1>11. QED
  BY <1>9, <1>10

\* What an undisturbed request has read stays as it has read it.
LEMMA HeldKept ==
  ASSUME IInv, NEW r \in Request, StepOfRequest(r)
  PROVE  Held'
<1>0. reverted' = reverted
  BY SyncsStay
<1> SUFFICES ASSUME NEW s \in quiet', s \notin reverted, pc'[s] = "specs",
                    NEW n \in DOMAIN map'[s], NEW x \in ToSet(rows'), x.id = map'[s][n].id
             PROVE  Agree(x, map'[s][n])
  BY <1>0 DEF Held, Agree
<1>1. s \in Request /\ Pending(s)'
  BY FailuresAndQuiet DEF IInv, Pending, Active
<1>2. ASSUME s \in quiet, pc[s] = "specs", n \in DOMAIN map[s], map'[s][n] = map[s][n],
             x \in ToSet(rows)
      PROVE  Agree(x, map'[s][n])
  BY <1>2 DEF IInv, Held
<1>3. CASE s # r
  <2>1. s \in quiet /\ rows' = rows
    BY <1>1, <1>3, StillQuiet
  <2>2. pc'[s] = pc[s] /\ map'[s] = map[s]
    BY <1>1, <1>3, OthersStay DEF IInv
  <2>3. QED
    BY <1>2, <2>1, <2>2
<1>4. CASE s = r /\ FindByAppID(r)
  <2>1. rows' = rows /\ pc[r] = "version"
    BY <1>4 DEF FindByAppID
  <2>2. map' = [map EXCEPT ![r] = [m \in Names(ToSet(rows)) |-> LastNamed(rows, m)]]
    <3>1. pc \in [Request -> Label]
      BY DEF IInv, Shape
    <3>2. \/ map' = [map EXCEPT ![r] = [m \in Names(ToSet(rows)) |-> LastNamed(rows, m)]]
          \/ pc' = [pc EXCEPT ![r] = "error"]
      BY <1>4, Zenon DEF FindByAppID, Goto
    <3>3. QED
      BY <1>4, <3>1, <3>2
  <2>3. map \in [Request -> PartialRows] /\ rows \in Seq(Row) /\ Ordered(rows)
    BY DEF IInv, Shape, Ids
  <2>4. n \in Names(ToSet(rows)) /\ map'[r][n] = LastNamed(rows, n)
    BY <1>4, <2>2, <2>3
  <2>5. map'[r][n] \in ToSet(rows)
    BY <2>3, <2>4, LastIsNamed
  <2>6. x = map'[r][n]
    BY <1>4, <2>1, <2>3, <2>5, OneRowPerId
  <2>7. QED
    BY <1>4, <2>6 DEF Agree
<1>5. CASE s = r /\ ~FindByAppID(r)
  <2>1. \/ SkipSpec(r) \/ updateComponent(r) \/ addComponent(r) \/ removeComponent(r)
    BY <1>1, <1>5, OpTypes, PcSteps DEF IInv, AfterVersion
  <2>2. pc[r] = "specs"
    BY <2>1 DEF SkipSpec, updateComponent, addComponent, removeComponent
  <2>3. r \in quiet
    BY <1>5, <2>2, FailuresAndQuiet DEF IInv
  <2>4. CASE SkipSpec(r)
    BY <1>2, <1>5, <2>2, <2>3, <2>4 DEF SkipSpec
  <2>5. CASE updateComponent(r)
    BY <1>5, <2>5, UpdateHeld
  <2>6. CASE addComponent(r)
    <3>1. map' = map /\ ToSet(rows') = ToSet(rows) \cup {Added(r)}
      BY <1>5, <2>6, QuietAdd
    <3>2. map[r][n].id \in Nat /\ map[r][n].id <= lastId /\ lastId \in Nat
      BY <1>5, <3>1, MappedRow DEF IInv, Shape
    <3>3. Added(r).id = lastId + 1
      BY <2>6, AddRows
    <3>4. x \in ToSet(rows)
      BY <1>5, <3>1, <3>2, <3>3
    <3>5. QED
      BY <1>2, <1>5, <2>2, <2>3, <3>1, <3>4
  <2>7. CASE removeComponent(r)
    <3>1. x \in ToSet(rows)
      BY <1>5, <2>7, RemoveRows
    <3>2. n \in DOMAIN map[r] /\ map'[r][n] = map[r][n]
      BY <1>5, <2>7, QuietRemove
    <3>3. QED
      BY <1>2, <1>5, <2>2, <2>3, <3>1, <3>2
  <2>8. QED
    BY <2>1, <2>4, <2>5, <2>6, <2>7
<1>6. QED
  BY <1>3, <1>4, <1>5

\* Rows with one name come from a request that gives it to two of them.
LEMMA NoTwinsKept ==
  ASSUME IInv, NEW r \in Request, StepOfRequest(r)
  PROVE  NoTwins'
<1> SUFFICES ASSUME ~twins', NEW x \in ToSet(rows'), NEW y \in ToSet(rows'), x.name = y.name
             PROVE  x = y
  BY Zenon DEF NoTwins
<1>0. ASSUME ~twins, NEW u \in ToSet(rows), NEW v \in ToSet(rows), u.name = v.name
      PROVE  u = v
  BY <1>0, Zenon DEF IInv, NoTwins
<1>1. CASE UNCHANGED <<rows, twins>>
  BY <1>0, <1>1
<1>2. CASE CreateApplications(r) /\ ~UNCHANGED <<rows, twins>>
  <2>1. Replace(r) /\ pc[r] = "refresh"
    BY <1>2, Zenon DEF CreateApplications
  <2>2. rows' = NewRows(op[r].names, op[r].conf, lastId)
    BY <2>1 DEF Replace
  <2>3. IsInjective(op[r].names)
    BY <2>1, Zenon DEF Replace
  <2>4. QED
    BY <2>2, <2>3 DEF NewRows, IsInjective, ToSet
<1>3. CASE updateComponent(r)
  <2>1. ~twins
    BY <1>3, UpdateRows
  <2>2. PICK u \in ToSet(rows) : u.id = x.id /\ u.name = x.name
    BY <1>3, UpdateKeeps
  <2>3. PICK v \in ToSet(rows) : v.id = y.id /\ v.name = y.name
    BY <1>3, UpdateKeeps
  <2>4. u = v
    BY <1>0, <2>1, <2>2, <2>3
  <2>5. rows' \in Seq(Row) /\ Ordered(rows')
    BY <1>3, UpdateRows
  <2>6. QED
    BY <2>2, <2>3, <2>4, <2>5, OneRowPerId
<1>4. CASE addComponent(r)
  <2>1. ~twins /\ Added(r).name \notin Names(ToSet(rows))
    BY <1>4, AddRows
  <2>2. \A z \in ToSet(rows) : z.name # Added(r).name
    BY <2>1 DEF Names
  <2>3. \A z \in ToSet(rows') : z \in ToSet(rows) \/ z = Added(r)
    BY <1>4, AddRows
  <2>4. QED
    BY <1>0, <2>1, <2>2, <2>3
<1>5. CASE removeComponent(r)
  <2>1. ~twins /\ ToSet(rows') \subseteq ToSet(rows)
    BY <1>5, RemoveRows
  <2>2. QED
    BY <1>0, <2>1
<1>6. QED
  BY <1>1, <1>2, <1>3, <1>4, <1>5, RowsStay

\* The workflow an undisturbed request works on stays the first one, and keeps the steps.
LEMMA SyncedKept ==
  ASSUME IInv, NEW r \in Request, StepOfRequest(r)
  PROVE  Synced'
<1> SUFFICES ASSUME NEW s \in quiet'
             PROVE  /\ pc'[s] = "write" => read'[s] = wfs'[1]
                    /\ pc'[s] = "exec" => ToSet(added'[s]) \subseteq Named(wfs'[1])
                    /\ task'[s] = "waiting" =>
                         read'[s].id = wfs'[1].id /\ ToSet(added'[s]) \subseteq Named(wfs'[1])
                    /\ task'[s] = "reading" =>
                         read'[s] = wfs'[1] /\ ToSet(added'[s]) \subseteq Named(wfs'[1])
  BY DEF Synced, Named
<1>0. \/ Pending(s)'
      \/ pc'[s] \notin {"write", "exec"} /\ task'[s] \notin {"waiting", "reading"}
  BY DEF Pending, Active
<1>1. CASE s # r /\ Pending(s)'
  <2>1. s \in quiet /\ s \in Request /\ wfs' = wfs
    BY <1>1, StillQuiet
  <2>2. /\ pc'[s] = pc[s] /\ added'[s] = added[s] /\ read'[s] = read[s]
        /\ task'[s] = task[s]
    BY <1>1, <2>1, OthersStay DEF IInv
  <2>3. QED
    BY <2>1, <2>2 DEF IInv, Synced
<1>2. CASE s = r
  <2>0. /\ pc \in [Request -> Label] /\ read \in [Request -> Workflow \cup {<<>>}]
        /\ task \in [Request -> {"none", "waiting", "reading", "built"}]
        /\ op[r].kind \in {"refresh", "version", "workflow", "delete"}
    BY OpTypes DEF IInv, Shape
  <2>1. pc[r] # "specs" => added' = added
    BY ListSteps DEF addComponent
  <2>2. ASSUME pc'[r] = "write"
        PROVE  read'[r] = wfs'[1]
    <3>1. ReadSteps(r)
      BY <2>0, <2>2, PcSteps DEF AfterVersion
    <3>2. wfs' = wfs /\ (pc' = [pc EXCEPT ![r] = "exec"] \/ read' = [read EXCEPT ![r] = wfs[1]])
      BY <3>1 DEF ReadSteps, Goto
    <3>3. QED
      BY <2>0, <2>2, <3>2
  <2>3. ASSUME pc'[r] = "exec"
        PROVE  ToSet(added'[r]) \subseteq Named(wfs'[1])
    <3>1. UpdateVersion(r) \/ ReadSteps(r) \/ syncWorkflowSteps(r)
      BY <2>0, <2>3, PcSteps
    <3>2. CASE UpdateVersion(r)
      <4>1. added' = added /\ pc'[r] = AfterVersion(r)
        BY <2>0, <2>3, <3>2 DEF UpdateVersion, Goto, local
      <4>2. added[r] = <<>>
        BY <2>3, <4>1 DEF AfterVersion
      <4>3. QED
        BY <4>1, <4>2 DEF ToSet
    <3>3. CASE ReadSteps(r)
      BY <1>2, <2>0, <2>3, <3>3 DEF ReadSteps, Goto, Fails
    <3>4. CASE syncWorkflowSteps(r)
      <4>1. wfs' = PutWorkflow(SyncedWorkflow(r)) /\ added' = added /\ pc[r] = "write"
        BY <1>2, <3>4 DEF syncWorkflowSteps, SyncedWorkflow, Fails, local
      <4>2. r \in quiet
        BY <1>2, <4>1, FailuresAndQuiet DEF IInv
      <4>3. read[r] = wfs[1] /\ added[r] \in Seq(Name)
        BY <4>1, <4>2 DEF IInv, Synced, Shape
      <4>4. wfs'[1] = SyncedWorkflow(r)
        BY <4>1, <4>3, SyncedWorkflowType, PutWorkflowKeeps
      <4>5. DefaultSteps(added[r]) \subseteq wfs'[1].steps
        BY <4>1, <4>4, SyncedWorkflowType
      <4>6. \A n \in ToSet(added[r]) : \E d \in DefaultSteps(added[r]) : n \in ToSet(d.names)
        BY <4>3, DefaultStepsType
      <4>7. QED
        BY <4>1, <4>5, <4>6 DEF Named
    <3>5. QED
      BY <3>1, <3>2, <3>3, <3>4
  <2>4. ASSUME task'[r] = "waiting"
        PROVE  read'[r].id = wfs'[1].id /\ ToSet(added'[r]) \subseteq Named(wfs'[1])
    <3>1. task[r] # "waiting" \/ GetWorkflow(r)
      BY PcSteps DEF IInv, Kinds, GenerateJobTasks
    <3>2. /\ pc[r] = "exec" /\ wfs' = wfs
          /\ read' = [read EXCEPT ![r] = wfs[1]]
      BY <2>0, <2>4, <3>1, TaskSteps DEF GetWorkflow
    <3>3. r \in quiet
      BY <1>2, <3>2, FailuresAndQuiet DEF IInv
    <3>4. ToSet(added[r]) \subseteq Named(wfs[1])
      BY <3>2, <3>3 DEF IInv, Synced
    <3>5. QED
      BY <2>0, <2>1, <3>2, <3>4
  <2>5. ASSUME task'[r] = "reading"
        PROVE  read'[r] = wfs'[1] /\ ToSet(added'[r]) \subseteq Named(wfs'[1])
    <3>1. task[r] # "reading" \/ GenerateJobTasks(r)
      BY PcSteps DEF IInv, Kinds, GetWorkflow
    <3>2. GetWorkflow(r)
      BY <2>0, <2>5, <3>1, TaskSteps DEF GenerateJobTasks
    <3>3. task[r] = "waiting" /\ UNCHANGED <<wfs, quiet, added>>
      BY <3>2 DEF GetWorkflow, local
    <3>4. read[r].id = wfs[1].id /\ ToSet(added[r]) \subseteq Named(wfs[1])
      BY <1>2, <3>3 DEF IInv, Synced
    <3>5. \E w \in ToSet(wfs) : w.id = wfs[1].id /\ read' = [read EXCEPT ![r] = w]
      BY <3>2, <3>4, FirstWorkflow DEF GetWorkflow
    <3>6. \A w \in ToSet(wfs) : w.id = wfs[1].id => w = wfs[1]
      <4>1. \A i, k \in DOMAIN wfs : wfs[i].id = wfs[k].id => i = k
        BY DEF IInv, Ids
      <4>2. wfs \in Seq(Workflow) /\ wfs # <<>>
        BY DEF IInv, Shape
      <4>3. 1 \in DOMAIN wfs
        BY <4>2
      <4>4. QED
        BY <4>1, <4>3 DEF ToSet
    <3>7. QED
      BY <2>0, <3>3, <3>4, <3>5, <3>6
  <2>6. QED
    BY <1>2, <2>2, <2>3, <2>4, <2>5
<1>3. QED
  BY <1>0, <1>1, <1>2

\* The jobs of a task have the components an undisturbed request has added.
LEMMA AutoExecKept ==
  ASSUME IInv, NEW r \in Request, StepOfRequest(r)
  PROVE  AutoExecSeesUpdate'
<1> SUFFICES ASSUME NEW s \in Request, task'[s] = "built", s \in quiet'
             PROVE  ToSet(added'[s]) \subseteq built'[s]
  BY DEF AutoExecSeesUpdate
<1>1. CASE s # r
  <2>1. s \in quiet
    BY <1>1, FailuresAndQuiet DEF IInv
  <2>2. task[s] = "built" /\ added'[s] = added[s] /\ built'[s] = built[s]
    BY <1>1, OthersStay DEF IInv
  <2>3. QED
    BY <2>1, <2>2 DEF IInv, AutoExecSeesUpdate
<1>2. CASE s = r
  <2>0. task \in [Request -> {"none", "waiting", "reading", "built"}]
    BY DEF IInv, Shape
  <2>1. task[r] # "built"
    BY PcSteps DEF IInv, Kinds, GetWorkflow, GenerateJobTasks
  <2>2. GenerateJobTasks(r)
    BY <1>2, <2>0, <2>1, TaskSteps
  <2>3. /\ task[r] = "reading" /\ UNCHANGED <<added, quiet>>
        /\ built' = [built EXCEPT ![r] = Named(read[r]) \cap Names(ToSet(rows))]
    <3>1. task[r] = "reading" /\ UNCHANGED <<added, quiet>>
      BY <2>2 DEF GenerateJobTasks, local
    <3>2. built' = [built EXCEPT ![r] = Named(read[r]) \cap Names(ToSet(rows))]
      BY <2>2, Zenon DEF GenerateJobTasks, Named
    <3>3. QED
      BY <3>1, <3>2
  <2>4. ToSet(added[r]) \subseteq Named(read[r])
    BY <1>2, <2>3 DEF IInv, Synced
  <2>5. ToSet(added[r]) \subseteq Names(ToSet(rows))
    BY <1>2, <2>3 DEF IInv, Undisturbed, Pending
  <2>6. built'[r] = Named(read[r]) \cap Names(ToSet(rows))
    BY <2>3 DEF IInv, Shape
  <2>7. QED
    BY <1>2, <2>3, <2>4, <2>5, <2>6
<1>3. QED
  BY <1>1, <1>2

\* A step that makes no trouble fails nowhere and disturbs nobody.
LEMMA NoTroubleStep ==
  ASSUME IInv, NEW r \in Request, StepOfRequest(r), ~trouble'
  PROVE  /\ ~trouble
         /\ ~UpdateApplicationWorkflow(r) /\ ~Fails(r)
         /\ FindByID(r) => r \in quiet' /\ \A s \in Request : ~Active(s)
         /\ ~FindByID(r) => quiet' = quiet
<1>1. ~trouble
  BY FailuresAndQuiet, Zenon DEF IInv
<1>2. ~Fails(r)
  BY Zenon DEF Fails
<1>3. ~UpdateApplicationWorkflow(r)
  BY <1>2, Zenon DEF UpdateApplicationWorkflow
<1>4. ASSUME FindByID(r)
      PROVE  r \in quiet' /\ \A s \in Request : ~Active(s)
  <2>1. /\ quiet' = (quiet \ ({s \in Request : Active(s)}
                              \cup {s \in Request : task[s] \in {"waiting", "reading"}}))
                    \cup (IF {s \in Request : Active(s)} = {} THEN {r} ELSE {})
        /\ {s \in Request : Active(s)} = {}
    BY <1>2, <1>4, Zenon DEF FindByID
  <2>2. QED
    BY <2>1
<1>5. ASSUME ~FindByID(r)
      PROVE  quiet' = quiet
  BY <1>2, <1>3, <1>5, Zenon
  DEF StepOfRequest, RequestStep, CreateApplications, FindByAppID, SkipSpec, updateComponent,
      addComponent, removeComponent, UpdateVersion, ReadSteps, syncWorkflowSteps,
      execWorkflow, validateWorkflowComponentRefs, DeleteApplication, GetWorkflow,
      GenerateJobTasks, Succeeds
<1>6. QED
  BY <1>1, <1>2, <1>3, <1>4, <1>5, Zenon

\* The rows against the steps of the first workflow.
Level == Names(ToSet(rows)) = Names(wfs[1].steps)

Apart(r) ==
  Names(ToSet(rows)) = (Names(wfs[1].steps) \ ToSet(removed[r])) \cup ToSet(added[r])

\* What a step of the only active request makes of the difference of rows and steps.
LEMMA BetweenStep ==
  ASSUME IInv, NEW r \in Request, StepOfRequest(r), ~trouble', ~twins'
  PROVE  /\ (\A s \in Request : ~Active(s))' => Level'
         /\ pc'[r] \in {"version", "specs", "sync", "write"} => Apart(r)'
         /\ pc'[r] \in {"refresh", "exec", "workflow", "put", "delete"} => Level'
<1>0. /\ ~trouble /\ ~UpdateApplicationWorkflow(r) /\ ~Fails(r)
      /\ FindByID(r) => \A s \in Request : ~Active(s)
  BY NoTroubleStep
<1>1. ~twins
  <2>1. CASE CreateApplications(r)
    BY <2>1, Zenon DEF CreateApplications, Replace
  <2>2. CASE updateComponent(r) \/ addComponent(r) \/ removeComponent(r)
    BY <2>2, UpdateRows, AddRows, RemoveRows, Zenon
  <2>3. QED
    BY <2>1, <2>2, RowsStay, Zenon
<1>2. /\ (\A s \in Request : ~Active(s)) => Level
      /\ pc[r] \in {"version", "specs", "sync", "write"} => Apart(r)
      /\ pc[r] \in {"refresh", "exec", "workflow", "put", "delete"} => Level
      /\ wfs[1].id = 1
      /\ Active(r) => r \in quiet
  BY <1>0, <1>1, Zenon DEF IInv, Between, Level, Apart
<1>3. added[r] = <<>> /\ removed[r] = <<>> => (Level <=> Apart(r))
  <2>1. ToSet(<<>>) = {}
    BY DEF ToSet
  <2>2. QED
    BY <2>1 DEF Level, Apart
<1>4. CASE FindByID(r)
  <2>1. /\ pc[r] = "idle" /\ UNCHANGED <<rows, wfs, added, removed>>
    BY <1>4 DEF FindByID, local
  <2>2. Level /\ Apart(r)
    BY <1>0, <1>2, <1>3, <1>4, <2>1 DEF IInv, Kinds
  <2>3. QED
    BY <2>1, <2>2 DEF Level, Apart
<1>5. CASE CreateApplications(r)
  <2>1. pc[r] = "refresh" /\ Replace(r)
    BY <1>0, <1>5, Zenon DEF CreateApplications
  <2>2. op[r].names \in Seq(Name) /\ op[r].conf \in Conf /\ lastId \in Nat
    BY <2>1, OpTypes DEF IInv, Kinds, Shape
  <2>3. rows' = NewRows(op[r].names, op[r].conf, lastId)
    BY <2>1 DEF Replace
  <2>4. Names(ToSet(rows')) = ToSet(op[r].names)
    BY <2>2, <2>3, NewRowsMade
  <2>5. wfs'[1].steps = DefaultSteps(op[r].names)
    BY <1>2, <2>1, RefreshKeeps
  <2>6. Level'
    BY <2>2, <2>4, <2>5, DefaultStepsType DEF Level
  <2>7. pc'[r] \in {"done", "error"}
    BY <2>1, PcSteps
  <2>8. QED
    BY <2>6, <2>7
<1>6. CASE FindByAppID(r) \/ SkipSpec(r)
  <2>1. /\ pc[r] \in {"version", "specs"} /\ UNCHANGED <<rows, wfs, added, removed>>
    BY <1>6 DEF FindByAppID, SkipSpec
  <2>2. Apart(r)'
    BY <1>2, <2>1 DEF Apart
  <2>3. pc'[r] = "specs"
    <3>1. pc \in [Request -> Label]
      BY DEF IInv, Shape
    <3>2. QED
      BY <1>0, <1>6, <3>1 DEF FindByAppID, SkipSpec, Goto
  <2>4. Active(r)'
    BY <2>3 DEF Active
  <2>5. QED
    BY <2>2, <2>3, <2>4
<1>7. ASSUME pc[r] = "specs"
      PROVE  r \in quiet /\ Apart(r)
  BY <1>2, <1>7 DEF Active
<1>8. ASSUME pc[r] = "specs", ~FindByID(r)
      PROVE  r \in quiet'
  BY <1>7, <1>8, NoTroubleStep
<1>9. CASE updateComponent(r)
  <2>1. pc[r] = "specs" /\ ~FindByID(r)
    BY <1>9 DEF updateComponent, FindByID
  <2>2. /\ Names(ToSet(rows')) = Names(ToSet(rows))
        /\ UNCHANGED <<pc, added, removed, wfs>>
    BY <1>8, <1>9, <2>1, QuietUpdate
  <2>3. Apart(r)' /\ Active(r)'
    BY <1>7, <2>1, <2>2 DEF Apart, Active
  <2>4. QED
    BY <2>1, <2>2, <2>3
<1>10. CASE addComponent(r)
  <2>1. pc[r] = "specs" /\ ~FindByID(r)
    BY <1>10 DEF addComponent, FindByID
  <2>2. /\ Names(ToSet(rows')) = Names(ToSet(rows)) \cup {Current(r).name}
        /\ ToSet(added'[r]) = ToSet(added[r]) \cup {Current(r).name}
        /\ UNCHANGED <<pc, removed, wfs>>
    BY <1>8, <1>10, <2>1, QuietAdd
  <2>3. Apart(r)' /\ Active(r)'
    BY <1>7, <2>1, <2>2 DEF Apart, Active
  <2>4. QED
    BY <2>1, <2>2, <2>3
<1>11. CASE removeComponent(r)
  <2>1. pc[r] = "specs" /\ ~FindByID(r)
    BY <1>11 DEF removeComponent, FindByID
  <2>2. /\ Names(ToSet(rows)) \ {Current(r).name} \subseteq Names(ToSet(rows'))
        /\ Names(ToSet(rows')) \subseteq Names(ToSet(rows))
        /\ Current(r).name \notin Names(ToSet(rows'))
        /\ Current(r).name \notin ToSet(added[r])
        /\ ToSet(removed'[r]) = ToSet(removed[r]) \cup {Current(r).name}
        /\ UNCHANGED <<pc, added, wfs>>
    BY <1>1, <1>8, <1>11, <2>1, QuietRemove
  <2>3. Apart(r)' /\ Active(r)'
    BY <1>7, <2>1, <2>2 DEF Apart, Active
  <2>4. QED
    BY <2>1, <2>2, <2>3
<1>12. CASE UpdateVersion(r)
  <2>1. /\ pc[r] = "specs" /\ UNCHANGED <<rows, wfs, added, removed>>
        /\ pc'[r] = AfterVersion(r)
    <3>1. pc \in [Request -> Label]
      BY DEF IInv, Shape
    <3>2. QED
      BY <1>0, <1>12, <3>1 DEF UpdateVersion, Goto, local
  <2>2. CASE added[r] # <<>> \/ removed[r] # <<>>
    <3>1. pc'[r] = "sync" /\ Active(r)'
      BY <2>1, <2>2 DEF AfterVersion, Active
    <3>2. QED
      BY <1>7, <2>1, <3>1 DEF Apart
  <2>3. CASE added[r] = <<>> /\ removed[r] = <<>>
    <3>1. pc'[r] = "exec" /\ Active(r)'
      BY <2>1, <2>3 DEF AfterVersion, Active
    <3>2. QED
      BY <1>3, <1>7, <2>1, <2>3, <3>1 DEF Level
  <2>4. QED
    BY <2>2, <2>3
<1>13. CASE ReadSteps(r)
  <2>1. /\ pc[r] = "sync" /\ UNCHANGED <<rows, wfs, added, removed>>
        /\ pc'[r] = "write"
    <3>1. pc \in [Request -> Label]
      BY DEF IInv, Shape
    <3>2. QED
      BY <1>0, <1>13, <3>1 DEF ReadSteps, Goto, local
  <2>2. QED
    BY <1>2, <2>1 DEF Apart, Active
<1>14. CASE syncWorkflowSteps(r)
  <2>1. /\ pc[r] = "write" /\ UNCHANGED <<rows, added, removed>>
        /\ wfs' = PutWorkflow(SyncedWorkflow(r))
    BY <1>0, <1>14 DEF syncWorkflowSteps, SyncedWorkflow, local
  <2>2. r \in quiet /\ Apart(r)
    BY <1>2, <2>1 DEF Active
  <2>3. read[r] = wfs[1] /\ added[r] \in Seq(Name)
    BY <2>1, <2>2 DEF IInv, Synced, Shape
  <2>4. wfs'[1] = SyncedWorkflow(r)
    BY <2>1, <2>3, SyncedWorkflowType, PutWorkflowKeeps
  <2>5. wfs'[1].steps = {s \in wfs[1].steps : s.name \notin ToSet(removed[r])}
                        \cup DefaultSteps(added[r])
    BY <2>1, <2>3, <2>4, SyncedWorkflowType
  <2>6. Names(DefaultSteps(added[r])) = ToSet(added[r])
    BY <2>3, DefaultStepsType
  <2> DEFINE left == {s \in wfs[1].steps : s.name \notin ToSet(removed[r])}
  <2>7. Names(left) = Names(wfs[1].steps) \ ToSet(removed[r])
    BY DEF Names
  <2> HIDE DEF left
  <2>8. Names(left \cup DefaultSteps(added[r])) = Names(left) \cup Names(DefaultSteps(added[r]))
    BY DEF Names
  <2>9. Level'
    BY <2>1, <2>2, <2>5, <2>6, <2>7, <2>8 DEF Level, Apart, left
  <2>10. pc'[r] = "exec"
    BY <2>1, PcSteps
  <2>11. QED
    BY <2>9, <2>10
<1>15. CASE execWorkflow(r) \/ validateWorkflowComponentRefs(r) \/ DeleteApplication(r)
  <2>1. /\ pc[r] \in {"exec", "workflow", "delete"} /\ UNCHANGED <<rows, wfs>>
    BY <1>15, Zenon DEF execWorkflow, validateWorkflowComponentRefs, DeleteApplication
  <2>2. Level'
    BY <1>2, <2>1 DEF Level
  <2>3. pc'[r] \in {"done", "put", "error"}
    BY <2>1, PcSteps
  <2>4. QED
    BY <2>2, <2>3
<1>16. CASE GetWorkflow(r) \/ GenerateJobTasks(r)
  <2>1. pc[r] = "done" /\ pc' = pc
    BY <1>16, PcSteps DEF GetWorkflow, GenerateJobTasks, IInv, Kinds
  <2>2. UNCHANGED <<rows, wfs>>
    BY <1>16 DEF GetWorkflow, GenerateJobTasks
  <2>3. (\A s \in Request : ~Active(s))' => \A s \in Request : ~Active(s)
    BY <2>1 DEF Active
  <2>4. QED
    BY <1>2, <2>1, <2>2, <2>3 DEF Level
<1>17. QED
  BY <1>0, <1>4, <1>5, <1>6, <1>9, <1>10, <1>11, <1>12, <1>13, <1>14, <1>15, <1>16
  DEF StepOfRequest, RequestStep

\* Rows and steps go on differing by the two lists of the request that is under way.
LEMMA BetweenKept ==
  ASSUME IInv, NEW r \in Request, StepOfRequest(r)
  PROVE  Between'
<1> SUFFICES ASSUME ~trouble'
             PROVE  /\ wfs'[1].id = 1
                    /\ \A s \in Request : Active(s)' => s \in quiet'
                    /\ ~twins' =>
                         /\ (\A s \in Request : ~Active(s))' => Level'
                         /\ \A s \in Request :
                              /\ pc'[s] \in {"version", "specs", "sync", "write"} =>
                                   Apart(s)'
                              /\ pc'[s] \in {"refresh", "exec", "workflow", "put",
                                             "delete"} => Level'
  BY Zenon DEF Between, Level, Apart
<1>0. /\ ~trouble /\ ~UpdateApplicationWorkflow(r) /\ ~Fails(r)
      /\ FindByID(r) => r \in quiet' /\ \A s \in Request : ~Active(s)
      /\ ~FindByID(r) => quiet' = quiet
  BY NoTroubleStep
<1>1. wfs[1].id = 1 /\ \A s \in Request : Active(s) => s \in quiet
  BY <1>0, Zenon DEF IInv, Between
<1>2. wfs'[1].id = 1
  <2>1. CASE wfs' = wfs
    BY <1>1, <2>1
  <2>2. CASE CreateApplications(r) /\ wfs' # wfs
    <3>1. Replace(r) /\ pc[r] = "refresh"
      BY <2>2, Zenon DEF CreateApplications
    <3>2. QED
      BY <1>1, <3>1, RefreshKeeps
  <2>3. CASE syncWorkflowSteps(r) /\ wfs' # wfs
    <3>1. wfs' = PutWorkflow(SyncedWorkflow(r)) /\ pc[r] = "write"
      BY <2>3 DEF syncWorkflowSteps, SyncedWorkflow
    <3>2. QED
      BY <1>1, <3>1, SyncedWorkflowType, PutWorkflowKeeps
  <2>4. CASE ~CreateApplications(r) /\ ~syncWorkflowSteps(r)
    <3>1. wfs' = wfs
      BY <1>0, <2>4, Zenon DEF StepOfRequest, RequestStep, FindByID, FindByAppID, SkipSpec,
         updateComponent, addComponent, removeComponent, UpdateVersion, ReadSteps,
         execWorkflow, validateWorkflowComponentRefs, DeleteApplication, GetWorkflow,
         GenerateJobTasks
    <3>2. QED
      BY <2>1, <3>1
  <2>5. QED
    BY <2>1, <2>2, <2>3, <2>4
<1>3. ASSUME NEW s \in Request, Active(s)'
      PROVE  s \in quiet'
  <2>1. CASE s = r
    <3>1. FindByID(r) \/ Active(r)
      BY <1>3, <2>1, PcSteps DEF Active
    <3>2. QED
      BY <1>0, <1>1, <2>1, <3>1
  <2>2. CASE s # r
    <3>1. Active(s)
      BY <1>3, <2>2, OthersStay DEF IInv, Active
    <3>2. QED
      BY <1>0, <1>1, <3>1
  <2>3. QED
    BY <2>1, <2>2
<1>4. ASSUME ~twins'
      PROVE  /\ (\A s \in Request : ~Active(s))' => Level'
             /\ \A s \in Request :
                  /\ pc'[s] \in {"version", "specs", "sync", "write"} => Apart(s)'
                  /\ pc'[s] \in {"refresh", "exec", "workflow", "put", "delete"} => Level'
  <2>1. /\ (\A s \in Request : ~Active(s))' => Level'
        /\ pc'[r] \in {"version", "specs", "sync", "write"} => Apart(r)'
        /\ pc'[r] \in {"refresh", "exec", "workflow", "put", "delete"} => Level'
    BY <1>4, BetweenStep
  <2>2. ASSUME NEW s \in Request, s # r, Active(s)'
        PROVE  /\ pc'[s] \in {"version", "specs", "sync", "write"} => Apart(s)'
               /\ pc'[s] \in {"refresh", "exec", "workflow", "put", "delete"} => Level'
    <3>1. s \in quiet' /\ Pending(s)'
      BY <1>3, <2>2 DEF Pending
    <3>2. UNCHANGED <<rows, wfs, twins>>
      BY <2>2, <3>1, StillQuiet
    <3>3. pc'[s] = pc[s] /\ added'[s] = added[s] /\ removed'[s] = removed[s]
      BY <2>2, OthersStay DEF IInv
    <3>4. ~twins
      BY <1>4, <3>2, Zenon
    <3>5. /\ pc[s] \in {"version", "specs", "sync", "write"} => Apart(s)
          /\ pc[s] \in {"refresh", "exec", "workflow", "put", "delete"} => Level
      BY <1>0, <2>2, <3>4, Zenon DEF IInv, Between, Level, Apart
    <3>6. QED
      BY <3>2, <3>3, <3>5 DEF Level, Apart
  <2>3. \A s \in Request :
          pc'[s] \in {"version", "specs", "sync", "write", "refresh", "exec", "workflow",
                      "put", "delete"} => Active(s)'
    BY DEF Active
  <2>4. QED
    BY <2>1, <2>2, <2>3
<1>5. QED
  BY <1>2, <1>3, <1>4

\* The spec is the last one so far for its name, and comes after no addition of it.
Latest(r, i, n) ==
  /\ \A k \in 1 .. i - 1 :
       op[r].specs[k].name = op[r].specs[i].name => op[r].specs[k].action # "add"
  /\ \A k \in 1 .. n : op[r].specs[k].name = op[r].specs[i].name => k <= i

\* A spec of another name goes on standing.
LEMMA StandsOn ==
  ASSUME IInv, NEW r \in Request, NEW s \in ComponentUpdateSpec, Stands(s),
         \/ rows' = rows
         \/ /\ s.name # Current(r).name
            /\ SkipSpec(r) \/ updateComponent(r) \/ addComponent(r) \/ removeComponent(r)
  PROVE  Stands(s)'
<1>1. \A x : x.name = s.name => (x \in ToSet(rows') <=> x \in ToSet(rows))
  BY SpecRows
<1>2. s.name \in Names(ToSet(rows')) <=> s.name \in Names(ToSet(rows))
  BY <1>1 DEF Names
<1>3. s.action \in {"update", "add", "remove"}
  BY DEF ComponentUpdateSpec
<1>4. CASE s.action = "add"
  BY <1>2, <1>4 DEF Stands
<1>5. CASE s.action = "remove"
  BY <1>2, <1>5 DEF Stands
<1>6. CASE s.action = "update"
  BY <1>1, <1>6 DEF Stands, Says
<1>7. QED
  BY <1>3, <1>4, <1>5, <1>6

\* After an update of an undisturbed request the row of the name says what is set.
LEMMA UpdateSays ==
  ASSUME IInv, NEW r \in Request, updateComponent(r), r \in quiet', r \notin reverted, ~twins,
         NEW x \in ToSet(rows'), x.name = Current(r).name
  PROVE  Says(x, Current(r).set)
<1> DEFINE c == Current(r).name
           set == Current(r).set
           old == map[r][c]
<1>1. c \in DOMAIN map[r] /\ pc[r] = "specs" /\ at[r] < Len(op[r].specs)
  BY DEF updateComponent
<1>2. r \in quiet
  BY <1>1, FailuresAndQuiet DEF IInv, StepOfRequest, RequestStep
<1>3. old \in Row /\ SetType(set) /\ Updated(r).id = old.id
  BY <1>1, MappedRow, CurrentType, UpdateRows DEF IInv
<1>4. PICK y \in ToSet(rows) : y.id = old.id
  BY <1>1, <1>2 DEF IInv, Undisturbed
<1>5. y.name = c /\ Agree(y, old)
  BY <1>1, <1>2, <1>4 DEF IInv, Mapped, Held
<1>6. \A z \in ToSet(rows) : z.name = c => z = y
  BY <1>5 DEF IInv, NoTwins
<1>7. \A f \in Field : Updated(r).conf[f] =
        IF f \in DOMAIN set /\ (f = "env" => old.conf[f] # Zero) THEN set[f] ELSE old.conf[f]
  BY <1>3, MergedRow DEF Updated
<1>8. CASE rows' = rows /\ ~Differs(old, set)
  <2>1. x = y
    BY <1>6, <1>8
  <2>2. \A f \in DOMAIN set : set[f] = old.conf[f]
    BY <1>8 DEF Differs
  <2>3. QED
    BY <1>3, <1>5, <2>1, <2>2 DEF Says, Agree, SetType
<1>9. CASE ToSet(rows') = WithUpdated(r)
  <2>1. PICK z \in ToSet(rows) : x = IF z.id = Updated(r).id THEN Written(z, Updated(r)) ELSE z
    BY <1>9 DEF WithUpdated
  <2>2. z.name = c
    <3>1. z.id = Updated(r).id => z.name = c
      BY UpdateRows
    <3>2. QED
      BY <2>1, <3>1
  <2>3. z = y
    BY <1>6, <2>2
  <2>4. x = Written(y, Updated(r))
    BY <1>3, <1>4, <2>1, <2>3
  <2>5. \A f \in Field : x.conf[f] = IF Updated(r).conf[f] = Zero THEN y.conf[f]
                                     ELSE Updated(r).conf[f]
    BY <2>4, UpdateRows, WrittenRow
  <2>6. ASSUME NEW f \in DOMAIN set
        PROVE  \/ x.conf[f] = set[f]
               \/ f = "replicas" /\ set[f] = Zero
               \/ f = "env" /\ x.conf[f] = Zero
    <3>1. f \in Field /\ (set[f] = Zero => f = "replicas")
      BY <1>3, <2>6 DEF SetType
    <3>2. CASE f = "env" /\ old.conf[f] = Zero
      BY <1>5, <1>7, <2>5, <3>1, <3>2 DEF Agree
    <3>3. CASE ~(f = "env" /\ old.conf[f] = Zero)
      <4>1. Updated(r).conf[f] = set[f]
        BY <1>7, <2>6, <3>1, <3>3
      <4>2. QED
        BY <2>5, <3>1, <4>1
    <3>4. QED
      BY <3>2, <3>3
  <2>7. QED
    BY <2>6 DEF Says
<1>10. QED
  BY <1>8, <1>9, UpdateRows

\* The spec that an undisturbed request has just handled stands.
LEMMA HandledStands ==
  ASSUME IInv, NEW r \in Request, r \in quiet', r \notin reverted, ~twins, ~twins',
         SkipSpec(r) \/ updateComponent(r) \/ addComponent(r) \/ removeComponent(r),
         NEW c, c = Current(r), c.name \notin ToSet(added[r])
  PROVE  Stands(c)'
<1>1. pc[r] = "specs" /\ at[r] < Len(op[r].specs) /\ StepOfRequest(r)
  BY DEF SkipSpec, updateComponent, addComponent, removeComponent, StepOfRequest, RequestStep
<1>2. r \in quiet
  BY <1>1, FailuresAndQuiet DEF IInv
<1>3. c.action \in {"update", "add", "remove"}
  BY <1>1, CurrentType DEF IInv
<1>4. ASSUME \/ c.action = "add" /\ c.name \in Names(ToSet(rows'))
             \/ c.action = "remove" /\ c.name \notin Names(ToSet(rows'))
             \/ /\ c.action = "update"
                /\ \A x \in ToSet(rows') : x.name = c.name => Says(x, c.set)
      PROVE  Stands(c)'
  BY <1>4 DEF Stands, Says
<1>5. CASE SkipSpec(r)
  <2>1. rows' = rows /\ (c.action = "add") = (c.name \in DOMAIN map[r])
    BY <1>5 DEF SkipSpec
  <2>2. /\ \A n \in DOMAIN map[r] : \E x \in ToSet(rows) : x.id = map[r][n].id /\ x.name = n
        /\ Names(ToSet(rows)) \subseteq DOMAIN map[r] \cup ToSet(added[r])
    <3>1. /\ \A n \in DOMAIN map[r] : \E x \in ToSet(rows) : x.id = map[r][n].id
          /\ Names(ToSet(rows)) \subseteq DOMAIN map[r] \cup ToSet(added[r])
      BY <1>1, <1>2, Zenon DEF IInv, Undisturbed
    <3>2. \A n \in DOMAIN map[r] : \A x \in ToSet(rows) : x.id = map[r][n].id => x.name = n
      BY Zenon DEF IInv, Mapped
    <3>3. QED
      BY <3>1, <3>2, Zenon
  <2>3. c.action = "add" => c.name \in Names(ToSet(rows))
    BY <2>1, <2>2 DEF Names
  <2>4. c.action # "add" => c.name \notin Names(ToSet(rows))
    BY <2>1, <2>2
  <2>5. c.action # "add" => \A x \in ToSet(rows) : x.name # c.name
    BY <2>4 DEF Names
  <2>6. QED
    BY <1>3, <1>4, <2>1, <2>3, <2>4, <2>5
<1>6. CASE updateComponent(r)
  <2>1. c.action = "update"
    BY <1>6 DEF updateComponent
  <2>2. \A x \in ToSet(rows') : x.name = c.name => Says(x, c.set)
    BY <1>6, UpdateSays
  <2>3. QED
    BY <1>4, <2>1, <2>2
<1>7. CASE addComponent(r)
  <2>1. c.action = "add"
    BY <1>7 DEF addComponent
  <2>2. c.name \in Names(ToSet(rows'))
    BY <1>7, QuietAdd
  <2>3. QED
    BY <1>4, <2>1, <2>2
<1>8. CASE removeComponent(r)
  <2>1. c.action = "remove"
    BY <1>8 DEF removeComponent
  <2>2. c.name \notin Names(ToSet(rows'))
    BY <1>8, QuietRemove
  <2>3. QED
    BY <1>4, <2>1, <2>2
<1>9. QED
  BY <1>5, <1>6, <1>7, <1>8

\* The last spec so far for each name goes on standing.
LEMMA StandingKept ==
  ASSUME IInv, NEW r \in Request, StepOfRequest(r)
  PROVE  Standing'
<1>0. op' = op /\ at \in [Request -> Nat]
  BY OthersStay DEF IInv, Shape
<1>r. reverted' = reverted
  BY SyncsStay
<1> SUFFICES ASSUME NEW s \in quiet', s \notin reverted, pc'[s] \in Updating, ~twins',
                    NEW i \in 1 .. at'[s], Latest(s, i, at'[s])
             PROVE  Stands(op[s].specs[i])'
  <2>1. Standing' <=> \A s \in quiet' \ reverted' : pc'[s] \in Updating /\ ~twins' =>
                        \A i \in 1 .. at'[s] :
                          Latest(s, i, at'[s]) => Stands(op[s].specs[i])'
    BY <1>0 DEF Standing, Latest
  <2>2. QED
    BY <1>r, <2>1
<1>1. PICK c : c = op[s].specs[i]
  OBVIOUS
<1>2. Stands(c)' => Stands(op[s].specs[i])'
  BY <1>0, <1>1 DEF Stands
<1>3. s \in Request /\ Pending(s)'
  BY FailuresAndQuiet DEF IInv, Pending, Active, Updating
<1>4. /\ c \in ComponentUpdateSpec /\ op[s].kind = "version"
      /\ op[s].specs \in Seq(ComponentUpdateSpec)
  <2>1. op[s].kind = "version"
    BY <1>0, <1>3, KindsKept DEF Kinds
  <2>2. op[s].specs \in Seq(ComponentUpdateSpec)
    BY <1>3, <2>1, OpTypes DEF IInv
  <2>3. at'[s] <= Len(op[s].specs)
    BY <1>0, <1>3, <2>1, ProgressKept DEF Progress
  <2>4. at'[s] \in Nat
    BY <1>3, PlacesKept
  <2>5. QED
    BY <1>1, <2>1, <2>2, <2>3, <2>4
<1>5. CASE s # r
  <2>1. s \in quiet /\ UNCHANGED <<rows, twins>>
    BY <1>3, <1>5, StillQuiet
  <2>2. pc'[s] = pc[s] /\ at'[s] = at[s]
    BY <1>3, <1>5, OthersStay DEF IInv
  <2>3. ~twins
    BY <2>1, Zenon
  <2>4. Stands(c)
    BY <1>1, <2>1, <2>2, <2>3 DEF IInv, Standing, Latest
  <2>5. QED
    BY <1>2, <1>4, <2>1, <2>4, StandsOn
<1>6. CASE s = r /\ UNCHANGED <<rows, twins, at>> /\ pc[r] \in Updating
  <2>1. r \in quiet /\ ~twins
    BY <1>6, FailuresAndQuiet, Zenon DEF IInv, Kinds, Updating
  <2>2. Stands(c)
    BY <1>1, <1>6, <2>1 DEF IInv, Standing, Latest
  <2>3. QED
    BY <1>2, <1>4, <1>6, <2>2, StandsOn
<1>7. CASE /\ s = r
           /\ SkipSpec(r) \/ updateComponent(r) \/ addComponent(r) \/ removeComponent(r)
  <2>1. pc[r] = "specs" /\ at[r] < Len(op[r].specs) /\ at[r] \in Nat
    BY <1>0, <1>7 DEF SkipSpec, updateComponent, addComponent, removeComponent
  <2>2. r \in quiet
    BY <1>7, <2>1, FailuresAndQuiet DEF IInv
  <2>3. ~twins
    <3>1. CASE SkipSpec(r)
      BY <3>1, Zenon DEF SkipSpec
    <3>2. CASE updateComponent(r) \/ addComponent(r) \/ removeComponent(r)
      BY <3>2, UpdateRows, AddRows, RemoveRows, Zenon
    <3>3. QED
      BY <1>7, <3>1, <3>2
  <2>4. at'[r] = at[r] + 1
    <3>1. CASE SkipSpec(r)
      BY <1>0, <3>1 DEF SkipSpec, Handled
    <3>2. QED
      BY <1>7, <3>1, QuietUpdate, QuietAdd, QuietRemove
  <2>5. CASE i \in 1 .. at[r]
    <3>1. Latest(r, i, at[r])
      BY <1>7, <2>1, <2>4, <2>5 DEF Latest
    <3>2. Stands(c)
      BY <1>1, <1>7, <2>1, <2>2, <2>3, <2>5, <3>1 DEF IInv, Standing, Latest, Updating
    <3>3. c.name # Current(r).name
      <4>1. at[r] + 1 \in 1 .. at'[r] /\ ~(at[r] + 1 <= i)
        BY <2>1, <2>4, <2>5
      <4>2. QED
        BY <1>1, <1>7, <4>1 DEF Latest, Current
    <3>4. QED
      BY <1>2, <1>4, <1>7, <3>2, <3>3, StandsOn
  <2>6. CASE i = at[r] + 1
    <3>1. c = Current(r)
      BY <1>1, <1>7, <2>6 DEF Current
    <3>2. c.name \notin ToSet(added[r])
      <4>1. \A n \in ToSet(added[r]) : \E k \in 1 .. at[r] :
              op[r].specs[k].name = n /\ op[r].specs[k].action = "add"
        BY <1>4, <1>7 DEF IInv, Progress
      <4>2. \A k \in 1 .. at[r] : k \in 1 .. i - 1
        BY <2>1, <2>6
      <4>3. QED
        BY <1>1, <1>7, <4>1, <4>2 DEF Latest
    <3>3. Stands(c)'
      BY <1>7, <2>3, <3>1, <3>2, HandledStands
    <3>4. QED
      BY <1>2, <3>3
  <2>7. i \in 1 .. at[r] \/ i = at[r] + 1
    BY <1>7, <2>1, <2>4
  <2>8. QED
    BY <2>5, <2>6, <2>7
<1>8. CASE s = r /\ FindByAppID(r)
  <2>1. at'[r] = 0
    BY <1>8 DEF FindByAppID, IInv, Kinds
  <2>2. QED
    BY <1>8, <2>1
<1>9. CASE s = r /\ (UpdateVersion(r) \/ ReadSteps(r) \/ syncWorkflowSteps(r))
  <2>1. UNCHANGED <<rows, twins, at>> /\ pc[r] \in Updating
    BY <1>9 DEF UpdateVersion, ReadSteps, syncWorkflowSteps, local, Updating
  <2>2. QED
    BY <1>6, <1>9, <2>1
<1>10. CASE s = r
  <2>1. \/ SkipSpec(r) \/ updateComponent(r) \/ addComponent(r) \/ removeComponent(r)
        \/ FindByAppID(r) \/ UpdateVersion(r) \/ ReadSteps(r) \/ syncWorkflowSteps(r)
    BY <1>3, <1>10, OpTypes, PcSteps DEF IInv, Updating
  <2>2. QED
    BY <1>7, <1>8, <1>9, <1>10, <2>1
<1>11. QED
  BY <1>5, <1>10

-----------------------------------------------------------------------------
(***************************************************************************)
(* A status sync keeps the invariant: it writes to rows what was listed of *)
(* them, and puts every request that is under way among the reverted ones  *)
(* if that changes anything.                                               *)
(***************************************************************************)
\* What a status sync leaves alone, and what it makes of the rows.
LEMMA SyncRows ==
  ASSUME IInv, ListComponents \/ syncComponentStatus
  PROVE  /\ UNCHANGED <<op, app, lastId, wfs, pc, at, map, added, removed, read, task,
                        built, errors, quiet, applied, twins, trouble>>
         /\ rows' \in Seq(Row) /\ Ordered(rows')
         /\ \A x \in ToSet(rows') : \E y \in ToSet(rows) : y.id = x.id /\ y.name = x.name
         /\ \A y \in ToSet(rows) : \E x \in ToSet(rows') : y.id = x.id /\ y.name = x.name
         /\ reverted \subseteq reverted' /\ reverted' \subseteq Request
         /\ \/ rows' = rows
            \/ \A r \in Request : Active(r) => r \in reverted'
         /\ listed' \subseteq listed \cup ToSet(rows)
         /\ syncs' \in 0 .. MaxSyncs
<1>0. /\ rows \in Seq(Row) /\ Ordered(rows) /\ reverted \subseteq Request
      /\ syncs \in 0 .. MaxSyncs /\ MaxSyncs \in Nat
  BY ServiceAssumption DEF IInv, Shape, Ids, Listings
<1>1. UNCHANGED <<op, app, lastId, wfs, pc, at, map, added, removed, read, task, built,
                  errors, quiet, applied, twins, trouble>>
  BY Zenon DEF ListComponents, syncComponentStatus, local
<1>2. CASE ListComponents
  <2>1. UNCHANGED <<rows, reverted>> /\ syncs < MaxSyncs /\ syncs' = syncs + 1
    BY <1>2 DEF ListComponents
  <2>2. listed' \subseteq listed \cup ToSet(rows)
    BY <1>2 DEF ListComponents
  <2>3. syncs' \in 0 .. MaxSyncs
    BY <1>0, <2>1
  <2>4. QED
    BY <1>0, <1>1, <2>1, <2>2, <2>3
<1>3. CASE syncComponentStatus
  <2>1. PICK h \in listed : listed' = listed \ {h} /\ rows' = Put(rows, h)
    BY <1>3 DEF syncComponentStatus
  <2>2. h \in Row /\ \A x \in ToSet(rows) : x.id = h.id => x.name = h.name
    BY DEF IInv, Listings
  <2>3. /\ rows' \in Seq(Row) /\ Ordered(rows')
        /\ ToSet(rows') = {IF x.id = h.id THEN Written(x, h) ELSE x : x \in ToSet(rows)}
    BY <1>0, <2>1, <2>2, PutRows
  <2>4. \A x \in ToSet(rows) : x.id = h.id =>
          Written(x, h).id = x.id /\ Written(x, h).name = x.name
    <3>1. \A x \in ToSet(rows) : x \in Row
      BY <1>0 DEF ToSet
    <3>2. QED
      BY <2>2, <3>1, WrittenRow
  <2>5. /\ \A x \in ToSet(rows') : \E y \in ToSet(rows) : y.id = x.id /\ y.name = x.name
        /\ \A y \in ToSet(rows) : \E x \in ToSet(rows') : y.id = x.id /\ y.name = x.name
    BY <2>3, <2>4
  <2>6. /\ syncs' = syncs
        /\ reverted' = IF rows' = rows THEN reverted
                       ELSE reverted \cup {r \in Request : Active(r)}
    BY <1>3 DEF syncComponentStatus
  <2>7. QED
    BY <1>0, <1>1, <2>1, <2>3, <2>5, <2>6
<1>4. QED
  BY <1>2, <1>3

\* All of the invariant.
LEMMA SyncKeeps ==
  ASSUME IInv, ListComponents \/ syncComponentStatus
  PROVE  IInv'
<1>1. /\ op' = op /\ app' = app /\ lastId' = lastId /\ wfs' = wfs /\ pc' = pc /\ at' = at
      /\ map' = map /\ added' = added /\ removed' = removed /\ read' = read /\ task' = task
      /\ built' = built /\ errors' = errors /\ quiet' = quiet /\ applied' = applied
      /\ twins' = twins /\ trouble' = trouble
  BY SyncRows
<1>2. /\ rows' \in Seq(Row) /\ Ordered(rows')
      /\ \A x \in ToSet(rows') : \E y \in ToSet(rows) : y.id = x.id /\ y.name = x.name
      /\ \A y \in ToSet(rows) : \E x \in ToSet(rows') : y.id = x.id /\ y.name = x.name
  BY SyncRows
<1>3. /\ reverted \subseteq reverted'
      /\ rows' = rows \/ \A r \in Request : Active(r) => r \in reverted'
  BY SyncRows
<1>4. Names(ToSet(rows')) = Names(ToSet(rows))
  BY <1>2 DEF Names
<1>5. Shape' /\ Kinds' /\ Readings' /\ Progress'
  BY <1>1, <1>2 DEF IInv, Shape, Kinds, Readings, Progress
<1>6. Ids' /\ Mapped'
  BY <1>1, <1>2 DEF IInv, Ids, Mapped
<1>7. Listings'
  <2>1. \A h \in ToSet(rows) : h \in Row /\ h.id <= lastId
    BY DEF IInv, Shape, Ids, ToSet
  <2>2. \A h \in ToSet(rows) : \A x \in ToSet(rows) : x.id = h.id => x = h
    BY OneRowPerId DEF IInv, Shape, Ids
  <2>3. \A h \in listed \cup ToSet(rows) :
          h \in Row /\ h.id <= lastId /\ \A x \in ToSet(rows) : x.id = h.id => x.name = h.name
    BY <2>1, <2>2 DEF IInv, Listings
  <2>4. QED
    BY <1>1, <1>2, <2>3, SyncRows DEF Listings
<1>8. VersionMeansApplied' /\ Alone' /\ Synced' /\ AutoExecSeesUpdate'
  BY <1>1 DEF IInv, VersionMeansApplied, Alone, Pending, Active, Synced, Named,
     AutoExecSeesUpdate
<1>9. Undisturbed'
  <2>1. \A r \in quiet : pc[r] = "specs" =>
          \A n \in DOMAIN map[r] : \E x \in ToSet(rows') : x.id = map[r][n].id
    BY <1>2 DEF IInv, Undisturbed
  <2>2. QED
    BY <1>1, <1>4, <2>1 DEF IInv, Undisturbed, Pending, Active
<1>10. NoTwins'
  <2> SUFFICES ASSUME ~twins, NEW x \in ToSet(rows'), NEW y \in ToSet(rows'), x.name = y.name
               PROVE  x = y
    BY <1>1, Zenon DEF NoTwins
  <2>1. PICK u \in ToSet(rows) : u.id = x.id /\ u.name = x.name
    BY <1>2
  <2>2. PICK v \in ToSet(rows) : v.id = y.id /\ v.name = y.name
    BY <1>2
  <2>3. u = v
    BY <2>1, <2>2, Zenon DEF IInv, NoTwins
  <2>4. QED
    BY <1>2, <2>1, <2>2, <2>3, OneRowPerId
<1>11. Between'
  BY <1>1, <1>4, Zenon DEF IInv, Between, Active
<1>12. CASE rows' = rows
  <2>1. Held' /\ Standing'
    BY <1>1, <1>3, <1>12 DEF IInv, Held, Agree, Standing, Stands, Says
  <2>2. QED
    BY <1>5, <1>6, <1>7, <1>8, <1>9, <1>10, <1>11, <2>1 DEF IInv
<1>13. CASE \A r \in Request : Active(r) => r \in reverted'
  <2>1. \A r \in quiet \ reverted' : pc[r] \notin Updating
    BY <1>13 DEF IInv, Shape, Active, Updating
  <2>2. Held' /\ Standing'
    BY <1>1, <2>1 DEF Held, Standing, Updating
  <2>3. QED
    BY <1>5, <1>6, <1>7, <1>8, <1>9, <1>10, <1>11, <2>2 DEF IInv
<1>14. QED
  BY <1>3, <1>12, <1>13

-----------------------------------------------------------------------------
(***************************************************************************)
(* The invariant holds, and the theorems.                                  *)
(***************************************************************************)
\* What earlier requests have left satisfies the invariant.
LEMMA InitInv == Init => IInv
<1> SUFFICES ASSUME Init
             PROVE  IInv
  OBVIOUS
<1>1. PICK x \in Starts :
        /\ rows = NewRows(x.rows, x.conf, 0) /\ lastId = Len(x.rows)
        /\ wfs = <<[id |-> 1, steps |-> DefaultSteps(x.steps)]>>
        /\ twins = ~IsInjective(x.rows)
        /\ trouble = (ToSet(x.rows) # ToSet(x.steps))
  BY DEF Init
<1>2. /\ MaxErrors \in Nat /\ "first" \notin Request
      /\ x.rows \in Seq(Name) /\ x.steps \in Seq(Name) /\ x.conf \in Conf
      /\ MaxSyncs \in Nat
  BY ServiceAssumption
<1>3. /\ rows \in Seq(Row) /\ Ordered(rows)
      /\ lastId \in Nat /\ \A y \in ToSet(rows) : y.id <= lastId
      /\ Names(ToSet(rows)) = ToSet(x.rows)
  <2>1. Len(x.rows) \in Nat /\ 0 + Len(x.rows) = Len(x.rows)
    BY <1>2
  <2>2. QED
    BY <1>1, <1>2, <2>1, NewRowsMade
<1>4. /\ wfs \in Seq(Workflow) /\ wfs # <<>> /\ Len(wfs) = 1 /\ DOMAIN wfs = {1}
      /\ wfs[1] = [id |-> 1, steps |-> DefaultSteps(x.steps)]
      /\ wfs[1].id = 1
      /\ Names(wfs[1].steps) = ToSet(x.steps)
  <2>1. DefaultSteps(x.steps) \in SUBSET Step /\ Names(DefaultSteps(x.steps)) = ToSet(x.steps)
    BY <1>2, DefaultStepsType
  <2>2. [id |-> 1, steps |-> DefaultSteps(x.steps)] \in Workflow
    BY <2>1 DEF Workflow
  <2>3. QED
    BY <1>1, <2>1, <2>2
<1>5. /\ op \in [Request -> Ops]
      /\ app = [live |-> TRUE, version |-> "first"]
      /\ pc = [r \in Request |-> "idle"] /\ at = [r \in Request |-> 0]
      /\ map = [r \in Request |-> NoMap]
      /\ added = [r \in Request |-> <<>>] /\ removed = [r \in Request |-> <<>>]
      /\ read = [r \in Request |-> <<>>]
      /\ task = [r \in Request |-> "none"] /\ built = [r \in Request |-> {}]
      /\ errors = 0 /\ quiet = {} /\ applied = [r \in Request |-> {}]
      /\ listed = {} /\ syncs = 0 /\ reverted = {}
  BY DEF Init
<1>6. NoMap \in PartialRows /\ DOMAIN NoMap = {}
  <2>1. NoMap \in [{} -> Row] /\ {} \in SUBSET Name
    BY DEF NoMap
  <2>2. QED
    BY <2>1, PartialRowsType
<1>7. Shape
  <2>1. app \in [live : BOOLEAN, version : Request \cup {"first"}]
    BY <1>5
  <2>2. pc \in [Request -> Label] /\ task \in [Request -> {"none", "waiting", "reading", "built"}]
    BY <1>5 DEF Label
  <2>3. added \in [Request -> Seq(Name)] /\ removed \in [Request -> Seq(Name)]
    BY <1>5
  <2>4. map \in [Request -> PartialRows]
    BY <1>5, <1>6
  <2>5. QED
    BY <1>2, <1>3, <1>4, <1>5, <2>1, <2>2, <2>3, <2>4 DEF Shape
<1>8. Ids
  BY <1>3, <1>4, <1>5, <1>6 DEF Ids
<1>9. Kinds /\ Readings
  BY <1>5 DEF Kinds, Readings, Updating
<1>10. Progress
  <2> SUFFICES ASSUME NEW r \in Request, op[r].kind = "version"
               PROVE  /\ at[r] <= Len(op[r].specs)
                      /\ pc[r] \notin {"sync", "write", "exec"}
                      /\ 1 .. at[r] = {} /\ ToSet(added[r]) = {}
    BY DEF Progress
  <2>1. op[r].specs \in Seq(ComponentUpdateSpec)
    BY <1>7, OpTypes
  <2>2. Len(op[r].specs) \in Nat
    BY <2>1
  <2>3. QED
    BY <1>5, <2>2 DEF ToSet
<1>11. Mapped /\ Listings
  BY <1>2, <1>5, <1>6 DEF Mapped, Listings
<1>12. VersionMeansApplied
  BY <1>2, <1>5 DEF VersionMeansApplied
<1>13. Alone /\ Undisturbed /\ Held /\ Synced /\ Standing /\ AutoExecSeesUpdate
  BY <1>5 DEF Alone, Undisturbed, Held, Synced, Standing, AutoExecSeesUpdate
<1>14. NoTwins
  <2> SUFFICES ASSUME ~twins, NEW u \in ToSet(rows), NEW v \in ToSet(rows), u.name = v.name
               PROVE  u = v
    BY Zenon DEF NoTwins
  <2>1. IsInjective(x.rows)
    BY <1>1, Zenon
  <2>2. QED
    BY <1>1, <2>1 DEF NewRows, IsInjective, ToSet
<1>15. Between
  <2>1. \A r \in Request : ~Active(r) /\ pc[r] = "idle"
    BY <1>5 DEF Active
  <2>2. ~trouble => ToSet(x.rows) = ToSet(x.steps)
    BY <1>1, Zenon
  <2>3. QED
    BY <1>3, <1>4, <2>1, <2>2, Zenon DEF Between
<1>16. QED
  BY <1>7, <1>8, <1>9, <1>10, <1>11, <1>12, <1>13, <1>14, <1>15 DEF IInv

\* Every step keeps the invariant.
LEMMA NextInv == IInv /\ [Next]_vars => IInv'
<1> SUFFICES ASSUME IInv, [Next]_vars
             PROVE  IInv'
  OBVIOUS
<1>1. ASSUME NEW r \in Request, StepOfRequest(r)
      PROVE  IInv'
  BY <1>1, ShapeKept, IdsKept, KindsKept, ReadingsKept, ProgressKept, MappedKept,
     ListingsKept, VersionKept, AloneKept, UndisturbedKept, HeldKept, NoTwinsKept,
     SyncedKept, BetweenKept, StandingKept, AutoExecKept, Zenon DEF IInv
<1>2. CASE UNCHANGED vars
  <2>1. /\ op' = op /\ app' = app /\ rows' = rows /\ lastId' = lastId /\ wfs' = wfs
        /\ pc' = pc /\ at' = at /\ map' = map /\ added' = added /\ removed' = removed
        /\ read' = read /\ task' = task /\ built' = built /\ errors' = errors
        /\ quiet' = quiet /\ applied' = applied /\ twins' = twins /\ trouble' = trouble
        /\ listed' = listed /\ syncs' = syncs /\ reverted' = reverted
    BY <1>2 DEF vars
  <2>2. Shape' /\ Ids' /\ Kinds' /\ Readings' /\ Progress' /\ Mapped' /\ Listings'
    BY <2>1 DEF IInv, Shape, Ids, Kinds, Readings, Progress, Mapped, Listings
  <2>3. VersionMeansApplied' /\ Alone' /\ Undisturbed' /\ Synced' /\ AutoExecSeesUpdate'
    BY <2>1 DEF IInv, VersionMeansApplied, Alone, Undisturbed, Pending, Active, Synced,
       Named, AutoExecSeesUpdate
  <2>4. NoTwins' /\ Between'
    BY <2>1, Zenon DEF IInv, NoTwins, Between, Active
  <2>5. Standing' /\ Held'
    BY <2>1 DEF IInv, Standing, Stands, Says, Held, Agree
  <2>6. QED
    BY <2>2, <2>3, <2>4, <2>5 DEF IInv
<1>3. CASE ListComponents \/ syncComponentStatus
  BY <1>3, SyncKeeps
<1>4. QED
  BY <1>1, <1>2, <1>3 DEF Next, StepOfRequest, Terminated

\* The invariant holds in every state.
LEMMA Invariance == Spec => []IInv
BY InitInv, NextInv, PTL DEF Spec

\* However the requests overlap and whichever calls fail, the rows stay in the order of
\* their ids, ids are never given twice, a map of UpdateVersion holds rows of the names it
\* is asked by, and a task has jobs for components only.
THEOREM ServiceTypeCorrect == Spec => []TypeOK
<1>1. ASSUME IInv
      PROVE  TypeOK
  <2>1. /\ op \in [Request -> Ops]
        /\ app \in [live : BOOLEAN, version : Request \cup {"first"}]
        /\ errors \in 0 .. MaxErrors /\ syncs \in 0 .. MaxSyncs
    BY <1>1 DEF IInv, Shape, Listings
  <2>2. \A i \in DOMAIN rows : rows[i] \in [id : 1 .. lastId, name : Name, conf : Conf]
    <3> SUFFICES ASSUME NEW i \in DOMAIN rows
                 PROVE  rows[i] \in [id : 1 .. lastId, name : Name, conf : Conf]
      OBVIOUS
    <3>1. rows[i] \in Row /\ rows[i].id <= lastId /\ lastId \in Nat
      BY <1>1 DEF IInv, Shape, Ids, ToSet
    <3>2. QED
      BY <3>1 DEF Row
  <2>3. \A i, k \in DOMAIN rows : i < k => rows[i].id < rows[k].id
    BY <1>1 DEF IInv, Ids, Ordered
  <2>4. \A r \in Request :
          /\ pc[r] \in {"idle", "refresh", "version", "specs", "sync", "write", "exec",
                        "workflow", "put", "delete", "done", "error"}
          /\ \A n \in DOMAIN map[r] : map[r][n].name = n
          /\ task[r] \in {"none", "waiting", "reading", "built"}
          /\ built[r] \subseteq Name
    BY <1>1 DEF IInv, Shape, Mapped, Label
  <2>5. QED
    BY <2>1, <2>2, <2>3, <2>4 DEF TypeOK
<1>2. QED
  BY <1>1, Invariance, PTL

\* The application has the version of an UpdateVersion only if every component the request
\* adds or removes has been stored, whichever of its calls fail and whatever runs beside it.
THEOREM VersionStandsForComponents == Spec => []VersionMeansApplied
<1>1. IInv => VersionMeansApplied
  BY DEF IInv
<1>2. QED
  BY <1>1, Invariance, PTL

\* As long as no call has failed, requests have come one after the other, none has given
\* one name to two rows and the user has not set a workflow, the default workflow has a step
\* for every component and for nothing else, between the requests.
THEOREM StepsFollowComponents == Spec => []StepsCover
<1>1. IInv => StepsCover
  BY Zenon DEF IInv, Between, StepsCover
<1>2. QED
  BY <1>1, Invariance, PTL

\* The jobs of a task that an undisturbed UpdateVersion has started include those of every
\* component it has added, whichever workflow is the first.
THEOREM TaskSeesUpdate == Spec => []AutoExecSeesUpdate
<1>1. IInv => AutoExecSeesUpdate
  BY DEF IInv
<1>2. QED
  BY <1>1, Invariance, PTL

\* Whatever has gone wrong before, an undisturbed UpdateVersion returns with the rows as its
\* last spec for each component asks: excepted are the components it has itself added before,
\* no replicas, variables of a component without Properties, and what a status sync reverts.
THEOREM UndisturbedUpdateIsStored == Spec => QuietUpdateIsStored
<1> DEFINE Stored(r) ==
             /\ pc[r] = "exec" /\ pc'[r] = "done" /\ r \in quiet' \ reverted' /\ ~twins
             => LET specs == op[r].specs
                IN  \A i \in DOMAIN specs :
                      /\ \A k \in 1 .. i - 1 :
                           specs[k].name = specs[i].name => specs[k].action # "add"
                      /\ \A k \in DOMAIN specs : specs[k].name = specs[i].name => k <= i
                      => Stands(specs[i])
<1>1. ASSUME IInv, [Next]_vars, NEW r \in Request, pc[r] = "exec", pc'[r] = "done",
             r \in quiet' \ reverted', ~twins
      PROVE  Stored(r)
  <2>0. pc' # pc
    BY <1>1
  <2>1. PICK s \in Request : StepOfRequest(s)
    BY <1>1, <2>0
    DEF Next, StepOfRequest, vars, Terminated, ListComponents, syncComponentStatus
  <2>2. r \in quiet \ reverted
    BY <1>1, <2>1, FailuresAndQuiet, SyncsStay DEF IInv
  <2>3. op[r].kind = "version" /\ at[r] = Len(op[r].specs)
    BY <1>1 DEF IInv, Kinds, Progress, Updating
  <2>4. op[r].specs \in Seq(ComponentUpdateSpec)
    BY <1>1, <2>3, OpTypes DEF IInv
  <2>5. DOMAIN op[r].specs = 1 .. at[r]
    BY <2>3, <2>4
  <2>6. QED
    BY <1>1, <2>2, <2>5 DEF IInv, Standing, Updating
<1>2. ASSUME IInv, [Next]_vars
      PROVE  \A r \in Request : Stored(r)
  BY <1>1, <1>2
<1>3. QED
  BY <1>2, Invariance, PTL DEF QuietUpdateIsStored, Spec
=============================================================================
