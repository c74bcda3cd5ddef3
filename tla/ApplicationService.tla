-------------------------- MODULE ApplicationService --------------------------
(***************************************************************************)
(* The requests that change a stored application                           *)
(* (domain/service/application.go): CreateApplications on an existing id,  *)
(* UpdateVersion, UpdateApplicationWorkflow and DeleteApplication, the     *)
(* worker that builds the jobs of a task from the rows, and the syncs that *)
(* write the status of a component (server.go).  Requests of several       *)
(* clients run at the same time; every database call is a step of its own  *)
(* and may fail, with or without effect.  Only CreateApplications runs in  *)
(* a transaction.                                                          *)
(***************************************************************************)
EXTENDS Integers, Sequences, FiniteSets, SequencesExt

CONSTANTS
  Request,    \* the requests
  Name,       \* the names of components and steps, in lower case
  Value,      \* what the fields of a component may say
  Zero,       \* the zero value: no image, no replicas, no Properties
  One,        \* the replicas of a component that does not say how many
  Ops,        \* what a request may ask for
  Starts,     \* what earlier requests have left: the names of rows and of steps
  MaxErrors,  \* bound: database calls that fail
  MaxSyncs    \* bound: status syncs

\* "env" stands for the Properties of a component and for one variable in them.
Field == {"image", "replicas", "env"}

Conf == [Field -> Value \cup {Zero}]

\* A spec sets some of the fields; an image or a variable it sets is not empty.
ComponentUpdateSpec ==
  [action : {"update", "add", "remove"}, name : Name,
   set : {s \in UNION {[F -> Value \cup {Zero}] : F \in SUBSET Field} :
            \A f \in DOMAIN s : s[f] = Zero => f = "replicas"}]

\* A step of a workflow and the components it names.  The order of the steps is
\* JobBuilder's: a workflow has the set of its steps.
Step == [name : Name, names : Seq(Name)]

(***************************************************************************)
(* An operation has a kind and                                             *)
(*   refresh   names: the components, with the conf;                       *)
(*   version   specs: what to do with which component; autoExec;           *)
(*   workflow  steps: the steps; fresh: no workflow id is given.           *)
(***************************************************************************)
ASSUME ServiceAssumption ==
  /\ MaxErrors \in Nat /\ MaxSyncs \in Nat /\ "first" \notin Request
  /\ Zero \notin Value /\ One \in Value
  /\ \A x \in Starts : x.rows \in Seq(Name) /\ x.steps \in Seq(Name) /\ x.conf \in Conf
  /\ \A o \in Ops :
       \/ o.kind = "refresh" /\ o.names \in Seq(Name) /\ o.conf \in Conf
       \/ o.kind = "version" /\ o.specs \in Seq(ComponentUpdateSpec)
       \/ o.kind = "workflow" /\ \A s \in o.steps : s \in Step
       \/ o.kind = "delete"

VARIABLES
  op,       \* what each request asks for
  app,      \* the application: [live, version], version is the request that set it
  rows,     \* the component rows in the order of their ids: [id, name, conf]
  lastId,   \* the last id given to a row
  wfs,      \* the workflows as List returns them: [id, steps]; 1 is the default one
  pc,       \* where each request stands
  at,       \* UpdateVersion: how many specs it has handled
  map,      \* UpdateVersion: componentMap, the rows it has read
  added,    \* UpdateVersion: addedComponents
  removed,  \* UpdateVersion: removedComponents
  changed,  \* UpdateVersion: whether updatedComponents is not empty
  read,     \* the workflow the request or the worker has read
  task,     \* the task of a request: "none", "waiting", "reading" or "built"
  built,    \* the components the task has jobs for
  listed,   \* the rows that status syncs have listed and not put yet
  syncs,    \* how many status syncs there have been
  errors,   \* how many calls have failed
  quiet,    \* history: the requests during which none failed and none overlapped
  applied,  \* history: the specs whose call took effect, or that needed none
  twins,    \* history: two rows had one name
  reverted, \* history: the requests during which a sync put an outdated row
  trouble   \* history: a call failed, requests overlapped, or the user set a workflow

vars == <<op, app, rows, lastId, wfs, pc, at, map, added, removed, changed, read, task,
          built, listed, syncs, errors, quiet, applied, twins, reverted, trouble>>

\* What only the status syncs change.
syncing == <<listed, syncs, reverted>>

local == <<at, map, added, removed, changed>>

Active(r) == pc[r] \notin {"idle", "done", "error"}

Names(s) == {x.name : x \in s}

\* The step of a component in a default workflow.
StepOf(n) == [name |-> n, names |-> <<n>>]

DefaultSteps(names) == {StepOf(n) : n \in ToSet(names)}

NewRows(names, conf, id) ==
  [i \in DOMAIN names |-> [id |-> id + i, name |-> names[i], conf |-> conf]]

NoMap == [n \in {} |-> 0]

Init ==
  /\ op \in [Request -> Ops]
  /\ app = [live |-> TRUE, version |-> "first"]
  /\ \E x \in Starts :
       /\ rows = NewRows(x.rows, x.conf, 0) /\ lastId = Len(x.rows)
       /\ wfs = <<[id |-> 1, steps |-> DefaultSteps(x.steps)]>>
       /\ twins = ~IsInjective(x.rows)
       /\ trouble = (ToSet(x.rows) # ToSet(x.steps))
  /\ pc = [r \in Request |-> "idle"]
  /\ at = [r \in Request |-> 0]
  /\ map = [r \in Request |-> NoMap]
  /\ added = [r \in Request |-> <<>>] /\ removed = [r \in Request |-> <<>>]
  /\ changed = [r \in Request |-> FALSE]
  /\ read = [r \in Request |-> <<>>]
  /\ task = [r \in Request |-> "none"] /\ built = [r \in Request |-> {}]
  /\ listed = {} /\ syncs = 0 /\ reverted = {}
  /\ errors = 0
  /\ quiet = {} /\ applied = [r \in Request |-> {}]

-----------------------------------------------------------------------------
(***************************************************************************)
(* Database calls.                                                         *)
(***************************************************************************)
Goto(r, label) == pc' = [pc EXCEPT ![r] = label]

\* A call of r succeeds, or fails.
Succeeds == UNCHANGED <<errors, quiet, trouble>>

Fails(r) ==
  /\ errors < MaxErrors /\ errors' = errors + 1
  /\ quiet' = quiet \ {r} /\ trouble' = TRUE

\* Seeded fault: Put inserts a row that is not there.
PutUpserts(rs, row) ==
  IF \E i \in DOMAIN rs : rs[i].id = row.id
  THEN [i \in DOMAIN rs |-> IF rs[i].id = row.id THEN row ELSE rs[i]]
  ELSE Append(rs, row)

\* What becomes of the row old: zero values are not written.
Written(old, row) ==
  [row EXCEPT !.conf = [f \in Field |-> IF @[f] = Zero THEN old.conf[f] ELSE @[f]]]

\* Updates with the id in its condition: no row, no effect, no error.
Put(rs, row) ==
  [i \in DOMAIN rs |-> IF rs[i].id = row.id THEN Written(rs[i], row) ELSE rs[i]]

Delete(rs, row) == RemoveAt(rs, CHOOSE i \in DOMAIN rs : rs[i].id = row.id)

\* The request arrives and finds its application, or not.
FindByID(r) ==
  /\ pc[r] = "idle"
  /\ LET others == {s \in Request : Active(s)}
         pending == {s \in Request : task[s] \in {"waiting", "reading"}}
         alone == IF others = {} THEN {r} ELSE {}
     IN  \/ /\ quiet' = (quiet \ (others \cup pending)) \cup alone
            /\ trouble' = (trouble \/ others # {})
            /\ Goto(r, IF app.live THEN op[r].kind ELSE "error")
            /\ UNCHANGED errors
         \/ Goto(r, "error") /\ Fails(r)
  /\ UNCHANGED <<op, syncing, app, rows, lastId, wfs, local, read, task, built, applied,
                 twins>>

-----------------------------------------------------------------------------
(***************************************************************************)
(* CreateApplications with an id: the application is added again or put,   *)
(* its rows are replaced and the steps of the default workflow are set,    *)
(* all in one transaction.                                                 *)
(***************************************************************************)
Replace(r) ==
  /\ app' = [live |-> TRUE, version |-> r]
  /\ rows' = NewRows(op[r].names, op[r].conf, lastId)
  /\ lastId' = lastId + Len(op[r].names)
  /\ wfs' = [i \in DOMAIN wfs |->
              IF wfs[i].id = 1 THEN [wfs[i] EXCEPT !.steps = DefaultSteps(op[r].names)]
              ELSE wfs[i]]
  /\ twins' = (twins \/ ~IsInjective(op[r].names))

CreateApplications(r) ==
  /\ pc[r] = "refresh"
  /\ \/ Replace(r) /\ Goto(r, "done") /\ Succeeds
     \/ Replace(r) /\ Goto(r, "error") /\ Fails(r)
     \/ UNCHANGED <<app, rows, lastId, wfs, twins>> /\ Goto(r, "error") /\ Fails(r)
  /\ UNCHANGED <<op, syncing, local, read, task, built, applied>>

-----------------------------------------------------------------------------
(***************************************************************************)
(* UpdateVersion.                                                          *)
(***************************************************************************)
Current(r) == op[r].specs[at[r] + 1]

\* Of rows with one name the last one counts.
LastNamed(rs, n) == rs[SelectLastInSeq(rs, LAMBDA x : x.name = n)]

\* The rows are read once.
FindByAppID(r) ==
  /\ pc[r] = "version"
  /\ \/ /\ map' = [map EXCEPT ![r] = [n \in Names(ToSet(rows)) |-> LastNamed(rows, n)]]
        /\ Goto(r, "specs") /\ Succeeds
     \/ UNCHANGED map /\ Goto(r, "error") /\ Fails(r)
  /\ UNCHANGED <<op, syncing, app, rows, lastId, wfs, at, added, removed, changed, read,
                 task, built, applied, twins>>

\* The next spec; its call has taken effect, or none was needed.
Handled(r) ==
  /\ at' = [at EXCEPT ![r] = @ + 1]
  /\ applied' = [applied EXCEPT ![r] = @ \cup {at[r] + 1}]

\* A spec for a component that is not there, or that is there already.
SkipSpec(r) ==
  /\ pc[r] = "specs" /\ at[r] < Len(op[r].specs)
  /\ (Current(r).action = "add") = (Current(r).name \in DOMAIN map[r])
  /\ Handled(r)
  /\ UNCHANGED <<op, syncing, app, rows, lastId, wfs, pc, map, added, removed, changed,
                 read, task, built, errors, quiet, trouble, twins>>

\* Seeded fault: only another image is a change.
DiffersInImage(row, set) == "image" \in DOMAIN set /\ set["image"] # row.conf["image"]

\* A variable that is set counts as a change, whatever it was, and even if it is
\* dropped.
Differs(row, set) == \E f \in DOMAIN set : f = "env" \/ set[f] # row.conf[f]

\* The row with what is set.  Without Properties there is nothing to merge a
\* variable into.
Merged(row, set) ==
  [row EXCEPT !.conf = [f \in Field |->
     IF f \in DOMAIN set /\ (f = "env" => @[f] # Zero) THEN set[f] ELSE @[f]]]

\* The row that was read is put with what is set, all of it.  A failure is not an
\* error of the request, and the row it holds has the new values all the same.
updateComponent(r) ==
  /\ pc[r] = "specs" /\ at[r] < Len(op[r].specs)
  /\ Current(r).action = "update" /\ Current(r).name \in DOMAIN map[r]
  /\ LET old == map[r][Current(r).name]
         row == Merged(old, Current(r).set)
         differs == Differs(old, Current(r).set)
     IN  /\ map' = [map EXCEPT ![r][Current(r).name] = row]
         /\ \/ /\ ~differs
               /\ UNCHANGED <<rows, changed>> /\ Handled(r) /\ Succeeds
            \/ /\ differs
               /\ rows' = Put(rows, row)
               /\ changed' = [changed EXCEPT ![r] = TRUE]
               /\ Handled(r) /\ Succeeds
            \/ /\ differs
               /\ rows' \in {rows, Put(rows, row)}
               /\ at' = [at EXCEPT ![r] = @ + 1]
               /\ UNCHANGED <<changed, applied>> /\ Fails(r)
  /\ UNCHANGED <<op, syncing, app, lastId, wfs, pc, added, removed, read, task, built,
                 twins>>

\* Seeded fault: a failed insert is passed over, as a failed update is.
addComponentFailsNot(r) ==
  /\ at' = [at EXCEPT ![r] = @ + 1] /\ UNCHANGED pc

\* The request ends with what it has stored so far.
addComponentFails(r) == Goto(r, "error") /\ UNCHANGED at

\* What a new component has: the zero values are stored, too.
NewConf(set) ==
  [f \in Field |-> IF f \in DOMAIN set THEN set[f]
                   ELSE IF f = "replicas" THEN One ELSE Zero]

\* A row with a new id.  The map is not told of it.
addComponent(r) ==
  /\ pc[r] = "specs" /\ at[r] < Len(op[r].specs)
  /\ Current(r).action = "add" /\ Current(r).name \notin DOMAIN map[r]
  /\ LET new == Append(rows, [id |-> lastId + 1, name |-> Current(r).name,
                              conf |-> NewConf(Current(r).set)])
     IN  \/ /\ rows' = new /\ lastId' = lastId + 1
            /\ added' = [added EXCEPT ![r] = Append(@, Current(r).name)]
            /\ Handled(r)
            /\ Succeeds /\ UNCHANGED pc
         \/ /\ \/ rows' = new /\ lastId' = lastId + 1
               \/ UNCHANGED <<rows, lastId>>
            /\ addComponentFails(r) /\ Fails(r)
            /\ UNCHANGED <<added, applied>>
  /\ twins' = (twins \/ Current(r).name \in Names(ToSet(rows)))
  /\ UNCHANGED <<op, syncing, app, wfs, map, removed, changed, read, task, built>>

\* delete(componentMap, compName)
Forget(r) ==
  map' = [map EXCEPT ![r] = [n \in DOMAIN @ \ {Current(r).name} |-> @[n]]]

\* The row that was read is deleted; a row that is gone is an error.
removeComponent(r) ==
  /\ pc[r] = "specs" /\ at[r] < Len(op[r].specs)
  /\ Current(r).action = "remove" /\ Current(r).name \in DOMAIN map[r]
  /\ LET row == map[r][Current(r).name]
         there == \E i \in DOMAIN rows : rows[i].id = row.id
     IN  \/ /\ there
            /\ rows' = Delete(rows, row)
            /\ removed' = [removed EXCEPT ![r] = Append(@, Current(r).name)]
            /\ Forget(r) /\ Handled(r) /\ Succeeds /\ UNCHANGED pc
         \/ /\ ~there
            /\ Goto(r, "error") /\ Succeeds
            /\ UNCHANGED <<rows, removed, map, at, applied>>
         \/ /\ there
            /\ rows' \in {rows, Delete(rows, row)}
            /\ Goto(r, "error") /\ Fails(r)
            /\ UNCHANGED <<removed, map, at, applied>>
  /\ UNCHANGED <<op, syncing, app, lastId, wfs, added, changed, read, task, built,
                 twins>>

\* Seeded fault: the steps are synchronised after removals only.
AfterVersionRemoved(r) ==
  IF removed[r] # <<>> THEN "sync" ELSE "exec"

\* What follows the version: the steps, or the execution, of which exec decides.
AfterVersion(r) ==
  IF added[r] # <<>> \/ removed[r] # <<>> THEN "sync" ELSE "exec"

\* The version is stored when all specs have been handled.
UpdateVersion(r) ==
  /\ pc[r] = "specs" /\ at[r] = Len(op[r].specs)
  /\ LET new == IF app.live THEN [app EXCEPT !.version = r] ELSE app
     IN  \/ app' = new /\ Goto(r, AfterVersion(r)) /\ Succeeds
         \/ app' \in {app, new} /\ Goto(r, "error") /\ Fails(r)
  /\ UNCHANGED <<op, syncing, rows, lastId, wfs, local, read, task, built, applied,
                 twins>>

\* syncWorkflowSteps reads the workflows and works on the first of them.
\* A failure is passed over.
ReadSteps(r) ==
  /\ pc[r] = "sync"
  /\ \/ read' = [read EXCEPT ![r] = wfs[1]] /\ Goto(r, "write") /\ Succeeds
     \/ Goto(r, "exec") /\ UNCHANGED read /\ Fails(r)
  /\ UNCHANGED <<op, syncing, app, rows, lastId, wfs, local, task, built, applied,
                 twins>>

\* Seeded fault: the steps of removed components stay.
SyncedStepsKept(steps, gone, new) == steps \cup DefaultSteps(new)

\* Without the steps that are named as a removed component, with the new ones.
SyncedSteps(steps, gone, new) ==
  {s \in steps : s.name \notin ToSet(gone)} \cup DefaultSteps(new)

PutWorkflow(w) == [i \in DOMAIN wfs |-> IF wfs[i].id = w.id THEN w ELSE wfs[i]]

syncWorkflowSteps(r) ==
  /\ pc[r] = "write"
  /\ LET w == [read[r] EXCEPT !.steps = SyncedSteps(@, removed[r], added[r])]
     IN  \/ wfs' = PutWorkflow(w) /\ Succeeds
         \/ wfs' \in {wfs, PutWorkflow(w)} /\ Fails(r)
  /\ Goto(r, "exec")
  /\ UNCHANGED <<op, syncing, app, rows, lastId, local, read, task, built, applied,
                 twins>>

\* The first workflow is queued if something has changed.  A failure is passed over.
execWorkflow(r) ==
  /\ pc[r] = "exec"
  /\ LET wanted == /\ op[r].autoExec
                   /\ changed[r] \/ added[r] # <<>> \/ removed[r] # <<>>
     IN  \/ /\ wanted
            /\ task' = [task EXCEPT ![r] = "waiting"]
            /\ read' = [read EXCEPT ![r] = wfs[1]]
            /\ Succeeds \/ Fails(r)
         \/ ~wanted /\ UNCHANGED <<task, read>> /\ Succeeds
         \/ wanted /\ UNCHANGED <<task, read>> /\ Fails(r)
  /\ Goto(r, "done")
  /\ UNCHANGED <<op, syncing, app, rows, lastId, wfs, local, built, applied, twins>>

-----------------------------------------------------------------------------
(***************************************************************************)
(* UpdateApplicationWorkflow and DeleteApplication.                        *)
(***************************************************************************)
\* The components the steps name have to be there.
validateWorkflowComponentRefs(r) ==
  /\ pc[r] = "workflow"
  /\ \/ /\ Goto(r, IF \A s \in op[r].steps : ToSet(s.names) \subseteq Names(ToSet(rows))
                   THEN "put" ELSE "error")
        /\ Succeeds
     \/ Goto(r, "error") /\ Fails(r)
  /\ UNCHANGED <<op, syncing, app, rows, lastId, wfs, local, read, task, built, applied,
                 twins>>

\* Without an id another workflow is made.  List has no order: ids are random, and
\* the new workflow may come first.
UpdateApplicationWorkflow(r) ==
  /\ pc[r] = "put"
  /\ LET new == [id |-> Len(wfs) + 1, steps |-> op[r].steps]
         stored == IF op[r].fresh THEN {<<new>> \o wfs, Append(wfs, new)}
                   ELSE {PutWorkflow([id |-> 1, steps |-> op[r].steps])}
     IN  \/ /\ wfs' \in stored /\ Goto(r, "done")
            /\ trouble' = TRUE /\ UNCHANGED <<errors, quiet>>
         \/ wfs' \in {wfs} \cup stored /\ Goto(r, "error") /\ Fails(r)
  /\ UNCHANGED <<op, syncing, app, rows, lastId, local, read, task, built, applied,
                 twins>>

\* The application's row only: components and workflows stay.
DeleteApplication(r) ==
  /\ pc[r] = "delete"
  /\ \/ app' = [app EXCEPT !.live = FALSE] /\ Succeeds
        /\ Goto(r, IF app.live THEN "done" ELSE "error")
     \/ app' \in {app, [app EXCEPT !.live = FALSE]} /\ Goto(r, "error") /\ Fails(r)
  /\ UNCHANGED <<op, syncing, rows, lastId, wfs, local, read, task, built, applied,
                 twins>>

-----------------------------------------------------------------------------
(***************************************************************************)
(* A worker builds the jobs of a task: the workflow is read, then the      *)
(* components.  A component without a row is passed over.                  *)
(***************************************************************************)
GetWorkflow(r) ==
  /\ task[r] = "waiting"
  /\ task' = [task EXCEPT ![r] = "reading"]
  /\ read' = [read EXCEPT ![r] = CHOOSE w \in ToSet(wfs) : w.id = read[r].id]
  /\ UNCHANGED <<op, syncing, app, rows, lastId, wfs, pc, local, built, errors, quiet,
                 applied, trouble, twins>>

GenerateJobTasks(r) ==
  /\ task[r] = "reading"
  /\ task' = [task EXCEPT ![r] = "built"]
  /\ built' = [built EXCEPT ![r] =
                (UNION {ToSet(s.names) : s \in read[r].steps}) \cap Names(ToSet(rows))]
  /\ UNCHANGED <<op, syncing, app, rows, lastId, wfs, pc, local, read, errors, quiet,
                 applied, trouble, twins>>

-----------------------------------------------------------------------------
(***************************************************************************)
(* syncComponentStatus lists the rows of the application and puts one of   *)
(* them back as a whole, with the new status (which is not in this module).*)
(* A call that fails leaves it at that.                                    *)
(***************************************************************************)
ListComponents ==
  /\ syncs < MaxSyncs /\ syncs' = syncs + 1
  /\ \E x \in ToSet(rows) : listed' = listed \cup {x}
  /\ UNCHANGED <<op, app, rows, lastId, wfs, pc, local, read, task, built, errors, quiet,
                 applied, twins, reverted, trouble>>

syncComponentStatus ==
  /\ \E x \in listed : listed' = listed \ {x} /\ rows' = Put(rows, x)
  /\ reverted' = IF rows' = rows THEN reverted
                 ELSE reverted \cup {r \in Request : Active(r)}
  /\ UNCHANGED <<op, app, lastId, wfs, pc, local, read, task, built, syncs, errors, quiet,
                 applied, twins, trouble>>

RequestStep(r) ==
  \/ FindByID(r) \/ CreateApplications(r) \/ FindByAppID(r) \/ SkipSpec(r)
  \/ updateComponent(r) \/ addComponent(r) \/ removeComponent(r) \/ UpdateVersion(r)
  \/ ReadSteps(r) \/ syncWorkflowSteps(r) \/ execWorkflow(r)
  \/ validateWorkflowComponentRefs(r) \/ UpdateApplicationWorkflow(r)
  \/ DeleteApplication(r)

Terminated ==
  /\ \A r \in Request : pc[r] \in {"done", "error"} /\ task[r] \in {"none", "built"}
  /\ UNCHANGED vars

Next ==
  \/ \E r \in Request : RequestStep(r) \/ GetWorkflow(r) \/ GenerateJobTasks(r)
  \/ ListComponents \/ syncComponentStatus
  \/ Terminated

Spec == Init /\ [][Next]_vars

-----------------------------------------------------------------------------
(***************************************************************************)
(* Properties.                                                             *)
(***************************************************************************)
TypeOK ==
  /\ op \in [Request -> Ops]
  /\ app \in [live : BOOLEAN, version : Request \cup {"first"}]
  /\ \A i \in DOMAIN rows : rows[i] \in [id : 1 .. lastId, name : Name, conf : Conf]
  /\ \A i, k \in DOMAIN rows : i < k => rows[i].id < rows[k].id
  /\ \A r \in Request :
       /\ pc[r] \in {"idle", "refresh", "version", "specs", "sync", "write", "exec",
                     "workflow", "put", "delete", "done", "error"}
       /\ \A n \in DOMAIN map[r] : map[r][n].name = n
       /\ task[r] \in {"none", "waiting", "reading", "built"}
       /\ built[r] \subseteq Name
  /\ syncs \in 0 .. MaxSyncs /\ errors \in 0 .. MaxErrors

\* As long as no call has failed, requests have come one after the other, none
\* has given one name to two rows and the user has not set a workflow, the
\* default workflow has a step for every component and for nothing else, between
\* the requests: UpdateVersion keeps rows and steps together by two separate lists.
StepsCover ==
  ~trouble /\ ~twins /\ (\A r \in Request : ~Active(r))
  => Names(wfs[1].steps) = Names(ToSet(rows))

\* The row says what is set; but no replicas are never stored, and a variable is
\* not where there are no Properties.
Says(x, set) ==
  \A f \in DOMAIN set :
    \/ x.conf[f] = set[f]
    \/ f = "replicas" /\ set[f] = Zero
    \/ f = "env" /\ x.conf[f] = Zero

\* The rows are as the spec asks.
Stands(s) ==
  CASE s.action = "add" -> s.name \in Names(ToSet(rows))
    [] s.action = "remove" -> s.name \notin Names(ToSet(rows))
    [] OTHER -> \A x \in ToSet(rows) : x.name = s.name => Says(x, s.set)

\* Whatever has gone wrong before, an undisturbed UpdateVersion returns with the
\* rows as its last spec for each component asks, so that a retry repairs what a
\* failed request has left.  Excepted: rows with one name, of which it sees one; a
\* component it has itself added before, which it does not see; what Says excepts;
\* and a status sync that has listed a row before and puts it back during the
\* request, although something else is stored there by now.
QuietUpdateIsStored ==
  [][\A r \in Request :
       /\ pc[r] = "exec" /\ pc'[r] = "done" /\ r \in quiet' \ reverted' /\ ~twins
       => LET specs == op[r].specs
          IN  \A i \in DOMAIN specs :
                /\ \A k \in 1 .. i - 1 :
                     specs[k].name = specs[i].name => specs[k].action # "add"
                /\ \A k \in DOMAIN specs : specs[k].name = specs[i].name => k <= i
                => Stands(specs[i])]_vars

\* The application has the version of an UpdateVersion only if every component it
\* adds or removes has been stored, or was or was not there before: a request that
\* fails on the way leaves its writes behind, but not its version.
VersionMeansApplied ==
  \A r \in Request :
    app.version = r /\ op[r].kind = "version"
    => \A i \in DOMAIN op[r].specs : op[r].specs[i].action = "update" \/ i \in applied[r]

\* The jobs of a task that an undisturbed UpdateVersion has started include those
\* of every component it has added, also when the workflow is the user's own and
\* when there are several: the steps are stored before the task is, and go to the
\* workflow that is run.  (That a row has a job is JobBuilder's matter.)
AutoExecSeesUpdate ==
  \A r \in Request :
    task[r] = "built" /\ r \in quiet => ToSet(added[r]) \subseteq built[r]
==============================================================================
