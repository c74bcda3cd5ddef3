----------------------- MODULE WorkflowEngineProofs -----------------------
(***************************************************************************)
(* Theorems about WorkflowEngine, for every set of tasks, nodes, messages  *)
(* and controllers and every bound on the faults.                          *)
(***************************************************************************)
EXTENDS WorkflowEngine, TLAPS

USE ConstantsAssumption

-----------------------------------------------------------------------------
(***************************************************************************)
(* Type correctness.                                                       *)
(***************************************************************************)
\* A database write keeps the table's type whatever row it names.
LEMMA PutType ==
  ASSUME TypeOK, NEW t, NEW s \in Status, Put(t, s)
  PROVE  db' \in [Task -> Status]
BY DEF TypeOK, Put

\* A fault of any kind is only counted.
LEMMA HappensType ==
  ASSUME TypeOK, NEW f \in Fault, Happens(f)
  PROVE  faults' \in [Fault -> Nat]
BY DEF TypeOK, Happens

\* Superseding claims changes nothing but the history.
LEMMA SupersedeType ==
  ASSUME TypeOK, NEW t, NEW d \in [Node -> DispState], Supersede(t, d)
  PROVE  /\ disp' \in [Node -> DispState]
         /\ msg' \in [Msg -> MsgState]
<1>1. ASSUME NEW n \in Node
      PROVE  [d[n] EXCEPT !.fresh = FALSE] \in DispState
  BY DEF DispState
<1>2. ASSUME NEW m \in Msg
      PROVE  [msg[m] EXCEPT !.fresh = FALSE] \in MsgState
  <2>1. msg[m] \in MsgState
    BY DEF TypeOK
  <2> QED BY <2>1 DEF MsgState
<1>3. disp' \in [Node -> DispState]
  BY <1>1 DEF Supersede
<1>4. msg' \in [Msg -> MsgState]
  BY <1>2 DEF Supersede, TypeOK
<1> QED BY <1>3, <1>4

\* Starting a controller, or not, keeps the type of the controllers.
LEMMA RunType ==
  ASSUME TypeOK, NEW n \in Node, NEW t \in Task \cup {NoTask}, runWorkflowTask(n, t)
  PROVE  exec' \in [Exec -> ExecState]
<1>1. [pc |-> "spawned", task |-> t, node |-> n, grouped |-> group[n] = "open"]
        \in ExecState
  <2>1. (group[n] = "open") \in BOOLEAN
    OBVIOUS
  <2> QED BY <2>1 DEF ExecState
<1> QED BY <1>1 DEF TypeOK, runWorkflowTask

\* Writing through a controller's context.
LEMMA AckType ==
  ASSUME TypeOK, NEW e \in Exec, NEW s \in Status, ack(e, s)
  PROVE  db' \in [Task -> Status] /\ faults' \in [Fault -> Nat]
<1>1. CASE Put(exec[e].task, s) /\ NoFault
  BY <1>1, PutType DEF NoFault, TypeOK
<1>2. CASE UNCHANGED db /\ NoFault
  BY <1>2 DEF NoFault, TypeOK
<1>3. CASE DbError
  BY <1>3, HappensType DEF DbError, Fault, TypeOK
<1> QED BY <1>1, <1>2, <1>3 DEF ack

\* Inserting and cancelling a row keep the types.
LEMMA ApiType == TypeOK /\ Api => TypeOK'
<1> SUFFICES ASSUME TypeOK, NEW t \in Task,
                    enqueueWorkflowTask(t) \/ cancelWorkflowTask(t)
             PROVE  TypeOK'
  BY DEF Api
<1>1. db' \in [Task -> Status]
  BY PutType DEF enqueueWorkflowTask, cancelWorkflowTask, Status
<1> QED BY <1>1 DEF enqueueWorkflowTask, cancelWorkflowTask, TypeOK

\* So do an expiring lease, and the end and the start of a process.
LEMMA EnvironmentType == TypeOK /\ Environment => TypeOK'
<1> SUFFICES ASSUME TypeOK, Environment PROVE TypeOK'
  OBVIOUS
<1>1. CASE LeaseExpires
  BY <1>1 DEF LeaseExpires, TypeOK
<1>2. ASSUME NEW n \in Node, Crash(n) PROVE TypeOK'
  <2>1. NoDisp \in DispState /\ NoWork \in WorkState /\ NoExec \in ExecState
    BY DEF NoDisp, NoWork, NoExec, DispState, WorkState, ExecState
  <2>2. faults' \in [Fault -> Nat]
    BY <1>2, HappensType DEF Crash, Fault
  <2>3. exec' \in [Exec -> ExecState]
    BY <1>2, <2>1 DEF Crash, TypeOK
  <2>4. disp' \in [Node -> DispState] /\ worker' \in [Node -> WorkState]
    BY <1>2, <2>1 DEF Crash, TypeOK
  <2> QED BY <1>2, <2>2, <2>3, <2>4 DEF Crash, TypeOK
<1>3. ASSUME NEW n \in Node, Restart(n) PROVE TypeOK'
  BY <1>3 DEF Restart, TypeOK
<1> QED BY <1>1, <1>2, <1>3 DEF Environment

\* So do the election callbacks and the start and stop of a worker.
LEMMA RolesType == TypeOK /\ Roles => TypeOK'
<1> SUFFICES ASSUME TypeOK, NEW n \in Node,
                    onStartedLeading(n) \/ startWorkers(n) \/ stopWorkers(n)
             PROVE  TypeOK'
  BY DEF Roles
<1>1. CASE onStartedLeading(n)
  <2>1. [NoDisp EXCEPT !.pc = "list"] \in DispState
    BY DEF NoDisp, DispState
  <2>2. faults' \in [Fault -> Nat]
    BY <1>1, HappensType DEF onStartedLeading, Fault
  <2> QED BY <1>1, <2>1, <2>2 DEF onStartedLeading, TypeOK
<1>2. CASE startWorkers(n)
  BY <1>2 DEF startWorkers, TypeOK
<1>3. CASE stopWorkers(n)
  BY <1>3 DEF stopWorkers, TypeOK
<1> QED BY <1>1, <1>2, <1>3

\* So does every step of the leader: InitQueue, the polls, claim, enqueue and revert.
LEMMA LeaderType == ASSUME NEW n \in Node PROVE TypeOK /\ Leader(n) => TypeOK'
<1> SUFFICES ASSUME TypeOK, Leader(n) PROVE TypeOK'
  OBVIOUS
<1>0. disp[n] \in DispState /\ disp[n].task \in Task \cup {NoTask}
  BY DEF TypeOK, DispState
<1>d. ASSUME NEW c \in {"off", "list", "init", "idle", "batch", "claimed",
                          "acquire", "revert"}
      PROVE  /\ [disp[n] EXCEPT !.pc = c] \in DispState
             /\ [disp[n] EXCEPT !.pc = c, !.fresh = FALSE] \in DispState
             /\ [disp[n] EXCEPT !.pc = c, !.task = NoTask, !.fresh = FALSE]
                  \in DispState
  BY <1>0 DEF DispState
<1>1. CASE TaskRunning(n)
  <2>1. [disp[n] EXCEPT !.pc = "init", !.todo = {t \in Task : db[t] \in Unfinished}]
          \in DispState
    BY <1>0 DEF DispState
  <2>2. disp' \in [Node -> DispState]
    BY <1>1, <2>1, <1>d DEF TaskRunning, TypeOK
  <2>3. db' = db /\ faults' \in [Fault -> Nat]
    BY <1>1, HappensType DEF TaskRunning, DbError, NoFault, Fault, TypeOK
  <2> QED BY <1>1, <2>2, <2>3 DEF TaskRunning, TypeOK
<1>2. ASSUME NEW t \in Task, InitQueue(n, t) PROVE TypeOK'
  <2> DEFINE d == [disp EXCEPT ![n].todo = @ \ {t}]
  <2>1. d \in [Node -> DispState]
    <3>1. [disp[n] EXCEPT !.todo = @ \ {t}] \in DispState
      BY <1>0 DEF DispState
    <3> QED BY <3>1 DEF TypeOK
  <2> HIDE DEF d
  <2>2. CASE Put(t, "waiting") /\ Supersede(t, d) /\ NoFault
    BY <1>2, <2>1, <2>2, PutType, SupersedeType
    DEF InitQueue, Status, NoFault, TypeOK
  <2>3. CASE DbError /\ disp' = d /\ UNCHANGED msg
    BY <1>2, <2>1, <2>3, HappensType DEF InitQueue, DbError, Fault, TypeOK
  <2> QED BY <1>2, <2>2, <2>3 DEF InitQueue, d
<1>3. CASE Start(n)
  BY <1>3, <1>d DEF Start, TypeOK
<1>4. CASE WaitingTasks(n)
  <2>1. [disp[n] EXCEPT !.pc = "batch", !.todo = {t \in Task : db[t] = "waiting"}]
          \in DispState
    BY <1>0 DEF DispState
  <2>2. disp' = [disp EXCEPT ![n] = [@ EXCEPT !.pc = "batch",
                               !.todo = {t \in Task : db[t] = "waiting"}]]
    BY <1>4 DEF WaitingTasks, TypeOK
  <2>3. disp' \in [Node -> DispState]
    BY <2>1, <2>2 DEF TypeOK
  <2> QED BY <1>4, <2>3 DEF WaitingTasks, TypeOK
<1>5. CASE EndOfBatch(n)
  BY <1>5, <1>d DEF EndOfBatch, TypeOK
<1>6. ASSUME NEW t \in Task, Claim(n, t) PROVE TypeOK'
  <2>1. [pc |-> "claimed", todo |-> disp[n].todo \ {t}, task |-> t, fresh |-> TRUE]
          \in DispState
    BY <1>0 DEF DispState
  <2>2. [disp[n] EXCEPT !.todo = disp[n].todo \ {t}] \in DispState
    BY <1>0 DEF DispState
  <2>3. disp' \in [Node -> DispState]
    BY <1>6, <2>1, <2>2 DEF Claim, TypeOK
  <2>4. db' \in [Task -> Status]
    BY <1>6, PutType DEF Claim, CompareAndSwap, DbError, Status, TypeOK
  <2>5. faults' \in [Fault -> Nat]
    BY <1>6, HappensType DEF Claim, DbError, NoFault, Fault, TypeOK
  <2> QED BY <1>6, <2>3, <2>4, <2>5 DEF Claim, TypeOK
<1>7. CASE Enqueue(n)
  <2>1. [st |-> "new", task |-> disp[n].task, fresh |-> disp[n].fresh] \in MsgState
    BY <1>0 DEF DispState, MsgState
  <2>2. msg' \in [Msg -> MsgState]
    BY <1>7, <2>1 DEF Enqueue, TypeOK
  <2>3. disp' \in [Node -> DispState]
    BY <1>7, <1>d DEF Enqueue, TypeOK
  <2>4. faults' \in [Fault -> Nat]
    BY <1>7, HappensType DEF Enqueue, NoFault, Fault, TypeOK
  <2> QED BY <1>7, <2>2, <2>3, <2>4 DEF Enqueue, TypeOK
<1>8. CASE Revert(n)
  <2> DEFINE d == [disp EXCEPT ![n] = [@ EXCEPT !.pc = "batch", !.task = NoTask,
                                                !.fresh = FALSE]]
  <2>1. d \in [Node -> DispState]
    BY <1>d DEF TypeOK
  <2> HIDE DEF d
  <2>2. CASE CompareAndSwap(disp[n].task, "queued", "waiting")
               /\ Supersede(disp[n].task, d) /\ NoFault
    BY <1>8, <2>1, <2>2, PutType, SupersedeType
    DEF Revert, CompareAndSwap, Status, NoFault, TypeOK
  <2>3. CASE UNCHANGED <<db, msg>> /\ disp' = d /\ NoFault
    BY <1>8, <2>1, <2>3 DEF Revert, NoFault, TypeOK
  <2>4. CASE DbError /\ UNCHANGED msg /\ disp' = d
    BY <1>8, <2>1, <2>4, HappensType DEF Revert, DbError, Fault, TypeOK
  <2> QED BY <1>8, <2>2, <2>3, <2>4 DEF Revert, d
<1>9. CASE LocalQueued(n)
  <2>1. disp' \in [Node -> DispState]
    BY <1>9, <1>d DEF LocalQueued, TypeOK
  <2>2. db' \in [Task -> Status]
    BY <1>9, PutType DEF LocalQueued, DbError, Status, TypeOK
  <2>3. faults' \in [Fault -> Nat]
    BY <1>9, HappensType DEF LocalQueued, DbError, NoFault, Fault, TypeOK
  <2> QED BY <1>9, <2>1, <2>2, <2>3 DEF LocalQueued, TypeOK
<1>10. CASE LocalRun(n)
  <2>1. disp' \in [Node -> DispState]
    BY <1>10, <1>d DEF LocalRun, TypeOK
  <2>2. exec' \in [Exec -> ExecState]
    BY <1>10, <1>0, RunType DEF LocalRun
  <2> QED BY <1>10, <2>1, <2>2 DEF LocalRun, TypeOK
<1> QED
  BY <1>1, <1>2, <1>3, <1>4, <1>5, <1>6, <1>7, <1>8, <1>9, <1>10 DEF Leader

\* So does every step of a worker: read, claim, process and acknowledge.
LEMMA WorkerType == ASSUME NEW n \in Node PROVE TypeOK /\ Worker(n) => TypeOK'
<1> SUFFICES ASSUME TypeOK, Worker(n) PROVE TypeOK'
  OBVIOUS
<1>0. worker[n] \in WorkState
  BY DEF TypeOK
<1>1. NoWork \in WorkState
  BY DEF NoWork, WorkState
<1>2. ASSUME NEW batch \in SUBSET Msg
      PROVE  [NoWork EXCEPT !.pc = "batch", !.todo = batch] \in WorkState
  BY DEF NoWork, WorkState
<1>3. CASE ReadGroup(n)
  <2>1. PICK batch \in SUBSET {m \in Msg : msg[m].st = "new"} :
          /\ Receive(n, batch) /\ NoFault
          /\ msg' = [m \in Msg |-> IF m \in batch
                                  THEN [msg[m] EXCEPT !.st = "pending"] ELSE msg[m]]
    BY <1>3 DEF ReadGroup
  <2>2. ASSUME NEW m \in Msg PROVE [msg[m] EXCEPT !.st = "pending"] \in MsgState
    <3>1. msg[m] \in MsgState
      BY DEF TypeOK
    <3> QED BY <3>1 DEF MsgState
  <2>3. msg' \in [Msg -> MsgState]
    BY <2>1, <2>2 DEF TypeOK
  <2>4. worker' \in [Node -> WorkState]
    BY <2>1, <1>2 DEF Receive, TypeOK
  <2> QED BY <2>1, <2>3, <2>4 DEF Receive, NoFault, TypeOK
<1>4. CASE AutoClaim(n)
  <2>1. PICK batch \in SUBSET {m \in Msg : msg[m].st = "pending"} :
          /\ Receive(n, batch) /\ UNCHANGED msg
          /\ NoFault \/ Happens("slow")
    BY <1>4 DEF AutoClaim
  <2>2. faults' \in [Fault -> Nat]
    BY <2>1, HappensType DEF NoFault, Fault, TypeOK
  <2>3. worker' \in [Node -> WorkState]
    BY <2>1, <1>2 DEF Receive, TypeOK
  <2> QED BY <2>1, <2>2, <2>3 DEF Receive, TypeOK
<1>5. CASE WorkerRun(n)
  <2>1. [worker[n] EXCEPT !.pc = "batch", !.cur = NoTask] \in WorkState
    BY <1>0 DEF WorkState
  <2>2. worker' \in [Node -> WorkState]
    BY <1>5, <2>1 DEF WorkerRun, TypeOK
  <2>3. worker[n].cur \in Task \cup {NoTask}
    BY <1>0 DEF WorkState
  <2>4. exec' \in [Exec -> ExecState]
    BY <1>5, <2>3, RunType DEF WorkerRun
  <2> QED BY <1>5, <2>2, <2>4 DEF WorkerRun, TypeOK
<1>6. CASE ackDispatchMessages(n)
  <2>1. ASSUME NEW m \in Msg PROVE [msg[m] EXCEPT !.st = "acked"] \in MsgState
    <3>1. msg[m] \in MsgState
      BY DEF TypeOK
    <3> QED BY <3>1 DEF MsgState
  <2>2. msg' \in [Msg -> MsgState]
    BY <1>6, <2>1 DEF ackDispatchMessages, TypeOK
  <2>3. worker' \in [Node -> WorkState]
    BY <1>6, <1>1 DEF ackDispatchMessages, TypeOK
  <2>4. faults' \in [Fault -> Nat]
    BY <1>6, HappensType DEF ackDispatchMessages, NoFault, Fault, TypeOK
  <2> QED BY <1>6, <2>2, <2>3, <2>4 DEF ackDispatchMessages, TypeOK
<1>7. ASSUME NEW m \in Msg, processDispatchMessage(n, m) PROVE TypeOK'
  <2> DEFINE w == [worker[n] EXCEPT !.todo = @ \ {m}, !.done = @ \cup {m}]
  <2>1. w \in WorkState
    BY <1>0 DEF WorkState
  <2>2. msg[m].task \in Task \cup {NoTask}
    BY DEF TypeOK, MsgState
  <2>3. [w EXCEPT !.pc = "acquire", !.cur = msg[m].task] \in WorkState
    BY <2>1, <2>2 DEF WorkState
  <2>4. \/ worker' = [worker EXCEPT ![n] = [w EXCEPT !.pc = "acquire",
                                                    !.cur = msg[m].task]]
        \/ worker' = [worker EXCEPT ![n] = w]
    BY <1>7 DEF processDispatchMessage
  <2> HIDE DEF w
  <2>5. worker' \in [Node -> WorkState]
    BY <2>1, <2>3, <2>4 DEF TypeOK
  <2>6. db' \in [Task -> Status]
    BY <1>7, PutType DEF processDispatchMessage, DbError, Status, TypeOK
  <2>7. faults' \in [Fault -> Nat]
    BY <1>7, HappensType DEF processDispatchMessage, DbError, NoFault, Fault, TypeOK
  <2> QED BY <1>7, <2>5, <2>6, <2>7 DEF processDispatchMessage, TypeOK
<1> QED BY <1>3, <1>4, <1>5, <1>6, <1>7 DEF Worker

\* So does every write and the end of a controller.
LEMMA ControllerType == ASSUME NEW e \in Exec PROVE TypeOK /\ Controller(e) => TypeOK'
<1> SUFFICES ASSUME TypeOK, Controller(e) PROVE TypeOK'
  OBVIOUS
<1>0. exec[e] \in ExecState /\ NoExec \in ExecState
  BY DEF TypeOK, NoExec, ExecState
<1>1. ASSUME NEW c \in {"running", "completed"}
      PROVE  [exec[e] EXCEPT !.pc = c] \in ExecState
  BY <1>0 DEF ExecState
<1>2. "running" \in Status /\ "completed" \in Status
  BY DEF Status
<1>3. CASE RunFail(e)
  BY <1>3, <1>0 DEF RunFail, TypeOK
<1>4. CASE ~RunFail(e)
  <2>1. db' \in [Task -> Status] /\ faults' \in [Fault -> Nat]
    BY <1>2, <1>4, AckType DEF Controller, RunStart, JobAck, RunComplete, RunReturn
  <2>2. exec' \in [Exec -> ExecState]
    BY <1>0, <1>1, <1>4
    DEF Controller, RunStart, JobAck, RunComplete, RunReturn, TypeOK
  <2> QED
    BY <1>4, <2>1, <2>2
    DEF Controller, RunStart, JobAck, RunComplete, RunReturn, TypeOK
<1> QED BY <1>3, <1>4

\* The type invariant holds of every behaviour of the engine.
THEOREM TypeCorrect == Spec => []TypeOK
<1>1. Init => TypeOK
  <2> SUFFICES ASSUME Init PROVE TypeOK
    OBVIOUS
  <2>1. /\ NoDisp \in DispState /\ NoWork \in WorkState
        /\ NoExec \in ExecState /\ NoMsg \in MsgState
    BY DEF NoDisp, NoWork, NoExec, NoMsg, DispState, WorkState, ExecState, MsgState
  <2> QED BY <2>1 DEF Init, TypeOK, Status
<1>2. TypeOK /\ [Next]_vars => TypeOK'
  <2>1. TypeOK /\ Next => TypeOK'
    BY ApiType, EnvironmentType, RolesType, LeaderType, WorkerType, ControllerType
    DEF Next
  <2>2. TypeOK /\ UNCHANGED vars => TypeOK'
    BY DEF vars, TypeOK
  <2> QED BY <2>1, <2>2
<1> QED BY <1>1, <1>2, PTL DEF Spec

-----------------------------------------------------------------------------
(***************************************************************************)
(* One dispatch per waiting period.  The property is not inductive: a      *)
(* claim must find the field clear.  What clears it is that nothing fresh  *)
(* exists while the row is waiting, or not there yet.                      *)
(***************************************************************************)
NothingFresh(t) ==
  (\A n \in Node : ~FreshClaim(n, t)) /\ (\A m \in Msg : ~FreshMsg(m, t))

WaitingNotDispatched ==
  \A t \in Task : db[t] \in {"none", "waiting"} => NothingFresh(t)

DispatchInv == OneDispatchPerWait /\ WaitingNotDispatched

\* A step that makes nothing fresh, and lets a row become waiting only with
\* nothing fresh left, preserves the invariant.
LEMMA NothingNewFresh ==
  ASSUME DispatchInv,
         \A n \in Node, t \in Task : FreshClaim(n, t)' => FreshClaim(n, t),
         \A m \in Msg, t \in Task : FreshMsg(m, t)' => FreshMsg(m, t),
         \A t \in Task : db'[t] \in {"none", "waiting"}
                           => db[t] \in {"none", "waiting"} \/ NothingFresh(t)'
  PROVE  DispatchInv'
<1>1. OneDispatchPerWait'
  BY DEF DispatchInv, OneDispatchPerWait
<1>2. WaitingNotDispatched'
  BY DEF DispatchInv, WaitingNotDispatched, NothingFresh
<1> QED BY <1>1, <1>2 DEF DispatchInv

\* What a write of another status than waiting does to the rows.
LEMMA PutKeepsWaiting ==
  ASSUME TypeOK, NEW u, NEW s, s \notin {"none", "waiting"}, Put(u, s),
         NEW t \in Task, db'[t] \in {"none", "waiting"}
  PROVE  db[t] \in {"none", "waiting"}
BY DEF TypeOK, Put

\* Superseding leaves nothing fresh of the row, and makes nothing fresh.
LEMMA SupersedeClears ==
  ASSUME TypeOK, NEW u, NEW d \in [Node -> DispState], Supersede(u, d),
         \A n \in Node : /\ d[n].task \in {disp[n].task, NoTask}
                         /\ d[n].fresh => disp[n].fresh
  PROVE  /\ \A t \in Task : u = t => NothingFresh(t)'
         /\ \A n \in Node, t \in Task : FreshClaim(n, t)' => FreshClaim(n, t)
         /\ \A m \in Msg, t \in Task : FreshMsg(m, t)' => FreshMsg(m, t)
<1>1. ASSUME NEW n \in Node
      PROVE  /\ d[n].task = u => disp'[n].task = u /\ disp'[n].fresh = FALSE
             /\ d[n].task # u => disp'[n] = d[n]
  BY DEF Supersede, DispState
<1>2. ASSUME NEW m \in Msg
      PROVE  /\ msg[m].task = u => msg'[m].task = u /\ msg'[m].fresh = FALSE
             /\ msg[m].task # u => msg'[m] = msg[m]
  <2>1. msg[m] \in MsgState
    BY DEF TypeOK
  <2> QED BY <2>1 DEF Supersede, MsgState
<1>3. ASSUME NEW n \in Node, NEW t \in Task, FreshClaim(n, t)'
      PROVE  FreshClaim(n, t) /\ t # u
  BY <1>1, <1>3 DEF FreshClaim
<1>4. ASSUME NEW m \in Msg, NEW t \in Task, FreshMsg(m, t)'
      PROVE  FreshMsg(m, t) /\ t # u
  BY <1>2, <1>4 DEF FreshMsg
<1> QED BY <1>3, <1>4 DEF NothingFresh

\* A step that leaves claims and messages alone and writes no row to waiting.
LEMMA QuietStep ==
  ASSUME TypeOK, DispatchInv, UNCHANGED <<disp, msg>>,
         \/ UNCHANGED db
         \/ \E u, s : s \notin {"none", "waiting"} /\ Put(u, s)
  PROVE  DispatchInv'
<1>1. \A n \in Node, t \in Task : FreshClaim(n, t)' => FreshClaim(n, t)
  BY DEF FreshClaim
<1>2. \A m \in Msg, t \in Task : FreshMsg(m, t)' => FreshMsg(m, t)
  BY DEF FreshMsg
<1>3. \A t \in Task : db'[t] \in {"none", "waiting"} => db[t] \in {"none", "waiting"}
  BY PutKeepsWaiting
<1> QED BY <1>1, <1>2, <1>3, NothingNewFresh

\* A step of dispatcher n that makes no claim, and sends no fresh message.
LEMMA QuietDispatcher ==
  ASSUME TypeOK, DispatchInv, NEW n \in Node, UNCHANGED msg,
         \E d : /\ disp' = [disp EXCEPT ![n] = d]
                /\ d.task \in {disp[n].task, NoTask}
                /\ d.fresh => disp[n].fresh,
         \/ UNCHANGED db
         \/ \E u, s : s \notin {"none", "waiting"} /\ Put(u, s)
  PROVE  DispatchInv'
<1>1. \A k \in Node, t \in Task : FreshClaim(k, t)' => FreshClaim(k, t)
  BY DEF FreshClaim, TypeOK
<1>2. \A m \in Msg, t \in Task : FreshMsg(m, t)' => FreshMsg(m, t)
  BY DEF FreshMsg
<1>3. \A t \in Task : db'[t] \in {"none", "waiting"} => db[t] \in {"none", "waiting"}
  BY PutKeepsWaiting
<1> QED BY <1>1, <1>2, <1>3, NothingNewFresh

\* A row becomes waiting and its earlier claims are superseded.
LEMMA SupersedingStep ==
  ASSUME TypeOK, DispatchInv, NEW u, Put(u, "waiting"),
         NEW d \in [Node -> DispState], Supersede(u, d),
         \A n \in Node : /\ d[n].task \in {disp[n].task, NoTask}
                         /\ d[n].fresh => disp[n].fresh
  PROVE  DispatchInv'
<1>1. /\ \A t \in Task : u = t => NothingFresh(t)'
      /\ \A n \in Node, t \in Task : FreshClaim(n, t)' => FreshClaim(n, t)
      /\ \A m \in Msg, t \in Task : FreshMsg(m, t)' => FreshMsg(m, t)
  BY SupersedeClears
<1>2. \A t \in Task : t = u \/ db'[t] = db[t]
  BY DEF Put, TypeOK
<1>3. \A t \in Task : db'[t] \in {"none", "waiting"}
                        => db[t] \in {"none", "waiting"} \/ NothingFresh(t)'
  BY <1>1, <1>2
<1> QED BY <1>1, <1>3, NothingNewFresh

\* A claim wins only on a waiting row, of which nothing fresh exists.
LEMMA ClaimDispatch ==
  ASSUME TypeOK, DispatchInv, NEW n \in Node, NEW t \in Task, Claim(n, t)
  PROVE  DispatchInv'
<1>0. disp[n] \in DispState
  BY DEF TypeOK
<1> DEFINE skip == [disp[n] EXCEPT !.todo = disp[n].todo \ {t}]
<1>1. skip.task = disp[n].task /\ skip.fresh = disp[n].fresh
  BY <1>0 DEF DispState
<1>2. UNCHANGED msg
  BY DEF Claim
<1>3. CASE disp' = [disp EXCEPT ![n].todo = disp[n].todo \ {t}]
  <2>1. disp' = [disp EXCEPT ![n] = skip]
    BY <1>3 DEF TypeOK
  <2>2. UNCHANGED db \/ Put(t, "queued")
    BY DEF Claim, CompareAndSwap, DbError
  <2> HIDE DEF skip
  <2> QED BY <1>1, <1>2, <2>1, <2>2, QuietDispatcher
<1>4. CASE /\ CompareAndSwap(t, "waiting", "queued")
           /\ disp' = [disp EXCEPT ![n] = [pc |-> "claimed",
                          todo |-> disp[n].todo \ {t}, task |-> t, fresh |-> TRUE]]
  <2>1. NothingFresh(t)
    BY <1>4 DEF DispatchInv, WaitingNotDispatched, CompareAndSwap
  <2>2. \A k \in Node, u \in Task :
          FreshClaim(k, u)' => FreshClaim(k, u) \/ (k = n /\ u = t)
    BY <1>4 DEF FreshClaim, TypeOK
  <2>3. \A m \in Msg, u \in Task : FreshMsg(m, u)' <=> FreshMsg(m, u)
    BY <1>2 DEF FreshMsg
  <2>4. OneDispatchPerWait'
    BY <2>1, <2>2, <2>3 DEF NothingFresh, DispatchInv, OneDispatchPerWait
  <2>5. \A u \in Task : db'[u] \in {"none", "waiting"}
                          => u # t /\ db[u] \in {"none", "waiting"}
    BY <1>4 DEF CompareAndSwap, Put, TypeOK
  <2>6. WaitingNotDispatched'
    BY <2>2, <2>3, <2>5 DEF DispatchInv, WaitingNotDispatched, NothingFresh
  <2> QED BY <2>4, <2>6 DEF DispatchInv
<1> QED BY <1>3, <1>4 DEF Claim

\* A message is as fresh as the claim it is sent for, which it replaces.
LEMMA EnqueueDispatch ==
  ASSUME TypeOK, DispatchInv, NEW n \in Node, Enqueue(n)
  PROVE  DispatchInv'
<1>0. disp[n] \in DispState
  BY DEF TypeOK
<1> DEFINE sent == [disp[n] EXCEPT !.pc = "batch", !.task = NoTask, !.fresh = FALSE]
           failed == [disp[n] EXCEPT !.pc = "revert", !.fresh = FALSE]
<1>1. PICK d \in {sent, failed} : disp' = [disp EXCEPT ![n] = d]
  BY DEF Enqueue
<1>2. d.fresh = FALSE
  BY <1>0 DEF DispState
<1>3. \A k \in Node, t \in Task : FreshClaim(k, t)' => k # n /\ FreshClaim(k, t)
  BY <1>1, <1>2 DEF FreshClaim, TypeOK
<1>4. UNCHANGED db
  BY DEF Enqueue
<1>5. CASE UNCHANGED msg
  <2>1. \A m \in Msg, t \in Task : FreshMsg(m, t)' => FreshMsg(m, t)
    BY <1>5 DEF FreshMsg
  <2> QED BY <1>3, <1>4, <2>1, NothingNewFresh
<1>6. ASSUME NEW m \in Msg,
             msg' = [msg EXCEPT ![m] = [st |-> "new", task |-> disp[n].task,
                                        fresh |-> disp[n].fresh]]
      PROVE  DispatchInv'
  <2>1. \A k \in Msg, t \in Task :
          FreshMsg(k, t)' => IF k = m THEN FreshClaim(n, t) ELSE FreshMsg(k, t)
    BY <1>6 DEF FreshMsg, FreshClaim, TypeOK
  <2>2. OneDispatchPerWait'
    BY <1>3, <2>1 DEF DispatchInv, OneDispatchPerWait
  <2>3. WaitingNotDispatched'
    BY <1>3, <1>4, <2>1 DEF DispatchInv, WaitingNotDispatched, NothingFresh
  <2> QED BY <2>2, <2>3 DEF DispatchInv
<1> QED BY <1>5, <1>6 DEF Enqueue

\* Every step of a leader preserves the dispatch invariant.
LEMMA LeaderDispatch ==
  ASSUME TypeOK, DispatchInv, NEW n \in Node, Leader(n)
  PROVE  DispatchInv'
<1>0. disp[n] \in DispState
  BY DEF TypeOK
<1>d. ASSUME NEW c, NEW todo
      PROVE  /\ [disp[n] EXCEPT !.pc = c].task = disp[n].task
             /\ [disp[n] EXCEPT !.pc = c].fresh = disp[n].fresh
             /\ [disp[n] EXCEPT !.pc = c, !.todo = todo].task = disp[n].task
             /\ [disp[n] EXCEPT !.pc = c, !.todo = todo].fresh = disp[n].fresh
             /\ [disp[n] EXCEPT !.todo = todo].task = disp[n].task
             /\ [disp[n] EXCEPT !.todo = todo].fresh = disp[n].fresh
             /\ [disp[n] EXCEPT !.pc = c, !.task = NoTask, !.fresh = FALSE].task
                   = NoTask
             /\ [disp[n] EXCEPT !.pc = c, !.task = NoTask, !.fresh = FALSE].fresh
                   = FALSE
  BY <1>0 DEF DispState
<1>1. CASE TaskRunning(n)
  <2>1. UNCHANGED <<db, msg>>
    BY <1>1 DEF TaskRunning, DbError
  <2> DEFINE d == [disp[n] EXCEPT !.pc = "init",
                                  !.todo = {t \in Task : db[t] \in Unfinished}]
  <2>2. d.task = disp[n].task /\ d.fresh = disp[n].fresh
    BY <1>d
  <2>3. CASE disp' = [disp EXCEPT ![n] = d]
    <3> HIDE DEF d
    <3> QED BY <2>1, <2>2, <2>3, QuietDispatcher
  <2> DEFINE i == [disp[n] EXCEPT !.pc = "init"]
  <2>4. CASE disp' = [disp EXCEPT ![n] = i]
    <3>1. i.task = disp[n].task /\ i.fresh = disp[n].fresh
      BY <1>d
    <3> HIDE DEF i
    <3> QED BY <2>1, <2>4, <3>1, QuietDispatcher
  <2> QED BY <1>1, <2>3, <2>4 DEF TaskRunning, TypeOK
<1>2. ASSUME NEW t \in Task, InitQueue(n, t) PROVE DispatchInv'
  <2> DEFINE d == [disp EXCEPT ![n].todo = @ \ {t}]
  <2>1. d = [disp EXCEPT ![n] = [disp[n] EXCEPT !.todo = disp[n].todo \ {t}]]
    BY DEF TypeOK
  <2>2. [disp[n] EXCEPT !.todo = disp[n].todo \ {t}] \in DispState
    BY <1>0 DEF DispState
  <2>3. d \in [Node -> DispState]
    BY <2>1, <2>2 DEF TypeOK
  <2>4. \A k \in Node : d[k].task = disp[k].task /\ d[k].fresh = disp[k].fresh
    BY <1>d, <2>1 DEF TypeOK
  <2>5. CASE Put(t, "waiting") /\ Supersede(t, d)
    <3> HIDE DEF d
    <3> QED BY <2>3, <2>4, <2>5, SupersedingStep
  <2>6. CASE UNCHANGED <<db, msg>> /\ disp' = d
    <3> DEFINE r == [disp[n] EXCEPT !.todo = disp[n].todo \ {t}]
    <3>1. r.task = disp[n].task /\ r.fresh = disp[n].fresh
      BY <1>d
    <3>2. disp' = [disp EXCEPT ![n] = r]
      BY <2>1, <2>6
    <3> HIDE DEF r
    <3> QED BY <2>6, <3>1, <3>2, QuietDispatcher
  <2> QED BY <1>2, <2>5, <2>6 DEF InitQueue, DbError
<1>3. CASE Start(n) \/ EndOfBatch(n)
  <2> DEFINE r == [disp[n] EXCEPT !.pc = "idle"]
  <2>1. disp' = [disp EXCEPT ![n] = r]
    BY <1>3 DEF Start, EndOfBatch, TypeOK
  <2>2. UNCHANGED <<db, msg>>
    BY <1>3 DEF Start, EndOfBatch
  <2>3. r.task = disp[n].task /\ r.fresh = disp[n].fresh
    BY <1>d
  <2> HIDE DEF r
  <2> QED BY <2>1, <2>2, <2>3, QuietDispatcher
<1>4. CASE WaitingTasks(n)
  <2>1. disp' = [disp EXCEPT ![n] = [disp[n] EXCEPT !.pc = "batch",
                               !.todo = {t \in Task : db[t] = "waiting"}]]
    BY <1>4 DEF WaitingTasks, TypeOK
  <2>2. UNCHANGED <<db, msg>>
    BY <1>4 DEF WaitingTasks
  <2> DEFINE d == [disp[n] EXCEPT !.pc = "batch",
                                  !.todo = {t \in Task : db[t] = "waiting"}]
  <2>3. d.task = disp[n].task /\ d.fresh = disp[n].fresh
    BY <1>d
  <2> HIDE DEF d
  <2>4. disp' = [disp EXCEPT ![n] = d]
    BY <2>1 DEF d
  <2> QED BY <2>2, <2>3, <2>4, QuietDispatcher
<1>5. ASSUME NEW t \in Task, Claim(n, t) PROVE DispatchInv'
  BY <1>5, ClaimDispatch
<1>6. CASE Enqueue(n)
  BY <1>6, EnqueueDispatch
<1>7. CASE Revert(n)
  <2> DEFINE r == [disp[n] EXCEPT !.pc = "batch", !.task = NoTask, !.fresh = FALSE]
             d == [disp EXCEPT ![n] = r]
  <2>1. d \in [Node -> DispState]
    BY <1>0 DEF DispState, TypeOK
  <2>2. r.task = NoTask /\ r.fresh = FALSE
    BY <1>d
  <2> HIDE DEF r
  <2>3. \A k \in Node : /\ d[k].task \in {disp[k].task, NoTask}
                        /\ d[k].fresh => disp[k].fresh
    BY <2>2 DEF TypeOK
  <2>4. CASE Put(disp[n].task, "waiting") /\ Supersede(disp[n].task, d)
    <3> HIDE DEF d
    <3> QED BY <2>1, <2>3, <2>4, SupersedingStep
  <2>5. CASE UNCHANGED <<db, msg>> /\ disp' = d
    BY <2>2, <2>5, QuietDispatcher
  <2> QED BY <1>7, <2>4, <2>5 DEF Revert, CompareAndSwap, DbError, r
<1>8. CASE LocalQueued(n)
  <2>1. PICK c \in {"acquire", "revert"} :
          disp' = [disp EXCEPT ![n] = [disp[n] EXCEPT !.pc = c]]
    BY <1>8 DEF LocalQueued, TypeOK
  <2>2. UNCHANGED msg /\ (UNCHANGED db \/ Put(disp[n].task, "queued"))
    BY <1>8 DEF LocalQueued, DbError
  <2> DEFINE r == [disp[n] EXCEPT !.pc = c]
  <2>3. r.task = disp[n].task /\ r.fresh = disp[n].fresh
    BY <1>d
  <2>4. disp' = [disp EXCEPT ![n] = r]
    BY <2>1
  <2> HIDE DEF r
  <2> QED BY <2>2, <2>3, <2>4, QuietDispatcher
<1>9. CASE LocalRun(n)
  BY <1>9, <1>d, QuietDispatcher DEF LocalRun
<1> QED
  BY <1>1, <1>2, <1>3, <1>4, <1>5, <1>6, <1>7, <1>8, <1>9 DEF Leader

\* Workers move messages, make none, and write no row to waiting.
LEMMA WorkerDispatch ==
  ASSUME TypeOK, DispatchInv, NEW n \in Node, Worker(n)
  PROVE  DispatchInv'
<1>1. UNCHANGED disp
  BY DEF Worker, ReadGroup, AutoClaim, Receive, WorkerRun, ackDispatchMessages,
         processDispatchMessage
<1>2. CASE UNCHANGED msg
  <2>1. UNCHANGED db \/ \E t : Put(t, "queued")
    BY DEF Worker, ReadGroup, AutoClaim, Receive, WorkerRun, ackDispatchMessages,
           processDispatchMessage, DbError
  <2> QED BY <1>1, <1>2, <2>1, QuietStep
<1>3. CASE ReadGroup(n) \/ ackDispatchMessages(n)
  <2>1. UNCHANGED db
    BY <1>3 DEF ReadGroup, Receive, ackDispatchMessages
  <2>2. ASSUME NEW m \in Msg
        PROVE  msg'[m].task = msg[m].task /\ msg'[m].fresh = msg[m].fresh
    <3>1. msg[m] \in MsgState
      BY DEF TypeOK
    <3> QED BY <1>3, <3>1 DEF ReadGroup, ackDispatchMessages, MsgState
  <2>3. \A m \in Msg, t \in Task : FreshMsg(m, t)' => FreshMsg(m, t)
    BY <2>2 DEF FreshMsg
  <2>4. \A k \in Node, t \in Task : FreshClaim(k, t)' => FreshClaim(k, t)
    BY <1>1 DEF FreshClaim
  <2> QED BY <2>1, <2>3, <2>4, NothingNewFresh
<1> QED
  BY <1>2, <1>3 DEF Worker, AutoClaim, WorkerRun, processDispatchMessage

\* The API, the environment and the controllers preserve the dispatch invariant.
LEMMA OtherDispatch ==
  ASSUME TypeOK, DispatchInv,
         Api \/ Environment \/ Roles \/ \E e \in Exec : Controller(e)
  PROVE  DispatchInv'
<1>1. ASSUME NEW t \in Task, enqueueWorkflowTask(t) PROVE DispatchInv'
  <2>1. \A u \in Task : db'[u] \in {"none", "waiting"} => db[u] \in {"none", "waiting"}
    BY <1>1 DEF enqueueWorkflowTask, Put, TypeOK
  <2> QED
    BY <1>1, <2>1, NothingNewFresh DEF enqueueWorkflowTask, FreshClaim, FreshMsg
<1>2. ASSUME NEW t \in Task, cancelWorkflowTask(t) PROVE DispatchInv'
  BY <1>2, QuietStep DEF cancelWorkflowTask
<1>3. CASE LeaseExpires
  BY <1>3, QuietStep DEF LeaseExpires
<1>4. ASSUME NEW n \in Node, Crash(n) \/ onStartedLeading(n) PROVE DispatchInv'
  <2>1. PICK d \in {NoDisp, [NoDisp EXCEPT !.pc = "list"]} :
          disp' = [disp EXCEPT ![n] = d]
    BY <1>4 DEF Crash, onStartedLeading
  <2>2. d.task = NoTask /\ d.fresh = FALSE
    BY DEF NoDisp
  <2> QED BY <1>4, <2>1, <2>2, QuietDispatcher DEF Crash, onStartedLeading
<1>5. ASSUME NEW n \in Node, Restart(n) \/ startWorkers(n) \/ stopWorkers(n)
      PROVE  DispatchInv'
  BY <1>5, QuietStep DEF Restart, startWorkers, stopWorkers
<1>6. ASSUME NEW e \in Exec, Controller(e) PROVE DispatchInv'
  <2>1. UNCHANGED <<disp, msg>>
    BY <1>6 DEF Controller, RunStart, JobAck, RunFail, RunComplete, RunReturn
  <2>2. UNCHANGED db \/ \E t, s : s \in {"running", "completed"} /\ Put(t, s)
    BY <1>6 DEF Controller, RunStart, JobAck, RunFail, RunComplete, RunReturn, ack,
                DbError
  <2> QED BY <2>1, <2>2, QuietStep
<1> QED
  BY <1>1, <1>2, <1>3, <1>4, <1>5, <1>6 DEF Api, Environment, Roles

\* Whatever leaders overlap and whatever calls fail, a row is dispatched at most
\* once each time it becomes waiting.
THEOREM DispatchedOnce == Spec => []OneDispatchPerWait
<1>1. Init => DispatchInv
  BY DEF Init, DispatchInv, OneDispatchPerWait, WaitingNotDispatched, NothingFresh,
         FreshClaim, FreshMsg, NoDisp, NoMsg
<1>2. TypeOK /\ DispatchInv /\ [Next]_vars => DispatchInv'
  <2>1. TypeOK /\ DispatchInv /\ Next => DispatchInv'
    BY LeaderDispatch, WorkerDispatch, OtherDispatch DEF Next
  <2>2. TypeOK /\ DispatchInv /\ UNCHANGED vars => DispatchInv'
    BY QuietStep DEF vars
  <2> QED BY <2>1, <2>2
<1>3. DispatchInv => OneDispatchPerWait
  BY DEF DispatchInv
<1> QED BY <1>1, <1>2, <1>3, TypeCorrect, PTL DEF Spec

-----------------------------------------------------------------------------
(***************************************************************************)
(* What the steps do to the parts of the state that the remaining          *)
(* invariants speak of: the records as their fields, without the lists and *)
(* the history.                                                            *)
(***************************************************************************)
\* Row t gets status s and no other row is written.
RowGoes(t, s) == \A u \in Task : db'[u] = IF u = t THEN s ELSE db[u]

\* The leader loop of k is where it was.
SameDisp(k) == disp'[k].pc = disp[k].pc /\ disp'[k].task = disp[k].task

\* The loop of n goes to c with task t, the others stay.
DispGoes(n, c, t) ==
  /\ disp'[n].pc = c /\ disp'[n].task = t
  /\ \A k \in Node \ {n} : SameDisp(k)

\* Entry m keeps its state and its task.
SameMsg(m) == msg'[m].st = msg[m].st /\ msg'[m].task = msg[m].task

\* The worker of n goes to c with these batches and task t, the others stay.
WorkGoes(n, c, todo, done, t) ==
  /\ worker'[n].pc = c /\ worker'[n].cur = t
  /\ worker'[n].todo = todo /\ worker'[n].done = done
  /\ \A k \in Node \ {n} : worker'[k] = worker[k]

\* Controller e goes to c and keeps its task and its place.
ExecGoes(e, c) ==
  /\ exec'[e].pc = c /\ exec'[e].task = exec[e].task
  /\ exec'[e].node = exec[e].node /\ exec'[e].grouped = exec[e].grouped
  /\ \A f \in Exec \ {e} : exec'[f] = exec[f]

\* Controller e ends.
ExecEnds(e) ==
  /\ exec'[e].pc = "idle" /\ exec'[e].task = NoTask
  /\ exec'[e].node = NoNode /\ ~exec'[e].grouped
  /\ \A f \in Exec \ {e} : exec'[f] = exec[f]

\* A free controller e is started on n for t, in the group of n when there is one.
Spawned(e, n, t) ==
  /\ exec[e].pc = "idle"
  /\ exec'[e].pc = "spawned" /\ exec'[e].task = t /\ exec'[e].node = n
  /\ exec'[e].grouped = (group[n] = "open")
  /\ \A f \in Exec \ {e} : exec'[f] = exec[f]

\* A database write names one row.
LEMMA PutEffect ==
  ASSUME TypeOK, NEW t, NEW s, Put(t, s)
  PROVE  RowGoes(t, s)
BY DEF TypeOK, Put, RowGoes

\* A fault raises its count and no other.
LEMMA FaultEffect ==
  ASSUME TypeOK, NEW f \in Fault, Happens(f)
  PROVE  faults'[f] = faults[f] + 1 /\ \A g \in Fault \ {f} : faults'[g] = faults[g]
BY DEF TypeOK, Happens

\* Setting the fields of one dispatcher.
LEMMA DispEffect ==
  ASSUME TypeOK, NEW n \in Node, NEW d, disp' = [disp EXCEPT ![n] = d]
  PROVE  DispGoes(n, d.pc, d.task)
BY DEF TypeOK, DispGoes, SameDisp

\* Superseding claims is visible in the history only.
LEMMA SupersedeEffect ==
  ASSUME TypeOK, NEW n \in Node, NEW r \in DispState, NEW t,
         Supersede(t, [disp EXCEPT ![n] = r])
  PROVE  /\ DispGoes(n, r.pc, r.task)
         /\ \A m \in Msg : SameMsg(m)
<1> DEFINE d == [disp EXCEPT ![n] = r]
<1>1. d \in [Node -> DispState] /\ d[n] = r /\ \A k \in Node \ {n} : d[k] = disp[k]
  BY DEF TypeOK
<1> HIDE DEF d
<1>2. \A k \in Node : disp'[k].pc = d[k].pc /\ disp'[k].task = d[k].task
  <2> SUFFICES ASSUME NEW k \in Node
               PROVE  disp'[k].pc = d[k].pc /\ disp'[k].task = d[k].task
    OBVIOUS
  <2>1. d[k] \in DispState
    BY <1>1
  <2>2. disp'[k] = d[k] \/ disp'[k] = [d[k] EXCEPT !.fresh = FALSE]
    BY DEF Supersede, d
  <2> QED BY <2>1, <2>2 DEF DispState
<1>3. \A m \in Msg : SameMsg(m)
  <2> SUFFICES ASSUME NEW m \in Msg PROVE SameMsg(m)
    OBVIOUS
  <2>1. msg[m] \in MsgState
    BY DEF TypeOK
  <2>2. msg'[m] = msg[m] \/ msg'[m] = [msg[m] EXCEPT !.fresh = FALSE]
    BY DEF Supersede
  <2> QED BY <2>1, <2>2 DEF MsgState, SameMsg
<1> QED BY <1>1, <1>2, <1>3 DEF DispGoes, SameDisp

\* InitQueue has its list.
LEMMA TaskRunningEffect ==
  ASSUME TypeOK, NEW n \in Node, TaskRunning(n)
  PROVE  /\ disp[n].pc = "list" /\ DispGoes(n, "init", disp[n].task)
         /\ faults' = faults \/ Happens("db")
         /\ UNCHANGED <<mode, db, lease, role, group, msg, workerOn, worker, exec>>
<1>0. disp[n] \in DispState
  BY DEF TypeOK
<1> DEFINE r1 == [disp[n] EXCEPT !.pc = "init",
                                 !.todo = {t \in Task : db[t] \in Unfinished}]
           r2 == [disp[n] EXCEPT !.pc = "init"]
<1>1. r1.pc = "init" /\ r1.task = disp[n].task /\ r2.pc = "init" /\ r2.task = disp[n].task
  BY <1>0 DEF DispState
<1>2. PICK r \in {r1, r2} : disp' = [disp EXCEPT ![n] = r]
  BY DEF TaskRunning, TypeOK
<1>3. r.pc = "init" /\ r.task = disp[n].task
  BY <1>1
<1> HIDE DEF r1, r2
<1>4. DispGoes(n, r.pc, r.task)
  BY <1>2, DispEffect
<1> QED BY <1>3, <1>4 DEF TaskRunning, DbError, NoFault

\* A listed row is written, or the call failed.
LEMMA InitQueueEffect ==
  ASSUME TypeOK, NEW n \in Node, NEW t \in Task, InitQueue(n, t)
  PROVE  /\ disp[n].pc = "init" /\ DispGoes(n, "init", disp[n].task)
         /\ \A m \in Msg : SameMsg(m)
         /\ \/ RowGoes(t, "waiting") /\ faults' = faults
            \/ db' = db /\ Happens("db")
         /\ UNCHANGED <<mode, lease, role, group, workerOn, worker, exec>>
<1>0. disp[n] \in DispState
  BY DEF TypeOK
<1> DEFINE r == [disp[n] EXCEPT !.todo = disp[n].todo \ {t}]
<1>1. r \in DispState /\ r.pc = disp[n].pc /\ r.task = disp[n].task
  BY <1>0 DEF DispState
<1>2. [disp EXCEPT ![n].todo = @ \ {t}] = [disp EXCEPT ![n] = r]
  BY DEF TypeOK
<1> HIDE DEF r
<1>3. DispGoes(n, disp[n].pc, disp[n].task) /\ \A m \in Msg : SameMsg(m)
  <2>1. CASE Supersede(t, [disp EXCEPT ![n] = r])
    BY <1>1, <2>1, SupersedeEffect
  <2>2. CASE disp' = [disp EXCEPT ![n] = r] /\ UNCHANGED msg
    BY <1>1, <2>2, DispEffect DEF SameMsg
  <2> QED BY <1>2, <2>1, <2>2 DEF InitQueue
<1>4. \/ RowGoes(t, "waiting") /\ faults' = faults
      \/ db' = db /\ Happens("db")
  BY PutEffect DEF InitQueue, DbError, NoFault
<1> QED BY <1>3, <1>4 DEF InitQueue

\* The poll begins, with its group.
LEMMA StartEffect ==
  ASSUME TypeOK, NEW n \in Node, Start(n)
  PROVE  /\ disp[n].pc = "init" /\ DispGoes(n, "idle", disp[n].task)
         /\ group'[n] = "open" /\ \A k \in Node \ {n} : group'[k] = group[k]
         /\ UNCHANGED <<mode, db, lease, role, msg, workerOn, worker, exec, faults>>
<1>0. disp[n] \in DispState
  BY DEF TypeOK
<1> DEFINE r == [disp[n] EXCEPT !.pc = "idle"]
<1>1. r.pc = "idle" /\ r.task = disp[n].task
  BY <1>0 DEF DispState
<1>2. disp' = [disp EXCEPT ![n] = r]
  BY DEF Start, TypeOK
<1>3. DispGoes(n, "idle", disp[n].task)
  BY <1>1, <1>2, DispEffect
<1> QED BY <1>3 DEF Start, TypeOK

\* A tick of the poll, and the end of its list.
LEMMA PollEffect ==
  ASSUME TypeOK, NEW n \in Node, WaitingTasks(n) \/ EndOfBatch(n)
  PROVE  /\ disp[n].pc \in {"idle", "batch"}
         /\ \E c \in {"idle", "batch"} : DispGoes(n, c, disp[n].task)
         /\ UNCHANGED <<mode, db, lease, role, group, msg, workerOn, worker, exec, faults>>
<1>0. disp[n] \in DispState
  BY DEF TypeOK
<1> DEFINE r1 == [disp[n] EXCEPT !.pc = "batch", !.todo = {t \in Task : db[t] = "waiting"}]
           r2 == [disp[n] EXCEPT !.pc = "idle"]
<1>1. r1.pc = "batch" /\ r1.task = disp[n].task /\ r2.pc = "idle" /\ r2.task = disp[n].task
  BY <1>0 DEF DispState
<1>2. PICK r \in {r1, r2} : disp' = [disp EXCEPT ![n] = r]
  BY DEF WaitingTasks, EndOfBatch, TypeOK
<1>3. r.pc \in {"idle", "batch"} /\ r.task = disp[n].task
  BY <1>1
<1>4. DispGoes(n, r.pc, disp[n].task)
  BY <1>2, <1>3, DispEffect
<1>5. \E c \in {"idle", "batch"} : DispGoes(n, c, disp[n].task)
  BY <1>3, <1>4
<1> QED BY <1>5 DEF WaitingTasks, EndOfBatch

\* The swap wins, wins and its reply is lost, or leaves the row.
LEMMA ClaimEffect ==
  ASSUME TypeOK, NEW n \in Node, NEW t \in Task, Claim(n, t)
  PROVE  /\ disp[n].pc = "batch"
         /\ \/ /\ db[t] = "waiting" /\ RowGoes(t, "queued")
               /\ \/ DispGoes(n, "claimed", t) /\ faults' = faults
                  \/ DispGoes(n, "batch", disp[n].task) /\ Happens("db")
            \/ /\ db' = db /\ DispGoes(n, "batch", disp[n].task)
               /\ faults' = faults \/ Happens("db")
         /\ UNCHANGED <<mode, lease, role, group, msg, workerOn, worker, exec>>
<1>0. disp[n] \in DispState
  BY DEF TypeOK
<1> DEFINE r == [disp[n] EXCEPT !.todo = disp[n].todo \ {t}]
           c == [pc |-> "claimed", todo |-> disp[n].todo \ {t}, task |-> t, fresh |-> TRUE]
<1>1. r.pc = disp[n].pc /\ r.task = disp[n].task /\ c.pc = "claimed" /\ c.task = t
  BY <1>0 DEF DispState
<1>2. [disp EXCEPT ![n].todo = disp[n].todo \ {t}] = [disp EXCEPT ![n] = r]
  BY DEF TypeOK
<1> HIDE DEF r, c
<1>3. disp' = [disp EXCEPT ![n] = r] => DispGoes(n, disp[n].pc, disp[n].task)
  BY <1>1, DispEffect
<1>4. disp' = [disp EXCEPT ![n] = c] => DispGoes(n, "claimed", t)
  BY <1>1, DispEffect
<1>5. CompareAndSwap(t, "waiting", "queued")
        => db[t] = "waiting" /\ RowGoes(t, "queued")
  BY PutEffect DEF CompareAndSwap
<1> QED BY <1>2, <1>3, <1>4, <1>5 DEF Claim, DbError, NoFault, c

\* The message is sent; a failing call may have sent it too.
LEMMA EnqueueEffect ==
  ASSUME TypeOK, NEW n \in Node, Enqueue(n)
  PROVE  /\ mode # "local" /\ disp[n].pc = "claimed"
         /\ \/ \E m \in Msg : /\ msg[m].st = "free"
                              /\ msg'[m].st = "new" /\ msg'[m].task = disp[n].task
                              /\ \A k \in Msg \ {m} : SameMsg(k)
            \/ Happens("queue") /\ UNCHANGED msg
         /\ \/ DispGoes(n, "batch", NoTask) /\ faults' = faults
            \/ DispGoes(n, "revert", disp[n].task) /\ Happens("queue")
         /\ UNCHANGED <<mode, db, lease, role, group, workerOn, worker, exec>>
<1>0. disp[n] \in DispState
  BY DEF TypeOK
<1> DEFINE s == [disp[n] EXCEPT !.pc = "batch", !.task = NoTask, !.fresh = FALSE]
           f == [disp[n] EXCEPT !.pc = "revert", !.fresh = FALSE]
           x == [st |-> "new", task |-> disp[n].task, fresh |-> disp[n].fresh]
<1>1. s.pc = "batch" /\ s.task = NoTask /\ f.pc = "revert" /\ f.task = disp[n].task
  BY <1>0 DEF DispState
<1>2. \/ disp' = [disp EXCEPT ![n] = s] /\ faults' = faults
      \/ disp' = [disp EXCEPT ![n] = f] /\ Happens("queue")
  BY DEF Enqueue, NoFault
<1>3. \/ DispGoes(n, "batch", NoTask) /\ faults' = faults
      \/ DispGoes(n, "revert", disp[n].task) /\ Happens("queue")
  <2> HIDE DEF s, f
  <2> QED BY <1>1, <1>2, DispEffect
<1>4. \/ \E m \in Msg : msg[m].st = "free" /\ msg' = [msg EXCEPT ![m] = x]
      \/ Happens("queue") /\ UNCHANGED msg
  BY DEF Enqueue
<1>5. ASSUME NEW m \in Msg, msg' = [msg EXCEPT ![m] = x]
      PROVE  /\ msg'[m].st = "new" /\ msg'[m].task = disp[n].task
             /\ \A k \in Msg \ {m} : SameMsg(k)
  BY <1>5 DEF SameMsg, TypeOK
<1>6. \/ \E m \in Msg : /\ msg[m].st = "free"
                        /\ msg'[m].st = "new" /\ msg'[m].task = disp[n].task
                        /\ \A k \in Msg \ {m} : SameMsg(k)
      \/ Happens("queue") /\ UNCHANGED msg
  <2> HIDE DEF x
  <2> QED BY <1>4, <1>5
<1> QED BY <1>3, <1>6 DEF Enqueue

\* The row is given back, unless it has changed or the call fails.
LEMMA RevertEffect ==
  ASSUME TypeOK, NEW n \in Node, Revert(n)
  PROVE  /\ disp[n].pc = "revert" /\ DispGoes(n, "batch", NoTask)
         /\ \A m \in Msg : SameMsg(m)
         /\ \/ /\ db[disp[n].task] = "queued" /\ RowGoes(disp[n].task, "waiting")
               /\ faults' = faults
            \/ db[disp[n].task] # "queued" /\ db' = db /\ faults' = faults
            \/ db' = db /\ Happens("db")
         /\ UNCHANGED <<mode, lease, role, group, workerOn, worker, exec>>
<1>0. disp[n] \in DispState
  BY DEF TypeOK
<1> DEFINE r == [disp[n] EXCEPT !.pc = "batch", !.task = NoTask, !.fresh = FALSE]
<1>1. r \in DispState /\ r.pc = "batch" /\ r.task = NoTask
  BY <1>0 DEF DispState
<1>2. \/ Supersede(disp[n].task, [disp EXCEPT ![n] = r])
      \/ disp' = [disp EXCEPT ![n] = r] /\ UNCHANGED msg
  BY DEF Revert
<1> HIDE DEF r
<1>3. DispGoes(n, "batch", NoTask) /\ \A m \in Msg : SameMsg(m)
  BY <1>1, <1>2, SupersedeEffect, DispEffect DEF SameMsg
<1>4. \/ /\ db[disp[n].task] = "queued" /\ RowGoes(disp[n].task, "waiting")
         /\ faults' = faults
      \/ db[disp[n].task] # "queued" /\ db' = db /\ faults' = faults
      \/ db' = db /\ Happens("db")
  BY PutEffect DEF Revert, CompareAndSwap, DbError, NoFault
<1> QED BY <1>3, <1>4 DEF Revert

\* A slot is taken by an idle controller, or the group is cancelled and nothing is.
LEMMA RunEffect ==
  ASSUME TypeOK, NEW n \in Node, NEW t, runWorkflowTask(n, t)
  PROVE  \/ group[n] # "cancelled" /\ \E e \in Exec : Spawned(e, n, t)
         \/ group[n] = "cancelled" /\ UNCHANGED exec
<1>1. ASSUME NEW e \in Exec, exec[e].pc = "idle",
             exec' = [exec EXCEPT ![e] = [pc |-> "spawned", task |-> t, node |-> n,
                                         grouped |-> group[n] = "open"]]
      PROVE  Spawned(e, n, t)
  <2> DEFINE g == group[n] = "open"
             x == [pc |-> "spawned", task |-> t, node |-> n, grouped |-> g]
  <2>1. exec'[e] = x /\ \A f \in Exec \ {e} : exec'[f] = exec[f]
    BY <1>1 DEF TypeOK
  <2>2. x.pc = "spawned" /\ x.task = t /\ x.node = n /\ x.grouped = g
    <3> HIDE DEF g
    <3> QED OBVIOUS
  <2> HIDE DEF x
  <2> QED BY <1>1, <2>1, <2>2, Zenon DEF Spawned
<1> QED BY <1>1 DEF runWorkflowTask

\* WorkflowTaskSender writes queued again, or has to revert.
LEMMA LocalQueuedEffect ==
  ASSUME TypeOK, NEW n \in Node, LocalQueued(n)
  PROVE  /\ mode = "local" /\ disp[n].pc = "claimed"
         /\ \/ /\ DispGoes(n, "acquire", disp[n].task) /\ RowGoes(disp[n].task, "queued")
               /\ faults' = faults
            \/ DispGoes(n, "revert", disp[n].task) /\ db' = db /\ Happens("db")
         /\ UNCHANGED <<mode, lease, role, group, msg, workerOn, worker, exec>>
<1>0. disp[n] \in DispState
  BY DEF TypeOK
<1> DEFINE a == [disp[n] EXCEPT !.pc = "acquire"]
           r == [disp[n] EXCEPT !.pc = "revert"]
<1>1. a.pc = "acquire" /\ a.task = disp[n].task /\ r.pc = "revert" /\ r.task = disp[n].task
  BY <1>0 DEF DispState
<1>2. \/ disp' = [disp EXCEPT ![n] = a] /\ Put(disp[n].task, "queued") /\ faults' = faults
      \/ disp' = [disp EXCEPT ![n] = r] /\ db' = db /\ Happens("db")
  BY DEF LocalQueued, DbError, NoFault, TypeOK
<1>3. \/ /\ DispGoes(n, "acquire", disp[n].task) /\ RowGoes(disp[n].task, "queued")
         /\ faults' = faults
      \/ DispGoes(n, "revert", disp[n].task) /\ db' = db /\ Happens("db")
  <2> HIDE DEF a, r
  <2> QED BY <1>1, <1>2, DispEffect, PutEffect
<1> QED BY <1>3 DEF LocalQueued

\* ... and starts the controller.
LEMMA LocalRunEffect ==
  ASSUME TypeOK, NEW n \in Node, LocalRun(n)
  PROVE  /\ disp[n].pc = "acquire" /\ DispGoes(n, "batch", NoTask)
         /\ \/ group[n] # "cancelled" /\ \E e \in Exec : Spawned(e, n, disp[n].task)
            \/ group[n] = "cancelled" /\ UNCHANGED exec
         /\ UNCHANGED <<mode, db, lease, role, group, msg, workerOn, worker, faults>>
<1>0. disp[n] \in DispState
  BY DEF TypeOK
<1> DEFINE r == [disp[n] EXCEPT !.pc = "batch", !.task = NoTask, !.fresh = FALSE]
<1>1. r.pc = "batch" /\ r.task = NoTask
  BY <1>0 DEF DispState
<1>2. disp' = [disp EXCEPT ![n] = r]
  BY DEF LocalRun
<1>3. DispGoes(n, "batch", NoTask)
  BY <1>1, <1>2, DispEffect
<1> QED BY <1>3, RunEffect DEF LocalRun

\* Setting the fields of one worker.
LEMMA WorkEffect ==
  ASSUME TypeOK, NEW n \in Node, NEW w, worker' = [worker EXCEPT ![n] = w]
  PROVE  WorkGoes(n, w.pc, w.todo, w.done, w.cur)
BY DEF TypeOK, WorkGoes

\* A batch is read, which makes its entries pending, or claimed from the pending ones.
LEMMA ReceiveEffect ==
  ASSUME TypeOK, NEW n \in Node, ReadGroup(n) \/ AutoClaim(n)
  PROVE  /\ workerOn[n] /\ worker[n].pc = "idle"
         /\ \E batch \in SUBSET Msg :
              /\ WorkGoes(n, "batch", batch, {}, NoTask)
              /\ \/ /\ \A m \in batch : /\ msg[m].st = "new" /\ msg'[m].st = "pending"
                                        /\ msg'[m].task = msg[m].task
                    /\ \A m \in Msg \ batch : SameMsg(m)
                    /\ faults' = faults
                 \/ /\ \A m \in batch : msg[m].st = "pending"
                    /\ \/ (\A m \in batch : ~InBatch(m)) /\ faults' = faults
                       \/ Happens("slow")
                    /\ UNCHANGED msg
         /\ UNCHANGED <<mode, db, lease, role, disp, group, workerOn, exec>>
<1>1. ASSUME NEW batch \in SUBSET Msg, Receive(n, batch)
      PROVE  WorkGoes(n, "batch", batch, {}, NoTask)
  <2> DEFINE w == [NoWork EXCEPT !.pc = "batch", !.todo = batch]
  <2>1. w.pc = "batch" /\ w.todo = batch /\ w.done = {} /\ w.cur = NoTask
    BY DEF NoWork
  <2>2. worker' = [worker EXCEPT ![n] = w]
    BY <1>1 DEF Receive
  <2> HIDE DEF w
  <2> QED BY <2>1, <2>2, WorkEffect
<1>2. CASE ReadGroup(n)
  <2>1. PICK batch \in SUBSET {m \in Msg : msg[m].st = "new"} :
          /\ Receive(n, batch) /\ NoFault
          /\ msg' = [m \in Msg |-> IF m \in batch
                                  THEN [msg[m] EXCEPT !.st = "pending"] ELSE msg[m]]
    BY <1>2 DEF ReadGroup
  <2>2. \A m \in batch : /\ msg[m].st = "new" /\ msg'[m].st = "pending"
                         /\ msg'[m].task = msg[m].task
    <3> SUFFICES ASSUME NEW m \in batch
                 PROVE  msg'[m].st = "pending" /\ msg'[m].task = msg[m].task
      OBVIOUS
    <3>1. msg[m] \in MsgState /\ msg'[m] = [msg[m] EXCEPT !.st = "pending"]
      BY <2>1 DEF TypeOK
    <3> QED BY <3>1 DEF MsgState
  <2>3. \A m \in Msg \ batch : SameMsg(m)
    BY <2>1 DEF SameMsg
  <2>4. WorkGoes(n, "batch", batch, {}, NoTask)
    BY <1>1, <2>1
  <2>5. batch \in SUBSET Msg
    OBVIOUS
  <2>6. faults' = faults
    BY <2>1 DEF NoFault
  <2>7. /\ workerOn[n] /\ worker[n].pc = "idle"
        /\ UNCHANGED <<mode, db, lease, role, disp, group, workerOn, exec>>
    BY <2>1 DEF Receive
  <2> QED BY <2>2, <2>3, <2>4, <2>5, <2>6, <2>7
<1>3. CASE AutoClaim(n)
  <2>1. PICK batch \in SUBSET {m \in Msg : msg[m].st = "pending"} :
          /\ Receive(n, batch) /\ UNCHANGED msg
          /\ IF \E m \in batch : InBatch(m) THEN Happens("slow") ELSE NoFault
    BY <1>3 DEF AutoClaim
  <2>2. \/ (\A m \in batch : ~InBatch(m)) /\ faults' = faults
        \/ Happens("slow")
    BY <2>1 DEF NoFault
  <2>4. WorkGoes(n, "batch", batch, {}, NoTask)
    BY <1>1, <2>1
  <2>5. batch \in SUBSET Msg /\ \A m \in batch : msg[m].st = "pending"
    OBVIOUS
  <2>7. /\ workerOn[n] /\ worker[n].pc = "idle"
        /\ UNCHANGED <<mode, db, lease, role, disp, group, workerOn, exec>>
    BY <2>1 DEF Receive
  <2> QED BY <2>1, <2>2, <2>4, <2>5, <2>7
<1> QED BY <1>2, <1>3

\* An entry is processed: its row is queued, or a call failed and it is done with.
LEMMA ProcessEffect ==
  ASSUME TypeOK, NEW n \in Node, NEW m \in Msg, processDispatchMessage(n, m)
  PROVE  /\ worker[n].pc = "batch" /\ m \in worker[n].todo
         /\ \/ /\ workerOn[n] /\ RowGoes(msg[m].task, "queued") /\ faults' = faults
               /\ WorkGoes(n, "acquire", worker[n].todo \ {m}, worker[n].done \cup {m},
                           msg[m].task)
            \/ /\ db' = db
               /\ Happens("db") \/ (~workerOn[n] /\ faults' = faults)
               /\ WorkGoes(n, "batch", worker[n].todo \ {m}, worker[n].done \cup {m},
                           worker[n].cur)
         /\ UNCHANGED <<mode, lease, role, disp, group, msg, workerOn, exec>>
<1>0. worker[n] \in WorkState
  BY DEF TypeOK
<1> DEFINE w == [worker[n] EXCEPT !.todo = @ \ {m}, !.done = @ \cup {m}]
           a == [w EXCEPT !.pc = "acquire", !.cur = msg[m].task]
<1>1. /\ w.pc = worker[n].pc /\ w.cur = worker[n].cur
      /\ w.todo = worker[n].todo \ {m} /\ w.done = worker[n].done \cup {m}
  BY <1>0 DEF WorkState
<1>2. /\ a.pc = "acquire" /\ a.cur = msg[m].task
      /\ a.todo = worker[n].todo \ {m} /\ a.done = worker[n].done \cup {m}
  BY <1>0 DEF WorkState
<1>3. \/ /\ workerOn[n] /\ Put(msg[m].task, "queued") /\ faults' = faults
         /\ worker' = [worker EXCEPT ![n] = a]
      \/ /\ db' = db
         /\ Happens("db") \/ (~workerOn[n] /\ faults' = faults)
         /\ worker' = [worker EXCEPT ![n] = w]
  BY DEF processDispatchMessage, DbError, NoFault
<1>4. worker[n].pc = "batch" /\ m \in worker[n].todo
  BY DEF processDispatchMessage
<1> HIDE DEF w, a
<1>5. \/ /\ workerOn[n] /\ RowGoes(msg[m].task, "queued") /\ faults' = faults
         /\ WorkGoes(n, "acquire", worker[n].todo \ {m}, worker[n].done \cup {m},
                     msg[m].task)
      \/ /\ db' = db
         /\ Happens("db") \/ (~workerOn[n] /\ faults' = faults)
         /\ WorkGoes(n, "batch", worker[n].todo \ {m}, worker[n].done \cup {m},
                     worker[n].cur)
  <2>1. worker' = [worker EXCEPT ![n] = a]
          => WorkGoes(n, "acquire", worker[n].todo \ {m}, worker[n].done \cup {m},
                      msg[m].task)
    <3>1. worker' = [worker EXCEPT ![n] = a] => WorkGoes(n, a.pc, a.todo, a.done, a.cur)
      BY WorkEffect
    <3> QED BY <1>2, <3>1, Zenon
  <2>2. worker' = [worker EXCEPT ![n] = w]
          => WorkGoes(n, "batch", worker[n].todo \ {m}, worker[n].done \cup {m},
                      worker[n].cur)
    <3>1. worker' = [worker EXCEPT ![n] = w] => WorkGoes(n, w.pc, w.todo, w.done, w.cur)
      BY WorkEffect
    <3> QED BY <1>1, <1>4, <3>1, Zenon
  <2>3. Put(msg[m].task, "queued") => RowGoes(msg[m].task, "queued")
    BY PutEffect
  <2> QED BY <1>3, <2>1, <2>2, <2>3, Zenon
<1> QED BY <1>4, <1>5 DEF processDispatchMessage

\* The controller of the entry is started.
LEMMA WorkerRunEffect ==
  ASSUME TypeOK, NEW n \in Node, WorkerRun(n)
  PROVE  /\ worker[n].pc = "acquire"
         /\ WorkGoes(n, "batch", worker[n].todo, worker[n].done, NoTask)
         /\ \/ group[n] # "cancelled" /\ \E e \in Exec : Spawned(e, n, worker[n].cur)
            \/ group[n] = "cancelled" /\ UNCHANGED exec
         /\ UNCHANGED <<mode, db, lease, role, disp, group, msg, workerOn, faults>>
<1>0. worker[n] \in WorkState
  BY DEF TypeOK
<1> DEFINE w == [worker[n] EXCEPT !.pc = "batch", !.cur = NoTask]
<1>1. /\ w.pc = "batch" /\ w.cur = NoTask
      /\ w.todo = worker[n].todo /\ w.done = worker[n].done
  BY <1>0 DEF WorkState
<1>2. worker' = [worker EXCEPT ![n] = w]
  BY DEF WorkerRun
<1>3. WorkGoes(n, "batch", worker[n].todo, worker[n].done, NoTask)
  <2> HIDE DEF w
  <2> QED BY <1>1, <1>2, WorkEffect
<1> QED BY <1>3, RunEffect DEF WorkerRun

\* The batch is acknowledged, or the call failed.
LEMMA AckEffect ==
  ASSUME TypeOK, NEW n \in Node, ackDispatchMessages(n)
  PROVE  /\ worker[n].pc = "batch" /\ worker[n].todo = {}
         /\ WorkGoes(n, "idle", {}, {}, NoTask)
         /\ \/ /\ \A m \in Msg : /\ msg'[m].task = msg[m].task
                                 /\ msg'[m].st = IF m \in worker[n].done THEN "acked"
                                                                       ELSE msg[m].st
               /\ faults' = faults
            \/ UNCHANGED msg /\ (Happens("queue") \/ (~workerOn[n] /\ faults' = faults))
         /\ UNCHANGED <<mode, db, lease, role, disp, group, workerOn, exec>>
<1>1. WorkGoes(n, "idle", {}, {}, NoTask)
  <2>1. NoWork.pc = "idle" /\ NoWork.todo = {} /\ NoWork.done = {} /\ NoWork.cur = NoTask
    BY DEF NoWork
  <2>2. worker' = [worker EXCEPT ![n] = NoWork]
    BY DEF ackDispatchMessages
  <2> QED BY <2>1, <2>2, WorkEffect
<1>2. CASE /\ msg' = [m \in Msg |-> IF m \in worker[n].done
                                    THEN [msg[m] EXCEPT !.st = "acked"] ELSE msg[m]]
           /\ NoFault
  <2>1. \A m \in Msg : /\ msg'[m].task = msg[m].task
                       /\ msg'[m].st = IF m \in worker[n].done THEN "acked" ELSE msg[m].st
    <3> SUFFICES ASSUME NEW m \in Msg
                 PROVE  /\ msg'[m].task = msg[m].task
                        /\ msg'[m].st = IF m \in worker[n].done THEN "acked"
                                                              ELSE msg[m].st
      OBVIOUS
    <3>1. msg[m] \in MsgState
      BY DEF TypeOK
    <3> QED BY <1>2, <3>1 DEF MsgState
  <2> QED BY <1>1, <1>2, <2>1 DEF ackDispatchMessages, NoFault
<1>3. CASE UNCHANGED msg /\ (Happens("queue") \/ (~workerOn[n] /\ NoFault))
  BY <1>1, <1>3 DEF ackDispatchMessages, NoFault
<1> QED BY <1>2, <1>3 DEF ackDispatchMessages

\* A controller's write of its row.
LEMMA WriteEffect ==
  ASSUME TypeOK, NEW e \in Exec, NEW s, ack(e, s)
  PROVE  \/ CtxLive(e) /\ RowGoes(exec[e].task, s) /\ faults' = faults
         \/ ~CtxLive(e) /\ db' = db /\ faults' = faults
         \/ db' = db /\ Happens("db")
BY PutEffect DEF ack, DbError, NoFault

\* A controller starts, writes its row, and ends.
LEMMA ControllerEffect ==
  ASSUME TypeOK, NEW e \in Exec, Controller(e)
  PROVE  /\ exec[e].pc # "idle"
         /\ \/ exec[e].pc = "spawned" /\ ExecGoes(e, "running") /\ ack(e, "running")
            \/ /\ exec[e].pc = "running"
               /\ \/ UNCHANGED exec /\ ack(e, "running")
                  \/ ExecGoes(e, "completed") /\ ack(e, "completed")
            \/ exec[e].pc = "completed" /\ ExecEnds(e) /\ ack(e, "completed")
            \/ /\ exec[e].pc = "running" /\ ExecEnds(e) /\ UNCHANGED <<db, faults>>
         /\ \/ UNCHANGED group
            \/ /\ exec[e].grouped /\ exec[e].pc = "running" /\ ExecEnds(e)
               /\ UNCHANGED <<db, faults>>
               /\ group' = [group EXCEPT ![exec[e].node] = "cancelled"]
         /\ UNCHANGED <<mode, lease, role, disp, msg, workerOn, worker>>
<1>0. exec[e] \in ExecState
  BY DEF TypeOK
<1>1. ASSUME NEW c, exec' = [exec EXCEPT ![e].pc = c] PROVE ExecGoes(e, c)
  <2>1. exec'[e] = [exec[e] EXCEPT !.pc = c] /\ \A f \in Exec \ {e} : exec'[f] = exec[f]
    BY <1>1 DEF TypeOK
  <2> QED BY <1>0, <2>1 DEF ExecState, ExecGoes
<1>2. ASSUME exec' = [exec EXCEPT ![e] = NoExec] PROVE ExecEnds(e)
  <2>1. exec'[e] = NoExec /\ \A f \in Exec \ {e} : exec'[f] = exec[f]
    BY <1>2 DEF TypeOK
  <2> QED BY <2>1 DEF NoExec, ExecEnds
<1>3. CASE RunStart(e)
  BY <1>1, <1>3 DEF RunStart
<1>4. CASE JobAck(e)
  BY <1>4 DEF JobAck
<1>5. CASE RunFail(e)
  BY <1>2, <1>5 DEF RunFail
<1>6. CASE RunComplete(e)
  BY <1>1, <1>6 DEF RunComplete
<1>7. CASE RunReturn(e)
  BY <1>2, <1>7 DEF RunReturn
<1> QED BY <1>3, <1>4, <1>5, <1>6, <1>7 DEF Controller

\* The end of a process takes its goroutines with it.
LEMMA CrashEffect ==
  ASSUME TypeOK, NEW n \in Node, Crash(n)
  PROVE  /\ DispGoes(n, "off", NoTask) /\ WorkGoes(n, "idle", {}, {}, NoTask)
         /\ role'[n] = "down" /\ group'[n] = "none" /\ ~workerOn'[n]
         /\ \A k \in Node \ {n} : /\ role'[k] = role[k] /\ group'[k] = group[k]
                                  /\ workerOn'[k] = workerOn[k]
         /\ \A e \in Exec : /\ exec[e].node = n => exec'[e].pc = "idle" /\ exec'[e].task = NoTask
                                                  /\ exec'[e].node = NoNode
                            /\ exec[e].node # n => exec'[e] = exec[e]
         /\ Happens("crash")
         /\ UNCHANGED <<mode, db, lease, msg>>
<1>1. DispGoes(n, "off", NoTask)
  <2>1. NoDisp.pc = "off" /\ NoDisp.task = NoTask
    BY DEF NoDisp
  <2>2. disp' = [disp EXCEPT ![n] = NoDisp]
    BY DEF Crash
  <2> QED BY <2>1, <2>2, DispEffect
<1>2. WorkGoes(n, "idle", {}, {}, NoTask)
  <2>1. NoWork.pc = "idle" /\ NoWork.todo = {} /\ NoWork.done = {} /\ NoWork.cur = NoTask
    BY DEF NoWork
  <2>2. worker' = [worker EXCEPT ![n] = NoWork]
    BY DEF Crash
  <2> QED BY <2>1, <2>2, WorkEffect
<1>3. \A e \in Exec : /\ exec[e].node = n => exec'[e].pc = "idle" /\ exec'[e].task = NoTask
                                            /\ exec'[e].node = NoNode
                      /\ exec[e].node # n => exec'[e] = exec[e]
  BY DEF Crash, NoExec
<1> QED BY <1>1, <1>2, <1>3 DEF Crash, TypeOK

\* An election makes a follower the leader and begins its loop.
LEMMA ElectionEffect ==
  ASSUME TypeOK, NEW n \in Node, onStartedLeading(n)
  PROVE  /\ lease = NoNode /\ role[n] = "follower" /\ Happens("term")
         /\ role'[n] = "leader" /\ \A k \in Node \ {n} : role'[k] = role[k]
         /\ DispGoes(n, "list", NoTask)
         /\ UNCHANGED <<mode, db, group, msg, workerOn, worker, exec>>
<1>1. DispGoes(n, "list", NoTask)
  <2> DEFINE d == [NoDisp EXCEPT !.pc = "list"]
  <2>1. d.pc = "list" /\ d.task = NoTask
    BY DEF NoDisp
  <2>2. disp' = [disp EXCEPT ![n] = d]
    BY DEF onStartedLeading
  <2> HIDE DEF d
  <2> QED BY <2>1, <2>2, DispEffect
<1> QED BY <1>1 DEF onStartedLeading, TypeOK

-----------------------------------------------------------------------------
(***************************************************************************)
(* Who is about a task, and the task groups.                               *)
(***************************************************************************)
\* A dispatcher, a worker, a message and a controller have a task exactly while
\* they have something to do with it.
EngagedDisp ==
  \A n \in Node : disp[n].task \in Task <=> disp[n].pc \in {"claimed", "acquire", "revert"}

\* A worker: its current task while it starts a controller, entries that were delivered.
EngagedWork ==
  \A n \in Node :
    /\ worker[n].cur \in Task <=> worker[n].pc = "acquire"
    /\ worker[n].pc = "idle" => worker[n].todo = {} /\ worker[n].done = {}
    /\ \A m \in worker[n].todo \cup worker[n].done : msg[m].st \in {"pending", "acked"}

\* An entry of the stream.
EngagedMsg == \A m \in Msg : msg[m].task \in Task <=> msg[m].st # "free"

\* A controller has a task and a process.
EngagedExec ==
  \A e \in Exec : /\ exec[e].task \in Task <=> exec[e].pc # "idle"
                  /\ exec[e].node \in Node <=> exec[e].pc # "idle"

\* A process that does not lead has no leader loop; the group comes with the poll.
GroupDisp ==
  \A n \in Node :
    /\ role[n] # "leader" => disp[n].pc = "off"
    /\ disp[n].pc \in {"off", "list", "init"} <=> group[n] = "none"

\* A controller in a task group is on a process that has had one.
GroupExec ==
  \A e \in Exec : exec[e].pc # "idle" /\ exec[e].grouped => group[exec[e].node] # "none"

\* All of them.
Engaged == /\ EngagedDisp /\ EngagedWork /\ EngagedMsg /\ EngagedExec
           /\ GroupDisp /\ GroupExec

\* A controller is started with a task, on a process that has a group if it is in one.
LEMMA SpawnEngaged ==
  ASSUME EngagedExec, GroupExec, NEW n \in Node, NEW t \in Task, UNCHANGED group,
         (\E e \in Exec : Spawned(e, n, t)) \/ UNCHANGED exec
  PROVE  EngagedExec' /\ GroupExec'
<1>1. CASE UNCHANGED exec
  BY <1>1 DEF EngagedExec, GroupExec
<1>2. ASSUME NEW e \in Exec, Spawned(e, n, t) PROVE EngagedExec' /\ GroupExec'
  <2>1. \A f \in Exec \ {e} : exec'[f] = exec[f]
    BY <1>2 DEF Spawned
  <2>2. exec'[e].pc = "spawned" /\ exec'[e].task = t /\ exec'[e].node = n
    BY <1>2 DEF Spawned
  <2>3. exec'[e].grouped => group[n] = "open"
    BY <1>2, Zenon DEF Spawned
  <2>4. EngagedExec'
    BY <2>1, <2>2 DEF EngagedExec
  <2>5. GroupExec'
    BY <2>1, <2>2, <2>3 DEF GroupExec
  <2> QED BY <2>4, <2>5
<1> QED BY <1>1, <1>2

\* Each step of a leader keeps them.
LEMMA LeaderEngaged ==
  ASSUME TypeOK, Engaged, NEW n \in Node, Leader(n)
  PROVE  Engaged'
<1> USE DEF Engaged
<1>0. ASSUME NEW k \in Node
      PROVE worker[k].todo \subseteq Msg /\ worker[k].done \subseteq Msg
  BY DEF TypeOK, WorkState
<1>1. CASE TaskRunning(n)
  BY <1>1, TaskRunningEffect
     DEF EngagedDisp, EngagedWork, EngagedMsg, EngagedExec, GroupDisp,
      GroupExec, DispGoes, SameDisp
<1>2. ASSUME NEW t \in Task, InitQueue(n, t) PROVE Engaged'
  BY <1>0, <1>2, InitQueueEffect
     DEF EngagedDisp, EngagedWork, EngagedMsg, EngagedExec, GroupDisp,
      GroupExec, DispGoes, SameDisp, SameMsg
<1>3. CASE Start(n)
  BY <1>3, StartEffect DEF EngagedDisp, EngagedWork, EngagedMsg, EngagedExec, GroupDisp,
      GroupExec, DispGoes, SameDisp
<1>4. CASE WaitingTasks(n) \/ EndOfBatch(n)
  BY <1>4, PollEffect DEF EngagedDisp, EngagedWork, EngagedMsg, EngagedExec, GroupDisp,
      GroupExec, DispGoes, SameDisp
<1>5. ASSUME NEW t \in Task, Claim(n, t) PROVE Engaged'
  BY <1>5, ClaimEffect DEF EngagedDisp, EngagedWork, EngagedMsg, EngagedExec, GroupDisp,
      GroupExec, DispGoes, SameDisp
<1>6. CASE Enqueue(n)
  <2>1. EngagedDisp' /\ GroupDisp'
    BY <1>6, EnqueueEffect DEF EngagedDisp, GroupDisp, DispGoes, SameDisp
  <2>2. disp[n].task \in Task
    BY <1>6, EnqueueEffect DEF EngagedDisp
  <2>3. EngagedMsg'
    BY <1>6, <2>2, EnqueueEffect DEF EngagedMsg, SameMsg
  <2>4. \A m \in Msg : msg[m].st # "free" => SameMsg(m)
    BY <1>6, EnqueueEffect DEF SameMsg
  <2>5. UNCHANGED <<worker, exec, group>>
    BY <1>6, EnqueueEffect
  <2>6. EngagedWork'
    BY <1>0, <2>4, <2>5 DEF EngagedWork, SameMsg
  <2> QED BY <2>1, <2>3, <2>5, <2>6 DEF EngagedExec, GroupExec
<1>7. CASE Revert(n)
  <2>1. EngagedDisp' /\ GroupDisp'
    BY <1>7, RevertEffect DEF EngagedDisp, GroupDisp, DispGoes, SameDisp
  <2>2. UNCHANGED <<worker, exec, group>> /\ \A m \in Msg : SameMsg(m)
    BY <1>7, RevertEffect
  <2>3. EngagedWork' /\ EngagedMsg'
    BY <1>0, <2>2 DEF EngagedWork, EngagedMsg, SameMsg
  <2> QED BY <2>1, <2>2, <2>3 DEF EngagedExec, GroupExec
<1>8. CASE LocalQueued(n)
  BY <1>8, LocalQueuedEffect
     DEF EngagedDisp, EngagedWork, EngagedMsg, EngagedExec, GroupDisp,
      GroupExec, DispGoes, SameDisp
<1>9. CASE LocalRun(n)
  <2>1. EngagedDisp' /\ GroupDisp'
    BY <1>9, LocalRunEffect DEF EngagedDisp, GroupDisp, DispGoes, SameDisp
  <2>2. UNCHANGED <<worker, msg, group>>
    BY <1>9, LocalRunEffect
  <2>3. EngagedWork' /\ EngagedMsg'
    BY <2>2 DEF EngagedWork, EngagedMsg
  <2>4. disp[n].task \in Task
    BY <1>9, LocalRunEffect DEF EngagedDisp
  <2>5. EngagedExec' /\ GroupExec'
    BY <1>9, <2>2, <2>4, LocalRunEffect, SpawnEngaged
  <2> QED BY <2>1, <2>3, <2>5
<1> QED BY <1>1, <1>2, <1>3, <1>4, <1>5, <1>6, <1>7, <1>8, <1>9 DEF Leader

\* So does each step of a worker.
LEMMA WorkerEngaged ==
  ASSUME TypeOK, Engaged, NEW n \in Node, Worker(n)
  PROVE  Engaged'
<1> USE DEF Engaged
<1>0. ASSUME NEW k \in Node
      PROVE worker[k].todo \subseteq Msg /\ worker[k].done \subseteq Msg
  BY DEF TypeOK, WorkState
<1>1. CASE ReadGroup(n) \/ AutoClaim(n)
  <2>1. PICK batch \in SUBSET Msg :
          /\ WorkGoes(n, "batch", batch, {}, NoTask)
          /\ \A m \in Msg : /\ msg'[m].task = msg[m].task
                            /\ m \in batch => msg[m].st # "free" /\ msg'[m].st = "pending"
                            /\ m \notin batch => msg'[m].st = msg[m].st
    BY <1>1, ReceiveEffect DEF SameMsg
  <2>2. EngagedMsg'
    BY <2>1 DEF EngagedMsg
  <2>3. \A m \in Msg : msg[m].st \in {"pending", "acked"} => msg'[m].st \in {"pending", "acked"}
    BY <2>1
  <2>4. EngagedWork'
    BY <1>0, <2>1, <2>3 DEF EngagedWork, WorkGoes
  <2>5. UNCHANGED <<role, disp, group, exec>>
    BY <1>1, ReceiveEffect
  <2> QED BY <2>2, <2>4, <2>5 DEF EngagedDisp, EngagedExec, GroupDisp, GroupExec
<1>2. ASSUME NEW m \in Msg, processDispatchMessage(n, m) PROVE Engaged'
  BY <1>0, <1>2, ProcessEffect
     DEF EngagedDisp, EngagedWork, EngagedMsg, EngagedExec, GroupDisp,
      GroupExec, WorkGoes
<1>3. CASE WorkerRun(n)
  <2>1. UNCHANGED <<role, disp, msg, group>>
    BY <1>3, WorkerRunEffect
  <2>2. WorkGoes(n, "batch", worker[n].todo, worker[n].done, NoTask)
    BY <1>3, WorkerRunEffect
  <2>3. EngagedWork'
    BY <2>1, <2>2 DEF EngagedWork, WorkGoes
  <2>4. worker[n].cur \in Task
    BY <1>3, WorkerRunEffect DEF EngagedWork
  <2>5. EngagedExec' /\ GroupExec'
    BY <1>3, <2>1, <2>4, WorkerRunEffect, SpawnEngaged
  <2> QED BY <2>1, <2>3, <2>5 DEF EngagedDisp, EngagedMsg, GroupDisp
<1>4. CASE ackDispatchMessages(n)
  <2>1. UNCHANGED <<role, disp, group, exec>> /\ WorkGoes(n, "idle", {}, {}, NoTask)
    BY <1>4, AckEffect
  <2>2. \A m \in Msg : /\ msg'[m].task = msg[m].task
                       /\ \/ msg'[m].st = msg[m].st
                          \/ m \in worker[n].done /\ msg'[m].st = "acked"
    BY <1>4, AckEffect
  <2>3. EngagedMsg'
    BY <2>2 DEF EngagedMsg, EngagedWork
  <2>4. EngagedWork'
    BY <1>0, <2>1, <2>2 DEF EngagedWork, WorkGoes
  <2> QED BY <2>1, <2>3, <2>4 DEF EngagedDisp, EngagedExec, GroupDisp, GroupExec
<1> QED BY <1>1, <1>2, <1>3, <1>4 DEF Worker

\* So does everybody else.
LEMMA OtherEngaged ==
  ASSUME TypeOK, Engaged, Api \/ Environment \/ Roles \/ \E e \in Exec : Controller(e)
  PROVE  Engaged'
<1> USE DEF Engaged
<1>1. ASSUME NEW e \in Exec, Controller(e) PROVE Engaged'
  <2>1. UNCHANGED <<role, disp, msg, worker>>
    BY <1>1, ControllerEffect
  <2>2. EngagedDisp' /\ EngagedWork' /\ EngagedMsg'
    BY <2>1 DEF EngagedDisp, EngagedWork, EngagedMsg
  <2>3. /\ exec[e].pc # "idle"
        /\ UNCHANGED exec \/ ExecEnds(e) \/ \E c \in {"running", "completed"} : ExecGoes(e, c)
    BY <1>1, ControllerEffect
  <2>4. EngagedExec'
    BY <2>3 DEF EngagedExec, ExecGoes, ExecEnds
  <2>5. exec[e].node \in Node
    BY <2>3 DEF EngagedExec
  <2>6. \A n \in Node : group'[n] = "none" <=> group[n] = "none"
    <3>1. CASE UNCHANGED group
      BY <3>1
    <3>2. CASE exec[e].grouped /\ group' = [group EXCEPT ![exec[e].node] = "cancelled"]
      BY <2>3, <2>5, <3>2 DEF GroupExec, TypeOK
    <3> QED BY <1>1, <3>1, <3>2, ControllerEffect
  <2>7. GroupDisp'
    BY <2>1, <2>6 DEF GroupDisp
  <2>8. GroupExec'
    BY <2>3, <2>4, <2>6 DEF EngagedExec, GroupExec, ExecGoes, ExecEnds
  <2> QED BY <2>2, <2>4, <2>7, <2>8
<1>2. ASSUME NEW n \in Node, Crash(n) PROVE Engaged'
  <2>1. UNCHANGED msg /\ EngagedMsg'
    BY <1>2, CrashEffect DEF EngagedMsg
  <2>2. EngagedDisp' /\ GroupDisp'
    BY <1>2, CrashEffect DEF EngagedDisp, GroupDisp, DispGoes, SameDisp
  <2>3. EngagedWork'
    BY <1>2, <2>1, CrashEffect DEF EngagedWork, WorkGoes
  <2>4. EngagedExec'
    BY <1>2, CrashEffect DEF EngagedExec
  <2>5. GroupExec'
    BY <1>2, CrashEffect DEF EngagedExec, GroupExec
  <2> QED BY <2>1, <2>2, <2>3, <2>4, <2>5
<1>3. ASSUME NEW n \in Node, onStartedLeading(n) PROVE Engaged'
  <2>1. EngagedDisp' /\ GroupDisp'
    BY <1>3, ElectionEffect DEF EngagedDisp, GroupDisp, DispGoes, SameDisp
  <2>2. UNCHANGED <<msg, worker, exec, group>>
    BY <1>3, ElectionEffect
  <2> QED BY <2>1, <2>2 DEF EngagedWork, EngagedMsg, EngagedExec, GroupExec
<1>4. ASSUME NEW n \in Node, Restart(n) \/ startWorkers(n) \/ stopWorkers(n)
      PROVE  Engaged'
  BY <1>4 DEF EngagedDisp, EngagedWork, EngagedMsg, EngagedExec, GroupDisp,
      GroupExec, Restart, startWorkers, stopWorkers, TypeOK
<1>5. CASE Api \/ LeaseExpires
  BY <1>5 DEF EngagedDisp, EngagedWork, EngagedMsg, EngagedExec, GroupDisp,
      GroupExec, Api, enqueueWorkflowTask, cancelWorkflowTask, LeaseExpires
<1> QED BY <1>1, <1>2, <1>3, <1>4, <1>5 DEF Environment, Roles

\* So the engine keeps them.
LEMMA EngagedAlways == Spec => []Engaged
<1>1. Init => Engaged
  <2> SUFFICES ASSUME Init PROVE Engaged
    OBVIOUS
  <2>1. EngagedDisp /\ GroupDisp
    BY DEF Init, EngagedDisp, GroupDisp, NoDisp
  <2>2. EngagedWork
    BY DEF Init, EngagedWork, NoWork
  <2>3. EngagedMsg
    BY DEF Init, EngagedMsg, NoMsg
  <2>4. EngagedExec /\ GroupExec
    BY DEF Init, EngagedExec, GroupExec, NoExec
  <2> QED BY <2>1, <2>2, <2>3, <2>4 DEF Engaged
<1>2. TypeOK /\ Engaged /\ [Next]_vars => Engaged'
  <2>1. TypeOK /\ Engaged /\ Next => Engaged'
    BY LeaderEngaged, WorkerEngaged, OtherEngaged DEF Next
  <2>2. Engaged /\ UNCHANGED vars => Engaged'
    BY DEF vars, Engaged, EngagedDisp, EngagedWork, EngagedMsg, EngagedExec, GroupDisp,
           GroupExec
  <2> QED BY <2>1, <2>2
<1> QED BY <1>1, <1>2, TypeCorrect, PTL DEF Spec

-----------------------------------------------------------------------------
(***************************************************************************)
(* The first term: there is one leader loop, the worker contexts are not   *)
(* cancelled, and nothing is dispatched before the poll has begun.         *)
(***************************************************************************)
\* Nothing is dispatched.
Empty ==
  /\ \A m \in Msg : msg[m].st = "free"
  /\ \A e \in Exec : exec[e].pc = "idle"
  /\ \A n \in Node : worker[n].pc # "acquire"

\* At most one process is in its leader loop.
OneLoop == \A n, k \in Node : disp[n].pc # "off" /\ disp[k].pc # "off" => n = k

\* Before the first term there is no lease, no loop and no distributed worker.
NoTerm ==
  faults["term"] = 0 =>
    /\ lease = NoNode
    /\ \A n \in Node : disp[n].pc = "off" /\ (mode = "distributed" => ~workerOn[n])

\* The work outside the task groups belongs to a worker that is on, never the leader.
WorkersOn ==
  /\ \A n \in Node : /\ mode = "distributed" /\ workerOn[n] => role[n] # "leader"
                     /\ worker[n].pc # "idle" => workerOn[n]
  /\ \A e \in Exec : exec[e].pc # "idle" /\ ~exec[e].grouped => workerOn[exec[e].node]

\* Nothing is dispatched before the loop polls.
EmptyBefore ==
  faults["term"] = 0 \/ (\E n \in Node : disp[n].pc \in {"list", "init"}) => Empty

\* All of them hold through the first term.
FirstTerm == faults["term"] <= 1 => OneLoop /\ NoTerm /\ WorkersOn /\ EmptyBefore

\* Of two counts of faults the later is not smaller; only an election counts as one.
LEMMA FaultsGrow ==
  ASSUME TypeOK, faults' = faults \/ \E f \in Fault : Happens(f)
  PROVE  /\ \A f \in Fault : faults[f] \in Nat /\ faults'[f] \in Nat /\ faults[f] <= faults'[f]
         /\ ~Happens("term") => faults'["term"] = faults["term"]
<1>1. \A f \in Fault : faults[f] \in Nat
  BY DEF TypeOK
<1>2. "term" \in Fault
  BY DEF Fault
<1>3. CASE faults' = faults
  BY <1>1, <1>2, <1>3
<1>4. ASSUME NEW f \in Fault, Happens(f)
      PROVE  /\ \A g \in Fault : /\ faults[g] \in Nat /\ faults'[g] \in Nat
                                 /\ faults[g] <= faults'[g]
             /\ ~Happens("term") => faults'["term"] = faults["term"]
  <2>1. faults'[f] = faults[f] + 1 /\ \A g \in Fault \ {f} : faults'[g] = faults[g]
    BY <1>4, FaultEffect
  <2>2. \A g \in Fault : faults'[g] \in Nat /\ faults[g] <= faults'[g]
    BY <1>1, <2>1
  <2>3. ~Happens("term") => f # "term"
    BY <1>4
  <2> QED BY <1>1, <1>2, <2>1, <2>2, <2>3
<1> QED BY <1>3, <1>4

\* Each step of the leader keeps the first term's order.
LEMMA LeaderFirstTerm ==
  ASSUME TypeOK, Engaged, FirstTerm, NEW n \in Node, Leader(n), faults'["term"] <= 1
  PROVE  FirstTerm'
<1>f. /\ faults' = faults \/ Happens("db") \/ Happens("queue")
      /\ disp[n].pc # "off"
      /\ UNCHANGED <<mode, lease, role, workerOn, worker>>
  BY DEF Leader, TaskRunning, InitQueue, Start, WaitingTasks, EndOfBatch, Claim, Enqueue,
         Revert, LocalQueued, LocalRun, DbError, NoFault
<1>0. /\ faults'["term"] = faults["term"]
      /\ OneLoop /\ NoTerm /\ WorkersOn /\ EmptyBefore
      /\ faults["term"] # 0
  <2>1. faults'["term"] = faults["term"]
    BY <1>f, FaultEffect DEF Fault, TypeOK
  <2> QED BY <1>f, <2>1 DEF FirstTerm, NoTerm
<1>1. /\ \E c, t : DispGoes(n, c, t) /\ c # "off"
      /\ (\E t : \E c \in {"list", "init"} : DispGoes(n, c, t)) =>
            disp[n].pc \in {"list", "init"}
  <2>1. ASSUME NEW t \in Task, InitQueue(n, t) \/ Claim(n, t)
        PROVE  \E c, u : DispGoes(n, c, u) /\ c # "off"
                         /\ (c \in {"list", "init"} => disp[n].pc \in {"list", "init"})
    BY <2>1, InitQueueEffect, ClaimEffect
  <2>2. CASE TaskRunning(n) \/ Start(n)
    BY <2>2, TaskRunningEffect, StartEffect DEF DispGoes
  <2>3. CASE WaitingTasks(n) \/ EndOfBatch(n)
    BY <2>3, PollEffect DEF DispGoes
  <2>4. CASE Enqueue(n) \/ Revert(n)
    BY <2>4, EnqueueEffect, RevertEffect DEF DispGoes
  <2>5. CASE LocalQueued(n) \/ LocalRun(n)
    BY <2>5, LocalQueuedEffect, LocalRunEffect DEF DispGoes
  <2> QED BY <2>1, <2>2, <2>3, <2>4, <2>5 DEF Leader, DispGoes
<1>2. OneLoop'
  BY <1>f, <1>0, <1>1 DEF OneLoop, DispGoes, SameDisp
<1>3. NoTerm'
  BY <1>0 DEF NoTerm
<1>4. EmptyBefore'
  <2> SUFFICES ASSUME NEW k \in Node, disp'[k].pc \in {"list", "init"} PROVE Empty'
    BY <1>0 DEF EmptyBefore
  <2>1. disp[k].pc \in {"list", "init"}
    BY <1>1 DEF DispGoes, SameDisp
  <2>2. k = n /\ Empty
    BY <1>f, <1>0, <2>1 DEF OneLoop, EmptyBefore
  <2>3. UNCHANGED exec /\ \A m \in Msg : SameMsg(m)
    <3>1. CASE TaskRunning(n) \/ Start(n)
      BY <3>1 DEF TaskRunning, Start, SameMsg
    <3>2. ASSUME NEW t \in Task, InitQueue(n, t)
          PROVE UNCHANGED exec /\ \A m \in Msg : SameMsg(m)
      BY <3>2, InitQueueEffect
    <3> QED BY <2>1, <2>2, <3>1, <3>2 DEF Leader, WaitingTasks, EndOfBatch, Claim, Enqueue,
              Revert, LocalQueued, LocalRun
  <2> QED BY <1>f, <2>2, <2>3 DEF Empty, SameMsg
<1>5. WorkersOn'
  <2>1. CASE UNCHANGED exec
    BY <1>f, <1>0, <2>1 DEF WorkersOn
  <2>2. CASE LocalRun(n)
    <3>1. (group[n] = "cancelled" /\ UNCHANGED exec) \/ group[n] = "open"
      <4>1. group[n] # "none"
        BY <2>2, LocalRunEffect DEF Engaged, GroupDisp
      <4> QED BY <2>2, <4>1, LocalRunEffect DEF TypeOK
    <3>2. ASSUME group[n] = "open", NEW e \in Exec, Spawned(e, n, disp[n].task)
          PROVE WorkersOn'
      <4>1. exec'[e].grouped
        BY <3>2, Zenon DEF Spawned
      <4>2. \A f \in Exec \ {e} : exec'[f] = exec[f]
        BY <3>2 DEF Spawned
      <4> QED BY <1>f, <1>0, <4>1, <4>2 DEF WorkersOn
    <3> QED BY <2>1, <2>2, <3>1, <3>2, LocalRunEffect
  <2> QED BY <2>1, <2>2 DEF Leader, TaskRunning, InitQueue, Start, WaitingTasks, EndOfBatch,
            Claim, Enqueue, Revert, LocalQueued
<1> QED BY <1>2, <1>3, <1>4, <1>5 DEF FirstTerm

\* So does each step of a worker.
LEMMA WorkerFirstTerm ==
  ASSUME TypeOK, Engaged, FirstTerm, NEW n \in Node, Worker(n), faults'["term"] <= 1
  PROVE  FirstTerm'
<1>f. /\ faults' = faults \/ Happens("db") \/ Happens("queue") \/ Happens("slow")
      /\ UNCHANGED <<mode, lease, role, disp, group, workerOn>>
  BY DEF Worker, ReadGroup, AutoClaim, Receive, WorkerRun, ackDispatchMessages,
         processDispatchMessage, DbError, NoFault
<1>0. /\ faults'["term"] = faults["term"]
      /\ OneLoop /\ NoTerm /\ WorkersOn /\ EmptyBefore
  <2>1. faults'["term"] = faults["term"]
    BY <1>f, FaultEffect DEF Fault, TypeOK
  <2> QED BY <2>1 DEF FirstTerm
<1>1. OneLoop' /\ NoTerm'
  BY <1>f, <1>0 DEF OneLoop, NoTerm
<1>2. ASSUME WorkersOn', Empty => Empty' PROVE FirstTerm'
  BY <1>f, <1>0, <1>1, <1>2 DEF FirstTerm, EmptyBefore
<1>3. CASE ReadGroup(n) \/ AutoClaim(n)
  <2>1. WorkersOn'
    BY <1>f, <1>0, <1>3, ReceiveEffect DEF WorkersOn, WorkGoes
  <2>2. Empty => Empty'
    <3>1. PICK batch \in SUBSET Msg :
            /\ WorkGoes(n, "batch", batch, {}, NoTask)
            /\ \A m \in Msg : m \in batch => msg[m].st # "free"
            /\ \A m \in Msg \ batch : msg'[m].st = msg[m].st
      BY <1>3, ReceiveEffect DEF SameMsg
    <3>2. UNCHANGED exec
      BY <1>3, ReceiveEffect
    <3> QED BY <3>1, <3>2 DEF Empty, WorkGoes
  <2> QED BY <1>2, <2>1, <2>2
<1>4. ASSUME NEW m \in Msg, processDispatchMessage(n, m) PROVE FirstTerm'
  <2>1. WorkersOn'
    BY <1>f, <1>0, <1>4, ProcessEffect DEF WorkersOn, WorkGoes
  <2>2. ~Empty
    BY <1>4, ProcessEffect DEF Empty, Engaged, EngagedWork
  <2> QED BY <1>2, <2>1, <2>2
<1>5. CASE WorkerRun(n)
  <2>1. workerOn[n] /\ ~Empty
    BY <1>0, <1>5, WorkerRunEffect DEF WorkersOn, Empty
  <2>2. WorkGoes(n, "batch", worker[n].todo, worker[n].done, NoTask)
    BY <1>5, WorkerRunEffect
  <2>3. \A k \in Node : worker'[k].pc # "idle" => workerOn[k]
    BY <1>0, <2>1, <2>2 DEF WorkersOn, WorkGoes
  <2>4. \A e \in Exec : exec'[e] = exec[e] \/ exec'[e].node = n
    BY <1>5, WorkerRunEffect DEF Spawned
  <2>5. \A e \in Exec : exec'[e].pc # "idle" /\ ~exec'[e].grouped => workerOn[exec'[e].node]
    BY <1>0, <2>1, <2>4 DEF WorkersOn
  <2>6. WorkersOn'
    BY <1>f, <1>0, <2>3, <2>5 DEF WorkersOn
  <2> QED BY <1>2, <2>1, <2>6
<1>6. CASE ackDispatchMessages(n)
  <2>1. WorkersOn'
    BY <1>f, <1>0, <1>6, AckEffect DEF WorkersOn, WorkGoes
  <2>2. \A m \in Msg : msg'[m].st = msg[m].st \/ m \in worker[n].done
    BY <1>6, AckEffect
  <2>3. UNCHANGED exec /\ WorkGoes(n, "idle", {}, {}, NoTask)
    BY <1>6, AckEffect
  <2>4. Empty => Empty'
    BY <2>2, <2>3 DEF Empty, WorkGoes, Engaged, EngagedWork
  <2> QED BY <1>2, <2>1, <2>4
<1> QED BY <1>3, <1>4, <1>5, <1>6 DEF Worker

\* So do the API, the environment, the elections and the controllers.
LEMMA OtherFirstTerm ==
  ASSUME TypeOK, Engaged, FirstTerm, faults'["term"] <= 1,
         Api \/ Environment \/ Roles \/ \E e \in Exec : Controller(e)
  PROVE  FirstTerm'
<1>1. ASSUME NEW e \in Exec, Controller(e) PROVE FirstTerm'
  <2>1. /\ exec[e].pc # "idle"
        /\ UNCHANGED <<mode, lease, role, disp, msg, workerOn, worker>>
        /\ UNCHANGED exec \/ ExecEnds(e) \/ \E c \in {"running", "completed"} : ExecGoes(e, c)
    BY <1>1, ControllerEffect
  <2>2. faults' = faults \/ Happens("db")
    BY <1>1, ControllerEffect, WriteEffect
  <2>3. faults'["term"] = faults["term"]
    BY <2>2, FaultEffect DEF Fault, TypeOK
  <2>4. OneLoop /\ NoTerm /\ WorkersOn /\ EmptyBefore /\ ~Empty
    BY <2>1, <2>3 DEF FirstTerm, Empty
  <2>5. OneLoop' /\ NoTerm' /\ EmptyBefore'
    BY <2>1, <2>3, <2>4 DEF OneLoop, NoTerm, EmptyBefore
  <2>6. WorkersOn'
    BY <2>1, <2>4 DEF WorkersOn, ExecGoes, ExecEnds
  <2> QED BY <2>5, <2>6 DEF FirstTerm
<1>2. ASSUME NEW n \in Node, Crash(n) PROVE FirstTerm'
  <2>1. faults'["term"] = faults["term"]
    BY <1>2, CrashEffect, FaultEffect DEF Fault, TypeOK
  <2>2. OneLoop /\ NoTerm /\ WorkersOn /\ EmptyBefore
    BY <2>1 DEF FirstTerm
  <2>3. OneLoop'
    BY <1>2, <2>2, CrashEffect DEF OneLoop, DispGoes, SameDisp
  <2>4. NoTerm'
    BY <1>2, <2>1, <2>2, CrashEffect DEF NoTerm, DispGoes, SameDisp
  <2>5. \A k \in Node : /\ mode' = "distributed" /\ workerOn'[k] => role'[k] # "leader"
                        /\ worker'[k].pc # "idle" => workerOn'[k]
    BY <1>2, <2>2, CrashEffect DEF WorkersOn, WorkGoes
  <2>6. \A e \in Exec : exec'[e].pc # "idle" => exec'[e] = exec[e] /\ exec[e].node # n
    BY <1>2, CrashEffect
  <2>7. \A e \in Exec : exec[e].pc # "idle" => exec[e].node \in Node
    BY DEF Engaged, EngagedExec
  <2>8. \A e \in Exec : exec'[e].pc # "idle" /\ ~exec'[e].grouped => workerOn'[exec'[e].node]
    BY <1>2, <2>2, <2>6, <2>7, CrashEffect DEF WorkersOn
  <2>9. WorkersOn'
    BY <2>5, <2>8 DEF WorkersOn
  <2>10. Empty => Empty'
    BY <1>2, <2>6, CrashEffect DEF Empty, WorkGoes
  <2>11. EmptyBefore'
    BY <1>2, <2>1, <2>2, <2>10, CrashEffect DEF EmptyBefore, DispGoes, SameDisp
  <2> QED BY <2>3, <2>4, <2>9, <2>11 DEF FirstTerm
<1>3. ASSUME NEW n \in Node, onStartedLeading(n) PROVE FirstTerm'
  <2>1. faults'["term"] = faults["term"] + 1 /\ faults["term"] \in Nat
    BY <1>3, ElectionEffect, FaultEffect DEF Fault, TypeOK
  <2>2. faults["term"] = 0 /\ faults'["term"] = 1
    BY <2>1
  <2>3. NoTerm /\ WorkersOn /\ Empty
    BY <2>2 DEF FirstTerm, EmptyBefore
  <2>4. OneLoop' /\ NoTerm'
    BY <1>3, <2>2, <2>3, ElectionEffect DEF NoTerm, OneLoop, DispGoes, SameDisp
  <2>5. WorkersOn'
    BY <1>3, <2>2, <2>3, ElectionEffect DEF NoTerm, WorkersOn
  <2>6. Empty'
    BY <1>3, <2>3, ElectionEffect DEF Empty
  <2> QED BY <2>4, <2>5, <2>6 DEF FirstTerm, EmptyBefore
<1>4. ASSUME NEW n \in Node, Restart(n) \/ startWorkers(n) \/ stopWorkers(n)
      PROVE  FirstTerm'
  <2>1. UNCHANGED <<mode, lease, disp, msg, worker, exec, faults>>
    BY <1>4 DEF Restart, startWorkers, stopWorkers
  <2>2. OneLoop /\ NoTerm /\ WorkersOn /\ EmptyBefore
    BY <2>1 DEF FirstTerm
  <2>3. ~stopWorkers(n)
    BY <2>2 DEF stopWorkers, WorkersOn
  <2>4. NoTerm'
    BY <1>4, <2>1, <2>2, <2>3 DEF NoTerm, Restart, startWorkers, TypeOK
  <2>5. WorkersOn'
    <3>1. \A k \in Node : role'[k] = "leader" => role[k] = "leader"
      BY <1>4, <2>3 DEF Restart, startWorkers, TypeOK
    <3>2. \A k \in Node : workerOn[k] => workerOn'[k]
      BY <1>4, <2>3 DEF Restart, startWorkers, TypeOK
    <3>3. \A k \in Node : mode = "distributed" /\ workerOn'[k] => role'[k] # "leader"
      BY <1>4, <2>2, <2>3, <3>1 DEF WorkersOn, Restart, startWorkers, TypeOK
    <3>4. \A e \in Exec : exec[e].pc # "idle" => exec[e].node \in Node
      BY DEF Engaged, EngagedExec
    <3> QED BY <2>1, <2>2, <3>2, <3>3, <3>4 DEF WorkersOn
  <2> QED BY <2>1, <2>2, <2>4, <2>5 DEF FirstTerm, OneLoop, EmptyBefore, Empty
<1>5. CASE Api \/ LeaseExpires
  <2>1. /\ UNCHANGED <<mode, role, disp, msg, workerOn, worker, exec, faults>>
        /\ lease' \in {lease, NoNode}
    BY <1>5 DEF Api, enqueueWorkflowTask, cancelWorkflowTask, LeaseExpires
  <2> QED BY <2>1 DEF FirstTerm, OneLoop, NoTerm, WorkersOn, EmptyBefore, Empty
<1> QED BY <1>1, <1>2, <1>3, <1>4, <1>5 DEF Environment, Roles

\* So the engine keeps it, as long as there was one election.
LEMMA FirstTermAlways == Spec => []FirstTerm
<1>1. Init => FirstTerm
  <2> SUFFICES ASSUME Init PROVE FirstTerm
    OBVIOUS
  <2>1. \A n \in Node : disp[n].pc = "off" /\ worker[n].pc = "idle" /\ ~workerOn[n]
    BY DEF Init, NoDisp, NoWork
  <2>2. Empty
    BY <2>1 DEF Init, Empty, NoMsg, NoExec
  <2> QED BY <2>1, <2>2 DEF Init, FirstTerm, OneLoop, NoTerm, WorkersOn, EmptyBefore, Empty
<1>2. TypeOK /\ Engaged /\ FirstTerm /\ [Next]_vars => FirstTerm'
  <2> SUFFICES ASSUME TypeOK, Engaged, FirstTerm, [Next]_vars, faults'["term"] <= 1
               PROVE  FirstTerm'
    BY DEF FirstTerm
  <2>1. CASE Next
    BY <2>1, LeaderFirstTerm, WorkerFirstTerm, OtherFirstTerm DEF Next
  <2>2. CASE UNCHANGED vars
    BY <2>2 DEF vars, FirstTerm, OneLoop, NoTerm, WorkersOn, EmptyBefore, Empty
  <2> QED BY <2>1, <2>2
<1> QED BY <1>1, <1>2, TypeCorrect, EngagedAlways, PTL DEF Spec

-----------------------------------------------------------------------------
(***************************************************************************)
(* QueuedIsCarried.                                                        *)
(***************************************************************************)
\* The premise of QueuedIsCarried.
Steady ==
  /\ faults["term"] <= 1 /\ faults["crash"] = 0 /\ faults["db"] = 0
  /\ \A n \in Node : group[n] # "cancelled"

\* Somebody has yet to write the row of t: QueuedIsCarried is not inductive, since
\* a controller that has written it, or a message whose controller was started,
\* also carries the task and may go at any time.
DueMsg(m, t) ==
  /\ msg[m].task = t /\ msg[m].st \in {"new", "pending"}
  /\ \A n \in Node : m \notin worker[n].done

\* A leader, a worker, an entry or a started controller has yet to write row t.
Due(t) ==
  \/ \E n \in Node : disp[n].task = t \/ worker[n].cur = t
  \/ \E m \in Msg : DueMsg(m, t)
  \/ \E e \in Exec : exec[e].task = t /\ exec[e].pc = "spawned"

\* The inductive form of QueuedIsCarried.
QueuedIsDue == Steady => \A t \in Task : db[t] = "queued" => Due(t)

\* A step counts at most one fault.
LEMMA NextFaults == Next => faults' = faults \/ \E f \in Fault : Happens(f)
<1> SUFFICES ASSUME Next PROVE faults' = faults \/ \E f \in Fault : Happens(f)
  OBVIOUS
<1>1. CASE Api \/ Environment \/ Roles
  BY <1>1 DEF Api, enqueueWorkflowTask, cancelWorkflowTask, Environment, LeaseExpires,
    Crash, Restart, Roles, onStartedLeading, startWorkers, stopWorkers, Fault
<1>2. ASSUME NEW n \in Node, Leader(n) PROVE faults' = faults \/ \E f \in Fault : Happens(f)
  BY <1>2 DEF Leader, TaskRunning, InitQueue, Start, WaitingTasks, EndOfBatch, Claim,
    Enqueue, Revert, LocalQueued, LocalRun, DbError, NoFault, Fault
<1>3. ASSUME NEW n \in Node, Worker(n) PROVE faults' = faults \/ \E f \in Fault : Happens(f)
  BY <1>3 DEF Worker, ReadGroup, AutoClaim, Receive, WorkerRun, ackDispatchMessages,
    processDispatchMessage, DbError, NoFault, Fault
<1>4. ASSUME NEW e \in Exec, Controller(e)
      PROVE  faults' = faults \/ \E f \in Fault : Happens(f)
  BY <1>4 DEF Controller, RunStart, JobAck, RunFail, RunComplete, RunReturn, ack, DbError,
    NoFault, Fault
<1> QED BY <1>1, <1>2, <1>3, <1>4 DEF Next

\* The premise, once broken, stays broken; under it no database call fails.
LEMMA SteadyBefore ==
  ASSUME TypeOK, Engaged, Next, Steady'
  PROVE  Steady /\ ~Happens("db") /\ ~Happens("crash")
<1>1. faults' = faults \/ \E f \in Fault : Happens(f)
  BY NextFaults
<1>2. \A f \in Fault : faults[f] \in Nat /\ faults'[f] \in Nat /\ faults[f] <= faults'[f]
  BY <1>1, FaultsGrow
<1>3. faults["term"] <= 1 /\ faults["crash"] = 0 /\ faults["db"] = 0
  BY <1>2 DEF Steady, Fault
<1>4. ~Happens("db") /\ ~Happens("crash")
  BY <1>3, FaultEffect DEF Steady, Fault
<1>5. ASSUME NEW k \in Node PROVE group[k] # "cancelled"
  <2>1. CASE group' = group
    BY <2>1 DEF Steady
  <2>2. ASSUME NEW n \in Node, Start(n) PROVE group[k] # "cancelled"
    <3>1. disp[n].pc = "init" /\ \A i \in Node \ {n} : group'[i] = group[i]
      BY <2>2, StartEffect
    <3>2. group[n] = "none"
      BY <3>1 DEF Engaged, GroupDisp
    <3> QED BY <3>1, <3>2 DEF Steady
  <2>3. ASSUME NEW e \in Exec, group' = [group EXCEPT ![exec[e].node] = "cancelled"]
        PROVE  group[k] # "cancelled"
    BY <2>3 DEF Steady, TypeOK
  <2>4. CASE Api \/ Environment \/ Roles
    BY <1>4, <2>1, <2>4
    DEF Api, enqueueWorkflowTask, cancelWorkflowTask, Environment, LeaseExpires, Crash,
        Restart, Roles, onStartedLeading, startWorkers, stopWorkers
  <2>5. ASSUME NEW n \in Node, Leader(n) PROVE group[k] # "cancelled"
    BY <2>1, <2>2, <2>5
    DEF Leader, TaskRunning, InitQueue, WaitingTasks, EndOfBatch, Claim, Enqueue, Revert,
        LocalQueued, LocalRun
  <2>6. ASSUME NEW n \in Node, Worker(n) PROVE group[k] # "cancelled"
    BY <2>1, <2>6
    DEF Worker, ReadGroup, AutoClaim, Receive, WorkerRun, ackDispatchMessages,
        processDispatchMessage
  <2>7. ASSUME NEW e \in Exec, Controller(e) PROVE group[k] # "cancelled"
    BY <2>1, <2>3, <2>7
    DEF Controller, RunStart, JobAck, RunFail, RunComplete, RunReturn
  <2> QED BY <2>4, <2>5, <2>6, <2>7 DEF Next
<1> QED BY <1>3, <1>4, <1>5 DEF Steady

\* Each step of the leader keeps what is queued due.
LEMMA LeaderDue ==
  ASSUME TypeOK, Engaged, Steady, ~Happens("db"), NEW n \in Node, Leader(n),
         NEW t \in Task, db[t] = "queued" => Due(t), db'[t] = "queued"
  PROVE  Due(t)'
<1>0. UNCHANGED worker
  BY DEF Leader, TaskRunning, InitQueue, Start, WaitingTasks, EndOfBatch, Claim, Enqueue,
         Revert, LocalQueued, LocalRun
<1>1. ASSUME UNCHANGED exec, \A m \in Msg : SameMsg(m), Due(t), disp[n].task # t,
             \A k \in Node \ {n} : SameDisp(k)
      PROVE  Due(t)'
  BY <1>0, <1>1 DEF Due, DueMsg, SameMsg, SameDisp
<1>2. ASSUME UNCHANGED exec, \A m \in Msg : SameMsg(m), Due(t), NEW c,
             DispGoes(n, c, disp[n].task)
      PROVE  Due(t)'
  BY <1>0, <1>2 DEF Due, DueMsg, SameMsg, SameDisp, DispGoes
<1>3. ASSUME UNCHANGED msg PROVE \A m \in Msg : SameMsg(m)
  BY <1>3 DEF SameMsg
<1>4. CASE TaskRunning(n) \/ Start(n) \/ WaitingTasks(n) \/ EndOfBatch(n)
  BY <1>2, <1>3, <1>4, TaskRunningEffect, StartEffect, PollEffect
<1>5. ASSUME NEW u \in Task, InitQueue(n, u) PROVE Due(t)'
  <2>1. db[t] = "queued"
    BY <1>5, InitQueueEffect DEF RowGoes
  <2> QED BY <1>2, <1>5, <2>1, InitQueueEffect
<1>6. ASSUME NEW u \in Task, Claim(n, u) PROVE Due(t)'
  <2>1. CASE DispGoes(n, "claimed", u) /\ u = t
    BY <2>1 DEF DispGoes, Due
  <2>2. CASE db[t] = "queued"
    <3>1. disp[n].task # t
      BY <1>6, ClaimEffect DEF Engaged, EngagedDisp
    <3>2. UNCHANGED exec /\ UNCHANGED msg /\ \A k \in Node \ {n} : SameDisp(k)
      BY <1>6, ClaimEffect DEF DispGoes
    <3> QED BY <1>1, <1>3, <2>2, <3>1, <3>2
  <2> QED BY <1>6, <2>1, <2>2, ClaimEffect DEF RowGoes
<1>7. CASE Enqueue(n)
  <2>1. UNCHANGED <<db, exec>> /\ Due(t)
    BY <1>7, EnqueueEffect
  <2>2. \A m \in Msg : msg[m].st # "free" => SameMsg(m)
    BY <1>7, EnqueueEffect DEF SameMsg
  <2>3. \A k \in Node \ {n} : SameDisp(k)
    BY <1>7, EnqueueEffect DEF DispGoes
  <2>4. CASE disp[n].task = t
    <3>1. CASE DispGoes(n, "revert", disp[n].task)
      BY <2>4, <3>1 DEF DispGoes, Due
    <3>2. ASSUME NEW m \in Msg, msg[m].st = "free", msg'[m].st = "new", msg'[m].task = t
          PROVE  Due(t)'
      <4>1. \A k \in Node : m \notin worker[k].done
        BY <3>2 DEF Engaged, EngagedWork
      <4> QED BY <1>0, <3>2, <4>1 DEF Due, DueMsg
    <3>3. faults' = faults => ~Happens("queue")
      <4>1. faults["queue"] \in Nat
        BY DEF TypeOK, Fault
      <4> QED BY <4>1, FaultEffect DEF Fault
    <3> QED BY <1>7, <2>4, <3>1, <3>2, <3>3, EnqueueEffect
  <2>5. CASE disp[n].task # t
    BY <1>0, <2>1, <2>2, <2>3, <2>5 DEF Due, DueMsg, SameMsg, SameDisp
  <2> QED BY <2>4, <2>5
<1>8. CASE Revert(n)
  <2>1. db[t] = "queued" /\ disp[n].task # t
    BY <1>8, RevertEffect DEF RowGoes
  <2>2. UNCHANGED exec /\ \A k \in Node \ {n} : SameDisp(k)
    BY <1>8, RevertEffect DEF DispGoes
  <2> QED BY <1>1, <1>8, <2>1, <2>2, RevertEffect
<1>9. CASE LocalQueued(n)
  <2>1. CASE disp[n].task = t
    BY <1>9, <2>1, LocalQueuedEffect DEF DispGoes, Due
  <2>2. CASE db[t] = "queued"
    BY <1>2, <1>3, <1>9, <2>2, LocalQueuedEffect
  <2> QED BY <1>9, <2>1, <2>2, LocalQueuedEffect DEF RowGoes
<1>10. CASE LocalRun(n)
  <2>1. PICK e \in Exec : Spawned(e, n, disp[n].task)
    BY <1>10, LocalRunEffect DEF Steady
  <2>2. UNCHANGED <<db, msg>> /\ Due(t) /\ \A k \in Node \ {n} : SameDisp(k)
    BY <1>10, LocalRunEffect DEF DispGoes
  <2>3. exec[e].pc = "idle" /\ exec'[e].pc = "spawned" /\ exec'[e].task = disp[n].task
    BY <2>1 DEF Spawned
  <2>4. \A f \in Exec \ {e} : exec'[f] = exec[f]
    BY <2>1 DEF Spawned
  <2> QED BY <1>0, <2>2, <2>3, <2>4 DEF Due, DueMsg, SameDisp
<1> QED BY <1>4, <1>5, <1>6, <1>7, <1>8, <1>9, <1>10 DEF Leader

\* So does each step of a worker.
LEMMA WorkerDue ==
  ASSUME TypeOK, Engaged, FirstTerm, Steady, ~Happens("db"), NEW n \in Node, Worker(n),
         NEW t \in Task, db[t] = "queued" => Due(t), db'[t] = "queued"
  PROVE  Due(t)'
<1>0. UNCHANGED disp
  BY DEF Worker, ReadGroup, AutoClaim, Receive, WorkerRun, ackDispatchMessages,
         processDispatchMessage
<1>1. CASE ReadGroup(n) \/ AutoClaim(n)
  <2>1. UNCHANGED <<db, exec>> /\ worker[n].pc = "idle" /\ Due(t)
    BY <1>1, ReceiveEffect
  <2>2. worker[n].cur # t
    BY <2>1 DEF Engaged, EngagedWork
  <2>3. PICK batch \in SUBSET Msg : WorkGoes(n, "batch", batch, {}, NoTask)
    BY <1>1, ReceiveEffect
  <2>4. \A m \in Msg : DueMsg(m, t) => DueMsg(m, t)'
    <3>1. \A m \in Msg : /\ msg'[m].task = msg[m].task
                         /\ msg'[m].st = msg[m].st \/ msg'[m].st = "pending"
      BY <1>1, ReceiveEffect DEF SameMsg
    <3> QED BY <2>3, <3>1 DEF DueMsg, WorkGoes
  <2> QED BY <1>0, <2>1, <2>2, <2>3, <2>4 DEF Due, WorkGoes
<1>2. ASSUME NEW m \in Msg, processDispatchMessage(n, m) PROVE Due(t)'
  <2>1. workerOn[n]
    BY <1>2, ProcessEffect DEF FirstTerm, Steady, WorkersOn
  <2>2. /\ RowGoes(msg[m].task, "queued") /\ worker[n].pc = "batch" /\ UNCHANGED <<msg, exec>>
        /\ WorkGoes(n, "acquire", worker[n].todo \ {m}, worker[n].done \cup {m}, msg[m].task)
    BY <1>2, <2>1, ProcessEffect
  <2>3. CASE msg[m].task = t
    BY <2>2, <2>3 DEF WorkGoes, Due
  <2>4. CASE msg[m].task # t
    <3>1. Due(t)
      BY <2>2, <2>4 DEF RowGoes
    <3>2. worker[n].cur # t
      BY <2>2 DEF Engaged, EngagedWork
    <3>3. \A k \in Msg : DueMsg(k, t) => DueMsg(k, t)'
      BY <2>2, <2>4 DEF DueMsg, WorkGoes
    <3> QED BY <1>0, <2>2, <3>1, <3>2, <3>3 DEF Due, WorkGoes
  <2> QED BY <2>3, <2>4
<1>3. CASE WorkerRun(n)
  <2>1. PICK e \in Exec : Spawned(e, n, worker[n].cur)
    BY <1>3, WorkerRunEffect DEF Steady
  <2>2. /\ UNCHANGED <<db, msg>> /\ Due(t)
        /\ WorkGoes(n, "batch", worker[n].todo, worker[n].done, NoTask)
    BY <1>3, WorkerRunEffect
  <2>3. exec[e].pc = "idle" /\ exec'[e].pc = "spawned" /\ exec'[e].task = worker[n].cur
    BY <2>1 DEF Spawned
  <2>4. \A f \in Exec \ {e} : exec'[f] = exec[f]
    BY <2>1 DEF Spawned
  <2>5. \A m \in Msg : DueMsg(m, t) => DueMsg(m, t)'
    BY <2>2 DEF DueMsg, WorkGoes
  <2> QED BY <1>0, <2>2, <2>3, <2>4, <2>5 DEF Due, WorkGoes
<1>4. CASE ackDispatchMessages(n)
  <2>1. /\ UNCHANGED <<db, exec>> /\ worker[n].pc = "batch" /\ Due(t)
        /\ WorkGoes(n, "idle", {}, {}, NoTask)
    BY <1>4, AckEffect
  <2>2. worker[n].cur # t
    BY <2>1 DEF Engaged, EngagedWork
  <2>3. \A m \in Msg : /\ msg'[m].task = msg[m].task
                       /\ msg'[m].st = msg[m].st \/ m \in worker[n].done
    BY <1>4, AckEffect
  <2>4. \A m \in Msg : DueMsg(m, t) => DueMsg(m, t)'
    BY <2>1, <2>3 DEF DueMsg, WorkGoes
  <2> QED BY <1>0, <2>1, <2>2, <2>4 DEF Due, WorkGoes
<1> QED BY <1>1, <1>2, <1>3, <1>4 DEF Worker

\* So do the others: a controller writes its row when it starts, since its context
\* is live.
LEMMA OtherDue ==
  ASSUME TypeOK, Engaged, FirstTerm, Steady, ~Happens("db"), ~Happens("crash"),
         Api \/ Environment \/ Roles \/ \E e \in Exec : Controller(e),
         NEW t \in Task, db[t] = "queued" => Due(t), db'[t] = "queued"
  PROVE  Due(t)'
<1>1. ASSUME NEW e \in Exec, Controller(e) PROVE Due(t)'
  <2>1. UNCHANGED <<disp, msg, worker>> /\ exec[e].pc # "idle"
    BY <1>1, ControllerEffect
  <2>2. CtxLive(e)
    <3>1. exec[e].node \in Node
      BY <2>1 DEF Engaged, EngagedExec
    <3>2. CASE exec[e].grouped
      <4>1. group[exec[e].node] \in {"none", "open", "cancelled"}
        BY <3>1 DEF TypeOK
      <4>2. group[exec[e].node] \notin {"none", "cancelled"}
        BY <2>1, <3>1, <3>2 DEF Engaged, GroupExec, Steady
      <4> QED BY <3>2, <4>1, <4>2 DEF CtxLive
    <3>3. CASE ~exec[e].grouped
      BY <2>1, <3>3 DEF FirstTerm, Steady, WorkersOn, CtxLive
    <3> QED BY <3>2, <3>3
  <2>3. \/ exec[e].pc = "spawned" /\ RowGoes(exec[e].task, "running")
        \/ /\ exec[e].pc # "spawned"
           /\ db' = db \/ \E s \in {"running", "completed"} : RowGoes(exec[e].task, s)
    BY <1>1, <2>2, ControllerEffect, WriteEffect
  <2>4. \A f \in Exec \ {e} : exec'[f] = exec[f]
    BY <1>1, ControllerEffect DEF ExecGoes, ExecEnds
  <2>5. db[t] = "queued" /\ (exec[e].pc = "spawned" => exec[e].task # t)
    BY <2>3 DEF RowGoes
  <2> QED BY <2>1, <2>4, <2>5 DEF Due, DueMsg
<1>2. ASSUME NEW n \in Node, onStartedLeading(n) PROVE Due(t)'
  <2>1. disp[n].task # t
    <3>1. disp[n].pc = "off"
      BY <1>2, ElectionEffect DEF Engaged, GroupDisp
    <3> QED BY <3>1 DEF Engaged, EngagedDisp
  <2> QED BY <1>2, <2>1, ElectionEffect DEF Due, DueMsg, DispGoes, SameDisp
<1>3. ASSUME NEW n \in Node, Restart(n) \/ startWorkers(n) \/ stopWorkers(n)
      PROVE  Due(t)'
  BY <1>3 DEF Restart, startWorkers, stopWorkers, Due, DueMsg
<1>4. CASE LeaseExpires
  BY <1>4 DEF LeaseExpires, Due, DueMsg
<1>5. ASSUME NEW u \in Task, enqueueWorkflowTask(u) \/ cancelWorkflowTask(u) PROVE Due(t)'
  <2>1. RowGoes(u, "waiting") \/ RowGoes(u, "cancelled")
    BY <1>5, PutEffect DEF enqueueWorkflowTask, cancelWorkflowTask
  <2>2. db[t] = "queued"
    BY <2>1 DEF RowGoes
  <2> QED BY <1>5, <2>2 DEF enqueueWorkflowTask, cancelWorkflowTask, Due, DueMsg
<1>6. ASSUME NEW n \in Node, Crash(n) PROVE FALSE
  BY <1>6 DEF Crash
<1> QED BY <1>1, <1>2, <1>3, <1>4, <1>5, <1>6 DEF Api, Environment, Roles

\* While the first leader leads and neither a process nor a database call failed, a
\* queued row is carried by a dispatcher, a message, a worker or a controller,
\* whatever the queue loses or repeats, unless a task group was cancelled.
THEOREM QueuedStaysCarried == Spec => []QueuedIsCarried
<1>1. Init => QueuedIsDue
  BY DEF Init, QueuedIsDue
<1>2. TypeOK /\ Engaged /\ FirstTerm /\ QueuedIsDue /\ [Next]_vars => QueuedIsDue'
  <2> SUFFICES ASSUME TypeOK, Engaged, FirstTerm, QueuedIsDue, [Next]_vars, Steady',
                      NEW t \in Task, db'[t] = "queued"
               PROVE  Due(t)'
    BY DEF QueuedIsDue
  <2>1. CASE Next
    <3>1. Steady /\ ~Happens("db") /\ ~Happens("crash")
      BY <2>1, SteadyBefore
    <3>2. db[t] = "queued" => Due(t)
      BY <3>1 DEF QueuedIsDue
    <3> QED BY <2>1, <3>1, <3>2, LeaderDue, WorkerDue, OtherDue DEF Next
  <2>2. CASE UNCHANGED vars
    BY <2>2 DEF vars, QueuedIsDue, Steady, Due, DueMsg
  <2> QED BY <2>1, <2>2
<1>3. QueuedIsDue => QueuedIsCarried
  <2>1. \A t : Due(t) => Carried(t)
    BY DEF Due, DueMsg, Carried
  <2> QED BY <2>1 DEF QueuedIsDue, QueuedIsCarried, Steady
<1> QED BY <1>1, <1>2, <1>3, TypeCorrect, EngagedAlways, FirstTermAlways, PTL DEF Spec

-----------------------------------------------------------------------------
(***************************************************************************)
(* OneControllerPerTask.                                                   *)
(***************************************************************************)
\* The premise of OneControllerPerTask.
Reliable == faults["term"] <= 1 /\ faults["queue"] = 0 /\ faults["slow"] = 0

\* The entries the worker of n has taken.
Batch(n) == worker[n].todo \cup worker[n].done

\* Messages are for workers, the local sender runs its tasks itself.
LocalMode ==
  /\ mode = "local" => \A m \in Msg : msg[m].st = "free"
  /\ \A n \in Node : disp[n].pc = "acquire" => mode = "local"

\* An entry is in the hands of one worker, which has processed it or not.
OneHolder ==
  \A n \in Node : \A m \in Batch(n) :
    /\ msg[m].st = "pending" /\ ~(m \in worker[n].todo /\ m \in worker[n].done)
    /\ \A k \in Node : m \in Batch(k) => k = n

\* Nobody has anything to do with t.
NoSource(t) ==
  /\ \A n \in Node : disp[n].task # t /\ worker[n].cur # t
  /\ \A m \in Msg : msg[m].task # t
  /\ \A e \in Exec : exec[e].task # t

\* A row that waits has not been dispatched; a dispatched one has its dispatcher or
\* one message, and no controller before its message.
OneSource ==
  \A t \in Task :
    /\ db[t] \in {"none", "waiting"} => NoSource(t)
    /\ \A m, k \in Msg : msg[m].task = t /\ msg[k].task = t => m = k
    /\ \A n \in Node : disp[n].task = t =>
         (\A m \in Msg : msg[m].task # t) /\ (\A e \in Exec : exec[e].task # t)

\* A worker that is about to start a controller has processed its message, and no
\* controller has the task yet.
AboutToRun ==
  \A n \in Node : worker[n].cur \in Task =>
    /\ \E m \in worker[n].done : msg[m].task = worker[n].cur
    /\ \A e \in Exec : exec[e].task # worker[n].cur

\* The message of a controller is acknowledged, or processed by its own process.
HasRun(e) ==
  \E m \in Msg : /\ msg[m].task = exec[e].task
                 /\ msg[m].st = "acked" \/ m \in worker[exec[e].node].done

\* A controller of a distributed task has had its message, and its task is its own.
OneRun ==
  \A e \in Exec : exec[e].pc # "idle" =>
    /\ mode = "local" \/ HasRun(e)
    /\ \A f \in Exec : exec[f].task = exec[e].task => f = e

\* The inductive form of OneControllerPerTask.
Tokens == Reliable => LocalMode /\ OneHolder /\ OneSource /\ AboutToRun /\ OneRun

\* The premise, once broken, stays broken; under it the queue reports no error and
\* no entry is taken from a live worker.
LEMMA ReliableBefore ==
  ASSUME TypeOK, Next, Reliable'
  PROVE  Reliable /\ ~Happens("queue") /\ ~Happens("slow")
<1>1. faults' = faults \/ \E f \in Fault : Happens(f)
  BY NextFaults
<1>2. \A f \in Fault : faults[f] \in Nat /\ faults'[f] \in Nat /\ faults[f] <= faults'[f]
  BY <1>1, FaultsGrow
<1>3. Reliable
  BY <1>2 DEF Reliable, Fault
<1>4. ~Happens("queue") /\ ~Happens("slow")
  BY <1>3, FaultEffect DEF Reliable, Fault
<1> QED BY <1>3, <1>4

\* A step that makes nobody new responsible for a task, and makes a row wait only if
\* nobody is.
LEMMA FewerSources ==
  ASSUME OneSource,
         \A t \in Task : db'[t] \in {"none", "waiting"}
                           => db[t] \in {"none", "waiting"} \/ NoSource(t)',
         \A t \in Task : /\ \A n \in Node : /\ disp'[n].task = t => disp[n].task = t
                                            /\ worker'[n].cur = t => worker[n].cur = t
                         /\ \A m \in Msg : msg'[m].task = t => msg[m].task = t
                         /\ \A e \in Exec : exec'[e].task = t => exec[e].task = t
  PROVE  OneSource'
<1>1. \A t \in Task : NoSource(t) => NoSource(t)'
  BY DEF NoSource
<1> QED BY <1>1 DEF OneSource

\* A step that starts no controller and keeps what is known of the messages.
LEMMA FewerRuns ==
  ASSUME Engaged, AboutToRun, OneRun, UNCHANGED mode,
         \A e \in Exec : exec'[e].pc # "idle" =>
           /\ exec[e].pc # "idle"
           /\ exec'[e].task = exec[e].task /\ exec'[e].node = exec[e].node
           /\ HasRun(e) => HasRun(e)',
         \A e \in Exec : exec'[e].task \in Task => exec'[e].task = exec[e].task,
         \A n \in Node : worker'[n].cur \in Task =>
           /\ worker'[n].cur = worker[n].cur
           /\ \A m \in worker[n].done : m \in worker'[n].done /\ msg'[m].task = msg[m].task
  PROVE  AboutToRun' /\ OneRun'
<1>1. AboutToRun'
  <2> SUFFICES ASSUME NEW n \in Node, worker'[n].cur \in Task
               PROVE  /\ \E m \in worker'[n].done : msg'[m].task = worker'[n].cur
                      /\ \A e \in Exec : exec'[e].task # worker'[n].cur
    BY DEF AboutToRun
  <2>1. /\ \E m \in worker[n].done : msg[m].task = worker[n].cur
        /\ \A e \in Exec : exec[e].task # worker[n].cur
    BY DEF AboutToRun
  <2> QED BY <2>1
<1>2. OneRun'
  <2> SUFFICES ASSUME NEW e \in Exec, exec'[e].pc # "idle"
               PROVE  /\ mode' = "local" \/ HasRun(e)'
                      /\ \A f \in Exec : exec'[f].task = exec'[e].task => f = e
    BY DEF OneRun
  <2>1. exec[e].pc # "idle" /\ exec[e].task \in Task
    BY DEF Engaged, EngagedExec
  <2>2. /\ mode = "local" \/ HasRun(e)
        /\ \A f \in Exec : exec[f].task = exec[e].task => f = e
    BY <2>1 DEF OneRun
  <2> QED BY <2>1, <2>2
<1> QED BY <1>1, <1>2

\* The leader hands a task from its row to a message, or to a controller.
LEMMA LeaderTokens ==
  ASSUME TypeOK, Engaged, FirstTerm, Tokens, Reliable, ~Happens("queue"),
         NEW n \in Node, Leader(n)
  PROVE  LocalMode' /\ OneHolder' /\ OneSource' /\ AboutToRun' /\ OneRun'
<1>0. /\ LocalMode /\ OneHolder /\ OneSource /\ AboutToRun /\ OneRun
      /\ OneLoop /\ EmptyBefore /\ UNCHANGED <<mode, worker>> /\ disp[n].pc # "off"
  BY DEF Tokens, FirstTerm, Reliable, Leader, TaskRunning, InitQueue, Start, WaitingTasks,
         EndOfBatch, Claim, Enqueue, Revert, LocalQueued, LocalRun
<1>n. \A k \in Node \ {n} : disp[k].task \notin Task
  BY <1>0 DEF OneLoop, Engaged, EngagedDisp
<1>w. \A k \in Node : worker[k].todo \subseteq Msg /\ worker[k].done \subseteq Msg
  BY DEF TypeOK, WorkState
<1>x. \A e \in Exec : exec[e].task \in Task <=> exec[e].pc # "idle"
  BY DEF Engaged, EngagedExec
<1>1. ASSUME \A m \in Msg : SameMsg(m)
      PROVE  OneHolder' /\ (mode = "local" => \A m \in Msg : msg'[m].st = "free")
  BY <1>0, <1>w, <1>1 DEF OneHolder, Batch, LocalMode, SameMsg
<1>2. ASSUME \A m \in Msg : SameMsg(m), UNCHANGED exec
      PROVE  AboutToRun' /\ OneRun'
  <2>1. \A e \in Exec : HasRun(e) => HasRun(e)'
    BY <1>0, <1>2 DEF HasRun, SameMsg
  <2> QED BY <1>0, <1>w, <1>2, <2>1, FewerRuns DEF SameMsg
<1>3. ASSUME UNCHANGED msg PROVE \A m \in Msg : SameMsg(m)
  BY <1>3 DEF SameMsg
<1>4. ASSUME \A m \in Msg : SameMsg(m), UNCHANGED exec,
             \A t \in Task : db'[t] \in {"none", "waiting"}
                               => db[t] \in {"none", "waiting"} \/ NoSource(t)',
             NEW c, c # "acquire", NEW t \in {disp[n].task, NoTask}, DispGoes(n, c, t)
      PROVE  LocalMode' /\ OneHolder' /\ OneSource' /\ AboutToRun' /\ OneRun'
  <2>1. LocalMode'
    BY <1>0, <1>1, <1>4 DEF LocalMode, DispGoes, SameDisp
  <2>2. OneSource'
    <3>1. \A u \in Task : /\ \A k \in Node : disp'[k].task = u => disp[k].task = u
                          /\ \A m \in Msg : msg'[m].task = u => msg[m].task = u
      BY <1>4 DEF DispGoes, SameDisp, SameMsg
    <3> QED BY <1>0, <1>4, <3>1, FewerSources
  <2> QED BY <1>1, <1>2, <1>4, <2>1, <2>2
<1>5. CASE TaskRunning(n) \/ Start(n) \/ WaitingTasks(n) \/ EndOfBatch(n)
  <2>1. UNCHANGED <<db, msg, exec>> /\ \E c \in {"init", "idle", "batch"} :
          DispGoes(n, c, disp[n].task)
    BY <1>5, TaskRunningEffect, StartEffect, PollEffect
  <2> QED BY <1>3, <1>4, <2>1
<1>6. ASSUME NEW t \in Task, InitQueue(n, t)
      PROVE  LocalMode' /\ OneHolder' /\ OneSource' /\ AboutToRun' /\ OneRun'
  <2>1. /\ disp[n].pc = "init" /\ DispGoes(n, "init", disp[n].task)
        /\ UNCHANGED exec /\ \A m \in Msg : SameMsg(m)
    BY <1>6, InitQueueEffect
  <2>2. Empty /\ disp[n].task \notin Task
    BY <1>0, <2>1 DEF EmptyBefore, Engaged, EngagedDisp
  <2>3. \A u \in Task : NoSource(u)'
    BY <1>0, <1>n, <1>x, <2>1, <2>2
       DEF NoSource, Empty, DispGoes, SameDisp, SameMsg, Engaged,
       EngagedWork, EngagedMsg
  <2> QED BY <1>4, <2>1, <2>3
<1>7. ASSUME NEW t \in Task, Claim(n, t)
      PROVE  LocalMode' /\ OneHolder' /\ OneSource' /\ AboutToRun' /\ OneRun'
  <2>1. UNCHANGED <<msg, exec>> /\ disp[n].task \notin Task
    BY <1>7, ClaimEffect DEF Engaged, EngagedDisp
  <2>2. CASE DispGoes(n, "batch", disp[n].task) /\ (db' = db \/ RowGoes(t, "queued"))
    <3>1. \A u \in Task : db'[u] \in {"none", "waiting"} => db[u] \in {"none", "waiting"}
      BY <2>2 DEF RowGoes
    <3> QED BY <1>3, <1>4, <2>1, <2>2, <3>1
  <2>3. CASE db[t] = "waiting" /\ RowGoes(t, "queued") /\ DispGoes(n, "claimed", t)
    <3>1. NoSource(t)
      BY <1>0, <2>3 DEF OneSource
    <3>2. LocalMode' /\ OneHolder'
      BY <1>0, <1>1, <1>3, <2>1, <2>3 DEF LocalMode, DispGoes, SameDisp
    <3>3. AboutToRun' /\ OneRun'
      BY <1>2, <1>3, <2>1
    <3>4. \A u \in Task : u # t => /\ db'[u] = db[u]
                                   /\ \A k \in Node : disp'[k].task = u => disp[k].task = u
                                   /\ NoSource(u) => NoSource(u)'
      BY <1>0, <2>1, <2>3 DEF RowGoes, DispGoes, SameDisp, NoSource
    <3>5. db'[t] = "queued"
      BY <2>3 DEF RowGoes
    <3>6. OneSource'
      BY <1>0, <2>1, <3>1, <3>4, <3>5 DEF OneSource, NoSource
    <3> QED BY <3>2, <3>3, <3>6
  <2> QED BY <1>7, <2>2, <2>3, ClaimEffect
<1>8. CASE Enqueue(n)
  <2>1. /\ mode # "local" /\ disp[n].pc = "claimed" /\ UNCHANGED <<db, exec>>
        /\ DispGoes(n, "batch", NoTask)
    BY <1>8, EnqueueEffect
  <2>2. PICK m \in Msg : /\ msg[m].st = "free"
                         /\ msg'[m].st = "new" /\ msg'[m].task = disp[n].task
                         /\ \A k \in Msg \ {m} : SameMsg(k)
    BY <1>8, EnqueueEffect
  <2> DEFINE t == disp[n].task
  <2>3. t \in Task /\ db[t] \notin {"none", "waiting"}
    BY <1>0, <2>1 DEF Engaged, EngagedDisp, OneSource, NoSource
  <2>4. \A k \in Node : m \notin Batch(k)
    BY <2>2 DEF Batch, Engaged, EngagedWork
  <2>5. LocalMode'
    BY <1>0, <2>1 DEF LocalMode, DispGoes, SameDisp
  <2>6. OneHolder'
    <3>1. \A k \in Node : Batch(k)' = Batch(k)
      BY <1>0 DEF Batch
    <3>2. \A k \in Node : \A i \in Batch(k) : msg'[i].st = msg[i].st
      BY <1>w, <2>2, <2>4 DEF Batch, SameMsg
    <3> QED BY <1>0, <3>1, <3>2 DEF OneHolder
  <2>7. AboutToRun' /\ OneRun'
    <3>1. ASSUME NEW e \in Exec, exec[e].pc # "idle", HasRun(e) PROVE HasRun(e)'
      <4>1. exec[e].node \in Node
        BY <3>1 DEF Engaged, EngagedExec
      <4>2. PICK i \in Msg : /\ msg[i].task = exec[e].task
                             /\ msg[i].st = "acked" \/ i \in worker[exec[e].node].done
        BY <3>1 DEF HasRun
      <4>3. i # m
        BY <2>2, <2>4, <4>1, <4>2 DEF Batch
      <4> QED BY <1>0, <2>1, <2>2, <4>2, <4>3 DEF HasRun, SameMsg
    <3>2. \A k \in Node : \A i \in worker[k].done : msg'[i].task = msg[i].task
      BY <1>w, <2>2, <2>4 DEF Batch, SameMsg
    <3> QED BY <1>0, <2>1, <3>1, <3>2, FewerRuns
  <2>8. OneSource'
    <3>1. \A u \in Task : u # t => /\ \A k \in Node : disp'[k].task = u => disp[k].task = u
                                   /\ \A i \in Msg : msg'[i].task = u => msg[i].task = u
                                   /\ NoSource(u) => NoSource(u)'
      <4>1. \A u \in Task : u # t => /\ \A k \in Node : disp'[k].task = u => disp[k].task = u
                                     /\ \A i \in Msg : msg'[i].task = u => msg[i].task = u
        BY <2>1, <2>2 DEF DispGoes, SameDisp, SameMsg
      <4> QED BY <1>0, <2>1, <4>1 DEF NoSource
    <3>2. \A k \in Node : disp'[k].task # t
      BY <1>n, <2>1, <2>3 DEF DispGoes, SameDisp
    <3>3. \A i \in Msg : msg'[i].task = t => i = m
      BY <1>0, <2>2, <2>3 DEF OneSource, SameMsg
    <3> QED BY <1>0, <2>1, <2>3, <3>1, <3>2, <3>3 DEF OneSource
  <2> QED BY <2>5, <2>6, <2>7, <2>8
<1>9. CASE Revert(n)
  <2>1. /\ disp[n].pc = "revert" /\ DispGoes(n, "batch", NoTask)
        /\ UNCHANGED exec /\ \A m \in Msg : SameMsg(m)
        /\ db' = db \/ RowGoes(disp[n].task, "waiting")
    BY <1>9, RevertEffect
  <2>2. PICK t \in Task : t = disp[n].task
    BY <2>1 DEF Engaged, EngagedDisp
  <2>3. (\A m \in Msg : msg[m].task # t) /\ (\A e \in Exec : exec[e].task # t)
    BY <1>0, <2>2 DEF OneSource
  <2>4. \A k \in Node : worker[k].cur # t
    BY <1>0, <1>w, <2>3 DEF AboutToRun
  <2>5. NoSource(t)'
    BY <1>0, <1>n, <2>1, <2>3, <2>4 DEF NoSource, DispGoes, SameDisp, SameMsg
  <2>6. \A u \in Task : db'[u] \in {"none", "waiting"}
                           => db[u] \in {"none", "waiting"} \/ NoSource(u)'
    BY <2>1, <2>2, <2>5 DEF RowGoes
  <2> QED BY <1>4, <2>1, <2>6
<1>10. CASE LocalQueued(n)
  <2>1. /\ mode = "local" /\ UNCHANGED <<msg, exec>>
        /\ \E c \in {"acquire", "revert"} : DispGoes(n, c, disp[n].task)
        /\ db' = db \/ RowGoes(disp[n].task, "queued")
    BY <1>10, LocalQueuedEffect
  <2>2. LocalMode' /\ OneHolder' /\ AboutToRun' /\ OneRun'
    BY <1>0, <1>1, <1>2, <1>3, <2>1 DEF LocalMode
  <2>3. \A u \in Task : db'[u] \in {"none", "waiting"} => db[u] \in {"none", "waiting"}
    BY <2>1 DEF RowGoes
  <2>4. \A u \in Task, k \in Node : disp'[k].task = u => disp[k].task = u
    BY <2>1 DEF DispGoes, SameDisp
  <2>5. OneSource'
    BY <1>0, <2>1, <2>3, <2>4, FewerSources
  <2> QED BY <2>2, <2>5
<1>11. CASE LocalRun(n)
  <2> DEFINE t == disp[n].task
  <2>1. /\ disp[n].pc = "acquire" /\ DispGoes(n, "batch", NoTask) /\ UNCHANGED <<db, msg>>
        /\ (\E e \in Exec : Spawned(e, n, t)) \/ UNCHANGED exec
    BY <1>11, LocalRunEffect
  <2>2. CASE UNCHANGED exec
    BY <1>3, <1>4, <2>1, <2>2
  <2>3. ASSUME NEW e \in Exec, Spawned(e, n, t)
        PROVE  LocalMode' /\ OneHolder' /\ OneSource' /\ AboutToRun' /\ OneRun'
    <3>1. t \in Task /\ db[t] \notin {"none", "waiting"}
      BY <1>0, <2>1 DEF Engaged, EngagedDisp, OneSource, NoSource
    <3>2. (\A m \in Msg : msg[m].task # t) /\ (\A f \in Exec : exec[f].task # t)
      BY <1>0, <3>1 DEF OneSource
    <3>3. exec'[e].task = t /\ \A f \in Exec \ {e} : exec'[f] = exec[f]
      BY <2>3 DEF Spawned
    <3>4. LocalMode' /\ OneHolder' /\ mode = "local"
      BY <1>0, <1>1, <1>3, <2>1 DEF LocalMode, DispGoes, SameDisp
    <3>5. AboutToRun'
      BY <1>0, <1>w, <2>1, <3>2, <3>3 DEF AboutToRun
    <3>6. OneRun'
      BY <1>0, <3>2, <3>3, <3>4, <1>x DEF OneRun
    <3>7. OneSource'
      <4>1. \A u \in Task : u # t => /\ \A k \in Node : disp'[k].task = u => disp[k].task = u
                                     /\ \A f \in Exec : exec'[f].task = u => exec[f].task = u
        BY <2>1, <3>3 DEF DispGoes, SameDisp
      <4>2. \A u \in Task : u # t /\ NoSource(u) => NoSource(u)'
        BY <1>0, <2>1, <4>1 DEF NoSource
      <4>3. \A k \in Node : disp'[k].task # t
        BY <1>n, <2>1, <3>1 DEF DispGoes, SameDisp
      <4> QED BY <1>0, <2>1, <3>1, <3>2, <4>1, <4>2, <4>3 DEF OneSource
    <3> QED BY <3>4, <3>5, <3>6, <3>7
  <2> QED BY <2>1, <2>2, <2>3
<1> QED BY <1>5, <1>6, <1>7, <1>8, <1>9, <1>10, <1>11 DEF Leader

\* A worker takes entries nobody holds, and turns each into one controller.
LEMMA WorkerTokens ==
  ASSUME TypeOK, Engaged, FirstTerm, Tokens, Reliable, ~Happens("queue"), ~Happens("slow"),
         NEW n \in Node, Worker(n)
  PROVE  LocalMode' /\ OneHolder' /\ OneSource' /\ AboutToRun' /\ OneRun'
<1>0. /\ LocalMode /\ OneHolder /\ OneSource /\ AboutToRun /\ OneRun /\ WorkersOn
      /\ UNCHANGED <<mode, disp>>
  BY DEF Tokens, FirstTerm, Reliable, Worker, ReadGroup, AutoClaim, Receive, WorkerRun,
         ackDispatchMessages, processDispatchMessage
<1>w. \A k \in Node : worker[k].todo \subseteq Msg /\ worker[k].done \subseteq Msg
  BY DEF TypeOK, WorkState
<1>x. \A e \in Exec : /\ exec[e].task \in Task <=> exec[e].pc # "idle"
                      /\ exec[e].pc # "idle" => exec[e].node \in Node
  BY DEF Engaged, EngagedExec
<1>1. CASE ReadGroup(n) \/ AutoClaim(n)
  <2>1. worker[n].pc = "idle" /\ UNCHANGED <<db, exec>>
    BY <1>1, ReceiveEffect
  <2>2. PICK batch \in SUBSET Msg :
          /\ WorkGoes(n, "batch", batch, {}, NoTask)
          /\ \A m \in batch : /\ msg[m].st \in {"new", "pending"} /\ msg'[m].st = "pending"
                              /\ msg'[m].task = msg[m].task /\ ~InBatch(m)
          /\ \A m \in Msg \ batch : SameMsg(m)
    <3>1. \A m \in Msg : msg[m].st = "new" => ~InBatch(m)
      BY DEF Engaged, EngagedWork, InBatch
    <3>2. PICK batch \in SUBSET Msg :
            /\ WorkGoes(n, "batch", batch, {}, NoTask)
            /\ \/ /\ \A m \in batch : /\ msg[m].st = "new" /\ msg'[m].st = "pending"
                                      /\ msg'[m].task = msg[m].task
                  /\ \A m \in Msg \ batch : SameMsg(m)
               \/ /\ \A m \in batch : msg[m].st = "pending" /\ ~InBatch(m)
                  /\ UNCHANGED msg
      BY <1>1, ReceiveEffect
    <3>3. \A m \in batch : /\ msg[m].st \in {"new", "pending"} /\ msg'[m].st = "pending"
                           /\ msg'[m].task = msg[m].task /\ ~InBatch(m)
      BY <3>1, <3>2
    <3>4. \A m \in Msg \ batch : SameMsg(m)
      BY <3>2 DEF SameMsg
    <3> QED BY <3>2, <3>3, <3>4
  <2>3. worker[n].done = {} /\ worker[n].cur \notin Task
    BY <2>1 DEF Engaged, EngagedWork
  <2>4. Batch(n)' = batch /\ \A k \in Node \ {n} : Batch(k)' = Batch(k)
    BY <2>2 DEF WorkGoes, Batch
  <2>5. OneHolder'
    <3>1. \A k \in Node \ {n} : \A m \in Batch(k) : m \notin batch /\ msg'[m].st = msg[m].st
      BY <1>w, <2>2 DEF Batch, InBatch, SameMsg
    <3>2. \A m \in Msg : ~(m \in worker'[n].todo /\ m \in worker'[n].done)
      BY <2>2 DEF WorkGoes
    <3>3. \A k \in Node \ {n} : worker'[k] = worker[k]
      BY <2>2 DEF WorkGoes
    <3> QED BY <1>0, <2>2, <2>4, <3>1, <3>2, <3>3 DEF OneHolder
  <2>6. LocalMode'
    BY <1>0, <2>2 DEF LocalMode, SameMsg
  <2>7. \A m \in Msg : msg'[m].task = msg[m].task /\ (msg[m].st = "acked" => msg'[m].st = "acked")
    BY <2>2 DEF SameMsg
  <2>8. OneSource'
    BY <1>0, <2>1, <2>2, <2>7, FewerSources DEF WorkGoes
  <2>9. ASSUME NEW e \in Exec, exec[e].pc # "idle", HasRun(e) PROVE HasRun(e)'
    <3>1. PICK i \in Msg : /\ msg[i].task = exec[e].task
                           /\ msg[i].st = "acked" \/ i \in worker[exec[e].node].done
      BY <2>9 DEF HasRun
    <3>2. msg[i].st = "acked" \/ (exec[e].node # n /\ exec[e].node \in Node)
      BY <1>x, <2>3, <2>9, <3>1
    <3> QED BY <2>1, <2>2, <2>7, <3>1, <3>2 DEF HasRun, WorkGoes
  <2>10. \A k \in Node : worker'[k].cur \in Task => worker'[k] = worker[k]
    BY <2>2 DEF WorkGoes
  <2>11. AboutToRun' /\ OneRun'
    BY <1>0, <1>w, <2>1, <2>7, <2>9, <2>10, FewerRuns
  <2> QED BY <2>5, <2>6, <2>8, <2>11
<1>2. ASSUME NEW m \in Msg, processDispatchMessage(n, m)
      PROVE  LocalMode' /\ OneHolder' /\ OneSource' /\ AboutToRun' /\ OneRun'
  <2>1. worker[n].pc = "batch" /\ m \in worker[n].todo /\ UNCHANGED <<msg, exec>>
    BY <1>2, ProcessEffect
  <2>2. LocalMode'
    BY <1>0, <2>1 DEF LocalMode
  <2>3. worker[n].cur \notin Task /\ m \notin worker[n].done /\ msg[m].st = "pending"
    BY <1>0, <2>1 DEF Engaged, EngagedWork, OneHolder, Batch
  <2>4. /\ worker'[n].todo = worker[n].todo \ {m} /\ worker'[n].done = worker[n].done \cup {m}
        /\ \A k \in Node \ {n} : worker'[k] = worker[k]
    BY <1>2, ProcessEffect DEF WorkGoes
  <2>5. OneHolder'
    <3>1. \A k \in Node : Batch(k)' = Batch(k)
      BY <2>1, <2>4 DEF Batch
    <3>2. \A k \in Node : \A i \in Batch(k) : ~(i \in worker'[k].todo /\ i \in worker'[k].done)
      BY <1>0, <2>4 DEF OneHolder, Batch
    <3> QED BY <1>0, <2>1, <3>1, <3>2 DEF OneHolder
  <2>6. \A e \in Exec : HasRun(e) /\ exec[e].pc # "idle" => HasRun(e)'
    BY <1>x, <2>1, <2>4 DEF HasRun
  <2>7. OneRun'
    BY <1>0, <2>1, <2>6 DEF OneRun
  <2>8. CASE db' = db /\ worker'[n].cur = worker[n].cur
    <3>1. OneSource'
      BY <1>0, <2>1, <2>4, <2>8, FewerSources
    <3>2. AboutToRun'
      BY <1>0, <2>1, <2>3, <2>4, <2>8 DEF AboutToRun
    <3> QED BY <2>2, <2>5, <2>7, <3>1, <3>2
  <2>9. CASE RowGoes(msg[m].task, "queued") /\ worker'[n].cur = msg[m].task
    <3> DEFINE t == msg[m].task
    <3>1. t \in Task
      BY <2>3 DEF Engaged, EngagedMsg
    <3>2. \A e \in Exec : exec[e].task # t
      <4> SUFFICES ASSUME NEW e \in Exec, exec[e].task = t PROVE FALSE
        OBVIOUS
      <4>1. exec[e].pc # "idle" /\ exec[e].node \in Node
        BY <1>x, <3>1
      <4>2. mode # "local"
        BY <1>0, <2>3 DEF LocalMode
      <4>3. PICK i \in Msg : /\ msg[i].task = t
                             /\ msg[i].st = "acked" \/ i \in worker[exec[e].node].done
        BY <1>0, <4>1, <4>2 DEF OneRun, HasRun
      <4>4. i = m
        BY <1>0, <3>1, <4>3 DEF OneSource
      <4>5. m \in worker[exec[e].node].done
        BY <2>3, <4>3, <4>4
      <4>6. exec[e].node = n
        BY <1>0, <2>1, <4>1, <4>5 DEF OneHolder, Batch
      <4> QED BY <2>3, <4>5, <4>6
    <3>3. AboutToRun'
      BY <1>0, <2>1, <2>4, <2>9, <3>1, <3>2 DEF AboutToRun
    <3>4. \A u \in Task : u # t => db'[u] = db[u] /\ (NoSource(u) => NoSource(u)')
      BY <1>0, <2>1, <2>4, <2>9 DEF RowGoes, NoSource
    <3>5. db'[t] = "queued"
      BY <2>9, <3>1 DEF RowGoes
    <3>6. OneSource'
      BY <1>0, <2>1, <3>4, <3>5 DEF OneSource
    <3> QED BY <2>2, <2>5, <2>7, <3>3, <3>6
  <2> QED BY <1>2, <2>8, <2>9, ProcessEffect DEF WorkGoes
<1>3. CASE WorkerRun(n)
  <2> DEFINE t == worker[n].cur
  <2>1. /\ worker[n].pc = "acquire" /\ UNCHANGED <<db, msg>>
        /\ WorkGoes(n, "batch", worker[n].todo, worker[n].done, NoTask)
        /\ (\E e \in Exec : Spawned(e, n, t)) \/ UNCHANGED exec
    BY <1>3, WorkerRunEffect
  <2>2. /\ \A k \in Node : worker'[k].todo = worker[k].todo /\ worker'[k].done = worker[k].done
        /\ worker'[n].cur = NoTask /\ \A k \in Node \ {n} : worker'[k].cur = worker[k].cur
    BY <2>1 DEF WorkGoes
  <2>3. LocalMode' /\ OneHolder'
    <3>1. \A k \in Node : Batch(k)' = Batch(k)
      BY <2>2 DEF Batch
    <3> QED BY <1>0, <2>1, <2>2, <3>1 DEF LocalMode, OneHolder
  <2>4. CASE UNCHANGED exec
    <3>1. OneSource'
      BY <1>0, <2>1, <2>2, <2>4, FewerSources
    <3>2. \A e \in Exec : HasRun(e) /\ exec[e].pc # "idle" => HasRun(e)'
      BY <1>x, <2>1, <2>2, <2>4 DEF HasRun
    <3>3. AboutToRun' /\ OneRun'
      BY <1>0, <2>1, <2>2, <2>4, <3>2, FewerRuns
    <3> QED BY <2>3, <3>1, <3>3
  <2>5. ASSUME NEW e \in Exec, Spawned(e, n, t)
        PROVE  LocalMode' /\ OneHolder' /\ OneSource' /\ AboutToRun' /\ OneRun'
    <3>1. t \in Task /\ db[t] \notin {"none", "waiting"}
      BY <1>0, <2>1 DEF Engaged, EngagedWork, OneSource, NoSource
    <3>2. PICK m \in worker[n].done : msg[m].task = t
      BY <1>0, <3>1 DEF AboutToRun
    <3>3. m \in Msg /\ \A f \in Exec : exec[f].task # t
      BY <1>0, <1>w, <3>1 DEF AboutToRun
    <3>4. /\ exec'[e].task = t /\ exec'[e].node = n
          /\ \A f \in Exec \ {e} : exec'[f] = exec[f]
      BY <2>5 DEF Spawned
    <3>5. \A k \in Node \ {n} : worker[k].cur # t
      <4> SUFFICES ASSUME NEW k \in Node \ {n}, worker[k].cur = t PROVE FALSE
        OBVIOUS
      <4>1. PICK i \in worker[k].done : msg[i].task = t
        BY <1>0, <3>1 DEF AboutToRun
      <4>2. i = m
        BY <1>0, <1>w, <3>1, <3>2, <3>3, <4>1 DEF OneSource
      <4> QED BY <1>0, <3>2, <4>1, <4>2 DEF OneHolder, Batch
    <3>6. AboutToRun'
      BY <1>0, <2>1, <2>2, <3>3, <3>4, <3>5 DEF AboutToRun
    <3>7. OneRun'
      <4>1. HasRun(e)'
        BY <2>1, <2>2, <3>2, <3>3, <3>4 DEF HasRun
      <4>2. \A f \in Exec \ {e} : exec[f].pc # "idle" /\ HasRun(f) => HasRun(f)'
        BY <1>x, <2>1, <2>2, <3>4 DEF HasRun
      <4> QED BY <1>0, <3>3, <3>4, <4>1, <4>2 DEF OneRun
    <3>8. OneSource'
      <4>1. \A k \in Node : disp[k].task # t
        BY <1>0, <3>1, <3>2, <3>3 DEF OneSource
      <4>2. \A u \in Task : u # t => \A f \in Exec : exec'[f].task = u => exec[f].task = u
        BY <3>4
      <4>3. \A u \in Task : u # t /\ NoSource(u) => NoSource(u)'
        BY <1>0, <2>1, <2>2, <4>2 DEF NoSource
      <4> QED BY <1>0, <2>1, <3>1, <4>1, <4>2, <4>3 DEF OneSource
    <3> QED BY <2>3, <3>6, <3>7, <3>8
  <2> QED BY <2>1, <2>4, <2>5
<1>4. CASE ackDispatchMessages(n)
  <2>1. /\ worker[n].pc = "batch" /\ worker[n].todo = {} /\ UNCHANGED <<db, exec>>
        /\ WorkGoes(n, "idle", {}, {}, NoTask)
    BY <1>4, AckEffect
  <2>2. workerOn[n]
    BY <1>0, <2>1 DEF WorkersOn
  <2>3. \A m \in Msg : /\ msg'[m].task = msg[m].task
                       /\ msg'[m].st = IF m \in worker[n].done THEN "acked" ELSE msg[m].st
    BY <1>4, <2>2, AckEffect
  <2>4. Batch(n)' = {} /\ \A k \in Node \ {n} : Batch(k)' = Batch(k) /\ worker'[k] = worker[k]
    BY <2>1 DEF Batch, WorkGoes
  <2>5. OneHolder'
    <3>1. \A k \in Node \ {n} : \A m \in Batch(k) : msg'[m].st = msg[m].st
      BY <1>0, <1>w, <2>3 DEF OneHolder, Batch
    <3> QED BY <1>0, <2>4, <3>1 DEF OneHolder
  <2>6. LocalMode'
    BY <1>0, <2>3 DEF LocalMode, Engaged, EngagedWork
  <2>7. OneSource'
    BY <1>0, <2>1, <2>3, FewerSources DEF WorkGoes
  <2>8. ASSUME NEW e \in Exec, exec[e].pc # "idle", HasRun(e) PROVE HasRun(e)'
    <3>1. PICK i \in Msg : /\ msg[i].task = exec[e].task
                           /\ msg[i].st = "acked" \/ i \in worker[exec[e].node].done
      BY <2>8 DEF HasRun
    <3>2. msg'[i].st = "acked" \/ (exec[e].node \in Node \ {n} /\ i \in worker[exec[e].node].done)
      BY <1>x, <2>3, <2>8, <3>1
    <3> QED BY <2>1, <2>3, <2>4, <3>1, <3>2 DEF HasRun
  <2>9. \A k \in Node : worker'[k].cur \in Task => worker'[k] = worker[k]
    BY <2>1 DEF WorkGoes
  <2>10. AboutToRun' /\ OneRun'
    BY <1>0, <1>w, <2>1, <2>3, <2>8, <2>9, FewerRuns
  <2> QED BY <2>5, <2>6, <2>7, <2>10
<1> QED BY <1>1, <1>2, <1>3, <1>4 DEF Worker

\* Nobody else dispatches: rows are inserted, controllers end, and a crash takes a
\* process' controllers together with the batch they came from.
LEMMA OtherTokens ==
  ASSUME TypeOK, Engaged, FirstTerm, Tokens, Reliable,
         Api \/ Environment \/ Roles \/ \E e \in Exec : Controller(e)
  PROVE  LocalMode' /\ OneHolder' /\ OneSource' /\ AboutToRun' /\ OneRun'
<1>0. LocalMode /\ OneHolder /\ OneSource /\ AboutToRun /\ OneRun
  BY DEF Tokens
<1>x. \A e \in Exec : /\ exec[e].task \in Task <=> exec[e].pc # "idle"
                      /\ exec[e].pc # "idle" => exec[e].node \in Node
  BY DEF Engaged, EngagedExec
<1>1. ASSUME NEW e \in Exec, Controller(e)
      PROVE  LocalMode' /\ OneHolder' /\ OneSource' /\ AboutToRun' /\ OneRun'
  <2>1. /\ exec[e].pc # "idle" /\ UNCHANGED <<mode, disp, msg, worker>>
        /\ UNCHANGED exec \/ ExecEnds(e) \/ \E c \in {"running", "completed"} : ExecGoes(e, c)
    BY <1>1, ControllerEffect
  <2>2. db' = db \/ \E s \in {"running", "completed"} : RowGoes(exec[e].task, s)
    BY <1>1, ControllerEffect, WriteEffect
  <2>3. \A t \in Task : db'[t] \in {"none", "waiting"} => db[t] \in {"none", "waiting"}
    BY <2>2 DEF RowGoes
  <2>4. LocalMode' /\ OneHolder'
    BY <1>0, <2>1 DEF LocalMode, OneHolder, Batch
  <2>5. \A f \in Exec : /\ exec'[f].task \in Task => exec'[f].task = exec[f].task
                        /\ exec'[f].pc # "idle" => /\ exec[f].pc # "idle"
                                                  /\ exec'[f].task = exec[f].task
                                                  /\ exec'[f].node = exec[f].node
    BY <2>1 DEF ExecGoes, ExecEnds
  <2>6. OneSource'
    BY <1>0, <2>1, <2>3, <2>5, FewerSources
  <2>7. \A f \in Exec : exec'[f].pc # "idle" /\ HasRun(f) => HasRun(f)'
    BY <2>1, <2>5 DEF HasRun
  <2>8. AboutToRun' /\ OneRun'
    BY <1>0, <2>1, <2>5, <2>7, FewerRuns
  <2> QED BY <2>4, <2>6, <2>8
<1>2. ASSUME NEW n \in Node, Crash(n)
      PROVE  LocalMode' /\ OneHolder' /\ OneSource' /\ AboutToRun' /\ OneRun'
  <2>1. /\ UNCHANGED <<mode, db, msg>> /\ DispGoes(n, "off", NoTask)
        /\ WorkGoes(n, "idle", {}, {}, NoTask)
    BY <1>2, CrashEffect
  <2>2. \A e \in Exec : /\ exec'[e].task \in Task => exec'[e].task = exec[e].task
                        /\ exec'[e].pc # "idle" => exec'[e] = exec[e] /\ exec[e].node # n
    BY <1>2, CrashEffect
  <2>3. LocalMode'
    BY <1>0, <2>1 DEF LocalMode, DispGoes, SameDisp
  <2>4. OneHolder'
    <3>1. Batch(n)' = {} /\ \A k \in Node \ {n} : Batch(k)' = Batch(k) /\ worker'[k] = worker[k]
      BY <2>1 DEF Batch, WorkGoes
    <3> QED BY <1>0, <2>1, <3>1 DEF OneHolder
  <2>5. OneSource'
    <3>1. \A t \in Task, k \in Node : /\ disp'[k].task = t => disp[k].task = t
                                      /\ worker'[k].cur = t => worker[k].cur = t
      BY <2>1 DEF DispGoes, SameDisp, WorkGoes
    <3> QED BY <1>0, <2>1, <2>2, <3>1, FewerSources
  <2>6. \A e \in Exec : exec'[e].pc # "idle" /\ HasRun(e) => HasRun(e)'
    BY <1>x, <2>1, <2>2 DEF HasRun, WorkGoes
  <2>7. \A k \in Node : worker'[k].cur \in Task => worker'[k] = worker[k]
    BY <2>1 DEF WorkGoes
  <2>8. AboutToRun' /\ OneRun'
    BY <1>0, <2>1, <2>2, <2>6, <2>7, FewerRuns
  <2> QED BY <2>3, <2>4, <2>5, <2>8
<1>3. ASSUME UNCHANGED <<mode, msg, worker, exec>>,
             \A k \in Node : /\ disp'[k].task \in Task => disp'[k].task = disp[k].task
                             /\ disp'[k].pc = "acquire" => disp[k].pc = "acquire",
             \A t \in Task : db'[t] \in {"none", "waiting"} => db[t] \in {"none", "waiting"}
      PROVE  LocalMode' /\ OneHolder' /\ OneSource' /\ AboutToRun' /\ OneRun'
  <2>1. LocalMode' /\ OneHolder'
    BY <1>0, <1>3 DEF LocalMode, OneHolder, Batch
  <2>2. OneSource'
    BY <1>0, <1>3, FewerSources
  <2>3. AboutToRun' /\ OneRun'
    BY <1>0, <1>3 DEF AboutToRun, OneRun, HasRun
  <2> QED BY <2>1, <2>2, <2>3
<1>4. ASSUME NEW n \in Node, onStartedLeading(n)
      PROVE  LocalMode' /\ OneHolder' /\ OneSource' /\ AboutToRun' /\ OneRun'
  BY <1>3, <1>4, ElectionEffect DEF DispGoes, SameDisp
<1>5. ASSUME NEW n \in Node, Restart(n) \/ startWorkers(n) \/ stopWorkers(n)
      PROVE  LocalMode' /\ OneHolder' /\ OneSource' /\ AboutToRun' /\ OneRun'
  BY <1>3, <1>5 DEF Restart, startWorkers, stopWorkers
<1>6. CASE LeaseExpires
  BY <1>3, <1>6 DEF LeaseExpires
<1>7. ASSUME NEW u \in Task, enqueueWorkflowTask(u) \/ cancelWorkflowTask(u)
      PROVE  LocalMode' /\ OneHolder' /\ OneSource' /\ AboutToRun' /\ OneRun'
  <2>1. RowGoes(u, "cancelled") \/ (db[u] = "none" /\ RowGoes(u, "waiting"))
    BY <1>7, PutEffect DEF enqueueWorkflowTask, cancelWorkflowTask
  <2>2. \A t \in Task : db'[t] \in {"none", "waiting"} => db[t] \in {"none", "waiting"}
    BY <2>1 DEF RowGoes
  <2> QED BY <1>3, <1>7, <2>2 DEF enqueueWorkflowTask, cancelWorkflowTask
<1> QED BY <1>1, <1>2, <1>4, <1>5, <1>6, <1>7 DEF Api, Environment, Roles

\* While the first leader leads, the queue reports no false error and no live worker
\* is slow, no task has two controllers: crashes of workers, redelivery of their
\* entries, failed database calls and cancellations included.
THEOREM OneControllerAtATime == Spec => []OneControllerPerTask
<1>1. Init => Tokens
  <2> SUFFICES ASSUME Init PROVE Tokens
    OBVIOUS
  <2>1. \A n \in Node : /\ disp[n].task = NoTask /\ disp[n].pc = "off"
                        /\ worker[n].cur = NoTask /\ Batch(n) = {}
    BY DEF Init, NoDisp, NoWork, Batch
  <2>2. \A m \in Msg : msg[m].task = NoTask /\ msg[m].st = "free"
    BY DEF Init, NoMsg
  <2>3. \A e \in Exec : exec[e].task = NoTask /\ exec[e].pc = "idle"
    BY DEF Init, NoExec
  <2>4. LocalMode /\ OneHolder
    BY <2>1, <2>2 DEF LocalMode, OneHolder
  <2>5. OneSource
    BY <2>1, <2>2, <2>3 DEF OneSource, NoSource
  <2>6. AboutToRun /\ OneRun
    BY <2>1, <2>3 DEF AboutToRun, OneRun
  <2> QED BY <2>4, <2>5, <2>6 DEF Tokens
<1>2. TypeOK /\ Engaged /\ FirstTerm /\ Tokens /\ [Next]_vars => Tokens'
  <2> SUFFICES ASSUME TypeOK, Engaged, FirstTerm, Tokens, [Next]_vars, Reliable'
               PROVE  LocalMode' /\ OneHolder' /\ OneSource' /\ AboutToRun' /\ OneRun'
    BY DEF Tokens
  <2>1. CASE Next
    <3>1. Reliable /\ ~Happens("queue") /\ ~Happens("slow")
      BY <2>1, ReliableBefore
    <3> QED BY <2>1, <3>1, LeaderTokens, WorkerTokens, OtherTokens DEF Next
  <2>2. CASE UNCHANGED vars
    BY <2>2 DEF vars, Tokens, Reliable, LocalMode, OneHolder, Batch, OneSource, NoSource,
                AboutToRun, OneRun, HasRun
  <2> QED BY <2>1, <2>2
<1>3. Tokens => OneControllerPerTask
  BY DEF Tokens, Reliable, OneRun, OneControllerPerTask
<1> QED BY <1>1, <1>2, <1>3, TypeCorrect, EngagedAlways, FirstTermAlways, PTL DEF Spec
=============================================================================
