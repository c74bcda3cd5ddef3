-------------------------- MODULE WorkflowEngine --------------------------
(***************************************************************************)
(* The life of a workflow task, from the row the API inserts to the        *)
(* goroutine that runs it (pkg/apiserver/event/workflow, domain/service    *)
(* and domain/repository/workflow.go).                                     *)
(*                                                                         *)
(* The replicas of the server share a SQL table of task rows and a Redis   *)
(* stream of dispatch messages.  The leader requeues unfinished rows       *)
(* (InitQueue), then its Dispatcher claims waiting rows by                 *)
(* compare-and-swap and publishes one message per claim.  Workers read     *)
(* messages, mark the row queued, start a controller goroutine and         *)
(* acknowledge the batch.  Controllers write the row as they go.           *)
(*                                                                         *)
(* Of a row only its status is kept; of a message its task and its place   *)
(* in the consumer group; of a controller what it writes to its row (the   *)
(* jobs it runs are the module WorkflowRun).                               *)
(***************************************************************************)
EXTENDS Naturals, FiniteSets

CONSTANTS
  Task,         \* task identifiers
  Node,         \* server processes (replicas)
  Msg,          \* identifiers of stream entries: bounds the messages ever sent
  Exec,         \* identifiers of controller goroutines alive at the same time
  NoTask,       \* no task
  NoNode,       \* no node
  Modes,        \* the deployments considered, a set of modes
  MaxWorkflows, \* Workflow.MaxConcurrentWorkflows
  ReadCount,    \* messages a worker takes in one read or auto-claim
  MaxFaults     \* bound: how often each kind of fault happens

\* "term": an election; "crash": a process ends; "db": a database call reports an
\* error; "queue": a queue call reports an error; "slow": a live worker holds a
\* message for longer than AutoClaim's idle time.
Fault == {"term", "crash", "db", "queue", "slow"}

ASSUME ConstantsAssumption ==
  /\ MaxWorkflows \in Nat \ {0}
  /\ ReadCount \in Nat \ {0}
  /\ MaxFaults \in [Fault -> Nat]
  /\ Modes \subseteq {"local", "single", "distributed"}
  /\ NoTask \notin Task
  /\ NoNode \notin Node

\* Two fields are history, read by no action: disp[n].fresh and msg[m].fresh say
\* that the row has not become waiting again since the claim was made.
VARIABLES
  mode,     \* "local": NoopQueue; "single": the leader also runs the worker
            \* (fewer than 3 replicas); "distributed": the followers do
  db,       \* status column of each row, "none" before the row exists
  lease,    \* holder of the leader election lease
  role,     \* what each process is
  disp,     \* the leader loop of each process: InitQueue, then the Dispatcher
  group,    \* the errgroup and limiter that Start creates
  msg,      \* the stream and its consumer group
  workerOn, \* whether the process' worker context is live
  worker,   \* the worker loop of each process
  exec,     \* the running controllers
  faults    \* how often each kind of fault has happened

vars == <<mode, db, lease, role, disp, group, msg, workerOn, worker, exec,
          faults>>

-----------------------------------------------------------------------------
\* The statuses the engine stores; failed is set in memory only.
Status == {"none", "waiting", "queued", "running", "completed", "cancelled"}

\* The statuses TaskRunning lists; the others of its list are never stored.
Unfinished == {"waiting", "queued", "running"}

NoDisp == [pc |-> "off", todo |-> {}, task |-> NoTask, fresh |-> FALSE]
NoWork == [pc |-> "idle", todo |-> {}, done |-> {}, cur |-> NoTask]
NoExec == [pc |-> "idle", task |-> NoTask, node |-> NoNode, grouped |-> FALSE]
NoMsg  == [st |-> "free", task |-> NoTask, fresh |-> FALSE]

DispState ==
  [pc : {"off", "list", "init", "idle", "batch", "claimed", "acquire", "revert"},
   todo : SUBSET Task, task : Task \cup {NoTask}, fresh : BOOLEAN]

WorkState ==
  [pc : {"idle", "batch", "acquire"}, todo : SUBSET Msg, done : SUBSET Msg,
   cur : Task \cup {NoTask}]

ExecState ==
  [pc : {"idle", "spawned", "running", "completed"}, task : Task \cup {NoTask},
   node : Node \cup {NoNode}, grouped : BOOLEAN]

MsgState ==
  [st : {"free", "new", "pending", "acked"}, task : Task \cup {NoTask},
   fresh : BOOLEAN]

\* Every variable has its type; a row is never left without a known status.
TypeOK ==
  /\ mode \in Modes
  /\ db \in [Task -> Status]
  /\ lease \in Node \cup {NoNode}
  /\ role \in [Node -> {"down", "follower", "leader"}]
  /\ disp \in [Node -> DispState]
  /\ group \in [Node -> {"none", "open", "cancelled"}]
  /\ msg \in [Msg -> MsgState]
  /\ workerOn \in [Node -> BOOLEAN]
  /\ worker \in [Node -> WorkState]
  /\ exec \in [Exec -> ExecState]
  /\ faults \in [Fault -> Nat]

Init ==
  /\ mode \in Modes
  /\ db = [t \in Task |-> "none"]
  /\ lease = NoNode
  /\ role = [n \in Node |-> "follower"]
  /\ disp = [n \in Node |-> NoDisp]
  /\ group = [n \in Node |-> "none"]
  /\ msg = [m \in Msg |-> NoMsg]
  /\ workerOn = [n \in Node |-> FALSE]
  /\ worker = [n \in Node |-> NoWork]
  /\ exec = [e \in Exec |-> NoExec]
  /\ faults = [f \in Fault |-> 0]

-----------------------------------------------------------------------------
\* One more fault of kind f, within its bound.
Happens(f) == faults[f] < MaxFaults[f] /\ faults' = [faults EXCEPT ![f] = @ + 1]

NoFault == UNCHANGED faults

(***************************************************************************)
(* The database.                                                           *)
(***************************************************************************)
\* Store.Put: writes the status whatever the row holds.
Put(t, s) == db' = [db EXCEPT ![t] = s]

\* Seeded fault: the UPDATE without its WHERE on the status.
CompareAndSwapBlind(t, from, to) == Put(t, to)

\* Driver.CompareAndSwap: one conditional UPDATE.
CompareAndSwap(t, from, to) == db[t] = from /\ Put(t, to)

\* A database call that reports an error and changed nothing.
DbError == Happens("db") /\ UNCHANGED db

\* History: the row of t becomes waiting again, earlier claims are superseded.
Supersede(t, d) ==
  /\ disp' = [n \in Node |-> IF d[n].task = t THEN [d[n] EXCEPT !.fresh = FALSE]
                                             ELSE d[n]]
  /\ msg' = [m \in Msg |-> IF msg[m].task = t THEN [msg[m] EXCEPT !.fresh = FALSE]
                                             ELSE msg[m]]

-----------------------------------------------------------------------------
(***************************************************************************)
(* The API: workflowServiceImpl.                                           *)
(***************************************************************************)
\* Seeded fault: the row is inserted without a status.
enqueueWorkflowTaskBlank(t) ==
  /\ db[t] = "none"
  /\ Put(t, "")
  /\ UNCHANGED <<mode, lease, role, disp, group, msg, workerOn, worker, exec, faults>>

enqueueWorkflowTask(t) ==
  /\ db[t] = "none"
  /\ Put(t, "waiting")
  /\ UNCHANGED <<mode, lease, role, disp, group, msg, workerOn, worker, exec, faults>>

\* Writes cancelled over any status; the signal to the running jobs follows
\* (module CancelSignal), here a controller may fail at any time.
cancelWorkflowTask(t) ==
  /\ db[t] # "none"
  /\ Put(t, "cancelled")
  /\ UNCHANGED <<mode, lease, role, disp, group, msg, workerOn, worker, exec,
                 faults>>

-----------------------------------------------------------------------------
(***************************************************************************)
(* Leadership and processes.                                               *)
(***************************************************************************)
\* onStartedLeading: the leader loop begins, in a goroutine.
onStartedLeading(n) ==
  /\ lease = NoNode
  /\ role[n] = "follower"
  /\ Happens("term")
  /\ lease' = n
  /\ role' = [role EXCEPT ![n] = "leader"]
  /\ disp' = [disp EXCEPT ![n] = [NoDisp EXCEPT !.pc = "list"]]
  /\ UNCHANGED <<mode, db, group, msg, workerOn, worker, exec>>

\* The lease expires.  Its holder, if it is paused, goes on until it exits
\* (ExitOnLostLeader): the process ends by Crash.
LeaseExpires ==
  /\ lease # NoNode
  /\ lease' = NoNode
  /\ UNCHANGED <<mode, db, role, disp, group, msg, workerOn, worker, exec, faults>>

\* The process ends and all its goroutines with it.
Crash(n) ==
  /\ role[n] # "down"
  /\ Happens("crash")
  /\ role' = [role EXCEPT ![n] = "down"]
  /\ disp' = [disp EXCEPT ![n] = NoDisp]
  /\ group' = [group EXCEPT ![n] = "none"]
  /\ workerOn' = [workerOn EXCEPT ![n] = FALSE]
  /\ worker' = [worker EXCEPT ![n] = NoWork]
  /\ exec' = [e \in Exec |-> IF exec[e].node = n THEN NoExec ELSE exec[e]]
  /\ UNCHANGED <<mode, db, lease, msg>>

Restart(n) ==
  /\ role[n] = "down"
  /\ role' = [role EXCEPT ![n] = "follower"]
  /\ UNCHANGED <<mode, db, lease, disp, group, msg, workerOn, worker, exec, faults>>

\* reconcileWorkers on the leader, OnNewLeader on a follower.  It does not wait
\* for Start, which runs in a goroutine of its own.
startWorkers(n) ==
  /\ ~workerOn[n]
  /\ \/ mode = "single" /\ role[n] = "leader"
     \/ mode = "distributed" /\ role[n] = "follower" /\ lease \notin {NoNode, n}
  /\ worker[n].pc = "idle"
  /\ workerOn' = [workerOn EXCEPT ![n] = TRUE]
  /\ UNCHANGED <<mode, db, lease, role, disp, group, msg, worker, exec, faults>>

\* A follower that became leader of 3 or more replicas cancels its worker
\* context: that ends the loop at its next turn and fails every call made
\* with the context, those of the controllers it started included.
stopWorkers(n) ==
  /\ workerOn[n]
  /\ mode = "distributed"
  /\ role[n] = "leader"
  /\ workerOn' = [workerOn EXCEPT ![n] = FALSE]
  /\ UNCHANGED <<mode, db, lease, role, disp, group, msg, worker, exec, faults>>

-----------------------------------------------------------------------------
(***************************************************************************)
(* The leader: InitQueue, then Dispatcher or WorkflowTaskSender.           *)
(***************************************************************************)
\* InitQueue lists the unfinished rows; if that fails there is none to requeue.
TaskRunning(n) ==
  /\ disp[n].pc = "list"
  /\ \/ /\ disp' = [disp EXCEPT ![n] = [@ EXCEPT !.pc = "init",
                           !.todo = {t \in Task : db[t] \in Unfinished}]]
        /\ NoFault /\ UNCHANGED db
     \/ disp' = [disp EXCEPT ![n].pc = "init"] /\ DbError
  /\ UNCHANGED <<mode, lease, role, group, msg, workerOn, worker, exec>>

\* InitQueue writes waiting over the rows it listed, one by one, whatever
\* happened to them since the list was read.
InitQueue(n, t) ==
  /\ disp[n].pc = "init"
  /\ t \in disp[n].todo
  /\ LET d == [disp EXCEPT ![n].todo = @ \ {t}] IN
     \/ Put(t, "waiting") /\ Supersede(t, d) /\ NoFault
     \/ DbError /\ disp' = d /\ UNCHANGED msg
  /\ UNCHANGED <<mode, lease, role, group, workerOn, worker, exec>>

\* The rest of Start: the errgroup and the limiter, then the poll loop.
Start(n) ==
  /\ disp[n].pc = "init"
  /\ disp[n].todo = {}
  /\ disp' = [disp EXCEPT ![n].pc = "idle"]
  /\ group' = [group EXCEPT ![n] = "open"]
  /\ UNCHANGED <<mode, db, lease, role, msg, workerOn, worker, exec, faults>>

\* A tick of the poll: list the waiting rows.  (The order of the list,
\* createTime, is left open.)
WaitingTasks(n) ==
  /\ disp[n].pc = "idle"
  /\ \E t \in Task : db[t] = "waiting"
  /\ disp' = [disp EXCEPT ![n].pc = "batch",
                          ![n].todo = {t \in Task : db[t] = "waiting"}]
  /\ UNCHANGED <<mode, db, lease, role, group, msg, workerOn, worker, exec, faults>>

\* The last listed row is done: back to the ticker.
EndOfBatch(n) ==
  /\ disp[n].pc = "batch"
  /\ disp[n].todo = {}
  /\ disp' = [disp EXCEPT ![n].pc = "idle"]
  /\ UNCHANGED <<mode, db, lease, role, group, msg, workerOn, worker, exec, faults>>

\* Seeded fault: a failed swap ends the poll loop.
ClaimReturns(n, t) ==
  /\ disp[n].pc = "batch"
  /\ t \in disp[n].todo
  /\ LET rest == disp[n].todo \ {t} IN
     \/ /\ CompareAndSwap(t, "waiting", "queued")
        /\ disp' = [disp EXCEPT ![n] = [pc |-> "claimed", todo |-> rest,
                                       task |-> t, fresh |-> TRUE]]
        /\ NoFault
     \/ DbError /\ disp' = [disp EXCEPT ![n] = NoDisp]
  /\ UNCHANGED <<mode, lease, role, group, msg, workerOn, worker, exec>>

\* claimAndProcessTask, first half: the swap waiting -> queued.  A lost reply
\* leaves the row queued and the dispatcher without the claim.
Claim(n, t) ==
  /\ disp[n].pc = "batch"
  /\ t \in disp[n].todo
  /\ LET rest == disp[n].todo \ {t}
         skip == [disp EXCEPT ![n].todo = rest] IN
     \/ /\ CompareAndSwap(t, "waiting", "queued")
        /\ \/ /\ disp' = [disp EXCEPT ![n] = [pc |-> "claimed", todo |-> rest,
                                             task |-> t, fresh |-> TRUE]]
              /\ NoFault
           \/ disp' = skip /\ Happens("db")
     \/ db[t] # "waiting" /\ UNCHANGED db /\ disp' = skip /\ NoFault
     \/ DbError /\ disp' = skip
  /\ UNCHANGED <<mode, lease, role, group, msg, workerOn, worker, exec>>

\* The Dispatcher's processor: XADD.  On an error the row is to be reverted,
\* though the entry may have been added before the reply was lost.
Enqueue(n) ==
  /\ mode # "local"
  /\ disp[n].pc = "claimed"
  /\ LET added(m) ==
           /\ msg[m].st = "free"
           /\ msg' = [msg EXCEPT ![m] = [st |-> "new", task |-> disp[n].task,
                                        fresh |-> disp[n].fresh]]
         sent   == [disp EXCEPT ![n] = [@ EXCEPT !.pc = "batch", !.task = NoTask,
                                                 !.fresh = FALSE]]
         failed == [disp EXCEPT ![n] = [@ EXCEPT !.pc = "revert", !.fresh = FALSE]] IN
     \/ (\E m \in Msg : added(m)) /\ disp' = sent /\ NoFault
     \/ (\E m \in Msg : added(m)) /\ disp' = failed /\ Happens("queue")
     \/ UNCHANGED msg /\ disp' = failed /\ Happens("queue")
  /\ UNCHANGED <<mode, db, lease, role, group, workerOn, worker, exec>>

\* Seeded fault: a failed processor is logged and the row left as it is.
RevertForgotten(n) ==
  /\ disp[n].pc = "revert"
  /\ disp' = [disp EXCEPT ![n] = [@ EXCEPT !.pc = "batch", !.task = NoTask,
                                           !.fresh = FALSE]]
  /\ UNCHANGED <<mode, db, lease, role, group, msg, workerOn, worker, exec, faults>>

\* claimAndProcessTask, second half: the processor failed, swap back.
Revert(n) ==
  /\ disp[n].pc = "revert"
  /\ LET t == disp[n].task
         d == [disp EXCEPT ![n] = [@ EXCEPT !.pc = "batch", !.task = NoTask,
                                            !.fresh = FALSE]] IN
     \/ CompareAndSwap(t, "queued", "waiting") /\ Supersede(t, d) /\ NoFault
     \/ db[t] # "queued" /\ UNCHANGED <<db, msg>> /\ disp' = d /\ NoFault
     \/ DbError /\ UNCHANGED msg /\ disp' = d
  /\ UNCHANGED <<mode, lease, role, group, workerOn, worker, exec>>

-----------------------------------------------------------------------------
(***************************************************************************)
(* runWorkflowTask: take a slot of the limiter and start a controller.     *)
(* Before Start, and on a process that is not the leader, there is neither *)
(* limiter nor group.  A cancelled group fails Acquire: nothing is started *)
(* and nobody is told.                                                     *)
(***************************************************************************)
Holding(n) == {e \in Exec : exec[e].node = n /\ exec[e].grouped}

runWorkflowTask(n, t) ==
  \/ /\ group[n] # "cancelled"
     /\ group[n] = "open" => Cardinality(Holding(n)) < MaxWorkflows
     /\ \E e \in Exec :
          /\ exec[e].pc = "idle"
          /\ exec' = [exec EXCEPT ![e] = [pc |-> "spawned", task |-> t, node |-> n,
                                         grouped |-> group[n] = "open"]]
  \/ group[n] = "cancelled" /\ UNCHANGED exec

\* WorkflowTaskSender's processor is updateQueueAndRunTask itself.
LocalQueued(n) ==
  /\ mode = "local"
  /\ disp[n].pc = "claimed"
  /\ \/ /\ Put(disp[n].task, "queued") /\ NoFault
        /\ disp' = [disp EXCEPT ![n].pc = "acquire"]
     \/ DbError /\ disp' = [disp EXCEPT ![n].pc = "revert"]
  /\ UNCHANGED <<mode, lease, role, group, msg, workerOn, worker, exec>>

LocalRun(n) ==
  /\ disp[n].pc = "acquire"
  /\ runWorkflowTask(n, disp[n].task)
  /\ disp' = [disp EXCEPT ![n] = [@ EXCEPT !.pc = "batch", !.task = NoTask,
                                           !.fresh = FALSE]]
  /\ UNCHANGED <<mode, db, lease, role, group, msg, workerOn, worker, faults>>

-----------------------------------------------------------------------------
(***************************************************************************)
(* The worker: StartWorker.                                                *)
(***************************************************************************)
InBatch(m) == \E n \in Node : m \in worker[n].todo \cup worker[n].done

\* The worker receives a batch, of entries nobody read yet or of entries that
\* were pending for longer than the idle time.
Receive(n, batch) ==
  /\ workerOn[n]
  /\ worker[n].pc = "idle"
  /\ batch # {}
  /\ Cardinality(batch) <= ReadCount
  /\ worker' = [worker EXCEPT ![n] = [NoWork EXCEPT !.pc = "batch", !.todo = batch]]
  /\ UNCHANGED <<mode, db, lease, role, disp, group, workerOn, exec>>

ReadGroup(n) ==
  \E batch \in SUBSET {m \in Msg : msg[m].st = "new"} :
    /\ Receive(n, batch) /\ NoFault
    /\ msg' = [m \in Msg |-> IF m \in batch THEN [msg[m] EXCEPT !.st = "pending"]
                                           ELSE msg[m]]

\* Seeded fault: nothing is ever claimed.
AutoClaimNothing(n) == FALSE /\ UNCHANGED vars

AutoClaim(n) ==
  \E batch \in SUBSET {m \in Msg : msg[m].st = "pending"} :
    /\ Receive(n, batch) /\ UNCHANGED msg
    /\ IF \E m \in batch : InBatch(m) THEN Happens("slow") ELSE NoFault

\* processDispatchMessage up to the write of updateQueueAndRunTask: load the
\* row, write queued over whatever it holds.  If either call fails (the worker
\* context may be cancelled) the message is done all the same.
processDispatchMessage(n, m) ==
  /\ worker[n].pc = "batch"
  /\ m \in worker[n].todo
  /\ LET w == [worker[n] EXCEPT !.todo = @ \ {m}, !.done = @ \cup {m}] IN
     \/ /\ workerOn[n]
        /\ Put(msg[m].task, "queued") /\ NoFault
        /\ worker' = [worker EXCEPT ![n] = [w EXCEPT !.pc = "acquire",
                                                   !.cur = msg[m].task]]
     \/ /\ DbError \/ (~workerOn[n] /\ UNCHANGED db /\ NoFault)
        /\ worker' = [worker EXCEPT ![n] = w]
  /\ UNCHANGED <<mode, lease, role, disp, group, msg, workerOn, exec>>

\* The rest of processDispatchMessage: the controller is started, not awaited.
WorkerRun(n) ==
  /\ worker[n].pc = "acquire"
  /\ runWorkflowTask(n, worker[n].cur)
  /\ worker' = [worker EXCEPT ![n] = [@ EXCEPT !.pc = "batch", !.cur = NoTask]]
  /\ UNCHANGED <<mode, db, lease, role, disp, group, msg, workerOn, faults>>

\* Seeded fault: the entries are not acknowledged.
ackDispatchMessagesNot(n) ==
  /\ worker[n].pc = "batch"
  /\ worker[n].todo = {}
  /\ worker' = [worker EXCEPT ![n] = NoWork]
  /\ UNCHANGED <<mode, db, lease, role, disp, group, msg, workerOn, exec, faults>>

\* ackDispatchMessages: the whole batch in one XACK; when it fails the entries
\* stay pending and will be claimed again.
ackDispatchMessages(n) ==
  /\ worker[n].pc = "batch"
  /\ worker[n].todo = {}
  /\ \/ /\ workerOn[n]
        /\ msg' = [m \in Msg |-> IF m \in worker[n].done
                                 THEN [msg[m] EXCEPT !.st = "acked"] ELSE msg[m]]
        /\ NoFault
     \/ UNCHANGED msg /\ (Happens("queue") \/ (~workerOn[n] /\ NoFault))
  /\ worker' = [worker EXCEPT ![n] = NoWork]
  /\ UNCHANGED <<mode, db, lease, role, disp, group, workerOn, exec>>

-----------------------------------------------------------------------------
(***************************************************************************)
(* The controller: WorkflowCtl.Run as its row sees it.                     *)
(***************************************************************************)
\* The context the controller runs with: the group's, or the worker's.
CtxLive(e) == IF exec[e].grouped THEN group[exec[e].node] = "open"
                                 ELSE workerOn[exec[e].node]

\* The controller's copy of the row is written, or the call fails and the
\* error is only logged.
ack(e, status) ==
  \/ CtxLive(e) /\ Put(exec[e].task, status) /\ NoFault
  \/ ~CtxLive(e) /\ UNCHANGED db /\ NoFault
  \/ DbError

\* Run sets running.
RunStart(e) ==
  /\ exec[e].pc = "spawned"
  /\ ack(e, "running")
  /\ exec' = [exec EXCEPT ![e].pc = "running"]
  /\ UNCHANGED <<mode, lease, role, disp, group, msg, workerOn, worker>>

\* A job starts or ends: runJob and the job controllers call ack.
JobAck(e) ==
  /\ exec[e].pc = "running"
  /\ ack(e, "running")
  /\ UNCHANGED <<mode, lease, role, disp, group, msg, workerOn, worker, exec>>

\* A job did not succeed: the status becomes failed in memory, and the deferred
\* ack finds it terminal (isWorkflowTerminal) and writes nothing.  The
\* goroutine frees its slot and its error cancels the errgroup's context.
RunFail(e) ==
  /\ exec[e].pc = "running"
  /\ exec' = [exec EXCEPT ![e] = NoExec]
  /\ group' = IF exec[e].grouped THEN [group EXCEPT ![exec[e].node] = "cancelled"]
                                 ELSE group
  /\ UNCHANGED <<mode, db, lease, role, disp, msg, workerOn, worker, faults>>

\* Every job succeeded: updateWorkflowStatus writes completed ...
RunComplete(e) ==
  /\ exec[e].pc = "running"
  /\ ack(e, "completed")
  /\ exec' = [exec EXCEPT ![e].pc = "completed"]
  /\ UNCHANGED <<mode, lease, role, disp, group, msg, workerOn, worker>>

\* ... and the deferred ack writes it again.
RunReturn(e) ==
  /\ exec[e].pc = "completed"
  /\ ack(e, "completed")
  /\ exec' = [exec EXCEPT ![e] = NoExec]
  /\ UNCHANGED <<mode, lease, role, disp, group, msg, workerOn, worker>>

-----------------------------------------------------------------------------
Api == \E t \in Task : enqueueWorkflowTask(t) \/ cancelWorkflowTask(t)

Environment == LeaseExpires \/ \E n \in Node : Crash(n) \/ Restart(n)

Roles == \E n \in Node : onStartedLeading(n) \/ startWorkers(n) \/ stopWorkers(n)

Leader(n) ==
  \/ \E t \in Task : InitQueue(n, t) \/ Claim(n, t)
  \/ TaskRunning(n) \/ Start(n) \/ WaitingTasks(n) \/ EndOfBatch(n)
  \/ Enqueue(n) \/ Revert(n) \/ LocalQueued(n) \/ LocalRun(n)

Worker(n) ==
  \/ ReadGroup(n) \/ AutoClaim(n) \/ WorkerRun(n) \/ ackDispatchMessages(n)
  \/ \E m \in Msg : processDispatchMessage(n, m)

Controller(e) ==
  RunStart(e) \/ JobAck(e) \/ RunFail(e) \/ RunComplete(e) \/ RunReturn(e)

Next ==
  \/ Api \/ Environment \/ Roles
  \/ \E n \in Node : Leader(n) \/ Worker(n)
  \/ \E e \in Exec : Controller(e)

Spec == Init /\ [][Next]_vars

\* The loops of a live process keep running; a controller ends because each of
\* its jobs has a timeout.  Nothing is assumed of the API, of crashes, of leases
\* and of faults.
Fairness ==
  /\ \A n \in Node :
       /\ WF_vars(onStartedLeading(n)) /\ WF_vars(startWorkers(n))
       /\ WF_vars(stopWorkers(n)) /\ WF_vars(Leader(n)) /\ WF_vars(Worker(n))
  /\ \A e \in Exec :
       /\ WF_vars(RunStart(e)) /\ WF_vars(RunFail(e) \/ RunComplete(e))
       /\ WF_vars(RunReturn(e))

FairSpec == Spec /\ Fairness

-----------------------------------------------------------------------------
(***************************************************************************)
(* Properties.                                                             *)
(***************************************************************************)
\* A claim, a message, made since the row of t last became waiting.
FreshClaim(n, t) == disp[n].task = t /\ disp[n].fresh
FreshMsg(m, t) == msg[m].task = t /\ msg[m].fresh

\* Each time a row becomes waiting it is dispatched at most once: at most one
\* claim or message stems from the present period, whatever leaders overlap
\* and whatever calls fail (the swap of claimAndProcessTask).
OneDispatchPerWait ==
  \A t \in Task :
    /\ \A n1, n2 \in Node : FreshClaim(n1, t) /\ FreshClaim(n2, t) => n1 = n2
    /\ \A m1, m2 \in Msg : FreshMsg(m1, t) /\ FreshMsg(m2, t) => m1 = m2
    /\ \A n \in Node, m \in Msg : ~(FreshClaim(n, t) /\ FreshMsg(m, t))

\* Somebody still has to do something about t.
Carried(t) ==
  \/ \E n \in Node : disp[n].task = t
  \/ \E n \in Node : worker[n].cur = t
  \/ \E m \in Msg : msg[m].task = t /\ msg[m].st \in {"new", "pending"}
  \/ \E e \in Exec : exec[e].task = t

\* As long as the first leader leads, no process crashed and no database call
\* failed, a queued row has not been forgotten: a dispatcher, a message that is
\* not acknowledged, a worker or a controller carries it, lost replies and
\* failed acknowledgements of the queue included.  The one exception is a task
\* group cancelled by the failure of another workflow.
QueuedIsCarried ==
  /\ faults["term"] <= 1
  /\ faults["crash"] = 0
  /\ faults["db"] = 0
  /\ \A n \in Node : group[n] # "cancelled"
  => \A t \in Task : db[t] = "queued" => Carried(t)

\* A task is run by one controller at a time as long as the first leader leads,
\* the queue reports no false error and no live worker exceeds AutoClaim's idle
\* time; crashes of workers and failed database calls do not matter.
OneControllerPerTask ==
  /\ faults["term"] <= 1
  /\ faults["queue"] = 0
  /\ faults["slow"] = 0
  => \A e1, e2 \in Exec :
       exec[e1].task = exec[e2].task /\ exec[e1].pc # "idle" /\ exec[e2].pc # "idle"
       => e1 = e2

\* While some process keeps the lease and lives, a waiting row does not wait for
\* ever: the poll of the Dispatcher, or of the local sender, gets to it even
\* though every call it makes may fail and every slot may be taken for a time.
WaitingIsClaimed ==
  <>[](\E n \in Node : lease = n /\ role[n] = "leader")
    => \A t \in Task : db[t] = "waiting" ~> db[t] # "waiting"

\* While some worker keeps running, every published message is acknowledged in
\* the end: by its reader, or after a crash or a failed XACK by AutoClaim.
MessageIsSettled ==
  <>[](\E n \in Node : workerOn[n])
    => \A m \in Msg : msg[m].st = "new" ~> msg[m].st = "acked"

-----------------------------------------------------------------------------
(***************************************************************************)
(* What the documentation says and the code does not do.                   *)
(***************************************************************************)
\* A controller whose job failed leaves its row failed.
FailureIsStored ==
  [][\A e \in Exec : RunFail(e) => db'[exec[e].task] = "failed"]_vars
=============================================================================
