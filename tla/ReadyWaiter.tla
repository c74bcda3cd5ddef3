----------------------------- MODULE ReadyWaiter -----------------------------
(***************************************************************************)
(* How the readiness of a workload reaches the jobs that wait for it and   *)
(* the component's row (pkg/apiserver/infrastructure/informer, wait of the *)
(* Deployment and StatefulSet controllers, syncComponentStatus).           *)
(*                                                                         *)
(* The workload is one Deployment or StatefulSet: both are handled alike.  *)
(* Every process has a waiter; the informer that feeds it is started by    *)
(* onStartedLeading, that is, in the leader only.  The waiters of a        *)
(* process are a map from the workload to one entry.                       *)
(*                                                                         *)
(* Time is counted in intervals of half the resync period.                 *)
(***************************************************************************)
EXTENDS Integers, Sequences

CONSTANTS
  Replica, Leader,  \* the processes, and the one that leads
  Wait,             \* calls of waitForResource
  Absent,           \* there is no such workload, no entry, no sync
  Pods,             \* bound: replicas of the workload
  Timeout,          \* intervals a wait lasts at most
  MaxSyncs,         \* bound: goroutines of statusSyncFunc at a time
  MaxChanges,       \* bound: changes of the workload
  MaxErrors         \* bound: failing database calls

Resync == 2

Workload == [replicas : 0 .. Pods, ready : 0 .. Pods]

\* A wait lasts twenty minutes (DeployTimeout), a resync period thirty seconds.
ASSUME WaiterAssumption ==
  /\ Leader \in Replica
  /\ Pods \in Nat \ {0}
  /\ Timeout \in Nat /\ Timeout > Resync
  /\ MaxSyncs \in Nat \ {0}
  /\ MaxChanges \in Nat /\ MaxErrors \in Nat
  /\ Absent \notin Wait \cup Workload

Sync == 1 .. MaxSyncs

VARIABLES
  res,      \* the workload in the cluster
  steady,   \* history: intervals for which it has been ready, and the informer on
  informer, \* Manager: "off", "on", or "failed" when Start returned an error
  events,   \* what the informer has not delivered yet
  cached,   \* what it delivered last
  tick,     \* intervals since the last resync; Resync when one is due
  entry,    \* the waiters of each process
  home,     \* where each wait takes place
  left,     \* intervals until its time-out
  outcome,  \* what it has come to
  woken,    \* the waits whose ReadyChan is closed
  failing,  \* the waits whose ErrorChan has an error
  alone,    \* history: the waits that never shared their entry
  missed,   \* history: the waits that saw the workload deleted an interval before their end
  row,      \* the component's row
  sync,     \* the running goroutines of statusSyncFunc
  changes, errors

wvars == <<entry, home, left, outcome, woken, failing, alone>>
vars == <<res, steady, informer, events, cached, tick, wvars, missed, row, sync, changes,
          errors>>

-----------------------------------------------------------------------------
\* ExtractDeploymentStatus and ExtractStatefulSetStatus.
Ready(w) == w.replicas > 0 /\ w.replicas = w.ready

\* Seeded fault: a workload without replicas has no status.
StatusOfUnset(w) ==
  CASE Ready(w) -> "running"
    [] ~Ready(w) /\ (w.ready > 0 \/ w.replicas > 0) -> "pending"
    [] OTHER -> "none"

\* syncStatusToDB: the status of the component.
StatusOf(w) ==
  CASE Ready(w) -> "running"
    [] ~Ready(w) /\ (w.ready > 0 \/ w.replicas > 0) -> "pending"
    [] OTHER -> "failed"

\* What OnDeploymentDelete reports.
Deleted == [replicas |-> 0, ready |-> 0]

Update == [status : {"running", "pending", "failed"}, ready : 0 .. Pods,
           phase : {"list", "put"}]

TypeOK ==
  /\ res \in Workload \cup {Absent}
  /\ steady \in 0 .. Resync + 1
  /\ informer \in {"off", "on", "failed"}
  /\ events \in Seq(Workload \cup {Absent})
  /\ cached \in Workload \cup {Absent}
  /\ tick \in 0 .. Resync
  /\ entry \in [Replica -> Wait \cup {Absent}]
  /\ home \in [Wait -> Replica]
  /\ left \in [Wait -> 0 .. Timeout]
  /\ outcome \in [Wait -> {"none", "waiting", "ready", "failed", "cancelled", "timeout"}]
  /\ woken \subseteq Wait /\ failing \subseteq Wait
  /\ alone \subseteq Wait /\ missed \subseteq Wait
  /\ row \in [status : {"none", "running", "pending", "failed"}, ready : 0 .. Pods]
  /\ sync \in [Sync -> Update \cup {Absent}]
  /\ changes \in 0 .. MaxChanges /\ errors \in 0 .. MaxErrors

Init ==
  /\ res = Absent
  /\ steady = 0
  /\ informer = "off"
  /\ events = <<>>
  /\ cached = Absent
  /\ tick = 0
  /\ entry = [p \in Replica |-> Absent]
  /\ home \in [Wait -> Replica]
  /\ left = [w \in Wait |-> Timeout]
  /\ outcome = [w \in Wait |-> "none"]
  /\ woken = {} /\ failing = {}
  /\ alone = Wait /\ missed = {}
  /\ row = [status |-> "none", ready |-> 0]
  /\ sync = [s \in Sync |-> Absent]
  /\ changes = 0 /\ errors = 0

-----------------------------------------------------------------------------
(***************************************************************************)
(* The cluster and the informer.                                           *)
(***************************************************************************)
\* The workload is created, scaled, updated or deleted, and its pods come and go.
Change ==
  /\ changes < MaxChanges /\ changes' = changes + 1
  /\ \/ res = Absent /\ \E n \in 0 .. Pods : res' = [replicas |-> n, ready |-> 0]
     \/ res # Absent /\ \E w \in Workload : w # res /\ res' = w
     \/ res # Absent /\ res' = Absent
  /\ steady' = 0
  /\ events' = IF informer = "on" THEN Append(events, res') ELSE events
  /\ missed' = IF res' = Absent /\ informer = "on"
               THEN missed \cup {w \in Wait : outcome[w] = "waiting" /\ left[w] > 0}
               ELSE missed
  /\ UNCHANGED <<informer, cached, tick, wvars, row, sync, errors>>

\* Manager.Start in onStartedLeading: it lists, or fails for good.
Start ==
  /\ informer = "off"
  /\ \/ /\ informer' = "on"
        /\ events' = IF res = Absent THEN <<>> ELSE <<res>>
        /\ steady' = 0
     \/ /\ informer' = "failed"
        /\ UNCHANGED <<events, steady>>
  /\ UNCHANGED <<res, cached, tick, wvars, missed, row, sync, changes,
                 errors>>

\* Seeded fault: an update that repeats the last one is not stored.
syncStatusToDBChanged(w) ==
  IF w = cached THEN UNCHANGED sync
  ELSE \E s \in Sync :
    /\ sync[s] = Absent /\ \A t \in 1 .. s - 1 : sync[t] # Absent
    /\ sync' = [sync EXCEPT ![s] =
         [status |-> StatusOf(w), ready |-> w.ready, phase |-> "list"]]

\* syncStatusToDB starts a goroutine.
syncStatusToDB(w) ==
  \E s \in Sync :
    /\ sync[s] = Absent /\ \A t \in 1 .. s - 1 : sync[t] # Absent
    /\ sync' = [sync EXCEPT ![s] =
         [status |-> StatusOf(w), ready |-> w.ready, phase |-> "list"]]

\* The entry of the leader's waiter, unless it is closed.
Registered == {w \in Wait : entry[Leader] = w /\ w \notin woken \cup failing}

\* OnDeploymentDelete and OnStatefulSetDelete.
OnDeploymentDelete ==
  /\ syncStatusToDB(Deleted)
  /\ failing' = failing \cup Registered

\* OnDeploymentAdd, OnDeploymentUpdate and those of StatefulSets.
OnDeploymentUpdate(w) ==
  /\ syncStatusToDB(w)
  /\ woken' = IF Ready(w) THEN woken \cup Registered ELSE woken

\* The informer calls the handler of its next event.
Deliver ==
  /\ events # <<>>
  /\ events' = Tail(events)
  /\ cached' = Head(events)
  /\ IF cached' = Absent
     THEN IF cached = Absent THEN UNCHANGED <<woken, failing, sync>>
          ELSE OnDeploymentDelete /\ UNCHANGED woken
     ELSE OnDeploymentUpdate(cached') /\ UNCHANGED failing
  /\ UNCHANGED <<res, steady, informer, tick, entry, home, left, outcome, alone, missed, row,
                 changes, errors>>

\* Seeded fault: the cache is not replayed.
ResyncFiresNot ==
  /\ informer = "on" /\ tick = Resync
  /\ tick' = 0
  /\ UNCHANGED <<res, steady, informer, events, cached, wvars, missed, row, sync, changes, errors>>

\* The resync calls the update handler with what is cached.
ResyncFires ==
  /\ informer = "on" /\ tick = Resync /\ events = <<>>
  /\ tick' = 0
  /\ IF cached = Absent THEN UNCHANGED <<woken, sync>> ELSE OnDeploymentUpdate(cached)
  /\ UNCHANGED <<res, steady, informer, events, cached, entry, home, left, outcome, failing,
                 alone, missed, row, changes, errors>>

-----------------------------------------------------------------------------
(***************************************************************************)
(* waitForResource.                                                        *)
(***************************************************************************)
\* The entry is stored over that of another wait for the same workload.
Register(w) ==
  LET others == {v \in Wait : outcome[v] = "waiting" /\ home[v] = home[w]}
  IN  /\ outcome[w] = "none"
      /\ outcome' = [outcome EXCEPT ![w] = "waiting"]
      /\ entry' = [entry EXCEPT ![home[w]] = w]
      /\ alone' = IF others = {} THEN alone ELSE alone \ (others \cup {w})
      /\ UNCHANGED <<res, steady, informer, events, cached, tick, home, left, woken, failing,
                     missed, row, sync, changes, errors>>

\* The wait returns; the deferred Delete removes whatever entry there is.
Return(w, what) ==
  /\ outcome[w] = "waiting"
  /\ outcome' = [outcome EXCEPT ![w] = what]
  /\ entry' = [entry EXCEPT ![home[w]] = Absent]
  /\ left' = [left EXCEPT ![w] = Timeout]
  /\ woken' = woken \ {w} /\ failing' = failing \ {w}
  /\ alone' = alone \ {w} /\ missed' = missed \ {w}
  /\ UNCHANGED <<res, steady, informer, events, cached, tick, home, row, sync, changes, errors>>

ReturnReady(w) == w \in woken /\ Return(w, "ready")

ReturnError(w) == w \in failing /\ Return(w, "failed")

ReturnCancelled(w) == Return(w, "cancelled")

ReturnTimeout(w) == left[w] = 0 /\ Return(w, "timeout")

-----------------------------------------------------------------------------
(***************************************************************************)
(* syncComponentStatus.                                                    *)
(***************************************************************************)
\* List: the row is read.
SyncList(s) ==
  /\ sync[s] # Absent /\ sync[s].phase = "list"
  /\ sync' = [sync EXCEPT ![s].phase = "put"]
  /\ UNCHANGED <<res, steady, informer, events, cached, tick, wvars, missed, row, changes, errors>>

\* Put: the row is written, except for zero values (GORM's Updates).  All of the row
\* that was listed is written with it; what this does to the image, the replicas and
\* the Properties is in ApplicationService.
SyncPut(s) ==
  /\ sync[s] # Absent /\ sync[s].phase = "put"
  /\ row' = [status |-> sync[s].status,
             ready |-> IF sync[s].ready = 0 THEN row.ready ELSE sync[s].ready]
  /\ sync' = [sync EXCEPT ![s] = Absent]
  /\ UNCHANGED <<res, steady, informer, events, cached, tick, wvars, missed, changes,
                 errors>>

\* The database fails, or does not answer within five seconds.
SyncFails(s) ==
  /\ sync[s] # Absent
  /\ errors < MaxErrors /\ errors' = errors + 1
  /\ sync' = [sync EXCEPT ![s] = Absent]
  /\ UNCHANGED <<res, steady, informer, events, cached, tick, wvars, missed, row, changes>>

-----------------------------------------------------------------------------
\* An interval ends: events, syncs, resyncs and returns have taken place in it.
Tick ==
  /\ events = <<>>
  /\ informer = "on" => tick < Resync
  /\ \A s \in Sync : sync[s] = Absent
  /\ \A w \in Wait : outcome[w] = "waiting" =>
       left[w] > 0 /\ w \notin woken /\ w \notin failing
  /\ tick' = IF informer = "on" THEN tick + 1 ELSE tick
  /\ left' = [w \in Wait |-> IF outcome[w] = "waiting" THEN left[w] - 1 ELSE left[w]]
  /\ steady' = IF res # Absent /\ Ready(res) /\ steady <= Resync THEN steady + 1 ELSE steady
  /\ UNCHANGED <<res, informer, events, cached, entry, home, outcome, woken, failing, alone,
                 missed, row, sync, changes, errors>>

Next ==
  \/ Change \/ Start \/ Deliver \/ ResyncFires \/ Tick
  \/ \E w \in Wait : \/ Register(w) \/ ReturnReady(w) \/ ReturnError(w)
                     \/ ReturnCancelled(w) \/ ReturnTimeout(w)
  \/ \E s \in Sync : SyncList(s) \/ SyncPut(s) \/ SyncFails(s)

Spec == Init /\ [][Next]_vars

\* Goroutines are scheduled, timers fire and the watch delivers.
FairSpec ==
  /\ Spec
  /\ WF_vars(Tick) /\ WF_vars(Deliver) /\ WF_vars(ResyncFires)
  /\ \A s \in Sync : WF_vars(SyncList(s)) /\ WF_vars(SyncPut(s))
  /\ \A w \in Wait : WF_vars(ReturnReady(w)) /\ WF_vars(ReturnError(w))
                     /\ WF_vars(ReturnTimeout(w))

-----------------------------------------------------------------------------
(***************************************************************************)
(* Properties.                                                             *)
(***************************************************************************)
\* A wait in the process with the running informer that has the workload to
\* itself never times out on a workload that has been ready for a resync period
\* (a wake-up lost before the registration comes again) nor on one that was
\* deleted under it an interval before.  For other processes see ReadyIsSeen.
NoLostWakeup ==
  [][\A w \in Wait :
       outcome[w] = "waiting" /\ outcome'[w] = "timeout"
       /\ home[w] = Leader /\ w \in alone
       => w \notin missed /\ (informer = "on" => steady <= Resync)]_vars

\* When a workload stays as it is, its row comes to say so, though the syncs are
\* unordered and may fail: the resync repeats the last state.  It does not repeat a
\* deletion, so the row of a workload that is gone may keep any status; and the
\* number of ready replicas does not settle, as 0 is never written.
StatusSettles ==
  <>[](res = Absent \/ informer # "on" \/ row.status = StatusOf(res))

-----------------------------------------------------------------------------
(***************************************************************************)
(* What the documents say and the code does not do.                        *)
(***************************************************************************)
\* Without an informer the wait polls, and so it does not time out on a workload
\* that has been ready for long.
ReadyIsSeen ==
  [][\A w \in Wait :
       outcome[w] = "waiting" /\ outcome'[w] = "timeout" /\ w \in alone
       => steady <= Resync]_vars
=============================================================================
