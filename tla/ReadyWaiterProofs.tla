--------------------------- MODULE ReadyWaiterProofs ---------------------------
(***************************************************************************)
(* Proofs about ReadyWaiter, for any processes and waits, any number of    *)
(* changes of the workload and any time-out longer than a resync period.   *)
(***************************************************************************)
EXTENDS ReadyWaiter, TLAPS

(***************************************************************************)
(* Type correctness.                                                       *)
(***************************************************************************)
\* StatusOf gives one of the three statuses of a row.
LEMMA StatusOfType ==
  ASSUME NEW w \in Workload
  PROVE  StatusOf(w) \in {"running", "pending", "failed"}
BY Zenon DEF StatusOf

\* A new goroutine of the status sync is one: only its place changes.
LEMMA SyncStarts ==
  ASSUME NEW w \in Workload, syncStatusToDB(w), sync \in [Sync -> Update \cup {Absent}]
  PROVE  sync' \in [Sync -> Update \cup {Absent}]
<1>1. [status |-> StatusOf(w), ready |-> w.ready, phase |-> "list"] \in Update
  BY StatusOfType DEF Update, Workload
<1>2. QED
  BY <1>1 DEF syncStatusToDB

\* What the handlers of the informer do to the waits and the syncs.
LEMMA HandlerTypes ==
  ASSUME TypeOK, NEW w \in Workload
  PROVE  /\ Deleted \in Workload
         /\ OnDeploymentDelete =>
              failing' \subseteq Wait /\ sync' \in [Sync -> Update \cup {Absent}]
         /\ OnDeploymentUpdate(w) =>
              woken' \subseteq Wait /\ sync' \in [Sync -> Update \cup {Absent}]
<1>1. Deleted \in Workload
  BY WaiterAssumption DEF Deleted, Workload
<1>2. Registered \subseteq Wait
  BY DEF Registered
<1>3. QED
  BY <1>1, <1>2, SyncStarts DEF OnDeploymentDelete, OnDeploymentUpdate, TypeOK

\* Deliver and the resync keep the types.
LEMMA InformerTypes ==
  ASSUME TypeOK, Deliver \/ ResyncFires
  PROVE  TypeOK'
<1>1. CASE Deliver
  <2>1. /\ events' \in Seq(Workload \cup {Absent})
        /\ cached' \in Workload \cup {Absent}
    BY <1>1 DEF Deliver, TypeOK
  <2>2. woken' \subseteq Wait /\ failing' \subseteq Wait
    BY <1>1, <2>1, HandlerTypes DEF Deliver, TypeOK, Registered, OnDeploymentDelete
  <2>3. sync' \in [Sync -> Update \cup {Absent}]
    BY <1>1, <2>1, HandlerTypes DEF Deliver, TypeOK, OnDeploymentDelete
  <2>4. QED
    BY <1>1, <2>1, <2>2, <2>3 DEF Deliver, TypeOK
<1>2. CASE ResyncFires
  <2>1. woken' \subseteq Wait /\ sync' \in [Sync -> Update \cup {Absent}]
    BY <1>2, HandlerTypes DEF ResyncFires, TypeOK
  <2>2. tick' \in 0 .. Resync
    BY <1>2 DEF ResyncFires, Resync
  <2>3. QED
    BY <1>2, <2>1, <2>2 DEF ResyncFires, TypeOK
<1>3. QED
  BY <1>1, <1>2

\* The steps of the waits, of the status sync, of the cluster and of time keep them.
LEMMA NextTypes ==
  ASSUME TypeOK, [Next]_vars
  PROVE  TypeOK'
<1>1. CASE Change
  <2>1. res' \in Workload \cup {Absent}
    BY <1>1, WaiterAssumption DEF Change, Workload
  <2>2. events' \in Seq(Workload \cup {Absent})
    BY <1>1, <2>1 DEF Change, TypeOK
  <2>3. changes' \in 0 .. MaxChanges /\ steady' \in 0 .. Resync + 1
    BY <1>1, WaiterAssumption DEF Change, TypeOK, Resync
  <2>4. missed' \subseteq Wait
    BY <1>1 DEF Change, TypeOK
  <2>5. QED
    BY <1>1, <2>1, <2>2, <2>3, <2>4 DEF Change, TypeOK, wvars
<1>2. CASE Start
  <2>1. \A x \in Workload \cup {Absent} : <<x>> \in Seq(Workload \cup {Absent})
    OBVIOUS
  <2>2. events' \in Seq(Workload \cup {Absent})
    <3>1. events' = events \/ events' = <<>> \/ events' = <<res>>
      BY <1>2, Zenon DEF Start
    <3>2. <<>> \in Seq(Workload \cup {Absent})
      OBVIOUS
    <3>3. res \in Workload \cup {Absent} /\ events \in Seq(Workload \cup {Absent})
      BY DEF TypeOK
    <3>4. QED
      BY <2>1, <3>1, <3>2, <3>3, Zenon
  <2>3. QED
    BY <1>2, <2>2 DEF Start, TypeOK, wvars, Resync
<1>3. CASE Deliver \/ ResyncFires
  BY <1>3, InformerTypes
<1>4. CASE Tick
  <2>1. tick' \in 0 .. Resync /\ steady' \in 0 .. Resync + 1
    BY <1>4 DEF Tick, TypeOK, Resync
  <2>2. left' \in [Wait -> 0 .. Timeout]
    BY <1>4, WaiterAssumption DEF Tick, TypeOK
  <2>3. QED
    BY <1>4, <2>1, <2>2 DEF Tick, TypeOK
<1>5. ASSUME NEW w \in Wait, Register(w)
      PROVE  TypeOK'
  BY <1>5 DEF Register, TypeOK
<1>6. ASSUME NEW w \in Wait, NEW what \in {"ready", "failed", "cancelled", "timeout"},
             Return(w, what)
      PROVE  TypeOK'
  <2>1. left' \in [Wait -> 0 .. Timeout]
    BY <1>6, WaiterAssumption DEF Return, TypeOK
  <2>2. QED
    BY <1>6, <2>1 DEF Return, TypeOK
<1>7. ASSUME NEW s \in Sync, SyncList(s) \/ SyncPut(s) \/ SyncFails(s)
      PROVE  TypeOK'
  <2>0. sync[s] \in Update
    BY <1>7 DEF SyncList, SyncPut, SyncFails, TypeOK
  <2>1. sync' \in [Sync -> Update \cup {Absent}]
    <3>1. [sync[s] EXCEPT !.phase = "put"] \in Update
      BY <2>0 DEF Update
    <3>2. CASE SyncList(s)
      BY <3>1, <3>2 DEF SyncList, TypeOK
    <3>3. CASE SyncPut(s) \/ SyncFails(s)
      BY <3>3 DEF SyncPut, SyncFails, TypeOK
    <3>4. QED
      BY <1>7, <3>2, <3>3
  <2>2. row' \in [status : {"none", "running", "pending", "failed"}, ready : 0 .. Pods]
    BY <1>7, <2>0 DEF SyncList, SyncPut, SyncFails, TypeOK, Update
  <2>3. errors' = errors \/ (errors < MaxErrors /\ errors' = errors + 1)
    BY <1>7, Zenon DEF SyncList, SyncPut, SyncFails
  <2>4. errors' \in 0 .. MaxErrors
    BY <2>3, WaiterAssumption DEF TypeOK
  <2>5. QED
    BY <1>7, <2>1, <2>2, <2>4 DEF SyncList, SyncPut, SyncFails, TypeOK, wvars
<1>8. CASE UNCHANGED vars
  BY <1>8 DEF vars, wvars, TypeOK
<1>9. QED
  BY <1>1, <1>2, <1>3, <1>4, <1>5, <1>6, <1>7, <1>8
  DEF Next, ReturnReady, ReturnError, ReturnCancelled, ReturnTimeout

\* The initial states have the types.
LEMMA InitTypes ==
  ASSUME Init
  PROVE  TypeOK
BY WaiterAssumption DEF Init, TypeOK, Resync

\* Informer, waits and status sync keep their types: never more ready pods than the
\* bound, and every update under way has one of the statuses of the row.
THEOREM WaiterTypeCorrect == Spec => []TypeOK
<1>1. Init => TypeOK
  BY InitTypes
<1>2. TypeOK /\ [Next]_vars => TypeOK'
  BY NextTypes
<1>3. QED
  BY <1>1, <1>2, PTL DEF Spec

-----------------------------------------------------------------------------
(***************************************************************************)
(* NoLostWakeup.  A wait must not reach its time-out unheard, so the       *)
(* invariant says what is still on its way to it: the informer has the     *)
(* workload's last state cached or at the end of its events, an entry that *)
(* was never shared is in place, and as long as the wait is not woken, it  *)
(* or the steady state of the workload is no older than the last resync.   *)
(***************************************************************************)
\* What was delivered and what is to come ends with the workload as it is, and a
\* deletion follows something that can be deleted.
Feed ==
  /\ informer # "on" => events = <<>> /\ cached = Absent
  /\ informer = "on" /\ events = <<>> => cached = res
  /\ informer = "on" /\ events # <<>> => events[Len(events)] = res
  /\ events # <<>> /\ cached = Absent => events[1] # Absent
  /\ \A i \in 2 .. Len(events) : events[i] = Absent => events[i - 1] # Absent

\* A workload that is steadily ready has been seen.
Settled ==
  informer = "on" /\ steady > 0 => events = <<>> /\ res # Absent /\ Ready(res)

\* A wait begins with its whole time.
Unused == \A w \in Wait : outcome[w] = "none" => left[w] = Timeout

\* The entry of a wait that has never shared it is there.
Own ==
  \A w \in Wait : outcome[w] = "waiting" /\ w \in alone =>
    /\ entry[home[w]] = w
    /\ \A v \in Wait : outcome[v] = "waiting" /\ home[v] = home[w] => v = w

\* The wait NoLostWakeup is about.
Sole(w) == outcome[w] = "waiting" /\ home[w] = Leader /\ w \in alone

\* The steady state or the wait is no older than the last resync, or the wait has been
\* woken, and neither was older than a resync period then.
InTime ==
  \A w \in Wait : Sole(w) /\ informer = "on" =>
    \/ steady <= tick
    \/ Timeout - left[w] <= tick
    \/ w \in woken \cup failing /\ (steady <= Resync \/ Timeout - left[w] <= Resync)

\* A deletion has reached the wait or is on its way, and its time is not over.
Told ==
  \A w \in Wait : w \in missed =>
    /\ outcome[w] = "waiting" /\ informer = "on"
    /\ Sole(w) => /\ left[w] > 0
                  /\ \/ w \in woken \cup failing
                     \/ \E i \in DOMAIN events : events[i] = Absent

IInv == TypeOK /\ Feed /\ Settled /\ Unused /\ Own /\ InTime /\ Told

\* Nothing but the cluster and the informer changes what is on its way.
LEMMA OnlyTheFeed ==
  ASSUME [Next]_vars, ~Change, ~Start, ~Deliver
  PROVE  UNCHANGED <<res, informer, events, cached>>
BY Zenon DEF Next, vars, wvars, Tick, ResyncFires, Register, Return, ReturnReady, ReturnError,
   ReturnCancelled, ReturnTimeout, SyncList, SyncPut, SyncFails

\* A change is put at the end of the events, and the workload is never deleted twice.
LEMMA FeedKept ==
  ASSUME IInv, [Next]_vars
  PROVE  Feed'
<1> USE DEF IInv, Feed
<1>1. CASE Change
  <2>1. /\ events \in Seq(Workload \cup {Absent})
        /\ res' \in Workload \cup {Absent}
        /\ res = Absent => res' # Absent
    BY <1>1, WaiterAssumption DEF Change, TypeOK, Workload
  <2>2. CASE informer = "on"
    <3>1. /\ Len(events') = Len(events) + 1 /\ events' # <<>>
          /\ \A i \in 1 .. Len(events) : events'[i] = events[i]
          /\ events'[Len(events) + 1] = res'
          /\ informer' = "on" /\ cached' = cached
      BY <1>1, <2>1, <2>2 DEF Change
    <3>2. Len(events) \in Nat
      BY <2>1
    <3>3. events = <<>> <=> Len(events) = 0
      BY <2>1
    <3>4. events' # <<>> /\ cached' = Absent => events'[1] # Absent
      BY <2>1, <2>2, <3>1, <3>2, <3>3
    <3>5. ASSUME NEW i \in 2 .. Len(events'), events'[i] = Absent
          PROVE  events'[i - 1] # Absent
      BY <2>1, <2>2, <3>1, <3>2, <3>3, <3>5
    <3>6. QED
      BY <3>1, <3>4, <3>5
  <2>3. CASE informer # "on"
    BY <1>1, <2>3 DEF Change
  <2>4. QED
    BY <2>2, <2>3
<1>2. CASE Start
  <2>1. events = <<>> /\ informer = "off" /\ UNCHANGED <<res, cached>>
    BY <1>2 DEF Start
  <2>2. CASE informer' = "failed"
    BY <1>2, <2>1, <2>2 DEF Start
  <2>3. CASE informer' = "on" /\ res = Absent
    BY <1>2, <2>1, <2>3 DEF Start
  <2>4. CASE informer' = "on" /\ res # Absent
    <3>1. /\ events' = <<res>> /\ events' # <<>>
          /\ Len(events') = 1 /\ events'[1] = res
      BY <1>2, <2>4 DEF Start
    <3>2. QED
      BY <2>1, <2>4, <3>1
  <2>5. QED
    BY <1>2, <2>2, <2>3, <2>4 DEF Start
<1>3. CASE Deliver
  <2>1. events \in Seq(Workload \cup {Absent}) /\ events # <<>>
    BY <1>3 DEF Deliver, TypeOK
  <2>2. /\ Len(events') = Len(events) - 1
        /\ \A i \in 1 .. Len(events') : events'[i] = events[i + 1]
        /\ cached' = events[1]
        /\ UNCHANGED <<res, informer>>
    BY <1>3, <2>1 DEF Deliver
  <2> QED
    BY <2>1, <2>2
<1>4. CASE ~Change /\ ~Start /\ ~Deliver
  BY <1>4, OnlyTheFeed
<1>5. QED
  BY <1>1, <1>2, <1>3, <1>4

\* The waits change when one of them begins or returns; no other step touches them.
LEMMA OnlyTheWaits ==
  ASSUME [Next]_vars
  PROVE  \/ UNCHANGED <<entry, home, outcome, alone>> /\ (UNCHANGED left \/ Tick)
         \/ \E w \in Wait : Register(w)
         \/ \E w \in Wait, what \in {"ready", "failed", "cancelled", "timeout"} :
              Return(w, what)
BY Zenon DEF Next, vars, wvars, Change, Start, Deliver, Tick, ResyncFires, ReturnReady,
   ReturnError, ReturnCancelled, ReturnTimeout, SyncList, SyncPut, SyncFails

\* The time of a wait runs only while it waits.
LEMMA UnusedKept ==
  ASSUME IInv, [Next]_vars
  PROVE  Unused'
<1> USE DEF IInv, TypeOK, Unused
<1>1. CASE UNCHANGED <<entry, home, outcome, alone>> /\ UNCHANGED left
  BY <1>1
<1>2. CASE UNCHANGED <<entry, home, outcome, alone>> /\ Tick
  BY <1>2 DEF Tick
<1>3. ASSUME NEW w \in Wait, Register(w)
      PROVE  Unused'
  BY <1>3 DEF Register
<1>4. ASSUME NEW w \in Wait, NEW what \in {"ready", "failed", "cancelled", "timeout"},
             Return(w, what)
      PROVE  Unused'
  BY <1>4 DEF Return
<1>5. QED
  BY <1>1, <1>2, <1>3, <1>4, OnlyTheWaits

\* A registration over the entry of a wait, or of a wait that is under way, ends both
\* being alone, and only a wait of the same process deletes the entry.
LEMMA OwnKept ==
  ASSUME IInv, [Next]_vars
  PROVE  Own'
<1> USE DEF IInv, TypeOK, Own
<1>1. CASE UNCHANGED <<entry, home, outcome, alone>>
  BY <1>1
<1>2. ASSUME NEW w \in Wait, Register(w)
      PROVE  Own'
  <2> DEFINE others == {v \in Wait : outcome[v] = "waiting" /\ home[v] = home[w]}
  <2>1. /\ outcome[w] = "none" /\ outcome' = [outcome EXCEPT ![w] = "waiting"]
        /\ entry' = [entry EXCEPT ![home[w]] = w]
        /\ alone' = IF others = {} THEN alone ELSE alone \ (others \cup {w})
        /\ home' = home
    BY <1>2 DEF Register
  <2> SUFFICES ASSUME NEW x \in Wait, outcome'[x] = "waiting", x \in alone'
               PROVE  /\ entry'[home[x]] = x
                      /\ \A v \in Wait : outcome'[v] = "waiting" /\ home[v] = home[x]
                                         => v = x
    BY <2>1
  <2>2. CASE x = w
    BY <2>1, <2>2
  <2>3. CASE x # w
    <3>1. outcome[x] = "waiting" /\ x \in alone
      BY <2>1, <2>3
    <3>2. home[x] # home[w]
      BY <2>1, <2>3, <3>1
    <3>3. QED
      BY <2>1, <2>3, <3>1, <3>2
  <2>4. QED
    BY <2>2, <2>3
<1>3. ASSUME NEW w \in Wait, NEW what \in {"ready", "failed", "cancelled", "timeout"},
             Return(w, what)
      PROVE  Own'
  BY <1>3 DEF Return
<1>4. QED
  BY <1>1, <1>2, <1>3, OnlyTheWaits

\* steady grows at the end of an interval only, and then the events are delivered.
LEMMA SettledKept ==
  ASSUME IInv, [Next]_vars
  PROVE  Settled'
<1> USE DEF IInv, Settled
<1>1. CASE Change
  BY <1>1 DEF Change
<1>2. CASE Start
  BY <1>2 DEF Start
<1>3. CASE Tick
  <2>1. UNCHANGED <<res, informer, events>> /\ events = <<>>
    BY <1>3 DEF Tick
  <2>2. steady' > 0 => steady > 0 \/ (res # Absent /\ Ready(res))
    BY <1>3 DEF Tick, TypeOK
  <2>3. QED
    BY <2>1, <2>2
<1>4. CASE Deliver
  <2>1. UNCHANGED <<res, informer, steady>> /\ events # <<>>
    BY <1>4 DEF Deliver
  <2>2. QED
    BY <2>1
<1>5. CASE ~Change /\ ~Start /\ ~Deliver /\ ~Tick
  <2>1. UNCHANGED <<res, informer, events, steady>>
    BY <1>5, Zenon DEF Next, vars, wvars, ResyncFires, Register, Return, ReturnReady,
       ReturnError, ReturnCancelled, ReturnTimeout, SyncList, SyncPut, SyncFails
  <2>2. QED
    BY <2>1
<1>6. QED
  BY <1>1, <1>2, <1>3, <1>4, <1>5

\* An informed wait in the leader has its entry in the map, so an event or a resync that
\* shows the workload ready wakes it, and a deletion fails it.
LEMMA SoleIsReached ==
  ASSUME IInv, NEW w \in Wait, Sole(w)
  PROVE  w \in Registered \cup woken \cup failing
BY DEF IInv, Own, Sole, Registered

\* An event changes the waits only by waking them.
LEMMA DeliverWakes ==
  ASSUME Deliver
  PROVE  /\ woken \subseteq woken' /\ failing \subseteq failing'
         /\ UNCHANGED <<res, steady, informer, tick, entry, home, left, outcome, alone,
                        missed>>
BY DEF Deliver, OnDeploymentDelete, OnDeploymentUpdate

\* A resync wakes the wait it finds registered if the workload is ready.
LEMMA ResyncWakes ==
  ASSUME IInv, ResyncFires
  PROVE  /\ woken \subseteq woken' /\ failing' = failing /\ tick' = 0
         /\ informer = "on" /\ events = <<>>
         /\ steady > 0 => woken' = woken \cup Registered
         /\ UNCHANGED <<res, steady, informer, events, entry, home, left, outcome, alone,
                        missed>>
<1>1. /\ woken \subseteq woken' /\ failing' = failing /\ tick' = 0
      /\ informer = "on" /\ events = <<>>
      /\ UNCHANGED <<res, steady, informer, events, entry, home, left, outcome, alone,
                     missed>>
  BY DEF ResyncFires, OnDeploymentUpdate
<1>2. steady > 0 => cached # Absent /\ Ready(cached)
  BY <1>1, Zenon DEF IInv, Feed, Settled
<1>3. steady > 0 => woken' = woken \cup Registered
  BY <1>2, Zenon DEF ResyncFires, OnDeploymentUpdate
<1>4. QED
  BY <1>1, <1>3

\* A registration and a return concern one wait; what the others have stays.
LEMMA OneWaitMoves ==
  ASSUME IInv, NEW w \in Wait,
         Register(w) \/ \E what \in {"ready", "failed", "cancelled", "timeout"} :
                          Return(w, what)
  PROVE  /\ UNCHANGED <<res, steady, informer, events, tick>>
         /\ \A x \in Wait \ {w} :
              /\ outcome'[x] = outcome[x] /\ left'[x] = left[x]
              /\ Sole(x)' => Sole(x)
              /\ x \in woken' \cup failing' <=> x \in woken \cup failing
              /\ x \in missed' <=> x \in missed
<1>1. CASE Register(w)
  BY <1>1 DEF Register, IInv, TypeOK, Sole
<1>2. ASSUME NEW what \in {"ready", "failed", "cancelled", "timeout"}, Return(w, what)
      PROVE  /\ UNCHANGED <<res, steady, informer, events, tick>>
             /\ \A x \in Wait \ {w} :
                  /\ outcome'[x] = outcome[x] /\ left'[x] = left[x]
                  /\ Sole(x)' => Sole(x)
                  /\ x \in woken' \cup failing' <=> x \in woken \cup failing
                  /\ x \in missed' <=> x \in missed
  BY <1>2 DEF Return, IInv, TypeOK, Sole
<1>3. QED
  BY <1>1, <1>2

\* The goroutines of the status sync leave the waits and the informer alone.
LEMMA SyncsApart ==
  ASSUME NEW s \in Sync, SyncList(s) \/ SyncPut(s) \/ SyncFails(s)
  PROVE  UNCHANGED <<res, steady, informer, events, cached, tick, wvars, missed>>
BY Zenon DEF SyncList, SyncPut, SyncFails

\* Between two resyncs the steady state and the wait both age by what the resync does; a
\* resync of a steady workload wakes the wait, and a wait that is woken does not age.
LEMMA InTimeKept ==
  ASSUME IInv, [Next]_vars
  PROVE  InTime'
<1> SUFFICES ASSUME NEW x \in Wait, Sole(x)', informer' = "on"
             PROVE  \/ steady' <= tick'
                    \/ Timeout - left'[x] <= tick'
                    \/ /\ x \in woken' \cup failing'
                       /\ steady' <= Resync \/ Timeout - left'[x] <= Resync
  BY DEF InTime
<1>0. /\ steady \in 0 .. Resync + 1 /\ tick \in 0 .. Resync /\ Timeout \in Nat
      /\ \A w \in Wait : left[w] \in 0 .. Timeout
  BY WaiterAssumption DEF IInv, TypeOK
<1>1. CASE Change \/ Start
  <2>1. steady' = 0 /\ tick' = tick
    BY <1>1 DEF Change, Start
  <2>2. QED
    BY <1>0, <2>1
<1>2. CASE Deliver
  BY <1>2, DeliverWakes DEF IInv, InTime, Sole
<1>3. CASE ResyncFires
  <2>1. CASE steady > 0
    <3>1. Sole(x) /\ x \in woken' \cup failing'
      BY <1>3, <2>1, ResyncWakes, SoleIsReached DEF Sole
    <3>2. steady <= tick \/ Timeout - left[x] <= tick
          \/ steady <= Resync \/ Timeout - left[x] <= Resync
      BY <1>3, <3>1, ResyncWakes DEF IInv, InTime
    <3>3. steady <= Resync \/ Timeout - left[x] <= Resync
      BY <1>0, <3>2 DEF Resync
    <3>4. QED
      BY <1>3, <3>1, <3>3, ResyncWakes
  <2>2. CASE ~(steady > 0)
    BY <1>0, <1>3, <2>2, ResyncWakes
  <2>3. QED
    BY <2>1, <2>2
<1>4. CASE Tick
  <2>1. /\ Sole(x) /\ informer = "on"
        /\ x \notin woken /\ x \notin failing
        /\ tick' = tick + 1 /\ left'[x] = left[x] - 1
        /\ steady' = steady \/ steady' = steady + 1
    BY <1>4 DEF Tick, Sole
  <2>2. steady <= tick \/ Timeout - left[x] <= tick
    BY <2>1 DEF IInv, InTime
  <2>3. QED
    BY <1>0, <2>1, <2>2
<1>5. ASSUME NEW w \in Wait,
             Register(w) \/ \E what \in {"ready", "failed", "cancelled", "timeout"} :
                              Return(w, what)
      PROVE  \/ steady' <= tick'
             \/ Timeout - left'[x] <= tick'
             \/ /\ x \in woken' \cup failing'
                /\ steady' <= Resync \/ Timeout - left'[x] <= Resync
  <2>1. CASE x # w
    BY <1>5, <2>1, OneWaitMoves DEF IInv, InTime
  <2>2. CASE x = w
    <3>1. outcome'[w] = "waiting" => Register(w)
      BY <1>5 DEF Return, IInv, TypeOK
    <3>2. Register(w)
      BY <2>2, <3>1 DEF Sole
    <3>3. left'[w] = Timeout /\ tick' = tick
      BY <3>2 DEF Register, IInv, Unused
    <3>4. QED
      BY <1>0, <2>2, <3>3
  <2>3. QED
    BY <2>1, <2>2
<1>6. ASSUME NEW s \in Sync, SyncList(s) \/ SyncPut(s) \/ SyncFails(s)
      PROVE  UNCHANGED <<steady, informer, tick, wvars>>
  BY <1>6, SyncsApart
<1>7. CASE UNCHANGED <<steady, informer, tick, wvars>>
  BY <1>7 DEF IInv, InTime, Sole, wvars
<1>8. QED
  BY <1>1, <1>2, <1>3, <1>4, <1>5, <1>6, <1>7
  DEF Next, vars, ReturnReady, ReturnError, ReturnCancelled, ReturnTimeout

\* The deletion stays among the events until it is delivered, and fails the wait then.
LEMMA ToldKept ==
  ASSUME IInv, [Next]_vars
  PROVE  Told'
<1> DEFINE Heard(x) ==
      /\ outcome[x] = "waiting" /\ informer = "on"
      /\ Sole(x) => /\ left[x] > 0
                    /\ \/ x \in woken \cup failing
                       \/ \E i \in DOMAIN events : events[i] = Absent
<1> SUFFICES ASSUME NEW x \in Wait, x \in missed'
             PROVE  Heard(x)'
  BY DEF Told
<1>0. x \in missed => Heard(x)
  BY DEF IInv, Told
<1>1. CASE Change
  <2>0. /\ UNCHANGED <<informer, wvars>>
        /\ events \in Seq(Workload \cup {Absent})
    BY <1>1 DEF Change, IInv, TypeOK
  <2>1. CASE x \in missed
    <3>1. events' = Append(events, res')
      BY <1>0, <1>1, <2>1 DEF Change
    <3>2. \A i \in DOMAIN events : i \in DOMAIN events' /\ events'[i] = events[i]
      BY <2>0, <3>1
    <3>3. QED
      BY <1>0, <2>0, <2>1, <3>2 DEF Sole, wvars
  <2>2. CASE x \notin missed
    <3>1. /\ res' = Absent /\ informer = "on" /\ outcome[x] = "waiting" /\ left[x] > 0
          /\ events' = Append(events, Absent)
      BY <1>1, <2>2 DEF Change
    <3>2. Len(events) + 1 \in DOMAIN events' /\ events'[Len(events) + 1] = Absent
      BY <2>0, <3>1
    <3>3. QED
      BY <2>0, <3>1, <3>2 DEF wvars
  <2>3. QED
    BY <2>1, <2>2
<1>2. CASE Start
  <2>1. informer = "off" /\ x \in missed
    BY <1>2 DEF Start
  <2>2. QED
    BY <1>0, <2>1
<1>3. CASE Deliver
  <2>1. /\ x \in missed /\ events \in Seq(Workload \cup {Absent}) /\ events # <<>>
        /\ events' = Tail(events) /\ cached' = Head(events)
    BY <1>3, DeliverWakes DEF Deliver, IInv, TypeOK
  <2>2. SUFFICES ASSUME Sole(x), x \notin woken' \cup failing'
                 PROVE  \E i \in DOMAIN events' : events'[i] = Absent
    BY <1>0, <1>3, <2>1, DeliverWakes DEF Sole
  <2>3. PICK i \in DOMAIN events : events[i] = Absent
    BY <1>0, <1>3, <2>1, <2>2, DeliverWakes
  <2>4. CASE i = 1
    <3>1. cached # Absent /\ cached' = Absent
      BY <2>1, <2>3, <2>4 DEF IInv, Feed
    <3>2. failing' = failing \cup Registered
      BY <1>3, <3>1 DEF Deliver, OnDeploymentDelete
    <3>3. QED
      BY <1>3, <2>2, <3>2, SoleIsReached, DeliverWakes
  <2>5. CASE i # 1
    <3>1. i - 1 \in DOMAIN events' /\ events'[i - 1] = events[i]
      BY <2>1, <2>3, <2>5
    <3>2. QED
      BY <2>3, <3>1
  <2>6. QED
    BY <2>4, <2>5
<1>4. CASE ResyncFires
  BY <1>0, <1>4, ResyncWakes DEF Sole
<1>5. CASE Tick
  <2>1. /\ x \in missed /\ events = <<>>
        /\ UNCHANGED <<informer, outcome, home, alone>>
        /\ outcome[x] = "waiting" => x \notin woken /\ x \notin failing
    BY <1>5 DEF Tick
  <2>2. ~Sole(x)
    BY <1>0, <2>1
  <2>3. QED
    BY <1>0, <2>1, <2>2 DEF Sole
<1>6. ASSUME NEW w \in Wait,
             Register(w) \/ \E what \in {"ready", "failed", "cancelled", "timeout"} :
                              Return(w, what)
      PROVE  Heard(x)'
  <2>1. CASE x # w
    BY <1>0, <1>6, <2>1, OneWaitMoves
  <2>2. CASE x = w
    <3>1. x \in missed /\ outcome[x] = "none"
      BY <1>6, <2>2 DEF Register, Return
    <3>2. QED
      BY <1>0, <3>1
  <2>3. QED
    BY <2>1, <2>2
<1>7. ASSUME NEW s \in Sync, SyncList(s) \/ SyncPut(s) \/ SyncFails(s)
      PROVE  UNCHANGED <<informer, events, wvars, missed>>
  BY <1>7, SyncsApart
<1>8. CASE UNCHANGED <<informer, events, wvars, missed>>
  BY <1>0, <1>8 DEF Sole, wvars
<1>9. QED
  BY <1>1, <1>2, <1>3, <1>4, <1>5, <1>6, <1>7, <1>8
  DEF Next, vars, ReturnReady, ReturnError, ReturnCancelled, ReturnTimeout

\* What NoLostWakeup says of one step.
OnTimeout ==
  \A w \in Wait :
    outcome[w] = "waiting" /\ outcome'[w] = "timeout" /\ home[w] = Leader /\ w \in alone
    => w \notin missed /\ (informer = "on" => steady <= Resync)

\* A wait in the leader that has the workload to itself does not time out on a workload
\* that has been ready for a resync period, nor on one that was deleted under it: the
\* event was delivered before it registered, or the resync brings it again, or it finds
\* the entry of the wait in the map.
THEOREM NoWakeupIsLost == Spec => NoLostWakeup
<1>1. Init => IInv
  <2> SUFFICES ASSUME Init PROVE IInv
    OBVIOUS
  <2>1. TypeOK
    BY InitTypes
  <2>2. QED
    BY <2>1 DEF Init, IInv, Feed, Settled, Unused, Own, InTime, Told
<1>2. IInv /\ [Next]_vars => IInv'
  BY NextTypes, FeedKept, SettledKept, UnusedKept, OwnKept, InTimeKept, ToldKept DEF IInv
<1>3. IInv /\ [Next]_vars => [OnTimeout]_vars
  <2> SUFFICES ASSUME IInv, [Next]_vars,
                      NEW w \in Wait, outcome[w] = "waiting", outcome'[w] = "timeout",
                      home[w] = Leader, w \in alone
               PROVE  w \notin missed /\ (informer = "on" => steady <= Resync)
    BY DEF OnTimeout
  <2>1. left[w] = 0
    <3>1. ASSUME NEW x \in Wait, NEW what \in {"ready", "failed", "cancelled", "timeout"},
                 Return(x, what)
          PROVE  w = x /\ what = "timeout"
      BY <3>1 DEF Return, IInv, TypeOK
    <3>2. ASSUME NEW x \in Wait, Register(x)
          PROVE  FALSE
      BY <3>2 DEF Register, IInv, TypeOK
    <3>3. ASSUME UNCHANGED outcome
          PROVE  FALSE
      BY <3>3
    <3>4. \/ UNCHANGED outcome \/ (\E x \in Wait : Register(x))
          \/ \E x \in Wait : \/ Return(x, "ready") \/ Return(x, "failed")
                            \/ Return(x, "cancelled") \/ ReturnTimeout(x)
      BY Zenon DEF Next, vars, wvars, Change, Start, Deliver, Tick, ResyncFires, ReturnReady,
         ReturnError, ReturnCancelled, SyncList, SyncPut, SyncFails
    <3>5. QED
      BY <3>1, <3>2, <3>3, <3>4 DEF ReturnTimeout
  <2>2. Sole(w)
    BY DEF Sole
  <2>3. w \notin missed
    BY <2>1, <2>2 DEF IInv, Told
  <2>4. informer = "on" => steady <= Resync
    BY <2>1, <2>2, WaiterAssumption DEF IInv, InTime, TypeOK, Resync
  <2>5. QED
    BY <2>3, <2>4
<1>4. QED
  BY <1>1, <1>2, <1>3, PTL DEF Spec, NoLostWakeup, OnTimeout
=============================================================================
