------------------------ MODULE CancelSignalProofs ------------------------
(***************************************************************************)
(* Proofs about CancelSignal, for any set of jobs, any expiry and any      *)
(* number of failing Redis calls.                                          *)
(***************************************************************************)
EXTENDS CancelSignal, TLAPS

\* Every step of Watch, maintain, Cancel and Stop keeps the types: the key holds a
\* token, the marker or nothing, and its remaining life never exceeds Expiry + 1.
THEOREM SignalTypeCorrect == Spec => []TypeOK
<1>1. Init => TypeOK
  <2> SUFFICES ASSUME Init PROVE TypeOK
    OBVIOUS
  <2>1. requested \in BOOLEAN
    BY Zenon DEF Init
  <2>2. QED
    BY <2>1, SignalAssumption DEF Init, TypeOK
<1>2. TypeOK /\ [Next]_vars => TypeOK'
  <2> SUFFICES ASSUME TypeOK, [Next]_vars PROVE TypeOK'
    OBVIOUS
  <2> USE SignalAssumption DEF TypeOK
  <2>1. CASE Cancel
    BY <2>1 DEF Cancel, Set
  <2>2. CASE KeyExpires
    BY <2>2 DEF KeyExpires
  <2>3. CASE Tick
    BY <2>3 DEF Tick
  <2>4. ASSUME NEW j \in Job, WatchLocal(j) \/ Watch(j) \/ Inspect(j)
        PROVE  TypeOK'
    BY <2>4 DEF WatchLocal, Watch, Inspect, Goto, Set, RedisError, cancelFn
  <2>5. ASSUME NEW j \in Job, Step(j) \/ Renew(j)
        PROVE  TypeOK'
    BY <2>5 DEF Step, Renew, Goto, RedisError, cancelFn
  <2>6. ASSUME NEW j \in Job, EndUnwatched(j) \/ StopLocal(j) \/ Stop(j) \/ Delete(j)
        PROVE  TypeOK'
    BY <2>6 DEF EndUnwatched, StopLocal, Stop, Delete, Goto, RedisError
  <2>7. CASE UNCHANGED vars
    BY <2>7 DEF vars
  <2>8. QED
    BY <2>1, <2>2, <2>3, <2>4, <2>5, <2>6, <2>7 DEF Next
<1>3. QED
  BY <1>1, <1>2, PTL DEF Spec

-----------------------------------------------------------------------------
(***************************************************************************)
(* What a late job finds is the marker, as long as it is to last.  That    *)
(* alone is not inductive: a key that is about to expire, or a Stop that   *)
(* has seen its token and will delete whatever the key holds, would break  *)
(* it in one step.  Neither exists while the marker is to last.            *)
(***************************************************************************)
MarkerInv ==
  sure > 0 => /\ mode = "redis"
              /\ key = Marker
              /\ sure <= ttl
              /\ \A j \in Job : job[j] # "del"

\* A job that starts while the cancellation is certain to last is cancelled by its
\* Watch: later Watch calls do not claim the key, renewals prolong it, and every
\* Stop that follows reads a value that is not its token and deletes nothing.
THEOREM LateJobsSeeCancellation == Spec => LateJobsAreCancelled
<1>1. Init => MarkerInv
  BY DEF Init, MarkerInv
<1>2. TypeOK /\ MarkerInv /\ [Next]_vars => MarkerInv'
  <2> SUFFICES ASSUME TypeOK, MarkerInv, [Next]_vars PROVE MarkerInv'
    OBVIOUS
  <2> USE SignalAssumption DEF TypeOK, MarkerInv
  <2>1. CASE Cancel
    BY <2>1 DEF Cancel, Set
  <2>2. CASE KeyExpires
    BY <2>2 DEF KeyExpires
  <2>3. CASE Tick
    BY <2>3 DEF Tick
  <2>4. ASSUME NEW j \in Job, WatchLocal(j) \/ Watch(j) \/ Inspect(j)
        PROVE  MarkerInv'
    BY <2>4 DEF WatchLocal, Watch, Inspect, Goto, Set, RedisError
  <2>5. ASSUME NEW j \in Job, Step(j) \/ Renew(j)
        PROVE  MarkerInv'
    BY <2>5 DEF Step, Renew, Goto, RedisError
  <2>6. ASSUME NEW j \in Job, EndUnwatched(j) \/ StopLocal(j) \/ Stop(j)
        PROVE  MarkerInv'
    BY <2>6 DEF EndUnwatched, StopLocal, Stop, Goto, RedisError
  <2>7. ASSUME NEW j \in Job, Delete(j)
        PROVE  MarkerInv'
    BY <2>7 DEF Delete, Goto
  <2>8. CASE UNCHANGED vars
    BY <2>8 DEF vars
  <2>9. QED
    BY <2>1, <2>2, <2>3, <2>4, <2>5, <2>6, <2>7, <2>8 DEF Next
<1>3. Spec => [](TypeOK /\ MarkerInv)
  BY <1>1, <1>2, SignalTypeCorrect, PTL DEF Spec
<1> DEFINE Cancelled ==
      \A j \in Job :
        /\ sure > 0 /\ \E k \in told : job[k] # "done"
        /\ job[j] \in {"new", "inspect"} /\ job'[j] \in {"watched", "unwatched"}
        /\ errors' = errors
        => j \in ended'
<1>4. TypeOK /\ MarkerInv /\ [Next]_vars => [Cancelled]_vars
  <2> SUFFICES ASSUME TypeOK, MarkerInv, Next, NEW j \in Job, sure > 0,
                      job[j] \in {"new", "inspect"}, job'[j] \in {"watched", "unwatched"},
                      errors' = errors
               PROVE  j \in ended'
    OBVIOUS
  <2> USE SignalAssumption DEF TypeOK, MarkerInv
  <2>1. mode = "redis" /\ key = Marker
    OBVIOUS
  <2>2. PICK k \in Job : \/ WatchLocal(k) \/ Watch(k) \/ Inspect(k) \/ Step(k) \/ Renew(k)
                         \/ EndUnwatched(k) \/ StopLocal(k) \/ Stop(k) \/ Delete(k)
    BY DEF Next, Cancel, KeyExpires, Tick
  <2>3. k = j
    BY <2>1, <2>2 DEF WatchLocal, Watch, Inspect, Step, Renew, EndUnwatched, StopLocal, Stop,
                Delete, Goto
  <2>4. Inspect(j)
    BY <2>1, <2>2, <2>3 DEF WatchLocal, Watch, Step, Renew, EndUnwatched, StopLocal, Stop,
                       Delete, Goto, RedisError, Maintained
  <2>5. QED
    BY <2>1, <2>4 DEF Inspect, Goto, RedisError, cancelFn
<1>5. QED
  BY <1>3, <1>4, PTL DEF Spec, LateJobsAreCancelled

-----------------------------------------------------------------------------
(***************************************************************************)
(* NoSpuriousCancel is not inductive: a watcher may be about to find a key *)
(* that is not its token.  As long as nobody has asked for a cancellation  *)
(* and the failed calls are few, the key of a watched job is its token and *)
(* has some life left: an interval for a tick not yet served, another for  *)
(* a call between its two requests, and those that failed calls have cost. *)
(***************************************************************************)
FewErrors == lost + 3 <= Expiry

\* The job has claimed the key and has not given it back.
Claimed(j) == mode = "redis" /\ job[j] \in {"watched", "renew", "del"}

Lag(j) == (IF j \in due THEN 1 ELSE 0) + (IF job[j] = "watched" THEN 0 ELSE 1)

QuietInv ==
  ~requested =>
    /\ key # Marker
    /\ FewErrors =>
         /\ ended = {}
         /\ \A j \in Job : Claimed(j) => key = j /\ ttl + lost + Lag(j) >= Expiry

\* A watcher ends its job's context only after Cancel was called, as long as the
\* failed renewals cannot add up to the life of a key: with every interleaving
\* of jobs that start, renew and stop, and for any expiry and any set of jobs.
THEOREM CancelIsAskedFor == Spec => []NoSpuriousCancel
<1>1. Init => QuietInv
  <2> SUFFICES ASSUME Init PROVE QuietInv
    OBVIOUS
  <2>1. key # Marker /\ ended = {} /\ \A j \in Job : ~Claimed(j)
    BY SignalAssumption DEF Init, Claimed
  <2>2. QED
    BY <2>1 DEF QuietInv
<1>2. TypeOK /\ QuietInv /\ [Next]_vars => QuietInv'
  <2> SUFFICES ASSUME TypeOK, QuietInv, [Next]_vars, ~requested' PROVE QuietInv'
    BY DEF QuietInv
  <2> USE SignalAssumption DEF TypeOK, QuietInv, FewErrors, Claimed, Lag
  <2>1. ~Cancel /\ ~requested
    BY DEF Next, Cancel, KeyExpires, Tick, WatchLocal, Watch, Inspect, Step, Renew,
           EndUnwatched, StopLocal, Stop, Delete, vars
  <2>2. CASE KeyExpires
    BY <2>1, <2>2 DEF KeyExpires
  <2>3. CASE Tick
    BY <2>1, <2>3 DEF Tick, Maintained
  <2>4. ASSUME NEW j \in Job, WatchLocal(j)
        PROVE  QuietInv'
    BY <2>1, <2>4 DEF WatchLocal, Goto
  <2>5. ASSUME NEW j \in Job, Watch(j)
        PROVE  QuietInv'
    BY <2>1, <2>5 DEF Watch, Goto, Set, RedisError
  <2>6. ASSUME NEW j \in Job, Inspect(j)
        PROVE  QuietInv'
    BY <2>1, <2>6 DEF Inspect, Goto, RedisError
  <2>7. ASSUME NEW j \in Job, Step(j)
        PROVE  QuietInv'
    BY <2>1, <2>7 DEF Step, Maintained, Goto, RedisError, cancelFn
  <2>8. ASSUME NEW j \in Job, Renew(j)
        PROVE  QuietInv'
    BY <2>1, <2>8 DEF Renew, Goto, RedisError
  <2>9. ASSUME NEW j \in Job, EndUnwatched(j) \/ StopLocal(j)
        PROVE  QuietInv'
    BY <2>1, <2>9 DEF EndUnwatched, StopLocal, Goto
  <2>10. ASSUME NEW j \in Job, Stop(j)
         PROVE  QuietInv'
    BY <2>1, <2>10 DEF Stop, Goto, RedisError
  <2>11. ASSUME NEW j \in Job, Delete(j)
         PROVE  QuietInv'
    BY <2>1, <2>11 DEF Delete, Goto, RedisError
  <2>12. CASE UNCHANGED vars
    BY <2>1, <2>12 DEF vars
  <2>13. QED
    BY <2>1, <2>2, <2>3, <2>4, <2>5, <2>6, <2>7, <2>8, <2>9, <2>10, <2>11, <2>12
       DEF Next
<1>3. QuietInv => NoSpuriousCancel
  BY DEF QuietInv, FewErrors, NoSpuriousCancel
<1>4. QED
  BY <1>1, <1>2, <1>3, SignalTypeCorrect, PTL DEF Spec
=============================================================================
