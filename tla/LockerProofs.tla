---------------------------- MODULE LockerProofs ----------------------------
(***************************************************************************)
(* Proofs about Locker: types, who has the key within its time to live,    *)
(* and that the lockers implement Lock, for any mutexes, any time to live, *)
(* any retry counts and any number of failing calls.                       *)
(***************************************************************************)
EXTENDS Locker, TLAPS

USE LockerAssumption DEF LockerAssumption

\* Every operation of the lockers keeps the types.
LEMMA TypeStep == TypeOK /\ [Next]_vars => TypeOK'
<1> SUFFICES ASSUME TypeOK, [Next]_vars PROVE TypeOK'
  OBVIOUS
<1> USE DEF TypeOK, Goto, RedisError, options, entry, extension
<1>1. CASE Close
  BY <1>1 DEF Close
<1>2. CASE Tick
  BY <1>2 DEF Tick
<1>3. ASSUME NEW m \in Mutex, NewMutex(m) PROVE TypeOK'
  BY <1>3 DEF NewMutex
<1>4. ASSUME NEW m \in Mutex, LockDegraded(m) PROVE TypeOK'
  BY <1>4 DEF LockDegraded
<1>5. ASSUME NEW m \in Mutex, LockBegins(m) PROVE TypeOK'
  BY <1>5 DEF LockBegins
<1>6. ASSUME NEW m \in Mutex, Attempt(m) PROVE TypeOK'
  BY <1>6 DEF Attempt, Take, TakeUnknown, Free
<1>7. ASSUME NEW m \in Mutex, TryLock(m) PROVE TypeOK'
  BY <1>7 DEF TryLock, Take, TakeUnknown, Free
<1>8. ASSUME NEW m \in Mutex, LockCancelled(m) PROVE TypeOK'
  BY <1>8 DEF LockCancelled
<1>9. ASSUME NEW m \in Mutex, Unlock(m) PROVE TypeOK'
  BY <1>9 DEF Unlock, Owns
<1>10. ASSUME NEW m \in Mutex, Abandon(m) PROVE TypeOK'
  BY <1>10 DEF Abandon
<1>11. ASSUME NEW m \in Mutex, Extend(m) PROVE TypeOK'
  BY <1>11 DEF Extend, Extended, ExtendedUnknown, Owns
<1>12. ASSUME NEW m \in Mutex, AutoExtend(m) PROVE TypeOK'
  BY <1>12 DEF AutoExtend
<1>13. ASSUME NEW m \in Mutex, AutoExtendTick(m) PROVE TypeOK'
  BY <1>13 DEF AutoExtendTick, Extended, ExtendedUnknown, Owns
<1>14. CASE UNCHANGED vars
  BY <1>14 DEF vars
<1> QED
  BY <1>1, <1>2, <1>3, <1>4, <1>5, <1>6, <1>7, <1>8,
     <1>9, <1>10, <1>11, <1>12, <1>13, <1>14 DEF Next

-----------------------------------------------------------------------------
(***************************************************************************)
(* HeldWithinTTL is inductive together with two facts: an entry that has   *)
(* not expired has an owner, and AutoExtend runs for held mutexes only (so *)
(* that the extension of a former owner cannot revive its entry).          *)
(***************************************************************************)
EntryIsOwned == left > 0 => owner # Nobody

AutoIsHeld == \A m \in auto : phase[m] = "held"

LInvNew == HeldWithinTTL /\ EntryIsOwned /\ AutoIsHeld

LInv == TypeOK /\ LInvNew

\* Every operation keeps the inductive invariant.
LEMMA LInvStep == LInv /\ [Next]_vars => LInv'
<1> SUFFICES ASSUME LInv, [Next]_vars PROVE LInvNew'
  BY TypeStep DEF LInv
<1> USE DEF LInv, LInvNew, TypeOK, HeldWithinTTL, EntryIsOwned, AutoIsHeld, Goto, RedisError,
            options, entry, extension
<1>1. CASE Close
  BY <1>1 DEF Close
<1>2. CASE Tick
  BY <1>2 DEF Tick
<1>3. ASSUME NEW m \in Mutex, NewMutex(m) PROVE LInvNew'
  BY <1>3 DEF NewMutex
<1>4. ASSUME NEW m \in Mutex, LockDegraded(m) PROVE LInvNew'
  BY <1>4 DEF LockDegraded
<1>5. ASSUME NEW m \in Mutex, LockBegins(m) PROVE LInvNew'
  BY <1>5 DEF LockBegins
<1>6. ASSUME NEW m \in Mutex, Attempt(m) PROVE LInvNew'
  BY <1>6 DEF Attempt, Take, TakeUnknown, Free
<1>7. ASSUME NEW m \in Mutex, TryLock(m) PROVE LInvNew'
  BY <1>7 DEF TryLock, Take, TakeUnknown, Free
<1>8. ASSUME NEW m \in Mutex, LockCancelled(m) PROVE LInvNew'
  BY <1>8 DEF LockCancelled
<1>9. ASSUME NEW m \in Mutex, Unlock(m) PROVE LInvNew'
  BY <1>9 DEF Unlock, Owns
<1>10. ASSUME NEW m \in Mutex, Abandon(m) PROVE LInvNew'
  BY <1>10 DEF Abandon
<1>11. ASSUME NEW m \in Mutex, Extend(m) PROVE LInvNew'
  BY <1>11 DEF Extend, Extended, ExtendedUnknown, Owns
<1>12. ASSUME NEW m \in Mutex, AutoExtend(m) PROVE LInvNew'
  BY <1>12 DEF AutoExtend
<1>13. ASSUME NEW m \in Mutex, AutoExtendTick(m) PROVE LInvNew'
  BY <1>13 DEF AutoExtendTick, Extended, ExtendedUnknown, Owns
<1>14. CASE UNCHANGED vars
  BY <1>14 DEF vars
<1> QED
  BY <1>1, <1>2, <1>3, <1>4, <1>5, <1>6, <1>7, <1>8,
     <1>9, <1>10, <1>11, <1>12, <1>13, <1>14 DEF Next

\* The inductive invariant holds throughout.
LEMMA LInvHolds == Spec => []LInv
<1>1. Init => LInv
  <2> SUFFICES ASSUME Init PROVE LInv
    OBVIOUS
  <2>0. 0 \in 0 .. TTL /\ 0 \in 0 .. MaxErrors /\ 0 \in 0 .. MaxExtends
    OBVIOUS
  <2>1. TypeOK
    BY <2>0, Zenon DEF Init, TypeOK
  <2>2. HeldWithinTTL /\ EntryIsOwned /\ AutoIsHeld
    BY DEF Init, HeldWithinTTL, EntryIsOwned, AutoIsHeld
  <2> QED
    BY <2>1, <2>2 DEF LInv, LInvNew
<1> QED
  BY <1>1, LInvStep, PTL DEF Spec

\* Every variable of the lockers keeps its type: the remaining times stay within
\* the time to live and only running AutoExtends are due.
THEOREM LockerTypeCorrect == Spec => []TypeOK
<1>1. LInv => TypeOK
  BY DEF LInv
<1> QED
  BY <1>1, LInvHolds, PTL

\* A user within its time to live has the key, for any number of mutexes, late
\* Unlocks of former owners and failing calls included.
THEOREM HeldIsOwned == Spec => []HeldWithinTTL
<1>1. LInv => HeldWithinTTL
  BY DEF LInv, LInvNew
<1> QED
  BY <1>1, LInvHolds, PTL

-----------------------------------------------------------------------------
(***************************************************************************)
(* The refinement.  hold is the abstract holder.                           *)
(***************************************************************************)
hold == [k \in {TheKey} |-> IF left > 0 THEN owner ELSE Nobody]

\* Every operation acquires, releases or expires the abstract lock, or leaves it.
LEMMA StepRefines == LInv /\ LInv' /\ [Next]_vars => [A!LockNext]_hold
<1> SUFFICES ASSUME LInv, LInv', [Next]_vars PROVE A!LockNext \/ UNCHANGED hold
  OBVIOUS
<1> USE DEF LInv, LInvNew, TypeOK, EntryIsOwned, AutoIsHeld, Goto, RedisError, options, entry,
            extension, hold, A!LockNext, A!Acquire, A!Release, A!Expire
<1>1. CASE Close
  BY <1>1 DEF Close
<1>2. CASE Tick
  BY <1>2 DEF Tick
<1>3. ASSUME NEW m \in Mutex, NewMutex(m) PROVE A!LockNext \/ UNCHANGED hold
  BY <1>3 DEF NewMutex
<1>4. ASSUME NEW m \in Mutex, LockDegraded(m) PROVE A!LockNext \/ UNCHANGED hold
  BY <1>4 DEF LockDegraded
<1>5. ASSUME NEW m \in Mutex, LockBegins(m) PROVE A!LockNext \/ UNCHANGED hold
  BY <1>5 DEF LockBegins
<1>6. ASSUME NEW m \in Mutex, Attempt(m) PROVE A!LockNext \/ UNCHANGED hold
  BY <1>6 DEF Attempt, Take, TakeUnknown, Free
<1>7. ASSUME NEW m \in Mutex, TryLock(m) PROVE A!LockNext \/ UNCHANGED hold
  BY <1>7 DEF TryLock, Take, TakeUnknown, Free
<1>8. ASSUME NEW m \in Mutex, LockCancelled(m) PROVE A!LockNext \/ UNCHANGED hold
  BY <1>8 DEF LockCancelled
<1>9. ASSUME NEW m \in Mutex, Unlock(m) PROVE A!LockNext \/ UNCHANGED hold
  BY <1>9 DEF Unlock, Owns
<1>10. ASSUME NEW m \in Mutex, Abandon(m) PROVE A!LockNext \/ UNCHANGED hold
  BY <1>10 DEF Abandon
<1>11. ASSUME NEW m \in Mutex, Extend(m) PROVE A!LockNext \/ UNCHANGED hold
  BY <1>11 DEF Extend, Extended, ExtendedUnknown, Owns
<1>12. ASSUME NEW m \in Mutex, AutoExtend(m) PROVE A!LockNext \/ UNCHANGED hold
  BY <1>12 DEF AutoExtend
<1>13. ASSUME NEW m \in Mutex, AutoExtendTick(m) PROVE A!LockNext \/ UNCHANGED hold
  BY <1>13 DEF AutoExtendTick, Extended, ExtendedUnknown, Owns
<1>14. CASE UNCHANGED vars
  BY <1>14 DEF vars
<1> QED
  BY <1>1, <1>2, <1>3, <1>4, <1>5, <1>6, <1>7, <1>8,
     <1>9, <1>10, <1>11, <1>12, <1>13, <1>14 DEF Next

\* MemoryLocker and RedisLocker implement the abstract lock: one holder at a time,
\* released by its holder only, lost only to its time to live.
THEOREM LockerImplementsLock == Spec => ImplementsLock
<1>1. Init => A!LockInit
  BY DEF Init, A!LockInit
<1>2. LInv /\ LInv' /\ [Next]_vars => [A!LockNext]_hold
  BY StepRefines
<1> QED
  BY <1>1, <1>2, LInvHolds, PTL DEF Spec, ImplementsLock, A!LockSpec, hold
=============================================================================
