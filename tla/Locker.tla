------------------------------- MODULE Locker -------------------------------
(***************************************************************************)
(* The lockers (pkg/apiserver/infrastructure/locker): the mutexes of one   *)
(* key, in the memory of a process or in Redis (redsync), with time to     *)
(* live, retries, extension and closing.  Both are shown to implement      *)
(* Lock.  A mutex is locked once, as acquireShareLock does.                *)
(*                                                                         *)
(* Time is counted in the interval of AutoExtend.                          *)
(***************************************************************************)
EXTENDS Integers

CONSTANTS
  Mutex,       \* the mutexes that NewMutex hands out for the key
  Nobody,      \* the key is free
  TTL,         \* Options.TTL, in intervals
  RetryCounts, \* possible values of Options.RetryCount; -1 is "for ever"
  Backends,    \* subset of {"memory", "redis"}
  MaxErrors,   \* bound: calls to Redis whose reply is an error
  MaxExtends   \* bound: calls of Extend besides those of AutoExtend

ASSUME LockerAssumption ==
  /\ Nobody \notin Mutex
  /\ TTL \in Nat \ {0}
  /\ RetryCounts \subseteq Nat \cup {-1}
  /\ Backends \subseteq {"memory", "redis"}
  /\ MaxErrors \in Nat /\ MaxExtends \in Nat

VARIABLES
  backend,    \* which locker it is
  retryCount, \* Options.RetryCount
  owner,      \* memoryLockEntry.owner, or the value of the Redis key
  left,       \* intervals until the entry expires
  closed,     \* Close was called
  phase,      \* what the user of each mutex is doing with it
  attempts,   \* attempts of the running Lock
  since,      \* history: what is left of the time to live as the user counts it
  auto,       \* the mutexes with a running AutoExtend
  due,        \* those whose ticker is to fire in this interval
  errors,     \* failed Redis calls
  extends     \* calls of Extend

vars == <<backend, retryCount, owner, left, closed, phase, attempts, since, auto, due,
          errors, extends>>

options == <<backend, retryCount>>
entry == <<owner, left>>
extension == <<auto, due, errors, extends>>

TypeOK ==
  /\ backend \in Backends
  /\ retryCount \in RetryCounts
  /\ owner \in Mutex \cup {Nobody}
  /\ left \in 0 .. TTL
  /\ closed \in BOOLEAN
  /\ phase \in [Mutex -> {"none", "new", "degraded", "locking", "held", "over"}]
  /\ attempts \in [Mutex -> Nat]
  /\ since \in [Mutex -> 0 .. TTL]
  /\ auto \subseteq Mutex
  /\ due \subseteq auto
  /\ errors \in 0 .. MaxErrors /\ extends \in 0 .. MaxExtends

Init ==
  /\ backend \in Backends
  /\ retryCount \in RetryCounts
  /\ owner = Nobody
  /\ left = 0
  /\ closed = FALSE
  /\ phase = [m \in Mutex |-> "none"]
  /\ attempts = [m \in Mutex |-> 0]
  /\ since = [m \in Mutex |-> 0]
  /\ auto = {}
  /\ due = {}
  /\ errors = 0 /\ extends = 0

-----------------------------------------------------------------------------
Goto(m, where) == phase' = [phase EXCEPT ![m] = where]

RedisError == backend = "redis" /\ errors < MaxErrors /\ errors' = errors + 1

\* Seeded fault: an entry that has expired is still taken for held.
FreeNot == owner = Nobody

\* The key can be taken: it is free, or its entry has expired.
Free == owner = Nobody \/ left = 0

\* The entry is the mutex's.  An expired one is still there in memory, and no
\* longer in Redis.
Owns(m) == owner = m /\ (backend = "memory" \/ left > 0)

-----------------------------------------------------------------------------
\* A closed locker hands out mutexes whose operations all fail.
NewMutex(m) ==
  /\ phase[m] = "none"
  /\ Goto(m, IF closed THEN "degraded" ELSE "new")
  /\ UNCHANGED <<options, entry, closed, attempts, since, extension>>

Close ==
  /\ ~closed
  /\ closed' = TRUE
  /\ UNCHANGED <<options, entry, phase, attempts, since, extension>>

\* degradedMutex: Lock and TryLock return ErrLockerClosed.
LockDegraded(m) ==
  /\ phase[m] = "degraded"
  /\ Goto(m, "over")
  /\ UNCHANGED <<options, entry, closed, attempts, since, extension>>

\* tryAcquire succeeds.
Take(m) ==
  /\ Free
  /\ owner' = m /\ left' = TTL
  /\ Goto(m, "held") /\ since' = [since EXCEPT ![m] = TTL]

\* The reply is lost: the key may have been set all the same.
TakeUnknown(m) ==
  /\ Goto(m, "over")
  /\ \/ Free /\ owner' = m /\ left' = TTL
     \/ UNCHANGED <<owner, left>>

\* One call of Lock begins; its attempts follow.
LockBegins(m) ==
  /\ phase[m] = "new"
  /\ Goto(m, "locking")
  /\ UNCHANGED <<options, entry, closed, attempts, since, extension>>

\* An attempt of Lock: taken; refused, and given up after retryCount retries;
\* or Redis fails, with or without having set the key.
Attempt(m) ==
  /\ phase[m] = "locking"
  /\ \/ /\ Take(m)
        /\ UNCHANGED <<attempts, errors>>
     \/ /\ ~Free
        /\ attempts' = [attempts EXCEPT ![m] = IF retryCount = -1 THEN 0 ELSE @ + 1]
        /\ Goto(m, IF retryCount >= 0 /\ attempts'[m] > retryCount
                   THEN "over" ELSE "locking")
        /\ UNCHANGED <<owner, left, since, errors>>
     \/ RedisError /\ TakeUnknown(m) /\ UNCHANGED <<attempts, since>>
  /\ UNCHANGED <<options, closed, auto, due, extends>>

\* TryLock: one attempt.
TryLock(m) ==
  /\ phase[m] = "new"
  /\ \/ Take(m) /\ UNCHANGED errors
     \/ ~Free /\ Goto(m, "over") /\ UNCHANGED <<owner, left, since, errors>>
     \/ RedisError /\ TakeUnknown(m) /\ UNCHANGED since
  /\ UNCHANGED <<options, closed, attempts, auto, due, extends>>

\* The context of Lock ends.
LockCancelled(m) ==
  /\ phase[m] = "locking"
  /\ Goto(m, "over")
  /\ UNCHANGED <<options, entry, closed, attempts, since, extension>>

\* Seeded fault: whoever owns the entry, it is given up.
UnlockAny(m) ==
  /\ phase[m] = "held"
  /\ Goto(m, "over")
  /\ auto' = auto \ {m} /\ due' = due \ {m}
  /\ owner' = Nobody /\ left' = 0
  /\ UNCHANGED <<options, closed, attempts, since, errors, extends>>

\* Seeded fault: the ticker of AutoExtend outlives Unlock.
UnlockKeepsTicker(m) ==
  /\ phase[m] = "held"
  /\ Goto(m, "over")
  /\ auto' = auto \ {m}
  /\ IF Owns(m) THEN owner' = Nobody /\ left' = 0 ELSE UNCHANGED <<owner, left>>
  /\ UNCHANGED <<options, closed, attempts, since, due, errors, extends>>

\* Unlock, which ends AutoExtend too: ErrLockNotHeld if the mutex has lost the
\* entry.  With Redis it may fail, or have been carried out all the same.
Unlock(m) ==
  /\ phase[m] = "held"
  /\ Goto(m, "over")
  /\ auto' = auto \ {m} /\ due' = due \ {m}
  /\ \/ /\ IF Owns(m) THEN owner' = Nobody /\ left' = 0 ELSE UNCHANGED <<owner, left>>
        /\ UNCHANGED errors
     \/ RedisError /\ UNCHANGED <<owner, left>>
  /\ UNCHANGED <<options, closed, attempts, since, extends>>

\* The process of the mutex's user ends without Unlock.
Abandon(m) ==
  /\ backend = "redis"
  /\ phase[m] \in {"locking", "held"}
  /\ Goto(m, "over")
  /\ auto' = auto \ {m} /\ due' = due \ {m}
  /\ UNCHANGED <<options, entry, closed, attempts, since, errors, extends>>

\* Seeded fault: the entry is extended whoever owns it.
ExtendAny(m) ==
  /\ owner' = m /\ left' = TTL
  /\ since' = [since EXCEPT ![m] = TTL]

\* In memory an expired entry that nobody has taken is revived.
Extended(m) ==
  /\ Owns(m)
  /\ left' = TTL
  /\ since' = [since EXCEPT ![m] = TTL]
  /\ UNCHANGED owner

\* The reply is lost: the entry may have been extended all the same.
ExtendedUnknown(m) ==
  /\ left' \in {left} \cup (IF Owns(m) THEN {TTL} ELSE {})
  /\ UNCHANGED <<owner, since>>

Extend(m) ==
  /\ phase[m] = "held"
  /\ extends < MaxExtends /\ extends' = extends + 1
  /\ \/ Extended(m) /\ UNCHANGED errors
     \/ RedisError /\ ExtendedUnknown(m)
  /\ UNCHANGED <<options, closed, phase, attempts, auto, due>>

AutoExtend(m) ==
  /\ phase[m] = "held"
  /\ m \notin auto
  /\ auto' = auto \cup {m}
  /\ UNCHANGED <<options, entry, closed, phase, attempts, since, due, errors, extends>>

\* The ticker of AutoExtend; it stops at the first failure.
AutoExtendTick(m) ==
  /\ m \in due
  /\ due' = due \ {m}
  /\ \/ Extended(m) /\ UNCHANGED <<auto, errors>>
     \/ ~Owns(m) /\ auto' = auto \ {m} /\ UNCHANGED <<owner, left, since, errors>>
     \/ RedisError /\ auto' = auto \ {m} /\ ExtendedUnknown(m)
  /\ UNCHANGED <<options, closed, phase, attempts, extends>>

\* An interval ends; every ticker has fired in it.
Tick ==
  /\ due = {}
  /\ left' = IF left = 0 THEN 0 ELSE left - 1
  /\ since' = [m \in Mutex |-> IF since[m] = 0 THEN 0 ELSE since[m] - 1]
  /\ due' = auto
  /\ UNCHANGED <<options, owner, closed, phase, attempts, auto, errors, extends>>

Next ==
  \/ Close \/ Tick
  \/ \E m \in Mutex :
       \/ NewMutex(m) \/ LockDegraded(m) \/ LockBegins(m) \/ Attempt(m) \/ TryLock(m)
       \/ LockCancelled(m) \/ Unlock(m) \/ Abandon(m) \/ Extend(m) \/ AutoExtend(m)
       \/ AutoExtendTick(m)

Spec == Init /\ [][Next]_vars

\* Time passes, and Lock goes on trying.
FairSpec ==
  /\ Spec
  /\ WF_vars(Tick)
  /\ \A m \in Mutex : WF_vars(Attempt(m)) /\ WF_vars(AutoExtendTick(m))

-----------------------------------------------------------------------------
(***************************************************************************)
(* Properties.                                                             *)
(***************************************************************************)
\* The key is its owner's until the entry expires.
TheKey == "key"

A == INSTANCE Lock WITH
       Key <- {TheKey}, Client <- Mutex,
       holder <- [k \in {TheKey} |-> IF left > 0 THEN owner ELSE Nobody]

\* Both lockers are locks: one owner at a time, released by its owner only, and
\* lost only to its time to live.  Reviving an expired entry is a new acquisition.
ImplementsLock == A!LockSpec

\* A user whose own clock says that its time to live is not over has the key,
\* whatever the other mutexes do: late Unlocks of former owners, closed lockers,
\* failing calls.  So two users within their time never meet.
HeldWithinTTL ==
  \A m \in Mutex : phase[m] = "held" /\ since[m] > 0 => owner = m /\ left >= since[m]

\* Lock returns though the owner never unlocks: the entry expires.  Only an owner
\* who goes on extending can keep the others waiting.
LockReturns ==
  \A m \in Mutex : phase[m] = "locking" ~> (phase[m] # "locking" \/ auto # {})
=============================================================================
