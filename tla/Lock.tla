-------------------------------- MODULE Lock --------------------------------
(***************************************************************************)
(* What a locker promises (pkg/apiserver/infrastructure/locker/locker.go): *)
(* a key has at most one holder; only the holder releases it; and a key    *)
(* whose time to live is over may be lost without its holder being told.   *)
(*                                                                         *)
(* MemoryLocker is shown to implement it, JobControllers is built on it.   *)
(***************************************************************************)
CONSTANTS
  Key,     \* the keys, or the places where the one key is kept
  Client,  \* those who lock
  Nobody   \* the key is free

VARIABLE holder  \* who has each key

LockTypeOK == holder \in [Key -> Client \cup {Nobody}]

LockInit == holder = [k \in Key |-> Nobody]

\* Lock and TryLock succeed.
Acquire(k, c) ==
  /\ holder[k] = Nobody
  /\ holder' = [holder EXCEPT ![k] = c]

\* Unlock: a key that is lost, or has gone to another client, stays as it is.
Release(k, c) ==
  holder' = IF holder[k] = c THEN [holder EXCEPT ![k] = Nobody] ELSE holder

\* The time to live is over.
Expire(k) ==
  /\ holder[k] # Nobody
  /\ holder' = [holder EXCEPT ![k] = Nobody]

LockNext ==
  \E k \in Key :
    \/ Expire(k)
    \/ \E c \in Client : Acquire(k, c) \/ Release(k, c)

LockSpec == LockInit /\ [][LockNext]_holder
=============================================================================
