---------------------------- MODULE CancelSignal ----------------------------
(***************************************************************************)
(* The cancellation signal of one workflow task                            *)
(* (pkg/apiserver/workflow/signal/cancel.go, used by runJob).              *)
(*                                                                         *)
(* Each job of the task calls Watch when it starts and Stop when it ends.  *)
(* With Redis a single key per task is both the claim of the watching job  *)
(* (its token) and the carrier of the cancellation (a marker); the watcher *)
(* looks at the key and renews it every extendInterval, and the key is     *)
(* gone defaultExpiry after its last renewal.  Without Redis there is a    *)
(* registry of watchers in the process.                                    *)
(*                                                                         *)
(* Time is counted in intervals of extendInterval.                         *)
(***************************************************************************)
EXTENDS Naturals

CONSTANTS
  Job,      \* the jobs of the task
  Marker,   \* the value Cancel writes
  Absent,   \* the key does not exist
  Modes,    \* subset of {"redis", "local"}
  Expiry,   \* whole intervals for which a key is certain to last
            \* (defaultExpiry / extendInterval, rounded down)
  MaxErrors \* bound: failing Redis calls

ASSUME SignalAssumption ==
  /\ Expiry \in Nat \ {0}
  /\ MaxErrors \in Nat
  /\ Modes \subseteq {"redis", "local"}
  /\ Marker \notin Job
  /\ Absent \notin Job \cup {Marker}

VARIABLES
  mode,      \* whether the process has a Redis client
  key,       \* the value of the task's key: a job stands for its token
  ttl,       \* ends of an interval the key is still to outlast
  registry,  \* localCancelRegistry's watchers of the task
  job,       \* where each job is in Watch, maintain and Stop
  ended,     \* the jobs whose watcher has cancelled their context
  due,       \* a call or a tick to be dealt with before the interval ends
  errors,    \* Redis calls that failed
  lost,      \* history: intervals by which failing calls may have put off renewals
  requested, \* history: Cancel has been called
  told,      \* history: the jobs that were watched when Cancel was called
  sure       \* history: intervals for which the marker is to last

vars == <<mode, key, ttl, registry, job, ended, due, errors, lost, requested, told, sure>>

-----------------------------------------------------------------------------
TypeOK ==
  /\ mode \in Modes
  /\ key \in Job \cup {Marker, Absent}
  /\ ttl \in 0 .. Expiry + 1
  /\ registry \subseteq Job
  /\ job \in [Job -> {"new", "inspect", "unwatched", "watched", "renew", "del",
                      "done"}]
  /\ ended \subseteq Job
  /\ due \subseteq Job
  /\ errors \in Nat /\ lost \in Nat
  /\ requested \in BOOLEAN
  /\ told \subseteq Job
  /\ sure \in 0 .. Expiry

Init ==
  /\ mode \in Modes
  /\ key = Absent
  /\ ttl = 0
  /\ registry = {}
  /\ job = [j \in Job |-> "new"]
  /\ ended = {}
  /\ due = {}
  /\ errors = 0 /\ lost = 0
  /\ requested = FALSE
  /\ told = {}
  /\ sure = 0

-----------------------------------------------------------------------------
\* j moves on; what was due of it has been dealt with.
Goto(j, where) == job' = [job EXCEPT ![j] = where] /\ due' = due \ {j}

RedisError == errors < MaxErrors /\ errors' = errors + 1

\* Seeded fault: the key is given twice its expiry.
SetTwice(value) == key' = value /\ ttl' = 2 * Expiry

\* SET with an expiry, which is no whole number of intervals: the key outlasts
\* one more of them when it is set late in its interval.
Set(value) == key' = value /\ ttl' \in {Expiry, Expiry + 1}

\* The watcher ends the job's context.
cancelFn(j) == ended' = ended \cup {j}

-----------------------------------------------------------------------------
(***************************************************************************)
(* Watch.                                                                  *)
(***************************************************************************)
WatchLocal(j) ==
  /\ mode = "local"
  /\ job[j] = "new"
  /\ registry' = registry \cup {j}
  /\ Goto(j, "watched")
  /\ UNCHANGED <<mode, key, ttl, ended, errors, lost, requested, told, sure>>

\* SETNX: the key is claimed, or it is taken.  After an error runJob goes on
\* without a watcher.
Watch(j) ==
  /\ mode = "redis"
  /\ job[j] = "new"
  /\ \/ key = Absent /\ Set(j) /\ Goto(j, "watched") /\ UNCHANGED errors
     \/ key # Absent /\ Goto(j, "inspect") /\ UNCHANGED <<key, ttl, errors>>
     \/ RedisError /\ Goto(j, "unwatched") /\ UNCHANGED <<key, ttl>>
  /\ UNCHANGED <<mode, registry, ended, lost, requested, told, sure>>

\* GET: a marker cancels the job at once; a token, or a key that is gone by
\* now, is "already running" and the job goes on without a watcher.
Inspect(j) ==
  /\ job[j] = "inspect"
  /\ \/ key = Marker /\ Goto(j, "watched") /\ cancelFn(j) /\ UNCHANGED errors
     \/ key # Marker /\ Goto(j, "unwatched") /\ UNCHANGED <<ended, errors>>
     \/ RedisError /\ Goto(j, "unwatched") /\ UNCHANGED ended
  /\ UNCHANGED <<mode, key, ttl, registry, lost, requested, told, sure>>

-----------------------------------------------------------------------------
(***************************************************************************)
(* maintain.                                                               *)
(***************************************************************************)
Maintained(j) == mode = "redis" /\ job[j] = "watched" /\ j \notin ended

\* Seeded fault: a missing key is taken for an error.
StepTolerant(j) ==
  /\ Maintained(j)
  /\ j \in due
  /\ \/ key \in {j, Absent} /\ Goto(j, "renew") /\ UNCHANGED <<ended, errors, lost>>
     \/ key \notin {j, Absent} /\ Goto(j, "watched") /\ UNCHANGED <<ended, errors, lost>>
     \/ RedisError /\ lost' = lost + 1 /\ Goto(j, "watched") /\ UNCHANGED ended
  /\ UNCHANGED <<mode, key, ttl, registry, requested, told, sure>>

\* step, its GET: anything but the own token ends the context.  History: after
\* an error the key is renewed an interval later.
Step(j) ==
  /\ Maintained(j)
  /\ j \in due
  /\ \/ key = j /\ Goto(j, "renew") /\ UNCHANGED <<ended, errors, lost>>
     \/ key # j /\ Goto(j, "watched") /\ cancelFn(j) /\ UNCHANGED <<errors, lost>>
     \/ RedisError /\ lost' = lost + 1 /\ Goto(j, "watched") /\ UNCHANGED ended
  /\ UNCHANGED <<mode, key, ttl, registry, requested, told, sure>>

\* Seeded fault: step does not renew the key.
RenewNot(j) ==
  /\ job[j] = "renew"
  /\ Goto(j, "watched")
  /\ UNCHANGED <<mode, key, ttl, registry, ended, errors, lost, requested, told, sure>>

\* step, its EXPIRE: it prolongs whatever the key holds by now.  History: an
\* error may come as late as the end of the next interval.
Renew(j) ==
  /\ job[j] = "renew"
  /\ Goto(j, "watched")
  /\ \/ ttl' \in (IF key = Absent THEN {ttl} ELSE {Expiry, Expiry + 1})
        /\ UNCHANGED <<errors, lost>>
     \/ RedisError /\ lost' = lost + 2 /\ UNCHANGED ttl
  /\ UNCHANGED <<mode, key, registry, ended, requested, told, sure>>

-----------------------------------------------------------------------------
(***************************************************************************)
(* Cancel, and Stop.                                                       *)
(***************************************************************************)
\* History: the marker is to last unless some Stop is about to delete the key.
Cancel ==
  /\ requested' = TRUE
  /\ told' = told \cup {j \in Job : job[j] \in {"watched", "renew"}}
  /\ \/ /\ mode = "redis"
        /\ Set(Marker)
        /\ sure' = IF \E j \in Job : job[j] = "del" THEN sure ELSE Expiry
        /\ UNCHANGED <<registry, ended>>
     \/ /\ mode = "local"
        /\ ended' = ended \cup registry
        /\ registry' = {}
        /\ UNCHANGED <<key, ttl, sure>>
  /\ UNCHANGED <<mode, job, due, errors, lost>>

\* A job without a watcher ends.
EndUnwatched(j) ==
  /\ job[j] = "unwatched"
  /\ Goto(j, "done")
  /\ UNCHANGED <<mode, key, ttl, registry, ended, errors, lost, requested, told, sure>>

StopLocal(j) ==
  /\ mode = "local"
  /\ job[j] = "watched"
  /\ registry' = registry \ {j}
  /\ Goto(j, "done")
  /\ UNCHANGED <<mode, key, ttl, ended, errors, lost, requested, told, sure>>

\* Seeded fault: the key is deleted whoever it belongs to.
StopBlindly(j) ==
  /\ mode = "redis"
  /\ job[j] = "watched"
  /\ Goto(j, "del")
  /\ UNCHANGED <<mode, key, ttl, registry, ended, errors, lost, requested, told, sure>>

\* Stop, its GET; the maintain goroutine has ended before it.
Stop(j) ==
  /\ mode = "redis"
  /\ job[j] = "watched"
  /\ \/ key = j /\ Goto(j, "del") /\ UNCHANGED errors
     \/ key # j /\ Goto(j, "done") /\ UNCHANGED errors
     \/ RedisError /\ Goto(j, "done")
  /\ UNCHANGED <<mode, key, ttl, registry, ended, lost, requested, told, sure>>

\* Stop, its DEL: it removes whatever the key holds by now.
Delete(j) ==
  /\ job[j] = "del"
  /\ Goto(j, "done")
  /\ \/ key' = Absent /\ UNCHANGED errors
     \/ RedisError /\ UNCHANGED key
  /\ UNCHANGED <<mode, ttl, registry, ended, lost, requested, told, sure>>

-----------------------------------------------------------------------------
(***************************************************************************)
(* Time.                                                                   *)
(***************************************************************************)
\* Redis drops the key.
KeyExpires ==
  /\ key # Absent
  /\ ttl = 0
  /\ key' = Absent
  /\ UNCHANGED <<mode, ttl, registry, job, ended, due, errors, lost, requested, told, sure>>

\* An interval ends.  Every watcher's ticker fires once in the next, and a call
\* that has begun lasts at most to the end of the next (Stop has a deadline of
\* half an interval).
Tick ==
  /\ mode = "redis"
  /\ due = {}
  /\ ttl = 0 => key = Absent
  /\ ttl' = IF ttl = 0 THEN 0 ELSE ttl - 1
  /\ sure' = IF sure = 0 THEN 0 ELSE sure - 1
  /\ due' = {j \in Job : Maintained(j) \/ job[j] \in {"inspect", "renew", "del"}}
  /\ UNCHANGED <<mode, key, registry, job, ended, errors, lost, requested, told>>

Next ==
  \/ Cancel \/ KeyExpires \/ Tick
  \/ \E j \in Job :
       \/ WatchLocal(j) \/ Watch(j) \/ Inspect(j) \/ Step(j) \/ Renew(j)
       \/ EndUnwatched(j) \/ StopLocal(j) \/ Stop(j) \/ Delete(j)

Spec == Init /\ [][Next]_vars

\* Time passes and the watchers are scheduled.  Jobs need not end.
FairSpec ==
  /\ Spec
  /\ WF_vars(Tick) /\ WF_vars(KeyExpires)
  /\ \A j \in Job : WF_vars(Step(j)) /\ WF_vars(Renew(j)) /\ WF_vars(Inspect(j))
                    /\ WF_vars(Delete(j))

-----------------------------------------------------------------------------
(***************************************************************************)
(* Properties.                                                             *)
(***************************************************************************)
\* A watcher cancels its job only if somebody asked for it, as long as the
\* intervals that maintain's failing calls may have cost, and the three between
\* one renewal and the end of the next, are within the certain life of a key: the
\* token is renewed in time, and no Stop of another job deletes it.  With 45 s and
\* 10 s one GET may fail, and no EXPIRE.
NoSpuriousCancel ==
  lost + 3 <= Expiry => \A j \in Job : j \in ended => requested

\* A job that starts while a job the cancellation was sent to still runs is
\* cancelled at once, for as long as the marker is certain to last (Cancel was
\* called with no Stop between its GET and its DEL) and its own calls do not fail:
\* neither the jobs that stop nor the renewals under way take the marker away.
LateJobsAreCancelled ==
  [][\A j \in Job :
       /\ sure > 0 /\ \E k \in told : job[k] # "done"
       /\ job[j] \in {"new", "inspect"} /\ job'[j] \in {"watched", "unwatched"}
       /\ errors' = errors
       => j \in ended']_vars

\* Every job that is watched when Cancel is called has its context ended, unless
\* it ends by itself before: the marker, its expiry and even its deletion by a
\* racing Stop are all noticed at the next tick.
CancelArrives == \A j \in Job : j \in told ~> j \in ended \/ job[j] \in {"del", "done"}
=============================================================================
