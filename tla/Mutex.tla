-------------------------------- MODULE Mutex --------------------------------
(***************************************************************************)
(* The sleeping mutex of kernel/sync/sync.c, plain or recursive, and the   *)
(* condition variable that releases it while it waits.                     *)
(***************************************************************************)
EXTENDS WaitQueue

CONSTANTS MaxDepth     \* bound: how often a thread may hold it at once

MutexAssumption == MaxDepth \in Nat

VARIABLES owner, depth,
          recursive,   \* mutex_init_recursive rather than mutex_init
          holds        \* thread -> acquisitions it has not given back (history)

mVars == <<owner, depth, recursive, holds>>
vars  == <<wqVars, mVars>>

Queues == {"mutex", "cond"}

TypeOK == /\ WqTypeOK(Queues, {"run", "lock", "condwait", "condtimed"})
          /\ owner \in Threads \cup {None}
          /\ depth \in Nat
          /\ recursive \in BOOLEAN
          /\ holds \in [Threads -> Nat]

LockInit == /\ owner = None /\ depth = 0 /\ recursive \in BOOLEAN
            /\ holds = [t \in Threads |-> 0]

Init == WqInit(Queues) /\ LockInit

(* The code asserts that a plain mutex is not locked by its owner again.   *)
MayLock(t) == IF recursive THEN holds[t] < MaxDepth ELSE holds[t] = 0

Lock(t) == At(t, "run") /\ MayLock(t) /\ Step(t, "lock") /\ UNCHANGED mVars

Acquired(t) == holds' = [holds EXCEPT ![t] = @ + 1] /\ UNCHANGED recursive
GivenBack(t) == holds' = [holds EXCEPT ![t] = @ - 1] /\ UNCHANGED recursive

Take(t) == \/ owner = None /\ owner' = t /\ depth' = 1 /\ Acquired(t)
           \/ /\ recursive /\ owner = t
              /\ depth' = depth + 1 /\ Acquired(t) /\ UNCHANGED owner

Takeable(t) == owner = None \/ (recursive /\ owner = t)

(* One turn of mutex_lock's loop.                                          *)
TryLock(t) ==
  /\ At(t, "lock")
  /\ \/ Take(t) /\ Step(t, "run")
     \/ ~Takeable(t) /\ Wait(t, "mutex", "lock") /\ UNCHANGED mVars

MutexTrylock(t) == At(t, "run") /\ MayLock(t) /\ Take(t) /\ Step(t, "run")

\* mutant: the depth of a recursive mutex is not looked at
Release_Whole(t, back) ==
  /\ GivenBack(t)
  /\ owner' = None /\ depth' = 0 /\ WakeOne(t, "mutex", back)

(* mutex_unlock, which returns to back.                                    *)
Release(t, back) ==
  /\ GivenBack(t)
  /\ IF depth > 1
       THEN depth' = depth - 1 /\ UNCHANGED owner /\ Step(t, back)
       ELSE owner' = None /\ depth' = 0 /\ WakeOne(t, "mutex", back)

Unlock(t) == At(t, "run") /\ holds[t] > 0 /\ Release(t, "run")

\* mutant: the condition is waited for with the mutex held
CondWait_Holding(t) ==
  /\ At(t, "run") /\ holds[t] > 0
  /\ Step(t, "condwait") /\ UNCHANGED mVars

(* condvar_wait and condvar_wait_timeout: unlock, wait, lock again.        *)
CondWait(t) ==
  /\ At(t, "run") /\ holds[t] > 0
  /\ Release(t, "condwait") \/ Release(t, "condtimed")

CondSleep(t) ==
  /\ \/ At(t, "condwait") /\ Wait(t, "cond", "lock")
     \/ At(t, "condtimed") /\ WaitTimed(t, "cond", "lock", "lock")
  /\ UNCHANGED mVars

Signal(t) == /\ At(t, "run")
             /\ WakeOne(t, "cond", "run") \/ WakeAll(t, "cond", "run")
             /\ UNCHANGED mVars

Next == \E t \in Threads :
          \/ Lock(t) \/ TryLock(t) \/ MutexTrylock(t) \/ Unlock(t)
          \/ CondWait(t) \/ CondSleep(t) \/ Signal(t)
          \/ WqStep(t) /\ UNCHANGED mVars

Spec == Init /\ [][Next]_vars
-----------------------------------------------------------------------------
(* At most one thread is between mutex_lock and mutex_unlock, counting     *)
(* recursion and the waits on a condition in between, and the owner and    *)
(* depth are exactly that thread and how often it locked.                  *)
HolderOwns == \A t \in Threads : IF owner = t THEN holds[t] = depth /\ depth > 0
                                              ELSE holds[t] = 0

(* A thread that waits on the condition does not own the mutex, so that    *)
(* the thread that is to make the condition true can take it.              *)
WaiterReleases == \A t \in Threads : Contains(waiters["cond"], t) => owner # t
=============================================================================
