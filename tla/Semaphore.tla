------------------------------ MODULE Semaphore ------------------------------
(***************************************************************************)
(* The counting semaphore of kernel/sync/sync.c with its plain, timed and  *)
(* non-blocking waits.  A thread that got a permit gives it back with      *)
(* semaphore_post, so that permits can be accounted for.                   *)
(***************************************************************************)
EXTENDS WaitQueue

CONSTANTS Permits,   \* the initial count
          Timed      \* the threads that use semaphore_wait_timeout

SemaphoreAssumption == Permits \in Nat /\ Timed \subseteq Threads

VARIABLES count,
          holding,   \* the threads that hold a permit (history of the calls)
          late       \* the threads whose deadline has passed

semVars == <<count, holding, late>>
vars    == <<wqVars, semVars>>

Locations == {"run", "loop", "gone", "check"}
Queues    == {"wq"}

TypeOK == /\ WqTypeOK(Queues, Locations)
          /\ count \in Nat
          /\ holding \subseteq Threads /\ late \subseteq Threads

LockInit == count = Permits /\ holding = {} /\ late = {}

Init == WqInit(Queues) /\ LockInit

WaitCall(t) ==
  /\ At(t, "run") /\ t \notin holding
  /\ late' = late \ {t}
  /\ Step(t, "loop") /\ UNCHANGED <<count, holding>>

Take(t) == /\ count' = count - 1
           /\ holding' = holding \cup {t}
           /\ UNCHANGED late

\* mutant: the count is tested but not taken under the lock
Try_NotTaken(t) ==
  /\ At(t, "loop")
  /\ IF count > 0
       THEN /\ holding' = holding \cup {t}
            /\ Step(t, "run") /\ UNCHANGED <<count, late>>
       ELSE /\ IF t \in Timed THEN Step(t, "check") ELSE Wait(t, "wq", "loop")
            /\ UNCHANGED semVars

(* One turn of semaphore_wait and semaphore_wait_timeout under s->lock.    *)
Try(t) ==
  /\ At(t, "loop")
  /\ IF count > 0
       THEN Take(t) /\ Step(t, "run")
       ELSE /\ IF t \in Timed THEN Step(t, "check") ELSE Wait(t, "wq", "loop")
            /\ UNCHANGED semVars

TryWait(t) ==
  /\ At(t, "run") /\ t \notin holding /\ count > 0
  /\ Take(t) /\ Step(t, "run")

(* The deadline is compared with the clock once s->lock is free, and the   *)
(* rest of the time is waited for.                                         *)
CheckDeadline(t) ==
  /\ At(t, "check")
  /\ IF t \in late THEN Step(t, "gone") ELSE WaitTimed(t, "wq", "loop", "gone")
  /\ UNCHANGED semVars

(* RK_ETIMEDOUT is returned.                                               *)
TimedOut(t) == At(t, "gone") /\ Step(t, "run") /\ UNCHANGED semVars

Post(t) ==
  /\ At(t, "run") /\ t \in holding
  /\ count' = count + 1
  /\ holding' = holding \ {t}
  /\ WakeOne(t, "wq", "run") /\ UNCHANGED late

(* Time passes a deadline.                                                 *)
Pass(t) == /\ t \notin late /\ pc[t] # "run"
           /\ late' = late \cup {t}
           /\ UNCHANGED <<wqVars, count, holding>>

(* The tick makes a sleeper ready only when its deadline has passed.       *)
TickWake(t) == t \in late /\ Expire(t) /\ UNCHANGED semVars

ThreadStep(t) == \/ Try(t) \/ CheckDeadline(t) \/ TimedOut(t)
                 \/ (Link(t) \/ Block(t) \/ Unlink(t) \/ Pop(t) \/ Wake(t)) /\ UNCHANGED semVars

Next == \E t \in Threads : \/ ThreadStep(t) \/ WaitCall(t) \/ TryWait(t) \/ Post(t)
                           \/ Pass(t) \/ TickWake(t)

(* A thread inside a call is scheduled, its deadline passes and the tick   *)
(* comes; nobody has to post.                                              *)
Fairness == \A t \in Threads : /\ WF_vars(ThreadStep(t))
                               /\ WF_vars(Pass(t)) /\ WF_vars(TickWake(t))

Spec == Init /\ [][Next]_vars /\ Fairness
-----------------------------------------------------------------------------
(* Whatever order posts, waits and timeouts come in, every permit is in    *)
(* the count or held by exactly one thread.                                *)
PermitsConserved == count + Cardinality(holding) = Permits

(* semaphore_wait_timeout always returns, even if nobody posts, and even   *)
(* if every wakeup it is sent arrives before it is asleep.                 *)
TimedWaitReturns == \A t \in Timed : pc[t] = "loop" ~> pc[t] = "run"
=============================================================================
