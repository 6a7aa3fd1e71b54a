------------------------------ MODULE Completion ------------------------------
(***************************************************************************)
(* The completion of kernel/sync/sync.c: a flag that is set once, a plain  *)
(* and a timed wait for it, and completion_done, which wakes every waiter. *)
(***************************************************************************)
EXTENDS WaitQueue

CONSTANTS Waiters,   \* the threads that wait
          Timed      \* those of them that use completion_wait_timeout

CompletionAssumption == /\ Timed \subseteq Waiters /\ Waiters \subseteq Threads
                        /\ None \notin {"ok", "timedout"}

VARIABLES done,
          late,      \* the threads whose deadline has passed
          result     \* thread -> what its wait returned, or None

cVars == <<done, late, result>>
vars  == <<wqVars, cVars>>

Queues == {"wq"}

TypeOK == /\ WqTypeOK(Queues, {"run", "loop", "check"})
          /\ done \in BOOLEAN /\ late \subseteq Threads
          /\ result \in [Threads -> {None, "ok", "timedout"}]

LockInit == /\ done = FALSE /\ late = {}
            /\ result = [t \in Threads |-> None]

Init == WqInit(Queues) /\ LockInit

WaitCall(t) == /\ t \in Waiters /\ At(t, "run") /\ result[t] = None
               /\ Step(t, "loop") /\ UNCHANGED cVars

Returns(t, r) == result' = [result EXCEPT ![t] = r] /\ Step(t, "run") /\ UNCHANGED <<done, late>>

\* mutant: the deadline is looked at before the flag
Try_LateFirst(t) ==
  /\ At(t, "loop")
  /\ IF t \in late THEN Returns(t, "timedout") ELSE
     IF done THEN Returns(t, "ok")
             ELSE /\ IF t \in Timed THEN Step(t, "check") ELSE Wait(t, "wq", "loop")
                  /\ UNCHANGED cVars

(* One turn of the loop: the flag is read under c->lock.                   *)
Try(t) ==
  /\ At(t, "loop")
  /\ IF done THEN Returns(t, "ok")
             ELSE /\ IF t \in Timed THEN Step(t, "check") ELSE Wait(t, "wq", "loop")
                  /\ UNCHANGED cVars

\* mutant: the deadline passing is never noticed
CheckDeadline_Ignored(t) ==
  At(t, "check") /\ WaitTimed(t, "wq", "loop", "loop") /\ UNCHANGED cVars

(* The clock is read after the lock is released; what the timed wait says  *)
(* is not looked at.                                                       *)
CheckDeadline(t) ==
  /\ At(t, "check")
  /\ IF t \in late THEN Returns(t, "timedout")
                   ELSE WaitTimed(t, "wq", "loop", "loop") /\ UNCHANGED cVars

(* completion_done sets the flag, then wakes every waiter.                 *)
Done(t) == /\ t \notin Waiters /\ At(t, "run") /\ ~done
           /\ done' = TRUE
           /\ WakeAll(t, "wq", "run") /\ UNCHANGED <<late, result>>

Pass(t) == /\ t \in Timed /\ t \notin late /\ pc[t] # "run"
           /\ late' = late \cup {t}
           /\ UNCHANGED <<wqVars, done, result>>

TickWake(t) == t \in late /\ Expire(t) /\ UNCHANGED cVars

ThreadStep(t) == \/ Try(t) \/ CheckDeadline(t)
                 \/ (Link(t) \/ Block(t) \/ Unlink(t) \/ PopAll(t)) /\ UNCHANGED cVars

Next == \E t \in Threads : \/ ThreadStep(t) \/ WaitCall(t) \/ Done(t)
                           \/ Pass(t) \/ TickWake(t)

(* Threads inside a call are scheduled, the clock advances and ticks come. *)
Fairness == \A t \in Threads : /\ WF_vars(ThreadStep(t))
                               /\ WF_vars(Pass(t)) /\ WF_vars(TickWake(t))

Spec == Init /\ [][Next]_vars /\ Fairness
-----------------------------------------------------------------------------
(* completion_wait_timeout always returns, whether or not the completion   *)
(* is ever done and whenever its wakeup comes.                             *)
TimedWaitReturns == \A t \in Timed : pc[t] = "loop" ~> result[t] # None

(* A wait called on a completion that is already done never times out: it  *)
(* survives post-before-wait, however late the caller's deadline check is. *)
PostBeforeWait ==
  \A t \in Waiters : [](pc[t] = "run" /\ result[t] = None /\ done
                          => [](result[t] # "timedout"))

(* Every thread that is asleep when completion_done wakes the waiters      *)
(* returns.                                                                *)
SleepersWoken ==
  \A t \in Waiters \ Timed, d \in Threads \ Waiters :
    pc[d] = "popall" /\ t \in asleep ~> result[t] = "ok"
=============================================================================
