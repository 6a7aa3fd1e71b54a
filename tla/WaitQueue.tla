------------------------------ MODULE WaitQueue ------------------------------
(***************************************************************************)
(* Wait queues as the sleeping locks of kernel/sync/sync.c use them: the   *)
(* part of kernel/sched/sched.c that parks a thread and wakes it.  A call  *)
(* is made by setting pc to "link", "pop" or "popall"; the steps below     *)
(* then carry it out, one lock section each, and return to the location    *)
(* the caller named.  The module has no Init or Next of its own: a lock    *)
(* EXTENDS it and joins its steps to the lock's.                           *)
(*                                                                         *)
(* sched_wake is one step here: Sched models its two halves.               *)
(***************************************************************************)
EXTENDS Naturals, FiniteSets, Sequences, SequencesExt

CONSTANTS Threads,   \* the threads that share the lock
          None       \* a NULL pointer

ASSUME WaitQueueAssumption == IsFiniteSet(Threads) /\ None \notin Threads

VARIABLES waiters,   \* queue -> the threads linked on it, in order
          pc,        \* thread -> where it is
          call,      \* thread -> the arguments of its wait or wake call
          waking,    \* thread -> the thread it is about to pass to sched_wake
          asleep     \* the threads the scheduler does not run

wqVars == <<waiters, pc, call, waking, asleep>>

(* A wait on q returns to woken, or to expired if its time ran out while   *)
(* it was still linked.  A wake returns to woken.                          *)
Call(q, timed, woken, expired) ==
  [queue |-> q, timed |-> timed, woken |-> woken, expired |-> expired]

NoCall == Call(None, FALSE, "run", "run")

WqInit(queues) == /\ waiters = [q \in queues |-> <<>>]
                  /\ pc = [t \in Threads |-> "run"]
                  /\ call = [t \in Threads |-> NoCall]
                  /\ waking = [t \in Threads |-> None]
                  /\ asleep = {}

At(t, l)   == pc[t] = l /\ t \notin asleep
Goto(t, l) == pc' = [pc EXCEPT ![t] = l]

Enter(t, l, c) == /\ Goto(t, l) /\ call' = [call EXCEPT ![t] = c]
                  /\ UNCHANGED <<waiters, waking, asleep>>

Wait(t, q, back)           == Enter(t, "link", Call(q, FALSE, back, back))
WaitTimed(t, q, back, gone) == Enter(t, "link", Call(q, TRUE, back, gone))
WakeOne(t, q, back)        == Enter(t, "pop", Call(q, FALSE, back, back))
WakeAll(t, q, back)        == Enter(t, "popall", Call(q, FALSE, back, back))
Step(t, l)                 == Goto(t, l) /\ UNCHANGED <<waiters, call, waking, asleep>>
-----------------------------------------------------------------------------
Queue(t) == call[t].queue

Return(t, l) == Goto(t, l) /\ call' = [call EXCEPT ![t] = NoCall]

(* The waiter links itself under the queue's lock ...                      *)
Link(t) ==
  /\ At(t, "link")
  /\ waiters' = [waiters EXCEPT ![Queue(t)] = Append(@, t)]
  /\ Goto(t, "block")
  /\ UNCHANGED <<call, waking, asleep>>

(* ... blocks, after any wakeup that has come in between ...               *)
Block(t) ==
  /\ At(t, "block")
  /\ asleep' = asleep \cup {t}
  /\ Goto(t, "unlink")
  /\ UNCHANGED <<waiters, call, waking>>

(* ... may be made ready by the tick when its time has run out ...         *)
Expire(t) ==
  /\ t \in asleep /\ call[t].timed
  /\ asleep' = asleep \ {t}
  /\ UNCHANGED <<waiters, pc, call, waking>>

\* mutant: a waiter that timed out stays linked
Unlink_Forgotten(t) ==
  /\ At(t, "unlink")
  /\ Return(t, IF Contains(waiters[Queue(t)], t) THEN call[t].expired
                                                 ELSE call[t].woken)
  /\ UNCHANGED <<waiters, waking, asleep>>

(* ... and unlinks itself if no waker has: that is how it tells a timeout. *)
Unlink(t) ==
  /\ At(t, "unlink")
  /\ waiters' = [waiters EXCEPT ![Queue(t)] = RemoveFirst(@, t)]
  /\ Return(t, IF Contains(waiters[Queue(t)], t) THEN call[t].expired
                                                 ELSE call[t].woken)
  /\ UNCHANGED <<waking, asleep>>

(* waitq_wake_one takes the first waiter off and, with the lock released,  *)
(* wakes it.  sched_wake does nothing to a thread that is not asleep.      *)
Pop(t) ==
  /\ At(t, "pop")
  /\ IF waiters[Queue(t)] = <<>>
       THEN Return(t, call[t].woken) /\ UNCHANGED <<waiters, waking>>
       ELSE /\ waking' = [waking EXCEPT ![t] = Head(waiters[Queue(t)])]
            /\ waiters' = [waiters EXCEPT ![Queue(t)] = Tail(@)]
            /\ Goto(t, "wake") /\ UNCHANGED call
  /\ UNCHANGED asleep

Wake(t) ==
  /\ At(t, "wake")
  /\ asleep' = asleep \ {waking[t]}
  /\ waking' = [waking EXCEPT ![t] = None]
  /\ Return(t, call[t].woken)
  /\ UNCHANGED waiters

\* mutant: only the first waiter is woken
PopAll_First(t) ==
  /\ At(t, "popall")
  /\ asleep' = IF waiters[Queue(t)] = <<>> THEN asleep
                                            ELSE asleep \ {Head(waiters[Queue(t)])}
  /\ waiters' = [waiters EXCEPT ![Queue(t)] = <<>>]
  /\ Return(t, call[t].woken)
  /\ UNCHANGED waking

(* waitq_wake_all keeps the queue locked until every waiter is woken.      *)
PopAll(t) ==
  /\ At(t, "popall")
  /\ asleep' = asleep \ ToSet(waiters[Queue(t)])
  /\ waiters' = [waiters EXCEPT ![Queue(t)] = <<>>]
  /\ Return(t, call[t].woken)
  /\ UNCHANGED waking

WqRun(t)  == Link(t) \/ Block(t) \/ Unlink(t) \/ Pop(t) \/ Wake(t) \/ PopAll(t)
WqStep(t) == WqRun(t) \/ Expire(t)

WqTypeOK(queues, locations) ==
  /\ waiters \in [queues -> Seq(Threads)]
  /\ pc \in [Threads -> locations \cup {"link", "block", "unlink", "pop", "wake", "popall"}]
  /\ call \in [Threads -> [queue : queues \cup {None}, timed : BOOLEAN,
                           woken : locations, expired : locations]]
  /\ waking \in [Threads -> Threads \cup {None}]
  /\ asleep \subseteq Threads

(* A thread is linked on at most one queue, once, and only while it is in  *)
(* a wait: a wait queue node is never linked twice.                        *)
LinkedOnce ==
  \A t \in Threads, q \in DOMAIN waiters :
    Contains(waiters[q], t) =>
      /\ pc[t] \in {"block", "unlink"} /\ call[t].queue = q
      /\ IsInjective(waiters[q])
=============================================================================
