---------------------------- MODULE WaitQueueProofs ----------------------------
(* The wait queues keep their nodes in order whatever lock uses them: one   *)
(* inductive invariant, preserved by every step of WaitQueue and by every   *)
(* way a lock may enter it.  The locks' own proofs cite QueuesKept.         *)
EXTENDS WaitQueue, Lists

InQueue == {"link", "block", "unlink", "pop", "wake", "popall"}

(* The locations of a lock are its own.                                     *)
Own(locations) == "run" \in locations /\ locations \cap InQueue = {}

(* A thread inside a call names one of the lock's queues, and a waker that  *)
(* has taken a waiter off knows which.                                      *)
CallsNamed(queues) ==
  \A t \in Threads : /\ pc[t] \in InQueue => call[t].queue \in queues
                     /\ pc[t] = "wake" => waking[t] \in Threads

WqInv(queues, locations) ==
  WqTypeOK(queues, locations) /\ LinkedOnce /\ CallsNamed(queues)

(* What a lock does to the wait queues: it goes from one of its locations   *)
(* to another, or enters a call on one of its queues.                       *)
Enters(t, queues, locations) ==
  \E l \in {"link", "pop", "popall"}, q \in queues, timed \in BOOLEAN,
     woken, expired \in locations : Enter(t, l, Call(q, timed, woken, expired))

LockStep(t, queues, locations) ==
  /\ \E l \in locations : At(t, l)
  /\ Enters(t, queues, locations) \/ \E l \in locations : Step(t, l)
-----------------------------------------------------------------------------
(* The queues of a lock that is not in use.                                 *)
LEMMA QueuesStart ==
  ASSUME NEW queues, NEW locations, Own(locations), WqInit(queues)
  PROVE  WqInv(queues, locations)
<1>1. WqTypeOK(queues, locations)
  BY DEF WqInit, WqTypeOK, Own, NoCall, Call
<1>2. LinkedOnce
  BY DEF WqInit, LinkedOnce, Contains
<1>3. CallsNamed(queues)
  BY DEF WqInit, CallsNamed, InQueue
<1> QED BY <1>1, <1>2, <1>3 DEF WqInv

(* A step of a lock that calls or leaves the queues alone.                  *)
LEMMA LockStepKeeps ==
  ASSUME NEW queues, NEW locations, Own(locations), WqInv(queues, locations),
         NEW t \in Threads, LockStep(t, queues, locations)
  PROVE  WqInv(queues, locations)'
<1> USE DEF WqInv
<1>0. PICK l \in locations : At(t, l)
  BY DEF LockStep
<1>1. pc[t] \in locations /\ pc[t] \notin InQueue
  BY <1>0 DEF At, Own
<1>2. \A q \in DOMAIN waiters : ~Contains(waiters[q], t)
  BY <1>1 DEF LinkedOnce, InQueue
<1>3. CASE Enters(t, queues, locations)
  <2>1. PICK m \in {"link", "pop", "popall"}, q \in queues, timed \in BOOLEAN,
             woken \in locations, expired \in locations :
               Enter(t, m, Call(q, timed, woken, expired))
    BY <1>3 DEF Enters
  <2> DEFINE c == Call(q, timed, woken, expired)
  <2>2. /\ pc' = [pc EXCEPT ![t] = m] /\ call' = [call EXCEPT ![t] = c]
        /\ UNCHANGED <<waiters, waking, asleep>>
    BY <2>1 DEF Enter, Goto
  <2>3. c \in [queue : queues \cup {None}, timed : BOOLEAN,
               woken : locations, expired : locations] /\ c.queue = q
    BY DEF Call
  <2> HIDE DEF c
  <2>4. WqTypeOK(queues, locations)'
    BY <2>2, <2>3 DEF WqTypeOK
  <2>5. LinkedOnce'
    BY <2>2, <1>2 DEF LinkedOnce, WqTypeOK
  <2>6. CallsNamed(queues)'
    BY <2>2, <2>3 DEF CallsNamed, WqTypeOK
  <2> QED BY <2>4, <2>5, <2>6
<1>4. CASE \E m \in locations : Step(t, m)
  <2>1. PICK m \in locations : Step(t, m)
    BY <1>4
  <2>2. pc' = [pc EXCEPT ![t] = m] /\ UNCHANGED <<waiters, call, waking, asleep>>
    BY <2>1 DEF Step, Goto
  <2>3. WqTypeOK(queues, locations)'
    BY <2>2 DEF WqTypeOK
  <2>4. LinkedOnce'
    BY <2>2, <1>2 DEF LinkedOnce, WqTypeOK
  <2>5. CallsNamed(queues)'
    BY <2>2 DEF CallsNamed, WqTypeOK, Own, InQueue
  <2> QED BY <2>3, <2>4, <2>5
<1> QED BY <1>3, <1>4 DEF LockStep

(* A call returns to one of the lock's locations.                           *)
LEMMA ReturnKeeps ==
  ASSUME NEW queues, NEW locations, Own(locations), WqInv(queues, locations),
         NEW t \in Threads, NEW l \in locations, Return(t, l),
         waking' \in [Threads -> Threads \cup {None}], asleep' \subseteq Threads,
         \A u \in Threads \ {t} : waking'[u] = waking[u],
         waiters' \in [queues -> Seq(Threads)],
         \A q \in queues : /\ IsInjective(waiters[q]) => IsInjective(waiters'[q])
                           /\ ~Contains(waiters'[q], t)
                           /\ \A u : Contains(waiters'[q], u) => Contains(waiters[q], u)
  PROVE  WqInv(queues, locations)'
<1> USE DEF WqInv
<1>1. /\ pc' = [pc EXCEPT ![t] = l] /\ call' = [call EXCEPT ![t] = NoCall]
      /\ pc \in [Threads -> locations \cup InQueue] /\ l \notin InQueue
  BY DEF Return, Goto, WqTypeOK, InQueue, Own
<1>2. NoCall \in [queue : queues \cup {None}, timed : BOOLEAN,
                  woken : locations, expired : locations]
  BY DEF NoCall, Call, Own
<1>3. WqTypeOK(queues, locations)'
  BY <1>1, <1>2 DEF WqTypeOK, InQueue
<1>4. LinkedOnce'
  <2>1. SUFFICES ASSUME NEW u \in Threads, NEW q \in queues, Contains(waiters'[q], u)
                 PROVE  /\ pc'[u] \in {"block", "unlink"} /\ call'[u].queue = q
                        /\ IsInjective(waiters'[q])
    BY <1>3 DEF LinkedOnce, WqTypeOK
  <2>2. u # t /\ Contains(waiters[q], u)
    BY <2>1
  <2>3. /\ pc[u] \in {"block", "unlink"} /\ call[u].queue = q
        /\ IsInjective(waiters[q])
    BY <2>2 DEF LinkedOnce, WqTypeOK
  <2> QED BY <2>2, <2>3, <1>1 DEF WqTypeOK
<1>5. CallsNamed(queues)'
  <2>1. SUFFICES ASSUME NEW u \in Threads
                 PROVE  /\ pc'[u] \in InQueue => call'[u].queue \in queues
                        /\ pc'[u] = "wake" => waking'[u] \in Threads
    BY DEF CallsNamed
  <2>2. CASE u = t
    BY <2>2, <1>1 DEF InQueue
  <2>3. CASE u # t
    BY <2>3, <1>1 DEF CallsNamed, WqTypeOK
  <2> QED BY <2>2, <2>3
<1> QED BY <1>3, <1>4, <1>5

(* A queue somebody is linked on holds nobody twice; an empty one neither.  *)
LEMMA QueuesInjective ==
  ASSUME NEW queues, NEW locations, WqInv(queues, locations), NEW q \in queues
  PROVE  waiters[q] \in Seq(Threads) /\ IsInjective(waiters[q])
<1>1. waiters[q] \in Seq(Threads) /\ q \in DOMAIN waiters
  BY DEF WqInv, WqTypeOK
<1>2. CASE waiters[q] = <<>>
  BY <1>2 DEF IsInjective
<1>3. CASE waiters[q] # <<>>
  <2>1. waiters[q][1] \in Threads /\ Contains(waiters[q], waiters[q][1])
    BY <1>1, <1>3 DEF Contains
  <2> QED BY <1>1, <2>1 DEF LinkedOnce, WqInv
<1> QED BY <1>1, <1>2, <1>3

(* A waiter links itself, which it can only do while it is not linked.      *)
LEMMA LinkKeeps ==
  ASSUME NEW queues, NEW locations, Own(locations), WqInv(queues, locations),
         NEW t \in Threads, Link(t)
  PROVE  WqInv(queues, locations)'
<1> USE DEF WqInv
<1> DEFINE p == call[t].queue
<1>1. p \in queues /\ pc[t] = "link"
  BY DEF Link, At, CallsNamed, InQueue
<1>2. waiters[p] \in Seq(Threads) /\ ~Contains(waiters[p], t)
  BY <1>1 DEF LinkedOnce, WqTypeOK
<1> DEFINE w == Append(waiters[p], t)
<1>3. /\ waiters' = [waiters EXCEPT ![p] = w] /\ pc' = [pc EXCEPT ![t] = "block"]
      /\ UNCHANGED <<call, waking, asleep>>
  BY DEF Link, Goto, Queue
<1>4. /\ w \in Seq(Threads) /\ IsInjective(w)
      /\ \A x : Contains(w, x) <=> Contains(waiters[p], x) \/ x = t
  BY <1>1, <1>2, QueuesInjective, AppendOnce
<1> HIDE DEF p, w
<1>5. WqTypeOK(queues, locations)'
  BY <1>1, <1>3, <1>4 DEF WqTypeOK
<1>6. LinkedOnce'
  <2>1. SUFFICES ASSUME NEW u \in Threads, NEW q \in queues, Contains(waiters'[q], u)
                 PROVE  /\ pc'[u] \in {"block", "unlink"} /\ call'[u].queue = q
                        /\ IsInjective(waiters'[q])
    BY <1>5 DEF LinkedOnce, WqTypeOK
  <2>2. CASE q = p
    BY <2>1, <2>2, <1>1, <1>3, <1>4 DEF LinkedOnce, WqTypeOK, p
  <2>3. CASE q # p
    <3>1. Contains(waiters[q], u) /\ u # t
      BY <2>1, <2>3, <1>1, <1>3 DEF LinkedOnce, WqTypeOK
    <3> QED BY <3>1, <2>3, <1>3 DEF LinkedOnce, WqTypeOK
  <2> QED BY <2>2, <2>3
<1>7. CallsNamed(queues)'
  BY <1>3, <1>1 DEF CallsNamed, WqTypeOK, InQueue, p
<1> QED BY <1>5, <1>6, <1>7

(* It goes to sleep, and the tick may wake it, without touching a queue.     *)
LEMMA BlockKeeps ==
  ASSUME NEW queues, NEW locations, Own(locations), WqInv(queues, locations),
         NEW t \in Threads, Block(t) \/ Expire(t)
  PROVE  WqInv(queues, locations)'
<1> USE DEF WqInv
<1>1. /\ UNCHANGED <<waiters, call, waking>> /\ asleep' \subseteq Threads
      /\ pc' = pc \/ (pc[t] = "block" /\ pc' = [pc EXCEPT ![t] = "unlink"])
  BY DEF Block, Expire, At, Goto, WqTypeOK
<1>2. WqTypeOK(queues, locations)'
  BY <1>1 DEF WqTypeOK
<1>3. LinkedOnce'
  BY <1>1 DEF LinkedOnce, WqTypeOK
<1>4. CallsNamed(queues)'
  BY <1>1 DEF CallsNamed, WqTypeOK, InQueue
<1> QED BY <1>2, <1>3, <1>4

(* The waiter takes itself off, wherever it stands.                         *)
LEMMA UnlinkKeeps ==
  ASSUME NEW queues, NEW locations, Own(locations), WqInv(queues, locations),
         NEW t \in Threads, Unlink(t)
  PROVE  WqInv(queues, locations)'
<1> DEFINE p == call[t].queue
           w == RemoveFirst(waiters[p], t)
           l == IF Contains(waiters[p], t) THEN call[t].expired ELSE call[t].woken
<1>1. p \in queues /\ pc[t] = "unlink" /\ l \in locations
  BY DEF Unlink, At, CallsNamed, InQueue, WqInv, WqTypeOK
<1>2. /\ waiters' = [waiters EXCEPT ![p] = w] /\ Return(t, l)
      /\ UNCHANGED <<waking, asleep>>
  BY DEF Unlink, Queue
<1>3. /\ w \in Seq(Threads) /\ IsInjective(w)
      /\ \A x : Contains(w, x) <=> Contains(waiters[p], x) /\ x # t
  BY <1>1, QueuesInjective, RemoveOnce
<1>4. \A q \in queues : Contains(waiters[q], t) => q = p
  BY DEF WqInv, LinkedOnce, WqTypeOK
<1> HIDE DEF p, w, l
<1>5. /\ waiters' \in [queues -> Seq(Threads)]
      /\ waking' \in [Threads -> Threads \cup {None}] /\ asleep' \subseteq Threads
      /\ \A u \in Threads \ {t} : waking'[u] = waking[u]
  BY <1>1, <1>2, <1>3 DEF WqInv, WqTypeOK
<1>6. ASSUME NEW q \in queues
      PROVE  /\ IsInjective(waiters[q]) => IsInjective(waiters'[q])
             /\ ~Contains(waiters'[q], t)
             /\ \A u : Contains(waiters'[q], u) => Contains(waiters[q], u)
  <2>1. waiters'[q] = IF q = p THEN w ELSE waiters[q]
    BY <1>1, <1>2 DEF WqInv, WqTypeOK
  <2> QED BY <2>1, <1>3, <1>4
<1> QED BY <1>1, <1>2, <1>5, <1>6, ReturnKeeps

(* A waker takes the first waiter off, or returns when there is none.       *)
LEMMA PopKeeps ==
  ASSUME NEW queues, NEW locations, Own(locations), WqInv(queues, locations),
         NEW t \in Threads, Pop(t)
  PROVE  WqInv(queues, locations)'
<1> DEFINE p == call[t].queue
           s == waiters[p]
<1>1. p \in queues /\ pc[t] = "pop" /\ call[t].woken \in locations
  BY DEF Pop, At, CallsNamed, InQueue, WqInv, WqTypeOK
<1>2. s \in Seq(Threads) /\ IsInjective(s)
  BY <1>1, QueuesInjective
<1>3. \A q \in queues : ~Contains(waiters[q], t)
  BY <1>1 DEF WqInv, LinkedOnce, WqTypeOK
<1>4. CASE s = <<>>
  <2>1. Return(t, call[t].woken) /\ UNCHANGED <<waiters, waking, asleep>>
    BY <1>4 DEF Pop, Queue
  <2> QED BY <2>1, <1>1, <1>3, ReturnKeeps DEF WqInv, WqTypeOK
<1>5. CASE s # <<>>
  <2>1. /\ waking' = [waking EXCEPT ![t] = Head(s)]
        /\ waiters' = [waiters EXCEPT ![p] = Tail(s)]
        /\ pc' = [pc EXCEPT ![t] = "wake"] /\ UNCHANGED <<call, asleep>>
    BY <1>5 DEF Pop, Queue, Goto
  <2>2. /\ Tail(s) \in Seq(Threads) /\ IsInjective(Tail(s)) /\ Head(s) \in Threads
        /\ \A x : Contains(Tail(s), x) => Contains(s, x)
    BY <1>2, <1>5, TailOnce
  <2> DEFINE w == Tail(s)
             h == Head(s)
  <2> HIDE DEF w, h
  <2>3. WqTypeOK(queues, locations)'
    BY <2>1, <2>2, <1>1 DEF WqInv, WqTypeOK
  <2>4. LinkedOnce'
    <3>1. SUFFICES ASSUME NEW u \in Threads, NEW q \in queues, Contains(waiters'[q], u)
                   PROVE  /\ pc'[u] \in {"block", "unlink"} /\ call'[u].queue = q
                          /\ IsInjective(waiters'[q])
      BY <2>3 DEF LinkedOnce, WqTypeOK
    <3>2. waiters'[q] = IF q = p THEN Tail(s) ELSE waiters[q]
      BY <2>1, <1>1 DEF WqInv, WqTypeOK
    <3>3. Contains(waiters[q], u) /\ IsInjective(waiters'[q])
      BY <3>1, <3>2, <2>2, QueuesInjective
    <3>4. u # t
      BY <3>3, <1>3
    <3> QED BY <3>3, <3>4, <2>1 DEF WqInv, LinkedOnce, WqTypeOK
  <2>5. CallsNamed(queues)'
    BY <2>1, <2>2, <1>1 DEF WqInv, CallsNamed, WqTypeOK, InQueue
  <2> QED BY <2>3, <2>4, <2>5 DEF WqInv
<1> QED BY <1>4, <1>5

(* The waker wakes the thread it took off and returns.                       *)
LEMMA WakeKeeps ==
  ASSUME NEW queues, NEW locations, Own(locations), WqInv(queues, locations),
         NEW t \in Threads, Wake(t)
  PROVE  WqInv(queues, locations)'
<1>1. pc[t] = "wake" /\ call[t].woken \in locations
  BY DEF Wake, At, WqInv, WqTypeOK
<1>2. \A q \in queues : ~Contains(waiters[q], t)
  BY <1>1 DEF WqInv, LinkedOnce, WqTypeOK
<1>3. /\ waking' \in [Threads -> Threads \cup {None}] /\ asleep' \subseteq Threads
      /\ \A u \in Threads \ {t} : waking'[u] = waking[u]
      /\ waiters' = waiters /\ Return(t, call[t].woken)
  BY DEF Wake, WqInv, WqTypeOK
<1> QED BY <1>1, <1>2, <1>3, ReturnKeeps DEF WqInv, WqTypeOK

(* waitq_wake_all leaves its queue empty.                                    *)
LEMMA PopAllKeeps ==
  ASSUME NEW queues, NEW locations, Own(locations), WqInv(queues, locations),
         NEW t \in Threads, PopAll(t)
  PROVE  WqInv(queues, locations)'
<1> DEFINE p == call[t].queue
<1>1. p \in queues /\ pc[t] = "popall" /\ call[t].woken \in locations
  BY DEF PopAll, At, CallsNamed, InQueue, WqInv, WqTypeOK
<1>2. \A q \in queues : ~Contains(waiters[q], t)
  BY <1>1 DEF WqInv, LinkedOnce, WqTypeOK
<1>3. /\ waiters' = [waiters EXCEPT ![p] = <<>>] /\ Return(t, call[t].woken)
      /\ waking' = waking /\ asleep' \subseteq Threads
  BY DEF PopAll, Queue, WqInv, WqTypeOK
<1> HIDE DEF p
<1>4. /\ waiters' \in [queues -> Seq(Threads)]
      /\ \A q \in queues : waiters'[q] = waiters[q] \/ waiters'[q] = <<>>
  BY <1>1, <1>3 DEF WqInv, WqTypeOK
<1>5. IsInjective(<<>>) /\ \A u : ~Contains(<<>>, u)
  BY DEF IsInjective, Contains
<1>6. \A q \in queues : /\ IsInjective(waiters[q]) => IsInjective(waiters'[q])
                        /\ ~Contains(waiters'[q], t)
                        /\ \A u : Contains(waiters'[q], u) => Contains(waiters[q], u)
  BY <1>2, <1>4, <1>5
<1>7. waking' \in [Threads -> Threads \cup {None}] /\ \A u \in Threads : waking'[u] = waking[u]
  BY <1>3 DEF WqInv, WqTypeOK
<1> QED BY <1>1, <1>3, <1>4, <1>6, <1>7, ReturnKeeps

(* Whatever a lock and the wait queues do, the queues stay sound.           *)
LEMMA QueuesKept ==
  ASSUME NEW queues, NEW locations, Own(locations), WqInv(queues, locations),
         NEW t \in Threads, LockStep(t, queues, locations) \/ WqStep(t) \/ UNCHANGED wqVars
  PROVE  WqInv(queues, locations)'
<1>1. CASE UNCHANGED wqVars
  BY <1>1 DEF WqInv, WqTypeOK, LinkedOnce, CallsNamed, wqVars
<1> QED BY <1>1, LockStepKeeps, LinkKeeps, BlockKeeps, UnlinkKeeps, PopKeeps,
           WakeKeeps, PopAllKeeps DEF WqStep, WqRun

(* A step of the queues moves a thread on inside its call, takes it back to *)
(* where the call says, or makes a sleeper ready.                           *)
Moves(t)   == /\ pc[t] \in InQueue /\ call' = call
              /\ \E l \in InQueue : pc' = [pc EXCEPT ![t] = l]
              /\ pc[t] \in {"pop", "wake", "popall"} => pc' = [pc EXCEPT ![t] = "wake"]
Returns(t) == /\ pc[t] \in InQueue
              /\ \E l \in {call[t].woken, call[t].expired} : Return(t, l)

(* A step inside a call moves on in the call or returns from it.             *)
LEMMA QueueSteps ==
  ASSUME NEW t \in Threads, WqStep(t)
  PROVE  Moves(t) \/ Returns(t) \/ UNCHANGED <<pc, call>>
<1>1. Link(t) \/ Block(t) => Moves(t)
  BY DEF Link, Block, At, Goto, Moves, InQueue
<1>2. Unlink(t) \/ Wake(t) \/ PopAll(t) => Returns(t)
  BY DEF Unlink, Wake, PopAll, At, Returns, InQueue
<1>3. Pop(t) => Moves(t) \/ Returns(t)
  BY DEF Pop, At, Goto, Moves, Returns, InQueue
<1>4. Expire(t) => UNCHANGED <<pc, call>>
  BY DEF Expire
<1> QED BY <1>1, <1>2, <1>3, <1>4 DEF WqStep, WqRun
=============================================================================
