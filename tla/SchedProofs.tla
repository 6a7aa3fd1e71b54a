----------------------------- MODULE SchedProofs -----------------------------
(* The safety of the scheduler, for any number of threads, on one core     *)
(* with every operation but the timed wait, and on any number of cores     *)
(* with the operations that never block.                                   *)
EXTENDS Sched, TLAPS

OneCpu == \A c, d \in Cpus : c = d

NeverBlocks == Ops \subseteq {"yield", "start", "exit"}

(* The configurations in which the code keeps its promises.  The run       *)
(* SchedSmpBlock leaves them: a thread blocks while two cores are online.  *)
SafeConfig == NeverBlocks \/ (OneCpu /\ "timedwait" \notin Ops)

(* What __schedule, context_switch and sched_finish_switch hand over.      *)
PhaseInv == \A c \in Cpus :
  /\ phase[c] = "exec"   => target[c] = None /\ prevPending[c] = None
  /\ phase[c] = "switch" => /\ target[c] \in (Threads \cup {Idle}) \ {current[c]}
                            /\ prevPending[c] \in {None, current[c]}
  /\ phase[c] = "finish" => target[c] = None /\ prevPending[c] # current[c]
  /\ phase[c] = "expire" => target[c] \in Threads /\ prevPending[c] = None

(* Every thread is in one place: linked, executing, picked, or pending.    *)
LinkInv == \A t \in Threads :
  /\ links[t] \in {0, 1}
  /\ links[t] = 1 => /\ state[t] = "ready"
                     /\ \A c \in Cpus : t \notin {current[c], target[c], prevPending[c]}
  /\ state[t] = "ready" => links[t] = 1 \/ \E c \in Cpus : target[c] = t

CurrentInv == \A c \in Cpus : \A t \in Threads : current[c] = t =>
  /\ \A d \in Cpus : d # c => current[d] # t
  /\ state[t] \in {"running", "zombie"}
       \/ (phase[c] = "switch" /\ state[t] \in {"blocked", "sleeping"})
  /\ phase[c] = "switch" => (state[t] = "running" <=> prevPending[c] = t)

TargetInv == \A c \in Cpus : \A t \in Threads : target[c] = t =>
  /\ state[t] = "ready"
  /\ \A d \in Cpus : current[d] # t /\ prevPending[d] # t
  /\ \A d \in Cpus : d # c => target[d] # t

PendingInv == \A c \in Cpus : \A t \in Threads : prevPending[c] = t =>
  /\ state[t] = "running"
  /\ \A d \in Cpus : d # c => current[d] # t /\ prevPending[d] # t

RunningInv == \A t \in Threads : state[t] = "running" =>
                \E c \in Cpus : t \in {current[c], prevPending[c]}

(* Where a thread can be, given its state, and who is about to wake it.    *)
PcInv == \A t \in Threads :
  /\ state[t] = "blocked"  => pc[t] = "unlink"
  /\ state[t] = "sleeping" => pc[t] = "run"
  /\ state[t] = "new"      => pc[t] = "run"
  /\ state[t] = "zombie"  <=> pc[t] = "exiting"
  /\ pc[t] # "tqueued"
  /\ ~OneCpu => pc[t] \in {"run", "exiting"} /\ state[t] \notin {"blocked", "sleeping"}

WakeInv ==
  /\ \A t \in waiters : pc[t] = "queued" \/ state[t] = "blocked"
  /\ \A t \in Threads : pc[t] \in {"check", "enqueue"} =>
       /\ arg[t] \in Threads \ waiters
       /\ pc[arg[t]] = "queued" \/ state[arg[t]] = "blocked"
       /\ pc[t] = "enqueue" => state[arg[t]] = "blocked"
       /\ \A u \in Threads : pc[u] \in {"check", "enqueue"} /\ arg[u] = arg[t] => u = t

PreemptInv == \A t \in Threads :
  /\ pc[t] = "pdisable" => arg[t] \in Cpus
  /\ pc[t] = "nopreempt" =>
       \E c \in Cpus : current[c] = t /\ phase[c] # "switch" /\ preemptOff[c] > 0

PlaceInv == /\ PhaseInv /\ LinkInv /\ CurrentInv
            /\ TargetInv /\ PendingInv /\ RunningInv

IInv == TypeOK /\ PlaceInv /\ PcInv /\ WakeInv /\ PreemptInv
-----------------------------------------------------------------------------
(* __schedule keeps the types, whoever calls it.                           *)
LEMMA ScheduleType ==
  ASSUME NEW c \in Cpus, NEW ps \in States, TypeOK, Schedule(c, ps)
  PROVE  /\ state' \in [Threads -> States] /\ links' \in [Threads -> 0..2]
         /\ current' \in [Cpus -> Threads \cup {Idle}] /\ phase' \in [Cpus -> Phases]
         /\ target' \in [Cpus -> Threads \cup {Idle, None}]
         /\ prevPending' \in [Cpus -> Threads \cup {None}]
         /\ needResched' \in [Cpus -> BOOLEAN]
<1> DEFINE st == IF current[c] # Idle /\ ps # "running"
                  THEN [state EXCEPT ![current[c]] = ps] ELSE state
<1>1. st \in [Threads -> States]
  BY DEF TypeOK
<1>2. PICK next \in Threads \cup {Idle} :
        /\ state' = st
        /\ links' = IF next = Idle THEN links ELSE Unlinked(links, next)
        /\ prevPending' = IF current[c] # Idle /\ st[current[c]] = "running"
                            THEN [prevPending EXCEPT ![c] = current[c]] ELSE prevPending
        /\ needResched' = [needResched EXCEPT ![c] = FALSE]
        /\ target' = [target EXCEPT ![c] = IF next = current[c] THEN None ELSE next]
        /\ phase'  = [phase EXCEPT ![c] = IF next = current[c] THEN "exec" ELSE "switch"]
        /\ UNCHANGED current
  BY Zenon DEF Schedule, Queued
<1> HIDE DEF st
<1>3. links' \in [Threads -> 0..2]
  BY <1>2 DEF TypeOK, Unlinked
<1>4. prevPending' \in [Cpus -> Threads \cup {None}]
  BY <1>2 DEF TypeOK
<1> QED BY <1>1, <1>2, <1>3, <1>4 DEF TypeOK, Phases

LEMMA EnqueueType ==
  ASSUME NEW t, TypeOK, RqEnqueue(t)
  PROVE  state' \in [Threads -> States] /\ links' \in [Threads -> 0..2]
<1>1. state' \in [Threads -> States]
  BY DEF TypeOK, RqEnqueue, States
<1>2. \A u \in Threads : links[u] \in 0..2 => (IF links[u] = 2 THEN 2 ELSE links[u] + 1) \in 0..2
  OBVIOUS
<1>3. links' \in [Threads -> 0..2]
  BY <1>2 DEF TypeOK, RqEnqueue, Linked
<1> QED BY <1>1, <1>3

LEMMA WakeNextType ==
  ASSUME NEW t \in Threads, TypeOK, WakeNext(t)
  PROVE  /\ pc' \in [Threads -> Pcs]
         /\ arg' \in [Threads -> Threads \cup Cpus \cup {None}]
         /\ waiters' \subseteq Threads /\ wlock' \in Threads \cup {None}
  BY DEF TypeOK, WakeNext, Goto, Pcs

(* The values every variable can take, in every configuration: a core in   *)
(* the middle of a switch has a thread to switch to.                       *)
TypeInv == TypeOK /\ \A c \in Cpus : phase[c] = "switch" => target[c] # None

LEMMA TypeInit == Init => TypeInv
  BY SchedAssumption DEF Init, TypeInv, TypeOK, States, Pcs, Phases

LEMMA TypeStep == TypeInv /\ [Next]_vars => TypeInv'
<1> SUFFICES ASSUME TypeInv, [Next]_vars PROVE TypeInv'
  OBVIOUS
<1> USE SchedAssumption
<1> USE DEF TypeInv, threadVars, waitVars, cpuVars, flagVars
<1>s. ASSUME NEW c \in Cpus, NEW ps \in States, Schedule(c, ps)
      PROVE  \A d \in Cpus : phase'[d] = "switch" => target'[d] # None
  BY <1>s DEF TypeOK, Schedule, Queued, Phases
<1>1. ASSUME NEW c \in Cpus, CpuStep(c) PROVE TypeInv'
  <2>1. CASE ContextSwitch(c)
    BY <2>1 DEF ContextSwitch, TypeOK, States, Phases
  <2>2. CASE FinishSwitch(c)
    <3>1. state' \in [Threads -> States] /\ links' \in [Threads -> 0..2]
      BY <2>2, EnqueueType DEF FinishSwitch, TypeOK
    <3> QED BY <2>2, <3>1 DEF FinishSwitch, TypeOK, Phases
  <2>3. CASE TickEnqueue(c)
    <3>1. state' \in [Threads -> States] /\ links' \in [Threads -> 0..2]
      BY <2>3, EnqueueType DEF TickEnqueue
    <3> QED BY <2>3, <3>1 DEF TickEnqueue, TypeOK, Phases
  <2>4. CASE TickResched(c)
    <3>1. CASE Schedule(c, "running") /\ UNCHANGED <<pc, arg, preemptOff, idling, waitVars>>
      BY <3>1, <1>s, ScheduleType DEF TypeOK, States
    <3>2. CASE UNCHANGED <<threadVars, cpuVars, preemptOff, idling, waitVars>>
               /\ \E b \in BOOLEAN : needResched' = [needResched EXCEPT ![c] = b]
      BY <3>2 DEF TypeOK
    <3> QED BY <2>4, <3>1, <3>2 DEF TickResched, TypeOK
  <2>5. CASE IdleHalt(c)
    BY <2>5 DEF IdleHalt, TypeOK
  <2>6. CASE IdleWake(c)
    <3>1. idling' \in [Cpus -> BOOLEAN]
      BY <2>6 DEF IdleWake, TypeOK
    <3> QED BY <2>6, <3>1, <1>s, ScheduleType DEF IdleWake, TypeOK, States
  <2>7. ASSUME NEW t \in Threads, TickExpire(c, t) PROVE TypeInv'
    BY <2>7 DEF TickExpire, TypeOK, States, Phases
  <2> QED BY <1>1, <2>1, <2>2, <2>3, <2>4, <2>5, <2>6, <2>7 DEF CpuStep
<1>2. ASSUME NEW c \in Cpus, NEW t \in Threads, ThreadStep(c, t) PROVE TypeInv'
  <2>1. CASE Yield(c, t)
    BY <2>1, <1>s, ScheduleType DEF Yield, TypeOK, States
  <2>2. CASE Sleep(c, t)
    BY <2>2, <1>s, ScheduleType DEF Sleep, TypeOK, States
  <2>3. CASE WaitLink(c, t)
    BY <2>3 DEF WaitLink, Goto, TypeOK, Pcs
  <2>4. CASE WaitBlock(c, t)
    <3>1. pc' \in [Threads -> Pcs]
      BY <2>4 DEF WaitBlock, Goto, TypeOK, Pcs
    <3>2. \E ps \in States : Schedule(c, ps)
      BY <2>4 DEF WaitBlock, States
    <3> QED BY <2>4, <3>1, <3>2, <1>s, ScheduleType DEF WaitBlock, TypeOK
  <2>5. CASE WaitUnlink(c, t)
    BY <2>5 DEF WaitUnlink, Goto, TypeOK, Pcs
  <2>6. CASE WakeCheck(c, t)
    <3>1. CASE WakeNext(t)
      BY <2>6, <3>1, WakeNextType DEF WakeCheck, TypeOK
    <3>2. CASE Goto(t, "enqueue") /\ UNCHANGED <<arg, waitVars>>
      BY <2>6, <3>2 DEF WakeCheck, Goto, TypeOK, Pcs
    <3> QED BY <2>6, <3>1, <3>2 DEF WakeCheck
  <2>7. CASE WakeEnqueue(c, t)
    <3>1. needResched' \in [Cpus -> BOOLEAN]
      BY <2>7 DEF WakeEnqueue
    <3>2. state' \in [Threads -> States] /\ links' \in [Threads -> 0..2]
      BY <2>7, EnqueueType DEF WakeEnqueue
    <3> QED BY <2>7, <3>1, <3>2, WakeNextType DEF WakeEnqueue, TypeOK
  <2>8. CASE PreemptLookup(c, t)
    BY <2>8 DEF PreemptLookup, Goto, TypeOK, Pcs
  <2>9. CASE PreemptDisable(c, t)
    <3>0. preemptOff' = [preemptOff EXCEPT ![arg[t]] = preemptOff[arg[t]] + 1]
      BY <2>9 DEF PreemptDisable
    <3>1. preemptOff' \in [Cpus -> Nat]
      <4> HIDE DEF TypeInv
      <4>1. preemptOff \in [Cpus -> Nat]
        BY DEF TypeInv, TypeOK
      <4>2. preemptOff' = [d \in Cpus |-> IF d = arg[t] THEN preemptOff[d] + 1
                                                     ELSE preemptOff[d]]
        BY <3>0, <4>1
      <4> QED BY <4>1, <4>2
    <3> QED BY <2>9, <3>1 DEF PreemptDisable, Goto, TypeOK, Pcs
  <2>10. CASE PreemptEnable(c, t)
    <3>1. pc' \in [Threads -> Pcs] /\ preemptOff' \in [Cpus -> Nat]
      BY <2>10 DEF PreemptEnable, Goto, TypeOK, Pcs
    <3>2. CASE Schedule(c, "running")
      BY <2>10, <3>1, <3>2, <1>s, ScheduleType DEF PreemptEnable, TypeOK, States
    <3>3. CASE UNCHANGED <<state, links, cpuVars, needResched>>
      BY <2>10, <3>1, <3>3 DEF PreemptEnable, TypeOK
    <3> QED BY <2>10, <3>2, <3>3 DEF PreemptEnable
  <2>11. CASE Exit(c, t)
    BY <2>11 DEF Exit, Goto, TypeOK, Pcs, States
  <2>12. CASE ExitSchedule(c, t)
    BY <2>12, <1>s, ScheduleType DEF ExitSchedule, TypeOK, States
  <2>13. ASSUME NEW u \in Threads, WakePop(c, t, u) PROVE TypeInv'
    BY <2>13 DEF WakePop, Goto, TypeOK, Pcs
  <2>14. ASSUME NEW u \in Threads, SetClass(c, t, u) PROVE TypeInv'
    BY <2>14 DEF SetClass, Linked, Unlinked, TypeOK
  <2>15. ASSUME NEW u \in Threads, StartThread(c, t, u) PROVE TypeInv'
    BY <2>15, EnqueueType DEF StartThread, TypeOK
  <2> QED BY <1>2, <2>1, <2>2, <2>3, <2>4, <2>5, <2>6, <2>7, <2>8, <2>9,
             <2>10, <2>11, <2>12, <2>13, <2>14, <2>15 DEF ThreadStep
<1>3. CASE UNCHANGED vars
  BY <1>3 DEF vars, TypeOK
<1> QED BY <1>1, <1>2, <1>3 DEF Next

(* Every variable keeps its type: in particular current is never NULL and  *)
(* prev_pending never the idle thread.                                     *)
THEOREM TypeCorrect == Spec => []TypeOK
<1>1. TypeInv => TypeOK
  BY DEF TypeInv
<1> QED BY <1>1, TypeInit, TypeStep, PTL DEF Spec
-----------------------------------------------------------------------------
(* How each step of a core moves threads between the queue, the cores and  *)
(* their pending slots.                                                    *)
LEMMA SchedulePlace ==
  ASSUME TypeOK, PlaceInv, NEW c \in Cpus, phase[c] = "exec",
         NEW ps \in {"running", "blocked", "sleeping", "zombie"}, Schedule(c, ps)
  PROVE  PlaceInv'
<1> USE SchedAssumption
<1> DEFINE prev == current[c]
           st == IF prev # Idle /\ ps # "running"
                   THEN [state EXCEPT ![prev] = ps] ELSE state
<1>1. PICK next \in IF Queued = {} THEN {Idle} ELSE Queued :
        /\ state' = st
        /\ links' = IF next = Idle THEN links ELSE Unlinked(links, next)
        /\ prevPending' = IF prev # Idle /\ st[prev] = "running"
                            THEN [prevPending EXCEPT ![c] = prev] ELSE prevPending
        /\ needResched' = [needResched EXCEPT ![c] = FALSE]
        /\ target' = [target EXCEPT ![c] = IF next = prev THEN None ELSE next]
        /\ phase'  = [phase EXCEPT ![c] = IF next = prev THEN "exec" ELSE "switch"]
        /\ UNCHANGED current
  BY Zenon DEF Schedule
<1>2. /\ next \in Threads \cup {Idle}
      /\ next # Idle => links[next] = 1 /\ state[next] = "ready"
      /\ next # Idle => \A d \in Cpus : next \notin {current[d], target[d], prevPending[d]}
  BY DEF Queued, PlaceInv, LinkInv
<1>3. /\ target[c] = None /\ prevPending[c] = None
      /\ prev \in Threads => state[prev] \in {"running", "zombie"} /\ links[prev] = 0
  BY DEF PlaceInv, PhaseInv, CurrentInv, LinkInv, TypeOK
<1>4. /\ \A t \in Threads : t # prev => st[t] = state[t]
      /\ prev \in Threads => st[prev] \in {"running", "blocked", "sleeping", "zombie"}
  BY <1>3 DEF TypeOK
<1> HIDE DEF st
<1>5. \A t \in Threads : links'[t] = IF t = next THEN 0 ELSE links[t]
  BY <1>1, <1>2 DEF Unlinked, TypeOK
<1>6. PhaseInv'
  BY <1>1, <1>2, <1>3 DEF PlaceInv, PhaseInv, TypeOK
<1>7. LinkInv'
  BY <1>1, <1>2, <1>3, <1>4, <1>5 DEF PlaceInv, LinkInv, TypeOK
<1>8. CurrentInv'
  BY <1>1, <1>2, <1>3, <1>4 DEF PlaceInv, CurrentInv, TypeOK
<1>9. TargetInv'
  BY <1>1, <1>2, <1>3, <1>4 DEF PlaceInv, TargetInv, LinkInv, TypeOK
<1>10. PendingInv'
  BY <1>1, <1>2, <1>3, <1>4 DEF PlaceInv, PendingInv, CurrentInv, TypeOK
<1>11. RunningInv'
  BY <1>1, <1>2, <1>3, <1>4 DEF PlaceInv, RunningInv, TypeOK
<1> QED BY <1>6, <1>7, <1>8, <1>9, <1>10, <1>11 DEF PlaceInv

LEMMA SwitchPlace ==
  ASSUME TypeOK, PlaceInv, NEW c \in Cpus, ContextSwitch(c) PROVE PlaceInv'
<1> USE SchedAssumption DEF ContextSwitch
<1>1. /\ target[c] \in (Threads \cup {Idle}) \ {current[c]}
      /\ prevPending[c] \in {None, current[c]}
  BY DEF PlaceInv, PhaseInv
<1>2. target[c] \in Threads => state[target[c]] = "ready" /\ links[target[c]] = 0
  BY DEF PlaceInv, TargetInv, LinkInv, TypeOK
<1>3. PhaseInv'
  BY <1>1 DEF PlaceInv, PhaseInv, TypeOK
<1>4. LinkInv'
  BY <1>1, <1>2 DEF PlaceInv, LinkInv, TypeOK
<1>5. CurrentInv'
  BY <1>1, <1>2 DEF PlaceInv, CurrentInv, TargetInv, TypeOK
<1>6. TargetInv'
  BY <1>1, <1>2 DEF PlaceInv, TargetInv, TypeOK
<1>7. PendingInv'
  BY <1>1, <1>2 DEF PlaceInv, PendingInv, TargetInv, TypeOK
<1>8. RunningInv'
  BY <1>1, <1>2 DEF PlaceInv, RunningInv, CurrentInv, TypeOK
<1> QED BY <1>3, <1>4, <1>5, <1>6, <1>7, <1>8 DEF PlaceInv

(* Enqueueing an unlinked thread links it once and makes it ready.         *)
LEMMA EnqueueEffect ==
  ASSUME TypeOK, NEW t \in Threads, links[t] = 0, RqEnqueue(t)
  PROVE  \A u \in Threads : /\ links'[u] = IF u = t THEN 1 ELSE links[u]
                            /\ state'[u] = IF u = t THEN "ready" ELSE state[u]
<1>1. \A u \in Threads : state'[u] = IF u = t THEN "ready" ELSE state[u]
  BY DEF RqEnqueue, TypeOK
<1>2. links' = [links EXCEPT ![t] = IF links[t] = 2 THEN 2 ELSE links[t] + 1]
  BY DEF RqEnqueue, Linked
<1>3. (IF links[t] = 2 THEN 2 ELSE links[t] + 1) = 1
  OBVIOUS
<1>4. \A u \in Threads : links'[u] = IF u = t THEN 1 ELSE links[u]
  BY <1>2, <1>3 DEF TypeOK
<1> QED BY <1>1, <1>4

(* A thread that is nowhere else may be put on the queue.                  *)
LEMMA EnqueuePlace ==
  ASSUME TypeOK, PlaceInv, NEW t \in Threads, links[t] = 0, RqEnqueue(t),
         \A c \in Cpus : t \notin {current[c], target[c], prevPending[c]},
         UNCHANGED cpuVars
  PROVE  PlaceInv'
<1> USE SchedAssumption DEF cpuVars
<1>1. \A u \in Threads : /\ links'[u] = IF u = t THEN 1 ELSE links[u]
                         /\ state'[u] = IF u = t THEN "ready" ELSE state[u]
  BY EnqueueEffect
<1>2. PhaseInv'
  BY DEF PlaceInv, PhaseInv
<1>3. LinkInv'
  BY <1>1 DEF PlaceInv, LinkInv
<1>4. CurrentInv' /\ TargetInv'
  BY <1>1 DEF PlaceInv, CurrentInv, TargetInv
<1>5. PendingInv' /\ RunningInv'
  BY <1>1 DEF PlaceInv, PendingInv, RunningInv
<1> QED BY <1>2, <1>3, <1>4, <1>5 DEF PlaceInv

LEMMA FinishPlace ==
  ASSUME TypeOK, PlaceInv, NEW c \in Cpus, FinishSwitch(c) PROVE PlaceInv'
<1> USE SchedAssumption DEF FinishSwitch
<1>1. CASE prevPending[c] = None
  <2>1. UNCHANGED <<state, links, current, target>> /\ prevPending' = prevPending
    BY <1>1 DEF TypeOK
  <2>2. PhaseInv'
    BY <2>1, <1>1 DEF PlaceInv, PhaseInv, TypeOK
  <2> QED BY <2>1, <2>2 DEF PlaceInv, LinkInv, CurrentInv, TargetInv, PendingInv,
                           RunningInv, TypeOK
<1>2. CASE prevPending[c] # None
  <2> DEFINE p == prevPending[c]
  <2>1. p \in Threads /\ state[p] = "running" /\ links[p] = 0
    BY <1>2 DEF PlaceInv, PendingInv, LinkInv, TypeOK
  <2>2. \A d \in Cpus : /\ p \notin {current[d], target[d]}
                        /\ d # c => p # prevPending[d]
    BY <2>1 DEF PlaceInv, PhaseInv, PendingInv, TargetInv, TypeOK
  <2>3. \A u \in Threads : /\ links'[u] = IF u = p THEN 1 ELSE links[u]
                           /\ state'[u] = IF u = p THEN "ready" ELSE state[u]
    BY <1>2, <2>1, EnqueueEffect
  <2>4. \A d \in Cpus : prevPending'[d] = IF d = c THEN None ELSE prevPending[d]
    BY DEF TypeOK
  <2>5. \A d \in Cpus : phase'[d] = IF d = c THEN "exec" ELSE phase[d]
    BY DEF TypeOK
  <2> HIDE DEF p
  <2>6. PhaseInv'
    BY <2>4, <2>5 DEF PlaceInv, PhaseInv
  <2>7. LinkInv'
    BY <2>1, <2>2, <2>3, <2>4 DEF PlaceInv, LinkInv
  <2>8. CurrentInv' /\ TargetInv'
    BY <2>1, <2>2, <2>3, <2>4, <2>5 DEF PlaceInv, CurrentInv, TargetInv
  <2>9. PendingInv' /\ RunningInv'
    BY <2>1, <2>2, <2>3, <2>4 DEF PlaceInv, PendingInv, RunningInv, p
  <2> QED BY <2>6, <2>7, <2>8, <2>9 DEF PlaceInv
<1> QED BY <1>1, <1>2
-----------------------------------------------------------------------------
(* Where nothing moves, nothing is disturbed.                              *)
LEMMA SamePlace ==
  ASSUME PlaceInv, UNCHANGED <<state, links, cpuVars>> PROVE PlaceInv'
  BY DEF PlaceInv, PhaseInv, LinkInv, CurrentInv, TargetInv, PendingInv, RunningInv, cpuVars

(* A core that makes threads ready or running, and touches no program      *)
(* counter, disturbs no wait and no wake.                                  *)
LEMMA SameCalls ==
  ASSUME PcInv, WakeInv, UNCHANGED <<pc, arg, waiters>>,
         \A t \in Threads : \/ state'[t] = state[t]
                            \/ /\ state[t] \in {"ready", "running", "sleeping"}
                               /\ state'[t] \in {"ready", "running"},
         waiters \subseteq Threads
  PROVE  PcInv' /\ WakeInv'
<1>1. PcInv'
  BY DEF PcInv
<1>2. WakeInv'
  BY DEF WakeInv, PcInv
<1> QED BY <1>1, <1>2

LEMMA SamePreempt ==
  ASSUME PreemptInv, TypeOK, UNCHANGED <<pc, arg, preemptOff>>, NEW c \in Cpus,
         \A d \in Cpus : d # c => current'[d] = current[d] /\ phase'[d] = phase[d],
         \/ current[c] = Idle \/ preemptOff[c] = 0 \/ phase[c] = "switch"
         \/ current[c] \in Threads /\ pc[current[c]] # "nopreempt"
         \/ current'[c] = current[c] /\ phase'[c] # "switch"
  PROVE  PreemptInv'
  BY SchedAssumption DEF PreemptInv

(* What is known of a thread while it executes.                            *)
LEMMA ExecFacts ==
  ASSUME IInv, NEW c \in Cpus, NEW t \in Threads, Exec(c, t)
  PROVE  /\ state[t] = IF pc[t] = "exiting" THEN "zombie" ELSE "running"
         /\ links[t] = 0 /\ target[c] = None /\ prevPending[c] = None
         /\ pc[t] \notin {"run", "exiting"} => OneCpu
         /\ t \in waiters => pc[t] = "queued"
         /\ \A u \in Threads : pc[u] \in {"check", "enqueue"} /\ arg[u] = t
                               => pc[t] = "queued"
<1>1. state[t] \in {"running", "zombie"} /\ links[t] = 0
  BY DEF IInv, PlaceInv, CurrentInv, LinkInv, Exec, TypeOK
<1>2. target[c] = None /\ prevPending[c] = None
  BY DEF IInv, PlaceInv, PhaseInv, Exec
<1>3. state[t] = "zombie" <=> pc[t] = "exiting"
  BY DEF IInv, PcInv
<1>4. pc[t] \notin {"run", "exiting"} => OneCpu
  BY DEF IInv, PcInv
<1>5. t \in waiters => pc[t] = "queued"
  BY <1>1 DEF IInv, WakeInv
<1>6. \A u \in Threads : pc[u] \in {"check", "enqueue"} /\ arg[u] = t => pc[t] = "queued"
  BY <1>1 DEF IInv, WakeInv
<1> QED BY <1>1, <1>2, <1>3, <1>4, <1>5, <1>6

LEMMA CpuStepInv ==
  ASSUME IInv, SafeConfig, NEW c \in Cpus, CpuStep(c)
  PROVE  PlaceInv' /\ PcInv' /\ WakeInv' /\ PreemptInv'
<1> USE SchedAssumption DEF waitVars, flagVars
<1>0. TypeOK /\ PlaceInv /\ PcInv /\ WakeInv /\ PreemptInv /\ waiters \subseteq Threads
  BY DEF IInv, TypeOK
<1>1. CASE ContextSwitch(c)
  <2>1. PlaceInv'
    BY <1>0, <1>1, SwitchPlace
  <2>2. \A t \in Threads : \/ state'[t] = state[t]
                           \/ state[t] = "ready" /\ state'[t] = "running"
    BY <1>0, <1>1 DEF ContextSwitch, PlaceInv, TargetInv, TypeOK
  <2>3. PcInv' /\ WakeInv'
    BY <1>0, <1>1, <2>2, SameCalls DEF ContextSwitch
  <2>4. PreemptInv'
    BY <1>0, <1>1, SamePreempt DEF ContextSwitch, TypeOK
  <2> QED BY <2>1, <2>3, <2>4
<1>2. CASE FinishSwitch(c)
  <2>1. PlaceInv'
    BY <1>0, <1>2, FinishPlace
  <2>2. \A t \in Threads : \/ state'[t] = state[t]
                           \/ state[t] = "running" /\ state'[t] = "ready"
    BY <1>0, <1>2 DEF FinishSwitch, RqEnqueue, PlaceInv, PendingInv, TypeOK
  <2>3. PcInv' /\ WakeInv'
    BY <1>0, <1>2, <2>2, SameCalls DEF FinishSwitch
  <2>4. PreemptInv'
    BY <1>0, <1>2, SamePreempt DEF FinishSwitch, TypeOK
  <2> QED BY <2>1, <2>3, <2>4
<1>3. CASE TickEnqueue(c)
  <2> DEFINE t == target[c]
  <2>1. /\ t \in Threads /\ state[t] = "ready" /\ links[t] = 0 /\ prevPending[c] = None
        /\ \A d \in Cpus : current[d] # t /\ prevPending[d] # t /\ (d # c => target[d] # t)
    BY <1>0, <1>3 DEF TickEnqueue, PlaceInv, PhaseInv, TargetInv, LinkInv, TypeOK
  <2>2. \A u \in Threads : /\ links'[u] = IF u = t THEN 1 ELSE links[u]
                           /\ state'[u] = state[u]
    BY <1>0, <1>3, <2>1, EnqueueEffect DEF TickEnqueue
  <2>3. /\ \A d \in Cpus : target'[d] = IF d = c THEN None ELSE target[d]
        /\ \A d \in Cpus : phase'[d] = IF d = c THEN "exec" ELSE phase[d]
        /\ UNCHANGED <<pc, arg, waiters, current, prevPending, preemptOff>>
        /\ phase[c] = "expire"
    BY <1>0, <1>3 DEF TickEnqueue, TypeOK
  <2> HIDE DEF t
  <2>4. PhaseInv'
    BY <1>0, <2>1, <2>3 DEF PlaceInv, PhaseInv
  <2>5. LinkInv'
    BY <1>0, <2>1, <2>2, <2>3 DEF PlaceInv, LinkInv, t
  <2>6. CurrentInv' /\ TargetInv' /\ PendingInv' /\ RunningInv'
    BY <1>0, <2>1, <2>2, <2>3 DEF PlaceInv, CurrentInv, TargetInv, PendingInv, RunningInv
  <2>7. PcInv' /\ WakeInv'
    BY <1>0, <2>2, <2>3, SameCalls
  <2>8. PreemptInv'
    BY <1>0, <2>3, SamePreempt
  <2> QED BY <2>4, <2>5, <2>6, <2>7, <2>8 DEF PlaceInv
<1>4. CASE TickResched(c)
  <2>0. phase[c] = "exec"
    BY <1>4 DEF TickResched, IrqsOn
  <2>1. CASE Schedule(c, "running") /\ preemptOff[c] = 0 /\ UNCHANGED <<preemptOff, pc, arg, waiters>>
    <3>1. PlaceInv'
      BY <1>0, <2>0, <2>1, SchedulePlace
    <3>2. state' = state /\ current' = current /\ \A d \in Cpus : d # c => phase'[d] = phase[d]
      BY <1>0, <2>1 DEF Schedule, TypeOK
    <3>3. PcInv' /\ WakeInv'
      BY <1>0, <2>1, <3>2, SameCalls
    <3>4. PreemptInv'
      BY <1>0, <2>1, <3>2, SamePreempt
    <3> QED BY <3>1, <3>3, <3>4
  <2>2. CASE UNCHANGED <<state, links, cpuVars, preemptOff, pc, arg, waiters>>
    <3>1. PlaceInv'
      BY <1>0, <2>2, SamePlace
    <3>2. PcInv' /\ WakeInv'
      BY <1>0, <2>2, SameCalls
    <3>3. PreemptInv'
      BY <1>0, <2>2 DEF cpuVars, PreemptInv
    <3> QED BY <3>1, <3>2, <3>3
  <2> QED BY <1>4, <2>1, <2>2 DEF TickResched
<1>5. CASE IdleHalt(c)
  <2>1. UNCHANGED <<state, links, cpuVars, preemptOff, pc, arg, waiters>>
    BY <1>5 DEF IdleHalt, threadVars
  <2>2. PlaceInv' /\ PcInv' /\ WakeInv'
    BY <1>0, <2>1, SamePlace, SameCalls
  <2>3. PreemptInv'
    BY <1>0, <2>1 DEF cpuVars, PreemptInv
  <2> QED BY <2>2, <2>3
<1>6. CASE IdleWake(c)
  <2>1. PlaceInv'
    BY <1>0, <1>6, SchedulePlace DEF IdleWake
  <2>2. state' = state /\ current' = current /\ \A d \in Cpus : d # c => phase'[d] = phase[d]
    BY <1>0, <1>6 DEF IdleWake, Schedule, TypeOK
  <2>3. PcInv' /\ WakeInv'
    BY <1>0, <1>6, <2>2, SameCalls DEF IdleWake
  <2>4. PreemptInv'
    BY <1>0, <1>6, <2>2, SamePreempt DEF IdleWake
  <2> QED BY <2>1, <2>3, <2>4
<1>7. ASSUME NEW t \in Threads, TickExpire(c, t)
      PROVE  PlaceInv' /\ PcInv' /\ WakeInv' /\ PreemptInv'
  <2>1. /\ phase[c] = "exec" /\ state[t] = "sleeping" /\ links[t] = 0
        /\ OneCpu /\ target[c] = None /\ prevPending[c] = None
    BY <1>0, <1>7 DEF TickExpire, IrqsOn, PcInv, PlaceInv, PhaseInv, LinkInv, TypeOK
  <2>2. \A d \in Cpus : t \notin {current[d], target[d], prevPending[d]} /\ d = c
    BY <1>0, <2>1 DEF OneCpu, PlaceInv, CurrentInv
  <2>3. /\ \A d \in Cpus : target'[d] = t /\ phase'[d] = "expire"
        /\ \A u \in Threads : state'[u] = IF u = t THEN "ready" ELSE state[u]
        /\ UNCHANGED <<links, pc, arg, waiters, current, prevPending, preemptOff>>
    BY <1>0, <1>7, <2>2 DEF TickExpire, TypeOK
  <2>4. PhaseInv' /\ LinkInv'
    BY <1>0, <2>1, <2>2, <2>3 DEF PlaceInv, PhaseInv, LinkInv
  <2>5. CurrentInv' /\ TargetInv'
    BY <1>0, <2>1, <2>2, <2>3 DEF PlaceInv, CurrentInv, TargetInv
  <2>6. PendingInv' /\ RunningInv'
    BY <1>0, <2>1, <2>2, <2>3 DEF PlaceInv, PendingInv, RunningInv
  <2>7. PcInv' /\ WakeInv'
    BY <1>0, <2>1, <2>3, SameCalls
  <2>8. PreemptInv'
    BY <1>0, <2>2, <2>3, SamePreempt
  <2> QED BY <2>4, <2>5, <2>6, <2>7, <2>8 DEF PlaceInv
<1> QED BY <1>1, <1>2, <1>3, <1>4, <1>5, <1>6, <1>7 DEF CpuStep

(* A thread step that calls __schedule while its own thread moves on.      *)
LEMMA ThreadStepInv ==
  ASSUME IInv, SafeConfig, NEW c \in Cpus, NEW t \in Threads, ThreadStep(c, t)
  PROVE  PlaceInv' /\ PcInv' /\ WakeInv' /\ PreemptInv'
<1> USE SchedAssumption DEF waitVars, flagVars
<1>0. TypeOK /\ PlaceInv /\ PcInv /\ WakeInv /\ PreemptInv /\ waiters \subseteq Threads
  BY DEF IInv, TypeOK
<1>e. Exec(c, t)
  BY DEF ThreadStep, Yield, Sleep, WaitLink, WaitBlock, WaitUnlink, WakeCheck, WakeEnqueue,
         PreemptLookup, PreemptDisable, PreemptEnable, Exit, ExitSchedule, WakePop, SetClass,
         StartThread
<1>f. /\ state[t] = IF pc[t] = "exiting" THEN "zombie" ELSE "running"
      /\ links[t] = 0 /\ target[c] = None /\ prevPending[c] = None
      /\ pc[t] \notin {"run", "exiting"} => OneCpu
      /\ t \in waiters => pc[t] = "queued"
      /\ \A u \in Threads : pc[u] \in {"check", "enqueue"} /\ arg[u] = t => pc[t] = "queued"
      /\ phase[c] = "exec" /\ current[c] = t
  BY <1>e, ExecFacts DEF Exec
<1>g. Ops \cap {"wait", "wake", "wakeall", "sleep", "nopreempt", "setclass"} # {} => OneCpu
  BY DEF SafeConfig, NeverBlocks
<1>h. "timedwait" \notin Ops
  BY DEF SafeConfig, NeverBlocks
<1>s. ASSUME NEW ps \in {"running", "blocked", "sleeping", "zombie"}, Schedule(c, ps)
      PROVE  /\ PlaceInv' /\ current' = current
             /\ \A d \in Cpus : d # c => phase'[d] = phase[d]
             /\ \A u \in Threads : state'[u] = IF u = t /\ ps # "running" THEN ps ELSE state[u]
  <2>1. PlaceInv'
    BY <1>0, <1>f, <1>s, SchedulePlace
  <2> QED BY <1>0, <1>f, <1>s, <2>1 DEF Schedule, TypeOK
<1>1. CASE Yield(c, t)
  <2>1. /\ PlaceInv' /\ current' = current /\ (\A d \in Cpus : d # c => phase'[d] = phase[d])
        /\ \A u \in Threads : state'[u] = state[u]
        /\ UNCHANGED <<pc, arg, waiters, preemptOff>> /\ pc[t] = "run"
    BY <1>1, <1>s DEF Yield
  <2>2. PcInv' /\ WakeInv'
    BY <1>0, <2>1, SameCalls
  <2>3. PreemptInv'
    BY <1>0, <1>f, <2>1, SamePreempt
  <2> QED BY <2>1, <2>2, <2>3
<1>2. CASE Sleep(c, t)
  <2>1. /\ PlaceInv' /\ current' = current /\ (\A d \in Cpus : d # c => phase'[d] = phase[d])
        /\ \A u \in Threads : state'[u] = IF u = t THEN "sleeping" ELSE state[u]
        /\ UNCHANGED <<pc, arg, waiters, preemptOff>> /\ pc[t] = "run" /\ OneCpu
    BY <1>2, <1>s, <1>g DEF Sleep
  <2>2. PcInv' /\ WakeInv'
    BY <1>0, <1>f, <2>1 DEF PcInv, WakeInv
  <2>3. PreemptInv'
    BY <1>0, <1>f, <2>1, SamePreempt
  <2> QED BY <2>1, <2>2, <2>3
<1>3. CASE WaitLink(c, t)
  <2>1. /\ UNCHANGED <<state, links, cpuVars, arg, preemptOff>> /\ waiters' = waiters \cup {t}
        /\ pc' = [pc EXCEPT ![t] = "queued"] /\ pc[t] = "run" /\ OneCpu
    BY <1>3, <1>g, <1>h DEF WaitLink, Goto
  <2>2. \A u \in Threads : pc'[u] = IF u = t THEN "queued" ELSE pc[u]
    BY <1>0, <2>1 DEF TypeOK
  <2>3. PlaceInv'
    BY <1>0, <2>1, SamePlace
  <2>4. PcInv' /\ WakeInv'
    BY <1>0, <1>f, <2>1, <2>2 DEF PcInv, WakeInv
  <2>5. PreemptInv'
    BY <1>0, <2>1, <2>2 DEF PreemptInv, cpuVars
  <2> QED BY <2>3, <2>4, <2>5
<1>4. CASE WaitBlock(c, t)
  <2>0. pc[t] = "queued" /\ OneCpu
    BY <1>0, <1>4, <1>f DEF WaitBlock, PcInv
  <2>1. /\ PlaceInv' /\ current' = current /\ (\A d \in Cpus : d # c => phase'[d] = phase[d])
        /\ \A u \in Threads : state'[u] = IF u = t THEN "blocked" ELSE state[u]
        /\ UNCHANGED <<arg, waiters, preemptOff>>
    BY <1>4, <1>s, <2>0 DEF WaitBlock
  <2>2. \A u \in Threads : pc'[u] = IF u = t THEN "unlink" ELSE pc[u]
    BY <1>0, <1>4 DEF TypeOK, WaitBlock, Goto
  <2>4. PcInv' /\ WakeInv'
    BY <1>0, <1>f, <2>0, <2>1, <2>2 DEF PcInv, WakeInv
  <2>5. PreemptInv'
    BY <1>0, <1>f, <2>0, <2>1, <2>2 DEF PreemptInv
  <2> QED BY <2>1, <2>4, <2>5
<1>5. CASE WaitUnlink(c, t)
  <2>1. /\ UNCHANGED <<state, links, cpuVars, arg, preemptOff>> /\ waiters' = waiters \ {t}
        /\ pc' = [pc EXCEPT ![t] = "run"] /\ pc[t] = "unlink"
    BY <1>5 DEF WaitUnlink, Goto
  <2>2. \A u \in Threads : pc'[u] = IF u = t THEN "run" ELSE pc[u]
    BY <1>0, <2>1 DEF TypeOK
  <2>3. PlaceInv'
    BY <1>0, <2>1, SamePlace
  <2>4. PcInv' /\ WakeInv'
    BY <1>0, <1>f, <2>1, <2>2 DEF PcInv, WakeInv
  <2>5. PreemptInv'
    BY <1>0, <2>1, <2>2 DEF PreemptInv, cpuVars
  <2> QED BY <2>3, <2>4, <2>5
(* The end of a sched_wake, from a caller that has left w alone.           *)
<1>w. ASSUME WakeNext(t), pc[t] \in {"check", "enqueue"},
             \A u \in Threads : \/ state'[u] = state[u]
                                \/ u = arg[t] /\ state[u] = "blocked" /\ state'[u] = "ready"
      PROVE  PcInv' /\ WakeInv'
  <2>0. OneCpu /\ arg[t] \in Threads \ waiters /\ arg[t] # t
    BY <1>0, <1>f, <1>w DEF WakeInv
  <2>1. CASE /\ wlock = t /\ Goto(t, "check")
             /\ \E u \in waiters : /\ waiters' = waiters \ {u}
                                   /\ arg' = [arg EXCEPT ![t] = u]
    <3>1. PICK u \in waiters : /\ waiters' = waiters \ {u}
                               /\ arg' = [arg EXCEPT ![t] = u]
      BY <2>1
    <3>2. \A v \in Threads : /\ pc'[v] = IF v = t THEN "check" ELSE pc[v]
                             /\ arg'[v] = IF v = t THEN u ELSE arg[v]
      BY <1>0, <2>1, <3>1 DEF TypeOK, Goto
    <3>3. u # arg[t] /\ u # t /\ (pc[u] = "queued" \/ state[u] = "blocked")
      BY <1>0, <1>f, <1>w, <2>0, <3>1 DEF WakeInv
    <3>4. PcInv'
      BY <1>0, <1>f, <1>w, <2>0, <3>2 DEF PcInv
    <3>5. WakeInv'
      BY <1>0, <1>f, <1>w, <2>0, <3>1, <3>2, <3>3 DEF WakeInv
    <3> QED BY <3>4, <3>5
  <2>2. CASE /\ arg' = [arg EXCEPT ![t] = None]
             /\ Goto(t, "run") /\ UNCHANGED waiters
    <3>1. \A v \in Threads : /\ pc'[v] = IF v = t THEN "run" ELSE pc[v]
                             /\ arg'[v] = IF v = t THEN None ELSE arg[v]
      BY <1>0, <2>2 DEF TypeOK, Goto
    <3>2. PcInv'
      BY <1>0, <1>f, <1>w, <2>0, <3>1 DEF PcInv
    <3>3. WakeInv'
      BY <1>0, <1>f, <1>w, <2>0, <2>2, <3>1 DEF WakeInv
    <3> QED BY <3>2, <3>3
  <2> QED BY <1>w, <2>1, <2>2 DEF WakeNext
<1>p. ASSUME WakeNext(t), pc[t] \in {"check", "enqueue"}, UNCHANGED <<current, phase, preemptOff>>
      PROVE  PreemptInv'
  <2>1. \A v \in Threads : pc'[v] \in {"pdisable", "nopreempt"} => pc'[v] = pc[v] /\ arg'[v] = arg[v]
    BY <1>0, <1>p DEF WakeNext, Goto, TypeOK
  <2> QED BY <1>0, <1>p, <2>1 DEF PreemptInv
<1>6. CASE WakeCheck(c, t)
  <2>1. /\ UNCHANGED <<state, links, cpuVars, preemptOff>> /\ pc[t] = "check"
    BY <1>6 DEF WakeCheck
  <2>2. PlaceInv'
    BY <1>0, <2>1, SamePlace
  <2>3. CASE WakeNext(t)
    <3>1. UNCHANGED <<current, phase, preemptOff>>
      BY <2>1 DEF cpuVars
    <3> QED BY <2>1, <2>2, <2>3, <3>1, <1>w, <1>p
  <2>4. CASE /\ state[arg[t]] \notin {"ready", "running", "zombie"}
             /\ Goto(t, "enqueue") /\ UNCHANGED <<arg, waitVars>>
    <3>1. arg[t] \in Threads \ waiters /\ (pc[arg[t]] = "queued" \/ state[arg[t]] = "blocked")
      BY <1>0, <2>1 DEF WakeInv
    <3>2. state[arg[t]] = "blocked" /\ arg[t] # t
      <4>1. state[arg[t]] \in States
        BY <1>0, <3>1 DEF TypeOK
      <4> QED BY <1>0, <1>f, <2>1, <2>4, <3>1, <4>1 DEF PcInv, States
    <3>3. \A v \in Threads : pc'[v] = IF v = t THEN "enqueue" ELSE pc[v]
      BY <1>0, <2>4 DEF TypeOK, Goto
    <3>4. PcInv'
      BY <1>0, <1>f, <2>1, <3>3 DEF PcInv
    <3>5. WakeInv'
      BY <1>0, <1>f, <2>1, <2>4, <3>1, <3>2, <3>3 DEF WakeInv
    <3>6. PreemptInv'
      BY <1>0, <2>1, <2>4, <3>3 DEF PreemptInv, cpuVars
    <3> QED BY <2>2, <3>4, <3>5, <3>6
  <2> QED BY <1>6, <2>3, <2>4 DEF WakeCheck
<1>7. CASE WakeEnqueue(c, t)
  <2> DEFINE u == arg[t]
  <2>1. /\ u \in Threads /\ u # t /\ state[u] = "blocked" /\ OneCpu /\ pc[t] = "enqueue"
    BY <1>0, <1>f, <1>7 DEF WakeEnqueue, WakeInv
  <2>2. links[u] = 0 /\ \A d \in Cpus : u \notin {current[d], target[d], prevPending[d]}
    BY <1>0, <1>f, <2>1 DEF OneCpu, PlaceInv, LinkInv, TypeOK
  <2>3. RqEnqueue(u) /\ UNCHANGED <<cpuVars, preemptOff>> /\ WakeNext(t)
    BY <1>7 DEF WakeEnqueue
  <2>4. \A v \in Threads : state'[v] = IF v = u THEN "ready" ELSE state[v]
    BY <1>0, <2>1, <2>2, <2>3, EnqueueEffect
  <2>5. PlaceInv'
    BY <1>0, <2>1, <2>2, <2>3, EnqueuePlace
  <2>6. PcInv' /\ WakeInv'
    BY <1>w, <2>1, <2>3, <2>4
  <2>7. PreemptInv'
    BY <1>p, <2>1, <2>3 DEF cpuVars
  <2> QED BY <2>5, <2>6, <2>7
<1>8. CASE PreemptLookup(c, t)
  <2>1. /\ UNCHANGED <<state, links, cpuVars, waiters, preemptOff>> /\ pc[t] = "run" /\ OneCpu
    BY <1>8, <1>g DEF PreemptLookup
  <2>2. \A v \in Threads : /\ pc'[v] = IF v = t THEN "pdisable" ELSE pc[v]
                           /\ arg'[v] = IF v = t THEN c ELSE arg[v]
    BY <1>0, <1>8 DEF PreemptLookup, Goto, TypeOK
  <2>3. PlaceInv' /\ PreemptInv'
    BY <1>0, <2>1, <2>2, SamePlace DEF PreemptInv, cpuVars
  <2>4. PcInv' /\ WakeInv'
    BY <1>0, <1>f, <2>1, <2>2 DEF PcInv, WakeInv
  <2> QED BY <2>3, <2>4
<1>9. CASE PreemptDisable(c, t)
  <2>1. /\ UNCHANGED <<state, links, cpuVars, waiters>> /\ pc[t] = "pdisable" /\ OneCpu
        /\ arg[t] = c
    BY <1>0, <1>9, <1>f DEF PreemptDisable, PreemptInv, OneCpu
  <2>2. \A v \in Threads : /\ pc'[v] = IF v = t THEN "nopreempt" ELSE pc[v]
                           /\ arg'[v] = IF v = t THEN None ELSE arg[v]
    BY <1>0, <1>9 DEF PreemptDisable, Goto, TypeOK
  <2>3. preemptOff'[c] = preemptOff[c] + 1 /\ preemptOff[c] \in Nat
    BY <1>0, <1>9, <2>1 DEF PreemptDisable, TypeOK
  <2>4. preemptOff'[c] > 0
    BY <2>3
  <2>5. PlaceInv'
    BY <1>0, <2>1, SamePlace
  <2>6. PreemptInv'
    BY <1>0, <1>f, <2>1, <2>2, <2>4 DEF PreemptInv, cpuVars, OneCpu
  <2>7. PcInv' /\ WakeInv'
    BY <1>0, <1>f, <2>1, <2>2 DEF PcInv, WakeInv
  <2> QED BY <2>5, <2>6, <2>7
<1>10. CASE PreemptEnable(c, t)
  <2>1. /\ pc[t] = "nopreempt" /\ OneCpu /\ UNCHANGED <<arg, waiters>>
    BY <1>10, <1>f DEF PreemptEnable
  <2>2. \A v \in Threads : pc'[v] = IF v = t THEN "run" ELSE pc[v]
    BY <1>0, <1>10 DEF PreemptEnable, Goto, TypeOK
  <2>3. PlaceInv' /\ \A v \in Threads : state'[v] = state[v]
    <3>1. CASE Schedule(c, "running")
      BY <3>1, <1>s
    <3>2. CASE UNCHANGED <<state, links, cpuVars>>
      BY <1>0, <3>2, SamePlace
    <3> QED BY <1>10, <3>1, <3>2 DEF PreemptEnable
  <2>4. PcInv' /\ WakeInv'
    BY <1>0, <1>f, <2>1, <2>2, <2>3 DEF PcInv, WakeInv
  <2>5. PreemptInv'
    BY <1>0, <1>f, <2>1, <2>2 DEF PreemptInv, OneCpu
  <2> QED BY <2>3, <2>4, <2>5
<1>11. CASE Exit(c, t)
  <2>1. /\ UNCHANGED <<links, arg, waiters, cpuVars, preemptOff>> /\ pc[t] = "run"
    BY <1>11 DEF Exit
  <2>2. \A v \in Threads : /\ pc'[v] = IF v = t THEN "exiting" ELSE pc[v]
                           /\ state'[v] = IF v = t THEN "zombie" ELSE state[v]
    BY <1>0, <1>11 DEF Exit, Goto, TypeOK
  <2>3. PhaseInv' /\ LinkInv' /\ TargetInv' /\ RunningInv'
    BY <1>0, <1>f, <2>1, <2>2 DEF PlaceInv, PhaseInv, LinkInv, TargetInv, RunningInv, cpuVars
  <2>4. CurrentInv' /\ PendingInv'
    BY <1>0, <1>f, <2>1, <2>2 DEF PlaceInv, CurrentInv, PendingInv, cpuVars
  <2>5. PcInv' /\ WakeInv' /\ PreemptInv'
    BY <1>0, <1>f, <2>1, <2>2 DEF PcInv, WakeInv, PreemptInv, cpuVars
  <2> QED BY <2>3, <2>4, <2>5 DEF PlaceInv
<1>12. CASE ExitSchedule(c, t)
  <2>1. /\ PlaceInv' /\ current' = current /\ (\A d \in Cpus : d # c => phase'[d] = phase[d])
        /\ \A u \in Threads : state'[u] = state[u]
        /\ UNCHANGED <<pc, arg, waiters, preemptOff>> /\ pc[t] = "exiting"
    BY <1>12, <1>f, <1>s DEF ExitSchedule
  <2>2. PcInv' /\ WakeInv'
    BY <1>0, <2>1, SameCalls
  <2>3. PreemptInv'
    BY <1>0, <1>f, <2>1, SamePreempt
  <2> QED BY <2>1, <2>2, <2>3
<1>13. ASSUME NEW u \in Threads, WakePop(c, t, u)
       PROVE  PlaceInv' /\ PcInv' /\ WakeInv' /\ PreemptInv'
  <2>1. /\ UNCHANGED <<state, links, cpuVars, preemptOff>> /\ pc[t] = "run" /\ OneCpu
        /\ u \in waiters /\ waiters' = waiters \ {u} /\ u # t
    BY <1>13, <1>f, <1>g DEF WakePop
  <2>2. \A v \in Threads : /\ pc'[v] = IF v = t THEN "check" ELSE pc[v]
                           /\ arg'[v] = IF v = t THEN u ELSE arg[v]
    BY <1>0, <1>13 DEF WakePop, Goto, TypeOK
  <2>3. PlaceInv' /\ PreemptInv'
    BY <1>0, <2>1, <2>2, SamePlace DEF PreemptInv, cpuVars
  <2>4. PcInv' /\ WakeInv'
    BY <1>0, <1>f, <2>1, <2>2 DEF PcInv, WakeInv
  <2> QED BY <2>3, <2>4
<1>14. ASSUME NEW u \in Threads, SetClass(c, t, u)
       PROVE  PlaceInv' /\ PcInv' /\ WakeInv' /\ PreemptInv'
  <2>1. /\ UNCHANGED <<state, pc, arg, waiters, cpuVars, preemptOff>> /\ OneCpu
        /\ state[u] = "ready" /\ links' = Linked(Unlinked(links, u), u)
    BY <1>14, <1>g DEF SetClass
  <2>2. links[u] = 1
    BY <1>0, <1>f, <2>1 DEF PlaceInv, LinkInv, OneCpu
  <2>3. Unlinked(links, u) = [links EXCEPT ![u] = 0]
    BY <1>0, <2>2 DEF Unlinked, TypeOK
  <2>4. Linked([links EXCEPT ![u] = 0], u) = [links EXCEPT ![u] = 1]
    BY <1>0 DEF Linked, TypeOK
  <2>5. links' = links
    BY <1>0, <2>1, <2>2, <2>3, <2>4 DEF TypeOK
  <2>6. PlaceInv' /\ PreemptInv'
    BY <1>0, <2>1, <2>5, SamePlace DEF PreemptInv, cpuVars
  <2>7. PcInv' /\ WakeInv'
    BY <1>0, <2>1, SameCalls
  <2> QED BY <2>6, <2>7
<1>15. ASSUME NEW u \in Threads, StartThread(c, t, u)
       PROVE  PlaceInv' /\ PcInv' /\ WakeInv' /\ PreemptInv'
  <2>1. /\ UNCHANGED <<pc, arg, waiters, cpuVars, preemptOff>> /\ RqEnqueue(u)
        /\ state[u] = "new" /\ pc[u] = "run"
    BY <1>0, <1>15 DEF StartThread, PcInv
  <2>2. links[u] = 0 /\ \A d \in Cpus : u \notin {current[d], target[d], prevPending[d]}
    BY <1>0, <2>1 DEF PlaceInv, LinkInv, CurrentInv, TargetInv, PendingInv, TypeOK
  <2>3. \A v \in Threads : state'[v] = IF v = u THEN "ready" ELSE state[v]
    BY <1>0, <2>1, <2>2, EnqueueEffect
  <2>4. PlaceInv'
    BY <1>0, <2>1, <2>2, EnqueuePlace
  <2>5. PcInv' /\ WakeInv' /\ PreemptInv'
    BY <1>0, <2>1, <2>3 DEF PcInv, WakeInv, PreemptInv, cpuVars
  <2> QED BY <2>4, <2>5
<1> QED BY <1>1, <1>2, <1>3, <1>4, <1>5, <1>6, <1>7, <1>8, <1>9, <1>10, <1>11,
           <1>12, <1>13, <1>14, <1>15 DEF ThreadStep
-----------------------------------------------------------------------------
LEMMA SafeInit == SafeConfig /\ Init => IInv
<1> SUFFICES ASSUME SafeConfig, Init PROVE IInv
  OBVIOUS
<1> USE SchedAssumption
<1>1. TypeOK
  BY TypeInit DEF TypeInv
<1>2. PlaceInv
  BY DEF Init, PlaceInv, PhaseInv, LinkInv, CurrentInv, TargetInv, PendingInv, RunningInv
<1>3. PcInv /\ WakeInv /\ PreemptInv
  BY DEF Init, PcInv, WakeInv, PreemptInv
<1> QED BY <1>1, <1>2, <1>3 DEF IInv

LEMMA SafeStep == SafeConfig /\ IInv /\ [Next]_vars => IInv'
<1> SUFFICES ASSUME SafeConfig, IInv, [Next]_vars PROVE IInv'
  OBVIOUS
<1>1. TypeOK'
  <2>1. TypeInv
    BY SchedAssumption DEF IInv, TypeInv, PlaceInv, PhaseInv
  <2> QED BY <2>1, TypeStep DEF TypeInv
<1>2. CASE Next
  BY <1>1, <1>2, CpuStepInv, ThreadStepInv DEF Next, IInv
<1>3. CASE UNCHANGED vars
  <2>1. PlaceInv'
    BY <1>3, SamePlace DEF IInv, vars, threadVars
  <2>2. PcInv' /\ WakeInv' /\ PreemptInv'
    BY <1>3 DEF IInv, PcInv, WakeInv, PreemptInv, vars, threadVars, waitVars, cpuVars, flagVars
  <2> QED BY <1>1, <2>1, <2>2 DEF IInv
<1> QED BY <1>2, <1>3

(* The inductive invariant of sched.c: where each thread is, what its core  *)
(* executes and what a waker has found agree at every step.                 *)
THEOREM InductiveInvariant == SafeConfig => (Spec => []IInv)
<1> SUFFICES ASSUME SafeConfig PROVE Spec => []IInv
  OBVIOUS
<1>1. Init => IInv
  BY SafeInit
<1>2. IInv /\ [Next]_vars => IInv'
  BY SafeStep
<1> QED BY <1>1, <1>2, PTL DEF Spec

(* No two cores execute on one stack: on one core trivially a matter of    *)
(* what current means, on many because prev_pending keeps a preempted or   *)
(* yielding thread off the queue until sched_finish_switch.                *)
THEOREM StacksExclusive == SafeConfig => (Spec => []StackExclusive)
<1>1. IInv => StackExclusive
  BY SchedAssumption DEF IInv, PlaceInv, CurrentInv, TypeOK, StackExclusive
<1> QED BY <1>1, InductiveInvariant, PTL

(* The run queue links a thread at most once, only while it is READY, and  *)
(* never while a core runs it or has picked it.                            *)
THEOREM QueueIsSound == SafeConfig => (Spec => []QueueSound)
<1>1. IInv => QueueSound
  BY DEF IInv, PlaceInv, LinkInv, QueueSound
<1> QED BY <1>1, InductiveInvariant, PTL

(* No runnable thread is ever dropped.                                     *)
THEOREM NoThreadForgotten == SafeConfig => (Spec => []NoneForgotten)
<1>1. IInv => NoneForgotten
  BY DEF IInv, PlaceInv, LinkInv, RunningInv, NoneForgotten
<1> QED BY <1>1, InductiveInvariant, PTL

(* A core only ever switches to a READY thread or to its idle thread.      *)
THEOREM ResumesOnlyReady == SafeConfig => (Spec => OnlyReadyResumed)
<1> SUFFICES ASSUME SafeConfig PROVE Spec => OnlyReadyResumed
  OBVIOUS
<1>1. IInv /\ [Next]_vars => [ResumesReady]_vars
  <2> SUFFICES ASSUME IInv, Next PROVE ResumesReady
    OBVIOUS
  <2>1. ASSUME NEW c \in Cpus, ContextSwitch(c) PROVE ResumesReady
    BY <2>1, SchedAssumption DEF ContextSwitch, IInv, PlaceInv, PhaseInv, TargetInv, TypeOK,
                                      ResumesReady
  <2>2. ASSUME NEW c \in Cpus, CpuStep(c), ~ContextSwitch(c) PROVE current' = current
    BY <2>2 DEF CpuStep, FinishSwitch, TickEnqueue, TickResched, IdleHalt, IdleWake,
                TickExpire, Schedule, cpuVars
  <2>3. ASSUME NEW c \in Cpus, NEW t \in Threads, ThreadStep(c, t) PROVE current' = current
    BY <2>3 DEF ThreadStep, Yield, Sleep, WaitLink, WaitBlock, WaitUnlink, WakeCheck, WakeEnqueue,
         PreemptLookup, PreemptDisable, PreemptEnable, Exit, ExitSchedule, WakePop, SetClass,
         StartThread, Schedule, cpuVars
  <2>4. current' = current => ResumesReady
    BY DEF ResumesReady
  <2> QED BY <2>1, <2>2, <2>3, <2>4 DEF Next
<1>2. Spec => []IInv
  BY InductiveInvariant
<1> QED BY <1>1, <1>2, PTL DEF Spec, OnlyReadyResumed
=============================================================================
