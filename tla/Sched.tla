-------------------------------- MODULE Sched --------------------------------
(***************************************************************************)
(* The thread scheduler of kernel/sched/sched.c on any number of cores:    *)
(* one shared run queue, per-core state, wait queues, the timer tick and   *)
(* the idle threads, at the grain of the code's lock sections.  What one   *)
(* core does with interrupts off and one lock held is one action; between  *)
(* two actions any other core may run and, where interrupts are on, the    *)
(* tick may preempt the thread.                                            *)
(*                                                                         *)
(* Abstracted: which ready thread pick_next returns, the order of the      *)
(* waiters of a wait queue, and the clock (a sleeper may be expired, and a *)
(* slice used up, at any tick).                                            *)
(***************************************************************************)
EXTENDS Naturals, FiniteSets, TLC

CONSTANTS Threads,   \* the threads the kernel creates
          Cpus,      \* the cores that are online
          Ops,       \* the kernel calls the threads make
          Idle,      \* stands for the idle thread of whichever core runs it
          None       \* a NULL pointer

AllOps == {"yield", "wait", "timedwait", "wake", "wakeall", "sleep",
           "nopreempt", "setclass", "start", "exit"}

ASSUME SchedAssumption == /\ Idle \notin Threads
                          /\ None \notin Threads \cup {Idle}
                          /\ Cpus # {} /\ None \notin Cpus
                          /\ Ops \subseteq AllOps

(* Threads are interchangeable, and so are cores.                          *)
Symmetry == Permutations(Threads) \cup Permutations(Cpus)

VARIABLES
  state,        \* thread -> t->state
  links,        \* thread -> times t->runq_link is on a ready list
  pc,           \* thread -> where it is inside a kernel call
  arg,          \* thread -> the thread it is waking, or the core it looked up
  waiters,      \* the threads linked on the wait queue
  wlock,        \* holder of w->lock where it is held across several steps
  current,      \* core -> the thread whose stack the core executes on
  phase,        \* core -> where it is inside __schedule or sched_tick
  target,       \* core -> the thread picked to run next, or the expired sleeper
  prevPending,  \* core -> cs->prev_pending
  needResched,  \* core -> cs->need_resched
  preemptOff,   \* core -> cs->preempt_disable
  idling        \* core -> cs->idling

threadVars == <<state, links, pc, arg>>
waitVars   == <<waiters, wlock>>
cpuVars    == <<current, phase, target, prevPending>>
flagVars   == <<needResched, preemptOff, idling>>
vars       == <<threadVars, waitVars, cpuVars, flagVars>>

States == {"new", "ready", "running", "blocked", "sleeping", "zombie"}
Pcs    == {"run", "queued", "tqueued", "unlink", "check", "enqueue",
           "pdisable", "nopreempt", "exiting"}
Phases == {"exec", "switch", "finish", "expire"}

TypeOK == /\ state \in [Threads -> States]
          /\ links \in [Threads -> 0..2]
          /\ pc \in [Threads -> Pcs]
          /\ arg \in [Threads -> Threads \cup Cpus \cup {None}]
          /\ waiters \subseteq Threads
          /\ wlock \in Threads \cup {None}
          /\ current \in [Cpus -> Threads \cup {Idle}]
          /\ phase \in [Cpus -> Phases]
          /\ target \in [Cpus -> Threads \cup {Idle, None}]
          /\ prevPending \in [Cpus -> Threads \cup {None}]
          /\ needResched \in [Cpus -> BOOLEAN]
          /\ preemptOff \in [Cpus -> Nat]
          /\ idling \in [Cpus -> BOOLEAN]

(* Every core has adopted its idle thread; threads wait for thread_start,  *)
(* unless no thread of this workload ever starts another.                  *)
Init == /\ \E S \in SUBSET Threads :
             /\ IF "start" \in Ops THEN S # {} ELSE S = Threads
             /\ state = [t \in Threads |-> IF t \in S THEN "ready" ELSE "new"]
             /\ links = [t \in Threads |-> IF t \in S THEN 1 ELSE 0]
        /\ pc = [t \in Threads |-> "run"]
        /\ arg = [t \in Threads |-> None]
        /\ waiters = {} /\ wlock = None
        /\ current = [c \in Cpus |-> Idle]
        /\ phase = [c \in Cpus |-> "exec"]
        /\ target = [c \in Cpus |-> None]
        /\ prevPending = [c \in Cpus |-> None]
        /\ needResched = [c \in Cpus |-> FALSE]
        /\ preemptOff = [c \in Cpus |-> 0]
        /\ idling = [c \in Cpus |-> FALSE]
-----------------------------------------------------------------------------
(* The run queue.  A node linked a second time corrupts the list: links    *)
(* counts to 2 and stays there.  list_del of an unlinked node does nothing. *)
Linked(f, t)   == [f EXCEPT ![t] = IF @ = 2 THEN 2 ELSE @ + 1]

Unlinked_Skipped(f, t) == f   \* mutant: the picked thread stays linked

Unlinked(f, t) == [f EXCEPT ![t] = IF @ = 0 THEN 0 ELSE @ - 1]

RqEnqueue_StateKept(t) ==     \* mutant: the thread is not marked READY
  links' = Linked(links, t) /\ UNCHANGED state

RqEnqueue(t) ==
  /\ links' = Linked(links, t)
  /\ state' = [state EXCEPT ![t] = "ready"]

Queued == {t \in Threads : links[t] > 0}

(* __schedule up to the release of the run queue lock: prev takes its new  *)
(* state, next leaves the queue, and a prev that is still runnable is owed *)
(* to the queue until the switch is over.                                  *)
Schedule(c, prevState) ==
  LET prev == current[c]
      st   == IF prev # Idle /\ prevState # "running"
                THEN [state EXCEPT ![prev] = prevState] ELSE state
  IN  \E next \in IF Queued = {} THEN {Idle} ELSE Queued :
        /\ state' = st
        /\ links' = IF next = Idle THEN links ELSE Unlinked(links, next)
        /\ prevPending' = IF prev # Idle /\ st[prev] = "running"
                            THEN [prevPending EXCEPT ![c] = prev] ELSE prevPending
        /\ needResched' = [needResched EXCEPT ![c] = FALSE]
        /\ target' = [target EXCEPT ![c] = IF next = prev THEN None ELSE next]
        /\ phase'  = [phase EXCEPT ![c] = IF next = prev THEN "exec" ELSE "switch"]
        /\ UNCHANGED current

(* context_switch: interrupts are still off but no lock is held.  Only now *)
(* is prev's stack pointer saved and its stack free of this core.          *)
ContextSwitch(c) ==
  /\ phase[c] = "switch"
  /\ state' = IF target[c] = Idle THEN state
                                  ELSE [state EXCEPT ![target[c]] = "running"]
  /\ current' = [current EXCEPT ![c] = target[c]]
  /\ target' = [target EXCEPT ![c] = None]
  /\ phase' = [phase EXCEPT ![c] = "finish"]
  /\ UNCHANGED <<links, pc, arg, prevPending, waitVars, flagVars>>

\* mutant: prev_pending is cleared but never given back to the queue
FinishSwitch_Dropped(c) ==
  /\ phase[c] = "finish"
  /\ prevPending' = [prevPending EXCEPT ![c] = None]
  /\ phase' = [phase EXCEPT ![c] = "exec"]
  /\ UNCHANGED <<links, state, pc, arg, current, target, waitVars, flagVars>>

(* sched_finish_switch, the first thing that runs on the new stack.        *)
FinishSwitch(c) ==
  /\ phase[c] = "finish"
  /\ IF prevPending[c] = None THEN UNCHANGED <<links, state>>
                              ELSE RqEnqueue(prevPending[c])
  /\ prevPending' = [prevPending EXCEPT ![c] = None]
  /\ phase' = [phase EXCEPT ![c] = "exec"]
  /\ UNCHANGED <<pc, arg, current, target, waitVars, flagVars>>
-----------------------------------------------------------------------------
(* Interrupts are on where a core executes a thread that holds no spinlock *)
(* with irqsave, and is not inside __schedule or the tick itself.          *)
IrqsOn(c) == phase[c] = "exec" /\ wlock # current[c]

(* sched_tick finds an expired sleeper: the state is tested and set under  *)
(* global_lock, which only one core at a time holds ...                    *)
TickExpire(c, t) ==
  /\ IrqsOn(c)
  /\ \A d \in Cpus : phase[d] # "expire"
  /\ state[t] = "sleeping"
  /\ state' = [state EXCEPT ![t] = "ready"]
  /\ target' = [target EXCEPT ![c] = t]
  /\ phase' = [phase EXCEPT ![c] = "expire"]
  /\ UNCHANGED <<links, pc, arg, current, prevPending, waitVars, flagVars>>

(* ... and the run queue is locked afterwards to enqueue it.               *)
TickEnqueue(c) ==
  /\ phase[c] = "expire"
  /\ RqEnqueue(target[c])
  /\ target' = [target EXCEPT ![c] = None]
  /\ phase' = [phase EXCEPT ![c] = "exec"]
  /\ UNCHANGED <<pc, arg, current, prevPending, waitVars, flagVars>>

(* The rest of sched_tick: an idle core, or a thread whose slice is used   *)
(* up, asks to be rescheduled, and is unless preemption is disabled.       *)
TickResched(c) ==
  /\ IrqsOn(c)
  /\ \E ask \in {needResched[c], TRUE} :
       /\ current[c] = Idle => ask
       /\ IF ask /\ preemptOff[c] = 0
            THEN Schedule(c, "running") /\ UNCHANGED <<preemptOff, idling>>
            ELSE /\ needResched' = [needResched EXCEPT ![c] = ask]
                 /\ UNCHANGED <<state, links, cpuVars, preemptOff, idling>>
  /\ UNCHANGED <<pc, arg, waitVars>>

(* idle_entry.  The flag is set before halting ...                         *)
IdleHalt(c) ==
  /\ phase[c] = "exec" /\ current[c] = Idle /\ ~idling[c]
  /\ idling' = [idling EXCEPT ![c] = TRUE]
  /\ UNCHANGED <<threadVars, waitVars, cpuVars, needResched, preemptOff>>

(* ... and cleared when the interrupt that ended the halt has returned,    *)
(* after which the idle thread yields.                                     *)
IdleWake(c) ==
  /\ phase[c] = "exec" /\ current[c] = Idle /\ idling[c]
  /\ idling' = [idling EXCEPT ![c] = FALSE]
  /\ Schedule(c, "running")
  /\ UNCHANGED <<pc, arg, waitVars, preemptOff>>
-----------------------------------------------------------------------------
(* Thread t executes on core c.                                            *)
Exec(c, t) == phase[c] = "exec" /\ current[c] = t

Goto(t, l) == pc' = [pc EXCEPT ![t] = l]

Yield(c, t) ==
  /\ "yield" \in Ops /\ Exec(c, t) /\ pc[t] = "run"
  /\ Schedule(c, "running")
  /\ UNCHANGED <<pc, arg, waitVars, preemptOff, idling>>

Sleep(c, t) ==
  /\ "sleep" \in Ops /\ Exec(c, t) /\ pc[t] = "run"
  /\ Schedule(c, "sleeping")
  /\ UNCHANGED <<pc, arg, waitVars, preemptOff, idling>>

(* waitq_wait and waitq_wait_timeout: link under w->lock, then block, then *)
(* unlink if no waker has done so.                                         *)
WaitLink(c, t) ==
  /\ Exec(c, t) /\ pc[t] = "run" /\ wlock = None
  /\ \/ "wait" \in Ops /\ Goto(t, "queued")
     \/ "timedwait" \in Ops /\ Goto(t, "tqueued")
  /\ waiters' = waiters \cup {t}
  /\ UNCHANGED <<state, links, arg, wlock, cpuVars, flagVars>>

WaitBlock(c, t) ==
  /\ Exec(c, t) /\ pc[t] \in {"queued", "tqueued"}
  /\ Schedule(c, IF pc[t] = "queued" THEN "blocked" ELSE "sleeping")
  /\ Goto(t, "unlink")
  /\ UNCHANGED <<arg, waitVars, preemptOff, idling>>

WaitUnlink(c, t) ==
  /\ Exec(c, t) /\ pc[t] = "unlink" /\ wlock = None
  /\ waiters' = waiters \ {t}
  /\ Goto(t, "run")
  /\ UNCHANGED <<state, links, arg, wlock, cpuVars, flagVars>>

(* waitq_wake_one releases w->lock before sched_wake; waitq_wake_all holds *)
(* it, with interrupts off, until the last waiter has been woken.          *)
WakePop(c, t, u) ==
  /\ Exec(c, t) /\ pc[t] = "run" /\ wlock = None /\ u \in waiters
  /\ \/ "wake" \in Ops /\ UNCHANGED wlock
     \/ "wakeall" \in Ops /\ wlock' = t
  /\ waiters' = waiters \ {u}
  /\ arg' = [arg EXCEPT ![t] = u]
  /\ Goto(t, "check")
  /\ UNCHANGED <<state, links, cpuVars, flagVars>>

(* The end of one sched_wake: waitq_wake_all goes on to the next waiter.   *)
WakeNext(t) ==
  \/ /\ wlock = t
     /\ \E u \in waiters : /\ waiters' = waiters \ {u}
                           /\ arg' = [arg EXCEPT ![t] = u]
     /\ Goto(t, "check") /\ UNCHANGED wlock
  \/ /\ wlock = t => waiters = {}
     /\ wlock' = IF wlock = t THEN None ELSE wlock
     /\ arg' = [arg EXCEPT ![t] = None]
     /\ Goto(t, "run") /\ UNCHANGED waiters

(* sched_wake tests the state before it takes the run queue lock: a thread *)
(* that is ready, running or gone is left alone, ...                       *)
WakeCheck(c, t) ==
  /\ Exec(c, t) /\ pc[t] = "check"
  /\ IF state[arg[t]] \in {"ready", "running", "zombie"}
       THEN WakeNext(t)
       ELSE Goto(t, "enqueue") /\ UNCHANGED <<arg, waitVars>>
  /\ UNCHANGED <<state, links, cpuVars, flagVars>>

(* ... any other is enqueued without a second look.  Then kick_idle_cpu    *)
(* tells one other core whose flag says idle to reschedule, and this core  *)
(* does too if the woken thread's class is better.                         *)
IdlingOthers(c) == {d \in Cpus \ {c} : idling[d]}

Kicks(c) == IF IdlingOthers(c) = {} THEN {{}} ELSE {{d} : d \in IdlingOthers(c)}

WakeEnqueue(c, t) ==
  /\ Exec(c, t) /\ pc[t] = "enqueue"
  /\ RqEnqueue(arg[t])
  /\ \E better \in {{}, {c}}, kicked \in Kicks(c) :
       needResched' = [d \in Cpus |-> needResched[d] \/ d \in better \cup kicked]
  /\ WakeNext(t)
  /\ UNCHANGED <<cpuVars, preemptOff, idling>>

(* sched_preempt_disable finds this core's counter, then increments it.    *)
PreemptLookup(c, t) ==
  /\ "nopreempt" \in Ops /\ Exec(c, t) /\ pc[t] = "run"
  /\ arg' = [arg EXCEPT ![t] = c]
  /\ Goto(t, "pdisable")
  /\ UNCHANGED <<state, links, waitVars, cpuVars, flagVars>>

PreemptDisable(c, t) ==
  /\ Exec(c, t) /\ pc[t] = "pdisable"
  /\ preemptOff' = [preemptOff EXCEPT ![arg[t]] = @ + 1]
  /\ arg' = [arg EXCEPT ![t] = None]
  /\ Goto(t, "nopreempt")
  /\ UNCHANGED <<state, links, waitVars, cpuVars, needResched, idling>>

PreemptEnable(c, t) ==
  /\ Exec(c, t) /\ pc[t] = "nopreempt"
  /\ LET n == IF preemptOff[c] = 0 THEN 0 ELSE preemptOff[c] - 1
     IN  /\ preemptOff' = [preemptOff EXCEPT ![c] = n]
         /\ IF n = 0 /\ needResched[c]
              THEN Schedule(c, "running")
              ELSE UNCHANGED <<state, links, cpuVars, needResched>>
  /\ Goto(t, "run")
  /\ UNCHANGED <<arg, waitVars, idling>>

(* sched_set_class: a ready thread is moved to the list of its new class.  *)
SetClass(c, t, u) ==
  /\ "setclass" \in Ops /\ Exec(c, t) /\ pc[t] = "run"
  /\ state[u] = "ready"
  /\ links' = Linked(Unlinked(links, u), u)
  /\ UNCHANGED <<state, pc, arg, waitVars, cpuVars, flagVars>>

StartThread(c, t, u) ==
  /\ "start" \in Ops /\ Exec(c, t) /\ pc[t] = "run"
  /\ state[u] = "new"
  /\ RqEnqueue(u)
  /\ UNCHANGED <<pc, arg, waitVars, cpuVars, flagVars>>

(* thread_exit marks the thread under global_lock; interrupts are then on  *)
(* again, and it may still be preempted before it schedules itself away.   *)
Exit(c, t) ==
  /\ "exit" \in Ops /\ Exec(c, t) /\ pc[t] = "run"
  /\ \A d \in Cpus : phase[d] # "expire"
  /\ state' = [state EXCEPT ![t] = "zombie"]
  /\ Goto(t, "exiting")
  /\ UNCHANGED <<links, arg, waitVars, cpuVars, flagVars>>

ExitSchedule(c, t) ==
  /\ Exec(c, t) /\ pc[t] = "exiting"
  /\ Schedule(c, "zombie")
  /\ UNCHANGED <<pc, arg, waitVars, preemptOff, idling>>
-----------------------------------------------------------------------------
CpuStep(c) == \/ ContextSwitch(c) \/ FinishSwitch(c)
              \/ TickEnqueue(c) \/ TickResched(c)
              \/ IdleHalt(c) \/ IdleWake(c)
              \/ \E t \in Threads : TickExpire(c, t)

ThreadStep(c, t) == \/ Yield(c, t) \/ Sleep(c, t)
                    \/ WaitLink(c, t) \/ WaitBlock(c, t) \/ WaitUnlink(c, t)
                    \/ WakeCheck(c, t) \/ WakeEnqueue(c, t)
                    \/ PreemptLookup(c, t) \/ PreemptDisable(c, t)
                    \/ PreemptEnable(c, t)
                    \/ Exit(c, t) \/ ExitSchedule(c, t)
                    \/ \E u \in Threads : \/ WakePop(c, t, u)
                                          \/ SetClass(c, t, u)
                                          \/ StartThread(c, t, u)

Next == \E c \in Cpus : CpuStep(c) \/ \E t \in Threads : ThreadStep(c, t)

Spec == Init /\ [][Next]_vars
-----------------------------------------------------------------------------
(* What the scheduler owes the rest of the kernel.                         *)

(* No two cores ever execute on the same stack: what prev_pending and      *)
(* sched_finish_switch exist for.                                          *)
StackExclusive == \A c, d \in Cpus :
                    c # d /\ current[c] # Idle => current[c] # current[d]

(* A thread is linked at most once; a linked thread is READY and no core   *)
(* is executing it or has picked it already.                               *)
QueueSound == \A t \in Threads :
                /\ links[t] <= 1
                /\ links[t] = 1 => /\ state[t] = "ready"
                                  /\ \A c \in Cpus : t \notin {current[c], target[c]}

(* A thread that is ready or running is always on the queue or in the      *)
(* hands of exactly the core that will run it or put it back: __schedule,  *)
(* the tick and the wake never drop a runnable thread.                     *)
NoneForgotten == \A t \in Threads : state[t] \in {"ready", "running"} =>
                   \/ links[t] = 1
                   \/ \E c \in Cpus : t \in {current[c], target[c], prevPending[c]}

(* Stated, and not kept when there are two cores: between                  *)
(* sched_preempt_disable and sched_preempt_enable a thread keeps its core, *)
(* whatever ticks arrive.                                                  *)
PreemptRespected == \A t \in Threads : pc[t] = "nopreempt" =>
                      \E c \in Cpus : current[c] = t /\ phase[c] # "switch"

(* A core only ever switches to its idle thread or to a READY thread: a    *)
(* thread that exited, or sleeps unexpired, or is still blocked, is never  *)
(* resumed.                                                                *)
ResumesReady == \A c \in Cpus : current'[c] # current[c] =>
                  current'[c] = Idle \/ state[current'[c]] = "ready"

OnlyReadyResumed == [][ResumesReady]_vars

(* A thread blocked by waitq_wait can still be woken: it is on the wait    *)
(* queue, or a waker that took it off is on its way.                       *)
NoLostWakeup == \A t \in Threads :
                  pc[t] = "unlink" /\ state[t] = "blocked" =>
                    t \in waiters \/ \E u \in Threads : arg[u] = t
=============================================================================
