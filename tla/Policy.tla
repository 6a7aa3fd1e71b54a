-------------------------------- MODULE Policy --------------------------------
(***************************************************************************)
(* Which thread runs: the four classes of kernel/sched/sched.c, the         *)
(* accounting of the context switch and of the tick, the boost of a wakeup  *)
(* and deadline admission.  Sched.tla has the steps of a switch and its     *)
(* locks; here a switch is one step and time counts in ticks.               *)
(***************************************************************************)
EXTENDS Integers, Sequences, FiniteSets, SequencesExt, FiniteSetsExt, Functions

CONSTANTS Cpus, Idle,
          Loads,      \* the workloads: functions from the threads to class, priority and cores
          Steady,     \* the threads that never yield nor block
          Askers,     \* the threads whose class and deadline are set
          Later,      \* the threads that are started while the others run
          Claims,     \* [period, budget] a deadline thread may ask for
          Width,      \* 2^64 of the admission sum
          BaseSlice, MaxSlice,  \* SLICE_BASE_NS, SLICE_MAX_NS
          MaxTime, MaxAsks  \* bounds: ticks, changes of parameters

VARIABLES thr,      \* thread -> its scheduling fields
          rq,       \* the ready threads in the order they were queued
          cur,      \* core -> cs->current
          resched,  \* core -> cs->need_resched
          due,      \* the cores whose tick of this instant is to come
          now,
          asking,   \* thread -> the claim sched_set_deadline found room for, not yet stored
          asks,     \* changes of parameters so far
          passed,   \* history: the ready threads of a higher class the last switch
                    \* left waiting, and the thread it took the core from
          raced     \* history: a claim was admitted beside another that was being
                    \* decided, or by a sum that wrapped, or a thread took its
                    \* period into a deadline class

polVars == <<thr, rq, cur, resched, due, now, asking, asks, passed, raced>>

Threads == DOMAIN thr
Deadlined == {"realtime", "inference"}
Rank(cls) == CASE cls = "realtime" -> 0 [] cls = "inference" -> 1 [] cls = "interactive" -> 2 [] cls = "batch" -> 3

Init ==
  /\ \E load \in Loads :
       /\ thr = [t \in DOMAIN load |-> load[t] @@
                   [st |-> IF t \in Later THEN "new" ELSE "ready", until |-> 0, deadline |-> 0, period |-> 0, budget |-> 0, left |-> 0,
                    vruntime |-> 0, start |-> 0, slice |-> 0]]
       /\ rq \in SetToSeqs(DOMAIN load \ Later)
       /\ asking = [t \in DOMAIN load |-> [period |-> 0, budget |-> 0]]
  /\ cur = [c \in Cpus |-> Idle] /\ resched = [c \in Cpus |-> FALSE]
  /\ due = Cpus /\ now = 1
  /\ asks = 0 /\ passed = [ready |-> {}, prev |-> Idle] /\ raced = FALSE

(********************************* picking *********************************)

(* The first, in queue order, of the least by f: every picker scans the     *)
(* priority levels and replaces its choice only by a smaller one.           *)
Scan(q, T) ==
  LET levels == SetToSortSeq({T[t].prio : t \in DOMAIN T}, <)
  IN  FlattenSeq([i \in DOMAIN levels |-> SelectSeq(q, LAMBDA t : T[t].prio = levels[i])])
Least(q, f(_)) == q[CHOOSE i \in DOMAIN q : \A j \in DOMAIN q : f(q[i]) < f(q[j]) \/ (f(q[i]) = f(q[j]) /\ i <= j)]

PickFirst(q, T) == q[1]
PickFair(q, T)  == Least(q, LAMBDA t : T[t].vruntime)

Within(r) == r.left > 0 \/ r.budget = 0        \* inside its budget

(* pick_next, for core c.                                                   *)
PickNext(c, q, T) ==
  LET here(cls) == SelectSeq(Scan(q, T), LAMBDA t : T[t].cls = cls /\ c \in T[t].cpus)
      edf(cls)  == Least(here(cls), LAMBDA t : T[t].deadline)
  IN  CASE here("realtime") # <<>> -> edf("realtime")
        [] here("realtime") = <<>> /\ here("inference") # <<>> /\ Within(T[edf("inference")]) -> edf("inference")
        [] OTHER ->
             IF here("interactive") # <<>> THEN here("interactive")[1]
             ELSE IF here("batch") # <<>> THEN PickFair(here("batch"), T)
             ELSE IF here("inference") # <<>> THEN edf("inference")
             ELSE Idle

SliceFor(r) ==
  CASE r.cls = "realtime"    -> IF r.budget > 0 THEN r.budget ELSE MaxSlice
    [] r.cls = "inference"   -> IF r.budget > 0 THEN Min({r.budget, MaxSlice}) ELSE BaseSlice
    [] r.cls = "interactive" -> BaseSlice + r.prio
    [] OTHER                 -> MaxSlice

(* What the time since it was switched in costs the thread that leaves.     *)
Charged(r) ==
  LET ran == IF r.start = 0 THEN 0 ELSE now - r.start
  IN  [r EXCEPT !.vruntime = IF r.cls = "batch" THEN @ + ran ELSE @,
                !.left = IF r.cls = "inference" THEN Max({@ - ran, 0}) ELSE @]

Started(r) == [r EXCEPT !.st = "running", !.start = now, !.slice = SliceFor(r)]

(* __schedule, context_switch and sched_finish_switch on core c, prev       *)
(* becoming st: prev is not on the queue while next is picked.              *)
Schedule(c, T, q, st) ==
  LET prev == cur[c]
      left == IF prev = Idle THEN T ELSE [T EXCEPT ![prev].st = st]
      next == PickNext(c, q, left)
      paid == IF prev = Idle \/ next = prev THEN left ELSE [left EXCEPT ![prev] = Charged(@)]
      rest == IF next = Idle THEN q ELSE SelectSeq(q, LAMBDA t : t # next)
      owed == prev # Idle /\ st = "running"
      back == IF owed THEN [paid EXCEPT ![prev].st = "ready"] ELSE paid
  IN  /\ thr' = IF next = Idle THEN back
                ELSE [back EXCEPT ![next] = Started(@)]
      /\ rq' = IF owed THEN Append(rest, prev) ELSE rest
      /\ cur' = [cur EXCEPT ![c] = next]
      /\ resched' = [resched EXCEPT ![c] = FALSE]

(* The ready threads of a higher class than the one core c now runs, but    *)
(* for those over an inference budget or behind one that is; the thread the *)
(* core was taken from was not there to be picked.                          *)
Overtaken(c) ==
  LET q     == SelectSeq(Scan(rq', thr'), LAMBDA t : c \in thr'[t].cpus)
      infer == SelectSeq(q, LAMBDA t : t # cur[c] /\ thr'[t].cls = "inference")
      held  == infer # <<>> /\ ~Within(thr'[Least(infer, LAMBDA t : thr'[t].deadline)])
  IN  [prev  |-> cur[c],
       ready |-> {t \in Range(q) : /\ ~(held /\ thr'[t].cls = "inference")
                                   /\ cur'[c] = Idle \/ Rank(thr'[t].cls) < Rank(thr'[cur'[c]].cls)}]

(******************************** operations *******************************)

Running(c) == cur[c] # Idle

Yield(c) ==
  /\ Running(c) => cur[c] \notin Steady
  /\ Schedule(c, thr, rq, "running") /\ passed' = Overtaken(c)
  /\ UNCHANGED <<due, now, asking, asks, raced>>

Block(c) ==
  /\ Running(c) /\ cur[c] \notin Steady
  /\ Schedule(c, thr, rq, "blocked") /\ passed' = Overtaken(c)
  /\ UNCHANGED <<due, now, asking, asks, raced>>

Sleep(c) ==
  /\ Running(c) /\ cur[c] \notin Steady
  /\ Schedule(c, [thr EXCEPT ![cur[c]].until = now + 1], rq, "sleeping") /\ passed' = Overtaken(c)
  /\ UNCHANGED <<due, now, asking, asks, raced>>

(* thread_start: with the virtual runtime it was created with, which is 0.  *)
ThreadStart(t) ==
  /\ thr[t].st = "new"
  /\ thr' = [thr EXCEPT ![t].st = "ready"]
  /\ rq' = Append(rq, t)
  /\ UNCHANGED <<cur, resched, due, now, asking, asks, passed, raced>>

(* sched_wake of t by what core c runs.                                     *)
Wake(c, t) ==
  /\ thr[t].st \in {"blocked", "sleeping"}
  /\ thr' = [thr EXCEPT ![t].st = "ready", ![t].prio = IF thr[t].cls = "interactive" /\ @ > 0 THEN @ - 1 ELSE @]
  /\ rq' = Append(rq, t)
  /\ \E k \in {d \in Cpus \ {c} : ~Running(d)} \union {c} :      \* kick_idle_cpu: one of the others that idles, if any
       /\ k = c => \A d \in Cpus \ {c} : Running(d)
       /\ resched' = [d \in Cpus |-> \/ resched[d] \/ (d = k /\ k # c)
                                     \/ d = c /\ Rank(IF Running(c) THEN thr[cur[c]].cls ELSE "batch") > Rank(thr[t].cls)]
  /\ UNCHANGED <<cur, due, now, asking, asks, passed, raced>>

(* sched_tick: sleepers whose time has come, the slice, the deadline of the *)
(* thread that runs, and a switch when one is wanted.                       *)
Tick(c) ==
  /\ c \in due /\ due' = due \ {c}
  /\ LET up   == {t \in Threads : thr[t].st = "sleeping" /\ thr[t].until <= now}
         q    == rq \o SetToSeq(up)
         woke == [t \in Threads |-> IF t \in up THEN [thr[t] EXCEPT !.st = "ready", !.until = 0] ELSE thr[t]]
         r    == IF Running(c) THEN woke[cur[c]] ELSE [start |-> 0]
         late == Running(c) /\ r.cls \in Deadlined /\ r.deadline > 0 /\ now > r.deadline
         T    == IF late /\ r.period > 0
                 THEN [woke EXCEPT ![cur[c]].deadline = now + r.period, ![cur[c]].left = r.budget] ELSE woke
         want == resched[c] \/ ~Running(c) \/ (r.start > 0 /\ now - r.start >= r.slice)
     IN  IF want THEN Schedule(c, T, q, "running") /\ passed' = Overtaken(c)
         ELSE thr' = T /\ rq' = q /\ UNCHANGED <<cur, resched, passed>>
  /\ UNCHANGED <<now, asking, asks, raced>>

Pass ==
  /\ due = {} /\ now < MaxTime
  /\ now' = now + 1 /\ due' = Cpus
  /\ UNCHANGED <<thr, rq, cur, resched, asking, asks, passed, raced>>

(******************************** admission ********************************)

(* The sum of budget over period of the other deadline threads, as a        *)
(* fraction whose terms wrap at the width of the integers, w.               *)
ScaleOnce(used, o, w) == [num |-> (used.num + o.budget * used.den) % w, den |-> (used.den * o.period) % w]
Add(used, o, w) == [num |-> (used.num * o.period + o.budget * used.den) % w, den |-> (used.den * o.period) % w]
Used(t, w) == FoldSet(LAMBDA o, used : Add(used, thr[o], w), [num |-> 0, den |-> 1],
                      {o \in Threads \ {t} : thr[o].period > 0 /\ thr[o].cls \in Deadlined})
Fits(t, m, w) == LET want == Add(Used(t, w), m, w)
                 IN  want.den = 0 \/ (want.num * 10) % w <= (8 * Cardinality(Cpus) * want.den) % w
Wide == 1000000     \* wide enough that no sum of the run wraps

(* sched_set_deadline: the sum is taken under global_lock, the test and the *)
(* stores come after it.                                                    *)
SetDeadline(t) ==
  /\ asks < MaxAsks /\ asks' = asks + 1
  /\ asking[t].period = 0
  /\ \E m \in Claims :
       /\ Fits(t, m, Width)
       /\ asking' = [asking EXCEPT ![t] = m]
       /\ raced' = (raced \/ ~Fits(t, m, Wide) \/ \E o \in Threads : asking[o].period > 0)
  /\ UNCHANGED <<thr, rq, cur, resched, due, now, passed>>

StoreDeadline(t) ==
  /\ asking[t].period > 0
  /\ thr' = [thr EXCEPT ![t] = [@ EXCEPT !.period = asking[t].period, !.budget = asking[t].budget,
                                         !.left = asking[t].budget, !.deadline = now + asking[t].period]]
  /\ asking' = [asking EXCEPT ![t] = [period |-> 0, budget |-> 0]]
  /\ UNCHANGED <<rq, cur, resched, due, now, asks, passed, raced>>

(* sched_set_class: a ready thread is queued again under its new class.     *)
SetClass(t) ==
  /\ asks < MaxAsks /\ asks' = asks + 1
  /\ \E cls \in {"realtime", "batch"} \ {thr[t].cls} :
       /\ thr' = [thr EXCEPT ![t].cls = cls]
       /\ raced' = (raced \/ (cls \in Deadlined /\ thr[t].cls \notin Deadlined /\ thr[t].period + asking[t].period > 0))
  /\ rq' = IF thr[t].st = "ready" THEN Append(SelectSeq(rq, LAMBDA o : o # t), t) ELSE rq
  /\ UNCHANGED <<cur, resched, due, now, asking, passed>>

Next ==
  \/ Pass
  \/ \E c \in Cpus : Tick(c) \/ Yield(c) \/ Block(c) \/ Sleep(c) \/ \E t \in Threads : Wake(c, t)
  \/ \E t \in Threads : ThreadStart(t)
  \/ \E t \in Threads \intersect Askers : SetDeadline(t) \/ StoreDeadline(t) \/ SetClass(t)

-----------------------------------------------------------------------------
(* Stated, and not kept: the same without those conditions.                 *)
Admitted ==
  LET claims == {t \in Threads : thr[t].cls \in Deadlined /\ thr[t].period > 0}
      all == FoldSet(LAMBDA t, product : product * thr[t].period, 1, claims)
      share(t) == (thr[t].budget * all) \div thr[t].period
  IN  10 * FoldSet(LAMBDA t, sum : sum + share(t), 0, claims) <= 8 * Cardinality(Cpus) * all

(* What the deadline threads were admitted for fits in eight tenths of the  *)
(* cores, however the claims, the class changes and the replenishments of   *)
(* the tick interleave, as long as each claim was decided alone, by a sum   *)
(* that did not wrap, and nobody takes a period into a deadline class.      *)
AdmittedFits == raced \/ Admitted

(* Batch threads that start together and neither yield nor block nor change *)
(* class get equal shares: while they wait, their virtual runtimes are at   *)
(* most one slice apart, whoever else starts, wakes, boosts or overruns.    *)
Waiting == {u \in (Steady \ Askers) \intersect Threads : thr[u].cls = "batch" /\ thr[u].st = "ready"}
Apart(T) == \A s, t \in T : thr[s].vruntime - thr[t].vruntime <= MaxSlice
FairShare == Apart(Waiting \ Later)

(* Stated, and not kept: the same with the threads that start later.        *)
FairToAll == Apart(Waiting)

(* A core is not given to a lower class while a thread of a higher one is   *)
(* ready, inference over its budget and what waits behind it apart; but the *)
(* thread the core is taken from does not compete.                          *)
OnlyLastPassed == passed.ready \subseteq {passed.prev}

(* Stated, and not kept.  "Four classes, checked strictly in order"         *)
(* (docs/ARCHITECTURE.md:141): the thread the core is taken from as well.   *)
ClassOrder == passed.ready = {}
=============================================================================
