----------------------------- MODULE ServiceProofs -----------------------------
(* Timers, interrupts, the log, file calls, the starting of cores, the      *)
(* attention cache and the address spaces, for any cores,                   *)
(* timers, drivers, readers, threads, sequences and spaces. The list of     *)
(* timers holds each active one once, in the order of deadlines, and the    *)
(* list of a line's actions each driver once, by the lemmas of Lists, which *)
(* every start, cancel, tick, request and free is reduced to; the log's     *)
(* ring holds the last bytes, each in its slot; a call in flight holds the  *)
(* file its handle named; the block of parameters is that of one core at a  *)
(* time; a page of the cache is counted once for every place that names it, *)
(* and a memory object once for every area, which stay in order and apart   *)
(* and whose pages lead to the frames of their objects.                     *)
EXTENDS Kv, Vmm, Lists, FiniteSetTheorems

CONSTANTS Timers, Cpus, Delays, Periods, Sec, Bases, MaxTime, MaxArms,
          Devs, Claims, TimerLine, Storm, MaxCount,
          Readers, RingBytes, LineMax, Lens, Warn, Level, Sizes, MaxBytes,
          Threads, Slots, Objects, OpenFiles, FileLen, Chunk,
          MaxCpus, Ports, Late

VARIABLES timers, timer, tick, clock, arms,
          actions, line, disp, depth, ticked, emptied,
          bytes, lhead, records, writer, curs, seen, events,
          slot, cobj, ofile, sys,
          machine, boot, param, core, online, reported, count, roster, low, freed

Tm == INSTANCE Timer
Ir == INSTANCE Irq
Lo == INSTANCE Log
Sy == INSTANCE Syscall
Sm == INSTANCE Smp

TimerSpec == Tm!Init /\ [][Tm!Next]_Tm!timerVars
IrqSpec   == Ir!Init /\ [][Ir!Next]_Ir!irqVars
LogSpec   == Lo!Init /\ [][Lo!Next]_Lo!logVars
CallsSpec == Sy!Init /\ [][Sy!Next]_Sy!sysVars
CoresSpec == Sm!Init /\ [][Sm!Next]_Sm!smpVars
KvSpec    == KvInit /\ [][KvNext]_kvVars
VmmSpec   == VmmInit /\ [][VmmNext]_vmmVars
-----------------------------------------------------------------------------
(* Timers.                                                                  *)
Records == [active : BOOLEAN, expires : Int, period : Int]

TimerTypeOK ==
  /\ timers \in Seq(Timers)
  /\ timer \in [Timers -> Records]
  /\ tick \in [Cpus -> [pc : {"out", "loop", "call"}, now : Int, t : Timers \cup {0}, due : Int]]
  /\ clock \in [arch : Int, replaying : BOOLEAN, mono : Int, unix : Int, base : Int]

(* The key of the list, and the list: active timers, once each, in order.   *)
Deadlines(tm) == [t \in Timers |-> tm[t].expires]
Listed(l, tm) == /\ IsInjective(l)
                 /\ \A t \in Timers : Contains(l, t) <=> tm[t].active
                 /\ Ordered(l, Deadlines(tm))

CalledDue == \A c \in Cpus : tick[c].pc = "call" => tick[c].due <= tick[c].now

TimerInv == TimerTypeOK /\ Listed(timers, timer) /\ CalledDue

(* The operators of the libraries are the same in each instance.            *)
LEMMA SameOperators ==
  /\ \A P : Tm!Min(P) = Min(P)
  /\ \A s, i, e : Tm!InsertAt(s, i, e) = InsertAt(s, i, e)
  /\ \A s, e : Tm!RemoveFirst(s, e) = RemoveFirst(s, e)
  /\ \A s, e : Ir!RemoveFirst(s, e) = RemoveFirst(s, e)
  /\ \A s, e : Ir!Contains(s, e) <=> Contains(s, e)
  /\ \A s : Ir!Range(s) = {s[i] : i \in DOMAIN s}
<1>1. \A P : Tm!Min(P) = Min(P) /\ Ir!Min(P) = Min(P)
  BY DEF Tm!Min, Ir!Min, Min
<1>2. \A s, i, e : Tm!InsertAt(s, i, e) = InsertAt(s, i, e)
  BY DEF Tm!InsertAt, InsertAt
<1>3. \A s, e : Tm!RemoveFirst(s, e) = RemoveFirst(s, e) /\ Ir!RemoveFirst(s, e) = RemoveFirst(s, e)
  BY <1>1 DEF Tm!RemoveFirst, Ir!RemoveFirst, RemoveFirst, Tm!RemoveAt, Ir!RemoveAt, RemoveAt,
              Tm!SelectInSeq, Ir!SelectInSeq, SelectInSeq
<1>4. /\ \A s, e : Ir!Contains(s, e) <=> Contains(s, e)
      /\ \A s : Ir!Range(s) = {s[i] : i \in DOMAIN s}
  BY DEF Ir!Contains, Contains, Ir!Range
<1> QED BY <1>1, <1>2, <1>3, <1>4

(* timer_insert puts a timer that is on no list where its new deadline      *)
(* belongs, whatever else happened to that timer.                           *)
LEMMA InsertKeeps ==
  ASSUME NEW l \in Seq(Timers), IsInjective(l),
         NEW old \in [Timers -> Records], NEW tm \in [Timers -> Records], NEW t \in Timers,
         Ordered(l, Deadlines(old)), ~Contains(l, t),
         \A x \in Timers : x # t => tm[x] = old[x]
  PROVE  LET r == Tm!TimerInsert(l, tm, t) IN
           /\ r \in Seq(Timers) /\ IsInjective(r)
           /\ \A x : Contains(r, x) <=> Contains(l, x) \/ x = t
           /\ Ordered(r, Deadlines(tm))
<1> DEFINE key == Deadlines(tm)
<1>1. key \in [Timers -> Int] /\ \A x \in Timers : key[x] = tm[x].expires
  BY DEF Deadlines, Records
<1>2. Len(l) \in Nat /\ \A i \in 1..Len(l) : l[i] \in Timers /\ l[i] # t
  BY DEF Contains
<1>3. \A i \in 1..Len(l) : Deadlines(old)[l[i]] = key[l[i]]
  BY <1>2 DEF Deadlines
<1>4. Ordered(l, key)
  BY <1>3 DEF Ordered
<1> HIDE DEF key
<1> DEFINE later == {i \in DOMAIN l : tm[t].expires < tm[l[i]].expires}
<1>5. DOMAIN l = 1..Len(l)
  OBVIOUS
<1>6. \A i \in 1..Len(l) : i \in later <=> key[t] < key[l[i]]
  BY <1>1, <1>2, <1>5
<1>7. later \in SUBSET (1..Len(l))
  BY <1>5
<1>8. Tm!TimerInsert(l, tm, t) = IF later = {} THEN Append(l, t) ELSE InsertAt(l, Min(later), t)
  BY SameOperators DEF Tm!TimerInsert
<1> HIDE DEF later
<1>9. CASE later = {}
  <2>1. \A i \in 1..Len(l) : key[l[i]] <= key[t]
    BY <1>1, <1>2, <1>6, <1>9
  <2>2. Ordered(Append(l, t), key)
    <3>1. /\ Len(Append(l, t)) = Len(l) + 1 /\ Append(l, t)[Len(l) + 1] = t
          /\ \A i \in 1..Len(l) : Append(l, t)[i] = l[i]
      OBVIOUS
    <3>2. SUFFICES ASSUME NEW i \in 1..(Len(l) + 1), NEW j \in 1..(Len(l) + 1), i <= j
                   PROVE  key[Append(l, t)[i]] <= key[Append(l, t)[j]]
      BY <3>1 DEF Ordered
    <3>3. CASE j \in 1..Len(l)
      BY <1>2, <1>4, <3>1, <3>2, <3>3 DEF Ordered
    <3>4. CASE j = Len(l) + 1 /\ i \in 1..Len(l)
      BY <2>1, <3>1, <3>4
    <3>5. CASE j = Len(l) + 1 /\ i = Len(l) + 1
      BY <1>1, <3>1, <3>5
    <3> QED BY <1>2, <3>2, <3>3, <3>4, <3>5
  <2> QED BY <1>8, <1>9, <2>2, AppendOnce DEF key
<1>10. CASE later # {}
  <2> DEFINE m == Min(later)
  <2>1. m \in later /\ \A i \in later : m <= i
    <3>1. later \in SUBSET Nat
      BY <1>2, <1>7
    <3> QED BY <1>10, <3>1, FirstPosition
  <2> HIDE DEF m
  <2>2. m \in 1..Len(l) /\ m \in 1..(Len(l) + 1) /\ key[t] < key[l[m]]
    BY <1>2, <1>6, <1>7, <2>1
  <2>3. ASSUME NEW k \in 1..Len(l)
        PROVE  IF k < m THEN key[l[k]] <= key[t] ELSE key[t] <= key[l[k]]
    <3>1. key[l[k]] \in Int /\ key[t] \in Int /\ key[l[m]] \in Int
      BY <1>1, <1>2, <2>2
    <3>2. CASE k < m
      <4>1. k \notin later
        BY <2>1, <2>2, <3>2
      <4> QED BY <1>6, <3>1, <3>2, <4>1
    <3>3. CASE ~ (k < m)
      <4>1. key[l[m]] <= key[l[k]]
        BY <1>4, <2>2, <3>3 DEF Ordered
      <4> QED BY <2>2, <3>1, <3>3, <4>1
    <3> QED BY <3>2, <3>3
  <2>4. Ordered(InsertAt(l, m, t), key)
    BY <1>1, <1>4, <2>2, <2>3, InsertOrdered
  <2>5. /\ InsertAt(l, m, t) \in Seq(Timers) /\ IsInjective(InsertAt(l, m, t))
        /\ \A x : Contains(InsertAt(l, m, t), x) <=> Contains(l, x) \/ x = t
    BY <2>2, InsertOnce
  <2> QED BY <1>8, <1>10, <2>4, <2>5 DEF m, key
<1> QED BY <1>9, <1>10

(* A timer that is taken off the list and armed again.                      *)
LEMMA RearmKeeps ==
  ASSUME NEW l \in Seq(Timers), IsInjective(l),
         NEW old \in [Timers -> Records], NEW tm \in [Timers -> Records], NEW t \in Timers,
         Ordered(l, Deadlines(old)),
         \A x \in Timers : Contains(l, x) <=> old[x].active /\ x # t,
         \A x \in Timers : x # t => tm[x] = old[x],
         tm[t].active
  PROVE  Tm!TimerInsert(l, tm, t) \in Seq(Timers) /\ Listed(Tm!TimerInsert(l, tm, t), tm)
<1> DEFINE r == Tm!TimerInsert(l, tm, t)
<1>1. ~Contains(l, t)
  OBVIOUS
<1>2. /\ r \in Seq(Timers) /\ IsInjective(r)
      /\ \A x : Contains(r, x) <=> Contains(l, x) \/ x = t
      /\ Ordered(r, Deadlines(tm))
  BY <1>1, InsertKeeps
<1> HIDE DEF r
<1>3. ASSUME NEW x \in Timers PROVE Contains(r, x) <=> tm[x].active
  <2>1. CASE x = t
    BY <1>2, <2>1
  <2>2. CASE x # t
    <3>1. Contains(r, x) <=> Contains(l, x)
      BY <1>2, <2>2
    <3>2. Contains(l, x) <=> old[x].active
      BY <2>2
    <3>3. tm[x] = old[x]
      BY <2>2
    <3> QED BY <3>1, <3>2, <3>3
  <2> QED BY <2>1, <2>2
<1> QED BY <1>2, <1>3 DEF Listed, r

(* A timer that is taken off the list and is no longer active.              *)
LEMMA DisarmKeeps ==
  ASSUME NEW l \in Seq(Timers), IsInjective(l),
         NEW old \in [Timers -> Records], NEW tm \in [Timers -> Records], NEW t \in Timers,
         Ordered(l, Deadlines(old)),
         \A x \in Timers : Contains(l, x) <=> old[x].active /\ x # t,
         \A x \in Timers : x # t => tm[x] = old[x],
         ~tm[t].active
  PROVE  Listed(l, tm)
<1>1. \A i \in 1..Len(l) : Deadlines(tm)[l[i]] = Deadlines(old)[l[i]]
  <2>1. \A i \in 1..Len(l) : l[i] \in Timers /\ l[i] # t
    BY DEF Contains
  <2> QED BY <2>1 DEF Deadlines
<1>2. Ordered(l, Deadlines(tm))
  BY <1>1 DEF Ordered
<1>3. ASSUME NEW x \in Timers PROVE Contains(l, x) <=> tm[x].active
  <2>1. CASE x = t
    BY <2>1
  <2>2. CASE x # t
    BY <2>2
  <2> QED BY <2>1, <2>2
<1> QED BY <1>2, <1>3 DEF Listed

(* What list_del leaves of the list, and what the head's removal leaves.    *)
LEMMA UnlinkLeaves ==
  ASSUME TimerInv, NEW t \in Timers
  PROVE  LET l == Tm!Unlink(t) IN
           /\ l \in Seq(Timers) /\ IsInjective(l) /\ Ordered(l, Deadlines(timer))
           /\ \A x \in Timers : Contains(l, x) <=> timer[x].active /\ x # t
<1>1. Deadlines(timer) \in [Timers -> Int]
  BY DEF TimerInv, TimerTypeOK, Deadlines, Records
<1>2. timers \in Seq(Timers) /\ Listed(timers, timer)
  BY DEF TimerInv, TimerTypeOK
<1>3. /\ RemoveFirst(timers, t) \in Seq(Timers) /\ IsInjective(RemoveFirst(timers, t))
      /\ \A x : Contains(RemoveFirst(timers, t), x) <=> Contains(timers, x) /\ x # t
  BY <1>2, RemoveOnce DEF Listed
<1>4. Ordered(RemoveFirst(timers, t), Deadlines(timer))
  BY <1>1, <1>2, RemoveOrdered DEF Listed
<1> QED BY <1>2, <1>3, <1>4, SameOperators DEF Tm!Unlink, Listed

LEMMA HeadLeaves ==
  ASSUME TimerInv, timers # <<>>
  PROVE  LET l == Tail(timers)  t == Head(timers) IN
           /\ t \in Timers /\ timer[t].active
           /\ l \in Seq(Timers) /\ IsInjective(l) /\ Ordered(l, Deadlines(timer))
           /\ \A x \in Timers : Contains(l, x) <=> timer[x].active /\ x # t
<1>1. Deadlines(timer) \in [Timers -> Int]
  BY DEF TimerInv, TimerTypeOK, Deadlines, Records
<1>2. timers \in Seq(Timers) /\ Listed(timers, timer)
  BY DEF TimerInv, TimerTypeOK
<1>3. /\ Tail(timers) \in Seq(Timers) /\ IsInjective(Tail(timers)) /\ Head(timers) \in Timers
      /\ \A x : Contains(Tail(timers), x) <=> Contains(timers, x) /\ x # Head(timers)
      /\ Contains(timers, Head(timers))
  BY <1>2, TailOnce DEF Listed
<1>4. Ordered(Tail(timers), Deadlines(timer))
  BY <1>1, <1>2, TailOrdered DEF Listed
<1> QED BY <1>2, <1>3, <1>4 DEF Listed
-----------------------------------------------------------------------------
(* A step that leaves the list and the timers alone.                        *)
LEMMA ListStands ==
  ASSUME TimerInv, UNCHANGED <<timers, timer>>
  PROVE  /\ Listed(timers, timer)'
         /\ timers' \in Seq(Timers) /\ timer' \in [Timers -> Records]
<1>1. Listed(timers, timer)' <=> Listed(timers, timer)
  BY DEF Listed, Deadlines
<1> QED BY <1>1 DEF TimerInv, TimerTypeOK

(* Starting and cancelling, from any context.                               *)
LEMMA StartKeeps ==
  ASSUME Tm!TimerAssumption, TimerInv, NEW t \in Timers, NEW delay \in Int, NEW period \in Int,
         Tm!Start(t, delay, period)
  PROVE  TimerInv'
<1> DEFINE tm == [timer EXCEPT ![t] = [active |-> TRUE, expires |-> Tm!TimeNs + delay, period |-> period]]
           l  == IF timer[t].active THEN Tm!Unlink(t) ELSE timers
<1>1. timer' = tm /\ timers' = Tm!TimerInsert(l, tm, t) /\ UNCHANGED <<tick, clock>>
  BY DEF Tm!Start
<1>2. /\ timer \in [Timers -> Records] /\ timers \in Seq(Timers)
      /\ Tm!TimeNs \in Int
  BY DEF TimerInv, TimerTypeOK, Tm!TimeNs
<1>3. /\ tm \in [Timers -> Records] /\ tm[t].active
      /\ \A x \in Timers : x # t => tm[x] = timer[x]
  BY <1>2 DEF Records
<1>4. /\ l \in Seq(Timers) /\ IsInjective(l) /\ Ordered(l, Deadlines(timer))
      /\ \A x \in Timers : Contains(l, x) <=> timer[x].active /\ x # t
  <2>1. CASE timer[t].active
    BY <2>1, UnlinkLeaves
  <2>2. CASE ~ timer[t].active
    BY <1>2, <2>2 DEF TimerInv, Listed
  <2> QED BY <2>1, <2>2
<1> HIDE DEF tm, l
<1>5. Tm!TimerInsert(l, tm, t) \in Seq(Timers) /\ Listed(Tm!TimerInsert(l, tm, t), tm)
  BY <1>2, <1>3, <1>4, RearmKeeps
<1>6. Listed(timers, timer)'
  BY <1>1, <1>5
<1> QED BY <1>1, <1>3, <1>5, <1>6 DEF TimerInv, TimerTypeOK, CalledDue

LEMMA CancelKeeps ==
  ASSUME TimerInv, NEW t \in Timers, Tm!CancelTimer(t)
  PROVE  TimerInv'
<1> DEFINE tm == [timer EXCEPT ![t].active = FALSE]
           l  == Tm!Unlink(t)
<1>1. timer' = tm /\ timers' = l /\ UNCHANGED <<tick, clock>>
  BY DEF Tm!CancelTimer
<1>2. timer \in [Timers -> Records]
  BY DEF TimerInv, TimerTypeOK
<1>3. /\ tm \in [Timers -> Records] /\ ~ tm[t].active
      /\ \A x \in Timers : x # t => tm[x] = timer[x]
  BY <1>2 DEF Records
<1>4. /\ l \in Seq(Timers) /\ IsInjective(l) /\ Ordered(l, Deadlines(timer))
      /\ \A x \in Timers : Contains(l, x) <=> timer[x].active /\ x # t
  BY UnlinkLeaves
<1> HIDE DEF tm, l
<1>5. Listed(l, tm)
  BY <1>2, <1>3, <1>4, DisarmKeeps
<1>6. Listed(timers, timer)'
  BY <1>1, <1>5
<1> QED BY <1>1, <1>3, <1>4, <1>6 DEF TimerInv, TimerTypeOK, CalledDue

(* An expired timer at the head is taken off, and armed again if it is      *)
(* periodic; or the tick ends.                                              *)
LEMMA TickLoopKeeps ==
  ASSUME TimerInv, NEW c \in Cpus, Tm!TickLoop(c)
  PROVE  TimerInv'
<1> DEFINE done == timers = <<>> \/ timer[Head(timers)].expires > tick[c].now
<1>1. CASE done
  <2>1. tick' = [tick EXCEPT ![c] = [pc |-> "out", now |-> 0, t |-> 0, due |-> 0]] /\ UNCHANGED <<timers, timer, clock>>
    BY <1>1 DEF Tm!TickLoop
  <2> QED BY <2>1, ListStands DEF TimerInv, TimerTypeOK, CalledDue
<1>2. CASE ~ done
  <2> DEFINE t  == Head(timers)
             l  == Tail(timers)
             periodic == timer[t].period # 0
             next == IF periodic THEN tick[c].now + timer[t].period ELSE timer[t].expires
             tm == [timer EXCEPT ![t].active = periodic, ![t].expires = next]
  <2>1. /\ timer' = tm
        /\ timers' = IF periodic THEN Tm!TimerInsert(l, tm, t) ELSE l
        /\ tick' = [tick EXCEPT ![c].pc = "call", ![c].t = t, ![c].due = timer[t].expires]
        /\ clock' = clock
    BY <1>2 DEF Tm!TickLoop
  <2>2. timers # <<>> /\ ~ (timer[t].expires > tick[c].now)
    BY <1>2
  <2>3. /\ t \in Timers /\ timer[t].active
        /\ l \in Seq(Timers) /\ IsInjective(l) /\ Ordered(l, Deadlines(timer))
        /\ \A x \in Timers : Contains(l, x) <=> timer[x].active /\ x # t
    BY <2>2, HeadLeaves
  <2>4. /\ timer \in [Timers -> Records] /\ clock \in [arch : Int, replaying : BOOLEAN, mono : Int, unix : Int, base : Int]
        /\ tick \in [Cpus -> [pc : {"out", "loop", "call"}, now : Int, t : Timers \cup {0}, due : Int]]
    BY DEF TimerInv, TimerTypeOK
  <2>5. tick[c].now \in Int /\ timer[t].period \in Int /\ timer[t].expires \in Int
    BY <2>3, <2>4 DEF Records
  <2>6. /\ tm \in [Timers -> Records] /\ tm[t].active = periodic
        /\ \A x \in Timers : x # t => tm[x] = timer[x]
    <3>1. next \in Int /\ periodic \in BOOLEAN
      BY <2>5
    <3> HIDE DEF next, periodic, t
    <3> QED BY <2>3, <2>4, <3>1 DEF Records
  <2>7. tick' \in [Cpus -> [pc : {"out", "loop", "call"}, now : Int, t : Timers \cup {0}, due : Int]]
    <3> DEFINE Calls == [pc : {"out", "loop", "call"}, now : Int, t : Timers \cup {0}, due : Int]
               called == [[[tick[c] EXCEPT !.pc = "call"] EXCEPT !.t = t] EXCEPT !.due = timer[t].expires]
    <3>1. tick[c] \in Calls /\ tick \in [Cpus -> Calls]
      BY <2>4
    <3>2. called \in Calls
      <4> HIDE DEF t
      <4> QED BY <2>3, <2>5, <3>1
    <3>3. tick' = [tick EXCEPT ![c] = called]
      BY <2>1, <3>1
    <3> HIDE DEF Calls, called
    <3>4. tick' \in [Cpus -> Calls]
      BY <3>1, <3>2, <3>3
    <3> QED BY <3>4 DEF Calls
  <2>8. CalledDue'
    BY <2>1, <2>2, <2>4, <2>5 DEF TimerInv, CalledDue
  <2> HIDE DEF t, l, tm, periodic
  <2>9. timers' \in Seq(Timers) /\ Listed(timers', tm)
    <3>1. CASE periodic
      BY <2>1, <2>3, <2>4, <2>6, <3>1, RearmKeeps
    <3>2. CASE ~ periodic
      <4>1. timers' = l /\ timer \in [Timers -> Records] /\ ~ tm[t].active
        BY <2>1, <2>4, <2>6, <3>2
      <4>2. Listed(l, tm)
        BY <2>3, <2>6, <4>1, DisarmKeeps
      <4> QED BY <2>3, <4>1, <4>2
    <3> QED BY <3>1, <3>2
  <2>10. Listed(timers, timer)'
    BY <2>1, <2>9
  <2> QED BY <2>1, <2>4, <2>6, <2>7, <2>8, <2>9, <2>10 DEF TimerInv, TimerTypeOK
<1> QED BY <1>1, <1>2

(* The clock, the start of a tick and the call back leave the list alone.   *)
LEMMA ClockKeeps ==
  ASSUME Tm!TimerAssumption, TimerInv,
         \/ \E c \in Cpus : \/ Tm!TickEnter(c) \/ Tm!TickCall(c)
                           \/ \E m \in 0..MaxTime : Tm!ReplayAdvance(c, m)
         \/ Tm!Pass \/ Tm!LeaveReplay \/ \E m \in Bases : Tm!EnterReplay(m)
  PROVE  TimerInv'
<1> DEFINE Clocks == [arch : Int, replaying : BOOLEAN, mono : Int, unix : Int, base : Int]
           Ticks  == [Cpus -> [pc : {"out", "loop", "call"}, now : Int, t : Timers \cup {0}, due : Int]]
<1>1. clock \in Clocks /\ tick \in Ticks /\ CalledDue /\ Tm!TimeNs \in Int
  BY DEF TimerInv, TimerTypeOK, Tm!TimeNs
<1>2. SUFFICES UNCHANGED <<timers, timer>> /\ clock' \in Clocks /\ tick' \in Ticks /\ CalledDue'
  BY ListStands DEF TimerInv, TimerTypeOK
<1>3. ASSUME NEW c \in Cpus, Tm!TickEnter(c)
      PROVE  UNCHANGED <<timers, timer>> /\ clock' \in Clocks /\ tick' \in Ticks /\ CalledDue'
  <2>1. PICK n \in Int : n = Tm!TimeNs
    BY <1>1
  <2>2. tick' = [tick EXCEPT ![c] = [pc |-> "loop", now |-> n, t |-> 0, due |-> 0]]
    BY <1>3, <2>1 DEF Tm!TickEnter
  <2>3. UNCHANGED <<timers, timer, clock>>
    BY <1>3 DEF Tm!TickEnter
  <2> QED BY <1>1, <2>2, <2>3 DEF CalledDue
<1>4. ASSUME NEW c \in Cpus, Tm!TickCall(c)
      PROVE  UNCHANGED <<timers, timer>> /\ clock' \in Clocks /\ tick' \in Ticks /\ CalledDue'
  <2>1. /\ tick' = [tick EXCEPT ![c].pc = "loop", ![c].t = 0, ![c].due = 0]
        /\ UNCHANGED <<timers, timer, clock>>
    BY <1>4 DEF Tm!TickCall
  <2>2. tick' \in Ticks
    <3>1. PICK a \in Ticks : a = [tick EXCEPT ![c].pc = "loop"]
      BY <1>1
    <3>2. PICK b \in Ticks : b = [a EXCEPT ![c].t = 0]
      BY <1>1
    <3>3. tick' = [b EXCEPT ![c].due = 0]
      BY <2>1, <3>1, <3>2
    <3> QED BY <3>3
  <2>3. tick'[c].pc = "loop" /\ \A d \in Cpus : d # c => tick'[d] = tick[d]
    BY <1>1, <2>1
  <2>4. CalledDue'
    BY <1>1, <2>3 DEF CalledDue
  <2> QED BY <1>1, <2>1, <2>2, <2>4
<1>5. \A d \in Int : d \div Sec \in Int
  BY DEF Tm!TimerAssumption
<1>6. ASSUME NEW c \in Cpus, NEW m \in 0..MaxTime, Tm!ReplayAdvance(c, m)
      PROVE  UNCHANGED <<timers, timer>> /\ clock' \in Clocks /\ tick' \in Ticks /\ CalledDue'
  <2>1. m \in Int /\ (m - clock.mono) \div Sec \in Int
    BY <1>1, <1>5
  <2>2. PICK u \in Int : u = clock.unix + (m - clock.mono) \div Sec
    BY <1>1, <2>1
  <2>3. clock' = [clock EXCEPT !.mono = m, !.unix = u]
    BY <1>6, <2>2 DEF Tm!ReplayAdvance
  <2>4. clock' \in Clocks
    BY <1>1, <2>1, <2>3
  <2>5. /\ tick' = [tick EXCEPT ![c] = [pc |-> "loop", now |-> m, t |-> 0, due |-> 0]]
        /\ UNCHANGED <<timers, timer>>
    BY <1>6 DEF Tm!ReplayAdvance
  <2>6. tick' \in Ticks /\ CalledDue'
    BY <1>1, <2>1, <2>5 DEF CalledDue
  <2> QED BY <2>4, <2>5, <2>6
<1>7. CASE Tm!Pass
  BY <1>1, <1>7 DEF Tm!Pass, CalledDue
<1>8. CASE Tm!LeaveReplay
  <2>1. clock' = [clock EXCEPT !.replaying = FALSE, !.base = 0] /\ UNCHANGED <<timers, timer, tick>>
    BY <1>8 DEF Tm!LeaveReplay
  <2>2. clock' \in Clocks
    <3>1. PICK k \in Clocks : k = [clock EXCEPT !.replaying = FALSE]
      BY <1>1
    <3>2. clock' = [k EXCEPT !.base = 0]
      BY <2>1, <3>1
    <3> QED BY <3>2
  <2> QED BY <1>1, <2>1, <2>2 DEF CalledDue
<1>9. ASSUME NEW m \in Bases, Tm!EnterReplay(m)
      PROVE  UNCHANGED <<timers, timer>> /\ clock' \in Clocks /\ tick' \in Ticks /\ CalledDue'
  <2>1. m \in Int
    BY DEF Tm!TimerAssumption
  <2>2. Tm!UnixTime \in Int
    BY <1>1, <1>5 DEF Tm!UnixTime
  <2>3. PICK u \in Int : u = Tm!UnixTime
    BY <2>2
  <2>4. clock' = [clock EXCEPT !.replaying = TRUE, !.mono = m, !.unix = u, !.base = m]
    BY <1>9, <2>3 DEF Tm!EnterReplay
  <2>5. UNCHANGED <<timers, timer, tick>>
    BY <1>9 DEF Tm!EnterReplay
  <2> QED BY <1>1, <2>1, <2>4, <2>5 DEF CalledDue
<1> QED BY <1>3, <1>4, <1>6, <1>7, <1>8, <1>9

LEMMA TimerStarts == Tm!Init => TimerInv
<1> SUFFICES ASSUME Tm!Init PROVE TimerInv
  OBVIOUS
<1>1. TimerTypeOK /\ CalledDue
  BY DEF Tm!Init, TimerTypeOK, CalledDue, Records
<1>2. Listed(timers, timer)
  BY DEF Tm!Init, Listed, IsInjective, Contains, Ordered
<1> QED BY <1>1, <1>2 DEF TimerInv

LEMMA TimerSteps == Tm!TimerAssumption /\ TimerInv /\ [Tm!Next]_Tm!timerVars => TimerInv'
<1> SUFFICES ASSUME Tm!TimerAssumption, TimerInv, [Tm!Next]_Tm!timerVars PROVE TimerInv'
  OBVIOUS
<1>1. ASSUME NEW t \in Timers, NEW d \in Delays, Tm!Start(t, d, 0) PROVE TimerInv'
  BY <1>1, StartKeeps DEF Tm!TimerAssumption
<1>2. ASSUME NEW t \in Timers, NEW p \in Periods, Tm!Start(t, p, p) PROVE TimerInv'
  BY <1>2, StartKeeps DEF Tm!TimerAssumption
<1>3. ASSUME NEW t \in Timers, Tm!CancelTimer(t) PROVE TimerInv'
  BY <1>3, CancelKeeps
<1>4. ASSUME NEW c \in Cpus, Tm!TickLoop(c) PROVE TimerInv'
  BY <1>4, TickLoopKeeps
<1>5. CASE UNCHANGED Tm!timerVars
  BY <1>5, ListStands DEF Tm!timerVars, TimerInv, TimerTypeOK, CalledDue
<1> QED BY <1>1, <1>2, <1>3, <1>4, <1>5, ClockKeeps DEF Tm!Next

(* rk_timer_start, rk_timer_cancel and rk_timer_tick of any cores and in    *)
(* callbacks keep every active timer on the list once, in the order of      *)
(* deadlines, and no callback comes before its deadline.                    *)
THEOREM TimersInOrder == Tm!TimerAssumption /\ TimerSpec => []Tm!TimersSound
<1> SUFFICES ASSUME Tm!TimerAssumption PROVE TimerSpec => []Tm!TimersSound
  OBVIOUS
<1>1. TimerInv /\ [Tm!Next]_Tm!timerVars => TimerInv'
  BY TimerSteps
<1>2. TimerInv => Tm!TimersSound
  <2> SUFFICES ASSUME TimerInv PROVE Tm!TimersSound
    OBVIOUS
  <2>1. /\ timers \in Seq(Timers) /\ timer \in [Timers -> Records]
        /\ Listed(timers, timer) /\ CalledDue
    BY DEF TimerInv, TimerTypeOK
  <2>2. Tm!Range(timers) = {t \in Timers : timer[t].active} /\ Tm!IsInjective(timers)
    <3>1. DOMAIN timers = 1..Len(timers) /\ \A i \in 1..Len(timers) : timers[i] \in Timers
      BY <2>1
    <3> QED BY <2>1, <3>1 DEF Listed, Contains, IsInjective, Tm!IsInjective, Tm!Range
  <2>3. ASSUME NEW i \in 1..(Len(timers) - 1)
        PROVE  timer[timers[i]].expires <= timer[timers[i + 1]].expires
    <3>1. /\ i \in 1..Len(timers) /\ i + 1 \in 1..Len(timers) /\ i <= i + 1
          /\ timers[i] \in Timers /\ timers[i + 1] \in Timers
      BY <2>1
    <3> QED BY <2>1, <3>1 DEF Listed, Ordered, Deadlines
  <2> QED BY <2>1, <2>2, <2>3 DEF Tm!TimersSound, CalledDue
<1> QED BY <1>1, <1>2, TimerStarts, PTL DEF TimerSpec
-----------------------------------------------------------------------------
(* Interrupts.                                                              *)
Dispatches == [pc : {"out", "walk", "call", "tick", "threads"}, at : Nat, lost : BOOLEAN,
               handled : BOOLEAN, thread : BOOLEAN, due : SUBSET Devs]

IrqTypeOK == actions \in Seq(Devs) /\ disp \in [Cpus -> Dispatches] /\ depth \in [Cpus -> Int]

(* A handler a walk has yet to call is that of the action it stands on or   *)
(* of one further down the list.                                            *)
Ahead(d, x) == \E i \in 1..Len(actions) : actions[i] = d /\ (i > x.at \/ (x.pc = "call" /\ i = x.at))
WalkSound(x) == Ir!Walking(x) /\ ~x.lost => /\ x.at <= Len(actions) /\ (x.pc = "call" => x.at # 0)
                                            /\ \A d \in x.due : Ahead(d, x)

IrqInv == IrqTypeOK /\ IsInjective(actions) /\ (\A c \in Cpus : WalkSound(disp[c])) /\ Ir!DispatchSound

(* What holds of one core's dispatch.                                       *)
CoreSound(x, n) == /\ x.pc = "tick" /\ ~x.lost => x.due = {}
                   /\ n = (IF Ir!Walking(x) THEN 1 ELSE 0)

(* A step of one core that leaves the list alone.                           *)
MovesTo(c, x, n) == /\ disp' = [disp EXCEPT ![c] = x] /\ depth' = [depth EXCEPT ![c] = n]
                    /\ UNCHANGED actions /\ WalkSound(x) /\ CoreSound(x, n) /\ FALSE \notin ticked'

(* A dispatch that moves on to a sound state leaves the rest sound.         *)
LEMMA CoreStep ==
  ASSUME NEW c \in Cpus, NEW x \in Dispatches, NEW n \in Int, IrqInv, MovesTo(c, x, n)
  PROVE  IrqInv'
<1> USE DEF MovesTo
<1>1. IrqTypeOK'
  BY DEF IrqInv, IrqTypeOK
<1>2. /\ disp'[c] = x /\ depth'[c] = n
      /\ \A d \in Cpus : d # c => disp'[d] = disp[d] /\ depth'[d] = depth[d]
  BY DEF IrqInv, IrqTypeOK
<1>3. \A d \in Cpus : WalkSound(disp[d])'
  BY <1>2 DEF IrqInv, WalkSound, Ahead, Ir!Walking
<1>4. Ir!DispatchSound'
  BY <1>2 DEF IrqInv, Ir!DispatchSound, CoreSound, Ir!Walking
<1> QED BY <1>1, <1>3, <1>4 DEF IrqInv

(* What the invariant says of one core, and how a step of it keeps that.    *)
LEMMA OfCore ==
  ASSUME IrqInv, NEW c \in Cpus
  PROVE  /\ disp[c] \in Dispatches /\ disp \in [Cpus -> Dispatches] /\ depth \in [Cpus -> Int]
         /\ WalkSound(disp[c]) /\ CoreSound(disp[c], depth[c]) /\ FALSE \notin ticked
         /\ actions \in Seq(Devs) /\ Len(actions) \in Nat /\ DOMAIN actions = 1..Len(actions)
<1>1. /\ disp \in [Cpus -> Dispatches] /\ depth \in [Cpus -> Int] /\ actions \in Seq(Devs)
      /\ WalkSound(disp[c]) /\ Ir!DispatchSound
  BY DEF IrqInv, IrqTypeOK
<1>2. CoreSound(disp[c], depth[c]) /\ FALSE \notin ticked
  BY <1>1, Zenon DEF Ir!DispatchSound, CoreSound
<1>3. Len(actions) \in Nat /\ DOMAIN actions = 1..Len(actions)
  BY <1>1
<1> QED BY <1>1, <1>2, <1>3

LEMMA EnterKeeps ==
  ASSUME IrqInv, NEW c \in Cpus, Ir!Enter(c)
  PROVE  IrqInv'
<1> DEFINE x == [Ir!Out EXCEPT !.pc = "walk", !.due = Ir!Range(actions)]
<1>1. disp[c].pc = "out" /\ depth' = [depth EXCEPT ![c] = @ + 1] /\ UNCHANGED <<actions, ticked>>
  BY DEF Ir!Enter
<1>2. disp' = [disp EXCEPT ![c] = x]
  BY DEF Ir!Enter
<1>3. Ir!Range(actions) = {actions[i] : i \in 1..Len(actions)}
  BY SameOperators, OfCore
<1>4. x \in Dispatches /\ WalkSound(x) /\ CoreSound(x, 1)
  <2>1. Ir!Range(actions) \in SUBSET Devs
    <3>1. \A i \in 1..Len(actions) : actions[i] \in Devs
      <4>1. actions \in Seq(Devs)
        BY OfCore
      <4> QED BY <4>1
    <3> QED BY <1>3, <3>1
  <2>2. Ir!Out \in Dispatches /\ Ir!Out.at = 0
    BY DEF Ir!Out, Dispatches
  <2>3. x \in Dispatches /\ x.pc = "walk" /\ x.at = 0 /\ x.due = Ir!Range(actions)
    BY <2>1, <2>2 DEF Dispatches
  <2> HIDE DEF x
  <2>4. WalkSound(x)
    BY <1>3, <2>3, OfCore DEF WalkSound, Ahead
  <2> QED BY <2>3, <2>4 DEF CoreSound, Ir!Walking
<1>5. depth[c] = 0 /\ FALSE \notin ticked'
  BY <1>1, OfCore DEF CoreSound, Ir!Walking
<1> HIDE DEF x
<1>6. depth' = [depth EXCEPT ![c] = 1]
  BY <1>1, <1>5
<1>7. MovesTo(c, x, 1)
  BY <1>1, <1>2, <1>4, <1>5, <1>6 DEF MovesTo
<1>8. 1 \in Int
  OBVIOUS
<1> QED BY <1>4, <1>7, <1>8, CoreStep

(* The walk goes to the next action and keeps what it owes.                 *)
LEMMA WalkKeeps ==
  ASSUME IrqInv, NEW c \in Cpus, Ir!Walk(c)
  PROVE  IrqInv'
<1> DEFINE o == disp[c]
<1>1. PICK i \in 1..Len(actions) : (i = o.at + 1 \/ o.lost) /\ disp' = [disp EXCEPT ![c].pc = "call", ![c].at = i]
  BY OfCore DEF Ir!Walk, Ir!Following
<1>2. o.pc = "walk" /\ UNCHANGED <<actions, depth, ticked>>
  BY DEF Ir!Walk
<1>3. PICK x \in Dispatches : x.pc = "call" /\ x.at = i /\ x.due = o.due /\ x.lost = o.lost /\ disp' = [disp EXCEPT ![c] = x]
  <2>1. o \in Dispatches /\ i \in Nat
    <3>1. o \in Dispatches /\ Len(actions) \in Nat
      BY OfCore
    <3> QED BY <3>1
  <2> DEFINE y == [[o EXCEPT !.pc = "call"] EXCEPT !.at = i]
  <2>2. y \in Dispatches /\ y.pc = "call" /\ y.at = i /\ y.due = o.due /\ y.lost = o.lost
    BY <2>1 DEF Dispatches
  <2>3. disp' = [disp EXCEPT ![c] = y]
    BY <1>1, OfCore
  <2> HIDE DEF y
  <2> QED BY <2>2, <2>3
<1>4. o.at \in Nat /\ WalkSound(o)
  BY OfCore DEF Dispatches
<1>5. WalkSound(x)
  <2> SUFFICES ASSUME ~x.lost PROVE x.at <= Len(actions) /\ x.at # 0 /\ \A d \in x.due : Ahead(d, x)
    BY DEF WalkSound
  <2>1. i = o.at + 1 /\ \A d \in o.due : Ahead(d, o)
    BY <1>1, <1>2, <1>3, <1>4 DEF WalkSound, Ir!Walking
  <2>2. ASSUME NEW d \in x.due PROVE Ahead(d, x)
    <3>1. PICK j \in 1..Len(actions) : actions[j] = d /\ j > o.at
      BY <1>2, <1>3, <2>1, <2>2 DEF Ahead
    <3>2. j > x.at \/ j = x.at
      BY <1>3, <1>4, <2>1, <3>1
    <3> QED BY <1>3, <3>1, <3>2 DEF Ahead
  <2> QED BY <1>3, <1>4, <2>1, <2>2
<1>6. CoreSound(x, depth[c]) /\ depth[c] \in Int /\ FALSE \notin ticked /\ depth' = [depth EXCEPT ![c] = depth[c]]
  BY <1>2, <1>3, OfCore DEF CoreSound, Ir!Walking
<1>7. MovesTo(c, x, depth[c])
  BY <1>2, <1>3, <1>5, <1>6 DEF MovesTo
<1> QED BY <1>6, <1>7, CoreStep

(* The handler it calls is owed no longer.                                  *)
LEMMA CallHandlerKeeps ==
  ASSUME IrqInv, NEW c \in Cpus, Ir!Call(c)
  PROVE  IrqInv'
<1> DEFINE o == disp[c]
<1>1. PICK r : disp' = [disp EXCEPT ![c].pc = "walk", ![c].due = @ \ Ir!Called(o),
                                    ![c].handled = @ \/ r # "none", ![c].thread = @ \/ r = "thread"]
  BY DEF Ir!Call
<1>2. o.pc = "call" /\ UNCHANGED <<actions, depth, ticked>>
  BY DEF Ir!Call
<1>3. PICK h \in BOOLEAN, t \in BOOLEAN : h = (o.handled \/ r # "none") /\ t = (o.thread \/ r = "thread")
  OBVIOUS
<1>4. PICK x \in Dispatches : /\ x.pc = "walk" /\ x.at = o.at /\ x.due = o.due \ Ir!Called(o) /\ x.lost = o.lost
                              /\ disp' = [disp EXCEPT ![c] = x]
  <2>1. o \in Dispatches
    BY OfCore
  <2> DEFINE y == [[[[o EXCEPT !.pc = "walk"] EXCEPT !.due = o.due \ Ir!Called(o)] EXCEPT !.handled = h] EXCEPT !.thread = t]
  <2>2. y \in Dispatches /\ y.pc = "walk" /\ y.at = o.at /\ y.due = o.due \ Ir!Called(o) /\ y.lost = o.lost
    BY <2>1 DEF Dispatches
  <2>3. disp' = [disp EXCEPT ![c].pc = "walk", ![c].due = @ \ Ir!Called(o), ![c].handled = h, ![c].thread = t]
    BY <1>1, <1>3, <2>1, OfCore DEF Dispatches
  <2>4. disp' = [disp EXCEPT ![c] = y]
    BY <2>1, <2>3, OfCore DEF Dispatches
  <2> HIDE DEF y
  <2> QED BY <2>2, <2>4
<1>5. o.at \in Nat /\ WalkSound(o)
  BY OfCore DEF Dispatches
<1>6. WalkSound(x)
  <2> SUFFICES ASSUME ~x.lost PROVE x.at <= Len(actions) /\ \A d \in x.due : Ahead(d, x)
    BY <1>4 DEF WalkSound
  <2>1. o.at <= Len(actions) /\ \A d \in o.due : Ahead(d, o)
    BY <1>2, <1>4, <1>5 DEF WalkSound, Ir!Walking
  <2>2. ASSUME NEW d \in x.due PROVE Ahead(d, x)
    <3>1. d \in o.due /\ d # actions[o.at]
      BY <1>4, <2>2 DEF Ir!Called
    <3>2. PICK j \in 1..Len(actions) : actions[j] = d /\ (j > o.at \/ j = o.at)
      BY <2>1, <3>1 DEF Ahead
    <3>3. j > x.at
      BY <1>4, <3>1, <3>2
    <3> QED BY <3>2, <3>3 DEF Ahead
  <2> QED BY <1>4, <2>1, <2>2
<1>7. CoreSound(x, depth[c]) /\ depth[c] \in Int /\ FALSE \notin ticked /\ depth' = [depth EXCEPT ![c] = depth[c]]
  BY <1>2, <1>4, OfCore DEF CoreSound, Ir!Walking
<1>8. MovesTo(c, x, depth[c])
  BY <1>2, <1>4, <1>6, <1>7 DEF MovesTo
<1> QED BY <1>7, <1>8, CoreStep

(* At the end of the list a walk owes nothing, unless it got there from an  *)
(* action that was freed.                                                   *)
LEMMA LeaveKeeps ==
  ASSUME IrqInv, NEW c \in Cpus, Ir!Leave(c)
  PROVE  IrqInv'
<1> DEFINE o == disp[c]
           x == [o EXCEPT !.pc = "tick"]
<1>1. /\ o.pc = "walk" /\ (o.at = Len(actions) \/ o.lost) /\ UNCHANGED <<actions, ticked>>
      /\ depth' = [depth EXCEPT ![c] = @ - 1] /\ disp' = [disp EXCEPT ![c] = x]
  BY OfCore DEF Ir!Leave, Ir!AtEnd
<1>2. o \in Dispatches /\ o.at \in Nat /\ o.due \subseteq Devs
  BY OfCore DEF Dispatches
<1>3. x \in Dispatches /\ x.pc = "tick" /\ x.due = o.due /\ x.lost = o.lost
  BY <1>2 DEF Dispatches
<1>4. depth[c] = 1 /\ FALSE \notin ticked
  BY <1>1, OfCore DEF CoreSound, Ir!Walking
<1>5. ~o.lost => o.due = {}
  <2> SUFFICES ASSUME ~o.lost, NEW d \in o.due PROVE FALSE
    OBVIOUS
  <2>1. Ahead(d, o)
    BY <1>1, OfCore DEF WalkSound, Ir!Walking
  <2> QED BY <1>1, <1>2, <2>1 DEF Ahead
<1> HIDE DEF x, o
<1>6. WalkSound(x) /\ CoreSound(x, 0)
  BY <1>3, <1>5 DEF WalkSound, CoreSound, Ir!Walking
<1>7. depth' = [depth EXCEPT ![c] = 0]
  BY <1>1, <1>4
<1>8. MovesTo(c, x, 0)
  BY <1>1, <1>4, <1>6, <1>7 DEF MovesTo
<1>9. 0 \in Int
  OBVIOUS
<1> QED BY <1>3, <1>8, <1>9, CoreStep

(* The tick runs at depth zero, and the threaded halves owe nobody.         *)
LEMMA TickKeeps ==
  ASSUME IrqInv, NEW c \in Cpus, Ir!Tick(c) \/ Ir!Threads(c)
  PROVE  IrqInv'
<1> DEFINE o == disp[c]
           first == [Ir!Out EXCEPT !.pc = "threads"]
<1>1. o.pc \in {"tick", "threads"} /\ UNCHANGED <<actions, depth>>
  BY DEF Ir!Tick, Ir!Threads
<1>2. depth[c] = 0 /\ depth' = [depth EXCEPT ![c] = 0]
  BY <1>1, OfCore DEF CoreSound, Ir!Walking
<1>3. FALSE \notin ticked'
  BY <1>2, OfCore DEF Ir!Tick, Ir!Threads
<1>4. PICK x \in Dispatches : disp' = [disp EXCEPT ![c] = x] /\ x.pc \in {"out", "threads"}
  <2>1. /\ Ir!Out \in Dispatches /\ Ir!Out.pc = "out" /\ first \in Dispatches /\ first.pc = "threads"
    BY DEF Ir!Out, Dispatches
  <2> HIDE DEF first
  <2>2. CASE disp' = [disp EXCEPT ![c] = Ir!Out] \/ disp' = [disp EXCEPT ![c] = first]
    BY <2>1, <2>2
  <2>3. CASE \E i \in DOMAIN actions : o.pc = "threads" /\ disp' = [disp EXCEPT ![c].at = i]
    <3>0. DOMAIN actions \in SUBSET Nat
      <4>1. DOMAIN actions = 1..Len(actions) /\ Len(actions) \in Nat
        BY OfCore
      <4> QED BY <4>1
    <3>1. PICK i \in Nat : o.pc = "threads" /\ disp' = [disp EXCEPT ![c].at = i]
      BY <2>3, <3>0
    <3>2. [o EXCEPT !.at = i] \in Dispatches /\ [o EXCEPT !.at = i].pc = "threads"
      BY <3>1, OfCore DEF Dispatches
    <3>3. disp' = [disp EXCEPT ![c] = [o EXCEPT !.at = i]]
      BY <3>1, OfCore
    <3> QED BY <3>2, <3>3
  <2> QED BY <2>2, <2>3 DEF Ir!Tick, Ir!Threads, Ir!Following, first
<1>5. WalkSound(x) /\ CoreSound(x, 0)
  BY <1>4 DEF WalkSound, CoreSound, Ir!Walking
<1>6. MovesTo(c, x, 0)
  BY <1>1, <1>2, <1>3, <1>4, <1>5 DEF MovesTo
<1>7. 0 \in Int
  OBVIOUS
<1> QED BY <1>4, <1>6, <1>7, CoreStep

(* A handler added at the tail is ahead of every walk.                      *)
LEMMA RequestKeeps ==
  ASSUME IrqInv, NEW d \in Devs, Ir!Request(d)
  PROVE  IrqInv'
<1>1. /\ ~ Contains(actions, d) /\ actions' = Append(actions, d) /\ UNCHANGED <<disp, depth, ticked>>
  BY SameOperators DEF Ir!Request
<1>2. actions' \in Seq(Devs) /\ IsInjective(actions')
  BY <1>1, AppendOnce DEF IrqInv, IrqTypeOK
<1>3. /\ Len(actions) \in Nat /\ Len(actions') = Len(actions) + 1
      /\ \A i \in 1..Len(actions) : actions'[i] = actions[i]
  BY <1>1 DEF IrqInv, IrqTypeOK
<1>4. ASSUME NEW c \in Cpus PROVE WalkSound(disp[c])'
  <2>1. disp'[c] = disp[c] /\ disp[c].at \in Nat /\ WalkSound(disp[c])
    BY <1>1, OfCore DEF Dispatches
  <2>2. ASSUME NEW e, Ahead(e, disp[c]) PROVE Ahead(e, disp[c])'
    <3>1. PICK i \in 1..Len(actions) : actions[i] = e /\ (i > disp[c].at \/ (disp[c].pc = "call" /\ i = disp[c].at))
      BY <2>2 DEF Ahead
    <3>2. i \in 1..Len(actions') /\ actions'[i] = e
      BY <1>3, <3>1
    <3> QED BY <2>1, <3>1, <3>2 DEF Ahead
  <2> QED BY <1>3, <2>1, <2>2 DEF WalkSound, Ir!Walking
<1> QED BY <1>1, <1>2, <1>4 DEF IrqInv, IrqTypeOK, Ir!DispatchSound

(* The list without the handler of d: what was at a position is there or    *)
(* one before.                                                              *)
LEMMA WithoutHandler ==
  ASSUME IrqInv, NEW d \in Devs, NEW l, l = RemoveFirst(actions, d), NEW k \in 1..Len(actions), actions[k] = d
  PROVE  /\ Len(l) = Len(actions) - 1 /\ Ir!At(d) = {k}
         /\ \A i \in 1..Len(actions) : i < k => l[i] = actions[i]
         /\ \A i \in 1..Len(actions) : i > k => l[i - 1] = actions[i]
<1>1. actions \in Seq(Devs) /\ IsInjective(actions) /\ Len(actions) \in Nat /\ DOMAIN actions = 1..Len(actions)
  BY DEF IrqInv, IrqTypeOK
<1>2. Len(l) = Len(actions) - 1 /\ \A i \in 1..Len(l) : l[i] = IF i < k THEN actions[i] ELSE actions[i + 1]
  BY <1>1, Removed
<1>3. Ir!At(d) = {k}
  BY <1>1 DEF Ir!At, IsInjective
<1> QED BY <1>1, <1>2, <1>3

(* A walk that does not stand on the freed action still finds the others.   *)
LEMMA FreeWalks ==
  ASSUME IrqInv, NEW d \in Devs, NEW c \in Cpus, actions' = RemoveFirst(actions, d),
         disp'[c] = Ir!Unlinked(disp[c], d)
  PROVE  /\ disp'[c] \in Dispatches /\ disp'[c].pc = disp[c].pc /\ disp'[c].due \subseteq disp[c].due
         /\ (~disp'[c].lost => ~disp[c].lost) /\ WalkSound(disp[c])'
<1> DEFINE o == disp[c]
           y == disp'[c]
<1>1. /\ o \in Dispatches /\ o.at \in Nat /\ WalkSound(o) /\ actions \in Seq(Devs) /\ Len(actions) \in Nat
      /\ DOMAIN actions = 1..Len(actions)
  BY OfCore DEF Dispatches
<1>2. PICK at \in Nat, lost \in BOOLEAN :
        /\ lost = (o.lost \/ o.at \in Ir!At(d)) /\ y = [o EXCEPT !.due = @ \ {d}, !.lost = lost, !.at = at]
        /\ (\E i \in Ir!At(d) : i < o.at) => at = o.at - 1
        /\ ~(\E i \in Ir!At(d) : i < o.at) => at = o.at
  <2> DEFINE moved == \E i \in Ir!At(d) : i < o.at
  <2>1. moved => o.at - 1 \in Nat
    BY <1>1 DEF Ir!At
  <2>2. PICK lost \in BOOLEAN : lost = (o.lost \/ o.at \in Ir!At(d))
    OBVIOUS
  <2>3. y = [o EXCEPT !.due = @ \ {d}, !.lost = lost, !.at = IF moved THEN o.at - 1 ELSE o.at]
    BY <1>1, <2>2 DEF Ir!Unlinked, Dispatches
  <2> HIDE DEF moved
  <2>4. CASE moved
    BY <1>1, <2>1, <2>2, <2>3, <2>4 DEF moved
  <2>5. CASE ~moved
    BY <1>1, <2>2, <2>3, <2>5 DEF moved
  <2> QED BY <2>4, <2>5
<1>3. y \in Dispatches /\ y.pc = o.pc /\ y.due = o.due \ {d} /\ y.lost = lost /\ y.at = at
  <2>1. y = [[[o EXCEPT !.due = o.due \ {d}] EXCEPT !.lost = lost] EXCEPT !.at = at]
    BY <1>1, <1>2 DEF Dispatches
  <2> QED BY <1>1, <2>1 DEF Dispatches
<1> HIDE DEF y
<1>4. WalkSound(disp[c])'
  <2> SUFFICES ASSUME Ir!Walking(y), ~y.lost
               PROVE  /\ y.at <= Len(actions') /\ (y.pc = "call" => y.at # 0)
                      /\ \A e \in y.due : \E i \in 1..Len(actions') : actions'[i] = e /\ (i > y.at \/ (y.pc = "call" /\ i = y.at))
    BY DEF WalkSound, Ahead, Ir!Walking, y
  <2>1. /\ ~o.lost /\ o.at \notin Ir!At(d) /\ o.at <= Len(actions) /\ (o.pc = "call" => o.at # 0)
        /\ \A e \in o.due : Ahead(e, o)
    BY <1>1, <1>2, <1>3 DEF WalkSound, Ir!Walking
  <2>2. CASE ~Contains(actions, d)
    <3>1. actions' = actions /\ Ir!At(d) = {}
      BY <1>1, <2>2 DEF RemoveFirst, Contains, Ir!At
    <3> QED BY <1>2, <1>3, <2>1, <3>1 DEF Ahead
  <2>3. CASE Contains(actions, d)
    <3>1. PICK k \in 1..Len(actions) : actions[k] = d
      BY <2>3 DEF Contains
    <3>2. /\ Len(actions') = Len(actions) - 1 /\ Ir!At(d) = {k}
          /\ \A i \in 1..Len(actions) : i < k => actions'[i] = actions[i]
          /\ \A i \in 1..Len(actions) : i > k => actions'[i - 1] = actions[i]
      BY <3>1, WithoutHandler
    <3>3. o.at # k /\ (k < o.at => at = o.at - 1) /\ (o.at < k => at = o.at)
      BY <1>1, <1>2, <2>1, <3>2
    <3>4. y.at <= Len(actions') /\ (y.pc = "call" => y.at # 0)
      BY <1>1, <1>3, <2>1, <3>2, <3>3
    <3>5. ASSUME NEW e \in y.due
          PROVE  \E i \in 1..Len(actions') : actions'[i] = e /\ (i > y.at \/ (y.pc = "call" /\ i = y.at))
      <4>1. e \in o.due /\ e # d
        BY <1>3, <3>5
      <4>2. PICK i \in 1..Len(actions) : actions[i] = e /\ (i > o.at \/ (o.pc = "call" /\ i = o.at))
        BY <2>1, <4>1 DEF Ahead
      <4>3. CASE i < k
        <5>1. i \in 1..Len(actions') /\ actions'[i] = e
          BY <1>1, <3>2, <4>2, <4>3
        <5>2. i > y.at \/ (y.pc = "call" /\ i = y.at)
          BY <1>1, <1>3, <3>3, <4>2, <4>3
        <5> QED BY <5>1, <5>2
      <4>4. CASE i > k
        <5>1. i - 1 \in 1..Len(actions') /\ actions'[i - 1] = e
          BY <1>1, <3>2, <4>2, <4>4
        <5>2. i - 1 > y.at \/ (y.pc = "call" /\ i - 1 = y.at)
          BY <1>1, <1>3, <3>3, <4>2, <4>4
        <5> QED BY <5>1, <5>2
      <4> QED BY <3>1, <4>1, <4>2, <4>3, <4>4
    <3> QED BY <3>4, <3>5
  <2> QED BY <2>2, <2>3
<1> QED BY <1>2, <1>3, <1>4 DEF y

LEMMA FreeKeeps ==
  ASSUME IrqInv, NEW d \in Devs, Ir!Free(d)
  PROVE  IrqInv'
<1>1. /\ actions' = RemoveFirst(actions, d) /\ UNCHANGED <<depth, ticked>>
      /\ disp' = [c \in Cpus |-> Ir!Unlinked(disp[c], d)]
  BY SameOperators DEF Ir!Free
<1>2. actions' \in Seq(Devs) /\ IsInjective(actions')
  BY <1>1, RemoveOnce DEF IrqInv, IrqTypeOK
<1>3. ASSUME NEW c \in Cpus
      PROVE  /\ disp'[c] \in Dispatches /\ disp'[c].pc = disp[c].pc /\ disp'[c].due \subseteq disp[c].due
             /\ (~disp'[c].lost => ~disp[c].lost) /\ WalkSound(disp[c])'
  BY <1>1, FreeWalks
<1>4. IrqTypeOK'
  BY <1>1, <1>2, <1>3 DEF IrqInv, IrqTypeOK
<1>5. Ir!DispatchSound'
  BY <1>1, <1>3 DEF IrqInv, Ir!DispatchSound, Ir!Walking
<1> QED BY <1>2, <1>3, <1>4, <1>5 DEF IrqInv

LEMMA IrqStarts == Ir!Init => IrqInv
<1> SUFFICES ASSUME Ir!Init PROVE IrqInv
  OBVIOUS
<1>1. Ir!Out \in Dispatches /\ Ir!Out.pc = "out"
  BY DEF Ir!Out, Dispatches
<1>2. disp = [c \in Cpus |-> Ir!Out] /\ depth = [c \in Cpus |-> 0] /\ actions = <<>> /\ ticked = {}
  BY DEF Ir!Init
<1>3. IrqTypeOK /\ IsInjective(actions)
  BY <1>1, <1>2 DEF IrqTypeOK, IsInjective
<1> QED BY <1>1, <1>2, <1>3 DEF IrqInv, WalkSound, Ir!DispatchSound, Ir!Walking

LEMMA IrqSteps == IrqInv /\ [Ir!Next]_Ir!irqVars => IrqInv'
<1> SUFFICES ASSUME IrqInv, [Ir!Next]_Ir!irqVars PROVE IrqInv'
  OBVIOUS
<1>1. ASSUME UNCHANGED <<actions, disp, depth, ticked>> PROVE IrqInv'
  <2>1. IrqTypeOK' /\ IsInjective(actions')
    BY <1>1 DEF IrqInv, IrqTypeOK, IsInjective
  <2>2. \A c \in Cpus : WalkSound(disp[c])'
    BY <1>1 DEF IrqInv, WalkSound, Ahead, Ir!Walking
  <2>3. Ir!DispatchSound'
    BY <1>1 DEF IrqInv, Ir!DispatchSound, Ir!Walking
  <2> QED BY <2>1, <2>2, <2>3 DEF IrqInv
<1>2. ASSUME Ir!Unmask \/ (\E d \in Devs : Ir!MaskFreed(d)) \/ UNCHANGED Ir!irqVars PROVE IrqInv'
  BY <1>1, <1>2 DEF Ir!Unmask, Ir!MaskFreed, Ir!irqVars
<1>3. ASSUME NEW d \in Devs, Ir!Request(d) \/ Ir!Free(d) PROVE IrqInv'
  BY <1>3, RequestKeeps, FreeKeeps
<1>4. ASSUME NEW c \in Cpus, Ir!Enter(c) \/ Ir!Walk(c) \/ Ir!Call(c) \/ Ir!Leave(c) \/ Ir!Tick(c) \/ Ir!Threads(c)
      PROVE  IrqInv'
  BY <1>4, EnterKeeps, WalkKeeps, CallHandlerKeeps, LeaveKeeps, TickKeeps
<1> QED BY <1>2, <1>3, <1>4 DEF Ir!Next

(* rk_irq_dispatch calls every handler that was on the line when it began   *)
(* and was not freed, though it walks the list without the line's lock and  *)
(* others are added and freed meanwhile, unless one is freed while the walk *)
(* stands on it; and the scheduler's tick runs outside the interrupt.       *)
THEOREM DispatchesComplete == IrqSpec => []Ir!DispatchSound
<1>1. IrqInv /\ [Ir!Next]_Ir!irqVars => IrqInv'
  BY IrqSteps
<1>2. IrqInv => Ir!DispatchSound
  BY DEF IrqInv
<1> QED BY <1>1, <1>2, IrqStarts, PTL DEF IrqSpec
-----------------------------------------------------------------------------
(* The log.                                                                 *)

(* The ring holds the last bytes that were logged, and no reader is ahead.  *)
RingHolds == \A p \in Nat : lhead - RingBytes <= p /\ p < lhead => bytes[p % RingBytes] = p

LogInv == /\ lhead \in Nat /\ curs \in [Readers -> Nat] /\ DOMAIN seen = Readers
          /\ bytes \in [0..(RingBytes - 1) -> Int]
          /\ RingHolds /\ Lo!LogReadExact

(* The slot of the i-th byte that is appended holds it, unless a later one  *)
(* went round the ring to it; the slots of the bytes that remain are kept.  *)
LEMMA Appended ==
  ASSUME NEW n \in Nat, RingBytes \in Nat \ {0}, LogInv
  PROVE  /\ Lo!RingAppend(n) \in [0..(RingBytes - 1) -> Int]
         /\ \A p \in Nat : lhead + n - RingBytes <= p /\ p < lhead + n =>
                           Lo!RingAppend(n)[p % RingBytes] = p
<1> DEFINE hits(k) == {i \in 0..(n - 1) : (lhead + i) % RingBytes = k}
           latest(k) == CHOOSE i \in hits(k) : \A j \in hits(k) : j <= i
           new == Lo!RingAppend(n)
<1>1. /\ lhead \in Nat /\ DOMAIN bytes = 0..(RingBytes - 1)
      /\ bytes \in [0..(RingBytes - 1) -> Int] /\ RingHolds
  BY DEF LogInv
<1>2. new = [k \in 0..(RingBytes - 1) |-> IF hits(k) = {} THEN bytes[k] ELSE lhead + latest(k)]
  BY <1>1 DEF Lo!RingAppend
<1>3. ASSUME NEW k, hits(k) # {}
      PROVE  latest(k) \in hits(k) /\ latest(k) \in Int
  <2>1. hits(k) \subseteq 0..(n - 1)
    OBVIOUS
  <2>2. \E i \in hits(k) : \A j \in hits(k) : j <= i
    BY <1>3, <2>1, LastPosition
  <2>3. latest(k) \in hits(k)
    BY <2>2
  <2> QED BY <2>1, <2>3
<1>4. ASSUME NEW p \in Nat, lhead + n - RingBytes <= p, p < lhead + n
      PROVE  new[p % RingBytes] = p
  <2> DEFINE k == p % RingBytes
  <2>1. k \in 0..(RingBytes - 1)
    BY Remainder
  <2>2. ASSUME NEW i \in hits(k), lhead + i # p PROVE p >= lhead /\ lhead + i < p
    <3>1. i \in 0..(n - 1) /\ (lhead + i) % RingBytes = p % RingBytes /\ lhead + i \in Int /\ p \in Int
      BY <1>1
    <3>2. ~ (p < lhead + i)
      <4>1. lhead + i < p + RingBytes
        BY <1>1, <1>4, <3>1
      <4> QED BY <3>1, <4>1, SlotsApart
    <3> QED BY <1>1, <2>2, <3>1, <3>2
  <2> HIDE DEF k
  <2>3. CASE p >= lhead
    <3> DEFINE m == p - lhead
    <3>1. m \in 0..(n - 1) /\ lhead + m = p
      BY <1>1, <1>4, <2>3
    <3>2. m \in hits(k)
      BY <3>1 DEF k
    <3>3. ASSUME NEW j \in hits(k) PROVE j <= m
      <4>1. j \in Int /\ m \in Int
        BY <1>1
      <4>2. lhead + j = p \/ lhead + j < p
        BY <2>2
      <4> HIDE DEF hits, m
      <4> QED BY <1>1, <3>1, <4>1, <4>2
    <3>4. latest(k) = m
      BY <3>1, <3>2, <3>3, <1>3
    <3> QED BY <1>2, <2>1, <3>1, <3>2, <3>4 DEF k
  <2>4. CASE p < lhead
    <3>1. hits(k) = {}
      <4> SUFFICES ASSUME NEW i \in hits(k) PROVE FALSE
        OBVIOUS
      <4>1. i \in Nat
        OBVIOUS
      <4> QED BY <1>1, <2>2, <2>4, <4>1
    <3>2. bytes[p % RingBytes] = p
      BY <1>1, <1>4, <2>4 DEF RingHolds
    <3> QED BY <1>2, <2>1, <3>1, <3>2 DEF k
  <2> QED BY <1>1, <2>3, <2>4
<1>5. new \in [0..(RingBytes - 1) -> Int]
  <2>1. ASSUME NEW k \in 0..(RingBytes - 1)
        PROVE  (IF hits(k) = {} THEN bytes[k] ELSE lhead + latest(k)) \in Int
    <3>1. bytes[k] \in Int
      BY <1>1
    <3>2. hits(k) # {} => lhead + latest(k) \in Int
      <4>1. hits(k) # {} => latest(k) \in Int
        BY <1>3
      <4> HIDE DEF hits, latest
      <4> QED BY <1>1, <4>1
    <3> HIDE DEF hits, latest
    <3> QED BY <3>1, <3>2
  <2> HIDE DEF hits, latest, new
  <2> QED BY <1>2, <2>1
<1> QED BY <1>4, <1>5

(* A record goes into the ring after the last.                              *)
LEMMA RecordKeeps ==
  ASSUME Lo!LogAssumption, LogInv, NEW c \in Cpus, NEW lvl, NEW n \in Lens, Lo!LogRecord(c, lvl, n)
  PROVE  LogInv'
<1>1. Lo!LineLen(n) \in Nat
  BY DEF Lo!LineLen, Lo!LogAssumption
<1>2. PICK m \in Nat : m = Lo!LineLen(n)
  BY <1>1
<1>3. bytes' = Lo!RingAppend(m) /\ lhead' = lhead + m /\ UNCHANGED <<curs, seen>>
  BY <1>2 DEF Lo!LogRecord
<1>4. /\ Lo!RingAppend(m) \in [0..(RingBytes - 1) -> Int]
      /\ \A p \in Nat : lhead + m - RingBytes <= p /\ p < lhead + m => Lo!RingAppend(m)[p % RingBytes] = p
  BY Appended DEF Lo!LogAssumption
<1>5. RingHolds'
  <2> SUFFICES ASSUME NEW p \in Nat, lhead' - RingBytes <= p, p < lhead'
               PROVE  bytes'[p % RingBytes] = p
    BY DEF RingHolds
  <2>1. lhead \in Nat /\ RingBytes \in Nat
    BY DEF LogInv, Lo!LogAssumption
  <2>2. PICK h \in Nat : h = lhead + m /\ lhead' = h
    BY <1>3, <2>1
  <2>3. Lo!RingAppend(m)[p % RingBytes] = p
    BY <1>4, <2>1, <2>2
  <2> QED BY <1>3, <2>3
<1>6. lhead' \in Nat /\ Lo!LogReadExact'
  BY <1>3 DEF LogInv, Lo!LogReadExact
<1> QED BY <1>3, <1>4, <1>5, <1>6 DEF LogInv

(* A reader takes what the ring holds from its cursor on, or from the       *)
(* oldest byte when the cursor is older.                                    *)
LEMMA ReadKeeps ==
  ASSUME Lo!LogAssumption, LogInv, NEW r \in Readers, NEW size \in Sizes, Lo!LogRead(r, size)
  PROVE  LogInv'
<1> DEFINE pos == Lo!Start(curs[r])
           avail == IF lhead > pos THEN lhead - pos ELSE 0
           n == IF avail < size THEN avail ELSE size
           got == [i \in 1..n |-> bytes[(pos + i - 1) % RingBytes]]
<1>1. lhead \in Nat /\ curs \in [Readers -> Nat] /\ RingHolds /\ Lo!LogReadExact
  BY DEF LogInv
<1>2. RingBytes \in Nat \ {0} /\ size \in Nat
  BY DEF Lo!LogAssumption
<1>3. seen' = [seen EXCEPT ![r] = got] /\ curs' = [curs EXCEPT ![r] = pos + n] /\ UNCHANGED <<bytes, lhead>>
  BY DEF Lo!LogRead
<1>4. pos \in Nat /\ lhead - RingBytes <= pos
  BY <1>1, <1>2 DEF Lo!Start
<1> HIDE DEF pos
<1>5. n \in Nat /\ n <= avail /\ (n > 0 => pos + n <= lhead)
  BY <1>1, <1>2, <1>4
<1> HIDE DEF n
<1>6. ASSUME NEW i \in 1..n PROVE got[i] = pos + i - 1
  <2>1. pos + i - 1 \in Nat /\ lhead - RingBytes <= pos + i - 1 /\ pos + i - 1 < lhead
    BY <1>1, <1>2, <1>4, <1>5
  <2>2. got[i] = bytes[(pos + i - 1) % RingBytes]
    OBVIOUS
  <2> QED BY <1>1, <2>1, <2>2 DEF RingHolds
<1>7. DOMAIN got = 1..n /\ Len(got) = n
  BY <1>5
<1> HIDE DEF got
<1>8. ASSUME NEW q \in Readers, NEW i \in DOMAIN seen'[q]
      PROVE  seen'[q][i] = curs'[q] - Len(seen'[q]) + i - 1
  <2>1. CASE q = r
    <3>1. curs'[q] = pos + n
      BY <1>1, <1>3, <2>1
    <3>2. r \in DOMAIN seen
      BY DEF LogInv
    <3>3. seen'[q] = got
      BY <1>3, <2>1, <3>2
    <3>4. i \in 1..n /\ got[i] = pos + i - 1
      BY <1>6, <1>7, <1>8, <3>3
    <3> QED BY <1>4, <1>5, <1>7, <3>1, <3>3, <3>4
  <2>2. CASE q # r
    BY <1>1, <1>3, <1>8, <2>2 DEF Lo!LogReadExact
  <2> QED BY <2>1, <2>2
<1>9. RingHolds' /\ Lo!LogReadExact'
  BY <1>1, <1>3, <1>8 DEF RingHolds, Lo!LogReadExact
<1>10. curs' \in [Readers -> Nat]
  BY <1>1, <1>3, <1>4, <1>5
<1> QED BY <1>3, <1>9, <1>10 DEF LogInv

LEMMA LogSteps == Lo!LogAssumption /\ LogInv /\ [Lo!Next]_Lo!logVars => LogInv'
<1> SUFFICES ASSUME Lo!LogAssumption, LogInv, [Lo!Next]_Lo!logVars PROVE LogInv'
  OBVIOUS
<1>1. ASSUME NEW c \in Cpus, NEW lvl, NEW n \in Lens, Lo!LogRecord(c, lvl, n) PROVE LogInv'
  BY <1>1, RecordKeeps
<1>2. ASSUME NEW r \in Readers, NEW size \in Sizes, Lo!LogRead(r, size) PROVE LogInv'
  BY <1>2, ReadKeeps
<1>3. ASSUME (\E c \in Cpus : Lo!LogEvent(c)) \/ UNCHANGED Lo!logVars PROVE LogInv'
  BY <1>3 DEF Lo!LogEvent, Lo!logVars, LogInv, RingHolds, Lo!LogReadExact
<1> QED BY <1>1, <1>2, <1>3 DEF Lo!Next

(* rk_log_read returns, to a reader at any distance behind the writers of   *)
(* any cores, bytes that follow one another up to its cursor: a slow reader *)
(* loses the oldest and never gets bytes of another place in the log.       *)
THEOREM LogReadersExact == Lo!LogAssumption /\ LogSpec => []Lo!LogReadExact
<1> SUFFICES ASSUME Lo!LogAssumption PROVE LogSpec => []Lo!LogReadExact
  OBVIOUS
<1>1. Lo!Init => LogInv
  BY DEF Lo!Init, LogInv, RingHolds, Lo!LogReadExact
<1>2. LogInv /\ [Lo!Next]_Lo!logVars => LogInv'
  BY LogSteps
<1>3. LogInv => Lo!LogReadExact
  BY DEF LogInv
<1> QED BY <1>1, <1>2, <1>3, PTL DEF LogSpec
-----------------------------------------------------------------------------
(* File system calls.                                                       *)
Modes == {"read", "write"}
Handles == [obj : Objects \cup {0}, rights : SUBSET ({"inspect"} \cup Modes)]
Calls == [pc : {"user", "get", "put", "resolve", "io", "move"}, op : Modes \cup {"inspect", "none"},
          obj : Objects \cup {0}, lost : BOOLEAN, f : OpenFiles \cup {0}, pos : Int, n : Int]

CallsTypeOK ==
  /\ slot \in [Slots -> Handles]
  /\ cobj \in [Objects -> [refs : Int, file : OpenFiles \cup {0}]]
  /\ ofile \in [OpenFiles -> [mode : SUBSET Modes, pos : Int, refs : Int]]
  /\ sys \in [Threads -> Calls]

(* Among the files fl, one is open, and one serves an operation.            *)
OpenIn(fl, f)    == f \in OpenFiles /\ fl[f].refs > 0
FitIn(fl, f, op) == op = "inspect" \/ op \in fl[f].mode

(* The file of a handle is open, and what the handle permits its mode does. *)
SlotIn(e, ob, fl) ==
  e.obj # 0 => /\ OpenIn(fl, ob[e.obj].file)
               /\ e.rights \subseteq {"inspect"} \cup fl[ob[e.obj].file].mode

(* The object of a call was one; the file it leads to or gave is open, and  *)
(* serves the call unless the object was freed, which is then to be seen.   *)
CallIn(c, ob, fl) ==
  /\ c.pc \in {"get", "put", "resolve"} => c.obj \in Objects
  /\ c.pc = "resolve" => /\ OpenIn(fl, ob[c.obj].file)
                         /\ c.lost \/ (ob[c.obj].refs > 0 /\ FitIn(fl, ob[c.obj].file, c.op))
  /\ c.pc \in {"io", "move"} => OpenIn(fl, c.f) /\ (c.lost \/ FitIn(fl, c.f, c.op))

(* References: the slots that name an object, the calls about to put it.    *)
Count(D, g, o) == Cardinality({k \in D : g[k] = o})
SlotObject   == [h \in Slots |-> slot[h].obj]
PutObject == [t \in Threads |-> IF sys[t].pc = "put" THEN sys[t].obj ELSE 0]
ObjectsCount == \A o \in Objects : cobj[o].refs = Count(Slots, SlotObject, o) + Count(Threads, PutObject, o)

CallsInv == /\ CallsTypeOK
            /\ \A h \in Slots : SlotIn(slot[h], cobj, ofile)
            /\ \A t \in Threads : CallIn(sys[t], cobj, ofile)
            /\ ObjectsCount

(* Finite sets and their sizes are the same in the instance.                *)
LEMMA SameSizes == \A S : (Sy!IsFiniteSet(S) <=> IsFiniteSet(S)) /\ Sy!Cardinality(S) = Cardinality(S)
BY DEF Sy!IsFiniteSet, IsFiniteSet, Sy!Cardinality, Cardinality

(* A count is a natural number, and is not 0 of what is there.              *)
LEMMA CountNat ==
  ASSUME NEW D, IsFiniteSet(D), NEW g, NEW o
  PROVE  Count(D, g, o) \in Nat /\ \A k \in D : g[k] = o => Count(D, g, o) > 0
<1>1. IsFiniteSet({k \in D : g[k] = o})
  BY FS_Subset
<1>2. Count(D, g, o) \in Nat
  BY <1>1, FS_CardinalityType DEF Count
<1>3. Count(D, g, o) = 0 <=> {k \in D : g[k] = o} = {}
  BY <1>1, FS_EmptySet DEF Count
<1> QED BY <1>2, <1>3

(* One that changes hands is one less of its old object and one more of its *)
(* new.                                                                     *)
Changed(D, g, r, k, e) == \A j \in D : r[j] = IF j = k THEN e ELSE g[j]
LEMMA CountMoves ==
  ASSUME NEW D, IsFiniteSet(D), NEW g, NEW r, NEW k \in D, NEW e, g[k] # e, Changed(D, g, r, k, e)
  PROVE  /\ Count(D, r, e) = Count(D, g, e) + 1
         /\ Count(D, r, g[k]) = Count(D, g, g[k]) - 1
         /\ \A o : o \notin {e, g[k]} => Count(D, r, o) = Count(D, g, o)
<1>1. \A o : IsFiniteSet({j \in D : g[j] = o})
  BY FS_Subset
<1>2. /\ {j \in D : r[j] = e} = {j \in D : g[j] = e} \cup {k} /\ k \notin {j \in D : g[j] = e}
      /\ {j \in D : r[j] = g[k]} = {j \in D : g[j] = g[k]} \ {k} /\ k \in {j \in D : g[j] = g[k]}
      /\ \A o : o \notin {e, g[k]} => {j \in D : r[j] = o} = {j \in D : g[j] = o}
  BY DEF Changed
<1>3. Count(D, r, e) = Count(D, g, e) + 1
  <2>1. PICK S : S = {j \in D : g[j] = e}
    OBVIOUS
  <2>2. IsFiniteSet(S) /\ k \notin S
    BY <1>1, <2>1
  <2>3. Cardinality(S \cup {k}) = Cardinality(S) + 1
    BY <2>2, FS_AddElement
  <2>4. {j \in D : r[j] = e} = S \cup {k}
    BY <1>2, <2>1
  <2> QED BY <2>1, <2>3, <2>4 DEF Count
<1>4. Count(D, r, g[k]) = Count(D, g, g[k]) - 1
  <2>1. PICK S : S = {j \in D : g[j] = g[k]}
    OBVIOUS
  <2>2. IsFiniteSet(S) /\ k \in S
    BY <1>1, <2>1
  <2>3. Cardinality(S \ {k}) = Cardinality(S) - 1
    BY <2>2, FS_RemoveElement
  <2>4. {j \in D : r[j] = g[k]} = S \ {k}
    BY <1>2, <2>1
  <2> QED BY <2>1, <2>3, <2>4 DEF Count
<1>5. \A o : o \notin {e, g[k]} => Count(D, r, o) = Count(D, g, o)
  BY <1>2 DEF Count
<1> QED BY <1>3, <1>4, <1>5

(* What the counts are in a state that satisfies the invariant.             *)
LEMMA CallsTables ==
  ASSUME Sy!SyscallAssumption
  PROVE  /\ IsFiniteSet(Slots) /\ IsFiniteSet(Threads) /\ 0 \notin Objects
         /\ \A o : /\ Count(Slots, SlotObject, o) \in Nat /\ Count(Threads, PutObject, o) \in Nat
                   /\ \A h \in Slots : slot[h].obj = o => Count(Slots, SlotObject, o) > 0
<1>1. IsFiniteSet(Slots) /\ IsFiniteSet(Threads) /\ 0 \notin Objects
  BY SameSizes DEF Sy!SyscallAssumption
<1>2. \A h \in Slots : SlotObject[h] = slot[h].obj
  BY DEF SlotObject
<1> QED BY <1>1, <1>2, CountNat

(* A handle's object has references.                                        *)
LEMMA HandleCounts ==
  ASSUME Sy!SyscallAssumption, CallsInv, NEW h \in Slots, slot[h].obj # 0
  PROVE  slot[h].obj \in Objects /\ cobj[slot[h].obj].refs > 0
<1>1. slot[h].obj \in Objects
  BY DEF CallsInv, CallsTypeOK, Handles
<1> QED BY <1>1, CallsTables DEF CallsInv, ObjectsCount

(* The files change so that nobody's is closed or serves less; and objects  *)
(* so that only the free ones become others.                                *)
Kept(fl, lf) == \A g \in OpenFiles : fl[g].refs > 0 => lf[g].refs > 0 /\ lf[g].mode = fl[g].mode
Grows(ob, fl, bo, lf) ==
  /\ Kept(fl, lf)
  /\ \A p \in Objects : \/ bo[p].file = ob[p].file /\ (ob[p].refs > 0 => bo[p].refs > 0)
                        \/ ob[p].refs = 0 /\ OpenIn(lf, bo[p].file)

(* A call, and a handle, that do not change themselves stay sound.          *)
LEMMA CallStays ==
  ASSUME NEW c, NEW ob, NEW fl, NEW bo, NEW lf, CallIn(c, ob, fl), Grows(ob, fl, bo, lf)
  PROVE  CallIn(c, bo, lf)
BY DEF CallIn, Grows, Kept, OpenIn, FitIn

LEMMA SlotStays ==
  ASSUME NEW e \in Handles, NEW ob, NEW fl, NEW bo, NEW lf, SlotIn(e, ob, fl), Kept(fl, lf),
         e.obj # 0 => bo[e.obj].file = ob[e.obj].file
  PROVE  SlotIn(e, bo, lf)
BY DEF SlotIn, OpenIn, Kept

(* A step of one call that changes no table.                                *)
LEMMA CallSteps ==
  ASSUME CallsInv, NEW t \in Threads, NEW c \in Calls, CallIn(c, cobj, ofile),
         sys[t].pc # "put", c.pc # "put", sys' = [sys EXCEPT ![t] = c], UNCHANGED <<slot, cobj, ofile>>
  PROVE  CallsInv'
<1>1. /\ sys' \in [Threads -> Calls] /\ sys'[t] = c
      /\ \A u \in Threads : u # t => sys'[u] = sys[u]
  BY DEF CallsInv, CallsTypeOK
<1>2. \A u \in Threads : CallIn(sys'[u], cobj, ofile)
  BY <1>1 DEF CallsInv
<1>3. PutObject' = PutObject /\ SlotObject' = SlotObject
  BY <1>1 DEF PutObject, SlotObject
<1>4. ObjectsCount'
  BY <1>3 DEF CallsInv, ObjectsCount
<1> QED BY <1>1, <1>2, <1>4 DEF CallsInv, CallsTypeOK

LEMMA OpenKeeps ==
  ASSUME Sy!SyscallAssumption, CallsInv, NEW t \in Threads, NEW mode \in SUBSET Modes, Sy!SysOpen(t, mode)
  PROVE  CallsInv'
<1> DEFINE files == Sy!FreeFiles
           objects == Sy!FreeObjects
           holes == Sy!FreeSlots
<1>1. /\ files # {} /\ files \in SUBSET Nat /\ objects \in SUBSET Nat /\ holes \in SUBSET Nat
      /\ \A x : x \in files <=> x \in OpenFiles /\ ofile[x].refs = 0
      /\ \A x : x \in objects <=> x \in Objects /\ cobj[x].refs = 0
      /\ \A x : x \in holes <=> x \in Slots /\ slot[x].obj = 0
  BY DEF Sy!SysOpen, Sy!FreeFiles, Sy!FreeObjects, Sy!FreeSlots, Sy!SyscallAssumption
<1>2. \A P : Sy!Min(P) = Min(P)
  BY DEF Sy!Min, Min
<1>3. PICK f \in OpenFiles : f = Sy!Min(files) /\ ofile[f].refs = 0
  <2>1. Min(files) \in files
    BY <1>1, FirstPosition
  <2> QED BY <1>1, <1>2, <2>1
<1> DEFINE opened == [ofile EXCEPT ![f] = [mode |-> mode, pos |-> 0, refs |-> 1]]
<1>4. ofile' = opened =>
        /\ ofile' \in [OpenFiles -> [mode : SUBSET Modes, pos : Int, refs : Int]]
        /\ Kept(ofile, ofile')
        /\ ofile'[f].mode = mode /\ ofile'[f].refs = 1
  BY <1>3 DEF CallsInv, CallsTypeOK, Kept
<1>5. CASE UNCHANGED Sy!sysVars
  BY <1>5 DEF Sy!sysVars, CallsInv, CallsTypeOK, ObjectsCount, SlotObject, PutObject
<1>6. CASE ofile' = opened /\ UNCHANGED <<slot, cobj, sys>>
  <2>1. Grows(cobj, ofile, cobj, ofile')
    BY <1>4, <1>6 DEF Grows
  <2>2. \A u \in Threads : CallIn(sys[u], cobj, ofile')
    BY <2>1, CallStays DEF CallsInv
  <2>3. ASSUME NEW h \in Slots PROVE SlotIn(slot[h], cobj, ofile')
    <3>1. slot[h] \in Handles /\ SlotIn(slot[h], cobj, ofile)
      BY DEF CallsInv, CallsTypeOK
    <3> QED BY <1>4, <1>6, <3>1, SlotStays
  <2> QED BY <1>4, <1>6, <2>2, <2>3 DEF CallsInv, CallsTypeOK, ObjectsCount, SlotObject, PutObject
<1>7. ASSUME objects # {}, holes # {}, ofile' = opened,
             cobj' = [cobj EXCEPT ![Sy!Min(objects)] = [refs |-> 1, file |-> f]],
             slot' = [slot EXCEPT ![Sy!Min(holes)] = [obj |-> Sy!Min(objects), rights |-> {"inspect"} \cup mode]],
             Sy!Step(t, [Sy!Quiet EXCEPT !.pc = "get", !.obj = Sy!Min(objects)]), sys[t].pc = "user"
      PROVE  CallsInv'
  <2>1. PICK o \in Objects : o = Sy!Min(objects) /\ cobj[o].refs = 0
    <3>1. Min(objects) \in objects
      BY <1>1, <1>7, FirstPosition
    <3> QED BY <1>1, <1>2, <3>1
  <2>2. PICK h \in Slots : h = Sy!Min(holes) /\ slot[h].obj = 0
    <3>1. Min(holes) \in holes
      BY <1>1, <1>7, FirstPosition
    <3> QED BY <1>1, <1>2, <3>1
  <2>3. PICK e : e = [obj |-> o, rights |-> {"inspect"} \cup mode]
    OBVIOUS
  <2>4. PICK c : c = [Sy!Quiet EXCEPT !.pc = "get", !.obj = o]
    OBVIOUS
  <2>5. e \in Handles /\ c \in Calls /\ e.obj = o /\ e.rights = {"inspect"} \cup mode /\ c.pc = "get" /\ c.obj = o
    <3>1. c = [pc |-> "get", op |-> "none", obj |-> o, lost |-> FALSE, f |-> 0, pos |-> 0, n |-> 0]
      BY <2>4 DEF Sy!Quiet
    <3>2. c \in Calls /\ c.pc = "get" /\ c.obj = o
      BY <3>1 DEF Calls
    <3>3. e \in Handles
      BY <2>3 DEF Handles
    <3> QED BY <2>3, <3>2, <3>3
  <2>6. /\ cobj' = [cobj EXCEPT ![o] = [refs |-> 1, file |-> f]]
        /\ slot' = [slot EXCEPT ![h] = e]
        /\ sys' = [sys EXCEPT ![t] = c]
    BY <1>7, <2>1, <2>2, <2>3, <2>4 DEF Sy!Step
  <2>7. /\ slot' \in [Slots -> Handles] /\ sys' \in [Threads -> Calls]
        /\ cobj' \in [Objects -> [refs : Int, file : OpenFiles \cup {0}]]
        /\ \A g \in Slots : g # h => slot'[g] = slot[g]
        /\ slot'[h] = e
        /\ \A u \in Threads : u # t => sys'[u] = sys[u]
        /\ sys'[t] = c
        /\ \A p \in Objects : p # o => cobj'[p] = cobj[p]
        /\ cobj'[o].refs = 1 /\ cobj'[o].file = f
    BY <2>5, <2>6 DEF CallsInv, CallsTypeOK
  <2>8. o # 0 /\ IsFiniteSet(Slots)
    BY CallsTables
  <2>9. \A u \in Threads : CallIn(sys'[u], cobj', ofile')
    <3>1. Grows(cobj, ofile, cobj', ofile')
      BY <1>4, <1>7, <2>1, <2>7 DEF Grows, OpenIn
    <3>2. \A u \in Threads : CallIn(sys[u], cobj', ofile')
      BY <3>1, CallStays DEF CallsInv
    <3>3. CallIn(c, cobj', ofile')
      BY <2>5 DEF CallIn
    <3> QED BY <2>7, <3>2, <3>3
  <2>10. \A g \in Slots : SlotIn(slot'[g], cobj', ofile')
    <3> SUFFICES ASSUME NEW g \in Slots PROVE SlotIn(slot'[g], cobj', ofile')
      OBVIOUS
    <3>1. CASE g = h
      BY <1>4, <1>7, <2>5, <2>7, <3>1 DEF SlotIn, OpenIn
    <3>2. CASE g # h
      <4>1. slot[g] \in Handles /\ SlotIn(slot[g], cobj, ofile)
        BY DEF CallsInv, CallsTypeOK
      <4>2. slot[g].obj # 0 => slot[g].obj \in Objects /\ slot[g].obj # o
        BY <2>1, HandleCounts
      <4>3. slot[g].obj # 0 => cobj'[slot[g].obj].file = cobj[slot[g].obj].file
        BY <2>7, <4>2
      <4>4. SlotIn(slot[g], cobj', ofile')
        BY <1>4, <1>7, <4>1, <4>3 DEF SlotIn, OpenIn, Kept
      <4> QED BY <2>7, <3>2, <4>4
    <3> QED BY <3>1, <3>2
  <2>11. ObjectsCount'
    <3>1. /\ \A j \in Slots : SlotObject'[j] = IF j = h THEN o ELSE SlotObject[j]
          /\ SlotObject[h] = 0
          /\ PutObject' = PutObject
      BY <1>7, <2>2, <2>5, <2>7 DEF SlotObject, PutObject
    <3>2. /\ Count(Slots, SlotObject', o) = Count(Slots, SlotObject, o) + 1
          /\ \A p : p \notin {o, 0} => Count(Slots, SlotObject', p) = Count(Slots, SlotObject, p)
      <4>1. PICK g0, r0 : g0 = SlotObject /\ r0 = SlotObject'
        OBVIOUS
      <4>2. g0[h] = 0 /\ 0 # o /\ Changed(Slots, g0, r0, h, o) /\ IsFiniteSet(Slots)
        BY <2>8, <3>1, <4>1 DEF Changed
      <4>3. /\ Count(Slots, r0, o) = Count(Slots, g0, o) + 1
           /\ Count(Slots, r0, g0[h]) = Count(Slots, g0, g0[h]) - 1
           /\ \A p : p \notin {o, g0[h]} => Count(Slots, r0, p) = Count(Slots, g0, p)
        BY <4>2, CountMoves
      <4> QED BY <4>1, <4>2, <4>3
    <3>3. Count(Slots, SlotObject, o) = 0 /\ Count(Threads, PutObject, o) = 0
      BY <2>1, CallsTables DEF CallsInv, ObjectsCount
    <3>4. \A p : Count(Slots, SlotObject, p)' = Count(Slots, SlotObject', p) /\ Count(Threads, PutObject, p)' = Count(Threads, PutObject', p)
      BY DEF Count
    <3>5. \A p \in Objects : p # o => Count(Slots, SlotObject', p) = Count(Slots, SlotObject, p)
      BY <3>2, CallsTables
    <3> QED BY <2>7, <3>1, <3>2, <3>3, <3>4, <3>5 DEF CallsInv, ObjectsCount
  <2> QED BY <1>4, <1>7, <2>7, <2>9, <2>10, <2>11 DEF CallsInv, CallsTypeOK
<1> QED BY <1>3, <1>5, <1>6, <1>7 DEF Sy!SysOpen

(* A reference is taken, or dropped with who loses its object by that: the  *)
(* counts follow, and every other call and handle.                          *)
LEMMA ReferencesMove ==
  ASSUME Sy!SyscallAssumption, CallsInv, NEW t \in Threads, NEW o \in Objects, NEW n \in Int,
         cobj' = [cobj EXCEPT ![o].refs = n], UNCHANGED <<slot, ofile>>, sys' \in [Threads -> Calls],
         \A u \in Threads : CallIn(sys'[u], cobj', ofile), ObjectsCount'
  PROVE  CallsInv'
<1>1. /\ cobj' \in [Objects -> [refs : Int, file : OpenFiles \cup {0}]]
      /\ \A p \in Objects : cobj'[p].file = cobj[p].file
  BY DEF CallsInv, CallsTypeOK
<1>2. ASSUME NEW h \in Slots PROVE SlotIn(slot[h], cobj', ofile)
  <2>1. slot[h] \in Handles /\ SlotIn(slot[h], cobj, ofile) /\ (slot[h].obj # 0 => slot[h].obj \in Objects)
    BY DEF CallsInv, CallsTypeOK, Handles
  <2> QED BY <1>1, <2>1 DEF SlotIn
<1> QED BY <1>1, <1>2 DEF CallsInv, CallsTypeOK

LEMMA HoldKeeps ==
  ASSUME Sy!SyscallAssumption, CallsInv, NEW t \in Threads, Sy!SysGet(t)
  PROVE  CallsInv'
<1>1. PICK o \in Objects : o = sys[t].obj
  BY DEF CallsInv, CallIn, Sy!SysGet
<1>2. PICK c : c = [sys[t] EXCEPT !.pc = "put"]
  OBVIOUS
<1>3. /\ c \in Calls /\ c.pc = "put" /\ c.obj = o /\ sys[t].pc = "get"
      /\ cobj' = [cobj EXCEPT ![o].refs = cobj[o].refs + 1]
      /\ sys' = [sys EXCEPT ![t] = c] /\ UNCHANGED <<slot, ofile>>
  BY <1>1, <1>2 DEF Sy!SysGet, Sy!Step, CallsInv, CallsTypeOK, Calls
<1>4. /\ sys' \in [Threads -> Calls] /\ sys'[t] = c
      /\ \A u \in Threads : u # t => sys'[u] = sys[u]
      /\ cobj[o].refs \in Int /\ cobj'[o].refs = cobj[o].refs + 1
      /\ \A p \in Objects : cobj'[p].file = cobj[p].file /\ (p # o => cobj'[p].refs = cobj[p].refs)
  BY <1>3 DEF CallsInv, CallsTypeOK
<1>5. \A u \in Threads : CallIn(sys'[u], cobj', ofile)
  <2>1. Grows(cobj, ofile, cobj', ofile)
    BY <1>4 DEF Grows, Kept, CallsInv, CallsTypeOK
  <2>2. \A u \in Threads : CallIn(sys[u], cobj', ofile)
    BY <2>1, CallStays DEF CallsInv
  <2> QED BY <1>3, <1>4, <2>2 DEF CallIn
<1>6. ObjectsCount'
  <2>1. /\ \A j \in Threads : PutObject'[j] = IF j = t THEN o ELSE PutObject[j]
        /\ PutObject[t] = 0
        /\ SlotObject' = SlotObject
    BY <1>3, <1>4 DEF SlotObject, PutObject
  <2>2. IsFiniteSet(Threads) /\ o # 0
    BY CallsTables
  <2>3. /\ Count(Threads, PutObject', o) = Count(Threads, PutObject, o) + 1
        /\ \A p : p \notin {o, 0} => Count(Threads, PutObject', p) = Count(Threads, PutObject, p)
    <3>1. PICK g0, r0 : g0 = PutObject /\ r0 = PutObject'
      OBVIOUS
    <3>2. g0[t] = 0 /\ 0 # o /\ Changed(Threads, g0, r0, t, o) /\ IsFiniteSet(Threads)
      BY <2>2, <2>1, <3>1 DEF Changed
    <3>3. /\ Count(Threads, r0, o) = Count(Threads, g0, o) + 1
         /\ Count(Threads, r0, g0[t]) = Count(Threads, g0, g0[t]) - 1
         /\ \A p : p \notin {o, g0[t]} => Count(Threads, r0, p) = Count(Threads, g0, p)
      BY <3>2, CountMoves
    <3> QED BY <3>1, <3>2, <3>3
  <2>4. \A p : Count(Slots, SlotObject, p)' = Count(Slots, SlotObject', p) /\ Count(Threads, PutObject, p)' = Count(Threads, PutObject', p)
    BY DEF Count
  <2>5. \A p \in Objects : p # o => Count(Threads, PutObject', p) = Count(Threads, PutObject, p)
    BY <2>3, CallsTables
  <2> QED BY <1>4, <2>1, <2>3, <2>4, <2>5, CallsTables DEF CallsInv, ObjectsCount
<1>7. cobj[o].refs + 1 \in Int
  BY <1>4
<1> QED BY <1>3, <1>4, <1>5, <1>6, <1>7, ReferencesMove

LEMMA DropKeeps ==
  ASSUME Sy!SyscallAssumption, CallsInv, NEW t \in Threads, Sy!SysPut(t)
  PROVE  CallsInv'
<1>1. PICK o \in Objects : o = sys[t].obj
  BY DEF CallsInv, CallIn, Sy!SysPut
<1>2. PICK c : c = Sy!Quiet
  OBVIOUS
<1>3. c \in Calls /\ c.pc = "user"
  BY <1>2 DEF Sy!Quiet, Calls
<1>4. /\ sys[t].pc = "put" /\ UNCHANGED <<slot, ofile>>
      /\ cobj' = [cobj EXCEPT ![o].refs = cobj[o].refs - 1]
      /\ sys' = [u \in Threads |-> IF u = t THEN c ELSE [sys[u] EXCEPT !.lost = @ \/ Sy!Robbed(u, o)]]
  BY <1>1, <1>2 DEF Sy!SysPut
<1>5. ASSUME NEW u \in Threads, u # t
      PROVE  /\ sys'[u] \in Calls /\ sys'[u].lost = (sys[u].lost \/ Sy!Robbed(u, o))
             /\ sys'[u].pc = sys[u].pc /\ sys'[u].op = sys[u].op
             /\ sys'[u].obj = sys[u].obj /\ sys'[u].f = sys[u].f
  <2>1. sys[u] \in Calls
    BY DEF CallsInv, CallsTypeOK
  <2>2. PICK l \in BOOLEAN : l = (sys[u].lost \/ Sy!Robbed(u, o))
    OBVIOUS
  <2>3. sys'[u] = [sys[u] EXCEPT !.lost = l]
    BY <1>4, <1>5, <2>2
  <2> QED BY <2>1, <2>2, <2>3 DEF Calls
<1>6. sys' \in [Threads -> Calls] /\ sys'[t] = c
  BY <1>3, <1>4, <1>5
<1>7. /\ cobj[o].refs \in Int /\ cobj'[o].refs = cobj[o].refs - 1
      /\ \A p \in Objects : cobj[p].refs \in Int /\ cobj'[p].file = cobj[p].file /\ (p # o => cobj'[p].refs = cobj[p].refs)
  BY <1>4 DEF CallsInv, CallsTypeOK
<1>8. \A u \in Threads : CallIn(sys'[u], cobj', ofile)
  <2> SUFFICES ASSUME NEW u \in Threads PROVE CallIn(sys'[u], cobj', ofile)
    OBVIOUS
  <2>1. CASE u = t
    BY <1>3, <1>6, <2>1 DEF CallIn
  <2>2. CASE u # t
    <3>1. CallIn(sys[u], cobj, ofile)
      BY DEF CallsInv
    <3>2. ASSUME sys[u].pc = "resolve", sys[u].obj = o, ~sys'[u].lost PROVE cobj'[o].refs > 0
      <4>1. ~sys[u].lost /\ cobj[o].refs # 1
        BY <1>5, <2>2, <3>2 DEF Sy!Robbed
      <4>2. cobj[o].refs > 0
        BY <3>1, <3>2, <4>1 DEF CallIn
      <4> QED BY <1>7, <4>1, <4>2
    <3>3. sys[u].lost => sys'[u].lost
      BY <1>5, <2>2
    <3> QED BY <1>5, <1>7, <2>2, <3>1, <3>2, <3>3 DEF CallIn
  <2> QED BY <2>1, <2>2
<1>9. ObjectsCount'
  <2>1. /\ \A j \in Threads : PutObject'[j] = IF j = t THEN 0 ELSE PutObject[j]
        /\ PutObject[t] = o
        /\ SlotObject' = SlotObject
    BY <1>1, <1>3, <1>4, <1>5, <1>6 DEF SlotObject, PutObject
  <2>2. IsFiniteSet(Threads) /\ o # 0
    BY CallsTables
  <2>3. /\ Count(Threads, PutObject', o) = Count(Threads, PutObject, o) - 1
        /\ \A p : p \notin {o, 0} => Count(Threads, PutObject', p) = Count(Threads, PutObject, p)
    <3>1. PICK g0, r0 : g0 = PutObject /\ r0 = PutObject'
      OBVIOUS
    <3>2. g0[t] = o /\ o # 0 /\ Changed(Threads, g0, r0, t, 0) /\ IsFiniteSet(Threads)
      BY <2>2, <2>1, <3>1 DEF Changed
    <3>3. /\ Count(Threads, r0, 0) = Count(Threads, g0, 0) + 1
         /\ Count(Threads, r0, g0[t]) = Count(Threads, g0, g0[t]) - 1
         /\ \A p : p \notin {0, g0[t]} => Count(Threads, r0, p) = Count(Threads, g0, p)
      BY <3>2, CountMoves
    <3> QED BY <3>1, <3>2, <3>3
  <2>4. \A p : Count(Slots, SlotObject, p)' = Count(Slots, SlotObject', p) /\ Count(Threads, PutObject, p)' = Count(Threads, PutObject', p)
    BY DEF Count
  <2>5. \A p \in Objects : p # o => Count(Threads, PutObject', p) = Count(Threads, PutObject, p)
    BY <2>3, CallsTables
  <2> QED BY <1>7, <2>1, <2>3, <2>4, <2>5, CallsTables DEF CallsInv, ObjectsCount
<1>10. cobj[o].refs - 1 \in Int
  BY <1>7
<1> QED BY <1>4, <1>6, <1>8, <1>9, <1>10, ReferencesMove

LEMMA CloseKeeps ==
  ASSUME Sy!SyscallAssumption, CallsInv, NEW t \in Threads, NEW h \in Slots, Sy!SysClose(t, h)
  PROVE  CallsInv'
<1>1. PICK o \in Objects : o = slot[h].obj
  BY HandleCounts DEF Sy!SysClose
<1>2. PICK e : e = Sy!Empty
  OBVIOUS
<1>3. PICK c : c = [Sy!Quiet EXCEPT !.pc = "put", !.obj = o]
  OBVIOUS
<1>4. /\ e \in Handles /\ e.obj = 0 /\ c \in Calls /\ c.pc = "put" /\ c.obj = o
  <2>1. c = [pc |-> "put", op |-> "none", obj |-> o, lost |-> FALSE, f |-> 0, pos |-> 0, n |-> 0]
    BY <1>3 DEF Sy!Quiet
  <2>2. c \in Calls /\ c.pc = "put" /\ c.obj = o
    BY <2>1 DEF Calls
  <2> QED BY <1>2, <2>2 DEF Sy!Empty, Handles
<1>5. /\ sys[t].pc = "user" /\ slot' = [slot EXCEPT ![h] = e] /\ sys' = [sys EXCEPT ![t] = c]
      /\ UNCHANGED <<cobj, ofile>>
  BY <1>1, <1>2, <1>3 DEF Sy!SysClose, Sy!Step
<1>6. /\ slot' \in [Slots -> Handles] /\ sys' \in [Threads -> Calls]
      /\ slot'[h] = e /\ \A g \in Slots : g # h => slot'[g] = slot[g]
      /\ sys'[t] = c /\ \A u \in Threads : u # t => sys'[u] = sys[u]
  BY <1>4, <1>5 DEF CallsInv, CallsTypeOK
<1>7. \A g \in Slots : SlotIn(slot'[g], cobj, ofile)
  BY <1>4, <1>6, <1>5 DEF CallsInv, SlotIn
<1>8. \A u \in Threads : CallIn(sys'[u], cobj, ofile)
  BY <1>4, <1>6, <1>5 DEF CallsInv, CallIn
<1>9. ObjectsCount'
  <2>1. /\ \A j \in Slots : SlotObject'[j] = IF j = h THEN 0 ELSE SlotObject[j]
        /\ SlotObject[h] = o
    BY <1>1, <1>4, <1>6, <1>5 DEF SlotObject
  <2>2. /\ \A j \in Threads : PutObject'[j] = IF j = t THEN o ELSE PutObject[j]
        /\ PutObject[t] = 0
    BY <1>4, <1>6, <1>5 DEF PutObject
  <2>3. IsFiniteSet(Slots) /\ IsFiniteSet(Threads) /\ o # 0
    BY CallsTables
  <2>4. /\ Count(Slots, SlotObject', o) = Count(Slots, SlotObject, o) - 1
        /\ \A p : p \notin {o, 0} => Count(Slots, SlotObject', p) = Count(Slots, SlotObject, p)
    <3>1. PICK g0, r0 : g0 = SlotObject /\ r0 = SlotObject'
      OBVIOUS
    <3>2. g0[h] = o /\ o # 0 /\ Changed(Slots, g0, r0, h, 0) /\ IsFiniteSet(Slots)
      BY <2>3, <2>1, <3>1 DEF Changed
    <3>3. /\ Count(Slots, r0, 0) = Count(Slots, g0, 0) + 1
         /\ Count(Slots, r0, g0[h]) = Count(Slots, g0, g0[h]) - 1
         /\ \A p : p \notin {0, g0[h]} => Count(Slots, r0, p) = Count(Slots, g0, p)
      BY <3>2, CountMoves
    <3> QED BY <3>1, <3>2, <3>3
  <2>5. /\ Count(Threads, PutObject', o) = Count(Threads, PutObject, o) + 1
        /\ \A p : p \notin {o, 0} => Count(Threads, PutObject', p) = Count(Threads, PutObject, p)
    <3>1. PICK g0, r0 : g0 = PutObject /\ r0 = PutObject'
      OBVIOUS
    <3>2. g0[t] = 0 /\ 0 # o /\ Changed(Threads, g0, r0, t, o) /\ IsFiniteSet(Threads)
      BY <2>3, <2>2, <3>1 DEF Changed
    <3>3. /\ Count(Threads, r0, o) = Count(Threads, g0, o) + 1
         /\ Count(Threads, r0, g0[t]) = Count(Threads, g0, g0[t]) - 1
         /\ \A p : p \notin {o, g0[t]} => Count(Threads, r0, p) = Count(Threads, g0, p)
      BY <3>2, CountMoves
    <3> QED BY <3>1, <3>2, <3>3
  <2>6. \A p : Count(Slots, SlotObject, p)' = Count(Slots, SlotObject', p) /\ Count(Threads, PutObject, p)' = Count(Threads, PutObject', p)
    BY DEF Count
  <2>7. \A p \in Objects : p # o => /\ Count(Slots, SlotObject', p) = Count(Slots, SlotObject, p)
                                    /\ Count(Threads, PutObject', p) = Count(Threads, PutObject, p)
    BY <2>4, <2>5, CallsTables
  <2> QED BY <1>5, <2>4, <2>5, <2>6, <2>7, CallsTables DEF CallsInv, ObjectsCount
<1> QED BY <1>6, <1>7, <1>8, <1>9, <1>5 DEF CallsInv, CallsTypeOK

LEMMA BeginKeeps ==
  ASSUME Sy!SyscallAssumption, CallsInv, NEW t \in Threads, NEW h \in Slots,
         NEW op \in {"read", "write", "inspect"}, Sy!SysBegin(t, h, op)
  PROVE  CallsInv'
<1>1. PICK o \in Objects : o = slot[h].obj /\ cobj[o].refs > 0
  BY HandleCounts DEF Sy!SysBegin, Sy!Resolvable
<1>2. PICK c : c = [Sy!Quiet EXCEPT !.pc = "resolve", !.op = op, !.obj = o]
  OBVIOUS
<1>3. /\ c \in Calls /\ c.pc = "resolve" /\ c.obj = o /\ c.op = op
      /\ sys[t].pc = "user" /\ sys' = [sys EXCEPT ![t] = c] /\ UNCHANGED <<slot, cobj, ofile>>
  <2>1. c = [pc |-> "resolve", op |-> op, obj |-> o, lost |-> FALSE, f |-> 0, pos |-> 0, n |-> 0]
    BY <1>2 DEF Sy!Quiet
  <2>2. c \in Calls /\ c.pc = "resolve" /\ c.obj = o /\ c.op = op
    BY <2>1 DEF Calls, Modes
  <2> QED BY <1>1, <1>2, <2>2 DEF Sy!SysBegin, Sy!Step
<1>4. o # 0 /\ op \in slot[h].rights
  BY CallsTables DEF Sy!SysBegin, Sy!Resolvable
<1>5. SlotIn(slot[h], cobj, ofile)
  BY DEF CallsInv
<1>6. CallIn(c, cobj, ofile)
  BY <1>1, <1>3, <1>4, <1>5 DEF CallIn, SlotIn, FitIn
<1> QED BY <1>3, <1>6, CallSteps

LEMMA PointerKeeps ==
  ASSUME CallsInv, NEW t \in Threads, Sy!SysPointer(t)
  PROVE  CallsInv'
<1>1. CallIn(sys[t], cobj, ofile) /\ sys[t] \in Calls /\ sys[t].pc = "resolve"
  BY DEF CallsInv, CallsTypeOK, Sy!SysPointer
<1>2. PICK f \in OpenFiles : f = cobj[sys[t].obj].file
  BY <1>1 DEF CallIn, OpenIn
<1>3. PICK c : c = [sys[t] EXCEPT !.pc = "io", !.f = f]
  OBVIOUS
<1>4. /\ c \in Calls /\ c.pc = "io" /\ c.f = f /\ c.op = sys[t].op /\ c.lost = sys[t].lost
      /\ sys' = [sys EXCEPT ![t] = c] /\ UNCHANGED <<slot, cobj, ofile>>
  BY <1>1, <1>2, <1>3 DEF Calls, Sy!SysPointer, Sy!Step
<1>5. CallIn(c, cobj, ofile)
  BY <1>1, <1>2, <1>4 DEF CallIn
<1> QED BY <1>1, <1>4, <1>5, CallSteps

LEMMA TransferKeeps ==
  ASSUME Sy!SyscallAssumption, CallsInv, NEW t \in Threads, Sy!SysTransfer(t)
  PROVE  CallsInv'
<1>1. FileLen \in Int /\ Chunk \in Int
  BY DEF Sy!SyscallAssumption
<1>2. CallIn(sys[t], cobj, ofile) /\ sys[t] \in Calls /\ sys[t].pc = "io"
  BY DEF CallsInv, CallsTypeOK, Sy!SysTransfer
<1>3. PICK p \in Int : p = ofile[sys[t].f].pos
  BY <1>2 DEF CallsInv, CallsTypeOK, CallIn, OpenIn
<1> DEFINE least == Sy!Min({Chunk, FileLen - p})
           most == Sy!Max({0, least})
<1>4. least \in Int
  <2>1. CASE Chunk <= FileLen - p
    BY <1>1, <2>1 DEF Sy!Min
  <2>2. CASE ~ (Chunk <= FileLen - p)
    BY <1>1, <2>2 DEF Sy!Min
  <2> QED BY <2>1, <2>2
<1>5. PICK l \in Int : l = least
  BY <1>4
<1>6. Sy!Max({0, l}) \in Int
  BY DEF Sy!Max
<1>7. PICK m \in Int : m = most
  BY <1>5, <1>6
<1>8. PICK n \in Int : sys' = [sys EXCEPT ![t].pc = "move", ![t].pos = p, ![t].n = n]
  <2> DEFINE k == IF sys[t].op \notin ofile[sys[t].f].mode THEN 0
                  ELSE IF sys[t].op = "read" THEN m ELSE IF p + Chunk <= FileLen THEN Chunk ELSE 0
  <2>1. sys' = [sys EXCEPT ![t].pc = "move", ![t].pos = p, ![t].n = k]
    BY <1>3, <1>7 DEF Sy!SysTransfer
  <2>2. k \in Int
    BY <1>1
  <2> HIDE DEF k
  <2> QED BY <2>1, <2>2
<1>9. PICK c : c = [[[sys[t] EXCEPT !.pc = "move"] EXCEPT !.pos = p] EXCEPT !.n = n]
  OBVIOUS
<1>10. /\ c \in Calls /\ c.pc = "move" /\ c.f = sys[t].f /\ c.op = sys[t].op /\ c.lost = sys[t].lost
       /\ sys' = [sys EXCEPT ![t] = c]
  BY <1>2, <1>8, <1>9 DEF Calls, CallsInv, CallsTypeOK
<1>11. CallIn(c, cobj, ofile) /\ UNCHANGED <<slot, cobj, ofile>>
  BY <1>2, <1>10 DEF CallIn, Sy!SysTransfer
<1> QED BY <1>2, <1>10, <1>11, CallSteps

(* A call ends with a position moved: nothing is said of positions.         *)
LEMMA CallEnds ==
  ASSUME CallsInv, NEW t \in Threads, NEW p \in Int, NEW f \in OpenFiles,
         sys[t].pc # "put", ofile' = [ofile EXCEPT ![f].pos = p],
         Sy!Step(t, Sy!Quiet), UNCHANGED <<slot, cobj>>
  PROVE  CallsInv'
<1>1. PICK c : c = Sy!Quiet
  OBVIOUS
<1>2. c \in Calls /\ c.pc = "user" /\ sys' = [sys EXCEPT ![t] = c]
  BY <1>1 DEF Sy!Quiet, Sy!Step, Calls
<1>3. /\ sys' \in [Threads -> Calls] /\ sys'[t] = c
      /\ \A u \in Threads : u # t => sys'[u] = sys[u]
      /\ ofile' \in [OpenFiles -> [mode : SUBSET Modes, pos : Int, refs : Int]]
      /\ \A g \in OpenFiles : ofile'[g].refs = ofile[g].refs /\ ofile'[g].mode = ofile[g].mode
  BY <1>2 DEF CallsInv, CallsTypeOK
<1>4. \A u \in Threads : CallIn(sys'[u], cobj, ofile')
  <2>1. Grows(cobj, ofile, cobj, ofile')
    BY <1>3 DEF Grows, Kept
  <2>2. \A u \in Threads : CallIn(sys[u], cobj, ofile')
    BY <2>1, CallStays DEF CallsInv
  <2> QED BY <1>2, <1>3, <2>2 DEF CallIn
<1>5. ASSUME NEW h \in Slots PROVE SlotIn(slot[h], cobj, ofile')
  <2>1. slot[h] \in Handles /\ SlotIn(slot[h], cobj, ofile)
    BY DEF CallsInv, CallsTypeOK
  <2>2. Kept(ofile, ofile')
    BY <1>3 DEF Kept
  <2> QED BY <2>1, <2>2, SlotStays
<1>6. SlotObject' = SlotObject /\ PutObject' = PutObject
  BY <1>2, <1>3 DEF SlotObject, PutObject
<1>7. ObjectsCount'
  BY <1>6 DEF CallsInv, ObjectsCount
<1> QED BY <1>3, <1>4, <1>5, <1>7 DEF CallsInv, CallsTypeOK

LEMMA MoveKeeps ==
  ASSUME CallsInv, NEW t \in Threads, Sy!SysMove(t)
  PROVE  CallsInv'
<1>1. CallIn(sys[t], cobj, ofile) /\ sys[t] \in Calls /\ sys[t].pc = "move"
  BY DEF CallsInv, CallsTypeOK, Sy!SysMove
<1>2. PICK f \in OpenFiles : f = sys[t].f
  BY <1>1 DEF CallIn, OpenIn
<1>3. PICK p \in Int : p = ofile[f].pos + sys[t].n
  BY <1>1 DEF CallsInv, CallsTypeOK, Calls
<1>4. ofile' = [ofile EXCEPT ![f].pos = p] /\ Sy!Step(t, Sy!Quiet) /\ UNCHANGED <<slot, cobj>>
  BY <1>2, <1>3 DEF Sy!SysMove
<1> QED BY <1>1, <1>4, CallEnds

LEMMA SeekKeeps ==
  ASSUME Sy!SyscallAssumption, CallsInv, NEW t \in Threads, NEW p \in {0, FileLen}, Sy!SysSeek(t, p)
  PROVE  CallsInv'
<1>1. p \in Int
  BY DEF Sy!SyscallAssumption
<1>2. CallIn(sys[t], cobj, ofile) /\ sys[t].pc = "io"
  BY DEF CallsInv, Sy!SysSeek
<1>3. PICK f \in OpenFiles : f = sys[t].f
  BY <1>2 DEF CallIn, OpenIn
<1>4. ofile' = [ofile EXCEPT ![f].pos = p] /\ Sy!Step(t, Sy!Quiet) /\ UNCHANGED <<slot, cobj>>
  BY <1>3 DEF Sy!SysSeek
<1> QED BY <1>1, <1>2, <1>4, CallEnds

LEMMA CallsSteps == Sy!SyscallAssumption /\ CallsInv /\ [Sy!Next]_Sy!sysVars => CallsInv'
<1> SUFFICES ASSUME Sy!SyscallAssumption, CallsInv, [Sy!Next]_Sy!sysVars PROVE CallsInv'
  OBVIOUS
<1>1. ASSUME NEW t \in Threads, NEW m \in {{"read"}, {"read", "write"}}, Sy!SysOpen(t, m) PROVE CallsInv'
  <2>1. m \in SUBSET Modes
    BY DEF Modes
  <2> QED BY <1>1, <2>1, OpenKeeps
<1>2. ASSUME NEW t \in Threads, NEW h \in Slots, Sy!SysClose(t, h) PROVE CallsInv'
  BY <1>2, CloseKeeps
<1>3. ASSUME NEW t \in Threads, NEW h \in Slots, NEW op \in {"read", "write", "inspect"}, Sy!SysBegin(t, h, op)
      PROVE  CallsInv'
  BY <1>3, BeginKeeps
<1>4. ASSUME NEW t \in Threads, Sy!SysGet(t) PROVE CallsInv'
  BY <1>4, HoldKeeps
<1>5. ASSUME NEW t \in Threads, Sy!SysPut(t) PROVE CallsInv'
  BY <1>5, DropKeeps
<1>6. ASSUME NEW t \in Threads, Sy!SysPointer(t) PROVE CallsInv'
  BY <1>6, PointerKeeps
<1>7. ASSUME NEW t \in Threads, Sy!SysTransfer(t) PROVE CallsInv'
  BY <1>7, TransferKeeps
<1>8. ASSUME NEW t \in Threads, Sy!SysMove(t) PROVE CallsInv'
  BY <1>8, MoveKeeps
<1>9. ASSUME NEW t \in Threads, NEW p \in {0, FileLen}, Sy!SysSeek(t, p) PROVE CallsInv'
  BY <1>9, SeekKeeps
<1>10. ASSUME UNCHANGED Sy!sysVars PROVE CallsInv'
  BY <1>10 DEF Sy!sysVars, CallsInv, CallsTypeOK, ObjectsCount, SlotObject, PutObject
<1> QED BY <1>1, <1>2, <1>3, <1>4, <1>5, <1>6, <1>7, <1>8, <1>9, <1>10 DEF Sy!Next

(* A read, write or seek in flight has an open file, and one that serves    *)
(* the call unless its object was freed before the pointer was read,        *)
(* whatever other threads closed, opened and opened again in the same slot; *)
(* an object counts its slots and the calls about to put it.                *)
THEOREM CallsHoldFiles == Sy!SyscallAssumption /\ CallsSpec => []Sy!CallsKeepFiles
<1> SUFFICES ASSUME Sy!SyscallAssumption PROVE CallsSpec => []Sy!CallsKeepFiles
  OBVIOUS
<1>1. Sy!Init => CallsInv
  <2> SUFFICES ASSUME Sy!Init PROVE CallsInv
    OBVIOUS
  <2>1. CallsTypeOK
    BY DEF Sy!Init, Sy!Empty, Sy!Quiet, CallsTypeOK, Handles, Calls
  <2>2. /\ \A h \in Slots : SlotIn(slot[h], cobj, ofile)
        /\ \A t \in Threads : CallIn(sys[t], cobj, ofile)
    BY DEF Sy!Init, Sy!Empty, Sy!Quiet, SlotIn, CallIn
  <2>3. \A o \in Objects : /\ {h \in Slots : SlotObject[h] = o} = {}
                           /\ {t \in Threads : PutObject[t] = o} = {}
    BY CallsTables DEF Sy!Init, Sy!Empty, Sy!Quiet, SlotObject, PutObject
  <2>4. \A o \in Objects : Count(Slots, SlotObject, o) = 0 /\ Count(Threads, PutObject, o) = 0
    BY <2>3, FS_EmptySet DEF Count
  <2>5. ObjectsCount
    BY <2>4 DEF Sy!Init, ObjectsCount
  <2> QED BY <2>1, <2>2, <2>5 DEF CallsInv
<1>2. CallsInv /\ [Sy!Next]_Sy!sysVars => CallsInv'
  BY CallsSteps
<1>3. CallsInv => Sy!CallsKeepFiles
  <2> SUFFICES ASSUME CallsInv PROVE Sy!CallsKeepFiles
    OBVIOUS
  <2>1. \A t \in Threads : Sy!Acts(t) => ofile[sys[t].f].refs > 0 /\ (Sy!Serves(t) \/ sys[t].lost)
    BY DEF CallsInv, CallIn, OpenIn, FitIn, Sy!Acts, Sy!Serves
  <2>2. ASSUME NEW o \in Objects
        PROVE  /\ {h \in Slots : SlotObject[h] = o} = {h \in Slots : slot[h].obj = o}
               /\ {t \in Threads : PutObject[t] = o} = {t \in Threads : sys[t].pc = "put" /\ sys[t].obj = o}
    BY CallsTables DEF SlotObject, PutObject
  <2>3. \A o \in Objects : cobj[o].refs = Cardinality({h \in Slots : slot[h].obj = o})
                                            + Cardinality({t \in Threads : sys[t].pc = "put" /\ sys[t].obj = o})
    BY <2>2 DEF CallsInv, ObjectsCount, Count
  <2> QED BY <2>1, <2>3, SameSizes DEF Sy!CallsKeepFiles
<1> QED BY <1>1, <1>2, <1>3, PTL DEF CallsSpec
-----------------------------------------------------------------------------
(* Starting the other cores.                                                *)
List    == machine.list
Target  == machine.list[boot.at]
X86     == machine.port = "x86"
Silent  == machine.mute \union machine.absent
Waiting == boot.pc \in {"alive", "enter"}
Running == {c \in Sm!Cores : core[c].pc \notin {"off", "kicked"}}

StatusOK ==
  /\ List \in Seq(Sm!Cores) /\ IsInjective(List) /\ machine.port \in {"x86", "arm", "riscv"}
  /\ boot \in [pc : {"next", "alive", "enter", "roster", "done"}, at : Nat \ {0}, started : Nat]
  /\ Waiting => boot.at <= Len(List)
  /\ boot.pc = "enter" => X86
  /\ param \in [stack : Nat, id : Nat, alive : BOOLEAN]
  /\ core \in [Sm!Cores -> [pc : {"off", "kicked", "loaded", "alive", "test", "store", "counted", "up"},
                            stack : Nat, id : Nat]]
  /\ online \in Nat

(* Who was asked to start has its turn or had it; one core at a time is on  *)
(* its way to the block, and the block is its.                              *)
Asked == \A c \in Sm!Cores : core[c].pc # "off" =>
  c \notin Silent /\ \E j \in 1..Len(List) : List[j] = c /\ (j < boot.at \/ (Waiting /\ j = boot.at))
OneAtATime == \A c \in Sm!Cores :
  /\ core[c].pc \in {"kicked", "loaded"} => boot.pc = "alive" /\ c = Target /\ ~param.alive
  /\ core[c].pc = "alive" => X86 /\ Waiting /\ c = Target
Enrols(c, i) == i \in DOMAIN roster /\ roster[i] = c
Block == boot.pc = "alive" =>
  /\ param.stack = boot.at /\ param.id = IF X86 THEN 0 ELSE Sm!NextId
  /\ machine.port = "riscv" => Enrols(Target, boot.started + 1)

(* A core runs on the stack of its turn; those taken back are of the silent. *)
StacksKept == /\ \A c \in Running : core[c].stack \in 1..Len(List) /\ List[core[c].stack] = c
              /\ \A i \in freed : i \in 1..Len(List) /\ List[i] \in Silent

(* A core's number is its own, or enrolled, or about to be.                 *)
Numbers ==
  /\ \A c \in Running :
       /\ machine.port = "arm" => core[c].id = c
       /\ core[c].pc \in {"loaded", "alive"} /\ X86 => core[c].id = 0
       /\ machine.port # "arm" /\ core[c].id # 0 =>
            \/ core[c].id <= boot.started /\ Enrols(c, core[c].id)
            \/ core[c].id = boot.started + 1 /\ boot.pc = "alive" /\ c = Target
  /\ boot.pc = "enter" => Enrols(Target, boot.started)
Unnumbered == core[Target].pc \in {"off", "kicked", "loaded", "alive"}
Counted == X86 =>
  /\ boot.pc = "alive" => online = IF Unnumbered THEN boot.started ELSE boot.started + 1
  /\ boot.pc = "enter" => IF Unnumbered THEN online + 1 = boot.started ELSE online = boot.started
  /\ ~Waiting => online = boot.started
Mapped == X86 /\ ~low => boot.pc = "done" \/ List = <<>>

SmpInv == StatusOK /\ Asked /\ OneAtATime /\ Block /\ StacksKept /\ Numbers /\ Counted /\ Mapped

(* What holds of the cores and the boot core keeps them apart.              *)
LEMMA InvApart == SmpInv => Sm!CoresApart
<1> SUFFICES ASSUME SmpInv PROVE Sm!CoresApart
  OBVIOUS
<1> USE DEF SmpInv
<1>1. Running = Sm!Running /\ (X86 <=> Sm!X86)
  BY DEF Running, Sm!Running, X86, Sm!X86
<1>2. \A c \in Running : core[c].stack \notin freed
  BY DEF StacksKept, Asked, Running
<1>3. \A c, d \in Running : c # d => core[c].stack # core[d].stack
  BY DEF StacksKept
<1>4. ASSUME NEW c \in Running, core[c].id > 0, core[c].id <= boot.started
      PROVE  c = IF machine.port = "arm" THEN core[c].id ELSE roster[core[c].id]
  BY <1>4 DEF Numbers, Enrols, StatusOK, Running
<1>5. ASSUME NEW c \in Running, NEW d \in Running, core[c].id > 0, core[d].id > 0, c # d
      PROVE  core[c].id # core[d].id
  <2>1. CASE machine.port = "arm"
    BY <1>5, <2>1 DEF Numbers
  <2>2. CASE machine.port # "arm"
    <3>1. core[c].id # 0 /\ core[d].id # 0 /\ boot.started \in Nat
      BY <1>5 DEF StatusOK
    <3>2. /\ \/ core[c].id <= boot.started /\ Enrols(c, core[c].id)
             \/ core[c].id = boot.started + 1 /\ c = Target
          /\ \/ core[d].id <= boot.started /\ Enrols(d, core[d].id)
             \/ core[d].id = boot.started + 1 /\ d = Target
      BY <1>5, <2>2, <3>1 DEF Numbers
    <3>3. \A i : Enrols(c, i) /\ Enrols(d, i) => c = d
      BY DEF Enrols
    <3> QED BY <1>5, <3>1, <3>2, <3>3
  <2> QED BY <2>1, <2>2
<1>6. ASSUME X86, ~low, NEW c \in Sm!Cores PROVE core[c].pc \notin {"kicked", "loaded", "alive"}
  <2>1. CASE boot.pc = "done"
    BY <2>1 DEF OneAtATime, Waiting
  <2>2. CASE List = <<>>
    BY <2>2 DEF Asked
  <2> QED BY <1>6, <2>1, <2>2 DEF Mapped
<1> QED BY <1>1, <1>2, <1>3, <1>4, <1>5, <1>6 DEF Sm!CoresApart, Sm!Numbered

Status == [pc : {"off", "kicked", "loaded", "alive", "test", "store", "counted", "up"}, stack : Nat, id : Nat]

(* Only the core c moves, which is then e.                                  *)
OnlyCore(c, e) == /\ core' = [core EXCEPT ![c] = e] /\ e \in Status
                  /\ UNCHANGED <<machine, boot, roster, low, freed>>

(* What one core's step leaves as it was.                                   *)
LEMMA OthersStay ==
  ASSUME SmpInv, NEW c \in Sm!Cores, NEW e, OnlyCore(c, e), core[c].pc # "off", e.pc # "off"
  PROVE  /\ core' \in [Sm!Cores -> Status] /\ core'[c] = e
         /\ \A d \in Sm!Cores : d # c => core'[d] = core[d]
         /\ UNCHANGED <<List, Target, X86, Silent, Waiting, machine, boot, roster, low, freed>>
         /\ Asked' /\ Mapped'
         /\ c \notin Silent /\ Len(List) \in Nat
<1>1. core' \in [Sm!Cores -> Status] /\ core'[c] = e /\ \A d \in Sm!Cores : d # c => core'[d] = core[d]
  BY DEF OnlyCore, SmpInv, StatusOK, Status
<1>2. UNCHANGED <<List, Target, X86, Silent, Waiting, machine, boot, roster, low, freed>>
  BY DEF OnlyCore, List, Target, X86, Silent, Waiting
<1>3. Asked'
  BY <1>1, <1>2 DEF SmpInv, Asked
<1>4. Mapped'
  BY <1>2 DEF SmpInv, Mapped
<1>5. c \notin Silent /\ Len(List) \in Nat
  BY DEF SmpInv, Asked, StatusOK
<1> QED BY <1>1, <1>2, <1>3, <1>4, <1>5

LEMMA LoadsKeep ==
  ASSUME SmpInv, NEW c \in Sm!Cores, Sm!CoreLoads(c)
  PROVE  SmpInv'
<1>1. PICK e : e = [pc |-> "loaded", stack |-> param.stack, id |-> param.id]
  OBVIOUS
<1>2. /\ core[c].pc = "kicked" /\ boot.pc = "alive" /\ c = Target /\ ~param.alive
      /\ param.stack = boot.at /\ param.id = IF X86 THEN 0 ELSE Sm!NextId
  BY DEF Sm!CoreLoads, SmpInv, OneAtATime, Block
<1>3. OnlyCore(c, e) /\ UNCHANGED <<param, online>>
  BY <1>1 DEF Sm!CoreLoads, OnlyCore, Status, SmpInv, StatusOK
<1>4. /\ core' \in [Sm!Cores -> Status] /\ core'[c] = e
      /\ \A d \in Sm!Cores : d # c => core'[d] = core[d]
      /\ UNCHANGED <<List, Target, X86, Silent, Waiting, machine, boot, roster, low, freed>>
      /\ Asked' /\ Mapped' /\ c \notin Silent /\ Len(List) \in Nat
  BY <1>1, <1>2, <1>3, OthersStay
<1>5. StatusOK'
  BY <1>3, <1>4 DEF SmpInv, StatusOK, Status
<1>6. OneAtATime'
  BY <1>1, <1>2, <1>3, <1>4 DEF SmpInv, OneAtATime
<1>7. Block'
  BY <1>3, <1>4 DEF SmpInv, Block, Enrols, Sm!NextId, Sm!Target
<1>8. boot.at \in 1..Len(List) /\ List[boot.at] = c /\ boot.started \in Nat
  BY <1>2, <1>4 DEF SmpInv, StatusOK, Waiting, Target, List
<1>9. StacksKept'
  BY <1>1, <1>2, <1>4, <1>8 DEF SmpInv, StacksKept, Running
<1>10. Numbers'
  <2>1. ASSUME NEW d \in Running', d # c PROVE d \in Running /\ core'[d] = core[d]
    BY <1>4, <2>1 DEF Running
  <2>2. machine.port = "arm" => param.id = c
    BY <1>2 DEF X86, Sm!NextId, Sm!Target, Target
  <2>3. machine.port # "arm" /\ param.id # 0 => param.id = boot.started + 1
    BY <1>2 DEF Sm!NextId
  <2>4. X86 => param.id = 0
    BY <1>2
  <2> QED BY <1>1, <1>2, <1>4, <2>1, <2>2, <2>3, <2>4 DEF SmpInv, Numbers, Enrols
<1>11. Counted'
  BY <1>1, <1>2, <1>3, <1>4 DEF SmpInv, Counted, Unnumbered
<1> QED BY <1>4, <1>5, <1>6, <1>7, <1>9, <1>10, <1>11 DEF SmpInv

LEMMA AliveKeeps ==
  ASSUME SmpInv, NEW c \in Sm!Cores, Sm!CoreAlive(c)
  PROVE  SmpInv'
<1>1. PICK e : e = [pc |-> IF X86 THEN "alive" ELSE "test", stack |-> core[c].stack, id |-> core[c].id]
  OBVIOUS
<1>2. core[c].pc = "loaded" /\ boot.pc = "alive" /\ c = Target /\ core[c] \in Status
  BY DEF Sm!CoreAlive, SmpInv, OneAtATime, StatusOK, Status
<1>3. /\ core' = [core EXCEPT ![c] = e] /\ e \in Status
      /\ param' = [param EXCEPT !.alive = TRUE] /\ UNCHANGED <<online, machine, boot, roster, low, freed>>
  <2>1. core' = [core EXCEPT ![c].pc = IF X86 THEN "alive" ELSE "test"]
    BY DEF Sm!CoreAlive, X86, Sm!X86
  <2>2. e = [core[c] EXCEPT !.pc = IF X86 THEN "alive" ELSE "test"]
    BY <1>1, <1>2 DEF Status
  <2>3. e \in Status
    BY <1>1, <1>2 DEF Status
  <2> QED BY <2>1, <2>2, <2>3 DEF Sm!CoreAlive
<1>4. OnlyCore(c, e) /\ e.pc \notin {"off", "kicked", "loaded"} /\ (X86 <=> e.pc = "alive")
      /\ e.stack = core[c].stack /\ e.id = core[c].id
  BY <1>1, <1>3 DEF OnlyCore
<1>5. /\ core' \in [Sm!Cores -> Status] /\ core'[c] = e
      /\ \A d \in Sm!Cores : d # c => core'[d] = core[d]
      /\ UNCHANGED <<List, Target, X86, Silent, Waiting, machine, boot, roster, low, freed>>
      /\ Asked' /\ Mapped' /\ c \notin Silent /\ Len(List) \in Nat
  BY <1>2, <1>4, OthersStay
<1>6. param' \in [stack : Nat, id : Nat, alive : BOOLEAN] /\ param'.stack = param.stack /\ param'.id = param.id
  BY <1>3 DEF SmpInv, StatusOK
<1>7. StatusOK'
  BY <1>3, <1>5, <1>6 DEF SmpInv, StatusOK, Status
<1>8. OneAtATime'
  BY <1>2, <1>4, <1>5 DEF SmpInv, OneAtATime, Waiting
<1>9. Block'
  BY <1>5, <1>6 DEF SmpInv, Block, Enrols, Sm!NextId, Sm!Target
<1>10. \A d : (d \in Running) <=> (d \in Running)'
  BY <1>2, <1>4, <1>5 DEF Running
<1>11. \A d \in Running : core'[d].stack = core[d].stack /\ core'[d].id = core[d].id
  BY <1>4, <1>5 DEF Running
<1>12. StacksKept'
  BY <1>5, <1>10, <1>11 DEF SmpInv, StacksKept
<1>13. Numbers'
  <2>1. \A d \in Running : (core'[d].pc \in {"loaded", "alive"} /\ X86) => core[d].pc \in {"loaded", "alive"}
    BY <1>2, <1>5 DEF Running
  <2> QED BY <1>5, <1>10, <1>11, <2>1 DEF SmpInv, Numbers, Enrols
<1>14. Counted'
  BY <1>2, <1>3, <1>4, <1>5 DEF SmpInv, Counted, Unnumbered
<1> QED BY <1>5, <1>7, <1>8, <1>9, <1>12, <1>13, <1>14 DEF SmpInv

LEMMA NumbersKeep ==
  ASSUME SmpInv, NEW c \in Sm!Cores, Sm!CoreNumbers(c)
  PROVE  SmpInv'
<1>1. PICK e : e = [[core[c] EXCEPT !.pc = "store"] EXCEPT !.id = online + 1]
  OBVIOUS
<1>2. /\ core[c].pc = "alive" /\ X86 /\ Waiting /\ c = Target /\ core[c] \in Status
      /\ online \in Nat /\ boot.started \in Nat
  BY DEF Sm!CoreNumbers, SmpInv, OneAtATime, StatusOK, Status
<1>3. OnlyCore(c, e) /\ online' = online + 1 /\ UNCHANGED param
  <2>2. e \in Status
    <3>1. PICK a \in Status : a = [core[c] EXCEPT !.pc = "store"]
      BY <1>2 DEF Status
    <3>2. [a EXCEPT !.id = online + 1] \in Status
      <4>1. PICK k \in Nat : k = online + 1
        BY <1>2
      <4> QED BY <4>1 DEF Status
    <3> QED BY <1>1, <3>1, <3>2
  <2>3. core' = [core EXCEPT ![c] = e]
    <3>1. core' = [core EXCEPT ![c].pc = "store", ![c].id = online + 1]
      BY DEF Sm!CoreNumbers
    <3>2. DOMAIN core = Sm!Cores
      BY DEF SmpInv, StatusOK
    <3> QED BY <1>1, <3>1, <3>2
  <2> QED BY <2>2, <2>3 DEF Sm!CoreNumbers, OnlyCore
<1>4. e.pc = "store" /\ e.stack = core[c].stack /\ e.id = online + 1
  BY <1>1, <1>2 DEF Status
<1>5. /\ core' \in [Sm!Cores -> Status] /\ core'[c] = e
      /\ \A d \in Sm!Cores : d # c => core'[d] = core[d]
      /\ UNCHANGED <<List, Target, X86, Silent, Waiting, machine, boot, roster, low, freed>>
      /\ Asked' /\ Mapped' /\ c \notin Silent /\ Len(List) \in Nat
  BY <1>2, <1>3, <1>4, OthersStay
<1>6. StatusOK'
  BY <1>2, <1>3, <1>5 DEF SmpInv, StatusOK, Status
<1>7. OneAtATime'
  BY <1>3, <1>4, <1>5 DEF SmpInv, OneAtATime
<1>8. Block'
  BY <1>3, <1>5 DEF SmpInv, Block, Enrols, Sm!NextId, Sm!Target
<1>9. \A d : (d \in Running) <=> (d \in Running)'
  BY <1>2, <1>4, <1>5 DEF Running
<1>10. StacksKept'
  BY <1>4, <1>5, <1>9 DEF SmpInv, StacksKept, Running
<1>11. online = IF boot.pc = "alive" THEN boot.started ELSE boot.started - 1
  BY <1>2 DEF SmpInv, Counted, Unnumbered, Waiting
<1>12. Numbers'
  <2>1. machine.port # "arm"
    BY <1>2 DEF X86
  <2>2. CASE boot.pc = "alive"
    BY <1>2, <1>4, <1>5, <1>9, <1>11, <2>1, <2>2 DEF SmpInv, Numbers, Enrols, Running
  <2>3. CASE boot.pc = "enter"
    BY <1>2, <1>4, <1>5, <1>9, <1>11, <2>1, <2>3 DEF SmpInv, Numbers, Enrols, Running
  <2> QED BY <1>2, <2>2, <2>3 DEF Waiting
<1>13. Counted'
  BY <1>2, <1>3, <1>4, <1>5, <1>11 DEF Counted, Unnumbered, Waiting
<1> QED BY <1>5, <1>6, <1>7, <1>8, <1>10, <1>12, <1>13 DEF SmpInv

(* A numbered core goes on.                                                 *)
LEMMA Settles ==
  ASSUME SmpInv, NEW c \in Sm!Cores, NEW pc \in {"store", "counted", "up"}, core[c].pc \in {"test", "store", "counted"},
         core' = [core EXCEPT ![c].pc = pc], UNCHANGED <<machine, boot, param, online, roster, low, freed>>
  PROVE  SmpInv'
<1>1. PICK e : e = [core[c] EXCEPT !.pc = pc]
  OBVIOUS
<1>2. OnlyCore(c, e) /\ e.pc = pc /\ e.stack = core[c].stack /\ e.id = core[c].id
  BY <1>1 DEF OnlyCore, SmpInv, StatusOK, Status
<1>3. /\ core' \in [Sm!Cores -> Status] /\ core'[c] = e
      /\ \A d \in Sm!Cores : d # c => core'[d] = core[d]
      /\ UNCHANGED <<List, Target, X86, Silent, Waiting, machine, boot, roster, low, freed>>
      /\ Asked' /\ Mapped' /\ c \notin Silent /\ Len(List) \in Nat
  BY <1>2, OthersStay
<1>4. StatusOK'
  BY <1>3 DEF SmpInv, StatusOK, Status
<1>5. OneAtATime'
  BY <1>2, <1>3 DEF SmpInv, OneAtATime
<1>6. Block'
  BY <1>3 DEF SmpInv, Block, Enrols, Sm!NextId, Sm!Target
<1>7. \A d : (d \in Running) <=> (d \in Running)'
  BY <1>2, <1>3 DEF Running
<1>8. \A d \in Running : core'[d].stack = core[d].stack /\ core'[d].id = core[d].id
  BY <1>2, <1>3 DEF Running
<1>9. StacksKept'
  BY <1>3, <1>7, <1>8 DEF SmpInv, StacksKept
<1>10. Numbers'
  BY <1>2, <1>3, <1>7, <1>8 DEF SmpInv, Numbers, Enrols
<1>11. Unnumbered' = Unnumbered
  BY <1>2, <1>3 DEF Unnumbered
<1>12. Counted'
  BY <1>3, <1>11 DEF SmpInv, Counted
<1> QED BY <1>3, <1>4, <1>5, <1>6, <1>9, <1>10, <1>12 DEF SmpInv

LEMMA CoresKeep ==
  ASSUME SmpInv, NEW c \in Sm!Cores,
         \/ Sm!CoreLoads(c) \/ Sm!CoreAlive(c) \/ Sm!CoreNumbers(c)
         \/ Sm!CoreTests(c) \/ Sm!CoreCounts(c) \/ Sm!CoreReports(c)
  PROVE  SmpInv'
<1>1. CASE Sm!CoreTests(c)
  <2>1. PICK pc \in {"store", "up"} : core' = [core EXCEPT ![c].pc = pc]
    BY <1>1 DEF Sm!CoreTests
  <2> QED BY <1>1, <2>1, Settles DEF Sm!CoreTests
<1>2. CASE Sm!CoreCounts(c)
  <2>1. PICK pc \in {"counted", "up"} : core' = [core EXCEPT ![c].pc = pc]
    BY <1>2 DEF Sm!CoreCounts
  <2> QED BY <1>2, <2>1, Settles DEF Sm!CoreCounts
<1>3. CASE Sm!CoreReports(c)
  BY <1>3, Settles DEF Sm!CoreReports
<1> QED BY <1>1, <1>2, <1>3, LoadsKeep, AliveKeeps, NumbersKeep

Turns == [pc : {"next", "alive", "enter", "roster", "done"}, at : Nat \ {0}, started : Nat]
Blocks == [stack : Nat, id : Nat, alive : BOOLEAN]

(* Once the core to wait for has its number, or never will, the boot core   *)
(* leaves it: nobody is on the way to the block, and all are numbered.      *)
Leaves(pc, n, fr) ==
  /\ boot' \in Turns /\ boot'.pc = pc /\ boot'.at = n /\ boot'.started = boot.started
  /\ pc \in {"next", "roster", "done"} /\ n \in {boot.at, boot.at + 1}
  /\ freed' = fr
  /\ UNCHANGED <<machine, core, online>>
  /\ Waiting => n = boot.at + 1 \/ core[Target].pc = "off"
  /\ boot.pc = "alive" => core[Target].pc = "off"
  /\ param' \in Blocks
  /\ \A c, i : i <= boot.started /\ Enrols(c, i) => i \in DOMAIN roster' /\ roster'[i] = c

LEMMA LeavesKeeps ==
  ASSUME SmpInv, NEW pc, NEW n, NEW fr, Leaves(pc, n, fr),
         fr = freed \/ (fr = freed \union {boot.at} /\ boot.at \in 1..Len(List) /\ Target \in Silent),
         Waiting => core[Target].pc \notin {"kicked", "loaded", "alive"} /\ (X86 => online = boot.started),
         X86 /\ ~low' => pc = "done" \/ List = <<>>
  PROVE  SmpInv'
<1>1. /\ boot'.pc = pc /\ boot'.at = n /\ boot'.started = boot.started /\ ~Waiting'
      /\ UNCHANGED <<machine, core, online, List, Silent, X86>>
  BY DEF Leaves, Waiting, List, Silent, X86
<1>2. /\ boot.at \in Nat \ {0} /\ boot.started \in Nat /\ n \in Nat \ {0} /\ n >= boot.at
      /\ (Waiting => n = boot.at + 1 \/ core[Target].pc = "off")
  BY DEF Leaves, SmpInv, StatusOK
<1>3. StatusOK'
  BY <1>1 DEF Leaves, SmpInv, StatusOK, Turns, Blocks
<1>4. \A c \in Sm!Cores : core[c].pc \notin {"kicked", "loaded", "alive"}
  BY DEF SmpInv, OneAtATime, Waiting
<1>5. Asked'
  <2>1. ASSUME NEW c \in Sm!Cores, core[c].pc # "off"
        PROVE  c \notin Silent /\ \E j \in 1..Len(List) : List[j] = c /\ j < n
    <3>1. PICK j \in 1..Len(List) : List[j] = c /\ (j < boot.at \/ (Waiting /\ j = boot.at))
      BY <2>1 DEF SmpInv, Asked
    <3>2. CASE j < boot.at
      BY <1>2, <2>1, <3>1, <3>2 DEF SmpInv, Asked
    <3>3. CASE Waiting /\ j = boot.at
      <4>1. c = Target
        BY <3>1, <3>3 DEF Target, List
      <4>2. n = boot.at + 1
        BY <1>2, <2>1, <3>3, <4>1
      <4> QED BY <1>2, <2>1, <3>1, <3>3, <4>2 DEF SmpInv, Asked
    <3> QED BY <3>1, <3>2, <3>3
  <2> QED BY <1>1, <2>1 DEF Asked
<1>6. OneAtATime'
  BY <1>1, <1>4 DEF OneAtATime
<1>7. Block'
  BY <1>1 DEF Block, Leaves
<1>8. StacksKept'
  BY <1>1 DEF Leaves, SmpInv, StacksKept, Running, Target, List
<1>9. Numbers'
  <2>1. Running' = Running
    BY <1>1 DEF Running
  <2>2. boot.pc = "alive" => Target \notin Running
    BY DEF Leaves, Running
  <2>3. ASSUME NEW c \in Running, machine.port # "arm", core[c].id # 0
        PROVE  core[c].id <= boot.started /\ Enrols(c, core[c].id)'
    BY <2>2, <2>3 DEF Leaves, SmpInv, Numbers, Enrols
  <2> QED BY <1>1, <2>1, <2>3 DEF SmpInv, Numbers, Waiting
<1>10. Counted'
  BY <1>1 DEF SmpInv, Counted, Waiting
<1>11. Mapped'
  BY <1>1 DEF Mapped
<1> QED BY <1>3, <1>5, <1>6, <1>7, <1>8, <1>9, <1>10, <1>11 DEF SmpInv

(* A step that leaves boot.started changes one or two fields of boot.       *)
LEMMA TurnMoves ==
  ASSUME SmpInv, NEW pc \in {"next", "alive", "enter", "roster", "done"},
         \/ boot' = [boot EXCEPT !.pc = pc]
         \/ boot' = [boot EXCEPT !.pc = pc, !.at = @ + 1]
  PROVE  boot' \in Turns /\ boot'.pc = pc /\ boot'.at \in {boot.at, boot.at + 1} /\ boot'.started = boot.started
         /\ (boot' = [boot EXCEPT !.pc = pc] => boot'.at = boot.at)
         /\ (boot' = [boot EXCEPT !.pc = pc, !.at = @ + 1] => boot'.at = boot.at + 1)
<1>1. boot \in Turns
  BY DEF SmpInv, StatusOK, Turns
<1>2. CASE boot' = [boot EXCEPT !.pc = pc]
  <2>1. boot' \in Turns /\ boot'.pc = pc /\ boot'.at = boot.at /\ boot'.started = boot.started
    BY <1>1, <1>2 DEF Turns
  <2>2. boot.at # boot.at + 1
    BY <1>1 DEF Turns
  <2>3. boot' = [boot EXCEPT !.pc = pc, !.at = @ + 1] => boot'.at = boot.at + 1
    BY <1>1 DEF Turns
  <2> QED BY <2>1, <2>3
<1>3. CASE boot' = [boot EXCEPT !.pc = pc, !.at = @ + 1]
  <2>1. PICK n \in Nat \ {0} : n = boot.at + 1
    BY <1>1 DEF Turns
  <2>2. PICK b \in Turns : b = [boot EXCEPT !.pc = pc] /\ b.pc = pc /\ b.at = boot.at /\ b.started = boot.started
    BY <1>1 DEF Turns
  <2>3. boot' = [b EXCEPT !.at = n]
    BY <1>3, <2>1, <2>2
  <2>4. boot' \in Turns /\ boot'.pc = pc /\ boot'.at = n /\ boot'.started = boot.started
    BY <2>2, <2>3 DEF Turns
  <2>5. boot' = [boot EXCEPT !.pc = pc] => boot'.at = boot.at
    BY <1>1 DEF Turns
  <2> QED BY <2>1, <2>4, <2>5
<1> QED BY <1>2, <1>3

(* The block for the next core, and its number on the roster.               *)
LEMMA Prepares ==
  ASSUME Sm!SmpAssumption, SmpInv, boot.pc = "next", boot.at <= Len(List)
  PROVE  /\ boot.at \in 1..Len(List) /\ Target \in Sm!Cores /\ Target \in Nat /\ Sm!NextId \in Nat
         /\ Sm!Params \in Blocks /\ ~Sm!Params.alive /\ Sm!Params.stack = boot.at
         /\ Sm!Params.id = IF X86 THEN 0 ELSE Sm!NextId
         /\ machine.port = "riscv" =>
              /\ Sm!NextId = boot.started + 1 /\ Sm!NextId \in DOMAIN Sm!Enrolled /\ Sm!Enrolled[Sm!NextId] = Target
              /\ \A c, i : i <= boot.started /\ Enrols(c, i) => i \in DOMAIN Sm!Enrolled /\ Sm!Enrolled[i] = c
<1>1. boot.at \in 1..Len(List) /\ boot.started \in Nat /\ boot.at \in Nat
  BY DEF SmpInv, StatusOK
<1>2. Target \in Sm!Cores /\ Target = Sm!Target
  BY <1>1 DEF SmpInv, StatusOK, Target, Sm!Target, List
<1>3. Target \in Nat
  BY <1>2 DEF Sm!Cores, Sm!SmpAssumption
<1>4. Sm!NextId \in Nat /\ (machine.port # "arm" => Sm!NextId = boot.started + 1)
  BY <1>1, <1>2, <1>3 DEF Sm!NextId
<1>5. PICK k \in Nat : k = IF X86 THEN 0 ELSE Sm!NextId
  BY <1>4
<1>6. Sm!Params = [stack |-> boot.at, id |-> k, alive |-> FALSE]
  BY <1>5 DEF Sm!Params, X86, Sm!X86
<1>7. Sm!Params \in Blocks /\ ~Sm!Params.alive /\ Sm!Params.stack = boot.at /\ Sm!Params.id = k
  BY <1>1, <1>6 DEF Blocks
<1>8. ASSUME machine.port = "riscv"
      PROVE  /\ Sm!NextId = boot.started + 1 /\ Sm!NextId \in DOMAIN Sm!Enrolled /\ Sm!Enrolled[Sm!NextId] = Target
             /\ \A c, i : i <= boot.started /\ Enrols(c, i) => i \in DOMAIN Sm!Enrolled /\ Sm!Enrolled[i] = c
  <2>1. PICK m : m = Sm!NextId /\ m = boot.started + 1
    BY <1>4, <1>8
  <2>2. Sm!Enrolled = [i \in DOMAIN roster \union {m} |-> IF i = m THEN Target ELSE roster[i]]
    BY <1>2, <2>1 DEF Sm!Enrolled
  <2>3. \A i : i <= boot.started => i # m
    BY <1>1, <2>1
  <2> QED BY <2>1, <2>2, <2>3 DEF Enrols
<1> QED BY <1>1, <1>2, <1>3, <1>4, <1>5, <1>7, <1>8

(* The startup call: the core is on its way, or mute, and has the block.    *)
LEMMA KickKeeps ==
  ASSUME Sm!SmpAssumption, SmpInv, boot.pc = "next", boot.at <= Len(List),
         Target \notin machine.absent, param' = Sm!Params,
         roster' = IF machine.port = "riscv" THEN Sm!Enrolled ELSE roster,
         core' = IF Target \in machine.mute THEN core ELSE [core EXCEPT ![Target].pc = "kicked"],
         boot' = [boot EXCEPT !.pc = "alive"], UNCHANGED <<machine, online, reported, count, low, freed>>
  PROVE  SmpInv'
<1>1. /\ boot.at \in 1..Len(List) /\ Target \in Sm!Cores /\ Target \in Nat /\ Sm!NextId \in Nat
      /\ Sm!Params \in Blocks /\ ~Sm!Params.alive /\ Sm!Params.stack = boot.at
      /\ Sm!Params.id = IF X86 THEN 0 ELSE Sm!NextId
      /\ machine.port = "riscv" =>
           /\ Sm!NextId = boot.started + 1 /\ Sm!NextId \in DOMAIN Sm!Enrolled /\ Sm!Enrolled[Sm!NextId] = Target
           /\ \A c, i : i <= boot.started /\ Enrols(c, i) => i \in DOMAIN Sm!Enrolled /\ Sm!Enrolled[i] = c
  BY Prepares
<1>2. boot' \in Turns /\ boot'.pc = "alive" /\ boot'.at = boot.at /\ boot'.started = boot.started
  BY TurnMoves
<1>3. UNCHANGED <<List, Target, X86, Silent>> /\ Waiting' /\ ~Waiting
  BY <1>2 DEF List, Target, X86, Silent, Waiting
<1>4. core[Target].pc = "off"
  <2> SUFFICES ASSUME core[Target].pc # "off" PROVE FALSE
    OBVIOUS
  <2>1. PICK j \in 1..Len(List) : List[j] = Target /\ j < boot.at
    BY <1>1, <1>3 DEF SmpInv, Asked
  <2>2. List \in Seq(Sm!Cores) /\ IsInjective(List) /\ Target = List[boot.at]
    BY DEF SmpInv, StatusOK, Target, List
  <2>3. DOMAIN List = 1..Len(List) /\ boot.at \in Nat
    BY <1>1, <2>2 DEF SmpInv, StatusOK
  <2> QED BY <1>1, <2>1, <2>2, <2>3 DEF IsInjective
<1>5. /\ core' \in [Sm!Cores -> Status]
      /\ \A c \in Sm!Cores : c # Target => core'[c] = core[c]
      /\ core'[Target].pc \in {"off", "kicked"}
      /\ Target \in machine.mute => core'[Target].pc = "off"
  <2>1. core \in [Sm!Cores -> Status] /\ core[Target] \in Status
    BY <1>1 DEF SmpInv, StatusOK, Status
  <2>2. CASE Target \in machine.mute
    BY <1>4, <2>1, <2>2
  <2>3. CASE Target \notin machine.mute
    <3>1. core' = [core EXCEPT ![Target] = [core[Target] EXCEPT !.pc = "kicked"]]
      BY <2>3
    <3>2. [core[Target] EXCEPT !.pc = "kicked"] \in Status /\ [core[Target] EXCEPT !.pc = "kicked"].pc = "kicked"
      BY <2>1 DEF Status
    <3> QED BY <1>1, <2>1, <2>3, <3>1, <3>2
  <2> QED BY <2>2, <2>3
<1>6. StatusOK'
  BY <1>1, <1>2, <1>3, <1>5 DEF SmpInv, StatusOK, Turns, Blocks, Status
<1>7. Asked'
  <2>1. ASSUME NEW c \in Sm!Cores, core'[c].pc # "off"
        PROVE  c \notin Silent /\ \E j \in 1..Len(List) : List[j] = c /\ (j < boot.at \/ j = boot.at)
    <3>1. CASE c = Target
      BY <1>1, <1>5, <2>1, <3>1 DEF Silent, Target, List
    <3>2. CASE c # Target
      BY <1>3, <1>5, <2>1, <3>2 DEF SmpInv, Asked
    <3> QED BY <3>1, <3>2
  <2> QED BY <1>2, <1>3, <2>1 DEF Asked
<1>8. OneAtATime'
  <2>1. \A c \in Sm!Cores : core[c].pc \notin {"kicked", "loaded", "alive"}
    BY <1>3 DEF SmpInv, OneAtATime, Waiting
  <2> QED BY <1>1, <1>2, <1>3, <1>5, <2>1 DEF OneAtATime
<1>9. Block'
  <2>1. Sm!NextId' = Sm!NextId
    BY <1>2 DEF Sm!NextId, Sm!Target
  <2> QED BY <1>1, <1>2, <1>3, <2>1 DEF Block, Enrols
<1>10. \A c : (c \in Running)' <=> (c \in Running)
  BY <1>1, <1>4, <1>5 DEF Running
<1>11. \A c \in Running : core'[c] = core[c]
  BY <1>4, <1>5 DEF Running
<1>12. StacksKept'
  BY <1>3, <1>10, <1>11 DEF SmpInv, StacksKept
<1>13. Numbers'
  <2>1. ASSUME NEW c \in Running, machine.port # "arm", core[c].id # 0
        PROVE  core[c].id <= boot.started /\ Enrols(c, core[c].id)'
    BY <1>1, <2>1 DEF SmpInv, Numbers, Enrols
  <2> QED BY <1>2, <1>3, <1>10, <1>11, <2>1 DEF SmpInv, Numbers
<1>14. Counted'
  <2>1. Unnumbered'
    BY <1>3, <1>5 DEF Unnumbered
  <2>2. X86 => online = boot.started
    BY <1>3 DEF SmpInv, Counted
  <2> QED BY <1>2, <1>3, <2>1, <2>2 DEF Counted
<1>15. Mapped'
  BY <1>1, <1>3 DEF SmpInv, Mapped
<1> QED BY <1>6, <1>7, <1>8, <1>9, <1>12, <1>13, <1>14, <1>15 DEF SmpInv

LEMMA LaunchKeeps ==
  ASSUME Sm!SmpAssumption, SmpInv, Sm!Launch
  PROVE  SmpInv'
<1>1. boot.pc = "next" /\ boot.at <= Len(List) /\ ~Waiting /\ UNCHANGED <<machine, online, reported, count, low>>
  BY DEF Sm!Launch, List, Waiting
<1>2. Sm!Target = Target
  BY DEF Sm!Target, Target
<1>3. boot.at \in 1..Len(List) /\ (X86 /\ ~low' => List = <<>>)
  BY <1>1, Prepares DEF SmpInv, Mapped
<1>4. ASSUME boot' = [boot EXCEPT !.pc = "roster"], UNCHANGED <<param, core, roster, freed>> PROVE SmpInv'
  <2>1. boot' \in Turns /\ boot'.pc = "roster" /\ boot'.at = boot.at /\ boot'.started = boot.started
    BY <1>4, TurnMoves
  <2>2. param' \in Blocks
    BY <1>4 DEF SmpInv, StatusOK, Blocks
  <2>3. Leaves("roster", boot.at, freed)
    BY <1>1, <1>4, <2>1, <2>2 DEF Leaves, Enrols
  <2> QED BY <1>1, <1>3, <2>3, LeavesKeeps
<1>5. ASSUME Target \in machine.absent, boot' = [boot EXCEPT !.pc = "roster"],
             freed' = freed \union {boot.at}, param' = Sm!Params,
             roster' = IF machine.port = "riscv" THEN Sm!Enrolled ELSE roster, UNCHANGED core
      PROVE  SmpInv'
  <2>1. boot' \in Turns /\ boot'.pc = "roster" /\ boot'.at = boot.at /\ boot'.started = boot.started
    BY <1>5, TurnMoves
  <2>2. /\ param' \in Blocks
        /\ \A c, i : i <= boot.started /\ Enrols(c, i) => i \in DOMAIN roster' /\ roster'[i] = c
    BY <1>1, <1>5, Prepares DEF Enrols
  <2>3. Leaves("roster", boot.at, freed \union {boot.at})
    BY <1>1, <1>5, <2>1, <2>2 DEF Leaves
  <2>4. Target \in Silent
    BY <1>5 DEF Silent
  <2> QED BY <1>1, <1>3, <2>3, <2>4, LeavesKeeps
<1> QED BY <1>1, <1>2, <1>4, <1>5, KickKeeps DEF Sm!Launch

(* The core that was waited for is there.                                   *)
LEMMA SeesAliveKeeps ==
  ASSUME Sm!SmpAssumption, SmpInv, Sm!SeesAlive
  PROVE  SmpInv'
<1>1. /\ boot.pc = "alive" /\ param.alive /\ Waiting
      /\ roster' = IF X86 THEN Sm!Enrolled ELSE roster
      /\ UNCHANGED <<machine, param, core, online, low, freed>>
  BY DEF Sm!SeesAlive, Waiting, X86, Sm!X86
<1>2. boot.at \in 1..Len(List) /\ boot.at \in Nat \ {0} /\ boot.started \in Nat /\ Len(List) \in Nat
  BY <1>1 DEF SmpInv, StatusOK
<1>3. PICK n \in Nat \ {0}, k \in Nat : n = boot.at + (IF X86 THEN 0 ELSE 1) /\ k = boot.started + 1
  BY <1>2
<1>4. boot' = [pc |-> IF X86 THEN "enter" ELSE "next", at |-> n, started |-> k]
  BY <1>3 DEF Sm!SeesAlive, X86, Sm!X86
<1>5. /\ boot' \in Turns /\ boot'.at = n /\ boot'.started = k
      /\ (X86 => boot'.pc = "enter") /\ (~X86 => boot'.pc = "next")
  BY <1>4 DEF Turns
<1>6. UNCHANGED <<List, X86, Silent>> /\ (Waiting' <=> X86) /\ (X86 => Target' = Target) /\ Target = Sm!Target
      /\ (X86 => n = boot.at) /\ (~X86 => n = boot.at + 1)
  BY <1>1, <1>2, <1>3, <1>5 DEF List, X86, Silent, Waiting, Target, Sm!Target
<1>7. \A c \in Sm!Cores : /\ core[c].pc \notin {"kicked", "loaded"}
                          /\ core[c].pc = "alive" => X86 /\ c = Target
  BY <1>1 DEF SmpInv, OneAtATime
<1>8. StatusOK'
  BY <1>1, <1>2, <1>5, <1>6 DEF SmpInv, StatusOK, Turns
<1>9. Asked'
  <2>1. ASSUME NEW c \in Sm!Cores, core[c].pc # "off"
        PROVE  c \notin Silent /\ \E j \in 1..Len(List) : List[j] = c /\ (j < n \/ (X86 /\ j = n))
    <3>1. PICK j \in 1..Len(List) : List[j] = c /\ (j < boot.at \/ j = boot.at) /\ c \notin Silent
      BY <2>1 DEF SmpInv, Asked
    <3>2. j < n \/ (X86 /\ j = n)
      BY <1>2, <1>6, <3>1
    <3> QED BY <3>1, <3>2
  <2> QED BY <1>1, <1>5, <1>6, <2>1 DEF Asked
<1>10. OneAtATime'
  BY <1>1, <1>6, <1>7 DEF OneAtATime
<1>11. Block'
  BY <1>5 DEF Block
<1>12. StacksKept'
  BY <1>1, <1>6 DEF SmpInv, StacksKept, Running
<1>13. Numbers'
  <2>1. X86 => Sm!NextId = k
    BY <1>3 DEF X86, Sm!NextId
  <2>2. ASSUME X86 PROVE k \in DOMAIN roster' /\ roster'[k] = Target
    <3>1. Sm!NextId \in DOMAIN Sm!Enrolled /\ Sm!Enrolled[Sm!NextId] = Sm!Target
      BY DEF Sm!Enrolled
    <3> QED BY <1>1, <1>6, <2>1, <2>2, <3>1
  <2>3. ASSUME machine.port = "riscv" PROVE k \in DOMAIN roster' /\ roster'[k] = Target
    BY <1>1, <1>3, <2>3 DEF SmpInv, Block, Enrols, X86
  <2>4. \A c, i : i <= boot.started /\ Enrols(c, i) => i \in DOMAIN roster' /\ roster'[i] = c
    <3>1. \A i : i <= boot.started => i # k
      BY <1>2, <1>3
    <3>2. CASE X86
      <4>1. Sm!Enrolled = [i \in DOMAIN roster \union {k} |-> IF i = k THEN Sm!Target ELSE roster[i]]
        BY <2>1, <3>2 DEF Sm!Enrolled
      <4> QED BY <1>1, <3>1, <3>2, <4>1 DEF Enrols
    <3>3. CASE ~X86
      BY <1>1, <3>3 DEF Enrols
    <3> QED BY <3>2, <3>3
  <2>5. machine.port = "arm" \/ X86 \/ machine.port = "riscv"
    BY DEF SmpInv, StatusOK, X86
  <2>6. ASSUME NEW c \in Running, machine.port # "arm", core[c].id # 0
        PROVE  core[c].id <= k /\ core[c].id \in DOMAIN roster' /\ roster'[core[c].id] = c
    <3>1. core[c].id \in Nat
      BY DEF SmpInv, StatusOK, Running
    <3>2. CASE core[c].id <= boot.started /\ Enrols(c, core[c].id)
      BY <1>2, <1>3, <2>4, <3>1, <3>2
    <3>3. CASE core[c].id = boot.started + 1 /\ c = Target
      BY <1>3, <2>2, <2>3, <2>5, <2>6, <3>1, <3>3
    <3> QED BY <2>6, <3>2, <3>3 DEF SmpInv, Numbers
  <2>7. Running' = Running
    BY <1>1 DEF Running
  <2>8. boot'.pc = "enter" => Enrols(Target, boot.started)'
    BY <1>5, <1>6, <2>2 DEF Enrols
  <2> QED BY <1>1, <1>5, <1>6, <2>6, <2>7, <2>8 DEF SmpInv, Numbers, Enrols
<1>14. Counted'
  <2>1. ASSUME X86 PROVE online = IF Unnumbered THEN boot.started ELSE boot.started + 1
    BY <1>1, <2>1 DEF SmpInv, Counted
  <2>2. X86 => (Unnumbered' <=> Unnumbered)
    BY <1>1, <1>6 DEF Unnumbered
  <2> QED BY <1>1, <1>2, <1>3, <1>5, <1>6, <2>1, <2>2 DEF Counted
<1>15. Mapped'
  BY <1>1, <1>2, <1>6 DEF SmpInv, Mapped
<1> QED BY <1>8, <1>9, <1>10, <1>11, <1>12, <1>13, <1>14, <1>15 DEF SmpInv

(* The boot core leaves a core that never comes, or one that came.          *)
LEMMA LeavingKeeps ==
  ASSUME Sm!SmpAssumption, ~Late, SmpInv, Sm!GiveUp \/ Sm!SeesEntered \/ Sm!Finish
  PROVE  SmpInv'
<1>1. param \in Blocks /\ boot.at \in Nat \ {0} /\ boot.started \in Nat /\ Sm!Target = Target /\ (Sm!X86 <=> X86)
  BY DEF SmpInv, StatusOK, Blocks, Sm!Target, Target, Sm!X86, X86
<1>2. Waiting => boot.at \in 1..Len(List) /\ Target \in Sm!Cores /\ List # <<>>
  BY <1>1 DEF SmpInv, StatusOK, Target, List
<1>3. CASE Sm!GiveUp
  <2>1. /\ boot.pc = "alive" /\ Target \in machine.mute /\ Target \in Silent
        /\ UNCHANGED <<machine, param, core, online, roster, low>>
        /\ \/ boot' = [boot EXCEPT !.pc = "next", !.at = @ + 1] /\ freed' = freed \union {boot.at}
           \/ boot' = [boot EXCEPT !.pc = "roster"] /\ UNCHANGED freed
    BY <1>1, <1>3 DEF Sm!GiveUp, Silent
  <2>2. core[Target].pc = "off" /\ Waiting
    BY <1>2, <2>1 DEF SmpInv, Asked, Waiting
  <2>3. X86 => online = boot.started
    BY <2>1, <2>2 DEF SmpInv, Counted, Unnumbered
  <2>4. X86 => low
    BY <1>2, <2>1, <2>2 DEF SmpInv, Mapped
  <2>5. PICK pc \in {"next", "roster"}, n \in {boot.at, boot.at + 1}, fr \in {freed, freed \union {boot.at}} :
          boot' \in Turns /\ boot'.pc = pc /\ boot'.at = n /\ boot'.started = boot.started /\ freed' = fr
    BY <2>1, TurnMoves
  <2>6. Leaves(pc, n, fr)
    BY <1>1, <2>1, <2>2, <2>5 DEF Leaves, Enrols
  <2> QED BY <1>2, <2>1, <2>2, <2>3, <2>4, <2>5, <2>6, LeavesKeeps
<1>4. CASE Sm!SeesEntered
  <2>1. /\ boot.pc = "enter" /\ online >= boot.started /\ Waiting
        /\ boot' = [boot EXCEPT !.pc = "next", !.at = @ + 1]
        /\ UNCHANGED <<machine, param, core, online, roster, low, freed>>
    BY <1>4 DEF Sm!SeesEntered, Sm!Entered, Waiting
  <2>2. X86 /\ online \in Nat
    BY <2>1 DEF SmpInv, StatusOK
  <2>3. ~Unnumbered /\ online = boot.started
    BY <1>1, <2>1, <2>2 DEF SmpInv, Counted
  <2>4. low
    BY <1>2, <2>1, <2>2 DEF SmpInv, Mapped
  <2>5. boot' \in Turns /\ boot'.pc = "next" /\ boot'.at = boot.at + 1 /\ boot'.started = boot.started
    BY <2>1, TurnMoves
  <2>6. Leaves("next", boot.at + 1, freed)
    BY <1>1, <2>1, <2>5 DEF Leaves, Enrols
  <2> QED BY <2>1, <2>3, <2>4, <2>6, LeavesKeeps DEF Unnumbered
<1>5. CASE Sm!Finish
  <2>1. /\ ~Waiting /\ boot' = [boot EXCEPT !.pc = "done"]
        /\ UNCHANGED <<machine, param, core, online, roster, freed>>
    BY <1>5 DEF Sm!Finish, Waiting
  <2>2. boot' \in Turns /\ boot'.pc = "done" /\ boot'.at = boot.at /\ boot'.started = boot.started
    BY <2>1, TurnMoves
  <2>3. Leaves("done", boot.at, freed)
    BY <1>1, <2>1, <2>2 DEF Leaves, Enrols, Waiting
  <2> QED BY <2>1, <2>3, LeavesKeeps
<1> QED BY <1>3, <1>4, <1>5

LEMMA SmpSteps == Sm!SmpAssumption /\ ~Late /\ SmpInv /\ [Sm!Next]_Sm!smpVars => SmpInv'
<1> SUFFICES ASSUME Sm!SmpAssumption, ~Late, SmpInv, [Sm!Next]_Sm!smpVars PROVE SmpInv'
  OBVIOUS
<1>1. CASE UNCHANGED Sm!smpVars
  BY <1>1 DEF Sm!smpVars, SmpInv, StatusOK, Asked, OneAtATime, Block, StacksKept, Numbers, Counted, Mapped,
              List, Target, X86, Silent, Waiting, Running, Enrols, Unnumbered, Sm!NextId, Sm!Target
<1> QED BY <1>1, CoresKeep, LaunchKeeps, SeesAliveKeeps, LeavingKeeps DEF Sm!Next

(* The order to ask in names each core once.                                *)
LEMMA UsableApart ==
  ASSUME Sm!SmpAssumption, NEW port \in {"x86", "arm", "riscv"}, NEW self \in Sm!Cores, NEW madt \in BOOLEAN,
         NEW enabled \in SUBSET Sm!Cores
  PROVE  Sm!Usable(port, self, madt, enabled) \in Seq(Sm!Cores) /\ IsInjective(Sm!Usable(port, self, madt, enabled))
<1>1. MaxCpus \in Nat \ {0} /\ Sm!Cores = 0..(MaxCpus - 1) /\ self \in Nat /\ self <= MaxCpus - 1
  BY DEF Sm!SmpAssumption, Sm!Cores
<1> DEFINE up == [i \in 1..(MaxCpus - 1) |-> i]
           skip == [i \in 1..(MaxCpus - 1) |-> IF i <= self THEN i - 1 ELSE i]
<1>2. up \in Seq(Sm!Cores) /\ IsInjective(up)
  <2>1. \A i \in 1..(MaxCpus - 1) : i \in Sm!Cores
    BY <1>1
  <2>2. up \in [1..(MaxCpus - 1) -> Sm!Cores]
    BY <2>1
  <2>3. MaxCpus - 1 \in Nat
    BY <1>1
  <2> QED BY <2>2, <2>3 DEF IsInjective
<1>3. skip \in Seq(Sm!Cores) /\ IsInjective(skip)
  <2>1. \A i \in 1..(MaxCpus - 1) : (IF i <= self THEN i - 1 ELSE i) \in Sm!Cores
    BY <1>1
  <2>2. skip \in [1..(MaxCpus - 1) -> Sm!Cores]
    BY <2>1
  <2>3. MaxCpus - 1 \in Nat
    BY <1>1
  <2>4. IsInjective(skip)
    BY <1>1 DEF IsInjective
  <2> QED BY <2>2, <2>3, <2>4
<1>4. Sm!SetToSeq(enabled \ {self}) \in Seq(Sm!Cores) /\ IsInjective(Sm!SetToSeq(enabled \ {self}))
  <2> DEFINE E == enabled \ {self}
             n == Cardinality(E)
  <2>1. IsFiniteSet(E)
    <3>1. IsFiniteSet(Sm!Cores)
      BY <1>1, FS_Interval
    <3> QED BY <3>1, FS_Subset
  <2>2. n \in Nat /\ ExistsBijection(1..n, E)
    BY <2>1, FS_CardinalityType
  <2>3. PICK f \in [1..n -> E] : IsInjective(f)
    BY <2>2 DEF ExistsBijection, Bijection, Injection, IsInjective
  <2>4. Sm!Cardinality(E) = n
    BY DEF Sm!Cardinality, Cardinality
  <2>5. Sm!SetToSeq(E) = CHOOSE g \in [1..n -> E] : IsInjective(g)
    BY <2>4 DEF Sm!SetToSeq, Sm!IsInjective, IsInjective
  <2> HIDE DEF E, n
  <2>6. Sm!SetToSeq(E) \in [1..n -> E] /\ IsInjective(Sm!SetToSeq(E))
    BY <2>3, <2>5
  <2>7. E \subseteq Sm!Cores
    BY DEF E
  <2>8. Sm!SetToSeq(E) \in Seq(Sm!Cores)
    <3>1. PICK g : g = Sm!SetToSeq(E)
      OBVIOUS
    <3>2. g \in [1..n -> Sm!Cores] /\ n \in Nat
      BY <2>2, <2>6, <2>7, <3>1
    <3> QED BY <3>1, <3>2
  <2> QED BY <2>6, <2>8 DEF E
<1>5. <<>> \in Seq(Sm!Cores) /\ IsInjective(<<>>)
  BY DEF IsInjective
<1> HIDE DEF up, skip
<1> QED BY <1>2, <1>3, <1>4, <1>5 DEF Sm!Usable, up, skip

LEMMA SmpStarts == Sm!SmpAssumption /\ Sm!Init => SmpInv
<1> SUFFICES ASSUME Sm!SmpAssumption, Sm!Init PROVE SmpInv
  OBVIOUS
<1>1. PICK port \in Ports, self \in Sm!Cores, madt \in BOOLEAN, enabled \in SUBSET Sm!Cores :
        machine.port = port /\ machine.list = Sm!Usable(port, self, madt, enabled)
  BY DEF Sm!Init
<1>2. port \in {"x86", "arm", "riscv"}
  BY DEF Sm!SmpAssumption
<1>3. List \in Seq(Sm!Cores) /\ IsInjective(List) /\ machine.port \in {"x86", "arm", "riscv"}
  BY <1>1, <1>2, UsableApart DEF List
<1>4. /\ boot = [pc |-> "next", at |-> 1, started |-> 0] /\ param = [stack |-> 0, id |-> 0, alive |-> FALSE]
      /\ core = [c \in Sm!Cores |-> [pc |-> "off", stack |-> 0, id |-> 0]]
      /\ online = 0 /\ freed = {} /\ low = (X86 /\ List # <<>>)
  BY DEF Sm!Init, X86, Sm!X86, List
<1>5. ~Waiting /\ Running = {} /\ StatusOK
  BY <1>3, <1>4 DEF Waiting, Running, StatusOK
<1>6. \A c \in Sm!Cores : core[c].pc = "off"
  BY <1>4
<1>7. Mapped
  BY <1>4 DEF Mapped
<1>8. Counted
  BY <1>4, <1>5 DEF Counted, Waiting
<1> QED BY <1>4, <1>5, <1>6, <1>7, <1>8 DEF SmpInv, Asked, OneAtATime, Block, StacksKept, Numbers

(* Cores that answer in time, or never, share nothing: each that runs has   *)
(* the stack of its turn and none was taken back, its number is its own and *)
(* leads back to it, and it has left the trampoline when the low map goes.  *)
THEOREM StartedCoresApart == Sm!SmpAssumption /\ ~Late /\ CoresSpec => []Sm!CoresApart
<1> SUFFICES ASSUME Sm!SmpAssumption, ~Late PROVE CoresSpec => []Sm!CoresApart
  OBVIOUS
<1>1. Sm!Init => SmpInv
  BY SmpStarts
<1>2. SmpInv /\ [Sm!Next]_Sm!smpVars => SmpInv'
  BY SmpSteps
<1>3. SmpInv => Sm!CoresApart
  BY InvApart
<1> QED BY <1>1, <1>2, <1>3, PTL DEF CoresSpec
-----------------------------------------------------------------------------
(* The attention cache.                                                     *)
(* The rank of the members of a finite set of numbers, which numbers them   *)
(* without gaps in their own order.                                         *)
Rank(K, i) == Cardinality({j \in K : j <= i})

(* Ranks run from one to the number of members, in order, each taken once.  *)
LEMMA Ranks ==
  ASSUME NEW K \in SUBSET Int, IsFiniteSet(K)
  PROVE  /\ \A i \in K : Rank(K, i) \in 1..Cardinality(K)
         /\ \A i, k \in K : i < k => Rank(K, i) < Rank(K, k)
         /\ \A n \in 1..Cardinality(K) : \E i \in K : Rank(K, i) = n
<1> DEFINE upto(i) == {j \in K : j <= i}
<1>1. /\ Cardinality(K) \in Nat
      /\ \A i : IsFiniteSet(upto(i)) /\ Cardinality(upto(i)) \in Nat /\ Cardinality(upto(i)) <= Cardinality(K)
  BY FS_CardinalityType, FS_Subset
<1>2. ASSUME NEW i \in K PROVE Rank(K, i) \in 1..Cardinality(K)
  <2>1. i \in upto(i)
    OBVIOUS
  <2>2. Cardinality(upto(i)) # 0
    BY <1>1, <2>1, FS_EmptySet
  <2>3. Rank(K, i) = Cardinality(upto(i))
    BY DEF Rank
  <2> HIDE DEF upto
  <2> QED BY <1>1, <2>2, <2>3
<1>3. ASSUME NEW i \in K, NEW k \in K, i < k PROVE Rank(K, i) < Rank(K, k)
  <2>1. upto(i) \in SUBSET upto(k) /\ k \in upto(k) /\ k \notin upto(i)
    <3>1. i \in Int /\ k \in Int /\ \A j \in K : j \in Int
      OBVIOUS
    <3>2. \A j \in K : j <= i => j <= k
      BY <1>3, <3>1
    <3>3. k <= k /\ ~ (k <= i)
      BY <1>3, <3>1
    <3> QED BY <3>2, <3>3
  <2>2. \A S, T : IsFiniteSet(S) /\ T \in SUBSET S =>
          Cardinality(T) <= Cardinality(S) /\ (Cardinality(S) = Cardinality(T) => S = T)
    BY FS_Subset
  <2>3. Cardinality(upto(i)) <= Cardinality(upto(k)) /\ Cardinality(upto(i)) # Cardinality(upto(k))
    <3> HIDE DEF upto
    <3> QED BY <1>1, <2>1, <2>2
  <2> QED BY <1>1, <2>3 DEF Rank
<1>4. ASSUME NEW n \in 1..Cardinality(K) PROVE \E i \in K : Rank(K, i) = n
  <2> DEFINE f == [i \in K |-> Rank(K, i)]
             T == 1..Cardinality(K)
  <2>1. f \in Injection(K, T)
    <3>1. f \in [K -> T]
      BY <1>2
    <3>2. ASSUME NEW i \in K, NEW k \in K, f[i] = f[k] PROVE i = k
      <4>1. Rank(K, i) = Rank(K, k) /\ Rank(K, i) \in Int
        BY <1>2, <3>2
      <4>2. i \in Int /\ k \in Int
        OBVIOUS
      <4> QED BY <1>3, <4>1, <4>2
    <3> HIDE DEF f
    <3> QED BY <3>1, <3>2 DEF Injection, IsInjective
  <2>2. IsFiniteSet(T) /\ Cardinality(T) = Cardinality(K)
    BY <1>1, FS_Interval
  <2>3. f \in Surjection(K, T)
    <3> HIDE DEF f, T
    <3> QED BY <2>1, <2>2, FS_Injection
  <2> QED BY <2>3 DEF Surjection
<1> QED BY <1>2, <1>3, <1>4

(* A sequence without some of its positions: what is left is in the order it was. *)
Rest(s, K) == [k \in 1..Cardinality(K) |-> s[CHOOSE i \in K : Rank(K, i) = k]]

(* What is left of a sequence keeps its order, each place at its rank.      *)
LEMMA RestOrdered ==
  ASSUME NEW S, NEW s \in Seq(S), NEW K \in SUBSET (1..Len(s)), NEW r, r = Rest(s, K)
  PROVE  /\ IsFiniteSet(K) /\ Cardinality(K) \in Nat
         /\ r \in Seq(S) /\ Len(r) = Cardinality(K)
         /\ \A i \in K : Rank(K, i) \in 1..Len(r) /\ r[Rank(K, i)] = s[i]
         /\ \A k \in 1..Len(r) : \E i \in K : Rank(K, i) = k
         /\ \A i, k \in K : i < k => Rank(K, i) < Rank(K, k)
<1> DEFINE at(k) == CHOOSE i \in K : Rank(K, i) = k
<1>1. Len(s) \in Int /\ Len(s) \in Nat /\ K \in SUBSET Int
  OBVIOUS
<1>2. IsFiniteSet(K) /\ Cardinality(K) \in Nat
  <2>1. IsFiniteSet(1..Len(s))
    BY <1>1, FS_Interval
  <2>2. IsFiniteSet(K)
    BY <2>1, FS_Subset
  <2> QED BY <2>2, FS_CardinalityType
<1>3. /\ \A i \in K : Rank(K, i) \in 1..Cardinality(K)
      /\ \A i, k \in K : i < k => Rank(K, i) < Rank(K, k)
      /\ \A n \in 1..Cardinality(K) : \E i \in K : Rank(K, i) = n
  BY <1>1, <1>2, Ranks
<1>4. \A k \in 1..Cardinality(K) : at(k) \in K /\ Rank(K, at(k)) = k
  <2> SUFFICES ASSUME NEW k \in 1..Cardinality(K) PROVE at(k) \in K /\ Rank(K, at(k)) = k
    OBVIOUS
  <2>1. \E i \in K : Rank(K, i) = k
    BY <1>3
  <2> QED BY <2>1, Zenon
<1>5. ASSUME NEW i \in K PROVE at(Rank(K, i)) = i
  <2> DEFINE j == at(Rank(K, i))
  <2> HIDE DEF at
  <2>1. j \in K /\ Rank(K, j) = Rank(K, i) /\ Rank(K, i) \in Int /\ j \in Int /\ i \in Int
    <3>1. Rank(K, i) \in 1..Cardinality(K)
      BY <1>3
    <3>2. j \in K /\ Rank(K, j) = Rank(K, i)
      BY <1>4, <3>1
    <3>3. Rank(K, i) \in Int /\ i \in Int
      BY <1>1, <1>2, <3>1
    <3> HIDE DEF j
    <3>4. j \in Int
      BY <1>1, <3>2
    <3> QED BY <3>2, <3>3, <3>4
  <2> HIDE DEF j
  <2>2. j = i
    BY <1>3, <2>1
  <2> QED BY <2>2 DEF j
<1> HIDE DEF at
<1>6. r = [k \in 1..Cardinality(K) |-> s[at(k)]]
  BY DEF at, Rest
<1>7. r \in Seq(S) /\ Len(r) = Cardinality(K) /\ \A k \in 1..Cardinality(K) : r[k] = s[at(k)]
  <2> DEFINE n == Cardinality(K)
  <2>1. ASSUME NEW k \in 1..n PROVE s[at(k)] \in S
    <3>1. at(k) \in K
      BY <1>4
    <3>2. at(k) \in 1..Len(s)
      BY <3>1
    <3> QED BY <3>2
  <2>2. n \in Nat /\ r = [k \in 1..n |-> s[at(k)]]
    BY <1>2, <1>6
  <2> HIDE DEF n
  <2>3. [k \in 1..n |-> s[at(k)]] \in Seq(S) /\ Len([k \in 1..n |-> s[at(k)]]) = n
    BY <2>1, <2>2
  <2>4. r \in Seq(S) /\ Len(r) = n
    BY <2>2, <2>3
  <2> QED BY <2>2, <2>4 DEF n
<1>8. \A i \in K : r[Rank(K, i)] = s[i]
  BY <1>3, <1>5, <1>7
<1> QED BY <1>2, <1>3, <1>7, <1>8

(* Where the sequences of pages pg name the page d.                         *)
Places(pg, d) == {m \in Caches \X (1..MaxPages) : m[2] \in DOMAIN pg[m[1]] /\ pg[m[1]][m[2]] = d}
PagesOf(pg) == pg \in [Caches -> Seq(Digests)] /\ \A c \in Caches : Len(pg[c]) <= MaxPages

(* The list, the counts and the bytes of the stored pages.                  *)
Stored(l, r, b) ==
  /\ r \in [DOMAIN r -> Nat] /\ DOMAIN r \subseteq Digests
  /\ l \in Seq(Digests) /\ IsInjective(l)
  /\ \A x : Contains(l, x) <=> x \in DOMAIN r
  /\ b = PageBytes * Len(l)

(* The counts are the references of the sequences pg, all to stored pages.  *)
Balanced(l, r, b, pg) ==
  /\ Stored(l, r, b) /\ PagesOf(pg)
  /\ \A c \in Caches : \A i \in 1..Len(pg[c]) : pg[c][i] \in DOMAIN r
  /\ \A d \in DOMAIN r : r[d] = Cardinality(Places(pg, d))

PageLists == [c \in Caches |-> cache[c].pages]

KvInv ==
  /\ Balanced(lru, ref, bytesLive, PageLists)
  /\ cache \in [Caches -> [live : BOOLEAN, pages : Seq(Digests), tokens : Nat]]
  /\ wrote = PageLists
  /\ \A c \in Caches : cache[c].live \/ cache[c] = Free

(* What is left of a sequence is what the model says it is.                 *)
LEMMA WithoutIsRest == \A s, P : Without(s, P) = Rest(s, DOMAIN s \ P)
BY DEF Without, Rest, Rank

(* A page is named at so many places more as a sequence got longer by pages *)
(* it is.                                                                   *)
Longer(pg, more, c, k) ==
  /\ PagesOf(pg) /\ PagesOf(more) /\ k = Len(pg[c])
  /\ \A x \in Caches : x # c => more[x] = pg[x]
  /\ k <= Len(more[c]) /\ \A j \in 1..k : more[c][j] = pg[c][j]

LEMMA PlacesAdded ==
  ASSUME KvAssumption, NEW pg, NEW more, NEW c \in Caches, NEW k, Longer(pg, more, c, k), NEW d
  PROVE  LET J == {j \in (k + 1)..Len(more[c]) : more[c][j] = d} IN
           /\ IsFiniteSet(Places(pg, d)) /\ IsFiniteSet(Places(more, d)) /\ IsFiniteSet(J)
           /\ Cardinality(Places(pg, d)) \in Nat /\ Cardinality(J) \in Nat
           /\ Cardinality(Places(more, d)) = Cardinality(Places(pg, d)) + Cardinality(J)
<1> DEFINE J == {j \in (k + 1)..Len(more[c]) : more[c][j] = d}
           P == Places(pg, d)
           Q == Places(more, d)
           D == {c} \X J
<1>1. /\ \A x \in Caches : /\ Len(pg[x]) \in Nat /\ Len(more[x]) \in Nat /\ Len(pg[x]) <= MaxPages /\ Len(more[x]) <= MaxPages
                          /\ DOMAIN pg[x] = 1..Len(pg[x]) /\ DOMAIN more[x] = 1..Len(more[x])
      /\ MaxPages \in Nat /\ k \in Nat /\ k <= Len(more[c]) /\ IsFiniteSet(Caches) /\ k = Len(pg[c])
      /\ \A x \in Caches : x # c => more[x] = pg[x]
      /\ \A j \in 1..k : more[c][j] = pg[c][j]
  BY DEF KvAssumption, Longer, PagesOf
<1>2. IsFiniteSet(Caches \X (1..MaxPages)) /\ IsFiniteSet((k + 1)..Len(more[c]))
  <2>1. \A a, b : a \in Int /\ b \in Int => IsFiniteSet(a..b)
    BY FS_Interval
  <2>2. 1 \in Int /\ MaxPages \in Int /\ k + 1 \in Int /\ Len(more[c]) \in Int
    BY <1>1
  <2>3. IsFiniteSet(1..MaxPages) /\ IsFiniteSet((k + 1)..Len(more[c]))
    BY <2>1, <2>2
  <2> QED BY <1>1, <2>3, FS_Product
<1>3. P \in SUBSET (Caches \X (1..MaxPages)) /\ Q \in SUBSET (Caches \X (1..MaxPages)) /\ J \in SUBSET ((k + 1)..Len(more[c]))
  BY DEF Places
<1>4. IsFiniteSet(P) /\ IsFiniteSet(Q) /\ IsFiniteSet(J)
  <2> HIDE DEF P, Q, J
  <2> QED BY <1>2, <1>3, FS_Subset
<1>5. IsFiniteSet({c}) /\ Cardinality({c}) = 1
  BY FS_Singleton
<1>6. IsFiniteSet(D) /\ Cardinality(D) = Cardinality(J) /\ Cardinality(J) \in Nat /\ Cardinality(P) \in Nat
  <2> HIDE DEF P, J
  <2>1. IsFiniteSet(D) /\ Cardinality(D) = 1 * Cardinality(J)
    BY <1>4, <1>5, FS_Product
  <2> QED BY <1>4, <2>1, FS_CardinalityType
<1>7. P \cap D = {}
  <2> SUFFICES ASSUME NEW m \in P, m \in D PROVE FALSE
    OBVIOUS
  <2>1. m[1] = c /\ m[2] \in J
    OBVIOUS
  <2>2. m[2] \in 1..k
    BY <1>1, <2>1 DEF Places
  <2> QED BY <1>1, <2>1, <2>2
<1>8. Q = P \cup D
  <2>1. ASSUME NEW x \in Caches, NEW j \in 1..MaxPages
        PROVE  <<x, j>> \in Q <=> <<x, j>> \in P \/ <<x, j>> \in D
    <3>1. <<x, j>> \in Q <=> j \in DOMAIN more[x] /\ more[x][j] = d
      BY DEF Places
    <3>2. <<x, j>> \in P <=> j \in DOMAIN pg[x] /\ pg[x][j] = d
      BY DEF Places
    <3>3. <<x, j>> \in D <=> x = c /\ j \in J
      OBVIOUS
    <3>4. CASE x # c
      BY <1>1, <3>1, <3>2, <3>3, <3>4
    <3>5. CASE x = c
      <4>1. j \in 1..Len(more[c]) <=> j \in 1..k \/ j \in (k + 1)..Len(more[c])
        BY <1>1
      <4> QED BY <1>1, <3>1, <3>2, <3>3, <3>5, <4>1
    <3> QED BY <3>4, <3>5
  <2>2. D \in SUBSET (Caches \X (1..MaxPages))
    BY <1>1
  <2> HIDE DEF P, Q, D
  <2> QED BY <1>3, <2>1, <2>2
<1>9. Cardinality(Q) = Cardinality(P) + Cardinality(D) - Cardinality(P \cap D)
  <2> HIDE DEF P, D, Q, J
  <2> QED BY <1>4, <1>6, <1>8, FS_Union
<1>10. Cardinality(Q) = Cardinality(P) + Cardinality(J)
  <2> HIDE DEF P, D, Q, J
  <2>1. Cardinality({}) = 0
    BY FS_EmptySet
  <2> QED BY <1>6, <1>7, <1>9, <2>1
<1> QED BY <1>4, <1>6, <1>10

(* Taking idle pages off keeps the list, the counts and the bytes together. *)
LEMMA RemainsKeeps ==
  ASSUME KvAssumption, NEW st, Stored(st.lru, st.ref, st.bytes), NEW gone \in SUBSET Idle(st), NEW e, e = Remains(st, gone)
  PROVE  /\ Stored(e.lru, e.ref, e.bytes) /\ DOMAIN e.ref \subseteq DOMAIN st.ref
         /\ \A d \in DOMAIN e.ref : e.ref[d] = st.ref[d]
         /\ \A d \in DOMAIN st.ref : d \in DOMAIN e.ref \/ st.ref[d] = 0
         /\ \A i \in DOMAIN st.lru : i \in gone <=> st.lru[i] \notin DOMAIN e.ref
         /\ IsFiniteSet(gone) /\ e.bytes = st.bytes - PageBytes * Cardinality(gone)
<1> DEFINE l == st.lru
           n == Len(l)
           K == (1..n) \ gone
<1>1. /\ l \in Seq(Digests) /\ n \in Nat /\ DOMAIN l = 1..n /\ gone \in SUBSET (1..n) /\ K \in SUBSET (1..n)
      /\ \A i, j \in 1..n : l[i] = l[j] => i = j
      /\ \A x : x \in DOMAIN st.ref <=> \E i \in 1..n : l[i] = x
      /\ \A i \in gone : st.ref[l[i]] = 0
  BY DEF Stored, Idle, IsInjective, Contains
<1>2. /\ e.lru = Rest(l, K)
      /\ e.ref = [x \in DOMAIN st.ref \ {l[i] : i \in gone} |-> st.ref[x]]
      /\ e.bytes = st.bytes - PageBytes * Cardinality(gone)
  <2>1. e.lru = Without(l, gone)
    BY DEF Remains
  <2>2. Without(l, gone) = Rest(l, K)
    BY <1>1, WithoutIsRest
  <2> QED BY <2>1, <2>2 DEF Remains, Drop
<1> HIDE DEF K, l
<1>3. /\ IsFiniteSet(K) /\ e.lru \in Seq(Digests) /\ Len(e.lru) = Cardinality(K)
      /\ \A i \in K : Rank(K, i) \in 1..Len(e.lru) /\ e.lru[Rank(K, i)] = l[i]
      /\ \A k \in 1..Len(e.lru) : \E i \in K : Rank(K, i) = k
  BY <1>1, <1>2, RestOrdered
<1>4. IsInjective(e.lru)
  <2>1. ASSUME NEW a \in 1..Len(e.lru), NEW b \in 1..Len(e.lru), e.lru[a] = e.lru[b] PROVE a = b
    <3>1. PICK i \in K : Rank(K, i) = a
      BY <1>3
    <3>2. PICK j \in K : Rank(K, j) = b
      BY <1>3
    <3>3. l[i] = l[j]
      BY <1>3, <2>1, <3>1, <3>2
    <3>4. i = j
      BY <1>1, <3>3
    <3> QED BY <3>1, <3>2, <3>4
  <2>2. DOMAIN e.lru = 1..Len(e.lru)
    BY <1>3
  <2> QED BY <2>1, <2>2 DEF IsInjective
<1>5. ASSUME NEW x PROVE Contains(e.lru, x) <=> \E i \in K : l[i] = x
  <2>1. ASSUME NEW a \in 1..Len(e.lru), e.lru[a] = x PROVE \E i \in K : l[i] = x
    <3>1. PICK i \in K : Rank(K, i) = a
      BY <1>3
    <3> QED BY <1>3, <2>1, <3>1
  <2>2. ASSUME NEW i \in K, l[i] = x PROVE Contains(e.lru, x)
    BY <1>3, <2>2 DEF Contains
  <2> QED BY <2>1, <2>2 DEF Contains
<1>6. ASSUME NEW i \in 1..n PROVE l[i] \in {l[j] : j \in gone} <=> i \in gone
  BY <1>1
<1>7. ASSUME NEW x PROVE x \in DOMAIN e.ref <=> \E i \in K : l[i] = x
  <2>1. x \in DOMAIN e.ref <=> x \in DOMAIN st.ref /\ x \notin {l[i] : i \in gone}
    BY <1>2
  <2> QED BY <1>1, <1>6, <2>1 DEF K
<1>8. e.ref \in [DOMAIN e.ref -> Nat] /\ DOMAIN e.ref \subseteq Digests /\ DOMAIN e.ref \subseteq DOMAIN st.ref
      /\ \A d \in DOMAIN e.ref : e.ref[d] = st.ref[d]
  BY <1>2 DEF Stored
<1>9. ASSUME NEW d \in DOMAIN st.ref PROVE d \in DOMAIN e.ref \/ st.ref[d] = 0
  <2>1. PICK i \in 1..n : l[i] = d
    BY <1>1
  <2> QED BY <1>1, <1>7, <2>1 DEF K
<1>10. ASSUME NEW i \in 1..n PROVE i \in gone <=> l[i] \notin DOMAIN e.ref
  BY <1>1, <1>7 DEF K
<1>11. IsFiniteSet(gone) /\ Cardinality(gone) \in Nat /\ Cardinality(K) = n - Cardinality(gone)
  <2>1. IsFiniteSet(1..n) /\ Cardinality(1..n) = n
    <3>1. \A a, b : a \in Int /\ b \in Int => IsFiniteSet(a..b) /\ Cardinality(a..b) = IF a > b THEN 0 ELSE b - a + 1
      BY FS_Interval
    <3>2. 1 \in Int /\ n \in Int /\ n \in Nat
      BY <1>1
    <3> HIDE DEF n
    <3> QED BY <3>1, <3>2
  <2>2. IsFiniteSet(gone)
    BY <1>1, <2>1, FS_Subset
  <2>3. (1..n) \cap gone = gone
    BY <1>1
  <2> DEFINE I == 1..n
  <2>4. Cardinality(I \ gone) = Cardinality(I) - Cardinality(I \cap gone)
    <3>1. IsFiniteSet(I)
      BY <2>1
    <3> HIDE DEF I
    <3> QED BY <3>1, FS_Difference
  <2> QED BY <2>1, <2>2, <2>3, <2>4, FS_CardinalityType DEF K
<1>12. e.bytes = PageBytes * Len(e.lru)
  <2>1. st.bytes = PageBytes * n /\ PageBytes \in Nat
    BY DEF KvAssumption, Stored, l
  <2>2. \A a, b, c \in Int : a * (b - c) = a * b - a * c
    OBVIOUS
  <2> HIDE DEF n
  <2> QED BY <1>1, <1>2, <1>3, <1>11, <2>1, <2>2
<1>13. Stored(e.lru, e.ref, e.bytes)
  <2> HIDE DEF n
  <2> QED BY <1>3, <1>4, <1>5, <1>7, <1>8, <1>12 DEF Stored
<1> QED BY <1>1, <1>2, <1>8, <1>9, <1>10, <1>11, <1>13 DEF l

(* What an eviction leaves: it stops short of an idle page only when the    *)
(* room is made.                                                            *)
Evicts(st, e, want, budget) ==
  /\ Stored(e.lru, e.ref, e.bytes) /\ DOMAIN e.ref \subseteq DOMAIN st.ref
  /\ \A d \in DOMAIN e.ref : e.ref[d] = st.ref[d]
  /\ \A d \in DOMAIN st.ref : d \in DOMAIN e.ref \/ st.ref[d] = 0
  /\ \A d \in DOMAIN e.ref : e.ref[d] = 0 => e.bytes + want <= budget

LEMMA EvictsEnough ==
  ASSUME KvAssumption, NEW st, Stored(st.lru, st.ref, st.bytes), NEW want \in Nat, NEW budget \in Int
  PROVE  Evicts(st, Evict(st, want, budget), want, budget)
<1> DEFINE e == Evict(st, want, budget)
           idle == Idle(st)
           before(i) == {j \in idle : j < i}
           gone == {i \in idle : BytesAt(st, i) + want > budget}
<1>1. e = Remains(st, gone) /\ gone \in SUBSET Idle(st)
  BY DEF Evict
<1>2. /\ \A i : BytesAt(st, i) = st.bytes - PageBytes * Cardinality(before(i))
      /\ idle = {i \in DOMAIN st.lru : st.ref[st.lru[i]] = 0}
  BY DEF BytesAt, Idle
<1>3. \A i : i \in gone <=> i \in idle /\ BytesAt(st, i) + want > budget
  OBVIOUS
<1> HIDE DEF gone, idle, e
<1>4. /\ Stored(e.lru, e.ref, e.bytes) /\ DOMAIN e.ref \subseteq DOMAIN st.ref
      /\ \A d \in DOMAIN e.ref : e.ref[d] = st.ref[d]
      /\ \A d \in DOMAIN st.ref : d \in DOMAIN e.ref \/ st.ref[d] = 0
      /\ \A i \in DOMAIN st.lru : i \in gone <=> st.lru[i] \notin DOMAIN e.ref
      /\ IsFiniteSet(gone) /\ e.bytes = st.bytes - PageBytes * Cardinality(gone)
  BY <1>1, RemainsKeeps
<1>5. ASSUME NEW d \in DOMAIN e.ref, e.ref[d] = 0 PROVE e.bytes + want <= budget
  <2> DEFINE left == {i \in idle : i \notin gone}
  <2>1. PICK x \in 1..Len(st.lru) : st.lru[x] = d
    BY <1>4, <1>5 DEF Stored, Contains
  <2>2. DOMAIN st.lru = 1..Len(st.lru) /\ Len(st.lru) \in Nat
    BY DEF Stored
  <2>3. x \in left
    BY <1>2, <1>4, <1>5, <2>1, <2>2
  <2>4. left \in SUBSET Nat /\ left # {}
    BY <1>2, <2>2, <2>3
  <2> DEFINE m == Min(left)
  <2>5. m \in left /\ \A i \in left : m <= i
    <3> HIDE DEF left
    <3> QED BY <2>4, FirstPosition
  <2>6. m \in idle /\ m \notin gone /\ m \in Nat
    BY <2>4, <2>5
  <2>7. before(m) \in SUBSET gone
    <3> SUFFICES ASSUME NEW j \in before(m), j \notin gone PROVE FALSE
      OBVIOUS
    <3>1. j \in left /\ j \in Nat /\ j < m
      BY <2>4
    <3> HIDE DEF m, left
    <3> QED BY <2>5, <2>6, <3>1
  <2> HIDE DEF m, left, before
  <2>8. Cardinality(before(m)) <= Cardinality(gone) /\ Cardinality(gone) \in Nat /\ Cardinality(before(m)) \in Nat
    BY <1>4, <2>7, FS_Subset, FS_CardinalityType
  <2>9. BytesAt(st, m) + want <= budget
    <3>1. ~ (BytesAt(st, m) + want > budget)
      BY <1>3, <2>6
    <3>2. BytesAt(st, m) \in Int
      BY <1>2, <2>8 DEF KvAssumption, Stored
    <3> QED BY <3>1, <3>2
  <2>10. PageBytes \in Nat /\ st.bytes \in Int
    BY DEF KvAssumption, Stored
  <2>11. PageBytes * Cardinality(before(m)) <= PageBytes * Cardinality(gone)
    <3>1. \A a, b, c \in Nat : b <= c => a * b <= a * c
      OBVIOUS
    <3> QED BY <2>8, <2>10, <3>1
  <2>12. BytesAt(st, m) = st.bytes - PageBytes * Cardinality(before(m))
    BY <1>2
  <2> DEFINE p == PageBytes * Cardinality(before(m))
             q == PageBytes * Cardinality(gone)
  <2>13. p \in Int /\ q \in Int /\ p <= q /\ (st.bytes - p) + want <= budget /\ e.bytes = st.bytes - q
    BY <1>4, <2>8, <2>9, <2>10, <2>11, <2>12
  <2> HIDE DEF p, q
  <2> QED BY <2>10, <2>13
<1>6. Evicts(st, e, want, budget)
  BY <1>4, <1>5 DEF Evicts
<1> QED BY <1>6 DEF e

(* A sequence that got shorter gives up what it named beyond its new end.   *)
LEMMA ReleaseKeeps ==
  ASSUME KvAssumption, NEW l, NEW r, NEW b, NEW pg, NEW more, NEW c \in Caches, NEW k,
         Balanced(l, r, b, more), Longer(pg, more, c, k)
  PROVE  Balanced(l, Release(r, more[c], k + 1), b, pg)
<1> DEFINE J(d) == {j \in (k + 1)..Len(more[c]) : more[c][j] = d}
           r2 == Release(r, more[c], k + 1)
<1>1. r2 = [d \in DOMAIN r |-> r[d] - Cardinality(J(d))]
  BY DEF Release
<1>2. ASSUME NEW d \in DOMAIN r PROVE r2[d] = Cardinality(Places(pg, d)) /\ r2[d] \in Nat
  <2>1. /\ Cardinality(Places(pg, d)) \in Nat /\ Cardinality(J(d)) \in Nat
        /\ Cardinality(Places(more, d)) = Cardinality(Places(pg, d)) + Cardinality(J(d))
    BY PlacesAdded
  <2>2. r[d] = Cardinality(Places(more, d)) /\ r2[d] = r[d] - Cardinality(J(d))
    BY <1>1 DEF Balanced
  <2> HIDE DEF J, r2
  <2> QED BY <2>1, <2>2
<1>3. DOMAIN r2 = DOMAIN r
  BY <1>1
<1> HIDE DEF r2
<1>4. Stored(l, r2, b)
  <2>1. r2 = [d \in DOMAIN r |-> r2[d]]
    BY <1>1
  <2>2. r2 \in [DOMAIN r2 -> Nat]
    BY <1>2, <1>3, <2>1
  <2> QED BY <1>3, <2>2 DEF Stored, Balanced
<1>5. ASSUME NEW x \in Caches, NEW i \in 1..Len(pg[x]) PROVE pg[x][i] \in DOMAIN r2
  <2>1. CASE x # c
    BY <1>3, <1>5, <2>1 DEF Longer, Balanced
  <2>2. CASE x = c
    <3>1. i \in 1..k /\ more[c][i] = pg[c][i] /\ k <= Len(more[c]) /\ Len(more[c]) \in Nat /\ k \in Nat
      BY <1>5, <2>2 DEF Longer, PagesOf
    <3>2. i \in 1..Len(more[c])
      BY <3>1
    <3> QED BY <1>3, <2>2, <3>1, <3>2 DEF Balanced
  <2> QED BY <2>1, <2>2
<1>6. PagesOf(pg)
  BY DEF Longer
<1>7. Balanced(l, r2, b, pg)
  BY <1>2, <1>3, <1>4, <1>5, <1>6 DEF Balanced
<1> QED BY <1>7 DEF r2

(* A sequence that got longer by stored pages counts each place it names.   *)
Taken(r, more, c, k) == [d \in DOMAIN r |-> r[d] + Cardinality({j \in (k + 1)..Len(more[c]) : more[c][j] = d})]

LEMMA TakeKeeps ==
  ASSUME KvAssumption, NEW l, NEW r, NEW b, NEW pg, NEW more, NEW c \in Caches, NEW k,
         Balanced(l, r, b, pg), Longer(pg, more, c, k),
         \A j \in (k + 1)..Len(more[c]) : more[c][j] \in DOMAIN r
  PROVE  Balanced(l, Taken(r, more, c, k), b, more)
<1> DEFINE J(d) == {j \in (k + 1)..Len(more[c]) : more[c][j] = d}
           r2 == [d \in DOMAIN r |-> r[d] + Cardinality(J(d))]
<1>2. ASSUME NEW d \in DOMAIN r PROVE r2[d] = Cardinality(Places(more, d)) /\ r2[d] \in Nat
  <2>1. /\ Cardinality(Places(pg, d)) \in Nat /\ Cardinality(J(d)) \in Nat
        /\ Cardinality(Places(more, d)) = Cardinality(Places(pg, d)) + Cardinality(J(d))
    BY PlacesAdded
  <2>2. r[d] = Cardinality(Places(pg, d)) /\ r2[d] = r[d] + Cardinality(J(d))
    BY DEF Balanced
  <2> HIDE DEF J, r2
  <2> QED BY <2>1, <2>2
<1>3. DOMAIN r2 = DOMAIN r /\ r2 = [d \in DOMAIN r |-> r2[d]]
  OBVIOUS
<1> HIDE DEF r2
<1>4. Stored(l, r2, b)
  <2>1. r2 \in [DOMAIN r2 -> Nat]
    BY <1>2, <1>3
  <2> QED BY <1>3, <2>1 DEF Stored, Balanced
<1>5. ASSUME NEW x \in Caches, NEW i \in 1..Len(more[x]) PROVE more[x][i] \in DOMAIN r2
  <2>1. CASE x # c
    BY <1>3, <1>5, <2>1 DEF Longer, Balanced
  <2>2. CASE x = c
    <3>1. Len(more[c]) \in Nat /\ k \in Nat /\ k = Len(pg[c]) /\ \A j \in 1..k : more[c][j] = pg[c][j]
      BY DEF Longer, PagesOf
    <3>2. CASE i \in 1..k
      BY <1>3, <2>2, <3>1, <3>2 DEF Balanced
    <3>3. CASE i \in (k + 1)..Len(more[c])
      BY <1>3, <2>2, <3>3
    <3> QED BY <1>5, <2>2, <3>1, <3>2, <3>3
  <2> QED BY <2>1, <2>2
<1>6. PagesOf(more)
  BY DEF Longer
<1>7. Balanced(l, r2, b, more)
  BY <1>2, <1>3, <1>4, <1>5, <1>6 DEF Balanced
<1> QED BY <1>7 DEF r2, Taken

(* PageLists that go idle may leave the store: nobody names them.           *)
LEMMA EvictKeeps ==
  ASSUME KvAssumption, NEW st, NEW pg, Balanced(st.lru, st.ref, st.bytes, pg), NEW want \in Nat, NEW budget \in Int,
         NEW e, e = Evict(st, want, budget)
  PROVE  /\ Balanced(e.lru, e.ref, e.bytes, pg) /\ DOMAIN e.ref \subseteq DOMAIN st.ref
         /\ \A d \in DOMAIN e.ref : e.ref[d] = 0 => e.bytes + want <= budget
<1>1. /\ Stored(e.lru, e.ref, e.bytes) /\ DOMAIN e.ref \subseteq DOMAIN st.ref
      /\ \A d \in DOMAIN e.ref : e.ref[d] = st.ref[d]
      /\ \A d \in DOMAIN st.ref : d \in DOMAIN e.ref \/ st.ref[d] = 0
      /\ \A d \in DOMAIN e.ref : e.ref[d] = 0 => e.bytes + want <= budget
  <2>1. Stored(st.lru, st.ref, st.bytes)
    BY DEF Balanced
  <2>2. Evicts(st, e, want, budget)
    BY <2>1, EvictsEnough
  <2> QED BY <2>2 DEF Evicts
<1>2. ASSUME NEW c \in Caches, NEW i \in 1..Len(pg[c]) PROVE pg[c][i] \in DOMAIN e.ref
  <2> DEFINE d == pg[c][i]
  <2>1. d \in DOMAIN st.ref /\ st.ref[d] = Cardinality(Places(pg, d))
    BY <1>2 DEF Balanced
  <2>2. Longer(pg, pg, c, Len(pg[c]))
    BY DEF Balanced, Longer, PagesOf
  <2>3. IsFiniteSet(Places(pg, d))
    BY <2>2, PlacesAdded
  <2>4. <<c, i>> \in Places(pg, d)
    BY <1>2 DEF KvAssumption, Balanced, PagesOf, Places
  <2>5. Cardinality(Places(pg, d)) # 0
    BY <2>3, <2>4, FS_EmptySet
  <2> QED BY <1>1, <2>1, <2>5
<1>3. \A d \in DOMAIN e.ref : e.ref[d] = Cardinality(Places(pg, d))
  BY <1>1 DEF Balanced
<1> QED BY <1>1, <1>2, <1>3 DEF Balanced

(* A page that moves to the tail, or arrives there, keeps the list one.     *)
LEMMA TailKeeps ==
  ASSUME KvAssumption, NEW l, NEW r, NEW b, Stored(l, r, b), NEW d \in Digests
  PROVE  /\ d \in DOMAIN r => Stored(Append(RemoveFirst(l, d), d), r, b)
         /\ d \notin DOMAIN r =>
              Stored(Append(l, d), [x \in DOMAIN r \cup {d} |-> IF x = d THEN 0 ELSE r[x]], b + PageBytes)
<1>1. /\ l \in Seq(Digests) /\ IsInjective(l) /\ Len(l) \in Nat /\ DOMAIN r \subseteq Digests
      /\ \A x : Contains(l, x) <=> x \in DOMAIN r
      /\ r \in [DOMAIN r -> Nat] /\ b = PageBytes * Len(l) /\ PageBytes \in Nat
  BY DEF KvAssumption, Stored
<1>2. ASSUME d \in DOMAIN r PROVE Stored(Append(RemoveFirst(l, d), d), r, b)
  <2> DEFINE m == RemoveFirst(l, d)
  <2>1. m \in Seq(Digests) /\ IsInjective(m) /\ \A x : Contains(m, x) <=> Contains(l, x) /\ x # d
    BY <1>1, RemoveOnce
  <2>2. Len(m) = Len(l) - 1
    <3>1. PICK i \in 1..Len(l) : l[i] = d
      BY <1>1, <1>2 DEF Contains
    <3> QED BY <1>1, <3>1, Removed
  <2> HIDE DEF m
  <2>3. /\ Append(m, d) \in Seq(Digests) /\ IsInjective(Append(m, d))
        /\ \A x : Contains(Append(m, d), x) <=> Contains(m, x) \/ x = d
    BY <2>1, AppendOnce
  <2>4. Len(Append(m, d)) = Len(l)
    BY <1>1, <2>1, <2>2
  <2>5. \A x : Contains(Append(m, d), x) <=> x \in DOMAIN r
    BY <1>1, <1>2, <2>1, <2>3
  <2>6. Stored(Append(m, d), r, b)
    BY <1>1, <2>3, <2>4, <2>5 DEF Stored
  <2> QED BY <2>6 DEF m
<1>3. ASSUME d \notin DOMAIN r
      PROVE  Stored(Append(l, d), [x \in DOMAIN r \cup {d} |-> IF x = d THEN 0 ELSE r[x]], b + PageBytes)
  <2> DEFINE r2 == [x \in DOMAIN r \cup {d} |-> IF x = d THEN 0 ELSE r[x]]
  <2>1. r2 \in [DOMAIN r2 -> Nat] /\ DOMAIN r2 = DOMAIN r \cup {d}
    BY <1>1
  <2> HIDE DEF r2
  <2>2. /\ Append(l, d) \in Seq(Digests) /\ IsInjective(Append(l, d))
        /\ \A x : Contains(Append(l, d), x) <=> Contains(l, x) \/ x = d
    BY <1>1, <1>3, AppendOnce
  <2>3. Len(Append(l, d)) = Len(l) + 1
    BY <1>1
  <2>4. PageBytes * (Len(l) + 1) = PageBytes * Len(l) + PageBytes
    <3>1. \A a, c \in Nat : a * (c + 1) = a * c + a
      OBVIOUS
    <3> QED BY <1>1, <3>1
  <2>5. Stored(Append(l, d), r2, b + PageBytes)
    BY <1>1, <2>1, <2>2, <2>3, <2>4 DEF Stored
  <2> QED BY <2>5 DEF r2
<1> QED BY <1>2, <1>3

(* A page that is stored afresh has no references yet.                      *)
LEMMA NewPageKeeps ==
  ASSUME KvAssumption, NEW l, NEW r, NEW b, NEW pg, Balanced(l, r, b, pg), NEW d \in Digests, d \notin DOMAIN r,
         NEW c \in Caches
  PROVE  Balanced(Append(l, d), [x \in DOMAIN r \cup {d} |-> IF x = d THEN 0 ELSE r[x]], b + PageBytes, pg)
<1> DEFINE r2 == [x \in DOMAIN r \cup {d} |-> IF x = d THEN 0 ELSE r[x]]
<1>1. Stored(Append(l, d), r2, b + PageBytes)
  BY TailKeeps DEF Balanced
<1>2. DOMAIN r2 = DOMAIN r \cup {d} /\ r2[d] = 0 /\ \A x \in DOMAIN r : r2[x] = r[x]
  OBVIOUS
<1> HIDE DEF r2
<1>3. Places(pg, d) = {}
  <2> SUFFICES ASSUME NEW m \in Places(pg, d) PROVE FALSE
    OBVIOUS
  <2>1. m[1] \in Caches /\ m[2] \in 1..Len(pg[m[1]]) /\ pg[m[1]][m[2]] = d
    BY DEF Places, Balanced, PagesOf
  <2> QED BY <2>1 DEF Balanced
<1>4. Cardinality(Places(pg, d)) = 0
  BY <1>3, FS_EmptySet
<1>5. \A x \in DOMAIN r2 : r2[x] = Cardinality(Places(pg, x))
  BY <1>2, <1>4 DEF Balanced
<1>6. Balanced(Append(l, d), r2, b + PageBytes, pg)
  BY <1>1, <1>2, <1>5 DEF Balanced
<1> QED BY <1>6 DEF r2

(* One page more at the end of a sequence.                                  *)
LEMMA OnePage ==
  ASSUME KvAssumption, NEW l, NEW r, NEW b, NEW pg, NEW more, NEW c \in Caches, NEW d,
         Balanced(l, r, b, pg), d \in DOMAIN r, Len(pg[c]) < MaxPages, more = [pg EXCEPT ![c] = Append(@, d)]
  PROVE  Balanced(l, [r EXCEPT ![d] = @ + 1], b, more)
<1> DEFINE k == Len(pg[c])
           J(x) == {j \in (k + 1)..Len(more[c]) : more[c][j] = x}
<1>1. /\ pg \in [Caches -> Seq(Digests)] /\ d \in Digests /\ k \in Nat /\ r \in [DOMAIN r -> Nat] /\ MaxPages \in Nat
      /\ \A x \in Caches : Len(pg[x]) <= MaxPages
  BY DEF KvAssumption, Balanced, PagesOf, Stored
<1>2. /\ more \in [Caches -> Seq(Digests)] /\ Len(more[c]) = k + 1 /\ more[c][k + 1] = d
      /\ \A x \in Caches : x # c => more[x] = pg[x]
      /\ \A j \in 1..k : more[c][j] = pg[c][j]
  <2>1. more[c] = Append(pg[c], d) /\ pg[c] \in Seq(Digests)
    BY <1>1
  <2> QED BY <1>1, <2>1
<1>3. Longer(pg, more, c, k)
  BY <1>1, <1>2 DEF Longer, PagesOf, Balanced
<1>4. (k + 1)..Len(more[c]) = {k + 1}
  BY <1>1, <1>2
<1>5. \A j \in (k + 1)..Len(more[c]) : more[c][j] \in DOMAIN r
  BY <1>2, <1>4
<1>6. Balanced(l, Taken(r, more, c, k), b, more)
  <2> HIDE DEF k
  <2> QED BY <1>3, <1>5, TakeKeeps
<1>7. ASSUME NEW x \in DOMAIN r PROVE Cardinality(J(x)) = IF x = d THEN 1 ELSE 0
  <2>1. J(x) = IF x = d THEN {k + 1} ELSE {}
    BY <1>2, <1>4
  <2>2. Cardinality({}) = 0 /\ Cardinality({k + 1}) = 1
    BY FS_EmptySet, FS_Singleton
  <2> HIDE DEF J
  <2> QED BY <2>1, <2>2
<1>8. [x \in DOMAIN r |-> r[x] + Cardinality(J(x))] = [r EXCEPT ![d] = @ + 1]
  <2> HIDE DEF J
  <2>1. \A x \in DOMAIN r : r[x] \in Nat
    BY <1>1
  <2>2. \A x \in DOMAIN r : r[x] + Cardinality(J(x)) = IF x = d THEN r[d] + 1 ELSE r[x]
    BY <1>7, <2>1
  <2> QED BY <1>1, <2>2
<1> QED BY <1>6, <1>8 DEF Taken

CacheRecords == [live : BOOLEAN, pages : Seq(Digests), tokens : Nat]

(* One sequence of the cache becomes e.                                     *)
Becomes(c, e) == cache' = [cache EXCEPT ![c] = e] /\ e \in CacheRecords /\ e.live

(* The pages of that sequence are those of its new record.                  *)
LEMMA PagesBecome ==
  ASSUME KvInv, NEW c \in Caches, NEW e, Becomes(c, e), wrote' = [wrote EXCEPT ![c] = e.pages]
  PROVE  /\ PageLists' = [PageLists EXCEPT ![c] = e.pages] /\ wrote' = PageLists'
         /\ cache' \in [Caches -> CacheRecords] /\ \A x \in Caches : cache'[x].live \/ cache'[x] = Free
<1>1. cache \in [Caches -> CacheRecords] /\ e \in CacheRecords /\ e.live /\ cache' = [cache EXCEPT ![c] = e] /\ wrote = PageLists
  BY DEF KvInv, Becomes, CacheRecords
<1>2. cache' \in [Caches -> CacheRecords] /\ \A x \in Caches : cache'[x] = IF x = c THEN e ELSE cache[x]
  BY <1>1
<1>3. PageLists' = [PageLists EXCEPT ![c] = e.pages]
  BY <1>1, <1>2 DEF PageLists
<1>4. \A x \in Caches : cache'[x].live \/ cache'[x] = Free
  BY <1>1, <1>2 DEF KvInv
<1> QED BY <1>1, <1>2, <1>3, <1>4

(* A sequence cut at its k-th page.                                         *)
LEMMA Cut ==
  ASSUME KvAssumption, NEW pg, PagesOf(pg), NEW c \in Caches, NEW k \in Nat, k <= Len(pg[c])
  PROVE  Longer([pg EXCEPT ![c] = SubSeq(@, 1, k)], pg, c, k)
<1> DEFINE s == SubSeq(pg[c], 1, k)
           less == [pg EXCEPT ![c] = s]
<1>1. pg \in [Caches -> Seq(Digests)] /\ pg[c] \in Seq(Digests) /\ \A x \in Caches : Len(pg[x]) <= MaxPages
  BY DEF PagesOf
<1>2. s \in Seq(Digests) /\ Len(s) = k /\ \A j \in 1..k : s[j] = pg[c][j]
  BY <1>1
<1> HIDE DEF s
<1>3. less \in [Caches -> Seq(Digests)] /\ \A x \in Caches : less[x] = IF x = c THEN s ELSE pg[x]
  BY <1>1, <1>2
<1> HIDE DEF less
<1>4. PagesOf(less)
  <2>1. \A x \in Caches : Len(less[x]) <= MaxPages
    <3>1. k <= MaxPages
      <4>1. Len(pg[c]) \in Nat /\ Len(pg[c]) <= MaxPages
        BY <1>1
      <4>2. MaxPages \in Nat
        BY DEF KvAssumption
      <4> QED BY <4>1, <4>2
    <3> QED BY <1>1, <1>2, <1>3, <3>1
  <2> QED BY <1>3, <2>1 DEF PagesOf
<1>5. Longer(less, pg, c, k)
  BY <1>2, <1>3, <1>4 DEF Longer
<1> QED BY <1>5 DEF less, s

(* rk_kv_create: the new sequence names no page.                            *)
LEMMA CreateKeeps ==
  ASSUME KvAssumption, KvInv, NEW c \in Caches, Create(c)
  PROVE  KvInv'
<1> DEFINE e == [Free EXCEPT !.live = TRUE]
<1>1. cache' = [cache EXCEPT ![c] = e] /\ UNCHANGED <<lru, ref, bytesLive, wrote>> /\ cache[c] = Free
  BY DEF Create, KvInv
<1>2. e \in CacheRecords /\ e.live /\ e.pages = <<>>
  <2>1. Free \in CacheRecords /\ Free.pages = <<>>
    BY DEF Free, CacheRecords
  <2> QED BY <2>1 DEF CacheRecords
<1> HIDE DEF e
<1>3. PageLists[c] = <<>> /\ wrote[c] = <<>> /\ wrote = PageLists /\ wrote = [x \in Caches |-> wrote[x]]
  BY <1>1 DEF KvInv, PageLists, Free
<1>4. wrote' = [wrote EXCEPT ![c] = e.pages]
  BY <1>1, <1>2, <1>3
<1>5. /\ PageLists' = [PageLists EXCEPT ![c] = <<>>] /\ wrote' = PageLists'
      /\ cache' \in [Caches -> CacheRecords] /\ \A x \in Caches : cache'[x].live \/ cache'[x] = Free
  BY <1>1, <1>2, <1>4, PagesBecome DEF Becomes
<1>6. PageLists' = PageLists
  BY <1>1, <1>3, <1>5
<1>7. Balanced(lru', ref', bytesLive', PageLists')
  BY <1>1, <1>6 DEF KvInv
<1> QED BY <1>5, <1>7 DEF KvInv, CacheRecords

(* rk_kv_destroy: every reference of the sequence is dropped.               *)
LEMMA DestroyKeeps ==
  ASSUME KvAssumption, KvInv, NEW c \in Caches, KvDestroy(c)
  PROVE  KvInv'
<1>1. /\ ref' = Release(ref, cache[c].pages, 1) /\ cache' = [cache EXCEPT ![c] = Free]
      /\ wrote' = [wrote EXCEPT ![c] = <<>>] /\ UNCHANGED <<lru, bytesLive>>
  BY DEF KvDestroy
<1>2. /\ cache \in [Caches -> CacheRecords] /\ wrote = PageLists /\ Balanced(lru, ref, bytesLive, PageLists)
      /\ \A x \in Caches : cache[x].live \/ cache[x] = Free
  BY DEF KvInv, CacheRecords
<1>3. Free \in CacheRecords /\ Free.pages = <<>>
  BY DEF Free, CacheRecords
<1>4. /\ cache' \in [Caches -> CacheRecords] /\ \A x \in Caches : cache'[x] = IF x = c THEN Free ELSE cache[x]
  BY <1>1, <1>2, <1>3
<1>5. PageLists' = [PageLists EXCEPT ![c] = <<>>]
  BY <1>2, <1>3, <1>4 DEF PageLists
<1>6. PagesOf(PageLists) /\ PageLists[c] = cache[c].pages
  BY <1>2 DEF Balanced, PageLists
<1>7. SubSeq(PageLists[c], 1, 0) = <<>> /\ 0 <= Len(PageLists[c])
  BY <1>6 DEF PagesOf
<1>8. [PageLists EXCEPT ![c] = SubSeq(@, 1, 0)] = PageLists'
  BY <1>5, <1>7
<1>9. Longer(PageLists', PageLists, c, 0)
  BY <1>6, <1>7, <1>8, Cut
<1>10. Balanced(lru, Release(ref, PageLists[c], 0 + 1), bytesLive, PageLists')
  BY <1>2, <1>9, ReleaseKeeps
<1>11. Balanced(lru', ref', bytesLive', PageLists')
  BY <1>1, <1>6, <1>10
<1>12. \A x \in Caches : cache'[x].live \/ cache'[x] = Free
  BY <1>2, <1>4
<1> QED BY <1>1, <1>2, <1>4, <1>5, <1>11, <1>12 DEF KvInv, CacheRecords

(* rk_kv_trim: the references behind the cut are dropped.                   *)
LEMMA TrimKeeps ==
  ASSUME KvAssumption, KvInv, NEW c \in Caches, NEW n \in Nat, Trim(c, n)
  PROVE  KvInv'
<1> DEFINE keep == n * Cardinality(Layers)
           e == [[cache[c] EXCEPT !.pages = SubSeq(@, 1, keep)] EXCEPT !.tokens = n]
<1>1. /\ ref' = Release(ref, cache[c].pages, keep + 1) /\ wrote' = [wrote EXCEPT ![c] = SubSeq(@, 1, keep)]
      /\ cache' = [cache EXCEPT ![c].pages = SubSeq(@, 1, keep), ![c].tokens = n]
      /\ UNCHANGED <<lru, bytesLive>> /\ cache[c].live /\ keep < Len(cache[c].pages)
  BY DEF Trim
<1>2. /\ cache \in [Caches -> CacheRecords] /\ wrote = PageLists /\ Balanced(lru, ref, bytesLive, PageLists)
  BY DEF KvInv, CacheRecords
<1>3. keep \in Nat
  <2>1. Cardinality(Layers) \in Nat
    BY FS_CardinalityType DEF KvAssumption
  <2>2. \A a, b \in Nat : a * b \in Nat
    OBVIOUS
  <2> QED BY <2>1, <2>2
<1>4. PagesOf(PageLists) /\ PageLists[c] = cache[c].pages /\ cache[c] \in CacheRecords /\ PageLists \in [Caches -> Seq(Digests)]
  BY <1>2 DEF Balanced, PageLists, PagesOf
<1>5. cache' = [cache EXCEPT ![c] = e]
  BY <1>1, <1>2
<1> HIDE DEF keep
<1>6. e \in CacheRecords /\ e.live /\ e.pages = SubSeq(PageLists[c], 1, keep)
  <2>1. SubSeq(cache[c].pages, 1, keep) \in Seq(Digests)
    <3>1. cache[c].pages \in Seq(Digests) /\ keep <= Len(cache[c].pages) /\ Len(cache[c].pages) \in Nat
      BY <1>1, <1>3, <1>4 DEF CacheRecords
    <3> QED BY <1>3, <3>1
  <2> QED BY <1>1, <1>4, <2>1 DEF CacheRecords
<1> HIDE DEF e
<1>7. wrote' = [wrote EXCEPT ![c] = e.pages]
  BY <1>1, <1>2, <1>6
<1>8. /\ PageLists' = [PageLists EXCEPT ![c] = e.pages] /\ wrote' = PageLists'
      /\ cache' \in [Caches -> CacheRecords] /\ \A x \in Caches : cache'[x].live \/ cache'[x] = Free
  BY <1>5, <1>6, <1>7, PagesBecome DEF Becomes
<1>9. Longer(PageLists', PageLists, c, keep)
  <2>1. keep <= Len(PageLists[c])
    BY <1>1, <1>3, <1>4 DEF PagesOf
  <2>2. PageLists' = [PageLists EXCEPT ![c] = SubSeq(@, 1, keep)]
    BY <1>6, <1>8
  <2> QED BY <1>3, <1>4, <2>1, <2>2, Cut
<1>10. Balanced(lru, Release(ref, PageLists[c], keep + 1), bytesLive, PageLists')
  BY <1>2, <1>9, ReleaseKeeps
<1>11. Balanced(lru', ref', bytesLive', PageLists')
  BY <1>1, <1>4, <1>10
<1> QED BY <1>8, <1>11 DEF KvInv, CacheRecords

(* rk_kv_fork: each page of the prefix is referenced once more.             *)
LEMMA ForkKeeps ==
  ASSUME KvAssumption, KvInv, NEW dst \in Caches, NEW src \in Caches, NEW n \in Nat, Fork(dst, src, n)
  PROVE  KvInv'
<1> DEFINE wanted == n * Cardinality(Layers)
           choice == {wanted, Len(cache[src].pages)}
           want   == Min(choice)
           prefix == SubSeq(cache[src].pages, 1, want)
           e == [[cache[dst] EXCEPT !.pages = prefix] EXCEPT !.tokens = n]
<1>1. /\ ref' = [d \in DOMAIN ref |-> ref[d] + Cardinality({j \in DOMAIN prefix : prefix[j] = d})]
      /\ wrote' = [wrote EXCEPT ![dst] = SubSeq(wrote[src], 1, want)]
      /\ cache' = [cache EXCEPT ![dst].pages = prefix, ![dst].tokens = n]
      /\ UNCHANGED <<lru, bytesLive>> /\ cache[dst].live /\ cache[dst].pages = <<>> /\ want <= MaxPages
  BY DEF Fork
<1>2. /\ cache \in [Caches -> CacheRecords] /\ wrote = PageLists /\ Balanced(lru, ref, bytesLive, PageLists)
  BY DEF KvInv, CacheRecords
<1>3. /\ PagesOf(PageLists) /\ PageLists \in [Caches -> Seq(Digests)] /\ \A c \in Caches : PageLists[c] = cache[c].pages
      /\ \A c \in Caches : cache[c] \in CacheRecords /\ cache[c].pages \in Seq(Digests) /\ Len(cache[c].pages) \in Nat
  BY <1>2 DEF Balanced, PageLists, PagesOf, CacheRecords
<1>4. want \in Nat /\ want <= Len(cache[src].pages)
  <2>1. wanted \in Nat
    <3>1. Cardinality(Layers) \in Nat
      BY FS_CardinalityType DEF KvAssumption
    <3>2. \A a, b \in Nat : a * b \in Nat
      OBVIOUS
    <3> QED BY <3>1, <3>2
  <2> HIDE DEF wanted
  <2>2. choice \in SUBSET Nat /\ choice # {} /\ Len(cache[src].pages) \in choice
    BY <1>3, <2>1
  <2> HIDE DEF choice
  <2>3. Min(choice) \in choice /\ \A i \in choice : Min(choice) <= i
    BY <2>2, FirstPosition
  <2>4. want = Min(choice)
    OBVIOUS
  <2> QED BY <2>2, <2>3, <2>4
<1>5. cache' = [cache EXCEPT ![dst] = e]
  BY <1>1, <1>2
<1> HIDE DEF want
<1>6. /\ prefix \in Seq(Digests) /\ Len(prefix) = want /\ DOMAIN prefix = 1..want
      /\ \A j \in 1..want : prefix[j] = PageLists[src][j] /\ j \in 1..Len(PageLists[src])
  BY <1>3, <1>4
<1>7. wrote' = [wrote EXCEPT ![dst] = prefix]
  BY <1>1, <1>2, <1>3
<1> HIDE DEF prefix
<1>8. e \in CacheRecords /\ e.live /\ e.pages = prefix
  BY <1>1, <1>3, <1>6 DEF CacheRecords
<1> HIDE DEF e
<1>9. /\ PageLists' = [PageLists EXCEPT ![dst] = prefix] /\ wrote' = PageLists'
      /\ cache' \in [Caches -> CacheRecords] /\ \A x \in Caches : cache'[x].live \/ cache'[x] = Free
  BY <1>5, <1>7, <1>8, PagesBecome DEF Becomes
<1>10. /\ PageLists' \in [Caches -> Seq(Digests)] /\ PageLists'[dst] = prefix
       /\ \A x \in Caches : x # dst => PageLists'[x] = PageLists[x]
  BY <1>3, <1>6, <1>9
<1>11. Longer(PageLists, PageLists', dst, 0)
  <2>1. PagesOf(PageLists')
    <3>1. \A x \in Caches : Len(PageLists'[x]) <= MaxPages
      BY <1>1, <1>3, <1>6, <1>10 DEF PagesOf
    <3> QED BY <1>10, <3>1 DEF PagesOf
  <2>2. Len(PageLists[dst]) = 0 /\ 0 <= Len(PageLists'[dst])
    BY <1>1, <1>3, <1>4, <1>6, <1>10
  <2> QED BY <1>3, <1>10, <2>1, <2>2 DEF Longer
<1>12. \A j \in (0 + 1)..Len(PageLists'[dst]) : PageLists'[dst][j] \in DOMAIN ref
  BY <1>2, <1>6, <1>10 DEF Balanced
<1>13. Balanced(lru, Taken(ref, PageLists', dst, 0), bytesLive, PageLists')
  BY <1>2, <1>11, <1>12, TakeKeeps
<1>14. ref' = Taken(ref, PageLists', dst, 0)
  <2>1. (0 + 1)..Len(PageLists'[dst]) = DOMAIN prefix
    BY <1>6, <1>10
  <2> QED BY <1>1, <1>10, <2>1 DEF Taken
<1>15. Balanced(lru', ref', bytesLive', PageLists')
  BY <1>1, <1>13, <1>14
<1> QED BY <1>9, <1>15 DEF KvInv, CacheRecords

(* A sequence takes one more page.                                          *)
LEMMA TakesOne ==
  ASSUME KvInv, NEW c \in Caches, NEW d \in Digests, cache[c].live, Takes(c, d)
  PROVE  /\ PageLists' = [PageLists EXCEPT ![c] = Append(@, d)] /\ wrote' = PageLists'
         /\ cache' \in [Caches -> CacheRecords] /\ \A x \in Caches : cache'[x].live \/ cache'[x] = Free
<1> DEFINE q == Append(cache[c].pages, d)
           t == cache[c].tokens + 1
           e == [[cache[c] EXCEPT !.pages = q] EXCEPT !.tokens = t]
<1>1. /\ cache' = [cache EXCEPT ![c].pages = Append(@, d), ![c].tokens = @ + 1]
      /\ wrote' = [wrote EXCEPT ![c] = Append(@, d)]
  BY DEF Takes
<1>2. cache \in [Caches -> CacheRecords] /\ wrote = PageLists /\ cache[c] \in CacheRecords /\ PageLists[c] = cache[c].pages
  BY DEF KvInv, CacheRecords, PageLists
<1>3. cache' = [cache EXCEPT ![c] = e]
  BY <1>1, <1>2
<1>4. q \in Seq(Digests) /\ t \in Nat /\ q = Append(PageLists[c], d)
  BY <1>2 DEF CacheRecords
<1> HIDE DEF q, t
<1>5. e \in CacheRecords /\ e.live /\ e.pages = q
  BY <1>2, <1>4 DEF CacheRecords
<1> HIDE DEF e
<1>6. wrote' = [wrote EXCEPT ![c] = e.pages] /\ [PageLists EXCEPT ![c] = e.pages] = [PageLists EXCEPT ![c] = Append(@, d)]
  BY <1>1, <1>2, <1>4, <1>5
<1>7. /\ PageLists' = [PageLists EXCEPT ![c] = e.pages] /\ wrote' = PageLists'
      /\ cache' \in [Caches -> CacheRecords] /\ \A x \in Caches : cache'[x].live \/ cache'[x] = Free
  BY <1>3, <1>5, <1>6, PagesBecome DEF Becomes
<1> QED BY <1>6, <1>7

(* rk_kv_append of a stored page: it moves to the new end of the list and   *)
(* is referenced once more.                                                 *)
LEMMA AdoptKeeps ==
  ASSUME KvAssumption, KvInv, NEW c \in Caches, NEW d \in Digests,
         cache[c].live, Len(cache[c].pages) < MaxPages, Adopt(c, d)
  PROVE  KvInv' /\ DOMAIN ref' = DOMAIN ref
<1>1. /\ d \in DOMAIN ref /\ Takes(c, d) /\ lru' = Append(RemoveFirst(lru, d), d)
      /\ ref' = [ref EXCEPT ![d] = @ + 1] /\ bytesLive' = bytesLive
  BY DEF Adopt
<1>2. /\ PageLists' = [PageLists EXCEPT ![c] = Append(@, d)] /\ wrote' = PageLists'
      /\ cache' \in [Caches -> CacheRecords] /\ \A x \in Caches : cache'[x].live \/ cache'[x] = Free
  BY <1>1, TakesOne
<1>3. Balanced(lru, ref, bytesLive, PageLists) /\ Stored(lru, ref, bytesLive) /\ Len(PageLists[c]) < MaxPages
  BY DEF KvInv, Balanced, PageLists
<1>4. Stored(lru', ref, bytesLive)
  BY <1>1, <1>3, TailKeeps
<1>5. Balanced(lru', ref, bytesLive, PageLists)
  BY <1>3, <1>4 DEF Balanced
<1>6. Balanced(lru', [ref EXCEPT ![d] = @ + 1], bytesLive, PageLists')
  BY <1>1, <1>2, <1>3, <1>5, OnePage
<1>7. Balanced(lru', ref', bytesLive', PageLists')
  BY <1>1, <1>6
<1>8. DOMAIN ref' = DOMAIN ref
  BY <1>1
<1> QED BY <1>2, <1>7, <1>8 DEF KvInv, CacheRecords

(* The page a sequence stores is the only one that is new, and it takes the *)
(* bytes over the budget only when no page is idle.                         *)
LEMMA StoreKeeps ==
  ASSUME KvAssumption, KvInv, NEW c \in Caches, NEW d \in Digests,
         cache[c].live, Len(cache[c].pages) < MaxPages, Store(c, d)
  PROVE  KvInv' /\ (bytesLive' > Budget => \A x \in DOMAIN ref' : ref'[x] > 0)
<1> DEFINE e == Evict(Now, PageBytes, Budget)
           r == [x \in DOMAIN e.ref \cup {d} |-> IF x = d THEN 0 ELSE e.ref[x]]
<1>1. /\ d \notin DOMAIN ref /\ Takes(c, d)
      /\ lru' = Append(e.lru, d) /\ bytesLive' = e.bytes + PageBytes
      /\ ref' = [x \in DOMAIN e.ref \cup {d} |-> IF x = d THEN 1 ELSE e.ref[x]]
  BY DEF Store, Commit
<1>2. /\ PageLists' = [PageLists EXCEPT ![c] = Append(@, d)] /\ wrote' = PageLists'
      /\ cache' \in [Caches -> CacheRecords] /\ \A x \in Caches : cache'[x].live \/ cache'[x] = Free
  BY <1>1, TakesOne
<1>3. Balanced(lru, ref, bytesLive, PageLists) /\ Len(PageLists[c]) < MaxPages
  BY DEF KvInv, PageLists
<1>4. Now.lru = lru /\ Now.ref = ref /\ Now.bytes = bytesLive
  BY DEF Now
<1>5. /\ Balanced(e.lru, e.ref, e.bytes, PageLists) /\ DOMAIN e.ref \subseteq DOMAIN ref
      /\ \A x \in DOMAIN e.ref : e.ref[x] = 0 => e.bytes + PageBytes <= Budget
  <2>1. PageBytes \in Nat /\ Budget \in Int
    BY DEF KvAssumption
  <2>2. Balanced(Now.lru, Now.ref, Now.bytes, PageLists)
    BY <1>3, <1>4
  <2> QED BY <1>4, <2>1, <2>2, EvictKeeps
<1> HIDE DEF e
<1>6. d \notin DOMAIN e.ref
  BY <1>1, <1>5
<1>7. Balanced(lru', r, bytesLive', PageLists)
  BY <1>1, <1>5, <1>6, NewPageKeeps
<1>8. Balanced(lru', [r EXCEPT ![d] = @ + 1], bytesLive', PageLists')
  <2>1. d \in DOMAIN r
    OBVIOUS
  <2> HIDE DEF r
  <2> QED BY <1>2, <1>3, <1>7, <2>1, OnePage
<1>9. ref' = [r EXCEPT ![d] = @ + 1]
  <2>1. r[d] = 0 /\ DOMAIN r = DOMAIN e.ref \cup {d} /\ r = [x \in DOMAIN r |-> r[x]]
        /\ \A x \in DOMAIN r : x # d => r[x] = e.ref[x]
    OBVIOUS
  <2>2. DOMAIN ref' = DOMAIN r /\ ref' = [x \in DOMAIN r |-> ref'[x]]
        /\ \A x \in DOMAIN r : ref'[x] = IF x = d THEN 1 ELSE e.ref[x]
    BY <1>1
  <2> HIDE DEF r
  <2>3. \A x \in DOMAIN r : ref'[x] = [r EXCEPT ![d] = @ + 1][x]
    BY <2>1, <2>2
  <2> QED BY <2>1, <2>2, <2>3
<1>10. ASSUME bytesLive' > Budget, NEW x \in DOMAIN ref' PROVE ref'[x] > 0
  <2>1. e.ref \in [DOMAIN e.ref -> Nat] /\ e.bytes \in Int /\ PageBytes \in Int /\ Budget \in Int
    BY <1>5 DEF KvAssumption, Balanced, Stored
  <2>2. CASE x = d
    BY <1>1, <2>2
  <2>3. CASE x # d
    <3>1. x \in DOMAIN e.ref /\ ref'[x] = e.ref[x] /\ e.ref[x] \in Nat
      BY <1>1, <1>10, <2>1, <2>3
    <3>2. e.ref[x] # 0
      BY <1>1, <1>5, <1>10, <2>1, <3>1
    <3> QED BY <3>1, <3>2
  <2> QED BY <2>2, <2>3
<1> QED BY <1>2, <1>8, <1>9, <1>10 DEF KvInv, CacheRecords

(* Eviction alone, for room that is not used or under pressure.             *)
LEMMA EvictAloneKeeps ==
  ASSUME KvAssumption, KvInv, NEW want \in Nat, NEW budget \in Int,
         Commit(Evict(Now, want, budget)), UNCHANGED <<cache, wrote>>
  PROVE  KvInv' /\ DOMAIN ref' \subseteq DOMAIN ref
<1> DEFINE e == Evict(Now, want, budget)
<1>1. lru' = e.lru /\ ref' = e.ref /\ bytesLive' = e.bytes
  BY DEF Commit
<1>2. Now.lru = lru /\ Now.ref = ref /\ Now.bytes = bytesLive
  BY DEF Now
<1>3. Balanced(Now.lru, Now.ref, Now.bytes, PageLists)
  BY <1>2 DEF KvInv
<1>4. Balanced(e.lru, e.ref, e.bytes, PageLists) /\ DOMAIN e.ref \subseteq DOMAIN ref
  BY <1>2, <1>3, EvictKeeps
<1> HIDE DEF e
<1>5. PageLists' = PageLists
  BY DEF PageLists
<1> QED BY <1>1, <1>4, <1>5 DEF KvInv

(* Nothing is stored at first.                                              *)
LEMMA KvStart == KvAssumption /\ KvInit => KvInv
<1> SUFFICES ASSUME KvAssumption, KvInit PROVE KvInv
  OBVIOUS
<1>1. /\ lru = <<>> /\ ref = <<>> /\ bytesLive = 0 /\ cache = [c \in Caches |-> Free] /\ wrote = [c \in Caches |-> <<>>]
  BY DEF KvInit
<1>2. Free \in CacheRecords /\ Free.pages = <<>>
  BY DEF Free, CacheRecords
<1>3. Stored(lru, ref, bytesLive)
  <2>1. DOMAIN ref = {} /\ ref \in [DOMAIN ref -> Nat] /\ lru \in Seq(Digests) /\ Len(lru) = 0
    BY <1>1
  <2>2. IsInjective(lru) /\ \A x : ~Contains(lru, x)
    BY <1>1 DEF IsInjective, Contains
  <2>3. bytesLive = PageBytes * Len(lru)
    BY <1>1, <2>1 DEF KvAssumption
  <2> QED BY <2>1, <2>2, <2>3 DEF Stored
<1>4. PageLists = [c \in Caches |-> <<>>]
  BY <1>1, <1>2 DEF PageLists
<1>5. PagesOf(PageLists) /\ \A c \in Caches : Len(PageLists[c]) = 0
  BY <1>4 DEF KvAssumption, PagesOf
<1>6. Balanced(lru, ref, bytesLive, PageLists)
  <2>1. DOMAIN ref = {} /\ \A c \in Caches : 1..Len(PageLists[c]) = {}
    BY <1>1, <1>5
  <2> QED BY <1>3, <1>5, <2>1 DEF Balanced
<1>7. cache \in [Caches -> CacheRecords] /\ \A c \in Caches : cache[c] = Free
  BY <1>1, <1>2
<1> QED BY <1>1, <1>4, <1>6, <1>7 DEF KvInv, CacheRecords

(* A step keeps the counts, and takes the bytes over the budget with a new  *)
(* page only when no page is idle.                                          *)
Over == \A d \in DOMAIN ref' \ DOMAIN ref : bytesLive' > Budget => \A x \in DOMAIN ref' : ref'[x] > 0

LEMMA KvStep ==
  ASSUME KvAssumption, KvInv, [KvNext]_kvVars
  PROVE  KvInv' /\ Over
<1>1. ASSUME NEW c \in Caches, Create(c) PROVE KvInv' /\ Over
  <2>1. ref' = ref
    BY <1>1 DEF Create
  <2> QED BY <1>1, <2>1, CreateKeeps DEF Over
<1>2. ASSUME NEW c \in Caches, KvDestroy(c) PROVE KvInv' /\ Over
  <2>1. DOMAIN ref' = DOMAIN ref
    BY <1>2 DEF KvDestroy, Release
  <2> QED BY <1>2, <2>1, DestroyKeeps DEF Over
<1>3. ASSUME NEW c \in Caches, NEW l \in Layers, NEW x \in Contents, KvAppend(c, l, x) PROVE KvInv' /\ Over
  <2> DEFINE d == [layer |-> l, pos |-> cache[c].tokens, data |-> x]
  <2>1. cache[c].live /\ Len(cache[c].pages) < MaxPages /\ (Adopt(c, d) \/ Store(c, d) \/ NoMemory(d))
    BY <1>3 DEF KvAppend
  <2>2. d \in Digests
    <3>1. cache[c].tokens \in Nat
      BY DEF KvInv
    <3> QED BY <3>1 DEF Digests
  <2> HIDE DEF d
  <2>3. CASE Adopt(c, d)
    BY <2>1, <2>2, <2>3, AdoptKeeps DEF Over
  <2>4. CASE Store(c, d)
    BY <2>1, <2>2, <2>4, StoreKeeps DEF Over
  <2>5. CASE NoMemory(d)
    <3>1. Commit(Evict(Now, PageBytes, Budget)) /\ UNCHANGED <<cache, wrote>>
      BY <2>5 DEF NoMemory
    <3>2. PageBytes \in Nat /\ Budget \in Int
      BY DEF KvAssumption
    <3> QED BY <3>1, <3>2, EvictAloneKeeps DEF Over
  <2> QED BY <2>1, <2>3, <2>4, <2>5
<1>4. ASSUME NEW c \in Caches, NEW s \in Caches, NEW n \in 0..1, Fork(c, s, n) PROVE KvInv' /\ Over
  <2>1. DOMAIN ref' = DOMAIN ref
    BY <1>4 DEF Fork
  <2> QED BY <1>4, <2>1, ForkKeeps DEF Over
<1>5. ASSUME NEW c \in Caches, NEW n \in 0..1, Trim(c, n) PROVE KvInv' /\ Over
  <2>1. DOMAIN ref' = DOMAIN ref
    BY <1>5 DEF Trim, Release
  <2> QED BY <1>5, <2>1, TrimKeeps DEF Over
<1>6. ASSUME NEW want \in {PageBytes, Budget - 1}, PressureEvict(want) PROVE KvInv' /\ Over
  <2> DEFINE b == IF Budget > want THEN Budget - want ELSE Budget
  <2>1. Commit(Evict(Now, 0, b)) /\ UNCHANGED <<cache, wrote>>
    BY <1>6 DEF PressureEvict
  <2>2. b \in Int
    BY DEF KvAssumption
  <2> HIDE DEF b
  <2> QED BY <2>1, <2>2, EvictAloneKeeps DEF Over
<1>7. CASE UNCHANGED kvVars
  <2>1. lru' = lru /\ ref' = ref /\ cache' = cache /\ bytesLive' = bytesLive /\ wrote' = wrote
    BY <1>7 DEF kvVars
  <2> QED BY <2>1 DEF KvInv, PageLists, Over
<1> QED BY <1>1, <1>2, <1>3, <1>4, <1>5, <1>6, <1>7 DEF KvNext

(* What the counts say of the property.                                     *)
LEMMA KvMeaning == KvInv => PagesLive
<1> SUFFICES ASSUME KvInv PROVE PagesLive
  OBVIOUS
<1>1. /\ cache \in [Caches -> CacheRecords] /\ wrote = PageLists /\ Balanced(lru, ref, bytesLive, PageLists)
      /\ Stored(lru, ref, bytesLive) /\ \A c \in Caches : PageLists[c] = cache[c].pages /\ PageLists[c] \in Seq(Digests)
  BY DEF KvInv, CacheRecords, PageLists, Balanced, PagesOf
<1>2. ASSUME NEW c \in Caches PROVE cache[c].pages = wrote[c] /\ Range(wrote[c]) \subseteq DOMAIN ref
  <2>1. DOMAIN PageLists[c] = 1..Len(PageLists[c])
    BY <1>1
  <2> QED BY <1>1, <2>1 DEF Range, Balanced
<1>3. ASSUME NEW d \in DOMAIN ref PROVE ref[d] = Cardinality(References(d))
  <2>1. References(d) = Places(PageLists, d)
    <3>1. ASSUME NEW m \in Caches \X (1..MaxPages) PROVE PageLists[m[1]] = cache[m[1]].pages
      BY <1>1
    <3> QED BY <3>1 DEF References, Places
  <2> QED BY <1>1, <2>1 DEF Balanced
<1>4. Range(lru) = DOMAIN ref /\ IsInjective(lru) /\ bytesLive = PageBytes * Len(lru)
  <2>1. DOMAIN lru = 1..Len(lru)
    BY <1>1 DEF Stored
  <2>2. \A x : x \in Range(lru) <=> x \in DOMAIN ref
    BY <1>1, <2>1 DEF Range, Stored, Contains
  <2> QED BY <1>1, <2>2 DEF Stored
<1> QED BY <1>2, <1>3, <1>4 DEF PagesLive

(* kv.c: a live sequence finds every page it computed, in order, whatever   *)
(* was shared, forked, trimmed or evicted; a page's count is its references *)
(* and the bytes counted are those of the stored pages.                     *)
THEOREM KvPages == KvAssumption /\ KvSpec => []PagesLive
<1> SUFFICES ASSUME KvAssumption PROVE KvSpec => []PagesLive
  OBVIOUS
<1>1. KvInit => KvInv
  BY KvStart
<1>2. KvInv /\ [KvNext]_kvVars => KvInv'
  BY KvStep
<1>3. KvInv => PagesLive
  BY KvMeaning
<1> QED BY <1>1, <1>2, <1>3, PTL DEF KvSpec

(* kv.c: a new page exceeds the budget only if every other page is in use.  *)
THEOREM KvBudget == KvAssumption /\ KvSpec => BudgetKept
<1> SUFFICES ASSUME KvAssumption PROVE KvSpec => BudgetKept
  OBVIOUS
<1>1. KvInit => KvInv
  BY KvStart
<1>2. KvInv /\ [KvNext]_kvVars => KvInv'
  BY KvStep
<1>3. KvInv /\ [KvNext]_kvVars =>
        [\A d \in DOMAIN ref' \ DOMAIN ref : bytesLive' > Budget => \A x \in DOMAIN ref' : ref'[x] > 0]_kvVars
  BY KvStep DEF Over
<1> QED BY <1>1, <1>2, <1>3, PTL DEF KvSpec, BudgetKept
-----------------------------------------------------------------------------
(* Memory objects and areas.                                                *)
LiveObjects == UNION {[kind : {"anon", "cow"}, n : {n}, frames : [1..n -> Frames \cup {0}], ref : Nat \ {0}] : n \in Nat}
Areas == [start : Int, end : Int, prot : Protections, flag : Flags, obj : Objs, off : Nat]

(* The areas of the spaces ar that name the object o.                       *)
Naming(ar, o) == {m \in UNION {{s} \X DOMAIN ar[s] : s \in Spaces} : ar[m[1]][m[2]].obj = o}
Named1(l, o) == {i \in DOMAIN l : l[i].obj = o}

RefsCounted(ob, ar) == \A o \in Objs : ob[o].ref = Cardinality(Naming(ar, o))

FramesApart(ob) ==
  \A o, q \in Objs : \A i \in DOMAIN ob[o].frames, j \in DOMAIN ob[q].frames :
    ob[o].frames[i] # 0 /\ ob[o].frames[i] = ob[q].frames[j] => o = q /\ i = j

Consistent(ob, ar) ==
  /\ ob \in [Objs -> LiveObjects \cup {NoObj}] /\ ar \in [Spaces -> Seq(Areas)]
  /\ RefsCounted(ob, ar) /\ FramesApart(ob)

VmmInv == Consistent(obj, areas) /\ filling \in {NoFill} \cup [s : Spaces, area : Areas, next : Nat]

(* The areas more are those of ar, but for the list l of the space s.       *)
OneListChanged(ar, more, s, l) ==
  more \in [Spaces -> Seq(Areas)] /\ more[s] = l /\ \A x \in Spaces : x # s => more[x] = ar[x]

(* A list is changed in one space.                                          *)
LEMMA OneList ==
  ASSUME VmmAssumption, NEW ar \in [Spaces -> Seq(Areas)], NEW s \in Spaces, NEW l \in Seq(Areas), NEW o,
         NEW more, OneListChanged(ar, more, s, l)
  PROVE  /\ IsFiniteSet(Named1(ar[s], o)) /\ IsFiniteSet(Named1(l, o))
         /\ Cardinality(Named1(ar[s], o)) \in Nat /\ Cardinality(Named1(l, o)) \in Nat
         /\ Cardinality(Naming(ar, o)) \in Nat /\ Cardinality(Naming(more, o)) \in Nat
         /\ Cardinality(Named1(ar[s], o)) <= Cardinality(Naming(ar, o))
         /\ Cardinality(Naming(more, o)) = Cardinality(Naming(ar, o)) - Cardinality(Named1(ar[s], o)) + Cardinality(Named1(l, o))
<1> DEFINE R == {m \in Naming(ar, o) : m[1] # s}
           A == Named1(ar[s], o)
           B == Named1(l, o)
<1>1. /\ more \in [Spaces -> Seq(Areas)] /\ more[s] = l /\ \A x \in Spaces : x # s => more[x] = ar[x]
      /\ ar[s] \in Seq(Areas)
  BY DEF OneListChanged
<1>2. \A x \in Spaces : DOMAIN ar[x] = 1..Len(ar[x]) /\ Len(ar[x]) \in Nat /\ DOMAIN l = 1..Len(l) /\ Len(l) \in Nat
  BY <1>1
<1>3. \A n \in Nat : IsFiniteSet(1..n)
  BY FS_Interval
<1>4. IsFiniteSet(A) /\ IsFiniteSet(B) /\ Cardinality(A) \in Nat /\ Cardinality(B) \in Nat
  <2>1. A \in SUBSET DOMAIN ar[s] /\ B \in SUBSET DOMAIN l
    BY DEF Named1
  <2>2. IsFiniteSet(DOMAIN ar[s]) /\ IsFiniteSet(DOMAIN l)
    BY <1>2, <1>3
  <2> HIDE DEF A, B
  <2> QED BY <2>1, <2>2, FS_Subset, FS_CardinalityType
<1>5. IsFiniteSet(R)
  <2> DEFINE parts == {{x} \X DOMAIN ar[x] : x \in Spaces}
  <2>1. IsFiniteSet(parts)
    <3> DEFINE f == [x \in Spaces |-> {x} \X DOMAIN ar[x]]
    <3>1. f \in Surjection(Spaces, parts)
      BY DEF Surjection
    <3> HIDE DEF f, parts
    <3> QED BY <3>1, FS_Surjection DEF VmmAssumption
  <2>2. \A T \in parts : IsFiniteSet(T)
    <3>1. ASSUME NEW x \in Spaces PROVE IsFiniteSet({x} \X DOMAIN ar[x])
      BY <1>2, <1>3, FS_Singleton, FS_Product
    <3> QED BY <3>1
  <2>3. IsFiniteSet(UNION parts)
    <3> HIDE DEF parts
    <3> QED BY <2>1, <2>2, FS_UNION
  <2>4. R \subseteq UNION parts
    BY DEF Naming
  <2> HIDE DEF parts, R
  <2> QED BY <2>3, <2>4, FS_Subset
<1>6. ASSUME NEW ax \in [Spaces -> Seq(Areas)], \A x \in Spaces : x # s => ax[x] = ar[x]
      PROVE  LET C == Named1(ax[s], o) IN Naming(ax, o) = R \cup ({s} \X C) /\ R \cap ({s} \X C) = {}
  <2> DEFINE C == Named1(ax[s], o)
  <2>1. ASSUME NEW x \in Spaces, NEW i
        PROVE  <<x, i>> \in Naming(ax, o) <=> <<x, i>> \in R \/ <<x, i>> \in {s} \X C
    <3>1. \A ay : <<x, i>> \in Naming(ay, o) <=> i \in DOMAIN ay[x] /\ ay[x][i].obj = o
      BY DEF Naming
    <3>2. <<x, i>> \in R <=> <<x, i>> \in Naming(ar, o) /\ x # s
      OBVIOUS
    <3>3. <<x, i>> \in {s} \X C <=> x = s /\ i \in DOMAIN ax[s] /\ ax[s][i].obj = o
      BY DEF Named1
    <3>4. CASE x = s
      BY <3>1, <3>2, <3>3, <3>4
    <3>5. CASE x # s
      <4>1. ax[x] = ar[x]
        BY <1>6, <3>5
      <4> QED BY <3>1, <3>2, <3>3, <3>5, <4>1
    <3> QED BY <3>4, <3>5
  <2>2. \A m \in Naming(ax, o) \cup R \cup ({s} \X C) : \E x \in Spaces : \E i : m = <<x, i>>
    BY DEF Naming
  <2>3. Naming(ax, o) = R \cup ({s} \X C)
    <3> HIDE DEF R, C
    <3> QED BY <2>1, <2>2
  <2>4. R \cap ({s} \X C) = {}
    OBVIOUS
  <2> QED BY <2>3, <2>4
<1>7. ASSUME NEW C, IsFiniteSet(C), R \cap ({s} \X C) = {}
      PROVE  Cardinality(R \cup ({s} \X C)) = Cardinality(R) + Cardinality(C) /\ Cardinality(R) \in Nat /\ Cardinality(C) \in Nat
  <2> HIDE DEF R
  <2>1. IsFiniteSet({s}) /\ Cardinality({s}) = 1
    BY FS_Singleton
  <2>2. Cardinality(C) \in Nat /\ Cardinality(R) \in Nat
    BY <1>5, <1>7, FS_CardinalityType
  <2>3. IsFiniteSet({s} \X C) /\ Cardinality({s} \X C) = 1 * Cardinality(C)
    BY <1>7, <2>1, FS_Product
  <2>4. Cardinality(R \cup ({s} \X C)) = Cardinality(R) + Cardinality({s} \X C) - Cardinality(R \cap ({s} \X C))
    BY <1>5, <2>3, FS_Union
  <2>5. Cardinality({}) = 0
    BY FS_EmptySet
  <2>6. Cardinality(R \cap ({s} \X C)) = 0
    BY <1>7, <2>5
  <2> QED BY <2>2, <2>3, <2>4, <2>6
<1>8. Cardinality(Naming(ar, o)) = Cardinality(R) + Cardinality(A) /\ Cardinality(R) \in Nat
  <2>1. Naming(ar, o) = R \cup ({s} \X A) /\ R \cap ({s} \X A) = {}
    BY <1>6
  <2> HIDE DEF R, A
  <2> QED BY <1>4, <1>7, <2>1
<1>9. Cardinality(Naming(more, o)) = Cardinality(R) + Cardinality(B)
  <2>1. Naming(more, o) = R \cup ({s} \X B) /\ R \cap ({s} \X B) = {}
    BY <1>1, <1>6
  <2> HIDE DEF R, B
  <2> QED BY <1>4, <1>7, <2>1
<1>10. /\ Cardinality(Naming(ar, o)) \in Nat /\ Cardinality(Naming(more, o)) \in Nat
       /\ Cardinality(A) <= Cardinality(Naming(ar, o))
       /\ Cardinality(Naming(more, o)) = Cardinality(Naming(ar, o)) - Cardinality(A) + Cardinality(B)
  <2> HIDE DEF R, A, B
  <2> QED BY <1>4, <1>8, <1>9
<1> QED BY <1>4, <1>10

(* What an object is.                                                       *)
LEMMA ObjectParts ==
  ASSUME NEW x \in LiveObjects \cup {NoObj}
  PROVE  /\ x.n \in Nat /\ x.frames \in [1..x.n -> Frames \cup {0}] /\ x.ref \in Nat
         /\ (x.ref = 0 <=> x = NoObj) /\ (x = NoObj <=> x.kind = "none")
         /\ x \in LiveObjects => x.kind \in {"anon", "cow"}
<1>1. CASE x = NoObj
  <2>1. NoObj.n = 0 /\ NoObj.frames = <<>> /\ NoObj.ref = 0 /\ NoObj.kind = "none"
    BY DEF NoObj
  <2>2. <<>> \in [1..0 -> Frames \cup {0}]
    OBVIOUS
  <2>3. NoObj \notin LiveObjects
    BY <2>1 DEF LiveObjects
  <2> QED BY <1>1, <2>1, <2>2, <2>3
<1>2. CASE x \in LiveObjects
  <2>1. PICK n \in Nat : x \in [kind : {"anon", "cow"}, n : {n}, frames : [1..n -> Frames \cup {0}], ref : Nat \ {0}]
    BY <1>2 DEF LiveObjects
  <2>2. x.n = n /\ x.frames \in [1..n -> Frames \cup {0}] /\ x.ref \in Nat \ {0} /\ x.kind \in {"anon", "cow"}
    BY <2>1
  <2>3. x # NoObj
    BY <2>2 DEF NoObj
  <2> QED BY <2>2, <2>3
<1> QED BY <1>1, <1>2

(* An object keeps its kind and its frames when its count changes.          *)
LEMMA RefChanges ==
  ASSUME NEW x \in LiveObjects, NEW r \in Nat \ {0}
  PROVE  LET y == [x EXCEPT !.ref = r] IN y \in LiveObjects /\ y.ref = r /\ y.frames = x.frames /\ y.kind = x.kind /\ y.n = x.n
<1>1. PICK n \in Nat : x \in [kind : {"anon", "cow"}, n : {n}, frames : [1..n -> Frames \cup {0}], ref : Nat \ {0}]
  BY DEF LiveObjects
<1> QED BY <1>1 DEF LiveObjects

(* An object keeps its count when it gets a frame.                          *)
LEMMA FrameChanges ==
  ASSUME NEW x \in LiveObjects, NEW i \in 1..x.n, NEW f \in Frames
  PROVE  LET y == [x EXCEPT !.frames = [x.frames EXCEPT ![i] = f]] IN
           /\ y \in LiveObjects /\ y.ref = x.ref /\ y.kind = x.kind /\ y.n = x.n
           /\ DOMAIN y.frames = DOMAIN x.frames /\ y.frames[i] = f
           /\ \A j \in DOMAIN x.frames : j # i => y.frames[j] = x.frames[j]
<1>1. PICK n \in Nat : x \in [kind : {"anon", "cow"}, n : {n}, frames : [1..n -> Frames \cup {0}], ref : Nat \ {0}]
  BY DEF LiveObjects
<1> DEFINE g == [x.frames EXCEPT ![i] = f]
<1>2. g \in [1..n -> Frames \cup {0}] /\ DOMAIN g = DOMAIN x.frames /\ g[i] = f /\ \A j \in DOMAIN x.frames : j # i => g[j] = x.frames[j]
  BY <1>1
<1> HIDE DEF g
<1>3. LET y == [x EXCEPT !.frames = g] IN y \in [kind : {"anon", "cow"}, n : {n}, frames : [1..n -> Frames \cup {0}], ref : Nat \ {0}]
        /\ y.frames = g /\ y.ref = x.ref /\ y.kind = x.kind /\ y.n = x.n
  BY <1>1, <1>2
<1>4. LET y == [x EXCEPT !.frames = g] IN y \in LiveObjects
  BY <1>3 DEF LiveObjects
<1>5. [x EXCEPT !.frames = g] = [x EXCEPT !.frames = [x.frames EXCEPT ![i] = f]]
  BY DEF g
<1> QED BY <1>2, <1>3, <1>4, <1>5

(* LiveObjects that gain no frames lie as far apart as before.              *)
LEMMA FramesFewer ==
  ASSUME NEW ob, NEW e, FramesApart(ob),
         \A o \in Objs : \A i \in DOMAIN e[o].frames :
           e[o].frames[i] = 0 \/ (i \in DOMAIN ob[o].frames /\ e[o].frames[i] = ob[o].frames[i])
  PROVE  FramesApart(e)
<1> SUFFICES ASSUME NEW o \in Objs, NEW q \in Objs, NEW i \in DOMAIN e[o].frames, NEW j \in DOMAIN e[q].frames,
                    e[o].frames[i] # 0, e[o].frames[i] = e[q].frames[j]
             PROVE  o = q /\ i = j
  BY DEF FramesApart
<1>1. /\ i \in DOMAIN ob[o].frames /\ e[o].frames[i] = ob[o].frames[i]
      /\ j \in DOMAIN ob[q].frames /\ e[q].frames[j] = ob[q].frames[j]
  OBVIOUS
<1>2. ob[o].frames[i] # 0 /\ ob[o].frames[i] = ob[q].frames[j]
  BY <1>1
<1> QED BY <1>1, <1>2 DEF FramesApart

(* References taken: to objects that live.                                  *)
LEMMA GetKeeps ==
  ASSUME NEW ob \in [Objs -> LiveObjects \cup {NoObj}], FramesApart(ob), NEW k \in [Objs -> Nat],
         \A o \in Objs : ob[o] = NoObj => k[o] = 0, NEW e, e = Get(ob, k)
  PROVE  e \in [Objs -> LiveObjects \cup {NoObj}] /\ FramesApart(e) /\ \A o \in Objs : e[o].ref = ob[o].ref + k[o]
<1>1. e = [o \in Objs |-> [ob[o] EXCEPT !.ref = @ + k[o]]]
  BY DEF Get
<1>2. ASSUME NEW o \in Objs
      PROVE  e[o] \in LiveObjects \cup {NoObj} /\ e[o].ref = ob[o].ref + k[o] /\ e[o].frames = ob[o].frames
  <2>1. e[o] = [ob[o] EXCEPT !.ref = ob[o].ref + k[o]] /\ ob[o] \in LiveObjects \cup {NoObj}
    BY <1>1
  <2>2. CASE ob[o] = NoObj
    <3>1. k[o] = 0 /\ NoObj.ref = 0
      BY <2>2 DEF NoObj
    <3>2. [NoObj EXCEPT !.ref = 0] = NoObj
      BY DEF NoObj
    <3> QED BY <2>1, <2>2, <3>1, <3>2
  <2>3. CASE ob[o] \in LiveObjects
    <3>1. ob[o].ref \in Nat \ {0} /\ k[o] \in Nat
      BY <2>1, <2>3, ObjectParts DEF NoObj
    <3>2. ob[o].ref + k[o] \in Nat \ {0}
      BY <3>1
    <3> QED BY <2>1, <2>3, <3>2, RefChanges
  <2> QED BY <2>1, <2>2, <2>3
<1>3. FramesApart(e)
  BY <1>2, FramesFewer
<1> QED BY <1>1, <1>2, <1>3

(* References dropped: at most those there are.                             *)
LEMMA PutKeeps ==
  ASSUME NEW ob \in [Objs -> LiveObjects \cup {NoObj}], FramesApart(ob), NEW k \in [Objs -> Nat],
         \A o \in Objs : k[o] <= ob[o].ref, NEW e, e = Put(ob, k)
  PROVE  e \in [Objs -> LiveObjects \cup {NoObj}] /\ FramesApart(e) /\ \A o \in Objs : e[o].ref = ob[o].ref - k[o]
<1>1. e = [o \in Objs |-> IF ob[o].ref = k[o] THEN NoObj ELSE [ob[o] EXCEPT !.ref = @ - k[o]]]
  BY DEF Put
<1>2. NoObj.ref = 0 /\ DOMAIN NoObj.frames = {}
  BY DEF NoObj
<1>3. ASSUME NEW o \in Objs
      PROVE  /\ e[o] \in LiveObjects \cup {NoObj} /\ e[o].ref = ob[o].ref - k[o]
             /\ e[o].frames = ob[o].frames \/ DOMAIN e[o].frames = {}
  <2>1. ob[o] \in LiveObjects \cup {NoObj} /\ ob[o].ref \in Nat /\ k[o] \in Nat /\ k[o] <= ob[o].ref
    BY ObjectParts
  <2>2. CASE ob[o].ref = k[o]
    <3>1. e[o] = NoObj /\ ob[o].ref - k[o] = 0
      BY <1>1, <2>1, <2>2
    <3> QED BY <1>2, <3>1
  <2>3. CASE ob[o].ref # k[o]
    <3>1. e[o] = [ob[o] EXCEPT !.ref = ob[o].ref - k[o]]
      BY <1>1, <2>3
    <3>2. ob[o].ref - k[o] \in Nat \ {0} /\ ob[o].ref # 0
      BY <2>1, <2>3
    <3>3. ob[o] \in LiveObjects
      BY <1>2, <2>1, <3>2
    <3> QED BY <3>1, <3>2, <3>3, RefChanges
  <2> QED BY <2>2, <2>3
<1>4. FramesApart(e)
  BY <1>3, FramesFewer
<1> QED BY <1>1, <1>3, <1>4

(* The frame a new page gets backs no page yet.                             *)
LEMMA FreshFrame ==
  ASSUME VmmAssumption, NEW ob \in [Objs -> LiveObjects \cup {NoObj}], FreeFrames(ob) # {}, NEW f, f = Min(FreeFrames(ob))
  PROVE  f \in Frames /\ f # 0 /\ \A o \in Objs : \A j \in DOMAIN ob[o].frames : ob[o].frames[j] # f
<1>1. FreeFrames(ob) \in SUBSET Nat /\ FreeFrames(ob) \subseteq Frames /\ Frames \subseteq Nat \ {0}
  BY DEF FreeFrames, VmmAssumption
<1>2. f \in FreeFrames(ob)
  BY <1>1, FirstPosition
<1>3. f \in Frames /\ f # 0
  BY <1>1, <1>2
<1>4. ASSUME NEW o \in Objs, NEW j \in DOMAIN ob[o].frames PROVE ob[o].frames[j] # f
  <2>1. ob[o].kind \in {"anon", "cow"}
    <3>1. ob[o] # NoObj
      BY DEF NoObj
    <3> QED BY <3>1, ObjectParts
  <2>2. ob[o].frames[j] \in Range(ob[o].frames)
    BY DEF Range
  <2>3. ob[o].frames[j] \in InUse(ob) \/ ob[o].frames[j] = 0
    BY <2>1, <2>2 DEF InUse
  <2> QED BY <1>2, <1>3, <2>3 DEF FreeFrames
<1> QED BY <1>3, <1>4

(* vm_object_page leaves the counts alone and takes a frame of its own.     *)
LEMMA TouchKeeps ==
  ASSUME VmmAssumption, NEW ob \in [Objs -> LiveObjects \cup {NoObj}], FramesApart(ob), NEW o \in Objs, NEW i \in Nat,
         NEW e, e = Touch(ob, o, i)
  PROVE  /\ e \in [Objs -> LiveObjects \cup {NoObj}] /\ FramesApart(e)
         /\ \A x \in Objs : e[x].ref = ob[x].ref /\ e[x].n = ob[x].n /\ (e[x] = NoObj <=> ob[x] = NoObj)
<1>1. CASE ~(HasPage(ob, o, i) /\ ob[o].frames[i + 1] = 0)
  BY <1>1 DEF Touch
<1>2. CASE HasPage(ob, o, i) /\ ob[o].frames[i + 1] = 0
  <2> DEFINE f == Min(FreeFrames(ob))
             y == [ob[o] EXCEPT !.frames = [ob[o].frames EXCEPT ![i + 1] = f]]
  <2>1. i < ob[o].n /\ FreeFrames(ob) # {}
    BY <1>2 DEF HasPage
  <2>2. f \in Frames /\ f # 0 /\ \A x \in Objs : \A j \in DOMAIN ob[x].frames : ob[x].frames[j] # f
    BY <2>1, FreshFrame
  <2>3. e = [ob EXCEPT ![o] = y]
    BY <1>2 DEF Touch
  <2> HIDE DEF f
  <2>4. ob[o] \in LiveObjects /\ i + 1 \in 1..ob[o].n /\ DOMAIN ob[o].frames = 1..ob[o].n
    <3>1. ob[o].n \in Nat /\ ob[o].frames \in [1..ob[o].n -> Frames \cup {0}]
      BY ObjectParts
    <3>2. ob[o] # NoObj
      BY <2>1, <3>1 DEF NoObj
    <3> QED BY <2>1, <3>1, <3>2
  <2>5. /\ y \in LiveObjects /\ y.ref = ob[o].ref /\ y.n = ob[o].n
        /\ DOMAIN y.frames = DOMAIN ob[o].frames /\ y.frames[i + 1] = f
        /\ \A j \in DOMAIN ob[o].frames : j # i + 1 => y.frames[j] = ob[o].frames[j]
    BY <2>2, <2>4, FrameChanges
  <2> HIDE DEF y
  <2>6. e \in [Objs -> LiveObjects \cup {NoObj}] /\ e[o] = y /\ \A x \in Objs : x # o => e[x] = ob[x]
    BY <2>3, <2>5
  <2>7. \A x \in Objs : e[x].ref = ob[x].ref /\ e[x].n = ob[x].n
    BY <2>5, <2>6
  <2>8. \A x \in Objs : e[x] = NoObj <=> ob[x] = NoObj
    BY <2>6, <2>7, ObjectParts
  <2>9. FramesApart(e)
    <3> SUFFICES ASSUME NEW a \in Objs, NEW b \in Objs, NEW j \in DOMAIN e[a].frames, NEW k \in DOMAIN e[b].frames,
                        e[a].frames[j] # 0, e[a].frames[j] = e[b].frames[k]
                 PROVE  a = b /\ j = k
      BY DEF FramesApart
    <3>1. \A x \in Objs : \A m \in DOMAIN e[x].frames :
            m \in DOMAIN ob[x].frames /\ e[x].frames[m] = IF x = o /\ m = i + 1 THEN f ELSE ob[x].frames[m]
      BY <2>5, <2>6
    <3>2. CASE e[a].frames[j] = f
      <4>1. j \in DOMAIN ob[a].frames /\ k \in DOMAIN ob[b].frames /\ e[b].frames[k] = f
        BY <3>1, <3>2
      <4>2. ob[a].frames[j] # f /\ ob[b].frames[k] # f
        BY <2>2, <4>1
      <4>3. (a = o /\ j = i + 1) /\ (b = o /\ k = i + 1)
        BY <3>1, <3>2, <4>1, <4>2
      <4> QED BY <4>3
    <3>3. CASE e[a].frames[j] # f
      <4>1. e[a].frames[j] = ob[a].frames[j] /\ e[b].frames[k] = ob[b].frames[k]
            /\ j \in DOMAIN ob[a].frames /\ k \in DOMAIN ob[b].frames
        BY <3>1, <3>3
      <4>2. ob[a].frames[j] # 0 /\ ob[a].frames[j] = ob[b].frames[k]
        BY <4>1
      <4> QED BY <4>1, <4>2 DEF FramesApart
    <3> QED BY <3>2, <3>3
  <2> QED BY <2>6, <2>7, <2>8, <2>9
<1> QED BY <1>1, <1>2

(* Sets that can be paired have the same number of members.                 *)
LEMMA Paired ==
  ASSUME NEW A, NEW B, IsFiniteSet(A), NEW f \in [A -> B],
         \A x, y \in A : f[x] = f[y] => x = y, \A z \in B : \E x \in A : f[x] = z
  PROVE  IsFiniteSet(B) /\ Cardinality(B) = Cardinality(A)
<1>1. f \in Bijection(A, B)
  <2>1. DOMAIN f = A
    OBVIOUS
  <2>2. f \in Injection(A, B)
    BY <2>1 DEF Injection, IsInjective
  <2>3. f \in Surjection(A, B)
    BY DEF Surjection
  <2> QED BY <2>2, <2>3 DEF Bijection
<1> QED BY <1>1, FS_Bijection DEF ExistsBijection

(* The positions of a list that name an object are finitely many.           *)
LEMMA NamedFinite ==
  ASSUME NEW l \in Seq(Areas), NEW o
  PROVE  IsFiniteSet(Named1(l, o)) /\ Cardinality(Named1(l, o)) \in Nat
<1>1. Len(l) \in Nat /\ DOMAIN l = 1..Len(l)
  OBVIOUS
<1>2. IsFiniteSet(1..Len(l))
  BY <1>1, FS_Interval
<1>3. Named1(l, o) \subseteq 1..Len(l)
  BY <1>1 DEF Named1
<1>4. IsFiniteSet(Named1(l, o))
  BY <1>2, <1>3, FS_Subset
<1> QED BY <1>4, FS_CardinalityType

(* insert_area: one area more, wherever it goes.                            *)
LEMMA InsertCounts ==
  ASSUME NEW l \in Seq(Areas), NEW a \in Areas, NEW o
  PROVE  /\ Insert(l, a) \in Seq(Areas)
         /\ Cardinality(Named1(Insert(l, a), o)) = Cardinality(Named1(l, o)) + (IF a.obj = o THEN 1 ELSE 0)
<1> DEFINE n == Len(l)
           later == {i \in DOMAIN l : a.start < l[i].start}
           r == Insert(l, a)
           A == Named1(l, o)
<1>1. n \in Nat /\ DOMAIN l = 1..n
  OBVIOUS
<1>2. PICK m \in 1..(n + 1) : /\ r \in Seq(Areas) /\ Len(r) = n + 1 /\ r[m] = a
                              /\ \A k \in 1..n : r[IF k < m THEN k ELSE k + 1] = l[k]
  <2>1. CASE later = {}
    <3>1. r = Append(l, a)
      BY <2>1 DEF Insert
    <3>2. /\ r \in Seq(Areas) /\ Len(r) = n + 1 /\ r[n + 1] = a
          /\ \A k \in 1..n : k < n + 1 /\ r[k] = l[k]
      BY <3>1
    <3> WITNESS n + 1 \in 1..(n + 1)
    <3> QED BY <3>2
  <2>2. CASE later # {}
    <3>1. later \in SUBSET Nat
      BY <1>1
    <3>2. Min(later) \in later
      <4> HIDE DEF later
      <4> QED BY <2>2, <3>1, FirstPosition
    <3>3. Min(later) \in 1..(n + 1)
      BY <1>1, <3>2
    <3>4. r = InsertAt(l, Min(later), a)
      BY <2>2 DEF Insert
    <3> HIDE DEF later, r, n
    <3> WITNESS Min(later) \in 1..(n + 1)
    <3> QED BY <3>3, <3>4, Inserted DEF n
  <2> QED BY <2>1, <2>2
<1> HIDE DEF r, later
<1> DEFINE f == [k \in A |-> IF k < m THEN k ELSE k + 1]
           B == {k \in Named1(r, o) : k # m}
<1>3. A \subseteq 1..n /\ DOMAIN r = 1..(n + 1) /\ m \in Int
  BY <1>1, <1>2 DEF Named1
<1>4. IsFiniteSet(A) /\ Cardinality(A) \in Nat
  BY NamedFinite
<1>5. IsFiniteSet(B) /\ Cardinality(B) = Cardinality(A)
  <2>1. f \in [A -> B]
    <3>1. ASSUME NEW k \in A PROVE (IF k < m THEN k ELSE k + 1) \in B
      <4> DEFINE v == IF k < m THEN k ELSE k + 1
      <4>1. k \in 1..n /\ l[k].obj = o /\ r[v] = l[k]
        BY <1>2, <1>3 DEF Named1
      <4>2. v \in 1..(n + 1) /\ v # m
        BY <1>1, <1>2, <4>1
      <4> HIDE DEF v
      <4>3. v \in B
        BY <1>3, <4>1, <4>2 DEF Named1
      <4> QED BY <4>3 DEF v
    <3> HIDE DEF A, B
    <3> QED BY <3>1
  <2>2. \A x, y \in A : f[x] = f[y] => x = y
    BY <1>1, <1>2, <1>3
  <2>3. \A z \in B : \E x \in A : f[x] = z
    <3> SUFFICES ASSUME NEW z \in B PROVE \E x \in A : f[x] = z
      OBVIOUS
    <3>1. z \in 1..(n + 1) /\ z # m /\ r[z].obj = o
      BY <1>3 DEF Named1
    <3> DEFINE x == IF z < m THEN z ELSE z - 1
    <3>2. x \in 1..n /\ (IF x < m THEN x ELSE x + 1) = z
      BY <1>1, <1>2, <3>1
    <3>3. r[z] = l[x]
      BY <1>2, <3>2
    <3> HIDE DEF x
    <3>4. x \in A
      BY <1>1, <3>1, <3>2, <3>3 DEF Named1
    <3> QED BY <3>2, <3>4
  <2> HIDE DEF A, B, f
  <2> QED BY <1>4, <2>1, <2>2, <2>3, Paired
<1>6. Named1(r, o) = IF a.obj = o THEN B \cup {m} ELSE B
  BY <1>2, <1>3 DEF Named1
<1>7. Cardinality(Named1(r, o)) = Cardinality(A) + (IF a.obj = o THEN 1 ELSE 0)
  <2>1. m \notin B
    OBVIOUS
  <2> HIDE DEF A, B
  <2>2. CASE a.obj = o
    <3>1. Cardinality(B \cup {m}) = Cardinality(B) + 1
      BY <1>5, <2>1, FS_AddElement
    <3> QED BY <1>5, <1>6, <2>2, <3>1
  <2>3. CASE a.obj # o
    BY <1>4, <1>5, <1>6, <2>3
  <2> QED BY <2>2, <2>3
<1> QED BY <1>2, <1>7 DEF r

(* as_unmap: the areas at the positions in P go.                            *)
LEMMA UnlinkCounts ==
  ASSUME NEW l \in Seq(Areas), NEW P \in SUBSET DOMAIN l, NEW o, NEW r, r = Unlinked(l, P)
  PROVE  LET G == {i \in P : l[i].obj = o} IN
           /\ r \in Seq(Areas) /\ Cardinality(G) \in Nat /\ Cardinality(G) <= Cardinality(Named1(l, o))
           /\ Cardinality(Named1(r, o)) = Cardinality(Named1(l, o)) - Cardinality(G)
<1> DEFINE K == DOMAIN l \ P
           A == Named1(l, o)
           G == {i \in P : l[i].obj = o}
           B == {i \in K : l[i].obj = o}
<1>1. DOMAIN l = 1..Len(l) /\ K \in SUBSET (1..Len(l)) /\ Len(l) \in Nat
  OBVIOUS
<1>2. r = Rest(l, K)
  BY DEF Unlinked, Rest, Rank
<1> HIDE DEF K
<1>3. /\ IsFiniteSet(K) /\ r \in Seq(Areas) /\ Len(r) = Cardinality(K)
      /\ \A i \in K : Rank(K, i) \in 1..Len(r) /\ r[Rank(K, i)] = l[i]
      /\ \A k \in 1..Len(r) : \E i \in K : Rank(K, i) = k
      /\ \A i, k \in K : i < k => Rank(K, i) < Rank(K, k)
  BY <1>1, <1>2, RestOrdered
<1>4. IsFiniteSet(A) /\ Cardinality(A) \in Nat
  BY NamedFinite
<1>5. A = G \cup B /\ G \cap B = {} /\ G \in SUBSET A /\ B \in SUBSET A
  BY DEF Named1, K
<1>6. /\ IsFiniteSet(G) /\ IsFiniteSet(B) /\ Cardinality(G) \in Nat /\ Cardinality(B) \in Nat
      /\ Cardinality(A) = Cardinality(G) + Cardinality(B)
  <2> HIDE DEF A, G, B
  <2>1. IsFiniteSet(G) /\ IsFiniteSet(B)
    BY <1>4, <1>5, FS_Subset
  <2>2. Cardinality(G \cup B) = Cardinality(G) + Cardinality(B) - Cardinality(G \cap B)
    BY <2>1, FS_Union
  <2>3. Cardinality(G \cap B) = 0
    BY <1>5, FS_EmptySet
  <2>4. Cardinality(G) \in Nat /\ Cardinality(B) \in Nat
    BY <2>1, FS_CardinalityType
  <2> QED BY <1>5, <2>1, <2>2, <2>3, <2>4
<1> DEFINE f == [i \in B |-> Rank(K, i)]
<1>7. Cardinality(Named1(r, o)) = Cardinality(B)
  <2>1. DOMAIN r = 1..Len(r)
    BY <1>3
  <2>2. f \in [B -> Named1(r, o)]
    BY <1>3, <2>1 DEF Named1
  <2>3. \A x, y \in B : f[x] = f[y] => x = y
    <3> SUFFICES ASSUME NEW x \in B, NEW y \in B, Rank(K, x) = Rank(K, y) PROVE x = y
      OBVIOUS
    <3>1. x \in K /\ y \in K /\ x \in Int /\ y \in Int /\ Rank(K, x) \in Int /\ Rank(K, y) \in Int
      BY <1>1, <1>3
    <3>2. ~(x < y) /\ ~(y < x)
      BY <1>3, <3>1
    <3> QED BY <3>1, <3>2
  <2>4. \A z \in Named1(r, o) : \E x \in B : f[x] = z
    <3> SUFFICES ASSUME NEW z \in Named1(r, o) PROVE \E x \in B : Rank(K, x) = z
      OBVIOUS
    <3>1. z \in 1..Len(r) /\ r[z].obj = o
      BY <2>1 DEF Named1
    <3>2. PICK x \in K : Rank(K, x) = z
      BY <1>3, <3>1
    <3>3. l[x].obj = o
      BY <1>3, <3>1, <3>2
    <3> QED BY <3>2, <3>3
  <2> HIDE DEF B, f
  <2> QED BY <1>6, <2>2, <2>3, <2>4, Paired
<1>8. Cardinality(G) <= Cardinality(A) /\ Cardinality(Named1(r, o)) = Cardinality(A) - Cardinality(G)
  <2> HIDE DEF A, G, B
  <2> QED BY <1>6, <1>7
<1> QED BY <1>3, <1>6, <1>8

(* Every reference of an object is an area's.                               *)
LEMMA RefsCover ==
  ASSUME VmmAssumption, NEW ob, NEW ar, Consistent(ob, ar), NEW s \in Spaces, NEW o \in Objs
  PROVE  /\ ob[o].ref \in Nat /\ Cardinality(Named1(ar[s], o)) \in Nat /\ Cardinality(Named1(ar[s], o)) <= ob[o].ref
         /\ IsFiniteSet(Named1(ar[s], o)) /\ (ob[o] = NoObj <=> ob[o].ref = 0) /\ (ob[o] = NoObj <=> ob[o].kind = "none")
<1>1. ob[o] \in LiveObjects \cup {NoObj} /\ ar \in [Spaces -> Seq(Areas)] /\ ar[s] \in Seq(Areas)
      /\ OneListChanged(ar, ar, s, ar[s])
  BY DEF Consistent, OneListChanged
<1>2. ob[o].ref = Cardinality(Naming(ar, o))
  BY DEF Consistent, RefsCounted
<1> QED BY <1>1, <1>2, OneList, ObjectParts

(* A step that changes one list and the counts by as much.                  *)
LEMMA ListConsistent ==
  ASSUME VmmAssumption, NEW ob, NEW ar, Consistent(ob, ar), NEW s \in Spaces, NEW l \in Seq(Areas),
         NEW e \in [Objs -> LiveObjects \cup {NoObj}], FramesApart(e),
         \A o \in Objs : e[o].ref = ob[o].ref - Cardinality(Named1(ar[s], o)) + Cardinality(Named1(l, o))
  PROVE  Consistent(e, [ar EXCEPT ![s] = l])
<1> DEFINE more == [ar EXCEPT ![s] = l]
<1>1. ar \in [Spaces -> Seq(Areas)]
  BY DEF Consistent
<1>2. more \in [Spaces -> Seq(Areas)] /\ more[s] = l /\ \A x \in Spaces : x # s => more[x] = ar[x]
  BY <1>1
<1>3. OneListChanged(ar, more, s, l)
  BY <1>2 DEF OneListChanged
<1> HIDE DEF more
<1>4. ASSUME NEW o \in Objs PROVE e[o].ref = Cardinality(Naming(more, o))
  <2>1. ob[o].ref = Cardinality(Naming(ar, o))
    BY DEF Consistent, RefsCounted
  <2>2. Cardinality(Naming(more, o)) = Cardinality(Naming(ar, o)) - Cardinality(Named1(ar[s], o)) + Cardinality(Named1(l, o))
    BY <1>1, <1>3, OneList
  <2> QED BY <2>1, <2>2
<1>5. Consistent(e, more)
  BY <1>2, <1>4 DEF Consistent, RefsCounted
<1> QED BY <1>5 DEF more

(* A list whose areas name what they named.                                 *)
LEMMA SameNames ==
  ASSUME VmmAssumption, NEW ob, NEW ar, Consistent(ob, ar), NEW s \in Spaces, NEW l \in Seq(Areas),
         DOMAIN l = DOMAIN ar[s], \A i \in DOMAIN l : l[i].obj = ar[s][i].obj,
         NEW e \in [Objs -> LiveObjects \cup {NoObj}], FramesApart(e), \A o \in Objs : e[o].ref = ob[o].ref
  PROVE  Consistent(e, [ar EXCEPT ![s] = l])
<1>1. ASSUME NEW o \in Objs PROVE e[o].ref = ob[o].ref - Cardinality(Named1(ar[s], o)) + Cardinality(Named1(l, o))
  <2>1. Named1(l, o) = Named1(ar[s], o)
    BY DEF Named1
  <2>2. ob[o].ref \in Nat /\ Cardinality(Named1(ar[s], o)) \in Nat
    BY RefsCover
  <2> QED BY <2>1, <2>2
<1> QED BY <1>1, ListConsistent

(* An object that is not used yet.                                          *)
LEMMA FreshObject ==
  ASSUME VmmAssumption, NEW ob \in [Objs -> LiveObjects \cup {NoObj}], NewObj(ob) # {}, NEW o, o = Min(NewObj(ob))
  PROVE  o \in Objs /\ ob[o] = NoObj
<1>1. NewObj(ob) \in SUBSET Nat
  BY DEF NewObj, VmmAssumption
<1>2. o \in NewObj(ob)
  BY <1>1, FirstPosition
<1> QED BY <1>2, ObjectParts DEF NewObj

(* as_map_object: the new object has the one reference of the new area.     *)
LEMMA MapKeeps ==
  ASSUME VmmAssumption, VmmInv, NEW s \in Spaces, NEW hint \in Hints, NEW n \in 1..MaxLen, NEW prot \in MapProts,
         NEW flag \in Flags, MapObject(s, hint, n, prot, flag)
  PROVE  VmmInv'
<1> DEFINE va == IF flag = "fixed" THEN hint ELSE FindGap(s, hint, n)
           o  == Min(NewObj(obj))
           a  == [start |-> va, end |-> va + n, prot |-> prot, flag |-> flag, obj |-> o, off |-> 0]
           x  == [kind |-> "anon", n |-> n, frames |-> [i \in 1..n |-> 0], ref |-> 1]
           l  == Insert(areas[s], a)
<1>1. /\ NewObj(obj) # {} /\ areas' = [areas EXCEPT ![s] = l] /\ obj' = [obj EXCEPT ![o] = x]
      /\ filling' = IF flag = "locked" THEN [s |-> s, area |-> a, next |-> 0] ELSE NoFill
  BY DEF MapObject
<1>2. /\ obj \in [Objs -> LiveObjects \cup {NoObj}] /\ FramesApart(obj) /\ areas[s] \in Seq(Areas)
      /\ Consistent(obj, areas) /\ n \in Nat
  BY DEF VmmInv, Consistent, VmmAssumption
<1>3. o \in Objs /\ obj[o] = NoObj
  BY <1>1, <1>2, FreshObject
<1>4. va \in Int
  <2>1. hint \in Nat /\ MmapBase \in Nat /\ Top \in Nat
    BY DEF VmmAssumption
  <2> DEFINE from == IF hint # 0 THEN hint ELSE MmapBase
             ok == {p \in from..(Top + 1 - n) : \A i \in DOMAIN areas[s] : ~Overlaps(areas[s][i], p, n)}
  <2>2. FindGap(s, hint, n) = IF ok = {} THEN 0 ELSE Min(ok)
    BY DEF FindGap
  <2>3. ok \in SUBSET Nat
    <3>1. from \in Nat
      BY <2>1
    <3> HIDE DEF from
    <3> QED BY <1>2, <2>1, <3>1
  <2>4. ok # {} => Min(ok) \in Nat
    <3> HIDE DEF ok
    <3> QED BY <2>3, FirstPosition
  <2> HIDE DEF ok
  <2> QED BY <2>1, <2>2, <2>4
<1>5. a \in Areas /\ a.obj = o
  <2>1. prot \in Protections /\ va + n \in Int
    BY <1>2, <1>4 DEF VmmAssumption
  <2> HIDE DEF va, o
  <2> QED BY <1>3, <1>4, <2>1 DEF Areas
<1>6. x \in LiveObjects /\ x.ref = 1 /\ x.frames = [i \in 1..n |-> 0]
  BY <1>2 DEF LiveObjects
<1> HIDE DEF va, a, o
<1>7. /\ obj' \in [Objs -> LiveObjects \cup {NoObj}] /\ obj'[o] = x /\ \A q \in Objs : q # o => obj'[q] = obj[q]
  BY <1>1, <1>2, <1>3, <1>6
<1>8. FramesApart(obj')
  BY <1>2, <1>6, <1>7, FramesFewer
<1>9. l \in Seq(Areas)
  BY <1>2, <1>5, InsertCounts
<1>10. ASSUME NEW q \in Objs
       PROVE  obj'[q].ref = obj[q].ref - Cardinality(Named1(areas[s], q)) + Cardinality(Named1(l, q))
  <2>1. Cardinality(Named1(l, q)) = Cardinality(Named1(areas[s], q)) + (IF o = q THEN 1 ELSE 0)
    BY <1>2, <1>5, InsertCounts
  <2>2. obj[q].ref \in Nat /\ Cardinality(Named1(areas[s], q)) \in Nat
    BY <1>2, RefsCover
  <2>3. obj'[q].ref = obj[q].ref + (IF o = q THEN 1 ELSE 0)
    <3>1. CASE q = o
      BY <1>3, <1>6, <1>7, <3>1 DEF NoObj
    <3>2. CASE q # o
      BY <1>7, <2>2, <3>2
    <3> QED BY <3>1, <3>2
  <2> HIDE DEF l
  <2> QED BY <2>1, <2>2, <2>3
<1>11. Consistent(obj', areas')
  <2> HIDE DEF l, x
  <2> QED BY <1>1, <1>2, <1>7, <1>8, <1>9, <1>10, ListConsistent
<1>12. filling' \in {NoFill} \cup [s : Spaces, area : Areas, next : Nat]
  BY <1>1, <1>5
<1> QED BY <1>11, <1>12 DEF VmmInv

(* The eager population touches one page.                                   *)
LEMMA PopulateKeeps ==
  ASSUME VmmAssumption, VmmInv, Populate
  PROVE  VmmInv'
<1> DEFINE a == filling.area
           i == filling.next
<1>1. /\ filling # NoFill /\ obj' = Touch(obj, a.obj, i) /\ areas' = areas
      /\ filling' = NoFill \/ filling' = [filling EXCEPT !.next = i + 1]
  BY DEF Populate
<1>2. filling \in [s : Spaces, area : Areas, next : Nat] /\ a.obj \in Objs /\ i \in Nat
  BY <1>1 DEF VmmInv, Areas
<1>3. /\ obj' \in [Objs -> LiveObjects \cup {NoObj}] /\ FramesApart(obj')
      /\ \A x \in Objs : obj'[x].ref = obj[x].ref
  <2>1. obj \in [Objs -> LiveObjects \cup {NoObj}] /\ FramesApart(obj)
    BY DEF VmmInv, Consistent
  <2> HIDE DEF a, i
  <2> QED BY <1>1, <1>2, <2>1, TouchKeeps
<1>4. Consistent(obj', areas')
  BY <1>1, <1>3 DEF VmmInv, Consistent, RefsCounted
<1>5. filling' \in {NoFill} \cup [s : Spaces, area : Areas, next : Nat]
  BY <1>1, <1>2
<1> QED BY <1>4, <1>5 DEF VmmInv

(* as_unmap: each area that goes takes its reference along.                 *)
LEMMA UnmapKeeps ==
  ASSUME VmmAssumption, VmmInv, NEW s \in Spaces, NEW va \in Pages, NEW n \in 1..MaxLen, Unmap(s, va, n)
  PROVE  VmmInv'
<1> DEFINE l == areas[s]
           hit  == {i \in DOMAIN l : Overlaps(l[i], va, n)}
           cut  == {i \in hit : l[i].start < va \/ l[i].end > va + n}
           gone == {i \in hit : \A j \in cut : i < j}
           k == Named(l, gone)
           m == Unlinked(l, gone)
<1>1. /\ areas' = [areas EXCEPT ![s] = m] /\ obj' = Put(obj, k) /\ filling' = filling
  BY DEF Unmap
<1>2. gone \in SUBSET DOMAIN l
  OBVIOUS
<1> HIDE DEF gone
<1>3. /\ obj \in [Objs -> LiveObjects \cup {NoObj}] /\ FramesApart(obj) /\ l \in Seq(Areas) /\ Consistent(obj, areas)
  BY DEF VmmInv, Consistent
<1>4. ASSUME NEW o \in Objs
      PROVE  /\ m \in Seq(Areas) /\ k[o] \in Nat /\ k[o] <= Cardinality(Named1(l, o))
             /\ Cardinality(Named1(m, o)) = Cardinality(Named1(l, o)) - k[o]
             /\ obj[o].ref \in Nat /\ Cardinality(Named1(l, o)) \in Nat /\ Cardinality(Named1(l, o)) <= obj[o].ref
  <2>1. k[o] = Cardinality({i \in gone : l[i].obj = o})
    BY DEF Named
  <2>2. /\ m \in Seq(Areas) /\ k[o] \in Nat /\ k[o] <= Cardinality(Named1(l, o))
        /\ Cardinality(Named1(m, o)) = Cardinality(Named1(l, o)) - k[o]
    <3>1. m = Unlinked(l, gone) /\ l \in Seq(Areas)
      BY <1>3
    <3> HIDE DEF k, l, m
    <3> QED BY <1>2, <2>1, <3>1, UnlinkCounts
  <2> QED BY <1>3, <2>2, RefsCover
<1>5. m \in Seq(Areas)
  BY <1>2, <1>3, UnlinkCounts
<1>6. k \in [Objs -> Nat] /\ \A o \in Objs : k[o] <= obj[o].ref
  <2>1. k = [o \in Objs |-> k[o]]
    BY DEF Named
  <2> HIDE DEF k, l, m
  <2> QED BY <1>4, <2>1
<1>7. obj' \in [Objs -> LiveObjects \cup {NoObj}] /\ FramesApart(obj') /\ \A o \in Objs : obj'[o].ref = obj[o].ref - k[o]
  <2> HIDE DEF k
  <2> QED BY <1>1, <1>3, <1>6, PutKeeps
<1>8. \A o \in Objs : obj'[o].ref = obj[o].ref - Cardinality(Named1(l, o)) + Cardinality(Named1(m, o))
  <2> HIDE DEF k, l, m
  <2> SUFFICES ASSUME NEW o \in Objs
               PROVE  obj'[o].ref = obj[o].ref - Cardinality(Named1(l, o)) + Cardinality(Named1(m, o))
    OBVIOUS
  <2>1. /\ k[o] \in Nat /\ obj[o].ref \in Nat /\ Cardinality(Named1(l, o)) \in Nat
        /\ Cardinality(Named1(m, o)) = Cardinality(Named1(l, o)) - k[o]
    BY <1>4
  <2>2. obj'[o].ref = obj[o].ref - k[o]
    BY <1>7
  <2> QED BY <2>1, <2>2
<1>9. Consistent(obj', areas')
  <2> HIDE DEF m
  <2> QED BY <1>1, <1>3, <1>5, <1>7, <1>8, ListConsistent
<1> QED BY <1>1, <1>9 DEF VmmInv

(* The area at the position i of the list l is replaced by b.               *)
Replaced(l, i, b, m) == m = [l EXCEPT ![i] = b]

(* It is the only one that changes.                                         *)
LEMMA ReplacedOne ==
  ASSUME NEW l \in Seq(Areas), NEW i \in DOMAIN l, NEW b \in Areas, NEW m, Replaced(l, i, b, m)
  PROVE  m \in Seq(Areas) /\ DOMAIN m = DOMAIN l /\ m[i] = b /\ \A j \in DOMAIN l : j # i => m[j] = l[j]
<1>1. m = [l EXCEPT ![i] = b]
  BY DEF Replaced
<1>2. DOMAIN m = DOMAIN l /\ m[i] = b /\ \A j \in DOMAIN l : j # i => m[j] = l[j]
  BY <1>1
<1>3. Len(l) \in Nat /\ DOMAIN l = 1..Len(l) /\ l \in [1..Len(l) -> Areas]
  OBVIOUS
<1>4. m \in [1..Len(l) -> Areas]
  BY <1>1, <1>3
<1>5. m \in Seq(Areas)
  BY <1>3, <1>4
<1> QED BY <1>2, <1>5

(* as_protect: an area changes what it allows, not what it names.           *)
LEMMA ProtectKeeps ==
  ASSUME VmmAssumption, VmmInv, NEW s \in Spaces, NEW va \in Pages, NEW n \in 1..MaxLen, NEW prot \in Prots,
         Protect(s, va, n, prot)
  PROVE  VmmInv'
<1> DEFINE i == Find(s, va)
           S == {j \in DOMAIN areas[s] : Covers(areas[s][j], va)}
           a == [areas[s][i] EXCEPT !.prot = prot]
           l == [areas[s] EXCEPT ![i] = a]
<1>0. CASE areas' = areas
  BY <1>0 DEF Protect, VmmInv
<1> SUFFICES ASSUME areas' # areas PROVE VmmInv'
  BY <1>0
<1>1. i # 0 /\ areas' = [areas EXCEPT ![s][i].prot = prot] /\ obj' = obj /\ filling' = filling
  BY DEF Protect
<1>2. /\ obj \in [Objs -> LiveObjects \cup {NoObj}] /\ FramesApart(obj) /\ areas[s] \in Seq(Areas) /\ Consistent(obj, areas)
      /\ areas \in [Spaces -> Seq(Areas)] /\ DOMAIN areas[s] = 1..Len(areas[s]) /\ Len(areas[s]) \in Nat
  BY DEF VmmInv, Consistent
<1>3. i \in DOMAIN areas[s]
  <2>1. S # {} /\ i = Min(S)
    BY <1>1 DEF Find
  <2>2. S \in SUBSET Nat
    BY <1>2
  <2>3. Min(S) \in S
    <3> HIDE DEF S
    <3> QED BY <2>1, <2>2, FirstPosition
  <2> HIDE DEF i
  <2> QED BY <2>1, <2>3
<1> HIDE DEF i
<1>4. a \in Areas /\ a.obj = areas[s][i].obj
  <2>1. areas[s][i] \in Areas /\ prot \in Protections
    BY <1>2, <1>3 DEF VmmAssumption
  <2> QED BY <2>1 DEF Areas
<1>5. areas' = [areas EXCEPT ![s] = l]
  BY <1>1
<1> HIDE DEF a
<1>6. l \in Seq(Areas) /\ DOMAIN l = DOMAIN areas[s] /\ \A j \in DOMAIN l : l[j].obj = areas[s][j].obj
  <2>1. Replaced(areas[s], i, a, l)
    BY DEF Replaced
  <2> HIDE DEF l
  <2>2. /\ l \in Seq(Areas) /\ DOMAIN l = DOMAIN areas[s] /\ l[i] = a
        /\ \A j \in DOMAIN areas[s] : j # i => l[j] = areas[s][j]
    <3>1. areas[s] \in Seq(Areas) /\ i \in DOMAIN areas[s] /\ a \in Areas
      BY <1>2, <1>3, <1>4
    <3> QED BY <2>1, <3>1, ReplacedOne
  <2> QED BY <1>3, <1>4, <2>2
<1> HIDE DEF l
<1>7. Consistent(obj, [areas EXCEPT ![s] = l])
  <2>1. \A o \in Objs : obj[o].ref = obj[o].ref
    OBVIOUS
  <2> QED BY <1>2, <1>6, <2>1, SameNames
<1>8. Consistent(obj', areas')
  BY <1>1, <1>5, <1>7
<1> QED BY <1>1, <1>8 DEF VmmInv

(* as_clone: each area of the child takes a reference of its own.           *)
LEMMA CloneKeeps ==
  ASSUME VmmAssumption, VmmInv, NEW s \in Spaces, NEW c \in Spaces, Clone(s, c)
  PROVE  VmmInv'
<1>1. PICK k \in 0..Len(areas[s]) :
        LET copied == SubSeq(areas[s], 1, k) IN
        /\ areas' = [areas EXCEPT ![c] = [i \in 1..k |-> IF copied[i].flag = "shared" THEN copied[i]
                                                         ELSE ReadOnly(copied[i])]]
        /\ obj' = Get(obj, Named(copied, 1..k))
  BY DEF Clone
<1>2. areas[c] = <<>> /\ filling' = filling
  BY DEF Clone
<1>3. /\ obj \in [Objs -> LiveObjects \cup {NoObj}] /\ FramesApart(obj) /\ areas[s] \in Seq(Areas) /\ Consistent(obj, areas)
      /\ DOMAIN areas[s] = 1..Len(areas[s]) /\ Len(areas[s]) \in Nat
  BY DEF VmmInv, Consistent
<1> DEFINE copied == SubSeq(areas[s], 1, k)
           e(i) == IF copied[i].flag = "shared" THEN copied[i] ELSE ReadOnly(copied[i])
           l == [i \in 1..k |-> e(i)]
           n == Named(copied, 1..k)
<1>4. areas' = [areas EXCEPT ![c] = l] /\ obj' = Get(obj, n)
  BY <1>1
<1>5. /\ k \in Nat /\ k <= Len(areas[s])
      /\ \A i \in 1..k : i \in DOMAIN areas[s] /\ copied[i] = areas[s][i] /\ areas[s][i] \in Areas
  BY <1>3
<1> HIDE DEF copied
<1>6. ASSUME NEW i \in 1..k PROVE e(i) \in Areas /\ e(i).obj = areas[s][i].obj
  <2>1. copied[i] = areas[s][i] /\ copied[i] \in Areas
    BY <1>5
  <2>2. ReadOnly(copied[i]) \in Areas /\ ReadOnly(copied[i]).obj = copied[i].obj
    <3>1. copied[i].prot \ {"write"} \in Protections
      BY <2>1 DEF Areas, Protections
    <3> QED BY <2>1, <3>1 DEF Areas, ReadOnly
  <2> QED BY <2>1, <2>2
<1> HIDE DEF e
<1>7. l \in Seq(Areas) /\ DOMAIN l = 1..k /\ \A i \in 1..k : l[i].obj = areas[s][i].obj
  BY <1>5, <1>6
<1> HIDE DEF l
<1>8. ASSUME NEW o \in Objs
      PROVE  /\ n[o] = Cardinality(Named1(l, o)) /\ n[o] \in Nat /\ n[o] <= Cardinality(Named1(areas[s], o))
             /\ Cardinality(Named1(areas[s], o)) <= obj[o].ref /\ Cardinality(Named1(areas[s], o)) \in Nat
             /\ obj[o].ref \in Nat /\ (obj[o] = NoObj <=> obj[o].ref = 0)
  <2>1. Named1(l, o) = {i \in 1..k : copied[i].obj = o}
    BY <1>5, <1>7 DEF Named1
  <2>2. n[o] = Cardinality(Named1(l, o))
    BY <2>1 DEF Named
  <2>3. Named1(l, o) \in SUBSET Named1(areas[s], o)
    BY <1>5, <1>7 DEF Named1
  <2>4. IsFiniteSet(Named1(areas[s], o)) /\ Cardinality(Named1(l, o)) \in Nat
    BY <1>3, <1>7, NamedFinite
  <2>5. Cardinality(Named1(l, o)) <= Cardinality(Named1(areas[s], o))
    BY <2>3, <2>4, FS_Subset
  <2> QED BY <1>3, <2>2, <2>4, <2>5, RefsCover
<1>9. n \in [Objs -> Nat] /\ \A o \in Objs : obj[o] = NoObj => n[o] = 0
  <2>1. n = [o \in Objs |-> n[o]]
    BY DEF Named
  <2> HIDE DEF n
  <2> QED BY <1>8, <2>1
<1> HIDE DEF n
<1>10. obj' \in [Objs -> LiveObjects \cup {NoObj}] /\ FramesApart(obj') /\ \A o \in Objs : obj'[o].ref = obj[o].ref + n[o]
  BY <1>3, <1>4, <1>9, GetKeeps
<1>11. \A o \in Objs : obj'[o].ref = obj[o].ref - Cardinality(Named1(areas[c], o)) + Cardinality(Named1(l, o))
  <2> SUFFICES ASSUME NEW o \in Objs
               PROVE  obj'[o].ref = obj[o].ref - Cardinality(Named1(areas[c], o)) + Cardinality(Named1(l, o))
    OBVIOUS
  <2>1. Named1(areas[c], o) = {}
    BY <1>2 DEF Named1
  <2>2. Cardinality(Named1(areas[c], o)) = 0
    BY <2>1, FS_EmptySet
  <2> QED BY <1>8, <1>10, <2>2
<1>12. Consistent(obj', areas')
  BY <1>3, <1>4, <1>7, <1>10, <1>11, ListConsistent
<1> QED BY <1>2, <1>12 DEF VmmInv

(* as_destroy: every area of the space drops its reference.                 *)
LEMMA AsDestroyKeeps ==
  ASSUME VmmAssumption, VmmInv, NEW s \in Spaces, AsDestroy(s)
  PROVE  VmmInv'
<1> DEFINE k == Named(areas[s], DOMAIN areas[s])
<1>1. obj' = Put(obj, k) /\ areas' = [areas EXCEPT ![s] = <<>>] /\ filling' = filling
  BY DEF AsDestroy
<1>2. obj \in [Objs -> LiveObjects \cup {NoObj}] /\ FramesApart(obj) /\ Consistent(obj, areas)
  BY DEF VmmInv, Consistent
<1>3. ASSUME NEW o \in Objs
      PROVE  /\ k[o] = Cardinality(Named1(areas[s], o)) /\ k[o] \in Nat /\ k[o] <= obj[o].ref /\ obj[o].ref \in Nat
             /\ Cardinality(Named1(<<>>, o)) = 0
  <2>1. k[o] = Cardinality(Named1(areas[s], o))
    BY DEF Named, Named1
  <2>2. Named1(<<>>, o) = {}
    BY DEF Named1
  <2>3. Cardinality(Named1(<<>>, o)) = 0
    BY <2>2, FS_EmptySet
  <2> HIDE DEF k
  <2> QED BY <1>2, <2>1, <2>3, RefsCover
<1>4. k \in [Objs -> Nat] /\ \A o \in Objs : k[o] <= obj[o].ref
  <2>1. k = [o \in Objs |-> k[o]]
    BY DEF Named
  <2> HIDE DEF k
  <2> QED BY <1>3, <2>1
<1> HIDE DEF k
<1>5. obj' \in [Objs -> LiveObjects \cup {NoObj}] /\ FramesApart(obj') /\ \A o \in Objs : obj'[o].ref = obj[o].ref - k[o]
  BY <1>1, <1>2, <1>4, PutKeeps
<1>6. \A o \in Objs : obj'[o].ref = obj[o].ref - Cardinality(Named1(areas[s], o)) + Cardinality(Named1(<<>>, o))
  BY <1>3, <1>5
<1>7. <<>> \in Seq(Areas)
  OBVIOUS
<1>8. Consistent(obj', areas')
  BY <1>1, <1>2, <1>5, <1>6, <1>7, ListConsistent
<1> QED BY <1>1, <1>8 DEF VmmInv

(* A stack that grew names what it named.                                   *)
LEMMA GrownKeeps ==
  ASSUME VmmAssumption, VmmInv, NEW s \in Spaces, NEW p \in Pages,
         NEW l, l = IF Find(s, p) # 0 THEN areas[s] ELSE Grown(s, p)
  PROVE  l \in Seq(Areas) /\ DOMAIN l = DOMAIN areas[s] /\ \A i \in DOMAIN l : l[i].obj = areas[s][i].obj
<1> DEFINE S == {i \in DOMAIN areas[s] : /\ areas[s][i].flag = "grows" /\ p < areas[s][i].start
                                         /\ areas[s][i].start - p <= GrowLimit}
           i == Min(S)
           a == [areas[s][i] EXCEPT !.start = p]
<1>1. areas[s] \in Seq(Areas) /\ DOMAIN areas[s] = 1..Len(areas[s]) /\ Len(areas[s]) \in Nat
  BY DEF VmmInv, Consistent
<1>2. CASE l = areas[s]
  BY <1>1, <1>2
<1>3. CASE S # {} /\ l = [areas[s] EXCEPT ![i] = a]
  <2>1. i \in DOMAIN areas[s]
    <3>1. S \in SUBSET Nat /\ S \subseteq DOMAIN areas[s]
      BY <1>1
    <3> HIDE DEF S
    <3> QED BY <1>3, <3>1, FirstPosition
  <2> HIDE DEF i
  <2>2. a \in Areas /\ a.obj = areas[s][i].obj
    <3>1. areas[s][i] \in Areas /\ p \in Int
      BY <1>1, <2>1 DEF Pages
    <3> QED BY <3>1 DEF Areas
  <2> HIDE DEF a
  <2> QED BY <1>1, <1>3, <2>1, <2>2
<1>4. l = areas[s] \/ (S # {} /\ l = [areas[s] EXCEPT ![i] = a])
  BY DEF Grown
<1> QED BY <1>2, <1>3, <1>4

(* An area that changes its object.                                         *)
LEMMA Renamed ==
  ASSUME NEW l \in Seq(Areas), NEW i \in DOMAIN l, NEW b \in Areas, b.obj # l[i].obj, NEW m, Replaced(l, i, b, m), NEW o
  PROVE  /\ m \in Seq(Areas)
         /\ Cardinality(Named1(m, o)) = Cardinality(Named1(l, o)) - (IF l[i].obj = o THEN 1 ELSE 0)
                                                                  + (IF b.obj = o THEN 1 ELSE 0)
<1> DEFINE A == Named1(l, o)
           B == Named1(m, o)
<1>1. m \in Seq(Areas) /\ DOMAIN m = DOMAIN l /\ m[i] = b /\ \A j \in DOMAIN l : j # i => m[j] = l[j]
  BY ReplacedOne
<1>2. IsFiniteSet(A) /\ Cardinality(A) \in Nat
  BY NamedFinite
<1>3. CASE l[i].obj = o
  <2>1. i \in A /\ B = A \ {i} /\ b.obj # o
    BY <1>1, <1>3 DEF Named1
  <2> HIDE DEF A, B
  <2>2. Cardinality(B) = Cardinality(A) - 1
    BY <1>2, <2>1, FS_RemoveElement
  <2> QED BY <1>1, <1>2, <1>3, <2>1, <2>2 DEF A, B
<1>4. CASE b.obj = o
  <2>1. i \notin A /\ B = A \cup {i} /\ l[i].obj # o
    BY <1>1, <1>4 DEF Named1
  <2> HIDE DEF A, B
  <2>2. Cardinality(B) = Cardinality(A) + 1
    BY <1>2, <2>1, FS_AddElement
  <2> QED BY <1>1, <1>2, <1>4, <2>1, <2>2 DEF A, B
<1>5. CASE l[i].obj # o /\ b.obj # o
  <2>1. B = A
    <3>1. \A j \in DOMAIN l : m[j].obj = o <=> l[j].obj = o
      BY <1>1, <1>5
    <3> QED BY <1>1, <3>1 DEF Named1
  <2> HIDE DEF A, B
  <2> QED BY <1>1, <1>2, <1>5, <2>1 DEF A, B
<1> QED BY <1>3, <1>4, <1>5

(* The object q becomes the private copy of a page.                         *)
Copied(ob, q, n, idx, e) ==
  e = [ob EXCEPT ![q] = [kind |-> "cow", n |-> n, ref |-> 1,
                         frames |-> [k \in 1..n |-> IF k = idx + 1 THEN Min(FreeFrames(ob)) ELSE 0]]]

(* The private copy of a shared page.                                       *)
LEMMA CopyMade ==
  ASSUME VmmAssumption, NEW ob \in [Objs -> LiveObjects \cup {NoObj}], FramesApart(ob), FreeFrames(ob) # {},
         NEW q \in Objs, ob[q] = NoObj, NEW n \in Nat, NEW idx \in Int, NEW e, Copied(ob, q, n, idx, e)
  PROVE  /\ e \in [Objs -> LiveObjects \cup {NoObj}] /\ FramesApart(e)
         /\ e[q].ref = 1 /\ \A o \in Objs : o # q => e[o] = ob[o]
<1> DEFINE f == Min(FreeFrames(ob))
           g == [k \in 1..n |-> IF k = idx + 1 THEN f ELSE 0]
<1>1. f \in Frames /\ f # 0 /\ \A o \in Objs : \A j \in DOMAIN ob[o].frames : ob[o].frames[j] # f
  BY FreshFrame
<1> HIDE DEF f
<1>2. g \in [1..n -> Frames \cup {0}] /\ \A k \in DOMAIN g : g[k] = IF k = idx + 1 THEN f ELSE 0
  BY <1>1
<1> DEFINE x == [kind |-> "cow", n |-> n, ref |-> 1, frames |-> g]
<1>3. e = [ob EXCEPT ![q] = x]
  BY DEF f, Copied
<1> HIDE DEF g
<1>4. x \in LiveObjects /\ x.ref = 1 /\ x.frames = g
  BY <1>2 DEF LiveObjects
<1> HIDE DEF x
<1>5. e \in [Objs -> LiveObjects \cup {NoObj}] /\ e[q] = x /\ \A o \in Objs : o # q => e[o] = ob[o]
  BY <1>3, <1>4
<1>6. FramesApart(e)
  <2> SUFFICES ASSUME NEW a \in Objs, NEW b \in Objs, NEW j \in DOMAIN e[a].frames, NEW k \in DOMAIN e[b].frames,
                      e[a].frames[j] # 0, e[a].frames[j] = e[b].frames[k]
               PROVE  a = b /\ j = k
    BY DEF FramesApart
  <2>1. CASE a = q /\ b = q
    <3>1. e[a].frames = g /\ e[b].frames = g
      BY <1>4, <1>5, <2>1
    <3>2. j \in DOMAIN g /\ k \in DOMAIN g /\ g[j] # 0 /\ g[k] # 0
      BY <3>1
    <3>3. j \in 1..n /\ k \in 1..n /\ j = idx + 1 /\ k = idx + 1
      BY <1>2, <3>2
    <3> QED BY <2>1, <3>3
  <2>2. CASE a = q /\ b # q
    <3>1. e[a].frames[j] = f /\ e[b].frames[k] # f
      BY <1>1, <1>2, <1>4, <1>5, <2>2
    <3> QED BY <3>1
  <2>3. CASE a # q /\ b = q
    <3>1. e[b].frames[k] = f /\ e[a].frames[j] # f
      BY <1>1, <1>2, <1>4, <1>5, <2>3
    <3> QED BY <3>1
  <2>4. CASE a # q /\ b # q
    <3>1. e[a] = ob[a] /\ e[b] = ob[b]
      BY <1>5, <2>4
    <3> QED BY <3>1 DEF FramesApart
  <2> QED BY <2>1, <2>2, <2>3, <2>4
<1> QED BY <1>4, <1>5, <1>6

(* vm_handle_fault: a page of the area's object, or a private copy of it.   *)
LEMMA FaultKeeps ==
  ASSUME VmmAssumption, VmmInv, NEW s \in Spaces, NEW p \in Pages, NEW access, Fault(s, p, access)
  PROVE  VmmInv'
<1> DEFINE l == IF Find(s, p) # 0 THEN areas[s] ELSE Grown(s, p)
           S == {i \in DOMAIN l : Covers(l[i], p)}
           i == Min(S)
           a == l[i]
           idx == a.off + (p - a.start)
           ob == Touch(obj, a.obj, idx)
           more == [areas EXCEPT ![s] = l]
<1>1. /\ S # {} /\ filling' = filling
      /\ \/ CopyOnWrite(s, p, l, i)
         \/ areas' = more /\ obj' = obj
         \/ DemandPage(s, p, l, i)
  BY DEF Fault
<1>2. l \in Seq(Areas) /\ DOMAIN l = DOMAIN areas[s] /\ \A j \in DOMAIN l : l[j].obj = areas[s][j].obj
  <2> HIDE DEF l
  <2>1. l = IF Find(s, p) # 0 THEN areas[s] ELSE Grown(s, p)
    BY DEF l
  <2> QED BY <2>1, GrownKeeps
<1> HIDE DEF l
<1>3. i \in DOMAIN l /\ Covers(l[i], p)
  <2>1. S \in SUBSET Nat /\ \A j \in S : j \in DOMAIN l /\ Covers(l[j], p)
    BY <1>2
  <2> HIDE DEF S
  <2> QED BY <1>1, <2>1, FirstPosition
<1> HIDE DEF i
<1>4. a \in Areas /\ a.obj \in Objs /\ idx \in Nat
  <2>1. a \in Areas
    BY <1>2, <1>3
  <2>2. a.off \in Nat /\ a.start \in Int /\ a.obj \in Objs /\ p \in Int
    BY <2>1 DEF Areas, Pages
  <2>3. a.start <= p
    BY <1>3 DEF Covers
  <2>4. idx \in Nat
    BY <2>2, <2>3
  <2> QED BY <2>1, <2>2, <2>4
<1>5. obj \in [Objs -> LiveObjects \cup {NoObj}] /\ FramesApart(obj) /\ Consistent(obj, areas)
  BY DEF VmmInv, Consistent
<1> HIDE DEF idx
<1>6. /\ ob \in [Objs -> LiveObjects \cup {NoObj}] /\ FramesApart(ob)
      /\ \A x \in Objs : ob[x].ref = obj[x].ref /\ ob[x].n = obj[x].n /\ (ob[x] = NoObj <=> obj[x] = NoObj)
  BY <1>4, <1>5, TouchKeeps
<1> HIDE DEF a, ob
<1>7. Consistent(obj, more) /\ Consistent(ob, more)
  <2>1. \A e : e \in [Objs -> LiveObjects \cup {NoObj}] /\ FramesApart(e) /\ (\A x \in Objs : e[x].ref = obj[x].ref)
               => Consistent(e, more)
    <3> HIDE DEF more
    <3>1. more = [areas EXCEPT ![s] = l]
      BY DEF more
    <3> SUFFICES ASSUME NEW e \in [Objs -> LiveObjects \cup {NoObj}], FramesApart(e), \A x \in Objs : e[x].ref = obj[x].ref
                 PROVE  Consistent(e, more)
      OBVIOUS
    <3>2. Consistent(e, [areas EXCEPT ![s] = l])
      BY <1>2, <1>5, SameNames
    <3> QED BY <3>1, <3>2
  <2> HIDE DEF more
  <2> QED BY <1>5, <1>6, <2>1
<1>8. CASE areas' = more /\ obj' = obj
  <2> HIDE DEF more
  <2> QED BY <1>1, <1>7, <1>8 DEF VmmInv
<1>9. CASE DemandPage(s, p, l, i)
  <2>1. areas' = more /\ obj' = ob
    BY <1>9 DEF DemandPage, a, idx, ob
  <2> HIDE DEF more
  <2> QED BY <1>1, <1>7, <2>1 DEF VmmInv
<1>10. CASE CopyOnWrite(s, p, l, i)
  <2> DEFINE q == Min(NewObj(obj))
             x == [kind |-> "cow", n |-> ob[a.obj].n, ref |-> 1,
                   frames |-> [k \in 1..ob[a.obj].n |-> IF k = idx + 1 THEN Min(FreeFrames(ob)) ELSE 0]]
             e == [ob EXCEPT ![q] = x]
             b == [[a EXCEPT !.obj = q] EXCEPT !.prot = a.prot \cup {"write"}]
             m == [l EXCEPT ![i] = b]
             k == Named(l, {i})
  <2>1. CASE areas' = more /\ (obj' = obj \/ obj' = ob)
    <3> HIDE DEF more
    <3> QED BY <1>1, <1>7, <2>1 DEF VmmInv
  <2>2. CASE /\ ~(obj[a.obj].ref <= 1) /\ FreeFrames(ob) # {} /\ NewObj(obj) # {}
             /\ obj' = Put(e, k) /\ areas' = [areas EXCEPT ![s] = m]
    <3>1. q \in Objs /\ obj[q] = NoObj /\ obj[q].ref = 0
      <4>1. q \in Objs /\ obj[q] = NoObj
        BY <1>5, <2>2, FreshObject
      <4> HIDE DEF q
      <4> QED BY <4>1 DEF NoObj
    <3>2. obj[a.obj].ref \in Nat /\ a.obj # q
      <4>1. obj[a.obj].ref \in Nat
        BY <1>4, <1>5, ObjectParts
      <4> HIDE DEF q
      <4> QED BY <2>2, <3>1, <4>1
    <3> HIDE DEF q
    <3>3. b \in Areas /\ b.obj = q /\ a.obj = l[i].obj
      <4>1. a.prot \cup {"write"} \in Protections
        BY <1>4 DEF Areas, Protections
      <4>2. [a EXCEPT !.obj = q] \in Areas
        BY <1>4, <3>1 DEF Areas
      <4> QED BY <1>4, <3>1, <4>1, <4>2 DEF Areas, a
    <3> HIDE DEF b
    <3>4. ASSUME NEW o
          PROVE  /\ m \in Seq(Areas)
                 /\ Cardinality(Named1(m, o)) = Cardinality(Named1(l, o)) - (IF a.obj = o THEN 1 ELSE 0)
                                                                          + (IF q = o THEN 1 ELSE 0)
      <4>1. Replaced(l, i, b, m)
        BY DEF Replaced
      <4> HIDE DEF m
      <4> QED BY <1>2, <1>3, <3>2, <3>3, <4>1, Renamed
    <3>5. ob[q] = NoObj /\ ob[a.obj].n \in Nat
      BY <1>4, <1>6, <3>1, ObjectParts
    <3>6. /\ e \in [Objs -> LiveObjects \cup {NoObj}] /\ FramesApart(e)
          /\ e[q].ref = 1 /\ \A o \in Objs : o # q => e[o] = ob[o]
      <4>1. idx \in Int /\ ob \in [Objs -> LiveObjects \cup {NoObj}] /\ FramesApart(ob) /\ FreeFrames(ob) # {}
        BY <1>4, <1>6, <2>2
      <4>2. Copied(ob, q, ob[a.obj].n, idx, e)
        BY DEF Copied
      <4> HIDE DEF e, x
      <4> QED BY <3>1, <3>5, <4>1, <4>2, CopyMade
    <3> HIDE DEF e, m
    <3>7. ASSUME NEW o \in Objs PROVE k[o] = IF a.obj = o THEN 1 ELSE 0
      <4>1. k[o] = Cardinality({j \in {i} : l[j].obj = o})
        BY DEF Named
      <4>2. CASE a.obj = o
        <5>1. {j \in {i} : l[j].obj = o} = {i}
          BY <3>3, <4>2
        <5>2. Cardinality({i}) = 1
          BY FS_Singleton
        <5> QED BY <4>1, <4>2, <5>1, <5>2
      <4>3. CASE a.obj # o
        <5>1. {j \in {i} : l[j].obj = o} = {}
          BY <3>3, <4>3
        <5>2. Cardinality({}) = 0
          BY FS_EmptySet
        <5> QED BY <4>1, <4>3, <5>1, <5>2
      <4> QED BY <4>2, <4>3
    <3>8. k \in [Objs -> Nat]
      <4>1. k = [o \in Objs |-> k[o]]
        BY DEF Named
      <4> HIDE DEF k
      <4> QED BY <3>7, <4>1
    <3> HIDE DEF k
    <3>9. \A o \in Objs : e[o].ref = IF o = q THEN 1 ELSE obj[o].ref
      BY <1>6, <3>6
    <3>10. \A o \in Objs : k[o] <= e[o].ref
      <4> SUFFICES ASSUME NEW o \in Objs PROVE k[o] <= e[o].ref
        OBVIOUS
      <4>1. obj[o].ref \in Nat
        BY <1>5, ObjectParts
      <4> QED BY <2>2, <3>2, <3>7, <3>9, <4>1
    <3>11. obj' \in [Objs -> LiveObjects \cup {NoObj}] /\ FramesApart(obj') /\ \A o \in Objs : obj'[o].ref = e[o].ref - k[o]
      BY <2>2, <3>6, <3>8, <3>10, PutKeeps
    <3>12. ASSUME NEW o \in Objs
           PROVE  obj'[o].ref = obj[o].ref - Cardinality(Named1(areas[s], o)) + Cardinality(Named1(m, o))
      <4>1. obj[o].ref \in Nat /\ Cardinality(Named1(areas[s], o)) \in Nat
        BY <1>5, RefsCover
      <4>2. Named1(l, o) = Named1(areas[s], o)
        BY <1>2 DEF Named1
      <4>3. Cardinality(Named1(m, o)) = Cardinality(Named1(areas[s], o)) - (IF a.obj = o THEN 1 ELSE 0) + (IF q = o THEN 1 ELSE 0)
        BY <3>4, <4>2
      <4>4. obj'[o].ref = (IF o = q THEN 1 ELSE obj[o].ref) - (IF a.obj = o THEN 1 ELSE 0)
        BY <3>7, <3>9, <3>11
      <4>5. CASE o = q
        BY <3>1, <3>2, <4>1, <4>3, <4>4, <4>5
      <4>6. CASE o # q
        BY <4>1, <4>3, <4>4, <4>6
      <4> QED BY <4>5, <4>6
    <3>13. Consistent(obj', areas')
      <4>1. m \in Seq(Areas)
        BY <3>4
      <4> QED BY <1>5, <2>2, <3>11, <3>12, <4>1, ListConsistent
    <3> QED BY <1>1, <3>13 DEF VmmInv
  <2>3. \/ areas' = more /\ (obj' = obj \/ obj' = ob)
        \/ /\ ~(obj[a.obj].ref <= 1) /\ FreeFrames(ob) # {} /\ NewObj(obj) # {}
           /\ obj' = Put(e, k) /\ areas' = [areas EXCEPT ![s] = m]
    BY <1>10 DEF CopyOnWrite, a, idx, ob
  <2> QED BY <2>1, <2>2, <2>3
<1> QED BY <1>1, <1>8, <1>9, <1>10

(* Nothing is mapped at first.                                              *)
LEMMA VmmStart == VmmAssumption /\ VmmInit => VmmInv
<1> SUFFICES ASSUME VmmAssumption, VmmInit PROVE VmmInv
  OBVIOUS
<1>1. /\ obj \in [Objs -> {NoObj}] /\ \A o \in Objs : obj[o] = NoObj
      /\ areas \in [Spaces -> Seq(Areas)] /\ (\A s \in Spaces : areas[s] = <<>>) /\ filling = NoFill
  BY DEF VmmInit
<1>2. NoObj.ref = 0 /\ DOMAIN NoObj.frames = {}
  BY DEF NoObj
<1>3. RefsCounted(obj, areas)
  <2> SUFFICES ASSUME NEW o \in Objs PROVE obj[o].ref = Cardinality(Naming(areas, o))
    BY DEF RefsCounted
  <2>1. Naming(areas, o) = {}
    BY <1>1 DEF Naming
  <2>2. Cardinality({}) = 0
    BY FS_EmptySet
  <2> QED BY <1>1, <1>2, <2>1, <2>2
<1>4. FramesApart(obj)
  BY <1>1, <1>2 DEF FramesApart
<1> QED BY <1>1, <1>3, <1>4 DEF VmmInv, Consistent

(* Every operation keeps the counts.                                        *)
LEMMA VmmSteps == VmmAssumption /\ VmmInv /\ [VmmNext]_vmmVars => VmmInv'
<1> SUFFICES ASSUME VmmAssumption, VmmInv, [VmmNext]_vmmVars PROVE VmmInv'
  OBVIOUS
<1>1. CASE Populate
  BY <1>1, PopulateKeeps
<1>2. CASE \E s \in Spaces, n \in 1..MaxLen, prot \in MapProts, flag \in Flags, hint \in Hints : MapObject(s, hint, n, prot, flag)
  BY <1>2, MapKeeps
<1>3. CASE \E s \in Spaces, va \in Pages, n \in 1..MaxLen : Unmap(s, va, n)
  BY <1>3, UnmapKeeps
<1>4. CASE \E s \in Spaces, va \in Pages, n \in 1..MaxLen, prot \in Prots : Protect(s, va, n, prot)
  BY <1>4, ProtectKeeps
<1>5. CASE \E s, c \in Spaces : Clone(s, c)
  BY <1>5, CloneKeeps
<1>6. CASE \E s \in Spaces : AsDestroy(s)
  BY <1>6, AsDestroyKeeps
<1>7. CASE \E s \in Spaces, p \in Pages, access \in {"read", "write", "exec"} : Fault(s, p, access)
  BY <1>7, FaultKeeps
<1>8. CASE UNCHANGED vmmVars
  BY <1>8 DEF vmmVars, VmmInv, Consistent, RefsCounted
<1>9. CASE VmmNext
  <2>1. \A s \in Spaces, p \in Pages : \A access : Access(s, p, access) => Fault(s, p, access)
    BY DEF Access
  <2> QED BY <1>1, <1>2, <1>3, <1>4, <1>5, <1>6, <1>7, <1>9, <2>1 DEF VmmNext
<1> QED BY <1>8, <1>9

(* The inductive invariant says what the run checks of the objects.         *)
LEMMA ObjectsHold == VmmAssumption /\ VmmInv => ObjectsBalanced
<1> SUFFICES ASSUME VmmAssumption, VmmInv PROVE ObjectsBalanced
  OBVIOUS
<1>1. obj \in [Objs -> LiveObjects \cup {NoObj}] /\ RefsCounted(obj, areas) /\ FramesApart(obj)
  BY DEF VmmInv, Consistent
<1>2. ASSUME NEW o \in Objs
      PROVE  obj[o].ref = Cardinality(NamedBy(o)) /\ (obj[o].ref = 0) = (obj[o].kind = "none")
  <2>1. NamedBy(o) = Naming(areas, o)
    BY DEF NamedBy, Mappings, Naming
  <2>2. obj[o].ref = Cardinality(NamedBy(o))
    BY <1>1, <2>1 DEF RefsCounted
  <2>3. obj[o].ref = 0 <=> obj[o].kind = "none"
    BY <1>1, ObjectParts
  <2> QED BY <2>2, <2>3
<1> QED BY <1>1, <1>2 DEF ObjectsBalanced, FramesApart

(* Over every sequence of maps, unmaps, clones, faults and teardowns, a     *)
(* memory object (vm_object_get, vm_object_put) counts the areas that name  *)
(* it, is gone exactly when none does, and shares no frame with another.    *)
THEOREM ObjectsCounted == VmmAssumption /\ VmmSpec => []ObjectsBalanced
<1> SUFFICES ASSUME VmmAssumption PROVE VmmSpec => []ObjectsBalanced
  OBVIOUS
<1>1. VmmInit => VmmInv
  BY VmmStart
<1>2. VmmInv /\ [VmmNext]_vmmVars => VmmInv'
  BY VmmSteps
<1>3. VmmInv => ObjectsBalanced
  BY ObjectsHold
<1> QED BY <1>1, <1>2, <1>3, PTL DEF VmmSpec
-----------------------------------------------------------------------------
(* Areas and translations: the list of a space is in order, a translation   *)
(* leads where its area says, and an eager population still has its area.   *)
InOrder(l) == /\ \A i \in DOMAIN l : l[i].start < l[i].end
              /\ \A i, j \in DOMAIN l : i < j => l[i].end <= l[j].start

Translations == [frame : Frames \cup {0}, prot : Protections]

Led(ob, ar, m) ==
  \A s \in Spaces, p \in Pages : m[s][p] # NoMap =>
    m[s][p].frame # 0 /\ \E i \in DOMAIN ar[s] : Backed(ob, ar[s][i], p, m[s][p].frame)

(* The area b is what became of a.                                          *)
Follows(e, a, b) == /\ b.start = a.start /\ b.end = a.end
                    /\ e[b.obj].kind = "cow" \/ (b.obj = a.obj /\ b.off = a.off)

Filled(e, ar, f) ==
  f # NoFill => /\ f.area.off = 0 /\ f.next < f.area.end - f.area.start
                /\ \E j \in DOMAIN ar[f.s] : Follows(e, f.area, ar[f.s][j])

AreaInv == /\ VmmInv /\ (\A s \in Spaces : InOrder(areas[s]))
           /\ pt \in [Spaces -> [Pages -> Translations]]
           /\ Led(obj, areas, pt) /\ Filled(obj, areas, filling)

(* An object that stays keeps its kind and the frames it has.               *)
Stays(x, y) == /\ y.kind = x.kind
               /\ \A k \in DOMAIN x.frames : x.frames[k] # 0 => k \in DOMAIN y.frames /\ y.frames[k] = x.frames[k]
ObjectsStay(ob, e) == \A o \in Objs : ob[o] # NoObj /\ e[o] # NoObj => Stays(ob[o], e[o])

(* An area names an object that lives.                                      *)
LEMMA NamedAlive ==
  ASSUME VmmAssumption, NEW ob, NEW ar, Consistent(ob, ar), NEW s \in Spaces, NEW i \in DOMAIN ar[s]
  PROVE  ar[s][i] \in Areas /\ ar[s][i].obj \in Objs /\ ob[ar[s][i].obj] # NoObj
<1> DEFINE o == ar[s][i].obj
<1>1. ar[s] \in Seq(Areas)
  BY DEF Consistent
<1>2. ar[s][i] \in Areas
  BY <1>1
<1>3. o \in Objs
  BY <1>2 DEF Areas
<1> HIDE DEF o
<1>4. /\ ob[o].ref \in Nat /\ Cardinality(Named1(ar[s], o)) \in Nat /\ Cardinality(Named1(ar[s], o)) <= ob[o].ref
      /\ IsFiniteSet(Named1(ar[s], o)) /\ (ob[o] = NoObj <=> ob[o].ref = 0)
  BY <1>3, RefsCover
<1>5. i \in Named1(ar[s], o)
  BY DEF Named1, o
<1>6. Cardinality(Named1(ar[s], o)) # 0
  BY <1>4, <1>5, FS_EmptySet
<1>7. ob[o] # NoObj
  BY <1>4, <1>6
<1> QED BY <1>2, <1>3, <1>7 DEF o

(* A page that an area backs is backed by the area that follows it.         *)
LEMMA BackedOn ==
  ASSUME VmmAssumption, NEW ob, NEW ar, Consistent(ob, ar), NEW e, NEW br, Consistent(e, br), ObjectsStay(ob, e),
         NEW s \in Spaces, NEW i \in DOMAIN ar[s], NEW j \in DOMAIN br[s], Follows(e, ar[s][i], br[s][j]),
         NEW p, NEW f, f # 0, Backed(ob, ar[s][i], p, f)
  PROVE  Backed(e, br[s][j], p, f)
<1> DEFINE a == ar[s][i]
           b == br[s][j]
           k == a.off + (p - a.start) + 1
<1>1. a.obj \in Objs /\ ob[a.obj] # NoObj /\ e[b.obj] # NoObj
  BY NamedAlive
<1>2. /\ b.start = a.start /\ b.end = a.end /\ Covers(a, p)
      /\ e[b.obj].kind = "cow" \/ (b.obj = a.obj /\ b.off = a.off)
      /\ ob[a.obj].kind = "cow" \/ (k \in DOMAIN ob[a.obj].frames /\ ob[a.obj].frames[k] = f)
  BY DEF Follows, Backed
<1> HIDE DEF a, b
<1>3. Covers(b, p)
  BY <1>2 DEF Covers
<1>4. CASE e[b.obj].kind = "cow"
  <2>1. Backed(e, b, p, f)
    BY <1>3, <1>4 DEF Backed
  <2> QED BY <2>1 DEF b
<1>5. CASE e[b.obj].kind # "cow"
  <2>1. b.obj = a.obj /\ b.off = a.off
    BY <1>2, <1>5
  <2>2. Stays(ob[a.obj], e[a.obj])
    BY <1>1, <2>1 DEF ObjectsStay
  <2> DEFINE x == ob[a.obj]
             y == e[a.obj]
  <2>3. k \in DOMAIN x.frames /\ x.frames[k] # 0 /\ x.frames[k] = f
    BY <1>2, <1>5, <2>1, <2>2 DEF Stays
  <2> HIDE DEF x, y, k
  <2>4. Stays(x, y)
    BY <2>2 DEF x, y
  <2>5. k \in DOMAIN y.frames /\ y.frames[k] = f
    BY <2>3, <2>4 DEF Stays
  <2>6. b.off + (p - b.start) + 1 = k
    BY <1>2, <2>1 DEF k
  <2>7. Backed(e, b, p, f)
    BY <1>3, <2>1, <2>5, <2>6 DEF Backed, y
  <2> QED BY <2>7 DEF b
<1> QED BY <1>4, <1>5

(* What follows an area that follows a, follows a.                          *)
LEMMA FollowsOn ==
  ASSUME VmmAssumption, NEW ob, NEW ar, Consistent(ob, ar), NEW e, NEW br, Consistent(e, br), ObjectsStay(ob, e),
         NEW s \in Spaces, NEW i \in DOMAIN ar[s], NEW j \in DOMAIN br[s], Follows(e, ar[s][i], br[s][j]),
         NEW a, Follows(ob, a, ar[s][i])
  PROVE  Follows(e, a, br[s][j])
<1> DEFINE b == ar[s][i]
           c == br[s][j]
<1>1. b.obj \in Objs /\ ob[b.obj] # NoObj /\ e[c.obj] # NoObj
  BY NamedAlive
<1>2. /\ c.start = b.start /\ c.end = b.end /\ (e[c.obj].kind = "cow" \/ (c.obj = b.obj /\ c.off = b.off))
      /\ b.start = a.start /\ b.end = a.end /\ (ob[b.obj].kind = "cow" \/ (b.obj = a.obj /\ b.off = a.off))
  BY DEF Follows
<1> HIDE DEF b, c
<1>3. c.obj = b.obj /\ ob[b.obj].kind = "cow" => e[c.obj].kind = "cow"
  <2> SUFFICES ASSUME c.obj = b.obj, ob[b.obj].kind = "cow" PROVE e[c.obj].kind = "cow"
    OBVIOUS
  <2>1. Stays(ob[b.obj], e[b.obj])
    BY <1>1 DEF ObjectsStay
  <2> QED BY <2>1 DEF Stays
<1>4. Follows(e, a, c)
  BY <1>2, <1>3 DEF Follows
<1> QED BY <1>4 DEF c

(* A translation that was there and whose area goes on, and one that enters.*)
Carried(s, p) == /\ pt[s][p] # NoMap /\ pt'[s][p].frame = pt[s][p].frame
                 /\ \A i \in DOMAIN areas[s] : Covers(areas[s][i], p) =>
                      \E j \in DOMAIN areas'[s] : Follows(obj', areas[s][i], areas'[s][j])
Entered(s, p) == /\ pt'[s][p].frame # 0
                 /\ \E j \in DOMAIN areas'[s] : Backed(obj', areas'[s][j], p, pt'[s][p].frame)

(* Between them they are all there are.                                     *)
LEMMA LedOn ==
  ASSUME VmmAssumption, AreaInv, VmmInv', ObjectsStay(obj, obj'),
         \A s \in Spaces, p \in Pages : pt'[s][p] # NoMap => Carried(s, p) \/ Entered(s, p)
  PROVE  Led(obj', areas', pt')
<1> SUFFICES ASSUME NEW s \in Spaces, NEW p \in Pages, pt'[s][p] # NoMap PROVE Entered(s, p)
  BY DEF Led, Entered
<1>1. CASE Entered(s, p)
  BY <1>1
<1>2. CASE Carried(s, p)
  <2> DEFINE f == pt[s][p].frame
  <2>1. f # 0 /\ \E i \in DOMAIN areas[s] : Backed(obj, areas[s][i], p, f)
    BY <1>2 DEF AreaInv, Led, Carried
  <2>2. PICK i \in DOMAIN areas[s] : Backed(obj, areas[s][i], p, f)
    BY <2>1
  <2>3. pt'[s][p].frame = f
    BY <1>2 DEF Carried
  <2> HIDE DEF f
  <2>4. Covers(areas[s][i], p)
    BY <2>2 DEF Backed
  <2>5. PICK j \in DOMAIN areas'[s] : Follows(obj', areas[s][i], areas'[s][j])
    BY <1>2, <2>4 DEF Carried
  <2>6. Consistent(obj, areas) /\ Consistent(obj', areas')
    BY DEF AreaInv, VmmInv
  <2>7. Backed(obj', areas'[s][j], p, f)
    BY <2>1, <2>2, <2>5, <2>6, BackedOn
  <2> QED BY <2>1, <2>3, <2>7 DEF Entered
<1> QED BY <1>1, <1>2

(* An eager population goes on in the area that follows its own.            *)
LEMMA FilledOn ==
  ASSUME VmmAssumption, AreaInv, VmmInv', ObjectsStay(obj, obj'), filling # NoFill,
         \A i \in DOMAIN areas[filling.s] : \E j \in DOMAIN areas'[filling.s] :
           Follows(obj', areas[filling.s][i], areas'[filling.s][j])
  PROVE  \E j \in DOMAIN areas'[filling.s] : Follows(obj', filling.area, areas'[filling.s][j])
<1>1. filling.s \in Spaces
  BY DEF AreaInv, VmmInv
<1>2. PICK i \in DOMAIN areas[filling.s] : Follows(obj, filling.area, areas[filling.s][i])
  BY DEF AreaInv, Filled
<1>3. PICK j \in DOMAIN areas'[filling.s] : Follows(obj', areas[filling.s][i], areas'[filling.s][j])
  BY <1>2
<1>4. Consistent(obj, areas) /\ Consistent(obj', areas')
  BY DEF AreaInv, VmmInv
<1>5. Follows(obj', filling.area, areas'[filling.s][j])
  BY <1>1, <1>2, <1>3, <1>4, FollowsOn
<1> QED BY <1>5

(* A step that leaves the population alone and the lists as they follow.    *)
LEMMA FilledSame ==
  ASSUME VmmAssumption, AreaInv, VmmInv', ObjectsStay(obj, obj'), filling' = filling,
         filling # NoFill =>
           \A i \in DOMAIN areas[filling.s] : \E j \in DOMAIN areas'[filling.s] :
             Follows(obj', areas[filling.s][i], areas'[filling.s][j])
  PROVE  Filled(obj', areas', filling')
<1> SUFFICES ASSUME filling # NoFill PROVE Filled(obj', areas', filling')
  BY DEF Filled
<1>1. \E j \in DOMAIN areas'[filling.s] : Follows(obj', filling.area, areas'[filling.s][j])
  BY FilledOn
<1>2. filling.area.off = 0 /\ filling.next < filling.area.end - filling.area.start
  BY DEF AreaInv, Filled
<1> QED BY <1>1, <1>2 DEF Filled

(* An area that stays as it is follows itself.                              *)
LEMMA FollowsItself == ASSUME NEW e, NEW a PROVE Follows(e, a, a)
  BY DEF Follows

(* Objects that stay as they are.                                           *)
LEMMA StaysItself == ASSUME NEW ob PROVE ObjectsStay(ob, ob)
  BY DEF ObjectsStay, Stays

(* vm_object_page keeps the frames there are and gives the page one.        *)
LEMMA TouchStays ==
  ASSUME VmmAssumption, NEW ob \in [Objs -> LiveObjects \cup {NoObj}], NEW o \in Objs, NEW i \in Nat
  PROVE  LET e == Touch(ob, o, i)
             f == FrameOf(ob, o, i) IN
         /\ ObjectsStay(ob, e) /\ \A x \in Objs : e[x].kind = ob[x].kind
         /\ HasPage(ob, o, i) => /\ i + 1 \in DOMAIN e[o].frames /\ e[o].frames[i + 1] = f /\ f # 0 /\ f \in Frames
<1> DEFINE e == Touch(ob, o, i)
           f == FrameOf(ob, o, i)
           t == Min(FreeFrames(ob))
           g == [ob[o].frames EXCEPT ![i + 1] = t]
<1>1. ob[o].n \in Nat /\ ob[o].frames \in [1..ob[o].n -> Frames \cup {0}]
  BY ObjectParts
<1>2. HasPage(ob, o, i) => i + 1 \in DOMAIN ob[o].frames /\ f = e[o].frames[i + 1]
  BY <1>1 DEF HasPage, FrameOf
<1>3. CASE ~(HasPage(ob, o, i) /\ ob[o].frames[i + 1] = 0)
  <2>1. e = ob
    BY <1>3 DEF Touch
  <2> HIDE DEF e
  <2>2. ObjectsStay(ob, e)
    BY <2>1, StaysItself
  <2>3. HasPage(ob, o, i) => ob[o].frames[i + 1] # 0 /\ ob[o].frames[i + 1] \in Frames
    BY <1>1, <1>2, <1>3
  <2> QED BY <1>2, <2>1, <2>2, <2>3 DEF e
<1>4. CASE HasPage(ob, o, i) /\ ob[o].frames[i + 1] = 0
  <2>1. e = [ob EXCEPT ![o].frames[i + 1] = t]
    BY <1>4 DEF Touch
  <2>2. FreeFrames(ob) # {}
    BY <1>4 DEF HasPage
  <2>3. t \in Frames /\ t # 0
    BY <2>2, FreshFrame
  <2> HIDE DEF t
  <2>4. e = [ob EXCEPT ![o] = [ob[o] EXCEPT !.frames = g]]
    BY <2>1
  <2>5. DOMAIN g = DOMAIN ob[o].frames /\ g[i + 1] = t /\ \A k \in DOMAIN g : k # i + 1 => g[k] = ob[o].frames[k]
    BY <1>2, <1>4
  <2> HIDE DEF e, g
  <2>6. ob[o] \in LiveObjects
    <3>1. ob[o] # NoObj
      BY <1>2, <1>4 DEF NoObj
    <3> QED BY <3>1
  <2>7. e[o].frames = g /\ e[o].kind = ob[o].kind
    <3>1. PICK n \in Nat : ob[o] \in [kind : {"anon", "cow"}, n : {n}, frames : [1..n -> Frames \cup {0}], ref : Nat \ {0}]
      BY <2>6 DEF LiveObjects
    <3> QED BY <2>4, <3>1
  <2>8. \A x \in Objs : x # o => e[x] = ob[x]
    BY <2>4
  <2>9. ASSUME NEW x \in Objs PROVE Stays(ob[x], e[x])
    <3>1. CASE x # o
      BY <2>8, <3>1 DEF Stays
    <3>2. CASE x = o
      BY <1>4, <2>5, <2>7, <3>2 DEF Stays
    <3> QED BY <3>1, <3>2
  <2>10. ObjectsStay(ob, e) /\ \A x \in Objs : e[x].kind = ob[x].kind
    BY <2>9 DEF ObjectsStay, Stays
  <2>11. i + 1 \in DOMAIN e[o].frames /\ e[o].frames[i + 1] = t
    BY <1>2, <1>4, <2>5, <2>7
  <2> QED BY <1>2, <1>4, <2>3, <2>10, <2>11 DEF e
<1> QED BY <1>3, <1>4

(* A count changes neither the kind nor the frames.                         *)
LEMMA RefAlone ==
  ASSUME NEW x \in LiveObjects \cup {NoObj}, NEW r
  PROVE  LET y == [x EXCEPT !.ref = r] IN y.kind = x.kind /\ y.frames = x.frames
<1>1. CASE x = NoObj
  BY <1>1 DEF NoObj
<1>2. CASE x \in LiveObjects
  <2>1. PICK n \in Nat : x \in [kind : {"anon", "cow"}, n : {n}, frames : [1..n -> Frames \cup {0}], ref : Nat \ {0}]
    BY <1>2 DEF LiveObjects
  <2> QED BY <2>1
<1> QED BY <1>1, <1>2

(* References taken and dropped: what stays, stays as it is.                *)
LEMMA PutStays ==
  ASSUME NEW ob \in [Objs -> LiveObjects \cup {NoObj}], NEW k, NEW e, e = Put(ob, k)
  PROVE  /\ ObjectsStay(ob, e)
         /\ \A o \in Objs : ob[o].ref # k[o] => e[o].kind = ob[o].kind
<1>1. ASSUME NEW o \in Objs, ob[o].ref # k[o] PROVE e[o].kind = ob[o].kind /\ e[o].frames = ob[o].frames
  <2>1. e[o] = [ob[o] EXCEPT !.ref = ob[o].ref - k[o]]
    BY <1>1 DEF Put
  <2>2. ob[o] \in LiveObjects \cup {NoObj}
    OBVIOUS
  <2> QED BY <2>1, <2>2, RefAlone
<1>2. \A o \in Objs : ob[o].ref = k[o] => e[o] = NoObj
  BY DEF Put
<1>3. ObjectsStay(ob, e)
  BY <1>1, <1>2 DEF ObjectsStay, Stays
<1> QED BY <1>1, <1>3

(* The same of a reference taken.                                          *)
LEMMA GetStays ==
  ASSUME NEW ob \in [Objs -> LiveObjects \cup {NoObj}], NEW k, NEW e, e = Get(ob, k)
  PROVE  ObjectsStay(ob, e)
<1>1. ASSUME NEW o \in Objs PROVE Stays(ob[o], e[o])
  <2>1. e[o] = [ob[o] EXCEPT !.ref = ob[o].ref + k[o]]
    BY DEF Get
  <2>2. ob[o] \in LiveObjects \cup {NoObj}
    OBVIOUS
  <2>3. e[o].kind = ob[o].kind /\ e[o].frames = ob[o].frames
    BY <2>1, <2>2, RefAlone
  <2> QED BY <2>3 DEF Stays
<1> QED BY <1>1 DEF ObjectsStay

(* find_gap: the place it returns is free.                                  *)
LEMMA GapFree ==
  ASSUME VmmAssumption, VmmInv, NEW s \in Spaces, NEW hint \in Hints, NEW n \in Nat, NEW va, va = FindGap(s, hint, n), va # 0
  PROVE  va \in Nat /\ \A i \in DOMAIN areas[s] : ~Overlaps(areas[s][i], va, n)
<1> DEFINE from == IF hint # 0 THEN hint ELSE MmapBase
           ok == {p \in from..(Top + 1 - n) : \A i \in DOMAIN areas[s] : ~Overlaps(areas[s][i], p, n)}
<1>1. va = IF ok = {} THEN 0 ELSE Min(ok)
  BY DEF FindGap
<1>2. from \in Nat /\ Top \in Nat
  BY DEF VmmAssumption
<1> HIDE DEF from
<1>3. ok \in SUBSET Nat /\ \A p \in ok : \A i \in DOMAIN areas[s] : ~Overlaps(areas[s][i], p, n)
  BY <1>2
<1> HIDE DEF ok
<1>4. va = Min(ok) /\ ok # {}
  BY <1>1
<1>5. va \in ok
  BY <1>3, <1>4, FirstPosition
<1> QED BY <1>3, <1>5

(* The list r is l with a at the position m, before the areas that start    *)
(* later.                                                                   *)
PlacedAt(l, a, r, m) ==
  /\ m \in 1..(Len(l) + 1) /\ DOMAIN r = 1..(Len(l) + 1) /\ r[m] = a
  /\ \A i \in 1..Len(l) : i < m => ~(a.start < l[i].start)
  /\ m \in 1..Len(l) => a.start < l[m].start
  /\ \A k \in 1..Len(l) : (k < m => r[k] = l[k]) /\ (m <= k => r[k + 1] = l[k])
  /\ \A k \in 1..(Len(l) + 1) : (k < m => k \in 1..Len(l) /\ r[k] = l[k])
                                /\ (m < k => k - 1 \in 1..Len(l) /\ m <= k - 1 /\ r[k] = l[k - 1])

(* insert_area: an area that overlaps none finds its place, and the others  *)
(* keep theirs.                                                             *)
LEMMA InsertInOrder ==
  ASSUME NEW l \in Seq(Areas), InOrder(l), NEW a \in Areas, NEW n \in Nat \ {0}, a.end = a.start + n,
         \A i \in DOMAIN l : ~Overlaps(l[i], a.start, n), NEW r, r = Insert(l, a)
  PROVE  /\ InOrder(r) /\ (\E m \in DOMAIN r : r[m] = a)
         /\ \A i \in DOMAIN l : \E j \in DOMAIN r : r[j] = l[i]
<1> DEFINE later == {i \in DOMAIN l : a.start < l[i].start}
           len == Len(l)
<1>1. /\ len \in Nat /\ DOMAIN l = 1..len /\ a.start \in Int /\ a.end \in Int
      /\ \A i \in DOMAIN l : l[i].start \in Int /\ l[i].end \in Int
  <2>1. \A i \in DOMAIN l : l[i] \in Areas
    OBVIOUS
  <2> QED BY <2>1 DEF Areas
<1>2. PICK m : PlacedAt(l, a, r, m)
  <2>1. CASE later = {}
    <3>1. r = Append(l, a)
      BY <2>1 DEF Insert
    <3>2. /\ DOMAIN r = 1..(len + 1) /\ r[len + 1] = a /\ \A k \in 1..len : k < len + 1 /\ r[k] = l[k]
      BY <3>1
    <3>3. \A i \in 1..len : ~(a.start < l[i].start)
      BY <1>1, <2>1
    <3> HIDE DEF later
    <3>4. \A k \in 1..len : (k < len + 1 => r[k] = l[k]) /\ (len + 1 <= k => r[k + 1] = l[k])
      BY <1>1, <3>2
    <3>5. \A k \in 1..(len + 1) : (k < len + 1 => k \in 1..len /\ r[k] = l[k])
                                  /\ (len + 1 < k => k - 1 \in 1..len /\ len + 1 <= k - 1 /\ r[k] = l[k - 1])
      BY <1>1, <3>2
    <3>6. ~(len + 1 \in 1..len) /\ len + 1 \in 1..(len + 1)
      BY <1>1
    <3>7. PlacedAt(l, a, r, len + 1)
      BY <3>2, <3>3, <3>4, <3>5, <3>6, Zenon DEF PlacedAt
    <3> QED BY <3>7
  <2>2. CASE later # {}
    <3> DEFINE q == Min(later)
    <3>1. later \in SUBSET Nat
      BY <1>1
    <3>2. q \in later /\ \A i \in later : q <= i
      <4> HIDE DEF later
      <4> QED BY <2>2, <3>1, FirstPosition
    <3>3. q \in 1..(len + 1) /\ q \in Int
      BY <1>1, <3>2
    <3>4. r = InsertAt(l, q, a)
      BY <2>2 DEF Insert
    <3> HIDE DEF q
    <3>5. a.start < l[q].start /\ \A i \in 1..len : i < q => ~(a.start < l[i].start)
      BY <1>1, <3>2, <3>3
    <3> HIDE DEF later
    <3>6. /\ r \in Seq(Areas) /\ Len(r) = len + 1 /\ r[q] = a
          /\ \A k \in 1..len : r[IF k < q THEN k ELSE k + 1] = l[k]
          /\ \A k \in 1..Len(r) : k # q => r[k] = l[IF k < q THEN k ELSE k - 1]
      <4>1. l \in Seq(Areas) /\ a \in Areas /\ q \in 1..(Len(l) + 1)
        BY <3>3
      <4> DEFINE w == InsertAt(l, q, a)
      <4>2. /\ w \in Seq(Areas) /\ Len(w) = Len(l) + 1 /\ w[q] = a
            /\ \A k \in 1..Len(l) : w[IF k < q THEN k ELSE k + 1] = l[k]
            /\ \A k \in 1..Len(w) : k # q => w[k] = l[IF k < q THEN k ELSE k - 1]
        BY <4>1, Inserted
      <4> QED BY <3>4, <4>2, Zenon
    <3>7. DOMAIN r = 1..(len + 1)
      BY <3>6
    <3>8. \A k \in 1..len : (k < q => r[k] = l[k]) /\ (q <= k => r[k + 1] = l[k])
      <4> SUFFICES ASSUME NEW k \in 1..len PROVE (k < q => r[k] = l[k]) /\ (q <= k => r[k + 1] = l[k])
        OBVIOUS
      <4>1. r[IF k < q THEN k ELSE k + 1] = l[k]
        BY <3>6
      <4>2. q <= k => ~(k < q)
        BY <1>1, <3>3
      <4> QED BY <4>1, <4>2
    <3>9. \A k \in 1..(len + 1) : (k < q => k \in 1..len /\ r[k] = l[k])
                                  /\ (q < k => k - 1 \in 1..len /\ q <= k - 1 /\ r[k] = l[k - 1])
      <4> SUFFICES ASSUME NEW k \in 1..(len + 1), k # q
                   PROVE  (k < q => k \in 1..len /\ r[k] = l[k])
                          /\ (q < k => k - 1 \in 1..len /\ q <= k - 1 /\ r[k] = l[k - 1])
        BY <3>3
      <4>1. r[k] = l[IF k < q THEN k ELSE k - 1]
        BY <3>6
      <4>2. (k < q => k \in 1..len) /\ (q < k => ~(k < q) /\ k - 1 \in 1..len /\ q <= k - 1)
        BY <1>1, <3>3
      <4> QED BY <4>1, <4>2
    <3>10. PlacedAt(l, a, r, q)
      BY <3>3, <3>5, <3>6, <3>7, <3>8, <3>9, Zenon DEF PlacedAt
    <3> QED BY <3>10
  <2> QED BY <2>1, <2>2
<1> HIDE DEF later
<1>3. /\ m \in 1..(len + 1) /\ DOMAIN r = 1..(len + 1) /\ r[m] = a
      /\ \A i \in 1..len : i < m => ~(a.start < l[i].start)
      /\ m \in 1..len => a.start < l[m].start
  BY <1>2, Zenon DEF PlacedAt
<1>4. /\ \A k \in 1..len : (k < m => r[k] = l[k]) /\ (m <= k => r[k + 1] = l[k])
      /\ \A k \in 1..(len + 1) : (k < m => k \in 1..len /\ r[k] = l[k])
                                 /\ (m < k => k - 1 \in 1..len /\ m <= k - 1 /\ r[k] = l[k - 1])
  BY <1>2, Zenon DEF PlacedAt
<1>5. ASSUME NEW i \in 1..len PROVE (i < m => l[i].end <= a.start) /\ (m <= i => a.end <= l[i].start)
  <2>1. l[i].start < l[i].end /\ (a.start + n <= l[i].start \/ l[i].end <= a.start)
    <3>1. ~(a.start + n > l[i].start /\ a.start < l[i].end) /\ l[i].start < l[i].end
      BY <1>1 DEF Overlaps, InOrder
    <3> QED BY <1>1, <3>1
  <2>2. CASE i < m
    <3>1. ~(a.start < l[i].start)
      BY <1>3, <2>2
    <3>2. l[i].end <= a.start
      BY <1>1, <2>1, <3>1
    <3> QED BY <1>1, <1>3, <2>2, <3>2
  <2>3. CASE m <= i
    <3>1. m \in 1..len
      BY <1>1, <1>3, <2>3
    <3>2. a.start < l[m].start
      BY <1>3, <3>1
    <3>3. l[m].start <= l[i].start
      <4>1. CASE i = m
        BY <1>1, <3>1, <4>1
      <4>2. CASE m < i
        <5>1. l[m].start < l[m].end /\ l[m].end <= l[i].start
          BY <1>1, <3>1, <4>2 DEF InOrder
        <5> QED BY <1>1, <3>1, <5>1
      <4> QED BY <1>1, <2>3, <3>1, <4>1, <4>2
    <3>4. a.end <= l[i].start
      BY <1>1, <2>1, <3>1, <3>2, <3>3
    <3> QED BY <1>1, <1>3, <2>3, <3>4
  <2> QED BY <1>1, <1>3, <2>2, <2>3
<1> HIDE DEF len
<1>6. ASSUME NEW i \in DOMAIN r PROVE r[i].start < r[i].end
  <2>1. CASE i = m
    BY <1>1, <1>3, <2>1
  <2>2. CASE i # m
    <3>1. i < m \/ m < i
      BY <1>1, <1>3, <2>2
    <3>2. PICK x \in 1..len : r[i] = l[x]
      BY <1>3, <1>4, <3>1
    <3> QED BY <1>1, <3>2 DEF InOrder
  <2> QED BY <2>1, <2>2
<1>7. ASSUME NEW i \in DOMAIN r, NEW j \in DOMAIN r, i < j PROVE r[i].end <= r[j].start
  <2>1. i \in 1..(len + 1) /\ j \in 1..(len + 1)
    BY <1>3
  <2>2. i = m \/ i < m \/ m < i
    BY <1>1, <1>3, <2>1
  <2>3. CASE i = m
    <3>1. r[i] = a /\ m < j
      BY <1>3, <1>7, <2>3
    <3>2. j - 1 \in 1..len /\ r[j] = l[j - 1] /\ m <= j - 1
      BY <1>4, <2>1, <3>1
    <3> QED BY <1>5, <3>1, <3>2
  <2>4. CASE i < m
    <3>1. i \in 1..len /\ r[i] = l[i]
      BY <1>4, <2>1, <2>4
    <3>2. CASE j = m
      BY <1>3, <1>5, <2>4, <3>1, <3>2
    <3>3. CASE j < m
      <4>1. j \in 1..len /\ r[j] = l[j]
        BY <1>4, <2>1, <3>3
      <4> QED BY <1>1, <1>7, <3>1, <4>1 DEF InOrder
    <3>4. CASE m < j
      <4>1. j - 1 \in 1..len /\ r[j] = l[j - 1] /\ m <= j - 1
        BY <1>4, <2>1, <3>4
      <4>2. i < j - 1
        BY <1>1, <1>3, <2>1, <2>4, <4>1
      <4> QED BY <1>1, <3>1, <4>1, <4>2 DEF InOrder
    <3> QED BY <1>1, <1>3, <2>1, <3>2, <3>3, <3>4
  <2>5. CASE m < i
    <3>1. i - 1 \in 1..len /\ r[i] = l[i - 1]
      BY <1>4, <2>1, <2>5
    <3>2. m < j /\ i - 1 < j - 1
      BY <1>1, <1>3, <1>7, <2>1, <2>5
    <3>3. j - 1 \in 1..len /\ r[j] = l[j - 1]
      BY <1>4, <2>1, <3>2
    <3> QED BY <1>1, <3>1, <3>2, <3>3 DEF InOrder
  <2> QED BY <2>2, <2>3, <2>4, <2>5
<1>8. \A i \in DOMAIN l : \E j \in DOMAIN r : r[j] = l[i]
  <2> SUFFICES ASSUME NEW i \in 1..len PROVE \E j \in DOMAIN r : r[j] = l[i]
    BY <1>1
  <2>1. (i < m \/ m <= i) /\ i \in 1..(len + 1) /\ i + 1 \in 1..(len + 1)
    BY <1>1, <1>3
  <2> QED BY <1>3, <1>4, <2>1
<1>9. InOrder(r)
  BY <1>6, <1>7 DEF InOrder
<1> QED BY <1>3, <1>8, <1>9

(* as_unmap: the areas that stay keep their order.                          *)
LEMMA UnlinkInOrder ==
  ASSUME NEW l \in Seq(Areas), InOrder(l), NEW P \in SUBSET DOMAIN l, NEW r, r = Unlinked(l, P)
  PROVE  InOrder(r) /\ \A i \in DOMAIN l \ P : \E j \in DOMAIN r : r[j] = l[i]
<1> DEFINE K == DOMAIN l \ P
<1>1. DOMAIN l = 1..Len(l) /\ K \in SUBSET (1..Len(l)) /\ Len(l) \in Nat /\ K \subseteq DOMAIN l
  OBVIOUS
<1>2. r = Rest(l, K)
  BY DEF Unlinked, Rest, Rank
<1> HIDE DEF K
<1>3. /\ r \in Seq(Areas)
      /\ \A i \in K : Rank(K, i) \in 1..Len(r) /\ r[Rank(K, i)] = l[i]
      /\ \A k \in 1..Len(r) : \E i \in K : Rank(K, i) = k
      /\ \A i, k \in K : i < k => Rank(K, i) < Rank(K, k)
  BY <1>1, <1>2, RestOrdered
<1>4. DOMAIN r = 1..Len(r) /\ Len(r) \in Nat
  BY <1>3
<1>5. ASSUME NEW i \in DOMAIN r PROVE r[i].start < r[i].end
  <2>1. PICK x \in K : Rank(K, x) = i
    BY <1>3, <1>4
  <2>2. r[i] = l[x] /\ x \in DOMAIN l
    BY <1>1, <1>3, <2>1
  <2> QED BY <2>2 DEF InOrder
<1>6. ASSUME NEW i \in DOMAIN r, NEW j \in DOMAIN r, i < j PROVE r[i].end <= r[j].start
  <2>1. PICK x \in K : Rank(K, x) = i
    BY <1>3, <1>4
  <2>2. PICK y \in K : Rank(K, y) = j
    BY <1>3, <1>4
  <2>3. x \in Int /\ y \in Int /\ i \in Int /\ j \in Int
    BY <1>1, <1>4
  <2>4. x # y /\ ~(y < x)
    <3>1. y < x => j < i
      BY <1>3, <2>1, <2>2
    <3> QED BY <1>6, <2>1, <2>2, <2>3, <3>1
  <2>5. x < y
    BY <2>3, <2>4
  <2>6. r[i] = l[x] /\ r[j] = l[y] /\ x \in DOMAIN l /\ y \in DOMAIN l
    BY <1>1, <1>3, <2>1, <2>2
  <2> QED BY <2>5, <2>6 DEF InOrder
<1>7. \A i \in K : \E j \in DOMAIN r : r[j] = l[i]
  BY <1>3, <1>4
<1> QED BY <1>5, <1>6, <1>7 DEF InOrder, K

(* The areas of a space go on.                                              *)
Followed(s) == \A i \in DOMAIN areas[s] : \E j \in DOMAIN areas'[s] : Follows(obj', areas[s][i], areas'[s][j])

(* A list whose areas lie where they lay.                                   *)
LEMMA SameShape ==
  ASSUME NEW l, InOrder(l), NEW m, DOMAIN m = DOMAIN l,
         \A i \in DOMAIN l : m[i].start = l[i].start /\ m[i].end = l[i].end
  PROVE  InOrder(m)
  BY DEF InOrder

(* What the invariant says of the parts.                                    *)
LEMMA AreaParts ==
  ASSUME AreaInv
  PROVE  /\ Consistent(obj, areas) /\ obj \in [Objs -> LiveObjects \cup {NoObj}] /\ areas \in [Spaces -> Seq(Areas)]
         /\ filling \in {NoFill} \cup [s : Spaces, area : Areas, next : Nat]
         /\ (\A s \in Spaces : InOrder(areas[s]) /\ areas[s] \in Seq(Areas))
         /\ pt \in [Spaces -> [Pages -> Translations]]
  BY DEF AreaInv, VmmInv, Consistent

(* A step under which the areas go on, and what it maps is right.           *)
LEMMA StepOn ==
  ASSUME VmmAssumption, AreaInv, VmmInv', ObjectsStay(obj, obj'), filling' = filling,
         \A s \in Spaces : InOrder(areas'[s]) /\ Followed(s), pt' \in [Spaces -> [Pages -> Translations]],
         \A s \in Spaces, p \in Pages : pt'[s][p] # NoMap =>
           (pt[s][p] # NoMap /\ pt'[s][p].frame = pt[s][p].frame) \/ Entered(s, p)
  PROVE  AreaInv'
<1>1. Led(obj', areas', pt')
  <2>1. \A s \in Spaces, p \in Pages : pt'[s][p] # NoMap => Carried(s, p) \/ Entered(s, p)
    BY DEF Followed, Carried
  <2> QED BY <2>1, LedOn
<1>2. Filled(obj', areas', filling')
  <2>1. filling # NoFill => filling.s \in Spaces
    BY AreaParts
  <2>2. filling # NoFill => Followed(filling.s)
    BY <2>1
  <2> QED BY <2>2, FilledSame DEF Followed
<1> QED BY <1>1, <1>2 DEF AreaInv

(* as_map_object: the new area goes where find_gap found none.              *)
LEMMA MapOn ==
  ASSUME VmmAssumption, FlagsInUse, AreaInv, VmmInv', NEW s \in Spaces, NEW hint \in Hints, NEW n \in 1..MaxLen,
         NEW prot \in MapProts, NEW flag \in Flags, MapObject(s, hint, n, prot, flag)
  PROVE  AreaInv'
<1> DEFINE va == FindGap(s, hint, n)
           o  == Min(NewObj(obj))
           a  == [start |-> va, end |-> va + n, prot |-> prot, flag |-> flag, obj |-> o, off |-> 0]
           x  == [kind |-> "anon", n |-> n, frames |-> [i \in 1..n |-> 0], ref |-> 1]
           l  == Insert(areas[s], a)
<1>1. flag # "fixed"
  BY DEF FlagsInUse
<1>2. /\ NewObj(obj) # {} /\ va # 0 /\ areas' = [areas EXCEPT ![s] = l] /\ obj' = [obj EXCEPT ![o] = x]
      /\ filling' = NoFill \/ filling' = [s |-> s, area |-> a, next |-> 0]
      /\ pt' = pt
  BY <1>1 DEF MapObject
<1>3. /\ Consistent(obj, areas) /\ obj \in [Objs -> LiveObjects \cup {NoObj}] /\ areas \in [Spaces -> Seq(Areas)]
      /\ (\A y \in Spaces : InOrder(areas[y]) /\ areas[y] \in Seq(Areas)) /\ pt \in [Spaces -> [Pages -> Translations]]
  BY AreaParts
<1>4. o \in Objs /\ obj[o] = NoObj
  BY <1>2, <1>3, FreshObject
<1>5. n \in Nat \ {0}
  BY DEF VmmAssumption
<1>6. va \in Nat /\ \A i \in DOMAIN areas[s] : ~Overlaps(areas[s][i], va, n)
  <2>1. VmmInv /\ n \in Nat
    BY <1>5 DEF AreaInv
  <2> QED BY <1>2, <2>1, GapFree
<1> HIDE DEF va, o
<1>7. a \in Areas /\ a.start = va /\ a.end = a.start + n /\ a.off = 0
  <2>1. prot \in Protections /\ va + n \in Int
    BY <1>5, <1>6 DEF VmmAssumption
  <2> QED BY <1>4, <1>6, <2>1 DEF Areas
<1> HIDE DEF a
<1>8. InOrder(l) /\ (\E m \in DOMAIN l : l[m] = a) /\ \A i \in DOMAIN areas[s] : \E j \in DOMAIN l : l[j] = areas[s][i]
  BY <1>3, <1>5, <1>6, <1>7, InsertInOrder
<1> HIDE DEF l
<1>9. areas'[s] = l /\ \A y \in Spaces : y # s => areas'[y] = areas[y]
  BY <1>2, <1>3
<1>10. ObjectsStay(obj, obj')
  <2>1. \A q \in Objs : q # o => obj'[q] = obj[q]
    BY <1>2, <1>3
  <2> QED BY <1>4, <2>1 DEF ObjectsStay, Stays
<1>11. \A y \in Spaces : InOrder(areas'[y])
  BY <1>3, <1>8, <1>9
<1>12. ASSUME NEW y \in Spaces PROVE Followed(y)
  <2>1. \A i \in DOMAIN areas[y] : \E j \in DOMAIN areas'[y] : areas'[y][j] = areas[y][i]
    BY <1>8, <1>9
  <2> QED BY <2>1, FollowsItself DEF Followed
<1>13. Led(obj', areas', pt')
  <2>1. \A y \in Spaces, p \in Pages : pt'[y][p] # NoMap => Carried(y, p) \/ Entered(y, p)
    BY <1>2, <1>12 DEF Followed, Carried
  <2> QED BY <1>10, <2>1, LedOn
<1>14. Filled(obj', areas', filling')
  <2>1. CASE filling' = NoFill
    BY <2>1 DEF Filled
  <2>2. CASE filling' = [s |-> s, area |-> a, next |-> 0]
    <3>1. 0 < a.end - a.start
      BY <1>5, <1>6, <1>7
    <3>2. \E j \in DOMAIN areas'[s] : Follows(obj', a, areas'[s][j])
      BY <1>8, <1>9, FollowsItself
    <3>3. filling'.s = s /\ filling'.area = a /\ filling'.next = 0
      BY <2>2
    <3> QED BY <1>7, <3>1, <3>2, <3>3 DEF Filled
  <2> QED BY <1>2, <2>1, <2>2
<1> QED BY <1>2, <1>3, <1>11, <1>13, <1>14 DEF AreaInv

(* The eager population maps the page it touched.                           *)
LEMMA PopulateOn ==
  ASSUME VmmAssumption, AreaInv, VmmInv', Populate
  PROVE  AreaInv'
<1> DEFINE a == filling.area
           i == filling.next
           x == filling.s
           u == a.start + i
           f == FrameOf(obj, a.obj, i)
           new == [frame |-> f, prot |-> a.prot]
<1>1. /\ filling # NoFill /\ obj' = Touch(obj, a.obj, i) /\ areas' = areas
      /\ pt' = IF HasPage(obj, a.obj, i) THEN [pt EXCEPT ![x][u] = new] ELSE pt
      /\ filling' = NoFill \/ (i + 1 # a.end - a.start /\ filling' = [filling EXCEPT !.next = i + 1])
  BY DEF Populate
<1>2. /\ Consistent(obj, areas) /\ obj \in [Objs -> LiveObjects \cup {NoObj}] /\ areas \in [Spaces -> Seq(Areas)]
      /\ (\A y \in Spaces : InOrder(areas[y])) /\ pt \in [Spaces -> [Pages -> Translations]]
      /\ filling \in [s : Spaces, area : Areas, next : Nat]
  BY <1>1, AreaParts
<1>3. /\ x \in Spaces /\ a \in Areas /\ i \in Nat /\ a.obj \in Objs /\ a.start \in Int /\ a.end \in Int
      /\ a.prot \in Protections
  BY <1>2 DEF Areas
<1>4. a.off = 0 /\ i < a.end - a.start
  BY <1>1 DEF AreaInv, Filled
<1>5. /\ ObjectsStay(obj, obj')
      /\ HasPage(obj, a.obj, i) => /\ i + 1 \in DOMAIN obj'[a.obj].frames /\ obj'[a.obj].frames[i + 1] = f
                                   /\ f # 0 /\ f \in Frames
  <2> HIDE DEF a, i
  <2> QED BY <1>1, <1>2, <1>3, TouchStays DEF a, i
<1>6. \A y \in Spaces : Followed(y)
  BY <1>1, FollowsItself DEF Followed
<1>7. \E j \in DOMAIN areas'[x] : Follows(obj', a, areas'[x][j])
  BY <1>1, <1>3, <1>5, <1>6, FilledOn DEF Followed
<1> HIDE DEF f
<1>8. /\ pt' \in [Spaces -> [Pages -> Translations]]
      /\ \A y \in Spaces, p \in Pages : pt'[y][p] = IF HasPage(obj, a.obj, i) /\ y = x /\ p = u THEN new ELSE pt[y][p]
  <2>1. HasPage(obj, a.obj, i) => new \in Translations
    BY <1>3, <1>5 DEF Translations
  <2> HIDE DEF a, i, x, u, new
  <2> QED BY <1>1, <1>2, <1>3, <2>1
<1>9. HasPage(obj, a.obj, i) /\ u \in Pages => Entered(x, u)
  <2> SUFFICES ASSUME HasPage(obj, a.obj, i), u \in Pages PROVE Entered(x, u)
    OBVIOUS
  <2>1. pt'[x][u].frame = f
    BY <1>3, <1>8
  <2>2. PICK j \in DOMAIN areas'[x] : Follows(obj', a, areas'[x][j])
    BY <1>7
  <2> DEFINE b == areas'[x][j]
  <2>3. b.start = a.start /\ b.end = a.end /\ (obj'[b.obj].kind = "cow" \/ (b.obj = a.obj /\ b.off = a.off))
    BY <2>2 DEF Follows
  <2> HIDE DEF b
  <2>4. Covers(b, u)
    BY <1>3, <1>4, <2>3 DEF Covers
  <2>5. b.obj = a.obj /\ b.off = a.off => b.off + (u - b.start) + 1 = i + 1
    BY <1>3, <1>4, <2>3
  <2>6. Backed(obj', b, u, f)
    <3> HIDE DEF a, i, u
    <3> QED BY <1>5, <2>3, <2>4, <2>5 DEF Backed
  <2> QED BY <1>5, <2>1, <2>6 DEF Entered, b
<1>10. Led(obj', areas', pt')
  <2> HIDE DEF a, i, x, u, new
  <2>1. ASSUME NEW y \in Spaces, NEW p \in Pages, pt'[y][p] # NoMap PROVE Carried(y, p) \/ Entered(y, p)
    <3>1. CASE HasPage(obj, a.obj, i) /\ y = x /\ p = u
      BY <1>9, <3>1
    <3>2. CASE ~(HasPage(obj, a.obj, i) /\ y = x /\ p = u)
      <4>1. pt'[y][p] = pt[y][p]
        BY <1>8, <3>2
      <4> QED BY <1>6, <2>1, <4>1 DEF Followed, Carried
    <3> QED BY <3>1, <3>2
  <2> QED BY <1>5, <2>1, LedOn
<1>11. Filled(obj', areas', filling')
  <2>1. CASE filling' = NoFill
    BY <2>1 DEF Filled
  <2>2. CASE i + 1 # a.end - a.start /\ filling' = [filling EXCEPT !.next = i + 1]
    <3>1. i + 1 < a.end - a.start
      BY <1>3, <1>4, <2>2
    <3>2. filling'.s = x /\ filling'.area = a /\ filling'.next = i + 1
      BY <1>2, <2>2
    <3> HIDE DEF a, i, x
    <3> QED BY <1>4, <1>7, <3>1, <3>2 DEF Filled
  <2> QED BY <1>1, <2>1, <2>2
<1> QED BY <1>1, <1>2, <1>8, <1>10, <1>11 DEF AreaInv

(* as_unmap: the pages of the areas that go lose their translations.        *)
LEMMA UnmapOn ==
  ASSUME VmmAssumption, AreaInv, VmmInv', NEW s \in Spaces, NEW va \in Pages, NEW n \in 1..MaxLen, Unmap(s, va, n)
  PROVE  AreaInv'
<1> DEFINE l == areas[s]
           hit  == {i \in DOMAIN l : Overlaps(l[i], va, n)}
           cut  == {i \in hit : l[i].start < va \/ l[i].end > va + n}
           gone == {i \in hit : \A j \in cut : i < j}
           m == Unlinked(l, gone)
           left == [p \in Pages |-> IF \E i \in gone : Covers(l[i], p) THEN NoMap ELSE pt[s][p]]
<1>1. /\ areas' = [areas EXCEPT ![s] = m] /\ obj' = Put(obj, Named(l, gone)) /\ filling' = filling
      /\ pt' = [pt EXCEPT ![s] = left] /\ (filling = NoFill \/ filling.s # s)
  BY DEF Unmap
<1>2. gone \in SUBSET DOMAIN l
  OBVIOUS
<1> HIDE DEF gone
<1>3. /\ Consistent(obj, areas) /\ obj \in [Objs -> LiveObjects \cup {NoObj}] /\ areas \in [Spaces -> Seq(Areas)]
      /\ (\A y \in Spaces : InOrder(areas[y]) /\ areas[y] \in Seq(Areas)) /\ pt \in [Spaces -> [Pages -> Translations]]
  BY AreaParts
<1>4. InOrder(m) /\ \A i \in DOMAIN l \ gone : \E j \in DOMAIN m : m[j] = l[i]
  <2>1. l \in Seq(Areas) /\ InOrder(l)
    BY <1>3
  <2> HIDE DEF l
  <2> QED BY <1>2, <2>1, UnlinkInOrder
<1> HIDE DEF m
<1>5. areas'[s] = m /\ \A y \in Spaces : y # s => areas'[y] = areas[y]
  BY <1>1, <1>3
<1>6. ObjectsStay(obj, obj')
  BY <1>1, <1>3, PutStays
<1>7. \A y \in Spaces : InOrder(areas'[y])
  BY <1>3, <1>4, <1>5
<1>8. \A y \in Spaces : y # s => Followed(y)
  BY <1>5, FollowsItself DEF Followed
<1>9. /\ pt' \in [Spaces -> [Pages -> Translations]] /\ pt'[s] = left /\ \A y \in Spaces : y # s => pt'[y] = pt[y]
  <2>1. NoMap \in Translations
    BY DEF NoMap, Translations, Protections
  <2>2. left \in [Pages -> Translations]
    BY <1>3, <2>1
  <2> HIDE DEF left
  <2> QED BY <1>1, <1>3, <2>2
<1>10. Led(obj', areas', pt')
  <2>1. ASSUME NEW y \in Spaces, NEW p \in Pages, pt'[y][p] # NoMap PROVE Carried(y, p)
    <3>1. CASE y = s
      <4>1. pt'[s][p] = pt[s][p] /\ ~ \E i \in gone : Covers(l[i], p)
        BY <1>9, <2>1, <3>1
      <4>2. ASSUME NEW i \in DOMAIN l, Covers(l[i], p) PROVE \E j \in DOMAIN areas'[s] : Follows(obj', l[i], areas'[s][j])
        BY <1>4, <1>5, <4>1, <4>2, FollowsItself
      <4> QED BY <2>1, <3>1, <4>1, <4>2 DEF Carried
    <3>2. CASE y # s
      <4>1. pt'[y][p] = pt[y][p]
        BY <1>9, <3>2
      <4> QED BY <1>8, <2>1, <3>2, <4>1 DEF Followed, Carried
    <3> QED BY <3>1, <3>2
  <2> QED BY <1>6, <2>1, LedOn
<1>11. Filled(obj', areas', filling')
  <2>1. filling # NoFill => Followed(filling.s)
    <3> SUFFICES ASSUME filling # NoFill PROVE Followed(filling.s)
      OBVIOUS
    <3>1. filling.s \in Spaces /\ filling.s # s
      BY <1>1, AreaParts
    <3> QED BY <1>8, <3>1
  <2> QED BY <1>1, <1>6, <2>1, FilledSame DEF Followed
<1> QED BY <1>7, <1>9, <1>10, <1>11 DEF AreaInv

(* as_destroy: no area and no translation is left.                          *)
LEMMA AsDestroyOn ==
  ASSUME VmmAssumption, AreaInv, VmmInv', NEW s \in Spaces, AsDestroy(s)
  PROVE  AreaInv'
<1> DEFINE k == Named(areas[s], DOMAIN areas[s])
           left == [p \in Pages |-> NoMap]
<1>1. /\ obj' = Put(obj, k) /\ areas' = [areas EXCEPT ![s] = <<>>] /\ filling' = filling
      /\ pt' = [pt EXCEPT ![s] = left] /\ (filling = NoFill \/ filling.s # s)
  BY DEF AsDestroy
<1> HIDE DEF k
<1>2. /\ Consistent(obj, areas) /\ obj \in [Objs -> LiveObjects \cup {NoObj}] /\ areas \in [Spaces -> Seq(Areas)]
      /\ (\A y \in Spaces : InOrder(areas[y])) /\ pt \in [Spaces -> [Pages -> Translations]]
  BY AreaParts
<1>3. areas'[s] = <<>> /\ \A y \in Spaces : y # s => areas'[y] = areas[y]
  BY <1>1, <1>2
<1>4. ObjectsStay(obj, obj')
  BY <1>1, <1>2, PutStays
<1>5. \A y \in Spaces : InOrder(areas'[y])
  <2>1. InOrder(<<>>)
    BY DEF InOrder
  <2> QED BY <1>2, <1>3, <2>1
<1>6. \A y \in Spaces : y # s => Followed(y)
  BY <1>3, FollowsItself DEF Followed
<1>7. /\ pt' \in [Spaces -> [Pages -> Translations]] /\ pt'[s] = left /\ \A y \in Spaces : y # s => pt'[y] = pt[y]
  <2>1. NoMap \in Translations
    BY DEF NoMap, Translations, Protections
  <2>2. left \in [Pages -> Translations]
    BY <2>1
  <2> HIDE DEF left
  <2> QED BY <1>1, <1>2, <2>2
<1>8. Led(obj', areas', pt')
  <2>1. ASSUME NEW y \in Spaces, NEW p \in Pages, pt'[y][p] # NoMap PROVE Carried(y, p)
    <3>1. y # s
      BY <1>7, <2>1
    <3>2. pt'[y][p] = pt[y][p]
      BY <1>7, <3>1
    <3> QED BY <1>6, <2>1, <3>1, <3>2 DEF Followed, Carried
  <2> QED BY <1>4, <2>1, LedOn
<1>9. Filled(obj', areas', filling')
  <2>1. filling # NoFill => Followed(filling.s)
    <3> SUFFICES ASSUME filling # NoFill PROVE Followed(filling.s)
      OBVIOUS
    <3>1. filling.s \in Spaces /\ filling.s # s
      BY <1>1, AreaParts
    <3> QED BY <1>6, <3>1
  <2> QED BY <1>1, <1>4, <2>1, FilledSame DEF Followed
<1> QED BY <1>5, <1>7, <1>8, <1>9 DEF AreaInv

(* as_protect: areas and translations change what they allow.               *)
LEMMA ProtectOn ==
  ASSUME VmmAssumption, AreaInv, VmmInv', NEW s \in Spaces, NEW va \in Pages, NEW n \in 1..MaxLen, NEW prot \in Prots,
         Protect(s, va, n, prot)
  PROVE  AreaInv'
<1> DEFINE i == Find(s, va)
           l == [areas[s] EXCEPT ![i].prot = prot]
           left == [p \in Pages |-> IF p \in va..(va + n - 1) /\ pt[s][p] # NoMap
                                    THEN [pt[s][p] EXCEPT !.prot = prot] ELSE pt[s][p]]
<1>1. /\ areas' = areas \/ areas' = [areas EXCEPT ![s] = l]
      /\ obj' = obj /\ filling' = filling /\ pt' = [pt EXCEPT ![s] = left]
  BY DEF Protect
<1> HIDE DEF i
<1>2. /\ Consistent(obj, areas) /\ areas \in [Spaces -> Seq(Areas)]
      /\ (\A y \in Spaces : InOrder(areas[y]) /\ areas[y] \in Seq(Areas)) /\ pt \in [Spaces -> [Pages -> Translations]]
  BY AreaParts
<1>3. /\ DOMAIN l = DOMAIN areas[s]
      /\ \A j \in DOMAIN areas[s] : /\ l[j].start = areas[s][j].start /\ l[j].end = areas[s][j].end
                                    /\ l[j].obj = areas[s][j].obj /\ l[j].off = areas[s][j].off
  <2>1. DOMAIN l = DOMAIN areas[s] /\ \A j \in DOMAIN areas[s] :
          l[j] = IF j = i THEN [areas[s][j] EXCEPT !.prot = prot] ELSE areas[s][j]
    BY <1>2
  <2>2. \A j \in DOMAIN areas[s] : areas[s][j] \in Areas
    BY <1>2
  <2> HIDE DEF l
  <2> QED BY <2>1, <2>2 DEF Areas
<1> HIDE DEF l
<1>4. (areas'[s] = areas[s] \/ areas'[s] = l) /\ \A y \in Spaces : y # s => areas'[y] = areas[y]
  BY <1>1, <1>2
<1>5. ObjectsStay(obj, obj')
  BY <1>1, StaysItself
<1>6. \A y \in Spaces : InOrder(areas'[y])
  <2>1. InOrder(areas[s])
    BY <1>2
  <2>2. InOrder(l)
    BY <1>3, <2>1, SameShape
  <2> QED BY <1>2, <1>4, <2>2
<1>7. ASSUME NEW y \in Spaces PROVE Followed(y)
  <2>1. CASE y = s /\ areas'[s] = l
    <3>1. \A j \in DOMAIN areas[s] : Follows(obj', areas[s][j], areas'[s][j])
      BY <1>3, <1>4 DEF Follows
    <3> QED BY <1>3, <1>4, <2>1, <3>1 DEF Followed
  <2>2. CASE areas'[y] = areas[y]
    BY <1>4, <2>2, FollowsItself DEF Followed
  <2> QED BY <1>4, <2>1, <2>2
<1>8. /\ pt' \in [Spaces -> [Pages -> Translations]]
      /\ \A y \in Spaces, p \in Pages : pt'[y][p] # NoMap => pt[y][p] # NoMap /\ pt'[y][p].frame = pt[y][p].frame
  <2>1. prot \in Protections
    BY DEF VmmAssumption
  <2>2. \A t \in Translations : [t EXCEPT !.prot = prot] \in Translations /\ [t EXCEPT !.prot = prot].frame = t.frame
    BY <2>1 DEF Translations
  <2>3. /\ left \in [Pages -> Translations]
        /\ \A p \in Pages : left[p] # NoMap => pt[s][p] # NoMap /\ left[p].frame = pt[s][p].frame
    <3> DEFINE in(p) == p \in va..(va + n - 1)
    <3>1. left = [p \in Pages |-> IF in(p) /\ pt[s][p] # NoMap THEN [pt[s][p] EXCEPT !.prot = prot] ELSE pt[s][p]]
      OBVIOUS
    <3> HIDE DEF in, left
    <3>2. \A p \in Pages : pt[s][p] \in Translations
      BY <1>2
    <3> QED BY <2>2, <3>1, <3>2
  <2> HIDE DEF left
  <2>4. pt'[s] = left /\ \A y \in Spaces : y # s => pt'[y] = pt[y]
    BY <1>1, <1>2
  <2>5. pt' \in [Spaces -> [Pages -> Translations]]
    BY <1>1, <1>2, <2>3
  <2> QED BY <2>3, <2>4, <2>5
<1> QED BY <1>1, <1>5, <1>6, <1>7, <1>8, StepOn

(* as_clone: the child's areas are its parent's, and it maps nothing yet.   *)
LEMMA CloneOn ==
  ASSUME VmmAssumption, AreaInv, VmmInv', NEW s \in Spaces, NEW c \in Spaces, Clone(s, c)
  PROVE  AreaInv'
<1>1. PICK k \in 0..Len(areas[s]) :
        LET copied == SubSeq(areas[s], 1, k)
            private(p) == {i \in 1..k : Covers(copied[i], p) /\ copied[i].flag # "shared"}
        IN /\ areas' = [areas EXCEPT ![c] = [i \in 1..k |-> IF copied[i].flag = "shared" THEN copied[i]
                                                            ELSE ReadOnly(copied[i])]]
           /\ obj' = Get(obj, Named(copied, 1..k))
           /\ pt' = [pt EXCEPT ![s] = [p \in Pages |->
                       IF private(p) # {} /\ pt[s][p] # NoMap
                       THEN [pt[s][p] EXCEPT !.prot = ReadOnly(copied[Max(private(p))]).prot] ELSE pt[s][p]]]
  BY Zenon DEF Clone
<1>2. s # c /\ areas[c] = <<>> /\ filling' = filling /\ filling = NoFill
  BY Zenon DEF Clone
<1> DEFINE copied == SubSeq(areas[s], 1, k)
           private(p) == {i \in 1..k : Covers(copied[i], p) /\ copied[i].flag # "shared"}
           l == [i \in 1..k |-> IF copied[i].flag = "shared" THEN copied[i] ELSE ReadOnly(copied[i])]
           rest(p) == ReadOnly(copied[Max(private(p))]).prot
           left == [p \in Pages |-> IF private(p) # {} /\ pt[s][p] # NoMap
                                    THEN [pt[s][p] EXCEPT !.prot = rest(p)] ELSE pt[s][p]]
<1>3. areas' = [areas EXCEPT ![c] = l] /\ obj' = Get(obj, Named(copied, 1..k)) /\ pt' = [pt EXCEPT ![s] = left]
  BY <1>1, Zenon
<1>4. /\ Consistent(obj, areas) /\ obj \in [Objs -> LiveObjects \cup {NoObj}] /\ areas \in [Spaces -> Seq(Areas)]
      /\ (\A y \in Spaces : InOrder(areas[y]) /\ areas[y] \in Seq(Areas)) /\ pt \in [Spaces -> [Pages -> Translations]]
  BY AreaParts
<1>5. \A i \in 1..k : i \in DOMAIN areas[s] /\ copied[i] = areas[s][i] /\ areas[s][i] \in Areas
  <2>1. areas[s] \in Seq(Areas) /\ Len(areas[s]) \in Nat /\ DOMAIN areas[s] = 1..Len(areas[s])
    BY <1>4
  <2> QED BY <2>1
<1>0. \A p \in Pages : private(p) # {} => rest(p) \in Protections
  <2> SUFFICES ASSUME NEW p \in Pages, private(p) # {} PROVE rest(p) \in Protections
    OBVIOUS
  <2>1. private(p) \in SUBSET (1..k) /\ private(p) \in SUBSET (0..((k + 1) - 1)) /\ k + 1 \in Nat
    BY <1>4
  <2> HIDE DEF private
  <2>2. \E i \in private(p) : \A j \in private(p) : j <= i
    <3> DEFINE n == k + 1
    <3>1. n \in Nat /\ private(p) \in SUBSET (0..(n - 1))
      BY <2>1
    <3> HIDE DEF n
    <3> QED BY <3>1, LastPosition
  <2>3. Max(private(p)) \in private(p)
    BY <2>1, <2>2 DEF Max
  <2>4. copied[Max(private(p))] \in Areas
    BY <1>5, <2>1, <2>3
  <2> QED BY <2>4 DEF ReadOnly, Areas, Protections
<1> HIDE DEF copied, private, rest
<1>6. DOMAIN l = 1..k /\ \A i \in 1..k : l[i].start = areas[s][i].start /\ l[i].end = areas[s][i].end
  BY <1>5 DEF ReadOnly, Areas
<1> HIDE DEF l
<1>7. areas'[c] = l /\ \A y \in Spaces : y # c => areas'[y] = areas[y]
  BY <1>3, <1>4
<1>8. ObjectsStay(obj, obj')
  BY <1>3, <1>4, GetStays
<1>9. \A y \in Spaces : InOrder(areas'[y])
  <2>1. InOrder(l)
    BY <1>4, <1>5, <1>6 DEF InOrder
  <2> QED BY <1>4, <1>7, <2>1
<1>10. \A y \in Spaces : Followed(y)
  BY <1>2, <1>7, FollowsItself DEF Followed
<1>11. /\ pt' \in [Spaces -> [Pages -> Translations]]
       /\ \A y \in Spaces, p \in Pages : pt'[y][p] # NoMap => pt[y][p] # NoMap /\ pt'[y][p].frame = pt[y][p].frame
  <2>1. \A t \in Translations, q \in Protections : LET w == [t EXCEPT !.prot = q] IN
          w \in Translations /\ w.frame = t.frame
    BY DEF Translations
  <2>2. /\ left \in [Pages -> Translations]
        /\ \A p \in Pages : left[p] # NoMap => pt[s][p] # NoMap /\ left[p].frame = pt[s][p].frame
    <3>1. \A p \in Pages : pt[s][p] \in Translations
      BY <1>4
    <3> QED BY <1>0, <2>1, <3>1
  <2> HIDE DEF left
  <2>3. pt'[s] = left /\ \A y \in Spaces : y # s => pt'[y] = pt[y]
    BY <1>3, <1>4
  <2>4. pt' \in [Spaces -> [Pages -> Translations]]
    BY <1>3, <1>4, <2>2
  <2> QED BY <2>2, <2>3, <2>4
<1> QED BY <1>2, <1>8, <1>9, <1>10, <1>11, StepOn

(* What stays over two steps.                                              *)
LEMMA StaysOn ==
  ASSUME NEW x, NEW y, NEW z, Stays(x, y), Stays(y, z)
  PROVE  Stays(x, z)
  BY DEF Stays

(* The area at the position i of the list l has its page in an object of    *)
(* its own.                                                                 *)
CopiedTo(l, i, q, prot, m) == m = [l EXCEPT ![i].obj = q, ![i].prot = prot]

(* It lies where it lay, and the other areas are as they were.              *)
LEMMA CopyShape ==
  ASSUME NEW l \in Seq(Areas), NEW i \in DOMAIN l, NEW q, NEW prot, NEW m, CopiedTo(l, i, q, prot, m)
  PROVE  /\ DOMAIN m = DOMAIN l /\ m[i].obj = q /\ m[i].start = l[i].start /\ m[i].end = l[i].end
         /\ \A j \in DOMAIN l : j # i => m[j] = l[j]
<1>1. l[i] \in Areas
  OBVIOUS
<1>2. m = [l EXCEPT ![i] = [[l[i] EXCEPT !.obj = q] EXCEPT !.prot = prot]]
  BY DEF CopiedTo
<1>3. DOMAIN m = DOMAIN l /\ m[i] = [[l[i] EXCEPT !.obj = q] EXCEPT !.prot = prot] /\ \A j \in DOMAIN l : j # i => m[j] = l[j]
  BY <1>2
<1>4. LET b == [[l[i] EXCEPT !.obj = q] EXCEPT !.prot = prot] IN b.obj = q /\ b.start = l[i].start /\ b.end = l[i].end
  BY <1>1 DEF Areas
<1> QED BY <1>3, <1>4

(* vm_handle_fault: the page of the area's object, or its private copy.     *)
LEMMA FaultOn ==
  ASSUME VmmAssumption, FlagsInUse, AreaInv, VmmInv', NEW s \in Spaces, NEW p \in Pages, NEW access, Fault(s, p, access)
  PROVE  AreaInv'
<1> DEFINE l == areas[s]
           S == {j \in DOMAIN l : Covers(l[j], p)}
           i == Min(S)
           a == l[i]
           idx == a.off + (p - a.start)
           ob == Touch(obj, a.obj, idx)
           f == FrameOf(obj, a.obj, idx)
<1>1. /\ Consistent(obj, areas) /\ obj \in [Objs -> LiveObjects \cup {NoObj}] /\ areas \in [Spaces -> Seq(Areas)]
      /\ (\A y \in Spaces : InOrder(areas[y]) /\ areas[y] \in Seq(Areas)) /\ pt \in [Spaces -> [Pages -> Translations]]
  BY AreaParts
<1>2. Grown(s, p) = l
  <2>1. \A j \in DOMAIN l : l[j].flag \in Flags
    <3>1. \A j \in DOMAIN l : l[j] \in Areas
      BY <1>1
    <3> QED BY <3>1 DEF Areas
  <2>2. \A j \in DOMAIN l : l[j].flag # "grows"
    BY <2>1 DEF FlagsInUse
  <2> QED BY <2>2 DEF Grown
<1>3. /\ S # {} /\ filling' = filling
      /\ \/ CopyOnWrite(s, p, l, i)
         \/ areas' = [areas EXCEPT ![s] = l] /\ obj' = obj /\ pt' = pt
         \/ DemandPage(s, p, l, i)
  BY <1>2 DEF Fault
<1>4. i \in DOMAIN l /\ Covers(a, p)
  <2>1. S \in SUBSET Nat /\ \A j \in S : j \in DOMAIN l /\ Covers(l[j], p)
    BY <1>1
  <2> HIDE DEF S
  <2> QED BY <1>3, <2>1, FirstPosition
<1> HIDE DEF i
<1>5. a \in Areas /\ a.obj \in Objs /\ obj[a.obj] # NoObj
  <2> HIDE DEF i
  <2> QED BY <1>1, <1>4, NamedAlive
<1>6. idx \in Nat /\ a.start \in Int /\ p \in Int /\ a.off \in Nat /\ a.prot \in Protections
  <2>1. a.off \in Nat /\ a.start \in Int /\ p \in Int /\ a.start <= p /\ a.prot \in Protections
    BY <1>4, <1>5 DEF Areas, Pages, Covers
  <2> QED BY <2>1
<1>7. [areas EXCEPT ![s] = l] = areas
  BY <1>1
<1> HIDE DEF idx
<1>8. /\ ObjectsStay(obj, ob)
      /\ HasPage(obj, a.obj, idx) => /\ idx + 1 \in DOMAIN ob[a.obj].frames /\ ob[a.obj].frames[idx + 1] = f
                                     /\ f # 0 /\ f \in Frames
  BY <1>1, <1>5, <1>6, TouchStays
<1> HIDE DEF ob, f
<1>9. areas' = areas => \A y \in Spaces : InOrder(areas'[y]) /\ Followed(y)
  BY <1>1, FollowsItself DEF Followed
<1>10. CASE areas' = areas /\ pt' = pt /\ (obj' = obj \/ obj' = ob)
  <2>1. ObjectsStay(obj, obj')
    BY <1>8, <1>10, StaysItself
  <2> QED BY <1>1, <1>3, <1>9, <1>10, <2>1, StepOn
<1>11. CASE DemandPage(s, p, l, i)
  <2> DEFINE new == [frame |-> f, prot |-> a.prot]
  <2>1. /\ areas' = areas /\ obj' = ob
        /\ pt' = IF HasPage(obj, a.obj, idx) THEN [pt EXCEPT ![s][p] = new] ELSE pt
    BY <1>7, <1>11 DEF DemandPage, a, idx, ob, f
  <2>2. CASE ~HasPage(obj, a.obj, idx)
    BY <1>10, <2>1, <2>2
  <2>3. CASE HasPage(obj, a.obj, idx)
    <3>1. new \in Translations /\ new.frame = f
      BY <1>6, <1>8, <2>3 DEF Translations
    <3> HIDE DEF new
    <3>2. /\ pt' \in [Spaces -> [Pages -> Translations]] /\ pt'[s][p] = new
          /\ \A y \in Spaces, q \in Pages : ~(y = s /\ q = p) => pt'[y][q] = pt[y][q]
      BY <1>1, <2>1, <2>3, <3>1
    <3>3. Backed(ob, a, p, f)
      <4>1. a.off + (p - a.start) + 1 = idx + 1
        BY DEF idx
      <4> HIDE DEF a
      <4> QED BY <1>4, <1>8, <2>3, <4>1 DEF Backed
    <3>4. Entered(s, p)
      BY <1>4, <1>8, <2>1, <2>3, <3>1, <3>2, <3>3 DEF Entered
    <3>5. \A y \in Spaces, q \in Pages : pt'[y][q] # NoMap =>
            (pt[y][q] # NoMap /\ pt'[y][q].frame = pt[y][q].frame) \/ Entered(y, q)
      BY <3>2, <3>4
    <3> QED BY <1>3, <1>8, <1>9, <2>1, <3>2, <3>5, StepOn
  <2> QED BY <2>2, <2>3
<1>12. CASE CopyOnWrite(s, p, l, i)
  <2> DEFINE q == Min(NewObj(obj))
             n == ob[a.obj].n
             fresh == Min(FreeFrames(ob))
             prot == a.prot \cup {"write"}
             x == [kind |-> "cow", n |-> n, ref |-> 1, frames |-> [k \in 1..n |-> IF k = idx + 1 THEN fresh ELSE 0]]
             e == [ob EXCEPT ![q] = x]
             m == [l EXCEPT ![i].obj = q, ![i].prot = prot]
             new == [frame |-> fresh, prot |-> prot]
  <2>1. \/ areas' = areas /\ pt' = pt /\ (obj' = obj \/ obj' = ob)
        \/ /\ FreeFrames(ob) # {} /\ NewObj(obj) # {}
           /\ obj' = Put(e, Named(l, {i})) /\ areas' = [areas EXCEPT ![s] = m] /\ pt' = [pt EXCEPT ![s][p] = new]
    BY <1>7, <1>12 DEF CopyOnWrite, a, idx, ob
  <2>2. CASE /\ FreeFrames(ob) # {} /\ NewObj(obj) # {}
             /\ obj' = Put(e, Named(l, {i})) /\ areas' = [areas EXCEPT ![s] = m] /\ pt' = [pt EXCEPT ![s][p] = new]
    <3>1. q \in Objs /\ obj[q] = NoObj /\ a.obj # q
      <4>1. q \in Objs /\ obj[q] = NoObj
        BY <1>1, <2>2, FreshObject
      <4> HIDE DEF q
      <4> QED BY <1>5, <4>1
    <3> HIDE DEF q
    <3>2. /\ ob \in [Objs -> LiveObjects \cup {NoObj}] /\ FramesApart(ob)
          /\ \A y \in Objs : ob[y] = NoObj <=> obj[y] = NoObj
      <4>1. FramesApart(obj)
        BY <1>1 DEF Consistent
      <4> QED BY <1>1, <1>5, <1>6, <4>1, TouchKeeps DEF ob
    <3>3. fresh \in Frames /\ fresh # 0
      BY <2>2, <3>2, FreshFrame
    <3>4. e \in [Objs -> LiveObjects \cup {NoObj}] /\ e[q].ref = 1 /\ (\A o \in Objs : o # q => e[o] = ob[o])
      <4>1. n \in Nat /\ idx \in Int /\ ob[q] = NoObj
        BY <1>5, <1>6, <3>1, <3>2, ObjectParts
      <4> HIDE DEF n
      <4>2. Copied(ob, q, n, idx, e)
        BY DEF Copied
      <4> HIDE DEF e, x, fresh
      <4> QED BY <2>2, <3>1, <3>2, <4>1, <4>2, CopyMade
    <3>5. e[q].kind = "cow"
      <4>1. x.kind = "cow"
        OBVIOUS
      <4> HIDE DEF x
      <4>2. e[q] = x
        BY <3>1, <3>2
      <4> QED BY <4>1, <4>2
    <3> HIDE DEF e, x, fresh, n
    <3>6. Named(l, {i})[q] = 0
      <4>1. {j \in {i} : l[j].obj = q} = {}
        BY <3>1
      <4>2. Cardinality({}) = 0
        BY FS_EmptySet
      <4> QED BY <3>1, <4>1, <4>2 DEF Named
    <3>7. ObjectsStay(e, obj') /\ obj'[q].kind = "cow"
      <4> DEFINE k == Named(l, {i})
      <4>1. ObjectsStay(e, obj') /\ \A o \in Objs : e[o].ref # k[o] => obj'[o].kind = e[o].kind
        <5> HIDE DEF k
        <5>1. obj' = Put(e, k)
          BY <2>2 DEF k
        <5> QED BY <3>4, <5>1, PutStays
      <4>2. k[q] = 0
        BY <3>6
      <4> HIDE DEF k
      <4> QED BY <3>1, <3>4, <3>5, <4>1, <4>2
    <3>8. ObjectsStay(obj, obj')
      <4> SUFFICES ASSUME NEW o \in Objs, obj[o] # NoObj, obj'[o] # NoObj PROVE Stays(obj[o], obj'[o])
        BY DEF ObjectsStay
      <4>1. o # q /\ ob[o] # NoObj /\ e[o] = ob[o]
        BY <3>1, <3>2, <3>4
      <4>2. Stays(obj[o], ob[o]) /\ Stays(ob[o], obj'[o])
        BY <1>8, <3>7, <4>1 DEF ObjectsStay
      <4> QED BY <4>2, StaysOn
    <3>9. /\ DOMAIN m = DOMAIN l /\ m[i].obj = q /\ m[i].start = a.start /\ m[i].end = a.end
          /\ \A j \in DOMAIN l : j # i => m[j] = l[j]
      <4>1. CopiedTo(l, i, q, prot, m)
        BY DEF CopiedTo
      <4> HIDE DEF m, prot
      <4> QED BY <1>1, <1>4, <4>1, CopyShape
    <3> HIDE DEF m
    <3>10. areas'[s] = m /\ \A y \in Spaces : y # s => areas'[y] = areas[y]
      BY <1>1, <2>2
    <3>11. \A j \in DOMAIN l : m[j].start = l[j].start /\ m[j].end = l[j].end /\ Follows(obj', l[j], m[j])
      <4>1. Follows(obj', l[i], m[i])
        BY <3>7, <3>9 DEF Follows
      <4> QED BY <3>9, <4>1, FollowsItself
    <3>12. ASSUME NEW y \in Spaces PROVE InOrder(areas'[y]) /\ Followed(y)
      <4>1. CASE y = s
        <5>1. InOrder(l)
          BY <1>1
        <5>2. InOrder(m)
          BY <3>9, <3>11, <5>1, SameShape
        <5>3. Followed(s)
          BY <3>9, <3>10, <3>11 DEF Followed
        <5> QED BY <3>10, <4>1, <5>2, <5>3
      <4>2. CASE y # s
        BY <1>1, <3>10, <4>2, FollowsItself DEF Followed
      <4> QED BY <4>1, <4>2
    <3>13. new \in Translations /\ new.frame = fresh
      <4>1. prot \in Protections
        BY <1>6 DEF Protections
      <4> HIDE DEF prot
      <4> QED BY <3>3, <4>1 DEF Translations
    <3> HIDE DEF new
    <3>14. /\ pt' \in [Spaces -> [Pages -> Translations]] /\ pt'[s][p] = new
           /\ \A y \in Spaces, z \in Pages : ~(y = s /\ z = p) => pt'[y][z] = pt[y][z]
      BY <1>1, <2>2, <3>13
    <3>15. Entered(s, p)
      <4>1. Covers(m[i], p)
        BY <1>4, <3>9 DEF Covers
      <4>2. Backed(obj', m[i], p, fresh)
        BY <3>7, <3>9, <4>1 DEF Backed
      <4> QED BY <1>4, <3>3, <3>9, <3>10, <3>13, <3>14, <4>2 DEF Entered
    <3>16. \A y \in Spaces, z \in Pages : pt'[y][z] # NoMap =>
             (pt[y][z] # NoMap /\ pt'[y][z].frame = pt[y][z].frame) \/ Entered(y, z)
      BY <3>14, <3>15
    <3> QED BY <1>3, <3>8, <3>12, <3>14, <3>16, StepOn
  <2> HIDE DEF e, m, new, x
  <2> QED BY <1>10, <2>1, <2>2
<1> QED BY <1>3, <1>7, <1>10, <1>11, <1>12

(* Nothing is mapped at first.                                             *)
LEMMA AreaStart == VmmAssumption /\ VmmInit => AreaInv
<1> SUFFICES ASSUME VmmAssumption, VmmInit PROVE AreaInv
  OBVIOUS
<1>1. VmmInv
  BY VmmStart
<1>2. \A s \in Spaces : InOrder(areas[s])
  BY DEF VmmInit, InOrder
<1>3. /\ pt \in [Spaces -> [Pages -> Translations]] /\ \A s \in Spaces, p \in Pages : pt[s][p] = NoMap
  <2>1. NoMap \in Translations
    BY DEF NoMap, Translations, Protections
  <2> QED BY <2>1 DEF VmmInit
<1> QED BY <1>1, <1>2, <1>3 DEF AreaInv, Led, Filled, VmmInit

(* Every step keeps it.                                                    *)
LEMMA AreaSteps == VmmAssumption /\ FlagsInUse /\ AreaInv /\ [VmmNext]_vmmVars => AreaInv'
<1> SUFFICES ASSUME VmmAssumption, FlagsInUse, AreaInv, [VmmNext]_vmmVars PROVE AreaInv'
  OBVIOUS
<1>1. VmmInv'
  <2>1. VmmInv
    BY DEF AreaInv
  <2> QED BY <2>1, VmmSteps
<1>2. CASE Populate
  BY <1>1, <1>2, PopulateOn
<1>3. CASE \E s \in Spaces, n \in 1..MaxLen, prot \in MapProts, flag \in Flags, hint \in Hints : MapObject(s, hint, n, prot, flag)
  BY <1>1, <1>3, MapOn
<1>4. CASE \E s \in Spaces, va \in Pages, n \in 1..MaxLen : Unmap(s, va, n)
  BY <1>1, <1>4, UnmapOn
<1>5. CASE \E s \in Spaces, va \in Pages, n \in 1..MaxLen, prot \in Prots : Protect(s, va, n, prot)
  BY <1>1, <1>5, ProtectOn
<1>6. CASE \E s, c \in Spaces : Clone(s, c)
  BY <1>1, <1>6, CloneOn
<1>7. CASE \E s \in Spaces : AsDestroy(s)
  BY <1>1, <1>7, AsDestroyOn
<1>8. CASE \E s \in Spaces, p \in Pages, access \in {"read", "write", "exec"} : Fault(s, p, access)
  BY <1>1, <1>8, FaultOn
<1>9. CASE UNCHANGED vmmVars
  BY <1>1, <1>9 DEF vmmVars, AreaInv, Led, Filled
<1>10. CASE VmmNext
  <2>1. \A s \in Spaces, p \in Pages : \A access : Access(s, p, access) => Fault(s, p, access)
    BY DEF Access
  <2> QED BY <1>2, <1>3, <1>4, <1>5, <1>6, <1>7, <1>8, <1>10, <2>1 DEF VmmNext
<1> QED BY <1>9, <1>10

(* It says what the run checks of the spaces.                               *)
LEMMA AreasHold == VmmAssumption /\ AreaInv => SpacesSound
<1> SUFFICES ASSUME VmmAssumption, AreaInv PROVE SpacesSound
  OBVIOUS
<1>1. ObjectsBalanced
  BY ObjectsHold DEF AreaInv
<1>2. AreasApart
  <2> SUFFICES ASSUME NEW s \in Spaces, NEW i \in 1..(Len(areas[s]) - 1) PROVE areas[s][i].end <= areas[s][i + 1].start
    BY DEF AreasApart
  <2>1. areas[s] \in Seq(Areas) /\ InOrder(areas[s])
    BY AreaParts
  <2>2. i \in DOMAIN areas[s] /\ i + 1 \in DOMAIN areas[s] /\ i < i + 1
    BY <2>1
  <2> QED BY <2>1, <2>2 DEF InOrder
<1>3. TranslationsOwned
  BY DEF AreaInv, Led, TranslationsOwned
<1> QED BY <1>1, <1>2, <1>3 DEF SpacesSound

(* With the flags the kernel passes to as_map_object, in every address      *)
(* space the areas stay in order and apart, the objects balanced, and a     *)
(* translation leads to the frame that the object of its area holds for the *)
(* page, unless a write has given the area a private object.                *)
THEOREM SpacesKept == VmmAssumption /\ FlagsInUse /\ VmmSpec => []SpacesSound
<1> SUFFICES ASSUME VmmAssumption, FlagsInUse PROVE VmmSpec => []SpacesSound
  OBVIOUS
<1>1. VmmInit => AreaInv
  BY AreaStart
<1>2. AreaInv /\ [VmmNext]_vmmVars => AreaInv'
  BY AreaSteps
<1>3. AreaInv => SpacesSound
  BY AreasHold
<1> QED BY <1>1, <1>2, <1>3, PTL DEF VmmSpec

=============================================================================
