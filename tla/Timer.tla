-------------------------------- MODULE Timer --------------------------------
(***************************************************************************)
(* Kernel timers and the replay clock (kernel/core/time.c).  Timers are on *)
(* a list sorted by deadline; the tick of any core takes expired ones off  *)
(* it, puts periodic ones back and calls back after it dropped the lock.   *)
(* In replay the clock is the recorded one and only moves when a recorded  *)
(* event advances it.                                                      *)
(***************************************************************************)
EXTENDS Integers, Sequences, SequencesExt, FiniteSets, FiniteSetsExt

CONSTANTS Timers, Cpus, Delays, Periods,
          Sec,          \* clock units in a second
          Bases,        \* the recorded times a replay may begin at
          MaxTime,      \* bound on the clocks
          MaxArms       \* bound on the starts of a timer

VARIABLES timers,    \* the list
          timer,     \* timer[t] : active, expires, period
          tick,      \* tick[c] : the step of rk_timer_tick, its now, its timer
          clock,     \* arch_time_ns and, in replay, replay_mono and replay_unix
          arms       \* arms[t] : starts of t

timerVars == <<timers, timer, tick, clock, arms>>

TimerAssumption == /\ Delays \subseteq Int /\ Periods \subseteq Int /\ Bases \subseteq Int
                   /\ Sec \in Nat \ {0} /\ MaxTime \in Nat

Init == /\ timers = <<>>
        /\ timer = [t \in Timers |-> [active |-> FALSE, expires |-> 0, period |-> 0]]
        /\ tick = [c \in Cpus |-> [pc |-> "out", now |-> 0, t |-> 0, due |-> 0]]
        /\ clock = [arch |-> 0, replaying |-> FALSE, mono |-> 0, unix |-> 0, base |-> 0]
        /\ arms = [t \in Timers |-> 0]

(* rk_time_ns, and rk_unix_time with a wall clock set at zero.             *)
TimeNs   == IF clock.replaying THEN clock.mono ELSE clock.arch
UnixTime == IF clock.replaying THEN clock.unix ELSE clock.arch \div Sec
-----------------------------------------------------------------------------
(* Mutant: a started timer goes before those with the same deadline.       *)
InsertAtHead(l, tm, t) == <<t>> \o l

(* timer_insert: before the first timer with a later deadline.             *)
TimerInsert(l, tm, t) ==
  LET later == {i \in DOMAIN l : tm[t].expires < tm[l[i]].expires}
  IN IF later = {} THEN Append(l, t) ELSE InsertAt(l, Min(later), t)

(* list_del of a timer that is on the list.                                *)
Unlink(t) == RemoveFirst(timers, t)

(* rk_timer_start and rk_timer_start_periodic, from anywhere, a callback   *)
(* included.                                                               *)
Start(t, delay, period) ==
  LET tm == [timer EXCEPT ![t] = [active |-> TRUE, expires |-> TimeNs + delay, period |-> period]] IN
  /\ arms[t] < MaxArms
  /\ timer' = tm
  /\ timers' = TimerInsert(IF timer[t].active THEN Unlink(t) ELSE timers, tm, t)
  /\ arms' = [arms EXCEPT ![t] = @ + 1]
  /\ UNCHANGED <<tick, clock>>

CancelTimer(t) ==
  /\ timer[t].active
  /\ timers' = Unlink(t)
  /\ timer' = [timer EXCEPT ![t].active = FALSE]
  /\ UNCHANGED <<tick, clock, arms>>

(* rk_timer_tick: the time is read once, ...                               *)
TickEnter(c) == /\ tick[c].pc = "out"
                /\ tick' = [tick EXCEPT ![c] = [pc |-> "loop", now |-> TimeNs, t |-> 0, due |-> 0]]
                /\ UNCHANGED <<timers, timer, clock, arms>>

(* ... then each expired timer is unlinked, a periodic one relinked, ...   *)
TickLoop(c) ==
  /\ tick[c].pc = "loop"
  /\ IF timers = <<>> \/ timer[Head(timers)].expires > tick[c].now
     THEN tick' = [tick EXCEPT ![c] = [pc |-> "out", now |-> 0, t |-> 0, due |-> 0]] /\ UNCHANGED <<timers, timer>>
     ELSE LET t  == Head(timers)
              periodic == timer[t].period # 0
              tm == [timer EXCEPT ![t].active = periodic,
                                  ![t].expires = IF periodic THEN tick[c].now + timer[t].period ELSE @]
          IN /\ timer' = tm
             /\ timers' = IF periodic THEN TimerInsert(Tail(timers), tm, t) ELSE Tail(timers)
             /\ tick' = [tick EXCEPT ![c].pc = "call", ![c].t = t, ![c].due = timer[t].expires]
  /\ UNCHANGED <<clock, arms>>

(* ... and called back without the lock.                                   *)
TickCall(c) ==
  /\ tick[c].pc = "call"
  /\ tick' = [tick EXCEPT ![c].pc = "loop", ![c].t = 0, ![c].due = 0]
  /\ UNCHANGED <<timers, timer, clock, arms>>
-----------------------------------------------------------------------------
Pass == /\ clock.arch < MaxTime
        /\ clock' = [clock EXCEPT !.arch = @ + 1]
        /\ UNCHANGED <<timers, timer, tick, arms>>

EnterReplay(mono) == /\ ~clock.replaying
                     /\ clock' = [clock EXCEPT !.replaying = TRUE, !.mono = mono, !.unix = UnixTime, !.base = mono]
                     /\ UNCHANGED <<timers, timer, tick, arms>>

(* rk_time_replay_advance: forward only; then a tick on this core.         *)
ReplayAdvance(c, mono) ==
  /\ clock.replaying /\ tick[c].pc = "out" /\ mono > clock.mono
  /\ clock' = [clock EXCEPT !.mono = mono, !.unix = @ + (mono - clock.mono) \div Sec]
  /\ tick' = [tick EXCEPT ![c] = [pc |-> "loop", now |-> mono, t |-> 0, due |-> 0]]
  /\ UNCHANGED <<timers, timer, arms>>

LeaveReplay == /\ clock.replaying
               /\ clock' = [clock EXCEPT !.replaying = FALSE, !.base = 0]
               /\ UNCHANGED <<timers, timer, tick, arms>>

Next == \/ \E t \in Timers : \/ \E d \in Delays : Start(t, d, 0)
                             \/ \E p \in Periods : Start(t, p, p)
                             \/ CancelTimer(t)
        \/ \E c \in Cpus : \/ TickEnter(c) \/ TickLoop(c) \/ TickCall(c)
                           \/ \E m \in 0..MaxTime : ReplayAdvance(c, m)
        \/ Pass \/ LeaveReplay \/ \E m \in Bases : EnterReplay(m)
-----------------------------------------------------------------------------
(* However many cores tick, start and cancel at once: the list holds each  *)
(* active timer once, in the order of deadlines, so that a tick that stops *)
(* at the first later one leaves no expired one behind; and no callback    *)
(* comes before the deadline it was due at.                                *)
TimersSound ==
  /\ Range(timers) = {t \in Timers : timer[t].active} /\ IsInjective(timers)
  /\ \A i \in 1..(Len(timers) - 1) : timer[timers[i]].expires <= timer[timers[i + 1]].expires
  /\ \A c \in Cpus : tick[c].pc = "call" => tick[c].due <= tick[c].now

(* The comment at the head of time.c: during replay the kernel hands out   *)
(* the timestamps that were recorded.  Recorded seconds that have passed   *)
(* have passed on the wall clock.                                          *)
ReplayWallClock == clock.replaying => clock.mono - clock.base < Sec \/ clock.unix > 0
=============================================================================
