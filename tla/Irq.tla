--------------------------------- MODULE Irq ---------------------------------
(***************************************************************************)
(* Interrupt dispatch (kernel/core/irq.c) for one shared line: drivers     *)
(* request and free handlers under the line's lock while cores walk the    *)
(* list without it, finding an action and calling its handler in steps of  *)
(* their own.  An action freed while a walk stands on it is memory that    *)
(* may hold anything by the time the walk reads it.  A line nobody claims  *)
(* is masked after a number of dispatches, and threaded handlers and the   *)
(* scheduler's tick run after the end of the interrupt.                    *)
(***************************************************************************)
EXTENDS Integers, Sequences, SequencesExt, FiniteSets

CONSTANTS Cpus, Devs,
          Claims,         \* Claims[d] : what d's handler may return
          TimerLine,      \* whether this is the line that drives the scheduler
          Storm,          \* unclaimed dispatches before the mask: 1000
          MaxCount        \* bound on dispatches

VARIABLES actions,    \* the list of actions, by device
          line,       \* masked, count and spurious
          disp,       \* disp[c] : where a dispatch stands and what it found
          depth,      \* in_irq_depth[c]
          ticked,     \* sched_tick calls made with the depth at zero, or not
          emptied     \* the drivers that emptied the list and have yet to mask the line

irqVars == <<actions, line, disp, depth, ticked, emptied>>

(* A dispatch: where it is, the position of the action it stands on (0 is  *)
(* the head), whether that was freed, what the handlers returned, and      *)
(* those owed a call (a history).                                          *)
Out == [pc |-> "out", at |-> 0, lost |-> FALSE, handled |-> FALSE, thread |-> FALSE, due |-> {}]
Walking(x) == x.pc \in {"walk", "call"}

Init == /\ actions = <<>>
        /\ line = [masked |-> TRUE, count |-> 0, spurious |-> 0]
        /\ disp = [c \in Cpus |-> Out]
        /\ depth = [c \in Cpus |-> 0]
        /\ ticked = {}
        /\ emptied = {}
-----------------------------------------------------------------------------
(* rk_irq_request adds at the tail; a driver then unmasks the line.        *)
Request(d) == /\ ~Contains(actions, d)
              /\ actions' = Append(actions, d)
              /\ UNCHANGED <<line, disp, depth, ticked, emptied>>
Unmask == /\ line.masked /\ line' = [line EXCEPT !.masked = FALSE]
          /\ UNCHANGED <<actions, disp, depth, ticked, emptied>>

(* rk_irq_free, wherever the cores are.  The line of the last driver is    *)
(* masked after the lock was released.                                     *)
At(d) == {i \in DOMAIN actions : actions[i] = d}
Unlinked(x, d) == [x EXCEPT !.due = @ \ {d}, !.lost = @ \/ x.at \in At(d),
                            !.at = IF \E i \in At(d) : i < x.at THEN x.at - 1 ELSE x.at]
Free(d) == /\ d \notin emptied
           /\ actions' = RemoveFirst(actions, d)
           /\ emptied' = IF actions' = <<>> THEN emptied \cup {d} ELSE emptied
           /\ disp' = [c \in Cpus |-> Unlinked(disp[c], d)]
           /\ UNCHANGED <<line, depth, ticked>>
MaskFreed(d) == /\ d \in emptied
                /\ line' = [line EXCEPT !.masked = TRUE]
                /\ emptied' = emptied \ {d}
                /\ UNCHANGED <<actions, disp, depth, ticked>>

(* rk_irq_dispatch: the depth counts before the walk ...                   *)
Enter(c) == /\ disp[c].pc = "out" /\ ~line.masked /\ line.count < MaxCount
            /\ depth' = [depth EXCEPT ![c] = @ + 1]
            /\ disp' = [disp EXCEPT ![c] = [Out EXCEPT !.pc = "walk", !.due = Range(actions)]]
            /\ line' = [line EXCEPT !.count = @ + 1]
            /\ UNCHANGED <<actions, ticked, emptied>>

(* ... to the next action, additions at the tail included, from a freed    *)
(* one to any or to none; ...                                              *)
Following(c) == {i \in DOMAIN actions : i = disp[c].at + 1 \/ disp[c].lost}
AtEnd(c) == disp[c].at = Len(actions) \/ disp[c].lost
Walk(c) == /\ disp[c].pc = "walk"
           /\ \E i \in Following(c) : disp' = [disp EXCEPT ![c].pc = "call", ![c].at = i]
           /\ UNCHANGED <<actions, line, depth, ticked, emptied>>

(* ... whose handler it calls, a freed one's included; ...                 *)
Called(x) == IF x.lost THEN {} ELSE {actions[x.at]}
Call(c) == /\ disp[c].pc = "call"
           /\ \E r \in IF disp[c].lost THEN {"none", "handled", "thread"} ELSE Claims[actions[disp[c].at]] :
                disp' = [disp EXCEPT ![c].pc = "walk", ![c].due = @ \ Called(disp[c]),
                                     ![c].handled = @ \/ r # "none", ![c].thread = @ \/ r = "thread"]
           /\ UNCHANGED <<actions, line, depth, ticked, emptied>>

(* ... an unclaimed interrupt counts towards the mask; end of interrupt.   *)
Leave(c) == /\ disp[c].pc = "walk" /\ AtEnd(c)
            /\ line' = IF disp[c].handled THEN line
                       ELSE [line EXCEPT !.spurious = @ + 1, !.masked = @ \/ line.spurious + 1 = Storm]
            /\ depth' = [depth EXCEPT ![c] = @ - 1]
            /\ disp' = [disp EXCEPT ![c].pc = "tick"]
            /\ UNCHANGED <<actions, ticked, emptied>>

(* The scheduler's tick on the timer line, then the threaded halves of the *)
(* actions as they are now.                                                *)
Tick(c) == /\ disp[c].pc = "tick"
           /\ ticked' = IF TimerLine THEN ticked \cup {depth[c] = 0} ELSE ticked
           /\ disp' = IF disp[c].thread THEN [disp EXCEPT ![c] = [Out EXCEPT !.pc = "threads"]] ELSE [disp EXCEPT ![c] = Out]
           /\ UNCHANGED <<actions, line, depth, emptied>>
Threads(c) == /\ disp[c].pc = "threads"
              /\ \/ \E i \in Following(c) : disp' = [disp EXCEPT ![c].at = i]
                 \/ AtEnd(c) /\ disp' = [disp EXCEPT ![c] = Out]
              /\ UNCHANGED <<actions, line, depth, ticked, emptied>>

Next == \/ \E d \in Devs : Request(d) \/ Free(d) \/ MaskFreed(d)
        \/ Unmask
        \/ \E c \in Cpus : Enter(c) \/ Walk(c) \/ Call(c) \/ Leave(c) \/ Tick(c) \/ Threads(c)
-----------------------------------------------------------------------------
(* A dispatch that has ended its walk has called every handler that was on *)
(* the line when it began and has not been freed since, whatever else was  *)
(* freed or added meanwhile, unless it stood on an action that was; a core *)
(* counts as in an interrupt exactly while it walks; and the tick switches *)
(* threads only outside the interrupt.                                     *)
DispatchSound ==
  /\ \A c \in Cpus : disp[c].pc = "tick" /\ ~disp[c].lost => disp[c].due = {}
  /\ \A c \in Cpus : depth[c] = (IF Walking(disp[c]) THEN 1 ELSE 0)
  /\ FALSE \notin ticked

(* The comment on the walk, "No lock: the action list is only mutated with *)
(* interrupts disabled on this CPU", takes it for granted that no action   *)
(* goes under a walk: on another core's walk it does.                      *)
NeverUnderfoot == \A c \in Cpus : Walking(disp[c]) => ~disp[c].lost
=============================================================================
