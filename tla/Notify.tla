-------------------------------- MODULE Notify --------------------------------
(***************************************************************************)
(* The notification object of kernel/ipc/ipc.c: a word of bits that        *)
(* signallers set and waiters consume.  The loads and stores of the word   *)
(* are atomic each, but a signal is a load and then a store, and so is the *)
(* consuming of bits.                                                      *)
(***************************************************************************)
EXTENDS WaitQueue

CONSTANTS Signallers,  \* the threads that signal; the others wait
          Bits,
          Timed        \* the threads that pass a timeout

NotifyAssumption == Signallers \subseteq Threads /\ Timed \subseteq Threads

VARIABLES bits,
          local,    \* thread -> the value it has loaded
          arg,      \* thread -> the bits it signals, or its mask
          owed,     \* bits signalled and not yet returned to a waiter (history)
          expired

ntfVars == <<bits, local, arg, owed, expired>>
vars    == <<wqVars, ntfVars>>

Queues  == {"wq"}

TypeOK == /\ WqTypeOK(Queues, {"run", "store", "signalled", "poll", "reload", "clear", "more"})
          /\ bits \subseteq Bits /\ owed \subseteq Bits
          /\ local \in [Threads -> SUBSET Bits] /\ arg \in [Threads -> SUBSET Bits]
          /\ expired \subseteq Threads

ObjInit == /\ bits = {} /\ owed = {} /\ expired = {}
           /\ local = [t \in Threads |-> {}] /\ arg = [t \in Threads |-> {}]

Init == WqInit(Queues) /\ ObjInit

Load(t) == local' = [local EXCEPT ![t] = bits]

(* rk_notify_signal: load, store, wake everyone.                           *)
SignalLoad(t, b) ==
  /\ t \in Signallers /\ At(t, "run")
  /\ Load(t) /\ arg' = [arg EXCEPT ![t] = b]
  /\ Step(t, "store") /\ UNCHANGED <<bits, owed, expired>>

(* What a call had in its locals is gone when it returns.                  *)
Forget(t) == /\ local' = [local EXCEPT ![t] = {}]
             /\ arg' = [arg EXCEPT ![t] = {}]
             /\ expired' = expired \ {t}

SignalStore(t) ==
  /\ At(t, "store")
  /\ bits' = local[t] \cup arg[t]
  /\ owed' = owed \cup arg[t]
  /\ Forget(t) /\ WakeAll(t, "wq", "run")

WaitCall(t, mask) ==
  /\ t \notin Signallers /\ At(t, "run")
  /\ arg' = [arg EXCEPT ![t] = mask]
  /\ Step(t, "poll") /\ UNCHANGED <<bits, local, owed, expired>>

(* rk_notify_poll loads the word, and if a bit of the mask is in it loads  *)
(* it again to clear those bits.                                           *)
Poll(t) ==
  /\ At(t, "poll")
  /\ local' = [local EXCEPT ![t] = bits \cap arg[t]]
  /\ Step(t, IF local'[t] = {} THEN "more" ELSE "reload")
  /\ UNCHANGED <<bits, arg, owed, expired>>

(* arg now holds the bits found, local what is to be stored.               *)
Reload(t) ==
  /\ At(t, "reload")
  /\ arg' = [arg EXCEPT ![t] = local[t]]
  /\ local' = [local EXCEPT ![t] = bits \ local[t]]
  /\ Step(t, "clear") /\ UNCHANGED <<bits, owed, expired>>

Clear(t) ==
  /\ At(t, "clear")
  /\ bits' = local[t]
  /\ owed' = owed \ arg[t]
  /\ Forget(t) /\ Step(t, "run")

\* mutant: the wait has no time limit
More_Untimed(t) ==
  /\ At(t, "more")
  /\ IF t \in Timed \cap expired THEN Step(t, "run") /\ Forget(t)
                                 ELSE Wait(t, "wq", "poll") /\ UNCHANGED <<local, arg, expired>>
  /\ UNCHANGED <<bits, owed>>

(* rk_notify_wait: too late, or wait for a millisecond and poll again.     *)
More(t) ==
  /\ At(t, "more")
  /\ IF t \in Timed \cap expired THEN Step(t, "run") /\ Forget(t)
                                 ELSE WaitTimed(t, "wq", "poll", "poll") /\ UNCHANGED <<local, arg, expired>>
  /\ UNCHANGED <<bits, owed>>

Pass(t) == /\ t \in Timed \ expired /\ pc[t] # "run"
           /\ expired' = expired \cup {t}
           /\ UNCHANGED <<wqVars, bits, local, arg, owed>>

TickWake(t) == Expire(t) /\ UNCHANGED ntfVars

InCall(t) == \/ SignalStore(t) \/ Poll(t) \/ Reload(t) \/ Clear(t) \/ More(t)
             \/ (Link(t) \/ Block(t) \/ Unlink(t) \/ PopAll(t)) /\ UNCHANGED ntfVars

Next == \E t \in Threads : \/ InCall(t) \/ Pass(t) \/ TickWake(t)
                           \/ \E b \in (SUBSET Bits) \ {{}} : SignalLoad(t, b) \/ WaitCall(t, b)

Fairness == \A t \in Threads : /\ WF_vars(InCall(t))
                               /\ WF_vars(Pass(t)) /\ WF_vars(TickWake(t))

Spec == Init /\ [][Next]_vars /\ Fairness
-----------------------------------------------------------------------------
(* A waiter whose bit is set returns, or the bit is taken or overwritten   *)
(* by someone else: it does not depend on the wakeup finding it asleep.    *)
SetBitSeen ==
  \A t \in Threads \ Signallers, b \in Bits :
    pc[t] # "run" /\ b \in arg[t] \cap bits ~> pc[t] = "run" \/ b \notin bits

(* A bit that was signalled, and not returned since, is set while nobody   *)
(* is in the middle of an update.                                          *)
NoBitLost == (\A t \in Threads : pc[t] \notin {"store", "reload", "clear"})
               => owed \subseteq bits
=============================================================================
