-------------------------------- MODULE MCSync --------------------------------
(***************************************************************************)
(* One model-checking instance for the sleeping locks and the notification *)
(* object: the threads share one of them, and lock says which.  The        *)
(* variables of the other kinds keep their initial values.                 *)
(***************************************************************************)
EXTENDS WaitQueue

CONSTANTS Permits, Timed, Waiters, MaxDepth, Signallers, Bits

VARIABLES lock,
          readers, writer, waitingWriters, mode,
          count, holding, done, late, result,
          owner, depth, recursive, holds,
          bits, local, arg, owed, expired

vars == <<wqVars, lock, readers, writer, waitingWriters, mode, count, holding,
          done, late, result, owner, depth, recursive, holds,
          bits, local, arg, owed, expired>>

Rw  == INSTANCE RwLock
Sem == INSTANCE Semaphore
Com == INSTANCE Completion
Mut == INSTANCE Mutex
Ntf == INSTANCE Notify

ASSUME SyncAssumption == /\ Sem!SemaphoreAssumption /\ Com!CompletionAssumption
                         /\ Mut!MutexAssumption /\ Ntf!NotifyAssumption

Init == /\ \/ lock = "rwlock"     /\ WqInit(Rw!Queues)
           \/ lock = "semaphore"  /\ WqInit(Sem!Queues)
           \/ lock = "completion" /\ WqInit(Com!Queues)
           \/ lock = "mutex"      /\ WqInit(Mut!Queues)
           \/ lock = "notify"     /\ WqInit(Ntf!Queues)
        /\ Rw!LockInit /\ Sem!LockInit /\ Com!LockInit /\ Ntf!ObjInit
        /\ IF lock = "mutex" THEN Mut!LockInit ELSE Mut!LockInit /\ ~recursive

NoRw  == UNCHANGED <<readers, writer, waitingWriters, mode>>
NoSem == UNCHANGED <<count, holding>>
NoCom == UNCHANGED done
NoMut == UNCHANGED <<owner, depth, recursive, holds>>

NoNtf == UNCHANGED <<bits, local, arg, owed, expired>>
NoLim == UNCHANGED <<late, result>>

OnRw(A)  == lock = "rwlock"     /\ A /\ NoSem /\ NoCom /\ NoMut /\ NoNtf /\ NoLim
OnSem(A) == lock = "semaphore"  /\ A /\ NoRw  /\ NoCom /\ NoMut /\ NoNtf /\ UNCHANGED result
OnCom(A) == lock = "completion" /\ A /\ NoRw  /\ NoSem /\ NoMut /\ NoNtf
OnMut(A) == lock = "mutex"      /\ A /\ NoRw  /\ NoSem /\ NoCom /\ NoNtf /\ NoLim
OnNtf(A) == lock = "notify"     /\ A /\ NoRw  /\ NoSem /\ NoCom /\ NoMut /\ NoLim

Next == /\ \/ OnRw(Rw!Next) \/ OnSem(Sem!Next) \/ OnCom(Com!Next)
           \/ OnMut(Mut!Next) \/ OnNtf(Ntf!Next)
        /\ UNCHANGED lock

Scheduled(t) == /\ \/ OnSem(Sem!ThreadStep(t)) \/ OnCom(Com!ThreadStep(t))
                   \/ OnNtf(Ntf!InCall(t))
                /\ UNCHANGED lock

Clock(t) == /\ OnSem(Sem!Pass(t)) \/ OnCom(Com!Pass(t)) \/ OnNtf(Ntf!Pass(t))
            /\ UNCHANGED lock

Tick(t)  == /\ OnSem(Sem!TickWake(t)) \/ OnCom(Com!TickWake(t)) \/ OnNtf(Ntf!TickWake(t))
            /\ UNCHANGED lock

(* The fairness of Semaphore, Completion and Notify: a thread inside a     *)
(* call is scheduled, the clock advances and the tick comes.               *)
Spec == /\ Init /\ [][Next]_vars
        /\ \A t \in Threads : /\ WF_vars(Scheduled(t))
                              /\ WF_vars(Clock(t)) /\ WF_vars(Tick(t))
-----------------------------------------------------------------------------
(* The invariants and properties of each kind of lock, stated there.       *)
TypeOK == /\ lock = "rwlock" => Rw!TypeOK
          /\ lock = "semaphore" => Sem!TypeOK
          /\ lock = "completion" => Com!TypeOK
          /\ lock = "mutex" => Mut!TypeOK
          /\ lock = "notify" => Ntf!TypeOK

(* Readers and writers exclude each other as the counters say, and         *)
(* waiting_writers is the number of threads inside write_lock.             *)
RwExclusion == Rw!RwExclusion /\ (lock = "rwlock" => Rw!WritersCounted)

(* No reader gets in past a queued writer.                                 *)
WriterPreferred == [][lock = "rwlock" => Rw!NoReaderPasses]_vars

(* Every permit of the semaphore is in its count or held by one thread.    *)
PermitsConserved == Sem!PermitsConserved

(* Timed waits for a permit, a completion or a notification always return. *)
TimedWaitReturns == \A t \in Timed : pc[t] \in {"loop", "poll"} ~> pc[t] = "run"

(* Waiters get what they wait for: every thread asleep on a completion     *)
(* returns when it is done, a wait for one that is already done does not   *)
(* time out, and a waiter sees a notification bit unless another takes it. *)
SleepersWoken == /\ [](lock = "completion") => Com!SleepersWoken /\ Com!PostBeforeWait
                 /\ Ntf!SetBitSeen

(* The mutex has one holder, who holds it as often as its depth says, and  *)
(* a thread that waits on a condition does not own a plain one.            *)
HolderOwns == Mut!HolderOwns /\ (lock = "mutex" /\ ~recursive => Mut!WaiterReleases)
=============================================================================
