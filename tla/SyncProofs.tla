------------------------------ MODULE SyncProofs ------------------------------
(* The sleeping locks and the notification object, for any finite set of    *)
(* threads.  Each object has an inductive invariant that joins the one of   *)
(* the wait queues to the object's own: who holds it, who waits for it and  *)
(* what its counters say.  The step of the object keeps it in two parts:    *)
(* what it does to the queues (WaitQueueProofs) and what to the object.     *)
EXTENDS MCSync, WaitQueueProofs, FiniteSetTheorems

-----------------------------------------------------------------------------
(* The reader-writer lock.                                                  *)

(* What a thread inside a call holds, and where the call returns to: a wait *)
(* for either side is not timed and turns the loop of its own side again.   *)
RwCalls ==
  \A t \in Threads :
    /\ pc[t] \in Rw!Locations => call[t].woken = "run"
    /\ pc[t] # "run" /\ mode[t] # "none" => pc[t] \in InQueue /\ call[t].woken = "run"
    /\ call[t].expired = call[t].woken
    /\ pc[t] \in {"rloop", "wloop"} \/ call[t].woken \in {"rloop", "wloop"} => mode[t] = "none"

RwCounters == /\ readers \in Nat /\ writer \in BOOLEAN /\ waitingWriters \in Nat
              /\ mode \in [Threads -> Rw!Modes]

(* Exclusion without cardinalities.                                         *)
RwHolders == /\ \A t, u \in Rw!Holding("write") : t = u
             /\ Rw!Holding("write") # {} => Rw!Holding("read") = {}
             /\ writer <=> Rw!Holding("write") # {}
             /\ readers = Cardinality(Rw!Holding("read"))

RwInv == /\ WqInv(Rw!Queues, Rw!Locations)
         /\ RwCounters /\ RwCalls /\ RwHolders /\ Rw!WritersCounted
-----------------------------------------------------------------------------
(* The steps of the lock, seen from the wait queues.                        *)
LEMMA RwMoves ==
  ASSUME NEW t \in Threads
  PROVE  /\ Rw!ReadLock(t) \/ Rw!ReadTry(t) \/ Rw!ReadUnlock(t)
              \/ Rw!WriteLock(t) \/ Rw!WriteTry(t) \/ Rw!WriteUnlock(t)
            => LockStep(t, Rw!Queues, Rw!Locations)
         /\ Rw!Link(t) => Link(t)
         /\ Rw!Block(t) => Block(t)
         /\ Rw!Unlink(t) => Unlink(t)
         /\ Rw!Pop(t) => Pop(t)
         /\ Rw!Wake(t) => Wake(t)
         /\ Rw!PopAll(t) => PopAll(t)
<1> USE DEF Rw!At, At, Rw!Step, Step, Rw!Goto, Goto, Rw!Enter, Enter, Rw!Call, Call
<1>1. ASSUME NEW q \in Rw!Queues, NEW l \in Rw!Locations,
             Rw!Wait(t, q, l) \/ Rw!WakeOne(t, q, l) \/ Rw!WakeAll(t, q, l)
      PROVE  Enters(t, Rw!Queues, Rw!Locations)
  BY <1>1 DEF Rw!Wait, Rw!WakeOne, Rw!WakeAll, Enters
<1>2. "rq" \in Rw!Queues /\ "wq" \in Rw!Queues
      /\ "run" \in Rw!Locations /\ "rloop" \in Rw!Locations /\ "wloop" \in Rw!Locations
  BY DEF Rw!Queues, Rw!Locations
<1>3. Rw!ReadLock(t) => LockStep(t, Rw!Queues, Rw!Locations)
  BY <1>2 DEF Rw!ReadLock, LockStep
<1>4. Rw!ReadTry(t) => LockStep(t, Rw!Queues, Rw!Locations)
  BY <1>1, <1>2 DEF Rw!ReadTry, LockStep
<1>5. Rw!ReadUnlock(t) => LockStep(t, Rw!Queues, Rw!Locations)
  BY <1>1, <1>2 DEF Rw!ReadUnlock, LockStep
<1>6. Rw!WriteLock(t) => LockStep(t, Rw!Queues, Rw!Locations)
  BY <1>2 DEF Rw!WriteLock, LockStep
<1>7. Rw!WriteTry(t) => LockStep(t, Rw!Queues, Rw!Locations)
  BY <1>1, <1>2 DEF Rw!WriteTry, LockStep
<1>8. Rw!WriteUnlock(t) => LockStep(t, Rw!Queues, Rw!Locations)
  BY <1>1, <1>2 DEF Rw!WriteUnlock, LockStep
<1>9. Rw!Link(t) => Link(t)
  BY DEF Rw!Link, Link, Rw!Queue, Queue
<1>10. Rw!Block(t) => Block(t)
  BY DEF Rw!Block, Block
<1>11. Rw!Unlink(t) => Unlink(t)
  BY DEF Rw!Unlink, Unlink, Rw!RemoveFirst, RemoveFirst, Rw!RemoveAt, RemoveAt, Rw!SelectInSeq,
         SelectInSeq, Rw!Min, Min, Rw!Queue, Queue, Rw!Return, Return, Rw!Contains, Contains,
         Rw!NoCall, NoCall
<1>12. Rw!Pop(t) => Pop(t)
  BY DEF Rw!Pop, Pop, Rw!Queue, Queue, Rw!Return, Return, Rw!NoCall, NoCall
<1>13. Rw!Wake(t) => Wake(t)
  BY DEF Rw!Wake, Wake, Rw!Return, Return, Rw!NoCall, NoCall
<1>14. Rw!PopAll(t) => PopAll(t)
  BY DEF Rw!PopAll, PopAll, Rw!ToSet, ToSet, Rw!Queue, Queue, Rw!Return, Return, Rw!NoCall, NoCall
<1> QED BY <1>3, <1>4, <1>5, <1>6, <1>7, <1>8, <1>9, <1>10, <1>11, <1>12, <1>13, <1>14

(* The instance counts as this module does.                                 *)
LEMMA RwCounts ==
  ASSUME NEW S
  PROVE  Rw!Cardinality(S) = Cardinality(S)
BY DEF Rw!Cardinality, Cardinality

(* waiting_writers counts the writers in either state of a step.            *)
LEMMA RwWriters ==
  /\ Rw!WritersCounted <=> waitingWriters = Cardinality(Rw!InWriteLock)
  /\ Rw!WritersCounted' <=> waitingWriters' = Cardinality(Rw!InWriteLock')
BY RwCounts DEF Rw!WritersCounted

(* Cardinalities of the threads that hold the lock or want to write.        *)
LEMMA RwFinite ==
  ASSUME NEW m
  PROVE  /\ IsFiniteSet(Rw!Holding(m)) /\ IsFiniteSet(Rw!InWriteLock)
         /\ Cardinality(Rw!Holding(m)) \in 0..Cardinality(Threads)
         /\ Cardinality(Rw!InWriteLock) \in 0..Cardinality(Threads)
<1>1. Rw!Holding(m) \subseteq Threads /\ Rw!InWriteLock \subseteq Threads
  BY DEF Rw!Holding, Rw!InWriteLock
<1> QED BY <1>1, WaitQueueAssumption, FS_Subset, FS_CardinalityType DEF WaitQueueAssumption

(* A lock that was just initialised satisfies the invariant.                *)
LEMMA RwStart ==
  ASSUME WqInit(Rw!Queues), Rw!LockInit
  PROVE  RwInv
<1>1. Own(Rw!Locations)
  BY DEF Own, Rw!Locations, InQueue
<1>2. WqInv(Rw!Queues, Rw!Locations)
  BY <1>1, QueuesStart
<1>3. RwCounters /\ RwCalls
  <2>1. \A t \in Threads : /\ pc[t] = "run" /\ mode[t] = "none"
                           /\ call[t].woken = "run" /\ call[t].expired = "run"
    BY DEF Rw!LockInit, WqInit, NoCall, Call
  <2> QED BY <2>1 DEF Rw!LockInit, RwCounters, RwCalls, Rw!Modes
<1>4. \A m \in {"read", "write"} : Rw!Holding(m) = {}
  BY DEF Rw!LockInit, Rw!Holding
<1>5. Rw!InWriteLock = {}
  BY DEF WqInit, NoCall, Call, Rw!InWriteLock
<1>6. RwHolders /\ Rw!WritersCounted
  <2>1. Cardinality({}) = 0
    BY FS_EmptySet
  <2>2. Rw!Holding("read") = {} /\ Rw!Holding("write") = {}
    BY <1>4
  <2>3. RwHolders
    BY <2>1, <2>2 DEF RwHolders, Rw!LockInit
  <2> QED BY <1>5, <2>1, <2>3, RwWriters DEF Rw!LockInit
<1> QED BY <1>2, <1>3, <1>6 DEF RwInv

(* A step of the wait queues leaves the lock as it is.                      *)
LEMMA RwQueueStep ==
  ASSUME RwInv, NEW t \in Threads, WqStep(t), UNCHANGED Rw!rwVars
  PROVE  RwCounters' /\ RwCalls' /\ RwHolders' /\ Rw!WritersCounted'
<1>1. UNCHANGED <<readers, writer, waitingWriters, mode>>
  BY DEF Rw!rwVars
<1>2. RwCounters' /\ RwHolders'
  BY <1>1 DEF RwInv, RwCounters, RwHolders, Rw!Holding
<1>3. /\ pc \in [Threads -> Rw!Locations \cup InQueue]
      /\ call \in [Threads -> [queue : Rw!Queues \cup {None}, timed : BOOLEAN,
                               woken : Rw!Locations, expired : Rw!Locations]]
  BY DEF RwInv, WqInv, WqTypeOK, InQueue
<1>4. RwCalls' /\ Rw!InWriteLock' = Rw!InWriteLock
  <2>1. CASE UNCHANGED <<pc, call>>
    BY <1>1, <2>1 DEF RwInv, RwCalls, Rw!InWriteLock
  <2>2. CASE Moves(t)
    <3>1. PICK l \in InQueue : pc' = [pc EXCEPT ![t] = l] /\ call' = call
      BY <2>2 DEF Moves
    <3>2. pc[t] \in InQueue
      BY <2>2 DEF Moves
    <3> QED BY <1>1, <1>3, <3>1, <3>2 DEF RwInv, RwCalls, Rw!InWriteLock, Rw!Locations, InQueue
  <2>3. CASE Returns(t)
    <3>1. PICK l \in {call[t].woken, call[t].expired} : Return(t, l)
      BY <2>3 DEF Returns
    <3>2. l = call[t].woken /\ pc[t] \in InQueue
      BY <2>3, <3>1 DEF RwInv, RwCalls, Returns
    <3>3. /\ pc' = [pc EXCEPT ![t] = l] /\ call' = [call EXCEPT ![t] = NoCall]
          /\ NoCall.woken = "run" /\ NoCall.expired = "run"
      BY <3>1 DEF Return, Goto, NoCall, Call
    <3>4. RwCalls'
      BY <1>1, <1>3, <3>2, <3>3 DEF RwInv, RwCalls, Rw!Locations, InQueue
    <3>5. Rw!InWriteLock' = Rw!InWriteLock
      BY <1>3, <3>2, <3>3 DEF Rw!InWriteLock, InQueue
    <3> QED BY <3>4, <3>5
  <2> QED BY <2>1, <2>2, <2>3, QueueSteps
<1>5. Rw!WritersCounted'
  BY <1>1, <1>4 DEF RwInv, Rw!WritersCounted
<1> QED BY <1>2, <1>4, <1>5

(* What an operation of the lock does to the thread that makes it: where it *)
(* goes, where its call returns to, what it holds then.                     *)
Now(t, l, back, m) == /\ pc'[t] = l /\ call'[t].woken = back /\ call'[t].expired = back
                      /\ mode'[t] = m
Others(t) == \A u \in Threads \ {t} : pc'[u] = pc[u] /\ call'[u] = call[u] /\ mode'[u] = mode[u]

ReadLocks(t) ==
  /\ pc[t] = "run" /\ mode[t] = "none" /\ Now(t, "rloop", "run", "none")
  /\ Others(t) /\ UNCHANGED <<readers, writer, waitingWriters, mode>>

ReadTries(t) ==
  /\ pc[t] = "rloop" /\ Others(t) /\ UNCHANGED <<writer, waitingWriters>>
  /\ \/ /\ Rw!ReadFree /\ Now(t, "run", "run", "read") /\ readers' = readers + 1
        /\ mode' = [mode EXCEPT ![t] = "read"]
     \/ Now(t, "link", "rloop", "none") /\ UNCHANGED <<readers, mode>>

ReadUnlocks(t) ==
  /\ pc[t] = "run" /\ mode[t] = "read" /\ Others(t)
  /\ \E l \in {"run", "pop"} : Now(t, l, "run", "none")
  /\ readers' = IF readers = 0 THEN 0 ELSE readers - 1
  /\ mode' = [mode EXCEPT ![t] = "none"] /\ UNCHANGED <<writer, waitingWriters>>

WriteLocks(t) ==
  /\ pc[t] = "run" /\ mode[t] = "none" /\ Now(t, "wloop", "run", "none")
  /\ Others(t) /\ waitingWriters' = waitingWriters + 1 /\ UNCHANGED <<readers, writer, mode>>

WriteTries(t) ==
  /\ pc[t] = "wloop" /\ Others(t) /\ UNCHANGED readers
  /\ \/ /\ Rw!WriteFree /\ Now(t, "run", "run", "write") /\ writer' = TRUE
        /\ waitingWriters' = waitingWriters - 1 /\ mode' = [mode EXCEPT ![t] = "write"]
     \/ Now(t, "link", "wloop", "none") /\ UNCHANGED <<writer, waitingWriters, mode>>

WriteUnlocks(t) ==
  /\ pc[t] = "run" /\ mode[t] = "write" /\ Others(t)
  /\ \E l \in {"pop", "popall"} : Now(t, l, "run", "none")
  /\ writer' = FALSE /\ mode' = [mode EXCEPT ![t] = "none"] /\ UNCHANGED <<readers, waitingWriters>>

RwTypes == /\ pc \in [Threads -> Rw!Locations \cup InQueue]
           /\ call \in [Threads -> [queue : Rw!Queues \cup {None}, timed : BOOLEAN,
                                    woken : Rw!Locations, expired : Rw!Locations]]
           /\ RwCounters

(* The operations do what is described above, in a state of the invariant.  *)
LEMMA RwOperations ==
  ASSUME RwInv, NEW t \in Threads
  PROVE  /\ Rw!ReadLock(t) => ReadLocks(t)
         /\ Rw!ReadTry(t) => ReadTries(t)
         /\ Rw!ReadUnlock(t) => ReadUnlocks(t)
         /\ Rw!WriteLock(t) => WriteLocks(t)
         /\ Rw!WriteTry(t) => WriteTries(t)
         /\ Rw!WriteUnlock(t) => WriteUnlocks(t)
         /\ RwTypes
<1> USE DEF Rw!At, Rw!Step, Rw!Goto, Rw!Enter, Rw!Call, Now, Others, Rw!rwVars
<1>1. RwTypes
  BY DEF RwInv, WqInv, WqTypeOK, InQueue, RwTypes
<1>2. /\ pc[t] \in Rw!Locations => call[t].woken = "run" /\ call[t].expired = "run"
      /\ pc[t] \in {"rloop", "wloop"} => mode[t] = "none"
  BY DEF RwInv, RwCalls
<1>3. "run" \in Rw!Locations /\ "rloop" \in Rw!Locations /\ "wloop" \in Rw!Locations
  BY DEF Rw!Locations
<1> USE <1>1, <1>2, <1>3 DEF RwTypes, RwCounters
<1>4. Rw!ReadLock(t) => ReadLocks(t)
  BY DEF Rw!ReadLock, ReadLocks
<1>5. Rw!ReadTry(t) => ReadTries(t)
  BY DEF Rw!ReadTry, Rw!Wait, ReadTries
<1>6. Rw!ReadUnlock(t) => ReadUnlocks(t)
  BY DEF Rw!ReadUnlock, Rw!WakeOne, ReadUnlocks
<1>7. Rw!WriteLock(t) => WriteLocks(t)
  BY DEF Rw!WriteLock, WriteLocks
<1>8. Rw!WriteTry(t) => WriteTries(t)
  BY DEF Rw!WriteTry, Rw!Wait, WriteTries
<1>9. Rw!WriteUnlock(t) => WriteUnlocks(t)
  BY DEF Rw!WriteUnlock, Rw!WakeOne, Rw!WakeAll, WriteUnlocks
<1> QED BY <1>4, <1>5, <1>6, <1>7, <1>8, <1>9

RwOperation(t) == \/ ReadLocks(t) \/ ReadTries(t) \/ ReadUnlocks(t)
                  \/ WriteLocks(t) \/ WriteTries(t) \/ WriteUnlocks(t)

(* Each operation keeps the parts of the invariant: what a call holds, ...   *)
LEMMA RwCallsKept ==
  ASSUME RwInv, RwTypes, NEW t \in Threads, RwOperation(t)
  PROVE  RwCalls'
<1> SUFFICES ASSUME NEW u \in Threads
             PROVE  /\ pc'[u] \in Rw!Locations => call'[u].woken = "run"
                    /\ pc'[u] # "run" /\ mode'[u] # "none" =>
                         pc'[u] \in InQueue /\ call'[u].woken = "run"
                    /\ call'[u].expired = call'[u].woken
                    /\ pc'[u] \in {"rloop", "wloop"} \/ call'[u].woken \in {"rloop", "wloop"}
                         => mode'[u] = "none"
  BY DEF RwCalls
<1>1. CASE u # t
  <2>1. Others(t)
    BY DEF RwOperation, ReadLocks, ReadTries, ReadUnlocks, WriteLocks, WriteTries, WriteUnlocks
  <2> QED BY <1>1, <2>1 DEF Others, RwInv, RwCalls
<1>2. CASE u = t
  BY <1>2 DEF RwOperation, Now, ReadLocks, ReadTries, ReadUnlocks, WriteLocks, WriteTries,
              WriteUnlocks, Rw!Locations, InQueue
<1> QED BY <1>1, <1>2

(* write_lock counts itself in and, once it has the lock, out again.        *)
LEMMA RwWritersKept ==
  ASSUME RwInv, RwTypes, NEW t \in Threads, RwOperation(t)
  PROVE  Rw!WritersCounted' /\ waitingWriters' \in Nat
<1> DEFINE W == Rw!InWriteLock
<1>1. IsFiniteSet(W) /\ Cardinality(W) \in Nat /\ waitingWriters = Cardinality(W)
  BY RwFinite, FS_CardinalityType, RwWriters DEF RwInv
<1> HIDE DEF W
<1>2. /\ t \notin W => Cardinality(W \cup {t}) = Cardinality(W) + 1
      /\ t \in W => Cardinality(W \ {t}) = Cardinality(W) - 1
      /\ Cardinality(W \ {t}) \in Nat
  BY <1>1, FS_AddElement, FS_RemoveElement, FS_CardinalityType
<1> USE DEF W
<1>3. pc[t] \in Rw!Locations => (t \in W <=> pc[t] = "wloop")
  BY DEF RwInv, RwCalls, Rw!InWriteLock, Rw!Locations
<1>4. Others(t) => W' = W \cup {t} \/ W' = W \ {t}
  BY DEF Others, Rw!InWriteLock
<1>5. \A l, back, m : Now(t, l, back, m) => (t \in W' <=> l = "wloop" \/ back = "wloop")
  BY DEF Now, Rw!InWriteLock
<1> HIDE DEF W
<1>6. waitingWriters' = Cardinality(W)' => Rw!WritersCounted'
  BY RwWriters DEF W
<1>7. CASE ReadLocks(t) \/ ReadTries(t) \/ ReadUnlocks(t) \/ WriteUnlocks(t)
  <2>1. t \notin W /\ t \notin W' /\ Others(t) /\ waitingWriters' = waitingWriters
    BY <1>7, <1>3, <1>5 DEF ReadLocks, ReadTries, ReadUnlocks, WriteUnlocks, Rw!Locations
  <2>2. W' = W
    BY <1>4, <2>1
  <2> QED BY <1>1, <1>2, <1>6, <2>1, <2>2
<1>8. CASE WriteLocks(t)
  <2>1. t \notin W /\ t \in W' /\ Others(t) /\ waitingWriters' = waitingWriters + 1
    BY <1>8, <1>3, <1>5 DEF WriteLocks, Rw!Locations
  <2>2. W' = W \cup {t}
    BY <1>4, <2>1
  <2> QED BY <1>1, <1>2, <1>6, <2>1, <2>2
<1>9. CASE WriteTries(t)
  <2>1. pc[t] = "wloop" /\ t \in W /\ Others(t)
    BY <1>9, <1>3 DEF WriteTries, Rw!Locations
  <2>2. CASE Now(t, "run", "run", "write") /\ waitingWriters' = waitingWriters - 1
    <3>1. W' = W \ {t}
      BY <1>4, <1>5, <2>1, <2>2
    <3> QED BY <1>1, <1>2, <1>6, <2>1, <2>2, <3>1
  <2>3. CASE Now(t, "link", "wloop", "none") /\ waitingWriters' = waitingWriters
    <3>1. W' = W
      BY <1>4, <1>5, <2>1, <2>3
    <3> QED BY <1>1, <1>2, <1>6, <2>3, <3>1
  <2> QED BY <1>9, <2>2, <2>3 DEF WriteTries
<1> QED BY <1>7, <1>8, <1>9 DEF RwOperation

(* A reader gets in only past no writer, a writer only past nobody.         *)
LEMMA RwHoldersKept ==
  ASSUME RwInv, RwTypes, NEW t \in Threads, RwOperation(t)
  PROVE  RwHolders' /\ readers' \in Nat /\ writer' \in BOOLEAN /\ mode' \in [Threads -> Rw!Modes]
<1> DEFINE R == Rw!Holding("read")
           W == Rw!Holding("write")
<1>1. IsFiniteSet(R) /\ Cardinality(R) \in Nat /\ readers = Cardinality(R)
  BY RwFinite, FS_CardinalityType DEF RwInv, RwHolders
<1> HIDE DEF R
<1>2. /\ t \notin R => Cardinality(R \cup {t}) = Cardinality(R) + 1
      /\ t \in R => Cardinality(R \ {t}) = Cardinality(R) - 1
      /\ Cardinality(R \ {t}) \in Nat
      /\ Cardinality(R) = 0 <=> R = {}
  BY <1>1, FS_AddElement, FS_RemoveElement, FS_CardinalityType, FS_EmptySet
<1> USE DEF R
<1>3. CASE UNCHANGED <<readers, writer, mode>>
  BY <1>3 DEF RwInv, RwHolders, Rw!Holding, RwTypes, RwCounters
<1>4. CASE pc[t] = "rloop" /\ Rw!ReadFree /\ readers' = readers + 1 /\ writer' = writer
             /\ mode' = [mode EXCEPT ![t] = "read"]
  <2>1. t \notin R /\ W = {}
    BY <1>4 DEF RwInv, RwCalls, RwHolders, Rw!ReadFree, Rw!Holding
  <2>2. R' = R \cup {t} /\ W' = {}
    BY <1>4, <2>1 DEF RwTypes, RwCounters, Rw!Holding
  <2>3. readers' = Cardinality(R')
    BY <1>1, <1>2, <1>4, <2>1, <2>2
  <2>4. mode' \in [Threads -> Rw!Modes]
    BY <1>4 DEF RwTypes, RwCounters, Rw!Modes
  <2>5. writer' = FALSE /\ readers' \in Nat
    BY <1>1, <1>4 DEF Rw!ReadFree, RwTypes, RwCounters
  <2> QED BY <2>2, <2>3, <2>4, <2>5 DEF RwHolders
<1>5. CASE ReadUnlocks(t)
  <2>1. t \in R /\ W = {} /\ writer = FALSE /\ writer' = writer
    BY <1>5 DEF ReadUnlocks, RwInv, RwHolders, Rw!Holding, RwTypes, RwCounters
  <2>2. R' = R \ {t} /\ W' = {}
    BY <1>5, <2>1 DEF ReadUnlocks, RwTypes, RwCounters, Rw!Holding
  <2>3. readers' = Cardinality(R') /\ readers' \in Nat
    BY <1>1, <1>2, <1>5, <2>1, <2>2 DEF ReadUnlocks
  <2>4. mode' \in [Threads -> Rw!Modes]
    BY <1>5 DEF ReadUnlocks, RwTypes, RwCounters, Rw!Modes
  <2> QED BY <2>1, <2>2, <2>3, <2>4 DEF RwHolders
<1>6. CASE pc[t] = "wloop" /\ Rw!WriteFree /\ writer' = TRUE /\ readers' = readers
             /\ mode' = [mode EXCEPT ![t] = "write"]
  <2>1. R = {} /\ W = {}
    BY <1>1, <1>2, <1>6 DEF RwInv, RwHolders, Rw!WriteFree
  <2>2. R' = {} /\ W' = {t}
    BY <1>6, <2>1 DEF RwTypes, RwCounters, Rw!Holding
  <2>3. mode' \in [Threads -> Rw!Modes]
    BY <1>6 DEF RwTypes, RwCounters, Rw!Modes
  <2> QED BY <1>1, <1>6, <2>1, <2>2, <2>3 DEF RwHolders
<1>7. CASE WriteUnlocks(t)
  <2>1. W = {t} /\ R = {}
    BY <1>7 DEF WriteUnlocks, RwInv, RwHolders, Rw!Holding
  <2>2. R' = {} /\ W' = {}
    BY <1>7, <2>1 DEF WriteUnlocks, RwTypes, RwCounters, Rw!Holding
  <2>3. mode' \in [Threads -> Rw!Modes]
    BY <1>7 DEF WriteUnlocks, RwTypes, RwCounters, Rw!Modes
  <2> QED BY <1>1, <1>7, <2>1, <2>2, <2>3 DEF WriteUnlocks, RwHolders
<1> QED BY <1>3, <1>4, <1>5, <1>6, <1>7 DEF RwOperation, ReadLocks, ReadTries, WriteLocks, WriteTries

(* Every step of the lock keeps the invariant.                              *)
LEMMA RwStep ==
  ASSUME RwInv, Rw!Next
  PROVE  RwInv'
<1>1. PICK t \in Threads :
        \/ Rw!ReadLock(t) \/ Rw!ReadTry(t) \/ Rw!ReadUnlock(t)
        \/ Rw!WriteLock(t) \/ Rw!WriteTry(t) \/ Rw!WriteUnlock(t)
        \/ (Rw!Link(t) \/ Rw!Block(t) \/ Rw!Unlink(t) \/ Rw!Pop(t) \/ Rw!Wake(t) \/ Rw!PopAll(t))
           /\ UNCHANGED Rw!rwVars
  BY DEF Rw!Next
<1>2. Own(Rw!Locations)
  BY DEF Own, Rw!Locations, InQueue
<1>3. CASE WqStep(t) /\ UNCHANGED Rw!rwVars
  BY <1>2, <1>3, QueuesKept, RwQueueStep DEF RwInv
<1>4. CASE LockStep(t, Rw!Queues, Rw!Locations) /\ RwOperation(t)
  <2>1. RwTypes
    BY RwOperations
  <2> QED BY <1>2, <1>4, <2>1, QueuesKept, RwCallsKept, RwWritersKept, RwHoldersKept
          DEF RwInv, RwCounters
<1> QED BY <1>1, <1>3, <1>4, RwMoves, RwOperations DEF RwOperation, WqStep, WqRun

(* What the invariant says of the lock.                                     *)
LEMMA RwSafe ==
  ASSUME RwInv
  PROVE  Rw!TypeOK /\ Rw!RwExclusion /\ Rw!WritersCounted /\ LinkedOnce
<1> DEFINE W == Rw!Holding("write")
<1>1. /\ readers \in 0..Cardinality(Threads) /\ waitingWriters \in 0..Cardinality(Threads)
  BY RwFinite, RwWriters DEF RwInv, RwHolders
<1>2. Rw!TypeOK
  BY <1>1, RwCounts DEF RwInv, WqInv, RwCounters, Rw!TypeOK, Rw!WqTypeOK, WqTypeOK
<1>3. Cardinality(W) <= 1
  <2>1. CASE W = {}
    BY <2>1, FS_EmptySet
  <2>2. CASE W # {}
    <3>1. PICK t : W = {t}
      BY <2>2 DEF RwInv, RwHolders
    <3>2. Cardinality({t}) = 1
      BY FS_Singleton
    <3> QED BY <3>1, <3>2
  <2> QED BY <2>1, <2>2
<1>4. Rw!RwExclusion
  BY <1>3, RwCounts DEF RwInv, RwHolders, Rw!RwExclusion
<1> QED BY <1>2, <1>4 DEF RwInv, WqInv

(* No operation lets a reader in while a writer waits.                      *)
LEMMA RwNoReaderPasses ==
  ASSUME RwInv, Rw!Next
  PROVE  Rw!NoReaderPasses
<1> DEFINE R == Rw!Holding("read")
<1>0. /\ IsFiniteSet(R) /\ IsFiniteSet(R')
      /\ Rw!Cardinality(R) = Cardinality(R) /\ Rw!Cardinality(R') = Cardinality(R')
      /\ IsFiniteSet(Rw!InWriteLock)
      /\ waitingWriters = 0 => Rw!InWriteLock = {}
  <2>1. R' \subseteq Threads
    BY DEF Rw!Holding
  <2> QED BY <2>1, RwFinite, RwCounts, FS_Subset, FS_EmptySet, WaitQueueAssumption, RwWriters
          DEF RwInv, WaitQueueAssumption
<1>1. CASE Rw!ReadFree
  BY <1>0, <1>1 DEF Rw!ReadFree, Rw!NoReaderPasses
<1>2. CASE ~Rw!ReadFree
  <2>1. \A t \in Threads : mode'[t] = "read" => mode[t] = "read"
    <3>1. PICK t \in Threads :
            \/ Rw!ReadLock(t) \/ Rw!ReadTry(t) \/ Rw!ReadUnlock(t)
            \/ Rw!WriteLock(t) \/ Rw!WriteTry(t) \/ Rw!WriteUnlock(t)
            \/ UNCHANGED Rw!rwVars
      BY DEF Rw!Next
    <3>2. mode' = mode \/ \E m \in {"none", "write"} : mode' = [mode EXCEPT ![t] = m]
      BY <1>2, <3>1, RwOperations DEF Rw!rwVars, ReadLocks, ReadTries, ReadUnlocks, WriteLocks,
                                      WriteTries, WriteUnlocks
    <3> QED BY <3>2 DEF RwInv, RwCounters
  <2>2. R' \subseteq R
    BY <2>1 DEF Rw!Holding
  <2>3. Cardinality(R') <= Cardinality(R)
    BY <1>0, <2>2, FS_Subset
  <2>4. Cardinality(R) \in Nat /\ Cardinality(R') \in Nat
    BY <1>0, FS_CardinalityType
  <2> QED BY <1>0, <2>3, <2>4 DEF Rw!NoReaderPasses
<1> QED BY <1>1, <1>2
-----------------------------------------------------------------------------
(* The same in the composition, where another lock may be the one in use.   *)
RwAlways == /\ lock = "rwlock" => RwInv
            /\ lock # "rwlock" => Rw!LockInit

(* Whichever lock a run uses, the invariant holds when it starts ...        *)
LEMMA RwAlwaysStart == Init => RwAlways
BY RwStart DEF Init, RwAlways

(* ... and after every step.                                                *)
LEMMA RwAlwaysStep == RwAlways /\ [Next]_vars => RwAlways'
<1> SUFFICES ASSUME RwAlways, [Next]_vars PROVE RwAlways'
  OBVIOUS
<1>1. CASE UNCHANGED vars
  <2>1. UNCHANGED <<lock, readers, writer, waitingWriters, mode>> /\ UNCHANGED wqVars
    BY <1>1 DEF vars
  <2>2. Rw!LockInit => Rw!LockInit'
    BY <2>1 DEF Rw!LockInit
  <2>3. RwInv => RwInv'
    BY <2>1 DEF RwInv, WqInv, WqTypeOK, LinkedOnce, CallsNamed, RwCounters, RwCalls, RwHolders,
                Rw!Holding, Rw!WritersCounted, Rw!InWriteLock, wqVars
  <2> QED BY <2>1, <2>2, <2>3 DEF RwAlways
<1>2. CASE OnRw(Rw!Next) /\ UNCHANGED lock
  BY <1>2, RwStep DEF OnRw, RwAlways
<1>3. CASE lock # "rwlock" /\ NoRw /\ UNCHANGED lock
  BY <1>3 DEF NoRw, RwAlways, Rw!LockInit
<1> QED BY <1>1, <1>2, <1>3 DEF Next, OnSem, OnCom, OnMut, OnNtf

(* Readers and writers exclude each other, and readers, writer and          *)
(* waiting_writers are who holds the lock and who is inside write_lock      *)
(* (read_lock, write_lock and their unlocks in kernel/sync/sync.c).         *)
THEOREM RwLockExcludes == Spec => []RwExclusion
<1>1. RwAlways => RwExclusion
  <2>1. CASE lock = "rwlock"
    BY <2>1, RwSafe DEF RwAlways, RwExclusion
  <2>2. CASE lock # "rwlock"
    <3>1. RwAlways => Rw!LockInit
      BY <2>2 DEF RwAlways
    <3>2. Rw!LockInit => Rw!Holding("read") = {} /\ Rw!Holding("write") = {}
      BY DEF Rw!LockInit, Rw!Holding
    <3>3. Rw!Cardinality({}) = 0
      BY RwCounts, FS_EmptySet
    <3> QED BY <2>2, <3>1, <3>2, <3>3 DEF Rw!RwExclusion, RwExclusion, Rw!LockInit
  <2> QED BY <2>1, <2>2
<1> QED BY <1>1, RwAlwaysStart, RwAlwaysStep, PTL DEF Spec

(* "A new reader waits if a writer is queued" (kernel/sync/sync.c): no      *)
(* read_lock succeeds while a thread is anywhere inside write_lock.         *)
THEOREM RwLockPrefersWriters == Spec => WriterPreferred
<1>1. RwAlways /\ [Next]_vars => [lock = "rwlock" => Rw!NoReaderPasses]_vars
  BY RwNoReaderPasses DEF RwAlways, Next, OnRw, OnSem, OnCom, OnMut, OnNtf
<1> QED BY <1>1, RwAlwaysStart, RwAlwaysStep, PTL DEF Spec, WriterPreferred
-----------------------------------------------------------------------------
(* The mutex and the condition variable.                                    *)

MutLocations == {"run", "lock", "condwait", "condtimed"}

(* The holder of a plain mutex is outside every wait: it got there with the *)
(* step that returned, and gives it back with the one that starts to wait.  *)
PlainHolder ==
  ~recursive =>
    /\ depth <= 1
    /\ \A t \in Threads : owner = t =>
         \/ pc[t] = "run"
         \/ /\ pc[t] \in {"pop", "wake", "popall"}
            /\ call[t].woken = "run" /\ call[t].expired = "run"

MutTypes == /\ owner \in Threads \cup {None} /\ depth \in Nat /\ recursive \in BOOLEAN
            /\ holds \in [Threads -> Nat]

MutInv == /\ WqInv(Mut!Queues, MutLocations)
          /\ MutTypes /\ Mut!HolderOwns /\ PlainHolder

(* The calls of the mutex and the condition variable.                       *)
MutCall(t) == \/ Mut!Lock(t) \/ Mut!TryLock(t) \/ Mut!MutexTrylock(t) \/ Mut!Unlock(t)
              \/ Mut!CondWait(t) \/ Mut!CondSleep(t) \/ Mut!Signal(t)

(* They enter the wait queues as every lock does.                           *)
LEMMA MutMoves ==
  ASSUME NEW t \in Threads
  PROVE  /\ MutCall(t) => LockStep(t, Mut!Queues, MutLocations)
         /\ Mut!WqStep(t) => WqStep(t)
<1> USE DEF Mut!At, At, Mut!Step, Step, Mut!Goto, Goto, Mut!Enter, Enter, Mut!Call, Call
<1>1. ASSUME NEW q \in Mut!Queues, NEW l \in MutLocations, NEW m \in MutLocations,
             \/ Mut!Wait(t, q, l) \/ Mut!WaitTimed(t, q, l, m)
             \/ Mut!WakeOne(t, q, l) \/ Mut!WakeAll(t, q, l)
      PROVE  Enters(t, Mut!Queues, MutLocations)
  BY <1>1 DEF Mut!Wait, Mut!WaitTimed, Mut!WakeOne, Mut!WakeAll, Enters
<1>2. /\ "mutex" \in Mut!Queues /\ "cond" \in Mut!Queues
      /\ \A l \in {"run", "lock", "condwait", "condtimed"} : l \in MutLocations
  BY DEF Mut!Queues, MutLocations
<1>3. ASSUME NEW l \in MutLocations, Mut!Release(t, l)
      PROVE  Enters(t, Mut!Queues, MutLocations) \/ Step(t, l)
  BY <1>1, <1>2, <1>3 DEF Mut!Release
<1>4. Mut!Lock(t) \/ Mut!MutexTrylock(t) => LockStep(t, Mut!Queues, MutLocations)
  BY <1>2 DEF Mut!Lock, Mut!MutexTrylock, LockStep
<1>5. Mut!TryLock(t) => LockStep(t, Mut!Queues, MutLocations)
  BY <1>1, <1>2 DEF Mut!TryLock, LockStep
<1>6. Mut!Unlock(t) \/ Mut!CondWait(t) => LockStep(t, Mut!Queues, MutLocations)
  BY <1>2, <1>3 DEF Mut!Unlock, Mut!CondWait, LockStep
<1>7. Mut!CondSleep(t) => LockStep(t, Mut!Queues, MutLocations)
  BY <1>1, <1>2 DEF Mut!CondSleep, LockStep
<1>8. Mut!Signal(t) => LockStep(t, Mut!Queues, MutLocations)
  BY <1>1, <1>2 DEF Mut!Signal, LockStep
<1>9. Mut!Link(t) => Link(t)
  BY DEF Mut!Link, Link, Mut!Queue, Queue
<1>10. Mut!Block(t) => Block(t)
  BY DEF Mut!Block, Block
<1>11. Mut!Unlink(t) => Unlink(t)
  BY DEF Mut!Unlink, Unlink, Mut!RemoveFirst, RemoveFirst, Mut!RemoveAt, RemoveAt,
         Mut!SelectInSeq, SelectInSeq, Mut!Min, Min, Mut!Queue, Queue, Mut!Return, Return,
         Mut!Contains, Contains, Mut!NoCall, NoCall
<1>12. Mut!Pop(t) => Pop(t)
  BY DEF Mut!Pop, Pop, Mut!Queue, Queue, Mut!Return, Return, Mut!NoCall, NoCall
<1>13. Mut!Wake(t) => Wake(t)
  BY DEF Mut!Wake, Wake, Mut!Return, Return, Mut!NoCall, NoCall
<1>14. Mut!PopAll(t) => PopAll(t)
  BY DEF Mut!PopAll, PopAll, Mut!ToSet, ToSet, Mut!Queue, Queue, Mut!Return, Return,
         Mut!NoCall, NoCall
<1>15. Mut!Expire(t) => Expire(t)
  BY DEF Mut!Expire, Expire
<1>16. Mut!WqStep(t) => WqStep(t)
  BY <1>9, <1>10, <1>11, <1>12, <1>13, <1>14, <1>15 DEF Mut!WqStep, Mut!WqRun, WqStep, WqRun
<1> QED BY <1>4, <1>5, <1>6, <1>7, <1>8, <1>16 DEF MutCall

(* A mutex that was just initialised has no holder.                         *)
LEMMA MutStart ==
  ASSUME WqInit(Mut!Queues), Mut!LockInit
  PROVE  MutInv
<1>1. Own(MutLocations)
  BY DEF Own, MutLocations, InQueue
<1>2. WqInv(Mut!Queues, MutLocations)
  BY <1>1, QueuesStart
<1>3. MutTypes /\ Mut!HolderOwns /\ PlainHolder
  BY WaitQueueAssumption
     DEF Mut!LockInit, MutTypes, Mut!HolderOwns, PlainHolder, WaitQueueAssumption
<1> QED BY <1>2, <1>3 DEF MutInv

(* What a call does to the mutex: nothing, takes it from nobody, takes it   *)
(* once more, gives one acquisition back, or releases it.                   *)
Takes(t)   == /\ owner = None /\ owner' = t /\ depth' = 1
              /\ holds' = [holds EXCEPT ![t] = @ + 1] /\ pc'[t] = "run"
Retakes(t) == /\ recursive /\ owner = t /\ owner' = owner /\ depth' = depth + 1
              /\ holds' = [holds EXCEPT ![t] = @ + 1]
GivesBack(t) == /\ holds[t] > 0 /\ depth > 1 /\ depth' = depth - 1 /\ owner' = owner
                /\ holds' = [holds EXCEPT ![t] = @ - 1]
Releases(t) == /\ holds[t] > 0 /\ ~(depth > 1) /\ depth' = 0 /\ owner' = None
               /\ holds' = [holds EXCEPT ![t] = @ - 1]
KeepsPlain(t) == /\ UNCHANGED <<owner, depth, holds>>
                 /\ ~recursive /\ owner = t =>
                      /\ pc'[t] \in {"pop", "popall"}
                      /\ call'[t].woken = "run" /\ call'[t].expired = "run"

(* The calls do one of these.                                               *)
LEMMA MutCalls ==
  ASSUME MutInv, NEW t \in Threads, MutCall(t)
  PROVE  /\ Takes(t) \/ Retakes(t) \/ GivesBack(t) \/ Releases(t) \/ KeepsPlain(t)
         /\ recursive' = recursive
         /\ \A u \in Threads \ {t} : pc'[u] = pc[u] /\ call'[u] = call[u]
<1> USE DEF Mut!At, Mut!Step, Mut!Goto, Mut!Enter, Mut!Call, Mut!mVars, Mut!Wait, Mut!WaitTimed,
            Mut!WakeOne, Mut!WakeAll
<1>1. /\ pc \in [Threads -> MutLocations \cup InQueue]
      /\ call \in [Threads -> [queue : Mut!Queues \cup {None}, timed : BOOLEAN,
                               woken : MutLocations, expired : MutLocations]]
  BY DEF MutInv, WqInv, WqTypeOK, InQueue
<1>2. /\ owner = t <=> holds[t] > 0
      /\ pc[t] \in {"lock", "condwait", "condtimed"} /\ owner = t => recursive
      /\ holds[t] \in Nat
  BY DEF MutInv, PlainHolder, Mut!HolderOwns, MutTypes
<1>3. Mut!Take(t) /\ Mut!Step(t, "run") => Takes(t) \/ Retakes(t)
  BY <1>1 DEF Mut!Take, Mut!Acquired, Takes, Retakes
<1>4. ASSUME NEW l, holds[t] > 0, Mut!Release(t, l)
      PROVE  GivesBack(t) \/ Releases(t)
  BY <1>4 DEF Mut!Release, Mut!GivenBack, GivesBack, Releases
<1>5. CASE Mut!Lock(t)
  BY <1>1, <1>2, <1>5 DEF Mut!Lock, Mut!MayLock, KeepsPlain
<1>6. CASE Mut!TryLock(t)
  BY <1>1, <1>2, <1>3, <1>6 DEF Mut!TryLock, Mut!Takeable, Mut!Take, Mut!Acquired, KeepsPlain
<1>7. CASE Mut!MutexTrylock(t)
  BY <1>1, <1>3, <1>7 DEF Mut!MutexTrylock, Mut!Take, Mut!Acquired
<1>8. CASE Mut!Unlock(t) \/ Mut!CondWait(t)
  BY <1>1, <1>4, <1>8 DEF Mut!Unlock, Mut!CondWait, Mut!Release, Mut!GivenBack
<1>9. CASE Mut!CondSleep(t)
  BY <1>1, <1>2, <1>9 DEF Mut!CondSleep, KeepsPlain
<1>10. CASE Mut!Signal(t)
  BY <1>1, <1>10 DEF Mut!Signal, KeepsPlain
<1> QED BY <1>5, <1>6, <1>7, <1>8, <1>9, <1>10 DEF MutCall

(* Every step of the mutex keeps the invariant.                             *)
LEMMA MutStep ==
  ASSUME MutInv, Mut!Next
  PROVE  MutInv'
<1>1. PICK t \in Threads : MutCall(t) \/ (Mut!WqStep(t) /\ UNCHANGED Mut!mVars)
  BY DEF Mut!Next, MutCall
<1>2. /\ Own(MutLocations)
      /\ MutTypes /\ Mut!HolderOwns /\ PlainHolder
      /\ pc \in [Threads -> MutLocations \cup InQueue]
      /\ None \notin Threads
  BY WaitQueueAssumption
     DEF Own, MutLocations, InQueue, MutInv, WqInv, WqTypeOK, WaitQueueAssumption
<1>3. WqInv(Mut!Queues, MutLocations)'
  BY <1>1, <1>2, MutMoves, QueuesKept DEF MutInv
<1>4. CASE MutCall(t)
  <2>1. /\ Takes(t) \/ Retakes(t) \/ GivesBack(t) \/ Releases(t) \/ KeepsPlain(t)
        /\ recursive' = recursive
        /\ \A u \in Threads \ {t} : pc'[u] = pc[u] /\ call'[u] = call[u]
    BY <1>4, MutCalls
  <2>2. MutTypes'
    BY <1>2, <2>1 DEF MutTypes, Takes, Retakes, GivesBack, Releases, KeepsPlain
  <2>3. Mut!HolderOwns'
    <3>1. CASE Takes(t) \/ Retakes(t)
      BY <1>2, <3>1 DEF MutTypes, Mut!HolderOwns, Takes, Retakes
    <3>2. CASE GivesBack(t) \/ Releases(t)
      BY <1>2, <3>2 DEF MutTypes, Mut!HolderOwns, GivesBack, Releases
    <3>3. CASE KeepsPlain(t)
      BY <1>2, <3>3 DEF Mut!HolderOwns, KeepsPlain
    <3> QED BY <2>1, <3>1, <3>2, <3>3
  <2>4. PlainHolder'
    BY <1>2, <2>1 DEF PlainHolder, MutTypes, Takes, Retakes, GivesBack, Releases, KeepsPlain
  <2> QED BY <1>3, <2>2, <2>3, <2>4 DEF MutInv
<1>5. CASE WqStep(t) /\ UNCHANGED <<owner, depth, recursive, holds>>
  <2>1. MutTypes' /\ Mut!HolderOwns'
    BY <1>2, <1>5 DEF MutTypes, Mut!HolderOwns
  <2>2. PlainHolder'
    <3>1. /\ NoCall.woken = "run" /\ NoCall.expired = "run" /\ DOMAIN call = Threads
      BY DEF NoCall, Call, MutInv, WqInv, WqTypeOK
    <3>2. CASE UNCHANGED <<pc, call>>
      BY <1>2, <1>5, <3>2 DEF PlainHolder
    <3>3. CASE Moves(t)
      <4>1. /\ call' = call /\ pc[t] \in InQueue
            /\ pc[t] \in {"pop", "wake", "popall"} => pc' = [pc EXCEPT ![t] = "wake"]
            /\ \A u \in Threads \ {t} : pc'[u] = pc[u]
        BY <1>2, <3>3 DEF Moves
      <4>2. ASSUME ~recursive, NEW u \in Threads, owner = u
            PROVE  \/ pc'[u] = "run"
                   \/ /\ pc'[u] \in {"pop", "wake", "popall"}
                      /\ call'[u].woken = "run" /\ call'[u].expired = "run"
        <5>1. /\ pc[u] = "run" \/ pc[u] \in {"pop", "wake", "popall"}
              /\ pc[u] # "run" => call[u].woken = "run" /\ call[u].expired = "run"
          BY <1>2, <4>2 DEF PlainHolder
        <5>2. DOMAIN pc = Threads /\ "run" \notin InQueue
          BY <1>2 DEF InQueue
        <5> QED BY <4>1, <5>1, <5>2
      <4> QED BY <1>2, <1>5, <4>2 DEF PlainHolder
    <3>4. CASE Returns(t)
      <4>1. /\ call' = [call EXCEPT ![t] = NoCall] /\ pc[t] \in InQueue
            /\ pc' = [pc EXCEPT ![t] = call[t].woken] \/ pc' = [pc EXCEPT ![t] = call[t].expired]
        BY <3>4 DEF Returns, Return, Goto
      <4> QED BY <1>2, <1>5, <3>1, <4>1 DEF PlainHolder, InQueue
    <3> QED BY <1>5, <3>2, <3>3, <3>4, QueueSteps
  <2> QED BY <1>3, <2>1, <2>2 DEF MutInv
<1> QED BY <1>1, <1>4, <1>5, MutMoves DEF Mut!mVars
-----------------------------------------------------------------------------
(* The same in the composition, where another object may be the one in use. *)
MutAlways == /\ lock = "mutex" => MutInv
             /\ lock # "mutex" => Mut!LockInit

(* Whichever object a run uses, the invariant holds when it starts ...      *)
LEMMA MutAlwaysStart == Init => MutAlways
BY MutStart DEF Init, MutAlways

(* ... and after every step.                                                *)
LEMMA MutAlwaysStep == MutAlways /\ [Next]_vars => MutAlways'
<1> SUFFICES ASSUME MutAlways, [Next]_vars PROVE MutAlways'
  OBVIOUS
<1>1. CASE UNCHANGED vars
  <2>1. UNCHANGED <<lock, owner, depth, recursive, holds>> /\ UNCHANGED wqVars
    BY <1>1 DEF vars
  <2>2. Mut!LockInit => Mut!LockInit'
    BY <2>1 DEF Mut!LockInit
  <2>3. MutInv => MutInv'
    BY <2>1 DEF MutInv, WqInv, WqTypeOK, LinkedOnce, CallsNamed, MutTypes, Mut!HolderOwns,
                PlainHolder, wqVars
  <2> QED BY <2>1, <2>2, <2>3 DEF MutAlways
<1>2. CASE OnMut(Mut!Next) /\ UNCHANGED lock
  BY <1>2, MutStep DEF OnMut, MutAlways
<1>3. CASE lock # "mutex" /\ NoMut /\ UNCHANGED lock
  BY <1>3 DEF NoMut, MutAlways, Mut!LockInit
<1> QED BY <1>1, <1>2, <1>3 DEF Next, OnRw, OnSem, OnCom, OnNtf

(* At most one thread is between mutex_lock and mutex_unlock, as often as   *)
(* depth says, and a thread linked on the condition does not own a plain    *)
(* mutex (mutex_lock, mutex_unlock and condvar_wait in kernel/sync/sync.c). *)
THEOREM MutexExcludes == Spec => []HolderOwns
<1>1. MutAlways => HolderOwns
  <2>1. CASE lock = "mutex"
    <3>1. MutAlways => (~recursive => Mut!WaiterReleases)
      <4> HAVE MutAlways
      <4>1. "cond" \in DOMAIN waiters /\ LinkedOnce /\ PlainHolder
        BY <2>1 DEF MutAlways, MutInv, WqInv, WqTypeOK, Mut!Queues
      <4>2. \A t \in Threads : Mut!Contains(waiters["cond"], t) => pc[t] \in {"block", "unlink"}
        BY <4>1 DEF LinkedOnce, Mut!Contains, Contains
      <4> QED BY <4>1, <4>2 DEF PlainHolder, Mut!WaiterReleases
    <3> QED BY <2>1, <3>1 DEF MutAlways, MutInv, HolderOwns
  <2>2. CASE lock # "mutex"
    BY <2>2, WaitQueueAssumption
       DEF MutAlways, Mut!LockInit, Mut!HolderOwns, HolderOwns, WaitQueueAssumption
  <2> QED BY <2>1, <2>2
<1> QED BY <1>1, MutAlwaysStart, MutAlwaysStep, PTL DEF Spec
-----------------------------------------------------------------------------
(* The semaphore.                                                           *)

(* A thread holds a permit only between calls: one is taken with the step   *)
(* that returns and given back with the step that enters semaphore_post.    *)
SemInv == /\ WqInv(Sem!Queues, Sem!Locations)
          /\ count \in Nat
          /\ holding \subseteq Threads /\ late \subseteq Threads
          /\ \A t \in holding : pc[t] = "run"
          /\ count + Cardinality(holding) = Permits

(* The instance counts as this module does.                                 *)
LEMMA SemCounts ==
  ASSUME NEW S
  PROVE  Sem!Cardinality(S) = Cardinality(S)
BY DEF Sem!Cardinality, Cardinality

(* The steps of the semaphore, seen from the wait queues.                   *)
LEMMA SemMoves ==
  ASSUME NEW t \in Threads
  PROVE  /\ Sem!Try(t) \/ Sem!CheckDeadline(t) \/ Sem!TimedOut(t)
              \/ Sem!WaitCall(t) \/ Sem!TryWait(t) \/ Sem!Post(t)
            => LockStep(t, Sem!Queues, Sem!Locations)
         /\ Sem!Link(t) => Link(t)
         /\ Sem!Block(t) => Block(t)
         /\ Sem!Unlink(t) => Unlink(t)
         /\ Sem!Pop(t) => Pop(t)
         /\ Sem!Wake(t) => Wake(t)
         /\ Sem!Expire(t) => Expire(t)
<1> USE DEF Sem!At, At, Sem!Step, Step, Sem!Goto, Goto, Sem!Enter, Enter, Sem!Call, Call
<1>1. ASSUME NEW q \in Sem!Queues, NEW l \in Sem!Locations, NEW m \in Sem!Locations,
             Sem!Wait(t, q, l) \/ Sem!WaitTimed(t, q, l, m) \/ Sem!WakeOne(t, q, l)
      PROVE  Enters(t, Sem!Queues, Sem!Locations)
  BY <1>1 DEF Sem!Wait, Sem!WaitTimed, Sem!WakeOne, Enters
<1>2. "wq" \in Sem!Queues /\ \A l \in {"run", "loop", "gone", "check"} : l \in Sem!Locations
  BY DEF Sem!Queues, Sem!Locations
<1>3. Sem!Try(t) => LockStep(t, Sem!Queues, Sem!Locations)
  BY <1>1, <1>2 DEF Sem!Try, LockStep
<1>4. Sem!CheckDeadline(t) => LockStep(t, Sem!Queues, Sem!Locations)
  BY <1>1, <1>2 DEF Sem!CheckDeadline, LockStep
<1>5. Sem!TimedOut(t) => LockStep(t, Sem!Queues, Sem!Locations)
  BY <1>2 DEF Sem!TimedOut, LockStep
<1>6. Sem!WaitCall(t) \/ Sem!TryWait(t) => LockStep(t, Sem!Queues, Sem!Locations)
  BY <1>2 DEF Sem!WaitCall, Sem!TryWait, LockStep
<1>7. Sem!Post(t) => LockStep(t, Sem!Queues, Sem!Locations)
  BY <1>1, <1>2 DEF Sem!Post, LockStep
<1>8. Sem!Link(t) => Link(t)
  BY DEF Sem!Link, Link, Sem!Queue, Queue
<1>9. Sem!Block(t) => Block(t)
  BY DEF Sem!Block, Block
<1>10. Sem!Unlink(t) => Unlink(t)
  BY DEF Sem!Unlink, Unlink, Sem!RemoveFirst, RemoveFirst, Sem!RemoveAt, RemoveAt,
         Sem!SelectInSeq, SelectInSeq, Sem!Min, Min, Sem!Queue, Queue, Sem!Return, Return,
         Sem!Contains, Contains, Sem!NoCall, NoCall
<1>11. Sem!Pop(t) => Pop(t)
  BY DEF Sem!Pop, Pop, Sem!Queue, Queue, Sem!Return, Return, Sem!NoCall, NoCall
<1>12. Sem!Wake(t) => Wake(t)
  BY DEF Sem!Wake, Wake, Sem!Return, Return, Sem!NoCall, NoCall
<1>13. Sem!Expire(t) => Expire(t)
  BY DEF Sem!Expire, Expire
<1> QED BY <1>3, <1>4, <1>5, <1>6, <1>7, <1>8, <1>9, <1>10, <1>11, <1>12, <1>13

(* A semaphore that was just initialised has all its permits in the count.  *)
LEMMA SemStart ==
  ASSUME WqInit(Sem!Queues), Sem!LockInit
  PROVE  SemInv
<1>1. Own(Sem!Locations)
  BY DEF Own, Sem!Locations, InQueue
<1>2. WqInv(Sem!Queues, Sem!Locations)
  BY <1>1, QueuesStart
<1>3. Cardinality({}) = 0 /\ Permits \in Nat
  BY FS_EmptySet, SyncAssumption DEF Sem!SemaphoreAssumption
<1> QED BY <1>2, <1>3 DEF Sem!LockInit, SemInv

(* Taking a permit and posting it move it between the count and a thread.   *)
LEMMA SemPermitsKept ==
  ASSUME SemInv, NEW t \in Threads,
         \/ UNCHANGED <<count, holding>>
         \/ t \notin holding /\ count > 0 /\ count' = count - 1 /\ holding' = holding \cup {t}
         \/ t \in holding /\ count' = count + 1 /\ holding' = holding \ {t}
  PROVE  count' \in Nat /\ holding' \subseteq Threads /\ count' + Cardinality(holding') = Permits
<1> DEFINE H == holding
<1>1. IsFiniteSet(H) /\ Cardinality(H) \in Nat
  BY WaitQueueAssumption, FS_Subset, FS_CardinalityType DEF SemInv, WaitQueueAssumption
<1>2. /\ t \notin H => Cardinality(H \cup {t}) = Cardinality(H) + 1
      /\ t \in H => Cardinality(H \ {t}) = Cardinality(H) - 1
  BY <1>1, FS_AddElement, FS_RemoveElement
<1>3. count \in Nat /\ holding \subseteq Threads /\ count + Cardinality(H) = Permits
  BY DEF SemInv
<1>4. CASE UNCHANGED <<count, holding>>
  BY <1>3, <1>4
<1>5. CASE t \notin holding /\ count > 0 /\ count' = count - 1 /\ holding' = holding \cup {t}
  <2>1. Cardinality(holding') = Cardinality(H) + 1
    BY <1>2, <1>5
  <2>2. count - 1 \in Nat /\ (count - 1) + (Cardinality(H) + 1) = Permits
    BY <1>1, <1>3, <1>5
  <2> QED BY <1>3, <1>5, <2>1, <2>2
<1>6. CASE t \in holding /\ count' = count + 1 /\ holding' = holding \ {t}
  <2>1. Cardinality(holding') = Cardinality(H) - 1
    BY <1>2, <1>6
  <2>2. count + 1 \in Nat /\ (count + 1) + (Cardinality(H) - 1) = Permits
    BY <1>1, <1>3, <1>6
  <2> QED BY <1>3, <1>6, <2>1, <2>2
<1> QED BY <1>4, <1>5, <1>6

(* Every step of the semaphore keeps the invariant.                         *)
LEMMA SemStep ==
  ASSUME SemInv, Sem!Next
  PROVE  SemInv'
<1> DEFINE LockOp(t) == \/ Sem!Try(t) \/ Sem!CheckDeadline(t) \/ Sem!TimedOut(t)
                        \/ Sem!WaitCall(t) \/ Sem!TryWait(t) \/ Sem!Post(t)
<1>1. PICK t \in Threads :
        \/ LockOp(t)
        \/ (Sem!Link(t) \/ Sem!Block(t) \/ Sem!Unlink(t) \/ Sem!Pop(t) \/ Sem!Wake(t)
            \/ Sem!Expire(t)) /\ UNCHANGED Sem!semVars
        \/ Sem!Pass(t)
  BY DEF Sem!Next, Sem!ThreadStep, Sem!TickWake
<1>2. /\ Own(Sem!Locations)
      /\ holding \subseteq Threads /\ late \subseteq Threads
      /\ \A u \in holding : pc[u] = "run"
      /\ pc \in [Threads -> Sem!Locations \cup InQueue]
  BY DEF Own, Sem!Locations, InQueue, SemInv, WqInv, WqTypeOK
<1>3. CASE LockOp(t)
  <2>1. WqInv(Sem!Queues, Sem!Locations)'
    BY <1>2, <1>3, SemMoves, QueuesKept DEF SemInv
  <2>2. /\ \A u \in Threads \ {t} : pc'[u] = pc[u]
        /\ late' \subseteq late
        /\ \/ UNCHANGED <<count, holding>> /\ t \notin holding
           \/ /\ t \notin holding /\ count > 0 /\ count' = count - 1
              /\ holding' = holding \cup {t} /\ pc'[t] = "run"
           \/ t \in holding /\ count' = count + 1 /\ holding' = holding \ {t}
    BY <1>2, <1>3 DEF Sem!Try, Sem!CheckDeadline, Sem!TimedOut, Sem!WaitCall, Sem!TryWait, Sem!Post,
       Sem!Take, Sem!semVars, Sem!At, Sem!Step, Sem!Goto, Sem!Enter, Sem!Wait, Sem!WaitTimed,
       Sem!WakeOne
  <2>3. \A u \in holding' : pc'[u] = "run"
    BY <1>2, <2>2
  <2> QED BY <1>2, <2>1, <2>2, <2>3, SemPermitsKept DEF SemInv
<1>4. CASE WqStep(t) /\ UNCHANGED <<count, holding, late>>
  <2>1. WqInv(Sem!Queues, Sem!Locations)'
    BY <1>2, <1>4, QueuesKept DEF SemInv
  <2>2. \A u \in holding : pc'[u] = pc[u]
    BY <1>2, <1>4, QueueSteps DEF Moves, Returns, Return, Goto, InQueue
  <2> QED BY <1>2, <1>4, <2>1, <2>2 DEF SemInv
<1>5. CASE Sem!Pass(t)
  <2>1. WqInv(Sem!Queues, Sem!Locations)'
    BY <1>2, <1>5, QueuesKept DEF SemInv, Sem!Pass, Sem!wqVars, wqVars
  <2> QED BY <1>2, <1>5, <2>1 DEF SemInv, Sem!Pass, Sem!wqVars
<1> QED BY <1>1, <1>3, <1>4, <1>5, SemMoves DEF WqStep, WqRun, Sem!semVars
-----------------------------------------------------------------------------
(* The same in the composition, where another object may be the one in use. *)
SemAlways == /\ lock = "semaphore" => SemInv
             /\ lock # "semaphore" => count = Permits /\ holding = {}

(* Whichever object a run uses, the invariant holds when it starts ...      *)
LEMMA SemAlwaysStart == Init => SemAlways
BY SemStart DEF Init, SemAlways, Sem!LockInit

(* ... and after every step.                                                *)
LEMMA SemAlwaysStep == SemAlways /\ [Next]_vars => SemAlways'
<1> SUFFICES ASSUME SemAlways, [Next]_vars PROVE SemAlways'
  OBVIOUS
<1>1. CASE UNCHANGED vars
  <2>1. UNCHANGED <<lock, count, holding, late>> /\ UNCHANGED wqVars
    BY <1>1 DEF vars
  <2>2. SemInv => SemInv'
    BY <2>1 DEF SemInv, WqInv, WqTypeOK, LinkedOnce, CallsNamed, wqVars
  <2> QED BY <2>1, <2>2 DEF SemAlways
<1>2. CASE OnSem(Sem!Next) /\ UNCHANGED lock
  BY <1>2, SemStep DEF OnSem, SemAlways
<1>3. CASE lock # "semaphore" /\ NoSem /\ UNCHANGED lock
  BY <1>3 DEF NoSem, SemAlways
<1> QED BY <1>1, <1>2, <1>3 DEF Next, OnRw, OnCom, OnMut, OnNtf

(* However waits, timeouts and posts interleave, every permit is in the     *)
(* count or held by exactly one thread (semaphore_wait,                     *)
(* semaphore_wait_timeout, semaphore_trywait and semaphore_post).           *)
THEOREM SemaphoreConserves == Spec => []PermitsConserved
<1>1. SemAlways => PermitsConserved
  <2>1. Cardinality({}) = 0 /\ Permits \in Nat
    BY FS_EmptySet, SyncAssumption DEF Sem!SemaphoreAssumption
  <2>2. holding = {} => Cardinality(holding) = 0
    BY <2>1
  <2>3. Sem!Cardinality(holding) = Cardinality(holding)
    BY SemCounts
  <2> QED BY <2>1, <2>2, <2>3 DEF SemAlways, SemInv, PermitsConserved, Sem!PermitsConserved
<1> QED BY <1>1, SemAlwaysStart, SemAlwaysStep, PTL DEF Spec
-----------------------------------------------------------------------------
(* The completion and the notification object keep their types and the      *)
(* queues.                                                                  *)
ComLocations == {"run", "loop", "check"}
ComInv == /\ WqInv(Com!Queues, ComLocations)
          /\ done \in BOOLEAN /\ late \subseteq Threads
          /\ result \in [Threads -> {None, "ok", "timedout"}]

NtfLocations == {"run", "store", "signalled", "poll", "reload", "clear", "more"}
NtfInv == /\ WqInv(Ntf!Queues, NtfLocations)
          /\ bits \subseteq Bits /\ owed \subseteq Bits
          /\ local \in [Threads -> SUBSET Bits] /\ arg \in [Threads -> SUBSET Bits]
          /\ expired \subseteq Threads

(* The calls of the two objects that change their state.                    *)
ComCall(t) == Com!Try(t) \/ Com!CheckDeadline(t) \/ Com!WaitCall(t) \/ Com!Done(t)
NtfCall(t) == \/ Ntf!SignalStore(t) \/ Ntf!Poll(t) \/ Ntf!Reload(t) \/ Ntf!Clear(t) \/ Ntf!More(t)
              \/ \E b \in SUBSET Bits : Ntf!SignalLoad(t, b) \/ Ntf!WaitCall(t, b)

(* The steps of a completion, seen from the wait queues.                    *)
LEMMA ComMoves ==
  ASSUME NEW t \in Threads
  PROVE  /\ ComCall(t) => LockStep(t, Com!Queues, ComLocations)
         /\ Com!Link(t) \/ Com!Block(t) \/ Com!Unlink(t) \/ Com!PopAll(t) \/ Com!Expire(t)
            => WqStep(t)
<1> USE DEF Com!At, At, Com!Step, Step, Com!Goto, Goto, Com!Enter, Enter, Com!Call, Call
<1>1. ASSUME NEW q \in Com!Queues, NEW l \in ComLocations, NEW m \in ComLocations,
             Com!Wait(t, q, l) \/ Com!WaitTimed(t, q, l, m) \/ Com!WakeAll(t, q, l)
      PROVE  Enters(t, Com!Queues, ComLocations)
  BY <1>1 DEF Com!Wait, Com!WaitTimed, Com!WakeAll, Enters
<1>2. "wq" \in Com!Queues /\ \A l \in {"run", "loop", "check"} : l \in ComLocations
  BY DEF Com!Queues, ComLocations
<1>3. Com!Try(t) => LockStep(t, Com!Queues, ComLocations)
  BY <1>1, <1>2 DEF Com!Try, Com!Returns, LockStep
<1>4. Com!CheckDeadline(t) => LockStep(t, Com!Queues, ComLocations)
  BY <1>1, <1>2 DEF Com!CheckDeadline, Com!Returns, LockStep
<1>5. Com!WaitCall(t) \/ Com!Done(t) => LockStep(t, Com!Queues, ComLocations)
  BY <1>1, <1>2 DEF Com!WaitCall, Com!Done, LockStep
<1>6. Com!Link(t) => Link(t)
  BY DEF Com!Link, Link, Com!Queue, Queue
<1>7. Com!Block(t) => Block(t)
  BY DEF Com!Block, Block
<1>8. Com!Unlink(t) => Unlink(t)
  BY DEF Com!Unlink, Unlink, Com!RemoveFirst, RemoveFirst, Com!RemoveAt, RemoveAt,
         Com!SelectInSeq, SelectInSeq, Com!Min, Min, Com!Queue, Queue, Com!Return, Return,
         Com!Contains, Contains, Com!NoCall, NoCall
<1>9. Com!PopAll(t) => PopAll(t)
  BY DEF Com!PopAll, PopAll, Com!ToSet, ToSet, Com!Queue, Queue, Com!Return, Return,
         Com!NoCall, NoCall
<1>10. Com!Expire(t) => Expire(t)
  BY DEF Com!Expire, Expire
<1> QED BY <1>3, <1>4, <1>5, <1>6, <1>7, <1>8, <1>9, <1>10 DEF ComCall, WqStep, WqRun

(* The steps of a notification object, seen from the wait queues.           *)
LEMMA NtfMoves ==
  ASSUME NEW t \in Threads
  PROVE  /\ NtfCall(t) => LockStep(t, Ntf!Queues, NtfLocations)
         /\ Ntf!Link(t) \/ Ntf!Block(t) \/ Ntf!Unlink(t) \/ Ntf!PopAll(t) \/ Ntf!Expire(t)
            => WqStep(t)
<1> USE DEF Ntf!At, At, Ntf!Step, Step, Ntf!Goto, Goto, Ntf!Enter, Enter, Ntf!Call, Call
<1>1. ASSUME NEW q \in Ntf!Queues, NEW l \in NtfLocations, NEW m \in NtfLocations,
             Ntf!WaitTimed(t, q, l, m) \/ Ntf!Wait(t, q, l) \/ Ntf!WakeAll(t, q, l)
      PROVE  Enters(t, Ntf!Queues, NtfLocations)
  BY <1>1 DEF Ntf!Wait, Ntf!WaitTimed, Ntf!WakeAll, Enters
<1>2. "wq" \in Ntf!Queues
      /\ \A l \in {"run", "store", "poll", "reload", "clear", "more"} : l \in NtfLocations
  BY DEF Ntf!Queues, NtfLocations
<1>3. Ntf!SignalStore(t) => LockStep(t, Ntf!Queues, NtfLocations)
  BY <1>1, <1>2 DEF Ntf!SignalStore, LockStep
<1>4. Ntf!Poll(t) => LockStep(t, Ntf!Queues, NtfLocations)
  BY <1>2 DEF Ntf!Poll, LockStep
<1>5. Ntf!Reload(t) \/ Ntf!Clear(t) => LockStep(t, Ntf!Queues, NtfLocations)
  BY <1>2 DEF Ntf!Reload, Ntf!Clear, LockStep
<1>6. Ntf!More(t) => LockStep(t, Ntf!Queues, NtfLocations)
  BY <1>1, <1>2 DEF Ntf!More, LockStep
<1>7. ASSUME NEW b, Ntf!SignalLoad(t, b) \/ Ntf!WaitCall(t, b)
      PROVE  LockStep(t, Ntf!Queues, NtfLocations)
  BY <1>2, <1>7 DEF Ntf!SignalLoad, Ntf!WaitCall, LockStep
<1>8. Ntf!Link(t) => Link(t)
  BY DEF Ntf!Link, Link, Ntf!Queue, Queue
<1>9. Ntf!Block(t) => Block(t)
  BY DEF Ntf!Block, Block
<1>10. Ntf!Unlink(t) => Unlink(t)
  BY DEF Ntf!Unlink, Unlink, Ntf!RemoveFirst, RemoveFirst, Ntf!RemoveAt, RemoveAt,
         Ntf!SelectInSeq, SelectInSeq, Ntf!Min, Min, Ntf!Queue, Queue, Ntf!Return, Return,
         Ntf!Contains, Contains, Ntf!NoCall, NoCall
<1>11. Ntf!PopAll(t) => PopAll(t)
  BY DEF Ntf!PopAll, PopAll, Ntf!ToSet, ToSet, Ntf!Queue, Queue, Ntf!Return, Return,
         Ntf!NoCall, NoCall
<1>12. Ntf!Expire(t) => Expire(t)
  BY DEF Ntf!Expire, Expire
<1> QED BY <1>3, <1>4, <1>5, <1>6, <1>7, <1>8, <1>9, <1>10, <1>11, <1>12
        DEF NtfCall, WqStep, WqRun

(* Initially ...                                                            *)
LEMMA KeepStart ==
  /\ WqInit(Com!Queues) /\ Com!LockInit => ComInv
  /\ WqInit(Ntf!Queues) /\ Ntf!ObjInit => NtfInv
<1>1. Own(ComLocations) /\ Own(NtfLocations)
  BY DEF Own, ComLocations, NtfLocations, InQueue
<1> QED BY <1>1, QueuesStart DEF Com!LockInit, Ntf!ObjInit, ComInv, NtfInv

(* ... and after every step of a completion ...                             *)
LEMMA ComStep ==
  ASSUME ComInv, Com!Next
  PROVE  ComInv'
<1>1. PICK t \in Threads :
        \/ ComCall(t)
        \/ (Com!Link(t) \/ Com!Block(t) \/ Com!Unlink(t) \/ Com!PopAll(t) \/ Com!Expire(t))
           /\ UNCHANGED Com!cVars
        \/ Com!Pass(t)
  BY DEF Com!Next, Com!ThreadStep, Com!TickWake, ComCall
<1>2. Own(ComLocations)
  BY DEF Own, ComLocations, InQueue
<1>3. Com!Pass(t) => UNCHANGED wqVars
  BY DEF Com!Pass, Com!wqVars, wqVars
<1>4. WqInv(Com!Queues, ComLocations)'
  BY <1>1, <1>2, <1>3, ComMoves, QueuesKept DEF ComInv
<1>5. /\ done' \in BOOLEAN /\ late' \subseteq Threads
      /\ result' \in [Threads -> {None, "ok", "timedout"}]
  BY <1>1 DEF ComInv, ComCall, Com!Try, Com!CheckDeadline, Com!WaitCall, Com!Done, Com!Pass,
              Com!Returns, Com!cVars
<1> QED BY <1>4, <1>5 DEF ComInv

(* ... or of a notification object.                                         *)
LEMMA NtfStep ==
  ASSUME NtfInv, Ntf!Next
  PROVE  NtfInv'
<1>1. PICK t \in Threads :
        \/ NtfCall(t)
        \/ (Ntf!Link(t) \/ Ntf!Block(t) \/ Ntf!Unlink(t) \/ Ntf!PopAll(t) \/ Ntf!Expire(t))
           /\ UNCHANGED Ntf!ntfVars
        \/ Ntf!Pass(t)
  BY DEF Ntf!Next, Ntf!InCall, Ntf!TickWake, NtfCall
<1>2. Own(NtfLocations)
  BY DEF Own, NtfLocations, InQueue
<1>3. Ntf!Pass(t) => UNCHANGED wqVars
  BY DEF Ntf!Pass, Ntf!wqVars, wqVars
<1>4. WqInv(Ntf!Queues, NtfLocations)'
  BY <1>1, <1>2, <1>3, NtfMoves, QueuesKept DEF NtfInv
<1>5. /\ bits' \subseteq Bits /\ owed' \subseteq Bits
      /\ local' \in [Threads -> SUBSET Bits] /\ arg' \in [Threads -> SUBSET Bits]
      /\ expired' \subseteq Threads
  <2> USE DEF NtfInv, Ntf!Forget, Ntf!Load
  <2>1. CASE Ntf!SignalStore(t)
    BY <2>1 DEF Ntf!SignalStore
  <2>2. CASE Ntf!Poll(t)
    BY <2>2 DEF Ntf!Poll
  <2>3. CASE Ntf!Reload(t) \/ Ntf!Clear(t)
    BY <2>3 DEF Ntf!Reload, Ntf!Clear
  <2>4. CASE Ntf!More(t)
    BY <2>4 DEF Ntf!More
  <2>5. ASSUME NEW b \in SUBSET Bits, Ntf!SignalLoad(t, b) \/ Ntf!WaitCall(t, b)
        PROVE  /\ bits' \subseteq Bits /\ owed' \subseteq Bits
               /\ local' \in [Threads -> SUBSET Bits] /\ arg' \in [Threads -> SUBSET Bits]
               /\ expired' \subseteq Threads
    BY <2>5 DEF Ntf!SignalLoad, Ntf!WaitCall
  <2>6. CASE UNCHANGED Ntf!ntfVars \/ Ntf!Pass(t)
    BY <2>6 DEF Ntf!ntfVars, Ntf!Pass
  <2> QED BY <1>1, <2>1, <2>2, <2>3, <2>4, <2>5, <2>6 DEF NtfCall
<1> QED BY <1>4, <1>5 DEF NtfInv
-----------------------------------------------------------------------------
(* What always holds of the five objects together.                          *)
KeepAlways == /\ lock \in {"rwlock", "semaphore", "completion", "mutex", "notify"}
              /\ lock = "completion" => ComInv
              /\ lock = "notify" => NtfInv

SyncInv == RwAlways /\ SemAlways /\ MutAlways /\ KeepAlways

(* A step of one object keeps the invariant of that object.                 *)
LEMMA KeepAlwaysStep == KeepAlways /\ [Next]_vars => KeepAlways'
<1> SUFFICES ASSUME KeepAlways, [Next]_vars PROVE KeepAlways'
  OBVIOUS
<1>1. CASE UNCHANGED vars
  <2>1. UNCHANGED <<lock, done, late, result, bits, local, arg, owed, expired>>
        /\ UNCHANGED wqVars
    BY <1>1 DEF vars
  <2>2. /\ ComInv => ComInv'
        /\ NtfInv => NtfInv'
    BY <2>1 DEF ComInv, NtfInv, WqInv, WqTypeOK, LinkedOnce, CallsNamed, wqVars
  <2> QED BY <2>1, <2>2 DEF KeepAlways
<1>2. CASE OnCom(Com!Next) /\ UNCHANGED lock
  BY <1>2, ComStep DEF OnCom, KeepAlways
<1>3. CASE OnNtf(Ntf!Next) /\ UNCHANGED lock
  BY <1>3, NtfStep DEF OnNtf, KeepAlways
<1>4. CASE lock \notin {"completion", "notify"} /\ UNCHANGED lock
  BY <1>4 DEF KeepAlways
<1> QED BY <1>1, <1>2, <1>3, <1>4 DEF Next, OnRw, OnSem, OnMut

(* The inductive invariant of the run, whichever object it is about.        *)
THEOREM SyncInvariant == Spec => []SyncInv
<1>1. Init => SyncInv
  BY RwAlwaysStart, SemAlwaysStart, MutAlwaysStart, KeepStart DEF Init, KeepAlways, SyncInv
<1>2. SyncInv /\ [Next]_vars => SyncInv'
  BY RwAlwaysStep, SemAlwaysStep, MutAlwaysStep, KeepAlwaysStep DEF SyncInv
<1> QED BY <1>1, <1>2, PTL DEF Spec

(* The variables of the object in use keep their types: no count goes below *)
(* zero, and no call returns to a location of another object.               *)
THEOREM SyncTypeCorrect == Spec => []TypeOK
<1>1. SyncInv => TypeOK
  <2>1. RwAlways => (lock = "rwlock" => Rw!TypeOK)
    BY RwSafe DEF RwAlways
  <2>2. SemAlways => (lock = "semaphore" => Sem!TypeOK)
    BY DEF SemAlways, SemInv, WqInv, WqTypeOK, Sem!WqTypeOK, Sem!TypeOK
  <2>3. MutAlways => (lock = "mutex" => Mut!TypeOK)
    BY DEF MutAlways, MutInv, MutTypes, MutLocations, WqInv, WqTypeOK, Mut!WqTypeOK, Mut!TypeOK
  <2>4. KeepAlways => (lock = "completion" => Com!TypeOK) /\ (lock = "notify" => Ntf!TypeOK)
    BY DEF KeepAlways, ComInv, ComLocations, NtfInv, NtfLocations, WqInv, WqTypeOK,
           Com!WqTypeOK, Com!TypeOK, Ntf!WqTypeOK, Ntf!TypeOK
  <2> QED BY <2>1, <2>2, <2>3, <2>4 DEF SyncInv, TypeOK
<1> QED BY <1>1, SyncInvariant, PTL

(* A wait queue node is never linked twice, and a linked thread is inside   *)
(* the wait that linked it (waitq_wait, waitq_wait_timeout,                 *)
(* waitq_wake_one, waitq_wake_all in kernel/sched/sched.c).                 *)
THEOREM NodesLinkedOnce == Spec => []LinkedOnce
<1>1. SyncInv => LinkedOnce
  BY DEF SyncInv, RwAlways, SemAlways, MutAlways, KeepAlways, RwInv, SemInv, MutInv, ComInv,
         NtfInv, WqInv
<1> QED BY <1>1, SyncInvariant, PTL
-----------------------------------------------------------------------------
(* A waiter of a completion that is done is not in the wait and never will  *)
(* be told that its time ran out.                                           *)
Served(t) == /\ lock = "completion" /\ done
             /\ result[t] # "timedout" /\ pc[t] \in {"run", "loop"}

(* It stays so: the flag is looked at before the deadline.                  *)
LEMMA ServedStays ==
  ASSUME SyncInv, [Next]_vars, NEW t \in Waiters, Served(t)
  PROVE  Served(t)'
<1>1. /\ pc \in [Threads -> ComLocations \cup InQueue]
      /\ result \in [Threads -> {None, "ok", "timedout"}] /\ t \in Threads
      /\ pc[t] \notin InQueue
  BY SyncAssumption DEF SyncInv, KeepAlways, ComInv, WqInv, WqTypeOK, InQueue, Served,
                        Com!CompletionAssumption
<1>2. CASE UNCHANGED vars
  BY <1>2 DEF vars, wqVars, Served
<1>3. CASE OnCom(Com!Next) /\ UNCHANGED lock
  <2>1. PICK u \in Threads :
          \/ ComCall(u)
          \/ (Com!Link(u) \/ Com!Block(u) \/ Com!Unlink(u) \/ Com!PopAll(u) \/ Com!Expire(u))
             /\ UNCHANGED Com!cVars
          \/ Com!Pass(u)
    BY <1>3 DEF OnCom, Com!Next, Com!ThreadStep, Com!TickWake, ComCall
  <2>2. CASE ComCall(u)
    <3>1. CASE Com!Try(u)
      BY <1>1, <1>3, <3>1 DEF Served, Com!Try, Com!Returns, Com!At, Com!Step, Com!Goto
    <3>2. CASE Com!CheckDeadline(u)
      BY <1>1, <1>3, <3>2 DEF Served, Com!CheckDeadline, Com!Returns, Com!At, Com!Step, Com!Goto,
                              Com!WaitTimed, Com!Enter, Com!cVars
    <3>3. CASE Com!WaitCall(u)
      BY <1>1, <1>3, <3>3 DEF Served, Com!WaitCall, Com!At, Com!Step, Com!Goto, Com!cVars
    <3>4. CASE Com!Done(u)
      BY <3>4 DEF Served, Com!Done
    <3> QED BY <2>2, <3>1, <3>2, <3>3, <3>4 DEF ComCall
  <2>3. CASE WqStep(u) /\ UNCHANGED Com!cVars
    <3>1. pc'[t] = pc[t]
      BY <1>1, <2>3, QueueSteps DEF Moves, Returns, Return, Goto
    <3> QED BY <1>3, <2>3, <3>1 DEF Served, Com!cVars
  <2>4. CASE Com!Pass(u)
    BY <1>3, <2>4 DEF Served, Com!Pass, Com!wqVars
  <2> QED BY <2>1, <2>2, <2>3, <2>4, ComMoves
<1> QED BY <1>2, <1>3 DEF Next, OnRw, OnSem, OnMut, OnNtf, Served

(* "Completion survives post-before-wait": a wait that starts on a          *)
(* completion already done never times out, however late its deadline is    *)
(* looked at (completion_wait_timeout and completion_done).                 *)
THEOREM CompletionSurvives == Spec /\ [](lock = "completion") => Com!PostBeforeWait
<1> SUFFICES ASSUME NEW t \in Waiters
             PROVE  Spec /\ [](lock = "completion") =>
                      [](pc[t] = "run" /\ result[t] = None /\ done => [](result[t] # "timedout"))
  BY DEF Com!PostBeforeWait
<1>1. /\ lock = "completion" /\ pc[t] = "run" /\ result[t] = None /\ done => Served(t)
      /\ Served(t) => result[t] # "timedout"
  BY SyncAssumption DEF Served, Com!CompletionAssumption
<1>2. SyncInv /\ [Next]_vars /\ Served(t) => Served(t)'
  BY ServedStays
<1> QED BY <1>1, <1>2, SyncInvariant, PTL DEF Spec
=============================================================================
