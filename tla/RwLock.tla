-------------------------------- MODULE RwLock --------------------------------
(***************************************************************************)
(* The reader-writer lock of kernel/sync/sync.c: a reader count, a writer  *)
(* flag and a count of the writers that wait, under a spinlock, with one   *)
(* wait queue for each side.                                               *)
(***************************************************************************)
EXTENDS WaitQueue

VARIABLES readers, writer, waitingWriters,
          mode        \* thread -> what it holds (history of the calls)

rwVars == <<readers, writer, waitingWriters, mode>>
vars   == <<wqVars, rwVars>>

Locations == {"run", "rloop", "wloop"}
Modes     == {"none", "read", "write"}
Queues    == {"rq", "wq"}

TypeOK == /\ WqTypeOK(Queues, Locations)
          /\ readers \in 0..Cardinality(Threads)
          /\ writer \in BOOLEAN
          /\ waitingWriters \in 0..Cardinality(Threads)
          /\ mode \in [Threads -> Modes]

LockInit == /\ readers = 0 /\ writer = FALSE /\ waitingWriters = 0
            /\ mode = [t \in Threads |-> "none"]

Init == WqInit(Queues) /\ LockInit

\* mutant: a reader does not look at the queued writers
ReadFree_Greedy == ~writer

ReadFree  == ~writer /\ waitingWriters = 0

\* mutant: a writer does not look at the readers
WriteFree_Greedy == ~writer

WriteFree == ~writer /\ readers = 0

ReadLock(t) == At(t, "run") /\ mode[t] = "none" /\ Step(t, "rloop") /\ UNCHANGED rwVars

(* One turn of read_lock's loop.                                           *)
ReadTry(t) ==
  /\ At(t, "rloop")
  /\ IF ReadFree
       THEN /\ readers' = readers + 1
            /\ mode' = [mode EXCEPT ![t] = "read"]
            /\ Step(t, "run") /\ UNCHANGED <<writer, waitingWriters>>
       ELSE Wait(t, "rq", "rloop") /\ UNCHANGED rwVars

(* The last reader wakes one writer.                                       *)
ReadUnlock(t) ==
  /\ At(t, "run") /\ mode[t] = "read"
  /\ readers' = IF readers = 0 THEN 0 ELSE readers - 1
  /\ mode' = [mode EXCEPT ![t] = "none"]
  /\ IF readers' = 0 THEN WakeOne(t, "wq", "run") ELSE Step(t, "run")
  /\ UNCHANGED <<writer, waitingWriters>>

\* mutant: a writer that arrives is not counted
WriteLock_Uncounted(t) ==
  /\ At(t, "run") /\ mode[t] = "none"
  /\ Step(t, "wloop") /\ UNCHANGED rwVars

WriteLock(t) ==
  /\ At(t, "run") /\ mode[t] = "none"
  /\ waitingWriters' = waitingWriters + 1
  /\ Step(t, "wloop") /\ UNCHANGED <<readers, writer, mode>>

\* mutant: a writer that gets the lock is still counted as waiting
WriteTry_StillCounted(t) ==
  /\ At(t, "wloop")
  /\ IF WriteFree
       THEN /\ writer' = TRUE
            /\ mode' = [mode EXCEPT ![t] = "write"]
            /\ Step(t, "run") /\ UNCHANGED <<readers, waitingWriters>>
       ELSE Wait(t, "wq", "wloop") /\ UNCHANGED rwVars

WriteTry(t) ==
  /\ At(t, "wloop")
  /\ IF WriteFree
       THEN /\ writer' = TRUE
            /\ waitingWriters' = waitingWriters - 1
            /\ mode' = [mode EXCEPT ![t] = "write"]
            /\ Step(t, "run") /\ UNCHANGED readers
       ELSE Wait(t, "wq", "wloop") /\ UNCHANGED rwVars

(* The writer passes the lock on to one queued writer, or to all readers.  *)
WriteUnlock(t) ==
  /\ At(t, "run") /\ mode[t] = "write"
  /\ writer' = FALSE
  /\ mode' = [mode EXCEPT ![t] = "none"]
  /\ IF waitingWriters > 0 THEN WakeOne(t, "wq", "run") ELSE WakeAll(t, "rq", "run")
  /\ UNCHANGED <<readers, waitingWriters>>

Next == \E t \in Threads :
          \/ ReadLock(t) \/ ReadTry(t) \/ ReadUnlock(t)
          \/ WriteLock(t) \/ WriteTry(t) \/ WriteUnlock(t)
          \/ (Link(t) \/ Block(t) \/ Unlink(t) \/ Pop(t) \/ Wake(t) \/ PopAll(t))
             /\ UNCHANGED rwVars

Spec == Init /\ [][Next]_vars
-----------------------------------------------------------------------------
Holding(m) == {t \in Threads : mode[t] = m}

(* read_lock and write_lock return only to any number of readers or to a   *)
(* single writer, however the wakeups fall, and the lock's counters say    *)
(* exactly who holds it.                                                   *)
RwExclusion == /\ Cardinality(Holding("write")) <= 1
               /\ Holding("write") # {} => Holding("read") = {}
               /\ readers = Cardinality(Holding("read"))
               /\ writer <=> Holding("write") # {}

(* waiting_writers counts the threads inside write_lock, so that readers   *)
(* are let in again once the last writer has had its turn.                 *)
InWriteLock == {t \in Threads : \/ pc[t] = "wloop"
                                \/ call[t].woken = "wloop"}
WritersCounted == waitingWriters = Cardinality(InWriteLock)

(* "a new reader waits if a writer is queued": no read_lock succeeds while *)
(* a thread is inside write_lock.                                          *)
NoReaderPasses == Cardinality(Holding("read")') > Cardinality(Holding("read"))
                    => InWriteLock = {}
WriterPreferred == [][NoReaderPasses]_vars
=============================================================================
