------------------------------- MODULE Channel -------------------------------
(***************************************************************************)
(* The byte channel of kernel/ipc/ipc.c: a ring buffer under a spinlock,   *)
(* writers that put in what fits and wait for room, readers that take what *)
(* is there, a close that ends both.  All waits are for one millisecond.   *)
(*                                                                         *)
(* A byte is the pair of its writer and its place in what that writer has  *)
(* to say; a write that was cut short is continued by the next.            *)
(***************************************************************************)
EXTENDS WaitQueue

CONSTANTS Writers, Readers,
          Timed,       \* the threads that pass a timeout, which may be over at any time
          Capacity,    \* bytes in the ring
          MaxWrite,    \* bound: bytes in one call
          MaxSent      \* bound: bytes accepted when a call to write is made

ASSUME ChannelAssumption ==
  /\ Writers \cup Readers = Threads /\ Writers \cap Readers = {}
  /\ Timed \subseteq Threads
  /\ Capacity \in Nat \ {0} /\ MaxWrite \in Nat /\ MaxSent \in Nat

VARIABLES ring, head, tail, closed,
          want,     \* thread -> bytes its call has still to transfer
          sent,     \* writer -> bytes of its calls that were accepted
          chunk,    \* the bytes the read that is returning has
          eof       \* a read has returned 0

chanVars == <<ring, head, tail, closed, want, sent, chunk, eof>>
vars     == <<wqVars, chanVars>>

Queues == {"readers", "writers"}
Bytes  == Writers \X (1..MaxSent + MaxWrite)

TypeOK == /\ WqTypeOK(Queues, {"run", "wloop", "wmore", "rloop", "rmore", "read", "closing"})
          /\ ring \in [0..Capacity - 1 -> Bytes \cup {None}]
          /\ tail \in Nat /\ head \in tail..tail + Capacity
          /\ closed \in BOOLEAN /\ eof \in BOOLEAN
          /\ want \in [Threads -> 0..MaxWrite]
          /\ sent \in [Writers -> 0..MaxSent + MaxWrite]
          /\ chunk \in Seq(Bytes)

ObjInit == /\ ring = [i \in 0..Capacity - 1 |-> None]
           /\ head = 0 /\ tail = 0 /\ closed = FALSE /\ eof = FALSE
           /\ want = [t \in Threads |-> 0]
           /\ sent = [t \in Writers |-> 0]
           /\ chunk = <<>>

Init == WqInit(Queues) /\ ObjInit

(* A call that returns: its locals are gone.                               *)
Leave(t) == want' = [want EXCEPT ![t] = 0]

Least(a, b) == IF a < b THEN a ELSE b

(* The byte at a position of the stream, while it is in the ring.          *)
Byte(p) == ring[p % Capacity]

(* A call to write or read n bytes.                                        *)
CallFor(t, l, n) == /\ At(t, "run")
                    /\ want' = [want EXCEPT ![t] = n]
                    /\ Step(t, l)
                    /\ UNCHANGED <<ring, head, tail, closed, sent, chunk, eof>>

WriteCall(t, n) == t \in Writers /\ head + n <= MaxSent /\ CallFor(t, "wloop", n)
ReadCall(t, n)  == t \in Readers /\ CallFor(t, "rloop", n)

\* mutant: room is computed as if the ring were empty
Space_Whole == Capacity

Space == Capacity - (head - tail)

(* The bytes a write copies in, at head and after.                         *)
Filled(t, take) ==
  [i \in DOMAIN ring |->
     IF \E k \in 1..take : i = (head + k - 1) % Capacity
       THEN <<t, sent[t] + (CHOOSE k \in 1..take : i = (head + k - 1) % Capacity)>>
       ELSE ring[i]]

\* mutant: a write does not look at closed
WriteTry_Open(t) ==
  /\ At(t, "wloop")
  /\ LET take == Least(Space, want[t])
     IN  /\ ring' = Filled(t, take)
         /\ head' = head + take
         /\ sent' = [sent EXCEPT ![t] = @ + take]
         /\ want' = [want EXCEPT ![t] = @ - take]
         /\ IF take > 0 THEN WakeAll(t, "readers", "wmore") ELSE Step(t, "wmore")
  /\ UNCHANGED <<tail, closed, chunk, eof>>

\* mutant: what did not fit is counted as written
WriteTry_CountAll(t) ==
  /\ At(t, "wloop")
  /\ IF closed THEN Step(t, "run") /\ Leave(t) /\ UNCHANGED <<ring, head, tail, closed, sent, chunk, eof>>
     ELSE LET take == Least(Space, want[t])
          IN  /\ ring' = Filled(t, take)
              /\ head' = head + take
              /\ sent' = [sent EXCEPT ![t] = @ + want[t]]
              /\ want' = [want EXCEPT ![t] = 0]
              /\ IF take > 0 THEN WakeAll(t, "readers", "wmore") ELSE Step(t, "wmore")
              /\ UNCHANGED <<tail, closed, chunk, eof>>

(* One turn of rk_channel_write's loop under c->lock.  On a closed channel *)
(* it returns what it has written so far, or RK_EPIPE.                     *)
WriteTry(t) ==
  /\ At(t, "wloop")
  /\ IF closed THEN Step(t, "run") /\ Leave(t) /\ UNCHANGED <<ring, head, tail, closed, sent, chunk, eof>>
     ELSE LET take == Least(Space, want[t])
          IN  /\ ring' = Filled(t, take)
              /\ head' = head + take
              /\ sent' = [sent EXCEPT ![t] = @ + take]
              /\ want' = [want EXCEPT ![t] = @ - take]
              /\ IF take > 0 THEN WakeAll(t, "readers", "wmore") ELSE Step(t, "wmore")
              /\ UNCHANGED <<tail, closed, chunk, eof>>

\* mutant: a writer waits for room without a time limit
WriteMore_Untimed(t) ==
  /\ At(t, "wmore")
  /\ \/ /\ want[t] = 0 \/ t \in Timed
        /\ Step(t, "run") /\ Leave(t)
     \/ /\ want[t] > 0
        /\ Wait(t, "writers", "wloop") /\ UNCHANGED want
  /\ UNCHANGED <<ring, head, tail, closed, sent, chunk, eof>>

(* The rest of the turn: all written, or past the deadline the caller may  *)
(* have given, or wait for room.                                           *)
WriteMore(t) ==
  /\ At(t, "wmore")
  /\ \/ /\ want[t] = 0 \/ t \in Timed
        /\ Step(t, "run") /\ Leave(t)
     \/ /\ want[t] > 0
        /\ WaitTimed(t, "writers", "wloop", "wloop") /\ UNCHANGED want
  /\ UNCHANGED <<ring, head, tail, closed, sent, chunk, eof>>

(* One turn of rk_channel_read's loop under c->lock: the front of the ring *)
(* if there is anything in it, else 0 on a closed channel.                 *)
ReadTry(t) ==
  /\ At(t, "rloop")
  /\ \/ /\ head # tail
        /\ LET take == Least(head - tail, want[t])
           IN  /\ chunk' = [k \in 1..take |-> Byte(tail + k - 1)]
               /\ tail' = tail + take
        /\ WakeAll(t, "writers", "read")
        /\ UNCHANGED <<ring, head, closed, want, sent, eof>>
     \/ /\ head = tail /\ closed
        /\ eof' = TRUE
        /\ Step(t, "run") /\ Leave(t)
        /\ UNCHANGED <<ring, head, tail, closed, sent, chunk>>
     \/ /\ head = tail /\ ~closed
        /\ Step(t, "rmore") /\ UNCHANGED chanVars

(* The reader has its bytes and returns.                                   *)
ReadReturn(t) == /\ At(t, "read")
                 /\ chunk' = <<>>
                 /\ Step(t, "run") /\ Leave(t)
                 /\ UNCHANGED <<ring, head, tail, closed, sent, eof>>

\* mutant: a reader waits for data without a time limit
ReadMore_Untimed(t) ==
  /\ At(t, "rmore")
  /\ \/ t \in Timed /\ Step(t, "run") /\ Leave(t)
     \/ Wait(t, "readers", "rloop") /\ UNCHANGED want
  /\ UNCHANGED <<ring, head, tail, closed, sent, chunk, eof>>

ReadMore(t) ==
  /\ At(t, "rmore")
  /\ \/ t \in Timed /\ Step(t, "run") /\ Leave(t)
     \/ WaitTimed(t, "readers", "rloop", "rloop") /\ UNCHANGED want
  /\ UNCHANGED <<ring, head, tail, closed, sent, chunk, eof>>

(* rk_channel_close wakes the readers, then the writers.                   *)
Close(t) ==
  /\ At(t, "run") /\ ~closed
  /\ closed' = TRUE
  /\ WakeAll(t, "readers", "closing")
  /\ UNCHANGED <<ring, head, tail, want, sent, chunk, eof>>

CloseWriters(t) == /\ At(t, "closing")
                   /\ WakeAll(t, "writers", "run") /\ UNCHANGED chanVars

(* A millisecond of sleep is over.                                         *)
TickWake(t) == Expire(t) /\ UNCHANGED chanVars

InCall(t) == \/ WriteTry(t) \/ WriteMore(t) \/ ReadTry(t) \/ ReadMore(t)
             \/ ReadReturn(t) \/ CloseWriters(t)
             \/ (Link(t) \/ Block(t) \/ Unlink(t) \/ PopAll(t)) /\ UNCHANGED chanVars

Next == \E t \in Threads : \/ InCall(t) \/ Close(t) \/ TickWake(t)
                           \/ \E n \in 1..MaxWrite : WriteCall(t, n) \/ ReadCall(t, n)

(* A thread inside a call is scheduled and the tick goes on; nobody has to *)
(* call anything, and no deadline has to pass.                             *)
Fairness == \A t \in Threads : WF_vars(InCall(t)) /\ WF_vars(TickWake(t))

Spec == Init /\ [][Next]_vars /\ Fairness
-----------------------------------------------------------------------------
Pipe == [k \in 1..head - tail |-> Byte(tail + k - 1)]

(* The ring is a pipe: whatever sizes writes and reads have, whoever makes *)
(* them and however they interleave, bytes come out once and in order,     *)
(* never more than fit are inside, and none goes in after close.           *)
Fifo == INSTANCE ChannelFifo WITH pipe <- Pipe, isOpen <- ~closed
RefinesFifo == Fifo!Spec

(* The bytes in the ring after the one at p that are of the same writer.   *)
Followers(p) == {q \in p + 1..head - 1 : Byte(q)[1] = Byte(p)[1]}

(* Both ends know what became of the bytes.  A writer whose call was cut   *)
(* short by a timeout or a close knows exactly what went in: its bytes in  *)
(* the ring are the last ones it was told were accepted, in its order.     *)
(* After a read has returned 0 there is nothing left to read, ever.        *)
AcceptedExactly ==
  /\ \A p \in tail..head - 1 :
       Byte(p)[2] = sent[Byte(p)[1]] - Cardinality(Followers(p))
  /\ eof => closed /\ head = tail

(* Every call that is under way when the channel is closed returns, even   *)
(* one whose wakeup came before it was asleep.                             *)
CloseReleases == \A t \in Threads : closed /\ pc[t] # "run" ~> pc[t] = "run"

(* A reader that is anywhere in its call, asleep or about to sleep, when   *)
(* there is data to read returns, even if the writer's wakeup missed it.   *)
ReaderServed == \A t \in Readers : pc[t] # "run" /\ head # tail ~> pc[t] = "run"
=============================================================================
