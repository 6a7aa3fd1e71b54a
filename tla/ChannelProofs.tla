---------------------------- MODULE ChannelProofs ----------------------------
(***************************************************************************)
(* The byte channel for any finite set of threads, any capacity and any    *)
(* sizes of writes and reads: it is a bounded pipe (ChannelFifo), and both *)
(* ends know what became of the bytes.  Positions in the stream only grow; *)
(* the ring keeps those from tail up to head, which are at most Capacity,  *)
(* and so no two of them share a slot.                                     *)
(***************************************************************************)
EXTENDS Channel, WaitQueueProofs, FiniteSetTheorems, SequenceTheorems

Locs == {"run", "wloop", "wmore", "rloop", "rmore", "read", "closing"}

(* Where a thread is or will come back to says which call it is in; a read *)
(* that has not got its bytes yet asked for at least one.                  *)
Back(t) == {pc[t], call[t].woken, call[t].expired}

RoleOf(t) == /\ pc[t] \notin InQueue => call[t] = NoCall
             /\ Back(t) \cap {"wloop", "wmore"} # {} => t \in Writers
             /\ Back(t) \cap {"rloop", "rmore"} # {} => t \in Readers /\ want[t] > 0

Roles == \A t \in Threads : RoleOf(t)

(* What the variables of the channel hold.                                 *)
RingInv == /\ ring \in [0..Capacity - 1 -> Bytes \cup {None}]
           /\ tail \in Nat /\ head \in Nat /\ tail <= head /\ head <= tail + Capacity
           /\ closed \in BOOLEAN /\ eof \in BOOLEAN
           /\ want \in [Threads -> 0..MaxWrite] /\ sent \in [Writers -> Nat]
           /\ chunk \in Seq(Bytes)

(* A call to write was let in by the bound on head, which counts the bytes *)
(* of every writer.                                                        *)
SentInv == \A t \in Writers : sent[t] <= head /\ sent[t] + want[t] <= MaxSent

StreamInv == \A p \in tail..head - 1 : Byte(p) \in Bytes

ChanInv == /\ WqInv(Queues, Locs) /\ Roles /\ RingInv /\ SentInv
           /\ StreamInv /\ AcceptedExactly
-----------------------------------------------------------------------------
(* The threads and the wait queues.                                        *)

(* The steps of the channel proper, whose threads are at its locations.    *)
Turn(t) == \/ WriteTry(t) \/ WriteMore(t) \/ ReadTry(t) \/ ReadMore(t) \/ ReadReturn(t)
           \/ Close(t) \/ CloseWriters(t)
           \/ \E n \in 1..MaxWrite : WriteCall(t, n) \/ ReadCall(t, n)

(* A step is a turn of the channel or a step of the queues under it.       *)
LEMMA Steps ==
  ASSUME NEW t \in Threads,
         \/ InCall(t) \/ Close(t) \/ TickWake(t)
         \/ \E n \in 1..MaxWrite : WriteCall(t, n) \/ ReadCall(t, n)
  PROVE  Turn(t) \/ (WqStep(t) /\ UNCHANGED chanVars)
BY DEF InCall, TickWake, Turn, WqStep, WqRun

(* Every turn enters a wait or a wakeup, or goes from location to location. *)
LEMMA TurnLocks ==
  ASSUME NEW t \in Threads, Turn(t)
  PROVE  LockStep(t, Queues, Locs)
<1>1. "readers" \in Queues /\ "writers" \in Queues
  BY DEF Queues
<1>2. ASSUME NEW q \in Queues, NEW l \in Locs, NEW m \in Locs,
             WaitTimed(t, q, l, m) \/ WakeAll(t, q, l)
      PROVE  Enters(t, Queues, Locs)
  BY <1>2 DEF WaitTimed, WakeAll, Enters
<1>3. {"run", "wloop", "wmore", "rloop", "rmore", "read", "closing"} = Locs
  BY DEF Locs
<1>4. WriteTry(t) => LockStep(t, Queues, Locs)
  BY <1>1, <1>2, <1>3 DEF WriteTry, LockStep
<1>5. WriteMore(t) => LockStep(t, Queues, Locs)
  BY <1>1, <1>2, <1>3 DEF WriteMore, LockStep
<1>6. ReadTry(t) => LockStep(t, Queues, Locs)
  BY <1>1, <1>2, <1>3 DEF ReadTry, LockStep
<1>7. ReadMore(t) => LockStep(t, Queues, Locs)
  BY <1>1, <1>2, <1>3 DEF ReadMore, LockStep
<1>8. ReadReturn(t) => LockStep(t, Queues, Locs)
  BY <1>1, <1>2, <1>3 DEF ReadReturn, LockStep
<1>9. Close(t) \/ CloseWriters(t) => LockStep(t, Queues, Locs)
  BY <1>1, <1>2, <1>3 DEF Close, CloseWriters, LockStep
<1>10. (\E n \in 1..MaxWrite : WriteCall(t, n) \/ ReadCall(t, n)) => LockStep(t, Queues, Locs)
  BY <1>1, <1>2, <1>3 DEF WriteCall, ReadCall, CallFor, LockStep
<1> QED BY <1>4, <1>5, <1>6, <1>7, <1>8, <1>9, <1>10 DEF Turn

(* Only the thread that steps changes its place.                           *)
LEMMA OthersStay ==
  ASSUME WqInv(Queues, Locs), RingInv, Roles, NEW t \in Threads,
         \E l \in Locs \cup InQueue : pc' = [pc EXCEPT ![t] = l],
         \/ call' = call
         \/ \E c : call' = [call EXCEPT ![t] = c],
         \/ want' = want
         \/ \E n : want' = [want EXCEPT ![t] = n],
         RoleOf(t)'
  PROVE  Roles'
<1> SUFFICES ASSUME NEW u \in Threads, u # t PROVE RoleOf(u)'
  BY DEF Roles
<1>1. pc'[u] = pc[u] /\ call'[u] = call[u] /\ want'[u] = want[u]
  BY DEF WqInv, WqTypeOK, RingInv
<1> QED BY <1>1 DEF Roles, RoleOf, Back

(* A step of the queues takes a thread on, or back to where it said.       *)
LEMMA QueueRoles ==
  ASSUME WqInv(Queues, Locs), RingInv, Roles, NEW t \in Threads, WqStep(t), UNCHANGED chanVars
  PROVE  Roles'
<1>0. want' = want
  BY DEF chanVars
<1>1. CASE UNCHANGED <<pc, call>>
  BY <1>0, <1>1 DEF Roles, RoleOf, Back
<1>2. CASE Moves(t)
  <2>1. PICK l \in InQueue : pc' = [pc EXCEPT ![t] = l]
    BY <1>2 DEF Moves
  <2>2. pc'[t] = l /\ call' = call
    BY <1>2, <2>1 DEF Moves, WqInv, WqTypeOK
  <2>3. RoleOf(t)'
    BY <1>0, <2>2 DEF Roles, RoleOf, Back, InQueue
  <2> QED BY <1>0, <2>1, <2>2, <2>3, OthersStay
<1>3. CASE Returns(t)
  <2>1. PICK l \in {call[t].woken, call[t].expired} : Return(t, l)
    BY <1>3 DEF Returns
  <2>2. /\ pc' = [pc EXCEPT ![t] = l] /\ call' = [call EXCEPT ![t] = NoCall]
        /\ pc'[t] = l /\ call'[t] = NoCall /\ l \in Locs
    BY <2>1 DEF Return, Goto, WqInv, WqTypeOK, Locs
  <2>3. NoCall.woken = "run" /\ NoCall.expired = "run"
    BY DEF NoCall, Call
  <2>4. RoleOf(t)'
    BY <1>0, <2>2, <2>3 DEF Roles, RoleOf, Back, InQueue
  <2> QED BY <1>0, <2>2, <2>4, OthersStay
<1> QED BY <1>1, <1>2, <1>3, QueueSteps

(* Where a step leaves its thread.                                         *)
LEMMA StepTo ==
  ASSUME WqInv(Queues, Locs), NEW t \in Threads, NEW l, Step(t, l)
  PROVE  pc' = [pc EXCEPT ![t] = l] /\ pc'[t] = l /\ call' = call
BY DEF Step, Goto, WqInv, WqTypeOK

(* The same for the entry to a wait or a wakeup, which names its way back. *)
LEMMA EnterTo ==
  ASSUME WqInv(Queues, Locs), NEW t \in Threads, NEW l \in InQueue, NEW q, NEW d, NEW w, NEW e,
         Enter(t, l, Call(q, d, w, e))
  PROVE  /\ pc' = [pc EXCEPT ![t] = l] /\ pc'[t] = l
         /\ call' = [call EXCEPT ![t] = Call(q, d, w, e)]
         /\ call'[t].woken = w /\ call'[t].expired = e
BY DEF Enter, Goto, Call, WqInv, WqTypeOK

(* A turn leaves its thread in the role its location says.                 *)
LEMMA TurnRoles ==
  ASSUME WqInv(Queues, Locs), RingInv, Roles, NEW t \in Threads, Turn(t)
  PROVE  Roles'
<1>1. NoCall.woken = "run" /\ NoCall.expired = "run"
  BY DEF NoCall, Call
<1>2. PICK l \in Locs : pc[t] = l
  BY TurnLocks DEF LockStep, At
<1>3. pc[t] \notin InQueue /\ call[t] = NoCall /\ RoleOf(t)
  BY <1>2 DEF Roles, RoleOf, Locs, InQueue
<1>4. want[t] \in Nat
  BY ChannelAssumption DEF RingInv, ChannelAssumption
<1>5. \A n : Leave(t) => want' = [want EXCEPT ![t] = 0]
  BY DEF Leave
<1>6. ASSUME NEW m \in Locs, Step(t, m),
             want' = want \/ \E n : want' = [want EXCEPT ![t] = n],
             m \in {"wloop", "wmore"} => t \in Writers,
             m \in {"rloop", "rmore"} => t \in Readers /\ want'[t] > 0
      PROVE  Roles'
  <2>1. pc' = [pc EXCEPT ![t] = m] /\ pc'[t] = m /\ call' = call
    BY <1>6, StepTo
  <2>2. RoleOf(t)'
    BY <1>1, <1>3, <1>6, <2>1 DEF RoleOf, Back
  <2> QED BY <1>6, <2>1, <2>2, OthersStay
<1>7. ASSUME NEW i \in InQueue, NEW q, NEW d, NEW m \in Locs, Enter(t, i, Call(q, d, m, m)),
             want' = want \/ \E n : want' = [want EXCEPT ![t] = n],
             m \in {"wloop", "wmore"} => t \in Writers,
             m \in {"rloop", "rmore"} => t \in Readers /\ want'[t] > 0
      PROVE  Roles'
  <2>1. /\ pc' = [pc EXCEPT ![t] = i] /\ pc'[t] = i
        /\ call' = [call EXCEPT ![t] = Call(q, d, m, m)]
        /\ call'[t].woken = m /\ call'[t].expired = m
    BY <1>7, EnterTo
  <2>2. RoleOf(t)'
    BY <1>7, <2>1 DEF RoleOf, Back, InQueue
  <2> QED BY <1>7, <2>1, <2>2, OthersStay
<1>8. /\ \A q, m : WaitTimed(t, q, m, m) => Enter(t, "link", Call(q, TRUE, m, m))
      /\ \A q, m : WakeAll(t, q, m) => Enter(t, "popall", Call(q, FALSE, m, m))
      /\ "link" \in InQueue /\ "popall" \in InQueue
  BY DEF WaitTimed, WakeAll, InQueue
<1>9. {"run", "wloop", "wmore", "rloop", "rmore", "read", "closing"} = Locs
  BY DEF Locs
<1>10. CASE WriteTry(t)
  <2>1. t \in Writers
    BY <1>3, <1>10 DEF WriteTry, At, RoleOf, Back
  <2>2. want' = want \/ \E n : want' = [want EXCEPT ![t] = n]
    BY <1>10, <1>5 DEF WriteTry
  <2>3. Step(t, "run") \/ WakeAll(t, "readers", "wmore") \/ Step(t, "wmore")
    BY <1>10 DEF WriteTry
  <2>4. CASE Step(t, "run") \/ Step(t, "wmore")
    BY <1>6, <1>9, <2>1, <2>2, <2>4
  <2>5. CASE WakeAll(t, "readers", "wmore")
    BY <1>7, <1>8, <1>9, <2>1, <2>2, <2>5
  <2> QED BY <2>3, <2>4, <2>5
<1>11. CASE WriteMore(t)
  <2>1. t \in Writers
    BY <1>3, <1>11 DEF WriteMore, At, RoleOf, Back
  <2>2. want' = want \/ \E n : want' = [want EXCEPT ![t] = n]
    BY <1>11, <1>5 DEF WriteMore
  <2>3. Step(t, "run") \/ WaitTimed(t, "writers", "wloop", "wloop")
    BY <1>11 DEF WriteMore
  <2>4. CASE Step(t, "run")
    BY <1>6, <1>9, <2>1, <2>2, <2>4
  <2>5. CASE WaitTimed(t, "writers", "wloop", "wloop")
    BY <1>7, <1>8, <1>9, <2>1, <2>2, <2>5
  <2> QED BY <2>3, <2>4, <2>5
<1>12. CASE ReadTry(t)
  <2>1. t \in Readers /\ want[t] > 0
    BY <1>3, <1>12 DEF ReadTry, At, RoleOf, Back
  <2>2. want' = want \/ \E n : want' = [want EXCEPT ![t] = n]
    BY <1>12, <1>5 DEF ReadTry, chanVars
  <2>3. \/ Step(t, "run") \/ WakeAll(t, "writers", "read")
        \/ Step(t, "rmore") /\ want' = want
    BY <1>12 DEF ReadTry, chanVars
  <2>4. CASE Step(t, "run") \/ (Step(t, "rmore") /\ want' = want)
    BY <1>6, <1>9, <2>1, <2>2, <2>4
  <2>5. CASE WakeAll(t, "writers", "read")
    BY <1>7, <1>8, <1>9, <2>1, <2>2, <2>5
  <2> QED BY <2>3, <2>4, <2>5
<1>13. CASE ReadMore(t)
  <2>1. t \in Readers /\ want[t] > 0
    BY <1>3, <1>13 DEF ReadMore, At, RoleOf, Back
  <2>2. want' = want \/ \E n : want' = [want EXCEPT ![t] = n]
    BY <1>13, <1>5 DEF ReadMore
  <2>3. \/ Step(t, "run")
        \/ WaitTimed(t, "readers", "rloop", "rloop") /\ want' = want
    BY <1>13 DEF ReadMore
  <2>4. CASE Step(t, "run")
    BY <1>6, <1>9, <2>1, <2>2, <2>4
  <2>5. CASE WaitTimed(t, "readers", "rloop", "rloop") /\ want' = want
    BY <1>7, <1>8, <1>9, <2>1, <2>2, <2>5
  <2> QED BY <2>3, <2>4, <2>5
<1>14. CASE ReadReturn(t)
  BY <1>5, <1>6, <1>9, <1>14 DEF ReadReturn
<1>15. CASE Close(t) \/ CloseWriters(t)
  <2>1. want' = want /\ (WakeAll(t, "readers", "closing") \/ WakeAll(t, "writers", "run"))
    BY <1>15 DEF Close, CloseWriters, chanVars
  <2> QED BY <1>7, <1>8, <1>9, <2>1
<1>16. ASSUME NEW n \in 1..MaxWrite, WriteCall(t, n) \/ ReadCall(t, n)
       PROVE  Roles'
  <2>1. want' = [want EXCEPT ![t] = n] /\ want'[t] > 0
    BY <1>16, ChannelAssumption DEF WriteCall, ReadCall, CallFor, RingInv, ChannelAssumption
  <2>2. \/ t \in Writers /\ Step(t, "wloop")
        \/ t \in Readers /\ Step(t, "rloop")
    BY <1>16 DEF WriteCall, ReadCall, CallFor
  <2> QED BY <1>6, <1>9, <2>1, <2>2
<1> QED BY <1>10, <1>11, <1>12, <1>13, <1>14, <1>15, <1>16 DEF Turn
-----------------------------------------------------------------------------
(* What a turn does to the channel.                                        *)

(* A write of n bytes: they lie at head and after, the others stay.        *)
Wrote(t, n) ==
  /\ t \in Writers /\ ~closed
  /\ n \in Nat /\ n <= want[t] /\ head + n <= tail + Capacity
  /\ head' = head + n
  /\ want' = [want EXCEPT ![t] = @ - n] /\ sent' = [sent EXCEPT ![t] = @ + n]
  /\ ring' \in [0..Capacity - 1 -> Bytes \cup {None}]
  /\ \A p \in tail..head - 1 : Byte(p)' = Byte(p)
  /\ \A p \in head..head + n - 1 : Byte(p)' = <<t, sent[t] + (p - head + 1)>>
  /\ UNCHANGED <<tail, closed, chunk, eof>>

Took(n) == /\ n \in Nat /\ 0 < n /\ n <= head - tail
           /\ tail' = tail + n
           /\ chunk' = [k \in 1..n |-> Byte(tail + k - 1)]
           /\ UNCHANGED <<ring, head, closed, want, sent, eof>>

Ended(t) == /\ head = tail /\ closed /\ eof' = TRUE
            /\ want' = [want EXCEPT ![t] = 0]
            /\ UNCHANGED <<ring, head, tail, closed, sent, chunk>>

Shut == closed' = TRUE /\ UNCHANGED <<ring, head, tail, want, sent, chunk, eof>>

Asked(t, n) == /\ t \in Writers => head + n <= MaxSent
               /\ want' = [want EXCEPT ![t] = n]
               /\ UNCHANGED <<ring, head, tail, closed, sent, chunk, eof>>

Quiet(t) == /\ chunk' = chunk \/ chunk' = <<>>
            /\ want' = want \/ want' = [want EXCEPT ![t] = 0]
            /\ UNCHANGED <<ring, head, tail, closed, sent, eof>>

(* Capacity and the bounds are numbers.                                    *)
LEMMA Numbers ==
  /\ Capacity \in Nat /\ Capacity > 0 /\ MaxWrite \in Nat /\ MaxSent \in Nat
  /\ Writers \subseteq Threads
BY ChannelAssumption DEF ChannelAssumption

(* The bytes copied in by a write do not meet those that are in the ring.  *)
LEMMA FilledAt ==
  ASSUME RingInv, SentInv, NEW t \in Writers, NEW n \in Nat,
         n <= want[t], head + n <= tail + Capacity
  PROVE  /\ Filled(t, n) \in [0..Capacity - 1 -> Bytes \cup {None}]
         /\ \A p \in tail..head - 1 : Filled(t, n)[p % Capacity] = Byte(p)
         /\ \A p \in head..head + n - 1 :
              Filled(t, n)[p % Capacity] = <<t, sent[t] + (p - head + 1)>>
<1> DEFINE slot(k) == (head + k - 1) % Capacity
           at(i)   == CHOOSE k \in 1..n : i = slot(k)
<1>1. /\ Capacity \in Nat /\ Capacity > 0 /\ head \in Nat /\ tail \in Nat /\ tail <= head
      /\ DOMAIN ring = 0..Capacity - 1 /\ sent[t] \in Nat /\ want[t] \in Nat
      /\ sent[t] + want[t] <= MaxSent /\ MaxSent \in Nat /\ MaxWrite \in Nat
  BY Numbers DEF RingInv, SentInv
<1>2. Filled(t, n) = [i \in 0..Capacity - 1 |->
                        IF \E k \in 1..n : i = slot(k) THEN <<t, sent[t] + at(i)>> ELSE ring[i]]
  BY <1>1 DEF Filled
<1>3. ASSUME NEW j \in 1..n, NEW k \in 1..n, slot(j) = slot(k)
      PROVE  j = k
  <2>1. head + j - 1 \in Int /\ head + k - 1 \in Int
    BY <1>1
  <2>2. CASE j < k
    BY <1>1, <1>3, <2>1, <2>2, SlotsApart
  <2>3. CASE k < j
    BY <1>1, <1>3, <2>1, <2>3, SlotsApart
  <2> QED BY <2>2, <2>3
<1>4. ASSUME NEW k \in 1..n
      PROVE  at(slot(k)) = k
  BY <1>3
<1>5. ASSUME NEW p \in Int PROVE p % Capacity \in 0..Capacity - 1
  BY <1>1, Remainder
<1>6. ASSUME NEW i \in 0..Capacity - 1
      PROVE  Filled(t, n)[i] \in Bytes \cup {None}
  <2>1. CASE \E k \in 1..n : i = slot(k)
    <3>1. PICK k \in 1..n : i = slot(k)
      BY <2>1
    <3>2. Filled(t, n)[i] = <<t, sent[t] + k>>
      BY <1>2, <1>4, <3>1
    <3>3. sent[t] + k \in 1..MaxSent + MaxWrite
      BY <1>1
    <3> QED BY <3>2, <3>3 DEF Bytes
  <2>2. CASE ~ \E k \in 1..n : i = slot(k)
    BY <1>2, <2>2 DEF RingInv
  <2> QED BY <2>1, <2>2
<1>7. ASSUME NEW p \in tail..head - 1
      PROVE  Filled(t, n)[p % Capacity] = Byte(p)
  <2>1. ASSUME NEW k \in 1..n PROVE p % Capacity # slot(k)
    <3>1. p \in Int /\ head + k - 1 \in Int /\ p < head + k - 1 /\ head + k - 1 < p + Capacity
      BY <1>1
    <3> QED BY <1>1, <3>1, SlotsApart
  <2>2. p % Capacity \in 0..Capacity - 1
    BY <1>1, <1>5
  <2> QED BY <1>2, <2>1, <2>2 DEF Byte
<1>8. ASSUME NEW p \in head..head + n - 1
      PROVE  Filled(t, n)[p % Capacity] = <<t, sent[t] + (p - head + 1)>>
  <2>1. /\ p - head + 1 \in 1..n /\ slot(p - head + 1) = p % Capacity
        /\ p % Capacity \in 0..Capacity - 1
    <3>1. head + (p - head + 1) - 1 = p /\ p \in Int
      BY <1>1
    <3> QED BY <1>1, <1>5, <3>1
  <2>2. at(p % Capacity) = p - head + 1
    BY <1>4, <2>1
  <2> QED BY <1>2, <2>1, <2>2
<1>9. Filled(t, n) \in [0..Capacity - 1 -> Bytes \cup {None}]
  BY <1>2, <1>6
<1> QED BY <1>7, <1>8, <1>9

(* Each turn is one of these.                                              *)
LEMMA TurnKinds ==
  ASSUME WqInv(Queues, Locs), Roles, RingInv, SentInv, NEW t \in Threads, Turn(t)
  PROVE  \/ \E n \in Nat : Wrote(t, n) \/ Took(n)
         \/ Ended(t) \/ Shut \/ Quiet(t)
         \/ \E n \in 1..MaxWrite : Asked(t, n)
<1>1. /\ head \in Nat /\ tail \in Nat /\ tail <= head /\ head <= tail + Capacity
      /\ want[t] \in Nat /\ Capacity \in Nat
  BY Numbers DEF RingInv
<1>2. ASSUME WriteTry(t), ~closed
      PROVE  \E n \in Nat : Wrote(t, n)
  <2> DEFINE n == Least(Space, want[t])
  <2>1. n \in Nat /\ n <= want[t] /\ head + n <= tail + Capacity
    BY <1>1 DEF Least, Space
  <2>2. t \in Writers
    BY <1>2 DEF WriteTry, At, Roles, RoleOf, Back
  <2>3. /\ ring' = Filled(t, n) /\ head' = head + n /\ sent' = [sent EXCEPT ![t] = @ + n]
        /\ want' = [want EXCEPT ![t] = @ - n] /\ UNCHANGED <<tail, closed, chunk, eof>>
    BY <1>2 DEF WriteTry
  <2> HIDE DEF n
  <2>4. Wrote(t, n)
    BY <1>2, <2>1, <2>2, <2>3, FilledAt DEF Wrote, Byte
  <2> QED BY <2>1, <2>4
<1>3. WriteTry(t) /\ closed => Quiet(t)
  BY DEF WriteTry, Leave, Quiet
<1>4. WriteMore(t) \/ ReadMore(t) \/ ReadReturn(t) \/ CloseWriters(t) => Quiet(t)
  BY DEF WriteMore, ReadMore, ReadReturn, CloseWriters, Leave, Quiet, chanVars
<1>5. Close(t) => Shut
  BY DEF Close, Shut
<1>6. ASSUME ReadTry(t), head # tail
      PROVE  \E n \in Nat : Took(n)
  <2> DEFINE n == Least(head - tail, want[t])
  <2>1. want[t] > 0
    BY <1>6 DEF ReadTry, At, Roles, RoleOf, Back
  <2>2. n \in Nat /\ 0 < n /\ n <= head - tail
    BY <1>1, <1>6, <2>1 DEF Least
  <2>3. /\ chunk' = [k \in 1..n |-> Byte(tail + k - 1)] /\ tail' = tail + n
        /\ UNCHANGED <<ring, head, closed, want, sent, eof>>
    BY <1>6 DEF ReadTry
  <2> HIDE DEF n
  <2> QED BY <2>2, <2>3 DEF Took
<1>7. ReadTry(t) /\ head = tail => Ended(t) \/ Quiet(t)
  BY DEF ReadTry, Leave, Ended, Quiet, chanVars
<1>8. ASSUME NEW n \in 1..MaxWrite, WriteCall(t, n) \/ ReadCall(t, n)
      PROVE  Asked(t, n)
  <2>1. Writers \cap Readers = {}
    BY ChannelAssumption DEF ChannelAssumption
  <2> QED BY <1>8, <2>1 DEF WriteCall, ReadCall, CallFor, Asked
<1> QED BY <1>2, <1>3, <1>4, <1>5, <1>6, <1>7, <1>8 DEF Turn
-----------------------------------------------------------------------------
(* The data part of the invariant is kept.                                 *)
DataInv == RingInv /\ SentInv /\ StreamInv /\ AcceptedExactly

(* The size of an interval whose bounds are written as they come.          *)
LEMMA IntervalSize ==
  ASSUME NEW a \in Int, NEW b \in Int, a <= b + 1
  PROVE  IsFiniteSet(a..b) /\ Cardinality(a..b) = b - a + 1
<1>1. Cardinality(a..b) = IF a > b THEN 0 ELSE b - a + 1
  BY FS_Interval
<1>2. a > b => b - a + 1 = 0
  OBVIOUS
<1> QED BY <1>1, <1>2, FS_Interval

(* The followers of a byte are finitely many.                              *)
LEMMA FollowersFinite ==
  ASSUME RingInv, NEW p \in Nat
  PROVE  IsFiniteSet(Followers(p)) /\ Cardinality(Followers(p)) \in Nat
<1>1. p + 1 \in Int /\ head - 1 \in Int
  BY DEF RingInv
<1>2. IsFiniteSet(p + 1..head - 1)
  BY <1>1, FS_Interval
<1>3. Followers(p) \in SUBSET (p + 1..head - 1)
  BY DEF Followers
<1>4. IsFiniteSet(Followers(p))
  BY <1>2, <1>3, FS_Subset
<1> QED BY <1>4, FS_CardinalityType

(* A write adds its bytes to the followers of each byte of the same writer. *)
LEMMA WroteFollowers ==
  ASSUME DataInv, NEW t, NEW n \in Nat, Wrote(t, n), NEW p \in tail..head - 1
  PROVE  Cardinality(Followers(p))'
           = Cardinality(Followers(p)) + (IF Byte(p)[1] = t THEN n ELSE 0)
<1> USE DEF DataInv
<1>1. /\ head \in Nat /\ tail \in Nat /\ p \in Nat /\ head' = head + n
      /\ p + 1..head - 1 \subseteq tail..head - 1
  BY DEF RingInv, Wrote
<1>2. /\ Byte(p)' = Byte(p)
      /\ \A q \in p + 1..head - 1 : Byte(q)' = Byte(q)
      /\ \A q \in head..head + n - 1 : Byte(q)'[1] = t
  BY <1>1 DEF Wrote
<1>3. Followers(p)' = {q \in p + 1..head + n - 1 : Byte(q)'[1] = Byte(p)'[1]}
  BY <1>1 DEF Followers
<1>4. Followers(p) = {q \in p + 1..head - 1 : Byte(q)[1] = Byte(p)[1]}
  BY DEF Followers
<1>5. p + 1..head + n - 1 = (p + 1..head - 1) \cup (head..head + n - 1)
  BY <1>1
<1>6. (p + 1..head - 1) \cap (head..head + n - 1) = {}
  BY <1>1
<1>7. IsFiniteSet(Followers(p)) /\ Cardinality(Followers(p)) \in Nat
  BY <1>1, FollowersFinite
<1>8. CASE Byte(p)[1] = t
  <2>1. Followers(p)' = Followers(p) \cup (head..head + n - 1)
    BY <1>2, <1>3, <1>4, <1>5, <1>8
  <2>2. Followers(p) \cap (head..head + n - 1) = {}
    BY <1>4, <1>6
  <2>3. IsFiniteSet(head..head + n - 1) /\ Cardinality(head..head + n - 1) = n
    <3> DEFINE b == head + n - 1
    <3>1. head \in Int /\ b \in Int /\ head <= b + 1 /\ b - head + 1 = n
      BY <1>1
    <3> HIDE DEF b
    <3>2. IsFiniteSet(head..b) /\ Cardinality(head..b) = n
      BY <3>1, IntervalSize
    <3> QED BY <3>2 DEF b
  <2>4. Cardinality(Followers(p) \cup (head..head + n - 1)) = Cardinality(Followers(p)) + n
    <3> DEFINE F == Followers(p)
               G == head..head + n - 1
    <3>1. /\ IsFiniteSet(F) /\ IsFiniteSet(G) /\ F \cap G = {} /\ Cardinality(G) = n
          /\ Cardinality(F) \in Nat /\ Cardinality({}) = 0
      BY <1>7, <2>2, <2>3, FS_EmptySet
    <3> HIDE DEF F, G
    <3>2. Cardinality(F \cup G) = Cardinality(F) + Cardinality(G) - Cardinality(F \cap G)
      BY <3>1, FS_Union, Zenon
    <3>3. Cardinality(F \cap G) = 0
      BY <3>1
    <3>4. Cardinality(F \cup G) = Cardinality(F) + n
      BY <3>1, <3>2, <3>3
    <3> QED BY <3>4 DEF F, G
  <2>5. Cardinality(Followers(p))' = Cardinality(Followers(p)')
    OBVIOUS
  <2> QED BY <1>8, <2>1, <2>4, <2>5
<1>9. CASE Byte(p)[1] # t
  <2>1. Followers(p)' = Followers(p)
    BY <1>2, <1>3, <1>4, <1>5, <1>9
  <2> QED BY <1>7, <1>9, <2>1
<1> QED BY <1>8, <1>9

(* The bytes of a write follow one another.                                *)
LEMMA FreshFollowers ==
  ASSUME DataInv, NEW t, NEW n \in Nat, Wrote(t, n), NEW p \in head..head + n - 1
  PROVE  Cardinality(Followers(p))' = head + n - 1 - p
<1> USE DEF DataInv
<1>1. head \in Nat /\ p \in Nat /\ head' = head + n
  BY DEF RingInv, Wrote
<1>2. \A q \in head..head + n - 1 : Byte(q)'[1] = t
  BY <1>1 DEF Wrote
<1>3. Followers(p)' = {q \in p + 1..head + n - 1 : Byte(q)'[1] = Byte(p)'[1]}
  BY <1>1 DEF Followers
<1>4. p + 1..head + n - 1 \subseteq head..head + n - 1
  BY <1>1
<1>5. Followers(p)' = p + 1..head + n - 1
  BY <1>2, <1>3, <1>4
<1>6. Cardinality(p + 1..head + n - 1) = head + n - 1 - p
  <2> DEFINE a == p + 1
             b == head + n - 1
  <2>1. a \in Int /\ b \in Int /\ a <= b + 1 /\ b - a + 1 = head + n - 1 - p
    BY <1>1
  <2> HIDE DEF a, b
  <2>2. Cardinality(a..b) = head + n - 1 - p
    BY <2>1, IntervalSize
  <2> QED BY <2>2 DEF a, b
<1> QED BY <1>5, <1>6

(* A write keeps the books.                                                *)
LEMMA WroteKeeps ==
  ASSUME DataInv, NEW t \in Threads, NEW n \in Nat, Wrote(t, n)
  PROVE  DataInv'
<1> USE DEF DataInv
<1>1. /\ head \in Nat /\ tail \in Nat /\ head' = head + n /\ tail' = tail /\ tail <= head
      /\ t \in Writers /\ want \in [Threads -> 0..MaxWrite] /\ sent \in [Writers -> Nat]
      /\ want[t] \in 0..MaxWrite /\ sent[t] \in Nat /\ n <= want[t]
      /\ want' = [want EXCEPT ![t] = @ - n] /\ sent' = [sent EXCEPT ![t] = @ + n]
  BY DEF RingInv, Wrote
<1>2. /\ want'[t] = want[t] - n /\ sent'[t] = sent[t] + n
      /\ \A w \in Writers : w # t => sent'[w] = sent[w] /\ want'[w] = want[w]
      /\ sent' \in [Writers -> Nat] /\ want' \in [Threads -> 0..MaxWrite]
  <2>1. want[t] - n \in 0..MaxWrite /\ sent[t] + n \in Nat
    BY <1>1, Numbers
  <2> QED BY <1>1, <2>1, Numbers
<1>3. RingInv'
  BY <1>1, <1>2 DEF RingInv, Wrote
<1>4. SentInv'
  <2> SUFFICES ASSUME NEW w \in Writers
               PROVE  sent'[w] <= head' /\ sent'[w] + want'[w] <= MaxSent
    BY DEF SentInv
  <2>1. /\ sent[w] \in Nat /\ want[w] \in Nat
        /\ sent[w] <= head /\ sent[w] + want[w] <= MaxSent
    BY <1>1, Numbers DEF SentInv
  <2>2. CASE w = t
    BY <1>1, <1>2, <2>1, <2>2, Numbers
  <2>3. CASE w # t
    BY <1>1, <1>2, <2>1, <2>3
  <2> QED BY <2>2, <2>3
<1>5. ASSUME NEW p \in tail..head + n - 1
      PROVE  /\ Byte(p)' \in Bytes
             /\ Byte(p)'[2] = sent'[Byte(p)'[1]] - Cardinality(Followers(p))'
  <2>1. CASE p \in tail..head - 1
    <3>1. /\ Byte(p)' = Byte(p) /\ Byte(p) \in Bytes
          /\ Byte(p)[2] = sent[Byte(p)[1]] - Cardinality(Followers(p))
      BY <2>1 DEF Wrote, StreamInv, AcceptedExactly
    <3>2. Cardinality(Followers(p))'
            = Cardinality(Followers(p)) + (IF Byte(p)[1] = t THEN n ELSE 0)
      BY <2>1, WroteFollowers
    <3>3. Byte(p)[1] \in Writers /\ sent[Byte(p)[1]] \in Nat
      BY <1>1, <3>1 DEF Bytes
    <3>4. Cardinality(Followers(p)) \in Nat
      BY <1>1, <2>1, FollowersFinite
    <3>5. CASE Byte(p)[1] = t
      BY <1>2, <3>1, <3>2, <3>3, <3>4, <3>5
    <3>6. CASE Byte(p)[1] # t
      BY <1>2, <3>1, <3>2, <3>3, <3>4, <3>6
    <3> QED BY <3>1, <3>5, <3>6
  <2>2. CASE p \in head..head + n - 1
    <3>1. Byte(p)' = <<t, sent[t] + (p - head + 1)>>
      BY <2>2 DEF Wrote
    <3>2. Cardinality(Followers(p))' = head + n - 1 - p
      BY <2>2, FreshFollowers
    <3>3. sent[t] + (p - head + 1) \in 1..MaxSent + MaxWrite
      BY <1>1, <2>2, Numbers DEF SentInv
    <3>4. Byte(p)' \in Bytes
      BY <1>1, <3>1, <3>3 DEF Bytes
    <3>5. Byte(p)'[1] = t /\ Byte(p)'[2] = sent[t] + (p - head + 1)
      BY <3>1
    <3>6. sent[t] + (p - head + 1) = (sent[t] + n) - (head + n - 1 - p)
      BY <1>1, <2>2
    <3> QED BY <1>2, <3>2, <3>4, <3>5, <3>6
  <2> QED BY <1>1, <2>1, <2>2
<1>6. \A p \in tail'..head' - 1 : p \in tail..head + n - 1
  BY <1>1
<1>7. StreamInv'
  BY <1>5, <1>6 DEF StreamInv
<1>8. AcceptedExactly'
  <2>1. ~closed /\ UNCHANGED <<closed, eof>>
    BY DEF Wrote
  <2>2. ~eof'
    BY <2>1 DEF AcceptedExactly
  <2>3. \A p \in tail'..head' - 1 :
          Byte(p)'[2] = sent'[Byte(p)'[1]] - Cardinality(Followers(p))'
    BY <1>5, <1>6
  <2> QED BY <2>2, <2>3 DEF AcceptedExactly
<1> QED BY <1>3, <1>4, <1>7, <1>8

(* A read takes a run of typed bytes off the front, and the followers of   *)
(* those that stay are the same.                                           *)
LEMMA TookKeeps ==
  ASSUME DataInv, NEW n \in Nat, Took(n)
  PROVE  DataInv'
<1> USE DEF DataInv
<1>1. /\ head \in Nat /\ tail \in Nat /\ n <= head - tail /\ 0 < n /\ tail' = tail + n
      /\ UNCHANGED <<ring, head, closed, want, sent, eof>>
      /\ chunk' = [k \in 1..n |-> Byte(tail + k - 1)]
  BY DEF RingInv, Took
<1>2. \A p : Byte(p)' = Byte(p)
  BY <1>1 DEF Byte
<1>3. \A p : Followers(p)' = Followers(p)
  BY <1>1, <1>2 DEF Followers
<1>4. \A p \in tail'..head' - 1 : p \in tail..head - 1
  BY <1>1
<1>5. chunk' \in Seq(Bytes)
  <2>1. ASSUME NEW k \in 1..n PROVE Byte(tail + k - 1) \in Bytes
    <3>1. tail + k - 1 \in tail..head - 1
      BY <1>1
    <3> QED BY <3>1 DEF StreamInv
  <2> QED BY <1>1, <2>1
<1>6. RingInv'
  <2>1. tail' \in Nat /\ tail' <= head' /\ head' <= tail' + Capacity
    BY <1>1, Numbers DEF RingInv
  <2> QED BY <1>1, <1>5, <2>1 DEF RingInv
<1>7. SentInv' /\ StreamInv'
  BY <1>1, <1>2, <1>4 DEF SentInv, StreamInv
<1>8. AcceptedExactly'
  <2>1. ~eof'
    BY <1>1 DEF AcceptedExactly
  <2> QED BY <1>1, <1>2, <1>3, <1>4, <2>1 DEF AcceptedExactly
<1> QED BY <1>6, <1>7, <1>8

(* The rest leaves the bytes where they are.                               *)
LEMMA OthersKeep ==
  ASSUME DataInv, NEW t \in Threads,
         \/ Ended(t) \/ Shut \/ Quiet(t) \/ UNCHANGED chanVars
         \/ \E n \in 1..MaxWrite : Asked(t, n)
  PROVE  DataInv'
<1> USE DEF DataInv
<1>1. UNCHANGED <<ring, head, tail, sent>>
  BY DEF Ended, Shut, Quiet, Asked, chanVars
<1>2. /\ chunk' = chunk \/ chunk' = <<>>
      /\ eof' = eof \/ (eof' = TRUE /\ closed /\ closed' = closed /\ head = tail)
      /\ closed' = closed \/ closed' = TRUE
  BY DEF Ended, Shut, Quiet, Asked, chanVars
<1>3. \/ want' = want \/ want' = [want EXCEPT ![t] = 0]
      \/ \E n \in 1..MaxWrite : /\ want' = [want EXCEPT ![t] = n]
                                /\ t \in Writers => head + n <= MaxSent
  BY DEF Ended, Shut, Quiet, Asked, chanVars
<1>4. /\ want \in [Threads -> 0..MaxWrite] /\ MaxWrite \in Nat
      /\ sent \in [Writers -> Nat] /\ head \in Nat /\ MaxSent \in Nat
  BY Numbers DEF RingInv
<1>5. want' \in [Threads -> 0..MaxWrite]
  BY <1>3, <1>4
<1>6. SentInv'
  <2> SUFFICES ASSUME NEW w \in Writers
               PROVE  sent[w] + want'[w] <= MaxSent
    BY <1>1 DEF SentInv
  <2>1. /\ w \in Threads /\ sent[w] \in Nat /\ want[w] \in Nat
        /\ sent[w] <= head /\ sent[w] + want[w] <= MaxSent
    BY <1>4, Numbers DEF SentInv
  <2>2. \/ want'[w] = want[w] \/ want'[w] = 0
        \/ \E n \in 1..MaxWrite : want'[w] = n /\ head + n <= MaxSent
    BY <1>3, <1>4, <2>1
  <2> QED BY <1>4, <2>1, <2>2
<1>7. RingInv'
  <2>1. closed' \in BOOLEAN /\ eof' \in BOOLEAN
    <3>1. closed \in BOOLEAN /\ eof \in BOOLEAN
      BY DEF RingInv
    <3>2. closed' = closed => closed' \in BOOLEAN
      BY <3>1, Zenon
    <3>3. eof' = eof => eof' \in BOOLEAN
      BY <3>1, Zenon
    <3>4. (closed' = closed \/ closed' = TRUE) /\ (eof' = eof \/ eof' = TRUE)
      BY <1>2
    <3>5. (closed' = TRUE => closed' \in BOOLEAN) /\ (eof' = TRUE => eof' \in BOOLEAN)
      OBVIOUS
    <3> QED BY <3>2, <3>3, <3>4, <3>5, Zenon
  <2>2. chunk' \in Seq(Bytes)
    <3>1. chunk \in Seq(Bytes) /\ <<>> \in Seq(Bytes)
      BY EmptySeq DEF RingInv
    <3>2. chunk' = chunk \/ chunk' = <<>>
      BY <1>2
    <3> QED BY <3>1, <3>2, Zenon
  <2> QED BY <1>1, <1>5, <2>1, <2>2 DEF RingInv
<1>8. \A p : Byte(p)' = Byte(p) /\ Followers(p)' = Followers(p)
  BY <1>1 DEF Byte, Followers
<1>9. StreamInv'
  BY <1>1, <1>8 DEF StreamInv
<1>10. AcceptedExactly'
  BY <1>1, <1>2, <1>8 DEF AcceptedExactly
<1> QED BY <1>6, <1>7, <1>9, <1>10

-----------------------------------------------------------------------------
(* The channel keeps its invariant.                                        *)
LEMMA Starts ==
  ASSUME Init
  PROVE  ChanInv
<1>1. Own(Locs)
  BY DEF Own, Locs, InQueue
<1>2. WqInv(Queues, Locs)
  BY <1>1, QueuesStart DEF Init
<1>3. Roles
  <2>1. \A t \in Threads : /\ pc[t] = "run" /\ call[t] = NoCall
                           /\ call[t].woken = "run" /\ call[t].expired = "run"
    BY DEF Init, WqInit, NoCall, Call
  <2> QED BY <2>1 DEF Roles, RoleOf, Back
<1>4. head = 0 /\ tail = 0 /\ closed = FALSE /\ eof = FALSE /\ chunk = <<>>
  BY DEF Init, ObjInit
<1>5. RingInv
  <2>1. ring \in [0..Capacity - 1 -> Bytes \cup {None}]
    BY DEF Init, ObjInit
  <2>2. want \in [Threads -> 0..MaxWrite] /\ sent \in [Writers -> Nat]
    BY Numbers DEF Init, ObjInit
  <2>3. chunk \in Seq(Bytes)
    BY <1>4, EmptySeq
  <2>4. closed \in BOOLEAN /\ eof \in BOOLEAN
    BY <1>4
  <2> QED BY <1>4, <2>1, <2>2, <2>3, <2>4, Numbers DEF RingInv
<1>6. SentInv
  BY Numbers DEF Init, ObjInit, SentInv
<1>7. StreamInv /\ AcceptedExactly
  BY <1>4 DEF StreamInv, AcceptedExactly
<1> QED BY <1>2, <1>3, <1>5, <1>6, <1>7 DEF ChanInv

(* Every step of every thread keeps the invariant.                         *)
LEMMA Keeps ==
  ASSUME ChanInv, [Next]_vars
  PROVE  ChanInv'
<1>1. Own(Locs)
  BY DEF Own, Locs, InQueue
<1>2. WqInv(Queues, Locs) /\ Roles /\ DataInv
  BY DEF ChanInv, DataInv
<1>3. CASE UNCHANGED vars
  <2>1. UNCHANGED wqVars /\ UNCHANGED chanVars
    BY <1>3 DEF vars
  <2>2. WqInv(Queues, Locs)'
    BY <1>2, <2>1 DEF WqInv, WqTypeOK, LinkedOnce, CallsNamed, wqVars
  <2>3. Roles'
    BY <1>2, <2>1 DEF Roles, RoleOf, Back, wqVars, chanVars
  <2>4. DataInv'
    BY <1>2, <2>1 DEF DataInv, RingInv, SentInv, StreamInv, AcceptedExactly, Byte,
                      Followers, chanVars
  <2> QED BY <2>2, <2>3, <2>4 DEF ChanInv, DataInv
<1>4. CASE Next
  <2>1. PICK t \in Threads : Turn(t) \/ (WqStep(t) /\ UNCHANGED chanVars)
    BY <1>4, Steps DEF Next
  <2>2. CASE Turn(t)
    <3>1. WqInv(Queues, Locs)'
      BY <1>1, <1>2, <2>2, TurnLocks, QueuesKept
    <3>2. Roles'
      BY <1>2, <2>2, TurnRoles DEF DataInv
    <3>3. DataInv'
      BY <1>2, <2>2, TurnKinds, WroteKeeps, TookKeeps, OthersKeep DEF DataInv
    <3> QED BY <3>1, <3>2, <3>3 DEF ChanInv, DataInv
  <2>3. CASE WqStep(t) /\ UNCHANGED chanVars
    <3>1. WqInv(Queues, Locs)'
      BY <1>1, <1>2, <2>3, QueuesKept
    <3>2. Roles'
      BY <1>2, <2>3, QueueRoles DEF DataInv
    <3>3. DataInv'
      BY <1>2, <2>3, OthersKeep
    <3> QED BY <3>1, <3>2, <3>3 DEF ChanInv, DataInv
  <2> QED BY <2>1, <2>2, <2>3
<1> QED BY <1>3, <1>4

(* The invariant holds in every state of every behaviour.                  *)
LEMMA Invariant == Spec => []ChanInv
<1>1. Init => ChanInv
  BY Starts
<1>2. ChanInv /\ [Next]_vars => ChanInv'
  BY Keeps
<1> QED BY <1>1, <1>2, PTL DEF Spec

(* Every variable of the channel has its type: in particular head never    *)
(* runs more than the capacity ahead of tail, however many threads read    *)
(* and write, and no writer is told of more bytes than it asked to write.  *)
THEOREM ChannelTypeCorrect == Spec => []TypeOK
<1>1. ChanInv => TypeOK
  <2> SUFFICES ASSUME ChanInv PROVE TypeOK
    OBVIOUS
  <2>1. WqTypeOK(Queues, {"run", "wloop", "wmore", "rloop", "rmore", "read", "closing"})
    BY DEF ChanInv, WqInv, Locs
  <2>2. sent \in [Writers -> 0..MaxSent + MaxWrite]
    <3>1. ASSUME NEW w \in Writers PROVE sent[w] \in 0..MaxSent + MaxWrite
      BY Numbers DEF ChanInv, RingInv, SentInv
    <3> QED BY <3>1 DEF ChanInv, RingInv
  <2>3. head \in tail..tail + Capacity
    BY Numbers DEF ChanInv, RingInv
  <2>4. closed \in BOOLEAN /\ eof \in BOOLEAN
    BY DEF ChanInv, RingInv
  <2>5. /\ ring \in [0..Capacity - 1 -> Bytes \cup {None}] /\ tail \in Nat
        /\ want \in [Threads -> 0..MaxWrite] /\ chunk \in Seq(Bytes)
    BY DEF ChanInv, RingInv
  <2> QED BY <2>1, <2>2, <2>3, <2>4, <2>5 DEF TypeOK
<1> QED BY <1>1, Invariant, PTL

(* Whatever cut a write short, the writer's bytes in the ring are the last *)
(* ones it was told were accepted, in order; and end of file is final.     *)
THEOREM BothEndsKnow == Spec => []AcceptedExactly
<1>1. ChanInv => AcceptedExactly
  BY DEF ChanInv
<1> QED BY <1>1, Invariant, PTL
-----------------------------------------------------------------------------
(* The channel implements the bounded pipe.                                *)

(* Sequences that agree where they must.                                   *)
LEMMA PrefixOf ==
  ASSUME NEW S, NEW s \in Seq(S), NEW u \in Seq(S), Len(s) <= Len(u),
         \A k \in 1..Len(s) : u[k] = s[k]
  PROVE  Fifo!IsPrefix(s, u)
<1> DEFINE n == Len(s)
           v == SubSeq(u, 1, n)
<1>1. n \in Nat /\ n <= Len(u) /\ \A i \in 1..n : u[i] \in S
  BY ElementOfSeq
<1>2. v \in Seq(S) /\ Len(v) = n /\ \A i \in 1..n : v[i] = u[i]
  BY <1>1, SubSeqProperties
<1>3. v = s
  <2> HIDE DEF v
  <2> QED BY <1>2, SeqEqual
<1>4. SubSeq(s, 1, Len(s)) = s
  BY SubSeqFull
<1> QED BY <1>3, <1>4 DEF Fifo!IsPrefix

(* A sequence that begins as one and goes on as another is both together.  *)
LEMMA SplitAt ==
  ASSUME NEW S, NEW s \in Seq(S), NEW u \in Seq(S), NEW v \in Seq(S),
         Len(s) = Len(u) + Len(v),
         \A k \in 1..Len(u) : s[k] = u[k],
         \A k \in 1..Len(v) : s[Len(u) + k] = v[k]
  PROVE  s = u \o v
<1>1. /\ u \o v \in Seq(S) /\ Len(u \o v) = Len(s)
      /\ \A i \in 1..Len(s) : (u \o v)[i] = IF i <= Len(u) THEN u[i] ELSE v[i - Len(u)]
  BY ConcatProperties
<1>2. Len(u) \in Nat /\ Len(v) \in Nat
  BY LenProperties
<1>3. ASSUME NEW i \in 1..Len(s) PROVE s[i] = (u \o v)[i]
  <2>1. CASE i <= Len(u)
    BY <1>1, <1>2, <2>1
  <2>2. CASE i > Len(u)
    <3> DEFINE k == i - Len(u)
    <3>1. k \in 1..Len(v) /\ Len(u) + k = i
      BY <1>2, <2>2
    <3>2. (u \o v)[i] = v[k]
      BY <1>1, <1>2, <2>2
    <3> HIDE DEF k
    <3>3. s[Len(u) + k] = v[k]
      BY <3>1
    <3> QED BY <3>1, <3>2, <3>3
  <2> QED BY <1>2, <2>1, <2>2
<1> QED BY <1>1, <1>3, SeqEqual

(* The bytes of a ring r from position l up to h, in order.                *)
LEMMA RingSequence ==
  ASSUME NEW S, NEW r, NEW l \in Nat, NEW h \in Nat, l <= h,
         \A p \in l..h - 1 : r[p % Capacity] \in S,
         NEW s, s = [k \in 1..h - l |-> r[(l + k - 1) % Capacity]]
  PROVE  /\ s \in Seq(S) /\ Len(s) = h - l
         /\ \A k \in 1..h - l : s[k] = r[(l + k - 1) % Capacity]
<1>1. ASSUME NEW k \in 1..h - l PROVE r[(l + k - 1) % Capacity] \in S
  <2>1. l + k - 1 \in l..h - 1
    OBVIOUS
  <2> QED BY <2>1
<1>2. h - l \in Nat
  OBVIOUS
<1> QED BY <1>1, <1>2

(* The pipe holds the bytes from tail up to head, before and after a step. *)
LEMMA PipeIs ==
  ASSUME DataInv
  PROVE  /\ Pipe \in Seq(Bytes) /\ Len(Pipe) = head - tail
         /\ \A k \in 1..head - tail : Pipe[k] = Byte(tail + k - 1)
<1>1. head \in Nat /\ tail \in Nat /\ tail <= head
  BY DEF DataInv, RingInv
<1>2. \A p \in tail..head - 1 : ring[p % Capacity] \in Bytes
  BY DEF DataInv, StreamInv, Byte
<1>3. Pipe = [k \in 1..head - tail |-> ring[(tail + k - 1) % Capacity]]
  BY DEF Pipe, Byte
<1> QED BY <1>1, <1>2, <1>3, RingSequence DEF Byte

(* The same after a step.                                                  *)
LEMMA PipeWillBe ==
  ASSUME DataInv'
  PROVE  /\ Pipe' \in Seq(Bytes) /\ Len(Pipe') = head' - tail'
         /\ \A k \in 1..head' - tail' : Pipe'[k] = ring'[(tail' + k - 1) % Capacity]
<1>1. head' \in Nat /\ tail' \in Nat /\ tail' <= head'
  BY DEF DataInv, RingInv
<1>2. \A p \in tail'..head' - 1 : ring'[p % Capacity] \in Bytes
  BY DEF DataInv, StreamInv, Byte
<1>3. Pipe' = [k \in 1..head' - tail' |-> ring'[(tail' + k - 1) % Capacity]]
  BY DEF Pipe, Byte
<1>4. PICK h \in Nat, l \in Nat : head' = h /\ tail' = l
  BY <1>1
<1>5. PICK r : ring' = r
  OBVIOUS
<1>6. /\ l <= h /\ \A p \in l..h - 1 : r[p % Capacity] \in Bytes
      /\ Pipe' = [k \in 1..h - l |-> r[(l + k - 1) % Capacity]]
  BY <1>1, <1>2, <1>3, <1>4, <1>5
<1>7. /\ Pipe' \in Seq(Bytes) /\ Len(Pipe') = h - l
      /\ \A k \in 1..h - l : Pipe'[k] = r[(l + k - 1) % Capacity]
  BY <1>6, RingSequence
<1> QED BY <1>4, <1>5, <1>7

(* A write puts its bytes at the end of the pipe ...                       *)
LEMMA WritePuts ==
  ASSUME DataInv, DataInv', NEW t, NEW n \in Nat, Wrote(t, n)
  PROVE  Fifo!Put
<1>1. /\ head \in Nat /\ tail \in Nat /\ tail <= head /\ Capacity \in Nat
      /\ head' = head + n /\ tail' = tail /\ head + n <= tail + Capacity
      /\ ~closed /\ closed' = closed /\ chunk' = chunk
  BY Numbers DEF DataInv, RingInv, Wrote
<1>2. ASSUME NEW k \in 1..head - tail PROVE Pipe'[k] = Pipe[k]
  <2>1. k \in 1..head' - tail' /\ tail + k - 1 \in tail..head - 1
    BY <1>1
  <2>2. Pipe[k] = ring[(tail + k - 1) % Capacity]
    BY PipeIs DEF Byte
  <2>3. Pipe'[k] = ring'[(tail + k - 1) % Capacity]
    BY <1>1, <2>1, PipeWillBe
  <2>4. ring'[(tail + k - 1) % Capacity] = ring[(tail + k - 1) % Capacity]
    <3> DEFINE p == tail + k - 1
    <3>1. p \in tail..head - 1
      BY <2>1
    <3> HIDE DEF p
    <3>2. ring'[p % Capacity] = ring[p % Capacity]
      BY <3>1 DEF Wrote, Byte
    <3> QED BY <3>2 DEF p
  <2> QED BY <2>2, <2>3, <2>4
<1>3. Len(Pipe) = head - tail /\ Len(Pipe') = head + n - tail
  BY <1>1, PipeIs, PipeWillBe
<1>4. Pipe \in Seq(Bytes) /\ Pipe' \in Seq(Bytes)
  BY PipeIs, PipeWillBe
<1>5. Fifo!IsPrefix(Pipe, Pipe')
  <2>1. Len(Pipe) <= Len(Pipe') /\ \A k \in 1..Len(Pipe) : Pipe'[k] = Pipe[k]
    BY <1>1, <1>2, <1>3
  <2> QED BY <1>4, <2>1, PrefixOf
<1>6. Len(Pipe') <= Capacity
  BY <1>1, <1>3
<1> QED BY <1>1, <1>5, <1>6 DEF Fifo!Put

(* ... and a read hands out its front.                                     *)
LEMMA ReadGets ==
  ASSUME DataInv, DataInv', NEW n \in Nat, Took(n)
  PROVE  Fifo!Get
<1>1. /\ head \in Nat /\ tail \in Nat /\ tail <= head /\ 0 < n /\ n <= head - tail
      /\ head' = head /\ tail' = tail + n /\ ring' = ring /\ closed' = closed
      /\ chunk' = [k \in 1..n |-> Byte(tail + k - 1)]
  BY DEF DataInv, RingInv, Took
<1>2. chunk' \in Seq(Bytes) /\ Len(chunk') = n
  <2>1. chunk' \in Seq(Bytes)
    BY DEF DataInv, RingInv
  <2> QED BY <1>1, <2>1
<1>3. Pipe \in Seq(Bytes) /\ Pipe' \in Seq(Bytes)
      /\ Len(Pipe) = head - tail /\ Len(Pipe') = head - tail - n
  BY <1>1, PipeIs, PipeWillBe
<1>4. ASSUME NEW k \in 1..n PROVE Pipe[k] = chunk'[k]
  <2>1. k \in 1..head - tail
    BY <1>1
  <2> QED BY <1>1, <2>1, PipeIs
<1>5. ASSUME NEW k \in 1..head - tail - n PROVE Pipe[n + k] = Pipe'[k]
  <2>1. n + k \in 1..head - tail /\ k \in 1..head' - tail'
    BY <1>1
  <2>2. Pipe[n + k] = ring[(tail + (n + k) - 1) % Capacity]
    BY <2>1, PipeIs DEF Byte
  <2>3. Pipe'[k] = ring[(tail + n + k - 1) % Capacity]
    BY <1>1, <2>1, PipeWillBe
  <2>4. tail + (n + k) - 1 = tail + n + k - 1
    BY <1>1
  <2> QED BY <2>2, <2>3, <2>4
<1>6. Pipe = chunk' \o Pipe'
  <2>1. /\ Len(Pipe) = Len(chunk') + Len(Pipe')
        /\ \A k \in 1..Len(chunk') : Pipe[k] = chunk'[k]
        /\ \A k \in 1..Len(Pipe') : Pipe[Len(chunk') + k] = Pipe'[k]
    BY <1>1, <1>2, <1>3, <1>4, <1>5
  <2> QED BY <1>2, <1>3, <2>1, SplitAt
<1>7. chunk' # <<>>
  BY <1>1, <1>2
<1> QED BY <1>1, <1>6, <1>7 DEF Fifo!Get

(* Every step of the channel is one of the pipe, or leaves it alone.       *)
LEMMA StepRefines ==
  ASSUME ChanInv, ChanInv', [Next]_vars
  PROVE  [Fifo!Next]_(Fifo!vars)
<1>1. WqInv(Queues, Locs) /\ Roles /\ DataInv /\ DataInv'
  BY DEF ChanInv, DataInv
<1>2. ASSUME UNCHANGED <<ring, head, tail>>
      PROVE  Pipe' = Pipe
  BY <1>2 DEF Pipe, Byte
<1>3. CASE UNCHANGED chanVars
  BY <1>2, <1>3 DEF chanVars, Fifo!vars
<1>4. ASSUME NEW t \in Threads, Turn(t)
      PROVE  [Fifo!Next]_(Fifo!vars)
  <2>1. CASE \E n \in Nat : Wrote(t, n)
    BY <1>1, <2>1, WritePuts DEF Fifo!Next
  <2>2. CASE \E n \in Nat : Took(n)
    BY <1>1, <2>2, ReadGets DEF Fifo!Next
  <2>3. CASE Ended(t) \/ \E n \in 1..MaxWrite : Asked(t, n)
    <3>1. Pipe' = Pipe /\ chunk' = chunk /\ closed' = closed
      BY <1>2, <2>3 DEF Ended, Asked
    <3> QED BY <3>1 DEF Fifo!vars
  <2>4. CASE Shut
    <3>1. Pipe' = Pipe /\ chunk' = chunk /\ closed' = TRUE
      BY <1>2, <2>4 DEF Shut
    <3> QED BY <3>1 DEF Fifo!Next, Fifo!Close
  <2>5. CASE Quiet(t)
    <3>1. Pipe' = Pipe /\ closed' = closed /\ (chunk' = chunk \/ chunk' = <<>>)
      BY <1>2, <2>5 DEF Quiet
    <3> QED BY <3>1 DEF Fifo!Next, Fifo!Returned, Fifo!vars
  <2> QED BY <1>1, <1>4, <2>1, <2>2, <2>3, <2>4, <2>5, TurnKinds DEF DataInv
<1>5. UNCHANGED vars => UNCHANGED chanVars
  BY DEF vars
<1> QED BY <1>3, <1>4, <1>5, Steps DEF Next

(* For any number of readers and writers, any capacity and any sizes, the  *)
(* channel is a bounded pipe: bytes come out once and in order, never more *)
(* than fit are inside, and none goes in after close.                      *)
THEOREM ChannelIsPipe == Spec => RefinesFifo
<1>1. Init => Fifo!Init
  <2> SUFFICES ASSUME Init PROVE Fifo!Init
    OBVIOUS
  <2>1. head = 0 /\ tail = 0 /\ closed = FALSE /\ chunk = <<>>
    BY DEF Init, ObjInit
  <2>2. DataInv
    BY Starts DEF ChanInv, DataInv
  <2>3. Pipe \in Seq(Bytes) /\ Len(Pipe) = 0
    BY <2>1, <2>2, PipeIs
  <2>4. Pipe = <<>>
    BY <2>3, EmptySeq
  <2> QED BY <2>1, <2>4 DEF Fifo!Init
<1>2. ChanInv /\ ChanInv' /\ [Next]_vars => [Fifo!Next]_(Fifo!vars)
  BY StepRefines
<1> QED BY <1>1, <1>2, Invariant, PTL DEF Spec, RefinesFifo, Fifo!Spec
=============================================================================
