---------------------------------- MODULE Log ----------------------------------
(***************************************************************************)
(* The kernel log (kernel/core/log.c): records go whole into a ring of     *)
(* bytes under a lock, and readers follow with cursors of their own, at    *)
(* any distance.  A byte is known by its position in everything ever       *)
(* logged.  Warnings also become graph events, after the lock is dropped.  *)
(***************************************************************************)
EXTENDS Integers, Sequences, FiniteSets

CONSTANTS Cpus, Readers,
          RingBytes, LineMax,   \* LOG_RING_BYTES, LOG_LINE_MAX
          Lens,                 \* lengths of formatted records
          Warn, Level,          \* RK_LOG_WARN, current_level
          Sizes,                \* sizes of a reader's buffer
          MaxBytes              \* bound on what is logged

VARIABLES bytes,     \* ring
          lhead,     \* ring_head
          records,   \* record_count
          writer,    \* writer[c] : the step of rk_log, its level
          curs,      \* a reader's cursor
          seen,      \* what its last read returned
          events     \* record numbers of the graph events

logVars == <<bytes, lhead, records, writer, curs, seen, events>>

LogAssumption == /\ RingBytes \in Nat \ {0} /\ LineMax \in Nat \ {0}
                 /\ Lens \subseteq Nat /\ Sizes \subseteq Nat

Init == /\ bytes = [k \in 0..(RingBytes - 1) |-> -1]
        /\ lhead = 0 /\ records = 0
        /\ writer = [c \in Cpus |-> "out"]
        /\ curs = [r \in Readers |-> 0] /\ seen = [r \in Readers |-> <<>>]
        /\ events = {}
-----------------------------------------------------------------------------
(* The line with its newline: cut to the line buffer less a terminator,    *)
(* where a full line loses the newline.                                    *)
LineLen(n) == IF n + 1 < LineMax THEN n + 1 ELSE LineMax - 1

(* ring_append.                                                            *)
RingAppend(n) == [k \in DOMAIN bytes |->
  LET hits == {i \in 0..(n - 1) : (lhead + i) % RingBytes = k}
  IN IF hits = {} THEN bytes[k] ELSE lhead + CHOOSE i \in hits : \A j \in hits : j <= i]

(* rk_log: a record of level lvl, n characters long, under the lock ...    *)
LogRecord(c, lvl, n) ==
  /\ writer[c] = "out" /\ lvl <= Level /\ lhead + LineLen(n) <= MaxBytes
  /\ bytes' = RingAppend(LineLen(n))
  /\ lhead' = lhead + LineLen(n)
  /\ records' = records + 1
  /\ writer' = [writer EXCEPT ![c] = IF lvl <= Warn THEN "event" ELSE "out"]
  /\ UNCHANGED <<curs, seen, events>>

(* ... and its event, which reads the count anew.                          *)
LogEvent(c) ==
  /\ writer[c] = "event"
  /\ events' = events \cup {records}
  /\ writer' = [writer EXCEPT ![c] = "out"]
  /\ UNCHANGED <<bytes, lhead, records, curs, seen>>

(* Mutant: a cursor older than the ring is not clamped.                    *)
FromCursor(cursor) == cursor

Start(cursor) == LET oldest == IF lhead > RingBytes THEN lhead - RingBytes ELSE 0
                 IN IF cursor < oldest THEN oldest ELSE cursor

(* rk_log_read, in one critical section.                                   *)
LogRead(r, size) ==
  LET pos   == Start(curs[r])
      avail == IF lhead > pos THEN lhead - pos ELSE 0
      n     == IF avail < size THEN avail ELSE size
  IN /\ seen' = [seen EXCEPT ![r] = [i \in 1..n |-> bytes[(pos + i - 1) % RingBytes]]]
     /\ curs' = [curs EXCEPT ![r] = pos + n]
     /\ UNCHANGED <<bytes, lhead, records, writer, events>>

Next == \/ \E c \in Cpus : \/ \E lvl \in {Warn, Warn + 1, Level + 1}, n \in Lens : LogRecord(c, lvl, n)
                           \/ LogEvent(c)
        \/ \E r \in Readers, s \in Sizes : LogRead(r, s)
-----------------------------------------------------------------------------
(* A reader at any distance gets bytes that follow one another up to its   *)
(* cursor: it loses the oldest, and never reads another record's.          *)
LogReadExact ==
  \A r \in Readers : \A i \in DOMAIN seen[r] : seen[r][i] = curs[r] - Len(seen[r]) + i - 1
=============================================================================
