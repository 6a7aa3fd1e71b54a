----------------------------- MODULE SheObjects -----------------------------
(***************************************************************************)
(* kernel/she/value.c: the heap objects of one VM (interned text, a list, a *)
(* map, the chunk of a function) and the memory budget they are charged     *)
(* to.  Sizes are in units: an object's header, a list item, a map entry, a *)
(* byte of code are 1, a line number is 4.                                  *)
(***************************************************************************)
EXTENDS Integers, Sequences, FiniteSets, FiniteSetsExt

CONSTANTS Keys,       \* what map keys and texts are made of
          Hash(_),    \* rk_fnv1a
          Vals,
          Items,      \* what is pushed on the list, in turn
          MemLimit,   \* vm->mem_limit
          ListFirst, MapFirst, ChunkFirst,   \* the first capacities: 8, 16, 64
          Deletes     \* whether she_map_del is called (it has no caller)

VARIABLES mem,      \* vm->mem_used
          failed,   \* vm->failed
          texts,    \* the interned texts
          list,     \* [items, cap]
          map,      \* [slot, cap, len]
          chunk,    \* [len, cap]: code and lines are cap long
          orphan,   \* memory no object points to any more
          said,     \* history: what the map should hold
          pushed    \* history: what the list should hold

objVars == <<mem, failed, texts, list, map, chunk, orphan, said, pushed>>

Header == 1
Empty  == [used |-> FALSE, tomb |-> FALSE]
Slots(cap) == 0..(cap - 1)

Init ==
  /\ texts = {} /\ list = [items |-> <<>>, cap |-> 0]
  /\ map = [slot |-> <<>>, cap |-> 0, len |-> 0] /\ chunk = [len |-> 0, cap |-> 0]
  /\ mem = 3 * Header /\ failed = FALSE /\ orphan = 0
  /\ said = <<>> /\ pushed = <<>>

(* vm_alloc: refused past the limit, and the script has failed then.        *)
Fits(n) == mem + n <= MemLimit
Refused == failed' = TRUE /\ UNCHANGED mem

(* map_find: the slot of key k, or the one to put it in: the first          *)
(* tombstone passed, else the never used slot that ended the search.  No    *)
(* slot ends it when there is neither: the probe would run forever.         *)
Probe(cap, k) == [i \in Slots(cap) |-> (Hash(k) + i) % cap]
Ends(slot, cap, k) ==
  \E i \in Slots(cap) : \/ slot[i].used /\ slot[i].k = k
                        \/ ~slot[i].used /\ ~slot[i].tomb
Find(slot, cap, k) ==
  LET at(i)  == slot[Probe(cap, k)[i]]
      stops  == {i \in Slots(cap) : \/ at(i).used /\ at(i).k = k
                                    \/ ~at(i).used /\ ~at(i).tomb}
      tombs  == {i \in Slots(cap) : ~at(i).used /\ at(i).tomb /\ i < Min(stops)}
  IN  IF at(Min(stops)).used \/ tombs = {} THEN Probe(cap, k)[Min(stops)]
      ELSE Probe(cap, k)[Min(tombs)]

(* map_grow: twice the entries, the live ones found a place again, and the  *)
(* old table given back.                                                    *)
Bigger(c, first) == IF c = 0 THEN first ELSE 2 * c

(* A growth that keeps the places the old capacity gave.                   *)
CopiedInPlace(m, cap) ==
  [slot |-> [i \in Slots(cap) |-> IF i < m.cap THEN m.slot[i] ELSE Empty],
   cap |-> cap, len |-> m.len]

Rehash(m, cap) ==
  LET live == {i \in DOMAIN m.slot : m.slot[i].used}
  IN  [slot |-> FoldSet(LAMBDA i, fresh : [fresh EXCEPT ![Find(fresh, cap, m.slot[i].k)] = m.slot[i]],
                        [i \in Slots(cap) |-> Empty], live),
       cap |-> cap, len |-> Cardinality(live)]

Put(m, k, v) ==
  LET at == Find(m.slot, m.cap, k)
  IN  [m EXCEPT !.slot[at] = [used |-> TRUE, tomb |-> FALSE, k |-> k, v |-> v],
                !.len = IF m.slot[at].used THEN @ ELSE @ + 1]

Full(m) == m.len + 1 > (m.cap * 3) \div 4

(* she_string_new: a text met before costs nothing.                         *)
Intern(k) ==
  /\ ~failed /\ k \notin texts
  /\ IF Fits(Header + 1) THEN mem' = mem + Header + 1 /\ texts' = texts \union {k} /\ UNCHANGED failed
     ELSE Refused /\ UNCHANGED texts
  /\ UNCHANGED <<list, map, chunk, orphan, said, pushed>>

(* she_map_set.                                                             *)
MapSet(k, v) ==
  /\ ~failed /\ k \in texts
  /\ LET cap   == Bigger(map.cap, MapFirst)
         ready == IF Full(map) THEN Rehash(map, cap) ELSE map
     IN  IF Full(map) /\ ~Fits(cap) THEN Refused /\ UNCHANGED <<map, said>>
         ELSE /\ mem' = IF Full(map) THEN mem + cap - map.cap ELSE mem
              /\ map' = Put(ready, k, v)
              /\ said' = [x \in DOMAIN said \union {k} |-> IF x = k THEN v ELSE said[x]]
              /\ UNCHANGED failed
  /\ UNCHANGED <<texts, list, chunk, orphan, pushed>>

(* she_map_del leaves a tombstone.                                          *)
MapDel(k) ==
  /\ Deletes /\ ~failed /\ map.cap > 0 /\ Ends(map.slot, map.cap, k)
  /\ LET at == Find(map.slot, map.cap, k)
     IN  map.slot[at].used /\ map' = [map EXCEPT !.slot[at] = [used |-> FALSE, tomb |-> TRUE], !.len = @ - 1]
  /\ said' = [x \in DOMAIN said \ {k} |-> said[x]]
  /\ UNCHANGED <<mem, failed, texts, list, chunk, orphan, pushed>>

(* she_list_push: the new items are allocated before the old are freed.     *)
ListPush(v) ==
  /\ ~failed
  /\ LET cap  == Bigger(list.cap, ListFirst)
         full == Len(list.items) >= list.cap
     IN  IF full /\ ~Fits(cap) THEN Refused /\ UNCHANGED <<list, pushed>>
         ELSE /\ mem' = IF full THEN mem + cap - list.cap ELSE mem
              /\ list' = [items |-> Append(list.items, v), cap |-> IF full THEN cap ELSE list.cap]
              /\ pushed' = Append(pushed, v) /\ UNCHANGED failed
  /\ UNCHANGED <<texts, map, chunk, orphan, said>>

(* she_chunk_write: two arrays grow together; when the second does not fit, *)
(* the first was already allocated and nothing points to it.                *)
ChunkWrite ==
  /\ ~failed
  /\ LET cap  == Bigger(chunk.cap, ChunkFirst)
         full == chunk.len >= chunk.cap
     IN  IF full /\ ~Fits(cap) THEN Refused /\ UNCHANGED <<chunk, orphan>>
         ELSE IF full /\ ~Fits(5 * cap) THEN
           failed' = TRUE /\ mem' = mem + cap /\ orphan' = orphan + cap /\ UNCHANGED chunk
         ELSE /\ chunk' = [len |-> chunk.len + 1, cap |-> IF full THEN cap ELSE chunk.cap]
              /\ mem' = IF full THEN mem + 5 * (cap - chunk.cap) ELSE mem
              /\ UNCHANGED <<failed, orphan>>
  /\ UNCHANGED <<texts, list, map, said, pushed>>

(* The shell goes on after an error with the objects it has.                *)
Recover == failed /\ failed' = FALSE /\ UNCHANGED <<mem, texts, list, map, chunk, orphan, said, pushed>>

Next ==
  \/ \E k \in Keys : Intern(k) \/ MapDel(k) \/ \E v \in Vals : MapSet(k, v)
  \/ ListPush(Items[(Len(pushed) % Len(Items)) + 1])
  \/ ChunkWrite \/ Recover

(* she_map_get and she_map_next: every probe ends, and finds exactly what   *)
(* was set last, across every growth of the table.                          *)
MapHolds ==
  /\ \A k \in Keys : map.cap > 0 => Ends(map.slot, map.cap, k)
  /\ \A k \in Keys : LET at == Find(map.slot, map.cap, k)
                     IN  IF k \in DOMAIN said THEN map.cap > 0 /\ map.slot[at].used /\ map.slot[at].v = said[k]
                         ELSE map.cap > 0 => ~map.slot[at].used
  /\ map.len = Cardinality(DOMAIN said)

(* The VM is charged for what it holds and for nothing else, never past its *)
(* limit, and a refused growth loses no item.                               *)
ChargedExactly ==
  /\ mem = 3 * Header + (Header + 1) * Cardinality(texts) + list.cap + map.cap + 5 * chunk.cap + orphan
  /\ mem <= MemLimit
  /\ list.items = pushed /\ Len(pushed) <= list.cap

ObjectsSound == MapHolds /\ ChargedExactly

(* value.c:4-8: when the VM goes, every object it made goes with it; memory *)
(* no object points to stays.                                               *)
NothingLost == orphan = 0
=============================================================================
