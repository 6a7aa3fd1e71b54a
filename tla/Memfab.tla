-------------------------------- MODULE Memfab --------------------------------
(***************************************************************************)
(* The memory fabric (kernel/graph/memfab.c): a bounded store of entries   *)
(* by key, on an eviction list, that is written out and merged back over a *)
(* restart.  A put, a get and writing out are each one critical section of *)
(* fab_lock, a merge one per entry; a key stands for the digest of a name, *)
(* and a bucket for its chain.                                             *)
(***************************************************************************)
EXTENDS Integers, Sequences, SequencesExt, FiniteSets, FiniteSetsExt, TLC

CONSTANTS Names, Values,   \* Values: records id, len
          Cap              \* fab_cap

VARIABLES lruList,    \* the entries, by key, in list order
          entry,      \* entry[k] : the value stored under k
          fab,        \* bytes and entries, and what the graph's node shows of them
          recent,     \* the keys in the order they were last used
          blob,       \* what was last written out
          merge       \* what is left to put of the merge under way

fabVars == <<lruList, entry, fab, recent, blob, merge>>

(* publish: the node shows the counters.                                   *)
Published(b, n) == [bytes |-> b, entries |-> n, shown |-> [bytes |-> b, entries |-> n]]

Init == /\ lruList = <<>> /\ entry = <<>> /\ recent = <<>>
        /\ fab = Published(0, 0)
        /\ blob = <<>> /\ merge = <<>>
-----------------------------------------------------------------------------
St == [l |-> lruList, e |-> entry, b |-> fab.bytes, n |-> fab.entries, r |-> recent, new |-> FALSE]
Without(l, k) == SelectSeq(l, LAMBDA x : x # k)

(* Mutant: the entries counter is left alone.                              *)
VictimUncounted(s) == LET v == Last(s.l) IN
  [s EXCEPT !.l = Front(@), !.e = [k \in DOMAIN @ \ {v} |-> @[k]], !.b = @ - s.e[v].len,
            !.r = Without(@, v)]

(* evict_locked: the last of the list goes while the value does not fit.   *)
Victim(s) == LET v == Last(s.l) IN
  [s EXCEPT !.l = Front(@), !.e = [k \in DOMAIN @ \ {v} |-> @[k]], !.b = @ - s.e[v].len,
            !.n = @ - 1, !.r = Without(@, v)]
RECURSIVE Evict(_, _)
Evict(s, want) == IF s.b + want > Cap /\ s.l # <<>> THEN Evict(Victim(s), want) ELSE s

(* rk_memfab_put: a stored key keeps its value and moves to the tail; a    *)
(* new one goes to the head, if there is memory for it once the victims    *)
(* are gone.                                                               *)
PutOne(s, k, v, memory) ==
  IF k \in DOMAIN s.e
  THEN [s EXCEPT !.l = Append(Without(@, k), k), !.r = Append(Without(@, k), k)]
  ELSE LET t == Evict(s, v.len) IN
       IF ~memory THEN t
       ELSE [l |-> <<k>> \o t.l, e |-> (k :> v) @@ t.e, b |-> t.b + v.len, n |-> t.n + 1, r |-> Append(t.r, k),
             new |-> TRUE]

(* A put publishes the counters when it stored something.                  *)
Commit(s) == /\ lruList' = s.l /\ entry' = s.e /\ recent' = s.r
             /\ fab' = IF s.new THEN Published(s.b, s.n) ELSE [fab EXCEPT !.bytes = s.b, !.entries = s.n]

FabPut(k, v) == (\E memory \in BOOLEAN : Commit(PutOne(St, k, v, memory))) /\ UNCHANGED <<blob, merge>>

FabGet(k) == /\ UNCHANGED <<entry, blob, merge>>
             /\ IF k \in DOMAIN entry
                THEN /\ lruList' = Append(Without(lruList, k), k)
                     /\ recent' = Append(Without(recent, k), k)
                     /\ UNCHANGED fab
                ELSE UNCHANGED <<lruList, recent, fab>>

(* rk_memfab_serialize: the entries in list order.                         *)
Serialize == /\ blob' = [i \in DOMAIN lruList |-> [k |-> lruList[i], v |-> entry[lruList[i]]]]
             /\ UNCHANGED <<lruList, entry, fab, recent, merge>>

(* rk_memfab_merge of what was written, or of the front of it when the     *)
(* blob is cut short: the items before the cut are put one by one, each    *)
(* under the lock, and one that finds no memory is passed over.            *)
MergeBegin(n) == /\ merge = <<>> /\ merge' = SubSeq(blob, 1, n)
                 /\ UNCHANGED <<lruList, entry, fab, recent, blob>>
MergePut == /\ merge # <<>> /\ merge' = Tail(merge)
            /\ \E memory \in BOOLEAN : Commit(PutOne(St, merge[1].k, merge[1].v, memory))
            /\ UNCHANGED blob

Restart == /\ lruList' = <<>> /\ entry' = <<>> /\ recent' = <<>> /\ merge' = <<>>
           /\ fab' = Published(0, 0)
           /\ UNCHANGED blob

Next == \/ \E k \in Names : FabGet(k) \/ \E v \in Values : FabPut(k, v)
        \/ Serialize \/ MergePut \/ Restart
        \/ \E n \in 1..Len(blob) : MergeBegin(n)
-----------------------------------------------------------------------------
Total == MapThenSumSet(LAMBDA k : entry[k].len, DOMAIN entry)

(* The list, the chains and the counters tell the same story through every *)
(* eviction and merge, and the budget is only exceeded by a single entry   *)
(* larger than it; what the graph shows is never less than what is there.  *)
FabricSound ==
  /\ Range(lruList) = DOMAIN entry /\ IsInjective(lruList)
  /\ fab.bytes = Total /\ fab.entries = Cardinality(DOMAIN entry)
  /\ fab.bytes <= Cap \/ fab.entries = 1
  /\ fab.shown.bytes >= fab.bytes /\ fab.shown.entries >= fab.entries

(* A merge that finds memory and is not disturbed.                         *)
Merged(s) == FoldLeft(LAMBDA t, x : PutOne(t, x.k, x.v, TRUE), s, blob)

(* A blob that fits beside what is here adds what is missing, changes no   *)
(* value and evicts nothing, whatever the order it is put in.              *)
MergeAdds ==
  LET new == {i \in DOMAIN blob : blob[i].k \notin DOMAIN entry}
  IN Total + MapThenSumSet(LAMBDA i : blob[i].v.len, new) <= Cap
     => Merged(St).e = entry @@ [k \in {blob[i].k : i \in new} |->
                                   blob[CHOOSE i \in new : blob[i].k = k].v]

(* Stated, and not kept.  The header of memfab.c: merging is idempotent.   *)
MergeIdempotent == Merged(Merged(St)).e = Merged(St).e

(* Stated, and not kept: the node in the graph shows what is stored.       *)
NodeShowsFabric == fab.shown = [bytes |-> fab.bytes, entries |-> fab.entries]

(* The header of memfab.c: it evicts the least recently used entry.        *)
EvictsOldest == [][\A k \in DOMAIN entry \ DOMAIN entry', j \in DOMAIN entry \cap DOMAIN entry' :
                     entry' # <<>> => SelectInSeq(recent, LAMBDA x : x = k) < SelectInSeq(recent, LAMBDA x : x = j)]_fabVars
=============================================================================
