--------------------------------- MODULE Kv ---------------------------------
(***************************************************************************)
(* The paged attention cache (kernel/ai/kv.c): sequences share pages of    *)
(* equal layer, position and contents by a reference count, fork shares a  *)
(* prefix, and pages nobody references are evicted in LRU order when the   *)
(* budget is short.  Every operation is one critical section of kv_lock; a *)
(* page is named by its digest.  A page holds one token.                   *)
(***************************************************************************)
EXTENDS Integers, Sequences, SequencesExt, FiniteSets, FiniteSetsExt

CONSTANTS Caches, Contents, Layers, MaxPages,
          PageBytes, Budget    \* size of a page's keys and values, kv_budget

VARIABLES lru,        \* the stored pages, least recently used first
          ref,        \* ref[digest] : refcount of a stored page
          cache,      \* cache[c] : live or not, its pages and its tokens
          bytesLive,  \* kv_bytes_live
          wrote       \* wrote[c] : the pages the sequence computed

(* Caches and layers are finite, a page has a size.                        *)
KvAssumption ==
  /\ IsFiniteSet(Caches) /\ IsFiniteSet(Layers) /\ MaxPages \in Nat
  /\ PageBytes \in Nat \ {0} /\ Budget \in Nat

kvVars == <<lru, ref, cache, bytesLive, wrote>>

Digests == [layer : Layers, pos : Nat, data : Contents]
Free == [live |-> FALSE, pages |-> <<>>, tokens |-> 0]

KvInit == /\ lru = <<>> /\ ref = <<>> /\ bytesLive = 0
          /\ cache = [c \in Caches |-> Free]
          /\ wrote = [c \in Caches |-> <<>>]
-----------------------------------------------------------------------------
Drop(f, D) == [x \in DOMAIN f \ D |-> f[x]]

(* The sequence s without its elements at the positions in P.              *)
Without(s, P) ==
  LET kept    == DOMAIN s \ P
      rank(i) == Cardinality({j \in kept : j <= i})
  IN [k \in 1..Cardinality(kept) |-> s[CHOOSE i \in kept : rank(i) = k]]

Remains(st, gone) ==
  [lru   |-> Without(st.lru, gone), ref |-> Drop(st.ref, {st.lru[i] : i \in gone}),
   bytes |-> st.bytes - PageBytes * Cardinality(gone)]

(* Mutant: a page goes in its turn, referenced or not.                     *)
OldestFirst(st) == DOMAIN st.lru

(* The places of the pages nobody references, and the bytes once those     *)
(* before the place i are gone.                                            *)
Idle(st) == {i \in DOMAIN st.lru : st.ref[st.lru[i]] = 0}
BytesAt(st, i) == st.bytes - PageBytes * Cardinality({j \in Idle(st) : j < i})

(* Mutant: eviction makes no room for the page to come.                    *)
EvictToBudget(st, want, budget) == Remains(st, {i \in Idle(st) : BytesAt(st, i) > budget})

(* evict_locked: from the old end of the list, a referenced page stays and *)
(* the others go, until what those before freed makes the room wanted.     *)
Evict(st, want, budget) == Remains(st, {i \in Idle(st) : BytesAt(st, i) + want > budget})
Now == [lru |-> lru, ref |-> ref, bytes |-> bytesLive]
Commit(st) == lru' = st.lru /\ ref' = st.ref /\ bytesLive' = st.bytes

Create(c) == /\ ~cache[c].live
             /\ cache' = [cache EXCEPT ![c] = [Free EXCEPT !.live = TRUE]]
             /\ UNCHANGED <<lru, ref, bytesLive, wrote>>

(* The references of a sequence's pages from i on are dropped.             *)
Release(r, pages, i) ==
  [d \in DOMAIN r |-> r[d] - Cardinality({j \in i..Len(pages) : pages[j] = d})]

KvDestroy(c) == /\ cache[c].live
                /\ ref' = Release(ref, cache[c].pages, 1)
                /\ cache' = [cache EXCEPT ![c] = Free]
                /\ wrote' = [wrote EXCEPT ![c] = <<>>]
                /\ UNCHANGED <<lru, bytesLive>>

(* rk_kv_append: adopt the stored page with this digest, or make room and  *)
(* store it; without memory the room is made all the same.                 *)
Takes(c, d) == /\ cache' = [cache EXCEPT ![c].pages = Append(@, d), ![c].tokens = @ + 1]
               /\ wrote' = [wrote EXCEPT ![c] = Append(@, d)]
Adopt(c, d) == /\ d \in DOMAIN ref /\ Takes(c, d)
               /\ lru' = Append(RemoveFirst(lru, d), d)
               /\ ref' = [ref EXCEPT ![d] = @ + 1] /\ UNCHANGED bytesLive
Store(c, d) ==
  LET st == Evict(Now, PageBytes, Budget)
  IN /\ d \notin DOMAIN ref /\ Takes(c, d)
     /\ Commit([lru |-> Append(st.lru, d), bytes |-> st.bytes + PageBytes,
                ref |-> [x \in DOMAIN st.ref \cup {d} |-> IF x = d THEN 1 ELSE st.ref[x]]])
NoMemory(d) == d \notin DOMAIN ref /\ Commit(Evict(Now, PageBytes, Budget)) /\ UNCHANGED <<cache, wrote>>

KvAppend(c, layer, data) ==
  LET d == [layer |-> layer, pos |-> cache[c].tokens, data |-> data] IN
  /\ cache[c].live /\ Len(cache[c].pages) < MaxPages
  /\ Adopt(c, d) \/ Store(c, d) \/ NoMemory(d)

(* rk_kv_fork into a fresh cache.                                          *)
Fork(dst, src, upto) ==
  LET wanted == upto * Cardinality(Layers)
      want   == Min({wanted, Len(cache[src].pages)})
      prefix == SubSeq(cache[src].pages, 1, want)
  IN /\ dst # src /\ cache[dst].live /\ cache[src].live /\ cache[dst].pages = <<>>
     /\ want <= MaxPages
     /\ ref' = [d \in DOMAIN ref |-> ref[d] + Cardinality({j \in DOMAIN prefix : prefix[j] = d})]
     /\ cache' = [cache EXCEPT ![dst].pages = prefix, ![dst].tokens = upto]
     /\ wrote' = [wrote EXCEPT ![dst] = SubSeq(wrote[src], 1, want)]
     /\ UNCHANGED <<lru, bytesLive>>

Trim(c, tokens) ==
  LET keep == tokens * Cardinality(Layers) IN
  /\ cache[c].live /\ keep < Len(cache[c].pages)
  /\ ref' = Release(ref, cache[c].pages, keep + 1)
  /\ cache' = [cache EXCEPT ![c].pages = SubSeq(@, 1, keep), ![c].tokens = tokens]
  /\ wrote' = [wrote EXCEPT ![c] = SubSeq(@, 1, keep)]
  /\ UNCHANGED <<lru, bytesLive>>

(* rk_kv_pressure_evict: evict to a budget lowered for this call.          *)
PressureEvict(want) ==
  /\ Commit(Evict(Now, 0, IF Budget > want THEN Budget - want ELSE Budget))
  /\ UNCHANGED <<cache, wrote>>

KvNext == \/ \E c \in Caches :
               \/ Create(c) \/ KvDestroy(c)
               \/ \E l \in Layers, x \in Contents : KvAppend(c, l, x)
               \/ \E s \in Caches, n \in 0..1 : Fork(c, s, n)
               \/ \E n \in 0..1 : Trim(c, n)
          \/ \E want \in {PageBytes, Budget - 1} : PressureEvict(want)
-----------------------------------------------------------------------------
(* The places where a sequence names the page d.                           *)
References(d) == {m \in Caches \X (1..MaxPages) :
                    m[2] \in DOMAIN cache[m[1]].pages /\ cache[m[1]].pages[m[2]] = d}

(* A live sequence finds every page it computed, in order, whatever was    *)
(* shared, forked, trimmed or evicted; a page's count is its references,   *)
(* and the bytes counted are those of the stored pages.                    *)
PagesLive ==
  /\ \A c \in Caches : cache[c].pages = wrote[c] /\ Range(wrote[c]) \subseteq DOMAIN ref
  /\ \A d \in DOMAIN ref : ref[d] = Cardinality(References(d))
  /\ Range(lru) = DOMAIN ref /\ IsInjective(lru)
  /\ bytesLive = PageBytes * Len(lru)

(* A new page exceeds the budget only if every other page is in use.       *)
BudgetKept ==
  [][\A d \in DOMAIN ref' \ DOMAIN ref : bytesLive' > Budget => \A x \in DOMAIN ref' : ref'[x] > 0]_kvVars
=============================================================================
