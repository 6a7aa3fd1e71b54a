-------------------------------- MODULE Kheap --------------------------------
(***************************************************************************)
(* The kernel heap (kernel/mm/kheap.c): slab caches for small requests,    *)
(* blocks of frames for large or strictly aligned ones, a header before    *)
(* every payload.  Sizes and offsets count 16-byte units, the header's     *)
(* size.  A new slab is built without the cache's lock, and the statistics *)
(* are updated under a lock of their own after the memory changed hands.   *)
(***************************************************************************)
EXTENDS Integers, Sequences, SequencesExt, FiniteSets, FiniteSetsExt

CONSTANTS Threads, Requests,  \* records n, align a caller may ask for
          Classes,            \* size_class, in ascending order
          PageUnits,          \* a frame
          SlabHdr,            \* sizeof(struct slab)
          MaxPageOrder,       \* RK_PMM_MAX_ORDER
          MaxSlabs, MaxBlocks \* bounds on the frames the heap may take

VARIABLES slab,      \* slab[s] : its cache, its free objects; absent: class 0
          lists,     \* lists[class] : the partial, full and empty slabs
          live,      \* payloads in callers' hands
          hstats,    \* bytes live and large frames
          call       \* call[t] : what t has left to do

kheapVars == <<slab, lists, live, hstats, call>>

Slabs == 1..MaxSlabs
Idle == [op |-> "run"]
Up(n, a) == ((n + a - 1) \div a) * a
-----------------------------------------------------------------------------
(* kmem_cache_create: objects are a header and the class's payload; a slab *)
(* has at least eight of them if sixteen frames allow it.                  *)
ObjSize(c)  == Classes[c] + 1
SlabOrder(c) == LET enough(o) == (PageUnits * 2^o - SlabHdr) \div ObjSize(c) >= 8
                IN IF \E o \in 0..3 : enough(o) THEN Min({o \in 0..3 : enough(o)}) ELSE 4
PerSlab(c)  == (PageUnits * 2^SlabOrder(c) - SlabHdr) \div ObjSize(c)
ObjAt(c, i) == SlabHdr + i * ObjSize(c)

(* slab_of: the slab of an object is its address rounded down.             *)
SlabOf(c, addr) == addr \div (PageUnits * 2^SlabOrder(c))

ClassFor(n) == IF \E c \in DOMAIN Classes : n <= Classes[c]
               THEN Min({c \in DOMAIN Classes : n <= Classes[c]}) ELSE 0
Small(r)    == r.align <= 1 /\ ClassFor(r.n) # 0

(* Mutant: no room to align the payload.                                   *)
NeedWithoutSlack(r) == r.n + 1

(* The block order a large request needs, and where its payload goes.      *)
Need(r)       == r.n + 1 + r.align
LargeOrder(r) == LET fits == {o \in 0..MaxPageOrder : PageUnits * 2^o >= Need(r)}
                 IN IF fits = {} THEN -1 ELSE Min(fits)
Payload(r)    == Up(1, r.align)

Init == /\ slab  = [s \in Slabs |-> [class |-> 0, free |-> <<>>]]
        /\ lists = [c \in DOMAIN Classes |-> [partial |-> <<>>, full |-> <<>>, empty |-> <<>>]]
        /\ live  = {}
        /\ hstats = [bytes |-> 0, large |-> 0]
        /\ call  = [t \in Threads |-> Idle]

Without(l, s) == [k \in DOMAIN l |-> SelectSeq(l[k], LAMBDA x : x # s)]
MoveTail(l, s, k) == [Without(l, s) EXCEPT ![k] = Append(@, s)]

Goto(t, c) == call' = [call EXCEPT ![t] = c]

(* kmem_cache_alloc under the lock: take the first free object of s.       *)
Take(t, s, c, l, r, src) ==
  LET rest == Tail(slab[s].free)  IN
  /\ slab'  = [slab EXCEPT ![s] = [class |-> c, free |-> rest]]
  /\ lists' = [lists EXCEPT ![c] = IF rest = <<>> THEN MoveTail(l, s, "full") ELSE l]
  /\ Goto(t, [op |-> "gain", src |-> src,
              p |-> [kind |-> "slab", s |-> s, obj |-> Head(slab[s].free), n |-> r.n,
                     order |-> SlabOrder(c), at |-> ObjAt(c, Head(slab[s].free)) + 1, align |-> r.align]])

(* kmalloc_aligned from a slab; src is the payload krealloc moves away     *)
(* from, if any.                                                           *)
Kmalloc(t, r, src) ==
  LET c == ClassFor(r.n)
      l == lists[c]
  IN IF l.partial # <<>> THEN LET s == Head(l.partial) IN Take(t, s, c, MoveTail(l, s, "partial"), r, src) /\ UNCHANGED <<live, hstats>>
     ELSE IF l.empty # <<>> THEN LET s == Head(l.empty) IN Take(t, s, c, MoveTail(l, s, "partial"), r, src) /\ UNCHANGED <<live, hstats>>
     ELSE Goto(t, [op |-> "slab", src |-> src, r |-> r]) /\ UNCHANGED <<slab, lists, live, hstats>>

(* slab_new outside the lock, or no memory; then the lock again and the    *)
(* new slab at the head of the partial list.                               *)
SlabNew(t) ==
  /\ call[t].op = "slab"
  /\ LET c == ClassFor(call[t].r.n)
         unused == {s \in Slabs : slab[s].class = 0}
     IN IF unused = {} THEN Goto(t, Idle) /\ UNCHANGED <<slab, lists>>
        ELSE LET s == Min(unused)
                 objs == [i \in 1..PerSlab(c) |-> i - 1]
                 l == [lists[c] EXCEPT !.partial = <<s>> \o @]
                 rest == Tail(objs)
             IN /\ slab'  = [slab EXCEPT ![s] = [class |-> c, free |-> rest]]
                /\ lists' = [lists EXCEPT ![c] = IF rest = <<>> THEN MoveTail(l, s, "full") ELSE l]
                /\ Goto(t, [op |-> "gain", src |-> call[t].src,
                            p |-> [kind |-> "slab", s |-> s, obj |-> 0, n |-> call[t].r.n,
                                   order |-> SlabOrder(c), at |-> ObjAt(c, 0) + 1, align |-> call[t].r.align]])
  /\ UNCHANGED <<live, hstats>>

Blocks == {p \in live : p.kind = "page"}
           \cup {call[t].p : t \in {u \in Threads : call[u].op = "gain" /\ call[u].p.kind = "page"}}

(* kmalloc_aligned from whole frames.                                      *)
KmallocLarge(t, r, src) ==
  IF LargeOrder(r) < 0 \/ Cardinality(Blocks) = MaxBlocks THEN UNCHANGED kheapVars
  ELSE LET b == CHOOSE i \in 1..(MaxBlocks + 1) : \A p \in Blocks : p.s # i IN
       /\ hstats' = [hstats EXCEPT !.large = @ + 2^LargeOrder(r)]
       /\ Goto(t, [op |-> "gain", src |-> src,
                   p |-> [kind |-> "page", s |-> b, obj |-> 0, n |-> r.n,
                          order |-> LargeOrder(r), at |-> Payload(r), align |-> r.align]])
       /\ UNCHANGED <<slab, lists, live>>

Alloc(t) == \E r \in Requests :
              /\ call[t] = Idle
              /\ IF Small(r) THEN Kmalloc(t, r, {}) ELSE KmallocLarge(t, r, {})

(* account, after an allocation; krealloc goes on to free the old payload. *)
Gain(t) == /\ call[t].op = "gain"
           /\ hstats' = [hstats EXCEPT !.bytes = @ + call[t].p.n]
           /\ live' = live \cup {call[t].p}
           /\ Goto(t, IF call[t].src = {} THEN Idle ELSE [op |-> "free", p |-> CHOOSE p \in call[t].src : TRUE])
           /\ UNCHANGED <<slab, lists>>

(* krealloc to a larger size: allocate, copy, free.  The payload is the    *)
(* caller's for the whole call.                                            *)
Busy == UNION {IF call[t].op \in {"slab", "gain"} THEN call[t].src
               ELSE IF call[t].op = "free" THEN {call[t].p} ELSE {} : t \in Threads}
Krealloc(t) == \E p \in live \ Busy, r \in Requests :
                 /\ call[t] = Idle /\ r.align <= 1
                 /\ IF r.n <= p.n THEN UNCHANGED kheapVars
                    ELSE IF Small(r) THEN Kmalloc(t, r, {p}) ELSE KmallocLarge(t, r, {p})

(* kfree: the object goes back to the head of its slab's free list.        *)
Kfree(t, p) ==
  /\ IF p.kind = "slab"
     THEN LET c == slab[p.s].class
              s == p.s
              inuse == PerSlab(c) - Len(slab[s].free) - 1
          IN /\ slab' = [slab EXCEPT ![s].free = <<p.obj>> \o @]
             /\ lists' = [lists EXCEPT ![c] = MoveTail(@, s, IF inuse = 0 THEN "empty" ELSE "partial")]
             /\ UNCHANGED hstats
     ELSE /\ hstats' = [hstats EXCEPT !.large = @ - 2^p.order]
          /\ UNCHANGED <<slab, lists>>
  /\ live' = live \ {p}
  /\ Goto(t, [op |-> "lose", n |-> p.n])

Free(t) == \/ \E p \in live \ Busy : call[t] = Idle /\ Kfree(t, p)
           \/ call[t].op = "free" /\ Kfree(t, call[t].p)

Lose(t) == /\ call[t].op = "lose"
           /\ hstats' = [hstats EXCEPT !.bytes = @ - call[t].n]
           /\ Goto(t, Idle)
           /\ UNCHANGED <<slab, lists, live>>

Next == \E t \in Threads : \/ Alloc(t) \/ SlabNew(t) \/ Gain(t)
                           \/ Krealloc(t) \/ Free(t) \/ Lose(t)
-----------------------------------------------------------------------------
Gained == {call[t].p : t \in {u \in Threads : call[u].op = "gain"}}
Given  == live \cup Gained
Total(S) == MapThenSumSet(LAMBDA p : p.n, S)

(* Whatever slabs two threads build at once: an object is free in its slab *)
(* or in one caller's hands, a slab is on the list that its use says, and  *)
(* the live bytes are those handed out and not yet given back.             *)
ObjectsOnce ==
  /\ \A s \in Slabs : slab[s].class # 0 =>
       LET c    == slab[s].class
           free == slab[s].free
           out  == {p \in Given : p.kind = "slab" /\ p.s = s}
           on(k) == Cardinality({i \in DOMAIN lists[c][k] : lists[c][k][i] = s})
       IN /\ IsInjective(free) /\ Len(free) + Cardinality(out) = PerSlab(c)
          /\ {p.obj : p \in out} = 0..(PerSlab(c) - 1) \ Range(free)
          /\ on("full")    = IF free = <<>> THEN 1 ELSE 0
          /\ on("empty")   = IF out = {} THEN 1 ELSE 0
          /\ on("partial") = IF free # <<>> /\ out # {} THEN 1 ELSE 0
  /\ hstats.bytes = Total(live) + MapThenSumSet(LAMBDA t : call[t].n, {t \in Threads : call[t].op = "lose"})
  /\ hstats.large = MapThenSumSet(LAMBDA p : 2^p.order, Blocks)

(* A payload is aligned as asked, leaves its header inside the block and   *)
(* ends inside the block; objects of one slab do not overlap, and masking  *)
(* an object's address finds its own slab.                                 *)
PayloadsFit ==
  /\ \A p \in Given : /\ p.at >= 1 /\ p.at % p.align = 0
                      /\ p.at + p.n <= PageUnits * 2^p.order
                      /\ p.kind = "slab" => SlabOf(ClassFor(p.n), p.at - 1) = 0
  /\ \A p, q \in Given : p # q /\ p.kind = "slab" /\ q.kind = "slab" /\ p.s = q.s
                           => p.at + p.n < q.at \/ q.at + q.n < p.at
=============================================================================
