-------------------------------- MODULE Pmm --------------------------------
(***************************************************************************)
(* The physical frame allocator (kernel/mm/pmm.c): the boot memory map is  *)
(* turned into page descriptors and maximal aligned free blocks; blocks    *)
(* are split and coalesced buddy-wise and counted by reference.            *)
(*                                                                         *)
(* Addresses count half frames, so that a region need not be aligned.      *)
(* Every operation but pmm_page_put is one critical section of pmm_lock;   *)
(* put decides under the lock and frees after it released the lock.        *)
(***************************************************************************)
EXTENDS Integers, Sequences, SequencesExt, FiniteSets, FiniteSetsExt

CONSTANTS BootMaps,   \* boot_info records: mmap, kernelStart, kernelEnd, images
          MaxOrder,   \* RK_PMM_MAX_ORDER
          DmaLimit,   \* DMA_LIMIT
          LowMem,     \* the first megabyte, never allocatable
          MetaPer,    \* page descriptors that fit in half a frame
          Users,      \* the callers that hold blocks
          MaxRef      \* bound on the references to one block

VARIABLES bi,         \* the boot information
          page,       \* page[pfn] : flag, order and reference count
          freeList,   \* freeList[order] : the list of free blocks
          stats,      \* free and used pages
          held,       \* held[u] : blocks u holds a reference to
          putting     \* putting[u] : the block u found itself last holder of

pmmVars == <<bi, page, freeList, stats, held, putting>>

PageSize == 2
AlignDown(a) == a - (a % PageSize)
AlignUp(a)   == AlignDown(a + PageSize - 1)
None == [pfn |-> -1, order |-> -1, dma |-> FALSE]
-----------------------------------------------------------------------------
(* pmm_init: the span of the usable regions, and where the descriptors go. *)
Usable(m)    == {r \in Range(m.mmap) : r.usable /\ r.len > 0}
PhysBase(m)  == AlignDown(Min({r.base : r \in Usable(m)}))
PageCount(m) == (AlignUp(Max({r.base + r.len : r \in Usable(m)})) - PhysBase(m)) \div PageSize
Addr(m, pfn) == PhysBase(m) + PageSize * pfn
ArrayLen(m)  == AlignUp((PageCount(m) + MetaPer - 1) \div MetaPer)

Candidate(m, r, pass) ==
  LET top   == AlignUp(m.kernelEnd)
      above == IF r.base < top /\ top < r.base + r.len THEN top ELSE r.base
  IN AlignUp(IF pass = 0 /\ above < DmaLimit THEN DmaLimit ELSE above)

Fits(m, pass) == {i \in DOMAIN m.mmap :
  LET r == m.mmap[i]  at == Candidate(m, r, pass)
  IN r.usable /\ r.base + r.len > at /\ r.base + r.len - at >= ArrayLen(m)}

ArrayAt(m) == LET pass == IF Fits(m, 0) # {} THEN 0 ELSE 1
              IN Candidate(m, m.mmap[Min(Fits(m, pass))], pass)

Boots(m) == Usable(m) # {} /\ Fits(m, 1) # {}

(* pmm_reserve: the frames a byte range touches.                           *)
Reserve(m, base, end) ==
  IF end <= base THEN {}
  ELSE {p \in 0..(PageCount(m) - 1) : /\ Addr(m, p) < AlignUp(end)
                                      /\ Addr(m, p) >= AlignDown(base)}

(* The frames left once usable regions were opened, but for the first      *)
(* frame, and everything in use was reserved again.                        *)
Opened(m) == {p \in 1..(PageCount(m) - 1) :
                \E r \in Usable(m) : /\ AlignUp(r.base) <= Addr(m, p)
                                     /\ Addr(m, p) + PageSize <= AlignDown(r.base + r.len)}
InUse(m)  == UNION ({Reserve(m, 0, LowMem), Reserve(m, m.kernelStart, m.kernelEnd),
                     Reserve(m, ArrayAt(m), ArrayAt(m) + ArrayLen(m))}
                    \cup {Reserve(m, g[1], g[2]) : g \in m.images}
                    \cup {Reserve(m, r.base, r.base + r.len) : r \in {q \in Range(m.mmap) : ~q.usable}})
Free0(m)  == Opened(m) \ InUse(m)

(* publish_run: the order of the block that starts at pfn in a free run    *)
(* that ends at last, and the blocks of the run in the order published.    *)
RECURSIVE OrderAt(_, _, _), PublishRun(_, _, _)
OrderAt(pfn, last, o) ==
  IF o < MaxOrder /\ pfn % 2^(o + 1) = 0 /\ pfn + 2^(o + 1) <= last
  THEN OrderAt(pfn, last, o + 1) ELSE o
PublishRun(pfn, free, blocks) ==
  IF free = {} THEN blocks
  ELSE IF pfn \notin free THEN PublishRun(pfn + 1, free, blocks)
  ELSE LET last == Min({q \in pfn..(Max(free) + 1) : q \notin free})
           o    == OrderAt(pfn, last, 0)
       IN PublishRun(pfn + 2^o, free \ (pfn..(pfn + 2^o - 1)),
                     Append(blocks, [pfn |-> pfn, order |-> o]))
Published(m) == PublishRun(0, Free0(m), <<>>)

Init ==
  /\ bi \in {m \in BootMaps : Boots(m)}
  /\ LET blocks == Published(bi)  head == {b.pfn : b \in Range(blocks)} IN
     /\ freeList = [o \in 0..MaxOrder |->
          Reverse(SelectSeq([i \in DOMAIN blocks |->
                               IF blocks[i].order = o THEN blocks[i].pfn ELSE -1],
                            LAMBDA p : p >= 0))]
     /\ page = [p \in 0..(PageCount(bi) - 1) |->
          IF p \in head
          THEN [flag |-> "free", ref |-> 0, order |-> (CHOOSE b \in Range(blocks) : b.pfn = p).order]
          ELSE [flag |-> IF p \in Free0(bi) THEN "none" ELSE "reserved", order |-> 0,
                ref |-> IF p \in Free0(bi) THEN 0 ELSE 1]]
     /\ stats = [free |-> Cardinality(Free0(bi)), used |-> 0]
  /\ held = [u \in Users |-> {}]
  /\ putting = [u \in Users |-> None]
-----------------------------------------------------------------------------
FreeListAdd(list, p, o) == [list EXCEPT ![o] = <<p>> \o @]
FreeListDel(list, p, o) == [list EXCEPT ![o] = SelectSeq(@, LAMBDA q : q # p)]
Mark(pg, p, o, f, n)    == [pg EXCEPT ![p] = [flag |-> f, order |-> o, ref |-> n]]

(* The DMA scan takes the first block wholly below the limit.              *)
Eligible(o, dma) == IF dma
  THEN SelectSeq(freeList[o], LAMBDA p : Addr(bi, p) + PageSize * 2^o <= DmaLimit)
  ELSE freeList[o]
Source(order, dma) == LET S == {o \in order..MaxOrder : Eligible(o, dma) # <<>>}
                      IN IF S = {} THEN -1 ELSE Min(S)

(* The upper halves that splitting a block of order o at p down to order   *)
(* puts on the free lists, largest first.                                  *)
Split(p, o, order) == [i \in 1..(o - order) |-> [pfn |-> p + 2^(o - i), order |-> o - i]]

(* buddy_alloc and pmm_alloc_pages.                                        *)
AllocPages(u, order, dma) ==
  LET o == Source(order, dma) IN
  /\ putting[u] = None
  /\ o >= 0
  /\ LET p      == Head(Eligible(o, dma))
         halves == Split(p, o, order)
     IN /\ freeList' = FoldLeft(LAMBDA l, h : FreeListAdd(l, h.pfn, h.order),
                                FreeListDel(freeList, p, o), halves)
        /\ page' = FoldLeft(LAMBDA g, h : Mark(g, h.pfn, h.order, "free", g[h.pfn].ref),
                            Mark(page, p, order, "none", 1), halves)
        /\ held' = [held EXCEPT ![u] = @ \cup {[pfn |-> p, order |-> order, dma |-> dma]}]
  /\ stats' = [free |-> stats.free - 2^order, used |-> stats.used + 2^order]
  /\ UNCHANGED <<bi, putting>>

BuddyOf(p, o) == IF (p \div 2^o) % 2 = 0 THEN p + 2^o ELSE p - 2^o
(* Mutants: a buddy of any order is merged; the largest order is never     *)
(* formed.                                                                 *)
MergesAnyOrder(b, o) == o < MaxOrder /\ b < PageCount(bi) /\ page[b].flag = "free"
StopsAnOrderEarly(b, o) == /\ o < MaxOrder - 1 /\ b < PageCount(bi)
                           /\ page[b].flag = "free" /\ page[b].order = o

Mergeable(b, o) == /\ o < MaxOrder /\ b < PageCount(bi)
                   /\ page[b].flag = "free" /\ page[b].order = o

(* buddy_free: coalesce as long as the buddy is a free block of the order. *)
RECURSIVE BuddyFree(_, _, _, _)
BuddyFree(p, o, list, pg) ==
  LET b == BuddyOf(p, o) IN
  IF Mergeable(b, o)
  THEN BuddyFree(Min({p, b}), o + 1, FreeListDel(list, b, o), [pg EXCEPT ![b].flag = "none"])
  ELSE [list |-> FreeListAdd(list, p, o), page |-> [pg EXCEPT ![p].flag = "free", ![p].order = o]]

(* pmm_free_pages: a free or reserved frame is refused.                    *)
FreePages(b) ==
  IF page[b.pfn].flag # "none" THEN UNCHANGED <<page, freeList, stats>>
  ELSE LET r == BuddyFree(b.pfn, b.order, freeList, [page EXCEPT ![b.pfn].ref = 0])
       IN /\ freeList' = r.list /\ page' = r.page
          /\ stats' = [free |-> stats.free + 2^b.order, used |-> stats.used - 2^b.order]

Release(u) ==
  \E b \in held[u] :
    /\ putting[u] = None
    /\ \A v \in Users \ {u} : b \notin held[v]
    /\ FreePages(b)
    /\ held' = [held EXCEPT ![u] = @ \ {b}]
    /\ UNCHANGED <<bi, putting>>

(* pmm_page_get: u shares a single frame it holds with v.                  *)
PageGet(u, v) ==
  \E b \in held[u] \ held[v] :
    /\ putting[u] = None /\ putting[v] = None /\ b.order = 0 /\ page[b.pfn].ref < MaxRef
    /\ page' = [page EXCEPT ![b.pfn].ref = @ + 1]
    /\ held' = [held EXCEPT ![v] = @ \cup {b}]
    /\ UNCHANGED <<bi, freeList, stats, putting>>

(* pmm_page_put, under the lock: is this the last reference?               *)
PagePut(u) ==
  \E b \in held[u] :
    /\ putting[u] = None /\ b.order = 0
    /\ held' = [held EXCEPT ![u] = @ \ {b}]
    /\ IF page[b.pfn].ref <= 1
       THEN putting' = [putting EXCEPT ![u] = b] /\ UNCHANGED page
       ELSE page' = [page EXCEPT ![b.pfn].ref = @ - 1] /\ UNCHANGED putting
    /\ UNCHANGED <<bi, freeList, stats>>

(* pmm_page_put, after the lock: the last holder frees the frame.          *)
PutFree(u) ==
  /\ putting[u] # None
  /\ FreePages(putting[u])
  /\ putting' = [putting EXCEPT ![u] = None]
  /\ UNCHANGED <<bi, held>>

Next == \E u \in Users :
          \/ \E order \in 0..MaxOrder, dma \in BOOLEAN : AllocPages(u, order, dma)
          \/ Release(u) \/ PagePut(u) \/ PutFree(u)
          \/ \E v \in Users : PageGet(u, v)
-----------------------------------------------------------------------------
FramesOf(b) == b.pfn..(b.pfn + 2^b.order - 1)
FreeBlocks == {[pfn |-> p, order |-> o] : p \in DOMAIN page, o \in 0..MaxOrder}
Listed == {b \in FreeBlocks : \E i \in DOMAIN freeList[b.order] : freeList[b.order][i] = b.pfn}
Owned == (UNION {held[u] : u \in Users}) \cup ({putting[u] : u \in Users} \ {None})
Reserved == {p \in DOMAIN page : page[p].flag = "reserved"}

(* Every frame is reserved, in one block of a free list or in one block    *)
(* somebody owns; nothing in use at boot is ever handed out, a reference   *)
(* count is the number of holders, and the statistics count the frames.    *)
FramesOwnedOnce ==
  /\ LET blocks == [listed : {TRUE}, b : Listed] \cup [listed : {FALSE}, b : Owned]
     IN  \A p \in DOMAIN page :
           Cardinality({x \in blocks : p \in FramesOf(x.b)}) = IF p \in Reserved THEN 0 ELSE 1
  /\ InUse(bi) \subseteq Reserved
  /\ \A b \in Owned : page[b.pfn].ref =
       Cardinality({u \in Users : b \in held[u]}) + Cardinality({u \in Users : putting[u] = b})
  /\ stats.free = MapThenSumSet(LAMBDA b : 2^b.order, Listed)
  /\ stats.used = MapThenSumSet(LAMBDA b : 2^b.order, Owned)
  /\ \A b \in Owned : b.dma => Addr(bi, b.pfn) + PageSize * 2^b.order <= DmaLimit

(* No two free blocks are buddies that could be one block: a request fails *)
(* only when no aligned run of its size is free.                           *)
Coalesced ==
  \A b, c \in Listed :
    ~(b.order = c.order /\ b.order < MaxOrder /\ b.pfn % 2^(b.order + 1) = 0 /\ c.pfn = b.pfn + 2^b.order)
=============================================================================
