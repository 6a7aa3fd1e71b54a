-------------------------------- MODULE Vmm --------------------------------
(***************************************************************************)
(* Address spaces (kernel/mm/vmm.c): areas backed by reference-counted     *)
(* memory objects, demand paging, copy on write and growing stacks.  Every *)
(* operation is one critical section of the space's lock, but for the      *)
(* eager population of device and locked areas, which follows it.          *)
(* Addresses count pages; a page table is a function from page to frame    *)
(* and protection; the walk is module PageTable.  rss_pages, a statistic    *)
(* nothing reads, is left out.                                              *)
(***************************************************************************)
EXTENDS Integers, Sequences, SequencesExt, FiniteSets, FiniteSetsExt

CONSTANTS Spaces, Mappers,         \* Mappers: the spaces that map memory of their own
          Top, MmapBase,           \* user pages are 1..Top
          Objs, Frames,            \* bounds on objects and on frames
          MapProts, Prots,         \* protections of maps and of protect calls
          Flags, Hints,            \* area flags and hints of maps
          MaxLen, GrowLimit        \* longest mapping; 8 MiB

VARIABLES obj,      \* obj[o] : kind, pages, frames, reference count
          areas,    \* areas[s] : the sorted area list
          pt,       \* pt[s] : page -> frame and protection
          filling   \* the area whose eager population is not done yet

vmmVars == <<obj, areas, pt, filling>>

(* Memory protections are sets of RK_PROT flags; no frame is at zero.      *)
Protections == SUBSET {"read", "write", "exec", "user"}
VmmAssumption ==
  /\ IsFiniteSet(Spaces) /\ Objs \subseteq Nat /\ Frames \subseteq Nat \ {0}
  /\ Top \in Nat /\ MmapBase \in Nat /\ Hints \subseteq Nat /\ MaxLen \in Nat
  /\ MapProts \subseteq Protections /\ Prots \subseteq Protections

Pages == 1..Top
NoObj == [kind |-> "none", n |-> 0, frames |-> <<>>, ref |-> 0]
NoMap == [frame |-> 0, prot |-> {}]
NoFill == [s |-> "none"]

VmmInit == /\ obj = [o \in Objs |-> NoObj]
           /\ areas = [s \in Spaces |-> <<>>]
           /\ pt = [s \in Spaces |-> [p \in Pages |-> NoMap]]
           /\ filling = NoFill
-----------------------------------------------------------------------------
InUse(ob) == (UNION {Range(ob[o].frames) : o \in {q \in Objs : ob[q].kind \in {"anon", "cow"}}}) \ {0}
FreeFrames(ob) == Frames \ InUse(ob)
NewObj(ob) == {o \in Objs : ob[o].kind = "none"}

(* vm_object_page: the frame of page i, allocated at the first touch; 0    *)
(* past the end or without memory.                                         *)
HasPage(ob, o, i)  == i < ob[o].n /\ (ob[o].frames[i + 1] # 0 \/ FreeFrames(ob) # {})
Touch(ob, o, i)    == IF HasPage(ob, o, i) /\ ob[o].frames[i + 1] = 0
                      THEN [ob EXCEPT ![o].frames[i + 1] = Min(FreeFrames(ob))] ELSE ob
FrameOf(ob, o, i)  == IF HasPage(ob, o, i) THEN Touch(ob, o, i)[o].frames[i + 1] ELSE 0

(* How many of the areas of l at the positions in I name each object.      *)
Named(l, I) == [o \in Objs |-> Cardinality({i \in I : l[i].obj = o})]

(* vm_object_get, k[o] times for the object o.                             *)
Get(ob, k) == [o \in Objs |-> [ob[o] EXCEPT !.ref = @ + k[o]]]

(* Mutant: the object goes with the last reference but one.                *)
PutEarly(ob, k) == [o \in Objs |-> IF k[o] > 0 /\ ob[o].ref <= k[o] + 1
                                   THEN NoObj ELSE [ob[o] EXCEPT !.ref = @ - k[o]]]

(* vm_object_put, k[o] times for the object o: the last reference gives    *)
(* the frames back.                                                        *)
Put(ob, k) == [o \in Objs |-> IF ob[o].ref = k[o] THEN NoObj ELSE [ob[o] EXCEPT !.ref = @ - k[o]]]

Covers(a, p)  == a.start <= p /\ p < a.end
Find(s, p)    == LET S == {i \in DOMAIN areas[s] : Covers(areas[s][i], p)}
                 IN IF S = {} THEN 0 ELSE Min(S)
Overlaps(a, p, n) == p + n > a.start /\ p < a.end

(* Mutant: only the first page is tested.                                  *)
FindGapOfAPage(s, hint, n) ==
  LET from == IF hint # 0 THEN hint ELSE MmapBase
      ok   == {p \in from..(Top + 1 - n) : Find(s, p) = 0}
  IN IF ok = {} THEN 0 ELSE Min(ok)

(* find_gap: the first place at or after the hint that no area overlaps.   *)
FindGap(s, hint, n) ==
  LET from == IF hint # 0 THEN hint ELSE MmapBase
      ok   == {p \in from..(Top + 1 - n) : \A i \in DOMAIN areas[s] : ~Overlaps(areas[s][i], p, n)}
  IN IF ok = {} THEN 0 ELSE Min(ok)

(* insert_area: before the first area that starts later.                   *)
Insert(l, a) == LET later == {i \in DOMAIN l : a.start < l[i].start}
                IN IF later = {} THEN Append(l, a) ELSE InsertAt(l, Min(later), a)

(* The list without the areas at the positions in P.                       *)
Unlinked(l, P) ==
  LET kept    == DOMAIN l \ P
      rank(i) == Cardinality({j \in kept : j <= i})
  IN [k \in 1..Cardinality(kept) |-> l[CHOOSE i \in kept : rank(i) = k]]
-----------------------------------------------------------------------------
(* as_map_object, on a new object the caller then puts (as_map_anon).      *)
MapObject(s, hint, n, prot, flag) ==
  LET va == IF flag = "fixed" THEN hint ELSE FindGap(s, hint, n)
      o  == Min(NewObj(obj))
      a  == [start |-> va, end |-> va + n, prot |-> prot, flag |-> flag, obj |-> o, off |-> 0]
  IN /\ filling = NoFill /\ NewObj(obj) # {}
     /\ va # 0 /\ va + n <= Top + 1
     /\ flag = "fixed" => Find(s, va) = 0
     /\ areas' = [areas EXCEPT ![s] = Insert(@, a)]
     /\ obj' = [obj EXCEPT ![o] = [kind |-> "anon", n |-> n, frames |-> [i \in 1..n |-> 0], ref |-> 1]]
     /\ filling' = IF flag = "locked" THEN [s |-> s, area |-> a, next |-> 0] ELSE NoFill
     /\ UNCHANGED pt

(* The eager population, one page at a time; without memory it stops and   *)
(* leaves the area mapped in part.                                         *)
Populate ==
  /\ filling # NoFill
  /\ LET s == filling.s  a == filling.area  i == filling.next IN
     /\ obj' = Touch(obj, a.obj, i)
     /\ pt' = IF HasPage(obj, a.obj, i)
              THEN [pt EXCEPT ![s][a.start + i] = [frame |-> FrameOf(obj, a.obj, i), prot |-> a.prot]] ELSE pt
     /\ LET last == i + 1 = a.end - a.start IN
        filling' = IF ~HasPage(obj, a.obj, i) \/ last THEN NoFill ELSE [filling EXCEPT !.next = i + 1]
  /\ UNCHANGED areas

(* The areas as_unmap removes: it stops at the first it would have to cut, *)
(* and keeps what it removed before.  A thread unmaps what it was given.   *)
Unmap(s, va, n) ==
  LET l    == areas[s]
      hit  == {i \in DOMAIN l : Overlaps(l[i], va, n)}
      cut  == {i \in hit : l[i].start < va \/ l[i].end > va + n}
      gone == {i \in hit : \A j \in cut : i < j}
  IN /\ filling = NoFill \/ filling.s # s
     /\ hit # {}
     /\ areas' = [areas EXCEPT ![s] = Unlinked(l, gone)]
     /\ pt' = [pt EXCEPT ![s] = [p \in Pages |-> IF \E i \in gone : Covers(l[i], p) THEN NoMap ELSE @[p]]]
     /\ obj' = Put(obj, Named(l, gone))
     /\ UNCHANGED filling

(* as_protect: the first page's area, if it has one, takes the protection, *)
(* and the page table the whole range.  The latter follows the lock; the   *)
(* two are one step, since only ClonePrivate, which the code breaks either *)
(* way, reads a protection.                                                *)
Protect(s, va, n, prot) ==
  /\ \/ Find(s, va) = 0 /\ areas' = areas
     \/ Find(s, va) # 0 /\ areas' = [areas EXCEPT ![s][Find(s, va)].prot = prot]
  /\ pt' = [pt EXCEPT ![s] = [p \in Pages |->
              IF p \in va..(va + n - 1) /\ @[p] # NoMap THEN [@[p] EXCEPT !.prot = prot] ELSE @[p]]]
  /\ UNCHANGED <<obj, filling>>

ReadOnly(a) == [a EXCEPT !.prot = @ \ {"write"}]

(* as_clone: the child shares every object; a private area of the child    *)
(* loses write permission, and the parent's pages under it get what is     *)
(* left of the area's.  Without memory for an area it stops after the k-th.*)
Clone(s, c) ==
  /\ s # c /\ areas[c] = <<>> /\ areas[s] # <<>> /\ filling = NoFill
  /\ \E k \in 0..Len(areas[s]) :
       LET copied == SubSeq(areas[s], 1, k)
           private(p) == {i \in 1..k : Covers(copied[i], p) /\ copied[i].flag # "shared"}
       IN /\ areas' = [areas EXCEPT ![c] = [i \in 1..k |->
                         IF copied[i].flag = "shared" THEN copied[i] ELSE ReadOnly(copied[i])]]
          /\ obj' = Get(obj, Named(copied, 1..k))
          /\ pt' = [pt EXCEPT ![s] = [p \in Pages |->
                      IF private(p) # {} /\ @[p] # NoMap
                      THEN [@[p] EXCEPT !.prot = ReadOnly(copied[Max(private(p))]).prot] ELSE @[p]]]
  /\ UNCHANGED filling

(* as_destroy of a space with one reference.                               *)
AsDestroy(s) ==
  /\ areas[s] # <<>> /\ (filling = NoFill \/ filling.s # s)
  /\ obj' = Put(obj, Named(areas[s], DOMAIN areas[s]))
  /\ areas' = [areas EXCEPT ![s] = <<>>]
  /\ pt' = [pt EXCEPT ![s] = [p \in Pages |-> NoMap]]
  /\ UNCHANGED filling
-----------------------------------------------------------------------------
(* vm_handle_fault.  The area of a fault, after a stack just above it grew *)
(* down to it.                                                             *)
Grown(s, p) == LET S == {i \in DOMAIN areas[s] : /\ areas[s][i].flag = "grows" /\ p < areas[s][i].start
                                                 /\ areas[s][i].start - p <= GrowLimit}
               IN IF S = {} THEN areas[s] ELSE [areas[s] EXCEPT ![Min(S)].start = p]

(* A write to an area without write permission copies the page if the      *)
(* object is shared and is refused if it is not.                           *)
CopyOnWrite(s, p, l, i) ==
  LET a     == l[i]
      idx   == a.off + (p - a.start)
      ob    == Touch(obj, a.obj, idx)
      fresh == Min(FreeFrames(ob))
      priv  == Min(NewObj(obj))
      copy  == [kind |-> "cow", n |-> ob[a.obj].n, ref |-> 1,
                frames |-> [k \in 1..ob[a.obj].n |-> IF k = idx + 1 THEN fresh ELSE 0]]
      prot  == a.prot \cup {"write"}
  IN IF obj[a.obj].ref <= 1 \/ FreeFrames(ob) = {} \/ NewObj(obj) = {}
     THEN /\ obj' = IF obj[a.obj].ref <= 1 THEN obj ELSE ob
          /\ areas' = [areas EXCEPT ![s] = l] /\ UNCHANGED pt
     ELSE /\ obj' = Put([ob EXCEPT ![priv] = copy], Named(l, {i}))
          /\ areas' = [areas EXCEPT ![s] = [l EXCEPT ![i].obj = priv, ![i].prot = prot]]
          /\ pt' = [pt EXCEPT ![s][p] = [frame |-> fresh, prot |-> prot]]

DemandPage(s, p, l, i) ==
  LET a   == l[i]
      idx == a.off + (p - a.start)
  IN /\ areas' = [areas EXCEPT ![s] = l]
     /\ obj' = Touch(obj, a.obj, idx)
     /\ pt' = IF HasPage(obj, a.obj, idx)
              THEN [pt EXCEPT ![s][p] = [frame |-> FrameOf(obj, a.obj, idx), prot |-> a.prot]] ELSE pt

Fault(s, p, access) ==
  LET l == IF Find(s, p) # 0 THEN areas[s] ELSE Grown(s, p)
      S == {i \in DOMAIN l : Covers(l[i], p)}
  IN /\ S # {}
     /\ IF access = "write" /\ "write" \notin l[Min(S)].prot THEN CopyOnWrite(s, p, l, Min(S))
        ELSE IF access = "exec" /\ "exec" \notin l[Min(S)].prot
        THEN areas' = [areas EXCEPT ![s] = l] /\ UNCHANGED <<obj, pt>>
        ELSE DemandPage(s, p, l, Min(S))
     /\ UNCHANGED filling

(* An access of a user program, or of copy_from_user and copy_to_user for  *)
(* each page: it faults if the translation does not allow it.              *)
Access(s, p, access) == /\ pt[s][p] = NoMap \/ (access # "read" /\ access \notin pt[s][p].prot)
                        /\ Fault(s, p, access)

VmmNext ==
  \/ Populate
  \/ \E s \in Spaces :
       \/ \E n \in 1..MaxLen, prot \in MapProts, flag \in Flags, hint \in Hints :
            s \in Mappers /\ (flag = "fixed" => hint # 0) /\ MapObject(s, hint, n, prot, flag)
       \/ \E va \in Pages, n \in 1..MaxLen : va + n <= Top + 1 /\ (\/ Unmap(s, va, n)
                                                                       \/ \E prot \in Prots : Protect(s, va, n, prot))
       \/ \E c \in Spaces : Clone(s, c)
       \/ AsDestroy(s)
       \/ \E p \in Pages, access \in {"read", "write", "exec"} : Access(s, p, access)
-----------------------------------------------------------------------------
(* Areas stay sorted and apart.                                            *)
AreasApart == \A s \in Spaces : \A i \in 1..(Len(areas[s]) - 1) : areas[s][i].end <= areas[s][i + 1].start

Mappings == UNION {{s} \X DOMAIN areas[s] : s \in Spaces}
NamedBy(o) == {m \in Mappings : areas[m[1]][m[2]].obj = o}

(* An object lives as long as the areas that name it and counts them, over *)
(* every map, clone, copy and teardown, and no frame backs two pages of    *)
(* objects.                                                                *)
ObjectsBalanced ==
  /\ \A o \in Objs : obj[o].ref = Cardinality(NamedBy(o)) /\ (obj[o].ref = 0) = (obj[o].kind = "none")
  /\ \A o, q \in Objs : \A i \in DOMAIN obj[o].frames, j \in DOMAIN obj[q].frames :
       obj[o].frames[i] # 0 /\ obj[o].frames[i] = obj[q].frames[j] => o = q /\ i = j

(* A translation leads to the frame its area's object holds for the page,  *)
(* never to one that was given back or to another area's, as long as the   *)
(* area still has the object it was mapped with.                           *)
Backed(ob, a, p, f) ==
  LET k == a.off + (p - a.start) + 1 IN
  /\ Covers(a, p)
  /\ ob[a.obj].kind = "cow" \/ (k \in DOMAIN ob[a.obj].frames /\ ob[a.obj].frames[k] = f)
TranslationsOwned ==
  \A s \in Spaces, p \in Pages : pt[s][p] # NoMap =>
    \E i \in DOMAIN areas[s] : Backed(obj, areas[s][i], p, pt[s][p].frame)

(* What the address spaces owe each other and the frames, for the flags    *)
(* that as_map_anon, the only caller of as_map_object, passes: none.       *)
FlagsInUse == Flags \cap {"fixed", "grows"} = {}
SpacesSound == AreasApart /\ ObjectsBalanced /\ TranslationsOwned

(* No translation outlives its frame, which the private copy of one page   *)
(* breaks for the other pages of its area.                                 *)
TranslationsAlive == \A s \in Spaces, p \in Pages : pt[s][p] # NoMap => pt[s][p].frame \in InUse(obj)

(* The comment on as_clone: both sides lose write permission and a write   *)
(* copies.  No space can write to a frame another one still maps privately.*)
ClonePrivate ==
  \A s, c \in Spaces, p, q \in Pages :
    s # c /\ "write" \in pt[s][p].prot /\ pt[c][q] # NoMap /\ pt[s][p].frame = pt[c][q].frame
      => \E i \in DOMAIN areas[s] : Covers(areas[s][i], p) /\ areas[s][i].flag = "shared"
=============================================================================
