------------------------------ MODULE PageTable ------------------------------
(***************************************************************************)
(* The page tables of the three ports: arch/x86_64/paging.c and the paging *)
(* parts of arch/aarch64/arch.c and arch/riscv64/arch.c.  A tree of three  *)
(* levels with two entries per table stands for 512: entry <<2, i>> maps   *)
(* four pages, <<1, i>> two and <<0, i>> one.  The calls run under the     *)
(* address space's lock and are atomic.                                    *)
(***************************************************************************)
EXTENDS Integers, Sequences, FiniteSets

CONSTANTS Prots,      \* protections callers ask for
          Targets,    \* frames callers map
          Lens,       \* lengths of their ranges
          MaxTables,  \* frames left for tables
          MaxCalls    \* bound on the calls

VARIABLES port,       \* "x86", "arm" or "riscv"
          gib,        \* the processor has gigabyte pages
          ent,        \* ent[<<level, index>>] : an entry of the tree
          avail,      \* frames left
          calls,      \* calls made
          flat,       \* what the calls asked for: page -> frame, permissions
          torn        \* pages an unmap or protect did not treat as asked (history)

ptVars == <<port, gib, ent, avail, calls, flat, torn>>

Pages   == 0..7
Levels  == 0..2
Size(l) == 2^l
Slots   == {<<l, i>> \in Levels \X Pages : i < 8 \div Size(l)}
SlotOf(l, va) == <<l, va \div Size(l)>>
Kids(s) == {<<s[1] - 1, 2 * s[2]>>, <<s[1] - 1, 2 * s[2] + 1>>}

None  == [k |-> "none", pa |-> -1, pte |-> {}]
Table == [k |-> "table", pa |-> -1, pte |-> {}]
Absent == [pa |-> -1, prot |-> {}]
Leaf(pa, pte) == [k |-> "leaf", pa |-> pa, pte |-> pte]

(* prot_to_pte of each port, the permission bits only.                     *)
PteX86(prot) == {"present"} \cup (prot \cap {"write", "user"})
                \cup (IF "exec" \in prot THEN {} ELSE {"nx"})
PteArm(prot) == {"valid"} \cup (IF "write" \in prot THEN {} ELSE {"ro"})
                \cup (IF "user" \in prot
                      THEN {"user", "pxn"} \cup (IF "exec" \in prot THEN {} ELSE {"uxn"})
                      ELSE {"uxn"} \cup (IF "exec" \in prot THEN {} ELSE {"pxn"}))
PteRiscv(prot) == {"v", "r"} \cup (prot \cap {"write", "exec", "user"})

Pte(prot) == IF port = "x86" THEN PteX86(prot) ELSE IF port = "arm" THEN PteArm(prot) ELSE PteRiscv(prot)

(* What the processor lets the page's own privilege level do.              *)
Allows(pte) ==
  (pte \cap {"user"}) \cup
  (IF port = "arm" THEN IF "ro" \in pte THEN {} ELSE {"write"} ELSE pte \cap {"write"}) \cup
  (IF \/ port = "x86" /\ "nx" \notin pte
      \/ port = "arm" /\ (IF "user" \in pte THEN "uxn" ELSE "pxn") \notin pte
      \/ port = "riscv" /\ "exec" \in pte
   THEN {"exec"} ELSE {})

(* What arch_translate reports of an entry: the same, but on aarch64 it     *)
(* takes PXN, which every user page carries, for the lack of EXEC.         *)
Reports(pte) == IF port = "arm" /\ "pxn" \in pte THEN Allows(pte) \ {"exec"} ELSE Allows(pte)

(* arch_pgtable_create: a new table carries the kernel's mappings, here    *)
(* one large block, identity mapped.                                       *)
Create == [s \in Slots |-> IF s = <<2, 0>> THEN Leaf(0, Pte({"write", "exec"})) ELSE None]

Init == /\ port \in {"x86", "arm", "riscv"}
        /\ gib \in BOOLEAN /\ (gib => port = "x86")
        /\ ent = Create
        /\ avail = MaxTables /\ calls = 0 /\ torn = {}
        /\ flat = [p \in Pages |-> IF p < 4 THEN [pa |-> p, prot |-> {"write", "exec"}] ELSE Absent]
-----------------------------------------------------------------------------
(* The state of a call: the entries, the frames left, success, the pages   *)
(* mapped so far, and those skipped for want of memory to split an entry.  *)
St(e, a, ok) == [e |-> e, a |-> a, ok |-> ok, done |-> 0, kept |-> {}]
Fail(st) == [st EXCEPT !.ok = FALSE]

(* Mutant: every smaller leaf maps the start of the large one.             *)
SplitWithoutStep(st, s) ==
  LET h == st.e[s] IN
  IF st.a = 0 THEN Fail(st)
  ELSE [st EXCEPT !.a = @ - 1, !.e = [x \in Slots |-> IF x = s THEN Table
                           ELSE IF x \in Kids(s) THEN Leaf(h.pa, h.pte) ELSE st.e[x]]]

(* split_huge and split_block: a table of smaller leaves over the same     *)
(* memory with the same permissions.                                       *)
SplitHuge(st, s) ==
  LET h == st.e[s] IN
  IF st.a = 0 THEN Fail(st)
  ELSE [st EXCEPT !.a = @ - 1, !.e = [x \in Slots |-> IF x = s THEN Table
                           ELSE IF x \in Kids(s) THEN Leaf(h.pa + (x[2] - 2 * s[2]) * Size(x[1]), h.pte)
                           ELSE st.e[x]]]

NewTable(st, s) ==
  IF st.a = 0 THEN Fail(st)
  ELSE [st EXCEPT !.a = @ - 1, !.e = [x \in Slots |-> IF x = s THEN Table ELSE IF x \in Kids(s) THEN None ELSE st.e[x]]]

(* walk, creating or splitting the next table.                             *)
WalkSplit(st, s) == IF st.e[s].k = "table" THEN st
                    ELSE IF st.e[s].k = "none" THEN NewTable(st, s) ELSE SplitHuge(st, s)

(* On riscv a leaf where a table was wanted is an error.                   *)
WalkRiscv(st, s) == IF st.e[s].k = "table" THEN st
                    ELSE IF st.e[s].k = "none" THEN NewTable(st, s) ELSE Fail(st)

Walk(st, s) == IF ~st.ok THEN st ELSE IF port = "riscv" THEN WalkRiscv(st, s) ELSE WalkSplit(st, s)

Descend(st, l, va) == IF l = 2 THEN st
                      ELSE IF l = 1 THEN Walk(st, SlotOf(2, va))
                      ELSE Walk(Walk(st, SlotOf(2, va)), SlotOf(1, va))

(* map_one: a leaf replaces what the entry was, a table's contents with it.*)
RECURSIVE Below(_)
Below(s) == IF s[1] = 0 THEN {} ELSE Kids(s) \cup UNION {Below(x) : x \in Kids(s)}
MapOne(st, l, va, pa, pte) ==
  LET d == Descend(st, l, va)  s == SlotOf(l, va) IN
  IF ~d.ok THEN d
  ELSE [d EXCEPT !.done = @ + Size(l), !.e = [x \in Slots |-> IF x = s THEN Leaf(pa, pte) ELSE IF x \in Below(s) THEN None ELSE d.e[x]]]

(* arch_map on x86: the largest granule that fits what is left.            *)
Granule(va, pa, left) ==
  LET fits(l) == left >= Size(l) /\ va % Size(l) = 0 /\ pa % Size(l) = 0
  IN IF gib /\ fits(2) THEN 2 ELSE IF fits(1) THEN 1 ELSE 0

RECURSIVE MapX86(_, _, _, _, _), MapPages(_, _, _, _, _)
MapX86(st, va, pa, n, pte) ==
  IF n <= 0 \/ ~st.ok THEN st
  ELSE LET l == Granule(va, pa, n)
       IN MapX86(MapOne(st, l, va, pa, pte), va + Size(l), pa + Size(l), n - Size(l), pte)

(* arch_map on aarch64 and riscv: page by page.                            *)
MapPages(st, va, pa, n, pte) ==
  IF n <= 0 \/ ~st.ok THEN st ELSE MapPages(MapOne(st, 0, va, pa, pte), va + 1, pa + 1, n - 1, pte)

(* find_leaf: the level of the entry that maps va, -1 without a table.     *)
LeafLevel(e, va) == IF e[SlotOf(2, va)].k = "leaf" THEN 2
                    ELSE IF e[SlotOf(2, va)].k = "none" THEN -1
                    ELSE IF e[SlotOf(1, va)].k = "leaf" THEN 1
                    ELSE IF e[SlotOf(1, va)].k = "none" THEN -1 ELSE 0

(* arch_unmap: x86 clears the entry it finds, aarch64 splits down to the   *)
(* page first, riscv sees pages only.                                      *)
Clear(st, l, va) == [st EXCEPT !.e[SlotOf(l, va)] = None]
RECURSIVE UnmapX86(_, _, _), UnmapArm(_, _, _), UnmapRiscv(_, _, _)
UnmapX86(st, va, n) ==
  IF n <= 0 THEN st
  ELSE LET l == LeafLevel(st.e, va)
       IN IF l < 0 THEN UnmapX86(st, va + 1, n - 1)
          ELSE UnmapX86(Clear(st, l, va), va + Size(l), n - Size(l))
UnmapArm(st, va, n) ==
  IF n <= 0 THEN st
  ELSE LET d == Descend([st EXCEPT !.ok = TRUE], 0, va)
       IN UnmapArm(IF d.ok THEN Clear(d, 0, va) ELSE [d EXCEPT !.kept = @ \cup {va}], va + 1, n - 1)
UnmapRiscv(st, va, n) ==
  IF n <= 0 THEN st
  ELSE UnmapRiscv(IF LeafLevel(st.e, va) = 0 THEN Clear(st, 0, va) ELSE st, va + 1, n - 1)

(* arch_protect: a large entry changes whole if the range covers it from   *)
(* its boundary, and is split otherwise.                                   *)
SetPte(st, l, va, pte) ==
  LET s == SlotOf(l, va) IN IF st.e[s].k = "leaf" THEN [st EXCEPT !.e[s].pte = pte] ELSE st
RECURSIVE ProtectSplit(_, _, _, _), ProtectRiscv(_, _, _, _)
ProtectSplit(st, va, n, pte) ==
  IF n <= 0 THEN st
  ELSE LET l     == LeafLevel(st.e, va)
           whole == va % Size(l) = 0 /\ n >= Size(l)
           d     == Descend([st EXCEPT !.ok = TRUE], 0, va)
       IN IF l < 0 THEN ProtectSplit(st, va + 1, n - 1, pte)
          ELSE IF whole THEN ProtectSplit(SetPte(st, l, va, pte), va + Size(l), n - Size(l), pte)
          ELSE ProtectSplit(IF d.ok THEN SetPte(d, 0, va, pte) ELSE [d EXCEPT !.kept = @ \cup {va}],
                            va + 1, n - 1, pte)

(* On riscv only the pages of the range that have an entry of their own.   *)
ProtectRiscv(st, va, n, pte) ==
  IF n <= 0 THEN st
  ELSE ProtectRiscv(IF LeafLevel(st.e, va) = 0 THEN SetPte(st, 0, va, pte) ELSE st, va + 1, n - 1, pte)

ArchMap(st, va, pa, n, pte) == IF port = "x86" THEN MapX86(st, va, pa, n, pte) ELSE MapPages(st, va, pa, n, pte)
ArchUnmap(st, va, n) == IF port = "x86" THEN UnmapX86(st, va, n)
                        ELSE IF port = "arm" THEN UnmapArm(st, va, n) ELSE UnmapRiscv(st, va, n)
ArchProtect(st, va, n, pte) == IF port = "riscv" THEN ProtectRiscv(st, va, n, pte) ELSE ProtectSplit(st, va, n, pte)

(* What a walk of the tree gives for a page, and what it makes of the       *)
(* entry: Mapped is the processor's view, Translate is arch_translate.     *)
Lookup(va, perms(_)) ==
  LET l == LeafLevel(ent, va)  s == SlotOf(l, va) IN
  IF l < 0 \/ (l >= 0 /\ ent[s].k # "leaf") THEN Absent
  ELSE [pa |-> ent[s].pa + (va % Size(l)), prot |-> perms(ent[s].pte)]
Mapped(va)    == Lookup(va, Allows)
Translate(va) == Lookup(va, Reports)
-----------------------------------------------------------------------------
Commit(st) == calls < MaxCalls /\ calls' = calls + 1 /\ ent' = st.e /\ avail' = st.a /\ UNCHANGED <<port, gib>>
Now == St(ent, avail, TRUE)
Run(va, n)     == va..(va + n - 1)
InRange(va, n) == va + n <= 8

(* The pages of the large entries a range meets.                            *)
Entry(e, p)     == LET l == LeafLevel(e, p)  first == (p \div Size(l)) * Size(l)
                   IN IF l > 0 THEN Run(first, Size(l)) ELSE {p}
Reached(va, n)  == Run(va, n) \cup UNION {Entry(ent, p) : p \in Run(va, n)}

(* What each call promises: to change the pages of its range and no other, *)
(* the front of the range when a map runs out of memory.                   *)
MapCall(va, pa, n, prot) ==
  LET r == ArchMap(Now, va, pa, n, Pte(prot)) IN
  /\ InRange(va, n) /\ InRange(pa, n)
  /\ Commit(r)
  /\ flat' = [p \in Pages |-> IF p \in Run(va, r.done) THEN [pa |-> pa + p - va, prot |-> prot] ELSE flat[p]]
  /\ torn' = torn \ Run(va, r.done)

(* An unmap that meets a large entry in part does not keep to that: x86     *)
(* clears the whole entry and goes on behind where it would end, riscv     *)
(* leaves a large entry alone, as its protect does.                        *)
Partial(va, n) == Reached(va, n) # Run(va, n)
Large(va, n)   == {p \in Run(va, n) : LeafLevel(ent, p) > 0}

UnmapCall(va, n) ==
  LET r == ArchUnmap(Now, va, n) IN
  /\ InRange(va, n)
  /\ Commit(r)
  /\ flat' = [p \in Pages |-> IF p \in Run(va, n) \ r.kept THEN Absent ELSE flat[p]]
  /\ torn' = torn \cup CASE port = "x86"   -> IF Partial(va, n) THEN Reached(va, n) ELSE {}
                         [] port = "arm"   -> {}
                         [] port = "riscv" -> Large(va, n)

ProtectCall(va, n, prot) ==
  LET r == ArchProtect(Now, va, n, Pte(prot)) IN
  /\ InRange(va, n)
  /\ Commit(r)
  /\ flat' = [p \in Pages |-> IF p \in Run(va, n) \ r.kept /\ flat[p] # Absent
                               THEN [flat[p] EXCEPT !.prot = prot] ELSE flat[p]]
  /\ torn' = torn \cup IF port = "riscv" THEN Large(va, n) ELSE {}

Next == \E va \in Pages, n \in Lens :
          \/ \E pa \in Targets, prot \in Prots : MapCall(va, pa, n, prot)
          \/ UnmapCall(va, n)
          \/ \E prot \in Prots : ProtectCall(va, n, prot)
-----------------------------------------------------------------------------
(* The tree maps every page as the calls so far asked, whatever was        *)
(* mapped, split, protected or replaced before and on each port: changing  *)
(* part of a large mapping never changes the rest of it, unless it is an   *)
(* unmap on x86.  arch_translate tells the same, but of aarch64's user     *)
(* pages not whether they are executable.                                  *)
Told(va) == IF port = "arm" /\ "user" \in flat[va].prot
            THEN [flat[va] EXCEPT !.prot = @ \ {"exec"}] ELSE flat[va]

TranslationRight ==
  \A va \in Pages \ torn : Mapped(va) = flat[va] /\ Translate(va) = Told(va)

(* The same of all pages, which x86's unmap of part of a large page and    *)
(* riscv's large entries break, and arch_translate of every page it knows, *)
(* which aarch64's user pages break.                                       *)
WholeMapped    == \A va \in Pages : Mapped(va) = flat[va]
TranslateTells == \A va \in Pages \ torn : Translate(va) = flat[va]
=============================================================================
