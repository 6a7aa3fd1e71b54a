---------------------------------- MODULE Elf ----------------------------------
(***************************************************************************)
(* Program loading (kernel/exec/elf.c): the checks of the headers, whose   *)
(* 64-bit fields may hold anything, the mapping and filling of segments,   *)
(* and the initial stack.  Addresses and sizes live in 0..W-1 and wrap.    *)
(***************************************************************************)
EXTENDS Integers, Sequences, SequencesExt, FiniteSets, FiniteSetsExt, TLC

CONSTANTS W, Page,
          LoadMin, UserMax,    \* the user range
          MaxImage,            \* ELF_MAX_IMAGE
          Images,              \* records: bytes, dyn, entry, segments
          Bias,                \* where a position independent image goes
          StackSize, Reserve,  \* the stack, what an argument must leave: 512
          ArgLens              \* lengths of the arguments, terminator included

VARIABLES image, args,
          step,     \* "validate", "map", "stack", "run", "refused" or "fault"
          seg,      \* the segment at hand
          pages,    \* page : protection and the bytes at its addresses
          brk,      \* end of the highest segment
          stk       \* the initial stack: sp with argc there, the argv pointers above

elfVars == <<image, args, step, seg, pages, brk, stk>>

NoStack == [sp |-> 0, argc |-> -1, argv |-> <<>>]
Init == /\ image \in Images /\ args \in ArgLens
        /\ step = "validate" /\ seg = 1
        /\ pages = <<>> /\ brk = 0 /\ stk = NoStack
-----------------------------------------------------------------------------
Plus(a, b) == (a + b) % W
StartOf(s)   == Plus(s.vaddr, IF image.dyn THEN Bias ELSE 0)
Loads        == {i \in DOMAIN image.segs : image.segs[i].load}
Down(a)      == a - (a % Page)
Up(a)        == Down(Plus(a, Page - 1))

(* Mutant: the bound is tested on a sum that may wrap.                     *)
WithinSum(off, len, size) == Plus(off, len) <= size

Within(off, len, size) == off <= size /\ len <= size - off

(* The first pass of rk_elf_load.                                          *)
Sound(s) ==
  /\ s.filesz <= s.memsz
  /\ Within(s.offset, s.filesz, Len(image.bytes))
  /\ s.memsz <= MaxImage
  /\ LET start == StartOf(s)  end == Plus(start, s.memsz)
     IN end >= start /\ start >= LoadMin /\ end <= UserMax

Validate ==
  /\ step = "validate"
  /\ step' = IF Loads # {} /\ \A i \in Loads : Sound(image.segs[i]) THEN "map" ELSE "refused"
  /\ UNCHANGED <<image, args, seg, pages, brk, stk>>

(* prot_of: a segment without access is readable.                          *)
ProtOf(flags) == IF flags \cap {"r", "w", "x"} = {} THEN {"r"} ELSE flags

(* find_gap with a hint: the first free run of pages at or above it.       *)
FindGap(hint, n) ==
  LET free == {p \in hint..(UserMax \div Page) : p + n <= UserMax \div Page
                                                /\ \A k \in p..(p + n - 1) : k \notin DOMAIN pages}
  IN IF free = {} THEN -1 ELSE Min(free)

(* The second pass: map the span writable at the hint, or above what is    *)
(* there, copy the bytes of the file to the linker's address and protect.  *)
MapSegment ==
  /\ step = "map" /\ seg \in Loads
  /\ LET s     == image.segs[seg]
         start == StartOf(s)
         first == Down(start) \div Page
         n     == (Up(start + s.memsz) \div Page) - first
         at    == FindGap(first, n)
         fresh == [p \in at..(at + n - 1) |-> [prot |-> {"r", "w"}, bytes |-> [a \in 0..(Page - 1) |-> 0]]]
         all   == fresh @@ pages
         dest  == {(start + k) : k \in 0..(s.filesz - 1)}
         filled == [p \in DOMAIN all |-> [all[p] EXCEPT !.bytes = [a \in 0..(Page - 1) |->
                     IF p * Page + a \in dest THEN image.bytes[s.offset + (p * Page + a - start) + 1] ELSE all[p].bytes[a]]]]
     IN IF n = 0 \/ at < 0 THEN step' = "refused" /\ UNCHANGED <<seg, pages, brk>>
        ELSE IF \E a \in dest : (IF a \div Page \in DOMAIN all THEN "w" \notin all[a \div Page].prot ELSE TRUE)
        THEN step' = "fault" /\ UNCHANGED <<seg, pages, brk>>
        ELSE /\ pages' = [p \in DOMAIN filled |-> IF p \in first..(first + n - 1)
                                                  THEN [filled[p] EXCEPT !.prot = ProtOf(s.flags)] ELSE filled[p]]
             /\ brk' = Max({brk, Up(start + s.memsz)})
             /\ seg' = seg + 1 /\ UNCHANGED step
  /\ UNCHANGED <<image, args, stk>>
SkipSegment == /\ step = "map" /\ seg \in DOMAIN image.segs \ Loads
               /\ seg' = seg + 1
               /\ UNCHANGED <<image, args, step, pages, brk, stk>>
Entry == /\ step = "map" /\ seg > Len(image.segs)
         /\ step' = LET e == Plus(image.entry, IF image.dyn THEN Bias ELSE 0)
                    IN IF e >= LoadMin /\ e < UserMax THEN "stack" ELSE "refused"
         /\ UNCHANGED <<image, args, seg, pages, brk, stk>>

(* Mutant: no padding for an odd number of words.                          *)
Unpadded(p, words) == p - (p % 16)

(* The padding goes in first, sized from what is about to be pushed.       *)
Padded(p, words) == LET a == p - (p % 16) IN IF words % 2 = 1 THEN a - 8 ELSE a

(* build_stack, in bytes below the top: strings from the last argument     *)
(* down, the terminator, the pointers, argc.                               *)
BuildStack ==
  /\ step = "stack"
  /\ LET argc  == Len(args)
         below(i) == FoldLeft(+, 0, SubSeq(args, i, argc))
         place(i) == StackSize - below(i)
     IN IF \E i \in 1..argc : StackSize - below(i + 1) < args[i] + Reserve
        THEN step' = "refused" /\ UNCHANGED stk
        ELSE /\ step' = "run"
             /\ stk' = [sp |-> Padded(StackSize - below(1), argc + 2) - 8 * (argc + 2),
                        argc |-> argc, argv |-> [i \in 1..argc |-> place(i)]]
  /\ UNCHANGED <<image, args, seg, pages, brk>>

Next == Validate \/ MapSegment \/ SkipSegment \/ Entry \/ BuildStack
-----------------------------------------------------------------------------
SpanOf(i) == LET s == image.segs[i] IN (Down(StartOf(s)) \div Page)..((Up(StartOf(s) + s.memsz) \div Page) - 1)
Apart     == \A i, j \in Loads : i # j => SpanOf(i) \cap SpanOf(j) = {}

(* Whatever the headers say, only bytes of the file are read and only user *)
(* pages are mapped; a refusal of the first pass maps nothing; and a       *)
(* program that runs has every segment in place, zero beyond its file      *)
(* bytes and protected as asked, when the linker kept segments on pages of *)
(* their own, its entry in the user range, and argc at an aligned sp,      *)
(* below its strings and inside the stack.                                 *)
ProgramLoaded ==
  /\ step # "refused" /\ step # "validate" => \A i \in Loads : image.segs[i].offset + image.segs[i].filesz <= Len(image.bytes)
  /\ \A p \in DOMAIN pages : p * Page >= LoadMin - (LoadMin % Page) /\ p * Page < UserMax
  /\ step = "fault" => ~Apart
  /\ step = "run" =>
       /\ Apart => \A i \in Loads : LET s == image.segs[i] IN
            \A k \in 0..(s.memsz - 1) : LET a == StartOf(s) + k IN
              /\ pages[a \div Page].prot = ProtOf(s.flags)
              /\ pages[a \div Page].bytes[a % Page] = IF k < s.filesz THEN image.bytes[s.offset + k + 1] ELSE 0
       /\ stk.sp % 16 = 0 /\ stk.sp >= 0
       /\ \A i \in 1..stk.argc : stk.argv[i] >= stk.sp + 8 * (stk.argc + 2) /\ stk.argv[i] + args[i] <= StackSize
=============================================================================
