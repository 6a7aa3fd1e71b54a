------------------------------- MODULE MCMemory -------------------------------
(***************************************************************************)
(* One model-checking instance for the memory managers: frames, heap,      *)
(* address spaces, page tables and the attention cache.  unit says which   *)
(* of them a behaviour is about; the others keep their initial state.      *)
(***************************************************************************)
EXTENDS Kv, Vmm, TLC

CONSTANTS MaxOrder, DmaLimit, LowMem, MetaPer, Users, MaxRef,
          Threads, PageUnits, SlabHdr, MaxPageOrder, MaxSlabs, MaxBlocks,
          Targets, Lens, MaxTables, MaxCalls

VARIABLES unit,
          bi, page, freeList, stats, held, putting,
          slab, lists, live, hstats, call,
          port, gib, ent, avail, calls, flat, torn

pmmVars   == <<bi, page, freeList, stats, held, putting>>
kheapVars == <<slab, lists, live, hstats, call>>
ptVars    == <<port, gib, ent, avail, calls, flat, torn>>
vars      == <<unit, pmmVars, kheapVars, vmmVars, ptVars, kvVars>>

(* Two machines: RAM from zero with a hole, low memory and an initrd; RAM  *)
(* from an unaligned base without any memory below the DMA limit.          *)
Region(b, l, u) == [base |-> b, len |-> l, usable |-> u]
BootMaps ==
  {[mmap |-> <<Region(0, 5, TRUE), Region(5, 1, FALSE), Region(6, 19, TRUE)>>,
    kernelStart |-> 6, kernelEnd |-> 13, images |-> {<<24, 25>>}],
   [mmap |-> <<Region(9, 12, TRUE)>>, kernelStart |-> 9, kernelEnd |-> 12, images |-> {}]}

(* The users of frames and the threads of the heap are interchangeable.   *)
Symmetry == Permutations(Users) \cup Permutations(Threads)

Requests == {[n |-> 20, align |-> 1], [n |-> 60, align |-> 1],
             [n |-> 2, align |-> 8], [n |-> 61, align |-> 1]}
Classes  == <<31, 60>>

Pm == INSTANCE Pmm
Kh == INSTANCE Kheap
Pt == INSTANCE PageTable WITH Prots <- {{"write"}, {"user", "exec"}}

ASSUME BoundsAssumption == /\ MaxOrder \in Nat /\ MaxPageOrder \in Nat /\ Budget > PageBytes
                           /\ KvAssumption /\ VmmAssumption /\ FlagsInUse

Init == /\ unit \in {"pmm", "kheap", "vmm", "pagetable", "kv"}
        /\ Pm!Init /\ (unit = "pmm" \/ bi.images # {})
        /\ Kh!Init /\ VmmInit /\ KvInit
        /\ Pt!Init /\ (unit = "pagetable" \/ (port = "x86" /\ gib))

Next == /\ \/ unit = "pmm" /\ Pm!Next /\ UNCHANGED <<kheapVars, vmmVars, ptVars, kvVars>>
           \/ unit = "kheap" /\ Kh!Next /\ UNCHANGED <<pmmVars, vmmVars, ptVars, kvVars>>
           \/ unit = "vmm" /\ VmmNext /\ UNCHANGED <<pmmVars, kheapVars, ptVars, kvVars>>
           \/ unit = "pagetable" /\ Pt!Next /\ UNCHANGED <<pmmVars, kheapVars, vmmVars, kvVars>>
           \/ unit = "kv" /\ KvNext /\ UNCHANGED <<pmmVars, kheapVars, vmmVars, ptVars>>
        /\ UNCHANGED unit

Spec == Init /\ [][Next]_vars
-----------------------------------------------------------------------------
(* Each frame is reserved, in one free block or held by its owners, whose  *)
(* number is its count, at any interleaving of them; the statistics agree, *)
(* and two free buddies are one block.                                     *)
FramesSound == unit = "pmm" => Pm!FramesOwnedOnce /\ Pm!Coalesced

(* An object of the heap has one owner, and its payload lies inside its    *)
(* block, aligned, apart from the others.                                  *)
HeapSound == unit = "kheap" => Kh!ObjectsOnce /\ Kh!PayloadsFit

(* Page tables translate as the calls asked.                               *)
TranslationRight == unit = "pagetable" => Pt!TranslationRight
=============================================================================
