-------------------------------- MODULE FileIo --------------------------------
(***************************************************************************)
(* What files hold.  First ramfs.c's growing buffer with its holes and     *)
(* truncations, or graphfs.c's text rendered anew by every read; open file *)
(* handles with their positions; and rk_vfs_read_file, which reads until   *)
(* the end into a buffer it doubles.  Then the boot archive (initrd.c),    *)
(* whose files are pieces of it.                                           *)
(***************************************************************************)
EXTENDS Integers, Sequences, SequencesExt, FiniteSets, FiniteSetsExt

CONSTANTS Handles, Bytes,
          MaxSize,      \* bound on the size of a file
          FirstCap,     \* first capacity of a ramfs file: 64
          ReadCap,      \* first buffer of rk_vfs_read_file without a size: 4096
          Texts,        \* what a generator of graphfs may render
          Archives      \* sequences of headers: path, type, blocks and whether it is sound

VARIABLES kind,     \* "ram" or "gen"
          data,     \* ramfs: the buffer, stale bytes beyond the size included
          size,     \* vnode.size
          flat,     \* the contents as the calls define them
          fh,       \* fh[h] : position and flags of a handle
          rd        \* rk_vfs_read_file: step, cap, what it has, whether the file changed

VARIABLES arch,      \* the archive
          at, block, \* the next header, the block it is in
          tnode,     \* the nodes, 1 the root: name, type, children, first block
          phase      \* "parse", "done"

ioVars == <<kind, data, size, flat, fh, rd>>

Closed == [open |-> FALSE, pos |-> 0, flags |-> {}]
NoRead == [pc |-> "idle", cap |-> 0, buf |-> <<>>, steady |-> TRUE]

Init == /\ kind \in {"ram", "gen"}
        /\ data = <<>> /\ size = 0 /\ flat = <<>>
        /\ fh = [h \in Handles |-> Closed]
        /\ rd = NoRead
-----------------------------------------------------------------------------
Zeros(n) == [i \in 1..n |-> 0]
Overlay(s, off, bytes) == SubSeq(s, 1, off) \o bytes \o SubSeq(s, off + Len(bytes) + 1, Len(s))
Larger(a, b) == IF a < b THEN b ELSE a
Changed == rd' = [rd EXCEPT !.steady = FALSE]

(* ramfs_grow: double until it fits, copy what is there, zero the rest.    *)
Capacity(have, want) ==
  CHOOSE c \in {(IF have = 0 THEN FirstCap ELSE have) * m : m \in {1, 2, 4, 8, 16}} :
    /\ c >= want
    /\ \A m \in {2, 4, 8, 16} : c # (IF have = 0 THEN FirstCap ELSE have) * m \/ c \div 2 < want
Grow(want) == IF want <= Len(data) THEN data
              ELSE SubSeq(data, 1, size) \o Zeros(Capacity(Len(data), want) - size)

(* Mutant: a write past the end leaves the bytes of the gap as they were.  *)
HoleKept(d, off) == d

(* The gap between the end and the write is zeroed, ...                    *)
Hole(d, off) == IF off > size THEN Overlay(d, size, Zeros(off - size)) ELSE d

(* ... ramfs_write; the buffer may not be had.                             *)
WriteAt(off, bytes) ==
  LET n == Larger(size, off + Len(bytes)) IN
  /\ data' = Overlay(Hole(Grow(off + Len(bytes)), off), off, bytes)
  /\ size' = n
  /\ flat' = Overlay(flat \o Zeros(n - Len(flat)), off, bytes)
  /\ Changed

(* rk_vfs_open: O_TRUNC empties the file without giving back the buffer,   *)
(* O_APPEND starts at the end.                                             *)
OpenFile(h, flags) ==
  /\ ~fh[h].open
  /\ IF "trunc" \in flags /\ kind = "ram" THEN size' = 0 /\ flat' = <<>> /\ Changed
     ELSE UNCHANGED <<size, flat, rd>>
  /\ fh' = [fh EXCEPT ![h] = [open |-> TRUE, pos |-> IF "append" \in flags THEN size' ELSE 0,
                              flags |-> flags]]
  /\ UNCHANGED <<kind, data>>

CloseFile(h) == fh[h].open /\ fh' = [fh EXCEPT ![h] = Closed] /\ UNCHANGED <<kind, data, size, flat, rd>>

(* rk_file_write moves the position by what was written.                   *)
WriteFile(h, bytes) ==
  /\ fh[h].open /\ "write" \in fh[h].flags /\ kind = "ram"
  /\ fh[h].pos + Len(bytes) <= MaxSize
  /\ WriteAt(fh[h].pos, bytes)
  /\ fh' = [fh EXCEPT ![h].pos = @ + Len(bytes)]
  /\ UNCHANGED kind

(* ramfs_read and gfile_read: the slice at the position; a generated file  *)
(* takes the size of what was rendered.                                    *)
Slice(n, off) == LET all == IF kind = "ram" THEN SubSeq(data, 1, size) ELSE flat
                 IN SubSeq(all, off + 1, Min({off + n, Len(all)}))
SizeAfterRead == IF kind = "ram" THEN size ELSE Len(flat)

ReadFile(h, n) ==
  /\ fh[h].open /\ "read" \in fh[h].flags
  /\ LET got == Slice(n, fh[h].pos) IN
     fh' = [fh EXCEPT ![h].pos = @ + Len(got)]
  /\ size' = SizeAfterRead
  /\ UNCHANGED <<kind, data, flat, rd>>

(* rk_file_seek: a negative position is refused.                           *)
Seek(h, base, off) ==
  /\ fh[h].open
  /\ LET np == (CASE base = "set" -> 0 [] base = "cur" -> fh[h].pos [] OTHER -> size) + off
     IN np \in 0..MaxSize /\ fh' = [fh EXCEPT ![h].pos = np]
  /\ UNCHANGED <<kind, data, size, flat, rd>>

(* The state a generator renders changes.                                  *)
Regenerate(text) == /\ kind = "gen" /\ text # flat
                    /\ flat' = text /\ Changed
                    /\ UNCHANGED <<kind, data, size, fh>>
-----------------------------------------------------------------------------
(* rk_vfs_read_file: sized by stat, which a generated file's may be stale. *)
ReadAllBegin == /\ rd.pc = "idle"
                /\ rd' = [pc |-> "loop", cap |-> IF size # 0 THEN size + 1 ELSE ReadCap, buf |-> <<>>, steady |-> TRUE]
                /\ UNCHANGED <<kind, data, size, flat, fh>>

(* Mutant: the buffer counts as full a byte late.                          *)
FullLate(used, cap) == used >= cap

Full(used, cap) == used + 1 >= cap

ReadAllStep ==
  /\ rd.pc = "loop"
  /\ LET cap == IF Full(Len(rd.buf), rd.cap) THEN 2 * rd.cap ELSE rd.cap
         got == Slice(cap - Len(rd.buf) - 1, Len(rd.buf))
     IN rd' = [rd EXCEPT !.cap = cap, !.buf = @ \o got, !.pc = IF got = <<>> THEN "done" ELSE "loop"]
  /\ size' = SizeAfterRead
  /\ UNCHANGED <<kind, data, flat, fh>>

ReadAllEnd == rd.pc = "done" /\ rd' = NoRead /\ UNCHANGED <<kind, data, size, flat, fh>>

Flags == {{"read", "write"}, {"write", "trunc"}, {"write", "append"}}
Next == \/ \E h \in Handles : \/ \E fl \in Flags : OpenFile(h, fl)
                              \/ \E b \in Bytes : WriteFile(h, <<b>>) \/ WriteFile(h, <<b, b>>)
                              \/ \E n \in 1..2 : ReadFile(h, n)
                              \/ \E base \in {"set", "cur", "end"}, off \in -1..2 : Seek(h, base, off)
                              \/ CloseFile(h)
        \/ \E t \in Texts : Regenerate(t)
        \/ ReadAllBegin \/ ReadAllStep \/ ReadAllEnd
-----------------------------------------------------------------------------
(* Whatever handles write, seek, append and truncate: the file is exactly  *)
(* what the calls put there, zero in the holes and never the bytes of an   *)
(* earlier life; and reading a file that did not change meanwhile returns  *)
(* all of it, however wrong the size was that stat gave.                   *)
ContentsExact ==
  /\ kind = "ram" => size = Len(flat) /\ SubSeq(data, 1, size) = flat /\ size <= Len(data)
  /\ rd.pc = "done" /\ rd.steady => rd.buf = flat

(* The comment at gfile_read: rendering the whole file per read keeps the  *)
(* data exactly consistent.  What was read in pieces is one of the texts.  *)
ReadsConsistent == kind = "gen" /\ rd.pc = "done" => rd.buf \in Texts \cup {<<>>}
-----------------------------------------------------------------------------
(* The boot archive: a pass over tar headers builds a tree of nodes that   *)
(* point into the archive, with the directories it does not list made on   *)
(* the way; the tree is then looked up as any other.  Offsets and sizes    *)
(* count blocks of 512 bytes.                                              *)
initrdVars == <<arch, at, block, tnode, phase>>

Node(name, type, start) == [name |-> name, type |-> type, kids |-> <<>>, data |-> start]
ArchiveInit == /\ arch \in Archives
               /\ at = 1 /\ block = 0 /\ phase = "parse"
               /\ tnode = <<Node("", "dir", 0)>>
-----------------------------------------------------------------------------
FindChild(tn, d, name) ==
  LET hits == {k \in DOMAIN tn[d].kids : tn[tn[d].kids[k]].name = name}
  IN IF hits = {} THEN 0 ELSE tn[d].kids[Min(hits)]

MakeNode(tn, d, n) == Append([tn EXCEPT ![d].kids = Append(@, Len(tn) + 1)], n)

(* Mutant: a directory on the way is made without looking for it.          *)
DescendAnew(st, comp) == [tn |-> MakeNode(st.tn, st.d, Node(comp, "dir", 0)), d |-> Len(st.tn) + 1]

(* One component of mkpath.                                                *)
Descend(st, comp) ==
  LET c == FindChild(st.tn, st.d, comp)
  IN IF c # 0 THEN [st EXCEPT !.d = c]
     ELSE [tn |-> MakeNode(st.tn, st.d, Node(comp, "dir", 0)), d |-> Len(st.tn) + 1]

(* mkpath: "." and empty components are skipped; the last one is the leaf. *)
Clean(path) == SelectSeq(path, LAMBDA c : c \notin {"", "."})
MkPath(path) == FoldLeft(Descend, [tn |-> tnode, d |-> 1], Front(path))

Enter(h) ==
  LET path == Clean(h.path)
      dir  == MkPath(path)
      leaf == Last(path)
  IN IF path = <<>> THEN tnode
     ELSE CASE h.type = "dir" /\ FindChild(dir.tn, dir.d, leaf) = 0 -> MakeNode(dir.tn, dir.d, Node(leaf, "dir", 0))
            [] h.type = "file" -> MakeNode(dir.tn, dir.d, Node(leaf, "reg", block + 1))
            [] OTHER -> dir.tn

More == IF at <= Len(arch) THEN arch[at].sound ELSE FALSE

(* rk_initrd_mount_mem: one header; a zero name, a bad magic or a bad sum  *)
(* ends the pass.                                                          *)
Header == /\ phase = "parse" /\ More
          /\ tnode' = Enter(arch[at])
          /\ block' = block + 1 + arch[at].blocks
          /\ at' = at + 1
          /\ UNCHANGED <<arch, phase>>
Stop == /\ phase = "parse" /\ ~More
        /\ phase' = "done"
        /\ UNCHANGED <<arch, at, block, tnode>>
ArchiveNext == Header \/ Stop
-----------------------------------------------------------------------------
(* initrd_lookup down a path, 0 for none.                                  *)
Find(path) == FoldLeft(LAMBDA d, c : IF d = 0 THEN 0 ELSE FindChild(tnode, d, c), 1, Clean(path))

OffsetOf(i) == FoldLeft(LAMBDA s, h : s + 1 + h.blocks, 0, SubSeq(arch, 1, i - 1))
SamePath(i, j) == Clean(arch[i].path) = Clean(arch[j].path)

(* Every file before the first unsound header is found under its path with *)
(* the data that follows its header, unless an earlier header has its      *)
(* path; every directory it needs exists once, listed or not, in any order *)
(* of the archive; and nothing else is there.                              *)
TreeExact ==
  /\ \A i \in 1..(at - 1) :
       LET n == Find(arch[i].path) IN
       (arch[i].type \in {"file", "dir"} /\ Clean(arch[i].path) # <<>>) =>
          /\ n # 0
          /\ tnode[n].type = (IF arch[i].type = "dir" THEN "dir" ELSE "reg")
          /\ arch[i].type = "file" /\ (\A j \in 1..(i - 1) : ~SamePath(i, j)) => tnode[n].data = OffsetOf(i) + 1
  /\ \A d \in DOMAIN tnode : \A k, l \in DOMAIN tnode[d].kids :
       k # l /\ tnode[tnode[d].kids[k]].type = "dir" => tnode[tnode[d].kids[k]].name # tnode[tnode[d].kids[l]].name
=============================================================================
