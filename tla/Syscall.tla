-------------------------------- MODULE Syscall --------------------------------
(***************************************************************************)
(* File system calls of a task with several threads                        *)
(* (kernel/syscall/syscall.c): handles are capabilities, a read, write or  *)
(* seek resolves its handle, reads the file's pointer from the object, and *)
(* moves the file's position, while other threads open and close handles.  *)
(* The lock of the handle table covers a slot, not what it points at: the  *)
(* reference to an object is taken and dropped in steps of its own.        *)
(***************************************************************************)
EXTENDS Integers, Sequences, FiniteSets, FiniteSetsExt

CONSTANTS Threads, Slots, Objects, OpenFiles,
          FileLen,    \* length of the file they open
          Chunk       \* bytes of a read or write

VARIABLES slot,    \* capability slots: object and rights
          cobj,    \* cap_objects: references and the file; one without references is free
          ofile,   \* rk_files: mode, position, references
          sys      \* sys[t] : the step of t's call, its object and file, and (history) lost:
                   \* the object was freed while the call had no reference to it

sysVars == <<slot, cobj, ofile, sys>>

(* Tables are numbered; NULL is no object.                                 *)
SyscallAssumption == /\ Slots \subseteq Nat /\ Objects \subseteq Nat /\ OpenFiles \subseteq Nat
                     /\ IsFiniteSet(Slots) /\ IsFiniteSet(Threads) /\ 0 \notin Objects
                     /\ FileLen \in Nat /\ Chunk \in Nat

Empty == [obj |-> 0, rights |-> {}]
Quiet == [pc |-> "user", op |-> "none", obj |-> 0, lost |-> FALSE, f |-> 0, pos |-> 0, n |-> 0]
Init == /\ slot = [h \in Slots |-> Empty]
        /\ cobj = [o \in Objects |-> [refs |-> 0, file |-> 0]]
        /\ ofile = [f \in OpenFiles |-> [mode |-> {}, pos |-> 0, refs |-> 0]]
        /\ sys = [t \in Threads |-> Quiet]
-----------------------------------------------------------------------------
FreeSlots   == {h \in Slots : slot[h].obj = 0}
FreeObjects == {o \in Objects : cobj[o].refs = 0}
FreeFiles   == {f \in OpenFiles : ofile[f].refs = 0}

Step(t, call) == sys' = [sys EXCEPT ![t] = call]

(* sys_open, after rk_vfs_open gave it a file: the object takes the file   *)
(* and cap_install stores it in a slot.  A full table leaves neither.      *)
SysOpen(t, mode) ==
  /\ sys[t].pc = "user" /\ FreeFiles # {}
  /\ LET f == Min(FreeFiles)
         opened == [ofile EXCEPT ![f] = [mode |-> mode, pos |-> 0, refs |-> 1]]
     IN \/ UNCHANGED sysVars                                  \* no file, or no object: rk_file_put
        \/ /\ FreeObjects # {} /\ FreeSlots # {}
           /\ ofile' = opened
           /\ cobj' = [cobj EXCEPT ![Min(FreeObjects)] = [refs |-> 1, file |-> f]]
           /\ slot' = [slot EXCEPT ![Min(FreeSlots)] = [obj |-> Min(FreeObjects), rights |-> {"inspect"} \cup mode]]
           /\ Step(t, [Quiet EXCEPT !.pc = "get", !.obj = Min(FreeObjects)])
        \/ /\ FreeObjects # {} /\ FreeSlots = {}               \* RK_ENFILE: the object is put, its file is not
           /\ ofile' = opened /\ UNCHANGED <<slot, cobj, sys>>

(* cap_install, out of the lock: the slot's reference.  To take one of an  *)
(* object that was freed in between is undefined, and not followed.        *)
SysGet(t) ==
  /\ sys[t].pc = "get" /\ ~sys[t].lost
  /\ cobj' = [cobj EXCEPT ![sys[t].obj].refs = @ + 1]
  /\ Step(t, [sys[t] EXCEPT !.pc = "put"])
  /\ UNCHANGED <<slot, ofile>>

(* SYS_CLOSE: cap_close clears the slot, and then drops its reference.     *)
SysClose(t, h) ==
  /\ sys[t].pc = "user" /\ slot[h].obj # 0
  /\ slot' = [slot EXCEPT ![h] = Empty]
  /\ Step(t, [Quiet EXCEPT !.pc = "put", !.obj = slot[h].obj])
  /\ UNCHANGED <<cobj, ofile>>

(* cap_object_put, by a close or by sys_open, which drops its own: the     *)
(* last calls the release operation, which file objects do not have, and   *)
(* frees the object under whoever has only a pointer to it.                *)
Robbed(u, o) == cobj[o].refs = 1 /\ sys[u].pc \in {"get", "resolve"} /\ sys[u].obj = o
SysPut(t) ==
  LET o == sys[t].obj IN
  /\ sys[t].pc = "put"
  /\ cobj' = [cobj EXCEPT ![o].refs = @ - 1]
  /\ sys' = [u \in Threads |-> IF u = t THEN Quiet ELSE [sys[u] EXCEPT !.lost = @ \/ Robbed(u, o)]]
  /\ UNCHANGED <<slot, ofile>>

(* Mutant: a handle is looked up without the rights it must carry.         *)
AnyHandle(h, op) == slot[h].obj # 0

(* resolve: cap_lookup finds the object, with the rights of the slot, ...  *)
Resolvable(h, op) == slot[h].obj # 0 /\ op \in slot[h].rights

SysBegin(t, h, op) ==
  /\ sys[t].pc = "user" /\ Resolvable(h, op)
  /\ Step(t, [Quiet EXCEPT !.pc = "resolve", !.op = op, !.obj = slot[h].obj])
  /\ UNCHANGED <<slot, cobj, ofile>>

(* ... and the caller reads its pointer: a freed object keeps the old one  *)
(* until it is used again.                                                 *)
SysPointer(t) ==
  /\ sys[t].pc = "resolve"
  /\ Step(t, [sys[t] EXCEPT !.pc = "io", !.f = cobj[sys[t].obj].file])
  /\ UNCHANGED <<slot, cobj, ofile>>

(* rk_file_read and rk_file_write: at the position ...                     *)
SysTransfer(t) ==
  /\ sys[t].pc = "io" /\ sys[t].op \in {"read", "write"}
  /\ LET p == ofile[sys[t].f].pos IN
     sys' = [sys EXCEPT ![t].pc = "move", ![t].pos = p,
                        ![t].n = IF sys[t].op \notin ofile[sys[t].f].mode THEN 0
                                 ELSE IF sys[t].op = "read" THEN Max({0, Min({Chunk, FileLen - p})})
                                 ELSE IF p + Chunk <= FileLen THEN Chunk ELSE 0]
  /\ UNCHANGED <<slot, cobj, ofile>>

(* ... which then moves by what was transferred; a copy that fails does    *)
(* not move it back.                                                       *)
SysMove(t) ==
  /\ sys[t].pc = "move"
  /\ ofile' = [ofile EXCEPT ![sys[t].f].pos = @ + sys[t].n]
  /\ Step(t, Quiet)
  /\ UNCHANGED <<slot, cobj>>

SysSeek(t, p) ==
  /\ sys[t].pc = "io" /\ sys[t].op = "inspect"
  /\ ofile' = [ofile EXCEPT ![sys[t].f].pos = p]
  /\ Step(t, Quiet)
  /\ UNCHANGED <<slot, cobj>>

Next == \E t \in Threads : \/ \E m \in {{"read"}, {"read", "write"}} : SysOpen(t, m)
                           \/ \E h \in Slots : \/ SysClose(t, h)
                                               \/ \E op \in {"read", "write", "inspect"} : SysBegin(t, h, op)
                           \/ SysGet(t) \/ SysPut(t) \/ SysPointer(t) \/ SysTransfer(t) \/ SysMove(t)
                           \/ \E p \in {0, FileLen} : SysSeek(t, p)
-----------------------------------------------------------------------------
Acts(t) == sys[t].pc \in {"io", "move"}
Serves(t) == sys[t].op = "inspect" \/ sys[t].op \in ofile[sys[t].f].mode

(* A file opened for reading is never written through, says sys_open, and  *)
(* a call in flight has an open file, the one its handle named, in the     *)
(* mode the call needs, even when the handle was closed and used again     *)
(* since, unless the object was freed before its pointer was read.  The    *)
(* objects count their slots and the calls about to put them.              *)
CallsKeepFiles ==
  /\ \A t \in Threads : Acts(t) => ofile[sys[t].f].refs > 0 /\ (Serves(t) \/ sys[t].lost)
  /\ \A o \in Objects : cobj[o].refs = Cardinality({h \in Slots : slot[h].obj = o})
                                       + Cardinality({t \in Threads : sys[t].pc = "put" /\ sys[t].obj = o})

(* "so a file opened for reading cannot later be written through"          *)
(* (syscall.c:165), whatever is closed and opened again meanwhile.         *)
NeverAnothers == \A t \in Threads : Acts(t) => Serves(t)

(* What the slot's reference is for: no open takes it of a freed object.   *)
TakenInTime == \A t \in Threads : sys[t].pc = "get" => ~sys[t].lost

(* The comment in ramfs_unlink: the last close frees an open node.  A file *)
(* that no handle and no call can reach has been put.                      *)
LastCloseFrees ==
  \A f \in OpenFiles : ofile[f].refs > 0 =>
    \/ \E h \in Slots : slot[h].obj # 0 /\ cobj[slot[h].obj].file = f
    \/ \E t \in Threads : Acts(t) /\ sys[t].f = f
    \/ \E t \in Threads : sys[t].obj # 0 /\ cobj[sys[t].obj].file = f
=============================================================================
