--------------------------------- MODULE Vfs ---------------------------------
(***************************************************************************)
(* The virtual file system (kernel/fs/vfs.c) over ramfs.c, with a devfs-   *)
(* like file system, whose nodes are static, to mount: path resolution     *)
(* across mounts, open, create, mkdir, unlink, stat and mount and the      *)
(* references they take and drop.  Nothing locks a directory, so a call is *)
(* made of the steps between which another may run: finding an entry,      *)
(* taking its reference, listing a node, taking one off and putting it.    *)
(* A change of a list is one step.  Contents are FileIo.                   *)
(***************************************************************************)
EXTENDS Integers, Sequences, SequencesExt, FiniteSets, FiniteSetsExt

CONSTANTS Threads, Files,      \* callers, open file slots
          Ids,                 \* ids of ramfs nodes, 1 the root
          DevRoot, DevFile,    \* the two static nodes
          Calls,               \* what each thread asks for: operation, path and flags
          MaxRef               \* bound on a reference count

VARIABLES node,    \* node[i] : type, name, parent, kids, ref, mount, and (history) loose: a mount
                   \* covered it or its directory went first, twice: two unlinks took it,
                   \* clash: two creators of one name both found it free here
          file,    \* file[f] : the vnode of an open file, or 0
          hand,    \* hand[t] : t's call: its step, what it holds, and what it points at unheld
          mnt      \* the mount: kind, root and covered node

vfsVars == <<node, file, hand, mnt>>

Blank == [type |-> "free", name |-> "", parent |-> 0, kids |-> <<>>, ref |-> 0, mount |-> 0,
          loose |-> FALSE, twice |-> FALSE, clash |-> FALSE]
Ram(i)  == i \in Ids
Static(type, name) == [Blank EXCEPT !.type = type, !.name = name, !.ref = 1]
NoMount == [kind |-> "none", root |-> 0, covered |-> 0]
Idle    == [pc |-> "idle", op |-> "none", path |-> <<>>, todo |-> <<>>, depth |-> 0,
            cur |-> 0, bare |-> 0, flags |-> {}, root |-> 0]

(* mount_filesystems: the root, with the directory to mount on.            *)
Init == /\ node = [i \in Ids \cup {DevRoot, DevFile} |->
                     CASE i = 1 -> [Blank EXCEPT !.type = "dir", !.ref = 1, !.kids = <<2>>]
                       [] i = 2 -> [Blank EXCEPT !.type = "dir", !.name = "dev", !.parent = 1, !.ref = 1]
                       [] i = DevRoot -> [Static("dir", "") EXCEPT !.kids = <<DevFile>>]
                       [] i = DevFile -> Static("chr", "x")
                       [] OTHER -> Blank]
        /\ file = [f \in Files |-> 0]
        /\ hand = [t \in Threads |-> Idle]
        /\ mnt = NoMount
-----------------------------------------------------------------------------
(* rk_vnode_get and rk_vnode_put; only ramfs has a release operation, so   *)
(* the counts of static nodes are not kept.                                *)
Get(nd, i) == IF Ram(i) THEN [nd EXCEPT ![i].ref = @ + 1] ELSE nd
Put(nd, i) == IF ~Ram(i) THEN nd
              ELSE IF nd[i].ref = 1
              THEN [j \in DOMAIN nd |-> IF j = i THEN [Blank EXCEPT !.twice = nd[i].twice]
                                        ELSE [nd[j] EXCEPT !.loose = @ \/ j \in Range(nd[i].kids)]]
              ELSE [nd EXCEPT ![i].ref = @ - 1]

CrossMount(nd, i) == IF nd[i].mount # 0 THEN nd[i].mount ELSE i

(* The entry of a directory's list, and ramfs_lookup and devdir_lookup; a  *)
(* device has no lookup operation.                                         *)
Entry(dir, name) == LET hits == {k \in DOMAIN node[dir].kids : node[node[dir].kids[k]].name = name}
                    IN IF hits = {} THEN 0 ELSE node[dir].kids[Min(hits)]
Lookup(dir, name) == IF node[dir].type = "chr" THEN 0
                     ELSE IF name = ".." THEN IF node[dir].parent # 0 THEN node[dir].parent ELSE dir
                     ELSE Entry(dir, name)

Roomy    == \A i \in Ids : node[i].ref < MaxRef
At(t, h) == hand' = [hand EXCEPT ![t] = h]
Arrived(t, ops) == hand[t].pc = "walk" /\ hand[t].todo = <<>> /\ hand[t].op \in ops

(* The end of a call: what it holds is put.                                *)
Leave(t, nd) == At(t, Idle) /\ node' = Put(nd, hand[t].cur)
-----------------------------------------------------------------------------
(* rk_vfs_open, rk_vfs_mkdir, rk_vfs_unlink, rk_vfs_stat and rk_vfs_mount  *)
(* all resolve a path first: its first reference, at the root.             *)
Walk(t, op, path, todo, flags, root) ==
  At(t, [Idle EXCEPT !.pc = "walk", !.op = op, !.path = path, !.todo = todo, !.flags = flags, !.root = root,
                     !.cur = CrossMount(node, 1)])

Call(t, op, path, flags) ==
  /\ hand[t].pc = "idle" /\ Roomy /\ op # "mount"
  /\ IF op \in {"mkdir", "unlink"} THEN Walk(t, op, <<Last(path)>>, Front(path), {}, 0)
     ELSE Walk(t, op, IF "creat" \in flags THEN path ELSE <<>>, path, flags, 0)
  /\ node' = Get(node, CrossMount(node, 1))
  /\ UNCHANGED <<file, mnt>>

(* rk_vfs_mount makes the file system's root before it resolves the        *)
(* directory; one mount at a time.                                         *)
Mount(t, op, path, kind) ==
  /\ hand[t].pc = "idle" /\ Roomy /\ op = "mount" /\ mnt.root = 0 /\ \A u \in Threads : hand[u].op # "mount"
  /\ \E root \in IF kind = {"devfs"} THEN {DevRoot} ELSE {i \in Ids : node[i].type = "free"} :
       /\ Walk(t, "mount", <<>>, path, {}, root)
       /\ node' = Get(IF kind = {"devfs"} THEN node
                      ELSE [node EXCEPT ![root] = [Blank EXCEPT !.type = "dir", !.ref = 1]], CrossMount(node, 1))
  /\ UNCHANGED <<file, mnt>>

(* The call fails before it has resolved its path: an open that may create *)
(* resolves the parent from the start, a mount gives its root back.        *)
Fail(t) ==
  LET h == hand[t] IN
  IF h.op = "open" /\ "creat" \in h.flags
  THEN At(t, [h EXCEPT !.pc = "retry", !.cur = 0]) /\ node' = Put(node, h.cur)
  ELSE Leave(t, IF h.root # 0 THEN Put(node, h.root) ELSE node)

Retry(t) == /\ hand[t].pc = "retry"
            /\ Walk(t, "create", <<Last(hand[t].path)>>, Front(hand[t].path), hand[t].flags, 0)
            /\ node' = Get(node, CrossMount(node, 1))
            /\ UNCHANGED <<file, mnt>>

(* One component of rk_vfs_resolve finds a child; depth keeps ".." below   *)
(* the start.                                                              *)
Component(t) ==
  LET h    == hand[t]
      comp == Head(h.todo)
      to   == Lookup(h.cur, comp)
      past == [h EXCEPT !.todo = Tail(@)]
      found(d) == [past EXCEPT !.pc = "found", !.bare = to, !.depth = d]
  IN /\ h.pc = "walk" /\ h.todo # <<>>
     /\ \/ /\ comp \in {"", "."} \/ (comp = ".." /\ h.depth = 0)
           /\ At(t, past) /\ UNCHANGED node
        \/ /\ comp = ".." /\ h.depth > 0
           /\ At(t, IF to = 0 THEN [past EXCEPT !.depth = @ - 1] ELSE found(h.depth - 1)) /\ UNCHANGED node
        \/ /\ comp \notin {"", ".", ".."}
           /\ IF node[h.cur].type = "dir" /\ to # 0 THEN At(t, found(h.depth + 1)) /\ UNCHANGED node ELSE Fail(t)
     /\ UNCHANGED <<file, mnt>>

(* The child's reference for the directory's, and on to what covers it.    *)
Arrive(t) ==
  LET h == hand[t] IN
  /\ h.pc = "found"
  /\ node' = Put(Get(node, h.bare), h.cur)
  /\ At(t, [h EXCEPT !.pc = "walk", !.cur = CrossMount(node, h.bare), !.bare = 0])
  /\ UNCHANGED <<file, mnt>>
-----------------------------------------------------------------------------
(* Mutant: the exclusive open of a file that exists keeps its reference.   *)
ExistsKept(t) == At(t, Idle) /\ UNCHANGED node

Exists(t) == Leave(t, node)

(* The last checks of rk_vfs_open and the new file, or no memory for it.   *)
Open(t, f) ==
  LET h == hand[t]
      refused == \/ "dir" \in h.flags /\ node[h.cur].type # "dir"
                 \/ node[h.cur].type = "dir" /\ "write" \in h.flags
  IN /\ Arrived(t, {"open", "opened"}) /\ file[f] = 0
     /\ IF h.op = "open" /\ {"creat", "excl"} \subseteq h.flags THEN Exists(t) /\ UNCHANGED file
        ELSE \/ Leave(t, node) /\ UNCHANGED file
             \/ ~refused /\ At(t, Idle) /\ file' = [file EXCEPT ![f] = h.cur] /\ UNCHANGED node
     /\ UNCHANGED mnt

(* The create operation on the parent: it looks the name up, and then      *)
(* lists a new node.  What it finds it holds for a moment.                 *)
CreateLook(t) ==
  LET h    == hand[t]
      name == Head(h.path)
      is   == Lookup(h.cur, name)
      able == Ram(h.cur) /\ node[h.cur].type = "dir" /\ name # "."
      rival(u) == u # t /\ hand[u].pc = "add" /\ hand[u].cur = h.cur /\ Head(hand[u].path) = name
  IN /\ Arrived(t, {"create", "mkdir"})
     /\ \/ Leave(t, node) /\ ~able
        \/ /\ able
           /\ At(t, [h EXCEPT !.pc = IF is # 0 THEN "exists" ELSE "add", !.bare = is])
           /\ node' = [node EXCEPT ![h.cur].clash = @ \/ (is = 0 /\ \E u \in Threads : rival(u))]
     /\ UNCHANGED <<file, mnt>>

CreateExists(t) == hand[t].pc = "exists" /\ Leave(t, node) /\ UNCHANGED <<file, mnt>>

(* ramfs_new: the new node has the directory's reference.                  *)
CreateAdd(t) ==
  LET h == hand[t]
      new(i) == [Blank EXCEPT !.type = IF h.op = "mkdir" THEN "dir" ELSE "reg",
                              !.name = Head(h.path), !.parent = h.cur, !.ref = 1]
  IN /\ h.pc = "add"
     /\ \/ Leave(t, node)    \* no memory
        \/ \E i \in {i \in Ids : node[i].type = "free"} :
             /\ \A j \in Ids : node[j].type = "free" => i <= j
             /\ node' = [node EXCEPT ![i] = new(i), ![h.cur].kids = Append(@, i)]
             /\ At(t, [h EXCEPT !.pc = "made", !.bare = i])
     /\ UNCHANGED <<file, mnt>>

(* The caller's reference to it; rk_vfs_mkdir drops it again.              *)
CreateMade(t) ==
  LET h == hand[t] IN
  /\ h.pc = "made"
  /\ IF h.op = "mkdir" THEN Leave(t, node)
     ELSE /\ node' = Put(Get(node, h.bare), h.cur)
          /\ At(t, [h EXCEPT !.pc = "walk", !.op = "opened", !.path = <<>>, !.cur = h.bare, !.bare = 0])
  /\ UNCHANGED <<file, mnt>>

(* ramfs_unlink finds the entry, takes it off the list (list_del of what   *)
(* is off it does nothing) and drops the directory's reference: an open    *)
(* node is left to its last close.                                         *)
UnlinkFind(t) ==
  LET h == hand[t]
      c == IF Ram(h.cur) THEN Entry(h.cur, Head(h.path)) ELSE 0
  IN /\ Arrived(t, {"unlink"})
     /\ IF c = 0 \/ (node[c].type = "dir" /\ node[c].kids # <<>>) THEN Leave(t, node)
        ELSE At(t, [h EXCEPT !.pc = "cut", !.bare = c]) /\ UNCHANGED node
     /\ UNCHANGED <<file, mnt>>

UnlinkCut(t) ==
  LET h == hand[t] IN
  /\ h.pc = "cut"
  /\ node' = [node EXCEPT ![h.bare].twice = @ \/ h.bare \notin Range(node[h.cur].kids),
                          ![h.cur].kids = SelectSeq(@, LAMBDA x : x # h.bare)]
  /\ At(t, [h EXCEPT !.pc = "drop"])
  /\ UNCHANGED <<file, mnt>>

UnlinkDrop(t) == hand[t].pc = "drop" /\ Leave(t, Put(node, hand[t].bare)) /\ UNCHANGED <<file, mnt>>

StatEnd(t) == Arrived(t, {"stat"}) /\ Leave(t, node) /\ UNCHANGED <<file, mnt>>

(* rk_file_put.                                                            *)
Close(f) == /\ file[f] # 0
            /\ node' = Put(node, file[f])
            /\ file' = [file EXCEPT ![f] = 0]
            /\ UNCHANGED <<hand, mnt>>

(* The mount keeps the reference to what it covers.                        *)
MountEnd(t) ==
  LET h == hand[t] IN
  /\ Arrived(t, {"mount"})
  /\ node' = [node EXCEPT ![h.cur].mount = h.root, ![h.cur].loose = TRUE]
  /\ mnt' = [kind |-> IF h.root = DevRoot THEN "devfs" ELSE "ramfs", root |-> h.root, covered |-> h.cur]
  /\ At(t, Idle)
  /\ UNCHANGED file

(* rk_vfs_umount leaves the covered directory's reference behind.          *)
Umount == /\ mnt.root # 0
          /\ LET nd == [node EXCEPT ![mnt.covered].mount = 0]
             IN node' = IF mnt.kind = "ramfs" THEN Put(nd, mnt.root) ELSE nd
          /\ mnt' = NoMount
          /\ UNCHANGED <<file, hand>>

(* What the code is then undefined for: it points at, or two unlinks left  *)
(* it holding, a node that has been released.                              *)
Torn == \/ \E t \in Threads : hand[t].bare # 0 /\ node[hand[t].bare].type = "free"
        \/ \E i \in Ids : /\ node[i].type = "free" /\ node[i].twice
                          /\ \/ \E f \in Files : file[f] = i
                             \/ \E t \in Threads : hand[t].cur = i
                             \/ mnt.covered = i

Begin(t) == \E c \in Calls[t] : Call(t, c[1], c[2], c[3]) \/ Mount(t, c[1], c[2], c[3])
Next == /\ ~Torn
        /\ \/ \E t \in Threads : \/ Begin(t) \/ Component(t) \/ Arrive(t) \/ Retry(t)
                                 \/ CreateLook(t) \/ CreateExists(t) \/ CreateAdd(t) \/ CreateMade(t)
                                 \/ UnlinkFind(t) \/ UnlinkCut(t) \/ UnlinkDrop(t)
                                 \/ StatEnd(t) \/ MountEnd(t)
                                 \/ \E f \in Files : Open(t, f)
           \/ \E f \in Files : Close(f)
           \/ Umount
-----------------------------------------------------------------------------
Links(i) == Cardinality({j \in DOMAIN node : i \in Range(node[j].kids)})
Holds(i) == Cardinality({f \in Files : file[f] = i}) + Cardinality({t \in Threads : hand[t].cur = i})
            + Cardinality({t \in Threads : hand[t].pc = "drop" /\ hand[t].bare = i})
            + (IF i = 1 THEN 1 ELSE 0)

(* However the steps of resolution, creation, removal, mounting and        *)
(* closing interleave: a node that is linked, open, held by a call or      *)
(* covered has not been released, and one that no mount covered, in a      *)
(* directory that was there, counts exactly its link and its holders, so   *)
(* that the last close of an unlinked file frees it, unless two unlinks    *)
(* had found it.  A directory lists a name twice only if two creators had  *)
(* both found it free.                                                     *)
VnodesCounted ==
  /\ \A i \in Ids \ {mnt.root} :
       /\ Links(i) + Holds(i) > 0 \/ mnt.covered = i => node[i].type # "free" \/ node[i].twice
       /\ node[i].type # "free" /\ ~node[i].loose /\ ~node[i].twice => node[i].ref = Links(i) + Holds(i)
  /\ \A i \in DOMAIN node : ~node[i].clash =>
       \A k, l \in DOMAIN node[i].kids : k # l => node[node[i].kids[k]].name # node[node[i].kids[l]].name

(* What the reference in a lookup is for (ramfs.c:63): no call goes on     *)
(* with a node that has been released.                                     *)
NothingTorn == ~Torn

(* What ramfs_create's lookup is for (ramfs.c:94): a name is listed once.  *)
NamesOnce ==
  \A i \in DOMAIN node : \A k, l \in DOMAIN node[i].kids :
    k # l => node[node[i].kids[k]].name # node[node[i].kids[l]].name

(* "Dropping the directory reference is enough; the last close frees it"   *)
(* (ramfs.c:119): no second unlink drops another.                          *)
PutOnce == \A i \in Ids : ~node[i].twice

(* What rk_vnode_get and rk_vnode_put are for: the root of a mounted file  *)
(* system stays while it is mounted.                                       *)
MountedRootAlive == mnt.root # 0 => node[mnt.root].type # "free" /\ node[mnt.root].ref > 0
=============================================================================
