------------------------------ MODULE GraphTree ------------------------------
(***************************************************************************)
(* The runtime graph (kernel/graph/graph.c): first its tree of nodes and   *)
(* their lazy digests, then its event ring.  A change marks the node and   *)
(* its ancestors; a digest is computed when it is asked for and cached     *)
(* until then.  Every operation on nodes is one critical section of        *)
(* graph_lock.  A digest is the tuple it hashes; children go in as a bag,  *)
(* which is what folding them in digest order amounts to.                  *)
(***************************************************************************)
EXTENDS Integers, Sequences, SequencesExt, FiniteSets, FiniteSetsExt, TLC

CONSTANTS Ids,          \* ids of nodes but the root, which is 0
          Kinds, Keys, Vals,
          MaxAttrs,     \* RK_GRAPH_MAX_ATTRS
          EdgeKinds, MaxEdges,
          Producers, Size,   \* of the event ring: RK_GRAPH_EVENT_RING
          MaxSeq             \* bound on events

VARIABLES node,    \* node[i] : kind, parent, children, attributes, digest, and (history)
                   \* whether it lost an edge since its digest; 0 is the root
          edges    \* the edges, in the order they were linked

VARIABLES eventSeq,   \* event_seq
          ring,       \* slot : sequence number, the event its payload is of, and
                      \* (history) whether its last producer had it to itself
          prod,       \* prod[p] : the step of rk_graph_record, its number
          read,       \* the reader: step, head, position, whether the ring was calm
          cursor, got \* the caller's cursor, what its last read returned

graphVars == <<node, edges>>

NoDigest == <<>>
Fresh(k, p) == [kind |-> k, parent |-> p, kids |-> <<>>, attrs |-> <<>>, valid |-> FALSE, digest |-> NoDigest,
                short |-> FALSE]

Init == node = (0 :> Fresh("root", -1)) /\ edges = <<>>
-----------------------------------------------------------------------------
(* The ancestors of a node, and the node: the parent chain ends at the root.*)
RECURSIVE Up(_, _)
Up(nd, i) == IF i = -1 THEN {} ELSE {i} \cup Up(nd, nd[i].parent)

(* Mutant: only the node itself is marked.                                 *)
InvalidateOne(nd, i) == [nd EXCEPT ![i].valid = FALSE, ![i].digest = NoDigest]

(* invalidate_up.  The bytes of an invalid digest are not read again.      *)
InvalidateUp(nd, i) == [j \in DOMAIN nd |-> IF j \in Up(nd, i)
                                            THEN [nd[j] EXCEPT !.valid = FALSE, !.digest = NoDigest, !.short = FALSE]
                                            ELSE nd[j]]

NodeCreate(i, kind, p) ==
  /\ i \in Ids \ DOMAIN node /\ p \in DOMAIN node
  /\ node' = LET nd == [node EXCEPT ![p].kids = Append(@, i)] @@ (i :> Fresh(kind, p))
             IN InvalidateUp(nd, p)
  /\ UNCHANGED edges

(* rk_graph_node_destroy: the children move to the parent's list, the      *)
(* edges at both ends go.  Only the parent's side is marked: a node whose  *)
(* edge led here keeps the digest it has.                                  *)
NodeDestroy(i) ==
  LET p    == node[i].parent
      kids == node[i].kids
      rest == [j \in DOMAIN node \ {i} |->
                 IF j = p THEN [node[j] EXCEPT !.kids = SelectSeq(@, LAMBDA x : x # i) \o kids]
                 ELSE IF j \in Range(kids) THEN [node[j] EXCEPT !.parent = p] ELSE node[j]]
      from == {edges[n].from : n \in {m \in DOMAIN edges : edges[m].to = i}}
      cut  == [j \in DOMAIN rest |-> [rest[j] EXCEPT !.short = @ \/ (rest[j].valid /\ j \in from)]]
  IN /\ i \in DOMAIN node \ {0}
     /\ node' = InvalidateUp(cut, p)
     /\ edges' = SelectSeq(edges, LAMBDA e : e.from # i /\ e.to # i)

(* attr_slot: in place, inserted before the first larger key, or nowhere   *)
(* when the node is full.                                                  *)
SetSlot(attrs, key, v) ==
  LET old    == {k \in DOMAIN attrs : attrs[k].key = key}
      larger == {k \in DOMAIN attrs : attrs[k].key > key}
      a      == [key |-> key, v |-> v]
  IN IF old # {} THEN [attrs EXCEPT ![Min(old)] = a]
     ELSE IF Len(attrs) >= MaxAttrs THEN attrs
     ELSE IF larger = {} THEN Append(attrs, a) ELSE InsertAt(attrs, Min(larger), a)

SetAttr(i, key, v) ==
  LET full == Len(node[i].attrs) >= MaxAttrs /\ \A k \in DOMAIN node[i].attrs : node[i].attrs[k].key # key IN
  /\ node' = IF full THEN node
             ELSE InvalidateUp([node EXCEPT ![i].attrs = SetSlot(@, key, v)], i)
  /\ UNCHANGED edges

Touch(i) == node' = InvalidateUp(node, i) /\ UNCHANGED edges

Link(from, to, k) == /\ Len(edges) < MaxEdges
                     /\ edges' = Append(edges, [from |-> from, to |-> to, kind |-> k])
                     /\ node' = InvalidateUp(node, from)
Unlink(n) == /\ edges' = RemoveAt(edges, n)
             /\ node' = InvalidateUp(node, edges[n].from)
-----------------------------------------------------------------------------
(* How often each digest occurs among those of a node's children.          *)
BagOf(kids, d(_)) == [x \in {d(k) : k \in Range(kids)} |-> Cardinality({k \in Range(kids) : d(k) = x})]
EdgesOut(nd, ed, i) == LET out == SelectSeq(ed, LAMBDA e : e.from = i)
                       IN [k \in DOMAIN out |-> <<out[k].kind, nd[out[k].to].kind>>]

(* node_digest_locked: a valid child's digest is taken as it is.           *)
RECURSIVE NodeDigest(_, _, _)
NodeDigest(nd, ed, i) ==
  <<nd[i].kind, nd[i].attrs,
    BagOf(nd[i].kids, LAMBDA k : IF nd[k].valid THEN nd[k].digest ELSE NodeDigest(nd, ed, k)),
    EdgesOut(nd, ed, i)>>

(* rk_graph_digest: what it computes below the node is cached there too.   *)
RECURSIVE Computed(_, _)
Computed(nd, i) == IF nd[i].valid THEN {} ELSE {i} \cup UNION {Computed(nd, k) : k \in Range(nd[i].kids)}

AskDigest(i) ==
  /\ node' = [j \in DOMAIN node |-> IF j \in Computed(node, i)
                                    THEN [node[j] EXCEPT !.valid = TRUE, !.digest = NodeDigest(node, edges, j)]
                                    ELSE node[j]]
  /\ UNCHANGED edges

Next == \/ \E i \in Ids, k \in Kinds, p \in DOMAIN node : NodeCreate(i, k, p)
        \/ \E i \in DOMAIN node :
             \/ NodeDestroy(i) \/ Touch(i) \/ AskDigest(i)
             \/ \E key \in Keys, v \in Vals : SetAttr(i, key, v)
             \/ \E j \in DOMAIN node, k \in EdgeKinds : Link(i, j, k)
        \/ \E n \in DOMAIN edges : Unlink(n)
-----------------------------------------------------------------------------
(* The state of a subtree, as a fresh hash of all of it would read it.     *)
RECURSIVE Canonical(_)
Canonical(i) == <<node[i].kind, {node[i].attrs[k] : k \in DOMAIN node[i].attrs},
                  BagOf(node[i].kids, Canonical), EdgesOut(node, edges, i)>>
RECURSIVE Plain(_)
Plain(d) == <<d[1], Range(d[2]),
              [x \in {Plain(c) : c \in DOMAIN d[3]} |->
                 LET C == {c \in DOMAIN d[3] : Plain(c) = x} IN MapThenSumSet(LAMBDA c : d[3][c], C)], d[4]>>

(* No node of a subtree lost an edge to a node destroyed since its digest. *)
Whole(i) == \A j \in DOMAIN node : node[j].short => i \notin Up(node, j)

(* A cached digest is the digest of the subtree as it is now, over every   *)
(* order of changes, moves of children and questions about any node,       *)
(* unless a node in it lost an edge by the destruction of the other end;   *)
(* and nodes in the same state have the same digest however they came to   *)
(* it.                                                                     *)
DigestsFresh ==
  /\ \A i \in DOMAIN node : node[i].valid /\ Whole(i) => Plain(node[i].digest) = Canonical(i)
  /\ \A i, j \in DOMAIN node : node[i].valid /\ node[j].valid /\ Whole(i) /\ Whole(j) =>
       (Canonical(i) = Canonical(j)) = (node[i].digest = node[j].digest)
  /\ \A i \in DOMAIN node \ {0} : node[i].parent \in DOMAIN node /\ i \in Range(node[node[i].parent].kids)

(* Stated, and not kept: every cached digest is fresh.                     *)
EveryDigestFresh == \A i \in DOMAIN node : node[i].valid => Plain(node[i].digest) = Canonical(i)
-----------------------------------------------------------------------------
(* The event ring.  A producer takes a sequence number, stores it in the   *)
(* slot and then the rest of the record, without a lock and from any       *)
(* context; a reader copies the records whose number is the one it         *)
(* expects.  Replay hands a recorded array back in order.                  *)
ringVars == <<eventSeq, ring, prod, read, cursor, got>>

Resting == [pc |-> "out", head |-> 0, pos |-> 0, calm |-> TRUE]

RingInit == /\ eventSeq = 0
            /\ ring = [k \in 0..(Size - 1) |-> [seq |-> 0, of |-> -1, alone |-> TRUE]]
            /\ prod = [p \in Producers |-> [pc |-> "out", seq |-> 0]]
            /\ read = Resting /\ cursor = 0 /\ got = <<>>
-----------------------------------------------------------------------------
Disturb == read' = [read EXCEPT !.calm = FALSE]

(* rk_graph_record: the number, then the two kinds of stores.              *)
TakeSeq(p) == /\ prod[p].pc = "out" /\ eventSeq < MaxSeq
              /\ eventSeq' = eventSeq + 1
              /\ prod' = [prod EXCEPT ![p] = [pc |-> "seq", seq |-> eventSeq]]
              /\ ring' = [ring EXCEPT ![eventSeq % Size].alone = ~\E q \in Producers :
                             prod[q].pc # "out" /\ prod[q].seq % Size = eventSeq % Size]
              /\ Disturb /\ UNCHANGED <<cursor, got>>
StoreSeq(p) == /\ prod[p].pc = "seq"
               /\ ring' = [ring EXCEPT ![prod[p].seq % Size].seq = prod[p].seq]
               /\ prod' = [prod EXCEPT ![p].pc = "rest"]
               /\ Disturb /\ UNCHANGED <<eventSeq, cursor, got>>
StoreRest(p) == /\ prod[p].pc = "rest"
                /\ ring' = [ring EXCEPT ![prod[p].seq % Size].of = prod[p].seq]
                /\ prod' = [prod EXCEPT ![p].pc = "out"]
                /\ Disturb /\ UNCHANGED <<eventSeq, cursor, got>>

(* Mutant: one slot of a full ring counts as gone.                         *)
OldestTooNew(head) == IF head >= Size THEN head - Size + 1 ELSE 0

(* rk_graph_events_read: from the cursor or the oldest event still there,  *)
(* one record at a time, compared and then copied.                         *)
Oldest(head) == IF head > Size THEN head - Size ELSE 0

ReadBegin == /\ read.pc = "out"
             /\ read' = [pc |-> "look", head |-> eventSeq, pos |-> Max({cursor, Oldest(eventSeq)}),
                         calm |-> \A p \in Producers : prod[p].pc = "out"]
             /\ got' = <<>>
             /\ UNCHANGED <<eventSeq, ring, prod, cursor>>
ReadLook == /\ read.pc = "look" /\ read.pos < read.head
            /\ read' = IF ring[read.pos % Size].seq = read.pos THEN [read EXCEPT !.pc = "copy"]
                       ELSE [read EXCEPT !.pos = @ + 1]
            /\ UNCHANGED <<eventSeq, ring, prod, cursor, got>>
ReadCopy == /\ read.pc = "copy"
            /\ got' = Append(got, [pos |-> read.pos, calm |-> read.calm] @@ ring[read.pos % Size])
            /\ read' = [read EXCEPT !.pc = "look", !.pos = @ + 1]
            /\ UNCHANGED <<eventSeq, ring, prod, cursor>>
(* The read ends at the head, or early when the caller's buffer is full.   *)
ReadEnd == /\ read.pc = "look" /\ (read.pos = read.head \/ got # <<>>)
           /\ cursor' = read.pos
           /\ read' = Resting
           /\ UNCHANGED <<eventSeq, ring, prod, got>>

RingNext == \/ \E p \in Producers : TakeSeq(p) \/ StoreSeq(p) \/ StoreRest(p)
            \/ ReadBegin \/ ReadLook \/ ReadCopy \/ ReadEnd
-----------------------------------------------------------------------------
(* A read that no producer disturbed returns the events from its cursor    *)
(* that the ring still holds, each whole unless two producers a whole ring *)
(* apart wrote its slot at once; no read returns a position twice or moves *)
(* the cursor back.                                                        *)
CalmReadExact ==
  /\ \A i \in DOMAIN got : /\ got[i].calm /\ got[i].alone => got[i].of = got[i].pos /\ got[i].seq = got[i].pos
                           /\ i > 1 => got[i].pos > got[i - 1].pos
  /\ read.pc # "out" => read.pos >= cursor
  /\ read.pc = "look" /\ read.calm /\ read.pos = read.head
       => \A q \in Max({cursor, read.head - Size})..(read.head - 1) :
            ring[q % Size].seq = q => \E i \in DOMAIN got : got[i].pos = q

(* The comment in rk_graph_record: a reader that is lapped sees a torn     *)
(* record, and the sequence number lets it detect that and skip.           *)
EventsWhole == \A i \in DOMAIN got : got[i].of = got[i].pos
=============================================================================
