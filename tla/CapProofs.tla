------------------------------ MODULE CapProofs ------------------------------
(***************************************************************************)
(* The capability spaces of Cap, for any finite number of tasks and slots. *)
(***************************************************************************)
EXTENDS Cap, FiniteSetTheorems, TLAPS

Granting == {"reread", "install", "get"}
Places   == {"run", "call", "reread", "install", "get", "put", "once", "close"}

(* The locals of a call, by where it is: an installation is a creation's or *)
(* a derivation's in the caller's own space, or a grant's between the       *)
(* caller's space and another.  Reply objects are never derived or granted. *)
Shape(t) ==
  LET o == op[t] IN
  /\ pc[t] \in Granting =>
       /\ o.to \in Tasks /\ o.obj \in born
       /\ o.from = None => o.to = t
       /\ o.from # None => o.from \in Tasks /\ o.from # o.to /\ t \in {o.from, o.to} /\ ~o.mint
       /\ o.obj \in Replies => o.mint
  /\ pc[t] = "reread" => o.from # None /\ o.slot \in Slots
  /\ pc[t] = "install" => o.life > 0 /\ o.slot = 0
  /\ pc[t] = "get" => o.slot \in Slots
  /\ pc[t] = "put" => o.obj \in born
  /\ pc[t] = "once" => o.mint /\ o.obj \in Replies /\ o.slot \in Slots
  /\ pc[t] \in {"close", "call"} => o.slot \in Slots

(* A task that another one grants to or from waits in its call, and one     *)
(* server at a time serves it.                                              *)
Exclusive == \A c, t, u \in Tasks :
               t \in Serving(c) /\ u \in Serving(c) => t = u /\ pc[c] = "call"

(* The slot a grant reads again still holds what its lookup found.          *)
RightsKept ==
  \A t \in Tasks :
    /\ \A i \in Slots : slots[t][i].valid => slots[t][i].rights \subseteq Authority(slots[t][i].obj)
    /\ pc[t] = "install" => op[t].rights \subseteq Authority(op[t].obj)
    /\ pc[t] = "reread" => /\ slots[op[t].from][op[t].slot].obj = op[t].obj
                           /\ slots[op[t].from][op[t].slot].rights \subseteq Authority(op[t].obj)

(* A reply capability exists once: on its way in, or in one slot.  It is    *)
(* single-use before its creator returns, and used up when it was looked up.*)
Unused(o) == hits[o] = 0 /\ \A u \in Tasks : <<u, o>> \notin spent
Coming(t, o) == pc[t] = "install" /\ op[t].obj = o
Held(t, i, o) == slots[t][i].valid /\ slots[t][i].obj = o
Making(t, i, o) == pc[t] \in {"get", "put", "once"} /\ op[t].mint /\ op[t].obj = o /\ op[t].slot = i

ReplyInv(o) ==
  /\ hits[o] <= 1
  /\ o \notin born => Unused(o)
  /\ \A t \in Tasks : Coming(t, o) =>
       /\ Unused(o) /\ op[t].rights \subseteq {"use"}
       /\ \A u \in Tasks : /\ Coming(u, o) => u = t
                           /\ \A i \in Slots : ~Held(u, i, o)
  /\ \A t \in Tasks, i \in Slots : Held(t, i, o) =>
       /\ Unused(o) /\ slots[t][i].rights \subseteq {"use"}
       /\ slots[t][i].once \/ Making(t, i, o)
       /\ \A u \in Tasks, j \in Slots : Held(u, j, o) => u = t /\ j = i
  /\ \A t \in Tasks, i \in Slots : Making(t, i, o) => Held(t, i, o)

(* Only capabilities for reply objects are single-use.                     *)
OnceReplies == \A t \in Tasks, i \in Slots :
                 slots[t][i].valid /\ slots[t][i].once => slots[t][i].obj \in Replies

ReplyOnce == OnceReplies /\ \A o \in Replies : ReplyInv(o)

Types == /\ slots \in [Tasks -> [Slots -> Capabilities]]
         /\ \A t \in Tasks : \A i \in Slots : slots[t][i].valid =>
              slots[t][i].obj \in born /\ slots[t][i].gen \in 1..gen[slots[t][i].obj]
         /\ gen \in [Objects -> 1..MaxGen] /\ now \in 0..MaxTime
         /\ born \subseteq Objects /\ freed \subseteq born
         /\ pc \in [Tasks -> Places]
         /\ op \in [Tasks -> Locals]
         /\ timed \subseteq MayTime
         /\ hits \in [Replies -> Nat] /\ spent \subseteq Tasks \X Replies

Located == Types /\ \A t \in Tasks : Shape(t)
-----------------------------------------------------------------------------
(* The branches of the actions that several of them share.                 *)
Retires(t, from, i, need) ==
  /\ pc[t] = "run"
  /\ from = t \/ (need = {"grant"} /\ Waits(from) /\ Serving(from) = {})
  /\ Retire(t, from, i, need)

LookupUse(t, i) ==
  /\ pc[t] = "run"
  /\ Usable(slots[t][i], {"use"}) /\ slots[t][i].obj \in Replies
  /\ Use(t, i)
  /\ Goto(t, "close", [Idle EXCEPT !.slot = i]) \/ Return(t)
  /\ UNCHANGED <<used, objVars, env>>

GrantUse(t, from, to, i) ==
  /\ pc[t] = "run"
  /\ \/ to = t /\ from # t /\ Waits(from) /\ Serving(from) = {}
     \/ from = t /\ to # t /\ Waits(to) /\ Serving(to) = {}
  /\ Usable(slots[from][i], {"grant"})
  /\ Use(from, i)
  /\ Goto(t, "reread", [Idle EXCEPT !.obj = slots[from][i].obj, !.slot = i,
                          !.from = from, !.to = to])
  /\ UNCHANGED <<used, objVars, env>>

Closes(t, i) == /\ pc[t] \in {"run", "close"}
                /\ CloseSlot(t, i) /\ UNCHANGED <<objVars, env, history>>

(* Every step is one of these, of one task or of the world around.         *)
TaskStep(t) ==
  \/ Install(t) \/ Get(t) \/ Put(t) \/ Once(t) \/ CallReturn(t) \/ GrantReread(t)
  \/ \E o \in Objects, life \in Lifetimes : Mint(t, o, life)
  \/ \E i \in Slots : LookupUse(t, i) \/ Closes(t, i) \/ Call(t, i)
  \/ \E i \in Slots, m \in Masks, life \in Lifetimes : Derive(t, i, m, life)
  \/ \E i \in Slots, from \in Tasks, need \in {{"use"}, {"grant"}} : Retires(t, from, i, need)
  \/ \E i \in Slots, from, to \in Tasks : GrantUse(t, from, to, i)

(* A step of Next is a step of a task, a revocation or a tick.             *)
LEMMA NextCases ==
  ASSUME Located, Next
  PROVE  (\E t \in Tasks : TaskStep(t)) \/ (\E o \in Files : Revoke(o)) \/ Tick
<1> SUFFICES ASSUME NEW t \in Tasks,
                    \/ Install(t) \/ Get(t) \/ Put(t) \/ Once(t) \/ CloseReply(t)
                    \/ CallReturn(t) \/ GrantReread(t)
                    \/ \E o \in Objects, life \in Lifetimes : Mint(t, o, life)
                    \/ \E i \in Slots :
                         \/ Lookup(t, i) \/ Close(t, i) \/ Call(t, i)
                         \/ \E m \in Masks, life \in Lifetimes : Derive(t, i, m, life)
                         \/ \E from, to \in Tasks : GrantLookup(t, from, to, i)
             PROVE  TaskStep(t)
  BY DEF Next
<1>1. CASE CloseReply(t)
  <2>1. op[t].slot \in Slots
    BY <1>1 DEF Located, Shape, CloseReply
  <2>2. Closes(t, op[t].slot)
    BY <1>1 DEF CloseReply, Closes
  <2> QED  BY <2>1, <2>2 DEF TaskStep
<1>2. ASSUME NEW i \in Slots, Lookup(t, i)
      PROVE  TaskStep(t)
  <2>1. Retires(t, t, i, {"use"}) \/ LookupUse(t, i)
    BY <1>2 DEF Lookup, Retires, LookupUse
  <2> QED  BY <2>1 DEF TaskStep
<1>3. ASSUME NEW i \in Slots, Close(t, i)
      PROVE  TaskStep(t)
  <2>1. Closes(t, i)
    BY <1>3 DEF Close, Closes
  <2> QED  BY <2>1 DEF TaskStep
<1>4. ASSUME NEW i \in Slots, NEW from \in Tasks, NEW to \in Tasks, GrantLookup(t, from, to, i)
      PROVE  TaskStep(t)
  <2>1. Sent(from, i) => Waits(from)
    BY DEF Sent, Waits
  <2>2. CASE Retire(t, from, i, {"grant"})
    <3>1. Retires(t, from, i, {"grant"})
      BY <1>4, <2>1, <2>2 DEF GrantLookup, Retires
    <3> QED  BY <3>1 DEF TaskStep
  <2>3. CASE ~Retire(t, from, i, {"grant"})
    <3>1. GrantUse(t, from, to, i)
      BY <1>4, <2>1, <2>3 DEF GrantLookup, GrantUse
    <3> QED  BY <3>1 DEF TaskStep
  <2> QED  BY <2>2, <2>3
<1> QED  BY <1>1, <1>2, <1>3, <1>4 DEF TaskStep
-----------------------------------------------------------------------------
(* Goto moves one task, and keeps the types when its arguments have them.  *)
LEMMA GotoAt ==
  ASSUME Types, NEW t \in Tasks, NEW l, NEW x, Goto(t, l, x)
  PROVE  /\ pc'[t] = l /\ op'[t] = x
         /\ \A u \in Tasks : u # t => pc'[u] = pc[u] /\ op'[u] = op[u]
         /\ l \in Places /\ x \in Locals => pc' \in [Tasks -> Places] /\ op' \in [Tasks -> Locals]
BY DEF Types, Goto

(* A change of one slot, and what it does to the types.                    *)
LEMMA SlotAt ==
  ASSUME Types, NEW w \in Tasks, NEW i \in Slots, NEW c, slots' = [slots EXCEPT ![w][i] = c]
  PROVE  /\ slots'[w][i] = c
         /\ \A u \in Tasks, j \in Slots : u # w \/ j # i => slots'[u][j] = slots[u][j]
         /\ c \in Capabilities => slots' \in [Tasks -> [Slots -> Capabilities]]
BY DEF Types

(* An empty slot is a capability that is not valid.                        *)
LEMMA EmptyTyped == Empty \in Capabilities /\ ~Empty.valid
BY CapAssumption DEF Empty, Capabilities

(* A used-up capability keeps what it stood for.                           *)
LEMMA SpendTyped ==
  ASSUME NEW c \in Capabilities
  PROVE  LET d == [c EXCEPT !.valid = FALSE]
         IN  d \in Capabilities /\ ~d.valid /\ d.obj = c.obj /\ d.rights = c.rights
BY DEF Capabilities

(* A capability made single-use keeps everything else.                     *)
LEMMA OnceTyped ==
  ASSUME NEW c \in Capabilities
  PROVE  LET d == [c EXCEPT !.once = TRUE]
         IN  /\ d \in Capabilities /\ d.once /\ (d.valid <=> c.valid)
             /\ d.obj = c.obj /\ d.rights = c.rights /\ d.gen = c.gen
BY DEF Capabilities

(* The locals of a task that is in no call are typed.                      *)
LEMMA IdleTyped == Idle \in Locals /\ Idle.from = None /\ Idle.slot = 0 /\ ~Idle.mint
BY CapAssumption DEF Idle, Locals

(* The locals of a put carry the object, and those of a grant keep its space.*)
LEMMA ObjTyped ==
  ASSUME NEW x \in Locals, NEW o \in Objects
  PROVE  LET y == [x EXCEPT !.obj = o]
         IN  y \in Locals /\ y.obj = o /\ y.from = x.from /\ (y.mint <=> x.mint)
BY DEF Locals

(* The locals of an installation with the slot that was found are typed.   *)
LEMMA SlotTyped ==
  ASSUME NEW x \in Locals, NEW i \in Slots
  PROVE  LET y == [x EXCEPT !.slot = i]
         IN  /\ y \in Locals /\ y.slot = i /\ y.obj = x.obj
             /\ y.from = x.from /\ y.to = x.to /\ (y.mint <=> x.mint)
BY CapAssumption DEF Locals, Slots

(* The locals of a creation are typed.                                     *)
LEMMA MintTyped ==
  ASSUME NEW x \in Locals, NEW o \in Objects, NEW t \in Tasks, NEW l \in Int, NEW r \in SUBSET Rights
  PROVE  [x EXCEPT !.obj = o, !.to = t, !.life = l, !.mint = TRUE, !.rights = r] \in Locals
BY DEF Locals

(* The locals of a derivation are typed.                                   *)
LEMMA DeriveTyped ==
  ASSUME NEW x \in Locals, NEW o \in Objects, NEW t \in Tasks, NEW g \in 0..MaxGen,
         NEW r \in SUBSET Rights, NEW l \in Int
  PROVE  [x EXCEPT !.obj = o, !.to = t, !.root = g, !.rights = r, !.life = l] \in Locals
BY DEF Locals

(* The locals of a grant after its lookup are typed.                       *)
LEMMA GrantTyped ==
  ASSUME NEW x \in Locals, NEW o \in Objects, NEW i \in 0..NSlots, NEW f \in Tasks, NEW t \in Tasks
  PROVE  [x EXCEPT !.obj = o, !.slot = i, !.from = f, !.to = t] \in Locals
BY DEF Locals

(* The locals of a grant after its second look at the slot are typed.      *)
LEMMA RereadTyped ==
  ASSUME NEW x \in Locals, NEW r \in SUBSET Rights, NEW l \in Int, NEW g \in 0..MaxGen, 0 \in 0..NSlots
  PROVE  [x EXCEPT !.rights = r, !.slot = 0, !.life = l, !.root = g] \in Locals
BY DEF Locals

(* A used-up slot keeps what it held, and is not valid; a slot whose        *)
(* capability is not single-use does not change.                           *)
LEMMA UseAt ==
  ASSUME Types, NEW w \in Tasks, NEW i \in Slots, Use(w, i)
  PROVE  /\ slots' \in [Tasks -> [Slots -> Capabilities]]
         /\ \A u \in Tasks, j \in Slots : u # w \/ j # i => slots'[u][j] = slots[u][j]
         /\ slots[w][i].once => ~slots'[w][i].valid
         /\ ~slots[w][i].once => slots' = slots
         /\ slots'[w][i].obj = slots[w][i].obj /\ slots'[w][i].rights = slots[w][i].rights
<1> DEFINE c == slots[w][i]
           d == [c EXCEPT !.valid = FALSE]
<1>0. c \in Capabilities
  BY DEF Types
<1>1. CASE c.once
  <2>1. slots' = [slots EXCEPT ![w][i] = d]
    BY <1>1 DEF Use, Types
  <2>2. d \in Capabilities /\ ~d.valid /\ d.obj = c.obj /\ d.rights = c.rights
    <3> HIDE DEF c
    <3> QED  BY <1>0, SpendTyped
  <2> HIDE DEF d
  <2>3. /\ slots'[w][i] = d /\ slots' \in [Tasks -> [Slots -> Capabilities]]
        /\ \A u \in Tasks, j \in Slots : u # w \/ j # i => slots'[u][j] = slots[u][j]
    BY <2>1, <2>2 DEF Types
  <2> QED  BY <1>1, <2>2, <2>3
<1>2. CASE ~c.once
  <2>1. slots' = slots
    BY <1>2 DEF Use
  <2> QED  BY <1>2, <2>1 DEF Types
<1> QED  BY <1>1, <1>2

(* No step but an installation makes a slot valid, and none changes what a *)
(* valid slot stands for.                                                  *)
Stays(u, j) == /\ slots[u][j].valid /\ slots'[u][j].obj = slots[u][j].obj
               /\ slots'[u][j].gen = slots[u][j].gen /\ slots'[u][j].rights = slots[u][j].rights
               /\ slots[u][j].once => slots'[u][j].once
NoNewSlot == \A u \in Tasks, j \in Slots : slots'[u][j].valid => Stays(u, j)

(* The shape of a task that a step leaves alone stays.                     *)
LEMMA ShapeOthers ==
  ASSUME NEW u \in Tasks, Shape(u), pc'[u] = pc[u], op'[u] = op[u], born \subseteq born'
  PROVE  Shape(u)'
BY DEF Shape

(* The types after a step of one task that installs nothing.               *)
LEMMA LocatedQuiet ==
  ASSUME Located, NEW t \in Tasks, NEW l \in Places, NEW x \in Locals, Goto(t, l, x), Shape(t)',
         slots' \in [Tasks -> [Slots -> Capabilities]], NoNewSlot,
         gen' = gen, now' = now, timed' = timed, born \subseteq born', born' \subseteq Objects,
         freed' \subseteq born', hits' \in [Replies -> Nat], spent' \subseteq Tasks \X Replies
  PROVE  Located'
<1>0. pc' \in [Tasks -> Places] /\ op' \in [Tasks -> Locals]
  BY GotoAt DEF Located
<1>1. Types'
  <2>1. \A u \in Tasks, j \in Slots : slots'[u][j].valid =>
          slots'[u][j].obj \in born' /\ slots'[u][j].gen \in 1..gen'[slots'[u][j].obj]
    BY DEF Located, Types, NoNewSlot, Stays
  <2> QED  BY <1>0, <2>1 DEF Located, Types
<1>2. \A u \in Tasks : Shape(u)'
  BY GotoAt, ShapeOthers DEF Located
<1> QED  BY <1>1, <1>2 DEF Located

(* What Retire and CloseSlot do to the slots.                              *)
LEMMA ClearAt ==
  ASSUME Types, NEW w \in Tasks, NEW i \in Slots, slots' = [slots EXCEPT ![w][i] = Empty]
  PROVE  slots' \in [Tasks -> [Slots -> Capabilities]] /\ NoNewSlot
<1>1. /\ slots'[w][i] = Empty /\ slots' \in [Tasks -> [Slots -> Capabilities]]
      /\ \A u \in Tasks, j \in Slots : u # w \/ j # i => slots'[u][j] = slots[u][j]
  BY EmptyTyped DEF Types
<1> QED  BY <1>1, EmptyTyped DEF NoNewSlot, Stays

(* A lookup makes no slot valid and keeps the types of the history.        *)
LEMMA UseQuiet ==
  ASSUME Types, NEW w \in Tasks, NEW i \in Slots, Use(w, i)
  PROVE  /\ slots' \in [Tasks -> [Slots -> Capabilities]] /\ NoNewSlot
         /\ slots[w][i].valid => hits' \in [Replies -> Nat]
         /\ slots[w][i].once /\ slots[w][i].obj \in Replies =>  spent' \subseteq Tasks \X Replies
         /\ ~slots[w][i].once => spent' = spent
<1>2. NoNewSlot
  <2> SUFFICES ASSUME NEW u \in Tasks, NEW j \in Slots, slots'[u][j].valid
               PROVE  slots'[u][j] = slots[u][j]
    BY DEF NoNewSlot, Stays
  <2>1. CASE u = w /\ j = i
    BY <2>1, UseAt
  <2>2. CASE u # w \/ j # i
    BY <2>2, UseAt
  <2> QED  BY <2>1, <2>2
<1>3. hits' \in [Replies -> Nat]
  <2>1. CASE slots[w][i].obj \in Replies
    BY <2>1 DEF Use, Types
  <2>2. CASE slots[w][i].obj \notin Replies
    BY <2>2 DEF Use, Types
  <2> QED  BY <2>1, <2>2
<1>4. slots[w][i].once /\ slots[w][i].obj \in Replies => spent' \subseteq Tasks \X Replies
  BY DEF Use, Types
<1>5. ~slots[w][i].once => spent' = spent
  BY DEF Use
<1> QED  BY <1>2, <1>3, <1>4, <1>5, UseAt

(* A step of a task keeps the types and the shapes.                        *)
LEMMA LocatedStep ==
  ASSUME Located, OnceReplies, NEW t \in Tasks, TaskStep(t),
         \A u \in Tasks, i \in Slots : slots[u][i].valid /\ slots[u][i].obj \in Replies
           => slots[u][i].rights \subseteq {"use"}
  PROVE  Located'
<1> USE DEF Located
<1>1. Types /\ Shape(t) /\ op[t] \in Locals /\ pc[t] \in Places
  BY DEF Types
<1> DEFINE Same == UNCHANGED slots
<1>0. Same => slots' \in [Tasks -> [Slots -> Capabilities]] /\ NoNewSlot
  BY DEF Types, NoNewSlot, Stays
<1>2. CASE Get(t)
  <2>1. CASE op[t].mint
    <3>1. Goto(t, "put", op[t])
      BY <1>2, <2>1 DEF Get
    <3>2. Shape(t)'
      BY <1>1, <1>2, <3>1, GotoAt DEF Shape, Get, Granting
    <3> QED  BY <1>0, <1>1, <1>2, <3>1, <3>2, LocatedQuiet DEF Get, objVars, env, history, Types, Places
  <2>2. CASE ~op[t].mint
    <3>1. Goto(t, "run", Idle)
      BY <1>2, <2>2 DEF Get, Return
    <3>2. Shape(t)'
      BY <1>1, <3>1, GotoAt DEF Shape, Granting
    <3> QED  BY <1>0, <1>1, <1>2, <3>1, <3>2, IdleTyped, LocatedQuiet DEF Get, objVars, env, history, Types, Places
  <2> QED  BY <2>1, <2>2
<1>3. CASE Put(t)
  <2>0. freed' \subseteq born /\ op[t].obj \in Objects
    BY <1>1, <1>3 DEF Put, Shape, Types
  <2>1. CASE op[t].mint /\ op[t].obj \in Replies /\ op[t].slot # 0
    <3>1. Goto(t, "once", op[t])
      BY <1>3, <2>1 DEF Put
    <3>2. Shape(t)'
      BY <1>1, <1>3, <2>1, <3>1, GotoAt DEF Shape, Put, Granting, Locals, Slots
    <3> QED  BY <1>0, <1>1, <1>3, <2>0, <3>1, <3>2, LocatedQuiet DEF Put, objVars, env, history, Types, Places
  <2>2. CASE ~(op[t].mint /\ op[t].obj \in Replies /\ op[t].slot # 0)
    <3>1. Goto(t, "run", Idle)
      BY <1>3, <2>2 DEF Put, Return
    <3>2. Shape(t)'
      BY <1>1, <3>1, GotoAt DEF Shape, Granting
    <3> QED  BY <1>0, <1>1, <1>3, <2>0, <3>1, <3>2, IdleTyped, LocatedQuiet DEF Put, objVars, env, history, Types, Places
  <2> QED  BY <2>1, <2>2
<1>4. CASE Once(t)
  <2> DEFINE i == op[t].slot
             d == [slots[t][i] EXCEPT !.once = TRUE]
  <2>1. i \in Slots /\ Goto(t, "run", Idle) /\ slots' = [slots EXCEPT ![t][i] = d]
    BY <1>1, <1>4 DEF Once, Shape, Return, Types
  <2>2. /\ d \in Capabilities /\ d.once /\ (d.valid <=> slots[t][i].valid)
        /\ d.obj = slots[t][i].obj /\ d.rights = slots[t][i].rights /\ d.gen = slots[t][i].gen
    BY <1>1, <2>1, OnceTyped DEF Types
  <2>3. slots' \in [Tasks -> [Slots -> Capabilities]] /\ NoNewSlot
    <3> HIDE DEF i, d
    <3>1. /\ slots' \in [Tasks -> [Slots -> Capabilities]] /\ slots'[t][i] = d
          /\ \A u \in Tasks, j \in Slots : u # t \/ j # i => slots'[u][j] = slots[u][j]
      BY <1>1, <2>1, <2>2 DEF Types
    <3> QED  BY <2>2, <3>1 DEF NoNewSlot, Stays
  <2>4. Shape(t)'
    BY <1>1, <2>1, GotoAt DEF Shape, Granting
  <2> QED  BY <1>1, <1>4, <2>1, <2>3, <2>4, IdleTyped, LocatedQuiet DEF Once, objVars, env, history, Types, Places
<1>5. CASE CallReturn(t)
  <2>1. Goto(t, "run", Idle)
    BY <1>5 DEF CallReturn, Return
  <2>2. Shape(t)'
    BY <1>1, <2>1, GotoAt DEF Shape, Granting
  <2> QED  BY <1>0, <1>1, <1>5, <2>1, <2>2, IdleTyped, LocatedQuiet DEF CallReturn, objVars, env, history, Types, Places
<1>6. CASE GrantReread(t)
  <2> DEFINE c == slots[op[t].from][op[t].slot]
             x == [op[t] EXCEPT !.rights = c.rights, !.slot = 0, !.life = Left(c), !.root = c.root]
  <2>1. /\ op[t].from \in Tasks /\ op[t].slot \in Slots /\ c \in Capabilities /\ now \in Nat
        /\ pc[t] = "reread"
    BY <1>1, <1>6, CapAssumption DEF GrantReread, Shape, Granting, Types
  <2>2. CASE Left(c) <= 0
    <3>1. Goto(t, "run", Idle)
      BY <1>6, <2>2 DEF GrantReread, Return
    <3>2. Shape(t)'
      BY <1>1, <3>1, GotoAt DEF Shape, Granting
    <3> QED  BY <1>0, <1>1, <1>6, <3>1, <3>2, IdleTyped, LocatedQuiet DEF GrantReread, objVars, env, history, Types, Places
  <2>3. CASE ~(Left(c) <= 0)
    <3>1. Left(c) \in Int /\ Left(c) > 0
      BY <2>1, <2>3 DEF Left, Capabilities
    <3>2. Goto(t, "install", x)
      BY <1>6, <2>3 DEF GrantReread
    <3>3. /\ x \in Locals /\ x.obj = op[t].obj /\ x.from = op[t].from /\ x.to = op[t].to
          /\ (x.mint <=> op[t].mint) /\ x.life = Left(c) /\ x.slot = 0
      <4>1. c.rights \in SUBSET Rights /\ c.root \in 0..MaxGen /\ 0 \in 0..NSlots
        BY <2>1, CapAssumption DEF Capabilities
      <4> HIDE DEF c
      <4>2. x \in Locals
        BY <1>1, <3>1, <4>1, RereadTyped
      <4> QED  BY <1>1, <4>2 DEF Locals
    <3> HIDE DEF x, c
    <3>4. Shape(t)'
      BY <1>1, <1>6, <2>1, <3>1, <3>2, <3>3, GotoAt DEF Shape, Granting, GrantReread, objVars
    <3> QED  BY <1>0, <1>1, <1>6, <3>2, <3>3, <3>4, LocatedQuiet DEF GrantReread, objVars, env, history, Types, Places
  <2> QED  BY <2>2, <2>3
<1>7. ASSUME NEW o \in Objects, NEW life \in Lifetimes, Mint(t, o, life)
      PROVE  Located'
  <2> DEFINE x == [Idle EXCEPT !.obj = o, !.to = t, !.life = life, !.mint = TRUE,
                     !.rights = IF o \in Files THEN Roots[o] ELSE {"use"}]
  <2>1. Goto(t, "install", x)
    BY <1>7 DEF Mint
  <2>2. (IF o \in Files THEN Roots[o] ELSE {"use"}) \in SUBSET Rights
        /\ life \in Int /\ life > 0
    BY CapAssumption DEF Rights, Roots
  <2>3. x \in Locals /\ x.obj = o /\ x.from = None /\ x.to = t /\ x.mint /\ x.life = life /\ x.slot = 0
    <3> DEFINE r == IF o \in Files THEN Roots[o] ELSE {"use"}
    <3> HIDE DEF r
    <3>1. x \in Locals
      BY <2>2, IdleTyped, MintTyped DEF r
    <3> QED  BY <3>1, IdleTyped DEF Locals
  <2> HIDE DEF x
  <2>4. Shape(t)'
    BY <1>1, <1>7, <2>1, <2>2, <2>3, GotoAt DEF Shape, Granting, Mint
  <2> QED  BY <1>0, <1>1, <1>7, <2>1, <2>3, <2>4, LocatedQuiet DEF Mint, objVars, env, history, Types, Places
<1>8. ASSUME NEW i \in Slots, LookupUse(t, i)
      PROVE  Located'
  <2>1. slots[t][i].valid /\ slots[t][i].obj \in Replies
    BY <1>8 DEF LookupUse, Usable, Allows
  <2>2. /\ slots' \in [Tasks -> [Slots -> Capabilities]] /\ NoNewSlot
        /\ hits' \in [Replies -> Nat] /\ spent' \subseteq Tasks \X Replies
    BY <1>1, <1>8, <2>1, UseQuiet DEF LookupUse, Types
  <2> DEFINE x == [Idle EXCEPT !.slot = i]
  <2>3. Goto(t, "close", x) \/ Goto(t, "run", Idle)
    BY <1>8 DEF LookupUse, Return
  <2>4. x \in Locals /\ x.slot = i
    BY IdleTyped, SlotTyped
  <2> HIDE DEF x
  <2>5. Shape(t)'
    BY <1>1, <2>3, <2>4, GotoAt DEF Shape, Granting
  <2> QED  BY <1>1, <1>8, <2>2, <2>3, <2>4, <2>5, IdleTyped, LocatedQuiet DEF LookupUse, objVars, env, Types, Places
<1>9. ASSUME NEW i \in Slots, Closes(t, i)
      PROVE  Located'
  <2>1. CASE slots[t][i].valid
    <3> DEFINE x == [Idle EXCEPT !.obj = slots[t][i].obj]
    <3>1. /\ slots' = [slots EXCEPT ![t][i] = Empty] /\ slots[t][i].obj \in born
          /\ Goto(t, "put", x)
      BY <1>1, <1>9, <2>1 DEF Closes, CloseSlot, Types
    <3>4. x \in Locals /\ x.obj = slots[t][i].obj
      BY <1>1, <3>1, IdleTyped, ObjTyped DEF Types
    <3> HIDE DEF x
    <3>2. Shape(t)'
      BY <1>1, <1>9, <3>1, <3>4, GotoAt DEF Shape, Granting, Closes, objVars
    <3>3. slots' \in [Tasks -> [Slots -> Capabilities]] /\ NoNewSlot
      BY <1>1, <3>1, ClearAt
    <3> QED  BY <1>1, <1>9, <3>1, <3>2, <3>3, <3>4, LocatedQuiet DEF Closes, objVars, env, history, Types, Places
  <2>2. CASE ~slots[t][i].valid
    <3>1. Goto(t, "run", Idle) /\ Same
      BY <1>9, <2>2 DEF Closes, CloseSlot, Return
    <3>2. Shape(t)'
      BY <1>1, <3>1, GotoAt DEF Shape, Granting
    <3> QED  BY <1>0, <1>1, <1>9, <3>1, <3>2, IdleTyped, LocatedQuiet DEF Closes, objVars, env, history, Types, Places
  <2> QED  BY <2>1, <2>2
<1>10. ASSUME NEW i \in Slots, Call(t, i)
       PROVE  Located'
  <2> DEFINE x == [Idle EXCEPT !.slot = i]
  <2>1. Goto(t, "call", x) /\ x \in Locals /\ x.slot = i
    BY <1>10, IdleTyped, SlotTyped DEF Call
  <2> HIDE DEF x
  <2>2. Shape(t)'
    BY <1>1, <2>1, GotoAt DEF Shape, Granting
  <2> QED  BY <1>0, <1>1, <1>10, <2>1, <2>2, LocatedQuiet DEF Call, objVars, env, history, Types, Places
<1>11. ASSUME NEW i \in Slots, NEW m \in Masks, NEW life \in Lifetimes, Derive(t, i, m, life)
       PROVE  Located'
  <2> DEFINE p == slots[t][i]
             x == [Idle EXCEPT !.obj = p.obj, !.to = t, !.root = p.root,
                     !.rights = m \cap p.rights, !.life = Smaller(life, Left(p))]
  <2>1. p \in Capabilities /\ p.valid /\ "derive" \in p.rights /\ p.obj \in born /\ p.obj \notin Replies
    BY <1>1, <1>11 DEF Derive, Types
  <2>2. Smaller(life, Left(p)) \in Int /\ Smaller(life, Left(p)) > 0
    <3>1. Left(p) \in Int /\ Left(p) > 0
      BY <1>1, <1>11, <2>1, CapAssumption DEF Left, Derive, Capabilities, Types
    <3>2. life \in Nat \ {0}
      BY CapAssumption
    <3> HIDE DEF p
    <3> QED  BY <3>1, <3>2 DEF Smaller
  <2>3. Goto(t, "install", x)
    BY <1>11 DEF Derive
  <2>4. x \in Locals /\ x.obj = p.obj /\ x.from = None /\ x.to = t /\ x.life = Smaller(life, Left(p)) /\ x.slot = 0
    <3>1. p.root \in 0..MaxGen /\ m \cap p.rights \in SUBSET Rights /\ p.obj \in Objects
      BY <1>1, <2>1 DEF Capabilities, Types
    <3> HIDE DEF p
    <3>2. x \in Locals
      BY <2>2, <3>1, IdleTyped, DeriveTyped
    <3> QED  BY <3>2, IdleTyped DEF Locals
  <2> HIDE DEF x, p
  <2>5. Shape(t)'
    BY <1>1, <1>11, <2>1, <2>2, <2>3, <2>4, GotoAt, CapAssumption DEF Shape, Granting, Derive, objVars
  <2> QED  BY <1>0, <1>1, <1>11, <2>3, <2>4, <2>5, LocatedQuiet DEF Derive, objVars, env, history, Types, Places
<1>12. ASSUME NEW i \in Slots, NEW from \in Tasks, NEW need \in {{"use"}, {"grant"}}, Retires(t, from, i, need)
       PROVE  Located'
  <2>1. slots[from][i].valid
    BY <1>12 DEF Retires, Retire, Expired, Allows
  <2> DEFINE x == [Idle EXCEPT !.obj = slots[from][i].obj]
  <2>2. /\ slots' = [slots EXCEPT ![from][i] = Empty] /\ slots[from][i].obj \in born
        /\ Goto(t, "put", x)
    BY <1>1, <1>12, <2>1 DEF Retires, Retire, Types
  <2>5. x \in Locals /\ x.obj = slots[from][i].obj
    BY <1>1, <2>2, IdleTyped, ObjTyped DEF Types
  <2> HIDE DEF x
  <2>3. Shape(t)'
    BY <1>1, <1>12, <2>2, <2>5, GotoAt DEF Shape, Granting, Retires, Retire, objVars
  <2>4. slots' \in [Tasks -> [Slots -> Capabilities]] /\ NoNewSlot
    BY <1>1, <2>2, ClearAt
  <2> QED  BY <1>1, <1>12, <2>2, <2>3, <2>4, <2>5, LocatedQuiet DEF Retires, Retire, objVars, env, history, Types, Places
<1>13. ASSUME NEW i \in Slots, NEW from \in Tasks, NEW to \in Tasks, GrantUse(t, from, to, i)
       PROVE  Located'
  <2> DEFINE x == [Idle EXCEPT !.obj = slots[from][i].obj, !.slot = i, !.from = from, !.to = to]
  <2>1. slots[from][i].valid /\ "grant" \in slots[from][i].rights /\ slots[from][i].obj \notin Replies
    BY <1>13 DEF GrantUse, Usable, Allows
  <2>2. ~slots[from][i].once /\ slots[from][i].obj \in born /\ born \subseteq Objects
    BY <1>1, <2>1 DEF OnceReplies, Types
  <2>3. Goto(t, "reread", x)
    BY <1>13 DEF GrantUse
  <2>4. x \in Locals /\ x.obj = slots[from][i].obj /\ x.from = from /\ x.to = to /\ x.slot = i /\ ~x.mint
    <3>1. i \in 0..NSlots /\ slots[from][i].obj \in Objects
      BY <2>2, CapAssumption DEF Slots
    <3>2. x \in Locals
      BY <3>1, IdleTyped, GrantTyped
    <3> QED  BY <3>2, IdleTyped DEF Locals
  <2> HIDE DEF x
  <2>5. Shape(t)'
    BY <1>1, <1>13, <2>1, <2>2, <2>3, <2>4, GotoAt, CapAssumption DEF Shape, Granting, GrantUse, objVars
  <2>6. /\ slots' \in [Tasks -> [Slots -> Capabilities]] /\ NoNewSlot
        /\ hits' \in [Replies -> Nat] /\ spent' = spent
    BY <1>1, <1>13, <2>1, <2>2, UseQuiet DEF GrantUse
  <2> QED  BY <1>1, <1>13, <2>3, <2>4, <2>5, <2>6, LocatedQuiet DEF GrantUse, objVars, env, Types, Places
<1>14. CASE Install(t)
  <2>1. op[t].to \in Tasks /\ op[t].obj \in born /\ op[t].life \in Int /\ op[t].life > 0 /\ pc[t] = "install"
    BY <1>1, <1>14 DEF Install, Shape, Granting, Locals
  <2>2. CASE FreeSlots(op[t].to) = {}
    <3>2. Goto(t, "put", op[t]) \/ Goto(t, "run", Idle)
      BY <1>14, <2>2 DEF Install, Return
    <3>3. Shape(t)'
      BY <1>1, <1>14, <2>1, <3>2, GotoAt DEF Shape, Granting, Install, objVars
    <3> QED  BY <1>0, <1>1, <1>14, <2>2, <3>2, <3>3, IdleTyped, LocatedQuiet DEF Install, objVars, env, history, Types, Places
  <2>3. CASE FreeSlots(op[t].to) # {}
    <3> DEFINE c == [valid |-> TRUE, obj |-> op[t].obj, rights |-> op[t].rights,
                     gen |-> gen[op[t].obj], root |-> IF op[t].mint THEN gen[op[t].obj] ELSE op[t].root,
                     expiry |-> now + op[t].life, once |-> FALSE]
    <3>1. PICK i \in FreeSlots(op[t].to) :
            /\ slots' = [slots EXCEPT ![op[t].to][i] = c]
            /\ Goto(t, "get", [op[t] EXCEPT !.slot = i])
      BY <1>14, <2>3 DEF Install
    <3>2. gen[op[t].obj] \in 1..MaxGen /\ op[t].obj \in Objects
      BY <1>1, <2>1 DEF Types
    <3>3. c \in Capabilities /\ c.obj = op[t].obj /\ c.gen = gen[op[t].obj]
      BY <1>1, <2>1, <3>2, CapAssumption DEF Capabilities, Locals, Types
    <3> HIDE DEF c
    <3> DEFINE x == [op[t] EXCEPT !.slot = i]
    <3>4. /\ x \in Locals /\ x.obj = op[t].obj /\ x.from = op[t].from /\ x.to = op[t].to
          /\ (x.mint <=> op[t].mint) /\ x.slot = i /\ i \in Slots
      BY <1>1, SlotTyped DEF FreeSlots
    <3>5. Goto(t, "get", x)
      BY <3>1
    <3> HIDE DEF x
    <3>6. Shape(t)'
      BY <1>1, <1>14, <2>1, <3>4, <3>5, GotoAt DEF Shape, Granting, Install, objVars
    <3>7. \A u \in Tasks : Shape(u)'
      BY <1>1, <1>14, <3>5, <3>6, GotoAt, ShapeOthers DEF Install, objVars
    <3>8. Types'
      <4>1. pc' \in [Tasks -> Places] /\ op' \in [Tasks -> Locals]
        BY <1>1, <3>4, <3>5, GotoAt DEF Places
      <4>2. slots' \in [Tasks -> [Slots -> Capabilities]]
        BY <1>1, <2>1, <3>1, <3>3, <3>4, SlotAt
      <4>3. \A u \in Tasks, j \in Slots : slots'[u][j].valid =>
              slots'[u][j].obj \in born /\ slots'[u][j].gen \in 1..gen[slots'[u][j].obj]
        BY <1>1, <2>1, <3>1, <3>2, <3>3, <3>4, SlotAt DEF Types
      <4> QED  BY <1>1, <1>14, <4>1, <4>2, <4>3 DEF Types, Install, objVars, env, history
    <3> QED  BY <3>7, <3>8
  <2> QED  BY <2>2, <2>3
<1> QED
  BY <1>2, <1>3, <1>4, <1>5, <1>6, <1>7, <1>8, <1>9, <1>10, <1>11, <1>12, <1>13, <1>14 DEF TaskStep
-----------------------------------------------------------------------------
(* A step of one task that neither installs nor mints nor uses a reply     *)
(* capability keeps what is known of a reply object.                       *)
LEMMA ReplyQuiet ==
  ASSUME Located, NEW o \in Replies, ReplyInv(o), NEW t \in Tasks,
         NEW l, NEW x, Goto(t, l, x), NoNewSlot,
         hits'[o] = hits[o], \A u \in Tasks : <<u, o>> \notin spent => <<u, o>> \notin spent', born \subseteq born',
         ~(l = "install" /\ x.obj = o),
         \A i \in Slots : Making(t, i, o)' => Making(t, i, o),
         \A i \in Slots : Making(t, i, o) /\ Held(t, i, o)' => Making(t, i, o)' \/ slots'[t][i].once,
         \A u \in Tasks, i \in Slots : Making(u, i, o) => Held(u, i, o)'
  PROVE  ReplyInv(o)'
<1>1. /\ pc'[t] = l /\ op'[t] = x
      /\ \A u \in Tasks : u # t => pc'[u] = pc[u] /\ op'[u] = op[u]
  BY GotoAt DEF Located
<1>2. \A u \in Tasks : Coming(u, o)' => Coming(u, o) /\ op'[u] = op[u]
  BY <1>1 DEF Coming
<1>3. \A u \in Tasks, i \in Slots :
        /\ Making(u, i, o)' => Making(u, i, o)
        /\ Making(u, i, o) /\ Held(u, i, o)' => Making(u, i, o)' \/ slots'[u][i].once
  BY <1>1 DEF Making
<1>4. \A u \in Tasks, i \in Slots :
        Held(u, i, o)' => /\ Held(u, i, o) /\ slots'[u][i].rights = slots[u][i].rights
                          /\ slots[u][i].once => slots'[u][i].once
  BY DEF Held, NoNewSlot, Stays
<1>5. Unused(o) => Unused(o)'
  BY DEF Unused
<1>6. /\ hits'[o] <= 1 /\ (o \notin born' => Unused(o)')
      /\ \A u \in Tasks, i \in Slots : Making(u, i, o)' => Held(u, i, o)'
  BY <1>3, <1>5 DEF ReplyInv
<1>7. ASSUME NEW u \in Tasks, Coming(u, o)'
      PROVE  /\ Unused(o)' /\ op'[u].rights \subseteq {"use"}
             /\ \A v \in Tasks : /\ Coming(v, o)' => v = u
                                 /\ \A i \in Slots : ~Held(v, i, o)'
  BY <1>2, <1>4, <1>5, <1>7 DEF ReplyInv
<1>8. ASSUME NEW u \in Tasks, NEW i \in Slots, Held(u, i, o)'
      PROVE  /\ Unused(o)' /\ slots'[u][i].rights \subseteq {"use"}
             /\ slots'[u][i].once \/ Making(u, i, o)'
             /\ \A v \in Tasks, j \in Slots : Held(v, j, o)' => v = u /\ j = i
  BY <1>3, <1>4, <1>5, <1>8 DEF ReplyInv
<1> QED  BY <1>6, <1>7, <1>8 DEF ReplyInv

(* A step of a task keeps what is known of a reply object.                 *)
LEMMA ReplyStep ==
  ASSUME Located, ReplyOnce, NEW t \in Tasks, TaskStep(t), NEW o \in Replies
  PROVE  ReplyInv(o)'
<1>1. Types /\ Shape(t) /\ ReplyInv(o) /\ OnceReplies
  BY DEF Located, ReplyOnce
<1>2. \A u \in Tasks, i \in Slots : slots[u][i].valid /\ slots[u][i].obj \in Replies
        => slots[u][i].rights \subseteq {"use"}
  BY DEF ReplyOnce, ReplyInv, Held
<1>3. UNCHANGED slots => NoNewSlot /\ \A u \in Tasks, i \in Slots : Held(u, i, o)' <=> Held(u, i, o)
  BY DEF NoNewSlot, Stays, Held
<1>4. \A u \in Tasks, i \in Slots : Making(u, i, o) => Held(u, i, o) /\ pc[u] \in {"get", "put", "once"}
  BY <1>1 DEF ReplyInv, Making
<1>5. ASSUME pc[t] \notin {"get", "put", "once"}, NEW w \in Tasks, NEW j \in Slots,
             slots' = [slots EXCEPT ![w][j] = Empty],
             w = t \/ "grant" \in slots[w][j].rights
      PROVE  /\ NoNewSlot
             /\ \A u \in Tasks, i \in Slots : Making(u, i, o) => Held(u, i, o)'
  <2>1. NoNewSlot
    BY <1>1, <1>5, ClearAt
  <2>2. ASSUME NEW u \in Tasks, NEW i \in Slots, Making(u, i, o)
        PROVE  Held(u, i, o)'
    <3>1. Held(u, i, o) /\ u # t /\ slots[u][i].rights \subseteq {"use"}
      BY <1>2, <1>4, <1>5, <2>2 DEF Held
    <3>2. u # w \/ i # j
      BY <1>5, <3>1
    <3>3. slots'[u][i] = slots[u][i]
      BY <1>1, <1>5, <3>2, SlotAt
    <3> QED  BY <3>1, <3>3 DEF Held
  <2> QED  BY <2>1, <2>2
<1>6. CASE Get(t)
  <2>1. pc[t] = "get" /\ UNCHANGED <<slots, hits, spent, born>>
    BY <1>6 DEF Get, history
  <2>2. CASE op[t].mint
    <3>1. Goto(t, "put", op[t])
      BY <1>6, <2>2 DEF Get
    <3>2. \A i \in Slots : Making(t, i, o)' <=> Making(t, i, o)
      BY <1>1, <2>1, <3>1, GotoAt DEF Making
    <3> QED  BY <1>1, <1>3, <1>4, <2>1, <3>1, <3>2, ReplyQuiet
  <2>3. CASE ~op[t].mint
    <3>1. Goto(t, "run", Idle)
      BY <1>6, <2>3 DEF Get, Return
    <3>2. \A i \in Slots : ~Making(t, i, o)' /\ ~Making(t, i, o)
      BY <1>1, <2>3, <3>1, GotoAt DEF Making
    <3> QED  BY <1>1, <1>3, <1>4, <2>1, <3>1, <3>2, ReplyQuiet
  <2> QED  BY <2>2, <2>3
<1>7. CASE Put(t)
  <2>1. pc[t] = "put" /\ UNCHANGED <<slots, hits, spent, born>>
    BY <1>7 DEF Put, history
  <2>2. CASE op[t].mint /\ op[t].obj \in Replies /\ op[t].slot # 0
    <3>1. Goto(t, "once", op[t])
      BY <1>7, <2>2 DEF Put
    <3>2. \A i \in Slots : Making(t, i, o)' <=> Making(t, i, o)
      BY <1>1, <2>1, <3>1, GotoAt DEF Making
    <3> QED  BY <1>1, <1>3, <1>4, <2>1, <3>1, <3>2, ReplyQuiet
  <2>3. CASE ~(op[t].mint /\ op[t].obj \in Replies /\ op[t].slot # 0)
    <3>1. Goto(t, "run", Idle)
      BY <1>7, <2>3 DEF Put, Return
    <3>2. \A i \in Slots : ~Making(t, i, o)' /\ ~Making(t, i, o)
      BY <1>1, <2>1, <2>3, <3>1, GotoAt, CapAssumption DEF Making, Slots
    <3> QED  BY <1>1, <1>3, <1>4, <2>1, <3>1, <3>2, ReplyQuiet
  <2> QED  BY <2>2, <2>3
<1>8. CASE Once(t)
  <2> DEFINE j == op[t].slot
             d == [slots[t][j] EXCEPT !.once = TRUE]
  <2>1. /\ pc[t] = "once" /\ UNCHANGED <<hits, spent, born>> /\ Goto(t, "run", Idle)
        /\ j \in Slots /\ slots' = [slots EXCEPT ![t][j] = d]
    BY <1>1, <1>8 DEF Once, Return, Shape, history, objVars, Types
  <2>2. /\ d.once /\ (d.valid <=> slots[t][j].valid) /\ d.obj = slots[t][j].obj
        /\ d.rights = slots[t][j].rights /\ d.gen = slots[t][j].gen
    BY <1>1, <2>1, OnceTyped DEF Types
  <2> HIDE DEF j, d
  <2>3. /\ slots'[t][j] = d
        /\ \A u \in Tasks, i \in Slots : u # t \/ i # j => slots'[u][i] = slots[u][i]
    BY <1>1, <2>1 DEF Types
  <2>4. NoNewSlot /\ \A u \in Tasks, i \in Slots : Held(u, i, o)' <=> Held(u, i, o)
    <3> SUFFICES ASSUME NEW u \in Tasks, NEW i \in Slots
                 PROVE  (slots'[u][i].valid => Stays(u, i)) /\ (Held(u, i, o)' <=> Held(u, i, o))
      BY DEF NoNewSlot
    <3>1. CASE u = t /\ i = j
      BY <2>2, <2>3, <3>1 DEF Held, Stays
    <3>2. CASE u # t \/ i # j
      BY <2>3, <3>2 DEF Held, Stays
    <3> QED  BY <3>1, <3>2
  <2>5. \A i \in Slots : ~Making(t, i, o)' /\ (Making(t, i, o) => slots'[t][i].once)
    BY <1>1, <2>1, <2>2, <2>3, GotoAt DEF Making, j
  <2> QED  BY <1>1, <1>4, <2>1, <2>4, <2>5, ReplyQuiet
<1>9. CASE CallReturn(t)
  <2>1. pc[t] = "call" /\ UNCHANGED <<slots, hits, spent, born>> /\ Goto(t, "run", Idle)
    BY <1>9 DEF CallReturn, Return, objVars, history
  <2>2. \A i \in Slots : ~Making(t, i, o)' /\ ~Making(t, i, o)
    BY <1>1, <2>1, GotoAt DEF Making
  <2> QED  BY <1>1, <1>3, <1>4, <2>1, <2>2, ReplyQuiet
<1>10. CASE GrantReread(t)
  <2> DEFINE c == slots[op[t].from][op[t].slot]
  <2>1. /\ pc[t] = "reread" /\ UNCHANGED <<slots, hits, spent, born>>
        /\ op[t].obj # o /\ op[t] \in Locals
    BY <1>1, <1>10 DEF GrantReread, objVars, history, Shape, Granting, Types
  <2>2. CASE Left(c) <= 0
    <3>1. Goto(t, "run", Idle)
      BY <1>10, <2>2 DEF GrantReread, Return
    <3>2. \A i \in Slots : ~Making(t, i, o)' /\ ~Making(t, i, o)
      BY <1>1, <2>1, <3>1, GotoAt DEF Making
    <3> QED  BY <1>1, <1>3, <1>4, <2>1, <3>1, <3>2, ReplyQuiet
  <2>3. CASE ~(Left(c) <= 0)
    <3> DEFINE x == [op[t] EXCEPT !.rights = c.rights, !.slot = 0, !.life = Left(c), !.root = c.root]
    <3>1. Goto(t, "install", x)
      BY <1>10, <2>3 DEF GrantReread
    <3>2. x.obj = op[t].obj
      BY <2>1 DEF Locals
    <3> HIDE DEF x
    <3>3. \A i \in Slots : ~Making(t, i, o)' /\ ~Making(t, i, o)
      BY <1>1, <2>1, <3>1, GotoAt DEF Making
    <3> QED  BY <1>1, <1>3, <1>4, <2>1, <3>1, <3>2, <3>3, ReplyQuiet
  <2> QED  BY <2>2, <2>3
<1>11. ASSUME NEW i \in Slots, NEW from \in Tasks, NEW need \in {{"use"}, {"grant"}}, Retires(t, from, i, need)
       PROVE  ReplyInv(o)'
  <2>0. Retire(t, from, i, need) /\ Expired(slots[from][i], need)
    BY <1>11 DEF Retires, Retire
  <2>1. /\ pc[t] = "run" /\ UNCHANGED <<hits, spent, born>>
        /\ slots' = [slots EXCEPT ![from][i] = Empty]
        /\ Goto(t, "put", [Idle EXCEPT !.obj = slots[from][i].obj])
        /\ slots[from][i].valid /\ need \subseteq slots[from][i].rights
    <3>1. slots[from][i].valid /\ need \subseteq slots[from][i].rights
      BY <2>0 DEF Expired, Allows
    <3> QED  BY <1>11, <2>0, <3>1 DEF Retires, Retire, objVars, history
  <2>4. slots[from][i].obj \in Objects /\ (from = t \/ "grant" \in slots[from][i].rights)
    BY <1>1, <1>11, <2>1 DEF Retires, Types
  <2>2. ~[Idle EXCEPT !.obj = slots[from][i].obj].mint
    BY <2>4, IdleTyped, ObjTyped
  <2>3. \A k \in Slots : ~Making(t, k, o)' /\ ~Making(t, k, o)
    BY <1>1, <2>1, <2>2, GotoAt DEF Making
  <2> QED  BY <1>1, <1>5, <2>1, <2>3, <2>4, ReplyQuiet
<1>12. ASSUME NEW i \in Slots, Closes(t, i)
       PROVE  ReplyInv(o)'
  <2>1. pc[t] \in {"run", "close"} /\ UNCHANGED <<hits, spent, born>>
    BY <1>12 DEF Closes, objVars, history
  <2>2. CASE slots[t][i].valid
    <3>1. /\ slots' = [slots EXCEPT ![t][i] = Empty] /\ slots[t][i].obj \in Objects
          /\ Goto(t, "put", [Idle EXCEPT !.obj = slots[t][i].obj])
      BY <1>1, <1>12, <2>2 DEF Closes, CloseSlot, Types
    <3>2. ~[Idle EXCEPT !.obj = slots[t][i].obj].mint
      BY <3>1, IdleTyped, ObjTyped
    <3>3. \A k \in Slots : ~Making(t, k, o)' /\ ~Making(t, k, o)
      BY <1>1, <2>1, <3>1, <3>2, GotoAt DEF Making
    <3> QED  BY <1>1, <1>5, <2>1, <3>1, <3>3, ReplyQuiet
  <2>3. CASE ~slots[t][i].valid
    <3>1. UNCHANGED slots /\ Goto(t, "run", Idle)
      BY <1>12, <2>3 DEF Closes, CloseSlot, Return
    <3>2. \A k \in Slots : ~Making(t, k, o)' /\ ~Making(t, k, o)
      BY <1>1, <2>1, <3>1, GotoAt DEF Making
    <3> QED  BY <1>1, <1>3, <1>4, <2>1, <3>1, <3>2, ReplyQuiet
  <2> QED  BY <2>2, <2>3
<1>13. ASSUME NEW i \in Slots, Call(t, i)
       PROVE  ReplyInv(o)'
  <2>1. /\ pc[t] = "run" /\ UNCHANGED <<slots, hits, spent, born>>
        /\ Goto(t, "call", [Idle EXCEPT !.slot = i])
    BY <1>13 DEF Call, objVars, history
  <2>2. \A k \in Slots : ~Making(t, k, o)' /\ ~Making(t, k, o)
    BY <1>1, <2>1, GotoAt DEF Making
  <2> QED  BY <1>1, <1>3, <1>4, <2>1, <2>2, ReplyQuiet
<1>14. ASSUME NEW i \in Slots, NEW m \in Masks, NEW life \in Lifetimes, Derive(t, i, m, life)
       PROVE  ReplyInv(o)'
  <2> DEFINE p == slots[t][i]
             x == [Idle EXCEPT !.obj = p.obj, !.to = t, !.root = p.root,
                     !.rights = m \cap p.rights, !.life = Smaller(life, Left(p))]
  <2>1. /\ pc[t] = "run" /\ UNCHANGED <<slots, hits, spent, born>>
        /\ Goto(t, "install", x) /\ p.valid /\ "derive" \in p.rights
    BY <1>14 DEF Derive, objVars, history
  <2>2. x.obj = p.obj
    BY IdleTyped DEF Locals
  <2> HIDE DEF x
  <2>3. x.obj # o
    BY <1>2, <2>1, <2>2
  <2>4. \A k \in Slots : ~Making(t, k, o)' /\ ~Making(t, k, o)
    BY <1>1, <2>1, GotoAt DEF Making
  <2> QED  BY <1>1, <1>3, <1>4, <2>1, <2>3, <2>4, ReplyQuiet
<1>15. ASSUME NEW i \in Slots, NEW from \in Tasks, NEW to \in Tasks, GrantUse(t, from, to, i)
       PROVE  ReplyInv(o)'
  <2> DEFINE x == [Idle EXCEPT !.obj = slots[from][i].obj, !.slot = i, !.from = from, !.to = to]
  <2>1. /\ slots[from][i].valid /\ "grant" \in slots[from][i].rights
        /\ Use(from, i) /\ pc[t] = "run" /\ born' = born /\ Goto(t, "reread", x)
    BY <1>15 DEF GrantUse, Usable, Allows, objVars
  <2>2. slots[from][i].obj \notin Replies /\ ~slots[from][i].once
    BY <1>1, <1>2, <2>1 DEF OnceReplies
  <2>3. hits' = hits /\ slots' = slots /\ spent' = spent
    BY <2>1, <2>2 DEF Use
  <2> HIDE DEF x
  <2>4. \A k \in Slots : ~Making(t, k, o)' /\ ~Making(t, k, o)
    BY <1>1, <2>1, GotoAt DEF Making
  <2> QED  BY <1>1, <1>3, <1>4, <2>1, <2>3, <2>4, ReplyQuiet
<1>16. ASSUME NEW n \in Objects, NEW life \in Lifetimes, Mint(t, n, life)
       PROVE  ReplyInv(o)'
  <2> DEFINE r == IF n \in Files THEN Roots[n] ELSE {"use"}
             x == [Idle EXCEPT !.obj = n, !.to = t, !.life = life, !.mint = TRUE, !.rights = r]
  <2>1. /\ pc[t] = "run" /\ UNCHANGED <<slots, hits, spent>> /\ n \notin born
        /\ born' = born \cup {n} /\ Goto(t, "install", x)
    BY <1>16 DEF Mint, history
  <2>2. (n \in Replies => r = {"use"}) /\ x.obj = n /\ x.rights = r
    BY IdleTyped, CapAssumption DEF Locals
  <2> HIDE DEF x, r
  <2>3. \A k \in Slots : ~Making(t, k, o)' /\ ~Making(t, k, o)
    BY <1>1, <2>1, GotoAt DEF Making
  <2>4. CASE n # o
    BY <1>1, <1>3, <1>4, <2>1, <2>2, <2>3, <2>4, ReplyQuiet
  <2>5. CASE n = o
    <3>1. \A u \in Tasks, i \in Slots : ~Held(u, i, o) /\ ~Held(u, i, o)'
      BY <1>1, <1>3, <2>1, <2>5 DEF Held, Types
    <3>2. \A u \in Tasks : Coming(u, o)' => u = t
      <4>1. \A u \in Tasks : pc[u] = "install" => op[u].obj \in born
        BY DEF Located, Shape, Granting
      <4> QED  BY <1>1, <2>1, <2>5, <4>1, GotoAt DEF Coming
    <3>3. Unused(o) /\ Unused(o)' /\ hits'[o] <= 1 /\ o \in born'
      BY <1>1, <2>1, <2>5 DEF ReplyInv, Unused
    <3>4. op'[t].rights \subseteq {"use"}
      BY <1>1, <2>1, <2>2, <2>5, GotoAt
    <3>5. \A u \in Tasks, i \in Slots : ~Making(u, i, o)'
      <4>1. \A u \in Tasks, i \in Slots : ~Making(u, i, o)
        BY <1>4, <3>1
      <4> QED  BY <1>1, <2>1, <2>3, <4>1, GotoAt DEF Making
    <3> QED  BY <3>1, <3>2, <3>3, <3>4, <3>5 DEF ReplyInv
  <2> QED  BY <2>4, <2>5
<1>17. ASSUME NEW i \in Slots, LookupUse(t, i)
       PROVE  ReplyInv(o)'
  <2> DEFINE n == slots[t][i].obj
  <2>1. /\ pc[t] = "run" /\ born' = born /\ Use(t, i) /\ n \in Replies /\ Held(t, i, n)
    BY <1>17 DEF LookupUse, Usable, Allows, objVars, Held
  <2>2. PICK l, x : Goto(t, l, x) /\ l \in {"run", "close"}
    BY <1>17 DEF LookupUse, Return
  <2>3. \A k \in Slots : ~Making(t, k, o)' /\ ~Making(t, k, o)
    BY <1>1, <2>1, <2>2, GotoAt DEF Making
  <2>4. NoNewSlot
    BY <1>1, <2>1, UseQuiet
  <2>5. CASE n # o
    <3>1. hits'[o] = hits[o] /\ \A u \in Tasks : <<u, o>> \notin spent => <<u, o>> \notin spent'
      BY <1>1, <2>1, <2>5 DEF Use, Types
    <3>2. \A u \in Tasks, k \in Slots : Making(u, k, o) => Held(u, k, o)'
      BY <1>1, <1>4, <2>1, <2>3, UseAt DEF Held
    <3> QED  BY <1>1, <2>1, <2>2, <2>3, <2>4, <3>1, <3>2, ReplyQuiet
  <2>6. CASE n = o
    <3>1. /\ slots[t][i].once /\ hits[o] = 0
          /\ \A u \in Tasks, k \in Slots : Held(u, k, o) => u = t /\ k = i
          /\ \A u \in Tasks : ~Coming(u, o)
      BY <1>1, <2>1, <2>3, <2>6 DEF ReplyInv, Unused
    <3>2. hits'[o] = 1
      BY <1>1, <2>1, <2>6, <3>1 DEF Use, Types
    <3>3. \A u \in Tasks, k \in Slots : ~Held(u, k, o)'
      BY <1>1, <2>1, <2>4, <3>1, UseAt DEF Held, NoNewSlot, Stays
    <3>4. \A u \in Tasks, k \in Slots : ~Making(u, k, o)'
      BY <1>1, <1>4, <2>2, <2>3, <3>1, GotoAt DEF Making
    <3>5. \A u \in Tasks : ~Coming(u, o)'
      BY <1>1, <2>2, <3>1, GotoAt DEF Coming
    <3>6. o \in born'
      BY <1>1, <2>1, <2>6 DEF Held, Types
    <3> QED  BY <3>2, <3>3, <3>4, <3>5, <3>6 DEF ReplyInv
  <2> QED  BY <2>5, <2>6
<1>18. CASE Install(t)
  <2>1. /\ op[t].to \in Tasks /\ op[t].obj \in born /\ pc[t] = "install" /\ op[t] \in Locals
        /\ op[t].obj \in Replies => op[t].to = t /\ op[t].mint
        /\ UNCHANGED <<hits, spent, born>>
    BY <1>1, <1>18 DEF Install, Shape, Granting, Types, objVars, history
  <2>2. CASE FreeSlots(op[t].to) = {}
    <3>1. UNCHANGED slots
      BY <1>18, <2>2 DEF Install
    <3>2. CASE op[t].mint
      <4>1. Goto(t, "put", op[t]) /\ op[t].slot = 0
        BY <1>1, <1>18, <2>2, <3>2 DEF Install, Shape
      <4>2. \A k \in Slots : ~Making(t, k, o)' /\ ~Making(t, k, o)
        BY <1>1, <2>1, <4>1, GotoAt DEF Making, Slots
      <4> QED  BY <1>1, <1>3, <1>4, <2>1, <3>1, <4>1, <4>2, ReplyQuiet
    <3>3. CASE ~op[t].mint
      <4>1. Goto(t, "run", Idle)
        BY <1>18, <2>2, <3>3 DEF Install, Return
      <4>2. \A k \in Slots : ~Making(t, k, o)' /\ ~Making(t, k, o)
        BY <1>1, <2>1, <4>1, GotoAt DEF Making
      <4> QED  BY <1>1, <1>3, <1>4, <2>1, <3>1, <4>1, <4>2, ReplyQuiet
    <3> QED  BY <3>2, <3>3
  <2>3. CASE FreeSlots(op[t].to) # {}
    <3> DEFINE w == op[t].to
               c == [valid |-> TRUE, obj |-> op[t].obj, rights |-> op[t].rights,
                     gen |-> gen[op[t].obj], root |-> IF op[t].mint THEN gen[op[t].obj] ELSE op[t].root,
                     expiry |-> now + op[t].life, once |-> FALSE]
    <3>1. PICK i \in FreeSlots(w) :
            /\ slots' = [slots EXCEPT ![w][i] = c]
            /\ Goto(t, "get", [op[t] EXCEPT !.slot = i])
      BY <1>18, <2>3 DEF Install
    <3> DEFINE x == [op[t] EXCEPT !.slot = i]
    <3>2. i \in Slots /\ ~slots[w][i].valid
      BY <1>1, <2>1 DEF FreeSlots, Valid
    <3>3. x.obj = op[t].obj /\ x.slot = i /\ (x.mint <=> op[t].mint)
      BY <2>1, <3>2, SlotTyped
    <3>4. /\ c.valid /\ c.obj = op[t].obj /\ c.rights = op[t].rights /\ ~c.once
          /\ w \in Tasks /\ (op[t].obj \in Replies => w = t)
      BY <2>1
    <3>5. Goto(t, "get", x) /\ slots' = [slots EXCEPT ![w][i] = c]
      BY <3>1
    <3> HIDE DEF x, c, w
    <3>6. /\ slots'[w][i] = c
          /\ \A u \in Tasks, k \in Slots : u # w \/ k # i => slots'[u][k] = slots[u][k]
      BY <1>1, <3>2, <3>4, <3>5 DEF Types
    <3>7. \A u \in Tasks : Coming(u, o)' => u # t /\ Coming(u, o) /\ op'[u] = op[u]
      BY <1>1, <3>5, GotoAt DEF Coming
    <3>8. \A u \in Tasks, k \in Slots : Held(u, k, o)' =>
            \/ u = w /\ k = i /\ op[t].obj = o /\ slots'[u][k] = c
            \/ ~(u = w /\ k = i) /\ Held(u, k, o) /\ slots'[u][k] = slots[u][k]
      BY <3>4, <3>6 DEF Held
    <3>9. \A u \in Tasks, k \in Slots : Making(u, k, o)' =>
            \/ u = t /\ k = i /\ op[t].obj = o
            \/ Making(u, k, o)
      BY <1>1, <3>3, <3>5, GotoAt DEF Making
    <3>10. \A u \in Tasks, k \in Slots : Making(u, k, o) => Making(u, k, o)'
      BY <1>1, <2>1, <3>5, GotoAt DEF Making
    <3>11. op[t].obj = o => Coming(t, o) /\ w = t /\ Making(t, i, o)' /\ Held(t, i, o)'
      BY <1>1, <2>1, <3>2, <3>3, <3>4, <3>5, <3>6, GotoAt DEF Coming, Making, Held
    <3>12. Unused(o)' <=> Unused(o)
      BY <2>1 DEF Unused
    <3>13. \A u \in Tasks, k \in Slots : Making(u, k, o)' => Held(u, k, o)'
      <4>1. \A u \in Tasks, k \in Slots : Held(u, k, o) => Held(u, k, o)'
        BY <3>2, <3>6 DEF Held
      <4> QED  BY <1>4, <3>9, <3>11, <4>1
    <3>14. CASE op[t].obj = o
      <4>1. /\ Unused(o) /\ op[t].rights \subseteq {"use"}
            /\ \A u \in Tasks : Coming(u, o) => u = t
            /\ \A u \in Tasks, k \in Slots : ~Held(u, k, o)
        BY <1>1, <3>11, <3>14 DEF ReplyInv
      <4>2. \A u \in Tasks, k \in Slots : Held(u, k, o)' => u = t /\ k = i
        BY <3>8, <3>11, <3>14, <4>1
      <4>3. slots'[t][i].rights \subseteq {"use"}
        BY <3>4, <3>6, <3>11, <3>14, <4>1
      <4>4. \A u \in Tasks : ~Coming(u, o)'
        BY <3>7, <4>1
      <4> QED  BY <1>1, <2>1, <3>11, <3>12, <3>13, <3>14, <4>1, <4>2, <4>3, <4>4 DEF ReplyInv
    <3>15. CASE op[t].obj # o
      <4>1. \A u \in Tasks, k \in Slots :
              /\ Held(u, k, o)' => Held(u, k, o) /\ slots'[u][k] = slots[u][k]
              /\ Making(u, k, o)' <=> Making(u, k, o)
        BY <3>8, <3>9, <3>10, <3>15
      <4>2. ASSUME NEW u \in Tasks, Coming(u, o)'
            PROVE  /\ Unused(o)' /\ op'[u].rights \subseteq {"use"}
                   /\ \A v \in Tasks : /\ Coming(v, o)' => v = u
                                       /\ \A k \in Slots : ~Held(v, k, o)'
        BY <1>1, <3>7, <3>12, <4>1, <4>2 DEF ReplyInv
      <4>3. ASSUME NEW u \in Tasks, NEW k \in Slots, Held(u, k, o)'
            PROVE  /\ Unused(o)' /\ slots'[u][k].rights \subseteq {"use"}
                   /\ slots'[u][k].once \/ Making(u, k, o)'
                   /\ \A v \in Tasks, j \in Slots : Held(v, j, o)' => v = u /\ j = k
        BY <1>1, <3>12, <4>1, <4>3 DEF ReplyInv
      <4> QED  BY <1>1, <2>1, <3>12, <3>13, <4>2, <4>3 DEF ReplyInv
    <3> QED  BY <3>14, <3>15
  <2> QED  BY <2>2, <2>3
<1> QED
  BY <1>6, <1>7, <1>8, <1>9, <1>10, <1>11, <1>12, <1>13, <1>14, <1>15, <1>16, <1>17, <1>18 DEF TaskStep
-----------------------------------------------------------------------------
(* Whose slots a step of task t may change, and how: its own, those of a   *)
(* task that waits and is not served, or those it installs in.  Only an    *)
(* installation and the last step of make_reply_cap leave a valid slot.    *)
Reaches(t, w) == \/ pc[t] \in {"run", "close", "once"} /\ w = t
                 \/ pc[t] = "run" /\ Waits(w) /\ Serving(w) = {}
                 \/ pc[t] = "install" /\ w = op[t].to

Marked(t, w, i) == /\ pc[t] = "once" /\ w = t /\ i = op[t].slot
                   /\ slots'[w][i].obj = slots[w][i].obj
                   /\ slots'[w][i].rights = slots[w][i].rights /\ slots[w][i].valid

Filled(t, w, i) == /\ pc[t] = "install" /\ w = op[t].to /\ ~slots[w][i].valid
                   /\ slots'[w][i].obj = op[t].obj /\ slots'[w][i].rights = op[t].rights
                   /\ slots'[w][i].once = FALSE /\ pc'[t] = "get" /\ op'[t].slot = i

(* A step that changes a slot reaches its space, and empties, marks or     *)
(* fills the slot.                                                         *)
LEMMA SlotChange ==
  ASSUME Located, ReplyOnce, NEW t \in Tasks, TaskStep(t),
         NEW w \in Tasks, NEW j \in Slots, slots'[w][j] # slots[w][j]
  PROVE  /\ Reaches(t, w)
         /\ slots'[w][j].valid => Marked(t, w, j) \/ Filled(t, w, j)
<1>1. Types /\ Shape(t) /\ OnceReplies
  BY DEF Located, ReplyOnce
<1>2. ASSUME NEW v \in Tasks, NEW i \in Slots, slots' = [slots EXCEPT ![v][i] = Empty]
      PROVE  w = v /\ ~slots'[w][j].valid
  BY <1>1, <1>2, SlotAt, EmptyTyped
<1>3. CASE Install(t)
  <2>1. op[t].to \in Tasks /\ pc[t] = "install" /\ op[t] \in Locals
    BY <1>1, <1>3 DEF Install, Shape, Granting, Types
  <2>2. CASE FreeSlots(op[t].to) = {}
    BY <1>3, <2>2 DEF Install
  <2>3. CASE FreeSlots(op[t].to) # {}
    <3> DEFINE c == [valid |-> TRUE, obj |-> op[t].obj, rights |-> op[t].rights,
                     gen |-> gen[op[t].obj], root |-> IF op[t].mint THEN gen[op[t].obj] ELSE op[t].root,
                     expiry |-> now + op[t].life, once |-> FALSE]
               v == op[t].to
    <3>1. PICK i \in FreeSlots(v) :
            /\ slots' = [slots EXCEPT ![v][i] = c]
            /\ Goto(t, "get", [op[t] EXCEPT !.slot = i])
      BY <1>3, <2>3 DEF Install
    <3>2. i \in Slots /\ ~slots[v][i].valid /\ v \in Tasks
      BY <1>1, <2>1 DEF FreeSlots, Valid
    <3>3. pc'[t] = "get" /\ op'[t].slot = i
      <4>1. [op[t] EXCEPT !.slot = i].slot = i
        BY <2>1, <3>2, SlotTyped
      <4>2. pc'[t] = "get" /\ op'[t] = [op[t] EXCEPT !.slot = i]
        BY <1>1, <3>1, GotoAt
      <4> QED  BY <4>1, <4>2
    <3>4. c.obj = op[t].obj /\ c.rights = op[t].rights /\ c.once = FALSE
      OBVIOUS
    <3>6. slots' = [slots EXCEPT ![v][i] = c]
      BY <3>1
    <3> HIDE DEF c, v
    <3>7. /\ slots'[v][i] = c
          /\ \A u \in Tasks, k \in Slots : u # v \/ k # i => slots'[u][k] = slots[u][k]
      BY <1>1, <3>2, <3>6 DEF Types
    <3>5. w = v /\ j = i /\ slots'[w][j] = c
      BY <3>7
    <3> QED  BY <2>1, <3>2, <3>3, <3>4, <3>5 DEF Reaches, Filled, v
  <2> QED  BY <2>2, <2>3
<1>4. CASE Once(t)
  <2> DEFINE i == op[t].slot
             d == [slots[t][i] EXCEPT !.once = TRUE]
  <2>1. pc[t] = "once" /\ i \in Slots /\ slots' = [slots EXCEPT ![t][i] = d]
    BY <1>1, <1>4 DEF Once, Shape, Types
  <2>2. (d.valid <=> slots[t][i].valid) /\ d.obj = slots[t][i].obj /\ d.rights = slots[t][i].rights
    BY <1>1, <2>1, OnceTyped DEF Types
  <2> HIDE DEF d, i
  <2>3. w = t /\ j = i /\ slots'[w][j] = d
    BY <1>1, <2>1 DEF Types
  <2> QED  BY <2>1, <2>2, <2>3 DEF Reaches, Marked, i
<1>5. ASSUME NEW i \in Slots, Closes(t, i)
      PROVE  Reaches(t, w) /\ ~slots'[w][j].valid
  <2>1. pc[t] \in {"run", "close"} /\ slots' = [slots EXCEPT ![t][i] = Empty]
    BY <1>5 DEF Closes, CloseSlot
  <2> QED  BY <1>2, <2>1 DEF Reaches
<1>6. ASSUME NEW i \in Slots, NEW from \in Tasks, NEW need \in {{"use"}, {"grant"}}, Retires(t, from, i, need)
      PROVE  Reaches(t, w) /\ ~slots'[w][j].valid
  <2>1. slots' = [slots EXCEPT ![from][i] = Empty]
    BY <1>6 DEF Retires, Retire
  <2> QED  BY <1>2, <1>6, <2>1 DEF Reaches, Retires
<1>7. ASSUME NEW i \in Slots, LookupUse(t, i)
      PROVE  Reaches(t, w) /\ ~slots'[w][j].valid
  <2>1. Use(t, i) /\ pc[t] = "run"
    BY <1>7 DEF LookupUse
  <2>2. w = t /\ j = i /\ ~slots'[t][i].valid
    BY <1>1, <2>1, UseAt
  <2> QED  BY <2>1, <2>2 DEF Reaches
<1>8. ASSUME NEW i \in Slots, NEW from \in Tasks, NEW to \in Tasks, GrantUse(t, from, to, i)
      PROVE  FALSE
  <2>1. /\ slots[from][i].valid /\ "grant" \in slots[from][i].rights /\ Use(from, i)
    BY <1>8 DEF GrantUse, Usable, Allows
  <2>2. slots[from][i].obj \notin Replies
    BY <2>1 DEF ReplyOnce, ReplyInv, Held
  <2>3. slots' = slots
    BY <1>1, <2>1, <2>2 DEF Use, OnceReplies
  <2> QED  BY <2>3
<1>9. CASE \/ Get(t) \/ Put(t) \/ CallReturn(t) \/ GrantReread(t)
           \/ \E o \in Objects, life \in Lifetimes : Mint(t, o, life)
           \/ \E i \in Slots : Call(t, i)
           \/ \E i \in Slots, m \in Masks, life \in Lifetimes : Derive(t, i, m, life)
  <2>1. slots' = slots
    BY <1>9 DEF Get, Put, CallReturn, GrantReread, Mint, Call, Derive
  <2> QED  BY <2>1
<1> QED
  BY <1>3, <1>4, <1>5, <1>6, <1>7, <1>8, <1>9 DEF TaskStep

(* A step of a task keeps single use to reply objects.                     *)
LEMMA OnceStep ==
  ASSUME Located, ReplyOnce, NEW t \in Tasks, TaskStep(t)
  PROVE  OnceReplies'
<1> SUFFICES ASSUME NEW w \in Tasks, NEW j \in Slots, slots'[w][j].valid, slots'[w][j].once
             PROVE  slots'[w][j].obj \in Replies
  BY DEF OnceReplies
<1>1. CASE slots'[w][j] = slots[w][j]
  BY <1>1 DEF ReplyOnce, OnceReplies
<1>2. CASE Filled(t, w, j)
  BY <1>2 DEF Filled
<1>3. CASE Marked(t, w, j)
  <2>1. op[t].obj \in Replies /\ Making(t, j, op[t].obj)
    BY <1>3 DEF Marked, Located, Shape, Making
  <2>2. Held(t, j, op[t].obj)
    BY <2>1 DEF ReplyOnce, ReplyInv
  <2> QED  BY <1>3, <2>1, <2>2 DEF Marked, Held
<1> QED  BY <1>1, <1>2, <1>3, SlotChange
-----------------------------------------------------------------------------
Base == Located /\ ReplyOnce

(* No space holds anything at first, and no task calls.                    *)
LEMMA BaseInit == Init => Base
<1> SUFFICES ASSUME Init
             PROVE  Base
  OBVIOUS
<1>1. \A t \in Tasks, i \in Slots : ~slots[t][i].valid /\ slots[t][i] \in Capabilities
  BY EmptyTyped DEF Init
<1>2. \A t \in Tasks : pc[t] = "run" /\ op[t] = Idle
  BY DEF Init
<1>3. Types
  <2>1. slots \in [Tasks -> [Slots -> Capabilities]]
    BY EmptyTyped DEF Init
  <2>2. gen \in [Objects -> 1..MaxGen] /\ now \in 0..MaxTime
    BY CapAssumption DEF Init
  <2>3. pc \in [Tasks -> Places] /\ op \in [Tasks -> Locals]
    BY IdleTyped DEF Init, Places
  <2> QED  BY <1>1, <2>1, <2>2, <2>3 DEF Init, Types
<1>4. \A t \in Tasks : Shape(t)
  BY <1>2 DEF Shape, Granting
<1>5. ReplyOnce
  <2>1. OnceReplies
    BY <1>1 DEF OnceReplies
  <2>2. ASSUME NEW o \in Replies
        PROVE  ReplyInv(o)
    <3>1. hits[o] <= 1 /\ Unused(o)
      BY <2>2 DEF Init, Unused
    <3>2. /\ \A t \in Tasks : ~Coming(t, o)
          /\ \A t \in Tasks, i \in Slots : ~Held(t, i, o) /\ ~Making(t, i, o)
      BY <1>1, <1>2 DEF Coming, Held, Making
    <3> QED  BY <3>1, <3>2 DEF ReplyInv
  <2> QED  BY <2>1, <2>2 DEF ReplyOnce
<1> QED  BY <1>3, <1>4, <1>5 DEF Base, Located

(* Revocations and the clock touch no space and no call.                   *)
LEMMA BaseWorld ==
  ASSUME Base, (\E o \in Files : Revoke(o)) \/ Tick \/ UNCHANGED vars
  PROVE  Base' /\ UNCHANGED <<slots, used, refs, born, freed, timed, pc, op, hits, spent>>
<1>1. UNCHANGED <<slots, used, refs, born, freed, timed, pc, op, hits, spent>>
  BY DEF Revoke, Tick, vars, objVars, env, history
<1>2. gen' \in [Objects -> 1..MaxGen] /\ \A o \in Objects : gen'[o] >= gen[o]
  <2>1. ASSUME NEW o \in Files, Revoke(o)
        PROVE  gen' \in [Objects -> 1..MaxGen] /\ \A p \in Objects : gen'[p] >= gen[p]
    <3>1. gen \in [Objects -> 1..MaxGen] /\ o \in Objects /\ MaxGen \in Nat
          /\ gen' = [gen EXCEPT ![o] = gen[o] + 1] /\ gen[o] < MaxGen
      BY <2>1, CapAssumption DEF Base, Located, Types, Revoke, Objects
    <3> QED  BY <3>1
  <2>2. CASE gen' = gen
    BY <2>2 DEF Base, Located, Types
  <2> QED  BY <2>1, <2>2 DEF Tick, vars, objVars
<1>3. now' \in 0..MaxTime
  BY CapAssumption DEF Base, Located, Types, Revoke, Tick, vars, env
<1>4. Types'
  <2>1. ASSUME NEW t \in Tasks, NEW i \in Slots, slots[t][i].valid
        PROVE  slots[t][i].obj \in born /\ slots[t][i].gen \in 1..gen'[slots[t][i].obj]
    <3> DEFINE o == slots[t][i].obj
               g == slots[t][i].gen
    <3>1. o \in born /\ o \in Objects /\ g \in 1..gen[o] /\ gen[o] \in 1..MaxGen
      BY <2>1 DEF Base, Located, Types
    <3>2. gen'[o] >= gen[o] /\ gen'[o] \in 1..MaxGen
      BY <1>2, <3>1
    <3> HIDE DEF o, g
    <3>3. g \in 1..gen'[o]
      BY <3>1, <3>2, CapAssumption
    <3> QED  BY <3>1, <3>3 DEF o, g
  <2>2. \A t \in Tasks : \A i \in Slots : slots'[t][i].valid =>
          slots'[t][i].obj \in born' /\ slots'[t][i].gen \in 1..gen'[slots'[t][i].obj]
    BY <1>1, <2>1
  <2>3. Types
    BY DEF Base, Located
  <2> HIDE DEF Base
  <2> QED  BY <1>1, <1>2, <1>3, <2>2, <2>3 DEF Types
<1>5. \A t \in Tasks : Shape(t)'
  BY <1>1 DEF Base, Located, Shape
<1>6. ReplyOnce'
  BY <1>1 DEF Base, ReplyOnce, OnceReplies, ReplyInv, Unused, Coming, Held, Making
<1> QED  BY <1>1, <1>4, <1>5, <1>6 DEF Base, Located

(* The types, the shapes and the single use of replies are inductive.      *)
LEMMA BaseStep == Base /\ [Next]_vars => Base'
<1> SUFFICES ASSUME Base, [Next]_vars
             PROVE  Base'
  OBVIOUS
<1>1. ASSUME NEW t \in Tasks, TaskStep(t)
      PROVE  Base'
  <2>1. \A u \in Tasks, i \in Slots : slots[u][i].valid /\ slots[u][i].obj \in Replies
          => slots[u][i].rights \subseteq {"use"}
    BY DEF Base, ReplyOnce, ReplyInv, Held
  <2>2. Located'
    BY <1>1, <2>1, LocatedStep DEF Base, ReplyOnce
  <2>3. OnceReplies' /\ \A o \in Replies : ReplyInv(o)'
    BY <1>1, OnceStep, ReplyStep DEF Base
  <2> QED  BY <2>2, <2>3 DEF Base, ReplyOnce
<1>2. CASE (\E o \in Files : Revoke(o)) \/ Tick \/ UNCHANGED vars
  BY <1>2, BaseWorld
<1> QED  BY <1>1, <1>2, NextCases DEF Base

(* A reply capability is good for one reply, for any number of tasks,      *)
(* slots and objects: it exists in one place, it is single-use before      *)
(* make_reply_cap returns, and cap_lookup uses it up.                      *)
THEOREM ReplySingleUse == Spec => []SingleUse
<1>1. Base => SingleUse
  BY DEF Base, ReplyOnce, ReplyInv, SingleUse
<1> QED  BY <1>1, BaseInit, BaseStep, PTL DEF Spec
-----------------------------------------------------------------------------
(* How a step of task t changes which spaces it works on, when no client   *)
(* leaves its call early.                                                  *)
LEMMA TaskMoves ==
  ASSUME Base, timed = {}, NEW t \in Tasks, TaskStep(t)
  PROVE  /\ \A u \in Tasks : u # t => pc'[u] = pc[u] /\ op'[u] = op[u]
         /\ pc[t] = "call" => Serving(t) = {}
         /\ \/ pc'[t] \notin Granting
            \/ pc[t] \in Granting /\ op'[t].from = op[t].from /\ op'[t].to = op[t].to
            \/ op'[t].from = None /\ op'[t].to = t
            \/ \E c \in Tasks : /\ c # t /\ {op'[t].from, op'[t].to} = {t, c}
                                /\ pc[c] = "call" /\ Serving(c) = {}
<1>1. Types /\ Shape(t) /\ op[t] \in Locals
  BY DEF Base, Located, Types
<1>2. ASSUME NEW l, NEW x, Goto(t, l, x)
      PROVE  pc'[t] = l /\ op'[t] = x /\ \A u \in Tasks : u # t => pc'[u] = pc[u] /\ op'[u] = op[u]
  BY <1>1, <1>2, GotoAt
<1>3. CASE Install(t)
  <2>1. pc[t] = "install" /\ (Goto(t, "put", op[t]) \/ Goto(t, "run", Idle)
                              \/ \E i \in Slots : Goto(t, "get", [op[t] EXCEPT !.slot = i]))
    BY <1>3 DEF Install, Return, FreeSlots
  <2>2. ASSUME NEW i \in Slots, Goto(t, "get", [op[t] EXCEPT !.slot = i])
        PROVE  /\ op'[t].from = op[t].from /\ op'[t].to = op[t].to
               /\ \A u \in Tasks : u # t => pc'[u] = pc[u] /\ op'[u] = op[u]
    <3>1. [op[t] EXCEPT !.slot = i].from = op[t].from /\ [op[t] EXCEPT !.slot = i].to = op[t].to
      BY <1>1, SlotTyped
    <3> QED  BY <1>2, <2>2, <3>1
  <2> QED  BY <1>2, <2>1, <2>2 DEF Granting
<1>4. CASE Get(t) \/ Put(t) \/ Once(t)
  <2>1. /\ pc[t] # "call"
        /\ Goto(t, "put", op[t]) \/ Goto(t, "run", Idle) \/ Goto(t, "once", op[t])
    BY <1>4 DEF Get, Put, Once, Return
  <2> QED  BY <1>2, <2>1 DEF Granting
<1>5. CASE CallReturn(t)
  <2>1. Serving(t) = {} /\ Goto(t, "run", Idle)
    BY <1>5 DEF CallReturn, Return
  <2> QED  BY <1>2, <2>1 DEF Granting
<1>6. CASE GrantReread(t)
  <2> DEFINE c == slots[op[t].from][op[t].slot]
             x == [op[t] EXCEPT !.rights = c.rights, !.slot = 0, !.life = Left(c), !.root = c.root]
  <2>1. pc[t] = "reread" /\ (Goto(t, "run", Idle) \/ Goto(t, "install", x))
    BY <1>6 DEF GrantReread, Return
  <2>2. x.from = op[t].from /\ x.to = op[t].to
    BY <1>1 DEF Locals
  <2> HIDE DEF x
  <2> QED  BY <1>2, <2>1, <2>2 DEF Granting
<1>7. ASSUME NEW n \in Objects, NEW life \in Lifetimes, Mint(t, n, life)
      PROVE  /\ pc[t] = "run" /\ op'[t].from = None /\ op'[t].to = t
             /\ \A u \in Tasks : u # t => pc'[u] = pc[u] /\ op'[u] = op[u]
  <2> DEFINE r == IF n \in Files THEN Roots[n] ELSE {"use"}
             x == [Idle EXCEPT !.obj = n, !.to = t, !.life = life, !.mint = TRUE, !.rights = r]
  <2>1. pc[t] = "run" /\ Goto(t, "install", x)
    BY <1>7 DEF Mint
  <2>2. x.from = None /\ x.to = t
    BY IdleTyped DEF Locals
  <2> HIDE DEF x
  <2> QED  BY <1>2, <2>1, <2>2
<1>8. ASSUME NEW i \in Slots, NEW m \in Masks, NEW life \in Lifetimes, Derive(t, i, m, life)
      PROVE  /\ pc[t] = "run" /\ op'[t].from = None /\ op'[t].to = t
             /\ \A u \in Tasks : u # t => pc'[u] = pc[u] /\ op'[u] = op[u]
  <2> DEFINE p == slots[t][i]
             x == [Idle EXCEPT !.obj = p.obj, !.to = t, !.root = p.root,
                     !.rights = m \cap p.rights, !.life = Smaller(life, Left(p))]
  <2>1. pc[t] = "run" /\ Goto(t, "install", x)
    BY <1>8 DEF Derive
  <2>2. x.from = None /\ x.to = t
    BY IdleTyped DEF Locals
  <2> HIDE DEF x
  <2> QED  BY <1>2, <2>1, <2>2
<1>9. ASSUME NEW i \in Slots, LookupUse(t, i) \/ Closes(t, i) \/ Call(t, i)
      PROVE  /\ pc[t] # "call" /\ pc'[t] \notin Granting
             /\ \A u \in Tasks : u # t => pc'[u] = pc[u] /\ op'[u] = op[u]
  <2>1. CASE LookupUse(t, i)
    <3>1. pc[t] = "run" /\ (Goto(t, "close", [Idle EXCEPT !.slot = i]) \/ Goto(t, "run", Idle))
      BY <2>1 DEF LookupUse, Return
    <3> QED  BY <1>2, <3>1 DEF Granting
  <2>2. CASE Closes(t, i)
    <3>1. /\ pc[t] \in {"run", "close"}
          /\ Goto(t, "put", [Idle EXCEPT !.obj = slots[t][i].obj]) \/ Goto(t, "run", Idle)
      BY <2>2 DEF Closes, CloseSlot, Return
    <3> QED  BY <1>2, <3>1 DEF Granting
  <2>3. CASE Call(t, i)
    <3>1. pc[t] = "run" /\ Goto(t, "call", [Idle EXCEPT !.slot = i])
      BY <2>3 DEF Call
    <3> QED  BY <1>2, <3>1 DEF Granting
  <2> QED  BY <1>9, <2>1, <2>2, <2>3
<1>10. ASSUME NEW i \in Slots, NEW from \in Tasks, NEW need \in {{"use"}, {"grant"}}, Retires(t, from, i, need)
       PROVE  /\ pc[t] # "call" /\ pc'[t] \notin Granting
              /\ \A u \in Tasks : u # t => pc'[u] = pc[u] /\ op'[u] = op[u]
  <2>1. pc[t] = "run" /\ Goto(t, "put", [Idle EXCEPT !.obj = slots[from][i].obj])
    BY <1>10 DEF Retires, Retire
  <2> QED  BY <1>2, <2>1 DEF Granting
<1>11. ASSUME NEW i \in Slots, NEW from \in Tasks, NEW to \in Tasks, GrantUse(t, from, to, i)
       PROVE  /\ pc[t] # "call"
              /\ \E c \in Tasks : /\ c # t /\ {op'[t].from, op'[t].to} = {t, c}
                                  /\ pc[c] = "call" /\ Serving(c) = {}
              /\ \A u \in Tasks : u # t => pc'[u] = pc[u] /\ op'[u] = op[u]
  <2> DEFINE x == [Idle EXCEPT !.obj = slots[from][i].obj, !.slot = i, !.from = from, !.to = to]
  <2>1. pc[t] = "run" /\ Goto(t, "reread", x)
    BY <1>11 DEF GrantUse
  <2>2. x.from = from /\ x.to = to
    BY IdleTyped DEF Locals
  <2> HIDE DEF x
  <2>3. op'[t].from = from /\ op'[t].to = to /\ \A u \in Tasks : u # t => pc'[u] = pc[u] /\ op'[u] = op[u]
    BY <1>2, <2>1, <2>2
  <2>4. PICK c \in Tasks : c # t /\ {from, to} = {t, c} /\ pc[c] = "call" /\ Serving(c) = {}
    BY <1>11 DEF GrantUse, Waits
  <2> QED  BY <2>1, <2>3, <2>4
<1> QED
  BY <1>3, <1>4, <1>5, <1>6, <1>7, <1>8, <1>9, <1>10, <1>11 DEF TaskStep

(* One server at a time serves a task that waits.                          *)
LEMMA ExclusiveStep ==
  ASSUME Base, timed = {}, Exclusive, NEW t \in Tasks, TaskStep(t)
  PROVE  Exclusive'
<1> SUFFICES ASSUME NEW c \in Tasks, NEW u \in Tasks, NEW v \in Tasks,
                    u \in Serving(c)', v \in Serving(c)'
             PROVE  u = v /\ pc'[c] = "call"
  BY DEF Exclusive
<1>1. \A w \in Tasks : w \in Serving(c)' /\ w # t => w \in Serving(c)
  BY TaskMoves DEF Serving, Granting
<1>2. None # c
  BY CapAssumption
<1>3. t \in Serving(c)' => t \in Serving(c) \/ (pc[c] = "call" /\ Serving(c) = {})
  <2>1. SUFFICES ASSUME t \in Serving(c)'
                 PROVE  t \in Serving(c) \/ (pc[c] = "call" /\ Serving(c) = {})
    OBVIOUS
  <2>2. pc'[t] \in Granting /\ c \in {op'[t].from, op'[t].to} /\ t # c
    BY <2>1 DEF Serving, Granting
  <2>3. CASE pc[t] \in Granting /\ op'[t].from = op[t].from /\ op'[t].to = op[t].to
    BY <2>2, <2>3 DEF Serving, Granting
  <2> QED  BY <1>2, <2>2, <2>3, TaskMoves
<1>4. u = v
  BY <1>1, <1>3 DEF Exclusive
<1>5. pc[c] = "call"
  BY <1>1, <1>3 DEF Exclusive
<1>6. c # t
  <2>1. CASE c = t
    <3>1. t \notin Serving(c)' /\ Serving(c) = {}
      BY <1>5, <2>1, TaskMoves DEF Serving
    <3> QED  BY <1>1, <3>1
  <2> QED  BY <2>1
<1> QED  BY <1>4, <1>5, <1>6, TaskMoves

(* The spaces a grant or an installation works on are its own: no other    *)
(* task changes their slots.                                               *)
LEMMA Undisturbed ==
  ASSUME Base, timed = {}, Exclusive, NEW t \in Tasks, TaskStep(t),
         NEW u \in Tasks, u # t, pc[u] \in Granting,
         NEW w \in Tasks, w \in {u, op[u].from, op[u].to}, NEW j \in Slots
  PROVE  slots'[w][j] = slots[w][j]
<1> SUFFICES ASSUME Reaches(t, w)
             PROVE  FALSE
  BY SlotChange DEF Base
<1>1. w # u => u \in Serving(w) /\ pc[w] = "call"
  BY DEF Serving, Granting, Exclusive
<1>2. pc[t] = "install" /\ w = op[t].to /\ t # w => t \in Serving(w) /\ pc[w] = "call"
  BY DEF Serving, Exclusive
<1>3. CASE pc[t] \in {"run", "close", "once"} /\ w = t
  BY <1>1, <1>3
<1>4. CASE pc[t] = "run" /\ Waits(w) /\ Serving(w) = {}
  BY <1>1, <1>4 DEF Waits, Granting
<1>5. CASE pc[t] = "install" /\ w = op[t].to
  <2>1. CASE w = u
    BY <1>2, <1>5, <2>1 DEF Granting
  <2>2. CASE w # u
    BY <1>1, <1>2, <1>5, <2>2 DEF Exclusive
  <2> QED  BY <2>1, <2>2
<1> QED  BY <1>3, <1>4, <1>5 DEF Reaches
-----------------------------------------------------------------------------
(* What a task carries to an installation are rights its object was        *)
(* installed with.                                                         *)
LEMMA RightsStep ==
  ASSUME Base, timed = {}, Exclusive, RightsKept, NEW t \in Tasks, TaskStep(t)
  PROVE  RightsKept'
<1>1. Types /\ Shape(t) /\ op[t] \in Locals
  BY DEF Base, Located, Types
<1>2. ASSUME NEW u \in Tasks, NEW i \in Slots, slots'[u][i].valid
      PROVE  slots'[u][i].rights \subseteq Authority(slots'[u][i].obj)
  <2>1. CASE slots'[u][i] = slots[u][i]
    BY <1>2, <2>1 DEF RightsKept
  <2>2. CASE Marked(t, u, i)
    BY <2>2 DEF Marked, RightsKept
  <2>3. CASE Filled(t, u, i)
    BY <2>3 DEF Filled, RightsKept
  <2> QED  BY <1>2, <2>1, <2>2, <2>3, SlotChange DEF Base
<1>3. ASSUME NEW u \in Tasks, u # t
      PROVE  /\ pc'[u] = "install" => op'[u].rights \subseteq Authority(op'[u].obj)
             /\ pc'[u] = "reread" =>
                  /\ slots'[op'[u].from][op'[u].slot].obj = op'[u].obj
                  /\ slots'[op'[u].from][op'[u].slot].rights \subseteq Authority(op'[u].obj)
  <2>1. pc'[u] = pc[u] /\ op'[u] = op[u]
    BY <1>3, TaskMoves
  <2>2. CASE pc[u] = "reread"
    <3>1. op[u].from \in Tasks /\ op[u].slot \in Slots
      BY <2>2 DEF Base, Located, Shape, Granting
    <3>2. slots'[op[u].from][op[u].slot] = slots[op[u].from][op[u].slot]
      BY <1>3, <2>2, <3>1, Undisturbed DEF Granting
    <3> QED  BY <2>1, <2>2, <3>2 DEF RightsKept
  <2>3. CASE pc[u] # "reread"
    BY <2>1, <2>3 DEF RightsKept
  <2> QED  BY <2>2, <2>3
<1> DEFINE Goal == /\ pc'[t] = "install" => op'[t].rights \subseteq Authority(op'[t].obj)
                   /\ pc'[t] = "reread" =>
                        /\ slots'[op'[t].from][op'[t].slot].obj = op'[t].obj
                        /\ slots'[op'[t].from][op'[t].slot].rights \subseteq Authority(op'[t].obj)
<1>4. ASSUME NEW l, NEW x, Goto(t, l, x), l \notin {"install", "reread"}
      PROVE  Goal
  BY <1>1, <1>4, GotoAt
<1>5. ASSUME NEW x, Goto(t, "install", x), x.rights \subseteq Authority(x.obj)
      PROVE  Goal
  <2>1. pc'[t] = "install" /\ op'[t] = x
    BY <1>1, <1>5, GotoAt
  <2> QED  BY <1>5, <2>1
<1> HIDE DEF Goal
<1>6. ASSUME Install(t)
      PROVE  Goal
  <2>1. \/ Goto(t, "put", op[t]) \/ Goto(t, "run", Idle)
        \/ \E i \in Slots : Goto(t, "get", [op[t] EXCEPT !.slot = i])
    BY <1>6 DEF Install, Return, FreeSlots
  <2>2. ASSUME NEW i \in Slots, Goto(t, "get", [op[t] EXCEPT !.slot = i])
        PROVE  Goal
    <3> DEFINE x == [op[t] EXCEPT !.slot = i]
    <3>1. Goto(t, "get", x)
      BY <2>2
    <3> HIDE DEF x
    <3> QED  BY <1>4, <3>1
  <2>3. ASSUME Goto(t, "put", op[t]) \/ Goto(t, "run", Idle)
        PROVE  Goal
    BY <1>4, <2>3
  <2> QED  BY <2>1, <2>2, <2>3, Zenon
<1>7. ASSUME Get(t) \/ Put(t) \/ Once(t) \/ CallReturn(t)
      PROVE  Goal
  <2>1. Goto(t, "put", op[t]) \/ Goto(t, "run", Idle) \/ Goto(t, "once", op[t])
    BY <1>7 DEF Get, Put, Once, CallReturn, Return
  <2> QED  BY <1>4, <2>1
<1>8. ASSUME GrantReread(t)
      PROVE  Goal
  <2> DEFINE c == slots[op[t].from][op[t].slot]
             x == [op[t] EXCEPT !.rights = c.rights, !.slot = 0, !.life = Left(c), !.root = c.root]
  <2>1. pc[t] = "reread" /\ (Goto(t, "run", Idle) \/ Goto(t, "install", x))
    BY <1>8 DEF GrantReread, Return
  <2>2. x.obj = op[t].obj /\ x.rights = c.rights
    BY <1>1 DEF Locals
  <2>3. c.rights \subseteq Authority(op[t].obj)
    BY <2>1 DEF RightsKept
  <2> HIDE DEF x, c
  <2> QED  BY <1>4, <1>5, <2>1, <2>2, <2>3
<1>9. ASSUME NEW n \in Objects, NEW life \in Lifetimes, Mint(t, n, life)
      PROVE  Goal
  <2> DEFINE r == IF n \in Files THEN Roots[n] ELSE {"use"}
             x == [Idle EXCEPT !.obj = n, !.to = t, !.life = life, !.mint = TRUE, !.rights = r]
  <2>1. Goto(t, "install", x)
    BY <1>9 DEF Mint
  <2>2. x.obj = n /\ x.rights = r
    BY IdleTyped DEF Locals
  <2>3. r = Authority(n)
    BY DEF Authority
  <2> HIDE DEF x, r
  <2> QED  BY <1>5, <2>1, <2>2, <2>3
<1>10. ASSUME NEW i \in Slots, NEW m \in Masks, NEW life \in Lifetimes, Derive(t, i, m, life)
       PROVE  Goal
  <2> DEFINE p == slots[t][i]
             x == [Idle EXCEPT !.obj = p.obj, !.to = t, !.root = p.root,
                     !.rights = m \cap p.rights, !.life = Smaller(life, Left(p))]
  <2>1. Goto(t, "install", x) /\ p.valid
    BY <1>10 DEF Derive
  <2>2. x.obj = p.obj /\ x.rights = m \cap p.rights
    BY IdleTyped DEF Locals
  <2>3. p.rights \subseteq Authority(p.obj)
    BY <2>1 DEF RightsKept
  <2> HIDE DEF x, p
  <2> QED  BY <1>5, <2>1, <2>2, <2>3
<1>11. ASSUME NEW i \in Slots, LookupUse(t, i) \/ Closes(t, i) \/ Call(t, i)
       PROVE  Goal
  <2>1. \/ Goto(t, "close", [Idle EXCEPT !.slot = i]) \/ Goto(t, "run", Idle)
        \/ Goto(t, "put", [Idle EXCEPT !.obj = slots[t][i].obj])
        \/ Goto(t, "call", [Idle EXCEPT !.slot = i])
    BY <1>11 DEF LookupUse, Closes, CloseSlot, Call, Return
  <2> QED  BY <1>4, <2>1
<1>12. ASSUME NEW i \in Slots, NEW from \in Tasks, NEW need \in {{"use"}, {"grant"}}, Retires(t, from, i, need)
       PROVE  Goal
  <2>1. Goto(t, "put", [Idle EXCEPT !.obj = slots[from][i].obj])
    BY <1>12 DEF Retires, Retire
  <2> QED  BY <1>4, <2>1
<1>13. ASSUME NEW i \in Slots, NEW from \in Tasks, NEW to \in Tasks, GrantUse(t, from, to, i)
       PROVE  Goal
  <2> DEFINE c == slots[from][i]
             x == [Idle EXCEPT !.obj = c.obj, !.slot = i, !.from = from, !.to = to]
  <2>1. Goto(t, "reread", x) /\ c.valid /\ "grant" \in c.rights /\ Use(from, i)
    BY <1>13 DEF GrantUse, Usable, Allows
  <2>2. c.obj \notin Replies
    BY <2>1 DEF Base, ReplyOnce, ReplyInv, Held
  <2>3. slots' = slots
    BY <2>1, <2>2 DEF Use, Base, ReplyOnce, OnceReplies
  <2>4. x.obj = c.obj /\ x.from = from /\ x.slot = i
    BY IdleTyped DEF Locals
  <2>5. c.rights \subseteq Authority(c.obj)
    BY <2>1 DEF RightsKept
  <2>6. slots'[from][i] = c
    BY <2>3
  <2> HIDE DEF x, c
  <2>7. pc'[t] = "reread" /\ op'[t] = x
    BY <1>1, <2>1, GotoAt
  <2> QED  BY <2>4, <2>5, <2>6, <2>7 DEF Goal
<1>14. Goal
  BY <1>6, <1>7, <1>8, <1>9, <1>10, <1>11, <1>12, <1>13 DEF TaskStep
<1> QED  BY <1>2, <1>3, <1>14 DEF RightsKept, Authority, Goal
-----------------------------------------------------------------------------
CapInv == Base /\ (timed = {} => Exclusive /\ RightsKept)

(* No capability exists at first, so none carries a right too many.        *)
LEMMA CapInit == Init => CapInv
<1> SUFFICES ASSUME Init
             PROVE  CapInv
  OBVIOUS
<1>1. \A t \in Tasks : pc[t] = "run" /\ \A i \in Slots : ~slots[t][i].valid
  BY EmptyTyped DEF Init
<1>2. Exclusive
  BY <1>1 DEF Exclusive, Serving
<1>3. RightsKept
  BY <1>1 DEF RightsKept
<1> QED  BY <1>2, <1>3, BaseInit DEF CapInv

(* With one server at a time for a client, the rights kept are inductive.  *)
LEMMA CapStep == CapInv /\ [Next]_vars => CapInv'
<1> SUFFICES ASSUME CapInv, [Next]_vars
             PROVE  CapInv'
  OBVIOUS
<1>1. ASSUME NEW t \in Tasks, TaskStep(t)
      PROVE  timed' = timed
  BY <1>1 DEF TaskStep, Install, Get, Put, Once, CallReturn, GrantReread, Mint, LookupUse, Closes,
              Call, Derive, Retires, Retire, GrantUse, env
<1>2. ASSUME NEW t \in Tasks, TaskStep(t)
      PROVE  CapInv'
  BY <1>1, <1>2, BaseStep, ExclusiveStep, RightsStep DEF CapInv
<1>3. CASE (\E o \in Files : Revoke(o)) \/ Tick \/ UNCHANGED vars
  <2>1. Base' /\ UNCHANGED <<slots, timed, pc, op>>
    BY <1>3, BaseWorld DEF CapInv
  <2> QED  BY <2>1 DEF CapInv, Exclusive, Serving, RightsKept, Authority
<1> QED  BY <1>2, <1>3, NextCases DEF CapInv, Base

(* No capability carries a right that its object was not installed with,   *)
(* however often it was derived and granted, for any number of tasks and   *)
(* slots and any rights asked for, as long as clients wait for their call. *)
THEOREM NothingAmplified == Spec => []WaitedAmplifiesNothing
<1>1. CapInv => WaitedAmplifiesNothing
  BY DEF CapInv, RightsKept, WaitedAmplifiesNothing, NeverAmplified
<1> QED  BY <1>1, CapInit, CapStep, PTL DEF Spec
-----------------------------------------------------------------------------
(* Two sets that differ in one element at most differ by it in their sizes. *)
LEMMA OneApart ==
  ASSUME NEW T, IsFiniteSet(T), NEW A \in SUBSET T, NEW B \in SUBSET T, NEW x,
         \A y \in T : y # x => (y \in A <=> y \in B)
  PROVE  /\ Cardinality(A) \in Nat /\ Cardinality(B) \in Nat
         /\ (x \in A <=> x \in B) => Cardinality(B) = Cardinality(A)
         /\ x \notin A /\ x \in B => Cardinality(B) = Cardinality(A) + 1
         /\ x \in A /\ x \notin B => Cardinality(A) = Cardinality(B) + 1
         /\ x \in A => Cardinality(A) >= 1
<1>1. IsFiniteSet(A) /\ IsFiniteSet(B)
  BY FS_Subset
<1>2. Cardinality(A) \in Nat /\ Cardinality(B) \in Nat
  BY <1>1, FS_CardinalityType
<1>3. (x \in A <=> x \in B) => B = A
  OBVIOUS
<1>4. x \notin A /\ x \in B => B = A \cup {x}
  OBVIOUS
<1>5. x \in A /\ x \notin B => A = B \cup {x}
  OBVIOUS
<1>6. x \notin A => Cardinality(A \cup {x}) = Cardinality(A) + 1
  BY <1>1, FS_AddElement
<1>7. x \notin B => Cardinality(B \cup {x}) = Cardinality(B) + 1
  BY <1>1, FS_AddElement
<1>8. x \in A => Cardinality(A) # 0
  BY <1>1, FS_EmptySet
<1>9. x \in A => Cardinality(A) >= 1
  BY <1>2, <1>8
<1>10. x \in A /\ x \notin B => Cardinality(A) = Cardinality(B) + 1
  BY <1>5, <1>7
<1> QED  BY <1>2, <1>3, <1>4, <1>6, <1>9, <1>10

(* The places an object's references are counted in.                       *)
Spent(t)   == {o \in Replies : <<t, o>> \in spent}
CapsOf(o)  == {s \in Tasks \X Slots : slots[s[1]][s[2]].valid /\ slots[s[1]][s[2]].obj = o}
Inside(o)  == {t \in Tasks : op[t].obj = o /\ (pc[t] = "put" \/ (op[t].mint /\ pc[t] \in {"install", "get"}))}
Getting(o) == {t \in Tasks : op[t].obj = o /\ pc[t] = "get"}
SpentBy(o) == {t \in Tasks : <<t, o>> \in spent}

RefsSum(o) == refs[o] = Cardinality(CapsOf(o)) + Cardinality(Inside(o))
                      - Cardinality(Getting(o)) + Cardinality(SpentBy(o))
UsedSum(t) == /\ IsFiniteSet(Spent(t))
              /\ used[t] = Cardinality(Valid(t)) + Cardinality(Spent(t))
Alive(o)   == /\ refs[o] \in Nat
              /\ o \in born \ freed => refs[o] >= 1
              /\ o \notin born \/ o \in freed => refs[o] = 0

Counted == /\ used \in [Tasks -> Nat] /\ DOMAIN refs = Objects /\ refs \in [Objects -> Int]
           /\ \A t \in Tasks : UsedSum(t)
           /\ \A o \in Objects : RefsSum(o) /\ Alive(o)

InsideAt(l, x, o) == x.obj = o /\ (l = "put" \/ (x.mint /\ l \in {"install", "get"}))

(* How an object's references move in a step of task t to l with locals x  *)
(* that changes slot i of space w at most: not at all; a capability comes   *)
(* and its reference is still to be taken; it is taken; one is put; a       *)
(* creator brings one; a capability is used up; a capability goes and its   *)
(* reference is to be put.                                                 *)
CapAt(o, w, i)       == <<w, i>> \in CapsOf(o)
CapSame(o, w, i)     == CapAt(o, w, i)' <=> CapAt(o, w, i)
CapComes(o, w, i)    == ~CapAt(o, w, i) /\ CapAt(o, w, i)'
CapGoes(o, w, i)     == CapAt(o, w, i) /\ ~CapAt(o, w, i)'
InSame(o, t, l, x)   == InsideAt(l, x, o) <=> InsideAt(pc[t], op[t], o)
InComes(o, t, l, x)  == ~InsideAt(pc[t], op[t], o) /\ InsideAt(l, x, o)
InGoes(o, t, l, x)   == InsideAt(pc[t], op[t], o) /\ ~InsideAt(l, x, o)
GetAt(l, x, o)       == x.obj = o /\ l = "get"
GetSame(o, t, l, x)  == GetAt(l, x, o) <=> GetAt(pc[t], op[t], o)
GetComes(o, t, l, x) == ~GetAt(pc[t], op[t], o) /\ GetAt(l, x, o)
GetGoes(o, t, l, x)  == GetAt(pc[t], op[t], o) /\ ~GetAt(l, x, o)
SpentSame(o, t)      == <<t, o>> \in spent' <=> <<t, o>> \in spent
SpentComes(o, t)     == <<t, o>> \notin spent /\ <<t, o>> \in spent'

Settled(o, t, l, x, w, i) ==
  \/ /\ CapSame(o, w, i) /\ InSame(o, t, l, x) /\ GetSame(o, t, l, x) /\ SpentSame(o, t)
     /\ refs'[o] = refs[o]
  \/ /\ CapComes(o, w, i) /\ InSame(o, t, l, x) /\ GetComes(o, t, l, x) /\ SpentSame(o, t)
     /\ refs'[o] = refs[o]
  \/ /\ CapSame(o, w, i) /\ InSame(o, t, l, x) /\ GetGoes(o, t, l, x) /\ SpentSame(o, t)
     /\ refs'[o] = refs[o] + 1
  \/ /\ CapSame(o, w, i) /\ InGoes(o, t, l, x) /\ GetSame(o, t, l, x) /\ SpentSame(o, t)
     /\ refs'[o] = refs[o] - 1
  \/ /\ CapSame(o, w, i) /\ InComes(o, t, l, x) /\ GetSame(o, t, l, x) /\ SpentSame(o, t)
     /\ refs'[o] = refs[o] + 1
  \/ /\ CapGoes(o, w, i) /\ InSame(o, t, l, x) /\ GetSame(o, t, l, x) /\ SpentComes(o, t)
     /\ refs'[o] = refs[o]
  \/ /\ CapGoes(o, w, i) /\ InComes(o, t, l, x) /\ GetSame(o, t, l, x) /\ SpentSame(o, t)
     /\ refs'[o] = refs[o]

(* The sum of an object's references follows when its places settle.       *)
LEMMA RefsMove ==
  ASSUME Base, NEW o \in Objects, RefsSum(o), refs[o] \in Int,
         NEW t \in Tasks, NEW l, NEW x, Goto(t, l, x), NEW w, NEW i,
         \A u \in Tasks, j \in Slots : u # w \/ j # i => slots'[u][j] = slots[u][j],
         \A u \in Tasks : u # t => (<<u, o>> \in spent' <=> <<u, o>> \in spent),
         Settled(o, t, l, x, w, i)
  PROVE  RefsSum(o)'
<1>1. /\ pc'[t] = l /\ op'[t] = x
      /\ \A u \in Tasks : u # t => pc'[u] = pc[u] /\ op'[u] = op[u]
  BY GotoAt DEF Base, Located
<1>2. IsFiniteSet(Tasks) /\ IsFiniteSet(Tasks \X Slots)
  <2>1. IsFiniteSet(Slots)
    BY CapAssumption, FS_Interval DEF Slots
  <2> QED  BY <2>1, CapAssumption, FS_Product
<1> DEFINE a == Cardinality(CapsOf(o))
           b == Cardinality(Inside(o))
           c == Cardinality(Getting(o))
           d == Cardinality(SpentBy(o))
           A == Cardinality(CapsOf(o)')
           B == Cardinality(Inside(o)')
           C == Cardinality(Getting(o)')
           D == Cardinality(SpentBy(o)')
<1>3. /\ a \in Nat /\ A \in Nat
      /\ CapSame(o, w, i) => A = a
      /\ CapComes(o, w, i) => A = a + 1
      /\ CapGoes(o, w, i) => a = A + 1
  <2> DEFINE s == <<w, i>>
  <2>1. CapsOf(o) \in SUBSET (Tasks \X Slots) /\ CapsOf(o)' \in SUBSET (Tasks \X Slots)
    BY DEF CapsOf
  <2>2. \A y \in Tasks \X Slots : y # s => (y \in CapsOf(o) <=> y \in CapsOf(o)')
    BY DEF CapsOf
  <2>3. (s \in CapsOf(o) <=> CapAt(o, w, i)) /\ (s \in CapsOf(o)' <=> CapAt(o, w, i)')
    BY DEF CapAt
  <2> HIDE DEF s
  <2>4. /\ a \in Nat /\ A \in Nat
        /\ (s \in CapsOf(o) <=> s \in CapsOf(o)') => A = a
        /\ s \notin CapsOf(o) /\ s \in CapsOf(o)' => A = a + 1
        /\ s \in CapsOf(o) /\ s \notin CapsOf(o)' => a = A + 1
    BY <1>2, <2>1, <2>2, OneApart
  <2> HIDE DEF a, A
  <2> QED  BY <2>3, <2>4 DEF CapSame, CapComes, CapGoes
<1>4. /\ b \in Nat /\ B \in Nat
      /\ InSame(o, t, l, x) => B = b
      /\ InComes(o, t, l, x) => B = b + 1
      /\ InGoes(o, t, l, x) => b = B + 1
  <2>1. Inside(o) \in SUBSET Tasks /\ Inside(o)' \in SUBSET Tasks
    BY DEF Inside
  <2>2. \A y \in Tasks : y # t => (y \in Inside(o) <=> y \in Inside(o)')
    BY <1>1 DEF Inside
  <2>3. (t \in Inside(o) <=> InsideAt(pc[t], op[t], o)) /\ (t \in Inside(o)' <=> InsideAt(l, x, o))
    BY <1>1 DEF Inside, InsideAt
  <2>4. /\ b \in Nat /\ B \in Nat
        /\ (t \in Inside(o) <=> t \in Inside(o)') => B = b
        /\ t \notin Inside(o) /\ t \in Inside(o)' => B = b + 1
        /\ t \in Inside(o) /\ t \notin Inside(o)' => b = B + 1
    BY <1>2, <2>1, <2>2, OneApart
  <2> HIDE DEF b, B
  <2> QED  BY <2>3, <2>4 DEF InSame, InComes, InGoes
<1>5. /\ c \in Nat /\ C \in Nat
      /\ GetSame(o, t, l, x) => C = c
      /\ GetComes(o, t, l, x) => C = c + 1
      /\ GetGoes(o, t, l, x) => c = C + 1
  <2>1. Getting(o) \in SUBSET Tasks /\ Getting(o)' \in SUBSET Tasks
    BY DEF Getting
  <2>2. \A y \in Tasks : y # t => (y \in Getting(o) <=> y \in Getting(o)')
    BY <1>1 DEF Getting
  <2>3. (t \in Getting(o) <=> GetAt(pc[t], op[t], o)) /\ (t \in Getting(o)' <=> GetAt(l, x, o))
    BY <1>1 DEF Getting, GetAt
  <2>4. /\ c \in Nat /\ C \in Nat
        /\ (t \in Getting(o) <=> t \in Getting(o)') => C = c
        /\ t \notin Getting(o) /\ t \in Getting(o)' => C = c + 1
        /\ t \in Getting(o) /\ t \notin Getting(o)' => c = C + 1
    BY <1>2, <2>1, <2>2, OneApart
  <2> HIDE DEF c, C
  <2> QED  BY <2>3, <2>4 DEF GetSame, GetComes, GetGoes
<1>6. /\ d \in Nat /\ D \in Nat
      /\ SpentSame(o, t) => D = d
      /\ SpentComes(o, t) => D = d + 1
  <2>1. SpentBy(o) \in SUBSET Tasks /\ SpentBy(o)' \in SUBSET Tasks
    BY DEF SpentBy
  <2>2. \A y \in Tasks : y # t => (y \in SpentBy(o) <=> y \in SpentBy(o)')
    BY DEF SpentBy
  <2>3. (t \in SpentBy(o) <=> <<t, o>> \in spent) /\ (t \in SpentBy(o)' <=> <<t, o>> \in spent')
    BY DEF SpentBy
  <2>4. /\ d \in Nat /\ D \in Nat
        /\ (t \in SpentBy(o) <=> t \in SpentBy(o)') => D = d
        /\ t \notin SpentBy(o) /\ t \in SpentBy(o)' => D = d + 1
        /\ t \in SpentBy(o) /\ t \notin SpentBy(o)' => d = D + 1
    BY <1>2, <2>1, <2>2, OneApart
  <2> HIDE DEF d, D
  <2> QED  BY <2>3, <2>4 DEF SpentSame, SpentComes
<1>7. refs[o] = a + b - c + d /\ refs[o] \in Int
  BY DEF RefsSum
<1>8. RefsSum(o)' <=> refs'[o] = A + B - C + D
  BY DEF RefsSum
<1> HIDE DEF a, b, c, d, A, B, C, D
<1>9. refs'[o] = A + B - C + D
  BY <1>3, <1>4, <1>5, <1>6, <1>7 DEF Settled
<1> QED  BY <1>8, <1>9

(* A slot is counted when it holds the object.                             *)
LEMMA CapAtHeld ==
  ASSUME NEW o, NEW w \in Tasks, NEW i \in Slots
  PROVE  (CapAt(o, w, i) <=> Held(w, i, o)) /\ (CapAt(o, w, i)' <=> Held(w, i, o)')
BY DEF CapAt, CapsOf, Held

(* A step that changes no slot.                                            *)
LEMMA RefsStill ==
  ASSUME Base, NEW o \in Objects, RefsSum(o), refs[o] \in Int,
         NEW t \in Tasks, NEW l, NEW x, Goto(t, l, x), slots' = slots, spent' = spent,
         \/ InSame(o, t, l, x) /\ GetSame(o, t, l, x) /\ refs'[o] = refs[o]
         \/ InSame(o, t, l, x) /\ GetGoes(o, t, l, x) /\ refs'[o] = refs[o] + 1
         \/ InGoes(o, t, l, x) /\ GetSame(o, t, l, x) /\ refs'[o] = refs[o] - 1
         \/ InComes(o, t, l, x) /\ GetSame(o, t, l, x) /\ refs'[o] = refs[o] + 1
  PROVE  RefsSum(o)'
<1>1. CapSame(o, 0, 0) /\ SpentSame(o, t)
  BY DEF CapSame, CapAt, CapsOf, SpentSame
<1>2. Settled(o, t, l, x, 0, 0)
  BY <1>1 DEF Settled
<1>3. /\ \A u \in Tasks, j \in Slots : u # 0 \/ j # 0 => slots'[u][j] = slots[u][j]
      /\ \A u \in Tasks : u # t => (<<u, o>> \in spent' <=> <<u, o>> \in spent)
  OBVIOUS
<1> QED  BY <1>2, <1>3, RefsMove

(* A capability that goes, with its reference still to be put.             *)
LEMMA RefsCleared ==
  ASSUME Base, NEW o \in Objects, RefsSum(o), refs[o] \in Int, refs'[o] = refs[o], spent' = spent,
         NEW t \in Tasks, pc[t] \in {"run", "close"},
         NEW w \in Tasks, NEW i \in Slots, slots[w][i].valid,
         slots' = [slots EXCEPT ![w][i] = Empty],
         Goto(t, "put", [Idle EXCEPT !.obj = slots[w][i].obj])
  PROVE  RefsSum(o)'
<1> DEFINE x == [Idle EXCEPT !.obj = slots[w][i].obj]
<1>1. x.obj = slots[w][i].obj /\ Goto(t, "put", x)
  BY IdleTyped DEF Locals
<1> HIDE DEF x
<1>2. /\ ~slots'[w][i].valid
      /\ \A u \in Tasks, j \in Slots : u # w \/ j # i => slots'[u][j] = slots[u][j]
  <2>1. /\ slots'[w][i] = Empty
        /\ \A u \in Tasks, j \in Slots : u # w \/ j # i => slots'[u][j] = slots[u][j]
    BY DEF Base, Located, Types
  <2> QED  BY <2>1, EmptyTyped
<1>3. GetSame(o, t, "put", x) /\ SpentSame(o, t)
  BY DEF GetSame, GetAt, SpentSame
<1>4. CASE slots[w][i].obj = o
  <2>1. CapGoes(o, w, i)
    BY <1>2, <1>4, CapAtHeld DEF CapGoes, Held
  <2>2. InComes(o, t, "put", x)
    BY <1>1, <1>4 DEF InComes, InsideAt
  <2>3. Settled(o, t, "put", x, w, i)
    BY <1>3, <2>1, <2>2 DEF Settled
  <2> QED  BY <1>1, <1>2, <2>3, RefsMove
<1>5. CASE slots[w][i].obj # o
  <2>1. CapSame(o, w, i)
    BY <1>2, <1>5, CapAtHeld DEF CapSame, Held
  <2>2. InSame(o, t, "put", x)
    BY <1>1, <1>5 DEF InSame, InsideAt
  <2>3. Settled(o, t, "put", x, w, i)
    BY <1>3, <2>1, <2>2 DEF Settled
  <2> QED  BY <1>1, <1>2, <2>3, RefsMove
<1> QED  BY <1>4, <1>5

(* The references of an object after a step of a task.                     *)
LEMMA RefsStep ==
  ASSUME Base, Counted, NEW t \in Tasks, TaskStep(t), NEW o \in Objects
  PROVE  RefsSum(o)'
<1>1. Types /\ Shape(t) /\ op[t] \in Locals /\ RefsSum(o) /\ refs[o] \in Int /\ DOMAIN refs = Objects
  BY DEF Base, Located, Types, Counted, Alive
<1>2. CASE Get(t)
  <2>1. pc[t] = "get" /\ slots' = slots /\ spent' = spent
    BY <1>2 DEF Get, history
  <2>2. refs'[o] = IF op[t].obj = o THEN refs[o] + 1 ELSE refs[o]
    BY <1>1, <1>2 DEF Get
  <2>3. CASE op[t].mint
    <3>1. Goto(t, "put", op[t])
      BY <1>2, <2>3 DEF Get
    <3>2. InSame(o, t, "put", op[t])
      BY <2>1, <2>3 DEF InSame, InsideAt
    <3>3. op[t].obj = o => GetGoes(o, t, "put", op[t])
      BY <2>1 DEF GetGoes, GetAt
    <3>4. op[t].obj # o => GetSame(o, t, "put", op[t])
      BY DEF GetSame, GetAt
    <3> QED  BY <1>1, <2>1, <2>2, <3>1, <3>2, <3>3, <3>4, RefsStill
  <2>4. CASE ~op[t].mint
    <3>1. Goto(t, "run", Idle)
      BY <1>2, <2>4 DEF Get, Return
    <3>2. InSame(o, t, "run", Idle)
      BY <2>1, <2>4 DEF InSame, InsideAt
    <3>3. op[t].obj = o => GetGoes(o, t, "run", Idle)
      BY <2>1 DEF GetGoes, GetAt
    <3>4. op[t].obj # o => GetSame(o, t, "run", Idle)
      BY DEF GetSame, GetAt
    <3> QED  BY <1>1, <2>1, <2>2, <3>1, <3>2, <3>3, <3>4, RefsStill
  <2> QED  BY <2>3, <2>4
<1>3. CASE Put(t)
  <2>1. pc[t] = "put" /\ slots' = slots /\ spent' = spent
    BY <1>3 DEF Put, history
  <2>2. refs'[o] = IF op[t].obj = o THEN refs[o] - 1 ELSE refs[o]
    BY <1>1, <1>3 DEF Put
  <2>3. ASSUME NEW l \in {"once", "run"}, NEW x, Goto(t, l, x)
        PROVE  RefsSum(o)'
    <3>1. GetSame(o, t, l, x)
      BY <2>1, <2>3 DEF GetSame, GetAt
    <3>2. op[t].obj = o => InGoes(o, t, l, x)
      BY <2>1, <2>3 DEF InGoes, InsideAt
    <3>3. op[t].obj # o => InSame(o, t, l, x)
      BY <2>1, <2>3 DEF InSame, InsideAt
    <3> QED  BY <1>1, <2>1, <2>2, <2>3, <3>1, <3>2, <3>3, RefsStill
  <2> QED  BY <1>3, <2>3 DEF Put, Return
<1>4. ASSUME NEW n \in Objects, NEW life \in Lifetimes, Mint(t, n, life)
      PROVE  RefsSum(o)'
  <2> DEFINE r == IF n \in Files THEN Roots[n] ELSE {"use"}
             x == [Idle EXCEPT !.obj = n, !.to = t, !.life = life, !.mint = TRUE, !.rights = r]
  <2>1. /\ pc[t] = "run" /\ Goto(t, "install", x) /\ slots' = slots /\ spent' = spent
        /\ refs' = [refs EXCEPT ![n] = 1] /\ n \notin born
    BY <1>4 DEF Mint, history
  <2>2. x.obj = n /\ x.mint
    BY IdleTyped DEF Locals
  <2> HIDE DEF x
  <2>3. refs[n] = 0
    BY <2>1 DEF Counted, Alive
  <2>4. GetSame(o, t, "install", x)
    BY <2>1 DEF GetSame, GetAt
  <2>5. CASE n = o
    <3>1. InComes(o, t, "install", x) /\ refs'[o] = refs[o] + 1
      BY <1>1, <2>1, <2>2, <2>3, <2>5 DEF InComes, InsideAt
    <3> QED  BY <1>1, <2>1, <2>4, <3>1, RefsStill
  <2>6. CASE n # o
    <3>1. InSame(o, t, "install", x) /\ refs'[o] = refs[o]
      BY <1>1, <2>1, <2>2, <2>6 DEF InSame, InsideAt
    <3> QED  BY <1>1, <2>1, <2>4, <3>1, RefsStill
  <2> QED  BY <2>5, <2>6
<1>5. CASE Once(t)
  <2>0. PICK i \in Slots : i = op[t].slot
    BY <1>1, <1>5 DEF Once, Shape
  <2> DEFINE d == [slots[t][i] EXCEPT !.once = TRUE]
  <2>1. /\ pc[t] = "once" /\ slots' = [slots EXCEPT ![t][i] = d]
        /\ Goto(t, "run", Idle) /\ spent' = spent /\ refs' = refs
    BY <1>1, <1>5, <2>0 DEF Once, Types, Return, history, objVars
  <2>2. (d.valid <=> slots[t][i].valid) /\ d.obj = slots[t][i].obj
    BY <1>1, <2>1, OnceTyped DEF Types
  <2> HIDE DEF d
  <2>3. /\ slots'[t][i] = d
        /\ \A u \in Tasks, j \in Slots : u # t \/ j # i => slots'[u][j] = slots[u][j]
    BY <1>1, <2>1 DEF Types
  <2>4. CapSame(o, t, i)
    <3>1. Held(t, i, o)' <=> Held(t, i, o)
      BY <2>2, <2>3 DEF Held
    <3> QED  BY <2>1, <3>1, CapAtHeld DEF CapSame
  <2>5. InSame(o, t, "run", Idle) /\ GetSame(o, t, "run", Idle) /\ SpentSame(o, t)
    BY <2>1 DEF InSame, InsideAt, GetSame, GetAt, SpentSame
  <2>6. Settled(o, t, "run", Idle, t, i)
    BY <2>1, <2>4, <2>5 DEF Settled
  <2> QED  BY <1>1, <2>1, <2>3, <2>6, RefsMove
<1>6. ASSUME NEW l, NEW x, Goto(t, l, x), slots' = slots, spent' = spent, refs' = refs,
             pc[t] \notin {"get", "put"}, l # "get",
             InsideAt(l, x, o) <=> InsideAt(pc[t], op[t], o)
      PROVE  RefsSum(o)'
  <2>1. InSame(o, t, l, x) /\ GetSame(o, t, l, x)
    BY <1>6 DEF InSame, GetSame, GetAt
  <2> QED  BY <1>1, <1>6, <2>1, RefsStill
<1>7. CASE CallReturn(t) \/ \E i \in Slots : Call(t, i)
  <2>1. /\ pc[t] \in {"run", "call"} /\ slots' = slots /\ spent' = spent /\ refs' = refs
        /\ Goto(t, "run", Idle) \/ \E i \in Slots : Goto(t, "call", [Idle EXCEPT !.slot = i])
    BY <1>7 DEF CallReturn, Call, Return, objVars, history
  <2>2. ASSUME NEW l \in {"run", "call"}, NEW x, Goto(t, l, x)
        PROVE  RefsSum(o)'
    <3>1. InsideAt(l, x, o) <=> InsideAt(pc[t], op[t], o)
      BY <2>1, <2>2 DEF InsideAt
    <3> QED  BY <1>6, <2>1, <2>2, <3>1
  <2> QED  BY <2>1, <2>2
<1>8. CASE GrantReread(t)
  <2> DEFINE c == slots[op[t].from][op[t].slot]
             x == [op[t] EXCEPT !.rights = c.rights, !.slot = 0, !.life = Left(c), !.root = c.root]
  <2>1. /\ pc[t] = "reread" /\ (Goto(t, "run", Idle) \/ Goto(t, "install", x))
        /\ slots' = slots /\ spent' = spent /\ refs' = refs
    BY <1>8 DEF GrantReread, Return, objVars, history
  <2>2. ~op[t].mint /\ ~x.mint
    BY <1>1, <2>1 DEF Shape, Granting, Locals
  <2> HIDE DEF x
  <2>3. /\ ~InsideAt(pc[t], op[t], o) /\ ~InsideAt("run", Idle, o) /\ ~InsideAt("install", x, o)
    BY <2>1, <2>2 DEF InsideAt
  <2> QED  BY <1>6, <2>1, <2>3
<1>9. ASSUME NEW i \in Slots, NEW m \in Masks, NEW life \in Lifetimes, Derive(t, i, m, life)
      PROVE  RefsSum(o)'
  <2> DEFINE p == slots[t][i]
             x == [Idle EXCEPT !.obj = p.obj, !.to = t, !.root = p.root,
                     !.rights = m \cap p.rights, !.life = Smaller(life, Left(p))]
  <2>1. /\ pc[t] = "run" /\ Goto(t, "install", x)
        /\ slots' = slots /\ spent' = spent /\ refs' = refs
    BY <1>9 DEF Derive, objVars, history
  <2>2. ~x.mint
    BY IdleTyped DEF Locals
  <2> HIDE DEF x
  <2>3. /\ ~InsideAt(pc[t], op[t], o) /\ ~InsideAt("install", x, o)
    BY <2>1, <2>2 DEF InsideAt
  <2> QED  BY <1>6, <2>1, <2>3
<1>10. ASSUME NEW i \in Slots, NEW from \in Tasks, NEW to \in Tasks, GrantUse(t, from, to, i)
       PROVE  RefsSum(o)'
  <2> DEFINE c == slots[from][i]
             x == [Idle EXCEPT !.obj = c.obj, !.slot = i, !.from = from, !.to = to]
  <2>1. /\ pc[t] = "run" /\ Goto(t, "reread", x) /\ refs' = refs
        /\ c.valid /\ "grant" \in c.rights /\ Use(from, i)
    BY <1>10 DEF GrantUse, Usable, Allows, objVars
  <2>2. c.obj \notin Replies
    BY <2>1 DEF Base, ReplyOnce, ReplyInv, Held
  <2>3. slots' = slots /\ spent' = spent
    BY <2>1, <2>2 DEF Use, Base, ReplyOnce, OnceReplies
  <2> HIDE DEF x
  <2>4. ~InsideAt(pc[t], op[t], o) /\ ~InsideAt("reread", x, o)
    BY <2>1 DEF InsideAt
  <2> QED  BY <1>6, <2>1, <2>3, <2>4
<1>11. ASSUME NEW i \in Slots, NEW from \in Tasks, NEW need \in {{"use"}, {"grant"}}, Retires(t, from, i, need)
       PROVE  RefsSum(o)'
  <2>1. Retire(t, from, i, need) /\ Expired(slots[from][i], need) /\ pc[t] = "run"
    BY <1>11 DEF Retires, Retire
  <2>2. /\ slots[from][i].valid /\ slots' = [slots EXCEPT ![from][i] = Empty]
        /\ Goto(t, "put", [Idle EXCEPT !.obj = slots[from][i].obj])
        /\ refs' = refs /\ spent' = spent
    BY <2>1 DEF Retire, Expired, Allows, objVars, history
  <2> QED  BY <1>1, <2>1, <2>2, RefsCleared
<1>12. ASSUME NEW i \in Slots, Closes(t, i)
       PROVE  RefsSum(o)'
  <2>1. pc[t] \in {"run", "close"} /\ refs' = refs /\ spent' = spent
    BY <1>12 DEF Closes, objVars, history
  <2>2. CASE slots[t][i].valid
    <3>1. /\ slots' = [slots EXCEPT ![t][i] = Empty]
          /\ Goto(t, "put", [Idle EXCEPT !.obj = slots[t][i].obj])
      BY <1>12, <2>2 DEF Closes, CloseSlot
    <3> QED  BY <1>1, <2>1, <2>2, <3>1, RefsCleared
  <2>3. CASE ~slots[t][i].valid
    <3>1. slots' = slots /\ Goto(t, "run", Idle)
      BY <1>12, <2>3 DEF Closes, CloseSlot, Return
    <3>2. ~InsideAt(pc[t], op[t], o) /\ ~InsideAt("run", Idle, o)
      BY <2>1 DEF InsideAt
    <3> QED  BY <1>6, <2>1, <3>1, <3>2
  <2> QED  BY <2>2, <2>3
<1>13. ASSUME NEW i \in Slots, LookupUse(t, i)
       PROVE  RefsSum(o)'
  <2> DEFINE r == slots[t][i].obj
  <2>1. /\ pc[t] = "run" /\ slots[t][i].valid /\ r \in Replies /\ Use(t, i)
        /\ Goto(t, "close", [Idle EXCEPT !.slot = i]) \/ Goto(t, "run", Idle)
        /\ refs' = refs
    BY <1>13 DEF LookupUse, Usable, Allows, objVars, Return
  <2>2. Held(t, i, r) /\ ReplyInv(r)
    BY <2>1 DEF Base, ReplyOnce, Held
  <2>3. slots[t][i].once /\ <<t, r>> \notin spent
    BY <2>1, <2>2 DEF ReplyInv, Making, Unused
  <2>4. /\ ~slots'[t][i].valid
        /\ \A u \in Tasks, j \in Slots : u # t \/ j # i => slots'[u][j] = slots[u][j]
    BY <1>1, <2>1, <2>3, UseAt
  <2>5. spent' = spent \cup {<<t, r>>}
    BY <2>1, <2>3 DEF Use
  <2> HIDE DEF r
  <2>6. \A u \in Tasks : u # t => (<<u, o>> \in spent' <=> <<u, o>> \in spent)
    BY <2>5
  <2>7. ~Held(t, i, o)'
    BY <2>4 DEF Held
  <2>8. (Held(t, i, o) <=> r = o)
    BY <2>1 DEF Held, r
  <2>9. ASSUME NEW l \in {"close", "run"}, NEW x, Goto(t, l, x)
        PROVE  RefsSum(o)'
    <3>1. InSame(o, t, l, x) /\ GetSame(o, t, l, x)
      BY <2>1, <2>9 DEF InSame, InsideAt, GetSame, GetAt
    <3>2. CASE r = o
      <4>1. CapGoes(o, t, i) /\ SpentComes(o, t)
        BY <2>3, <2>5, <2>7, <2>8, <3>2, CapAtHeld DEF CapGoes, SpentComes
      <4> QED  BY <1>1, <2>1, <2>4, <2>6, <2>9, <3>1, <4>1, RefsMove DEF Settled
    <3>3. CASE r # o
      <4>1. CapSame(o, t, i) /\ SpentSame(o, t)
        BY <2>5, <2>7, <2>8, <3>3, CapAtHeld DEF CapSame, SpentSame
      <4> QED  BY <1>1, <2>1, <2>4, <2>6, <2>9, <3>1, <4>1, RefsMove DEF Settled
    <3> QED  BY <3>2, <3>3
  <2> QED  BY <2>1, <2>9
<1>14. CASE Install(t)
  <2>1. /\ op[t].to \in Tasks /\ pc[t] = "install" /\ op[t] \in Locals
        /\ refs' = refs /\ spent' = spent
    BY <1>1, <1>14 DEF Install, Shape, Granting, Types, objVars, history
  <2>2. CASE FreeSlots(op[t].to) = {}
    <3>1. slots' = slots /\ IF op[t].mint THEN Goto(t, "put", op[t]) ELSE Goto(t, "run", Idle)
      BY <1>14, <2>2 DEF Install, Return
    <3>2. CASE op[t].mint
      <4>1. InsideAt("put", op[t], o) <=> InsideAt(pc[t], op[t], o)
        BY <2>1, <3>2 DEF InsideAt
      <4> QED  BY <1>6, <2>1, <3>1, <3>2, <4>1
    <3>3. CASE ~op[t].mint
      <4>1. ~InsideAt("run", Idle, o) /\ ~InsideAt(pc[t], op[t], o)
        BY <2>1, <3>3 DEF InsideAt
      <4> QED  BY <1>6, <2>1, <3>1, <3>3, <4>1
    <3> QED  BY <3>2, <3>3
  <2>3. CASE FreeSlots(op[t].to) # {}
    <3> DEFINE c == [valid |-> TRUE, obj |-> op[t].obj, rights |-> op[t].rights,
                     gen |-> gen[op[t].obj], root |-> IF op[t].mint THEN gen[op[t].obj] ELSE op[t].root,
                     expiry |-> now + op[t].life, once |-> FALSE]
    <3>0. PICK v \in Tasks : v = op[t].to
      BY <2>1
    <3>1. PICK i \in FreeSlots(v) :
            /\ slots' = [slots EXCEPT ![v][i] = c]
            /\ Goto(t, "get", [op[t] EXCEPT !.slot = i])
      BY <1>14, <2>3, <3>0 DEF Install
    <3>2. i \in Slots /\ ~slots[v][i].valid /\ v \in Tasks
      BY <1>1, <2>1 DEF FreeSlots, Valid
    <3> DEFINE x == [op[t] EXCEPT !.slot = i]
    <3>3. x.obj = op[t].obj /\ (x.mint <=> op[t].mint)
      BY <2>1, <3>2, SlotTyped
    <3>4. c.obj = op[t].obj /\ c.valid
      OBVIOUS
    <3>5. slots' = [slots EXCEPT ![v][i] = c] /\ Goto(t, "get", x)
      BY <3>1
    <3> HIDE DEF c, x
    <3>6. /\ slots'[v][i] = c
          /\ \A u \in Tasks, k \in Slots : u # v \/ k # i => slots'[u][k] = slots[u][k]
      BY <1>1, <3>2, <3>5 DEF Types
    <3>7. ~Held(v, i, o) /\ (Held(v, i, o)' <=> op[t].obj = o)
      BY <3>2, <3>4, <3>6 DEF Held
    <3>8. InSame(o, t, "get", x) /\ SpentSame(o, t)
      BY <2>1, <3>3 DEF InSame, InsideAt, SpentSame
    <3>9. CASE op[t].obj = o
      <4>1. GetComes(o, t, "get", x)
        BY <2>1, <3>3, <3>9 DEF GetComes, GetAt
      <4>2. CapComes(o, v, i)
        BY <3>2, <3>7, <3>9, CapAtHeld DEF CapComes
      <4> QED  BY <1>1, <2>1, <3>5, <3>6, <3>8, <4>1, <4>2, RefsMove DEF Settled
    <3>10. CASE op[t].obj # o
      <4>1. GetSame(o, t, "get", x)
        BY <2>1, <3>3, <3>10 DEF GetSame, GetAt
      <4>2. CapSame(o, v, i)
        BY <3>2, <3>7, <3>10, CapAtHeld DEF CapSame
      <4> QED  BY <1>1, <2>1, <3>5, <3>6, <3>8, <4>1, <4>2, RefsMove DEF Settled
    <3> QED  BY <3>9, <3>10
  <2> QED  BY <2>2, <2>3
<1> QED
  BY <1>2, <1>3, <1>4, <1>5, <1>7, <1>8, <1>9, <1>10, <1>11, <1>12, <1>13, <1>14 DEF TaskStep

(* The reference counts stay numbers.                                      *)
LEMMA RefsTyped ==
  ASSUME refs \in [Objects -> Int], NEW t \in Tasks, TaskStep(t)
  PROVE  refs' \in [Objects -> Int]
<1>1. CASE Get(t) \/ Put(t)
  BY <1>1 DEF Get, Put
<1>2. ASSUME NEW n \in Objects, NEW life \in Lifetimes, Mint(t, n, life)
      PROVE  refs' \in [Objects -> Int]
  BY <1>2 DEF Mint
<1>3. CASE \/ Install(t) \/ Once(t) \/ CallReturn(t) \/ GrantReread(t)
           \/ \E i \in Slots : LookupUse(t, i) \/ Closes(t, i) \/ Call(t, i)
           \/ \E i \in Slots, m \in Masks, life \in Lifetimes : Derive(t, i, m, life)
           \/ \E i \in Slots, from \in Tasks, need \in {{"use"}, {"grant"}} : Retires(t, from, i, need)
           \/ \E i \in Slots, from, to \in Tasks : GrantUse(t, from, to, i)
  <2>1. refs' = refs
    BY <1>3 DEF Install, Once, CallReturn, GrantReread, LookupUse, Closes, Call, Derive,
                Retires, Retire, GrantUse, objVars
  <2> QED  BY <2>1
<1> QED  BY <1>1, <1>2, <1>3 DEF TaskStep

(* An object lives as long as something refers to it: the counts move on    *)
(* objects that were not released, and Put releases what reaches zero.      *)
LEMMA AliveStep ==
  ASSUME Base, Counted, NEW t \in Tasks, TaskStep(t), NEW o \in Objects
  PROVE  Alive(o)'
<1>1. Shape(t) /\ Alive(o) /\ refs \in [Objects -> Int] /\ freed \subseteq born
  BY DEF Base, Located, Types, Counted
<1>2. CASE refs' = refs /\ born' = born /\ freed' = freed
  BY <1>1, <1>2 DEF Alive
<1>3. CASE Get(t)
  <2> DEFINE p == op[t].obj
  <2>1. /\ refs' = [refs EXCEPT ![p] = refs[p] + 1] /\ p \in born \ freed /\ p \in Objects
        /\ born' = born /\ freed' = freed
    BY <1>1, <1>3 DEF Get, Shape, Granting, Base, Located, Types
  <2>2. refs[p] \in Nat
    BY <2>1 DEF Counted, Alive
  <2> HIDE DEF p
  <2>3. refs'[p] = refs[p] + 1 /\ (p # o => refs'[o] = refs[o])
    BY <1>1, <2>1, <2>2
  <2>4. CASE p = o
    BY <1>1, <2>1, <2>2, <2>3, <2>4 DEF Alive
  <2>5. CASE p # o
    BY <1>1, <2>1, <2>3, <2>5 DEF Alive
  <2> QED  BY <2>3, <2>4, <2>5
<1>4. CASE Put(t)
  <2> DEFINE p == op[t].obj
  <2>1. /\ refs' = [refs EXCEPT ![p] = refs[p] - 1] /\ p \in born \ freed /\ p \in Objects
        /\ born' = born /\ freed' = IF refs'[p] = 0 THEN freed \cup {p} ELSE freed
    BY <1>1, <1>4 DEF Put, Shape, Base, Located, Types
  <2>2. refs[p] \in Nat /\ refs[p] >= 1
    BY <2>1 DEF Counted, Alive
  <2> HIDE DEF p
  <2>3. refs'[p] = refs[p] - 1 /\ (p # o => refs'[o] = refs[o])
    BY <1>1, <2>1, <2>2
  <2>4. CASE p = o
    BY <1>1, <2>1, <2>2, <2>3, <2>4 DEF Alive
  <2>5. CASE p # o
    BY <1>1, <2>1, <2>3, <2>5 DEF Alive
  <2> QED  BY <2>3, <2>4, <2>5
<1>5. ASSUME NEW n \in Objects, NEW life \in Lifetimes, Mint(t, n, life)
      PROVE  Alive(o)'
  <2>1. /\ refs' = [refs EXCEPT ![n] = 1] /\ born' = born \cup {n} /\ freed' = freed
        /\ n \notin born
    BY <1>5 DEF Mint
  <2> QED  BY <1>1, <2>1 DEF Alive
<1>6. CASE \/ Install(t) \/ Once(t) \/ CallReturn(t) \/ GrantReread(t)
           \/ \E i \in Slots : LookupUse(t, i) \/ Closes(t, i) \/ Call(t, i)
           \/ \E i \in Slots, m \in Masks, life \in Lifetimes : Derive(t, i, m, life)
           \/ \E i \in Slots, from \in Tasks, need \in {{"use"}, {"grant"}} : Retires(t, from, i, need)
           \/ \E i \in Slots, from, to \in Tasks : GrantUse(t, from, to, i)
  BY <1>2, <1>6 DEF Install, Once, CallReturn, GrantReread, LookupUse, Closes, Call, Derive,
                    Retires, Retire, GrantUse, objVars
<1> QED  BY <1>3, <1>4, <1>5, <1>6 DEF TaskStep

(* cs->used of a space after a change of one of its slots: none, one filled, *)
(* one cleared, one used up.                                               *)
LEMMA UsedMove ==
  ASSUME NEW u \in Tasks, UsedSum(u), used[u] \in Nat, NEW i,
         \A j \in Slots : j # i => (j \in Valid(u) <=> j \in Valid(u)'),
         \/ /\ (i \in Valid(u) <=> i \in Valid(u)') /\ Spent(u)' = Spent(u) /\ used'[u] = used[u]
         \/ /\ i \notin Valid(u) /\ i \in Valid(u)' /\ Spent(u)' = Spent(u)
            /\ used'[u] = used[u] + 1
         \/ /\ i \in Valid(u) /\ i \notin Valid(u)' /\ Spent(u)' = Spent(u)
            /\ used[u] > 0 => used'[u] = used[u] - 1
         \/ /\ i \in Valid(u) /\ i \notin Valid(u)' /\ used'[u] = used[u]
            /\ \E r : r \notin Spent(u) /\ Spent(u)' = Spent(u) \cup {r}
  PROVE  UsedSum(u)' /\ used'[u] \in Nat
<1> DEFINE a == Cardinality(Valid(u))
           A == Cardinality(Valid(u)')
           b == Cardinality(Spent(u))
           B == Cardinality(Spent(u)')
<1>1. /\ a \in Nat /\ A \in Nat
      /\ (i \in Valid(u) <=> i \in Valid(u)') => A = a
      /\ i \notin Valid(u) /\ i \in Valid(u)' => A = a + 1
      /\ i \in Valid(u) /\ i \notin Valid(u)' => a = A + 1
  <2>1. IsFiniteSet(Slots)
    BY CapAssumption, FS_Interval DEF Slots
  <2>2. Valid(u) \in SUBSET Slots /\ Valid(u)' \in SUBSET Slots
    BY DEF Valid
  <2> QED  BY <2>1, <2>2, OneApart
<1>2. /\ b \in Nat /\ IsFiniteSet(Spent(u)) /\ used[u] = a + b
  BY FS_CardinalityType DEF UsedSum
<1>3. Spent(u)' = Spent(u) => B = b /\ IsFiniteSet(Spent(u)')
  BY <1>2
<1>4. ASSUME NEW r, r \notin Spent(u), Spent(u)' = Spent(u) \cup {r}
      PROVE  B = b + 1 /\ IsFiniteSet(Spent(u)')
  BY <1>2, <1>4, FS_AddElement
<1>5. UsedSum(u)' <=> IsFiniteSet(Spent(u)') /\ used'[u] = A + B
  BY DEF UsedSum
<1> HIDE DEF a, A, b, B
<1>6. IsFiniteSet(Spent(u)') /\ used'[u] = A + B /\ B \in Nat
  BY <1>1, <1>2, <1>3, <1>4
<1> QED  BY <1>1, <1>5, <1>6

(* The same for a step that changes slot i of space w at most.             *)
LEMMA UsedAt ==
  ASSUME Counted, used' \in [Tasks -> Int], NEW w \in Tasks, NEW i,
         \A u \in Tasks, j \in Slots : u # w \/ j # i => slots'[u][j].valid = slots[u][j].valid,
         \A u \in Tasks : u # w => Spent(u)' = Spent(u) /\ used'[u] = used[u],
         \/ /\ (i \in Valid(w) <=> i \in Valid(w)') /\ Spent(w)' = Spent(w) /\ used'[w] = used[w]
         \/ /\ i \notin Valid(w) /\ i \in Valid(w)' /\ Spent(w)' = Spent(w)
            /\ used'[w] = used[w] + 1
         \/ /\ i \in Valid(w) /\ i \notin Valid(w)' /\ Spent(w)' = Spent(w)
            /\ used[w] > 0 => used'[w] = used[w] - 1
         \/ /\ i \in Valid(w) /\ i \notin Valid(w)' /\ used'[w] = used[w]
            /\ \E r : r \notin Spent(w) /\ Spent(w)' = Spent(w) \cup {r}
  PROVE  used' \in [Tasks -> Nat] /\ \A u \in Tasks : UsedSum(u)'
<1>1. ASSUME NEW u \in Tasks
      PROVE  UsedSum(u)' /\ used'[u] \in Nat
  <2>1. UsedSum(u) /\ used[u] \in Nat
    BY DEF Counted
  <2>2. \A j \in Slots : u # w \/ j # i => (j \in Valid(u) <=> j \in Valid(u)')
    BY DEF Valid
  <2>3. CASE u = w
    BY <2>1, <2>2, <2>3, UsedMove
  <2>4. CASE u # w
    <3>1. i \in Valid(u) <=> i \in Valid(u)'
      BY <2>4 DEF Valid
    <3> QED  BY <2>1, <2>2, <2>4, <3>1, UsedMove
  <2> QED  BY <2>3, <2>4
<1> QED  BY <1>1

(* What the spaces count after a step of a task.                           *)
LEMMA UsedStep ==
  ASSUME Base, Counted, NEW t \in Tasks, TaskStep(t)
  PROVE  used' \in [Tasks -> Nat] /\ \A u \in Tasks : UsedSum(u)'
<1>1. Types /\ Shape(t) /\ op[t] \in Locals /\ used \in [Tasks -> Nat]
  BY DEF Base, Located, Types, Counted
<1>2. ASSUME spent' = spent
      PROVE  \A u \in Tasks : Spent(u)' = Spent(u)
  BY <1>2 DEF Spent
<1>3. ASSUME slots' = slots, used' = used, spent' = spent
      PROVE  used' \in [Tasks -> Nat] /\ \A u \in Tasks : UsedSum(u)'
  BY <1>3 DEF Counted, UsedSum, Valid, Spent
<1>4. ASSUME NEW w \in Tasks, NEW i \in Slots, slots[w][i].valid,
             slots' = [slots EXCEPT ![w][i] = Empty], spent' = spent,
             \/ used' = [used EXCEPT ![w] = @ - 1]
             \/ used' = [used EXCEPT ![w] = IF @ > 0 THEN @ - 1 ELSE 0]
      PROVE  used' \in [Tasks -> Nat] /\ \A u \in Tasks : UsedSum(u)'
  <2>0. /\ slots'[w][i] = Empty
        /\ \A u \in Tasks, j \in Slots : u # w \/ j # i => slots'[u][j] = slots[u][j]
    BY <1>1, <1>4 DEF Types
  <2>1. /\ ~slots'[w][i].valid
        /\ \A u \in Tasks, j \in Slots : u # w \/ j # i => slots'[u][j] = slots[u][j]
    BY <2>0, EmptyTyped
  <2>2. i \in Valid(w) /\ i \notin Valid(w)'
    BY <1>4, <2>1 DEF Valid
  <2>3. /\ used' \in [Tasks -> Int] /\ \A u \in Tasks : u # w => used'[u] = used[u]
        /\ used[w] > 0 => used'[w] = used[w] - 1
    BY <1>1, <1>4
  <2> QED  BY <1>2, <1>4, <2>1, <2>2, <2>3, UsedAt
<1>5. CASE Once(t)
  <2>0. PICK i \in Slots : i = op[t].slot
    BY <1>1, <1>5 DEF Once, Shape
  <2> DEFINE d == [slots[t][i] EXCEPT !.once = TRUE]
  <2>1. /\ slots' = [slots EXCEPT ![t][i] = d] /\ spent' = spent /\ used' = used
    BY <1>1, <1>5, <2>0 DEF Once, Types, history
  <2>2. d.valid <=> slots[t][i].valid
    BY <1>1, <2>1, OnceTyped DEF Types
  <2> HIDE DEF d
  <2>3. /\ slots'[t][i] = d
        /\ \A u \in Tasks, j \in Slots : u # t \/ j # i => slots'[u][j] = slots[u][j]
    BY <1>1, <2>1 DEF Types
  <2>4. i \in Valid(t) <=> i \in Valid(t)'
    BY <2>2, <2>3 DEF Valid
  <2>5. used' \in [Tasks -> Int]
    BY <1>1, <2>1
  <2> QED  BY <1>2, <2>1, <2>3, <2>4, <2>5, UsedAt
<1>6. ASSUME NEW i \in Slots, LookupUse(t, i)
      PROVE  used' \in [Tasks -> Nat] /\ \A u \in Tasks : UsedSum(u)'
  <2> DEFINE r == slots[t][i].obj
  <2>1. /\ pc[t] = "run" /\ slots[t][i].valid /\ r \in Replies /\ Use(t, i)
        /\ used' = used
    BY <1>6 DEF LookupUse, Usable, Allows
  <2>2. Held(t, i, r) /\ ReplyInv(r)
    BY <2>1 DEF Base, ReplyOnce, Held
  <2>3. slots[t][i].once /\ <<t, r>> \notin spent
    BY <2>1, <2>2 DEF ReplyInv, Making, Unused
  <2>4. /\ ~slots'[t][i].valid
        /\ \A u \in Tasks, j \in Slots : u # t \/ j # i => slots'[u][j] = slots[u][j]
    BY <1>1, <2>1, <2>3, UseAt
  <2>5. spent' = spent \cup {<<t, r>>}
    BY <2>1, <2>3 DEF Use
  <2>6. i \in Valid(t) /\ i \notin Valid(t)'
    BY <2>1, <2>4 DEF Valid
  <2> HIDE DEF r
  <2>7. r \notin Spent(t) /\ Spent(t)' = Spent(t) \cup {r}
    BY <2>1, <2>3, <2>5 DEF Spent
  <2>8. \A u \in Tasks : u # t => Spent(u)' = Spent(u)
    BY <2>5 DEF Spent
  <2>9. \E q : q \notin Spent(t) /\ Spent(t)' = Spent(t) \cup {q}
    BY <2>7
  <2>10. used' \in [Tasks -> Int]
    BY <1>1, <2>1
  <2> QED  BY <2>1, <2>4, <2>6, <2>8, <2>9, <2>10, UsedAt
<1>7. CASE Install(t)
  <2>1. /\ op[t].to \in Tasks /\ pc[t] = "install" /\ op[t] \in Locals /\ spent' = spent
    BY <1>1, <1>7 DEF Install, Shape, Granting, Types, history
  <2>2. CASE FreeSlots(op[t].to) = {}
    BY <1>3, <1>7, <2>1, <2>2 DEF Install
  <2>3. CASE FreeSlots(op[t].to) # {}
    <3> DEFINE c == [valid |-> TRUE, obj |-> op[t].obj, rights |-> op[t].rights,
                     gen |-> gen[op[t].obj], root |-> IF op[t].mint THEN gen[op[t].obj] ELSE op[t].root,
                     expiry |-> now + op[t].life, once |-> FALSE]
    <3>0. PICK v \in Tasks : v = op[t].to
      BY <2>1
    <3>1. PICK i \in FreeSlots(v) :
            /\ slots' = [slots EXCEPT ![v][i] = c] /\ used' = [used EXCEPT ![v] = @ + 1]
      BY <1>7, <2>3, <3>0 DEF Install
    <3>2. i \in Slots /\ i \notin Valid(v) /\ c.valid
      BY DEF FreeSlots
    <3>3. used' \in [Tasks -> Int] /\ used'[v] = used[v] + 1 /\ \A u \in Tasks : u # v => used'[u] = used[u]
      BY <1>1, <3>1
    <3>4. slots' = [slots EXCEPT ![v][i] = c]
      BY <3>1
    <3> HIDE DEF c
    <3>5. /\ slots'[v][i] = c
          /\ \A u \in Tasks, k \in Slots : u # v \/ k # i => slots'[u][k] = slots[u][k]
      BY <1>1, <3>2, <3>4 DEF Types
    <3>6. i \in Valid(v)'
      BY <3>2, <3>5 DEF Valid
    <3> QED  BY <1>2, <2>1, <3>2, <3>3, <3>5, <3>6, UsedAt
  <2> QED  BY <2>2, <2>3
<1>8. ASSUME NEW i \in Slots, NEW from \in Tasks, NEW need \in {{"use"}, {"grant"}}, Retires(t, from, i, need)
      PROVE  used' \in [Tasks -> Nat] /\ \A u \in Tasks : UsedSum(u)'
  <2>1. /\ slots[from][i].valid /\ slots' = [slots EXCEPT ![from][i] = Empty] /\ spent' = spent
        /\ used' = [used EXCEPT ![from] = @ - 1]
    BY <1>8 DEF Retires, Retire, Expired, Allows, history
  <2> QED  BY <1>4, <2>1
<1>9. ASSUME NEW i \in Slots, Closes(t, i)
      PROVE  used' \in [Tasks -> Nat] /\ \A u \in Tasks : UsedSum(u)'
  <2>1. spent' = spent
    BY <1>9 DEF Closes, history
  <2>2. CASE slots[t][i].valid
    BY <1>4, <1>9, <2>1, <2>2 DEF Closes, CloseSlot
  <2>3. CASE ~slots[t][i].valid
    BY <1>3, <1>9, <2>1, <2>3 DEF Closes, CloseSlot
  <2> QED  BY <2>2, <2>3
<1>10. ASSUME NEW i \in Slots, NEW from \in Tasks, NEW to \in Tasks, GrantUse(t, from, to, i)
       PROVE  used' \in [Tasks -> Nat] /\ \A u \in Tasks : UsedSum(u)'
  <2>1. /\ slots[from][i].valid /\ "grant" \in slots[from][i].rights /\ Use(from, i) /\ used' = used
    BY <1>10 DEF GrantUse, Usable, Allows
  <2>2. slots[from][i].obj \notin Replies
    BY <2>1 DEF Base, ReplyOnce, ReplyInv, Held
  <2>3. slots' = slots /\ spent' = spent
    BY <2>1, <2>2 DEF Use, Base, ReplyOnce, OnceReplies
  <2> QED  BY <1>3, <2>1, <2>3
<1>11. CASE \/ Get(t) \/ Put(t) \/ CallReturn(t) \/ GrantReread(t)
            \/ \E o \in Objects, life \in Lifetimes : Mint(t, o, life)
            \/ \E i \in Slots : Call(t, i)
            \/ \E i \in Slots, m \in Masks, life \in Lifetimes : Derive(t, i, m, life)
  BY <1>3, <1>11 DEF Get, Put, CallReturn, GrantReread, Mint, Call, Derive, history
<1> QED
  BY <1>5, <1>6, <1>7, <1>8, <1>9, <1>10, <1>11 DEF TaskStep

(* Every count is zero at first.                                           *)
LEMMA CountedInit == Init => Counted
<1> SUFFICES ASSUME Init
             PROVE  Counted
  OBVIOUS
<1>1. ASSUME NEW t \in Tasks
      PROVE  UsedSum(t)
  <2>1. Valid(t) = {} /\ Spent(t) = {} /\ used[t] = 0
    BY EmptyTyped DEF Init, Valid, Spent
  <2> QED  BY <2>1, FS_EmptySet DEF UsedSum
<1>2. ASSUME NEW o \in Objects
      PROVE  RefsSum(o) /\ Alive(o)
  <2>1. CapsOf(o) = {} /\ Inside(o) = {} /\ Getting(o) = {} /\ SpentBy(o) = {}
    BY EmptyTyped DEF Init, CapsOf, Inside, Getting, SpentBy
  <2>2. refs[o] = 0 /\ born = {}
    BY DEF Init
  <2> QED  BY <2>1, <2>2, FS_EmptySet DEF RefsSum, Alive
<1>3. used \in [Tasks -> Nat] /\ DOMAIN refs = Objects /\ refs \in [Objects -> Int]
  BY DEF Init
<1> QED  BY <1>1, <1>2, <1>3 DEF Counted

(* The counts are inductive over the types and the single use of replies.  *)
LEMMA CountedStep == Base /\ Counted /\ [Next]_vars => Counted'
<1> SUFFICES ASSUME Base, Counted, [Next]_vars
             PROVE  Counted'
  OBVIOUS
<1>1. ASSUME NEW t \in Tasks, TaskStep(t)
      PROVE  Counted'
  <2>1. used' \in [Tasks -> Nat] /\ \A u \in Tasks : UsedSum(u)'
    BY <1>1, UsedStep
  <2>2. \A o \in Objects : RefsSum(o)' /\ Alive(o)'
    BY <1>1, RefsStep, AliveStep
  <2>3. refs' \in [Objects -> Int]
    BY <1>1, RefsTyped DEF Counted
  <2> QED  BY <2>1, <2>2, <2>3 DEF Counted
<1>2. CASE (\E o \in Files : Revoke(o)) \/ Tick \/ UNCHANGED vars
  <2>1. UNCHANGED <<slots, used, refs, born, freed, timed, pc, op, hits, spent>>
    BY <1>2, BaseWorld
  <2>2. ASSUME NEW u \in Tasks
        PROVE  UsedSum(u)'
    <3>1. UsedSum(u) /\ Valid(u)' = Valid(u) /\ Spent(u)' = Spent(u)
      BY <2>1 DEF Counted, Valid, Spent
    <3> QED  BY <2>1, <3>1 DEF UsedSum
  <2>3. ASSUME NEW o \in Objects
        PROVE  RefsSum(o)' /\ Alive(o)'
    <3>1. RefsSum(o) /\ Alive(o)
      BY DEF Counted
    <3>2. CapsOf(o)' = CapsOf(o) /\ SpentBy(o)' = SpentBy(o)
      BY <2>1 DEF CapsOf, SpentBy
    <3>3. Inside(o)' = Inside(o) /\ Getting(o)' = Getting(o)
      BY <2>1 DEF Inside, Getting
    <3>4. RefsSum(o)'
      BY <2>1, <3>1, <3>2, <3>3 DEF RefsSum
    <3> QED  BY <2>1, <3>1, <3>4 DEF Alive
  <2>4. used' = used /\ refs' = refs
    BY <2>1
  <2> QED  BY <2>2, <2>3, <2>4 DEF Counted
<1> QED  BY <1>1, <1>2, NextCases DEF Base

(* The counts of references and of slots balance, for any finite number of  *)
(* tasks: cap_object_put releases an object exactly when no slot, no call   *)
(* on its way and no used-up reply capability refers to it.                *)
THEOREM ReferencesBalance == Spec => []RefsCounted
<1>1. Counted => RefsCounted
  BY DEF Counted, UsedSum, RefsSum, RefsCounted, Spent, CapsOf, Inside, Getting, SpentBy
<1> QED  BY <1>1, BaseInit, BaseStep, CountedInit, CountedStep, PTL DEF Spec

(* The type invariant of the spaces: a valid slot holds an object that was  *)
(* created, with a generation it has had, and no count is negative.        *)
THEOREM CapTypeCorrect == Spec => []TypeOK
<1>1. Base /\ Counted => TypeOK
  <2> SUFFICES ASSUME Base, Counted
               PROVE  TypeOK
    OBVIOUS
  <2>1. used \in [Tasks -> Nat] /\ refs \in [Objects -> Nat]
    BY DEF Counted, Alive
  <2>2. \A t \in Tasks : /\ pc[t] \in {"reread", "install", "get", "put"} => op[t].obj \in born
                         /\ pc[t] = "install" => op[t].life > 0
    BY DEF Base, Located, Shape, Granting
  <2>3. Types /\ \A t \in Tasks : \A i \in Valid(t) :
                   slots[t][i].obj \in born /\ slots[t][i].gen \in 1..gen[slots[t][i].obj]
    BY DEF Base, Located, Types, Valid
  <2> QED  BY <2>1, <2>2, <2>3 DEF Types, Places, TypeOK
<1> QED  BY <1>1, BaseInit, BaseStep, CountedInit, CountedStep, PTL DEF Spec
-----------------------------------------------------------------------------
(* What is being installed comes from a slot that stays: the slot a grant   *)
(* or a derivation looked at, beside the one it filled.                    *)
Source(t) == IF op[t].from = None THEN t ELSE op[t].from

Anchored(t) ==
  /\ pc[t] = "get" => Held(op[t].to, op[t].slot, op[t].obj)
  /\ pc[t] \in Granting /\ ~op[t].mint =>
       \E i \in Slots : /\ Held(Source(t), i, op[t].obj)
                        /\ pc[t] = "get" => Source(t) # op[t].to \/ i # op[t].slot

Anchors == \A t \in Tasks : Anchored(t)

(* A step of a task leaves every other grant its slots, and its own.       *)
LEMMA AnchorsStep ==
  ASSUME Base, timed = {}, Exclusive, Anchors, NEW t \in Tasks, TaskStep(t)
  PROVE  Anchors'
<1>1. Types /\ Shape(t) /\ op[t] \in Locals /\ Anchored(t)
  BY DEF Base, Located, Types, Anchors
<1>2. ASSUME NEW u \in Tasks, u # t
      PROVE  Anchored(u)'
  <2>1. pc'[u] = pc[u] /\ op'[u] = op[u] /\ Anchored(u) /\ Shape(u)
    BY <1>2, TaskMoves DEF Anchors, Base, Located
  <2>2. CASE pc[u] \in Granting
    <3>1. op[u].to \in Tasks /\ Source(u) \in Tasks /\ (pc[u] = "get" => op[u].slot \in Slots)
      BY <2>1, <2>2 DEF Shape, Source
    <3>2. \A j \in Slots : /\ slots'[op[u].to][j] = slots[op[u].to][j]
                           /\ slots'[Source(u)][j] = slots[Source(u)][j]
      BY <1>2, <2>2, <3>1, Undisturbed DEF Source
    <3>3. Source(u)' = Source(u)
      BY <2>1 DEF Source
    <3> QED  BY <2>1, <2>2, <3>1, <3>2, <3>3 DEF Anchored, Held
  <2>3. CASE pc[u] \notin Granting
    BY <2>1, <2>3 DEF Anchored, Granting
  <2> QED  BY <2>2, <2>3
<1> DEFINE Goal == Anchored(t)'
<1>3. ASSUME NEW l, NEW x, Goto(t, l, x), l \notin Granting \/ (l = "install" /\ x.mint)
      PROVE  Goal
  BY <1>1, <1>3, GotoAt DEF Anchored, Granting
<1>4. ASSUME NEW l, NEW x, Goto(t, l, x), l # "get", NEW s \in Tasks, NEW i \in Slots,
             s = IF x.from = None THEN t ELSE x.from,
             slots'[s][i].valid, slots'[s][i].obj = x.obj
      PROVE  Goal
  <2>1. pc'[t] = l /\ op'[t] = x
    BY <1>1, <1>4, GotoAt
  <2>2. Source(t)' = s
    BY <1>4, <2>1 DEF Source
  <2> QED  BY <1>4, <2>1, <2>2 DEF Anchored, Held
<1> HIDE DEF Goal
<1>5. ASSUME Install(t)
      PROVE  Goal
  <2>1. op[t].to \in Tasks /\ pc[t] = "install" /\ Source(t) \in Tasks
    BY <1>1, <1>5 DEF Install, Shape, Granting, Source
  <2>2. CASE FreeSlots(op[t].to) = {}
    <3>1. Goto(t, "put", op[t]) \/ Goto(t, "run", Idle)
      BY <1>5, <2>2 DEF Install, Return
    <3> QED  BY <1>3, <3>1 DEF Granting
  <2>3. CASE FreeSlots(op[t].to) # {}
    <3> DEFINE c == [valid |-> TRUE, obj |-> op[t].obj, rights |-> op[t].rights,
                     gen |-> gen[op[t].obj], root |-> IF op[t].mint THEN gen[op[t].obj] ELSE op[t].root,
                     expiry |-> now + op[t].life, once |-> FALSE]
               v == op[t].to
    <3>1. PICK i \in FreeSlots(v) :
            /\ slots' = [slots EXCEPT ![v][i] = c]
            /\ Goto(t, "get", [op[t] EXCEPT !.slot = i])
      BY <1>5, <2>3 DEF Install
    <3>2. i \in Slots /\ ~slots[v][i].valid /\ v \in Tasks
      BY <1>1, <2>1 DEF FreeSlots, Valid
    <3> DEFINE x == [op[t] EXCEPT !.slot = i]
    <3>3. /\ x.obj = op[t].obj /\ (x.mint <=> op[t].mint) /\ x.slot = i
          /\ x.to = v /\ x.from = op[t].from
      BY <1>1, <3>2, SlotTyped
    <3>4. c.obj = op[t].obj /\ c.valid
      OBVIOUS
    <3>5. slots' = [slots EXCEPT ![v][i] = c] /\ Goto(t, "get", x)
      BY <3>1
    <3>6. v = op[t].to
      OBVIOUS
    <3> HIDE DEF c, v, x
    <3>7. /\ slots'[v][i] = c
          /\ \A u \in Tasks, k \in Slots : u # v \/ k # i => slots'[u][k] = slots[u][k]
      BY <1>1, <3>2, <3>5 DEF Types
    <3>8. pc'[t] = "get" /\ op'[t] = x /\ Source(t)' = Source(t)
      BY <1>1, <3>3, <3>5, GotoAt DEF Source
    <3>9. slots'[op'[t].to][op'[t].slot].valid /\ slots'[op'[t].to][op'[t].slot].obj = op'[t].obj
      BY <3>3, <3>4, <3>7, <3>8
    <3>10. ASSUME ~op[t].mint
           PROVE  \E k \in Slots : /\ slots'[Source(t)][k].valid /\ slots'[Source(t)][k].obj = op[t].obj
                                   /\ Source(t) # v \/ k # i
      <4>1. PICK k \in Slots : slots[Source(t)][k].valid /\ slots[Source(t)][k].obj = op[t].obj
        BY <1>1, <2>1, <3>10 DEF Anchored, Granting, Held
      <4>2. Source(t) # v \/ k # i
        BY <3>2, <4>1
      <4> QED  BY <2>1, <3>7, <4>1, <4>2
    <3> QED  BY <3>3, <3>8, <3>9, <3>10 DEF Goal, Anchored, Held
  <2> QED  BY <2>2, <2>3
<1>6. ASSUME Get(t) \/ Put(t) \/ Once(t) \/ CallReturn(t)
      PROVE  Goal
  <2>1. Goto(t, "put", op[t]) \/ Goto(t, "run", Idle) \/ Goto(t, "once", op[t])
    BY <1>6 DEF Get, Put, Once, CallReturn, Return
  <2> QED  BY <1>3, <2>1 DEF Granting
<1>7. ASSUME GrantReread(t)
      PROVE  Goal
  <2> DEFINE c == slots[op[t].from][op[t].slot]
             x == [op[t] EXCEPT !.rights = c.rights, !.slot = 0, !.life = Left(c), !.root = c.root]
  <2>1. pc[t] = "reread" /\ (Goto(t, "run", Idle) \/ Goto(t, "install", x)) /\ slots' = slots
    BY <1>7 DEF GrantReread, Return
  <2>2. x.obj = op[t].obj /\ x.from = op[t].from
    BY <1>1 DEF Locals
  <2>3. ~op[t].mint /\ Source(t) \in Tasks
    BY <1>1, <2>1 DEF Shape, Granting, Source
  <2> HIDE DEF x
  <2>4. PICK s \in Tasks : s = Source(t)
    BY <2>3
  <2>5. PICK i \in Slots : slots[s][i].valid /\ slots[s][i].obj = op[t].obj
    BY <1>1, <2>1, <2>3, <2>4 DEF Anchored, Granting, Held
  <2>6. s = IF x.from = None THEN t ELSE x.from
    BY <2>2, <2>4 DEF Source
  <2>7. slots'[s][i].valid /\ slots'[s][i].obj = x.obj
    BY <2>1, <2>2, <2>5
  <2> QED  BY <1>3, <1>4, <2>1, <2>6, <2>7 DEF Granting
<1>8. ASSUME NEW n \in Objects, NEW life \in Lifetimes, Mint(t, n, life)
      PROVE  Goal
  <2> DEFINE r == IF n \in Files THEN Roots[n] ELSE {"use"}
             x == [Idle EXCEPT !.obj = n, !.to = t, !.life = life, !.mint = TRUE, !.rights = r]
  <2>1. Goto(t, "install", x)
    BY <1>8 DEF Mint
  <2>2. x.mint
    BY IdleTyped DEF Locals
  <2> HIDE DEF x
  <2> QED  BY <1>3, <2>1, <2>2
<1>9. ASSUME NEW i \in Slots, NEW m \in Masks, NEW life \in Lifetimes, Derive(t, i, m, life)
      PROVE  Goal
  <2> DEFINE p == slots[t][i]
             x == [Idle EXCEPT !.obj = p.obj, !.to = t, !.root = p.root,
                     !.rights = m \cap p.rights, !.life = Smaller(life, Left(p))]
  <2>1. Goto(t, "install", x) /\ p.valid /\ slots' = slots
    BY <1>9 DEF Derive
  <2>2. x.obj = p.obj /\ x.from = None
    BY IdleTyped DEF Locals
  <2>3. slots'[t][i].valid /\ slots'[t][i].obj = x.obj
    BY <2>1, <2>2
  <2> HIDE DEF x, p
  <2> QED  BY <1>4, <2>1, <2>2, <2>3
<1>10. ASSUME NEW i \in Slots, LookupUse(t, i) \/ Closes(t, i) \/ Call(t, i)
       PROVE  Goal
  <2>1. \/ Goto(t, "close", [Idle EXCEPT !.slot = i]) \/ Goto(t, "run", Idle)
        \/ Goto(t, "put", [Idle EXCEPT !.obj = slots[t][i].obj])
        \/ Goto(t, "call", [Idle EXCEPT !.slot = i])
    BY <1>10 DEF LookupUse, Closes, CloseSlot, Call, Return
  <2> QED  BY <1>3, <2>1 DEF Granting
<1>11. ASSUME NEW i \in Slots, NEW from \in Tasks, NEW need \in {{"use"}, {"grant"}}, Retires(t, from, i, need)
       PROVE  Goal
  <2>1. Goto(t, "put", [Idle EXCEPT !.obj = slots[from][i].obj])
    BY <1>11 DEF Retires, Retire
  <2> QED  BY <1>3, <2>1 DEF Granting
<1>12. ASSUME NEW i \in Slots, NEW from \in Tasks, NEW to \in Tasks, GrantUse(t, from, to, i)
       PROVE  Goal
  <2> DEFINE c == slots[from][i]
             x == [Idle EXCEPT !.obj = c.obj, !.slot = i, !.from = from, !.to = to]
  <2>1. Goto(t, "reread", x) /\ c.valid /\ "grant" \in c.rights /\ Use(from, i)
    BY <1>12 DEF GrantUse, Usable, Allows
  <2>2. c.obj \notin Replies
    BY <2>1 DEF Base, ReplyOnce, ReplyInv, Held
  <2>3. slots' = slots
    BY <2>1, <2>2 DEF Use, Base, ReplyOnce, OnceReplies
  <2>4. x.obj = c.obj /\ x.from = from /\ from # None
    BY IdleTyped, CapAssumption DEF Locals
  <2>5. slots'[from][i].valid /\ slots'[from][i].obj = x.obj
    BY <2>1, <2>3, <2>4
  <2> HIDE DEF x, c
  <2> QED  BY <1>4, <2>1, <2>4, <2>5
<1>13. Goal
  BY <1>5, <1>6, <1>7, <1>8, <1>9, <1>10, <1>11, <1>12 DEF TaskStep
<1> QED  BY <1>2, <1>13 DEF Anchors, Goal

(* An object that a slot, an installation or a put refers to has a          *)
(* reference: every installation that has filled a slot and still has to    *)
(* take its reference has the slot it was made from beside it.             *)
LEMMA Referenced ==
  ASSUME Base, Counted, Exclusive, Anchors, NEW o \in Objects,
         \/ Inside(o) # {}
         \/ \E w \in Tasks, i \in Slots : Held(w, i, o)
  PROVE  refs[o] >= 1
<1> DEFINE f == [t \in Getting(o) |-> <<op[t].to, op[t].slot>>]
           C == CapsOf(o)
           G == Getting(o)
<1>1. IsFiniteSet(C) /\ IsFiniteSet(G) /\ IsFiniteSet(Inside(o)) /\ IsFiniteSet(SpentBy(o))
  <2>1. IsFiniteSet(Slots)
    BY CapAssumption, FS_Interval DEF Slots
  <2>2. IsFiniteSet(Tasks \X Slots) /\ IsFiniteSet(Tasks)
    BY <2>1, CapAssumption, FS_Product
  <2>3. C \subseteq Tasks \X Slots /\ G \subseteq Tasks /\ Inside(o) \subseteq Tasks /\ SpentBy(o) \subseteq Tasks
    BY DEF CapsOf, Getting, Inside, SpentBy
  <2> QED  BY <2>2, <2>3, FS_Subset
<1>2. ASSUME NEW t \in G
      PROVE  t \in Tasks /\ pc[t] = "get" /\ op[t].obj = o /\ f[t] \in C /\ Anchored(t) /\ Shape(t)
  <2>1. t \in Tasks /\ pc[t] = "get" /\ op[t].obj = o /\ Anchored(t) /\ Shape(t)
    BY DEF Getting, Anchors, Base, Located
  <2>2. op[t].to \in Tasks /\ op[t].slot \in Slots /\ Held(op[t].to, op[t].slot, o)
    BY <2>1 DEF Anchored, Shape, Granting
  <2> QED  BY <2>1, <2>2 DEF CapsOf, Held
<1>3. ASSUME NEW c \in Tasks, NEW t \in G, NEW u \in G, c \in {op[t].from, op[t].to}, c = op[u].to, c # t
      PROVE  u = t
  <2>0. t \in Tasks /\ pc[t] = "get" /\ u \in Tasks /\ pc[u] = "get"
    BY <1>2
  <2> HIDE DEF G
  <2>1. t \in Serving(c)
    BY <1>3, <2>0 DEF Serving
  <2>2. pc[c] = "call"
    BY <2>0, <2>1 DEF Exclusive
  <2>3. u \in Serving(c)
    BY <1>3, <2>0, <2>2 DEF Serving
  <2> QED  BY <2>0, <2>1, <2>3 DEF Exclusive
<1>4. ASSUME NEW t \in G, NEW u \in G, f[t] = f[u]
      PROVE  t = u
  <2>1. op[t].to = op[u].to /\ op[t].to \in Tasks
    BY <1>2, <1>4 DEF Shape, Granting
  <2> QED  BY <1>3, <2>1
<1> HIDE DEF f
<1>5. ASSUME NEW T \in SUBSET C, \A t \in G : f[t] \in T
      PROVE  Cardinality(G) <= Cardinality(T) /\ IsFiniteSet(T)
  <2>1. IsFiniteSet(T)
    BY <1>1, FS_Subset
  <2>2. f \in [G -> T] /\ DOMAIN f = G
    BY <1>5 DEF f
  <2>3. f \in Injection(G, T)
    BY <1>4, <2>2 DEF Injection, IsInjective
  <2> QED  BY <2>1, <2>3, FS_Injection
<1>6. /\ Cardinality(C) \in Nat /\ Cardinality(G) \in Nat
      /\ Cardinality(Inside(o)) \in Nat /\ Cardinality(SpentBy(o)) \in Nat
  BY <1>1, FS_CardinalityType
<1>7. refs[o] = Cardinality(C) + Cardinality(Inside(o)) - Cardinality(G) + Cardinality(SpentBy(o))
  BY DEF Counted, RefsSum
<1>8. CASE Inside(o) # {}
  <2>1. Cardinality(Inside(o)) # 0
    BY <1>1, <1>8, FS_EmptySet
  <2>2. Cardinality(G) <= Cardinality(C)
    BY <1>2, <1>5
  <2> HIDE DEF C, G
  <2> QED  BY <1>6, <1>7, <2>1, <2>2
<1>9. CASE Inside(o) = {}
  <2>1. PICK w \in Tasks, i \in Slots : Held(w, i, o)
    BY <1>9
  <2>2. \E s \in C : \A t \in G : f[t] # s
    <3>1. CASE \A t \in G : f[t] # <<w, i>>
      BY <2>1, <3>1 DEF CapsOf, Held
    <3>2. ASSUME NEW t \in G, f[t] = <<w, i>>
          PROVE  \E s \in C : \A u \in G : f[u] # s
      <4>1. t \in Tasks /\ pc[t] = "get" /\ op[t].obj = o /\ Anchored(t) /\ Shape(t)
        BY <1>2
      <4>2. ~op[t].mint
        BY <1>9, <4>1 DEF Inside
      <4>3. PICK k \in Slots : Held(Source(t), k, o) /\ (Source(t) # op[t].to \/ k # op[t].slot)
        BY <4>1, <4>2 DEF Anchored, Granting
      <4>4. Source(t) \in Tasks
        BY <4>1 DEF Source, Shape, Granting
      <4>5. <<Source(t), k>> \in C
        BY <4>3, <4>4 DEF CapsOf, Held
      <4>6. ASSUME NEW u \in G, f[u] = <<Source(t), k>>
            PROVE  FALSE
        <5>1. op[u].to = Source(t) /\ op[u].slot = k
          BY <4>6 DEF f
        <5>2. u # t
          BY <4>3, <5>1
        <5>3. CASE Source(t) = t
          <6>1. u \in Serving(t)
            BY <1>2, <4>1, <5>1, <5>2, <5>3 DEF Serving
          <6> QED  BY <1>2, <4>1, <6>1 DEF Exclusive
        <5>4. CASE Source(t) # t
          BY <1>3, <4>4, <5>1, <5>2, <5>4 DEF Source
        <5> QED  BY <5>3, <5>4
      <4> QED  BY <4>5, <4>6
    <3> QED  BY <3>1, <3>2
  <2>3. PICK s \in C : \A t \in G : f[t] # s
    BY <2>2
  <2>4. Cardinality(G) <= Cardinality(C \ {s})
    BY <1>2, <1>5, <2>3
  <2>5. Cardinality(C \ {s}) = Cardinality(C) - 1
    BY <1>1, FS_RemoveElement
  <2> HIDE DEF C, G
  <2> QED  BY <1>6, <1>7, <2>4, <2>5
<1> QED  BY <1>8, <1>9

AliveInv == CapInv /\ Counted /\ (timed = {} => Anchors)

(* The objects' counts and the slots of grants are inductive together.     *)
LEMMA AliveInvStep == AliveInv /\ [Next]_vars => AliveInv'
<1> SUFFICES ASSUME AliveInv, [Next]_vars
             PROVE  AliveInv'
  OBVIOUS
<1>1. CapInv' /\ Counted'
  BY CapStep, CountedStep DEF AliveInv, CapInv
<1>2. ASSUME NEW t \in Tasks, TaskStep(t)
      PROVE  timed' = timed
  BY <1>2 DEF TaskStep, Install, Get, Put, Once, CallReturn, GrantReread, Mint, LookupUse, Closes,
              Call, Derive, Retires, Retire, GrantUse, env
<1>3. ASSUME NEW t \in Tasks, TaskStep(t)
      PROVE  timed' = {} => Anchors'
  BY <1>2, <1>3, AnchorsStep DEF AliveInv, CapInv
<1>4. CASE (\E o \in Files : Revoke(o)) \/ Tick \/ UNCHANGED vars
  <2>1. UNCHANGED <<slots, timed, pc, op>>
    BY <1>4, BaseWorld DEF AliveInv, CapInv
  <2> QED  BY <1>1, <2>1 DEF AliveInv, Anchors, Anchored, Held, Source
<1> QED  BY <1>1, <1>3, <1>4, NextCases DEF AliveInv, CapInv, Base

(* No slot and no call holds an object that was released, for any finite   *)
(* number of tasks, as long as clients wait for their call: between the    *)
(* unlock and the reference of cap_install the object has another.         *)
THEOREM ObjectsAlive == Spec => []ObjectAlive
<1>1. Init => AliveInv
  BY CapInit, CountedInit DEF AliveInv, Anchors, Anchored, Granting, Init
<1>2. AliveInv => ObjectAlive
  <2> SUFFICES ASSUME AliveInv, timed = {}, NEW t \in Tasks
               PROVE  /\ \A i \in Valid(t) : slots[t][i].obj \notin freed
                      /\ pc[t] \in {"reread", "install", "get", "put"} => op[t].obj \notin freed
    BY DEF ObjectAlive
  <2>1. Base /\ Counted /\ Exclusive /\ Anchors /\ Types /\ Shape(t) /\ Anchored(t)
    BY DEF AliveInv, CapInv, Base, Located, Anchors
  <2>2. \A o \in Objects : refs[o] >= 1 => o \notin freed
    BY <2>1 DEF Counted, Alive
  <2>3. ASSUME NEW i \in Valid(t)
        PROVE  slots[t][i].obj \notin freed
    <3>1. slots[t][i].obj \in Objects /\ i \in Slots /\ Held(t, i, slots[t][i].obj)
      BY <2>1 DEF Valid, Types, Held
    <3> QED  BY <2>1, <2>2, <3>1, Referenced
  <2>4. ASSUME pc[t] \in {"reread", "install", "get", "put"}
        PROVE  op[t].obj \notin freed
    <3>1. op[t].obj \in Objects
      BY <2>1, <2>4 DEF Shape, Granting, Types
    <3>2. CASE pc[t] = "put" \/ op[t].mint
      <4>1. t \in Inside(op[t].obj)
        BY <2>1, <2>4, <3>2 DEF Inside, Shape, Granting
      <4> QED  BY <2>1, <2>2, <3>1, <4>1, Referenced
    <3>3. CASE pc[t] # "put" /\ ~op[t].mint
      <4>1. Source(t) \in Tasks /\ \E i \in Slots : Held(Source(t), i, op[t].obj)
        BY <2>1, <2>4, <3>3 DEF Anchored, Granting, Source, Shape
      <4> QED  BY <2>1, <2>2, <3>1, <4>1, Referenced
    <3> QED  BY <3>2, <3>3
  <2> QED  BY <2>3, <2>4
<1> QED  BY <1>1, <1>2, AliveInvStep, PTL DEF Spec
=============================================================================
