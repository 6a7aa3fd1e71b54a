---------------------------------- MODULE Cap ----------------------------------
(***************************************************************************)
(* Capability spaces of kernel/cap/cap.c, with the two callers that make   *)
(* its calls meet: a system call that mints an object and installs it, and *)
(* the message delivery of kernel/ipc/ipc.c, which grants a capability out *)
(* of the space of a client that waits in rk_ipc_call.                     *)
(*                                                                         *)
(* A task has one thread and one space.  A call is the sequence of its     *)
(* critical sections: op holds the locals it carries from one to the next. *)
(***************************************************************************)
EXTENDS Integers, FiniteSets

CONSTANTS Tasks,
          NSlots,    \* the slots a space may grow to, CAPSPACE_MAX_SLOTS
          Files,     \* the objects that are opened with rights of their own
          Replies,   \* the objects of single-use reply capabilities
          Writable,  \* the files opened for writing
          Endpoints, \* the files that are endpoints
          Masks,     \* the rights callers ask for
          MayTime,   \* the tasks that may pass a timeout to rk_ipc_call
          Lifetimes, \* the lifetimes callers ask for
          MaxTime,   \* bound: the clock
          MaxGen,    \* bound: generation of an object
          None

Objects == Files \cup Replies
Slots   == 1..NSlots
Rights  == {"use", "write", "grant", "derive"}

ASSUME CapAssumption == /\ NSlots \in Nat /\ MaxTime \in Nat /\ MaxGen \in Nat \ {0}
                        /\ Files \cap Replies = {} /\ None \notin Objects \cup Tasks
                        /\ IsFiniteSet(Tasks)
                        /\ Masks \subseteq SUBSET Rights /\ MayTime \subseteq Tasks
                        /\ Lifetimes \subseteq Nat \ {0}

(* The rights an object is installed with: the open mode of a file, what   *)
(* SYS_ENDPOINT_CREATE asks for an endpoint.                               *)
Roots == [o \in Files |-> {"use"} \cup {r \in Rights :
            \/ r = "write" /\ o \in Writable
            \/ r \in {"grant", "derive"} /\ o \in Endpoints}]

VARIABLES
  slots,  \* task -> slot -> capability
  used,   \* task -> cs->used
  gen,    \* object -> generation
  refs,   \* object -> refcount
  born,   \* the objects that were created
  freed,  \* the objects that were released
  now,    \* rk_unix_time()
  timed,  \* the tasks that do pass a timeout
  pc,     \* task -> where its thread is
  op,     \* task -> the locals of its call
  hits,   \* object -> the lookups that returned it (history, reply objects)
  spent   \* task and reply object: its capability was used up (history)

vars == <<slots, used, gen, refs, born, freed, now, timed, pc, op, hits, spent>>

Empty == [valid |-> FALSE, obj |-> None, rights |-> {}, gen |-> 0,
          root |-> 0, expiry |-> 0, once |-> FALSE]
Idle  == [obj |-> None, rights |-> {}, life |-> 0, root |-> 0,
          from |-> None, to |-> None, slot |-> 0, mint |-> FALSE]

(* Field root is history: the generation of the object when the authority  *)
(* the capability comes from was minted.                                   *)
Capabilities == [valid : BOOLEAN, obj : Objects \cup {None}, rights : SUBSET Rights,
                 gen : 0..MaxGen, root : 0..MaxGen, expiry : Nat, once : BOOLEAN]
Locals == [obj : Objects \cup {None}, rights : SUBSET Rights, life : Int, root : 0..MaxGen,
           from : Tasks \cup {None}, to : Tasks \cup {None},
           slot : 0..NSlots, mint : BOOLEAN]

Valid(t) == {i \in Slots : slots[t][i].valid}

TypeOK == /\ slots \in [Tasks -> [Slots -> Capabilities]]
          /\ \A t \in Tasks : \A i \in Valid(t) :
               slots[t][i].obj \in born /\ slots[t][i].gen \in 1..gen[slots[t][i].obj]
          /\ used \in [Tasks -> Nat] /\ refs \in [Objects -> Nat]
          /\ gen \in [Objects -> 1..MaxGen] /\ now \in 0..MaxTime
          /\ born \subseteq Objects /\ freed \subseteq born
          /\ pc \in [Tasks -> {"run", "call", "reread", "install", "get", "put",
                               "once", "close"}]
          /\ op \in [Tasks -> Locals]
          /\ timed \subseteq MayTime
          /\ \A t \in Tasks : /\ pc[t] \in {"reread", "install", "get", "put"} => op[t].obj \in born
                              /\ pc[t] = "install" => op[t].life > 0
          /\ hits \in [Replies -> Nat] /\ spent \subseteq Tasks \X Replies

Init == /\ slots = [t \in Tasks |-> [i \in Slots |-> Empty]]
        /\ used = [t \in Tasks |-> 0]
        /\ gen = [o \in Objects |-> 1] /\ refs = [o \in Objects |-> 0]
        /\ born = {} /\ freed = {} /\ now = 0 /\ timed \in SUBSET MayTime
        /\ pc = [t \in Tasks |-> "run"] /\ op = [t \in Tasks |-> Idle]
        /\ hits = [o \in Replies |-> 0] /\ spent = {}

Goto(t, l, locals) == pc' = [pc EXCEPT ![t] = l] /\ op' = [op EXCEPT ![t] = locals]
Return(t)          == Goto(t, "run", Idle)
objVars == <<gen, refs, born, freed>>
env     == <<now, timed>>
history == <<hits, spent>>
-----------------------------------------------------------------------------
FreeSlots(t) == Slots \ Valid(t)

(* cap_install: the first free slot is filled under the lock of the space; *)
(* a full space refuses.                                                   *)
Install(t) ==
  /\ pc[t] = "install"
  /\ LET o == op[t] IN
       \/ /\ FreeSlots(o.to) = {}
          /\ IF o.mint THEN Goto(t, "put", o) ELSE Return(t)
          /\ UNCHANGED <<slots, used>>
       \/ \E i \in FreeSlots(o.to) :
          /\ \A j \in FreeSlots(o.to) : i <= j
          /\ slots' = [slots EXCEPT ![o.to][i] =
               [valid |-> TRUE, obj |-> o.obj, rights |-> o.rights,
                gen |-> gen[o.obj], root |-> IF o.mint THEN gen[o.obj] ELSE o.root,
                expiry |-> now + o.life, once |-> FALSE]]
          /\ used' = [used EXCEPT ![o.to] = @ + 1]
          /\ Goto(t, "get", [o EXCEPT !.slot = i])
  /\ UNCHANGED <<objVars, env, history>>

\* mutant: the reference of the capability is not taken
Get_Missing(t) ==
  /\ pc[t] = "get"
  /\ IF op[t].mint THEN Goto(t, "put", op[t]) ELSE Return(t)
  /\ UNCHANGED <<slots, used, objVars, env, history>>

(* ... and the reference is taken when the lock is released.  A thread that *)
(* counts references in an object that was released is beyond this model.  *)
Get(t) ==
  /\ pc[t] = "get" /\ op[t].obj \notin freed
  /\ refs' = [refs EXCEPT ![op[t].obj] = @ + 1]
  /\ IF op[t].mint THEN Goto(t, "put", op[t]) ELSE Return(t)
  /\ UNCHANGED <<slots, used, gen, born, freed, env, history>>

(* cap_object_put: the last reference releases the object.  make_reply_cap *)
(* then makes what it installed single-use.                                *)
Put(t) ==
  /\ pc[t] = "put" /\ op[t].obj \notin freed
  /\ LET o == op[t].obj IN
       /\ refs' = [refs EXCEPT ![o] = @ - 1]
       /\ freed' = IF refs'[o] = 0 THEN freed \cup {o} ELSE freed
       /\ IF op[t].mint /\ o \in Replies /\ op[t].slot # 0
            THEN Goto(t, "once", op[t]) ELSE Return(t)
  /\ UNCHANGED <<slots, used, gen, born, env, history>>

\* mutant: the reply capability can be used any number of times
Once_Unlimited(t) ==
  /\ pc[t] = "once"
  /\ Return(t) /\ UNCHANGED <<slots, used, objVars, env, history>>

Once(t) ==
  /\ pc[t] = "once"
  /\ slots' = [slots EXCEPT ![t][op[t].slot].once = TRUE]
  /\ Return(t) /\ UNCHANGED <<used, objVars, env, history>>

(* cap_object_create, with the one reference of its creator, and then the  *)
(* capability for it: install_file, SYS_ENDPOINT_CREATE, make_reply_cap.   *)
Mint(t, o, life) ==
  /\ pc[t] = "run" /\ o \notin born
  /\ born' = born \cup {o}
  /\ refs' = [refs EXCEPT ![o] = 1]
  /\ Goto(t, "install", [Idle EXCEPT !.obj = o, !.to = t, !.life = life, !.mint = TRUE,
                           !.rights = IF o \in Files THEN Roots[o] ELSE {"use"}])
  /\ UNCHANGED <<slots, used, gen, freed, env, history>>
-----------------------------------------------------------------------------
(* cap_lookup: rights, then generation, then the seal.                     *)
Allows(c, need)  == c.valid /\ need \subseteq c.rights /\ c.gen = gen[c.obj]
Usable(c, need)  == Allows(c, need) /\ now < c.expiry
Expired(c, need) == Allows(c, need) /\ now >= c.expiry

\* mutant: the slot is retired but still counted
Retire_Counted(t, from, i, need) ==
  /\ Expired(slots[from][i], need)
  /\ slots' = [slots EXCEPT ![from][i] = Empty]
  /\ Goto(t, "put", [Idle EXCEPT !.obj = slots[from][i].obj])
  /\ UNCHANGED <<used, objVars, env, history>>

(* A lookup that finds the seal expired retires the slot.  What the code   *)
(* leaves in it has expired too, so a later look at it finds nothing more. *)
Retire(t, from, i, need) ==
  /\ Expired(slots[from][i], need)
  /\ slots' = [slots EXCEPT ![from][i] = Empty]
  /\ used' = [used EXCEPT ![from] = @ - 1]
  /\ Goto(t, "put", [Idle EXCEPT !.obj = slots[from][i].obj])
  /\ UNCHANGED <<objVars, env, history>>

(* A single-use capability is used up: its slot is free, but the slot's    *)
(* reference and its place in cs->used are not given back.                 *)
Use(from, i) ==
  LET c == slots[from][i] IN
  /\ hits' = IF c.obj \in Replies THEN [hits EXCEPT ![c.obj] = @ + 1] ELSE hits
  /\ IF c.once THEN /\ slots' = [slots EXCEPT ![from][i].valid = FALSE]
                    /\ spent' = spent \cup {<<from, c.obj>>}
               ELSE UNCHANGED <<slots, spent>>

(* rk_ipc_reply looks the handle up and later closes it, unless the call   *)
(* was answered already.  Other lookups of a handle change nothing.        *)
Lookup(t, i) ==
  /\ pc[t] = "run"
  /\ \/ Retire(t, t, i, {"use"})
     \/ /\ Usable(slots[t][i], {"use"}) /\ slots[t][i].obj \in Replies
        /\ Use(t, i)
        /\ Goto(t, "close", [Idle EXCEPT !.slot = i]) \/ Return(t)
        /\ UNCHANGED <<used, objVars, env>>

(* cap_close of whatever is in the slot by now.                            *)
CloseSlot(t, i) ==
  IF slots[t][i].valid
    THEN /\ slots' = [slots EXCEPT ![t][i] = Empty]
         /\ used' = [used EXCEPT ![t] = IF @ > 0 THEN @ - 1 ELSE 0]
         /\ Goto(t, "put", [Idle EXCEPT !.obj = slots[t][i].obj])
    ELSE Return(t) /\ UNCHANGED <<slots, used>>

Close(t, i) == /\ pc[t] = "run" /\ i \in Valid(t)
               /\ CloseSlot(t, i) /\ UNCHANGED <<objVars, env, history>>

CloseReply(t) == /\ pc[t] = "close"
                 /\ CloseSlot(t, op[t].slot) /\ UNCHANGED <<objVars, env, history>>
-----------------------------------------------------------------------------
Left(c)      == c.expiry - now
Smaller(a, b) == IF a < b THEN a ELSE b

\* mutant: the child gets the rights that were asked for
Derive_Unmasked(t, i, mask, life) ==
  LET p == slots[t][i] IN
  /\ pc[t] = "run"
  /\ p.valid /\ "derive" \in p.rights /\ Left(p) > 0
  /\ Goto(t, "install", [Idle EXCEPT !.obj = p.obj, !.to = t, !.root = p.root,
                           !.rights = mask, !.life = Smaller(life, Left(p))])
  /\ UNCHANGED <<slots, used, objVars, env, history>>

\* mutant: an expired parent has children
Derive_Outlived(t, i, mask, life) ==
  LET p == slots[t][i] IN
  /\ pc[t] = "run"
  /\ p.valid /\ "derive" \in p.rights
  /\ Goto(t, "install", [Idle EXCEPT !.obj = p.obj, !.to = t, !.root = p.root,
                           !.rights = mask \cap p.rights,
                           !.life = Smaller(life, Left(p))])
  /\ UNCHANGED <<slots, used, objVars, env, history>>

(* cap_derive checks neither the generation nor the seal of the parent.    *)
Derive(t, i, mask, life) ==
  LET p == slots[t][i] IN
  /\ pc[t] = "run"
  /\ p.valid /\ "derive" \in p.rights /\ Left(p) > 0
  /\ Goto(t, "install", [Idle EXCEPT !.obj = p.obj, !.to = t, !.root = p.root,
                           !.rights = mask \cap p.rights,
                           !.life = Smaller(life, Left(p))])
  /\ UNCHANGED <<slots, used, objVars, env, history>>

(* A client waits in rk_ipc_call with a handle in its message.  While it   *)
(* waits the server's thread runs deliver, which grants from its space, or *)
(* from the server's space into it.  A client with a timeout may be back   *)
(* from its call all that time, and its message then reads as anything.    *)
Call(t, i) == /\ pc[t] = "run"
              /\ Goto(t, "call", [Idle EXCEPT !.slot = i])
              /\ UNCHANGED <<slots, used, objVars, env, history>>

Serving(c) == {t \in Tasks \ {c} : /\ pc[t] \in {"reread", "install", "get"}
                                   /\ c \in {op[t].from, op[t].to}}

\* mutant: the call returns as soon as the message is taken
CallReturn_Early(t) == /\ pc[t] = "call"
                       /\ Return(t) /\ UNCHANGED <<slots, used, objVars, env, history>>

CallReturn(t) == /\ pc[t] = "call"
                 /\ Serving(t) = {} \/ t \in timed
                 /\ Return(t) /\ UNCHANGED <<slots, used, objVars, env, history>>

Sent(c, i) == (pc[c] = "call" /\ op[c].slot = i) \/ c \in timed
Waits(c)   == pc[c] = "call" \/ c \in timed

(* cap_grant: a lookup, a second look at the slot for the rights and the   *)
(* lifetime, and an installation in the other space.  deliver asks for     *)
(* every right the capability has.                                         *)
GrantLookup(t, from, to, i) ==
  /\ pc[t] = "run"
  /\ \/ to = t /\ from # t /\ Sent(from, i) /\ Serving(from) = {}
     \/ from = t /\ to # t /\ Waits(to) /\ Serving(to) = {}
  /\ \/ Retire(t, from, i, {"grant"})
     \/ /\ Usable(slots[from][i], {"grant"})
        /\ Use(from, i)
        /\ Goto(t, "reread", [Idle EXCEPT !.obj = slots[from][i].obj, !.slot = i,
                                !.from = from, !.to = to])
        /\ UNCHANGED <<used, objVars, env>>

GrantReread(t) ==
  /\ pc[t] = "reread"
  /\ LET c == slots[op[t].from][op[t].slot] IN
       IF Left(c) <= 0
         THEN Return(t)
         ELSE Goto(t, "install", [op[t] EXCEPT !.rights = c.rights, !.slot = 0,
                                    !.life = Left(c), !.root = c.root])
  /\ UNCHANGED <<slots, used, objVars, env, history>>

(* cap_revoke_recursive, by the kernel code that owns the object.  (The     *)
(* system call goes through cap_revoke, whose handle must carry a right no  *)
(* caller of cap_install gives.)                                           *)
Revoke(o) == /\ o \in born \ freed /\ gen[o] < MaxGen
             /\ gen' = [gen EXCEPT ![o] = @ + 1]
             /\ UNCHANGED <<slots, used, refs, born, freed, env, pc, op, history>>

Tick == /\ now < MaxTime /\ now' = now + 1
        /\ UNCHANGED <<slots, used, objVars, timed, pc, op, history>>

Next == \/ \E t \in Tasks :
             \/ Install(t) \/ Get(t) \/ Put(t) \/ Once(t) \/ CloseReply(t)
             \/ CallReturn(t) \/ GrantReread(t)
             \/ \E o \in Objects, life \in Lifetimes : Mint(t, o, life)
             \/ \E i \in Slots :
                  \/ Lookup(t, i) \/ Close(t, i) \/ Call(t, i)
                  \/ \E m \in Masks, life \in Lifetimes : Derive(t, i, m, life)
                  \/ \E from, to \in Tasks : GrantLookup(t, from, to, i)
        \/ \E o \in Files : Revoke(o)
        \/ Tick

Spec == Init /\ [][Next]_vars
-----------------------------------------------------------------------------
Authority(o) == IF o \in Files THEN Roots[o] ELSE {"use"}

(* No capability carries a right that its object was not installed with,   *)
(* however often it was derived and granted: cap_derive and cap_grant only *)
(* remove rights.  It holds as long as no client leaves its call early.    *)
NeverAmplified ==
  \A t \in Tasks, i \in Slots :
    slots[t][i].valid => slots[t][i].rights \subseteq Authority(slots[t][i].obj)

WaitedAmplifiesNothing == timed = {} => NeverAmplified

(* The object of a capability, and one that is about to be installed, has  *)
(* not been released, as long as no client leaves its call early.          *)
ObjectAlive ==
  timed = {} => \A t \in Tasks :
    /\ \A i \in Valid(t) : slots[t][i].obj \notin freed
    /\ pc[t] \in {"reread", "install", "get", "put"} => op[t].obj \notin freed

(* An object's reference count is the number of capabilities for it, its   *)
(* creator's until it puts it, the references on their way in or out, and  *)
(* those of single-use capabilities that were used up; cs->used counts the *)
(* valid slots and the capabilities that were used up.                     *)
RefsCounted ==
  /\ \A t \in Tasks : used[t] = Cardinality(Valid(t)) + Cardinality({o \in Replies : <<t, o>> \in spent})
  /\ \A o \in Objects :
       refs[o] = Cardinality({s \in Tasks \X Slots : slots[s[1]][s[2]].valid /\ slots[s[1]][s[2]].obj = o})
               + Cardinality({t \in Tasks : op[t].obj = o /\ (pc[t] = "put" \/ (op[t].mint /\ pc[t] \in {"install", "get"}))})
               - Cardinality({t \in Tasks : op[t].obj = o /\ pc[t] = "get"})
               + Cardinality({t \in Tasks : <<t, o>> \in spent})

(* A reply capability is good for one reply.                               *)
SingleUse == \A o \in Replies : hits[o] <= 1

(* No capability that passes a lookup comes from authority over the object *)
(* that was revoked.                                                       *)
RevokedStaysDead ==
  \A t \in Tasks, i \in Slots :
    LET c == slots[t][i] IN Usable(c, {}) => c.root = gen[c.obj]
=============================================================================
