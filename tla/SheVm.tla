------------------------------- MODULE SheVm -------------------------------
(***************************************************************************)
(* kernel/she/vm.c with the builtins of kernel/she/stdlib.c it re-enters    *)
(* for: one VM running scripts one after the other, an instruction a step.  *)
(* A builtin that calls a SHE function back (map, filter) runs the          *)
(* interpreter again from inside an instruction: `runs` is that C stack,    *)
(* the call in progress last.  A script that ends its gas may be resumed    *)
(* or left for the next one.                                                *)
(***************************************************************************)
EXTENDS SheCompile, TLC

CONSTANTS Scripts,     \* the first scripts, as syntax trees
          Followups,   \* what the same session may evaluate afterwards
          Gases,       \* instruction budgets
          StackMax,    \* SHE_STACK_MAX
          FramesMax,   \* SHE_FRAMES_MAX
          MaxObjects,  \* the memory budget, in list objects
          MaxRuns,     \* bound: scripts of a session
          MaxResumes,  \* bound: calls of she_resume
          Allowed      \* vm->allow: the guarded builtins that are granted

VARIABLES vm,      \* the machine: see Boot
          phase,   \* what she_run last returned: "idle", "running", "ok", "again", "failed"
          script,  \* the syntax tree being run
          began,   \* history: globals and heap when it began
          cut,     \* history: gas ran out inside a callback of this script
          resumes

sheVars == <<vm, phase, script, began, cut, resumes>>

Pure     == {"length", "sum", "push"}
Callback == {"map", "filter"}
Guarded  == {"now"}

NativeV(w) == [t |-> "native", w |-> w]
ListV(o)   == [t |-> "list", o |-> o]
RangeV(a, b) == [t |-> "range", from |-> a, len |-> IF b < a THEN 0 ELSE b - a + 1]

Truthy(m, v) ==
  CASE v.t = "nothing" -> FALSE
    [] v.t = "bool"    -> v.b
    [] v.t = "num"     -> v.n # 0
    [] v.t = "text"    -> v.s # <<>>
    [] v.t = "list"    -> m.heap[v.o] # <<>>
    [] OTHER           -> TRUE

(* she_value_repr, of the values a script says: a list by its items.        *)
RECURSIVE Repr(_, _)
Repr(heap, v) ==
  CASE v.t = "text" -> v.s
    [] v.t = "num"  -> <<ToString(v.n)>>
    [] v.t = "list" -> <<"[">> \o FlattenSeq([i \in DOMAIN heap[v.o] |-> Repr(heap, heap[v.o][i])]) \o <<"]">>
    [] v.t = "bool" -> <<IF v.b THEN "yes" ELSE "no">>
    [] v.t = "real" -> <<ToString(v.of[1]), "/", ToString(v.of[2])>>
    [] OTHER        -> <<v.t>>

(* Items and lengths of what can be looped over.                            *)
Iterable == {"list", "range", "text"}
Size(heap, v) == CASE v.t = "list" -> Len(heap[v.o]) [] v.t = "range" -> v.len [] OTHER -> Len(v.s)
ItemAt(heap, v, i) ==
  CASE v.t = "list" -> heap[v.o][i] [] v.t = "range" -> NumV(v.from + i - 1) [] OTHER -> TextV(<<v.s[i]>>)

Boot(names) ==
  [stack |-> <<>>, frames |-> <<>>, runs |-> <<>>, fns |-> <<>>, gas |-> 0, failed |-> FALSE,
   globals |-> [w \in names |-> NativeV(w)], heap |-> <<>>, out |-> <<>>, result |-> NothingV]

Init ==
  /\ vm = Boot(Pure \union Callback \union Guarded)
  /\ phase = "idle" /\ script = <<>> /\ cut = FALSE /\ resumes = 0
  /\ began = [runs |-> 0, globals |-> vm.globals, heap |-> <<>>]

(***************************** the value stack *****************************)

SheError(m) == [m EXCEPT !.failed = TRUE]
Push(m, v) == IF Len(m.stack) >= StackMax THEN SheError(m) ELSE [m EXCEPT !.stack = Append(@, v)]
Drop(m, n) == [m EXCEPT !.stack = SubSeq(@, 1, Len(@) - n)]
Peek(m, back) == IF back < Len(m.stack) THEN m.stack[Len(m.stack) - back] ELSE NothingV
Answer(m, n, v) == Push(Drop(m, n), v)          \* n operands give way to v

NewList(m, items) ==
  IF Len(m.heap) >= MaxObjects THEN SheError(m)
  ELSE [m EXCEPT !.heap = Append(@, items)]

(****************************** calling values *****************************)

Frame(m) == Last(m.frames)

(* call_function.                                                           *)
CallFunction(m, f, argc) ==
  IF argc # m.fns[f].arity \/ Len(m.frames) >= FramesMax THEN SheError(m)
  ELSE [m EXCEPT !.frames = Append(@, [fn |-> f, ip |-> 1, base |-> Len(m.stack) - argc])]

(* as_num: a number in a sum.                                               *)
AsNum(v) == IF v.t = "num" THEN v.n ELSE IF v.t = "bool" /\ v.b THEN 1 ELSE 0

(* The builtins that need no callback: they answer or set the error.  The   *)
(* length of what has none is 0.                                            *)
Native(m, w, args) ==
  LET seq == args[1]
  IN  CASE w = "length" -> [m |-> m, v |-> NumV(IF seq.t \in Iterable THEN Size(m.heap, seq) ELSE 0)]
        [] w = "sum" -> IF seq.t \notin {"list", "range"} THEN [m |-> SheError(m), v |-> NothingV]
                        ELSE [m |-> m, v |-> NumV(FoldLeft(LAMBDA t, i : t + AsNum(ItemAt(m.heap, seq, i)),
                                                           0, [i \in 1..Size(m.heap, seq) |-> i]))]
        [] w = "push" -> IF seq.t # "list" THEN [m |-> SheError(m), v |-> NothingV]
                         ELSE [m |-> [m EXCEPT !.heap[seq.o] = Append(@, args[2])], v |-> seq]
        [] w = "now"  -> [m |-> m, v |-> NumV(0)]

Arity(w) == CASE w \in {"push", "map", "filter"} -> 2 [] w = "now" -> 0 [] OTHER -> 1

(* she_check_allow and the argument count, tested before a builtin runs.    *)
Refused(w, argc) == argc # Arity(w) \/ w \in Guarded \ Allowed

CallPure(m, w, argc) ==
  IF Refused(w, argc) THEN SheError(m)
  ELSE LET args == SubSeq(m.stack, Len(m.stack) - argc + 1, Len(m.stack))
           did  == Native(m, w, args)
       IN  Answer(did.m, argc + 1, did.v)

(* A builtin that calls back ends: its arguments and itself leave the top   *)
(* of the stack, whatever is there by now, and its answer is pushed.        *)
EndNative(m, v) == Answer([m EXCEPT !.runs = Front(@)], 3, v)

(* What map and filter add to their result for an item the callback         *)
(* answered r for.                                                          *)
Keep(m, nat, item, r) ==
  IF nat.w = "map" THEN [m EXCEPT !.heap[nat.res] = Append(@, r)]
  ELSE IF Truthy(m, r) THEN [m EXCEPT !.heap[nat.res] = Append(@, item)]
  ELSE m

(* call_one for the items from i on.  A SHE function's frame is left to the *)
(* run that follows; a builtin has answered at once.                        *)
RECURSIVE CallBack(_, _, _)
CallBack(m, nat, i) ==
  IF i > Size(m.heap, nat.items) THEN EndNative(m, ListV(nat.res))
  ELSE
    LET item   == ItemAt(m.heap, nat.items, i)
        pushed == Push(Push(m, nat.f), item)
        call   == [pushed EXCEPT !.runs[Len(m.runs)] = [stop |-> Len(m.frames), nat |-> [nat EXCEPT !.i = i]]]
    IN  CASE nat.f.t = "function" -> CallFunction(call, nat.f.f, 1)
          [] nat.f.t = "native" /\ nat.f.w \notin Callback ->
               LET did == CallPure(call, nat.f.w, 1)
               IN  IF did.failed THEN did
                   ELSE CallBack(Keep(Drop(did, 1), nat, item, Peek(did, 0)), nat, i + 1)
          [] OTHER -> SheError(call)

(* nat_map, nat_filter.                                                     *)
CallMap(m, w, argc) ==
  LET items == Peek(m, 1)
      made  == NewList(m, <<>>)
  IN  IF Refused(w, argc) \/ items.t \notin {"list", "range"} \/ made.failed THEN SheError(m)
      ELSE CallBack([made EXCEPT !.runs = Append(@, [stop |-> 0])],
                    [w |-> w, items |-> items, f |-> Peek(m, 0), res |-> Len(made.heap), i |-> 0], 1)

CallValue(m, callee, argc) ==
  CASE callee.t = "function" -> CallFunction(m, callee.f, argc)
    [] callee.t = "native"   -> IF callee.w \in Callback THEN CallMap(m, callee.w, argc)
                                ELSE CallPure(m, callee.w, argc)
    [] OTHER -> SheError(m)

(* she_call_now's run returned r to the builtin, which takes the next item. *)
Returned(m, r) ==
  LET nat == Last(m.runs).nat
  IN  CallBack(Keep(m, nat, ItemAt(m.heap, nat.items, nat.i), r), nat, nat.i + 1)

(******************************* instructions ******************************)

Slots(m, i) == m.stack[Frame(m).base + i]            \* frame->slots[i]
Jump(m, to) == [m EXCEPT !.frames[Len(m.frames)].ip = to]

(* Division and remainder as C has them: towards zero, the sign of x.       *)
Magnitude(x) == IF x < 0 THEN -x ELSE x
Remainder(x, y) == (IF x < 0 THEN -1 ELSE 1) * (Magnitude(x) % Magnitude(y))
Quotient(x, y)  == (IF (x < 0) = (y < 0) THEN 1 ELSE -1) * (Magnitude(x) \div Magnitude(y))

(* arith and compare, on whole numbers: only a division that does not come  *)
(* out leaves them, for a real.                                             *)
Numeric == {"ADD", "SUB", "MUL", "DIV", "MOD", "POW", "LT", "LE", "GT", "GE"}
Undefined(op, y) == op \in {"DIV", "MOD"} /\ y = 0
Calculated(op, x, y) ==
  CASE op = "ADD" -> NumV(x + y)
    [] op = "SUB" -> NumV(x - y)
    [] op = "MUL" -> NumV(x * y)
    [] op = "DIV" -> IF Remainder(x, y) = 0 THEN NumV(Quotient(x, y)) ELSE [t |-> "real", of |-> <<x, y>>]
    [] op = "MOD" -> NumV(Remainder(x, y))
    [] op = "POW" -> NumV(IF y < 0 THEN 1 ELSE x ^ (IF y > 63 THEN 63 ELSE y))
    [] op = "LT"  -> BoolV(x < y)
    [] op = "LE"  -> BoolV(x <= y)
    [] op = "GT"  -> BoolV(x > y)
    [] op = "GE"  -> BoolV(x >= y)

(* ADD joins texts.                                                         *)
Arith(m, op) ==
  LET a == Peek(m, 1)
      b == Peek(m, 0)
  IN  CASE op = "ADD" /\ "text" \in {a.t, b.t} -> Answer(m, 2, TextV(Repr(m.heap, a) \o Repr(m.heap, b)))
        [] {a.t, b.t} # {"num"} -> SheError(m)
        [] OTHER -> IF Undefined(op, b.n) THEN SheError(m) ELSE Answer(m, 2, Calculated(op, a.n, b.n))

(* OP_ITER_NEXT.  A cursor that is no number is read as the bits of a       *)
(* pointer, which is past the end of any collection.                        *)
IterNext(m, slot) ==
  LET it == Slots(m, slot)
      ix == Slots(m, slot + 1)
  IN  IF it.t \notin Iterable THEN SheError(m)
      ELSE IF ix.t # "num" \/ ix.n >= Size(m.heap, it) THEN Push(m, BoolV(FALSE))
      ELSE Push(Push([m EXCEPT !.stack[Frame(m).base + slot + 1] = NumV(ix.n + 1)],
                     ItemAt(m.heap, it, ix.n + 1)), BoolV(TRUE))

(* OP_GET_INDEX: a negative index counts from the end of a list, and is     *)
(* nothing in a text, where an index that is no number is a pointer's bits. *)
GetIndex(m) ==
  LET obj == Peek(m, 1)
      idx == Peek(m, 0)
      at  == IF idx.n < 0 THEN idx.n + Len(m.heap[obj.o]) ELSE idx.n
  IN  IF obj.t = "text"
      THEN Answer(m, 2, IF idx.t = "num" /\ idx.n >= 0 /\ idx.n < Len(obj.s) THEN TextV(<<obj.s[idx.n + 1]>>)
                        ELSE NothingV)
      ELSE IF obj.t # "list" \/ idx.t # "num" THEN SheError(m)
      ELSE IF at < 0 \/ at >= Len(m.heap[obj.o]) THEN SheError(m)
      ELSE Answer(m, 2, m.heap[obj.o][at + 1])

(* OP_GET_FIELD: the count of a list or a text; no other value has fields.  *)
GetField(m) ==
  LET obj == Peek(m, 1)
  IN  Answer(m, 2, IF obj.t \in {"list", "text"} /\ Peek(m, 0).s = <<"count">> THEN NumV(Size(m.heap, obj))
                   ELSE NothingV)

(* OP_RETURN: to the caller's frame, to the builtin that called back, or    *)
(* out of she_run.                                                          *)
Return(m) ==
  LET r    == Peek(m, 0)
      left == [m EXCEPT !.stack = SubSeq(@, 1, Frame(m).base - 1), !.frames = Front(@)]
  IN  IF Len(left.frames) # Last(m.runs).stop THEN Push(left, r)
      ELSE IF Len(m.runs) = 1 THEN [left EXCEPT !.runs = <<>>, !.result = r]
      ELSE Returned(left, r)

MakeList(m, n) ==
  LET made == NewList(m, SubSeq(m.stack, Len(m.stack) - n + 1, Len(m.stack)))
  IN  IF made.failed THEN made ELSE Answer(made, n, ListV(Len(made.heap)))

(* OP_PIPE: the value and the callee under the extra arguments change       *)
(* places.                                                                  *)
Pipe(m, extra) ==
  LET at == Len(m.stack) - extra - 1
      swapped == [m EXCEPT !.stack[at] = m.stack[at + 1], !.stack[at + 1] = m.stack[at]]
  IN  CallValue(swapped, m.stack[at + 1], extra + 1)

GetGlobal(m) ==
  IF Peek(m, 0).s[1] \in DOMAIN m.globals THEN Answer(m, 1, m.globals[Peek(m, 0).s[1]])
  ELSE SheError(m)

(* Mutant: an assignment makes the global it does not find.                 *)
SetGlobalMakes(m) == [Drop(m, 1) EXCEPT !.globals = (Peek(m, 0).s[1] :> Peek(m, 1)) @@ @]

SetGlobal(m) ==
  LET key == Peek(m, 0).s[1]
  IN  IF key \in DOMAIN m.globals THEN [Drop(m, 1) EXCEPT !.globals[key] = Peek(m, 1)]
      ELSE SheError(m)

MakeRange(m) ==
  IF {Peek(m, 0).t, Peek(m, 1).t} = {"num"}
  THEN Answer(m, 2, RangeV(Peek(m, 1).n, Peek(m, 0).n)) ELSE SheError(m)

Say(m) == [Drop(m, 1) EXCEPT !.out = Append(@, Repr(m.heap, Peek(m, 0)))]

(* One instruction at the current frame, whose ip is past it.               *)
Execute(m, op, a) ==
  CASE op = "CONST"         -> Push(m, a)
    [] op = "POP"           -> Drop(m, 1)
    [] op = "GET_LOCAL"     -> Push(m, Slots(m, a))
    [] op = "SET_LOCAL"     -> [m EXCEPT !.stack[Frame(m).base + a] = Peek(m, 0)]
    [] op = "GET_GLOBAL"    -> GetGlobal(m)
    [] op = "SET_GLOBAL"    -> SetGlobal(m)
    [] op = "DEF_GLOBAL"    -> [Drop(m, 2) EXCEPT !.globals = (Peek(m, 0).s[1] :> Peek(m, 1)) @@ @]
    [] op = "GET_INDEX"     -> GetIndex(m)
    [] op = "GET_FIELD"     -> GetField(m)
    [] op \in Numeric       -> Arith(m, op)
    [] op = "NEG"           -> IF Peek(m, 0).t = "num" THEN Answer(m, 1, NumV(-Peek(m, 0).n)) ELSE SheError(m)
    [] op = "NOT"           -> Answer(m, 1, BoolV(~Truthy(m, Peek(m, 0))))
    [] op = "EQ"            -> Answer(m, 2, BoolV(Peek(m, 1) = Peek(m, 0)))
    [] op = "NEQ"           -> Answer(m, 2, BoolV(Peek(m, 1) # Peek(m, 0)))
    [] op = "CONCAT"        -> Answer(m, 2, TextV(Repr(m.heap, Peek(m, 1)) \o Repr(m.heap, Peek(m, 0))))
    [] op = "JUMP"          -> Jump(m, a)
    [] op = "LOOP"          -> Jump(m, a)
    [] op = "JUMP_IF_FALSE" -> IF Truthy(m, Peek(m, 0)) THEN m ELSE Jump(m, a)
    [] op = "JUMP_IF_TRUE"  -> IF Truthy(m, Peek(m, 0)) THEN Jump(m, a) ELSE m
    [] op = "CALL"          -> CallValue(m, Peek(m, a), a)
    [] op = "PIPE"          -> Pipe(m, a)
    [] op = "RETURN"        -> Return(m)
    [] op = "MAKE_LIST"     -> MakeList(m, a)
    [] op = "MAKE_RANGE"    -> MakeRange(m)
    [] op = "ITER_NEXT"     -> IterNext(m, a)
    [] op = "SAY"           -> Say(m)

(********************************* the loop ********************************)

(* she_eval: compile and, when that succeeds, she_run, which starts from an *)
(* empty stack whatever the script before left there.  A closure is the     *)
(* compiled function, so functions of earlier scripts stay in the table.    *)
Eval ==
  /\ phase # "running" /\ began.runs < MaxRuns
  /\ \E ss \in (IF began.runs = 0 THEN Scripts ELSE Followups), gas \in Gases :
       LET c == Compile(ss, vm.fns)
       IN  /\ vm' = [vm EXCEPT !.fns = c.fns, !.failed = ~c.ok, !.gas = gas, !.out = <<>>, !.result = NothingV,
                               !.stack = IF c.ok THEN <<FunV(Len(c.fns))>> ELSE @,
                               !.frames = IF c.ok THEN <<[fn |-> Len(c.fns), ip |-> 1, base |-> 1]>> ELSE @,
                               !.runs = IF c.ok THEN <<[stop |-> 0]>> ELSE @]
           /\ phase' = IF c.ok THEN "running" ELSE "failed"
           /\ script' = ss
           /\ began' = [runs |-> began.runs + 1, globals |-> vm.globals, heap |-> vm.heap]
  /\ cut' = FALSE /\ resumes' = 0

(* Every builtin on the C stack gives up: call_native drops its arguments   *)
(* from the stack as it finds it and pushes nothing, and the run around it  *)
(* returns RK_EINVAL.                                                       *)
RECURSIVE Unwind(_)
Unwind(m) == IF Len(m.runs) <= 1 THEN [m EXCEPT !.runs = <<>>] ELSE Unwind(EndNative(m, NothingV))

Step ==
  /\ phase = "running" /\ vm.gas > 0
  /\ LET f   == Frame(vm)
         ins == vm.fns[f.fn].code[f.ip]
         did == Execute([vm EXCEPT !.gas = @ - 1, !.frames[Len(vm.frames)].ip = @ + 1], ins.op, ins.a)
     IN  /\ vm' = IF did.failed THEN Unwind(did) ELSE did
         /\ phase' = IF did.failed THEN "failed" ELSE IF did.frames = <<>> THEN "ok" ELSE "running"
  /\ UNCHANGED <<script, began, cut, resumes>>

(* Out of gas: RK_EAGAIN with the state intact from the outermost run, a    *)
(* failed builtin from a run inside one.                                    *)
OutOfGas ==
  /\ phase = "running" /\ vm.gas = 0
  /\ vm' = Unwind(vm)
  /\ phase' = IF Len(vm.runs) = 1 THEN "again" ELSE "failed"
  /\ cut' = (cut \/ Len(vm.runs) > 1)
  /\ UNCHANGED <<script, began, resumes>>

(* she_resume after a top-up.                                               *)
Resume ==
  /\ phase = "again" /\ resumes < MaxResumes
  /\ \E gas \in Gases : vm' = [vm EXCEPT !.gas = gas, !.runs = <<[stop |-> 0]>>]
  /\ phase' = "running" /\ resumes' = resumes + 1
  /\ UNCHANGED <<script, began, cut>>

Next == Eval \/ Step \/ OutOfGas \/ Resume

-----------------------------------------------------------------------------
(* What docs/SHE.md says a script does, as a direct evaluation of its       *)
(* syntax tree: the reference the machine is compared with.  A state st     *)
(* carries the names in scope (env, the latest last), the globals, the      *)
(* lists, what was said, the call depth and how the last statement ended    *)
(* (stop).                                                                  *)

Begin(globals, heap) ==
  [env |-> <<>>, block |-> 0, globals |-> globals, heap |-> heap, out |-> <<>>,
   calls |-> 1, val |-> NothingV, stop |-> "go"]

Val(st, v) == [st EXCEPT !.val = v]
Wrong(st)  == [st EXCEPT !.stop = "error"]

InScope(st, w) == {i \in DOMAIN st.env : st.env[i].w = w}
Latest(st, w)  == CHOOSE i \in InScope(st, w) : \A j \in InScope(st, w) : j <= i

Read(st, w) ==
  IF InScope(st, w) # {} THEN Val(st, st.env[Latest(st, w)].v)
  ELSE IF w \in DOMAIN st.globals THEN Val(st, st.globals[w]) ELSE Wrong(st)

Bind(st, w, v) == [st EXCEPT !.env = Append(@, [w |-> w, v |-> v])]

Assign(st, w, v) ==
  IF InScope(st, w) # {} THEN [st EXCEPT !.env[Latest(st, w)].v = v]
  ELSE IF w \in DOMAIN st.globals THEN [st EXCEPT !.globals[w] = v] ELSE Wrong(st)

Make(st, items) ==
  IF Len(st.heap) >= MaxObjects THEN Wrong(st)
  ELSE [st EXCEPT !.heap = Append(@, items), !.val = ListV(Len(st.heap) + 1)]

Operate(st, op, a, b) ==
  LET nums == a.t = "num" /\ b.t = "num"
  IN  CASE op = "EQ" -> Val(st, BoolV(a = b))
        [] op = "NEQ" -> Val(st, BoolV(a # b))
        [] op = "ADD" /\ (a.t = "text" \/ b.t = "text") ->
             Val(st, TextV(Repr(st.heap, a) \o Repr(st.heap, b)))
        [] op = "GET_INDEX" /\ a.t = "text" ->
             Val(st, IF b.t = "num" /\ b.n \in 0..(Len(a.s) - 1) THEN TextV(<<a.s[b.n + 1]>>) ELSE NothingV)
        [] op = "GET_INDEX" ->
             IF a.t # "list" \/ b.t # "num" THEN Wrong(st)
             ELSE LET n == Len(st.heap[a.o])
                      k == IF b.n < 0 THEN b.n + n ELSE b.n
                  IN  IF k \in 0..(n - 1) THEN Val(st, st.heap[a.o][k + 1]) ELSE Wrong(st)
        [] ~nums -> Wrong(st)
        [] op = "MAKE_RANGE" -> Val(st, RangeV(a.n, b.n))
        [] Undefined(op, b.n) -> Wrong(st)
        [] OTHER -> Val(st, Calculated(op, a.n, b.n))

RECURSIVE Ev(_, _), EvAll(_, _), Ex(_, _), ExAll(_, _), Apply(_, _, _), Loop(_, _, _),
          CollectAll(_, _, _, _, _)

(* Each operator below takes the state its predecessor left as an argument: *)
(* nothing is evaluated twice.                                              *)

(* The values of es, left to right: r.vs, and the state after them.         *)
Valued(st, vs) == [st |-> st, vs |-> Append(vs, st.val)]
EvAll(r, es)   == IF es = <<>> THEN r ELSE EvAll(Valued(Ev(r.st, Head(es)), r.vs), Tail(es))

ExAll(st, ss) == IF ss = <<>> THEN st ELSE ExAll(Ex(st, Head(ss)), Tail(ss))

(* A block's names end with it.                                             *)
Closing(st, n) == [st EXCEPT !.block = @ - 1, !.env = SubSeq(@, 1, n)]
Scoped(st, ss) == Closing(ExAll([st EXCEPT !.block = @ + 1], ss), Len(st.env))

(* map and filter: the callback on every item, in order.                    *)
Collected(st, vs, w, item) ==
  [st |-> st, vs |-> IF w = "map" THEN Append(vs, st.val)
                     ELSE IF st.stop = "go" /\ Truthy(st, st.val) THEN Append(vs, item) ELSE vs]

CollectAll(r, w, items, f, i) ==
  IF i > Size(r.st.heap, items) THEN r
  ELSE CollectAll(Collected(Apply(r.st, f, <<ItemAt(r.st.heap, items, i)>>), r.vs, w, ItemAt(r.st.heap, items, i)),
                  w, items, f, i + 1)

Listed(r, list) ==
  IF r.st.stop # "go" THEN r.st ELSE Val([r.st EXCEPT !.heap[list] = r.vs], ListV(list))

Collect(st, w, items, f) ==
  Listed(CollectAll([st |-> Make(st, <<>>), vs |-> <<>>], w, items, f, 1), Len(st.heap) + 1)

(* A function sees its parameters, what it captured and the globals.        *)
Leave(r, f, st) ==
  LET back == [r EXCEPT !.env = st.env, !.block = st.block, !.calls = st.calls]
  IN  IF r.stop = "return" \/ (f.arrow /\ r.stop = "go") THEN [back EXCEPT !.stop = "go"]
      ELSE IF r.stop = "go" THEN Val(back, NothingV) ELSE back

Inside(st, f, args) ==
  [st EXCEPT !.env = f.env \o [i \in DOMAIN args |-> [w |-> f.params[i], v |-> args[i]]],
             !.block = 1, !.calls = @ + 1, !.val = NothingV]

Call(st, f, args) ==
  IF Len(args) # Len(f.params) \/ st.calls >= FramesMax THEN Wrong(st)
  ELSE Leave(IF f.arrow THEN Ev(Inside(st, f, args), f.body) ELSE ExAll(Inside(st, f, args), f.body), f, st)

Answered(st, did) == IF did.m.failed THEN Wrong(st) ELSE [Val(st, did.v) EXCEPT !.heap = did.m.heap]

CallNative(st, w, args) ==
  IF Refused(w, Len(args)) THEN Wrong(st)
  ELSE IF w \notin Callback THEN Answered(st, Native([heap |-> st.heap, failed |-> FALSE], w, args \o <<NothingV>>))
  ELSE IF args[1].t \in {"list", "range"} THEN Collect(st, w, args[1], args[2]) ELSE Wrong(st)

Apply(st, f, args) ==
  IF st.stop # "go" THEN st
  ELSE CASE f.t = "closure" -> Call(st, f, args)
    [] f.t = "native"  -> CallNative(st, f.w, args)
    [] OTHER           -> Wrong(st)

(* The parts an expression is made of, and what it makes of their values.   *)
Operands(e) ==
  CASE e.x \in {"unary", "field"} -> <<e.a>>
    [] e.x = "binary" -> <<e.a, e.b>>
    [] e.x = "list"   -> e.es
    [] e.x = "call"   -> <<e.f>> \o e.es
    [] e.x = "pipe"   -> <<e.a, [x |-> "name", name |-> e.name]>> \o e.es
    [] e.x = "text"   -> [k \in DOMAIN e.parts |->
                            IF e.parts[k].var THEN [x |-> "name", name |-> e.parts[k].w]
                            ELSE [x |-> "value", v |-> TextV(<<e.parts[k].w>>)]]

Combine(st, vs, e) ==
  CASE e.x = "unary"  -> IF e.op = "NOT" THEN Val(st, BoolV(~Truthy(st, vs[1])))
                         ELSE IF vs[1].t = "num" THEN Val(st, NumV(-vs[1].n)) ELSE Wrong(st)
    [] e.x = "field"  -> Val(st, IF vs[1].t \in {"list", "text"} /\ e.name = "count" THEN NumV(Size(st.heap, vs[1]))
                                 ELSE NothingV)
    [] e.x = "binary" -> Operate(st, e.op, vs[1], vs[2])
    [] e.x = "list"   -> Make(st, vs)
    [] e.x = "text"   -> Val(st, TextV(FlattenSeq([k \in DOMAIN vs |-> Repr(st.heap, vs[k])])))
    [] e.x \in {"call", "pipe"} ->
         LET f == IF e.x = "call" THEN 1 ELSE 2 IN Apply(st, vs[f], RemoveAt(vs, f))

Combined(r, e) == IF r.st.stop # "go" THEN r.st ELSE Combine(r.st, r.vs, e)

(* and needs the right side after a true left one, or after a false one.    *)
Decide(st, e) == IF st.stop = "go" /\ Truthy(st, st.val) = (e.x = "and") THEN Ev(st, e.b) ELSE st

Ev(st, e) ==
  IF st.stop # "go" THEN st
  ELSE CASE e.x = "value"  -> Val(st, e.v)
    [] e.x = "name"   -> Read(st, e.name)
    [] e.x \in {"and", "or"} -> Decide(Ev(st, e.a), e)
    [] e.x = "lambda" ->
         Val(st, [t |-> "closure", params |-> e.params, body |-> e.body, arrow |-> TRUE, env |-> st.env])
    [] OTHER -> Combined(EvAll([st |-> st, vs |-> <<>>], Operands(e)), e)

(* One round of a loop and the rest of it: break ends it, skip only the     *)
(* round.  i is the next item of a for each.                                *)
Over(st, s, i) ==
  \/ st.stop # "go"
  \/ s.s = "while" /\ ~Truthy(st, st.val)
  \/ s.s = "foreach" /\ i > Size(st.heap, s.items)

Again(st, s, i) ==
  IF st.stop # "go" \/ (s.s = "repeat" /\ Truthy(st, st.val)) THEN st ELSE Loop(st, s, i + 1)

Rounded(st, n, s, i) ==
  LET ended == [st EXCEPT !.env = SubSeq(@, 1, n), !.stop = IF @ = "skip" THEN "go" ELSE @]
  IN  IF st.stop = "break" THEN [ended EXCEPT !.stop = "go"]
      ELSE Again(IF s.s = "repeat" THEN Ev(ended, s.e) ELSE ended, s, i)

Round(st, s, i) ==
  IF Over(st, s, i) THEN st
  ELSE Rounded(Scoped(IF s.s = "foreach" THEN Bind(st, s.name, ItemAt(st.heap, s.items, i)) ELSE st, s.body),
               Len(st.env), s, i)

Loop(st, s, i) == Round(IF s.s = "while" THEN Ev(st, s.e) ELSE st, s, i)

(* A statement once its expression, if it has one, has its value.           *)
Perform(st, s) ==
  IF st.stop # "go" THEN st
  ELSE CASE s.s = "say"   -> [st EXCEPT !.out = Append(@, Repr(st.heap, st.val))]
    [] s.s = "let"        -> IF st.block > 0 THEN Bind(st, s.name, st.val)
                             ELSE [st EXCEPT !.globals = (s.name :> st.val) @@ @]
    [] s.s = "fun"        -> [st EXCEPT !.globals = (s.name :> [t |-> "closure", params |-> s.params,
                                body |-> s.body, arrow |-> FALSE, env |-> <<>>]) @@ @]
    [] s.s = "assign"     -> Assign(st, s.name, st.val)
    [] s.s = "if"         -> Scoped(st, IF Truthy(st, st.val) THEN s.body ELSE s.other)
    [] s.s = "foreach"    -> IF st.val.t \notin Iterable THEN Wrong(st)
                             ELSE Loop(st, [s |-> "foreach", name |-> s.name, body |-> s.body, items |-> st.val], 1)
    [] s.s \in {"while", "repeat"} -> Loop(st, s, 1)
    [] s.s \in {"return", "break", "skip"} -> [st EXCEPT !.stop = s.s]
    [] s.s = "do"         -> st

Ex(st, s) ==
  Perform(IF s.s \in {"say", "let", "assign", "if", "return", "do", "foreach"} THEN Ev(st, s.e) ELSE st, s)

(* What the script should have said, answered and left in the globals.      *)
Meaning ==
  LET st == ExAll(Begin(began.globals, began.heap), script)
  IN  [phase  |-> IF st.stop \in {"go", "return"} THEN "ok" ELSE "failed",
       out    |-> st.out,
       result |-> IF st.stop = "return" THEN Repr(st.heap, st.val) ELSE <<"nothing">>]

(* "Run to completion, or until gas runs out (RK_EAGAIN, resumable)"        *)
(* (she.h:195): a script's say and answer are what its text means.          *)
AsWritten ==
  phase \in {"ok", "failed"} =>
    LET said == [phase |-> phase, out |-> vm.out,
                 result |-> IF phase = "ok" THEN Repr(vm.heap, vm.result) ELSE <<"nothing">>]
    IN  said = Meaning

(* Whatever blocks, loops, calls and callbacks a script is made of, the     *)
(* machine's slots are the compiler's, and neither running out of gas       *)
(* between two instructions nor the scripts before it in the session change *)
(* what it does; one whose gas ended inside a callback has failed with a    *)
(* part of what it means said.                                              *)
RunsAsWritten ==
  IF cut THEN phase = "failed" /\ IsPrefix(vm.out, Meaning.out) ELSE AsWritten
=============================================================================
