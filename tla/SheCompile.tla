----------------------------- MODULE SheCompile -----------------------------
(***************************************************************************)
(* kernel/she/compile.c: the single-pass SHE compiler.  The source text is  *)
(* its syntax tree here (lexing and layout are left out), and a grammar     *)
(* function is the operator that emits its node, in the order compile.c     *)
(* emits it; map literals and ask are left out.  A chunk is a sequence of instructions [op, a]; a jump's       *)
(* operand is the instruction it lands on.  A local is known by the slot    *)
(* the compiler gives it, its index in `locals`; whether the machine's      *)
(* stack agrees at run time is what SheVm checks.                           *)
(***************************************************************************)
EXTENDS Integers, Sequences, SequencesExt

CONSTANTS MaxLocals,      \* MAX_LOCALS
          MaxLoops,       \* the length of compiler.loops
          MaxBreaks       \* the length of loop.breaks

(* Values the compiler puts in a chunk; the field differs with the type.   *)
NumV(n)  == [t |-> "num", n |-> n]
BoolV(b) == [t |-> "bool", b |-> b]
TextV(s) == [t |-> "text", s |-> s]        \* s: the parts of the text
FunV(f)  == [t |-> "function", f |-> f]
NothingV == [t |-> "nothing"]

(* struct compiler.  Slot 0 belongs to the callee.                          *)
Compiler(fns) ==
  [code |-> <<>>, locals |-> <<[name |-> "", depth |-> 0]>>, depth |-> 0,
   loops |-> <<>>, fns |-> fns, failed |-> FALSE]

Cerror(c) == [c EXCEPT !.failed = TRUE]

Emit(c, op, a) == [c EXCEPT !.code = Append(@, [op |-> op, a |-> a])]
EmitConst(c, v) == Emit(c, "CONST", v)
Here(c) == Len(c.code) + 1

(* emit_jump ... patch_jump: the placeholder's place is Here before it.     *)
Patch(c, at) == [c EXCEPT !.code[at].a = Here(c)]

BeginScope(c) == [c EXCEPT !.depth = @ + 1]

(* A compiler that forgets the names of the scope and leaves their values.  *)
EndScopeUnpopped(c) ==
  [c EXCEPT !.depth = @ - 1, !.locals = SelectSeq(@, LAMBDA l : l.depth < c.depth)]

(* end_scope: one OP_POP per local of the scopes deeper than this one.      *)
EndScope(c) ==
  LET kept == SelectSeq(c.locals, LAMBDA l : l.depth < c.depth)
      pops == [i \in 1..(Len(c.locals) - Len(kept)) |-> [op |-> "POP", a |-> 0]]
  IN  [c EXCEPT !.depth = @ - 1, !.locals = kept, !.code = @ \o pops]

AddLocal(c, name) ==
  IF Len(c.locals) >= MaxLocals THEN Cerror(c)
  ELSE [c EXCEPT !.locals = Append(@, [name |-> name, depth |-> c.depth])]

(* resolve_local: the latest local of that name, -1 when there is none.     *)
Slot(c, name) ==
  LET named == {i \in DOMAIN c.locals : c.locals[i].name = name}
  IN  IF named = {} THEN -1 ELSE (CHOOSE i \in named : \A j \in named : j <= i) - 1

ReadGlobal(c, name) == Emit(EmitConst(c, TextV(<<name>>)), "GET_GLOBAL", 0)

ReadName(c, name) ==
  IF Slot(c, name) >= 0 THEN Emit(c, "GET_LOCAL", Slot(c, name))
  ELSE ReadGlobal(c, name)

(* push_loop and pop_loop.                                                  *)
PushLoop(c, start) ==
  IF Len(c.loops) >= MaxLoops THEN Cerror(c)
  ELSE [c EXCEPT !.loops = Append(@, [start |-> start, breaks |-> <<>>])]

PopLoop(c) ==
  IF c.loops = <<>> THEN c
  ELSE [FoldLeft(Patch, c, Last(c.loops).breaks) EXCEPT !.loops = Front(@)]

(* statement: break leaves its jump for pop_loop to patch, silently not     *)
(* once breaks[] is full; skip jumps back.                                  *)
Break(c) ==
  IF c.loops = <<>> THEN Cerror(c)
  ELSE IF Len(Last(c.loops).breaks) >= MaxBreaks THEN c
  ELSE [Emit(c, "JUMP", 0) EXCEPT !.loops[Len(c.loops)].breaks = Append(@, Here(c))]

Skip(c) ==
  IF c.loops = <<>> THEN Cerror(c) ELSE Emit(c, "LOOP", Last(c.loops).start)

RECURSIVE Parts(_, _)

(* compile_text: the parts are pushed and concatenated; a {name} is always  *)
(* read as a global.                                                        *)
Part(c, p) == IF p.var THEN ReadGlobal(c, p.w) ELSE EmitConst(c, TextV(<<p.w>>))

Parts(c, ps) == IF ps = <<>> THEN c ELSE Parts(Emit(Part(c, Head(ps)), "CONCAT", 0), Tail(ps))

CompileText(c, ps) ==
  IF ps = <<>> THEN EmitConst(c, TextV(<<>>)) ELSE Parts(Part(c, Head(ps)), Tail(ps))

RECURSIVE Expression(_, _), Statement(_, _), Expressions(_, _), Statements(_, _)

Expressions(c, es) == IF es = <<>> THEN c ELSE Expressions(Expression(c, Head(es)), Tail(es))
Statements(c, ss) == IF ss = <<>> THEN c ELSE Statements(Statement(c, Head(ss)), Tail(ss))

(* function_body: a compiler of its own, sharing only the function table;   *)
(* no name of the enclosing one is visible in it.  made is that compiler    *)
(* when the body is done.                                                   *)
Closed(c, params, made) ==
  EmitConst([c EXCEPT !.fns = Append(made.fns, [arity |-> Len(params), code |-> made.code]),
                      !.failed = @ \/ made.failed],
            FunV(Len(made.fns) + 1))

Body(c, body, arrow) ==
  Emit(IF arrow THEN Expression(c, body) ELSE EmitConst(Statements(c, body), NothingV), "RETURN", 0)

FunctionBody(c, params, body, arrow) ==
  Closed(c, params, Body(FoldLeft(AddLocal, BeginScope(Compiler(c.fns)), params), body, arrow))

(* and_expr, or_expr: the left value stays when it decides.                 *)
RightSide(left, e, jump) ==
  Patch(Expression(Emit(Emit(left, jump, 0), "POP", 0), e.b), Here(left))

ShortCircuit(c, e, jump) == RightSide(Expression(c, e.a), e, jump)

Expression(c, e) ==
  CASE e.x = "value"  -> EmitConst(c, e.v)
    [] e.x = "text"   -> CompileText(c, e.parts)
    [] e.x = "name"   -> ReadName(c, e.name)
    [] e.x = "unary"  -> Emit(Expression(c, e.a), e.op, 0)
    [] e.x = "binary" -> Emit(Expression(Expression(c, e.a), e.b), e.op, 0)
    [] e.x = "and"    -> ShortCircuit(c, e, "JUMP_IF_FALSE")
    [] e.x = "or"     -> ShortCircuit(c, e, "JUMP_IF_TRUE")
    [] e.x = "list"   -> Emit(Expressions(c, e.es), "MAKE_LIST", Len(e.es))
    [] e.x = "field"  -> Emit(EmitConst(Expression(c, e.a), TextV(<<e.name>>)), "GET_FIELD", 0)
    [] e.x = "call"   -> Emit(Expressions(Expression(c, e.f), e.es), "CALL", Len(e.es))
    [] e.x = "pipe"   -> Emit(Expressions(ReadName(Expression(c, e.a), e.name), e.es),
                              "PIPE", Len(e.es))
    [] e.x = "lambda" -> FunctionBody(c, e.params, e.body, TRUE)

Block(c, ss) == EndScope(Statements(BeginScope(c), ss))

(* The jump out of a condition that does not hold; its place is Here before. *)
Unless(c, jump) == Emit(Emit(c, jump, 0), "POP", 0)

(* if: the jump over the other block, and where the condition's jump lands. *)
ElseBlock(then, at, s) ==
  Patch(Block(Emit(Patch(Emit(then, "JUMP", 0), at), "POP", 0), s.other), Here(then))

ThenBlock(cond, s) ==
  ElseBlock(Block(Unless(cond, "JUMP_IF_FALSE"), s.body), Here(cond), s)

IfStatement(c, s) == ThenBlock(Expression(c, s.e), s)

(* The end of every loop: back to its start; its exit jump, at `at`, lands  *)
(* on the OP_POP of the condition.                                          *)
EndLoop(c, start, at) == PopLoop(Emit(Patch(Emit(c, "LOOP", start), at), "POP", 0))

WhileBody(cond, start, s) ==
  EndLoop(Block(Unless(cond, "JUMP_IF_FALSE"), s.body), start, Here(cond))

WhileStatement(c, s) ==
  WhileBody(Expression(PushLoop(c, Here(c)), s.e), Here(c), s)

Until(cond, start) == EndLoop(Unless(cond, "JUMP_IF_TRUE"), start, Here(cond))

RepeatStatement(c, s) ==
  Until(Expression(Block(PushLoop(c, Here(c)), s.body), s.e), Here(c))

(* for each: the collection and the cursor are two hidden locals, and the   *)
(* item OP_ITER_NEXT pushed is the loop variable's slot.                    *)
EachBody(next, start, s) ==
  EndScope(EndLoop(EndScope(Statements(AddLocal(BeginScope(Unless(next, "JUMP_IF_FALSE")), s.name), s.body)),
                   start, Here(next)))

EachItem(c, s) ==
  EachBody(Emit(PushLoop(c, Here(c)), "ITER_NEXT", Len(c.locals) - 2), Here(c), s)

ForeachStatement(c, s) ==
  LET over == AddLocal(Expression(BeginScope(c), s.e), "  iterable")
  IN  EachItem(AddLocal(EmitConst(over, NumV(0)), "  index"), s)

DefGlobal(c, name) == Emit(EmitConst(c, TextV(<<name>>)), "DEF_GLOBAL", 0)

DefName(c, name) == IF c.depth > 0 THEN AddLocal(c, name) ELSE DefGlobal(c, name)

LetStatement(c, s) == DefName(Expression(c, s.e), s.name)

FunDeclaration(c, s) ==
  IF c.depth > 0 THEN Cerror(c)
  ELSE DefGlobal(FunctionBody(c, s.params, s.body, FALSE), s.name)

Store(c, name) ==
  Emit(IF Slot(c, name) >= 0 THEN Emit(c, "SET_LOCAL", Slot(c, name))
       ELSE Emit(EmitConst(c, TextV(<<name>>)), "SET_GLOBAL", 0), "POP", 0)

Assignment(c, s) == Store(Expression(c, s.e), s.name)

Statement(c, s) ==
  CASE s.s = "say"     -> Emit(Expression(c, s.e), "SAY", 0)
    [] s.s = "let"     -> LetStatement(c, s)
    [] s.s = "fun"     -> FunDeclaration(c, s)
    [] s.s = "assign"  -> Assignment(c, s)
    [] s.s = "if"      -> IfStatement(c, s)
    [] s.s = "while"   -> WhileStatement(c, s)
    [] s.s = "repeat"  -> RepeatStatement(c, s)
    [] s.s = "foreach" -> ForeachStatement(c, s)
    [] s.s = "return"  -> Emit(Expression(c, s.e), "RETURN", 0)
    [] s.s = "break"   -> Break(c)
    [] s.s = "skip"    -> Skip(c)
    [] s.s = "do"      -> Emit(Expression(c, s.e), "POP", 0)

(* she_compile: the function table with the script's functions added, the   *)
(* script itself last, or without it when it does not compile.              *)
Compile(ss, fns) ==
  LET c == Emit(EmitConst(Statements(Compiler(fns), ss), NothingV), "RETURN", 0)
  IN  [fns |-> IF c.failed THEN fns ELSE Append(c.fns, [arity |-> 0, code |-> c.code]),
       ok |-> ~c.failed]
=============================================================================
