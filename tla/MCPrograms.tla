------------------------------ MODULE MCPrograms ------------------------------
(***************************************************************************)
(* One model-checking instance for files, programs and scripts.  unit says *)
(* which part a behaviour is about; the others keep their initial state.   *)
(***************************************************************************)
EXTENDS Integers, Sequences

CONSTANTS Units,    \* the parts a run is about
          Suite     \* the scripts: "plain", "left loops" or "captures"

VARIABLES unit,
          node, file, hand, mnt,
          kind, data, size, flat, fh, rd,
          arch, at, block, tnode, readPhase,
          image, args, step, seg, pages, brk, stk,
          slot, cobj, ofile, sys,
          mem, failed, texts, list, map, chunk, orphan, said, pushed,
          vm, phase, script, began, cut, resumes,
          session, allow, gas, pending, continuation, history, typed, blocks, done, grants

vfsVars    == <<node, file, hand, mnt>>
ioVars     == <<kind, data, size, flat, fh, rd>>
initrdVars == <<arch, at, block, tnode, readPhase>>
elfVars    == <<image, args, step, seg, pages, brk, stk>>
sysVars    == <<slot, cobj, ofile, sys>>
objVars    == <<mem, failed, texts, list, map, chunk, orphan, said, pushed>>
sheVars    == <<vm, phase, script, began, cut, resumes>>
reshVars   == <<session, allow, gas, pending, continuation, history, typed, blocks, done, grants>>

fileVars   == <<vfsVars, ioVars, initrdVars, sysVars>>
scriptVars == <<elfVars, objVars, sheVars, reshVars>>
vars       == <<unit, fileVars, scriptVars>>

(* Two threads walk, create and remove below a directory something may be  *)
(* mounted on; one of them mounts and makes, the other also removes it.    *)
Vf == INSTANCE Vfs WITH Threads <- {1, 2}, Files <- {1}, Ids <- {1, 2, 3, 4}, DevRoot <- 8, DevFile <- 9,
                        MaxRef <- 3,
                        Calls <- <<{<<"open", <<"dev", "a">>, {"write", "creat"}>>, <<"unlink", <<"dev", "a">>, {}>>,
                                    <<"mkdir", <<"dev", "..", "a">>, {}>>,
                                    <<"mount", <<"dev">>, {"devfs"}>>, <<"mount", <<"a">>, {"devfs"}>>},
                                   {<<"open", <<"dev", "a">>, {"write", "creat", "excl"}>>, <<"open", <<"dev", "..", "a">>, {"dir"}>>, <<"mkdir", <<"dev", "a">>, {}>>,
                                    <<"unlink", <<"dev", "a">>, {}>>, <<"unlink", <<"dev">>, {}>>, <<"stat", <<"dev">>, {}>>}>>

(* Two handles of a file that grows past its first capacity.               *)
(* Archives of up to four headers: files and directories in any order, one *)
(* spelt with a dot, one twice, one of neither type, and an unsound one.   *)
Header(path, type, length, sound) == [path |-> path, type |-> type, blocks |-> length, sound |-> sound]
Headers == {Header(<<"a">>, "dir", 0, TRUE), Header(<<"a", "b">>, "file", 1, TRUE), Header(<<"a", "b">>, "file", 2, TRUE),
            Header(<<".", "a", "", "c">>, "dir", 0, TRUE), Header(<<"a", "c", "b">>, "file", 0, TRUE),
            Header(<<"b">>, "file", 2, TRUE), Header(<<"b">>, "link", 0, TRUE), Header(<<"a">>, "file", 1, FALSE)}
Io == INSTANCE FileIo WITH Handles <- {1, 2}, Bytes <- {1}, MaxSize <- 3, FirstCap <- 2, ReadCap <- 2,
                           Texts <- {<<1>>, <<2, 3, 4>>},
                           Archives <- UNION {[1..n -> Headers] : n \in 0..4}, phase <- readPhase

(* Headers that lie in every way at the bounds and at the width, alone or  *)
(* before a sound segment, which may fall on the pages of the first.       *)
Segment(o, f, m, v, fl, l) == [offset |-> o, filesz |-> f, memsz |-> m, vaddr |-> v, flags |-> fl, load |-> l]
Firsts  == {Segment(o, f, m, v, fl, TRUE) : o \in {0, 2, 15}, f \in {0, 1, 2, 14}, m \in {0, 1, 3, 15},
                                            v \in {2, 3, 11, 15}, fl \in {{"r", "x"}}}
Seconds == {Segment(1, 1, m, v, fl, l) : m \in {1, 2}, v \in {4, 7}, fl \in {{}, {"w"}}, l \in BOOLEAN}
Segs    == {<<a>> : a \in Firsts} \union {<<a, b>> : a \in Firsts, b \in Seconds}
Images  == [bytes : {<<5, 6, 7>>}, dyn : BOOLEAN, entry : {2, 13}, segs : Segs]
Plain   == [bytes |-> <<>>, dyn |-> FALSE, entry |-> 2, segs |-> <<>>]
El == INSTANCE Elf WITH W <- 16, Page <- 2, LoadMin <- 2, UserMax <- 12, MaxImage <- 6, Bias <- 4,
                        StackSize <- 1024, Reserve <- 512, Images <- Images \union {Plain},
                        ArgLens <- {<<>>, <<7>>, <<1, 300>>, <<300, 300>>, <<8, 8, 9, 1>>}

(* Two threads of one process share two slots.                             *)
Sy == INSTANCE Syscall WITH Threads <- {1, 2}, Slots <- {1, 2}, Objects <- {1, 2}, OpenFiles <- {1, 2},
                            FileLen <- 2, Chunk <- 2

ASSUME SyscallAssumption == Sy!SyscallAssumption

(* Three keys of which two collide at the first capacity, and a limit that *)
(* refuses a growth of each kind.                                          *)
Hash(k) == k
Ob == INSTANCE SheObjects WITH Keys <- {1, 2, 5}, Vals <- {"v", "w"}, Items <- <<"x", "y", "z">>,
                               MemLimit <- 21, ListFirst <- 2, MapFirst <- 2, ChunkFirst <- 1,
                               Deletes <- FALSE

(****************************** SHE scripts ********************************)

(* Syntax trees, written as the script is.                                  *)
N(n)          == [x |-> "value", v |-> [t |-> "num", n |-> n]]
Name(w)       == [x |-> "name", name |-> w]
Bin(op, a, b) == [x |-> "binary", op |-> op, a |-> a, b |-> b]
Is(a, b)      == Bin("EQ", a, b)
Plus(a, b)    == Bin("ADD", a, b)
To(a, b)      == Bin("MAKE_RANGE", a, b)
ListOf(es)    == [x |-> "list", es |-> es]
Yes           == [x |-> "value", v |-> [t |-> "bool", b |-> TRUE]]
Field(a, w)   == [x |-> "field", a |-> a, name |-> w]
Call(f, es)   == [x |-> "call", f |-> Name(f), es |-> es]
PipeTo(a, w, es) == [x |-> "pipe", a |-> a, name |-> w, es |-> es]
Fun(ps, e)    == [x |-> "lambda", params |-> ps, body |-> e]
Text(parts)   == [x |-> "text", parts |-> parts]
Say(e)        == [s |-> "say", e |-> e]
LetBe(w, e)   == [s |-> "let", name |-> w, e |-> e]
Set(w, e)     == [s |-> "assign", name |-> w, e |-> e]
When(e, ss)   == [s |-> "if", e |-> e, body |-> ss, other |-> <<>>]
WhenElse(e, ss, tt) == [s |-> "if", e |-> e, body |-> ss, other |-> tt]
ForEach(w, e, ss)   == [s |-> "foreach", name |-> w, e |-> e, body |-> ss]
While(e, ss)  == [s |-> "while", e |-> e, body |-> ss]
Repeat(ss, e) == [s |-> "repeat", e |-> e, body |-> ss]
Def(w, ps, ss)  == [s |-> "fun", name |-> w, params |-> ps, body |-> ss]
Give(e)       == [s |-> "return", e |-> e]
BreakIt       == [s |-> "break"]
SkipIt        == [s |-> "skip"]

(* Loops over 1, 2, 3 in the name n, whatever the statement: ss is the body. *)
Round(ss) == <<Set("n", Plus(Name("n"), N(1)))>> \o ss
Overs     == {To(N(1), N(3)), ListOf(<<N(1), N(2), N(3)>>)}
Eaches(B) == {<<ForEach("n", e, ss)>> : e \in Overs, ss \in B}
Whiles(B) == {<<LetBe("n", N(0)), While(Bin("LT", Name("n"), N(3)), Round(ss))>> : ss \in B}
Untils(B) == {<<LetBe("n", N(0)), Repeat(Round(ss), Is(Name("n"), N(3)))>> : ss \in B}

(* What a body does with an item, and how it may leave.                     *)
Works   == {Say(Name("n")), Set("t", Plus(Name("t"), Name("n"))), LetBe("u", Name("t")),
            WhenElse(Is(Name("n"), N(2)), <<LetBe("u", N(7)), Say(Name("u"))>>, <<Set("t", N(1))>>),
            ForEach("k", ListOf(<<Name("n")>>), <<Say(Plus(Name("k"), Name("t")))>>)}
Returns == {When(Is(Name("n"), N(2)), <<Give(Name("n"))>>)}
Breaks  == {When(Is(Name("n"), N(2)), <<BreakIt>>)}
Skips   == {When(Is(Name("n"), N(2)), <<SkipIt>>)}
Bodies(S, T) == {<<a, b>> : a \in S, b \in T}

(* A loop in a script or in a function, with names made and used after it.  *)
After == <<LetBe("y", N(4)), Say(Plus(Name("y"), Name("t"))),
           ForEach("m", ListOf(<<N(7), N(8)>>), <<Say(Name("m"))>>)>>
AtTop(ss)    == <<LetBe("t", N(0))>> \o ss \o After
InFun(ss) == <<Def("f", <<"t">>, ss \o After \o <<Give(Name("t"))>>), Say(Call("f", <<N(0)>>))>>
Placed(L) == {AtTop(ss) : ss \in L} \union {InFun(ss) : ss \in L}

NoLets == Works \ {LetBe("u", Name("t"))}

(* Loops left only where the body has no local of its own.                  *)
PlainLoops ==
  Placed(Eaches(Bodies(Works, Works \union Returns)) \union Whiles(Bodies(NoLets, Works \union Returns \union Breaks \union Skips))
         \union Untils(Bodies(NoLets, Works \union Returns \union Breaks)))

(* Loops with a break or a skip anywhere docs/SHE.md allows one.            *)
LeftLoops == Placed(Eaches(Bodies(Works, Breaks \union Skips)) \union Whiles(Bodies({LetBe("u", N(1))}, Breaks \union Skips)))

(* Calls, callbacks, texts and mistakes.                                    *)
Inc    == Def("inc", <<"a">>, <<LetBe("b", Plus(Name("a"), N(1))), Give(Name("b"))>>)
Down   == Def("down", <<"a">>, <<When(Is(Name("a"), N(0)), <<Give(N(0))>>),
                                 Give(Plus(N(1), Call("down", <<Plus(Name("a"), N(-1))>>)))>>)
Three  == ListOf(<<N(1), N(2), N(3)>>)
Even   == Fun(<<"a">>, Is(Bin("MOD", Name("a"), N(2)), N(0)))
CallScripts ==
  {<<Inc, Say(PipeTo(PipeTo(Three, "map", <<Name("inc")>>), "sum", <<>>))>>,
   <<Inc, Say(PipeTo(N(4), "inc", <<>>)), Give(Call("inc", <<Call("inc", <<N(1)>>)>>))>>,
   <<Inc, Say(Call("map", <<ListOf(<<Three, Three>>), Name("sum")>>)), Say(Call("inc", <<>>))>>,
   <<Inc, Say(Call("map", <<Three, Fun(<<"a">>, Call("map", <<ListOf(<<Name("a")>>), Name("inc")>>))>>))>>,
   <<Say(Call("filter", <<To(N(1), N(4)), Even>>)), LetBe("l", Call("map", <<Three, Even>>)), Say(Bin("GET_INDEX", Name("l"), N(-1)))>>,
   <<LetBe("l", ListOf(<<>>)), ForEach("n", To(N(1), N(2)), <<[s |-> "do", e |-> Call("push", <<Name("l"), Name("n")>>)]>>), Say(Name("l"))>>,
   <<Say(Call("map", <<Three, Fun(<<"a", "b">>, Name("a"))>>))>>,
   <<Say(Call("filter", <<Three, Fun(<<"a">>, Name("nobody"))>>))>>,
   <<Down, Say(Call("down", <<N(2)>>))>>, <<Down, Say(Call("down", <<N(9)>>))>>,
   <<LetBe("who", N(3)), Say(Text(<<[var |-> FALSE, w |-> "hello"], [var |-> TRUE, w |-> "who"]>>))>>,
   <<Say(N(1)), Say(Bin("MOD", N(1), N(0))), Say(N(2))>>, <<Set("nobody", N(1))>>, <<Say(Call("now", <<>>))>>,
   <<LetBe("t", N(0)), WhenElse([x |-> "or", a |-> Is(Name("t"), N(1)), b |-> [x |-> "and", a |-> N(1), b |-> Name("t")]],
        <<Say(N(1))>>, <<Say([x |-> "unary", op |-> "NOT", a |-> Name("t")]), Say([x |-> "unary", op |-> "NEG", a |-> N(5)])>>)>>}

(* Numbers, comparisons, texts by index and by count.                       *)
OperatorScripts ==
  {<<Say(ListOf(<<Bin("SUB", N(2), N(5)), Bin("MUL", N(-2), N(3)), Bin("POW", N(2), N(5)), Bin("POW", N(2), N(-1))>>)),
     Say(ListOf(<<Bin("DIV", N(-6), N(2)), Bin("DIV", N(7), N(2)), Bin("MOD", N(-7), N(2))>>)), Say(Bin("DIV", N(1), N(0)))>>,
   <<Say(ListOf(<<Bin("LE", N(1), N(1)), Bin("GT", N(2), N(1)), Bin("GE", N(0), N(1)), Bin("NEQ", N(1), Yes)>>)),
     Say(Bin("LT", N(1), Yes))>>,
   <<LetBe("w", Plus(Text(<<[var |-> FALSE, w |-> "a"]>>), N(1))), Say(Bin("GET_INDEX", Name("w"), N(1))),
     Say(Bin("GET_INDEX", Name("w"), N(-1))), Say(Field(Name("w"), "count")), Say(Field(N(3), "count"))>>,
   <<Say(Call("length", <<N(5)>>)), Say(Call("sum", <<ListOf(<<N(2), Yes>>)>>)), Say(Call("sum", <<N(2)>>))>>}

(* A text that reads a local, and a lambda that copies one.                 *)
CaptureScripts ==
  {<<Def("f", <<"who">>, <<Say(Text(<<[var |-> FALSE, w |-> "hello"], [var |-> TRUE, w |-> "who"]>>))>>),
     Say(Call("f", <<N(3)>>))>>,
   <<Def("f", <<"k">>, <<Give(Call("map", <<Three, Fun(<<"a">>, Plus(Name("a"), Name("k")))>>))>>), Say(Call("f", <<N(1)>>))>>}

NextScripts == {<<Set("t", Plus(Name("t"), N(1))), Say(Name("t"))>>}

She == INSTANCE SheVm WITH Scripts <- CASE Suite = "plain" -> PlainLoops \union CallScripts \union OperatorScripts
                                          [] Suite = "left loops" -> LeftLoops
                                          [] Suite = "captures" -> CaptureScripts,
                           Followups <- NextScripts, Gases <- {7, 1000}, StackMax <- 40, FramesMax <- 6,
                           MaxObjects <- 12, MaxRuns <- 2, MaxResumes <- 1, Allowed <- {},
                           MaxLocals <- 128, MaxLoops <- 8, MaxBreaks <- 16

(* A session whose lines open and end blocks, work, fail and use what      *)
(* .allow and .deny grant and take.                                        *)
Li(k, p) == [k |-> k, p |-> p]
Use(p)   == Li("use", p)
Do       == Li("do", "")
Re == INSTANCE Resh WITH Perms <- {"read", "net"}, Default <- {"time"}, GasLimit <- 3, PendingMax <- 3,
                         HistoryMax <- 2, MaxTyped <- 4, phase <- session,
                         Lines <- {Li("open", ""), Li("end", ""), Do, Li("bad", ""), Use("read"),
                                   Li(".allow", "read"), Li(".deny", "read"), Li(".run", "f")},
                         BootScripts <- {<<>>, <<Use("read"), Do>>},
                         RunScripts <- {<<Use("read")>>, <<Use("net"), Do>>},
                         Files <- [f |-> <<Do, Use("read")>>]

Init ==
  /\ unit \in Units
  /\ Vf!Init /\ Sy!Init /\ Ob!Init /\ She!Init /\ Re!Init
  /\ unit # "fileio" => kind = "ram"
  /\ Io!Init
  /\ unit # "initrd" => arch = <<>>
  /\ Io!ArchiveInit
  /\ unit # "elf" => image = Plain /\ args = <<>>
  /\ El!Init

FileNext ==
  \/ unit = "vfs" /\ Vf!Next /\ UNCHANGED <<ioVars, initrdVars, sysVars>>
  \/ unit = "fileio" /\ Io!Next /\ UNCHANGED <<vfsVars, initrdVars, sysVars>>
  \/ unit = "initrd" /\ Io!ArchiveNext /\ UNCHANGED <<vfsVars, ioVars, sysVars>>
  \/ unit = "syscall" /\ Sy!Next /\ UNCHANGED <<vfsVars, ioVars, initrdVars>>

ScriptNext ==
  \/ unit = "elf" /\ El!Next /\ UNCHANGED <<objVars, sheVars, reshVars>>
  \/ unit = "objects" /\ Ob!Next /\ UNCHANGED <<elfVars, sheVars, reshVars>>
  \/ unit = "she" /\ She!Next /\ UNCHANGED <<elfVars, objVars, reshVars>>
  \/ unit = "resh" /\ Re!Next /\ UNCHANGED <<elfVars, objVars, sheVars>>

Next == \/ FileNext /\ UNCHANGED <<unit, scriptVars>>
        \/ ScriptNext /\ UNCHANGED <<unit, fileVars>>

Spec == Init /\ [][Next]_vars
-----------------------------------------------------------------------------
(* Files hold what was written: vnodes live as long as they are named or   *)
(* held, a file's bytes are those of the last writes with zeros between,   *)
(* and the boot archive's tree has each of its files in place.             *)
FilesExact == /\ unit = "vfs" => Vf!VnodesCounted
              /\ unit = "fileio" => Io!ContentsExact
              /\ unit = "initrd" => Io!TreeExact

(* A program that runs was loaded as its headers say, and a system call    *)
(* keeps the file it works on while another thread closes the handle.      *)
ProgramsKept == /\ unit = "elf" => El!ProgramLoaded
                /\ unit = "syscall" => Sy!CallsKeepFiles

(* A script says and answers what docs/SHE.md says it means.               *)
RunsAsWritten == unit = "she" => She!RunsAsWritten

(* The values of a script are charged exactly and found again, and the     *)
(* lines of a session make the blocks, the history and the permissions     *)
(* that they should.                                                       *)
SessionsSound == /\ unit = "objects" => Ob!ObjectsSound
                 /\ unit = "resh" => Re!SessionSound
=============================================================================
