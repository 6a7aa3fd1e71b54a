--------------------------------- MODULE Resh ---------------------------------
(***************************************************************************)
(* kernel/she/resh.c: the shell's session.  A boot script trusted by its    *)
(* position, the permissions and the script of the kernel command line,     *)
(* then the prompt, which gathers the lines of a block until the compiler   *)
(* no longer runs out of input.  A line is a kind and the permission it     *)
(* concerns: "open" and "end" of a block, "do" for a statement, "use" for a *)
(* call of a guarded builtin, "bad" for a mistake, ".allow", ".deny" and    *)
(* ".run"; p says which permission, or which file.                          *)
(***************************************************************************)
EXTENDS Naturals, Sequences, SequencesExt, Functions

CONSTANTS Perms, Default,   \* permissions; RESH_DEFAULT_ALLOW
          Lines,            \* what may be typed
          BootScripts, RunScripts, Files,  \* boot.she, run=, and what .run finds: sequences of lines
          GasLimit,         \* vm->gas_limit, in lines
          PendingMax,       \* the pending buffer, in lines
          HistoryMax,
          MaxTyped          \* bound: lines typed

VARIABLES phase,    \* "boot", "run", "prompt", "off"
          allow, gas,
          pending, continuation,
          history,
          typed,    \* history: the lines typed
          blocks,   \* history: what became of them, block by block
          done,     \* history: guarded calls that went through: permission, in which phase
          grants    \* history: permissions of the command line

reshVars == <<phase, allow, gas, pending, continuation, history, typed, blocks, done, grants>>

Init ==
  /\ phase = "boot" /\ allow = Default /\ gas = GasLimit
  /\ pending = <<>> /\ continuation = FALSE /\ history = <<>>
  /\ typed = <<>> /\ blocks = <<>> /\ done = {} /\ grants = {}

(* What she_compile makes of the lines: an `end` too many is a mistake on   *)
(* its line; a block left open is a mistake at the end of the input, and    *)
(* recovery at the next line means an earlier mistake does not hide it.     *)
Nesting(ls) == FoldLeft(LAMBDA d, l : CASE l.k = "open" -> d + 1 [] l.k = "end" /\ d > 0 -> d - 1 [] OTHER -> d, 0, ls)
Incomplete(ls) == Nesting(ls) > 0
Dot(l)   == l.k \in {".allow", ".deny", ".run"}
Wrong(ls) == Incomplete(ls) \/ \E i \in DOMAIN ls :
                \/ ls[i].k = "bad" \/ Dot(ls[i])
                \/ ls[i].k = "end" /\ Nesting(SubSeq(ls, 1, i - 1)) = 0

(* she_eval under the permissions a: a line costs its share of the gas, and *)
(* a guarded call without its permission, or empty gas, stops the script.   *)
Ran(ls, a, g) ==
  LET refused == {i \in DOMAIN ls : ls[i].k = "use" /\ ls[i].p \notin a}
      upto == IF Wrong(ls) THEN 0
              ELSE CHOOSE n \in 0..Len(ls) : /\ n <= g /\ \A i \in refused : n < i
                                             /\ n = Len(ls) \/ n = g \/ n + 1 \in refused
  IN  [gas |-> g - upto, ok |-> ~Wrong(ls) /\ upto = Len(ls), stopped |-> ~Wrong(ls) /\ upto < Len(ls) /\ upto = g,
       used |-> {ls[i].p : i \in {j \in 1..upto : ls[j].k = "use"}}]

(* The boot script runs with every permission, and gives them back; then    *)
(* allow= adds its own.                                                     *)
KeptAll(saved) == Perms
Restored(saved) == saved
Boot ==
  /\ phase = "boot"
  /\ \E s \in BootScripts, g \in SUBSET Perms :
       LET r == Ran(s, Perms, gas)
       IN  /\ gas' = r.gas /\ done' = {[p |-> p, in |-> "boot", at |-> 0] : p \in r.used}
           /\ allow' = Restored(allow) \union g
           /\ grants' = g
  /\ phase' = "run"
  /\ UNCHANGED <<pending, continuation, history, typed, blocks>>

(* run= and once.                                                           *)
RunOption ==
  /\ phase = "run"
  /\ \/ \E s \in RunScripts :
          LET r == Ran(s, allow, gas)
          IN  gas' = GasLimit /\ done' = done \union {[p |-> p, in |-> "run", at |-> 0] : p \in r.used}
     \/ UNCHANGED <<gas, done>>
  /\ phase' \in {"prompt", "off"}
  /\ UNCHANGED <<allow, pending, continuation, history, typed, blocks, grants>>

(* dot_command, of those that change the session.                           *)
DotCommand(l) ==
  /\ allow' = CASE l.k = ".allow" -> allow \union ({l.p} \intersect Perms)
                [] l.k = ".deny"  -> allow \ {l.p}
                [] OTHER -> allow
  /\ LET r == Ran(IF l.k = ".run" THEN Files[l.p] ELSE <<>>, allow, GasLimit)
     IN  /\ gas' = r.gas
         /\ done' = done \union {[p |-> p, in |-> "prompt", at |-> Len(blocks) + 1] : p \in r.used}

(* resh_exec_line on a whole block.  An expression is tried as `say (...)`  *)
(* first: it runs once either way.                                          *)
ExecLine(ls) ==
  LET r == Ran(ls, allow, GasLimit)
  IN  /\ history' = Append(IF Len(history) < HistoryMax THEN history ELSE Tail(history), ls)
      /\ IF Dot(ls[1]) THEN DotCommand(ls[1])
         ELSE /\ gas' = (IF r.stopped THEN GasLimit ELSE r.gas)
              /\ done' = done \union {[p |-> p, in |-> "prompt", at |-> Len(blocks) + 1] : p \in r.used}
              /\ UNCHANGED allow
      /\ blocks' = Append(blocks, [lines |-> ls, kept |-> TRUE])

(* One line at the prompt: it opens or continues a block, is more than the  *)
(* buffer holds, or completes what is then executed.                        *)
TooLong(ls) == Len(ls) > PendingMax
KeptLines(ls) == ls
Emptied(ls) == <<>>
Prompt ==
  /\ phase = "prompt" /\ Len(typed) < MaxTyped
  /\ \E l \in Lines :
       LET ls == Append(pending, l)
       IN  /\ typed' = Append(typed, l)
           /\ IF pending # <<>> /\ TooLong(ls)
              THEN /\ pending' = Emptied(ls)
                   /\ blocks' = Append(blocks, [lines |-> ls, kept |-> FALSE])
                   /\ UNCHANGED <<allow, gas, continuation, history, done>>
              ELSE IF Incomplete(ls)
              THEN /\ pending' = ls /\ continuation' = TRUE /\ gas' = GasLimit
                   /\ UNCHANGED <<allow, history, blocks, done>>
              ELSE ExecLine(ls) /\ pending' = <<>> /\ continuation' = FALSE
  /\ UNCHANGED <<phase, grants>>

Next == Boot \/ RunOption \/ Prompt

-----------------------------------------------------------------------------
(* The last word of the transcript on permission p, before block n.         *)
Granted(p, n) ==
  FoldLeft(LAMBDA g, b : IF ~b.kept \/ b.lines[1].p # p THEN g
                         ELSE CASE b.lines[1].k = ".allow" -> TRUE [] b.lines[1].k = ".deny" -> FALSE [] OTHER -> g,
           p \in Default \union grants, SubSeq(blocks, 1, n - 1))

(* Every line typed belongs to exactly one block, in order, or is still     *)
(* pending in a block that is open; and a guarded call goes through only    *)
(* under a permission that the transcript grants at that place, whatever    *)
(* the boot script was trusted with.  history holds the last blocks.        *)
SessionSound ==
  /\ typed = FlattenSeq([i \in DOMAIN blocks |-> blocks[i].lines]) \o pending
  /\ pending # <<>> => Incomplete(pending)
  /\ \A d \in done : CASE d.in = "boot"   -> TRUE
                       [] d.in = "run"    -> d.p \in Default \union grants
                       [] d.in = "prompt" -> Granted(d.p, d.at)
  /\ LET kept == SelectSeq(blocks, LAMBDA b : b.kept)
     IN  history = [i \in 1..Len(history) |-> kept[Len(kept) - Len(history) + i].lines]
=============================================================================
