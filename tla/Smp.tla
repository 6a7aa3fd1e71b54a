--------------------------------- MODULE Smp ---------------------------------
(***************************************************************************)
(* Starting the other cores: arch_smp_start_secondaries of the three ports  *)
(* (arch/x86_64/smp.c, arch/aarch64/arch.c, arch/riscv64/arch.c) and what a *)
(* started core does until it joins the scheduler.  There is one parameter  *)
(* block, so the boot core launches one core at a time, and every wait for  *)
(* a core is bounded.                                                       *)
(***************************************************************************)
EXTENDS Naturals, Sequences, FiniteSets, SequencesExt

CONSTANTS MaxCpus, \* RK_MAX_CPUS
          Ports,   \* which of "x86", "arm", "riscv"
          Late     \* may a bounded wait expire on a core that answers later?

VARIABLES machine,  \* port, the boot core, the cores to ask in turn and which of them are absent or mute
          boot,     \* the boot core: where it is, which core it is at, started
          param,    \* the parameter block: stack, id, alive
          core,     \* core -> where it is, its stack, its logical id
          online,   \* aps_online; reported is aps_reported
          reported,
          count,    \* what arch_cpu_count answers
          roster,   \* logical_apic, hart_of
          low,      \* the low identity map is present
          freed     \* stacks given back

smpVars == <<machine, boot, param, core, online, reported, count, roster, low, freed>>

X86 == machine.port = "x86"
Target == machine.list[boot.at]

SmpAssumption == MaxCpus \in Nat \ {0} /\ Ports \subseteq {"x86", "arm", "riscv"}

(* The hardware's core numbers: apic id, mpidr, hart.                       *)
Cores == 0..(MaxCpus - 1)

(* The order to ask in: the MADT's enabled processors (the boot core alone  *)
(* when it is missing or its checksum is wrong), the numbers from one, the  *)
(* numbers from zero without the boot core's.                               *)
Usable(port, self, madt, enabled) ==
  CASE port = "x86"   -> IF madt THEN SetToSeq(enabled \ {self}) ELSE <<>>
    [] port = "arm"   -> [i \in 1..(MaxCpus - 1) |-> i]
    [] port = "riscv" -> [i \in 1..(MaxCpus - 1) |-> IF i <= self THEN i - 1 ELSE i]

Init ==
  /\ \E port \in Ports, self \in Cores, madt \in BOOLEAN, absent, mute \in SUBSET Cores :
       /\ self \notin absent \union mute /\ absent \cap mute = {}
       /\ port = "arm" => self = 0
       /\ port = "x86" => absent = {}                \* no refusal: such a core is not in the MADT
       /\ port # "x86" => madt
       /\ \E enabled \in (IF port = "x86" THEN SUBSET (Cores \ {self}) ELSE {{}}) :
            machine = [port |-> port, list |-> Usable(port, self, madt, enabled), absent |-> absent, mute |-> mute]
       /\ roster = [i \in {0} |-> self]
  /\ boot = [pc |-> "next", at |-> 1, started |-> 0]
  /\ param = [stack |-> 0, id |-> 0, alive |-> FALSE]
  /\ core = [c \in Cores |-> [pc |-> "off", stack |-> 0, id |-> 0]]
  /\ online = 0 /\ reported = 0 /\ count = 1 /\ low = (X86 /\ machine.list # <<>>) /\ freed = {}

(***************************** the boot core *****************************)

(* The parameter block for the core to ask next: x86 numbers it later, the  *)
(* others here.  riscv notes which hart the number stands for, before it    *)
(* starts; x86 when it has seen it alive.                                   *)
NextId == IF machine.port = "arm" THEN Target ELSE boot.started + 1
Params == [stack |-> boot.at, id |-> IF X86 THEN 0 ELSE NextId, alive |-> FALSE]
Enrolled == [i \in DOMAIN roster \union {NextId} |-> IF i = NextId THEN Target ELSE roster[i]]

(* A stack, the parameters, the startup call.  No memory, or a core the     *)
(* firmware does not know, ends the loop.                                   *)
Launch ==
  /\ boot.pc = "next" /\ boot.at <= Len(machine.list)
  /\ \/ boot' = [boot EXCEPT !.pc = "roster"] /\ UNCHANGED <<param, core, roster, freed>>
     \/ /\ Target \in machine.absent
        /\ boot' = [boot EXCEPT !.pc = "roster"] /\ freed' = freed \union {boot.at}
        /\ param' = Params
        /\ roster' = IF machine.port = "riscv" THEN Enrolled ELSE roster
        /\ UNCHANGED core
     \/ /\ Target \notin machine.absent
        /\ param' = Params
        /\ roster' = IF machine.port = "riscv" THEN Enrolled ELSE roster
        /\ core' = IF Target \in machine.mute THEN core ELSE [core EXCEPT ![Target].pc = "kicked"]
        /\ boot' = [boot EXCEPT !.pc = "alive"] /\ UNCHANGED freed
  /\ UNCHANGED <<machine, online, reported, count, low>>

(* The core reported in.                                                    *)
SeesAlive ==
  /\ boot.pc = "alive" /\ param.alive
  /\ roster' = IF X86 THEN Enrolled ELSE roster
  /\ boot' = [pc |-> IF X86 THEN "enter" ELSE "next", at |-> boot.at + (IF X86 THEN 0 ELSE 1), started |-> boot.started + 1]
  /\ UNCHANGED <<machine, param, core, online, reported, count, low, freed>>

(* The wait ran out: x86 takes the stack back and goes on, the others stop. *)
GiveUp ==
  /\ boot.pc = "alive" /\ ~param.alive
  /\ Late \/ Target \in machine.mute
  /\ IF X86 THEN boot' = [boot EXCEPT !.pc = "next", !.at = @ + 1] /\ freed' = freed \union {boot.at}
     ELSE boot' = [boot EXCEPT !.pc = "roster"] /\ UNCHANGED freed
  /\ UNCHANGED <<machine, param, core, online, reported, count, roster, low>>

(* "A second core must not be launched until the first has left" the        *)
(* parameter block: the core's number is taken by then.                     *)
EnteredAtOnce == TRUE
Entered == online >= boot.started
SeesEntered ==
  /\ boot.pc = "enter" /\ (Late \/ Entered)
  /\ boot' = [boot EXCEPT !.pc = "next", !.at = @ + 1]
  /\ UNCHANGED <<machine, param, core, online, reported, count, roster, low, freed>>

(* The loop is over; x86 waits for the roster and drops the identity map.   *)
Finish ==
  /\ boot.pc = "roster" \/ (boot.pc = "next" /\ boot.at > Len(machine.list))
  /\ ~X86 \/ Late \/ reported >= boot.started
  /\ boot' = [boot EXCEPT !.pc = "done"] /\ low' = FALSE
  /\ UNCHANGED <<machine, param, core, online, reported, count, roster, freed>>

(***************************** the other cores ****************************)

(* The entry code loads its stack (and its number) from the block, then     *)
(* says it is alive.                                                        *)
CoreLoads(c) ==
  /\ core[c].pc = "kicked"
  /\ core' = [core EXCEPT ![c] = [pc |-> "loaded", stack |-> param.stack, id |-> param.id]]
  /\ UNCHANGED <<machine, boot, param, online, reported, count, roster, low, freed>>

CoreAlive(c) ==
  /\ core[c].pc = "loaded"
  /\ param' = [param EXCEPT !.alive = TRUE]
  /\ core' = [core EXCEPT ![c].pc = IF X86 THEN "alive" ELSE "test"]
  /\ UNCHANGED <<machine, boot, online, reported, count, roster, low, freed>>

(* x86_ap_entry numbers the cores as they arrive.                           *)
CoreNumbers(c) ==
  /\ core[c].pc = "alive"
  /\ online' = online + 1
  /\ core' = [core EXCEPT ![c].pc = "store", ![c].id = online + 1]
  /\ UNCHANGED <<machine, boot, param, reported, count, roster, low, freed>>

(* The count of cores online: x86 stores its own number plus one, the       *)
(* others test it against the count first and store it when it is larger.   *)
CoreTests(c) ==
  /\ core[c].pc = "test"
  /\ core' = [core EXCEPT ![c].pc = IF core[c].id + 1 > count THEN "store" ELSE "up"]
  /\ UNCHANGED <<machine, boot, param, online, reported, count, roster, low, freed>>

CoreCounts(c) ==
  /\ core[c].pc = "store"
  /\ count' = core[c].id + 1
  /\ core' = [core EXCEPT ![c].pc = IF X86 THEN "counted" ELSE "up"]
  /\ UNCHANGED <<machine, boot, param, online, reported, roster, low, freed>>

CoreReports(c) ==
  /\ core[c].pc = "counted"
  /\ reported' = reported + 1
  /\ core' = [core EXCEPT ![c].pc = "up"]
  /\ UNCHANGED <<machine, boot, param, online, count, roster, low, freed>>

Next ==
  \/ Launch \/ SeesAlive \/ GiveUp \/ SeesEntered \/ Finish
  \/ \E c \in Cores : CoreLoads(c) \/ CoreAlive(c) \/ CoreNumbers(c) \/ CoreTests(c) \/ CoreCounts(c) \/ CoreReports(c)

-----------------------------------------------------------------------------
Running  == {c \in Cores : core[c].pc \notin {"off", "kicked"}}
Numbered == {c \in Running : core[c].id > 0}

(* Cores that answer in time run on a stack each, and no stack was taken    *)
(* back; a number reaches the one core that has it, an interrupt sent to it *)
(* included; and no core is left in the trampoline without the low map.     *)
CoresApart ==
  /\ \A c \in Running : core[c].stack \notin freed
  /\ \A c, d \in Running : c # d => core[c].stack # core[d].stack
  /\ \A c \in Numbered : core[c].id <= boot.started =>
        c = IF machine.port = "arm" THEN core[c].id ELSE roster[core[c].id]
  /\ \A c, d \in Numbered : c # d => core[c].id # core[d].id
  /\ X86 /\ ~low => \A c \in Cores : core[c].pc \notin {"kicked", "loaded", "alive"}

(* When every started core has joined, arch_cpu_count is the number of      *)
(* cores that did (include/rk/arch.h:22, "CPUs brought online").            *)
OnlineCounted ==
  boot.pc = "done" /\ (\A c \in Cores : core[c].pc \in {"off", "up"}) => count = boot.started + 1
=============================================================================
