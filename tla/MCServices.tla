------------------------------ MODULE MCServices ------------------------------
(***************************************************************************)
(* One model-checking instance for the services of the kernel.  unit says  *)
(* which of them a behaviour is about; the others keep their initial       *)
(* state.                                                                  *)
(***************************************************************************)
EXTENDS Integers, Sequences

CONSTANTS Units,    \* the services a run is about
          None      \* no record

VARIABLES unit,
          senders, receivers, pend, count, pc, asleep, first, serving, replies, answered, received, dropped,
          queue, req, istats, finished, worker, canceling,
          advisor, ask,
          timers, timer, tick, clock, arms,
          actions, line, disp, depth, ticked, emptied,
          node, edges,
          eventSeq, ring, prod, read, cursor, got,
          lruList, entry, fab, recent, blob, merge,
          now, current, ledger, sent, log, displaced,
          bytes, lhead, records, writer, curs, seen, events,
          devices, drivers, dev, walk, refuses,
          thr, rq, cur, resched, due, polNow, asking, asks, passed, raced,
          machine, boot, param, core, online, reported, cpuCount, roster, low, freed

endpointVars == <<senders, receivers, pend, count, pc, asleep, first, serving, replies, answered, received, dropped>>
inferVars    == <<queue, req, istats, finished, worker, canceling>>
adviceVars   == <<advisor, ask>>
timerVars    == <<timers, timer, tick, clock, arms>>
irqVars      == <<actions, line, disp, depth, ticked, emptied>>
graphVars    == <<node, edges>>
ringVars     == <<eventSeq, ring, prod, read, cursor, got>>
fabVars      == <<lruList, entry, fab, recent, blob, merge>>
kaalkaVars   == <<now, current, ledger, sent, log, displaced>>
logVars      == <<bytes, lhead, records, writer, curs, seen, events>>
deviceVars   == <<devices, drivers, dev, walk, refuses>>
polVars      == <<thr, rq, cur, resched, due, polNow, asking, asks, passed, raced>>
smpVars      == <<machine, boot, param, core, online, reported, cpuCount, roster, low, freed>>

coreVars == <<timerVars, irqVars, deviceVars, logVars, polVars, smpVars>>
infoVars == <<endpointVars, inferVars, adviceVars, graphVars, ringVars, fabVars, kaalkaVars>>
vars     == <<unit, coreVars, infoVars>>

(* Two callers, one of which gives up, a sender and two servers.           *)
Ep == INSTANCE Endpoint WITH Callers <- {"c1", "c2"}, Senders <- {"d1"}, Servers <- {"s1", "s2"},
                             Timed <- {"c2"}, MaxCalls <- 2

(* Two requests: without and with a deadline, of two priorities; two       *)
(* threads that ask an advisor.                                            *)
Orders == {[deadline |-> 0, priority |-> 1], [deadline |-> 2, priority |-> 2], [deadline |-> 1, priority |-> 1]}
In == INSTANCE Infer WITH Reqs <- {1, 2}, MaxTokens <- 1,
                          Askers <- {1, 2}, Candidates <- {"a", "b"}, Fallback <- "f", Stray <- "s", MaxBudget <- 2

(* Two timers, one-shot or periodic, on two cores; a line two devices      *)
(* share, of which one may be the tick's.                                  *)
Tm == INSTANCE Timer WITH Timers <- {1, 2}, Cpus <- {1, 2}, Delays <- {1}, Periods <- {1}, Sec <- 2,
                          Bases <- {0}, MaxTime <- 2, MaxArms <- 1
Ir == INSTANCE Irq WITH Cpus <- {1, 2}, Devs <- {1, 2}, Storm <- 2, MaxCount <- 2, TimerLine <- TRUE,
                        Claims <- [d \in {1, 2} |-> IF d = 1 THEN {"none"} ELSE {"none", "thread"}]

(* Four cores on each port; the boot core is any of them.                  *)
Sm == INSTANCE Smp WITH MaxCpus <- 4, Ports <- {"x86", "arm", "riscv"}, Late <- FALSE, count <- cpuCount

(* Two batch threads that only compute beside an interactive one and a     *)
(* third that starts later; three threads that ask for deadlines, of whose *)
(* sum the products wrap and those of two do not.                          *)
Load(cls)  == [cls |-> cls, prio |-> 1, cpus |-> {0}]
Fair       == [t \in {1, 2, 3, 7} |-> IF t = 1 THEN Load("interactive") ELSE Load("batch")]
Deadlines  == [t \in 4..6 |-> IF t = 4 THEN Load("realtime") ELSE Load("inference")]
Po == INSTANCE Policy WITH Cpus <- {0}, Idle <- 0, Loads <- {Fair, Deadlines}, Steady <- 2..7, Later <- {7}, Askers <- 4..6,
                           Claims <- {[period |-> 3, budget |-> 1]},
                           Width <- 128, BaseSlice <- 1, MaxSlice <- 2,
                           MaxTime <- 5, MaxAsks <- 3, now <- polNow

(* Two nodes below the root; a ring of two entries; a fabric too small   *)
(* for all its names.                                                      *)
Gr == INSTANCE GraphTree WITH Ids <- {1, 2}, Kinds <- {"t"}, Keys <- {1, 2}, Vals <- {"x"}, MaxAttrs <- 2,
                              EdgeKinds <- {"e", "f"}, MaxEdges <- 1,
                              Producers <- {"p1", "p2"}, Size <- 2, MaxSeq <- 4
Fa == INSTANCE Memfab WITH Names <- {1, 2, 3}, Cap <- 2,
                           Values <- {[id |-> "x", len |-> 1], [id |-> "y", len |-> 3]}

(* A sender and a receiver over two epochs; one probe covers two slots.    *)
Ka == INSTANCE Kaalka WITH Senders <- {1}, Receivers <- {7}, Seqs <- {1, 2, 3}, Texts <- {"t"}, Lifetimes <- {0, 4},
                           EpochSeconds <- 1, Slots <- 3, Probe <- 2, Boot <- {0, 2}, MaxTime <- 4, MaxSent <- 3

(* A ring shorter than two lines; two devices that may need one another.   *)
Lo == INSTANCE Log WITH Cpus <- {1, 2}, Readers <- {1}, RingBytes <- 5, LineMax <- 4, Lens <- {0, 2, 5},
                        Warn <- 1, Level <- 2, Sizes <- {1, 3}, MaxBytes <- 7
De == INSTANCE Device WITH Devices <- {1, 2}, Drivers <- {7, 8}, Matches <- {<<7, 1>>, <<8, 1>>}

ASSUME EndpointAssumption == Ep!EndpointAssumption
ASSUME TimerAssumption == Tm!TimerAssumption
ASSUME LogAssumption == Lo!LogAssumption
ASSUME SmpAssumption == Sm!SmpAssumption

Init ==
  /\ unit \in Units
  /\ Ep!Init /\ In!Init /\ Tm!Init /\ Ir!Init /\ Gr!Init /\ Gr!RingInit /\ Fa!Init /\ Lo!Init
  /\ unit # "kaalka" => now = 0
  /\ Ka!Init
  /\ unit # "device" => refuses = {}
  /\ De!Init
  /\ unit # "policy" => rq = <<1, 2, 3>>
  /\ Po!Init
  /\ unit # "smp" => machine = [port |-> "arm", list |-> <<1, 2, 3>>, absent |-> {}, mute |-> {}]
  /\ Sm!Init

CoreNext ==
  \/ unit = "timer" /\ Tm!Next /\ UNCHANGED <<irqVars, deviceVars, logVars, polVars, smpVars>>
  \/ unit = "irq" /\ Ir!Next /\ UNCHANGED <<timerVars, deviceVars, logVars, polVars, smpVars>>
  \/ unit = "device" /\ De!Next /\ UNCHANGED <<timerVars, irqVars, logVars, polVars, smpVars>>
  \/ unit = "log" /\ Lo!Next /\ UNCHANGED <<timerVars, irqVars, deviceVars, polVars, smpVars>>
  \/ unit = "policy" /\ Po!Next /\ UNCHANGED <<timerVars, irqVars, deviceVars, logVars, smpVars>>
  \/ unit = "smp" /\ Sm!Next /\ UNCHANGED <<timerVars, irqVars, deviceVars, logVars, polVars>>

InfoNext ==
  \/ unit = "endpoint" /\ Ep!Next /\ UNCHANGED <<inferVars, adviceVars, graphVars, ringVars, fabVars, kaalkaVars>>
  \/ unit = "infer" /\ In!ServiceNext /\ UNCHANGED <<endpointVars, adviceVars, graphVars, ringVars, fabVars, kaalkaVars>>
  \/ unit = "advice" /\ In!AdviceNext /\ UNCHANGED <<endpointVars, inferVars, graphVars, ringVars, fabVars, kaalkaVars>>
  \/ unit = "graph" /\ Gr!Next /\ UNCHANGED <<endpointVars, inferVars, adviceVars, ringVars, fabVars, kaalkaVars>>
  \/ unit = "ring" /\ Gr!RingNext /\ UNCHANGED <<endpointVars, inferVars, adviceVars, graphVars, fabVars, kaalkaVars>>
  \/ unit = "memfab" /\ Fa!Next /\ UNCHANGED <<endpointVars, inferVars, adviceVars, graphVars, ringVars, kaalkaVars>>
  \/ unit = "kaalka" /\ Ka!Next /\ UNCHANGED <<endpointVars, inferVars, adviceVars, graphVars, ringVars, fabVars>>

Next == \/ CoreNext /\ UNCHANGED <<unit, infoVars>>
        \/ InfoNext /\ UNCHANGED <<unit, coreVars>>

(* The worker thread of the inference service runs, and so does a client   *)
(* that took a request off the queue.                                      *)
Spec == Init /\ [][Next]_vars /\ In!Fairness
-----------------------------------------------------------------------------
(* Every client gets the one answer to its own request: calls and sends    *)
(* through an endpoint, inference requests beside cancellations, and       *)
(* advice within its budget or else the fallback.                          *)
AnswersMatch == /\ unit = "endpoint" => Ep!AnswerIsOwn /\ Ep!OnePlace
                /\ unit = "infer" => In!RequestsSound
                /\ unit = "advice" => In!AdviceBounded

(* What is served next: the request with the earliest deadline, then the   *)
(* highest priority; a driver for every device that one would take.        *)
ServedNext == In!EarliestFirst /\ De!ProbeLeavesNone

(* A timer is armed once and never late in its list, a dispatch misses no  *)
(* handler, and calm readers of the event ring and of the log get exactly  *)
(* what was written.                                                       *)
EventsExact == /\ unit = "timer" => Tm!TimersSound
               /\ unit = "irq" => Ir!DispatchSound
               /\ unit = "ring" => Gr!CalmReadExact
               /\ unit = "log" => Lo!LogReadExact

(* What is stored stays true: a cached digest is that of its subtree, the  *)
(* fabric's counters are those of its entries, the graph shows the device  *)
(* tree, and an envelope that was opened is not opened again.              *)
StoreTrue == /\ unit = "graph" => Gr!DigestsFresh
             /\ unit = "memfab" => Fa!FabricSound /\ Fa!MergeAdds
             /\ unit = "device" => De!GraphShowsDevices
             /\ unit = "kaalka" => Ka!OpenedOnce

(* Cores are shared as promised: deadline threads fit in what admission    *)
(* leaves them, batch threads advance together, and no two cores start on  *)
(* one stack or number.                                                    *)
CoresShared == /\ unit = "policy" => Po!AdmittedFits /\ Po!FairShare /\ Po!OnlyLastPassed
               /\ unit = "smp" => Sm!CoresApart

(* A request that is queued is answered.                                   *)
Answered == In!Answered

(* "Four classes, checked strictly in order" (docs/ARCHITECTURE.md:141).   *)
ClassOrder == unit = "policy" => Po!ClassOrder
=============================================================================
