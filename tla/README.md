# Verification of the RESENTMENT kernel

This directory holds TLA+ models of the RESENTMENT kernel's core logic, the TLC
configurations that model-check them on small instances, and theorems that the
TLA+ proof system checks for every value of the constants. The reference is the
source: every definition names, in `PROJECT.json` under `map`, the lines it
translates, and paths below are relative to the root of the repository.

## 1. The system

RESENTMENT is a freestanding C kernel for x86_64, aarch64 and riscv64. The
portable part (`kernel/`, `include/rk/`) is linked with one architecture
directory (`arch/*`). Its parts, the state each keeps and what it promises:

| Part | Source | State | Operations | What must hold |
|---|---|---|---|---|
| Scheduler core | `kernel/sched/sched.c` | one shared run queue; per core: current, idle, `prev_pending`, `need_resched`, `preempt_disable`, `idling`; per thread: state, links | `__schedule`, switch, finish, tick, block, wake, sleep, start, exit | a thread is linked once, runs on one core, on its own stack; a runnable thread is never dropped; a wakeup is never lost |
| Scheduling policy | `kernel/sched/sched.c` | class, priority, deadline, budget, vruntime | `pick_next`, `slice_for`, budget accounting, admission | classes are ordered; an overrun is demoted only until the period ends; admission caps utilisation |
| Wait queues and sleeping locks | `kernel/sched/sched.c`, `kernel/sync/sync.c` | waiters; owner, count, readers/writer, done | lock, unlock, wait, post, signal | exclusion, no lost wakeup, writers preferred |
| IPC | `kernel/ipc/ipc.c` | endpoints' sender and receiver lists, pending messages on stacks, channel rings, notification bits | call, send, recv, reply, read, write, signal, poll | a message is delivered once and answered once, bytes stay in order, no bit is lost |
| Capabilities | `kernel/cap/cap.c` | capability space slots, object references and generation | install, lookup, derive, grant, close, revoke | rights never grow, revocation reaches every handle, every reference is returned |
| Kaalka seals | `kernel/crypto/kaalka.c` | epoch, ledger of accepted seals | make, verify, accept | a seal is valid in its window and accepted once |
| Physical memory | `kernel/mm/pmm.c` | buddy free lists, page frames | alloc, free, get, put | blocks never overlap, free and used partition memory |
| Kernel heap | `kernel/mm/kheap.c` | slabs, free lists, large blocks | cache alloc/free, kmalloc, kfree, krealloc | an object is handed out once |
| Virtual memory | `kernel/mm/vmm.c` | areas, objects, page tables | map, unmap, protect, clone, fault | areas are disjoint, private pages stay private |
| Interrupts and time | `kernel/core/irq.c`, `kernel/core/time.c` | action lists, nesting depth, timer list, replay clock | dispatch, free, timer add/cancel/tick | a cancelled timer does not fire, time is monotone |
| Runtime graph | `kernel/graph/graph.c` | nodes, edges, lazy digests, event ring | create, destroy, link, set, digest, record, read | a digest equal to the recomputed one, torn records detected |
| Memory fabric | `kernel/graph/memfab.c` | entries, LRU list, byte total | put, get, evict | under budget, least recently used goes first |
| KV cache | `kernel/ai/kv.c` | pages with digests and reference counts, sequences | append, fork, release, evict | a page in use is never freed, sharing is counted |
| Inference | `kernel/ai/infer.c`, `model.c`, `llm.c`, `accel.c`, `tensor.c`, `ops.c` | request queue, sessions, models | submit, cancel, worker, generate | a request completes once |
| File systems | `kernel/fs/*` | mounts, nodes, open files | open, read, write, seek, close, mount | reference counts, offsets |
| Programs and calls | `kernel/exec/elf.c`, `kernel/syscall/syscall.c` | loaded segments | load, dispatch | every user range is checked before use |
| SHE language and shell | `kernel/she/*` | tokens, chunks, VM stack, gas, values | compile, run, builtins | the VM stays in its limits |
| Devices, log, boot, panic | `kernel/core/*` | device list, log ring | probe, bind, log | the ring keeps the newest records |
| Library and crypto primitives | `kernel/lib/*`, `kernel/crypto/*`, `include/rk/*` | none, or a lock word | strings, 128-bit arithmetic, hashes, ticket lock | results equal their definitions |
| Architecture ports | `arch/*` | page tables, interrupt controllers, per-core blocks | boot, traps, paging, SMP start | table entries map what they say |
| Console, tools, user, web | `drivers/`, `tools/`, `user/`, `web/` | screen, files | drawing, image building | presentation and tooling |

How they interact: every blocking call ends in a wait queue and `__schedule`;
the timer interrupt enters the scheduler from below, on any core, wherever
interrupts are on. IPC, sleeping locks and inference requests are built on
`sched_block`/`sched_wake` or on polling with `sched_yield`. System calls
resolve every handle through a capability space, whose lookups consult object
generations and Kaalka seals. Memory objects, graph nodes, KV pages and fabric
entries are reference counted and shared between components.

What is hard: several cores share one run queue and take locks one after the
other rather than together; the tick preempts between any two lock sections;
conditions are tested under one lock and acted on under another; timeouts race
with answers; stack-allocated messages outlive the call that made them.

The hazards found while reading, each at its line, are listed in `PROJECT.json`
under `hazards`, with the properties that would catch them going wrong.

## 2. Plan

Modelled first was what everything else stands on, the scheduler, then what
threads do with it: sleeping locks, message passing, and the authority that
messages carry. The memory managers, the services and the programs followed.
Components of the same shape share a model-checking module in which a variable
chosen in the initial state says which of them a behaviour is of (`lock` in
`MCSync`, `unit` in the others), and one run checks them all.

Each component whose promises are proved has a module of proofs beside it:
`SchedProofs`, `WaitQueueProofs` (the part all sleeping objects share),
`SyncProofs`, `ChannelProofs`, `EndpointProofs`, `CapProofs` and `ServiceProofs`;
`Lists` has what their proofs need of linked lists and of rings.

What the plan has left:

1. Proofs: of the services without a theorem, `Kaalka` (`OpenedOnce`), `Policy` and `Vfs`.
2. Within modelled components: `thread_destroy` and `thread_join` in `Sched`, the
   lifetime of endpoints in `Endpoint`, `capspace_destroy` in `Cap`, readdir and the
   texts of graphfs, maps in scripts.
3. 128-bit division, the calendar and the ring buffer as pure functions.

## 3. The modules

An action is what one core does with one lock held, or between two lock
sections: the finest grain at which another core or the timer can see a
difference. Definitions marked `mutant:` are plausible bugs; each property is
shown to fail for one of them.

### Scheduler: `Sched`, `SchedProofs`

| Code | Model |
|---|---|
| `t->state`, `t->runq_link` | `state`, `links` (0 or 1; 2 is a node linked twice, that is, a corrupt list) |
| where a thread is between two lock sections | `pc`, `arg` |
| a wait queue and its lock | `waiters`, `wlock` |
| the current thread of a core, `prev_pending`, `need_resched`, `preempt_disable`, `idling` | `current`, `prevPending`, `needResched`, `preemptOff`, `idling` |
| where a core is inside `__schedule` or `sched_tick` | `phase`, `target` |

`Schedule` is `__schedule` up to the release of the run queue lock, and is a
part of every action that calls it. `ContextSwitch` and `FinishSwitch` follow as
steps of their own, because other cores run between them. `TickExpire`,
`TickEnqueue` and `TickResched` are `sched_tick`, whose two locks are taken one
after the other; the tick may come on any core where interrupts are on. Each
remaining action is one lock section of the call it is named for. Abstracted:
which ready thread is picked, the order of waiters, the value of the clock.
There is one wait queue. `Ops` says which calls the threads make.

### Wait queues and sleeping locks: `WaitQueue`, `RwLock`, `Semaphore`, `Completion`, `Mutex`, `MCSync`, `WaitQueueProofs`, `SyncProofs`

`WaitQueue` is the part of the scheduler a lock sees: `Link`, `Block`, `Unlink`
for a waiter, `Pop` and `Wake` (or `PopAll`) for a waker, `Expire` for the tick.
A wakeup that arrives between `Link` and `Block` does nothing, as in the code. A
thread makes a call by entering `link`, `pop` or `popall` with the location to
return to. Each lock `EXTENDS` it, holds the fields of its C structure, and has
one action for every turn of the loops in `kernel/sync/sync.c` under the lock's
spinlock. `mode`, `holding` and `holds` are histories of what the calls returned,
`result` of how a wait for a completion ended. `MCSync` instantiates the four locks and `Notify` over the same
threads; `lock` says which of them a behaviour is of.

### IPC: `Channel`, `ChannelFifo`, `ChannelProofs`, `Notify`, `Endpoint`, `EndpointProofs`

`Channel` is `rk_channel`: `ring`, `head`, `tail`, `closed`, and per thread what
is left to write (`want`) or was just read (`chunk`). `WriteTry` and `ReadTry` are
one turn of the loops under `c->lock`, `WriteMore` and `ReadMore` what follows it
(deadline, one-millisecond wait), `Close` and `CloseWriters` the two wakeups of a
close. A byte is a pair of its writer and its number in the writer's stream, so
that loss, duplication and reordering all show. `Byte(p)` is the byte at position `p`
of the stream. `ChannelFifo` is the abstract
specification, a bounded pipe that can be closed.

`Notify` is `rk_notify`: the word `bits`, read and written in separate steps as
the code's loads and stores are; `owed` is the history of bits signalled and not
yet returned.

`Endpoint` is the rendezvous of `rk_ipc_call`, `rk_ipc_send`, `rk_ipc_recv` and
`rk_ipc_reply`. The pending record lives on the caller's stack: once the call has
returned, a read of it yields anything and a write lands in the record of the
caller's next call, in dead memory, or nowhere (`Reads`, `Write`). `serving` is
the record a server holds between two lock sections, `replies` what its reply
capabilities point at. A client tests the list of
receivers, reads its first record (`first`) and wakes it in three steps, as the code
does without the lock. A caller polls its record with `sched_yield`, a server
blocks, with or without a timeout. A call that was copied out is kept behind a reply
capability (`KeepReply`), is `dropped` when that capability cannot be made, or, by a
server that passed no `reply_out`, is finished like a send (`Finish`, `Finished`). No
thread both calls and sends. A seal that does not verify is a choice made when the message is sent.
A caller whose stack slot is still linked makes no further call: linking it again
would corrupt the list, and the model ends there.

### Capabilities: `Cap`, `CapProofs`

`slots`, `used`, `gen`, `refs` are the fields of the space and of the object. A
task has one thread and one space; `op` holds what its call carries from one lock
section to the next, and `pc` which section comes next (`install`, `get`, `put`,
`reread`, `once`, `close`). `Roots` are the rights a system call installs an object
with: the open mode of a file, and more for an endpoint. `Mint` is the creation of an object by a system call,
`GrantLookup` and `GrantReread` are `cap_grant` as `deliver` calls it while the
client waits in `rk_ipc_call` (`Call`, `CallReturn`); a task in `timed` may be back
from its call at any time. `Revoke` is `cap_revoke_recursive` by the kernel code
that owns the object: no caller of `cap_install` gives the right that the system
call's `cap_revoke` asks for. A behaviour ends where a thread would count references
in an object that was released.

### Memory: `Pmm`, `Kheap`, `Vmm`, `PageTable`, `Kv`, `MCMemory`

`Pmm` starts from a boot map: `Boots` places the page array as `pmm_init` does,
`Published` splits the free runs into blocks, and from there `AllocPages`,
`FreePages`, `PageGet` and `PagePut` work on `page` and `freeList`. The last put of a
page and the freeing of its block are two steps (`putting`), as they are two lock
sections in the code. `Kheap` stands on a supply of blocks: slabs with their free
lists, `Alloc` through `SlabNew` outside the cache lock, the header and alignment
of large blocks, and the accounting, each a step.

`Vmm` has areas over shared objects: `MapObject`, `Unmap`, `Protect`, `Clone`,
`AsDestroy` and the fault handler with demand paging, growth of stacks and copy on
write; memory may run out at any page. An operation on several areas takes or drops
its references at once, since it holds the space's lock throughout: `Named` counts how
many of the areas name each object, `Get` and `Put` add and subtract, and `Unlinked` is
what is left of the list. `PageTable` is `arch_map`, `arch_unmap`,
`arch_protect` and `arch_translate` of the three ports on a two-level table with
large pages: `ent` is the table, `flat` what the calls asked for, and `port` chosen
in the initial state. `Mapped` is what the hardware would translate to, `Translate` what
`arch_translate` reports, which on aarch64 goes by `PXN` alone; `torn` are the pages that
x86's unmap of part of a large page, or riscv's calls on large entries, did not treat
as asked. `Kv` is the attention cache: pages found by digest, shared by
forks, kept on a list and evicted under a budget. `Evict` says which pages go: one
that nobody references goes if those before it in the list have not made the room yet
(`BytesAt`). An append without memory (`NoMemory`) evicts all the same.

### Services: `MCServices`

- `Infer` is `kernel/ai/infer.c`, two parts that share no state. The worker takes the best request
  (`Pick`), marks it running (`Start`), makes tokens, and completes it, each a step,
  beside submissions and the two halves of a cancellation. An advisor is asked
  without a lock while others register.
- `Timer` is the sorted list, the tick on several cores and the replay clock.
- `Irq` is the walk of a dispatch without the line's lock, beside requests and frees at
  any time. A free moves the positions of walks further down; a walk that stands on the
  freed action (`lost`) may go on anywhere in the list. The line is masked after the lock that emptied its list was released (`emptied`).
- `GraphTree` holds nodes, attributes, edges and the cached digests (`valid`, `digest`;
  `short` marks a node that lost an edge when the other end was destroyed), and
  the lock-free event ring with the stores of a record in steps of their own.
- `Memfab` is the fabric's list, chains and counters; a merge takes the lock once for
  each entry, and a put may find no memory after it has evicted. `Kaalka` has epochs,
  seals, envelopes and the ledger, `Log` the byte ring and its cursors.
- `Device` is the boot thread that registers drivers and probes, while devices are
  linked, get their graph nodes, and are taken away in the unlocked steps of the code.
  `rk_device_unregister` has no caller in the repository; it is modelled as the API
  that drivers are given.
- `Policy` is the part of `kernel/sched/sched.c` that `Sched` abstracts: which
  thread is picked, for how long, and what a deadline thread may claim; the sum of
  claims and its result are two steps, and threads may start while others run. A
  switch is one step there and time counts in ticks.
- `Smp` starts cores: the boot core's bounded waits against what a started core
  does, on the three ports with their one parameter block.

A hash is the tuple it is taken of, so that equal digests mean equal contents and
nothing else.

### Files, programs and scripts: `MCPrograms`

- `Vfs` is path resolution and the operations on names with every reference they
  take. Nothing locks a directory, so resolution goes one component a step, finding
  an entry and taking its reference are two, and create and unlink are made of the
  code's unlocked steps (`hand` holds a call's step and nodes); a change of a list is
  one step. `twice`, `clash` and `loose` mark nodes that two calls raced for. A
  behaviour ends where a call goes on with a freed node (`Torn`). `FileIo` has the
  bytes of files, positions, reading a whole file, and the pass over the boot archive.
- `Elf` is the loader with addresses that wrap at `W`; `Syscall` file calls of
  threads that share handles: a handle is looked up, the pointer read from its object,
  and references taken and dropped in steps of their own; `lost` marks a call whose
  object was freed before it had a reference or had read the pointer.
- `SheCompile` turns syntax trees into instructions as the grammar functions of
  `kernel/she/compile.c` emit them, map literals and `ask` apart; `SheVm` executes one
  instruction a step, on whole numbers, texts, lists and ranges (a quotient or power
  that is no whole number is a real, and only shown), with the C stack of builtins
  that call back (`runs`), and at its end states what a script means by recursion
  over the tree. The two share only the values.
- `SheObjects` is the heap of `kernel/she/value.c` under its budget, `Resh` the
  shell's session.

## 4. The runs

| Run | Instance | What it checks |
|---|---|---|
| `SchedSmp` | 3 cores, 4 threads; yield, start, exit | `StackExclusive`, `QueueSound`, `NoneForgotten`, `OnlyReadyResumed`: the shared queue and `prev_pending` lose no thread, run none twice, and share no stack |
| `SchedUp` | 1 core, 3 threads; every call but the timed wait | `IInv` (the inductive invariant of section 5, of which the types are a part and which implies the properties of `SchedSmp`) |
| `SchedSmpBlock` | 2 cores, 2 threads; wait, wake | violates `StackExclusive` (finding 1) |
| `SchedLostWakeup` | 1 core, 2 threads; wait, wake | violates `NoLostWakeup` (finding 2) |
| `Sync` | 3 threads on one object of five kinds, 1 permit, depth 2, one with a timeout | `RwExclusion`, `WriterPreferred`, `PermitsConserved`, `HolderOwns`, `LinkedOnce`; `TimedWaitReturns` and `SleepersWoken` |
| `Channel` | 2 writers, 1 reader, a ring of 2 bytes, writes of 1 or 2 that start within the first 2 bytes | `RefinesFifo`, `AcceptedExactly`, `CloseReleases`, `ReaderServed` |
| `Cap` | 2 tasks with 2 slots, an endpoint and a reply object, one revocation, one tick of the clock | `WaitedAmplifiesNothing`, `ObjectAlive`, `RefsCounted`, `SingleUse` |
| `CapRevoke` | as `Cap` with an endpoint only | violates `RevokedStaysDead` (finding 3) |
| `Memory` | five managers: two boot maps, 2 users; 2 threads, 4 sizes; a parent and its clone; tables of 3 ports; 2 caches | `FramesSound`, `HeapSound`, `SpacesSound`, `PagesLive`, `TranslationRight`, `BudgetKept` |
| `Services` | thirteen services, see below | `AnswersMatch`, `EventsExact`, `StoreTrue`, `CoresShared`, `ServedNext`, `Answered` |
| `Programs` | files, archives, programs, scripts, sessions, see below | `FilesExact`, `ProgramsKept`, `RunsAsWritten`, `SessionsSound` |
| `SheLoops` | scripts whose loops are left where the body has a local | violates `RunsAsWritten` (finding 4) |

`SpacesSound`, `PagesLive` and `BudgetKept` are stated in `Vmm` and `Kv`. The other
properties of `Memory` and each of `Services` and `Programs` are conjunctions, over the
parts, of the invariants stated in the parts' own modules:

| Property | Parts |
|---|---|
| `FramesSound` | `Pmm` (`FramesOwnedOnce`, `Coalesced`) |
| `HeapSound` | `Kheap` (`ObjectsOnce`, `PayloadsFit`) |
| `SpacesSound` | `Vmm` (`AreasApart`, `ObjectsBalanced`, `TranslationsOwned`) |
| `TranslationRight` | `PageTable` |
| `AnswersMatch` | `Endpoint` (`AnswerIsOwn`, `OnePlace`), `Infer` (`RequestsSound`, `AdviceBounded`) |
| `EventsExact` | `Timer` (`TimersSound`), `Irq` (`DispatchSound`), `GraphTree` (`CalmReadExact`), `Log` (`LogReadExact`) |
| `StoreTrue` | `GraphTree` (`DigestsFresh`), `Memfab` (`FabricSound`, `MergeAdds`), `Device` (`GraphShowsDevices`), `Kaalka` (`OpenedOnce`) |
| `CoresShared` | `Policy` (`AdmittedFits`, `FairShare`, `OnlyLastPassed`), `Smp` (`CoresApart`) |
| `ServedNext` | `Infer` (`EarliestFirst`), `Device` (`ProbeLeavesNone`) |
| `Answered` | `Infer`, under fairness |
| `FilesExact` | `Vfs` (`VnodesCounted`), `FileIo` (`ContentsExact`, `TreeExact`) |
| `ProgramsKept` | `Elf` (`ProgramLoaded`), `Syscall` (`CallsKeepFiles`) |
| `RunsAsWritten` | `SheVm` over `SheCompile` |
| `SessionsSound` | `SheObjects` (`ObjectsSound`), `Resh` (`SessionSound`) |

### Bounds

Three cores let one core pick a thread while a second is switching away from it
and a third starts it; four threads keep the queue non-empty while three run.
`SchedUp` needs a waiter, a waker and a bystander. Three threads on a lock are a
holder and two that compete; two of them can sleep on different queues of a
reader-writer lock. A ring of two bytes with writes of two is full, empty, partly
full and, since both writers may be let in before either has written, wrapped
round. Two slots let a handle be closed and its slot reused while
the other is in use; `MaxTime` 1 lets a capability expire once and `MaxGen` 2 lets an
object be revoked once; callers ask for one mask, which an endpoint's rights cut.

In `Memory`, orders 0 to 2 let a block be split and merged twice; the boot maps
have a hole, an initrd, an unaligned base, a kernel end in the middle of a page and
no low memory; sizes of the heap lie in, at and beyond a slab class and at the last
byte of a block; three pages of address space hold two areas and a gap, a call to
protect takes every right away, and a cloned page is written by either side. No area
is fixed or grows down there: `as_map_anon`, the only caller of `as_map_object`, passes no
flags (`FlagsInUse`), and the table below says what happens with these two. Three
tables are too few for some calls, so that splitting runs out of memory; two
attention pages fit the budget and a third evicts.

In `Services`, two callers of an endpoint, one with a timeout, a sender and two
servers make two calls, so that a client that timed out calls again while a server
holds its first record. Two inference requests take every pair of three orders.
Two timers are armed once each, for one tick, on two cores that tick to time 2, with
a replay that starts from 0; an interrupt line has two handlers and two
dispatches, which unclaimed are a storm. Two nodes below the root make a path or
siblings; each takes two attributes, and one edge of two kinds leads from any node to
any other, so that either end of it may be destroyed. The event ring has two slots and four events, enough to lap a reader; the log holds five
bytes and seven are written. The fabric has room for two of its three names with
values of length 1, and one of length 3 exceeds it alone. Kaalka's clock crosses four epochs with three slots of which a probe sees two; a seal lives for
no time or until after the ledger has aged its entry. The policy's threads compute
beside one another up to time 5, one of them started later, or make three claims of
deadlines and changes of class in all; claims overlap, and the products of a sum over
three pass the width. Two devices may be parent and child, and come and go while two
drivers are registered.
Four cores start in every order, each absent or mute or not.

In `Programs`, two threads walk, create and remove below a directory that one of them
mounts on, with two nodes beside the root and that directory and at most three
references to each; a file grows past its first capacity and back, with texts of one and of
three bytes and no handles that only read; archives have up to four of eight
headers; ELF headers lie at both sides of every bound and of the width of 16;
handles are two and threads two; the scripts are every pair of statements in every
kind of loop, at top level and in a function, with calls, callbacks, texts,
numbers, comparisons and mistakes, in gas that ends everywhere or nowhere; lists of
objects hold the items in turn; a session has four lines. Names beginning with `Max` only bound the state
space and are guards of the actions they limit. `MaxSent` and `MaxGen` are also in
the theorems' models, where they are any number.

Symmetry of threads, cores and users is used in the scheduler's runs and in
`Memory`, which have no liveness property.

Deadlock is checked where the system cannot stop: in the scheduler's runs a tick
is always possible. It is not checked in the others, where threads may have
nothing left to do within the bounds, and where an untimed waiter whose wakeup was
lost (finding 2) sleeps for good: that is what the code does, and properties that
need wakeups to arrive are stated only for waits that have a time limit.

### Fairness

`Semaphore`, `Completion`, `Notify` and `Channel` state weak fairness of every step
of a thread inside a call, of the passing of a deadline and of the tick that ends
an expired sleep. The first is what the scheduler owes a thread that is on the
queue (`NoneForgotten` is its safety part; round robin within a class and the
tick do the rest, for threads not starved by a higher class), the second is the
clock, the third is `sched_tick`'s walk over the sleepers. Nobody is assumed to
call, post, signal, write or read. So `TimedWaitReturns`, `CloseReleases` and
`ReaderServed` hold because the waits are bounded by a deadline or
by the one-millisecond sleep, not because a wakeup is assumed to be seen, and
`SleepersWoken` because `completion_done` wakes every thread that is asleep.

`Infer` states weak fairness of the worker thread, which never leaves its loop and
waits with a time limit, and of a client that has taken a request off the queue
and is about to complete it. Nobody is assumed to submit or to cancel. `Answered`
follows: the queue is finite, a request makes at most `want` tokens, and later
ones do not overtake for ever because submissions are bounded.
The other modules state no fairness and have no liveness property.

### What the violations say

1. `__schedule` marks a blocking thread and releases the run queue lock before
   `context_switch` saves its stack pointer; a wake on another core can have it run
   elsewhere on the same stack. `prev_pending` prevents this for a thread that
   stays runnable only (`kernel/sched/sched.c:336`).
2. A wakeup between `waitq_wait`'s link and its block finds a running thread and
   is dropped (`kernel/sched/sched.c:439`).
3. `cap_derive` looks at neither generation nor seal of the parent, and the child
   gets the current generation (`kernel/cap/cap.c:376`).
4. `break` and `skip` jump without popping the locals of the body they leave
   (`kernel/she/compile.c:1049`).

Each is quoted against the documentation it contradicts under `findings`.

### What else the code does not keep

These are stated in the modules, where there is one in the words of the comment or
document, and TLC finds a behaviour of the code that breaks them. The properties that
the runs check exempt just the states in which these have been broken, and say so. To
see one broken, put the operator in the place of the invariants of the run named (and
where a constant is given, change it); the operators of a part are reached by an
operator in the composing module.

| Operator | Run | What happens |
|---|---|---|
| `NoBitLost` (`Notify`) | `Sync` | `rk_notify_signal` loads and stores the word (`ipc.c:531-532`): two signals at once lose a bit |
| `PreemptRespected` (`Sched`) | `SchedUp` with two cores and `Ops` yield, nopreempt, start | the core is looked up before its counter is incremented; a tick in between moves the thread, and the counter of the core it left stays up (`sched.c:369`), against the comment in `kernel/core/fpu.c:20` |
| `StillAnswerable` (`Endpoint`) | `Services` | a call whose reply capability cannot be made is marked delivered and given to nobody; without a timeout its caller polls for ever (`ipc.c:231`, `284`) |
| `FirstIsServer` (`Endpoint`) | `Services` | the list of receivers is tested and read without its lock; when it empties in between, the head itself is taken for a record (`ipc.c:157`) |
| `RecordAlive` (`Endpoint`) | `Services` | `rk_ipc_recv` writes to a send's record after it marked it delivered (`ipc.c:286`) |
| `AreasApart` (`Vmm`) | `Memory`, `Top` 3, `"fixed"` in `Flags` | a fixed range is tested at its first page only (`vmm.c:237`) |
| `TranslationsOwned` (`Vmm`) | `Memory`, `Top` 3, `"grows"` in `Flags` | growth moves the start of an area and not its offset, so that its pages name others of the object (`vmm.c:388`) |
| `TranslationsAlive` (`Vmm`) | `Memory`, three objects and frames | copy on write gives an area a new object for one page; the translation of its other page leads to the old object's frame, also when that is freed (`vmm.c:424`) |
| `ClonePrivate` (`Vmm`) | `Memory` | the parent's area keeps its write permission, so a page it first touches after the clone is mapped writable and is the child's as well (`vmm.c:359`) |
| `WholeMapped` (`PageTable`) | `Memory` | x86's unmap of part of a large page clears the whole of it (`arch/x86_64/paging.c:243`); riscv's unmap and protect leave large entries alone |
| `TranslateTells` (`PageTable`) | `Memory` | `arch_translate` reports a page executable if `PXN` is clear, and user pages have it set (`arch/aarch64/arch.c:695`) |
| `NeverAmplified` (`Cap`) | `Cap`, a file beside the endpoint, no replies | `cap_grant` reads the slot a second time (`cap.c:415`) after a client that timed out reused it |
| `WaitedIsOver` (`Infer`) | `Services` | a cancel completes a request the worker has taken and then runs (`infer.c:135`) |
| `ClassOrder` (`Policy`) | `Services` | a slice that ends gives the core to a lower class, since the thread is not queued while the next is picked (`sched.c:338`) |
| `Admitted` (`Policy`) | `Services` | admission sums under the lock and stores after it, with products that wrap (`sched.c:738`); a change of class is not tested. `AdmittedFits` exempts the states after such a step (`raced`) |
| `FairToAll` (`Policy`) | `Services` | a thread that starts later begins at virtual runtime zero and has the core until it has caught up (`sched.c:503`, `555`) |
| `NeverUnderfoot` (`Irq`) | `Services` | a dispatch walks without the lock and another core frees the action it stands on (`irq.c:161`) |
| `ReplayWallClock` (`Timer`) | `Services` | replay advances the monotone clock only (`time.c:204`) |
| `EveryDigestFresh` (`GraphTree`) | `Services` | destroying a node takes the edges that lead to it off other nodes and invalidates only its own parents (`graph.c:241`, `260`) |
| `AgedHaveExpired` (`Kaalka`) | `Services` | the comment on the ledger says that an aged entry's seal has expired; a seal may live longer, and is then accepted twice (`kaalka.c:407`) |
| `MergeIdempotent` (`Memfab`) | `Services` | a blob larger than the room there is evicts what it has just put, so that merging it again changes the store (`memfab.c:9`) |
| `NodeShowsFabric` (`Memfab`) | `Services` | a put that finds no memory has evicted and does not publish (`memfab.c:122`) |
| `EveryDriverShown` (`Device`) | `Services` | a device that is probed before it has a node gets one without its driver (`device.c:132`) |
| `NoDanglingParent`, `NoDanglingNode` (`Device`) | `Services` | children keep their pointer to a device that is freed; the parent's node is looked up and used without a lock (`device.c:131`, `160`) |
| `ProbesComeOff` (`Device`) | `Services` | a probe that stands on a device that is unlinked stays there for ever (`device.c:152`) |
| `EventsWhole` (`GraphTree`) | `Services` | the sequence number is stored before the record (`graph.c:108`) |
| `EvictsOldest` (`Memfab`) | `Services` | put links at the head, eviction takes the tail (`memfab.c:91`) |
| `CoresApart`, `OnlineCounted` (`Smp`) | `Services`, for the first with `Late` `TRUE` | a core that answers after the wait was given up finds the next one's parameters and a freed stack (`smp.c:341`); the count includes cores that did not join |
| `NamesOnce`, `PutOnce`, `NothingTorn` (`Vfs`) | `Programs` | no lock covers a directory: two creators find a name free and both list it, two unlinks put one node twice, and a lookup takes a reference to a node that was freed (`ramfs.c:63`, `94`, `113`) |
| `MountedRootAlive` (`Vfs`) | `Programs`, `"ramfs"` for `"devfs"` in `Calls` | resolution drops the covered node's reference and not the mounted root's (`vfs.c:86`) |
| `ReadsConsistent` (`FileIo`) | `Programs` | a rendered file read in pieces mixes two texts (`graphfs.c:417`) |
| `NeverAnothers` (`Syscall`) | `Programs` | a handle is resolved to an object without a reference; closed and opened again before the pointer is read, it leads to another file, in another mode (`cap.c:353`, `syscall.c:102`) |
| `TakenInTime` (`Syscall`) | `Programs` | a new handle can be closed by another thread before `cap_install` has taken its reference, which is then taken of a freed object (`cap.c:281`) |
| `LastCloseFrees` (`Syscall`) | `Programs` | a file's object has no release operation, so the last close frees the object and not the open file (`syscall.c:172`) |
| `AsWritten` (`SheVm`) | `Programs` | gas that ends inside a callback: `call_native` makes of `RK_EAGAIN` an error, and the script fails instead of being resumable (`vm.c:265`). `RunsAsWritten` demands of such a script (`cut`) that it fails with a part of its meaning said |
| `RunsAsWritten` (`SheVm`) | `Programs`, `Units` `{"she"}`, `Suite` `"captures"` | the name in a text's braces, and the names a lambda uses, are read as globals only (`compile.c:418`, `740`); `docs/SHE.md:81` and `256` say that they may be locals |
| `NothingLost` (`SheObjects`) | `Programs` | when a chunk grows and the second of its two allocations fails, the first is lost (`value.c:432`) |

### Mutants

Each property of a passing run is shown to fail for a plausible bug, listed under
`mutants`. A property that is a conjunction has one listed; the others below fail
in the same way, their operators are in the modules beside what they replace.

| Property | Bug |
|---|---|
| `HolderOwns` | `Mutex`: `CondWait_Holding` |
| `RwExclusion` | `RwLock`: `WriteTry_StillCounted` |
| `SleepersWoken` | `Notify`: `More_Untimed`; `Completion`: `Try_LateFirst` |
| `AcceptedExactly` | `Channel`: `WriteTry_Open` |
| `RefsCounted` | `Cap`: `Retire_Counted` |
| `FramesSound` | `Pmm`: `StopsAnOrderEarly` |
| `SpacesSound` | `Vmm`: `FindGapOfAPage` |
| `AnswersMatch` | `Infer`: `FinishQuietly`, `AcceptLate`; `Endpoint`: `Reply_Crossed` |
| `EventsExact` | `Log`: `FromCursor`; `GraphTree`: `OldestTooNew` |
| `StoreTrue` | `GraphTree`: `InvalidateOne`; `Memfab`: `VictimUncounted` |
| `CoresShared` | `Policy`: `PickFirst`; `Smp`: `EnteredAtOnce` |
| `ServedNext` | `Device`: `GivesUp` |
| `FilesExact` | `Vfs`: `ExistsKept`; `FileIo`: `FullLate`, `DescendAnew` |
| `ProgramsKept` | `Elf`: `Unpadded`; `Syscall`: `AnyHandle` |
| `RunsAsWritten` | `SheCompile`: `EndScopeUnpopped` |
| `SessionsSound` | `SheObjects`: `CopiedInPlace`; `Resh`: `KeptLines` |

## 5. What is proved

The theorems hold for every value of the constants: any set of threads, tasks or
cores (finite where something is counted), any number of slots, any capacity, any
rights. Each states a property that a run checks on its instance, under the same
name (those of `Endpoint` as parts of `AnswersMatch`, those of `Timer`, `Irq` and `Log`
as parts of `EventsExact`, that of `Syscall` as part of `ProgramsKept`, that of `Smp` as part of `CoresShared`), and each rests on an inductive invariant that TLC checked before it was
proved. The only assumptions are the named ones on constants, which TLC evaluates
in the runs: `SchedAssumption`, `WaitQueueAssumption` (finitely many threads, and a
NULL pointer is none of them), `CompletionAssumption` and its like in the locks,
`ChannelAssumption` (writers and readers are different threads, the ring has room
for a byte), `EndpointAssumption` (a thread is a caller, a sender or a server, and NULL
points at no record), `CapAssumption` (finitely many tasks, objects of two kinds),
`TimerAssumption` (times are integers), `LogAssumption` (the ring and the line buffer have
room for a byte, lengths are natural numbers), `SyscallAssumption` (tables are numbered,
slots and threads are finitely many, NULL is no object), `SmpAssumption`
(`RK_MAX_CPUS` is positive, the port is one of three), `KvAssumption` (finitely many
sequences and layers, a page has a size) and `VmmAssumption` (finitely many spaces,
objects and addresses are numbers, no frame is at zero, protections are sets of flags).

Lists of distinct elements are everywhere in the kernel, and `Lists` has their lemmas:
what appending, taking the head, unlinking and inserting do to the elements
(`AppendOnce`, `TailOnce`, `RemoveOnce`, `InsertOnce`) and to the order of a key
(`TailOrdered`, `RemoveOrdered`, `InsertOrdered`). Channel and log are rings; that
positions less than a lap apart have different slots is `SlotsApart`.

### The scheduler (`SchedProofs`)

- `TypeCorrect`: `Spec => []TypeOK`, without further assumptions.
- `InductiveInvariant`: `IInv`, from which the others follow.
- `StacksExclusive`, `QueueIsSound`, `NoThreadForgotten` and `ResumesOnlyReady`, for a configuration in `SafeConfig`: either the threads
  never block (`Ops` is within yield, start, exit) and there are any number of
  cores, or there is one core and no timed wait. Outside it the code breaks the
  first of them, as `SchedSmpBlock` shows, and the timed wait is exposed to a
  double enqueue by the tick and a waker.

The argument is one inductive invariant, `IInv`. None of the properties is
inductive alone: that no two cores run a thread depends on the one that picks it
having found it linked, that a linked thread is nowhere else depends on what
`prev_pending` still owes the queue, and that in turn on where each core is inside
the switch. `PhaseInv` says what a core holds in each phase, `LinkInv`,
`CurrentInv`, `TargetInv`, `PendingInv` and `RunningInv` that a thread is in exactly
one place (linked, picked, executing, or pending) with the state that goes with
it. `PcInv` and `WakeInv` say where a thread is in a call and that a thread being
woken has one waker, which is what makes `sched_wake`'s unlocked test harmless
on one core. `PreemptInv` ties a thread that disabled preemption to a core whose
counter is positive; with one core that is a plain fact, and with several it fails, as
section 4 says of `PreemptRespected`, so no theorem is made of it. Lemmas state what `Schedule`, the switch, the enqueue and the
finish do to the places of threads; `CpuStepInv` and `ThreadStepInv` have one step
per action. `SchedUp` checks the same `IInv` with TLC.

### Wait queues and sleeping locks (`WaitQueueProofs`, `SyncProofs`)

`QueuesKept` is the lemma all the sleeping objects use: `WqInv` (types, `LinkedOnce`,
and that a thread inside a call names a queue of its object) is kept by every step
of `WaitQueue` and by every way an object may enter one. A waiter that times out
unlinks itself and a waker pops the head, so its proof is about taking elements out
of sequences without repetition.

Each object then has its own invariant over the threads' locations:

- `RwInv`: who is in `mode` read or write, with `readers` the number of the first and
  `writer` whether there is one of the second, and `waiting_writers` the threads inside
  `write_lock`. From it `RwLockExcludes` (`RwExclusion`), and the action property
  `RwLockPrefersWriters` (`WriterPreferred`).
- `SemInv` gives `SemaphoreConserves` (`PermitsConserved`). A waiter's retry and a post
  are steps of their own, so the count is related to the holders, not to the waiters.
- `MutInv` gives `MutexExcludes` (`HolderOwns`). That a thread waiting on a condition
  does not own a plain mutex needs that a plain mutex is held once (`PlainHolder`).
- `ComInv` gives `CompletionSurvives`: a wait that begins when the completion is done
  does not time out. It is the safety part of `SleepersWoken`.
- `SyncInv` joins them, with `NtfInv` for the notification object: `NodesLinkedOnce`
  (`LinkedOnce`) and `SyncTypeCorrect` (`TypeOK`).

### Channels (`ChannelProofs`)

- `ChannelIsPipe`: `Spec => RefinesFifo`. With `pipe` the bytes from `tail` up to `head`,
  every step is one of `ChannelFifo` or leaves it alone (`StepRefines`).
- `BothEndsKnow` (`AcceptedExactly`) and `ChannelTypeCorrect` (`TypeOK`).

The index of a byte is its position modulo the capacity, so what everything rests on
is `SlotsApart`, from which
`FilledAt` follows, that a write's bytes do not meet those in the ring. `ChanInv` adds
`Roles` (the call a thread is in, wherever it waits, and that a read asked for
something, without which a read could return nothing), `SentInv` and `StreamInv`.
`AcceptedExactly` counts the followers of a byte: `WroteFollowers` and `FreshFollowers`
say how a write changes them, and a read leaves them, since positions do not shift.

### Endpoints (`EndpointProofs`)

- `AnswersAreOwn` (`AnswerIsOwn`) and `RequestsInOnePlace` (`OnePlace`), both for the
  clients that pass no timeout, beside any number that do.
- `RecordsHeld` (the invariant itself) and `EndpointTypeCorrect` (`TypeOK`).

A server writes to a record twice, and the second write may come when the call has
returned and the same stack slot holds the next call's record. `Held` says which of the
places a server can be in (`Busy`) are early enough: there the record is that of the
current call and the call is not over. The late writes are the other ones, and
`OverAfter` shows that they end neither a call nor a send. `Apart` says that at most
one of list, servers and reply capabilities holds the current record, and none if its
reply capability could not be made; `Placed` that one of these is the case while the
client waits; `Told` that a call that is over was replied to, finished or refused. A step about another client changes none of it
(`OthersKeep`), so each way to handle a record (`HandlesIt`) reduces to one of four:
the server goes on or leaves it behind a capability (`GoesOnKeeps`), the call is over
(`OverKeeps`), the server goes on with a call that is over (`StaysLate`), or lets go of
it (`LetGoKeeps`). `IInv` was checked
by TLC with two callers, one of them with a timeout, a sender, two servers and three
calls of each client in all.

### Capabilities (`CapProofs`)

- `ReplySingleUse` (`SingleUse`) and `NothingAmplified` (`WaitedAmplifiesNothing`).
- `ReferencesBalance` (`RefsCounted`) and `ObjectsAlive` (`ObjectAlive`).
- `CapTypeCorrect` (`TypeOK`).

`Base` says what the locals of a call are worth at each location (`Located`) and where
a reply capability may be between its installation and its use (`ReplyOnce`).
`Exclusive` and `RightsKept` hold as long as no client gives up: a client waits in its
call while one server works on its space, so the second reading of the slot in
`cap_grant` finds what the first one did. `Counted` relates `used` to the valid slots and
`refs` to the sum of slots, creators, calls that took a reference and used-up reply
capabilities. That a sum stays right when a grant fills one slot and takes a
reference of another's object needs `Anchors`: the slot a grant or a derivation read
its object from stays until the reference is taken. `ObjectAlive` then needs that the
count is positive while anything still points at the object (`Referenced`): those who
may be about to take a reference are mapped one to one to slots that have one.

### Timers, interrupts, the log, file calls, starting cores, the attention cache and address spaces (`ServiceProofs`)

- `TimersInOrder` (`TimersSound` of `Timer`), for any timers, cores, delays and clock.
- `DispatchesComplete` (`DispatchSound` of `Irq`), for any handlers and cores.
- `LogReadersExact` (`LogReadExact` of `Log`), for any ring, records, readers and buffers.
- `CallsHoldFiles` (`CallsKeepFiles` of `Syscall`), for any threads and any sizes of the
  tables of slots, objects and files.
- `StartedCoresApart` (`CoresApart` of `Smp`), for any number of cores on each port, any of
  them absent or mute, when none answers late (`~Late`).

`TimerInv` says that the list has each active timer once, in the order of deadlines
(`Listed`), and that what a tick calls was due (`CalledDue`). That order survives an
insertion needs that the scan stops at the first later deadline (`StartKeeps`); a
callback may start, restart or cancel any timer while the tick is between two
sections of the lock, so the tick keeps nothing but the timer it took off.
`IrqInv` adds to `DispatchSound` what a walk that has not ended still owes: every
handler that was there at its start and was not freed has been called or is further
down the list (`WalkSound`). Handlers are added at the tail, so they are ahead of every
walk. They are freed at any time: `WithoutHandler` says how the positions of those
behind move up, and `FreeWalks` that a walk beyond the freed one moves with them. A walk
that stands on the freed one is `lost`, and owes nothing that can be relied on.

The log's readers are right because of `RingHolds`: the slot of each of the last
`RingBytes` positions holds that byte. A record may be longer than the ring and pass a
slot several times; `Appended` shows that the last byte to do so is the one whose
position is within a lap of the new head, again by `SlotsApart`.

A call in flight names an object, then a file, and no longer its handle, so that the
file is still the one to use does not follow from the handle: `CallsInv` says it of
handles (`SlotIn`) and of calls (`CallIn`), and that each object counts its slots and the
calls that are about to put it (`ObjectsCount`). A slot that is cleared hands its
reference to the call that closes it, and a call that opens one has its own and gives
the slot another, so steps move references rather than make them (`CountMoves`). The
count is what keeps an open from taking an object that a slot still names, and a put
from freeing one. A call that was robbed of its object before it read the pointer is
`lost`: of it the theorem says only that its file is open. That holds because a close
that leaves an object without slots leaves its file open, which is what
`LastCloseFrees` finds fault with, and what the proof uses.

Cores are started one at a time through one block of parameters. `OneAtATime` says that
whoever is on the way to the block is the core whose turn it is while the boot core
waits for it, and `Block` that the parameters are still its; x86 numbers a core after it
has left the block, so `Counted` follows `aps_online` through both waits, and the roster
has the number by the time the next core is launched (`Numbers`). A stack is given back
only for a core that will not come (`StacksKept`), which is what a late core breaks: the
theorem has `~Late` among its hypotheses, and the table in section 4 what happens without.

- `KvPages` (`PagesLive` of `Kv`) and `KvBudget` (the action property `BudgetKept`), for any
  sequences, layers and contents, any table size, page size and budget.
- `ObjectsCounted` (`ObjectsBalanced` of `Vmm`), for any spaces, objects, frames, sizes,
  flags and protections.
- `SpacesKept` (`SpacesSound`: that and `AreasApart` and `TranslationsOwned`), for the same when
  no area is fixed or grows (`FlagsInUse`).

Both are about counts kept apart from what they count. `KvInv` says that the counts of
the stored pages are the numbers of places in the sequences that name them (`Balanced`)
and that list, counts and bytes tell of the same pages (`Stored`). What an eviction
leaves is the list at the ranks of the pages that stay (`Ranks`, `RestOrdered`), so each
stays once and in order (`RemainsKeeps`), and since a page goes as long as those before
it did not free enough, what is left over the budget is referenced (`EvictsEnough`): that
is `BudgetKept`. A fork, an append and a trim change the places that name a page by
those beyond the common prefix (`PlacesAdded`).

`VmmInv` says that an object's count is the number of areas, in all spaces, that name
it, that it is gone when none does, and that no frame is in two objects. A step changes
the list of one space, so the count over all spaces changes by that of the list
(`OneList`), and what is left to show of each operation is what it does to one list:
inserting adds one (`InsertCounts`), unlinking takes those at the positions unlinked
(`UnlinkCounts`), growing and protecting take none (`SameNames`), copying exchanges one
name for another (`Renamed`). That a reference is dropped only where there is one
(`PutKeeps`) follows from the invariant, by `RefsCover`. A new page's frame is free, so
frames stay apart (`FreshFrame`, `TouchKeeps`, `CopyMade`); copy on write takes its frame
and its object before it drops the reference to the old one, which by then has another
(`FaultKeeps`).

`AreaInv` adds to `VmmInv` that a space's areas are in order and apart (`InOrder`), that
a translated page lies in an area whose object holds the frame or was made by a write
(`Led`), and that the area an eager population fills is still there, between two of its
pages (`Filled`). `TranslationsOwned` alone would not do: a population goes on after the lock
was released, and what it maps is right only if its area still is. What the operations
have in common is `Follows`: an area that stays has its place and its object, or has got
a private one. If all areas of a step have one that follows them and the objects that
stay keep their frames (`ObjectsStay`), old translations and the population are right by
themselves (`StepOn`), and of each operation the rest is the order of its list and the page
it maps. That the order is kept is `InsertInOrder`, with `GapFree`, for a map, and
`UnlinkInOrder` for an unmap, whose areas lose their pages with them (`UnmapOn`). The
objects of areas that stay live, by the counts (`NamedAlive`), which is where this needs
`VmmInv`. With a fixed area or a growing one neither part holds (section 4), so the
hypothesis on the flags is needed.

## 6. Only model-checked, or not modelled

Only model-checked are all liveness (`TimedWaitReturns`, `SleepersWoken`,
`CloseReleases`, `ReaderServed`, `Answered`: liveness under fairness and `ENABLED` are
out of the prover's reach); of `Memory` the buddy allocator, the heap and the
page tables (`FramesSound`, `HeapSound`, `TranslationRight`); of
`Services` and `Programs` all but the parts of `Endpoint`, `Timer`, `Irq`, `Log`, `Syscall`
and `Smp`; and the action property `ServedNext`. `Pmm` and `PageTable` descend by powers of
two, which takes induction as well. `Memory`, `Services` and `Programs`
compose modules with `RECURSIVE` operators (`Pmm`, `PageTable`, `GraphTree`, `Memfab`,
`SheCompile`, `SheVm`), and what such an operator computes for every input needs
induction over data. The choice `Infer` makes of its queue is a fold, which is a recursion
too.

Not modelled: the floating-point numerics and file formats of the models
(`kernel/ai/ops.c`, `tensor.c`, `llm.c`, `model.c`, `accel.c`), whose meaning is in
numbers a model checker does not have; hashes, ciphers, formatting and strings,
pure functions over wide words; the registers, traps and interrupt controllers of
the ports; boot glue, panic and self-tests; console, tools, user programs and web
pages, which keep no state worth a model. Within the modelled components the notes
in `PROJECT.json` name what is left out.
