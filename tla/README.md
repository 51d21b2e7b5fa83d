# A verification model of the multicore von Neumann simulator

The simulator loads programs and process descriptions from JSON, places the
programs in a simulated memory, and runs them on several simulated MIPS cores
under one of four scheduling policies. Each core executes a process in a thread
of its own; the scheduler runs in the main thread, an I/O manager in a third
kind of thread. This directory holds TLA+ modules of that system, TLC models of
them, and proofs checked by TLAPS.

Paths below are relative to the repository.

## 1. Inventory

| Component | State it keeps | Operations | Interacts with |
|---|---|---|---|
| `src/main.cpp` | chosen policy, list of PCBs | load every process, then repeat `schedule_cycle` until the scheduler reports the end | owns everything else |
| `src/cpu/Core.*` | `current_process`, IDLE/BUSY flag, execution thread, L1 cache | `execute_async`, `wait_completion`, `clear_current_process`, `run_process` | started and joined by a scheduler; runs the control unit on the PCB |
| `src/cpu/PCB.hpp` | plain `state`, registers, quantum, priority, atomics for accounting | accounting helpers | written by schedulers, core threads and the I/O manager |
| `src/cpu/RoundRobinScheduler.*` | `ready_queue`, `blocked_queue`, `finished_list`, four counters, the cores | `add_process`, `schedule_cycle`, `collect_finished_processes`, `handle_blocked_processes`, `has_pending_processes` | cores |
| `src/cpu/{FCFS,SJN,Priority}Scheduler.*` | the same, with `blocked_list`, and queues ordered by arrival, size or priority | the same, `all_finished` | cores and the I/O manager |
| `src/IO/IOManager.*` | `waiting_processes`, `requests`, device flags, shutdown flag | `registerProcessWaitingForIO`, `addRequest`, `managerLoop` | receives processes from the non-preemptive schedulers, writes `PCB.state` |
| `src/cpu/CONTROL_UNIT.*`, `ULA.*`, registers | pipeline latches, PC, IR, register bank | `Fetch`, `Decode`, `Execute`, `Memory_Acess`, `Write_Back` | memory manager, PCB |
| `src/memory/cache.*`, `cachePolicy.*` | address to entry map, FIFO queue | `get`, `put`, `update`, `invalidate` | one per core, used by the memory manager |
| `src/memory/MemoryManager.*` and the two memories | RAM, disk, a thread-local cache pointer | `read`, `write` | core threads |
| `src/parser_json/`, `src/cpu/pcb_loader.cpp` | label and data maps | encode a program and place it; read a process file | memory manager, PCB |
| the rest | | metrics to CSV, unused adapters and base class, reports, GUI, plots, an older parser, vendored JSON | |

### What is hard

* A core shows IDLE before anybody has joined its thread and taken its process
  back. Three collects per cycle and the urgent collect of the assignment loop
  race with that store at every core.
* The counters that decide whether to schedule and when to stop are adjusted by
  hand beside the queues.
* Blocked processes are released only inside a batch that may be skipped.
* `PCB.state` is a plain enum with two (round robin) or three (the other
  policies) writing threads.
* The I/O manager finishes a request long after the scheduler has forced the
  process ready again.
* Each core has a private, non-coherent cache whose dirty words are dropped.
* Numeric edges: quantum 0 and 999999, a cached word equal to the miss marker,
  the program's last instruction, 16-bit immediates.

### What makes each component correct

* Schedulers: every process is in one place, counters equal what they count,
  nobody is lost, overtaken or run twice, a finished process stays finished,
  the simulation ends exactly when all have finished, a ready process runs.
* Core: it holds a process from dispatch to collection, is IDLE exactly when a
  join does not wait, and leaves the PCB in the state its burst ended in.
* I/O manager: it never holds more requests of a process than the process has
  executed PRINTs, and whoever is blocked is registered.
* Cache and memory: a read returns a word its own core wrote last or, if the
  core has lost it, the word that was loaded; never another core's, never an
  older one; capacity is respected up to a known excess.
* Control unit and loader: a program that finishes has computed what its file
  says, on whatever cores it ran; a program runs to its end and ends there.

The hazards with their source lines are listed in `PROJECT.json`, each with the
properties that would catch it or the reason why there is none.

## 2. Plan

1. **Done**: `Core`, `Scheduler`, `RoundRobin`, `ProcessLifecycle`; invariants
   and refinement checked and proved.
2. **Done**: `IOManager` and `NonPreemptive` (FCFS, SJN and priority); invariants
   and refinement checked and proved, liveness checked.
3. **Done**: `L1Cache` and `Memory` against `ForgetfulMemory`; checked and proved.
4. **Done**: `InstructionSet`, `ProgramMeaning` and `Machine`: loader, control
   unit, ALU, caches and memory together against a reference; checked and proved.
5. Open: `Machine` as an implementation of `Memory`, by refinement and not only
   by the operators they share; `CoreExecutionLoop`, the overlapped loop a test
   calls, against the sequential one; the destruction of `main`'s locals.

## 3. Modules

| Module | Models |
|---|---|
| `Core` | `Core.cpp` and as much of the control unit as ends a burst. One action per kind of step of `run_process` (`Instruction`, `PrintInstr`, `End`, `Fault`, `Settle`, `GoIdle`), and the operations a scheduler calls (`ExecuteAsync`, `ReleaseCore`, `IsIdle`, ...). |
| `Scheduler` | What the four schedulers share: queues, counters, the position of the main thread in `schedule_cycle`, and the steps that are the same in each (`SkipCore`, `BeginPass`, `Dispatch`, `EndPass`, `ForceCollect`, ...). Extends `Core`. |
| `RoundRobin` | What is the round robin's own: `Collect`, `UrgentCollect`, `BeginBatch`, `has_pending_processes`; and the loops of `main.cpp`. Extends `Scheduler`. |
| `IOManager` | `IOManager.cpp`: the list of waiting processes, the devices, the request in service. |
| `NonPreemptive` | FCFS, SJN and priority, the policy a variable that `Init` chooses and nothing changes: the order of the queue (`Enqueued`), registration with the manager, the forced unblocking (`Unblock`), `all_finished`; composes `Scheduler` with `IOManager`. |
| `ProcessLifecycle` | The abstract specification: new, ready, running, blocked, finished; at most `NumCores` run; only a process without work left finishes. Implemented by `RoundRobin` and by `NonPreemptive`. |
| `L1Cache` | One cache with its FIFO policy (`Put`, `Update`, `Evict`), the two memories, and what one `MemoryManager::read` or `write` makes of them, as operators. |
| `Memory` | The memory manager with a cache per core: loading without a cache, then accesses through the caches. Extends `L1Cache`. |
| `ForgetfulMemory` | The abstract specification of `Memory`: a core sees the loaded words and the latest of its own, and may forget one of its own at an access to another address. |
| `InstructionSet` | Encoding as `parser_json.cpp` does it, decoding as the control unit does it, the ALU and the branch conditions, as operators on words. |
| `ProgramMeaning` | The reference: what a program file means, executed on integers without words, addresses, caches or other programs. It does what the file says and not what the code does: it runs the last instruction, goes to labels, and counts an offset from a data label. |
| `Machine` | The programs loaded and run: one action per kind of instruction, dispatch, preemption, blocking and migration between cores. Extends `L1Cache` and `ProgramMeaning`. |
| `MCRoundRobin`, `MCNonPreemptive`, `MCMemory`, `MCMachine` | Values of the constants for TLC, the program files among them. |
| `QueueLemmas`, `SchedulerProofs` | Lemmas on sequences; on the core's operations, and on the steps all schedulers share: what they preserve, and what they map to in the lifecycle. |
| `RoundRobinProofs`, `NonPreemptiveProofs` | Inductive invariants, safety theorems, and the theorems that `RoundRobin` and `NonPreemptive` implement `ProcessLifecycle`. |
| `L1CacheProofs`, `MemoryProofs` | Lemmas on the operations of one cache, and from them the invariants of `Memory` and its refinement of `ForgetfulMemory`. |
| `InstructionSetProofs` | Lemmas on words: what is encoded is decoded, the ALU computes modulo the word, a run of the reference exists and goes one way. |
| `MachineProofs` | The invariants of `Machine`: types, code that stays what it is, and programs that compute what they mean. |

The scheduler modules and the machine modules are two views of the same run.
The schedulers see of a program only how its burst ends; the machine sees of a
scheduler only that a ready process is given to a core that has none. `Machine`
leaves that choice open and so covers the orders of all four.

### State

`pstate` is `PCB.state`; `current`, `coreState` and `thread` are a core's
`current_process`, `state` and `execution_thread` with the locals of
`run_process`. `ready`, `blocked`, `finished` are the scheduler's queues and
`readyCount`, `idleCores`, `finishedCount`, `totalCount` its atomics. `tick` is
`current_time` modulo `BatchSize`. `pc`, `k`, `round`, `attempts`, `assigned`
are the main thread's position inside `schedule_cycle`. `waiting`, `printer` and
`disk` are the I/O manager's `waiting_processes` and device flags, `serving` the
process of the request its thread is sleeping on; `requests` needs no variable
because the turn of the loop that fills it empties it. `policy` is the class
main has constructed, `it` the iterator of the unblocking loop.

In `Memory` and `Machine`, `memory` holds the cells that were written (the
vectors are filled with the marker at first), `cache` is a core's `cacheMap`
(`lines`) with its `fifo_queue` (`fifo`), and `running` says that the cores have
started. In `Machine`, `status`, `on`, `cycles`, `pc` and `regs` are a process's
`PCB.state`, core, `cycles_in_quantum` and register bank, and `alias` is the name
that the reverse look-up in an `unordered_map` finds for the opcode that `addi`
and `li` share: the build decides, so both are tried. `last`, `refills`,
`ranOn` and `touched` are histories that only properties read.

### Granularity

Only the main thread touches queues and counters, and nobody else locks the
scheduler's mutex. What the main thread shares with a core thread is the IDLE
flag and, once the flag has been seen, the PCB. A step of the main thread
therefore ends where it next reads a flag: a visit to one core. Two exceptions
are sound. `Collect` joins the thread in the step that saw IDLE: the flag is the
thread's last store, so the join cannot wait for anything else. `EndPass` reads
all flags at once where the code reads one after the other: only the main
thread makes a core BUSY, so a core read BUSY later was BUSY already when the
first was read.

A core thread takes one step per instruction, one for the store of the final
state and one for IDLE. What an instruction computes is abstracted to what
the scheduler can tell apart: `left` counts the instructions still to be
fetched before the program's end, at most `Budget` per process. `End` may be
taken before the budget is used up, so each process runs every program up to
that length. `PrintInstr` is possible for the processes in `Prints`. `Fault`
is an exception caught by `run_process`: with well-formed programs only the
exhaustion of a resource throws behind Fetch, and the burst then ends Ready.

The I/O manager's thread takes two steps per turn of `managerLoop`: up to the
sleep, and the store of Ready after it. Between the two a scheduler may do
anything with the process. What the first step touches besides
`waiting_processes` is private to the thread. A registration and the push into
`blocked_list` that follows it are one step of the main thread, since the
manager does not look at `blocked_list`. The classification after a collect
reads `PCB.state` once: the manager only ever writes Ready, so the later reads
of the urgent collect's chain of tests lead to what one read would have found.
The forced unblocking takes one step per element of `blocked_list`, because
the manager may store Ready between two of them.

In `Memory` and `Machine` an access, and an instruction with its two or three
accesses, is one step. It is sound because no thread can see the steps inside:
the main thread has written the memory before the first dispatch, `write` with a
cache stores into the cache alone, and a cache belongs to one thread at a time.

### Left out

Time stamps, `context_switches`, `idle_cycles`, `failed_count` and other
accounting; the round robin's pointer to the I/O manager, which it never uses;
the yields and sleeps of the main thread; the destructors, the I/O manager's
shutdown among them: a model ends where `main` leaves its loop, and a request
that is then still waiting is not served. Of the cache: `isValid`, `invalidate`, `dirtyData` and the
LRU policy, which nothing calls, and the counters. Of the instruction set:
`sll` and `srl`, the overflow flag, which nobody reads, names that are not in
the table, and the notations JSON allows for one instruction - `offset(base)`
addresses, `addr` and `baseReg` among them, but not an `offset` beside a data
label, which an `Instruction` has and the loader drops.

## 4. Runs

A run is named after its configuration. `RoundRobin*` are instances of
`MCRoundRobin`, `FCFS*` and `QueueOrder` of `MCNonPreemptive`, `Memory` of
`MCMemory`, `Machine*` of `MCMachine`.

| Run | Question | Result |
|---|---|---|
| `RoundRobinSafety` | type, one place, counters, states, drops, end, finality, order | holds, about 2.1 million states |
| `RoundRobinLiveness` | is a ready process dispatched, a blocked one released, a silent one finished? Is the scheduler an implementation of the lifecycle? | holds under `FairSpec` |
| `RoundRobinProcessLost` | is a process ever lost? | violated |
| `RoundRobinNoQuantum` | does the simulation end when a process file has no quantum? | violated |
| `FCFS` | with the I/O manager's late writes: type, one place, counters, nobody lost, registration, requests, end, order; does the simulation end, is the composition an implementation of the lifecycle? | holds, liveness under `FairSpec`, about 530 000 states |
| `QueueOrder` | for SJN and priority: is the best process always in front, equal ones in order of arrival? | holds, about 2.7 million states |
| `FCFSStatesKept` | are all processes Finished when main says so? | violated |
| `Memory` | are clean lines copies of memory, cached addresses queued, sizes bounded, and is what a core reads what `ForgetfulMemory` allows? | holds |
| `Machine` | does a finished program hold the result its file means, is code never seen altered, does every program that never prints end? | holds, liveness under `FairSpec` |
| `MachineLabels` | the same result, for a program that branches to a label | violated |
| `MachineNoEnd` | the same result, for a program that does without END | violated |
| `MachineWriteBack` | the same result, for a program whose written line was replaced | violated |

### Bounds

Three processes on two cores is the smallest instance with a waiting process
while both cores are occupied, with a queue of two behind a dispatch, and with a
printing process beside another. `MixedQuantum` has one process preempted after
every instruction and others after two; programs have up to two instructions
(safety), or none at all for one of them (liveness), so
that bursts end by quantum, by END, by PRINT and by a fault, before and at the
quantum. `BatchSize` is 2 instead of 5 in the larger runs: the code asks only
whether `current_time` is a multiple of it, and 2 already has a cycle in which
it is and one in which it is not. `FCFS` has 1, because its liveness needs the
whole graph of states: there a batch is due in every cycle, and `QueueOrder`,
with 2, has the cycles that skip it. `attempts` needs no bound: it starts at twice
the queue's length.

The runs of `NonPreemptive` have two processes where the interleavings with the
manager are the question: both block and are forced ready, one of them can
block twice, which gives duplicated registrations and a completion that meets
its process in every state. The order of the queues needs three, two of which
are equal, on two cores, so that a collected, an urgently collected and an
unblocked process meet one that waits; SJN and priority share this run, the
policy being chosen by `Init`. FCFS stands for the three policies in the other
runs: they differ in `Enqueued` alone. In `FCFS` both processes print and one
has two instructions, so that it can block, be forced ready and block again.
`LongQuantum` stands for 999999 and is above the
length of every program here.

`Memory` has one address in main memory, one in secondary memory and one beyond
both, a cache of two lines, and the words 1 and 2, of which 2 is the marker; so
lines are replaced, the queue holds an address twice, and writes are dropped.
One core is enough for what a core sees, since cores share only the memory that
no longer changes; that the copies of other cores, which nobody invalidates, do
no harm is shown for two cores by `CodeIsIntact` in the run of `Machine`, and
for any number by the theorem on `CleanIsMemory`. `MaxRefills` stops a cache
after two refills, which alone let the queue grow: hence no deadlock check.

`Machine` has four registers, of which `$zero` is one, and words of 19 bits: the
opcodes keep their six bits, register fields shrink from five bits to two, the
shift amount from five to one and the immediate from 16 to 9. `NumRegs` and
`NumShifts` both 32 give the words of the code, bit for bit. The marker is the
word of all ones, as in the code.
`Capacity` is 9 lines: a core that runs one short program keeps all it touched,
one that runs two programs replaces lines. `MachineWriteBack` has 4 lines, fewer
than the instructions between a store and the load of the same word. `Stride` is 48
addresses instead of 1024, the whole of main memory here, so that the second
program lies in secondary memory. Two programs on two cores are
dispatched, preempted after four instructions and moved in every order;
`MaxSteps` bounds the reference's execution and is above that of every program.
The programs were chosen for the edges: division and multiplication of negative
numbers and of a word of all ones, comparisons at the limits of a word, a loop,
an `addi` under the name of `li`, a program without END that loads the second
word behind a label, data that runs as instructions, a print between a store and
the load that follows.

### Fairness

`FairSpec` asks weak fairness of the main thread and of each core thread: the
operating system keeps scheduling each of them. The main thread blocks only in
a join whose thread has shown IDLE; a core thread takes no lock that another
thread keeps. Nothing is assumed about which instruction comes next; a process
ends because its program is finite.

The fair specification of `NonPreemptive` asks the same and nothing of the
manager's thread. It draws random numbers, may never find a device that asks,
and is stopped by the destructor when `main` returns, so that no promise to
serve a request holds: `AllFinish` has to hold without one, and does, because
the schedulers force a blocked process ready themselves.

`FairSpec` of `Machine` is weakly fair to the loading and running of each
process, and strongly fair to its dispatch: a scheduler's queue is first-in
first-out among equals, so a process that is ready again and again gets a core
although another may take it each time first. The runs of the schedulers show
that this is so. There is no fairness of `Unblock`: under the round robin a
blocked process may be forgotten (`RoundRobinProcessLost`). `SilentProgramsEnd`
therefore speaks of the programs that never print, beside others that do.

### What the violations show

* `NoProcessLost`: the urgent collect (`RoundRobinScheduler.cpp:106-113`)
  handles Finished and Ready only. A process that prints and whose core goes
  IDLE after the first collect, while another process is ready, is cleared from
  its core and queued nowhere; `finished_count` then never reaches
  `total_count`. `OnlyBlockedAreDropped` shows that this is the only way to
  lose one. `docs/referencias/historico-bugs.md:640-686` (Bug #16) describes
  this very loss and its correction in the three other schedulers.
* `AllFinish`: a process file without `quantum` yields 0 (`pcb_loader.cpp:18`),
  and `run_process`'s loop condition is false before the first instruction.
* `FinishedStatesKept`: the manager stores Ready at the end of a request
  (`IOManager.cpp:127`), however long ago the scheduler forced the process ready
  (`FCFSScheduler.cpp:154`), ran it to its end and collected it. `main.cpp:304`
  then skips its metrics.
* `LabelsAreReached`: `encodeIType` (`parser_json.cpp:156`) stores a branch's
  label as a distance in instructions, `encodeJType` a jump's as the index of
  the instruction, and the control unit takes both for byte addresses.
* `LastInstructionRuns`: Fetch compares the program counter with the program's
  end after it has incremented it (`CONTROL_UNIT.cpp:133-143`), so the last
  instruction is fetched and not executed. `docs/referencias/historico-bugs.md:96-101`
  describes the check as `pc >= program_end`, the comment at line 136 as one for
  a counter that has left the program. A program that ends with END loses
  nothing by it.
* `StoresAreKept`: with a thread cache a store goes to the L1 line alone
  (`MemoryManager.cpp:140`), and `put` erases its victim, dirty or not
  (`cache.cpp:49`).

More disagreements with the documents need no run, a reading of the code shows
them: `--quantum` is stored in `default_quantum` and never read
(`RoundRobinScheduler.cpp:17`, `main.cpp:106`); a process does not stay Blocked
while its I/O goes on, because of the forced unblocking (`FCFSScheduler.cpp:154`
against `README.md:956`); FCFS does preempt, a program of a million
instructions (`FCFSScheduler.cpp:210` against `docs/escalonadores/fcfs.md:30`);
and `README.md:459-461` and `:933` describe a cache without write-allocate whose
missed writes go to memory, where `MemoryManager.cpp:117-140` reads the line into
the L1 cache and writes it there only. `StoresAreKept` shows what this leads to.

The loader ignores a number written as `offset` beside a data label
(`parser_json.cpp:139-143`): `lw` with offset 2 of `numbers` and `sw` with offset
1 of `result`, as in `examples/programs/tasks.json:34` and `:36`, access the first
words of these arrays. No document says what the key means, so no run claims it;
the reference counts it in words, and `AsWritten` leaves such files out of the
properties and theorems on results.

`FCFS` shows what these late writes do not break: a finished process that
is set Ready before its collect is run again, ends at once, and is counted once.
`Machine` shows what the missing write-back does not break: a program that never
reads a word it stored computes what its file says wherever it runs, one that
does needs its lines to stay (`KeptItsLines`), and nobody sees altered code.

`NonPrintingFinish` is the positive side of the round robin's first two: a process with a
positive quantum that never prints finishes whatever becomes of the others.

## 5. Proofs

The theorems on schedulers hold for every finite set of processes, every number
of cores, every integer quantum per process, every program length, every batch
size, and every key and set of policies, under the named assumptions of `Core`,
`Scheduler`, `RoundRobin` and `NonPreemptive` on these constants. Those on the
memory hold for every number of cores, every set of addresses and words, every
capacity and size, under the assumptions of `L1Cache` and `Memory`. Those on the
machine hold for every number of registers and shift amounts, hence of bits in a
word, and for every list of program files, under the assumptions below.

### Round robin

`IInv` in `RoundRobinProofs` is the inductive invariant. It joins `TypeOK`;
`OnePlace`; `StateMatchesPlace`, which includes `CoreAgrees`, the relation
between a core's slot, its flag, its thread and its process's state;
`CountsOK`, the counters; and `Phases`, what holds at each position of the
main thread. The safety properties are not inductive one by one: that a
dispatched process enters no second core needs `OnePlace`; that a counter is
right after a release needs that the core was occupied; that a released
process is classified by its final state needs that an IDLE core's thread has
settled; that the end of the loop means all finished needs that
`finishedCount` is the cardinality of a subset of `Procs`.

| Theorem of `RoundRobinProofs` | States |
|---|---|
| `TypeCorrect` | `Spec => []TypeOK` |
| `OnePlaceAlways` | `Spec => []OnePlace` |
| `CountersAlwaysAgree` | `Spec => []CountersAgree` |
| `StateAlwaysMatches` | `Spec => []StateMatchesPlace` |
| `OnlyBlockedAreEverDropped` | `Spec => []OnlyBlockedAreDropped` |
| `DoneIsDone` | `Spec => []DoneMeansAllFinished` |
| `FinishedForGood` | `Spec => FinishedIsFinal` |
| `NobodyOvertakes` | `Spec => NoOvertaking` |
| `RoundRobinImplementsLifecycle` | `Spec => ImplementsLifecycle` |

The refinement maps a process to where the scheduler has its pointer (`Place`)
and its work to `left`. A queue operation of the main thread is the matching
move of the lifecycle; an instruction is `Work`; all control steps stutter. A
dropped process maps to one that stays blocked, which the lifecycle, a safety
specification, allows. The step from `ready` to `running` needs the invariant:
an occupied slot is a running process, so an empty one leaves room.

### FCFS, SJN and priority

`NPInv` in `NonPreemptiveProofs` is inductive. It is weaker than `IInv` where
the manager's late stores make it so: a process's state is the one its burst
left *or Ready* (`StateSeen`), never anything else. That is just enough: a
collect that reads Finished reads the state the burst stored, and no
instruction is left (`FinishedAreDone`); one that reads Ready queues the process
again, which loses nobody. The other parts are `OnePlace`, `CountsOK`,
`SlotsAgree` (slot, flag and thread of a core), `BlockedIsRegistered`,
`BestFirst` and `Phases`.

That the manager's requests are PRINTs needs a second invariant beside it,
`Accounted`: the requests of a process, and one more while it sits on a core
with a burst that ended in a PRINT and was not collected, are at most the
instructions it has executed. A process that is forced ready keeps its old
request, and a new one is due to an instruction of its own.

The order of the queue is proved policy by policy. The insertion of SJN is
before the least index of a longer job, and what is in front is not longer
because the queue was in order. `stable_sort` is modelled by ranks: two elements
never have the same rank, so the ranks, as many as the elements, are all the
places, and a smaller rank is not a worse key.

| Theorem of `NonPreemptiveProofs` | States |
|---|---|
| `TypeCorrect` | `Spec => []NPTypeOK` |
| `OnePlaceAlways` | `Spec => []OnePlace` |
| `CountersAlwaysAgree` | `Spec => []CountersAgree` |
| `NoProcessIsLost` | `Spec => []NoProcessLost` |
| `BlockedAreRegistered` | `Spec => []BlockedIsRegistered` |
| `RequestsAreAlwaysPrints` | `Spec => []RequestsArePrints` |
| `DoneIsDone` | `Spec => []DoneMeansAllCollected` |
| `BestIsFirst` | `Spec => []BestFirst` |
| `OnlyBetterPasses` | `Spec => PassedOnlyByBetter` |
| `NonPreemptiveImplementsLifecycle` | `Spec => ImplementsLifecycle` |

That only a strictly better process passes a waiting one needs the order of the
queue for SJN (the new job goes in front of a longer one, hence of all behind
it that are longer still) and for priority that ranks follow positions among
equals. The refinement uses the map of the round robin; the manager's stores are
stutters, because the map asks where the pointer is and never what the state
says. A collect that finds the late store sends a process from its core back to
`ready` instead of to `blocked`, which the lifecycle allows; the invariant adds
that nothing is blocked while `main` still loads.

### Memory

`MemoryInv` says of each cache that it is typed, its clean lines are copies of
memory, its lines are in its queue, and the queue is at most as long as lines
plus refills and as capacity plus refills; and that before the cores run, all
caches are empty, without which a load could make a clean line stale. The bound
on the queue needs that every line is queued: only then does a full cache pop
something. In the refinement `own` is what the dirty lines hold.

| Theorem of `MemoryProofs` | States |
|---|---|
| `MemoryTypeCorrect` | `Spec => []MemoryTypeOK` |
| `CleanLinesAreMemory` | `Spec => []CleanIsMemory` |
| `CachedLinesAreQueued` | `Spec => []EveryLineIsQueued` |
| `QueueIsLinesAndRefills` | `Spec => []QueueHoldsLinesAndRefills` |
| `CapacityIsKept` | `Spec => []WithinCapacity` |
| `MemoryImplementsForgetfulMemory` | `Spec => ImplementsForgetfulMemory` |

### Instruction set

`InstructionSetProofs` has no state. Its lemmas say, for every instruction and
every width, that `Decode` takes out of a word the fields that
`buildBinaryInstruction` has put in (`Encoded`), that the reverse look-up finds
the mnemonic of the file but for `addi` and `li` (`NameOfEncoded`), and that the
ALU's words stand for the integers of the reference, cut to a word
(`AluMeaning`; for the division, that truncation toward zero is the one quotient
whose remainder is less than the divisor). `RefRun` is a recursive function, so
the lemmas prove that the function exists (`RunExists`), that it is the only one,
and that a later state of a run keeps what an earlier one has noted
(`RunIsLater`). The induction is over sets of numbers, which needs no operator as
a parameter.

### Machine

Assumed of the constants: registers and memory cells are words and the marker
is the word of all ones (`Word32Assumption`); the program files have at least
one instruction, and data words that exist (`ProgramAssumption`); every
address a program counter can hold is an address (`ReachAssumption`).

| Theorem of `MachineProofs` | States |
|---|---|
| `MachineIsTyped` | `Spec => []MachineTypeOK` |
| `InstructionsAreIntact` | `Spec => []CodeIsIntact` |
| `ProgramsComputeTheirMeaning` | `Spec => []FinishedHasComputed` |
| `ResultsAreMeanings` | `Spec => []ResultIsMeaning`, when `RunsSettle` |

The last two are about files that end with END (`EndsWithEnd`), branch to
addresses and not to labels (`UsesLabels`), and consist of instructions that the
control unit executes as written, without an offset beside a data label
(`AsWritten`): for the others the result is not what the file says, as the
violated runs and the list above show.

There are three invariants, one inside the other.

* `Typed` adds to the types that the program counter of an unfinished process
  is within `Reach`: not beyond the end of its image, or at an address that a
  branch can name. An arbitrary program branches to any address its fields can
  hold, so nothing stronger is true of all of them.
* `Intact` is why nobody ever sees altered code. That a fetched word is the
  loader's is not inductive: it must be known that clean lines are copies of
  memory (`CleanIsMemory`), that memory holds the images (`ImagesAreLoaded`),
  that dirty lines are data of a process which has left its data section behind
  (`WritesAreData`), and that a process stays in its image (`InsideImage`). The
  last two lean on one another: what is fetched inside the image is an
  instruction of the file or a harmless data word, and an instruction of the
  file branches into the code and stores into the data. This needs the programs
  to be placed apart and to branch to their own instructions (`WellPlaced`,
  `BranchesStay`): one that branches into a word it has stored runs whatever it
  has put there.
* `Meant` relates each process to a state of its reference run
  (`OnCourse`): after some number of instructions the registers are equal, the
  process is at the same instruction, the data it has not stored is what the
  file says, and each dirty line of its data is a word it has stored
  (`Matches`). While a process stays on one core with a line to spare, what it
  has stored is still there (`StoresFollow`), unless it is the marker: `touched`
  bounds the lines the cache can hold, so nothing is replaced. A process that has read back a stored
  word which may be lost is `Excused`, and stays so, because histories only
  grow. Each action of `Machine` is then a step of the reference (`Reaches` and
  its lemmas, one per instruction), and a step of another process, which may
  share the cache, leaves the relation true (`ForeignMatches`).

`ProgramsComputeTheirMeaning` is the result for the whole reference run.
`ResultIsMeaning`, which TLC can evaluate, looks at the reference after
`MaxSteps` instructions, a bound of the model and not of the code; `RunsSettle`
says that the bound is large enough: nothing the property asks for happens
later. Programs that end within `MaxSteps` satisfy it, those of the runs among
them.

### Only model-checked

Liveness (`SilentProgramsEnd`, `AllFinish` and their like), since fairness and
`ENABLED` are beyond the prover. Every invariant, action property and refinement
of the passing runs is proved.

## 6. Not modelled

* The end of `main`: its locals are destroyed in an order in which the I/O
  manager's thread outlives the PCBs, and the flag that stops the thread is a
  plain `bool`. What happens then is undefined by the language and has no
  states to check.
* `CoreExecutionLoop`, the overlapped pipeline. Only
  `src/test/test_cpu_metrics.cpp` calls it; the simulator runs the five stages
  one after the other.
* `drain_cores` of the schedulers, called by tests only.
* The core memory adapters, the base class `Scheduler` and `MemoryMonitor`, which
  nobody uses; `invalidate`, LRU and `DeleteData`, which nobody calls.
* Metrics, logs, reports and time conversions, which format what was counted and
  steer nothing.
* The stand-alone parser, an older copy of the loader; the GUI and the plotting
  scripts in Python; the vendored JSON library, two copies of 25 677 lines each,
  which are almost nine tenths of the C++ lines of the repository.
