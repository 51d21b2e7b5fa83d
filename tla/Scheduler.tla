----------------------------- MODULE Scheduler -----------------------------
(***************************************************************************)
(* What the four schedulers (src/cpu) have in common: the queues, the      *)
(* counters, the position of the main thread inside schedule_cycle, and    *)
(* the steps that are the same in each of them.                            *)
(* RoundRobin and NonPreemptive EXTEND this module with what differs: how  *)
(* a process is queued, collected and unblocked, and when main stops.      *)
(*                                                                         *)
(* The main thread is the only one that touches the queues and counters,   *)
(* so a step of it ends where it next looks at something another thread    *)
(* changes: one visit of collect_finished_processes or of the assignment   *)
(* loop to one core is one step.                                           *)
(***************************************************************************)
EXTENDS Core, Sequences, Functions

CONSTANT BatchSize   (* batch_size, 5 in the code                          *)

ASSUME BatchSizeAssumption == BatchSize \in Nat \ {0}

VARIABLES
  ready,          (* ready_queue                                           *)
  blocked,        (* blocked_queue                                         *)
  finished,       (* the members of finished_list                          *)
  readyCount, idleCores, finishedCount, totalCount,   (* the atomics       *)
  tick,           (* current_time modulo BatchSize                         *)
  pc,             (* where the main thread is                              *)
  k,              (* the core the loop over cores visits next              *)
  round,          (* which collect of the cycle: 1, 2, or 3 (the forced)   *)
  attempts,       (* max_attempts - attempts                               *)
  assigned        (* did this pass assign a process                        *)

queueVars   == <<ready, blocked, finished>>
counterVars == <<readyCount, idleCores, finishedCount, totalCount>>
controlVars == <<tick, pc, k, round, attempts, assigned>>
dataVars    == <<coreVars, queueVars, counterVars>>
vars == <<dataVars, controlVars>>

(* The round robin unblocks in the step that begins the batch.             *)
Locations == {"load", "loop", "collect", "batch", "unblock", "pass", "assign",
              "endPass", "force", "done"}

TypeOK ==
  /\ CoreTypeOK
  /\ ready \in Seq(Procs) /\ blocked \in Seq(Procs) /\ finished \subseteq Procs
  /\ readyCount \in Int /\ idleCores \in Int
  /\ finishedCount \in Nat /\ totalCount \in Nat
  /\ tick \in 0..(BatchSize - 1)
  /\ pc \in Locations
  /\ k \in Cores
  /\ round \in 1..3
  /\ attempts \in Nat
  /\ assigned \in BOOLEAN

(* Where the scheduler has a pointer to a process.                         *)
Held == Range(ready) \cup Range(blocked) \cup finished
          \cup {current[c] : c \in {d \in Cores : current[d] # NoProc}}

SchedulerInit ==
  /\ CoreInit
  /\ ready = <<>> /\ blocked = <<>> /\ finished = {}
  /\ readyCount = 0 /\ idleCores = NumCores
  /\ finishedCount = 0 /\ totalCount = 0
  /\ tick = 0 /\ pc = "load" /\ k = 1 /\ round = 1
  /\ attempts = 0 /\ assigned = FALSE

-----------------------------------------------------------------------------
(* main.cpp: the end of the loading loop, and of the program.              *)

EndLoading ==
  /\ pc = "load" /\ Held = Procs
  /\ pc' = "loop"
  /\ UNCHANGED <<dataVars, tick, k, round, attempts, assigned>>

(* main returns after the loop; what is left of the program only prints.   *)
Terminated == pc = "done" /\ UNCHANGED vars

(* A core thread touches nothing of the scheduler's.                       *)
CoreThread(c) ==
  /\ RunProcess(c)
  /\ UNCHANGED <<queueVars, counterVars, controlVars>>

-----------------------------------------------------------------------------
(* collect_finished_processes, one core at a time.                         *)

(* Mutant: finished_count is incremented by the caller too (bug #3).       *)
ToFinishedTwice(p) ==
  /\ finished' = finished \cup {p}
  /\ finishedCount' = finishedCount + 2
  /\ UNCHANGED <<ready, readyCount, blocked>>

(* Mutant: a finished process falls through to the ready queue.            *)
ToFinishedAndReady(p) ==
  /\ finished' = finished \cup {p}
  /\ finishedCount' = finishedCount + 1
  /\ ready' = Append(ready, p)
  /\ readyCount' = readyCount + 1
  /\ UNCHANGED blocked

ToFinished(p) ==
  /\ finished' = finished \cup {p}
  /\ finishedCount' = finishedCount + 1
  /\ UNCHANGED <<ready, readyCount, blocked>>

ToBlocked(p) ==
  /\ blocked' = Append(blocked, p)
  /\ UNCHANGED <<ready, readyCount, finished, finishedCount>>

ToNowhere == UNCHANGED <<ready, readyCount, blocked, finished, finishedCount>>

(* Mutant: idle_cores is not incremented (bug #9).                         *)
ReleaseForgetsIdle == ReleaseCore(k) /\ UNCHANGED idleCores

(* Core k is joined and cleared after its process was classified.          *)
Release == ReleaseCore(k) /\ idleCores' = idleCores + 1

AfterCollect == CASE round = 1 -> "batch" [] round = 2 -> "force" [] round = 3 -> "loop"

NextCollect ==
  /\ IF k < NumCores THEN k' = k + 1 /\ pc' = pc ELSE k' = 1 /\ pc' = AfterCollect
  /\ UNCHANGED <<left, pstate, coreState, totalCount, tick, round, attempts,
                 assigned>>

SkipCore ==
  /\ pc = "collect"
  /\ \/ current[k] = NoProc
     \/ ~IsIdle(k) /\ IsThreadRunning(k)
  /\ NextCollect
  /\ UNCHANGED <<current, thread, queueVars, readyCount, idleCores, finishedCount>>

-----------------------------------------------------------------------------
(* schedule_cycle between the first and the second collect.                *)

(* current_time % batch_size == 0 || should_schedule                       *)
ShouldSchedule == readyCount > 0 /\ idleCores > 0

(* Mutant: the periodic batch is lost.                                     *)
BatchDueOnlyWhenReady == ShouldSchedule

BatchDue == tick = 0 \/ ShouldSchedule

SkipBatch ==
  /\ pc = "batch" /\ ~BatchDue
  /\ pc' = "collect" /\ round' = 2
  /\ UNCHANGED <<dataVars, tick, k, attempts, assigned>>

(* Mutant: one pass too few for a single ready process.                    *)
MaxAttemptsTooFew(q) == Len(q) \div 2

(* Mutant: one pass less than that, which an empty queue has not.          *)
MaxAttemptsOffByOne(q) == 2 * Len(q) - 1

MaxAttempts(q) == 2 * Len(q)

(* Mutant: the bound on the passes is dropped.                             *)
PassDueUnbounded == ready # <<>>

PassDue == ready # <<>> /\ attempts > 0

BeginPass ==
  /\ pc = "pass" /\ PassDue
  /\ pc' = "assign" /\ k' = 1
  /\ attempts' = attempts - 1 /\ assigned' = FALSE
  /\ UNCHANGED <<dataVars, tick, round>>

EndBatch ==
  /\ pc = "pass" /\ ~PassDue
  /\ pc' = "collect" /\ k' = 1 /\ round' = 2
  /\ UNCHANGED <<dataVars, tick, attempts, assigned>>

(* One core of one pass.  A core is passed over when it is busy or nothing *)
(* is ready any more.                                                      *)
NextAssign ==
  IF k < NumCores THEN k' = k + 1 /\ pc' = pc ELSE k' = 1 /\ pc' = "endPass"

SkipAssign ==
  /\ pc = "assign"
  /\ ~IsIdle(k) \/ ready = <<>>
  /\ NextAssign
  /\ UNCHANGED <<dataVars, tick, round, attempts, assigned>>

(* Mutant: nobody looks for an old process (bug #8).                       *)
SlotFreeUnchecked == TRUE

SlotFree == current[k] = NoProc

AssignProcessToCore(p, c) ==
  /\ idleCores' = idleCores - 1
  /\ ExecuteAsync(c, p)

Dispatch ==
  /\ pc = "assign" /\ IsIdle(k) /\ ready # <<>> /\ SlotFree
  /\ ready' = Tail(ready)
  /\ readyCount' = readyCount - 1
  /\ AssignProcessToCore(Head(ready), k)
  /\ assigned' = TRUE
  /\ NextAssign
  /\ UNCHANGED <<left, blocked, finished, finishedCount, totalCount, tick,
                 round, attempts>>

(* A pass that assigned nothing ends the batch if every core is busy.  The *)
(* code reads the flags one after the other; only the main thread makes a  *)
(* core BUSY, so one read BUSY was BUSY when the first of them was read.   *)
EndPass ==
  /\ pc = "endPass"
  /\ IF ~assigned /\ \A c \in Cores : ~IsIdle(c)
       THEN pc' = "collect" /\ round' = 2
       ELSE pc' = "pass" /\ round' = round
  /\ UNCHANGED <<dataVars, tick, k, attempts, assigned>>

(* A third collect when every core is free and processes are missing.      *)
ForceCollect ==
  /\ pc = "force"
  /\ IF idleCores >= NumCores /\ finishedCount < totalCount
       THEN pc' = "collect" /\ round' = 3
       ELSE pc' = "loop" /\ round' = round
  /\ UNCHANGED <<dataVars, tick, k, attempts, assigned>>

-----------------------------------------------------------------------------
(* What every scheduler owes its processes.                                *)

(* A process is in one place: the queues hold no pointer twice, and no     *)
(* pointer is in two of ready_queue, blocked_queue, finished_list and the  *)
(* cores' slots, whatever the collects and urgent collects do and however  *)
(* they meet the ends of bursts.  A second pointer would run a PCB on two  *)
(* cores at once, or count it finished twice.                              *)
OnePlace ==
  /\ IsInjective(ready) /\ IsInjective(blocked)
  /\ Range(ready) \cap Range(blocked) = {}
  /\ (Range(ready) \cup Range(blocked)) \cap finished = {}
  /\ \A c \in Cores : current[c] # NoProc =>
       /\ current[c] \notin Range(ready) \cup Range(blocked) \cup finished
       /\ \A d \in Cores : current[d] = current[c] => d = c

(* The four atomics agree with what they count in every state: the gate    *)
(* of the batch, the forced collect and the end of the simulation are      *)
(* decided on them and never on the queues.                                *)
CountersAgree ==
  /\ readyCount = Len(ready)
  /\ idleCores = Cardinality({c \in Cores : current[c] = NoProc})
  /\ finishedCount = Cardinality(finished)
  /\ totalCount = Cardinality(IF pc = "load" THEN Held ELSE Procs)

(* No process is ever lost: the scheduler holds every process it was given *)
(* (docs/referencias/historico-bugs.md lists processes lost during the     *)
(* assignment as fixed).                                                   *)
NoProcessLost == pc # "load" => Held = Procs

-----------------------------------------------------------------------------
(* The scheduler implements the process lifecycle.  A dropped process is   *)
(* one that stays blocked.                                                 *)

Place ==
  [p \in Procs |->
     IF p \in finished THEN "finished"
     ELSE IF p \in Range(ready) THEN "ready"
     ELSE IF \E c \in Cores : current[c] = p THEN "running"
     ELSE IF pc = "load" THEN "new" ELSE "blocked"]

Lifecycle == INSTANCE ProcessLifecycle WITH place <- Place, work <- left

(* Every step of the main thread and of the core threads is a step of the  *)
(* lifecycle or none: no queue operation skips a stage, runs more          *)
(* processes than there are cores or finishes one that has work left.      *)
ImplementsLifecycle == Lifecycle!Spec

-----------------------------------------------------------------------------
(* The processes in front of p in queue q.                                 *)
Ahead(p, q) == {q[i] : i \in {j \in DOMAIN q : \A h \in 1..j : q[h] # p}}

(* Every process finishes and main leaves the simulation loop.             *)
AllFinish == <>(pc = "done")
=============================================================================
