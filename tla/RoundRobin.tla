----------------------------- MODULE RoundRobin -----------------------------
(***************************************************************************)
(* The round-robin scheduler: main.cpp's loading and simulation loop and   *)
(* src/cpu/RoundRobinScheduler.cpp, run by the main thread, interleaved    *)
(* with the execution threads of module Core.  Queued at the back,         *)
(* preempted by its quantum, unblocked by the next batch.                  *)
(***************************************************************************)
EXTENDS Scheduler

-----------------------------------------------------------------------------
(* Helpers.                                                                *)

(* Mutant: push_front.                                                     *)
EnqueueReadyFront(p) ==
  /\ ready' = <<p>> \o ready
  /\ readyCount' = readyCount + 1

EnqueueReady(p) ==
  /\ ready' = Append(ready, p)
  /\ readyCount' = readyCount + 1

ToReady(p) ==
  /\ EnqueueReady(p)
  /\ UNCHANGED <<blocked, finished, finishedCount>>

(* collect_finished_processes, by the state of the process in the core.    *)
Classify(p) ==
  CASE pstate[p] = "Finished" -> ToFinished(p)
    [] pstate[p] = "Blocked"  -> ToBlocked(p)
    [] pstate[p] = "Ready"    -> ToReady(p)
    [] OTHER                  -> ToNowhere

(* Mutant: the urgent collect keeps finished processes only.               *)
ClassifyUrgentFinishedOnly(p) ==
  CASE pstate[p] = "Finished" -> ToFinished(p)
    [] OTHER                  -> ToNowhere

(* The urgent collect of the assignment loop knows two of the states only: *)
(* a Blocked process it finds goes nowhere.                                *)
ClassifyUrgent(p) ==
  CASE pstate[p] = "Finished" -> ToFinished(p)
    [] pstate[p] = "Ready"    -> ToReady(p)
    [] OTHER                  -> ToNowhere

-----------------------------------------------------------------------------
(* main.cpp: every process is added before the loop starts.  The order of  *)
(* the --process options is any.                                           *)

AddProcess(p) ==
  /\ pc = "load" /\ p \notin Held
  /\ EnqueueReady(p)
  /\ totalCount' = totalCount + 1
  /\ pstate' = [pstate EXCEPT ![p] = "Ready"]
  /\ UNCHANGED <<left, current, coreState, thread, blocked, finished,
                 idleCores, finishedCount, controlVars>>

(* while (has_pending_processes()) schedule_cycle(): the next cycle begins *)
(* by advancing current_time.                                              *)
BeginCycle ==
  /\ pc = "loop" /\ finishedCount < totalCount
  /\ tick' = (tick + 1) % BatchSize
  /\ pc' = "collect" /\ k' = 1 /\ round' = 1
  /\ UNCHANGED <<dataVars, attempts, assigned>>

EndSimulation ==
  /\ pc = "loop" /\ finishedCount >= totalCount
  /\ pc' = "done"
  /\ UNCHANGED <<dataVars, tick, k, round, attempts, assigned>>

-----------------------------------------------------------------------------
(* collect_finished_processes, one core at a time.                         *)

Collect ==
  /\ pc = "collect"
  /\ current[k] # NoProc
  /\ IsIdle(k) \/ ~IsThreadRunning(k)
  /\ Release
  /\ Classify(current[k])
  /\ NextCollect

-----------------------------------------------------------------------------
(* schedule_cycle between the first and the second collect.                *)

(* Mutant: p->state = State::Ready is forgotten.                           *)
WakeForgotten == pstate

Wake == [p \in Procs |-> IF p \in Range(blocked) THEN "Ready" ELSE pstate[p]]

(* handle_blocked_processes: every blocked process becomes ready.          *)
HandleBlocked ==
  /\ ready' = ready \o blocked
  /\ blocked' = <<>>
  /\ readyCount' = readyCount + Len(blocked)
  /\ pstate' = Wake

BeginBatch ==
  /\ pc = "batch" /\ BatchDue
  /\ pc' = "pass"
  /\ HandleBlocked
  /\ attempts' = MaxAttempts(ready')
  /\ UNCHANGED <<left, current, coreState, thread, finished, idleCores,
                 finishedCount, totalCount, tick, k, round, assigned>>

(* The core went IDLE after the last collect: its old process first.       *)
UrgentCollect ==
  /\ pc = "assign" /\ IsIdle(k) /\ ready # <<>> /\ ~SlotFree
  /\ Release
  /\ ClassifyUrgent(current[k])
  /\ UNCHANGED <<pstate, left, coreState, totalCount, controlVars>>

ScheduleCycle ==
  \/ BeginCycle \/ SkipCore \/ Collect \/ SkipBatch \/ BeginBatch
  \/ BeginPass \/ SkipAssign \/ UrgentCollect \/ Dispatch \/ EndPass
  \/ EndBatch \/ ForceCollect

Main ==
  \/ \E p \in Procs : AddProcess(p)
  \/ EndLoading \/ EndSimulation
  \/ ScheduleCycle

Init == SchedulerInit

Next == Main \/ (\E c \in Cores : CoreThread(c)) \/ Terminated

Spec == Init /\ [][Next]_vars

(* Every thread is scheduled by the operating system again and again: the  *)
(* main thread only ever yields, sleeps or joins a thread that has already *)
(* shown IDLE, and a core thread takes no lock another thread keeps.       *)
FairSpec == Spec /\ WF_vars(Main) /\ \A c \in Cores : WF_vars(CoreThread(c))

-----------------------------------------------------------------------------
(* Safety.                                                                 *)

(* PCB.state, which the core threads write without a lock, agrees with the *)
(* queue the main thread put the process in, and while a thread has not    *)
(* been joined the process its core shows is in the state of its burst.    *)
StateMatchesPlace ==
  /\ \A p \in Range(ready) : pstate[p] = "Ready"
  /\ \A p \in Range(blocked) : pstate[p] = "Blocked"
  /\ \A p \in finished : pstate[p] = "Finished" /\ left[p] = 0
  /\ CoreAgrees

(* A process the scheduler holds nowhere was found Blocked by the urgent   *)
(* collect: no other interleaving of a burst's end with the main thread    *)
(* loses a process.                                                        *)
OnlyBlockedAreDropped ==
  pc # "load" => \A p \in Procs \ Held : pstate[p] = "Blocked"

(* main leaves the simulation loop only when every process has run to its  *)
(* end and every execution thread has been joined.                         *)
DoneMeansAllFinished ==
  pc = "done" => /\ finished = Procs
                 /\ \A p \in Procs : pstate[p] = "Finished" /\ left[p] = 0
                 /\ \A c \in Cores : ~IsThreadRunning(c) /\ IsIdle(c)

-----------------------------------------------------------------------------
(* What a step may never do.                                               *)

(* A finished process stays finished and never executes again.             *)
FinishedIsFinal ==
  [][\A p \in finished : /\ p \in finished' /\ pstate'[p] = "Finished"
                         /\ left'[p] = left[p]]_vars

(* While a process waits in ready_queue nobody gets in front of it, and    *)
(* the one that leaves the queue is the one that waited longest.  With     *)
(* OnePlace this is the round-robin bound: every other process is          *)
(* dispatched at most once before it.                                      *)
NoOvertaking ==
  [][\A p \in Range(ready) : \/ p \in Range(ready') /\ Ahead(p, ready') \subseteq Ahead(p, ready)
                             \/ p \notin Range(ready') /\ Ahead(p, ready) = {}]_vars

-----------------------------------------------------------------------------
(* Liveness, under FairSpec.                                               *)

(* A ready process is always dispatched again, whoever else blocks, prints *)
(* or is dropped.                                                          *)
ReadyIsDispatched ==
  \A p \in Procs : p \in Range(ready) ~> \E c \in Cores : current[c] = p

(* A process that collect found blocked becomes ready again, though the    *)
(* batch that releases it may be skipped.                                  *)
BlockedIsReleased ==
  \A p \in Procs : p \in Range(blocked) ~> p \in Range(ready)

(* A process that never prints finishes, if its quantum lets it execute.   *)
NonPrintingFinish ==
  \A p \in Procs : p \notin Prints /\ Quantum[p] > 0 => <>(p \in finished)
=============================================================================
