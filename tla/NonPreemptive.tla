--------------------------- MODULE NonPreemptive ---------------------------
(***************************************************************************)
(* The FCFS, SJN and priority schedulers.  They are one program but for    *)
(* the place enqueue_ready_process gives a process; what the three agree   *)
(* on is mapped to one of the files.  They differ from the round robin in  *)
(* that a blocked process is registered with the I/O manager as well as    *)
(* put into blocked_list, which the next batch empties without waiting for *)
(* the I/O.                                                                *)
(***************************************************************************)
EXTENDS Scheduler, IOManager, SequencesExt

CONSTANTS
  Policies,     (* the values of the --policy option                       *)
  Key,          (* estimated_job_size (SJN) or priority (PRIORITY)         *)
  LongQuantum   (* the quantum every dispatch sets, 999999 in the code     *)

ASSUME PoliciesAssumption == Policies \subseteq {"FCFS", "SJN", "PRIORITY"}
ASSUME KeyAssumption == Key \in [Procs -> Int]
ASSUME LongQuantumAssumption == \A p \in Procs : Quantum[p] = LongQuantum

VARIABLES
  policy,   (* which scheduler main.cpp has constructed                    *)
  it        (* the iterator of the unblocking loop, as a position          *)

allVars == <<vars, ioVars, policy, it>>

NPTypeOK == TypeOK /\ IOTypeOK /\ policy \in Policies /\ it \in Nat \ {0}

Init == SchedulerInit /\ IOInit /\ policy \in Policies /\ it = 1

-----------------------------------------------------------------------------
(* enqueue_ready_process.                                                  *)

(* Mutant: a job goes before those of its own size.                        *)
JobSizeOrderBeforeEqual(q, p) ==
  LET i == SelectInSeq(q, LAMBDA r : Key[p] <= Key[r])
  IN  IF i = 0 THEN Append(q, p) ELSE InsertAt(q, i, p)

(* Before the first longer job.                                            *)
JobSizeOrder(q, p) ==
  LET i == SelectInSeq(q, LAMBDA r : Key[p] < Key[r])
  IN  IF i = 0 THEN Append(q, p) ELSE InsertAt(q, i, p)

(* Mutant: lowest priority first.                                          *)
RankLowestFirst(s, i) ==
  Cardinality({j \in DOMAIN s : Key[s[j]] < Key[s[i]] \/ (Key[s[j]] = Key[s[i]] /\ j <= i)})

(* std::stable_sort, highest priority first: where element i of s goes.    *)
StableRank(s, i) ==
  Cardinality({j \in DOMAIN s : Key[s[j]] > Key[s[i]] \/ (Key[s[j]] = Key[s[i]] /\ j <= i)})

SortByPriority(s) ==
  [n \in DOMAIN s |-> s[CHOOSE i \in DOMAIN s : StableRank(s, i) = n]]

PriorityOrder(q, p) == SortByPriority(Append(q, p))

(* Mutant: what comes back goes to the front.                              *)
EnqueuedInFront(q, p) == <<p>> \o q

Enqueued(q, p) ==
  CASE policy = "FCFS"     -> Append(q, p)
    [] policy = "SJN"      -> JobSizeOrder(q, p)
    [] policy = "PRIORITY" -> PriorityOrder(q, p)

EnqueueReady(p) ==
  /\ ready' = Enqueued(ready, p)
  /\ readyCount' = readyCount + 1

-----------------------------------------------------------------------------
(* main.cpp: loading, and while (!all_finished()) schedule_cycle().        *)

AddProcess(p) ==
  /\ pc = "load" /\ p \notin Held
  /\ EnqueueReady(p)
  /\ totalCount' = totalCount + 1
  /\ pstate' = [pstate EXCEPT ![p] = "Ready"]
  /\ UNCHANGED <<left, current, coreState, thread, blocked, finished,
                 idleCores, finishedCount, controlVars, ioVars>>

AllFinished ==
  /\ finishedCount >= totalCount /\ totalCount > 0
  /\ \A c \in Cores : current[c] = NoProc /\ ~IsThreadRunning(c)

BeginCycle ==
  /\ pc = "loop" /\ ~AllFinished
  /\ tick' = (tick + 1) % BatchSize
  /\ pc' = "collect" /\ k' = 1 /\ round' = 1
  /\ UNCHANGED <<dataVars, attempts, assigned>>

EndSimulation ==
  /\ pc = "loop" /\ AllFinished
  /\ pc' = "done"
  /\ UNCHANGED <<dataVars, tick, k, round, attempts, assigned>>

-----------------------------------------------------------------------------
(* collect_finished_processes and the urgent collect.                      *)

ToReady(p) ==
  /\ EnqueueReady(p)
  /\ UNCHANGED <<blocked, finished, finishedCount, waiting>>

ToBlockedAndIO(p) == RegisterProcessWaitingForIO(p) /\ ToBlocked(p)

Classify(p) ==
  CASE pstate[p] = "Finished" -> ToFinished(p) /\ UNCHANGED waiting
    [] pstate[p] = "Blocked"  -> ToBlockedAndIO(p)
    [] OTHER                  -> ToReady(p)

Collect ==
  /\ pc = "collect"
  /\ current[k] # NoProc
  /\ IsIdle(k) \/ ~IsThreadRunning(k)
  /\ Release
  /\ Classify(current[k])
  /\ NextCollect
  /\ UNCHANGED <<printer, disk, serving>>

(* Mutant: the urgent collect of the round-robin scheduler.                *)
ClassifyUrgentDropsBlocked(p) ==
  CASE pstate[p] = "Finished" -> ToFinished(p) /\ UNCHANGED waiting
    [] pstate[p] = "Ready"    -> ToReady(p)
    [] OTHER                  -> ToNowhere /\ UNCHANGED waiting

(* Mutant: the urgent collect does not register the process.               *)
ClassifyUrgentUnregistered(p) ==
  CASE pstate[p] = "Finished" -> ToFinished(p) /\ UNCHANGED waiting
    [] pstate[p] = "Blocked"  -> ToBlocked(p) /\ UNCHANGED waiting
    [] pstate[p] = "Ready"    -> ToReady(p)
    [] OTHER                  -> ToNowhere /\ UNCHANGED waiting

ClassifyUrgent(p) ==
  CASE pstate[p] = "Finished" -> ToFinished(p) /\ UNCHANGED waiting
    [] pstate[p] = "Blocked"  -> ToBlockedAndIO(p)
    [] pstate[p] = "Ready"    -> ToReady(p)
    [] OTHER                  -> ToNowhere /\ UNCHANGED waiting

UrgentCollect ==
  /\ pc = "assign" /\ IsIdle(k) /\ ready # <<>> /\ ~SlotFree
  /\ Release
  /\ ClassifyUrgent(current[k])
  /\ UNCHANGED <<pstate, left, coreState, totalCount, controlVars,
                 printer, disk, serving>>

-----------------------------------------------------------------------------
(* The batch.                                                              *)

BeginBatch ==
  /\ pc = "batch" /\ BatchDue
  /\ pc' = "unblock" /\ it' = 1
  /\ UNCHANGED <<dataVars, tick, k, round, attempts, assigned, ioVars>>

OnCore(p) == \E c \in Cores : current[c] = p

(* Mutant: the iterator moves on and the process stays in blocked_list.    *)
EraseForgotten == it' = it + 1 /\ UNCHANGED blocked

Erase == blocked' = RemoveAt(blocked, it) /\ UNCHANGED it

(* One turn of the forced unblocking: a process that a core still shows    *)
(* leaves the list, another one becomes ready whatever its I/O.            *)
Unblock ==
  /\ pc = "unblock" /\ it <= Len(blocked)
  /\ LET p == blocked[it]
     IN  CASE OnCore(p) ->
                Erase /\ UNCHANGED <<pstate, ready, readyCount>>
           [] ~OnCore(p) /\ pstate[p] \in {"Blocked", "Ready"} ->
                /\ pstate' = [pstate EXCEPT ![p] = "Ready"]
                /\ EnqueueReady(p)
                /\ Erase
           [] OTHER ->
                it' = it + 1 /\ UNCHANGED <<pstate, ready, readyCount, blocked>>
  /\ UNCHANGED <<left, current, coreState, thread, finished, idleCores,
                 finishedCount, totalCount, controlVars, ioVars>>

EndUnblock ==
  /\ pc = "unblock" /\ it > Len(blocked)
  /\ pc' = "pass" /\ attempts' = MaxAttempts(ready)
  /\ UNCHANGED <<dataVars, tick, k, round, assigned, ioVars, it>>

ScheduleCycle ==
  \/ BeginBatch \/ Unblock \/ EndUnblock
  \/ (Collect \/ UrgentCollect) /\ UNCHANGED it
  \/ /\ \/ BeginCycle \/ SkipCore \/ SkipBatch \/ BeginPass \/ SkipAssign
        \/ Dispatch \/ EndPass \/ EndBatch \/ ForceCollect
     /\ UNCHANGED <<ioVars, it>>

Main ==
  /\ \/ (\E p \in Procs : AddProcess(p)) /\ UNCHANGED it
     \/ (EndLoading \/ EndSimulation) /\ UNCHANGED <<ioVars, it>>
     \/ ScheduleCycle
  /\ UNCHANGED policy

CoreStep(c) == CoreThread(c) /\ UNCHANGED <<ioVars, policy, it>>

IOStep == ManagerLoop /\ UNCHANGED <<queueVars, counterVars, controlVars, policy, it>>

(* main is done; the manager thread goes on until it is destroyed.         *)
Stopped == Terminated /\ UNCHANGED <<ioVars, policy, it>>

Next == Main \/ (\E c \in Cores : CoreStep(c)) \/ IOStep \/ Stopped

Spec == Init /\ [][Next]_allVars

(* As for the round robin.  Nothing is asked of the manager thread: the    *)
(* next batch releases a blocked process whether its I/O was done or not,  *)
(* and the thread is stopped when main returns.                            *)
FairSpec ==
  /\ Spec
  /\ WF_allVars(Main)
  /\ \A c \in Cores : WF_allVars(CoreStep(c))

-----------------------------------------------------------------------------
(* Safety.                                                                 *)

(* q goes before p.                                                        *)
Better(q, p) ==
  CASE policy = "FCFS"     -> FALSE
    [] policy = "SJN"      -> Key[q] < Key[p]
    [] policy = "PRIORITY" -> Key[q] > Key[p]

(* The ready queue is in the policy's order whatever the order in which    *)
(* processes are loaded, preempted, collected and unblocked: the one a     *)
(* core takes from the front is never worse than one that waits.           *)
BestFirst == \A i, j \in DOMAIN ready : i < j => ~Better(ready[j], ready[i])

(* A process waits in blocked_list for an I/O that somebody has: until it  *)
(* is Ready again, the manager holds it, waiting or in service, however    *)
(* often it was registered before and whichever request completes first.   *)
BlockedIsRegistered ==
  \A p \in Range(blocked) :
    pstate[p] = "Blocked" => p \in Range(waiting) \cup {serving}

(* The requests of p that the manager holds.                               *)
Times(q, p) == Cardinality({i \in DOMAIN q : q[i] = p})

Requests(p) == Times(waiting, p) + (IF serving = p THEN 1 ELSE 0)

(* A request stands for a PRINT of its own: the manager never holds more   *)
(* requests of a process than it has executed instructions, although       *)
(* nobody withdraws the one of a process that is forced ready, and three   *)
(* collects may meet it when it blocks again.                              *)
RequestsArePrints == \A p \in Procs : Requests(p) <= Budget[p] - left[p]

(* main leaves the loop only when each process was collected after its     *)
(* end, no instruction is left, and every thread is joined.                *)
DoneMeansAllCollected ==
  pc = "done" => /\ finished = Procs
                 /\ \A p \in Procs : left[p] = 0
                 /\ \A c \in Cores : ~IsThreadRunning(c) /\ IsIdle(c)

(* "Todos os processos foram finalizados!" (src/main.cpp:300): when main   *)
(* prints this and then the metrics of each process that is Finished, all  *)
(* of them are.                                                            *)
FinishedStatesKept == pc = "done" => \A p \in Procs : pstate[p] = "Finished"

-----------------------------------------------------------------------------
(* What a step may never do.                                               *)

(* A process that waits in ready_queue is passed only by a strictly better *)
(* one, so that equal jobs are served in order of arrival, and the one     *)
(* that leaves the queue had nobody in front.                              *)
PassedOnlyByBetter ==
  [][\A p \in Range(ready) :
       \/ /\ p \in Range(ready')
          /\ \A q \in Ahead(p, ready') \ Ahead(p, ready) : Better(q, p)
       \/ p \notin Range(ready') /\ Ahead(p, ready) = {}]_allVars
=============================================================================
