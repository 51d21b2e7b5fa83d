-------------------------- MODULE SchedulerProofs --------------------------
(***************************************************************************)
(* What holds of the steps that all four schedulers share, for every       *)
(* number of cores, every finite set of processes, every quantum, batch    *)
(* size and program.  The proofs about RoundRobin and NonPreemptive cite   *)
(* these lemmas.                                                           *)
(***************************************************************************)
EXTENDS Scheduler, QueueLemmas, FiniteSetTheorems, TLAPS

-----------------------------------------------------------------------------
(***************************************************************************)
(* What every step of an execution thread preserves, and what it leaves    *)
(* alone, for every scheduler: the schedulers' proofs cite these lemmas    *)
(* and never look inside run_process again.                                *)
(***************************************************************************)

USE ProcsAssumption, NumCoresAssumption, QuantumAssumption, ProgramAssumption

(* The fields of a thread, one by one.                                     *)
LEMMA ThreadFields ==
  ASSUME NEW t \in Thread
  PROVE  /\ t.loc \in {"none", "run", "settled", "exited"}
         /\ t.proc \in Procs \cup {NoProc}
         /\ t.cycles \in Nat /\ t.cycles + 1 \in Nat
         /\ t.why \in {"", "end", "io", "fault"}
<1>1. /\ t.loc \in {"none", "run", "settled", "exited"}
      /\ t.proc \in Procs \cup {NoProc}
      /\ t.cycles \in Nat
      /\ t.why \in {"", "end", "io", "fault"}
  BY DEF Thread
<1>2. t.cycles \in Nat => t.cycles + 1 \in Nat
  OBVIOUS
<1> QED
  BY <1>1, <1>2

(* ... and what changing them gives.                                       *)
LEMMA ThreadUpdates ==
  ASSUME NEW t \in Thread
  PROVE  /\ \A l \in {"none", "run", "settled", "exited"} : [t EXCEPT !.loc = l] \in Thread
         /\ \A n \in Nat : [t EXCEPT !.cycles = n] \in Thread
         /\ \A w \in {"", "end", "io", "fault"} : [t EXCEPT !.why = w] \in Thread
BY DEF Thread

LEMMA NoThreadType == NoThread \in Thread
BY DEF NoThread, Thread

(* An instruction is fetched only while the program has some.              *)
LEMMA LeftType ==
  ASSUME left \in [Procs -> Nat], NEW p, left[p] > 0
  PROVE  [left EXCEPT ![p] = @ - 1] \in [Procs -> Nat]
<1>1. CASE p \in Procs
  <2>1. left[p] - 1 \in Nat
    BY <1>1
  <2> QED
    BY <1>1, <2>1
<1>2. CASE p \notin Procs
  BY <1>2
<1> QED
  BY <1>1, <1>2

(* A step of run_process keeps the types.                                  *)
LEMMA RunProcessType ==
  ASSUME CoreTypeOK, NEW c \in Cores, RunProcess(c)
  PROVE  CoreTypeOK'
<1>0. /\ thread[c] \in Thread
      /\ thread[c].cycles + 1 \in Nat
  BY ThreadFields DEF CoreTypeOK
<1>1. CASE Instruction(c)
  <2>1. thread' \in [Cores -> Thread]
    BY <1>0, <1>1 DEF Instruction, CoreTypeOK, Thread
  <2>2. left' \in [Procs -> Nat]
    BY <1>1, LeftType DEF Instruction, CoreTypeOK
  <2> QED
    BY <1>1, <2>1, <2>2 DEF Instruction, CoreTypeOK
<1>2. CASE PrintInstr(c)
  <2> DEFINE u == [thread EXCEPT ![c].cycles = @ + 1]
  <2>1. u \in [Cores -> Thread]
    BY <1>0 DEF CoreTypeOK, Thread
  <2>2. thread' = [u EXCEPT ![c].why = "io"]
    BY <1>2 DEF PrintInstr, CoreTypeOK
  <2>3. thread' \in [Cores -> Thread]
    <3> HIDE DEF u
    <3> QED
      BY <2>1, <2>2 DEF Thread
  <2>4. left' \in [Procs -> Nat]
    BY <1>2, LeftType DEF PrintInstr, CoreTypeOK
  <2>5. pstate' \in [Procs -> State]
    BY <1>2 DEF PrintInstr, CoreTypeOK, State
  <2> QED
    BY <1>2, <2>3, <2>4, <2>5 DEF PrintInstr, CoreTypeOK
<1>3. CASE End(c)
  <2>1. thread' = [thread EXCEPT ![c] = [@ EXCEPT !.why = "end"]]
    BY <1>3 DEF End
  <2>2. thread' \in [Cores -> Thread]
    BY <1>0, <2>1, ThreadUpdates DEF CoreTypeOK
  <2>3. left' \in [Procs -> Nat]
    BY <1>3 DEF End, CoreTypeOK
  <2> QED
    BY <1>3, <2>2, <2>3 DEF End, CoreTypeOK
<1>4. CASE Fault(c)
  <2>1. thread' = [thread EXCEPT ![c] = [@ EXCEPT !.why = "fault"]]
    BY <1>4 DEF Fault
  <2>2. thread' \in [Cores -> Thread]
    BY <1>0, <2>1, ThreadUpdates DEF CoreTypeOK
  <2>3. left' \in [Procs -> Nat]
    BY <1>4, LeftType DEF Fault, CoreTypeOK
  <2> QED
    BY <1>4, <2>2, <2>3 DEF Fault, CoreTypeOK
<1>5. CASE Settle(c)
  <2>1. thread' = [thread EXCEPT ![c] = [@ EXCEPT !.loc = "settled"]]
    BY <1>5 DEF Settle
  <2>2. thread' \in [Cores -> Thread]
    BY <1>0, <2>1, ThreadUpdates DEF CoreTypeOK
  <2>3. pstate' \in [Procs -> State]
    BY <1>5 DEF Settle, CoreTypeOK, FinalState, State
  <2> QED
    BY <1>5, <2>2, <2>3 DEF Settle, CoreTypeOK
<1>6. CASE GoIdle(c)
  <2>1. thread' = [thread EXCEPT ![c] = [@ EXCEPT !.loc = "exited"]]
    BY <1>6 DEF GoIdle
  <2>2. thread' \in [Cores -> Thread]
    BY <1>0, <2>1, ThreadUpdates DEF CoreTypeOK
  <2> QED
    BY <1>6, <2>2 DEF GoIdle, CoreTypeOK
<1> QED
  BY <1>1, <1>2, <1>3, <1>4, <1>5, <1>6 DEF RunProcess

(* What relates a core's slot, its flag and its thread, whoever else may   *)
(* write the state of its process.                                         *)
SlotsAgree ==
  \A c \in Cores :
    /\ thread[c].proc = current[c]
    /\ IsThreadRunning(c) <=> current[c] # NoProc
    /\ IsIdle(c) <=> Joined(c)
    /\ IsThreadRunning(c) /\ thread[c].why = "end" => left[current[c]] = 0

(* While nobody else does, it is the state of the burst.                   *)
BurstStates ==
  \A c \in Cores : IsThreadRunning(c) => pstate[current[c]] = BurstState(thread[c])

LEMMA CoreAgreesParts == CoreAgrees <=> SlotsAgree /\ BurstStates
BY DEF CoreAgrees, SlotsAgree, BurstStates

(* A core no process was dispatched to has no thread to step.              *)
LEMMA RunProcessOccupied ==
  ASSUME CoreTypeOK, SlotsAgree, NEW c \in Cores, RunProcess(c)
  PROVE  /\ thread[c].proc = current[c] /\ current[c] \in Procs
         /\ IsThreadRunning(c)
         /\ thread[c].why = "end" => left[current[c]] = 0
<1>1. thread[c].loc \in {"run", "settled"}
  BY DEF RunProcess, Instruction, PrintInstr, End, Fault, Settle, GoIdle, InLoop
<1> QED
  BY <1>1 DEF SlotsAgree, CoreTypeOK, IsThreadRunning

(* A step of run_process changes its own core's thread and flag and its    *)
(* own process, and nothing else.                                          *)
LEMMA RunProcessFrame ==
  ASSUME CoreTypeOK, SlotsAgree, NEW c \in Cores, RunProcess(c)
  PROVE  /\ current' = current
         /\ \A d \in Cores \ {c} : thread'[d] = thread[d] /\ coreState'[d] = coreState[d]
         /\ \A p \in Procs \ {current[c]} : pstate'[p] = pstate[p] /\ left'[p] = left[p]
<1>1. thread[c].proc = current[c]
  BY RunProcessOccupied
<1> QED
  BY <1>1 DEF CoreTypeOK, RunProcess, Instruction, PrintInstr, End, Fault, Settle, GoIdle

(* ... and its process is in the state of its burst, or in the one it was  *)
(* in before, which is no other unless somebody else has written it.       *)
LEMMA RunProcessOwn ==
  ASSUME CoreTypeOK, SlotsAgree, NEW c \in Cores, RunProcess(c)
  PROVE  /\ thread'[c].proc = thread[c].proc
         /\ thread'[c].loc # "none"
         /\ coreState'[c] = "IDLE" <=> thread'[c].loc = "exited"
         /\ \/ pstate'[current[c]] = BurstState(thread'[c])
            \/ /\ pstate'[current[c]] = pstate[current[c]]
               /\ BurstState(thread'[c]) = BurstState(thread[c])
         /\ thread'[c].why = "end" => left'[current[c]] = 0
<1>0. /\ thread[c].proc = current[c] /\ current[c] \in Procs
      /\ thread[c].loc # "none"
      /\ thread[c].why = "end" => left[current[c]] = 0
  BY RunProcessOccupied DEF IsThreadRunning
<1>a. coreState[c] = "IDLE" <=> thread[c].loc = "exited"
  BY <1>0 DEF SlotsAgree, IsIdle, Joined
<1> USE DEF CoreTypeOK, BurstState
<1>1. CASE Instruction(c)
  <2>1. /\ thread'[c].proc = thread[c].proc /\ thread'[c].loc = thread[c].loc
        /\ thread'[c].why = thread[c].why /\ thread[c].why = ""
    BY <1>1 DEF Instruction, Thread, InLoop
  <2>2. pstate' = pstate /\ coreState' = coreState
    BY <1>1 DEF Instruction
  <2>3. BurstState(thread'[c]) = BurstState(thread[c])
    BY <2>1, Zenon
  <2> QED
    BY <1>0, <1>a, <2>1, <2>2, <2>3
<1>2. CASE PrintInstr(c)
  <2>1. /\ thread'[c].proc = thread[c].proc /\ thread'[c].loc = thread[c].loc
        /\ thread'[c].why = "io" /\ thread[c].loc = "run"
    BY <1>2 DEF PrintInstr, Thread, InLoop
  <2> QED
    BY <1>0, <1>a, <1>2, <2>1 DEF PrintInstr
<1>3. CASE End(c)
  <2>1. /\ thread'[c].proc = thread[c].proc /\ thread'[c].loc = thread[c].loc
        /\ thread'[c].why = "end" /\ thread[c].loc = "run" /\ thread[c].why = ""
    BY <1>3 DEF End, Thread, InLoop
  <2> QED
    BY <1>0, <1>a, <1>3, <2>1 DEF End
<1>4. CASE Fault(c)
  <2>1. /\ thread'[c].proc = thread[c].proc /\ thread'[c].loc = thread[c].loc
        /\ thread'[c].why = "fault" /\ thread[c].loc = "run" /\ thread[c].why = ""
    BY <1>4 DEF Fault, Thread, InLoop
  <2> QED
    BY <1>0, <1>a, <1>4, <2>1 DEF Fault
<1>5. CASE Settle(c)
  <2>1. /\ thread'[c].proc = thread[c].proc /\ thread'[c].loc = "settled"
        /\ thread'[c].why = thread[c].why /\ thread[c].loc = "run"
    BY <1>5 DEF Settle, Thread
  <2> QED
    BY <1>0, <1>a, <1>5, <2>1 DEF Settle
<1>6. CASE GoIdle(c)
  <2>1. /\ thread'[c].proc = thread[c].proc /\ thread'[c].loc = "exited"
        /\ thread'[c].why = thread[c].why /\ thread[c].loc = "settled"
    BY <1>6 DEF GoIdle, Thread
  <2> QED
    BY <1>0, <1>a, <1>6, <2>1 DEF GoIdle
<1> QED
  BY <1>1, <1>2, <1>3, <1>4, <1>5, <1>6 DEF RunProcess

(* No two cores show the same process.                                     *)
OneCore == \A c, d \in Cores : current[c] = current[d] /\ current[c] # NoProc => c = d

(* The cores still agree with their threads after a step of one of them.   *)
LEMMA RunProcessSlots ==
  ASSUME CoreTypeOK, SlotsAgree, OneCore, NEW c \in Cores, RunProcess(c)
  PROVE  /\ SlotsAgree'
         /\ \A d \in Cores \ {c} : current[d] # NoProc =>
              current[d] \in Procs \ {current[c]}
<1>1. /\ thread[c].proc = current[c] /\ current[c] \in Procs /\ NoProc \notin Procs
  BY RunProcessOccupied
<1>2. \A d \in Cores \ {c} : current[d] # NoProc => current[d] \in Procs \ {current[c]}
  BY <1>1 DEF OneCore, CoreTypeOK
<1>3. ASSUME NEW d \in Cores
      PROVE  /\ thread'[d].proc = current'[d]
             /\ thread'[d].loc # "none" <=> current'[d] # NoProc
             /\ coreState'[d] = "IDLE" <=> thread'[d].loc \in {"none", "exited"}
             /\ thread'[d].loc # "none" /\ thread'[d].why = "end" => left'[current'[d]] = 0
  <2>1. CASE d = c
    BY <1>1, <2>1, RunProcessFrame, RunProcessOwn
  <2>2. CASE d # c
    BY <1>2, <2>2, RunProcessFrame DEF SlotsAgree, IsThreadRunning, IsIdle, Joined
  <2> QED
    BY <2>1, <2>2
<1> QED
  BY <1>2, <1>3 DEF SlotsAgree, IsThreadRunning, IsIdle, Joined

LEMMA RunProcessAgrees ==
  ASSUME CoreTypeOK, CoreAgrees, OneCore, NEW c \in Cores, RunProcess(c)
  PROVE  CoreAgrees'
<1>1. SlotsAgree /\ BurstStates
  BY CoreAgreesParts
<1>2. SlotsAgree'
  BY <1>1, RunProcessSlots
<1>3. BurstStates'
  <2>1. SUFFICES ASSUME NEW d \in Cores, thread'[d].loc # "none"
        PROVE  pstate'[current'[d]] = BurstState(thread'[d])
    BY DEF BurstStates, IsThreadRunning, BurstState, FinalState
  <2>2. CASE d = c
    BY <1>1, <2>2, RunProcessFrame, RunProcessOwn, RunProcessOccupied DEF BurstStates
  <2>3. CASE d # c
    <3>1. thread'[d] = thread[d] /\ current'[d] = current[d] /\ current[d] # NoProc
      BY <1>1, <2>1, <2>3, RunProcessFrame DEF SlotsAgree, IsThreadRunning
    <3> QED
      BY <1>1, <2>1, <2>3, <3>1, RunProcessFrame, RunProcessSlots DEF BurstStates, IsThreadRunning
  <2> QED
    BY <2>2, <2>3
<1>4. CoreAgrees' <=> SlotsAgree' /\ BurstStates'
  BY CoreAgreesParts, PTL
<1> QED
  BY <1>2, <1>3, <1>4

-----------------------------------------------------------------------------

USE ProcsAssumption, NumCoresAssumption, QuantumAssumption,
    ProgramAssumption, BatchSizeAssumption

-----------------------------------------------------------------------------
(* Type correctness, variable group by variable group.                     *)

QueueTypeOK ==
  /\ ready \in Seq(Procs) /\ blocked \in Seq(Procs) /\ finished \subseteq Procs
  /\ readyCount \in Int /\ idleCores \in Int
  /\ finishedCount \in Nat /\ totalCount \in Nat

ControlTypeOK ==
  /\ tick \in 0..(BatchSize - 1)
  /\ pc \in Locations
  /\ k \in Cores
  /\ round \in 1..3
  /\ attempts \in Nat
  /\ assigned \in BOOLEAN

LEMMA TypeParts == TypeOK <=> CoreTypeOK /\ QueueTypeOK /\ ControlTypeOK
BY DEF TypeOK, QueueTypeOK, ControlTypeOK

LEMMA SameCore == CoreTypeOK /\ UNCHANGED coreVars => CoreTypeOK'
BY DEF CoreTypeOK, coreVars

LEMMA SameQueues == QueueTypeOK /\ UNCHANGED <<queueVars, counterVars>> => QueueTypeOK'
BY DEF QueueTypeOK, queueVars, counterVars

(* Only control changes.                                                   *)
LEMMA DataKept ==
  ASSUME CoreTypeOK, QueueTypeOK, UNCHANGED dataVars
  PROVE  CoreTypeOK' /\ QueueTypeOK'
BY SameCore, SameQueues DEF dataVars

(* The next core is a core.                                                *)
LEMMA NextCore ==
  ASSUME k \in Cores
  PROVE  1 \in Cores /\ (k < NumCores => k + 1 \in Cores)
BY DEF Cores

LEMMA NextCollectType ==
  ASSUME ControlTypeOK, NextCollect
  PROVE  ControlTypeOK' /\ pc' \in {pc, "batch", "force", "loop"}
<1>1. k \in Cores /\ 1 \in Cores /\ (k < NumCores => k + 1 \in Cores)
  BY NextCore DEF ControlTypeOK
<1>2. AfterCollect \in {"batch", "force", "loop"}
  BY DEF AfterCollect, ControlTypeOK
<1> QED
  BY <1>1, <1>2 DEF NextCollect, ControlTypeOK, Locations

(* The steps that only move the main thread on.                            *)
ControlStep ==
  \/ EndLoading \/ SkipCore \/ SkipBatch \/ BeginPass \/ SkipAssign
  \/ EndPass \/ EndBatch \/ ForceCollect

LEMMA ControlStepType ==
  ASSUME CoreTypeOK, QueueTypeOK, ControlTypeOK, ControlStep
  PROVE  /\ CoreTypeOK' /\ QueueTypeOK' /\ ControlTypeOK'
         /\ UNCHANGED dataVars
         /\ pc = "load" => Held = Procs
         /\ pc' \notin {"load", "done"}
<1>0. k \in Cores /\ 1 \in Cores /\ (k < NumCores => k + 1 \in Cores)
  BY NextCore DEF ControlTypeOK
<1>1. ASSUME UNCHANGED dataVars PROVE CoreTypeOK' /\ QueueTypeOK'
  BY <1>1, DataKept
<1>2. CASE EndLoading
  BY <1>1, <1>2 DEF EndLoading, ControlTypeOK, Locations
<1>3. CASE SkipCore
  <2>1. UNCHANGED dataVars
    BY <1>3 DEF SkipCore, NextCollect, dataVars, coreVars, queueVars, counterVars
  <2>2. ControlTypeOK' /\ pc' \notin {"load", "done"} /\ pc # "load"
    BY <1>3, NextCollectType DEF SkipCore
  <2> QED
    BY <1>1, <2>1, <2>2
<1>4. CASE SkipBatch
  BY <1>1, <1>4 DEF SkipBatch, ControlTypeOK, Locations
<1>5. CASE BeginPass
  <2>1. attempts' \in Nat
    BY <1>5 DEF BeginPass, PassDue, ControlTypeOK
  <2> QED
    BY <1>0, <1>1, <1>5, <2>1 DEF BeginPass, ControlTypeOK, Locations
<1>6. CASE SkipAssign
  BY <1>0, <1>1, <1>6 DEF SkipAssign, NextAssign, ControlTypeOK, Locations
<1>7. CASE EndPass
  BY <1>1, <1>7 DEF EndPass, ControlTypeOK, Locations
<1>8. CASE EndBatch
  BY <1>0, <1>1, <1>8 DEF EndBatch, ControlTypeOK, Locations
<1>9. CASE ForceCollect
  BY <1>1, <1>9 DEF ForceCollect, ControlTypeOK, Locations
<1> QED
  BY <1>2, <1>3, <1>4, <1>5, <1>6, <1>7, <1>8, <1>9 DEF ControlStep

LEMMA DispatchType ==
  ASSUME CoreTypeOK, QueueTypeOK, ControlTypeOK, Dispatch
  PROVE  CoreTypeOK' /\ QueueTypeOK' /\ ControlTypeOK'
<1>0. k \in Cores /\ 1 \in Cores /\ (k < NumCores => k + 1 \in Cores)
  BY NextCore DEF ControlTypeOK
<1>1. Head(ready) \in Procs /\ Tail(ready) \in Seq(Procs)
  BY PopFront DEF Dispatch, QueueTypeOK
<1>2. [loc |-> "run", proc |-> Head(ready), cycles |-> 0, why |-> ""] \in Thread
  BY <1>1 DEF Thread
<1>3. CoreTypeOK'
  BY <1>0, <1>1, <1>2 DEF Dispatch, AssignProcessToCore, ExecuteAsync, CoreTypeOK, State
<1>4. QueueTypeOK'
  BY <1>1 DEF Dispatch, AssignProcessToCore, QueueTypeOK
<1>5. ControlTypeOK'
  BY <1>0 DEF Dispatch, NextAssign, ControlTypeOK, Locations
<1> QED
  BY <1>3, <1>4, <1>5

LEMMA InitType == SchedulerInit => CoreTypeOK /\ QueueTypeOK /\ ControlTypeOK
<1> SUFFICES ASSUME SchedulerInit PROVE CoreTypeOK /\ QueueTypeOK /\ ControlTypeOK
  OBVIOUS
<1>1. CoreTypeOK
  BY NoThreadType DEF SchedulerInit, CoreInit, CoreTypeOK, State
<1>2. QueueTypeOK
  BY EmptyQueue DEF SchedulerInit, QueueTypeOK
<1>3. 0 \in 0..(BatchSize - 1) /\ 1 \in Cores /\ 1 \in 1..3 /\ 0 \in Nat
  BY DEF Cores
<1>4. /\ tick = 0 /\ pc = "load" /\ k = 1 /\ round = 1
      /\ attempts = 0 /\ assigned = FALSE
  BY DEF SchedulerInit
<1> QED
  BY <1>1, <1>2, <1>3, <1>4 DEF ControlTypeOK, Locations

-----------------------------------------------------------------------------
(* The places of the processes, and the counters.                          *)

FreeCores == {c \in Cores : current[c] = NoProc}

CountsOK ==
  /\ readyCount = Len(ready)
  /\ idleCores = Cardinality(FreeCores)
  /\ finishedCount = Cardinality(finished)

(* A queue holds processes.                                                *)
LEMMA QueueMembers ==
  ASSUME NEW q \in Seq(Procs)
  PROVE  Range(q) \subseteq Procs
BY DEF Range

LEMMA HeldMembers ==
  ASSUME CoreTypeOK, QueueTypeOK
  PROVE  /\ Held \subseteq Procs
         /\ \A p \in Procs : p \in Held <=> \/ p \in Range(ready) \cup Range(blocked)
                                            \/ p \in finished
                                            \/ \E c \in Cores : current[c] = p
<1>1. Range(ready) \subseteq Procs /\ Range(blocked) \subseteq Procs
  BY QueueMembers DEF QueueTypeOK
<1>2. finished \subseteq Procs /\ \A c \in Cores : current[c] \in Procs \cup {NoProc}
  BY DEF QueueTypeOK, CoreTypeOK
<1> QED
  BY <1>1, <1>2 DEF Held

LEMMA FiniteCounts ==
  ASSUME CoreTypeOK, QueueTypeOK
  PROVE  /\ IsFiniteSet(Cores) /\ IsFiniteSet(FreeCores) /\ IsFiniteSet(finished)
         /\ IsFiniteSet(Held)
         /\ Cardinality(Cores) = NumCores
<1>1. IsFiniteSet(Cores) /\ Cardinality(Cores) = NumCores
  BY FS_Interval DEF Cores
<1>2. FreeCores \subseteq Cores /\ finished \subseteq Procs /\ Held \subseteq Procs
  BY HeldMembers DEF FreeCores, QueueTypeOK
<1> QED
  BY <1>1, <1>2, FS_Subset

LEMMA PlacesKept ==
  ASSUME OnePlace, CountsOK, UNCHANGED dataVars
  PROVE  OnePlace' /\ CountsOK' /\ Held' = Held
BY DEF OnePlace, CountsOK, FreeCores, Held, dataVars, coreVars, queueVars, counterVars

LEMMA InitPlaces ==
  ASSUME SchedulerInit
  PROVE  /\ OnePlace /\ CountsOK /\ CoreAgrees /\ Held = {}
         /\ Range(ready) = {} /\ Range(blocked) = {} /\ finished = {} /\ blocked = <<>>
         /\ \A c \in Cores : current[c] = NoProc
         /\ totalCount = Cardinality(Held) /\ pc = "load"
<1>1. /\ ready = <<>> /\ blocked = <<>> /\ finished = {}
      /\ Range(ready) = {} /\ Range(blocked) = {} /\ Len(ready) = 0
      /\ IsInjective(ready) /\ IsInjective(blocked)
  BY EmptyQueue DEF SchedulerInit
<1>2. \A c \in Cores : current[c] = NoProc /\ coreState[c] = "IDLE" /\ thread[c] = NoThread
  BY DEF SchedulerInit, CoreInit
<1>3. OnePlace
  BY <1>1, <1>2 DEF OnePlace
<1>4. CoreAgrees
  <2>1. NoThread.proc = NoProc /\ NoThread.loc = "none"
    BY DEF NoThread
  <2> QED
    BY <1>2, <2>1 DEF CoreAgrees, IsThreadRunning, IsIdle, Joined
<1>5. CountsOK
  <2>1. FreeCores = Cores
    BY <1>2 DEF FreeCores
  <2>2. Cardinality(Cores) = NumCores
    BY FS_Interval DEF Cores
  <2>3. readyCount = 0 /\ idleCores = NumCores /\ finishedCount = 0
    BY DEF SchedulerInit
  <2> QED
    BY <1>1, <2>1, <2>2, <2>3, FS_EmptySet DEF CountsOK
<1>6. Held = {}
  BY <1>1, <1>2 DEF Held
<1>7. totalCount = Cardinality(Held) /\ pc = "load"
  BY <1>6, FS_EmptySet DEF SchedulerInit
<1> QED
  BY <1>1, <1>2, <1>3, <1>4, <1>5, <1>6, <1>7

(* A process is put somewhere into a queue.                                *)
Put(q, r, p) ==
  /\ r \in Seq(Procs) /\ Len(r) = Len(q) + 1 /\ Range(r) = Range(q) \cup {p}
  /\ IsInjective(q) /\ p \notin Range(q) => IsInjective(r)

(* What a collect may do with a process, whatever the order of the queues. *)
PutReady(p) ==
  Put(ready, ready', p) /\ readyCount' = readyCount + 1
  /\ UNCHANGED <<blocked, finished, finishedCount>>

PutBlocked(p) ==
  Put(blocked, blocked', p)
  /\ UNCHANGED <<ready, readyCount, finished, finishedCount>>

LEMMA ToBlockedPuts ==
  ASSUME QueueTypeOK, NEW p \in Procs, ToBlocked(p)
  PROVE  PutBlocked(p)
<1>1. blocked' = Append(blocked, p) /\ blocked \in Seq(Procs)
  BY DEF ToBlocked, QueueTypeOK
<1>2. Put(blocked, blocked', p)
  BY <1>1, PushBack DEF Put
<1> QED
  BY <1>2 DEF ToBlocked, PutBlocked

(* Core k is released and its process put into one of the queues, or       *)
(* nowhere: it was in none of them, and core k was not free.               *)
LEMMA ReleasePlaces ==
  ASSUME CoreTypeOK, QueueTypeOK, OnePlace, CountsOK, k \in Cores,
         NEW p \in Procs, p = current[k],
         Release, UNCHANGED <<pstate, left, coreState, totalCount>>,
         ToFinished(p) \/ PutBlocked(p) \/ PutReady(p) \/ ToNowhere
  PROVE  /\ CoreTypeOK' /\ QueueTypeOK' /\ OnePlace' /\ CountsOK'
         /\ Joined(k) /\ current'[k] = NoProc /\ thread'[k] = NoThread
         /\ \A c \in Cores \ {k} : current'[c] = current[c] /\ thread'[c] = thread[c]
         /\ p \notin Range(ready) \cup Range(blocked) \cup finished
         /\ Held \ {p} \subseteq Held' /\ (p \in Held' \/ ToNowhere)
<1>1. /\ current' = [current EXCEPT ![k] = NoProc]
      /\ thread' = [thread EXCEPT ![k] = NoThread]
      /\ idleCores' = idleCores + 1 /\ Joined(k)
  BY DEF Release, ReleaseCore
<1>2. CoreTypeOK'
  BY <1>1, NoThreadType DEF CoreTypeOK
<1>3. /\ p # NoProc
      /\ p \notin Range(ready) \cup Range(blocked) \cup finished
      /\ \A d \in Cores \ {k} : current[d] # p /\ current'[d] = current[d] /\ thread'[d] = thread[d]
      /\ current'[k] = NoProc /\ thread'[k] = NoThread
  BY <1>1 DEF OnePlace, CoreTypeOK
<1>4. ASSUME NEW c \in Cores, current'[c] # NoProc
      PROVE  /\ current'[c] \notin Range(ready) \cup Range(blocked) \cup finished \cup {p}
             /\ \A d \in Cores : current'[d] = current'[c] => d = c
  <2>1. c # k /\ current'[c] = current[c] /\ current[c] # p
    BY <1>3, <1>4
  <2>2. /\ current[c] \notin Range(ready) \cup Range(blocked) \cup finished
        /\ \A d \in Cores : current[d] = current[c] => d = c
    BY <1>4, <2>1 DEF OnePlace
  <2> QED
    BY <1>3, <1>4, <2>1, <2>2
<1>5. ASSUME Range(ready') \cup Range(blocked') \cup finished'
                 \subseteq Range(ready) \cup Range(blocked) \cup finished \cup {p},
              IsInjective(ready') /\ IsInjective(blocked'),
              Range(ready') \cap Range(blocked') = {},
              (Range(ready') \cup Range(blocked')) \cap finished' = {}
      PROVE  OnePlace'
  <2>1. ASSUME NEW c \in Cores, current'[c] # NoProc
        PROVE  current'[c] \notin Range(ready') \cup Range(blocked') \cup finished'
    BY <1>4, <1>5, <2>1
  <2> QED
    BY <1>4, <1>5, <2>1 DEF OnePlace
<1>6. idleCores' = Cardinality(FreeCores') /\ idleCores' \in Int /\ totalCount' \in Nat
  <2>1. FreeCores' = FreeCores \cup {k} /\ k \notin FreeCores
    BY <1>3 DEF FreeCores
  <2>2. idleCores' = Cardinality(FreeCores')
    BY <1>1, <2>1, FiniteCounts, FS_AddElement DEF CountsOK
  <2> QED
    BY <1>1, <2>2 DEF QueueTypeOK
<1>7. CASE ToFinished(p)
  <2>1. /\ ready' = ready /\ blocked' = blocked /\ finished' = finished \cup {p}
        /\ readyCount' = readyCount /\ finishedCount' = finishedCount + 1
    BY <1>7 DEF ToFinished
  <2>2. OnePlace'
    BY <1>3, <1>5, <2>1 DEF OnePlace
  <2>3. CountsOK'
    BY <1>3, <1>6, <2>1, FiniteCounts, FS_AddElement DEF CountsOK
  <2>4. QueueTypeOK'
    BY <1>6, <2>1 DEF QueueTypeOK
  <2>5. p \in Held' /\ Held \ {p} \subseteq Held'
    BY <1>3, <2>1 DEF Held
  <2> QED
    BY <1>1, <1>2, <1>3, <2>2, <2>3, <2>4, <2>5
<1>8. CASE PutBlocked(p)
  <2>1. /\ ready' = ready /\ finished' = finished
        /\ readyCount' = readyCount /\ finishedCount' = finishedCount
        /\ blocked' \in Seq(Procs) /\ Range(blocked') = Range(blocked) \cup {p}
        /\ IsInjective(blocked')
    BY <1>3, <1>8 DEF PutBlocked, Put, OnePlace
  <2>2. OnePlace'
    <3>1. /\ Range(ready') \cap Range(blocked') = {}
          /\ (Range(ready') \cup Range(blocked')) \cap finished' = {}
      BY <1>3, <2>1 DEF OnePlace
    <3> QED
      BY <1>5, <2>1, <3>1 DEF OnePlace
  <2>3. CountsOK' /\ QueueTypeOK'
    BY <1>6, <2>1 DEF CountsOK, QueueTypeOK
  <2>4. p \in Held' /\ Held \ {p} \subseteq Held'
    BY <1>3, <2>1 DEF Held
  <2> QED
    BY <1>1, <1>2, <1>3, <2>2, <2>3, <2>4
<1>9. CASE PutReady(p)
  <2>1. /\ blocked' = blocked /\ finished' = finished
        /\ readyCount' = readyCount + 1 /\ finishedCount' = finishedCount
        /\ ready' \in Seq(Procs) /\ Range(ready') = Range(ready) \cup {p}
        /\ Len(ready') = Len(ready) + 1 /\ IsInjective(ready')
    BY <1>3, <1>9 DEF PutReady, Put, OnePlace
  <2>2. OnePlace'
    <3>1. /\ Range(ready') \cap Range(blocked') = {}
          /\ (Range(ready') \cup Range(blocked')) \cap finished' = {}
      BY <1>3, <2>1 DEF OnePlace
    <3> QED
      BY <1>5, <2>1, <3>1 DEF OnePlace
  <2>3. CountsOK' /\ QueueTypeOK'
    BY <1>6, <2>1 DEF CountsOK, QueueTypeOK
  <2>4. p \in Held' /\ Held \ {p} \subseteq Held'
    BY <1>3, <2>1 DEF Held
  <2> QED
    BY <1>1, <1>2, <1>3, <2>2, <2>3, <2>4
<1>10. CASE ToNowhere
  <2>1. /\ ready' = ready /\ blocked' = blocked /\ finished' = finished
        /\ readyCount' = readyCount /\ finishedCount' = finishedCount
    BY <1>10 DEF ToNowhere
  <2>2. OnePlace'
    BY <1>3, <1>5, <2>1 DEF OnePlace
  <2>3. CountsOK' /\ QueueTypeOK'
    BY <1>6, <2>1 DEF CountsOK, QueueTypeOK
  <2>4. Held \ {p} \subseteq Held'
    BY <1>3, <2>1 DEF Held
  <2> QED
    BY <1>1, <1>2, <1>3, <1>10, <2>2, <2>3, <2>4
<1> QED
  BY <1>7, <1>8, <1>9, <1>10

(* The process at the front gets a core that nobody occupies.              *)
LEMMA DispatchPlaces ==
  ASSUME CoreTypeOK, QueueTypeOK, ControlTypeOK, OnePlace, CountsOK, Dispatch,
         NEW p, p = Head(ready)
  PROVE  /\ OnePlace' /\ CountsOK'
         /\ p \in Procs /\ p \in Range(ready)
         /\ Range(ready') \subseteq Range(ready)
         /\ p \notin Range(ready') \cup Range(blocked) \cup finished
         /\ \A c \in Cores : current[c] # p
         /\ current'[k] = p /\ coreState'[k] = "BUSY" /\ pstate'[p] = "Running"
         /\ thread'[k] = [loc |-> "run", proc |-> p, cycles |-> 0, why |-> ""]
         /\ \A c \in Cores \ {k} : /\ current'[c] = current[c] /\ thread'[c] = thread[c]
                                   /\ coreState'[c] = coreState[c]
         /\ \A q \in Procs \ {p} : pstate'[q] = pstate[q]
         /\ UNCHANGED <<left, blocked, finished>> /\ totalCount' = totalCount
         /\ Held \subseteq Held' /\ p \in Held
         /\ pc = "assign" /\ pc' \in {"assign", "endPass"}
<1> DEFINE t == [loc |-> "run", proc |-> p, cycles |-> 0, why |-> ""]
<1>0. /\ ready' = Tail(ready) /\ readyCount' = readyCount - 1
      /\ idleCores' = idleCores - 1
      /\ current' = [current EXCEPT ![k] = p]
      /\ pstate' = [pstate EXCEPT ![p] = "Running"]
      /\ coreState' = [coreState EXCEPT ![k] = "BUSY"]
      /\ thread' = [thread EXCEPT ![k] = t]
      /\ UNCHANGED <<left, blocked, finished>>
      /\ finishedCount' = finishedCount /\ totalCount' = totalCount
      /\ ready # <<>> /\ current[k] = NoProc
      /\ pc = "assign" /\ pc' \in {"assign", "endPass"}
  BY DEF Dispatch, AssignProcessToCore, ExecuteAsync, SlotFree, NextAssign
<1> HIDE DEF t
<1>1. /\ ready \in Seq(Procs) /\ blocked \in Seq(Procs) /\ finished \subseteq Procs
      /\ k \in Cores
  BY DEF QueueTypeOK, ControlTypeOK
<1>2. /\ p \in Procs /\ p \in Range(ready)
      /\ Range(ready) = Range(ready') \cup {p} /\ p \notin Range(ready')
      /\ Len(ready') = Len(ready) - 1
      /\ IsInjective(ready')
  <2>1. IsInjective(ready)
    BY DEF OnePlace
  <2> QED
    BY <1>0, <1>1, <2>1, PopFront
<1>3. /\ p \notin Range(blocked) \cup finished /\ p # NoProc
      /\ \A c \in Cores : current[c] # p
  <2>1. p # NoProc
    BY <1>2
  <2>2. p \notin Range(blocked) \cup finished
    BY <1>2 DEF OnePlace
  <2>3. ASSUME NEW c \in Cores PROVE current[c] # p
    BY <1>2, <2>1 DEF OnePlace
  <2> QED
    BY <2>1, <2>2, <2>3
<1>4. /\ current'[k] = p /\ thread'[k] = t /\ coreState'[k] = "BUSY" /\ pstate'[p] = "Running"
      /\ \A c \in Cores \ {k} : /\ current'[c] = current[c] /\ thread'[c] = thread[c]
                                /\ coreState'[c] = coreState[c]
      /\ \A q \in Procs \ {p} : pstate'[q] = pstate[q]
  BY <1>0, <1>1, <1>2 DEF CoreTypeOK
<1>5. OnePlace'
  BY <1>0, <1>2, <1>3, <1>4 DEF OnePlace
<1>6. CountsOK'
  <2>1. FreeCores' = FreeCores \ {k} /\ k \in FreeCores
    BY <1>0, <1>1, <1>3, <1>4 DEF FreeCores
  <2>2. idleCores' = Cardinality(FreeCores')
    BY <1>0, <2>1, FiniteCounts, FS_RemoveElement DEF CountsOK
  <2> QED
    BY <1>0, <1>2, <2>2 DEF CountsOK
<1>7. Held \subseteq Held' /\ p \in Held
  BY <1>0, <1>1, <1>2, <1>3, <1>4 DEF Held
<1> QED
  BY <1>0, <1>2, <1>3, <1>4, <1>5, <1>6, <1>7 DEF t

-----------------------------------------------------------------------------
(* The refinement of ProcessLifecycle, as far as the schedulers share it.  *)

(* The refinement mapping, place by place.                                 *)
PlaceFacts ==
  /\ DOMAIN Place = Procs
  /\ \A p \in finished : Place[p] = "finished"
  /\ \A p \in Range(ready) : p \in Procs /\ Place[p] = "ready"
  /\ \A p \in Procs : (\E c \in Cores : current[c] = p) => Place[p] = "running"
  /\ \A p \in Procs : Place[p] = "running" => \E c \in Cores : current[c] = p
  /\ pc = "load" => \A p \in Procs \ Held : Place[p] = "new"
  /\ pc # "load" => \A p \in Procs \ Held : Place[p] = "blocked"
  /\ \A p \in Range(blocked) : p \in Procs /\ Place[p] = "blocked"

(* What a scheduler's invariant has to give.                               *)
Placed ==
  /\ CoreTypeOK /\ QueueTypeOK /\ k \in Cores /\ OnePlace /\ SlotsAgree
  /\ pc = "load" => blocked = <<>>

LEMMA PlaceIs == Placed => PlaceFacts
<1> SUFFICES ASSUME Placed PROVE PlaceFacts
  OBVIOUS
<1>1. /\ Range(ready) \subseteq Procs /\ Range(blocked) \subseteq Procs /\ finished \subseteq Procs
      /\ CoreTypeOK /\ QueueTypeOK
  BY QueueMembers DEF QueueTypeOK, Placed
<1>2. OnePlace /\ (pc = "load" => blocked = <<>>)
  BY DEF Placed
<1>3. \A p \in Procs : (\E c \in Cores : current[c] = p) =>
        p \notin Range(ready) \cup Range(blocked) \cup finished
  BY <1>2 DEF OnePlace
<1>4. \A p \in finished : Place[p] = "finished"
  BY <1>1 DEF Place
<1>5. \A p \in Range(ready) : p \in Procs /\ Place[p] = "ready"
  BY <1>1, <1>2 DEF Place, OnePlace
<1>6. \A p \in Procs : (\E c \in Cores : current[c] = p) => Place[p] = "running"
  BY <1>3 DEF Place
<1>7. \A p \in Procs : Place[p] = "running" => \E c \in Cores : current[c] = p
  BY DEF Place
<1>8. /\ pc = "load" => \A p \in Procs \ Held : Place[p] = "new"
      /\ pc # "load" => \A p \in Procs \ Held : Place[p] = "blocked"
  <2>1. \A p \in Procs \ Held : /\ p \notin Range(ready) \cup finished
                                /\ \A c \in Cores : current[c] # p
    BY <1>1, HeldMembers
  <2> QED
    BY <2>1 DEF Place
<1>9. \A p \in Range(blocked) : p \in Procs /\ Place[p] = "blocked"
  <2>1. \A p \in Range(blocked) : /\ p \notin Range(ready) \cup finished /\ p \in Procs
                                  /\ \A c \in Cores : current[c] # p
    BY <1>1, <1>2 DEF OnePlace
  <2>2. Range(blocked) # {} => pc # "load"
    BY <1>2, EmptyQueue
  <2> QED
    BY <2>1, <2>2 DEF Place
<1>10. DOMAIN Place = Procs
  BY DEF Place
<1> QED
  BY <1>4, <1>5, <1>6, <1>7, <1>8, <1>9, <1>10 DEF PlaceFacts

(* Never more processes run than there are cores, and while a core is free *)
(* strictly fewer.                                                         *)
LEMMA RoomToRun ==
  ASSUME Placed, NEW free \in Cores, current[free] = NoProc
  PROVE  Cardinality({p \in Procs : Place[p] = "running"}) < NumCores
<1> DEFINE busy == {c \in Cores : current[c] # NoProc}
           run  == {p \in Procs : Place[p] = "running"}
           f    == [c \in busy |-> current[c]]
<1>1. CoreTypeOK /\ QueueTypeOK
  BY DEF Placed
<1>2. f \in [busy -> run]
  BY <1>1, PlaceIs DEF CoreTypeOK, PlaceFacts
<1>3. \A p \in run : \E c \in busy : f[c] = p
  BY PlaceIs DEF PlaceFacts
<1>4. f \in Surjection(busy, run)
  BY <1>2, <1>3 DEF Surjection
<1>5. /\ IsFiniteSet(Cores) /\ Cardinality(Cores) = NumCores
      /\ IsFiniteSet(Cores \ {free})
      /\ Cardinality(Cores \ {free}) = NumCores - 1
  BY <1>1, FiniteCounts, FS_RemoveElement
<1>6. busy \subseteq Cores \ {free}
  OBVIOUS
<1> HIDE DEF busy, run, f
<1>7. IsFiniteSet(busy) /\ Cardinality(busy) <= NumCores - 1
  BY <1>5, <1>6, FS_Subset
<1>8. IsFiniteSet(run) /\ Cardinality(run) <= Cardinality(busy)
  BY <1>4, <1>7, FS_Surjection
<1>9. Cardinality(run) \in Nat /\ Cardinality(busy) \in Nat
  BY <1>7, <1>8, FS_CardinalityType
<1>10. Cardinality(run) < NumCores
  BY <1>7, <1>8, <1>9
<1> QED
  BY <1>10 DEF run

(* A step that changes neither the queues nor the cores maps to none.      *)
LEMMA PlaceKept ==
  ASSUME UNCHANGED <<ready, finished, current>>, pc = "load" <=> pc' = "load"
  PROVE  Place' = Place
BY DEF Place

(* Processes that change their place while the others keep theirs.         *)
LEMMA Moves ==
  ASSUME NEW S \in SUBSET Procs, S # {}, NEW from, NEW to,
         \A p \in S : Place[p] = from /\ Place'[p] = to,
         \A p \in Procs \ S : Place'[p] = Place[p],
         left' = left
  PROVE  Lifecycle!Move(S, from, to)
<1>1. Place' = [p \in Procs |-> IF p \in S THEN to ELSE Place[p]]
  BY DEF Place
<1> QED
  BY <1>1 DEF Lifecycle!Move

(* One process moves.                                                      *)
LEMMA OneMoves ==
  ASSUME NEW p \in Procs, NEW from, NEW to, Place[p] = from, Place'[p] = to,
         \A q \in Procs \ {p} : Place'[q] = Place[q],
         left' = left
  PROVE  Lifecycle!Move({p}, from, to)
<1>1. {p} \in SUBSET Procs /\ {p} # {}
  OBVIOUS
<1> QED
  BY <1>1, Moves

LEMMA AdmitMaps ==
  ASSUME Placed, PlaceFacts', NEW p \in Procs, p \notin Held, pc = "load", pc' = "load",
         Range(ready') = Range(ready) \cup {p}, UNCHANGED <<finished, current, left>>
  PROVE  Lifecycle!Next
<1>1. Place[p] = "new" /\ Place'[p] = "ready"
  BY PlaceIs DEF PlaceFacts
<1>2. \A q \in Procs \ {p} : Place'[q] = Place[q]
  BY DEF Place
<1>3. Lifecycle!Admit(p)
  BY <1>1, <1>2, OneMoves DEF Lifecycle!Admit
<1> QED
  BY <1>3 DEF Lifecycle!Next

(* EndLoading only opens the simulation loop: every process is held.       *)
LEMMA EndLoadingMaps ==
  ASSUME Placed, EndLoading
  PROVE  UNCHANGED <<Place, left>>
<1>0. /\ UNCHANGED <<ready, finished, current, left>> /\ Held = Procs /\ blocked = <<>>
  BY DEF EndLoading, dataVars, coreVars, queueVars, Placed
<1>1. \A p \in Procs : p \in Range(ready) \cup finished \/ \E c \in Cores : current[c] = p
  BY <1>0, EmptyQueue, HeldMembers DEF Placed
<1> QED
  BY <1>0, <1>1 DEF Place

(* The steps that only move the main thread on.                            *)
LEMMA ControlStepMaps ==
  ASSUME UNCHANGED dataVars, pc # "load", pc' # "load"
  PROVE  UNCHANGED <<Place, left>>
BY PlaceKept DEF dataVars, coreVars, queueVars

LEMMA InitMaps == SchedulerInit => Lifecycle!Init
<1> SUFFICES ASSUME SchedulerInit PROVE Lifecycle!Init
  OBVIOUS
<1>1. Range(ready) = {} /\ finished = {} /\ pc = "load" /\ left = Budget
  BY EmptyQueue DEF SchedulerInit, CoreInit
<1>2. \A c \in Cores : current[c] = NoProc
  BY DEF SchedulerInit, CoreInit
<1>3. Place = [p \in Procs |-> "new"]
  BY <1>1, <1>2 DEF Place
<1> QED
  BY <1>1, <1>3 DEF Lifecycle!Init

(* A collected process is preempted, blocked or finished; dropped counts   *)
(* as blocked.                                                             *)
LEMMA ReleaseMaps ==
  ASSUME Placed, PlaceFacts', NEW p \in Procs, p = current[k], Release, left' = left,
         pc # "load", pc' # "load",
         \/ ToFinished(p) /\ left[p] = 0
         \/ Range(ready') = Range(ready) \cup {p} /\ finished' = finished
         \/ ready' = ready /\ finished' = finished
  PROVE  Lifecycle!Next
<1>1. PlaceFacts /\ CoreTypeOK /\ k \in Cores /\ OnePlace
  BY PlaceIs DEF Placed
<1>2. /\ p \notin Range(ready) \cup Range(blocked) \cup finished
      /\ current' = [current EXCEPT ![k] = NoProc]
  BY <1>1 DEF OnePlace, Release, ReleaseCore
<1>3. /\ \A c \in Cores : current'[c] # p
      /\ \A q \in Procs \ {p} : (\E c \in Cores : current'[c] = q) <=> (\E c \in Cores : current[c] = q)
  BY <1>1, <1>2 DEF OnePlace, CoreTypeOK
<1>4. Place[p] = "running"
  BY <1>1 DEF PlaceFacts
<1>5. CASE ToFinished(p) /\ left[p] = 0
  <2>1. ready' = ready /\ finished' = finished \cup {p}
    BY <1>5 DEF ToFinished
  <2>2. Place'[p] = "finished"
    BY <1>1, <2>1 DEF PlaceFacts
  <2>3. \A q \in Procs \ {p} : Place'[q] = Place[q]
    BY <1>3, <2>1 DEF Place
  <2>4. Lifecycle!Finish(p)
    BY <1>4, <1>5, <2>2, <2>3, OneMoves DEF Lifecycle!Finish
  <2> QED
    BY <2>4 DEF Lifecycle!Next
<1>6. CASE Range(ready') = Range(ready) \cup {p} /\ finished' = finished
  <2>1. p \in Range(ready')
    BY <1>6
  <2>2. Place'[p] = "ready"
    BY <1>1, <2>1 DEF PlaceFacts
  <2>3. \A q \in Procs \ {p} : Place'[q] = Place[q]
    BY <1>3, <1>6 DEF Place
  <2>4. Lifecycle!Preempt(p)
    BY <1>4, <2>2, <2>3, OneMoves DEF Lifecycle!Preempt
  <2> QED
    BY <2>4 DEF Lifecycle!Next
<1>7. CASE ready' = ready /\ finished' = finished
  <2>1. Place'[p] = "blocked"
    BY <1>2, <1>3, <1>7 DEF Place
  <2>2. \A q \in Procs \ {p} : Place'[q] = Place[q]
    BY <1>3, <1>7 DEF Place
  <2>3. Lifecycle!Block(p)
    BY <1>4, <2>1, <2>2, OneMoves DEF Lifecycle!Block
  <2> QED
    BY <2>3 DEF Lifecycle!Next
<1> QED
  BY <1>5, <1>6, <1>7

LEMMA DispatchMaps ==
  ASSUME Placed, PlaceFacts', Dispatch
  PROVE  Lifecycle!Next
<1> DEFINE p == Head(ready)
<1>1. PlaceFacts /\ QueueTypeOK /\ CoreTypeOK /\ k \in Cores /\ OnePlace
  BY PlaceIs DEF Placed
<1>2. /\ ready' = Tail(ready) /\ ready # <<>> /\ current[k] = NoProc
      /\ current' = [current EXCEPT ![k] = p]
      /\ finished' = finished /\ left' = left
      /\ pc = "assign" /\ pc' \in {"assign", "endPass"}
  BY DEF Dispatch, AssignProcessToCore, ExecuteAsync, SlotFree, NextAssign
<1>3. /\ p \in Procs /\ p \in Range(ready)
      /\ Range(ready) = Range(ready') \cup {p} /\ p \notin Range(ready')
  <2>1. IsInjective(ready) /\ ready \in Seq(Procs)
    BY <1>1 DEF OnePlace, QueueTypeOK
  <2> QED
    BY <1>2, <2>1, PopFront
<1> HIDE DEF p
<1>4. Place[p] = "ready" /\ Place'[p] = "running"
  BY <1>1, <1>2, <1>3 DEF PlaceFacts, CoreTypeOK
<1>5. \A q \in Procs \ {p} : (\E c \in Cores : current'[c] = q) <=> (\E c \in Cores : current[c] = q)
  BY <1>1, <1>2, <1>3 DEF CoreTypeOK
<1>6. \A q \in Procs \ {p} : Place'[q] = Place[q]
  BY <1>2, <1>3, <1>5 DEF Place
<1>7. Lifecycle!Move({p}, "ready", "running")
  BY <1>2, <1>3, <1>4, <1>6, OneMoves
<1>8. Lifecycle!Run(p)
  <2>1. Cardinality({q \in Procs : Place[q] = "running"}) < NumCores
    BY <1>1, <1>2, RoomToRun
  <2>2. Lifecycle!In("running") = {q \in Procs : Place[q] = "running"}
    BY DEF Lifecycle!In
  <2>3. \A S : Lifecycle!Cardinality(S) = Cardinality(S)
    BY DEF Lifecycle!Cardinality, Cardinality
  <2>4. Lifecycle!Cardinality(Lifecycle!In("running")) < NumCores
    BY <2>1, <2>2, <2>3
  <2> QED
    BY <1>7, <2>4 DEF Lifecycle!Run
<1> QED
  BY <1>3, <1>8 DEF Lifecycle!Next

LEMMA CoreThreadMaps ==
  ASSUME Placed, NEW c \in Cores, CoreThread(c)
  PROVE  Lifecycle!Next \/ UNCHANGED <<Place, left>>
<1>0. /\ PlaceFacts /\ CoreTypeOK /\ SlotsAgree /\ RunProcess(c)
      /\ UNCHANGED <<ready, finished, pc>>
  BY PlaceIs DEF Placed, CoreThread, queueVars, controlVars
<1>1. /\ current' = current /\ current[c] \in Procs /\ thread[c].proc = current[c]
  BY <1>0, RunProcessFrame, RunProcessOccupied
<1>2. Place' = Place
  BY <1>0, <1>1, PlaceKept
<1> DEFINE p == current[c]
<1>3. Place[p] = "running" /\ left[p] \in Nat
  BY <1>0, <1>1 DEF PlaceFacts, CoreTypeOK
<1>4. \/ left' = left
      \/ left[p] > 0 /\ left' = [left EXCEPT ![p] = left[p] - 1]
      \/ left' = [left EXCEPT ![p] = 0]
  <2>1. CASE Instruction(c) \/ PrintInstr(c) \/ Fault(c)
    BY <1>1, <2>1 DEF Instruction, PrintInstr, Fault
  <2>2. CASE End(c)
    BY <1>1, <2>2 DEF End
  <2>3. CASE Settle(c) \/ GoIdle(c)
    BY <2>3 DEF Settle, GoIdle
  <2> QED
    BY <1>0, <2>1, <2>2, <2>3 DEF RunProcess
<1> HIDE DEF p
<1>5. ASSUME NEW n \in 0..(left[p] - 1), left' = [left EXCEPT ![p] = n]
      PROVE  Lifecycle!Next
  <2>1. Lifecycle!Work(p)
    BY <1>2, <1>3, <1>5 DEF Lifecycle!Work
  <2> QED
    BY <1>1, <2>1 DEF Lifecycle!Next, p
<1>6. CASE left[p] > 0 /\ left' = [left EXCEPT ![p] = left[p] - 1]
  <2>1. left[p] - 1 \in 0..(left[p] - 1)
    BY <1>3, <1>6
  <2> QED
    BY <1>5, <1>6, <2>1
<1>7. CASE left' = [left EXCEPT ![p] = 0]
  <2>1. CASE left[p] = 0
    BY <1>0, <1>2, <1>7, <2>1 DEF CoreTypeOK
  <2>2. CASE left[p] # 0
    <3>1. 0 \in 0..(left[p] - 1)
      BY <1>3, <2>2
    <3> QED
      BY <1>5, <1>7, <3>1
  <2> QED
    BY <2>1, <2>2
<1> QED
  BY <1>2, <1>4, <1>6, <1>7

-----------------------------------------------------------------------------
(* Who waits in front of whom.                                             *)

(* Who is in front of p is the same in a queue that goes on behind p.      *)
LEMMA AheadBehind ==
  ASSUME NEW q \in Seq(Procs), NEW r \in Seq(Procs), NEW p \in Range(q),
         Len(q) <= Len(r), \A i \in 1..Len(q) : r[i] = q[i]
  PROVE  p \in Range(r) /\ Ahead(p, r) \subseteq Ahead(p, q)
<1>0. /\ DOMAIN q = 1..Len(q) /\ DOMAIN r = 1..Len(r)
      /\ Len(q) \in Nat /\ Len(r) \in Nat
  OBVIOUS
<1>1. PICK m \in 1..Len(q) : q[m] = p
  BY <1>0 DEF Range
<1>2. p \in Range(r)
  <2>1. m \in DOMAIN r /\ r[m] = p
    BY <1>0, <1>1
  <2> QED
    BY <2>1 DEF Range
<1>3. ASSUME NEW i \in 1..Len(r), \A h \in 1..i : r[h] # p
      PROVE  r[i] \in Ahead(p, q)
  <2>1. i \in 1..Len(q)
    <3>1. ~ (m \in 1..i)
      BY <1>1, <1>3
    <3> QED
      BY <1>0, <3>1
  <2>2. \A h \in 1..i : h \in 1..Len(q)
    BY <1>0, <2>1
  <2>3. r[i] = q[i] /\ \A h \in 1..i : q[h] # p
    BY <1>3, <2>1, <2>2
  <2> QED
    BY <1>0, <2>1, <2>3 DEF Ahead
<1> QED
  BY <1>0, <1>2, <1>3 DEF Ahead

(* ... and one shorter when the front is taken.                            *)
LEMMA AheadTail ==
  ASSUME NEW q \in Seq(Procs), q # <<>>, NEW p \in Range(q), p # Head(q)
  PROVE  p \in Range(Tail(q)) /\ Ahead(p, Tail(q)) \subseteq Ahead(p, q)
<1> DEFINE r == Tail(q)
<1>0. /\ DOMAIN q = 1..Len(q) /\ DOMAIN r = 1..(Len(q) - 1) /\ Len(q) \in Nat \ {0}
      /\ \A i \in 1..(Len(q) - 1) : r[i] = q[i + 1]
      /\ Head(q) = q[1]
  OBVIOUS
<1> HIDE DEF r
<1>1. p \in Range(Tail(q))
  BY PopFront
<1>2. ASSUME NEW i \in 1..(Len(q) - 1), \A h \in 1..i : r[h] # p
      PROVE  r[i] \in Ahead(p, q)
  <2>1. i + 1 \in 1..Len(q) /\ r[i] = q[i + 1]
    BY <1>0
  <2>2. ASSUME NEW h \in 1..(i + 1) PROVE q[h] # p
    <3>1. CASE h = 1
      BY <1>0, <3>1
    <3>2. CASE h # 1
      <4>1. h - 1 \in 1..i /\ h - 1 \in 1..(Len(q) - 1) /\ (h - 1) + 1 = h
        BY <1>0, <3>2
      <4>2. r[h - 1] # p
        BY <1>2, <4>1
      <4>3. r[h - 1] = q[(h - 1) + 1]
        BY <1>0, <4>1
      <4> QED
        BY <4>1, <4>2, <4>3
    <3> QED
      BY <3>1, <3>2
  <2> QED
    BY <1>0, <2>1, <2>2 DEF Ahead
<1>3. Ahead(p, r) \subseteq Ahead(p, q)
  <2> SUFFICES ASSUME NEW y \in Ahead(p, r) PROVE y \in Ahead(p, q)
    OBVIOUS
  <2>1. PICK i \in DOMAIN r : y = r[i] /\ \A h \in 1..i : r[h] # p
    BY DEF Ahead
  <2> QED
    BY <1>0, <1>2, <2>1
<1> QED
  BY <1>1, <1>3 DEF r
=============================================================================
