-------------------------- MODULE RoundRobinProofs --------------------------
(***************************************************************************)
(* Proofs about RoundRobin for every number of cores, every finite set of  *)
(* processes, every quantum, batch size and program.                       *)
(***************************************************************************)
EXTENDS RoundRobin, SchedulerProofs

USE ProcsAssumption, NumCoresAssumption, QuantumAssumption,
    ProgramAssumption, BatchSizeAssumption

-----------------------------------------------------------------------------
(* The inductive invariant.  OnePlace and StateMatchesPlace need each      *)
(* other: a core thread writes the PCB its core shows, so it leaves the    *)
(* queued processes alone only because that PCB is in no queue; and a      *)
(* collect takes the right branch only because a thread that can be joined *)
(* has stored the final state of its burst.  What is missing from the      *)
(* invariants of RoundRobin is only what loading leaves untouched.         *)

Sound == OnePlace /\ StateMatchesPlace /\ CountsOK

Phases ==
  /\ totalCount = Cardinality(IF pc = "load" THEN Held ELSE Procs)
  /\ pc = "load" => /\ blocked = <<>> /\ finished = {}
                    /\ \A c \in Cores : current[c] = NoProc
  /\ OnlyBlockedAreDropped
  /\ DoneMeansAllFinished

IInv == TypeOK /\ Sound /\ Phases

LEMMA IInvParts == IInv <=> CoreTypeOK /\ QueueTypeOK /\ ControlTypeOK /\ Sound /\ Phases
BY TypeParts DEF IInv

LEMMA IInvImplies ==
  IInv => /\ TypeOK /\ OnePlace /\ CountersAgree /\ StateMatchesPlace
          /\ OnlyBlockedAreDropped /\ DoneMeansAllFinished
BY DEF IInv, Sound, CountsOK, FreeCores, Phases, CountersAgree

(* The invariant after a step, part by part.                               *)
Kept == CoreTypeOK' /\ QueueTypeOK' /\ ControlTypeOK' /\ Sound' /\ Phases'

(* A step that only moves the main thread on, in the simulation loop.      *)
LEMMA ControlKeeps ==
  ASSUME CoreTypeOK, QueueTypeOK, Sound, Phases, ControlTypeOK', UNCHANGED dataVars,
         pc = "load" => pc' = "load" \/ Held = Procs,
         pc # "load" => pc' # "load",
         pc' # "done"
  PROVE  Kept
<1>1. CoreTypeOK' /\ QueueTypeOK'
  BY DataKept
<1>2. OnePlace' /\ CountsOK' /\ Held' = Held
  BY PlacesKept DEF Sound
<1>3. StateMatchesPlace'
  BY DEF Sound, StateMatchesPlace, CoreAgrees, Joined, IsIdle, IsThreadRunning,
         BurstState, FinalState, dataVars, coreVars, queueVars
<1>4. Phases'
  BY <1>2 DEF Phases, OnlyBlockedAreDropped, DoneMeansAllFinished, dataVars, coreVars,
              queueVars, counterVars
<1> QED
  BY <1>1, <1>2, <1>3, <1>4 DEF Kept, Sound

(* What the two collects do with the process of core k.                    *)
LEMMA CollectMoves ==
  ASSUME CoreTypeOK, Collect, k \in Cores
  PROVE  /\ current[k] \in Procs
         /\ Release
         /\ UNCHANGED <<pstate, left, coreState, totalCount>>
         /\ \/ ToFinished(current[k]) /\ pstate[current[k]] = "Finished"
            \/ ToBlocked(current[k])  /\ pstate[current[k]] = "Blocked"
            \/ ToReady(current[k])    /\ pstate[current[k]] = "Ready"
            \/ ToNowhere /\ pstate[current[k]] = "Running"
<1>1. current[k] \in Procs /\ pstate[current[k]] \in State
  BY DEF CoreTypeOK, Collect
<1>2. Classify(current[k])
  BY DEF Collect
<1>3. \/ ToFinished(current[k]) /\ pstate[current[k]] = "Finished"
      \/ ToBlocked(current[k])  /\ pstate[current[k]] = "Blocked"
      \/ ToReady(current[k])    /\ pstate[current[k]] = "Ready"
      \/ ToNowhere /\ pstate[current[k]] = "Running"
  BY <1>1, <1>2 DEF Classify, State
<1> QED
  BY <1>1, <1>3 DEF Collect, NextCollect

LEMMA UrgentCollectMoves ==
  ASSUME CoreTypeOK, UrgentCollect, k \in Cores
  PROVE  /\ current[k] \in Procs
         /\ Release
         /\ UNCHANGED <<pstate, left, coreState, totalCount>>
         /\ \/ ToFinished(current[k]) /\ pstate[current[k]] = "Finished"
            \/ ToReady(current[k])    /\ pstate[current[k]] = "Ready"
            \/ ToNowhere /\ pstate[current[k]] \in {"Running", "Blocked"}
<1>1. current[k] \in Procs /\ pstate[current[k]] \in State
  BY DEF CoreTypeOK, UrgentCollect, SlotFree
<1>2. ClassifyUrgent(current[k])
  BY DEF UrgentCollect
<1>3. \/ ToFinished(current[k]) /\ pstate[current[k]] = "Finished"
      \/ ToReady(current[k])    /\ pstate[current[k]] = "Ready"
      \/ ToNowhere /\ pstate[current[k]] \in {"Running", "Blocked"}
  BY <1>1, <1>2 DEF ClassifyUrgent, State
<1> QED
  BY <1>1, <1>3 DEF UrgentCollect

(* A step of a core thread.                                                *)
LEMMA CoreThreadSound ==
  ASSUME CoreTypeOK, QueueTypeOK, Sound, Phases, NEW c \in Cores, CoreThread(c)
  PROVE  Sound' /\ Phases'
<1>0. /\ RunProcess(c) /\ UNCHANGED <<ready, blocked, finished, pc>>
      /\ UNCHANGED <<readyCount, idleCores, finishedCount, totalCount>>
  BY DEF CoreThread, queueVars, counterVars, controlVars
<1>1. CoreAgrees /\ OneCore
  BY DEF Sound, OnePlace, StateMatchesPlace, OneCore
<1>2. CoreAgrees'
  BY <1>0, <1>1, RunProcessAgrees
<1>3. /\ current' = current /\ current[c] \in Procs
      /\ \A p \in Procs \ {current[c]} : pstate'[p] = pstate[p] /\ left'[p] = left[p]
  BY <1>0, <1>1, CoreAgreesParts, RunProcessFrame, RunProcessOccupied
<1>4. /\ current[c] # NoProc
      /\ current[c] \notin Range(ready) \cup Range(blocked) \cup finished
  BY <1>3 DEF Sound, OnePlace
<1>5. Range(ready) \subseteq Procs /\ Range(blocked) \subseteq Procs /\ finished \subseteq Procs
  BY QueueMembers DEF QueueTypeOK
<1>6. OnePlace'
  BY <1>0, <1>3 DEF Sound, OnePlace
<1>7. StateMatchesPlace'
  BY <1>0, <1>2, <1>3, <1>4, <1>5 DEF Sound, StateMatchesPlace
<1>8. CountsOK'
  BY <1>0, <1>3 DEF Sound, CountsOK, FreeCores
<1>9. Held' = Held /\ current[c] \in Held
  BY <1>0, <1>3, <1>4 DEF Held
<1>10. OnlyBlockedAreDropped'
  BY <1>0, <1>3, <1>9 DEF Phases, OnlyBlockedAreDropped
<1>11. pc # "load" /\ pc # "done"
  BY <1>3, <1>4 DEF Phases, DoneMeansAllFinished
<1>12. Phases'
  BY <1>0, <1>10, <1>11 DEF Phases, DoneMeansAllFinished
<1> QED
  BY <1>6, <1>7, <1>8, <1>12 DEF Sound

(* A thread that can be joined has stored the final state of its burst.   *)
LEMMA JoinedState ==
  ASSUME CoreTypeOK, CoreAgrees, NEW c \in Cores, current[c] \in Procs, Joined(c)
  PROVE  /\ IsIdle(c)
         /\ pstate[current[c]] # "Running"
         /\ pstate[current[c]] = "Finished" => left[current[c]] = 0
<1>1. thread[c].loc # "none" /\ thread[c].loc = "exited"
  BY DEF CoreAgrees, IsThreadRunning, Joined
<1>2. pstate[current[c]] = FinalState(thread[c].why)
  BY <1>1 DEF CoreAgrees, IsThreadRunning, BurstState
<1> QED
  BY <1>1, <1>2 DEF CoreAgrees, IsThreadRunning, FinalState

Collected(p) ==
  \/ ToFinished(p) /\ pstate[p] = "Finished"
  \/ ToBlocked(p)  /\ pstate[p] = "Blocked"
  \/ ToReady(p)    /\ pstate[p] = "Ready"
  \/ ToNowhere     /\ pstate[p] \in {"Running", "Blocked"}

(* A collect puts the process of the core into the queue of its state.     *)
LEMMA ReleaseKeeps ==
  ASSUME CoreTypeOK, QueueTypeOK, Sound, Phases, k \in Cores, NEW p \in Procs, p = current[k],
         Release, UNCHANGED <<pstate, left, coreState, totalCount>>,
         Collected(p), ControlTypeOK', pc' \notin {"load", "done"}
  PROVE  Kept
<1>0. CoreAgrees /\ OnePlace /\ CountsOK
  BY DEF Sound, StateMatchesPlace
<1>1. ToReady(p) => PutReady(p)
  BY PushBack DEF ToReady, EnqueueReady, PutReady, Put, QueueTypeOK
<1>2. ToBlocked(p) => PutBlocked(p)
  BY ToBlockedPuts
<1>3. /\ CoreTypeOK' /\ QueueTypeOK' /\ OnePlace' /\ CountsOK'
      /\ Joined(k) /\ current'[k] = NoProc /\ thread'[k] = NoThread
      /\ \A c \in Cores \ {k} : current'[c] = current[c] /\ thread'[c] = thread[c]
      /\ Held \ {p} \subseteq Held' /\ (p \in Held' \/ ToNowhere)
  BY <1>0, <1>1, <1>2, ReleasePlaces DEF Collected
<1>4. /\ IsIdle(k) /\ pstate[p] # "Running"
      /\ pstate[p] = "Finished" => left[p] = 0
  BY <1>0, <1>3, JoinedState
<1>5. CoreAgrees'
  <2>1. NoThread.proc = NoProc /\ NoThread.loc = "none"
    BY DEF NoThread
  <2>2. coreState'[k] = "IDLE"
    BY <1>4 DEF IsIdle
  <2> QED
    BY <1>0, <1>3, <2>1, <2>2 DEF CoreAgrees, IsThreadRunning, IsIdle, Joined,
                                  BurstState, FinalState
<1>6. StateMatchesPlace'
  <2>1. CASE ToFinished(p) /\ pstate[p] = "Finished"
    BY <1>4, <1>5, <2>1 DEF Sound, StateMatchesPlace, ToFinished
  <2>2. CASE ToBlocked(p) /\ pstate[p] = "Blocked"
    BY <1>2, <1>5, <2>2 DEF Sound, StateMatchesPlace, PutBlocked, Put
  <2>3. CASE ToReady(p) /\ pstate[p] = "Ready"
    BY <1>1, <1>5, <2>3 DEF Sound, StateMatchesPlace, PutReady, Put
  <2>4. CASE ToNowhere
    BY <1>5, <2>4 DEF Sound, StateMatchesPlace, ToNowhere
  <2> QED
    BY <2>1, <2>2, <2>3, <2>4 DEF Collected
<1>7. p \in Held' \/ pstate[p] = "Blocked"
  BY <1>3, <1>4, <1>1, <1>2 DEF Collected, ToFinished, PutReady, PutBlocked, Put, Held
<1>8. pc # "load"
  BY DEF Phases
<1>9. OnlyBlockedAreDropped'
  BY <1>3, <1>7, <1>8 DEF Phases, OnlyBlockedAreDropped
<1>10. Phases'
  BY <1>8, <1>9 DEF Phases, DoneMeansAllFinished
<1> QED
  BY <1>3, <1>6, <1>10 DEF Kept, Sound

LEMMA AddProcessInv ==
  ASSUME CoreTypeOK, QueueTypeOK, Sound, Phases, NEW p \in Procs, AddProcess(p)
  PROVE  Sound' /\ Phases'
<1>0. /\ ready' = Append(ready, p) /\ readyCount' = readyCount + 1
      /\ totalCount' = totalCount + 1
      /\ pstate' = [pstate EXCEPT ![p] = "Ready"]
      /\ UNCHANGED <<left, current, coreState, thread, blocked, finished>>
      /\ idleCores' = idleCores /\ finishedCount' = finishedCount
      /\ pc = "load" /\ pc' = "load" /\ p \notin Held
  BY DEF AddProcess, EnqueueReady, controlVars
<1>1. p \notin Range(ready) /\ \A c \in Cores : current[c] = NoProc
  BY <1>0 DEF Phases, Held
<1>2. blocked = <<>> /\ finished = {} /\ Range(blocked) = {} /\ ready \in Seq(Procs)
  BY <1>0, EmptyQueue DEF Phases, QueueTypeOK
<1>3. /\ Range(ready') = Range(ready) \cup {p} /\ Len(ready') = Len(ready) + 1
      /\ IsInjective(ready) => IsInjective(ready')
  BY <1>0, <1>1, <1>2, PushBack
<1>4. OnePlace'
  BY <1>0, <1>1, <1>2, <1>3 DEF Sound, OnePlace
<1>5. CoreAgrees'
  BY <1>0, <1>1 DEF Sound, StateMatchesPlace, CoreAgrees, IsThreadRunning, IsIdle, Joined
<1>6. StateMatchesPlace'
  <2>1. \A q \in Range(ready') : pstate'[q] = "Ready"
    BY <1>0, <1>2, <1>3, QueueMembers DEF Sound, StateMatchesPlace, CoreTypeOK
  <2> QED
    BY <1>0, <1>2, <1>5, <2>1 DEF StateMatchesPlace
<1>7. CountsOK'
  BY <1>0, <1>3 DEF Sound, CountsOK, FreeCores
<1>8. Held' = Held \cup {p}
  BY <1>0, <1>3 DEF Held
<1>9. totalCount' = Cardinality(Held')
  BY <1>0, <1>8, FiniteCounts, FS_AddElement DEF Phases
<1> QED
  BY <1>0, <1>1, <1>2, <1>4, <1>6, <1>7, <1>9
     DEF Sound, Phases, OnlyBlockedAreDropped, DoneMeansAllFinished

(* The simulation loop is left with every process finished: the counters   *)
(* are cardinalities, and the finished processes are at most all.          *)
LEMMA EndSimulationInv ==
  ASSUME CoreTypeOK, QueueTypeOK, Sound, Phases, EndSimulation
  PROVE  Sound' /\ Phases'
<1>0. UNCHANGED dataVars /\ pc = "loop" /\ pc' = "done" /\ finishedCount >= totalCount
  BY DEF EndSimulation
<1>1. Sound'
  BY <1>0, PlacesKept DEF Sound, StateMatchesPlace, CoreAgrees, Joined, IsIdle,
     IsThreadRunning, BurstState, FinalState, dataVars, coreVars, queueVars
<1>2. finished = Procs
  <2>1. /\ finished \subseteq Procs /\ IsFiniteSet(Procs)
        /\ Cardinality(finished) \in Nat /\ Cardinality(Procs) \in Nat
    BY FiniteCounts, FS_CardinalityType DEF QueueTypeOK
  <2>2. Cardinality(finished) >= Cardinality(Procs)
    BY <1>0 DEF Sound, CountsOK, Phases
  <2> QED
    BY <2>1, <2>2, FS_Subset
<1>3. \A c \in Cores : current[c] = NoProc
  BY <1>2 DEF Sound, OnePlace, CoreTypeOK
<1>4. \A c \in Cores : ~IsThreadRunning(c) /\ IsIdle(c)
  BY <1>3 DEF Sound, StateMatchesPlace, CoreAgrees, IsThreadRunning, IsIdle, Joined
<1>5. \A p \in Procs : pstate[p] = "Finished" /\ left[p] = 0
  BY <1>2 DEF Sound, StateMatchesPlace
<1>6. /\ UNCHANGED <<pstate, left, current, coreState, thread, ready, blocked, finished>>
      /\ totalCount' = totalCount /\ Held' = Held
  BY <1>0 DEF dataVars, coreVars, queueVars, counterVars, Held
<1>7. DoneMeansAllFinished'
  BY <1>2, <1>4, <1>5, <1>6 DEF DoneMeansAllFinished, IsThreadRunning, IsIdle
<1> QED
  BY <1>0, <1>1, <1>6, <1>7 DEF Phases, OnlyBlockedAreDropped

LEMMA BeginBatchInv ==
  ASSUME CoreTypeOK, QueueTypeOK, Sound, Phases, BeginBatch
  PROVE  Sound' /\ Phases'
<1>0. /\ ready' = ready \o blocked /\ blocked' = <<>>
      /\ readyCount' = readyCount + Len(blocked) /\ pstate' = Wake
      /\ UNCHANGED <<left, current, coreState, thread, finished>>
      /\ idleCores' = idleCores /\ finishedCount' = finishedCount
      /\ totalCount' = totalCount
      /\ pc = "batch" /\ pc' = "pass"
  BY DEF BeginBatch, HandleBlocked
<1>1. /\ ready \in Seq(Procs) /\ blocked \in Seq(Procs) /\ finished \subseteq Procs
      /\ Range(ready) \subseteq Procs /\ Range(blocked) \subseteq Procs
  BY QueueMembers DEF QueueTypeOK
<1>2. OnePlace /\ StateMatchesPlace /\ CountsOK
  BY DEF Sound
<1>3. /\ Range(ready') = Range(ready) \cup Range(blocked)
      /\ Len(ready') = Len(ready) + Len(blocked)
      /\ IsInjective(ready')
  BY <1>0, <1>1, <1>2, MoveBehind DEF OnePlace
<1>4. Range(blocked') = {} /\ IsInjective(blocked')
  BY <1>0, EmptyQueue
<1>5. OnePlace'
  BY <1>0, <1>2, <1>3, <1>4 DEF OnePlace
<1>6. /\ \A p \in Range(ready') : pstate'[p] = "Ready"
      /\ \A p \in Procs \ Range(blocked) : pstate'[p] = pstate[p]
  BY <1>0, <1>1, <1>2, <1>3 DEF Wake, StateMatchesPlace
<1>7. \A c \in Cores : current[c] # NoProc => pstate'[current[c]] = pstate[current[c]]
  BY <1>2, <1>6 DEF OnePlace, CoreTypeOK
<1>8. CoreAgrees'
  BY <1>0, <1>2, <1>7 DEF StateMatchesPlace, CoreAgrees, IsThreadRunning, IsIdle, Joined,
                          BurstState, FinalState
<1>9. StateMatchesPlace'
  BY <1>0, <1>1, <1>2, <1>4, <1>6, <1>8 DEF StateMatchesPlace, OnePlace
<1>10. CountsOK'
  BY <1>0, <1>2, <1>3 DEF CountsOK, FreeCores
<1>11. Held' = Held
  BY <1>0, <1>3, <1>4 DEF Held
<1>12. OnlyBlockedAreDropped'
  BY <1>0, <1>6, <1>11 DEF Phases, OnlyBlockedAreDropped, Held
<1> QED
  BY <1>0, <1>5, <1>9, <1>10, <1>12 DEF Sound, Phases, DoneMeansAllFinished

(* The process at the front gets a core that nobody occupies.              *)
LEMMA DispatchInv ==
  ASSUME CoreTypeOK, QueueTypeOK, ControlTypeOK, Sound, Phases, Dispatch
  PROVE  Sound' /\ Phases'
<1> DEFINE p == Head(ready)
           t == [loc |-> "run", proc |-> p, cycles |-> 0, why |-> ""]
<1>a. p = Head(ready) /\ t.loc = "run" /\ t.proc = p /\ t.why = ""
  OBVIOUS
<1> HIDE DEF p
<1>1. OnePlace /\ StateMatchesPlace /\ CountsOK
  BY DEF Sound
<1>2. /\ OnePlace' /\ CountsOK'
      /\ p \in Procs /\ Range(ready') \subseteq Range(ready)
      /\ p \notin Range(ready') \cup Range(blocked) \cup finished
      /\ \A c \in Cores : current[c] # p
      /\ current'[k] = p /\ coreState'[k] = "BUSY" /\ pstate'[p] = "Running"
      /\ thread'[k] = t
      /\ \A c \in Cores \ {k} : /\ current'[c] = current[c] /\ thread'[c] = thread[c]
                                /\ coreState'[c] = coreState[c]
      /\ \A q \in Procs \ {p} : pstate'[q] = pstate[q]
      /\ UNCHANGED <<left, blocked, finished>> /\ totalCount' = totalCount
      /\ Held \subseteq Held' /\ p \in Held
      /\ pc = "assign" /\ pc' \in {"assign", "endPass"}
  BY <1>1, <1>a, DispatchPlaces
<1> HIDE DEF t
<1>3. CoreAgrees'
  <2>1. \A c \in Cores \ {k} : current[c] # NoProc => /\ current[c] \in Procs \ {p}
                                                      /\ pstate'[current[c]] = pstate[current[c]]
    BY <1>2 DEF CoreTypeOK
  <2>2. SUFFICES ASSUME NEW c \in Cores
        PROVE  /\ thread'[c].proc = current'[c]
               /\ thread'[c].loc # "none" <=> current'[c] # NoProc
               /\ coreState'[c] = "IDLE" <=> thread'[c].loc \in {"none", "exited"}
               /\ thread'[c].loc # "none" =>
                    /\ pstate'[current'[c]] = BurstState(thread'[c])
                    /\ thread'[c].why = "end" => left'[current'[c]] = 0
    BY DEF CoreAgrees, IsThreadRunning, IsIdle, Joined, BurstState, FinalState
  <2>3. CASE c = k
    <3>1. p # NoProc
      BY <1>2, ProcsAssumption
    <3>2. /\ thread'[c] = t /\ current'[c] = p /\ coreState'[c] = "BUSY"
          /\ pstate'[p] = "Running"
      BY <1>2, <2>3
    <3> QED
      BY <1>a, <3>1, <3>2 DEF BurstState
  <2>4. CASE c # k
    BY <1>1, <1>2, <2>1, <2>4 DEF StateMatchesPlace, CoreAgrees, IsThreadRunning,
                                  IsIdle, Joined
  <2> QED
    BY <2>3, <2>4
<1>4. StateMatchesPlace'
  <2>1. /\ Range(ready) \subseteq Procs /\ Range(blocked) \subseteq Procs
        /\ finished \subseteq Procs
    BY QueueMembers DEF QueueTypeOK
  <2> QED
    BY <1>1, <1>2, <1>3, <2>1 DEF StateMatchesPlace
<1>5. OnlyBlockedAreDropped'
  BY <1>2 DEF Phases, OnlyBlockedAreDropped
<1> QED
  BY <1>2, <1>4, <1>5 DEF Sound, Phases, DoneMeansAllFinished

LEMMA MainInv ==
  ASSUME CoreTypeOK, QueueTypeOK, ControlTypeOK, Sound, Phases, Main
  PROVE  Kept
<1>0. k \in Cores /\ 1 \in Cores /\ (k < NumCores => k + 1 \in Cores)
  BY NextCore DEF ControlTypeOK
<1>1. ASSUME NEW p \in Procs, AddProcess(p) PROVE Kept
  <2>1. CoreTypeOK'
    BY <1>1 DEF AddProcess, CoreTypeOK, State
  <2>2. QueueTypeOK'
    BY <1>1, PushBack DEF AddProcess, EnqueueReady, QueueTypeOK
  <2>3. ControlTypeOK'
    BY <1>1 DEF AddProcess, ControlTypeOK, controlVars
  <2> QED
    BY <1>1, <2>1, <2>2, <2>3, AddProcessInv DEF Kept
<1>2. CASE EndSimulation
  <2>1. CoreTypeOK' /\ QueueTypeOK'
    BY <1>2, DataKept DEF EndSimulation
  <2>2. ControlTypeOK'
    BY <1>2 DEF EndSimulation, ControlTypeOK, Locations
  <2> QED
    BY <1>2, <2>1, <2>2, EndSimulationInv DEF Kept
<1>3. CASE BeginCycle
  <2>1. tick' \in 0..(BatchSize - 1)
    BY <1>3 DEF BeginCycle, ControlTypeOK
  <2>2. ControlTypeOK'
    BY <1>0, <1>3, <2>1 DEF BeginCycle, ControlTypeOK, Locations
  <2> QED
    BY <1>3, <2>2, ControlKeeps DEF BeginCycle
<1>4. CASE ControlStep
  BY <1>4, ControlStepType, ControlKeeps
<1>5. CASE Collect
  <2>1. Collected(current[k])
    BY <1>0, <1>5, CollectMoves DEF Collected
  <2>2. ControlTypeOK' /\ pc' \notin {"load", "done"}
    BY <1>5, NextCollectType DEF Collect
  <2> QED
    BY <1>0, <1>5, <2>1, <2>2, CollectMoves, ReleaseKeeps
<1>6. CASE BeginBatch
  <2>1. pstate' \in [Procs -> State]
    BY <1>6 DEF BeginBatch, HandleBlocked, Wake, CoreTypeOK, State
  <2>2. CoreTypeOK'
    BY <1>6, <2>1 DEF BeginBatch, CoreTypeOK
  <2>3. /\ ready' \in Seq(Procs) /\ blocked' \in Seq(Procs)
        /\ Len(blocked) \in Nat /\ Len(ready') \in Nat
    BY <1>6, MoveBehind, EmptyQueue DEF BeginBatch, HandleBlocked, QueueTypeOK
  <2>4. QueueTypeOK'
    BY <1>6, <2>3 DEF BeginBatch, HandleBlocked, QueueTypeOK
  <2>5. attempts' \in Nat
    BY <1>6, <2>3 DEF BeginBatch, MaxAttempts
  <2>6. ControlTypeOK'
    BY <1>6, <2>5 DEF BeginBatch, ControlTypeOK, Locations
  <2> QED
    BY <1>6, <2>2, <2>4, <2>6, BeginBatchInv DEF Kept
<1>7. CASE UrgentCollect
  <2>1. Collected(current[k])
    BY <1>0, <1>7, UrgentCollectMoves DEF Collected
  <2>2. ControlTypeOK' /\ pc' \notin {"load", "done"}
    BY <1>7 DEF UrgentCollect, controlVars, ControlTypeOK
  <2> QED
    BY <1>0, <1>7, <2>1, <2>2, UrgentCollectMoves, ReleaseKeeps
<1>8. CASE Dispatch
  BY <1>8, DispatchType, DispatchInv DEF Kept
<1> QED
  BY <1>1, <1>2, <1>3, <1>4, <1>5, <1>6, <1>7, <1>8 DEF Main, ScheduleCycle, ControlStep

LEMMA InitInv == Init => IInv
<1> SUFFICES ASSUME SchedulerInit PROVE Sound /\ Phases
  BY InitType, IInvParts DEF Init
<1>1. StateMatchesPlace
  BY InitPlaces DEF StateMatchesPlace
<1>2. Phases
  BY InitPlaces DEF Phases, OnlyBlockedAreDropped, DoneMeansAllFinished
<1> QED
  BY <1>1, <1>2, InitPlaces DEF Sound

LEMMA NextInv == IInv /\ [Next]_vars => IInv'
<1> SUFFICES ASSUME CoreTypeOK, QueueTypeOK, ControlTypeOK, Sound, Phases, [Next]_vars
             PROVE  Kept
  BY IInvParts DEF IInv, Kept, TypeOK, QueueTypeOK, ControlTypeOK
<1>1. CASE Main
  BY <1>1, MainInv
<1>2. ASSUME NEW c \in Cores, CoreThread(c) PROVE Kept
  BY <1>2, CoreThreadSound, RunProcessType, SameQueues DEF CoreThread, ControlTypeOK,
     controlVars, Kept
<1>3. CASE UNCHANGED vars
  <2>1. UNCHANGED dataVars /\ pc' = pc /\ ControlTypeOK'
    BY <1>3 DEF vars, controlVars, ControlTypeOK
  <2>2. CASE pc = "done"
    <3>1. CoreTypeOK' /\ QueueTypeOK'
      BY <2>1, DataKept
    <3>2. OnePlace' /\ CountsOK' /\ Held' = Held
      BY <2>1, PlacesKept DEF Sound
    <3> QED
      BY <2>1, <3>1, <3>2 DEF Kept, Sound, StateMatchesPlace, CoreAgrees, Joined, IsIdle,
         IsThreadRunning, BurstState, FinalState, Phases, OnlyBlockedAreDropped,
         DoneMeansAllFinished, dataVars, coreVars, queueVars, counterVars
  <2>3. CASE pc # "done"
    BY <2>1, <2>3, ControlKeeps
  <2> QED
    BY <2>2, <2>3
<1> QED
  BY <1>1, <1>2, <1>3 DEF Next, Terminated

THEOREM Inductive == Spec => []IInv
BY InitInv, NextInv, PTL DEF Spec

(* Every variable keeps its type; in particular attempts never goes below  *)
(* zero and k always names a core, so the main thread never looks at a     *)
(* core that does not exist.                                               *)
THEOREM TypeCorrect == Spec => []TypeOK
BY Inductive, IInvImplies, PTL

(* No process is in two places, however the main thread's collects and the *)
(* ends of bursts interleave: for every number of cores and processes.     *)
THEOREM OnePlaceAlways == Spec => []OnePlace
BY Inductive, IInvImplies, PTL

(* The atomic counters the scheduler decides on agree with the queues.     *)
THEOREM CountersAlwaysAgree == Spec => []CountersAgree
BY Inductive, IInvImplies, PTL

(* PCB.state, the queues and the cores agree.                              *)
THEOREM StateAlwaysMatches == Spec => []StateMatchesPlace
BY Inductive, IInvImplies, PTL

(* Only a process the urgent collect found Blocked is ever lost.           *)
THEOREM OnlyBlockedAreEverDropped == Spec => []OnlyBlockedAreDropped
BY Inductive, IInvImplies, PTL

(* The simulation loop ends only with every process run to its end.        *)
THEOREM DoneIsDone == Spec => []DoneMeansAllFinished
BY Inductive, IInvImplies, PTL

-----------------------------------------------------------------------------
(* What a step may never do.                                               *)

(* The queues after a step, in the words of the queue operations.          *)
LEMMA QueueSteps ==
  ASSUME IInv, [Next]_vars
  PROVE  /\ finished \subseteq finished'
         /\ \/ ready' = ready
            \/ \E p \in Procs : ready' = Append(ready, p)
            \/ ready' = ready \o blocked
            \/ ready # <<>> /\ ready' = Tail(ready)
<1>0. CoreTypeOK /\ QueueTypeOK /\ ControlTypeOK /\ k \in Cores
  BY IInvParts DEF ControlTypeOK
<1>1. ASSUME UNCHANGED <<ready, finished>> PROVE ready' = ready /\ finished' = finished
  BY <1>1
<1>2. ASSUME NEW p \in Procs, AddProcess(p) \/ Collected(p)
      PROVE  /\ finished \subseteq finished'
             /\ ready' = ready \/ ready' = Append(ready, p)
  BY <1>2 DEF AddProcess, Collected, ToFinished, ToBlocked, ToReady, ToNowhere, EnqueueReady
<1>3. CASE Collect
  <2>1. current[k] \in Procs /\ Collected(current[k])
    BY <1>0, <1>3, CollectMoves DEF Collected
  <2> QED
    BY <1>2, <2>1
<1>4. CASE UrgentCollect
  <2>1. current[k] \in Procs /\ Collected(current[k])
    BY <1>0, <1>4, UrgentCollectMoves DEF Collected
  <2> QED
    BY <1>2, <2>1
<1>5. CASE BeginBatch
  BY <1>5 DEF BeginBatch, HandleBlocked
<1>6. CASE Dispatch
  BY <1>6 DEF Dispatch
<1>7. CASE \/ EndLoading \/ EndSimulation \/ BeginCycle \/ SkipCore \/ SkipBatch
           \/ BeginPass \/ SkipAssign \/ EndPass \/ EndBatch \/ ForceCollect
  BY <1>7 DEF EndLoading, EndSimulation, BeginCycle, SkipCore, SkipBatch, BeginPass,
              SkipAssign, EndPass, EndBatch, ForceCollect, dataVars, queueVars
<1>8. CASE (\E c \in Cores : CoreThread(c)) \/ UNCHANGED vars
  BY <1>8 DEF CoreThread, vars, dataVars, queueVars
<1> QED
  BY <1>2, <1>3, <1>4, <1>5, <1>6, <1>7, <1>8 DEF Next, Main, ScheduleCycle, Terminated

(* A finished process stays finished and never executes again: the list    *)
(* only grows, and what is in it has no instruction left before or after.  *)
THEOREM FinishedForGood == Spec => FinishedIsFinal
<1>1. ASSUME IInv, [Next]_vars
      PROVE  \A p \in finished : /\ p \in finished' /\ pstate'[p] = "Finished"
                                 /\ left'[p] = left[p]
  <2>1. finished \subseteq finished'
    BY <1>1, QueueSteps
  <2>2. \A p \in finished : left[p] = 0
    BY <1>1, IInvImplies DEF StateMatchesPlace
  <2>3. IInv'
    BY <1>1, NextInv
  <2>4. \A p \in finished' : pstate'[p] = "Finished" /\ left'[p] = 0
    BY <2>3 DEF IInv, Sound, StateMatchesPlace
  <2> QED
    BY <2>1, <2>2, <2>4
<1> QED
  BY <1>1, Inductive, PTL DEF Spec, FinishedIsFinal

(* The round-robin order: whatever is pushed goes behind everybody who     *)
(* waits, and the process that is dispatched has nobody in front of it.    *)
THEOREM NobodyOvertakes == Spec => NoOvertaking
<1>1. ASSUME IInv, [Next]_vars
      PROVE  \A p \in Range(ready) :
               \/ p \in Range(ready') /\ Ahead(p, ready') \subseteq Ahead(p, ready)
               \/ p \notin Range(ready') /\ Ahead(p, ready) = {}
  <2> TAKE p \in Range(ready)
  <2>0. ready \in Seq(Procs) /\ blocked \in Seq(Procs) /\ IsInjective(ready)
    BY <1>1, IInvParts, IInvImplies DEF QueueTypeOK, OnePlace
  <2>1. CASE ready' = ready
    BY <2>1
  <2>2. ASSUME NEW x \in Procs, ready' = Append(ready, x)
        PROVE  p \in Range(ready') /\ Ahead(p, ready') \subseteq Ahead(p, ready)
    <3>1. /\ ready' \in Seq(Procs) /\ Len(ready) <= Len(ready')
          /\ \A i \in 1..Len(ready) : ready'[i] = ready[i]
      BY <2>0, <2>2
    <3> QED
      BY <2>0, <3>1, AheadBehind
  <2>3. CASE ready' = ready \o blocked
    <3>1. /\ ready' \in Seq(Procs) /\ Len(ready) <= Len(ready')
          /\ \A i \in 1..Len(ready) : ready'[i] = ready[i]
      BY <2>0, <2>3
    <3> QED
      BY <2>0, <3>1, AheadBehind
  <2>4. CASE ready # <<>> /\ ready' = Tail(ready)
    <3>1. CASE p = Head(ready)
      <4>1. p \notin Range(ready')
        BY <2>0, <2>4, <3>1, PopFront
      <4>2. ready[1] = p /\ DOMAIN ready = 1..Len(ready)
        BY <2>0, <2>4, <3>1
      <4>3. \A j \in 1..Len(ready) : 1 \in 1..j
        OBVIOUS
      <4> QED
        BY <4>1, <4>2, <4>3 DEF Ahead
    <3>2. CASE p # Head(ready)
      BY <2>0, <2>4, <3>2, AheadTail
    <3> QED
      BY <3>1, <3>2
  <2> QED
    BY <1>1, <2>1, <2>2, <2>3, <2>4, QueueSteps
<1> QED
  BY <1>1, Inductive, PTL DEF Spec, NoOvertaking

-----------------------------------------------------------------------------
(***************************************************************************)
(* RoundRobin implements ProcessLifecycle for every value of the           *)
(* constants: every step of the main thread and of a core thread is one    *)
(* step of a process's life, or none.                                      *)
(***************************************************************************)

LEMMA PlacedAlways == IInv => Placed /\ PlaceFacts
<1>1. IInv => Placed
  BY IInvParts, IInvImplies, CoreAgreesParts
     DEF Placed, ControlTypeOK, StateMatchesPlace, IInv, Phases
<1> QED
  BY <1>1, PlaceIs

LEMMA BeginBatchMaps ==
  ASSUME IInv, BeginBatch
  PROVE  Lifecycle!Next \/ UNCHANGED <<Place, left>>
<1>0. PlaceFacts /\ QueueTypeOK
  BY PlacedAlways, IInvParts
<1>1. /\ ready' = ready \o blocked /\ pc = "batch" /\ pc' = "pass"
      /\ UNCHANGED <<finished, current, left>>
  BY DEF BeginBatch, HandleBlocked
<1>2. Range(ready') = Range(ready) \cup Range(blocked)
  BY <1>0, <1>1, MoveBehind DEF QueueTypeOK
<1>3. \A p \in Procs \ Range(blocked) : Place'[p] = Place[p]
  BY <1>1, <1>2 DEF Place
<1>4. CASE Range(blocked) = {}
  <2>1. \A p \in Procs : Place'[p] = Place[p]
    BY <1>3, <1>4
  <2>2. Place' = Place
    BY <2>1 DEF Place
  <2> QED
    BY <1>1, <2>2
<1>5. CASE Range(blocked) # {}
  <2>1. Range(blocked) \in SUBSET Procs
    BY <1>0, QueueMembers DEF QueueTypeOK
  <2>2. \A p \in Range(blocked) : p \notin finished /\ p \in Range(ready')
    BY <1>2, IInvImplies DEF OnePlace
  <2>3. \A p \in Range(blocked) : Place[p] = "blocked" /\ Place'[p] = "ready"
    BY <1>0, <1>1, <2>1, <2>2 DEF PlaceFacts, Place
  <2>4. Lifecycle!Unblock(Range(blocked))
    BY <1>1, <1>3, <1>5, <2>1, <2>3, Moves DEF Lifecycle!Unblock
  <2> QED
    BY <2>1, <2>4 DEF Lifecycle!Next
<1> QED
  BY <1>4, <1>5

LEMMA StepMaps ==
  ASSUME IInv, IInv', [Next]_vars
  PROVE  Lifecycle!Next \/ UNCHANGED <<Place, left>>
<1>0. /\ Placed /\ PlaceFacts' /\ CoreTypeOK /\ QueueTypeOK /\ k \in Cores
      /\ CoreAgrees /\ round \in 1..3
  <2>1. IInv' => PlaceFacts'
    BY PlacedAlways, PTL
  <2> QED
    BY <2>1, PlacedAlways, IInvParts, IInvImplies DEF ControlTypeOK, StateMatchesPlace
<1>1. ASSUME NEW p \in Procs, AddProcess(p) PROVE Lifecycle!Next
  <2>1. /\ ready' = Append(ready, p) /\ p \notin Held /\ pc = "load" /\ pc' = "load"
        /\ UNCHANGED <<finished, current, left>>
    BY <1>1 DEF AddProcess, EnqueueReady, controlVars
  <2>2. Range(ready') = Range(ready) \cup {p}
    BY <1>0, <2>1, PushBack DEF QueueTypeOK
  <2> QED
    BY <1>0, <2>1, <2>2, AdmitMaps
<1>2. CASE EndLoading
  BY <1>0, <1>2, EndLoadingMaps
<1>a. ASSUME NEW p \in Procs, p = current[k], Release, UNCHANGED <<pstate, left>>, Collected(p),
             pc # "load", pc' # "load"
      PROVE  Lifecycle!Next
  <2>1. Joined(k)
    BY <1>a DEF Release, ReleaseCore
  <2>2. CASE ToFinished(p) /\ pstate[p] = "Finished"
    <3>1. left[p] = 0
      BY <1>0, <1>a, <2>1, <2>2, JoinedState
    <3> QED
      BY <1>0, <1>a, <2>2, <3>1, ReleaseMaps
  <2>3. CASE ToReady(p)
    <3>1. Range(ready') = Range(ready) \cup {p} /\ finished' = finished
      BY <1>0, <2>3, PushBack DEF ToReady, EnqueueReady, QueueTypeOK
    <3> QED
      BY <1>0, <1>a, <3>1, ReleaseMaps
  <2>4. CASE ToBlocked(p) \/ ToNowhere
    <3>1. ready' = ready /\ finished' = finished
      BY <2>4 DEF ToBlocked, ToNowhere
    <3> QED
      BY <1>0, <1>a, <3>1, ReleaseMaps
  <2> QED
    BY <1>a, <2>2, <2>3, <2>4 DEF Collected
<1>3. CASE Collect
  <2>1. Collected(current[k]) /\ current[k] \in Procs /\ Release /\ UNCHANGED <<pstate, left>>
    BY <1>0, <1>3, CollectMoves DEF Collected
  <2>2. pc # "load" /\ pc' # "load"
    BY <1>0, <1>3 DEF Collect, NextCollect, AfterCollect
  <2> QED
    BY <1>a, <2>1, <2>2
<1>4. CASE UrgentCollect
  <2>1. Collected(current[k]) /\ current[k] \in Procs /\ Release /\ UNCHANGED <<pstate, left>>
    BY <1>0, <1>4, UrgentCollectMoves DEF Collected
  <2>2. pc # "load" /\ pc' # "load"
    BY <1>4 DEF UrgentCollect, controlVars
  <2> QED
    BY <1>a, <2>1, <2>2
<1>5. CASE BeginBatch
  BY <1>5, BeginBatchMaps
<1>6. CASE Dispatch
  BY <1>0, <1>6, DispatchMaps
<1>7. CASE SkipCore
  <2>1. UNCHANGED <<ready, finished, current, left>> /\ pc # "load" /\ pc' # "load"
    BY <1>0, <1>7 DEF SkipCore, NextCollect, AfterCollect, queueVars
  <2> QED
    BY <2>1, PlaceKept
<1>8. CASE \/ EndSimulation \/ BeginCycle \/ SkipBatch \/ BeginPass \/ SkipAssign
           \/ EndPass \/ EndBatch \/ ForceCollect
  <2>1. UNCHANGED dataVars /\ pc # "load" /\ pc' # "load"
    BY <1>8 DEF EndSimulation, BeginCycle, SkipBatch, BeginPass, SkipAssign, NextAssign,
                EndPass, EndBatch, ForceCollect
  <2> QED
    BY <2>1, ControlStepMaps
<1>9. ASSUME NEW c \in Cores, CoreThread(c)
      PROVE  Lifecycle!Next \/ UNCHANGED <<Place, left>>
  BY <1>0, <1>9, CoreThreadMaps
<1>10. CASE UNCHANGED vars
  <2>1. UNCHANGED <<ready, finished, current, left, pc>>
    BY <1>10 DEF vars, dataVars, coreVars, queueVars, controlVars
  <2> QED
    BY <2>1, PlaceKept
<1> QED
  BY <1>1, <1>2, <1>3, <1>4, <1>5, <1>6, <1>7, <1>8, <1>9, <1>10
     DEF Next, Main, ScheduleCycle, Terminated

(* The scheduler, with its queues, counters, batches, collects and         *)
(* threads, implements the process lifecycle.                              *)
THEOREM RoundRobinImplementsLifecycle == Spec => ImplementsLifecycle
<1>1. IInv /\ IInv' /\ [Next]_vars => [Lifecycle!Next]_<<Place, left>>
  BY StepMaps
<1>2. Init => Lifecycle!Init
  BY InitMaps DEF Init
<1> QED
  BY <1>1, <1>2, Inductive, PTL DEF Spec, ImplementsLifecycle, Lifecycle!Spec

=============================================================================
