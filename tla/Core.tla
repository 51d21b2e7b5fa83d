-------------------------------- MODULE Core --------------------------------
(***************************************************************************)
(* One core of the simulator (src/cpu/Core.cpp) as its scheduler sees it:  *)
(* a slot holding at most one process, an IDLE/BUSY flag, and the thread   *)
(* that execute_async starts for every dispatch and that somebody has to   *)
(* join.  The scheduler modules EXTEND this one and add the main thread.   *)
(*                                                                         *)
(* What a program computes is abstracted to how many instructions it may   *)
(* still fetch before it reaches its end (left) and to whether it contains *)
(* PRINT; which instruction comes next is a nondeterministic choice, so a  *)
(* behaviour of this module exists for every program within the bound.     *)
(***************************************************************************)
EXTENDS Integers, FiniteSets

CONSTANTS
  Procs,     (* the PCBs main.cpp loads                                    *)
  NoProc,    (* the null PCB pointer                                       *)
  NumCores,  (* the --cores option                                         *)
  Quantum,   (* PCB.quantum of each process, any int                       *)
  Prints,    (* the processes whose program contains PRINT                 *)
  Budget     (* bound: instructions each program can fetch before its end  *)

ASSUME ProcsAssumption   == IsFiniteSet(Procs) /\ NoProc \notin Procs
ASSUME NumCoresAssumption == NumCores \in Nat \ {0}
ASSUME QuantumAssumption == Quantum \in [Procs -> Int]
ASSUME ProgramAssumption == Prints \subseteq Procs /\ Budget \in [Procs -> Nat]

Cores == 1..NumCores

State == {"Ready", "Running", "Blocked", "Finished"}

VARIABLES
  pstate,     (* PCB.state                                                 *)
  left,       (* instructions still to fetch before the end of the program *)
  current,    (* Core::current_process                                     *)
  coreState,  (* Core::state                                               *)
  thread      (* Core::execution_thread and the locals of run_process      *)

coreVars == <<pstate, left, current, coreState, thread>>

(***************************************************************************)
(* A thread object: loc says where its run_process is ("none": not         *)
(* joinable), proc is the argument it was started with, cycles is          *)
(* cycles_in_quantum and why says what made it leave the loop.             *)
(***************************************************************************)
Thread == [loc: {"none", "run", "settled", "exited"}, proc: Procs \cup {NoProc},
           cycles: Nat, why: {"", "end", "io", "fault"}]

NoThread == [loc |-> "none", proc |-> NoProc, cycles |-> 0, why |-> ""]

CoreTypeOK ==
  /\ pstate \in [Procs -> State]
  /\ left \in [Procs -> Nat]
  /\ current \in [Cores -> Procs \cup {NoProc}]
  /\ coreState \in [Cores -> {"IDLE", "BUSY"}]
  /\ thread \in [Cores -> Thread]

CoreInit ==
  /\ pstate = [p \in Procs |-> "Ready"]
  /\ left = Budget
  /\ current = [c \in Cores |-> NoProc]
  /\ coreState = [c \in Cores |-> "IDLE"]
  /\ thread = [c \in Cores |-> NoThread]

IsIdle(c) == coreState[c] = "IDLE"

IsThreadRunning(c) == thread[c].loc # "none"

(* join() returns at once when there is no thread, and otherwise only when *)
(* the thread has left run_process.                                        *)
Joined(c) == thread[c].loc \in {"none", "exited"}

-----------------------------------------------------------------------------
(* Called by the scheduler.                                                *)

ExecuteAsync(c, p) ==
  /\ IsIdle(c)
  /\ Joined(c)
  /\ current' = [current EXCEPT ![c] = p]
  /\ pstate' = [pstate EXCEPT ![p] = "Running"]
  /\ coreState' = [coreState EXCEPT ![c] = "BUSY"]
  /\ thread' = [thread EXCEPT ![c] =
                  [loc |-> "run", proc |-> p, cycles |-> 0, why |-> ""]]

(* Mutant: clear_current_process is forgotten.                             *)
ReleaseCoreKeepsProcess(c) ==
  /\ Joined(c)
  /\ thread' = [thread EXCEPT ![c] = NoThread]
  /\ UNCHANGED current

(* wait_completion followed by clear_current_process.                      *)
ReleaseCore(c) ==
  /\ Joined(c)
  /\ thread' = [thread EXCEPT ![c] = NoThread]
  /\ current' = [current EXCEPT ![c] = NoProc]

-----------------------------------------------------------------------------
(* The execution thread: run_process.                                      *)

(* Mutant: the quantum is one cycle short.                                 *)
InLoopOffByOne(c) ==
  LET t == thread[c]
  IN  t.loc = "run" /\ t.why = "" /\ t.cycles + 1 < Quantum[t.proc]

InLoop(c) ==
  LET t == thread[c]
  IN  t.loc = "run" /\ t.why = "" /\ t.cycles < Quantum[t.proc]

(* One instruction goes through the five stages.                           *)
Instruction(c) ==
  LET p == thread[c].proc
  IN  /\ InLoop(c) /\ left[p] > 0
      /\ left' = [left EXCEPT ![p] = @ - 1]
      /\ thread' = [thread EXCEPT ![c].cycles = @ + 1]
      /\ UNCHANGED <<pstate, current, coreState>>

(* PRINT queues a local I/O request, marks the PCB at once and ends the    *)
(* burst after the cycle is counted.                                       *)
PrintInstr(c) ==
  LET p == thread[c].proc
  IN  /\ InLoop(c) /\ left[p] > 0 /\ p \in Prints
      /\ left' = [left EXCEPT ![p] = @ - 1]
      /\ pstate' = [pstate EXCEPT ![p] = "Blocked"]
      /\ thread' = [thread EXCEPT ![c].cycles = @ + 1, ![c].why = "io"]
      /\ UNCHANGED <<current, coreState>>

(* Fetch meets END or runs past the program: nothing is executed and the   *)
(* cycle is not counted.  A program that ended once ends again.            *)
End(c) ==
  LET p == thread[c].proc
  IN  /\ InLoop(c)
      /\ left' = [left EXCEPT ![p] = 0]
      /\ thread' = [thread EXCEPT ![c].why = "end"]
      /\ UNCHANGED <<pstate, current, coreState>>

(* An exception thrown behind Fetch ends the burst; the PC has moved on.   *)
Fault(c) ==
  LET p == thread[c].proc
  IN  /\ InLoop(c) /\ left[p] > 0
      /\ left' = [left EXCEPT ![p] = @ - 1]
      /\ thread' = [thread EXCEPT ![c].why = "fault"]
      /\ UNCHANGED <<pstate, current, coreState>>

(* The loop is over: the final state of the PCB is stored.                 *)
FinalState(why) ==
  IF why = "end" THEN "Finished" ELSE IF why = "io" THEN "Blocked" ELSE "Ready"

Settle(c) ==
  LET t == thread[c]
  IN  /\ t.loc = "run" /\ ~InLoop(c)
      /\ pstate' = [pstate EXCEPT ![t.proc] = FinalState(t.why)]
      /\ thread' = [thread EXCEPT ![c].loc = "settled"]
      /\ UNCHANGED <<left, current, coreState>>

(* The core shows IDLE; current_process stays until it is collected.       *)
GoIdle(c) ==
  /\ thread[c].loc = "settled"
  /\ coreState' = [coreState EXCEPT ![c] = "IDLE"]
  /\ thread' = [thread EXCEPT ![c].loc = "exited"]
  /\ UNCHANGED <<pstate, left, current>>

RunProcess(c) ==
  \/ Instruction(c)
  \/ PrintInstr(c)
  \/ End(c)
  \/ Fault(c)
  \/ Settle(c)
  \/ GoIdle(c)

-----------------------------------------------------------------------------
(* What its thread makes of a core.                                        *)

(* What the burst of thread t has stored in PCB.state so far.              *)
BurstState(t) ==
  IF t.loc # "run" THEN FinalState(t.why)
  ELSE IF t.why = "io" THEN "Blocked" ELSE "Running"

(* A core shows the process its thread was started with until somebody     *)
(* joins the thread, shows IDLE exactly while a join returns at once, and  *)
(* nobody but the thread writes the state of its process: the PCB is in    *)
(* the state of its burst, and marked for Finished only with no            *)
(* instruction left.                                                       *)
CoreAgrees ==
  \A c \in Cores :
    /\ thread[c].proc = current[c]
    /\ IsThreadRunning(c) <=> current[c] # NoProc
    /\ IsIdle(c) <=> Joined(c)
    /\ IsThreadRunning(c) => /\ pstate[current[c]] = BurstState(thread[c])
                             /\ thread[c].why = "end" => left[current[c]] = 0
=============================================================================
