----------------------------- MODULE IOManager -----------------------------
(***************************************************************************)
(* The I/O manager (src/IO/IOManager.cpp): a thread that pairs the process *)
(* that has waited longest with a device that asks for an operation,       *)
(* sleeps for the operation's cost and stores Ready in the PCB.            *)
(*                                                                         *)
(* The device flags and the request queue are touched by this thread only, *)
(* and the queue is emptied in the turn that fills it: a turn of           *)
(* managerLoop is one step up to the sleep, and one after it.  The turn    *)
(* that finds nothing to do only sleeps.                                   *)
(***************************************************************************)
EXTENDS Core, Sequences

VARIABLES
  waiting,        (* waiting_processes                                     *)
  printer, disk,  (* printer_requesting, disk_requesting                   *)
  serving         (* the process of the request being processed            *)

ioVars == <<waiting, printer, disk, serving>>

IOTypeOK ==
  /\ waiting \in Seq(Procs)
  /\ printer \in BOOLEAN /\ disk \in BOOLEAN
  /\ serving \in Procs \cup {NoProc}

IOInit == waiting = <<>> /\ printer = FALSE /\ disk = FALSE /\ serving = NoProc

(* Called by a scheduler.                                                  *)
RegisterProcessWaitingForIO(p) == waiting' = Append(waiting, p)

(* Mutant: the process in service is not erased from waiting_processes.    *)
TakeRequestUnerased ==
  /\ serving = NoProc
  /\ \E p \in {printer, TRUE}, d \in {disk, TRUE} :
       IF waiting # <<>> /\ (p \/ d)
         THEN serving' = Head(waiting) /\ printer' = FALSE /\ disk' = (p /\ d)
         ELSE printer' = p /\ disk' = d /\ UNCHANGED serving
  /\ UNCHANGED <<waiting, pstate>>

(* The devices ask at random; the printer is served first.                 *)
TakeRequest ==
  /\ serving = NoProc
  /\ \E p \in {printer, TRUE}, d \in {disk, TRUE} :
       IF waiting # <<>> /\ (p \/ d)
         THEN /\ serving' = Head(waiting) /\ waiting' = Tail(waiting)
              /\ printer' = FALSE /\ disk' = (p /\ d)
         ELSE /\ printer' = p /\ disk' = d
              /\ UNCHANGED <<waiting, serving>>
  /\ UNCHANGED pstate

(* The state is stored whatever the process has become in the meantime.    *)
CompleteRequest ==
  /\ serving # NoProc
  /\ pstate' = [pstate EXCEPT ![serving] = "Ready"]
  /\ serving' = NoProc
  /\ UNCHANGED <<waiting, printer, disk>>

ManagerLoop ==
  /\ TakeRequest \/ CompleteRequest
  /\ UNCHANGED <<left, current, coreState, thread>>
=============================================================================
