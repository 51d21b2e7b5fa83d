---------------------------- MODULE MCRoundRobin ----------------------------
(***************************************************************************)
(* Instances of RoundRobin for TLC.                                        *)
(***************************************************************************)
EXTENDS RoundRobin

CONSTANTS p1, p2, p3

(* p1 is preempted after every instruction, the others after two.          *)
MixedQuantum == [p \in Procs |-> IF p = p1 THEN 1 ELSE 2]

(* p1's process file has no "quantum" key: pcb_loader.cpp stores 0.        *)
MissingQuantum == [p \in Procs |-> IF p = p1 THEN 0 ELSE 2]

(* Programs of up to one instruction, with an empty one, and of up to two. *)
OneInstruction  == [p \in Procs |-> 1]
UnevenPrograms  == [p \in Procs |-> IF p = p3 THEN 0 ELSE 1]
TwoInstructions == [p \in Procs |-> 2]
=============================================================================
