-------------------------- MODULE MCNonPreemptive --------------------------
(***************************************************************************)
(* Instances of NonPreemptive for TLC.                                     *)
(***************************************************************************)
EXTENDS NonPreemptive

CONSTANTS p1, p2, p3

SameQuantum == [p \in Procs |-> LongQuantum]

(* p3 is the shortest job and the least important, the others are equal.   *)
TwoKeys == [p \in Procs |-> IF p = p3 THEN 1 ELSE 2]

OneInstruction  == [p \in Procs |-> 1]
FirstLonger     == [p \in Procs |-> IF p = p1 THEN 2 ELSE 1]
=============================================================================
