------------------------------ MODULE MCMemory ------------------------------
(***************************************************************************)
(* Instances of Memory for TLC.                                            *)
(***************************************************************************)
EXTENDS Memory

(* One address in main memory, one in secondary memory, one beyond both.   *)
FewAddresses == 0..2
=============================================================================
