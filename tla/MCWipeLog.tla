------------------------------ MODULE MCWipeLog ------------------------------
(* WipeLog for TLC: the wipes of one disk, one after the other or at once.  *)
EXTENDS WipeLog, TLC

MCDevice == [s \in Sessions |-> CHOOSE d \in Devices : TRUE]
LogSymmetry == Permutations(Sessions) \cup Permutations(Requests)
=============================================================================
