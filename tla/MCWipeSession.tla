--------------------------- MODULE MCWipeSession ---------------------------
(***************************************************************************)
(* Instances of WipeSession for TLC: the constants are given in the .cfg   *)
(* files; the two sets of model values are symmetric for safety.           *)
(***************************************************************************)
EXTENDS WipeSession, TLC

SessionSymmetry == Permutations(Sessions) \cup Permutations(Devices)
=============================================================================
