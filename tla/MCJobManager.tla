---------------------------- MODULE MCJobManager ----------------------------
(* JobManager with finite constants and, for the safety runs, the symmetry  *)
(* of the jobs, which no definition tells apart.                            *)
EXTENDS JobManager, TLC

JobSymmetry == Permutations(Jobs)
=============================================================================
