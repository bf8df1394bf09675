------------------------- MODULE MCPartitionResize -------------------------
EXTENDS PartitionResize, TLC

\* Two partitions with a gap after each, and a sector at the end of the disk
\* that dd can reach and the table cannot.
MCTable == [p \in Parts |-> IF p = "p1" THEN [start |-> 1, size |-> 2] ELSE [start |-> 5, size |-> 2]]
MCUsed  == [p \in Parts |-> 1]
MCTypes == [p \in Parts |-> IF p = "p1" THEN Fstypes ELSE {"ext"}]

MCSymmetry == Permutations(Requests)
=============================================================================
