--------------------------- MODULE MCFileStorage ---------------------------
(***************************************************************************)
(* FileStorage with two threads that are in one process, and share its     *)
(* object and lock, or in one process each, as two CLI commands are.       *)
(***************************************************************************)
EXTENDS FileStorage, TLC

OneOrTwoProcesses == {[w \in Workers |-> "p1"], [w1 |-> "p1", w2 |-> "p2"]}

Symmetry == Permutations(Inodes) \cup Permutations(Values)
=============================================================================
