---------------------------- MODULE MCDelegation ----------------------------
(***************************************************************************)
(* Delegation with two backends and two delegates; the lives include one   *)
(* that ends at once.                                                      *)
(***************************************************************************)
EXTENDS Delegation, TLC

Symmetry == Permutations(Backends) \cup Permutations(Delegates)
=============================================================================
