-------------------------- MODULE MCAuditPipeline --------------------------
(***************************************************************************)
(* Instances of AuditPipeline for TLC.                                     *)
(***************************************************************************)
EXTENDS AuditPipeline, TLC

Symmetry == Permutations(Events) \cup Permutations(Strays)
=============================================================================
