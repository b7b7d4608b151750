------------------------- MODULE MCCouponAuthority -------------------------
(***************************************************************************)
(* Instances of CouponAuthority small enough for TLC.                      *)
(***************************************************************************)
EXTENDS CouponAuthority, TLC

\* The callers are interchangeable.
ClientSymmetry == Permutations(Clients)
=============================================================================
