--------------------------- MODULE CouponRegistry ---------------------------
(***************************************************************************)
(* What the Coupon Authority promises its callers, without keys, clocks,   *)
(* Redis or restarts: coupons are minted once, a revocation that has been  *)
(* acknowledged bars its coupon until it lapses, and a verification is     *)
(* accepted only for a coupon that is minted and not barred at the instant *)
(* the verification takes effect.  CouponAuthority implements it.          *)
(***************************************************************************)

CONSTANTS Jtis,     \* the coupon identifiers
          Clients   \* the callers of the API

VARIABLES minted,   \* the coupons that exist
          barred,   \* the coupons under an acknowledged revocation
          accepted  \* for each caller, the coupon its last answer accepted

abstractVars == <<minted, barred, accepted>>

Init == /\ minted = {}
        /\ barred = {}
        /\ accepted = [p \in Clients |-> {}]

Mint(j) == /\ j \notin minted
           /\ minted' = minted \cup {j}
           /\ UNCHANGED <<barred, accepted>>

Bar(j) == /\ j \in minted
          /\ barred' = barred \cup {j}
          /\ UNCHANGED <<minted, accepted>>

\* Revocations run out (their time to live) or are lost with their store.
Lapse == /\ barred' \in SUBSET barred
         /\ UNCHANGED <<minted, accepted>>

Accept(p, j) == /\ j \in minted \ barred
                /\ accepted' = [accepted EXCEPT ![p] = {j}]
                /\ UNCHANGED <<minted, barred>>

\* The caller is done with its answer.
Consume(p) == /\ accepted' = [accepted EXCEPT ![p] = {}]
              /\ UNCHANGED <<minted, barred>>

Next == \/ \E j \in Jtis : Mint(j) \/ Bar(j)
        \/ Lapse
        \/ \E p \in Clients : Consume(p) \/ \E j \in Jtis : Accept(p, j)

Spec == Init /\ [][Next]_abstractVars
=============================================================================
