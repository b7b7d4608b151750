----------------------------- MODULE MCGateway -----------------------------
(***************************************************************************)
(* Instances of Gateway for TLC: two coupons whose scopes are matched with *)
(* a protected target by PurposeBinding, and an unprotected target.        *)
(***************************************************************************)
EXTENDS Gateway, TLC

Purpose == INSTANCE PurposeBinding WITH
    Methods <- {"GET"}, Paths <- {"/hello", "/resource", "/docs"},
    MaxTokens <- 0, text <- <<>>

MCCoupons == {"a", "b"}
MCTargets == {"/hello", "/docs"}
MCOpen == {"/docs"}

ScopeOf(c) == IF c = "a" THEN <<"GET", ":", "/hello">>
              ELSE <<"GET", "+", "/resource", ",", "GET", ":", "/docs">>

MCPermits == {<<c, t>> \in MCCoupons \X MCTargets :
                Purpose!PurposeMatches(
                  Purpose!Scoped(Purpose!Text(ScopeOf(c))), "GET", t)}
\* The default, one plugin alone, the order reversed, none, and a class that
\* cannot be imported.
MCSettings == {<<"verify", "purpose">>, <<"verify">>, <<"purpose">>,
               <<"purpose", "verify">>, <<>>, <<"verify", "missing">>}
MCExpOf == [c \in MCCoupons |-> 1]

Symmetry == Permutations(Requests)
=============================================================================
