---------------------------- MODULE MCSdkClient ----------------------------
(***************************************************************************)
(* SdkClient for TLC, without symmetry: the next coupon to be minted is    *)
(* chosen, and the run checks liveness.  The options are what the command  *)
(* line makes of --cache, --offline and --offline-strategy: a cache with   *)
(* each strategy that reads it, a local check without a cache, and a cache *)
(* that is only written.                                                   *)
(***************************************************************************)
EXTENDS SdkClient

\* auto_fetch_public_key follows from the others.
Cli(cache, offline, strategy) ==
    [cache |-> cache, offline |-> offline, strategy |-> strategy,
     autoFetch |-> offline /\ strategy \in {"local", "auto"}]

MCConfigs == {Cli(TRUE, TRUE, "auto"), Cli(TRUE, TRUE, "cache"),
              Cli(FALSE, TRUE, "local"), Cli(TRUE, FALSE, "cache")}
=============================================================================
