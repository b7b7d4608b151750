-------------------------- MODULE MCPurposeBinding --------------------------
(***************************************************************************)
(* PurposeBinding over every text of up to six tokens.                    *)
(***************************************************************************)
EXTENDS PurposeBinding

MCMethods == {"GET", "POST"}
MCPaths == {"/hello"}
=============================================================================
