---------------------------- MODULE MCAuditIndex ----------------------------
(***************************************************************************)
(* AuditIndex over four events, of which two share an actor and three an   *)
(* action, and one names no actor; a timeline of two, so that events are   *)
(* trimmed; two ticks of retention, so that sets outlive messages.         *)
(***************************************************************************)
EXTENDS AuditIndex

MCEvents == {"e1", "e2", "e3", "e4"}
MCFields == [e \in MCEvents |->
    CASE e = "e1" -> {"actor:alice", "action:issue"}
      [] e = "e2" -> {"actor:alice", "action:revoke"}
      [] e = "e3" -> {"action:issue"}
      [] e = "e4" -> {"actor:bob", "action:issue"}]
MCRank == [e \in MCEvents |->
    CASE e = "e1" -> 2 [] e = "e2" -> 1 [] e = "e3" -> 3 [] e = "e4" -> 4]
MCQueries == {{"actor:alice"}, {"action:issue"}, {"actor:alice", "action:issue"}}
MCLimits == {-1, 0, 2}
=============================================================================
