---------------------------- MODULE MCAuditStore ----------------------------
(***************************************************************************)
(* AuditQueries, and with it AuditStore, over seven events of five kinds,  *)
(* among them equal and missing timestamps, a common correlation and more  *)
(* correlations than the summary lists.  With three records and six        *)
(* remembered ids, evicted events are remembered, the seventh arrival      *)
(* rebuilds the seen ids, and a copy of an event evicted and forgotten may *)
(* follow.  Events of one kind are interchangeable.                        *)
(***************************************************************************)
EXTENDS AuditQueries, TLC

CONSTANTS Issued, Denied, Revoked, Late, Undated

MCIds == Issued \cup Denied \cup Revoked \cup Late \cup Undated
Body(ts, key, actor, action, type, cid) ==
    [ts |-> ts, key |-> key, actor |-> actor, action |-> action, type |-> type, cid |-> cid]
MCBody == [id \in MCIds |->
    CASE id \in Issued  -> Body(2, 2, "ann", "issue",  "issued",  "c1")
      [] id \in Denied  -> Body(1, 1, "bob", "issue",  "denied",  "c1")
      [] id \in Revoked -> Body(2, 2, "ann", "revoke", "revoked", "c2")
      [] id \in Late    -> Body(0, 3, "bob", "issue",  "issued",  "c3")
      [] id \in Undated -> Body(0, 3, "bob", "issue",  "issued",  "none")]

\* By source, by type among the signed records, by a window that begins, and by
\* actor and action in one that ends.
MCFilters ==
    {Open, [Open EXCEPT !.source = "local"],
     [Open EXCEPT !.type = "issued", !.source = "kafka"],
     [Open EXCEPT !.from = 2],
     [Open EXCEPT !.actor = "bob", !.action = "issue", !.to = 1]}

Symmetry == Permutations(Issued) \cup Permutations(Denied)
=============================================================================
