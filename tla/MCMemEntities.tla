---------------------------- MODULE MCMemEntities ----------------------------
(***************************************************************************)
(* Two callers; the unique key is one property in the first document and   *)
(* two in the second, and one of the values of the first property has no   *)
(* JSON.                                                                   *)
(***************************************************************************)
EXTENDS MemEntities, TLC

CONSTANTS c1, c2, d1, d2, id1, id2, e1, t1

MCCallers == {c1, c2}
MCDocs == {d1, d2}
MCIds == {id1, id2}
MCProps == {"a", "b"}
MCDocuments == {m \in UNION {[S -> {1, 2}] : S \in SUBSET MCProps} : "b" \in DOMAIN m => m["b"] = 1}
MCUniqueKey == [d \in MCDocs |-> [t \in {t1} |-> IF d = d1 THEN <<"a">> ELSE <<"a", "b">>]]
Symmetry == Permutations(MCCallers) \cup Permutations(MCIds)
=============================================================================
