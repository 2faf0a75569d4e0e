--------------------------- MODULE MCPerCollection ---------------------------
(***************************************************************************)
(* An instance of PerCollection.  Members have a unique code, by a later   *)
(* schema no key; groups have none.  "in" is declared twice, in two tables,*)
(* which leaves it the second one, and "of" in a table that is taken,      *)
(* which leaves it none.  Callers are interchangeable, and so are ids.     *)
(***************************************************************************)
EXTENDS PerCollection, TLC

MCTypes == {"Member", "Group"}
MCTables == {"members", "groups"}
MCTableFor == [Member |-> "members", Group |-> "groups"]
MCDeclared ==
    <<[from |-> "Member", name |-> "in", to |-> "Member", table |-> "memberXmember"],
      [from |-> "Group", name |-> "of", to |-> "Member", table |-> "memberXmember"],
      [from |-> "Member", name |-> "in", to |-> "Group", table |-> "memberXgroup"]>>
MCUniqueKey ==
    [s1 |-> [Member |-> <<"code">>, Group |-> <<>>],
     s2 |-> [Member |-> <<>>, Group |-> <<>>]]

Symmetry == Permutations(Callers) \cup Permutations(Ids)
=============================================================================
