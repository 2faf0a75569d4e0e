----------------------------- MODULE MCOrgPolicy -----------------------------
(***************************************************************************)
(* Instances of OrgPolicy.  The numbers lie around the floors: one below   *)
(* all, zero (a legal address cap only) and one above; the defaults are    *)
(* 2, a number no request carries.                                         *)
(***************************************************************************)
EXTENDS OrgPolicy, TLC

MCNumbers == {-1, 0, 3}
MCDefault == [f \in Fields |-> 2]
HandlerSymmetry == Permutations(Handlers)
=============================================================================
