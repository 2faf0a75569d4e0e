----------------------------- MODULE MCSpecStore -----------------------------
(***************************************************************************)
(* Every declared type with every kind of carrier, two objects, two runs   *)
(* with the same key.                                                      *)
(***************************************************************************)
EXTENDS SpecStore, TLC

CONSTANTS r1, r2, k1, w1

MCRuns == {r1, r2}
MCKeys == {k1}
MCWorkers == {w1}
Symmetry == Permutations(MCRuns)
=============================================================================
