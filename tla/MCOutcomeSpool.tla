--------------------------- MODULE MCOutcomeSpool ---------------------------
(***************************************************************************)
(* Instances of OutcomeSpool for TLC.                                      *)
(***************************************************************************)
EXTENDS OutcomeSpool, TLC

Symmetry == Permutations(Decisions)
=============================================================================
