---------------------------- MODULE MCAuditTrail ----------------------------
(***************************************************************************)
(* Instances of AuditTrail for TLC.  Processes are interchangeable.        *)
(***************************************************************************)
EXTENDS AuditTrail, TLC

Symmetry == Permutations(Workers)
=============================================================================
