------------------------------ MODULE SealedLog ------------------------------
(***************************************************************************)
(* What the verified audit trail promises to a verifier, without saying    *)
(* how: an append-only log that is cut into consecutive blocks, each of    *)
(* which is sealed at most once and never undone.  A block starts right    *)
(* after the one before it, so the blocks neither overlap nor skip an      *)
(* entry, and a sealed block stays sealed with the range it was sealed     *)
(* for.  docs/specs/audit-v1/THREAT-MODEL.md, "Protected claims", is the   *)
(* text this contract restates; AuditTrail is shown to implement it.       *)
(***************************************************************************)
EXTENDS Integers, Sequences

VARIABLES
  length,   \* entries appended so far; entry n has sequence number n
  blocks,   \* the cuts, oldest first, as records [first, last]
  sealed    \* indexes of the blocks that carry a signature

vars == <<length, blocks, sealed>>

\* The last entry that belongs to a block.
CutUpTo(b) == IF b = <<>> THEN 0 ELSE b[Len(b)].last

Init ==
  /\ length = 0
  /\ blocks = <<>>
  /\ sealed = {}

\* One more entry at the end of the log.
Extend ==
  /\ length' = length + 1
  /\ UNCHANGED <<blocks, sealed>>

\* The entries up to n that no block holds become the next block.
Cut ==
  /\ \E n \in (CutUpTo(blocks) + 1) .. length :
       blocks' = Append(blocks, [first |-> CutUpTo(blocks) + 1, last |-> n])
  /\ UNCHANGED <<length, sealed>>

\* A block receives its signature.
Seal ==
  /\ \E b \in DOMAIN blocks \ sealed : sealed' = sealed \union {b}
  /\ UNCHANGED <<length, blocks>>

Next == Extend \/ Cut \/ Seal

Spec == Init /\ [][Next]_vars
==============================================================================
