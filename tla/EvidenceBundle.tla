---------------------------- MODULE EvidenceBundle ----------------------------
(***************************************************************************)
(* Evidence of single receipts: the checkpoint built over a batch          *)
(* (audit_checkpoint.py), its Merkle root and proofs (audit_evidence.py),  *)
(* the bundle that is exported for a receipt (db/queries.py) and its       *)
(* offline verification (audit_verify.py).                                 *)
(*                                                                         *)
(* A hash is the term it was computed from, so different contents never    *)
(* collide; a signature verifies if the checkpoint is one that was signed. *)
(* How receipts get into batches is the subject of module AuditTrail.      *)
(***************************************************************************)
EXTENDS Integers, Sequences

CONSTANTS
  BatchLimit,    \* receipts in a checkpoint
  LedgerBound    \* receipts in all

ASSUME EvidenceAssumption == BatchLimit \in Nat \ {0} /\ LedgerBound \in Nat

VARIABLES
  signed,   \* the signed checkpoints, in their order
  paths     \* per checkpoint: the stored proof of each of its receipts

evidenceVars == <<signed, paths>>

\* A receipt: its sequence, and whether its content is what was recorded.
Bodies == {"recorded", "changed"}
Written(seq) == [sequence |-> seq, body |-> "recorded"]

-----------------------------------------------------------------------------
(* Merkle trees.                                                           *)

Leaf(receipt) == <<"leaf", receipt>>
Parent(left, right) == <<"node", left, right>>

\* Nodes are paired from the left; the last of an odd level is promoted.
NextLevel(level) ==
  [k \in 1..((Len(level) + 1) \div 2) |->
     IF 2 * k > Len(level) THEN level[2 * k - 1] ELSE Parent(level[2 * k - 1], level[2 * k])]

\* The levels of the tree from the leaves up, until one node is left.
Levels(receipts) ==
  LET level[n \in 0..Len(receipts)] ==
        IF n = 0 THEN [k \in 1..Len(receipts) |-> Leaf(receipts[k])] ELSE NextLevel(level[n - 1])
  IN level

MerkleRoot(receipts) == Levels(receipts)[Len(receipts)][1]

\* Mutant: a node without a sibling is paired with itself.
SiblingOrSelf(level, index) ==
  LET sibling == IF index % 2 = 1 THEN index - 1 ELSE index + 1
  IN IF sibling < Len(level)
     THEN <<[side |-> IF sibling < index THEN "left" ELSE "right", hash |-> level[sibling + 1]]>>
     ELSE IF Len(level) = 1 THEN <<>>
     ELSE <<[side |-> "right", hash |-> level[index + 1]]>>

\* What a level adds to the proof of the node with this index: nothing, if the
\* node is promoted.
Sibling(level, index) ==
  LET sibling == IF index % 2 = 1 THEN index - 1 ELSE index + 1
  IN IF sibling < Len(level)
     THEN <<[side |-> IF sibling < index THEN "left" ELSE "right", hash |-> level[sibling + 1]]>>
     ELSE <<>>

\* merkle_proof of the receipt at an index, from 0.
MerkleProof(receipts, index) ==
  LET levels == Levels(receipts)
      at[n \in 0..Len(receipts)] == IF n = 0 THEN index ELSE at[n - 1] \div 2
      proof[n \in 0..Len(receipts)] ==
        IF n = 0 THEN <<>> ELSE proof[n - 1] \o Sibling(levels[n - 1], at[n - 1])
  IN proof[Len(receipts)]

\* verify_merkle_proof: the root a proof leads to.
ProofRoot(receipt, proof) ==
  LET current[n \in 0..Len(proof)] ==
        IF n = 0 THEN Leaf(receipt)
        ELSE IF proof[n].side = "left" THEN Parent(proof[n].hash, current[n - 1])
        ELSE Parent(current[n - 1], proof[n].hash)
  IN current[Len(proof)]

-----------------------------------------------------------------------------
(* Checkpoints and bundles.                                                *)

Sealed == IF signed = <<>> THEN 0 ELSE signed[Len(signed)].last

EvidenceTypeOK ==
  /\ Len(signed) = Len(paths)
  /\ \A k \in DOMAIN signed :
       /\ signed[k].first \in 1..LedgerBound /\ signed[k].last \in 1..LedgerBound
       /\ signed[k].count \in 1..BatchLimit
       /\ DOMAIN paths[k] = 0..(signed[k].count - 1)

EvidenceInit == signed = <<>> /\ paths = <<>>

\* build_checkpoint over the next receipts, and its signing.
SignBatch(count) ==
  LET first == Sealed + 1
      batch == [k \in 1..count |-> Written(first + k - 1)]
  IN /\ Sealed + count <= LedgerBound
     /\ signed' = Append(signed, [first |-> first, last |-> first + count - 1, count |-> count,
                                  root |-> MerkleRoot(batch)])
     /\ paths' = Append(paths, [index \in 0..(count - 1) |-> MerkleProof(batch, index)])

\* export_evidence_bundle of a receipt of checkpoint k.
Bundle(k, index) ==
  [receipt |-> Written(signed[k].first + index), index |-> index,
   proof |-> paths[k][index], checkpoint |-> signed[k]]

\* verify_bundle: the content, its inclusion, its position, the signature.
Accepts(bundle) ==
  LET checkpoint == bundle.checkpoint
  IN /\ ProofRoot(bundle.receipt, bundle.proof) = checkpoint.root
     /\ bundle.receipt.sequence = checkpoint.first + bundle.index
     /\ bundle.index < checkpoint.count
     /\ checkpoint.count = checkpoint.last - checkpoint.first + 1
     /\ checkpoint \in {signed[k] : k \in DOMAIN signed}

EvidenceNext == \E count \in 1..BatchLimit : SignBatch(count)

EvidenceSpec == EvidenceInit /\ [][EvidenceNext]_evidenceVars

-----------------------------------------------------------------------------
\* Every receipt of every batch, whatever its size and the receipt's place in it,
\* has a bundle that verifies (audit_evidence.py:118-161, audit_verify.py:71-146).
ExportedVerifies ==
  \A k \in DOMAIN signed : \A index \in DOMAIN paths[k] : Accepts(Bundle(k, index))

\* A bundle put together from parts of several, or around a receipt whose content
\* was changed, verifies only if it still says the truth: the receipt is, as it
\* was recorded, the one with its sequence in the batch of the checkpoint.
AcceptedIsIncluded ==
  \A k, j \in DOMAIN signed : \A from \in DOMAIN paths[k], index \in 0..BatchLimit :
    \A seq \in 1..Sealed, body \in Bodies :
      LET receipt == [sequence |-> seq, body |-> body]
      IN Accepts([receipt |-> receipt, index |-> index, proof |-> paths[k][from],
                  checkpoint |-> signed[j]])
           => receipt = Written(seq) /\ seq \in signed[j].first..signed[j].last

===============================================================================
