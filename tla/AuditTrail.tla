------------------------------ MODULE AuditTrail ------------------------------
(***************************************************************************)
(* The checkpoint pipeline of the verified audit trail.  Receipts are      *)
(* committed with consecutive evidence sequences and an outbox row each    *)
(* (core/app/db/queries.py:write_outcome, max_guard.py:                    *)
(* _record_control_receipt).  Every gateway process runs two loops over    *)
(* the shared database: the checkpoint worker (audit_worker.py) moves the  *)
(* head of the outbox into a checkpoint, and the signer (audit_signer.py)  *)
(* has the sb-attest sidecar sign the oldest staged checkpoint and then    *)
(* marks it and its receipts verified.                                     *)
(*                                                                         *)
(* A step is one database statement group that commits or becomes visible  *)
(* at once.  Both loops run a READ COMMITTED transaction with a statement  *)
(* that matters in its middle, so both are split there: the worker between *)
(* reading the previous checkpoint and taking the outbox rows, the signer  *)
(* around its HTTP call.  Transactions are serialised by the advisory      *)
(* locks the code takes.  Time is abstracted: a batch that is neither full *)
(* nor old enough is a "waiting" result, which changes nothing, so a batch *)
(* of any size may be staged.                                              *)
(*                                                                         *)
(* Checkpoint hashes are modelled by the checkpoint's index: equal hashes  *)
(* mean the same checkpoint.                                               *)
(***************************************************************************)
EXTENDS Integers, Sequences, FiniteSets

CONSTANTS
  Workers,        \* gateway processes that share the database
  Instances,      \* values of NAUTGATE_AUDIT_INSTANCE_ID in use
  Keys,           \* values of NAUTGATE_AUDIT_SIGNING_KEY_ID in use
  MaxReceipts,    \* max_receipts: the most receipts one checkpoint holds
  MaxAttempts,    \* max_attempts: signing attempts before "failed"
  OutageLength,   \* bound: failed attempts one checkpoint may meet in a row
  SequenceBound,  \* bound: receipts committed
  ChangeBound,    \* bound: configuration changes
  GapRowBound     \* bound: rows kept for one (expected, observed) gap

ASSUME ConstantsAssumption ==
  /\ Workers # {} /\ Instances # {} /\ Keys # {}
  /\ MaxReceipts \in Nat \ {0}
  /\ MaxAttempts \in Nat \ {0}
  /\ OutageLength \in Nat
  /\ SequenceBound \in Nat
  /\ ChangeBound \in Nat
  /\ GapRowBound \in Nat \ {0}

VARIABLES
  receipts,     \* audit_receipts, by evidence sequence: [status, checkpoint]
  outbox,       \* audit_outbox ordered by evidence_sequence
  checkpoints,  \* audit_checkpoints in insertion order
  gaps,         \* unresolved audit_gaps rows
  stager,       \* per process: the open stage_checkpoint_once transaction
  signer,       \* per process: the open sign_checkpoint_once transaction
  config,       \* per process: instance_id and signing_key_id
  sidecarKey,   \* key_name the sb-attest sidecar signs with
  attestations, \* checkpoint signatures in the sidecar's attestation table
  changes       \* configuration changes so far

db == <<receipts, outbox, checkpoints, gaps>>
environment == <<config, sidecarKey, attestations, changes>>
vars == <<receipts, outbox, checkpoints, gaps, stager, signer, config,
          sidecarKey, attestations, changes>>

ReceiptStatus == {"pending", "batched", "verified", "gap"}
CheckpointStatus == {"signing", "verified", "failed"}

\* `checkpoint' is 0 until the receipt is batched; `previous' is 0 for genesis.
Receipt == [status : ReceiptStatus, checkpoint : Nat]
Checkpoint == [instance : Instances, first : Nat, last : Nat, previous : Nat,
               key : Keys, status : CheckpointStatus, attempts : Nat]
Gap == [expected : Int, observed : Int, row : 1 .. GapRowBound]

TypeOK ==
  /\ receipts \in Seq(Receipt)
  /\ outbox \in Seq(Nat)
  /\ checkpoints \in Seq(Checkpoint)
  /\ gaps \subseteq Gap
  /\ stager \in [Workers -> [at : {"idle", "chosen"}, previous : Nat]]
  /\ signer \in [Workers -> [at : {"idle", "posted", "answered"},
                             checkpoint : Nat]]
  /\ config \in [Workers -> [instance : Instances, key : Keys]]
  /\ sidecarKey \in Keys
  /\ attestations \subseteq (Nat \X Keys)
  /\ changes \in Nat

NotStaging == [at |-> "idle", previous |-> 0]
NotSigning == [at |-> "idle", checkpoint |-> 0]

Init ==
  /\ receipts = <<>>
  /\ outbox = <<>>
  /\ checkpoints = <<>>
  /\ gaps = {}
  /\ stager = [w \in Workers |-> NotStaging]
  /\ signer = [w \in Workers |-> NotSigning]
  /\ \E i \in Instances, k \in Keys :
       /\ config = [w \in Workers |-> [instance |-> i, key |-> k]]
       /\ sidecarKey = k
  /\ attestations = {}
  /\ changes = 0

------------------------------------------------------------------------------
(* Capture: a receipt and its outbox row in one transaction.               *)

\* Mutant: the outbox row is forgotten.
CommitReceiptWithoutOutbox ==
  /\ Len(receipts) < SequenceBound
  /\ receipts' = Append(receipts, [status |-> "pending", checkpoint |-> 0])
  /\ UNCHANGED <<outbox, checkpoints, gaps, stager, signer, environment>>

CommitReceipt ==
  /\ Len(receipts) < SequenceBound
  /\ receipts' = Append(receipts, [status |-> "pending", checkpoint |-> 0])
  /\ outbox' = Append(outbox, Len(receipts) + 1)
  /\ UNCHANGED <<checkpoints, gaps, stager, signer, environment>>

------------------------------------------------------------------------------
(* The checkpoint worker.                                                  *)

\* Mutant: the previous checkpoint is looked up without its instance.
LiveOfAnyInstance(instance) ==
  {c \in DOMAIN checkpoints : checkpoints[c].status # "failed"}

\* Checkpoints the worker may chain to, and the latest of them (0 if none).
Live(instance) ==
  {c \in DOMAIN checkpoints : /\ checkpoints[c].instance = instance
                              /\ checkpoints[c].status # "failed"}

IsPrevious(c, instance) ==
  \/ /\ c \in Live(instance)
     /\ \A d \in Live(instance) : checkpoints[d].last <= checkpoints[c].last
  \/ c = 0 /\ Live(instance) = {}

ExpectedFirst(previous) ==
  IF previous = 0 THEN 1 ELSE checkpoints[previous].last + 1

\* Takes the advisory lock, finds the outbox not empty and reads the previous
\* checkpoint of its own instance.
StageChoose(w) ==
  /\ \A v \in Workers : stager[v].at = "idle"
  /\ outbox # <<>>
  /\ \E c \in 0 .. Len(checkpoints) :
       /\ IsPrevious(c, config[w].instance)
       /\ stager' = [stager EXCEPT ![w] = [at |-> "chosen", previous |-> c]]
  /\ UNCHANGED <<db, signer, environment>>

\* How many outbox rows a checkpoint takes.
BatchSize == IF Len(outbox) < MaxReceipts THEN Len(outbox) ELSE MaxReceipts

\* Positions of the batch whose sequence is not the one the chain calls for:
\* the first of them is either the observed_first mismatch or the hole
\* build_checkpoint raises EvidenceGapError for.
Deviations(previous) ==
  {i \in 1 .. BatchSize : outbox[i] # ExpectedFirst(previous) + i - 1}

Stage(w) ==
  LET previous == stager[w].previous
      new == Len(checkpoints) + 1
  IN /\ stager[w].at = "chosen"
     /\ Deviations(previous) = {}
     /\ checkpoints' = Append(checkpoints,
          [instance |-> config[w].instance, first |-> outbox[1],
           last |-> outbox[BatchSize], previous |-> previous,
           key |-> config[w].key, status |-> "signing", attempts |-> 0])
     /\ receipts' = [s \in DOMAIN receipts |->
          IF \E i \in 1 .. BatchSize : outbox[i] = s
            THEN [status |-> "batched", checkpoint |-> new]
            ELSE receipts[s]]
     /\ outbox' = SubSeq(outbox, BatchSize + 1, Len(outbox))
     /\ stager' = [stager EXCEPT ![w] = NotStaging]
     /\ UNCHANGED <<gaps, signer, environment>>

\* INSERT ... ON CONFLICT DO NOTHING never conflicts: the unique key contains
\* resolved_at, which is NULL, so every call adds a row.
GapRow(expected, observed) ==
  {g \in [expected : {expected}, observed : {observed}, row : 1 .. GapRowBound] :
     /\ g \notin gaps
     /\ \A h \in 1 .. (g.row - 1) : [g EXCEPT !.row = h] \in gaps}

\* Mutant: the observed receipt is marked too.
RecordGapThroughObserved(expected, observed) ==
  /\ gaps' = gaps \union GapRow(expected, observed)
  /\ receipts' = [s \in DOMAIN receipts |->
       IF expected <= s /\ s <= observed
         THEN [receipts[s] EXCEPT !.status = "gap"]
         ELSE receipts[s]]

RecordGap(expected, observed) ==
  /\ gaps' = gaps \union GapRow(expected, observed)
  /\ receipts' = [s \in DOMAIN receipts |->
       IF expected <= s /\ s < observed
         THEN [receipts[s] EXCEPT !.status = "gap"]
         ELSE receipts[s]]

StageGap(w) ==
  LET previous == stager[w].previous
  IN /\ stager[w].at = "chosen"
     /\ \E i \in Deviations(previous) :
          /\ \A j \in Deviations(previous) : i <= j
          /\ RecordGap(ExpectedFirst(previous) + i - 1, outbox[i])
     /\ stager' = [stager EXCEPT ![w] = NotStaging]
     /\ UNCHANGED <<outbox, checkpoints, signer, environment>>

------------------------------------------------------------------------------
(* The signer and its sidecar.                                             *)

\* Mutant: a verified checkpoint is claimed again.
SignableUnlessFailed == {c \in DOMAIN checkpoints : checkpoints[c].status # "failed"}

Signable == {c \in DOMAIN checkpoints : checkpoints[c].status = "signing"}

\* Mutant: the receipts are marked as well, with a status nothing reads.
FailMarksReceipts(c) ==
  LET attempts == checkpoints[c].attempts + 1
  IN /\ attempts <= OutageLength
     /\ checkpoints' = [checkpoints EXCEPT
          ![c].status = IF attempts >= MaxAttempts THEN "failed" ELSE "signing",
          ![c].attempts = attempts]
     /\ receipts' = [s \in DOMAIN receipts |->
          IF receipts[s].checkpoint = c /\ attempts >= MaxAttempts
            THEN [receipts[s] EXCEPT !.status = "failed"] ELSE receipts[s]]
     /\ UNCHANGED <<outbox, gaps>>

\* Mutant: the retry budget is one attempt short.
FailOneEarly(c) ==
  LET attempts == checkpoints[c].attempts + 1
  IN /\ attempts <= OutageLength
     /\ checkpoints' = [checkpoints EXCEPT
          ![c].status = IF attempts + 1 >= MaxAttempts THEN "failed" ELSE "signing",
          ![c].attempts = attempts]
     /\ UNCHANGED <<receipts, outbox, gaps>>

\* Mutant: a failed attempt puts the receipts back.
FailRequeues(c) ==
  LET attempts == checkpoints[c].attempts + 1
  IN /\ attempts <= OutageLength
     /\ checkpoints' = [checkpoints EXCEPT
          ![c].status = IF attempts >= MaxAttempts THEN "failed" ELSE "signing",
          ![c].attempts = attempts]
     /\ receipts' = [s \in DOMAIN receipts |->
          IF receipts[s].checkpoint = c
            THEN [receipts[s] EXCEPT !.status = "pending"] ELSE receipts[s]]
     /\ UNCHANGED <<outbox, gaps>>

\* _fail: one more attempt; the last one is terminal.  Receipts are untouched.
Fail(c) ==
  LET attempts == checkpoints[c].attempts + 1
  IN /\ attempts <= OutageLength
     /\ checkpoints' = [checkpoints EXCEPT
          ![c].status = IF attempts >= MaxAttempts THEN "failed" ELSE "signing",
          ![c].attempts = attempts]
     /\ UNCHANGED <<receipts, outbox, gaps>>

IsOldest(c) ==
  /\ c \in Signable
  /\ \A d \in Signable : checkpoints[c].first <= checkpoints[d].first

\* Takes the try-lock and the oldest staged checkpoint.  One under another key
\* than the configured one fails without a call; otherwise it is posted.
SignClaim(w) ==
  /\ \A v \in Workers : signer[v].at = "idle"
  /\ \E c \in DOMAIN checkpoints :
       /\ IsOldest(c)
       /\ checkpoints[c].key = config[w].key
       /\ signer' = [signer EXCEPT ![w] = [at |-> "posted", checkpoint |-> c]]
  /\ UNCHANGED <<db, stager, environment>>

SignWrongKey(w) ==
  /\ \A v \in Workers : signer[v].at = "idle"
  /\ \E c \in DOMAIN checkpoints :
       /\ IsOldest(c)
       /\ checkpoints[c].key # config[w].key
       /\ Fail(c)
  /\ UNCHANGED <<stager, signer, environment>>

\* sb-attest: refuses a checkpoint that names another key than its own, signs,
\* records the attestation and answers.
Attest(w) ==
  LET c == signer[w].checkpoint
  IN /\ signer[w].at = "posted"
     /\ checkpoints[c].key = sidecarKey
     /\ attestations' = attestations \union {<<c, sidecarKey>>}
     /\ signer' = [signer EXCEPT ![w].at = "answered"]
     /\ UNCHANGED <<db, stager, config, sidecarKey, changes>>

\* The call fails: sidecar down or refusing, timeout, a lost answer or one that
\* _validate_response rejects.
SignError(w) ==
  /\ signer[w].at \in {"posted", "answered"}
  /\ Fail(signer[w].checkpoint)
  /\ signer' = [signer EXCEPT ![w] = NotSigning]
  /\ UNCHANGED <<stager, environment>>

\* Mutant: the answer is not waited for.
SignVerifyUnanswered(w) ==
  LET c == signer[w].checkpoint
  IN /\ signer[w].at # "idle"
     /\ checkpoints' = [checkpoints EXCEPT ![c].status = "verified",
                                           ![c].attempts = @ + 1]
     /\ receipts' = [s \in DOMAIN receipts |->
          IF receipts[s].checkpoint = c
            THEN [receipts[s] EXCEPT !.status = "verified"]
            ELSE receipts[s]]
     /\ signer' = [signer EXCEPT ![w] = NotSigning]
     /\ UNCHANGED <<outbox, gaps, stager, environment>>

\* Mutant: only the checkpoint is updated.
SignVerifyCheckpointOnly(w) ==
  LET c == signer[w].checkpoint
  IN /\ signer[w].at = "answered"
     /\ checkpoints' = [checkpoints EXCEPT ![c].status = "verified",
                                           ![c].attempts = @ + 1]
     /\ signer' = [signer EXCEPT ![w] = NotSigning]
     /\ UNCHANGED <<receipts, outbox, gaps, stager, environment>>

\* The answer is valid: checkpoint and receipts become verified together.
SignVerify(w) ==
  LET c == signer[w].checkpoint
  IN /\ signer[w].at = "answered"
     /\ checkpoints' = [checkpoints EXCEPT ![c].status = "verified",
                                           ![c].attempts = @ + 1]
     /\ receipts' = [s \in DOMAIN receipts |->
          IF receipts[s].checkpoint = c
            THEN [receipts[s] EXCEPT !.status = "verified"]
            ELSE receipts[s]]
     /\ signer' = [signer EXCEPT ![w] = NotSigning]
     /\ UNCHANGED <<outbox, gaps, stager, environment>>

------------------------------------------------------------------------------
(* Crashes, configuration changes and the operator.                        *)

\* The process stops; its open transactions roll back and their locks go.
Crash(w) ==
  /\ stager[w].at # "idle" \/ signer[w].at # "idle"
  /\ stager' = [stager EXCEPT ![w] = NotStaging]
  /\ signer' = [signer EXCEPT ![w] = NotSigning]
  /\ UNCHANGED <<db, environment>>

\* A restart under another instance id or signing key.
Reconfigure(w) ==
  /\ changes < ChangeBound
  /\ changes' = changes + 1
  /\ \E i \in Instances, k \in Keys :
       /\ [instance |-> i, key |-> k] # config[w]
       /\ config' = [config EXCEPT ![w] = [instance |-> i, key |-> k]]
  /\ stager' = [stager EXCEPT ![w] = NotStaging]
  /\ signer' = [signer EXCEPT ![w] = NotSigning]
  /\ UNCHANGED <<db, sidecarKey, attestations>>

\* The sidecar restarts under another key.
RotateSidecar ==
  /\ changes < ChangeBound
  /\ changes' = changes + 1
  /\ \E k \in Keys \ {sidecarKey} : sidecarKey' = k
  /\ UNCHANGED <<db, stager, signer, config, attestations>>

\* The runbook's recovery: a failed checkpoint goes back to signing, unchanged
\* but for its attempt count, which is either cleared or left at the limit, so
\* that the next failure is terminal again.
ReturnToSigning(c) ==
  /\ checkpoints[c].status = "failed"
  /\ \E a \in {0, MaxAttempts - 1} :
       checkpoints' = [checkpoints EXCEPT ![c].status = "signing",
                                          ![c].attempts = a]
  /\ UNCHANGED <<receipts, outbox, gaps, stager, signer, environment>>

\* The runbook's gap resolution sets resolved_at.
ResolveGap(g) ==
  /\ gaps' = gaps \ {g}
  /\ UNCHANGED <<receipts, outbox, checkpoints, stager, signer, environment>>

------------------------------------------------------------------------------
Process(w) ==
  \/ StageChoose(w) \/ Stage(w) \/ StageGap(w)
  \/ SignClaim(w) \/ SignWrongKey(w) \/ Attest(w) \/ SignError(w) \/ SignVerify(w)
  \/ Crash(w) \/ Reconfigure(w)

Operator ==
  \/ RotateSidecar
  \/ \E c \in DOMAIN checkpoints : ReturnToSigning(c)
  \/ \E g \in gaps : ResolveGap(g)

Next == CommitReceipt \/ (\E w \in Workers : Process(w)) \/ Operator

Spec == Init /\ [][Next]_vars

\* Both loops tick for as long as some process runs (run_scheduler catches every
\* exception), and an iteration is not cut short by a crash or an error for ever.
\* Nothing is assumed of capture, crashes, configuration or the operator.
Fairness ==
  /\ SF_vars(\E w \in Workers : StageChoose(w))
  /\ SF_vars(\E w \in Workers : Stage(w))
  /\ SF_vars(\E w \in Workers : SignClaim(w))
  /\ SF_vars(\E w \in Workers : Attest(w))
  /\ SF_vars(\E w \in Workers : SignVerify(w))

FairSpec == Spec /\ Fairness

------------------------------------------------------------------------------
(* Safety.                                                                 *)

\* The last sequence that belongs to a checkpoint.
Staged == IF checkpoints = <<>> THEN 0 ELSE checkpoints[Len(checkpoints)].last

\* The outbox is exactly the receipts behind the last checkpoint, in order,
\* whatever the order in which two workers, a crash and the captures interleave:
\* stage_checkpoint_once neither drops an outbox row nor takes one twice.
OutboxIsUnstagedTail ==
  /\ Staged + Len(outbox) = Len(receipts)
  /\ \A i \in DOMAIN outbox : outbox[i] = Staged + i

\* Checkpoints form one chain: each starts right after the one whose hash it
\* carries, and that is the one staged just before it, for the same instance,
\* also when the previous one was read before another process failed or
\* verified it, or under another configuration.
ChainUnbroken ==
  \A c \in DOMAIN checkpoints :
    /\ checkpoints[c].previous = c - 1
    /\ checkpoints[c].first = ExpectedFirst(c - 1)
    /\ checkpoints[c].first <= checkpoints[c].last
    /\ checkpoints[c].instance = checkpoints[1].instance

\* No receipt is stranded: it waits in the outbox as pending, or it names the
\* checkpoint whose range holds its sequence, so its inclusion proof is about
\* the tree that checkpoint signs.
EveryReceiptHasAPath ==
  \A s \in DOMAIN receipts :
    \/ /\ receipts[s] = [status |-> "pending", checkpoint |-> 0]
       /\ \E i \in DOMAIN outbox : outbox[i] = s
    \/ /\ receipts[s].checkpoint \in DOMAIN checkpoints
       /\ receipts[s].status # "pending"
       /\ checkpoints[receipts[s].checkpoint].first <= s
       /\ s <= checkpoints[receipts[s].checkpoint].last

\* A receipt says "verified" only if the checkpoint it was hashed into is
\* verified and the sidecar attested that checkpoint under the key it names:
\* what export_evidence_bundle hands out can be verified offline.
VerifiedMeansSigned ==
  /\ \A c \in DOMAIN checkpoints :
       checkpoints[c].status = "verified" =>
         <<c, checkpoints[c].key>> \in attestations
  /\ \A s \in DOMAIN receipts :
       receipts[s].status = "verified" =>
         /\ receipts[s].checkpoint \in DOMAIN checkpoints
         /\ checkpoints[receipts[s].checkpoint].status = "verified"

\* The contract: what the tables say is a log that is cut into consecutive
\* blocks which are sealed once and for all.
Log == INSTANCE SealedLog WITH
  length <- Len(receipts),
  blocks <- [c \in DOMAIN checkpoints |->
               [first |-> checkpoints[c].first, last |-> checkpoints[c].last]],
  sealed <- {c \in DOMAIN checkpoints : checkpoints[c].status = "verified"}

ImplementsSealedLog == Log!Spec

------------------------------------------------------------------------------
(* An outage shorter than the retry budget (OutageLength < MaxAttempts).   *)

\* No gap is declared and no receipt loses its place while the signer merely
\* retries: the chain never looks broken to the worker.
NoFalseGap ==
  /\ gaps = {}
  /\ \A s \in DOMAIN receipts : receipts[s].status # "gap"

\* The lifecycle pending, batched, verified is walked forward only.
Phase(status) ==
  CASE status = "pending" -> 1
    [] status = "batched" -> 2
    [] status = "verified" -> 3
    [] OTHER -> 0

LifecycleForward ==
  [][\A s \in DOMAIN receipts :
       Phase(receipts[s].status) <= Phase(receipts'[s].status)]_vars

\* Every committed receipt is verified in the end, across crashes of the
\* processes and sidecar errors that the retry budget covers.
EventuallyVerified ==
  \A s \in 1 .. SequenceBound :
    s \in DOMAIN receipts ~>
      (s \in DOMAIN receipts /\ receipts[s].status = "verified")

------------------------------------------------------------------------------
(* What the runbook says of gaps.                                          *)

\* docs/runbooks/verified-audit-trail.md: a gap "means the next committed
\* sequence did not match the expected sequence", so a gap that is declared
\* names at least one sequence that was never committed.
GapMeansMissing ==
  \A g \in gaps :
    \E s \in g.expected .. (g.observed - 1) : s \notin DOMAIN receipts
==============================================================================
