-------------------------- MODULE AuditTrailProofs ---------------------------
(***************************************************************************)
(* TLAPS proofs about AuditTrail, for any number of processes, instance    *)
(* ids and keys, any batch size and any retry budget: the checkpoint chain *)
(* is unbroken, the outbox is what it has not reached, every receipt has   *)
(* its place, verified means signed, and the whole implements SealedLog.   *)
(***************************************************************************)
EXTENDS AuditTrail, TLAPS

\* Ranges of checkpoints follow one another.
RangesOrdered ==
  \A c, d \in DOMAIN checkpoints : c < d => checkpoints[c].last < checkpoints[d].first

\* The open stage transaction is the only one, and what it read as the previous
\* checkpoint is one of its own instance, though perhaps no longer a live one.
StagerHolds ==
  /\ \A v, w \in Workers :
       stager[v].at = "chosen" /\ stager[w].at = "chosen" => v = w
  /\ \A w \in Workers :
       stager[w].at = "chosen" =>
         /\ outbox # <<>>
         /\ stager[w].previous \in 0 .. Len(checkpoints)
         /\ stager[w].previous # 0 =>
              checkpoints[stager[w].previous].instance = config[w].instance

\* The open sign transaction is the only one and its checkpoint stays staged;
\* once it is answered, the sidecar has signed it under its own key.
SignerHolds ==
  /\ \A v, w \in Workers :
       signer[v].at # "idle" /\ signer[w].at # "idle" => v = w
  /\ \A w \in Workers :
       signer[w].at # "idle" =>
         /\ signer[w].checkpoint \in DOMAIN checkpoints
         /\ checkpoints[signer[w].checkpoint].status = "signing"
  /\ \A w \in Workers :
       signer[w].at = "answered" =>
         <<signer[w].checkpoint, checkpoints[signer[w].checkpoint].key>> \in attestations

IInv ==
  /\ TypeOK
  /\ RangesOrdered
  /\ StagerHolds
  /\ SignerHolds
  /\ OutboxIsUnstagedTail
  /\ ChainUnbroken
  /\ EveryReceiptHasAPath
  /\ VerifiedMeansSigned

------------------------------------------------------------------------------
(* Steps that only relabel checkpoints.                                    *)

\* Checkpoints keep everything but their status and their attempt count.
SameChain ==
  /\ checkpoints' \in Seq(Checkpoint)
  /\ Len(checkpoints') = Len(checkpoints)
  /\ DOMAIN checkpoints' = DOMAIN checkpoints
  /\ \A c \in DOMAIN checkpoints :
       /\ checkpoints'[c].instance = checkpoints[c].instance
       /\ checkpoints'[c].first = checkpoints[c].first
       /\ checkpoints'[c].last = checkpoints[c].last
       /\ checkpoints'[c].previous = checkpoints[c].previous
       /\ checkpoints'[c].key = checkpoints[c].key

\* And none of them becomes verified or stops being so.
Quiet ==
  /\ SameChain
  /\ UNCHANGED <<receipts, outbox>>
  /\ attestations \subseteq attestations'
  /\ \A c \in DOMAIN checkpoints :
       checkpoints'[c].status = "verified" <=> checkpoints[c].status = "verified"

\* Replacing one element of a sequence keeps its length and the others.
LEMMA ExceptKeeps ==
  ASSUME NEW S, NEW s \in Seq(S), NEW i \in DOMAIN s, NEW e \in S
  PROVE  /\ [s EXCEPT ![i] = e] \in Seq(S)
         /\ Len([s EXCEPT ![i] = e]) = Len(s)
         /\ DOMAIN [s EXCEPT ![i] = e] = DOMAIN s
         /\ [s EXCEPT ![i] = e][i] = e
         /\ \A j \in DOMAIN s : j # i => [s EXCEPT ![i] = e][j] = s[j]
OBVIOUS

\* Relabelling one checkpoint keeps the others.
LEMMA RelabelKeeps ==
  ASSUME TypeOK, NEW c \in DOMAIN checkpoints, NEW s \in CheckpointStatus, NEW a \in Nat,
         checkpoints' = [checkpoints EXCEPT ![c].status = s, ![c].attempts = a]
  PROVE  /\ SameChain
         /\ checkpoints'[c].status = s
         /\ \A d \in DOMAIN checkpoints : d # c => checkpoints'[d] = checkpoints[d]
<1>1. checkpoints \in Seq(Checkpoint)
  BY DEF TypeOK
<1>2. checkpoints[c] \in Checkpoint
  BY <1>1
<1> DEFINE new == [checkpoints[c] EXCEPT !.status = s, !.attempts = a]
<1>3. new \in Checkpoint
  BY <1>2 DEF Checkpoint
<1>4. /\ new.instance = checkpoints[c].instance
      /\ new.first = checkpoints[c].first
      /\ new.last = checkpoints[c].last
      /\ new.previous = checkpoints[c].previous
      /\ new.key = checkpoints[c].key
      /\ new.status = s
  BY <1>2 DEF Checkpoint
<1>5. checkpoints' = [checkpoints EXCEPT ![c] = new]
  OBVIOUS
<1> HIDE DEF new
<1>6. /\ [checkpoints EXCEPT ![c] = new] \in Seq(Checkpoint)
      /\ Len([checkpoints EXCEPT ![c] = new]) = Len(checkpoints)
      /\ DOMAIN [checkpoints EXCEPT ![c] = new] = DOMAIN checkpoints
      /\ [checkpoints EXCEPT ![c] = new][c] = new
      /\ \A d \in DOMAIN checkpoints :
           d # c => [checkpoints EXCEPT ![c] = new][d] = checkpoints[d]
  BY <1>1, <1>3, ExceptKeeps
<1>7. /\ checkpoints' \in Seq(Checkpoint)
      /\ Len(checkpoints') = Len(checkpoints)
      /\ DOMAIN checkpoints' = DOMAIN checkpoints
      /\ checkpoints'[c] = new
      /\ \A d \in DOMAIN checkpoints : d # c => checkpoints'[d] = checkpoints[d]
  BY <1>5, <1>6
<1> QED
  BY <1>4, <1>7 DEF SameChain

\* A failed attempt leaves the checkpoint unverified.
LEMMA FailForms ==
  ASSUME TypeOK, NEW c \in DOMAIN checkpoints, Fail(c)
  PROVE  /\ SameChain
         /\ checkpoints'[c].status # "verified"
         /\ \A d \in DOMAIN checkpoints : d # c => checkpoints'[d] = checkpoints[d]
         /\ UNCHANGED <<receipts, outbox, gaps>>
<1> DEFINE attempts == checkpoints[c].attempts + 1
           status == IF attempts >= MaxAttempts THEN "failed" ELSE "signing"
<1>1. checkpoints[c] \in Checkpoint
  BY DEF TypeOK
<1>2. attempts \in Nat /\ status \in CheckpointStatus /\ status # "verified"
  BY <1>1 DEF Checkpoint, CheckpointStatus
<1>3. checkpoints' = [checkpoints EXCEPT ![c].status = status, ![c].attempts = attempts]
  BY DEF Fail
<1> HIDE DEF attempts, status
<1>4. SameChain /\ checkpoints'[c].status = status
      /\ \A d \in DOMAIN checkpoints : d # c => checkpoints'[d] = checkpoints[d]
  BY <1>2, <1>3, RelabelKeeps
<1>5. UNCHANGED <<receipts, outbox, gaps>>
  BY DEF Fail
<1> QED
  BY <1>2, <1>4, <1>5
\* Returning a failed checkpoint to signing touches no other.
LEMMA ReturnKeeps ==
  ASSUME TypeOK, NEW c \in DOMAIN checkpoints, ReturnToSigning(c)
  PROVE  /\ SameChain
         /\ checkpoints[c].status = "failed" /\ checkpoints'[c].status = "signing"
         /\ \A d \in DOMAIN checkpoints : d # c => checkpoints'[d] = checkpoints[d]
         /\ UNCHANGED <<receipts, outbox, attestations>>
<1>1. PICK a \in {0, MaxAttempts - 1} :
        checkpoints' = [checkpoints EXCEPT ![c].status = "signing", ![c].attempts = a]
  BY DEF ReturnToSigning
<1>2. a \in Nat /\ "signing" \in CheckpointStatus
  BY ConstantsAssumption DEF CheckpointStatus
<1>3. /\ SameChain
      /\ checkpoints'[c].status = "signing"
      /\ \A d \in DOMAIN checkpoints : d # c => checkpoints'[d] = checkpoints[d]
  BY <1>1, <1>2, RelabelKeeps
<1>4. checkpoints[c].status = "failed" /\ UNCHANGED <<receipts, outbox, attestations>>
  BY DEF ReturnToSigning, environment
<1> QED
  BY <1>3, <1>4

\* A process step that changes no receipt, no outbox row and no verified
\* checkpoint, and an operator's, is quiet; so is no step at all.
LEMMA QuietSteps ==
  ASSUME TypeOK, SignerHolds, [Next]_vars,
         ~CommitReceipt,
         \A w \in Workers : ~Stage(w) /\ ~StageGap(w) /\ ~SignVerify(w)
  PROVE  Quiet
<1>same. ASSUME UNCHANGED <<receipts, outbox, checkpoints>>, attestations \subseteq attestations'
         PROVE  Quiet
  BY <1>same DEF Quiet, SameChain, TypeOK
<1>fail. ASSUME NEW c \in DOMAIN checkpoints, checkpoints[c].status = "signing", Fail(c),
                attestations' = attestations
         PROVE  Quiet
  <2>1. /\ SameChain
        /\ checkpoints'[c].status # "verified"
        /\ \A d \in DOMAIN checkpoints : d # c => checkpoints'[d] = checkpoints[d]
        /\ UNCHANGED <<receipts, outbox, gaps>>
    BY <1>fail, FailForms
  <2> QED
    BY <2>1, <1>fail DEF Quiet
<1>1. ASSUME NEW w \in Workers, StageChoose(w) \/ SignClaim(w) \/ Attest(w)
                                \/ Crash(w) \/ Reconfigure(w)
      PROVE  Quiet
  BY <1>1, <1>same DEF StageChoose, SignClaim, Attest, Crash, Reconfigure, db, environment
<1>2. ASSUME NEW w \in Workers, SignWrongKey(w) PROVE Quiet
  <2>1. PICK c \in DOMAIN checkpoints : IsOldest(c) /\ Fail(c)
    BY <1>2 DEF SignWrongKey
  <2> QED
    BY <1>2, <2>1, <1>fail DEF SignWrongKey, IsOldest, Signable, environment
<1>3. ASSUME NEW w \in Workers, SignError(w) PROVE Quiet
  <2> DEFINE c == signer[w].checkpoint
  <2>1. c \in DOMAIN checkpoints /\ checkpoints[c].status = "signing"
    BY <1>3 DEF SignError, SignerHolds
  <2>2. Fail(c) /\ attestations' = attestations
    BY <1>3 DEF SignError, environment
  <2> HIDE DEF c
  <2> QED
    BY <2>1, <2>2, <1>fail
<1>4. CASE RotateSidecar \/ \E g \in gaps : ResolveGap(g)
  BY <1>4, <1>same DEF RotateSidecar, ResolveGap, db, environment
<1>5. ASSUME NEW c \in DOMAIN checkpoints, ReturnToSigning(c) PROVE Quiet
  BY <1>5, ReturnKeeps DEF Quiet
<1>6. CASE UNCHANGED vars
  BY <1>6, <1>same DEF vars
<1> QED
  BY <1>1, <1>2, <1>3, <1>4, <1>5, <1>6 DEF Next, Process, Operator

------------------------------------------------------------------------------
(* The steps that are not quiet.                                           *)

\* A function on an initial range of numbers is a sequence.
LEMMA FunctionIsSequence ==
  ASSUME NEW S, NEW n \in Nat, NEW f \in [1 .. n -> S]
  PROVE  f \in Seq(S) /\ Len(f) = n /\ DOMAIN f = 1 .. n
OBVIOUS

\* What the receipts become keeps their number.
LEMMA ReceiptsMapped ==
  ASSUME TypeOK, NEW f, f = [s \in DOMAIN receipts |-> f[s]],
         \A s \in DOMAIN receipts : f[s] \in Receipt
  PROVE  f \in Seq(Receipt) /\ Len(f) = Len(receipts) /\ DOMAIN f = DOMAIN receipts
<1>1. DOMAIN receipts = 1 .. Len(receipts) /\ Len(receipts) \in Nat
  BY DEF TypeOK
<1>2. f \in [1 .. Len(receipts) -> Receipt]
  BY <1>1
<1> QED
  BY <1>1, <1>2, FunctionIsSequence

\* Appending adds one element at the end.
LEMMA AppendForms ==
  ASSUME NEW S, NEW s \in Seq(S), NEW e \in S
  PROVE  /\ Append(s, e) \in Seq(S)
         /\ Len(Append(s, e)) = Len(s) + 1
         /\ DOMAIN Append(s, e) = DOMAIN s \union {Len(s) + 1}
         /\ Append(s, e)[Len(s) + 1] = e
         /\ \A i \in DOMAIN s : Append(s, e)[i] = s[i]
OBVIOUS

\* A capture appends a pending receipt and its outbox row.
LEMMA CommitForms ==
  ASSUME TypeOK, CommitReceipt
  PROVE  /\ receipts' \in Seq(Receipt) /\ Len(receipts') = Len(receipts) + 1
         /\ DOMAIN receipts' = DOMAIN receipts \union {Len(receipts) + 1}
         /\ receipts'[Len(receipts) + 1] = [status |-> "pending", checkpoint |-> 0]
         /\ \A s \in DOMAIN receipts : receipts'[s] = receipts[s]
         /\ outbox' \in Seq(Nat) /\ Len(outbox') = Len(outbox) + 1
         /\ DOMAIN outbox' = DOMAIN outbox \union {Len(outbox) + 1}
         /\ outbox'[Len(outbox) + 1] = Len(receipts) + 1
         /\ \A i \in DOMAIN outbox : outbox'[i] = outbox[i]
         /\ UNCHANGED <<checkpoints, gaps, stager, signer, environment>>
<1> DEFINE r == [status |-> "pending", checkpoint |-> 0]
<1>1. r \in Receipt
  BY DEF Receipt, ReceiptStatus
<1>2. receipts' = Append(receipts, r) /\ outbox' = Append(outbox, Len(receipts) + 1)
      /\ UNCHANGED <<checkpoints, gaps, stager, signer, environment>>
  BY DEF CommitReceipt
<1>3. receipts \in Seq(Receipt) /\ outbox \in Seq(Nat) /\ Len(receipts) + 1 \in Nat
  BY DEF TypeOK
<1> HIDE DEF r
<1>4. /\ receipts' \in Seq(Receipt) /\ Len(receipts') = Len(receipts) + 1
      /\ DOMAIN receipts' = DOMAIN receipts \union {Len(receipts) + 1}
      /\ receipts'[Len(receipts) + 1] = r
      /\ \A s \in DOMAIN receipts : receipts'[s] = receipts[s]
  BY <1>1, <1>2, <1>3, AppendForms
<1>5. /\ outbox' \in Seq(Nat) /\ Len(outbox') = Len(outbox) + 1
      /\ DOMAIN outbox' = DOMAIN outbox \union {Len(outbox) + 1}
      /\ outbox'[Len(outbox) + 1] = Len(receipts) + 1
      /\ \A i \in DOMAIN outbox : outbox'[i] = outbox[i]
  BY <1>2, <1>3, AppendForms
<1> QED
  BY <1>2, <1>4, <1>5 DEF r

\* A verified answer relabels the posted checkpoint, which the sidecar signed,
\* and all of its receipts.
LEMMA VerifyForms ==
  ASSUME TypeOK, SignerHolds, NEW w \in Workers, SignVerify(w)
  PROVE  LET c == signer[w].checkpoint
         IN /\ c \in DOMAIN checkpoints
            /\ <<c, checkpoints[c].key>> \in attestations
            /\ SameChain
            /\ checkpoints[c].status = "signing" /\ checkpoints'[c].status = "verified"
            /\ \A d \in DOMAIN checkpoints : d # c => checkpoints'[d] = checkpoints[d]
            /\ receipts' \in Seq(Receipt) /\ Len(receipts') = Len(receipts)
            /\ DOMAIN receipts' = DOMAIN receipts
            /\ \A s \in DOMAIN receipts :
                 /\ receipts'[s].checkpoint = receipts[s].checkpoint
                 /\ receipts[s].checkpoint = c => receipts'[s].status = "verified"
                 /\ receipts[s].checkpoint # c => receipts'[s] = receipts[s]
            /\ UNCHANGED <<outbox, gaps, stager, environment>>
<1> DEFINE c == signer[w].checkpoint
           a == checkpoints[c].attempts + 1
           r(s) == IF receipts[s].checkpoint = c
                     THEN [receipts[s] EXCEPT !.status = "verified"] ELSE receipts[s]
<1>1. c \in DOMAIN checkpoints /\ checkpoints[c].status = "signing"
      /\ <<c, checkpoints[c].key>> \in attestations
  BY DEF SignVerify, SignerHolds
<1>2. checkpoints[c] \in Checkpoint
  BY <1>1 DEF TypeOK
<1>3. a \in Nat /\ "verified" \in CheckpointStatus
  BY <1>2 DEF Checkpoint, CheckpointStatus
<1>4. checkpoints' = [checkpoints EXCEPT ![c].status = "verified", ![c].attempts = a]
  BY <1>2 DEF SignVerify
<1>5. receipts' = [s \in DOMAIN receipts |-> r(s)]
  BY DEF SignVerify
<1>6. UNCHANGED <<outbox, gaps, stager, environment>>
  BY DEF SignVerify
<1>7. \A s \in DOMAIN receipts :
        /\ r(s) \in Receipt
        /\ r(s).checkpoint = receipts[s].checkpoint
        /\ receipts[s].checkpoint = c => r(s).status = "verified"
        /\ receipts[s].checkpoint # c => r(s) = receipts[s]
  <2> SUFFICES ASSUME NEW s \in DOMAIN receipts
               PROVE  /\ r(s) \in Receipt
                      /\ r(s).checkpoint = receipts[s].checkpoint
                      /\ receipts[s].checkpoint = c => r(s).status = "verified"
                      /\ receipts[s].checkpoint # c => r(s) = receipts[s]
    OBVIOUS
  <2>1. receipts[s] \in Receipt
    BY DEF TypeOK
  <2> QED
    BY <2>1 DEF Receipt, ReceiptStatus
<1> HIDE DEF a, r
<1>8. SameChain /\ checkpoints'[c].status = "verified"
      /\ \A d \in DOMAIN checkpoints : d # c => checkpoints'[d] = checkpoints[d]
  BY <1>1, <1>3, <1>4, RelabelKeeps
<1>9. receipts' \in Seq(Receipt) /\ Len(receipts') = Len(receipts)
      /\ DOMAIN receipts' = DOMAIN receipts
  BY <1>5, <1>7, ReceiptsMapped
<1> QED
  BY <1>1, <1>5, <1>6, <1>7, <1>8, <1>9
\* The last staged sequence.
LEMMA StagedForms ==
  ASSUME TypeOK
  PROVE  /\ Staged \in Nat
         /\ Len(checkpoints) = 0 => Staged = 0
         /\ Len(checkpoints) # 0 =>
              Len(checkpoints) \in DOMAIN checkpoints
              /\ Staged = checkpoints[Len(checkpoints)].last
<1>1. checkpoints \in Seq(Checkpoint)
  BY DEF TypeOK
<1>2. CASE Len(checkpoints) = 0
  BY <1>1, <1>2 DEF Staged
<1>3. CASE Len(checkpoints) # 0
  <2>1. Len(checkpoints) \in DOMAIN checkpoints /\ checkpoints # <<>>
    BY <1>1, <1>3
  <2>2. checkpoints[Len(checkpoints)] \in Checkpoint
    BY <1>1, <2>1
  <2> QED
    BY <1>3, <2>1, <2>2 DEF Staged, Checkpoint
<1> QED
  BY <1>2, <1>3

\* No range ends behind the last one.
LEMMA LastAtMostStaged ==
  ASSUME TypeOK, RangesOrdered, ChainUnbroken
  PROVE  \A c \in DOMAIN checkpoints : checkpoints[c].last <= Staged
<1> SUFFICES ASSUME NEW c \in DOMAIN checkpoints PROVE checkpoints[c].last <= Staged
  OBVIOUS
<1> DEFINE n == Len(checkpoints)
<1>1. n \in DOMAIN checkpoints /\ c <= n /\ c \in Nat /\ n \in Nat
  BY DEF TypeOK
<1>2. Staged = checkpoints[n].last
  BY <1>1, StagedForms
<1>3. checkpoints[c] \in Checkpoint /\ checkpoints[n] \in Checkpoint
  BY <1>1 DEF TypeOK
<1>4. checkpoints[c].last \in Nat /\ checkpoints[n].first \in Nat /\ checkpoints[n].last \in Nat
  BY <1>3 DEF Checkpoint
<1> HIDE DEF n
<1>5. CASE c < n
  <2>1. checkpoints[c].last < checkpoints[n].first
    BY <1>1, <1>5 DEF RangesOrdered
  <2>2. checkpoints[n].first <= checkpoints[n].last
    BY <1>1 DEF ChainUnbroken
  <2> QED
    BY <1>2, <1>4, <2>1, <2>2
<1>6. CASE c = n
  BY <1>2, <1>4, <1>6
<1> QED
  BY <1>1, <1>5, <1>6

\* The batch the worker looks at is the whole outbox or a full batch of it.
LEMMA BatchForms ==
  ASSUME TypeOK, outbox # <<>>
  PROVE  BatchSize \in 1 .. Len(outbox) /\ 1 \in DOMAIN outbox /\ DOMAIN outbox = 1 .. Len(outbox)
<1>1. Len(outbox) \in Nat \ {0} /\ DOMAIN outbox = 1 .. Len(outbox)
  BY DEF TypeOK
<1> QED
  BY <1>1, ConstantsAssumption DEF BatchSize

\* What the chain calls for after the previous checkpoint.
LEMMA ExpectedForms ==
  ASSUME TypeOK, NEW previous \in 0 .. Len(checkpoints)
  PROVE  /\ ExpectedFirst(previous) \in Nat
         /\ previous = Len(checkpoints) => ExpectedFirst(previous) = Staged + 1
<1>1. CASE previous = 0
  BY <1>1, StagedForms DEF ExpectedFirst
<1>2. CASE previous # 0
  <2>1. previous \in DOMAIN checkpoints
    BY <1>2 DEF TypeOK
  <2>2. checkpoints[previous] \in Checkpoint
    BY <2>1 DEF TypeOK
  <2>3. checkpoints[previous].last \in Nat
    BY <2>2 DEF Checkpoint
  <2> QED
    BY <1>2, <2>3, StagedForms DEF ExpectedFirst
<1> QED
  BY <1>1, <1>2

\* A checkpoint is staged only right behind the last one, though the worker may
\* have read its previous checkpoint long before: any other does not fit the
\* outbox.
LEMMA ChainsToLast ==
  ASSUME TypeOK, RangesOrdered, StagerHolds, OutboxIsUnstagedTail, ChainUnbroken,
         NEW w \in Workers, stager[w].at = "chosen", Deviations(stager[w].previous) = {}
  PROVE  stager[w].previous = Len(checkpoints)
<1> DEFINE previous == stager[w].previous
           n == Len(checkpoints)
<1>1. outbox # <<>> /\ previous \in 0 .. n
  BY DEF StagerHolds
<1>2. outbox[1] = Staged + 1
  BY <1>1, BatchForms DEF OutboxIsUnstagedTail
<1>3. outbox[1] = ExpectedFirst(previous) + 1 - 1
  BY <1>1, BatchForms DEF Deviations
<1>4. ExpectedFirst(previous) = Staged + 1
  BY <1>1, <1>2, <1>3, ExpectedForms, StagedForms
<1>5. SUFFICES ASSUME previous # n PROVE FALSE
  OBVIOUS
<1>6. n \in DOMAIN checkpoints /\ checkpoints \in Seq(Checkpoint) /\ previous < n
  BY <1>1, <1>5 DEF TypeOK
<1>7. checkpoints[n] \in Checkpoint
  BY <1>6
<1>8. checkpoints[n].first \in Nat /\ checkpoints[n].last \in Nat
      /\ checkpoints[n].first <= checkpoints[n].last /\ Staged = checkpoints[n].last
  BY <1>5, <1>6, <1>7, StagedForms DEF Checkpoint, ChainUnbroken
<1>9. CASE previous = 0
  <2>1. Staged = 0
    BY <1>4, <1>9, StagedForms DEF ExpectedFirst
  <2>2. checkpoints[n].first = ExpectedFirst(n - 1)
    BY <1>6 DEF ChainUnbroken
  <2>3. n - 1 \in 0 .. Len(checkpoints)
    BY <1>6
  <2>4. checkpoints[n].first >= 1
    <3>1. CASE n - 1 = 0
      BY <2>2, <3>1 DEF ExpectedFirst
    <3>2. CASE n - 1 # 0
      <4>1. n - 1 \in DOMAIN checkpoints
        <5>1. n \in Nat /\ DOMAIN checkpoints = 1 .. n
          BY <1>6
        <5> HIDE DEF n
        <5> QED
          BY <1>6, <3>2, <5>1
      <4>2. checkpoints[n - 1] \in Checkpoint
        BY <1>6, <4>1
      <4>3. checkpoints[n - 1].last \in Nat
        BY <4>2 DEF Checkpoint
      <4> QED
        BY <2>2, <3>2, <4>3 DEF ExpectedFirst
    <3> QED
      BY <3>1, <3>2
  <2> QED
    BY <1>8, <2>1, <2>4
<1>10. CASE previous # 0
  <2>1. previous \in DOMAIN checkpoints
    BY <1>1, <1>10 DEF TypeOK
  <2>2. checkpoints[previous] \in Checkpoint
    BY <1>6, <2>1
  <2>3. checkpoints[previous].last \in Nat
    BY <2>2 DEF Checkpoint
  <2>4. checkpoints[previous].last < checkpoints[n].first
    BY <1>6, <2>1 DEF RangesOrdered
  <2>5. checkpoints[previous].last = Staged
    BY <1>4, <1>10, <2>3, StagedForms DEF ExpectedFirst
  <2> QED
    BY <1>8, <2>3, <2>4, <2>5
<1> QED
  BY <1>9, <1>10

\* Staging moves the head of the outbox into a new last checkpoint.
LEMMA StageForms ==
  ASSUME TypeOK, RangesOrdered, StagerHolds, OutboxIsUnstagedTail, ChainUnbroken,
         NEW w \in Workers, Stage(w)
  PROVE  LET n == Len(checkpoints) + 1
             k == BatchSize
         IN /\ k \in 1 .. Len(outbox)
            /\ checkpoints' \in Seq(Checkpoint) /\ Len(checkpoints') = n
            /\ DOMAIN checkpoints' = DOMAIN checkpoints \union {n}
            /\ \A c \in DOMAIN checkpoints : checkpoints'[c] = checkpoints[c]
            /\ checkpoints'[n].instance = config[w].instance
            /\ checkpoints'[n].first = Staged + 1
            /\ checkpoints'[n].last = Staged + k
            /\ checkpoints'[n].previous = n - 1
            /\ checkpoints'[n].status = "signing"
            /\ stager[w].previous = n - 1
            /\ receipts' = [s \in DOMAIN receipts |->
                 IF \E i \in 1 .. k : outbox[i] = s
                   THEN [status |-> "batched", checkpoint |-> n] ELSE receipts[s]]
            /\ outbox' = SubSeq(outbox, k + 1, Len(outbox))
            /\ stager' = [stager EXCEPT ![w] = NotStaging]
            /\ UNCHANGED <<gaps, signer, environment>>
<1> DEFINE n == Len(checkpoints) + 1
           new == [instance |-> config[w].instance, first |-> outbox[1],
                   last |-> outbox[BatchSize], previous |-> stager[w].previous,
                   key |-> config[w].key, status |-> "signing", attempts |-> 0]
<1>1. stager[w].at = "chosen" /\ Deviations(stager[w].previous) = {}
  BY DEF Stage
<1>2. stager[w].previous = Len(checkpoints)
  BY <1>1, ChainsToLast
<1>3. outbox # <<>>
  BY <1>1 DEF StagerHolds
<1>4. BatchSize \in 1 .. Len(outbox) /\ 1 \in DOMAIN outbox /\ BatchSize \in DOMAIN outbox
  BY <1>3, BatchForms
<1>5. outbox[1] = Staged + 1 /\ outbox[BatchSize] = Staged + BatchSize
  BY <1>4 DEF OutboxIsUnstagedTail
<1>6. outbox[1] \in Nat /\ outbox[BatchSize] \in Nat /\ Len(checkpoints) \in Nat
      /\ checkpoints \in Seq(Checkpoint) /\ outbox \in Seq(Nat)
  BY <1>4 DEF TypeOK
<1>7. config[w] \in [instance : Instances, key : Keys]
  BY DEF TypeOK
<1>8. new \in Checkpoint
  BY <1>2, <1>6, <1>7 DEF Checkpoint, CheckpointStatus
<1>9. /\ new.instance = config[w].instance
      /\ new.first = Staged + 1
      /\ new.last = Staged + BatchSize
      /\ new.previous = n - 1
      /\ new.status = "signing"
  BY <1>2, <1>5, <1>6
<1>10. /\ checkpoints' = Append(checkpoints, new)
       /\ receipts' = [s \in DOMAIN receipts |->
            IF \E i \in 1 .. BatchSize : outbox[i] = s
              THEN [status |-> "batched", checkpoint |-> n] ELSE receipts[s]]
       /\ outbox' = SubSeq(outbox, BatchSize + 1, Len(outbox))
       /\ stager' = [stager EXCEPT ![w] = NotStaging]
       /\ UNCHANGED <<gaps, signer, environment>>
  BY DEF Stage
<1> HIDE DEF new
<1>11. /\ checkpoints' \in Seq(Checkpoint) /\ Len(checkpoints') = n
       /\ DOMAIN checkpoints' = DOMAIN checkpoints \union {n}
       /\ checkpoints'[n] = new
       /\ \A c \in DOMAIN checkpoints : checkpoints'[c] = checkpoints[c]
  <2>1. /\ Append(checkpoints, new) \in Seq(Checkpoint)
        /\ Len(Append(checkpoints, new)) = n
        /\ DOMAIN Append(checkpoints, new) = DOMAIN checkpoints \union {n}
        /\ Append(checkpoints, new)[n] = new
        /\ \A c \in DOMAIN checkpoints : Append(checkpoints, new)[c] = checkpoints[c]
    BY <1>6, <1>8, AppendForms
  <2>2. checkpoints' = Append(checkpoints, new)
    BY <1>10
  <2> QED
    BY <2>1, <2>2
<1> QED
  BY <1>2, <1>4, <1>6, <1>9, <1>10, <1>11

\* The batch leaves the outbox, the receipts it holds name the new checkpoint,
\* and the last staged sequence moves on by as many.
LEMMA StageMoves ==
  ASSUME TypeOK, RangesOrdered, StagerHolds, OutboxIsUnstagedTail, ChainUnbroken,
         NEW w \in Workers, Stage(w)
  PROVE  /\ Staged' = Staged + BatchSize
         /\ receipts' \in Seq(Receipt) /\ Len(receipts') = Len(receipts)
         /\ DOMAIN receipts' = DOMAIN receipts
         /\ \A s \in DOMAIN receipts :
              IF Staged < s /\ s <= Staged + BatchSize
                THEN receipts'[s] = [status |-> "batched", checkpoint |-> Len(checkpoints) + 1]
                ELSE receipts'[s] = receipts[s]
         /\ outbox' \in Seq(Nat) /\ Len(outbox') = Len(outbox) - BatchSize
         /\ \A i \in 1 .. (Len(outbox) - BatchSize) : outbox'[i] = outbox[i + BatchSize]
<1> DEFINE k == BatchSize
           n == Len(checkpoints) + 1
           f == [s \in DOMAIN receipts |->
                  IF \E i \in 1 .. k : outbox[i] = s
                    THEN [status |-> "batched", checkpoint |-> n] ELSE receipts[s]]
<1>t. receipts \in Seq(Receipt) /\ outbox \in Seq(Nat) /\ checkpoints \in Seq(Checkpoint)
  BY DEF TypeOK
<1>1. /\ k \in 1 .. Len(outbox)
      /\ checkpoints' \in Seq(Checkpoint) /\ Len(checkpoints') = n
      /\ checkpoints'[n].last = Staged + k
      /\ receipts' = f
      /\ outbox' = SubSeq(outbox, k + 1, Len(outbox))
  BY StageForms
<1>2. n \in Nat \ {0} /\ k \in Nat \ {0} /\ Len(outbox) \in Nat /\ Staged \in Nat
  BY <1>1, <1>t, StagedForms
<1>3. Staged' = Staged + k
  <2>1. checkpoints' # <<>>
    BY <1>1, <1>2
  <2> QED
    BY <1>1, <2>1 DEF Staged
<1>4. \A s \in DOMAIN receipts : f[s] \in Receipt
  <2> HIDE DEF k, n
  <2>1. [status |-> "batched", checkpoint |-> n] \in Receipt
    BY <1>2 DEF Receipt, ReceiptStatus
  <2> QED
    BY <2>1, <1>t
<1>5. f \in Seq(Receipt) /\ Len(f) = Len(receipts) /\ DOMAIN f = DOMAIN receipts
  <2>1. f = [s \in DOMAIN receipts |-> f[s]]
    OBVIOUS
  <2> HIDE DEF f
  <2> QED
    BY <1>4, <2>1, ReceiptsMapped
<1>6. ASSUME NEW s \in DOMAIN receipts
      PROVE  (\E i \in 1 .. k : outbox[i] = s) <=> (Staged < s /\ s <= Staged + k)
  <2>1. s \in Nat
    BY <1>t
  <2>2. \A i \in 1 .. k : outbox[i] = Staged + i
    BY <1>1, <1>t DEF OutboxIsUnstagedTail
  <2> HIDE DEF k
  <2>3. ASSUME Staged < s, s <= Staged + k PROVE \E i \in 1 .. k : outbox[i] = s
    <3>1. s - Staged \in 1 .. k
      BY <1>2, <2>1, <2>3
    <3>2. outbox[s - Staged] = s
      BY <1>2, <2>1, <2>2, <3>1
    <3> QED
      BY <3>1, <3>2
  <2>4. ASSUME NEW i \in 1 .. k, outbox[i] = s PROVE Staged < s /\ s <= Staged + k
    BY <1>2, <2>2, <2>4
  <2> QED
    BY <2>3, <2>4
<1>7. \A s \in DOMAIN receipts :
        IF Staged < s /\ s <= Staged + k
          THEN receipts'[s] = [status |-> "batched", checkpoint |-> n]
          ELSE receipts'[s] = receipts[s]
  <2> HIDE DEF k, n
  <2> QED
    BY <1>1, <1>6
<1>8. /\ outbox' \in Seq(Nat) /\ Len(outbox') = Len(outbox) - k
      /\ \A i \in 1 .. (Len(outbox) - k) : outbox'[i] = outbox[i + k]
  <2> HIDE DEF k
  <2>1. k <= Len(outbox)
    BY <1>1
  <2> QED
    BY <1>1, <1>2, <2>1, <1>t, SMTT(30)
<1> QED
  BY <1>1, <1>3, <1>5, <1>7, <1>8

\* A receipt that is declared a gap has left the outbox: the sequence that is
\* observed is the first one in it.
LEMMA GapForms ==
  ASSUME TypeOK, StagerHolds, OutboxIsUnstagedTail, NEW w \in Workers, StageGap(w)
  PROVE  /\ receipts' \in Seq(Receipt) /\ Len(receipts') = Len(receipts)
         /\ DOMAIN receipts' = DOMAIN receipts
         /\ \A s \in DOMAIN receipts :
              /\ receipts'[s].checkpoint = receipts[s].checkpoint
              /\ \/ receipts'[s] = receipts[s]
                 \/ receipts'[s].status = "gap" /\ s <= Staged
         /\ gaps' \subseteq Gap
         /\ stager' = [stager EXCEPT ![w] = NotStaging]
         /\ UNCHANGED <<outbox, checkpoints, signer, environment>>
<1> DEFINE previous == stager[w].previous
<1>1. outbox # <<>> /\ previous \in 0 .. Len(checkpoints)
  BY DEF StageGap, StagerHolds
<1>2. BatchSize \in 1 .. Len(outbox) /\ DOMAIN outbox = 1 .. Len(outbox)
  BY <1>1, BatchForms
<1>3. PICK i \in Deviations(previous) :
        /\ \A j \in Deviations(previous) : i <= j
        /\ RecordGap(ExpectedFirst(previous) + i - 1, outbox[i])
  BY DEF StageGap
<1>4. i \in 1 .. BatchSize /\ outbox[i] # ExpectedFirst(previous) + i - 1
  BY <1>3 DEF Deviations
<1>n. Staged \in Nat /\ ExpectedFirst(previous) \in Nat
  BY <1>1, StagedForms, ExpectedForms
<1>5. i = 1
  <2>1. i \in DOMAIN outbox /\ 1 \in DOMAIN outbox /\ 1 \in 1 .. BatchSize
    BY <1>2, <1>4
  <2>2. outbox[i] = Staged + i /\ outbox[1] = Staged + 1
    BY <2>1 DEF OutboxIsUnstagedTail
  <2>3. 1 \in Deviations(previous)
    BY <1>4, <1>n, <2>1, <2>2 DEF Deviations
  <2> QED
    BY <1>3, <1>4, <2>3
<1>6. outbox[1] = Staged + 1
  BY <1>2 DEF OutboxIsUnstagedTail
<1> DEFINE expected == ExpectedFirst(previous) + 1 - 1
           observed == outbox[1]
           r(s) == IF expected <= s /\ s < observed
                     THEN [receipts[s] EXCEPT !.status = "gap"] ELSE receipts[s]
<1>7. RecordGap(expected, observed)
  BY <1>3, <1>5
<1>8. receipts' = [s \in DOMAIN receipts |-> r(s)]
  BY <1>7 DEF RecordGap
<1>9. ASSUME NEW s \in DOMAIN receipts
      PROVE  /\ r(s) \in Receipt
             /\ r(s).checkpoint = receipts[s].checkpoint
             /\ r(s) = receipts[s] \/ (r(s).status = "gap" /\ s <= Staged)
  <2>1. receipts[s] \in Receipt /\ s \in Nat
    BY DEF TypeOK
  <2>2. s < observed => s <= Staged
    BY <1>6, <1>n, <2>1
  <2> HIDE DEF expected, observed
  <2> QED
    BY <2>1, <2>2 DEF Receipt, ReceiptStatus
<1>10. gaps' \subseteq Gap
  <2>1. expected \in Int /\ observed \in Int
    BY <1>6, <1>n
  <2>2. gaps' = gaps \union GapRow(expected, observed)
    BY <1>7 DEF RecordGap
  <2> HIDE DEF expected, observed
  <2>3. GapRow(expected, observed) \subseteq Gap
    BY <2>1 DEF GapRow, Gap
  <2> QED
    BY <2>2, <2>3 DEF TypeOK
<1>11. stager' = [stager EXCEPT ![w] = NotStaging]
       /\ UNCHANGED <<outbox, checkpoints, signer, environment>>
  BY DEF StageGap
<1> HIDE DEF r
<1>12. receipts' \in Seq(Receipt) /\ Len(receipts') = Len(receipts)
       /\ DOMAIN receipts' = DOMAIN receipts
  BY <1>8, <1>9, ReceiptsMapped
<1> QED
  BY <1>8, <1>9, <1>10, <1>11, <1>12
------------------------------------------------------------------------------
(* Type correctness.                                                       *)

\* What a chain of checkpoints is made of, for cases that leave it alone or
\* only relabel it.
LEMMA QuietDatabase ==
  ASSUME TypeOK, Quiet
  PROVE  /\ receipts' \in Seq(Receipt) /\ outbox' \in Seq(Nat)
         /\ checkpoints' \in Seq(Checkpoint)
BY DEF TypeOK, Quiet, SameChain

\* The tables keep their types.
LEMMA StepTables ==
  ASSUME IInv, [Next]_vars
  PROVE  receipts' \in Seq(Receipt) /\ outbox' \in Seq(Nat) /\ checkpoints' \in Seq(Checkpoint)
<1>t. receipts \in Seq(Receipt) /\ outbox \in Seq(Nat) /\ checkpoints \in Seq(Checkpoint)
  BY DEF IInv, TypeOK
<1> DEFINE Goal == receipts' \in Seq(Receipt) /\ outbox' \in Seq(Nat)
                   /\ checkpoints' \in Seq(Checkpoint)
<1>1. CASE CommitReceipt
  BY <1>1, <1>t, CommitForms DEF IInv
<1>2. ASSUME NEW w \in Workers, Stage(w) PROVE Goal
  BY <1>2, StageForms, StageMoves DEF IInv
<1>3. ASSUME NEW w \in Workers, StageGap(w) PROVE Goal
  BY <1>3, <1>t, GapForms DEF IInv
<1>4. ASSUME NEW w \in Workers, SignVerify(w) PROVE Goal
  BY <1>4, <1>t, VerifyForms DEF IInv, SameChain
<1>5. CASE Quiet
  BY <1>5, QuietDatabase DEF IInv
<1> QED
  BY <1>1, <1>2, <1>3, <1>4, <1>5, QuietSteps DEF IInv

\* So do the gap rows.
LEMMA StepGaps ==
  ASSUME IInv, [Next]_vars
  PROVE  gaps' \subseteq Gap
<1>t. gaps \subseteq Gap
  BY DEF IInv, TypeOK
<1>1. ASSUME NEW w \in Workers, StageGap(w) PROVE gaps' \subseteq Gap
  BY <1>1, GapForms DEF IInv
<1>2. CASE CommitReceipt
  BY <1>2, <1>t DEF CommitReceipt
<1>3. ASSUME NEW w \in Workers, SignWrongKey(w) \/ SignError(w) PROVE gaps' \subseteq Gap
  BY <1>3, <1>t DEF SignWrongKey, SignError, Fail
<1>4. ASSUME NEW w \in Workers, Stage(w) \/ SignVerify(w) PROVE gaps' \subseteq Gap
  BY <1>4, <1>t DEF Stage, SignVerify
<1>5. ASSUME NEW w \in Workers,
             StageChoose(w) \/ SignClaim(w) \/ Attest(w) \/ Crash(w) \/ Reconfigure(w)
      PROVE  gaps' \subseteq Gap
  BY <1>5, <1>t DEF StageChoose, SignClaim, Attest, Crash, Reconfigure, db
<1>6. CASE Operator
  BY <1>6, <1>t DEF Operator, RotateSidecar, ReturnToSigning, ResolveGap, db
<1>7. CASE UNCHANGED vars
  BY <1>7, <1>t DEF vars
<1> QED
  BY <1>1, <1>2, <1>3, <1>4, <1>5, <1>6, <1>7 DEF Next, Process

Environment ==
  /\ stager \in [Workers -> [at : {"idle", "chosen"}, previous : Nat]]
  /\ signer \in [Workers -> [at : {"idle", "posted", "answered"}, checkpoint : Nat]]
  /\ config \in [Workers -> [instance : Instances, key : Keys]]
  /\ sidecarKey \in Keys
  /\ attestations \subseteq (Nat \X Keys)
  /\ changes \in Nat

\* And everything that is not in the gateway's tables.
LEMMA StepEnvironment ==
  ASSUME IInv, [Next]_vars
  PROVE  Environment'
<1>t. Environment
  BY DEF IInv, TypeOK, Environment
<1>d. DOMAIN checkpoints \subseteq Nat
  BY DEF IInv, TypeOK
<1>i. NotStaging \in [at : {"idle", "chosen"}, previous : Nat]
      /\ NotSigning \in [at : {"idle", "posted", "answered"}, checkpoint : Nat]
  BY DEF NotStaging, NotSigning
<1>1. CASE CommitReceipt
  BY <1>1, <1>t DEF CommitReceipt, environment, Environment
<1>2. ASSUME NEW w \in Workers, StageChoose(w) PROVE Environment'
  <2>1. PICK c \in 0 .. Len(checkpoints) :
          stager' = [stager EXCEPT ![w] = [at |-> "chosen", previous |-> c]]
    BY <1>2 DEF StageChoose
  <2>2. [at |-> "chosen", previous |-> c] \in [at : {"idle", "chosen"}, previous : Nat]
    BY DEF IInv, TypeOK
  <2> QED
    BY <1>2, <1>t, <2>1, <2>2 DEF StageChoose, environment, Environment
<1>3. ASSUME NEW w \in Workers, Stage(w) PROVE Environment'
  BY <1>3, <1>t, <1>i DEF Stage, environment, Environment
<1>4. ASSUME NEW w \in Workers, StageGap(w) PROVE Environment'
  BY <1>4, <1>t, <1>i DEF StageGap, environment, Environment
<1>5. ASSUME NEW w \in Workers, SignClaim(w) PROVE Environment'
  <2>1. PICK c \in DOMAIN checkpoints :
          signer' = [signer EXCEPT ![w] = [at |-> "posted", checkpoint |-> c]]
    BY <1>5 DEF SignClaim
  <2>2. [at |-> "posted", checkpoint |-> c]
          \in [at : {"idle", "posted", "answered"}, checkpoint : Nat]
    BY <1>d
  <2> QED
    BY <1>5, <1>t, <2>1, <2>2 DEF SignClaim, environment, Environment
<1>6. ASSUME NEW w \in Workers, SignWrongKey(w) PROVE Environment'
  BY <1>6, <1>t DEF SignWrongKey, environment, Environment
<1>7. ASSUME NEW w \in Workers, Attest(w) PROVE Environment'
  <2>1. signer[w].checkpoint \in Nat
    BY <1>7, <1>t DEF Environment
  <2>2. [signer[w] EXCEPT !.at = "answered"]
          \in [at : {"idle", "posted", "answered"}, checkpoint : Nat]
    BY <1>7, <1>t DEF Environment
  <2>3. signer' = [signer EXCEPT ![w] = [signer[w] EXCEPT !.at = "answered"]]
    BY <1>7 DEF Attest
  <2>4. signer' \in [Workers -> [at : {"idle", "posted", "answered"}, checkpoint : Nat]]
    BY <1>t, <2>2, <2>3 DEF Environment
  <2>5. attestations' = attestations \union {<<signer[w].checkpoint, sidecarKey>>}
    BY <1>7 DEF Attest
  <2>6. attestations' \subseteq (Nat \X Keys)
    BY <1>t, <2>1, <2>5 DEF Environment
  <2> QED
    BY <1>7, <1>t, <2>4, <2>6 DEF Attest, Environment
<1>8. ASSUME NEW w \in Workers, SignError(w) PROVE Environment'
  BY <1>8, <1>t, <1>i DEF SignError, environment, Environment
<1>9. ASSUME NEW w \in Workers, SignVerify(w) PROVE Environment'
  BY <1>9, <1>t, <1>i DEF SignVerify, environment, Environment
<1>10. ASSUME NEW w \in Workers, Crash(w) PROVE Environment'
  BY <1>10, <1>t, <1>i DEF Crash, environment, Environment
<1>11. ASSUME NEW w \in Workers, Reconfigure(w) PROVE Environment'
  <2>1. PICK i \in Instances, k \in Keys :
          config' = [config EXCEPT ![w] = [instance |-> i, key |-> k]]
    BY <1>11 DEF Reconfigure
  <2>2. config' \in [Workers -> [instance : Instances, key : Keys]]
    BY <1>t, <2>1 DEF Environment
  <2> QED
    BY <1>11, <1>t, <1>i, <2>2 DEF Reconfigure, Environment
<1>12. CASE RotateSidecar
  BY <1>12, <1>t DEF RotateSidecar, Environment
<1>13. ASSUME NEW c \in DOMAIN checkpoints, ReturnToSigning(c) PROVE Environment'
  BY <1>13, <1>t DEF ReturnToSigning, environment, Environment
<1>14. ASSUME NEW g \in gaps, ResolveGap(g) PROVE Environment'
  BY <1>14, <1>t DEF ResolveGap, environment, Environment
<1>15. CASE UNCHANGED vars
  BY <1>15, <1>t DEF vars, Environment
<1> QED
  BY <1>1, <1>2, <1>3, <1>4, <1>5, <1>6, <1>7, <1>8, <1>9, <1>10, <1>11, <1>12,
     <1>13, <1>14, <1>15 DEF Next, Process, Operator

\* Types are preserved.
LEMMA StepTypeOK ==
  ASSUME IInv, [Next]_vars
  PROVE  TypeOK'
BY StepTables, StepGaps, StepEnvironment DEF TypeOK, Environment
------------------------------------------------------------------------------
(* The open transactions.                                                  *)

\* What the worker read stays true of the chain while others relabel it.
LEMMA StagerKept ==
  ASSUME StagerHolds, SameChain, UNCHANGED <<stager, config, outbox>>
  PROVE  StagerHolds'
BY DEF StagerHolds, SameChain

\* The worker's transaction stays the only one.
LEMMA StepStagerHolds ==
  ASSUME IInv, [Next]_vars
  PROVE  StagerHolds'
<1>t. /\ stager \in [Workers -> [at : {"idle", "chosen"}, previous : Nat]]
      /\ config \in [Workers -> [instance : Instances, key : Keys]]
      /\ checkpoints \in Seq(Checkpoint)
  BY DEF IInv, TypeOK
<1>h. StagerHolds
  BY DEF IInv
<1>s. checkpoints' = checkpoints => SameChain
  BY DEF SameChain, IInv, TypeOK
<1>1. CASE CommitReceipt
  <2>1. outbox' # <<>>
    BY <1>1, CommitForms DEF IInv
  <2> QED
    BY <1>1, <1>h, <2>1 DEF CommitReceipt, StagerHolds, environment
<1>2. ASSUME NEW w \in Workers, StageChoose(w) PROVE StagerHolds'
  <2>1. PICK c \in 0 .. Len(checkpoints) :
          /\ IsPrevious(c, config[w].instance)
          /\ stager' = [stager EXCEPT ![w] = [at |-> "chosen", previous |-> c]]
    BY <1>2 DEF StageChoose
  <2>2. c # 0 => checkpoints[c].instance = config[w].instance
    BY <2>1 DEF IsPrevious, Live
  <2>3. \A v \in Workers : stager'[v].at = "chosen" => v = w
    BY <1>2, <1>t, <2>1 DEF StageChoose
  <2>4. stager'[w].previous = c
    BY <1>t, <2>1
  <2> QED
    BY <1>2, <2>1, <2>2, <2>3, <2>4 DEF StageChoose, StagerHolds, db, environment
<1>3. ASSUME NEW w \in Workers, Stage(w) \/ StageGap(w) PROVE StagerHolds'
  <2>1. stager[w].at = "chosen" /\ stager' = [stager EXCEPT ![w] = NotStaging]
    BY <1>3 DEF Stage, StageGap
  <2>2. \A v \in Workers : stager'[v].at # "chosen"
    BY <1>t, <1>h, <2>1 DEF StagerHolds, NotStaging
  <2> QED
    BY <2>2 DEF StagerHolds
<1>4. ASSUME NEW w \in Workers, SignClaim(w) \/ Attest(w) PROVE StagerHolds'
  BY <1>4, <1>h, <1>s, StagerKept DEF SignClaim, Attest, db, environment
<1>5. ASSUME NEW w \in Workers, SignVerify(w) PROVE StagerHolds'
  BY <1>5, <1>h, StagerKept, VerifyForms DEF SignVerify, IInv, environment
<1>6. ASSUME NEW w \in Workers, SignWrongKey(w) PROVE StagerHolds'
  <2>1. PICK c \in DOMAIN checkpoints : Fail(c)
    BY <1>6 DEF SignWrongKey
  <2> QED
    BY <1>6, <1>h, <2>1, StagerKept, FailForms DEF SignWrongKey, IInv, environment
<1>7. ASSUME NEW w \in Workers, SignError(w) PROVE StagerHolds'
  <2>1. signer[w].checkpoint \in DOMAIN checkpoints /\ Fail(signer[w].checkpoint)
    BY <1>7 DEF SignError, IInv, SignerHolds
  <2> QED
    BY <1>7, <1>h, <2>1, StagerKept, FailForms DEF SignError, IInv, environment
<1>8. ASSUME NEW w \in Workers, Crash(w) \/ Reconfigure(w) PROVE StagerHolds'
  <2>1. /\ stager' = [stager EXCEPT ![w] = NotStaging]
        /\ UNCHANGED <<outbox, checkpoints>>
        /\ \A v \in Workers : v # w => config'[v] = config[v]
    BY <1>8, <1>t DEF Crash, Reconfigure, db, environment
  <2>2. stager'[w].at = "idle" /\ \A v \in Workers : v # w => stager'[v] = stager[v]
    BY <1>t, <2>1 DEF NotStaging
  <2> QED
    BY <1>h, <2>1, <2>2 DEF StagerHolds
<1>9. ASSUME NEW c \in DOMAIN checkpoints, ReturnToSigning(c) PROVE StagerHolds'
  <2>1. SameChain
    BY <1>9, ReturnKeeps DEF IInv
  <2> QED
    BY <1>9, <1>h, <2>1, StagerKept DEF ReturnToSigning, environment
<1>10. CASE RotateSidecar \/ (\E g \in gaps : ResolveGap(g)) \/ UNCHANGED vars
  BY <1>10, <1>h, <1>s, StagerKept DEF RotateSidecar, ResolveGap, db, environment, vars
<1> QED
  BY <1>1, <1>2, <1>3, <1>4, <1>5, <1>6, <1>7, <1>8, <1>9, <1>10
  DEF Next, Process, Operator

\* What the signer claimed stays staged while it is not relabelled.
LEMMA SignerKept ==
  ASSUME SignerHolds, UNCHANGED signer, attestations \subseteq attestations',
         DOMAIN checkpoints \subseteq DOMAIN checkpoints',
         \A c \in DOMAIN checkpoints :
           checkpoints[c].status = "signing" =>
             /\ checkpoints'[c].status = "signing"
             /\ checkpoints'[c].key = checkpoints[c].key
  PROVE  SignerHolds'
BY DEF SignerHolds

\* A transaction that ends leaves no other.
LEMMA SignerEnds ==
  ASSUME TypeOK, SignerHolds, NEW w \in Workers, signer[w].at # "idle",
         signer' = [signer EXCEPT ![w] = NotSigning]
  PROVE  SignerHolds'
<1>1. \A v \in Workers : signer'[v].at = "idle"
  BY DEF TypeOK, SignerHolds, NotSigning
<1> QED
  BY <1>1 DEF SignerHolds

\* The signer's transaction stays the only one and its checkpoint staged.
LEMMA StepSignerHolds ==
  ASSUME IInv, [Next]_vars
  PROVE  SignerHolds'
<1>t. /\ signer \in [Workers -> [at : {"idle", "posted", "answered"}, checkpoint : Nat]]
      /\ checkpoints \in Seq(Checkpoint)
  BY DEF IInv, TypeOK
<1>h. SignerHolds
  BY DEF IInv
<1>1. CASE CommitReceipt
  BY <1>1, <1>h, SignerKept DEF CommitReceipt, environment
<1>2. ASSUME NEW w \in Workers, Stage(w) PROVE SignerHolds'
  BY <1>2, <1>h, SignerKept, StageForms DEF IInv, environment
<1>3. ASSUME NEW w \in Workers, StageChoose(w) \/ StageGap(w) PROVE SignerHolds'
  BY <1>3, <1>h, SignerKept DEF StageChoose, StageGap, db, environment
<1>4. ASSUME NEW w \in Workers, SignClaim(w) PROVE SignerHolds'
  <2>1. PICK c \in DOMAIN checkpoints :
          /\ IsOldest(c)
          /\ signer' = [signer EXCEPT ![w] = [at |-> "posted", checkpoint |-> c]]
    BY <1>4 DEF SignClaim
  <2>2. \A v \in Workers : signer'[v].at # "idle" => v = w
    BY <1>4, <1>t, <2>1 DEF SignClaim
  <2>3. signer'[w].at = "posted" /\ signer'[w].checkpoint = c
    BY <1>t, <2>1
  <2>4. checkpoints[c].status = "signing" /\ checkpoints' = checkpoints
    BY <1>4, <2>1 DEF SignClaim, IsOldest, Signable, db
  <2> QED
    BY <2>2, <2>3, <2>4 DEF SignerHolds
<1>5. ASSUME NEW w \in Workers, SignWrongKey(w) PROVE SignerHolds'
  BY <1>5 DEF SignWrongKey, SignerHolds
<1>6. ASSUME NEW w \in Workers, Attest(w) PROVE SignerHolds'
  <2> DEFINE c == signer[w].checkpoint
  <2>1. /\ signer[w].at = "posted"
        /\ checkpoints[c].key = sidecarKey
        /\ attestations' = attestations \union {<<c, sidecarKey>>}
        /\ signer' = [signer EXCEPT ![w].at = "answered"]
        /\ checkpoints' = checkpoints
    BY <1>6 DEF Attest, db
  <2>2. /\ signer'[w].checkpoint = c
        /\ \A v \in Workers : v # w => signer'[v] = signer[v] /\ signer[v].at = "idle"
    BY <1>t, <1>h, <2>1 DEF SignerHolds
  <2>3. c \in DOMAIN checkpoints /\ checkpoints[c].status = "signing"
    BY <1>h, <2>1 DEF SignerHolds
  <2>4. <<c, checkpoints'[c].key>> \in attestations'
    BY <2>1
  <2> HIDE DEF c
  <2> QED
    BY <2>1, <2>2, <2>3, <2>4 DEF SignerHolds
<1>7. ASSUME NEW w \in Workers, SignError(w) \/ SignVerify(w) PROVE SignerHolds'
  BY <1>7, SignerEnds DEF SignError, SignVerify, IInv
<1>8. ASSUME NEW w \in Workers, Crash(w) \/ Reconfigure(w) PROVE SignerHolds'
  <2>1. /\ signer' = [signer EXCEPT ![w] = NotSigning]
        /\ UNCHANGED <<checkpoints, attestations>>
    BY <1>8 DEF Crash, Reconfigure, db, environment
  <2>2. signer'[w].at = "idle" /\ \A v \in Workers : v # w => signer'[v] = signer[v]
    BY <1>t, <2>1 DEF NotSigning
  <2> QED
    BY <1>h, <2>1, <2>2 DEF SignerHolds
<1>9. ASSUME NEW c \in DOMAIN checkpoints, ReturnToSigning(c) PROVE SignerHolds'
  <2>1. /\ SameChain
        /\ checkpoints'[c].status = "signing"
        /\ \A d \in DOMAIN checkpoints : d # c => checkpoints'[d] = checkpoints[d]
    BY <1>9, ReturnKeeps DEF IInv
  <2> QED
    BY <1>9, <1>h, <2>1, SignerKept DEF ReturnToSigning, SameChain, environment
<1>10. CASE RotateSidecar \/ (\E g \in gaps : ResolveGap(g)) \/ UNCHANGED vars
  BY <1>10, <1>h, SignerKept DEF RotateSidecar, ResolveGap, db, environment, vars
<1> QED
  BY <1>1, <1>2, <1>3, <1>4, <1>5, <1>6, <1>7, <1>8, <1>9, <1>10
  DEF Next, Process, Operator

------------------------------------------------------------------------------
(* The chain and the outbox.                                               *)

\* Ranges stay ordered: a new one starts behind the last.
LEMMA StepRangesOrdered ==
  ASSUME IInv, [Next]_vars
  PROVE  RangesOrdered'
<1>t. checkpoints \in Seq(Checkpoint)
  BY DEF IInv, TypeOK
<1>h. RangesOrdered
  BY DEF IInv
<1>same. ASSUME SameChain PROVE RangesOrdered'
  BY <1>h, <1>same DEF RangesOrdered, SameChain
<1>1. ASSUME NEW w \in Workers, Stage(w) PROVE RangesOrdered'
  <2> DEFINE n == Len(checkpoints) + 1
  <2>1. /\ DOMAIN checkpoints' = DOMAIN checkpoints \union {n}
        /\ \A c \in DOMAIN checkpoints : checkpoints'[c] = checkpoints[c]
        /\ checkpoints'[n].first = Staged + 1
    BY <1>1, StageForms DEF IInv
  <2>2. \A c \in DOMAIN checkpoints : checkpoints[c].last <= Staged
    BY LastAtMostStaged DEF IInv
  <2>3. \A c \in DOMAIN checkpoints : c < n /\ checkpoints[c].last \in Nat
    <3> SUFFICES ASSUME NEW c \in DOMAIN checkpoints
                 PROVE  c < n /\ checkpoints[c].last \in Nat
      OBVIOUS
    <3>1. checkpoints[c] \in Checkpoint /\ c < n
      BY <1>t
    <3> QED
      BY <3>1 DEF Checkpoint
  <2>4. n \in Nat /\ Staged \in Nat
    BY <1>t, StagedForms DEF IInv
  <2> HIDE DEF n
  <2>5. \A c \in DOMAIN checkpoints : checkpoints'[c].last < checkpoints'[n].first
    BY <2>1, <2>2, <2>3, <2>4
  <2>6. ASSUME NEW c \in DOMAIN checkpoints', NEW d \in DOMAIN checkpoints', c < d
        PROVE  checkpoints'[c].last < checkpoints'[d].first
    <3>1. CASE d = n
      <4>1. c # n
        BY <2>4, <2>6, <3>1
      <4> QED
        BY <2>1, <2>5, <3>1, <4>1
    <3>2. CASE d # n
      <4>1. d \in DOMAIN checkpoints /\ d < n
        BY <2>1, <2>3, <3>2
      <4>2. c # n
        BY <2>4, <2>6, <4>1, <1>t
      <4> QED
        BY <1>h, <2>1, <2>6, <4>1, <4>2 DEF RangesOrdered
    <3> QED
      BY <3>1, <3>2
  <2> QED
    BY <2>6 DEF RangesOrdered
<1>2. ASSUME NEW w \in Workers, StageGap(w) PROVE RangesOrdered'
  BY <1>2, <1>h DEF StageGap, RangesOrdered
<1>3. CASE CommitReceipt
  BY <1>3, <1>h DEF CommitReceipt, RangesOrdered
<1>4. ASSUME NEW w \in Workers, SignVerify(w) PROVE RangesOrdered'
  BY <1>4, <1>same, VerifyForms DEF IInv
<1>5. CASE Quiet
  BY <1>5, <1>same DEF Quiet
<1> QED
  BY <1>1, <1>2, <1>3, <1>4, <1>5, QuietSteps DEF IInv
\* The chain's end does not move when checkpoints are relabelled.
LEMMA StagedSame ==
  ASSUME TypeOK, SameChain
  PROVE  Staged' = Staged
<1>1. checkpoints \in Seq(Checkpoint) /\ checkpoints' \in Seq(Checkpoint)
      /\ Len(checkpoints') = Len(checkpoints)
  BY DEF TypeOK, SameChain
<1>2. CASE checkpoints = <<>>
  <2>1. checkpoints' = <<>>
    BY <1>1, <1>2
  <2> QED
    BY <1>2, <2>1 DEF Staged
<1>3. CASE checkpoints # <<>>
  <2>1. checkpoints' # <<>> /\ Len(checkpoints) \in DOMAIN checkpoints
    BY <1>1, <1>3
  <2> QED
    BY <1>1, <1>3, <2>1 DEF Staged, SameChain
<1> QED
  BY <1>2, <1>3

\* The outbox stays what the chain has not reached.
LEMMA StepOutbox ==
  ASSUME IInv, [Next]_vars
  PROVE  OutboxIsUnstagedTail'
<1>t. receipts \in Seq(Receipt) /\ outbox \in Seq(Nat) /\ Staged \in Nat
  BY StagedForms DEF IInv, TypeOK
<1>h. /\ Staged + Len(outbox) = Len(receipts)
      /\ \A i \in DOMAIN outbox : outbox[i] = Staged + i
  BY DEF IInv, OutboxIsUnstagedTail
<1>same. ASSUME Staged' = Staged, outbox' = outbox, Len(receipts') = Len(receipts)
         PROVE  OutboxIsUnstagedTail'
  BY <1>h, <1>same DEF OutboxIsUnstagedTail
<1>1. CASE CommitReceipt
  <2>1. Staged' = Staged
    BY <1>1 DEF CommitReceipt, Staged
  <2>2. /\ Len(receipts') = Len(receipts) + 1
        /\ Len(outbox') = Len(outbox) + 1
        /\ DOMAIN outbox' = DOMAIN outbox \union {Len(outbox) + 1}
        /\ outbox'[Len(outbox) + 1] = Len(receipts) + 1
        /\ \A i \in DOMAIN outbox : outbox'[i] = outbox[i]
    BY <1>1, CommitForms DEF IInv
  <2>3. Len(outbox) \in Nat /\ Len(receipts) \in Nat
    BY <1>t
  <2>4. Staged' + Len(outbox') = Len(receipts')
    BY <1>t, <1>h, <2>1, <2>2, <2>3
  <2>5. ASSUME NEW i \in DOMAIN outbox' PROVE outbox'[i] = Staged' + i
    BY <1>t, <1>h, <2>1, <2>2, <2>3
  <2> QED
    BY <2>4, <2>5 DEF OutboxIsUnstagedTail
<1>2. ASSUME NEW w \in Workers, Stage(w) PROVE OutboxIsUnstagedTail'
  <2> DEFINE k == BatchSize
  <2>1. /\ k \in 1 .. Len(outbox)
        /\ Staged' = Staged + k
        /\ Len(receipts') = Len(receipts)
        /\ outbox' \in Seq(Nat) /\ Len(outbox') = Len(outbox) - k
        /\ \A i \in 1 .. (Len(outbox) - k) : outbox'[i] = outbox[i + k]
    BY <1>2, StageForms, StageMoves DEF IInv
  <2>2. Len(outbox) \in Nat /\ Len(receipts) \in Nat /\ DOMAIN outbox = 1 .. Len(outbox)
        /\ DOMAIN outbox' = 1 .. Len(outbox')
    BY <1>t, <2>1
  <2> HIDE DEF k
  <2>3. Staged' + Len(outbox') = Len(receipts')
    <3>1. k \in Nat /\ Staged \in Nat
      BY <1>t, <2>1, <2>2
    <3>2. (Staged + k) + (Len(outbox) - k) = Staged + Len(outbox)
      BY <2>2, <3>1
    <3> QED
      BY <1>h, <2>1, <3>2
  <2>4. ASSUME NEW i \in DOMAIN outbox' PROVE outbox'[i] = Staged' + i
    <3>1. i \in 1 .. (Len(outbox) - k) /\ i + k \in DOMAIN outbox /\ i \in Nat /\ k \in Nat
      BY <2>1, <2>2
    <3>2. outbox'[i] = Staged + (i + k)
      BY <1>h, <2>1, <3>1
    <3> QED
      BY <1>t, <2>1, <3>1, <3>2
  <2> QED
    BY <2>3, <2>4 DEF OutboxIsUnstagedTail
<1>3. ASSUME NEW w \in Workers, StageGap(w) PROVE OutboxIsUnstagedTail'
  <2>1. Staged' = Staged
    BY <1>3 DEF StageGap, Staged
  <2> QED
    BY <1>3, <1>same, <2>1, GapForms DEF IInv
<1>4. ASSUME NEW w \in Workers, SignVerify(w) PROVE OutboxIsUnstagedTail'
  BY <1>4, <1>same, VerifyForms, StagedSame DEF IInv
<1>5. CASE Quiet
  BY <1>5, <1>same, StagedSame DEF IInv, Quiet
<1> QED
  BY <1>1, <1>2, <1>3, <1>4, <1>5, QuietSteps DEF IInv

\* What the chain says of one checkpoint depends on it and on the one before.
ChainedAt(c) ==
  /\ checkpoints[c].previous = c - 1
  /\ checkpoints[c].first = ExpectedFirst(c - 1)
  /\ checkpoints[c].first <= checkpoints[c].last
  /\ checkpoints[c].instance = checkpoints[1].instance

\* The chain stays unbroken.
LEMMA StepChain ==
  ASSUME IInv, [Next]_vars
  PROVE  ChainUnbroken'
<1>t. checkpoints \in Seq(Checkpoint) /\ DOMAIN checkpoints = 1 .. Len(checkpoints)
      /\ Len(checkpoints) \in Nat
  BY DEF IInv, TypeOK
<1>h. \A c \in DOMAIN checkpoints : ChainedAt(c)
  BY DEF IInv, ChainUnbroken, ChainedAt
<1>kept. ASSUME \A c \in DOMAIN checkpoints :
                  /\ checkpoints'[c].instance = checkpoints[c].instance
                  /\ checkpoints'[c].first = checkpoints[c].first
                  /\ checkpoints'[c].last = checkpoints[c].last
                  /\ checkpoints'[c].previous = checkpoints[c].previous,
                NEW c \in DOMAIN checkpoints
         PROVE  ChainedAt(c)'
  <2>1. 1 \in DOMAIN checkpoints
    BY <1>t
  <2>2. c - 1 # 0 => c - 1 \in DOMAIN checkpoints
    BY <1>t
  <2>3. ExpectedFirst(c - 1)' = ExpectedFirst(c - 1)
    BY <1>kept, <2>2 DEF ExpectedFirst
  <2> QED
    BY <1>h, <1>kept, <2>1, <2>3 DEF ChainedAt
<1>same. ASSUME SameChain PROVE ChainUnbroken'
  <2>1. \A c \in DOMAIN checkpoints' : ChainedAt(c)'
    BY <1>same, <1>kept DEF SameChain
  <2> QED
    BY <2>1 DEF ChainUnbroken, ChainedAt
<1>1. ASSUME NEW w \in Workers, Stage(w) PROVE ChainUnbroken'
  <2>n. PICK n \in Nat \ {0} : n = Len(checkpoints) + 1
    BY <1>t
  <2>1. /\ BatchSize \in 1 .. Len(outbox)
        /\ DOMAIN checkpoints' = DOMAIN checkpoints \union {n}
        /\ \A c \in DOMAIN checkpoints : checkpoints'[c] = checkpoints[c]
        /\ checkpoints'[n].instance = config[w].instance
        /\ checkpoints'[n].first = Staged + 1
        /\ checkpoints'[n].last = Staged + BatchSize
        /\ checkpoints'[n].previous = n - 1
        /\ stager[w].previous = n - 1
    BY <1>1, <2>n, StageForms DEF IInv
  <2>2. \A c \in DOMAIN checkpoints : ChainedAt(c)'
    BY <2>1, <1>kept
  <2>3. n - 1 = Len(checkpoints)
    BY <1>t, <2>n
  <2>4. ExpectedFirst(n - 1)' = Staged + 1
    <3>1. ExpectedFirst(n - 1) = Staged + 1
      <4>1. n - 1 \in 0 .. Len(checkpoints)
        BY <1>t, <2>3
      <4> QED
        BY <2>3, <4>1, ExpectedForms DEF IInv
    <3>2. n - 1 # 0 => n - 1 \in DOMAIN checkpoints
      BY <1>t, <2>3
    <3>3. ExpectedFirst(n - 1)' = ExpectedFirst(n - 1)
      BY <2>1, <3>2 DEF ExpectedFirst
    <3> QED
      BY <3>1, <3>3
  <2>5. checkpoints'[n].instance = checkpoints'[1].instance
    <3>1. CASE n = 1
      BY <3>1
    <3>2. CASE n # 1
      <4>1. n - 1 \in DOMAIN checkpoints /\ 1 \in DOMAIN checkpoints /\ n - 1 # 0
        BY <1>t, <2>3, <3>2
      <4>2. checkpoints[n - 1].instance = config[w].instance
        <5>1. stager[w].at = "chosen"
          BY <1>1 DEF Stage
        <5> QED
          BY <2>1, <4>1, <5>1 DEF IInv, StagerHolds
      <4>3. checkpoints[n - 1].instance = checkpoints[1].instance
        BY <1>h, <4>1 DEF ChainedAt
      <4> QED
        BY <2>1, <4>1, <4>2, <4>3
    <3> QED
      BY <3>1, <3>2
  <2>6. Staged + 1 <= Staged + BatchSize
    <3>1. Staged \in Nat /\ outbox \in Seq(Nat)
      BY StagedForms DEF IInv, TypeOK
    <3> QED
      BY <2>1, <3>1
  <2>7. ChainedAt(n)'
    BY <2>1, <2>4, <2>5, <2>6 DEF ChainedAt
  <2>8. \A c \in DOMAIN checkpoints' : ChainedAt(c)'
    BY <2>1, <2>2, <2>7
  <2> QED
    BY <2>8 DEF ChainUnbroken, ChainedAt
<1>2. CASE CommitReceipt \/ \E w \in Workers : StageGap(w)
  <2>1. SameChain
    BY <1>2, <1>t DEF CommitReceipt, StageGap, SameChain
  <2> QED
    BY <2>1, <1>same
<1>3. ASSUME NEW w \in Workers, SignVerify(w) PROVE ChainUnbroken'
  BY <1>3, <1>same, VerifyForms DEF IInv
<1>4. CASE Quiet
  BY <1>4, <1>same DEF Quiet
<1> QED
  BY <1>1, <1>2, <1>3, <1>4, QuietSteps DEF IInv
------------------------------------------------------------------------------
(* The receipts.                                                           *)

\* The two places a receipt can have.
Waits(s) ==
  /\ receipts[s] = [status |-> "pending", checkpoint |-> 0]
  /\ \E i \in DOMAIN outbox : outbox[i] = s

Placed(s) ==
  /\ receipts[s].checkpoint \in DOMAIN checkpoints
  /\ receipts[s].status # "pending"
  /\ checkpoints[receipts[s].checkpoint].first <= s
  /\ s <= checkpoints[receipts[s].checkpoint].last

\* A receipt waits exactly when the chain has not reached it.
LEMMA WaitsBehindChain ==
  ASSUME TypeOK, OutboxIsUnstagedTail, NEW s \in DOMAIN receipts, Waits(s)
  PROVE  Staged < s
<1>1. PICK i \in DOMAIN outbox : outbox[i] = s
  BY DEF Waits
<1>2. i \in Nat \ {0} /\ Staged \in Nat /\ s = Staged + i
  BY <1>1, StagedForms DEF TypeOK, OutboxIsUnstagedTail
<1> QED
  BY <1>2

\* A placed receipt keeps its place while its checkpoint keeps its range.
LEMMA PlacedKept ==
  ASSUME NEW s, Placed(s), receipts'[s].checkpoint = receipts[s].checkpoint,
         receipts'[s].status # "pending",
         DOMAIN checkpoints \subseteq DOMAIN checkpoints',
         \A c \in DOMAIN checkpoints :
           /\ checkpoints'[c].first = checkpoints[c].first
           /\ checkpoints'[c].last = checkpoints[c].last
  PROVE  /\ receipts'[s].checkpoint \in DOMAIN checkpoints'
         /\ receipts'[s].status # "pending"
         /\ checkpoints'[receipts'[s].checkpoint].first <= s
         /\ s <= checkpoints'[receipts'[s].checkpoint].last
BY DEF Placed

\* Every receipt keeps a place.
LEMMA StepReceipts ==
  ASSUME IInv, [Next]_vars
  PROVE  EveryReceiptHasAPath'
<1>t. /\ receipts \in Seq(Receipt) /\ outbox \in Seq(Nat) /\ checkpoints \in Seq(Checkpoint)
      /\ Staged \in Nat
  BY StagedForms DEF IInv, TypeOK
<1>h. \A s \in DOMAIN receipts : Waits(s) \/ Placed(s)
  BY DEF IInv, EveryReceiptHasAPath, Waits, Placed
<1> DEFINE WaitsNext(s) == /\ receipts'[s] = [status |-> "pending", checkpoint |-> 0]
                           /\ \E i \in DOMAIN outbox' : outbox'[i] = s
           PlacedNext(s) == /\ receipts'[s].checkpoint \in DOMAIN checkpoints'
                            /\ receipts'[s].status # "pending"
                            /\ checkpoints'[receipts'[s].checkpoint].first <= s
                            /\ s <= checkpoints'[receipts'[s].checkpoint].last
<1>g. SUFFICES ASSUME NEW s \in DOMAIN receipts' PROVE WaitsNext(s) \/ PlacedNext(s)
  BY DEF EveryReceiptHasAPath
<1>1. CASE CommitReceipt
  <2>1. /\ DOMAIN receipts' = DOMAIN receipts \union {Len(receipts) + 1}
        /\ receipts'[Len(receipts) + 1] = [status |-> "pending", checkpoint |-> 0]
        /\ \A r \in DOMAIN receipts : receipts'[r] = receipts[r]
        /\ DOMAIN outbox' = DOMAIN outbox \union {Len(outbox) + 1}
        /\ outbox'[Len(outbox) + 1] = Len(receipts) + 1
        /\ \A i \in DOMAIN outbox : outbox'[i] = outbox[i]
        /\ checkpoints' = checkpoints
    BY <1>1, CommitForms DEF IInv
  <2>2. CASE s = Len(receipts) + 1
    BY <2>1, <2>2
  <2>3. CASE s \in DOMAIN receipts /\ Waits(s)
    BY <2>1, <2>3 DEF Waits
  <2>4. CASE s \in DOMAIN receipts /\ Placed(s)
    BY <2>1, <2>4 DEF Placed
  <2> QED
    BY <1>h, <1>g, <2>1, <2>2, <2>3, <2>4
<1>2. ASSUME NEW w \in Workers, Stage(w) PROVE WaitsNext(s) \/ PlacedNext(s)
  <2>n. PICK n \in Nat \ {0} : n = Len(checkpoints) + 1
    BY <1>t
  <2>k. PICK k \in Nat : k = BatchSize /\ k \in 1 .. Len(outbox)
    <3>1. BatchSize \in 1 .. Len(outbox)
      BY <1>2, StageForms DEF IInv
    <3> QED
      BY <3>1
  <2>1. /\ DOMAIN checkpoints' = DOMAIN checkpoints \union {n}
        /\ \A c \in DOMAIN checkpoints : checkpoints'[c] = checkpoints[c]
        /\ checkpoints'[n].first = Staged + 1
        /\ checkpoints'[n].last = Staged + k
    BY <1>2, <2>n, <2>k, StageForms DEF IInv
  <2>2. /\ DOMAIN receipts' = DOMAIN receipts
        /\ outbox' \in Seq(Nat) /\ Len(outbox') = Len(outbox) - k
        /\ \A i \in 1 .. (Len(outbox) - k) : outbox'[i] = outbox[i + k]
    BY <1>2, <2>k, StageMoves DEF IInv
  <2>3. IF Staged < s /\ s <= Staged + k
          THEN receipts'[s] = [status |-> "batched", checkpoint |-> n]
          ELSE receipts'[s] = receipts[s]
    BY <1>2, <1>g, <2>n, <2>k, <2>2, StageMoves DEF IInv
  <2>s. s \in Nat \ {0} /\ s \in DOMAIN receipts
    BY <1>t, <2>2
  <2>4. CASE Staged < s /\ s <= Staged + k
    <3>1. receipts'[s].checkpoint = n /\ receipts'[s].status = "batched"
      BY <2>3, <2>4
    <3> QED
      BY <1>t, <2>1, <2>4, <2>s, <3>1
  <2>5. CASE ~(Staged < s /\ s <= Staged + k) /\ Placed(s)
    <3>1. receipts'[s] = receipts[s]
      BY <2>3, <2>5
    <3>2. receipts[s].status # "pending"
      BY <2>5 DEF Placed
    <3> QED
      BY <2>1, <2>5, <3>1, <3>2, PlacedKept
  <2>6. CASE ~(Staged < s /\ s <= Staged + k) /\ Waits(s)
    <3>1. receipts'[s] = receipts[s]
      BY <2>3, <2>6
    <3>2. PICK i \in DOMAIN outbox : outbox[i] = s
      BY <2>6 DEF Waits
    <3>3. outbox[i] = Staged + i /\ i \in 1 .. Len(outbox) /\ Len(outbox) \in Nat
      BY <1>t, <3>2 DEF IInv, OutboxIsUnstagedTail
    <3>4. i - k \in 1 .. (Len(outbox) - k) /\ (i - k) + k = i
      BY <1>t, <2>6, <2>k, <3>2, <3>3
    <3>5. outbox'[i - k] = s /\ i - k \in DOMAIN outbox'
      BY <2>2, <3>2, <3>4
    <3> QED
      BY <2>6, <3>1, <3>5 DEF Waits
  <2> QED
    BY <1>h, <2>4, <2>5, <2>6, <2>s
<1>3. ASSUME NEW w \in Workers, StageGap(w) PROVE WaitsNext(s) \/ PlacedNext(s)
  <2>1. /\ DOMAIN receipts' = DOMAIN receipts
        /\ outbox' = outbox /\ checkpoints' = checkpoints
    BY <1>3, GapForms DEF IInv
  <2>2. /\ receipts'[s].checkpoint = receipts[s].checkpoint
        /\ \/ receipts'[s] = receipts[s]
           \/ receipts'[s].status = "gap" /\ s <= Staged
    BY <1>3, <1>g, <2>1, GapForms DEF IInv
  <2>3. CASE Waits(s)
    <3>1. Staged < s /\ s \in Nat
      BY <1>t, <1>g, <2>1, <2>3, WaitsBehindChain DEF IInv
    <3>2. receipts'[s] = receipts[s]
      BY <1>t, <2>2, <3>1
    <3> QED
      BY <2>1, <2>3, <3>2 DEF Waits
  <2>4. CASE Placed(s)
    <3>1. receipts'[s].status # "pending"
      BY <2>2, <2>4 DEF Placed
    <3> QED
      BY <2>1, <2>2, <2>4, <3>1, PlacedKept
  <2> QED
    BY <1>h, <1>g, <2>1, <2>3, <2>4
<1>4. ASSUME NEW w \in Workers, SignVerify(w) PROVE WaitsNext(s) \/ PlacedNext(s)
  <2> DEFINE c == signer[w].checkpoint
  <2>1. /\ c \in DOMAIN checkpoints
        /\ SameChain
        /\ DOMAIN receipts' = DOMAIN receipts
        /\ outbox' = outbox
    BY <1>4, VerifyForms DEF IInv
  <2>2. /\ receipts'[s].checkpoint = receipts[s].checkpoint
        /\ receipts[s].checkpoint = c => receipts'[s].status = "verified"
        /\ receipts[s].checkpoint # c => receipts'[s] = receipts[s]
    BY <1>4, <1>g, <2>1, VerifyForms DEF IInv
  <2>3. c # 0
    BY <1>t, <2>1
  <2> HIDE DEF c
  <2>4. CASE Waits(s)
    BY <2>1, <2>2, <2>3, <2>4 DEF Waits
  <2>5. CASE Placed(s)
    <3>1. receipts'[s].status # "pending"
      BY <2>2, <2>5 DEF Placed
    <3> QED
      BY <2>1, <2>2, <2>5, <3>1, PlacedKept DEF SameChain
  <2> QED
    BY <1>h, <1>g, <2>1, <2>4, <2>5
<1>5. CASE Quiet
  <2>1. SameChain /\ receipts' = receipts /\ outbox' = outbox
    BY <1>5 DEF Quiet
  <2>2. CASE Waits(s)
    BY <2>1, <2>2 DEF Waits
  <2>3. CASE Placed(s)
    BY <2>1, <2>3, PlacedKept DEF SameChain, Placed
  <2> QED
    BY <1>h, <1>g, <2>1, <2>2, <2>3
<1> QED
  BY <1>1, <1>2, <1>3, <1>4, <1>5, QuietSteps DEF IInv

\* Verified stays backed by the sidecar's signature.
LEMMA StepVerified ==
  ASSUME IInv, [Next]_vars
  PROVE  VerifiedMeansSigned'
<1>t. /\ receipts \in Seq(Receipt) /\ checkpoints \in Seq(Checkpoint)
  BY DEF IInv, TypeOK
<1>h. /\ \A c \in DOMAIN checkpoints :
           checkpoints[c].status = "verified" => <<c, checkpoints[c].key>> \in attestations
      /\ \A s \in DOMAIN receipts :
           receipts[s].status = "verified" =>
             /\ receipts[s].checkpoint \in DOMAIN checkpoints
             /\ checkpoints[receipts[s].checkpoint].status = "verified"
  BY DEF IInv, VerifiedMeansSigned
<1>1. CASE CommitReceipt
  <2>1. /\ DOMAIN receipts' = DOMAIN receipts \union {Len(receipts) + 1}
        /\ receipts'[Len(receipts) + 1].status = "pending"
        /\ \A r \in DOMAIN receipts : receipts'[r] = receipts[r]
        /\ checkpoints' = checkpoints /\ attestations' = attestations
    <3>1. receipts'[Len(receipts) + 1] = [status |-> "pending", checkpoint |-> 0]
      BY <1>1, CommitForms DEF IInv
    <3>2. receipts'[Len(receipts) + 1].status = "pending"
      BY <3>1
    <3> QED
      BY <1>1, <3>2, CommitForms DEF IInv, environment
  <2> QED
    BY <1>h, <2>1 DEF VerifiedMeansSigned
<1>2. ASSUME NEW w \in Workers, Stage(w) PROVE VerifiedMeansSigned'
  <2>1. /\ DOMAIN checkpoints' = DOMAIN checkpoints \union {Len(checkpoints) + 1}
        /\ \A c \in DOMAIN checkpoints : checkpoints'[c] = checkpoints[c]
        /\ checkpoints'[Len(checkpoints) + 1].status = "signing"
        /\ attestations' = attestations
    BY <1>2, StageForms DEF IInv, environment
  <2>2. /\ DOMAIN receipts' = DOMAIN receipts
        /\ \A s \in DOMAIN receipts :
             receipts'[s] = receipts[s] \/ receipts'[s].status = "batched"
    BY <1>2, StageMoves DEF IInv
  <2> QED
    BY <1>h, <2>1, <2>2 DEF VerifiedMeansSigned
<1>3. ASSUME NEW w \in Workers, StageGap(w) PROVE VerifiedMeansSigned'
  <2>1. /\ DOMAIN receipts' = DOMAIN receipts
        /\ \A s \in DOMAIN receipts :
             receipts'[s] = receipts[s] \/ receipts'[s].status = "gap"
        /\ checkpoints' = checkpoints /\ attestations' = attestations
    BY <1>3, GapForms DEF IInv, environment
  <2> QED
    BY <1>h, <2>1 DEF VerifiedMeansSigned
<1>4. ASSUME NEW w \in Workers, SignVerify(w) PROVE VerifiedMeansSigned'
  <2> DEFINE c == signer[w].checkpoint
  <2>1. /\ c \in DOMAIN checkpoints
        /\ <<c, checkpoints[c].key>> \in attestations
        /\ SameChain
        /\ checkpoints'[c].status = "verified"
        /\ \A d \in DOMAIN checkpoints : d # c => checkpoints'[d] = checkpoints[d]
        /\ DOMAIN receipts' = DOMAIN receipts
        /\ \A s \in DOMAIN receipts :
             /\ receipts'[s].checkpoint = receipts[s].checkpoint
             /\ receipts[s].checkpoint # c => receipts'[s] = receipts[s]
        /\ attestations' = attestations
    BY <1>4, VerifyForms DEF IInv, environment
  <2> HIDE DEF c
  <2>2. /\ DOMAIN checkpoints' = DOMAIN checkpoints
        /\ \A d \in DOMAIN checkpoints : checkpoints'[d].key = checkpoints[d].key
    BY <2>1 DEF SameChain
  <2>3. \A d \in DOMAIN checkpoints' :
          checkpoints'[d].status = "verified" => <<d, checkpoints'[d].key>> \in attestations'
    BY <1>h, <2>1, <2>2
  <2>4. ASSUME NEW s \in DOMAIN receipts', receipts'[s].status = "verified"
        PROVE  /\ receipts'[s].checkpoint \in DOMAIN checkpoints'
               /\ checkpoints'[receipts'[s].checkpoint].status = "verified"
    <3>1. CASE receipts[s].checkpoint = c
      BY <2>1, <2>2, <2>4, <3>1
    <3>2. CASE receipts[s].checkpoint # c
      BY <1>h, <2>1, <2>2, <2>4, <3>2
    <3> QED
      BY <3>1, <3>2
  <2> QED
    BY <2>3, <2>4 DEF VerifiedMeansSigned
<1>5. CASE Quiet
  BY <1>5, <1>h DEF Quiet, SameChain, VerifiedMeansSigned
<1> QED
  BY <1>1, <1>2, <1>3, <1>4, <1>5, QuietSteps DEF IInv

------------------------------------------------------------------------------
(* The theorems.                                                           *)

\* The initial states satisfy the inductive invariant.
LEMMA InitIInv == Init => IInv
<1> SUFFICES ASSUME Init PROVE IInv
  OBVIOUS
<1>1. TypeOK
  <2>1. receipts \in Seq(Receipt) /\ outbox \in Seq(Nat) /\ checkpoints \in Seq(Checkpoint)
    BY DEF Init
  <2>2. stager \in [Workers -> [at : {"idle", "chosen"}, previous : Nat]]
        /\ signer \in [Workers -> [at : {"idle", "posted", "answered"}, checkpoint : Nat]]
    BY DEF Init, NotStaging, NotSigning
  <2>3. PICK i \in Instances, k \in Keys :
          config = [w \in Workers |-> [instance |-> i, key |-> k]] /\ sidecarKey = k
    BY DEF Init
  <2>4. config \in [Workers -> [instance : Instances, key : Keys]] /\ sidecarKey \in Keys
    BY <2>3
  <2>5. gaps \subseteq Gap /\ attestations \subseteq (Nat \X Keys) /\ changes \in Nat
    BY DEF Init
  <2> QED
    BY <2>1, <2>2, <2>4, <2>5 DEF TypeOK
<1>2. RangesOrdered /\ ChainUnbroken
  BY DEF Init, RangesOrdered, ChainUnbroken
<1>3. StagerHolds /\ SignerHolds
  BY DEF Init, StagerHolds, SignerHolds, NotStaging, NotSigning
<1>4. OutboxIsUnstagedTail
  BY DEF Init, OutboxIsUnstagedTail, Staged
<1>5. EveryReceiptHasAPath /\ VerifiedMeansSigned
  BY DEF Init, EveryReceiptHasAPath, VerifiedMeansSigned
<1> QED
  BY <1>1, <1>2, <1>3, <1>4, <1>5 DEF IInv

\* Every step preserves it.
LEMMA StepIInv == IInv /\ [Next]_vars => IInv'
<1> SUFFICES ASSUME IInv, [Next]_vars PROVE IInv'
  OBVIOUS
<1> QED
  BY StepTypeOK, StepRangesOrdered, StepStagerHolds, StepSignerHolds, StepOutbox,
     StepChain, StepReceipts, StepVerified DEF IInv

\* It holds in every reachable state.
THEOREM Invariance == Spec => []IInv
BY InitIInv, StepIInv, PTL DEF Spec

\* Every reachable state is well typed.
THEOREM TypeCorrect == Spec => []TypeOK
<1>1. IInv => TypeOK
  BY DEF IInv
<1> QED
  BY <1>1, Invariance, PTL

\* The outbox is what the chain has not reached (stage_checkpoint_once).
THEOREM OutboxIsTail == Spec => []OutboxIsUnstagedTail
<1>1. IInv => OutboxIsUnstagedTail
  BY DEF IInv
<1> QED
  BY <1>1, Invariance, PTL

\* The chain of checkpoints is never broken, whatever fails, is returned to
\* signing or is reconfigured between the worker's two reads.
THEOREM ChainIsUnbroken == Spec => []ChainUnbroken
<1>1. IInv => ChainUnbroken
  BY DEF IInv
<1> QED
  BY <1>1, Invariance, PTL

\* No receipt is stranded (stage_checkpoint_once, _record_gap).
THEOREM ReceiptsHaveAPath == Spec => []EveryReceiptHasAPath
<1>1. IInv => EveryReceiptHasAPath
  BY DEF IInv
<1> QED
  BY <1>1, Invariance, PTL

\* What says "verified" was signed (sign_checkpoint_once).
THEOREM VerifiedIsSigned == Spec => []VerifiedMeansSigned
<1>1. IInv => VerifiedMeansSigned
  BY DEF IInv
<1> QED
  BY <1>1, Invariance, PTL
------------------------------------------------------------------------------
(* The pipeline implements the sealed log.                                 *)

Blocks == [c \in DOMAIN checkpoints |->
             [first |-> checkpoints[c].first, last |-> checkpoints[c].last]]

Sealed == {c \in DOMAIN checkpoints : checkpoints[c].status = "verified"}

Block == [first : Nat, last : Nat]

\* The blocks are a sequence that ends where the chain does.
LEMMA BlocksForms ==
  TypeOK => /\ Blocks \in Seq(Block) /\ Len(Blocks) = Len(checkpoints)
            /\ Log!CutUpTo(Blocks) = Staged
<1> SUFFICES ASSUME TypeOK
             PROVE  /\ Blocks \in Seq(Block) /\ Len(Blocks) = Len(checkpoints)
                    /\ Log!CutUpTo(Blocks) = Staged
  OBVIOUS
<1>1. checkpoints \in Seq(Checkpoint) /\ Len(checkpoints) \in Nat
      /\ DOMAIN checkpoints = 1 .. Len(checkpoints)
  BY DEF TypeOK
<1>2. \A c \in DOMAIN checkpoints :
        [first |-> checkpoints[c].first, last |-> checkpoints[c].last] \in Block
  <2> SUFFICES ASSUME NEW c \in DOMAIN checkpoints
               PROVE  [first |-> checkpoints[c].first, last |-> checkpoints[c].last] \in Block
    OBVIOUS
  <2>1. checkpoints[c] \in Checkpoint
    BY <1>1
  <2> QED
    BY <2>1 DEF Checkpoint, Block
<1>3. Blocks \in [1 .. Len(checkpoints) -> Block]
  BY <1>1, <1>2 DEF Blocks
<1>4. Blocks \in Seq(Block) /\ Len(Blocks) = Len(checkpoints)
  BY <1>1, <1>3, FunctionIsSequence
<1>5. CASE checkpoints = <<>>
  <2>1. Blocks = <<>>
    BY <1>4, <1>5
  <2> QED
    BY <1>4, <1>5, <2>1 DEF Log!CutUpTo, Staged
<1>6. CASE checkpoints # <<>>
  <2>1. Len(checkpoints) \in DOMAIN checkpoints /\ Len(checkpoints) # 0
    BY <1>1, <1>6
  <2>2. Blocks # <<>>
    BY <1>4, <2>1
  <2>3. Blocks[Len(checkpoints)].last = checkpoints[Len(checkpoints)].last
    BY <2>1 DEF Blocks
  <2> QED
    BY <1>4, <1>6, <2>2, <2>3 DEF Log!CutUpTo, Staged
<1> QED
  BY <1>4, <1>5, <1>6

\* Relabelling leaves the blocks alone.
LEMMA BlocksSame ==
  ASSUME SameChain
  PROVE  Blocks' = Blocks
BY DEF SameChain, Blocks

\* Two sequences with the same length and elements.
LEMMA AppendIs ==
  ASSUME NEW S, NEW s \in Seq(S), NEW e \in S, NEW t \in Seq(S),
         Len(t) = Len(s) + 1, t[Len(s) + 1] = e, \A i \in DOMAIN s : t[i] = s[i]
  PROVE  t = Append(s, e)
OBVIOUS

\* Staging cuts the next block.
LEMMA StageCuts ==
  ASSUME IInv, TypeOK', NEW w \in Workers, Stage(w)
  PROVE  /\ \E n \in (Staged + 1) .. Len(receipts) :
              Blocks' = Append(Blocks, [first |-> Staged + 1, last |-> n])
         /\ Len(receipts') = Len(receipts)
         /\ Sealed' = Sealed
<1>t. /\ checkpoints \in Seq(Checkpoint) /\ Len(checkpoints) \in Nat
      /\ DOMAIN checkpoints = 1 .. Len(checkpoints)
      /\ outbox \in Seq(Nat) /\ Len(outbox) \in Nat /\ Staged \in Nat
      /\ Staged + Len(outbox) = Len(receipts)
  BY StagedForms DEF IInv, TypeOK, OutboxIsUnstagedTail
<1>n. PICK n \in Nat \ {0} : n = Len(checkpoints) + 1
  BY <1>t
<1>k. PICK k \in Nat \ {0} : k = BatchSize /\ k <= Len(outbox)
  <2>1. BatchSize \in 1 .. Len(outbox)
    BY StageForms DEF IInv
  <2> QED
    BY <1>t, <2>1
<1>1. /\ DOMAIN checkpoints' = DOMAIN checkpoints \union {n}
      /\ Len(checkpoints') = n
      /\ \A c \in DOMAIN checkpoints : checkpoints'[c] = checkpoints[c]
      /\ checkpoints'[n].first = Staged + 1
      /\ checkpoints'[n].last = Staged + k
      /\ checkpoints'[n].status = "signing"
  BY <1>n, <1>k, StageForms DEF IInv
<1> DEFINE block == [first |-> Staged + 1, last |-> Staged + k]
<1>2. block \in Block
  BY <1>t, <1>k DEF Block
<1>3. /\ Blocks \in Seq(Block) /\ Len(Blocks) = Len(checkpoints)
      /\ Blocks' \in Seq(Block) /\ Len(Blocks') = n
  <2>1. (TypeOK => /\ Blocks \in Seq(Block) /\ Len(Blocks) = Len(checkpoints)
                   /\ Log!CutUpTo(Blocks) = Staged)'
    BY BlocksForms, PTL
  <2> QED
    BY <1>1, <2>1, BlocksForms DEF IInv
<1>4. Blocks'[n] = block
  BY <1>1 DEF Blocks
<1>5. \A c \in DOMAIN checkpoints : Blocks'[c] = Blocks[c]
  BY <1>1 DEF Blocks
<1>6. DOMAIN Blocks = DOMAIN checkpoints
  BY DEF Blocks
<1> HIDE DEF block
<1>7. Blocks' = Append(Blocks, block)
  BY <1>2, <1>3, <1>4, <1>5, <1>6, <1>n, AppendIs
<1>8. Sealed' = Sealed
  BY <1>1, <1>n DEF Sealed
<1>9. Len(receipts') = Len(receipts)
  BY StageMoves DEF IInv
<1>10. Staged + k \in (Staged + 1) .. Len(receipts)
  BY <1>t, <1>k
<1> QED
  BY <1>7, <1>8, <1>9, <1>10 DEF block

\* Every step of the pipeline is a step of the sealed log or changes nothing of
\* it.
LEMMA StepRefines == IInv /\ TypeOK' /\ [Next]_vars => [Log!Next]_Log!vars
<1> SUFFICES ASSUME IInv, TypeOK', [Next]_vars PROVE [Log!Next]_Log!vars
  OBVIOUS
<1>stutter. ASSUME Len(receipts') = Len(receipts), Blocks' = Blocks, Sealed' = Sealed
            PROVE  UNCHANGED Log!vars
  BY <1>stutter DEF Log!vars, Blocks, Sealed
<1>1. CASE CommitReceipt
  <2>1. Len(receipts') = Len(receipts) + 1 /\ checkpoints' = checkpoints
    BY <1>1, CommitForms DEF IInv
  <2>2. Blocks' = Blocks /\ Sealed' = Sealed
    BY <2>1 DEF Blocks, Sealed
  <2>3. Log!Extend
    BY <2>1, <2>2 DEF Log!Extend, Blocks, Sealed
  <2> QED
    BY <2>3 DEF Log!Next
<1>2. ASSUME NEW w \in Workers, Stage(w) PROVE Log!Cut
  <2>1. /\ \E n \in (Staged + 1) .. Len(receipts) :
             Blocks' = Append(Blocks, [first |-> Staged + 1, last |-> n])
        /\ Len(receipts') = Len(receipts)
        /\ Sealed' = Sealed
    BY <1>2, StageCuts
  <2>2. Log!CutUpTo(Blocks) = Staged
    BY BlocksForms DEF IInv
  <2> QED
    BY <2>1, <2>2 DEF Log!Cut, Blocks, Sealed
<1>3. ASSUME NEW w \in Workers, StageGap(w) PROVE UNCHANGED Log!vars
  <2>1. Len(receipts') = Len(receipts) /\ checkpoints' = checkpoints
    BY <1>3, GapForms DEF IInv
  <2> QED
    BY <2>1, <1>stutter DEF Blocks, Sealed
<1>4. ASSUME NEW w \in Workers, SignVerify(w) PROVE Log!Seal
  <2> DEFINE c == signer[w].checkpoint
  <2>1. /\ c \in DOMAIN checkpoints
        /\ checkpoints[c].status = "signing" /\ checkpoints'[c].status = "verified"
        /\ \A d \in DOMAIN checkpoints : d # c => checkpoints'[d] = checkpoints[d]
        /\ SameChain
        /\ Len(receipts') = Len(receipts)
    BY <1>4, VerifyForms DEF IInv
  <2> HIDE DEF c
  <2>2. Blocks' = Blocks
    BY <2>1, BlocksSame
  <2>3. DOMAIN checkpoints' = DOMAIN checkpoints
    BY <2>1 DEF SameChain
  <2>4. c \notin Sealed /\ Sealed' = Sealed \union {c}
    BY <2>1, <2>3 DEF Sealed
  <2>5. DOMAIN Blocks = DOMAIN checkpoints
    BY DEF Blocks
  <2>6. c \in DOMAIN Blocks \ Sealed
    BY <2>1, <2>4, <2>5
  <2> QED
    BY <2>1, <2>2, <2>4, <2>6 DEF Log!Seal, Blocks, Sealed
<1>5. CASE Quiet
  <2>1. SameChain /\ Len(receipts') = Len(receipts)
        /\ \A c \in DOMAIN checkpoints :
             checkpoints'[c].status = "verified" <=> checkpoints[c].status = "verified"
    BY <1>5 DEF Quiet
  <2>2. Sealed' = Sealed
    BY <2>1 DEF Sealed, SameChain
  <2> QED
    BY <2>1, <2>2, <1>stutter, BlocksSame
<1> QED
  BY <1>1, <1>2, <1>3, <1>4, <1>5, QuietSteps DEF IInv, Log!Next

\* The tables of the pipeline are an append-only log, cut into consecutive blocks
\* that are sealed once and for all.
THEOREM Implements == Spec => ImplementsSealedLog
<1>1. Init => Log!Init
  <2> SUFFICES ASSUME Init PROVE Log!Init
    OBVIOUS
  <2>1. Len(receipts) = 0 /\ checkpoints = <<>>
    BY DEF Init
  <2>2. DOMAIN checkpoints = {}
    BY <2>1
  <2>3. [c \in DOMAIN checkpoints |->
           [first |-> checkpoints[c].first, last |-> checkpoints[c].last]] = <<>>
    BY <2>2
  <2>4. {c \in DOMAIN checkpoints : checkpoints[c].status = "verified"} = {}
    BY <2>2
  <2> QED
    BY <2>1, <2>3, <2>4 DEF Log!Init
<1>2. IInv /\ IInv' /\ [Next]_vars => [Log!Next]_Log!vars
  BY StepRefines DEF IInv
<1> QED
  BY <1>1, <1>2, Invariance, PTL DEF Spec, ImplementsSealedLog, Log!Spec

------------------------------------------------------------------------------
(* An outage shorter than the retry budget.                                *)

\* What the run AuditTrail_outage is about: signing fails fewer times than the budget allows, and
\* all processes carry the one instance id of the installation.
ShortOutage ==
  /\ OutageLength < MaxAttempts
  /\ \A i, j \in Instances : i = j

\* No checkpoint fails for good, and the worker's previous checkpoint is the last one.
NoneFailed ==
  \A c \in DOMAIN checkpoints : checkpoints[c].status # "failed"

StagerCurrent ==
  \A w \in Workers :
    stager[w].at = "chosen" => stager[w].previous = Len(checkpoints)

WholeInv == IInv /\ NoneFailed /\ StagerCurrent /\ NoFalseGap

\* In a short outage no failed attempt is the last.
LEMMA FailRetries ==
  ASSUME TypeOK, NoneFailed, ShortOutage, NEW c \in DOMAIN checkpoints, Fail(c)
  PROVE  NoneFailed'
<1> DEFINE attempts == checkpoints[c].attempts + 1
           status == IF attempts >= MaxAttempts THEN "failed" ELSE "signing"
<1>1. checkpoints[c] \in Checkpoint
  BY DEF TypeOK
<1>2. attempts \in Nat /\ attempts <= OutageLength
  BY <1>1 DEF Checkpoint, Fail
<1>3. status = "signing"
  BY <1>2, ConstantsAssumption DEF ShortOutage
<1>4. checkpoints' = [checkpoints EXCEPT ![c].status = status, ![c].attempts = attempts]
  BY DEF Fail
<1>5. "signing" \in CheckpointStatus
  BY DEF CheckpointStatus
<1> HIDE DEF attempts, status
<1>6. /\ SameChain /\ checkpoints'[c].status = "signing"
      /\ \A d \in DOMAIN checkpoints : d # c => checkpoints'[d] = checkpoints[d]
  BY <1>2, <1>3, <1>4, <1>5, RelabelKeeps
<1> QED
  BY <1>6 DEF NoneFailed, SameChain

\* So no step leaves a checkpoint failed.
LEMMA StepNoneFailed ==
  ASSUME IInv, NoneFailed, ShortOutage, [Next]_vars
  PROVE  NoneFailed'
<1>1. CASE CommitReceipt
  BY <1>1, CommitForms DEF IInv, NoneFailed
<1>2. ASSUME NEW w \in Workers, Stage(w) PROVE NoneFailed'
  <2>1. /\ DOMAIN checkpoints' = DOMAIN checkpoints \union {Len(checkpoints) + 1}
        /\ \A c \in DOMAIN checkpoints : checkpoints'[c] = checkpoints[c]
        /\ checkpoints'[Len(checkpoints) + 1].status = "signing"
    BY <1>2, StageForms DEF IInv
  <2> QED
    BY <2>1 DEF NoneFailed
<1>3. ASSUME NEW w \in Workers, StageGap(w) PROVE NoneFailed'
  BY <1>3 DEF StageGap, NoneFailed
<1>4. ASSUME NEW w \in Workers, SignVerify(w) PROVE NoneFailed'
  <2>1. \E c \in DOMAIN checkpoints :
          /\ checkpoints'[c].status = "verified" /\ DOMAIN checkpoints' = DOMAIN checkpoints
          /\ \A d \in DOMAIN checkpoints : d # c => checkpoints'[d] = checkpoints[d]
    BY <1>4, VerifyForms DEF IInv, SameChain
  <2> QED
    BY <2>1 DEF NoneFailed
<1>5. ASSUME NEW w \in Workers, SignWrongKey(w) PROVE NoneFailed'
  <2>1. PICK c \in DOMAIN checkpoints : Fail(c)
    BY <1>5 DEF SignWrongKey
  <2> QED
    BY <2>1, FailRetries DEF IInv
<1>6. ASSUME NEW w \in Workers, SignError(w) PROVE NoneFailed'
  <2>1. signer[w].checkpoint \in DOMAIN checkpoints /\ Fail(signer[w].checkpoint)
    BY <1>6 DEF SignError, IInv, SignerHolds
  <2> QED
    BY <2>1, FailRetries DEF IInv
<1>7. ASSUME NEW w \in Workers, StageChoose(w) \/ SignClaim(w) \/ Attest(w)
                                \/ Crash(w) \/ Reconfigure(w)
      PROVE  NoneFailed'
  BY <1>7 DEF StageChoose, SignClaim, Attest, Crash, Reconfigure, db, NoneFailed
<1>8. ASSUME NEW c \in DOMAIN checkpoints, ReturnToSigning(c) PROVE NoneFailed'
  BY <1>8 DEF ReturnToSigning, NoneFailed
<1>9. CASE RotateSidecar \/ (\E g \in gaps : ResolveGap(g)) \/ UNCHANGED vars
  BY <1>9 DEF RotateSidecar, ResolveGap, db, vars, NoneFailed
<1> QED
  BY <1>1, <1>2, <1>3, <1>4, <1>5, <1>6, <1>7, <1>8, <1>9 DEF Next, Process, Operator

\* While none has failed, the latest live checkpoint is the last one.
LEMMA PreviousIsLast ==
  ASSUME IInv, NoneFailed, ShortOutage, NEW w \in Workers, NEW c \in 0 .. Len(checkpoints),
         IsPrevious(c, config[w].instance)
  PROVE  c = Len(checkpoints)
<1> DEFINE n == Len(checkpoints)
<1>1. /\ DOMAIN checkpoints = 1 .. n /\ config[w].instance \in Instances
      /\ \A d \in DOMAIN checkpoints : checkpoints[d] \in Checkpoint
  BY DEF IInv, TypeOK
<1>2. Live(config[w].instance) = DOMAIN checkpoints
  BY <1>1 DEF Live, NoneFailed, ShortOutage, Checkpoint
<1>3. SUFFICES ASSUME c # n PROVE FALSE
  OBVIOUS
<1> HIDE DEF n
<1>4. n \in DOMAIN checkpoints /\ c < n
  <2>1. n \in Nat /\ c \in 0 .. n
    BY <1>1 DEF n
  <2> QED
    BY <1>1, <1>3, <2>1
<1>5. c \in DOMAIN checkpoints /\ checkpoints[n].last <= checkpoints[c].last
  BY <1>2, <1>4 DEF IsPrevious
<1>6. /\ checkpoints[c].last < checkpoints[n].first
      /\ checkpoints[n].first <= checkpoints[n].last
  BY <1>4, <1>5 DEF IInv, RangesOrdered, ChainUnbroken
<1>7. checkpoints[c].last \in Nat /\ checkpoints[n].first \in Nat /\ checkpoints[n].last \in Nat
  BY <1>1, <1>4, <1>5 DEF Checkpoint
<1> QED
  BY <1>5, <1>6, <1>7

\* The worker's previous checkpoint stays the last: only its own step adds one.
LEMMA StepStagerCurrent ==
  ASSUME IInv, NoneFailed, StagerCurrent, ShortOutage, [Next]_vars
  PROVE  StagerCurrent'
<1>t. stager \in [Workers -> [at : {"idle", "chosen"}, previous : Nat]]
  BY DEF IInv, TypeOK
<1>e. ASSUME NEW w \in Workers, stager' = [stager EXCEPT ![w] = NotStaging],
             Len(checkpoints') = Len(checkpoints)
      PROVE  StagerCurrent'
  BY <1>t, <1>e DEF StagerCurrent, NotStaging
<1>u. ASSUME UNCHANGED stager, Len(checkpoints') = Len(checkpoints) PROVE StagerCurrent'
  BY <1>u DEF StagerCurrent
<1>1. CASE CommitReceipt
  BY <1>1, <1>u, CommitForms DEF IInv
<1>2. ASSUME NEW w \in Workers, StageChoose(w) PROVE StagerCurrent'
  <2>1. PICK c \in 0 .. Len(checkpoints) :
          /\ IsPrevious(c, config[w].instance)
          /\ stager' = [stager EXCEPT ![w] = [at |-> "chosen", previous |-> c]]
    BY <1>2 DEF StageChoose
  <2>2. c = Len(checkpoints) /\ checkpoints' = checkpoints
    BY <1>2, <2>1, PreviousIsLast DEF StageChoose, db
  <2> QED
    BY <1>t, <2>1, <2>2 DEF StagerCurrent
<1>3. ASSUME NEW w \in Workers, Stage(w) PROVE StagerCurrent'
  <2>1. stager[w].at = "chosen" /\ stager' = [stager EXCEPT ![w] = NotStaging]
    BY <1>3 DEF Stage
  <2>2. \A v \in Workers : stager'[v].at # "chosen"
    BY <1>t, <2>1 DEF IInv, StagerHolds, NotStaging
  <2> QED
    BY <2>2 DEF StagerCurrent
<1>4. ASSUME NEW w \in Workers, StageGap(w) \/ Crash(w) \/ Reconfigure(w) PROVE StagerCurrent'
  BY <1>4, <1>e DEF StageGap, Crash, Reconfigure, db
<1>5. ASSUME NEW w \in Workers, SignVerify(w) PROVE StagerCurrent'
  BY <1>5, <1>u, VerifyForms DEF IInv, SameChain, SignVerify
<1>6. ASSUME NEW w \in Workers, SignWrongKey(w) PROVE StagerCurrent'
  <2>1. PICK c \in DOMAIN checkpoints : Fail(c)
    BY <1>6 DEF SignWrongKey
  <2> QED
    BY <1>6, <1>u, <2>1, FailForms DEF SignWrongKey, IInv, SameChain
<1>7. ASSUME NEW w \in Workers, SignError(w) PROVE StagerCurrent'
  <2>1. signer[w].checkpoint \in DOMAIN checkpoints /\ Fail(signer[w].checkpoint)
    BY <1>7 DEF SignError, IInv, SignerHolds
  <2> QED
    BY <1>7, <1>u, <2>1, FailForms DEF SignError, IInv, SameChain
<1>8. ASSUME NEW w \in Workers, SignClaim(w) \/ Attest(w) PROVE StagerCurrent'
  BY <1>8, <1>u DEF SignClaim, Attest, db
<1>9. ASSUME NEW c \in DOMAIN checkpoints, ReturnToSigning(c) PROVE StagerCurrent'
  BY <1>9, <1>u, ReturnKeeps DEF ReturnToSigning, IInv, SameChain
<1>10. CASE RotateSidecar \/ (\E g \in gaps : ResolveGap(g)) \/ UNCHANGED vars
  BY <1>10, <1>u DEF RotateSidecar, ResolveGap, db, vars
<1> QED
  BY <1>1, <1>2, <1>3, <1>4, <1>5, <1>6, <1>7, <1>8, <1>9, <1>10 DEF Next, Process, Operator

\* So the outbox always fits, and the worker has no gap to record.
LEMMA NoGapStaged ==
  ASSUME IInv, StagerCurrent, NEW w \in Workers, StageGap(w)
  PROVE  FALSE
<1>1. stager[w].at = "chosen" /\ Deviations(stager[w].previous) # {}
  BY DEF StageGap
<1>2. outbox # <<>> /\ stager[w].previous = Len(checkpoints) /\ Len(checkpoints) \in Nat
  BY <1>1 DEF IInv, StagerHolds, StagerCurrent, TypeOK
<1>3. ExpectedFirst(Len(checkpoints)) = Staged + 1 /\ Staged \in Nat
  BY <1>2, ExpectedForms, StagedForms DEF IInv
<1>4. BatchSize \in 1 .. Len(outbox) /\ DOMAIN outbox = 1 .. Len(outbox) /\ Len(outbox) \in Nat
  BY <1>2, BatchForms DEF IInv, TypeOK
<1>5. \A i \in 1 .. BatchSize : outbox[i] = Staged + i
  BY <1>4 DEF IInv, OutboxIsUnstagedTail
<1>6. \A i \in 1 .. BatchSize : outbox[i] = ExpectedFirst(stager[w].previous) + i - 1
  BY <1>2, <1>3, <1>4, <1>5
<1> QED
  BY <1>1, <1>6 DEF Deviations

\* No step but the worker's records a gap or puts a receipt into one, and a step that changes
\* a receipt takes it on: from waiting to its batch, or to verified.
LEMMA ReceiptsAdvance ==
  ASSUME IInv, [Next]_vars, \A w \in Workers : ~StageGap(w)
  PROVE  /\ gaps' \subseteq gaps
         /\ DOMAIN receipts \subseteq DOMAIN receipts'
         /\ \A s \in DOMAIN receipts' : s \in DOMAIN receipts \/ receipts'[s].status = "pending"
         /\ \A s \in DOMAIN receipts :
              \/ receipts'[s].status = receipts[s].status
              \/ receipts[s].status = "pending" /\ receipts'[s].status = "batched"
              \/ receipts'[s].status = "verified"
<1> DEFINE Goal ==
      /\ gaps' \subseteq gaps
      /\ DOMAIN receipts \subseteq DOMAIN receipts'
      /\ \A s \in DOMAIN receipts' : s \in DOMAIN receipts \/ receipts'[s].status = "pending"
      /\ \A s \in DOMAIN receipts :
           \/ receipts'[s].status = receipts[s].status
           \/ receipts[s].status = "pending" /\ receipts'[s].status = "batched"
           \/ receipts'[s].status = "verified"
<1>1. ASSUME CommitReceipt PROVE Goal
  <2>1. /\ gaps' = gaps /\ DOMAIN receipts' = DOMAIN receipts \union {Len(receipts) + 1}
        /\ receipts'[Len(receipts) + 1] = [status |-> "pending", checkpoint |-> 0]
        /\ \A s \in DOMAIN receipts : receipts'[s] = receipts[s]
    BY <1>1, CommitForms DEF IInv
  <2> QED
    BY <2>1
<1>2. ASSUME NEW w \in Workers, Stage(w) PROVE Goal
  <2>1. /\ gaps' = gaps /\ DOMAIN receipts' = DOMAIN receipts
        /\ \A s \in DOMAIN receipts :
             IF Staged < s /\ s <= Staged + BatchSize
               THEN receipts'[s] = [status |-> "batched", checkpoint |-> Len(checkpoints) + 1]
               ELSE receipts'[s] = receipts[s]
    BY <1>2, StageMoves DEF IInv, Stage
  <2>2. ASSUME NEW s \in DOMAIN receipts, Staged < s
        PROVE  receipts[s].status = "pending"
    <3>1. \A c \in DOMAIN checkpoints : checkpoints[c].last <= Staged
      BY LastAtMostStaged DEF IInv
    <3>2. \A c \in DOMAIN checkpoints : checkpoints[c].last \in Nat
      <4>1. \A c \in DOMAIN checkpoints : checkpoints[c] \in Checkpoint
        BY DEF IInv, TypeOK
      <4> QED
        BY <4>1 DEF Checkpoint
    <3>3. Staged \in Nat /\ s \in Nat
      BY StagedForms DEF IInv, TypeOK
    <3>4. \A c \in DOMAIN checkpoints : ~(s <= checkpoints[c].last)
      BY <2>2, <3>1, <3>2, <3>3
    <3> QED
      BY <3>4 DEF IInv, EveryReceiptHasAPath
  <2> QED
    BY <2>1, <2>2
<1>3. ASSUME NEW w \in Workers, SignVerify(w) PROVE Goal
  <2>1. /\ gaps' = gaps /\ DOMAIN receipts' = DOMAIN receipts
        /\ \A s \in DOMAIN receipts :
             /\ receipts[s].checkpoint = signer[w].checkpoint => receipts'[s].status = "verified"
             /\ receipts[s].checkpoint # signer[w].checkpoint => receipts'[s] = receipts[s]
    BY <1>3, VerifyForms DEF IInv
  <2> QED
    BY <2>1
<1>4. ASSUME NEW w \in Workers, SignWrongKey(w) \/ SignError(w) PROVE Goal
  BY <1>4 DEF SignWrongKey, SignError, Fail
<1>5. ASSUME NEW w \in Workers, StageChoose(w) \/ SignClaim(w) \/ Attest(w)
                                \/ Crash(w) \/ Reconfigure(w)
      PROVE  Goal
  BY <1>5 DEF StageChoose, SignClaim, Attest, Crash, Reconfigure, db
<1>6. ASSUME Operator PROVE Goal
  BY <1>6 DEF Operator, RotateSidecar, ReturnToSigning, ResolveGap, db
<1>7. ASSUME UNCHANGED vars PROVE Goal
  BY <1>7 DEF vars
<1> HIDE DEF Goal
<1>8. Goal
  BY <1>1, <1>2, <1>3, <1>4, <1>5, <1>6, <1>7 DEF Next, Process
<1> QED
  BY <1>8 DEF Goal

\* In a short outage all of it is kept.
LEMMA WholeAlways == ASSUME ShortOutage PROVE Spec => []WholeInv
<1>1. Init => WholeInv
  <2> SUFFICES ASSUME Init PROVE WholeInv
    OBVIOUS
  <2>1. IInv
    BY InitIInv
  <2>2. NoneFailed /\ StagerCurrent /\ NoFalseGap
    BY DEF Init, NoneFailed, StagerCurrent, NoFalseGap, NotStaging
  <2> QED
    BY <2>1, <2>2 DEF WholeInv
<1>2. WholeInv /\ [Next]_vars => WholeInv'
  <2> SUFFICES ASSUME WholeInv, [Next]_vars PROVE WholeInv'
    OBVIOUS
  <2>1. IInv' /\ NoneFailed' /\ StagerCurrent'
    BY StepIInv, StepNoneFailed, StepStagerCurrent DEF WholeInv
  <2>2. \A w \in Workers : ~StageGap(w)
    BY NoGapStaged DEF WholeInv
  <2>3. NoFalseGap'
    BY <2>2, ReceiptsAdvance DEF WholeInv, NoFalseGap
  <2> QED
    BY <2>1, <2>3 DEF WholeInv
<1> QED
  BY <1>1, <1>2, PTL DEF Spec

\* While signing fails fewer times than the retry budget allows, no gap is ever declared and no
\* receipt is put into one, whichever processes crash, are reconfigured or overlap: the worker
\* never finds its chain broken (audit_worker.py:67-115, audit_signer.py:162-177).
THEOREM NoGapIsFalse == ASSUME ShortOutage PROVE Spec => []NoFalseGap
<1>1. WholeInv => NoFalseGap
  BY DEF WholeInv
<1> QED
  BY <1>1, WholeAlways, PTL

\* Nor does a step ever take a receipt back on its way from pending over batched to verified
\* (audit_worker.py:90-171, audit_signer.py:109-131).
THEOREM ReceiptsGoForward == ASSUME ShortOutage PROVE Spec => LifecycleForward
<1>1. WholeInv /\ [Next]_vars =>
        \A s \in DOMAIN receipts : Phase(receipts[s].status) <= Phase(receipts'[s].status)
  <2> SUFFICES ASSUME WholeInv, [Next]_vars, NEW s \in DOMAIN receipts
               PROVE  Phase(receipts[s].status) <= Phase(receipts'[s].status)
    OBVIOUS
  <2>1. \A w \in Workers : ~StageGap(w)
    BY NoGapStaged DEF WholeInv
  <2>2. \/ receipts'[s].status = receipts[s].status
        \/ receipts[s].status = "pending" /\ receipts'[s].status = "batched"
        \/ receipts'[s].status = "verified"
    BY <2>1, ReceiptsAdvance DEF WholeInv
  <2>3. receipts[s].status \in ReceiptStatus
    <3>1. receipts[s] \in Receipt
      BY DEF WholeInv, IInv, TypeOK
    <3> QED
      BY <3>1 DEF Receipt
  <2>4. \A status \in ReceiptStatus : Phase(status) \in 0 .. 3
    BY DEF Phase, ReceiptStatus
  <2>5. Phase("pending") = 1 /\ Phase("batched") = 2 /\ Phase("verified") = 3
    BY DEF Phase
  <2> HIDE DEF Phase
  <2> QED
    BY <2>2, <2>3, <2>4, <2>5
<1> QED
  BY <1>1, WholeAlways, PTL DEF Spec, LifecycleForward
==============================================================================
