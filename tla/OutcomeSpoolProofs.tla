-------------------------- MODULE OutcomeSpoolProofs --------------------------
(***************************************************************************)
(* TLAPS proofs about OutcomeSpool, for any sets of requests and control   *)
(* events: the evidence sequence is gapless, a spooled outcome is kept and *)
(* a replay changes no evidence.                                           *)
(***************************************************************************)
EXTENDS OutcomeSpool, TLAPS

\* The counter row is locked by the one transaction that took a number, which
\* is the last number taken; no open transaction writes what is recorded.
CounterLocked ==
  /\ \A v, w \in Writers : allocated[v] # 0 /\ allocated[w] # 0 => v = w
  /\ \A w \in Writers : allocated[w] # 0 <=> tx[w] = "numbered"
  /\ \A w \in Writers : allocated[w] # 0 => allocated[w] = nextSequence - 1
  /\ \A w \in Writers : tx[w] \in {"inserted", "numbered"} => w \notin recorded

\* Who has a transaction open: drain one, for the readable line at its cursor; a
\* serving process its handlers that write; a process that is down nobody.
TxOwned ==
  /\ phase = "draining" =>
       /\ cursor \in 1 .. (Len(spool) + 1)
       /\ \A w \in Writers : tx[w] # "none" =>
            /\ cursor \in DOMAIN spool
            /\ spool[cursor].decision = w
            /\ Whole(spool[cursor])
  /\ phase = "serving" =>
       \A w \in Writers : tx[w] # "none" => handler[w] = "writing"
  /\ phase \in {"down", "no_pool"} => \A w \in Writers : tx[w] = "none"

\* Behind the cursor every readable line is recorded or will be written back.
DrainKept ==
  phase = "draining" =>
    \A i \in DOMAIN spool :
      i < cursor /\ Whole(spool[i]) =>
        \/ spool[i].decision \in recorded
        \/ \E k \in DOMAIN remaining : remaining[k] = spool[i]

IInv ==
  /\ TypeOK
  /\ CounterLocked
  /\ TxOwned
  /\ EvidenceGapless
  /\ DrainKept
  /\ SpooledIsKept

------------------------------------------------------------------------------
(* What the steps of a transaction come down to.                           *)

\* A transaction step inserts, takes a number, commits or rolls back, and only
\* the last two reach the caller.
LEMMA TransactForms ==
  ASSUME NEW w \in Writers, Transact(w)
  PROVE  /\ tx[w] # "none"
         /\ spool' = spool /\ phase' = phase
         /\ \/ TxInsert(w) /\ UNCHANGED <<handler, cursor, firstFailure, remaining>>
            \/ TxAllocate(w) /\ UNCHANGED <<handler, cursor, firstFailure, remaining>>
            \/ Commit(w) /\ (Succeed(w) \/ Raise(w) \/ Cancelled(w))
            \/ Discard(w) /\ (Raise(w) \/ Cancelled(w))
BY DEF Transact, TxInsert, TxAllocate, TxCommit, TxCommitUnacknowledged,
       TxDuplicate, TxFail, TxCancel, Discard, Commit, drain

\* What a handler's step does to the file: nothing, or one append.
LEMMA HandleForms ==
  ASSUME NEW d \in Decisions, Handle(d)
  PROVE  /\ cursor' = cursor /\ firstFailure' = firstFailure /\ remaining' = remaining
         /\ phase = "serving" /\ phase' = phase
         /\ UNCHANGED <<tx, allocated, nextSequence, recorded, sequenceOf>>
         /\ \/ spool' = spool
            \/ spool' = Append(spool, [decision |-> d, form |-> "whole"])
            \/ spool' = Append(spool, [decision |-> d, form |-> "torn"])
            \/ TornTail /\ spool' = [spool EXCEPT ![Len(spool)].form = "glued"]
<1>1. CASE Precapture(d)
  BY <1>1 DEF Precapture, drain, transactions, database
<1>2. CASE SpoolAppend(d)
  BY <1>2 DEF SpoolAppend, drain, transactions, database
<1>3. CASE SpoolAppendFails(d)
  BY <1>3 DEF SpoolAppendFails, drain, transactions, database
<1> QED
  BY <1>1, <1>2, <1>3 DEF Handle

\* The line a transaction of the drain is about is a line of the file.
LEMMA DrainLine ==
  ASSUME TypeOK, TxOwned, phase = "draining", NEW w \in Writers, tx[w] # "none"
  PROVE  cursor \in DOMAIN spool /\ spool[cursor] \in Line
BY DEF TypeOK, SpoolTypeOK, TxOwned

\* Appending keeps what was there and adds the new element at the end.
LEMMA AppendKeeps ==
  ASSUME NEW S, NEW s \in Seq(S), NEW e \in S
  PROVE  /\ Append(s, e) \in Seq(S)
         /\ \A k \in DOMAIN s : k \in DOMAIN Append(s, e) /\ Append(s, e)[k] = s[k]
         /\ Len(s) + 1 \in DOMAIN Append(s, e)
         /\ Append(s, e)[Len(s) + 1] = e
OBVIOUS

\* The lines an append adds are lines.
LEMMA NewLines ==
  ASSUME NEW d \in Decisions
  PROVE  /\ [decision |-> d, form |-> "whole"] \in Line
         /\ [decision |-> d, form |-> "torn"] \in Line
BY DEF Line

\* Appending onto a torn line spoils that line and touches no other.
LEMMA GlueKeeps ==
  ASSUME SpoolTypeOK, TornTail, spool' = [spool EXCEPT ![Len(spool)].form = "glued"]
  PROVE  /\ spool' \in Seq(Line)
         /\ DOMAIN spool' = DOMAIN spool
         /\ \A i \in DOMAIN spool : Whole(spool[i]) => spool'[i] = spool[i]
<1>1. Len(spool) \in DOMAIN spool /\ spool[Len(spool)].form = "torn"
  BY DEF TornTail, SpoolTypeOK
<1>2. spool[Len(spool)] \in Line
  BY <1>1 DEF SpoolTypeOK
<1>3. [spool[Len(spool)] EXCEPT !.form = "glued"] \in Line
  BY <1>2 DEF Line
<1>4. spool' \in Seq(Line) /\ DOMAIN spool' = DOMAIN spool
  BY <1>1, <1>3 DEF SpoolTypeOK
<1>5. ASSUME NEW i \in DOMAIN spool, Whole(spool[i]) PROVE spool'[i] = spool[i]
  BY <1>1, <1>5 DEF Whole, SpoolTypeOK
<1> QED
  BY <1>4, <1>5

------------------------------------------------------------------------------
(* Type correctness.                                                       *)

\* The phase and the handlers keep their types.
LEMMA StepProcessTypeOK == TypeOK /\ [Next]_vars => ProcessTypeOK'
<1> SUFFICES ASSUME TypeOK, [Next]_vars PROVE ProcessTypeOK'
  OBVIOUS
<1> USE DEF TypeOK, ProcessTypeOK, HandlerStates
<1>1. ASSUME NEW w \in Writers, Transact(w) PROVE ProcessTypeOK'
  BY <1>1, TransactForms DEF Succeed, Raise, Cancelled
<1>2. ASSUME NEW w \in Writers, BeginWrite(w) PROVE ProcessTypeOK'
  BY <1>2 DEF BeginWrite
<1>3. ASSUME NEW d \in Decisions, Handle(d) PROVE ProcessTypeOK'
  BY <1>3 DEF Handle, Precapture, SpoolAppend, SpoolAppendFails
<1>4. CASE StartDraining \/ StartWithoutPool \/ DrainStep \/ DrainRewriteFails
  BY <1>4 DEF StartDraining, StartWithoutPool, DrainStep, DrainRewriteFails,
              DrainBad, DrainKeep, DrainReplay, DrainRewrite
<1>5. CASE Stop \/ CrashInDrain
  BY <1>5 DEF Stop, CrashInDrain, Halt
<1>6. CASE UNCHANGED vars
  BY <1>6 DEF vars
<1> QED
  BY <1>1, <1>2, <1>3, <1>4, <1>5, <1>6 DEF Next

\* The tables and transactions keep their types: a rollback gives back a number
\* that was taken, so the counter stays positive.
LEMMA StepDatabaseTypeOK ==
  TypeOK /\ CounterLocked /\ [Next]_vars => DatabaseTypeOK'
<1> SUFFICES ASSUME TypeOK, CounterLocked, [Next]_vars PROVE DatabaseTypeOK'
  OBVIOUS
<1> USE DEF TypeOK, DatabaseTypeOK, database, transactions
<1>1. ASSUME NEW w \in Writers, Transact(w) PROVE DatabaseTypeOK'
  <2>1. CASE TxInsert(w)
    BY <2>1 DEF TxInsert
  <2>2. CASE TxAllocate(w)
    BY <2>2 DEF TxAllocate
  <2>3. CASE Commit(w)
    BY <2>3 DEF Commit, EndTx
  <2>4. CASE Discard(w)
    BY <2>4 DEF Discard, Rollback, EndTx
  <2> QED
    BY <1>1, <2>1, <2>2, <2>3, <2>4, TransactForms
<1>2. ASSUME NEW w \in Writers, BeginWrite(w) PROVE DatabaseTypeOK'
  BY <1>2 DEF BeginWrite
<1>3. ASSUME NEW d \in Decisions, Handle(d) PROVE DatabaseTypeOK'
  BY <1>3 DEF Handle, Precapture, SpoolAppend, SpoolAppendFails
<1>4. CASE StartDraining \/ StartWithoutPool \/ DrainStep \/ DrainRewriteFails
  BY <1>4 DEF StartDraining, StartWithoutPool, DrainStep, DrainRewriteFails,
              DrainBad, DrainKeep, DrainReplay, DrainRewrite
<1>5. CASE Stop \/ CrashInDrain
  <2>1. (\E w \in Writers : allocated[w] # 0) => nextSequence - 1 \in Nat \ {0}
    BY DEF CounterLocked
  <2> QED
    BY <1>5, <2>1 DEF Stop, CrashInDrain, Halt
<1>6. CASE UNCHANGED vars
  BY <1>6 DEF vars
<1> QED
  BY <1>1, <1>2, <1>3, <1>4, <1>5, <1>6 DEF Next

\* The spool file and the drain's local state keep their types.
LEMMA StepSpoolTypeOK == TypeOK /\ TxOwned /\ [Next]_vars => SpoolTypeOK'
<1> SUFFICES ASSUME TypeOK, TxOwned, [Next]_vars PROVE SpoolTypeOK'
  OBVIOUS
<1>t. SpoolTypeOK
  BY DEF TypeOK
<1>1. ASSUME NEW w \in Writers, Transact(w) PROVE SpoolTypeOK'
  <2>1. phase = "draining" => spool[cursor] \in Line
    BY <1>1, TransactForms, DrainLine
  <2>2. CASE UNCHANGED <<handler, cursor, firstFailure, remaining>>
    BY <1>1, <1>t, <2>2, TransactForms DEF SpoolTypeOK
  <2>3. CASE Succeed(w)
    BY <1>1, <1>t, <2>3, TransactForms DEF SpoolTypeOK, Succeed, drain
  <2>4. CASE Raise(w) /\ phase = "draining"
    <3>1. remaining' \in Seq(Line)
      BY <1>t, <2>1, <2>4, AppendKeeps, SMTT(30) DEF SpoolTypeOK, Raise
    <3> QED
      BY <1>1, <1>t, <2>4, <3>1, TransactForms DEF SpoolTypeOK, Raise
  <2>5. CASE Raise(w) /\ phase # "draining"
    BY <1>1, <1>t, <2>5, TransactForms DEF SpoolTypeOK, Raise, drain
  <2>6. CASE Cancelled(w)
    BY <1>1, <1>t, <2>6, TransactForms DEF SpoolTypeOK, Cancelled, drain
  <2> QED
    BY <1>1, <2>2, <2>3, <2>4, <2>5, <2>6, TransactForms
<1>2. ASSUME NEW w \in Writers, BeginWrite(w) PROVE SpoolTypeOK'
  BY <1>2, <1>t DEF BeginWrite, SpoolTypeOK, drain
<1>3. ASSUME NEW d \in Decisions, Handle(d) PROVE SpoolTypeOK'
  <2>1. CASE UNCHANGED spool
    BY <1>3, <1>t, <2>1, HandleForms DEF SpoolTypeOK
  <2>2. CASE spool' = Append(spool, [decision |-> d, form |-> "whole"])
    <3>1. spool' \in Seq(Line)
      BY <1>t, <2>2, NewLines, AppendKeeps DEF SpoolTypeOK
    <3> QED
      BY <1>3, <1>t, <3>1, HandleForms DEF SpoolTypeOK
  <2>3. CASE spool' = Append(spool, [decision |-> d, form |-> "torn"])
    <3>1. spool' \in Seq(Line)
      BY <1>t, <2>3, NewLines, AppendKeeps DEF SpoolTypeOK
    <3> QED
      BY <1>3, <1>t, <3>1, HandleForms DEF SpoolTypeOK
  <2>4. CASE TornTail /\ spool' = [spool EXCEPT ![Len(spool)].form = "glued"]
    <3>1. spool' \in Seq(Line)
      BY <1>t, <2>4, GlueKeeps
    <3> QED
      BY <1>3, <1>t, <3>1, HandleForms DEF SpoolTypeOK
  <2> QED
    BY <1>3, <2>1, <2>2, <2>3, <2>4, HandleForms
<1>4. CASE StartDraining
  BY <1>4, <1>t DEF StartDraining, SpoolTypeOK
<1>5. CASE StartWithoutPool \/ DrainRewriteFails
  BY <1>5, <1>t DEF StartWithoutPool, DrainRewriteFails, SpoolTypeOK, drain
<1>6. CASE DrainStep
  <2> USE <1>t DEF SpoolTypeOK, drain
  <2>1. CASE DrainBad
    BY <2>1 DEF DrainBad
  <2>2. CASE DrainKeep
    BY <2>2 DEF DrainKeep, AtLine, TxOwned
  <2>3. CASE DrainReplay
    BY <2>3 DEF DrainReplay
  <2>4. CASE DrainRewrite
    BY <2>4 DEF DrainRewrite
  <2> QED
    BY <1>6, <2>1, <2>2, <2>3, <2>4 DEF DrainStep
<1>7. CASE Stop \/ CrashInDrain
  BY <1>7, <1>t DEF Stop, CrashInDrain, Halt, SpoolTypeOK, drain
<1>8. CASE UNCHANGED vars
  BY <1>8, <1>t DEF vars, SpoolTypeOK
<1> QED
  BY <1>1, <1>2, <1>3, <1>4, <1>5, <1>6, <1>7, <1>8 DEF Next
------------------------------------------------------------------------------
(* The counter and the transactions.                                       *)

\* Whoever holds the counter row is the only one, and it is released with its
\* number used (commit) or given back (rollback).
LEMMA StepCounterLocked ==
  TypeOK /\ CounterLocked /\ TxOwned /\ [Next]_vars => CounterLocked'
<1> SUFFICES ASSUME TypeOK, CounterLocked, TxOwned, [Next]_vars PROVE CounterLocked'
  OBVIOUS
<1> USE DEF TypeOK, DatabaseTypeOK, CounterLocked, database, transactions
<1>1. ASSUME NEW w \in Writers, Transact(w) PROVE CounterLocked'
  <2>1. CASE TxInsert(w)
    BY <2>1 DEF TxInsert
  <2>2. CASE TxAllocate(w)
    BY <2>2 DEF TxAllocate
  <2>3. CASE Commit(w)
    BY <2>3 DEF Commit, EndTx
  <2>4. CASE Discard(w)
    BY <2>4 DEF Discard, Rollback, EndTx
  <2> QED
    BY <1>1, <2>1, <2>2, <2>3, <2>4, TransactForms
<1>2. ASSUME NEW w \in Writers, BeginWrite(w) PROVE CounterLocked'
  <2>1. tx[w] = "none"
    BY <1>2 DEF BeginWrite, TxOwned
  <2> QED
    BY <1>2, <2>1 DEF BeginWrite
<1>3. ASSUME NEW d \in Decisions, Handle(d) PROVE CounterLocked'
  BY <1>3 DEF Handle, Precapture, SpoolAppend, SpoolAppendFails
<1>4. CASE DrainReplay
  BY <1>4 DEF DrainReplay, AtLine
<1>5. CASE StartDraining \/ StartWithoutPool \/ DrainBad \/ DrainKeep \/ DrainRewrite
             \/ DrainRewriteFails
  BY <1>5 DEF StartDraining, StartWithoutPool, DrainBad, DrainKeep, DrainRewrite,
              DrainRewriteFails
<1>6. CASE Stop \/ CrashInDrain
  BY <1>6 DEF Stop, CrashInDrain, Halt
<1>7. CASE UNCHANGED vars
  BY <1>7 DEF vars
<1> QED
  BY <1>1, <1>2, <1>3, <1>4, <1>5, <1>6, <1>7 DEF Next, DrainStep

\* Transactions are opened only by a handler that writes and by the drain for the
\* line it looks at, and are closed before either goes on.
LEMMA StepTxOwned == TypeOK /\ TxOwned /\ [Next]_vars => TxOwned'
<1> SUFFICES ASSUME TypeOK, TxOwned, [Next]_vars PROVE TxOwned'
  OBVIOUS
<1> USE DEF TypeOK, ProcessTypeOK, DatabaseTypeOK, transactions, drain
<1>t. SpoolTypeOK
  OBVIOUS
<1>w. \A d \in Decisions : d \in Writers
  BY DEF Writers
<1>1. ASSUME NEW w \in Writers, Transact(w) PROVE TxOwned'
  <2>1. CASE phase = "draining"
    <3>1. cursor \in DOMAIN spool /\ spool[cursor].decision = w
      BY <1>1, <2>1, TransactForms DEF TxOwned
    <3>2. \A v \in Writers : tx[v] # "none" => v = w
      BY <1>1, <2>1, <3>1 DEF TxOwned
    <3>3. CASE TxInsert(w) /\ UNCHANGED <<handler, cursor, firstFailure, remaining>>
      BY <1>1, <2>1, <3>1, <3>2, <3>3, TransactForms DEF TxInsert, TxOwned
    <3>4. CASE TxAllocate(w) /\ UNCHANGED <<handler, cursor, firstFailure, remaining>>
      BY <1>1, <2>1, <3>1, <3>2, <3>4, TransactForms DEF TxAllocate, TxOwned
    <3>5. CASE EndTx(w) /\ (Succeed(w) \/ Raise(w) \/ Cancelled(w))
      <4>1. \A v \in Writers : tx'[v] = "none"
        BY <3>2, <3>5 DEF EndTx
      <4>2. cursor' = cursor + 1
        BY <2>1, <3>5 DEF Succeed, Raise, Cancelled
      <4>3. cursor' \in 1 .. (Len(spool') + 1)
        BY <1>1, <1>t, <3>1, <4>2, TransactForms DEF SpoolTypeOK
      <4> QED
        BY <1>1, <2>1, <4>1, <4>3, TransactForms DEF TxOwned
    <3> QED
      BY <1>1, <3>3, <3>4, <3>5, TransactForms DEF Commit, Discard
  <2>2. CASE phase # "draining"
    <3>1. phase = "serving" /\ phase' = "serving"
      BY <1>1, <2>2, TransactForms DEF TxOwned
    <3>2. CASE TxInsert(w) /\ UNCHANGED <<handler, cursor, firstFailure, remaining>>
      BY <1>1, <3>1, <3>2 DEF TxInsert, TxOwned
    <3>3. CASE TxAllocate(w) /\ UNCHANGED <<handler, cursor, firstFailure, remaining>>
      BY <1>1, <3>1, <3>3 DEF TxAllocate, TxOwned
    <3>4. CASE EndTx(w) /\ (Succeed(w) \/ Raise(w) \/ Cancelled(w))
      BY <1>1, <3>1, <3>4 DEF EndTx, Succeed, Raise, Cancelled, TxOwned
    <3> QED
      BY <1>1, <3>2, <3>3, <3>4, TransactForms DEF Commit, Discard
  <2> QED
    BY <2>1, <2>2
<1>2. ASSUME NEW w \in Writers, BeginWrite(w) PROVE TxOwned'
  BY <1>2 DEF BeginWrite, TxOwned
<1>3. ASSUME NEW d \in Decisions, Handle(d) PROVE TxOwned'
  BY <1>3, <1>w DEF Handle, Precapture, SpoolAppend, SpoolAppendFails, TxOwned
<1>4. CASE StartDraining \/ StartWithoutPool
  BY <1>4, <1>t DEF StartDraining, StartWithoutPool, TxOwned, SpoolTypeOK
<1>5. CASE DrainBad \/ DrainKeep
  BY <1>5, <1>t DEF DrainBad, DrainKeep, AtLine, TxOwned, SpoolTypeOK
<1>6. CASE DrainReplay
  BY <1>6, <1>t DEF DrainReplay, AtLine, TxOwned, SpoolTypeOK
<1>7. CASE DrainRewrite \/ DrainRewriteFails
  <2>1. \A w \in Writers : tx[w] = "none"
    BY <1>7, <1>t DEF DrainRewrite, DrainRewriteFails, DrainDone, TxOwned, SpoolTypeOK
  <2> QED
    BY <1>7, <2>1 DEF DrainRewrite, DrainRewriteFails, TxOwned
<1>8. CASE Stop \/ CrashInDrain
  BY <1>8 DEF Stop, CrashInDrain, Halt, TxOwned
<1>9. CASE UNCHANGED vars
  BY <1>9 DEF vars, TxOwned
<1> QED
  BY <1>1, <1>2, <1>3, <1>4, <1>5, <1>6, <1>7, <1>8, <1>9 DEF Next, DrainStep
------------------------------------------------------------------------------
(* The evidence sequence.                                                  *)

\* With the counter free the last committed number is the one before the next.
LEMMA LastCommittedForms ==
  /\ (\E w \in Writers : allocated[w] # 0) => LastCommitted = nextSequence - 2
  /\ (\A w \in Writers : allocated[w] = 0) => LastCommitted = nextSequence - 1
BY DEF LastCommitted

\* A range of numbers and the number after it.
LEMMA RangeExtends ==
  ASSUME NEW n \in Nat \ {0}
  PROVE  (1 .. (n - 1)) \union {n} = 1 .. n
OBVIOUS

\* Only a commit changes what is recorded, and it uses the one number that was
\* out; every rollback gives it back.
LEMMA StepEvidenceGapless ==
  TypeOK /\ CounterLocked /\ EvidenceGapless /\ [Next]_vars => EvidenceGapless'
<1> SUFFICES ASSUME TypeOK, CounterLocked, EvidenceGapless, [Next]_vars
             PROVE  EvidenceGapless'
  OBVIOUS
<1>t. DatabaseTypeOK
  BY DEF TypeOK
<1>s. ASSUME LastCommitted' = LastCommitted, UNCHANGED <<recorded, sequenceOf>>
      PROVE  EvidenceGapless'
  BY <1>s DEF EvidenceGapless
<1>u. ASSUME UNCHANGED <<allocated, nextSequence>> PROVE LastCommitted' = LastCommitted
  BY <1>u DEF LastCommitted
<1>1. ASSUME NEW w \in Writers, Transact(w) PROVE EvidenceGapless'
  <2>1. CASE TxInsert(w)
    BY <2>1, <1>s, <1>u DEF TxInsert, database
  <2>2. CASE TxAllocate(w)
    <3>1. LastCommitted = nextSequence - 1
      BY <2>2 DEF TxAllocate, LastCommitted
    <3>2. allocated'[w] # 0 /\ nextSequence' = nextSequence + 1
      BY <2>2, <1>t DEF TxAllocate, DatabaseTypeOK
    <3>3. LastCommitted' = nextSequence' - 2
      BY <3>2 DEF LastCommitted
    <3>4. LastCommitted' = LastCommitted
      BY <3>1, <3>2, <3>3, <1>t DEF DatabaseTypeOK
    <3> QED
      BY <2>2, <3>4, <1>s DEF TxAllocate
  <2>3. CASE Commit(w)
    <3>1. allocated[w] # 0 /\ allocated[w] = nextSequence - 1 /\ w \notin recorded
      BY <2>3 DEF Commit, CounterLocked
    <3>2. LastCommitted = nextSequence - 2
      BY <3>1 DEF LastCommitted
    <3>3. \A v \in Writers : allocated'[v] = 0
      BY <2>3, <3>1, <1>t DEF Commit, EndTx, CounterLocked, DatabaseTypeOK
    <3>4. LastCommitted' = nextSequence - 1
      BY <2>3, <3>3 DEF Commit, LastCommitted
    <3>5. /\ recorded' = recorded \union {w}
          /\ sequenceOf'[w] = nextSequence - 1
          /\ \A v \in recorded : sequenceOf'[v] = sequenceOf[v]
      BY <2>3, <3>1, <1>t DEF Commit, DatabaseTypeOK
    <3>6. {sequenceOf'[v] : v \in recorded'} =
            {sequenceOf[v] : v \in recorded} \union {nextSequence - 1}
      BY <3>5
    <3>7. {sequenceOf'[v] : v \in recorded'} = 1 .. LastCommitted'
      <4>1. nextSequence - 1 \in Nat \ {0}
        BY <3>1, <1>t DEF DatabaseTypeOK
      <4>2. (1 .. (nextSequence - 2)) \union {nextSequence - 1} = 1 .. (nextSequence - 1)
        <5>1. nextSequence - 1 - 1 = nextSequence - 2
          BY <1>t DEF DatabaseTypeOK
        <5> QED
          BY <4>1, <5>1, RangeExtends
      <4>3. {sequenceOf[v] : v \in recorded} = 1 .. (nextSequence - 2)
        BY <3>2 DEF EvidenceGapless
      <4> QED
        BY <3>4, <3>6, <4>2, <4>3
    <3>8. \A v \in recorded : sequenceOf'[v] # sequenceOf'[w]
      <4>1. \A v \in recorded : sequenceOf[v] \in 1 .. (nextSequence - 2)
        BY <3>2 DEF EvidenceGapless
      <4> QED
        BY <3>5, <4>1, <1>t DEF DatabaseTypeOK
    <3>9. \A u, v \in recorded' : sequenceOf'[u] = sequenceOf'[v] => u = v
      BY <3>5, <3>8 DEF EvidenceGapless
    <3> QED
      BY <3>7, <3>9 DEF EvidenceGapless
  <2>4. CASE Discard(w)
    <3>1. CASE allocated[w] # 0
      <4>1. LastCommitted = nextSequence - 2 /\ allocated[w] = nextSequence - 1
        BY <3>1 DEF LastCommitted, CounterLocked
      <4>2. nextSequence' = nextSequence - 1
        BY <2>4, <3>1, <4>1 DEF Discard, Rollback
      <4>3. \A v \in Writers : allocated'[v] = 0
        BY <2>4, <3>1, <1>t DEF Discard, EndTx, CounterLocked, DatabaseTypeOK
      <4>4. LastCommitted' = nextSequence' - 1
        BY <4>3 DEF LastCommitted
      <4>5. LastCommitted' = LastCommitted
        BY <4>1, <4>2, <4>4, <1>t DEF DatabaseTypeOK
      <4> QED
        BY <2>4, <4>5, <1>s DEF Discard
    <3>2. CASE allocated[w] = 0
      <4>1. allocated' = allocated /\ nextSequence' = nextSequence
        BY <2>4, <3>2, <1>t DEF Discard, Rollback, EndTx, DatabaseTypeOK
      <4> QED
        BY <2>4, <4>1, <1>s, <1>u DEF Discard
    <3> QED
      BY <3>1, <3>2
  <2> QED
    BY <1>1, <2>1, <2>2, <2>3, <2>4, TransactForms
<1>2. ASSUME NEW w \in Writers, BeginWrite(w) PROVE EvidenceGapless'
  BY <1>2, <1>s, <1>u DEF BeginWrite, database
<1>3. ASSUME NEW d \in Decisions, Handle(d) PROVE EvidenceGapless'
  <2>1. UNCHANGED <<allocated, nextSequence, recorded, sequenceOf>>
    BY <1>3, HandleForms
  <2> QED
    BY <2>1, <1>s, <1>u
<1>4. CASE StartDraining \/ StartWithoutPool \/ DrainStep \/ DrainRewriteFails
  <2>1. UNCHANGED <<allocated, nextSequence, recorded, sequenceOf>>
    BY <1>4 DEF StartDraining, StartWithoutPool, DrainStep, DrainRewriteFails,
                DrainBad, DrainKeep, DrainReplay, DrainRewrite, database, transactions
  <2> QED
    BY <2>1, <1>s, <1>u
<1>5. CASE Stop \/ CrashInDrain
  <2>1. Halt
    BY <1>5 DEF Stop, CrashInDrain
  <2>2. \A w \in Writers : allocated'[w] = 0
    BY <2>1 DEF Halt
  <2>3. LastCommitted' = nextSequence' - 1
    BY <2>2 DEF LastCommitted
  <2>4. LastCommitted' = LastCommitted
    <3>1. CASE \E w \in Writers : allocated[w] # 0
      BY <3>1, <2>1, <2>3, <1>t DEF Halt, LastCommitted, DatabaseTypeOK
    <3>2. CASE ~\E w \in Writers : allocated[w] # 0
      BY <3>2, <2>1, <2>3 DEF Halt, LastCommitted
    <3> QED
      BY <3>1, <3>2
  <2> QED
    BY <2>1, <2>4, <1>s DEF Halt
<1>6. CASE UNCHANGED vars
  BY <1>6, <1>s, <1>u DEF vars
<1> QED
  BY <1>1, <1>2, <1>3, <1>4, <1>5, <1>6 DEF Next

------------------------------------------------------------------------------
(* The spool.                                                              *)

\* No step takes an outcome out of the database.
LEMMA RecordedStays == [Next]_vars => recorded \subseteq recorded'
<1> SUFFICES ASSUME [Next]_vars PROVE recorded \subseteq recorded'
  OBVIOUS
<1>1. ASSUME NEW w \in Writers, Transact(w) PROVE recorded \subseteq recorded'
  BY <1>1, TransactForms DEF TxInsert, TxAllocate, Commit, Discard, database
<1>2. ASSUME NEW d \in Decisions, Handle(d) PROVE recorded \subseteq recorded'
  BY <1>2, HandleForms
<1> QED
  BY <1>1, <1>2
  DEF Next, BeginWrite, StartDraining, StartWithoutPool, DrainStep, DrainRewriteFails,
      DrainBad, DrainKeep, DrainReplay, DrainRewrite, Stop, CrashInDrain, Halt,
      database, vars

\* The cursor passes a readable line only when its outcome was committed or the
\* line was kept.
LEMMA StepDrainKept ==
  TypeOK /\ TxOwned /\ DrainKept /\ [Next]_vars => DrainKept'
<1> SUFFICES ASSUME TypeOK, TxOwned, DrainKept, [Next]_vars, phase' = "draining",
                    NEW i \in DOMAIN spool', i < cursor', Whole(spool'[i])
             PROVE  \/ spool'[i].decision \in recorded'
                    \/ \E k \in DOMAIN remaining' : remaining'[k] = spool'[i]
  BY DEF DrainKept
<1>t. SpoolTypeOK
  BY DEF TypeOK
<1>i. i \in Nat
  <2>1. spool' \in Seq(Line)
    BY StepSpoolTypeOK DEF SpoolTypeOK
  <2> QED
    BY <2>1
<1>r. recorded \subseteq recorded'
  BY RecordedStays
<1> DEFINE Kept == \/ spool'[i].decision \in recorded'
                   \/ \E k \in DOMAIN remaining' : remaining'[k] = spool'[i]
<1>same. ASSUME phase = "draining", spool' = spool, remaining' = remaining, i < cursor
         PROVE  Kept
  BY <1>same, <1>r DEF DrainKept
<1>append. ASSUME phase = "draining", spool' = spool, cursor' = cursor + 1,
                  spool[cursor] \in Line,
                  remaining' = Append(remaining, spool[cursor])
           PROVE  Kept
  <2>1. /\ \A k \in DOMAIN remaining : k \in DOMAIN remaining' /\ remaining'[k] = remaining[k]
        /\ Len(remaining) + 1 \in DOMAIN remaining'
        /\ remaining'[Len(remaining) + 1] = spool[cursor]
    BY <1>append, <1>t, AppendKeeps DEF SpoolTypeOK
  <2>2. CASE i = cursor
    BY <2>1, <2>2, <1>append
  <2>3. CASE i < cursor
    BY <2>1, <2>3, <1>append, <1>r DEF DrainKept
  <2> QED
    BY <1>append, <1>i, <1>t, <2>2, <2>3 DEF SpoolTypeOK
<1>1. ASSUME NEW w \in Writers, Transact(w) PROVE Kept
  <2>1. spool' = spool /\ phase = "draining" /\ tx[w] # "none"
    BY <1>1, TransactForms
  <2>2. cursor \in DOMAIN spool /\ spool[cursor].decision = w /\ spool[cursor] \in Line
    BY <2>1, DrainLine DEF TxOwned
  <2>3. CASE UNCHANGED <<handler, cursor, firstFailure, remaining>>
    BY <2>1, <2>3, <1>same
  <2>4. CASE Raise(w)
    BY <2>1, <2>2, <2>4, <1>append DEF Raise
  <2>5. CASE Commit(w) /\ Succeed(w)
    <3>1. w \in recorded' /\ cursor' = cursor + 1 /\ remaining' = remaining
      BY <2>1, <2>5 DEF Commit, Succeed
    <3>2. CASE i = cursor
      BY <2>1, <2>2, <3>1, <3>2
    <3>3. CASE i < cursor
      BY <2>1, <3>1, <3>3, <1>same
    <3> QED
      BY <3>1, <3>2, <3>3, <1>i, <1>t DEF SpoolTypeOK
  <2> QED
    BY <1>1, <2>1, <2>3, <2>4, <2>5, TransactForms DEF Cancelled
<1>2. ASSUME NEW w \in Writers, BeginWrite(w) PROVE Kept
  BY <1>2 DEF BeginWrite
<1>3. ASSUME NEW d \in Decisions, Handle(d) PROVE Kept
  BY <1>3, HandleForms
<1>4. CASE StartDraining
  BY <1>4, <1>i, <1>t DEF StartDraining, SpoolTypeOK
<1>5. CASE StartWithoutPool \/ DrainRewriteFails \/ DrainRewrite \/ Stop \/ CrashInDrain
  BY <1>5 DEF StartWithoutPool, DrainRewriteFails, DrainRewrite, Stop, CrashInDrain, Halt
<1>6. CASE DrainBad
  <2>1. spool' = spool /\ remaining' = remaining /\ phase = "draining"
        /\ cursor' = cursor + 1 /\ ~Whole(spool[cursor])
    BY <1>6 DEF DrainBad, AtLine
  <2>2. i # cursor
    BY <2>1
  <2>3. i < cursor
    BY <2>1, <2>2, <1>i, <1>t DEF SpoolTypeOK
  <2> QED
    BY <2>1, <2>3, <1>same
<1>7. CASE DrainKeep
  <2>1. cursor \in DOMAIN spool
    BY <1>7, <1>t DEF DrainKeep, AtLine, TxOwned, SpoolTypeOK
  <2>2. spool[cursor] \in Line
    BY <2>1, <1>t DEF SpoolTypeOK
  <2> QED
    BY <1>7, <2>2, <1>append DEF DrainKeep, AtLine
<1>8. CASE DrainReplay
  BY <1>8, <1>same DEF DrainReplay, AtLine, drain
<1>9. CASE UNCHANGED vars
  BY <1>9, <1>same DEF vars
<1> QED
  BY <1>1, <1>2, <1>3, <1>4, <1>5, <1>6, <1>7, <1>8, <1>9 DEF Next, DrainStep

\* A spooled outcome's line survives appends, and the rewrite at the end of a
\* drain drops it only when it is committed.
LEMMA StepSpooledIsKept ==
  TypeOK /\ TxOwned /\ DrainKept /\ SpooledIsKept /\ [Next]_vars => SpooledIsKept'
<1> SUFFICES ASSUME TypeOK, TxOwned, DrainKept, SpooledIsKept, [Next]_vars,
                    NEW e \in Decisions, handler'[e] = "spooled"
             PROVE  \/ e \in recorded'
                    \/ \E i \in DOMAIN spool' : Whole(spool'[i]) /\ spool'[i].decision = e
  BY DEF SpooledIsKept
<1>t. SpoolTypeOK
  BY DEF TypeOK
<1>h. handler \in [Writers -> HandlerStates] /\ e \in Writers
  BY DEF TypeOK, ProcessTypeOK, Writers
<1>r. recorded \subseteq recorded'
  BY RecordedStays
<1> DEFINE OnFile == \E i \in DOMAIN spool : Whole(spool[i]) /\ spool[i].decision = e
           Safe == \/ e \in recorded'
                   \/ \E i \in DOMAIN spool' : Whole(spool'[i]) /\ spool'[i].decision = e
<1>same. ASSUME spool' = spool, handler[e] = "spooled" PROVE Safe
  BY <1>same, <1>r DEF SpooledIsKept
<1>1. ASSUME NEW w \in Writers, Transact(w) PROVE Safe
  <2>1. handler[e] = "spooled"
    BY <1>1, <1>h, TransactForms DEF Succeed, Raise, Cancelled, drain
  <2> QED
    BY <1>1, <2>1, <1>same, TransactForms
<1>2. ASSUME NEW w \in Writers, BeginWrite(w) PROVE Safe
  BY <1>2, <1>h, <1>same DEF BeginWrite
<1>3. ASSUME NEW d \in Decisions, Handle(d) PROVE Safe
  <2>1. CASE Precapture(d)
    BY <2>1, <1>h, <1>same DEF Precapture
  <2>2. CASE SpoolAppendFails(d)
    <3>1. handler[e] = "spooled"
      BY <2>2, <1>h DEF SpoolAppendFails
    <3>2. CASE spool' = spool
      BY <3>1, <3>2, <1>same
    <3>3. CASE spool' = Append(spool, [decision |-> d, form |-> "torn"])
      <4>1. \A i \in DOMAIN spool : i \in DOMAIN spool' /\ spool'[i] = spool[i]
        BY <3>3, <1>t, NewLines, AppendKeeps DEF SpoolTypeOK
      <4> QED
        BY <3>1, <4>1, <1>r DEF SpooledIsKept
    <3> QED
      BY <2>2, <3>2, <3>3 DEF SpoolAppendFails
  <2>3. CASE SpoolAppend(d) /\ ~TornTail
    <3>1. /\ \A i \in DOMAIN spool : i \in DOMAIN spool' /\ spool'[i] = spool[i]
          /\ Len(spool) + 1 \in DOMAIN spool'
          /\ spool'[Len(spool) + 1] = [decision |-> d, form |-> "whole"]
      BY <2>3, <1>t, NewLines, AppendKeeps DEF SpoolTypeOK, SpoolAppend
    <3>2. CASE e = d
      BY <3>1, <3>2 DEF Whole
    <3>3. CASE e # d
      <4>1. handler[e] = "spooled"
        BY <2>3, <3>3, <1>h DEF SpoolAppend
      <4> QED
        BY <3>1, <4>1, <1>r DEF SpooledIsKept
    <3> QED
      BY <3>2, <3>3
  <2>4. CASE SpoolAppend(d) /\ TornTail
    <3>1. spool' = [spool EXCEPT ![Len(spool)].form = "glued"]
          /\ handler' = [handler EXCEPT ![d] = "glued"]
      BY <2>4 DEF SpoolAppend
    <3>2. DOMAIN spool' = DOMAIN spool
          /\ \A i \in DOMAIN spool : Whole(spool[i]) => spool'[i] = spool[i]
      BY <2>4, <3>1, <1>t, GlueKeeps
    <3>3. handler[e] = "spooled"
      BY <3>1, <1>h
    <3> QED
      BY <3>2, <3>3, <1>r DEF SpooledIsKept
  <2> QED
    BY <1>3, <2>1, <2>2, <2>3, <2>4 DEF Handle
<1>4. CASE StartDraining \/ StartWithoutPool \/ DrainBad \/ DrainKeep \/ DrainReplay
             \/ DrainRewriteFails
  BY <1>4, <1>same DEF StartDraining, StartWithoutPool, DrainBad, DrainKeep, DrainReplay,
                       DrainRewriteFails
<1>5. CASE DrainRewrite
  <2>1. spool' = remaining /\ handler[e] = "spooled" /\ phase = "draining"
        /\ cursor > Len(spool)
    BY <1>5 DEF DrainRewrite, DrainDone
  <2>2. CASE e \in recorded
    BY <2>2, <1>r
  <2>3. CASE e \notin recorded
    <3>1. PICK i \in DOMAIN spool : Whole(spool[i]) /\ spool[i].decision = e
      BY <2>1, <2>3 DEF SpooledIsKept
    <3>2. i < cursor
      BY <2>1, <1>t DEF SpoolTypeOK
    <3>3. PICK k \in DOMAIN remaining : remaining[k] = spool[i]
      BY <2>1, <2>3, <3>1, <3>2 DEF DrainKept
    <3> QED
      BY <2>1, <3>1, <3>3
  <2> QED
    BY <2>2, <2>3
<1>6. CASE Stop \/ CrashInDrain
  <2>1. Halt
    BY <1>6 DEF Stop, CrashInDrain
  <2>2. handler[e] = "spooled" /\ spool' = spool
    BY <2>1, <1>h DEF Halt
  <2> QED
    BY <2>2, <1>same
<1>7. CASE UNCHANGED vars
  BY <1>7, <1>same DEF vars
<1> QED
  BY <1>1, <1>2, <1>3, <1>4, <1>5, <1>6, <1>7 DEF Next, DrainStep

------------------------------------------------------------------------------
(* The theorems.                                                           *)

\* The initial state satisfies the inductive invariant.
LEMMA InitIInv == Init => IInv
<1> SUFFICES ASSUME Init PROVE IInv
  OBVIOUS
<1>1. TypeOK
  <2>1. ProcessTypeOK
    BY DEF Init, ProcessTypeOK, HandlerStates
  <2>2. DatabaseTypeOK
    BY DEF Init, DatabaseTypeOK
  <2>3. SpoolTypeOK
    BY DEF Init, SpoolTypeOK
  <2> QED
    BY <2>1, <2>2, <2>3 DEF TypeOK
<1>2. CounterLocked
  BY DEF Init, CounterLocked
<1>3. TxOwned
  BY DEF Init, TxOwned
<1>4. EvidenceGapless
  <2>1. LastCommitted = 0
    BY DEF Init, LastCommitted
  <2> QED
    BY <2>1 DEF Init, EvidenceGapless
<1>5. DrainKept
  BY DEF Init, DrainKept
<1>6. SpooledIsKept
  BY DEF Init, SpooledIsKept, Writers
<1> QED
  BY <1>1, <1>2, <1>3, <1>4, <1>5, <1>6 DEF IInv

\* Every step preserves it.
LEMMA StepIInv == IInv /\ [Next]_vars => IInv'
<1> SUFFICES ASSUME IInv, [Next]_vars PROVE IInv'
  OBVIOUS
<1>1. TypeOK'
  BY StepProcessTypeOK, StepDatabaseTypeOK, StepSpoolTypeOK DEF IInv, TypeOK
<1>2. CounterLocked'
  BY StepCounterLocked DEF IInv
<1>3. TxOwned'
  BY StepTxOwned DEF IInv
<1>4. EvidenceGapless'
  BY StepEvidenceGapless DEF IInv
<1>5. DrainKept'
  BY StepDrainKept DEF IInv
<1>6. SpooledIsKept'
  BY StepSpooledIsKept DEF IInv
<1> QED
  BY <1>1, <1>2, <1>3, <1>4, <1>5, <1>6 DEF IInv

\* It holds in every reachable state.
THEOREM Invariance == Spec => []IInv
BY InitIInv, StepIInv, PTL DEF Spec

\* Every reachable state is well typed.
THEOREM TypeCorrect == Spec => []TypeOK
<1>1. IInv => TypeOK
  BY DEF IInv
<1> QED
  BY <1>1, Invariance, PTL

\* However transactions interleave, fail, lose their acknowledgement and are
\* replayed, the committed receipts carry 1, 2, ..., n, each once
\* (queries.py:write_outcome, max_guard.py:_record_control_receipt).
THEOREM EvidenceIsGapless == Spec => []EvidenceGapless
<1>1. IInv => EvidenceGapless
  BY DEF IInv
<1> QED
  BY <1>1, Invariance, PTL

\* Wherever a drain stops, an outcome that was spooled is in the database or on
\* a readable line (spool.py:append, drain).
THEOREM SpooledOutcomesAreKept == Spec => []SpooledIsKept
<1>1. IInv => SpooledIsKept
  BY DEF IInv
<1> QED
  BY <1>1, Invariance, PTL

\* A committed receipt keeps its sequence under every later step, a replay of
\* its outcome included.
THEOREM ReplayChangesNoEvidence == Spec => ReplayIsHarmless
<1>1. ASSUME IInv, [Next]_vars, NEW w \in recorded
      PROVE  w \in recorded' /\ sequenceOf'[w] = sequenceOf[w]
  <2>1. w \in recorded'
    BY <1>1, RecordedStays
  <2>2. w \in Writers /\ sequenceOf \in [Writers -> Nat]
    BY <1>1 DEF IInv, TypeOK, DatabaseTypeOK
  <2>3. ASSUME NEW v \in Writers, Transact(v) PROVE sequenceOf'[w] = sequenceOf[w]
    <3>1. CASE Commit(v)
      BY <3>1, <1>1, <2>2 DEF Commit, IInv, CounterLocked
    <3>2. CASE TxInsert(v) \/ TxAllocate(v) \/ Discard(v)
      BY <3>2 DEF TxInsert, TxAllocate, Discard, database
    <3> QED
      BY <2>3, <3>1, <3>2, TransactForms
  <2>4. ASSUME NEW d \in Decisions, Handle(d) PROVE sequenceOf'[w] = sequenceOf[w]
    BY <2>4, HandleForms
  <2> QED
    BY <1>1, <2>1, <2>3, <2>4
    DEF Next, BeginWrite, StartDraining, StartWithoutPool, DrainStep, DrainRewriteFails,
        DrainBad, DrainKeep, DrainReplay, DrainRewrite, Stop, CrashInDrain, Halt,
        database, vars
<1>2. IInv /\ [Next]_vars =>
        [\A w \in recorded : w \in recorded' /\ sequenceOf'[w] = sequenceOf[w]]_vars
  BY <1>1
<1> QED
  BY <1>2, Invariance, PTL DEF Spec, ReplayIsHarmless
===============================================================================
