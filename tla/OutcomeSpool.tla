---------------------------- MODULE OutcomeSpool -----------------------------
(***************************************************************************)
(* How the outcome of a request becomes evidence.  A handler records the   *)
(* decision before it forwards (queries.py:precapture), and when the       *)
(* answer is complete calls outcome.py:persist_outcome: one transaction    *)
(* inserts the outcome, takes the next evidence sequence and inserts the   *)
(* receipt (queries.py:write_outcome); if that raises, the outcome is      *)
(* appended to a local NDJSON spool (spool.py:append).  The spool is       *)
(* replayed through the same write_outcome when the process starts         *)
(* (main.py lifespan, spool.py:drain), before it serves.  Max Guard        *)
(* control events take their sequences from the same counter               *)
(* (max_guard.py:_record_control_receipt).                                 *)
(*                                                                         *)
(* A transaction may fail at every statement, its commit may succeed while *)
(* the acknowledgement is lost, an append may be cut short, and the        *)
(* process may stop between any two steps.                                 *)
(***************************************************************************)
EXTENDS Integers, Sequences, FiniteSets

CONSTANTS
  Decisions,  \* requests, each with one route decision
  Controls    \* Max Guard control events

ASSUME WritersAssumption == Decisions \intersect Controls = {}

Writers == Decisions \union Controls

VARIABLES
  phase,         \* the process: lifespan start-up, then serving
  handler,       \* per request or control event: how far its handler got
  tx,            \* per writer: its open database transaction
  allocated,     \* per writer: the sequence its open transaction took, or 0
  nextSequence,  \* audit_state.next_sequence as its last writer left it
  recorded,      \* committed route_outcomes and control events
  sequenceOf,    \* evidence_sequence of the committed receipts, 0 if none
  spool,         \* the spool file, a sequence of lines
  cursor,        \* drain: index of the line being looked at
  firstFailure,  \* drain: first_failure_index, 0 for None
  remaining      \* drain: lines to write back

database == <<nextSequence, recorded, sequenceOf>>
transactions == <<tx, allocated>>
drain == <<cursor, firstFailure, remaining>>
vars == <<phase, handler, tx, allocated, nextSequence, recorded, sequenceOf,
          spool, cursor, firstFailure, remaining>>

\* A line is whole, holding one outcome, or it was cut short ("torn"): then it
\* does not parse and swallows what is appended next ("glued").
Line == [decision : Decisions, form : {"whole", "torn", "glued"}]

Whole(line) == line.form = "whole"

HandlerStates == {"new", "forwarded", "writing", "failed",
                  "done", "spooled", "glued", "lost", "cancelled", "killed"}

ProcessTypeOK ==
  /\ phase \in {"down", "draining", "serving", "no_pool"}
  /\ handler \in [Writers -> HandlerStates]

DatabaseTypeOK ==
  /\ tx \in [Writers -> {"none", "begun", "inserted", "numbered"}]
  /\ allocated \in [Writers -> Nat]
  /\ nextSequence \in Nat \ {0}
  /\ recorded \subseteq Writers
  /\ sequenceOf \in [Writers -> Nat]

SpoolTypeOK ==
  /\ spool \in Seq(Line)
  /\ cursor \in Nat
  /\ firstFailure \in Nat
  /\ remaining \in Seq(Line)

TypeOK == ProcessTypeOK /\ DatabaseTypeOK /\ SpoolTypeOK

Init ==
  /\ phase = "down"
  /\ handler = [w \in Writers |-> "new"]
  /\ tx = [w \in Writers |-> "none"]
  /\ allocated = [w \in Writers |-> 0]
  /\ nextSequence = 1
  /\ recorded = {}
  /\ sequenceOf = [w \in Writers |-> 0]
  /\ spool = <<>>
  /\ cursor = 0
  /\ firstFailure = 0
  /\ remaining = <<>>

------------------------------------------------------------------------------
(* What the caller of write_outcome does with its result.                  *)

\* Drain moves on to the next line; a handler is done.
Succeed(w) ==
  IF phase = "draining"
    THEN /\ cursor' = cursor + 1
         /\ UNCHANGED <<handler, firstFailure, remaining>>
    ELSE /\ handler' = [handler EXCEPT ![w] = "done"]
         /\ UNCHANGED drain

\* Drain stops writing and keeps the line; a request's handler turns to the
\* spool; the caller of a control event gets the error.
Raise(w) ==
  IF phase = "draining"
    THEN /\ cursor' = cursor + 1
         /\ firstFailure' = cursor
         /\ remaining' = Append(remaining, spool[cursor])
         /\ UNCHANGED handler
    ELSE /\ handler' = [handler EXCEPT
              ![w] = IF w \in Decisions THEN "failed" ELSE "lost"]
         /\ UNCHANGED drain

\* The client of a stream goes away while its outcome is being recorded: a
\* CancelledError is no Exception, so persist_outcome does not catch it.
Cancelled(w) ==
  /\ phase = "serving"
  /\ w \in Decisions
  /\ handler' = [handler EXCEPT ![w] = "cancelled"]
  /\ UNCHANGED drain

------------------------------------------------------------------------------
(* write_outcome and the control transactions, statement by statement.     *)

EndTx(w) ==
  /\ tx' = [tx EXCEPT ![w] = "none"]
  /\ allocated' = [allocated EXCEPT ![w] = 0]

\* Mutant: the insert does not conflict with an outcome that is there.
TxInsertAgain(w) ==
  /\ tx[w] = "begun"
  /\ tx' = [tx EXCEPT ![w] = "inserted"]
  /\ UNCHANGED <<phase, handler, allocated, database, spool, drain>>

\* INSERT INTO route_outcomes: its primary key is the decision.
TxInsert(w) ==
  /\ tx[w] = "begun"
  /\ w \notin recorded
  /\ tx' = [tx EXCEPT ![w] = "inserted"]
  /\ UNCHANGED <<phase, handler, allocated, database, spool, drain>>

\* UPDATE audit_state ... RETURNING: the row stays locked until the end of the
\* transaction.
TxAllocate(w) ==
  /\ tx[w] = "inserted"
  /\ \A v \in Writers : allocated[v] = 0
  /\ tx' = [tx EXCEPT ![w] = "numbered"]
  /\ allocated' = [allocated EXCEPT ![w] = nextSequence]
  /\ nextSequence' = nextSequence + 1
  /\ UNCHANGED <<phase, handler, recorded, sequenceOf, spool, drain>>

\* The receipt and its outbox row are inserted and everything becomes visible.
Commit(w) ==
  /\ tx[w] = "numbered"
  /\ recorded' = recorded \union {w}
  /\ sequenceOf' = [sequenceOf EXCEPT ![w] = allocated[w]]
  /\ EndTx(w)
  /\ UNCHANGED <<phase, nextSequence, spool>>

TxCommit(w) == Commit(w) /\ Succeed(w)

TxCommitUnacknowledged(w) == Commit(w) /\ Raise(w)

\* Mutant: a sequence generator, which does not roll back.
RollbackOfGenerator(w) == nextSequence' = nextSequence

\* Mutant: one too many is given back.
RollbackTooFar(w) ==
  nextSequence' = IF allocated[w] # 0 THEN allocated[w] - 1 ELSE nextSequence

\* The row counter rolls back with its transaction.
Rollback(w) ==
  nextSequence' = IF allocated[w] # 0 THEN allocated[w] ELSE nextSequence

Discard(w) ==
  /\ Rollback(w)
  /\ EndTx(w)
  /\ UNCHANGED <<phase, recorded, sequenceOf, spool>>

\* The outcome is already there: the insert violates the primary key.
TxDuplicate(w) == tx[w] = "begun" /\ w \in recorded /\ Discard(w) /\ Raise(w)

\* A statement fails: no connection, a timeout.
TxFail(w) == tx[w] # "none" /\ Discard(w) /\ Raise(w)

\* The cancellation comes before the commit took effect, or while it is awaited.
TxCancel(w) == tx[w] # "none" /\ (Discard(w) \/ Commit(w)) /\ Cancelled(w)

------------------------------------------------------------------------------
(* Requests and control events.                                            *)

\* The decision row is committed before the request is forwarded.
Precapture(d) ==
  /\ phase = "serving"
  /\ handler[d] = "new"
  /\ handler' = [handler EXCEPT ![d] = "forwarded"]
  /\ UNCHANGED <<phase, transactions, database, spool, drain>>

\* The answer is complete, or the operator acts: the transaction opens.
BeginWrite(w) ==
  /\ phase = "serving"
  /\ handler[w] = (IF w \in Decisions THEN "forwarded" ELSE "new")
  /\ handler' = [handler EXCEPT ![w] = "writing"]
  /\ tx' = [tx EXCEPT ![w] = "begun"]
  /\ UNCHANGED <<phase, allocated, database, spool, drain>>

TornTail == spool # <<>> /\ spool[Len(spool)].form = "torn"

\* append: one line, at the end of whatever the file ends with.
SpoolAppend(d) ==
  /\ phase = "serving"
  /\ handler[d] = "failed"
  /\ \/ /\ ~TornTail
        /\ spool' = Append(spool, [decision |-> d, form |-> "whole"])
        /\ handler' = [handler EXCEPT ![d] = "spooled"]
     \/ /\ TornTail
        /\ spool' = [spool EXCEPT ![Len(spool)].form = "glued"]
        /\ handler' = [handler EXCEPT ![d] = "glued"]
  /\ UNCHANGED <<phase, transactions, database, drain>>

\* append raises, having written nothing or a part of the line; persist_outcome
\* logs and swallows it.
SpoolAppendFails(d) ==
  /\ phase = "serving"
  /\ handler[d] = "failed"
  /\ handler' = [handler EXCEPT ![d] = "lost"]
  /\ \/ UNCHANGED spool
     \/ /\ ~TornTail
        /\ spool' = Append(spool, [decision |-> d, form |-> "torn"])
  /\ UNCHANGED <<phase, transactions, database, drain>>

------------------------------------------------------------------------------
(* Start-up and drain.                                                     *)

\* Mutant: the first line is passed over.
StartDrainingAtSecond ==
  /\ phase = "down"
  /\ phase' = "draining"
  /\ cursor' = 2
  /\ firstFailure' = 0
  /\ remaining' = <<>>
  /\ UNCHANGED <<handler, transactions, database, spool>>

StartDraining ==
  /\ phase = "down"
  /\ phase' = "draining"
  /\ cursor' = 1
  /\ firstFailure' = 0
  /\ remaining' = <<>>
  /\ UNCHANGED <<handler, transactions, database, spool>>

\* The pool does not open: no drain, and every request is refused.
StartWithoutPool ==
  /\ phase = "down"
  /\ phase' = "no_pool"
  /\ UNCHANGED <<handler, transactions, database, spool, drain>>

AtLine ==
  /\ phase = "draining"
  /\ cursor <= Len(spool)
  /\ \A w \in Writers : tx[w] = "none"

\* A line that does not parse goes to the .bad file, which nothing reads.
DrainBad ==
  /\ AtLine
  /\ ~Whole(spool[cursor])
  /\ cursor' = cursor + 1
  /\ UNCHANGED <<phase, handler, transactions, database, spool, firstFailure, remaining>>

\* Mutant: lines behind a failure are passed over.
DrainPassesOver ==
  /\ AtLine
  /\ Whole(spool[cursor])
  /\ firstFailure # 0
  /\ cursor' = cursor + 1
  /\ UNCHANGED <<phase, handler, transactions, database, spool, firstFailure, remaining>>

\* Behind a failure every further line is kept unread.
DrainKeep ==
  /\ AtLine
  /\ Whole(spool[cursor])
  /\ firstFailure # 0
  /\ cursor' = cursor + 1
  /\ remaining' = Append(remaining, spool[cursor])
  /\ UNCHANGED <<phase, handler, transactions, database, spool, firstFailure>>

DrainReplay ==
  /\ AtLine
  /\ Whole(spool[cursor])
  /\ firstFailure = 0
  /\ tx' = [tx EXCEPT ![spool[cursor].decision] = "begun"]
  /\ UNCHANGED <<phase, handler, allocated, database, spool, drain>>

DrainDone == phase = "draining" /\ cursor > Len(spool)

\* The file is replaced by the remaining lines, or removed when there are none.
DrainRewrite ==
  /\ DrainDone
  /\ spool' = remaining
  /\ phase' = "serving"
  /\ UNCHANGED <<handler, transactions, database, drain>>

\* Replacing or removing the file raises; the lifespan logs it and serves.
DrainRewriteFails ==
  /\ DrainDone
  /\ phase' = "serving"
  /\ UNCHANGED <<handler, transactions, database, spool, drain>>

------------------------------------------------------------------------------
(* The process ends: open transactions roll back, handlers are cut off, and *)
(* the file stays as it is.                                                *)

Halt ==
  /\ phase' = "down"
  /\ tx' = [w \in Writers |-> "none"]
  /\ allocated' = [w \in Writers |-> 0]
  /\ nextSequence' =
       IF \E w \in Writers : allocated[w] # 0 THEN nextSequence - 1 ELSE nextSequence
  /\ handler' = [w \in Writers |->
       IF handler[w] \in {"forwarded", "writing", "failed"}
         THEN "killed" ELSE handler[w]]
  /\ UNCHANGED <<recorded, sequenceOf, spool, drain>>

\* A stop while serving, orderly or not.
Stop == phase \in {"serving", "no_pool"} /\ Halt

CrashInDrain == phase = "draining" /\ Halt

------------------------------------------------------------------------------
Transact(w) ==
  \/ TxInsert(w) \/ TxDuplicate(w) \/ TxAllocate(w)
  \/ TxCommit(w) \/ TxCommitUnacknowledged(w) \/ TxFail(w) \/ TxCancel(w)

Handle(d) == Precapture(d) \/ SpoolAppend(d) \/ SpoolAppendFails(d)

DrainStep == DrainBad \/ DrainKeep \/ DrainReplay \/ DrainRewrite

Next ==
  \/ \E w \in Writers : Transact(w) \/ BeginWrite(w)
  \/ \E d \in Decisions : Handle(d)
  \/ StartDraining \/ StartWithoutPool \/ DrainStep \/ DrainRewriteFails
  \/ Stop \/ CrashInDrain

Spec == Init /\ [][Next]_vars

\* The process is stopped and started again and again; from some time on no
\* crash cuts a drain off, no statement of it fails for ever, and it goes on to
\* its end.
Fairness ==
  /\ WF_vars(Stop)
  /\ SF_vars(StartDraining)
  /\ <>[][~CrashInDrain]_vars
  /\ WF_vars(DrainStep)
  /\ WF_vars(phase = "draining" /\ \E w \in Writers : TxDuplicate(w))
  /\ SF_vars(phase = "draining" /\ \E w \in Writers : TxInsert(w))
  /\ SF_vars(phase = "draining" /\ \E w \in Writers : TxAllocate(w))
  /\ SF_vars(phase = "draining" /\ \E w \in Writers : TxCommit(w))

FairSpec == Spec /\ Fairness

------------------------------------------------------------------------------
(* Safety.                                                                 *)

\* The last sequence that a committed transaction took.
LastCommitted ==
  IF \E w \in Writers : allocated[w] # 0 THEN nextSequence - 2 ELSE nextSequence - 1

\* The committed receipts carry the sequences 1, 2, ..., n, each exactly once,
\* at every moment: neither a rolled-back transaction, nor two concurrent ones,
\* nor a replay leaves a hole or takes a number twice (queries.py, the comment
\* on the row counter).
EvidenceGapless ==
  /\ {sequenceOf[w] : w \in recorded} = 1 .. LastCommitted
  /\ \A v, w \in recorded : sequenceOf[v] = sequenceOf[w] => v = w

\* An outcome whose append returned, on a file that ended with a newline, is in
\* the database or on a readable line of the file: drain removes a line only
\* after its outcome is committed, wherever it is interrupted.
SpooledIsKept ==
  \A d \in Decisions :
    handler[d] = "spooled" =>
      \/ d \in recorded
      \/ \E i \in DOMAIN spool : Whole(spool[i]) /\ spool[i].decision = d

\* Replaying a line whose outcome is already committed changes no evidence: the
\* receipt keeps its sequence.
ReplayIsHarmless ==
  [][\A w \in recorded : w \in recorded' /\ sequenceOf'[w] = sequenceOf[w]]_vars

------------------------------------------------------------------------------
(* Liveness.                                                               *)

\* Between drains, a readable line whose outcome is committed: its replay
\* violates the primary key on every pass, and drain stops there.
Poisoned ==
  /\ phase # "draining"
  /\ \E i \in DOMAIN spool : Whole(spool[i]) /\ spool[i].decision \in recorded

\* A spooled outcome reaches the database unless the spool becomes poisoned,
\* which is the only way it can be kept out for good.
WrittenOrPoisoned ==
  \A d \in Decisions :
    handler[d] = "spooled" ~> (d \in recorded \/ Poisoned)

\* outcome.py: "route_outcomes is *eventually* written, even when Postgres is
\* down".
EventuallyWritten ==
  \A d \in Decisions : handler[d] = "spooled" ~> d \in recorded
==============================================================================
