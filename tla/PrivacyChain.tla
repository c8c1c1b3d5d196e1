------------------------------ MODULE PrivacyChain ------------------------------
(***************************************************************************)
(* sb-privacy: the routing hint it returns for a sensitive prompt, and the *)
(* hash-chained log of such prompts (main.py, chain.py).  Each row's hash  *)
(* covers the hash of the row before it in the table, which is read and    *)
(* followed by the insert under a lock of the process.                     *)
(*                                                                         *)
(* A hash is the term it was computed from, so two are equal only if what  *)
(* they cover is.                                                          *)
(***************************************************************************)
EXTENDS Naturals, Sequences

CONSTANTS Reported,    \* the requests the gateway reports
          RowBound     \* bound: rows of the log

ASSUME ChainAssumption == RowBound \in Nat

SensitiveLevels == {"pii", "secret"}
Genesis == <<>>

VARIABLES logging,   \* the handlers: where they are, the hash they read
          privacyLog,  \* privacy_log in the order of its ids
          hinted     \* prompts for which the allowlist was promoted

chainVars == <<logging, privacyLog, hinted>>

NotLogging == [pc |-> "new", level |-> "none", prev |-> Genesis]

ChainInit ==
  /\ logging = [p \in Reported |-> NotLogging]
  /\ privacyLog = <<>>
  /\ hinted = {}

LinkHash(prev, p, level) == Append(prev, <<p, level>>)

ChainLockFree == \A p \in Reported : logging[p].pc # "insert"
LastHash == IF privacyLog = <<>> THEN Genesis ELSE privacyLog[Len(privacyLog)].this
ChainTo(p, l) == logging' = [logging EXCEPT ![p] = l]

\* before_route, then on_request: only sensitive prompts concern the extension.
HintPrompt(p) ==
  /\ logging[p].pc = "new"
  /\ \E level \in SensitiveLevels \union {"none"} :
       /\ ChainTo(p, [NotLogging EXCEPT !.level = level,
                        !.pc = IF level \in SensitiveLevels THEN "wait" ELSE "done"])
       /\ hinted' = IF level \in SensitiveLevels THEN hinted \union {p} ELSE hinted
  /\ UNCHANGED privacyLog

\* Mutant: the last row is read before the lock is waited for.
ReadUnlocked(p) ==
  /\ logging[p].pc = "wait"
  /\ ChainTo(p, [logging[p] EXCEPT !.pc = "insert", !.prev = LastHash])
  /\ UNCHANGED <<privacyLog, hinted>>

\* Under the lock, the hash of the last row; without a database, or when the read fails,
\* nothing is logged.
ReadLast(p) ==
  /\ logging[p].pc = "wait"
  /\ ChainLockFree
  /\ \/ ChainTo(p, [logging[p] EXCEPT !.pc = "insert", !.prev = LastHash])
     \/ ChainTo(p, [logging[p] EXCEPT !.pc = "done"])
  /\ UNCHANGED <<privacyLog, hinted>>

\* An insert that fails is logged and leaves no row, or one the handler does not know of.
InsertRow(p) ==
  /\ logging[p].pc = "insert"
  /\ Len(privacyLog) < RowBound
  /\ privacyLog' =
       Append(privacyLog, [p |-> p, level |-> logging[p].level, prev |-> logging[p].prev,
                           this |-> LinkHash(logging[p].prev, p, logging[p].level)])
  /\ ChainTo(p, [logging[p] EXCEPT !.pc = "done"])
  /\ UNCHANGED hinted

FailInsert(p) ==
  /\ logging[p].pc = "insert"
  /\ ChainTo(p, [logging[p] EXCEPT !.pc = "done"])
  /\ UNCHANGED <<privacyLog, hinted>>

\* The process restarts and forgets who held the lock; an insert that was sent has ended
\* before the new process is up.
RestartPrivacy ==
  /\ \E p \in Reported : logging[p].pc \in {"wait", "insert"}
  /\ logging' = [p \in Reported |-> IF logging[p].pc \in {"wait", "insert"}
                                    THEN [logging[p] EXCEPT !.pc = "done"] ELSE logging[p]]
  /\ UNCHANGED <<privacyLog, hinted>>

ChainNext ==
  \/ \E p \in Reported : HintPrompt(p) \/ ReadLast(p) \/ InsertRow(p) \/ FailInsert(p)
  \/ RestartPrivacy

\* verify_chain over rows that may not be those that were written.
Verifies(log) ==
  \A i \in DOMAIN log :
    /\ log[i].prev = IF i = 1 THEN Genesis ELSE log[i - 1].this
    /\ log[i].this = LinkHash(log[i].prev, log[i].p, log[i].level)

-----------------------------------------------------------------------------
(* Properties. *)

ChainTypeOK ==
  /\ \A p \in Reported : /\ logging[p].pc \in {"new", "wait", "insert", "done"}
                         /\ logging[p].level \in SensitiveLevels \union {"none"}
  /\ Len(privacyLog) <= RowBound /\ hinted \subseteq Reported

\* What the rows of a log say, at most one of them rewritten, and any of them removed.
Edited(log) ==
  {[log EXCEPT ![i].level = level] : i \in DOMAIN log, level \in SensitiveLevels}
    \union {SubSeq(log, 1, i - 1) \o SubSeq(log, i + 1, Len(log)) : i \in DOMAIN log}

\* The log verifies, in whatever order the prompts were logged and whichever inserts failed,
\* and no log with a row altered or removed does, except one that only lost its last rows
\* (chain.py:47-66).
ChainIntact ==
  /\ Verifies(privacyLog)
  /\ \A log \in Edited(privacyLog) : Verifies(log) => log = SubSeq(privacyLog, 1, Len(log))
=============================================================================
