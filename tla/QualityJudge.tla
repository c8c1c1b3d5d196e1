----------------------------- MODULE QualityJudge -----------------------------
(***************************************************************************)
(* The judge that rates finished calls (quality_eval.py), after a request  *)
(* or on an operator's click: the gates a call must pass, the cached       *)
(* settings, the daily cap with its cached spend, the evaluation's row.    *)
(*                                                                         *)
(* A step of a worker ends where the code awaits.  The day does not        *)
(* change.                                                                 *)
(***************************************************************************)
EXTENDS Integers, FiniteSets, FiniteSetsExt

CONSTANTS
  Judges,       \* invocations that may overlap
  Rated,        \* finished calls, members of RatedType
  JudgeCap,     \* the daily cap
  JudgeCost,    \* of an evaluation
  JudgeBound    \* cost recorded, lost or cached, as far as it is counted

\* What the gates look at: the class of the decision row, whether the call is a
\* machine probe, an anomaly, has a prompt and an answer to judge.
RatedType == [class : {"none", "pii", "secret"}, probe : BOOLEAN, anomaly : BOOLEAN,
              bodies : BOOLEAN]

ASSUME QualityAssumption ==
  /\ IsFiniteSet(Judges) /\ Rated \subseteq RatedType /\ Rated # {}
  /\ JudgeCap \in Nat /\ JudgeCost \in Nat /\ JudgeBound \in Nat

VARIABLES
  judgeOn,     \* the stored setting
  cfgCache,    \* the cached setting, "none" if it was cleared or has expired
  judgeSpent,  \* the cost of the day: in rows, and of rows that were not kept
  spendCache,  \* the cached spend: its value and whether it is fresh
  eval         \* worker -> its invocation

judgeVars == <<judgeOn, cfgCache, judgeSpent, spendCache, eval>>

Switch == {"on", "off"}
NoEval == [pc |-> "idle", auto |-> TRUE, call |-> CHOOSE c \in Rated : TRUE,
           setting |-> "off", read |-> 0, cost |-> 0]

JudgeTypeOK ==
  /\ judgeOn \in Switch /\ cfgCache \in Switch \union {"none"}
  /\ judgeSpent \in [rows : 0..JudgeBound, lost : 0..JudgeBound]
  /\ spendCache \in [value : 0..JudgeBound, fresh : BOOLEAN]
  /\ eval \in [Judges -> [pc : {"idle", "fill", "gate", "cap", "store", "judge", "persist", "insert"},
                          auto : BOOLEAN, call : Rated, setting : Switch,
                          read : 0..JudgeBound, cost : 0..JudgeBound]]

JudgeInit ==
  /\ judgeOn = "on" /\ cfgCache = "none"
  /\ judgeSpent = [rows |-> 0, lost |-> 0]
  /\ spendCache = [value |-> 0, fresh |-> FALSE]
  /\ eval = [w \in Judges |-> NoEval]

-----------------------------------------------------------------------------
Judging(w, pc) == eval[w].pc = pc
JudgeGo(w, pc) == eval' = [eval EXCEPT ![w].pc = pc]
JudgeEnd(w) == eval' = [eval EXCEPT ![w] = NoEval]

\* process_quality and manual_evaluate begin with the cached setting, or read
\* it; a read that fails yields the default, which is on.
BeginEval(w, auto, call) ==
  /\ Judging(w, "idle")
  /\ cfgCache # "off"
  /\ \E setting \in IF cfgCache = "none" THEN {judgeOn, "on"} ELSE {cfgCache} :
       eval' = [eval EXCEPT ![w] = [NoEval EXCEPT !.auto = auto, !.call = call,
                  !.setting = setting, !.pc = IF cfgCache = "none" THEN "fill" ELSE "gate"]]
  /\ UNCHANGED <<judgeOn, cfgCache, judgeSpent, spendCache>>

\* What was read before the await fills the cache after it, though a save may
\* have cleared the cache in between.
FillConfig(w) ==
  /\ Judging(w, "fill")
  /\ cfgCache' = eval[w].setting
  /\ IF eval[w].setting = "on" THEN JudgeGo(w, "gate") ELSE JudgeEnd(w)
  /\ UNCHANGED <<judgeOn, judgeSpent, spendCache>>

\* Mutant: the operator's click passes the class by.
AdmitsAsked(auto, call) == call.bodies /\ (auto => call.class # "secret" /\ ~call.probe)

\* The gates of should_evaluate and manual_evaluate, but for the sampling.
Admits(auto, call) == call.class # "secret" /\ call.bodies /\ (auto => ~call.probe)

\* A call that is no anomaly is judged only if it is sampled.
Gate(w) ==
  /\ Judging(w, "gate")
  /\ \/ Admits(eval[w].auto, eval[w].call) /\ JudgeGo(w, "cap")
     \/ /\ \/ ~Admits(eval[w].auto, eval[w].call)
           \/ eval[w].auto /\ ~eval[w].call.anomaly
        /\ JudgeEnd(w)
  /\ UNCHANGED <<judgeOn, cfgCache, judgeSpent, spendCache>>

\* The spend is cached for a minute, then read from the database; if that fails,
\* the cached figure serves once more.
CheckJudgeCap(w) ==
  /\ Judging(w, "cap")
  /\ \/ /\ JudgeCap = 0 \/ spendCache.value < JudgeCap
        /\ JudgeGo(w, "judge")
     \/ /\ JudgeCap > 0 /\ spendCache.value >= JudgeCap
        /\ JudgeEnd(w)
     \/ /\ JudgeCap > 0 /\ ~spendCache.fresh
        /\ eval' = [eval EXCEPT ![w].pc = "store", ![w].read = judgeSpent.rows]
  /\ UNCHANGED <<judgeOn, cfgCache, judgeSpent, spendCache>>

\* The figure replaces the cached one after the await: what other workers added
\* to the cache in between is lost.
StoreSpend(w) ==
  /\ Judging(w, "store")
  /\ spendCache' = [value |-> eval[w].read, fresh |-> TRUE]
  /\ IF eval[w].read < JudgeCap THEN JudgeGo(w, "judge") ELSE JudgeEnd(w)
  /\ UNCHANGED <<judgeOn, cfgCache, judgeSpent>>

\* The call to the judge; an error, bad JSON or no choice ends the matter.
Judge(w) ==
  /\ Judging(w, "judge")
  /\ JudgeGo(w, "persist") \/ JudgeEnd(w)
  /\ UNCHANGED <<judgeOn, cfgCache, judgeSpent, spendCache>>

\* _persist adds the cost to the cached spend at once; a model that has no price
\* adds nothing.
BumpSpend(w) ==
  /\ Judging(w, "persist")
  /\ \E cost \in {0, JudgeCost} :
       /\ spendCache.value + cost <= JudgeBound
       /\ spendCache' = [spendCache EXCEPT !.value = @ + cost]
       /\ eval' = [eval EXCEPT ![w].pc = "insert", ![w].cost = cost]
  /\ UNCHANGED <<judgeOn, cfgCache, judgeSpent>>

\* ... and inserts the row, which may fail.
InsertEval(w) ==
  /\ Judging(w, "insert")
  /\ \E account \in {"rows", "lost"} :
       /\ judgeSpent[account] + eval[w].cost <= JudgeBound
       /\ judgeSpent' = [judgeSpent EXCEPT ![account] = @ + eval[w].cost]
  /\ JudgeEnd(w)
  /\ UNCHANGED <<judgeOn, cfgCache, spendCache>>

PersistEval(w) == BumpSpend(w) \/ InsertEval(w)

\* PUT /v1/config clears both caches of the judge; otherwise they age.
SaveSettings ==
  /\ judgeOn' \in Switch
  /\ cfgCache' = "none"
  /\ spendCache' = [value |-> 0, fresh |-> FALSE]
  /\ UNCHANGED <<judgeSpent, eval>>

ExpireCaches ==
  /\ cfgCache' = "none"
  /\ spendCache' = [spendCache EXCEPT !.fresh = FALSE]
  /\ UNCHANGED <<judgeOn, judgeSpent, eval>>

JudgeNext ==
  \/ \E w \in Judges :
       \/ \E auto \in BOOLEAN, call \in Rated : BeginEval(w, auto, call)
       \/ FillConfig(w) \/ Gate(w) \/ CheckJudgeCap(w) \/ StoreSpend(w) \/ Judge(w) \/ PersistEval(w)
  \/ SaveSettings \/ ExpireCaches

JudgeSpec == JudgeInit /\ [][JudgeNext]_judgeVars

-----------------------------------------------------------------------------
\* A prompt classed secret is never sent to the judge, neither after its request
\* nor when an operator asks for it (quality_eval.py:197, 602).
SecretsNotJudged ==
  \A w \in Judges : eval[w].pc \in {"judge", "persist", "insert"} => eval[w].call.class # "secret"

\* The cached spend never exceeds what was spent: whatever a refresh overwrites,
\* the cap does not stop the judge before the day's cost has reached it.  It
\* relies on the order of _persist, cache first and row second
\* (quality_eval.py:131-147, 433).
SpendNotOverstated ==
  spendCache.value <= judgeSpent.rows + judgeSpent.lost
                        + MapThenSumSet(LAMBDA w : eval[w].cost, Judges)

===============================================================================
