------------------------------- MODULE Scorecard -------------------------------
(***************************************************************************)
(* The scorecard of one provider, model and tier (scorecard.py, bloat.py): *)
(* every finished request moves its score and leaves a row per finding,    *)
(* in one transaction; routing passes a model by while its score is low.   *)
(* The score is counted in units; decay and reward are not computed.       *)
(***************************************************************************)
EXTENDS Integers

CONSTANTS
  Scorers,      \* requests whose brain step may run at the same time
  Neutral,      \* the score of a model nobody has used
  Demotion,     \* below this score routing passes the model by
  Ceiling,      \* the highest score
  MaxPenalty,   \* what a request may cost a model at most
  Findings,     \* what the findings of a request may add up to
  Reward,       \* what a request without findings earns
  SampleBound   \* requests counted

ASSUME ScorecardAssumption ==
  /\ Neutral \in Nat /\ Demotion \in Nat /\ Ceiling \in Nat /\ MaxPenalty \in Nat
  /\ Demotion <= Neutral /\ Neutral <= Ceiling
  /\ Findings \subseteq Nat \ {0} /\ Reward \in Nat /\ SampleBound \in Nat

NoScorer == "none"
ASSUME ScorersAssumption == NoScorer \notin Scorers

Unseen == [seen |-> FALSE, score |-> Neutral, samples |-> 0]

VARIABLES
  card,        \* the row of model_scorecard; Unseen before its first request
  incidents,   \* requests with rows in model_incidents
  rowLock,     \* the request whose transaction has the row locked
  scorer       \* request -> how far its transaction is, the row it read

scoreVars == <<card, incidents, rowLock, scorer>>

Cards == [seen : BOOLEAN, score : 0..Ceiling, samples : 0..SampleBound]
NotScoring == [pc |-> "idle", card |-> Unseen]

ScorecardTypeOK ==
  /\ card \in Cards
  /\ incidents \in 0..SampleBound
  /\ rowLock \in Scorers \union {NoScorer}
  /\ scorer \in [Scorers -> [pc : {"idle", "write"}, card : Cards]]

ScorecardInit ==
  /\ card = Unseen
  /\ incidents = 0
  /\ rowLock = NoScorer
  /\ scorer = [w \in Scorers |-> NotScoring]

-----------------------------------------------------------------------------
\* Time pulls a score towards the neutral one.
Decayed(score) ==
  {s \in 0..Ceiling : (score <= s /\ s <= Neutral) \/ (Neutral <= s /\ s <= score)}

Clamped(score) == IF score < 0 THEN 0 ELSE IF score > Ceiling THEN Ceiling ELSE score

\* aggregate_score_penalty.
Penalty(findings) == IF findings > MaxPenalty THEN MaxPenalty ELSE findings

\* Mutant: the row is read without FOR UPDATE.
ReadCardUnlocked(w) ==
  /\ scorer[w].pc = "idle"
  /\ scorer' = [scorer EXCEPT ![w] = [pc |-> "write", card |-> card]]
  /\ UNCHANGED <<card, incidents, rowLock>>

\* SELECT ... FOR UPDATE waits for the lock of the row; where there is no row,
\* it locks nothing.
ReadCard(w) ==
  /\ scorer[w].pc = "idle"
  /\ rowLock = NoScorer
  /\ rowLock' = IF card.seen THEN w ELSE NoScorer
  /\ scorer' = [scorer EXCEPT ![w] = [pc |-> "write", card |-> card]]
  /\ UNCHANGED <<card, incidents>>

Unlocked(w) == IF rowLock = w THEN NoScorer ELSE rowLock

\* The row and the incidents are committed together.
WriteCard(w, score, found) ==
  LET read == scorer[w].card
  IN /\ scorer[w].pc = "write"
     /\ read.seen \/ ~card.seen
     /\ read.samples < SampleBound /\ incidents < SampleBound
     /\ card' = [seen |-> TRUE, score |-> Clamped(score), samples |-> read.samples + 1]
     /\ incidents' = incidents + (IF found THEN 1 ELSE 0)
     /\ rowLock' = Unlocked(w)
     /\ scorer' = [scorer EXCEPT ![w] = NotScoring]

Commend(w) == \E s \in Decayed(scorer[w].card.score) : WriteCard(w, s + Reward, FALSE)

Penalise(w) ==
  \E s \in Decayed(scorer[w].card.score), findings \in Findings :
    WriteCard(w, s - Penalty(findings), TRUE)

\* The first row was inserted by another request: the insert fails, and with it
\* the brain step; an error or a crash ends a transaction at any time.
AbortScoring(w) ==
  /\ scorer[w].pc = "write"
  /\ rowLock' = Unlocked(w)
  /\ scorer' = [scorer EXCEPT ![w] = NotScoring]
  /\ UNCHANGED <<card, incidents>>

ScorecardNext ==
  \E w \in Scorers : ReadCard(w) \/ Commend(w) \/ Penalise(w) \/ AbortScoring(w)

ScorecardSpec == ScorecardInit /\ [][ScorecardNext]_scoreVars

-----------------------------------------------------------------------------
\* No request is lost to another: a request that left incidents is among the
\* samples of the row, however the transactions overlap, also those of the
\* first two requests, which find no row to lock (scorecard.py:94-178).
IncidentsAreSampled == incidents <= card.samples

\* A model that routing passes by was found at fault often enough: one bad
\* request costs it MaxPenalty at most, time and good requests only lift it
\* back towards neutral (bloat.py:202-207, scorecard.py:262-272).
DemotionIsEarned ==
  card.score < Demotion => incidents * MaxPenalty > Neutral - Demotion

\* Concurrent requests of a model lose none of each other's samples, and its score is lowered
\* by no more than its incidents were worth (scorecard.py:68-171).
ScoresAreEarned == IncidentsAreSampled /\ DemotionIsEarned
===============================================================================
