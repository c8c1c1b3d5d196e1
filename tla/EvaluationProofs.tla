-------------------------- MODULE EvaluationProofs ---------------------------
(*****************************************************************************)
(* TLAPS proofs of the services that judge the answers, for any numbers of   *)
(* requests, handlers, trials, shots and calls: the score cards, the shadow  *)
(* trials, the judges, the drift watch, the investigations and the probes.   *)
(*****************************************************************************)
EXTENDS Scorecard, ShadowTrials, QualityJudge, DriftWatch, Investigations, ProbeCycles,
        SumTheorems, SequenceTheorems

(*****************************************************************************)
(* Scorecard: the transactions lose no sample, and a low score is earned.    *)
(*****************************************************************************)

ScorerStates == [pc : {"idle", "write"}, card : Cards]

ScoreTyped ==
  /\ card \in Cards /\ incidents \in 0..SampleBound
  /\ rowLock \in Scorers \union {NoScorer} /\ scorer \in [Scorers -> ScorerStates]

\* What a transaction read of a row that exists is still there, as it has the row locked; one
\* that found no row will find out when it inserts.
ReaderHolds ==
  /\ ~card.seen => card = Unseen
  /\ \A w \in Scorers :
       scorer[w].pc = "write" =>
         IF scorer[w].card.seen THEN rowLock = w /\ scorer[w].card = card
         ELSE scorer[w].card = Unseen

\* How far below neutral the score may be.
ScoreSupported ==
  /\ incidents <= card.samples
  /\ card.score + incidents * MaxPenalty >= Neutral

ScoreInv == ScoreTyped /\ ReaderHolds /\ ScoreSupported

------------------------------------------------------------------------------

\* The row before its first request.
LEMMA UnseenIsCard == Unseen \in Cards /\ NotScoring \in ScorerStates
<1>1. Unseen \in Cards
  BY ScorecardAssumption DEF Unseen, Cards
<1> QED BY <1>1 DEF NotScoring, ScorerStates

\* The invariant holds at the start.
LEMMA ScoreInitially == ScorecardInit => ScoreInv
<1> SUFFICES ASSUME ScorecardInit PROVE ScoreInv
  OBVIOUS
<1>1. ScoreTyped
  BY UnseenIsCard, ScorecardAssumption DEF ScorecardInit, ScoreTyped
<1>2. ReaderHolds
  BY DEF ScorecardInit, ReaderHolds, NotScoring
<1>3. incidents * MaxPenalty = 0
  BY ScorecardAssumption DEF ScorecardInit
<1>4. ScoreSupported
  BY <1>3, ScorecardAssumption DEF ScorecardInit, ScoreSupported, Unseen
<1> QED BY <1>1, <1>2, <1>4 DEF ScoreInv

\* Decay never moves a score away from neutral, and the clamp only cuts the ends off.
LEMMA ScoreSteps ==
  ASSUME NEW score \in 0..Ceiling, NEW s \in Decayed(score), NEW change \in Int
  PROVE  /\ Clamped(s + change) \in 0..Ceiling
         /\ s >= score \/ s >= Neutral
         /\ Clamped(s + change) >= s + change \/ Clamped(s + change) >= Neutral
BY ScorecardAssumption DEF Decayed, Clamped

\* A transaction that opens, and one that fails.
LEMMA ReadingKeeps ==
  ASSUME ScoreInv, NEW w \in Scorers, ReadCard(w) \/ AbortScoring(w) PROVE ScoreInv'
<1>1. ScoreTyped /\ ReaderHolds /\ ScoreSupported /\ scorer \in [Scorers -> ScorerStates] /\ card \in Cards
  BY DEF ScoreInv, ScoreTyped
<1>2. card' = card /\ incidents' = incidents
  BY DEF ReadCard, AbortScoring
<1>3. ScoreSupported'
  BY <1>1, <1>2 DEF ScoreSupported
<1>4. CASE ReadCard(w)
  <2> DEFINE step == [pc |-> "write", card |-> card]
  <2>1. scorer' = [scorer EXCEPT ![w] = step] /\ rowLock = NoScorer
        /\ rowLock' = IF card.seen THEN w ELSE NoScorer
    BY <1>4 DEF ReadCard
  <2>2. step \in ScorerStates /\ step.card = card /\ step.pc = "write"
    BY <1>1 DEF ScorerStates
  <2> HIDE DEF step
  <2>3. ScoreTyped'
    BY <1>1, <1>2, <2>1, <2>2 DEF ScoreTyped
  <2>4. ReaderHolds'
    <3>1. ASSUME NEW q \in Scorers, scorer'[q].pc = "write"
          PROVE  IF scorer'[q].card.seen THEN rowLock' = q /\ scorer'[q].card = card
                 ELSE scorer'[q].card = Unseen
      <4>1. CASE q = w
        BY <1>1, <2>1, <2>2, <4>1 DEF ReaderHolds
      <4>2. CASE q # w
        BY <1>1, <2>1, <3>1, <4>2, ScorersAssumption DEF ReaderHolds
      <4> QED BY <4>1, <4>2
    <3> QED BY <1>1, <1>2, <3>1 DEF ReaderHolds
  <2> QED BY <1>3, <2>3, <2>4 DEF ScoreInv
<1>5. CASE AbortScoring(w)
  <2>1. scorer' = [scorer EXCEPT ![w] = NotScoring] /\ rowLock' = Unlocked(w)
    BY <1>5 DEF AbortScoring
  <2>2. ScoreTyped'
    BY <1>1, <1>2, <2>1, UnseenIsCard DEF ScoreTyped, Unlocked
  <2>3. ReaderHolds'
    BY <1>1, <1>2, <2>1 DEF ReaderHolds, Unlocked, NotScoring
  <2> QED BY <1>3, <2>2, <2>3 DEF ScoreInv
<1> QED BY <1>4, <1>5

\* A transaction that writes: the row is what it read.
LEMMA WritingKeeps ==
  ASSUME ScoreInv, NEW w \in Scorers, NEW s \in Decayed(scorer[w].card.score), NEW change \in Int,
         NEW found \in BOOLEAN, WriteCard(w, s + change, found),
         ~found => change >= 0, found => change >= -MaxPenalty
  PROVE  ScoreInv'
<1> USE ScorecardAssumption
<1>1. /\ ScoreTyped /\ ReaderHolds /\ ScoreSupported /\ scorer \in [Scorers -> ScorerStates]
      /\ card \in Cards /\ incidents \in 0..SampleBound
  BY DEF ScoreInv, ScoreTyped
<1>2. /\ scorer[w].pc = "write" /\ (scorer[w].card.seen \/ ~card.seen)
      /\ scorer[w].card.samples < SampleBound /\ incidents < SampleBound
      /\ card' = [seen |-> TRUE, score |-> Clamped(s + change),
                  samples |-> scorer[w].card.samples + 1]
      /\ incidents' = incidents + (IF found THEN 1 ELSE 0)
      /\ rowLock' = Unlocked(w) /\ scorer' = [scorer EXCEPT ![w] = NotScoring]
  BY DEF WriteCard
<1>3. scorer[w].card = card
  BY <1>1, <1>2 DEF ReaderHolds
<1>4. /\ card.score \in 0..Ceiling /\ card.samples \in 0..SampleBound
      /\ s \in Decayed(card.score)
  BY <1>1, <1>3 DEF Cards
<1>5. /\ Clamped(s + change) \in 0..Ceiling
      /\ s >= card.score \/ s >= Neutral
      /\ Clamped(s + change) >= s + change \/ Clamped(s + change) >= Neutral
  BY <1>4, ScoreSteps
<1>6. s \in Int
  BY DEF Decayed
<1>7. card' \in Cards /\ card'.seen /\ card'.score = Clamped(s + change)
      /\ card'.samples = card.samples + 1
  BY <1>2, <1>3, <1>4, <1>5 DEF Cards
<1>8. ScoreTyped'
  <2>1. incidents' \in 0..SampleBound
    BY <1>1, <1>2
  <2>2. rowLock' \in Scorers \union {NoScorer}
    BY <1>1, <1>2 DEF ScoreTyped, Unlocked
  <2>3. scorer' \in [Scorers -> ScorerStates]
    BY <1>1, <1>2, UnseenIsCard
  <2> QED BY <1>7, <2>1, <2>2, <2>3 DEF ScoreTyped
<1>9. ReaderHolds'
  <2>1. ASSUME NEW q \in Scorers, scorer'[q].pc = "write"
        PROVE  scorer'[q].card = Unseen
    <3>1. q # w /\ scorer'[q] = scorer[q]
      BY <1>1, <1>2, <2>1 DEF NotScoring
    <3>2. ~scorer[q].card.seen
      BY <1>1, <1>2, <1>3, <2>1, <3>1 DEF ReaderHolds
    <3> QED BY <1>1, <2>1, <3>1, <3>2 DEF ReaderHolds
  <2>2. ~Unseen.seen
    BY DEF Unseen
  <2> QED BY <1>7, <2>1, <2>2 DEF ReaderHolds
<1>10. ScoreSupported'
  <2>1. incidents' <= card'.samples
    BY <1>1, <1>2, <1>4, <1>7 DEF ScoreSupported
  <2> DEFINE owed == incidents * MaxPenalty
  <2>2. owed \in Nat /\ card.score + owed >= Neutral
    BY <1>1 DEF ScoreSupported
  <2>3. incidents' * MaxPenalty = IF found THEN owed + MaxPenalty ELSE owed
    BY <1>1, <1>2
  <2>4. s + owed >= Neutral
    BY <1>4, <1>5, <1>6, <2>2
  <2> HIDE DEF owed
  <2>5. s + change + (IF found THEN owed + MaxPenalty ELSE owed) >= Neutral
    BY <1>6, <2>2, <2>4
  <2>6. Clamped(s + change) + (IF found THEN owed + MaxPenalty ELSE owed) >= Neutral
    BY <1>5, <1>6, <2>2, <2>5
  <2> QED BY <1>7, <2>1, <2>3, <2>6 DEF ScoreSupported
<1> QED BY <1>8, <1>9, <1>10 DEF ScoreInv

\* Every step keeps the invariant.
LEMMA ScoreStep == ScoreInv /\ [ScorecardNext]_scoreVars => ScoreInv'
<1> SUFFICES ASSUME ScoreInv, [ScorecardNext]_scoreVars PROVE ScoreInv'
  OBVIOUS
<1>1. CASE UNCHANGED scoreVars
  BY <1>1 DEF scoreVars, ScoreInv, ScoreTyped, ReaderHolds, ScoreSupported
<1>2. CASE ScorecardNext
  <2>1. PICK w \in Scorers : ReadCard(w) \/ Commend(w) \/ Penalise(w) \/ AbortScoring(w)
    BY <1>2 DEF ScorecardNext
  <2>2. CASE ReadCard(w) \/ AbortScoring(w)
    BY <2>2, ReadingKeeps
  <2>3. CASE Commend(w)
    <3>1. PICK s \in Decayed(scorer[w].card.score) : WriteCard(w, s + Reward, FALSE)
      BY <2>3 DEF Commend
    <3>2. Reward \in Int /\ Reward >= 0
      BY ScorecardAssumption
    <3> QED BY <3>1, <3>2, WritingKeeps
  <2>4. CASE Penalise(w)
    <3>1. PICK s \in Decayed(scorer[w].card.score), findings \in Findings :
            WriteCard(w, s - Penalty(findings), TRUE)
      BY <2>4 DEF Penalise
    <3>2. Penalty(findings) \in Nat /\ Penalty(findings) <= MaxPenalty
      BY ScorecardAssumption DEF Penalty
    <3>3. s \in Int
      BY DEF Decayed
    <3>4. s - Penalty(findings) = s + (-Penalty(findings))
      BY <3>2, <3>3
    <3>5. -Penalty(findings) \in Int /\ -Penalty(findings) >= -MaxPenalty
      BY <3>2, ScorecardAssumption
    <3>6. WriteCard(w, s + (-Penalty(findings)), TRUE)
      BY <3>1, <3>4
    <3> QED BY <3>5, <3>6, WritingKeeps
  <2> QED BY <2>1, <2>2, <2>3, <2>4
<1> QED BY <1>1, <1>2

\* However the transactions of concurrent requests interleave and fail, none loses another's
\* sample, and a model is passed by only after as many faulty requests as the distance from
\* neutral is worth (scorecard.py:68-171, bloat.py:202-207).
THEOREM ScoresStayEarned == ScorecardSpec => []ScoresAreEarned
<1>1. ScoreInv => ScoresAreEarned
  <2> SUFFICES ASSUME ScoreInv, card.score < Demotion
               PROVE  incidents * MaxPenalty > Neutral - Demotion
    BY DEF ScoreInv, ScoreSupported, ScoresAreEarned, IncidentsAreSampled, DemotionIsEarned
  <2> DEFINE owed == incidents * MaxPenalty
  <2>1. owed \in Nat /\ card.score \in Nat
    BY ScorecardAssumption DEF ScoreInv, ScoreTyped, Cards
  <2>2. card.score + owed >= Neutral
    BY DEF ScoreInv, ScoreSupported
  <2> HIDE DEF owed
  <2>3. owed > Neutral - Demotion
    BY <2>1, <2>2, ScorecardAssumption
  <2> QED BY <2>3 DEF owed
<1> QED BY <1>1, ScoreInitially, ScoreStep, PTL DEF ScorecardSpec

\* A scorecard that its samples support is typed.
LEMMA ScoreTypes == ScoreInv => ScorecardTypeOK
BY DEF ScoreInv, ScoreTyped, ScorerStates, ScorecardTypeOK

(*****************************************************************************)
(* ShadowTrials: secrets are not mirrored, the verdict names the winner, and *)
(* the trials stay within their allowance.                                   *)
(*****************************************************************************)

TrialStates ==
  [pc : {"idle", "gate", "cap", "challenge", "compare", "record"},
   kind : Sampled \union {"prompt_improve"}, call : Champions,
   first : BOOLEAN, cost : 0..(ChallengerCost + CompareCost),
   preferred : Verdicts, verdict : Verdicts]

Spending == {"challenge", "compare", "record"}

\* What a trial knows at each stage.
TrialSound(x) ==
  /\ x.pc \in Spending \union {"cap"} => x.call.class # "secret"
  /\ x.pc # "record" => x.preferred = "error"
  /\ x.verdict = x.preferred
  /\ x.pc \notin {"compare", "record"} => x.cost = 0
  /\ x.pc = "compare" => x.cost <= ChallengerCost

SoundTrials == {x \in TrialStates : TrialSound(x)}

\* The sampled trials that have passed the cap.
Sampling == {t \in Trials : trial[t].kind \in Sampled /\ trial[t].pc \in Spending}

\* What was spent and what those trials may still record stay within the bound.
TrialReserve ==
  TrialCap > 0 =>
    trialSpent.sampled + Cardinality(Sampling) * (ChallengerCost + CompareCost)
      < TrialCap + Cardinality(Trials) * (ChallengerCost + CompareCost)

ShadowInv == ShadowTypeOK /\ trial \in [Trials -> SoundTrials] /\ TrialReserve

-----------------------------------------------------------------------------

\* The request that has not begun is a trial in order.
LEMMA NoTrialSound == NoTrial \in SoundTrials /\ NoTrial.pc = "idle"
<1>1. (CHOOSE c \in Champions : TRUE) \in Champions
  BY ShadowAssumption
<1>2. 0 \in 0..(ChallengerCost + CompareCost)
  BY ShadowAssumption
<1> QED BY <1>1, <1>2 DEF NoTrial, SoundTrials, TrialSound, TrialStates, Sampled, Verdicts, Spending

\* The trials are finitely many, so those under way are.
LEMMA SamplingFinite ==
  ASSUME NEW T \in SUBSET Trials
  PROVE  IsFiniteSet(T) /\ Cardinality(T) \in Nat /\ Cardinality(T) <= Cardinality(Trials)
         /\ Cardinality(Trials) \in Nat
BY ShadowAssumption, FS_Subset, FS_CardinalityType

\* The invariant holds at the start.
LEMMA ShadowInitially == ShadowInit => ShadowInv
<1> SUFFICES ASSUME ShadowInit PROVE ShadowInv
  OBVIOUS
<1>1. trial \in [Trials -> SoundTrials]
  BY NoTrialSound DEF ShadowInit
<1>2. trial \in [Trials -> TrialStates]
  BY <1>1 DEF SoundTrials
<1>3. ShadowTypeOK
  BY <1>2, ShadowAssumption DEF ShadowInit, ShadowTypeOK, TrialStates
<1>4. TrialReserve
  <2>1. Sampling = {}
    BY NoTrialSound DEF ShadowInit, Sampling, Spending
  <2>2. Cardinality(Sampling) = 0 /\ Cardinality(Trials) \in Nat
    BY <2>1, FS_EmptySet, SamplingFinite
  <2> DEFINE each == ChallengerCost + CompareCost
             all == Cardinality(Trials) * each
  <2>3. each \in Nat /\ all \in Nat /\ Cardinality(Sampling) * each = 0
    BY <2>2, ShadowAssumption
  <2> HIDE DEF each, all
  <2>4. trialSpent.sampled = 0
    BY DEF ShadowInit
  <2>5. TrialCap \in Nat
    BY ShadowAssumption
  <2>6. TrialCap > 0 => trialSpent.sampled + Cardinality(Sampling) * each < TrialCap + all
    BY <2>3, <2>4, <2>5
  <2> QED BY <2>6 DEF TrialReserve, each, all
<1> QED BY <1>1, <1>3, <1>4 DEF ShadowInv

\* A step of one trial, which spends nothing of the reserve but what passes the cap.
LEMMA TrialMoves ==
  ASSUME ShadowInv, NEW t \in Trials, NEW x \in SoundTrials, trial' = [trial EXCEPT ![t] = x],
         shadowOn' = shadowOn,
         trialSpent' \in [sampled : 0..TrialBound, simulated : 0..TrialBound],
         \/ /\ trialSpent'.sampled = trialSpent.sampled
            /\ t \notin Sampling
            /\ TrialCap > 0 => trialSpent.sampled < TrialCap
         \/ /\ trialSpent'.sampled = trialSpent.sampled
            /\ x.pc \in Spending /\ x.kind \in Sampled => t \in Sampling
         \/ /\ trialSpent'.sampled <= trialSpent.sampled + ChallengerCost + CompareCost
            /\ t \in Sampling /\ x.pc \notin Spending
  PROVE  ShadowInv'
<1>1. trial' \in [Trials -> SoundTrials]
  BY DEF ShadowInv
<1>2. trial' \in [Trials -> TrialStates]
  BY <1>1 DEF SoundTrials
<1>3. ShadowTypeOK'
  BY <1>2 DEF ShadowInv, ShadowTypeOK, TrialStates
<1>4. \A u \in Trials : trial'[u] = IF u = t THEN x ELSE trial[u]
  BY DEF ShadowInv
<1> DEFINE each == ChallengerCost + CompareCost
           n == Cardinality(Sampling)
           m == Cardinality(Sampling')
           all == Cardinality(Trials)
<1>5. Sampling \in SUBSET Trials /\ Sampling' \in SUBSET Trials
  BY DEF Sampling
<1>6. n \in Nat /\ m \in Nat /\ all \in Nat /\ m <= all /\ IsFiniteSet(Sampling)
  BY <1>5, SamplingFinite
<1>7. /\ each \in Nat /\ TrialCap \in Nat /\ trialSpent'.sampled \in Nat
      /\ trialSpent.sampled \in Nat
  BY ShadowAssumption DEF ShadowInv, ShadowTypeOK
<1>8. n * each \in Nat /\ m * each \in Nat /\ all * each \in Nat
  BY <1>6, <1>7
<1>9. TrialCap > 0 => trialSpent.sampled + n * each < TrialCap + all * each
  BY DEF ShadowInv, TrialReserve
<1>10. TrialCap > 0 => trialSpent'.sampled + m * each < TrialCap + all * each
  <2> SUFFICES ASSUME TrialCap > 0
               PROVE  trialSpent'.sampled + m * each < TrialCap + all * each
    OBVIOUS
  <2>1. CASE trialSpent'.sampled = trialSpent.sampled /\ trialSpent.sampled < TrialCap
    <3>1. m * each <= all * each
      <4> HIDE DEF m, each, all
      <4> QED BY <1>6, <1>7
    <3> HIDE DEF m, each, all
    <3> QED BY <1>7, <1>8, <2>1, <3>1
  <2>2. CASE trialSpent'.sampled = trialSpent.sampled /\ Sampling' \in SUBSET Sampling
    <3>1. m <= n
      BY <1>6, <2>2, FS_Subset
    <3>2. m * each <= n * each
      <4> HIDE DEF m, n, each
      <4> QED BY <1>6, <1>7, <3>1
    <3> HIDE DEF m, n, each, all
    <3> QED BY <1>7, <1>8, <1>9, <2>2, <3>2
  <2>3. CASE /\ trialSpent'.sampled <= trialSpent.sampled + each
             /\ t \in Sampling /\ Sampling' = Sampling \ {t}
    <3>1. m = n - 1
      BY <1>6, <2>3, FS_RemoveElement
    <3>2. m * each = n * each - each
      <4> HIDE DEF m, n, each
      <4> QED BY <1>6, <1>7, <3>1
    <3> HIDE DEF m, n, each, all
    <3> QED BY <1>7, <1>8, <1>9, <2>3, <3>2
  <2>4. /\ (x.pc \in Spending /\ x.kind \in Sampled => t \in Sampling)
             => Sampling' \in SUBSET Sampling
        /\ x.pc \notin Spending => Sampling' = Sampling \ {t}
    BY <1>4 DEF Sampling
  <2>5. CASE /\ trialSpent'.sampled = trialSpent.sampled
             /\ (TrialCap > 0 => trialSpent.sampled < TrialCap)
    BY <2>1, <2>5
  <2>6. CASE /\ trialSpent'.sampled = trialSpent.sampled
             /\ (x.pc \in Spending /\ x.kind \in Sampled => t \in Sampling)
    BY <2>2, <2>4, <2>6
  <2>7. CASE /\ trialSpent'.sampled <= trialSpent.sampled + ChallengerCost + CompareCost
             /\ t \in Sampling /\ x.pc \notin Spending
    <3>1. trialSpent'.sampled <= trialSpent.sampled + each
      BY <1>7, <2>7, ShadowAssumption
    <3> QED BY <2>3, <2>4, <2>7, <3>1
  <2> QED BY <2>5, <2>6, <2>7
<1> QED BY <1>1, <1>3, <1>10 DEF ShadowInv, TrialReserve

\* A step of one trial that spends nothing and does not pass the cap.
LEMMA TrialGoesOn ==
  ASSUME ShadowInv, NEW t \in Trials, NEW x \in SoundTrials, trial' = [trial EXCEPT ![t] = x],
         UNCHANGED <<shadowOn, trialSpent>>,
         x.pc \in Spending /\ x.kind \in Sampled => t \in Sampling
  PROVE  ShadowInv'
<1>1. trialSpent' \in [sampled : 0..TrialBound, simulated : 0..TrialBound]
  BY DEF ShadowInv, ShadowTypeOK
<1> QED BY <1>1, TrialMoves

\* The judge's word is undone from the order it saw.
LEMMA MappedBack ==
  ASSUME NEW preferred \in Verdicts \ {"error"}, NEW first \in BOOLEAN
  PROVE  Mapped(Says(preferred, first), first) = preferred
BY DEF Mapped, Says, Verdicts

\* Every step keeps the invariant.
LEMMA ShadowStep == ShadowInv /\ [ShadowNext]_shadowVars => ShadowInv'
<1> SUFFICES ASSUME ShadowInv, [ShadowNext]_shadowVars PROVE ShadowInv'
  OBVIOUS
<1>1. CASE UNCHANGED shadowVars
  BY <1>1 DEF shadowVars, ShadowInv, ShadowTypeOK, TrialReserve, Sampling
<1>2. CASE SaveShadow
  BY <1>2 DEF SaveShadow, ShadowInv, ShadowTypeOK, TrialReserve, Sampling
<1>3. ASSUME NEW t \in Trials,
             \/ \E kind \in Sampled \union {"prompt_improve"}, call \in Champions :
                  BeginTrial(t, kind, call)
             \/ GateTrial(t) \/ CheckTrialCap(t) \/ Challenge(t) \/ Compare(t) \/ RecordTrial(t)
             \/ Swallow(t)
      PROVE  ShadowInv'
  <2>1. trial[t] \in TrialStates /\ TrialSound(trial[t])
    BY DEF ShadowInv, SoundTrials
  <2>2. /\ trialSpent \in [sampled : 0..TrialBound, simulated : 0..TrialBound]
        /\ \A pc : trial[t].pc = pc /\ pc \in Spending /\ trial[t].kind \in Sampled => t \in Sampling
    BY DEF ShadowInv, ShadowTypeOK, Sampling
  <2>3. CASE TrialEnd(t) /\ UNCHANGED <<shadowOn, trialSpent>>
    BY <2>3, NoTrialSound, TrialGoesOn DEF TrialEnd, Spending
  <2>4. CASE \E kind \in Sampled \union {"prompt_improve"}, call \in Champions :
               BeginTrial(t, kind, call)
    <3>1. PICK kind \in Sampled \union {"prompt_improve"}, call \in Champions :
                 BeginTrial(t, kind, call)
      BY <2>4
    <3> DEFINE x == [NoTrial EXCEPT !.pc = "gate", !.kind = kind, !.call = call]
    <3>2. NoTrial \in TrialStates /\ TrialSound(NoTrial) /\ NoTrial.pc = "idle"
      BY NoTrialSound DEF SoundTrials
    <3>3. x \in TrialStates /\ x.pc = "gate" /\ x.preferred = "error" /\ x.verdict = "error"
          /\ x.cost = 0
      BY <3>2 DEF TrialStates, TrialSound
    <3>4. trial' = [trial EXCEPT ![t] = x] /\ UNCHANGED <<shadowOn, trialSpent>>
      BY <3>1 DEF BeginTrial
    <3> HIDE DEF x
    <3>5. x \in SoundTrials
      BY <3>3 DEF SoundTrials, TrialSound, Spending
    <3> QED BY <3>3, <3>4, <3>5, TrialGoesOn DEF Spending
  <2>5. CASE GateTrial(t) /\ ~(TrialEnd(t) /\ UNCHANGED <<shadowOn, trialSpent>>)
    <3> DEFINE x == [trial[t] EXCEPT !.pc = IF trial[t].kind \in Sampled THEN "cap" ELSE "challenge"]
    <3>1. /\ trial[t].pc = "gate" /\ Mirrorable(trial[t].kind, trial[t].call)
          /\ trial' = [trial EXCEPT ![t] = x] /\ UNCHANGED <<shadowOn, trialSpent>>
      BY <2>5 DEF GateTrial, TrialAt, TrialGo
    <3>2. x \in TrialStates /\ x.pc = (IF trial[t].kind \in Sampled THEN "cap" ELSE "challenge")
          /\ x.kind = trial[t].kind /\ x.call = trial[t].call /\ x.cost = trial[t].cost
          /\ x.preferred = trial[t].preferred /\ x.verdict = trial[t].verdict
      BY <2>1 DEF TrialStates
    <3> HIDE DEF x
    <3>3. x \in SoundTrials
      BY <2>1, <3>1, <3>2 DEF SoundTrials, TrialSound, Spending, Mirrorable
    <3> QED BY <3>1, <3>2, <3>3, TrialGoesOn DEF Spending
  <2>6. CASE CheckTrialCap(t) /\ ~(TrialEnd(t) /\ UNCHANGED <<shadowOn, trialSpent>>)
    <3> DEFINE x == [trial[t] EXCEPT !.pc = "challenge"]
    <3>1. /\ trial[t].pc = "cap"
          /\ ~(TrialCap > 0 /\ trialSpent.sampled + trialSpent.simulated >= TrialCap)
          /\ trial' = [trial EXCEPT ![t] = x] /\ UNCHANGED <<shadowOn, trialSpent>>
      BY <2>6 DEF CheckTrialCap, TrialAt, TrialGo
    <3>2. x \in TrialStates /\ x.pc = "challenge" /\ x.call = trial[t].call
          /\ x.cost = trial[t].cost /\ x.preferred = trial[t].preferred
          /\ x.verdict = trial[t].verdict
      BY <2>1 DEF TrialStates
    <3> HIDE DEF x
    <3>3. x \in SoundTrials
      BY <2>1, <3>1, <3>2 DEF SoundTrials, TrialSound, Spending
    <3>4. t \notin Sampling
      BY <3>1 DEF Sampling, Spending
    <3>5. TrialCap > 0 => trialSpent.sampled < TrialCap
      BY <2>2, <3>1, ShadowAssumption
    <3>6. trialSpent' = trialSpent /\ shadowOn' = shadowOn
      BY <3>1
    <3> QED BY <2>2, <3>1, <3>3, <3>4, <3>5, <3>6, TrialMoves
  <2>7. CASE Challenge(t) \/ Compare(t)
    <3>1. PICK x \in SoundTrials :
            /\ trial' = [trial EXCEPT ![t] = x] /\ UNCHANGED <<shadowOn, trialSpent>>
            /\ trial[t].pc \in Spending /\ x.kind = trial[t].kind
      <4>1. CASE TrialGo(t, "record")
        <5> DEFINE x == [trial[t] EXCEPT !.pc = "record"]
        <5>1. x \in TrialStates /\ x.pc = "record" /\ x.call = trial[t].call
              /\ x.cost = trial[t].cost /\ x.preferred = trial[t].preferred
              /\ x.verdict = trial[t].verdict /\ x.kind = trial[t].kind
          BY <2>1 DEF TrialStates
        <5>2. /\ trial' = [trial EXCEPT ![t] = x] /\ UNCHANGED <<shadowOn, trialSpent>>
              /\ trial[t].pc \in {"challenge", "compare"}
          BY <2>7, <4>1 DEF Challenge, Compare, TrialAt, TrialGo
        <5> HIDE DEF x
        <5>3. x \in SoundTrials
          BY <2>1, <5>1, <5>2 DEF SoundTrials, TrialSound, Spending
        <5> QED BY <5>1, <5>2, <5>3 DEF Spending
      <4>2. CASE Challenge(t) /\ ~TrialGo(t, "record")
        <5>1. PICK first \in BOOLEAN, cost \in {0, ChallengerCost} :
                trial' = [trial EXCEPT ![t].pc = "compare", ![t].first = first, ![t].cost = cost]
          BY <4>2 DEF Challenge
        <5> DEFINE x == [trial[t] EXCEPT !.pc = "compare", !.first = first, !.cost = cost]
        <5>2. cost \in 0..(ChallengerCost + CompareCost) /\ cost <= ChallengerCost
          BY ShadowAssumption
        <5>3. x \in TrialStates /\ x.pc = "compare" /\ x.call = trial[t].call
              /\ x.cost = cost /\ x.preferred = trial[t].preferred
              /\ x.verdict = trial[t].verdict /\ x.kind = trial[t].kind
          BY <2>1, <5>2 DEF TrialStates
        <5>4. /\ trial' = [trial EXCEPT ![t] = x] /\ UNCHANGED <<shadowOn, trialSpent>>
              /\ trial[t].pc = "challenge"
          BY <4>2, <5>1 DEF Challenge, TrialAt
        <5> HIDE DEF x
        <5>5. x \in SoundTrials
          BY <2>1, <5>2, <5>3, <5>4 DEF SoundTrials, TrialSound, Spending
        <5> QED BY <5>3, <5>4, <5>5 DEF Spending
      <4>3. CASE Compare(t) /\ ~TrialGo(t, "record")
        <5>1. PICK preferred \in Verdicts \ {"error"}, cost \in {0, CompareCost} :
                trial' = [trial EXCEPT ![t].pc = "record", ![t].preferred = preferred,
                            ![t].cost = trial[t].cost + cost,
                            ![t].verdict = Mapped(Says(preferred, trial[t].first), trial[t].first)]
          BY <4>3 DEF Compare
        <5> DEFINE x == [trial[t] EXCEPT !.pc = "record", !.preferred = preferred,
                           !.cost = trial[t].cost + cost, !.verdict = preferred]
        <5>2. trial[t].pc = "compare" /\ trial[t].first \in BOOLEAN
          BY <2>1, <4>3 DEF Compare, TrialAt, TrialStates
        <5>3. Mapped(Says(preferred, trial[t].first), trial[t].first) = preferred
          BY <5>2, MappedBack
        <5>4. trial[t].cost + cost \in 0..(ChallengerCost + CompareCost)
          BY <2>1, <5>2, ShadowAssumption DEF TrialSound, TrialStates
        <5>5. x \in TrialStates /\ x.pc = "record" /\ x.call = trial[t].call
              /\ x.preferred = preferred /\ x.verdict = preferred /\ x.kind = trial[t].kind
          BY <2>1, <5>4 DEF TrialStates
        <5>6. /\ trial' = [trial EXCEPT ![t] = x] /\ UNCHANGED <<shadowOn, trialSpent>>
          BY <4>3, <5>1, <5>3 DEF Compare
        <5> HIDE DEF x
        <5>7. x \in SoundTrials
          BY <2>1, <5>2, <5>5 DEF SoundTrials, TrialSound, Spending
        <5> QED BY <5>2, <5>5, <5>6, <5>7 DEF Spending
      <4> QED BY <2>7, <4>1, <4>2, <4>3
    <3> QED BY <2>2, <3>1, TrialGoesOn DEF Sampling
  <2>8. CASE RecordTrial(t)
    <3> DEFINE account == IF trial[t].kind \in Sampled THEN "sampled" ELSE "simulated"
               cost == trial[t].cost
    <3>1. /\ trial[t].pc = "record" /\ trialSpent[account] + cost <= TrialBound
          /\ trialSpent' = [trialSpent EXCEPT ![account] = trialSpent[account] + cost]
          /\ trial' = [trial EXCEPT ![t] = NoTrial] /\ shadowOn' = shadowOn
      BY <2>8 DEF RecordTrial, TrialAt, TrialEnd
    <3>2. cost \in Nat /\ cost <= ChallengerCost + CompareCost
      BY <2>1, ShadowAssumption DEF TrialStates
    <3> HIDE DEF cost
    <3>3. /\ trialSpent' \in [sampled : 0..TrialBound, simulated : 0..TrialBound]
          /\ \/ /\ trial[t].kind \in Sampled
                /\ trialSpent'.sampled = trialSpent.sampled + cost
             \/ trial[t].kind \notin Sampled /\ trialSpent'.sampled = trialSpent.sampled
      <4>1. CASE trial[t].kind \in Sampled
        <5> DEFINE sum == trialSpent.sampled + cost
        <5>1. sum \in 0..TrialBound /\ trialSpent' = [trialSpent EXCEPT !.sampled = sum]
          <6>1. account = "sampled"
            BY <4>1
          <6>2. trialSpent.sampled \in Nat /\ TrialBound \in Nat
            BY <2>2, ShadowAssumption
          <6>3. /\ trialSpent.sampled + cost <= TrialBound
                /\ trialSpent' = [trialSpent EXCEPT !.sampled = trialSpent.sampled + cost]
            BY <3>1, <6>1
          <6> QED BY <3>2, <6>2, <6>3
        <5> HIDE DEF sum
        <5>2. trialSpent' \in [sampled : 0..TrialBound, simulated : 0..TrialBound]
              /\ trialSpent'.sampled = sum
          BY <2>2, <5>1
        <5> QED BY <4>1, <5>2 DEF sum
      <4>2. CASE trial[t].kind \notin Sampled
        <5> DEFINE sum == trialSpent.simulated + cost
        <5>1. sum \in 0..TrialBound /\ trialSpent' = [trialSpent EXCEPT !.simulated = sum]
          <6>1. account = "simulated"
            BY <4>2
          <6>2. trialSpent.simulated \in Nat /\ TrialBound \in Nat
            BY <2>2, ShadowAssumption
          <6>3. /\ trialSpent.simulated + cost <= TrialBound
                /\ trialSpent' = [trialSpent EXCEPT !.simulated = trialSpent.simulated + cost]
            BY <3>1, <6>1
          <6> QED BY <3>2, <6>2, <6>3
        <5> HIDE DEF sum
        <5>2. trialSpent' \in [sampled : 0..TrialBound, simulated : 0..TrialBound]
              /\ trialSpent'.sampled = trialSpent.sampled
          BY <2>2, <5>1
        <5> QED BY <4>2, <5>2
      <4> QED BY <4>1, <4>2
    <3>4. trialSpent.sampled \in Nat /\ ChallengerCost \in Nat /\ CompareCost \in Nat
      BY <2>2, ShadowAssumption
    <3>5. NoTrial.pc \notin Spending /\ NoTrial \in SoundTrials
      BY NoTrialSound DEF Spending
    <3>6. trial[t].kind \in Sampled => t \in Sampling
      BY <2>2, <3>1 DEF Spending
    <3>7. trial[t].kind \in Sampled =>
            trialSpent'.sampled <= trialSpent.sampled + ChallengerCost + CompareCost
      BY <3>2, <3>3, <3>4
    <3> QED BY <3>1, <3>3, <3>5, <3>6, <3>7, TrialMoves
  <2> QED BY <1>3, <2>3, <2>4, <2>5, <2>6, <2>7, <2>8 DEF Swallow, TrialEnd
<1> QED BY <1>1, <1>2, <1>3 DEF ShadowNext

\* What the invariant says of secrets, verdicts and spend.
LEMMA ShadowPromises ==
  ShadowInv => ShadowTypeOK /\ SecretsNotMirrored /\ VerdictNamesWinner /\ TrialSpendBounded
<1> SUFFICES ASSUME ShadowInv
             PROVE  SecretsNotMirrored /\ VerdictNamesWinner /\ TrialSpendBounded
  BY DEF ShadowInv
<1>1. \A t \in Trials : TrialSound(trial[t])
  BY DEF ShadowInv, SoundTrials
<1>2. SecretsNotMirrored /\ VerdictNamesWinner
  BY <1>1 DEF SecretsNotMirrored, VerdictNamesWinner, TrialAt, TrialSound, Spending
<1>3. TrialSpendBounded
  <2> DEFINE each == ChallengerCost + CompareCost
             owed == Cardinality(Sampling) * each
             all == Cardinality(Trials) * each
  <2>1. Sampling \in SUBSET Trials
    BY DEF Sampling
  <2>2. owed \in Nat /\ all \in Nat /\ TrialCap \in Nat /\ trialSpent.sampled \in Nat
    BY <2>1, SamplingFinite, ShadowAssumption DEF ShadowInv, ShadowTypeOK
  <2>3. TrialCap > 0 => trialSpent.sampled + owed < TrialCap + all
    BY DEF ShadowInv, TrialReserve
  <2>4. TrialSpendBounded <=> (TrialCap > 0 => trialSpent.sampled < TrialCap + all)
    BY DEF TrialSpendBounded
  <2> HIDE DEF owed, all
  <2> QED BY <2>2, <2>3, <2>4
<1> QED BY <1>2, <1>3

(*****************************************************************************)
(* QualityJudge: secrets are not judged, and the books never claim more than *)
(* was spent.                                                                *)
(*****************************************************************************)

EvalSteps == {"idle", "fill", "gate", "cap", "store", "judge", "persist", "insert"}
EvalStates ==
  [pc : EvalSteps, auto : BOOLEAN, call : Rated, setting : Switch,
   read : 0..JudgeBound, cost : 0..JudgeBound]

\* What a worker knows at each stage: past the gate its call is no secret, and only a row on its
\* way carries a cost.
EvalSound(x) ==
  /\ x.pc \in {"cap", "store", "judge", "persist", "insert"} => x.call.class # "secret"
  /\ x.pc # "insert" => x.cost = 0

SoundEvals == {x \in EvalStates : EvalSound(x)}

Costs == [w \in Judges |-> eval[w].cost]

\* What is spent, in rows and on its way to them.
AllSpent == judgeSpent.rows + judgeSpent.lost + SumOf(Costs, Judges)

JudgeInv ==
  /\ JudgeTypeOK
  /\ eval \in [Judges -> SoundEvals]
  /\ \A w \in Judges : eval[w].pc = "store" => eval[w].read <= judgeSpent.rows
  /\ spendCache.value <= AllSpent

-----------------------------------------------------------------------------
\* The judge that has no evaluation holds one in order, which cost nothing.
LEMMA NoEvalSound == NoEval \in SoundEvals /\ NoEval.pc = "idle" /\ NoEval.cost = 0
<1>1. (CHOOSE c \in Rated : TRUE) \in Rated
  BY QualityAssumption
<1>2. 0 \in 0..JudgeBound
  BY QualityAssumption
<1> QED BY <1>1, <1>2 DEF NoEval, SoundEvals, EvalSound, EvalStates, EvalSteps, Switch

\* The cost that MapThenSumSet adds up is that sum.
LEMMA CostsAddUp == MapThenSumSet(LAMBDA w : eval[w].cost, Judges) = SumOf(Costs, Judges)
<1> DEFINE A(g) == g = [s \in SUBSET Judges |-> IF s = {} THEN 0
                        ELSE eval[Picked(s)].cost + g[s \ {Picked(s)}]]
<1>1. MapThenSumSet(LAMBDA w : eval[w].cost, Judges) = (CHOOSE g : A(g))[Judges]
  BY DEF MapThenSumSet, MapThenFoldSet, Picked
<1>2. \A g : A(g) <=> IsTally(Costs, Judges, g)
  <2> TAKE g
  <2>1. \A s \in SUBSET Judges : TallyOf(Costs, g, s) = (IF s = {} THEN 0
                        ELSE eval[Picked(s)].cost + g[s \ {Picked(s)}])
    BY DEF TallyOf, Costs, Picked
  <2> QED BY <2>1 DEF IsTally
<1>3. (CHOOSE g : A(g)) = Tally(Costs, Judges)
  <2> HIDE DEF A
  <2> QED BY <1>2, Zenon DEF Tally
<1> QED BY <1>1, <1>3, SumIsTally

\* The invariant holds at the start.
LEMMA JudgeInitially == JudgeInit => JudgeInv
<1> SUFFICES ASSUME JudgeInit PROVE JudgeInv
  OBVIOUS
<1>1. eval \in [Judges -> SoundEvals] /\ \A w \in Judges : eval[w].pc = "idle"
  BY NoEvalSound DEF JudgeInit
<1>2. eval \in [Judges -> EvalStates]
  BY <1>1 DEF SoundEvals
<1>3. JudgeTypeOK
  BY <1>2, QualityAssumption DEF JudgeInit, JudgeTypeOK, EvalStates, EvalSteps, Switch
<1>4. spendCache.value = 0 /\ judgeSpent.rows = 0 /\ judgeSpent.lost = 0
  BY DEF JudgeInit
<1>5. SumOf(Costs, Judges) \in Nat
  <2>1. \A w \in Judges : Costs[w] \in Nat
    BY <1>2, QualityAssumption DEF Costs, EvalStates
  <2> QED BY <2>1, SumProperties, QualityAssumption
<1> QED BY <1>1, <1>3, <1>4, <1>5 DEF JudgeInv, AllSpent

\* A step of one worker, by what it spends and what it adds to the rows and to the cache.
LEMMA EvalMoves ==
  ASSUME JudgeInv, NEW w \in Judges, NEW x \in SoundEvals, eval' = [eval EXCEPT ![w] = x],
         judgeOn' \in Switch, cfgCache' \in Switch \union {"none"},
         judgeSpent' \in [rows : 0..JudgeBound, lost : 0..JudgeBound],
         spendCache' \in [value : 0..JudgeBound, fresh : BOOLEAN],
         judgeSpent.rows <= judgeSpent'.rows,
         x.pc = "store" => x.read <= judgeSpent'.rows,
         \/ spendCache'.value <= judgeSpent'.rows
         \/ spendCache'.value + (judgeSpent.rows + judgeSpent.lost + eval[w].cost)
              <= spendCache.value + (judgeSpent'.rows + judgeSpent'.lost + x.cost)
  PROVE  JudgeInv'
<1>1. eval' \in [Judges -> SoundEvals] /\ eval \in [Judges -> EvalStates]
  BY DEF JudgeInv, SoundEvals
<1>2. eval' \in [Judges -> EvalStates]
  BY <1>1 DEF SoundEvals
<1>3. JudgeTypeOK'
  BY <1>2 DEF JudgeTypeOK, EvalStates, EvalSteps
<1>4. \A v \in Judges : eval'[v] = IF v = w THEN x ELSE eval[v]
  BY <1>1
<1>5. \A v \in Judges : eval'[v].pc = "store" => eval'[v].read <= judgeSpent'.rows
  <2>1. judgeSpent.rows \in Nat /\ judgeSpent'.rows \in Nat
    BY QualityAssumption DEF JudgeInv, JudgeTypeOK
  <2>2. ASSUME NEW v \in Judges, v # w, eval[v].pc = "store" PROVE eval[v].read <= judgeSpent'.rows
    <3>1. eval[v].read \in Nat
      BY <1>1, QualityAssumption DEF EvalStates
    <3>2. eval[v].read <= judgeSpent.rows
      BY <2>2 DEF JudgeInv
    <3> QED BY <2>1, <3>1, <3>2
  <2> QED BY <1>4, <2>2
<1> DEFINE f == Costs
           g == Costs'
           sum == SumOf(f, Judges)
           new == SumOf(g, Judges)
<1>6. /\ \A v \in Judges : f[v] \in Nat /\ g[v] \in Nat /\ (v # w => g[v] = f[v])
      /\ f[w] = eval[w].cost /\ g[w] = x.cost
  BY <1>1, <1>2, <1>4, QualityAssumption DEF Costs, EvalStates
<1>7. new = sum - f[w] + g[w] /\ sum \in Nat /\ new \in Nat
  <2>1. IsFiniteSet(Judges)
    BY QualityAssumption
  <2>2. /\ \A v \in Judges : f[v] \in Nat
        /\ \A v \in Judges : g[v] \in Nat
        /\ \A v \in Judges : f[v] \in Nat /\ g[v] \in Nat /\ (v # w => g[v] = f[v])
    BY <1>6
  <2> HIDE DEF f, g
  <2>3. new = sum - f[w] + g[w]
    BY <2>1, <2>2, SumChanges
  <2>4. sum \in Nat /\ new \in Nat
    BY <2>1, <2>2, SumProperties
  <2> QED BY <2>3, <2>4
<1>8. spendCache'.value <= judgeSpent'.rows + judgeSpent'.lost + new
  <2> DEFINE v == spendCache.value
             spent == judgeSpent.rows + judgeSpent.lost
             mine == eval[w].cost
             v1 == spendCache'.value
             rows1 == judgeSpent'.rows
             spent1 == rows1 + judgeSpent'.lost
             mine1 == x.cost
  <2>1. v \in Nat /\ spent \in Nat /\ v1 \in Nat /\ rows1 \in Nat /\ spent1 \in Nat
        /\ rows1 <= spent1
    BY QualityAssumption DEF JudgeInv, JudgeTypeOK
  <2>2. v <= spent + sum
    BY DEF JudgeInv, AllSpent
  <2>3. mine \in Nat /\ mine1 \in Nat /\ new = sum - mine + mine1
    BY <1>6, <1>7
  <2>4. v1 <= rows1 \/ v1 + (spent + mine) <= v + (spent1 + mine1)
    OBVIOUS
  <2> HIDE DEF sum, new, f, g, v, spent, mine, v1, rows1, spent1, mine1
  <2>5. v1 <= spent1 + new
    BY <1>7, <2>1, <2>2, <2>3, <2>4
  <2> QED BY <2>5 DEF v1, spent1, rows1
<1>9. AllSpent' = judgeSpent'.rows + judgeSpent'.lost + new
  BY DEF AllSpent
<1> QED BY <1>1, <1>3, <1>5, <1>8, <1>9 DEF JudgeInv

\* A step of one worker that leaves the spend alone.
LEMMA EvalGoesOn ==
  ASSUME JudgeInv, NEW w \in Judges, NEW x \in SoundEvals, eval' = [eval EXCEPT ![w] = x],
         UNCHANGED <<judgeOn, judgeSpent, spendCache>>,
         cfgCache' \in Switch \union {"none"},
         x.cost = eval[w].cost, x.pc = "store" => x.read = judgeSpent.rows
  PROVE  JudgeInv'
<1>1. /\ judgeOn' \in Switch
      /\ judgeSpent' \in [rows : 0..JudgeBound, lost : 0..JudgeBound]
      /\ spendCache' \in [value : 0..JudgeBound, fresh : BOOLEAN]
      /\ judgeSpent'.rows = judgeSpent.rows /\ judgeSpent'.lost = judgeSpent.lost
      /\ spendCache'.value = spendCache.value
  BY DEF JudgeInv, JudgeTypeOK
<1>2. /\ judgeSpent.rows \in Nat /\ judgeSpent.lost \in Nat /\ spendCache.value \in Nat
      /\ eval[w].cost \in Nat
  BY QualityAssumption DEF JudgeInv, JudgeTypeOK
<1>3. judgeSpent.rows <= judgeSpent'.rows /\ (x.pc = "store" => x.read <= judgeSpent'.rows)
  BY <1>1, <1>2
<1>4. spendCache'.value + (judgeSpent.rows + judgeSpent.lost + eval[w].cost)
        <= spendCache.value + (judgeSpent'.rows + judgeSpent'.lost + x.cost)
  BY <1>1, <1>2
<1> QED BY <1>1, <1>3, <1>4, EvalMoves

\* Going on to the next stage, or ending, keeps a worker sound.
LEMMA EvalGoes ==
  ASSUME JudgeInv, NEW w \in Judges, eval[w].pc # "insert",
         NEW to \in {"gate", "cap", "judge", "persist"},
         to # "gate" => eval[w].call.class # "secret"
  PROVE  /\ [eval[w] EXCEPT !.pc = to] \in SoundEvals
         /\ [eval[w] EXCEPT !.pc = to].cost = eval[w].cost
         /\ [eval[w] EXCEPT !.pc = to].pc = to
<1> DEFINE x == [eval[w] EXCEPT !.pc = to]
<1>1. eval[w] \in EvalStates /\ EvalSound(eval[w])
  BY DEF JudgeInv, SoundEvals
<1>2. x \in EvalStates /\ x.pc = to /\ x.cost = eval[w].cost /\ x.call = eval[w].call
  BY <1>1 DEF EvalStates, EvalSteps
<1> HIDE DEF x
<1>3. x \in SoundEvals
  BY <1>1, <1>2 DEF SoundEvals, EvalSound
<1> QED BY <1>2, <1>3 DEF x

\* Every step keeps the invariant.
LEMMA JudgeStep == JudgeInv /\ [JudgeNext]_judgeVars => JudgeInv'
<1> SUFFICES ASSUME JudgeInv, [JudgeNext]_judgeVars PROVE JudgeInv'
  OBVIOUS
<1>0. JudgeTypeOK /\ JudgeBound \in Nat
  BY QualityAssumption DEF JudgeInv
<1>1. CASE UNCHANGED judgeVars
  <2>1. Costs' = Costs
    BY <1>1 DEF judgeVars, Costs
  <2>2. SumOf(Costs, Judges)' = SumOf(Costs, Judges)
    BY <2>1
  <2> QED BY <1>1, <2>2 DEF judgeVars, JudgeInv, JudgeTypeOK, AllSpent
<1>2. CASE SaveSettings \/ ExpireCaches
  <2>1. eval' = eval /\ judgeSpent' = judgeSpent
    BY <1>2 DEF SaveSettings, ExpireCaches
  <2>2. Costs' = Costs
    BY <2>1 DEF Costs
  <2>3. AllSpent' = AllSpent
    BY <2>1, <2>2 DEF AllSpent
  <2>4. /\ spendCache' \in [value : 0..JudgeBound, fresh : BOOLEAN]
        /\ spendCache'.value <= spendCache.value
    <3>1. CASE SaveSettings
      BY <1>0, <3>1 DEF SaveSettings, JudgeTypeOK
    <3>2. CASE ExpireCaches
      <4>1. spendCache \in [value : 0..JudgeBound, fresh : BOOLEAN]
        BY <1>0 DEF JudgeTypeOK
      <4>2. spendCache' = [spendCache EXCEPT !.fresh = FALSE]
        BY <3>2 DEF ExpireCaches
      <4>3. /\ spendCache' \in [value : 0..JudgeBound, fresh : BOOLEAN]
            /\ spendCache'.value = spendCache.value
        BY <4>1, <4>2
      <4>4. spendCache.value \in Nat
        BY <1>0, <4>1
      <4> QED BY <4>3, <4>4
    <3> QED BY <1>2, <3>1, <3>2
  <2>5. JudgeTypeOK'
    BY <1>0, <1>2, <2>1, <2>4 DEF SaveSettings, ExpireCaches, JudgeTypeOK
  <2>6. spendCache'.value <= AllSpent
    <3>1. spendCache.value \in Nat /\ spendCache'.value \in Nat /\ AllSpent \in Nat
      <4>1. \A w \in Judges : Costs[w] \in Nat
        BY <1>0 DEF JudgeTypeOK, Costs
      <4>2. SumOf(Costs, Judges) \in Nat
        BY <4>1, SumProperties, QualityAssumption
      <4> QED BY <1>0, <2>4, <4>2 DEF JudgeTypeOK, AllSpent
    <3>2. spendCache.value <= AllSpent
      BY DEF JudgeInv
    <3> HIDE DEF AllSpent
    <3> QED BY <2>4, <3>1, <3>2
  <2> QED BY <2>1, <2>3, <2>5, <2>6 DEF JudgeInv
<1>3. ASSUME NEW w \in Judges,
             \/ \E auto \in BOOLEAN, call \in Rated : BeginEval(w, auto, call)
             \/ FillConfig(w) \/ Gate(w) \/ CheckJudgeCap(w) \/ StoreSpend(w) \/ Judge(w)
             \/ PersistEval(w)
      PROVE  JudgeInv'
  <2>1. eval[w] \in EvalStates /\ EvalSound(eval[w])
    BY DEF JudgeInv, SoundEvals
  <2>2. /\ cfgCache \in Switch \union {"none"} /\ eval[w].setting \in Switch
        /\ judgeOn \in Switch /\ eval[w].cost \in Nat /\ spendCache.value \in 0..JudgeBound
        /\ spendCache \in [value : 0..JudgeBound, fresh : BOOLEAN]
        /\ judgeSpent \in [rows : 0..JudgeBound, lost : 0..JudgeBound]
    BY <1>0, <2>1 DEF JudgeTypeOK, EvalStates
  <2>3. ASSUME NEW auto \in BOOLEAN, NEW call \in Rated, BeginEval(w, auto, call)
        PROVE  JudgeInv'
    <3>1. PICK setting \in Switch :
            eval' = [eval EXCEPT ![w] = [NoEval EXCEPT !.auto = auto, !.call = call,
                  !.setting = setting, !.pc = IF cfgCache = "none" THEN "fill" ELSE "gate"]]
      BY <2>2, <2>3 DEF BeginEval, Switch
    <3> DEFINE x == [NoEval EXCEPT !.auto = auto, !.call = call,
                  !.setting = setting, !.pc = IF cfgCache = "none" THEN "fill" ELSE "gate"]
    <3>2. NoEval \in EvalStates /\ NoEval.cost = 0
      BY NoEvalSound DEF SoundEvals
    <3>3. x \in EvalStates /\ x.cost = 0 /\ x.pc \in {"fill", "gate"}
      BY <3>2 DEF EvalStates, EvalSteps
    <3>4. eval' = [eval EXCEPT ![w] = x]
      BY <3>1
    <3> HIDE DEF x
    <3>5. x \in SoundEvals
      BY <3>3 DEF SoundEvals, EvalSound
    <3>6. eval[w].cost = 0 /\ UNCHANGED <<judgeOn, cfgCache, judgeSpent, spendCache>>
      BY <2>1, <2>3 DEF BeginEval, Judging, EvalSound
    <3> QED BY <2>2, <3>3, <3>4, <3>5, <3>6, EvalGoesOn
  <2>4. ASSUME JudgeEnd(w), eval[w].pc # "insert", UNCHANGED <<judgeOn, judgeSpent, spendCache>>,
               cfgCache' \in Switch \union {"none"}
        PROVE  JudgeInv'
    <3>1. eval[w].cost = 0
      BY <2>1, <2>4 DEF EvalSound
    <3> QED BY <2>4, <3>1, NoEvalSound, EvalGoesOn DEF JudgeEnd
  <2>5. ASSUME NEW to \in {"gate", "cap", "judge", "persist"}, JudgeGo(w, to),
               eval[w].pc # "insert", to # "gate" => eval[w].call.class # "secret",
               UNCHANGED <<judgeOn, judgeSpent, spendCache>>,
               cfgCache' \in Switch \union {"none"}
        PROVE  JudgeInv'
    <3> DEFINE x == [eval[w] EXCEPT !.pc = to]
    <3>1. x \in SoundEvals /\ x.cost = eval[w].cost /\ x.pc = to
      BY <2>5, EvalGoes
    <3>2. eval' = [eval EXCEPT ![w] = x]
      BY <2>5 DEF JudgeGo
    <3> HIDE DEF x
    <3> QED BY <2>5, <3>1, <3>2, EvalGoesOn
  <2>6. CASE FillConfig(w)
    <3>1. /\ eval[w].pc = "fill" /\ cfgCache' \in Switch
          /\ JudgeGo(w, "gate") \/ JudgeEnd(w)
          /\ UNCHANGED <<judgeOn, judgeSpent, spendCache>>
      BY <2>2, <2>6 DEF FillConfig, Judging
    <3> QED BY <2>4, <2>5, <3>1
  <2>7. CASE Gate(w)
    <3>1. /\ eval[w].pc = "gate" /\ UNCHANGED <<judgeOn, cfgCache, judgeSpent, spendCache>>
          /\ \/ JudgeGo(w, "cap") /\ eval[w].call.class # "secret"
             \/ JudgeEnd(w)
      BY <2>7 DEF Gate, Judging, Admits
    <3> QED BY <2>2, <2>4, <2>5, <3>1
  <2>8. CASE CheckJudgeCap(w)
    <3>1. /\ eval[w].pc = "cap" /\ UNCHANGED <<judgeOn, cfgCache, judgeSpent, spendCache>>
          /\ eval[w].call.class # "secret"
      BY <2>1, <2>8 DEF CheckJudgeCap, Judging, EvalSound
    <3>2. CASE JudgeGo(w, "judge") \/ JudgeEnd(w)
      BY <2>2, <2>4, <2>5, <3>1, <3>2
    <3>3. CASE eval' = [eval EXCEPT ![w].pc = "store", ![w].read = judgeSpent.rows]
      <4> DEFINE x == [eval[w] EXCEPT !.pc = "store", !.read = judgeSpent.rows]
      <4>1. judgeSpent.rows \in 0..JudgeBound
        BY <2>2
      <4>2. x \in EvalStates /\ x.pc = "store" /\ x.read = judgeSpent.rows
            /\ x.cost = eval[w].cost /\ x.call = eval[w].call
        BY <2>1, <4>1 DEF EvalStates, EvalSteps
      <4>3. eval' = [eval EXCEPT ![w] = x]
        BY <3>3
      <4> HIDE DEF x
      <4>4. x \in SoundEvals
        BY <2>1, <3>1, <4>2 DEF SoundEvals, EvalSound
      <4> QED BY <2>2, <3>1, <4>2, <4>3, <4>4, EvalGoesOn
    <3> QED BY <2>8, <3>2, <3>3 DEF CheckJudgeCap
  <2>9. CASE StoreSpend(w)
    <3>1. /\ eval[w].pc = "store" /\ eval[w].call.class # "secret" /\ eval[w].cost = 0
          /\ UNCHANGED <<judgeOn, cfgCache, judgeSpent>>
          /\ spendCache' = [value |-> eval[w].read, fresh |-> TRUE]
          /\ JudgeGo(w, "judge") \/ JudgeEnd(w)
      BY <2>1, <2>9 DEF StoreSpend, Judging, EvalSound
    <3>2. PICK x \in SoundEvals : eval' = [eval EXCEPT ![w] = x] /\ x.pc # "store"
      <4>1. CASE JudgeEnd(w)
        BY <4>1, NoEvalSound DEF JudgeEnd
      <4>2. CASE JudgeGo(w, "judge")
        <5> DEFINE x == [eval[w] EXCEPT !.pc = "judge"]
        <5>1. x \in SoundEvals /\ x.pc = "judge"
          BY <3>1, EvalGoes
        <5>2. eval' = [eval EXCEPT ![w] = x]
          BY <4>2 DEF JudgeGo
        <5> HIDE DEF x
        <5> QED BY <5>1, <5>2
      <4> QED BY <3>1, <4>1, <4>2
    <3>3. eval[w].read \in 0..JudgeBound
      BY <2>1 DEF EvalStates
    <3>4. spendCache' \in [value : 0..JudgeBound, fresh : BOOLEAN]
          /\ spendCache'.value = eval[w].read
      BY <3>1, <3>3
    <3>5. eval[w].read <= judgeSpent.rows /\ judgeSpent' = judgeSpent
      BY <3>1 DEF JudgeInv
    <3>6. judgeSpent.rows <= judgeSpent'.rows
      <4>1. judgeSpent.rows \in Nat
        BY <2>2
      <4> QED BY <3>5, <4>1
    <3> QED BY <2>2, <3>1, <3>2, <3>4, <3>5, <3>6, EvalMoves
  <2>10. CASE Judge(w)
    <3>1. /\ eval[w].pc = "judge" /\ eval[w].call.class # "secret"
          /\ JudgeGo(w, "persist") \/ JudgeEnd(w)
          /\ UNCHANGED <<judgeOn, cfgCache, judgeSpent, spendCache>>
      BY <2>1, <2>10 DEF Judge, Judging, EvalSound
    <3> QED BY <2>2, <2>4, <2>5, <3>1
  <2>11. CASE BumpSpend(w)
    <3>1. PICK cost \in {0, JudgeCost} :
            /\ eval[w].pc = "persist" /\ spendCache.value + cost <= JudgeBound
            /\ spendCache' = [spendCache EXCEPT !.value = spendCache.value + cost]
            /\ eval' = [eval EXCEPT ![w].pc = "insert", ![w].cost = cost]
            /\ UNCHANGED <<judgeOn, cfgCache, judgeSpent>>
      BY <2>11 DEF BumpSpend, Judging
    <3> DEFINE x == [eval[w] EXCEPT !.pc = "insert", !.cost = cost]
               value == spendCache.value + cost
    <3>2. cost \in Nat /\ cost \in 0..JudgeBound /\ value \in 0..JudgeBound
      <4>1. cost \in Nat /\ spendCache.value \in Nat
        BY <2>2, QualityAssumption
      <4> QED BY <1>0, <3>1, <4>1
    <3>3. x \in EvalStates /\ x.pc = "insert" /\ x.cost = cost /\ x.call = eval[w].call
      BY <2>1, <3>2 DEF EvalStates, EvalSteps
    <3>4. eval' = [eval EXCEPT ![w] = x]
      BY <3>1
    <3> HIDE DEF x
    <3>5. x \in SoundEvals
      BY <2>1, <3>1, <3>3 DEF SoundEvals, EvalSound
    <3>6. spendCache' \in [value : 0..JudgeBound, fresh : BOOLEAN] /\ spendCache'.value = value
      <4>1. spendCache' = [spendCache EXCEPT !.value = value]
        BY <3>1
      <4> HIDE DEF value
      <4> QED BY <2>2, <3>2, <4>1
    <3>7. eval[w].cost = 0
      BY <2>1, <3>1 DEF EvalSound
    <3>8. /\ judgeSpent.rows \in Nat /\ judgeSpent.lost \in Nat /\ spendCache.value \in Nat
          /\ judgeSpent' = judgeSpent
      BY <2>2, <3>1
    <3>9. /\ judgeSpent.rows <= judgeSpent'.rows
          /\ spendCache'.value + (judgeSpent.rows + judgeSpent.lost + eval[w].cost)
               <= spendCache.value + (judgeSpent'.rows + judgeSpent'.lost + x.cost)
      BY <3>2, <3>3, <3>6, <3>7, <3>8
    <3> QED BY <2>2, <3>1, <3>3, <3>4, <3>5, <3>6, <3>9, EvalMoves
  <2>12. CASE InsertEval(w)
    <3> DEFINE cost == eval[w].cost
    <3>1. PICK account \in {"rows", "lost"} :
            /\ judgeSpent[account] + cost <= JudgeBound
            /\ judgeSpent' = [judgeSpent EXCEPT ![account] = judgeSpent[account] + cost]
            /\ eval' = [eval EXCEPT ![w] = NoEval]
            /\ UNCHANGED <<judgeOn, cfgCache, spendCache>>
      BY <2>12 DEF InsertEval, JudgeEnd
    <3>2. cost \in Nat /\ judgeSpent.rows \in Nat /\ judgeSpent.lost \in Nat
          /\ spendCache.value \in Nat
      BY <2>2
    <3> HIDE DEF cost
    <3>3. /\ judgeSpent' \in [rows : 0..JudgeBound, lost : 0..JudgeBound]
          /\ judgeSpent'.rows + judgeSpent'.lost = judgeSpent.rows + judgeSpent.lost + cost
          /\ judgeSpent.rows <= judgeSpent'.rows
      <4>1. CASE account = "rows"
        <5> DEFINE sum == judgeSpent.rows + cost
        <5>1. judgeSpent.rows + cost <= JudgeBound
              /\ judgeSpent' = [judgeSpent EXCEPT !.rows = sum]
          BY <3>1, <4>1
        <5>2. sum \in 0..JudgeBound
          BY <1>0, <3>2, <5>1
        <5> HIDE DEF sum
        <5>3. judgeSpent' \in [rows : 0..JudgeBound, lost : 0..JudgeBound]
              /\ judgeSpent'.rows = sum /\ judgeSpent'.lost = judgeSpent.lost
          BY <2>2, <5>1, <5>2
        <5> QED BY <3>2, <5>3 DEF sum
      <4>2. CASE account = "lost"
        <5> DEFINE sum == judgeSpent.lost + cost
        <5>1. judgeSpent.lost + cost <= JudgeBound
              /\ judgeSpent' = [judgeSpent EXCEPT !.lost = sum]
          BY <3>1, <4>2
        <5>2. sum \in 0..JudgeBound
          BY <1>0, <3>2, <5>1
        <5> HIDE DEF sum
        <5>3. judgeSpent' \in [rows : 0..JudgeBound, lost : 0..JudgeBound]
              /\ judgeSpent'.lost = sum /\ judgeSpent'.rows = judgeSpent.rows
          BY <2>2, <5>1, <5>2
        <5> QED BY <3>2, <5>3 DEF sum
      <4> QED BY <4>1, <4>2
    <3>4. NoEval \in SoundEvals /\ NoEval.pc # "store" /\ NoEval.cost = 0
      BY NoEvalSound
    <3>5. spendCache'.value + (judgeSpent.rows + judgeSpent.lost + eval[w].cost)
            <= spendCache.value + (judgeSpent'.rows + judgeSpent'.lost + NoEval.cost)
      <4>1. judgeSpent'.rows \in Nat /\ judgeSpent'.lost \in Nat /\ spendCache' = spendCache
        BY <3>1, <3>3
      <4> QED BY <3>2, <3>3, <3>4, <4>1 DEF cost
    <3> QED BY <2>2, <3>1, <3>3, <3>4, <3>5, EvalMoves
  <2> QED BY <1>3, <2>3, <2>6, <2>7, <2>8, <2>9, <2>10, <2>11, <2>12 DEF PersistEval
<1> QED BY <1>1, <1>2, <1>3 DEF JudgeNext

\* What the invariant says of secrets and of the cached spend.
LEMMA JudgePromises == JudgeInv => JudgeTypeOK /\ SecretsNotJudged /\ SpendNotOverstated
<1> SUFFICES ASSUME JudgeInv PROVE SecretsNotJudged /\ SpendNotOverstated
  BY DEF JudgeInv
<1>1. \A w \in Judges : EvalSound(eval[w])
  BY DEF JudgeInv, SoundEvals
<1>2. SecretsNotJudged
  BY <1>1 DEF SecretsNotJudged, EvalSound
<1>3. SpendNotOverstated
  BY CostsAddUp DEF JudgeInv, SpendNotOverstated, AllSpent
<1> QED BY <1>2, <1>3

(*****************************************************************************)
(* DriftWatch: the automatic investigations stay within their budget, and an *)
(* alert follows a cluster of anomalies.                                     *)
(*****************************************************************************)

DriftStates ==
  [pc : DriftSteps, metric : AllMetrics, auto : BOOLEAN, today : BOOLEAN]

\* Handlers whose automatic investigation has passed the cap.
Granted == {h \in Handlers : drift[h].auto /\ drift[h].pc \in {"start", "canaries"}}

\* What was spent and what those may still spend stay within the bound.
DriftReserve ==
  Cap > 0 => spend.auto + Cardinality(Granted) * MaxCost < Cap + Cardinality(Handlers) * MaxCost

\* A first sample is of a scored metric, and a handler with nothing to do has none.
Placed(x) ==
  (x.pc = "insert" => x.metric \in Metrics) /\ (x.pc = "idle" => x.metric = Compaction)

DriftInv ==
  /\ DriftTypeOK
  /\ \A h \in Handlers : Placed(drift[h])
  /\ DriftReserve

-----------------------------------------------------------------------------
\* The handler that has nothing to do is typed.
LEMMA NotDriftingTyped ==
  NotDrifting \in DriftStates /\ NotDrifting.pc = "idle" /\ Placed(NotDrifting)
BY DEF NotDrifting, DriftStates, DriftSteps, AllMetrics, Placed

\* The reservations of the handlers and the investigations that ran are finitely many.
LEMMA GrantedFinite ==
  ASSUME NEW T \in SUBSET Handlers
  PROVE  IsFiniteSet(T) /\ Cardinality(T) \in Nat /\ Cardinality(T) <= Cardinality(Handlers)
         /\ Cardinality(Handlers) \in Nat
BY DriftAssumption, FS_Subset, FS_CardinalityType

\* The reserve after a step, by what it spends and whom it grants an investigation.
LEMMA ReserveMoves ==
  ASSUME DriftInv, NEW auto \in Nat, NEW G \in SUBSET Handlers,
         \/ auto = spend.auto /\ (Cap > 0 => spend.auto < Cap)
         \/ auto <= spend.auto /\ G \subseteq Granted
         \/ auto <= spend.auto + MaxCost /\ \E h \in Granted : G = Granted \ {h}
  PROVE  Cap > 0 => auto + Cardinality(G) * MaxCost < Cap + Cardinality(Handlers) * MaxCost
<1> DEFINE n == Cardinality(Granted)
           m == Cardinality(G)
           all == Cardinality(Handlers)
           old == spend.auto
<1>1. Granted \in SUBSET Handlers
  BY DEF Granted
<1>2. n \in Nat /\ m \in Nat /\ all \in Nat /\ m <= all /\ IsFiniteSet(Granted)
  BY <1>1, GrantedFinite
<1>3. MaxCost \in Nat /\ Cap \in Nat /\ old \in Nat
  BY DriftAssumption DEF DriftInv, DriftTypeOK
<1>4. n * MaxCost \in Nat /\ m * MaxCost \in Nat /\ all * MaxCost \in Nat
  BY <1>2, <1>3
<1>5. Cap > 0 => old + n * MaxCost < Cap + all * MaxCost
  BY DEF DriftInv, DriftReserve
<1>6. SUFFICES ASSUME Cap > 0 PROVE auto + m * MaxCost < Cap + all * MaxCost
  OBVIOUS
<1>7. CASE auto = old /\ old < Cap
  <2>1. m * MaxCost <= all * MaxCost
    <3> HIDE DEF m, all
    <3> QED BY <1>2, <1>3
  <2> HIDE DEF m, n, all, old
  <2> QED BY <1>3, <1>4, <1>7, <2>1
<1>8. CASE auto <= old /\ G \subseteq Granted
  <2>1. m <= n
    BY <1>2, <1>8, FS_Subset
  <2>2. m * MaxCost <= n * MaxCost
    <3> HIDE DEF m, n
    <3> QED BY <1>2, <1>3, <2>1
  <2> DEFINE owed == n * MaxCost
             owes == m * MaxCost
             most == all * MaxCost
  <2>3. owed \in Nat /\ owes \in Nat /\ most \in Nat /\ owes <= owed /\ auto <= old
        /\ old + owed < Cap + most
    BY <1>4, <1>5, <1>6, <1>8, <2>2
  <2>4. auto + owes < Cap + most
    <3> HIDE DEF m, n, all, old, owed, owes, most
    <3> QED BY <1>3, <2>3
  <2> QED BY <2>4
<1>9. CASE auto <= old + MaxCost /\ \E h \in Granted : G = Granted \ {h}
  <2>1. m = n - 1
    BY <1>2, <1>9, FS_RemoveElement
  <2>2. m * MaxCost = n * MaxCost - MaxCost
    <3> HIDE DEF m, n
    <3> QED BY <1>2, <1>3, <2>1
  <2> DEFINE owed == n * MaxCost
             owes == m * MaxCost
             most == all * MaxCost
  <2>3. owed \in Nat /\ owes \in Nat /\ most \in Nat /\ owes = owed - MaxCost
        /\ auto <= old + MaxCost /\ old + owed < Cap + most
    BY <1>4, <1>5, <1>6, <1>9, <2>2
  <2>4. auto + owes < Cap + most
    <3> HIDE DEF m, n, all, old, owed, owes, most
    <3> QED BY <1>3, <2>3
  <2> QED BY <2>4
<1> QED BY <1>6, <1>7, <1>8, <1>9

\* A step of one handler.
LEMMA HandlerMoves ==
  ASSUME DriftInv, NEW h \in Handlers, NEW x \in DriftStates, drift' = [drift EXCEPT ![h] = x],
         baseline' \in [Metrics -> [samples : 0..Warm, streak : 0..Cluster]],
         alerts' \in [AllMetrics -> 0..AlertBound], cooling' \subseteq AllMetrics,
         spend' \in [auto : Nat, other : 0..SpendBound],
         Placed(x),
         \/ spend'.auto = spend.auto /\ (Cap > 0 => spend.auto < Cap)
         \/ /\ spend'.auto = spend.auto
            /\ x.auto /\ x.pc \in {"start", "canaries"} => h \in Granted
         \/ /\ spend'.auto <= spend.auto + MaxCost
            /\ h \in Granted /\ x.pc \notin {"start", "canaries"}
  PROVE  DriftInv'
<1>1. drift \in [Handlers -> DriftStates]
  BY DEF DriftInv, DriftTypeOK, DriftStates
<1>2. drift' \in [Handlers -> DriftStates]
  BY <1>1
<1>3. DriftTypeOK'
  BY <1>2 DEF DriftTypeOK, DriftStates
<1>4. \A g \in Handlers : drift'[g] = IF g = h THEN x ELSE drift[g]
  BY <1>1
<1>5. \A g \in Handlers : Placed(drift'[g])
  BY <1>4 DEF DriftInv
<1>6. /\ Granted' \in SUBSET Handlers
      /\ (x.auto /\ x.pc \in {"start", "canaries"} => h \in Granted) => Granted' \subseteq Granted
      /\ x.pc \notin {"start", "canaries"} => Granted' = Granted \ {h}
  BY <1>4 DEF Granted
<1>7. spend'.auto \in Nat /\ spend.auto \in Nat
  BY DEF DriftInv, DriftTypeOK
<1>8. \/ spend'.auto = spend.auto /\ (Cap > 0 => spend.auto < Cap)
      \/ spend'.auto <= spend.auto /\ Granted' \subseteq Granted
      \/ spend'.auto <= spend.auto + MaxCost /\ \E g \in Granted : Granted' = Granted \ {g}
  BY <1>6, <1>7
<1>9. DriftReserve'
  BY <1>6, <1>7, <1>8, ReserveMoves DEF DriftReserve
<1> QED BY <1>3, <1>5, <1>9 DEF DriftInv

\* A step of one handler that spends nothing and is granted nothing.
LEMMA HandlerGoesOn ==
  ASSUME DriftInv, NEW h \in Handlers, NEW x \in DriftStates, drift' = [drift EXCEPT ![h] = x],
         baseline' \in [Metrics -> [samples : 0..Warm, streak : 0..Cluster]],
         alerts' \in [AllMetrics -> 0..AlertBound], cooling' \subseteq AllMetrics,
         spend' = spend, Placed(x),
         x.auto /\ x.pc \in {"start", "canaries"} => h \in Granted
  PROVE  DriftInv'
<1>1. spend' \in [auto : Nat, other : 0..SpendBound] /\ spend'.auto = spend.auto
  BY DEF DriftInv, DriftTypeOK
<1> QED BY <1>1, HandlerMoves

\* The invariant holds at the start.
LEMMA DriftInitially == DriftInit => DriftInv
<1> SUFFICES ASSUME DriftInit PROVE DriftInv
  OBVIOUS
<1>1. /\ drift \in [Handlers -> DriftStates]
      /\ \A h \in Handlers : drift[h].pc = "idle" /\ Placed(drift[h])
  BY NotDriftingTyped DEF DriftInit
<1>2. DriftTypeOK
  BY <1>1, DriftAssumption DEF DriftInit, DriftTypeOK, DriftStates, NoBaseline
<1>3. Granted = {}
  BY <1>1 DEF Granted
<1>4. DriftReserve
  <2> DEFINE all == Cardinality(Handlers) * MaxCost
  <2>1. Cardinality(Granted) = 0 /\ Cardinality(Handlers) \in Nat
    BY <1>3, FS_EmptySet, GrantedFinite
  <2>2. all \in Nat /\ MaxCost \in Nat /\ Cap \in Nat /\ spend.auto = 0
    BY <2>1, DriftAssumption DEF DriftInit
  <2> HIDE DEF all
  <2>3. Cap > 0 => spend.auto + 0 * MaxCost < Cap + all
    BY <2>2
  <2> QED BY <2>1, <2>3 DEF DriftReserve, all
<1> QED BY <1>1, <1>2, <1>4 DEF DriftInv

\* A baseline that was fed is one.
LEMMA FedTyped ==
  ASSUME NEW b \in [samples : 0..Warm, streak : 0..Cluster], NEW anomaly \in BOOLEAN
  PROVE  Fed(b, anomaly) \in [samples : 0..Warm, streak : 0..Cluster]
<1> DEFINE samples == IF b.samples < Warm THEN b.samples + 1 ELSE Warm
           streak == IF ~anomaly THEN 0 ELSE IF b.streak < Cluster THEN b.streak + 1 ELSE Cluster
<1>1. samples \in 0..Warm /\ streak \in 0..Cluster
  BY DriftAssumption
<1>2. Fed(b, anomaly) = [samples |-> samples, streak |-> streak]
  BY DEF Fed
<1> HIDE DEF samples, streak
<1> QED BY <1>1, <1>2

\* Every step keeps the invariant.
LEMMA DriftStepKeeps == DriftInv /\ [DriftNext]_driftVars => DriftInv'
<1> SUFFICES ASSUME DriftInv, [DriftNext]_driftVars PROVE DriftInv'
  OBVIOUS
<1>1. /\ baseline \in [Metrics -> [samples : 0..Warm, streak : 0..Cluster]]
      /\ alerts \in [AllMetrics -> 0..AlertBound] /\ cooling \subseteq AllMetrics
      /\ spend \in [auto : Nat, other : 0..SpendBound]
      /\ drift \in [Handlers -> DriftStates]
      /\ Metrics \subseteq AllMetrics
  BY DEF DriftInv, DriftTypeOK, DriftStates, AllMetrics
<1>2. CASE UNCHANGED driftVars
  BY <1>2 DEF driftVars, DriftInv, DriftTypeOK, DriftReserve, Granted
<1>3. CASE DriftCrash
  <2>1. /\ drift' \in [Handlers -> DriftStates]
        /\ \A h \in Handlers : drift'[h].pc = "idle" /\ Placed(drift'[h])
    BY <1>3, NotDriftingTyped DEF DriftCrash
  <2>2. DriftTypeOK'
    BY <1>1, <1>3, <2>1 DEF DriftCrash, DriftTypeOK, DriftStates
  <2>3. Granted' = {} /\ spend'.auto <= spend.auto /\ spend'.auto \in Nat
    BY <1>1, <1>3, <2>1 DEF Granted, DriftCrash
  <2>4. DriftReserve'
    BY <2>3, ReserveMoves DEF DriftReserve
  <2> QED BY <2>1, <2>2, <2>4 DEF DriftInv
<1>4. CASE Midnight
  <2>1. drift' \in [Handlers -> DriftStates]
        /\ \A h \in Handlers : drift'[h].pc = drift[h].pc /\ drift'[h].auto = drift[h].auto
                               /\ drift'[h].metric = drift[h].metric
    BY <1>1, <1>4 DEF Midnight, DriftStates
  <2>2. DriftTypeOK'
    BY <1>1, <1>4, <2>1, DriftAssumption DEF Midnight, DriftTypeOK, DriftStates
  <2>3. Granted' \subseteq Granted /\ Granted' \in SUBSET Handlers
    BY <2>1 DEF Granted
  <2>4. spend'.auto <= spend.auto /\ spend'.auto \in Nat
    BY <1>1, <1>4 DEF Midnight
  <2>5. DriftReserve'
    BY <2>3, <2>4, ReserveMoves DEF DriftReserve
  <2>6. \A h \in Handlers : Placed(drift'[h])
    BY <2>1 DEF DriftInv, Placed
  <2> QED BY <2>2, <2>5, <2>6 DEF DriftInv
<1>5. ASSUME NEW m \in AllMetrics, LeaveCooldown(m) PROVE DriftInv'
  BY <1>5 DEF LeaveCooldown, DriftInv, DriftTypeOK, DriftReserve, Granted
<1>6. ASSUME NEW h \in Handlers,
             \/ Compacts(h) \/ InsertFirst(h) \/ Escalate(h) \/ OpenAlert(h) \/ ResolveAlerts(h)
             \/ Manual(h) \/ RuledOut(h) \/ CheckCooldown(h) \/ CheckBudget(h)
             \/ StartInvestigation(h) \/ Investigate(h)
             \/ \E m \in Metrics : \/ FeedFirst(h, m)
                                   \/ \E anomaly \in BOOLEAN : Feed(h, m, anomaly)
      PROVE  DriftInv'
  <2>1. drift[h] \in DriftStates /\ drift[h].metric \in AllMetrics
        /\ (drift[h].auto /\ drift[h].pc \in {"start", "canaries"} => h \in Granted)
    BY <1>1 DEF DriftStates, Granted
  <2>2. ASSUME DriftEnd(h), spend' = spend,
               baseline' \in [Metrics -> [samples : 0..Warm, streak : 0..Cluster]],
               alerts' \in [AllMetrics -> 0..AlertBound], cooling' \subseteq AllMetrics
        PROVE  DriftInv'
    BY <2>2, NotDriftingTyped, HandlerGoesOn DEF DriftEnd
  <2>3. ASSUME NEW to \in DriftSteps \ {"insert", "idle"}, DriftStep(h, to), spend' = spend,
               drift[h].auto /\ to \in {"start", "canaries"} => h \in Granted,
               baseline' = baseline,
               alerts' \in [AllMetrics -> 0..AlertBound], cooling' \subseteq AllMetrics
        PROVE  DriftInv'
    <3> DEFINE x == [drift[h] EXCEPT !.pc = to]
    <3>1. x \in DriftStates /\ x.pc = to /\ x.auto = drift[h].auto
      BY <2>1 DEF DriftStates
    <3>2. drift' = [drift EXCEPT ![h] = x]
      BY <2>3 DEF DriftStep
    <3>3. Placed(x)
      BY <2>3, <3>1 DEF Placed
    <3> HIDE DEF x
    <3> QED BY <1>1, <2>3, <3>1, <3>2, <3>3, HandlerGoesOn
  <2>4. CASE Compacts(h)
    BY <1>1, <2>3, <2>4 DEF Compacts, DriftSteps
  <2>5. CASE InsertFirst(h)
    <3>1. drift[h].metric \in Metrics
      BY <2>5 DEF InsertFirst, DriftInv, Placed
    <3> DEFINE b == baseline[drift[h].metric]
               first == IF b = NoBaseline THEN [samples |-> 1, streak |-> 0] ELSE b
    <3>2. first \in [samples : 0..Warm, streak : 0..Cluster]
      <4>1. b \in [samples : 0..Warm, streak : 0..Cluster] /\ 1 \in 0..Warm /\ 0 \in 0..Cluster
        BY <1>1, <3>1, DriftAssumption
      <4> HIDE DEF b
      <4> QED BY <4>1
    <3>3. baseline' = [baseline EXCEPT ![drift[h].metric] = first]
      BY <1>1, <2>5, <3>1 DEF InsertFirst
    <3> HIDE DEF first
    <3>4. baseline' \in [Metrics -> [samples : 0..Warm, streak : 0..Cluster]]
      BY <1>1, <3>1, <3>2, <3>3
    <3> QED BY <1>1, <2>2, <2>5, <3>4 DEF InsertFirst
  <2>6. CASE Escalate(h)
    BY <1>1, <2>2, <2>3, <2>6 DEF Escalate, DriftSteps
  <2>7. CASE OpenAlert(h)
    <3>1. alerts' \in [AllMetrics -> 0..AlertBound]
      <4>1. alerts[drift[h].metric] \in 0..AlertBound /\ alerts[drift[h].metric] < AlertBound
        BY <1>1, <2>1, <2>7 DEF OpenAlert
      <4>2. alerts[drift[h].metric] + 1 \in 0..AlertBound
        BY <4>1, DriftAssumption
      <4>3. alerts' = [alerts EXCEPT ![drift[h].metric] = alerts[drift[h].metric] + 1]
        BY <2>7 DEF OpenAlert
      <4> QED BY <1>1, <4>2, <4>3
    <3> QED BY <1>1, <2>3, <2>7, <3>1 DEF OpenAlert, DriftSteps
  <2>8. CASE ResolveAlerts(h)
    <3>1. PICK left \in 0..alerts[drift[h].metric] :
            alerts' = [alerts EXCEPT ![drift[h].metric] = left]
      BY <2>8 DEF ResolveAlerts
    <3>2. left \in 0..AlertBound
      <4>1. alerts[drift[h].metric] \in 0..AlertBound
        BY <1>1, <2>1
      <4> QED BY <4>1, DriftAssumption
    <3>3. alerts' \in [AllMetrics -> 0..AlertBound]
      BY <1>1, <3>1, <3>2
    <3> QED BY <1>1, <2>2, <2>8, <3>3 DEF ResolveAlerts
  <2>9. CASE Manual(h)
    <3> DEFINE x == [drift[h] EXCEPT !.pc = "start", !.auto = FALSE]
    <3>1. x \in DriftStates /\ Placed(x) /\ x.pc = "start" /\ x.auto = FALSE
      BY <2>1 DEF DriftStates, DriftSteps, Placed
    <3>2. drift' = [drift EXCEPT ![h] = x] /\ UNCHANGED <<baseline, alerts, cooling, spend>>
      BY <2>9 DEF Manual
    <3> HIDE DEF x
    <3> QED BY <1>1, <3>1, <3>2, HandlerGoesOn
  <2>10. CASE RuledOut(h)
    BY <1>1, <2>2, <2>10 DEF RuledOut
  <2>11. CASE CheckCooldown(h)
    <3>1. CASE drift[h].metric \in cooling
      BY <1>1, <2>1, <2>2, <2>11, <3>1 DEF CheckCooldown, SkipRow
    <3>2. CASE drift[h].metric \notin cooling
      BY <1>1, <2>3, <2>11, <3>2 DEF CheckCooldown, DriftSteps
    <3> QED BY <3>1, <3>2
  <2>12. CASE CheckBudget(h)
    <3>1. CASE Cap > 0 /\ spend.auto + spend.other >= Cap
      <4>1. cooling' \subseteq AllMetrics /\ UNCHANGED <<baseline, alerts, spend>> /\ DriftEnd(h)
        BY <1>1, <2>1, <2>12, <3>1 DEF CheckBudget, SkipRow
      <4> QED BY <1>1, <2>2, <4>1
    <3>2. CASE ~(Cap > 0 /\ spend.auto + spend.other >= Cap)
      <4> DEFINE x == [drift[h] EXCEPT !.pc = "start"]
      <4>1. x \in DriftStates /\ Placed(x) /\ x.pc = "start"
        BY <2>1 DEF DriftStates, DriftSteps, Placed
      <4>2. drift' = [drift EXCEPT ![h] = x] /\ UNCHANGED <<baseline, alerts, cooling, spend>>
        BY <2>12, <3>2 DEF CheckBudget, DriftStep
      <4>3. Cap > 0 => spend.auto < Cap
        <5>1. spend.auto \in Nat /\ spend.other \in Nat /\ Cap \in Nat
          BY <1>1, DriftAssumption
        <5> QED BY <3>2, <5>1
      <4>4. spend' \in [auto : Nat, other : 0..SpendBound] /\ spend'.auto = spend.auto
        BY <1>1, <4>2
      <4> HIDE DEF x
      <4> QED BY <1>1, <4>1, <4>2, <4>3, <4>4, HandlerMoves
    <3> QED BY <3>1, <3>2
  <2>13. CASE StartInvestigation(h)
    <3>1. /\ cooling' \subseteq AllMetrics /\ UNCHANGED <<baseline, alerts, spend>>
          /\ DriftStep(h, "canaries") /\ drift[h].pc = "start"
      BY <1>1, <2>1, <2>13 DEF StartInvestigation
    <3> QED BY <1>1, <2>1, <2>3, <3>1 DEF DriftSteps
  <2>14. CASE Investigate(h)
    <3>1. PICK cost \in 0..MaxCost :
            IF drift[h].auto
            THEN spend' = [spend EXCEPT !.auto = @ + IF drift[h].today THEN cost ELSE 0]
            ELSE /\ spend.other + (IF drift[h].today THEN cost ELSE 0) <= SpendBound
                 /\ spend' = [spend EXCEPT !.other = @ + IF drift[h].today THEN cost ELSE 0]
      BY <2>14 DEF Investigate
    <3> DEFINE counted == IF drift[h].today THEN cost ELSE 0
    <3>2. counted \in Nat /\ counted <= MaxCost /\ spend.auto \in Nat /\ spend.other \in Nat
      BY <1>1, <2>1, DriftAssumption DEF DriftStates
    <3>3. IF drift[h].auto THEN spend' = [spend EXCEPT !.auto = spend.auto + counted]
          ELSE /\ spend.other + counted <= SpendBound
               /\ spend' = [spend EXCEPT !.other = spend.other + counted]
      BY <3>1
    <3> HIDE DEF counted
    <3>4. DriftEnd(h) /\ UNCHANGED <<baseline, alerts, cooling>> /\ drift[h].pc = "canaries"
      BY <2>14 DEF Investigate
    <3>5. /\ spend' \in [auto : Nat, other : 0..SpendBound]
          /\ IF drift[h].auto THEN spend'.auto = spend.auto + counted
                              ELSE spend'.auto = spend.auto
      <4>1. CASE drift[h].auto
        BY <1>1, <3>2, <3>3, <4>1
      <4>2. CASE ~drift[h].auto
        <5> DEFINE sum == spend.other + counted
        <5>1. sum \in 0..SpendBound
          BY <3>2, <3>3, <4>2, DriftAssumption
        <5>2. spend' = [spend EXCEPT !.other = sum]
          BY <3>3, <4>2
        <5> HIDE DEF sum
        <5> QED BY <1>1, <4>2, <5>1, <5>2
      <4> QED BY <4>1, <4>2
    <3>6. NotDrifting.pc \notin {"start", "canaries"} /\ Placed(NotDrifting)
      BY NotDriftingTyped
    <3>7. drift' = [drift EXCEPT ![h] = NotDrifting]
      BY <3>4 DEF DriftEnd
    <3>8. CASE drift[h].auto
      <4>1. h \in Granted /\ spend'.auto <= spend.auto + MaxCost
        BY <2>1, <3>2, <3>4, <3>5, <3>8, DriftAssumption
      <4> QED BY <1>1, <3>4, <3>5, <3>6, <3>7, <4>1, NotDriftingTyped, HandlerMoves
    <3>9. CASE ~drift[h].auto
      BY <1>1, <3>4, <3>5, <3>6, <3>7, <3>9, NotDriftingTyped, HandlerMoves
    <3> QED BY <3>8, <3>9
  <2>15. ASSUME NEW m \in Metrics, FeedFirst(h, m) PROVE DriftInv'
    <3> DEFINE x == [drift[h] EXCEPT !.pc = "insert", !.metric = m]
    <3>1. x \in DriftStates /\ Placed(x) /\ x.pc = "insert"
      BY <1>1, <2>1 DEF DriftStates, DriftSteps, Placed
    <3>2. drift' = [drift EXCEPT ![h] = x] /\ UNCHANGED <<baseline, alerts, cooling, spend>>
      BY <2>15 DEF FeedFirst
    <3> HIDE DEF x
    <3> QED BY <1>1, <3>1, <3>2, HandlerGoesOn
  <2>16. ASSUME NEW m \in Metrics, NEW anomaly \in BOOLEAN, Feed(h, m, anomaly) PROVE DriftInv'
    <3>1. baseline' = [baseline EXCEPT ![m] = Fed(baseline[m], anomaly)]
          /\ UNCHANGED <<alerts, cooling, spend>>
      BY <2>16 DEF Feed
    <3>2. Fed(baseline[m], anomaly) \in [samples : 0..Warm, streak : 0..Cluster]
      BY <1>1, FedTyped
    <3>3. baseline' \in [Metrics -> [samples : 0..Warm, streak : 0..Cluster]]
      BY <1>1, <3>1, <3>2
    <3>4. PICK to \in {"escalate", "resolve"} :
            drift' = [drift EXCEPT ![h] = NotDrifting]
            \/ drift' = [drift EXCEPT ![h] = [drift[h] EXCEPT !.metric = m, !.pc = to]]
      BY <2>16 DEF Feed
    <3>5. CASE drift' = [drift EXCEPT ![h] = NotDrifting]
      BY <1>1, <2>2, <3>1, <3>3, <3>5 DEF DriftEnd
    <3>6. CASE drift' = [drift EXCEPT ![h] = [drift[h] EXCEPT !.metric = m, !.pc = to]]
      <4> DEFINE x == [drift[h] EXCEPT !.metric = m, !.pc = to]
      <4>1. x \in DriftStates /\ x.pc = to
        BY <1>1, <2>1 DEF DriftStates, DriftSteps
      <4>2. drift' = [drift EXCEPT ![h] = x]
        BY <3>6
      <4>3. Placed(x) /\ x.pc \notin {"start", "canaries"}
        BY <4>1 DEF Placed
      <4> HIDE DEF x
      <4> QED BY <1>1, <3>1, <3>3, <4>1, <4>2, <4>3, HandlerGoesOn
    <3> QED BY <3>4, <3>5, <3>6
  <2> QED BY <1>6, <2>4, <2>5, <2>6, <2>7, <2>8, <2>9, <2>10, <2>11, <2>12, <2>13, <2>14, <2>15,
             <2>16
<1> QED BY <1>2, <1>3, <1>4, <1>5, <1>6 DEF DriftNext

\* What the invariant says of the cap.
LEMMA DriftPromises == DriftInv => DriftTypeOK /\ AutoSpendBounded
<1> SUFFICES ASSUME DriftInv PROVE AutoSpendBounded
  BY DEF DriftInv
<1> DEFINE owed == Cardinality(Granted) * MaxCost
           all == Cardinality(Handlers) * MaxCost
<1>1. Granted \in SUBSET Handlers
  BY DEF Granted
<1>2. owed \in Nat /\ all \in Nat /\ Cap \in Nat /\ spend.auto \in Nat
  BY <1>1, GrantedFinite, DriftAssumption DEF DriftInv, DriftTypeOK
<1>3. Cap > 0 => spend.auto + owed < Cap + all
  BY DEF DriftInv, DriftReserve
<1>4. AutoSpendBounded <=> (Cap > 0 => spend.auto < Cap + all)
  BY DEF AutoSpendBounded
<1> HIDE DEF owed, all
<1> QED BY <1>2, <1>3, <1>4

\* An alert on a scored metric needs a cluster of anomalies.
LEMMA AlertsFollowClusters ==
  ASSUME DriftInv, DriftNext, NEW h \in Handlers, drift[h].pc = "idle",
         drift'[h].pc = "escalate", drift'[h].metric # Compaction
  PROVE  baseline'[drift'[h].metric].streak >= Cluster
<1>1. /\ baseline \in [Metrics -> [samples : 0..Warm, streak : 0..Cluster]]
      /\ drift \in [Handlers -> DriftStates] /\ drift[h].metric = Compaction
  BY DEF DriftInv, DriftTypeOK, DriftStates, Placed
<1>2. \A g \in Handlers : ~DriftEnd(g) \/ drift'[h] = drift[h] \/ drift'[h].pc = "idle"
  BY <1>1, NotDriftingTyped DEF DriftEnd
<1>3. \A g \in Handlers : \A to \in DriftSteps :
        DriftStep(g, to) => drift'[h].metric = Compaction
  BY <1>1 DEF DriftStep, DriftStates
<1>4. \A g \in Handlers : ~(Compacts(g) \/ InsertFirst(g) \/ Escalate(g) \/ OpenAlert(g)
                            \/ ResolveAlerts(g))
  BY <1>2, <1>3 DEF Compacts, InsertFirst, Escalate, OpenAlert, ResolveAlerts, DriftSteps
<1>5. \A g \in Handlers : ~(RuledOut(g) \/ CheckCooldown(g) \/ CheckBudget(g)
                            \/ StartInvestigation(g) \/ Investigate(g))
  BY <1>2, <1>3 DEF RuledOut, CheckCooldown, CheckBudget, StartInvestigation, Investigate,
                    SkipRow, DriftSteps
<1>6. \A g \in Handlers : ~Manual(g)
  BY <1>1 DEF Manual, DriftStates
<1>7. \A g \in Handlers : \A m \in Metrics : ~FeedFirst(g, m)
  BY <1>1 DEF FeedFirst, DriftStates
<1>8. ~DriftCrash /\ ~Midnight /\ \A m \in AllMetrics : ~LeaveCooldown(m)
  BY <1>1, NotDriftingTyped DEF DriftCrash, Midnight, LeaveCooldown, DriftStates
<1>9. PICK g \in Handlers, m \in Metrics, anomaly \in BOOLEAN : Feed(g, m, anomaly)
  BY <1>4, <1>5, <1>6, <1>7, <1>8 DEF DriftNext
<1> DEFINE fed == Fed(baseline[m], anomaly)
<1>10. fed \in [samples : 0..Warm, streak : 0..Cluster]
  BY <1>1, FedTyped
<1>11. baseline'[m] = fed
  BY <1>1, <1>9 DEF Feed
<1>12. drift'[h].metric = m /\ fed.streak >= Cluster
  <2>1. fed.streak >= Cluster \/ drift'[g] = NotDrifting
        \/ drift'[g] = [drift[g] EXCEPT !.metric = m, !.pc = "resolve"]
    BY <1>1, <1>9 DEF Feed
  <2>2. g = h
    BY <1>1, <1>9 DEF Feed
  <2>3. drift'[g].pc # "escalate" \/ fed.streak >= Cluster
    BY <1>1, <2>1, NotDriftingTyped DEF DriftStates
  <2>4. drift'[g] = NotDrifting \/ drift'[g].metric = m
    BY <1>1, <1>9 DEF Feed, DriftStates
  <2> QED BY <2>2, <2>3, <2>4, NotDriftingTyped
<1> HIDE DEF fed
<1> QED BY <1>11, <1>12

(*****************************************************************************)
(* Investigations: a verdict is borne out by the shots that were taken.      *)
(*****************************************************************************)

InquiryLabels == Accusations \union {"none", "inconclusive", "no_baseline", "matches_baseline",
                                     "safety_normal", "routing_consistent", "single_transport",
                                     "raises"}
Inquiries == [suite : Suites, baseline : Measures, pc : {"choose", "shots", "done"},
              row : {"none", "running", "complete", "failed"}, label : InquiryLabels, cost : Nat]
ShotStates == [st : {"none", "waiting", "out", "back"}, failed : BOOLEAN, level : Measures,
               cost : {0, 1}]

Lenient == {"tokenizer", "routing"}

\* Only two suites take an answer that measured nothing, and one asks one prompt.
ShotSound(s, x) ==
  /\ x.st = "back" /\ ~x.failed /\ x.level = 0 => inquiry.suite \in Lenient
  /\ x.st # "none" /\ inquiry.suite = "routing" => s[1] = CHOOSE c \in Canaries : TRUE

ShotCosts == [s \in AllShots |-> shots[s].cost]
ShotLevels == [s \in AllShots |-> shots[s].level]

\* An answer, or two, that bear a verdict out.
Departs(s, t) ==
  /\ ~shots[s].failed /\ ~shots[t].failed /\ shots[s].level > 0
  /\ CASE inquiry.suite \in {"tokenizer", "latency"} -> shots[s].level # inquiry.baseline
       [] inquiry.suite \in {"verbosity", "refusal"} -> shots[s].level > 1
       [] OTHER -> Via(s) # Via(t) /\ shots[t].level > shots[s].level
BornOut(label) ==
  /\ label \in Accusations => \E s, t \in kept : Departs(s, t)
  /\ label = "matches_baseline" =>
       inquiry.baseline > 0 /\ \E s \in kept : ~shots[s].failed /\ shots[s].level > 0

InquiryInv ==
  /\ inquiry \in Inquiries /\ shots \in [AllShots -> ShotStates] /\ kept \in SUBSET AllShots
  /\ inquiry.pc = "choose" => kept = {}
  /\ \A s \in kept : shots[s].st = "back"
  /\ \A s \in AllShots : ShotSound(s, shots[s])
  /\ inquiry.cost = SumOf(ShotCosts, kept)
  /\ inquiry.row = "complete" =>
       inquiry.pc = "done" /\ \A s \in AllShots : shots[s].st # "none" => s \in kept
  /\ inquiry.label # "none" => inquiry.row = "complete"
  /\ BornOut(inquiry.label)

-----------------------------------------------------------------------------
\* The shots of an investigation are finitely many.
LEMMA ShotsFinite == IsFiniteSet(AllShots) /\ \A T \in SUBSET AllShots : IsFiniteSet(T)
<1>1. IsFiniteSet(Vias)
  <2> DEFINE a == {"anthropic-oauth"}
             b == {"chatgpt-oauth"}
             c == {"openrouter"}
             d == {"anthropic-metered"}
             e == {"openai-metered"}
  <2>1. IsFiniteSet(a) /\ IsFiniteSet(b) /\ IsFiniteSet(c) /\ IsFiniteSet(d) /\ IsFiniteSet(e)
    BY FS_Singleton
  <2>2. Vias = ((a \union b) \union c) \union (d \union e)
    BY DEF Vias, Subscriptions
  <2> HIDE DEF a, b, c, d, e
  <2>3. IsFiniteSet(a \union b) /\ IsFiniteSet(d \union e)
    BY <2>1, FS_Union
  <2>4. IsFiniteSet((a \union b) \union c)
    BY <2>1, <2>3, FS_Union
  <2> QED BY <2>2, <2>3, <2>4, FS_Union
<1>2. IsFiniteSet(AllShots)
  BY <1>1, FS_Product, InvestigationAssumption DEF AllShots
<1> QED BY <1>2, FS_Subset

\* The sums of the model are sums of these functions.
LEMMA LevelsAddUp ==
  ASSUME NEW S \in SUBSET AllShots
  PROVE  MapThenSumSet(LAMBDA s : shots[s].level, S) = SumOf(ShotLevels, S)
<1> DEFINE A(g) == g = [s \in SUBSET S |-> IF s = {} THEN 0
                        ELSE shots[Picked(s)].level + g[s \ {Picked(s)}]]
<1>1. MapThenSumSet(LAMBDA s : shots[s].level, S) = (CHOOSE g : A(g))[S]
  BY DEF MapThenSumSet, MapThenFoldSet, Picked
<1>2. \A g : A(g) <=> IsTally(ShotLevels, S, g)
  <2> TAKE g
  <2>1. \A s \in SUBSET S : TallyOf(ShotLevels, g, s) = (IF s = {} THEN 0
                        ELSE shots[Picked(s)].level + g[s \ {Picked(s)}])
    BY DEF TallyOf, ShotLevels, Picked
  <2> QED BY <2>1 DEF IsTally
<1>3. (CHOOSE g : A(g)) = Tally(ShotLevels, S)
  <2> HIDE DEF A
  <2> QED BY <1>2, Zenon DEF Tally
<1> QED BY <1>1, <1>3, SumIsTally

\* The costs that the model adds up over the shots are their sum.
LEMMA ShotCostsAddUp ==
  ASSUME NEW S \in SUBSET AllShots
  PROVE  MapThenSumSet(LAMBDA s : shots[s].cost, S) = SumOf(ShotCosts, S)
<1> DEFINE A(g) == g = [s \in SUBSET S |-> IF s = {} THEN 0
                        ELSE shots[Picked(s)].cost + g[s \ {Picked(s)}]]
<1>1. MapThenSumSet(LAMBDA s : shots[s].cost, S) = (CHOOSE g : A(g))[S]
  BY DEF MapThenSumSet, MapThenFoldSet, Picked
<1>2. \A g : A(g) <=> IsTally(ShotCosts, S, g)
  <2> TAKE g
  <2>1. \A s \in SUBSET S : TallyOf(ShotCosts, g, s) = (IF s = {} THEN 0
                        ELSE shots[Picked(s)].cost + g[s \ {Picked(s)}])
    BY DEF TallyOf, ShotCosts, Picked
  <2> QED BY <2>1 DEF IsTally
<1>3. (CHOOSE g : A(g)) = Tally(ShotCosts, S)
  <2> HIDE DEF A
  <2> QED BY <1>2, Zenon DEF Tally
<1> QED BY <1>1, <1>3, SumIsTally

\* The shot that has not been taken is typed.
LEMMA NoShotTyped == /\ NoShot \in ShotStates /\ NoShot.st = "none"
                     /\ Waiting \in ShotStates /\ Waiting.st = "waiting"
<1>1. NoShot \in ShotStates /\ NoShot.st = "none"
  BY DEF NoShot, ShotStates, Measures
<1>2. Waiting \in ShotStates /\ Waiting.st = "waiting"
  BY <1>1 DEF Waiting, ShotStates
<1> QED BY <1>1, <1>2

\* The invariant holds at the start.
LEMMA InquiryInitially == InquiryInit => InquiryInv
<1> SUFFICES ASSUME InquiryInit PROVE InquiryInv
  OBVIOUS
<1>1. /\ inquiry \in Inquiries /\ inquiry.label = "none" /\ inquiry.row = "none"
      /\ inquiry.cost = 0 /\ kept = {}
  BY DEF InquiryInit, Inquiries, InquiryLabels
<1>2. shots \in [AllShots -> ShotStates] /\ \A s \in AllShots : shots[s].st = "none"
  BY NoShotTyped DEF InquiryInit
<1>3. SumOf(ShotCosts, kept) = 0
  BY <1>1, FS_EmptySet, SumProperties
<1>4. BornOut("none")
  BY DEF BornOut, Accusations
<1>5. BornOut(inquiry.label)
  BY <1>1, <1>4
<1>6. \A s \in AllShots : ShotSound(s, shots[s])
  BY <1>2 DEF ShotSound
<1> QED BY <1>1, <1>2, <1>3, <1>5, <1>6 DEF InquiryInv

\* If every answer of a set measured the same, that is their mean and their median.
LEMMA EqualLevels ==
  ASSUME InquiryInv, NEW S \in SUBSET AllShots, S # {}, NEW k \in Measures,
         \A s \in S : shots[s].level = k
  PROVE  MeanIs(S, k) /\ MedianOf(S) = k
<1>1. IsFiniteSet(S) /\ k \in Nat
  BY ShotsFinite DEF Measures
<1>2. MeanIs(S, k)
  <2>1. \A s \in S : ShotLevels[s] = k
    BY DEF ShotLevels
  <2>2. SumOf(ShotLevels, S) = k * Cardinality(S)
    BY <1>1, <2>1, SumOfConstant
  <2> QED BY <2>2, LevelsAddUp DEF MeanIs
<1>3. MedianOf(S) = k
  <2> DEFINE n == Cardinality(S)
             Below(l) == Cardinality({s \in S : shots[s].level < l})
             UpTo(l) == Cardinality({s \in S : shots[s].level <= l})
             M(l) == Below(l) <= n \div 2 /\ UpTo(l) > n \div 2
  <2>1. n \in Nat \ {0}
    BY <1>1, FS_CardinalityType, FS_EmptySet
  <2>2. n \div 2 \in Nat /\ n \div 2 < n
    <3> HIDE DEF n
    <3> QED BY <2>1
  <2>3. \A l \in Measures : l > k => Below(l) = n
    <3> SUFFICES ASSUME NEW l \in Measures, l > k PROVE Below(l) = n
      OBVIOUS
    <3>1. {s \in S : shots[s].level < l} = S
      BY DEF Measures
    <3> QED BY <3>1
  <2>4. \A l \in Measures : l < k => UpTo(l) = 0
    <3> SUFFICES ASSUME NEW l \in Measures, l < k PROVE UpTo(l) = 0
      OBVIOUS
    <3>1. {s \in S : shots[s].level <= l} = {}
      BY DEF Measures
    <3> QED BY <3>1, FS_EmptySet
  <2>5. Below(k) = 0 /\ UpTo(k) = n
    <3>1. {s \in S : shots[s].level < k} = {} /\ {s \in S : shots[s].level <= k} = S
      BY DEF Measures
    <3> QED BY <3>1, FS_EmptySet
  <2>6. MedianOf(S) = CHOOSE l \in Measures : M(l)
    BY DEF MedianOf
  <2> HIDE DEF n, Below, UpTo
  <2>7. M(k)
    BY <2>2, <2>5
  <2>8. \A l \in Measures : M(l) => l = k
    BY <2>1, <2>2, <2>3, <2>4 DEF Measures
  <2> HIDE DEF M
  <2> QED BY <2>6, <2>7, <2>8
<1> QED BY <1>2, <1>3

\* The label that the usable shots lead to is borne out by shots that are kept.
LEMMA VerdictIsBornOut ==
  ASSUME InquiryInv
  PROVE  Verdict \in InquiryLabels /\ BornOut(Verdict)
<1> DEFINE S == UsableShots
<1>1. /\ S \in SUBSET AllShots
      /\ \A s \in S : /\ s \in kept /\ s \in AllShots /\ shots[s] \in ShotStates
                      /\ shots[s].st = "back" /\ ~shots[s].failed
                      /\ shots[s].level \in Measures
                      /\ inquiry.suite # "routing" => shots[s].level > 0
  <2>1. \A s \in S : /\ s \in kept /\ s \in AllShots /\ shots[s] \in ShotStates
                     /\ shots[s].st = "back" /\ ~shots[s].failed
                     /\ inquiry.suite = "tokenizer" => shots[s].level > 0
    BY DEF InquiryInv, UsableShots
  <2>2. \A s \in S : shots[s].level \in Measures
    BY <2>1 DEF ShotStates
  <2>3. \A s \in S : inquiry.suite \notin Lenient => shots[s].level # 0
    BY <2>1 DEF InquiryInv, ShotSound
  <2> QED BY <2>1, <2>2, <2>3 DEF Lenient, Measures, UsableShots
<1>2. inquiry.suite \in Suites /\ inquiry.baseline \in Measures
  BY DEF InquiryInv, Inquiries
<1>3. CASE S = {}
  BY <1>3 DEF Verdict, BornOut, InquiryLabels, Accusations
<1> DEFINE b == inquiry.baseline
<1>4. ASSUME S # {}, NEW matches \in BOOLEAN, NEW blame \in Accusations, inquiry.suite # "routing",
             b > 0 /\ ~matches => \E s \in S : Departs(s, s)
      PROVE  Against(matches, blame) \in InquiryLabels /\ BornOut(Against(matches, blame))
  <2> DEFINE v == Against(matches, blame)
  <2>1. v = IF b = 0 THEN "no_baseline" ELSE IF matches THEN "matches_baseline" ELSE blame
    BY DEF Against
  <2>2. "no_baseline" \notin Accusations /\ "matches_baseline" \notin Accusations
    BY DEF Accusations
  <2>3. b = 0 \/ b > 0
    BY <1>2 DEF Measures
  <2> HIDE DEF v
  <2>4. v \in InquiryLabels
    BY <2>1 DEF InquiryLabels
  <2>5. v \in Accusations => \E s, t \in kept : Departs(s, t)
    BY <1>1, <1>4, <2>1, <2>2, <2>3
  <2>6. v = "matches_baseline" => b > 0 /\ \E s \in kept : ~shots[s].failed /\ shots[s].level > 0
    BY <1>1, <1>4, <2>1, <2>2, <2>3
  <2> QED BY <2>4, <2>5, <2>6 DEF v, BornOut
<1>5. CASE S # {} /\ inquiry.suite = "tokenizer"
  <2>1. Verdict = Against(MeanIs(S, b), "tokenizer_changed")
    BY <1>5 DEF Verdict
  <2>2. MeanIs(S, b) \in BOOLEAN /\ "tokenizer_changed" \in Accusations
    BY DEF MeanIs, Accusations
  <2>3. b > 0 /\ ~MeanIs(S, b) => \E s \in S : Departs(s, s)
    <3> HIDE DEF S, b
    <3>1. ~MeanIs(S, b) => \E s \in S : shots[s].level # b
      BY <1>1, <1>2, <1>5, EqualLevels DEF b
    <3> QED BY <1>1, <1>5, <3>1 DEF Departs, b
  <2> HIDE DEF S, b
  <2> QED BY <1>4, <1>5, <2>1, <2>2, <2>3
<1>6. CASE S # {} /\ inquiry.suite = "verbosity"
  <2>1. Verdict = Against(MeanIs(S, 1), "verbosity_drift")
    BY <1>6 DEF Verdict
  <2>2. MeanIs(S, 1) \in BOOLEAN /\ "verbosity_drift" \in Accusations
    BY DEF MeanIs, Accusations
  <2>3. ~MeanIs(S, 1) => \E s \in S : Departs(s, s)
    <3> HIDE DEF S, b
    <3>1. ~MeanIs(S, 1) => \E s \in S : shots[s].level # 1
      BY <1>1, <1>6, EqualLevels DEF Measures
    <3> QED BY <1>1, <1>6, <3>1 DEF Departs, Measures
  <2> HIDE DEF S, b
  <2> QED BY <1>4, <1>6, <2>1, <2>2, <2>3
<1>7. CASE S # {} /\ inquiry.suite = "latency"
  <2>1. Verdict = Against(MedianOf(S) = b, "latency_drift")
    BY <1>7 DEF Verdict
  <2>2. "latency_drift" \in Accusations
    BY DEF Accusations
  <2>3. ~(MedianOf(S) = b) => \E s \in S : Departs(s, s)
    <3> HIDE DEF S, b
    <3>1. MedianOf(S) # b => \E s \in S : shots[s].level # b
      BY <1>1, <1>2, <1>7, EqualLevels DEF b
    <3> QED BY <1>1, <1>7, <3>1 DEF Departs, b
  <2> DEFINE m == (MedianOf(S) = b)
  <2> HIDE DEF S, b
  <2>4. m \in BOOLEAN /\ (~m => \E s \in S : Departs(s, s)) /\ Verdict = Against(m, "latency_drift")
    BY <2>1, <2>3
  <2> HIDE DEF m
  <2> QED BY <1>4, <1>7, <2>2, <2>4
<1>8. CASE S # {} /\ inquiry.suite = "refusal"
  <2>1. Verdict = IF MeanIs(S, 1) THEN "safety_normal" ELSE "safety_tightened"
    BY <1>8 DEF Verdict
  <2>2. ~MeanIs(S, 1) => \E s \in S : Departs(s, s)
    <3> HIDE DEF S, b
    <3>1. ~MeanIs(S, 1) => \E s \in S : shots[s].level # 1
      BY <1>1, <1>8, EqualLevels DEF Measures
    <3> QED BY <1>1, <1>8, <3>1 DEF Departs, Measures
  <2>3. \A s \in S : s \in kept
    BY <1>1
  <2>4. "safety_normal" \notin Accusations
    BY DEF Accusations
  <2> HIDE DEF S
  <2> QED BY <2>1, <2>2, <2>3, <2>4 DEF BornOut, InquiryLabels, Accusations
<1>9. CASE S # {} /\ inquiry.suite = "routing"
  <2>1. Verdict = IF Cardinality({Via(s) : s \in S}) > 1
                  THEN IF Wrapped(S) THEN "wrapping_detected" ELSE "routing_consistent"
                  ELSE IF \A s \in S : shots[s].level = 0 THEN "raises" ELSE "single_transport"
    BY <1>9 DEF Verdict
  <2>2. Wrapped(S) => \E s, t \in kept : Departs(s, t)
    <3> SUFFICES ASSUME NEW s \in S, NEW t \in S, 0 < shots[s].level,
                        shots[s].level < shots[t].level
                 PROVE  Departs(s, t)
      BY <1>1 DEF Wrapped
    <3> DEFINE first == CHOOSE c \in Canaries : TRUE
    <3>a. \A r \in AllShots : shots[r].st # "none" => r[1] = first
      BY <1>9 DEF InquiryInv, ShotSound
    <3> HIDE DEF first
    <3>b. s[1] = first /\ t[1] = first
      BY <1>1, <3>a
    <3>c. s # t
      BY <1>1 DEF Measures
    <3>1. s[1] = t[1] /\ s # t
      BY <3>b, <3>c
    <3>2. Via(s) # Via(t)
      BY <1>1, <3>1 DEF Via, AllShots
    <3> QED BY <1>1, <1>9, <3>2 DEF Departs, Measures
  <2>3. /\ "routing_consistent" \notin Accusations /\ "raises" \notin Accusations
        /\ "single_transport" \notin Accusations
    BY DEF Accusations
  <2> HIDE DEF S
  <2> QED BY <2>1, <2>2, <2>3 DEF BornOut, InquiryLabels, Accusations
<1> QED BY <1>2, <1>3, <1>5, <1>6, <1>7, <1>8, <1>9 DEF Suites

\* A step of one shot that is not stored, before the row is complete.
LEMMA ShotMoves ==
  ASSUME InquiryInv, NEW s \in AllShots, s \notin kept, NEW x \in ShotStates,
         shots[s].st \in {"waiting", "out"}, shots' = [shots EXCEPT ![s] = x], ShotSound(s, x),
         UNCHANGED <<inquiry, kept>>
  PROVE  InquiryInv'
<1>1. /\ inquiry \in Inquiries /\ shots \in [AllShots -> ShotStates] /\ kept \in SUBSET AllShots
      /\ inquiry.pc = "choose" => kept = {}
      /\ \A r \in kept : shots[r].st = "back"
      /\ \A r \in AllShots : ShotSound(r, shots[r])
      /\ inquiry.cost = SumOf(ShotCosts, kept)
      /\ inquiry.row = "complete" =>
           inquiry.pc = "done" /\ \A r \in AllShots : shots[r].st # "none" => r \in kept
      /\ inquiry.label # "none" => inquiry.row = "complete"
  BY DEF InquiryInv
<1>2. /\ shots' \in [AllShots -> ShotStates]
      /\ \A r \in AllShots : shots'[r] = IF r = s THEN x ELSE shots[r]
  BY <1>1
<1>3. inquiry.row # "complete" /\ inquiry.label = "none"
  BY <1>1
<1>4. \A r \in AllShots : ShotSound(r, shots[r])'
  BY <1>1, <1>2 DEF ShotSound
<1>5. SumOf(ShotCosts, kept)' = SumOf(ShotCosts, kept)
  <2>1. IsFiniteSet(kept) /\ UNCHANGED kept
    BY <1>1, ShotsFinite
  <2>2. \A r \in kept : ShotCosts[r] \in Nat /\ ShotCosts'[r] = ShotCosts[r]
    BY <1>1, <1>2 DEF ShotCosts, ShotStates
  <2>3. SumOf(ShotCosts, kept) = SumOf(ShotCosts', kept)
    BY <2>1, <2>2, SumAgrees
  <2> QED BY <2>1, <2>3
<1>6. BornOut(inquiry.label)'
  <2>1. inquiry'.label = "none"
    BY <1>3
  <2> QED BY <2>1 DEF BornOut, Accusations
<1>7. \A r \in kept' : shots'[r].st = "back"
  BY <1>1, <1>2
<1> QED BY <1>1, <1>2, <1>3, <1>4, <1>5, <1>6, <1>7 DEF InquiryInv

\* Every step keeps the invariant.
LEMMA InquiryStep == InquiryInv /\ [InquiryNext]_inquiryVars => InquiryInv'
<1> SUFFICES ASSUME InquiryInv, [InquiryNext]_inquiryVars PROVE InquiryInv'
  OBVIOUS
<1>1. /\ inquiry \in Inquiries /\ shots \in [AllShots -> ShotStates] /\ kept \in SUBSET AllShots
      /\ inquiry.pc = "choose" => kept = {}
      /\ \A s \in kept : shots[s].st = "back"
      /\ \A s \in AllShots : ShotSound(s, shots[s])
      /\ inquiry.cost = SumOf(ShotCosts, kept)
      /\ inquiry.row = "complete" =>
           inquiry.pc = "done" /\ \A s \in AllShots : shots[s].st # "none" => s \in kept
      /\ inquiry.label # "none" => inquiry.row = "complete"
      /\ BornOut(inquiry.label)
  BY DEF InquiryInv
<1>n. BornOut("none")
  BY DEF BornOut, Accusations
<1>2. CASE UNCHANGED inquiryVars
  BY <1>1, <1>2 DEF inquiryVars, InquiryInv, ShotSound, ShotCosts, BornOut, Departs
\* The investigation goes on, or ends, without a verdict.
<1>3. ASSUME NEW q \in Inquiries, inquiry' = q, q.suite = inquiry.suite, q.label = "none",
             q.row # "complete", q.pc # "choose", kept' \in SUBSET AllShots,
             shots' \in [AllShots -> ShotStates], \A s \in kept' : shots'[s].st = "back",
             \A s \in AllShots : ShotSound(s, shots'[s]), q.cost = SumOf(ShotCosts', kept')
      PROVE  InquiryInv'
  <2>1. \A s \in AllShots : ShotSound(s, shots[s])'
    BY <1>3 DEF ShotSound
  <2>2. BornOut(inquiry.label)'
    <3>1. inquiry'.label = "none"
      BY <1>3
    <3> QED BY <3>1 DEF BornOut, Accusations
  <2> QED BY <1>3, <2>1, <2>2 DEF InquiryInv
<1>4. CASE ChooseTransports
  <2>1. PICK target \in Targets, oauth \in BOOLEAN, metered \in BOOLEAN :
          LET transports == TransportsFor(target, oauth, metered) IN
          IF transports = <<>>
          THEN inquiry' = [inquiry EXCEPT !.pc = "done"] /\ UNCHANGED shots
          ELSE /\ inquiry' = [inquiry EXCEPT !.pc = "shots", !.row = "running"]
               /\ shots' = [s \in AllShots |->
                              IF s \in CanariesOf(inquiry.suite)
                                         \X ChosenFor(inquiry.suite, transports)
                              THEN Waiting ELSE NoShot]
    BY <1>4 DEF ChooseTransports
  <2>2. /\ inquiry.pc = "choose" /\ kept = {} /\ kept' = {} /\ inquiry.label = "none"
        /\ inquiry.row # "complete"
    BY <1>1, <1>4 DEF ChooseTransports
  <2>3. inquiry.cost = 0 /\ SumOf(ShotCosts', kept') = 0
    BY <1>1, <2>2, FS_EmptySet, SumProperties
  <2> DEFINE transports == TransportsFor(target, oauth, metered)
  <2>4. CASE transports = <<>>
    <3> DEFINE q == [inquiry EXCEPT !.pc = "done"]
    <3>1. /\ q \in Inquiries /\ q.suite = inquiry.suite /\ q.label = inquiry.label
          /\ q.row = inquiry.row /\ q.cost = inquiry.cost /\ q.pc = "done"
      BY <1>1 DEF Inquiries
    <3>2. inquiry' = q /\ UNCHANGED shots
      BY <2>1, <2>4
    <3> HIDE DEF q
    <3> QED BY <1>1, <1>3, <2>2, <2>3, <3>1, <3>2
  <2>5. CASE transports # <<>>
    <3> DEFINE q == [inquiry EXCEPT !.pc = "shots", !.row = "running"]
               chosen == CanariesOf(inquiry.suite) \X ChosenFor(inquiry.suite, transports)
    <3>1. /\ q \in Inquiries /\ q.suite = inquiry.suite /\ q.label = inquiry.label
          /\ q.row = "running" /\ q.cost = inquiry.cost /\ q.pc = "shots"
      BY <1>1 DEF Inquiries
    <3>2. inquiry' = q /\ shots' = [s \in AllShots |-> IF s \in chosen THEN Waiting ELSE NoShot]
      BY <2>1, <2>5
    <3>3. inquiry.suite = "routing" => \A s \in chosen : s[1] = CHOOSE c \in Canaries : TRUE
      BY DEF CanariesOf
    <3> HIDE DEF q, chosen
    <3>4. /\ shots' \in [AllShots -> ShotStates]
          /\ \A s \in AllShots : /\ shots'[s].st \in {"none", "waiting"}
                                 /\ shots'[s].st # "none" => s \in chosen
      BY <3>2, NoShotTyped
    <3>5. \A s \in AllShots : ShotSound(s, shots'[s])
      BY <3>3, <3>4 DEF ShotSound
    <3> QED BY <1>3, <2>2, <2>3, <3>1, <3>2, <3>4, <3>5
  <2> QED BY <2>4, <2>5
<1>5. CASE LoseShot
  <2> DEFINE q == [inquiry EXCEPT !.pc = "done"]
  <2>1. inquiry' = q /\ UNCHANGED <<shots, kept>> /\ inquiry.pc = "shots"
    BY <1>5 DEF LoseShot
  <2>2. /\ q \in Inquiries /\ q.suite = inquiry.suite /\ q.label = inquiry.label
        /\ q.row = inquiry.row /\ q.cost = inquiry.cost /\ q.pc = "done"
    BY <1>1 DEF Inquiries
  <2> HIDE DEF q
  <2>3. SumOf(ShotCosts', kept') = SumOf(ShotCosts, kept)
    BY <2>1 DEF ShotCosts
  <2> QED BY <1>1, <1>3, <2>1, <2>2, <2>3
<1>6. ASSUME NEW s \in AllShots, SendShot(s) PROVE InquiryInv'
  <2> DEFINE x == [shots[s] EXCEPT !.st = "out"]
  <2>1. /\ shots[s].st = "waiting" /\ shots' = [shots EXCEPT ![s] = x]
        /\ UNCHANGED <<inquiry, kept>>
    BY <1>1, <1>6 DEF SendShot
  <2>2. x \in ShotStates /\ x.st = "out"
    BY <1>1 DEF ShotStates
  <2> HIDE DEF x
  <2>3. ShotSound(s, x) /\ s \notin kept
    BY <1>1, <2>1, <2>2 DEF ShotSound
  <2> QED BY <2>1, <2>2, <2>3, ShotMoves
<1>7. ASSUME NEW s \in AllShots, ShotReturns(s) PROVE InquiryInv'
  <2>1. PICK failed \in BOOLEAN, level \in Measures :
          /\ ~failed /\ level = 0 => inquiry.suite \in Lenient
          /\ \E cost \in Charges(s, failed, level) :
               shots' = [shots EXCEPT ![s] = [st |-> "back", failed |-> failed, level |-> level,
                                              cost |-> cost]]
    BY <1>7 DEF ShotReturns, Lenient
  <2>a. PICK cost \in {0, 1} :
          shots' = [shots EXCEPT ![s] = [st |-> "back", failed |-> failed, level |-> level,
                                         cost |-> cost]]
    BY <2>1 DEF Charges
  <2> DEFINE x == [st |-> "back", failed |-> failed, level |-> level, cost |-> cost]
  <2>2. shots[s].st = "out" /\ shots' = [shots EXCEPT ![s] = x] /\ UNCHANGED <<inquiry, kept>>
    BY <1>7, <2>a DEF ShotReturns
  <2>3. x \in ShotStates /\ x.st = "back" /\ x.failed = failed /\ x.level = level
    BY DEF ShotStates
  <2> HIDE DEF x
  <2>4. ShotSound(s, x) /\ s \notin kept
    BY <1>1, <2>1, <2>2, <2>3 DEF ShotSound
  <2> QED BY <2>2, <2>3, <2>4, ShotMoves
<1>8. ASSUME NEW s \in AllShots, KeepShot(s) PROVE InquiryInv'
  <2> DEFINE f == ShotCosts
             cost == inquiry.cost + shots[s].cost
             q == [inquiry EXCEPT !.cost = cost]
             k == kept \union {s}
  <2>1. /\ inquiry.pc = "shots" /\ shots[s].st = "back" /\ s \notin kept /\ kept' = k
        /\ inquiry' = q /\ UNCHANGED shots
    BY <1>1, <1>8 DEF KeepShot, Inquiries
  <2>2. k \in SUBSET AllShots /\ IsFiniteSet(k) /\ k \ {s} = kept /\ s \in k
    BY <1>1, <2>1, ShotsFinite
  <2>3. \A r \in k : f[r] \in Nat
    BY <1>1, <2>2 DEF ShotCosts, ShotStates
  <2>4. f[s] = shots[s].cost
    BY DEF ShotCosts
  <2>5. SumOf(f, k) = f[s] + SumOf(f, kept)
    <3> HIDE DEF f, k
    <3> QED BY <2>2, <2>3, SumProperties
  <2>6. SumOf(f, k) \in Nat /\ f[s] \in Nat /\ inquiry.cost \in Nat
    <3>1. inquiry.cost \in Nat
      BY <1>1 DEF Inquiries
    <3> HIDE DEF f, k
    <3> QED BY <2>2, <2>3, <3>1, SumProperties
  <2>7. cost = SumOf(f, k) /\ cost \in Nat
    BY <1>1, <2>4, <2>5, <2>6
  <2>8. SumOf(ShotCosts', kept') = SumOf(f, k)
    BY <2>1 DEF ShotCosts
  <2> HIDE DEF cost
  <2>9. /\ q \in Inquiries /\ q.suite = inquiry.suite /\ q.label = inquiry.label
        /\ q.row = inquiry.row /\ q.cost = cost /\ q.pc = inquiry.pc
    BY <1>1, <2>7 DEF Inquiries
  <2> HIDE DEF q, f, k
  <2>10. inquiry.label = "none" /\ inquiry.row # "complete"
    BY <1>1, <2>1
  <2>11. \A r \in kept' : shots'[r].st = "back"
    BY <1>1, <2>1 DEF k
  <2> QED BY <1>1, <1>3, <2>1, <2>2, <2>7, <2>8, <2>9, <2>10, <2>11
<1>9. CASE CloseInquiry
  <2>1. /\ inquiry.pc = "shots" /\ UNCHANGED <<shots, kept>>
        /\ \A s \in AllShots : shots[s].st # "none" => s \in kept
    BY <1>9 DEF CloseInquiry
  <2>2. inquiry.label = "none" /\ inquiry.row # "complete"
    BY <1>1, <2>1
  <2>3. SumOf(ShotCosts', kept') = SumOf(ShotCosts, kept)
    BY <2>1 DEF ShotCosts
  <2>4. CASE inquiry' = [inquiry EXCEPT !.pc = "done"]
    <3> DEFINE q == [inquiry EXCEPT !.pc = "done"]
    <3>1. /\ q \in Inquiries /\ q.suite = inquiry.suite /\ q.label = inquiry.label
          /\ q.row = inquiry.row /\ q.cost = inquiry.cost /\ q.pc = "done"
      BY <1>1 DEF Inquiries
    <3>2. inquiry' = q
      BY <2>4
    <3> HIDE DEF q
    <3> QED BY <1>1, <1>3, <2>1, <2>2, <2>3, <3>1, <3>2
  <2>5. CASE inquiry' = [inquiry EXCEPT !.pc = "done", !.row = "failed"]
    <3> DEFINE q == [inquiry EXCEPT !.pc = "done", !.row = "failed"]
    <3>1. /\ q \in Inquiries /\ q.suite = inquiry.suite /\ q.label = inquiry.label
          /\ q.row = "failed" /\ q.cost = inquiry.cost /\ q.pc = "done"
      BY <1>1 DEF Inquiries
    <3>2. inquiry' = q
      BY <2>5
    <3> HIDE DEF q
    <3> QED BY <1>1, <1>3, <2>1, <2>2, <2>3, <3>1, <3>2
  <2>6. CASE inquiry' = [inquiry EXCEPT !.pc = "done", !.row = "complete", !.label = Verdict]
    <3> DEFINE v == Verdict
               q == [inquiry EXCEPT !.pc = "done", !.row = "complete", !.label = v]
    <3>1. v \in InquiryLabels /\ BornOut(v)
      BY VerdictIsBornOut
    <3>2. inquiry' = q
      BY <2>6
    <3> HIDE DEF v
    <3>3. /\ q \in Inquiries /\ q.suite = inquiry.suite /\ q.label = v /\ q.row = "complete"
          /\ q.cost = inquiry.cost /\ q.pc = "done" /\ q.baseline = inquiry.baseline
      BY <1>1, <3>1 DEF Inquiries
    <3> HIDE DEF q
    <3>4. BornOut(inquiry.label)'
      BY <2>1, <3>1, <3>2, <3>3 DEF BornOut, Departs
    <3>5. \A s \in AllShots : ShotSound(s, shots[s])'
      BY <1>1, <2>1, <3>2, <3>3 DEF ShotSound
    <3> QED BY <1>1, <2>1, <2>3, <3>2, <3>3, <3>4, <3>5 DEF InquiryInv
  <2> QED BY <1>9, <2>4, <2>5, <2>6 DEF CloseInquiry
<1> QED BY <1>2, <1>4, <1>5, <1>6, <1>7, <1>8, <1>9 DEF InquiryNext

\* The invariant is as strong as what the runs check.
LEMMA InquiryPromises == InquiryInv => InquiryTypeOK /\ VerdictsAreSupported
<1> SUFFICES ASSUME InquiryInv PROVE InquiryTypeOK /\ VerdictsAreSupported
  OBVIOUS
<1>1. inquiry.cost \in 0..Cardinality(AllShots)
  <2> DEFINE n == Cardinality(AllShots)
             m == Cardinality(kept)
             sum == SumOf(ShotCosts, kept)
             ones == [s \in AllShots |-> 1]
  <2>1. IsFiniteSet(kept) /\ kept \in SUBSET AllShots /\ IsFiniteSet(AllShots)
    BY ShotsFinite DEF InquiryInv
  <2>2. n \in Nat /\ m \in Nat /\ m <= n
    BY <2>1, FS_Subset, FS_CardinalityType
  <2>3. \A s \in kept : ShotCosts[s] \in Nat /\ ones[s] = 1 /\ ShotCosts[s] <= ones[s]
    BY <2>1 DEF ShotCosts, ShotStates, InquiryInv
  <2>4. SumOf(ones, kept) = 1 * m
    <3> HIDE DEF ones
    <3> QED BY <2>1, <2>3, SumOfConstant
  <2>5. sum <= SumOf(ones, kept)
    <3>1. \A s \in kept : ShotCosts[s] \in Nat /\ ones[s] \in Nat /\ ShotCosts[s] <= ones[s]
      BY <2>3
    <3> HIDE DEF ones
    <3> QED BY <2>1, <3>1, SumMonotonic
  <2>6. sum \in Nat
    BY <2>1, <2>3, SumProperties
  <2>7. inquiry.cost = sum
    BY DEF InquiryInv
  <2> HIDE DEF n, m, sum, ones
  <2>8. sum \in 0..n
    BY <2>2, <2>4, <2>5, <2>6
  <2> QED BY <2>7, <2>8 DEF n
<1>2. InquiryTypeOK
  BY <1>1 DEF InquiryTypeOK, InquiryInv, Inquiries, ShotStates
<1>3. inquiry.row = "complete" =>
        /\ kept = {s \in AllShots : shots[s].st # "none"}
        /\ inquiry.cost = MapThenSumSet(LAMBDA s : shots[s].cost, kept)
  <2>1. kept \in SUBSET AllShots /\ inquiry.cost = SumOf(ShotCosts, kept)
    BY DEF InquiryInv
  <2>2. inquiry.cost = MapThenSumSet(LAMBDA s : shots[s].cost, kept)
    BY <2>1, ShotCostsAddUp
  <2>3. inquiry.row = "complete" => kept = {s \in AllShots : shots[s].st # "none"}
    BY DEF InquiryInv
  <2> QED BY <2>2, <2>3
<1>4. BornOut(inquiry.label)
  BY DEF InquiryInv
<1>5. VerdictsAreSupported
  BY <1>3, <1>4 DEF VerdictsAreSupported, BornOut, Departs
<1> QED BY <1>2, <1>5

(*****************************************************************************)
(* ProbeCycles: an alert of the probes rests on the calls of a cycle.        *)
(*****************************************************************************)

LegLists == {s \in Seq(Vias) : Len(s) <= 2}
CycleStates == [pc : {"new", "call", "store", "baseline", "compare", "done"}, legs : LegLists,
                at : Nat, reply : ReplyType, streak : Nat,
                replies : [Prompts -> [Legs -> ReplyType]]]
AlertTypes == {"auth_expired", "model_mismatch", "cluster", "divergence"}

\* The call a cycle is at is one of its suite over one of its legs, and the streak it has read is
\* no longer than the anomalies it was shown.
PromptOf(x) == 1 + ((x.at - 1) % Len(ProbeSuite))
ViaOf(x) == x.legs[1 + ((x.at - 1) \div Len(ProbeSuite))]
BaselineOf(x) == <<ViaOf(x), PromptOf(x)>>
CycleSound(x, counts) ==
  /\ x.pc = "new" => x.at = 1
  /\ x.pc \in {"call", "store", "baseline"} => x.at \in 1..Len(x.legs) * Len(ProbeSuite)
  /\ x.pc = "baseline" => x.streak <= counts[BaselineOf(x)]

\* Both legs of a prompt answered, differently.
LegsDiffer(x) ==
  \E p \in Prompts : /\ \A l \in Legs : ~x.replies[p][l].failed
                     /\ x.replies[p]["sub"] # x.replies[p]["metered"]

ProbeInv ==
  /\ cycles \in [Cycles -> CycleStates]
  /\ streaks \in [Baselines -> Nat] /\ anomalies \in [Baselines -> Nat]
  /\ raised \subseteq Cycles \X AlertTypes
  /\ \A c \in Cycles : CycleSound(cycles[c], anomalies)
  /\ \A c \in Cycles : <<c, "divergence">> \in raised =>
       cycles[c].pc = "done" /\ LegsDiffer(cycles[c])
  /\ \A b \in Baselines : streaks[b] <= anomalies[b]

\* A target is probed over two transports at most.
LEMMA TransportsAreShort ==
  ASSUME NEW target, NEW oauth \in BOOLEAN, NEW metered \in BOOLEAN
  PROVE  TransportsFor(target, oauth, metered) \in LegLists
<1> DEFINE o == "openrouter"
           a == "anthropic-oauth"
           c == "chatgpt-oauth"
           m == "openai-metered"
           n == "anthropic-metered"
<1>1. o \in Vias /\ a \in Vias /\ c \in Vias /\ m \in Vias /\ n \in Vias
  BY DEF Vias, Subscriptions
<1>2. /\ <<>> \in LegLists /\ \A v \in Vias : <<v>> \in LegLists
      /\ \A v, w \in Vias : <<v>> \o <<w>> \in LegLists
      /\ \A v \in Vias : <<v>> \o <<>> \in LegLists /\ <<>> \o <<v>> \in LegLists
      /\ <<>> \o <<>> \in LegLists
  BY DEF LegLists
<1> HIDE DEF o, a, c, m, n
<1>3. CASE target = "routed claude"
  BY <1>1, <1>2, <1>3 DEF TransportsFor, o, a
<1>4. CASE target = "claude"
  BY <1>1, <1>2, <1>4 DEF TransportsFor, a, n
<1>5. CASE target = "openai"
  BY <1>1, <1>2, <1>5 DEF TransportsFor, c, m
<1>6. CASE target = "routed other"
  BY <1>1, <1>2, <1>6 DEF TransportsFor, o
<1>7. CASE target \notin {"routed claude", "claude", "openai", "routed other"}
  BY <1>2, <1>7 DEF TransportsFor
<1> QED BY <1>3, <1>4, <1>5, <1>6, <1>7

\* A list of transports is a short sequence.
LEMMA LegsCounted ==
  ASSUME NEW s \in LegLists
  PROVE  s \in Seq(Vias) /\ Len(s) \in 0..2 /\ (s # <<>> => Len(s) \in 1..2)
<1> DEFINE n == Len(s)
<1>1. s \in Seq(Vias) /\ n <= 2
  BY DEF LegLists
<1>2. n \in Nat /\ (s # <<>> => n # 0)
  BY <1>1, EmptySeq
<1> HIDE DEF n, LegLists
<1>3. n \in 0..2 /\ (s # <<>> => n \in 1..2)
  BY <1>1, <1>2
<1> QED BY <1>1, <1>3 DEF n

\* The suite has a call to make.
LEMMA SuiteLength == Len(ProbeSuite) \in Nat \ {0}
BY ProbeAssumption, EmptySeq

\* A call within the suites of the legs has a leg and a prompt.
LEMMA CallHasPlace ==
  ASSUME NEW x \in CycleStates, x.at \in 1..Len(x.legs) * Len(ProbeSuite)
  PROVE  ViaOf(x) \in Vias /\ PromptOf(x) \in Prompts /\ BaselineOf(x) \in Baselines
<1> DEFINE n == Len(ProbeSuite)
           k == Len(x.legs)
           i == x.at - 1
<1>1. n \in Nat \ {0} /\ k \in 0..2 /\ x.legs \in Seq(Vias) /\ x.at \in Nat
  BY SuiteLength, LegsCounted DEF CycleStates
<1>2. i \in Nat /\ i < k * n
  <2> DEFINE m == k * n
             a == x.at
  <2>1. a \in 1..m /\ a \in Nat
    BY <1>1
  <2>2. m \in Nat
    <3> HIDE DEF k, n
    <3> QED BY <1>1
  <2>3. i = a - 1
    OBVIOUS
  <2> HIDE DEF m, a, i
  <2>4. i \in Nat /\ i < m
    BY <2>1, <2>2, <2>3
  <2> QED BY <2>4 DEF m
<1>3. i % n \in 0..n - 1 /\ 1 + (i % n) \in 1..n
  <2> HIDE DEF n, i
  <2> QED BY <1>1, <1>2
<1>4. 1 + (i \div n) \in 1..k
  <2> HIDE DEF n, i, k
  <2>1. CASE k = 0
    BY <1>1, <1>2, <2>1
  <2>2. CASE k = 1
    BY <1>1, <1>2, <2>2
  <2>3. CASE k = 2
    <3>1. i < n + n
      BY <1>1, <1>2, <2>3
    <3> QED BY <1>1, <1>2, <2>3, <3>1
  <2> QED BY <1>1, <2>1, <2>2, <2>3
<1>5. ViaOf(x) \in Vias
  BY <1>1, <1>4 DEF ViaOf
<1>6. PromptOf(x) \in Prompts
  BY <1>3 DEF PromptOf, Prompts
<1> QED BY <1>5, <1>6 DEF BaselineOf, Baselines

\* The cycle that has not begun is typed.
LEMMA NotProbingTyped ==
  NotProbing \in CycleStates /\ NotProbing.pc = "new" /\ NotProbing.at = 1
BY DEF NotProbing, CycleStates, LegLists, NoReply, ReplyType

\* The invariant holds at the start.
LEMMA ProbeInitially == ProbeInit => ProbeInv
BY NotProbingTyped DEF ProbeInit, ProbeInv, CycleSound

\* A step of one cycle.
LEMMA CycleMoves ==
  ASSUME ProbeInv, NEW c \in Cycles, NEW x \in CycleStates, ProbeTo(c, x), CycleSound(x, anomalies'),
         cycles[c].pc # "done",
         streaks' \in [Baselines -> Nat], anomalies' \in [Baselines -> Nat],
         \A b \in Baselines : anomalies[b] <= anomalies'[b] /\ streaks'[b] <= anomalies'[b],
         raised' \subseteq raised \union {<<c, t>> : t \in AlertTypes},
         <<c, "divergence">> \in raised' \ raised => x.pc = "done" /\ LegsDiffer(x)
  PROVE  ProbeInv'
<1>1. /\ cycles \in [Cycles -> CycleStates] /\ anomalies \in [Baselines -> Nat]
      /\ cycles' = [cycles EXCEPT ![c] = x]
  BY DEF ProbeInv, ProbeTo
<1>2. /\ cycles' \in [Cycles -> CycleStates]
      /\ \A d \in Cycles : cycles'[d] = IF d = c THEN x ELSE cycles[d]
  BY <1>1
<1>3. ASSUME NEW y \in CycleStates, CycleSound(y, anomalies) PROVE CycleSound(y, anomalies')
  <2>1. CASE y.pc = "baseline"
    <3>1. y.at \in 1..Len(y.legs) * Len(ProbeSuite) /\ y.streak <= anomalies[BaselineOf(y)]
      BY <1>3, <2>1 DEF CycleSound
    <3>2. BaselineOf(y) \in Baselines /\ y.streak \in Nat
      BY <3>1, CallHasPlace DEF CycleStates
    <3>3. y.streak <= anomalies'[BaselineOf(y)]
      BY <1>1, <3>1, <3>2
    <3> QED BY <2>1, <3>1, <3>3 DEF CycleSound
  <2> QED BY <1>3, <2>1 DEF CycleSound
<1>4. \A d \in Cycles : CycleSound(cycles'[d], anomalies')
  <2> SUFFICES ASSUME NEW d \in Cycles PROVE CycleSound(cycles'[d], anomalies')
    OBVIOUS
  <2>1. CASE d = c
    BY <1>2, <2>1
  <2>2. CASE d # c
    BY <1>1, <1>2, <1>3, <2>2 DEF ProbeInv
  <2> QED BY <2>1, <2>2
<1>5. \A d \in Cycles : <<d, "divergence">> \in raised' =>
        cycles'[d].pc = "done" /\ LegsDiffer(cycles'[d])
  BY <1>1, <1>2 DEF ProbeInv
<1>6. \A d \in Cycles : <<d, "divergence">> \in raised' =>
        cycles'[d].pc = "done" /\ LegsDiffer(cycles[d])'
  BY <1>5 DEF LegsDiffer
<1>7. raised' \subseteq Cycles \X AlertTypes
  BY DEF ProbeInv
<1> QED BY <1>2, <1>4, <1>6, <1>7 DEF ProbeInv

\* Every step keeps the invariant.
LEMMA ProbeStep == ProbeInv /\ [ProbeNext]_probeVars => ProbeInv'
<1> SUFFICES ASSUME ProbeInv, [ProbeNext]_probeVars PROVE ProbeInv'
  OBVIOUS
<1>1. /\ cycles \in [Cycles -> CycleStates]
      /\ streaks \in [Baselines -> Nat] /\ anomalies \in [Baselines -> Nat]
      /\ raised \subseteq Cycles \X AlertTypes
      /\ \A c \in Cycles : CycleSound(cycles[c], anomalies)
      /\ \A b \in Baselines : streaks[b] <= anomalies[b]
  BY DEF ProbeInv
<1>2. CASE UNCHANGED probeVars
  BY <1>1, <1>2 DEF probeVars, ProbeInv, LegsDiffer
<1>u. ASSUME UNCHANGED <<streaks, anomalies>>
      PROVE  /\ streaks' \in [Baselines -> Nat] /\ anomalies' \in [Baselines -> Nat]
             /\ \A b \in Baselines : anomalies[b] <= anomalies'[b] /\ streaks'[b] <= anomalies'[b]
  BY <1>1, <1>u
<1>r. ASSUME NEW c \in Cycles, NEW t \in AlertTypes \ {"divergence"},
             \/ UNCHANGED raised \/ Raise(c, t)
      PROVE  /\ raised' \subseteq raised \union {<<c, s>> : s \in AlertTypes}
             /\ <<c, "divergence">> \notin raised' \ raised
  BY <1>r DEF Raise
<1>3. ASSUME NEW c \in Cycles, BeginCycle(c) PROVE ProbeInv'
  <2>1. PICK target \in ProbeTargets, oauth \in BOOLEAN, metered \in BOOLEAN :
          LET legs == TransportsFor(target, oauth, metered) IN
          /\ ProbeTo(c, [cycles[c] EXCEPT !.legs = legs,
                                          !.pc = IF legs = <<>> THEN "done" ELSE "call"])
          /\ IF \A i \in DOMAIN legs : legs[i] \notin Subscriptions
             THEN Raise(c, "auth_expired") ELSE UNCHANGED raised
    BY <1>3 DEF BeginCycle
  <2> DEFINE legs == TransportsFor(target, oauth, metered)
             pc == IF legs = <<>> THEN "done" ELSE "call"
             x == [cycles[c] EXCEPT !.legs = legs, !.pc = pc]
  <2>2. /\ cycles[c].pc = "new" /\ cycles[c] \in CycleStates
        /\ UNCHANGED <<streaks, anomalies>>
    BY <1>1, <1>3 DEF BeginCycle, ProbeAt
  <2>3. ProbeTo(c, x) /\ (UNCHANGED raised \/ Raise(c, "auth_expired"))
    BY <2>1
  <2>4. legs \in LegLists /\ pc \in {"done", "call"} /\ (legs = <<>> => pc = "done")
    BY TransportsAreShort
  <2> HIDE DEF legs, pc
  <2>5. x \in CycleStates /\ x.legs = legs /\ x.pc = pc /\ x.at = cycles[c].at
    BY <2>2, <2>4 DEF CycleStates
  <2>a. "auth_expired" \in AlertTypes \ {"divergence"}
    BY DEF AlertTypes
  <2>6. CycleSound(x, anomalies')
    <3>1. x.at = 1
      BY <1>1, <2>2, <2>5 DEF CycleSound
    <3>2. legs # <<>> => 1 \in 1..Len(legs) * Len(ProbeSuite)
      <4> SUFFICES ASSUME legs # <<>> PROVE 1 \in 1..Len(legs) * Len(ProbeSuite)
        OBVIOUS
      <4>1. Len(legs) \in 1..2
        BY <2>4, LegsCounted
      <4> DEFINE k == Len(legs)
                 n == Len(ProbeSuite)
      <4>2. k \in 1..2 /\ n \in Nat \ {0}
        BY <4>1, SuiteLength
      <4> HIDE DEF k, n
      <4>3. 1 \in 1..k * n
        <5>1. CASE k = 1
          BY <4>2, <5>1
        <5>2. CASE k = 2
          BY <4>2, <5>2
        <5> QED BY <4>2, <5>1, <5>2
      <4> QED BY <4>3 DEF k, n
    <3> QED BY <2>4, <2>5, <3>1, <3>2 DEF CycleSound
  <2> HIDE DEF x
  <2>7. /\ raised' \subseteq raised \union {<<c, s>> : s \in AlertTypes}
        /\ <<c, "divergence">> \notin raised' \ raised
    BY <1>r, <2>3, <2>a
  <2> QED BY <1>u, <2>2, <2>3, <2>5, <2>6, <2>7, CycleMoves
<1>4. ASSUME NEW c \in Cycles, CallLeg(c) PROVE ProbeInv'
  <2>1. PICK reply \in Replies : ProbeTo(c, [cycles[c] EXCEPT !.pc = "store", !.reply = reply])
    BY <1>4 DEF CallLeg
  <2> DEFINE x == [cycles[c] EXCEPT !.pc = "store", !.reply = reply]
  <2>2. /\ cycles[c].pc = "call" /\ cycles[c] \in CycleStates /\ CycleSound(cycles[c], anomalies)
        /\ UNCHANGED <<streaks, anomalies, raised>>
    BY <1>1, <1>4 DEF CallLeg, ProbeAt
  <2>3. reply \in ReplyType
    BY ProbeAssumption
  <2>4. x \in CycleStates /\ x.legs = cycles[c].legs /\ x.at = cycles[c].at /\ x.pc = "store"
    BY <2>2, <2>3 DEF CycleStates
  <2>5. ProbeTo(c, x)
    BY <2>1
  <2> HIDE DEF x
  <2>6. CycleSound(x, anomalies')
    BY <2>2, <2>4 DEF CycleSound
  <2> QED BY <1>u, <2>2, <2>4, <2>5, <2>6, CycleMoves
<1>5. ASSUME NEW c \in Cycles, NEW reply \in ReplyType, cycles[c].pc \in {"store", "baseline"}
      PROVE  LET x == NextCall(c, reply) IN x \in CycleStates /\ CycleSound(x, anomalies')
  <2> DEFINE pc == IF cycles[c].at = Calls(c) THEN "compare" ELSE "call"
             p == PromptAt(c)
             l == LegOf(ViaAt(c))
             rs == [cycles[c].replies EXCEPT ![p][l] = reply]
             at == cycles[c].at + 1
             x == [cycles[c] EXCEPT !.replies = rs, !.at = at, !.reply = NoReply, !.streak = 0,
                                    !.pc = pc]
  <2>1. cycles[c] \in CycleStates /\ CycleSound(cycles[c], anomalies)
    BY <1>1
  <2>2. NextCall(c, reply) = x
    BY <2>1 DEF NextCall, CycleStates
  <2>3. rs \in [Prompts -> [Legs -> ReplyType]]
    <3>1. cycles[c].replies \in [Prompts -> [Legs -> ReplyType]] /\ l \in Legs
      BY <2>1 DEF CycleStates, LegOf, Legs
    <3> DEFINE r == cycles[c].replies
               rp == [r[p] EXCEPT ![l] = reply]
    <3>2. rs = [r EXCEPT ![p] = rp]
      OBVIOUS
    <3> HIDE DEF r
    <3>3. p \in Prompts => rp \in [Legs -> ReplyType]
      BY <3>1 DEF r
    <3> HIDE DEF rp, p, l
    <3> QED BY <3>1, <3>2, <3>3 DEF r
  <2>4. at \in Nat /\ NoReply \in ReplyType /\ pc \in {"compare", "call"}
    BY <2>1 DEF CycleStates, NoReply, ReplyType
  <2>5. x \in CycleStates /\ x.pc = pc /\ x.at = at /\ x.legs = cycles[c].legs
    <3> HIDE DEF pc, at, rs
    <3> QED BY <2>1, <2>3, <2>4 DEF CycleStates
  <2>6. pc = "call" => at \in 1..Len(cycles[c].legs) * Len(ProbeSuite)
    <3> DEFINE m == Len(cycles[c].legs) * Len(ProbeSuite)
    <3>1. m \in Nat
      <4>1. Len(cycles[c].legs) \in Nat
        BY <2>1, LegsCounted DEF CycleStates
      <4> QED BY <4>1, SuiteLength
    <3>2. cycles[c].at \in 1..m
      BY <1>5, <2>1 DEF CycleSound
    <3>3. pc = "call" => cycles[c].at # m
      BY DEF Calls
    <3> HIDE DEF m
    <3>4. pc = "call" => at \in 1..m
      <4> HIDE DEF pc
      <4> QED BY <3>1, <3>2, <3>3
    <3> QED BY <3>4 DEF m
  <2> HIDE DEF x, pc, at
  <2>7. CycleSound(x, anomalies')
    BY <2>4, <2>5, <2>6 DEF CycleSound
  <2> QED BY <2>2, <2>5, <2>7
<1>6. ASSUME NEW c \in Cycles, StoreRun(c) PROVE ProbeInv'
  <2> DEFINE reply == cycles[c].reply
             x == NextCall(c, reply)
             y == [cycles[c] EXCEPT !.pc = "baseline", !.streak = streaks[BaselineAt(c)]]
  <2>1. /\ cycles[c].pc = "store" /\ cycles[c] \in CycleStates /\ CycleSound(cycles[c], anomalies)
        /\ UNCHANGED <<streaks, anomalies>> /\ reply \in ReplyType
    BY <1>1, <1>6 DEF StoreRun, ProbeAt, CycleStates
  <2>2. ProbeTo(c, x) \/ ProbeTo(c, y)
    BY <1>6 DEF StoreRun
  <2>3. "model_mismatch" \in AlertTypes \ {"divergence"}
    BY DEF AlertTypes
  <2>4. UNCHANGED raised \/ Raise(c, "model_mismatch")
    BY <1>6 DEF StoreRun
  <2>5. /\ raised' \subseteq raised \union {<<c, s>> : s \in AlertTypes}
        /\ <<c, "divergence">> \notin raised' \ raised
    BY <1>r, <2>3, <2>4
  <2>6. x \in CycleStates /\ CycleSound(x, anomalies')
    BY <1>5, <2>1
  <2>7. y \in CycleStates /\ CycleSound(y, anomalies')
    <3> DEFINE b == BaselineOf(cycles[c])
               n == streaks[b]
    <3>1. cycles[c].at \in 1..Len(cycles[c].legs) * Len(ProbeSuite)
      BY <2>1 DEF CycleSound
    <3>2. b \in Baselines /\ b = BaselineAt(c)
      BY <2>1, <3>1, CallHasPlace DEF BaselineOf, BaselineAt, ViaOf, ViaAt, PromptOf, PromptAt
    <3>3. n \in Nat /\ n <= anomalies[b]
      BY <1>1, <3>2
    <3>4. y = [cycles[c] EXCEPT !.pc = "baseline", !.streak = n]
      BY <3>2
    <3> HIDE DEF b, n
    <3>5. /\ y \in CycleStates /\ y.pc = "baseline" /\ y.streak = n /\ y.at = cycles[c].at
          /\ y.legs = cycles[c].legs
      BY <2>1, <3>3, <3>4 DEF CycleStates
    <3>6. BaselineOf(y) = b
      BY <3>5 DEF b, BaselineOf, ViaOf, PromptOf
    <3> HIDE DEF y
    <3> QED BY <2>1, <3>1, <3>3, <3>5, <3>6 DEF CycleSound
  <2> HIDE DEF x, y
  <2> QED BY <1>u, <2>1, <2>2, <2>5, <2>6, <2>7, CycleMoves
<1>7. ASSUME NEW c \in Cycles, FeedProbe(c) PROVE ProbeInv'
  <2>1. PICK anomaly \in BOOLEAN :
          LET streak == IF anomaly THEN cycles[c].streak + 1 ELSE 0 IN
          /\ streaks' = [streaks EXCEPT ![BaselineAt(c)] = streak]
          /\ anomalies' = [anomalies EXCEPT ![BaselineAt(c)] = IF anomaly THEN @ + 1 ELSE @]
          /\ IF streak >= ProbeCluster THEN Raise(c, "cluster") ELSE UNCHANGED raised
    BY <1>7 DEF FeedProbe
  <2> DEFINE reply == cycles[c].reply
             x == NextCall(c, reply)
             b == BaselineOf(cycles[c])
             streak == IF anomaly THEN cycles[c].streak + 1 ELSE 0
             count == IF anomaly THEN anomalies[b] + 1 ELSE anomalies[b]
  <2>2. /\ cycles[c].pc = "baseline" /\ cycles[c] \in CycleStates /\ CycleSound(cycles[c], anomalies)
        /\ ProbeTo(c, x) /\ reply \in ReplyType
    BY <1>1, <1>7 DEF FeedProbe, ProbeAt, CycleStates
  <2>3. x \in CycleStates /\ CycleSound(x, anomalies')
    BY <1>5, <2>2
  <2>4. cycles[c].at \in 1..Len(cycles[c].legs) * Len(ProbeSuite) /\ cycles[c].streak <= anomalies[b]
    BY <2>2 DEF CycleSound
  <2>5. b \in Baselines /\ b = BaselineAt(c)
    BY <2>2, <2>4, CallHasPlace DEF BaselineOf, BaselineAt, ViaOf, ViaAt, PromptOf, PromptAt
  <2>6. streaks' = [streaks EXCEPT ![b] = streak] /\ anomalies' = [anomalies EXCEPT ![b] = count]
    BY <1>1, <2>1, <2>5
  <2>7. cycles[c].streak \in Nat /\ anomalies[b] \in Nat
    BY <1>1, <2>2, <2>5 DEF CycleStates
  <2> HIDE DEF b
  <2>8. streak \in Nat /\ count \in Nat /\ streak <= count /\ anomalies[b] <= count
    BY <2>4, <2>7
  <2> HIDE DEF streak, count
  <2>9. /\ streaks' \in [Baselines -> Nat] /\ anomalies' \in [Baselines -> Nat]
        /\ \A d \in Baselines : anomalies[d] <= anomalies'[d] /\ streaks'[d] <= anomalies'[d]
    BY <1>1, <2>5, <2>6, <2>8
  <2>10. UNCHANGED raised \/ Raise(c, "cluster")
    BY <2>1
  <2>11. "cluster" \in AlertTypes \ {"divergence"}
    BY DEF AlertTypes
  <2>12. /\ raised' \subseteq raised \union {<<c, s>> : s \in AlertTypes}
         /\ <<c, "divergence">> \notin raised' \ raised
    BY <1>r, <2>10, <2>11
  <2> HIDE DEF x
  <2> QED BY <2>2, <2>3, <2>9, <2>12, CycleMoves
<1>d. ASSUME NEW c \in Cycles, cycles[c].pc # "done"
      PROVE  LET x == [cycles[c] EXCEPT !.pc = "done"]
             IN x \in CycleStates /\ CycleSound(x, anomalies') /\ x.pc = "done" /\ x.replies = cycles[c].replies
  <2> DEFINE x == [cycles[c] EXCEPT !.pc = "done"]
  <2>1. x \in CycleStates /\ x.pc = "done" /\ x.replies = cycles[c].replies
    BY <1>1 DEF CycleStates
  <2> HIDE DEF x
  <2>2. CycleSound(x, anomalies')
    BY <2>1 DEF CycleSound
  <2> QED BY <2>1, <2>2 DEF x
<1>8. ASSUME NEW c \in Cycles, AbortCycle(c) PROVE ProbeInv'
  <2> DEFINE x == [cycles[c] EXCEPT !.pc = "done"]
  <2>1. /\ cycles[c].pc # "done" /\ ProbeTo(c, x) /\ UNCHANGED <<streaks, anomalies, raised>>
    BY <1>8 DEF AbortCycle
  <2>2. x \in CycleStates /\ CycleSound(x, anomalies')
    BY <1>d, <2>1
  <2> HIDE DEF x
  <2> QED BY <1>u, <2>1, <2>2, CycleMoves
<1>9. ASSUME NEW c \in Cycles, CompareLegs(c) PROVE ProbeInv'
  <2> DEFINE x == [cycles[c] EXCEPT !.pc = "done"]
             rs == cycles[c].replies
  <2>1. /\ cycles[c].pc = "compare" /\ ProbeTo(c, x) /\ UNCHANGED <<streaks, anomalies>>
    BY <1>9 DEF CompareLegs, ProbeAt
  <2>2. x \in CycleStates /\ CycleSound(x, anomalies') /\ x.pc = "done" /\ x.replies = rs
    BY <1>d, <2>1
  <2>3. "divergence" \in AlertTypes
    BY DEF AlertTypes
  <2>4. CASE \E p \in Prompts : Diverges(p, rs[p]["sub"], rs[p]["metered"])
    <3>1. PICK p \in Prompts : Diverges(p, rs[p]["sub"], rs[p]["metered"])
      BY <2>4
    <3> DEFINE sub == rs[p]["sub"]
               met == rs[p]["metered"]
    <3>2. sub \in ReplyType /\ met \in ReplyType
      BY <1>1 DEF CycleStates, Legs
    <3>3. ~sub.failed /\ ~met.failed /\ Differs(p, sub, met)
      BY <3>1 DEF Diverges
    <3>4. sub # met
      <4> HIDE DEF sub, met
      <4>1. sub.level \in Int /\ met.level \in Int
        BY <3>2 DEF ReplyType
      <4> QED BY <3>2, <3>3, <4>1 DEF Differs
    <3>5. LegsDiffer(x)
      BY <2>2, <3>3, <3>4 DEF LegsDiffer, Legs
    <3>6. raised' \subseteq raised \union {<<c, s>> : s \in AlertTypes}
      BY <1>9, <2>3 DEF CompareLegs, Raise
    <3> HIDE DEF x
    <3> QED BY <1>u, <2>1, <2>2, <3>5, <3>6, CycleMoves
  <2>5. CASE ~\E p \in Prompts : Diverges(p, rs[p]["sub"], rs[p]["metered"])
    <3>1. UNCHANGED raised
      BY <1>9, <2>5 DEF CompareLegs
    <3> HIDE DEF x
    <3> QED BY <1>u, <2>1, <2>2, <3>1, CycleMoves
  <2> QED BY <2>4, <2>5
<1> QED BY <1>2, <1>3, <1>4, <1>6, <1>7, <1>8, <1>9 DEF ProbeNext

\* The invariant is as strong as what the runs check.
LEMMA ProbePromises == ProbeInv => ProbeTypeOK /\ ProbeAlertsAreGrounded
BY DEF ProbeInv, ProbeTypeOK, CycleStates, AlertTypes, LegsDiffer, ProbeAlertsAreGrounded

==============================================================================
