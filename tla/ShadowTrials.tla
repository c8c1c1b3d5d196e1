----------------------------- MODULE ShadowTrials -----------------------------
(***************************************************************************)
(* Champion and challenger (shadow.py): a finished call is answered again  *)
(* by another model, or by its own from a pruned or an improved prompt,    *)
(* and a judge compares the answers without knowing whose they are.        *)
(*                                                                         *)
(* A step of a trial ends where the code awaits.  The day does not change. *)
(***************************************************************************)
EXTENDS Integers, FiniteSets

CONSTANTS
  Trials,         \* trials that may overlap
  Champions,      \* finished calls, members of ChampionType
  TrialCap,       \* the daily cap
  ChallengerCost, \* what an answer of the challenger costs at most
  CompareCost,    \* what a comparison costs at most
  TrialBound      \* cost recorded, as far as it is counted

\* What the gates look at: the class of the decision row, whether the call is a
\* machine probe or declares tools, whether its prompt is nothing but text and
\* its answer can be read.
ChampionType == [class : {"none", "pii", "secret"}, probe : BOOLEAN, tools : BOOLEAN,
                 text : BOOLEAN]

ASSUME ShadowAssumption ==
  /\ Champions \subseteq ChampionType /\ Champions # {}
  /\ TrialCap \in Nat /\ ChallengerCost \in Nat /\ CompareCost \in Nat /\ TrialBound \in Nat
  /\ IsFiniteSet(Trials)

VARIABLES
  shadowOn,    \* the stored settings: kinds of trial that are enabled
  trialSpent,  \* recorded cost of the day: of sampled trials, of simulations
  trial        \* trial -> how far it got

shadowVars == <<shadowOn, trialSpent, trial>>

\* "model" and "prompt_diet" are sampled, "prompt_improve" is a click.
Sampled == {"model", "prompt_diet"}
Verdicts == {"champion", "challenger", "tie", "error"}
NoTrial == [pc |-> "idle", kind |-> "model", call |-> CHOOSE c \in Champions : TRUE,
            first |-> TRUE, cost |-> 0, preferred |-> "error", verdict |-> "error"]

ShadowTypeOK ==
  /\ shadowOn \subseteq Sampled
  /\ trialSpent \in [sampled : 0..TrialBound, simulated : 0..TrialBound]
  /\ trial \in [Trials -> [pc : {"idle", "gate", "cap", "challenge", "compare", "record"},
                           kind : Sampled \union {"prompt_improve"}, call : Champions,
                           first : BOOLEAN, cost : 0..(ChallengerCost + CompareCost),
                           preferred : Verdicts, verdict : Verdicts]]

ShadowInit ==
  /\ shadowOn = {}
  /\ trialSpent = [sampled |-> 0, simulated |-> 0]
  /\ trial = [t \in Trials |-> NoTrial]

-----------------------------------------------------------------------------
TrialAt(t, pc) == trial[t].pc = pc
TrialGo(t, pc) == trial' = [trial EXCEPT ![t].pc = pc]
TrialEnd(t) == trial' = [trial EXCEPT ![t] = NoTrial]

\* process_shadow reads the settings each time; if it cannot, nothing is enabled.
\* One of the enabled kinds is drawn.  A simulation does not ask.
BeginTrial(t, kind, call) ==
  /\ TrialAt(t, "idle")
  /\ kind \in shadowOn \union {"prompt_improve"}
  /\ trial' = [trial EXCEPT ![t] = [NoTrial EXCEPT !.pc = "gate", !.kind = kind, !.call = call]]
  /\ UNCHANGED <<shadowOn, trialSpent>>

\* The gates of process_shadow and of simulate_improvement.
Mirrorable(kind, call) ==
  /\ call.class # "secret" /\ call.text
  /\ kind \in Sampled => ~call.probe /\ ~call.tools

\* Sampling, the size of the prompt or a diet that prunes nothing may say no.
GateTrial(t) ==
  /\ TrialAt(t, "gate")
  /\ \/ /\ Mirrorable(trial[t].kind, trial[t].call)
        /\ TrialGo(t, IF trial[t].kind \in Sampled THEN "cap" ELSE "challenge")
     \/ TrialEnd(t)
  /\ UNCHANGED <<shadowOn, trialSpent>>

\* The spend of the day counts simulations too, though they are not stopped by it.
CheckTrialCap(t) ==
  /\ TrialAt(t, "cap")
  /\ IF TrialCap > 0 /\ trialSpent.sampled + trialSpent.simulated >= TrialCap THEN TrialEnd(t)
     ELSE TrialGo(t, "challenge")
  /\ UNCHANGED <<shadowOn, trialSpent>>

\* call_challenger, which may ask a second provider; without an answer the trial
\* is an error.  With one, a coin decides which answer the judge sees first.
Challenge(t) ==
  /\ TrialAt(t, "challenge")
  /\ \/ \E first \in BOOLEAN, cost \in {0, ChallengerCost} :
          trial' = [trial EXCEPT ![t].pc = "compare", ![t].first = first, ![t].cost = cost]
     \/ TrialGo(t, "record")
  /\ UNCHANGED <<shadowOn, trialSpent>>

\* What the judge says if it prefers a side, given which answer it saw first.
Says(preferred, first) ==
  IF preferred = "tie" THEN "tie" ELSE IF (preferred = "champion") = first THEN "1" ELSE "2"

\* Mutant: the order of the answers is forgotten.
MappedUnswapped(winner, first) ==
  IF winner = "tie" THEN "tie" ELSE IF winner = "1" THEN "champion" ELSE "challenger"

Mapped(winner, first) ==
  IF winner = "tie" THEN "tie" ELSE IF (winner = "1") = first THEN "champion" ELSE "challenger"

\* judge_pair; a judge that fails leaves the verdict at error.
Compare(t) ==
  /\ TrialAt(t, "compare")
  /\ \/ \E preferred \in Verdicts \ {"error"}, cost \in {0, CompareCost} :
          trial' = [trial EXCEPT ![t].pc = "record", ![t].preferred = preferred,
                      ![t].cost = @ + cost,
                      ![t].verdict = Mapped(Says(preferred, trial[t].first), trial[t].first)]
     \/ TrialGo(t, "record")
  /\ UNCHANGED <<shadowOn, trialSpent>>

\* _insert_trial, the first time the cost is recorded.
RecordTrial(t) ==
  /\ TrialAt(t, "record")
  /\ LET account == IF trial[t].kind \in Sampled THEN "sampled" ELSE "simulated"
     IN /\ trialSpent[account] + trial[t].cost <= TrialBound
        /\ trialSpent' = [trialSpent EXCEPT ![account] = @ + trial[t].cost]
  /\ TrialEnd(t)
  /\ UNCHANGED shadowOn

\* An exception is swallowed, a crash forgets the trial.
Swallow(t) ==
  /\ trial[t] # NoTrial
  /\ TrialEnd(t)
  /\ UNCHANGED <<shadowOn, trialSpent>>

SaveShadow ==
  /\ shadowOn' \in SUBSET Sampled
  /\ UNCHANGED <<trialSpent, trial>>

ShadowNext ==
  \/ \E t \in Trials :
       \/ \E kind \in Sampled \union {"prompt_improve"}, call \in Champions :
            BeginTrial(t, kind, call)
       \/ GateTrial(t) \/ CheckTrialCap(t) \/ Challenge(t) \/ Compare(t) \/ RecordTrial(t)
       \/ Swallow(t)
  \/ SaveShadow

ShadowSpec == ShadowInit /\ [][ShadowNext]_shadowVars

-----------------------------------------------------------------------------
\* A prompt classed secret is never sent to a challenger or to the judge of a
\* trial, neither sampled nor simulated (shadow.py:477, 639).
SecretsNotMirrored ==
  \A t \in Trials :
    trial[t].pc \in {"challenge", "compare", "record"} => trial[t].call.class # "secret"

\* The comparison is blind, its record is not: the verdict names the side the
\* judge preferred, whichever answer it was shown first (shadow.py:554-564).
VerdictNamesWinner ==
  \A t \in Trials : TrialAt(t, "record") => trial[t].verdict = trial[t].preferred

\* The cap is compared before a sampled trial and its cost recorded after it:
\* overlapping trials overshoot by what they cost, not by more (shadow.py:490-493).
TrialSpendBounded ==
  TrialCap > 0 =>
    trialSpent.sampled < TrialCap + Cardinality(Trials) * (ChallengerCost + CompareCost)

===============================================================================
