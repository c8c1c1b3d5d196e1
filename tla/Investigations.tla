---------------------------- MODULE Investigations ----------------------------
(***************************************************************************)
(* One drift investigation past its guard rails (drift_investigator.py):   *)
(* which transports it may use, the canary calls it sends through them, a  *)
(* few at a time, the rows it stores in the order the calls complete, and  *)
(* the verdict it draws from what came back.  The guard rails, the         *)
(* cooldown and the daily cap, are in DriftWatch.                          *)
(*                                                                         *)
(* What a canary measures is one of three levels: nothing, what the model  *)
(* used to do, or clearly more: 5% more tokens, a latency 25% off, an      *)
(* answer over 30 bytes, a refusal.                                        *)
(***************************************************************************)
EXTENDS Naturals, FiniteSets, FiniteSetsExt, Transports

CONSTANTS Canaries,    \* the prompts of a suite, the routing suite has one of them
          Parallel     \* how many calls may be out at once (four in the code)

ASSUME InvestigationAssumption == Parallel \in Nat \ {0} /\ IsFiniteSet(Canaries)

Suites == {"tokenizer", "verbosity", "refusal", "latency", "routing"}
Measures == 0..2     \* not measured, as ever, clearly more

VARIABLES inquiry,   \* the investigation: what it asks, how far it is, its row
          shots,     \* its canary calls
          kept       \* the shots whose rows are stored

inquiryVars == <<inquiry, shots, kept>>

\* The routing suite compares the transports, every other suite takes the first.
ChosenFor(suite, transports) ==
  IF suite = "routing" THEN {transports[i] : i \in DOMAIN transports} ELSE {transports[1]}
CanariesOf(suite) == IF suite = "routing" THEN {CHOOSE c \in Canaries : TRUE} ELSE Canaries

NoShot == [st |-> "none", failed |-> FALSE, level |-> 0, cost |-> 0]
Waiting == [NoShot EXCEPT !.st = "waiting"]
AllShots == Canaries \X Vias
Via(s) == s[2]

InquiryInit ==
  /\ inquiry \in [suite : Suites, baseline : Measures, pc : {"choose"}, row : {"none"},
                  label : {"none"}, cost : {0}]
  /\ shots = [s \in AllShots |-> NoShot]
  /\ kept = {}

\* Without a transport there is no row; otherwise the row is "running" before the calls.
ChooseTransports ==
  /\ inquiry.pc = "choose"
  /\ \E target \in Targets, oauth \in BOOLEAN, metered \in BOOLEAN :
       LET transports == TransportsFor(target, oauth, metered) IN
       IF transports = <<>>
       THEN inquiry' = [inquiry EXCEPT !.pc = "done"] /\ UNCHANGED shots
       ELSE /\ inquiry' = [inquiry EXCEPT !.pc = "shots", !.row = "running"]
            /\ shots' = [s \in AllShots |->
                           IF s \in CanariesOf(inquiry.suite)
                                      \X ChosenFor(inquiry.suite, transports)
                           THEN Waiting ELSE NoShot]
  /\ UNCHANGED kept

ShotsThat(st) == {s \in AllShots : shots[s].st = st}

SendShot(s) ==
  /\ inquiry.pc = "shots"
  /\ shots[s].st = "waiting"
  /\ Cardinality(ShotsThat("out")) < Parallel
  /\ shots' = [shots EXCEPT ![s].st = "out"]
  /\ UNCHANGED <<inquiry, kept>>

\* Subscriptions are free; a metered call is charged when its tokens are known and priced,
\* also when the rest of its answer could not be read.
Charges(s, failed, level) ==
  IF \/ Via(s) \in Subscriptions
     \/ ~failed /\ level = 0 /\ inquiry.suite \in {"tokenizer", "routing"}
  THEN {0} ELSE {0, 1}

\* A call ends with an answer or an error; an answer may leave out its token counts.
ShotReturns(s) ==
  /\ shots[s].st = "out"
  /\ \E failed \in BOOLEAN, level \in Measures :
       /\ failed => level = 0
       /\ ~failed /\ level = 0 => inquiry.suite \in {"tokenizer", "routing"}
       /\ \E cost \in Charges(s, failed, level) :
            shots' = [shots EXCEPT ![s] = [st |-> "back", failed |-> failed, level |-> level,
                                           cost |-> cost]]
  /\ UNCHANGED <<inquiry, kept>>

\* The runner takes the results in as they complete and stores a row of each.
KeepShot(s) ==
  /\ inquiry.pc = "shots"
  /\ shots[s].st = "back" /\ s \notin kept
  /\ kept' = kept \union {s}
  /\ inquiry' = [inquiry EXCEPT !.cost = @ + shots[s].cost]
  /\ UNCHANGED shots

\* A row that cannot be stored ends the investigation there: its own row stays "running",
\* its cost unrecorded, and the calls that are out come back to nobody.
LoseShot ==
  /\ inquiry.pc = "shots"
  /\ ShotsThat("back") \ kept # {}
  /\ inquiry' = [inquiry EXCEPT !.pc = "done"]
  /\ UNCHANGED <<shots, kept>>

\* Mutant: a call that failed counts as one that measured nothing.
UsableAny == kept

\* The results a suite can use.
UsableShots ==
  {s \in kept : /\ ~shots[s].failed
                /\ inquiry.suite = "tokenizer" => shots[s].level > 0}

\* Means and the median, against what the model did before; an answer that is always short
\* matches whatever the baseline was.
MeanIs(S, level) == MapThenSumSet(LAMBDA s : shots[s].level, S) = level * Cardinality(S)
MedianOf(S) == CHOOSE l \in Measures :
                 /\ Cardinality({s \in S : shots[s].level < l}) <= Cardinality(S) \div 2
                 /\ Cardinality({s \in S : shots[s].level <= l}) > Cardinality(S) \div 2

Against(matches, drift) ==
  IF inquiry.baseline = 0 THEN "no_baseline" ELSE IF matches THEN "matches_baseline" ELSE drift

\* Two transports that count the same prompt differently.
Wrapped(S) == \E s, t \in S : 0 < shots[s].level /\ shots[s].level < shots[t].level

\* _generate_verdict.  With one transport left, formatting its missing token count raises.
Verdict ==
  LET S == UsableShots IN
  IF S = {} THEN "inconclusive" ELSE
  CASE inquiry.suite = "tokenizer" -> Against(MeanIs(S, inquiry.baseline), "tokenizer_changed")
    [] inquiry.suite = "verbosity" -> Against(MeanIs(S, 1), "verbosity_drift")
    [] inquiry.suite = "latency" ->
         Against(MedianOf(S) = inquiry.baseline, "latency_drift")
    [] inquiry.suite = "refusal" -> IF MeanIs(S, 1) THEN "safety_normal" ELSE "safety_tightened"
    [] inquiry.suite = "routing" ->
         IF Cardinality({Via(s) : s \in S}) > 1
         THEN IF Wrapped(S) THEN "wrapping_detected" ELSE "routing_consistent"
         ELSE IF \A s \in S : shots[s].level = 0 THEN "raises" ELSE "single_transport"

\* The last result is in.  The verdict may also fail to read the baseline, and the row may
\* fail to be closed, which leaves it "running".
CloseInquiry ==
  /\ inquiry.pc = "shots"
  /\ \A s \in AllShots : shots[s].st # "none" => s \in kept
  /\ \/ /\ Verdict # "raises"
        /\ inquiry' = [inquiry EXCEPT !.pc = "done", !.row = "complete", !.label = Verdict]
     \/ inquiry' = [inquiry EXCEPT !.pc = "done", !.row = "failed"]
     \/ inquiry' = [inquiry EXCEPT !.pc = "done"]
  /\ UNCHANGED <<shots, kept>>

InquiryNext ==
  \/ ChooseTransports \/ LoseShot \/ CloseInquiry
  \/ \E s \in AllShots : SendShot(s) \/ ShotReturns(s) \/ KeepShot(s)

-----------------------------------------------------------------------------
(* Properties. *)

InquiryTypeOK ==
  /\ inquiry.suite \in Suites /\ inquiry.baseline \in Measures
  /\ inquiry.pc \in {"choose", "shots", "done"}
  /\ inquiry.row \in {"none", "running", "complete", "failed"}
  /\ inquiry.cost \in 0..Cardinality(AllShots)
  /\ shots \in [AllShots -> [st : {"none", "waiting", "out", "back"}, failed : BOOLEAN,
                             level : Measures, cost : {0, 1}]]
  /\ kept \subseteq AllShots

Accusations == {"tokenizer_changed", "verbosity_drift", "latency_drift", "safety_tightened",
                "wrapping_detected"}

\* A verdict that blames the provider rests on an answer that is stored, did not fail and by
\* itself departs from what it is compared with, and one that clears it on an answer and a
\* baseline; wrapping takes two transports.  Whatever the order of the calls and whichever of
\* them fail, a complete row has every call's row beside it and their cost in its sum
\* (drift_investigator.py:1320-1397).
VerdictsAreSupported ==
  /\ inquiry.label \in Accusations =>
       \E s, t \in kept :
         /\ ~shots[s].failed /\ ~shots[t].failed /\ shots[s].level > 0
         /\ CASE inquiry.suite \in {"tokenizer", "latency"} -> shots[s].level # inquiry.baseline
              [] inquiry.suite \in {"verbosity", "refusal"} -> shots[s].level > 1
              [] OTHER -> Via(s) # Via(t) /\ shots[t].level > shots[s].level
  /\ inquiry.label = "matches_baseline" =>
       inquiry.baseline > 0 /\ \E s \in kept : ~shots[s].failed /\ shots[s].level > 0
  /\ inquiry.row = "complete" =>
       /\ kept = {s \in AllShots : shots[s].st # "none"}
       /\ inquiry.cost = MapThenSumSet(LAMBDA s : shots[s].cost, kept)
=============================================================================
