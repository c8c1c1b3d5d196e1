------------------------------- MODULE BodyCapture -------------------------------
(***************************************************************************)
(* What is kept of the texts of a turn, and for how long: the class of the *)
(* user's text (classify.py, classify_llm.py), what capture.py keeps under *)
(* that class, the turns that the proxy reports (POST /v1/ingest), and the *)
(* hourly pruning (retention.py).  A text is abstracted to the marks the   *)
(* rules find in it.                                                       *)
(***************************************************************************)
EXTENDS Naturals

CONSTANTS Turns,      \* the turns
          Confirming, \* classify_llm is enabled
          Window,     \* body_retention_days, in ticks of the pruner
          BodyClock   \* bound: time

ASSUME BodyAssumption == Confirming \in BOOLEAN /\ Window \in Nat /\ BodyClock \in Nat

VARIABLES turn,      \* the turns: where they are, their text, their class
          decision,  \* route_decisions: the prompt kept and when
          result,    \* route_outcomes: the response kept and when
          pruner,    \* where the pruner is, when its pass began, and when its last complete one did
          now       \* the time

bodyVars == <<turn, decision, result, pruner, now>>

Marks == {"pii", "secret"}
Texts == [marks : SUBSET Marks, hinted : BOOLEAN]
NoBody == [kept |-> FALSE, marks |-> {}]
NoBodyRow == [body |-> NoBody, at |-> 0]
NotTurning == [pc |-> "idle", text |-> [marks |-> {}, hinted |-> FALSE], class |-> "none"]

BodyRowType == [body : [kept : BOOLEAN, marks : SUBSET Marks], at : 0..BodyClock]

BodyTypeOK ==
  /\ turn \in [Turns -> [pc : {"idle", "confirm", "decide", "answer", "ingested", "done"},
                         text : Texts, class : {"none", "pii", "secret"}]]
  /\ decision \in [Turns -> BodyRowType] /\ result \in [Turns -> BodyRowType]
  /\ pruner.pc \in {"due", "outcomes", "asleep"}
  /\ pruner.passed <= pruner.began /\ pruner.began <= now /\ now \in 0..BodyClock

BodyInit ==
  /\ turn = [t \in Turns |-> NotTurning]
  /\ decision = [t \in Turns |-> NoBodyRow]
  /\ result = [t \in Turns |-> NoBodyRow]
  /\ pruner = [pc |-> "due", began |-> 0, passed |-> 0]
  /\ now = 0

TurnAt(t, pc) == turn[t].pc = pc
TurnTo(t, state) == turn' = [turn EXCEPT ![t] = state]

-----------------------------------------------------------------------------
(* Classification.                                                         *)

\* The rules; a secret outweighs personal data.
ClassOf(marks) == IF "secret" \in marks THEN "secret" ELSE IF "pii" \in marks THEN "pii" ELSE "none"

Submit(t) ==
  /\ TurnAt(t, "idle")
  /\ \E text \in Texts : TurnTo(t, [pc |-> "confirm", text |-> text, class |-> ClassOf(text.marks)])
  /\ UNCHANGED <<decision, result, pruner, now>>

\* llm_confirm; a timeout, an error and an answer that is no class count as none.
Readings == {"none", "pii", "secret"}

\* Only a text the rules pass is asked about, so a class is never lowered.
ConfirmClass(t) ==
  /\ TurnAt(t, "confirm")
  /\ LET asks == Confirming /\ turn[t].class = "none" /\ turn[t].text.hinted
     IN \E verdict \in Readings :
          TurnTo(t, [turn[t] EXCEPT !.pc = "decide", !.class = IF asks THEN verdict ELSE @])
  /\ UNCHANGED <<decision, result, pruner, now>>

-----------------------------------------------------------------------------
(* Capture.                                                                *)

Redacted(marks, class) == IF class = "pii" THEN {} ELSE marks

\* capture_prompt, capture_tools and capture_response; an empty text is not kept either.
Kept(marks, class) ==
  IF class = "secret" THEN {NoBody} ELSE {NoBody, [kept |-> TRUE, marks |-> Redacted(marks, class)]}

\* All messages are kept, of which the class has seen the user's.
KeepPrompt(t) ==
  /\ TurnAt(t, "decide")
  /\ \E beside \in SUBSET Marks : \E body \in Kept(turn[t].text.marks \union beside, turn[t].class) :
       decision' = [decision EXCEPT ![t] = [body |-> body, at |-> now]]
  /\ TurnTo(t, [turn[t] EXCEPT !.pc = "answer"])
  /\ UNCHANGED <<result, pruner, now>>

\* Mutant: the class as the rules gave it, before a reader was asked.
KeepResponseByRules(t) ==
  /\ TurnAt(t, "answer")
  /\ \E marks \in SUBSET Marks : \E body \in Kept(marks, ClassOf(turn[t].text.marks)) :
       result' = [result EXCEPT ![t] = [body |-> body, at |-> now]]
  /\ TurnTo(t, [turn[t] EXCEPT !.pc = "done"])
  /\ UNCHANGED <<decision, pruner, now>>

\* The answer may say anything.  An outcome that was spooled is written, and dated, later.
KeepResponse(t) ==
  /\ TurnAt(t, "answer")
  /\ \E marks \in SUBSET Marks : \E body \in Kept(marks, turn[t].class) :
       result' = [result EXCEPT ![t] = [body |-> body, at |-> now]]
  /\ TurnTo(t, [turn[t] EXCEPT !.pc = "done"])
  /\ UNCHANGED <<decision, pruner, now>>

\* The proxy's turns are not classified; without a database they are refused.
IngestPrompt(t) ==
  /\ TurnAt(t, "idle")
  /\ \E text \in Texts :
       /\ \E body \in Kept(text.marks, "none") :
            decision' = [decision EXCEPT ![t] = [body |-> body, at |-> now]]
       /\ TurnTo(t, [pc |-> "ingested", text |-> text, class |-> "none"])
  /\ UNCHANGED <<result, pruner, now>>

\* The same request goes on to the outcome, once the decision is written.
IngestResponse(t) ==
  /\ TurnAt(t, "ingested")
  /\ \E marks \in SUBSET Marks : \E body \in Kept(marks, "none") :
       result' = [result EXCEPT ![t] = [body |-> body, at |-> now]]
  /\ TurnTo(t, [turn[t] EXCEPT !.pc = "done"])
  /\ UNCHANGED <<decision, pruner, now>>

-----------------------------------------------------------------------------
(* Retention.                                                              *)

Expired(row) == row.at + Window < now
Pruned(rows) ==
  [t \in Turns |-> IF Expired(rows[t]) THEN [rows[t] EXCEPT !.body = NoBody] ELSE rows[t]]

PruneDecisions ==
  /\ pruner.pc = "due" /\ Window > 0
  /\ decision' = Pruned(decision)
  /\ pruner' = [pruner EXCEPT !.pc = "outcomes", !.began = now]
  /\ UNCHANGED <<turn, result, now>>

PruneOutcomes ==
  /\ pruner.pc = "outcomes"
  /\ result' = Pruned(result)
  /\ pruner' = [pruner EXCEPT !.pc = "asleep", !.passed = pruner.began]
  /\ UNCHANGED <<turn, decision, now>>

\* Either statement may fail; the next tick begins anew.
PruneFails ==
  /\ pruner.pc \in {"due", "outcomes"}
  /\ pruner' = [pruner EXCEPT !.pc = "asleep"]
  /\ UNCHANGED <<turn, decision, result, now>>

BodyHour ==
  /\ now < BodyClock
  /\ now' = now + 1
  /\ pruner' = [pruner EXCEPT !.pc = IF @ = "asleep" THEN "due" ELSE @]
  /\ UNCHANGED <<turn, decision, result>>

BodyNext ==
  \/ \E t \in Turns : Submit(t) \/ ConfirmClass(t) \/ KeepPrompt(t) \/ KeepResponse(t)
                     \/ IngestPrompt(t) \/ IngestResponse(t)
  \/ PruneDecisions \/ PruneOutcomes \/ PruneFails \/ BodyHour

-----------------------------------------------------------------------------

\* Of a turn whose class is secret neither text is kept, of one with personal data none that the
\* rules recognise, whoever raised the class and however late the answer came; and nothing is
\* kept that the last complete pass of the pruner found expired (capture.py:55-122,
\* retention.py:36-107).
BodiesStayWithin ==
  \A t \in Turns :
    \A row \in {decision[t], result[t]} :
      row.body.kept => /\ turn[t].class # "secret"
                       /\ turn[t].class = "pii" => row.body.marks = {}
                       /\ Window > 0 => row.at + Window >= pruner.passed

==================================================================================
