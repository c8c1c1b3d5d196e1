------------------------------ MODULE DriftWatch ------------------------------
(***************************************************************************)
(* Behaviour drift of one provider and model (drift.py, drift_engine.py):  *)
(* every finished request feeds each metric's baseline, two anomalies in a *)
(* row open an alert, and an opened alert starts an investigation          *)
(* (drift_investigator.py), which pays for canary calls under a cooldown   *)
(* and a daily cap.                                                        *)
(*                                                                         *)
(* The handlers are the post-outcome steps of concurrent requests; a step  *)
(* ends where the code awaits.  The moving mean and variance are not       *)
(* computed: a sample of a warm baseline may be an anomaly or not.         *)
(***************************************************************************)
EXTENDS Integers, FiniteSets

CONSTANTS
  Handlers,     \* requests whose post-outcome step may run at the same time
  Metrics,      \* the scored metrics
  Compaction,   \* the metric of history compaction, which is never scored
  Warm,         \* samples after which a baseline is scored
  Cluster,      \* anomalies in a row that escalate
  Cap,          \* the daily cap on canary spend
  MaxCost,      \* what an investigation may cost at most
  AlertBound,   \* alerts open at once on a metric
  SpendBound    \* spend of a day that the operator's investigations add up to

ASSUME DriftAssumption ==
  /\ IsFiniteSet(Handlers) /\ Compaction \notin Metrics
  /\ Warm \in Nat \ {0} /\ Cluster \in Nat \ {0}
  /\ Cap \in Nat /\ MaxCost \in Nat /\ AlertBound \in Nat /\ SpendBound \in Nat

AllMetrics == Metrics \union {Compaction}

VARIABLES
  baseline,    \* metric -> samples seen (up to Warm), anomalies in a row (up to Cluster)
  alerts,      \* metric -> open alerts
  cooling,     \* metrics with an automatic investigation within the cooldown
  spend,       \* today's recorded cost: of automatic, of other investigations
  drift        \* handler -> how far its step got

driftVars == <<baseline, alerts, cooling, spend, drift>>

NoBaseline == [samples |-> 0, streak |-> 0]
NotDrifting == [pc |-> "idle", metric |-> Compaction, auto |-> TRUE, today |-> TRUE]
DriftSteps == {"idle", "insert", "escalate", "open", "cooldown", "budget", "start",
               "canaries", "resolve"}

DriftTypeOK ==
  /\ baseline \in [Metrics -> [samples : 0..Warm, streak : 0..Cluster]]
  /\ alerts \in [AllMetrics -> 0..AlertBound]
  /\ cooling \subseteq AllMetrics
  /\ spend \in [auto : Nat, other : 0..SpendBound]
  /\ drift \in [Handlers -> [pc : DriftSteps, metric : AllMetrics,
                             auto : BOOLEAN, today : BOOLEAN]]

DriftInit ==
  /\ baseline = [m \in Metrics |-> NoBaseline]
  /\ alerts = [m \in AllMetrics |-> 0]
  /\ cooling = {}
  /\ spend = [auto |-> 0, other |-> 0]
  /\ drift = [h \in Handlers |-> NotDrifting]

-----------------------------------------------------------------------------
DriftStep(h, pc) == drift' = [drift EXCEPT ![h].pc = pc]
DriftEnd(h) == drift' = [drift EXCEPT ![h] = NotDrifting]

\* drift.update_ewma, the figures left out: the first samples are not scored,
\* and an anomaly is one more in a row.
Fed(b, anomaly) ==
  [samples |-> IF b.samples < Warm THEN b.samples + 1 ELSE Warm,
   streak |-> IF ~anomaly THEN 0 ELSE IF b.streak < Cluster THEN b.streak + 1 ELSE Cluster]

Scored(b) == b.samples + 1 >= Warm /\ b.samples > 0

\* A sharp drop of the message count escalates at once.
Compacts(h) ==
  /\ drift[h].pc = "idle"
  /\ DriftStep(h, "escalate")
  /\ UNCHANGED <<baseline, alerts, cooling, spend>>

\* Mutant: one anomaly is enough.
FeedEager(h, m, anomaly) ==
  /\ drift[h].pc = "idle"
  /\ baseline[m].samples > 0
  /\ anomaly => Scored(baseline[m])
  /\ baseline' = [baseline EXCEPT ![m] = Fed(@, anomaly)]
  /\ drift' = [drift EXCEPT ![h].metric = m, ![h].pc = IF anomaly THEN "escalate" ELSE "resolve"]
  /\ UNCHANGED <<alerts, cooling, spend>>

\* _update_baseline_and_check: the row is locked from its read to its update.
Feed(h, m, anomaly) ==
  /\ drift[h].pc = "idle"
  /\ baseline[m].samples > 0
  /\ anomaly => Scored(baseline[m])
  /\ LET fed == Fed(baseline[m], anomaly)
         next == IF fed.streak >= Cluster THEN "escalate"
                 ELSE IF anomaly THEN "idle" ELSE "resolve"
     IN /\ baseline' = [baseline EXCEPT ![m] = fed]
        /\ drift' = [drift EXCEPT ![h] = IF next = "idle" THEN NotDrifting
                                        ELSE [@ EXCEPT !.metric = m, !.pc = next]]
  /\ UNCHANGED <<alerts, cooling, spend>>

\* The first sample finds no row to lock ...
FeedFirst(h, m) ==
  /\ drift[h].pc = "idle"
  /\ baseline[m] = NoBaseline
  /\ drift' = [drift EXCEPT ![h].pc = "insert", ![h].metric = m]
  /\ UNCHANGED <<baseline, alerts, cooling, spend>>

\* ... and inserts it; if another request was first, the insert fails and with
\* it the whole post-outcome step.
InsertFirst(h) ==
  /\ drift[h].pc = "insert"
  /\ baseline' = [baseline EXCEPT ![drift[h].metric] =
                    IF @ = NoBaseline THEN [samples |-> 1, streak |-> 0] ELSE @]
  /\ DriftEnd(h)
  /\ UNCHANGED <<alerts, cooling, spend>>

\* _maybe_raise_alert looks for an open alert; if there is one, its peak moves.
Escalate(h) ==
  /\ drift[h].pc = "escalate"
  /\ IF alerts[drift[h].metric] = 0
     THEN DriftStep(h, "open") ELSE DriftEnd(h)
  /\ UNCHANGED <<baseline, alerts, cooling, spend>>

OpenAlert(h) ==
  /\ drift[h].pc = "open"
  /\ alerts[drift[h].metric] < AlertBound
  /\ alerts' = [alerts EXCEPT ![drift[h].metric] = @ + 1]
  /\ DriftStep(h, "cooldown")
  /\ UNCHANGED <<baseline, cooling, spend>>

\* A normal sample resolves the alerts of its metric that are old enough, which
\* may be none, some or all of them.
ResolveAlerts(h) ==
  /\ drift[h].pc = "resolve"
  /\ \E left \in 0..alerts[drift[h].metric] :
       alerts' = [alerts EXCEPT ![drift[h].metric] = left]
  /\ DriftEnd(h)
  /\ UNCHANGED <<baseline, cooling, spend>>

-----------------------------------------------------------------------------
(* The investigator.                                                       *)

\* The operator's button and the report, which pass the guard rails by; or an
\* automatic investigation that the settings or a missing transport rule out.
Manual(h) ==
  /\ drift[h].pc = "idle"
  /\ drift' = [drift EXCEPT ![h].pc = "start", ![h].auto = FALSE]
  /\ UNCHANGED <<baseline, alerts, cooling, spend>>

RuledOut(h) ==
  /\ drift[h].pc \in {"cooldown", "start"}
  /\ DriftEnd(h)
  /\ UNCHANGED <<baseline, alerts, cooling, spend>>

\* A skipped investigation leaves a row of its own, and the cooldown asks for
\* the latest automatic row: the row of a skip renews the cooldown.
SkipRow(h) == cooling' = cooling \union {drift[h].metric} /\ DriftEnd(h)

CheckCooldown(h) ==
  /\ drift[h].pc = "cooldown"
  /\ IF drift[h].metric \in cooling THEN SkipRow(h)
     ELSE DriftStep(h, "budget") /\ UNCHANGED cooling
  /\ UNCHANGED <<baseline, alerts, spend>>

\* Mutant: the cap may be reached before it stops an investigation.
CheckBudgetLate(h) ==
  /\ drift[h].pc = "budget"
  /\ IF Cap > 0 /\ spend.auto + spend.other > Cap THEN SkipRow(h)
     ELSE DriftStep(h, "start") /\ UNCHANGED cooling
  /\ UNCHANGED <<baseline, alerts, spend>>

CheckBudget(h) ==
  /\ drift[h].pc = "budget"
  /\ IF Cap > 0 /\ spend.auto + spend.other >= Cap THEN SkipRow(h)
     ELSE DriftStep(h, "start") /\ UNCHANGED cooling
  /\ UNCHANGED <<baseline, alerts, spend>>

\* _new_investigation; an automatic row starts the cooldown.
StartInvestigation(h) ==
  /\ drift[h].pc = "start"
  /\ cooling' = IF drift[h].auto THEN cooling \union {drift[h].metric} ELSE cooling
  /\ DriftStep(h, "canaries")
  /\ UNCHANGED <<baseline, alerts, spend>>

\* The canary calls, four at a time, the verdict, and _finalise, which records
\* what they cost, under the day the investigation began.  A canary that cannot
\* be stored raises: its row stays "running" and its cost is not recorded.
Investigate(h) ==
  /\ drift[h].pc = "canaries"
  /\ \E cost \in 0..MaxCost :
       LET counted == IF drift[h].today THEN cost ELSE 0
       IN IF drift[h].auto THEN spend' = [spend EXCEPT !.auto = @ + counted]
          ELSE /\ spend.other + counted <= SpendBound
               /\ spend' = [spend EXCEPT !.other = @ + counted]
  /\ DriftEnd(h)
  /\ UNCHANGED <<baseline, alerts, cooling>>

DriftCrash ==
  /\ \E h \in Handlers : drift[h] # NotDrifting
  /\ drift' = [h \in Handlers |-> NotDrifting]
  /\ UNCHANGED <<baseline, alerts, cooling, spend>>

\* Time passes for the cooldown and for the day.
LeaveCooldown(m) ==
  /\ m \in cooling
  /\ cooling' = cooling \ {m}
  /\ UNCHANGED <<baseline, alerts, spend, drift>>

Midnight ==
  /\ spend' = [auto |-> 0, other |-> 0]
  /\ drift' = [h \in Handlers |->
                 IF drift[h].pc = "canaries" THEN [drift[h] EXCEPT !.today = FALSE] ELSE drift[h]]
  /\ UNCHANGED <<baseline, alerts, cooling>>

DriftNext ==
  \/ \E h \in Handlers :
       \/ Compacts(h) \/ InsertFirst(h) \/ Escalate(h) \/ OpenAlert(h) \/ ResolveAlerts(h)
       \/ Manual(h) \/ RuledOut(h) \/ CheckCooldown(h) \/ CheckBudget(h)
       \/ StartInvestigation(h) \/ Investigate(h)
       \/ \E m \in Metrics : \/ FeedFirst(h, m)
                             \/ \E anomaly \in BOOLEAN : Feed(h, m, anomaly)
  \/ DriftCrash \/ Midnight
  \/ \E m \in AllMetrics : LeaveCooldown(m)

DriftSpec == DriftInit /\ [][DriftNext]_driftVars

-----------------------------------------------------------------------------
\* An alert on a scored metric is opened only for a cluster: the sample it
\* belongs to was, in the order the baseline took the samples in, at least the
\* second anomaly in a row, however the steps after that interleave
\* (drift_engine.py:161-213).
AlertsNeedCluster ==
  [][\A h \in Handlers :
       drift[h].pc = "idle" /\ drift'[h].pc = "escalate" /\ drift'[h].metric # Compaction =>
         baseline'[drift'[h].metric].streak >= Cluster]_driftVars

\* The daily cap is compared before an investigation and its cost recorded after
\* it.  Concurrent requests may overshoot the cap, but only by what the
\* investigations that can be under way at once cost (drift_investigator.py:1257).
AutoSpendBounded == Cap > 0 => spend.auto < Cap + Cardinality(Handlers) * MaxCost
=============================================================================
