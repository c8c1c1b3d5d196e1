------------------------------ MODULE ProbeCycles ------------------------------
(***************************************************************************)
(* Probing (llm_probe.py): a cycle sends a suite of prompts to a model     *)
(* over its subscription and its metered leg, one call after the other,    *)
(* stores each run, feeds the leg's baselines, and compares the legs at    *)
(* the end.  A scheduled cycle and one the operator asked for may overlap; *)
(* nothing keeps their reads and writes of a baseline apart.               *)
(***************************************************************************)
EXTENDS Naturals, Sequences, Transports

CONSTANTS Cycles,         \* the cycles
          ProbeTargets,   \* the configured targets
          ProbeSuite,     \* the prompts, in order
          Replies,        \* what a call may come to
          ProbeCluster    \* ANOMALY_CLUSTER_THRESHOLD

\* level: what was measured (0: nothing), refused: the text is empty or refuses.
ReplyType == [failed : BOOLEAN, level : 0..2, refused : BOOLEAN]

ASSUME ProbeAssumption ==
  /\ ProbeCluster \in Nat \ {0} /\ Replies \subseteq ReplyType
  /\ ProbeTargets \subseteq Targets /\ ProbeSuite \in Seq(STRING) /\ ProbeSuite # <<>>

Legs == {"sub", "metered"}
LegOf(via) == IF via \in Subscriptions THEN "sub" ELSE "metered"
\* The prompts whose measure has a baseline on each leg.
Measuring == {"tokenizer_fp", "latency_ping", "quality_reason"}
Prompts == 1..Len(ProbeSuite)
Baselines == Vias \X Prompts
NoReply == [failed |-> TRUE, level |-> 0, refused |-> TRUE]

VARIABLES cycles,     \* the cycles under way
          streaks,    \* per leg and prompt: anomalies in a row in the stored baseline
          anomalies,  \* history: the anomalies each baseline was shown
          raised      \* the alerts: who raised which

probeVars == <<cycles, streaks, anomalies, raised>>

NotProbing == [pc |-> "new", legs |-> <<>>, at |-> 1, reply |-> NoReply, streak |-> 0,
               replies |-> [p \in Prompts |-> [l \in Legs |-> NoReply]]]

ProbeInit ==
  /\ cycles = [c \in Cycles |-> NotProbing]
  /\ streaks = [b \in Baselines |-> 0]
  /\ anomalies = [b \in Baselines |-> 0]
  /\ raised = {}

ProbeAt(c, pc) == cycles[c].pc = pc
ProbeTo(c, p) == cycles' = [cycles EXCEPT ![c] = p]
Raise(c, type) == raised' = raised \union {<<c, type>>}

\* The call a cycle is at: the suite over the first leg, then over the second.
Calls(c) == Len(cycles[c].legs) * Len(ProbeSuite)
ViaAt(c) == cycles[c].legs[1 + ((cycles[c].at - 1) \div Len(ProbeSuite))]
PromptAt(c) == 1 + ((cycles[c].at - 1) % Len(ProbeSuite))
BaselineAt(c) == <<ViaAt(c), PromptAt(c)>>

\* Without a transport, or with no subscription among them, that is the first alert.
BeginCycle(c) ==
  /\ ProbeAt(c, "new")
  /\ \E target \in ProbeTargets, oauth \in BOOLEAN, metered \in BOOLEAN :
       LET legs == TransportsFor(target, oauth, metered) IN
       /\ ProbeTo(c, [cycles[c] EXCEPT !.legs = legs,
                                       !.pc = IF legs = <<>> THEN "done" ELSE "call"])
       /\ IF \A i \in DOMAIN legs : legs[i] \notin Subscriptions
          THEN Raise(c, "auth_expired") ELSE UNCHANGED raised
  /\ UNCHANGED <<streaks, anomalies>>

CallLeg(c) ==
  /\ ProbeAt(c, "call")
  /\ \E reply \in Replies :
       ProbeTo(c, [cycles[c] EXCEPT !.pc = "store", !.reply = reply])
  /\ UNCHANGED <<streaks, anomalies, raised>>

NextCall(c, reply) ==
  [cycles[c] EXCEPT !.replies[PromptAt(c)][LegOf(ViaAt(c))] = reply, !.at = @ + 1,
                    !.reply = NoReply, !.streak = 0,
                    !.pc = IF cycles[c].at = Calls(c) THEN "compare" ELSE "call"]

\* The run's row; an answer of another model raises an alert; what was measured goes on to the
\* baseline, which is read here.
StoreRun(c) ==
  LET reply == cycles[c].reply IN
  /\ ProbeAt(c, "store")
  /\ ProbeTo(c, IF /\ ~reply.failed /\ reply.level > 0
                   /\ ProbeSuite[PromptAt(c)] \in Measuring
                THEN [cycles[c] EXCEPT !.pc = "baseline", !.streak = streaks[BaselineAt(c)]]
                ELSE NextCall(c, reply))
  /\ \/ ~reply.failed /\ Raise(c, "model_mismatch")
     \/ UNCHANGED raised
  /\ UNCHANGED <<streaks, anomalies>>

\* The baseline is written from what was read, and a cluster raises an alert.
FeedProbe(c) ==
  /\ ProbeAt(c, "baseline")
  /\ \E anomaly \in BOOLEAN :
       LET streak == IF anomaly THEN cycles[c].streak + 1 ELSE 0 IN
       /\ streaks' = [streaks EXCEPT ![BaselineAt(c)] = streak]
       /\ anomalies' = [anomalies EXCEPT ![BaselineAt(c)] = IF anomaly THEN @ + 1 ELSE @]
       /\ IF streak >= ProbeCluster THEN Raise(c, "cluster") ELSE UNCHANGED raised
  /\ ProbeTo(c, NextCall(c, cycles[c].reply))

\* Any of the writes may fail, and the cycle with it.
AbortCycle(c) ==
  /\ cycles[c].pc \in {"store", "baseline", "compare"}
  /\ ProbeTo(c, [cycles[c] EXCEPT !.pc = "done"])
  /\ UNCHANGED <<streaks, anomalies, raised>>

\* Quality counts only when the subscription is the worse one.
Differs(p, sub, met) ==
  \/ /\ sub.level > 0 /\ met.level > 0
     /\ IF ProbeSuite[p] = "quality_reason" THEN sub.level < met.level ELSE sub.level # met.level
  \/ sub.refused # met.refused

Diverges(p, sub, met) == ~sub.failed /\ ~met.failed /\ Differs(p, sub, met)

CompareLegs(c) ==
  /\ ProbeAt(c, "compare")
  /\ IF Len(cycles[c].legs) = 2
        /\ \E p \in Prompts :
             Diverges(p, cycles[c].replies[p]["sub"], cycles[c].replies[p]["metered"])
     THEN Raise(c, "divergence") ELSE UNCHANGED raised
  /\ ProbeTo(c, [cycles[c] EXCEPT !.pc = "done"])
  /\ UNCHANGED <<streaks, anomalies>>

ProbeNext ==
  \E c \in Cycles : \/ BeginCycle(c) \/ CallLeg(c) \/ StoreRun(c) \/ FeedProbe(c)
                    \/ AbortCycle(c) \/ CompareLegs(c)

-----------------------------------------------------------------------------
(* Properties. *)

ProbeTypeOK ==
  /\ \A c \in Cycles :
       /\ cycles[c].pc \in {"new", "call", "store", "baseline", "compare", "done"}
       /\ cycles[c].reply \in ReplyType
       /\ cycles[c].replies \in [Prompts -> [Legs -> ReplyType]]
  /\ streaks \in [Baselines -> Nat] /\ anomalies \in [Baselines -> Nat]
  /\ raised \subseteq Cycles \X {"auth_expired", "model_mismatch", "cluster", "divergence"}

\* A divergence is raised only for two legs that both answered, and a cluster only on a leg
\* that showed that many anomalies: cycles that overlap may lose each other's samples, never
\* invent one (llm_probe.py:149-198, 392-420).
ProbeAlertsAreGrounded ==
  /\ \A c \in Cycles :
       <<c, "divergence">> \in raised =>
         \E p \in Prompts :
           /\ \A l \in Legs : ~cycles[c].replies[p][l].failed
           /\ cycles[c].replies[p]["sub"] # cycles[c].replies[p]["metered"]
  /\ \A b \in Baselines : streaks[b] <= anomalies[b]
=============================================================================
