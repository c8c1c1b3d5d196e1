------------------------------- MODULE Schedules -------------------------------
(***************************************************************************)
(* The two loops that call providers on a timer: the probe scheduler       *)
(* (llm_probe_scheduler.py), which keeps its plan in the database, and the *)
(* heartbeat (provider_heartbeat.py), which keeps a badge per provider in  *)
(* the process.  Each looks at the offline switch before a round and then  *)
(* awaits its way through it, while operators flip the switch, calls fail  *)
(* and the process restarts.  What a cycle does is in ProbeCycles.         *)
(***************************************************************************)
EXTENDS Naturals, Transports

CONSTANTS Interval,      \* interval_hours; a tick of the loops is shorter
          Badges,        \* labels of the status strip
          Unplanned,     \* no instant
          ScheduleClock, \* bound: the last instant
          Flips          \* bound: what the operator switches, and restarts

ASSUME ScheduleAssumption ==
  Interval \in Nat \ {0} /\ Badges \subseteq {"anthropic-oauth", "openrouter", "chatgpt-oauth"}
  /\ Unplanned \notin Nat /\ ScheduleClock \in Nat /\ Flips \in Nat

VARIABLES gate,       \* the stored switches: offline, probing enabled
          plan,       \* next_run_at
          prober,     \* the probe loop: where it is, when its cycle began
          beat,       \* the heartbeat loop: where it is, labels left in its round
          strip,      \* the badges
          pace,       \* history: when the last cycle began, and whether its plan was lost
          hour,       \* the time
          flips       \* switches and restarts so far

scheduleVars == <<gate, plan, prober, beat, strip, pace, hour, flips>>

AtCheck == [pc |-> "check", began |-> 0]
NewRound == [pc |-> "check", left |-> {}]

ScheduleInit ==
  /\ gate = [offline |-> FALSE, enabled |-> TRUE]
  /\ plan = Unplanned
  /\ prober = AtCheck
  /\ beat = NewRound
  /\ strip = [l \in Badges |-> "none"]
  /\ pace = [last |-> Unplanned, lost |-> FALSE]
  /\ hour = 0
  /\ flips = 0

\* is_offline: a read that fails counts as online.
ReadsOffline(offline) == offline \in {gate.offline, FALSE}

ProberTo(pc) == prober' = [prober EXCEPT !.pc = pc]

ProberChecks ==
  /\ prober.pc = "check"
  /\ \E offline \in BOOLEAN :
       ReadsOffline(offline) /\ ProberTo(IF offline THEN "asleep" ELSE "config")
  /\ UNCHANGED <<gate, plan, beat, strip, pace, hour, flips>>

\* The plan is read, and the hour looked at after it.  A new plan lies an interval ahead, a due
\* one starts a cycle; the first write of a plan may fail.
ReadProbePlan ==
  /\ prober.pc = "config"
  /\ IF gate.enabled /\ plan # Unplanned /\ hour >= plan
     THEN /\ prober' = [pc |-> "cycle", began |-> hour]
          /\ pace' = [last |-> hour, lost |-> FALSE]
          /\ UNCHANGED plan
     ELSE /\ ProberTo("asleep")
          /\ plan' \in IF gate.enabled /\ plan = Unplanned
                       THEN {Unplanned, hour + Interval} ELSE {plan}
          /\ UNCHANGED pace
  /\ UNCHANGED <<gate, beat, strip, hour, flips>>

\* Mutant: a cycle that failed leaves the plan as it was.
CycleEndsUnplanned == prober.pc = "cycle" /\ \E pc \in {"plan", "asleep"} : ProberTo(pc)

\* However the cycle ends, its plan is moved on.
CycleEnds == prober.pc = "cycle" /\ ProberTo("plan")

RunCycle == CycleEnds /\ UNCHANGED <<gate, plan, beat, strip, pace, hour, flips>>

\* The next run is counted from the start of this one; the write may fail.
WriteProbePlan ==
  /\ prober.pc = "plan"
  /\ ProberTo("asleep")
  /\ \/ plan' = prober.began + Interval /\ UNCHANGED pace
     \/ pace' = [pace EXCEPT !.lost = TRUE] /\ UNCHANGED plan
  /\ UNCHANGED <<gate, beat, strip, hour, flips>>

ProberWakes ==
  /\ prober.pc = "asleep"
  /\ ProberTo("check")
  /\ UNCHANGED <<gate, plan, beat, strip, pace, hour, flips>>

\* The heartbeat: offline, the strip is cleared.
BeatChecks ==
  /\ beat.pc = "check"
  /\ \E offline \in BOOLEAN :
       /\ ReadsOffline(offline)
       /\ IF offline
          THEN beat' = [beat EXCEPT !.pc = "asleep"] /\ strip' = [l \in Badges |-> "none"]
          ELSE beat' = [pc |-> "ping", left |-> Badges] /\ UNCHANGED strip
  /\ UNCHANGED <<gate, plan, prober, pace, hour, flips>>

Codes == {"success", "limited", "denied", "other"}
BadgeOf(code) == CASE code = "success" -> "ok" [] code = "limited" -> "degraded"
                   [] code = "denied" -> "no-cred" [] OTHER -> "down"

TargetOf(label) == CASE label = "anthropic-oauth" -> "claude" [] label = "openrouter" -> "routed other"
                     [] OTHER -> "openai"

\* ping_once: the first transport there is, for Codex its subscription and no other; without
\* one there is no call.  A Claude whose credential is refused is asked for at a reseller.
PingSays(label, oauth, metered, code, reseller) ==
  LET ways == SelectSeq(TransportsFor(TargetOf(label), oauth, metered),
                        LAMBDA via : label = "chatgpt-oauth" => via = "chatgpt-oauth")
  IN IF ways = <<>> THEN "no-cred"
     ELSE IF label = "anthropic-oauth" /\ code = "denied" /\ reseller = "success" THEN "ok"
     ELSE BadgeOf(code)

Ping(l) ==
  /\ beat.pc = "ping" /\ l \in beat.left
  /\ \E oauth \in BOOLEAN, metered \in BOOLEAN, code \in Codes, reseller \in Codes :
       strip' = [strip EXCEPT ![l] = PingSays(l, oauth, metered, code, reseller)]
  /\ beat' = [pc |-> IF beat.left = {l} THEN "asleep" ELSE "ping", left |-> beat.left \ {l}]
  /\ UNCHANGED <<gate, plan, prober, pace, hour, flips>>

BeatWakes ==
  /\ beat.pc = "asleep"
  /\ beat' = NewRound
  /\ UNCHANGED <<gate, plan, prober, strip, pace, hour, flips>>

Flip ==
  /\ flips < Flips
  /\ flips' = flips + 1
  /\ \E offline \in BOOLEAN, enabled \in BOOLEAN :
       gate' = [offline |-> offline, enabled |-> enabled]
  /\ UNCHANGED <<plan, prober, beat, strip, pace, hour>>

\* The process restarts; only the plan is kept, and a cycle that was under way is lost.
RestartLoops ==
  /\ flips < Flips
  /\ flips' = flips + 1
  /\ prober' = AtCheck /\ beat' = NewRound
  /\ strip' = [l \in Badges |-> "none"]
  /\ pace' = [pace EXCEPT !.lost = @ \/ prober.pc \in {"cycle", "plan"}]
  /\ UNCHANGED <<gate, plan, hour>>

HourPasses ==
  /\ hour < ScheduleClock
  /\ hour' = hour + 1
  /\ UNCHANGED <<gate, plan, prober, beat, strip, pace, flips>>

ScheduleNext ==
  \/ ProberChecks \/ ReadProbePlan \/ RunCycle \/ WriteProbePlan \/ ProberWakes
  \/ BeatChecks \/ BeatWakes \/ \E l \in Badges : Ping(l)
  \/ Flip \/ RestartLoops \/ HourPasses

-----------------------------------------------------------------------------
(* Properties. *)

ScheduleTypeOK ==
  /\ gate \in [offline : BOOLEAN, enabled : BOOLEAN]
  /\ plan \in {Unplanned} \union 0..(ScheduleClock + Interval)
  /\ prober \in [pc : {"check", "config", "cycle", "plan", "asleep"}, began : 0..ScheduleClock]
  /\ beat.pc \in {"check", "ping", "asleep"} /\ beat.left \subseteq Badges
  /\ strip \in [Badges -> {"none", "ok", "degraded", "no-cred", "down"}]

\* A cycle begins an interval after the one before it at the earliest, also when that one
\* failed and whatever the operator switched meanwhile, unless its plan was lost: the write
\* failed, or the process stopped before it (llm_probe_scheduler.py:40-68).
CyclesArePaced ==
  [][pace'.last # pace.last /\ pace.last # Unplanned /\ ~pace.lost =>
       pace'.last >= pace.last + Interval]_scheduleVars
=============================================================================
