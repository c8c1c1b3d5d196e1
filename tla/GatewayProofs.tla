---------------------------- MODULE GatewayProofs ----------------------------
(***************************************************************************)
(* The services' theorems carried to the gateway: in every behaviour of    *)
(* their sum each service keeps its invariant, so that what the runs check *)
(* of one instance of the gateway holds of every one.                      *)
(***************************************************************************)
EXTENDS MCGateway, RequestPathProofs, EvaluationProofs, ServiceProofs

\* What holds of the gateway: every service's invariant, whichever of them moves.
GatewayInv ==
  /\ ShadowInv /\ JudgeInv /\ DriftInv /\ InquiryInv /\ ProbeInv
  /\ ChainInv /\ SinkInv /\ MemoryInv /\ HintInv /\ AccessInv /\ CredentialInv
  /\ ScheduleInv /\ CatalogueInv /\ EvidenceInv /\ BackupsInv

\* The gateway starts with every service at its start.
LEMMA ServicesStart ==
  GatewayInit =>
    /\ ShadowInit /\ JudgeInit /\ DriftInit /\ InquiryInit /\ ProbeInit
    /\ ChainInit /\ SinkInit /\ MemoryInit /\ HintInit /\ AccessInit /\ CredentialInit
    /\ ScheduleInit /\ CatalogueInit /\ EvidenceInit /\ BackupsInit
BY DEF GatewayInit

\* A step of the gateway is for each of the evaluating services its own step or none.
LEMMA EvaluationSteps ==
  [GatewayNext]_gatewayVars =>
    /\ [ShadowNext]_shadowVars /\ [JudgeNext]_judgeVars /\ [DriftNext]_driftVars
    /\ [InquiryNext]_inquiryVars /\ [ProbeNext]_probeVars
BY DEF GatewayNext, gatewayVars, RestBut

\* So it is for each of the services around the requests.
LEMMA ServiceSteps ==
  [GatewayNext]_gatewayVars =>
    /\ [ChainNext]_chainVars /\ [SinkNext]_sinkVars /\ [MemoryNext]_memoryVars
    /\ [HintNext]_hintVars /\ [AccessNext]_accessVars /\ [CredentialNext]_credentialVars
    /\ [ScheduleNext]_scheduleVars /\ [CatalogueNext]_catalogueVars
    /\ [EvidenceNext]_evidenceVars /\ [BackupsNext]_backupVars
BY DEF GatewayNext, gatewayVars, RestBut

\* The conjunction of the services' invariants is one of the gateway.
LEMMA GatewayAlways == GatewaySpec => []GatewayInv
<1>1. GatewayInit => GatewayInv
  BY ServicesStart, ShadowInitially, JudgeInitially, DriftInitially, InquiryInitially,
     ProbeInitially, ChainInitially, SinkInitially, MemoryInitially, HintInitially,
     AccessInitially, CredentialInitially, ScheduleInitially, CatalogueInitially,
     EvidenceStart, BackupsStart DEF GatewayInv
<1>2. GatewayInv /\ [GatewayNext]_gatewayVars => GatewayInv'
  BY EvaluationSteps, ServiceSteps, ShadowStep, JudgeStep, DriftStepKeeps, InquiryStep, ProbeStep,
     ChainStep, SinkStep, MemoryStep, HintStep, AccessStep, CredentialStep, ScheduleStep,
     CatalogueStep, EvidenceStep, BackupsStep DEF GatewayInv
<1> QED BY <1>1, <1>2, PTL DEF GatewaySpec

-----------------------------------------------------------------------------

\* However the evaluations of concurrent requests and of operators interleave, no prompt whose
\* row says secret is sent to a judge or to a challenger (quality_eval.py:197, 602;
\* shadow.py:477, 639).
THEOREM SecretsAreNotEvaluated == GatewaySpec => []SecretsStayHome
<1>1. GatewayInv => SecretsStayHome
  BY ShadowPromises, JudgePromises DEF GatewayInv, SecretsStayHome
<1> QED BY <1>1, GatewayAlways, PTL

\* Whichever answer the judge of a trial was shown first, the row names the one that it
\* preferred (shadow.py:554-564).
THEOREM WinnersAreNamed == GatewaySpec => []VerdictNamesWinner
<1>1. GatewayInv => VerdictNamesWinner
  BY ShadowPromises DEF GatewayInv
<1> QED BY <1>1, GatewayAlways, PTL

\* For any caps, costs and numbers of concurrent requests, no cap on automatic spend is passed
\* by more than what the requests under way may cost, and the judge's cached figure is never
\* above the day's cost (drift_investigator.py:1246-1397, shadow.py:490-493,
\* quality_eval.py:122-138).
THEOREM SpendStaysAccounted == GatewaySpec => []SpendAccounted
<1>1. GatewayInv => SpendAccounted
  BY ShadowPromises, JudgePromises, DriftPromises DEF GatewayInv, SpendAccounted
<1> QED BY <1>1, GatewayAlways, PTL

\* For any lifetimes, numbers of callers and processes, and however long a read takes, what the
\* four caches hold is out of date by no more than its lifetime and the read
\* (auth.py:99-146, sb_memory.py:49-78, sb-brain/brain.py:41-190, routes/v1.py:3109-3156).
THEOREM CachesStayFresh == GatewaySpec => []CachesExpire
<1>1. GatewayInv => CachesExpire
  BY AccessPromises, MemoryPromises, HintPromises, CredentialPromises DEF GatewayInv, CachesExpire
<1> QED BY <1>1, GatewayAlways, PTL

\* Whatever fails or overlaps, a verdict on a provider and an alert of a probe rest on calls
\* that answered and measured it (drift_investigator.py:1320-1397, llm_probe.py:149-420).
THEOREM AlertsStayGrounded == GatewaySpec => []AlertsAreGrounded
<1>1. GatewayInv => AlertsAreGrounded
  BY InquiryPromises, ProbePromises DEF GatewayInv, AlertsAreGrounded
<1> QED BY <1>1, GatewayAlways, PTL

\* However many hooks run at once and whichever of their writes fail, the log of the prompts is
\* one chain of hashes, which shows an altered or a removed row, and the sink has at most one
\* pool open (sb-privacy/main.py:140-184, chain.py:47-66, sb-capture/sinks.py:66-101).
THEOREM HooksStaySerial == GatewaySpec => []HooksSerialise
<1>1. GatewayInv => HooksSerialise
  BY ChainIsIntact DEF GatewayInv, HooksSerialise, SinkInv
<1> QED BY <1>1, GatewayAlways, PTL

\* For batches of any size, the bundle of every receipt verifies; and a receipt that verifies,
\* with whatever stored proof and checkpoint it was put together, is the recorded one with its
\* sequence in the batch of that checkpoint (audit_evidence.py:118-161, audit_verify.py:71-146).
THEOREM ProofsMeanReceipts == GatewaySpec => []ProofsMeanMembership
<1>1. GatewayInv => ProofsMeanMembership
  BY BundlesVerify, VerifiedWasWritten DEF GatewayInv, ProofsMeanMembership
<1> QED BY <1>1, GatewayAlways, PTL

\* However many tasks make backups at once, with deletions that succeed by half, restores and a
\* retention count that changes, as many complete dumps stay as the smallest count ever
\* configured, but for those an operator discarded (backup.py:303-317, 488-507).
THEOREM RetentionStaysEnough == GatewaySpec => []RetentionKeepsEnough
<1>1. GatewayInv => RetentionKeepsEnough
  BY PromiseKept DEF GatewayInv
<1> QED BY <1>1, GatewayAlways, PTL

\* The gateway starts with its stream at its start, and moves it by its own steps or not at all.
LEMMA StreamIsOne ==
  /\ GatewayInit => StreamInit
  /\ [GatewayNext]_gatewayVars => [StreamNext]_streamVars
BY DEF GatewayInit, GatewayNext, gatewayVars, RestBut

\* However an upstream that sends its text before its tool calls mixes text, any number of tool
\* calls, ends, errors and cuts, the Messages client reads a well-formed message, the Responses
\* client its events in their order, and an answer recorded as empty showed nothing
\* (formats/anthropic.py:366-665, formats/openai_responses.py:277-336, streaming.py:238-242).
THEOREM StreamsStayWellFormed == ASSUME TextFirst PROVE GatewaySpec => []StreamsWellFormed
<1>1. GatewayInit => StreamInv
  BY StreamIsOne, StreamStart
<1>2. StreamInv /\ [GatewayNext]_gatewayVars => StreamInv'
  BY StreamIsOne, StreamStep
<1>3. StreamInv => StreamsWellFormed
  BY StreamPromises DEF StreamsWellFormed
<1> QED BY <1>1, <1>2, <1>3, PTL DEF GatewaySpec

\* The gateway starts with its conversation at its start, and takes its turns or none.
LEMMA TalkIsOne ==
  /\ GatewayInit => ConversationInit
  /\ [GatewayNext]_gatewayVars => [ConversationNext]_talkVars
BY DEF GatewayInit, GatewayNext, gatewayVars, RestBut

\* However many turns a conversation has, with whatever calls, with ids or without, in whatever
\* order and beside whatever text the client brings their results, the model is told its own
\* answers as it gave them, in order, with the results of its calls right behind them; a client of
\* the Responses API brings back the texts (formats/anthropic.py:86-241, openai_responses.py:46-95).
THEOREM HistoriesSurvive == GatewaySpec => []HistorySurvives
<1>1. GatewayInit => TalkInv
  BY TalkIsOne, TalkStart
<1>2. TalkInv /\ [GatewayNext]_gatewayVars => TalkInv'
  BY TalkIsOne, TalkStep
<1>3. TalkInv => HistorySurvives
  BY TalkPromises
<1> QED BY <1>1, <1>2, <1>3, PTL DEF GatewaySpec

\* No step opens an alert on a scored metric but for the second anomaly in a row of its
\* baseline (drift_engine.py:161-213).
THEOREM AlertsStayClustered == GatewaySpec => AlertsNeedCluster
<1>1. GatewayInv /\ [GatewayNext]_gatewayVars =>
        [\A h \in Handlers :
           drift[h].pc = "idle" /\ drift'[h].pc = "escalate" /\ drift'[h].metric # Compaction =>
             baseline'[drift'[h].metric].streak >= Cluster]_driftVars
  BY EvaluationSteps, AlertsFollowClusters DEF GatewayInv
<1> QED BY <1>1, GatewayAlways, PTL DEF GatewaySpec, AlertsNeedCluster

\* A cycle of the probes begins an interval after the last at the earliest unless its plan was
\* lost, and the scheduler fetches no list that is not stale (llm_probe_scheduler.py:40-68,
\* catalogue.py:113-130).
THEOREM CallsStayPaced == GatewaySpec => CallsArePaced
<1>1. GatewayInv /\ [GatewayNext]_gatewayVars =>
        (pace'.last # pace.last /\ pace.last # Unplanned /\ ~pace.lost =>
           pace'.last >= pace.last + Interval)
  <2> SUFFICES ASSUME ScheduleInv, [ScheduleNext]_scheduleVars,
                      pace'.last # pace.last, pace.last # Unplanned, ~pace.lost
               PROVE  pace'.last >= pace.last + Interval
    BY ServiceSteps DEF GatewayInv
  <2>1. ScheduleNext
    BY DEF scheduleVars
  <2> QED BY <2>1, CyclesKeepInterval
<1>2. GatewayInv /\ [GatewayNext]_gatewayVars =>
        (list'.at # list.at /\ fetchers[Scheduler] = "fetching" => ListStale)
  BY FetchesKeepTtl DEF GatewayInv
<1> QED BY <1>1, <1>2, GatewayAlways, PTL
        DEF GatewaySpec, CallsArePaced, CyclesArePaced, FetchesArePaced

\* The services of which the gateway has other theorems start at their starts, and move by their
\* own steps or not at all.
LEMMA OthersAreOne ==
  /\ GatewayInit => Init /\ PassInit /\ ScorecardInit /\ LifecycleInit /\ BodyInit
  /\ [GatewayNext]_gatewayVars =>
       /\ [Next]_rpVars /\ [PassNext]_passVars /\ [ScorecardNext]_scoreVars
       /\ [LifecycleNext]_lifeVars /\ [BodyNext]_bodyVars
BY DEF GatewayInit, GatewayNext, gatewayVars, RestBut

\* Beside what holds of the other services: a request's fields are of their kind, a forwarded
\* prompt's tries are counted, and so are the keys that were minted.
TypesInv ==
  /\ PathInv /\ RequestTyped /\ PassInv /\ PassBounded /\ ScoreInv
  /\ LifeInv /\ keys \in Nat /\ BodyInv /\ StreamInv /\ TalkInv

\* For any requests, tables, tries, callers, processes and times, every service's state stays
\* within its types: a forwarded prompt is sent no more often than its lane allows, a pair's
\* failures are counted up to the threshold only, and a stream opens one block for the text and
\* one for each tool call at the most (v1.py:202-985, provider_health.py:47-64,
\* anthropic_oauth_forwarder.py:426-466, formats/anthropic.py:366-665).
THEOREM TypesStayCorrect == ASSUME TextFirst PROVE GatewaySpec => []GatewayTypeOK
<1>1. GatewayInit => TypesInv
  BY OthersAreOne, StreamIsOne, TalkIsOne, PathInitially, RequestTypedStart, PassInitially,
     BoundedStart, ScoreInitially, LifeInitially, KeysCounted, BodyInitially, StreamStart, TalkStart
     DEF TypesInv
<1>2. TypesInv /\ [GatewayNext]_gatewayVars => TypesInv'
  BY OthersAreOne, StreamIsOne, TalkIsOne, PathStep, RequestTypedStep, PassStep, BoundedStep,
     ScoreStep, LifeStep, KeysCounted, BodyStep, StreamStep, TalkStep DEF TypesInv
<1>3. TypesInv =>
        /\ TypeOK /\ PassTypeOK /\ ScorecardTypeOK /\ LifeTypeOK /\ BodyTypeOK
        /\ StreamTypeOK /\ TalkTypeOK
  BY RequestTypes, PassTypes, ScoreTypes, LifeTypes, BodyTypes, StreamTypes, TalkTypes DEF TypesInv
<1>4. GatewayInv =>
        /\ ShadowTypeOK /\ JudgeTypeOK /\ DriftTypeOK /\ InquiryTypeOK /\ ProbeTypeOK
        /\ ChainTypeOK /\ SinkTypeOK /\ MemoryTypeOK /\ HintTypeOK /\ AccessTypeOK
        /\ CredentialTypeOK /\ ScheduleTypeOK /\ CatalogueTypeOK /\ EvidenceTypeOK
        /\ BackupsTypeOK
  BY ShadowPromises, JudgePromises, DriftPromises, InquiryPromises, ProbePromises, ChainTypes,
     MemoryPromises, HintPromises, AccessPromises, CredentialPromises, EvidenceIsTyped
     DEF GatewayInv, SinkInv, ScheduleInv, CatalogueInv, BackupsInv
<1>5. TypesInv /\ GatewayInv => GatewayTypeOK
  BY <1>3, <1>4 DEF GatewayTypeOK
<1> QED BY <1>1, <1>2, <1>5, GatewayAlways, PTL DEF GatewaySpec
==============================================================================
