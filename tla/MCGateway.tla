------------------------------- MODULE MCGateway -------------------------------
(***************************************************************************)
(* The gateway's services for TLC.  They share no state that the modules   *)
(* model, so every behaviour is one of a single service, chosen at the     *)
(* start, while the others rest: TLC checks their sum, not their product.  *)
(***************************************************************************)
EXTENDS RequestPath, DriftWatch, QualityJudge, ShadowTrials, StreamTranslation, Backups,
        AccessKeys, Scorecard, EvidenceBundle, Forwarding, MemoryIngest, Investigations,
        ProbeCycles, Schedules, Catalogue, PrivacyChain, HintCache, CaptureSink,
        Conversations, Lifecycle, BodyCapture, Credentials

VARIABLE service    \* the service the behaviour is about

Services == {"request", "drift", "judge", "shadow", "stream", "backups", "access",
             "scorecard", "evidence", "pass", "memory", "inquiry", "probe", "schedule", "catalogue",
             "privacy", "hints", "sink", "talk", "lifecycle", "bodies",
             "credentials"}

gatewayVars == <<rpVars, driftVars, judgeVars, shadowVars, streamVars, backupVars, accessVars,
                 scoreVars, evidenceVars, passVars, memoryVars, inquiryVars, probeVars, scheduleVars,
                 catalogueVars, chainVars, hintVars, sinkVars, talkVars, lifeVars,
                 bodyVars, credentialVars, service>>

\* A resting service has one initial state.
GatewayInit ==
  /\ Init /\ DriftInit /\ JudgeInit /\ ShadowInit /\ StreamInit /\ BackupsInit /\ AccessInit
  /\ ScorecardInit /\ EvidenceInit /\ PassInit /\ MemoryInit /\ InquiryInit /\ ProbeInit
  /\ ScheduleInit /\ CatalogueInit /\ ChainInit /\ HintInit /\ SinkInit
  /\ ConversationInit /\ LifecycleInit /\ BodyInit /\ CredentialInit
  /\ service \in Services
  /\ service # "stream" => ~anthropic.normalize
  /\ service # "backups" => keep = Min(Counts)
  /\ service # "inquiry" => inquiry.suite = "routing" /\ inquiry.baseline = 0
  /\ service # "catalogue" => airgapped
  /\ service # "talk" => wire = "messages"
  /\ service # "lifecycle" => schema.executed = <<>>

RestBut(name) ==
  /\ service = name
  /\ UNCHANGED service
  /\ name # "request" => UNCHANGED rpVars
  /\ name # "drift" => UNCHANGED driftVars
  /\ name # "judge" => UNCHANGED judgeVars
  /\ name # "shadow" => UNCHANGED shadowVars
  /\ name # "stream" => UNCHANGED streamVars
  /\ name # "backups" => UNCHANGED backupVars
  /\ name # "access" => UNCHANGED accessVars
  /\ name # "scorecard" => UNCHANGED scoreVars
  /\ name # "evidence" => UNCHANGED evidenceVars
  /\ name # "pass" => UNCHANGED passVars
  /\ name # "memory" => UNCHANGED memoryVars
  /\ name # "inquiry" => UNCHANGED inquiryVars
  /\ name # "probe" => UNCHANGED probeVars
  /\ name # "schedule" => UNCHANGED scheduleVars
  /\ name # "catalogue" => UNCHANGED catalogueVars
  /\ name # "privacy" => UNCHANGED chainVars
  /\ name # "hints" => UNCHANGED hintVars
  /\ name # "sink" => UNCHANGED sinkVars
  /\ name # "talk" => UNCHANGED talkVars
  /\ name # "lifecycle" => UNCHANGED lifeVars
  /\ name # "bodies" => UNCHANGED bodyVars
  /\ name # "credentials" => UNCHANGED credentialVars

GatewayNext ==
  \/ RestBut("request") /\ Next
  \/ RestBut("drift") /\ DriftNext
  \/ RestBut("judge") /\ JudgeNext
  \/ RestBut("shadow") /\ ShadowNext
  \/ RestBut("stream") /\ StreamNext
  \/ RestBut("backups") /\ BackupsNext
  \/ RestBut("access") /\ AccessNext
  \/ RestBut("scorecard") /\ ScorecardNext
  \/ RestBut("evidence") /\ EvidenceNext
  \/ RestBut("pass") /\ PassNext
  \/ RestBut("memory") /\ MemoryNext
  \/ RestBut("inquiry") /\ InquiryNext
  \/ RestBut("probe") /\ ProbeNext
  \/ RestBut("schedule") /\ ScheduleNext
  \/ RestBut("catalogue") /\ CatalogueNext
  \/ RestBut("privacy") /\ ChainNext
  \/ RestBut("hints") /\ HintNext
  \/ RestBut("sink") /\ SinkNext
  \/ RestBut("talk") /\ ConversationNext
  \/ RestBut("lifecycle") /\ LifecycleNext
  \/ RestBut("bodies") /\ BodyNext
  \/ RestBut("credentials") /\ CredentialNext

GatewaySpec == GatewayInit /\ [][GatewayNext]_gatewayVars

-----------------------------------------------------------------------------
(* Instances.                                                              *)

TheRoute(model) == [provider |-> "openrouter", model |-> model]
TheTable == [fast |-> [primary |-> TheRoute("flash"), fallback |-> TheRoute("gemini")],
             balanced |-> [primary |-> TheRoute("gemini"), fallback |-> NoRoute]]

TheInput(entry, oauth, bowden, declared, model, tools) ==
  [entry |-> entry, oauth |-> oauth, found |-> "none", bowden |-> bowden, declared |-> declared,
   model |-> model, pinned |-> "nomodel", tools |-> tools]
TheInputs == {TheInput("chat", "none", FALSE, "absent", "auto", FALSE),
              TheInput("responses", "none", TRUE, "none", "gpt", FALSE),
              TheInput("messages", "anthropic", FALSE, "secret", "claude", TRUE),
              TheInput("chat", "chatgpt", FALSE, "invalid", "gpt", FALSE),
              [TheInput("messages", "none", FALSE, "absent", "auto", FALSE) EXCEPT
                 !.found = "secret", !.pinned = "gpt"]}
TheHints == {[banned |-> {"flash"}, tier |-> "odd", override |-> "nomodel"],
             [banned |-> {}, tier |-> "absent", override |-> "claude"]}
ThePatches == {[enabled |-> TRUE, local |-> TRUE]}

TheRated == {[class |-> "secret", probe |-> FALSE, anomaly |-> TRUE, bodies |-> TRUE],
             [class |-> "pii", probe |-> FALSE, anomaly |-> FALSE, bodies |-> TRUE]}
TheChampions == {[class |-> class, probe |-> FALSE, tools |-> FALSE, text |-> TRUE] :
                   class \in {"secret", "pii"}}

TheReply(failed, level, refused) == [failed |-> failed, level |-> level, refused |-> refused]
TheReplies == {NoReply, TheReply(FALSE, 1, FALSE), TheReply(FALSE, 2, TRUE)}
TheSuite == <<"quality_reason">>

TheKeySetting(material, pinned) == [id |-> "v1", material |-> material, pinned |-> pinned]
TheKeySettings == {TheKeySetting("old", Unset), TheKeySetting("new", Unset),
                   TheKeySetting("new", "old"), TheKeySetting(Unset, Unset)}

-----------------------------------------------------------------------------
(* Properties of several services.                                         *)

GatewayTypeOK ==
  /\ service = "request" => TypeOK
  /\ service = "drift" => DriftTypeOK
  /\ service = "judge" => JudgeTypeOK
  /\ service = "shadow" => ShadowTypeOK
  /\ service = "stream" => StreamTypeOK
  /\ service = "backups" => BackupsTypeOK
  /\ service = "access" => AccessTypeOK
  /\ service = "scorecard" => ScorecardTypeOK
  /\ service = "evidence" => EvidenceTypeOK
  /\ service = "pass" => PassTypeOK
  /\ service = "memory" => MemoryTypeOK
  /\ service = "inquiry" => InquiryTypeOK
  /\ service = "probe" => ProbeTypeOK
  /\ service = "schedule" => ScheduleTypeOK
  /\ service = "catalogue" => CatalogueTypeOK
  /\ service = "privacy" => ChainTypeOK
  /\ service = "hints" => HintTypeOK
  /\ service = "sink" => SinkTypeOK
  /\ service = "talk" => TalkTypeOK
  /\ service = "lifecycle" => LifeTypeOK
  /\ service = "bodies" => BodyTypeOK
  /\ service = "credentials" => CredentialTypeOK

\* A prompt whose decision row says secret is sent neither to the judge nor to a
\* challenger (quality_eval.py:197, 602; shadow.py:477, 639).
SecretsStayHome == SecretsNotJudged /\ SecretsNotMirrored

\* No cap on automatic spend is passed by more than the requests that were under way when it
\* was reached, and the judge's cached figure never says more was spent than was
\* (drift_investigator.py:1246-1397, shadow.py:490-493, quality_eval.py:122-138).
SpendAccounted == AutoSpendBounded /\ TrialSpendBounded /\ SpendNotOverstated

\* Whatever the upstream sends, both translators tell their clients a well-formed message,
\* and an answer is recorded as empty only if none of it was shown
\* (formats/anthropic.py:320-665, formats/openai_responses.py:144-370, streaming.py:21-246).
StreamsWellFormed == MessageWellFormed /\ ResponseInOrder /\ EmptyMeansNothingShown

\* What four caches hold, a key's owner, the ingestion switch, an agent's hints and the provider
\* keys, is out of date by no more than its lifetime and the time of the call that read it
\* (auth.py:99-146, sb_memory.py:49-78, sb-brain/brain.py:41-190, routes/v1.py:3109-3156).
CachesExpire ==
  CacheOutlivesKeyBriefly /\ IngestHonoursSwitch /\ HintsExpire /\ KeysAreCurrent

\* A receipt of a signed batch verifies from its bundle, and nothing else does
\* (audit_evidence.py:118-178, audit_verify.py:71-136).
ProofsMeanMembership == ExportedVerifies /\ AcceptedIsIncluded

\* What the extensions keep is serialised within a process: two sensitive requests at once extend
\* one chain, and hooks of the sink that find no pool build one (sb-privacy/main.py:140-184,
\* sb-capture/sinks.py:66-101).
HooksSerialise == ChainIntact /\ OnePool

\* A verdict and a probe's alert rest on calls that answered and measured it
\* (drift_investigator.py:1320-1397, llm_probe.py:149-420).
AlertsAreGrounded == VerdictsAreSupported /\ ProbeAlertsAreGrounded

\* Neither the probe scheduler nor the catalogue's calls the providers again before its
\* interval is over (llm_probe_scheduler.py:40-68, catalogue.py:113-130).
CallsArePaced == CyclesArePaced /\ FetchesArePaced
===============================================================================
