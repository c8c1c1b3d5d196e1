----------------------------- MODULE RequestPath -----------------------------
(***************************************************************************)
(* The path of a chat request through the gateway (routes/v1.py): the      *)
(* OAuth bypasses of the three endpoints, classification, the confidential *)
(* boundary, the plugins, the choice of a route (scoring.py), the decision *)
(* row, the call upstream, its outcome, and the in-process health of the   *)
(* routes (provider_health.py).  Beside the requests, operators edit the   *)
(* stored settings (PUT /v1/config, app_config.py).                        *)
(*                                                                         *)
(* A step ends where the code awaits: between two steps of a request other *)
(* requests and operators run.  A read of the settings may fail, and then  *)
(* yields the defaults (app_config.py:get_settings).                       *)
(***************************************************************************)
EXTENDS Integers, FiniteSets

CONSTANTS
  Requests,     \* slots for requests; a slot is used again when it is idle
  Inputs,       \* the requests clients may send, members of InputType
  Tiers,        \* the tiers of the routing table
  Balanced,     \* the tier an unknown tier is resolved as
  OtherTier,    \* a tier name a plugin may prefer that is not in the table
  Table,        \* tier -> its primary and its fallback route
  NoRoute,
  Models,       \* the models a client, a key or a plugin may name
  Owned,        \* models of a subscription: never picked automatically
  Covered,      \* models the ChatGPT subscription serves
  LocalModel,   \* the model behind the confidential boundary
  NoModel,
  Hints,        \* what the before_route plugins may answer together
  LaneState,    \* the ChatGPT lane: "off", "unavailable" (no client), "on"
  Threshold,    \* empty answers in a row that mark a route unhealthy
  Operators,    \* concurrent PUT /v1/config handlers
  Patches       \* what they may ask for

Routes == (UNION {{Table[t].primary, Table[t].fallback} : t \in Tiers}) \ {NoRoute}

\* Pinned, subscription and local calls are recorded under providers of their own.
Providers == {r.provider : r \in Routes}
               \union {"override", "passthrough", "lmstudio", "chatgpt-subscription", "oauth",
                       "mirror"}
AllModels == Models \union {r.model : r \in Routes} \union {LocalModel}
Pairs == [provider : Providers, model : AllModels]

\* The pairs a choice may ask the health of; what is recorded of others is not read.
Asked == {[provider |-> Table[t].primary.provider, model |-> q.model] :
            t \in Tiers, q \in Routes}

Classes == {"none", "pii", "secret"}
Rank == [none |-> 0, pii |-> 1, secret |-> 2]
Strictest(S) == CHOOSE c \in S : \A d \in S : Rank[d] <= Rank[c]

\* A request: its endpoint, the OAuth token it carries, what the detectors find
\* in it, what it declares, the model it names, the model its header or key pins.
InputType ==
  [entry : {"chat", "messages", "responses"}, oauth : {"none", "anthropic", "chatgpt"},
   found : Classes, bowden : BOOLEAN, declared : Classes \union {"absent", "invalid"},
   model : Models \union {"auto"}, pinned : Models \union {NoModel}, tools : BOOLEAN]

\* The confidentiality_routing section of the settings; "local" says that a
\* local model is configured.
PolicyType == [enabled : BOOLEAN, routed : SUBSET {"pii", "secret"},
               bowden : BOOLEAN, local : BOOLEAN]
DefaultPolicy == [enabled |-> FALSE, routed |-> {"pii", "secret"},
                  bowden |-> TRUE, local |-> FALSE]

Decision == [pair : Pairs, kind : {"override", "auto", "explicit", "confidential"}]

ASSUME RequestPathAssumption ==
  /\ Inputs \subseteq InputType
  /\ Balanced \in Tiers /\ OtherTier \notin Tiers
  /\ DOMAIN Table = Tiers
  /\ Threshold \in Nat \ {0}
  /\ LaneState \in {"off", "unavailable", "on"}
  /\ Hints \subseteq [banned : SUBSET AllModels, tier : Tiers \union {OtherTier, "absent"},
                      override : Models \union {NoModel}]

\* Every tier of the table has a primary, and a route a provider and a model
\* (scoring.py:280-288).
ASSUME TableAssumption ==
  /\ \A t \in Tiers : Table[t].primary # NoRoute
  /\ \A q \in Routes : q = [provider |-> q.provider, model |-> q.model]

\* There is a request and an edit of the settings to be made, and an edit asks for a part of the
\* section (app_config.py:124-134).
ASSUME EditsAssumption ==
  /\ Inputs # {} /\ Patches # {}
  /\ \A patch \in Patches : \E policy \in PolicyType :
       DOMAIN patch \subseteq DOMAIN policy /\ \A k \in DOMAIN patch : patch[k] = policy[k]

VARIABLES
  settings,   \* the stored confidentiality section
  edit,       \* per operator: how far its PUT got
  health,     \* ProviderHealthTracker: per pair, the streak and the mark
  request,    \* per slot: the request it handles
  row,        \* per slot: the decision row precapture wrote, if any
  sent,       \* per slot: the providers its prompt was sent to
  outcome     \* per slot: the outcomes persisted for it

rpVars == <<settings, edit, health, request, row, sent, outcome>>

Result == [status : {"ok", "error"}, empty : BOOLEAN, disconnected : BOOLEAN]

Steps == {"idle", "oauth_check", "confirm", "classify", "plugins", "decide", "precapture",
          "call", "called", "streaming", "persist", "brain", "done", "bypass", "forwarded"}

Fresh == [pc |-> "idle", input |-> CHOOSE i \in Inputs : TRUE, class |-> "none",
          policy |-> DefaultPolicy, tier |-> Balanced, override |-> NoModel, banned |-> {},
          decision |-> [pair |-> [provider |-> "passthrough", model |-> LocalModel],
                        kind |-> "explicit"],
          result |-> [status |-> "ok", empty |-> FALSE, disconnected |-> FALSE],
          stream |-> FALSE, guarded |-> FALSE]
NoEdit == [pc |-> "idle", patch |-> CHOOSE p \in Patches : TRUE, merged |-> DefaultPolicy]
NoRow == [decision |-> Fresh.decision, class |-> "absent"]

TypeOK ==
  /\ settings \in PolicyType
  /\ \A o \in Operators : edit[o].pc \in {"idle", "merge", "write"}
                            /\ edit[o].patch \in Patches /\ edit[o].merged \in PolicyType
  /\ health \in [Asked -> [streak : 0..Threshold, unhealthy : BOOLEAN]]
  /\ \A r \in Requests :
       LET q == request[r]
       IN /\ q.pc \in Steps /\ q.input \in Inputs /\ q.class \in Classes
          /\ q.policy \in PolicyType /\ q.tier \in Tiers \union {OtherTier}
          /\ q.override \in Models \union {NoModel} /\ q.banned \subseteq AllModels
          /\ q.decision \in Decision /\ q.result \in Result
  /\ \A r \in Requests : row[r] = NoRow \/ row[r] \in [decision : Decision, class : Classes]
  /\ \A r \in Requests : sent[r] \subseteq Providers
  /\ outcome \in [Requests -> 0..1]

Init ==
  /\ settings = DefaultPolicy
  /\ edit = [o \in Operators |-> NoEdit]
  /\ health = [p \in Asked |-> [streak |-> 0, unhealthy |-> FALSE]]
  /\ request = [r \in Requests |-> Fresh]
  /\ row = [r \in Requests |-> NoRow]
  /\ sent = [r \in Requests |-> {}]
  /\ outcome = [r \in Requests |-> 0]

-----------------------------------------------------------------------------
(* The confidential boundary (confidentiality.py).                         *)

\* What a read of the settings may return.
Readable == {settings, DefaultPolicy}

Malformed(input) == input.declared = "invalid"

\* The strictest of the built-in detector, Bowden and the declaration.
Sensitivity(input, base, policy) ==
  Strictest({base, input.found}
              \union (IF policy.enabled /\ policy.bowden /\ input.bowden THEN {"pii"} ELSE {})
              \union ({input.declared} \intersect Classes))

Confines(policy, class) == policy.enabled /\ class \in policy.routed

\* As the subscription may be bypassed only by a stricter class: a confirmed
\* class is left out, the OAuth check has no slow path.
Guards(policy, input) ==
  policy.local /\ Confines(policy, Sensitivity(input, "none", policy))

LocalPair == [provider |-> "lmstudio", model |-> LocalModel]

-----------------------------------------------------------------------------
(* Choosing a route (scoring.py, provider_health.py).                      *)

Resolve(tier) == Table[IF tier \in Tiers THEN tier ELSE Balanced]

\* A model is looked up in the health table under the primary's provider.
Blocked(model, primary, banned) ==
  \/ model \in banned
  \/ model \in Owned
  \/ health[[provider |-> primary.provider, model |-> model]].unhealthy

\* Mutant: the fallback is taken whenever there is one.
PickAnyFallback(tier, banned) ==
  LET primary == Resolve(tier).primary
      fallback == Resolve(tier).fallback
  IN IF Blocked(primary.model, primary, banned) /\ fallback # NoRoute THEN fallback ELSE primary

\* resolve_healthy: the fallback only if the primary is blocked and it is not.
Pick(tier, banned) ==
  LET primary == Resolve(tier).primary
      fallback == Resolve(tier).fallback
  IN IF /\ Blocked(primary.model, primary, banned)
        /\ fallback # NoRoute
        /\ ~Blocked(fallback.model, primary, banned)
     THEN fallback ELSE primary

\* The pick the scorecard is asked about: health and bans are left out.
Unrated(tier) ==
  LET primary == Resolve(tier).primary
      fallback == Resolve(tier).fallback
  IN IF primary.model \in Owned /\ fallback # NoRoute /\ fallback.model \notin Owned
     THEN fallback ELSE primary

\* ProviderHealthTracker.record; a longer streak is not told apart.
Recorded(h, empty) ==
  IF empty
  THEN LET streak == IF h.streak < Threshold THEN h.streak + 1 ELSE Threshold
       IN [streak |-> streak, unhealthy |-> h.unhealthy \/ streak = Threshold]
  ELSE [streak |-> 0, unhealthy |-> FALSE]

-----------------------------------------------------------------------------
(* The request.                                                            *)

Update(r, fields) ==
  request' = [request EXCEPT ![r] = [f \in DOMAIN @ |-> IF f \in DOMAIN fields THEN fields[f]
                                                        ELSE @[f]]]
Go(r, pc) == Update(r, [pc |-> pc])
Reject(r) == request' = [request EXCEPT ![r] = Fresh]
At(r, pc) == request[r].pc = pc

\* A request arrives.  Chat and Responses requests with an OAuth token, and
\* ChatGPT tokens anywhere they are looked for, are forwarded unchecked.
Arrive(r, input) ==
  /\ At(r, "idle")
  /\ \E stream \in BOOLEAN :
       Update(r, [Fresh EXCEPT !.input = input, !.stream = stream,
                    !.guarded = Guards(settings, input),
                    !.pc = IF input.oauth = "anthropic" /\ input.entry = "messages"
                             THEN "oauth_check"
                           ELSE IF input.oauth = "anthropic" THEN "bypass"
                           ELSE IF input.oauth = "chatgpt" /\ input.entry # "messages"
                             THEN "bypass"
                           ELSE "confirm"])
  /\ UNCHANGED <<settings, edit, health, row, sent, outcome>>

\* _oauth_requires_confidential_local: an Anthropic subscription call leaves
\* the bypass only if the boundary applies to it.
OauthCheck(r) ==
  /\ At(r, "oauth_check")
  /\ \E policy \in Readable :
       LET input == request[r].input
           class == Sensitivity(input, "none", policy)
           unguarded == \/ ~policy.enabled
                        \/ ~Malformed(input) /\ ~Confines(policy, class)
       IN \/ unguarded /\ Go(r, "bypass")
          \/ ~unguarded /\ (Malformed(input) \/ ~policy.local) /\ Reject(r)
          \/ ~unguarded /\ ~Malformed(input) /\ policy.local /\ Go(r, "confirm")
  /\ UNCHANGED <<settings, edit, health, row, sent, outcome>>

\* The forwarders pass the call on to the subscription.
Forward(r) ==
  /\ At(r, "bypass")
  /\ sent' = [sent EXCEPT ![r] = @ \union {"oauth"}]
  /\ Go(r, "forwarded")
  /\ UNCHANGED <<settings, edit, health, row, outcome>>

\* Authentication, the diet, and the slow path of the classifier, which may
\* only raise a class the fast path left at none (classify_llm.py).
Confirm(r) ==
  /\ At(r, "confirm")
  /\ \/ Reject(r)
     \/ Go(r, "classify")
     \/ \E class \in {"pii", "secret"} :
          /\ request[r].input.found = "none"
          /\ Update(r, [pc |-> "classify", class |-> class])
  /\ UNCHANGED <<settings, edit, health, row, sent, outcome>>

Classify(r) ==
  /\ At(r, "classify")
  /\ \E policy \in Readable, tier \in Tiers :
       LET input == request[r].input
       IN IF Malformed(input) THEN Reject(r)
          ELSE Update(r, [pc |-> "plugins", policy |-> policy, tier |-> tier,
                          class |-> Sensitivity(input, request[r].class, policy)])
  /\ UNCHANGED <<settings, edit, health, row, sent, outcome>>

\* before_route: the hints of those that answered in time, or none.
Plugins(r) ==
  /\ At(r, "plugins")
  /\ \E hint \in Hints \union {[banned |-> {}, tier |-> "absent", override |-> NoModel]} :
       Update(r, [pc |-> "decide", banned |-> hint.banned, override |-> hint.override,
                  tier |-> IF hint.tier = "absent" THEN request[r].tier ELSE hint.tier])
  /\ UNCHANGED <<settings, edit, health, row, sent, outcome>>

\* The precedence ladder: header or key, plugin, automatic, explicit.  The
\* scorecard may add the model it would pick to the banned ones.
Ladder(r, demoted) ==
  LET q == request[r]
      hard == IF q.input.pinned # NoModel THEN q.input.pinned ELSE q.override
      banned == q.banned \union (IF demoted THEN {Unrated(q.tier).model} ELSE {})
  IN IF hard # NoModel
       THEN [pair |-> [provider |-> "override", model |-> hard], kind |-> "override"]
     ELSE IF q.input.model = "auto"
       THEN [pair |-> Pick(q.tier, banned), kind |-> "auto"]
     ELSE [pair |-> [provider |-> "passthrough", model |-> q.input.model], kind |-> "explicit"]

\* Mutant: the subscription lane is claimed before the boundary is looked at.
DecideLaneFirst(r) ==
  /\ At(r, "decide")
  /\ \E demoted \in BOOLEAN :
       LET chosen == Ladder(r, demoted)
           claimed == /\ LaneState = "on" /\ chosen.pair.model \in Covered
                      /\ chosen.kind = "explicit" /\ ~request[r].input.tools
       IN Update(r, [pc |-> "precapture",
                     decision |->
                       IF claimed THEN [chosen EXCEPT !.pair.provider = "chatgpt-subscription"]
                       ELSE IF Confines(request[r].policy, request[r].class)
                         THEN [pair |-> LocalPair, kind |-> "confidential"]
                       ELSE chosen])
  /\ UNCHANGED <<settings, edit, health, row, sent, outcome>>

\* The ladder, then the boundary, which outranks it, then the ChatGPT lane for
\* explicit models without tools.
Decide(r) ==
  /\ At(r, "decide")
  /\ \E demoted \in BOOLEAN :
       LET q == request[r]
           chosen == Ladder(r, demoted)
           confined == Confines(q.policy, q.class)
           claimed == /\ LaneState # "off" /\ ~confined /\ chosen.kind = "explicit"
                      /\ chosen.pair.model \in Covered /\ ~q.input.tools
       IN \/ /\ (confined /\ ~q.policy.local) \/ (claimed /\ LaneState = "unavailable")
             /\ Reject(r)
          \/ /\ confined /\ q.policy.local
             /\ Update(r, [pc |-> "precapture",
                           decision |-> [pair |-> LocalPair, kind |-> "confidential"]])
          \/ /\ ~confined /\ ~claimed
             /\ Update(r, [pc |-> "precapture", decision |-> chosen])
          \/ /\ claimed /\ LaneState = "on"
             /\ Update(r, [pc |-> "precapture", stream |-> FALSE,
                           decision |-> [chosen EXCEPT !.pair.provider =
                                                         "chatgpt-subscription"]])
  /\ UNCHANGED <<settings, edit, health, row, sent, outcome>>

\* Mutant: the call does not wait for the decision row.
PrecaptureLater(r) ==
  /\ At(r, "precapture")
  /\ Go(r, "call")
  /\ UNCHANGED <<settings, edit, health, row, sent, outcome>>

\* The decision row, or an error of the database and a 500.
Precapture(r) ==
  /\ At(r, "precapture")
  /\ \/ /\ row' = [row EXCEPT ![r] = [decision |-> request[r].decision,
                                      class |-> request[r].class]]
        /\ Go(r, "call")
     \/ /\ Reject(r)
        /\ UNCHANGED row
  /\ UNCHANGED <<settings, edit, health, sent, outcome>>

Send(r) == sent' = [sent EXCEPT ![r] = @ \union {request[r].decision.pair.provider}]

Call(r) ==
  /\ At(r, "call") /\ ~request[r].stream
  /\ Send(r)
  /\ Go(r, "called")
  /\ UNCHANGED <<settings, edit, health, row, outcome>>

Answered(status, empty, disconnected) ==
  [status |-> status, empty |-> empty, disconnected |-> disconnected]

\* The answer, an empty one, or none: an upstream error is not empty.
Answer(r) ==
  /\ At(r, "called")
  /\ \E result \in {Answered("ok", FALSE, FALSE), Answered("ok", TRUE, FALSE),
                    Answered("error", FALSE, FALSE)} :
       Update(r, [pc |-> "persist", result |-> result])
  /\ UNCHANGED <<settings, edit, health, row, sent, outcome>>

\* The body of the response.  A client that leaves before the call is made leaves a row without
\* an outcome: the credentials are read before the block that would write one.
OpenStream(r) ==
  /\ At(r, "call") /\ request[r].stream
  /\ \/ Send(r) /\ Go(r, "streaming")
     \/ UNCHANGED sent /\ Update(r, [pc |-> "done", result |-> Answered("ok", FALSE, TRUE)])
  /\ UNCHANGED <<settings, edit, health, row, outcome>>

\* The stream's finally block: after its end, an error event in it, an upstream
\* error that raises (status 200 all the same), or the client's leaving.
StreamEnds(r) ==
  /\ At(r, "streaming")
  /\ \E result \in {Answered("ok", FALSE, FALSE), Answered("ok", TRUE, FALSE),
                    Answered("error", FALSE, FALSE), Answered("ok", FALSE, TRUE)} :
       Update(r, [pc |-> "persist", result |-> result])
  /\ UNCHANGED <<settings, edit, health, row, sent, outcome>>

\* persist_outcome writes or spools it (module OutcomeSpool); a failure of both
\* is logged.
Persist(r) ==
  /\ At(r, "persist") /\ ~request[r].stream
  /\ outcome' = [outcome EXCEPT ![r] = @ + 1]
  /\ Go(r, "brain")
  /\ UNCHANGED <<settings, edit, health, row, sent>>

\* In the finally block: what was parsed of the captured bytes, however the stream ended.
PersistStream(r) ==
  /\ At(r, "persist") /\ request[r].stream
  /\ outcome' = [outcome EXCEPT ![r] = @ + 1]
  /\ Go(r, "brain")
  /\ UNCHANGED <<settings, edit, health, row, sent>>

\* A client that has left cancels the finally block at its next await.
Cut(r) ==
  /\ request[r].pc \in {"persist", "brain"}
  /\ request[r].result.disconnected
  /\ Go(r, "done")
  /\ UNCHANGED <<settings, edit, health, row, sent, outcome>>

\* The brain layer: the judge and the challenger (modules QualityJudge and
\* ShadowTrials) are sent the prompt again, unless its row says secret.
Mirror(r) ==
  /\ At(r, "brain") /\ ~request[r].stream
  /\ row[r].class # "secret" /\ "mirror" \notin sent[r]
  /\ sent' = [sent EXCEPT ![r] = @ \union {"mirror"}]
  /\ UNCHANGED <<settings, edit, health, request, row, outcome>>

MirrorStream(r) ==
  /\ At(r, "brain") /\ request[r].stream
  /\ row[r].class # "secret" /\ "mirror" \notin sent[r]
  /\ sent' = [sent EXCEPT ![r] = @ \union {"mirror"}]
  /\ UNCHANGED <<settings, edit, health, request, row, outcome>>

\* The brain layer (a judge, a challenger: slow calls) runs before the health is
\* recorded, so requests may record it in another order than they were answered.
Record(r) ==
  LET pair == request[r].decision.pair
  IN health' = IF pair \in Asked
               THEN [health EXCEPT ![pair] = Recorded(@, request[r].result.empty)]
               ELSE health

RecordHealth(r) ==
  /\ At(r, "brain") /\ ~request[r].stream
  /\ Record(r)
  /\ Go(r, "done")
  /\ UNCHANGED <<settings, edit, row, sent, outcome>>

\* Still in the finally block, the record and the hooks behind it.
RecordStreamHealth(r) ==
  /\ At(r, "brain") /\ request[r].stream
  /\ Record(r)
  /\ Go(r, "done")
  /\ UNCHANGED <<settings, edit, row, sent, outcome>>

\* The response is delivered; as after a rejection, the slot is free again.
Finish(r) ==
  /\ request[r].pc \in {"done", "forwarded"}
  /\ request' = [request EXCEPT ![r] = Fresh]
  /\ row' = [row EXCEPT ![r] = NoRow]
  /\ sent' = [sent EXCEPT ![r] = {}]
  /\ outcome' = [outcome EXCEPT ![r] = 0]
  /\ UNCHANGED <<settings, edit, health>>

-----------------------------------------------------------------------------
(* PUT /v1/config: validate against one read, merge into another, write.   *)

\* Mutant: the section is replaced.
MergeReplaced(base, patch) == patch

Merge(base, patch) ==
  [k \in DOMAIN base |-> IF k \in DOMAIN patch THEN patch[k] ELSE base[k]]

Validate(o, patch) ==
  /\ edit[o].pc = "idle"
  /\ \E current \in Readable :
       LET effective == Merge(current, patch)
       IN effective.enabled => effective.local
  /\ edit' = [edit EXCEPT ![o].pc = "merge", ![o].patch = patch]
  /\ UNCHANGED <<settings, health, request, row, sent, outcome>>

ReadAndMerge(o) ==
  /\ edit[o].pc = "merge"
  /\ \E current \in Readable :
       edit' = [edit EXCEPT ![o].pc = "write", ![o].merged = Merge(current, edit[o].patch)]
  /\ UNCHANGED <<settings, health, request, row, sent, outcome>>

\* Requests under way stop being guarded when the stored policy stops guarding.
WriteSettings(o) ==
  /\ edit[o].pc = "write"
  /\ settings' = edit[o].merged
  /\ edit' = [edit EXCEPT ![o] = NoEdit]
  /\ request' = [r \in Requests |->
       [request[r] EXCEPT !.guarded = @ /\ Guards(edit[o].merged, request[r].input)]]
  /\ UNCHANGED <<health, row, sent, outcome>>

-----------------------------------------------------------------------------
Serve(r) ==
  \/ \E input \in Inputs : Arrive(r, input)
  \/ OauthCheck(r) \/ Forward(r) \/ Confirm(r) \/ Classify(r) \/ Plugins(r)
  \/ Decide(r) \/ Precapture(r) \/ Call(r) \/ OpenStream(r) \/ Answer(r) \/ StreamEnds(r)
  \/ Persist(r) \/ PersistStream(r) \/ Mirror(r) \/ MirrorStream(r) \/ Cut(r) \/ RecordHealth(r)
  \/ RecordStreamHealth(r) \/ Finish(r)

Edit(o) ==
  \/ \E patch \in Patches : Validate(o, patch)
  \/ ReadAndMerge(o) \/ WriteSettings(o)

Next == (\E r \in Requests : Serve(r)) \/ (\E o \in Operators : Edit(o))

Spec == Init /\ [][Next]_rpVars

-----------------------------------------------------------------------------
(* Properties.                                                             *)

\* A call whose class the policy of its request confines goes to the local
\* provider and nowhere else, whatever the client, its key or a plugin named
\* (v1.py:458-483).  What the judge is sent is not the call.
ConfidentialStaysLocal ==
  \A r \in Requests :
    Confines(request[r].policy, request[r].class) => sent[r] \subseteq {"lmstudio", "mirror"}

\* No prompt goes through the pipeline without a decision row that names the
\* provider it went to and the class it had, and a call that ended has exactly
\* one outcome unless its client left (v1.py:524, 785, 1066).
EveryCallIsAudited ==
  \A r \in Requests :
    /\ \A p \in sent[r] \ {"oauth", "mirror"} :
         row[r] # NoRow /\ row[r].decision.pair.provider = p /\ row[r].class = request[r].class
    /\ At(r, "done") => outcome[r] = 1 \/ request[r].result.disconnected

\* An automatic choice takes a usable route of its tier if there is one, and the
\* primary if there is none: it never swaps to a route that is banned, owned by
\* a subscription or marked unhealthy (scoring.py:350-378), although marks are
\* set and cleared by other requests while this one waits.
Usable(route, banned) ==
  /\ route # NoRoute
  /\ route.model \notin banned \union Owned
  /\ ~health[route].unhealthy

RoutesAroundBlocked ==
  [][\A r \in Requests :
       At(r, "decide") /\ request'[r].pc = "precapture" /\ request'[r].decision.kind = "auto" =>
         LET primary == Resolve(request[r].tier).primary
             fallback == Resolve(request[r].tier).fallback
             chosen == request'[r].decision.pair
             banned == request[r].banned
         IN IF Usable(primary, banned) \/ Usable(fallback, banned)
            THEN Usable(chosen, banned) ELSE chosen = primary]_rpVars

\* What app_config.py:47 says of the boundary: "once enabled, matching traffic
\* can never fall back to cloud".  A request is guarded while the stored policy
\* has confined it ever since it arrived.  The code lets it out where a read of
\* the settings fails, past the OAuth bypasses and to the judge.
NeverFallsBackToCloud ==
  \A r \in Requests : request[r].guarded => sent[r] \subseteq {"lmstudio"}

==============================================================================
