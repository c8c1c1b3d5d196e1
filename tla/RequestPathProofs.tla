-------------------------- MODULE RequestPathProofs --------------------------
(*****************************************************************************)
(* TLAPS proofs of what happens to a prompt and to its answer, for any       *)
(* requests, table, plugins, settings, times and tool calls: on the routed   *)
(* path (RequestPath), on the forwarders (Forwarding), in the bodies that    *)
(* are kept of it (BodyCapture), in the translated stream                    *)
(* (StreamTranslation) and in the translated history (Conversations).        *)
(*****************************************************************************)
EXTENDS RequestPath, Forwarding, BodyCapture, StreamTranslation, Conversations, SumTheorems,
        SequenceTheorems, TLAPS

(*****************************************************************************)
(* RequestPath: a call that is confined goes to the local provider, every call *)
(* has its row before it leaves, and the router passes by what is blocked.   *)
(*****************************************************************************)

Fields == {"pc", "input", "class", "policy", "tier", "override", "banned", "decision", "result",
           "stream", "guarded"}

Unclassified == {"oauth_check", "confirm", "classify", "bypass"}
Undecided == {"plugins", "decide"}
RowKept == {"call", "called", "streaming", "persist", "brain", "done"}

OverRequests(f) == f = [r \in Requests |-> f[r]]

\* A request, its row, where its prompt went and its outcomes, stage by stage.
Holds(q, written, prompted, outcomes) ==
  /\ DOMAIN q = Fields
  /\ q.pc \in {"idle", "forwarded", "precapture"} \union Unclassified \union Undecided \union RowKept
  /\ q.pc \in {"idle", "forwarded"} \union Unclassified => q.policy = DefaultPolicy
  /\ q.pc \in Unclassified => q.input \in Inputs
  /\ q.pc # "idle" => q.class \in Classes
  /\ q.pc \notin RowKept => written = NoRow /\ prompted \subseteq {"oauth"} /\ outcomes = 0
  /\ q.pc \notin {"forwarded"} \union RowKept => prompted = {}
  /\ q.pc \in {"precapture"} \union RowKept =>
       (Confines(q.policy, q.class) => q.decision.pair = LocalPair)
  /\ q.pc \in RowKept =>
       /\ written = [decision |-> q.decision, class |-> q.class]
       /\ prompted \subseteq {q.decision.pair.provider, "mirror"}
  /\ q.pc \in {"call", "called", "streaming", "persist"} => outcomes = 0
  /\ q.pc = "brain" => outcomes = 1
  /\ q.pc = "done" => outcomes = 1 \/ q.result.disconnected

PathInv ==
  /\ OverRequests(request) /\ OverRequests(row) /\ OverRequests(sent) /\ OverRequests(outcome)
  /\ \A r \in Requests : Holds(request[r], row[r], sent[r], outcome[r])

------------------------------------------------------------------------------

\* A slot that waits for a request.
LEMMA FreshHolds == Holds(Fresh, NoRow, {}, 0) /\ Fresh.policy = DefaultPolicy /\ DOMAIN Fresh = Fields
BY DEF Holds, Fresh, Fields, Unclassified, Undecided, RowKept

\* The invariant holds at the start.
LEMMA PathInitially == Init => PathInv
BY FreshHolds DEF Init, PathInv, OverRequests

\* What a step makes of one slot.
Becomes(r, q, written, prompted, outcomes) ==
  /\ request' = [request EXCEPT ![r] = q]
  /\ row' = [row EXCEPT ![r] = written]
  /\ sent' = [sent EXCEPT ![r] = prompted]
  /\ outcome' = [outcome EXCEPT ![r] = outcomes]

\* One request's step that leaves it in a stage it may be in.
LEMMA OneSlot ==
  ASSUME PathInv, NEW r \in Requests, NEW q, NEW written, NEW prompted, NEW outcomes,
         Becomes(r, q, written, prompted, outcomes),
         Holds(q, written, prompted, outcomes)
  PROVE  PathInv'
<1>1. OverRequests(request)' /\ OverRequests(row)' /\ OverRequests(sent)' /\ OverRequests(outcome)'
  BY DEF Becomes, PathInv, OverRequests
<1>2. ASSUME NEW x \in Requests PROVE Holds(request'[x], row'[x], sent'[x], outcome'[x])
  <2>1. CASE x = r
    BY <2>1 DEF Becomes, PathInv, OverRequests
  <2>2. CASE x # r
    <3>1. request'[x] = request[x] /\ row'[x] = row[x] /\ sent'[x] = sent[x]
          /\ outcome'[x] = outcome[x]
      BY <2>2 DEF Becomes, PathInv, OverRequests
    <3>2. Holds(request[x], row[x], sent[x], outcome[x])
      BY DEF PathInv
    <3> QED BY <3>1, <3>2
  <2> QED BY <2>1, <2>2
<1> QED BY <1>1, <1>2 DEF PathInv

\* What stays of a slot is rewritten to itself.
LEMMA OfSlot ==
  ASSUME PathInv, NEW r \in Requests
  PROVE  /\ Holds(request[r], row[r], sent[r], outcome[r])
         /\ row = [row EXCEPT ![r] = row[r]]
         /\ sent = [sent EXCEPT ![r] = sent[r]]
         /\ outcome = [outcome EXCEPT ![r] = outcome[r]]
BY DEF PathInv, OverRequests

\* A request whose fields are updated.
Updated(q, fields) == [f \in DOMAIN q |-> IF f \in DOMAIN fields THEN fields[f] ELSE q[f]]

\* A step that only moves the request and leaves its accounts.
LEMMA Moves ==
  ASSUME PathInv, NEW r \in Requests, NEW q,
         request' = [request EXCEPT ![r] = q],
         UNCHANGED <<row, sent, outcome>>,
         Holds(q, row[r], sent[r], outcome[r])
  PROVE  PathInv'
<1>1. Becomes(r, q, row[r], sent[r], outcome[r])
  BY OfSlot DEF Becomes
<1> QED BY <1>1, OneSlot

\* An update is a step of the request.
LEMMA Updates ==
  ASSUME PathInv, NEW r \in Requests, NEW fields, Update(r, fields)
  PROVE  request' = [request EXCEPT ![r] = Updated(request[r], fields)]
BY DEF Update, Updated, PathInv, OverRequests

\* A request that is rejected before its call leaves nothing behind.
LEMMA Rejected ==
  ASSUME PathInv, NEW r \in Requests, Reject(r), UNCHANGED <<row, sent, outcome>>,
         request[r].pc \in {"precapture"} \union Undecided \union {"oauth_check", "confirm", "classify"},
         sent[r] = {}
  PROVE  PathInv'
<1>1. request' = [request EXCEPT ![r] = Fresh]
  BY DEF Reject
<1>2. row[r] = NoRow /\ outcome[r] = 0
  BY OfSlot DEF Holds, RowKept, Undecided
<1> QED BY <1>1, <1>2, FreshHolds, Moves

\* The strictest of some classes is one of them.
LEMMA StrictestIsClass ==
  ASSUME NEW S \in SUBSET Classes, S # {} PROVE Strictest(S) \in Classes
<1>1. \E c \in S : \A d \in S : Rank[d] <= Rank[c]
  <2>1. Rank["none"] = 0 /\ Rank["pii"] = 1 /\ Rank["secret"] = 2
    BY DEF Rank
  <2>2. CASE "secret" \in S
    BY <2>1, <2>2 DEF Classes
  <2>3. CASE "secret" \notin S /\ "pii" \in S
    BY <2>1, <2>3 DEF Classes
  <2>4. CASE S = {"none"}
    BY <2>1, <2>4
  <2> QED BY <2>2, <2>3, <2>4 DEF Classes
<1> QED BY <1>1 DEF Strictest

\* A request has a class.
LEMMA SensitivityIsClass ==
  ASSUME NEW input \in Inputs, NEW base \in Classes, NEW policy
  PROVE  Sensitivity(input, base, policy) \in Classes
<1> DEFINE S == {base, input.found}
                  \union (IF policy.enabled /\ policy.bowden /\ input.bowden THEN {"pii"} ELSE {})
                  \union ({input.declared} \intersect Classes)
<1>1. input.found \in Classes
  BY RequestPathAssumption DEF InputType
<1>2. S \in SUBSET Classes /\ S # {}
  BY <1>1 DEF Classes
<1> HIDE DEF S
<1>3. Strictest(S) \in Classes
  BY <1>2, StrictestIsClass
<1> QED BY <1>3 DEF Sensitivity, S

\* The steps until a request has its class.
LEMMA Entering ==
  ASSUME PathInv, NEW r \in Requests,
         \/ \E input \in Inputs : Arrive(r, input)
         \/ OauthCheck(r) \/ Confirm(r) \/ Classify(r)
  PROVE  PathInv'
<1>1. Holds(request[r], row[r], sent[r], outcome[r])
  BY OfSlot
<1>2. UNCHANGED <<row, sent, outcome>>
  BY DEF Arrive, OauthCheck, Confirm, Classify
<1>3. request[r].pc \in {"idle", "oauth_check", "confirm", "classify"}
  BY DEF Arrive, OauthCheck, Confirm, Classify, At
<1>4. sent[r] = {} /\ row[r] = NoRow /\ outcome[r] = 0 /\ DOMAIN request[r] = Fields
      /\ request[r].policy = DefaultPolicy
  BY <1>1, <1>3 DEF Holds, RowKept, Unclassified
<1>5. CASE \E input \in Inputs : Arrive(r, input)
  <2>1. PICK input \in Inputs : Arrive(r, input)
    BY <1>5
  <2>2. PICK stream \in BOOLEAN, pc \in Unclassified :
          Update(r, [Fresh EXCEPT !.input = input, !.stream = stream,
                                  !.guarded = Guards(settings, input), !.pc = pc])
    BY <2>1 DEF Arrive, Unclassified
  <2> DEFINE fields == [Fresh EXCEPT !.input = input, !.stream = stream,
                                     !.guarded = Guards(settings, input), !.pc = pc]
  <2>3. DOMAIN fields = Fields /\ fields.pc = pc /\ fields.input = input
        /\ fields.policy = DefaultPolicy /\ fields.class = "none"
    BY DEF Fresh, Fields
  <2>4. request' = [request EXCEPT ![r] = Updated(request[r], fields)]
    BY <2>2, Updates
  <2> HIDE DEF fields
  <2> DEFINE q == Updated(request[r], fields)
  <2>5. DOMAIN q = Fields /\ q.pc = pc /\ q.input = input /\ q.policy = DefaultPolicy
        /\ q.class = "none"
    BY <1>4, <2>3 DEF Updated, Fields
  <2> HIDE DEF q
  <2>6. Holds(q, row[r], sent[r], outcome[r])
    BY <1>4, <2>5 DEF Holds, Unclassified, Undecided, RowKept, Classes
  <2> QED BY <1>2, <2>4, <2>6, Moves DEF q
<1>6. CASE OauthCheck(r) \/ Confirm(r)
  <2>1. CASE Reject(r)
    BY <1>2, <1>3, <1>4, <1>6, <2>1, Rejected DEF OauthCheck, Confirm, At
  <2>2. CASE \E pc \in {"bypass", "confirm", "classify"} : Go(r, pc)
    <3>1. PICK pc \in {"bypass", "confirm", "classify"} : Update(r, [pc |-> pc])
      BY <2>2 DEF Go
    <3> DEFINE q == Updated(request[r], [pc |-> pc])
    <3>2. request' = [request EXCEPT ![r] = q]
      BY <3>1, Updates
    <3>3. DOMAIN q = Fields /\ q.pc = pc /\ q.input = request[r].input
          /\ q.policy = DefaultPolicy /\ q.class = request[r].class
      BY <1>4 DEF Updated, Fields
    <3>4. request[r].pc \in Unclassified
      BY <1>6 DEF OauthCheck, Confirm, At, Unclassified
    <3> HIDE DEF q
    <3>5. Holds(q, row[r], sent[r], outcome[r])
      BY <1>1, <1>4, <3>3, <3>4 DEF Holds, Unclassified, Undecided, RowKept
    <3> QED BY <1>2, <3>2, <3>5, Moves
  <2>3. CASE \E class \in {"pii", "secret"} : Update(r, [pc |-> "classify", class |-> class])
    <3>1. PICK class \in {"pii", "secret"} : Update(r, [pc |-> "classify", class |-> class])
      BY <2>3
    <3> DEFINE q == Updated(request[r], [pc |-> "classify", class |-> class])
    <3>2. request' = [request EXCEPT ![r] = q]
      BY <3>1, Updates
    <3>3. DOMAIN q = Fields /\ q.pc = "classify" /\ q.input = request[r].input
          /\ q.policy = DefaultPolicy /\ q.class = class
      BY <1>4 DEF Updated, Fields
    <3>4. request[r].pc \in Unclassified
      BY <1>6 DEF OauthCheck, Confirm, At, Unclassified
    <3> HIDE DEF q
    <3>5. Holds(q, row[r], sent[r], outcome[r])
      BY <1>1, <1>4, <3>3, <3>4 DEF Holds, Unclassified, Undecided, RowKept, Classes
    <3> QED BY <1>2, <3>2, <3>5, Moves
  <2> QED BY <1>6, <2>1, <2>2, <2>3 DEF OauthCheck, Confirm
<1>7. CASE Classify(r)
  <2>1. CASE Reject(r)
    BY <1>2, <1>3, <1>4, <1>7, <2>1, Rejected DEF Classify, At
  <2>2. CASE ~Reject(r)
    <3>1. PICK policy, tier :
            Update(r, [pc |-> "plugins", policy |-> policy, tier |-> tier,
                       class |-> Sensitivity(request[r].input, request[r].class, policy)])
      BY <1>7, <2>2 DEF Classify
    <3> DEFINE class == Sensitivity(request[r].input, request[r].class, policy)
               fields == [pc |-> "plugins", policy |-> policy, tier |-> tier, class |-> class]
               q == Updated(request[r], fields)
    <3>2. request' = [request EXCEPT ![r] = q]
      BY <3>1, Updates
    <3>3. request[r].input \in Inputs /\ request[r].class \in Classes
      BY <1>1, <1>7 DEF Classify, At, Holds, Unclassified
    <3>4. class \in Classes
      BY <3>3, SensitivityIsClass
    <3> HIDE DEF class
    <3>5. DOMAIN q = Fields /\ q.pc = "plugins" /\ q.class = class
      BY <1>4 DEF Updated, Fields
    <3> HIDE DEF q
    <3>6. Holds(q, row[r], sent[r], outcome[r])
      BY <1>4, <3>4, <3>5 DEF Holds, Unclassified, Undecided, RowKept
    <3> QED BY <1>2, <3>2, <3>6, Moves
  <2> QED BY <2>1, <2>2
<1> QED BY <1>5, <1>6, <1>7

\* The OAuth bypasses.
LEMMA Bypassing ==
  ASSUME PathInv, NEW r \in Requests, Forward(r) PROVE PathInv'
<1> DEFINE q == Updated(request[r], [pc |-> "forwarded"])
<1>1. Holds(request[r], row[r], sent[r], outcome[r]) /\ request[r].pc = "bypass"
  BY OfSlot DEF Forward, At
<1>2. request' = [request EXCEPT ![r] = q]
  BY Updates DEF Forward, Go
<1>3. DOMAIN q = Fields /\ q.pc = "forwarded" /\ q.policy = request[r].policy
      /\ q.class = request[r].class
  BY <1>1 DEF Updated, Holds, Fields
<1> HIDE DEF q
<1>4. Holds(q, row[r], sent[r] \union {"oauth"}, outcome[r])
  BY <1>1, <1>3 DEF Holds, Unclassified, Undecided, RowKept
<1>5. Becomes(r, q, row[r], sent[r] \union {"oauth"}, outcome[r])
  BY <1>2, OfSlot DEF Becomes, Forward
<1> QED BY <1>4, <1>5, OneSlot

\* The choice of a route: what the plugins answer changes neither class nor policy, and what
\* the policy confines leaves the ladder for the local model.
LEMMA Choosing ==
  ASSUME PathInv, NEW r \in Requests, Plugins(r) \/ Decide(r) PROVE PathInv'
<1>1. Holds(request[r], row[r], sent[r], outcome[r])
  BY OfSlot
<1>2. UNCHANGED <<row, sent, outcome>>
  BY DEF Plugins, Decide
<1>3. request[r].pc \in Undecided
  BY DEF Plugins, Decide, At, Undecided
<1>4. sent[r] = {} /\ row[r] = NoRow /\ outcome[r] = 0 /\ DOMAIN request[r] = Fields
      /\ request[r].class \in Classes
  BY <1>1, <1>3 DEF Holds, RowKept, Undecided
<1>5. CASE Plugins(r)
  <2>1. PICK banned, override, tier :
          Update(r, [pc |-> "decide", banned |-> banned, override |-> override, tier |-> tier])
    BY <1>5 DEF Plugins
  <2> DEFINE q == Updated(request[r], [pc |-> "decide", banned |-> banned,
                                       override |-> override, tier |-> tier])
  <2>2. request' = [request EXCEPT ![r] = q]
    BY <2>1, Updates
  <2>3. DOMAIN q = Fields /\ q.pc = "decide" /\ q.class = request[r].class
    BY <1>4 DEF Updated, Fields
  <2> HIDE DEF q
  <2>4. Holds(q, row[r], sent[r], outcome[r])
    BY <1>4, <2>3 DEF Holds, Unclassified, Undecided, RowKept
  <2> QED BY <1>2, <2>2, <2>4, Moves
<1>6. CASE Decide(r) /\ Reject(r)
  BY <1>2, <1>3, <1>4, <1>6, Rejected
<1>7. CASE Decide(r) /\ ~Reject(r)
  <2>1. PICK fields :
          /\ Update(r, fields)
          /\ DOMAIN fields \subseteq {"pc", "decision", "stream"}
          /\ "pc" \in DOMAIN fields /\ "decision" \in DOMAIN fields
          /\ fields.pc = "precapture"
          /\ Confines(request[r].policy, request[r].class) => fields.decision.pair = LocalPair
    <3> DEFINE confined == Confines(request[r].policy, request[r].class)
               local == [pc |-> "precapture",
                         decision |-> [pair |-> LocalPair, kind |-> "confidential"]]
               plain(chosen) == [pc |-> "precapture", decision |-> chosen]
               lane(chosen) == [pc |-> "precapture", stream |-> FALSE,
                                decision |-> [chosen EXCEPT !.pair.provider =
                                                              "chatgpt-subscription"]]
    <3>1. PICK demoted \in BOOLEAN :
            \/ confined /\ Update(r, local)
            \/ ~confined /\ Update(r, plain(Ladder(r, demoted)))
            \/ ~confined /\ Update(r, lane(Ladder(r, demoted)))
      <4> HIDE DEF Ladder
      <4> QED BY <1>7, Zenon DEF Decide
    <3> DEFINE chosen == Ladder(r, demoted)
    <3> HIDE DEF chosen
    <3>2. CASE confined /\ Update(r, local)
      BY <3>2
    <3>3. CASE ~confined /\ Update(r, plain(chosen))
      BY <3>3
    <3>4. CASE ~confined /\ Update(r, lane(chosen))
      BY <3>4
    <3> QED BY <3>1, <3>2, <3>3, <3>4 DEF chosen
  <2> DEFINE q == Updated(request[r], fields)
  <2>2. request' = [request EXCEPT ![r] = q]
    BY <2>1, Updates
  <2>3. /\ DOMAIN q = Fields /\ q.pc = "precapture" /\ q.decision = fields.decision
        /\ q.class = request[r].class /\ q.policy = request[r].policy
    BY <1>4, <2>1 DEF Updated, Fields
  <2> HIDE DEF q
  <2>4. Holds(q, row[r], sent[r], outcome[r])
    BY <1>4, <2>1, <2>3 DEF Holds, Unclassified, Undecided, RowKept
  <2> QED BY <1>2, <2>2, <2>4, Moves
<1> QED BY <1>5, <1>6, <1>7

\* The decision row, from which on it and the request agree.
LEMMA Storing ==
  ASSUME PathInv, NEW r \in Requests, Precapture(r) PROVE PathInv'
<1>1. Holds(request[r], row[r], sent[r], outcome[r]) /\ request[r].pc = "precapture"
  BY OfSlot DEF Precapture, At
<1>2. sent[r] = {} /\ outcome[r] = 0 /\ DOMAIN request[r] = Fields
  BY <1>1 DEF Holds, RowKept
<1>3. CASE Reject(r) /\ UNCHANGED row
  BY <1>1, <1>2, <1>3, Rejected DEF Precapture
<1>4. CASE Go(r, "call") /\ row' = [row EXCEPT ![r] = [decision |-> request[r].decision,
                                                      class |-> request[r].class]]
  <2> DEFINE q == Updated(request[r], [pc |-> "call"])
             written == [decision |-> request[r].decision, class |-> request[r].class]
  <2>1. request' = [request EXCEPT ![r] = q]
    BY <1>4, Updates DEF Go
  <2>2. /\ DOMAIN q = Fields /\ q.pc = "call" /\ q.policy = request[r].policy
        /\ q.class = request[r].class /\ q.decision = request[r].decision
    BY <1>2 DEF Updated, Fields
  <2>3. Becomes(r, q, written, sent[r], outcome[r])
    BY <1>4, <2>1, OfSlot DEF Becomes, Precapture
  <2> HIDE DEF q
  <2>4. Holds(q, written, sent[r], outcome[r])
    BY <1>1, <1>2, <2>2 DEF Holds, Unclassified, Undecided, RowKept
  <2> HIDE DEF written
  <2> QED BY <2>3, <2>4, OneSlot
<1> QED BY <1>3, <1>4 DEF Precapture

\* A request with its row goes from one stage to another.
LEMMA GoesOn ==
  ASSUME PathInv, NEW r \in Requests, NEW fields, NEW prompted, NEW outcomes,
         request[r].pc \in RowKept,
         Update(r, fields), DOMAIN fields \subseteq {"pc", "result"}, "pc" \in DOMAIN fields,
         fields.pc \in RowKept,
         UNCHANGED row,
         sent' = [sent EXCEPT ![r] = prompted],
         prompted \subseteq sent[r] \union {request[r].decision.pair.provider, "mirror"},
         outcome' = [outcome EXCEPT ![r] = outcomes],
         fields.pc \in {"call", "called", "streaming", "persist"} => outcomes = 0,
         fields.pc = "brain" => outcomes = 1,
         fields.pc = "done" => outcomes = 1 \/ Updated(request[r], fields).result.disconnected
  PROVE  PathInv'
<1> DEFINE q == Updated(request[r], fields)
<1>1. Holds(request[r], row[r], sent[r], outcome[r])
  BY OfSlot
<1>2. request' = [request EXCEPT ![r] = q]
  BY Updates
<1>3. /\ DOMAIN q = Fields /\ q.pc = fields.pc /\ q.policy = request[r].policy
      /\ q.class = request[r].class /\ q.decision = request[r].decision
  BY <1>1 DEF Updated, Fields, Holds
<1>4. Becomes(r, q, row[r], prompted, outcomes)
  BY <1>2, OfSlot DEF Becomes
<1>5. fields.pc = "done" => outcomes = 1 \/ q.result.disconnected
  OBVIOUS
<1> HIDE DEF q
<1>6. Holds(q, row[r], prompted, outcomes)
  BY <1>1, <1>3, <1>5 DEF Holds, Unclassified, Undecided, RowKept
<1> QED BY <1>4, <1>6, OneSlot

\* The call, its answer, the outcome, the brain and the record of the health.
LEMMA Serving ==
  ASSUME PathInv, NEW r \in Requests,
         \/ Call(r) \/ OpenStream(r) \/ Answer(r) \/ StreamEnds(r) \/ Persist(r)
         \/ PersistStream(r) \/ Cut(r) \/ RecordHealth(r) \/ RecordStreamHealth(r)
  PROVE  PathInv'
<1>1. Holds(request[r], row[r], sent[r], outcome[r])
  BY OfSlot
<1>2. /\ request[r].pc \in RowKept /\ UNCHANGED row
      /\ sent = [sent EXCEPT ![r] = sent[r]] /\ outcome = [outcome EXCEPT ![r] = outcome[r]]
  BY OfSlot DEF Call, OpenStream, Answer, StreamEnds, Persist, PersistStream, Cut, RecordHealth,
                RecordStreamHealth, At, RowKept
<1>3. DOMAIN request[r] = Fields
  BY <1>1 DEF Holds
<1> DEFINE prompted == sent[r] \union {request[r].decision.pair.provider}
<1>4. CASE Call(r) \/ (OpenStream(r) /\ Send(r) /\ Go(r, "streaming"))
  <2>1. PICK pc \in {"called", "streaming"} : Update(r, [pc |-> pc])
    BY <1>4 DEF Call, Go
  <2>2. sent' = [sent EXCEPT ![r] = prompted] /\ request[r].pc = "call" /\ UNCHANGED outcome
    BY <1>4 DEF Call, OpenStream, Send, At
  <2>3. outcome[r] = 0
    BY <1>1, <2>2 DEF Holds
  <2> DEFINE fields == [pc |-> pc]
  <2>4. DOMAIN fields = {"pc"} /\ fields.pc = pc /\ Update(r, fields)
    BY <2>1
  <2>5. outcome' = [outcome EXCEPT ![r] = outcome[r]]
    BY <1>2, <2>2
  <2>6. prompted \subseteq sent[r] \union {request[r].decision.pair.provider, "mirror"}
    OBVIOUS
  <2>7. fields.pc \in RowKept /\ fields.pc \notin {"brain", "done"}
    BY <2>4 DEF RowKept
  <2> HIDE DEF fields, prompted
  <2> QED BY <1>2, <2>2, <2>3, <2>4, <2>5, <2>6, <2>7, GoesOn
<1>5. CASE \/ Answer(r) \/ StreamEnds(r)
           \/ /\ OpenStream(r) /\ UNCHANGED sent
              /\ Update(r, [pc |-> "done", result |-> Answered("ok", FALSE, TRUE)])
  <2>1. PICK fields : /\ Update(r, fields) /\ DOMAIN fields = {"pc", "result"}
                      /\ fields.pc \in {"persist", "done"}
                      /\ fields.pc = "done" => fields.result = Answered("ok", FALSE, TRUE)
    <3>1. CASE Answer(r) \/ StreamEnds(r)
      <4>1. PICK answer : Update(r, [pc |-> "persist", result |-> answer])
        BY <3>1 DEF Answer, StreamEnds
      <4> DEFINE fields == [pc |-> "persist", result |-> answer]
      <4>2. Update(r, fields) /\ DOMAIN fields = {"pc", "result"} /\ fields.pc = "persist"
        BY <4>1
      <4> HIDE DEF fields
      <4> QED BY <4>2
    <3>2. CASE Update(r, [pc |-> "done", result |-> Answered("ok", FALSE, TRUE)])
      <4> DEFINE fields == [pc |-> "done", result |-> Answered("ok", FALSE, TRUE)]
      <4>1. /\ Update(r, fields) /\ DOMAIN fields = {"pc", "result"} /\ fields.pc = "done"
            /\ fields.result = Answered("ok", FALSE, TRUE)
        BY <3>2
      <4> HIDE DEF fields
      <4> QED BY <4>1
    <3> QED BY <1>5, <3>1, <3>2
  <2>2. UNCHANGED <<sent, outcome>> /\ request[r].pc \in {"call", "called", "streaming"}
    BY <1>5 DEF Answer, StreamEnds, OpenStream, At
  <2>3. outcome[r] = 0
    BY <1>1, <2>2 DEF Holds
  <2>4. fields.pc = "done" => Updated(request[r], fields).result.disconnected
    BY <1>3, <2>1 DEF Updated, Fields, Answered
  <2> QED BY <1>2, <2>1, <2>2, <2>3, <2>4, GoesOn DEF RowKept
<1>6. CASE Persist(r) \/ PersistStream(r)
  <2>1. /\ Update(r, [pc |-> "brain"]) /\ UNCHANGED sent /\ request[r].pc = "persist"
        /\ outcome' = [outcome EXCEPT ![r] = outcome[r] + 1]
    BY <1>6 DEF Persist, PersistStream, Go, At
  <2>2. outcome[r] = 0
    BY <1>1, <2>1 DEF Holds
  <2> DEFINE outcomes == outcome[r] + 1
  <2>3. outcomes = 1 /\ outcome' = [outcome EXCEPT ![r] = outcomes]
    BY <2>1, <2>2
  <2> DEFINE fields == [pc |-> "brain"]
  <2>4. DOMAIN fields = {"pc"} /\ fields.pc = "brain" /\ Update(r, fields)
    BY <2>1
  <2>5. sent' = [sent EXCEPT ![r] = sent[r]]
    BY <1>2, <2>1
  <2>6. sent[r] \subseteq sent[r] \union {request[r].decision.pair.provider, "mirror"}
    OBVIOUS
  <2>7. fields.pc \in RowKept /\ fields.pc \notin {"call", "called", "streaming", "persist", "done"}
    BY <2>4 DEF RowKept
  <2> HIDE DEF fields, outcomes
  <2> QED BY <1>2, <2>3, <2>4, <2>5, <2>6, <2>7, GoesOn
<1>7. CASE Cut(r) \/ RecordHealth(r) \/ RecordStreamHealth(r)
  <2>1. Update(r, [pc |-> "done"]) /\ UNCHANGED <<sent, outcome>>
    BY <1>7 DEF Cut, RecordHealth, RecordStreamHealth, Go
  <2>2. outcome[r] = 1 \/ request[r].result.disconnected
    BY <1>1, <1>7 DEF Cut, RecordHealth, RecordStreamHealth, At, Holds
  <2> DEFINE fields == [pc |-> "done"]
  <2>3. DOMAIN fields = {"pc"} /\ fields.pc = "done" /\ Update(r, fields)
    BY <2>1
  <2>4. Updated(request[r], fields).result = request[r].result
    BY <1>3 DEF Updated, Fields
  <2> HIDE DEF fields
  <2> QED BY <1>2, <2>1, <2>2, <2>3, <2>4, GoesOn DEF RowKept
<1>8. CASE OpenStream(r)
  BY <1>4, <1>5, <1>8 DEF OpenStream
<1> QED BY <1>4, <1>5, <1>6, <1>7, <1>8

\* The judge and the challenger are sent the prompt again, and nobody else is.
LEMMA Mirroring ==
  ASSUME PathInv, NEW r \in Requests, Mirror(r) \/ MirrorStream(r) PROVE PathInv'
<1>1. Holds(request[r], row[r], sent[r], outcome[r]) /\ request[r].pc = "brain"
  BY OfSlot DEF Mirror, MirrorStream, At
<1>2. request = [request EXCEPT ![r] = request[r]]
  BY DEF PathInv, OverRequests
<1>3. Becomes(r, request[r], row[r], sent[r] \union {"mirror"}, outcome[r])
  BY <1>2, OfSlot DEF Becomes, Mirror, MirrorStream
<1>4. Holds(request[r], row[r], sent[r] \union {"mirror"}, outcome[r])
  BY <1>1 DEF Holds, RowKept, Unclassified, Undecided
<1> QED BY <1>3, <1>4, OneSlot

\* An edit of the settings leaves every request its class and its policy.
LEMMA Editing ==
  ASSUME PathInv, NEW o \in Operators, Edit(o) PROVE PathInv'
<1>1. UNCHANGED <<row, sent, outcome>>
  BY DEF Edit, Validate, ReadAndMerge, WriteSettings
<1>2. CASE UNCHANGED request
  BY <1>1, <1>2 DEF PathInv, OverRequests
<1>3. CASE WriteSettings(o)
  <2>1. request' = [r \in Requests |->
          [request[r] EXCEPT !.guarded = @ /\ Guards(edit[o].merged, request[r].input)]]
    BY <1>3 DEF WriteSettings
  <2>2. ASSUME NEW r \in Requests PROVE Holds(request'[r], row[r], sent[r], outcome[r])
    <3> DEFINE q == [request[r] EXCEPT !.guarded = @ /\ Guards(edit[o].merged, request[r].input)]
    <3>1. Holds(request[r], row[r], sent[r], outcome[r]) /\ request'[r] = q
      BY <2>1, OfSlot
    <3>2. DOMAIN q = Fields /\ \A f \in Fields \ {"guarded"} : q[f] = request[r][f]
      BY <3>1 DEF Holds
    <3>3. /\ q.pc = request[r].pc /\ q.input = request[r].input /\ q.class = request[r].class
          /\ q.policy = request[r].policy /\ q.decision = request[r].decision
          /\ q.result = request[r].result
      BY <3>2 DEF Fields
    <3> HIDE DEF q
    <3>4. Holds(q, row[r], sent[r], outcome[r])
      BY <3>1, <3>2, <3>3 DEF Holds
    <3> QED BY <3>1, <3>4
  <2>3. OverRequests(request)'
    BY <2>1 DEF OverRequests
  <2> QED BY <1>1, <2>2, <2>3 DEF PathInv, OverRequests
<1> QED BY <1>2, <1>3 DEF Edit, Validate, ReadAndMerge

\* Every step keeps the invariant.
LEMMA PathStep == PathInv /\ [Next]_rpVars => PathInv'
<1> SUFFICES ASSUME PathInv, [Next]_rpVars PROVE PathInv'
  OBVIOUS
<1>1. CASE UNCHANGED rpVars
  BY <1>1 DEF rpVars, PathInv, OverRequests
<1>2. CASE \E r \in Requests : Serve(r)
  <2>1. PICK r \in Requests : Serve(r)
    BY <1>2
  <2>2. CASE Finish(r)
    <3>1. Becomes(r, Fresh, NoRow, {}, 0)
      BY <2>2 DEF Finish, Becomes
    <3> QED BY <3>1, FreshHolds, OneSlot
  <2> QED BY <2>1, <2>2, Entering, Bypassing, Choosing, Storing, Serving, Mirroring DEF Serve
<1>3. CASE \E o \in Operators : Edit(o)
  BY <1>3, Editing
<1> QED BY <1>1, <1>2, <1>3 DEF Next

\* The invariant holds of every reachable state.
LEMMA PathAlways == Spec => []PathInv
BY PathInitially, PathStep, PTL DEF Spec

\* Whatever the client, its key or the plugins name, and however operators edit the settings
\* meanwhile, a call that the policy of its request confines goes to the local provider and
\* nowhere else, the judge apart (v1.py:458-483).
THEOREM ConfinedStaysLocal == Spec => []ConfidentialStaysLocal
<1>1. PathInv => ConfidentialStaysLocal
  <2> SUFFICES ASSUME PathInv, NEW r \in Requests, Confines(request[r].policy, request[r].class)
               PROVE  sent[r] \subseteq {"lmstudio", "mirror"}
    BY DEF ConfidentialStaysLocal
  <2>1. Holds(request[r], row[r], sent[r], outcome[r])
    BY OfSlot
  <2>2. request[r].policy # DefaultPolicy
    BY DEF Confines, DefaultPolicy
  <2>3. CASE request[r].pc \in RowKept
    BY <2>1, <2>3 DEF Holds, LocalPair
  <2>4. CASE request[r].pc \notin RowKept
    BY <2>1, <2>2, <2>4 DEF Holds
  <2> QED BY <2>3, <2>4
<1> QED BY <1>1, PathAlways, PTL

\* No prompt goes through the pipeline without the row that names its provider and its class,
\* and a call that ended has its one outcome unless its client left (v1.py:524, 785, 1066).
THEOREM CallsAreAudited == Spec => []EveryCallIsAudited
<1>1. PathInv => EveryCallIsAudited
  <2> SUFFICES ASSUME PathInv, NEW r \in Requests
               PROVE  /\ \A p \in sent[r] \ {"oauth", "mirror"} :
                           /\ row[r] # NoRow
                           /\ row[r].decision.pair.provider = p /\ row[r].class = request[r].class
                      /\ At(r, "done") => outcome[r] = 1 \/ request[r].result.disconnected
    BY DEF EveryCallIsAudited
  <2>1. Holds(request[r], row[r], sent[r], outcome[r])
    BY OfSlot
  <2>2. CASE request[r].pc \in RowKept
    <3>1. row[r].class = request[r].class /\ row[r].decision = request[r].decision
          /\ request[r].class \in Classes
      BY <2>1, <2>2 DEF Holds, RowKept
    <3>2. row[r] # NoRow
      BY <3>1 DEF NoRow, Classes
    <3> QED BY <2>1, <2>2, <3>1, <3>2 DEF Holds, At
  <2>3. CASE request[r].pc \notin RowKept
    BY <2>1, <2>3 DEF Holds, RowKept, At
  <2> QED BY <2>2, <2>3
<1> QED BY <1>1, PathAlways, PTL

\* The table as config/routing.yaml ships it: a tier's routes share a provider,
\* and no primary is a model of a subscription.
OrdinaryTable ==
  \A t \in Tiers :
    \E provider, model, other :
      /\ Table[t].primary = [provider |-> provider, model |-> model]
      /\ model \notin Owned /\ Table[t].primary # NoRoute
      /\ Table[t].fallback \in {NoRoute, [provider |-> provider, model |-> other]}

\* A request that leaves the ladder left it by a decision.
LEMMA LeavesLadder ==
  ASSUME PathInv, Next, NEW r \in Requests, At(r, "decide"), request'[r].pc = "precapture"
  PROVE  Decide(r)
<1>1. request[r].pc = "decide" /\ DOMAIN request[r] = Fields /\ Fresh.pc = "idle"
  BY OfSlot DEF At, Holds, Fresh
<1>2. ASSUME NEW q, request' = [request EXCEPT ![r] = q] PROVE request'[r] = q
  BY <1>2 DEF PathInv, OverRequests
<1>3. ASSUME NEW s \in Requests, NEW q, request' = [request EXCEPT ![s] = q] PROVE s = r
  BY <1>1, <1>3 DEF PathInv, OverRequests
<1>4. ASSUME NEW s \in Requests, NEW fields, Update(s, fields) PROVE s = r
  BY <1>3, <1>4 DEF Update
<1>5. ASSUME NEW s \in Requests, Reject(s) PROVE FALSE
  BY <1>1, <1>2, <1>3, <1>5 DEF Reject
<1>6. \A s \in Requests : ~Finish(s)
  <2>1. ASSUME NEW s \in Requests, Finish(s) PROVE FALSE
    BY <1>1, <1>3, <2>1 DEF Finish
  <2> QED BY <2>1
<1>7. request' # request
  BY <1>1
<1>8. \A s \in Requests : \A input \in Inputs : ~Arrive(s, input)
  <2>1. ASSUME NEW s \in Requests, NEW input \in Inputs, Arrive(s, input) PROVE FALSE
    BY <1>1, <1>4, <2>1 DEF Arrive, At
  <2> QED BY <2>1
<1>9. \A s \in Requests : ~(OauthCheck(s) \/ Forward(s) \/ Confirm(s) \/ Classify(s) \/ Plugins(s))
  <2>1. ASSUME NEW s \in Requests, OauthCheck(s) \/ Forward(s) \/ Confirm(s) \/ Classify(s) \/ Plugins(s)
        PROVE FALSE
    BY <1>1, <1>4, <1>5, <2>1 DEF OauthCheck, Forward, Confirm, Classify, Plugins, At, Go
  <2> QED BY <2>1
<1>10. \A s \in Requests : ~(Precapture(s) \/ Call(s) \/ OpenStream(s) \/ Answer(s) \/ StreamEnds(s))
  <2>1. ASSUME NEW s \in Requests, Precapture(s) \/ Call(s) \/ OpenStream(s) \/ Answer(s) \/ StreamEnds(s)
        PROVE FALSE
    BY <1>1, <1>4, <1>5, <2>1 DEF Precapture, Call, OpenStream, Answer, StreamEnds, At, Go
  <2> QED BY <2>1
<1>11. \A s \in Requests : ~(Persist(s) \/ PersistStream(s) \/ Cut(s) \/ RecordHealth(s) \/ RecordStreamHealth(s))
  <2>1. ASSUME NEW s \in Requests, Persist(s) \/ PersistStream(s) \/ Cut(s) \/ RecordHealth(s) \/ RecordStreamHealth(s)
        PROVE FALSE
    BY <1>1, <1>4, <2>1 DEF Persist, PersistStream, Cut, RecordHealth, RecordStreamHealth, At, Go
  <2> QED BY <2>1
<1>12. \A s \in Requests : ~(Mirror(s) \/ MirrorStream(s))
  BY <1>7 DEF Mirror, MirrorStream
<1>13. \A o \in Operators : ~Edit(o)
  <2>1. ASSUME NEW o \in Operators, WriteSettings(o) PROVE FALSE
    BY <1>1, <2>1 DEF WriteSettings, Fields
  <2> QED BY <1>7, <2>1 DEF Edit, Validate, ReadAndMerge
<1>14. PICK s \in Requests : Decide(s)
  BY <1>6, <1>8, <1>9, <1>10, <1>11, <1>12, <1>13 DEF Next, Serve
<1>15. s = r
  BY <1>4, <1>5, <1>14 DEF Decide
<1> QED BY <1>14, <1>15

\* A pick around what is blocked is usable if a route of its tier is, whatever the scorecard
\* adds to what is banned.
LEMMA PickIsUsable ==
  ASSUME OrdinaryTable, NEW tier, NEW banned, NEW demoted \in BOOLEAN
  PROVE  LET primary == Resolve(tier).primary
             fallback == Resolve(tier).fallback
             chosen == Pick(tier, banned \union IF demoted THEN {Unrated(tier).model} ELSE {})
         IN IF Usable(primary, banned) \/ Usable(fallback, banned)
            THEN Usable(chosen, banned) ELSE chosen = primary
<1> DEFINE t == IF tier \in Tiers THEN tier ELSE Balanced
<1>1. t \in Tiers /\ Resolve(tier) = Table[t]
  BY RequestPathAssumption DEF Resolve
<1> HIDE DEF t
<1>2. PICK provider, model, other :
      /\ Table[t].primary = [provider |-> provider, model |-> model]
      /\ model \notin Owned /\ Table[t].primary # NoRoute
      /\ Table[t].fallback \in {NoRoute, [provider |-> provider, model |-> other]}
  BY <1>1 DEF OrdinaryTable
<1> DEFINE primary == Table[t].primary
           fallback == Table[t].fallback
           all == banned \union IF demoted THEN {Unrated(tier).model} ELSE {}
<1>3. Unrated(tier) = primary
  BY <1>1, <1>2 DEF Unrated
<1>4. \A S : Blocked(primary.model, primary, S) <=> (primary.model \in S \/ health[primary].unhealthy)
  BY <1>2 DEF Blocked
<1>5. fallback # NoRoute =>
        \A S : Blocked(fallback.model, primary, S) <=>
                 (fallback.model \in S \union Owned \/ health[fallback].unhealthy)
  BY <1>2 DEF Blocked
<1>6. all = banned \/ all = banned \union {primary.model}
  BY <1>3
<1>7. Pick(tier, all) = IF /\ Blocked(primary.model, primary, all)
                           /\ fallback # NoRoute
                           /\ ~Blocked(fallback.model, primary, all)
                        THEN fallback ELSE primary
  BY <1>1 DEF Pick
<1>8. Usable(primary, banned) <=> primary.model \notin banned /\ ~health[primary].unhealthy
  BY <1>2 DEF Usable
<1>9. Usable(fallback, banned) <=>
        /\ fallback # NoRoute
        /\ fallback.model \notin banned \union Owned /\ ~health[fallback].unhealthy
  BY DEF Usable
<1>10. fallback # NoRoute /\ fallback.model = primary.model => fallback = primary
  BY <1>2
<1> DEFINE chosen == Pick(tier, all)
<1>11. IF Usable(primary, banned) \/ Usable(fallback, banned)
       THEN Usable(chosen, banned) ELSE chosen = primary
  <2> HIDE DEF primary, fallback, all, chosen
  <2>1. chosen = IF /\ Blocked(primary.model, primary, all)
                    /\ fallback # NoRoute
                    /\ ~Blocked(fallback.model, primary, all)
                 THEN fallback ELSE primary
    BY <1>7 DEF chosen
  <2>2. chosen \in {primary, fallback}
    BY <2>1
  <2>3. CASE all = banned
    BY <1>4, <1>5, <1>8, <1>9, <2>1, <2>3
  <2>4. CASE all = banned \union {primary.model}
    BY <1>4, <1>5, <1>8, <1>9, <1>10, <2>1, <2>4
  <2> QED BY <1>6, <2>3, <2>4
<1> QED BY <1>1, <1>11

\* What a decision that is automatic chose.
LEMMA AutomaticPick ==
  ASSUME PathInv, NEW r \in Requests, Decide(r), At(r, "decide"),
         request'[r].pc = "precapture", request'[r].decision.kind = "auto"
  PROVE  \E demoted \in BOOLEAN :
           request'[r].decision.pair =
             Pick(request[r].tier, request[r].banned
                    \union IF demoted THEN {Unrated(request[r].tier).model} ELSE {})
<1>1. DOMAIN request[r] = Fields
  BY OfSlot DEF Holds
<1>2. ~Reject(r)
  BY DEF Reject, Fresh, PathInv, OverRequests
<1> DEFINE local == [pc |-> "precapture",
                     decision |-> [pair |-> LocalPair, kind |-> "confidential"]]
           plain(chosen) == [pc |-> "precapture", decision |-> chosen]
           lane(chosen) == [pc |-> "precapture", stream |-> FALSE,
                            decision |-> [chosen EXCEPT !.pair.provider =
                                                          "chatgpt-subscription"]]
<1>3. PICK demoted \in BOOLEAN :
        \/ Update(r, local)
        \/ Update(r, plain(Ladder(r, demoted)))
        \/ Ladder(r, demoted).kind = "explicit" /\ Update(r, lane(Ladder(r, demoted)))
  <2> HIDE DEF Ladder
  <2> QED BY <1>2, Zenon DEF Decide
<1> DEFINE chosen == Ladder(r, demoted)
           pick == Pick(request[r].tier, request[r].banned
                     \union IF demoted THEN {Unrated(request[r].tier).model} ELSE {})
<1>4. \/ chosen.kind # "auto" /\ chosen.kind \in {"override", "explicit"}
      \/ chosen = [pair |-> pick, kind |-> "auto"]
  BY DEF Ladder
<1>5. ASSUME NEW fields, Update(r, fields), "decision" \in DOMAIN fields
      PROVE  request'[r].decision = fields.decision
  BY <1>1, <1>5 DEF Update, PathInv, OverRequests, Fields
<1> HIDE DEF chosen, pick
<1>6. CASE Update(r, local)
  BY <1>5, <1>6
<1>7. CASE Update(r, plain(chosen))
  <2>1. request'[r].decision = chosen
    BY <1>5, <1>7
  <2> QED BY <1>4, <2>1, SMTT(30) DEF pick
<1>8. CASE chosen.kind = "explicit" /\ Update(r, lane(chosen))
  <2>1. request'[r].decision = [chosen EXCEPT !.pair.provider = "chatgpt-subscription"]
    BY <1>5, <1>8
  <2>2. chosen.kind = "explicit"
    BY <1>8
  <2> QED BY <1>4, <2>1, <2>2
<1> QED BY <1>3, <1>6, <1>7, <1>8 DEF chosen

\* With a table such as the shipped one, a request that is routed without a decision of its own
\* goes to a route that the router may use wherever its tier has one: not banned by a plugin, not
\* of a subscription and not marked unhealthy, whatever other requests learn of the providers
\* meanwhile; and to the primary otherwise (scoring.py:350-379).
THEOREM AutoPicksAround == ASSUME OrdinaryTable PROVE Spec => RoutesAroundBlocked
<1>1. PathInv /\ Next =>
        \A r \in Requests :
          At(r, "decide") /\ request'[r].pc = "precapture" /\ request'[r].decision.kind = "auto" =>
            LET primary == Resolve(request[r].tier).primary
                fallback == Resolve(request[r].tier).fallback
                chosen == request'[r].decision.pair
                banned == request[r].banned
            IN IF Usable(primary, banned) \/ Usable(fallback, banned)
               THEN Usable(chosen, banned) ELSE chosen = primary
  BY LeavesLadder, AutomaticPick, PickIsUsable
<1> QED BY <1>1, PathInitially, PathStep, PTL DEF Spec, RoutesAroundBlocked

(*****************************************************************************)
(* The types of a request: what every step makes of its fields is of their   *)
(* kind, so that with the invariant of the path they are the types.          *)
(*****************************************************************************)

\* The fields of a request that have a type, and their types.
KindOf ==
  [f \in Fields \ {"stream", "guarded"} |->
     CASE f = "pc" -> Steps
       [] f = "input" -> Inputs
       [] f = "class" -> Classes
       [] f = "policy" -> PolicyType
       [] f = "tier" -> Tiers \union {OtherTier}
       [] f = "override" -> Models \union {NoModel}
       [] f = "banned" -> SUBSET AllModels
       [] f = "decision" -> Decision
       [] f = "result" -> Result]

\* Every field that has a type, of a request or of an update, is of it.
Kind(q) == \A f \in DOMAIN q \intersect DOMAIN KindOf : q[f] \in KindOf[f]

Edits == [pc : {"idle", "merge", "write"}, patch : Patches, merged : PolicyType]
HealthMarks == [streak : 0..Threshold, unhealthy : BOOLEAN]

\* What the types of a step's accounts do not follow from the invariant of the path.
RequestTyped ==
  /\ settings \in PolicyType /\ edit \in [Operators -> Edits] /\ health \in [Asked -> HealthMarks]
  /\ \A r \in Requests : Kind(request[r]) /\ outcome[r] \in {0, 1}

\* The types of the fields, one by one.
LEMMA Kinds ==
  /\ DOMAIN KindOf = Fields \ {"stream", "guarded"}
  /\ KindOf["pc"] = Steps /\ KindOf["input"] = Inputs /\ KindOf["class"] = Classes
  /\ KindOf["policy"] = PolicyType /\ KindOf["tier"] = Tiers \union {OtherTier}
  /\ KindOf["override"] = Models \union {NoModel} /\ KindOf["banned"] = SUBSET AllModels
  /\ KindOf["decision"] = Decision /\ KindOf["result"] = Result
BY DEF KindOf, Fields

\* What a request of the right kind holds.
LEMMA KindMeans ==
  ASSUME NEW q, DOMAIN q = Fields
  PROVE  Kind(q) <=> /\ q.pc \in Steps /\ q.input \in Inputs /\ q.class \in Classes
                     /\ q.policy \in PolicyType /\ q.tier \in Tiers \union {OtherTier}
                     /\ q.override \in Models \union {NoModel} /\ q.banned \in SUBSET AllModels
                     /\ q.decision \in Decision /\ q.result \in Result
<1>1. DOMAIN q \intersect DOMAIN KindOf =
        {"pc", "input", "class", "policy", "tier", "override", "banned", "decision", "result"}
  BY Kinds DEF Fields
<1> QED BY <1>1, Kinds DEF Kind

\* A route of the table is a pair, and the fallback is one if there is one.
LEMMA RoutesArePairs ==
  ASSUME NEW tier
  PROVE  /\ Resolve(tier).primary \in Pairs
         /\ Resolve(tier).fallback # NoRoute => Resolve(tier).fallback \in Pairs
<1> DEFINE t == IF tier \in Tiers THEN tier ELSE Balanced
<1>1. t \in Tiers /\ Resolve(tier) = Table[t]
  BY RequestPathAssumption DEF Resolve
<1> HIDE DEF t
<1>2. ASSUME NEW q \in Routes PROVE q \in Pairs
  <2>1. q = [provider |-> q.provider, model |-> q.model]
    BY TableAssumption
  <2>2. q.provider \in Providers /\ q.model \in AllModels
    BY DEF Providers, AllModels
  <2> QED BY <2>1, <2>2 DEF Pairs
<1>3. Table[t].primary \in Routes /\ (Table[t].fallback # NoRoute => Table[t].fallback \in Routes)
  <2> DEFINE S == {{Table[x].primary, Table[x].fallback} : x \in Tiers}
  <2>1. {Table[t].primary, Table[t].fallback} \in S
    BY <1>1
  <2>2. Table[t].primary \in UNION S /\ Table[t].fallback \in UNION S
    BY <2>1
  <2>3. Routes = (UNION S) \ {NoRoute}
    BY DEF Routes
  <2> HIDE DEF S
  <2>4. Table[t].primary # NoRoute
    BY <1>1, TableAssumption
  <2> QED BY <2>2, <2>3, <2>4
<1> QED BY <1>1, <1>2, <1>3

\* The ladder ends with a decision.
LEMMA LadderDecides ==
  ASSUME NEW r \in Requests, NEW demoted, Kind(request[r]), DOMAIN request[r] = Fields
  PROVE  Ladder(r, demoted) \in Decision
<1> DEFINE q == request[r]
           hard == IF q.input.pinned # NoModel THEN q.input.pinned ELSE q.override
           banned == q.banned \union (IF demoted THEN {Unrated(q.tier).model} ELSE {})
<1>1. q.input \in Inputs /\ q.override \in Models \union {NoModel}
  BY KindMeans
<1>2. q.input.pinned \in Models \union {NoModel} /\ q.input.model \in Models \union {"auto"}
  BY <1>1, RequestPathAssumption DEF InputType
<1>3. hard \in Models \union {NoModel}
  BY <1>1, <1>2
<1>4. \A x \in {"override", "passthrough"}, m \in Models : [provider |-> x, model |-> m] \in Pairs
  BY DEF Pairs, Providers, AllModels
<1>5. Pick(q.tier, banned) \in Pairs
  <2>1. Pick(q.tier, banned) = Resolve(q.tier).primary \/
        (Pick(q.tier, banned) = Resolve(q.tier).fallback /\ Resolve(q.tier).fallback # NoRoute)
    BY DEF Pick
  <2> QED BY <2>1, RoutesArePairs
<1> HIDE DEF hard, banned
<1>6. \A p \in Pairs, k \in {"override", "auto", "explicit"} : [pair |-> p, kind |-> k] \in Decision
  BY DEF Decision
<1>7. CASE hard # NoModel
  <2>1. Ladder(r, demoted) = [pair |-> [provider |-> "override", model |-> hard], kind |-> "override"]
    BY <1>7 DEF Ladder, hard
  <2> QED BY <1>3, <1>4, <1>6, <1>7, <2>1
<1>8. CASE hard = NoModel /\ q.input.model = "auto"
  <2>1. Ladder(r, demoted) = [pair |-> Pick(q.tier, banned), kind |-> "auto"]
    BY <1>8 DEF Ladder, hard, banned
  <2> QED BY <1>5, <1>6, <2>1
<1>9. CASE hard = NoModel /\ q.input.model # "auto"
  <2>1. Ladder(r, demoted) = [pair |-> [provider |-> "passthrough", model |-> q.input.model],
                              kind |-> "explicit"]
    BY <1>9 DEF Ladder, hard
  <2> QED BY <1>2, <1>4, <1>6, <1>9, <2>1
<1> QED BY <1>7, <1>8, <1>9

\* A slot that waits for a request, and an operator that edits nothing.
LEMMA FreshKind == Kind(Fresh) /\ NoEdit \in Edits
<1>1. (CHOOSE i \in Inputs : TRUE) \in Inputs /\ (CHOOSE p \in Patches : TRUE) \in Patches
  BY EditsAssumption
<1>2. DefaultPolicy \in PolicyType
  BY DEF DefaultPolicy, PolicyType
<1>3. NoEdit \in Edits
  BY <1>1, <1>2 DEF NoEdit, Edits
<1>4. [pair |-> [provider |-> "passthrough", model |-> LocalModel], kind |-> "explicit"] \in Decision
  BY DEF Decision, Pairs, Providers, AllModels
<1>5. [status |-> "ok", empty |-> FALSE, disconnected |-> FALSE] \in Result
  BY DEF Result
<1>6. /\ Fresh.pc \in Steps /\ Fresh.input \in Inputs /\ Fresh.class \in Classes
      /\ Fresh.policy \in PolicyType /\ Fresh.tier \in Tiers \union {OtherTier}
      /\ Fresh.override \in Models \union {NoModel} /\ Fresh.banned \in SUBSET AllModels
      /\ Fresh.decision \in Decision /\ Fresh.result \in Result
  BY <1>1, <1>2, <1>4, <1>5, RequestPathAssumption DEF Fresh, Steps, Classes
<1> QED BY <1>3, <1>6, FreshHolds, KindMeans

\* A request that is updated by fields of the right kind stays of its kind.
LEMMA UpdateKind ==
  ASSUME NEW q, NEW fields, Kind(q), Kind(fields) PROVE Kind(Updated(q, fields))
<1> SUFFICES ASSUME NEW f \in DOMAIN q \intersect DOMAIN KindOf
             PROVE  (IF f \in DOMAIN fields THEN fields[f] ELSE q[f]) \in KindOf[f]
  BY DEF Kind, Updated
<1> QED BY DEF Kind

\* What a step of a request makes of it: nothing, an update of the right kind, or a free slot.
Retyped(r) ==
  \/ UNCHANGED request
  \/ request' = [request EXCEPT ![r] = Fresh]
  \/ \E fields : Update(r, fields) /\ Kind(fields)

\* A boundary that reads the settings reads a policy.
LEMMA ReadableIsPolicy ==
  ASSUME settings \in PolicyType, NEW policy \in Readable PROVE policy \in PolicyType
<1>1. DefaultPolicy \in PolicyType
  BY DEF DefaultPolicy, PolicyType
<1> QED BY <1>1 DEF Readable

\* An edit merged into a policy is a policy.
LEMMA MergeIsPolicy ==
  ASSUME NEW base \in PolicyType, NEW patch \in Patches PROVE Merge(base, patch) \in PolicyType
<1>1. PICK policy \in PolicyType :
        DOMAIN patch \subseteq DOMAIN policy /\ \A k \in DOMAIN patch : patch[k] = policy[k]
  BY EditsAssumption
<1> DEFINE w == Merge(base, patch)
<1>2. DOMAIN base = {"enabled", "routed", "bowden", "local"}
  BY DEF PolicyType
<1>3. w = [enabled |-> w.enabled, routed |-> w.routed, bowden |-> w.bowden, local |-> w.local]
  BY <1>2 DEF Merge
<1>4. w.enabled \in BOOLEAN /\ w.routed \in SUBSET {"pii", "secret"} /\ w.bowden \in BOOLEAN
      /\ w.local \in BOOLEAN
  BY <1>1, <1>2 DEF Merge, PolicyType
<1> HIDE DEF w
<1>5. w \in PolicyType
  BY <1>3, <1>4 DEF PolicyType
<1> QED BY <1>5 DEF w

\* What is recorded of a pair's health is bounded by the threshold.
LEMMA RecordedIsMark ==
  ASSUME NEW h \in HealthMarks, NEW empty PROVE Recorded(h, empty) \in HealthMarks
<1> DEFINE streak == IF h.streak < Threshold THEN h.streak + 1 ELSE Threshold
<1>1. streak \in 0..Threshold /\ 0 \in 0..Threshold
  BY RequestPathAssumption DEF HealthMarks
<1> HIDE DEF streak
<1>2. (h.unhealthy \/ streak = Threshold) \in BOOLEAN
  BY DEF HealthMarks
<1>3. Recorded(h, empty) = IF empty THEN [streak |-> streak, unhealthy |-> h.unhealthy \/ streak = Threshold]
                           ELSE [streak |-> 0, unhealthy |-> FALSE]
  BY DEF Recorded, streak
<1>4. [streak |-> streak, unhealthy |-> h.unhealthy \/ streak = Threshold] \in HealthMarks
  BY <1>1, <1>2 DEF HealthMarks
<1>5. [streak |-> 0, unhealthy |-> FALSE] \in HealthMarks
  BY <1>1 DEF HealthMarks
<1> QED BY <1>3, <1>4, <1>5

\* Fields that are updated one by one.
LEMMA UpdateOf ==
  /\ \A pc \in Steps : Kind([pc |-> pc])
  /\ \A pc \in Steps, class \in Classes : Kind([pc |-> pc, class |-> class])
  /\ \A pc \in Steps, answer \in Result : Kind([pc |-> pc, result |-> answer])
  /\ \A pc \in Steps, choice \in Decision : Kind([pc |-> pc, decision |-> choice])
  /\ \A pc \in Steps, choice \in Decision : \A stream :
       Kind([pc |-> pc, stream |-> stream, decision |-> choice])
  /\ \A pc \in Steps, policy \in PolicyType, tier \in Tiers, class \in Classes :
       Kind([pc |-> pc, policy |-> policy, tier |-> tier, class |-> class])
  /\ \A pc \in Steps, banned \in SUBSET AllModels, override \in Models \union {NoModel},
       tier \in Tiers \union {OtherTier} :
       Kind([pc |-> pc, banned |-> banned, override |-> override, tier |-> tier])
BY Kinds DEF Kind

\* The steps until a request has its class.
LEMMA EnteringTyped ==
  ASSUME RequestTyped, PathInv, NEW r \in Requests,
         \/ \E input \in Inputs : Arrive(r, input)
         \/ OauthCheck(r) \/ Forward(r) \/ Confirm(r) \/ Classify(r)
  PROVE  Retyped(r)
<1>1. {"oauth_check", "bypass", "confirm", "classify", "plugins", "forwarded"} \subseteq Steps
  BY DEF Steps
<1>2. CASE \E input \in Inputs : Arrive(r, input)
  <2>1. PICK input \in Inputs : Arrive(r, input)
    BY <1>2
  <2>2. PICK stream \in BOOLEAN, pc \in {"oauth_check", "bypass", "confirm"} :
          Update(r, [Fresh EXCEPT !.input = input, !.stream = stream,
                                  !.guarded = Guards(settings, input), !.pc = pc])
    BY <2>1 DEF Arrive
  <2> DEFINE fields == [Fresh EXCEPT !.input = input, !.stream = stream,
                                     !.guarded = Guards(settings, input), !.pc = pc]
  <2>3. DOMAIN fields = Fields /\ DOMAIN Fresh = Fields
    BY DEF Fresh, Fields
  <2>4. \A f \in Fields \ {"input", "stream", "guarded", "pc"} : fields[f] = Fresh[f]
    BY <2>3
  <2>5. fields["input"] = input /\ fields["pc"] = pc
    BY <2>3 DEF Fields
  <2> HIDE DEF fields
  <2>6. ASSUME NEW f \in Fields \ {"stream", "guarded"} PROVE fields[f] \in KindOf[f]
    <3>1. CASE f = "input"
      BY <2>5, <3>1, Kinds
    <3>2. CASE f = "pc"
      BY <1>1, <2>5, <3>2, Kinds
    <3>3. CASE f \notin {"input", "pc"}
      BY <2>3, <2>4, <3>3, FreshKind, Kinds DEF Kind
    <3> QED BY <3>1, <3>2, <3>3
  <2>7. Kind(fields)
    BY <2>3, <2>6, Kinds DEF Kind
  <2>8. Update(r, fields)
    BY <2>2 DEF fields
  <2> QED BY <2>7, <2>8 DEF Retyped
<1>3. CASE \E pc \in Steps : Go(r, pc)
  BY <1>3, UpdateOf DEF Go, Retyped
<1>4. CASE Reject(r)
  BY <1>4 DEF Reject, Retyped
<1>5. CASE OauthCheck(r) \/ Forward(r)
  <2>1. \/ Go(r, "bypass") \/ Reject(r) \/ Go(r, "confirm") \/ Go(r, "forwarded")
    BY <1>5 DEF OauthCheck, Forward
  <2> QED BY <1>1, <1>3, <1>4, <2>1
<1>6. CASE Confirm(r)
  <2>1. CASE \E class \in {"pii", "secret"} : Update(r, [pc |-> "classify", class |-> class])
    <3>1. PICK class \in {"pii", "secret"} : Update(r, [pc |-> "classify", class |-> class])
      BY <2>1
    <3>2. Kind([pc |-> "classify", class |-> class])
      BY <1>1, UpdateOf DEF Classes
    <3> QED BY <3>1, <3>2 DEF Retyped
  <2> QED BY <1>1, <1>3, <1>4, <1>6, <2>1 DEF Confirm
<1>7. CASE Classify(r)
  <2>1. PICK policy \in Readable, tier \in Tiers :
          IF Malformed(request[r].input) THEN Reject(r)
          ELSE Update(r, [pc |-> "plugins", policy |-> policy, tier |-> tier,
                          class |-> Sensitivity(request[r].input, request[r].class, policy)])
    BY <1>7 DEF Classify
  <2> DEFINE class == Sensitivity(request[r].input, request[r].class, policy)
  <2>2. request[r].input \in Inputs /\ request[r].class \in Classes
    BY OfSlot, KindMeans DEF RequestTyped, Holds
  <2>3. class \in Classes
    BY <2>2, SensitivityIsClass
  <2>4. policy \in PolicyType
    BY ReadableIsPolicy DEF RequestTyped
  <2>5. CASE Update(r, [pc |-> "plugins", policy |-> policy, tier |-> tier, class |-> class])
    <3> HIDE DEF class
    <3>1. Kind([pc |-> "plugins", policy |-> policy, tier |-> tier, class |-> class])
      BY <1>1, <2>3, <2>4, UpdateOf
    <3> QED BY <2>5, <3>1 DEF Retyped
  <2> QED BY <1>4, <2>1, <2>5
<1> QED BY <1>2, <1>5, <1>6, <1>7

\* The choice of a route and its row.
LEMMA ChoosingTyped ==
  ASSUME RequestTyped, PathInv, NEW r \in Requests, Plugins(r) \/ Decide(r) \/ Precapture(r)
  PROVE  Retyped(r)
<1>1. {"decide", "precapture", "call"} \subseteq Steps
  BY DEF Steps
<1>2. DOMAIN request[r] = Fields /\ Kind(request[r])
  BY OfSlot DEF RequestTyped, Holds
<1>3. CASE Reject(r)
  BY <1>3 DEF Reject, Retyped
<1>4. CASE Plugins(r)
  <2>1. PICK hint \in Hints \union {[banned |-> {}, tier |-> "absent", override |-> NoModel]} :
          Update(r, [pc |-> "decide", banned |-> hint.banned, override |-> hint.override,
                     tier |-> IF hint.tier = "absent" THEN request[r].tier ELSE hint.tier])
    BY <1>4 DEF Plugins
  <2> DEFINE tier == IF hint.tier = "absent" THEN request[r].tier ELSE hint.tier
  <2>2. /\ hint.banned \in SUBSET AllModels /\ hint.override \in Models \union {NoModel}
        /\ hint.tier \in Tiers \union {OtherTier, "absent"}
    BY RequestPathAssumption
  <2>3. tier \in Tiers \union {OtherTier}
    BY <1>2, <2>2, KindMeans
  <2>4. Update(r, [pc |-> "decide", banned |-> hint.banned, override |-> hint.override,
                   tier |-> tier])
    BY <2>1
  <2> HIDE DEF tier
  <2>5. Kind([pc |-> "decide", banned |-> hint.banned, override |-> hint.override, tier |-> tier])
    BY <1>1, <2>2, <2>3, UpdateOf
  <2> QED BY <2>4, <2>5 DEF Retyped
<1>5. CASE Decide(r)
  <2> DEFINE local == [pc |-> "precapture",
                       decision |-> [pair |-> LocalPair, kind |-> "confidential"]]
             plain(chosen) == [pc |-> "precapture", decision |-> chosen]
             lane(chosen) == [pc |-> "precapture", stream |-> FALSE,
                              decision |-> [chosen EXCEPT !.pair.provider =
                                                            "chatgpt-subscription"]]
  <2>1. PICK demoted \in BOOLEAN :
          \/ Reject(r) \/ Update(r, local)
          \/ Update(r, plain(Ladder(r, demoted))) \/ Update(r, lane(Ladder(r, demoted)))
    BY <1>5, Zenon DEF Decide
  <2> DEFINE chosen == Ladder(r, demoted)
  <2>2. chosen \in Decision
    BY <1>2, LadderDecides
  <2> HIDE DEF chosen
  <2>3. CASE Update(r, local)
    <3>1. [pair |-> LocalPair, kind |-> "confidential"] \in Decision
      BY DEF Decision, LocalPair, Pairs, Providers, AllModels
    <3>2. Kind(local)
      BY <1>1, <3>1, UpdateOf
    <3> QED BY <2>3, <3>2 DEF Retyped
  <2>4. CASE Update(r, plain(chosen))
    <3>1. Kind(plain(chosen))
      BY <1>1, <2>2, UpdateOf
    <3> QED BY <2>4, <3>1 DEF Retyped
  <2>5. CASE Update(r, lane(chosen))
    <3>1. [chosen EXCEPT !.pair.provider = "chatgpt-subscription"] \in Decision
      BY <2>2 DEF Decision, Pairs, Providers
    <3>2. Kind(lane(chosen))
      BY <1>1, <3>1, UpdateOf
    <3> QED BY <2>5, <3>2 DEF Retyped
  <2> QED BY <1>3, <2>1, <2>3, <2>4, <2>5 DEF chosen
<1>6. CASE Precapture(r)
  <2>1. Kind([pc |-> "call"])
    BY <1>1, UpdateOf
  <2> QED BY <1>3, <1>6, <2>1 DEF Precapture, Go, Retyped
<1> QED BY <1>4, <1>5, <1>6

\* The call and what comes of it.
LEMMA ServingTyped ==
  ASSUME RequestTyped, PathInv, NEW r \in Requests,
         \/ Call(r) \/ OpenStream(r) \/ Answer(r) \/ StreamEnds(r) \/ Persist(r)
         \/ PersistStream(r) \/ Mirror(r) \/ MirrorStream(r) \/ Cut(r) \/ RecordHealth(r)
         \/ RecordStreamHealth(r) \/ Finish(r)
  PROVE  Retyped(r)
<1>1. {"called", "streaming", "persist", "brain", "done"} \subseteq Steps
  BY DEF Steps
<1>2. CASE \E pc \in Steps : Go(r, pc)
  BY <1>2, UpdateOf DEF Go, Retyped
<1>3. \A empty, disconnected \in BOOLEAN, status \in {"ok", "error"} :
        Answered(status, empty, disconnected) \in Result
  BY DEF Answered, Result
<1>4. CASE \E pc \in Steps, answer \in Result : Update(r, [pc |-> pc, result |-> answer])
  BY <1>4, UpdateOf DEF Retyped
<1>5. CASE Call(r) \/ Persist(r) \/ PersistStream(r) \/ Cut(r) \/ RecordHealth(r) \/ RecordStreamHealth(r)
  BY <1>1, <1>2, <1>5 DEF Call, Persist, PersistStream, Cut, RecordHealth, RecordStreamHealth
<1>6. CASE OpenStream(r)
  <2>1. Go(r, "streaming") \/ Update(r, [pc |-> "done", result |-> Answered("ok", FALSE, TRUE)])
    BY <1>6 DEF OpenStream
  <2> QED BY <1>1, <1>2, <1>3, <1>4, <2>1
<1>7. CASE Answer(r) \/ StreamEnds(r)
  <2>1. \E answer \in {Answered("ok", FALSE, FALSE), Answered("ok", TRUE, FALSE),
                       Answered("error", FALSE, FALSE), Answered("ok", FALSE, TRUE)} :
          Update(r, [pc |-> "persist", result |-> answer])
    BY <1>7 DEF Answer, StreamEnds
  <2> QED BY <1>1, <1>3, <1>4, <2>1
<1>8. CASE Mirror(r) \/ MirrorStream(r) \/ Finish(r)
  BY <1>8 DEF Mirror, MirrorStream, Finish, Retyped
<1> QED BY <1>5, <1>6, <1>7, <1>8

\* One slot of its kind is put in another's place.
LEMMA RetypedKeeps ==
  ASSUME RequestTyped, PathInv, NEW r \in Requests, Retyped(r), NEW x \in Requests
  PROVE  Kind(request'[x])
<1>1. Kind(request[x]) /\ Kind(request[r])
  BY DEF RequestTyped
<1>2. ASSUME NEW q, request' = [request EXCEPT ![r] = q], Kind(q) PROVE Kind(request'[x])
  <2>1. request'[x] = IF x = r THEN q ELSE request[x]
    BY <1>2 DEF PathInv, OverRequests
  <2> QED BY <1>1, <1>2, <2>1
<1>3. CASE \E fields : Update(r, fields) /\ Kind(fields)
  <2>1. PICK fields : Update(r, fields) /\ Kind(fields)
    BY <1>3
  <2> QED BY <1>1, <1>2, <2>1, UpdateKind, Updates
<1> QED BY <1>1, <1>2, <1>3, FreshKind DEF Retyped

\* An outcome is counted once.
LEMMA OutcomeOnce ==
  ASSUME RequestTyped, PathInv, NEW r \in Requests, Serve(r), NEW x \in Requests
  PROVE  outcome'[x] \in {0, 1}
<1>1. outcome[x] \in {0, 1} /\ Holds(request[r], row[r], sent[r], outcome[r])
  BY OfSlot DEF RequestTyped
<1>2. CASE UNCHANGED outcome
  BY <1>1, <1>2
<1>3. CASE Persist(r) \/ PersistStream(r)
  <2>1. outcome[r] = 0 /\ outcome' = [outcome EXCEPT ![r] = outcome[r] + 1]
    BY <1>1, <1>3 DEF Persist, PersistStream, At, Holds
  <2> QED BY <1>1, <2>1 DEF PathInv, OverRequests
<1>4. CASE Finish(r)
  BY <1>1, <1>4 DEF Finish, PathInv, OverRequests
<1> QED BY <1>2, <1>3, <1>4
        DEF Serve, Arrive, OauthCheck, Forward, Confirm, Classify, Plugins, Decide, Precapture,
            Call, OpenStream, Answer, StreamEnds, Mirror, MirrorStream, Cut, RecordHealth,
            RecordStreamHealth

\* The health of the pairs stays within the threshold.
LEMMA HealthBounded ==
  ASSUME RequestTyped, NEW r \in Requests, Serve(r) PROVE health' \in [Asked -> HealthMarks]
<1>1. health \in [Asked -> HealthMarks]
  BY DEF RequestTyped
<1>2. CASE UNCHANGED health
  BY <1>1, <1>2
<1>3. CASE Record(r)
  <2>1. CASE request[r].decision.pair \in Asked
    <3> DEFINE pair == request[r].decision.pair
    <3>1. Recorded(health[pair], request[r].result.empty) \in HealthMarks
      BY <1>1, <2>1, RecordedIsMark
    <3> QED BY <1>1, <1>3, <2>1, <3>1 DEF Record
  <2> QED BY <1>1, <1>3, <2>1 DEF Record
<1> QED BY <1>2, <1>3
        DEF Serve, Arrive, OauthCheck, Forward, Confirm, Classify, Plugins, Decide, Precapture,
            Call, OpenStream, Answer, StreamEnds, Persist, PersistStream, Mirror, MirrorStream,
            Cut, RecordHealth, RecordStreamHealth, Finish

\* An edit leaves the settings a policy and the requests their kind.
LEMMA EditingTyped ==
  ASSUME RequestTyped, PathInv, NEW o \in Operators, Edit(o) PROVE RequestTyped'
<1>1. UNCHANGED <<health, outcome>> /\ edit \in [Operators -> Edits] /\ settings \in PolicyType
  BY DEF Edit, Validate, ReadAndMerge, WriteSettings, RequestTyped
<1>2. edit[o] \in Edits
  BY <1>1
<1>3. CASE \E patch \in Patches : Validate(o, patch)
  <2>1. PICK patch \in Patches : edit' = [edit EXCEPT ![o].pc = "merge", ![o].patch = patch]
    BY <1>3 DEF Validate
  <2>2. edit' \in [Operators -> Edits]
    BY <1>1, <1>2, <2>1 DEF Edits
  <2>3. UNCHANGED <<settings, request>>
    BY <1>3 DEF Validate
  <2> QED BY <1>1, <2>2, <2>3 DEF RequestTyped
<1>4. CASE ReadAndMerge(o)
  <2>1. PICK current \in Readable :
          edit' = [edit EXCEPT ![o].pc = "write", ![o].merged = Merge(current, edit[o].patch)]
    BY <1>4 DEF ReadAndMerge
  <2>2. Merge(current, edit[o].patch) \in PolicyType
    BY <1>1, <1>2, ReadableIsPolicy, MergeIsPolicy DEF Edits
  <2>3. edit' \in [Operators -> Edits]
    BY <1>1, <1>2, <2>1, <2>2 DEF Edits
  <2>4. UNCHANGED <<settings, request>>
    BY <1>4 DEF ReadAndMerge
  <2> QED BY <1>1, <2>3, <2>4 DEF RequestTyped
<1>5. CASE WriteSettings(o)
  <2>1. settings' \in PolicyType /\ edit' \in [Operators -> Edits]
    BY <1>1, <1>2, <1>5, FreshKind DEF WriteSettings, Edits
  <2>2. ASSUME NEW r \in Requests PROVE Kind(request'[r])
    <3> DEFINE q == [request[r] EXCEPT !.guarded = @ /\ Guards(edit[o].merged, request[r].input)]
    <3>1. request'[r] = q /\ Kind(request[r])
      BY <1>5 DEF WriteSettings, RequestTyped
    <3>2. DOMAIN q = DOMAIN request[r] /\ \A f \in DOMAIN q \ {"guarded"} : q[f] = request[r][f]
      OBVIOUS
    <3> HIDE DEF q
    <3>3. "guarded" \notin DOMAIN KindOf
      BY Kinds
    <3> QED BY <3>1, <3>2, <3>3 DEF Kind
  <2> QED BY <1>1, <2>1, <2>2 DEF RequestTyped
<1> QED BY <1>3, <1>4, <1>5 DEF Edit

\* The types hold at the start and every step keeps them.
LEMMA RequestTypedStart == Init => RequestTyped
<1> SUFFICES ASSUME Init PROVE RequestTyped
  OBVIOUS
<1>1. [streak |-> 0, unhealthy |-> FALSE] \in HealthMarks
  BY RequestPathAssumption DEF HealthMarks
<1>2. DefaultPolicy \in PolicyType
  BY DEF DefaultPolicy, PolicyType
<1> QED BY <1>1, <1>2, FreshKind DEF Init, RequestTyped

\* However requests are served and settings are edited, the fields stay of their kinds.
LEMMA RequestTypedStep == RequestTyped /\ PathInv /\ [Next]_rpVars => RequestTyped'
<1> SUFFICES ASSUME RequestTyped, PathInv, [Next]_rpVars PROVE RequestTyped'
  OBVIOUS
<1>1. CASE UNCHANGED rpVars
  BY <1>1 DEF rpVars, RequestTyped
<1>2. CASE \E r \in Requests : Serve(r)
  <2>1. PICK r \in Requests : Serve(r)
    BY <1>2
  <2>2. Retyped(r)
    BY <2>1, EnteringTyped, ChoosingTyped, ServingTyped DEF Serve
  <2>3. UNCHANGED <<settings, edit>>
    BY <2>1 DEF Serve, Arrive, OauthCheck, Forward, Confirm, Classify, Plugins, Decide, Precapture,
                Call, OpenStream, Answer, StreamEnds, Persist, PersistStream, Mirror,
                MirrorStream, Cut, RecordHealth, RecordStreamHealth, Finish
  <2>4. health' \in [Asked -> HealthMarks]
    BY <2>1, HealthBounded
  <2>5. \A x \in Requests : Kind(request'[x]) /\ outcome'[x] \in {0, 1}
    BY <2>1, <2>2, RetypedKeeps, OutcomeOnce
  <2> QED BY <2>3, <2>4, <2>5 DEF RequestTyped
<1> QED BY <1>1, <1>2, EditingTyped DEF Next

\* With the invariant of the path they are the types of the module.
LEMMA RequestTypes == RequestTyped /\ PathInv => TypeOK
<1> SUFFICES ASSUME RequestTyped, PathInv PROVE TypeOK
  OBVIOUS
<1>1. ASSUME NEW r \in Requests
      PROVE  /\ request[r].pc \in Steps /\ request[r].input \in Inputs
             /\ request[r].class \in Classes /\ request[r].policy \in PolicyType
             /\ request[r].tier \in Tiers \union {OtherTier}
             /\ request[r].override \in Models \union {NoModel}
             /\ request[r].banned \subseteq AllModels
             /\ request[r].decision \in Decision /\ request[r].result \in Result
  <2>1. DOMAIN request[r] = Fields /\ Kind(request[r])
    BY OfSlot DEF RequestTyped, Holds
  <2> QED BY <2>1, KindMeans
<1>2. ASSUME NEW r \in Requests
      PROVE  /\ row[r] = NoRow \/ row[r] \in [decision : Decision, class : Classes]
             /\ sent[r] \subseteq Providers
  <2>1. Holds(request[r], row[r], sent[r], outcome[r])
    BY OfSlot
  <2>2. {"oauth", "mirror"} \subseteq Providers
    BY DEF Providers
  <2>3. CASE request[r].pc \notin RowKept
    BY <2>1, <2>2, <2>3 DEF Holds
  <2>4. CASE request[r].pc \in RowKept
    <3>1. row[r] = [decision |-> request[r].decision, class |-> request[r].class]
          /\ sent[r] \subseteq {request[r].decision.pair.provider, "mirror"}
      BY <2>1, <2>4 DEF Holds
    <3>2. request[r].decision.pair.provider \in Providers
      BY <1>1 DEF Decision, Pairs
    <3> QED BY <1>1, <2>2, <3>1, <3>2
  <2> QED BY <2>3, <2>4
<1>3. outcome \in [Requests -> 0..1]
  <2>1. \A r \in Requests : outcome[r] \in 0..1
    BY DEF RequestTyped
  <2> QED BY <2>1 DEF PathInv, OverRequests
<1>4. /\ settings \in PolicyType /\ health \in [Asked -> [streak : 0..Threshold, unhealthy : BOOLEAN]]
      /\ \A o \in Operators : edit[o].pc \in {"idle", "merge", "write"}
                               /\ edit[o].patch \in Patches /\ edit[o].merged \in PolicyType
  BY DEF RequestTyped, Edits, HealthMarks
<1> QED BY <1>1, <1>2, <1>3, <1>4 DEF TypeOK

(*****************************************************************************)
(* Forwarding: a forwarded prompt is taken at most once, and what comes of it *)
(* is kept.                                                                  *)
(*****************************************************************************)

PassSpec == PassInit /\ [][PassNext]_passVars

Names == {"judge", "brain", "drift", "shadow", "memory"}

PassStates == [pc : {"new", "capture", "send", "relay", "finally", "follow", "done"},
               lane : Lanes, tries : Nat, status : Statuses,
               ended : {"no", "whole", "broken", "torn", "client"}, left : Seq(Names)]

\* The types, without the bounds on the counters.
PassTyped ==
  /\ passes \in [Passes -> PassStates]
  /\ deliveries \in [Passes -> [refused : Nat, accepted : Nat]]
  /\ trail \in [Passes -> [decision : BOOLEAN, outcome : {"none", "written", "spooled"},
                           outcomes : Nat]]

\* A prompt that may still be sent has not been taken.
Untaken(p, d) ==
  /\ d.accepted <= 1
  /\ p.pc \in {"new", "capture", "send"} => d.accepted = 0

\* The outcome is recorded between the relay's end and what follows, or never: then the client
\* has left, the answer was torn, or the client was told.
Accounted(p, t) ==
  /\ t.outcomes <= 1
  /\ p.pc \in {"new", "capture", "send", "relay", "finally"} => t.outcomes = 0
  /\ p.pc = "follow" => t.outcomes = 1
  /\ p.pc = "done" /\ p.ended \notin {"client", "torn"} /\ t.outcomes = 0 =>
       p.status = "unreachable" /\ p.lane # "pi_stream"

PassInv ==
  /\ PassTyped
  /\ \A r \in Passes : Untaken(passes[r], deliveries[r]) /\ Accounted(passes[r], trail[r])

------------------------------------------------------------------------------

\* What follows an outcome is a sequence of names.
LEMMA FollowersNamed ==
  ASSUME NEW lane PROVE Followers(lane) \in Seq(Names)
<1>1. <<"judge", "brain", "drift", "shadow", "memory">> \in Seq(Names)
  BY DEF Names
<1>2. <<"judge", "brain", "memory">> \in Seq(Names)
  BY DEF Names
<1>3. << >> \in Seq(Names)
  BY DEF Names
<1>4. CASE lane = "anthropic"
  BY <1>1, <1>4 DEF Followers
<1>5. CASE lane = "chatgpt"
  BY <1>2, <1>5 DEF Followers
<1>6. CASE lane \notin {"anthropic", "chatgpt"}
  BY <1>3, <1>6 DEF Followers
<1> QED BY <1>4, <1>5, <1>6

\* The invariant holds at the start.
LEMMA PassInitially == PassInit => PassInv
<1> SUFFICES ASSUME PassInit PROVE PassInv
  OBVIOUS
<1>1. NotPassed \in PassStates /\ NotPassed.pc = "new"
  BY DEF NotPassed, PassStates, Lanes, Statuses
<1>2. NoTrail \in [decision : BOOLEAN, outcome : {"none", "written", "spooled"}, outcomes : Nat]
  BY DEF NoTrail
<1>3. PassTyped
  BY <1>1, <1>2 DEF PassInit, PassTyped
<1>4. ASSUME NEW r \in Passes
      PROVE  Untaken(passes[r], deliveries[r]) /\ Accounted(passes[r], trail[r])
  BY <1>1 DEF PassInit, NoTrail, Untaken, Accounted
<1> QED BY <1>3, <1>4 DEF PassInv

\* A step of one request that leaves it accounted for keeps the invariant.
LEMMA OneRequest ==
  ASSUME PassInv, NEW r \in Passes,
         NEW p \in PassStates,
         NEW d \in [refused : Nat, accepted : Nat],
         NEW t \in [decision : BOOLEAN, outcome : {"none", "written", "spooled"}, outcomes : Nat],
         passes' = [passes EXCEPT ![r] = p],
         deliveries' = [deliveries EXCEPT ![r] = d],
         trail' = [trail EXCEPT ![r] = t],
         Untaken(p, d), Accounted(p, t)
  PROVE  PassInv'
<1>1. PassTyped
  BY DEF PassInv
<1>2. PassTyped'
  BY <1>1 DEF PassTyped
<1>3. ASSUME NEW q \in Passes
      PROVE  Untaken(passes'[q], deliveries'[q]) /\ Accounted(passes'[q], trail'[q])
  <2>1. CASE q = r
    BY <1>1, <2>1 DEF PassTyped
  <2>2. CASE q # r
    BY <1>1, <2>2 DEF PassTyped, PassInv
  <2> QED BY <2>1, <2>2
<1> QED BY <1>2, <1>3 DEF PassInv

\* What the invariant says of one request, whose parts that stay are rewritten to themselves.
LEMMA OfOne ==
  ASSUME PassInv, NEW r \in Passes
  PROVE  /\ passes[r] \in PassStates
         /\ deliveries[r] \in [refused : Nat, accepted : Nat]
         /\ trail[r] \in [decision : BOOLEAN, outcome : {"none", "written", "spooled"},
                          outcomes : Nat]
         /\ Untaken(passes[r], deliveries[r]) /\ Accounted(passes[r], trail[r])
         /\ passes = [passes EXCEPT ![r] = passes[r]]
         /\ deliveries = [deliveries EXCEPT ![r] = deliveries[r]]
         /\ trail = [trail EXCEPT ![r] = trail[r]]
BY DEF PassInv, PassTyped

\* From the arrival until the prompt leaves.
LEMMA BeforeSending ==
  ASSUME PassInv, NEW r \in Passes, PassArrives(r) \/ CapturePass(r) PROVE PassInv'
<1> DEFINE d == deliveries[r]
           u == trail[r]
<1>1. /\ passes[r] \in PassStates
      /\ d \in [refused : Nat, accepted : Nat]
      /\ u \in [decision : BOOLEAN, outcome : {"none", "written", "spooled"}, outcomes : Nat]
      /\ Untaken(passes[r], d) /\ Accounted(passes[r], u)
      /\ deliveries = [deliveries EXCEPT ![r] = d]
      /\ trail = [trail EXCEPT ![r] = u]
  BY OfOne
<1>2. CASE PassArrives(r)
  <2>1. PICK lane \in Lanes :
          passes' = [passes EXCEPT ![r] = [passes[r] EXCEPT !.pc = "capture", !.lane = lane]]
    BY <1>2 DEF PassArrives, PassTo
  <2> DEFINE p == [passes[r] EXCEPT !.pc = "capture", !.lane = lane]
  <2>2. p \in PassStates /\ p.pc = "capture"
    BY <1>1 DEF PassStates
  <2>3. Untaken(p, d) /\ Accounted(p, u)
    BY <1>1, <1>2, <2>2 DEF PassArrives, PassAt, Untaken, Accounted
  <2>4. deliveries' = [deliveries EXCEPT ![r] = d] /\ trail' = [trail EXCEPT ![r] = u]
    BY <1>1, <1>2 DEF PassArrives
  <2> HIDE DEF p, d, u
  <2> QED BY <1>1, <2>1, <2>2, <2>3, <2>4, OneRequest DEF p
<1>3. CASE CapturePass(r)
  <2>1. PICK stored \in BOOLEAN : trail' = [trail EXCEPT ![r].decision = stored]
    BY <1>3 DEF CapturePass
  <2> DEFINE p == [passes[r] EXCEPT !.pc = "send"]
             t == [u EXCEPT !.decision = stored]
  <2>2. p \in PassStates /\ p.pc = "send"
    BY <1>1 DEF PassStates
  <2>3. /\ t \in [decision : BOOLEAN, outcome : {"none", "written", "spooled"}, outcomes : Nat]
        /\ t.outcomes = u.outcomes
    BY <1>1
  <2>4. Untaken(p, d) /\ Accounted(p, t)
    BY <1>1, <1>3, <2>2, <2>3 DEF CapturePass, PassAt, Untaken, Accounted
  <2>5. trail' = [trail EXCEPT ![r] = t]
    BY <2>1
  <2>6. deliveries' = [deliveries EXCEPT ![r] = d] /\ passes' = [passes EXCEPT ![r] = p]
    BY <1>1, <1>3 DEF CapturePass, PassTo
  <2> HIDE DEF p, d, t
  <2> QED BY <1>1, <2>2, <2>3, <2>4, <2>5, <2>6, OneRequest
<1> QED BY <1>2, <1>3

\* The sending: a prompt is sent again only while it has not been taken.
LEMMA Sending ==
  ASSUME PassInv, NEW r \in Passes, SendRefused(r) \/ SendAnswered(r) \/ SendLost(r)
  PROVE  PassInv'
<1> DEFINE d == deliveries[r]
           u == trail[r]
<1>1. /\ passes[r] \in PassStates
      /\ d \in [refused : Nat, accepted : Nat]
      /\ u \in [decision : BOOLEAN, outcome : {"none", "written", "spooled"}, outcomes : Nat]
      /\ Untaken(passes[r], d) /\ Accounted(passes[r], u)
      /\ deliveries = [deliveries EXCEPT ![r] = d]
      /\ trail = [trail EXCEPT ![r] = u]
  BY OfOne
<1>2. passes[r].pc = "send" /\ d.accepted = 0 /\ u.outcomes = 0
  BY <1>1 DEF SendRefused, SendAnswered, SendLost, PassAt, Untaken, Accounted
<1>3. trail' = [trail EXCEPT ![r] = u] /\ passes[r].tries + 1 \in Nat
  BY <1>1 DEF SendRefused, SendAnswered, SendLost, PassStates
<1>4. CASE SendRefused(r)
  <2> DEFINE p == [passes[r] EXCEPT !.tries = @ + 1, !.status = "refused",
                                    !.pc = IF Retries(passes[r]) THEN "send" ELSE "relay"]
             e == [d EXCEPT !.refused = @ + 1]
  <2>1. p \in PassStates /\ p.pc \in {"send", "relay"}
    BY <1>1, <1>3 DEF PassStates, Statuses
  <2>2. e \in [refused : Nat, accepted : Nat] /\ e.accepted = 0
    BY <1>1, <1>2
  <2>3. Untaken(p, e) /\ Accounted(p, u)
    BY <1>2, <2>1, <2>2 DEF Untaken, Accounted
  <2>4. passes' = [passes EXCEPT ![r] = p] /\ deliveries' = [deliveries EXCEPT ![r] = e]
    BY <1>4 DEF SendRefused, PassTo
  <2> HIDE DEF p, e, u, d
  <2> QED BY <1>1, <1>3, <2>1, <2>2, <2>3, <2>4, OneRequest
<1>5. CASE SendAnswered(r)
  <2>1. PICK status \in {"ok", "error"} :
          /\ PassTo(r, [passes[r] EXCEPT !.tries = @ + 1, !.status = status, !.pc = "relay"])
          /\ deliveries' = [deliveries EXCEPT ![r].accepted = IF status = "ok" THEN @ + 1 ELSE @]
    BY <1>5 DEF SendAnswered
  <2> DEFINE p == [passes[r] EXCEPT !.tries = @ + 1, !.status = status, !.pc = "relay"]
             e == [d EXCEPT !.accepted = IF status = "ok" THEN @ + 1 ELSE @]
  <2>2. p \in PassStates /\ p.pc = "relay"
    BY <1>1, <1>3 DEF PassStates, Statuses
  <2>3. e \in [refused : Nat, accepted : Nat] /\ e.accepted <= 1
    BY <1>1, <1>2
  <2>4. Untaken(p, e) /\ Accounted(p, u)
    BY <1>2, <2>2, <2>3 DEF Untaken, Accounted
  <2>5. passes' = [passes EXCEPT ![r] = p] /\ deliveries' = [deliveries EXCEPT ![r] = e]
    BY <2>1 DEF PassTo
  <2> HIDE DEF p, e, u, d
  <2> QED BY <1>1, <1>3, <2>2, <2>3, <2>4, <2>5, OneRequest
<1>6. CASE SendLost(r)
  <2>1. PICK taken \in {0, 1} : deliveries' = [deliveries EXCEPT ![r].accepted = @ + taken]
    BY <1>6 DEF SendLost
  <2> DEFINE p == [passes[r] EXCEPT !.tries = @ + 1, !.status = "unreachable",
                                    !.ended = "broken",
                                    !.pc = IF passes[r].lane = "pi_stream" THEN "finally"
                                           ELSE "done"]
             e == [d EXCEPT !.accepted = @ + taken]
  <2>2. /\ p \in PassStates /\ p.pc \in {"finally", "done"}
        /\ p.pc = "done" => p.status = "unreachable" /\ p.lane # "pi_stream"
    BY <1>1, <1>3 DEF PassStates, Statuses
  <2>3. e \in [refused : Nat, accepted : Nat] /\ e.accepted <= 1
    BY <1>1, <1>2
  <2>4. Untaken(p, e) /\ Accounted(p, u)
    BY <1>2, <2>2, <2>3 DEF Untaken, Accounted
  <2>5. passes' = [passes EXCEPT ![r] = p] /\ deliveries' = [deliveries EXCEPT ![r] = e]
    BY <1>6, <2>1 DEF SendLost, PassTo
  <2> HIDE DEF p, e, u, d
  <2> QED BY <1>1, <1>3, <2>2, <2>3, <2>4, <2>5, OneRequest
<1> QED BY <1>4, <1>5, <1>6

\* The end of the relay and what comes after it, but for the outcome: no account changes.
LEMMA Ending ==
  ASSUME PassInv, NEW r \in Passes,
         EndRelay(r) \/ FailDecode(r) \/ FollowUp(r) \/ CutPass(r)
  PROVE  PassInv'
<1> DEFINE d == deliveries[r]
           u == trail[r]
<1>1. /\ passes[r] \in PassStates
      /\ d \in [refused : Nat, accepted : Nat]
      /\ u \in [decision : BOOLEAN, outcome : {"none", "written", "spooled"}, outcomes : Nat]
      /\ Untaken(passes[r], d) /\ Accounted(passes[r], u)
      /\ deliveries = [deliveries EXCEPT ![r] = d]
      /\ trail = [trail EXCEPT ![r] = u]
  BY OfOne
<1>2. deliveries' = [deliveries EXCEPT ![r] = d] /\ trail' = [trail EXCEPT ![r] = u]
  BY <1>1 DEF EndRelay, FailDecode, FollowUp, CutPass
<1> SUFFICES ASSUME TRUE
             PROVE  \E p \in PassStates : /\ passes' = [passes EXCEPT ![r] = p]
                                           /\ Untaken(p, d) /\ Accounted(p, u)
  <2>1. PICK p \in PassStates : passes' = [passes EXCEPT ![r] = p] /\ Untaken(p, d) /\ Accounted(p, u)
    OBVIOUS
  <2> HIDE DEF d, u
  <2> QED BY <1>1, <1>2, <2>1, OneRequest
<1>3. CASE EndRelay(r)
  <2>1. PICK end \in Ends(passes[r].lane) :
          passes' = [passes EXCEPT ![r] = [passes[r] EXCEPT !.ended = end, !.pc = "finally"]]
    BY <1>3 DEF EndRelay, PassTo
  <2> DEFINE p == [passes[r] EXCEPT !.ended = end, !.pc = "finally"]
  <2>2. end \in {"whole", "broken", "torn", "client"}
    BY DEF Ends
  <2>3. p \in PassStates /\ p.pc = "finally"
    BY <1>1, <2>2 DEF PassStates
  <2>4. Untaken(p, d) /\ Accounted(p, u)
    BY <1>1, <1>3, <2>3 DEF EndRelay, PassAt, Untaken, Accounted
  <2>5. passes' = [passes EXCEPT ![r] = p]
    BY <2>1
  <2> HIDE DEF p, d, u
  <2> QED BY <2>3, <2>4, <2>5
<1>4. CASE FailDecode(r) \/ CutPass(r)
  <2> DEFINE p == [passes[r] EXCEPT !.pc = "done"]
  <2>1. p \in PassStates /\ p.pc = "done" /\ p.ended \in {"torn", "client"}
    BY <1>1, <1>4 DEF FailDecode, CutPass, PassStates
  <2>2. Untaken(p, d) /\ Accounted(p, u)
    BY <1>1, <2>1 DEF Untaken, Accounted
  <2>3. passes' = [passes EXCEPT ![r] = p]
    BY <1>4 DEF FailDecode, CutPass, PassTo
  <2> HIDE DEF p, d, u
  <2> QED BY <2>1, <2>2, <2>3
<1>5. CASE FollowUp(r) /\ passes[r].left = <<>>
  <2> DEFINE p == [passes[r] EXCEPT !.pc = "done"]
  <2>1. p \in PassStates /\ p.pc = "done" /\ u.outcomes = 1
    BY <1>1, <1>5 DEF FollowUp, PassAt, PassStates, Accounted
  <2>2. Untaken(p, d) /\ Accounted(p, u)
    BY <1>1, <2>1 DEF Untaken, Accounted
  <2>3. passes' = [passes EXCEPT ![r] = p]
    BY <1>5 DEF FollowUp, PassTo
  <2> HIDE DEF p, d, u
  <2> QED BY <2>1, <2>2, <2>3
<1>6. CASE FollowUp(r) /\ passes[r].left # <<>>
  <2> DEFINE p == [passes[r] EXCEPT !.left = Tail(@)]
  <2>1. Tail(passes[r].left) \in Seq(Names)
    BY <1>1, <1>6 DEF PassStates
  <2>2. p \in PassStates /\ p.pc = "follow"
    BY <1>1, <1>6, <2>1 DEF FollowUp, PassAt, PassStates
  <2>3. Untaken(p, d) /\ Accounted(p, u)
    BY <1>1, <1>6, <2>2 DEF FollowUp, PassAt, Untaken, Accounted
  <2>4. passes' = [passes EXCEPT ![r] = p]
    BY <1>6 DEF FollowUp, PassTo
  <2> HIDE DEF p, d, u
  <2> QED BY <2>2, <2>3, <2>4
<1> QED BY <1>3, <1>4, <1>5, <1>6

\* The outcome is recorded once; a replay of the spool moves it and records no other.
LEMMA Recording ==
  ASSUME PassInv, NEW r \in Passes, PersistPass(r) \/ ReplayPass(r) PROVE PassInv'
<1> DEFINE d == deliveries[r]
           u == trail[r]
<1>1. /\ passes[r] \in PassStates
      /\ d \in [refused : Nat, accepted : Nat]
      /\ u \in [decision : BOOLEAN, outcome : {"none", "written", "spooled"}, outcomes : Nat]
      /\ Untaken(passes[r], d) /\ Accounted(passes[r], u)
      /\ deliveries = [deliveries EXCEPT ![r] = d]
      /\ passes = [passes EXCEPT ![r] = passes[r]]
  BY OfOne
<1>2. deliveries' = [deliveries EXCEPT ![r] = d]
  BY <1>1 DEF PersistPass, ReplayPass
<1>3. CASE PersistPass(r)
  <2>1. PICK how \in {"written", "spooled"} :
          trail' = [trail EXCEPT ![r].outcome = how, ![r].outcomes = @ + 1]
    BY <1>3 DEF PersistPass
  <2> DEFINE p == [passes[r] EXCEPT !.pc = "follow", !.left = Followers(passes[r].lane)]
             t == [u EXCEPT !.outcome = how, !.outcomes = @ + 1]
  <2>2. p \in PassStates /\ p.pc = "follow"
    BY <1>1, FollowersNamed DEF PassStates
  <2>3. u.outcomes = 0
    BY <1>1, <1>3 DEF PersistPass, PassAt, Accounted
  <2>4. /\ t \in [decision : BOOLEAN, outcome : {"none", "written", "spooled"}, outcomes : Nat]
        /\ t.outcomes = 1
    <3>1. PICK n \in Nat : n = u.outcomes + 1
      BY <2>3
    <3>2. [u EXCEPT !.outcome = how, !.outcomes = n] \in
             [decision : BOOLEAN, outcome : {"none", "written", "spooled"}, outcomes : Nat]
      BY <1>1
    <3>3. t = [u EXCEPT !.outcome = how, !.outcomes = n]
      BY <3>1
    <3>4. t.outcomes = 1
      BY <1>1, <2>3
    <3> HIDE DEF t, u
    <3> QED BY <3>2, <3>3, <3>4
  <2>5. Untaken(p, d) /\ Accounted(p, t)
    BY <1>1, <2>2, <2>4 DEF Untaken, Accounted
  <2>6. trail' = [trail EXCEPT ![r] = t]
    BY <2>1
  <2>7. passes' = [passes EXCEPT ![r] = p]
    BY <1>3 DEF PersistPass, PassTo
  <2> HIDE DEF p, t, d, u
  <2> QED BY <1>1, <1>2, <2>2, <2>4, <2>5, <2>6, <2>7, OneRequest
<1>4. CASE ReplayPass(r)
  <2> DEFINE t == [u EXCEPT !.outcome = "written"]
  <2>1. /\ t \in [decision : BOOLEAN, outcome : {"none", "written", "spooled"}, outcomes : Nat]
        /\ t.outcomes = u.outcomes
    BY <1>1
  <2>2. Accounted(passes[r], t)
    BY <1>1, <2>1 DEF Accounted
  <2>3. trail' = [trail EXCEPT ![r] = t] /\ passes' = [passes EXCEPT ![r] = passes[r]]
    BY <1>1, <1>4 DEF ReplayPass
  <2> HIDE DEF t, d, u
  <2> QED BY <1>1, <1>2, <2>1, <2>2, <2>3, OneRequest
<1> QED BY <1>3, <1>4

\* Every step keeps the invariant.
LEMMA PassStep == PassInv /\ [PassNext]_passVars => PassInv'
<1> SUFFICES ASSUME PassInv, [PassNext]_passVars PROVE PassInv'
  OBVIOUS
<1>1. CASE UNCHANGED passVars
  BY <1>1 DEF passVars, PassInv, PassTyped
<1>2. CASE PassNext
  <2>1. PICK r \in Passes :
          \/ PassArrives(r) \/ CapturePass(r) \/ SendRefused(r) \/ SendAnswered(r) \/ SendLost(r)
          \/ EndRelay(r) \/ PersistPass(r) \/ FailDecode(r) \/ FollowUp(r) \/ CutPass(r)
          \/ ReplayPass(r)
    BY <1>2 DEF PassNext
  <2> QED BY <2>1, BeforeSending, Sending, Ending, Recording
<1> QED BY <1>1, <1>2

\* However often a lane sends a prompt and however its relay ends, the provider takes the prompt
\* at most once; at most one outcome is recorded of it, and none only where the client left, the
\* answer was torn, or the client was told of the failure (oauth_forwarder.py:226-443,
\* anthropic_oauth_forwarder.py:441-773, pi_responses.py:173-293).
THEOREM TakenAndKept == PassSpec => []ForwardedOnce
<1>1. PassInv => ForwardedOnce
  <2> SUFFICES ASSUME PassInv, NEW r \in Passes
               PROVE  /\ deliveries[r].accepted <= 1
                      /\ trail[r].outcomes <= 1
                      /\ PassAt(r, "done") /\ passes[r].ended \notin {"client", "torn"}
                           /\ trail[r].outcomes = 0 =>
                         passes[r].status = "unreachable" /\ passes[r].lane # "pi_stream"
    BY DEF ForwardedOnce, AcceptedOnce, ForwardedIsKept
  <2> QED BY DEF PassInv, Untaken, Accounted, PassAt
<1> QED BY <1>1, PassInitially, PassStep, PTL DEF PassSpec

(*****************************************************************************)
(* The types of a forwarded prompt: it is tried a bounded number of times, and*)
(* what is left of its followers is a part of them.                          *)
(*****************************************************************************)

\* What is left of what follows an outcome.
LeftFrom(lane, i) == SubSeq(Followers(lane), i, Len(Followers(lane)))
Lefts == {LeftFrom(lane, i) : lane \in Lanes, i \in 1..6}

\* A prompt is refused no more often than it was sent, and sent no more often than it may be.
Tried(p, d) ==
  /\ p.tries <= Tries /\ d.refused <= p.tries
  /\ p.pc \in {"new", "capture", "send"} => p.tries < Tries

PassBounded == \A r \in Passes : Tried(passes[r], deliveries[r]) /\ passes[r].left \in Lefts

\* What follows an outcome is five at the most.
LEMMA FollowersFew == ASSUME NEW lane PROVE Len(Followers(lane)) \in 0..5
<1>1. CASE lane = "anthropic"
  BY <1>1 DEF Followers
<1>2. CASE lane = "chatgpt"
  BY <1>2 DEF Followers
<1>3. CASE lane \notin {"anthropic", "chatgpt"}
  BY <1>3 DEF Followers
<1> QED BY <1>1, <1>2, <1>3

\* All of it may be left, none of it, or what comes after its first.
LEMMA LeftsAre ==
  /\ \A lane \in Lanes : Followers(lane) \in Lefts
  /\ <<>> \in Lefts
  /\ \A s \in Lefts : s # <<>> => Tail(s) \in Lefts
<1>1. ASSUME NEW lane \in Lanes PROVE Followers(lane) \in Lefts
  <2>1. SubSeq(Followers(lane), 1, Len(Followers(lane))) = Followers(lane)
    BY FollowersNamed, SubSeqFull
  <2> QED BY <2>1 DEF Lefts, LeftFrom
<1>2. <<>> \in Lefts
  <2>1. Followers("pi") = <<>> /\ "pi" \in Lanes
    BY DEF Followers, Lanes
  <2> QED BY <1>1, <2>1
<1>3. ASSUME NEW s \in Lefts, s # <<>> PROVE Tail(s) \in Lefts
  <2>1. PICK lane \in Lanes, i \in 1..6 : s = LeftFrom(lane, i)
    BY DEF Lefts
  <2> DEFINE f == Followers(lane)
  <2>2. f \in Seq(Names) /\ Len(f) \in 0..5 /\ s = SubSeq(f, i, Len(f))
    BY <2>1, FollowersNamed, FollowersFew DEF LeftFrom
  <2>3. i \in 1..6 /\ lane \in Lanes
    BY <2>1
  <2> HIDE DEF f
  <2>4. i <= Len(f)
    <3> SUFFICES ASSUME i > Len(f) PROVE FALSE
      BY <2>2, <2>3
    <3> QED BY <2>2, <2>3, <1>3, SubSeqEmpty
  <2>5. Tail(s) = SubSeq(f, i + 1, Len(f))
    BY <2>2, <2>3, <2>4, HeadTailOfSubSeq
  <2>6. Tail(s) = LeftFrom(lane, i + 1)
    BY <2>5 DEF f, LeftFrom
  <2>7. i + 1 \in 1..6
    BY <2>2, <2>3, <2>4
  <2> QED BY <2>3, <2>6, <2>7 DEF Lefts
<1> QED BY <1>1, <1>2, <1>3

\* A step of one request within the bounds.
LEMMA OneBounded ==
  ASSUME PassInv, PassBounded, NEW r \in Passes, NEW p, NEW d,
         passes' = [passes EXCEPT ![r] = p], deliveries' = [deliveries EXCEPT ![r] = d],
         Tried(p, d), p.left \in Lefts
  PROVE  PassBounded'
<1>1. DOMAIN passes = Passes /\ DOMAIN deliveries = Passes
  BY DEF PassInv, PassTyped
<1>2. ASSUME NEW q \in Passes PROVE Tried(passes'[q], deliveries'[q]) /\ passes'[q].left \in Lefts
  <2>1. CASE q = r
    BY <1>1, <2>1
  <2>2. CASE q # r
    BY <1>1, <2>2 DEF PassBounded
  <2> QED BY <2>1, <2>2
<1> QED BY <1>2 DEF PassBounded

\* A prompt that is new has not been tried.
LEMMA BoundedStart == PassInit => PassBounded
<1> SUFFICES ASSUME PassInit PROVE PassBounded
  OBVIOUS
<1>1. Tried(NotPassed, [refused |-> 0, accepted |-> 0]) /\ NotPassed.left = <<>>
  BY TriesAssumption DEF Tried, NotPassed
<1> QED BY <1>1, LeftsAre DEF PassInit, PassBounded

\* However it is refused and retried, a request stays within its bounds.
LEMMA BoundedStep == PassInv /\ PassBounded /\ [PassNext]_passVars => PassBounded'
<1> SUFFICES ASSUME PassInv, PassBounded, [PassNext]_passVars PROVE PassBounded'
  OBVIOUS
<1>1. CASE UNCHANGED passVars
  BY <1>1 DEF passVars, PassBounded
<1>2. CASE PassNext
  <2>1. PICK r \in Passes :
          \/ PassArrives(r) \/ CapturePass(r) \/ SendRefused(r) \/ SendAnswered(r) \/ SendLost(r)
          \/ EndRelay(r) \/ PersistPass(r) \/ FailDecode(r) \/ FollowUp(r) \/ CutPass(r)
          \/ ReplayPass(r)
    BY <1>2 DEF PassNext
  <2> DEFINE q == passes[r]
             d == deliveries[r]
  <2>2. /\ q \in PassStates /\ d \in [refused : Nat, accepted : Nat] /\ Tried(q, d)
        /\ q.left \in Lefts /\ Tries \in Nat
        /\ passes = [passes EXCEPT ![r] = q] /\ deliveries = [deliveries EXCEPT ![r] = d]
    BY OfOne, TriesAssumption DEF PassBounded
  <2>3. CASE ReplayPass(r)
    BY <2>3 DEF ReplayPass, PassBounded
  <2>4. CASE \/ PassArrives(r) \/ CapturePass(r) \/ EndRelay(r) \/ PersistPass(r)
             \/ FailDecode(r) \/ FollowUp(r) \/ CutPass(r)
    <3>1. deliveries' = [deliveries EXCEPT ![r] = d]
      BY <2>2, <2>4 DEF PassArrives, CapturePass, EndRelay, PersistPass, FailDecode, FollowUp, CutPass
    <3>2. PICK p : /\ passes' = [passes EXCEPT ![r] = p] /\ p.tries = q.tries /\ p.left \in Lefts
                   /\ p.pc \in {"new", "capture", "send"} =>
                        q.pc \in {"new", "capture", "send"}
      <4>1. CASE PassArrives(r)
        <5>1. PICK lane \in Lanes : PassTo(r, [q EXCEPT !.pc = "capture", !.lane = lane])
          BY <4>1 DEF PassArrives
        <5> DEFINE p == [q EXCEPT !.pc = "capture", !.lane = lane]
        <5>2. p.tries = q.tries /\ p.left = q.left /\ q.pc = "new"
          BY <2>2, <4>1 DEF PassArrives, PassAt, PassStates
        <5> QED BY <2>2, <5>1, <5>2 DEF PassTo
      <4>2. CASE CapturePass(r)
        <5> DEFINE p == [q EXCEPT !.pc = "send"]
        <5>1. p.tries = q.tries /\ p.left = q.left /\ q.pc = "capture"
          BY <2>2, <4>2 DEF CapturePass, PassAt, PassStates
        <5> QED BY <2>2, <4>2, <5>1 DEF CapturePass, PassTo
      <4>3. CASE EndRelay(r)
        <5>1. PICK end : PassTo(r, [q EXCEPT !.ended = end, !.pc = "finally"])
          BY <4>3 DEF EndRelay
        <5> DEFINE p == [q EXCEPT !.ended = end, !.pc = "finally"]
        <5>2. p.tries = q.tries /\ p.left = q.left /\ p.pc = "finally"
          BY <2>2 DEF PassStates
        <5> QED BY <2>2, <5>1, <5>2 DEF PassTo
      <4>4. CASE PersistPass(r)
        <5> DEFINE p == [q EXCEPT !.pc = "follow", !.left = Followers(q.lane)]
        <5>1. p.tries = q.tries /\ p.left = Followers(q.lane) /\ p.pc = "follow" /\ q.lane \in Lanes
          BY <2>2 DEF PassStates
        <5> QED BY <4>4, <5>1, LeftsAre DEF PersistPass, PassTo
      <4>5. CASE PassTo(r, [q EXCEPT !.pc = "done"])
        <5> DEFINE p == [q EXCEPT !.pc = "done"]
        <5>1. p.tries = q.tries /\ p.left = q.left /\ p.pc = "done"
          BY <2>2 DEF PassStates
        <5> QED BY <2>2, <4>5, <5>1 DEF PassTo
      <4>6. CASE FollowUp(r) /\ q.left # <<>>
        <5> DEFINE p == [q EXCEPT !.left = Tail(@)]
        <5>1. p.tries = q.tries /\ p.left = Tail(q.left) /\ p.pc = q.pc
          BY <2>2 DEF PassStates
        <5> QED BY <2>2, <4>6, <5>1, LeftsAre DEF FollowUp, PassTo
      <4> QED BY <2>4, <4>1, <4>2, <4>3, <4>4, <4>5, <4>6 DEF FailDecode, FollowUp, CutPass
    <3>3. Tried(p, d)
      BY <2>2, <3>2 DEF Tried
    <3> QED BY <3>1, <3>2, <3>3, OneBounded
  <2>5. CASE SendRefused(r) \/ SendAnswered(r) \/ SendLost(r)
    <3>1. q.pc = "send" /\ q.tries < Tries
      BY <2>2, <2>5 DEF SendRefused, SendAnswered, SendLost, PassAt, Tried
    <3>2. PICK p, e : /\ passes' = [passes EXCEPT ![r] = p] /\ deliveries' = [deliveries EXCEPT ![r] = e]
                      /\ p.tries = q.tries + 1 /\ p.left = q.left
                      /\ e.refused \in {d.refused, d.refused + 1}
                      /\ p.pc = "send" => q.tries + 1 < Tries
                      /\ p.pc \notin {"new", "capture"}
      <4>1. CASE SendRefused(r)
        <5> DEFINE p == [q EXCEPT !.tries = @ + 1, !.status = "refused",
                                  !.pc = IF Retries(q) THEN "send" ELSE "relay"]
                   e == [d EXCEPT !.refused = @ + 1]
        <5>1. p.tries = q.tries + 1 /\ p.left = q.left /\ e.refused = d.refused + 1
          BY <2>2 DEF PassStates
        <5>2. p.pc \in {"send", "relay"} /\ (p.pc = "send" => Retries(q))
          BY <2>2 DEF PassStates
        <5> QED BY <4>1, <5>1, <5>2 DEF SendRefused, PassTo, Retries
      <4>2. CASE SendAnswered(r)
        <5>1. PICK status \in {"ok", "error"} :
                /\ PassTo(r, [q EXCEPT !.tries = @ + 1, !.status = status, !.pc = "relay"])
                /\ deliveries' = [deliveries EXCEPT ![r].accepted = IF status = "ok" THEN @ + 1 ELSE @]
          BY <4>2 DEF SendAnswered
        <5> DEFINE p == [q EXCEPT !.tries = @ + 1, !.status = status, !.pc = "relay"]
                   e == [d EXCEPT !.accepted = IF status = "ok" THEN @ + 1 ELSE @]
        <5>2. p.tries = q.tries + 1 /\ p.left = q.left /\ e.refused = d.refused /\ p.pc = "relay"
          BY <2>2 DEF PassStates
        <5>3. passes' = [passes EXCEPT ![r] = p] /\ deliveries' = [deliveries EXCEPT ![r] = e]
          BY <5>1 DEF PassTo
        <5> QED BY <5>2, <5>3
      <4>3. CASE SendLost(r)
        <5>1. PICK taken \in {0, 1} : deliveries' = [deliveries EXCEPT ![r].accepted = @ + taken]
          BY <4>3 DEF SendLost
        <5> DEFINE p == [q EXCEPT !.tries = @ + 1, !.status = "unreachable", !.ended = "broken",
                                  !.pc = IF q.lane = "pi_stream" THEN "finally" ELSE "done"]
                   e == [d EXCEPT !.accepted = @ + taken]
        <5>2. p.tries = q.tries + 1 /\ p.left = q.left /\ e.refused = d.refused
              /\ p.pc \in {"finally", "done"}
          BY <2>2 DEF PassStates
        <5>3. passes' = [passes EXCEPT ![r] = p] /\ deliveries' = [deliveries EXCEPT ![r] = e]
          BY <4>3, <5>1 DEF SendLost, PassTo
        <5> QED BY <5>2, <5>3
      <4> QED BY <2>5, <4>1, <4>2, <4>3
    <3>3. q.tries \in Nat /\ d.refused \in Nat
      BY <2>2 DEF PassStates
    <3> HIDE DEF q, d
    <3>4. Tried(p, e) /\ p.left \in Lefts
      BY <2>2, <3>1, <3>2, <3>3 DEF Tried
    <3> QED BY <3>2, <3>4, OneBounded
  <2> QED BY <2>1, <2>3, <2>4, <2>5
<1> QED BY <1>1, <1>2

\* What was sent and recorded of a prompt, with the bounds, is typed.
LEMMA PassTypes == PassInv /\ PassBounded => PassTypeOK
<1> SUFFICES ASSUME PassInv, PassBounded PROVE PassTypeOK
  OBVIOUS
<1> DEFINE P == [pc : {"new", "capture", "send", "relay", "finally", "follow", "done"},
                 lane : Lanes, tries : 0..Tries, status : Statuses,
                 ended : {"no", "whole", "broken", "torn", "client"}, left : Lefts]
           D == [refused : 0..Tries, accepted : 0..1]
           T == [decision : BOOLEAN, outcome : {"none", "written", "spooled"}, outcomes : 0..1]
<1>1. ASSUME NEW r \in Passes PROVE passes[r] \in P /\ deliveries[r] \in D
  <2>1. /\ passes[r] \in PassStates /\ deliveries[r] \in [refused : Nat, accepted : Nat]
        /\ Tried(passes[r], deliveries[r]) /\ deliveries[r].accepted <= 1
        /\ passes[r].left \in Lefts /\ Tries \in Nat
    BY OfOne, TriesAssumption DEF PassBounded, Untaken
  <2>2. passes[r].tries \in 0..Tries /\ deliveries[r].refused \in 0..Tries
        /\ deliveries[r].accepted \in 0..1
    BY <2>1 DEF Tried, PassStates
  <2> QED BY <2>1, <2>2 DEF PassStates
<1>2. ASSUME NEW r \in Passes PROVE trail[r] \in T
  <2>1. /\ trail[r] \in [decision : BOOLEAN, outcome : {"none", "written", "spooled"}, outcomes : Nat]
        /\ trail[r].outcomes <= 1
    BY OfOne DEF Accounted
  <2>2. trail[r].outcomes \in 0..1
    BY <2>1
  <2>3. trail[r] = [decision |-> trail[r].decision, outcome |-> trail[r].outcome,
                    outcomes |-> trail[r].outcomes]
        /\ trail[r].decision \in BOOLEAN /\ trail[r].outcome \in {"none", "written", "spooled"}
    BY <2>1
  <2> QED BY <2>2, <2>3, Zenon
<1>3. DOMAIN passes = Passes /\ DOMAIN deliveries = Passes /\ DOMAIN trail = Passes
      /\ passes = [r \in Passes |-> passes[r]] /\ deliveries = [r \in Passes |-> deliveries[r]]
      /\ trail = [r \in Passes |-> trail[r]]
  BY DEF PassInv, PassTyped
<1>4. passes \in [Passes -> P] /\ deliveries \in [Passes -> D] /\ trail \in [Passes -> T]
  <2> HIDE DEF P, D, T
  <2> QED BY <1>1, <1>2, <1>3
<1> QED BY <1>4 DEF PassTypeOK, Lefts, LeftFrom

(*****************************************************************************)
(* BodyCapture: what is kept of a turn fits its class, and no complete pass of *)
(* the pruner leaves an expired body.                                        *)
(*****************************************************************************)

BodySpec == BodyInit /\ [][BodyNext]_bodyVars

\* A turn's class is settled before either of its texts is kept; the proxy's turns have none.
ClassFirst ==
  \A t \in Turns :
    /\ turn[t].pc = "ingested" => turn[t].class = "none"
    /\ turn[t].pc \in {"idle", "confirm", "decide"} => ~decision[t].body.kept
    /\ turn[t].pc \in {"idle", "confirm", "decide", "answer", "ingested"} => ~result[t].body.kept

\* What a class admits of a body.
Admitted(body, class) ==
  body.kept => class # "secret" /\ (class = "pii" => body.marks = {})

BodiesAdmitted ==
  \A t \in Turns : /\ Admitted(decision[t].body, turn[t].class)
                   /\ Admitted(result[t].body, turn[t].class)

\* Nothing kept is older than the window was at a time.
NoneBefore(rows, time) == \A t \in Turns : rows[t].body.kept => rows[t].at + Window >= time

\* A pass that is half way has left no expired prompt; one that is complete no response either.
PassHolds ==
  Window > 0 =>
    /\ NoneBefore(decision, pruner.passed) /\ NoneBefore(result, pruner.passed)
    /\ pruner.pc = "outcomes" => NoneBefore(decision, pruner.began)

\* The types, but for the bound of the clock and of the pruner's other fields.
BodyTyped ==
  /\ turn \in [Turns -> [pc : {"idle", "confirm", "decide", "answer", "ingested", "done"},
                         text : Texts, class : {"none", "pii", "secret"}]]
  /\ decision \in [Turns -> BodyRowType] /\ result \in [Turns -> BodyRowType]
  /\ pruner \in [pc : {"due", "outcomes", "asleep"}, began : Nat, passed : Nat]
  /\ pruner.passed <= pruner.began /\ pruner.began <= now /\ now \in 0..BodyClock

BodyInv == BodyTyped /\ ClassFirst /\ BodiesAdmitted /\ PassHolds

------------------------------------------------------------------------------

\* What the rules find has a class.
LEMMA RulesClassify ==
  ASSUME NEW marks PROVE ClassOf(marks) \in {"none", "pii", "secret"}
BY DEF ClassOf

\* capture.py keeps what the class admits.
LEMMA KeptIsAdmitted ==
  ASSUME NEW marks \in SUBSET Marks, NEW class \in {"none", "pii", "secret"},
         NEW body \in Kept(marks, class)
  PROVE  /\ body \in [kept : BOOLEAN, marks : SUBSET Marks]
         /\ Admitted(body, class)
<1>1. NoBody \in [kept : BOOLEAN, marks : SUBSET Marks] /\ Admitted(NoBody, class)
  BY DEF NoBody, Admitted
<1>2. CASE body = NoBody
  BY <1>1, <1>2
<1>3. CASE body # NoBody
  <2>1. class # "secret" /\ body = [kept |-> TRUE, marks |-> Redacted(marks, class)]
    BY <1>3 DEF Kept
  <2>2. Redacted(marks, class) \in SUBSET Marks
    BY DEF Redacted
  <2>3. class = "pii" => body.marks = {}
    BY <2>1 DEF Redacted
  <2> QED BY <2>1, <2>2, <2>3 DEF Admitted
<1> QED BY <1>2, <1>3

\* The invariant holds at the start.
LEMMA BodyInitially == BodyInit => BodyInv
<1> SUFFICES ASSUME BodyInit PROVE BodyInv
  OBVIOUS
<1>1. NoBody \in [kept : BOOLEAN, marks : SUBSET Marks] /\ ~NoBody.kept
  BY DEF NoBody
<1>2. NoBodyRow \in BodyRowType /\ ~NoBodyRow.body.kept
  BY <1>1, BodyAssumption DEF NoBodyRow, BodyRowType
<1>3. NotTurning \in [pc : {"idle", "confirm", "decide", "answer", "ingested", "done"},
                      text : Texts, class : {"none", "pii", "secret"}]
  BY DEF NotTurning, Texts
<1>4. BodyTyped
  BY <1>2, <1>3, BodyAssumption DEF BodyInit, BodyTyped
<1>5. ClassFirst /\ BodiesAdmitted
  BY <1>2 DEF BodyInit, NotTurning, ClassFirst, BodiesAdmitted, Admitted
<1>6. PassHolds
  BY <1>2 DEF BodyInit, PassHolds, NoneBefore
<1> QED BY <1>4, <1>5, <1>6 DEF BodyInv

\* A body that is kept now makes a row of the table, and one no pass has found expired.
LEMMA RowNow ==
  ASSUME BodyTyped, NEW marks \in SUBSET Marks, NEW class \in {"none", "pii", "secret"},
         NEW body \in Kept(marks, class)
  PROVE  /\ [body |-> body, at |-> now] \in BodyRowType
         /\ Admitted(body, class)
         /\ Window > 0 => now + Window >= pruner.began /\ now + Window >= pruner.passed
<1>1. body \in [kept : BOOLEAN, marks : SUBSET Marks] /\ Admitted(body, class)
  BY KeptIsAdmitted
<1>2. now \in 0..BodyClock
  BY DEF BodyTyped
<1>3. [body |-> body, at |-> now] \in BodyRowType
  BY <1>1, <1>2 DEF BodyRowType
<1>4. Window > 0 => now + Window >= pruner.began /\ now + Window >= pruner.passed
  BY <1>2, BodyAssumption DEF BodyTyped
<1> QED BY <1>1, <1>3, <1>4

\* A class is set before anything is kept: Submit and ConfirmClass.
LEMMA ClassifyKeeps ==
  ASSUME BodyInv, NEW t \in Turns, Submit(t) \/ ConfirmClass(t) PROVE BodyInv'
<1>1. PICK state : /\ TurnTo(t, state)
                   /\ state \in [pc : {"confirm", "decide"}, text : Texts,
                                 class : {"none", "pii", "secret"}]
                   /\ turn[t].pc \in {"idle", "confirm"}
  <2>1. CASE Submit(t)
    BY <2>1, RulesClassify DEF Submit, TurnAt
  <2>2. CASE ConfirmClass(t)
    <3>1. turn[t].text \in Texts /\ turn[t].class \in {"none", "pii", "secret"}
      BY DEF BodyInv, BodyTyped
    <3>2. PICK verdict \in Readings :
            TurnTo(t, [turn[t] EXCEPT !.pc = "decide",
                         !.class = IF Confirming /\ turn[t].class = "none" /\ turn[t].text.hinted
                                   THEN verdict ELSE @])
      BY <2>2 DEF ConfirmClass
    <3>3. turn[t] \in [pc : {"idle", "confirm", "decide", "answer", "ingested", "done"},
                       text : Texts, class : {"none", "pii", "secret"}]
      BY DEF BodyInv, BodyTyped
    <3> QED BY <2>2, <3>1, <3>2, <3>3 DEF ConfirmClass, TurnAt, Readings
  <2> QED BY <2>1, <2>2
<1>2. UNCHANGED <<decision, result, pruner, now>>
  BY DEF Submit, ConfirmClass
<1>3. ~decision[t].body.kept /\ ~result[t].body.kept
  BY <1>1 DEF BodyInv, ClassFirst
<1>4. turn' = [turn EXCEPT ![t] = state] /\ turn \in [Turns -> [
         pc : {"idle", "confirm", "decide", "answer", "ingested", "done"},
         text : Texts, class : {"none", "pii", "secret"}]]
  BY <1>1 DEF TurnTo, BodyInv, BodyTyped
<1>5. BodyTyped'
  BY <1>1, <1>2, <1>4 DEF BodyInv, BodyTyped
<1>6. ClassFirst'
  BY <1>1, <1>2, <1>3, <1>4 DEF BodyInv, ClassFirst
<1>7. BodiesAdmitted'
  BY <1>2, <1>3, <1>4 DEF BodyInv, BodiesAdmitted, Admitted
<1>8. PassHolds'
  BY <1>2 DEF BodyInv, PassHolds, NoneBefore
<1> QED BY <1>5, <1>6, <1>7, <1>8 DEF BodyInv

\* A prompt that is kept under the class its turn then has.
LEMMA PromptStored ==
  ASSUME BodyInv, NEW t \in Turns, NEW marks \in SUBSET Marks, NEW body,
         NEW state \in [pc : {"answer", "ingested"}, text : Texts, class : {"none", "pii", "secret"}],
         state.pc = "ingested" => state.class = "none",
         turn[t].pc \in {"idle", "decide"},
         TurnTo(t, state),
         body \in Kept(marks, state.class),
         decision' = [decision EXCEPT ![t] = [body |-> body, at |-> now]],
         UNCHANGED <<result, pruner, now>>
  PROVE  BodyInv'
<1>1. /\ [body |-> body, at |-> now] \in BodyRowType /\ Admitted(body, state.class)
      /\ Window > 0 => now + Window >= pruner.began /\ now + Window >= pruner.passed
  BY RowNow DEF BodyInv
<1>2. /\ turn' = [turn EXCEPT ![t] = state]
      /\ turn \in [Turns -> [pc : {"idle", "confirm", "decide", "answer", "ingested", "done"},
                              text : Texts, class : {"none", "pii", "secret"}]]
      /\ decision \in [Turns -> BodyRowType]
      /\ ~result[t].body.kept
  BY DEF TurnTo, BodyInv, BodyTyped, ClassFirst
<1>3. BodyTyped'
  <2>1. decision' \in [Turns -> BodyRowType]
    BY <1>1, <1>2
  <2> QED BY <1>2, <2>1 DEF BodyInv, BodyTyped
<1>4. ClassFirst'
  BY <1>2 DEF BodyInv, ClassFirst
<1>5. BodiesAdmitted'
  BY <1>1, <1>2 DEF BodyInv, BodiesAdmitted, Admitted
<1>6. PassHolds'
  BY <1>1, <1>2 DEF BodyInv, PassHolds, NoneBefore
<1> QED BY <1>3, <1>4, <1>5, <1>6 DEF BodyInv

\* The prompt of a turn that was classified, and of one that the proxy reports.
LEMMA PromptKeeps ==
  ASSUME BodyInv, NEW t \in Turns, KeepPrompt(t) \/ IngestPrompt(t) PROVE BodyInv'
<1>1. CASE KeepPrompt(t)
  <2>1. turn[t] \in [pc : {"idle", "confirm", "decide", "answer", "ingested", "done"},
                     text : Texts, class : {"none", "pii", "secret"}]
    BY DEF BodyInv, BodyTyped
  <2>2. PICK beside \in SUBSET Marks :
          \E body \in Kept(turn[t].text.marks \union beside, turn[t].class) :
            decision' = [decision EXCEPT ![t] = [body |-> body, at |-> now]]
    BY <1>1 DEF KeepPrompt
  <2>3. turn[t].text.marks \union beside \in SUBSET Marks
    BY <2>1 DEF Texts
  <2>4. PICK body \in Kept(turn[t].text.marks \union beside, turn[t].class) :
          decision' = [decision EXCEPT ![t] = [body |-> body, at |-> now]]
    BY <2>2
  <2> DEFINE next == [turn[t] EXCEPT !.pc = "answer"]
  <2>5. TurnTo(t, next) /\ turn[t].pc = "decide" /\ UNCHANGED <<result, pruner, now>>
    BY <1>1 DEF KeepPrompt, TurnAt
  <2>6. /\ next \in [pc : {"answer", "ingested"}, text : Texts, class : {"none", "pii", "secret"}]
        /\ next.class = turn[t].class /\ next.pc # "ingested"
    BY <2>1
  <2> HIDE DEF next
  <2> QED BY <2>3, <2>4, <2>5, <2>6, PromptStored
<1>2. CASE IngestPrompt(t)
  <2>1. PICK text \in Texts :
          /\ \E body \in Kept(text.marks, "none") :
               decision' = [decision EXCEPT ![t] = [body |-> body, at |-> now]]
          /\ TurnTo(t, [pc |-> "ingested", text |-> text, class |-> "none"])
    BY <1>2 DEF IngestPrompt
  <2>2. PICK body \in Kept(text.marks, "none") :
          decision' = [decision EXCEPT ![t] = [body |-> body, at |-> now]]
    BY <2>1
  <2> DEFINE next == [pc |-> "ingested", text |-> text, class |-> "none"]
  <2>3. /\ next \in [pc : {"answer", "ingested"}, text : Texts, class : {"none", "pii", "secret"}]
        /\ next.class = "none" /\ text.marks \in SUBSET Marks
    BY DEF Texts
  <2>4. TurnTo(t, next) /\ turn[t].pc = "idle" /\ UNCHANGED <<result, pruner, now>>
    BY <1>2, <2>1 DEF IngestPrompt, TurnAt
  <2> HIDE DEF next
  <2> QED BY <2>2, <2>3, <2>4, PromptStored
<1> QED BY <1>1, <1>2

\* A response is kept under the class its turn has: KeepResponse and IngestResponse.
LEMMA ResponseKeeps ==
  ASSUME BodyInv, NEW t \in Turns, KeepResponse(t) \/ IngestResponse(t) PROVE BodyInv'
<1>1. turn[t] \in [pc : {"idle", "confirm", "decide", "answer", "ingested", "done"},
                   text : Texts, class : {"none", "pii", "secret"}]
  BY DEF BodyInv, BodyTyped
<1>2. /\ TurnTo(t, [turn[t] EXCEPT !.pc = "done"])
      /\ UNCHANGED <<decision, pruner, now>>
  BY DEF KeepResponse, IngestResponse
<1>3. PICK marks, body :
        /\ marks \in SUBSET Marks /\ body \in Kept(marks, turn[t].class)
        /\ result' = [result EXCEPT ![t] = [body |-> body, at |-> now]]
  <2>1. CASE KeepResponse(t)
    BY <2>1 DEF KeepResponse
  <2>2. CASE IngestResponse(t)
    BY <2>2 DEF IngestResponse, TurnAt, BodyInv, ClassFirst
  <2> QED BY <2>1, <2>2
<1>4. /\ [body |-> body, at |-> now] \in BodyRowType /\ Admitted(body, turn[t].class)
      /\ Window > 0 => now + Window >= pruner.began /\ now + Window >= pruner.passed
  BY <1>1, <1>3, RowNow DEF BodyInv
<1>5. /\ turn' = [turn EXCEPT ![t].pc = "done"]
      /\ turn \in [Turns -> [pc : {"idle", "confirm", "decide", "answer", "ingested", "done"},
                              text : Texts, class : {"none", "pii", "secret"}]]
      /\ result \in [Turns -> BodyRowType]
  BY <1>2 DEF TurnTo, BodyInv, BodyTyped
<1>6. BodyTyped'
  <2>1. result' \in [Turns -> BodyRowType]
    BY <1>3, <1>4, <1>5
  <2> QED BY <1>2, <1>5, <2>1 DEF BodyInv, BodyTyped
<1>7. ClassFirst'
  BY <1>2, <1>3, <1>5 DEF BodyInv, ClassFirst
<1>8. BodiesAdmitted'
  BY <1>2, <1>3, <1>4, <1>5 DEF BodyInv, BodiesAdmitted, Admitted
<1>9. PassHolds'
  BY <1>2, <1>3, <1>4, <1>5 DEF BodyInv, PassHolds, NoneBefore
<1> QED BY <1>6, <1>7, <1>8, <1>9 DEF BodyInv

\* Pruning keeps rows rows, keeps no body that was not kept, and none that had expired.
LEMMA PrunedRows ==
  ASSUME NEW rows \in [Turns -> BodyRowType], BodyTyped
  PROVE  /\ Pruned(rows) \in [Turns -> BodyRowType]
         /\ \A t \in Turns : Pruned(rows)[t].body.kept =>
              Pruned(rows)[t] = rows[t] /\ rows[t].at + Window >= now
<1> SUFFICES ASSUME NEW t \in Turns
             PROVE  /\ Pruned(rows)[t] \in BodyRowType
                    /\ Pruned(rows)[t].body.kept =>
                         Pruned(rows)[t] = rows[t] /\ rows[t].at + Window >= now
  BY DEF Pruned
<1>1. NoBody \in [kept : BOOLEAN, marks : SUBSET Marks] /\ ~NoBody.kept
  BY DEF NoBody
<1>2. CASE Expired(rows[t])
  <2>1. Pruned(rows)[t] = [rows[t] EXCEPT !.body = NoBody]
    BY <1>2 DEF Pruned
  <2>2. rows[t] \in BodyRowType
    OBVIOUS
  <2> QED BY <1>1, <2>1, <2>2 DEF BodyRowType
<1>3. CASE ~Expired(rows[t])
  <2>1. Pruned(rows)[t] = rows[t] /\ rows[t] \in BodyRowType
    BY <1>3 DEF Pruned
  <2>2. rows[t].at \in Nat /\ now \in Nat
    BY <2>1, BodyAssumption DEF BodyRowType, BodyTyped
  <2>3. rows[t].at + Window >= now
    BY <1>3, <2>2, BodyAssumption DEF Expired
  <2> QED BY <2>1, <2>3
<1> QED BY <1>2, <1>3

\* The pruner: it keeps the passes complete.
LEMMA PruningKeeps ==
  ASSUME BodyInv, PruneDecisions \/ PruneOutcomes \/ PruneFails \/ BodyHour PROVE BodyInv'
<1> USE BodyAssumption
<1>1. BodyTyped /\ ClassFirst /\ BodiesAdmitted /\ PassHolds
  BY DEF BodyInv
<1>2. /\ pruner \in [pc : {"due", "outcomes", "asleep"}, began : Nat, passed : Nat]
      /\ pruner.passed <= pruner.began /\ pruner.began <= now /\ now \in 0..BodyClock
      /\ decision \in [Turns -> BodyRowType] /\ result \in [Turns -> BodyRowType]
      /\ now \in Nat
  BY <1>1 DEF BodyTyped
<1>3. \A t \in Turns : decision[t].at \in Nat /\ result[t].at \in Nat
  BY <1>2 DEF BodyRowType
<1>4. CASE PruneDecisions
  <2>1. /\ decision' = Pruned(decision) /\ UNCHANGED <<turn, result, now>>
        /\ pruner' = [pruner EXCEPT !.pc = "outcomes", !.began = now]
    BY <1>4 DEF PruneDecisions
  <2>2. /\ decision' \in [Turns -> BodyRowType]
        /\ \A t \in Turns : decision'[t].body.kept =>
             decision'[t] = decision[t] /\ decision[t].at + Window >= now
    BY <1>1, <1>2, <2>1, PrunedRows
  <2>3. BodyTyped'
    <3>1. pruner' \in [pc : {"due", "outcomes", "asleep"}, began : Nat, passed : Nat]
      BY <1>2, <2>1
    <3>2. pruner'.passed <= pruner'.began /\ pruner'.began <= now
      BY <1>2, <2>1
    <3>3. now' = now
      BY <2>1
    <3> QED BY <1>1, <1>2, <2>1, <2>2, <3>1, <3>2, <3>3 DEF BodyTyped
  <2>4. ClassFirst' /\ BodiesAdmitted'
    BY <1>1, <2>1, <2>2 DEF ClassFirst, BodiesAdmitted, Admitted
  <2>5. PassHolds'
    BY <1>1, <1>2, <2>1, <2>2 DEF PassHolds, NoneBefore
  <2> QED BY <2>3, <2>4, <2>5 DEF BodyInv
<1>5. CASE PruneOutcomes
  <2>1. /\ result' = Pruned(result) /\ UNCHANGED <<turn, decision, now>>
        /\ pruner' = [pruner EXCEPT !.pc = "asleep", !.passed = pruner.began]
        /\ pruner.pc = "outcomes"
    BY <1>5 DEF PruneOutcomes
  <2>2. /\ result' \in [Turns -> BodyRowType]
        /\ \A t \in Turns : result'[t].body.kept =>
             result'[t] = result[t] /\ result[t].at + Window >= now
    BY <1>1, <1>2, <2>1, PrunedRows
  <2>3. BodyTyped'
    <3>1. pruner' \in [pc : {"due", "outcomes", "asleep"}, began : Nat, passed : Nat]
      BY <1>2, <2>1
    <3>2. pruner'.passed <= pruner'.began /\ pruner'.began <= now
      BY <1>2, <2>1
    <3>3. now' = now
      BY <2>1
    <3> QED BY <1>1, <1>2, <2>1, <2>2, <3>1, <3>2, <3>3 DEF BodyTyped
  <2>4. ClassFirst' /\ BodiesAdmitted'
    BY <1>1, <2>1, <2>2 DEF ClassFirst, BodiesAdmitted, Admitted
  <2>5. \A t \in Turns : result'[t].body.kept => result'[t].at + Window >= pruner.began
    BY <1>2, <1>3, <2>2
  <2>6. PassHolds'
    BY <1>1, <1>2, <2>1, <2>5 DEF PassHolds, NoneBefore
  <2> QED BY <2>3, <2>4, <2>6 DEF BodyInv
<1>6. CASE PruneFails
  BY <1>1, <1>2, <1>6 DEF PruneFails, BodyInv, BodyTyped, ClassFirst, BodiesAdmitted, PassHolds, NoneBefore
<1>7. CASE BodyHour
  <2>1. /\ now' = now + 1 /\ now < BodyClock /\ UNCHANGED <<turn, decision, result>>
        /\ pruner' = [pruner EXCEPT !.pc = IF pruner.pc = "asleep" THEN "due" ELSE pruner.pc]
    BY <1>7 DEF BodyHour
  <2>2. BodyTyped'
    BY <1>1, <1>2, <2>1 DEF BodyTyped
  <2>3. ClassFirst' /\ BodiesAdmitted'
    BY <1>1, <2>1 DEF ClassFirst, BodiesAdmitted, Admitted
  <2>4. PassHolds'
    BY <1>1, <1>2, <2>1 DEF PassHolds, NoneBefore
  <2> QED BY <2>2, <2>3, <2>4 DEF BodyInv
<1> QED BY <1>4, <1>5, <1>6, <1>7

\* Every step keeps the invariant.
LEMMA BodyStep == BodyInv /\ [BodyNext]_bodyVars => BodyInv'
<1> SUFFICES ASSUME BodyInv, [BodyNext]_bodyVars PROVE BodyInv'
  OBVIOUS
<1>1. CASE UNCHANGED bodyVars
  BY <1>1 DEF bodyVars, BodyInv, BodyTyped, ClassFirst, BodiesAdmitted, PassHolds, NoneBefore
<1>2. CASE BodyNext
  <2>1. CASE \E t \in Turns : Submit(t) \/ ConfirmClass(t)
    BY <2>1, ClassifyKeeps
  <2>2. CASE \E t \in Turns : KeepPrompt(t) \/ IngestPrompt(t)
    BY <2>2, PromptKeeps
  <2>3. CASE \E t \in Turns : KeepResponse(t) \/ IngestResponse(t)
    BY <2>3, ResponseKeeps
  <2>4. CASE PruneDecisions \/ PruneOutcomes \/ PruneFails \/ BodyHour
    BY <2>4, PruningKeeps
  <2> QED BY <1>2, <2>1, <2>2, <2>3, <2>4 DEF BodyNext
<1> QED BY <1>1, <1>2

\* Every state's bodies stay within their class and their window: of a secret turn nothing is
\* kept, of one with personal data no mark, and nothing that the last complete pass of the
\* pruner found expired (capture.py:55-122, retention.py:36-107).
THEOREM BodiesWithin == BodySpec => []BodiesStayWithin
<1>1. BodyInv => BodiesStayWithin
  <2> SUFFICES ASSUME BodyInv, NEW t \in Turns, NEW kept \in {decision[t], result[t]}, kept.body.kept
               PROVE  /\ turn[t].class # "secret"
                      /\ turn[t].class = "pii" => kept.body.marks = {}
                      /\ Window > 0 => kept.at + Window >= pruner.passed
    BY DEF BodiesStayWithin
  <2>1. Admitted(kept.body, turn[t].class)
    BY DEF BodyInv, BodiesAdmitted
  <2>2. Window > 0 => kept.at + Window >= pruner.passed
    BY DEF BodyInv, PassHolds, NoneBefore
  <2> QED BY <2>1, <2>2 DEF Admitted
<1> QED BY <1>1, BodyInitially, BodyStep, PTL DEF BodySpec


\* Bodies that are admitted are typed.
LEMMA BodyTypes == BodyInv => BodyTypeOK
BY DEF BodyInv, BodyTyped, BodyTypeOK

(*******************************************************************************)
(* StreamTranslation: what the clients of a stream make of a list of events or of*)
(* positions, a fold over the list, unfolded one of them at a time.            *)
(*******************************************************************************)

Sources == ToolCalls \cup {Text}
EventTypes == {"message_start", "content_block_start", "content_block_delta", "content_block_stop",
               "message_delta", "message_stop", "error"}
Events == [type : EventTypes, index : Blocks, source : Sources]
BlockViews == [Blocks -> [source : Sources \cup {NoBlock}, open : BOOLEAN]]
Phases == {"before", "open", "ended", "error"}
Views == [phase : Phases, broken : BOOLEAN, blocks : BlockViews]

View(phase, blocks) == [phase |-> phase, broken |-> FALSE, blocks |-> blocks]

\* A view that no event has broken, field by field.
LEMMA ViewIs ==
  ASSUME NEW phase \in Phases, NEW blocks \in BlockViews
  PROVE  /\ View(phase, blocks) \in Views /\ View(phase, blocks).phase = phase
         /\ View(phase, blocks).broken = FALSE /\ View(phase, blocks).blocks = blocks
BY DEF View, Views

WithStart(blocks, i, s) == [blocks EXCEPT ![i] = [source |-> s, open |-> TRUE]]
WithStop(blocks, i) == [blocks EXCEPT ![i].open = FALSE]

\* A block started is the only one that changes.
LEMMA BlockOpens ==
  ASSUME NEW blocks \in BlockViews, NEW i \in Blocks, NEW s \in Sources
  PROVE  /\ WithStart(blocks, i, s) \in BlockViews
         /\ WithStart(blocks, i, s)[i].source = s /\ WithStart(blocks, i, s)[i].open = TRUE
         /\ \A b \in Blocks \ {i} : WithStart(blocks, i, s)[b] = blocks[b]
BY DEF BlockViews, WithStart

\* A block stopped keeps its source, and is the only one that changes.
LEMMA BlockCloses ==
  ASSUME NEW blocks \in BlockViews, NEW i \in Blocks
  PROVE  /\ WithStop(blocks, i) \in BlockViews
         /\ WithStop(blocks, i)[i].source = blocks[i].source /\ WithStop(blocks, i)[i].open = FALSE
         /\ \A b \in Blocks \ {i} : WithStop(blocks, i)[b] = blocks[b]
<1> DEFINE new == WithStop(blocks, i)
<1>1. blocks[i] \in [source : Sources \cup {NoBlock}, open : BOOLEAN]
  BY DEF BlockViews
<1>2. new[i] = [blocks[i] EXCEPT !.open = FALSE] /\ \A b \in Blocks \ {i} : new[b] = blocks[b]
  BY DEF BlockViews, WithStop
<1>3. new[i].source = blocks[i].source /\ new[i].open = FALSE
  <2> HIDE DEF new
  <2> QED BY <1>1, <1>2
<1>4. new \in BlockViews
  BY DEF BlockViews, WithStop
<1> QED BY <1>2, <1>3, <1>4

\* Whatever event comes, the client has a view.
LEMMA SeesIsView ==
  ASSUME NEW v \in Views, NEW e \in Events
  PROVE  Sees(v, e) \in Views
<1> DEFINE block == v.blocks[e.index]
<1>1. block \in [source : Sources \cup {NoBlock}, open : BOOLEAN]
  BY DEF Views, Events, BlockViews
<1>2. [v.blocks EXCEPT ![e.index] = [source |-> e.source, open |-> TRUE]]
        \in [Blocks -> [source : Sources \cup {NoBlock}, open : BOOLEAN]]
  BY DEF Views, Events, BlockViews
<1>3. [v.blocks EXCEPT ![e.index].open = FALSE]
        \in [Blocks -> [source : Sources \cup {NoBlock}, open : BOOLEAN]]
  BY DEF Views, Events, BlockViews
<1>4. v.blocks \in [Blocks -> [source : Sources \cup {NoBlock}, open : BOOLEAN]] /\ v.broken \in BOOLEAN
      /\ v.phase \in {"before", "open", "ended", "error"}
  BY DEF Views, BlockViews, Phases
<1> DEFINE w == Sees(v, e)
<1>5. w.phase \in {"before", "open", "ended", "error"} /\ w.broken \in BOOLEAN
  BY <1>1, <1>4 DEF Sees
<1>6. w.blocks \in [Blocks -> [source : Sources \cup {NoBlock}, open : BOOLEAN]]
  BY <1>2, <1>3, <1>4 DEF Sees
<1>7. w = [phase |-> w.phase, broken |-> w.broken, blocks |-> w.blocks]
  BY DEF Sees
<1> HIDE DEF w
<1> QED BY <1>5, <1>6, <1>7 DEF Views, BlockViews, Phases, w

\* What a client makes of a sequence of events, from the definition of FoldLeft.
Shown(v, out) == FoldLeft(Sees, v, out)

SeenOf(v, out, g, s) == IF s = {} THEN v ELSE Sees(g[s \ {Max(s)}], out[Max(s)])
IsSeen(v, out, g) == g = [s \in SUBSET DOMAIN out |-> SeenOf(v, out, g, s)]
Seen(v, out) == CHOOSE g : IsSeen(v, out, g)

\* What the events make of the view, one by one, in these terms.
LEMMA ShownIsSeen == ASSUME NEW v, NEW out PROVE Shown(v, out) = Seen(v, out)[DOMAIN out]
BY DEF Shown, FoldLeft, MapThenFoldSet, Seen, SeenOf, IsSeen

\* There is such a function of the positions, and its values are views.
LEMMA SeenExists ==
  ASSUME NEW v \in Views, NEW out \in Seq(Events)
  PROVE  /\ Seen(v, out) \in [SUBSET DOMAIN out -> Views]
         /\ \A s \in SUBSET DOMAIN out : Seen(v, out)[s] = SeenOf(v, out, Seen(v, out), s)
<1> DEFINE D == DOMAIN out
           st == [i \in D |-> [w \in Views |-> Sees(w, out[i])]]
           pick == [s \in SUBSET D |-> Max(s)]
<1>1. D = 1..Len(out) /\ Len(out) \in Nat /\ \A i \in D : out[i] \in Events
  BY LenProperties
<1>2. IsFiniteSet(D) /\ \A s \in SUBSET D : s # {} => Max(s) \in s
  BY <1>1, LargestPicked
<1>3. \A s \in SUBSET D : s # {} => pick[s] \in s
  BY <1>2
<1>4. \A i \in D : \A w \in Views : st[i][w] \in Views
  BY <1>1, SeesIsView
<1>5. \E g \in [SUBSET D -> Views] : IsFold(st, v, pick, D, g)
  <2>1. Picks(pick, D) /\ KeepsTo(st, D, Views)
    BY <1>3, <1>4 DEF Picks, KeepsTo
  <2> HIDE DEF D, st, pick
  <2> QED BY <1>2, <2>1, FoldIn
<1>6. PICK g \in [SUBSET D -> Views] : IsFold(st, v, pick, D, g)
  BY <1>5
<1>7. ASSUME NEW s \in SUBSET D PROVE g[s] = SeenOf(v, out, g, s)
  <2>1. g[s] = FoldOf(st, v, pick, g, s)
    BY <1>6 DEF IsFold
  <2>2. CASE s = {}
    BY <2>1, <2>2 DEF FoldOf, SeenOf
  <2>3. CASE s # {}
    <3>1. pick[s] = Max(s) /\ Max(s) \in D /\ s \ {Max(s)} \in SUBSET D
      BY <1>2, <2>3
    <3>2. g[s \ {Max(s)}] \in Views
      BY <1>6, <3>1
    <3>3. st[Max(s)][g[s \ {Max(s)}]] = Sees(g[s \ {Max(s)}], out[Max(s)])
      BY <3>1, <3>2
    <3> QED BY <2>1, <2>3, <3>1, <3>3 DEF FoldOf, SeenOf
  <2> QED BY <2>2, <2>3
<1>8. IsSeen(v, out, g)
  BY <1>6, <1>7 DEF IsSeen
<1> DEFINE h == Seen(v, out)
<1>9. IsSeen(v, out, h)
  BY <1>8 DEF Seen
<1> HIDE DEF h
<1>10. h = [s \in SUBSET D |-> SeenOf(v, out, h, s)]
  BY <1>9 DEF IsSeen
<1>11. \A s \in SUBSET D : h[s] = SeenOf(v, out, h, s)
  BY <1>10
<1> DEFINE B == {s \in SUBSET D : h[s] \in Views}
<1>12. {} \in B
  BY <1>11 DEF SeenOf
<1>13. ASSUME NEW s \in SUBSET D, s # {}, s \ {pick[s]} \in B PROVE s \in B
  <2>1. pick[s] = Max(s) /\ Max(s) \in D
    BY <1>2, <1>13
  <2>2. h[s] = Sees(h[s \ {Max(s)}], out[Max(s)])
    BY <1>11, <1>13 DEF SeenOf
  <2> QED BY <1>1, <1>13, <2>1, <2>2, SeesIsView
<1>14. B = SUBSET D
  <2>1. B \in SUBSET SUBSET D
    OBVIOUS
  <2>2. Picks(pick, D) /\ GrowsBy(pick, D, B)
    BY <1>3, <1>12, <1>13 DEF Picks, GrowsBy
  <2> HIDE DEF B, D, pick
  <2> QED BY <1>2, <2>1, <2>2, SubsetInduction
<1>15. h \in [SUBSET D -> Views]
  BY <1>10, <1>14
<1> QED BY <1>11, <1>15 DEF h

\* It sees one event after the other.
LEMMA ShownMore ==
  ASSUME NEW v \in Views, NEW out \in Seq(Events)
  PROVE  /\ Shown(v, out) \in Views
         /\ Shown(v, <<>>) = v
         /\ \A e \in Events : /\ Append(out, e) \in Seq(Events)
                              /\ Shown(v, Append(out, e)) = Sees(Shown(v, out), e)
<1>1. Shown(v, out) \in Views
  BY ShownIsSeen, SeenExists
<1>2. Shown(v, <<>>) = v
  <2>1. <<>> \in Seq(Events) /\ DOMAIN <<>> = {}
    OBVIOUS
  <2>2. Seen(v, <<>>)[{}] = SeenOf(v, <<>>, Seen(v, <<>>), {})
    BY <2>1, SeenExists
  <2> QED BY <2>1, <2>2, ShownIsSeen DEF SeenOf
<1>3. ASSUME NEW e \in Events
      PROVE  Append(out, e) \in Seq(Events) /\ Shown(v, Append(out, e)) = Sees(Shown(v, out), e)
  <2> DEFINE n == Len(out)
             long == Append(out, e)
             g == Seen(v, out)
             h == Seen(v, long)
             D == 1..n
             E == 1..(n + 1)
             pick == [s \in SUBSET D |-> Max(s)]
  <2>1. /\ n \in Nat /\ DOMAIN out = D /\ DOMAIN long = E /\ long \in Seq(Events)
        /\ \A i \in D : long[i] = out[i]
        /\ long[n + 1] = e
    BY AppendProperties, LenProperties
  <2>2. /\ \A s \in SUBSET D : g[s] = SeenOf(v, out, g, s)
        /\ \A s \in SUBSET E : h[s] = SeenOf(v, long, h, s)
    BY <2>1, SeenExists
  <2>3. Shown(v, out) = g[D] /\ Shown(v, long) = h[E]
    BY <2>1, ShownIsSeen
  <2>4. /\ IsFiniteSet(D) /\ \A s \in SUBSET D : s # {} => Max(s) \in s
        /\ Max(E) = n + 1 /\ E \ {n + 1} = D
    BY <2>1, LargestPicked
  <2>5. D \in SUBSET E /\ D \subseteq E /\ E # {} /\ E \in SUBSET E
    <3>1. n + 1 \in E /\ D \subseteq E
      BY <2>1
    <3> QED BY <3>1
  <2> HIDE DEF n, long, g, h, D, E
  <2> DEFINE B == {s \in SUBSET D : h[s] = g[s]}
  <2>6. {} \in B
    BY <2>2, <2>5 DEF SeenOf
  <2>7. ASSUME NEW s \in SUBSET D, s # {}, s \ {pick[s]} \in B PROVE s \in B
    <3>1. pick[s] = Max(s) /\ Max(s) \in D /\ s \in SUBSET E
      BY <2>4, <2>5, <2>7
    <3>2. /\ h[s] = Sees(h[s \ {Max(s)}], long[Max(s)])
          /\ g[s] = Sees(g[s \ {Max(s)}], out[Max(s)])
      BY <2>2, <2>7, <3>1 DEF SeenOf
    <3> QED BY <2>1, <2>7, <3>1, <3>2
  <2>8. B = SUBSET D
    <3>1. B \in SUBSET SUBSET D
      OBVIOUS
    <3>2. Picks(pick, D) /\ GrowsBy(pick, D, B)
      BY <2>4, <2>6, <2>7 DEF Picks, GrowsBy
    <3> HIDE DEF B, pick
    <3> QED BY <2>4, <3>1, <3>2, SubsetInduction
  <2>9. h[D] = g[D]
    BY <2>8
  <2>10. h[E] = Sees(h[D], e)
    BY <2>1, <2>2, <2>4, <2>5 DEF SeenOf
  <2> QED BY <2>1, <2>3, <2>9, <2>10 DEF long
<1> QED BY <1>1, <1>2, <1>3

-----------------------------------------------------------------------------
\* In the same way for the reader of a Responses stream.
Readers == [last : Int, broken : BOOLEAN]

ReadOn(v, out) == FoldLeft(Reads, v, out)

ReadOf(v, out, g, s) == IF s = {} THEN v ELSE Reads(g[s \ {Max(s)}], out[Max(s)])
IsRead(v, out, g) == g = [s \in SUBSET DOMAIN out |-> ReadOf(v, out, g, s)]
Read(v, out) == CHOOSE g : IsRead(v, out, g)

\* The same of the positions that a Responses client reads.
LEMMA ReadOnIsRead == ASSUME NEW v, NEW out PROVE ReadOn(v, out) = Read(v, out)[DOMAIN out]
BY DEF ReadOn, FoldLeft, MapThenFoldSet, Read, ReadOf, IsRead

\* Whatever position comes, the reader has a view.
LEMMA ReadsIsReader ==
  ASSUME NEW v \in Readers, NEW e \in Int
  PROVE  Reads(v, e) \in Readers
BY DEF Readers, Reads

\* There is such a function of the positions, and its values are views of a reader.
LEMMA ReadExists ==
  ASSUME NEW v \in Readers, NEW out \in Seq(Int)
  PROVE  /\ Read(v, out) \in [SUBSET DOMAIN out -> Readers]
         /\ \A s \in SUBSET DOMAIN out : Read(v, out)[s] = ReadOf(v, out, Read(v, out), s)
<1> DEFINE D == DOMAIN out
           st == [i \in D |-> [w \in Readers |-> Reads(w, out[i])]]
           pick == [s \in SUBSET D |-> Max(s)]
<1>1. D = 1..Len(out) /\ Len(out) \in Nat /\ \A i \in D : out[i] \in Int
  BY LenProperties
<1>2. IsFiniteSet(D) /\ \A s \in SUBSET D : s # {} => Max(s) \in s
  BY <1>1, LargestPicked
<1>3. \A s \in SUBSET D : s # {} => pick[s] \in s
  BY <1>2
<1>4. \A i \in D : \A w \in Readers : st[i][w] \in Readers
  BY <1>1, ReadsIsReader
<1>5. \E g \in [SUBSET D -> Readers] : IsFold(st, v, pick, D, g)
  <2>1. Picks(pick, D) /\ KeepsTo(st, D, Readers)
    BY <1>3, <1>4 DEF Picks, KeepsTo
  <2> HIDE DEF D, st, pick
  <2> QED BY <1>2, <2>1, FoldIn
<1>6. PICK g \in [SUBSET D -> Readers] : IsFold(st, v, pick, D, g)
  BY <1>5
<1>7. ASSUME NEW s \in SUBSET D PROVE g[s] = ReadOf(v, out, g, s)
  <2>1. g[s] = FoldOf(st, v, pick, g, s)
    BY <1>6 DEF IsFold
  <2>2. CASE s = {}
    BY <2>1, <2>2 DEF FoldOf, ReadOf
  <2>3. CASE s # {}
    <3>1. pick[s] = Max(s) /\ Max(s) \in D /\ s \ {Max(s)} \in SUBSET D
      BY <1>2, <2>3
    <3>2. g[s \ {Max(s)}] \in Readers
      BY <1>6, <3>1
    <3>3. st[Max(s)][g[s \ {Max(s)}]] = Reads(g[s \ {Max(s)}], out[Max(s)])
      BY <3>1, <3>2
    <3> QED BY <2>1, <2>3, <3>1, <3>3 DEF FoldOf, ReadOf
  <2> QED BY <2>2, <2>3
<1>8. IsRead(v, out, g)
  BY <1>6, <1>7 DEF IsRead
<1> DEFINE h == Read(v, out)
<1>9. IsRead(v, out, h)
  BY <1>8 DEF Read
<1> HIDE DEF h
<1>10. h = [s \in SUBSET D |-> ReadOf(v, out, h, s)]
  BY <1>9 DEF IsRead
<1>11. \A s \in SUBSET D : h[s] = ReadOf(v, out, h, s)
  BY <1>10
<1> DEFINE B == {s \in SUBSET D : h[s] \in Readers}
<1>12. {} \in B
  BY <1>11 DEF ReadOf
<1>13. ASSUME NEW s \in SUBSET D, s # {}, s \ {pick[s]} \in B PROVE s \in B
  <2>1. pick[s] = Max(s) /\ Max(s) \in D
    BY <1>2, <1>13
  <2>2. h[s] = Reads(h[s \ {Max(s)}], out[Max(s)])
    BY <1>11, <1>13 DEF ReadOf
  <2> QED BY <1>1, <1>13, <2>1, <2>2, ReadsIsReader
<1>14. B = SUBSET D
  <2>1. B \in SUBSET SUBSET D
    OBVIOUS
  <2>2. Picks(pick, D) /\ GrowsBy(pick, D, B)
    BY <1>3, <1>12, <1>13 DEF Picks, GrowsBy
  <2> HIDE DEF B, D, pick
  <2> QED BY <1>2, <2>1, <2>2, SubsetInduction
<1>15. h \in [SUBSET D -> Readers]
  BY <1>10, <1>14
<1> QED BY <1>11, <1>15 DEF h

\* It reads one position after the other.
LEMMA ReadsMore ==
  ASSUME NEW v \in Readers, NEW out \in Seq(Int)
  PROVE  /\ ReadOn(v, out) \in Readers
         /\ ReadOn(v, <<>>) = v
         /\ \A e \in Int : /\ Append(out, e) \in Seq(Int)
                              /\ ReadOn(v, Append(out, e)) = Reads(ReadOn(v, out), e)
<1>1. ReadOn(v, out) \in Readers
  BY ReadOnIsRead, ReadExists
<1>2. ReadOn(v, <<>>) = v
  <2>1. <<>> \in Seq(Int) /\ DOMAIN <<>> = {}
    OBVIOUS
  <2>2. Read(v, <<>>)[{}] = ReadOf(v, <<>>, Read(v, <<>>), {})
    BY <2>1, ReadExists
  <2> QED BY <2>1, <2>2, ReadOnIsRead DEF ReadOf
<1>3. ASSUME NEW e \in Int
      PROVE  Append(out, e) \in Seq(Int) /\ ReadOn(v, Append(out, e)) = Reads(ReadOn(v, out), e)
  <2> DEFINE n == Len(out)
             long == Append(out, e)
             g == Read(v, out)
             h == Read(v, long)
             D == 1..n
             E == 1..(n + 1)
             pick == [s \in SUBSET D |-> Max(s)]
  <2>1. /\ n \in Nat /\ DOMAIN out = D /\ DOMAIN long = E /\ long \in Seq(Int)
        /\ \A i \in D : long[i] = out[i]
        /\ long[n + 1] = e
    BY AppendProperties, LenProperties
  <2>2. /\ \A s \in SUBSET D : g[s] = ReadOf(v, out, g, s)
        /\ \A s \in SUBSET E : h[s] = ReadOf(v, long, h, s)
    BY <2>1, ReadExists
  <2>3. ReadOn(v, out) = g[D] /\ ReadOn(v, long) = h[E]
    BY <2>1, ReadOnIsRead
  <2>4. /\ IsFiniteSet(D) /\ \A s \in SUBSET D : s # {} => Max(s) \in s
        /\ Max(E) = n + 1 /\ E \ {n + 1} = D
    BY <2>1, LargestPicked
  <2>5. D \in SUBSET E /\ D \subseteq E /\ E # {} /\ E \in SUBSET E
    <3>1. n + 1 \in E /\ D \subseteq E
      BY <2>1
    <3> QED BY <3>1
  <2> HIDE DEF n, long, g, h, D, E
  <2> DEFINE B == {s \in SUBSET D : h[s] = g[s]}
  <2>6. {} \in B
    BY <2>2, <2>5 DEF ReadOf
  <2>7. ASSUME NEW s \in SUBSET D, s # {}, s \ {pick[s]} \in B PROVE s \in B
    <3>1. pick[s] = Max(s) /\ Max(s) \in D /\ s \in SUBSET E
      BY <2>4, <2>5, <2>7
    <3>2. /\ h[s] = Reads(h[s \ {Max(s)}], long[Max(s)])
          /\ g[s] = Reads(g[s \ {Max(s)}], out[Max(s)])
      BY <2>2, <2>7, <3>1 DEF ReadOf
    <3> QED BY <2>1, <2>7, <3>1, <3>2
  <2>8. B = SUBSET D
    <3>1. B \in SUBSET SUBSET D
      OBVIOUS
    <3>2. Picks(pick, D) /\ GrowsBy(pick, D, B)
      BY <2>4, <2>6, <2>7 DEF Picks, GrowsBy
    <3> HIDE DEF B, pick
    <3> QED BY <2>4, <3>1, <3>2, SubsetInduction
  <2>9. h[D] = g[D]
    BY <2>8
  <2>10. h[E] = Reads(h[D], e)
    BY <2>1, <2>2, <2>4, <2>5 DEF ReadOf
  <2> QED BY <2>1, <2>3, <2>9, <2>10 DEF long
<1> QED BY <1>1, <1>2, <1>3

\* s takes the reader from v to w.
Takes(v, s, w) == v \in Readers /\ w \in Readers /\ s \in Seq(Int) /\ ReadOn(v, s) = w

\* No position changes no view.
LEMMA TakesNothing == ASSUME NEW v \in Readers PROVE Takes(v, <<>>, v)
BY ReadsMore, EmptySeq DEF Takes

\* One position more.
LEMMA TakesMore ==
  ASSUME NEW v, NEW s, NEW w, Takes(v, s, w)
  PROVE  /\ Takes(v, s \o <<>>, w)
         /\ \A x \in Int : Takes(v, s \o <<x>>, Reads(w, x))
<1>1. s \in Seq(Int) /\ v \in Readers /\ w \in Readers /\ ReadOn(v, s) = w
  BY DEF Takes
<1>2. s \o <<>> = s
  BY <1>1, ConcatEmptySeq
<1>3. ASSUME NEW x \in Int PROVE Takes(v, s \o <<x>>, Reads(w, x))
  <2>1. Append(s, x) = s \o <<x>>
    BY <1>1, AppendIsConcat
  <2>2. Append(s, x) \in Seq(Int) /\ ReadOn(v, Append(s, x)) = Reads(ReadOn(v, s), x)
    BY <1>1, ReadsMore
  <2> QED BY <1>1, <2>1, <2>2, ReadsIsReader DEF Takes
<1> QED BY <1>1, <1>2, <1>3 DEF Takes

\* Two positions more.
LEMMA TakesTwo ==
  ASSUME NEW v, NEW s, NEW w, Takes(v, s, w), NEW x \in Int, NEW y \in Int
  PROVE  Takes(v, s \o <<x, y>>, Reads(Reads(w, x), y))
<1>1. Takes(v, (s \o <<x>>) \o <<y>>, Reads(Reads(w, x), y))
  BY TakesMore
<1>2. s \in Seq(Int) /\ <<x>> \in Seq(Int) /\ <<y>> \in Seq(Int)
  BY DEF Takes
<1>3. (s \o <<x>>) \o <<y>> = s \o (<<x>> \o <<y>>)
  BY <1>2, ConcatAssociative
<1>4. <<x>> \o <<y>> = <<x, y>>
  <2>1. Append(<<x>>, y) = <<x>> \o <<y>>
    BY <1>2, AppendIsConcat
  <2>2. Append(<<x>>, y) = <<x, y>>
    <3>1. Len(<<x>>) = 1 /\ <<x>>[1] = x
      OBVIOUS
    <3>2. Len(Append(<<x>>, y)) = 2 /\ Append(<<x>>, y)[1] = x /\ Append(<<x>>, y)[2] = y
      BY <1>2, <3>1, AppendProperties
    <3>3. Append(<<x>>, y) \in Seq(Int) /\ <<x, y>> \in Seq(Int) /\ Len(<<x, y>>) = 2
      BY <1>2, AppendProperties
    <3>4. \A i \in 1..2 : Append(<<x>>, y)[i] = <<x, y>>[i]
      BY <3>2
    <3> QED BY <3>2, <3>3, <3>4, SeqEqual
  <2> QED BY <2>1, <2>2
<1> QED BY <1>1, <1>3, <1>4

Up(n) == [last |-> n, broken |-> FALSE]

Follows(n, k) == k = n + 1 \/ (k = 4 /\ n = 4) \/ (k = 8 /\ n = 1)

\* A reader that is told the positions in their order has an unbroken view of each.
LEMMA AtNext ==
  /\ \A n \in Int : Up(n) \in Readers
  /\ Reads(Up(0), 1) = Up(1) /\ Reads(Up(1), 2) = Up(2) /\ Reads(Up(2), 3) = Up(3)
  /\ Reads(Up(3), 4) = Up(4) /\ Reads(Up(4), 4) = Up(4) /\ Reads(Up(4), 5) = Up(5)
  /\ Reads(Up(5), 6) = Up(6) /\ Reads(Up(6), 7) = Up(7) /\ Reads(Up(7), 8) = Up(8)
  /\ Reads(Up(1), 8) = Up(8)
<1>1. ASSUME NEW n \in Int, NEW k \in Int, Follows(n, k)
      PROVE  Reads(Up(n), k) = Up(k)
  <2>1. Up(n).last = n /\ Up(n).broken = FALSE
    BY DEF Up
  <2> DEFINE x == \/ Up(n).broken
                  \/ ~(\/ k = Up(n).last + 1
                       \/ k = 4 /\ Up(n).last = 4
                       \/ k = 8 /\ Up(n).last = 1)
  <2>2. x = FALSE
    BY <1>1, <2>1 DEF Follows
  <2>3. Reads(Up(n), k) = [last |-> k, broken |-> x]
    BY Zenon DEF Reads
  <2> HIDE DEF x
  <2> QED BY <2>2, <2>3 DEF Up
<1>2. \A n \in Int : Up(n) \in Readers
  BY DEF Up, Readers
<1>3. Reads(Up(0), 1) = Up(1)
  <2>1. Follows(0, 1)
    BY DEF Follows
  <2> QED BY <1>1, <2>1
<1>4. Reads(Up(1), 2) = Up(2)
  <2>1. Follows(1, 2)
    BY DEF Follows
  <2> QED BY <1>1, <2>1
<1>5. Reads(Up(2), 3) = Up(3)
  <2>1. Follows(2, 3)
    BY DEF Follows
  <2> QED BY <1>1, <2>1
<1>6. Reads(Up(3), 4) = Up(4)
  <2>1. Follows(3, 4)
    BY DEF Follows
  <2> QED BY <1>1, <2>1
<1>7. Reads(Up(4), 4) = Up(4)
  <2>1. Follows(4, 4)
    BY DEF Follows
  <2> QED BY <1>1, <2>1
<1>8. Reads(Up(4), 5) = Up(5)
  <2>1. Follows(4, 5)
    BY DEF Follows
  <2> QED BY <1>1, <2>1
<1>9. Reads(Up(5), 6) = Up(6)
  <2>1. Follows(5, 6)
    BY DEF Follows
  <2> QED BY <1>1, <2>1
<1>10. Reads(Up(6), 7) = Up(7)
  <2>1. Follows(6, 7)
    BY DEF Follows
  <2> QED BY <1>1, <2>1
<1>11. Reads(Up(7), 8) = Up(8)
  <2>1. Follows(7, 8)
    BY DEF Follows
  <2> QED BY <1>1, <2>1
<1>12. Reads(Up(1), 8) = Up(8)
  <2>1. Follows(1, 8)
    BY DEF Follows
  <2> QED BY <1>1, <2>1
<1> QED BY <1>2, <1>3, <1>4, <1>5, <1>6, <1>7, <1>8, <1>9, <1>10, <1>11, <1>12

\* What was sent of a Responses stream, and the position the reader is at.
SoFar(flags, view) ==
  \/ flags = {} /\ view = Up(0)
  \/ flags = {"created", "item", "part"} /\ view = Up(4)
  \/ flags = {"created", "completed"} /\ view = Up(8)
  \/ flags = Flags /\ view = Up(8)

\* Text is told behind what opens it, as long as the stream is not completed.
LEMMA TextInOrder ==
  ASSUME SoFar(responses, reader), "completed" \notin responses,
         Respond({"created", "item", "part"}, RespondText)
  PROVE  /\ SoFar(responses', reader')
         /\ responses' = {"created", "item", "part"}
<1> DEFINE a == Once("created", <<1>>)
           b == Once("item", <<2>>)
           c == Once("part", <<3>>)
<1>1. /\ reader' = ReadOn(reader, ((a \o b) \o c) \o <<4>>)
      /\ responses' = responses \cup {"created", "item", "part"}
  <2>1. a \o b \o c \o <<4>> = ((a \o b) \o c) \o <<4>>
    OBVIOUS
  <2> QED BY <2>1 DEF Respond, ReadOn, RespondText
<1>2. CASE responses = {}
  <2>1. a = <<1>> /\ b = <<2>> /\ c = <<3>>
    BY <1>2 DEF Once
  <2> HIDE DEF a, b, c
  <2>2. reader = Up(0)
    <3>1. "created" \notin responses
      BY <1>2
    <3> QED BY <3>1 DEF SoFar, Flags
  <2>3. Takes(reader, <<>> \o <<1>>, Up(1))
    <3>1. Takes(Up(0), <<>>, Up(0))
      BY TakesNothing, AtNext
    <3>2. \A x \in Int : Takes(Up(0), <<>> \o <<x>>, Reads(Up(0), x))
      BY <3>1, TakesMore
    <3>3. Takes(Up(0), <<>> \o <<1>>, Reads(Up(0), 1))
      BY <3>2
    <3> QED BY <2>2, <3>3, AtNext
  <2>4. <<>> \o <<1>> = <<1>>
    BY ConcatEmptySeq
  <2>5. Takes(reader, a, Up(1))
    BY <2>1, <2>3, <2>4
  <2>6. Takes(reader, a \o b, Up(2))
    BY <2>1, <2>5, TakesMore, AtNext
  <2>7. Takes(reader, (a \o b) \o c, Up(3))
    BY <2>1, <2>6, TakesMore, AtNext
  <2>8. Takes(reader, ((a \o b) \o c) \o <<4>>, Up(4))
    BY <2>7, TakesMore, AtNext
  <2>9. reader' = Up(4)
    BY <1>1, <2>8 DEF Takes
  <2> QED BY <1>1, <1>2, <2>9 DEF SoFar
<1>3. CASE responses = {"created", "item", "part"}
  <2>1. a = <<>> /\ b = <<>> /\ c = <<>>
    BY <1>3 DEF Once
  <2> HIDE DEF a, b, c
  <2>2. reader = Up(4)
    BY <1>3 DEF SoFar, Flags
  <2>3. Takes(reader, a, Up(4))
    BY <2>1, <2>2, TakesNothing, AtNext
  <2>4. Takes(reader, a \o b, Up(4))
    BY <2>1, <2>3, TakesMore
  <2>5. Takes(reader, (a \o b) \o c, Up(4))
    BY <2>1, <2>4, TakesMore
  <2>6. Takes(reader, ((a \o b) \o c) \o <<4>>, Up(4))
    BY <2>5, TakesMore, AtNext
  <2>7. reader' = Up(4)
    BY <1>1, <2>6 DEF Takes
  <2> QED BY <1>1, <1>3, <2>7 DEF SoFar
<1> QED BY <1>2, <1>3 DEF SoFar, Flags

\* The end is told once, with what is still open.
LEMMA EndInOrder ==
  ASSUME SoFar(responses, reader),
         Respond({"created", "completed"}
                   \union (IF "part" \in responses THEN {"partDone"} ELSE {})
                   \union (IF "item" \in responses THEN {"itemDone"} ELSE {}), CloseResponse)
  PROVE  SoFar(responses', reader') /\ "completed" \in responses'
<1> DEFINE a == IF "created" \in responses THEN <<>> ELSE Once("completed", <<1>>)
           b == IF "part" \in responses THEN Once("partDone", <<5, 6>>) ELSE <<>>
           c == IF "item" \in responses THEN Once("itemDone", <<7>>) ELSE <<>>
           d == Once("completed", <<8>>)
<1>1. /\ reader' = ReadOn(reader, ((a \o b) \o c) \o d)
      /\ responses' = responses \cup ({"created", "completed"}
                   \union (IF "part" \in responses THEN {"partDone"} ELSE {})
                   \union (IF "item" \in responses THEN {"itemDone"} ELSE {}))
  BY DEF Respond, ReadOn, CloseResponse
<1>2. CASE responses = {}
  <2>1. a = <<1>> /\ b = <<>> /\ c = <<>> /\ d = <<8>>
    BY <1>2 DEF Once
  <2> HIDE DEF a, b, c, d
  <2>2. reader = Up(0)
    <3>1. "created" \notin responses
      BY <1>2
    <3> QED BY <3>1 DEF SoFar, Flags
  <2>3. Takes(reader, <<>> \o <<1>>, Up(1))
    <3>1. Takes(Up(0), <<>>, Up(0))
      BY TakesNothing, AtNext
    <3>2. \A x \in Int : Takes(Up(0), <<>> \o <<x>>, Reads(Up(0), x))
      BY <3>1, TakesMore
    <3>3. Takes(Up(0), <<>> \o <<1>>, Reads(Up(0), 1))
      BY <3>2
    <3> QED BY <2>2, <3>3, AtNext
  <2>4. <<>> \o <<1>> = <<1>>
    BY ConcatEmptySeq
  <2>5. Takes(reader, a, Up(1))
    BY <2>1, <2>3, <2>4
  <2>6. Takes(reader, a \o b, Up(1))
    BY <2>1, <2>5, TakesMore
  <2>7. Takes(reader, (a \o b) \o c, Up(1))
    BY <2>1, <2>6, TakesMore
  <2>8. Takes(reader, ((a \o b) \o c) \o d, Up(8))
    BY <2>1, <2>7, TakesMore, AtNext
  <2>9. reader' = Up(8)
    BY <1>1, <2>8 DEF Takes
  <2>10. responses' = {"created", "completed"}
    BY <1>1, <1>2
  <2> QED BY <2>9, <2>10 DEF SoFar
<1>3. CASE responses = {"created", "item", "part"}
  <2>1. a = <<>> /\ b = <<5, 6>> /\ c = <<7>> /\ d = <<8>>
    BY <1>3 DEF Once
  <2> HIDE DEF a, b, c, d
  <2>2. reader = Up(4)
    BY <1>3 DEF SoFar, Flags
  <2>3. Takes(reader, a, Up(4))
    BY <2>1, <2>2, TakesNothing, AtNext
  <2>4. Takes(reader, a \o b, Up(6))
    <3>1. Takes(reader, a \o <<5, 6>>, Reads(Reads(Up(4), 5), 6))
      BY <2>3, TakesTwo
    <3> QED BY <2>1, <3>1, AtNext
  <2>5. Takes(reader, (a \o b) \o c, Up(7))
    BY <2>1, <2>4, TakesMore, AtNext
  <2>6. Takes(reader, ((a \o b) \o c) \o d, Up(8))
    BY <2>1, <2>5, TakesMore, AtNext
  <2>7. reader' = Up(8)
    BY <1>1, <2>6 DEF Takes
  <2>8. responses' = Flags
    BY <1>1, <1>3 DEF Flags
  <2> QED BY <2>7, <2>8 DEF SoFar, Flags
<1>4. CASE responses = {"created", "completed"} \/ responses = Flags
  <2>1. a = <<>> /\ b = <<>> /\ c = <<>> /\ d = <<>>
    BY <1>4 DEF Once, Flags
  <2> HIDE DEF a, b, c, d
  <2>2. reader = Up(8) /\ reader \in Readers
    BY <1>4, AtNext DEF SoFar, Flags
  <2>3. Takes(reader, a, reader)
    BY <2>1, <2>2, TakesNothing
  <2>4. Takes(reader, ((a \o b) \o c) \o d, reader)
    BY <2>1, <2>3, TakesMore
  <2>5. reader' = reader
    BY <1>1, <2>4 DEF Takes
  <2>6. responses' = responses
    BY <1>1, <1>4 DEF Flags
  <2> QED BY <1>4, <2>2, <2>5, <2>6 DEF SoFar, Flags
<1> QED BY <1>2, <1>3, <1>4 DEF SoFar


(*******************************************************************************)
(* The Anthropic translator agrees with its client: the blocks that it has opened*)
(* and not stopped are the blocks that the client was told of.                 *)
(*******************************************************************************)

Translators ==
  [started : BOOLEAN, text : {"none", "open", "closed"}, next : Nat,
   tools : [ToolCalls -> Blocks \cup {NoBlock}], stopped : SUBSET ToolCalls,
   ended : BOOLEAN, error : BOOLEAN, held : BOOLEAN, normalize : BOOLEAN]
Handled == [m : Translators, out : Seq(Events)]

Textual(text) == IF text = "none" THEN 0 ELSE 1
Tools(tools) == {c \in ToolCalls : tools[c] # NoBlock}
PhaseOf(m) ==
  IF m.error THEN "error" ELSE IF m.ended THEN "ended" ELSE IF m.started THEN "open" ELSE "before"

\* The blocks as the translator counts them, and as its client has them.  Text has block 0, if there is
\* text; the indexes count what was started.
Match(text, next, tools, stopped, blocks) ==
  /\ next = Cardinality(Tools(tools)) + Textual(text)
  /\ stopped \subseteq Tools(tools)
  /\ text # "none" => blocks[0].source = Text /\ blocks[0].open = (text = "open")
  /\ \A c \in Tools(tools) : /\ tools[c] < next /\ (text # "none" => tools[c] > 0)
                            /\ blocks[tools[c]].source = c
                            /\ blocks[tools[c]].open = (c \notin stopped)
  /\ \A b \in Blocks : /\ b >= next => blocks[b].source = NoBlock
                       /\ blocks[b].open => \/ b = 0 /\ text = "open"
                                            \/ \E c \in Tools(tools) \ stopped : tools[c] = b

\* The translator and its client agree: on the phase, on the blocks that were started and on those
\* that are open.
Agree(m, v) ==
  /\ m \in Translators /\ v \in Views /\ v.broken = FALSE /\ v.phase = PhaseOf(m)
  /\ Match(m.text, m.next, m.tools, m.stopped, v.blocks)
  /\ ~m.started => m.text = "none" /\ Tools(m.tools) = {}
  /\ m.ended => m.started /\ m.text # "open" /\ Tools(m.tools) \subseteq m.stopped

InTune(p, v) == v \in Views /\ p \in Handled /\ Agree(p.m, Shown(v, p.out))

Saw(w, v, e) == w = Sees(v, e)

\* The blocks are enough for every tool call and the text before them.
LEMMA BlocksAre ==
  /\ Cardinality(ToolCalls) \in Nat /\ IsFiniteSet(ToolCalls) /\ 0 \in Blocks /\ Blocks \subseteq Nat
  /\ NoBlock \notin Blocks /\ NoBlock \notin ToolCalls /\ Text \notin ToolCalls /\ Text # NoBlock
  /\ NoBlock = -1 /\ ToolCalls \subseteq Nat
  /\ \A S \in SUBSET ToolCalls : /\ IsFiniteSet(S) /\ Cardinality(S) \in Nat
                                 /\ Cardinality(S) <= Cardinality(ToolCalls)
                                 /\ \A c \in ToolCalls \ S :
                                      /\ Cardinality(S \cup {c}) = Cardinality(S) + 1
                                      /\ Cardinality(S) + 1 <= Cardinality(ToolCalls)
<1>1. IsFiniteSet(ToolCalls) /\ ToolCalls \subseteq Nat
  BY StreamAssumption
<1>2. Cardinality(ToolCalls) \in Nat
  BY <1>1, FS_CardinalityType
<1>3. \A S \in SUBSET ToolCalls : /\ IsFiniteSet(S) /\ Cardinality(S) \in Nat
                                  /\ Cardinality(S) <= Cardinality(ToolCalls)
  BY <1>1, FS_Subset, FS_CardinalityType
<1>4. ASSUME NEW S \in SUBSET ToolCalls, NEW c \in ToolCalls \ S
      PROVE  /\ Cardinality(S \cup {c}) = Cardinality(S) + 1
             /\ Cardinality(S) + 1 <= Cardinality(ToolCalls)
  <2>1. Cardinality(S \cup {c}) = Cardinality(S) + 1
    BY <1>3, FS_AddElement
  <2>2. Cardinality(S \cup {c}) <= Cardinality(ToolCalls)
    BY <1>3
  <2> QED BY <2>1, <2>2
<1>5. 0 \in Blocks /\ Blocks \subseteq Nat /\ NoBlock \notin Blocks
  BY <1>2 DEF Blocks, NoBlock
<1>6. NoBlock \notin ToolCalls /\ Text \notin ToolCalls /\ Text # NoBlock /\ NoBlock = -1
  BY <1>1 DEF NoBlock, Text
<1> QED BY <1>1, <1>2, <1>3, <1>4, <1>5, <1>6

\* An event, field by field.
LEMMA EventIs ==
  ASSUME NEW t \in EventTypes, NEW i \in Blocks, NEW s \in Sources
  PROVE  /\ Event(t, i, s) \in Events
         /\ Event(t, i, s).type = t /\ Event(t, i, s).index = i /\ Event(t, i, s).source = s
BY DEF Event, Events

\* An event emitted is the last one the client sees.
LEMMA EmitIs ==
  ASSUME NEW v \in Views, NEW p \in Handled, NEW m \in Translators, NEW e \in Events
  PROVE  /\ Emit(p, m, e) \in Handled /\ Emit(p, m, e).m = m
         /\ Shown(v, Emit(p, m, e).out) = Sees(Shown(v, p.out), e)
<1>1. p.out \in Seq(Events)
  BY DEF Handled
<1>2. Append(p.out, e) \in Seq(Events) /\ Shown(v, Append(p.out, e)) = Sees(Shown(v, p.out), e)
  BY <1>1, ShownMore
<1> QED BY <1>2 DEF Emit, Handled

-----------------------------------------------------------------------------
\* One event at a time, the two stay in agreement.
LEMMA AgreeTyped ==
  ASSUME NEW m, NEW v, Agree(m, v)
  PROVE  /\ m.started \in BOOLEAN /\ m.text \in {"none", "open", "closed"} /\ m.next \in Nat
         /\ m.tools \in [ToolCalls -> Blocks \cup {NoBlock}] /\ m.stopped \in SUBSET ToolCalls
         /\ m.ended \in BOOLEAN /\ m.error \in BOOLEAN /\ m.held \in BOOLEAN /\ m.normalize \in BOOLEAN
         /\ Tools(m.tools) \in SUBSET ToolCalls
         /\ v.blocks \in BlockViews
BY DEF Agree, Translators, Views, BlockViews, Tools

\* The client has seen the message start when the translator says so.
LEMMA MessageStarts ==
  ASSUME NEW m, NEW v, Agree(m, v), ~m.started, ~m.error,
         NEW n, n = [m EXCEPT !.started = TRUE], NEW w, Saw(w, v, Event("message_start", 0, Text))
  PROVE  Agree(n, w)
<1>1. /\ m.ended = FALSE /\ v.phase = "before" /\ v.broken = FALSE
  BY DEF Agree, PhaseOf
<1>2. /\ w = View("open", v.blocks)
      /\ w \in Views
  <2>1. w = View("open", v.blocks)
    BY <1>1 DEF Saw, Sees, Event, View, WithStart, WithStop
  <2>2. "open" \in Phases /\ v.blocks \in BlockViews
    BY AgreeTyped DEF Phases
  <2> QED BY <2>1, <2>2, ViewIs
<1>3. /\ n \in Translators /\ n.started = TRUE /\ Tools(n.tools) = Tools(m.tools) /\ Textual(n.text) = Textual(m.text)
      /\ n.text = m.text /\ n.next = m.next /\ n.tools = m.tools /\ n.stopped = m.stopped
      /\ n.ended = m.ended /\ n.error = m.error
  BY DEF Agree, Translators, Tools, Textual
<1>4. w.phase = PhaseOf(n) /\ w.broken = FALSE /\ w.blocks = v.blocks
  <2>1. w.phase = "open" /\ w.broken = FALSE /\ w.blocks = v.blocks
    BY <1>2, ViewIs, AgreeTyped DEF View
  <2>2. ~n.error /\ ~n.ended /\ n.started
    BY <1>1, <1>3
  <2> QED BY <2>1, <2>2 DEF PhaseOf
<1> QED BY <1>2, <1>3, <1>4 DEF Agree

Texted(m) == [m EXCEPT !.text = "open", !.next = IF @ = 0 THEN 1 ELSE @]

\* The text block opens as index 0, while no tool call has a block.
LEMMA TextOpens ==
  ASSUME NEW m, NEW v, Agree(m, v), m.started, ~m.ended, ~m.error, m.text = "none", Tools(m.tools) = {},
         NEW n, n = Texted(m),
         NEW w, Saw(w, v, Event("content_block_start", 0, Text))
  PROVE  Agree(n, w) /\ n.next = 1
<1>0. /\ m.next \in Nat /\ 0 \in Blocks /\ Blocks \subseteq Nat /\ Text \in Sources
      /\ v.blocks \in BlockViews
  BY AgreeTyped, BlocksAre DEF Sources
<1>1. m.next = 0
  <2>1. Cardinality(Tools(m.tools)) = 0
    BY FS_EmptySet
  <2> QED BY <2>1 DEF Agree, Match, Textual
<1>2. v.phase = "open" /\ v.broken = FALSE /\ v.blocks[0].source = NoBlock
  BY <1>0, <1>1 DEF Agree, Match, PhaseOf
<1> DEFINE blocks == WithStart(v.blocks, 0, Text)
<1>3. w = View("open", blocks)
  BY <1>2 DEF Saw, Sees, Event, View, WithStart, WithStop
<1>4. /\ blocks \in BlockViews
      /\ blocks[0].source = Text /\ blocks[0].open = TRUE
      /\ \A b \in Blocks \ {0} : blocks[b] = v.blocks[b]
  BY <1>0, BlockOpens
<1> HIDE DEF blocks
<1>5. w \in Views /\ w.blocks = blocks /\ w.broken = FALSE /\ w.phase = "open"
  <2>1. "open" \in Phases
    BY DEF Phases
  <2> QED BY <1>3, <1>4, <2>1, ViewIs
<1>6. /\ n \in Translators /\ n.text = "open" /\ n.next = 1 /\ n.started = m.started
      /\ n.tools = m.tools /\ n.stopped = m.stopped /\ n.ended = m.ended /\ n.error = m.error
  BY <1>1 DEF Agree, Match, Translators, Texted
<1>7. Tools(n.tools) = {} /\ Textual(n.text) = 1
  BY <1>6 DEF Tools, Textual
<1>8. Cardinality({}) = 0
  BY FS_EmptySet
<1>9. n.next = Cardinality(Tools(n.tools)) + Textual(n.text)
  BY <1>6, <1>7, <1>8
<1>10. w.phase = PhaseOf(n) /\ n.stopped \subseteq Tools(n.tools)
  BY <1>5, <1>6, <1>7 DEF Agree, Match, PhaseOf
<1>11. ASSUME NEW b \in Blocks
       PROVE  /\ b >= n.next => w.blocks[b].source = NoBlock
              /\ w.blocks[b].open => b = 0 /\ n.text = "open"
  <2>1. CASE b = 0
    BY <1>6, <2>1
  <2>2. CASE b # 0
    <3>1. w.blocks[b] = v.blocks[b] /\ b >= m.next
      BY <1>0, <1>1, <1>4, <1>5, <2>2
    <3>2. v.blocks[b].source = NoBlock /\ ~ v.blocks[b].open
      BY <2>2, <3>1 DEF Agree, Match
    <3> QED BY <3>1, <3>2
  <2> QED BY <2>1, <2>2
<1> QED BY <1>4, <1>5, <1>6, <1>7, <1>9, <1>10, <1>11 DEF Agree, Match

\* A delta of the text reaches the open text block.
LEMMA TextGrows ==
  ASSUME NEW m, NEW v, Agree(m, v), m.text = "open",
         NEW w, Saw(w, v, Event("content_block_delta", 0, Text))
  PROVE  Agree(m, w)
<1>1. v.blocks[0].open = TRUE /\ v.blocks[0].source = Text /\ v.broken = FALSE /\ v \in Views
  BY DEF Agree, Match
<1>2. w = View(v.phase, v.blocks)
  BY <1>1 DEF Saw, Sees, Event, View, WithStart, WithStop
<1>3. w = v
  BY <1>1, <1>2 DEF Views, BlockViews, Phases, View
<1> QED BY <1>3

\* A tool call opens the next block, which no other has had.
LEMMA ToolOpens ==
  ASSUME NEW m, NEW v, Agree(m, v), m.started, ~m.ended, ~m.error,
         NEW c \in ToolCalls, m.tools[c] = NoBlock,
         NEW n, n = [m EXCEPT !.tools[c] = m.next, !.next = @ + 1],
         NEW w, Saw(w, v, Event("content_block_start", m.next, c))
  PROVE  /\ Agree(n, w) /\ m.next \in Blocks
         /\ Tools(n.tools) = Tools(m.tools) \cup {c}
<1> DEFINE k == m.next
<1>0. /\ k \in Nat /\ Blocks \subseteq Nat /\ c \in Sources /\ NoBlock \notin Blocks
      /\ m.tools \in [ToolCalls -> Blocks \cup {NoBlock}]
      /\ v.blocks \in BlockViews
      /\ Tools(m.tools) \in SUBSET ToolCalls /\ c \notin Tools(m.tools)
  BY AgreeTyped, BlocksAre DEF Sources, Tools
<1>1. /\ k = Cardinality(Tools(m.tools)) + Textual(m.text) /\ Cardinality(Tools(m.tools)) \in Nat
      /\ Cardinality(Tools(m.tools) \cup {c}) = Cardinality(Tools(m.tools)) + 1
      /\ Cardinality(Tools(m.tools)) + 1 <= Cardinality(ToolCalls)
      /\ Cardinality(ToolCalls) \in Nat /\ Textual(m.text) \in {0, 1}
  BY <1>0, BlocksAre DEF Agree, Match, Textual
<1>2. k \in Blocks
  BY <1>1 DEF Blocks
<1>3. v.phase = "open" /\ v.broken = FALSE /\ v.blocks[k].source = NoBlock
  BY <1>0, <1>2 DEF Agree, Match, PhaseOf
<1> DEFINE blocks == WithStart(v.blocks, k, c)
<1>4. w = View("open", blocks)
  BY <1>3 DEF Saw, Sees, Event, View, WithStart, WithStop
<1>5. /\ blocks \in BlockViews
      /\ blocks[k].source = c /\ blocks[k].open = TRUE
      /\ \A b \in Blocks \ {k} : blocks[b] = v.blocks[b]
  BY <1>0, <1>2, BlockOpens, ZenonT(30)
<1>6. w \in Views /\ w.blocks = blocks /\ w.broken = FALSE /\ w.phase = "open"
  <2> HIDE DEF blocks
  <2>1. "open" \in Phases
    BY DEF Phases
  <2> QED BY <1>4, <1>5, <2>1, ViewIs
<1>7. /\ n \in Translators /\ n.text = m.text /\ n.next = k + 1 /\ n.started = m.started
      /\ n.tools = [m.tools EXCEPT ![c] = k] /\ n.stopped = m.stopped /\ n.ended = m.ended
      /\ n.error = m.error
  <2>1. m \in Translators
    BY DEF Agree
  <2>2. [m.tools EXCEPT ![c] = k] \in [ToolCalls -> Blocks \cup {NoBlock}] /\ k + 1 \in Nat
    BY <1>0, <1>2
  <2>3. n = [m EXCEPT !.tools = [m.tools EXCEPT ![c] = k], !.next = k + 1]
    BY <2>1 DEF Translators
  <2> HIDE DEF k
  <2> QED BY <2>1, <2>2, <2>3 DEF Translators
<1>8. n.tools[c] = k /\ \A d \in ToolCalls \ {c} : n.tools[d] = m.tools[d]
  BY <1>0, <1>7
<1> HIDE DEF blocks
<1>9. Tools(n.tools) = Tools(m.tools) \cup {c} /\ Textual(n.text) = Textual(m.text)
  <2>1. k # NoBlock
    BY <1>0, <1>2
  <2>2. Tools(n.tools) = Tools(m.tools) \cup {c}
    BY <1>8, <2>1 DEF Tools
  <2> QED BY <1>7, <2>2
<1>10. n.next = Cardinality(Tools(n.tools)) + Textual(n.text)
  <2> DEFINE x == Cardinality(Tools(m.tools))
             y == Textual(m.text)
  <2>1. x \in Nat /\ y \in Nat /\ k = x + y
    BY <1>1
  <2>2. Cardinality(Tools(n.tools)) = x + 1 /\ Textual(n.text) = y
    BY <1>1, <1>9
  <2> HIDE DEF x, y, k
  <2> QED BY <1>7, <2>1, <2>2
<1>11. w.phase = PhaseOf(n) /\ n.stopped \subseteq Tools(n.tools)
  BY <1>6, <1>7, <1>9 DEF Agree, Match, PhaseOf
<1>12. n.text # "none" => w.blocks[0].source = Text /\ w.blocks[0].open = (n.text = "open")
  <2> SUFFICES ASSUME n.text # "none"
               PROVE  w.blocks[0].source = Text /\ w.blocks[0].open = (n.text = "open")
    OBVIOUS
  <2>1. k # 0 /\ 0 \in Blocks
    BY <1>1, <1>7, BlocksAre DEF Textual
  <2>2. w.blocks[0] = v.blocks[0]
    BY <1>5, <1>6, <2>1
  <2> QED BY <1>7, <2>2 DEF Agree, Match
<1>13. ASSUME NEW d \in Tools(n.tools)
       PROVE  /\ n.tools[d] < n.next /\ (n.text # "none" => n.tools[d] > 0)
              /\ w.blocks[n.tools[d]].source = d
              /\ w.blocks[n.tools[d]].open = (d \notin n.stopped)
  <2>1. CASE d = c
    <3>1. c \notin n.stopped
      BY <1>0, <1>7 DEF Agree, Match
    <3>2. n.text # "none" => k > 0
      BY <1>1, <1>7 DEF Textual
    <3>3. k < n.next
      BY <1>0, <1>7
    <3> QED BY <1>5, <1>6, <1>8, <2>1, <3>1, <3>2, <3>3
  <2>2. CASE d # c
    <3>1. d \in Tools(m.tools) /\ n.tools[d] = m.tools[d] /\ m.tools[d] \in Blocks
      BY <1>0, <1>8, <1>9, <2>2 DEF Tools
    <3>2. /\ m.tools[d] < k /\ (m.text # "none" => m.tools[d] > 0)
          /\ v.blocks[m.tools[d]].source = d /\ v.blocks[m.tools[d]].open = (d \notin m.stopped)
      BY <3>1 DEF Agree, Match
    <3>3. m.tools[d] \in Nat /\ m.tools[d] # k /\ m.tools[d] < n.next
      BY <1>0, <1>7, <3>1, <3>2
    <3>4. w.blocks[m.tools[d]] = v.blocks[m.tools[d]]
      BY <1>5, <1>6, <3>1, <3>3
    <3> QED BY <1>7, <3>1, <3>2, <3>3, <3>4
  <2> QED BY <2>1, <2>2
<1>14. ASSUME NEW b \in Blocks
       PROVE  /\ b >= n.next => w.blocks[b].source = NoBlock
              /\ w.blocks[b].open => \/ b = 0 /\ n.text = "open"
                                     \/ \E d \in Tools(n.tools) \ n.stopped : n.tools[d] = b
  <2>1. CASE b = k
    <3>1. c \notin n.stopped /\ c \in Tools(n.tools)
      BY <1>0, <1>7, <1>9 DEF Agree, Match
    <3>2. ~ (b >= n.next)
      BY <1>0, <1>7, <2>1
    <3> QED BY <1>8, <2>1, <3>1, <3>2
  <2>2. CASE b # k
    <3>1. w.blocks[b] = v.blocks[b] /\ (b >= n.next => b >= k)
      BY <1>0, <1>5, <1>6, <1>7, <2>2
    <3>2. /\ b >= k => v.blocks[b].source = NoBlock
          /\ v.blocks[b].open => \/ b = 0 /\ m.text = "open"
                                 \/ \E d \in Tools(m.tools) \ m.stopped : m.tools[d] = b
      BY DEF Agree, Match
    <3>3. \A d \in Tools(m.tools) : d # c /\ d \in Tools(n.tools) /\ n.tools[d] = m.tools[d]
      BY <1>0, <1>8, <1>9
    <3> QED BY <1>7, <3>1, <3>2, <3>3
  <2> QED BY <2>1, <2>2
<1>15. n.started /\ ~n.ended
  BY <1>7
<1> QED BY <1>2, <1>6, <1>7, <1>9, <1>10, <1>11, <1>12, <1>13, <1>14, <1>15 DEF Agree, Match

\* A delta of a tool call reaches its own open block.
LEMMA ToolGrows ==
  ASSUME NEW m, NEW v, Agree(m, v), NEW c \in Tools(m.tools), c \notin m.stopped,
         NEW w, Saw(w, v, Event("content_block_delta", m.tools[c], c))
  PROVE  Agree(m, w)
<1>1. /\ v.blocks[m.tools[c]].open = TRUE /\ v.blocks[m.tools[c]].source = c
      /\ v.broken = FALSE /\ v \in Views
  BY DEF Agree, Match
<1>2. w = View(v.phase, v.blocks)
  BY <1>1 DEF Saw, Sees, Event, View, WithStart, WithStop
<1>3. w = v
  BY <1>1, <1>2 DEF Views, BlockViews, Phases, View
<1> QED BY <1>3

\* The open text block is stopped.
LEMMA TextStops ==
  ASSUME NEW m, NEW v, Agree(m, v), m.text = "open",
         NEW n, n = [m EXCEPT !.text = "closed"],
         NEW w, Saw(w, v, Event("content_block_stop", 0, Text))
  PROVE  Agree(n, w)
<1>0. /\ m.next \in Nat /\ 0 \in Blocks /\ Blocks \subseteq Nat /\ NoBlock \notin Blocks
      /\ v.blocks \in BlockViews
      /\ m.tools \in [ToolCalls -> Blocks \cup {NoBlock}]
  BY AgreeTyped, BlocksAre
<1>1. /\ v.blocks[0].open = TRUE /\ v.blocks[0].source = Text /\ v.broken = FALSE
      /\ v \in Views
  BY DEF Agree, Match
<1> DEFINE blocks == WithStop(v.blocks, 0)
<1>2. w = View(v.phase, blocks)
  BY <1>1 DEF Saw, Sees, Event, View, WithStart, WithStop
<1>3. /\ blocks \in BlockViews
      /\ blocks[0].source = Text /\ blocks[0].open = FALSE
      /\ \A b \in Blocks \ {0} : blocks[b] = v.blocks[b]
  BY <1>0, <1>1, BlockCloses
<1> HIDE DEF blocks
<1>4. w \in Views /\ w.blocks = blocks /\ w.broken = FALSE /\ w.phase = v.phase
  <2>1. v.phase \in Phases
    BY <1>1 DEF Views
  <2> QED BY <1>2, <1>3, <2>1, ViewIs
<1>5. /\ n \in Translators /\ n.text = "closed" /\ n.next = m.next /\ n.started = m.started
      /\ n.tools = m.tools /\ n.stopped = m.stopped /\ n.ended = m.ended /\ n.error = m.error
  BY DEF Agree, Match, Translators
<1>6. Tools(n.tools) = Tools(m.tools) /\ Textual(n.text) = Textual(m.text)
  BY <1>5 DEF Tools, Textual
<1>7. w.phase = PhaseOf(n)
  BY <1>4, <1>5 DEF Agree, Match, PhaseOf
<1>8. ASSUME NEW d \in Tools(n.tools)
      PROVE  /\ n.tools[d] < n.next /\ n.tools[d] > 0
             /\ w.blocks[n.tools[d]].source = d
             /\ w.blocks[n.tools[d]].open = (d \notin n.stopped)
  <2>1. /\ m.tools[d] < m.next /\ m.tools[d] > 0
        /\ v.blocks[m.tools[d]].source = d /\ v.blocks[m.tools[d]].open = (d \notin m.stopped)
    BY <1>6 DEF Agree, Match
  <2>2. m.tools[d] \in Blocks \ {0}
    BY <1>0, <1>6, <2>1 DEF Tools
  <2>3. w.blocks[m.tools[d]] = v.blocks[m.tools[d]]
    BY <1>3, <1>4, <2>2
  <2> QED BY <1>5, <2>1, <2>3
<1>9. ASSUME NEW b \in Blocks
      PROVE  /\ b >= n.next => w.blocks[b].source = NoBlock
             /\ w.blocks[b].open => \E d \in Tools(n.tools) \ n.stopped : n.tools[d] = b
  <2>1. CASE b = 0
    <3>1. m.next > 0
      BY <1>0, BlocksAre, AgreeTyped DEF Agree, Match, Textual
    <3>2. ~ (b >= n.next)
      BY <1>0, <1>5, <2>1, <3>1
    <3> QED BY <1>3, <1>4, <2>1, <3>2
  <2>2. CASE b # 0
    <3>1. w.blocks[b] = v.blocks[b]
      BY <1>3, <1>4, <2>2
    <3>2. /\ b >= m.next => v.blocks[b].source = NoBlock
          /\ v.blocks[b].open => \E d \in Tools(m.tools) \ m.stopped : m.tools[d] = b
      BY <2>2 DEF Agree, Match
    <3> QED BY <1>5, <1>6, <3>1, <3>2
  <2> QED BY <2>1, <2>2
<1>10. /\ n.next = Cardinality(Tools(n.tools)) + Textual(n.text) /\ n.stopped \subseteq Tools(n.tools)
       /\ n.started
       /\ n.ended => Tools(n.tools) \subseteq n.stopped
  BY <1>5, <1>6 DEF Agree, Match
<1> QED BY <1>3, <1>4, <1>5, <1>7, <1>8, <1>9, <1>10 DEF Agree, Match

\* The open block of a tool call is stopped.
LEMMA ToolStops ==
  ASSUME NEW m, NEW v, Agree(m, v), NEW c \in Tools(m.tools), c \notin m.stopped,
         NEW n, n = [m EXCEPT !.stopped = @ \cup {c}],
         NEW w, Saw(w, v, Event("content_block_stop", m.tools[c], c))
  PROVE  Agree(n, w)
<1> DEFINE k == m.tools[c]
<1>0. /\ m.next \in Nat /\ Blocks \subseteq Nat /\ NoBlock \notin Blocks
      /\ v.blocks \in BlockViews
      /\ m.tools \in [ToolCalls -> Blocks \cup {NoBlock}] /\ c \in ToolCalls /\ k \in Blocks
      /\ Text \notin ToolCalls
  BY AgreeTyped, BlocksAre DEF Tools
<1>1. /\ v.blocks[k].open = TRUE /\ v.blocks[k].source = c /\ v.broken = FALSE
      /\ v \in Views /\ k < m.next
  BY DEF Agree, Match
<1> DEFINE blocks == WithStop(v.blocks, k)
<1>2. w = View(v.phase, blocks)
  BY <1>1 DEF Saw, Sees, Event, View, WithStart, WithStop
<1>3. /\ blocks \in BlockViews
      /\ blocks[k].source = c /\ blocks[k].open = FALSE
      /\ \A b \in Blocks \ {k} : blocks[b] = v.blocks[b]
  BY <1>0, <1>1, BlockCloses
<1> HIDE DEF blocks
<1>4. w \in Views /\ w.blocks = blocks /\ w.broken = FALSE /\ w.phase = v.phase
  <2>1. v.phase \in Phases
    BY <1>1 DEF Views
  <2> QED BY <1>2, <1>3, <2>1, ViewIs
<1>5. /\ n \in Translators /\ n.text = m.text /\ n.next = m.next /\ n.started = m.started
      /\ n.tools = m.tools /\ n.stopped = m.stopped \cup {c} /\ n.ended = m.ended /\ n.error = m.error
  BY <1>0 DEF Agree, Match, Translators
<1>6. Tools(n.tools) = Tools(m.tools) /\ Textual(n.text) = Textual(m.text)
  BY <1>5 DEF Tools, Textual
<1>7. w.phase = PhaseOf(n)
  BY <1>4, <1>5 DEF Agree, Match, PhaseOf
<1>8. ASSUME NEW d \in Tools(n.tools)
      PROVE  /\ n.tools[d] < n.next /\ (n.text # "none" => n.tools[d] > 0)
             /\ w.blocks[n.tools[d]].source = d
             /\ w.blocks[n.tools[d]].open = (d \notin n.stopped)
  <2>1. /\ m.tools[d] < m.next /\ (m.text # "none" => m.tools[d] > 0)
        /\ v.blocks[m.tools[d]].source = d /\ v.blocks[m.tools[d]].open = (d \notin m.stopped)
    BY <1>6 DEF Agree, Match
  <2>2. m.tools[d] \in Blocks
    BY <1>0, <1>6 DEF Tools
  <2>3. CASE d = c
    BY <1>3, <1>4, <1>5, <2>1, <2>3
  <2>4. CASE d # c
    <3>1. m.tools[d] # k
      BY <1>1, <2>1, <2>4
    <3>2. w.blocks[m.tools[d]] = v.blocks[m.tools[d]]
      BY <1>3, <1>4, <2>2, <3>1
    <3> QED BY <1>5, <2>1, <2>4, <3>2
  <2> QED BY <2>3, <2>4
<1>9. ASSUME NEW b \in Blocks
      PROVE  /\ b >= n.next => w.blocks[b].source = NoBlock
             /\ w.blocks[b].open => \/ b = 0 /\ n.text = "open"
                                    \/ \E d \in Tools(n.tools) \ n.stopped : n.tools[d] = b
  <2>1. CASE b = k
    <3>1. ~ (b >= n.next)
      BY <1>0, <1>1, <1>5, <2>1
    <3> QED BY <1>3, <1>4, <2>1, <3>1
  <2>2. CASE b # k
    <3>1. w.blocks[b] = v.blocks[b]
      BY <1>3, <1>4, <2>2
    <3>2. /\ b >= m.next => v.blocks[b].source = NoBlock
          /\ v.blocks[b].open => \/ b = 0 /\ m.text = "open"
                                 \/ \E d \in Tools(m.tools) \ m.stopped : m.tools[d] = b
      BY DEF Agree, Match
    <3>3. \A d \in Tools(m.tools) \ m.stopped : m.tools[d] = b => d \in Tools(n.tools) \ n.stopped /\ n.tools[d] = b
      BY <1>5, <1>6, <2>2
    <3> QED BY <1>5, <3>1, <3>2, <3>3
  <2> QED BY <2>1, <2>2
<1>10. n.text # "none" => w.blocks[0].source = Text /\ w.blocks[0].open = (n.text = "open")
  <2> SUFFICES ASSUME n.text # "none"
               PROVE  w.blocks[0].source = Text /\ w.blocks[0].open = (n.text = "open")
    OBVIOUS
  <2>1. v.blocks[0].source = Text /\ v.blocks[0].open = (n.text = "open") /\ 0 \in Blocks
    BY <1>5, BlocksAre DEF Agree, Match
  <2>2. k # 0
    BY <1>0, <1>1, <2>1
  <2>3. w.blocks[0] = v.blocks[0]
    BY <1>3, <1>4, <2>1, <2>2
  <2> QED BY <2>1, <2>3
<1>11. /\ n.next = Cardinality(Tools(n.tools)) + Textual(n.text) /\ n.stopped \subseteq Tools(n.tools)
       /\ ~n.started => n.text = "none" /\ Tools(n.tools) = {}
       /\ n.ended => n.started /\ n.text # "open" /\ Tools(n.tools) \subseteq n.stopped
  BY <1>5, <1>6 DEF Agree, Match
<1> QED BY <1>4, <1>5, <1>7, <1>8, <1>9, <1>10, <1>11 DEF Agree, Match

\* The message ends when no block is open.
LEMMA MessageEnds ==
  ASSUME NEW m, NEW v, Agree(m, v), m.started, ~m.ended, ~m.error, m.text # "open",
         Tools(m.tools) \subseteq m.stopped, NEW n, n = [m EXCEPT !.ended = TRUE],
         NEW w, Saw(w, Sees(v, Event("message_delta", 0, Text)), Event("message_stop", 0, Text))
  PROVE  Agree(n, w)
<1>1. v.phase = "open" /\ v.broken = FALSE /\ v \in Views /\ \A b \in Blocks : ~ v.blocks[b].open
  BY DEF Agree, Match, PhaseOf
<1> DEFINE u == Sees(v, Event("message_delta", 0, Text))
<1>2. u = View("open", v.blocks)
  BY <1>1 DEF Saw, Sees, Event, View, WithStart, WithStop
<1>3. w = Sees(u, Event("message_stop", 0, Text))
  BY DEF Saw
<1> HIDE DEF u
<1>4. w = View("ended", v.blocks)
  BY <1>1, <1>2, <1>3 DEF Saw, Sees, Event, View, WithStart, WithStop
<1>5. w \in Views /\ w.phase = "ended" /\ w.broken = FALSE /\ w.blocks = v.blocks
  <2>1. "ended" \in Phases /\ v.blocks \in BlockViews
    BY AgreeTyped DEF Phases
  <2> QED BY <1>4, <2>1, ViewIs
<1>6. /\ n \in Translators /\ n.started = TRUE /\ Tools(n.tools) = Tools(m.tools) /\ Textual(n.text) = Textual(m.text)
      /\ n.text = m.text /\ n.next = m.next /\ n.tools = m.tools /\ n.stopped = m.stopped
      /\ n.ended = TRUE /\ n.error = FALSE
  BY AgreeTyped DEF Agree, Translators, Tools, Textual
<1>7. w.phase = PhaseOf(n)
  BY <1>5, <1>6 DEF PhaseOf
<1> QED BY <1>5, <1>6, <1>7 DEF Agree

\* An error ends the view of a message that had not ended.
LEMMA MessageFails ==
  ASSUME NEW m, NEW v, Agree(m, v), ~m.ended, NEW n, n = [m EXCEPT !.error = TRUE],
         NEW w, Saw(w, v, Event("error", 0, Text))
  PROVE  Agree(n, w)
<1>1. v.phase # "ended" /\ v.broken = FALSE /\ v \in Views
  BY DEF Agree, PhaseOf
<1>2. w = View("error", v.blocks)
  BY <1>1 DEF Saw, Sees, Event, View, WithStart, WithStop
<1>3. w \in Views /\ w.phase = "error" /\ w.broken = FALSE /\ w.blocks = v.blocks
  <2>1. "error" \in Phases /\ v.blocks \in BlockViews
    BY AgreeTyped DEF Phases
  <2> QED BY <1>2, <2>1, ViewIs
<1>4. /\ n \in Translators /\ n.started = m.started /\ Tools(n.tools) = Tools(m.tools) /\ Textual(n.text) = Textual(m.text)
      /\ n.text = m.text /\ n.next = m.next /\ n.tools = m.tools /\ n.stopped = m.stopped
      /\ n.ended = m.ended /\ n.error = TRUE
  BY DEF Agree, Translators, Tools, Textual
<1>5. w.phase = PhaseOf(n)
  BY <1>3, <1>4 DEF PhaseOf
<1> QED BY <1>3, <1>4, <1>5 DEF Agree


(*******************************************************************************)
(* Each part of a handler keeps the translator in tune with its client.        *)
(*******************************************************************************)

-----------------------------------------------------------------------------
\* The handlers of the translator keep the agreement; what they leave alone.
Same(m, n) ==
  /\ n.started = m.started /\ n.ended = m.ended /\ n.error = m.error
  /\ n.held = m.held /\ n.normalize = m.normalize

\* If the translator agrees with what its client sees of an event, so it does when it is emitted.
LEMMA EmitTunes ==
  ASSUME NEW v, NEW p, InTune(p, v), NEW n, NEW e \in Events,
         \A w : Saw(w, Shown(v, p.out), e) => Agree(n, w)
  PROVE  InTune(Emit(p, n, e), v) /\ Emit(p, n, e).m = n
<1>1. v \in Views /\ p \in Handled
  BY DEF InTune
<1>2. Agree(n, Sees(Shown(v, p.out), e))
  BY DEF Saw
<1>3. n \in Translators
  BY <1>2 DEF Agree
<1> QED BY <1>1, <1>2, <1>3, EmitIs DEF InTune

\* The fields of a translator in tune with its client.
LEMMA TuneTyped ==
  ASSUME NEW v, NEW p, InTune(p, v)
  PROVE  /\ p.m \in Translators /\ Agree(p.m, Shown(v, p.out)) /\ v \in Views /\ p \in Handled
         /\ p.m.started \in BOOLEAN /\ p.m.text \in {"none", "open", "closed"} /\ p.m.next \in Nat
         /\ p.m.tools \in [ToolCalls -> Blocks \cup {NoBlock}] /\ p.m.stopped \in SUBSET ToolCalls
         /\ p.m.ended \in BOOLEAN /\ p.m.error \in BOOLEAN
         /\ p.m.held \in BOOLEAN /\ p.m.normalize \in BOOLEAN
         /\ Tools(p.m.tools) \in SUBSET ToolCalls /\ p.m.stopped \subseteq Tools(p.m.tools)
         /\ ~p.m.started => p.m.text = "none" /\ Tools(p.m.tools) = {}
         /\ p.m.ended => p.m.started /\ p.m.text # "open" /\ Tools(p.m.tools) \subseteq p.m.stopped
<1>1. p \in Handled /\ v \in Views /\ Agree(p.m, Shown(v, p.out))
  BY DEF InTune
<1> DEFINE m == p.m
           w == Shown(v, p.out)
<1>2. Agree(m, w)
  BY <1>1
<1> HIDE DEF m, w
<1>3. /\ m \in Translators /\ m.stopped \subseteq Tools(m.tools)
      /\ ~m.started => m.text = "none" /\ Tools(m.tools) = {}
      /\ m.ended => m.started /\ m.text # "open" /\ Tools(m.tools) \subseteq m.stopped
  BY <1>2 DEF Agree, Match
<1> QED BY <1>1, <1>2, <1>3, AgreeTyped DEF m, w

\* StartMessage keeps the client in tune.
LEMMA MessageBegun ==
  ASSUME NEW v, NEW p, InTune(p, v), ~p.m.error
  PROVE  /\ InTune(StartMessage(p), v)
         /\ StartMessage(p).m = [p.m EXCEPT !.started = TRUE]
<1> DEFINE m == p.m
           n == [m EXCEPT !.started = TRUE]
           e == Event("message_start", 0, Text)
<1>1. m \in Translators /\ Agree(m, Shown(v, p.out)) /\ m.started \in BOOLEAN
  BY TuneTyped
<1>2. CASE p.m.started
  <2>1. StartMessage(p) = p
    BY <1>2 DEF StartMessage
  <2>2. n = m
    <3>1. m.started = TRUE
      BY <1>1, <1>2
    <3> HIDE DEF m
    <3> QED BY <1>1, <3>1 DEF Translators
  <2> QED BY <2>1, <2>2
<1>3. CASE ~p.m.started
  <2>1. StartMessage(p) = Emit(p, n, e)
    BY <1>3 DEF StartMessage
  <2>2. e \in Events
    <3>1. "message_start" \in EventTypes /\ 0 \in Blocks /\ Text \in Sources
      BY BlocksAre DEF EventTypes, Sources
    <3> QED BY <3>1, EventIs
  <2>3. \A w : Saw(w, Shown(v, p.out), e) => Agree(n, w)
    BY <1>1, <1>3, MessageStarts
  <2> HIDE DEF n, e
  <2>4. InTune(Emit(p, n, e), v) /\ Emit(p, n, e).m = n
    BY <2>2, <2>3, EmitTunes
  <2> QED BY <2>1, <2>4 DEF n
<1> QED BY <1>2, <1>3

\* StartText keeps the client in tune, if no tool call came before the text.
LEMMA TextStarted ==
  ASSUME NEW v, NEW p, InTune(p, v), p.m.started, ~p.m.ended, ~p.m.error,
         p.m.text = "none" => Tools(p.m.tools) = {}
  PROVE  /\ InTune(StartText(p), v) /\ Same(p.m, StartText(p).m)
         /\ StartText(p).m.text = (IF p.m.text = "none" THEN "open" ELSE p.m.text)
         /\ StartText(p).m.tools = p.m.tools /\ StartText(p).m.stopped = p.m.stopped
<1> DEFINE m == p.m
           n == Texted(m)
           e == Event("content_block_start", 0, Text)
<1>1. m \in Translators /\ Agree(m, Shown(v, p.out))
  BY TuneTyped
<1>2. CASE m.text # "none"
  BY <1>2 DEF StartText, Same
<1>3. CASE m.text = "none"
  <2>1. StartText(p) = Emit(p, n, e)
    BY <1>3 DEF StartText, Texted
  <2>2. e \in Events
    <3>1. "content_block_start" \in EventTypes /\ 0 \in Blocks /\ Text \in Sources
      BY BlocksAre DEF EventTypes, Sources
    <3> QED BY <3>1, EventIs
  <2>3. \A w : Saw(w, Shown(v, p.out), e) => Agree(n, w)
    <3>1. m.started /\ ~m.ended /\ ~m.error /\ Tools(m.tools) = {}
      BY <1>3
    <3> HIDE DEF m
    <3> QED BY <1>1, <1>3, <3>1, TextOpens
  <2>4. Same(m, n) /\ n.text = "open" /\ n.tools = m.tools /\ n.stopped = m.stopped
    <3> HIDE DEF m
    <3> QED BY <1>1 DEF Translators, Same, Texted
  <2> HIDE DEF n, e
  <2>5. InTune(Emit(p, n, e), v) /\ Emit(p, n, e).m = n
    BY <2>2, <2>3, EmitTunes
  <2> QED BY <1>3, <2>1, <2>4, <2>5
<1> QED BY <1>2, <1>3

\* So does TextDelta.
LEMMA TextTold ==
  ASSUME NEW v, NEW p, InTune(p, v), p.m.started, ~p.m.ended, ~p.m.error, p.m.text # "closed",
         p.m.text = "none" => Tools(p.m.tools) = {}
  PROVE  /\ InTune(TextDelta(p), v) /\ Same(p.m, TextDelta(p).m) /\ TextDelta(p).m.text = "open"
         /\ TextDelta(p).m.tools = p.m.tools /\ TextDelta(p).m.stopped = p.m.stopped
<1> DEFINE q == StartText(p)
           e == Event("content_block_delta", 0, Text)
<1>1. /\ InTune(q, v) /\ Same(p.m, q.m) /\ q.m.tools = p.m.tools /\ q.m.stopped = p.m.stopped
      /\ q.m.text = (IF p.m.text = "none" THEN "open" ELSE p.m.text)
  BY TextStarted
<1>2. TextDelta(p) = Emit(q, q.m, e)
  BY DEF TextDelta
<1> HIDE DEF q
<1>3. q.m.text = "open"
  BY <1>1, TuneTyped
<1>4. e \in Events
  <2>1. "content_block_delta" \in EventTypes /\ 0 \in Blocks /\ Text \in Sources
    BY BlocksAre DEF EventTypes, Sources
  <2> QED BY <2>1, EventIs
<1>5. Agree(q.m, Shown(v, q.out))
  BY <1>1, TuneTyped
<1>6. \A w : Saw(w, Shown(v, q.out), e) => Agree(q.m, w)
  BY <1>3, <1>5, TextGrows
<1> HIDE DEF e
<1>7. InTune(Emit(q, q.m, e), v) /\ Emit(q, q.m, e).m = q.m
  BY <1>1, <1>4, <1>6, EmitTunes
<1> QED BY <1>1, <1>2, <1>3, <1>7

\* StartTool keeps the client in tune.
LEMMA ToolStarted ==
  ASSUME NEW v, NEW p, InTune(p, v), p.m.started, ~p.m.ended, ~p.m.error, NEW c \in ToolCalls
  PROVE  /\ InTune(StartTool(p, c), v) /\ Same(p.m, StartTool(p, c).m)
         /\ StartTool(p, c).m.text = p.m.text /\ StartTool(p, c).m.stopped = p.m.stopped
         /\ Tools(StartTool(p, c).m.tools) = Tools(p.m.tools) \cup {c}
<1> DEFINE m == p.m
           n == [m EXCEPT !.tools[c] = m.next, !.next = @ + 1]
           e == Event("content_block_start", m.next, c)
<1>1. m \in Translators /\ Agree(m, Shown(v, p.out))
  BY TuneTyped
<1>2. CASE m.tools[c] # NoBlock
  <2>1. StartTool(p, c) = p
    BY <1>2 DEF StartTool
  <2>2. c \in Tools(m.tools)
    BY <1>2 DEF Tools
  <2> QED BY <2>1, <2>2 DEF Same
<1>3. CASE m.tools[c] = NoBlock
  <2>1. StartTool(p, c) = Emit(p, n, e)
    BY <1>3 DEF StartTool
  <2>2. \A w : Saw(w, Shown(v, p.out), e) =>
          Agree(n, w) /\ m.next \in Blocks /\ Tools(n.tools) = Tools(m.tools) \cup {c}
    <3> HIDE DEF m
    <3> QED BY <1>1, <1>3, ToolOpens DEF m
  <2>3. m.next \in Blocks /\ Tools(n.tools) = Tools(m.tools) \cup {c}
    <3>1. Saw(Sees(Shown(v, p.out), e), Shown(v, p.out), e)
      BY DEF Saw
    <3> HIDE DEF n, e, m
    <3> QED BY <2>2, <3>1
  <2>4. e \in Events
    <3>1. "content_block_start" \in EventTypes /\ c \in Sources
      BY DEF EventTypes, Sources
    <3> QED BY <2>3, <3>1, EventIs
  <2>5. Same(m, n) /\ n.text = m.text /\ n.stopped = m.stopped
    <3> HIDE DEF m
    <3> QED BY <1>1 DEF Translators, Same
  <2> HIDE DEF n, e
  <2>6. InTune(Emit(p, n, e), v) /\ Emit(p, n, e).m = n
    BY <2>2, <2>4, EmitTunes
  <2> QED BY <2>1, <2>3, <2>5, <2>6
<1> QED BY <1>2, <1>3

\* So does ToolDelta, of a block that was not stopped.
LEMMA ToolTold ==
  ASSUME NEW v, NEW p, InTune(p, v), p.m.started, ~p.m.ended, ~p.m.error,
         NEW c \in ToolCalls, c \notin p.m.stopped
  PROVE  /\ InTune(ToolDelta(p, c), v) /\ Same(p.m, ToolDelta(p, c).m)
         /\ ToolDelta(p, c).m.text = p.m.text /\ ToolDelta(p, c).m.stopped = p.m.stopped
         /\ Tools(ToolDelta(p, c).m.tools) = Tools(p.m.tools) \cup {c}
<1> DEFINE q == StartTool(p, c)
           e == Event("content_block_delta", q.m.tools[c], c)
<1>1. /\ InTune(q, v) /\ Same(p.m, q.m) /\ q.m.text = p.m.text /\ q.m.stopped = p.m.stopped
      /\ Tools(q.m.tools) = Tools(p.m.tools) \cup {c}
  BY ToolStarted
<1>2. ToolDelta(p, c) = Emit(q, q.m, e)
  BY DEF ToolDelta
<1> HIDE DEF q
<1>3. c \in Tools(q.m.tools) /\ c \notin q.m.stopped /\ q.m.tools[c] \in Blocks
  <2>1. c \in Tools(q.m.tools) /\ c \notin q.m.stopped
    BY <1>1
  <2>2. q.m.tools \in [ToolCalls -> Blocks \cup {NoBlock}]
    BY <1>1, TuneTyped
  <2> QED BY <2>1, <2>2 DEF Tools
<1>4. e \in Events
  <2>1. "content_block_delta" \in EventTypes /\ c \in Sources
    BY DEF EventTypes, Sources
  <2> QED BY <1>3, <2>1, EventIs
<1>5. Agree(q.m, Shown(v, q.out))
  BY <1>1, TuneTyped
<1>6. \A w : Saw(w, Shown(v, q.out), e) => Agree(q.m, w)
  BY <1>3, <1>5, ToolGrows
<1> HIDE DEF e
<1>7. InTune(Emit(q, q.m, e), v) /\ Emit(q, q.m, e).m = q.m
  BY <1>1, <1>4, <1>6, EmitTunes
<1> QED BY <1>1, <1>2, <1>7

\* StopText keeps the client in tune, and leaves no open text.
LEMMA TextStopped ==
  ASSUME NEW v, NEW p, InTune(p, v)
  PROVE  /\ InTune(StopText(p), v) /\ Same(p.m, StopText(p).m)
         /\ StopText(p).m.text = (IF p.m.text = "open" THEN "closed" ELSE p.m.text)
         /\ StopText(p).m.tools = p.m.tools /\ StopText(p).m.stopped = p.m.stopped
<1> DEFINE m == p.m
           n == [m EXCEPT !.text = "closed"]
           e == Event("content_block_stop", 0, Text)
<1>1. m \in Translators /\ Agree(m, Shown(v, p.out))
  BY TuneTyped
<1>2. CASE m.text # "open"
  BY <1>2 DEF StopText, Same
<1>3. CASE m.text = "open"
  <2>1. StopText(p) = Emit(p, n, e)
    BY <1>3 DEF StopText
  <2>2. e \in Events
    <3>1. "content_block_stop" \in EventTypes /\ 0 \in Blocks /\ Text \in Sources
      BY BlocksAre DEF EventTypes, Sources
    <3> QED BY <3>1, EventIs
  <2>3. \A w : Saw(w, Shown(v, p.out), e) => Agree(n, w)
    BY <1>1, <1>3, TextStops
  <2>4. Same(m, n) /\ n.text = "closed" /\ n.tools = m.tools /\ n.stopped = m.stopped
    <3> HIDE DEF m
    <3> QED BY <1>1 DEF Translators, Same
  <2> HIDE DEF n, e
  <2>5. InTune(Emit(p, n, e), v) /\ Emit(p, n, e).m = n
    BY <2>2, <2>3, EmitTunes
  <2> QED BY <1>3, <2>1, <2>4, <2>5
<1> QED BY <1>2, <1>3

\* The tool calls' blocks are stopped one after the other: the fold, from its definition.
StopOne(q, c) ==
  Emit(q, [q.m EXCEPT !.stopped = @ \cup {c}], Event("content_block_stop", q.m.tools[c], c))

StopOf(p, g, s) == IF s = {} THEN p ELSE StopOne(g[s \ {Picked(s)}], Picked(s))
IsStop(p, S, g) == g = [s \in SUBSET S |-> StopOf(p, g, s)]
StopsAll(p, S) == CHOOSE g : IsStop(p, S, g)
Live(m) == Tools(m.tools) \ m.stopped

\* The definition of StopTools in these terms.
LEMMA StopToolsIs == ASSUME NEW p PROVE StopTools(p) = StopsAll(p, Live(p.m))[Live(p.m)]
BY DEF StopTools, FoldSet, MapThenFoldSet, StopsAll, StopOf, StopOne, IsStop, Picked, Live, Tools

\* Translators that know the same blocks.
Alike(p) == {q \in Handled : q.m.tools = p.m.tools}

\* Stopping one tool call leaves every block where it is.
LEMMA StopOneAlike ==
  ASSUME NEW p, NEW q \in Alike(p), NEW c \in Tools(p.m.tools)
  PROVE  StopOne(q, c) \in Alike(p)
<1> DEFINE n == [q.m EXCEPT !.stopped = @ \cup {c}]
           e == Event("content_block_stop", q.m.tools[c], c)
<1>1. q \in Handled /\ q.m.tools = p.m.tools /\ q.m \in Translators /\ c \in ToolCalls
      /\ q.m.tools[c] # NoBlock
  BY DEF Alike, Handled, Tools
<1>2. n \in Translators /\ n.tools = q.m.tools
  BY <1>1 DEF Translators
<1>3. q.m.tools[c] \in Blocks
  BY <1>1 DEF Translators
<1>4. e \in Events
  <2>1. "content_block_stop" \in EventTypes /\ c \in Sources
    BY <1>1 DEF EventTypes, Sources
  <2> QED BY <1>3, <2>1, EventIs
<1>5. q.out \in Seq(Events)
  BY <1>1 DEF Handled
<1>6. Append(q.out, e) \in Seq(Events)
  BY <1>4, <1>5, AppendProperties
<1>7. StopOne(q, c) = [m |-> n, out |-> Append(q.out, e)]
  BY DEF StopOne, Emit
<1> HIDE DEF n, e
<1> QED BY <1>1, <1>2, <1>6, <1>7 DEF Alike, Handled

\* There is such a function of the tool calls stopped so far.
LEMMA StopExists ==
  ASSUME NEW p \in Handled, NEW S \in SUBSET Tools(p.m.tools)
  PROVE  IsFiniteSet(S) /\ IsStop(p, S, StopsAll(p, S))
<1> DEFINE V == Alike(p)
           st == [c \in S |-> [q \in V |-> StopOne(q, c)]]
           pick == [s \in SUBSET S |-> Picked(s)]
<1>1. IsFiniteSet(S)
  <2>1. S \in SUBSET ToolCalls
    BY DEF Tools
  <2> QED BY <2>1, BlocksAre
<1>2. \A s \in SUBSET S : s # {} => pick[s] = Picked(s) /\ Picked(s) \in s
  BY DEF Picked
<1>3. Picks(pick, S)
  BY <1>2 DEF Picks
<1>4. KeepsTo(st, S, V)
  BY StopOneAlike DEF KeepsTo
<1>5. p \in V
  BY DEF Alike
<1>6. \E g \in [SUBSET S -> V] : IsFold(st, p, pick, S, g)
  <2> HIDE DEF st, pick, V
  <2> QED BY <1>1, <1>3, <1>4, <1>5, FoldIn
<1>7. PICK g \in [SUBSET S -> V] : IsFold(st, p, pick, S, g)
  BY <1>6
<1>8. ASSUME NEW s \in SUBSET S PROVE g[s] = StopOf(p, g, s)
  <2>1. g[s] = FoldOf(st, p, pick, g, s)
    BY <1>7 DEF IsFold
  <2>2. CASE s = {}
    BY <2>1, <2>2 DEF FoldOf, StopOf
  <2>3. CASE s # {}
    <3>1. pick[s] = Picked(s) /\ Picked(s) \in S /\ s \ {Picked(s)} \in SUBSET S
      BY <1>2, <2>3
    <3>2. g[s \ {Picked(s)}] \in V
      BY <1>7, <3>1
    <3>3. st[Picked(s)][g[s \ {Picked(s)}]] = StopOne(g[s \ {Picked(s)}], Picked(s))
      BY <3>1, <3>2
    <3> HIDE DEF st, pick
    <3> QED BY <2>1, <2>3, <3>1, <3>3 DEF FoldOf, StopOf
  <2> QED BY <2>2, <2>3
<1>9. IsStop(p, S, g)
  BY <1>7, <1>8 DEF IsStop
<1> QED BY <1>1, <1>9 DEF StopsAll

\* What a fold of stops has done.
HasStopped(v, p, q, s) ==
  /\ InTune(q, v) /\ Same(p.m, q.m) /\ q.m.text = p.m.text /\ q.m.tools = p.m.tools
  /\ q.m.stopped = p.m.stopped \cup s

\* Stopping one more tool call keeps the client in tune.
LEMMA OneStopped ==
  ASSUME NEW v, NEW p, NEW q, NEW s, HasStopped(v, p, q, s), NEW c \in Live(p.m), c \notin s
  PROVE  HasStopped(v, p, StopOne(q, c), s \cup {c})
<1> DEFINE m == q.m
           n == [m EXCEPT !.stopped = @ \cup {c}]
           e == Event("content_block_stop", m.tools[c], c)
<1>1. /\ InTune(q, v) /\ Same(p.m, m) /\ m.text = p.m.text /\ m.tools = p.m.tools
      /\ m.stopped = p.m.stopped \cup s
  BY DEF HasStopped
<1>2. m \in Translators /\ Agree(m, Shown(v, q.out))
  BY <1>1, TuneTyped
<1>3. c \in Tools(m.tools) /\ c \notin m.stopped /\ c \in ToolCalls /\ m.tools[c] \in Blocks
  <2>1. c \in Tools(m.tools) /\ c \notin m.stopped
    BY <1>1 DEF Live
  <2>2. m.tools \in [ToolCalls -> Blocks \cup {NoBlock}]
    BY <1>1, TuneTyped
  <2> QED BY <2>1, <2>2 DEF Tools
<1>4. e \in Events
  <2>1. "content_block_stop" \in EventTypes /\ c \in Sources
    BY <1>3 DEF EventTypes, Sources
  <2> QED BY <1>3, <2>1, EventIs
<1>5. \A w : Saw(w, Shown(v, q.out), e) => Agree(n, w)
  <2> HIDE DEF m
  <2> QED BY <1>2, <1>3, ToolStops DEF m
<1>6. Same(m, n) /\ n.text = m.text /\ n.tools = m.tools /\ n.stopped = m.stopped \cup {c}
  <2> HIDE DEF m
  <2> QED BY <1>2 DEF Translators, Same
<1>7. StopOne(q, c) = Emit(q, n, e)
  BY DEF StopOne
<1> HIDE DEF n, e
<1>8. InTune(Emit(q, n, e), v) /\ Emit(q, n, e).m = n
  BY <1>1, <1>4, <1>5, EmitTunes
<1>9. Same(p.m, n) /\ n.text = p.m.text /\ n.tools = p.m.tools
      /\ n.stopped = p.m.stopped \cup (s \cup {c})
  BY <1>1, <1>6 DEF Same
<1> QED BY <1>7, <1>8, <1>9 DEF HasStopped

\* StopTools keeps the client in tune, and leaves no open block of a tool call.
LEMMA ToolsStopped ==
  ASSUME NEW v, NEW p, InTune(p, v)
  PROVE  /\ InTune(StopTools(p), v) /\ Same(p.m, StopTools(p).m)
         /\ StopTools(p).m.text = p.m.text /\ StopTools(p).m.tools = p.m.tools
         /\ Tools(p.m.tools) \subseteq StopTools(p).m.stopped
         /\ Tools(p.m.tools) = {} => StopTools(p).m.stopped = p.m.stopped
<1> DEFINE S == Live(p.m)
           g == StopsAll(p, S)
           pick == [s \in SUBSET S |-> Picked(s)]
           B == {s \in SUBSET S : HasStopped(v, p, g[s], s)}
<1>1. p \in Handled /\ S \in SUBSET Tools(p.m.tools) /\ p.m.stopped \in SUBSET ToolCalls
  BY TuneTyped DEF Live
<1>2. IsFiniteSet(S) /\ IsStop(p, S, g)
  <2> HIDE DEF S
  <2> QED BY <1>1, StopExists
<1> HIDE DEF g
<1>3. g = [s \in SUBSET S |-> StopOf(p, g, s)]
  BY <1>2 DEF IsStop
<1> HIDE DEF S
<1>4. \A s \in SUBSET S : g[s] = StopOf(p, g, s)
  BY <1>3
<1>5. \A s \in SUBSET S : s # {} => pick[s] = Picked(s) /\ Picked(s) \in s
  BY DEF Picked
<1>6. {} \in B
  <2>1. g[{}] = p
    BY <1>4 DEF StopOf
  <2>2. HasStopped(v, p, p, {})
    BY DEF HasStopped, Same
  <2> QED BY <2>1, <2>2
<1>7. ASSUME NEW s \in SUBSET S, s # {}, s \ {pick[s]} \in B PROVE s \in B
  <2> DEFINE c == Picked(s)
             t == s \ {c}
  <2>1. pick[s] = c /\ c \in s
    BY <1>5, <1>7
  <2>2. HasStopped(v, p, g[t], t)
    BY <1>7, <2>1
  <2>3. g[s] = StopOne(g[t], c)
    BY <1>4, <1>7 DEF StopOf
  <2>4. c \in Live(p.m) /\ c \notin t /\ s = t \cup {c}
    BY <2>1 DEF S
  <2> HIDE DEF c, t
  <2>5. HasStopped(v, p, StopOne(g[t], c), t \cup {c})
    BY <2>2, <2>4, OneStopped
  <2> QED BY <2>3, <2>4, <2>5
<1>8. B = SUBSET S
  <2>1. B \in SUBSET SUBSET S
    OBVIOUS
  <2>2. Picks(pick, S)
    BY <1>5 DEF Picks
  <2>3. GrowsBy(pick, S, B)
    BY <1>6, <1>7 DEF GrowsBy
  <2> HIDE DEF B, pick
  <2> QED BY <1>2, <2>1, <2>2, <2>3, SubsetInduction
<1>9. HasStopped(v, p, g[S], S)
  BY <1>8
<1>10. StopTools(p) = g[S]
  BY StopToolsIs DEF g, S
<1>11. Tools(p.m.tools) \subseteq p.m.stopped \cup S
  BY DEF S, Live
<1>12. Tools(p.m.tools) = {} => S = {}
  BY DEF S, Live
<1> HIDE DEF B
<1> QED BY <1>9, <1>10, <1>11, <1>12 DEF HasStopped

-----------------------------------------------------------------------------
\* Text that is held back, or no longer, changes nothing of what was said.
LEMMA HeldChanges ==
  ASSUME NEW v, NEW p, InTune(p, v), NEW b \in BOOLEAN
  PROVE  /\ InTune([p EXCEPT !.m.held = b], v)
         /\ [p EXCEPT !.m.held = b].m = [p.m EXCEPT !.held = b]
<1> DEFINE m == p.m
           n == [m EXCEPT !.held = b]
           q == [p EXCEPT !.m.held = b]
           w == Shown(v, p.out)
<1>1. m \in Translators /\ Agree(m, w) /\ p \in Handled /\ v \in Views
  BY TuneTyped
<1>2. q.m = n /\ q.out = p.out /\ q = [m |-> n, out |-> p.out]
  BY <1>1 DEF Handled
<1> HIDE DEF m, w
<1>3. /\ n \in Translators /\ n.started = m.started /\ n.text = m.text /\ n.next = m.next
      /\ n.tools = m.tools /\ n.stopped = m.stopped /\ n.ended = m.ended /\ n.error = m.error
  BY <1>1 DEF Translators
<1> HIDE DEF n
<1>4. PhaseOf(n) = PhaseOf(m)
  BY <1>3 DEF PhaseOf
<1>5. Agree(n, w)
  BY <1>1, <1>3, <1>4 DEF Agree
<1>6. q \in Handled
  BY <1>1, <1>2, <1>3 DEF Handled
<1> HIDE DEF q
<1> QED BY <1>1, <1>2, <1>5, <1>6 DEF InTune, q, n, m, w

\* Held text is text of a normalized stream that has no text block, and is out by the end unless
\* the upstream made a tool call.
HeldApart(m) ==
  /\ m.held => m.normalize /\ m.text = "none"
  /\ m.ended => ~m.held \/ Tools(m.tools) # {}
Blank(m) == m.text = "none" /\ ~m.held /\ Tools(m.tools) = {}
Underway(m) ==
  /\ ~m.error /\ ~m.ended /\ m.stopped = {} /\ m.text # "closed"
  /\ m.normalize => m.text = "none"
  /\ HeldApart(m)

\* The tool call that held text spells is one of the tool calls.
LEMMA FirstTool == Min(ToolCalls) \in ToolCalls
<1>1. ToolCalls \in SUBSET Nat /\ ToolCalls # {}
  BY StreamAssumption
<1>2. \E k \in ToolCalls : \A l \in ToolCalls : k <= l
  BY <1>1, LeastNatural
<1> QED BY <1>2 DEF Min

\* Flush keeps the client in tune: text is held only by a translator that normalises, which has
\* not opened a text block.
LEMMA Flushed ==
  ASSUME NEW v, NEW p, InTune(p, v), p.m.started, ~p.m.error, HeldApart(p.m),
         NEW promoted \in {"no", "tool", "both"}
  PROVE  LET q == Flush(p, promoted)
         IN /\ InTune(q, v) /\ q.m.started /\ q.m.ended = p.m.ended /\ ~q.m.error
            /\ q.m.normalize = p.m.normalize /\ HeldApart(q.m)
            /\ q.m.held => Tools(q.m.tools) # {}
            /\ Blank(p.m) => q = p
<1> DEFINE q == Flush(p, promoted)
<1>1. CASE ~p.m.held \/ Tools(p.m.tools) # {}
  <2>1. q = p
    BY <1>1 DEF Flush, Tools
  <2> HIDE DEF q
  <2> QED BY <1>1, <2>1 DEF q
<1>2. CASE p.m.held /\ Tools(p.m.tools) = {}
  <2> DEFINE r == [p EXCEPT !.m.held = FALSE]
             t == IF promoted = "tool" THEN r ELSE TextDelta(r)
             c == Min(ToolCalls)
  <2>1. p.m \in Translators /\ p.m.ended \in BOOLEAN
    BY TuneTyped
  <2>2. q = IF promoted = "no" THEN t ELSE ToolDelta(t, c)
    BY <1>2 DEF Flush, Tools
  <2>3. InTune(r, v) /\ r.m = [p.m EXCEPT !.held = FALSE]
    BY HeldChanges
  <2> HIDE DEF r
  <2>4. /\ r.m.started /\ ~r.m.ended /\ ~r.m.error /\ r.m.text = "none" /\ ~r.m.held
        /\ Tools(r.m.tools) = {} /\ r.m.normalize = p.m.normalize /\ ~p.m.ended
    BY <1>2, <2>1, <2>3 DEF HeldApart, Translators
  <2>5. r.m.stopped = {}
    BY <2>3, <2>4, TuneTyped
  <2>6. InTune(TextDelta(r), v) /\ Same(r.m, TextDelta(r).m) /\ TextDelta(r).m.stopped = r.m.stopped
    BY <2>3, <2>4, TextTold
  <2>7. InTune(t, v) /\ Same(r.m, t.m) /\ t.m.stopped = {}
    <3>1. CASE promoted = "tool"
      BY <2>3, <2>5, <3>1 DEF Same
    <3>2. CASE promoted # "tool"
      BY <2>5, <2>6, <3>2
    <3> QED BY <3>1, <3>2
  <2>8. t.m.started /\ ~t.m.ended /\ ~t.m.error /\ ~t.m.held /\ t.m.normalize = p.m.normalize
    BY <2>4, <2>7 DEF Same
  <2> HIDE DEF t
  <2>9. c \in ToolCalls /\ c \notin t.m.stopped
    BY <2>7, FirstTool
  <2> HIDE DEF c
  <2>10. InTune(ToolDelta(t, c), v) /\ Same(t.m, ToolDelta(t, c).m)
    BY <2>7, <2>8, <2>9, ToolTold
  <2>11. InTune(q, v) /\ Same(t.m, q.m)
    <3>1. CASE promoted = "no"
      BY <2>2, <2>7, <3>1 DEF Same
    <3>2. CASE promoted # "no"
      BY <2>2, <2>10, <3>2
    <3> QED BY <3>1, <3>2
  <2> HIDE DEF q
  <2>12. /\ q.m.started /\ ~q.m.ended /\ ~q.m.error /\ ~q.m.held /\ q.m.normalize = p.m.normalize
         /\ ~p.m.ended
    BY <2>4, <2>8, <2>11 DEF Same
  <2>13. q.m.ended = p.m.ended
    BY <2>1, <2>11, <2>12, TuneTyped
  <2>14. HeldApart(q.m) /\ ~Blank(p.m)
    BY <1>2, <2>12 DEF HeldApart, Blank
  <2> QED BY <2>11, <2>12, <2>13, <2>14 DEF q
<1> QED BY <1>1, <1>2

\* The end of the stream closes what is open and ends the message, unless it failed.
LEMMA Terminated ==
  ASSUME NEW v, NEW p, InTune(p, v), HeldApart(p.m), NEW promoted \in {"no", "tool", "both"}
  PROVE  LET q == Terminate(p, promoted)
         IN /\ InTune(q, v) /\ HeldApart(q.m) /\ q.m.error = p.m.error
            /\ q.m.error \/ q.m.ended
            /\ Blank(p.m) => Blank(q.m)
<1> DEFINE q == Terminate(p, promoted)
<1>1. CASE p.m.error
  <2>1. q = p
    BY <1>1 DEF Terminate
  <2> HIDE DEF q
  <2> QED BY <1>1, <2>1 DEF q
<1>2. CASE ~p.m.error
  <2> DEFINE s == StartMessage(p)
             f == Flush(s, promoted)
             t == StopText(f)
             u == StopTools(t)
             m == u.m
             n == [m EXCEPT !.ended = TRUE]
             d == Event("message_delta", 0, Text)
             e == Event("message_stop", 0, Text)
  <2>1. p.m \in Translators /\ InTune(s, v) /\ s.m = [p.m EXCEPT !.started = TRUE]
    BY <1>2, TuneTyped, MessageBegun
  <2>2. q = IF u.m.ended THEN u ELSE Emit(Emit(u, m, d), n, e)
    BY <1>2 DEF Terminate
  <2> HIDE DEF s
  <2>3. /\ s.m.started /\ s.m.error = p.m.error /\ s.m.ended = p.m.ended /\ s.m.held = p.m.held
        /\ s.m.text = p.m.text /\ s.m.tools = p.m.tools /\ s.m.normalize = p.m.normalize
    BY <2>1 DEF Translators
  <2>4. HeldApart(s.m) /\ (Blank(p.m) => Blank(s.m)) /\ ~s.m.error
    BY <1>2, <2>3 DEF HeldApart, Blank
  <2>5. /\ InTune(f, v) /\ f.m.started /\ ~f.m.error /\ HeldApart(f.m)
        /\ f.m.held => Tools(f.m.tools) # {}
        /\ Blank(p.m) => Blank(f.m)
    BY <2>1, <2>3, <2>4, Flushed
  <2> HIDE DEF f
  <2>6. /\ InTune(t, v) /\ Same(f.m, t.m) /\ t.m.tools = f.m.tools
        /\ t.m.text = (IF f.m.text = "open" THEN "closed" ELSE f.m.text)
    BY <2>5, TextStopped
  <2> HIDE DEF t
  <2>7. /\ InTune(u, v) /\ Same(t.m, m) /\ m.text = t.m.text /\ m.tools = t.m.tools
        /\ Tools(t.m.tools) \subseteq m.stopped
    BY <2>6, ToolsStopped
  <2> HIDE DEF u
  <2>8. /\ m.started /\ ~m.error /\ m.text # "open" /\ Tools(m.tools) \subseteq m.stopped
        /\ HeldApart(m) /\ (m.held => Tools(m.tools) # {}) /\ (Blank(p.m) => Blank(m))
    BY <2>5, <2>6, <2>7 DEF Same, HeldApart, Blank
  <2>9. m \in Translators /\ Agree(m, Shown(v, u.out)) /\ v \in Views /\ u \in Handled
        /\ m.error \in BOOLEAN /\ m.ended \in BOOLEAN
    BY <2>7, TuneTyped
  <2>10. CASE m.ended
    <3>1. q = u
      BY <2>2, <2>10
    <3>2. q.m.error = p.m.error
      BY <1>2, <2>8, <2>9, <3>1, TuneTyped
    <3> HIDE DEF q, m
    <3> QED BY <2>7, <2>8, <2>10, <3>1, <3>2 DEF q, m
  <2>11. CASE ~m.ended
    <3> DEFINE r == Emit(u, m, d)
               x == Emit(r, n, e)
    <3>1. d \in Events /\ e \in Events
      <4>1. /\ "message_delta" \in EventTypes /\ "message_stop" \in EventTypes
            /\ 0 \in Blocks /\ Text \in Sources
        BY BlocksAre DEF EventTypes, Sources
      <4> QED BY <4>1, EventIs
    <3>2. r \in Handled /\ Shown(v, r.out) = Sees(Shown(v, u.out), d)
      <4> HIDE DEF m, d
      <4> QED BY <2>9, <3>1, EmitIs
    <3>3. Agree(n, Sees(Sees(Shown(v, u.out), d), e))
      <4> DEFINE w == Sees(Sees(Shown(v, u.out), d), e)
      <4>1. Saw(w, Sees(Shown(v, u.out), d), e)
        BY DEF Saw
      <4> HIDE DEF m, w
      <4>2. Agree(n, w)
        BY <2>8, <2>9, <2>11, <4>1, MessageEnds
      <4> QED BY <4>2 DEF w
    <3>4. /\ n.error = m.error /\ n.ended = TRUE /\ n.text = m.text /\ n.tools = m.tools
          /\ n.held = m.held /\ n.normalize = m.normalize
      <4> HIDE DEF m
      <4> QED BY <2>9 DEF Translators
    <3>5. q = x
      BY <2>2, <2>11
    <3> HIDE DEF m, n, r, d, e, q
    <3>6. x \in Handled /\ x.m = n /\ Shown(v, x.out) = Sees(Shown(v, r.out), e)
      <4>1. n \in Translators
        BY <3>3 DEF Agree
      <4> QED BY <2>9, <3>1, <3>2, <4>1, EmitIs
    <3> HIDE DEF x
    <3>7. InTune(x, v)
      BY <2>9, <3>2, <3>3, <3>6 DEF InTune
    <3>8. HeldApart(n) /\ (Blank(p.m) => Blank(n)) /\ ~n.error /\ n.ended
      BY <2>8, <3>4 DEF HeldApart, Blank
    <3>9. n.error = p.m.error
      BY <1>2, <2>8, <2>9, <3>4, TuneTyped
    <3> QED BY <3>5, <3>6, <3>7, <3>8, <3>9 DEF q
  <2> QED BY <2>10, <2>11
<1> QED BY <1>1, <1>2


(*******************************************************************************)
(* A chunk, the end and an error keep it, and so does every step of the stream.*)
(*******************************************************************************)

Chunks == [choice : BOOLEAN, text : BOOLEAN, call : ToolCalls \cup {NoBlock}, arguments : BOOLEAN,
           finish : {"none", "stop", "tool_calls", "length"}, usage : BOOLEAN, error : BOOLEAN]

\* The two halves of a chunk with a choice: its text and its tool call.
Texting(p, chunk) ==
  IF ~chunk.text THEN StartMessage(p)
  ELSE IF p.m.normalize THEN [StartMessage(p) EXCEPT !.m.held = TRUE]
  ELSE TextDelta(StartMessage(p))
Tooling(p, chunk) ==
  IF chunk.call = NoBlock THEN p
  ELSE IF chunk.arguments THEN ToolDelta(p, chunk.call) ELSE StartTool(p, chunk.call)

\* The text of a chunk keeps the client in tune, shown or held back.
LEMMA ChunkTexted ==
  ASSUME NEW v, NEW p, InTune(p, v), Underway(p.m), NEW chunk \in Chunks,
         chunk.text => Tools(p.m.tools) = {}
  PROVE  LET q == Texting(p, chunk)
         IN /\ InTune(q, v) /\ q.m.started /\ Underway(q.m) /\ q.m.normalize = p.m.normalize
            /\ q.m.tools = p.m.tools
            /\ ~chunk.text /\ Blank(p.m) => Blank(q.m)
<1> DEFINE s == StartMessage(p)
           q == Texting(p, chunk)
<1>1. p.m \in Translators /\ InTune(s, v) /\ s.m = [p.m EXCEPT !.started = TRUE]
  BY TuneTyped, MessageBegun DEF Underway
<1>2. /\ ~chunk.text => q = s
      /\ chunk.text /\ p.m.normalize => q = [s EXCEPT !.m.held = TRUE]
      /\ chunk.text /\ ~p.m.normalize => q = TextDelta(s)
  BY DEF Texting
<1> HIDE DEF s, q
<1>3. /\ s.m.started /\ s.m.error = p.m.error /\ s.m.ended = p.m.ended /\ s.m.held = p.m.held
      /\ s.m.text = p.m.text /\ s.m.tools = p.m.tools /\ s.m.normalize = p.m.normalize
      /\ s.m.stopped = p.m.stopped
  BY <1>1 DEF Translators
<1>4. Underway(s.m) /\ (Blank(p.m) => Blank(s.m))
  BY <1>3 DEF Underway, HeldApart, Blank
<1>5. CASE ~chunk.text
  <2>1. q = s
    BY <1>2, <1>5
  <2> HIDE DEF q
  <2>2. /\ InTune(q, v) /\ q.m.started /\ Underway(q.m) /\ q.m.normalize = p.m.normalize
        /\ q.m.tools = p.m.tools
    BY <1>1, <1>3, <1>4, <2>1
  <2>3. ~chunk.text /\ Blank(p.m) => Blank(q.m)
    BY <1>4, <2>1
  <2> QED BY <2>2, <2>3 DEF q
<1>6. CASE chunk.text /\ p.m.normalize
  <2>1. InTune(q, v) /\ q.m = [s.m EXCEPT !.held = TRUE]
    <3>1. q = [s EXCEPT !.m.held = TRUE]
      BY <1>2, <1>6
    <3>2. InTune([s EXCEPT !.m.held = TRUE], v) /\ [s EXCEPT !.m.held = TRUE].m = [s.m EXCEPT !.held = TRUE]
      BY <1>1, HeldChanges
    <3> QED BY <3>1, <3>2
  <2>2. s.m \in Translators
    BY <1>1, TuneTyped
  <2>3. /\ q.m.started = s.m.started /\ q.m.error = s.m.error /\ q.m.ended = s.m.ended /\ q.m.held
        /\ q.m.text = s.m.text /\ q.m.tools = s.m.tools /\ q.m.normalize = s.m.normalize
        /\ q.m.stopped = s.m.stopped
    BY <2>1, <2>2 DEF Translators
  <2>4. Underway(q.m)
    BY <1>3, <1>4, <1>6, <2>3 DEF Underway, HeldApart
  <2> QED BY <1>3, <1>6, <2>1, <2>3, <2>4 DEF q
<1>7. CASE chunk.text /\ ~p.m.normalize
  <2>1. /\ s.m.text # "closed" /\ ~s.m.ended /\ ~s.m.error /\ s.m.stopped = {}
        /\ Tools(s.m.tools) = {} /\ ~s.m.held
    BY <1>3, <1>4, <1>7 DEF Underway, HeldApart
  <2>2. /\ InTune(q, v) /\ Same(s.m, q.m) /\ q.m.text = "open"
        /\ q.m.tools = s.m.tools /\ q.m.stopped = s.m.stopped
    <3>1. q = TextDelta(s)
      BY <1>2, <1>7
    <3>2. s.m.text = "none" => Tools(s.m.tools) = {}
      BY <2>1
    <3>3. /\ InTune(TextDelta(s), v) /\ Same(s.m, TextDelta(s).m) /\ TextDelta(s).m.text = "open"
          /\ TextDelta(s).m.tools = s.m.tools /\ TextDelta(s).m.stopped = s.m.stopped
      BY <1>1, <1>3, <2>1, <3>2, TextTold
    <3> HIDE DEF q
    <3> QED BY <3>1, <3>3
  <2>3. /\ q.m.started /\ ~q.m.ended /\ ~q.m.error /\ ~q.m.held /\ q.m.normalize = p.m.normalize
        /\ ~q.m.normalize
    BY <1>3, <1>7, <2>1, <2>2 DEF Same
  <2>4. Underway(q.m)
    BY <2>1, <2>2, <2>3 DEF Underway, HeldApart
  <2> QED BY <1>3, <1>7, <2>2, <2>3, <2>4 DEF q
<1> QED BY <1>5, <1>6, <1>7

\* The tool call of a chunk keeps the client in tune.
LEMMA ChunkTooled ==
  ASSUME NEW v, NEW p, InTune(p, v), p.m.started, Underway(p.m), NEW chunk \in Chunks
  PROVE  LET q == Tooling(p, chunk)
         IN /\ InTune(q, v) /\ Underway(q.m) /\ q.m.normalize = p.m.normalize
            /\ chunk.call = NoBlock => q = p
<1> DEFINE c == chunk.call
           q == Tooling(p, chunk)
<1>1. CASE c = NoBlock
  <2>1. q = p
    BY <1>1 DEF Tooling
  <2> HIDE DEF q
  <2> QED BY <1>1, <2>1 DEF q
<1>2. CASE c # NoBlock
  <2>1. c \in ToolCalls
    BY <1>2 DEF Chunks
  <2>2. ~p.m.ended /\ ~p.m.error /\ c \notin p.m.stopped
    BY DEF Underway
  <2> HIDE DEF c
  <2>3. /\ InTune(ToolDelta(p, c), v) /\ Same(p.m, ToolDelta(p, c).m)
        /\ ToolDelta(p, c).m.text = p.m.text /\ ToolDelta(p, c).m.stopped = p.m.stopped
        /\ Tools(ToolDelta(p, c).m.tools) = Tools(p.m.tools) \cup {c}
    BY <2>1, <2>2, ToolTold
  <2>4. /\ InTune(StartTool(p, c), v) /\ Same(p.m, StartTool(p, c).m)
        /\ StartTool(p, c).m.text = p.m.text /\ StartTool(p, c).m.stopped = p.m.stopped
        /\ Tools(StartTool(p, c).m.tools) = Tools(p.m.tools) \cup {c}
    BY <2>1, <2>2, ToolStarted
  <2>5. q = IF chunk.arguments THEN ToolDelta(p, c) ELSE StartTool(p, c)
    BY <1>2 DEF Tooling, c
  <2> HIDE DEF q
  <2>6. /\ InTune(q, v) /\ Same(p.m, q.m) /\ q.m.text = p.m.text /\ q.m.stopped = p.m.stopped
        /\ Tools(q.m.tools) = Tools(p.m.tools) \cup {c}
    BY <2>3, <2>4, <2>5
  <2>7. Underway(q.m) /\ q.m.normalize = p.m.normalize
    BY <2>2, <2>6 DEF Underway, HeldApart, Same
  <2> QED BY <1>2, <2>6, <2>7 DEF q, c
<1> QED BY <1>1, <1>2

\* A chunk with a choice; its finish reason may close the blocks.
LEMMA ChunkTranslated ==
  ASSUME NEW v, NEW p, InTune(p, v), Underway(p.m), NEW chunk \in Chunks,
         chunk.choice, ~chunk.error, chunk.text => Tools(p.m.tools) = {}
  PROVE  LET q == Translate(p, chunk)
         IN /\ InTune(q, v) /\ ~q.m.error /\ ~q.m.ended /\ HeldApart(q.m)
            /\ q.m.normalize = p.m.normalize
            /\ chunk.finish = "none" => Underway(q.m)
            /\ chunk.call = NoBlock => q.m.tools = p.m.tools
            /\ ~chunk.text /\ chunk.call = NoBlock /\ Blank(p.m) => Blank(q.m)
<1> DEFINE t == Texting(p, chunk)
           u == Tooling(t, chunk)
           x == StopText(u)
           y == StopTools(x)
           q == Translate(p, chunk)
<1>1. q = IF chunk.finish \in {"tool_calls", "stop"} THEN y ELSE u
  BY DEF Translate, Texting, Tooling
<1>2. /\ InTune(t, v) /\ t.m.started /\ Underway(t.m) /\ t.m.normalize = p.m.normalize
      /\ t.m.tools = p.m.tools
      /\ ~chunk.text /\ Blank(p.m) => Blank(t.m)
  BY ChunkTexted
<1> HIDE DEF t
<1>3. /\ InTune(u, v) /\ Underway(u.m) /\ u.m.normalize = t.m.normalize
      /\ chunk.call = NoBlock => u = t
  BY <1>2, ChunkTooled
<1> HIDE DEF u
<1>4. /\ ~u.m.error /\ ~u.m.ended /\ HeldApart(u.m)
      /\ u.m.normalize = p.m.normalize
      /\ chunk.call = NoBlock => u.m.tools = p.m.tools
      /\ ~chunk.text /\ chunk.call = NoBlock /\ Blank(p.m) => Blank(u.m)
  BY <1>2, <1>3 DEF Underway
<1>5. CASE chunk.finish \notin {"tool_calls", "stop"}
  <2>1. q = u
    BY <1>1, <1>5
  <2> HIDE DEF q
  <2> QED BY <1>3, <1>4, <2>1 DEF q
<1>6. CASE chunk.finish \in {"tool_calls", "stop"}
  <2>1. /\ InTune(x, v) /\ Same(u.m, x.m) /\ x.m.tools = u.m.tools
        /\ x.m.text = (IF u.m.text = "open" THEN "closed" ELSE u.m.text)
    BY <1>3, TextStopped
  <2> HIDE DEF x
  <2>2. /\ InTune(y, v) /\ Same(x.m, y.m) /\ y.m.text = x.m.text /\ y.m.tools = x.m.tools
    BY <2>1, ToolsStopped
  <2>3. q = y
    BY <1>1, <1>6
  <2> HIDE DEF y, q
  <2>4. /\ ~q.m.error /\ ~q.m.ended /\ HeldApart(q.m) /\ q.m.normalize = p.m.normalize
        /\ q.m.tools = u.m.tools /\ (Blank(u.m) => Blank(q.m))
    BY <1>4, <2>1, <2>2, <2>3 DEF Same, HeldApart, Blank
  <2> QED BY <1>4, <1>6, <2>2, <2>3, <2>4 DEF q
<1> QED BY <1>5, <1>6

\* A chunk without one: an error, or nothing.
LEMMA ChunkFailed ==
  ASSUME NEW v, NEW p, InTune(p, v), Underway(p.m), NEW chunk \in Chunks, chunk.error
  PROVE  LET q == Translate(p, chunk)
         IN InTune(q, v) /\ q.m = [p.m EXCEPT !.error = TRUE]
<1> DEFINE m == p.m
           n == [m EXCEPT !.error = TRUE]
           e == Event("error", 0, Text)
<1>1. Translate(p, chunk) = Emit(p, n, e)
  BY DEF Translate
<1>2. Agree(m, Shown(v, p.out)) /\ ~m.ended
  BY TuneTyped DEF Underway
<1>3. e \in Events
  <2>1. "error" \in EventTypes /\ 0 \in Blocks /\ Text \in Sources
    BY BlocksAre DEF EventTypes, Sources
  <2> QED BY <2>1, EventIs
<1>4. \A w : Saw(w, Shown(v, p.out), e) => Agree(n, w)
  BY <1>2, MessageFails
<1> HIDE DEF n, e
<1>5. InTune(Emit(p, n, e), v) /\ Emit(p, n, e).m = n
  BY <1>3, <1>4, EmitTunes
<1> QED BY <1>1, <1>5 DEF n

Captures == [truncated : BOOLEAN, text : BOOLEAN, tools : SUBSET ToolCalls,
             usage : BOOLEAN, error : BOOLEAN]

\* Nothing was captured that would be shown, and it would have been captured.
CapturedNothing(record) ==
  (~record.truncated \/ record.usage) /\ ~record.text /\ record.tools = {}

\* The translators, their clients and the record of one stream, as far as the upstream is.
StreamInv ==
  /\ upstream \in {"text", "tools", "finished", "failed", "done", "closed", "cut"}
  /\ Agree(anthropic, client) /\ HeldApart(anthropic)
  /\ SoFar(responses, reader)
  /\ capture \in Captures
  /\ upstream \in {"text", "tools"} => Underway(anthropic) /\ ~capture.usage
  /\ upstream \in {"text", "tools", "finished"} => "completed" \notin responses
  /\ upstream = "text" => Tools(anthropic.tools) = {}
  /\ upstream = "closed" => (anthropic.error \/ anthropic.ended) /\ "completed" \in responses
  /\ CapturedNothing(capture) => Blank(anthropic)

\* A stream starts with its clients in tune.
LEMMA StreamStart == StreamInit => StreamInv
<1> SUFFICES ASSUME StreamInit PROVE StreamInv
  OBVIOUS
<1>1. /\ anthropic.started = FALSE /\ anthropic.text = "none" /\ anthropic.next = 0
      /\ anthropic.tools = [c \in ToolCalls |-> NoBlock] /\ anthropic.stopped = {}
      /\ anthropic.ended = FALSE /\ anthropic.error = FALSE /\ anthropic.held = FALSE
      /\ anthropic.normalize \in BOOLEAN
  BY DEF StreamInit
<1>2. anthropic \in Translators
  <2>1. anthropic.tools \in [ToolCalls -> Blocks \cup {NoBlock}]
    BY <1>1
  <2>2. /\ anthropic.text \in {"none", "open", "closed"} /\ anthropic.next \in Nat
        /\ anthropic.stopped \in SUBSET ToolCalls
    BY <1>1
  <2>4. /\ anthropic.started \in BOOLEAN /\ anthropic.ended \in BOOLEAN
        /\ anthropic.error \in BOOLEAN /\ anthropic.held \in BOOLEAN
        /\ anthropic.normalize \in BOOLEAN
    BY <1>1, Zenon
  <2>3. anthropic = [started |-> anthropic.started, text |-> anthropic.text,
                     next |-> anthropic.next, tools |-> anthropic.tools,
                     stopped |-> anthropic.stopped, ended |-> anthropic.ended,
                     error |-> anthropic.error, held |-> anthropic.held,
                     normalize |-> anthropic.normalize]
    BY DEF StreamInit
  <2> QED BY <2>1, <2>2, <2>3, <2>4, Zenon DEF Translators
<1>3. Tools(anthropic.tools) = {}
  BY <1>1 DEF Tools
<1> DEFINE blocks == [b \in Blocks |-> [source |-> NoBlock, open |-> FALSE]]
<1>4. client = View("before", blocks) /\ "before" \in Phases
  BY DEF StreamInit, View, Phases
<1>5. blocks \in BlockViews /\ \A b \in Blocks : blocks[b].source = NoBlock /\ ~blocks[b].open
  BY DEF BlockViews
<1> HIDE DEF blocks
<1>6. client \in Views /\ client.phase = "before" /\ client.broken = FALSE /\ client.blocks = blocks
  BY <1>4, <1>5, ViewIs
<1>7. Match(anthropic.text, anthropic.next, anthropic.tools, anthropic.stopped, client.blocks)
  <2>1. anthropic.next = Cardinality(Tools(anthropic.tools)) + Textual(anthropic.text)
    <3>1. Cardinality({}) = 0
      BY FS_EmptySet
    <3> QED BY <1>1, <1>3, <3>1 DEF Textual
  <2> QED BY <1>1, <1>3, <1>5, <1>6, <2>1 DEF Match
<1>8. PhaseOf(anthropic) = "before"
  BY <1>1 DEF PhaseOf
<1>9. Agree(anthropic, client)
  BY <1>1, <1>2, <1>3, <1>6, <1>7, <1>8 DEF Agree
<1>10. HeldApart(anthropic) /\ Underway(anthropic) /\ Blank(anthropic)
  BY <1>1, <1>3 DEF HeldApart, Underway, Blank
<1>11. SoFar(responses, reader)
  BY DEF StreamInit, SoFar, Up
<1>12. capture \in Captures /\ ~capture.usage
  BY DEF StreamInit, Captures
<1>13. upstream = "text" /\ "completed" \notin responses
  BY DEF StreamInit
<1> QED BY <1>3, <1>9, <1>10, <1>11, <1>12, <1>13 DEF StreamInv

-----------------------------------------------------------------------------
\* The translator at rest, before a chunk.
LEMMA AtRest == ASSUME StreamInv PROVE InTune(Nothing, client) /\ Nothing.m = anthropic
<1>1. Agree(anthropic, client)
  BY DEF StreamInv
<1>2. anthropic \in Translators /\ client \in Views
  BY <1>1 DEF Agree
<1>3. <<>> \in Seq(Events)
  BY EmptySeq
<1>4. Nothing \in Handled /\ Nothing.m = anthropic /\ Nothing.out = <<>>
  BY <1>2, <1>3 DEF Nothing, Handled
<1>5. Shown(client, <<>>) = client
  BY <1>2, <1>3, ShownMore
<1> QED BY <1>1, <1>2, <1>4, <1>5 DEF InTune

\* What is delivered is what the client sees.
LEMMA DeliveredTunes ==
  ASSUME NEW q, InTune(q, client), Delivered(q)
  PROVE  Agree(anthropic', client') /\ anthropic' = q.m
<1>1. Agree(q.m, Shown(client, q.out))
  BY DEF InTune
<1>2. anthropic' = q.m /\ client' = Shown(client, q.out)
  BY DEF Delivered, Shown
<1> QED BY <1>1, <1>2

\* What is captured of a chunk.
LEMMA CaptureKeeps ==
  ASSUME capture \in Captures, NEW chunk \in Chunks,
         capture' \in IF capture.truncated THEN {capture} ELSE Captured(chunk)
  PROVE  /\ capture' \in Captures
         /\ capture'.usage => capture.usage \/ chunk.usage
         /\ CapturedNothing(capture') => CapturedNothing(capture)
         /\ CapturedNothing(capture') /\ ~capture'.usage => ~chunk.text /\ chunk.call = NoBlock
<1> DEFINE new == [text |-> capture.text \/ chunk.text, usage |-> capture.usage \/ chunk.usage,
                   tools |-> capture.tools \union ({chunk.call} \ {NoBlock}), truncated |-> FALSE,
                   error |-> capture.error \/ chunk.error]
           cut == [capture EXCEPT !.truncated = TRUE]
<1>1. \/ capture.truncated /\ capture' = capture
      \/ ~capture.truncated /\ capture' = new
      \/ ~capture.truncated /\ capture' = cut
  BY DEF Captured
<1>2. /\ capture.truncated \in BOOLEAN /\ capture.text \in BOOLEAN /\ capture.usage \in BOOLEAN
      /\ capture.error \in BOOLEAN /\ capture.tools \in SUBSET ToolCalls
      /\ chunk.text \in BOOLEAN /\ chunk.usage \in BOOLEAN /\ chunk.error \in BOOLEAN
      /\ chunk.call \in ToolCalls \cup {NoBlock}
  BY DEF Captures, Chunks
<1>3. CASE capture.truncated /\ capture' = capture
  BY <1>2, <1>3 DEF CapturedNothing
<1>4. CASE ~capture.truncated /\ capture' = new
  <2>1. /\ new.text = (capture.text \/ chunk.text) /\ new.usage = (capture.usage \/ chunk.usage)
        /\ new.tools = capture.tools \union ({chunk.call} \ {NoBlock}) /\ new.truncated = FALSE
        /\ new.error = (capture.error \/ chunk.error)
    OBVIOUS
  <2>2. new.tools \in SUBSET ToolCalls /\ (new.tools = {} => capture.tools = {} /\ chunk.call = NoBlock)
    BY <1>2, <2>1
  <2>3. new \in Captures
    BY <1>2, <2>2 DEF Captures
  <2> HIDE DEF new
  <2> QED BY <1>2, <1>4, <2>1, <2>2, <2>3 DEF CapturedNothing
<1>5. CASE ~capture.truncated /\ capture' = cut
  <2>1. /\ cut \in Captures /\ cut.truncated = TRUE /\ cut.text = capture.text
        /\ cut.usage = capture.usage /\ cut.tools = capture.tools
    BY DEF Captures
  <2> HIDE DEF cut
  <2> QED BY <1>2, <1>5, <2>1 DEF CapturedNothing
<1> QED BY <1>1, <1>3, <1>4, <1>5

\* What the Responses reader makes of a chunk.
LEMMA ReaderKeeps ==
  ASSUME StreamInv, upstream \in {"text", "tools", "finished"}, NEW chunk,
         IF chunk.text THEN Respond({"created", "item", "part"}, RespondText)
         ELSE UNCHANGED <<responses, reader>>
  PROVE  SoFar(responses', reader') /\ "completed" \notin responses'
<1>1. SoFar(responses, reader) /\ "completed" \notin responses
  BY DEF StreamInv
<1>2. CASE chunk.text
  BY <1>1, <1>2, TextInOrder
<1>3. CASE ~chunk.text
  BY <1>1, <1>3
<1> QED BY <1>2, <1>3

-----------------------------------------------------------------------------
\* A chunk with a choice, while the stream is under way.
LEMMA ChoiceFed ==
  ASSUME StreamInv, upstream \in {"text", "tools"}, NEW chunk \in Chunks,
         chunk.choice, ~chunk.error, ~chunk.usage, chunk.text => upstream = "text",
         NEW next \in {"text", "tools", "finished"}, next # "finished" => chunk.finish = "none",
         next = "text" => upstream = "text" /\ chunk.call = NoBlock,
         FeedChunk(chunk, next)
  PROVE  StreamInv'
<1> DEFINE q == Translate(Nothing, chunk)
<1>1. /\ upstream' = next /\ Delivered(q)
      /\ capture' \in IF capture.truncated THEN {capture} ELSE Captured(chunk)
      /\ IF chunk.text THEN Respond({"created", "item", "part"}, RespondText)
         ELSE UNCHANGED <<responses, reader>>
  BY DEF FeedChunk
<1>2. InTune(Nothing, client) /\ Nothing.m = anthropic
  BY AtRest
<1>3. /\ Underway(anthropic) /\ capture \in Captures /\ ~capture.usage
      /\ upstream = "text" => Tools(anthropic.tools) = {}
      /\ CapturedNothing(capture) => Blank(anthropic)
  BY DEF StreamInv
<1>4. /\ InTune(q, client) /\ ~q.m.error /\ ~q.m.ended /\ HeldApart(q.m)
      /\ chunk.finish = "none" => Underway(q.m)
      /\ chunk.call = NoBlock => q.m.tools = anthropic.tools
      /\ ~chunk.text /\ chunk.call = NoBlock /\ Blank(anthropic) => Blank(q.m)
  BY <1>2, <1>3, ChunkTranslated
<1> HIDE DEF q
<1>5. Agree(anthropic', client') /\ anthropic' = q.m
  BY <1>1, <1>4, DeliveredTunes
<1>6. /\ capture' \in Captures /\ ~capture'.usage
      /\ CapturedNothing(capture') => CapturedNothing(capture)
      /\ CapturedNothing(capture') => ~chunk.text /\ chunk.call = NoBlock
  BY <1>1, <1>3, CaptureKeeps
<1>7. SoFar(responses', reader') /\ "completed" \notin responses'
  BY <1>1, ReaderKeeps
<1>8. CapturedNothing(capture') => Blank(anthropic')
  BY <1>3, <1>4, <1>5, <1>6
<1>9. HeldApart(anthropic') /\ (next \in {"text", "tools"} => Underway(anthropic'))
  BY <1>4, <1>5
<1>10. next = "text" => Tools(anthropic'.tools) = {}
  BY <1>3, <1>4, <1>5
<1> QED BY <1>1, <1>5, <1>6, <1>7, <1>8, <1>9, <1>10 DEF StreamInv

\* Text, a role, a tool call or a finish reason.
LEMMA TextSent ==
  ASSUME TextFirst, StreamInv, NEW text \in BOOLEAN, SendText(text) PROVE StreamInv'
<1> DEFINE chunk == [Chunk EXCEPT !.text = text]
<1>1. upstream = "text" /\ FeedChunk(chunk, "text")
  BY DEF SendText
<1>2. /\ chunk \in Chunks /\ chunk.choice /\ ~chunk.error /\ ~chunk.usage
      /\ chunk.finish = "none" /\ chunk.call = NoBlock
  BY DEF Chunk, Chunks
<1> HIDE DEF chunk
<1> QED BY <1>1, <1>2, ChoiceFed

\* A tool call keeps it.
LEMMA ToolSent ==
  ASSUME StreamInv, NEW c \in ToolCalls, NEW arguments \in BOOLEAN, SendTool(c, arguments)
  PROVE  StreamInv'
<1> DEFINE chunk == [Chunk EXCEPT !.call = c, !.arguments = arguments]
<1>1. upstream \in {"text", "tools"} /\ FeedChunk(chunk, "tools")
  BY DEF SendTool
<1>2. /\ chunk \in Chunks /\ chunk.choice /\ ~chunk.error /\ ~chunk.usage /\ ~chunk.text
      /\ chunk.finish = "none"
  BY DEF Chunk, Chunks
<1> HIDE DEF chunk
<1> QED BY <1>1, <1>2, ChoiceFed

\* The finish reason keeps it, with the last text or without.
LEMMA FinishSent ==
  ASSUME StreamInv, NEW text \in BOOLEAN, NEW reason \in {"stop", "tool_calls", "length"},
         SendFinish(reason, text)
  PROVE  StreamInv'
<1> DEFINE chunk == [Chunk EXCEPT !.finish = reason, !.text = text]
<1>1. upstream \in {"text", "tools"} /\ (text => upstream = "text") /\ FeedChunk(chunk, "finished")
  BY DEF SendFinish
<1>2. /\ chunk \in Chunks /\ chunk.choice /\ ~chunk.error /\ ~chunk.usage /\ (chunk.text => text)
  BY DEF Chunk, Chunks
<1> HIDE DEF chunk
<1> QED BY <1>1, <1>2, ChoiceFed

\* The usage, after the finish: nothing is shown for it.
LEMMA UsageSent == ASSUME StreamInv, SendUsage PROVE StreamInv'
<1> DEFINE chunk == [Chunk EXCEPT !.choice = FALSE, !.usage = TRUE]
<1>1. upstream = "finished" /\ FeedChunk(chunk, "finished")
  BY DEF SendUsage
<1>2. chunk \in Chunks /\ ~chunk.choice /\ ~chunk.error /\ ~chunk.text
  BY DEF Chunk, Chunks
<1> HIDE DEF chunk
<1>3. /\ upstream' = "finished" /\ Delivered(Translate(Nothing, chunk))
      /\ capture' \in IF capture.truncated THEN {capture} ELSE Captured(chunk)
      /\ IF chunk.text THEN Respond({"created", "item", "part"}, RespondText)
         ELSE UNCHANGED <<responses, reader>>
  BY <1>1 DEF FeedChunk
<1>4. Translate(Nothing, chunk) = Nothing
  BY <1>2 DEF Translate
<1>5. Agree(anthropic', client') /\ anthropic' = anthropic
  BY <1>3, <1>4, AtRest, DeliveredTunes
<1>6. capture \in Captures /\ HeldApart(anthropic) /\ (CapturedNothing(capture) => Blank(anthropic))
  BY DEF StreamInv
<1>7. capture' \in Captures /\ (CapturedNothing(capture') => CapturedNothing(capture))
  BY <1>2, <1>3, <1>6, CaptureKeeps
<1>8. SoFar(responses', reader') /\ "completed" \notin responses'
  BY <1>1, <1>3, ReaderKeeps
<1> QED BY <1>3, <1>5, <1>6, <1>7, <1>8 DEF StreamInv

\* An error inside the stream is told, and the message does not end.
LEMMA ErrorSent == ASSUME StreamInv, SendError PROVE StreamInv'
<1> DEFINE chunk == [Chunk EXCEPT !.choice = FALSE, !.error = TRUE]
           q == Translate(Nothing, chunk)
<1>1. upstream \in {"text", "tools"} /\ FeedChunk(chunk, "failed")
  BY DEF SendError
<1>2. chunk \in Chunks /\ chunk.error /\ ~chunk.usage /\ ~chunk.text /\ chunk.call = NoBlock
  BY DEF Chunk, Chunks
<1> HIDE DEF chunk
<1>3. /\ upstream' = "failed" /\ Delivered(q)
      /\ capture' \in IF capture.truncated THEN {capture} ELSE Captured(chunk)
      /\ IF chunk.text THEN Respond({"created", "item", "part"}, RespondText)
         ELSE UNCHANGED <<responses, reader>>
  BY <1>1 DEF FeedChunk
<1>4. /\ Underway(anthropic) /\ capture \in Captures /\ HeldApart(anthropic)
      /\ CapturedNothing(capture) => Blank(anthropic)
  BY <1>1 DEF StreamInv
<1>5. InTune(q, client) /\ q.m = [anthropic EXCEPT !.error = TRUE]
  BY <1>2, <1>4, AtRest, ChunkFailed
<1> HIDE DEF q
<1>6. Agree(anthropic', client') /\ anthropic' = [anthropic EXCEPT !.error = TRUE]
  BY <1>3, <1>5, DeliveredTunes
<1>7. /\ anthropic'.held = anthropic.held /\ anthropic'.text = anthropic.text
      /\ anthropic'.tools = anthropic.tools /\ anthropic'.ended = anthropic.ended
      /\ anthropic'.normalize = anthropic.normalize
  <2>1. anthropic \in Translators
    BY DEF StreamInv, Agree
  <2> QED BY <1>6, <2>1 DEF Translators
<1>8. HeldApart(anthropic') /\ (Blank(anthropic) => Blank(anthropic'))
  BY <1>4, <1>7 DEF HeldApart, Blank
<1>9. capture' \in Captures /\ (CapturedNothing(capture') => CapturedNothing(capture))
  BY <1>2, <1>3, <1>4, CaptureKeeps
<1>10. SoFar(responses', reader')
  BY <1>1, <1>3, ReaderKeeps
<1> QED BY <1>3, <1>4, <1>6, <1>8, <1>9, <1>10 DEF StreamInv

\* The end, with [DONE] or without.
LEMMA Concluded ==
  ASSUME StreamInv, NEW next \in {"done", "closed"}, Conclude(next)
  PROVE  StreamInv'
<1>1. PICK promoted \in {"no", "tool", "both"} : Delivered(Terminate(Nothing, promoted))
  BY DEF Conclude
<1> DEFINE q == Terminate(Nothing, promoted)
<1>2. HeldApart(anthropic) /\ SoFar(responses, reader) /\ capture \in Captures
      /\ (CapturedNothing(capture) => Blank(anthropic))
  BY DEF StreamInv
<1>3. /\ InTune(q, client) /\ HeldApart(q.m) /\ (q.m.error \/ q.m.ended)
      /\ Blank(anthropic) => Blank(q.m)
  BY <1>2, AtRest, Terminated
<1>4. Delivered(q)
  BY <1>1
<1> HIDE DEF q
<1>5. Agree(anthropic', client') /\ anthropic' = q.m
  BY <1>3, <1>4, DeliveredTunes
<1>6. SoFar(responses', reader') /\ "completed" \in responses'
  BY <1>2, EndInOrder DEF Conclude
<1>7. upstream' = next /\ capture' = capture
  BY DEF Conclude
<1> QED BY <1>2, <1>3, <1>5, <1>6, <1>7 DEF StreamInv

\* The invariant of the stream is kept by every step of it, if the text comes before the tool calls.
LEMMA StreamStep == TextFirst /\ StreamInv /\ [StreamNext]_streamVars => StreamInv'
<1> SUFFICES ASSUME TextFirst, StreamInv, [StreamNext]_streamVars PROVE StreamInv'
  OBVIOUS
<1>1. CASE UNCHANGED streamVars
  BY <1>1 DEF streamVars, StreamInv
<1>2. ASSUME NEW text \in BOOLEAN, SendText(text) PROVE StreamInv'
  BY <1>2, TextSent
<1>3. ASSUME NEW text \in BOOLEAN, NEW reason \in {"stop", "tool_calls", "length"},
             SendFinish(reason, text)
      PROVE  StreamInv'
  BY <1>3, FinishSent
<1>4. ASSUME NEW c \in ToolCalls, NEW arguments \in BOOLEAN, SendTool(c, arguments) PROVE StreamInv'
  BY <1>4, ToolSent
<1>5. CASE SendUsage
  BY <1>5, UsageSent
<1>6. CASE SendError
  BY <1>6, ErrorSent
<1>7. CASE SendDone
  BY <1>7, Concluded DEF SendDone
<1>8. CASE Close
  BY <1>8, Concluded DEF Close
<1>9. CASE CutStream
  BY <1>9 DEF CutStream, StreamInv
<1> QED BY <1>1, <1>2, <1>3, <1>4, <1>5, <1>6, <1>7, <1>8, <1>9 DEF StreamNext

\* What the invariant means for the clients and for the record.
LEMMA StreamPromises ==
  ASSUME StreamInv PROVE MessageWellFormed /\ ResponseInOrder /\ EmptyMeansNothingShown
<1>1. Agree(anthropic, client) /\ SoFar(responses, reader) /\ capture \in Captures
  BY DEF StreamInv
<1>2. MessageWellFormed
  <2>1. upstream = "closed" => anthropic.error \/ anthropic.ended
    BY DEF StreamInv
  <2>2. client.broken = FALSE /\ client.phase = PhaseOf(anthropic)
    BY <1>1 DEF Agree
  <2> QED BY <2>1, <2>2 DEF MessageWellFormed, PhaseOf
<1>3. ResponseInOrder
  <2>1. upstream = "closed" => "completed" \in responses
    BY DEF StreamInv
  <2>2. \E n \in Int : reader = Up(n)
    BY <1>1 DEF SoFar
  <2>3. ~reader.broken
    BY <2>2 DEF Up
  <2>4. "completed" \in responses => reader = Up(8)
    BY <1>1 DEF SoFar
  <2>5. "completed" \in responses => reader.last = 8
    BY <2>4 DEF Up
  <2>6. Len(Protocol) = 8
    BY DEF Protocol
  <2> QED BY <2>1, <2>3, <2>5, <2>6 DEF ResponseInOrder
<1>4. ASSUME WasEmpty, NEW b \in Blocks PROVE client.blocks[b].source = NoBlock
  <2>1. CapturedNothing(capture)
    BY <1>4 DEF WasEmpty, CapturedNothing
  <2>2. anthropic.text = "none" /\ Tools(anthropic.tools) = {}
    BY <2>1 DEF StreamInv, Blank
  <2>3. anthropic.next = 0
    <3>1. Cardinality({}) = 0
      BY FS_EmptySet
    <3>2. anthropic.next = Cardinality(Tools(anthropic.tools)) + Textual(anthropic.text)
      BY <1>1 DEF Agree, Match
    <3> QED BY <2>2, <3>1, <3>2 DEF Textual
  <2>4. b \in Nat
    BY BlocksAre
  <2>5. b >= anthropic.next
    BY <2>3, <2>4
  <2> QED BY <1>1, <2>5 DEF Agree, Match
<1>5. EmptyMeansNothingShown
  BY <1>4 DEF EmptyMeansNothingShown
<1> QED BY <1>2, <1>3, <1>5

-----------------------------------------------------------------------------
(* What a conversation keeps of a list, Those, is a fold over its positions, the last one
   first; unfolded one member at a time. *)

\* One member more.
Keeps(kept, x, f, V) == IF x[f] \in V THEN Append(kept, x) ELSE kept

\* What is kept of a sequence is a sequence of the same members.
LEMMA KeepsIsSeq ==
  ASSUME NEW S, NEW f, NEW V, NEW kept \in Seq(S), NEW x \in S
  PROVE  Keeps(kept, x, f, V) \in Seq(S)
BY AppendProperties DEF Keeps

KeptOf(s, f, V, g, d) == IF d = {} THEN <<>> ELSE Keeps(g[d \ {Max(d)}], s[Max(d)], f, V)
IsKeeping(s, f, V, g) == g = [d \in SUBSET DOMAIN s |-> KeptOf(s, f, V, g, d)]
Keeping(s, f, V) == CHOOSE g : IsKeeping(s, f, V, g)
KeepsOn(s, f, V) ==
  \A d \in SUBSET DOMAIN s : Keeping(s, f, V)[d] = KeptOf(s, f, V, Keeping(s, f, V), d)

\* The definition of Those in these terms.
LEMMA ThoseIsKeeping ==
  ASSUME NEW s, NEW f, NEW V PROVE Those(s, f, V) = Keeping(s, f, V)[DOMAIN s]
BY DEF Those, FoldLeft, MapThenFoldSet, Keeping, KeptOf, IsKeeping, Keeps

\* There is such a function of the positions, and its values are sequences.
LEMMA KeepingExists ==
  ASSUME NEW S, NEW out \in Seq(S), NEW f, NEW V
  PROVE  /\ Keeping(out, f, V) \in [SUBSET DOMAIN out -> Seq(S)]
         /\ KeepsOn(out, f, V)
<1> DEFINE D == DOMAIN out
           st == [i \in D |-> [w \in Seq(S) |-> Keeps(w, out[i], f, V)]]
           pick == [s \in SUBSET D |-> Max(s)]
<1>1. D = 1..Len(out) /\ Len(out) \in Nat /\ \A i \in D : out[i] \in S
  BY LenProperties
<1>2. IsFiniteSet(D) /\ \A s \in SUBSET D : s # {} => Max(s) \in s
  BY <1>1, LargestPicked
<1>3. \A s \in SUBSET D : s # {} => pick[s] \in s
  BY <1>2
<1>4. \A i \in D : \A w \in Seq(S) : st[i][w] \in Seq(S)
  BY <1>1, KeepsIsSeq
<1>5. \E g \in [SUBSET D -> Seq(S)] : IsFold(st, <<>>, pick, D, g)
  <2>1. Picks(pick, D) /\ KeepsTo(st, D, Seq(S))
    BY <1>3, <1>4 DEF Picks, KeepsTo
  <2>2. <<>> \in Seq(S)
    BY EmptySeq
  <2> HIDE DEF D, st, pick
  <2> QED BY <1>2, <2>1, <2>2, FoldIn
<1>6. PICK g \in [SUBSET D -> Seq(S)] : IsFold(st, <<>>, pick, D, g)
  BY <1>5
<1>7. ASSUME NEW s \in SUBSET D PROVE g[s] = KeptOf(out, f, V, g, s)
  <2>1. g[s] = FoldOf(st, <<>>, pick, g, s)
    BY <1>6 DEF IsFold
  <2>2. CASE s = {}
    BY <2>1, <2>2 DEF FoldOf, KeptOf
  <2>3. CASE s # {}
    <3>1. pick[s] = Max(s) /\ Max(s) \in D /\ s \ {Max(s)} \in SUBSET D
      BY <1>2, <2>3
    <3>2. g[s \ {Max(s)}] \in Seq(S)
      BY <1>6, <3>1
    <3>3. st[Max(s)][g[s \ {Max(s)}]] = Keeps(g[s \ {Max(s)}], out[Max(s)], f, V)
      BY <3>1, <3>2
    <3> QED BY <2>1, <2>3, <3>1, <3>3 DEF FoldOf, KeptOf
  <2> QED BY <2>2, <2>3
<1>8. IsKeeping(out, f, V, g)
  BY <1>6, <1>7 DEF IsKeeping
<1> DEFINE h == Keeping(out, f, V)
<1>9. IsKeeping(out, f, V, h)
  BY <1>8 DEF Keeping
<1> HIDE DEF h
<1>10. h = [s \in SUBSET D |-> KeptOf(out, f, V, h, s)]
  BY <1>9 DEF IsKeeping
<1>11. \A s \in SUBSET D : h[s] = KeptOf(out, f, V, h, s)
  BY <1>10
<1> DEFINE B == {s \in SUBSET D : h[s] \in Seq(S)}
<1>12. {} \in B
  <2>1. h[{}] = <<>> /\ <<>> \in Seq(S)
    BY <1>11, EmptySeq DEF KeptOf
  <2> QED BY <2>1
<1>13. ASSUME NEW s \in SUBSET D, s # {}, s \ {pick[s]} \in B PROVE s \in B
  <2>1. pick[s] = Max(s) /\ Max(s) \in D
    BY <1>2, <1>13
  <2>2. h[s] = Keeps(h[s \ {Max(s)}], out[Max(s)], f, V)
    BY <1>11, <1>13 DEF KeptOf
  <2> QED BY <1>1, <1>13, <2>1, <2>2, KeepsIsSeq
<1>14. B = SUBSET D
  <2>1. B \in SUBSET SUBSET D
    OBVIOUS
  <2>2. Picks(pick, D) /\ GrowsBy(pick, D, B)
    BY <1>3, <1>12, <1>13 DEF Picks, GrowsBy
  <2> HIDE DEF B, D, pick
  <2> QED BY <1>2, <2>1, <2>2, SubsetInduction
<1>15. h \in [SUBSET D -> Seq(S)]
  BY <1>10, <1>14
<1> QED BY <1>11, <1>15 DEF h, KeepsOn

\* The members are taken one after the other.
LEMMA ThoseMore ==
  ASSUME NEW S, NEW out \in Seq(S), NEW f, NEW V
  PROVE  /\ Those(out, f, V) \in Seq(S)
         /\ Those(<<>>, f, V) = <<>>
         /\ \A e \in S : /\ Append(out, e) \in Seq(S)
                              /\ Those(Append(out, e), f, V) = Keeps(Those(out, f, V), e, f, V)
<1>1. Those(out, f, V) \in Seq(S)
  <2> DEFINE g == Keeping(out, f, V)
  <2>1. g \in [SUBSET DOMAIN out -> Seq(S)]
    BY KeepingExists
  <2>2. Those(out, f, V) = g[DOMAIN out]
    BY ThoseIsKeeping
  <2> HIDE DEF g
  <2> QED BY <2>1, <2>2
<1>2. Those(<<>>, f, V) = <<>>
  <2>1. <<>> \in Seq(S) /\ DOMAIN <<>> = {}
    OBVIOUS
  <2>2. KeepsOn(<<>>, f, V)
    BY <2>1, KeepingExists
  <2>3. Keeping(<<>>, f, V)[{}] = KeptOf(<<>>, f, V, Keeping(<<>>, f, V), {})
    BY <2>1, <2>2 DEF KeepsOn
  <2> QED BY <2>1, <2>3, ThoseIsKeeping DEF KeptOf
<1>3. ASSUME NEW e \in S
      PROVE  Append(out, e) \in Seq(S) /\ Those(Append(out, e), f, V) = Keeps(Those(out, f, V), e, f, V)
  <2> DEFINE n == Len(out)
             long == Append(out, e)
             g == Keeping(out, f, V)
             h == Keeping(long, f, V)
             D == 1..n
             E == 1..(n + 1)
             pick == [s \in SUBSET D |-> Max(s)]
  <2>1. /\ n \in Nat /\ DOMAIN out = D /\ DOMAIN long = E /\ long \in Seq(S)
        /\ \A i \in D : long[i] = out[i]
        /\ long[n + 1] = e
    BY AppendProperties, LenProperties
  <2>2. /\ \A s \in SUBSET D : g[s] = KeptOf(out, f, V, g, s)
        /\ \A s \in SUBSET E : h[s] = KeptOf(long, f, V, h, s)
    <3>1. KeepsOn(out, f, V) /\ KeepsOn(long, f, V)
      <4> HIDE DEF long
      <4> QED BY <2>1, KeepingExists
    <3> QED BY <2>1, <3>1 DEF KeepsOn
  <2>3. Those(out, f, V) = g[D] /\ Those(long, f, V) = h[E]
    BY <2>1, ThoseIsKeeping
  <2>4. /\ IsFiniteSet(D) /\ \A s \in SUBSET D : s # {} => Max(s) \in s
        /\ Max(E) = n + 1 /\ E \ {n + 1} = D
    BY <2>1, LargestPicked
  <2>5. D \in SUBSET E /\ D \subseteq E /\ E # {} /\ E \in SUBSET E
    <3>1. n + 1 \in E /\ D \subseteq E
      BY <2>1
    <3> QED BY <3>1
  <2> HIDE DEF n, long, g, h, D, E
  <2> DEFINE B == {s \in SUBSET D : h[s] = g[s]}
  <2>6. {} \in B
    BY <2>2, <2>5 DEF KeptOf
  <2>7. ASSUME NEW s \in SUBSET D, s # {}, s \ {pick[s]} \in B PROVE s \in B
    <3>1. pick[s] = Max(s) /\ Max(s) \in D /\ s \in SUBSET E
      BY <2>4, <2>5, <2>7
    <3>2. /\ h[s] = Keeps(h[s \ {Max(s)}], long[Max(s)], f, V)
          /\ g[s] = Keeps(g[s \ {Max(s)}], out[Max(s)], f, V)
      BY <2>2, <2>7, <3>1 DEF KeptOf
    <3> QED BY <2>1, <2>7, <3>1, <3>2
  <2>8. B = SUBSET D
    <3>1. B \in SUBSET SUBSET D
      OBVIOUS
    <3>2. Picks(pick, D) /\ GrowsBy(pick, D, B)
      BY <2>4, <2>6, <2>7 DEF Picks, GrowsBy
    <3> HIDE DEF B, pick
    <3> QED BY <2>4, <3>1, <3>2, SubsetInduction
  <2>9. h[D] = g[D]
    BY <2>8
  <2>10. h[E] = Keeps(h[D], e, f, V)
    BY <2>1, <2>2, <2>4, <2>5 DEF KeptOf
  <2> QED BY <2>1, <2>3, <2>9, <2>10 DEF long
<1> QED BY <1>1, <1>2, <1>3

\* What holds of the empty sequence, and with every sequence of those with one member more, holds
\* of all sequences.
LEMMA SequenceInduction ==
  ASSUME NEW S, NEW B \in SUBSET Seq(S), <<>> \in B, \A s \in B : \A x \in S : Append(s, x) \in B
  PROVE  B = Seq(S)
<1> DEFINE N == {n \in Nat : \A s \in Seq(S) : Len(s) = n => s \in B}
<1>1. 0 \in N
  <2>1. \A s \in Seq(S) : Len(s) = 0 => s = <<>>
    BY EmptySeq
  <2> QED BY <2>1
<1>2. ASSUME NEW n \in N PROVE n + 1 \in N
  <2>1. n \in Nat /\ \A s \in Seq(S) : Len(s) = n => s \in B
    OBVIOUS
  <2>2. ASSUME NEW s \in Seq(S), Len(s) = n + 1 PROVE s \in B
    <3>1. s # <<>>
      BY <2>1, <2>2
    <3>2. PICK t \in Seq(S), x \in S : s = Append(t, x)
      BY <3>1, SequenceEmptyOrAppend
    <3>3. Len(s) = Len(t) + 1 /\ Len(t) \in Nat
      BY <3>2, AppendProperties, LenProperties
    <3>4. t \in B
      BY <2>1, <2>2, <3>3
    <3> QED BY <3>2, <3>4
  <2> QED BY <2>1, <2>2
<1>3. N = Nat
  <2>1. N \in SUBSET Nat
    OBVIOUS
  <2> HIDE DEF N
  <2> QED BY <1>1, <1>2, <2>1, Induction
<1>4. \A s \in Seq(S) : Len(s) \in Nat
  BY LenProperties
<1> QED BY <1>3, <1>4

\* Three sequences of one set are put together in either order.
LEMMA Reassociated ==
  \A S : \A p, q, u \in Seq(S) : p \o (q \o u) = (p \o q) \o u
<1> SUFFICES ASSUME NEW S, NEW p \in Seq(S), NEW q \in Seq(S), NEW u \in Seq(S)
             PROVE  p \o (q \o u) = (p \o q) \o u
  OBVIOUS
<1> QED BY ConcatAssociative, SMTT(30)

\* A member is appended to a sequence that another was put before.
LEMMA AppendConcat ==
  ASSUME NEW S, NEW s \in Seq(S), NEW t \in Seq(S), NEW x \in S
  PROVE  s \o Append(t, x) = Append(s \o t, x)
<1>1. <<x>> \in Seq(S) /\ s \o t \in Seq(S)
  BY ConcatProperties
<1>2. Append(t, x) = t \o <<x>> /\ Append(s \o t, x) = (s \o t) \o <<x>>
  BY <1>1, AppendIsConcat
<1> QED BY <1>1, <1>2, ConcatAssociative

\* Taken from two sequences in a row.
LEMMA ThoseOfBoth ==
  ASSUME NEW S, NEW s \in Seq(S), NEW t \in Seq(S), NEW f, NEW V
  PROVE  Those(s \o t, f, V) = Those(s, f, V) \o Those(t, f, V)
<1> DEFINE B == {u \in Seq(S) : Those(s \o u, f, V) = Those(s, f, V) \o Those(u, f, V)}
<1>1. <<>> \in B
  <2>1. <<>> \in Seq(S) /\ Those(<<>>, f, V) = <<>> /\ Those(s, f, V) \in Seq(S)
    BY EmptySeq, ThoseMore
  <2>2. s \o <<>> = s /\ Those(s, f, V) \o <<>> = Those(s, f, V)
    BY <2>1, ConcatEmptySeq
  <2> QED BY <2>1, <2>2
<1>2. ASSUME NEW u \in B, NEW x \in S PROVE Append(u, x) \in B
  <2> DEFINE a == Those(s, f, V)
             b == Those(u, f, V)
  <2>1. u \in Seq(S) /\ Append(u, x) \in Seq(S) /\ s \o u \in Seq(S)
    BY ConcatProperties, AppendProperties
  <2>2. a \in Seq(S) /\ b \in Seq(S) /\ Those(Append(u, x), f, V) = Keeps(b, x, f, V)
    BY <2>1, ThoseMore
  <2>3. Those(Append(s \o u, x), f, V) = Keeps(a \o b, x, f, V)
    <3> DEFINE w == s \o u
    <3>1. w \in Seq(S)
      BY <2>1
    <3>2. Those(w, f, V) = a \o b
      OBVIOUS
    <3> HIDE DEF w, a, b
    <3>3. Those(Append(w, x), f, V) = Keeps(Those(w, f, V), x, f, V)
      BY <3>1, ThoseMore
    <3>4. Those(Append(w, x), f, V) = Keeps(a \o b, x, f, V)
      BY <3>2, <3>3
    <3> QED BY <3>4 DEF w
  <2>4. s \o Append(u, x) = Append(s \o u, x)
    BY <2>1, AppendConcat
  <2>5. a \o Append(b, x) = Append(a \o b, x)
    <3> HIDE DEF a, b
    <3> QED BY <2>2, AppendConcat
  <2>6. Keeps(a \o b, x, f, V) = a \o Keeps(b, x, f, V)
    BY <2>5 DEF Keeps
  <2> QED BY <2>1, <2>2, <2>3, <2>4, <2>6
<1>3. B = Seq(S)
  <2>1. B \in SUBSET Seq(S)
    OBVIOUS
  <2> HIDE DEF B
  <2> QED BY <1>1, <1>2, <2>1, SequenceInduction
<1> QED BY <1>3

\* All of a sequence, or none, is taken.
LEMMA ThoseAllOrNone ==
  ASSUME NEW S, NEW t \in Seq(S), NEW f, NEW V
  PROVE  /\ (\A i \in DOMAIN t : t[i][f] \in V) => Those(t, f, V) = t
         /\ (\A i \in DOMAIN t : t[i][f] \notin V) => Those(t, f, V) = <<>>
<1> DEFINE All(u) == \A i \in DOMAIN u : u[i][f] \in V
           None(u) == \A i \in DOMAIN u : u[i][f] \notin V
           B == {u \in Seq(S) : /\ All(u) => Those(u, f, V) = u
                                /\ None(u) => Those(u, f, V) = <<>>}
<1>1. <<>> \in B
  BY EmptySeq, ThoseMore
<1>2. ASSUME NEW u \in B, NEW x \in S PROVE Append(u, x) \in B
  <2>1. /\ u \in Seq(S) /\ Append(u, x) \in Seq(S)
        /\ Those(Append(u, x), f, V) = Keeps(Those(u, f, V), x, f, V)
    BY ThoseMore
  <2>2. /\ Len(u) \in Nat /\ DOMAIN u = 1..Len(u) /\ DOMAIN Append(u, x) = 1..(Len(u) + 1)
        /\ \A i \in DOMAIN u : Append(u, x)[i] = u[i]
        /\ Append(u, x)[Len(u) + 1] = x
    BY <2>1, AppendProperties, LenProperties
  <2>3. \A i \in DOMAIN u : i \in DOMAIN Append(u, x)
    BY <2>2
  <2>4. Len(u) + 1 \in DOMAIN Append(u, x)
    BY <2>2
  <2>5. ASSUME All(Append(u, x)) PROVE Those(Append(u, x), f, V) = Append(u, x)
    <3>1. All(u) /\ x[f] \in V
      BY <2>2, <2>3, <2>4, <2>5
    <3>2. Those(u, f, V) = u
      BY <3>1
    <3> QED BY <2>1, <3>1, <3>2 DEF Keeps
  <2>6. ASSUME None(Append(u, x)) PROVE Those(Append(u, x), f, V) = <<>>
    <3>1. None(u) /\ x[f] \notin V
      BY <2>2, <2>3, <2>4, <2>6
    <3>2. Those(u, f, V) = <<>>
      BY <3>1
    <3> QED BY <2>1, <3>1, <3>2 DEF Keeps
  <2> HIDE DEF All, None
  <2> QED BY <2>1, <2>5, <2>6
<1>3. B = Seq(S)
  <2>1. B \in SUBSET Seq(S)
    OBVIOUS
  <2> HIDE DEF B
  <2> QED BY <1>1, <1>2, <2>1, SequenceInduction
<1> QED BY <1>3

-----------------------------------------------------------------------------
(* The lists that one turn of a conversation becomes, joined. *)

\* FlattenSeq, by how many of the sequences are joined.
FlatOf(s, g, i) == IF i = 1 THEN s[i] ELSE g[i - 1] \o s[i]
IsFlat(s, g) == g = [i \in 1..Len(s) |-> FlatOf(s, g, i)]
Flat(s) == CHOOSE g : IsFlat(s, g)

\* The definition of FlattenSeq in these terms.
LEMMA FlattenIsFlat ==
  ASSUME NEW s PROVE FlattenSeq(s) = IF Len(s) = 0 THEN s ELSE Flat(s)[Len(s)]
BY DEF FlattenSeq, Flat, FlatOf, IsFlat

\* Joining the same sequences gives the same.
LEMMA FlatAgrees ==
  ASSUME NEW s, NEW t, NEW g, NEW h, IsFlat(s, g), IsFlat(t, h), Len(s) \in Nat, Len(t) \in Nat,
         Len(s) <= Len(t), \A i \in 1..Len(s) : t[i] = s[i]
  PROVE  \A i \in 1..Len(s) : g[i] = h[i]
<1> DEFINE N == {n \in Nat : n + 1 \in 1..Len(s) => g[n + 1] = h[n + 1]}
<1>1. /\ g = [i \in 1..Len(s) |-> FlatOf(s, g, i)]
      /\ h = [i \in 1..Len(t) |-> FlatOf(t, h, i)]
  BY DEF IsFlat
<1>2. /\ \A i \in 1..Len(s) : g[i] = FlatOf(s, g, i)
      /\ \A i \in 1..Len(t) : h[i] = FlatOf(t, h, i)
  BY <1>1
<1>3. \A i \in 1..Len(s) : i \in 1..Len(t)
  OBVIOUS
<1>4. 0 \in N
  <2>1. ASSUME 1 \in 1..Len(s) PROVE g[1] = h[1]
    BY <1>2, <1>3, <2>1 DEF FlatOf
  <2> QED BY <2>1
<1>5. ASSUME NEW n \in N PROVE n + 1 \in N
  <2>1. n \in Nat
    OBVIOUS
  <2>2. ASSUME (n + 1) + 1 \in 1..Len(s) PROVE g[(n + 1) + 1] = h[(n + 1) + 1]
    <3> DEFINE k == (n + 1) + 1
    <3>1. k \in 1..Len(s) /\ k \in 1..Len(t) /\ k # 1 /\ k - 1 = n + 1 /\ n + 1 \in 1..Len(s)
      BY <2>1, <2>2
    <3>2. g[n + 1] = h[n + 1]
      BY <3>1
    <3> HIDE DEF k, N
    <3>3. g[k] = g[n + 1] \o s[k] /\ h[k] = h[n + 1] \o t[k] /\ t[k] = s[k]
      BY <1>2, <3>1 DEF FlatOf
    <3> QED BY <3>2, <3>3 DEF k
  <2> QED BY <2>1, <2>2
<1>6. N = Nat
  <2>1. N \in SUBSET Nat
    OBVIOUS
  <2> HIDE DEF N
  <2> QED BY <1>4, <1>5, <2>1, Induction
<1>7. ASSUME NEW i \in 1..Len(s) PROVE g[i] = h[i]
  <2>1. i - 1 \in Nat /\ (i - 1) + 1 = i
    OBVIOUS
  <2>2. i - 1 \in N
    BY <1>6, <2>1
  <2> QED BY <2>1, <2>2
<1> QED BY <1>7

\* There is such a function, and its values are sequences of the same members.
LEMMA FlatExists ==
  ASSUME NEW S, NEW s \in Seq(Seq(S))
  PROVE  IsFlat(s, Flat(s)) /\ Flat(s) \in [1..Len(s) -> Seq(S)]
<1> DEFINE T == Seq(S)
           B == {u \in Seq(T) : \E g \in [1..Len(u) -> T] : IsFlat(u, g)}
<1>1. <<>> \in B
  <2> DEFINE g == [i \in 1..0 |-> <<>>]
  <2>1. 1..0 = {}
    OBVIOUS
  <2>2. Len(<<>>) = 0 /\ <<>> \in Seq(T)
    BY EmptySeq
  <2>3. g = [i \in 1..0 |-> FlatOf(<<>>, g, i)] /\ g \in [1..0 -> T]
    BY <2>1
  <2>4. IsFlat(<<>>, g)
    BY <2>2, <2>3 DEF IsFlat
  <2> HIDE DEF g
  <2> QED BY <2>2, <2>3, <2>4
<1>2. ASSUME NEW u \in B, NEW x \in T PROVE Append(u, x) \in B
  <2>1. u \in Seq(T)
    OBVIOUS
  <2>2. PICK g \in [1..Len(u) -> T] : IsFlat(u, g)
    OBVIOUS
  <2> DEFINE n == Len(u)
             w == Append(u, x)
             h == [i \in 1..(n + 1) |-> IF i = n + 1 THEN IF n = 0 THEN x ELSE g[n] \o x ELSE g[i]]
  <2>3. /\ n \in Nat /\ w \in Seq(T) /\ Len(w) = n + 1 /\ w[n + 1] = x
        /\ \A i \in 1..n : w[i] = u[i]
    BY <2>1, AppendProperties, LenProperties
  <2>4. \A i \in 1..n : g[i] = FlatOf(u, g, i)
    <3>1. g = [i \in 1..n |-> FlatOf(u, g, i)]
      BY <2>2 DEF IsFlat
    <3> QED BY <3>1
  <2> HIDE DEF n, w
  <2>5. ASSUME NEW i \in 1..(n + 1) PROVE h[i] = FlatOf(w, h, i) /\ h[i] \in T
    <3>1. CASE i = n + 1
      <4>1. CASE n = 0
        <5>1. h[i] = x /\ i = 1
          BY <3>1, <4>1
        <5> QED BY <2>3, <3>1, <5>1 DEF FlatOf
      <4>2. CASE n # 0
        <5>1. /\ h[i] = g[n] \o x /\ i # 1 /\ i - 1 = n /\ n \in 1..(n + 1) /\ n # n + 1
              /\ n \in 1..n
          BY <2>3, <3>1, <4>2
        <5>2. h[n] = g[n] /\ w[i] = x
          BY <2>3, <3>1, <5>1
        <5>3. g[n] \in T
          BY <2>2, <5>1 DEF n
        <5>4. g[n] \o x \in T
          BY <5>3, ConcatProperties
        <5> HIDE DEF h
        <5> QED BY <5>1, <5>2, <5>4 DEF FlatOf
      <4> QED BY <4>1, <4>2
    <3>2. CASE i # n + 1
      <4>1. i \in 1..n /\ h[i] = g[i] /\ w[i] = u[i]
        BY <2>3, <3>2
      <4>2. i # 1 => i - 1 \in 1..(n + 1) /\ i - 1 # n + 1
        BY <2>3, <4>1
      <4>3. i # 1 => h[i - 1] = g[i - 1]
        BY <4>2
      <4>4. g[i] \in T
        BY <2>2, <4>1 DEF n
      <4> HIDE DEF h
      <4> QED BY <2>4, <4>1, <4>3, <4>4 DEF FlatOf
    <3> QED BY <3>1, <3>2
  <2>6. h = [i \in 1..(n + 1) |-> h[i]]
    OBVIOUS
  <2> HIDE DEF h
  <2>7. IsFlat(w, h) /\ h \in [1..Len(w) -> T]
    BY <2>3, <2>5, <2>6 DEF IsFlat
  <2> QED BY <2>3, <2>7 DEF w
<1>3. B = Seq(T)
  <2>1. B \in SUBSET Seq(T)
    OBVIOUS
  <2> HIDE DEF B, T
  <2> QED BY <1>1, <1>2, <2>1, SequenceInduction
<1>4. PICK g \in [1..Len(s) -> T] : IsFlat(s, g)
  BY <1>3
<1>5. IsFlat(s, Flat(s))
  BY <1>4 DEF Flat
<1>6. Len(s) \in Nat /\ \A i \in 1..Len(s) : Flat(s)[i] = g[i]
  <2>1. Len(s) \in Nat
    BY LenProperties
  <2> QED BY <1>4, <1>5, <2>1, FlatAgrees
<1>7. Flat(s) = [i \in 1..Len(s) |-> FlatOf(s, Flat(s), i)]
  BY <1>5 DEF IsFlat
<1> QED BY <1>4, <1>5, <1>6, <1>7

\* Sequences are joined one after the other.
LEMMA FlattenMore ==
  ASSUME NEW S, NEW s \in Seq(Seq(S)), NEW x \in Seq(S)
  PROVE  /\ FlattenSeq(<<>>) = <<>>
         /\ FlattenSeq(s) \in Seq(S)
         /\ Append(s, x) \in Seq(Seq(S))
         /\ FlattenSeq(Append(s, x)) = FlattenSeq(s) \o x
<1> DEFINE n == Len(s)
           w == Append(s, x)
<1>1. FlattenSeq(<<>>) = <<>>
  BY FlattenIsFlat
<1>2. /\ n \in Nat /\ w \in Seq(Seq(S)) /\ Len(w) = n + 1 /\ w[n + 1] = x /\ n + 1 # 0
      /\ \A i \in 1..n : w[i] = s[i]
  BY AppendProperties, LenProperties
<1>3. n = 0 => s = <<>>
  BY EmptySeq
<1>4. IsFlat(s, Flat(s)) /\ IsFlat(w, Flat(w)) /\ Flat(s) \in [1..n -> Seq(S)]
  BY <1>2, FlatExists
<1>5. FlattenSeq(s) = (IF n = 0 THEN s ELSE Flat(s)[n]) /\ FlattenSeq(w) = Flat(w)[n + 1]
  BY <1>2, FlattenIsFlat
<1> HIDE DEF n, w
<1>6. FlattenSeq(s) \in Seq(S)
  <2>1. CASE n = 0
    BY <1>3, <1>5, <2>1, EmptySeq
  <2>2. CASE n # 0
    <3>1. n \in 1..n
      BY <1>2, <2>2
    <3> QED BY <1>4, <1>5, <2>2, <3>1
  <2> QED BY <2>1, <2>2
<1>7. Flat(w)[n + 1] = FlatOf(w, Flat(w), n + 1)
  <2>1. Flat(w) = [i \in 1..(n + 1) |-> FlatOf(w, Flat(w), i)]
    BY <1>2, <1>4 DEF IsFlat
  <2>2. n + 1 \in 1..(n + 1)
    BY <1>2
  <2> QED BY <2>1, <2>2
<1>8. FlattenSeq(w) = FlattenSeq(s) \o x
  <2>1. CASE n = 0
    <3>1. FlattenSeq(w) = x /\ FlattenSeq(s) = <<>>
      BY <1>2, <1>3, <1>5, <1>7, <2>1 DEF FlatOf
    <3> QED BY <3>1, ConcatEmptySeq
  <2>2. CASE n # 0
    <3>1. \A i \in 1..n : Flat(s)[i] = Flat(w)[i]
      <4> DEFINE g == Flat(s)
                 h == Flat(w)
      <4>1. /\ Len(s) \in Nat /\ Len(w) \in Nat /\ Len(s) <= Len(w) /\ Len(s) = n
            /\ IsFlat(s, g) /\ IsFlat(w, h) /\ \A i \in 1..Len(s) : w[i] = s[i]
        BY <1>2, <1>4 DEF n
      <4> HIDE DEF g, h
      <4>2. \A i \in 1..Len(s) : g[i] = h[i]
        BY <4>1, FlatAgrees
      <4> QED BY <4>1, <4>2 DEF g, h
    <3>2. n \in 1..n /\ n + 1 # 1 /\ (n + 1) - 1 = n
      BY <1>2, <2>2
    <3> QED BY <1>2, <1>5, <1>7, <2>2, <3>1, <3>2 DEF FlatOf
  <2> QED BY <2>1, <2>2
<1> QED BY <1>1, <1>2, <1>6, <1>8 DEF w

-----------------------------------------------------------------------------
(* The calls of a list of messages, counted. *)

\* The calls of a sequence of messages, as ResultsInPlace counts them.
CallsIn(M) == FoldFunction(LAMBDA m, n : Len(m.calls) + n, 0, M)

TotalOf(M, g, s) == IF s = {} THEN 0 ELSE Len(M[Picked(s)].calls) + g[s \ {Picked(s)}]
IsCount(M, g) == g = [s \in SUBSET DOMAIN M |-> TotalOf(M, g, s)]
Count(M) == CHOOSE g : IsCount(M, g)

\* The definition of FoldFunction in these terms.
LEMMA CallsInIsCount == ASSUME NEW M PROVE CallsIn(M) = Count(M)[DOMAIN M]
BY DEF CallsIn, FoldFunction, FoldFunctionOnSet, MapThenFoldSet, Count, TotalOf, IsCount, Picked

Lengths(M) == [i \in DOMAIN M |-> Len(M[i].calls)]

\* It is the sum of their numbers of calls.
LEMMA CallsInIsSum ==
  ASSUME NEW M, IsFiniteSet(DOMAIN M)
  PROVE  CallsIn(M) = SumOf(Lengths(M), DOMAIN M)
<1> DEFINE D == DOMAIN M
           f == Lengths(M)
           t == Tally(f, D)
           c == Count(M)
           pick == [s \in SUBSET D |-> Picked(s)]
<1>1. \A s \in SUBSET D : s # {} => Picked(s) \in s
  BY PickedIn
<1>2. \A i \in D : f[i] = Len(M[i].calls)
  BY DEF Lengths
<1>3. \A g : \A s \in SUBSET D : TallyOf(f, g, s) = TotalOf(M, g, s)
  <2> SUFFICES ASSUME NEW g, NEW s \in SUBSET D PROVE TallyOf(f, g, s) = TotalOf(M, g, s)
    OBVIOUS
  <2>1. s # {} => f[Picked(s)] = Len(M[Picked(s)].calls)
    BY <1>1, <1>2
  <2> HIDE DEF f
  <2> QED BY <2>1 DEF TallyOf, TotalOf
<1>4. t = [s \in SUBSET D |-> TallyOf(f, t, s)]
  <2>1. IsTally(f, D, t)
    BY TallyExists
  <2> HIDE DEF t, f
  <2> QED BY <2>1 DEF IsTally
<1> HIDE DEF t, f
<1>5. IsCount(M, t)
  <2>1. \A s \in SUBSET D : TallyOf(f, t, s) = TotalOf(M, t, s)
    BY <1>3
  <2> QED BY <1>4, <2>1 DEF IsCount
<1>6. c = [s \in SUBSET D |-> TotalOf(M, c, s)]
  <2>1. IsCount(M, c)
    BY <1>5 DEF Count
  <2> HIDE DEF c
  <2> QED BY <2>1 DEF IsCount
<1> HIDE DEF c
<1>7. \A s \in SUBSET D : t[s] = TotalOf(M, t, s) /\ c[s] = TotalOf(M, c, s)
  BY <1>5, <1>6 DEF IsCount
<1> DEFINE B == {s \in SUBSET D : t[s] = c[s]}
<1>8. {} \in B
  BY <1>7 DEF TotalOf
<1>9. ASSUME NEW s \in SUBSET D, s # {}, s \ {pick[s]} \in B PROVE s \in B
  BY <1>7, <1>9 DEF TotalOf
<1>10. B = SUBSET D
  <2>1. B \in SUBSET SUBSET D
    OBVIOUS
  <2>2. Picks(pick, D) /\ GrowsBy(pick, D, B)
    BY <1>1, <1>8, <1>9 DEF Picks, GrowsBy
  <2> HIDE DEF B, pick
  <2> QED BY <2>1, <2>2, SubsetInduction
<1>11. t[D] = c[D]
  BY <1>10
<1> QED BY <1>11, CallsInIsCount, SumIsTally DEF t, c, f

\* One message more.
LEMMA CallsInMore ==
  ASSUME NEW S, \A m \in S : Len(m.calls) \in Nat, NEW M \in Seq(S)
  PROVE  /\ CallsIn(<<>>) = 0 /\ CallsIn(M) \in Nat
         /\ \A m \in S : CallsIn(Append(M, m)) = CallsIn(M) + Len(m.calls)
<1> DEFINE n == Len(M)
           D == 1..n
           E == 1..(n + 1)
<1>1. /\ n \in Nat /\ DOMAIN M = D /\ IsFiniteSet(D) /\ IsFiniteSet(E) /\ n + 1 \in E
      /\ E \ {n + 1} = D
  <2>1. n \in Nat /\ DOMAIN M = D
    BY LenProperties
  <2> HIDE DEF n
  <2>2. n + 1 \in Nat /\ n + 1 \in E
    BY <2>1
  <2> QED BY <2>1, <2>2, LargestPicked
<1>2. \A i \in D : M[i] \in S
  BY <1>1, LenProperties
<1>3. CallsIn(<<>>) = 0
  <2>1. DOMAIN <<>> = {} /\ IsFiniteSet({})
    BY FS_EmptySet
  <2>2. CallsIn(<<>>) = SumOf(Lengths(<<>>), {})
    BY <2>1, CallsInIsSum
  <2>3. \A x \in {} : Lengths(<<>>)[x] \in Nat
    OBVIOUS
  <2> QED BY <2>1, <2>2, <2>3, SumProperties
<1>4. CallsIn(M) = SumOf(Lengths(M), D)
  BY <1>1, CallsInIsSum
<1>5. \A i \in D : Lengths(M)[i] = Len(M[i].calls) /\ Lengths(M)[i] \in Nat
  BY <1>1, <1>2 DEF Lengths
<1>6. CallsIn(M) \in Nat
  BY <1>1, <1>4, <1>5, SumProperties
<1>7. ASSUME NEW m \in S PROVE CallsIn(Append(M, m)) = CallsIn(M) + Len(m.calls)
  <2> DEFINE w == Append(M, m)
  <2>1. /\ DOMAIN w = E /\ w[n + 1] = m
        /\ \A i \in D : w[i] = M[i]
    BY AppendProperties, LenProperties
  <2> HIDE DEF w, n
  <2>2. CallsIn(w) = SumOf(Lengths(w), E)
    BY <1>1, <2>1, CallsInIsSum
  <2>3. \A i \in E : Lengths(w)[i] = Len(w[i].calls)
    BY <2>1 DEF Lengths
  <2>4. \A i \in D : i \in E /\ Lengths(w)[i] = Lengths(M)[i] /\ Lengths(w)[i] \in Nat
    BY <1>1, <1>5, <2>1, <2>3
  <2>5. Lengths(w)[n + 1] = Len(m.calls) /\ Len(m.calls) \in Nat
    BY <1>1, <2>1, <2>3
  <2>6. \A i \in E : Lengths(w)[i] \in Nat
    <3>1. \A i \in E : i \in D \/ i = n + 1
      BY <1>1
    <3> HIDE DEF E, D
    <3> QED BY <2>4, <2>5, <3>1
  <2>7. SumOf(Lengths(w), E) = Lengths(w)[n + 1] + SumOf(Lengths(w), D)
    <3> DEFINE f == Lengths(w)
    <3>1. \A x \in E : f[x] \in Nat
      BY <2>6
    <3> HIDE DEF f
    <3>2. \A x \in E : SumOf(f, E) = f[x] + SumOf(f, E \ {x})
      BY <1>1, <3>1, SumProperties
    <3>3. SumOf(f, E) = f[n + 1] + SumOf(f, E \ {n + 1})
      BY <1>1, <3>2
    <3> QED BY <1>1, <3>3 DEF f
  <2>8. SumOf(Lengths(M), D) = SumOf(Lengths(w), D)
    BY <1>1, <1>5, <2>4, SumAgrees
  <2> QED BY <1>4, <1>6, <2>2, <2>5, <2>7, <2>8 DEF w
<1> QED BY <1>3, <1>6, <1>7

\* Messages without calls add none.
LEMMA CallsInSame ==
  ASSUME NEW S, \A m \in S : Len(m.calls) \in Nat, NEW M \in Seq(S), NEW t \in Seq(S),
         \A i \in DOMAIN t : Len(t[i].calls) = 0
  PROVE  CallsIn(M \o t) = CallsIn(M)
<1> DEFINE B == {u \in Seq(S) : (\A i \in DOMAIN u : Len(u[i].calls) = 0)
                                  => CallsIn(M \o u) = CallsIn(M)}
<1>1. <<>> \in B
  BY EmptySeq, ConcatEmptySeq
<1>2. ASSUME NEW u \in B, NEW x \in S PROVE Append(u, x) \in B
  <2>1. u \in Seq(S) /\ Append(u, x) \in Seq(S) /\ M \o u \in Seq(S)
    BY AppendProperties, ConcatProperties
  <2>2. ASSUME \A i \in DOMAIN Append(u, x) : Len(Append(u, x)[i].calls) = 0
        PROVE  CallsIn(M \o Append(u, x)) = CallsIn(M)
    <3>1. /\ Len(u) \in Nat /\ DOMAIN u = 1..Len(u) /\ DOMAIN Append(u, x) = 1..(Len(u) + 1)
          /\ \A i \in DOMAIN u : Append(u, x)[i] = u[i]
          /\ Append(u, x)[Len(u) + 1] = x
      BY <2>1, AppendProperties, LenProperties
    <3>2. (\A i \in DOMAIN u : Len(u[i].calls) = 0) /\ Len(x.calls) = 0
      BY <2>2, <3>1
    <3>3. CallsIn(M \o u) = CallsIn(M)
      BY <3>2
    <3>4. M \o Append(u, x) = Append(M \o u, x)
      BY <2>1, AppendConcat
    <3>5. CallsIn(Append(M \o u, x)) = CallsIn(M \o u) + Len(x.calls) /\ CallsIn(M \o u) \in Nat
      BY <2>1, CallsInMore
    <3> QED BY <3>2, <3>3, <3>4, <3>5
  <2> QED BY <2>1, <2>2
<1>3. B = Seq(S)
  <2>1. B \in SUBSET Seq(S)
    OBVIOUS
  <2> HIDE DEF B
  <2> QED BY <1>1, <1>2, <2>1, SequenceInduction
<1> QED BY <1>3

-----------------------------------------------------------------------------
(* What a message becomes, translated: the results of the user's, then the answers of the model. *)

Ids == {NoId} \cup {<<"call", n>> : n \in Nat} \cup {<<"call", n, 0>> : n \in Nat}
         \cup {<<"toolu", n, k>> : n \in Nat, k \in Nat}
Arguments == {"none", "json", "torn", "empty"}
BlockTypes == {"text", "image", "thinking", "tool_use", "tool_result"}
Invocations == [id : Ids, args : Arguments]
ContentBlocks == [type : BlockTypes, id : Ids, args : Arguments]
Answers == [text : {"none", "plain", "pseudo"}, calls : Seq(Invocations)]
HistoryMessages == [role : {"user", "assistant"}, content : Seq(ContentBlocks)]
ChatMessages == [role : {"system", "user", "assistant", "tool"}, content : Seq(BlockTypes),
                 calls : Seq(Invocations), answers : Ids]

\* A function of the numbers up to n is a sequence of that length.
LEMMA ListIsSequence ==
  ASSUME NEW S, NEW n \in Nat, NEW g \in [1..n -> S]
  PROVE  g \in Seq(S) /\ Len(g) = n /\ DOMAIN g = 1..n
<1>1. g \in Seq(S)
  BY SeqDef
<1>2. Len(g) \in Nat /\ DOMAIN g = 1..Len(g) /\ DOMAIN g = 1..n
  BY <1>1, LenProperties
<1>3. Len(g) = n
  <2> DEFINE l == Len(g)
  <2>1. l \in Nat /\ 1..l = 1..n
    BY <1>2
  <2> HIDE DEF l
  <2>2. (l \in 1..l <=> l \in 1..n) /\ (n \in 1..n <=> n \in 1..l)
    BY <2>1
  <2>3. l = n
    BY <2>1, <2>2
  <2> QED BY <2>3 DEF l
<1> QED BY <1>1, <1>2, <1>3

\* A sequence of one.
LEMMA OneMember ==
  ASSUME NEW S, NEW x \in S
  PROVE  /\ <<x>> \in Seq(S) /\ Len(<<x>>) = 1 /\ DOMAIN <<x>> = {1} /\ <<x>>[1] = x
         /\ \A s \in Seq(S) : s \o <<x>> = Append(s, x)
BY AppendIsConcat

\* The blocks that a client or the gateway makes.
LEMMA BlocksTyped ==
  /\ TextBlock \in ContentBlocks /\ TextBlock.type = "text"
  /\ Block("image") \in ContentBlocks /\ Block("image").type = "image"
  /\ Block("thinking") \in ContentBlocks /\ Block("thinking").type = "thinking"
  /\ NoId \in Ids
BY DEF TextBlock, Block, ContentBlocks, BlockTypes, Ids, Arguments

\* The types of a list of blocks.
LEMMA TypesTyped ==
  ASSUME NEW c \in Seq(ContentBlocks)
  PROVE  Types(c) \in Seq(BlockTypes) /\ (Types(c) = <<>> <=> c = <<>>)
<1>1. Len(c) \in Nat /\ DOMAIN c = 1..Len(c) /\ \A i \in 1..Len(c) : c[i] \in ContentBlocks
  BY LenProperties
<1>2. Types(c) \in [1..Len(c) -> BlockTypes]
  BY <1>1 DEF Types, ContentBlocks
<1>3. Types(c) \in Seq(BlockTypes) /\ Len(Types(c)) = Len(c)
  BY <1>1, <1>2, ListIsSequence
<1> QED BY <1>3, EmptySeq

\* A message to the model, field by field.
LEMMA ChatMessageIs ==
  ASSUME NEW r \in {"system", "user", "assistant", "tool"}, NEW c \in Seq(ContentBlocks)
  PROVE  /\ ChatMessage(r, c) \in ChatMessages
         /\ ChatMessage(r, c).role = r /\ ChatMessage(r, c).content = Types(c)
         /\ ChatMessage(r, c).calls = <<>> /\ ChatMessage(r, c).answers = NoId
<1>1. Types(c) \in Seq(BlockTypes) /\ <<>> \in Seq(Invocations) /\ NoId \in Ids
  BY TypesTyped, EmptySeq, BlocksTyped
<1> QED BY <1>1 DEF ChatMessage, ChatMessages

\* Every message has a number of calls.
LEMMA CallsAreSequences ==
  \A m \in ChatMessages : Len(m.calls) \in Nat /\ m.calls \in Seq(Invocations)
<1> SUFFICES ASSUME NEW m \in ChatMessages PROVE Len(m.calls) \in Nat /\ m.calls \in Seq(Invocations)
  OBVIOUS
<1>1. m.calls \in Seq(Invocations)
  BY DEF ChatMessages
<1> QED BY <1>1, LenProperties

-----------------------------------------------------------------------------
\* The messages T bring a model the results of its calls, in this order, and tell it nothing in
\* its own name.
Brings(T, results) ==
  /\ T \in Seq(ChatMessages)
  /\ \A i \in DOMAIN T : T[i].role \in {"user", "tool"} /\ Len(T[i].calls) = 0
  /\ Len(results) <= Len(T)
  /\ \A j \in 1..Len(results) : T[j].answers = results[j].id
  /\ Len(Those(T, "role", {"tool"})) = Len(results)

\* The results of one message, each as one of its own.
LEMMA ToolsTold ==
  ASSUME NEW c \in Seq(ContentBlocks)
  PROVE  LET results == Of(c, {"tool_result"})
             T == ToolMessages(c)
         IN /\ T \in Seq(ChatMessages) /\ Len(T) = Len(results) /\ results \in Seq(ContentBlocks)
            /\ \A i \in 1..Len(results) : /\ T[i].role = "tool" /\ Len(T[i].calls) = 0
                                          /\ T[i].answers = results[i].id
<1> DEFINE results == Of(c, {"tool_result"})
           T == ToolMessages(c)
           message == ChatMessage("tool", <<TextBlock>>)
           n == Len(results)
<1>1. /\ results \in Seq(ContentBlocks) /\ n \in Nat /\ DOMAIN results = 1..n
      /\ \A i \in 1..n : results[i] \in ContentBlocks /\ results[i].id \in Ids
  <2>1. results \in Seq(ContentBlocks)
    BY ThoseMore DEF Of
  <2> HIDE DEF results
  <2>2. n \in Nat /\ DOMAIN results = 1..n /\ \A i \in 1..n : results[i] \in ContentBlocks
    BY <2>1, LenProperties
  <2>3. \A b \in ContentBlocks : b.id \in Ids
    BY DEF ContentBlocks
  <2> QED BY <2>1, <2>2, <2>3
<1>2. message \in ChatMessages /\ message.role = "tool" /\ message.calls = <<>>
  <2>1. <<TextBlock>> \in Seq(ContentBlocks)
    BY BlocksTyped, OneMember
  <2> QED BY <2>1, ChatMessageIs
<1>3. T = [i \in DOMAIN results |-> [message EXCEPT !.answers = results[i].id]]
  BY DEF ToolMessages
<1> HIDE DEF results, T, message, n
<1>4. ASSUME NEW i \in 1..n
      PROVE  /\ T[i] \in ChatMessages /\ T[i].role = "tool" /\ T[i].calls = <<>>
             /\ T[i].answers = results[i].id
  <2>1. T[i] = [message EXCEPT !.answers = results[i].id]
    BY <1>1, <1>3
  <2> QED BY <1>1, <1>2, <2>1 DEF ChatMessages
<1>5. T \in [1..n -> ChatMessages]
  BY <1>1, <1>3, <1>4
<1>6. T \in Seq(ChatMessages) /\ Len(T) = n
  BY <1>1, <1>5, ListIsSequence
<1>7. Len(<<>>) = 0
  BY EmptySeq
<1>8. \A i \in 1..n : T[i].role = "tool" /\ Len(T[i].calls) = 0 /\ T[i].answers = results[i].id
  BY <1>4, <1>7
<1> QED BY <1>1, <1>6, <1>8 DEF results, T, n

\* A message of the user alone brings no results.
LEMMA UserAlone ==
  ASSUME NEW c \in Seq(ContentBlocks)
  PROVE  Brings(<<ChatMessage("user", c)>>, <<>>) /\ Brings(<<>>, <<>>)
<1> DEFINE m == ChatMessage("user", c)
<1>1. m \in ChatMessages /\ m.role = "user" /\ m.calls = <<>> /\ Len(<<>>) = 0
  BY ChatMessageIs, EmptySeq
<1> HIDE DEF m
<1>2. /\ <<m>> \in Seq(ChatMessages) /\ Len(<<m>>) = 1 /\ DOMAIN <<m>> = {1} /\ <<m>>[1] = m
      /\ <<>> \in Seq(ChatMessages) /\ DOMAIN <<>> = {}
  BY <1>1, OneMember, EmptySeq
<1>3. \A i \in DOMAIN <<m>> : <<m>>[i]["role"] \notin {"tool"}
  BY <1>1, <1>2
<1>4. Those(<<m>>, "role", {"tool"}) = <<>> /\ Those(<<>>, "role", {"tool"}) = <<>>
  <2> DEFINE w == <<m>>
  <2>1. w \in Seq(ChatMessages) /\ \A i \in DOMAIN w : w[i]["role"] \notin {"tool"}
    BY <1>2, <1>3
  <2> HIDE DEF w
  <2>2. Those(w, "role", {"tool"}) = <<>>
    BY <2>1, ThoseAllOrNone
  <2>3. Those(<<>>, "role", {"tool"}) = <<>>
    BY <1>2, ThoseMore
  <2> QED BY <2>2, <2>3 DEF w
<1>5. Brings(<<m>>, <<>>)
  BY <1>1, <1>2, <1>4 DEF Brings
<1>6. Brings(<<>>, <<>>)
  BY <1>1, <1>2, <1>4 DEF Brings
<1> QED BY <1>5, <1>6 DEF m

\* The results come first, whatever of the user stands beside them.
LEMMA ResultsBrought ==
  ASSUME NEW c \in Seq(ContentBlocks), NEW U, Brings(U, <<>>)
  PROVE  Brings(ToolMessages(c) \o U, Of(c, {"tool_result"}))
<1> DEFINE results == Of(c, {"tool_result"})
           T == ToolMessages(c)
           n == Len(results)
           W == T \o U
<1>1. /\ T \in Seq(ChatMessages) /\ Len(T) = n /\ results \in Seq(ContentBlocks)
      /\ \A i \in 1..n : T[i].role = "tool" /\ Len(T[i].calls) = 0 /\ T[i].answers = results[i].id
  BY ToolsTold
<1> HIDE DEF results, T
<1>2. /\ U \in Seq(ChatMessages) /\ Len(Those(U, "role", {"tool"})) = 0
      /\ \A i \in DOMAIN U : U[i].role \in {"user", "tool"} /\ Len(U[i].calls) = 0
  BY EmptySeq DEF Brings
<1>3. n \in Nat /\ Len(U) \in Nat /\ DOMAIN T = 1..n /\ DOMAIN U = 1..Len(U)
  BY <1>1, <1>2, LenProperties
<1>4. /\ W \in Seq(ChatMessages) /\ Len(W) = n + Len(U) /\ DOMAIN W = 1..(n + Len(U))
      /\ \A i \in 1..(n + Len(U)) : W[i] = IF i <= n THEN T[i] ELSE U[i - n]
  <2>1. /\ W \in Seq(ChatMessages) /\ Len(W) = Len(T) + Len(U)
        /\ \A i \in 1..(Len(T) + Len(U)) : W[i] = IF i <= Len(T) THEN T[i] ELSE U[i - Len(T)]
    <3>1. T \in Seq(ChatMessages) /\ U \in Seq(ChatMessages)
      BY <1>1, <1>2
    <3> QED BY <3>1, ConcatProperties
  <2> HIDE DEF W
  <2>2. DOMAIN W = 1..Len(W)
    BY <2>1, LenProperties
  <2> QED BY <1>1, <2>1, <2>2
<1> HIDE DEF W, n
<1>5. ASSUME NEW i \in DOMAIN W PROVE W[i].role \in {"user", "tool"} /\ Len(W[i].calls) = 0
  <2>1. CASE i <= n
    <3>1. i \in 1..n /\ W[i] = T[i]
      BY <1>3, <1>4, <2>1
    <3> QED BY <1>1, <3>1
  <2>2. CASE ~(i <= n)
    <3>1. i - n \in 1..Len(U) /\ W[i] = U[i - n]
      BY <1>3, <1>4, <2>2
    <3> QED BY <1>2, <1>3, <3>1
  <2> QED BY <2>1, <2>2
<1>6. \A j \in 1..n : W[j].answers = results[j].id
  <2> SUFFICES ASSUME NEW j \in 1..n PROVE W[j].answers = results[j].id
    OBVIOUS
  <2>1. W[j] = T[j]
    BY <1>3, <1>4
  <2> QED BY <1>1, <2>1
<1>7. Len(Those(W, "role", {"tool"})) = n
  <2>1. Those(W, "role", {"tool"}) = Those(T, "role", {"tool"}) \o Those(U, "role", {"tool"})
    BY <1>1, <1>2, ThoseOfBoth DEF W
  <2>2. \A i \in DOMAIN T : T[i]["role"] \in {"tool"}
    BY <1>1, <1>3
  <2>3. Those(T, "role", {"tool"}) = T
    BY <1>1, <2>2, ThoseAllOrNone
  <2>4. Those(U, "role", {"tool"}) \in Seq(ChatMessages)
    BY <1>2, ThoseMore
  <2> QED BY <1>1, <1>2, <1>3, <2>1, <2>3, <2>4, ConcatProperties
<1>8. n <= Len(W)
  BY <1>3, <1>4
<1>9. Brings(W, results)
  BY <1>4, <1>5, <1>6, <1>7, <1>8 DEF Brings, n
<1> QED BY <1>9 DEF W, T, results

\* A message of the user, translated for either API, brings the results that it has, if any.
LEMMA UserBrings ==
  ASSUME NEW m \in HistoryMessages, m.role = "user"
  PROVE  /\ Brings(TranslateMessage(m), Of(m.content, {"tool_result"}))
         /\ Brings(TranslateItem(m), <<>>)
<1> DEFINE c == m.content
           shown == NormalizeBlocks(c)
           results == Of(c, {"tool_result"})
<1>1. c \in Seq(ContentBlocks)
  BY DEF HistoryMessages
<1>2. shown \in Seq(ContentBlocks)
  BY <1>1, ThoseMore DEF NormalizeBlocks, Of
<1>3. Brings(<<ChatMessage("user", shown)>>, <<>>) /\ Brings(<<>>, <<>>)
  BY <1>2, UserAlone
<1>4. Brings(UserBeside(c), <<>>)
  BY <1>3 DEF UserBeside
<1>5. Brings(ResultsFirst(c), results)
  BY <1>1, <1>4, ResultsBrought DEF ResultsFirst
<1>6. TranslateMessage(m) = IF results # <<>> THEN ResultsFirst(c) ELSE <<ChatMessage("user", shown)>>
  BY DEF TranslateMessage
<1>7. TranslateItem(m) = IF shown = <<>> THEN <<>> ELSE <<ChatMessage("user", shown)>>
  BY DEF TranslateItem
<1> HIDE DEF c, shown, results
<1>8. Brings(TranslateMessage(m), results)
  <2>1. CASE results # <<>>
    BY <1>5, <1>6, <2>1
  <2>2. CASE results = <<>>
    <3>1. TranslateMessage(m) = <<ChatMessage("user", shown)>>
      BY <1>6, <2>2
    <3> QED BY <1>3, <2>2, <3>1
  <2> QED BY <2>1, <2>2
<1>9. Brings(TranslateItem(m), <<>>)
  BY <1>3, <1>7
<1> QED BY <1>8, <1>9 DEF c, results

\* The message m tells a model its answer a, whose calls its client was shown as these uses.
Retells(m, a, uses) ==
  /\ m \in ChatMessages /\ m.role = "assistant" /\ Agrees(m, a)
  /\ Len(m.calls) = Len(uses)
  /\ \A j \in 1..Len(uses) : m.calls[j].id = uses[j].id

\* The answer as promoted differs from what the model gave in the ids alone.
Means(a, h) ==
  /\ a \in Answers /\ h \in Answers /\ a.text = h.text /\ Len(a.calls) = Len(h.calls)
  /\ \A i \in DOMAIN h.calls : h.calls[i].id \in {NoId, a.calls[i].id} /\ h.calls[i].args = a.calls[i].args

\* A call that the model wrote as text is promoted as one that it made.
LEMMA PromotedAlike ==
  ASSUME NEW answer \in Answers, Len(said) \in Nat
  PROVE  Means(Promote(answer), Heard(answer))
<1> DEFINE made == Invocation(<<"call", Len(said)>>, "json")
           meant == Invocation(NoId, "json")
<1>1. /\ made \in Invocations /\ made.args = "json"
      /\ meant \in Invocations /\ meant.args = "json" /\ meant.id = NoId
  BY DEF Invocation, Invocations, Ids, Arguments
<1>2. CASE Normalizing /\ answer.text = "pseudo" /\ answer.calls = <<>>
  <2>1. Extract(answer) = <<made>> /\ <<made>> # <<>>
    BY <1>2 DEF Extract
  <2>2. /\ Promote(answer) = [text |-> "none", calls |-> <<made>>]
        /\ Heard(answer) = [text |-> "none", calls |-> <<meant>>]
    BY <1>2, <2>1 DEF Promote, Heard
  <2> HIDE DEF made, meant
  <2>3. /\ <<made>> \in Seq(Invocations) /\ Len(<<made>>) = 1 /\ <<made>>[1] = made
        /\ <<meant>> \in Seq(Invocations) /\ Len(<<meant>>) = 1 /\ <<meant>>[1] = meant
        /\ DOMAIN <<meant>> = {1}
    BY <1>1, OneMember
  <2> QED BY <1>1, <2>2, <2>3 DEF Means, Answers
<1>3. CASE ~(Normalizing /\ answer.text = "pseudo" /\ answer.calls = <<>>)
  <2>1. Heard(answer) = answer
    BY <1>3 DEF Heard
  <2>2. answer.text # "pseudo" => Extract(answer) = <<>>
    BY DEF Extract
  <2>3. Promote(answer) = answer
    BY <1>3, <2>2 DEF Promote
  <2> QED BY <2>1, <2>3 DEF Means
<1> QED BY <1>2, <1>3

\* A call as the client is shown it: with an id, and with arguments that parse.
LEMMA UseIs ==
  ASSUME NEW c \in Invocations, NEW i \in Nat, Len(said) \in Nat
  PROVE  /\ ToolUse(c, i) \in ContentBlocks /\ ToolUse(c, i).type = "tool_use"
         /\ c.id # NoId => ToolUse(c, i).id = c.id
         /\ c.args \in {"torn", ToolUse(c, i).args}
<1>1. <<"toolu", Len(said), i>> \in Ids
  BY DEF Ids
<1>2. c.id \in Ids /\ c.args \in Arguments
  BY DEF Invocations
<1> QED BY <1>1, <1>2 DEF ToolUse, ContentBlocks, BlockTypes, Arguments

\* What of an answer is shown as text.
LEMMA TextShown ==
  ASSUME NEW a \in Answers
  PROVE  /\ TextBlocks(a) \in Seq(ContentBlocks) /\ (TextBlocks(a) = <<>> <=> a.text = "none")
         /\ \A i \in DOMAIN TextBlocks(a) : TextBlocks(a)[i]["type"] = "text"
<1>1. /\ <<TextBlock>> \in Seq(ContentBlocks) /\ <<TextBlock>> # <<>>
      /\ DOMAIN <<TextBlock>> = {1} /\ <<TextBlock>>[1]["type"] = "text"
  BY BlocksTyped, OneMember
<1>2. <<>> \in Seq(ContentBlocks) /\ DOMAIN <<>> = {}
  BY EmptySeq
<1> QED BY <1>1, <1>2 DEF TextBlocks

\* The calls of an answer as the client is shown them.
UsesOf(a) == [i \in DOMAIN a.calls |-> ToolUse(a.calls[i], i)]

\* One use for each call.
LEMMA UsesAre ==
  ASSUME NEW a \in Answers, Len(said) \in Nat
  PROVE  LET uses == UsesOf(a) IN
         /\ uses \in Seq(ContentBlocks) /\ Len(uses) = Len(a.calls) /\ Len(uses) \in Nat
         /\ DOMAIN uses = 1..Len(uses) /\ DOMAIN a.calls = 1..Len(uses)
         /\ \A i \in 1..Len(uses) : /\ a.calls[i] \in Invocations
                                    /\ uses[i] = ToolUse(a.calls[i], i)
                                    /\ uses[i] \in ContentBlocks /\ uses[i]["type"] = "tool_use"
<1> DEFINE n == Len(a.calls)
           uses == UsesOf(a)
<1>1. a.calls \in Seq(Invocations)
  BY DEF Answers
<1>2. n \in Nat /\ DOMAIN a.calls = 1..n /\ \A i \in 1..n : a.calls[i] \in Invocations
  BY <1>1, LenProperties
<1>3. \A i \in 1..n : uses[i] = ToolUse(a.calls[i], i) /\ i \in Nat
  BY <1>2 DEF UsesOf
<1>4. \A i \in 1..n : uses[i] \in ContentBlocks /\ uses[i]["type"] = "tool_use"
  <2> SUFFICES ASSUME NEW i \in 1..n PROVE uses[i] \in ContentBlocks /\ uses[i]["type"] = "tool_use"
    OBVIOUS
  <2>1. ToolUse(a.calls[i], i) \in ContentBlocks /\ ToolUse(a.calls[i], i).type = "tool_use"
    BY <1>2, <1>3, UseIs
  <2> QED BY <1>3, <2>1
<1>5. uses \in [1..n -> ContentBlocks]
  BY <1>2, <1>3, <1>4 DEF UsesOf
<1>6. uses \in Seq(ContentBlocks) /\ Len(uses) = n /\ DOMAIN uses = 1..n
  BY <1>2, <1>5, ListIsSequence
<1> QED BY <1>2, <1>3, <1>4, <1>6

\* The blocks of an answer, and what is taken of them.
LEMMA AnswerShown ==
  ASSUME NEW answer \in Answers, Len(said) \in Nat
  PROVE  LET a == Promote(answer)
             c == ToMessages(answer)
         IN /\ c \in Seq(ContentBlocks) /\ Of(c, {"tool_use"}) = UsesOf(a)
            /\ Of(c, {"text"}) = TextBlocks(a) /\ NormalizeBlocks(c) = TextBlocks(a)
<1> DEFINE a == Promote(answer)
           c == ToMessages(answer)
           text == TextBlocks(a)
           uses == UsesOf(a)
<1>1. a \in Answers
  BY PromotedAlike DEF Means
<1>2. c = text \o uses
  BY DEF ToMessages, UsesOf
<1> HIDE DEF a, c
<1>3. text \in Seq(ContentBlocks) /\ \A i \in DOMAIN text : text[i]["type"] = "text"
  BY <1>1, TextShown
<1>4. uses \in Seq(ContentBlocks) /\ \A i \in DOMAIN uses : uses[i]["type"] = "tool_use"
  BY <1>1, UsesAre
<1> HIDE DEF text, uses
<1>5. c \in Seq(ContentBlocks)
  BY <1>2, <1>3, <1>4, ConcatProperties
<1>6. \A V : Of(c, V) = Those(text, "type", V) \o Those(uses, "type", V)
  BY <1>2, <1>3, <1>4, ThoseOfBoth DEF Of
<1>7. /\ \A V : "text" \in V => Those(text, "type", V) = text
      /\ \A V : "text" \notin V => Those(text, "type", V) = <<>>
      /\ \A V : "tool_use" \in V => Those(uses, "type", V) = uses
      /\ \A V : "tool_use" \notin V => Those(uses, "type", V) = <<>>
  <2>1. ASSUME NEW V PROVE /\ "text" \in V => Those(text, "type", V) = text
                           /\ "text" \notin V => Those(text, "type", V) = <<>>
    BY <1>3, ThoseAllOrNone
  <2>2. ASSUME NEW V PROVE /\ "tool_use" \in V => Those(uses, "type", V) = uses
                           /\ "tool_use" \notin V => Those(uses, "type", V) = <<>>
    BY <1>4, ThoseAllOrNone
  <2> QED BY <2>1, <2>2
<1>8. text \o <<>> = text /\ <<>> \o uses = uses
  BY <1>3, <1>4, ConcatEmptySeq
<1>9. Of(c, {"tool_use"}) = uses
  BY <1>6, <1>7, <1>8
<1>10. Of(c, {"text"}) = text
  BY <1>6, <1>7, <1>8
<1>11. Of(c, {"text", "image"}) = text
  BY <1>6, <1>7, <1>8, ZenonT(30)
<1> QED BY <1>5, <1>9, <1>10, <1>11 DEF a, c, text, uses, NormalizeBlocks

\* The calls that go back to the model.
LEMMA CallsReturned ==
  ASSUME NEW c \in Seq(ContentBlocks), NEW uses \in Seq(ContentBlocks), uses = Of(c, {"tool_use"})
  PROVE  LET t == AssistantWithCalls(c)
         IN /\ t \in ChatMessages /\ t.role = "assistant" /\ t.content = Types(Of(c, {"text"}))
            /\ Len(t.calls) = Len(uses)
            /\ \A i \in 1..Len(uses) : t.calls[i].id = uses[i].id /\ t.calls[i].args = uses[i].args
<1> DEFINE n == Len(uses)
           text == Of(c, {"text"})
           base == ChatMessage("assistant", text)
           calls == [i \in DOMAIN uses |-> [id |-> uses[i].id, args |-> uses[i].args]]
           t == AssistantWithCalls(c)
<1>1. t = [base EXCEPT !.calls = calls]
  BY DEF AssistantWithCalls
<1>2. text \in Seq(ContentBlocks)
  BY ThoseMore DEF Of
<1> HIDE DEF text
<1>3. base \in ChatMessages /\ base.role = "assistant" /\ base.content = Types(text)
  BY <1>2, ChatMessageIs
<1>4. n \in Nat /\ DOMAIN uses = 1..n /\ \A i \in 1..n : uses[i] \in ContentBlocks
  BY LenProperties
<1>5. ASSUME NEW i \in 1..n
      PROVE  /\ calls[i] \in Invocations
             /\ calls[i].id = uses[i].id /\ calls[i].args = uses[i].args
  <2>1. calls[i] = [id |-> uses[i].id, args |-> uses[i].args]
    BY <1>4
  <2> HIDE DEF calls
  <2>2. uses[i].id \in Ids /\ uses[i].args \in Arguments
    BY <1>4 DEF ContentBlocks
  <2> QED BY <2>1, <2>2 DEF Invocations
<1>6. calls \in [1..n -> Invocations]
  BY <1>4, <1>5
<1> HIDE DEF calls, base, t
<1>7. calls \in Seq(Invocations) /\ Len(calls) = n
  BY <1>4, <1>6, ListIsSequence
<1>8. /\ t \in ChatMessages /\ t.role = base.role /\ t.content = base.content
      /\ t.calls = calls
  BY <1>1, <1>3, <1>7 DEF ChatMessages
<1> QED BY <1>3, <1>5, <1>7, <1>8 DEF t, text

\* Whatever the history says, it is translated to messages.
LEMMA TranslationTyped ==
  ASSUME NEW m \in HistoryMessages
  PROVE  TranslateMessage(m) \in Seq(ChatMessages) /\ TranslateItem(m) \in Seq(ChatMessages)
<1>1. m.content \in Seq(ContentBlocks) /\ m.role \in {"user", "assistant"}
  BY DEF HistoryMessages
<1>2. CASE m.role = "user"
  BY <1>2, UserBrings DEF Brings
<1>3. CASE m.role = "assistant"
  <2> DEFINE c == m.content
             uses == Of(c, {"tool_use"})
             shown == NormalizeBlocks(c)
  <2>1. uses \in Seq(ContentBlocks) /\ shown \in Seq(ContentBlocks)
    BY <1>1, ThoseMore DEF Of, NormalizeBlocks
  <2>2. AssistantWithCalls(c) \in ChatMessages
    BY <1>1, <2>1, CallsReturned
  <2>3. ChatMessage("assistant", shown) \in ChatMessages
    BY <2>1, ChatMessageIs
  <2>4. /\ <<AssistantWithCalls(c)>> \in Seq(ChatMessages)
        /\ <<ChatMessage("assistant", shown)>> \in Seq(ChatMessages)
        /\ <<>> \in Seq(ChatMessages)
    BY <2>2, <2>3, OneMember, EmptySeq
  <2>5. TranslateMessage(m) = IF uses # <<>> THEN <<AssistantWithCalls(c)>>
                              ELSE <<ChatMessage("assistant", shown)>>
    BY <1>3 DEF TranslateMessage
  <2>6. TranslateItem(m) = IF shown = <<>> THEN <<>> ELSE <<ChatMessage("assistant", shown)>>
    BY <1>3 DEF TranslateItem
  <2> HIDE DEF c, uses, shown
  <2> QED BY <2>4, <2>5, <2>6
<1> QED BY <1>1, <1>2, <1>3

\* An answer that came back in the history is told as the model gave it.
LEMMA AnswerRetold ==
  ASSUME NEW answer \in Answers, Len(said) \in Nat
  PROVE  LET c == ToMessages(answer)
             m == [role |-> "assistant", content |-> c]
         IN /\ m \in HistoryMessages
            /\ \E t : TranslateMessage(m) = <<t>> /\ Retells(t, Heard(answer), Of(c, {"tool_use"}))
<1> DEFINE a == Promote(answer)
           h == Heard(answer)
           c == ToMessages(answer)
           m == [role |-> "assistant", content |-> c]
           text == TextBlocks(a)
           uses == UsesOf(a)
           n == Len(uses)
<1>1. /\ c \in Seq(ContentBlocks) /\ Of(c, {"tool_use"}) = uses
      /\ Of(c, {"text"}) = text /\ NormalizeBlocks(c) = text
  BY AnswerShown
<1>2. Means(a, h)
  BY PromotedAlike
<1> HIDE DEF a, h, c
<1>3. /\ text \in Seq(ContentBlocks) /\ (text = <<>> <=> h.text = "none")
      /\ Types(text) = <<>> <=> text = <<>>
  BY <1>2, TextShown, TypesTyped DEF Means
<1>4. /\ uses \in Seq(ContentBlocks) /\ n = Len(h.calls) /\ n \in Nat
      /\ DOMAIN uses = 1..n /\ DOMAIN h.calls = 1..n
      /\ \A i \in 1..n : a.calls[i] \in Invocations /\ uses[i] = ToolUse(a.calls[i], i)
  <2>1. h.calls \in Seq(Invocations)
    BY <1>2 DEF Means, Answers
  <2> QED BY <1>2, <2>1, UsesAre, LenProperties DEF Means
<1>5. ASSUME NEW i \in 1..n
      PROVE  /\ h.calls[i].id \in {NoId, uses[i].id}
             /\ h.calls[i].args \in {"torn", uses[i].args}
  <2>1. i \in Nat /\ i \in DOMAIN h.calls
    BY <1>4
  <2>2. /\ a.calls[i].id # NoId => ToolUse(a.calls[i], i).id = a.calls[i].id
        /\ a.calls[i].args \in {"torn", ToolUse(a.calls[i], i).args}
    BY <1>4, <2>1, UseIs
  <2>3. h.calls[i].id \in {NoId, a.calls[i].id} /\ h.calls[i].args = a.calls[i].args
    BY <1>2, <2>1 DEF Means
  <2> QED BY <1>4, <2>2, <2>3
<1> HIDE DEF text, uses
<1>6. m \in HistoryMessages /\ m.role = "assistant" /\ m.content = c
  BY <1>1 DEF HistoryMessages
<1> HIDE DEF m
<1>7. CASE uses # <<>>
  <2> DEFINE t == AssistantWithCalls(c)
  <2>1. TranslateMessage(m) = <<t>>
    BY <1>1, <1>6, <1>7 DEF TranslateMessage
  <2>2. /\ t \in ChatMessages /\ t.role = "assistant" /\ t.content = Types(text)
        /\ Len(t.calls) = n
        /\ \A i \in 1..n : t.calls[i].id = uses[i].id /\ t.calls[i].args = uses[i].args
    BY <1>1, <1>4, CallsReturned
  <2> HIDE DEF t, n
  <2>3. \A i \in DOMAIN h.calls : /\ h.calls[i].id \in {NoId, t.calls[i].id}
                                  /\ h.calls[i].args \in {"torn", t.calls[i].args}
    BY <1>4, <1>5, <2>2
  <2>4. (t.content = <<>>) = (h.text = "none")
    BY <1>3, <2>2
  <2>5. Agrees(t, h)
    BY <1>4, <2>2, <2>3, <2>4 DEF Agrees
  <2>6. Retells(t, h, uses)
    BY <2>2, <2>5 DEF Retells, n
  <2> QED BY <1>1, <1>6, <2>1, <2>6 DEF h, c, m
<1>8. CASE uses = <<>>
  <2> DEFINE t == ChatMessage("assistant", text)
  <2>1. TranslateMessage(m) = <<t>>
    BY <1>1, <1>6, <1>8 DEF TranslateMessage
  <2>2. n = 0 /\ Len(<<>>) = 0
    BY <1>8, EmptySeq
  <2>3. t \in ChatMessages /\ t.role = "assistant" /\ t.content = Types(text) /\ t.calls = <<>>
    BY <1>3, ChatMessageIs
  <2> HIDE DEF t, n
  <2>4. 1..n = {}
    BY <2>2
  <2>5. (t.content = <<>>) = (h.text = "none")
    BY <1>3, <2>3
  <2>6. Agrees(t, h)
    BY <1>4, <2>2, <2>3, <2>4, <2>5 DEF Agrees
  <2>7. Retells(t, h, uses)
    BY <2>2, <2>3, <2>4, <2>6 DEF Retells, n
  <2> QED BY <1>1, <1>6, <2>1, <2>7 DEF h, c, m
<1> QED BY <1>7, <1>8

\* A client of the Responses API brings back the text of an answer, if it had any.
LEMMA TextRetold ==
  ASSUME NEW answer \in Answers
  PROVE  LET m == [role |-> "assistant", content |-> ToResponses(answer)]
         IN /\ m \in HistoryMessages
            /\ answer.text = "none" => TranslateItem(m) = <<>>
            /\ answer.text # "none" =>
                 \E t \in ChatMessages : t.role = "assistant" /\ TranslateItem(m) = <<t>>
<1> DEFINE text == TextBlocks(answer)
           m == [role |-> "assistant", content |-> ToResponses(answer)]
           t == ChatMessage("assistant", text)
<1>1. /\ text \in Seq(ContentBlocks) /\ (text = <<>> <=> answer.text = "none")
      /\ \A i \in DOMAIN text : text[i]["type"] = "text"
  BY TextShown
<1>2. m \in HistoryMessages /\ m.role = "assistant" /\ m.content = text
  BY <1>1 DEF HistoryMessages, ToResponses
<1> HIDE DEF text, m
<1>3. NormalizeBlocks(text) = text
  <2>1. \A i \in DOMAIN text : text[i]["type"] \in {"text", "image"}
    BY <1>1
  <2> QED BY <1>1, <2>1, ThoseAllOrNone DEF NormalizeBlocks, Of
<1>4. t \in ChatMessages /\ t.role = "assistant"
  BY <1>1, ChatMessageIs
<1>5. TranslateItem(m) = IF text = <<>> THEN <<>> ELSE <<t>>
  BY <1>2, <1>3 DEF TranslateItem
<1> HIDE DEF t
<1> QED BY <1>1, <1>2, <1>4, <1>5 DEF m

-----------------------------------------------------------------------------
(* What a model was told, and what it still waits for. *)

\* The calls of the message at i have their results right behind it.
Resolved(M, i) ==
  LET n == Len(M[i].calls)
  IN i + n <= Len(M) /\ {M[i + j].answers : j \in 1..n} = {M[i].calls[j].id : j \in 1..n}

\* The message at i is the last one, and its calls are the ones that wait for results.
Pending(M, i, open) ==
  /\ i = Len(M) /\ Len(M[i].calls) = Len(open)
  /\ \A j \in 1..Len(open) : M[i].calls[j].id = open[j].id

\* ResultsInPlace, but for the calls that wait for results.
Behind(M, open) ==
  /\ \A i \in DOMAIN M : Len(M[i].calls) > 0 => Resolved(M, i) \/ Pending(M, i, open)
  /\ Len(Those(M, "role", {"tool"})) + Len(open) = CallsIn(M)

\* The messages M tell the model all that it said.
Retold(M, answers) ==
  LET told == Those(M, "role", {"assistant"})
  IN Len(told) = Len(answers) /\ \A k \in DOMAIN told : Agrees(told[k], Heard(answers[k]))

\* Messages of another role are not among the assistant's.
LEMMA OthersNotTaken ==
  ASSUME NEW M \in Seq(ChatMessages), NEW T \in Seq(ChatMessages), NEW r,
         \A i \in DOMAIN T : T[i].role # r
  PROVE  Those(M \o T, "role", {r}) = Those(M, "role", {r})
<1>1. \A i \in DOMAIN T : T[i]["role"] \notin {r}
  OBVIOUS
<1>2. Those(T, "role", {r}) = <<>> /\ Those(M, "role", {r}) \in Seq(ChatMessages)
  <2>1. Those(T, "role", {r}) = <<>>
    BY <1>1, ThoseAllOrNone
  <2>2. Those(M, "role", {r}) \in Seq(ChatMessages)
    BY ThoseMore
  <2> QED BY <2>1, <2>2
<1>3. Those(M \o T, "role", {r}) = Those(M, "role", {r}) \o <<>>
  <2>1. Those(M \o T, "role", {r}) = Those(M, "role", {r}) \o Those(T, "role", {r})
    BY ThoseOfBoth
  <2> QED BY <1>2, <2>1
<1> QED BY <1>2, <1>3, ConcatEmptySeq

\* What has been answered stays so, whatever follows.
LEMMA AnsweredStays ==
  ASSUME NEW M \in Seq(ChatMessages), NEW T \in Seq(ChatMessages), NEW i \in DOMAIN M
  PROVE  /\ M \o T \in Seq(ChatMessages) /\ (M \o T)[i] = M[i]
         /\ DOMAIN (M \o T) = 1..(Len(M) + Len(T))
         /\ Resolved(M, i) => Resolved(M \o T, i)
<1> DEFINE W == M \o T
           n == Len(M[i].calls)
<1>1. /\ Len(M) \in Nat /\ Len(T) \in Nat /\ DOMAIN M = 1..Len(M)
      /\ \A k \in 1..Len(M) : M[k] \in ChatMessages
  BY LenProperties
<1>2. /\ W \in Seq(ChatMessages) /\ Len(W) = Len(M) + Len(T)
      /\ \A k \in 1..(Len(M) + Len(T)) : W[k] = IF k <= Len(M) THEN M[k] ELSE T[k - Len(M)]
  BY ConcatProperties
<1>3. DOMAIN W = 1..(Len(M) + Len(T))
  BY <1>2, LenProperties
<1>4. n \in Nat
  BY <1>1, CallsAreSequences
<1> HIDE DEF W
<1>5. \A k \in 1..Len(M) : W[k] = M[k]
  BY <1>1, <1>2
<1>6. W[i] = M[i]
  BY <1>1, <1>5
<1>7. ASSUME Resolved(M, i) PROVE Resolved(W, i)
  <2>1. i + n <= Len(M) /\ {M[i + j].answers : j \in 1..n} = {M[i].calls[j].id : j \in 1..n}
    BY <1>7 DEF Resolved
  <2> HIDE DEF n
  <2>2. \A j \in 1..n : i + j \in 1..Len(M)
    BY <1>1, <1>4, <2>1
  <2>3. \A j \in 1..n : W[i + j] = M[i + j]
    BY <1>5, <2>2
  <2>4. {W[i + j].answers : j \in 1..n} = {M[i + j].answers : j \in 1..n}
    BY <2>3
  <2>5. i + n <= Len(W)
    BY <1>1, <1>2, <1>4, <2>1
  <2> QED BY <1>6, <2>1, <2>4, <2>5 DEF Resolved, n
<1> QED BY <1>2, <1>3, <1>6, <1>7 DEF W

\* The results arrive where they are waited for.
LEMMA PlacedByResults ==
  ASSUME NEW M \in Seq(ChatMessages), NEW open, NEW T, NEW results, Behind(M, open),
         Brings(T, results), Len(open) \in Nat, Len(results) = Len(open),
         {results[j].id : j \in 1..Len(open)} = {open[j].id : j \in 1..Len(open)}
  PROVE  /\ Behind(M \o T, <<>>)
         /\ Those(M \o T, "role", {"assistant"}) = Those(M, "role", {"assistant"})
<1> DEFINE W == M \o T
           l == Len(M)
           n == Len(open)
<1>1. /\ T \in Seq(ChatMessages) /\ n <= Len(T) /\ \A j \in 1..n : T[j].answers = results[j].id
      /\ \A i \in DOMAIN T : T[i].role \in {"user", "tool"} /\ Len(T[i].calls) = 0
      /\ Len(Those(T, "role", {"tool"})) = n
  BY DEF Brings
<1>2. l \in Nat /\ Len(T) \in Nat /\ DOMAIN M = 1..l /\ DOMAIN T = 1..Len(T)
  BY <1>1, LenProperties
<1>3. /\ W \in Seq(ChatMessages) /\ Len(W) = l + Len(T)
      /\ \A k \in 1..(l + Len(T)) : W[k] = IF k <= l THEN M[k] ELSE T[k - l]
  BY <1>1, ConcatProperties
<1>4. DOMAIN W = 1..(l + Len(T))
  BY <1>3, LenProperties
<1> HIDE DEF W, l
<1>5. ASSUME NEW i \in DOMAIN W, Len(W[i].calls) > 0 PROVE Resolved(W, i)
  <2>1. CASE i <= l
    <3>1. i \in DOMAIN M /\ W[i] = M[i]
      BY <1>2, <1>3, <1>4, <2>1
    <3>2. Resolved(M, i) \/ Pending(M, i, open)
      BY <1>5, <3>1 DEF Behind
    <3>3. CASE Resolved(M, i)
      BY <1>1, <3>1, <3>3, AnsweredStays DEF W
    <3>4. CASE Pending(M, i, open)
      <4>1. i = l /\ Len(M[i].calls) = n /\ \A j \in 1..n : M[i].calls[j].id = open[j].id
        BY <3>4 DEF Pending, l
      <4> HIDE DEF n
      <4>2. \A j \in 1..n : i + j \in 1..(l + Len(T)) /\ ~(i + j <= l) /\ (i + j) - l = j
        BY <1>1, <1>2, <4>1
      <4>3. \A j \in 1..n : W[i + j].answers = results[j].id
        BY <1>1, <1>3, <4>2
      <4>4. {W[i + j].answers : j \in 1..n} = {results[j].id : j \in 1..n}
        BY <4>3
      <4>5. {M[i].calls[j].id : j \in 1..n} = {open[j].id : j \in 1..n}
        BY <4>1, SMTT(30)
      <4>6. i + n <= Len(W)
        BY <1>1, <1>2, <1>3, <4>1 DEF n
      <4>7. {results[j].id : j \in 1..n} = {open[j].id : j \in 1..n}
        BY DEF n
      <4>8. W[i].calls = M[i].calls /\ Len(W[i].calls) = n
        BY <3>1, <4>1
      <4>9. {W[i].calls[j].id : j \in 1..n} = {open[j].id : j \in 1..n}
        BY <4>1, <4>8, SMTT(30)
      <4>10. {W[i + j].answers : j \in 1..n} = {W[i].calls[j].id : j \in 1..n}
        BY <4>4, <4>7, <4>9
      <4> QED BY <4>6, <4>8, <4>10 DEF Resolved
    <3> QED BY <3>2, <3>3, <3>4
  <2>2. CASE ~(i <= l)
    <3>1. i - l \in DOMAIN T /\ W[i] = T[i - l]
      BY <1>2, <1>3, <1>4, <2>2
    <3> QED BY <1>1, <1>5, <3>1
  <2> QED BY <2>1, <2>2
<1>6. Len(Those(W, "role", {"tool"})) = CallsIn(W)
  <2>1. Those(W, "role", {"tool"}) = Those(M, "role", {"tool"}) \o Those(T, "role", {"tool"})
    BY <1>1, ThoseOfBoth DEF W
  <2>2. Those(M, "role", {"tool"}) \in Seq(ChatMessages) /\ Those(T, "role", {"tool"}) \in Seq(ChatMessages)
    BY <1>1, ThoseMore
  <2>3. Len(Those(W, "role", {"tool"})) = Len(Those(M, "role", {"tool"})) + n
    BY <1>1, <2>1, <2>2, ConcatProperties
  <2>4. CallsIn(W) = CallsIn(M)
    <3>1. \A i \in DOMAIN T : Len(T[i].calls) = 0
      BY <1>1
    <3> QED BY <1>1, <3>1, CallsAreSequences, CallsInSame DEF W
  <2> QED BY <2>3, <2>4 DEF Behind
<1>7. Len(<<>>) = 0 /\ Len(Those(W, "role", {"tool"})) \in Nat
  <2>1. Those(W, "role", {"tool"}) \in Seq(ChatMessages)
    BY <1>3, ThoseMore
  <2> QED BY <2>1, EmptySeq, LenProperties
<1>8. Behind(W, <<>>)
  BY <1>5, <1>6, <1>7 DEF Behind
<1>9. Those(W, "role", {"assistant"}) = Those(M, "role", {"assistant"})
  <2>1. \A i \in DOMAIN T : T[i].role # "assistant"
    BY <1>1
  <2> QED BY <1>1, <2>1, OthersNotTaken DEF W
<1> QED BY <1>8, <1>9 DEF W

\* The model's answer is told last, and its calls are then waited for.
LEMMA PlacedByAnswer ==
  ASSUME NEW M \in Seq(ChatMessages), NEW m, NEW uses \in Seq(ContentBlocks),
         NEW answers \in Seq(Answers), NEW answer \in Answers, Behind(M, <<>>), Retold(M, answers),
         Retells(m, Heard(answer), uses)
  PROVE  /\ Behind(M \o <<m>>, uses)
         /\ Retold(M \o <<m>>, Append(answers, answer))
<1> DEFINE W == M \o <<m>>
           l == Len(M)
           told == Those(M, "role", {"assistant"})
           retold == Those(W, "role", {"assistant"})
<1>1. /\ m \in ChatMessages /\ m.role = "assistant" /\ Agrees(m, Heard(answer))
      /\ Len(m.calls) = Len(uses) /\ \A j \in 1..Len(uses) : m.calls[j].id = uses[j].id
  BY DEF Retells
<1>2. W = Append(M, m) /\ <<m>> \in Seq(ChatMessages)
  BY <1>1, OneMember
<1>3. /\ l \in Nat /\ DOMAIN M = 1..l /\ W \in Seq(ChatMessages) /\ Len(W) = l + 1
      /\ \A i \in 1..l : W[i] = M[i]
      /\ W[l + 1] = m /\ DOMAIN W = 1..(l + 1)
  BY <1>1, <1>2, AppendProperties, LenProperties
<1>4. Len(<<>>) = 0
  BY EmptySeq
<1> HIDE DEF l
<1>5. ASSUME NEW i \in DOMAIN W, Len(W[i].calls) > 0 PROVE Resolved(W, i) \/ Pending(W, i, uses)
  <2>1. CASE i = l + 1
    BY <1>1, <1>3, <2>1 DEF Pending
  <2>2. CASE i # l + 1
    <3>1. i \in DOMAIN M /\ W[i] = M[i]
      BY <1>3, <2>2
    <3>2. Resolved(M, i) \/ Pending(M, i, <<>>)
      BY <1>5, <3>1 DEF Behind
    <3>3. ~Pending(M, i, <<>>)
      BY <1>4, <1>5, <3>1 DEF Pending
    <3> QED BY <1>2, <3>1, <3>2, <3>3, AnsweredStays
  <2> QED BY <2>1, <2>2
<1>6. Those(W, "role", {"tool"}) = Those(M, "role", {"tool"})
  <2>1. m["role"] \notin {"tool"}
    BY <1>1
  <2>2. Those(Append(M, m), "role", {"tool"}) = Keeps(Those(M, "role", {"tool"}), m, "role", {"tool"})
    BY <1>1, ThoseMore
  <2> QED BY <1>2, <2>1, <2>2 DEF Keeps
<1>7. CallsIn(W) = CallsIn(M) + Len(uses)
  BY <1>1, <1>2, CallsAreSequences, CallsInMore
<1>8. Len(uses) \in Nat /\ CallsIn(M) \in Nat /\ Len(Those(M, "role", {"tool"})) \in Nat
  <2>1. Those(M, "role", {"tool"}) \in Seq(ChatMessages)
    BY ThoseMore
  <2> QED BY <2>1, LenProperties, CallsAreSequences, CallsInMore
<1>9. Len(Those(M, "role", {"tool"})) = CallsIn(M)
  BY <1>4, <1>8 DEF Behind
<1>10. Behind(W, uses)
  BY <1>5, <1>6, <1>7, <1>8, <1>9 DEF Behind
<1>11. told \in Seq(ChatMessages) /\ retold = Append(told, m)
  <2>1. m["role"] \in {"assistant"}
    BY <1>1
  <2>2. told \in Seq(ChatMessages)
    BY ThoseMore
  <2>3. Those(Append(M, m), "role", {"assistant"}) = Keeps(told, m, "role", {"assistant"})
    BY <1>1, ThoseMore
  <2> QED BY <1>2, <2>1, <2>2, <2>3 DEF Keeps
<1> HIDE DEF W, told, retold
<1>12. /\ Len(told) \in Nat /\ DOMAIN told = 1..Len(told)
       /\ Len(retold) = Len(told) + 1 /\ DOMAIN retold = 1..(Len(told) + 1)
       /\ \A k \in 1..Len(told) : retold[k] = told[k]
       /\ retold[Len(told) + 1] = m
  BY <1>1, <1>11, AppendProperties, LenProperties
<1>13. Len(told) = Len(answers) /\ \A k \in DOMAIN told : Agrees(told[k], Heard(answers[k]))
  BY DEF Retold, told
<1>14. /\ Len(Append(answers, answer)) = Len(answers) + 1
       /\ \A k \in 1..Len(answers) : Append(answers, answer)[k] = answers[k]
       /\ Append(answers, answer)[Len(answers) + 1] = answer
  BY AppendProperties
<1>15. ASSUME NEW k \in DOMAIN retold PROVE Agrees(retold[k], Heard(Append(answers, answer)[k]))
  <2>1. CASE k = Len(told) + 1
    BY <1>1, <1>12, <1>13, <1>14, <2>1
  <2>2. CASE k # Len(told) + 1
    <3>1. k \in 1..Len(told)
      BY <1>12, <2>2
    <3> QED BY <1>12, <1>13, <1>14, <3>1
  <2> QED BY <2>1, <2>2
<1>16. Retold(W, Append(answers, answer))
  BY <1>12, <1>13, <1>14, <1>15 DEF Retold, retold
<1> QED BY <1>10, <1>16 DEF W

\* The history, one message more.
LEMMA ChatGrows ==
  ASSUME NEW h \in Seq(HistoryMessages), NEW m \in HistoryMessages
  PROVE  /\ MessagesToChat(h) \in Seq(ChatMessages) /\ ResponsesToChat(h) \in Seq(ChatMessages)
         /\ MessagesToChat(Append(h, m)) = MessagesToChat(h) \o TranslateMessage(m)
         /\ ResponsesToChat(Append(h, m)) = ResponsesToChat(h) \o TranslateItem(m)
<1> DEFINE T == Seq(ChatMessages)
           w == Append(h, m)
           mh == [i \in DOMAIN h |-> TranslateMessage(h[i])]
           mw == [i \in DOMAIN w |-> TranslateMessage(w[i])]
           rh == [i \in DOMAIN h |-> TranslateItem(h[i])]
           rw == [i \in DOMAIN w |-> TranslateItem(w[i])]
           s == <<SystemMessage>>
<1>1. /\ Len(h) \in Nat /\ DOMAIN h = 1..Len(h) /\ w \in Seq(HistoryMessages)
      /\ Len(w) = Len(h) + 1 /\ DOMAIN w = 1..(Len(h) + 1)
      /\ w[Len(h) + 1] = m
      /\ \A i \in 1..Len(h) : w[i] = h[i] /\ h[i] \in HistoryMessages
  BY AppendProperties, LenProperties
<1> HIDE DEF w
<1>2. \A i \in 1..Len(h) : TranslateMessage(h[i]) \in T /\ TranslateItem(h[i]) \in T
  BY <1>1, TranslationTyped
<1>3. TranslateMessage(m) \in T /\ TranslateItem(m) \in T
  BY TranslationTyped
<1>4. \A i \in 1..(Len(h) + 1) : w[i] \in HistoryMessages
  BY <1>1, LenProperties
<1>5. \A i \in 1..(Len(h) + 1) : TranslateMessage(w[i]) \in T /\ TranslateItem(w[i]) \in T
  BY <1>4, TranslationTyped
<1>6. Len(h) + 1 \in Nat
  BY <1>1
<1> HIDE DEF T
<1>7. mh \in [1..Len(h) -> T] /\ rh \in [1..Len(h) -> T]
  BY <1>1, <1>2
<1>8. mw \in [1..(Len(h) + 1) -> T] /\ rw \in [1..(Len(h) + 1) -> T]
  BY <1>1, <1>5
<1>9. mh \in Seq(T) /\ Len(mh) = Len(h) /\ rh \in Seq(T) /\ Len(rh) = Len(h)
  BY <1>1, <1>7, ListIsSequence
<1>10. mw \in Seq(T) /\ Len(mw) = Len(h) + 1 /\ rw \in Seq(T) /\ Len(rw) = Len(h) + 1
  BY <1>6, <1>8, ListIsSequence
<1>11. /\ \A i \in 1..Len(h) : mw[i] = mh[i] /\ rw[i] = rh[i]
       /\ mw[Len(h) + 1] = TranslateMessage(m) /\ rw[Len(h) + 1] = TranslateItem(m)
  BY <1>1
<1>12. s \in T
  <2>1. SystemMessage \in ChatMessages
    <3>1. <<TextBlock>> \in Seq(ContentBlocks)
      BY BlocksTyped, OneMember
    <3> QED BY <3>1, ChatMessageIs DEF SystemMessage
  <2> QED BY <2>1, OneMember DEF T
<1>13. /\ MessagesToChat(h) = s \o FlattenSeq(mh) /\ MessagesToChat(w) = s \o FlattenSeq(mw)
       /\ ResponsesToChat(h) = s \o FlattenSeq(rh) /\ ResponsesToChat(w) = s \o FlattenSeq(rw)
  BY DEF MessagesToChat, ResponsesToChat
<1> HIDE DEF mh, mw, rh, rw, s
<1>14. mw = Append(mh, TranslateMessage(m))
  <2> DEFINE x == Append(mh, TranslateMessage(m))
  <2>1. /\ x \in Seq(T) /\ Len(x) = Len(h) + 1 /\ x[Len(h) + 1] = TranslateMessage(m)
        /\ \A i \in 1..Len(h) : x[i] = mh[i]
    BY <1>3, <1>9, AppendProperties
  <2> HIDE DEF x
  <2>2. \A i \in 1..(Len(h) + 1) : mw[i] = x[i]
    BY <1>1, <1>11, <2>1
  <2>3. mw = x
    BY <1>10, <2>1, <2>2, SeqEqual
  <2> QED BY <2>3 DEF x
<1>15. rw = Append(rh, TranslateItem(m))
  <2> DEFINE x == Append(rh, TranslateItem(m))
  <2>1. /\ x \in Seq(T) /\ Len(x) = Len(h) + 1 /\ x[Len(h) + 1] = TranslateItem(m)
        /\ \A i \in 1..Len(h) : x[i] = rh[i]
    BY <1>3, <1>9, AppendProperties
  <2> HIDE DEF x
  <2>2. \A i \in 1..(Len(h) + 1) : rw[i] = x[i]
    BY <1>1, <1>11, <2>1
  <2>3. rw = x
    BY <1>10, <2>1, <2>2, SeqEqual
  <2> QED BY <2>3 DEF x
<1>16. /\ FlattenSeq(mh) \in T /\ FlattenSeq(mw) = FlattenSeq(mh) \o TranslateMessage(m)
       /\ FlattenSeq(rh) \in T /\ FlattenSeq(rw) = FlattenSeq(rh) \o TranslateItem(m)
  BY <1>3, <1>9, <1>14, <1>15, FlattenMore DEF T
<1>17. /\ s \o (FlattenSeq(mh) \o TranslateMessage(m)) = (s \o FlattenSeq(mh)) \o TranslateMessage(m)
       /\ s \o (FlattenSeq(rh) \o TranslateItem(m)) = (s \o FlattenSeq(rh)) \o TranslateItem(m)
  <2> DEFINE a == FlattenSeq(mh)
             b == TranslateMessage(m)
             c == FlattenSeq(rh)
             d == TranslateItem(m)
  <2>1. a \in T /\ b \in T /\ c \in T /\ d \in T
    BY <1>3, <1>16
  <2> HIDE DEF a, b, c, d
  <2>2. \A p, q, u \in T : p \o (q \o u) = (p \o q) \o u
    BY Reassociated DEF T
  <2>3. s \o (a \o b) = (s \o a) \o b /\ s \o (c \o d) = (s \o c) \o d
    BY <1>12, <2>1, <2>2, SMTT(30)
  <2> QED BY <2>3 DEF a, b, c, d
<1>18. s \o FlattenSeq(mh) \in T /\ s \o FlattenSeq(rh) \in T
  BY <1>12, <1>16, ConcatProperties DEF T
<1> QED BY <1>13, <1>16, <1>17, <1>18 DEF w, T

\* Without a history a model is told the system's message alone.
LEMMA ChatStarts ==
  /\ MessagesToChat(<<>>) = <<SystemMessage>> /\ ResponsesToChat(<<>>) = <<SystemMessage>>
  /\ SystemMessage \in ChatMessages /\ SystemMessage.role = "system" /\ SystemMessage.calls = <<>>
<1>1. SystemMessage \in ChatMessages /\ SystemMessage.role = "system" /\ SystemMessage.calls = <<>>
  <2>1. <<TextBlock>> \in Seq(ContentBlocks)
    BY BlocksTyped, OneMember
  <2> QED BY <2>1, ChatMessageIs DEF SystemMessage
<1> DEFINE mh == [i \in DOMAIN <<>> |-> TranslateMessage(<<>>[i])]
           rh == [i \in DOMAIN <<>> |-> TranslateItem(<<>>[i])]
           s == <<SystemMessage>>
<1>2. mh = <<>> /\ rh = <<>>
  OBVIOUS
<1>3. FlattenSeq(<<>>) = <<>>
  BY EmptySeq, FlattenIsFlat
<1>4. MessagesToChat(<<>>) = s \o FlattenSeq(mh) /\ ResponsesToChat(<<>>) = s \o FlattenSeq(rh)
  BY DEF MessagesToChat, ResponsesToChat
<1>5. s \in Seq(ChatMessages)
  BY <1>1, OneMember
<1>6. s \o <<>> = s
  BY <1>5, ConcatEmptySeq
<1> QED BY <1>1, <1>2, <1>3, <1>4, <1>6

\* The calls whose results the client has not brought back.
Awaited == IF ClientsTurn THEN Open ELSE <<>>

Chat(h) == IF wire = "messages" THEN MessagesToChat(h) ELSE ResponsesToChat(h)
Words == Those(said, "text", {"plain", "pseudo"})

\* What was said, the history and what the model would be told of it.
TalkInv ==
  /\ wire \in {"messages", "responses"}
  /\ history \in Seq(HistoryMessages) /\ asked \in Seq(ChatMessages)
  /\ said \in Seq(Answers) /\ Len(said) <= AnswerBound
  /\ wire = "messages" => /\ Retold(MessagesToChat(history), said)
                          /\ Behind(MessagesToChat(history), Awaited)
  /\ wire = "responses" =>
       Len(Those(ResponsesToChat(history), "role", {"assistant"})) = Len(Words)
  /\ ~ClientsTurn => asked = Chat(history)

\* A conversation starts with the system's message.
LEMMA TalkStart == ConversationInit => TalkInv
<1> SUFFICES ASSUME ConversationInit PROVE TalkInv
  OBVIOUS
<1>1. wire \in {"messages", "responses"} /\ history = <<>> /\ asked = <<>> /\ said = <<>>
  BY DEF ConversationInit
<1>2. Len(<<>>) = 0 /\ DOMAIN <<>> = {} /\ AnswerBound \in Nat
  BY EmptySeq, ConversationAssumption
<1> DEFINE s == SystemMessage
           M == <<s>>
<1>3. /\ MessagesToChat(<<>>) = M /\ ResponsesToChat(<<>>) = M
      /\ s \in ChatMessages /\ s.role = "system" /\ s.calls = <<>>
  BY ChatStarts
<1> HIDE DEF s
<1>4. /\ M \in Seq(ChatMessages) /\ DOMAIN M = {1} /\ M[1] = s
      /\ M = Append(<<>>, s) /\ <<>> \in Seq(ChatMessages)
  BY <1>3, OneMember, EmptySeq
<1>5. Those(M, "role", {"assistant"}) = <<>> /\ Those(M, "role", {"tool"}) = <<>>
  <2>1. \A i \in DOMAIN M : M[i]["role"] \notin {"assistant"} /\ M[i]["role"] \notin {"tool"}
    BY <1>3, <1>4
  <2> HIDE DEF M
  <2>2. Those(M, "role", {"assistant"}) = <<>>
    BY <1>4, <2>1, ThoseAllOrNone
  <2>3. Those(M, "role", {"tool"}) = <<>>
    BY <1>4, <2>1, ThoseAllOrNone
  <2> QED BY <2>2, <2>3
<1>6. CallsIn(M) = 0
  <2>1. CallsIn(Append(<<>>, s)) = CallsIn(<<>>) + Len(s.calls) /\ CallsIn(<<>>) = 0
    BY <1>3, <1>4, CallsAreSequences, CallsInMore
  <2> QED BY <1>2, <1>3, <1>4, <2>1
<1> HIDE DEF M
<1>7. ClientsTurn /\ Awaited = <<>>
  BY <1>1 DEF ClientsTurn, Awaited, Open
<1>8. Retold(M, <<>>)
  BY <1>2, <1>5 DEF Retold
<1>9. Behind(M, <<>>)
  BY <1>2, <1>3, <1>4, <1>5, <1>6 DEF Behind
<1>10. Words = <<>>
  <2>1. <<>> \in Seq(Answers)
    BY EmptySeq
  <2> QED BY <1>1, <2>1, ThoseMore DEF Words
<1>11. /\ history \in Seq(HistoryMessages) /\ asked \in Seq(ChatMessages) /\ said \in Seq(Answers)
  BY <1>1, EmptySeq
<1> QED BY <1>1, <1>2, <1>3, <1>5, <1>7, <1>8, <1>9, <1>10, <1>11 DEF TalkInv

\* Whose turn it is after one message more.
LEMMA TurnsChange ==
  ASSUME NEW m, history \in Seq(HistoryMessages), m \in HistoryMessages,
         history' = Append(history, m)
  PROVE  /\ history' \in Seq(HistoryMessages)
         /\ ClientsTurn' <=> m.role = "assistant"
         /\ m.role = "user" => Awaited' = <<>>
         /\ m.role = "assistant" => Awaited' = Of(m.content, {"tool_use"})
<1>1. /\ history' \in Seq(HistoryMessages) /\ history' # <<>> /\ Len(history') = Len(history) + 1
      /\ history'[Len(history) + 1] = m
  BY AppendProperties
<1>2. Last(history') = m
  BY <1>1 DEF Last
<1>3. ClientsTurn' <=> m.role = "assistant"
  BY <1>1, <1>2 DEF ClientsTurn
<1>4. Open' = Of(m.content, {"tool_use"})
  BY <1>1, <1>2 DEF Open
<1>5. m.role = "user" => m.role # "assistant"
  OBVIOUS
<1> QED BY <1>1, <1>3, <1>4, <1>5 DEF Awaited

\* A request tells the model what it was told before, and brings the results that it waits for.
LEMMA RequestKeeps ==
  ASSUME TalkInv, NEW content \in Seq(ContentBlocks), Request(content), ClientsTurn,
         NEW results, results = Of(content, {"tool_result"}),
         Len(Awaited) \in Nat, Len(results) = Len(Awaited),
         {results[j].id : j \in 1..Len(Awaited)} = {Awaited[j].id : j \in 1..Len(Awaited)}
  PROVE  TalkInv'
<1> DEFINE m == [role |-> "user", content |-> content]
           M == MessagesToChat(history)
           R == ResponsesToChat(history)
<1>1. m \in HistoryMessages /\ m.role = "user" /\ m.content = content
  BY DEF HistoryMessages
<1> HIDE DEF m
<1>2. history' = Append(history, m) /\ wire' = wire /\ said' = said /\ asked' = Chat(history')
  BY DEF Request, Chat, m
<1>3. /\ wire \in {"messages", "responses"} /\ history \in Seq(HistoryMessages)
      /\ said \in Seq(Answers) /\ Len(said) <= AnswerBound
  BY DEF TalkInv
<1>4. history' \in Seq(HistoryMessages) /\ ~ClientsTurn' /\ Awaited' = <<>>
  BY <1>1, <1>2, <1>3, TurnsChange
<1>5. /\ M \in Seq(ChatMessages) /\ R \in Seq(ChatMessages)
      /\ MessagesToChat(history') = M \o TranslateMessage(m)
      /\ ResponsesToChat(history') = R \o TranslateItem(m)
  BY <1>1, <1>2, <1>3, ChatGrows
<1>6. Brings(TranslateMessage(m), results) /\ Brings(TranslateItem(m), <<>>)
  BY <1>1, UserBrings
<1> HIDE DEF M, R
<1>7. Chat(history)' \in Seq(ChatMessages) /\ asked' = Chat(history)'
  <2>1. MessagesToChat(history') \in Seq(ChatMessages) /\ ResponsesToChat(history') \in Seq(ChatMessages)
    BY <1>5, <1>6, ConcatProperties DEF Brings
  <2>2. asked' = IF wire' = "messages" THEN MessagesToChat(history') ELSE ResponsesToChat(history')
    BY <1>2 DEF Request, m
  <2> QED BY <2>1, <2>2 DEF Chat
<1>8. ASSUME wire = "messages"
      PROVE  Retold(MessagesToChat(history'), said) /\ Behind(MessagesToChat(history'), <<>>)
  <2>1. Retold(M, said) /\ Behind(M, Awaited)
    BY <1>8 DEF TalkInv, M
  <2> DEFINE W == M \o TranslateMessage(m)
             open == Awaited
  <2>2. /\ Len(open) \in Nat /\ Len(results) = Len(open) /\ Behind(M, open)
        /\ {results[j].id : j \in 1..Len(open)} = {open[j].id : j \in 1..Len(open)}
    BY <2>1
  <2> HIDE DEF open
  <2>3. Behind(W, <<>>) /\ Those(W, "role", {"assistant"}) = Those(M, "role", {"assistant"})
    BY <1>5, <1>6, <2>2, PlacedByResults
  <2> HIDE DEF W
  <2>4. Retold(W, said)
    BY <2>1, <2>3 DEF Retold
  <2> QED BY <1>5, <2>3, <2>4 DEF W
<1>9. ASSUME wire = "responses"
      PROVE  Len(Those(ResponsesToChat(history'), "role", {"assistant"})) = Len(Words)
  <2>1. Len(Those(R, "role", {"assistant"})) = Len(Words)
    BY <1>9 DEF TalkInv, R
  <2> DEFINE U == TranslateItem(m)
  <2>2. U \in Seq(ChatMessages) /\ \A i \in DOMAIN U : U[i].role # "assistant"
    BY <1>6 DEF Brings
  <2> HIDE DEF U
  <2>3. Those(R \o U, "role", {"assistant"}) = Those(R, "role", {"assistant"})
    BY <1>5, <2>2, OthersNotTaken
  <2> QED BY <1>5, <2>1, <2>3 DEF U
<1>10. Words' = Words
  BY <1>2 DEF Words
<1>11. wire' = "messages" => Retold(MessagesToChat(history'), said') /\ Behind(MessagesToChat(history'), Awaited')
  BY <1>2, <1>4, <1>8
<1>12. wire' = "responses" => Len(Those(ResponsesToChat(history'), "role", {"assistant"})) = Len(Words')
  BY <1>2, <1>9, <1>10
<1> QED BY <1>2, <1>3, <1>4, <1>7, <1>11, <1>12 DEF TalkInv

\* A new question brings no results, and none are waited for.
LEMMA AskAnewKeeps == ASSUME TalkInv, AskAnew PROVE TalkInv'
<1>1. ClientsTurn /\ Open = <<>>
  BY DEF AskAnew
<1>2. PICK content \in Openings : Request(content)
  BY DEF AskAnew
<1>3. /\ content \in Seq(ContentBlocks)
      /\ \A i \in DOMAIN content : content[i]["type"] \notin {"tool_result"}
  <2> DEFINE x == TextBlock
             y == Block("image")
             z == Block("thinking")
  <2>1. /\ x \in ContentBlocks /\ x.type = "text" /\ y \in ContentBlocks /\ y.type = "image"
        /\ z \in ContentBlocks /\ z.type = "thinking"
    BY BlocksTyped
  <2>2. content = <<x>> \/ content = <<x, y>> \/ content = <<z, x>>
    BY DEF Openings
  <2> HIDE DEF x, y, z
  <2>3. /\ <<x>> \in Seq(ContentBlocks) /\ DOMAIN <<x>> = {1} /\ <<x>>[1] = x
        /\ <<x, y>> \in Seq(ContentBlocks) /\ DOMAIN <<x, y>> = {1, 2}
        /\ <<x, y>>[1] = x /\ <<x, y>>[2] = y
        /\ <<z, x>> \in Seq(ContentBlocks) /\ DOMAIN <<z, x>> = {1, 2}
        /\ <<z, x>>[1] = z /\ <<z, x>>[2] = x
    BY <2>1
  <2> QED BY <2>1, <2>2, <2>3
<1> DEFINE results == Of(content, {"tool_result"})
<1>4. results = <<>>
  BY <1>3, ThoseAllOrNone DEF Of
<1>5. Awaited = <<>> /\ Len(<<>>) = 0 /\ Len(<<>>) \in Nat
  BY <1>1, EmptySeq DEF Awaited
<1> HIDE DEF results
<1>6. /\ Len(Awaited) \in Nat /\ Len(results) = Len(Awaited)
      /\ {results[j].id : j \in 1..Len(Awaited)} = {Awaited[j].id : j \in 1..Len(Awaited)}
  BY <1>4, <1>5
<1> QED BY <1>1, <1>2, <1>3, <1>6, RequestKeeps DEF results

\* A list of results, from the front or from the back, names the same calls.
LEMMA NamedEitherWay ==
  ASSUME NEW open \in Seq(ContentBlocks),
         NEW given, given = [i \in DOMAIN open |-> [open[i] EXCEPT !.type = "tool_result"]],
         NEW inOrder \in {given, Reverse(given)}
  PROVE  /\ inOrder \in Seq(ContentBlocks) /\ Len(inOrder) = Len(open) /\ Len(open) \in Nat
         /\ \A i \in DOMAIN inOrder : inOrder[i]["type"] = "tool_result"
         /\ {inOrder[j].id : j \in 1..Len(open)} = {open[j].id : j \in 1..Len(open)}
<1> DEFINE n == Len(open)
<1>1. n \in Nat /\ DOMAIN open = 1..n /\ \A i \in 1..n : open[i] \in ContentBlocks
  BY LenProperties
<1> HIDE DEF n
<1>2. ASSUME NEW i \in 1..n
      PROVE  given[i] \in ContentBlocks /\ given[i].type = "tool_result" /\ given[i].id = open[i].id
  <2>1. given[i] = [open[i] EXCEPT !.type = "tool_result"]
    BY <1>1
  <2>2. open[i] \in ContentBlocks
    BY <1>1
  <2> QED BY <2>1, <2>2 DEF ContentBlocks, BlockTypes
<1>3. given \in [1..n -> ContentBlocks]
  BY <1>1, <1>2
<1>4. given \in Seq(ContentBlocks) /\ Len(given) = n /\ DOMAIN given = 1..n
  BY <1>1, <1>3, ListIsSequence
<1>5. Reverse(given) = [i \in 1..n |-> given[(n - i) + 1]]
  BY <1>4 DEF Reverse
<1>6. \A i \in 1..n : (n - i) + 1 \in 1..n /\ (n - ((n - i) + 1)) + 1 = i
  BY <1>1
<1>7. Reverse(given) \in [1..n -> ContentBlocks]
  BY <1>2, <1>5, <1>6
<1>8. Reverse(given) \in Seq(ContentBlocks) /\ Len(Reverse(given)) = n
  BY <1>1, <1>7, ListIsSequence
<1> DEFINE back == Reverse(given)
<1>9. \A i \in 1..n : back[i] = given[(n - i) + 1] /\ given[i] = back[(n - i) + 1]
  <2>1. \A i \in 1..n : back[i] = given[(n - i) + 1]
    BY <1>5
  <2> HIDE DEF back
  <2>2. ASSUME NEW i \in 1..n PROVE given[i] = back[(n - i) + 1]
    <3> DEFINE k == (n - i) + 1
    <3>1. k \in 1..n /\ (n - k) + 1 = i
      BY <1>6
    <3> HIDE DEF k
    <3>2. back[k] = given[i]
      BY <2>1, <3>1
    <3> QED BY <3>2 DEF k
  <2> QED BY <2>1, <2>2
<1>10. {given[j].id : j \in 1..n} = {open[j].id : j \in 1..n}
  BY <1>2
<1>11. {back[j].id : j \in 1..n} = {given[j].id : j \in 1..n}
  <2> HIDE DEF back
  <2>1. ASSUME NEW i \in 1..n PROVE /\ back[i].id \in {given[j].id : j \in 1..n}
                                   /\ given[i].id \in {back[j].id : j \in 1..n}
    <3> DEFINE k == (n - i) + 1
    <3>1. k \in 1..n /\ back[i] = given[k] /\ given[i] = back[k]
      BY <1>6, <1>9
    <3> HIDE DEF k
    <3> QED BY <3>1
  <2> QED BY <2>1
<1>12. CASE inOrder = given
  <2>1. \A i \in DOMAIN inOrder : inOrder[i]["type"] = "tool_result"
    BY <1>2, <1>4, <1>12
  <2> QED BY <1>1, <1>4, <1>10, <1>12, <2>1 DEF n
<1>13. CASE inOrder = Reverse(given)
  <2>1. DOMAIN inOrder = 1..n
    BY <1>5, <1>13
  <2> HIDE DEF back
  <2>2. ASSUME NEW i \in 1..n PROVE back[i]["type"] = "tool_result"
    <3>1. (n - i) + 1 \in 1..n /\ back[i] = given[(n - i) + 1]
      BY <1>6, <1>9
    <3> DEFINE k == (n - i) + 1
    <3>2. k \in 1..n /\ back[i] = given[k]
      BY <3>1
    <3> HIDE DEF k
    <3>3. given[k].type = "tool_result"
      BY <1>2, <3>2
    <3> QED BY <3>2, <3>3
  <2> QED BY <1>1, <1>8, <1>10, <1>11, <1>13, <2>1, <2>2 DEF n, back
<1> QED BY <1>12, <1>13

\* The results that a client brings back are those that are waited for.
LEMMA ReturnResultsKeeps == ASSUME TalkInv, ReturnResults PROVE TalkInv'
<1> DEFINE given == [i \in DOMAIN Open |-> [Open[i] EXCEPT !.type = "tool_result"]]
<1>1. ClientsTurn /\ Open # <<>> /\ history \in Seq(HistoryMessages)
  BY DEF ReturnResults, TalkInv
<1>2. PICK inOrder \in {given, Reverse(given)}, beside \in {<<>>, <<TextBlock>>}, before \in BOOLEAN :
        Request(IF before THEN beside \o inOrder ELSE inOrder \o beside)
  BY DEF ReturnResults
<1>3. Open \in Seq(ContentBlocks) /\ Awaited = Open
  <2>1. history # <<>>
    BY <1>1 DEF Open
  <2>2. Len(history) \in Nat /\ Len(history) # 0
    BY <1>1, <2>1, EmptySeq, LenProperties
  <2>3. Last(history) \in HistoryMessages
    BY <1>1, <2>2, LenProperties DEF Last
  <2>4. Last(history).content \in Seq(ContentBlocks)
    BY <2>3 DEF HistoryMessages
  <2>5. Open = Of(Last(history).content, {"tool_use"})
    BY <2>1 DEF Open
  <2>6. Open \in Seq(ContentBlocks)
    BY <2>4, <2>5, ThoseMore DEF Of
  <2> QED BY <1>1, <2>6 DEF Awaited
<1> DEFINE open == Open
<1>4. given = [i \in DOMAIN open |-> [open[i] EXCEPT !.type = "tool_result"]] /\ open \in Seq(ContentBlocks)
  BY <1>3
<1>5. Awaited = open
  BY <1>3
<1> HIDE DEF given, open
<1>6. /\ inOrder \in Seq(ContentBlocks) /\ Len(inOrder) = Len(open) /\ Len(open) \in Nat
      /\ \A i \in DOMAIN inOrder : inOrder[i]["type"] = "tool_result"
      /\ {inOrder[j].id : j \in 1..Len(open)} = {open[j].id : j \in 1..Len(open)}
  BY <1>2, <1>4, NamedEitherWay
<1>7. /\ beside \in Seq(ContentBlocks)
      /\ \A i \in DOMAIN beside : beside[i]["type"] \notin {"tool_result"}
  <2> DEFINE x == TextBlock
  <2>1. x \in ContentBlocks /\ x.type = "text" /\ (beside = <<>> \/ beside = <<x>>)
    BY <1>2, BlocksTyped
  <2> HIDE DEF x
  <2>2. /\ <<x>> \in Seq(ContentBlocks) /\ DOMAIN <<x>> = {1} /\ <<x>>[1] = x
        /\ <<>> \in Seq(ContentBlocks) /\ DOMAIN <<>> = {}
    BY <2>1, OneMember, EmptySeq
  <2> QED BY <2>1, <2>2
<1>8. Of(inOrder, {"tool_result"}) = inOrder /\ Of(beside, {"tool_result"}) = <<>>
  <2>1. \A i \in DOMAIN inOrder : inOrder[i]["type"] \in {"tool_result"}
    BY <1>6
  <2>2. Those(inOrder, "type", {"tool_result"}) = inOrder
    BY <1>6, <2>1, ThoseAllOrNone
  <2>3. Those(beside, "type", {"tool_result"}) = <<>>
    BY <1>7, ThoseAllOrNone
  <2> QED BY <2>2, <2>3 DEF Of
<1> DEFINE content == IF before THEN beside \o inOrder ELSE inOrder \o beside
<1>9. content \in Seq(ContentBlocks) /\ Of(content, {"tool_result"}) = inOrder
  <2>1. beside \o inOrder \in Seq(ContentBlocks) /\ inOrder \o beside \in Seq(ContentBlocks)
    BY <1>6, <1>7, ConcatProperties
  <2>2. Of(beside \o inOrder, {"tool_result"}) = <<>> \o inOrder
    <3>1. Those(beside \o inOrder, "type", {"tool_result"}) =
            Those(beside, "type", {"tool_result"}) \o Those(inOrder, "type", {"tool_result"})
      BY <1>6, <1>7, ThoseOfBoth
    <3> QED BY <1>8, <3>1 DEF Of
  <2>3. Of(inOrder \o beside, {"tool_result"}) = inOrder \o <<>>
    <3>1. Those(inOrder \o beside, "type", {"tool_result"}) =
            Those(inOrder, "type", {"tool_result"}) \o Those(beside, "type", {"tool_result"})
      BY <1>6, <1>7, ThoseOfBoth
    <3> QED BY <1>8, <3>1 DEF Of
  <2>4. <<>> \o inOrder = inOrder /\ inOrder \o <<>> = inOrder
    BY <1>6, ConcatEmptySeq
  <2> QED BY <2>1, <2>2, <2>3, <2>4
<1>10. Request(content)
  BY <1>2
<1> HIDE DEF content
<1>11. /\ Len(Awaited) \in Nat /\ Len(inOrder) = Len(Awaited)
       /\ {inOrder[j].id : j \in 1..Len(Awaited)} = {Awaited[j].id : j \in 1..Len(Awaited)}
  BY <1>5, <1>6
<1> QED BY <1>1, <1>9, <1>10, <1>11, RequestKeeps

\* The calls that a model may make.
LEMMA CallingsTyped ==
  ASSUME Len(said) \in Nat
  PROVE  [text : {"none", "plain", "pseudo"}, calls : Callings] \subseteq Answers
<1> DEFINE given == <<"call", Len(said), 0>>
           x == Invocation(given, "json")
           y == Invocation(NoId, "json")
           z == Invocation(given, "torn")
           w == Invocation(NoId, "torn")
<1>1. given \in Ids /\ NoId \in Ids
  BY DEF Ids
<1>2. Callings = {<<>>, <<x>>, <<y>>, <<z>>, <<x, w>>}
  BY DEF Callings
<1> HIDE DEF given
<1>3. x \in Invocations /\ y \in Invocations /\ z \in Invocations /\ w \in Invocations
  BY <1>1 DEF Invocation, Invocations, Arguments
<1> HIDE DEF x, y, z, w
<1>4. Callings \subseteq Seq(Invocations)
  BY <1>2, <1>3
<1> QED BY <1>4 DEF Answers

\* An answer is told again as it was given.
LEMMA ReplyKeeps == ASSUME TalkInv, Reply PROVE TalkInv'
<1> DEFINE M == MessagesToChat(history)
           R == ResponsesToChat(history)
<1>1. /\ ~ClientsTurn /\ Len(said) < AnswerBound /\ wire' = wire /\ asked' = asked
      /\ wire \in {"messages", "responses"} /\ history \in Seq(HistoryMessages)
      /\ asked \in Seq(ChatMessages) /\ said \in Seq(Answers)
  BY DEF TalkInv, Reply
<1>2. Len(said) \in Nat /\ AnswerBound \in Nat
  BY <1>1, LenProperties, ConversationAssumption
<1>3. PICK answer \in [text : {"none", "plain", "pseudo"}, calls : Callings] :
        /\ said' = Append(said, answer)
        /\ history' = Append(history, [role |-> "assistant",
             content |-> IF wire = "messages" THEN ToMessages(answer) ELSE ToResponses(answer)])
  BY DEF Reply
<1>4. answer \in Answers
  BY <1>2, <1>3, CallingsTyped
<1>5. said' \in Seq(Answers) /\ Len(said') = Len(said) + 1 /\ Len(said') <= AnswerBound
  BY <1>1, <1>2, <1>3, <1>4, AppendProperties
<1>6. Awaited = <<>>
  BY <1>1 DEF Awaited
<1>7. CASE wire = "messages"
  <2> DEFINE c == ToMessages(answer)
             m == [role |-> "assistant", content |-> c]
             uses == Of(c, {"tool_use"})
  <2>1. /\ m \in HistoryMessages
        /\ \E t : TranslateMessage(m) = <<t>> /\ Retells(t, Heard(answer), uses)
    BY <1>2, <1>4, AnswerRetold
  <2>2. history' = Append(history, m) /\ m.role = "assistant" /\ m.content = c
    BY <1>3, <1>7
  <2>3. uses \in Seq(ContentBlocks)
    <3>1. c \in Seq(ContentBlocks)
      BY <1>2, <1>4, AnswerShown
    <3> QED BY <3>1, ThoseMore DEF Of
  <2> HIDE DEF c, m
  <2>4. history' \in Seq(HistoryMessages) /\ ClientsTurn' /\ Awaited' = uses
    BY <1>1, <2>1, <2>2, TurnsChange
  <2> HIDE DEF uses
  <2>5. PICK t : TranslateMessage(m) = <<t>> /\ Retells(t, Heard(answer), uses)
    BY <2>1
  <2>6. M \in Seq(ChatMessages) /\ MessagesToChat(history') = M \o <<t>>
    BY <1>1, <2>1, <2>2, <2>5, ChatGrows
  <2>7. Retold(M, said) /\ Behind(M, <<>>)
    BY <1>6, <1>7 DEF TalkInv
  <2> HIDE DEF M
  <2>8. Behind(M \o <<t>>, uses) /\ Retold(M \o <<t>>, said')
    BY <1>1, <1>3, <1>4, <2>3, <2>5, <2>6, <2>7, PlacedByAnswer
  <2>9. /\ wire' = "messages" => /\ Retold(MessagesToChat(history'), said')
                                 /\ Behind(MessagesToChat(history'), Awaited')
        /\ wire' # "responses"
    BY <1>1, <1>7, <2>4, <2>6, <2>8
  <2> QED BY <1>1, <1>5, <2>4, <2>9 DEF TalkInv
<1>8. CASE wire = "responses"
  <2> DEFINE m == [role |-> "assistant", content |-> ToResponses(answer)]
  <2>1. /\ m \in HistoryMessages
        /\ answer.text = "none" => TranslateItem(m) = <<>>
        /\ answer.text # "none" => \E t \in ChatMessages : t.role = "assistant" /\ TranslateItem(m) = <<t>>
    BY <1>4, TextRetold
  <2>2. history' = Append(history, m) /\ m.role = "assistant"
    BY <1>3, <1>8
  <2> HIDE DEF m
  <2>3. history' \in Seq(HistoryMessages) /\ ClientsTurn'
    BY <1>1, <2>1, <2>2, TurnsChange
  <2>4. R \in Seq(ChatMessages) /\ ResponsesToChat(history') = R \o TranslateItem(m)
    BY <1>1, <2>1, <2>2, ChatGrows
  <2>5. Len(Those(R, "role", {"assistant"})) = Len(Words)
    BY <1>8 DEF TalkInv
  <2>6. Words' = Keeps(Words, answer, "text", {"plain", "pseudo"}) /\ Words \in Seq(Answers)
    <3>1. Words' = Those(Append(said, answer), "text", {"plain", "pseudo"})
      BY <1>3 DEF Words
    <3> QED BY <1>1, <1>4, <3>1, ThoseMore DEF Words
  <2>7. answer.text \in {"none", "plain", "pseudo"}
    BY <1>4 DEF Answers
  <2> DEFINE told == Those(R, "role", {"assistant"})
             retold == Those(ResponsesToChat(history'), "role", {"assistant"})
  <2>8. told \in Seq(ChatMessages)
    BY <2>4, ThoseMore
  <2> HIDE DEF R
  <2>9. Len(retold) = Len(Words')
    <3>1. CASE answer.text = "none"
      <4>1. ResponsesToChat(history') = R
        BY <2>1, <2>4, <3>1, ConcatEmptySeq
      <4>2. Words' = Words
        BY <2>6, <3>1 DEF Keeps
      <4> QED BY <2>5, <4>1, <4>2
    <3>2. CASE answer.text # "none"
      <4>1. PICK t \in ChatMessages : t.role = "assistant" /\ TranslateItem(m) = <<t>>
        BY <2>1, <3>2
      <4>2. ResponsesToChat(history') = Append(R, t)
        BY <2>4, <4>1, OneMember
      <4>3. t["role"] \in {"assistant"}
        BY <4>1
      <4>4. retold = Append(told, t)
        BY <2>4, <4>2, <4>3, ThoseMore DEF Keeps
      <4>5. answer["text"] \in {"plain", "pseudo"}
        BY <2>7, <3>2
      <4>6. Words' = Append(Words, answer)
        BY <2>6, <4>5 DEF Keeps
      <4> HIDE DEF told, retold
      <4>7. Len(retold) = Len(told) + 1
        BY <2>8, <4>1, <4>4, AppendProperties
      <4>8. Len(Words') = Len(Words) + 1
        BY <1>4, <2>6, <4>6, AppendProperties
      <4>9. Len(told) = Len(Words)
        BY <2>5 DEF told
      <4> QED BY <4>7, <4>8, <4>9
    <3> QED BY <3>1, <3>2
  <2>10. wire' = "responses" /\ wire' # "messages"
    BY <1>1, <1>8
  <2> QED BY <1>1, <1>5, <2>3, <2>9, <2>10 DEF TalkInv, retold
<1> QED BY <1>1, <1>7, <1>8

\* Every turn keeps all this.
LEMMA TalkStep == TalkInv /\ [ConversationNext]_talkVars => TalkInv'
<1> SUFFICES ASSUME TalkInv, [ConversationNext]_talkVars PROVE TalkInv'
  OBVIOUS
<1>1. CASE AskAnew
  BY <1>1, AskAnewKeeps
<1>2. CASE ReturnResults
  BY <1>2, ReturnResultsKeeps
<1>3. CASE Reply
  BY <1>3, ReplyKeeps
<1>4. CASE UNCHANGED talkVars
  <2>1. wire' = wire /\ history' = history /\ asked' = asked /\ said' = said
    BY <1>4 DEF talkVars
  <2>2. /\ ClientsTurn' <=> ClientsTurn
        /\ Awaited' = Awaited /\ Words' = Words /\ Chat(history)' = Chat(history)
    BY <2>1 DEF ClientsTurn, Awaited, Open, Words, Chat
  <2> QED BY <2>1, <2>2 DEF TalkInv
<1> QED BY <1>1, <1>2, <1>3, <1>4 DEF ConversationNext

\* All this makes the history survive.
LEMMA TalkPromises == TalkInv => HistorySurvives /\ TalkTypeOK
<1> SUFFICES ASSUME TalkInv PROVE HistorySurvives /\ TalkTypeOK
  OBVIOUS
<1>1. /\ wire \in {"messages", "responses"} /\ history \in Seq(HistoryMessages)
      /\ asked \in Seq(ChatMessages) /\ said \in Seq(Answers) /\ Len(said) <= AnswerBound
  BY DEF TalkInv
<1>2. TalkTypeOK
  <2>1. Len(said) \in 0..AnswerBound
    BY <1>1, LenProperties, ConversationAssumption
  <2>2. \A i \in DOMAIN history : history[i] \in HistoryMessages
    BY <1>1, LenProperties
  <2>3. \A i \in DOMAIN asked : asked[i] \in ChatMessages
    BY <1>1, LenProperties
  <2>4. \A i \in DOMAIN history : history[i].role \in {"user", "assistant"}
    BY <2>2 DEF HistoryMessages
  <2>5. \A i \in DOMAIN asked : asked[i].role \in {"system", "user", "assistant", "tool"}
    BY <2>3 DEF ChatMessages
  <2> QED BY <1>1, <2>1, <2>4, <2>5 DEF TalkTypeOK
<1>3. ASSUME ~ClientsTurn, wire = "messages"
      PROVE  /\ Len(Told) = Len(said)
             /\ \A k \in DOMAIN Told : Agrees(Told[k], Heard(said[k]))
             /\ ResultsInPlace
  <2>1. asked = MessagesToChat(history) /\ Awaited = <<>>
    BY <1>3 DEF TalkInv, Chat, Awaited
  <2>2. Retold(asked, said) /\ Behind(asked, <<>>)
    BY <1>3, <2>1 DEF TalkInv
  <2>3. Len(<<>>) = 0
    BY EmptySeq
  <2>4. ASSUME NEW i \in DOMAIN asked, Len(asked[i].calls) > 0 PROVE Resolved(asked, i)
    <3>1. Resolved(asked, i) \/ Pending(asked, i, <<>>)
      BY <2>2, <2>4 DEF Behind
    <3> QED BY <2>3, <2>4, <3>1 DEF Pending
  <2>5. Len(Those(asked, "role", {"tool"})) = CallsIn(asked)
    <3>1. Those(asked, "role", {"tool"}) \in Seq(ChatMessages)
      BY <1>1, ThoseMore
    <3>2. Len(Those(asked, "role", {"tool"})) \in Nat
      BY <3>1, LenProperties
    <3> QED BY <2>2, <2>3, <3>2 DEF Behind
  <2>6. ResultsInPlace
    BY <2>4, <2>5 DEF ResultsInPlace, Resolved, CallsIn
  <2>7. Len(Told) = Len(said) /\ \A k \in DOMAIN Told : Agrees(Told[k], Heard(said[k]))
    BY <2>2 DEF Retold, Told
  <2> QED BY <2>6, <2>7
<1>4. ASSUME ~ClientsTurn, wire = "responses"
      PROVE  Len(Told) = Len(Those(said, "text", {"plain", "pseudo"}))
  <2>1. asked = ResponsesToChat(history)
    BY <1>4 DEF TalkInv, Chat
  <2> QED BY <1>4, <2>1 DEF TalkInv, Told, Words
<1>5. HistorySurvives
  BY <1>1, <1>3, <1>4 DEF HistorySurvives
<1> QED BY <1>2, <1>5

\* A stream whose clients are in tune is typed: its blocks are counted, one each.
LEMMA StreamTypes == StreamInv => StreamTypeOK
<1> SUFFICES ASSUME StreamInv PROVE StreamTypeOK
  OBVIOUS
<1>1. /\ anthropic \in Translators /\ client \in Views
      /\ anthropic.next = Cardinality(Tools(anthropic.tools)) + Textual(anthropic.text)
  BY DEF StreamInv, Agree, Match
<1>2. anthropic.next \in 0..(Cardinality(ToolCalls) + 1)
  <2>1. Tools(anthropic.tools) \in SUBSET ToolCalls
    BY DEF Tools
  <2>2. /\ Cardinality(Tools(anthropic.tools)) \in Nat /\ Cardinality(ToolCalls) \in Nat
        /\ Cardinality(Tools(anthropic.tools)) <= Cardinality(ToolCalls)
    BY <2>1, BlocksAre
  <2>3. Textual(anthropic.text) \in {0, 1}
    BY DEF Textual
  <2> QED BY <1>1, <2>2, <2>3
<1>3. /\ anthropic.started \in BOOLEAN /\ anthropic.text \in {"none", "open", "closed"}
      /\ anthropic.tools \in [ToolCalls -> Blocks \union {NoBlock}]
      /\ anthropic.stopped \subseteq ToolCalls
  BY <1>1 DEF Translators
<1>4. {anthropic.ended, anthropic.error, anthropic.held, anthropic.normalize} \subseteq BOOLEAN
  <2>1. /\ anthropic.ended \in BOOLEAN /\ anthropic.error \in BOOLEAN
        /\ anthropic.held \in BOOLEAN /\ anthropic.normalize \in BOOLEAN
    BY <1>1 DEF Translators
  <2> QED BY <2>1
<1>5. /\ client.phase \in {"before", "open", "ended", "error"}
      /\ client.blocks \in [Blocks -> [source : ToolCalls \union {Text, NoBlock}, open : BOOLEAN]]
  <2>1. client.phase \in Phases /\ client.blocks \in BlockViews
    BY <1>1 DEF Views
  <2>2. Sources \union {NoBlock} = ToolCalls \union {Text, NoBlock}
    BY DEF Sources
  <2>3. BlockViews = [Blocks -> [source : ToolCalls \union {Text, NoBlock}, open : BOOLEAN]]
    BY <2>2 DEF BlockViews
  <2> QED BY <2>1, <2>3 DEF Phases
<1>6. responses \subseteq Flags /\ reader.last \in 0..Len(Protocol)
  <2>1. Len(Protocol) = 8
    BY DEF Protocol
  <2>2. \A n : Up(n).last = n
    BY DEF Up
  <2>3. SoFar(responses, reader)
    BY DEF StreamInv
  <2>4. reader.last \in {0, 4, 8} /\ responses \subseteq Flags
    BY <2>2, <2>3 DEF SoFar, Flags
  <2> QED BY <2>1, <2>4
<1>7. capture \in [truncated : BOOLEAN, text : BOOLEAN, tools : SUBSET ToolCalls,
                   usage : BOOLEAN, error : BOOLEAN]
  BY DEF StreamInv, Captures
<1>8. upstream \in {"text", "tools", "finished", "failed", "done", "closed", "cut"}
  BY DEF StreamInv
<1> QED BY <1>2, <1>3, <1>4, <1>5, <1>6, <1>7, <1>8 DEF StreamTypeOK

\* A conversation that survives is typed.
LEMMA TalkTypes == TalkInv => TalkTypeOK
<1> SUFFICES ASSUME TalkInv PROVE TalkTypeOK
  OBVIOUS
<1>1. \A i \in DOMAIN history : history[i].role \in {"user", "assistant"}
  <2>1. history \in Seq(HistoryMessages)
    BY DEF TalkInv
  <2>2. \A i \in DOMAIN history : history[i] \in HistoryMessages
    BY <2>1
  <2> QED BY <2>2 DEF HistoryMessages
<1>2. \A i \in DOMAIN asked : asked[i].role \in {"system", "user", "assistant", "tool"}
  <2>1. asked \in Seq(ChatMessages)
    BY DEF TalkInv
  <2>2. \A i \in DOMAIN asked : asked[i] \in ChatMessages
    BY <2>1
  <2> QED BY <2>2 DEF ChatMessages
<1>3. Len(said) \in 0..AnswerBound
  <2>1. Len(said) \in Nat /\ Len(said) <= AnswerBound
    BY DEF TalkInv
  <2> QED BY <2>1, ConversationAssumption
<1> QED BY <1>1, <1>2, <1>3 DEF TalkTypeOK, TalkInv

==============================================================================
