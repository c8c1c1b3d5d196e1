------------------------------- MODULE Forwarding -------------------------------
(***************************************************************************)
(* The three lanes that pass a client's request on as it is: Codex and     *)
(* Claude Code on a subscription (oauth_forwarder.py,                      *)
(* anthropic_oauth_forwarder.py) and Pi's Responses calls                  *)
(* (pi_responses.py).  Each writes a decision row, sends the prompt,       *)
(* relays the answer and records the outcome when the relay ends, however  *)
(* it ends; the services that learn from traffic follow.                   *)
(*                                                                         *)
(* Max Guard's reservation, which brackets the Anthropic lane, is in       *)
(* MaxGuard; the spool's own failures are in OutcomeSpool.                 *)
(***************************************************************************)
EXTENDS Naturals, Sequences

CONSTANTS Passes,    \* the requests
          Tries      \* _MAX_OVERLOAD_RETRIES + 1: how often a refused prompt is sent

ASSUME TriesAssumption == Tries \in Nat \ {0}

Lanes == {"chatgpt", "anthropic", "pi", "pi_stream"}
Statuses == {"none", "ok", "refused", "error", "unreachable"}

VARIABLES passes,      \* the requests under way
          deliveries,  \* what each prompt met upstream: times refused, times accepted
          trail        \* what the database and the spool hold of each request

passVars == <<passes, deliveries, trail>>

\* What runs after the outcome, in this order, each in a try block of its own: Pi's calls
\* feed nothing, Codex's neither drift nor the shadow trials.
Followers(lane) ==
  CASE lane = "anthropic" -> <<"judge", "brain", "drift", "shadow", "memory">>
    [] lane = "chatgpt" -> <<"judge", "brain", "memory">>
    [] OTHER -> <<>>

NotPassed == [pc |-> "new", lane |-> "pi", tries |-> 0, status |-> "none",
              ended |-> "no", left |-> <<>>]
NoTrail == [decision |-> FALSE, outcome |-> "none", outcomes |-> 0]

PassInit ==
  /\ passes = [r \in Passes |-> NotPassed]
  /\ deliveries = [r \in Passes |-> [refused |-> 0, accepted |-> 0]]
  /\ trail = [r \in Passes |-> NoTrail]

PassAt(r, pc) == passes[r].pc = pc
PassTo(r, p) == passes' = [passes EXCEPT ![r] = p]

\* Codex and Claude Code are told by their headers, Pi by its route.
PassArrives(r) ==
  /\ PassAt(r, "new")
  /\ \E lane \in Lanes : PassTo(r, [passes[r] EXCEPT !.pc = "capture", !.lane = lane])
  /\ UNCHANGED <<deliveries, trail>>

\* The decision row before the prompt leaves; a failure is logged and the call goes on.
CapturePass(r) ==
  /\ PassAt(r, "capture")
  /\ PassTo(r, [passes[r] EXCEPT !.pc = "send"])
  /\ \E stored \in BOOLEAN : trail' = [trail EXCEPT ![r].decision = stored]
  /\ UNCHANGED deliveries

Retries(p) == p.lane \in {"chatgpt", "anthropic"} /\ p.tries + 1 < Tries

\* The provider answers at the headers; only a refused prompt (429, 529) is sent again.
SendRefused(r) ==
  /\ PassAt(r, "send")
  /\ deliveries' = [deliveries EXCEPT ![r].refused = @ + 1]
  /\ PassTo(r, [passes[r] EXCEPT !.tries = @ + 1, !.status = "refused",
                                 !.pc = IF Retries(passes[r]) THEN "send" ELSE "relay"])
  /\ UNCHANGED trail

SendAnswered(r) ==
  /\ PassAt(r, "send")
  /\ \E status \in {"ok", "error"} :
       /\ PassTo(r, [passes[r] EXCEPT !.tries = @ + 1, !.status = status, !.pc = "relay"])
       /\ deliveries' = [deliveries EXCEPT ![r].accepted = IF status = "ok" THEN @ + 1 ELSE @]
  /\ UNCHANGED trail

\* Mutant: the retry loop takes a broken connection for a refusal.
SendLostAgain(r) ==
  /\ PassAt(r, "send")
  /\ \E taken \in {0, 1} : deliveries' = [deliveries EXCEPT ![r].accepted = @ + taken]
  /\ PassTo(r, [passes[r] EXCEPT !.tries = @ + 1, !.status = "unreachable",
                                 !.ended = "broken",
                                 !.pc = IF Retries(passes[r]) THEN "send" ELSE "done"])
  /\ UNCHANGED trail

\* No answer; the provider may have taken the prompt.  A stream of Pi's has told its client
\* 200 already and ends in its finally block, the others raise a 502 and leave no outcome.
SendLost(r) ==
  /\ PassAt(r, "send")
  /\ \E taken \in {0, 1} : deliveries' = [deliveries EXCEPT ![r].accepted = @ + taken]
  /\ PassTo(r, [passes[r] EXCEPT !.tries = @ + 1, !.status = "unreachable",
                                 !.ended = "broken",
                                 !.pc = IF passes[r].lane = "pi_stream" THEN "finally"
                                        ELSE "done"])
  /\ UNCHANGED trail

\* The relay ends with the answer, with the upstream's connection, or with the client.
\* Pi's plain call has read the whole answer already, or was lost; torn is a compressed answer
\* of Anthropic's that broke off.
Ends(lane) == CASE lane = "pi" -> {"whole"}
                [] lane = "anthropic" -> {"whole", "broken", "torn", "client"}
                [] OTHER -> {"whole", "broken", "client"}

EndRelay(r) ==
  /\ PassAt(r, "relay")
  /\ \E end \in Ends(passes[r].lane) :
       PassTo(r, [passes[r] EXCEPT !.ended = end, !.pc = "finally"])
  /\ UNCHANGED <<deliveries, trail>>

\* persist_outcome: an outcome refers to its decision row, so without one the database
\* refuses it and it is spooled, as it is when the database is away.
PersistPass(r) ==
  /\ PassAt(r, "finally")
  /\ passes[r].ended # "torn"
  /\ \E how \in {"written", "spooled"} :
       /\ how = "written" => trail[r].decision
       /\ trail' = [trail EXCEPT ![r].outcome = how, ![r].outcomes = @ + 1]
  /\ PassTo(r, [passes[r] EXCEPT !.pc = "follow", !.left = Followers(passes[r].lane)])
  /\ UNCHANGED deliveries

\* Decompressing a torn answer raises an error that is not an OSError: what follows of the
\* finally block is skipped, the outcome too, which is not even spooled.
FailDecode(r) ==
  /\ PassAt(r, "finally")
  /\ passes[r].ended = "torn"
  /\ PassTo(r, [passes[r] EXCEPT !.pc = "done"])
  /\ UNCHANGED <<deliveries, trail>>

\* A follower that fails is logged and the next one runs.
FollowUp(r) ==
  /\ PassAt(r, "follow")
  /\ IF passes[r].left = <<>>
     THEN PassTo(r, [passes[r] EXCEPT !.pc = "done"])
     ELSE PassTo(r, [passes[r] EXCEPT !.left = Tail(@)])
  /\ UNCHANGED <<deliveries, trail>>

\* The cancellation of a client that left reaches an await of the finally block.
CutPass(r) ==
  /\ passes[r].pc \in {"finally", "follow"}
  /\ passes[r].ended = "client"
  /\ PassTo(r, [passes[r] EXCEPT !.pc = "done"])
  /\ UNCHANGED <<deliveries, trail>>

\* The spool's line is written once the database is there, unless the row it refers to is not.
ReplayPass(r) ==
  /\ trail[r].outcome = "spooled"
  /\ trail[r].decision
  /\ trail' = [trail EXCEPT ![r].outcome = "written"]
  /\ UNCHANGED <<passes, deliveries>>

PassNext ==
  \E r \in Passes :
    \/ PassArrives(r) \/ CapturePass(r) \/ SendRefused(r) \/ SendAnswered(r) \/ SendLost(r)
    \/ EndRelay(r) \/ PersistPass(r) \/ FailDecode(r) \/ FollowUp(r) \/ CutPass(r)
    \/ ReplayPass(r)

-----------------------------------------------------------------------------
(* Properties. *)

PassTypeOK ==
  /\ passes \in [Passes -> [pc : {"new", "capture", "send", "relay", "finally", "follow", "done"},
                            lane : Lanes, tries : 0..Tries, status : Statuses,
                            ended : {"no", "whole", "broken", "torn", "client"},
                            left : {SubSeq(Followers(lane), i, Len(Followers(lane))) :
                                      lane \in Lanes, i \in 1..6}]]
  /\ deliveries \in [Passes -> [refused : 0..Tries, accepted : 0..1]]
  /\ trail \in [Passes -> [decision : BOOLEAN, outcome : {"none", "written", "spooled"},
                           outcomes : 0..1]]

\* A prompt is taken by the provider at most once, whatever is retried
\* (oauth_forwarder.py:226-255, anthropic_oauth_forwarder.py:441-466).
AcceptedOnce == \A r \in Passes : deliveries[r].accepted <= 1

\* A request that was answered and whose client stayed has one outcome when it is done,
\* written or spooled, also when the answer broke off unless it was compressed; what else the
\* provider took without an outcome is told to the client as a failure (outcome.py:38-73).
ForwardedIsKept ==
  \A r \in Passes :
    /\ trail[r].outcomes <= 1
    /\ PassAt(r, "done") /\ passes[r].ended \notin {"client", "torn"} /\ trail[r].outcomes = 0 =>
         passes[r].status = "unreachable" /\ passes[r].lane # "pi_stream"

\* A forwarded prompt is taken once and what comes of it is kept
\* (oauth_forwarder.py:226-443, anthropic_oauth_forwarder.py:441-773, pi_responses.py:173-293).
ForwardedOnce == AcceptedOnce /\ ForwardedIsKept
=============================================================================
