------------------------------ MODULE Transports ------------------------------
(***************************************************************************)
(* The ways to a model that the gateway's own calls may take: canaries,    *)
(* probes and heartbeats (_select_transports, drift_investigator.py).      *)
(***************************************************************************)
EXTENDS Sequences

Targets == {"routed claude", "claude", "routed other", "openai", "unknown"}
Subscriptions == {"anthropic-oauth", "chatgpt-oauth"}
Vias == Subscriptions \union {"openrouter", "anthropic-metered", "openai-metered"}

\* In the order of preference; oauth: a subscription is preferred and its token exported,
\* metered: the provider's own key is set.
TransportsFor(target, oauth, metered) ==
  CASE target = "routed claude" ->
         <<"openrouter">> \o (IF oauth THEN <<"anthropic-oauth">> ELSE <<>>)
    [] target = "claude" ->
         IF oauth THEN <<"anthropic-oauth">>
         ELSE IF metered THEN <<"anthropic-metered">> ELSE <<>>
    [] target = "openai" ->
         (IF oauth THEN <<"chatgpt-oauth">> ELSE <<>>)
           \o (IF metered THEN <<"openai-metered">> ELSE <<>>)
    [] target = "routed other" -> <<"openrouter">>
    [] OTHER -> <<>>
===============================================================================
