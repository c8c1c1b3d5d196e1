------------------------------- MODULE Credentials -------------------------------
(***************************************************************************)
(* The provider keys that the gateway stores encrypted (crypto.py, the     *)
(* /providers endpoints) and hands to the router with each request: the    *)
(* master key, a file that several processes share; the cache of decrypted *)
(* keys, one per process; and the Max launches (max_launches.py), which    *)
(* put the operator's own subscription in the place of a stored key.       *)
(***************************************************************************)
EXTENDS Integers

CONSTANTS Hosts,        \* the processes
          Busy,         \* those that requests reach; the others serve the dashboard
          Askers,       \* requests that resolve their keys
          Vaults,       \* the providers, of which anthropic is one
          OverrideTtl,  \* _PROVIDER_OVERRIDE_TTL
          LaunchTtl,    \* how long a launch lasts
          KeyBound,     \* bound: keys stored
          WallBound     \* bound: time

ASSUME CredentialAssumption ==
  /\ {OverrideTtl, LaunchTtl, KeyBound, WallBound} \subseteq Nat
  /\ OverrideTtl > 0 /\ "anthropic" \in Vaults /\ Busy \subseteq Hosts

VARIABLES master,  \* which master key the file holds, 0 if none
          host,    \* the processes: whether they are up, and their cache
          launch,  \* the last Max launch: the process that keeps it and when it ends
          vault,   \* provider_credentials: the key and the master key it is encrypted under
          gone,    \* history: when each key was replaced or deleted
          asker,   \* the requests
          wall     \* the time

credentialVars == <<master, host, launch, vault, gone, asker, wall>>

None == 0
Subscription == -1       \* the subscription's token
Unheld == -OverrideTtl
Still == -1
NoKeys == [p \in Vaults |-> None]
NoLaunch == [host |-> "none", ends |-> 0]
NewHost == [pc |-> "down", at |-> Unheld, keys |-> NoKeys]
NotAsking == [pc |-> "idle", host |-> "none", launched |-> FALSE, now |-> 0, rows |-> {},
              keys |-> NoKeys, failed |-> FALSE]
Keys == 1..KeyBound

CredentialTypeOK ==
  /\ master \in Nat /\ wall \in 0..WallBound
  /\ \A h \in Hosts : /\ host[h].pc \in {"down", "generate", "up", "stored"}
                      /\ host[h].at \in {Unheld} \union 0..WallBound
                      /\ host[h].keys \in [Vaults -> {None, Subscription} \union Keys]
  /\ vault \in [Vaults -> [key : {None} \union Keys, under : Nat]]
  /\ gone \in [Keys -> {Still} \union 0..WallBound]
  /\ \A a \in Askers : /\ asker[a].pc \in {"idle", "list", "read", "served"}
                       /\ asker[a].rows \subseteq Vaults

CredentialInit ==
  /\ master = None /\ wall = 0 /\ launch = NoLaunch
  /\ host = [h \in Hosts |-> NewHost]
  /\ vault = [p \in Vaults |-> [key |-> None, under |-> None]]
  /\ gone = [k \in Keys |-> Still]
  /\ asker = [a \in Askers |-> NotAsking]

-----------------------------------------------------------------------------
(* The master key.                                                         *)

\* ensure_master_key.
FindMaster(h) ==
  /\ host[h].pc = "down"
  /\ host' = [host EXCEPT ![h].pc = IF master = None THEN "generate" ELSE "up"]
  /\ UNCHANGED <<master, launch, vault, gone, asker, wall>>

\* Whatever the file holds by now is overwritten; a failure is logged.
WriteMaster(h) ==
  /\ host[h].pc = "generate"
  /\ master' \in {master, master + 1}
  /\ host' = [host EXCEPT ![h].pc = "up"]
  /\ UNCHANGED <<launch, vault, gone, asker, wall>>

CrashHost(h) ==
  /\ host[h].pc # "down"
  /\ host' = [host EXCEPT ![h] = NewHost]
  /\ asker' = [a \in Askers |-> IF asker[a].host = h THEN NotAsking ELSE asker[a]]
  /\ launch' = IF launch.host = h THEN NoLaunch ELSE launch
  /\ UNCHANGED <<master, vault, gone, wall>>

-----------------------------------------------------------------------------
(* /providers.                                                             *)

Stored == {vault[p].key : p \in Vaults}
Unused(k) == k \notin Stored /\ gone[k] = Still
Replace(key) == gone' = IF key = None THEN gone ELSE [gone EXCEPT ![key] = wall]

PutProvider(h) ==
  /\ host[h].pc = "up" /\ master # None
  /\ \E p \in Vaults, k \in Keys :
       /\ Unused(k) /\ \A j \in 1..k - 1 : ~Unused(j)
       /\ vault' = [vault EXCEPT ![p] = [key |-> k, under |-> master]]
       /\ Replace(vault[p].key)
  /\ host' = [host EXCEPT ![h].pc = "stored"]
  /\ UNCHANGED <<master, launch, asker, wall>>

DeleteProvider(h) ==
  /\ host[h].pc = "up"
  /\ \E p \in Vaults :
       /\ vault[p].key # None
       /\ vault' = [vault EXCEPT ![p] = [key |-> None, under |-> None]]
       /\ Replace(vault[p].key)
  /\ host' = [host EXCEPT ![h].pc = "stored"]
  /\ UNCHANGED <<master, launch, asker, wall>>

\* In this process; the others wait for the end of the entry.
Invalidate(h) ==
  /\ host[h].pc = "stored"
  /\ host' = [host EXCEPT ![h].pc = "up", ![h].at = Unheld]
  /\ UNCHANGED <<master, launch, vault, gone, asker, wall>>

-----------------------------------------------------------------------------
(* Max launches.                                                           *)

RegisterLaunch(h) ==
  /\ host[h].pc = "up"
  /\ launch' = [host |-> h, ends |-> wall + LaunchTtl]
  /\ UNCHANGED <<master, host, vault, gone, asker, wall>>

\* bind_request; a launch that is over is refused and forgotten.
Bound(h) == launch.host = h /\ launch.ends > wall

RefuseLaunch(h) ==
  /\ launch.host = h /\ ~Bound(h)
  /\ launch' = NoLaunch
  /\ UNCHANGED <<master, host, vault, gone, asker, wall>>

-----------------------------------------------------------------------------
(* _resolve_provider_overrides.                                            *)

AskerAt(a, pc) == asker[a].pc = pc
AskerTo(a, state) == asker' = [asker EXCEPT ![a] = state]

\* A launched request has the subscription or fails.
Given(q, keys) ==
  IF q.launched
  THEN {NotAsking, [q EXCEPT !.pc = "served", !.keys = [keys EXCEPT !["anthropic"] = Subscription]]}
  ELSE {[q EXCEPT !.pc = "served", !.keys = keys]}

BeginResolve(a, h) ==
  /\ AskerAt(a, "idle") /\ host[h].pc \in {"up", "stored"}
  /\ \E launched \in {FALSE, Bound(h)} :
       LET q == [NotAsking EXCEPT !.host = h, !.launched = launched, !.now = wall]
       IN IF wall - host[h].at < OverrideTtl
          THEN \E given \in Given(q, host[h].keys) : AskerTo(a, given)
          ELSE AskerTo(a, [q EXCEPT !.pc = "list"])
  /\ UNCHANGED <<master, host, launch, vault, gone, wall>>

ListRows(a) ==
  /\ AskerAt(a, "list")
  /\ AskerTo(a, [asker[a] EXCEPT !.pc = "read", !.rows = {p \in Vaults : vault[p].key # None}])
  /\ UNCHANGED <<master, host, launch, vault, gone, wall>>

\* A row that is gone by now is passed over.
ReadRow(a) ==
  /\ AskerAt(a, "read")
  /\ \E p \in asker[a].rows :
       /\ vault[p].key = None \/ vault[p].under = master
       /\ AskerTo(a, [asker[a] EXCEPT !.rows = @ \ {p}, !.keys[p] = vault[p].key])
  /\ UNCHANGED <<master, host, launch, vault, gone, wall>>

\* A failing query, or a key under another master key: what the cache held, however old.
FailResolve(a) ==
  /\ asker[a].pc \in {"list", "read"}
  /\ \E given \in Given([asker[a] EXCEPT !.failed = TRUE], host[asker[a].host].keys) :
       AskerTo(a, given)
  /\ UNCHANGED <<master, host, launch, vault, gone, wall>>

\* Mutant: the entry's time begins when it is made.
StoreResolvedLate(a) ==
  /\ AskerAt(a, "read") /\ asker[a].rows = {}
  /\ host' = [host EXCEPT ![asker[a].host].at = wall, ![asker[a].host].keys = asker[a].keys]
  /\ \E given \in Given(asker[a], asker[a].keys) : AskerTo(a, given)
  /\ UNCHANGED <<master, launch, vault, gone, wall>>

\* An entry is made even if a write has invalidated the one before in the meantime.
StoreResolved(a) ==
  /\ AskerAt(a, "read") /\ asker[a].rows = {}
  /\ LET q == asker[a]
     IN /\ host' = [host EXCEPT ![q.host].at = q.now, ![q.host].keys = q.keys]
        /\ \E given \in Given(q, q.keys) : AskerTo(a, given)
  /\ UNCHANGED <<master, launch, vault, gone, wall>>

EndResolve(a) ==
  /\ AskerAt(a, "served")
  /\ AskerTo(a, NotAsking)
  /\ UNCHANGED <<master, host, launch, vault, gone, wall>>

WallTick ==
  /\ wall < WallBound
  /\ wall' = wall + 1
  /\ UNCHANGED <<master, host, launch, vault, gone, asker>>

CredentialNext ==
  \/ \E h \in Hosts :
        \/ FindMaster(h) \/ WriteMaster(h) \/ CrashHost(h) \/ PutProvider(h) \/ DeleteProvider(h)
        \/ Invalidate(h)
  \/ \E h \in Busy : \/ RegisterLaunch(h) \/ RefuseLaunch(h)
                    \/ \E a \in Askers : BeginResolve(a, h)
  \/ \E a \in Askers : \/ ListRows(a) \/ ReadRow(a) \/ FailResolve(a) \/ StoreResolved(a)
                       \/ EndResolve(a)
  \/ WallTick

-----------------------------------------------------------------------------

\* A key that a request goes out with was stored less than a lifetime of the cache before it
\* asked, unless its reads failed, whichever process the key was replaced in; a launched request
\* goes out with the subscription and never with a stored key of the same provider, and the
\* subscription is in no other request and no cache (routes/v1.py:3109-3156).
KeysAreCurrent ==
  /\ \A a \in Askers :
       LET q == asker[a]
       IN AskerAt(a, "served") =>
            /\ q.launched = (q.keys["anthropic"] = Subscription)
            /\ \A p \in Vaults :
                 q.keys[p] \in Keys /\ ~q.failed /\ gone[q.keys[p]] # Still =>
                   q.now < gone[q.keys[p]] + OverrideTtl
  /\ \A h \in Hosts : \A p \in Vaults : host[h].keys[p] # Subscription

==================================================================================
