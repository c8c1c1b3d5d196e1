------------------------------- MODULE Catalogue -------------------------------
(***************************************************************************)
(* The list of selectable models (catalogue.py): fetched from every        *)
(* provider at once, by the scheduler when it is stale and by whoever asks *)
(* for it now, under one lock, so that a fetch that was waited for is not  *)
(* made again.  A provider that fails costs its own models until the next  *)
(* fetch.                                                                  *)
(***************************************************************************)
EXTENDS Naturals

CONSTANTS Refreshers,      \* whoever asks for a refetch at once
          Scheduler,       \* the loop
          Providing,       \* the providers
          Keyless,         \* those whose list needs no key
          ListTtl,         \* ttl_seconds
          Unfetched,       \* no instant
          ListClock        \* bound: the last instant

ASSUME CatalogueAssumption ==
  /\ Scheduler \notin Refreshers /\ Keyless \subseteq Providing
  /\ ListTtl \in Nat /\ Unfetched \notin Nat /\ ListClock \in Nat

Fetchers == Refreshers \union {Scheduler}

VARIABLES fetchers,   \* fetcher -> where it is
          airgapped,  \* NAUTGATE_OFFLINE; the stored switch is not looked at
          list,       \* the catalogue: when fetched, whose models it offers
          moment,     \* the time
          fetched     \* history: what the providers answered in the last fetch

catalogueVars == <<fetchers, airgapped, list, moment, fetched>>

CatalogueInit ==
  /\ fetchers = [f \in Fetchers |-> "idle"]
  /\ airgapped \in BOOLEAN
  /\ list = [at |-> Unfetched, offers |-> {}]
  /\ moment = 0
  /\ fetched = {}

ListStale == IF list.at = Unfetched THEN TRUE ELSE moment - list.at > ListTtl
LockFree == \A f \in Fetchers : fetchers[f] # "fetching"
FetcherTo(f, pc) == fetchers' = [fetchers EXCEPT ![f] = pc]

\* The scheduler asks when the list is stale, the others whatever it is.
AskRefresh(f) ==
  /\ fetchers[f] = "idle"
  /\ f = Scheduler => ~airgapped /\ ListStale
  /\ FetcherTo(f, "waiting")
  /\ UNCHANGED <<airgapped, list, moment, fetched>>

\* Under the lock the scheduler looks again: another fetch may have just ended.
Wanted(f) == f = Scheduler => ListStale

TakeListLock(f) ==
  /\ fetchers[f] = "waiting"
  /\ LockFree
  /\ FetcherTo(f, IF Wanted(f) THEN "fetching" ELSE "idle")
  /\ UNCHANGED <<airgapped, list, moment, fetched>>

\* Any of the providers may be down or have no key; their answers replace the list.
Refetch(f) ==
  /\ fetchers[f] = "fetching"
  /\ \E keys \in SUBSET Providing, up \in SUBSET Providing :
       /\ fetched' = up \intersect (keys \union Keyless)
       /\ list' = [at |-> moment, offers |-> fetched']
  /\ FetcherTo(f, "idle")
  /\ UNCHANGED <<airgapped, moment>>

ListAges ==
  /\ moment < ListClock
  /\ moment' = moment + 1
  /\ UNCHANGED <<fetchers, airgapped, list, fetched>>

CatalogueNext ==
  \/ \E f \in Fetchers : AskRefresh(f) \/ TakeListLock(f) \/ Refetch(f)
  \/ ListAges

-----------------------------------------------------------------------------
(* Properties. *)

CatalogueTypeOK ==
  /\ fetchers \in [Fetchers -> {"idle", "waiting", "fetching"}]
  /\ list.at \in {Unfetched} \union 0..ListClock /\ list.offers \subseteq Providing

\* The scheduler does not repeat a fetch that it waited for: between two fetches of which the
\* second is its own, the list has gone stale (catalogue.py:113-130).
FetchesArePaced ==
  [][list'.at # list.at /\ fetchers[Scheduler] = "fetching" =>
       ListStale]_catalogueVars
=============================================================================
