------------------------------ MODULE AccessKeys ------------------------------
(***************************************************************************)
(* An access key (auth.py, the /keys endpoints): its row with its time to  *)
(* live and its revocation, and the cache that spares a request the hash.  *)
(* Nothing clears the cache when the key is revoked: it serves the key     *)
(* until the entry expires.  Time is one clock; the code compares entries  *)
(* with the monotonic clock of the process, rows with that of the database.*)
(***************************************************************************)
EXTENDS Integers

CONSTANTS
  Callers,     \* requests that may authenticate at the same time
  CacheTtl,    \* _CACHE_TTL_SEC
  Lifetimes,   \* times to live an operator may give a key
  ClockBound

ASSUME AccessAssumption ==
  /\ CacheTtl \in Nat /\ ClockBound \in Nat
  /\ Lifetimes \subseteq Nat

Never == -1
Uncached == -1

VARIABLES
  clock,
  key,        \* the row: when it expires, when it was revoked
  keyCache,   \* when the cached entry expires, or Uncached
  caller      \* request -> how far it is, when it began, what it read

accessVars == <<clock, key, keyCache, caller>>

NotCalling == [pc |-> "idle", now |-> 0, valid |-> FALSE]

AccessTypeOK ==
  /\ clock \in Nat
  /\ key \in [issued : BOOLEAN, expires : Nat \union {Never}, revoked : Nat \union {Never}]
  /\ keyCache \in Nat \union {Uncached}
  /\ caller \in [Callers -> [pc : {"idle", "lookup", "verify"}, now : Nat, valid : BOOLEAN]]

AccessInit ==
  /\ clock = 0
  /\ key = [issued |-> FALSE, expires |-> Never, revoked |-> Never]
  /\ keyCache = Uncached
  /\ caller = [c \in Callers |-> NotCalling]

-----------------------------------------------------------------------------
\* POST /keys: a key with a time to live, or one without.
IssueKey ==
  /\ ~key.issued
  /\ \E expires \in {clock + ttl : ttl \in Lifetimes} \union {Never} :
       key' = [issued |-> TRUE, expires |-> expires, revoked |-> Never]
  /\ UNCHANGED <<clock, keyCache, caller>>

RevokeKey ==
  /\ key.issued /\ key.revoked = Never
  /\ key' = [key EXCEPT !.revoked = clock]
  /\ UNCHANGED <<clock, keyCache, caller>>

\* What the row says of the key now.
KeyValid ==
  /\ key.issued
  /\ key.revoked = Never
  /\ key.expires = Never \/ key.expires >= clock

\* authenticate notes the time, serves the request from the cache, or drops the
\* entry that has expired and asks the database.
CheckCache(c) ==
  /\ caller[c].pc = "idle"
  /\ IF keyCache # Uncached /\ keyCache >= clock
     THEN UNCHANGED <<keyCache, caller>>
     ELSE /\ keyCache' = Uncached
          /\ caller' = [caller EXCEPT ![c] = [NotCalling EXCEPT !.pc = "lookup", !.now = clock]]
  /\ UNCHANGED <<clock, key>>

\* The database answers; the request goes on later.
LookUpKey(c) ==
  /\ caller[c].pc = "lookup"
  /\ caller' = [caller EXCEPT ![c].pc = "verify", ![c].valid = KeyValid]
  /\ UNCHANGED <<clock, key, keyCache>>

\* The secret is verified and the key cached, from the time noted before the
\* database was asked; or the request is refused.
AcceptKey(c) ==
  /\ caller[c].pc = "verify"
  /\ keyCache' = IF caller[c].valid THEN caller[c].now + CacheTtl ELSE keyCache
  /\ caller' = [caller EXCEPT ![c] = NotCalling]
  /\ UNCHANGED <<clock, key>>

\* A wrong secret, a client that leaves, a database that fails.
RefuseCaller(c) ==
  /\ caller[c].pc # "idle"
  /\ caller' = [caller EXCEPT ![c] = NotCalling]
  /\ UNCHANGED <<clock, key, keyCache>>

RestartAuth ==
  /\ keyCache' = Uncached
  /\ caller' = [c \in Callers |-> NotCalling]
  /\ UNCHANGED <<clock, key>>

Tick ==
  /\ clock < ClockBound
  /\ clock' = clock + 1
  /\ UNCHANGED <<key, keyCache, caller>>

AccessNext ==
  \/ IssueKey \/ RevokeKey \/ RestartAuth \/ Tick
  \/ \E c \in Callers : CheckCache(c) \/ LookUpKey(c) \/ AcceptKey(c) \/ RefuseCaller(c)

AccessSpec == AccessInit /\ [][AccessNext]_accessVars

-----------------------------------------------------------------------------
\* A cached key outlives its row by the cache's time to live at most, however
\* long the database took to answer and whatever happened to the row in the
\* meantime (auth.py:140, 186).
CacheOutlivesKeyBriefly ==
  keyCache # Uncached =>
    /\ key.revoked # Never => keyCache <= key.revoked + CacheTtl
    /\ key.expires # Never => keyCache <= key.expires + CacheTtl

===============================================================================
