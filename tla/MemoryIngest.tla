------------------------------ MODULE MemoryIngest ------------------------------
(***************************************************************************)
(* What the gateway writes of an exchange to the operator's memory         *)
(* database (sb_memory.py): two entries at most, through a connection pool *)
(* that is built on first use, behind a switch whose reading is cached for *)
(* a while and a breaker that rests after too many failures.               *)
(*                                                                         *)
(* The switch is read from the settings and then the offline flag is, one  *)
(* after the other, while operators change both.                           *)
(***************************************************************************)
EXTENDS Naturals

CONSTANTS Ingests,       \* the calls of ingest_outcome
          MemoryTtl,     \* _CONFIG_CACHE_TTL_SEC
          BreakAfter,    \* _CIRCUIT_THRESHOLD
          Rest,          \* _CIRCUIT_COOLDOWN_SEC
          MemoryClock,   \* bound: the last instant
          SaveBound      \* bound: how often the operator saves

ASSUME MemoryAssumption ==
  /\ MemoryTtl \in Nat /\ BreakAfter \in Nat \ {0} /\ Rest \in Nat
  /\ MemoryClock \in Nat /\ SaveBound \in Nat

Unread == [on |-> FALSE, at |-> 0, valid |-> FALSE]
NotIngesting == [pc |-> "new", began |-> 0, on |-> FALSE, written |-> 0]
Ingested == [NotIngesting EXCEPT !.pc = "done"]

VARIABLES ingests,    \* the calls
          switch,     \* the stored settings: ingestion on, offline
          lastOn,     \* history: when ingestion was last on, when last online
          memory,     \* the process's cached settings, pool and breaker
          memoryNow,  \* the time
          saves       \* how often the operator saved

memoryVars == <<ingests, switch, lastOn, memory, memoryNow, saves>>

MemoryInit ==
  /\ ingests = [c \in Ingests |-> NotIngesting]
  /\ switch = [on |-> TRUE, offline |-> FALSE]
  /\ lastOn = [on |-> 0, online |-> 0]
  /\ memory = [cache |-> Unread, pool |-> FALSE, failures |-> 0, until |-> 0]
  /\ memoryNow = 0
  /\ saves = 0

IngestAt(c, pc) == ingests[c].pc = pc
IngestTo(c, i) == ingests' = [ingests EXCEPT ![c] = i]

BreakerOpen == memoryNow < memory.until

Failed == [memory EXCEPT !.failures = @ + 1,
                         !.until = IF memory.failures + 1 >= BreakAfter
                                   THEN memoryNow + Rest ELSE @]
Succeeded == [memory EXCEPT !.failures = 0, !.until = 0]

\* A call looks at the breaker and at the cache; the age of a later reading counts from here.
BeginIngest(c) ==
  /\ IngestAt(c, "new")
  /\ LET held == memory.cache IN
     IF BreakerOpen THEN IngestTo(c, Ingested)
     ELSE IF held.valid /\ memoryNow - held.at < MemoryTtl
     THEN IngestTo(c, IF held.on THEN [ingests[c] EXCEPT !.pc = "pool", !.began = memoryNow]
                      ELSE Ingested)
     ELSE IngestTo(c, [ingests[c] EXCEPT !.pc = "read", !.began = memoryNow])
  /\ UNCHANGED <<switch, lastOn, memory, memoryNow, saves>>

ReadSwitch(c) ==
  /\ IngestAt(c, "read")
  /\ IngestTo(c, [ingests[c] EXCEPT !.pc = "offline", !.on = switch.on])
  /\ UNCHANGED <<switch, lastOn, memory, memoryNow, saves>>

\* The second read, and the pair goes to the cache under the time of the look.
ReadOffline(c) ==
  /\ IngestAt(c, "offline")
  /\ LET on == ingests[c].on /\ ~switch.offline IN
     /\ memory' = [memory EXCEPT !.cache = [on |-> on, at |-> ingests[c].began,
                                            valid |-> TRUE]]
     /\ IngestTo(c, IF on THEN [ingests[c] EXCEPT !.pc = "pool"] ELSE Ingested)
  /\ UNCHANGED <<switch, lastOn, memoryNow, saves>>

\* An exchange without text worth keeping ends here.
NothingToKeep(c) ==
  /\ IngestAt(c, "pool")
  /\ IngestTo(c, Ingested)
  /\ UNCHANGED <<switch, lastOn, memory, memoryNow, saves>>

\* The pool that is there, also one built for a host that was changed since; building one
\* takes an await.
TakePool(c) ==
  /\ IngestAt(c, "pool")
  /\ IngestTo(c, [ingests[c] EXCEPT !.pc = IF memory.pool THEN "write" ELSE "connect"])
  /\ UNCHANGED <<switch, lastOn, memory, memoryNow, saves>>

\* Two calls may both build one: whoever finishes last leaves its pool, the other pool is
\* no longer referred to, and a pool begun before a save outlives it.
Connect(c) ==
  /\ IngestAt(c, "connect")
  /\ \/ /\ memory' = [memory EXCEPT !.pool = TRUE]
        /\ IngestTo(c, [ingests[c] EXCEPT !.pc = "write"])
     \/ /\ memory' = Failed
        /\ IngestTo(c, Ingested)
  /\ UNCHANGED <<switch, lastOn, memoryNow, saves>>

\* The user's turn and the answer, one statement each, in no transaction.
WriteEntry(c) ==
  /\ IngestAt(c, "write")
  /\ ingests[c].written < 2
  /\ IngestTo(c, [ingests[c] EXCEPT !.written = @ + 1])
  /\ UNCHANGED <<switch, lastOn, memory, memoryNow, saves>>

EndIngest(c) ==
  /\ IngestAt(c, "write")
  /\ \/ ingests[c].written > 0 /\ memory' = Succeeded
     \/ memory' = Failed
  /\ IngestTo(c, Ingested)
  /\ UNCHANGED <<switch, lastOn, memoryNow, saves>>

\* The settings are saved, and this process's cache and pool are let go in the same step.
SaveSwitch ==
  /\ saves < SaveBound
  /\ saves' = saves + 1
  /\ switch' \in [on : BOOLEAN, offline : BOOLEAN]
  /\ memory' = [memory EXCEPT !.cache = Unread, !.pool = FALSE]
  /\ lastOn' = [on |-> IF switch.on THEN memoryNow ELSE lastOn.on,
                online |-> IF ~switch.offline THEN memoryNow ELSE lastOn.online]
  /\ UNCHANGED <<ingests, memoryNow>>

MemoryTick ==
  /\ memoryNow < MemoryClock
  /\ memoryNow' = memoryNow + 1
  /\ UNCHANGED <<ingests, switch, lastOn, memory, saves>>

MemoryNext ==
  \/ \E c \in Ingests :
       \/ BeginIngest(c) \/ ReadSwitch(c) \/ ReadOffline(c) \/ NothingToKeep(c) \/ TakePool(c)
       \/ Connect(c) \/ WriteEntry(c) \/ EndIngest(c)
  \/ SaveSwitch \/ MemoryTick

-----------------------------------------------------------------------------
(* Properties. *)

MemoryTypeOK ==
  /\ ingests \in [Ingests -> [pc : {"new", "read", "offline", "pool", "connect", "write", "done"},
                              began : 0..MemoryClock, on : BOOLEAN, written : 0..2]]
  /\ switch \in [on : BOOLEAN, offline : BOOLEAN]
  /\ lastOn \in [on : 0..MemoryClock, online : 0..MemoryClock]
  /\ memory.cache \in [on : BOOLEAN, at : 0..MemoryClock, valid : BOOLEAN]
  /\ memory.pool \in BOOLEAN
  /\ memory.failures \in Nat /\ memory.until \in 0..(MemoryClock + Rest)
  /\ memoryNow \in 0..MemoryClock /\ saves \in 0..SaveBound

\* An exchange is written only if ingestion was switched on, and the gateway online, at some
\* moment less than the cache's lifetime before the call began, or later: a reading is never
\* older than that, though it may be cached after the save it missed (sb_memory.py:49-66).
IngestHonoursSwitch ==
  \A c \in Ingests :
    ingests[c].written > 0 =>
      /\ switch.on \/ ingests[c].began < lastOn.on + MemoryTtl \/ ingests[c].began <= lastOn.on
      /\ ~switch.offline \/ ingests[c].began < lastOn.online + MemoryTtl
                         \/ ingests[c].began <= lastOn.online
=============================================================================
