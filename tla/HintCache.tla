------------------------------- MODULE HintCache -------------------------------
(***************************************************************************)
(* sb-brain: routing hints per agent (brain.py, main.py).  A request's     *)
(* hints come from a cache of limited size and age, or from three reads of *)
(* the gateway's tables within a time budget, after which they are cached. *)
(* An outcome of the agent drops its entry, but what a call has read by    *)
(* then it still caches.                                                   *)
(*                                                                         *)
(* Of the hints only the time matters at which the tables were read.       *)
(***************************************************************************)
EXTENDS Naturals, Sequences, SequencesExt

CONSTANTS Agents,
          Hinting,      \* the before_route calls
          HintTtl,      \* CACHE_TTL_S
          HintBudget,   \* SB_BRAIN_TIMEOUT_MS
          HintSlots,    \* CACHE_MAX_ENTRIES
          HintClock     \* bound: the last instant

ASSUME HintAssumption ==
  /\ Agents # {} /\ HintSlots \in Nat \ {0}
  /\ HintTtl \in Nat /\ HintBudget \in Nat /\ HintClock \in Nat

VARIABLES entries,    \* agent -> its cached hints
          order,      \* agents with an entry, least recently used first
          hinting,    \* the calls
          hintNow     \* the time

hintVars == <<entries, order, hinting, hintNow>>

NoEntry == [held |-> FALSE, read |-> 0, expires |-> 0]
NotHinting == [pc |-> "new", agent |-> CHOOSE a \in Agents : TRUE, began |-> 0, read |-> 0,
               served |-> FALSE]

HintInit ==
  /\ entries = [a \in Agents |-> NoEntry]
  /\ order = <<>>
  /\ hinting = [c \in Hinting |-> NotHinting]
  /\ hintNow = 0

HintTo(c, h) == hinting' = [hinting EXCEPT ![c] = h]

\* get: an entry past its time is dropped, any other becomes the most recently used.
AskHints(c) ==
  /\ hinting[c].pc = "new"
  /\ \E a \in Agents :
       LET h == [hinting[c] EXCEPT !.agent = a, !.began = hintNow]
           fresh == entries[a].held /\ entries[a].expires >= hintNow
       IN IF fresh
          THEN /\ HintTo(c, [h EXCEPT !.pc = "done", !.served = TRUE, !.read = entries[a].read])
               /\ order' = Append(RemoveFirst(order, a), a)
               /\ UNCHANGED entries
          ELSE /\ HintTo(c, [h EXCEPT !.pc = "read"])
               /\ order' = RemoveFirst(order, a)
               /\ entries' = [entries EXCEPT ![a] = NoEntry]
  /\ UNCHANGED hintNow

\* The tables are read within the budget, or the call ends without a hint, caching nothing.
ReadHints(c) ==
  /\ hinting[c].pc = "read"
  /\ \/ /\ hintNow <= hinting[c].began + HintBudget
        /\ HintTo(c, [hinting[c] EXCEPT !.pc = "put", !.read = hintNow])
     \/ HintTo(c, [hinting[c] EXCEPT !.pc = "done"])
  /\ UNCHANGED <<entries, order, hintNow>>

\* Drops least recently used entries down to the limit.
Evicted(agents) == SubSeq(agents, Len(agents) - HintSlots + 1, Len(agents))

\* put: unless the budget ran out on the way back.
PutHints(c) ==
  /\ hinting[c].pc = "put"
  /\ LET a == hinting[c].agent
         agents == Append(RemoveFirst(order, a), a)
         remaining == IF Len(agents) > HintSlots THEN Evicted(agents) ELSE agents
     IN IF hintNow > hinting[c].began + HintBudget
        THEN /\ HintTo(c, [hinting[c] EXCEPT !.pc = "done"])
             /\ UNCHANGED <<entries, order>>
        ELSE /\ HintTo(c, [hinting[c] EXCEPT !.pc = "done", !.served = TRUE])
             /\ order' = remaining
             /\ entries' = [b \in Agents |->
                  IF b = a THEN [held |-> TRUE, read |-> hinting[c].read,
                                 expires |-> hintNow + HintTtl]
                  ELSE IF b \in Range(remaining) THEN entries[b] ELSE NoEntry]
  /\ UNCHANGED hintNow

\* on_outcome; the gateway sends it once and does not wait for it.
InvalidateHints(a) ==
  /\ entries' = [entries EXCEPT ![a] = NoEntry]
  /\ order' = RemoveFirst(order, a)
  /\ UNCHANGED <<hinting, hintNow>>

HintTick ==
  /\ hintNow < HintClock
  /\ hintNow' = hintNow + 1
  /\ UNCHANGED <<entries, order, hinting>>

HintNext ==
  \/ \E c \in Hinting : AskHints(c) \/ ReadHints(c) \/ PutHints(c)
  \/ \E a \in Agents : InvalidateHints(a)
  \/ HintTick

-----------------------------------------------------------------------------
(* Properties. *)

HintTypeOK ==
  /\ entries \in [Agents -> [held : BOOLEAN, read : 0..HintClock,
                             expires : 0..(HintClock + HintTtl)]]
  /\ hinting \in [Hinting -> [pc : {"new", "read", "put", "done"}, agent : Agents,
                              began : 0..HintClock, read : 0..HintClock, served : BOOLEAN]]
  /\ hintNow \in 0..HintClock

\* No hint outlives the cache's time by more than the budget of the call that read it, and the
\* order of use names each entry once and no other, so that eviction frees what it takes
\* (brain.py:41-84, 118-190).
HintsExpire ==
  /\ \A c \in Hinting :
       hinting[c].served => hinting[c].began <= hinting[c].read + HintTtl + HintBudget
  /\ Len(order) <= HintSlots /\ IsInjective(order)
  /\ \A a \in Agents : entries[a].held <=> a \in Range(order)
=============================================================================
