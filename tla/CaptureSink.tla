------------------------------ MODULE CaptureSink ------------------------------
(***************************************************************************)
(* sb-capture: each hook of the gateway is written to the sinks that are   *)
(* configured, one after the other (main.py, sinks.py): a line of a file,  *)
(* and a row of a database through a pool that is built on first use and   *)
(* thrown away by the first write that fails.                              *)
(***************************************************************************)
EXTENDS Naturals

CONSTANTS Hooks,      \* the hook calls
          PoolBound   \* bound: pools built

ASSUME SinkAssumption == PoolBound \in Nat

NoPool == 0

VARIABLES hooks,     \* the calls: where they are, the pool they took
          captured,  \* history: which calls the file and the database have
          pools,     \* the sink's pool, the open ones, how many were built
          holder     \* the call that holds the sink's lock, if any

sinkVars == <<hooks, captured, pools, holder>>

NotWriting == [pc |-> "file", pool |-> NoPool]

SinkInit ==
  /\ hooks = [h \in Hooks |-> NotWriting]
  /\ captured = [file |-> {}, rows |-> {}]
  /\ pools = [current |-> NoPool, open |-> {}, built |-> 0]
  /\ holder = {}

HookAt(h, pc) == hooks[h].pc = pc
HookTo(h, w) == hooks' = [hooks EXCEPT ![h] = w]

\* The file; a write that fails is logged.  A hook whose text is missing or too short, or of
\* which the database keeps nothing, ends here.
WriteLine(h) ==
  /\ HookAt(h, "file")
  /\ \E ok \in BOOLEAN :
       captured' = [captured EXCEPT !.file = IF ok THEN @ \union {h} ELSE @]
  /\ \E pc \in {"pool", "done"} : HookTo(h, [hooks[h] EXCEPT !.pc = pc])
  /\ UNCHANGED <<pools, holder>>

\* The pool that is there is taken without the lock.
TakeSinkPool(h) ==
  /\ HookAt(h, "pool")
  /\ HookTo(h, IF pools.current = NoPool THEN [hooks[h] EXCEPT !.pc = "lock"]
               ELSE [pc |-> "insert", pool |-> pools.current])
  /\ UNCHANGED <<captured, pools, holder>>

\* Another call may have built the pool meanwhile.
Missing == pools.current = NoPool

LockPool(h) ==
  /\ HookAt(h, "lock")
  /\ holder = {}
  /\ IF Missing
     THEN holder' = {h} /\ HookTo(h, [hooks[h] EXCEPT !.pc = "build"])
     ELSE HookTo(h, [pc |-> "insert", pool |-> pools.current]) /\ UNCHANGED holder
  /\ UNCHANGED <<captured, pools>>

BuildPool(h) ==
  /\ HookAt(h, "build")
  /\ holder' = {}
  /\ \/ /\ pools.built < PoolBound
        /\ LET new == pools.built + 1 IN
           /\ pools' = [current |-> new, open |-> pools.open \union {new}, built |-> new]
           /\ HookTo(h, [pc |-> "insert", pool |-> new])
     \/ UNCHANGED pools /\ HookTo(h, [hooks[h] EXCEPT !.pc = "drop"])
  /\ UNCHANGED captured

\* A pool that was closed since it was taken refuses; the row may also be refused.
InsertMemory(h) ==
  /\ HookAt(h, "insert")
  /\ \/ /\ hooks[h].pool \in pools.open
        /\ captured' = [captured EXCEPT !.rows = @ \union {h}]
        /\ HookTo(h, [hooks[h] EXCEPT !.pc = "done"])
     \/ HookTo(h, [hooks[h] EXCEPT !.pc = "drop"]) /\ UNCHANGED captured
  /\ UNCHANGED <<pools, holder>>

\* A failed write drops the pool that is there by now, which may be another call's new one.
\* The pool closes when the inserts that are under way in it end; the lock is held until then.
DropPool(h) ==
  /\ HookAt(h, "drop")
  /\ holder = {}
  /\ pools' = [pools EXCEPT !.current = NoPool, !.open = @ \ {pools.current}]
  /\ HookTo(h, [hooks[h] EXCEPT !.pc = "done"])
  /\ UNCHANGED <<captured, holder>>

SinkNext ==
  \E h \in Hooks : \/ WriteLine(h) \/ TakeSinkPool(h) \/ LockPool(h) \/ BuildPool(h)
                   \/ InsertMemory(h) \/ DropPool(h)

-----------------------------------------------------------------------------
(* Properties. *)

SinkTypeOK ==
  /\ hooks \in [Hooks -> [pc : {"file", "pool", "lock", "build", "insert", "drop", "done"},
                          pool : 0..PoolBound]]
  /\ captured \in [file : SUBSET Hooks, rows : SUBSET Hooks]
  /\ pools \in [current : 0..PoolBound, open : SUBSET (1..PoolBound), built : 0..PoolBound]
  /\ holder \subseteq Hooks

\* However writes overlap and fail, the sink never has a second pool open, nor one that it no
\* longer refers to (sinks.py:66-76, 167-172).
OnePool == pools.open = {pools.current} \ {NoPool}
=============================================================================
