-------------------------------- MODULE Lifecycle --------------------------------
(***************************************************************************)
(* Gateway processes that start on one database and stop again (main.py,   *)
(* lifespan): the migrations, the first key, the registration of the audit *)
(* signing key, the background loops, and the order of the shutdown.  A    *)
(* process whose database fails serves without one.                        *)
(***************************************************************************)
EXTENDS Naturals, SequencesExt

CONSTANTS Gateways,    \* the processes
          Versions,    \* how many migrations the program ships
          Unset,       \* a setting that is not given
          KeySettings  \* the settings of the audit key a process may be started with

ASSUME LifecycleAssumption ==
  /\ Versions \in Nat \ {0}
  /\ \A s \in KeySettings : DOMAIN s = {"id", "material", "pinned"}

VARIABLES gateway,   \* the processes
          schema,    \* the migrations recorded, and those executed, in order
          keys,      \* the API keys minted
          bindings   \* the material each audit key id is bound to

lifeVars == <<gateway, schema, keys, bindings>>

KeyIds == {s.id : s \in KeySettings}
Down == [pc |-> "down", db |-> "none", done |-> {}, loops |-> {}, settings |-> Unset]

LocalLoops == {"backup", "retention"}
AuditLoops == {"audit_checkpoint", "audit_signer"}
OuterLoops == {"llm_probe", "heartbeat", "catalogue"}
StopOrder == <<"backup", "llm_probe", "heartbeat", "catalogue", "retention", "audit_checkpoint",
               "audit_signer">>

LifeTypeOK ==
  /\ \A g \in Gateways : /\ gateway[g].db \in {"none", "open"}
                         /\ gateway[g].done \subseteq 1..Versions
                         /\ gateway[g].loops \subseteq LocalLoops \union AuditLoops \union OuterLoops
  /\ schema.recorded \subseteq 1..Versions
  /\ keys \in Nat
  /\ DOMAIN bindings = KeyIds

\* An empty database, or one of the time before migrations were recorded.
LifecycleInit ==
  /\ gateway = [g \in Gateways |-> Down]
  /\ schema \in {[recorded |-> {}, executed |-> e] : e \in {<<>>, <<1>>}}
  /\ keys = 0
  /\ bindings = [k \in KeyIds |-> Unset]

GatewayAt(g, pc) == gateway[g].pc = pc
Become(g, state) == gateway' = [gateway EXCEPT ![g] = state]
Proceed(g, pc) == Become(g, [gateway[g] EXCEPT !.pc = pc])

\* Anything that fails between the opening of the pool and its use.
WithoutDatabase(g) == Become(g, [gateway[g] EXCEPT !.pc = "serving", !.db = "none"])

Start(g) ==
  /\ GatewayAt(g, "down")
  /\ \E settings \in KeySettings, ok \in BOOLEAN :
       Become(g, [Down EXCEPT !.settings = settings, !.pc = IF ok THEN "migrate" ELSE "serving"])
  /\ UNCHANGED <<schema, keys, bindings>>

-----------------------------------------------------------------------------
(* apply_migrations.                                                       *)

ReadRecorded(g) ==
  /\ GatewayAt(g, "migrate")
  /\ Become(g, [gateway[g] EXCEPT !.pc = "backfill", !.done = schema.recorded])
  /\ UNCHANGED <<schema, keys, bindings>>

\* Tables without a record are taken for those of the first migration.
Backfill(g) ==
  /\ GatewayAt(g, "backfill")
  /\ IF 1 \notin gateway[g].done /\ schema.executed # <<>>
     THEN /\ schema' = [schema EXCEPT !.recorded = @ \union {1}]
          /\ Become(g, [gateway[g] EXCEPT !.pc = "apply", !.done = @ \union {1}])
     ELSE Proceed(g, "apply") /\ UNCHANGED schema
  /\ UNCHANGED <<keys, bindings>>

\* Mutant: the record of a version that another process has recorded is not an error.
RecordsAgain(version) == TRUE

\* The primary key of schema_migrations.
RecordsAnew(version) == version \notin schema.recorded

\* The statements and their record commit together or not at all.
ApplyNext(g) ==
  /\ GatewayAt(g, "apply")
  /\ \E version \in 1..Versions \ gateway[g].done :
       /\ \A v \in 1..version - 1 : v \in gateway[g].done
       /\ IF RecordsAnew(version)
          THEN /\ schema' = [recorded |-> schema.recorded \union {version},
                             executed |-> Append(schema.executed, version)]
               /\ Become(g, [gateway[g] EXCEPT !.done = @ \union {version}])
          ELSE WithoutDatabase(g) /\ UNCHANGED schema
  /\ UNCHANGED <<keys, bindings>>

Migrated(g) ==
  /\ GatewayAt(g, "apply") /\ gateway[g].done = 1..Versions
  /\ Become(g, [gateway[g] EXCEPT !.pc = "count", !.db = "open"])
  /\ UNCHANGED <<schema, keys, bindings>>

MigrationFails(g) ==
  /\ gateway[g].pc \in {"migrate", "backfill", "apply"}
  /\ WithoutDatabase(g)
  /\ UNCHANGED <<schema, keys, bindings>>

-----------------------------------------------------------------------------
(* _bootstrap_first_run_key, and the loops.                                *)

CountKeys(g) ==
  /\ GatewayAt(g, "count")
  /\ \E pc \in {IF keys = 0 THEN "mint" ELSE "local", "local"} : Proceed(g, pc)
  /\ UNCHANGED <<schema, keys, bindings>>

MintFirst(g) ==
  /\ GatewayAt(g, "mint")
  /\ keys' \in {keys, keys + 1}
  /\ Proceed(g, "local")
  /\ UNCHANGED <<schema, bindings>>

Launch(g, names, pc) ==
  Become(g, [gateway[g] EXCEPT !.pc = pc, !.loops = @ \union names])

StartLocal(g) ==
  /\ GatewayAt(g, "local")
  /\ Launch(g, LocalLoops, "audit")
  /\ UNCHANGED <<schema, keys, bindings>>

\* register_audit_signing_key: an id keeps the material it was first bound to.
Bindable(id, material) == bindings[id] \in {Unset, material}

Agreed(s) == s.pinned \in {Unset, s.material}

\* A mismatch or a failing registration ends the start, and with it the process; a trail may
\* be without a sidecar to sign.
StartAudit(g) ==
  /\ GatewayAt(g, "audit")
  /\ LET s == gateway[g].settings
         Begin == \E loops \in {{"audit_checkpoint"}, AuditLoops} : Launch(g, loops, "outer")
     IN \/ s.material = Unset /\ Begin /\ UNCHANGED bindings
        \/ /\ s.material # Unset /\ Agreed(s) /\ Bindable(s.id, s.material)
           /\ Begin
           /\ bindings' = [bindings EXCEPT ![s.id] = s.material]
        \/ s.material # Unset /\ Become(g, Down) /\ UNCHANGED bindings
  /\ UNCHANGED <<schema, keys>>

\* nautgate_verified_audit_trail is off.
SkipAudit(g) ==
  /\ GatewayAt(g, "audit")
  /\ Proceed(g, "outer")
  /\ UNCHANGED <<schema, keys, bindings>>

StartOuter(g) ==
  /\ GatewayAt(g, "outer")
  /\ Launch(g, OuterLoops, "serving")
  /\ UNCHANGED <<schema, keys, bindings>>

-----------------------------------------------------------------------------
(* Shutdown: each loop is cancelled and awaited, then the clients, then    *)
(* the pool.                                                               *)

Remaining(g) == SelectSeq(StopOrder, LAMBDA l : l \in gateway[g].loops)

StopLoop(g) ==
  /\ gateway[g].pc \in {"serving", "stopping"}
  /\ gateway[g].loops # {}
  /\ Become(g, [gateway[g] EXCEPT !.pc = "stopping", !.loops = @ \ {Head(Remaining(g))}])
  /\ UNCHANGED <<schema, keys, bindings>>

CloseDatabase(g) ==
  /\ gateway[g].pc \in {"serving", "stopping"}
  /\ gateway[g].loops = {}
  /\ Become(g, Down)
  /\ UNCHANGED <<schema, keys, bindings>>

Die(g) ==
  /\ ~GatewayAt(g, "down")
  /\ Become(g, Down)
  /\ UNCHANGED <<schema, keys, bindings>>

LifecycleNext ==
  \E g \in Gateways :
     \/ Start(g) \/ ReadRecorded(g) \/ Backfill(g) \/ ApplyNext(g) \/ Migrated(g)
     \/ MigrationFails(g) \/ CountKeys(g) \/ MintFirst(g) \/ StartLocal(g) \/ StartAudit(g)
     \/ SkipAudit(g) \/ StartOuter(g) \/ StopLoop(g) \/ CloseDatabase(g) \/ Die(g)

-----------------------------------------------------------------------------

\* However processes start, fail and stop beside each other: every migration is executed once
\* and in order, a process that has the database has all of them, its loops run on an open
\* database, and the signer runs under the material its key id was first bound to
\* (db/migrate.py:27-68, db/queries.py:3043-3061, main.py:237-493).
ProcessesAgree ==
  /\ \A i \in DOMAIN schema.executed : schema.executed[i] = i
  /\ \A g \in Gateways :
       /\ gateway[g].db = "open" => schema.recorded = 1..Versions
       /\ gateway[g].loops # {} => gateway[g].db = "open"
       /\ LET s == gateway[g].settings
          IN "audit_signer" \in gateway[g].loops =>
               (s.material # Unset => bindings[s.id] = s.material)

==================================================================================
