---------------------------- MODULE ServiceProofs ----------------------------
(*****************************************************************************)
(* TLAPS proofs of the services around the requests, for any numbers of      *)
(* processes, callers, handlers and hosts: the life of a process, the chains *)
(* and the pool of the hooks, the caches and the calls that are paced.       *)
(*****************************************************************************)
EXTENDS Lifecycle, PrivacyChain, CaptureSink, MemoryIngest, HintCache, AccessKeys, Credentials,
        Schedules, Catalogue, EvidenceBundle, Backups, SumTheorems, SequenceTheorems

(*****************************************************************************)
(* Lifecycle: processes that start, fail and stop beside each other agree on *)
(* the schema and on the key.                                                *)
(*****************************************************************************)

LifeSpec == LifecycleInit /\ [][LifecycleNext]_lifeVars

Migrating == {"migrate", "backfill", "apply"}
Using == {"count", "mint", "local", "audit", "outer"}
Materials == {Unset} \union {s.material : s \in KeySettings}

LifeStates ==
  [pc : {"down", "serving", "stopping"} \union Migrating \union Using, db : {"none", "open"},
   done : SUBSET (1..Versions), loops : SUBSET (LocalLoops \union AuditLoops \union OuterLoops),
   settings : KeySettings \union {Unset}]

LifeTyped ==
  /\ gateway \in [Gateways -> LifeStates]
  /\ schema \in [recorded : SUBSET (1..Versions), executed : Seq(Nat)]
  /\ bindings \in [KeyIds -> Materials]

\* What was executed is an initial part of the migrations and is recorded; only tables of the
\* time before records are not, and then no process is past looking at them.
SchemaOrdered ==
  /\ \A i \in DOMAIN schema.executed : schema.executed[i] = i
  /\ \/ schema.recorded = 1..Len(schema.executed)
     \/ /\ schema.recorded = {} /\ Len(schema.executed) = 1
        /\ \A g \in Gateways : gateway[g].pc # "apply"

\* A process beside the others: it has done no more than is recorded, uses and serves loops
\* on the complete schema, and signs under the material its key id is bound to.
Fits(state, recorded, bound) ==
  /\ state.pc # "down" => state.settings \in KeySettings
  /\ state.pc \in Migrating => state.loops = {} /\ state.done \subseteq recorded
  /\ state.pc \in Using => state.db = "open"
  /\ state.db = "open" => recorded = 1..Versions
  /\ state.loops # {} => state.db = "open" /\ state.settings \in KeySettings
  /\ "audit_signer" \in state.loops /\ state.settings.material # Unset =>
       bound[state.settings.id] = state.settings.material

LifeInv ==
  /\ LifeTyped
  /\ SchemaOrdered
  /\ \A g \in Gateways : Fits(gateway[g], schema.recorded, bindings)

------------------------------------------------------------------------------

\* A process that is down fits whatever the others have done.
LEMMA DownFits ==
  /\ Down \in LifeStates
  /\ \A recorded, bound : Fits(Down, recorded, bound)
BY DEF Down, LifeStates, Fits, Migrating, Using

\* The invariant holds at the start, on an empty database and on tables without a record.
LEMMA LifeInitially == LifecycleInit => LifeInv
<1> SUFFICES ASSUME LifecycleInit PROVE LifeInv
  OBVIOUS
<1>1. schema = [recorded |-> {}, executed |-> << >>] \/ schema = [recorded |-> {}, executed |-> <<1>>]
  BY DEF LifecycleInit
<1>2. schema \in [recorded : SUBSET (1..Versions), executed : Seq(Nat)]
  <2>1. {} \in SUBSET (1..Versions) /\ << >> \in Seq(Nat) /\ <<1>> \in Seq(Nat)
    OBVIOUS
  <2>2. PICK e \in Seq(Nat) : schema = [recorded |-> {}, executed |-> e]
    BY <1>1, <2>1
  <2> QED BY <2>1, <2>2
<1>3. LifeTyped
  BY <1>2, DownFits DEF LifecycleInit, LifeTyped, Materials
<1>4. SchemaOrdered
  <2>1. CASE schema = [recorded |-> {}, executed |-> << >>]
    BY <2>1 DEF SchemaOrdered
  <2>2. CASE schema = [recorded |-> {}, executed |-> <<1>>]
    <3>1. \A g \in Gateways : gateway[g].pc # "apply"
      BY DEF LifecycleInit, Down
    <3> QED BY <2>2, <3>1 DEF SchemaOrdered
  <2> QED BY <1>1, <2>1, <2>2
<1>5. \A g \in Gateways : Fits(gateway[g], schema.recorded, bindings)
  BY DownFits DEF LifecycleInit
<1> QED BY <1>3, <1>4, <1>5 DEF LifeInv

\* A step of one process that leaves the schema and the bindings alone.
LEMMA ProcessKeeps ==
  ASSUME LifeInv, NEW g \in Gateways, NEW state \in LifeStates,
         gateway' = [gateway EXCEPT ![g] = state],
         Fits(state, schema.recorded, bindings),
         state.pc # "apply", UNCHANGED <<schema, bindings>>
  PROVE  LifeInv'
<1>1. LifeTyped'
  BY DEF LifeInv, LifeTyped
<1>2. SchemaOrdered'
  BY DEF LifeInv, LifeTyped, SchemaOrdered
<1>3. ASSUME NEW q \in Gateways PROVE Fits(gateway'[q], schema.recorded, bindings)
  BY DEF LifeInv, LifeTyped
<1>4. schema' = schema /\ bindings' = bindings
  OBVIOUS
<1> QED BY <1>1, <1>2, <1>3, <1>4 DEF LifeInv

\* A step of one process that leaves it fitting a schema that has grown in order.
LEMMA SchemaKeeps ==
  ASSUME LifeInv, NEW g \in Gateways, NEW state \in LifeStates,
         gateway' = [gateway EXCEPT ![g] = state],
         schema' \in [recorded : SUBSET (1..Versions), executed : Seq(Nat)],
         schema.recorded \subseteq schema'.recorded,
         schema'.recorded = 1..Len(schema'.executed),
         \A i \in DOMAIN schema'.executed : schema'.executed[i] = i,
         Fits(state, schema'.recorded, bindings),
         UNCHANGED bindings
  PROVE  LifeInv'
<1>1. LifeTyped'
  BY DEF LifeInv, LifeTyped
<1>2. SchemaOrdered'
  BY DEF SchemaOrdered
<1>3. ASSUME NEW q \in Gateways PROVE Fits(gateway'[q], schema'.recorded, bindings)
  <2>1. Fits(gateway[q], schema.recorded, bindings)
    BY DEF LifeInv
  <2>2. schema.recorded = 1..Versions => schema'.recorded = 1..Versions
    OBVIOUS
  <2>3. Fits(gateway[q], schema'.recorded, bindings)
    BY <2>1, <2>2 DEF Fits
  <2> QED BY <2>3 DEF LifeInv, LifeTyped
<1>4. bindings' = bindings
  OBVIOUS
<1> QED BY <1>1, <1>2, <1>3, <1>4 DEF LifeInv

\* What the invariant says of one process.
LEMMA OfProcess ==
  ASSUME LifeInv, NEW g \in Gateways
  PROVE  gateway[g] \in LifeStates /\ Fits(gateway[g], schema.recorded, bindings)
BY DEF LifeInv, LifeTyped

\* A process that goes on without the database.
LEMMA WithoutFits ==
  ASSUME NEW state \in LifeStates, NEW recorded, NEW bound,
         Fits(state, recorded, bound), state.pc \in Migrating
  PROVE  LET out == [state EXCEPT !.pc = "serving", !.db = "none"]
         IN out \in LifeStates /\ Fits(out, recorded, bound) /\ out.pc # "apply"
<1> DEFINE out == [state EXCEPT !.pc = "serving", !.db = "none"]
<1>1. out \in LifeStates
  BY DEF LifeStates
<1>2. out.pc = "serving" /\ out.db = "none" /\ out.loops = {}
  BY DEF LifeStates, Fits
<1>3. Fits(out, recorded, bound)
  BY <1>2 DEF Fits, Using, Migrating
<1> QED BY <1>1, <1>2, <1>3

\* The start, up to the record of what was done.
LEMMA Starting ==
  ASSUME LifeInv, NEW g \in Gateways, Start(g) \/ ReadRecorded(g) \/ MigrationFails(g)
  PROVE  LifeInv'
<1>1. gateway[g] \in LifeStates /\ Fits(gateway[g], schema.recorded, bindings)
  BY OfProcess
<1>2. UNCHANGED <<schema, bindings>>
  BY DEF Start, ReadRecorded, MigrationFails
<1>3. CASE Start(g)
  <2>1. PICK settings \in KeySettings, ok \in BOOLEAN :
          gateway' = [gateway EXCEPT ![g] =
            [Down EXCEPT !.settings = settings, !.pc = IF ok THEN "migrate" ELSE "serving"]]
    BY <1>3 DEF Start, Become
  <2> DEFINE state == [Down EXCEPT !.settings = settings, !.pc = IF ok THEN "migrate" ELSE "serving"]
  <2>2. /\ state \in LifeStates /\ state.pc \in {"migrate", "serving"} /\ state.db = "none"
        /\ state.loops = {} /\ state.done = {} /\ state.settings \in KeySettings
    BY DEF Down, LifeStates, Migrating
  <2>3. Fits(state, schema.recorded, bindings)
    BY <2>2 DEF Fits, Using
  <2>4. gateway' = [gateway EXCEPT ![g] = state]
    BY <2>1
  <2> HIDE DEF state
  <2> QED BY <1>2, <2>2, <2>3, <2>4, ProcessKeeps
<1>4. CASE ReadRecorded(g)
  <2> DEFINE state == [gateway[g] EXCEPT !.pc = "backfill", !.done = schema.recorded]
  <2>1. schema.recorded \in SUBSET (1..Versions)
    BY DEF LifeInv, LifeTyped
  <2>2. state \in LifeStates
    BY <1>1, <2>1 DEF LifeStates, Migrating
  <2>3. /\ state.pc = "backfill" /\ state.done = schema.recorded
        /\ state.loops = {} /\ state.db = gateway[g].db /\ state.settings \in KeySettings
    BY <1>1, <1>4 DEF ReadRecorded, GatewayAt, LifeStates, Fits, Migrating
  <2>4. Fits(state, schema.recorded, bindings)
    BY <1>1, <2>3 DEF Fits, Using
  <2>5. gateway' = [gateway EXCEPT ![g] = state]
    BY <1>4 DEF ReadRecorded, Become
  <2> HIDE DEF state
  <2> QED BY <1>2, <2>2, <2>3, <2>4, <2>5, ProcessKeeps
<1>5. CASE MigrationFails(g)
  <2>1. gateway[g].pc \in Migrating
    BY <1>5 DEF MigrationFails, Migrating
  <2> DEFINE state == [gateway[g] EXCEPT !.pc = "serving", !.db = "none"]
  <2>2. state \in LifeStates /\ Fits(state, schema.recorded, bindings) /\ state.pc # "apply"
    BY <1>1, <2>1, WithoutFits
  <2>3. gateway' = [gateway EXCEPT ![g] = state]
    BY <1>5 DEF MigrationFails, WithoutDatabase, Become
  <2> HIDE DEF state
  <2> QED BY <1>2, <2>2, <2>3, ProcessKeeps
<1> QED BY <1>3, <1>4, <1>5

\* The backfill: tables of the time before records count as the first migration.
LEMMA Backfilling ==
  ASSUME LifeInv, NEW g \in Gateways, Backfill(g) PROVE LifeInv'
<1>1. gateway[g] \in LifeStates /\ Fits(gateway[g], schema.recorded, bindings)
  BY OfProcess
<1>2. /\ schema \in [recorded : SUBSET (1..Versions), executed : Seq(Nat)]
      /\ gateway[g].pc = "backfill" /\ UNCHANGED bindings
      /\ gateway[g].done \subseteq schema.recorded /\ gateway[g].loops = {}
      /\ gateway[g].settings \in KeySettings
  BY <1>1 DEF LifeInv, LifeTyped, Backfill, GatewayAt, Fits, Migrating
<1>3. \A i \in DOMAIN schema.executed : schema.executed[i] = i
  BY DEF LifeInv, SchemaOrdered
<1>4. CASE 1 \notin gateway[g].done /\ schema.executed # <<>>
  <2> DEFINE state == [gateway[g] EXCEPT !.pc = "apply", !.done = @ \union {1}]
  <2>1. /\ gateway' = [gateway EXCEPT ![g] = state]
        /\ schema' = [schema EXCEPT !.recorded = @ \union {1}]
    BY <1>4 DEF Backfill, Become
  <2>2. 1 \in 1..Versions
    BY LifecycleAssumption
  <2>3. state \in LifeStates
    BY <1>1, <2>2 DEF LifeStates, Migrating
  <2>4. /\ schema' \in [recorded : SUBSET (1..Versions), executed : Seq(Nat)]
        /\ schema'.executed = schema.executed
        /\ schema'.recorded = schema.recorded \union {1}
    BY <1>2, <2>1, <2>2
  <2>5. Len(schema.executed) \in Nat /\ Len(schema.executed) >= 1
    BY <1>2, <1>4
  <2>6. schema'.recorded = 1..Len(schema'.executed)
    BY <2>4, <2>5 DEF LifeInv, SchemaOrdered
  <2>7. /\ state.pc = "apply" /\ state.loops = {} /\ state.settings \in KeySettings
        /\ state.done \subseteq schema'.recorded /\ state.db = gateway[g].db
    BY <1>1, <1>2, <2>4 DEF LifeStates
  <2>8. schema.recorded = 1..Versions => schema'.recorded = 1..Versions
    BY <2>2, <2>4
  <2>9. Fits(state, schema'.recorded, bindings)
    BY <1>1, <2>7, <2>8 DEF Fits, Using
  <2> HIDE DEF state
  <2> QED BY <1>2, <1>3, <2>1, <2>3, <2>4, <2>6, <2>9, SchemaKeeps
<1>5. CASE ~(1 \notin gateway[g].done /\ schema.executed # <<>>)
  <2> DEFINE state == [gateway[g] EXCEPT !.pc = "apply"]
  <2>1. gateway' = [gateway EXCEPT ![g] = state] /\ schema' = schema
    BY <1>5 DEF Backfill, Proceed, Become
  <2>2. state \in LifeStates
    BY <1>1 DEF LifeStates, Migrating
  <2>3. /\ state.pc = "apply" /\ state.loops = {} /\ state.settings \in KeySettings
        /\ state.done \subseteq schema.recorded /\ state.db = gateway[g].db
    BY <1>1, <1>2 DEF LifeStates
  <2>4. Fits(state, schema.recorded, bindings)
    BY <1>1, <2>3 DEF Fits, Using
  <2>5. schema.recorded = 1..Len(schema.executed)
    <3>1. CASE 1 \in gateway[g].done
      BY <1>2, <3>1 DEF LifeInv, SchemaOrdered
    <3>2. CASE schema.executed = <<>>
      BY <3>2 DEF LifeInv, SchemaOrdered
    <3> QED BY <1>5, <3>1, <3>2
  <2> HIDE DEF state
  <2> QED BY <1>2, <1>3, <2>1, <2>2, <2>4, <2>5, SchemaKeeps
<1> QED BY <1>4, <1>5

\* A migration: either it is the next one and is recorded with its statements, or another
\* process has recorded it and this one goes on without the database.
LEMMA Applying ==
  ASSUME LifeInv, NEW g \in Gateways, ApplyNext(g) PROVE LifeInv'
<1>1. gateway[g] \in LifeStates /\ Fits(gateway[g], schema.recorded, bindings)
  BY OfProcess
<1>2. /\ schema \in [recorded : SUBSET (1..Versions), executed : Seq(Nat)]
      /\ gateway[g].pc = "apply" /\ gateway[g].pc \in Migrating /\ UNCHANGED bindings
      /\ gateway[g].done \subseteq schema.recorded /\ gateway[g].loops = {}
      /\ gateway[g].settings \in KeySettings
  BY <1>1 DEF LifeInv, LifeTyped, ApplyNext, GatewayAt, Fits, Migrating
<1>3. /\ schema.recorded = 1..Len(schema.executed)
      /\ \A i \in DOMAIN schema.executed : schema.executed[i] = i
  BY <1>2 DEF LifeInv, SchemaOrdered
<1>4. PICK version \in (1..Versions) \ gateway[g].done :
        /\ \A v \in 1..version - 1 : v \in gateway[g].done
        /\ IF RecordsAnew(version)
           THEN /\ schema' = [recorded |-> schema.recorded \union {version},
                              executed |-> Append(schema.executed, version)]
                /\ gateway' = [gateway EXCEPT ![g] =
                                 [gateway[g] EXCEPT !.done = @ \union {version}]]
           ELSE WithoutDatabase(g) /\ UNCHANGED schema
  BY DEF ApplyNext, Become
<1>5. CASE RecordsAnew(version)
  <2> DEFINE state == [gateway[g] EXCEPT !.done = @ \union {version}]
             length == Len(schema.executed)
  <2>1. /\ schema' = [recorded |-> schema.recorded \union {version},
                      executed |-> Append(schema.executed, version)]
        /\ gateway' = [gateway EXCEPT ![g] = state]
    BY <1>4, <1>5
  <2>2. length \in Nat /\ version \in Nat /\ version >= 1
    BY <1>2, LifecycleAssumption
  <2>3. version = length + 1
    <3>1. version \notin 1..length
      BY <1>3, <1>5 DEF RecordsAnew
    <3>2. \A v \in 1..version - 1 : v \in 1..length
      BY <1>2, <1>3, <1>4
    <3>3. ~(version > length + 1)
      <4> SUFFICES ASSUME version > length + 1 PROVE FALSE
        OBVIOUS
      <4>1. length + 1 \in 1..version - 1
        BY <2>2
      <4> HIDE DEF length
      <4> QED BY <2>2, <3>2, <4>1
    <3> HIDE DEF length
    <3> QED BY <2>2, <3>1, <3>3
  <2>4. Append(schema.executed, version) \in Seq(Nat)
    BY <1>2, <2>2
  <2>5. /\ schema' \in [recorded : SUBSET (1..Versions), executed : Seq(Nat)]
        /\ schema'.recorded = schema.recorded \union {version}
        /\ schema'.executed = Append(schema.executed, version)
    BY <1>2, <2>1, <2>4
  <2>6. Len(schema'.executed) = length + 1
    BY <1>2, <2>5
  <2>7. schema'.recorded = 1..Len(schema'.executed)
    BY <1>3, <2>2, <2>3, <2>5, <2>6
  <2>8. \A i \in DOMAIN schema'.executed : schema'.executed[i] = i
    BY <1>2, <1>3, <2>2, <2>3, <2>5
  <2>9. state \in LifeStates
    BY <1>1 DEF LifeStates
  <2>10. /\ state.pc = "apply" /\ state.loops = {} /\ state.settings \in KeySettings
         /\ state.done \subseteq schema'.recorded /\ state.db = gateway[g].db
    BY <1>1, <1>2, <2>5 DEF LifeStates
  <2>11. schema.recorded = 1..Versions => schema'.recorded = 1..Versions
    BY <2>5
  <2>12. Fits(state, schema'.recorded, bindings)
    BY <1>1, <2>10, <2>11 DEF Fits, Using
  <2> HIDE DEF state, length
  <2> QED BY <1>2, <2>1, <2>5, <2>7, <2>8, <2>9, <2>12, SchemaKeeps
<1>6. CASE ~RecordsAnew(version)
  <2> DEFINE state == [gateway[g] EXCEPT !.pc = "serving", !.db = "none"]
  <2>1. state \in LifeStates /\ Fits(state, schema.recorded, bindings) /\ state.pc # "apply"
    BY <1>1, <1>2, WithoutFits
  <2>2. gateway' = [gateway EXCEPT ![g] = state] /\ UNCHANGED schema
    BY <1>4, <1>6 DEF WithoutDatabase, Become
  <2> HIDE DEF state
  <2> QED BY <1>2, <2>1, <2>2, ProcessKeeps
<1> QED BY <1>5, <1>6

\* From the complete schema to the loops: all of it uses the open database.
LEMMA Launching ==
  ASSUME LifeInv, NEW g \in Gateways,
         \/ Migrated(g) \/ CountKeys(g) \/ MintFirst(g) \/ StartLocal(g) \/ SkipAudit(g)
         \/ StartOuter(g)
  PROVE  LifeInv'
<1>1. gateway[g] \in LifeStates /\ Fits(gateway[g], schema.recorded, bindings)
  BY OfProcess
<1>2. UNCHANGED <<schema, bindings>>
  BY DEF Migrated, CountKeys, MintFirst, StartLocal, SkipAudit, StartOuter
<1>3. CASE Migrated(g)
  <2> DEFINE state == [gateway[g] EXCEPT !.pc = "count", !.db = "open"]
  <2>1. state \in LifeStates
    BY <1>1 DEF LifeStates, Using
  <2>2. /\ state.pc = "count" /\ state.db = "open" /\ state.loops = {}
        /\ state.settings \in KeySettings
    BY <1>1, <1>3 DEF LifeStates, Migrated, GatewayAt, Fits, Migrating
  <2>3. schema.recorded = 1..Versions
    <3>1. gateway[g].done = 1..Versions /\ gateway[g].done \subseteq schema.recorded
      BY <1>1, <1>3 DEF Migrated, GatewayAt, Fits, Migrating
    <3>2. schema.recorded \subseteq 1..Versions
      BY DEF LifeInv, LifeTyped
    <3> QED BY <3>1, <3>2
  <2>4. Fits(state, schema.recorded, bindings)
    BY <2>2, <2>3 DEF Fits, Migrating
  <2>5. gateway' = [gateway EXCEPT ![g] = state]
    BY <1>3 DEF Migrated, Become
  <2> HIDE DEF state
  <2> QED BY <1>2, <2>1, <2>2, <2>4, <2>5, ProcessKeeps
<1>4. CASE CountKeys(g) \/ MintFirst(g) \/ SkipAudit(g)
  <2>1. PICK pc \in {"mint", "local", "outer"} : Proceed(g, pc)
    <3>1. CASE CountKeys(g)
      BY <3>1 DEF CountKeys
    <3>2. CASE MintFirst(g) \/ SkipAudit(g)
      BY <3>2 DEF MintFirst, SkipAudit
    <3> QED BY <1>4, <3>1, <3>2
  <2>2. gateway[g].pc \in Using
    BY <1>4 DEF CountKeys, MintFirst, SkipAudit, GatewayAt, Using
  <2> DEFINE state == [gateway[g] EXCEPT !.pc = pc]
  <2>3. state \in LifeStates
    BY <1>1 DEF LifeStates, Using
  <2>4. /\ state.pc = pc /\ state.loops = gateway[g].loops /\ state.db = gateway[g].db
        /\ state.settings = gateway[g].settings
    BY <1>1 DEF LifeStates
  <2>5. Fits(state, schema.recorded, bindings)
    BY <1>1, <2>2, <2>4 DEF Fits, Migrating, Using
  <2>6. gateway' = [gateway EXCEPT ![g] = state]
    BY <2>1 DEF Proceed, Become
  <2> HIDE DEF state
  <2> QED BY <1>2, <2>3, <2>4, <2>5, <2>6, ProcessKeeps
<1>5. CASE StartLocal(g) \/ StartOuter(g)
  <2>1. PICK pc \in {"audit", "serving"}, names \in {LocalLoops, OuterLoops} : Launch(g, names, pc)
    BY <1>5 DEF StartLocal, StartOuter
  <2>2. gateway[g].pc \in Using /\ "audit_signer" \notin names
    BY <1>5 DEF StartLocal, StartOuter, GatewayAt, Using, LocalLoops, OuterLoops
  <2> DEFINE state == [gateway[g] EXCEPT !.pc = pc, !.loops = @ \union names]
  <2>3. state \in LifeStates
    BY <1>1 DEF LifeStates, Using
  <2>4. /\ state.pc = pc /\ state.loops = gateway[g].loops \union names
        /\ state.db = gateway[g].db /\ state.settings = gateway[g].settings
    BY <1>1 DEF LifeStates
  <2>5. gateway[g].db = "open" /\ gateway[g].settings \in KeySettings
    BY <1>1, <2>2 DEF Fits, Using
  <2>6. Fits(state, schema.recorded, bindings)
    BY <1>1, <2>2, <2>4, <2>5 DEF Fits, Migrating
  <2>7. gateway' = [gateway EXCEPT ![g] = state]
    BY <2>1 DEF Launch, Become
  <2> HIDE DEF state
  <2> QED BY <1>2, <2>3, <2>4, <2>6, <2>7, ProcessKeeps
<1> QED BY <1>3, <1>4, <1>5

\* The registration of the key: an id that is bound stays bound to its material, so a signer
\* that runs keeps its key.
LEMMA Registering ==
  ASSUME LifeInv, NEW g \in Gateways, StartAudit(g) PROVE LifeInv'
<1> DEFINE s == gateway[g].settings
<1>1. gateway[g] \in LifeStates /\ Fits(gateway[g], schema.recorded, bindings)
  BY OfProcess
<1>2. /\ UNCHANGED schema /\ gateway[g].db = "open" /\ s \in KeySettings
      /\ bindings \in [KeyIds -> Materials] /\ schema.recorded = 1..Versions
  BY <1>1 DEF StartAudit, GatewayAt, Fits, Using, LifeInv, LifeTyped
<1>3. CASE gateway' = [gateway EXCEPT ![g] = Down] /\ UNCHANGED bindings
  <2>1. Down.pc # "apply"
    BY DEF Down
  <2> QED BY <1>2, <1>3, <2>1, DownFits, ProcessKeeps
<1>4. CASE /\ \E loops \in {{"audit_checkpoint"}, AuditLoops} : Launch(g, loops, "outer")
           /\ \/ s.material = Unset /\ UNCHANGED bindings
              \/ /\ s.material # Unset /\ Bindable(s.id, s.material)
                 /\ bindings' = [bindings EXCEPT ![s.id] = s.material]
  <2>1. PICK loops \in {{"audit_checkpoint"}, AuditLoops} : Launch(g, loops, "outer")
    BY <1>4
  <2> DEFINE state == [gateway[g] EXCEPT !.pc = "outer", !.loops = @ \union loops]
  <2>2. state \in LifeStates
    BY <1>1 DEF LifeStates, Using, AuditLoops
  <2>3. state.pc = "outer" /\ state.db = "open" /\ state.settings = s
    BY <1>1, <1>2 DEF LifeStates
  <2>4. gateway' = [gateway EXCEPT ![g] = state]
    BY <2>1 DEF Launch, Become
  <2>5. s.id \in KeyIds /\ s.material \in Materials
    BY <1>2 DEF KeyIds, Materials
  <2>6. /\ bindings' \in [KeyIds -> Materials]
        /\ \A id \in KeyIds : bindings[id] # Unset => bindings'[id] = bindings[id]
        /\ s.material # Unset => bindings'[s.id] = s.material
    BY <1>2, <1>4, <2>5 DEF Bindable
  <2> HIDE DEF s, state
  <2>7. Fits(state, schema.recorded, bindings')
    BY <1>2, <2>3, <2>6 DEF Fits, Migrating
  <2>8. ASSUME NEW q \in Gateways PROVE Fits(gateway[q], schema.recorded, bindings')
    <3>1. Fits(gateway[q], schema.recorded, bindings)
      BY OfProcess
    <3>2. ASSUME "audit_signer" \in gateway[q].loops, gateway[q].settings.material # Unset
          PROVE  bindings'[gateway[q].settings.id] = gateway[q].settings.material
      <4>1. gateway[q].settings \in KeySettings
        BY <3>1, <3>2 DEF Fits
      <4>2. gateway[q].settings.id \in KeyIds
        BY <4>1 DEF KeyIds
      <4>3. bindings[gateway[q].settings.id] = gateway[q].settings.material
        BY <3>1, <3>2 DEF Fits
      <4> QED BY <2>6, <3>2, <4>2, <4>3
    <3> QED BY <3>1, <3>2 DEF Fits
  <2>9. ASSUME NEW q \in Gateways PROVE Fits(gateway'[q], schema.recorded, bindings')
    BY <2>4, <2>7, <2>8 DEF LifeInv, LifeTyped
  <2>10. LifeTyped'
    BY <1>2, <2>2, <2>4, <2>6 DEF LifeInv, LifeTyped
  <2>11. SchemaOrdered'
    BY <1>2, <2>3, <2>4 DEF LifeInv, LifeTyped, SchemaOrdered
  <2> QED BY <1>2, <2>9, <2>10, <2>11 DEF LifeInv
<1> QED BY <1>3, <1>4 DEF StartAudit, Become

\* The end of a process.
LEMMA Stopping ==
  ASSUME LifeInv, NEW g \in Gateways, StopLoop(g) \/ CloseDatabase(g) \/ Die(g) PROVE LifeInv'
<1>1. gateway[g] \in LifeStates /\ Fits(gateway[g], schema.recorded, bindings)
  BY OfProcess
<1>2. UNCHANGED <<schema, bindings>>
  BY DEF StopLoop, CloseDatabase, Die
<1>3. CASE StopLoop(g)
  <2> DEFINE stopped == Head(Remaining(g))
             state == [gateway[g] EXCEPT !.pc = "stopping", !.loops = @ \ {stopped}]
  <2>1. gateway' = [gateway EXCEPT ![g] = state]
    BY <1>3 DEF StopLoop, Become
  <2> HIDE DEF stopped
  <2>2. state \in LifeStates
    BY <1>1 DEF LifeStates
  <2>3. /\ state.pc = "stopping" /\ state.loops \subseteq gateway[g].loops
        /\ state.db = gateway[g].db /\ state.settings = gateway[g].settings
    BY <1>1 DEF LifeStates
  <2>4. gateway[g].loops # {}
    BY <1>3 DEF StopLoop
  <2> HIDE DEF state
  <2>5. Fits(state, schema.recorded, bindings)
    BY <1>1, <2>3, <2>4 DEF Fits, Migrating, Using
  <2> QED BY <1>2, <2>1, <2>2, <2>3, <2>5, ProcessKeeps
<1>4. CASE CloseDatabase(g) \/ Die(g)
  <2>1. Down.pc # "apply" /\ gateway' = [gateway EXCEPT ![g] = Down]
    BY <1>4 DEF Down, CloseDatabase, Die, Become
  <2> QED BY <1>2, <2>1, DownFits, ProcessKeeps
<1> QED BY <1>3, <1>4

\* Every step keeps the invariant.
LEMMA LifeStep == LifeInv /\ [LifecycleNext]_lifeVars => LifeInv'
<1> SUFFICES ASSUME LifeInv, [LifecycleNext]_lifeVars PROVE LifeInv'
  OBVIOUS
<1>1. CASE UNCHANGED lifeVars
  BY <1>1 DEF lifeVars, LifeInv, LifeTyped, SchemaOrdered
<1>2. CASE LifecycleNext
  <2>1. PICK g \in Gateways :
          \/ Start(g) \/ ReadRecorded(g) \/ Backfill(g) \/ ApplyNext(g) \/ Migrated(g)
          \/ MigrationFails(g) \/ CountKeys(g) \/ MintFirst(g) \/ StartLocal(g) \/ StartAudit(g)
          \/ SkipAudit(g) \/ StartOuter(g) \/ StopLoop(g) \/ CloseDatabase(g) \/ Die(g)
    BY <1>2 DEF LifecycleNext
  <2> QED BY <2>1, Starting, Backfilling, Applying, Launching, Registering, Stopping
<1> QED BY <1>1, <1>2

\* However many processes start, fail and stop beside each other on one database, every
\* migration is executed once and in order, a process that has the database has all of them and
\* runs its loops on it, and a signer runs under the material its key id was first bound to
\* (db/migrate.py:27-68, db/queries.py:3043-3061, main.py:237-493).
THEOREM ProcessesStayAgreed == LifeSpec => []ProcessesAgree
<1>1. LifeInv => ProcessesAgree
  <2> SUFFICES ASSUME LifeInv PROVE ProcessesAgree
    OBVIOUS
  <2>1. \A i \in DOMAIN schema.executed : schema.executed[i] = i
    BY DEF LifeInv, SchemaOrdered
  <2>2. \A g \in Gateways : Fits(gateway[g], schema.recorded, bindings)
    BY DEF LifeInv
  <2> QED BY <2>1, <2>2 DEF ProcessesAgree, Fits
<1> QED BY <1>1, LifeInitially, LifeStep, PTL DEF LifeSpec

\* However many processes start at once, the keys minted are counted.
LEMMA KeysCounted ==
  /\ LifecycleInit => keys \in Nat
  /\ keys \in Nat /\ [LifecycleNext]_lifeVars => keys' \in Nat
<1>1. LifecycleInit => keys \in Nat
  BY DEF LifecycleInit
<1>2. ASSUME keys \in Nat, [LifecycleNext]_lifeVars PROVE keys' \in Nat
  <2>1. keys' \in {keys, keys + 1}
    BY <1>2 DEF LifecycleNext, lifeVars, Start, ReadRecorded, Backfill, ApplyNext, Migrated,
       MigrationFails, CountKeys, MintFirst, StartLocal, StartAudit, SkipAudit, StartOuter,
       StopLoop, CloseDatabase, Die
  <2> QED BY <1>2, <2>1
<1> QED BY <1>1, <1>2

\* Processes that fit their database are typed.
LEMMA LifeTypes == LifeInv /\ keys \in Nat => LifeTypeOK
<1> SUFFICES ASSUME LifeInv, keys \in Nat PROVE LifeTypeOK
  OBVIOUS
<1>1. \A g \in Gateways : gateway[g] \in LifeStates
  BY DEF LifeInv, LifeTyped
<1>2. \A g \in Gateways : /\ gateway[g].db \in {"none", "open"}
                          /\ gateway[g].done \subseteq 1..Versions
                          /\ gateway[g].loops \subseteq LocalLoops \union AuditLoops \union OuterLoops
  BY <1>1 DEF LifeStates
<1>3. schema.recorded \subseteq 1..Versions /\ DOMAIN bindings = KeyIds
  BY DEF LifeInv, LifeTyped
<1> QED BY <1>2, <1>3 DEF LifeTypeOK

(*****************************************************************************)
(* PrivacyChain: the hooks of concurrent requests leave one chain of hashes. *)
(*****************************************************************************)

ChainLevels == SensitiveLevels \union {"none"}
ChainHashes == Seq(Reported \X ChainLevels)
ChainRows == [p : Reported, level : ChainLevels, prev : ChainHashes, this : ChainHashes]
ChainStates == [pc : {"new", "wait", "insert", "done"}, level : ChainLevels, prev : ChainHashes]

ChainTyped ==
  /\ logging \in [Reported -> ChainStates]
  /\ privacyLog \in Seq(ChainRows) /\ Len(privacyLog) <= RowBound
  /\ hinted \subseteq Reported

\* The handler that holds the lock is the only one and has read the hash of the last row.
ChainHeld ==
  \A p \in Reported :
    logging[p].pc = "insert" =>
      /\ logging[p].prev = LastHash
      /\ \A q \in Reported : logging[q].pc = "insert" => q = p

ChainInv == ChainTyped /\ ChainHeld /\ Verifies(privacyLog)

-----------------------------------------------------------------------------

\* The invariant holds at the start.
LEMMA ChainInitially == ChainInit => ChainInv
<1> SUFFICES ASSUME ChainInit PROVE ChainInv
  OBVIOUS
<1>1. NotLogging \in ChainStates
  BY DEF NotLogging, ChainStates, ChainLevels, ChainHashes, Genesis
<1>2. ChainTyped
  BY <1>1, ChainAssumption DEF ChainInit, ChainTyped
<1>3. ChainHeld
  BY DEF ChainInit, ChainHeld, NotLogging
<1>4. Verifies(privacyLog)
  BY DEF ChainInit, Verifies
<1> QED BY <1>2, <1>3, <1>4 DEF ChainInv

\* The hash the next row starts from is one.
LEMMA LastHashTyped == ASSUME ChainTyped PROVE LastHash \in ChainHashes
<1>1. Len(privacyLog) \in Nat /\ (privacyLog # <<>> => Len(privacyLog) \in 1..Len(privacyLog))
  BY EmptySeq, LenProperties DEF ChainTyped
<1>2. privacyLog # <<>> => privacyLog[Len(privacyLog)] \in ChainRows
  BY <1>1, ElementOfSeq DEF ChainTyped
<1>3. Genesis \in ChainHashes
  BY DEF Genesis, ChainHashes
<1> QED BY <1>2, <1>3 DEF LastHash, ChainRows

\* A step of one handler that leaves the log alone.
LEMMA ChainOneMoves ==
  ASSUME ChainInv, NEW p \in Reported, NEW l \in ChainStates,
         logging' = [logging EXCEPT ![p] = l], privacyLog' = privacyLog,
         hinted' \subseteq Reported,
         l.pc = "insert" => ChainLockFree /\ l.prev = LastHash
  PROVE  ChainInv'
<1>1. ChainTyped'
  BY DEF ChainInv, ChainTyped
<1>2. ChainHeld'
  <2> SUFFICES ASSUME NEW q \in Reported, logging'[q].pc = "insert"
               PROVE  /\ logging'[q].prev = LastHash'
                      /\ \A o \in Reported : logging'[o].pc = "insert" => o = q
    BY DEF ChainHeld
  <2>1. LastHash' = LastHash
    BY DEF LastHash
  <2>2. \A o \in Reported : logging'[o] = IF o = p THEN l ELSE logging[o]
    BY DEF ChainInv, ChainTyped
  <2> QED BY <2>1, <2>2 DEF ChainInv, ChainHeld, ChainLockFree
<1>3. Verifies(privacyLog')
  BY DEF ChainInv
<1> QED BY <1>1, <1>2, <1>3 DEF ChainInv

\* A log that verifies and is extended from its last hash verifies.
LEMMA ChainGrows ==
  ASSUME ChainInv, NEW row \in ChainRows, row.prev = LastHash,
         row.this = LinkHash(row.prev, row.p, row.level)
  PROVE  Verifies(Append(privacyLog, row))
<1> DEFINE longer == Append(privacyLog, row)
<1>1. privacyLog \in Seq(ChainRows) /\ Len(privacyLog) \in Nat
  BY LenProperties DEF ChainInv, ChainTyped
<1>2. /\ longer \in Seq(ChainRows) /\ Len(longer) = Len(privacyLog) + 1
      /\ \A i \in 1..Len(privacyLog) : longer[i] = privacyLog[i]
      /\ longer[Len(privacyLog) + 1] = row
  BY <1>1, AppendProperties
<1>3. DOMAIN longer = 1..(Len(privacyLog) + 1) /\ DOMAIN privacyLog = 1..Len(privacyLog)
  BY <1>1, <1>2
<1>4. privacyLog = <<>> <=> Len(privacyLog) = 0
  BY <1>1, EmptySeq
<1> HIDE DEF longer
<1>5. ASSUME NEW i \in DOMAIN longer
      PROVE  /\ longer[i].prev = IF i = 1 THEN Genesis ELSE longer[i - 1].this
             /\ longer[i].this = LinkHash(longer[i].prev, longer[i].p, longer[i].level)
  <2>1. CASE i = Len(privacyLog) + 1
    <3>1. CASE i = 1
      BY <1>1, <1>2, <1>4, <2>1, <3>1 DEF LastHash
    <3>2. CASE i # 1
      <4>1. longer[i - 1] = privacyLog[Len(privacyLog)] /\ privacyLog # <<>>
        BY <1>1, <1>2, <1>3, <1>4, <2>1, <3>2
      <4> QED BY <1>2, <2>1, <3>2, <4>1 DEF LastHash
    <3> QED BY <3>1, <3>2
  <2>2. CASE i # Len(privacyLog) + 1
    <3>1. i \in DOMAIN privacyLog /\ longer[i] = privacyLog[i]
          /\ (i # 1 => longer[i - 1] = privacyLog[i - 1])
      BY <1>1, <1>2, <1>3, <2>2
    <3> QED BY <3>1 DEF ChainInv, Verifies
  <2> QED BY <2>1, <2>2
<1> QED BY <1>5 DEF Verifies, longer

\* The row a handler appends.
LEMMA ChainInserts == ASSUME ChainInv, NEW p \in Reported, InsertRow(p) PROVE ChainInv'
<1> DEFINE l == [logging[p] EXCEPT !.pc = "done"]
           row == [p |-> p, level |-> logging[p].level, prev |-> logging[p].prev,
                   this |-> LinkHash(logging[p].prev, p, logging[p].level)]
<1>1. /\ logging \in [Reported -> ChainStates] /\ logging[p] \in ChainStates
      /\ privacyLog \in Seq(ChainRows)
  BY DEF ChainInv, ChainTyped
<1>2. /\ logging[p].pc = "insert" /\ logging[p].prev = LastHash
      /\ \A q \in Reported : logging[q].pc = "insert" => q = p
  BY DEF InsertRow, ChainInv, ChainHeld
<1>3. /\ logging' = [logging EXCEPT ![p] = l] /\ privacyLog' = Append(privacyLog, row)
      /\ hinted' = hinted /\ Len(privacyLog) < RowBound
  BY DEF InsertRow, ChainTo
<1>4. l \in ChainStates /\ l.pc = "done"
  BY <1>1 DEF ChainStates
<1>5. <<p, logging[p].level>> \in Reported \X ChainLevels
  BY <1>1 DEF ChainStates
<1>6. row.this \in ChainHashes
  BY <1>1, <1>5, AppendProperties DEF LinkHash, ChainStates, ChainHashes
<1>7. row \in ChainRows /\ row.prev = LastHash /\ row.this = LinkHash(row.prev, row.p, row.level)
  BY <1>1, <1>2, <1>6 DEF ChainRows, ChainStates
<1> HIDE DEF l, row
<1>8. Verifies(privacyLog')
  BY <1>3, <1>7, ChainGrows
<1>9. ChainTyped'
  <2>1. privacyLog' \in Seq(ChainRows) /\ Len(privacyLog') = Len(privacyLog) + 1
    BY <1>1, <1>3, <1>7, AppendProperties
  <2>2. Len(privacyLog') <= RowBound
    BY <1>1, <1>3, <2>1, ChainAssumption, LenProperties
  <2> QED BY <1>1, <1>3, <1>4, <2>1, <2>2 DEF ChainInv, ChainTyped
<1>10. ChainHeld'
  <2>1. \A o \in Reported : logging'[o] = IF o = p THEN l ELSE logging[o]
    BY <1>1, <1>3
  <2>2. \A o \in Reported : logging'[o].pc # "insert"
    BY <1>2, <1>4, <2>1
  <2> QED BY <2>2 DEF ChainHeld
<1> QED BY <1>8, <1>9, <1>10 DEF ChainInv

\* The restart releases the lock.
LEMMA ChainRestarts == ASSUME ChainInv, RestartPrivacy PROVE ChainInv'
<1>1. logging \in [Reported -> ChainStates]
  BY DEF ChainInv, ChainTyped
<1>2. ASSUME NEW q \in Reported
      PROVE  logging'[q] \in ChainStates /\ logging'[q].pc # "insert"
  BY <1>1 DEF RestartPrivacy, ChainStates
<1>3. logging' \in [Reported -> ChainStates]
  BY <1>2 DEF RestartPrivacy
<1>4. privacyLog' = privacyLog /\ hinted' = hinted
  BY DEF RestartPrivacy
<1> QED BY <1>2, <1>3, <1>4 DEF ChainInv, ChainTyped, ChainHeld

\* Every step keeps the invariant.
LEMMA ChainStep == ChainInv /\ [ChainNext]_chainVars => ChainInv'
<1> SUFFICES ASSUME ChainInv, [ChainNext]_chainVars PROVE ChainInv'
  OBVIOUS
<1>1. CASE UNCHANGED chainVars
  BY <1>1 DEF chainVars, ChainInv, ChainTyped, ChainHeld, LastHash
<1>2. CASE RestartPrivacy
  BY <1>2, ChainRestarts
<1>3. ASSUME NEW p \in Reported, HintPrompt(p) \/ ReadLast(p) \/ InsertRow(p) \/ FailInsert(p)
      PROVE  ChainInv'
  <2> USE <1>3
  <2>1. logging[p] \in ChainStates /\ hinted \subseteq Reported
    BY DEF ChainInv, ChainTyped
  <2>2. CASE HintPrompt(p)
    <3>1. PICK level \in ChainLevels :
            /\ ChainTo(p, [NotLogging EXCEPT !.level = level,
                             !.pc = IF level \in SensitiveLevels THEN "wait" ELSE "done"])
            /\ hinted' = IF level \in SensitiveLevels THEN hinted \union {p} ELSE hinted
      BY <2>2 DEF HintPrompt, ChainLevels
    <3> DEFINE l == [NotLogging EXCEPT !.level = level,
                       !.pc = IF level \in SensitiveLevels THEN "wait" ELSE "done"]
    <3>2. Genesis \in ChainHashes
      BY DEF Genesis, ChainHashes
    <3>4. l \in ChainStates /\ l.pc # "insert"
      BY <3>2 DEF NotLogging, ChainStates
    <3>3. logging' = [logging EXCEPT ![p] = l] /\ privacyLog' = privacyLog
          /\ hinted' \subseteq Reported
      BY <2>1, <2>2, <3>1 DEF ChainTo, HintPrompt
    <3> HIDE DEF l
    <3> QED BY <3>3, <3>4, ChainOneMoves
  <2>3. CASE ReadLast(p)
    <3> DEFINE l == [logging[p] EXCEPT !.pc = "insert", !.prev = LastHash]
               d == [logging[p] EXCEPT !.pc = "done"]
    <3>1. l \in ChainStates /\ l.prev = LastHash /\ d \in ChainStates /\ d.pc = "done"
      BY <2>1, LastHashTyped DEF ChainStates, ChainInv
    <3>2. /\ ChainLockFree /\ privacyLog' = privacyLog /\ hinted' \subseteq Reported
          /\ \/ logging' = [logging EXCEPT ![p] = l]
             \/ logging' = [logging EXCEPT ![p] = d]
      BY <2>1, <2>3 DEF ReadLast, ChainTo
    <3> HIDE DEF l, d
    <3> QED BY <3>1, <3>2, ChainOneMoves
  <2>4. CASE InsertRow(p)
    BY <2>4, ChainInserts
  <2>5. CASE FailInsert(p)
    <3> DEFINE d == [logging[p] EXCEPT !.pc = "done"]
    <3>1. d \in ChainStates /\ d.pc = "done"
      BY <2>1 DEF ChainStates
    <3>2. privacyLog' = privacyLog /\ hinted' \subseteq Reported
          /\ logging' = [logging EXCEPT ![p] = d]
      BY <2>1, <2>5 DEF FailInsert, ChainTo
    <3> HIDE DEF d
    <3> QED BY <3>1, <3>2, ChainOneMoves
  <2> QED BY <2>2, <2>3, <2>4, <2>5
<1> QED BY <1>1, <1>2, <1>3 DEF ChainNext

\* A row that was rewritten no longer has the hash it carries.
LEMMA RewritesShow ==
  ASSUME ChainInv, NEW i \in DOMAIN privacyLog, NEW level \in SensitiveLevels,
         Verifies([privacyLog EXCEPT ![i].level = level])
  PROVE  [privacyLog EXCEPT ![i].level = level] = privacyLog
<1> DEFINE log == [privacyLog EXCEPT ![i].level = level]
<1>1. privacyLog \in Seq(ChainRows) /\ i \in 1..Len(privacyLog)
  BY DEF ChainInv, ChainTyped
<1>2. privacyLog[i] \in ChainRows
  BY <1>1, ElementOfSeq
<1>3. DOMAIN log = DOMAIN privacyLog /\ log[i] = [privacyLog[i] EXCEPT !.level = level]
  BY <1>1
<1>4. /\ log[i].prev = privacyLog[i].prev /\ log[i].this = privacyLog[i].this
      /\ log[i].p = privacyLog[i].p /\ log[i].level = level
  BY <1>2, <1>3 DEF ChainRows
<1>5. log[i].this = LinkHash(log[i].prev, log[i].p, log[i].level)
  BY <1>3 DEF Verifies
<1>6. privacyLog[i].this = LinkHash(privacyLog[i].prev, privacyLog[i].p, privacyLog[i].level)
  BY DEF ChainInv, Verifies
<1>7. Append(privacyLog[i].prev, <<privacyLog[i].p, level>>)
        = Append(privacyLog[i].prev, <<privacyLog[i].p, privacyLog[i].level>>)
  BY <1>4, <1>5, <1>6 DEF LinkHash
<1>8. /\ <<privacyLog[i].p, level>> \in Reported \X ChainLevels
      /\ <<privacyLog[i].p, privacyLog[i].level>> \in Reported \X ChainLevels
      /\ privacyLog[i].prev \in Seq(Reported \X ChainLevels)
  BY <1>2 DEF ChainRows, ChainLevels, ChainHashes
<1>9. <<privacyLog[i].p, level>> = <<privacyLog[i].p, privacyLog[i].level>>
  BY <1>7, <1>8, AppendInjective
<1>10. level = privacyLog[i].level
  BY <1>9
<1>11. [privacyLog[i] EXCEPT !.level = level] = privacyLog[i]
  BY <1>2, <1>10 DEF ChainRows
<1> QED BY <1>1, <1>11

\* A sequence without its i-th entry.
Without(s, i) == SubSeq(s, 1, i - 1) \o SubSeq(s, i + 1, Len(s))

\* What a part of a sequence is, with the bounds in the form they are needed.
LEMMA PartOf ==
  ASSUME NEW S, NEW s \in Seq(S), NEW m \in Nat \ {0}, NEW n \in Nat, n <= Len(s), m <= n + 1
  PROVE  /\ SubSeq(s, m, n) \in Seq(S) /\ Len(SubSeq(s, m, n)) = n - m + 1
         /\ \A j \in 1..(n - m + 1) : SubSeq(s, m, n)[j] = s[m + j - 1]
<1>1. \A j \in m..n : s[j] \in S
  BY ElementOfSeq, LenProperties
<1>2. m \in Int /\ n \in Int /\ (~(m <= n) => n - m + 1 = 0)
  OBVIOUS
<1> QED BY <1>1, <1>2, SubSeqProperties

\* The entries where one was removed.
LEMMA RemovedRow ==
  ASSUME NEW S, NEW s \in Seq(S), NEW n \in Nat, n = Len(s), NEW i \in 1..n, i # n
  PROVE  /\ i \in DOMAIN Without(s, i) /\ Without(s, i)[i] = s[i + 1]
         /\ i # 1 => Without(s, i)[i - 1] = s[i - 1]
<1> DEFINE log == Without(s, i)
           front == SubSeq(s, 1, i - 1)
           back == SubSeq(s, i + 1, n)
<1>2. /\ front \in Seq(S) /\ Len(front) = i - 1
      /\ \A j \in 1..(i - 1) : front[j] = s[j]
  <2> DEFINE k == i - 1
  <2>1. k \in Nat /\ k <= Len(s) /\ k - 1 + 1 = k /\ \A j \in 1..k : 1 + j - 1 = j
    OBVIOUS
  <2> HIDE DEF k
  <2>2. /\ SubSeq(s, 1, k) \in Seq(S) /\ Len(SubSeq(s, 1, k)) = k
        /\ \A j \in 1..k : SubSeq(s, 1, k)[j] = s[j]
    BY <2>1, PartOf
  <2> QED BY <2>2 DEF k
<1>3. /\ back \in Seq(S) /\ Len(back) = n - i
      /\ \A j \in 1..(n - i) : back[j] = s[i + j]
  <2> DEFINE k == i + 1
  <2>1. k \in Nat \ {0} /\ k <= n + 1 /\ n - k + 1 = n - i
        /\ \A j \in 1..(n - i) : k + j - 1 = i + j
    OBVIOUS
  <2> HIDE DEF k
  <2>2. /\ SubSeq(s, k, n) \in Seq(S) /\ Len(SubSeq(s, k, n)) = n - i
        /\ \A j \in 1..(n - i) : SubSeq(s, k, n)[j] = s[i + j]
    BY <2>1, PartOf
  <2> QED BY <2>2 DEF k
<1>4. log = front \o back
  BY DEF Without
<1> HIDE DEF front, back, log
<1>5. /\ log \in Seq(S) /\ Len(log) = Len(front) + Len(back)
      /\ \A j \in 1 .. Len(front) + Len(back) :
           log[j] = IF j <= Len(front) THEN front[j] ELSE back[j - Len(front)]
  BY <1>2, <1>3, <1>4, ConcatProperties
<1>6. Len(front) + Len(back) = n - 1
  BY <1>2, <1>3
<1>7. DOMAIN log = 1..(n - 1)
  BY <1>5, <1>6, LenProperties
<1>8. log[i] = s[i + 1]
  <2>1. ~(i <= Len(front)) /\ i - Len(front) = 1 /\ i \in 1..(n - 1) /\ 1 \in 1..(n - i)
    BY <1>2
  <2> QED BY <1>3, <1>5, <1>6, <2>1
<1>9. ASSUME i # 1 PROVE log[i - 1] = s[i - 1]
  <2>1. i - 1 <= Len(front) /\ i - 1 \in 1..(n - 1) /\ i - 1 \in 1..(i - 1)
    BY <1>2, <1>9
  <2> QED BY <1>2, <1>5, <1>6, <2>1
<1> QED BY <1>7, <1>8, <1>9 DEF log
\* A row that is gone from the middle leaves one that does not follow the row before it.
LEMMA RemovalsShow ==
  ASSUME ChainInv, NEW i \in DOMAIN privacyLog, Verifies(Without(privacyLog, i))
  PROVE  i = Len(privacyLog)
<1> SUFFICES ASSUME i # Len(privacyLog) PROVE FALSE
  OBVIOUS
<1> DEFINE n == Len(privacyLog)
           log == Without(privacyLog, i)
<1>1. /\ privacyLog \in Seq(ChainRows) /\ n \in Nat /\ DOMAIN privacyLog = 1..n /\ i \in 1..n
      /\ \A j \in 1..n : privacyLog[j] \in ChainRows
  BY ElementOfSeq, LenProperties DEF ChainInv, ChainTyped
<1>2. /\ i \in DOMAIN log /\ log[i] = privacyLog[i + 1]
      /\ (i # 1 => log[i - 1] = privacyLog[i - 1])
  BY <1>1, RemovedRow
<1>3. Verifies(log)
  OBVIOUS
<1> HIDE DEF log
<1>4. log[i].prev = IF i = 1 THEN Genesis ELSE log[i - 1].this
  BY <1>2, <1>3 DEF Verifies
<1>5. i + 1 \in DOMAIN privacyLog /\ i + 1 # 1 /\ (i + 1) - 1 = i
  BY <1>1
<1>6. privacyLog[i + 1].prev = privacyLog[i].this
  BY <1>5 DEF ChainInv, Verifies
<1>7. /\ privacyLog[i].prev = IF i = 1 THEN Genesis ELSE privacyLog[i - 1].this
      /\ privacyLog[i].this = LinkHash(privacyLog[i].prev, privacyLog[i].p, privacyLog[i].level)
  BY DEF ChainInv, Verifies
<1>8. privacyLog[i].this = privacyLog[i].prev
  BY <1>2, <1>4, <1>6, <1>7
<1>9. /\ privacyLog[i].prev \in Seq(Reported \X ChainLevels)
      /\ <<privacyLog[i].p, privacyLog[i].level>> \in Reported \X ChainLevels
  BY <1>1 DEF ChainRows, ChainHashes
<1>10. Len(privacyLog[i].this) = Len(privacyLog[i].prev) + 1
  BY <1>7, <1>9, AppendProperties DEF LinkHash
<1> QED BY <1>8, <1>9, <1>10, LenProperties

\* What the invariant says of the log.
LEMMA ChainIsIntact == ChainInv => ChainIntact
<1> SUFFICES ASSUME ChainInv, NEW log \in Edited(privacyLog), Verifies(log)
             PROVE  log = SubSeq(privacyLog, 1, Len(log))
  BY DEF ChainIntact, ChainInv
<1>1. privacyLog \in Seq(ChainRows) /\ Len(privacyLog) \in Nat
      /\ \A j \in 1..Len(privacyLog) : privacyLog[j] \in ChainRows
  BY ElementOfSeq, LenProperties DEF ChainInv, ChainTyped
<1>2. ASSUME NEW i \in DOMAIN privacyLog, NEW level \in SensitiveLevels,
             log = [privacyLog EXCEPT ![i].level = level]
      PROVE  log = SubSeq(privacyLog, 1, Len(log))
  BY <1>1, <1>2, RewritesShow, SubSeqFull
<1>3. ASSUME NEW i \in DOMAIN privacyLog, log = Without(privacyLog, i)
      PROVE  log = SubSeq(privacyLog, 1, Len(log))
  <2> DEFINE n == Len(privacyLog)
  <2>1. i = n
    BY <1>3, RemovalsShow
  <2>2. n \in Nat \ {0} /\ n + 1 \in Int /\ n < n + 1
    BY <1>1, <2>1
  <2> DEFINE k == n - 1
             e == n + 1
  <2>3. k \in Nat /\ k <= n /\ 1 <= k + 1 /\ k - 1 + 1 = k /\ e \in Int
    BY <2>2
  <2>4. log = SubSeq(privacyLog, 1, k) \o SubSeq(privacyLog, e, n)
    BY <1>3, <2>1 DEF Without
  <2>5. SubSeq(privacyLog, e, n) = <<>>
    BY <2>2, SubSeqEmpty
  <2> HIDE DEF n, k, e
  <2>6. SubSeq(privacyLog, 1, k) \in Seq(ChainRows) /\ Len(SubSeq(privacyLog, 1, k)) = k
    BY <1>1, <2>3, PartOf DEF n
  <2>7. log = SubSeq(privacyLog, 1, k)
    BY <2>4, <2>5, <2>6, ConcatEmptySeq
  <2> QED BY <2>6, <2>7
<1> DEFINE Rewritten == {[privacyLog EXCEPT ![i].level = level] :
                           i \in DOMAIN privacyLog, level \in SensitiveLevels}
           Removed == {SubSeq(privacyLog, 1, i - 1) \o SubSeq(privacyLog, i + 1, Len(privacyLog)) :
                         i \in DOMAIN privacyLog}
<1>4. Edited(privacyLog) = Rewritten \union Removed
  BY DEF Edited
<1> HIDE DEF Rewritten, Removed
<1>5. CASE log \in Rewritten
  <2>1. PICK i \in DOMAIN privacyLog, level \in SensitiveLevels :
          log = [privacyLog EXCEPT ![i].level = level]
    BY <1>5 DEF Rewritten
  <2> QED BY <1>2, <2>1
<1>6. CASE log \in Removed
  <2>1. \E i \in DOMAIN privacyLog :
          log = SubSeq(privacyLog, 1, i - 1) \o SubSeq(privacyLog, i + 1, Len(privacyLog))
    BY <1>6 DEF Removed
  <2> QED BY <1>3, <2>1, Zenon DEF Without
<1> QED BY <1>4, <1>5, <1>6

\* A log that verifies is typed.
LEMMA ChainTypes == ChainInv => ChainTypeOK
<1> SUFFICES ASSUME ChainInv PROVE ChainTypeOK
  OBVIOUS
<1> QED BY DEF ChainInv, ChainTyped, ChainTypeOK, ChainStates, ChainLevels

(*****************************************************************************)
(* CaptureSink: the handlers of a process build one pool.                    *)
(*****************************************************************************)

HookStates == [pc : {"file", "pool", "lock", "build", "insert", "drop", "done"},
               pool : 0..PoolBound]

\* Who builds a pool holds the lock, and there is none meanwhile.
BuilderHolds ==
  /\ \A h \in Hooks : hooks[h].pc = "build" => holder = {h} /\ pools.current = NoPool
  /\ holder # {} => \E h \in Hooks : holder = {h}

SinkInv == SinkTypeOK /\ BuilderHolds /\ OnePool

-----------------------------------------------------------------------------

\* The invariant holds at the start.
LEMMA SinkInitially == SinkInit => SinkInv
<1> SUFFICES ASSUME SinkInit PROVE SinkInv
  OBVIOUS
<1>1. 0 \in 0..PoolBound
  BY SinkAssumption
<1>2. NotWriting \in HookStates
  BY <1>1 DEF NotWriting, NoPool, HookStates
<1>3. SinkTypeOK
  BY <1>1, <1>2 DEF SinkInit, SinkTypeOK, HookStates, NoPool
<1>4. BuilderHolds /\ OnePool
  BY DEF SinkInit, BuilderHolds, OnePool, NotWriting
<1> QED BY <1>3, <1>4 DEF SinkInv

\* A step of one hook that leaves the pools alone.
LEMMA HookMoves ==
  ASSUME SinkInv, NEW h \in Hooks, NEW w \in HookStates, hooks' = [hooks EXCEPT ![h] = w],
         UNCHANGED pools, captured' \in [file : SUBSET Hooks, rows : SUBSET Hooks],
         \/ w.pc # "build" /\ hooks[h].pc # "build" /\ holder' = holder
         \/ w.pc # "build" /\ hooks[h].pc = "build" /\ holder' = {}
         \/ w.pc = "build" /\ holder = {} /\ holder' = {h} /\ Missing
  PROVE  SinkInv'
<1>1. hooks \in [Hooks -> HookStates]
  BY DEF SinkInv, SinkTypeOK, HookStates
<1>2. hooks' \in [Hooks -> HookStates]
      /\ \A g \in Hooks : hooks'[g] = IF g = h THEN w ELSE hooks[g]
  BY <1>1
<1>3. SinkTypeOK'
  BY <1>2 DEF SinkInv, SinkTypeOK, HookStates
<1>4. BuilderHolds'
  BY <1>2 DEF SinkInv, BuilderHolds, Missing
<1> QED BY <1>3, <1>4 DEF SinkInv, OnePool

\* The pool a hook builds is the only one.
LEMMA HookBuilds == ASSUME SinkInv, NEW h \in Hooks, BuildPool(h) PROVE SinkInv'
<1>1. /\ hooks \in [Hooks -> HookStates] /\ hooks[h] \in HookStates
      /\ pools.built \in 0..PoolBound
      /\ pools.open = {} /\ pools.current = NoPool
      /\ \A g \in Hooks : hooks[g].pc = "build" => g = h
  BY DEF SinkInv, SinkTypeOK, BuilderHolds, OnePool, HookStates, BuildPool, HookAt
<1>2. CASE UNCHANGED pools /\ HookTo(h, [hooks[h] EXCEPT !.pc = "drop"])
  <2> DEFINE w == [hooks[h] EXCEPT !.pc = "drop"]
  <2>1. w \in HookStates /\ w.pc = "drop"
    BY <1>1 DEF HookStates
  <2>2. hooks' = [hooks EXCEPT ![h] = w] /\ holder' = {} /\ captured' = captured
        /\ hooks[h].pc = "build"
    BY <1>2 DEF HookTo, HookAt, BuildPool
  <2>3. captured' \in [file : SUBSET Hooks, rows : SUBSET Hooks]
    BY <2>2 DEF SinkInv, SinkTypeOK
  <2> HIDE DEF w
  <2> QED BY <1>2, <2>1, <2>2, <2>3, HookMoves
<1>3. CASE pools.built < PoolBound /\ ~(UNCHANGED pools /\ HookTo(h, [hooks[h] EXCEPT !.pc = "drop"]))
  <2> DEFINE new == pools.built + 1
             w == [pc |-> "insert", pool |-> new]
  <2>1. new \in 1..PoolBound /\ new \in 0..PoolBound /\ new # NoPool
    BY <1>1, <1>3, SinkAssumption DEF NoPool
  <2>2. pools' = [current |-> new, open |-> pools.open \union {new}, built |-> new]
        /\ hooks' = [hooks EXCEPT ![h] = w] /\ holder' = {} /\ captured' = captured
    BY <1>3 DEF BuildPool, HookTo
  <2> HIDE DEF new
  <2>3. w \in HookStates /\ w.pc = "insert"
    BY <2>1 DEF HookStates
  <2> HIDE DEF w
  <2>4. hooks' \in [Hooks -> HookStates]
        /\ \A g \in Hooks : hooks'[g] = IF g = h THEN w ELSE hooks[g]
    BY <1>1, <2>2, <2>3
  <2>5. pools'.open = {new} /\ pools'.current = new
        /\ pools' \in [current : 0..PoolBound, open : SUBSET (1..PoolBound), built : 0..PoolBound]
    <3>1. pools'.open = {new} /\ pools'.current = new /\ pools'.built = new
      BY <1>1, <2>2
    <3>2. {new} \in SUBSET (1..PoolBound)
      BY <2>1
    <3> QED BY <2>1, <2>2, <3>1, <3>2
  <2>6. SinkTypeOK'
    BY <2>2, <2>4, <2>5 DEF SinkInv, SinkTypeOK, HookStates
  <2>7. BuilderHolds'
    BY <1>1, <2>2, <2>3, <2>4 DEF BuilderHolds
  <2>8. OnePool'
    BY <2>1, <2>5 DEF OnePool, NoPool
  <2> QED BY <2>6, <2>7, <2>8 DEF SinkInv
<1> QED BY <1>2, <1>3 DEF BuildPool

\* The pool that is dropped was the only one.
LEMMA HookDrops == ASSUME SinkInv, NEW h \in Hooks, DropPool(h) PROVE SinkInv'
<1> DEFINE w == [hooks[h] EXCEPT !.pc = "done"]
<1>1. /\ hooks \in [Hooks -> HookStates] /\ hooks[h] \in HookStates
      /\ pools \in [current : 0..PoolBound, open : SUBSET (1..PoolBound), built : 0..PoolBound]
      /\ \A g \in Hooks : hooks[g].pc # "build"
  BY DEF SinkInv, SinkTypeOK, BuilderHolds, HookStates, DropPool
<1>2. w \in HookStates /\ w.pc = "done"
  BY <1>1 DEF HookStates
<1>3. /\ pools' = [pools EXCEPT !.current = NoPool, !.open = pools.open \ {pools.current}]
      /\ hooks' = [hooks EXCEPT ![h] = w] /\ holder' = holder /\ captured' = captured
  BY DEF DropPool, HookTo
<1>4. NoPool \in 0..PoolBound
  BY SinkAssumption DEF NoPool
<1>5. pools'.current = NoPool /\ pools'.open = {} 
      /\ pools' \in [current : 0..PoolBound, open : SUBSET (1..PoolBound), built : 0..PoolBound]
  BY <1>1, <1>3, <1>4 DEF SinkInv, OnePool
<1> HIDE DEF w
<1>6. hooks' \in [Hooks -> HookStates]
      /\ \A g \in Hooks : hooks'[g] = IF g = h THEN w ELSE hooks[g]
  BY <1>1, <1>2, <1>3
<1>7. SinkTypeOK'
  BY <1>3, <1>5, <1>6 DEF SinkInv, SinkTypeOK, HookStates
<1>8. BuilderHolds'
  BY <1>1, <1>2, <1>3, <1>6 DEF BuilderHolds, SinkInv
<1> QED BY <1>5, <1>7, <1>8 DEF SinkInv, OnePool

\* Every step keeps the invariant.
LEMMA SinkStep == SinkInv /\ [SinkNext]_sinkVars => SinkInv'
<1> SUFFICES ASSUME SinkInv, [SinkNext]_sinkVars PROVE SinkInv'
  OBVIOUS
<1>1. CASE UNCHANGED sinkVars
  BY <1>1 DEF sinkVars, SinkInv, SinkTypeOK, BuilderHolds, OnePool
<1>2. ASSUME NEW h \in Hooks, \/ WriteLine(h) \/ TakeSinkPool(h) \/ LockPool(h) \/ BuildPool(h)
                              \/ InsertMemory(h) \/ DropPool(h)
      PROVE  SinkInv'
  <2>1. /\ hooks[h] \in HookStates /\ captured \in [file : SUBSET Hooks, rows : SUBSET Hooks]
        /\ pools.current \in 0..PoolBound
    BY DEF SinkInv, SinkTypeOK, HookStates
  <2> DEFINE To(pc) == [hooks[h] EXCEPT !.pc = pc]
             taken == [pc |-> "insert", pool |-> pools.current]
  <2>2. /\ \A pc \in {"pool", "lock", "build", "drop", "done"} :
             To(pc) \in HookStates /\ To(pc).pc = pc
        /\ taken \in HookStates /\ taken.pc = "insert"
    BY <2>1 DEF HookStates
  <2> HIDE DEF To, taken
  <2>3. CASE WriteLine(h)
    <3>1. PICK pc \in {"pool", "done"} : hooks' = [hooks EXCEPT ![h] = To(pc)]
      BY <2>3 DEF WriteLine, HookTo, To
    <3>2. UNCHANGED <<pools, holder>> /\ hooks[h].pc = "file"
      BY <2>3 DEF WriteLine, HookAt
    <3>3. captured' \in [file : SUBSET Hooks, rows : SUBSET Hooks]
      BY <2>1, <2>3 DEF WriteLine
    <3> QED BY <2>2, <3>1, <3>2, <3>3, HookMoves
  <2>4. CASE TakeSinkPool(h)
    <3>1. /\ \/ hooks' = [hooks EXCEPT ![h] = To("lock")]
             \/ hooks' = [hooks EXCEPT ![h] = taken]
          /\ UNCHANGED <<captured, pools, holder>> /\ hooks[h].pc = "pool"
      BY <2>4 DEF TakeSinkPool, HookTo, HookAt, To, taken
    <3> QED BY <2>1, <2>2, <3>1, HookMoves
  <2>5. CASE LockPool(h)
    <3>1. /\ \/ Missing /\ holder' = {h} /\ hooks' = [hooks EXCEPT ![h] = To("build")]
             \/ holder' = holder /\ hooks' = [hooks EXCEPT ![h] = taken]
          /\ UNCHANGED <<captured, pools>> /\ hooks[h].pc = "lock" /\ holder = {}
      BY <2>5 DEF LockPool, HookTo, HookAt, To, taken
    <3> QED BY <2>1, <2>2, <3>1, HookMoves
  <2>6. CASE BuildPool(h)
    BY <2>6, HookBuilds
  <2>7. CASE InsertMemory(h)
    <3>1. /\ \/ hooks' = [hooks EXCEPT ![h] = To("done")]
             \/ hooks' = [hooks EXCEPT ![h] = To("drop")]
          /\ UNCHANGED <<pools, holder>> /\ hooks[h].pc = "insert"
      BY <2>7 DEF InsertMemory, HookTo, HookAt, To
    <3>2. captured' \in [file : SUBSET Hooks, rows : SUBSET Hooks]
      BY <2>1, <2>7 DEF InsertMemory
    <3> QED BY <2>2, <3>1, <3>2, HookMoves
  <2>8. CASE DropPool(h)
    BY <2>8, HookDrops
  <2> QED BY <1>2, <2>3, <2>4, <2>5, <2>6, <2>7, <2>8
<1> QED BY <1>1, <1>2 DEF SinkNext

(*****************************************************************************)
(* MemoryIngest: no exchange is written long after ingestion was switched off. *)
(*****************************************************************************)

IngestSteps == {"new", "read", "offline", "pool", "connect", "write", "done"}
IngestStates == [pc : IngestSteps, began : 0..MemoryClock, on : BOOLEAN, written : 0..2]

\* Ingestion was on, and the gateway online, at a time or after it; or less than a lifetime before.
OnSince(t) == switch.on \/ t <= lastOn.on
OnlineSince(t) == ~switch.offline \/ t <= lastOn.online
OnLately(t) == switch.on \/ t < lastOn.on + MemoryTtl \/ t <= lastOn.on
OnlineLately(t) == ~switch.offline \/ t < lastOn.online + MemoryTtl \/ t <= lastOn.online

\* What a call has read was so when it began or later; what it took from the cache, lately.
IngestSound(x) ==
  /\ x.began <= memoryNow
  /\ x.pc = "offline" /\ x.on => OnSince(x.began)
  /\ x.pc \in {"pool", "connect", "write"} => OnLately(x.began) /\ OnlineLately(x.began)
  /\ x.written > 0 => x.pc = "write"

CacheSound(held) ==
  held.valid => held.at <= memoryNow /\ (held.on => OnSince(held.at) /\ OnlineSince(held.at))

MemoryRecord ==
  memory = [cache |-> memory.cache, pool |-> memory.pool, failures |-> memory.failures,
            until |-> memory.until]

MemoryInv ==
  /\ MemoryTypeOK /\ MemoryRecord
  /\ lastOn.on <= memoryNow /\ lastOn.online <= memoryNow
  /\ CacheSound(memory.cache)
  /\ \A c \in Ingests : IngestSound(ingests[c])

\* What an ingest reads of its switch is in order.
LEMMA IngestedIsSound ==
  ASSUME MemoryInv
  PROVE  /\ Ingested \in IngestStates /\ IngestSound(Ingested)
         /\ NotIngesting \in IngestStates /\ IngestSound(NotIngesting)
<1>1. 0 \in 0..MemoryClock /\ 0 <= memoryNow /\ 0 \in 0..2
  BY MemoryAssumption DEF MemoryInv, MemoryTypeOK
<1>2. /\ NotIngesting \in IngestStates /\ NotIngesting.pc = "new" /\ NotIngesting.began = 0
      /\ NotIngesting.written = 0
  BY <1>1 DEF NotIngesting, IngestStates, IngestSteps
<1>3. /\ Ingested \in IngestStates /\ Ingested.pc = "done" /\ Ingested.began = 0
      /\ Ingested.written = 0
  BY <1>1, <1>2 DEF Ingested, IngestStates, IngestSteps
<1> QED BY <1>1, <1>2, <1>3 DEF IngestSound

\* The switch that was not read is typed.
LEMMA UnreadTyped == Unread \in [on : BOOLEAN, at : 0..MemoryClock, valid : BOOLEAN] /\ ~Unread.valid
BY MemoryAssumption DEF Unread

\* The invariant holds at the start.
LEMMA MemoryInitially == MemoryInit => MemoryInv
<1> SUFFICES ASSUME MemoryInit PROVE MemoryInv
  OBVIOUS
<1>1. /\ NotIngesting \in IngestStates /\ NotIngesting.began = 0 /\ NotIngesting.pc = "new"
      /\ NotIngesting.written = 0
  BY MemoryAssumption DEF NotIngesting, IngestStates, IngestSteps
<1>2. \A c \in Ingests : IngestSound(ingests[c])
  <2>1. memoryNow = 0 /\ \A c \in Ingests : ingests[c] = NotIngesting
    BY DEF MemoryInit
  <2>2. IngestSound(NotIngesting)
    BY <1>1, <2>1 DEF IngestSound
  <2> QED BY <2>1, <2>2
<1>3. MemoryTypeOK
  <2>1. 0 \in 0..MemoryClock /\ 0 \in 0..(MemoryClock + Rest) /\ 0 \in 0..SaveBound
    BY MemoryAssumption
  <2>2. ingests \in [Ingests -> IngestStates]
    BY <1>1 DEF MemoryInit
  <2>3. memory.cache = Unread /\ memory.pool = FALSE /\ memory.failures = 0 /\ memory.until = 0
    BY DEF MemoryInit
  <2> QED BY <2>1, <2>2, <2>3, UnreadTyped DEF MemoryInit, MemoryTypeOK, IngestStates, IngestSteps
<1> QED BY <1>2, <1>3, UnreadTyped DEF MemoryInit, MemoryInv, MemoryRecord, CacheSound

\* A step of one call.
LEMMA IngestMoves ==
  ASSUME MemoryInv, NEW c \in Ingests, NEW x \in IngestStates, IngestTo(c, x), IngestSound(x),
         UNCHANGED <<switch, lastOn, memoryNow, saves>>,
         memory'.cache \in [on : BOOLEAN, at : 0..MemoryClock, valid : BOOLEAN],
         CacheSound(memory'.cache), memory'.pool \in BOOLEAN, memory'.failures \in Nat,
         memory'.until \in 0..(MemoryClock + Rest), MemoryRecord'
  PROVE  MemoryInv'
<1>1. ingests \in [Ingests -> IngestStates]
  BY DEF MemoryInv, MemoryTypeOK, IngestStates, IngestSteps
<1>2. ingests' \in [Ingests -> IngestStates]
      /\ \A d \in Ingests : ingests'[d] = IF d = c THEN x ELSE ingests[d]
  BY <1>1 DEF IngestTo
<1>3. MemoryTypeOK'
  BY <1>2 DEF MemoryInv, MemoryTypeOK, IngestStates, IngestSteps
<1>4. \A y : IngestSound(y)' <=> IngestSound(y)
  BY DEF IngestSound, OnSince, OnLately, OnlineLately
<1>5. \A d \in Ingests : IngestSound(ingests[d])'
  BY <1>2, <1>4 DEF MemoryInv, IngestSound, OnSince, OnLately, OnlineLately
<1>6. CacheSound(memory.cache)'
  BY DEF CacheSound, OnSince, OnlineSince
<1> QED BY <1>3, <1>5, <1>6 DEF MemoryInv

\* A step of one call that leaves the process's memory.
LEMMA IngestGoesOn ==
  ASSUME MemoryInv, NEW c \in Ingests, NEW x \in IngestStates, IngestTo(c, x), IngestSound(x),
         UNCHANGED <<switch, lastOn, memory, memoryNow, saves>>
  PROVE  MemoryInv'
<1>1. /\ memory'.cache \in [on : BOOLEAN, at : 0..MemoryClock, valid : BOOLEAN]
      /\ CacheSound(memory'.cache) /\ memory'.pool \in BOOLEAN /\ memory'.failures \in Nat
      /\ memory'.until \in 0..(MemoryClock + Rest) /\ MemoryRecord'
  BY DEF MemoryInv, MemoryTypeOK, MemoryRecord
<1> QED BY <1>1, IngestMoves

\* What the breaker makes of a failure and of a success.
LEMMA BreakerTyped ==
  ASSUME MemoryInv, NEW m \in {Failed, Succeeded}
  PROVE  /\ m = [cache |-> memory.cache, pool |-> memory.pool, failures |-> m.failures,
                 until |-> m.until]
         /\ m.failures \in Nat /\ m.until \in 0..(MemoryClock + Rest)
<1>1. /\ memory.failures \in Nat /\ memory.until \in 0..(MemoryClock + Rest)
      /\ memoryNow \in 0..MemoryClock /\ Rest \in Nat /\ MemoryClock \in Nat
      /\ memoryNow + Rest \in 0..(MemoryClock + Rest)
  BY MemoryAssumption DEF MemoryInv, MemoryTypeOK
<1> DEFINE more == memory.failures + 1
           until == IF memory.failures + 1 >= BreakAfter THEN memoryNow + Rest ELSE memory.until
<1>2. CASE m = Failed
  <2>1. more \in Nat /\ until \in 0..(MemoryClock + Rest)
    BY <1>1
  <2>2. m = [memory EXCEPT !.failures = more, !.until = until]
    BY <1>2 DEF Failed
  <2> HIDE DEF more, until
  <2>3. m.failures = more /\ m.until = until /\ DOMAIN m = DOMAIN memory
        /\ m.cache = memory.cache /\ m.pool = memory.pool
    BY <2>2 DEF MemoryInv, MemoryRecord
  <2>4. m = [cache |-> memory.cache, pool |-> memory.pool, failures |-> more, until |-> until]
    BY <2>2 DEF MemoryInv, MemoryRecord
  <2> QED BY <2>1, <2>3, <2>4
<1>3. CASE m = Succeeded
  <2>1. m = [memory EXCEPT !.failures = 0, !.until = 0]
    BY <1>3 DEF Succeeded
  <2>2. m = [cache |-> memory.cache, pool |-> memory.pool, failures |-> 0, until |-> 0]
    BY <2>1 DEF MemoryInv, MemoryRecord
  <2>3. 0 \in 0..(MemoryClock + Rest)
    BY <1>1
  <2> QED BY <2>2, <2>3
<1> QED BY <1>2, <1>3

\* Every step keeps the invariant.
LEMMA MemoryStep == MemoryInv /\ [MemoryNext]_memoryVars => MemoryInv'
<1> SUFFICES ASSUME MemoryInv, [MemoryNext]_memoryVars PROVE MemoryInv'
  OBVIOUS
<1>1. /\ ingests \in [Ingests -> IngestStates]
      /\ switch \in [on : BOOLEAN, offline : BOOLEAN]
      /\ lastOn \in [on : 0..MemoryClock, online : 0..MemoryClock]
      /\ memory.cache \in [on : BOOLEAN, at : 0..MemoryClock, valid : BOOLEAN]
      /\ memory.pool \in BOOLEAN
      /\ memory.failures \in Nat /\ memory.until \in 0..(MemoryClock + Rest)
      /\ memoryNow \in 0..MemoryClock /\ saves \in 0..SaveBound
      /\ MemoryTtl \in Nat /\ MemoryClock \in Nat /\ SaveBound \in Nat
      /\ lastOn.on <= memoryNow /\ lastOn.online <= memoryNow
      /\ \A c \in Ingests : IngestSound(ingests[c])
  BY MemoryAssumption DEF MemoryInv, MemoryTypeOK, IngestStates, IngestSteps
<1>2. CASE UNCHANGED memoryVars
  BY <1>2 DEF memoryVars, MemoryInv, MemoryTypeOK, MemoryRecord, IngestSound, CacheSound, OnSince,
              OnlineSince, OnLately, OnlineLately
<1>3. CASE SaveSwitch
  <2>1. /\ saves' = saves + 1 /\ saves < SaveBound
        /\ switch' \in [on : BOOLEAN, offline : BOOLEAN]
        /\ memory' = [memory EXCEPT !.cache = Unread, !.pool = FALSE]
        /\ lastOn' = [on |-> IF switch.on THEN memoryNow ELSE lastOn.on,
                      online |-> IF ~switch.offline THEN memoryNow ELSE lastOn.online]
        /\ UNCHANGED <<ingests, memoryNow>>
    BY <1>3 DEF SaveSwitch
  <2>2. /\ memory'.cache = Unread /\ memory'.pool = FALSE /\ memory'.failures = memory.failures
        /\ memory'.until = memory.until /\ MemoryRecord'
    BY <2>1 DEF MemoryInv, MemoryRecord
  <2>3. /\ lastOn' \in [on : 0..MemoryClock, online : 0..MemoryClock]
        /\ lastOn'.on = (IF switch.on THEN memoryNow ELSE lastOn.on)
        /\ lastOn'.online = (IF ~switch.offline THEN memoryNow ELSE lastOn.online)
    BY <1>1, <2>1
  <2>4. lastOn'.on <= memoryNow' /\ lastOn'.online <= memoryNow' /\ saves' \in 0..SaveBound
    BY <1>1, <2>1, <2>3
  <2>5. MemoryTypeOK'
    BY <1>1, <2>1, <2>2, <2>3, <2>4, UnreadTyped DEF MemoryTypeOK, IngestStates, IngestSteps
  <2>7. ASSUME NEW t \in 0..MemoryClock, t <= memoryNow
        PROVE  /\ OnSince(t) => t <= lastOn'.on
               /\ OnLately(t) => t < lastOn'.on + MemoryTtl \/ t <= lastOn'.on
               /\ OnlineLately(t) => t < lastOn'.online + MemoryTtl \/ t <= lastOn'.online
    BY <1>1, <2>3, <2>7 DEF OnSince, OnLately, OnlineLately
  <2>8. ASSUME NEW c \in Ingests PROVE IngestSound(ingests[c])'
    <3> DEFINE t == ingests[c].began
    <3>1. t \in 0..MemoryClock /\ t <= memoryNow /\ IngestSound(ingests[c])
      BY <1>1 DEF IngestStates, IngestSound
    <3>2. /\ OnSince(t) => t <= lastOn'.on
          /\ OnLately(t) => t < lastOn'.on + MemoryTtl \/ t <= lastOn'.on
          /\ OnlineLately(t) => t < lastOn'.online + MemoryTtl \/ t <= lastOn'.online
      BY <2>7, <3>1
    <3>3. ingests'[c] = ingests[c] /\ memoryNow' = memoryNow
      BY <2>1
    <3>9. t' = t
      BY <2>1
    <3> HIDE DEF t
    <3>4. /\ OnSince(t) => OnSince(t)'
          /\ OnLately(t) => OnLately(t)'
          /\ OnlineLately(t) => OnlineLately(t)'
      BY <3>2, <3>9 DEF OnSince, OnLately, OnlineLately
    <3> QED BY <3>1, <3>3, <3>4 DEF IngestSound, t
  <2>9. CacheSound(memory.cache)'
    BY <2>2, UnreadTyped DEF CacheSound
  <2> QED BY <2>2, <2>4, <2>5, <2>8, <2>9 DEF MemoryInv
<1>4. CASE MemoryTick
  <2>1. /\ memoryNow' = memoryNow + 1 /\ memoryNow' \in 0..MemoryClock
        /\ UNCHANGED <<ingests, switch, lastOn, memory, saves>>
    BY <1>1, <1>4 DEF MemoryTick
  <2>2. \A c \in Ingests : IngestSound(ingests[c])'
    BY <1>1, <2>1 DEF IngestSound, OnSince, OnLately, OnlineLately, IngestStates
  <2>3. CacheSound(memory.cache)'
    BY <1>1, <2>1 DEF MemoryInv, CacheSound, OnSince, OnlineSince
  <2>4. MemoryTypeOK' /\ MemoryRecord'
    BY <2>1 DEF MemoryInv, MemoryTypeOK, MemoryRecord
  <2>5. lastOn'.on <= memoryNow' /\ lastOn'.online <= memoryNow'
    BY <1>1, <2>1
  <2> QED BY <2>2, <2>3, <2>4, <2>5 DEF MemoryInv
<1>5. ASSUME NEW c \in Ingests,
             \/ BeginIngest(c) \/ ReadSwitch(c) \/ ReadOffline(c) \/ NothingToKeep(c) \/ TakePool(c)
             \/ Connect(c) \/ WriteEntry(c) \/ EndIngest(c)
      PROVE  MemoryInv'
  <2>1. ingests[c] \in IngestStates /\ IngestSound(ingests[c])
    BY <1>1
  <2>2. CASE BeginIngest(c)
    <3>1. CASE IngestTo(c, Ingested)
      BY <2>2, <3>1, IngestedIsSound, IngestGoesOn DEF BeginIngest
    <3>2. CASE /\ memory.cache.valid /\ memoryNow - memory.cache.at < MemoryTtl /\ memory.cache.on
               /\ IngestTo(c, [ingests[c] EXCEPT !.pc = "pool", !.began = memoryNow])
      <4> DEFINE x == [ingests[c] EXCEPT !.pc = "pool", !.began = memoryNow]
                 at == memory.cache.at
      <4>1. /\ x \in IngestStates /\ x.pc = "pool" /\ x.began = memoryNow
            /\ x.written = ingests[c].written
        BY <1>1, <2>1 DEF IngestStates, IngestSteps
      <4>2. OnSince(at) /\ OnlineSince(at) /\ at \in 0..MemoryClock
        BY <1>1, <3>2 DEF MemoryInv, CacheSound
      <4>3. OnLately(memoryNow) /\ OnlineLately(memoryNow)
        <5> HIDE DEF at
        <5>1. memoryNow - at < MemoryTtl
          BY <3>2 DEF at
        <5> QED BY <1>1, <4>2, <5>1 DEF OnSince, OnlineSince, OnLately, OnlineLately
      <4>4. x.written = 0
        BY <2>1, <2>2, <4>1 DEF BeginIngest, IngestAt, IngestSound, IngestStates
      <4>5. IngestTo(c, x) /\ UNCHANGED <<switch, lastOn, memory, memoryNow, saves>>
        BY <2>2, <3>2 DEF BeginIngest
      <4> HIDE DEF x
      <4>6. IngestSound(x)
        BY <1>1, <4>1, <4>3, <4>4 DEF IngestSound
      <4> QED BY <4>1, <4>5, <4>6, IngestGoesOn
    <3>3. CASE IngestTo(c, [ingests[c] EXCEPT !.pc = "read", !.began = memoryNow])
      <4> DEFINE x == [ingests[c] EXCEPT !.pc = "read", !.began = memoryNow]
      <4>1. /\ x \in IngestStates /\ x.pc = "read" /\ x.began = memoryNow
            /\ x.written = ingests[c].written
        BY <1>1, <2>1 DEF IngestStates, IngestSteps
      <4>2. x.written = 0
        BY <2>1, <2>2, <4>1 DEF BeginIngest, IngestAt, IngestSound, IngestStates
      <4>3. IngestTo(c, x) /\ UNCHANGED <<switch, lastOn, memory, memoryNow, saves>>
        BY <2>2, <3>3 DEF BeginIngest
      <4> HIDE DEF x
      <4>4. IngestSound(x)
        BY <1>1, <4>1, <4>2 DEF IngestSound
      <4> QED BY <4>1, <4>3, <4>4, IngestGoesOn
    <3> QED BY <2>2, <3>1, <3>2, <3>3 DEF BeginIngest
  <2>3. CASE ReadSwitch(c)
    <3> DEFINE x == [ingests[c] EXCEPT !.pc = "offline", !.on = switch.on]
    <3>1. /\ x \in IngestStates /\ x.pc = "offline" /\ x.began = ingests[c].began
          /\ x.on = switch.on /\ x.written = ingests[c].written
      BY <1>1, <2>1 DEF IngestStates, IngestSteps
    <3>2. IngestTo(c, x) /\ UNCHANGED <<switch, lastOn, memory, memoryNow, saves>>
      BY <2>3 DEF ReadSwitch
    <3>3. ~(x.written > 0)
      BY <2>1, <2>3, <3>1 DEF ReadSwitch, IngestAt, IngestSound
    <3> HIDE DEF x
    <3>4. IngestSound(x)
      BY <2>1, <3>1, <3>3 DEF IngestSound, OnSince
    <3> QED BY <3>1, <3>2, <3>4, IngestGoesOn
  <2>4. CASE ReadOffline(c)
    <3> DEFINE on == ingests[c].on /\ ~switch.offline
               held == [on |-> on, at |-> ingests[c].began, valid |-> TRUE]
               x == [ingests[c] EXCEPT !.pc = "pool"]
    <3>1. /\ memory' = [memory EXCEPT !.cache = held]
          /\ IngestTo(c, IF on THEN x ELSE Ingested)
          /\ UNCHANGED <<switch, lastOn, memoryNow, saves>> /\ ingests[c].pc = "offline"
      BY <2>4 DEF ReadOffline, IngestAt
    <3>2. on \in BOOLEAN /\ held \in [on : BOOLEAN, at : 0..MemoryClock, valid : BOOLEAN]
      BY <1>1, <2>1 DEF IngestStates
    <3>3. on => OnSince(ingests[c].began) /\ OnlineSince(ingests[c].began)
      BY <2>1, <3>1 DEF IngestSound, OnlineSince
    <3>4. CacheSound(held)
      BY <2>1, <3>3 DEF CacheSound, IngestSound
    <3> HIDE DEF held, on
    <3>5. /\ memory'.cache = held /\ memory'.pool = memory.pool /\ memory'.until = memory.until
          /\ memory'.failures = memory.failures /\ MemoryRecord'
      BY <3>1 DEF MemoryInv, MemoryRecord
    <3>6. x \in IngestStates /\ x.pc = "pool" /\ x.began = ingests[c].began
          /\ x.written = ingests[c].written
      BY <2>1 DEF IngestStates, IngestSteps
    <3> HIDE DEF x
    <3>7. on => IngestSound(x)
      <4>1. ingests[c].began \in 0..MemoryClock /\ ~(ingests[c].written > 0)
        BY <2>1, <3>1 DEF IngestStates, IngestSound
      <4>2. on => OnLately(ingests[c].began) /\ OnlineLately(ingests[c].began)
        BY <3>3 DEF OnSince, OnlineSince, OnLately, OnlineLately
      <4> QED BY <2>1, <3>6, <4>1, <4>2 DEF IngestSound
    <3>8. CASE on
      BY <1>1, <3>1, <3>2, <3>4, <3>5, <3>6, <3>7, <3>8, IngestMoves
    <3>9. CASE ~on
      BY <1>1, <3>1, <3>2, <3>4, <3>5, <3>9, IngestedIsSound, IngestMoves
    <3> QED BY <3>8, <3>9
  <2>5. CASE NothingToKeep(c)
    BY <2>5, IngestedIsSound, IngestGoesOn DEF NothingToKeep
  <2>6. CASE TakePool(c)
    <3>1. PICK pc \in {"write", "connect"} : IngestTo(c, [ingests[c] EXCEPT !.pc = pc])
      BY <2>6 DEF TakePool
    <3> DEFINE x == [ingests[c] EXCEPT !.pc = pc]
    <3>2. x \in IngestStates /\ x.pc = pc /\ x.began = ingests[c].began
          /\ x.written = ingests[c].written
      BY <2>1 DEF IngestStates, IngestSteps
    <3>3. ingests[c].pc = "pool" /\ UNCHANGED <<switch, lastOn, memory, memoryNow, saves>>
      BY <2>6 DEF TakePool, IngestAt
    <3>4. IngestTo(c, x)
      BY <3>1
    <3> HIDE DEF x
    <3>5. IngestSound(x)
      BY <2>1, <3>2, <3>3 DEF IngestSound
    <3> QED BY <3>2, <3>3, <3>4, <3>5, IngestGoesOn
  <2>7. CASE Connect(c)
    <3>0. ingests[c].pc = "connect" /\ UNCHANGED <<switch, lastOn, memoryNow, saves>>
          /\ CacheSound(memory.cache)
      BY <2>7 DEF Connect, IngestAt, MemoryInv
    <3>1. CASE /\ memory' = [memory EXCEPT !.pool = TRUE]
               /\ IngestTo(c, [ingests[c] EXCEPT !.pc = "write"])
      <4> DEFINE x == [ingests[c] EXCEPT !.pc = "write"]
      <4>1. x \in IngestStates /\ x.pc = "write" /\ x.began = ingests[c].began
            /\ x.written = ingests[c].written
        BY <2>1 DEF IngestStates, IngestSteps
      <4>2. IngestTo(c, x)
        BY <3>1
      <4> HIDE DEF x
      <4>3. IngestSound(x)
        BY <2>1, <3>0, <4>1 DEF IngestSound
      <4>4. /\ memory'.cache = memory.cache /\ memory'.pool = TRUE /\ memory'.until = memory.until
            /\ memory'.failures = memory.failures /\ MemoryRecord'
        BY <3>1 DEF MemoryInv, MemoryRecord
      <4> QED BY <1>1, <3>0, <4>1, <4>2, <4>3, <4>4, IngestMoves
    <3>2. CASE memory' = Failed /\ IngestTo(c, Ingested)
      <4>1. /\ memory'.cache = memory.cache /\ memory'.pool = memory.pool /\ memory'.failures \in Nat
            /\ memory'.until \in 0..(MemoryClock + Rest) /\ MemoryRecord'
        BY <3>2, BreakerTyped DEF MemoryRecord
      <4> QED BY <1>1, <3>0, <3>2, <4>1, IngestedIsSound, IngestMoves
    <3> QED BY <2>7, <3>1, <3>2 DEF Connect
  <2>8. CASE WriteEntry(c)
    <3> DEFINE x == [ingests[c] EXCEPT !.written = ingests[c].written + 1]
    <3>1. ingests[c].pc = "write" /\ ingests[c].written < 2
          /\ UNCHANGED <<switch, lastOn, memory, memoryNow, saves>>
      BY <2>8 DEF WriteEntry, IngestAt
    <3>2. x \in IngestStates /\ x.pc = "write" /\ x.began = ingests[c].began
      <4>1. ingests[c].written + 1 \in 0..2
        BY <2>1, <3>1 DEF IngestStates
      <4> QED BY <2>1, <3>1, <4>1 DEF IngestStates, IngestSteps
    <3>3. IngestTo(c, x)
      BY <2>8 DEF WriteEntry
    <3> HIDE DEF x
    <3>4. IngestSound(x)
      BY <2>1, <3>1, <3>2 DEF IngestSound
    <3> QED BY <3>1, <3>2, <3>3, <3>4, IngestGoesOn
  <2>9. CASE EndIngest(c)
    <3>1. memory' \in {Failed, Succeeded} /\ IngestTo(c, Ingested)
          /\ UNCHANGED <<switch, lastOn, memoryNow, saves>> /\ CacheSound(memory.cache)
      BY <2>9 DEF EndIngest, MemoryInv
    <3>2. /\ memory'.cache = memory.cache /\ memory'.pool = memory.pool /\ memory'.failures \in Nat
          /\ memory'.until \in 0..(MemoryClock + Rest) /\ MemoryRecord'
      BY <3>1, BreakerTyped DEF MemoryRecord
    <3> QED BY <1>1, <3>1, <3>2, IngestedIsSound, IngestMoves
  <2> QED BY <1>5, <2>2, <2>3, <2>4, <2>5, <2>6, <2>7, <2>8, <2>9
<1> QED BY <1>2, <1>3, <1>4, <1>5 DEF MemoryNext

\* The invariant is as strong as what the runs check.
LEMMA MemoryPromises == MemoryInv => MemoryTypeOK /\ IngestHonoursSwitch
BY DEF MemoryInv, IngestHonoursSwitch, IngestSound, OnLately, OnlineLately

(*****************************************************************************)
(* HintCache: a hint is out of date by its time and the budget of a call at  *)
(* most, and the order of use names each entry once.                         *)
(*****************************************************************************)

\* What is left of a sequence without repetitions when one of its elements goes.
LEMMA RemovedOnce ==
  ASSUME NEW S, NEW s \in Seq(S), IsInjective(s), NEW a, NEW r, r = RemoveFirst(s, a)
  PROVE  /\ r \in Seq(S) /\ IsInjective(r) /\ Range(r) = Range(s) \ {a}
         /\ Len(r) = IF a \in Range(s) THEN Len(s) - 1 ELSE Len(s)
<1>1. Range(s) = {s[i] : i \in 1..Len(s)} /\ DOMAIN s = 1..Len(s) /\ Len(s) \in Nat
  BY DEF Range
<1>2. CASE a \notin Range(s)
  <2>1. ~\E i \in 1..Len(s) : s[i] = a
    BY <1>1, <1>2
  <2>2. r = s
    BY <2>1 DEF RemoveFirst
  <2> QED BY <1>2, <2>2
<1>3. CASE a \in Range(s)
  <2>1. PICK k \in 1..Len(s) : s[k] = a
    BY <1>1, <1>3
  <2> DEFINE I == {i \in 1..Len(s) : s[i] = a}
  <2>2. I = {k}
    BY <1>1, <2>1 DEF IsInjective
  <2>3. Min(I) = k
    <3>1. Min({k}) = k
      BY <1>1, <2>1 DEF Min
    <3> QED BY <2>2, <3>1
  <2>4. SelectInSeq(s, LAMBDA v : v = a) = k
    BY <2>2, <2>3 DEF SelectInSeq
  <2>5. r = RemoveAt(s, k)
    BY <2>1, <2>4 DEF RemoveFirst
  <2> DEFINE front == SubSeq(s, 1, k - 1)
             back == SubSeq(s, k + 1, Len(s))
  <2>6. /\ front \in Seq(S) /\ Len(front) = k - 1
        /\ \A i \in 1..k - 1 : front[i] = s[i]
    <3>1. \A i \in 1..k - 1 : s[i] \in S
      BY <1>1, <2>1
    <3>2. /\ front \in Seq(S) /\ Len(front) = (IF 1 <= k - 1 THEN (k - 1) - 1 + 1 ELSE 0)
          /\ \A i \in 1..(k - 1) - 1 + 1 : front[i] = s[1 + i - 1]
      BY <2>1, <3>1, SubSeqProperties
    <3> HIDE DEF front
    <3>3. k \in Nat /\ k >= 1
      BY <1>1, <2>1
    <3>4. /\ (IF 1 <= k - 1 THEN (k - 1) - 1 + 1 ELSE 0) = k - 1
          /\ (k - 1) - 1 + 1 = k - 1
          /\ \A i \in 1..k - 1 : 1 + i - 1 = i
      BY <3>3
    <3>5. ASSUME NEW i \in 1..k - 1 PROVE front[i] = s[i]
      <4>1. front[i] = s[1 + i - 1] /\ 1 + i - 1 = i
        BY <3>2, <3>4
      <4> QED BY <4>1
    <3> QED BY <3>2, <3>4, <3>5
  <2>7. /\ back \in Seq(S) /\ Len(back) = Len(s) - k
        /\ \A i \in 1..Len(s) - k : back[i] = s[k + i]
    <3>1. \A i \in k + 1..Len(s) : s[i] \in S
      BY <1>1, <2>1
    <3>2. /\ back \in Seq(S) /\ Len(back) = (IF k + 1 <= Len(s) THEN Len(s) - (k + 1) + 1 ELSE 0)
          /\ \A i \in 1..Len(s) - (k + 1) + 1 : back[i] = s[k + 1 + i - 1]
      BY <1>1, <2>1, <3>1, SubSeqProperties
    <3>3. Len(s) - (k + 1) + 1 = Len(s) - k /\ \A i \in Int : k + 1 + i - 1 = k + i
      <4> DEFINE n == Len(s)
      <4>1. n \in Int /\ k \in Int
        BY <1>1, <2>1
      <4> HIDE DEF n
      <4>2. n - (k + 1) + 1 = n - k
        BY <4>1
      <4>3. ASSUME NEW i \in Int PROVE k + 1 + i - 1 = k + i
        BY <4>1
      <4> QED BY <4>2, <4>3 DEF n
    <3>4. (IF k + 1 <= Len(s) THEN Len(s) - (k + 1) + 1 ELSE 0) = Len(s) - k
      <4> DEFINE n == Len(s)
      <4>1. n \in Int /\ k \in Int /\ k <= n
        BY <1>1, <2>1
      <4> HIDE DEF n
      <4>2. (IF k + 1 <= n THEN n - (k + 1) + 1 ELSE 0) = n - k
        BY <4>1
      <4> QED BY <4>2 DEF n
    <3> HIDE DEF back
    <3>5. ASSUME NEW i \in 1..Len(s) - k PROVE back[i] = s[k + i]
      <4>1. back[i] = s[k + 1 + i - 1]
        BY <3>2, <3>3
      <4> QED BY <3>3, <4>1
    <3> QED BY <3>2, <3>4, <3>5
  <2>8. r = front \o back
    BY <2>5 DEF RemoveAt
  <2> HIDE DEF front, back
  <2>9. /\ r \in Seq(S) /\ Len(r) = Len(s) - 1
        /\ \A i \in 1..Len(s) - 1 : r[i] = IF i < k THEN s[i] ELSE s[i + 1]
    <3>0. front \in Seq(S) /\ back \in Seq(S)
      BY <2>6, <2>7
    <3>1. /\ r \in Seq(S) /\ Len(r) = Len(front) + Len(back)
          /\ \A i \in 1..Len(front) + Len(back) :
               r[i] = IF i <= Len(front) THEN front[i] ELSE back[i - Len(front)]
      BY <2>8, <3>0, ConcatProperties
    <3>2. Len(r) = Len(s) - 1 /\ Len(front) + Len(back) = Len(s) - 1
      BY <1>1, <2>1, <2>6, <2>7, <3>1
    <3>3. ASSUME NEW i \in 1..Len(s) - 1 PROVE r[i] = IF i < k THEN s[i] ELSE s[i + 1]
      <4>0. i \in 1..Len(front) + Len(back)
        BY <3>2
      <4>1. CASE i < k
        <5>1. i <= Len(front) /\ i \in 1..k - 1
          BY <2>1, <2>6, <4>1
        <5> QED BY <2>6, <3>1, <4>0, <4>1, <5>1
      <4>2. CASE ~(i < k)
        <5> DEFINE j == i - (k - 1)
        <5>1. j \in 1..Len(s) - k /\ k + j = i + 1
          BY <1>1, <2>1, <4>2
        <5>2. r[i] = back[j]
          <6>1. ~(i <= Len(front)) /\ i - Len(front) = j
            BY <2>1, <2>6, <4>2
          <6> QED BY <3>1, <4>0, <6>1
        <5> HIDE DEF j
        <5>3. back[j] = s[k + j]
          BY <2>7, <5>1
        <5> QED BY <4>2, <5>1, <5>2, <5>3
      <4> QED BY <4>1, <4>2
    <3> QED BY <3>1, <3>2, <3>3
  <2>10. DOMAIN r = 1..Len(s) - 1
    BY <2>9
  <2>11. IsInjective(r)
    <3> SUFFICES ASSUME NEW i \in 1..Len(s) - 1, NEW j \in 1..Len(s) - 1, r[i] = r[j] PROVE i = j
      BY <2>10 DEF IsInjective
    <3> QED BY <1>1, <2>1, <2>9, SMTT(30) DEF IsInjective
  <2>12. Range(r) = Range(s) \ {a}
    <3>1. ASSUME NEW i \in 1..Len(s) - 1 PROVE r[i] \in Range(s) \ {a}
      <4> DEFINE j == IF i < k THEN i ELSE i + 1
      <4>1. j \in 1..Len(s) /\ j # k /\ r[i] = s[j]
        BY <1>1, <2>1, <2>9
      <4> HIDE DEF j
      <4> QED BY <1>1, <2>1, <4>1 DEF IsInjective
    <3>2. ASSUME NEW j \in 1..Len(s), s[j] # a PROVE s[j] \in Range(r)
      <4> DEFINE i == IF j < k THEN j ELSE j - 1
      <4>1. i \in 1..Len(s) - 1 /\ r[i] = s[j]
        BY <1>1, <2>1, <2>9, <3>2
      <4> HIDE DEF i
      <4> QED BY <2>10, <4>1 DEF Range
    <3> QED BY <1>1, <2>10, <3>1, <3>2 DEF Range
  <2> QED BY <1>3, <2>9, <2>11, <2>12
<1> QED BY <1>2, <1>3

\* The element that went is put at the end.
Refreshed(s, a) == Append(RemoveFirst(s, a), a)

IsRefreshed(s, a, t) ==
  /\ t \in Seq(Agents) /\ IsInjective(t) /\ Range(t) = Range(s) \union {a}
  /\ Len(t) \in Nat /\ (a \in Range(s) => Len(t) = Len(s))
  /\ Len(t) > 0 /\ t[Len(t)] = a

\* An entry that is used moves to the end of the order and stays its only one.
LEMMA MovedToEnd ==
  ASSUME NEW s \in Seq(Agents), IsInjective(s), NEW a \in Agents, NEW t, t = Refreshed(s, a)
  PROVE  IsRefreshed(s, a, t)
<1> DEFINE r == RemoveFirst(s, a)
<1>0. r = RemoveFirst(s, a) /\ t = Append(r, a)
  BY DEF Refreshed
<1> HIDE DEF r
<1>1. /\ r \in Seq(Agents) /\ IsInjective(r) /\ Range(r) = Range(s) \ {a}
      /\ Len(r) = IF a \in Range(s) THEN Len(s) - 1 ELSE Len(s)
  BY <1>0, RemovedOnce
<1>2. /\ t \in Seq(Agents) /\ Len(t) = Len(r) + 1 /\ t[Len(r) + 1] = a
      /\ \A i \in 1..Len(r) : t[i] = r[i]
  BY <1>0, <1>1, AppendProperties
<1>3. Len(r) \in Nat /\ DOMAIN t = 1..Len(r) + 1 /\ DOMAIN r = 1..Len(r) /\ Len(s) \in Nat
  BY <1>1, <1>2
<1>4. IsInjective(t)
  <2> DEFINE n == Len(r)
  <2>1. n \in Nat /\ DOMAIN t = 1..n + 1 /\ t[n + 1] = a /\ \A i \in 1..n : t[i] = r[i]
    BY <1>2, <1>3
  <2>2. \A i \in 1..n : r[i] # a
    BY <1>1, <1>3 DEF Range
  <2>3. \A i, j \in 1..n : r[i] = r[j] => i = j
    BY <1>1, <1>3 DEF IsInjective
  <2> HIDE DEF n
  <2> SUFFICES ASSUME NEW i \in 1..n + 1, NEW j \in 1..n + 1, t[i] = t[j] PROVE i = j
    BY <2>1 DEF IsInjective
  <2>4. (i \in 1..n \/ i = n + 1) /\ (j \in 1..n \/ j = n + 1)
    BY <2>1
  <2> QED BY <2>1, <2>2, <2>3, <2>4
<1>5. Range(t) = Range(r) \union {a}
  <2>1. \A i \in 1..Len(r) + 1 : t[i] \in Range(r) \union {a}
    BY <1>2, <1>3 DEF Range
  <2>2. \A i \in 1..Len(r) : r[i] \in Range(t)
    BY <1>2, <1>3 DEF Range
  <2>3. a \in Range(t)
    BY <1>2, <1>3 DEF Range
  <2> QED BY <1>3, <2>1, <2>2, <2>3 DEF Range
<1>6. a \in Range(s) => Len(t) = Len(s)
  BY <1>1, <1>2, <1>3
<1> QED BY <1>1, <1>2, <1>3, <1>4, <1>5, <1>6 DEF IsRefreshed

\* Eviction keeps the most recent, the last of them included.
LEMMA EvictedIsShort ==
  ASSUME NEW S, NEW s \in Seq(S), IsInjective(s), Len(s) > HintSlots, NEW t, t = Evicted(s)
  PROVE  /\ t \in Seq(S) /\ IsInjective(t) /\ Range(t) \subseteq Range(s) /\ Len(t) = HintSlots
         /\ s[Len(s)] \in Range(t)
<1>1. Len(s) \in Nat /\ DOMAIN s = 1..Len(s) /\ HintSlots \in Nat \ {0}
  BY HintAssumption
<1> DEFINE m == Len(s) - HintSlots + 1
<1>2. m \in Int /\ m \in 1..Len(s) /\ Len(s) - m + 1 = HintSlots
  BY <1>1
<1>3. t = SubSeq(s, m, Len(s))
  BY DEF Evicted
<1> HIDE DEF m
<1>4. \A i \in m..Len(s) : s[i] \in S
  BY <1>1, <1>2
<1>5. /\ t \in Seq(S) /\ Len(t) = (IF m <= Len(s) THEN Len(s) - m + 1 ELSE 0)
      /\ \A i \in 1..Len(s) - m + 1 : t[i] = s[m + i - 1]
  BY <1>1, <1>2, <1>3, <1>4, SubSeqProperties
<1>6. Len(t) = HintSlots /\ DOMAIN t = 1..HintSlots /\ \A i \in 1..HintSlots : t[i] = s[m + i - 1]
  BY <1>1, <1>2, <1>5
<1>7. \A i \in 1..HintSlots : m + i - 1 \in 1..Len(s)
  BY <1>1, <1>2
<1>8. IsInjective(t)
  <2> SUFFICES ASSUME NEW i \in 1..HintSlots, NEW j \in 1..HintSlots, t[i] = t[j] PROVE i = j
    BY <1>6 DEF IsInjective
  <2>1. m + i - 1 = m + j - 1
    BY <1>1, <1>6, <1>7 DEF IsInjective
  <2> QED BY <1>2, <2>1
<1>9. Range(t) \subseteq Range(s)
  BY <1>1, <1>6, <1>7 DEF Range
<1>10. s[Len(s)] \in Range(t)
  <2>1. HintSlots \in 1..HintSlots /\ m + HintSlots - 1 = Len(s)
    BY <1>1, <1>2
  <2>2. t[HintSlots] = s[Len(s)]
    BY <1>6, <2>1
  <2> QED BY <1>6, <2>1, <2>2 DEF Range
<1> QED BY <1>5, <1>6, <1>8, <1>9, <1>10

HintEntries == [held : BOOLEAN, read : 0..HintClock, expires : 0..(HintClock + HintTtl)]
HintCalls == [pc : {"new", "read", "put", "done"}, agent : Agents, began : 0..HintClock,
              read : 0..HintClock, served : BOOLEAN]

\* What is cached expires a lifetime and a budget after it was read, and a call is served
\* nothing older.
EntrySound(e) == e.held => e.expires <= e.read + HintTtl + HintBudget
HintSound(x) ==
  /\ x.began <= hintNow
  /\ x.pc # "done" => ~x.served
  /\ x.pc = "put" => x.began <= x.read
  /\ x.served => x.began <= x.read + HintTtl + HintBudget

\* The order of use names each entry once.
OrderSound(agents, held) ==
  /\ agents \in Seq(Agents) /\ IsInjective(agents) /\ Len(agents) <= HintSlots
  /\ \A a \in Agents : held[a].held <=> a \in Range(agents)

HintInv ==
  /\ entries \in [Agents -> HintEntries] /\ hinting \in [Hinting -> HintCalls]
  /\ hintNow \in 0..HintClock
  /\ \A a \in Agents : EntrySound(entries[a])
  /\ \A c \in Hinting : HintSound(hinting[c])
  /\ OrderSound(order, entries)

\* The entry that is not there is typed.
LEMMA NoEntryTyped == NoEntry \in HintEntries /\ ~NoEntry.held
BY HintAssumption DEF NoEntry, HintEntries

\* A call that has not begun names some agent, if there is one.
LEMMA NotHintingTyped ==
  ASSUME hintNow \in 0..HintClock PROVE NotHinting \in HintCalls /\ HintSound(NotHinting)
<1>1. (CHOOSE a \in Agents : TRUE) \in Agents /\ 0 \in 0..HintClock
  BY HintAssumption
<1>2. /\ NotHinting \in HintCalls /\ NotHinting.pc = "new" /\ ~NotHinting.served
      /\ NotHinting.began = 0
  BY <1>1 DEF NotHinting, HintCalls
<1> QED BY <1>1, <1>2 DEF HintSound

\* The invariant holds at the start.
LEMMA HintInitially == HintInit => HintInv
<1> SUFFICES ASSUME HintInit PROVE HintInv
  OBVIOUS
<1>1. entries \in [Agents -> HintEntries] /\ \A a \in Agents : ~entries[a].held
  BY NoEntryTyped DEF HintInit
<1>4. hintNow \in 0..HintClock
  BY HintAssumption DEF HintInit
<1>2. hinting \in [Hinting -> HintCalls] /\ \A c \in Hinting : HintSound(hinting[c])
  BY <1>4, NotHintingTyped DEF HintInit
<1>3. OrderSound(order, entries)
  <2>1. order = <<>> /\ order \in Seq(Agents) /\ Len(order) = 0 /\ DOMAIN order = {}
    BY DEF HintInit
  <2>2. Range(order) = {} /\ IsInjective(order)
    BY <2>1 DEF Range, IsInjective
  <2> QED BY <1>1, <2>1, <2>2, HintAssumption DEF OrderSound
<1> QED BY <1>1, <1>2, <1>3, <1>4 DEF HintInv, EntrySound

\* A step of one call.
LEMMA HintMoves ==
  ASSUME HintInv, NEW c \in Hinting, NEW x \in HintCalls, HintTo(c, x), HintSound(x),
         UNCHANGED hintNow, entries' \in [Agents -> HintEntries],
         \A a \in Agents : EntrySound(entries'[a]), OrderSound(order', entries')
  PROVE  HintInv'
<1>1. hinting' \in [Hinting -> HintCalls]
  BY DEF HintTo, HintInv
<1>2. \A d \in Hinting : HintSound(hinting'[d])
  BY DEF HintTo, HintInv
<1> QED BY <1>1, <1>2 DEF HintInv, EntrySound, HintSound

\* One entry goes, with its place in the order.
LEMMA EntryGoes ==
  ASSUME HintInv, NEW a \in Agents, NEW es, NEW agents,
         es = [entries EXCEPT ![a] = NoEntry], agents = RemoveFirst(order, a)
  PROVE  /\ es \in [Agents -> HintEntries] /\ OrderSound(agents, es)
         /\ \A b \in Agents : EntrySound(es[b])
<1>1. /\ order \in Seq(Agents) /\ IsInjective(order) /\ Len(order) <= HintSlots
      /\ \A b \in Agents : entries[b].held <=> b \in Range(order)
      /\ entries \in [Agents -> HintEntries]
  BY DEF HintInv, OrderSound
<1>2. /\ agents \in Seq(Agents) /\ IsInjective(agents) /\ Range(agents) = Range(order) \ {a}
      /\ Len(agents) = IF a \in Range(order) THEN Len(order) - 1 ELSE Len(order)
  BY <1>1, RemovedOnce
<1>3. es \in [Agents -> HintEntries]
  BY <1>1, NoEntryTyped
<1>4. \A b \in Agents : es[b] = IF b = a THEN NoEntry ELSE entries[b]
  BY <1>1
<1>5. Len(agents) <= HintSlots
  <2>1. Len(order) \in Nat
    BY <1>1
  <2> QED BY <1>1, <1>2, <2>1, HintAssumption
<1>6. OrderSound(agents, es)
  BY <1>1, <1>2, <1>4, <1>5, NoEntryTyped DEF OrderSound
<1>7. \A b \in Agents : EntrySound(es[b])
  BY <1>4, NoEntryTyped DEF HintInv, EntrySound
<1> QED BY <1>3, <1>6, <1>7

\* Every step keeps the invariant.
LEMMA HintStep == HintInv /\ [HintNext]_hintVars => HintInv'
<1> SUFFICES ASSUME HintInv, [HintNext]_hintVars PROVE HintInv'
  OBVIOUS
<1>1. /\ entries \in [Agents -> HintEntries] /\ hinting \in [Hinting -> HintCalls]
      /\ hintNow \in 0..HintClock
      /\ HintTtl \in Nat /\ HintBudget \in Nat /\ HintSlots \in Nat \ {0} /\ HintClock \in Nat
      /\ order \in Seq(Agents) /\ IsInjective(order) /\ Len(order) <= HintSlots
      /\ \A a \in Agents : entries[a].held <=> a \in Range(order)
      /\ OrderSound(order, entries)
      /\ \A a \in Agents : EntrySound(entries[a])
      /\ \A c \in Hinting : HintSound(hinting[c])
  BY HintAssumption DEF HintInv, OrderSound
<1>2. CASE UNCHANGED hintVars
  BY <1>2 DEF hintVars, HintInv, EntrySound, HintSound, OrderSound
<1>3. CASE HintTick
  <2>1. hintNow' \in 0..HintClock /\ UNCHANGED <<entries, order, hinting>>
    BY <1>1, <1>3 DEF HintTick
  <2>2. hintNow <= hintNow'
    BY <1>1, <1>3 DEF HintTick
  <2>3. \A c \in Hinting : HintSound(hinting[c])'
    BY <1>1, <2>1, <2>2 DEF HintSound, HintCalls
  <2> QED BY <2>1, <2>3 DEF HintInv, EntrySound, OrderSound
<1>4. ASSUME NEW a \in Agents, InvalidateHints(a) PROVE HintInv'
  <2>1. /\ entries' = [entries EXCEPT ![a] = NoEntry] /\ order' = RemoveFirst(order, a)
        /\ UNCHANGED <<hinting, hintNow>>
    BY <1>4 DEF InvalidateHints
  <2>2. /\ entries' \in [Agents -> HintEntries] /\ OrderSound(order', entries')
        /\ \A b \in Agents : EntrySound(entries'[b])
    BY <2>1, EntryGoes
  <2>3. OrderSound(order, entries)' /\ (\A b \in Agents : EntrySound(entries[b])')
    BY <2>2 DEF OrderSound, EntrySound
  <2>4. \A c \in Hinting : HintSound(hinting[c])'
    BY <1>1, <2>1 DEF HintSound
  <2> QED BY <1>1, <2>1, <2>2, <2>3, <2>4 DEF HintInv
<1>5. ASSUME NEW c \in Hinting, AskHints(c) PROVE HintInv'
  <2>1. PICK a \in Agents :
          LET h == [hinting[c] EXCEPT !.agent = a, !.began = hintNow]
              fresh == entries[a].held /\ entries[a].expires >= hintNow
          IN IF fresh
             THEN /\ HintTo(c, [h EXCEPT !.pc = "done", !.served = TRUE, !.read = entries[a].read])
                  /\ order' = Append(RemoveFirst(order, a), a)
                  /\ UNCHANGED entries
             ELSE /\ HintTo(c, [h EXCEPT !.pc = "read"])
                  /\ order' = RemoveFirst(order, a)
                  /\ entries' = [entries EXCEPT ![a] = NoEntry]
    BY <1>5 DEF AskHints
  <2> DEFINE h == [hinting[c] EXCEPT !.agent = a, !.began = hintNow]
  <2>2. /\ h \in HintCalls /\ h.began = hintNow /\ h.served = hinting[c].served
        /\ h.read = hinting[c].read
    BY <1>1 DEF HintCalls
  <2>3. UNCHANGED hintNow /\ hinting[c].pc = "new"
    BY <1>5 DEF AskHints
  <2>4. CASE entries[a].held /\ entries[a].expires >= hintNow
    <3> DEFINE x == [h EXCEPT !.pc = "done", !.served = TRUE, !.read = entries[a].read]
    <3>1. entries[a].read \in 0..HintClock /\ entries[a].expires \in Nat
      BY <1>1 DEF HintEntries
    <3>2. HintTo(c, x) /\ order' = Append(RemoveFirst(order, a), a) /\ UNCHANGED entries
      BY <2>1, <2>4
    <3> HIDE DEF h
    <3>3. x \in HintCalls /\ x.pc = "done" /\ x.began = hintNow /\ x.read = entries[a].read
      BY <2>2, <3>1 DEF HintCalls
    <3> HIDE DEF x
    <3>4. x.began <= x.read + HintTtl + HintBudget
      <4>1. entries[a].expires <= entries[a].read + HintTtl + HintBudget
        BY <1>1, <2>4 DEF EntrySound
      <4> QED BY <1>1, <2>4, <3>1, <3>3, <4>1
    <3>5. HintSound(x)
      BY <1>1, <3>3, <3>4 DEF HintSound
    <3>6. /\ order' \in Seq(Agents) /\ IsInjective(order')
          /\ Range(order') = Range(order) \union {a} /\ Len(order') = Len(order)
      <4>1. a \in Range(order)
        BY <1>1, <2>4
      <4> DEFINE t == order'
      <4>2. t = Refreshed(order, a)
        BY <3>2 DEF Refreshed
      <4> HIDE DEF t
      <4>3. IsRefreshed(order, a, t)
        BY <1>1, <4>2, MovedToEnd
      <4> QED BY <4>1, <4>3 DEF t, IsRefreshed
    <3>7. OrderSound(order', entries')
      BY <1>1, <2>4, <3>2, <3>6 DEF OrderSound
    <3>8. entries' \in [Agents -> HintEntries] /\ \A b \in Agents : EntrySound(entries'[b])
      BY <1>1, <3>2
    <3> QED BY <2>3, <3>2, <3>3, <3>5, <3>7, <3>8, HintMoves
  <2>5. CASE ~(entries[a].held /\ entries[a].expires >= hintNow)
    <3> DEFINE x == [h EXCEPT !.pc = "read"]
    <3>1. /\ HintTo(c, x) /\ order' = RemoveFirst(order, a)
          /\ entries' = [entries EXCEPT ![a] = NoEntry]
      BY <2>1, <2>5
    <3> HIDE DEF h
    <3>2. x \in HintCalls /\ x.pc = "read" /\ x.served = hinting[c].served /\ x.began = h.began
      BY <2>2 DEF HintCalls
    <3> HIDE DEF x
    <3>3. ~hinting[c].served /\ x.began = hintNow
      BY <1>1, <2>2, <2>3, <3>2 DEF HintSound
    <3>4. HintSound(x)
      BY <1>1, <3>2, <3>3 DEF HintSound
    <3>5. /\ entries' \in [Agents -> HintEntries] /\ OrderSound(order', entries')
          /\ \A b \in Agents : EntrySound(entries'[b])
      BY <3>1, EntryGoes
    <3> QED BY <2>3, <3>1, <3>2, <3>4, <3>5, HintMoves
  <2> QED BY <2>4, <2>5
<1>6. ASSUME NEW c \in Hinting, ReadHints(c) PROVE HintInv'
  <2>1. UNCHANGED <<entries, order, hintNow>> /\ hinting[c].pc = "read"
    BY <1>6 DEF ReadHints
  <2>2. entries' \in [Agents -> HintEntries] /\ OrderSound(order', entries')
        /\ \A b \in Agents : EntrySound(entries'[b])
    BY <1>1, <2>1
  <2>3. CASE HintTo(c, [hinting[c] EXCEPT !.pc = "put", !.read = hintNow])
    <3> DEFINE x == [hinting[c] EXCEPT !.pc = "put", !.read = hintNow]
    <3>1. /\ x \in HintCalls /\ x.pc = "put" /\ x.read = hintNow /\ x.began = hinting[c].began
          /\ x.served = hinting[c].served
      BY <1>1 DEF HintCalls
    <3>2. HintTo(c, x)
      BY <2>3
    <3> HIDE DEF x
    <3>3. HintSound(x)
      BY <1>1, <2>1, <3>1 DEF HintSound
    <3> QED BY <2>1, <2>2, <3>1, <3>2, <3>3, HintMoves
  <2>4. CASE HintTo(c, [hinting[c] EXCEPT !.pc = "done"])
    <3> DEFINE x == [hinting[c] EXCEPT !.pc = "done"]
    <3>1. /\ x \in HintCalls /\ x.pc = "done" /\ x.began = hinting[c].began
          /\ x.served = hinting[c].served /\ x.read = hinting[c].read
      BY <1>1 DEF HintCalls
    <3>2. HintTo(c, x)
      BY <2>4
    <3> HIDE DEF x
    <3>3. HintSound(x)
      BY <1>1, <3>1 DEF HintSound
    <3> QED BY <2>1, <2>2, <3>1, <3>2, <3>3, HintMoves
  <2> QED BY <1>6, <2>3, <2>4 DEF ReadHints
<1>7. ASSUME NEW c \in Hinting, PutHints(c) PROVE HintInv'
  <2>1. UNCHANGED hintNow /\ hinting[c].pc = "put"
    BY <1>7 DEF PutHints
  <2>2. hinting[c] \in HintCalls /\ HintSound(hinting[c])
    BY <1>1
  <2>3. CASE hintNow > hinting[c].began + HintBudget
    <3> DEFINE x == [hinting[c] EXCEPT !.pc = "done"]
    <3>1. /\ x \in HintCalls /\ x.pc = "done" /\ x.began = hinting[c].began
          /\ x.served = hinting[c].served /\ x.read = hinting[c].read
      BY <1>1 DEF HintCalls
    <3>2. HintTo(c, x) /\ UNCHANGED <<entries, order>>
      BY <1>7, <2>3 DEF PutHints
    <3> HIDE DEF x
    <3>3. HintSound(x)
      BY <1>1, <3>1 DEF HintSound
    <3>4. entries' \in [Agents -> HintEntries] /\ OrderSound(order', entries')
          /\ \A b \in Agents : EntrySound(entries'[b])
      BY <1>1, <3>2
    <3> QED BY <2>1, <3>1, <3>2, <3>3, <3>4, HintMoves
  <2>4. CASE ~(hintNow > hinting[c].began + HintBudget)
    <3> DEFINE a == hinting[c].agent
               agents == Append(RemoveFirst(order, a), a)
               remaining == IF Len(agents) > HintSlots THEN Evicted(agents) ELSE agents
               e == [held |-> TRUE, read |-> hinting[c].read, expires |-> hintNow + HintTtl]
               x == [hinting[c] EXCEPT !.pc = "done", !.served = TRUE]
    <3>1. /\ HintTo(c, x) /\ order' = remaining
          /\ entries' = [b \in Agents |-> IF b = a THEN e
                                          ELSE IF b \in Range(remaining) THEN entries[b] ELSE NoEntry]
      BY <1>7, <2>4 DEF PutHints
    <3>2. a \in Agents
      BY <2>2 DEF HintCalls
    <3>3. /\ agents \in Seq(Agents) /\ IsInjective(agents)
          /\ Range(agents) = Range(order) \union {a} /\ Len(agents) \in Nat
          /\ Len(agents) > 0 /\ agents[Len(agents)] = a
      <4>1. agents = Refreshed(order, a)
        BY DEF Refreshed
      <4> HIDE DEF agents, a
      <4>2. IsRefreshed(order, a, agents)
        BY <1>1, <3>2, <4>1, MovedToEnd
      <4> QED BY <4>2 DEF IsRefreshed
    <3>4. /\ x \in HintCalls /\ x.pc = "done" /\ x.began = hinting[c].began
          /\ x.read = hinting[c].read
      BY <1>1 DEF HintCalls
    <3>5. HintSound(x)
      <4>1. x.began <= hintNow /\ x.began <= x.read
        BY <2>1, <2>2, <3>4 DEF HintSound
      <4> HIDE DEF x
      <4>2. x.began \in Nat /\ x.read \in Nat
        BY <3>4 DEF HintCalls
      <4> QED BY <1>1, <3>4, <4>1, <4>2 DEF HintSound
    <3>6. e \in HintEntries /\ e.held /\ e.read = hinting[c].read /\ e.expires = hintNow + HintTtl
      <4>1. hintNow + HintTtl \in 0..(HintClock + HintTtl)
        BY <1>1
      <4> QED BY <2>2, <4>1 DEF HintEntries, HintCalls
    <3>7. EntrySound(e)
      <4> DEFINE read == hinting[c].read
                 began == hinting[c].began
      <4>1. read \in Nat /\ began \in Nat /\ began <= read /\ ~(hintNow > began + HintBudget)
        BY <2>1, <2>2, <2>4 DEF HintCalls, HintSound
      <4>2. hintNow + HintTtl <= read + HintTtl + HintBudget
        <5> HIDE DEF read, began
        <5> QED BY <1>1, <4>1
      <4> HIDE DEF e
      <4> QED BY <3>6, <4>2 DEF EntrySound
    <3> HIDE DEF agents
    <3>8. /\ remaining \in Seq(Agents) /\ IsInjective(remaining)
          /\ Len(remaining) <= HintSlots /\ a \in Range(remaining)
          /\ Range(remaining) \subseteq Range(order) \union {a}
      <4>1. CASE Len(agents) > HintSlots
        <5>1. remaining = Evicted(agents)
          BY <4>1
        <5> HIDE DEF remaining
        <5> QED BY <1>1, <3>3, <4>1, <5>1, EvictedIsShort
      <4>2. CASE ~(Len(agents) > HintSlots)
        <5>1. a \in Range(agents)
          BY <3>3
        <5>2. remaining = agents
          BY <4>2
        <5> HIDE DEF remaining
        <5> QED BY <1>1, <3>3, <4>2, <5>1, <5>2
      <4> QED BY <4>1, <4>2
    <3> HIDE DEF e, x, remaining, a
    <3>9. entries' \in [Agents -> HintEntries]
      BY <1>1, <3>1, <3>6, NoEntryTyped
    <3>10. \A b \in Agents : EntrySound(entries'[b])
      <4>1. EntrySound(NoEntry)
        BY NoEntryTyped DEF EntrySound
      <4> QED BY <1>1, <3>1, <3>7, <4>1
    <3>11. OrderSound(order', entries')
      <4>1. \A b \in Agents : entries'[b].held <=> b \in Range(remaining)
        BY <1>1, <3>1, <3>6, <3>8, NoEntryTyped
      <4> QED BY <3>1, <3>8, <4>1 DEF OrderSound
    <3> QED BY <2>1, <3>1, <3>4, <3>5, <3>9, <3>10, <3>11, HintMoves
  <2> QED BY <2>3, <2>4
<1> QED BY <1>2, <1>3, <1>4, <1>5, <1>6, <1>7 DEF HintNext

\* The invariant is as strong as what the runs check.
LEMMA HintPromises == HintInv => HintTypeOK /\ HintsExpire
BY DEF HintInv, HintTypeOK, HintEntries, HintCalls, HintsExpire, HintSound, OrderSound

(*****************************************************************************)
(* AccessKeys: a cached key outlives its row only briefly.                   *)
(*****************************************************************************)

CallerStates == [pc : {"idle", "lookup", "verify"}, now : Nat, valid : BOOLEAN]

\* A time is within what the row of the key says.
WithinRow(time) ==
  /\ key.issued
  /\ key.revoked # Never => time <= key.revoked
  /\ key.expires # Never => time <= key.expires

\* A call noted the time before it read that the key was valid.
CallerSound(x) == x.now <= clock /\ (x.valid => WithinRow(x.now))

AccessInv ==
  /\ AccessTypeOK
  /\ keyCache # Uncached => /\ key.issued /\ keyCache <= clock + CacheTtl
                            /\ key.revoked # Never => keyCache <= key.revoked + CacheTtl
                            /\ key.expires # Never => keyCache <= key.expires + CacheTtl
  /\ \A c \in Callers : CallerSound(caller[c])

\* The caller that is not calling is typed and has nothing from the database.
LEMMA IdleCaller == NotCalling \in CallerStates /\ NotCalling.now = 0 /\ ~NotCalling.valid
BY DEF NotCalling, CallerStates

\* The invariant holds at the start.
LEMMA AccessInitially == AccessInit => AccessInv
BY IdleCaller DEF AccessInit, AccessInv, AccessTypeOK, CallerStates, CallerSound

\* A step of one call.
LEMMA CallerMoves ==
  ASSUME AccessInv, NEW c \in Callers, NEW x \in CallerStates, caller' = [caller EXCEPT ![c] = x],
         CallerSound(x), UNCHANGED <<clock, key>>,
         \/ keyCache' \in {keyCache, Uncached}
         \/ WithinRow(caller[c].now) /\ keyCache' = caller[c].now + CacheTtl
  PROVE  AccessInv'
<1>1. /\ caller \in [Callers -> CallerStates] /\ clock \in Nat
      /\ key \in [issued : BOOLEAN, expires : Nat \union {Never}, revoked : Nat \union {Never}]
      /\ keyCache \in Nat \union {Uncached} /\ CacheTtl \in Nat
  BY AccessAssumption DEF AccessInv, AccessTypeOK, CallerStates
<1>2. caller' \in [Callers -> CallerStates]
  BY <1>1
<1>3. \A d \in Callers : caller'[d] = IF d = c THEN x ELSE caller[d]
  BY <1>1
<1>4. \A d \in Callers : CallerSound(caller[d])
  BY DEF AccessInv
<1>5. \A d \in Callers : CallerSound(caller[d])'
  BY <1>3, <1>4 DEF CallerSound, WithinRow
<1>6. caller[c].now \in Nat /\ caller[c].now <= clock
  BY <1>1, <1>4 DEF CallerStates, CallerSound
<1>7. CASE keyCache' \in {keyCache, Uncached}
  BY <1>1, <1>2, <1>5, <1>7 DEF AccessInv, AccessTypeOK, CallerStates
<1>8. CASE WithinRow(caller[c].now) /\ keyCache' = caller[c].now + CacheTtl
  <2>1. keyCache' \in Nat /\ keyCache' <= clock + CacheTtl
    BY <1>1, <1>6, <1>8
  <2>2. key.revoked # Never => keyCache' <= key.revoked + CacheTtl
    BY <1>1, <1>6, <1>8 DEF WithinRow
  <2>3. key.expires # Never => keyCache' <= key.expires + CacheTtl
    BY <1>1, <1>6, <1>8 DEF WithinRow
  <2> QED BY <1>1, <1>2, <1>5, <1>8, <2>1, <2>2, <2>3
         DEF AccessInv, AccessTypeOK, CallerStates, WithinRow
<1> QED BY <1>7, <1>8

\* Every step keeps the invariant.
LEMMA AccessStep == AccessInv /\ [AccessNext]_accessVars => AccessInv'
<1> SUFFICES ASSUME AccessInv, [AccessNext]_accessVars PROVE AccessInv'
  OBVIOUS
<1>1. /\ caller \in [Callers -> CallerStates] /\ clock \in Nat
      /\ key \in [issued : BOOLEAN, expires : Nat \union {Never}, revoked : Nat \union {Never}]
      /\ keyCache \in Nat \union {Uncached} /\ CacheTtl \in Nat
      /\ \A c \in Callers : CallerSound(caller[c])
  BY AccessAssumption DEF AccessInv, AccessTypeOK, CallerStates
<1>2. CASE UNCHANGED accessVars
  BY <1>2 DEF accessVars, AccessInv, AccessTypeOK, CallerSound, WithinRow
<1>3. CASE IssueKey
  <2>1. PICK expires \in {clock + ttl : ttl \in Lifetimes} \union {Never} :
          key' = [issued |-> TRUE, expires |-> expires, revoked |-> Never]
    BY <1>3 DEF IssueKey
  <2>2. expires \in Nat \union {Never} /\ (expires # Never => clock <= expires)
    <3>1. \A ttl \in Lifetimes : clock + ttl \in Nat /\ clock <= clock + ttl
      BY <1>1, AccessAssumption
    <3>2. expires = Never \/ \E ttl \in Lifetimes : expires = clock + ttl
      OBVIOUS
    <3> QED BY <3>1, <3>2
  <2>3. keyCache' = Uncached /\ UNCHANGED <<clock, caller>>
    BY <1>3 DEF IssueKey, AccessInv
  <2>4. \A c \in Callers : ~caller[c].valid
    BY <1>1, <1>3 DEF IssueKey, CallerSound, WithinRow
  <2>5. \A c \in Callers : CallerSound(caller[c])'
    BY <1>1, <2>3, <2>4 DEF CallerSound
  <2>6. AccessTypeOK'
    BY <1>1, <2>1, <2>2, <2>3 DEF AccessTypeOK, CallerStates, Uncached
  <2> QED BY <2>3, <2>5, <2>6 DEF AccessInv
<1>4. CASE RevokeKey
  <2>1. /\ key' = [key EXCEPT !.revoked = clock] /\ UNCHANGED <<clock, keyCache, caller>>
        /\ key.revoked = Never /\ key.issued
    BY <1>4 DEF RevokeKey
  <2>2. /\ key' \in [issued : BOOLEAN, expires : Nat \union {Never}, revoked : Nat \union {Never}]
        /\ key'.issued /\ key'.expires = key.expires /\ key'.revoked = clock
    BY <1>1, <2>1
  <2>3. \A c \in Callers : CallerSound(caller[c])'
    BY <1>1, <2>1, <2>2 DEF CallerSound, WithinRow
  <2>4. AccessTypeOK'
    BY <1>1, <2>1, <2>2 DEF AccessTypeOK, CallerStates
  <2> QED BY <2>1, <2>2, <2>3, <2>4 DEF AccessInv
<1>5. CASE RestartAuth
  <2>1. caller' \in [Callers -> CallerStates] /\ keyCache' = Uncached /\ UNCHANGED <<clock, key>>
        /\ \A c \in Callers : caller'[c].now = 0 /\ ~caller'[c].valid
    BY <1>5, IdleCaller DEF RestartAuth
  <2> QED BY <1>1, <2>1 DEF AccessInv, AccessTypeOK, CallerStates, CallerSound, Uncached
<1>6. CASE Tick
  <2>1. clock' = clock + 1 /\ UNCHANGED <<key, keyCache, caller>>
    BY <1>6 DEF Tick
  <2>2. \A c \in Callers : CallerSound(caller[c])'
    BY <1>1, <2>1 DEF CallerSound, WithinRow, CallerStates
  <2> QED BY <1>1, <2>1, <2>2 DEF AccessInv, AccessTypeOK, CallerStates
<1>7. ASSUME NEW c \in Callers, CheckCache(c) \/ LookUpKey(c) \/ AcceptKey(c) \/ RefuseCaller(c)
      PROVE  AccessInv'
  <2> USE IdleCaller
  <2>1. CallerSound(NotCalling) /\ caller[c] \in CallerStates /\ CallerSound(caller[c])
    BY <1>1 DEF CallerSound
  <2>2. CASE CheckCache(c)
    <3>1. CASE UNCHANGED <<keyCache, caller>>
      BY <1>1, <2>2, <3>1 DEF CheckCache, AccessInv, AccessTypeOK, CallerSound, WithinRow
    <3>2. CASE ~UNCHANGED <<keyCache, caller>>
      <4> DEFINE x == [NotCalling EXCEPT !.pc = "lookup", !.now = clock]
      <4>1. x \in CallerStates /\ x.now = clock /\ ~x.valid
        BY <1>1 DEF NotCalling, CallerStates
      <4>2. keyCache' = Uncached /\ caller' = [caller EXCEPT ![c] = x] /\ UNCHANGED <<clock, key>>
        BY <2>2, <3>2 DEF CheckCache
      <4>3. CallerSound(x)
        BY <1>1, <4>1 DEF CallerSound
      <4> HIDE DEF x
      <4> QED BY <4>1, <4>2, <4>3, CallerMoves
    <3> QED BY <3>1, <3>2
  <2>3. CASE LookUpKey(c)
    <3> DEFINE x == [caller[c] EXCEPT !.pc = "verify", !.valid = KeyValid]
    <3>1. x \in CallerStates /\ x.now = caller[c].now /\ x.valid = KeyValid /\ x.now \in Nat
      BY <2>1 DEF CallerStates, KeyValid
    <3>2. caller' = [caller EXCEPT ![c] = x] /\ UNCHANGED <<clock, key, keyCache>>
      BY <2>3 DEF LookUpKey
    <3>3. CallerSound(x)
      BY <1>1, <2>1, <3>1 DEF CallerSound, WithinRow, KeyValid
    <3> HIDE DEF x
    <3> QED BY <3>1, <3>2, <3>3, CallerMoves
  <2>4. CASE AcceptKey(c)
    <3>1. caller' = [caller EXCEPT ![c] = NotCalling] /\ UNCHANGED <<clock, key>>
      BY <2>4 DEF AcceptKey
    <3>2. \/ keyCache' \in {keyCache, Uncached}
          \/ WithinRow(caller[c].now) /\ keyCache' = caller[c].now + CacheTtl
      BY <2>1, <2>4 DEF AcceptKey, CallerSound
    <3> QED BY <2>1, <3>1, <3>2, CallerMoves
  <2>5. CASE RefuseCaller(c)
    BY <2>1, <2>5, CallerMoves DEF RefuseCaller
  <2> QED BY <1>7, <2>2, <2>3, <2>4, <2>5
<1> QED BY <1>2, <1>3, <1>4, <1>5, <1>6, <1>7 DEF AccessNext

\* The invariant is as strong as what the runs check.
LEMMA AccessPromises == AccessInv => AccessTypeOK /\ CacheOutlivesKeyBriefly
BY DEF AccessInv, CacheOutlivesKeyBriefly

(*****************************************************************************)
(* Credentials: a request goes out with the current key, or one that was     *)
(* current less than a lifetime of the cache ago.                            *)
(*****************************************************************************)

Secrets == {None} \union Keys
HostStates == [pc : {"down", "generate", "up", "stored"}, at : {Unheld} \union 0..WallBound,
               keys : [Vaults -> Secrets]]
AskerStates == [pc : {"idle", "list", "read", "served"}, host : Hosts \union {"none"},
                launched : BOOLEAN, now : 0..WallBound, rows : SUBSET Vaults,
                keys : [Vaults -> Secrets \union {Subscription}], failed : BOOLEAN]
VaultRows == [key : Secrets, under : Nat]

\* A key was not yet gone at a time, or not for as long as a cache lasts.
GoneSince(k, time) == k \in Keys /\ gone[k] # Still => time <= gone[k]
GoneWithin(k, time) == k \in Keys /\ gone[k] # Still => time < gone[k] + OverrideTtl

\* What a process caches was current when the entry's time began.
HostSound(y) ==
  /\ y.at <= wall
  /\ \A p \in Vaults : GoneSince(y.keys[p], y.at)

\* What a request has read was current when it asked.
AskerSound(x) ==
  /\ x.now <= wall
  /\ x.pc \in {"list", "read"} =>
       /\ x.host \in Hosts
       /\ \A p \in Vaults : x.keys[p] \in Secrets /\ GoneSince(x.keys[p], x.now)
  /\ x.pc = "served" =>
       /\ x.launched = (x.keys["anthropic"] = Subscription)
       /\ ~x.failed => \A p \in Vaults : GoneWithin(x.keys[p], x.now)

\* A stored key is not gone, and is stored for one provider.
VaultSound ==
  /\ \A p \in Vaults : vault[p].key \in Keys => gone[vault[p].key] = Still
  /\ \A p, q \in Vaults : vault[p].key \in Keys /\ vault[p].key = vault[q].key => p = q

CredentialInv ==
  /\ master \in Nat /\ wall \in 0..WallBound
  /\ host \in [Hosts -> HostStates]
  /\ vault \in [Vaults -> VaultRows]
  /\ gone \in [Keys -> {Still} \union 0..WallBound]
  /\ asker \in [Askers -> AskerStates]
  /\ VaultSound
  /\ \A h \in Hosts : HostSound(host[h])
  /\ \A a \in Askers : AskerSound(asker[a])

\* The times of the clocks and of the keys are numbers.
LEMMA CredentialNumbers ==
  /\ OverrideTtl \in Nat /\ OverrideTtl > 0 /\ WallBound \in Nat /\ KeyBound \in Nat
  /\ "anthropic" \in Vaults /\ None = 0 /\ Subscription = -1 /\ Still = -1
  /\ Subscription \notin Secrets /\ None \notin Keys /\ Keys \subseteq Nat
  /\ Unheld \in Int /\ Unheld + OverrideTtl = 0 /\ NoKeys \in [Vaults -> Secrets]
  /\ \A p \in Vaults : NoKeys[p] = None
BY CredentialAssumption DEF None, Subscription, Still, Secrets, Keys, Unheld, NoKeys

\* The process that has just started caches no key.
LEMMA NewHostSound ==
  ASSUME wall \in 0..WallBound
  PROVE  NewHost \in HostStates /\ HostSound(NewHost) /\ NewHost.pc = "down"
<1>1. /\ NewHost \in HostStates /\ NewHost.at = Unheld /\ NewHost.keys = NoKeys
      /\ NewHost.pc = "down"
  BY CredentialNumbers DEF NewHost, HostStates
<1> QED BY <1>1, CredentialNumbers DEF HostSound, GoneSince

\* The request that asks for nothing was given nothing.
LEMMA NotAskingSound ==
  ASSUME wall \in 0..WallBound
  PROVE  /\ NotAsking \in AskerStates /\ AskerSound(NotAsking) /\ NotAsking.keys = NoKeys
         /\ ~NotAsking.failed /\ NotAsking.pc = "idle"
<1>1. /\ NotAsking \in AskerStates /\ NotAsking.now = 0 /\ NotAsking.pc = "idle"
      /\ NotAsking.keys = NoKeys /\ ~NotAsking.failed
  BY CredentialNumbers DEF NotAsking, AskerStates
<1> QED BY <1>1 DEF AskerSound

\* The invariant holds at the start.
LEMMA CredentialInitially == CredentialInit => CredentialInv
<1> SUFFICES ASSUME CredentialInit PROVE CredentialInv
  OBVIOUS
<1>1. master \in Nat /\ wall \in 0..WallBound
  BY CredentialNumbers DEF CredentialInit
<1>2. host \in [Hosts -> HostStates] /\ \A h \in Hosts : HostSound(host[h])
  BY <1>1, NewHostSound DEF CredentialInit
<1>3. vault \in [Vaults -> VaultRows] /\ \A p \in Vaults : vault[p].key = None
  BY CredentialNumbers DEF CredentialInit, VaultRows, Secrets
<1>4. gone \in [Keys -> {Still} \union 0..WallBound]
  BY DEF CredentialInit
<1>5. asker \in [Askers -> AskerStates] /\ \A a \in Askers : AskerSound(asker[a])
  BY <1>1, NotAskingSound DEF CredentialInit
<1>6. VaultSound
  BY <1>3, CredentialNumbers DEF VaultSound
<1> QED BY <1>1, <1>2, <1>3, <1>4, <1>5, <1>6 DEF CredentialInv

\* Time passes and keys go, at the time it is.
LEMMA KeysGo ==
  ASSUME CredentialInv, wall' \in 0..WallBound, wall <= wall',
         gone' \in [Keys -> {Still} \union 0..WallBound],
         \A k \in Keys : gone'[k] \in {gone[k], wall}
  PROVE  /\ \A y \in HostStates : HostSound(y) => HostSound(y)'
         /\ \A x \in AskerStates : AskerSound(x) => AskerSound(x)'
<1>1. wall \in 0..WallBound /\ gone \in [Keys -> {Still} \union 0..WallBound]
  BY DEF CredentialInv
<1>2. ASSUME NEW k, NEW t \in Int, t <= wall, GoneSince(k, t) PROVE GoneSince(k, t)'
  BY <1>1, <1>2, CredentialNumbers DEF GoneSince
<1>3. ASSUME NEW k, NEW t \in Int, t <= wall, GoneWithin(k, t) PROVE GoneWithin(k, t)'
  BY <1>1, <1>3, CredentialNumbers DEF GoneWithin
<1>4. ASSUME NEW y \in HostStates, HostSound(y) PROVE HostSound(y)'
  <2>1. y.at \in Int /\ y.at <= wall
    BY <1>4, CredentialNumbers DEF HostStates, HostSound
  <2> QED BY <1>1, <1>2, <1>4, <2>1, CredentialNumbers DEF HostSound
<1>5. ASSUME NEW x \in AskerStates, AskerSound(x) PROVE AskerSound(x)'
  <2>1. x.now \in Int /\ x.now <= wall
    BY <1>5 DEF AskerStates, AskerSound
  <2>2. x.now <= wall'
    BY <1>1, <2>1
  <2>3. ASSUME x.pc \in {"list", "read"} 
        PROVE  x.host \in Hosts /\ \A p \in Vaults : x.keys[p] \in Secrets /\ GoneSince(x.keys[p], x.now)'
    BY <1>2, <1>5, <2>1, <2>3 DEF AskerSound
  <2>4. ASSUME x.pc = "served"
        PROVE  /\ x.launched = (x.keys["anthropic"] = Subscription)
               /\ ~x.failed => \A p \in Vaults : GoneWithin(x.keys[p], x.now)'
    BY <1>3, <1>5, <2>1, <2>4 DEF AskerSound
  <2> QED BY <2>2, <2>3, <2>4 DEF AskerSound
<1> QED BY <1>4, <1>5

\* A step of one request.
LEMMA AskerMoves ==
  ASSUME CredentialInv, NEW a \in Askers, NEW x \in AskerStates, AskerTo(a, x), AskerSound(x),
         UNCHANGED <<master, vault, gone, wall>>, host' \in [Hosts -> HostStates],
         \A h \in Hosts : HostSound(host'[h])
  PROVE  CredentialInv'
<1>1. asker' \in [Askers -> AskerStates] /\ \A b \in Askers : AskerSound(asker'[b])
  BY DEF AskerTo, CredentialInv
<1>2. \A b \in Askers : AskerSound(asker[b])'
  BY <1>1 DEF AskerSound, GoneSince, GoneWithin
<1>3. \A h \in Hosts : HostSound(host[h])'
  BY DEF HostSound, GoneSince
<1> QED BY <1>1, <1>2, <1>3 DEF CredentialInv, VaultSound

\* What a request goes out with.
LEMMA GivenSound ==
  ASSUME CredentialInv, NEW q \in AskerStates, q.now <= wall, NEW cached \in [Vaults -> Secrets],
         ~q.failed => \A p \in Vaults : GoneWithin(cached[p], q.now), NEW x \in Given(q, cached)
  PROVE  x \in AskerStates /\ AskerSound(x)
<1>1. wall \in 0..WallBound /\ "anthropic" \in Vaults /\ Subscription \notin Secrets
      /\ Subscription \notin Keys
  BY CredentialNumbers DEF CredentialInv, Secrets
<1>2. CASE x = NotAsking
  BY <1>1, <1>2, NotAskingSound
<1>3. CASE q.launched /\ x # NotAsking
  <2> DEFINE ks == [cached EXCEPT !["anthropic"] = Subscription]
             z == [q EXCEPT !.pc = "served", !.keys = ks]
  <2>1. x = z
    BY <1>3 DEF Given
  <2>2. /\ ks \in [Vaults -> Secrets \union {Subscription}] /\ ks["anthropic"] = Subscription
        /\ \A p \in Vaults : ks[p] = cached[p] \/ ks[p] = Subscription
    BY <1>1
  <2> HIDE DEF ks
  <2>3. /\ z \in AskerStates /\ z.now = q.now /\ z.keys = ks /\ z.pc = "served"
        /\ z.launched = q.launched /\ z.failed = q.failed
    BY <2>2 DEF AskerStates
  <2> HIDE DEF z
  <2>4. ~q.failed => \A p \in Vaults : GoneWithin(ks[p], q.now)
    BY <1>1, <2>2 DEF GoneWithin
  <2> QED BY <1>3, <2>1, <2>2, <2>3, <2>4 DEF AskerSound
<1>4. CASE ~q.launched
  <2> DEFINE z == [q EXCEPT !.pc = "served", !.keys = cached]
  <2>1. x = z
    BY <1>4 DEF Given
  <2>2. /\ z \in AskerStates /\ z.now = q.now /\ z.keys = cached /\ z.pc = "served"
        /\ z.launched = q.launched /\ z.failed = q.failed
    BY DEF AskerStates
  <2> HIDE DEF z
  <2>3. cached["anthropic"] # Subscription /\ z.launched = FALSE
    BY <1>1, <1>4, <2>2 DEF AskerStates
  <2> QED BY <2>1, <2>2, <2>3 DEF AskerSound
<1> QED BY <1>2, <1>3, <1>4

\* A step of one process, which leaves its cache alone or drops it.
LEMMA HostMoves ==
  ASSUME CredentialInv, NEW h \in Hosts, NEW y \in HostStates, host' = [host EXCEPT ![h] = y],
         HostSound(y)
  PROVE  host' \in [Hosts -> HostStates] /\ \A g \in Hosts : HostSound(host'[g])
BY DEF CredentialInv

\* A write to the vault: a new key of one provider, the old one gone.
LEMMA VaultMoves ==
  ASSUME CredentialInv, NEW p \in Vaults, NEW r \in VaultRows, vault' = [vault EXCEPT ![p] = r],
         Replace(vault[p].key), r.key \in Keys => Unused(r.key)
  PROVE  /\ vault' \in [Vaults -> VaultRows] /\ gone' \in [Keys -> {Still} \union 0..WallBound]
         /\ \A k \in Keys : gone'[k] \in {gone[k], wall}
         /\ VaultSound'
<1>1. /\ vault \in [Vaults -> VaultRows] /\ gone \in [Keys -> {Still} \union 0..WallBound]
      /\ wall \in 0..WallBound /\ VaultSound /\ None \notin Keys
  BY CredentialNumbers DEF CredentialInv
<1> DEFINE old == vault[p].key
<1>2. old \in Secrets /\ gone' = IF old = None THEN gone ELSE [gone EXCEPT ![old] = wall]
  BY <1>1 DEF Replace, VaultRows
<1>3. /\ gone' \in [Keys -> {Still} \union 0..WallBound]
      /\ \A k \in Keys : gone'[k] = IF k = old THEN wall ELSE gone[k]
  BY <1>1, <1>2 DEF Secrets
<1>4. /\ vault' \in [Vaults -> VaultRows]
      /\ \A q \in Vaults : vault'[q] = IF q = p THEN r ELSE vault[q]
  BY <1>1
<1>5. r.key \in Keys => gone[r.key] = Still /\ \A q \in Vaults : vault[q].key # r.key
  BY DEF Unused, Stored
<1>6. \A q \in Vaults : vault'[q].key \in Keys => gone'[vault'[q].key] = Still
  <2> SUFFICES ASSUME NEW q \in Vaults, vault'[q].key \in Keys
               PROVE  gone'[vault'[q].key] = Still
    OBVIOUS
  <2>1. CASE q = p
    BY <1>3, <1>4, <1>5, <2>1
  <2>2. CASE q # p
    BY <1>1, <1>3, <1>4, <2>2 DEF VaultSound
  <2> QED BY <2>1, <2>2
<1>7. \A q, s \in Vaults : vault'[q].key \in Keys /\ vault'[q].key = vault'[s].key => q = s
  BY <1>1, <1>4, <1>5 DEF VaultSound
<1> QED BY <1>3, <1>4, <1>6, <1>7 DEF VaultSound

\* Every step keeps the invariant.
LEMMA CredentialStep == CredentialInv /\ [CredentialNext]_credentialVars => CredentialInv'
<1> SUFFICES ASSUME CredentialInv, [CredentialNext]_credentialVars PROVE CredentialInv'
  OBVIOUS
<1>1. /\ master \in Nat /\ wall \in 0..WallBound
      /\ host \in [Hosts -> HostStates]
      /\ vault \in [Vaults -> VaultRows]
      /\ gone \in [Keys -> {Still} \union 0..WallBound]
      /\ asker \in [Askers -> AskerStates]
      /\ VaultSound
      /\ \A h \in Hosts : HostSound(host[h])
      /\ \A a \in Askers : AskerSound(asker[a])
  BY DEF CredentialInv
<1>u. wall <= wall /\ (UNCHANGED gone => gone' \in [Keys -> {Still} \union 0..WallBound]
                                         /\ \A k \in Keys : gone'[k] \in {gone[k], wall})
  BY <1>1
<1>2. ASSUME UNCHANGED <<wall, gone, vault, asker>>, master' \in Nat,
             host' \in [Hosts -> HostStates], \A h \in Hosts : HostSound(host'[h])
      PROVE  CredentialInv'
  BY <1>1, <1>2 DEF CredentialInv, VaultSound, HostSound, AskerSound, GoneSince, GoneWithin
<1>3. CASE UNCHANGED credentialVars
  BY <1>1, <1>2, <1>3 DEF credentialVars
<1>4. CASE WallTick
  <2>1. wall' \in 0..WallBound /\ wall <= wall' /\ UNCHANGED <<master, host, launch, vault, gone, asker>>
    BY <1>1, <1>4, CredentialNumbers DEF WallTick
  <2>2. /\ \A y \in HostStates : HostSound(y) => HostSound(y)'
        /\ \A x \in AskerStates : AskerSound(x) => AskerSound(x)'
    BY <1>u, <2>1, KeysGo
  <2>3. (\A h \in Hosts : HostSound(host[h])') /\ (\A a \in Askers : AskerSound(asker[a])')
    BY <1>1, <2>1, <2>2 DEF HostSound, AskerSound, GoneSince, GoneWithin
  <2> QED BY <1>1, <2>1, <2>3 DEF CredentialInv, VaultSound
<1>5. ASSUME NEW h \in Hosts, NEW pc \in {"down", "generate", "up", "stored"}, master' \in Nat,
             host' = [host EXCEPT ![h].pc = pc], UNCHANGED <<wall, gone, vault, asker>>
      PROVE  CredentialInv'
  <2> DEFINE y == [host[h] EXCEPT !.pc = pc]
  <2>1. y \in HostStates /\ y.at = host[h].at /\ y.keys = host[h].keys
    BY <1>1 DEF HostStates
  <2>2. host' = [host EXCEPT ![h] = y]
    BY <1>1, <1>5
  <2> HIDE DEF y
  <2>3. HostSound(y)
    BY <1>1, <2>1 DEF HostSound
  <2>4. host' \in [Hosts -> HostStates] /\ \A g \in Hosts : HostSound(host'[g])
    BY <2>1, <2>2, <2>3, HostMoves
  <2> QED BY <1>2, <1>5, <2>4
<1>6. ASSUME NEW h \in Hosts, FindMaster(h) PROVE CredentialInv'
  BY <1>1, <1>5, <1>6 DEF FindMaster
<1>7. ASSUME NEW h \in Hosts, WriteMaster(h) PROVE CredentialInv'
  <2>1. master' \in Nat
    BY <1>1, <1>7 DEF WriteMaster
  <2> QED BY <1>5, <1>7, <2>1 DEF WriteMaster
<1>8. ASSUME NEW h \in Hosts, CrashHost(h) PROVE CredentialInv'
  <2>1. /\ host' = [host EXCEPT ![h] = NewHost] /\ UNCHANGED <<master, vault, gone, wall>>
        /\ asker' = [a \in Askers |-> IF asker[a].host = h THEN NotAsking ELSE asker[a]]
    BY <1>8 DEF CrashHost
  <2>2. host' \in [Hosts -> HostStates] /\ \A g \in Hosts : HostSound(host'[g])
    BY <1>1, <2>1, NewHostSound, HostMoves
  <2>3. asker' \in [Askers -> AskerStates] /\ \A a \in Askers : AskerSound(asker'[a])
    BY <1>1, <2>1, NotAskingSound
  <2>4. (\A g \in Hosts : HostSound(host[g])') /\ (\A a \in Askers : AskerSound(asker[a])')
    BY <2>1, <2>2, <2>3 DEF HostSound, AskerSound, GoneSince, GoneWithin
  <2> QED BY <1>1, <2>1, <2>2, <2>3, <2>4 DEF CredentialInv, VaultSound
<1>9. ASSUME NEW h \in Hosts, NEW p \in Vaults, NEW r \in VaultRows,
             vault' = [vault EXCEPT ![p] = r], Replace(vault[p].key),
             r.key \in Keys => Unused(r.key), host' = [host EXCEPT ![h].pc = "stored"],
             UNCHANGED <<master, launch, asker, wall>>
      PROVE  CredentialInv'
  <2>1. /\ vault' \in [Vaults -> VaultRows] /\ gone' \in [Keys -> {Still} \union 0..WallBound]
        /\ \A k \in Keys : gone'[k] \in {gone[k], wall}
        /\ VaultSound'
    BY <1>9, VaultMoves
  <2>2. /\ \A y \in HostStates : HostSound(y) => HostSound(y)'
        /\ \A x \in AskerStates : AskerSound(x) => AskerSound(x)'
    BY <1>1, <1>9, <1>u, <2>1, KeysGo
  <2> DEFINE y == [host[h] EXCEPT !.pc = "stored"]
  <2>3. y \in HostStates /\ y.at = host[h].at /\ y.keys = host[h].keys
    BY <1>1 DEF HostStates
  <2>4. host' = [host EXCEPT ![h] = y]
    BY <1>1, <1>9
  <2> HIDE DEF y
  <2>5. HostSound(y)
    BY <1>1, <2>3 DEF HostSound
  <2>6. host' \in [Hosts -> HostStates] /\ \A g \in Hosts : HostSound(host'[g])
    BY <2>3, <2>4, <2>5, HostMoves
  <2>7. (\A g \in Hosts : HostSound(host[g])') /\ (\A a \in Askers : AskerSound(asker[a])')
    BY <1>1, <1>9, <2>2, <2>6 DEF HostSound, AskerSound, GoneSince, GoneWithin
  <2> QED BY <1>1, <1>9, <2>1, <2>6, <2>7 DEF CredentialInv
<1>10. ASSUME NEW h \in Hosts, PutProvider(h) PROVE CredentialInv'
  <2>1. PICK p \in Vaults, k \in Keys :
          /\ Unused(k) /\ vault' = [vault EXCEPT ![p] = [key |-> k, under |-> master]]
          /\ Replace(vault[p].key)
    BY <1>10 DEF PutProvider
  <2> DEFINE r == [key |-> k, under |-> master]
  <2>2. r \in VaultRows /\ r.key = k /\ vault' = [vault EXCEPT ![p] = r]
    BY <1>1, <2>1 DEF VaultRows, Secrets
  <2> HIDE DEF r
  <2> QED BY <1>9, <1>10, <2>1, <2>2, ZenonT(30) DEF PutProvider
<1>11. ASSUME NEW h \in Hosts, DeleteProvider(h) PROVE CredentialInv'
  <2>1. PICK p \in Vaults :
          /\ vault' = [vault EXCEPT ![p] = [key |-> None, under |-> None]]
          /\ Replace(vault[p].key)
    BY <1>11 DEF DeleteProvider
  <2> DEFINE r == [key |-> None, under |-> None]
  <2>2. r \in VaultRows /\ r.key \notin Keys /\ vault' = [vault EXCEPT ![p] = r]
    BY <1>1, <2>1, CredentialNumbers DEF VaultRows, Secrets
  <2> HIDE DEF r
  <2> QED BY <1>9, <1>11, <2>1, <2>2 DEF DeleteProvider
<1>12. ASSUME NEW h \in Hosts, Invalidate(h) PROVE CredentialInv'
  <2> DEFINE y == [host[h] EXCEPT !.pc = "up", !.at = Unheld]
  <2>1. y \in HostStates /\ y.at = Unheld /\ y.keys = host[h].keys
    BY <1>1 DEF HostStates
  <2>2. host' = [host EXCEPT ![h] = y] /\ UNCHANGED <<master, launch, vault, gone, asker, wall>>
    BY <1>1, <1>12 DEF Invalidate
  <2> HIDE DEF y
  <2>3. HostSound(y)
    <3>1. \A n \in 0..WallBound : Unheld <= n
      BY CredentialNumbers
    <3>2. \A k \in Keys : gone[k] # Still => gone[k] \in 0..WallBound
      BY <1>1
    <3> QED BY <1>1, <2>1, <3>1, <3>2 DEF HostSound, GoneSince
  <2>4. host' \in [Hosts -> HostStates] /\ \A g \in Hosts : HostSound(host'[g])
    BY <2>1, <2>2, <2>3, HostMoves
  <2> QED BY <1>1, <1>2, <2>2, <2>4
<1>13. ASSUME NEW h \in Hosts, RegisterLaunch(h) \/ RefuseLaunch(h) PROVE CredentialInv'
  BY <1>1, <1>2, <1>13 DEF RegisterLaunch, RefuseLaunch
<1>14. ASSUME NEW a \in Askers, NEW h \in Hosts, BeginResolve(a, h) PROVE CredentialInv'
  <2>1. PICK launched \in BOOLEAN :
          LET q == [NotAsking EXCEPT !.host = h, !.launched = launched, !.now = wall]
          IN IF wall - host[h].at < OverrideTtl
             THEN \E given \in Given(q, host[h].keys) : AskerTo(a, given)
             ELSE AskerTo(a, [q EXCEPT !.pc = "list"])
    BY <1>14 DEF BeginResolve, Bound
  <2>2. UNCHANGED <<master, host, launch, vault, gone, wall>>
    BY <1>14 DEF BeginResolve
  <2>3. host' \in [Hosts -> HostStates] /\ \A g \in Hosts : HostSound(host'[g])
    BY <1>1, <2>2
  <2>4. host[h] \in HostStates /\ HostSound(host[h])
    BY <1>1
  <2> DEFINE q == [NotAsking EXCEPT !.host = h, !.launched = launched, !.now = wall]
             cached == host[h].keys
             at == host[h].at
  <2>5. /\ q \in AskerStates /\ q.now = wall /\ q.host = h /\ q.keys = NoKeys
    BY <1>1, NotAskingSound DEF AskerStates
  <2>6. cached \in [Vaults -> Secrets] /\ at \in Int /\ wall \in Int
        /\ \A p \in Vaults : GoneSince(cached[p], at)
    BY <1>1, <2>4, CredentialNumbers DEF HostStates, HostSound
  <2>7. CASE wall - at < OverrideTtl
    <3>1. PICK x \in Given(q, cached) : AskerTo(a, x)
      BY <2>1, <2>7
    <3> HIDE DEF q, cached, at
    <3>2. \A p \in Vaults : GoneWithin(cached[p], q.now)
      <4>1. \A n \in 0..WallBound : at <= n => q.now < n + OverrideTtl
        BY <2>5, <2>6, <2>7, CredentialNumbers
      <4>2. \A k \in Keys : gone[k] # Still => gone[k] \in 0..WallBound
        BY <1>1
      <4> QED BY <2>6, <4>1, <4>2 DEF GoneSince, GoneWithin
    <3>3. x \in AskerStates /\ AskerSound(x)
      BY <1>1, <2>5, <2>6, <3>2, GivenSound
    <3> QED BY <2>2, <2>3, <3>1, <3>3, AskerMoves
  <2>8. CASE ~(wall - at < OverrideTtl)
    <3> DEFINE x == [q EXCEPT !.pc = "list"]
    <3>1. AskerTo(a, x)
      BY <2>1, <2>8
    <3> HIDE DEF q
    <3>2. x \in AskerStates /\ x.now = wall /\ x.host = h /\ x.keys = NoKeys /\ x.pc = "list"
      BY <2>5 DEF AskerStates
    <3> HIDE DEF x
    <3>3. AskerSound(x)
      BY <1>1, <3>2, CredentialNumbers DEF AskerSound, GoneSince, Secrets
    <3> QED BY <2>2, <2>3, <3>1, <3>2, <3>3, AskerMoves
  <2> QED BY <2>7, <2>8
<1>15. ASSUME NEW a \in Askers, ListRows(a) PROVE CredentialInv'
  <2> DEFINE x == [asker[a] EXCEPT !.pc = "read", !.rows = {p \in Vaults : vault[p].key # None}]
  <2>1. /\ asker[a].pc = "list" /\ AskerTo(a, x) /\ UNCHANGED <<master, host, launch, vault, gone, wall>>
    BY <1>15 DEF ListRows, AskerAt
  <2>2. asker[a] \in AskerStates /\ AskerSound(asker[a])
    BY <1>1
  <2>3. /\ x \in AskerStates /\ x.now = asker[a].now /\ x.host = asker[a].host
        /\ x.keys = asker[a].keys /\ x.pc = "read"
    BY <2>2 DEF AskerStates
  <2> HIDE DEF x
  <2>4. AskerSound(x)
    BY <2>1, <2>2, <2>3 DEF AskerSound
  <2> QED BY <1>1, <2>1, <2>3, <2>4, AskerMoves
<1>16. ASSUME NEW a \in Askers, ReadRow(a) PROVE CredentialInv'
  <2>1. PICK p \in asker[a].rows :
          AskerTo(a, [asker[a] EXCEPT !.rows = @ \ {p}, !.keys[p] = vault[p].key])
    BY <1>16 DEF ReadRow
  <2>2. asker[a].pc = "read" /\ UNCHANGED <<master, host, launch, vault, gone, wall>>
    BY <1>16 DEF ReadRow, AskerAt
  <2>3. asker[a] \in AskerStates /\ AskerSound(asker[a])
    BY <1>1
  <2> DEFINE ks == [asker[a].keys EXCEPT ![p] = vault[p].key]
             x == [asker[a] EXCEPT !.rows = @ \ {p}, !.keys = ks]
  <2>4. AskerTo(a, x) /\ p \in Vaults
    BY <2>1, <2>3 DEF AskerStates
  <2>5. /\ vault[p].key \in Secrets /\ ks \in [Vaults -> Secrets \union {Subscription}]
        /\ \A r \in Vaults : ks[r] = IF r = p THEN vault[p].key ELSE asker[a].keys[r]
    BY <1>1, <2>3, <2>4 DEF AskerStates, VaultRows
  <2> HIDE DEF ks
  <2>6. /\ x \in AskerStates /\ x.now = asker[a].now /\ x.host = asker[a].host
        /\ x.keys = ks /\ x.pc = "read"
    BY <2>2, <2>3, <2>5 DEF AskerStates
  <2> HIDE DEF x
  <2>7. \A r \in Vaults : ks[r] \in Secrets /\ GoneSince(ks[r], x.now)
    <3>1. GoneSince(vault[p].key, x.now)
      BY <1>1, <2>4 DEF VaultSound, GoneSince
    <3> QED BY <2>2, <2>3, <2>5, <2>6, <3>1 DEF AskerSound
  <2>8. AskerSound(x)
    BY <2>2, <2>3, <2>6, <2>7 DEF AskerSound
  <2> QED BY <1>1, <2>2, <2>4, <2>6, <2>8, AskerMoves
<1>17. ASSUME NEW a \in Askers, FailResolve(a) PROVE CredentialInv'
  <2> DEFINE q == [asker[a] EXCEPT !.failed = TRUE]
             cached == host[asker[a].host].keys
  <2>1. PICK x \in Given(q, cached) : AskerTo(a, x)
    BY <1>17 DEF FailResolve
  <2>2. asker[a].pc \in {"list", "read"} /\ UNCHANGED <<master, host, launch, vault, gone, wall>>
    BY <1>17 DEF FailResolve
  <2>3. asker[a] \in AskerStates /\ AskerSound(asker[a])
    BY <1>1
  <2>4. q \in AskerStates /\ q.now = asker[a].now /\ q.failed /\ q.now <= wall
    BY <2>3 DEF AskerStates, AskerSound
  <2>5. cached \in [Vaults -> Secrets]
    <3>1. asker[a].host \in Hosts
      BY <2>2, <2>3 DEF AskerSound
    <3> QED BY <1>1, <3>1 DEF HostStates
  <2> HIDE DEF q, cached
  <2>6. x \in AskerStates /\ AskerSound(x)
    BY <2>4, <2>5, GivenSound
  <2> QED BY <1>1, <2>1, <2>2, <2>6, AskerMoves
<1>18. ASSUME NEW a \in Askers, StoreResolved(a) PROVE CredentialInv'
  <2> DEFINE q == asker[a]
             h == q.host
             y == [host[h] EXCEPT !.at = q.now, !.keys = q.keys]
  <2>1. PICK x \in Given(q, q.keys) : AskerTo(a, x)
    BY <1>18 DEF StoreResolved
  <2>2. q.pc = "read" /\ UNCHANGED <<master, launch, vault, gone, wall>>
    BY <1>18 DEF StoreResolved, AskerAt
  <2>3. q \in AskerStates /\ AskerSound(q) /\ wall \in 0..WallBound
    BY <1>1
  <2>4. h \in Hosts /\ q.keys \in [Vaults -> Secrets] /\ q.now <= wall /\ q.now \in 0..WallBound
        /\ \A p \in Vaults : GoneSince(q.keys[p], q.now)
    <3> HIDE DEF q
    <3>1. /\ q.host \in Hosts /\ q.now <= wall
          /\ \A p \in Vaults : q.keys[p] \in Secrets /\ GoneSince(q.keys[p], q.now)
      BY <2>2, <2>3 DEF AskerSound
    <3>2. q.keys \in [Vaults -> Secrets \union {Subscription}] /\ q.now \in 0..WallBound
      BY <2>3 DEF AskerStates
    <3> QED BY <3>1, <3>2
  <2>5. host' = [host EXCEPT ![h] = y]
    BY <1>1, <1>18, <2>4 DEF StoreResolved
  <2>6. y \in HostStates /\ y.at = q.now /\ y.keys = q.keys
    BY <1>1, <2>4 DEF HostStates
  <2> HIDE DEF y
  <2>7. HostSound(y)
    BY <2>4, <2>6 DEF HostSound
  <2>8. host' \in [Hosts -> HostStates] /\ \A g \in Hosts : HostSound(host'[g])
    BY <2>4, <2>5, <2>6, <2>7, HostMoves
  <2>9. \A p \in Vaults : GoneWithin(q.keys[p], q.now)
    <3> HIDE DEF q
    <3>1. \A n \in 0..WallBound : q.now <= n => q.now < n + OverrideTtl
      BY <2>4, CredentialNumbers
    <3>2. \A k \in Keys : gone[k] # Still => gone[k] \in 0..WallBound
      BY <1>1
    <3> QED BY <2>4, <3>1, <3>2 DEF GoneSince, GoneWithin
  <2>10. x \in AskerStates /\ AskerSound(x)
    <3> DEFINE cached == q.keys
    <3>1. cached \in [Vaults -> Secrets] /\ (\A p \in Vaults : GoneWithin(cached[p], q.now))
          /\ x \in Given(q, cached)
      BY <2>1, <2>4, <2>9
    <3>2. q.now <= wall
      BY <2>4
    <3> HIDE DEF q, cached
    <3> QED BY <2>3, <3>1, <3>2, GivenSound
  <2> QED BY <2>1, <2>2, <2>8, <2>10, AskerMoves
<1>19. ASSUME NEW a \in Askers, EndResolve(a) PROVE CredentialInv'
  <2>1. AskerTo(a, NotAsking) /\ UNCHANGED <<master, host, launch, vault, gone, wall>>
    BY <1>19 DEF EndResolve
  <2>2. NotAsking \in AskerStates /\ AskerSound(NotAsking)
    BY <1>1, NotAskingSound
  <2> QED BY <1>1, <2>1, <2>2, AskerMoves
<1>20. Busy \subseteq Hosts
  BY CredentialAssumption
<1> QED
  BY <1>3, <1>4, <1>6, <1>7, <1>8, <1>10, <1>11, <1>12, <1>13, <1>14, <1>15, <1>16, <1>17,
     <1>18, <1>19, <1>20 DEF CredentialNext

\* The invariant is as strong as what the runs check.
LEMMA CredentialPromises == CredentialInv => CredentialTypeOK /\ KeysAreCurrent
<1> SUFFICES ASSUME CredentialInv PROVE CredentialTypeOK /\ KeysAreCurrent
  OBVIOUS
<1>1. CredentialTypeOK
  BY DEF CredentialInv, CredentialTypeOK, HostStates, AskerStates, VaultRows, Secrets
<1>2. \A a \in Askers : asker[a].pc = "served" =>
        /\ asker[a].launched = (asker[a].keys["anthropic"] = Subscription)
        /\ \A p \in Vaults :
             asker[a].keys[p] \in Keys /\ ~asker[a].failed /\ gone[asker[a].keys[p]] # Still =>
               asker[a].now < gone[asker[a].keys[p]] + OverrideTtl
  BY DEF CredentialInv, AskerSound, GoneWithin
<1>3. \A h \in Hosts : \A p \in Vaults : host[h].keys[p] # Subscription
  BY CredentialNumbers DEF CredentialInv, HostStates
<1> QED BY <1>1, <1>2, <1>3 DEF KeysAreCurrent, AskerAt

(*****************************************************************************)
(* Schedules: a cycle of the probes begins no sooner than its interval.      *)
(*****************************************************************************)

\* Unless its plan was lost, a cycle that began is under way or has its plan an interval ahead.
Paced ==
  /\ prober.pc \in {"cycle", "plan"} => prober.began = pace.last
  /\ pace.last # Unplanned /\ ~pace.lost /\ prober.pc \notin {"cycle", "plan"} =>
       plan # Unplanned /\ plan >= pace.last + Interval

ScheduleInv ==
  /\ ScheduleTypeOK
  /\ hour \in 0..ScheduleClock
  /\ pace.last \in {Unplanned} \union 0..ScheduleClock
  /\ pace = [last |-> pace.last, lost |-> pace.lost]
  /\ beat = [pc |-> beat.pc, left |-> beat.left]
  /\ Paced

\* The invariant holds at the start.
LEMMA ScheduleInitially == ScheduleInit => ScheduleInv
BY ScheduleAssumption DEF ScheduleInit, ScheduleInv, ScheduleTypeOK, Paced, AtCheck, NewRound

\* The prober's own steps.
LEMMA ProberSteps ==
  ASSUME ScheduleInv, ProberChecks \/ ReadProbePlan \/ RunCycle \/ WriteProbePlan \/ ProberWakes
  PROVE  ScheduleInv'
<1>1. /\ plan \in {Unplanned} \union 0..(ScheduleClock + Interval)
      /\ prober \in [pc : {"check", "config", "cycle", "plan", "asleep"}, began : 0..ScheduleClock]
      /\ hour \in 0..ScheduleClock /\ Interval \in Nat /\ ScheduleClock \in Nat
  BY ScheduleAssumption DEF ScheduleInv, ScheduleTypeOK
<1>2. ASSUME NEW to \in {"check", "config", "plan", "asleep"}, ProberTo(to)
      PROVE  /\ prober' \in [pc : {"check", "config", "cycle", "plan", "asleep"},
                             began : 0..ScheduleClock]
             /\ prober'.pc = to /\ prober'.began = prober.began
  BY <1>1, <1>2 DEF ProberTo
<1>3. CASE ProberChecks
  BY <1>1, <1>2, <1>3 DEF ProberChecks, ScheduleInv, ScheduleTypeOK, Paced
<1>4. CASE ReadProbePlan
  <2>1. CASE gate.enabled /\ plan # Unplanned /\ hour >= plan
    <3>1. prober' = [pc |-> "cycle", began |-> hour] /\ pace' = [last |-> hour, lost |-> FALSE]
          /\ UNCHANGED <<plan, gate, beat, strip, hour, flips>>
      BY <1>4, <2>1 DEF ReadProbePlan
    <3>2. ScheduleTypeOK'
      BY <1>1, <3>1 DEF ScheduleInv, ScheduleTypeOK
    <3> QED BY <1>1, <3>1, <3>2 DEF ScheduleInv, Paced
  <2>2. CASE ~(gate.enabled /\ plan # Unplanned /\ hour >= plan)
    <3>1. /\ ProberTo("asleep") /\ UNCHANGED <<pace, gate, beat, strip, hour, flips>>
          /\ prober.pc = "config"
          /\ plan' = plan \/ (plan = Unplanned /\ plan' \in {Unplanned, hour + Interval})
      BY <1>4, <2>2 DEF ReadProbePlan
    <3>2. plan' \in {Unplanned} \union 0..(ScheduleClock + Interval)
      BY <1>1, <3>1
    <3>3. ScheduleTypeOK'
      BY <1>2, <3>1, <3>2 DEF ScheduleInv, ScheduleTypeOK
    <3> QED BY <1>2, <3>1, <3>3 DEF ScheduleInv, Paced
  <2> QED BY <2>1, <2>2
<1>5. CASE RunCycle
  BY <1>1, <1>2, <1>5 DEF RunCycle, CycleEnds, ScheduleInv, ScheduleTypeOK, Paced
<1>6. CASE WriteProbePlan
  <2>1. ProberTo("asleep") /\ prober.pc = "plan" /\ UNCHANGED <<gate, beat, strip, hour, flips>>
    BY <1>6 DEF WriteProbePlan
  <2>2. CASE plan' = prober.began + Interval /\ UNCHANGED pace
    <3>1. plan' \in 0..(ScheduleClock + Interval)
      BY <1>1, <2>2
    <3>2. ScheduleTypeOK'
      BY <1>2, <2>1, <3>1 DEF ScheduleInv, ScheduleTypeOK
    <3>3. prober.began = pace.last
      BY <2>1 DEF ScheduleInv, Paced
    <3> QED BY <1>1, <1>2, <2>1, <2>2, <3>1, <3>2, <3>3, ScheduleAssumption DEF ScheduleInv, Paced
  <2>3. CASE pace' = [pace EXCEPT !.lost = TRUE] /\ UNCHANGED plan
    <3>1. ScheduleTypeOK'
      BY <1>2, <2>1, <2>3 DEF ScheduleInv, ScheduleTypeOK
    <3>2. pace'.last = pace.last /\ pace'.lost = TRUE
          /\ pace' = [last |-> pace'.last, lost |-> pace'.lost]
      BY <2>3 DEF ScheduleInv
    <3> QED BY <1>2, <2>1, <3>1, <3>2 DEF ScheduleInv, Paced
  <2> QED BY <1>6, <2>2, <2>3 DEF WriteProbePlan
<1>7. CASE ProberWakes
  BY <1>1, <1>2, <1>7 DEF ProberWakes, ScheduleInv, ScheduleTypeOK, Paced
<1> QED BY <1>3, <1>4, <1>5, <1>6, <1>7

\* Every step keeps the invariant.
LEMMA ScheduleStep == ScheduleInv /\ [ScheduleNext]_scheduleVars => ScheduleInv'
<1> SUFFICES ASSUME ScheduleInv, [ScheduleNext]_scheduleVars PROVE ScheduleInv'
  OBVIOUS
<1>1. CASE UNCHANGED scheduleVars
  BY <1>1 DEF scheduleVars, ScheduleInv, ScheduleTypeOK, Paced
<1>2. CASE ProberChecks \/ ReadProbePlan \/ RunCycle \/ WriteProbePlan \/ ProberWakes
  BY <1>2, ProberSteps
<1>3. ASSUME NEW l \in Badges, Ping(l) PROVE ScheduleInv'
  <2>1. \A label, oauth, metered, code, reseller :
          PingSays(label, oauth, metered, code, reseller) \in {"ok", "degraded", "no-cred", "down"}
    <3>1. \A code : BadgeOf(code) \in {"ok", "degraded", "no-cred", "down"}
      BY DEF BadgeOf
    <3> QED BY <3>1 DEF PingSays
  <2>2. strip' \in [Badges -> {"none", "ok", "degraded", "no-cred", "down"}]
    <3>1. PICK oauth \in BOOLEAN, metered \in BOOLEAN, code \in Codes, reseller \in Codes :
            strip' = [strip EXCEPT ![l] = PingSays(l, oauth, metered, code, reseller)]
      BY <1>3 DEF Ping
    <3> DEFINE says == PingSays(l, oauth, metered, code, reseller)
    <3>2. says \in {"none", "ok", "degraded", "no-cred", "down"}
      BY <2>1
    <3> HIDE DEF says
    <3> QED BY <3>1, <3>2 DEF ScheduleInv, ScheduleTypeOK, says
  <2>3. beat'.pc \in {"check", "ping", "asleep"} /\ beat'.left \subseteq Badges
        /\ beat' = [pc |-> beat'.pc, left |-> beat'.left]
    BY <1>3 DEF Ping, ScheduleInv, ScheduleTypeOK
  <2>4. UNCHANGED <<gate, plan, prober, pace, hour, flips>>
    BY <1>3 DEF Ping
  <2> QED BY <2>2, <2>3, <2>4 DEF ScheduleInv, ScheduleTypeOK, Paced
<1>4. CASE BeatChecks
  <2>1. beat'.pc \in {"check", "ping", "asleep"} /\ beat'.left \subseteq Badges
        /\ beat' = [pc |-> beat'.pc, left |-> beat'.left]
        /\ UNCHANGED <<gate, plan, prober, pace, hour, flips>>
    BY <1>4 DEF BeatChecks, ScheduleInv, ScheduleTypeOK
  <2>2. strip' \in [Badges -> {"none", "ok", "degraded", "no-cred", "down"}]
    BY <1>4 DEF BeatChecks, ScheduleInv, ScheduleTypeOK
  <2> QED BY <2>1, <2>2 DEF ScheduleInv, ScheduleTypeOK, Paced
<1>5. CASE BeatWakes
  BY <1>5 DEF BeatWakes, NewRound, ScheduleInv, ScheduleTypeOK, Paced
<1>6. CASE Flip
  BY <1>6 DEF Flip, ScheduleInv, ScheduleTypeOK, Paced
<1>7. CASE RestartLoops
  <2>1. /\ prober' = AtCheck /\ beat' = NewRound /\ strip' = [l \in Badges |-> "none"]
        /\ UNCHANGED <<gate, plan, hour>>
        /\ pace'.last = pace.last
        /\ pace'.lost = (pace.lost \/ prober.pc \in {"cycle", "plan"})
        /\ pace' = [last |-> pace'.last, lost |-> pace'.lost]
    BY <1>7 DEF RestartLoops, ScheduleInv
  <2>2. ScheduleTypeOK'
    BY <2>1, ScheduleAssumption DEF ScheduleInv, ScheduleTypeOK, AtCheck, NewRound
  <2>3. pace.last # Unplanned /\ ~pace'.lost => plan # Unplanned /\ plan >= pace.last + Interval
    BY <2>1 DEF ScheduleInv, Paced
  <2>4. prober'.pc = "check" /\ beat' = [pc |-> "check", left |-> {}]
    BY <2>1 DEF AtCheck, NewRound
  <2> QED BY <2>1, <2>2, <2>3, <2>4 DEF ScheduleInv, Paced
<1>8. CASE HourPasses
  <2>1. hour' \in 0..ScheduleClock /\ UNCHANGED <<gate, plan, prober, beat, strip, pace, flips>>
    BY <1>8, ScheduleAssumption DEF HourPasses, ScheduleInv
  <2> QED BY <2>1 DEF ScheduleInv, ScheduleTypeOK, Paced
<1> QED BY <1>1, <1>2, <1>3, <1>4, <1>5, <1>6, <1>7, <1>8 DEF ScheduleNext

\* What begins a cycle.
LEMMA CyclesKeepInterval ==
  ASSUME ScheduleInv, ScheduleNext, pace'.last # pace.last, pace.last # Unplanned, ~pace.lost
  PROVE  pace'.last >= pace.last + Interval
<1>1. ReadProbePlan
  BY DEF ScheduleNext, ProberChecks, RunCycle, WriteProbePlan, ProberWakes, BeatChecks, BeatWakes,
         Ping, Flip, RestartLoops, HourPasses, ScheduleInv
<1>2. plan # Unplanned /\ hour >= plan /\ pace'.last = hour /\ prober.pc = "config"
  BY <1>1 DEF ReadProbePlan
<1>3. plan >= pace.last + Interval
  BY <1>2 DEF ScheduleInv, Paced
<1>4. plan \in Nat /\ hour \in Nat /\ pace.last \in Nat /\ Interval \in Nat
  BY <1>2, ScheduleAssumption DEF ScheduleInv, ScheduleTypeOK
<1> QED BY <1>2, <1>3, <1>4

(*****************************************************************************)
(* Catalogue: the scheduler fetches no list that is not stale.               *)
(*****************************************************************************)

\* One fetch at a time; the scheduler's is one the list still waits for.
CatalogueInv ==
  /\ CatalogueTypeOK
  /\ \A f, g \in Fetchers : fetchers[f] = "fetching" /\ fetchers[g] = "fetching" => f = g
  /\ moment \in 0..ListClock
  /\ fetchers[Scheduler] = "fetching" => ListStale

\* The invariant holds at the start.
LEMMA CatalogueInitially == CatalogueInit => CatalogueInv
BY CatalogueAssumption DEF CatalogueInit, CatalogueInv, CatalogueTypeOK, Fetchers

\* Every step keeps the invariant.
LEMMA CatalogueStep == CatalogueInv /\ [CatalogueNext]_catalogueVars => CatalogueInv'
<1> SUFFICES ASSUME CatalogueInv, [CatalogueNext]_catalogueVars PROVE CatalogueInv'
  OBVIOUS
<1>1. CASE UNCHANGED catalogueVars
  BY <1>1 DEF catalogueVars, CatalogueInv, CatalogueTypeOK, ListStale
<1>2. fetchers \in [Fetchers -> {"idle", "waiting", "fetching"}] /\ Scheduler \in Fetchers
  BY DEF CatalogueInv, CatalogueTypeOK, Fetchers
<1>3. ASSUME NEW f \in Fetchers, AskRefresh(f) PROVE CatalogueInv'
  BY <1>2, <1>3 DEF AskRefresh, FetcherTo, CatalogueInv, CatalogueTypeOK, ListStale
<1>4. ASSUME NEW f \in Fetchers, TakeListLock(f) PROVE CatalogueInv'
  <2>1. CASE Wanted(f)
    BY <1>2, <1>4, <2>1 DEF TakeListLock, Wanted, LockFree, FetcherTo, CatalogueInv, CatalogueTypeOK,
                       ListStale
  <2>2. CASE ~Wanted(f)
    BY <1>2, <1>4, <2>2 DEF TakeListLock, Wanted, LockFree, FetcherTo, CatalogueInv, CatalogueTypeOK,
                       ListStale
  <2> QED BY <2>1, <2>2
<1>5. ASSUME NEW f \in Fetchers, Refetch(f) PROVE CatalogueInv'
  <2>1. fetchers' = [fetchers EXCEPT ![f] = "idle"] /\ UNCHANGED <<airgapped, moment>>
    BY <1>5 DEF Refetch, FetcherTo
  <2>2. list'.at = moment /\ list'.offers \subseteq Providing
    BY <1>5 DEF Refetch
  <2>3. fetchers'[Scheduler] # "fetching"
    BY <1>2, <1>5, <2>1 DEF Refetch, CatalogueInv
  <2> QED BY <1>2, <2>1, <2>2, <2>3 DEF CatalogueInv, CatalogueTypeOK
<1>6. CASE ListAges
  <2>1. moment' \in 0..ListClock /\ moment' = moment + 1
        /\ UNCHANGED <<fetchers, airgapped, list, fetched>>
    BY <1>6, CatalogueAssumption DEF ListAges, CatalogueInv
  <2>2. ListStale => ListStale'
    BY <2>1, CatalogueAssumption DEF ListStale, CatalogueInv, CatalogueTypeOK
  <2> QED BY <2>1, <2>2 DEF CatalogueInv, CatalogueTypeOK
<1> QED BY <1>1, <1>3, <1>4, <1>5, <1>6 DEF CatalogueNext

\* Whoever fetches while the scheduler holds the lock is the scheduler.
LEMMA FetchesKeepTtl ==
  ASSUME CatalogueInv PROVE fetchers[Scheduler] = "fetching" => ListStale
BY DEF CatalogueInv

(*****************************************************************************)
(* EvidenceBundle: the bundle of a receipt verifies, and what verifies is in *)
(* the batch of its checkpoint.  The recursive functions over a tree are     *)
(* followed level by level, with the induction that the library leaves out.  *)
(*****************************************************************************)

\* The recursive functions of the model, step by step: what each is at n from
\* what it is at n - 1, and that a function follows those steps.
LevelAt(r, L, n) == IF n = 0 THEN [k \in 1..Len(r) |-> Leaf(r[k])] ELSE NextLevel(L[n - 1])
AreLevels(r, N, L) == L = [n \in 0..N |-> LevelAt(r, L, n)]

IndexAt(index, a, n) == IF n = 0 THEN index ELSE a[n - 1] \div 2
AreIndexes(index, N, a) == a = [n \in 0..N |-> IndexAt(index, a, n)]

PathAt(L, a, p, n) == IF n = 0 THEN <<>> ELSE p[n - 1] \o Sibling(L[n - 1], a[n - 1])
ArePaths(L, a, N, p) == p = [n \in 0..N |-> PathAt(L, a, p, n)]

HashAt(receipt, path, c, n) ==
  IF n = 0 THEN Leaf(receipt)
  ELSE IF path[n].side = "left" THEN Parent(path[n].hash, c[n - 1])
  ELSE Parent(c[n - 1], path[n].hash)
AreHashes(receipt, path, N, c) == c = [n \in 0..N |-> HashAt(receipt, path, c, n)]

\* Such functions exist: the one up to a number extends to the next number.
LEMMA LevelsExist == ASSUME NEW r, NEW N \in Nat PROVE \E L : AreLevels(r, N, L)
<1> DEFINE M == {n \in Nat : \E L : AreLevels(r, n, L)}
<1>1. 0 \in M
  <2> DEFINE Z == [n \in 0..0 |-> [k \in 1..Len(r) |-> Leaf(r[k])]]
  <2>1. AreLevels(r, 0, Z)
    BY DEF AreLevels, LevelAt
  <2> QED BY <2>1
<1>2. ASSUME NEW n \in M PROVE n + 1 \in M
  <2>1. PICK L : AreLevels(r, n, L)
    OBVIOUS
  <2> DEFINE H == [m \in 0..(n + 1) |-> IF m <= n THEN L[m] ELSE NextLevel(L[n])]
  <2>2. \A m \in 0..n : L[m] = LevelAt(r, L, m)
    BY <2>1 DEF AreLevels
  <2>3. n \in Nat /\ H = [m \in 0..(n + 1) |-> H[m]]
    OBVIOUS
  <2>4. \A m \in 0..n : H[m] = L[m]
    BY <2>3
  <2>5. H[n + 1] = NextLevel(L[n])
    BY <2>3
  <2> HIDE DEF H, M
  <2>6. \A m \in 0..(n + 1) : H[m] = LevelAt(r, H, m)
    <3> TAKE m \in 0..(n + 1)
    <3>1. CASE m = 0
      <4>1. m \in 0..n
        BY <2>3, <3>1
      <4> QED BY <2>2, <2>4, <3>1, <4>1 DEF LevelAt
    <3>2. CASE m # 0 /\ m <= n
      <4>1. m - 1 \in 0..n /\ m \in 0..n
        BY <2>3, <3>2
      <4> QED BY <2>2, <2>4, <3>2, <4>1 DEF LevelAt
    <3>3. CASE m = n + 1
      <4>1. m - 1 = n /\ n \in 0..n /\ m # 0
        BY <2>3, <3>3
      <4> QED BY <2>4, <2>5, <3>3, <4>1 DEF LevelAt
    <3> QED BY <2>3, <3>1, <3>2, <3>3
  <2>7. AreLevels(r, n + 1, H)
    BY <2>3, <2>6 DEF AreLevels
  <2> QED BY <2>3, <2>7 DEF M
<1>3. M \in SUBSET Nat
  OBVIOUS
<1> HIDE DEF M
<1>4. M = Nat
  BY <1>1, <1>2, <1>3, Induction
<1> QED BY <1>4 DEF M

\* Likewise the places on the way up from an index.
LEMMA IndexesExist == ASSUME NEW index, NEW N \in Nat PROVE \E a : AreIndexes(index, N, a)
<1> DEFINE M == {n \in Nat : \E a : AreIndexes(index, n, a)}
<1>1. 0 \in M
  <2> DEFINE Z == [n \in 0..0 |-> index]
  <2>1. AreIndexes(index, 0, Z)
    BY DEF AreIndexes, IndexAt
  <2> QED BY <2>1
<1>2. ASSUME NEW n \in M PROVE n + 1 \in M
  <2>1. PICK a : AreIndexes(index, n, a)
    OBVIOUS
  <2> DEFINE H == [m \in 0..(n + 1) |-> IF m <= n THEN a[m] ELSE a[n] \div 2]
  <2>2. \A m \in 0..n : a[m] = IndexAt(index, a, m)
    BY <2>1 DEF AreIndexes
  <2>3. n \in Nat /\ H = [m \in 0..(n + 1) |-> H[m]]
    OBVIOUS
  <2>4. \A m \in 0..n : H[m] = a[m]
    BY <2>3
  <2>5. H[n + 1] = a[n] \div 2
    BY <2>3
  <2> HIDE DEF H, M
  <2>6. \A m \in 0..(n + 1) : H[m] = IndexAt(index, H, m)
    <3> TAKE m \in 0..(n + 1)
    <3>1. CASE m = 0
      <4>1. m \in 0..n
        BY <2>3, <3>1
      <4> QED BY <2>2, <2>4, <3>1, <4>1 DEF IndexAt
    <3>2. CASE m # 0 /\ m <= n
      <4>1. m - 1 \in 0..n /\ m \in 0..n
        BY <2>3, <3>2
      <4> QED BY <2>2, <2>4, <3>2, <4>1 DEF IndexAt
    <3>3. CASE m = n + 1
      <4>1. m - 1 = n /\ n \in 0..n /\ m # 0
        BY <2>3, <3>3
      <4> QED BY <2>4, <2>5, <3>3, <4>1 DEF IndexAt
    <3> QED BY <2>3, <3>1, <3>2, <3>3
  <2>7. AreIndexes(index, n + 1, H)
    BY <2>3, <2>6 DEF AreIndexes
  <2> QED BY <2>3, <2>7 DEF M
<1>3. M \in SUBSET Nat
  OBVIOUS
<1> HIDE DEF M
<1>4. M = Nat
  BY <1>1, <1>2, <1>3, Induction
<1> QED BY <1>4 DEF M

\* Likewise the proof collected on the way.
LEMMA PathsExist == ASSUME NEW L, NEW a, NEW N \in Nat PROVE \E p : ArePaths(L, a, N, p)
<1> DEFINE M == {n \in Nat : \E p : ArePaths(L, a, n, p)}
<1>1. 0 \in M
  <2> DEFINE Z == [n \in 0..0 |-> <<>>]
  <2>1. ArePaths(L, a, 0, Z)
    BY DEF ArePaths, PathAt
  <2> QED BY <2>1
<1>2. ASSUME NEW n \in M PROVE n + 1 \in M
  <2>1. PICK p : ArePaths(L, a, n, p)
    OBVIOUS
  <2> DEFINE H == [m \in 0..(n + 1) |-> IF m <= n THEN p[m] ELSE p[n] \o Sibling(L[n], a[n])]
  <2>2. \A m \in 0..n : p[m] = PathAt(L, a, p, m)
    BY <2>1 DEF ArePaths
  <2>3. n \in Nat /\ H = [m \in 0..(n + 1) |-> H[m]]
    OBVIOUS
  <2>4. \A m \in 0..n : H[m] = p[m]
    BY <2>3
  <2>5. H[n + 1] = p[n] \o Sibling(L[n], a[n])
    BY <2>3
  <2> HIDE DEF H, M
  <2>6. \A m \in 0..(n + 1) : H[m] = PathAt(L, a, H, m)
    <3> TAKE m \in 0..(n + 1)
    <3>1. CASE m = 0
      <4>1. m \in 0..n
        BY <2>3, <3>1
      <4> QED BY <2>2, <2>4, <3>1, <4>1 DEF PathAt
    <3>2. CASE m # 0 /\ m <= n
      <4>1. m - 1 \in 0..n /\ m \in 0..n
        BY <2>3, <3>2
      <4> QED BY <2>2, <2>4, <3>2, <4>1 DEF PathAt
    <3>3. CASE m = n + 1
      <4>1. m - 1 = n /\ n \in 0..n /\ m # 0
        BY <2>3, <3>3
      <4> QED BY <2>4, <2>5, <3>3, <4>1 DEF PathAt
    <3> QED BY <2>3, <3>1, <3>2, <3>3
  <2>7. ArePaths(L, a, n + 1, H)
    BY <2>3, <2>6 DEF ArePaths
  <2> QED BY <2>3, <2>7 DEF M
<1>3. M \in SUBSET Nat
  OBVIOUS
<1> HIDE DEF M
<1>4. M = Nat
  BY <1>1, <1>2, <1>3, Induction
<1> QED BY <1>4 DEF M

\* Likewise the hashes on the way up from a receipt.
LEMMA HashesExist == ASSUME NEW receipt, NEW path, NEW N \in Nat PROVE \E c : AreHashes(receipt, path, N, c)
<1> DEFINE M == {n \in Nat : \E c : AreHashes(receipt, path, n, c)}
<1>1. 0 \in M
  <2> DEFINE Z == [n \in 0..0 |-> Leaf(receipt)]
  <2>1. AreHashes(receipt, path, 0, Z)
    BY DEF AreHashes, HashAt
  <2> QED BY <2>1
<1>2. ASSUME NEW n \in M PROVE n + 1 \in M
  <2>1. PICK c : AreHashes(receipt, path, n, c)
    OBVIOUS
  <2> DEFINE H == [m \in 0..(n + 1) |-> IF m <= n THEN c[m] ELSE (IF path[n + 1].side = "left" THEN Parent(path[n + 1].hash, c[n]) ELSE Parent(c[n], path[n + 1].hash))]
  <2>2. \A m \in 0..n : c[m] = HashAt(receipt, path, c, m)
    BY <2>1 DEF AreHashes
  <2>3. n \in Nat /\ H = [m \in 0..(n + 1) |-> H[m]]
    OBVIOUS
  <2>4. \A m \in 0..n : H[m] = c[m]
    BY <2>3
  <2>5. H[n + 1] = (IF path[n + 1].side = "left" THEN Parent(path[n + 1].hash, c[n]) ELSE Parent(c[n], path[n + 1].hash))
    BY <2>3
  <2> HIDE DEF H, M
  <2>6. \A m \in 0..(n + 1) : H[m] = HashAt(receipt, path, H, m)
    <3> TAKE m \in 0..(n + 1)
    <3>1. CASE m = 0
      <4>1. m \in 0..n
        BY <2>3, <3>1
      <4> QED BY <2>2, <2>4, <3>1, <4>1 DEF HashAt
    <3>2. CASE m # 0 /\ m <= n
      <4>1. m - 1 \in 0..n /\ m \in 0..n
        BY <2>3, <3>2
      <4> QED BY <2>2, <2>4, <3>2, <4>1 DEF HashAt
    <3>3. CASE m = n + 1
      <4>1. m - 1 = n /\ n \in 0..n /\ m # 0
        BY <2>3, <3>3
      <4> QED BY <2>4, <2>5, <3>3, <4>1 DEF HashAt
    <3> QED BY <2>3, <3>1, <3>2, <3>3
  <2>7. AreHashes(receipt, path, n + 1, H)
    BY <2>3, <2>6 DEF AreHashes
  <2> QED BY <2>3, <2>7 DEF M
<1>3. M \in SUBSET Nat
  OBVIOUS
<1> HIDE DEF M
<1>4. M = Nat
  BY <1>1, <1>2, <1>3, Induction
<1> QED BY <1>4 DEF M


\* The model's levels are such a function.
LEMMA LevelsAre ==
  ASSUME NEW r, Len(r) \in Nat
  PROVE  \A n \in 0..Len(r) : Levels(r)[n] = LevelAt(r, Levels(r), n)
<1>1. Levels(r) = CHOOSE L : AreLevels(r, Len(r), L)
  BY DEF Levels, AreLevels, LevelAt
<1>2. AreLevels(r, Len(r), Levels(r))
  BY <1>1, LevelsExist
<1> QED BY <1>2 DEF AreLevels

\* The model's proof is collected by such functions.
LEMMA ProofIs ==
  ASSUME NEW r, Len(r) \in Nat, NEW index
  PROVE  \E a, p : /\ \A n \in 0..Len(r) : a[n] = IndexAt(index, a, n)
                   /\ \A n \in 0..Len(r) : p[n] = PathAt(Levels(r), a, p, n)
                   /\ MerkleProof(r, index) = p[Len(r)]
<1> DEFINE a == CHOOSE a : AreIndexes(index, Len(r), a)
           p == CHOOSE p : ArePaths(Levels(r), a, Len(r), p)
<1>1. MerkleProof(r, index) = p[Len(r)]
  BY DEF MerkleProof, AreIndexes, ArePaths, IndexAt, PathAt
<1>2. AreIndexes(index, Len(r), a)
  BY IndexesExist
<1> HIDE DEF a
<1>3. ArePaths(Levels(r), a, Len(r), p)
  BY PathsExist
<1> HIDE DEF p
<1>4. \A n \in 0..Len(r) : a[n] = IndexAt(index, a, n)
  BY <1>2 DEF AreIndexes
<1>5. \A n \in 0..Len(r) : p[n] = PathAt(Levels(r), a, p, n)
  BY <1>3 DEF ArePaths
<1> QED BY <1>1, <1>4, <1>5

\* The model's root is reached by such a function.
LEMMA RootIs ==
  ASSUME NEW receipt, NEW path, Len(path) \in Nat
  PROVE  \E c : /\ \A n \in 0..Len(path) : c[n] = HashAt(receipt, path, c, n)
                /\ ProofRoot(receipt, path) = c[Len(path)]
<1> DEFINE c == CHOOSE c : AreHashes(receipt, path, Len(path), c)
<1>1. ProofRoot(receipt, path) = c[Len(path)]
  BY DEF ProofRoot, AreHashes, HashAt
<1>2. AreHashes(receipt, path, Len(path), c)
  BY HashesExist
<1> HIDE DEF c
<1>3. \A n \in 0..Len(path) : c[n] = HashAt(receipt, path, c, n)
  BY <1>2 DEF AreHashes
<1> QED BY <1>1, <1>3

\* Induction up to a number.
LEMMA ReachesAll ==
  ASSUME NEW N \in Nat, NEW S, 0 \in S, \A n \in 0..(N - 1) : n \in S => n + 1 \in S
  PROVE  \A n \in 0..N : n \in S
<1> DEFINE M == {n \in Nat : n \in S \/ n > N}
<1>1. 0 \in M
  OBVIOUS
<1>2. ASSUME NEW n \in M PROVE n + 1 \in M
  OBVIOUS
<1>3. M \in SUBSET Nat
  OBVIOUS
<1>4. M = Nat
  <2> HIDE DEF M
  <2> QED BY <1>1, <1>2, <1>3, Induction
<1>5. \A n \in Nat : n \in S \/ n > N
  BY <1>4
<1> QED BY <1>5

\* Halving, rounded up, keeps the order and ends at 1.
LEMMA Halves ==
  ASSUME NEW l \in Nat \ {0}
  PROVE  /\ (l + 1) \div 2 \in Nat \ {0}
         /\ (l + 1) \div 2 = 1 \/ (l + 1) \div 2 + 1 <= l
<1> DEFINE m == (l + 1) \div 2
<1>1. m \in Int /\ 2 * m <= l + 1 /\ l + 1 < 2 * m + 2
  OBVIOUS
<1> HIDE DEF m
<1>2. m \in Nat \ {0} /\ (m = 1 \/ m + 1 <= l)
  BY <1>1
<1> QED BY <1>2 DEF m

\* An index below a length halves to one below its half.
LEMMA HalvesBelow ==
  ASSUME NEW l \in Nat, NEW i \in Nat, i < l
  PROVE  i \div 2 \in Nat /\ i \div 2 < (l + 1) \div 2
<1> DEFINE m == (l + 1) \div 2
           j == i \div 2
<1>1. m \in Int /\ 2 * m <= l + 1 /\ l + 1 < 2 * m + 2
  OBVIOUS
<1>2. j \in Int /\ 2 * j <= i /\ i < 2 * j + 2
  OBVIOUS
<1> HIDE DEF m, j
<1>3. j \in Nat /\ j < m
  BY <1>1, <1>2
<1> QED BY <1>3 DEF m, j

\* L are the levels of the tree over the receipts r, N of them.
IsTree(r, L, N) ==
  /\ N \in Nat \ {0}
  /\ N = Len(r)
  /\ \A n \in 0..N : L[n] = LevelAt(r, L, n)

\* The levels that the model computes are a tree.
LEMMA LevelsAreTree == ASSUME NEW r, Len(r) \in Nat \ {0} PROVE IsTree(r, Levels(r), Len(r))
BY LevelsAre DEF IsTree

\* Levels shrink by half, down to one node.
Shrinks(r, L, N) ==
  /\ \A n \in 0..N : Len(L[n]) \in Nat \ {0}
  /\ \A n \in 0..(N - 1) : Len(L[n + 1]) = (Len(L[n]) + 1) \div 2
  /\ \A n \in 0..(N - 1) : L[n + 1] = NextLevel(L[n])
  /\ L[0] = [k \in 1..N |-> Leaf(r[k])]
  /\ Len(L[0]) = N
  /\ Len(L[N]) = 1

\* A level has half the nodes of the one below, each promoted or a parent.
LEMMA NextLevelIs ==
  ASSUME NEW level, Len(level) \in Nat
  PROVE  /\ Len(NextLevel(level)) = (Len(level) + 1) \div 2
         /\ \A k \in 1..((Len(level) + 1) \div 2) :
              NextLevel(level)[k] = IF 2 * k > Len(level) THEN level[2 * k - 1]
                                    ELSE Parent(level[2 * k - 1], level[2 * k])
<1>1. (Len(level) + 1) \div 2 \in Nat
  OBVIOUS
<1> QED BY <1>1 DEF NextLevel

\* Every tree shrinks so.
LEMMA LevelsShrink ==
  ASSUME NEW r, NEW L, NEW N, IsTree(r, L, N)
  PROVE  Shrinks(r, L, N)
<1> DEFINE Fine(n) == Len(L[n]) \in Nat \ {0} /\ (Len(L[n]) = 1 \/ Len(L[n]) + n <= N)
           S == {n \in 0..N : Fine(n)}
<1>0. N \in Nat \ {0}
  BY DEF IsTree
<1>1. L[0] = [k \in 1..N |-> Leaf(r[k])]
  BY DEF IsTree, LevelAt
<1>2. Len(L[0]) = N
  BY <1>0, <1>1
<1>3. ASSUME NEW n \in 0..(N - 1) PROVE L[n + 1] = NextLevel(L[n])
  <2>1. n + 1 \in 0..N /\ n + 1 # 0 /\ (n + 1) - 1 = n
    BY <1>0
  <2> QED BY <2>1 DEF IsTree, LevelAt
<1>4. 0 \in S
  BY <1>0, <1>2
<1>5. ASSUME NEW n \in 0..(N - 1), n \in S PROVE n + 1 \in S
  <2>1. Fine(n)
    BY <1>5
  <2>2. Len(L[n + 1]) = (Len(L[n]) + 1) \div 2
    BY <1>3, <2>1, NextLevelIs
  <2>3. n + 1 \in 0..N
    BY <1>0
  <2>4. Len(L[n + 1]) \in Nat \ {0} /\ (Len(L[n + 1]) = 1 \/ Len(L[n + 1]) + 1 <= Len(L[n]))
    BY <2>1, <2>2, Halves
  <2>5. Len(L[n]) \in Nat /\ (Len(L[n]) = 1 \/ Len(L[n]) + n <= N)
    BY <2>1
  <2> DEFINE l == Len(L[n])
             m == Len(L[n + 1])
  <2> HIDE DEF l, m
  <2>6. m \in Nat \ {0} /\ l \in Nat /\ (m = 1 \/ m + 1 <= l) /\ (l = 1 \/ l + n <= N)
    BY <2>4, <2>5 DEF l, m
  <2>7. m = 1 \/ m + (n + 1) <= N
    BY <1>0, <2>6
  <2> QED BY <2>3, <2>6, <2>7 DEF m
<1>6. \A n \in 0..N : n \in S
  <2> HIDE DEF S
  <2> QED BY <1>0, <1>4, <1>5, ReachesAll
<1>7. \A n \in 0..N : Fine(n)
  BY <1>6
<1>8. Len(L[N]) = 1
  BY <1>0, <1>7
<1>9. \A n \in 0..N : Len(L[n]) \in Nat \ {0}
  BY <1>7
<1>10. \A n \in 0..(N - 1) : Len(L[n + 1]) = (Len(L[n]) + 1) \div 2
  <2> TAKE n \in 0..(N - 1)
  <2>1. n \in 0..N
    BY <1>0
  <2>2. Len(L[n]) \in Nat
    BY <1>9, <2>1
  <2> QED BY <1>3, <2>2, NextLevelIs
<1> QED BY <1>1, <1>2, <1>3, <1>8, <1>9, <1>10 DEF Shrinks

\* A node of a next level is promoted or the parent of two.
LEMMA NodeAbove ==
  ASSUME NEW r, NEW L, NEW N, IsTree(r, L, N), NEW n \in 0..(N - 1), NEW k \in 1..Len(L[n + 1])
  PROVE  L[n + 1][k] = IF 2 * k > Len(L[n]) THEN L[n][2 * k - 1]
                       ELSE Parent(L[n][2 * k - 1], L[n][2 * k])
<1>1. N \in Nat
  BY DEF IsTree
<1>2. /\ \A b \in 0..N : Len(L[b]) \in Nat \ {0}
      /\ \A b \in 0..(N - 1) : Len(L[b + 1]) = (Len(L[b]) + 1) \div 2
      /\ \A b \in 0..(N - 1) : L[b + 1] = NextLevel(L[b])
      /\ Len(L[0]) = N
      /\ Len(L[N]) = 1
  <2> Shrinks(r, L, N)
    BY LevelsShrink
  <2> QED BY DEF Shrinks
<1>3. n \in 0..N
  BY <1>1
<1>4. Len(L[n]) \in Nat /\ Len(L[n + 1]) = (Len(L[n]) + 1) \div 2 /\ L[n + 1] = NextLevel(L[n])
  BY <1>2, <1>3
<1> QED BY <1>4, NextLevelIs

\* a is the way up from an index, p the proof collected on it.
IsAscent(L, N, index, a, p) ==
  /\ \A n \in 0..N : a[n] = IndexAt(index, a, n)
  /\ \A n \in 0..N : p[n] = PathAt(L, a, p, n)

\* The way stays inside the levels and ends at the root.
Stays(L, N, index, a) ==
  /\ \A n \in 0..N : a[n] \in Nat /\ a[n] < Len(L[n])
  /\ \A n \in 0..(N - 1) : a[n + 1] = a[n] \div 2
  /\ a[0] = index
  /\ a[N] = 0

\* Every way up stays so.
LEMMA AscentStays ==
  ASSUME NEW r, NEW L, NEW N, IsTree(r, L, N), NEW index \in 0..(N - 1),
         NEW a, NEW p, IsAscent(L, N, index, a, p)
  PROVE  Stays(L, N, index, a)
<1> DEFINE S == {n \in 0..N : a[n] \in Nat /\ a[n] < Len(L[n])}
<1>0. N \in Nat \ {0}
  BY DEF IsTree
<1>01. /\ \A b \in 0..N : Len(L[b]) \in Nat \ {0}
       /\ \A b \in 0..(N - 1) : Len(L[b + 1]) = (Len(L[b]) + 1) \div 2
       /\ \A b \in 0..(N - 1) : L[b + 1] = NextLevel(L[b])
       /\ Len(L[0]) = N
       /\ Len(L[N]) = 1
  <2> Shrinks(r, L, N)
    BY LevelsShrink
  <2> QED BY DEF Shrinks
<1>1. a[0] = index
  BY <1>0 DEF IsAscent, IndexAt
<1>2. ASSUME NEW n \in 0..(N - 1) PROVE a[n + 1] = a[n] \div 2
  <2>1. n + 1 \in 0..N /\ n + 1 # 0 /\ (n + 1) - 1 = n
    BY <1>0
  <2> QED BY <2>1 DEF IsAscent, IndexAt
<1>3. 0 \in S
  <2>0. Len(L[0]) = N
    BY <1>01
  <2>1. a[0] \in Nat /\ a[0] < Len(L[0])
    BY <1>0, <1>1, <2>0
  <2> QED BY <1>0, <2>1
<1>4. ASSUME NEW n \in 0..(N - 1), n \in S PROVE n + 1 \in S
  <2>1. a[n] \in Nat /\ a[n] < Len(L[n])
    BY <1>4
  <2>2. n \in 0..N /\ n + 1 \in 0..N
    BY <1>0
  <2>3. Len(L[n]) \in Nat /\ Len(L[n + 1]) = (Len(L[n]) + 1) \div 2
    BY <1>01, <2>2
  <2>4. a[n + 1] = a[n] \div 2
    BY <1>2
  <2>5. a[n + 1] \in Nat /\ a[n + 1] < Len(L[n + 1])
    BY <2>1, <2>3, <2>4, HalvesBelow
  <2> QED BY <2>2, <2>5
<1>5. \A n \in 0..N : n \in S
  <2> HIDE DEF S
  <2> QED BY <1>0, <1>3, <1>4, ReachesAll
<1>6. \A n \in 0..N : a[n] \in Nat /\ a[n] < Len(L[n])
  BY <1>5
<1>7. a[N] = 0
  <2>1. N \in 0..N
    BY <1>0
  <2>2. a[N] \in Nat /\ a[N] < Len(L[N])
    BY <1>6, <2>1
  <2>3. Len(L[N]) = 1
    BY <1>01
  <2> QED BY <2>2, <2>3
<1> QED BY <1>1, <1>2, <1>6, <1>7 DEF Stays

\* The nodes of the levels.
Nodes(L, N) == UNION {{L[n][k] : k \in 1..Len(L[n])} : n \in 0..N}
Entries(L, N) == [side : {"left", "right"}, hash : Nodes(L, N)]

\* What a level adds to a proof is a sequence of its nodes.
LEMMA SiblingIs ==
  ASSUME NEW r, NEW L, NEW N, IsTree(r, L, N), NEW n \in 0..N,
         NEW i \in Nat, i < Len(L[n])
  PROVE  Sibling(L[n], i) \in Seq(Entries(L, N))
<1> DEFINE sibling == IF i % 2 = 1 THEN i - 1 ELSE i + 1
           entry == [side |-> IF sibling < i THEN "left" ELSE "right", hash |-> L[n][sibling + 1]]
<1>1. Sibling(L[n], i) = IF sibling < Len(L[n]) THEN <<entry>> ELSE <<>>
  BY DEF Sibling
<1>2. ASSUME sibling < Len(L[n]) PROVE entry \in Entries(L, N)
  <2>1. Len(L[n]) \in Nat
    BY LevelsShrink
  <2>2. sibling + 1 \in 1..Len(L[n])
    BY <1>2, <2>1
  <2>3. L[n][sibling + 1] \in Nodes(L, N)
    BY <2>2 DEF Nodes
  <2> QED BY <2>3 DEF Entries
<1> HIDE DEF sibling, entry
<1> QED BY <1>1, <1>2

\* It collects a sequence of siblings.
Collects(L, N, a, p) ==
  /\ \A n \in 0..N : p[n] \in Seq(Entries(L, N))
  /\ \A n \in 0..(N - 1) : p[n + 1] = p[n] \o Sibling(L[n], a[n])
  /\ \A n \in 0..N : Sibling(L[n], a[n]) \in Seq(Entries(L, N))
  /\ p[0] = <<>>

\* Every way up collects so.
LEMMA AscentCollects ==
  ASSUME NEW r, NEW L, NEW N, IsTree(r, L, N), NEW index \in 0..(N - 1),
         NEW a, NEW p, IsAscent(L, N, index, a, p)
  PROVE  Collects(L, N, a, p)
<1> DEFINE S == {n \in 0..N : p[n] \in Seq(Entries(L, N))}
<1>0. N \in Nat \ {0}
  BY DEF IsTree
<1>1. p[0] = <<>>
  BY <1>0 DEF IsAscent, PathAt
<1>2. ASSUME NEW n \in 0..(N - 1) PROVE p[n + 1] = p[n] \o Sibling(L[n], a[n])
  <2>1. n + 1 \in 0..N /\ n + 1 # 0 /\ (n + 1) - 1 = n
    BY <1>0
  <2> QED BY <2>1 DEF IsAscent, PathAt
<1>3. \A n \in 0..N : Sibling(L[n], a[n]) \in Seq(Entries(L, N))
  <2>1. \A n \in 0..N : a[n] \in Nat /\ a[n] < Len(L[n])
    BY AscentStays DEF Stays
  <2> QED BY <2>1, SiblingIs
<1>4. 0 \in S
  <2>1. p[0] \in Seq(Entries(L, N))
    BY <1>1, EmptySeq
  <2>2. 0 \in 0..N
    BY <1>0
  <2> QED BY <2>1, <2>2
<1>5. ASSUME NEW n \in 0..(N - 1), n \in S PROVE n + 1 \in S
  <2>1. n \in 0..N /\ n + 1 \in 0..N
    BY <1>0
  <2>2. p[n] \in Seq(Entries(L, N)) /\ Sibling(L[n], a[n]) \in Seq(Entries(L, N))
    BY <1>3, <1>5, <2>1
  <2>3. p[n + 1] \in Seq(Entries(L, N))
    BY <1>2, <2>2, ConcatProperties
  <2> QED BY <2>1, <2>3
<1>6. \A n \in 0..N : n \in S
  <2> HIDE DEF S
  <2> QED BY <1>0, <1>4, <1>5, ReachesAll
<1> QED BY <1>1, <1>2, <1>3, <1>6 DEF Collects

\* What a proof has after n levels, the whole proof begins with.
Grows(N, U, p, s) ==
  /\ \A n \in 0..N : p[n] \in Seq(U) /\ s[n] \in Seq(U)
  /\ \A n \in 0..(N - 1) : p[n + 1] = p[n] \o s[n]
Begins(p, b, n) == Len(p[b]) <= Len(p[n]) /\ \A x \in 1..Len(p[b]) : p[n][x] = p[b][x]

\* What has been collected stays the beginning.
LEMMA AscentKeeps ==
  ASSUME NEW N \in Nat, NEW U, NEW p, NEW s, Grows(N, U, p, s), NEW b \in 0..N
  PROVE  \A n \in b..N : Begins(p, b, n)
<1>01. \A n \in 0..N : p[n] \in Seq(U) /\ s[n] \in Seq(U)
  BY DEF Grows
<1>02. \A n \in 0..(N - 1) : p[n + 1] = p[n] \o s[n]
  BY DEF Grows
<1> DEFINE Kept(n) == Len(p[b]) <= Len(p[n]) /\ \A x \in 1..Len(p[b]) : p[n][x] = p[b][x]
           S == {n \in 0..N : n >= b => Kept(n)}
<1>1. \A n \in 0..N : Len(p[n]) \in Nat
  BY <1>01
<1>2. Kept(b)
  BY <1>1
<1>3. ASSUME NEW n \in 0..(N - 1), n \in S PROVE n + 1 \in S
  <2>1. n \in 0..N /\ n + 1 \in 0..N
    OBVIOUS
  <2>2. p[n + 1] = p[n] \o s[n] /\ p[n] \in Seq(U) /\ s[n] \in Seq(U)
    BY <1>01, <1>02, <2>1
  <2>3. Len(p[n + 1]) = Len(p[n]) + Len(s[n]) /\ Len(s[n]) \in Nat /\ Len(p[n]) \in Nat
    BY <2>2
  <2>4. \A x \in 1..Len(p[n]) : p[n + 1][x] = p[n][x]
    <3> DEFINE x == p[n]
               y == s[n]
    <3> HIDE DEF x, y
    <3>1. \A k \in 1..Len(x) : (x \o y)[k] = x[k]
      <4>1. x \in Seq(U) /\ y \in Seq(U)
        BY <2>2 DEF x, y
      <4> QED BY <4>1, ConcatProperties
    <3> QED BY <2>2, <3>1 DEF x, y
  <2>5. ASSUME n >= b PROVE Kept(n + 1)
    <3>1. Kept(n)
      BY <1>3, <2>5
    <3>2. Len(p[b]) \in Nat
      BY <1>1
    <3>3. \A x \in 1..Len(p[b]) : x \in 1..Len(p[n])
      BY <2>3, <3>1, <3>2
    <3>4. \A x \in 1..Len(p[b]) : p[n + 1][x] = p[b][x]
      <4> TAKE x \in 1..Len(p[b])
      <4>1. p[n][x] = p[b][x]
        BY <3>1
      <4>2. p[n + 1][x] = p[n][x]
        BY <2>4, <3>3
      <4> QED BY <4>1, <4>2
    <3>5. Len(p[b]) <= Len(p[n + 1])
      <4>1. Len(p[b]) <= Len(p[n])
        BY <3>1
      <4> DEFINE u == Len(p[b])
                 v == Len(p[n])
                 w == Len(p[n + 1])
                 t == Len(s[n])
      <4>2. u \in Nat /\ v \in Nat /\ t \in Nat /\ w = v + t /\ u <= v
        BY <2>3, <3>2, <4>1
      <4> HIDE DEF u, v, w, t
      <4>3. u <= w
        BY <4>2
      <4> QED BY <4>3 DEF u, w
    <3> QED BY <3>4, <3>5
  <2>6. ASSUME n + 1 >= b, ~ (n >= b) PROVE n + 1 = b
    BY <2>6
  <2> HIDE DEF Kept
  <2> QED BY <1>2, <2>1, <2>5, <2>6
<1>4. 0 \in S
  <2>1. 0 >= b => b = 0
    OBVIOUS
  <2> HIDE DEF Kept
  <2> QED BY <1>2, <2>1
<1>5. \A n \in 0..N : n \in S
  <2> HIDE DEF S
  <2> QED BY <1>3, <1>4, ReachesAll
<1>6. \A n \in b..N : n \in 0..N /\ n >= b
  OBVIOUS
<1> QED BY <1>5, <1>6 DEF Begins

\* The sibling of a node, by its place: to the left of an odd one, to the right
\* of an even one if there is one.
LEMMA SiblingCases ==
  ASSUME NEW level, Len(level) \in Nat, NEW i \in Nat, i < Len(level)
  PROVE  /\ i % 2 = 1 => Sibling(level, i) = <<[side |-> "left", hash |-> level[i]]>>
         /\ i % 2 # 1 /\ i + 1 < Len(level) =>
              Sibling(level, i) = <<[side |-> "right", hash |-> level[i + 2]]>>
         /\ i % 2 # 1 /\ ~ (i + 1 < Len(level)) => Sibling(level, i) = <<>>
<1>1. ASSUME i % 2 = 1 PROVE Sibling(level, i) = <<[side |-> "left", hash |-> level[i]]>>
  <2>1. i - 1 < Len(level) /\ i - 1 < i /\ (i - 1) + 1 = i
    OBVIOUS
  <2> QED BY <1>1, <2>1 DEF Sibling
<1>2. ASSUME i % 2 # 1, i + 1 < Len(level)
      PROVE  Sibling(level, i) = <<[side |-> "right", hash |-> level[i + 2]]>>
  <2>1. ~ (i + 1 < i) /\ (i + 1) + 1 = i + 2
    OBVIOUS
  <2> QED BY <1>2, <2>1 DEF Sibling
<1>3. ASSUME i % 2 # 1, ~ (i + 1 < Len(level)) PROVE Sibling(level, i) = <<>>
  BY <1>3 DEF Sibling
<1> QED BY <1>1, <1>2, <1>3

\* Halving an index, odd or even.
LEMMA HalfOf ==
  ASSUME NEW i \in Nat
  PROVE  /\ i \div 2 \in Nat
         /\ i % 2 = 1 => i = 2 * (i \div 2) + 1
         /\ i % 2 # 1 => i = 2 * (i \div 2)
OBVIOUS

\* Hashing up a proof, from the leaf, reaches the node of every level on the way:
\* the proof of a receipt leads to the root.
LEMMA ProofClimbs ==
  ASSUME NEW r, NEW L, NEW N, IsTree(r, L, N), NEW index \in 0..(N - 1),
         NEW a, NEW p, IsAscent(L, N, index, a, p),
         NEW c, \A m \in 0..Len(p[N]) : c[m] = HashAt(r[index + 1], p[N], c, m)
  PROVE  c[Len(p[N])] = L[N][1]
<1> DEFINE P == p[N]
           U == Entries(L, N)
           S == {n \in 0..N : c[Len(p[n])] = L[n][a[n] + 1]}
<1>0. N \in Nat \ {0}
  BY DEF IsTree
<1>1. Shrinks(r, L, N) /\ Stays(L, N, index, a) /\ Collects(L, N, a, p)
  BY LevelsShrink, AscentStays, AscentCollects
<1>2. \A n \in 0..N : p[n] \in Seq(U) /\ Len(p[n]) \in Nat
  <2>1. \A n \in 0..N : p[n] \in Seq(U)
    BY <1>1 DEF Collects
  <2> HIDE DEF U
  <2> QED BY <2>1, LenProperties
<1>3. \A n \in 0..N : Len(p[n]) <= Len(P) /\ \A x \in 1..Len(p[n]) : P[x] = p[n][x]
  <2> DEFINE s == [n \in 0..N |-> Sibling(L[n], a[n])]
  <2>1. \A n \in 0..N : s[n] = Sibling(L[n], a[n])
    OBVIOUS
  <2> HIDE DEF s, U
  <2>2. \A n \in 0..N : p[n] \in Seq(U) /\ s[n] \in Seq(U)
    <3>1. \A n \in 0..N : Sibling(L[n], a[n]) \in Seq(U)
      BY <1>1 DEF Collects, U
    <3> QED BY <1>2, <2>1, <3>1
  <2>3. \A n \in 0..(N - 1) : p[n + 1] = p[n] \o s[n]
    <3> TAKE n \in 0..(N - 1)
    <3>1. n \in 0..N
      BY <1>0
    <3>2. p[n + 1] = p[n] \o Sibling(L[n], a[n])
      BY <1>1 DEF Collects
    <3> QED BY <2>1, <3>1, <3>2
  <2>6. N \in Nat
    BY <1>0
  <2> TAKE n \in 0..N
  <2>4. Grows(N, U, p, s)
    BY <2>2, <2>3 DEF Grows
  <2>7. \A m \in n..N : Begins(p, n, m)
    BY <2>6, <2>4, AscentKeeps
  <2>5. N \in n..N
    BY <1>0
  <2> QED BY <2>7, <2>5 DEF Begins
<1>4. \A m \in 0..Len(P) : c[m] = HashAt(r[index + 1], P, c, m)
  OBVIOUS
<1> HIDE DEF P, U
<1>5. 0 \in S
  <2>1. 0 \in 0..N /\ Len(p[0]) = 0 /\ a[0] = index
    BY <1>0, <1>1, EmptySeq DEF Collects, Stays
  <2>2. 0 \in 0..Len(P)
    BY <1>2, <1>0 DEF P
  <2>3. c[0] = Leaf(r[index + 1])
    BY <1>4, <2>2 DEF HashAt
  <2>4. L[0][index + 1] = Leaf(r[index + 1])
    <3>1. L[0] = [k \in 1..N |-> Leaf(r[k])] /\ index + 1 \in 1..N
      BY <1>0, <1>1 DEF Shrinks
    <3> QED BY <3>1
  <2> QED BY <2>1, <2>3, <2>4
<1>6. ASSUME NEW n \in 0..(N - 1), n \in S PROVE n + 1 \in S
  <2> DEFINE i == a[n]
             h == i \div 2
             x == Len(p[n])
             level == L[n]
             l == Len(level)
  <2>1. n \in 0..N /\ n + 1 \in 0..N
    BY <1>0
  <2>2. c[x] = level[i + 1]
    BY <1>6
  <2>3. i \in Nat /\ i < l /\ l \in Nat /\ x \in Nat /\ a[n + 1] = h
    <3>1. a[n] \in Nat /\ a[n] < Len(L[n])
      BY <1>1, <2>1 DEF Stays
    <3>2. Len(L[n]) \in Nat \ {0}
      BY <1>1, <2>1 DEF Shrinks
    <3>3. a[n + 1] = a[n] \div 2
      BY <1>1 DEF Stays
    <3>4. Len(p[n]) \in Nat
      BY <1>2, <2>1
    <3> QED BY <3>1, <3>2, <3>3, <3>4
  <2>4. /\ h \in Nat
        /\ i % 2 = 1 => i = 2 * h + 1
        /\ i % 2 # 1 => i = 2 * h
    BY <2>3, HalfOf
  <2>5. h + 1 \in 1..Len(L[n + 1])
    <3> DEFINE m == Len(L[n + 1])
    <3>1. a[n + 1] < m
      BY <1>1, <2>1 DEF Stays
    <3>2. m \in Nat \ {0}
      BY <1>1, <2>1 DEF Shrinks
    <3>3. h \in Nat /\ h < m
      BY <2>3, <2>4, <3>1
    <3> HIDE DEF m, h
    <3>4. h + 1 \in 1..m
      BY <3>2, <3>3
    <3> QED BY <3>4 DEF m, h
  <2>6. L[n + 1][h + 1] = IF 2 * (h + 1) > l THEN level[2 * (h + 1) - 1]
                          ELSE Parent(level[2 * (h + 1) - 1], level[2 * (h + 1)])
    BY <2>5, NodeAbove, SMTT(30)
  <2>7. p[n + 1] = p[n] \o Sibling(level, i) /\ p[n] \in Seq(U)
    BY <1>1, <1>2, <2>1 DEF Collects
  <2>8. ASSUME NEW e, Sibling(level, i) = <<e>>
        PROVE  /\ Len(p[n + 1]) = x + 1
               /\ c[x + 1] = IF e.side = "left" THEN Parent(e.hash, c[x]) ELSE Parent(c[x], e.hash)
    <3>1. e \in U
      <4>1. <<e>> \in Seq(U)
        BY <1>1, <2>1, <2>8 DEF Collects, U
      <4>2. Len(<<e>>) = 1 /\ <<e>>[1] = e
        OBVIOUS
      <4> QED BY <4>1, <4>2, ElementOfSeq
    <3> HIDE DEF x, i, level, l, h
    <3>2. Len(p[n] \o <<e>>) = Len(p[n]) + 1 /\ (p[n] \o <<e>>)[Len(p[n]) + 1] = e
      BY <2>7, <3>1
    <3>3. Len(p[n + 1]) = x + 1 /\ p[n + 1][x + 1] = e
      BY <2>7, <2>8, <3>2 DEF x
    <3>4. x + 1 \in 0..Len(P) /\ x + 1 \in 1..Len(p[n + 1]) /\ (x + 1) - 1 = x /\ x + 1 # 0
      <4>1. Len(p[n + 1]) <= Len(P) /\ Len(P) \in Nat
        BY <1>0, <1>2, <1>3, <2>1 DEF P
      <4> QED BY <2>3, <3>3, <4>1
    <3>5. P[x + 1] = e
      BY <1>3, <2>1, <3>3, <3>4
    <3>6. c[x + 1] = HashAt(r[index + 1], P, c, x + 1)
      BY <1>4, <3>4
    <3> QED BY <3>3, <3>4, <3>5, <3>6 DEF HashAt
  <2> HIDE DEF i, x, level, l, h
  <2>9. CASE i % 2 = 1
    <3> DEFINE e == [side |-> "left", hash |-> level[i]]
    <3>1. Sibling(level, i) = <<e>>
      BY <2>3, <2>9, SiblingCases DEF l
    <3>2. Len(p[n + 1]) = x + 1 /\ c[x + 1] = Parent(level[i], level[i + 1])
      BY <2>2, <2>8, <3>1
    <3>3. ~ (2 * (h + 1) > l) /\ 2 * (h + 1) - 1 = i /\ 2 * (h + 1) = i + 1
      BY <2>3, <2>4, <2>9
    <3> QED BY <2>1, <2>3, <2>6, <3>2, <3>3
  <2>10. CASE i % 2 # 1 /\ i + 1 < l
    <3> DEFINE e == [side |-> "right", hash |-> level[i + 2]]
    <3>1. Sibling(level, i) = <<e>>
      BY <2>3, <2>10, SiblingCases DEF l
    <3>2. Len(p[n + 1]) = x + 1 /\ c[x + 1] = Parent(level[i + 1], level[i + 2])
      BY <2>2, <2>8, <3>1
    <3>3. ~ (2 * (h + 1) > l) /\ 2 * (h + 1) - 1 = i + 1 /\ 2 * (h + 1) = i + 2
      BY <2>3, <2>4, <2>10
    <3> QED BY <2>1, <2>3, <2>6, <3>2, <3>3
  <2>11. CASE i % 2 # 1 /\ ~ (i + 1 < l)
    <3>1. Sibling(level, i) = <<>>
      BY <2>3, <2>11, SiblingCases DEF l
    <3>2. p[n + 1] = p[n]
      BY <2>7, <3>1, ConcatEmptySeq
    <3>3. 2 * (h + 1) > l /\ 2 * (h + 1) - 1 = i + 1
      BY <2>3, <2>4, <2>11
    <3> QED BY <2>1, <2>2, <2>3, <2>6, <3>2, <3>3 DEF x
  <2> QED BY <2>9, <2>10, <2>11
<1>7. \A n \in 0..N : n \in S
  <2> HIDE DEF S
  <2> QED BY <1>0, <1>5, <1>6, ReachesAll
<1>8. c[Len(p[N])] = L[N][a[N] + 1] /\ a[N] = 0
  BY <1>0, <1>1, <1>7 DEF Stays
<1> QED BY <1>8

\* A node is the leaf of a receipt or the parent of two nodes.
LEMMA NodeIs ==
  ASSUME NEW r, NEW L, NEW N, IsTree(r, L, N), NEW x \in Nodes(L, N)
  PROVE  \/ \E k \in 1..N : x = Leaf(r[k])
         \/ \E y, z \in Nodes(L, N) : x = Parent(y, z)
<1> DEFINE On(n) == \E k \in 1..Len(L[n]) : x = L[n][k]
           H == {n \in 0..N : On(n)}
<1>0. N \in Nat \ {0}
  BY DEF IsTree
<1>1. Shrinks(r, L, N)
  BY LevelsShrink
<1>2. H \in SUBSET Nat /\ H # {}
  BY <1>0 DEF Nodes
<1>3. PICK n \in H : \A m \in H : n <= m
  <2> HIDE DEF H
  <2> QED BY <1>2, LeastNatural
<1>4. PICK k \in 1..Len(L[n]) : x = L[n][k]
  OBVIOUS
<1>5. CASE n = 0
  BY <1>1, <1>4, <1>5 DEF Shrinks
<1>6. CASE n # 0
  <2> DEFINE m == n - 1
             l == Len(L[m])
  <2>1. m \in 0..(N - 1) /\ m \in 0..N /\ m + 1 = n /\ ~ (n <= m)
    BY <1>0, <1>6
  <2> HIDE DEF m
  <2>2. l \in Nat \ {0} /\ Len(L[n]) = (l + 1) \div 2
    BY <1>1, <2>1 DEF Shrinks
  <2>3. x = IF 2 * k > l THEN L[m][2 * k - 1] ELSE Parent(L[m][2 * k - 1], L[m][2 * k])
    BY <1>4, <2>1, NodeAbove, SMTT(30)
  <2>4. k \in Nat \ {0} /\ k <= (l + 1) \div 2
    <3>1. (l + 1) \div 2 \in Nat
      <4> HIDE DEF l
      <4> QED BY <2>2, Halves
    <3> DEFINE j == (l + 1) \div 2
    <3>2. k \in 1..j
      BY <1>4, <2>2
    <3> HIDE DEF j, l
    <3>3. k \in Nat \ {0} /\ k <= j
      BY <3>1, <3>2 DEF j
    <3> QED BY <3>3 DEF j
  <2> HIDE DEF l
  <2>5. 2 * k - 1 \in 1..l
    BY <2>2, <2>4
  <2>6. ~ On(m)
    BY <1>3, <2>1
  <2>7. ~ (2 * k > l)
    <3> SUFFICES ASSUME 2 * k > l PROVE FALSE
      OBVIOUS
    <3>1. x = L[m][2 * k - 1]
      BY <2>3
    <3> QED BY <2>5, <2>6, <3>1 DEF l
  <2>8. 2 * k \in 1..l
    BY <2>2, <2>4, <2>7
  <2>9. \A j \in 1..l : L[m][j] \in Nodes(L, N)
    BY <2>1, SMTT(30) DEF Nodes, l
  <2> QED BY <2>3, <2>5, <2>7, <2>8, <2>9
<1> QED BY <1>5, <1>6

\* Hashes on the way up along a path.
Climbs(receipt, path, M, c) == \A m \in 0..M : c[m] = HashAt(receipt, path, c, m)

\* Hashing up to a node of a tree starts at a leaf of it, whatever the proof.
LEMMA ClimbStartsInside ==
  ASSUME NEW r, NEW L, NEW N, IsTree(r, L, N), NEW M \in Nat, NEW receipt, NEW path, NEW c,
         Climbs(receipt, path, M, c), c[M] \in Nodes(L, N)
  PROVE  \E k \in 1..N : receipt = r[k]
<1>0. \A m \in 0..M : c[m] = HashAt(receipt, path, c, m)
  BY DEF Climbs
<1> DEFINE S == {n \in 0..M : c[M - n] \in Nodes(L, N)}
<1>1. 0 \in S
  <2>1. M - 0 = M
    OBVIOUS
  <2> QED BY <2>1
<1>2. ASSUME NEW n \in 0..(M - 1), n \in S PROVE n + 1 \in S
  <2> DEFINE m == M - n
  <2>1. m \in 0..M /\ m # 0 /\ m - 1 = M - (n + 1) /\ n + 1 \in 0..M
    OBVIOUS
  <2>2. c[m] \in Nodes(L, N)
    BY <1>2
  <2> HIDE DEF m
  <2>3. PICK h : c[m] = Parent(h, c[m - 1]) \/ c[m] = Parent(c[m - 1], h)
    BY <1>0, <2>1 DEF HashAt
  <2>4. PICK y \in Nodes(L, N), z \in Nodes(L, N) : c[m] = Parent(y, z)
    <3>1. \A q : c[m] # Leaf(q)
      BY <2>3 DEF Leaf, Parent
    <3> QED BY <2>2, <3>1, NodeIs
  <2>5. c[m - 1] \in Nodes(L, N)
    BY <2>3, <2>4 DEF Parent
  <2> QED BY <2>1, <2>5
<1>3. \A n \in 0..M : n \in S
  <2> HIDE DEF S
  <2> QED BY <1>1, <1>2, ReachesAll
<1>4. c[0] \in Nodes(L, N)
  <2>1. M \in 0..M /\ M - M = 0
    OBVIOUS
  <2> QED BY <1>3, <2>1
<1>5. c[0] = Leaf(receipt)
  <2>1. 0 \in 0..M
    OBVIOUS
  <2> QED BY <1>0, <2>1 DEF HashAt
<1>6. PICK k \in 1..N : Leaf(receipt) = Leaf(r[k])
  <2>1. \A y, z : Leaf(receipt) # Parent(y, z)
    BY DEF Leaf, Parent
  <2> QED BY <1>4, <1>5, <2>1, NodeIs
<1> QED BY <1>6 DEF Leaf

\* What build_checkpoint makes of count receipts from a first one on.
Batch(first, count) == [k \in 1..count |-> Written(first + k - 1)]
IsBatch(checkpoint, proofs, first, count) ==
  /\ checkpoint = [first |-> first, last |-> first + count - 1, count |-> count,
                   root |-> MerkleRoot(Batch(first, count))]
  /\ proofs = [index \in 0..(count - 1) |-> MerkleProof(Batch(first, count), index)]

\* Every checkpoint is such a batch, in the ledger.
EvidenceInv ==
  /\ \E U : signed \in Seq(U)
  /\ \E V : paths \in Seq(V)
  /\ Len(signed) = Len(paths)
  /\ \A k \in 1..Len(signed) :
       \E first \in 1..LedgerBound, count \in 1..BatchLimit :
         first + count - 1 <= LedgerBound /\ IsBatch(signed[k], paths[k], first, count)

\* The receipts of a batch, and its tree.
LEMMA BatchIs ==
  ASSUME NEW first \in Nat, NEW count \in Nat \ {0}
  PROVE  /\ Len(Batch(first, count)) = count
         /\ \A k \in 1..count : Batch(first, count)[k] = Written(first + k - 1)
         /\ IsTree(Batch(first, count), Levels(Batch(first, count)), count)
<1>1. Len(Batch(first, count)) = count
  BY DEF Batch
<1>2. \A k \in 1..count : Batch(first, count)[k] = Written(first + k - 1)
  BY DEF Batch
<1>3. IsTree(Batch(first, count), Levels(Batch(first, count)), count)
  BY <1>1, LevelsAreTree
<1> QED BY <1>1, <1>2, <1>3

\* The stored proof of a receipt is a sequence, and leads from it to the root.
LEMMA StoredProof ==
  ASSUME NEW first \in Nat, NEW count \in Nat \ {0}, NEW index \in 0..(count - 1)
  PROVE  /\ Len(MerkleProof(Batch(first, count), index)) \in Nat
         /\ ProofRoot(Written(first + index), MerkleProof(Batch(first, count), index))
              = MerkleRoot(Batch(first, count))
<1> DEFINE r == Batch(first, count)
           L == Levels(r)
           P == MerkleProof(r, index)
<1>1. Len(r) = count /\ IsTree(r, L, count) /\ r[index + 1] = Written(first + index)
  <2>1. index + 1 \in 1..count /\ first + (index + 1) - 1 = first + index
    OBVIOUS
  <2> QED BY <2>1, BatchIs
<1> HIDE DEF r
<1>2. PICK a, p : /\ \A n \in 0..count : a[n] = IndexAt(index, a, n)
                  /\ \A n \in 0..count : p[n] = PathAt(L, a, p, n)
                  /\ P = p[count]
  <2>1. Len(r) \in Nat /\ Len(r) = count
    BY <1>1
  <2>2. PICK a, p : /\ \A n \in 0..Len(r) : a[n] = IndexAt(index, a, n)
                    /\ \A n \in 0..Len(r) : p[n] = PathAt(Levels(r), a, p, n)
                    /\ MerkleProof(r, index) = p[Len(r)]
    BY <2>1, ProofIs
  <2> QED BY <2>1, <2>2
<1> HIDE DEF L, P
<1>3. IsAscent(L, count, index, a, p)
  BY <1>2 DEF IsAscent
<1>4. Len(P) \in Nat
  <2>0. Collects(L, count, a, p) /\ count \in 0..count
    BY <1>1, <1>3, AscentCollects
  <2>1. p[count] \in Seq(Entries(L, count))
    BY <2>0 DEF Collects
  <2> QED BY <1>2, <2>1, LenProperties
<1>5. PICK c : /\ \A n \in 0..Len(P) : c[n] = HashAt(r[index + 1], P, c, n)
               /\ ProofRoot(r[index + 1], P) = c[Len(P)]
  BY <1>4, RootIs
<1>6. c[Len(P)] = L[count][1]
  BY <1>1, <1>2, <1>3, <1>5, ProofClimbs
<1>7. MerkleRoot(r) = L[count][1]
  BY <1>1 DEF MerkleRoot, L
<1> QED BY <1>1, <1>4, <1>5, <1>6, <1>7 DEF P, r

\* A receipt of the batch.
IsIn(receipt, first, count) == \E k \in 1..count : receipt = Written(first + k - 1)

\* Whatever leads to the root of a batch is one of its receipts.
LEMMA LeadsFromInside ==
  ASSUME NEW first \in Nat, NEW count \in Nat \ {0}, NEW receipt, NEW path, Len(path) \in Nat,
         ProofRoot(receipt, path) = MerkleRoot(Batch(first, count))
  PROVE  IsIn(receipt, first, count)
<1> DEFINE r == Batch(first, count)
           L == Levels(r)
<1>1. Len(r) = count /\ IsTree(r, L, count) /\ \A k \in 1..count : r[k] = Written(first + k - 1)
  BY BatchIs
<1>2. ProofRoot(receipt, path) = L[count][1]
  BY <1>1 DEF MerkleRoot
<1> HIDE DEF r, L
<1>3. PICK c : /\ \A n \in 0..Len(path) : c[n] = HashAt(receipt, path, c, n)
               /\ ProofRoot(receipt, path) = c[Len(path)]
  BY RootIs
<1>4. L[count][1] \in Nodes(L, count)
  <2>1. Shrinks(r, L, count)
    BY <1>1, LevelsShrink
  <2>2. Len(L[count]) = 1 /\ count \in 0..count
    BY <2>1 DEF Shrinks
  <2>3. 1 \in 1..Len(L[count])
    BY <2>2
  <2> QED BY <2>2, <2>3 DEF Nodes
<1>5. \E k \in 1..count : receipt = r[k]
  <2>1. c[Len(path)] \in Nodes(L, count)
    BY <1>2, <1>3, <1>4
  <2>2. Len(path) \in Nat
    OBVIOUS
  <2>3. Climbs(receipt, path, Len(path), c)
    BY <1>3 DEF Climbs
  <2> QED BY <1>1, <2>1, <2>2, <2>3, ClimbStartsInside
<1> QED BY <1>1, <1>5 DEF IsIn

\* The invariant holds at the start.
LEMMA EvidenceStart == EvidenceInit => EvidenceInv
<1> SUFFICES ASSUME EvidenceInit PROVE EvidenceInv
  OBVIOUS
<1>1. signed = <<>> /\ paths = <<>>
  BY DEF EvidenceInit
<1> QED BY <1>1, EmptySeq DEF EvidenceInv

\* Where the next batch begins.
LEMMA SealedIs ==
  ASSUME EvidenceInv
  PROVE  Sealed \in 0..LedgerBound
<1>1. CASE signed = <<>>
  BY <1>1, EvidenceAssumption DEF Sealed
<1>2. CASE signed # <<>>
  <2>1. PICK U : signed \in Seq(U)
    BY DEF EvidenceInv
  <2>2. Len(signed) \in 1..Len(signed)
    BY <1>2, <2>1, EmptySeq
  <2>3. PICK first \in 1..LedgerBound, count \in 1..BatchLimit :
          /\ first + count - 1 <= LedgerBound
          /\ IsBatch(signed[Len(signed)], paths[Len(signed)], first, count)
    BY <2>2 DEF EvidenceInv
  <2>4. signed[Len(signed)].last = first + count - 1
    BY <2>3 DEF IsBatch
  <2>5. first + count - 1 \in 0..LedgerBound
    BY <2>3, EvidenceAssumption
  <2> QED BY <1>2, <2>4, <2>5 DEF Sealed
<1> QED BY <1>1, <1>2

\* A sequence with one more element.
IsSequence(s) == \E U : s \in Seq(U)

OneMoreThan(t, s, x) ==
  /\ IsSequence(t) /\ Len(s) \in Nat
  /\ Len(t) = Len(s) + 1
  /\ \A k \in 1..Len(s) : t[k] = s[k]
  /\ t[Len(s) + 1] = x

\* A list with one element appended is one more than it was.
LEMMA OneMore ==
  ASSUME NEW s, IsSequence(s), NEW x
  PROVE  OneMoreThan(Append(s, x), s, x)
<1>1. PICK U : s \in Seq(U)
  BY DEF IsSequence
<1> DEFINE W == U \cup {x}
<1>2. s \in Seq(W)
  <2>1. U \subseteq W
    OBVIOUS
  <2> HIDE DEF W
  <2> QED BY <1>1, <2>1
<1>3. x \in W
  OBVIOUS
<1> HIDE DEF W
<1>4. /\ Append(s, x) \in Seq(W) /\ Len(s) \in Nat
      /\ Len(Append(s, x)) = Len(s) + 1
      /\ \A k \in 1..Len(s) : Append(s, x)[k] = s[k]
      /\ Append(s, x)[Len(s) + 1] = x
  BY <1>2, <1>3, AppendProperties, LenProperties
<1> QED BY <1>4 DEF OneMoreThan, IsSequence

\* Every step keeps the invariant.
LEMMA EvidenceStep == EvidenceInv /\ [EvidenceNext]_evidenceVars => EvidenceInv'
<1> SUFFICES ASSUME EvidenceInv, [EvidenceNext]_evidenceVars PROVE EvidenceInv'
  OBVIOUS
<1>1. ASSUME NEW count \in 1..BatchLimit, SignBatch(count) PROVE EvidenceInv'
  <2> DEFINE first == Sealed + 1
             checkpoint == [first |-> first, last |-> first + count - 1, count |-> count,
                            root |-> MerkleRoot(Batch(first, count))]
             proofs == [index \in 0..(count - 1) |-> MerkleProof(Batch(first, count), index)]
  <2>1. /\ Sealed + count <= LedgerBound
        /\ signed' = Append(signed, checkpoint)
        /\ paths' = Append(paths, proofs)
    BY <1>1 DEF SignBatch, Batch
  <2>2. first \in 1..LedgerBound /\ first + count - 1 <= LedgerBound
    BY <2>1, SealedIs, EvidenceAssumption
  <2>3. IsBatch(checkpoint, proofs, first, count)
    BY DEF IsBatch
  <2> HIDE DEF first, checkpoint, proofs
  <2>4. IsSequence(signed) /\ IsSequence(paths) /\ Len(signed) = Len(paths)
    BY DEF EvidenceInv, IsSequence
  <2>5. OneMoreThan(signed', signed, checkpoint)
    <3>1. OneMoreThan(Append(signed, checkpoint), signed, checkpoint)
      BY <2>4, OneMore
    <3> QED BY <2>1, <3>1
  <2>6. OneMoreThan(paths', paths, proofs)
    <3>1. OneMoreThan(Append(paths, proofs), paths, proofs)
      BY <2>4, OneMore
    <3> QED BY <2>1, <3>1
  <2>7. /\ Len(signed) \in Nat /\ Len(signed') = Len(signed) + 1 /\ Len(paths') = Len(signed')
        /\ \A k \in 1..Len(signed) : signed'[k] = signed[k] /\ paths'[k] = paths[k]
        /\ signed'[Len(signed) + 1] = checkpoint /\ paths'[Len(signed) + 1] = proofs
    BY <2>4, <2>5, <2>6 DEF OneMoreThan
  <2>8. ASSUME NEW k \in 1..Len(signed')
        PROVE  \E f \in 1..LedgerBound, n \in 1..BatchLimit :
                 f + n - 1 <= LedgerBound /\ IsBatch(signed'[k], paths'[k], f, n)
    <3>1. CASE k = Len(signed) + 1
      <4>1. signed'[k] = checkpoint /\ paths'[k] = proofs
        BY <2>7, <3>1
      <4> QED BY <2>2, <2>3, <4>1
    <3>2. CASE k \in 1..Len(signed)
      <4>1. signed'[k] = signed[k] /\ paths'[k] = paths[k]
        BY <2>7, <3>2
      <4> QED BY <3>2, <4>1 DEF EvidenceInv
    <3>3. k = Len(signed) + 1 \/ k \in 1..Len(signed)
      BY <2>7
    <3> QED BY <3>1, <3>2, <3>3
  <2>9. (\E U : signed' \in Seq(U)) /\ (\E V : paths' \in Seq(V))
    BY <2>5, <2>6 DEF OneMoreThan, IsSequence
  <2> QED BY <2>8, <2>7, <2>9 DEF EvidenceInv
<1>2. CASE UNCHANGED evidenceVars
  BY <1>2 DEF evidenceVars, EvidenceInv
<1> QED BY <1>1, <1>2 DEF EvidenceNext

\* The checkpoint k of the ledger, as a batch.
LEMMA CheckpointIs ==
  ASSUME EvidenceInv, NEW k \in DOMAIN signed
  PROVE  /\ DOMAIN paths = DOMAIN signed
         /\ \E first \in 1..LedgerBound, count \in 1..BatchLimit :
              first + count - 1 <= LedgerBound /\ IsBatch(signed[k], paths[k], first, count)
<1>1. (\E U : signed \in Seq(U)) /\ (\E V : paths \in Seq(V)) /\ Len(signed) = Len(paths)
  BY DEF EvidenceInv
<1>2. DOMAIN signed = 1..Len(signed) /\ DOMAIN paths = 1..Len(paths)
  BY <1>1, LenProperties
<1>3. k \in 1..Len(signed)
  BY <1>2
<1> QED BY <1>1, <1>2, <1>3 DEF EvidenceInv

\* The invariant types the ledger.
LEMMA EvidenceIsTyped == EvidenceInv => EvidenceTypeOK
<1> SUFFICES ASSUME EvidenceInv PROVE EvidenceTypeOK
  OBVIOUS
<1>1. ASSUME NEW k \in DOMAIN signed
      PROVE  /\ signed[k].first \in 1..LedgerBound /\ signed[k].last \in 1..LedgerBound
             /\ signed[k].count \in 1..BatchLimit
             /\ DOMAIN paths[k] = 0..(signed[k].count - 1)
  <2>1. PICK first \in 1..LedgerBound, count \in 1..BatchLimit :
          first + count - 1 <= LedgerBound /\ IsBatch(signed[k], paths[k], first, count)
    BY CheckpointIs
  <2>2. /\ signed[k].first = first /\ signed[k].last = first + count - 1 /\ signed[k].count = count
        /\ DOMAIN paths[k] = 0..(count - 1)
    BY <2>1 DEF IsBatch
  <2>3. first + count - 1 \in 1..LedgerBound
    BY <2>1, EvidenceAssumption
  <2> QED BY <2>2, <2>3
<1> QED BY <1>1 DEF EvidenceTypeOK, EvidenceInv

\* Every stored proof verifies.
LEMMA BundlesVerify == EvidenceInv => ExportedVerifies
<1> SUFFICES ASSUME EvidenceInv, NEW k \in DOMAIN signed, NEW index \in DOMAIN paths[k]
             PROVE  Accepts(Bundle(k, index))
  BY DEF ExportedVerifies
<1>1. PICK first \in 1..LedgerBound, count \in 1..BatchLimit :
        first + count - 1 <= LedgerBound /\ IsBatch(signed[k], paths[k], first, count)
  BY CheckpointIs
<1>2. first \in Nat \ {0} /\ count \in Nat \ {0}
  BY EvidenceAssumption
<1>3. /\ signed[k].first = first /\ signed[k].last = first + count - 1 /\ signed[k].count = count
      /\ signed[k].root = MerkleRoot(Batch(first, count))
      /\ index \in 0..(count - 1)
      /\ paths[k][index] = MerkleProof(Batch(first, count), index)
  BY <1>1 DEF IsBatch
<1> DEFINE b == Bundle(k, index)
<1>4. /\ b.receipt = Written(first + index) /\ b.index = index
      /\ b.proof = paths[k][index] /\ b.checkpoint = signed[k]
  BY <1>3 DEF Bundle
<1>5. ProofRoot(b.receipt, b.proof) = b.checkpoint.root
  <2>1. ProofRoot(Written(first + index), MerkleProof(Batch(first, count), index))
          = MerkleRoot(Batch(first, count))
    BY <1>2, <1>3, StoredProof
  <2> HIDE DEF b
  <2> QED BY <1>3, <1>4, <2>1
<1>6. b.receipt.sequence = first + index
  BY <1>4 DEF Written
<1>7. index < count /\ count = (first + count - 1) - first + 1
  BY <1>2, <1>3
<1> HIDE DEF b
<1>8. Accepts(b)
  BY <1>3, <1>4, <1>5, <1>6, <1>7 DEF Accepts
<1> QED BY <1>8 DEF b

\* Nothing else verifies.
LEMMA VerifiedWasWritten == EvidenceInv => AcceptedIsIncluded
<1> SUFFICES ASSUME EvidenceInv, NEW k \in DOMAIN signed, NEW j \in DOMAIN signed,
                    NEW from \in DOMAIN paths[k], NEW index \in 0..BatchLimit,
                    NEW seq \in 1..Sealed, NEW body \in Bodies,
                    Accepts([receipt |-> [sequence |-> seq, body |-> body], index |-> index,
                             proof |-> paths[k][from], checkpoint |-> signed[j]])
             PROVE  /\ [sequence |-> seq, body |-> body] = Written(seq)
                    /\ seq \in signed[j].first..signed[j].last
  BY DEF AcceptedIsIncluded
<1> DEFINE receipt == [sequence |-> seq, body |-> body]
<1>1. PICK f \in 1..LedgerBound, n \in 1..BatchLimit :
        f + n - 1 <= LedgerBound /\ IsBatch(signed[k], paths[k], f, n)
  BY CheckpointIs
<1>2. PICK first \in 1..LedgerBound, count \in 1..BatchLimit :
        first + count - 1 <= LedgerBound /\ IsBatch(signed[j], paths[j], first, count)
  BY CheckpointIs
<1>3. f \in Nat \ {0} /\ n \in Nat \ {0} /\ first \in Nat \ {0} /\ count \in Nat \ {0}
  BY EvidenceAssumption
<1>4. Len(paths[k][from]) \in Nat
  <2>1. from \in 0..(n - 1) /\ paths[k][from] = MerkleProof(Batch(f, n), from)
    BY <1>1 DEF IsBatch
  <2> QED BY <1>3, <2>1, StoredProof
<1>5. /\ signed[j].first = first /\ signed[j].last = first + count - 1
      /\ signed[j].root = MerkleRoot(Batch(first, count))
  BY <1>2 DEF IsBatch
<1>6. ProofRoot(receipt, paths[k][from]) = MerkleRoot(Batch(first, count))
  BY <1>5 DEF Accepts
<1>7. PICK x \in 1..count : receipt = Written(first + x - 1)
  <2> DEFINE path == paths[k][from]
  <2>1. Len(path) \in Nat /\ ProofRoot(receipt, path) = MerkleRoot(Batch(first, count))
    BY <1>4, <1>6
  <2>2. first \in Nat /\ count \in Nat \ {0}
    BY <1>3
  <2> HIDE DEF receipt, path
  <2>3. IsIn(receipt, first, count)
    BY <2>1, <2>2, LeadsFromInside
  <2> QED BY <2>3 DEF IsIn
<1>8. seq = first + x - 1 /\ receipt = Written(seq)
  <2>1. receipt.sequence = seq /\ Written(first + x - 1).sequence = first + x - 1
    BY DEF Written
  <2> QED BY <1>7, <2>1
<1>9. seq \in first..(first + count - 1)
  BY <1>3, <1>8
<1> QED BY <1>5, <1>8, <1>9

(*****************************************************************************)
(* Backups: retention keeps what is promised, however many tasks, counts and *)
(* backups there are.                                                        *)
(*                                                                           *)
(* That enough dumps are on disk is not inductive.  The invariant names the  *)
(* backups that are promised to stay (L) and counts the promises that were   *)
(* given up (E), each paid for by a discarded backup: for a dump that ends   *)
(* without its row, and for a good backup without a dump, which retention    *)
(* counts too.  A retention dooms only what has enough newer promises above  *)
(* it, and what has so at one time has so for ever.                          *)
(*****************************************************************************)

\* L are backups that are promised to stay; of E more the promise was given up.  A backup is
\* safe to lose if there are enough newer ones, for the smallest count c.
Above(L, n) == {l \in L : l > n}
Safe(L, E, n, c) == Cardinality(Above(L, n)) + E >= c

\* Dumps under way whose row is gone, and that are not safe to lose.
Lost(L, E, row, mk, c) ==
  {b \in Numbers : /\ \E m \in Makers : mk[m].pc = "dump" /\ mk[m].backup = b
                   /\ row[b] = "absent" /\ ~ Safe(L, E, b, c)}

\* Backups that retention counts, or will count, although they are not promised.
Hollow(L, E, row, mk, c) ==
  {b \in Numbers \ L : /\ \/ row[b] = "ok"
                          \/ \E m \in Makers : mk[m].pc = "count" /\ mk[m].backup = b
                       /\ ~ Safe(L, E, b, c)}

Promised(L, E, row, file, mk, t) ==
  /\ L \in SUBSET Numbers /\ E \in Nat
  /\ \A b \in L : file[b] = "complete"
  /\ E + Cardinality(Lost(L, E, row, mk, t.least)) <= t.discarded
  /\ Cardinality(Hollow(L, E, row, mk, t.least)) <= E
  /\ t.made <= Cardinality(L) + E \/ t.least <= Cardinality(L) + E
  /\ \A m \in Makers : \A n \in mk[m].doomed : Safe(L, E, n, t.least)
  /\ \A n \in L : row[n] = "absent" => Safe(L, E, n, t.least)

\* Tasks make different backups, and a backup has no file before its dump ended.
Apart(mk, file) ==
  \A m \in Makers : mk[m].pc # "idle" =>
    /\ mk[m].backup \in Numbers
    /\ mk[m].pc = "dump" => file[mk[m].backup] = "none"
    /\ \A n \in Makers \ {m} : mk[n].pc # "idle" => mk[n].backup # mk[m].backup

BackupsInv ==
  /\ BackupsTypeOK
  /\ tally.least <= keep
  /\ Apart(maker, files)
  /\ tally.discarded = Most \/ \E L, E : Promised(L, E, rows, files, maker, tally)

------------------------------------------------------------------------------
\* Sets of backups are finite.
LEMMA NumbersCount ==
  ASSUME NEW T \in SUBSET Numbers, NEW S \in SUBSET T
  PROVE  /\ IsFiniteSet(T) /\ IsFiniteSet(S)
         /\ Cardinality(T) \in Nat /\ Cardinality(S) \in Nat
         /\ Cardinality(S) <= Cardinality(T)
         /\ Cardinality(T) = Cardinality(S) + Cardinality(T \ S)
         /\ Cardinality(T \ S) \in Nat
<1>1. IsFiniteSet(Numbers)
  BY BackupsAssumption, FS_Interval DEF Numbers
<1>2. IsFiniteSet(T) /\ IsFiniteSet(S) /\ IsFiniteSet(T \ S)
  <2>1. IsFiniteSet(T)
    BY <1>1, FS_Subset
  <2>2. S \in SUBSET T /\ T \ S \in SUBSET T
    OBVIOUS
  <2> QED BY <2>1, <2>2, FS_Subset
<1>3. Cardinality(T) \in Nat /\ Cardinality(S) \in Nat /\ Cardinality(T \ S) \in Nat
  BY <1>2, FS_CardinalityType
<1>4. Cardinality(S) <= Cardinality(T)
  BY <1>2, FS_Subset
<1>5. Cardinality(T \ S) = Cardinality(T) - Cardinality(S)
  <2>1. T \cap S = S
    OBVIOUS
  <2>2. Cardinality(T \ S) = Cardinality(T) - Cardinality(T \cap S)
    BY <1>2, FS_Difference
  <2> QED BY <2>1, <2>2
<1> QED BY <1>2, <1>3, <1>4, <1>5

\* What two sets cover is no more than they are together.
LEMMA CountOfUnion ==
  ASSUME NEW A \in SUBSET Numbers, NEW B \in SUBSET Numbers, NEW T, T \subseteq A \cup B
  PROVE  Cardinality(T) <= Cardinality(A) + Cardinality(B)
<1>1. T \in SUBSET (A \cup B) /\ A \cup B \in SUBSET Numbers /\ A \cap B \in SUBSET A
  OBVIOUS
<1>2. /\ IsFiniteSet(A) /\ IsFiniteSet(B)
      /\ Cardinality(A) \in Nat /\ Cardinality(B) \in Nat /\ Cardinality(A \cap B) \in Nat
  BY <1>1, NumbersCount
<1>3. Cardinality(A \cup B) = Cardinality(A) + Cardinality(B) - Cardinality(A \cap B)
  BY <1>2, FS_Union
<1>4. /\ Cardinality(T) <= Cardinality(A \cup B)
      /\ Cardinality(T) \in Nat /\ Cardinality(A \cup B) \in Nat
  BY <1>1, NumbersCount
<1> QED BY <1>2, <1>3, <1>4

\* The counts of the tally are numbers up to the largest retention count.
LEMMA BackupNumbers ==
  ASSUME BackupsTypeOK
  PROVE  /\ tally.least \in Nat /\ tally.made \in Nat /\ tally.discarded \in Nat
         /\ keep \in Nat /\ Most \in Nat /\ tally.least <= Most
         /\ tally.made <= Most /\ tally.discarded <= Most
<1>1. Most \in Counts /\ \A n \in Counts : n <= Most
  BY BackupsAssumption, MaxIsLargest DEF Most
<1>2. /\ tally.made \in 0..Most /\ tally.discarded \in 0..Most /\ tally.least \in Counts
      /\ keep \in Counts
  BY DEF BackupsTypeOK
<1>3. Counts \subseteq Nat
  BY BackupsAssumption
<1>4. Most \in Nat /\ tally.least \in Nat /\ keep \in Nat /\ tally.least <= Most
  BY <1>1, <1>2, <1>3
<1> HIDE DEF Most
<1> QED BY <1>2, <1>4

\* More promises, or more given up, keep what is safe.
LEMMA SafeAfterGrowth ==
  ASSUME NEW K \in SUBSET Numbers, NEW L \in SUBSET K, NEW E \in Nat, NEW F \in Nat, E <= F,
         NEW c \in Nat, NEW d \in Nat, d <= c, NEW n, Safe(L, E, n, c)
  PROVE  Safe(K, F, n, d)
<1>1. Above(L, n) \in SUBSET Above(K, n) /\ Above(K, n) \in SUBSET Numbers
  BY DEF Above
<1>2. /\ Cardinality(Above(L, n)) <= Cardinality(Above(K, n))
      /\ Cardinality(Above(L, n)) \in Nat /\ Cardinality(Above(K, n)) \in Nat
  BY <1>1, NumbersCount
<1> QED BY <1>2 DEF Safe

\* So does giving up a promise, if it is counted.
LEMMA SafeAfterGivingUp ==
  ASSUME NEW L \in SUBSET Numbers, NEW K \in SUBSET L, NEW E \in Nat, NEW F \in Nat,
         E + Cardinality(L \ K) <= F, NEW c \in Nat, NEW n, Safe(L, E, n, c)
  PROVE  Safe(K, F, n, c)
<1> DEFINE R == Above(L, n) \ Above(K, n)
<1>1. /\ Above(L, n) \in SUBSET Numbers /\ Above(K, n) \in SUBSET Above(L, n)
      /\ R \in SUBSET (L \ K) /\ L \ K \in SUBSET Numbers
  BY DEF Above
<1>2. /\ Cardinality(Above(L, n)) = Cardinality(Above(K, n)) + Cardinality(R)
      /\ Cardinality(Above(L, n)) \in Nat /\ Cardinality(Above(K, n)) \in Nat
      /\ Cardinality(R) \in Nat
  BY <1>1, NumbersCount
<1>3. Cardinality(R) <= Cardinality(L \ K) /\ Cardinality(L \ K) \in Nat
  <2> HIDE DEF R
  <2> QED BY <1>1, NumbersCount
<1> QED BY <1>2, <1>3 DEF Safe

\* What is safe to lose may be lost: whatever was safe stays so, and enough promises remain.
LEMMA SafeAfterLoss ==
  ASSUME NEW L \in SUBSET Numbers, NEW K \in SUBSET L, NEW E \in Nat, NEW c \in Nat,
         \A b \in L \ K : Safe(L, E, b, c)
  PROVE  /\ \A n \in Numbers : Safe(L, E, n, c) => Safe(K, E, n, c)
         /\ L # K => c <= Cardinality(K) + E
<1> DEFINE R == L \ K
           x == Max(R)
<1>1. R \in SUBSET Nat /\ IsFiniteSet(R) /\ Numbers \subseteq Nat
  <2>1. Numbers \subseteq Nat
    BY BackupsAssumption DEF Numbers
  <2>2. R \in SUBSET L
    OBVIOUS
  <2> QED BY <2>1, <2>2, NumbersCount
<1>2. ASSUME R # {} PROVE x \in R /\ \A y \in R : x >= y
  BY <1>1, <1>2, MaxIsLargest
<1> HIDE DEF x
<1>3. ASSUME R # {} PROVE Above(K, x) = Above(L, x) /\ Safe(K, E, x, c)
  <2>1. \A l \in L : l > x => l \in K
    <3> TAKE l \in L
    <3>1. ASSUME l \notin K, l > x PROVE FALSE
      <4>1. l \in R /\ x >= l /\ x \in Nat /\ l \in Nat
        BY <1>1, <1>2, <1>3, <3>1
      <4> QED BY <3>1, <4>1
    <3> QED BY <3>1
  <2>2. Above(K, x) = Above(L, x)
    BY <2>1 DEF Above
  <2>3. Safe(L, E, x, c)
    BY <1>2, <1>3
  <2> QED BY <2>2, <2>3 DEF Safe
<1>4. ASSUME NEW n \in Numbers, Safe(L, E, n, c) PROVE Safe(K, E, n, c)
  <2>1. CASE Above(R, n) = {}
    <3>1. Above(K, n) = Above(L, n)
      BY <2>1 DEF Above
    <3> QED BY <1>4, <3>1 DEF Safe
  <2>2. CASE Above(R, n) # {}
    <3>1. PICK y \in R : y > n
      BY <2>2 DEF Above
    <3>2. x > n /\ R # {} /\ x \in Int /\ n \in Int
      <4>1. R # {}
        OBVIOUS
      <4>2. x \in Nat /\ y \in Nat /\ n \in Nat /\ x >= y
        BY <1>1, <1>2, <4>1
      <4> QED BY <3>1, <4>1, <4>2
    <3>3. Above(K, x) \in SUBSET Above(K, n) /\ Above(K, n) \in SUBSET Numbers
      <4>1. ASSUME NEW l \in K, l > x PROVE l > n
        <5>1. l \in Int
          BY <1>1
        <5> QED BY <3>2, <4>1, <5>1
      <4> QED BY <4>1 DEF Above
    <3>4. /\ Cardinality(Above(K, x)) <= Cardinality(Above(K, n))
          /\ Cardinality(Above(K, x)) \in Nat /\ Cardinality(Above(K, n)) \in Nat
      BY <3>3, NumbersCount
    <3> QED BY <1>3, <3>2, <3>4 DEF Safe
  <2> QED BY <2>1, <2>2
<1>5. ASSUME L # K PROVE c <= Cardinality(K) + E
  <2>1. R # {}
    BY <1>5
  <2>2. Above(K, x) \in SUBSET K /\ K \in SUBSET Numbers
    BY DEF Above
  <2>3. /\ Cardinality(Above(K, x)) <= Cardinality(K)
        /\ Cardinality(Above(K, x)) \in Nat /\ Cardinality(K) \in Nat
    BY <2>2, NumbersCount
  <2> QED BY <1>3, <2>1, <2>3 DEF Safe
<1> QED BY <1>4, <1>5

\* Retention dooms only what is safe: of the good backups that are newer than one beyond the count,
\* each is promised, hollow or safe itself.
LEMMA BeyondIsSafe ==
  ASSUME BackupsTypeOK, tally.least <= keep, NEW L, NEW E,
         Promised(L, E, rows, files, maker, tally), NEW b \in Beyond(keep)
  PROVE  b \in Numbers /\ Safe(L, E, b, tally.least)
<1> DEFINE good == {n \in Numbers : rows[n] = "ok"}
           newer == {n \in good : n > b}
           H == Hollow(L, E, rows, maker, tally.least)
<1>1. b \in good /\ Cardinality(newer) >= keep
  BY DEF Beyond
<1>2. L \in SUBSET Numbers /\ E \in Nat /\ Cardinality(H) <= E
  BY DEF Promised
<1>3. tally.least \in Nat /\ keep \in Nat /\ Numbers \subseteq Nat
  BY BackupNumbers, BackupsAssumption DEF Numbers
<1>4. CASE \E n \in newer : Safe(L, E, n, tally.least)
  <2>1. PICK n \in newer : Safe(L, E, n, tally.least)
    BY <1>4
  <2>2. n > b /\ n \in Int /\ b \in Int
    BY <1>1, <1>3
  <2>3. Above(L, n) \in SUBSET Above(L, b) /\ Above(L, b) \in SUBSET Numbers
    <3>1. ASSUME NEW l \in L, l > n PROVE l > b
      <4>1. l \in Int
        BY <1>2, <1>3
      <4> QED BY <2>2, <3>1, <4>1
    <3> QED BY <1>2, <3>1 DEF Above
  <2>4. /\ Cardinality(Above(L, n)) <= Cardinality(Above(L, b))
        /\ Cardinality(Above(L, n)) \in Nat /\ Cardinality(Above(L, b)) \in Nat
    BY <2>3, NumbersCount
  <2> QED BY <1>1, <1>2, <1>3, <2>1, <2>4 DEF Safe
<1>5. CASE ~ \E n \in newer : Safe(L, E, n, tally.least)
  <2>1. \A n \in newer : n \in L \/ n \in H
    BY <1>5 DEF Hollow
  <2>2. newer \subseteq Above(L, b) \cup H
    BY <2>1 DEF Above
  <2>3. Above(L, b) \in SUBSET Numbers /\ H \in SUBSET Numbers /\ newer \in SUBSET Numbers
    BY <1>2 DEF Above, Hollow
  <2> HIDE DEF newer, H
  <2>4. Cardinality(newer) <= Cardinality(Above(L, b)) + Cardinality(H)
    BY <2>2, <2>3, CountOfUnion
  <2>5. /\ Cardinality(Above(L, b)) \in Nat /\ Cardinality(H) \in Nat
        /\ Cardinality(newer) \in Nat
    BY <2>3, NumbersCount
  <2>7. b \in Numbers
    BY <1>1
  <2>8. Cardinality(Above(L, b)) + E >= tally.least
    BY <1>1, <1>2, <1>3, <2>4, <2>5
  <2> QED BY <2>7, <2>8 DEF Safe
<1> QED BY <1>4, <1>5

\* What was promised is on disk.
LEMMA PromiseKept == BackupsInv => RetentionKeepsEnough
<1> SUFFICES ASSUME BackupsInv PROVE RetentionKeepsEnough
  OBVIOUS
<1> DEFINE whole == {b \in Numbers : files[b] = "complete"}
           q == Min({tally.least, tally.made})
<1>1. /\ tally.least \in Nat /\ tally.made \in Nat /\ tally.discarded \in Nat
      /\ tally.least <= Most /\ Most \in Nat
  BY BackupNumbers DEF BackupsInv
<1>2. q \in {tally.least, tally.made} /\ q <= tally.least /\ q <= tally.made
  <2>1. \E x \in {tally.least, tally.made} : \A y \in {tally.least, tally.made} : x <= y
    BY <1>1
  <2> QED BY <1>1, <2>1 DEF Min
<1>3. whole \in SUBSET Numbers /\ Cardinality(whole) \in Nat
  BY NumbersCount
<1> HIDE DEF q
<1>4. q \in Nat
  BY <1>1, <1>2
<1>5. CASE tally.discarded = Most
  <2> HIDE DEF whole
  <2>1. Cardinality(whole) >= q - tally.discarded
    BY <1>1, <1>2, <1>3, <1>4, <1>5
  <2> QED BY <2>1 DEF RetentionKeepsEnough, whole, q
<1>6. CASE tally.discarded # Most
  <2>1. PICK L, E : Promised(L, E, rows, files, maker, tally)
    BY <1>6 DEF BackupsInv
  <2>2. L \in SUBSET whole /\ L \in SUBSET Numbers /\ E \in Nat
    BY <2>1 DEF Promised
  <2> HIDE DEF whole
  <2>3. Cardinality(L) <= Cardinality(whole) /\ Cardinality(L) \in Nat
    BY <1>3, <2>2, NumbersCount
  <2>4. E <= tally.discarded
    <3> DEFINE X == Lost(L, E, rows, maker, tally.least)
    <3>1. X \in SUBSET Numbers /\ E + Cardinality(X) <= tally.discarded
      BY <2>1 DEF Promised, Lost
    <3> HIDE DEF X
    <3>2. Cardinality(X) \in Nat
      BY <3>1, NumbersCount
    <3> QED BY <1>1, <2>2, <3>1, <3>2
  <2>5. tally.made <= Cardinality(L) + E \/ tally.least <= Cardinality(L) + E
    BY <2>1 DEF Promised
  <2>6. Cardinality(whole) >= q - tally.discarded
    BY <1>1, <1>2, <1>3, <1>4, <2>2, <2>3, <2>4, <2>5
  <2> QED BY <2>6 DEF RetentionKeepsEnough, whole, q
<1> QED BY <1>5, <1>6

------------------------------------------------------------------------------
\* Task m comes to be somewhere, with a backup and doomed backups; the others rest.
Moved(m, p, b, D) ==
  /\ maker' \in [Makers -> MakerStates]
  /\ maker'[m].pc = p /\ maker'[m].backup = b /\ maker'[m].doomed = D
  /\ \A n \in Makers \ {m} : maker'[n] = maker[n]

\* A task that changes moves from its step, its backup and its choice to others of their types.
LEMMA TaskMoves ==
  ASSUME BackupsTypeOK, NEW m \in Makers
  PROVE  /\ \A r \in MakerStates :
              maker' = [maker EXCEPT ![m] = r] => Moved(m, r.pc, r.backup, r.doomed)
         /\ \A p \in MakerSteps :
              maker' = [maker EXCEPT ![m].pc = p] => Moved(m, p, maker[m].backup, maker[m].doomed)
         /\ \A D \in SUBSET Numbers :
              maker' = [maker EXCEPT ![m].doomed = D] => Moved(m, maker[m].pc, maker[m].backup, D)
         /\ \A p \in MakerSteps, D \in SUBSET Numbers :
              maker' = [maker EXCEPT ![m].pc = p, ![m].doomed = D] => Moved(m, p, maker[m].backup, D)
         /\ Made(m) => Moved(m, "idle", 0, {})
<1>1. maker \in [Makers -> MakerStates]
  BY DEF BackupsTypeOK
<1>2. ASSUME NEW r \in MakerStates, maker' = [maker EXCEPT ![m] = r]
      PROVE  Moved(m, r.pc, r.backup, r.doomed)
  BY <1>1, <1>2 DEF Moved
<1>3. ASSUME NEW p \in MakerSteps, maker' = [maker EXCEPT ![m].pc = p]
      PROVE  Moved(m, p, maker[m].backup, maker[m].doomed)
  BY <1>1, <1>3 DEF Moved, MakerStates
<1>4. ASSUME NEW D \in SUBSET Numbers, maker' = [maker EXCEPT ![m].doomed = D]
      PROVE  Moved(m, maker[m].pc, maker[m].backup, D)
  BY <1>1, <1>4 DEF Moved, MakerStates
<1>5. ASSUME NEW p \in MakerSteps, NEW D \in SUBSET Numbers,
             maker' = [maker EXCEPT ![m].pc = p, ![m].doomed = D]
      PROVE  Moved(m, p, maker[m].backup, D)
  BY <1>1, <1>5 DEF Moved, MakerStates
<1>6. ASSUME Made(m) PROVE Moved(m, "idle", 0, {})
  <2>1. NotMaking \in MakerStates
    BY BackupsAssumption DEF NotMaking, MakerStates, MakerSteps
  <2> QED BY <1>2, <1>6, <2>1 DEF Made, NotMaking
<1> QED BY <1>2, <1>3, <1>4, <1>5, <1>6

\* Tasks stay apart while one goes on with its backup, and files come of dumps.
LEMMA StaysApart ==
  ASSUME Apart(maker, files), NEW m \in Makers, maker[m].pc # "idle",
         NEW p, NEW b, NEW D, Moved(m, p, b, D),
         p = "idle" \/ (p # "dump" /\ b = maker[m].backup),
         \A n \in Numbers : files[n] = "none" /\ n # maker[m].backup => files'[n] = "none"
  PROVE  Apart(maker', files')
<1>1. \A n \in Makers : maker'[n] = maker[n] \/ n = m
  BY DEF Moved
<1>2. \A n \in Makers : maker'[n].pc # "idle" => maker[n].pc # "idle" /\ maker'[n].backup = maker[n].backup
  BY <1>1 DEF Moved
<1>3. \A n \in Makers : maker'[n].pc = "dump" => n # m /\ maker[n].pc = "dump"
  BY <1>1 DEF Moved
<1> SUFFICES ASSUME NEW n \in Makers, maker'[n].pc # "idle"
             PROVE  /\ maker'[n].backup \in Numbers
                    /\ maker'[n].pc = "dump" => files'[maker'[n].backup] = "none"
                    /\ \A k \in Makers \ {n} :
                         maker'[k].pc # "idle" => maker'[k].backup # maker'[n].backup
  BY DEF Apart
<1>4. /\ maker[n].pc # "idle" /\ maker'[n].backup = maker[n].backup
      /\ maker[n].backup \in Numbers
  BY <1>2 DEF Apart
<1>5. ASSUME maker'[n].pc = "dump" PROVE files'[maker'[n].backup] = "none"
  <2>1. n # m /\ maker[n].pc = "dump" /\ files[maker[n].backup] = "none"
    BY <1>3, <1>4, <1>5 DEF Apart
  <2>2. maker[n].backup # maker[m].backup
    BY <1>4, <2>1 DEF Apart
  <2> QED BY <1>4, <2>1, <2>2
<1>6. ASSUME NEW k \in Makers \ {n}, maker'[k].pc # "idle"
      PROVE  maker'[k].backup # maker'[n].backup
  <2>1. maker[k].pc # "idle" /\ maker'[k].backup = maker[k].backup
    BY <1>2, <1>6
  <2> QED BY <1>4, <2>1 DEF Apart
<1> QED BY <1>4, <1>5, <1>6

DumpOf(mk, b) == \E m \in Makers : mk[m].pc = "dump" /\ mk[m].backup = b
CountOf(mk, b) == \E m \in Makers : mk[m].pc = "count" /\ mk[m].backup = b

\* A step that loses only what is safe, orphans no dump and makes no backup good that is not
\* promised, keeps the promise.
LEMMA Carried ==
  ASSUME BackupsTypeOK, BackupsTypeOK', NEW L, NEW E, Promised(L, E, rows, files, maker, tally),
         NEW K \in SUBSET L,
         tally'.made = tally.made, tally'.discarded = tally.discarded, tally'.least <= tally.least,
         \A b \in L \ K : Safe(L, E, b, tally.least),
         \A b \in K : files'[b] = "complete",
         \A b \in Numbers : DumpOf(maker', b) /\ rows'[b] = "absent" =>
            Safe(L, E, b, tally.least) \/ (DumpOf(maker, b) /\ rows[b] = "absent"),
         \A b \in Numbers : rows'[b] = "ok" \/ CountOf(maker', b) =>
            Safe(L, E, b, tally.least) \/ rows[b] = "ok" \/ CountOf(maker, b) \/ b \in K,
         \A m \in Makers : \A n \in maker'[m].doomed : n \in Numbers /\ Safe(L, E, n, tally.least),
         \A n \in K : rows'[n] = "absent" => Safe(L, E, n, tally.least)
  PROVE  Promised(K, E, rows', files', maker', tally')
<1> DEFINE c == tally.least
           d == tally'.least
           P == Lost(L, E, rows, maker, c)
           P2 == Lost(K, E, rows', maker', d)
           Q == Hollow(L, E, rows, maker, c)
           Q2 == Hollow(K, E, rows', maker', d)
<1>1. /\ L \in SUBSET Numbers /\ E \in Nat
      /\ E + Cardinality(P) <= tally.discarded
      /\ Cardinality(Q) <= E
      /\ tally.made <= Cardinality(L) + E \/ c <= Cardinality(L) + E
  BY DEF Promised
<1>2. c \in Nat /\ d \in Nat /\ tally.made \in Nat /\ tally.discarded \in Nat
  BY BackupNumbers, BackupsAssumption DEF BackupsTypeOK
<1>3. K \in SUBSET Numbers
  BY <1>1
<1>4. /\ \A n \in Numbers : Safe(L, E, n, c) => Safe(K, E, n, c)
      /\ L # K => c <= Cardinality(K) + E
  BY <1>1, <1>2, SafeAfterLoss
<1>5. \A n \in Numbers : Safe(L, E, n, c) => Safe(K, E, n, d)
  <2> TAKE n \in Numbers
  <2> HAVE Safe(L, E, n, c)
  <2>1. Safe(K, E, n, c)
    BY <1>4
  <2> QED BY <1>1, <1>2, <1>3, <2>1, SafeAfterGrowth
<1>6. P2 \in SUBSET P /\ P \in SUBSET Numbers
  BY <1>5 DEF Lost, DumpOf
<1>7. Q2 \in SUBSET Q /\ Q \in SUBSET Numbers
  <2> SUFFICES ASSUME NEW b \in Q2 PROVE b \in Q
    BY DEF Hollow
  <2>1. /\ b \in Numbers /\ b \notin K /\ ~ Safe(K, E, b, d)
        /\ rows'[b] = "ok" \/ CountOf(maker', b)
    BY DEF Hollow, CountOf
  <2>2. ~ Safe(L, E, b, c)
    BY <1>5, <2>1
  <2>3. b \notin L
    BY <2>1, <2>2
  <2>4. rows[b] = "ok" \/ CountOf(maker, b)
    BY <2>1, <2>2
  <2> QED BY <2>1, <2>2, <2>3, <2>4 DEF Hollow, CountOf
<1> HIDE DEF P, P2, Q, Q2
<1>8. E + Cardinality(P2) <= tally'.discarded
  <2>1. Cardinality(P2) <= Cardinality(P) /\ Cardinality(P2) \in Nat /\ Cardinality(P) \in Nat
    BY <1>6, NumbersCount
  <2> QED BY <1>1, <1>2, <2>1
<1>9. Cardinality(Q2) <= E
  <2>1. Cardinality(Q2) <= Cardinality(Q) /\ Cardinality(Q2) \in Nat /\ Cardinality(Q) \in Nat
    BY <1>7, NumbersCount
  <2> QED BY <1>1, <2>1
<1>10. tally'.made <= Cardinality(K) + E \/ d <= Cardinality(K) + E
  <2>1. Cardinality(K) \in Nat
    BY <1>3, NumbersCount
  <2>2. CASE L = K
    BY <1>1, <1>2, <2>1, <2>2
  <2>3. CASE L # K
    BY <1>1, <1>2, <1>4, <2>1, <2>3
  <2> QED BY <2>2, <2>3
<1>11. \A m \in Makers : \A n \in maker'[m].doomed : Safe(K, E, n, d)
  BY <1>5
<1>12. \A n \in K : rows'[n] = "absent" => Safe(K, E, n, d)
  BY <1>3, <1>5
<1> QED BY <1>1, <1>3, <1>8, <1>9, <1>10, <1>11, <1>12 DEF Promised, P2, Q2

\* What an operator discards, S, gives up the promises in it, and perhaps the dumps of it that
\* are under way.
LEMMA Discarded ==
  ASSUME BackupsTypeOK, NEW L, NEW E, Promised(L, E, rows, files, maker, tally), Apart(maker, files),
         NEW S \in SUBSET Numbers, maker' = maker,
         tally'.made = tally.made, tally'.least = tally.least,
         tally'.discarded = tally.discarded + Cardinality(S),
         \A n \in Numbers \ S : rows'[n] = rows[n] /\ files'[n] = files[n],
         \A n \in S : rows'[n] = "ok" => rows[n] = "ok"
  PROVE  \E K, F : Promised(K, F, rows', files', maker', tally')
<1> DEFINE c == tally.least
           K == L \ S
           F == E + Cardinality(L \cap S)
           P == Lost(L, E, rows, maker, c)
           P2 == Lost(K, F, rows', maker', tally'.least)
           Q == Hollow(L, E, rows, maker, c)
           Q2 == Hollow(K, F, rows', maker', tally'.least)
<1>1. /\ L \in SUBSET Numbers /\ E \in Nat
      /\ E + Cardinality(P) <= tally.discarded
      /\ Cardinality(Q) <= E
      /\ tally.made <= Cardinality(L) + E \/ c <= Cardinality(L) + E
  BY DEF Promised
<1>2. c \in Nat /\ tally.made \in Nat /\ tally.discarded \in Nat /\ tally'.least = c
  BY BackupNumbers
<1>3. /\ Cardinality(L) = Cardinality(K) + Cardinality(L \cap S)
      /\ Cardinality(S) = Cardinality(L \cap S) + Cardinality(S \ L)
      /\ Cardinality(L) \in Nat /\ Cardinality(K) \in Nat /\ Cardinality(L \cap S) \in Nat
      /\ Cardinality(S \ L) \in Nat /\ Cardinality(S) \in Nat
      /\ K \in SUBSET Numbers /\ F \in Nat
  <2>1. L \cap S \in SUBSET L /\ L \cap S \in SUBSET S /\ K \in SUBSET Numbers
    BY <1>1
  <2>2. L \ (L \cap S) = K /\ S \ (L \cap S) = S \ L
    OBVIOUS
  <2>3. /\ Cardinality(L) = Cardinality(L \cap S) + Cardinality(K)
        /\ Cardinality(L) \in Nat /\ Cardinality(K) \in Nat /\ Cardinality(L \cap S) \in Nat
    BY <1>1, <2>1, <2>2, NumbersCount, ZenonT(30)
  <2>4. /\ Cardinality(S) = Cardinality(L \cap S) + Cardinality(S \ L)
        /\ Cardinality(S) \in Nat /\ Cardinality(S \ L) \in Nat
    BY <2>1, <2>2, NumbersCount
  <2> QED BY <1>1, <2>1, <2>3, <2>4
<1>4. \A n \in Numbers : Safe(L, E, n, c) => Safe(K, F, n, c)
  <2>1. K \in SUBSET L /\ L \ K = L \cap S
    OBVIOUS
  <2> HIDE DEF K
  <2>2. F \in Nat /\ E + Cardinality(L \ K) <= F
    <3>1. Cardinality(L \ K) = Cardinality(L \cap S)
      BY <2>1
    <3> QED BY <1>1, <1>3, <3>1
  <2> HIDE DEF F
  <2> QED BY <1>1, <1>2, <2>1, <2>2, SafeAfterGivingUp
<1>5. P2 \subseteq P \cup (S \ L)
  <2> SUFFICES ASSUME NEW b \in P2, b \notin P PROVE b \in S \ L
    OBVIOUS
  <2>1. b \in Numbers /\ DumpOf(maker, b) /\ rows'[b] = "absent" /\ ~ Safe(K, F, b, c)
    BY <1>2 DEF Lost, DumpOf
  <2>2. ~ Safe(L, E, b, c)
    BY <1>4, <2>1
  <2>3. rows[b] # "absent"
    BY <2>1, <2>2 DEF Lost, DumpOf
  <2>4. b \in S
    BY <2>1, <2>3
  <2>5. files[b] = "none"
    BY <2>1 DEF Apart, DumpOf
  <2>6. b \notin L
    BY <2>5 DEF Promised
  <2> QED BY <2>4, <2>6
<1>6. Q2 \subseteq Q \cup (L \cap S)
  <2> SUFFICES ASSUME NEW b \in Q2, b \notin L \cap S PROVE b \in Q
    OBVIOUS
  <2>1. /\ b \in Numbers /\ b \notin K /\ ~ Safe(K, F, b, c)
        /\ rows'[b] = "ok" \/ CountOf(maker, b)
    BY <1>2 DEF Hollow, CountOf
  <2>2. ~ Safe(L, E, b, c) /\ b \notin L
    BY <1>4, <2>1
  <2>3. rows[b] = "ok" \/ CountOf(maker, b)
    BY <2>1
  <2> QED BY <2>1, <2>2, <2>3 DEF Hollow, CountOf
<1>7. P \in SUBSET Numbers /\ P2 \in SUBSET Numbers /\ Q \in SUBSET Numbers /\ Q2 \in SUBSET Numbers
  BY DEF Lost, Hollow
<1>8. \A m \in Makers : \A n \in maker'[m].doomed : Safe(K, F, n, c)
  <2>1. \A m \in Makers : \A n \in maker[m].doomed : n \in Numbers /\ Safe(L, E, n, c)
    BY DEF Promised, BackupsTypeOK, MakerStates
  <2> QED BY <1>4, <2>1
<1>9. \A n \in K : files'[n] = "complete" /\ (rows'[n] = "absent" => Safe(K, F, n, c))
  <2> TAKE n \in K
  <2>1. n \in Numbers \ S /\ n \in L
    BY <1>1
  <2>2. files[n] = "complete" /\ (rows[n] = "absent" => Safe(L, E, n, c))
    BY <2>1 DEF Promised
  <2> QED BY <1>4, <2>1, <2>2
<1> HIDE DEF P, P2, Q, Q2
<1>10. F + Cardinality(P2) <= tally'.discarded
  <2>1. Cardinality(P2) <= Cardinality(P) + Cardinality(S \ L)
    BY <1>5, <1>7, CountOfUnion
  <2>2. Cardinality(P2) \in Nat /\ Cardinality(P) \in Nat
    BY <1>7, NumbersCount
  <2> QED BY <1>1, <1>2, <1>3, <2>1, <2>2
<1>11. Cardinality(Q2) <= F
  <2>1. Cardinality(Q2) <= Cardinality(Q) + Cardinality(L \cap S)
    BY <1>1, <1>6, <1>7, CountOfUnion
  <2>2. Cardinality(Q2) \in Nat /\ Cardinality(Q) \in Nat
    BY <1>7, NumbersCount
  <2> QED BY <1>1, <1>3, <2>1, <2>2
<1>12. tally'.made <= Cardinality(K) + F \/ tally'.least <= Cardinality(K) + F
  BY <1>1, <1>2, <1>3
<1>13. Promised(K, F, rows', files', maker', tally')
  BY <1>2, <1>3, <1>8, <1>9, <1>10, <1>11, <1>12 DEF Promised, P2, Q2
<1> QED BY <1>13

\* The end of a dump: the backup is promised from now on, unless its row is gone and too few newer
\* backups are promised; then one promise more is given up, which a discarded row has paid for.
LEMMA Dumped ==
  ASSUME BackupsTypeOK, Apart(maker, files), NEW m \in Makers, maker[m].pc = "dump",
         NEW b, b = maker[m].backup, NEW D, D = maker[m].doomed, Moved(m, "count", b, D),
         rows' = rows, files' = [files EXCEPT ![b] = "complete"],
         tally'.least = tally.least, tally'.discarded = tally.discarded,
         tally'.made \in Nat, tally'.made <= tally.made + 1,
         NEW L, NEW E, Promised(L, E, rows, files, maker, tally)
  PROVE  \E K, F : Promised(K, F, rows', files', maker', tally')
<1> DEFINE c == tally.least
           P == Lost(L, E, rows, maker, c)
           Q == Hollow(L, E, rows, maker, c)
<1>1. /\ L \in SUBSET Numbers /\ E \in Nat
      /\ E + Cardinality(P) <= tally.discarded
      /\ Cardinality(Q) <= E
      /\ tally.made <= Cardinality(L) + E \/ c <= Cardinality(L) + E
  BY DEF Promised
<1>2. c \in Nat /\ tally.made \in Nat /\ tally.discarded \in Nat /\ tally'.least = c
  BY BackupNumbers
<1>3. b \in Numbers /\ b \notin L /\ \A n \in Makers \ {m} : maker[n].pc = "dump" => maker[n].backup # b
  BY DEF Apart, Promised
<1>4. /\ \A n \in Numbers : DumpOf(maker', n) => DumpOf(maker, n) /\ n # b
      /\ \A n \in Numbers : CountOf(maker', n) => CountOf(maker, n) \/ n = b
  BY <1>3 DEF Moved, DumpOf, CountOf
<1>5. \A n \in Makers : maker'[n].doomed = maker[n].doomed
  BY DEF Moved
<1>6. \A n \in Makers : \A x \in maker[n].doomed : x \in Numbers /\ Safe(L, E, x, c)
  BY DEF Promised, BackupsTypeOK, MakerStates
<1>7. \A n \in L : files'[n] = "complete" /\ (rows'[n] = "absent" => Safe(L, E, n, c))
  BY <1>1, <1>3 DEF Promised, BackupsTypeOK
<1>8. files'[b] = "complete"
  BY <1>3 DEF BackupsTypeOK
<1>9. P \in SUBSET Numbers /\ Q \in SUBSET Numbers
  BY DEF Lost, Hollow
<1>10. Cardinality(L) \in Nat /\ Cardinality(P) \in Nat /\ Cardinality(Q) \in Nat
  <2> HIDE DEF P, Q
  <2> QED BY <1>1, <1>9, NumbersCount
<1>11. ASSUME rows[b] # "absent" \/ Safe(L, E, b, c)
       PROVE  \E K, F : Promised(K, F, rows', files', maker', tally')
  <2> DEFINE K == L \cup {b}
             P2 == Lost(K, E, rows', maker', tally'.least)
             Q2 == Hollow(K, E, rows', maker', tally'.least)
  <2>1. K \in SUBSET Numbers /\ L \in SUBSET K /\ K \ L = {b} /\ b \in K
    BY <1>1, <1>3
  <2>2. \A n \in K : n \in L \/ n = b
    OBVIOUS
  <2> HIDE DEF K
  <2>3. Cardinality(K) = Cardinality(L) + 1 /\ Cardinality(K) \in Nat
    <3>1. Cardinality(K) = Cardinality(L) + Cardinality({b}) /\ Cardinality(K) \in Nat
      BY <2>1, NumbersCount
    <3>2. Cardinality({b}) = 1
      BY FS_Singleton
    <3> QED BY <3>1, <3>2
  <2>4. \A n \in Numbers : Safe(L, E, n, c) => Safe(K, E, n, c)
    BY <1>1, <1>2, <2>1, SafeAfterGrowth
  <2>5. P2 \in SUBSET P
    BY <1>2, <1>4, <2>4 DEF Lost, DumpOf
  <2>6. Q2 \in SUBSET Q
    <3> SUFFICES ASSUME NEW n \in Q2 PROVE n \in Q
      OBVIOUS
    <3>1. /\ n \in Numbers /\ n \notin K /\ ~ Safe(K, E, n, c)
          /\ rows[n] = "ok" \/ CountOf(maker', n)
      BY <1>2 DEF Hollow, CountOf
    <3>2. ~ Safe(L, E, n, c) /\ n \notin L /\ n # b
      BY <2>1, <2>4, <3>1
    <3>3. rows[n] = "ok" \/ CountOf(maker, n)
      BY <1>4, <3>1, <3>2
    <3> QED BY <3>1, <3>2, <3>3 DEF Hollow, CountOf
  <2>7. \A n \in Makers : \A x \in maker'[n].doomed : Safe(K, E, x, c)
    BY <1>5, <1>6, <2>4
  <2>8. \A n \in K : files'[n] = "complete" /\ (rows'[n] = "absent" => Safe(K, E, n, c))
    <3> TAKE n \in K
    <3>1. CASE n \in L
      BY <1>1, <1>7, <2>4, <3>1
    <3>2. CASE n = b
      BY <1>3, <1>8, <1>11, <2>4, <3>2
    <3> QED BY <2>2, <3>1, <3>2
  <2> HIDE DEF P, Q, P2, Q2
  <2>9. Cardinality(P2) <= Cardinality(P) /\ Cardinality(P2) \in Nat
    BY <1>9, <2>5, NumbersCount
  <2>10. Cardinality(Q2) <= Cardinality(Q) /\ Cardinality(Q2) \in Nat
    BY <1>9, <2>6, NumbersCount
  <2>11. E + Cardinality(P2) <= tally'.discarded /\ Cardinality(Q2) <= E
    BY <1>1, <1>2, <1>10, <2>9, <2>10
  <2>12. tally'.made <= Cardinality(K) + E \/ tally'.least <= Cardinality(K) + E
    BY <1>1, <1>2, <1>10, <2>3
  <2>13. Promised(K, E, rows', files', maker', tally')
    BY <1>1, <1>2, <2>1, <2>7, <2>8, <2>11, <2>12 DEF Promised, P2, Q2
  <2> QED BY <2>13
<1>12. ASSUME rows[b] = "absent", ~ Safe(L, E, b, c)
       PROVE  \E K, F : Promised(K, F, rows', files', maker', tally')
  <2> DEFINE F == E + 1
             P2 == Lost(L, F, rows', maker', tally'.least)
             Q2 == Hollow(L, F, rows', maker', tally'.least)
  <2>1. F \in Nat /\ E <= F
    BY <1>1
  <2>2. F = E + 1
    OBVIOUS
  <2> HIDE DEF F
  <2>3. \A n \in Numbers : Safe(L, E, n, c) => Safe(L, F, n, c)
    BY <1>1, <1>2, <2>1, SafeAfterGrowth
  <2>4. b \in P
    BY <1>3, <1>12 DEF Lost
  <2>5. P2 \in SUBSET (P \ {b})
    BY <1>2, <1>4, <2>3 DEF Lost, DumpOf
  <2>6. Q2 \subseteq Q \cup {b}
    <3> SUFFICES ASSUME NEW n \in Q2, n # b PROVE n \in Q
      OBVIOUS
    <3>1. /\ n \in Numbers /\ n \notin L /\ ~ Safe(L, F, n, c)
          /\ rows[n] = "ok" \/ CountOf(maker', n)
      BY <1>2 DEF Hollow, CountOf
    <3>2. ~ Safe(L, E, n, c)
      BY <2>3, <3>1
    <3>3. rows[n] = "ok" \/ CountOf(maker, n)
      BY <1>4, <3>1
    <3> QED BY <3>1, <3>2, <3>3 DEF Hollow, CountOf
  <2>7. \A n \in Makers : \A x \in maker'[n].doomed : Safe(L, F, x, c)
    BY <1>5, <1>6, <2>3
  <2>8. \A n \in L : files'[n] = "complete" /\ (rows'[n] = "absent" => Safe(L, F, n, c))
    BY <1>1, <1>7, <2>3
  <2>9. Q2 \in SUBSET Numbers
    BY DEF Hollow
  <2> HIDE DEF P, Q, P2, Q2
  <2>10. Cardinality({b}) = 1 /\ {b} \in SUBSET P /\ {b} \in SUBSET Numbers
    BY <1>3, <2>4, FS_Singleton
  <2>11. Cardinality(P) = 1 + Cardinality(P \ {b}) /\ Cardinality(P \ {b}) \in Nat
    BY <1>9, <2>10, NumbersCount
  <2>12. Cardinality(P2) <= Cardinality(P \ {b}) /\ Cardinality(P2) \in Nat
    <3>1. P \ {b} \in SUBSET Numbers
      BY <1>9
    <3> QED BY <2>5, <3>1, NumbersCount
  <2>13. Cardinality(Q2) <= Cardinality(Q) + 1 /\ Cardinality(Q2) \in Nat
    <3>1. Cardinality(Q2) <= Cardinality(Q) + Cardinality({b})
      BY <1>9, <2>6, <2>10, CountOfUnion
    <3>2. Cardinality(Q2) \in Nat
      BY <2>9, NumbersCount
    <3> QED BY <2>10, <3>1, <3>2
  <2>14. F + Cardinality(P2) <= tally'.discarded /\ Cardinality(Q2) <= F
    BY <1>1, <1>2, <1>10, <2>2, <2>11, <2>12, <2>13
  <2>15. tally'.made <= Cardinality(L) + F \/ tally'.least <= Cardinality(L) + F
    BY <1>1, <1>2, <1>10, <2>2
  <2>16. Promised(L, F, rows', files', maker', tally')
    BY <1>1, <1>2, <2>1, <2>7, <2>8, <2>14, <2>15 DEF Promised, P2, Q2
  <2> QED BY <2>16
<1> QED BY <1>11, <1>12

\* With no backup made, nothing is promised.
LEMMA BackupsStart == BackupsInit => BackupsInv
<1> SUFFICES ASSUME BackupsInit PROVE BackupsInv
  OBVIOUS
<1>1. Most \in Nat /\ keep \in Counts /\ keep \in Nat
  <2>1. Most \in Counts
    BY BackupsAssumption, MaxIsLargest DEF Most
  <2> QED BY <2>1, BackupsAssumption DEF BackupsInit
<1>2. BackupsTypeOK
  <2>1. tally \in [made : 0..Most, discarded : 0..Most, least : Counts]
    <3> HIDE DEF Most
    <3> QED BY <1>1 DEF BackupsInit
  <2>2. maker \in [Makers -> MakerStates]
    BY BackupsAssumption DEF BackupsInit, NotMaking, MakerStates, MakerSteps
  <2> QED BY <1>1, <2>1, <2>2 DEF BackupsInit, BackupsTypeOK
<1>3. Apart(maker, files)
  BY DEF BackupsInit, NotMaking, Apart
<1>4. Promised({}, 0, rows, files, maker, tally)
  <2>1. \A m \in Makers : maker[m] = NotMaking
    BY DEF BackupsInit
  <2>2. /\ Lost({}, 0, rows, maker, tally.least) = {}
        /\ Hollow({}, 0, rows, maker, tally.least) = {}
    BY <2>1 DEF Lost, Hollow, BackupsInit, NotMaking
  <2>3. Cardinality({}) = 0
    BY FS_EmptySet
  <2>4. tally.made = 0 /\ tally.discarded = 0
    BY DEF BackupsInit
  <2>5. \A m \in Makers : maker[m].doomed = {}
    BY <2>1 DEF NotMaking
  <2> QED BY <2>2, <2>3, <2>4, <2>5 DEF Promised
<1>5. tally.least <= keep
  BY <1>1 DEF BackupsInit
<1> QED BY <1>2, <1>3, <1>4, <1>5 DEF BackupsInv

\* A count is kept up to the largest retention count.
LEMMA UpToMost ==
  ASSUME BackupsTypeOK, NEW n \in Nat
  PROVE  UpTo(n) \in 0..Most /\ UpTo(n) <= n /\ (UpTo(n) = Most \/ UpTo(n) = n)
<1>1. Most \in Nat
  BY BackupNumbers
<1> HIDE DEF Most
<1> QED BY <1>1 DEF UpTo

\* A retention that has something to delete has a newest.
LEMMA NewestDoomed ==
  ASSUME BackupsTypeOK, NEW m \in Makers, maker[m].doomed # {}
  PROVE  Max(maker[m].doomed) \in maker[m].doomed /\ Max(maker[m].doomed) \in Numbers
<1>1. maker[m].doomed \in SUBSET Numbers
  BY DEF BackupsTypeOK, MakerStates
<1>2. IsFiniteSet(maker[m].doomed) /\ Numbers \subseteq Nat
  <2>1. Numbers \subseteq Nat
    BY BackupsAssumption DEF Numbers
  <2>2. maker[m].doomed \in SUBSET maker[m].doomed
    OBVIOUS
  <2> QED BY <1>1, <2>1, <2>2, NumbersCount
<1> QED BY <1>1, <1>2, MaxIsLargest

\* The number of a new backup is one that no row, file or task has.
LEMMA NewNumber ==
  ASSUME BackupsTypeOK, NEW used,
         used = {n \in Numbers : rows[n] # "absent" \/ files[n] # "none"}
                  \cup {maker[n].backup : n \in Makers},
         NEW b, b = Max(used \cup {0}) + 1, b <= BackupBound
  PROVE  b \in Numbers /\ b \notin used
<1> DEFINE S == used \cup {0}
<1>1. \A n \in Makers : maker[n].backup \in 0..BackupBound
  BY DEF BackupsTypeOK, MakerStates
<1>2. S \in SUBSET (0..BackupBound)
  BY <1>1, BackupsAssumption DEF Numbers
<1>3. IsFiniteSet(0..BackupBound)
  BY BackupsAssumption, FS_Interval
<1>4. S \in SUBSET Nat /\ S # {} /\ 0 \in S
  BY <1>2, BackupsAssumption
<1>5. IsFiniteSet(S)
  BY <1>2, <1>3, FS_Subset
<1>6. Max(S) \in S /\ \A y \in S : Max(S) >= y
  <2> HIDE DEF S
  <2> QED BY <1>4, <1>5, MaxIsLargest
<1>7. Max(S) \in Nat /\ b = Max(S) + 1 /\ Max(S) >= 0
  BY <1>4, <1>6
<1>8. b \in Numbers
  BY <1>7, BackupsAssumption DEF Numbers
<1>9. b \notin used
  <2> SUFFICES ASSUME b \in used PROVE FALSE
    OBVIOUS
  <2>1. Max(S) >= b
    BY <1>6
  <2> HIDE DEF S
  <2> QED BY <1>7, <2>1
<1> QED BY <1>8, <1>9

\* What an invariant step of the tasks has to show.
Onward ==
  /\ tally'.discarded = tally.discarded /\ tally'.least <= keep'
  /\ BackupsTypeOK' /\ Apart(maker', files')
  /\ \A L, E : Promised(L, E, rows, files, maker, tally)
               => \E K, F : Promised(K, F, rows', files', maker', tally')

\* A step that promises as much as before keeps the invariant.
LEMMA TasksGoOn ==
  ASSUME BackupsInv, Onward
  PROVE  BackupsInv'
<1>1. CASE tally.discarded = Most
  BY <1>1 DEF BackupsInv, Onward, Most
<1>2. CASE \E L, E : Promised(L, E, rows, files, maker, tally)
  BY <1>2 DEF BackupsInv, Onward
<1> QED BY <1>1, <1>2 DEF BackupsInv

\* A backup that begins takes a number that none has, and is promised nothing yet.
LEMMA CreateKeeps ==
  ASSUME BackupsInv, NEW m \in Makers, Create(m)
  PROVE  Onward
<1> USE DEF BackupsInv
<1> DEFINE used == {n \in Numbers : rows[n] # "absent" \/ files[n] # "none"}
                     \cup {maker[n].backup : n \in Makers}
           b == Max(used \cup {0}) + 1
           r == [NotMaking EXCEPT !.pc = "dump", !.backup = b]
<1>1. /\ maker[m].pc = "idle" /\ b <= BackupBound
      /\ rows' = [rows EXCEPT ![b] = "in_progress"] /\ maker' = [maker EXCEPT ![m] = r]
      /\ UNCHANGED <<files, keep, tally>>
  BY DEF Create, MakerAt
<1>2. b \in Numbers /\ b \notin used
  <2>1. used = {n \in Numbers : rows[n] # "absent" \/ files[n] # "none"}
                 \cup {maker[n].backup : n \in Makers} /\ b = Max(used \cup {0}) + 1
    OBVIOUS
  <2> HIDE DEF used, b
  <2> QED BY <1>1, <2>1, NewNumber
<1>3. /\ rows[b] = "absent" /\ files[b] = "none"
      /\ \A n \in Makers : maker[n].backup # b
  BY <1>2
<1> HIDE DEF used, b
<1>4. r \in MakerStates /\ r.pc = "dump" /\ r.backup = b /\ r.doomed = {}
  <2>1. b \in 0..BackupBound
    BY <1>2, BackupsAssumption DEF Numbers
  <2> QED BY <2>1 DEF NotMaking, MakerStates, MakerSteps
<1> HIDE DEF r
<1>5. Moved(m, "dump", b, {})
  <2>1. Moved(m, r.pc, r.backup, r.doomed)
    BY <1>1, <1>4, TaskMoves
  <2> QED BY <1>4, <2>1
<1>6. BackupsTypeOK'
  BY <1>1, <1>5 DEF BackupsTypeOK, Moved
<1>7. Apart(maker', files')
  BY <1>1, <1>2, <1>3, <1>5 DEF Apart, Moved
<1>8. /\ \A n \in Numbers : rows'[n] = IF n = b THEN "in_progress" ELSE rows[n]
      /\ \A n \in Numbers : DumpOf(maker', n) => DumpOf(maker, n) \/ n = b
      /\ \A n \in Numbers : CountOf(maker', n) => CountOf(maker, n)
  BY <1>1, <1>5 DEF BackupsTypeOK, Moved, DumpOf, CountOf
<1>9. ASSUME NEW L, NEW E, Promised(L, E, rows, files, maker, tally)
      PROVE  Promised(L, E, rows', files', maker', tally')
  <2>1. /\ L \in SUBSET Numbers
        /\ \A n \in L : files'[n] = "complete" /\ (rows'[n] = "absent" => Safe(L, E, n, tally.least))
    BY <1>1, <1>8, <1>9 DEF Promised
  <2>2. \A n \in Makers : \A x \in maker'[n].doomed : x \in Numbers /\ Safe(L, E, x, tally.least)
    BY <1>5, <1>9 DEF Promised, Moved, BackupsTypeOK, MakerStates
  <2>3. tally'.made = tally.made /\ tally'.discarded = tally.discarded /\ tally'.least <= tally.least
    BY <1>1, BackupNumbers
  <2> QED BY <1>6, <1>8, <1>9, <2>1, <2>2, <2>3, Carried
<1> QED BY <1>1, <1>6, <1>7, <1>9 DEF Onward

\* Marking a row makes it good or failed, if it is there.
LEMMA RowIsMarked ==
  ASSUME BackupsTypeOK, NEW b \in Numbers, NEW s \in {"ok", "failed"}, rows' = Marked(b, s)
  PROVE  /\ rows' \in [Numbers -> {"absent", "in_progress", "ok", "failed"}]
         /\ \A n \in Numbers : (rows'[n] = "absent") = (rows[n] = "absent")
         /\ \A n \in Numbers : rows'[n] = "ok" => rows[n] = "ok" \/ (n = b /\ s = "ok")
BY DEF Marked, BackupsTypeOK

\* A dump that completes is promised, or given up as lost where its row is gone; one cut short
\* is not promised.
LEMMA DumpKeeps ==
  ASSUME BackupsInv, NEW m \in Makers, Dump(m)
  PROVE  Onward
<1> USE DEF BackupsInv
<1> DEFINE b == maker[m].backup
           D == maker[m].doomed
<1>1. maker[m].pc = "dump" /\ keep' = keep /\ b \in Numbers /\ files[b] = "none"
  BY DEF Dump, MakerAt, Apart
<1>2. ASSUME files' = [files EXCEPT ![b] = "complete"], tally' = [tally EXCEPT !.made = UpTo(@ + 1)],
             MakerGo(m, "count"), rows' = rows
      PROVE  Onward
  <2>1. Moved(m, "count", b, D)
    <3>1. "count" \in MakerSteps
      BY DEF MakerSteps
    <3> QED BY <1>2, <3>1, TaskMoves DEF MakerGo
  <2>2. /\ tally'.made \in 0..Most /\ tally'.made <= tally.made + 1
        /\ tally'.least = tally.least /\ tally'.discarded = tally.discarded
        /\ tally' \in [made : 0..Most, discarded : 0..Most, least : Counts]
    <3>1. tally.made \in Nat /\ tally.made + 1 \in Nat
      BY BackupNumbers
    <3>2. UpTo(tally.made + 1) \in 0..Most /\ UpTo(tally.made + 1) <= tally.made + 1
      BY <3>1, UpToMost
    <3> HIDE DEF Most
    <3> QED BY <1>2, <3>2 DEF BackupsTypeOK
  <2>3. BackupsTypeOK'
    <3>1. files' \in [Numbers -> {"none", "partial", "complete"}]
      BY <1>2 DEF BackupsTypeOK
    <3>2. maker' \in [Makers -> MakerStates]
      BY <2>1 DEF Moved
    <3> QED BY <1>1, <1>2, <2>2, <3>1, <3>2 DEF BackupsTypeOK, Most
  <2>4. Apart(maker', files')
    <3>1. \A n \in Numbers : files[n] = "none" /\ n # b => files'[n] = "none"
      BY <1>2 DEF BackupsTypeOK
    <3> QED BY <1>1, <2>1, <3>1, StaysApart
  <2>5. ASSUME NEW L, NEW E, Promised(L, E, rows, files, maker, tally)
        PROVE  \E K, F : Promised(K, F, rows', files', maker', tally')
    <3>1. tally'.made \in Nat
      <4>1. Most \in Nat
        BY BackupNumbers
      <4> QED BY <2>2, <4>1
    <3> QED BY <1>1, <1>2, <2>1, <2>2, <2>5, <3>1, Dumped
  <2> QED BY <1>1, <2>2, <2>3, <2>4, <2>5 DEF Onward
<1>3. ASSUME files' = [files EXCEPT ![b] = "partial"], rows' = Marked(b, "failed"), Made(m), tally' = tally
      PROVE  Onward
  <2>1. Moved(m, "idle", 0, {})
    BY <1>3, TaskMoves
  <2>2. /\ rows' \in [Numbers -> {"absent", "in_progress", "ok", "failed"}]
        /\ \A n \in Numbers : (rows'[n] = "absent") = (rows[n] = "absent")
        /\ \A n \in Numbers : rows'[n] = "ok" => rows[n] = "ok"
    BY <1>1, <1>3, RowIsMarked
  <2>3. BackupsTypeOK'
    <3>1. files' \in [Numbers -> {"none", "partial", "complete"}]
      BY <1>3 DEF BackupsTypeOK
    <3>2. maker' \in [Makers -> MakerStates]
      BY <2>1 DEF Moved
    <3> QED BY <1>1, <1>3, <2>2, <3>1, <3>2 DEF BackupsTypeOK
  <2>4. Apart(maker', files')
    <3>1. \A n \in Numbers : files[n] = "none" /\ n # b => files'[n] = "none"
      BY <1>3 DEF BackupsTypeOK
    <3> QED BY <1>1, <2>1, <3>1, StaysApart
  <2>5. ASSUME NEW L, NEW E, Promised(L, E, rows, files, maker, tally)
        PROVE  Promised(L, E, rows', files', maker', tally')
    <3>1. /\ L \in SUBSET Numbers
          /\ \A n \in L : files'[n] = "complete" /\ (rows'[n] = "absent" => Safe(L, E, n, tally.least))
      <4>1. b \notin L
        BY <1>1, <2>5 DEF Promised
      <4> QED BY <1>3, <2>2, <2>5, <4>1 DEF Promised, BackupsTypeOK
    <3>2. \A n \in Makers : \A x \in maker'[n].doomed : x \in Numbers /\ Safe(L, E, x, tally.least)
      BY <2>1, <2>5 DEF Promised, Moved, BackupsTypeOK, MakerStates
    <3>3. tally'.made = tally.made /\ tally'.discarded = tally.discarded /\ tally'.least <= tally.least
      BY <1>3, BackupNumbers
    <3>4. /\ \A n \in Numbers : DumpOf(maker', n) => DumpOf(maker, n)
          /\ \A n \in Numbers : CountOf(maker', n) => CountOf(maker, n)
      BY <2>1 DEF Moved, DumpOf, CountOf
    <3> QED BY <2>2, <2>3, <2>5, <3>1, <3>2, <3>3, <3>4, Carried
  <2> QED BY <1>1, <1>3, <2>3, <2>4, <2>5 DEF Onward
<1> QED BY <1>2, <1>3 DEF Dump

RowStates == {"absent", "in_progress", "ok", "failed"}
FileStates == {"none", "partial", "complete"}

\* Whatever was promised, it may do without the backups of S.
Harmless(S) ==
  \A L, E : Promised(L, E, rows, files, maker, tally)
            => \A n \in S \cap L : n \in Numbers /\ Safe(L, E, n, tally.least)
Spare(S) ==
  \A L, E : Promised(L, E, rows, files, maker, tally)
            => \A n \in S : n \in Numbers /\ Safe(L, E, n, tally.least)

\* A task after its dump: it deletes files that may go, and rows that it has doomed.
LEMMA TaskStep ==
  ASSUME BackupsInv, NEW m \in Makers, maker[m].pc \in {"count", "retain", "delete"},
         NEW p \in {"idle", "retain", "delete"}, NEW b, NEW D, Moved(m, p, b, D),
         p = "idle" \/ b = maker[m].backup,
         UNCHANGED <<keep, tally>>,
         rows' \in [Numbers -> RowStates], files' \in [Numbers -> FileStates],
         NEW cleared, Harmless(cleared), Spare(D),
         \A n \in Numbers : files'[n] = files[n] \/ (n \in cleared /\ files'[n] = "none"),
         \A n \in Numbers : rows'[n] = "absent" => rows[n] = "absent" \/ n \in maker[m].doomed,
         \A n \in Numbers : rows'[n] = "ok" => rows[n] = "ok" \/ CountOf(maker, n)
  PROVE  Onward
<1> USE DEF BackupsInv
<1>1. BackupsTypeOK'
  BY DEF BackupsTypeOK, Moved, RowStates, FileStates
<1>2. Apart(maker', files')
  <2>1. \A n \in Numbers : files[n] = "none" /\ n # maker[m].backup => files'[n] = "none"
    OBVIOUS
  <2>2. maker[m].pc # "idle" /\ (p = "idle" \/ (p # "dump" /\ b = maker[m].backup))
    OBVIOUS
  <2> QED BY <2>1, <2>2, StaysApart
<1>3. /\ \A n \in Numbers : DumpOf(maker', n) => DumpOf(maker, n)
      /\ \A n \in Numbers : CountOf(maker', n) => CountOf(maker, n)
  BY DEF Moved, DumpOf, CountOf
<1>4. ASSUME NEW L, NEW E, Promised(L, E, rows, files, maker, tally)
      PROVE  \E K, F : Promised(K, F, rows', files', maker', tally')
  <2> DEFINE K == L \ cleared
  <2>1. L \in SUBSET Numbers /\ K \in SUBSET L
    BY <1>4 DEF Promised
  <2>2. \A n \in L \ K : Safe(L, E, n, tally.least)
    BY <1>4 DEF Harmless
  <2>3. \A n \in K : files'[n] = "complete"
    BY <1>4, <2>1 DEF Promised
  <2>4. \A n \in Makers : \A x \in maker[n].doomed : x \in Numbers /\ Safe(L, E, x, tally.least)
    BY <1>4 DEF Promised, BackupsTypeOK, MakerStates
  <2>5. \A n \in Makers : \A x \in maker'[n].doomed : x \in Numbers /\ Safe(L, E, x, tally.least)
    <3>1. \A x \in D : x \in Numbers /\ Safe(L, E, x, tally.least)
      BY <1>4 DEF Spare
    <3> QED BY <2>4, <3>1 DEF Moved
  <2>6. \A n \in K : rows'[n] = "absent" => Safe(L, E, n, tally.least)
    BY <1>4, <2>1, <2>4 DEF Promised
  <2>7. \A x \in Numbers : DumpOf(maker', x) /\ rows'[x] = "absent" =>
          Safe(L, E, x, tally.least) \/ (DumpOf(maker, x) /\ rows[x] = "absent")
    BY <1>3, <2>4
  <2>8. tally'.made = tally.made /\ tally'.discarded = tally.discarded /\ tally'.least <= tally.least
    BY BackupNumbers
  <2> HIDE DEF K
  <2>9. Promised(K, E, rows', files', maker', tally')
    BY <1>1, <1>3, <1>4, <2>1, <2>2, <2>3, <2>5, <2>6, <2>7, <2>8, Carried
  <2> QED BY <2>9
<1> QED BY <1>1, <1>2, <1>4 DEF Onward

\* What a task has doomed, and nothing, may be done without.
LEMMA DoomedAreSpare ==
  ASSUME BackupsInv, NEW m \in Makers
  PROVE  /\ \A S \in SUBSET maker[m].doomed : Spare(S) /\ Harmless(S)
         /\ Spare({}) /\ Harmless({})
<1>1. maker[m].doomed \in SUBSET Numbers
  BY DEF BackupsInv, BackupsTypeOK, MakerStates
<1>2. \A S \in SUBSET maker[m].doomed : Spare(S)
  BY <1>1 DEF Spare, Promised
<1>3. \A S \in SUBSET maker[m].doomed : Harmless(S)
  BY <1>1 DEF Harmless, Promised
<1> QED BY <1>2, <1>3

\* A row that becomes good says so of a dump that is promised, or that was given up.
LEMMA CompleteKeeps ==
  ASSUME BackupsInv, NEW m \in Makers, Complete(m)
  PROVE  Onward
<1> DEFINE b == maker[m].backup
           D == maker[m].doomed
<1>1. /\ maker[m].pc = "count" /\ UNCHANGED <<files, keep, tally>>
      /\ b \in Numbers /\ BackupsTypeOK /\ files' \in [Numbers -> FileStates]
  BY DEF Complete, MakerAt, BackupsInv, BackupsTypeOK, Apart, FileStates
<1>2. CountOf(maker, b) /\ Spare(D) /\ Harmless({}) /\ Spare({})
  BY <1>1, DoomedAreSpare DEF CountOf
<1>3. ASSUME rows' = Marked(b, "ok"), MakerGo(m, "retain") PROVE Onward
  <2>1. Moved(m, "retain", b, D)
    <3>1. "retain" \in MakerSteps
      BY DEF MakerSteps
    <3> QED BY <1>1, <1>3, <3>1, TaskMoves DEF MakerGo
  <2>2. /\ rows' \in [Numbers -> RowStates]
        /\ \A n \in Numbers : rows'[n] = "absent" => rows[n] = "absent"
        /\ \A n \in Numbers : rows'[n] = "ok" => rows[n] = "ok" \/ n = b
    BY <1>1, <1>3, RowIsMarked DEF RowStates
  <2>3. \A n \in Numbers : files'[n] = files[n]
    BY <1>1
  <2> QED BY <1>1, <1>2, <2>1, <2>2, <2>3, TaskStep
<1>4. ASSUME rows' = Marked(b, "failed"), Made(m) PROVE Onward
  <2>1. Moved(m, "idle", 0, {})
    BY <1>1, <1>4, TaskMoves
  <2>2. /\ rows' \in [Numbers -> RowStates]
        /\ \A n \in Numbers : rows'[n] = "absent" => rows[n] = "absent"
        /\ \A n \in Numbers : rows'[n] = "ok" => rows[n] = "ok"
    BY <1>1, <1>4, RowIsMarked DEF RowStates
  <2>3. \A n \in Numbers : files'[n] = files[n]
    BY <1>1
  <2> QED BY <1>1, <1>2, <2>1, <2>2, <2>3, TaskStep
<1> QED BY <1>3, <1>4 DEF Complete

\* What a retention chooses is beyond what is promised.
LEMMA RetainKeeps ==
  ASSUME BackupsInv, NEW m \in Makers, Retain(m)
  PROVE  Onward
<1> DEFINE b == maker[m].backup
<1>1. /\ maker[m].pc = "retain" /\ UNCHANGED <<rows, files, keep, tally>>
      /\ BackupsTypeOK /\ files' \in [Numbers -> FileStates] /\ rows' \in [Numbers -> RowStates]
  BY DEF Retain, MakerAt, BackupsInv, BackupsTypeOK, FileStates, RowStates
<1>2. Beyond(keep) \in SUBSET Numbers
  BY DEF Beyond
<1>3. Moved(m, "delete", b, Beyond(keep))
  <2>1. "delete" \in MakerSteps
    BY DEF MakerSteps
  <2> QED BY <1>1, <1>2, <2>1, TaskMoves DEF Retain
<1>4. Spare(Beyond(keep)) /\ Harmless({})
  <2>1. ASSUME NEW L, NEW E, Promised(L, E, rows, files, maker, tally), NEW n \in Beyond(keep)
        PROVE  n \in Numbers /\ Safe(L, E, n, tally.least)
    BY <2>1, BeyondIsSafe DEF BackupsInv
  <2>2. Spare(Beyond(keep))
    BY <2>1 DEF Spare
  <2> QED BY <2>2, DoomedAreSpare
<1> QED BY <1>1, <1>3, <1>4, TaskStep

\* A retention that fails loses at most the file of one backup that is safe to lose.
LEMMA RetentionFailsKeeps ==
  ASSUME BackupsInv, NEW m \in Makers, RetentionFails(m)
  PROVE  Onward
<1> DEFINE b == maker[m].backup
           D == maker[m].doomed
<1>1. /\ maker[m].pc \in {"retain", "delete"} /\ UNCHANGED <<keep, tally>>
      /\ b \in Numbers /\ BackupsTypeOK /\ rows' = Marked(b, "failed") /\ Made(m)
  BY DEF RetentionFails, BackupsInv, Apart
<1>2. Moved(m, "idle", 0, {}) /\ Spare({})
  BY <1>1, TaskMoves, DoomedAreSpare
<1>3. /\ rows' \in [Numbers -> RowStates]
      /\ \A n \in Numbers : rows'[n] = "absent" => rows[n] = "absent"
      /\ \A n \in Numbers : rows'[n] = "ok" => rows[n] = "ok"
  BY <1>1, RowIsMarked DEF RowStates
<1>4. PICK cleared \in SUBSET D :
        /\ files' \in [Numbers -> FileStates]
        /\ \A n \in Numbers : files'[n] = files[n] \/ (n \in cleared /\ files'[n] = "none")
  <2>1. CASE files' = files
    <3>1. {} \in SUBSET D /\ files' \in [Numbers -> FileStates]
      BY <1>1, <2>1 DEF BackupsTypeOK, FileStates
    <3> QED BY <2>1, <3>1
  <2>2. CASE D # {} /\ files' = [files EXCEPT ![Max(D)] = "none"]
    <3>1. Max(D) \in D /\ Max(D) \in Numbers
      BY <1>1, <2>2, NewestDoomed
    <3>2. /\ {Max(D)} \in SUBSET D /\ files' \in [Numbers -> FileStates]
          /\ \A n \in Numbers : files'[n] = files[n] \/ (n \in {Max(D)} /\ files'[n] = "none")
      BY <1>1, <2>2, <3>1 DEF BackupsTypeOK, FileStates
    <3> QED BY <3>2
  <2> QED BY <2>1, <2>2 DEF RetentionFails
<1>5. Harmless(cleared)
  BY DoomedAreSpare
<1> QED BY <1>1, <1>2, <1>3, <1>4, <1>5, TaskStep

\* A deletion of the retention takes what is safe to lose.
LEMMA DeleteKeeps ==
  ASSUME BackupsInv, NEW m \in Makers, Delete(m)
  PROVE  Onward
<1> DEFINE b == maker[m].backup
           D == maker[m].doomed
           x == Max(D)
<1>1. /\ maker[m].pc = "delete" /\ UNCHANGED <<keep, tally>> /\ BackupsTypeOK
      /\ x \in D /\ x \in Numbers /\ DeleteRow(x) /\ maker' = [maker EXCEPT ![m].doomed = D \ {x}]
  BY NewestDoomed DEF Delete, MakerAt, BackupsInv
<1> HIDE DEF x
<1>2. D \ {x} \in SUBSET D /\ {x} \in SUBSET D /\ D \ {x} \in SUBSET Numbers
  BY <1>1 DEF BackupsTypeOK, MakerStates
<1>3. Moved(m, "delete", b, D \ {x}) /\ Spare(D \ {x}) /\ Harmless({x})
  BY <1>1, <1>2, TaskMoves, DoomedAreSpare
<1>4. /\ rows' \in [Numbers -> RowStates] /\ files' \in [Numbers -> FileStates]
      /\ \A n \in Numbers : rows'[n] = "absent" => rows[n] = "absent" \/ n \in D
      /\ \A n \in Numbers : rows'[n] = "ok" => rows[n] = "ok"
      /\ \A n \in Numbers : files'[n] = files[n] \/ (n \in {x} /\ files'[n] = "none")
  BY <1>1 DEF DeleteRow, BackupsTypeOK, RowStates, FileStates
<1> QED BY <1>1, <1>3, <1>4, TaskStep

\* A file that is reaped has no row: it is not promised.
LEMMA ReapKeeps ==
  ASSUME BackupsInv, NEW m \in Makers, Reap(m)
  PROVE  Onward
<1>1. /\ maker[m].pc = "delete" /\ UNCHANGED <<rows, keep, tally>> /\ BackupsTypeOK /\ Made(m)
      /\ rows' \in [Numbers -> RowStates]
  BY DEF Reap, MakerAt, BackupsInv, BackupsTypeOK, RowStates
<1>2. PICK old \in SUBSET {f \in Numbers : files[f] # "none" /\ rows[f] = "absent"} :
        files' = [f \in Numbers |-> IF f \in old THEN "none" ELSE files[f]]
  BY DEF Reap
<1>3. Moved(m, "idle", 0, {}) /\ Spare({})
  BY <1>1, TaskMoves, DoomedAreSpare
<1>4. Harmless(old)
  BY DEF Harmless, Promised
<1>5. /\ files' \in [Numbers -> FileStates]
      /\ \A n \in Numbers : files'[n] = files[n] \/ (n \in old /\ files'[n] = "none")
  BY <1>1, <1>2 DEF BackupsTypeOK, FileStates
<1> QED BY <1>1, <1>3, <1>4, <1>5, TaskStep

\* A task that dies leaves its row and its file as they are.
LEMMA BackupCrashKeeps ==
  ASSUME BackupsInv, BackupCrash
  PROVE  Onward
<1> USE DEF BackupsInv
<1>1. UNCHANGED <<rows, files, keep, tally>> /\ maker' = [n \in Makers |-> NotMaking]
  BY DEF BackupCrash
<1>2. \A n \in Makers : maker'[n].pc = "idle" /\ maker'[n].doomed = {}
  BY <1>1 DEF NotMaking
<1>3. BackupsTypeOK' /\ Apart(maker', files')
  <2>1. NotMaking \in MakerStates
    BY BackupsAssumption DEF NotMaking, MakerStates, MakerSteps
  <2>2. Apart(maker', files')
    BY <1>2 DEF Apart
  <2> QED BY <1>1, <2>1, <2>2 DEF BackupsTypeOK
<1>4. ASSUME NEW L, NEW E, Promised(L, E, rows, files, maker, tally)
      PROVE  Promised(L, E, rows', files', maker', tally')
  <2>1. \A n \in Numbers : ~ DumpOf(maker', n) /\ ~ CountOf(maker', n)
    BY <1>2 DEF DumpOf, CountOf
  <2>2. /\ L \in SUBSET Numbers
        /\ \A n \in L : files'[n] = "complete" /\ (rows'[n] = "absent" => Safe(L, E, n, tally.least))
    BY <1>1, <1>4 DEF Promised
  <2>3. tally'.made = tally.made /\ tally'.discarded = tally.discarded /\ tally'.least <= tally.least
    BY <1>1, BackupNumbers
  <2> QED BY <1>1, <1>2, <1>3, <1>4, <2>1, <2>2, <2>3, Carried
<1> QED BY <1>1, <1>3, <1>4 DEF Onward

\* A retention count that an operator sets promises no more than the least one did.
LEMMA UpdateConfigKeeps ==
  ASSUME BackupsInv, UpdateConfig
  PROVE  Onward
<1> USE DEF BackupsInv
<1>1. PICK count \in Counts \ {keep} :
        /\ keep' = count /\ tally' = [tally EXCEPT !.least = Min({@, count})]
        /\ UNCHANGED <<rows, files, maker>>
  BY DEF UpdateConfig
<1> DEFINE d == Min({tally.least, count})
<1>2. tally.least \in Counts /\ tally.least \in Nat /\ count \in Counts /\ count \in Nat
  BY BackupNumbers, BackupsAssumption DEF BackupsTypeOK
<1>3. d \in Counts /\ d <= tally.least /\ d <= count
  <2>1. \E x \in {tally.least, count} : \A y \in {tally.least, count} : x <= y
    BY <1>2
  <2>2. d \in {tally.least, count} /\ \A y \in {tally.least, count} : d <= y
    BY <2>1 DEF Min
  <2> HIDE DEF d
  <2> QED BY <1>2, <2>2
<1> HIDE DEF d
<1>4. tally'.least = d /\ tally'.made = tally.made /\ tally'.discarded = tally.discarded
  BY <1>1 DEF BackupsTypeOK, d
<1>5. BackupsTypeOK' /\ Apart(maker', files')
  <2>1. tally' \in [made : 0..Most, discarded : 0..Most, least : Counts]
    <3> HIDE DEF Most
    <3> QED BY <1>1, <1>3 DEF BackupsTypeOK, d
  <2> QED BY <1>1, <2>1 DEF BackupsTypeOK, Most, Apart
<1>6. ASSUME NEW L, NEW E, Promised(L, E, rows, files, maker, tally)
      PROVE  Promised(L, E, rows', files', maker', tally')
  <2>1. /\ L \in SUBSET Numbers
        /\ \A n \in L : files'[n] = "complete" /\ (rows'[n] = "absent" => Safe(L, E, n, tally.least))
    BY <1>1, <1>6 DEF Promised
  <2>2. \A n \in Makers : \A x \in maker'[n].doomed : x \in Numbers /\ Safe(L, E, x, tally.least)
    BY <1>1, <1>6 DEF Promised, BackupsTypeOK, MakerStates
  <2> QED BY <1>1, <1>3, <1>4, <1>5, <1>6, <2>1, <2>2, Carried
<1> QED BY <1>1, <1>3, <1>4, <1>5, <1>6 DEF Onward

\* An operator that discards the backups S, and touches no other.
LEMMA DiscardKeeps ==
  ASSUME BackupsInv, NEW S \in SUBSET Numbers, Discards(S), UNCHANGED <<keep, maker>>,
         rows' \in [Numbers -> RowStates], files' \in [Numbers -> FileStates],
         \A n \in Numbers : files'[n] = files[n] \/ files'[n] = "none",
         \A n \in Numbers \ S : rows'[n] = rows[n] /\ files'[n] = files[n],
         \A n \in S : rows'[n] = "ok" => rows[n] = "ok"
  PROVE  BackupsInv'
<1> DEFINE more == tally.discarded + Cardinality(S)
<1>1. /\ tally.discarded < Most /\ tally' = [tally EXCEPT !.discarded = UpTo(more)]
      /\ BackupsTypeOK /\ tally.least <= keep /\ Apart(maker, files)
  BY DEF Discards, BackupsInv
<1>2. more \in Nat
  <2>1. Cardinality(S) \in Nat
    BY NumbersCount
  <2> QED BY <1>1, <2>1, BackupNumbers
<1>3. UpTo(more) \in 0..Most /\ (UpTo(more) = Most \/ UpTo(more) = more)
  BY <1>1, <1>2, UpToMost
<1> DEFINE u == UpTo(more)
<1>4. tally'.discarded = u /\ tally'.made = tally.made /\ tally'.least = tally.least
  BY <1>1 DEF BackupsTypeOK
<1>5. BackupsTypeOK' /\ Apart(maker', files') /\ tally'.least <= keep'
  <2>1. tally' \in [made : 0..Most, discarded : 0..Most, least : Counts]
    <3> HIDE DEF u, Most
    <3> QED BY <1>1, <1>3 DEF BackupsTypeOK, u
  <2>2. Apart(maker', files')
    BY <1>1 DEF Apart
  <2>3. tally'.least <= keep'
    BY <1>1, <1>4
  <2> QED BY <1>1, <2>1, <2>2, <2>3 DEF BackupsTypeOK, Most, RowStates, FileStates
<1>6. CASE u = Most
  BY <1>4, <1>5, <1>6 DEF BackupsInv, Most
<1>7. CASE u # Most
  <2>1. tally.discarded # Most
    <3>1. Most \in Nat /\ tally.discarded \in Nat
      BY <1>1, BackupNumbers
    <3> QED BY <1>1, <3>1
  <2>2. PICK L, E : Promised(L, E, rows, files, maker, tally)
    BY <2>1 DEF BackupsInv
  <2>3. tally'.discarded = tally.discarded + Cardinality(S)
    BY <1>3, <1>4, <1>7
  <2>4. \E K, F : Promised(K, F, rows', files', maker', tally')
    BY <1>1, <1>4, <2>2, <2>3, Discarded
  <2> QED BY <1>5, <2>4 DEF BackupsInv
<1> QED BY <1>6, <1>7

\* What an operator deletes is counted as given up.
LEMMA OperatorDeletesKeeps ==
  ASSUME BackupsInv, NEW b \in Numbers, OperatorDeletes(b)
  PROVE  BackupsInv'
<1>1. /\ Discards({b}) /\ UNCHANGED <<keep, maker>> /\ BackupsTypeOK
      /\ DeleteRow(b) \/ (files' = [files EXCEPT ![b] = "none"] /\ UNCHANGED rows)
  BY DEF OperatorDeletes, BackupsInv
<1>2. /\ rows' \in [Numbers -> RowStates] /\ files' \in [Numbers -> FileStates]
      /\ \A n \in Numbers : files'[n] = files[n] \/ files'[n] = "none"
      /\ \A n \in Numbers \ {b} : rows'[n] = rows[n] /\ files'[n] = files[n]
      /\ \A n \in {b} : rows'[n] = "ok" => rows[n] = "ok"
  BY <1>1 DEF DeleteRow, BackupsTypeOK, RowStates, FileStates
<1> QED BY <1>1, <1>2, DiscardKeeps

\* A restore counts every backup from the restored one on as given up.
LEMMA RestoreKeeps ==
  ASSUME BackupsInv, NEW b \in Numbers, Restore(b)
  PROVE  BackupsInv'
<1> DEFINE S == {n \in Numbers : n >= b /\ (rows[n] # "absent" \/ files[n] # "none")}
<1>1. /\ rows[b] = "ok" /\ Discards(S) /\ UNCHANGED <<files, keep, maker>> /\ BackupsTypeOK
      /\ rows' = [n \in Numbers |-> IF n > b THEN "absent" ELSE IF n = b THEN "in_progress" ELSE rows[n]]
  BY DEF Restore, BackupsInv
<1>2. Numbers \subseteq Int
  BY BackupsAssumption DEF Numbers
<1>3. /\ rows' \in [Numbers -> RowStates] /\ files' \in [Numbers -> FileStates]
      /\ \A n \in Numbers : files'[n] = files[n]
  BY <1>1 DEF BackupsTypeOK, RowStates, FileStates
<1>4. ASSUME NEW n \in Numbers \ S PROVE rows'[n] = rows[n]
  <2>1. n \in Int /\ b \in Int
    BY <1>2
  <2>2. n < b \/ n = b \/ n > b
    BY <2>1
  <2>3. CASE n < b
    BY <1>1, <2>1, <2>3
  <2>4. CASE n = b
    BY <1>1, <2>1, <2>4
  <2>5. CASE n > b
    BY <1>1, <2>1, <2>5
  <2> QED BY <2>2, <2>3, <2>4, <2>5
<1>5. \A n \in S : rows'[n] # "ok"
  <2> TAKE n \in S
  <2>1. n >= b /\ n \in Int /\ b \in Int /\ n \in Numbers
    BY <1>2
  <2>2. n > b \/ n = b
    BY <2>1
  <2> QED BY <1>1, <2>1, <2>2
<1>6. S \in SUBSET Numbers
  OBVIOUS
<1> HIDE DEF S
<1> QED BY <1>1, <1>3, <1>4, <1>5, <1>6, DiscardKeeps

\* Every step of every task and of the operators keeps the invariant.
LEMMA BackupsStep == BackupsInv /\ [BackupsNext]_backupVars => BackupsInv'
<1> SUFFICES ASSUME BackupsInv, [BackupsNext]_backupVars PROVE BackupsInv'
  OBVIOUS
<1>1. ASSUME NEW m \in Makers, Create(m) \/ Dump(m) \/ Complete(m) \/ Retain(m) PROVE BackupsInv'
  BY <1>1, CreateKeeps, DumpKeeps, CompleteKeeps, RetainKeeps, TasksGoOn
<1>2. ASSUME NEW m \in Makers, RetentionFails(m) \/ Delete(m) \/ Reap(m) PROVE BackupsInv'
  BY <1>2, RetentionFailsKeeps, DeleteKeeps, ReapKeeps, TasksGoOn
<1>3. ASSUME BackupCrash \/ UpdateConfig PROVE BackupsInv'
  BY <1>3, BackupCrashKeeps, UpdateConfigKeeps, TasksGoOn
<1>4. ASSUME NEW b \in Numbers, OperatorDeletes(b) \/ Restore(b) PROVE BackupsInv'
  BY <1>4, OperatorDeletesKeeps, RestoreKeeps
<1>5. CASE UNCHANGED backupVars
  BY <1>5 DEF backupVars, BackupsInv, BackupsTypeOK, Most
<1> QED BY <1>1, <1>2, <1>3, <1>4, <1>5 DEF BackupsNext

==============================================================================
